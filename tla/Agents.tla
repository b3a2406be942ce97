-------------------------------- MODULE Agents --------------------------------
(***************************************************************************)
(* Agents of the OpenAI SDK in workflows: CadenceAgentRunner puts a model  *)
(* of its own in place of the one an agent names, and that model executes  *)
(* the activity invoke_model.  Agents are objects that outlive a run, and  *)
(* refer to each other in any way.                                         *)
(*                                                                         *)
(* The SDK's loop over turns is external: it asks the model of the current *)
(* agent, and goes on with the same agent (a tool was called), with one it *)
(* hands off to, or ends.                                                  *)
(***************************************************************************)
EXTENDS Application, Functions

CONSTANTS
    Agents,
    Declared,       \* of an agent: [model, handoffs, tools, mcp], as it was made
    RunModels,      \* models a run may be configured with, "" for none
    MaxTurns        \* the SDK's bound on the turns of a run

VARIABLES
    model,          \* of every agent, what its field holds: [kind, name]
    run,            \* the run, if there is one
    refused         \* has a run been refused?

agentVars == << model, run, refused >>
vars == << applicationVars, agentVars >>

NoRun == [stage |-> "none"]

AgentsInit ==
    /\ ApplicationInit
    /\ model = [a \in Agents |-> Declared[a].model]
    /\ run = NoRun
    /\ refused = FALSE

-----------------------------------------------------------------------------
(* The activity                                                            *)

Maybe(type) == {type, "NoneType"}
InvokeModelParameters ==
    << << "model_name", {"str"} >>, << "system_instructions", Maybe("str") >>,
       << "input", {"str", "list"} >>, << "model_settings", {"dataclass"} >>,
       << "tools", {"list"} >>, << "output_schema", Maybe("dataclass") >>,
       << "handoffs", {"list"} >>, << "tracing", {"enum"} >>,
       << "previous_response_id", Maybe("str") >>, << "conversation_id", Maybe("str") >>,
       << "prompt", Maybe("dict") >> >>

\* Fn["invoke_model"]
invoke_model ==
    [qualname |-> "OpenAIActivities.invoke_model",
     params |-> [i \in 1..12 |->
         IF i = 1 THEN Parameter("self", {}, Empty)
         ELSE Parameter(InvokeModelParameters[i - 1][1], InvokeModelParameters[i - 1][2],
                        Empty)],
     positional |-> TRUE, returns |-> {"dataclass"}, coroutine |-> TRUE]

\* OpenAIActivities(): every model has one of its own, and the worker another.
OpenAIActivities(object) == Bound(MethodDecorated("invoke_model", ""), object)

\* get_response passes everything by name; of it all only the model's name differs.
Invocation(name) ==
    [parameter \in {p[1] : p \in Range(InvokeModelParameters)} |->
        IF parameter = "model_name" THEN Value("str", name)
        ELSE LET hint == (CHOOSE p \in Range(InvokeModelParameters) : p[1] = parameter)[2]
             IN  IF "NoneType" \in hint THEN None
                 ELSE Value(CHOOSE t \in hint : TRUE, parameter)]

-----------------------------------------------------------------------------
(* The runner                                                              *)

CadenceModel(name) == [kind |-> "cadence", name |-> name]

\* Mutant of Replacing: the agents a replaced one hands off to are forgotten.
Replacing_one(todo, s) ==
    IF s.model[Head(todo).to].kind = "name"
    THEN [s EXCEPT !.model[Head(todo).to] = CadenceModel(@.name)]
    ELSE [s EXCEPT !.raised = s.model[Head(todo).to].kind = "object"]

\* _replace_model_in_agent, depth first: s is what the agents' models are by now, and
\* whether something raised.  An agent has its new model before its handoffs are
\* looked at, so that circles end, and keeps it when one of them raises.
RECURSIVE Replacing(_, _)
Replacing(todo, s) ==
    IF todo = << >> THEN s
    ELSE LET agent == Head(todo).to
         IN  CASE Head(todo).wrapped \/ s.model[agent].kind = "object" ->
                    [s EXCEPT !.raised = TRUE]
               [] ~Head(todo).wrapped /\ s.model[agent].kind = "cadence" ->
                    Replacing(Tail(todo), s)
               [] OTHER ->
                    Replacing(Declared[agent].handoffs \o Tail(todo),
                              [s EXCEPT !.model[agent] = CadenceModel(@.name)])

Replaced(agent) ==
    Replacing(<< [to |-> agent, wrapped |-> FALSE] >>, [model |-> model, raised |-> FALSE])

Turn(agent, config, turns) ==
    run' = [stage |-> "turn", agent |-> agent, config |-> config, turns |-> turns]

\* There is one call at a time, and one run.
Idle == run.stage = "none" /\ stage = "none"

\* Mutant of Run: the model of the run's configuration becomes the agent's own.
Run_configuring_agent(agent, config) ==
    /\ Idle /\ ~Declared[agent].mcp /\ ~Replaced(agent).raised
    /\ model' = IF config = "" THEN Replaced(agent).model
                ELSE [Replaced(agent).model EXCEPT ![agent] = CadenceModel(config)]
    /\ Turn(agent, config, MaxTurns)
    /\ UNCHANGED << refused, applicationVars >>

Run(agent, config) ==
    /\ Idle /\ ~Declared[agent].mcp /\ ~Replaced(agent).raised
    /\ model' = Replaced(agent).model
    /\ Turn(agent, config, MaxTurns)
    /\ UNCHANGED << refused, applicationVars >>

\* A model that is an object, or a handoff that is one: some agents have changed.
RunRaises(agent) ==
    /\ Idle /\ ~Declared[agent].mcp /\ Replaced(agent).raised
    /\ model' = Replaced(agent).model
    /\ refused' = TRUE
    /\ UNCHANGED << run, applicationVars >>

\* The model of a run's configuration goes before those of the agents.
ModelInUse == IF run.config = "" THEN model[run.agent] ELSE CadenceModel(run.config)

\* to_cadence_tool knows function tools only.
Describable(agent) == Declared[agent].tools = "functions"

\* get_response: the call leaves the workflow as an activity.
GetResponse ==
    /\ run.stage = "turn" /\ run.turns > 0
    /\ ModelInUse.kind = "cadence"
    /\ Describable(run.agent)
    /\ Execute(OpenAIActivities("model's"), "call", << >>, Invocation(ModelInUse.name))
    /\ run' = [run EXCEPT !.stage = "waiting", !.turns = @ - 1]
    /\ UNCHANGED << model, refused >>

\* The SDK finds the model of that name itself and calls it from the workflow.
CallFromWorkflow ==
    /\ run.stage = "turn" /\ run.turns > 0
    /\ ModelInUse.kind # "cadence"
    /\ run' = [run EXCEPT !.stage = "direct", !.turns = @ - 1]
    /\ UNCHANGED << model, refused, applicationVars >>

\* The model answered: it wants a tool, or the run goes to another agent.
Continue ==
    /\ \/ run.stage = "waiting" /\ stage = "completed" /\ Take
       \/ run.stage = "direct" /\ UNCHANGED call
    /\ \E next \in {run.agent} \cup {h.to : h \in Range(Declared[run.agent].handoffs)} :
        Turn(next, run.config, run.turns)
    /\ UNCHANGED << model, refused, registries, converter >>

\* With an output, with an exception of the model or of a tool that cannot be
\* described (to_cadence_tool), or behind too many turns.
RunEnds ==
    /\ \/ run.stage = "waiting" /\ Take
       \/ /\ \/ run.stage = "direct"
             \/ run.stage = "turn" /\ run.turns = 0
             \/ /\ run.stage = "turn" /\ ModelInUse.kind = "cadence"
                /\ ~Describable(run.agent)
          /\ UNCHANGED call
    /\ run' = NoRun
    /\ UNCHANGED << model, refused, registries, converter >>

AgentsNext ==
    \/ /\ \/ run.stage = "none" /\ ApplicationNext
          \/ run.stage # "none" /\ Registering /\ UNCHANGED << converter, call >>
          \/ run.stage # "none" /\ Serving
       /\ UNCHANGED agentVars
    \/ \E agent \in Agents :
        (\E config \in RunModels : Run(agent, config)) \/ RunRaises(agent)
    \/ GetResponse \/ CallFromWorkflow \/ Continue \/ RunEnds

AgentsSpec == AgentsInit /\ [][AgentsNext]_vars

-----------------------------------------------------------------------------
(* Properties                                                              *)

\* Until a run of some agents was refused, every model call of every run is made by
\* an activity and none from the workflow, which is what a replay rests on
\* (cadence_agent_runner.py:41).
CallsAreActivities == run.stage = "direct" => refused

\* An agent gets the model it was made with, or that of the run, whatever earlier
\* runs made of its field (cadence_agent_runner.py:51, cadence_model.py:43).
AgentsGetTheirModel ==
    run.stage = "waiting" /\ Ran =>
        seen[1] = Value("str", IF run.config # "" THEN run.config
                                    ELSE Declared[run.agent].model.name)
=============================================================================
