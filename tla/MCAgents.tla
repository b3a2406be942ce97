------------------------------- MODULE MCAgents -------------------------------
EXTENDS Agents

Str(id) == Value("str", id)
Number(id) == Value("int", id)

Function(qualname, params, returns, coroutine) ==
    [qualname |-> qualname, params |-> params, positional |-> TRUE,
     returns |-> returns, coroutine |-> coroutine]
Self == Parameter("self", {}, Empty)
Who == Parameter("who", {"str"}, Empty)
Times == Parameter("times", {"int"}, << Number("one") >>)
Note == Parameter("note", {}, << None >>)

\* Two functions of one name, a method and what overrides it in a class derived, as
\* a plain function or not, and what a workflow runs and is signaled by.
MCFn ==
    [greet |-> Function("greet", << Who, Times >>, {"str"}, TRUE),
     shadow |-> Function("greet", << Times, Note >>, {}, FALSE),
     count |-> Function("Base.count", << Self, Times, Note >>, {"int"}, FALSE),
     counted |-> Function("Derived.count", << Self, Times, Note >>, {"int"}, FALSE),
     counted_async |-> Function("Derived.count", << Self, Times, Note >>, {"int"}, TRUE),
     invoke_model |-> invoke_model,
     run |-> Function("Flow.run", << Self, Who, Times >>, {}, TRUE),
     approve |-> Function("Flow.approve", << Self, Note >>, {}, TRUE)]

Greet == Decorated("greet", "")
\* Decorated twice, it kept the first name.
Shadow == DecoratedAgain(Decorated("shadow", ""), "shadow")
Count == MethodDecorated("count", "count")

MCFunctions == {Greet, Shadow}

\* An object with both; the class itself; and the worker's OpenAIActivities.
MCObjects ==
    [object |-> << Bound(Rebound(Count, "counted"), "object"), Greet >>,
     broken |-> << Bound(Rebound(Count, "counted_async"), "broken") >>,
     class |-> << Count >>,
     openai |-> << OpenAIActivities("worker's") >>]

Member(private, isRun, signal, fn) ==
    [private |-> private, run |-> isRun, signal |-> signal, fn |-> fn]

\* A workflow, and classes with no run method and with two signals of one name.
MCClasses ==
    {[name |-> "Flow", members |->
        << Member(FALSE, FALSE, "approve", "approve"), Member(FALSE, TRUE, "", "run") >>],
     [name |-> "NoRun", members |-> << Member(TRUE, TRUE, "", "run") >>],
     [name |-> "Twice", members |->
        << Member(FALSE, FALSE, "approve", "approve"),
           Member(FALSE, FALSE, "approve", "approve"),
           Member(FALSE, TRUE, "", "run") >>]}

Call(args, kwargs) == [args |-> args, kwargs |-> kwargs]
MCCalls ==
    {Call(<< >>, << >>), Call(<< Str("bob") >>, << >>),
     Call(<< Str("bob") >>, [times |-> Number("two")]),
     Call(<< Number("two"), Value("dataclass", "note") >>, << >>),
     Call(<< >>, [note |-> Number("zero"), times |-> Number("two")]),
     Call(<< Value("socket", "s") >>, << >>)}

MCCallables == {Greet, Shadow, Count, Bound(Rebound(Count, "counted"), "object")}

Handoff(to, wrapped) == [to |-> to, wrapped |-> wrapped]
AgentOf(name, kind, handoffs) ==
    [model |-> [kind |-> kind, name |-> name], handoffs |-> handoffs,
     tools |-> "functions", mcp |-> FALSE]

\* Two that hand off to each other, and one whose last handoff is an object.
MCDeclared ==
    [a |-> AgentOf("m1", "name", << Handoff("b", FALSE) >>),
     b |-> AgentOf("m2", "name", << Handoff("a", FALSE) >>),
     c |-> AgentOf("m3", "name", << Handoff("b", FALSE), Handoff("d", TRUE) >>),
     d |-> [AgentOf("m4", "name", << >>) EXCEPT !.tools = "hosted", !.mcp = TRUE]]

Size(r) == Cardinality(DOMAIN activities[r] \cup DOMAIN workflows[r])

\* Calls share nothing but the registries: one stands for all.  The worker's registry
\* is filled by itself, also while a call waits, or it is the sum of two small ones,
\* which are ready before anything is called.  Agents run where little else is
\* registered, and nothing else is called once their models have changed.
InOrder ==
    /\ registries' # registries => stage \in {"none", "scheduled"} /\ run = NoRun
    /\ Size("r1")' <= 1 /\ Size("r2")' <= 1
    /\ IF Size("r1") + Size("r2") = 0 THEN Size("sum")' <= 2
       ELSE Size("sum") = 0 => UNCHANGED call
    /\ Size("sum") > 0 /\ Size("r1") + Size("r2") > 0 => registries' = registries
    /\ agentVars' # agentVars => Size("sum") <= 1 /\ Size("r1") + Size("r2") = 0
    /\ call' # call /\ run' = NoRun => model = [a \in Agents |-> Declared[a].model]
=============================================================================
