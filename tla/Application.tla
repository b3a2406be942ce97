----------------------------- MODULE Application -----------------------------
(***************************************************************************)
(* A call by name: a workflow executes the definition of an activity, or a *)
(* client starts a workflow, and a worker looks the name up in its own     *)
(* registry, calls what it finds there, and answers.                       *)
(*                                                                         *)
(* Calls share nothing but the registries, so there is one at a time.  How *)
(* a call becomes a decision and how its answer is reported is in          *)
(* WorkflowReplay and ActivityExecution.                                   *)
(***************************************************************************)
EXTENDS Registry

CONSTANTS
    Served,         \* the worker's registry
    Converters,     \* "default" or "pydantic", client and worker share one
    Calls,          \* the arguments callers pass: [args, kwargs]
    Callables       \* the definitions of activities that are called

ASSUME ServedAssumption == Served \in Registries

VARIABLES
    converter,
    stage,          \* of the call, "none" until there is one
    task,           \* the call: its kind and definition, its arguments and payload
    by,             \* << >>, or << what was found under its name and ran >>
    seen,           \* what the function got for its parameters
    answer          \* << >>, << what it returned >>, or that and what came of it

call == << stage, task, by, seen, answer >>
applicationVars == << registries, converter, call >>

-----------------------------------------------------------------------------
NoTask == [kind |-> "none"]

ApplicationInit ==
    /\ RegistryInit
    /\ converter \in Converters
    /\ stage = "none" /\ task = NoTask /\ by = Empty /\ seen = Empty /\ answer = Empty

\* Scheduled with its payload: an activity by its definition, a workflow by name.
Scheduled(kind, definition, args, kwargs, values) ==
    /\ stage = "none" /\ Encodable(values)
    /\ stage' = "scheduled"
    /\ task' = [kind |-> kind, definition |-> definition, args |-> args,
                kwargs |-> kwargs, payload |-> to_data(values)]
    /\ UNCHANGED << registries, converter, by, seen, answer >>

\* In a workflow, calling an async definition is to execute it, and calling a sync
\* one raises.
Invocable(definition, via) == via = "call" => Strategy(definition) = "ASYNC"

Execute(definition, via, args, kwargs) ==
    /\ Invocable(definition, via)
    /\ CallIsAccepted(Params(definition), args, kwargs)
    /\ Scheduled("activity", definition, args, kwargs,
                 params_from_call(Params(definition), args, kwargs))

\* Client.start_workflow: the arguments go as they are, whatever the workflow takes.
StartWorkflow(definition, args) == Scheduled("workflow", definition, args, << >>, args)

-----------------------------------------------------------------------------
(* The worker                                                              *)

Table == IF task.kind = "activity" THEN activities[Served] ELSE workflows[Served]
Known == task.definition.name \in DOMAIN Table
Found == Table[task.definition.name]

\* params_from_payload, by the signature of what was found
Decodes == FromDataIsAccepted(converter, task.payload, Hints(Params(Found)))
Values == from_data(task.payload, Hints(Params(Found)))

\* Python binds from left to right what impl_fn is called with: a function that is
\* still a class's takes the first value for its self.
Slots(definition) ==
    IF definition.of = "class" THEN Fn[definition.fn].params ELSE Signature[definition.fn]
Callable(definition, values) ==
    /\ Len(values) <= Len(Slots(definition))
    /\ \A i \in DOMAIN Slots(definition) :
        i > Len(values) => Slots(definition)[i].default # Empty
\* What its other parameters get.
Binding(definition, values) ==
    LET bound == [i \in DOMAIN Slots(definition) |->
                    IF i <= Len(values) THEN values[i] ELSE Slots(definition)[i].default[1]]
    IN  IF definition.of = "class" THEN Tail(bound) ELSE bound

\* In a thread, a coroutine function only makes a coroutine.
Runs(definition) == Strategy(definition) = "THREAD_POOL" => ~Fn[definition.fn].coroutine
\* In the loop, the result of a plain function is not awaitable.
Awaits(definition) == Strategy(definition) = "ASYNC" => Fn[definition.fn].coroutine

\* The executor, and WorkflowInstance.start for a workflow
Handle ==
    /\ stage = "scheduled"
    /\ Known /\ Decodes /\ Callable(Found, Values) /\ Runs(Found)
    /\ stage' = "ran"
    /\ by' = << Found >>
    /\ seen' = Binding(Found, Values)
    /\ UNCHANGED << registries, converter, task, answer >>

HandleFails ==
    /\ stage = "scheduled"
    /\ ~(Known /\ Decodes /\ Callable(Found, Values) /\ Runs(Found))
    /\ stage' = "failed"
    /\ UNCHANGED << registries, converter, task, by, seen, answer >>

\* A function returns what it is annotated with, if it is.
Results(fn) ==
    IF Fn[fn].returns = {} THEN {None, Value("dict", "result")}
    ELSE {Value(t, "result") : t \in Fn[fn].returns}

Return ==
    /\ stage = "ran"
    /\ Awaits(by[1])
    /\ stage' = "returned"
    /\ \E value \in Results(by[1].fn) : answer' = << value >>
    /\ UNCHANGED << registries, converter, task, by, seen >>

\* The function raises, is not to be awaited, or returns what cannot be encoded.
Fail ==
    /\ stage = "ran"
    /\ stage' = "failed"
    /\ UNCHANGED << registries, converter, task, by, seen, answer >>

\* execute_activity decodes the answer by what its own definition returns; nobody
\* decodes a workflow's.
Complete ==
    LET hints == << Returns(task.definition) >>
        payload == to_data(answer)
        decodes == task.kind = "activity" => FromDataIsAccepted(converter, payload, hints)
    IN  /\ stage = "returned"
        /\ stage' = IF decodes THEN "completed" ELSE "failed"
        /\ answer' = IF decodes /\ task.kind = "activity"
                     THEN answer \o from_data(payload, hints) ELSE answer
        /\ UNCHANGED << registries, converter, task, by, seen >>

\* The caller has its answer, or its exception.
Take ==
    /\ stage \in {"completed", "failed"}
    /\ stage' = "none" /\ task' = NoTask
    /\ by' = Empty /\ seen' = Empty /\ answer' = Empty
    /\ UNCHANGED << registries, converter >>

Calling ==
    \/ \E definition \in Callables, via \in {"execute", "call"}, c \in Calls :
            Execute(definition, via, c.args, c.kwargs)
    \/ \E cls \in {k \in Classes : Wrappable(k)}, c \in {k \in Calls : DOMAIN k.kwargs = {}} :
            StartWorkflow(Wrapped(cls, ""), c.args)

Serving == Handle \/ HandleFails \/ Return \/ Fail \/ Complete

ApplicationNext ==
    \/ Registering /\ UNCHANGED << converter, call >>
    \/ Calling
    \/ Serving
    \/ Take

ApplicationSpec == ApplicationInit /\ [][ApplicationNext]_applicationVars

-----------------------------------------------------------------------------
(* Properties                                                              *)

Ran == by # Empty

\* Whatever else shares its name in the application, a definition the worker's
\* registry took, itself or in a sum, is the one that runs when it is called
\* (_registry.py:163, 200).
ServedByItsOwn ==
    Ran /\ << task.kind, Served, task.definition >> \in registered =>
        by = << task.definition >>

\* What Python would bind to parameter i, had the caller called the function.
Meant(i) ==
    LET p == Params(task.definition)[i]
    IN  IF i <= Len(task.args) THEN task.args[i]
        ELSE IF p.name \in DOMAIN task.kwargs THEN task.kwargs[p.name] ELSE DefaultValue(p)
Sent(i) == task.kind = "activity" \/ i <= Len(task.args)
Keeps(hint, value) == IF Untyped(hint) THEN Json(value) = value ELSE value.type \in hint

\* A value that the hint of its parameter, or of the result, admits arrives as it
\* was: by position or by name, with the values of the others around it, through
\* the payload, at a method's function that lost its self to an object
\* (fn_signature.py:28, data_converter.py:37).
ValuesArrive ==
    /\ Ran /\ by[1].fn = task.definition.fn /\ by[1].of # "class" =>
        \A i \in DOMAIN Params(task.definition) :
            Sent(i) /\ Keeps(Params(task.definition)[i].hint, Meant(i)) =>
                seen[i] = Meant(i)
    /\ Len(answer) = 2 /\ Keeps(Returns(task.definition), answer[1]) =>
        answer[2] = answer[1]
=============================================================================
