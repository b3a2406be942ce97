-------------------------------- MODULE Client --------------------------------
(***************************************************************************)
(* The calls of a Client, one after the other.  Each builds one request    *)
(* and sends it through the interceptors, which repeat it; the service may *)
(* execute an attempt at once, late, behind the end of the call or never,  *)
(* whatever the client is told.                                            *)
(*                                                                         *)
(* The service is external.  It is modelled by what the client's           *)
(* request_id counts on: it knows the requests it has executed.            *)
(***************************************************************************)
EXTENDS RpcRetry, Sequences, FiniteSets

CONSTANTS
    Options,        \* the StartWorkflowOptions callers pass
    Arguments,      \* what callers pass: subset of {"none", "encodable", "unencodable"}
    MaxCalls        \* bound: calls of the client

Durations == {"absent", "negative", "zero", "positive"}

\* A workflow_id is "" when it is not given.
ASSUME OptionsAssumption ==
    Options \subseteq [task_list: {"", "given"}, workflow_id: STRING,
                       execution_start_to_close_timeout: Durations,
                       task_start_to_close_timeout: Durations,
                       delay_start: Durations, jitter_start: Durations,
                       first_run_at: {"absent", "naive", "before epoch", "valid"}]
ASSUME ArgumentsAssumption == Arguments \subseteq {"none", "encodable", "unencodable"}
ASSUME MaxCallsAssumption == MaxCalls \in Nat

AlreadyStarted == [code |-> "ALREADY_EXISTS", current |-> "", active |-> "",
                   detail |-> "WorkflowExecutionAlreadyStartedError"]
NotExists == [code |-> "NOT_FOUND", current |-> "", active |-> "",
              detail |-> "EntityNotExistsError"]
AlreadyCompleted == [code |-> "NOT_FOUND", current |-> "", active |-> "",
                     detail |-> "WorkflowExecutionAlreadyCompletedError"]
Done == [code |-> "OK", current |-> "", active |-> "", detail |-> "none"]
Refusals == {AlreadyStarted, NotExists, AlreadyCompleted}
\* Nothing else says that a workflow was already started.
ASSUME RefusalsAssumption ==
    /\ Refusals \subseteq Statuses
    /\ \A s \in Statuses : s.detail = AlreadyStarted.detail => s = AlreadyStarted

VARIABLES
    calls,      \* the calls that were made, in order: their requests
    outcomes,   \* of those that ended: what they returned or raised
    uuids,      \* how many uuid4() were drawn
    wire,       \* requests that were sent: the service executes one at any time,
                \* once or more often
    answer,     \* what it answers the attempt under way
    runs,       \* the executions the service has started, in order
    signals     \* the signals it has recorded, in order

rpcVars == << method, now, lag, stage, until, attempts, sent, err >>
serviceVars == << runs, signals >>
clientVars == << rpcVars, calls, outcomes, uuids, wire, answer, serviceVars >>

-----------------------------------------------------------------------------
(* Requests                                                                *)

\* _validate_and_apply_defaults returns; zero is no timeout at all.
Accepts(options) ==
    /\ options.task_list # ""
    /\ options.execution_start_to_close_timeout = "positive"
    /\ options.task_start_to_close_timeout \in {"absent", "positive"}
    /\ options.delay_start # "negative"
    /\ options.jitter_start # "negative"
    /\ options.first_run_at \in {"absent", "valid"}

\* What was absent gets its default; what may stay absent is not sent.
_validate_and_apply_defaults(options) ==
    [options EXCEPT !.task_start_to_close_timeout = "positive"]

\* A uuid is named by its number.
Uuid(n) == << "uuid", n >>

NoRun == 0

\* A request: what it asks, of which workflow and run, and its request_id.
Request(kind, workflow, run, id) ==
    [kind |-> kind, workflow |-> workflow, run |-> run, request_id |-> id]

WorkflowId(options) ==
    IF options.workflow_id = "" THEN Uuid(uuids + 1) ELSE << options.workflow_id >>

\* The id of the workflow is drawn first, if it is not given.
_build_start_workflow_request(kind, options) ==
    LET drawn == IF options.workflow_id = "" THEN 1 ELSE 0
    IN  /\ uuids' = uuids + drawn + 1
        /\ calls' = Append(calls, Request(kind, WorkflowId(options), NoRun, uuids + drawn + 1))

-----------------------------------------------------------------------------
(* The client's methods                                                    *)

ClientInit ==
    /\ method = "other" /\ now = 0 /\ lag = 0 /\ stage = "idle" /\ until = 0
    /\ attempts = 0 /\ sent = 0 /\ err = NoError
    /\ calls = << >> /\ outcomes = << >> /\ uuids = 0
    /\ wire = {} /\ answer = << >> /\ runs = << >> /\ signals = << >>

Idle == ~Active /\ Len(calls) < MaxCalls

\* The stub hands the request to the interceptors.
Invoke(m) ==
    /\ method' = m /\ now' = 0 /\ lag' = 0 /\ stage' = "started" /\ until' = 0
    /\ attempts' = 0 /\ sent' = 0 /\ err' = NoError
    /\ answer' = << >>
    /\ UNCHANGED << outcomes, wire, serviceVars >>

\* Options that are refused or arguments that cannot be encoded: a ValueError,
\* and nothing is sent.
RaiseValueError ==
    /\ Idle
    /\ (\E o \in Options : ~Accepts(o)) \/ "unencodable" \in Arguments
    /\ calls' = Append(calls, Request("none", << >>, NoRun, 0))
    /\ outcomes' = Append(outcomes, "ValueError")
    /\ UNCHANGED << rpcVars, uuids, wire, answer, serviceVars >>

start_workflow(options, args) ==
    /\ Idle
    /\ Accepts(options) /\ args # "unencodable"
    /\ _build_start_workflow_request("start", _validate_and_apply_defaults(options))
    /\ Invoke("other")

\* The caller names a run, or none to reach the current one.
signal_workflow(workflow, run, args) ==
    /\ Idle
    /\ args # "unencodable"
    /\ uuids' = uuids + 1
    /\ calls' = Append(calls, Request("signal", workflow, run, uuids + 1))
    /\ Invoke("other")

signal_with_start_workflow(options, signal_args, args) ==
    /\ Idle
    /\ Accepts(options) /\ args # "unencodable" /\ signal_args # "unencodable"
    /\ _build_start_workflow_request("signal_with_start", _validate_and_apply_defaults(options))
    /\ Invoke("other")

\* A worker's call through the same interceptors.
GetWorkflowExecutionHistory ==
    /\ Idle
    /\ calls' = Append(calls, Request("history", << >>, NoRun, 0))
    /\ Invoke("GetWorkflowExecutionHistory")
    /\ UNCHANGED uuids

-----------------------------------------------------------------------------
(* An attempt and its end                                                  *)

CurrentCall == Len(calls)

\* Mutant of SentRequest: every attempt draws a request_id of its own.
SentRequest_with_fresh_id == [calls[CurrentCall] EXCEPT !.request_id = @ + 100 * sent]

\* The interceptors repeat the request the method has built.
SentRequest == calls[CurrentCall]

SendAttempt ==
    /\ Attempt
    /\ wire' = wire \cup {[call |-> CurrentCall, request |-> SentRequest]}
    /\ answer' = << >>
    /\ UNCHANGED << calls, outcomes, uuids, serviceVars >>

End(outcome) == outcomes' = Append(outcomes, outcome)

\* What the interceptor does with an error: the call raises it, or goes on.
EndIfFailed == IF stage' = "failed" THEN End(err'.class) ELSE UNCHANGED outcomes

\* Mutant of Answered: the call returns before its answer is there.
Answered_unawaited ==
    /\ Succeed
    /\ End("answered")
    /\ UNCHANGED << calls, uuids, wire, answer, serviceVars >>

\* The method returns what the service answered.
Answered ==
    /\ answer # << >> /\ answer[1] \notin Refusals
    /\ Succeed
    /\ End("answered")
    /\ UNCHANGED << calls, uuids, wire, answer, serviceVars >>

Refused ==
    /\ answer # << >> /\ answer[1] \in Refusals
    /\ FailWith(answer[1])
    /\ EndIfFailed
    /\ UNCHANGED << calls, uuids, wire, answer, serviceVars >>

\* The attempt breaks, whether or not the service has executed it or will.  Only
\* for a history does it name clusters.
AttemptBreaks ==
    /\ stage = "calling"
    /\ \/ \E s \in Statuses \ Refusals :
              (s.detail = "none" \/ calls[CurrentCall].kind = "history") /\ FailWith(s)
       \/ TimeOut
    /\ EndIfFailed
    /\ UNCHANGED << calls, uuids, wire, answer, serviceVars >>

CallerIsCancelled ==
    /\ Cancel
    /\ End("CancelledError")
    /\ UNCHANGED << calls, uuids, wire, answer, serviceVars >>

TimePasses == Tick /\ UNCHANGED << calls, outcomes, uuids, wire, answer, serviceVars >>

-----------------------------------------------------------------------------
(* The service                                                             *)

\* The runs the service started for a request, and the open ones of a workflow.
StartedBy(request) == {i \in DOMAIN runs : runs[i].request_id = request.request_id}
OpenRuns(workflow) == {i \in DOMAIN runs : runs[i].workflow = workflow /\ runs[i].open}
Recorded(request) == \E i \in DOMAIN signals : signals[i].request_id = request.request_id

StartRun(m) ==
    runs' = Append(runs, [workflow |-> m.request.workflow, request_id |-> m.request.request_id,
                          call |-> m.call, open |-> TRUE])
Record(m) ==
    signals' = Append(signals, [request_id |-> m.request.request_id, call |-> m.call])

ServeStart(m, reply) ==
    /\ m.request.kind = "start"
    /\ UNCHANGED signals
    /\ CASE StartedBy(m.request) # {} -> reply = Done /\ UNCHANGED runs
         [] StartedBy(m.request) = {} /\ OpenRuns(m.request.workflow) # {} ->
                reply = AlreadyStarted /\ UNCHANGED runs
         [] OTHER -> reply = Done /\ StartRun(m)

\* A closed run takes no signal, not even one it has.
ServeSignal(m, reply) ==
    LET named == {i \in DOMAIN runs : /\ runs[i].workflow = m.request.workflow
                                      /\ m.request.run \in {NoRun, i}}
        open == named \cap OpenRuns(m.request.workflow)
    IN  /\ m.request.kind = "signal"
        /\ UNCHANGED runs
        /\ CASE named = {} -> reply = NotExists /\ UNCHANGED signals
             [] named # {} /\ open = {} -> reply = AlreadyCompleted /\ UNCHANGED signals
             [] OTHER -> /\ reply = Done
                         /\ IF Recorded(m.request) THEN UNCHANGED signals ELSE Record(m)

ServeSignalWithStart(m, reply) ==
    /\ m.request.kind = "signal_with_start"
    /\ reply = Done
    /\ IF Recorded(m.request)
       THEN UNCHANGED serviceVars
       ELSE /\ Record(m)
            /\ IF OpenRuns(m.request.workflow) # {} THEN UNCHANGED runs ELSE StartRun(m)

ServeHistory(m, reply) ==
    /\ m.request.kind = "history"
    /\ reply = Done
    /\ UNCHANGED serviceVars

\* The answer reaches the attempt that is under way, if it is one of that call.
Execute(m) ==
    /\ \E reply \in Refusals \cup {Done} :
        /\ \/ ServeStart(m, reply)
           \/ ServeSignal(m, reply)
           \/ ServeSignalWithStart(m, reply)
           \/ ServeHistory(m, reply)
        /\ answer' = IF stage = "calling" /\ m.call = CurrentCall THEN << reply >> ELSE answer
    /\ UNCHANGED << rpcVars, calls, outcomes, uuids, wire >>

\* Somebody else starts a workflow of that id, once.
OthersStart(options) ==
    /\ options.workflow_id # "" /\ OpenRuns(WorkflowId(options)) = {}
    /\ \A i \in DOMAIN runs : runs[i].call # 0
    /\ runs' = Append(runs, [workflow |-> WorkflowId(options), request_id |-> 0,
                             call |-> 0, open |-> TRUE])
    /\ UNCHANGED << rpcVars, calls, outcomes, uuids, wire, answer, signals >>

RunCloses(i) ==
    /\ runs[i].open
    /\ runs' = [runs EXCEPT ![i].open = FALSE]
    /\ UNCHANGED << rpcVars, calls, outcomes, uuids, wire, answer, signals >>

-----------------------------------------------------------------------------
Calls ==
    \/ RaiseValueError
    \/ \E o \in Options, a \in Arguments : start_workflow(o, a)
    \/ \E o \in Options, a, b \in Arguments : signal_with_start_workflow(o, a, b)
    \/ \E i \in DOMAIN runs, a \in Arguments :
           \E run \in {NoRun, i} : signal_workflow(runs[i].workflow, run, a)
    \/ \E a \in Arguments : signal_workflow(<< "unknown" >>, NoRun, a)
    \/ GetWorkflowExecutionHistory

Service ==
    \/ \E m \in wire : Execute(m)
    \/ \E o \in Options : OthersStart(o)
    \/ \E i \in DOMAIN runs : RunCloses(i)

ClientNext ==
    \/ Calls \/ SendAttempt \/ Answered \/ Refused \/ AttemptBreaks
    \/ CallerIsCancelled \/ TimePasses \/ Service

ClientSpec == ClientInit /\ [][ClientNext]_clientVars

\* As in RpcRetry; nothing is assumed of the service or of the callers.
FairClientSpec ==
    /\ ClientSpec
    /\ WF_clientVars(TimePasses) /\ WF_clientVars(SendAttempt)
    /\ WF_clientVars(TimeOut /\ AttemptBreaks)

-----------------------------------------------------------------------------
(* Properties                                                              *)

\* However often a call is repeated and however late its attempts are executed,
\* it starts one run and records one signal: the attempts share a request_id.
EffectsOnce ==
    \A s \in {runs, signals} : \A i, j \in DOMAIN s :
        s[i].call = s[j].call => i = j

\* A start that is told the workflow runs already met somebody else's run: never
\* only an attempt of its own.
RefusedByOthers ==
    \A c \in DOMAIN outcomes :
        outcomes[c] = "WorkflowExecutionAlreadyStartedError" =>
            \E i \in DOMAIN runs : runs[i].call # c /\ runs[i].workflow = calls[c].workflow

\* What the client reports as done is done, and signals are recorded in the order
\* in which a caller that waits for each answer has sent them.
AnsweredInOrder ==
    \A c \in DOMAIN outcomes : outcomes[c] = "answered" =>
        /\ calls[c].kind = "start" => \E i \in DOMAIN runs : runs[i].call = c
        /\ calls[c].kind \in {"signal", "signal_with_start"} =>
               \E i \in DOMAIN signals :
                   /\ signals[i].call = c
                   /\ \A j \in 1..i : signals[j].call <= c
=============================================================================
