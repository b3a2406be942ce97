----------------------------- MODULE DecisionTask -----------------------------
(***************************************************************************)
(* DecisionTaskHandler and iterate_history_events: what a worker does with *)
(* the decision tasks of one execution, from the poll to the answer, while *)
(* the service times tasks out and starts others and workers die.          *)
(*                                                                         *)
(* Several tasks may be worked on at once: one that timed out and the one  *)
(* that was started after it.  The workflow engine is one step here; it    *)
(* is WorkflowReplay that looks into it.  So is a call of the service with *)
(* all its attempts (RpcRetry): the service may execute it late, more than *)
(* once or never, whatever the worker is told.                             *)
(***************************************************************************)
EXTENDS Naturals, Sequences

CONSTANTS
    Tasks,      \* the tasks of one execution, by their tokens
    PageSize,   \* PAGE_SIZE
    MaxEvents   \* bound: events in the history

ASSUME PageSizeAssumption == PageSize \in Nat /\ PageSize > 0
ASSUME MaxEventsAssumption == MaxEvents \in Nat

VARIABLES
    length,     \* the service: events in the history
    status,     \* the service: what became of each task
    started,    \* the service: the length of history when the task was started
    basis,      \* history: the events that decisions it accepted were taken from
    sent,       \* answers on their way; one that was sent may arrive at any time
    stage,      \* where the handler of a task is
    events,     \* workflow_events, with the page that came with the task
    token       \* next_page_token: the first event of the next page, or 0

serviceVars == << length, status, started, basis >>
pageVars == << events, token >>
vars == << serviceVars, sent, stage, pageVars >>

\* Events are named by their places in history.
Page(first, last) == [i \in 1..(last + 1 - first) |-> first + i - 1]

Completed(t) == [task |-> t, kind |-> "completed", events |-> events[t]]
Failed(t) == [task |-> t, kind |-> "failed", events |-> << >>]

Init ==
    /\ length = 1
    /\ status = [t \in Tasks |-> "none"]
    /\ started = [t \in Tasks |-> 0]
    /\ basis = [t \in Tasks |-> << >>]
    /\ sent = {}
    /\ stage = [t \in Tasks |-> "none"]
    /\ events = [t \in Tasks |-> << >>]
    /\ token = [t \in Tasks |-> 0]

-----------------------------------------------------------------------------
(* The service                                                             *)

EventArrives ==
    /\ length < MaxEvents
    /\ length' = length + 1
    /\ UNCHANGED << status, started, basis, sent, stage, pageVars >>

Start(t) ==
    /\ status[t] = "none"
    /\ \A u \in Tasks : status[u] # "open"
    /\ status' = [status EXCEPT ![t] = "open"]
    /\ started' = [started EXCEPT ![t] = length]
    /\ UNCHANGED << length, basis, sent >>

\* The token behind a page that ends with the event last, of n events.
NextToken(last, n) == IF last = n THEN 0 ELSE last + 1

\* A poll is answered with a task and the first page of its history, which may
\* be empty.
HandOut(t) ==
    /\ Start(t)
    /\ \E last \in 0..length :
           /\ last <= PageSize
           /\ events' = [events EXCEPT ![t] = Page(1, last)]
           /\ token' = [token EXCEPT ![t] = NextToken(last, length)]
    /\ stage' = [stage EXCEPT ![t] = "received"]

\* The answer of the poll is lost, or the task comes with the answer to
\* RespondDecisionTaskCompleted (return_new_decision_task), which the handler
\* does not look at.
HandOutUnseen(t) == Start(t) /\ UNCHANGED << stage, pageVars >>

\* An answer arrives while its task is open.  The service refuses the others.
Settle(m) ==
    /\ m \in sent
    /\ status[m.task] = "open"
    /\ status' = [status EXCEPT ![m.task] = m.kind]
    /\ basis' = [basis EXCEPT ![m.task] = m.events]
    /\ UNCHANGED << length, started, sent, stage, pageVars >>

TimeOut(t) ==
    /\ status[t] = "open"
    /\ status' = [status EXCEPT ![t] = "timed out"]
    /\ UNCHANGED << length, started, basis, sent, stage, pageVars >>

-----------------------------------------------------------------------------
(* The handler of a task                                                   *)

\* The steps of the handler that go on to the next stage.
Advance(t, from, to) ==
    /\ stage[t] = from
    /\ stage' = [stage EXCEPT ![t] = to]
    /\ UNCHANGED << serviceVars, pageVars >>

\* handle_task catches what the implementation raised at a stage, and
\* handle_task_failure reports it.
Raise(t, at) ==
    /\ Advance(t, at, "failing")
    /\ sent' = sent \cup {Failed(t)}

GetWorkflow(t) == Advance(t, "received", "paging") /\ UNCHANGED sent

\* The type of the workflow is not registered.
UnknownWorkflow(t) == Raise(t, "received")

\* GetWorkflowExecutionHistory answers with the page of the token.
FetchPage(t) ==
    /\ stage[t] = "paging"
    /\ token[t] # 0
    /\ \E last \in token[t]..started[t] :
           /\ last < token[t] + PageSize
           /\ events' = [events EXCEPT ![t] = @ \o Page(token[t], last)]
           /\ token' = [token EXCEPT ![t] = NextToken(last, started[t])]
    /\ UNCHANGED << serviceVars, sent, stage >>

\* Mutant of FetchFails: what was fetched is taken for the history.
FetchFails_ending_history(t) ==
    /\ token[t] # 0
    /\ Advance(t, "paging", "deciding")
    /\ UNCHANGED sent
FetchFails(t) ==
    /\ token[t] # 0
    /\ Raise(t, "paging")

HistoryRead(t) ==
    /\ token[t] = 0
    /\ Advance(t, "paging", "deciding")
    /\ UNCHANGED sent

\* process_decision returns and RespondDecisionTaskCompleted is called.
Decide(t) ==
    /\ Advance(t, "deciding", "completing")
    /\ sent' = sent \cup {Completed(t)}

EngineRaises(t) == Raise(t, "deciding")

\* A CancelledError leaves the engine: it is no Exception, and nobody answers.
EngineCancelled(t) == Advance(t, "deciding", "cancelled") /\ UNCHANGED sent

\* RespondDecisionTaskCompleted returns, so the service has accepted it.
Confirmed(t) ==
    /\ status[t] = "completed"
    /\ Advance(t, "completing", "done")
    /\ UNCHANGED sent

\* Mutant of AnswerFails: the error is logged and not raised again.
AnswerFails_logged(t) == Advance(t, "completing", "done") /\ UNCHANGED sent

\* RespondDecisionTaskCompleted raises, whether or not the service has
\* accepted it or will.
AnswerFails(t) == Raise(t, "completing")

\* Mutant of ReportEnds: the failure is reported until the service takes it.
ReportEnds_when_taken(t) ==
    /\ status[t] = "failed"
    /\ Advance(t, "failing", "done")
    /\ UNCHANGED sent

\* RespondDecisionTaskFailed returns, or raises what is logged.
ReportEnds(t) == Advance(t, "failing", "done") /\ UNCHANGED sent

Handle(t) ==
    \/ GetWorkflow(t) \/ UnknownWorkflow(t)
    \/ FetchPage(t) \/ FetchFails(t) \/ HistoryRead(t)
    \/ Decide(t) \/ EngineRaises(t) \/ EngineCancelled(t)
    \/ Confirmed(t) \/ AnswerFails(t)
    \/ ReportEnds(t)

Working == {"received", "paging", "deciding", "completing", "failing"}

\* The worker's process ends, with all its handlers.
WorkerDies ==
    /\ \E t \in Tasks : stage[t] \in Working
    /\ stage' = [t \in Tasks |-> IF stage[t] \in Working THEN "lost" ELSE stage[t]]
    /\ UNCHANGED << serviceVars, sent, pageVars >>

Next ==
    \/ EventArrives
    \/ \E t \in Tasks : HandOut(t) \/ HandOutUnseen(t) \/ TimeOut(t) \/ Handle(t)
    \/ \E m \in sent : Settle(m)
    \/ WorkerDies

Spec == Init /\ [][Next]_vars

\* The engine returns and calls end (RpcRetry), so handlers go on.  Nothing is
\* assumed of the service.
FairSpec == Spec /\ \A t \in Tasks : WF_vars(Handle(t))

-----------------------------------------------------------------------------
Statuses == {"none", "open", "completed", "failed", "timed out"}
Stages == Working \cup {"none", "done", "cancelled", "lost"}

TypeOK ==
    /\ length \in Nat
    /\ status \in [Tasks -> Statuses]
    /\ started \in [Tasks -> Nat]
    /\ basis \in [Tasks -> Seq(Nat)]
    /\ sent \subseteq [task: Tasks, kind: {"completed", "failed"}, events: Seq(Nat)]
    /\ stage \in [Tasks -> Stages]
    /\ events \in [Tasks -> Seq(Nat)]
    /\ token \in [Tasks -> Nat]
    /\ \A t \in Tasks : token[t] <= started[t]

\* No handler ends without an answer: either the service has taken the
\* decisions, or it was sent a failure, also if it took the decisions and the
\* worker was not told so.
NoSilentEnd ==
    \A t \in Tasks : stage[t] = "done" => status[t] = "completed" \/ Failed(t) \in sent

\* Whatever pages fail, answers are lost, come late or twice, tasks time out and
\* workers die, every task is settled once, and decisions are only taken from
\* the whole history.
Life == INSTANCE DecisionTaskLife
            WITH Tasks <- Tasks, length <- length,
                 status <- status, started <- started, basis <- basis
ImplementsLife == Life!Spec

\* Every task that reached the worker is answered, unless the engine was
\* cancelled or the worker dies.
EveryTaskIsHandled ==
    \A t \in Tasks : stage[t] = "received" ~> stage[t] \in {"done", "cancelled", "lost"}
=============================================================================
