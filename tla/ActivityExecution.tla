--------------------------- MODULE ActivityExecution ---------------------------
(***************************************************************************)
(* ActivityExecutor.execute for every activity task of a worker: the       *)
(* function runs, in the event loop or in a thread, sends heartbeats while *)
(* it does, and its end is reported once the heartbeats are over.          *)
(*                                                                         *)
(* An asynchronous function, and everything the executor does, takes turns *)
(* at its awaits.  A synchronous function is in a thread of its own, so    *)
(* that the loop may act between any two of its steps.                     *)
(***************************************************************************)
EXTENDS Naturals, Sequences

CONSTANTS
    Tasks,          \* the activity tasks the worker was handed
    SyncTasks,      \* those whose function runs in a thread
    MaxHeartbeats   \* bound: heartbeats of one execution

ASSUME SyncTasksAssumption == SyncTasks \subseteq Tasks
ASSUME HeartbeatsAssumption == MaxHeartbeats \in Nat

VARIABLES
    stage,      \* where execute is, for each task
    outcome,    \* how the function ended
    beat,       \* the heartbeats: the coroutines of send_heartbeat
    tracked,    \* _heartbeat_tasks
    entering,   \* the heartbeat a thread is in the middle of, or 0
    awaited,    \* the heartbeats execute waits for
    requests    \* the reports sent to the service, in order

vars == << stage, outcome, beat, tracked, entering, awaited, requests >>

Beats == 1..MaxHeartbeats

Init ==
    /\ stage = [t \in Tasks |-> "received"]
    /\ outcome = [t \in Tasks |-> "none"]
    /\ beat = [t \in Tasks |-> [b \in Beats |-> "none"]]
    /\ tracked = [t \in Tasks |-> {}]
    /\ entering = [t \in Tasks |-> 0]
    /\ awaited = [t \in Tasks |-> {}]
    /\ requests = [t \in Tasks |-> << >>]

-----------------------------------------------------------------------------
(* The executor                                                            *)

Report(t, request) ==
    /\ requests' = [requests EXCEPT ![t] = Append(@, request)]
    /\ stage' = [stage EXCEPT ![t] = "reporting"]

\* The activity's type is not registered, or its input cannot be read.
Refuse(t) ==
    /\ stage[t] = "received"
    /\ outcome' = [outcome EXCEPT ![t] = "exception"]
    /\ Report(t, "Failed")
    /\ UNCHANGED << beat, tracked, entering, awaited >>

Execute(t) ==
    /\ stage[t] = "received"
    /\ stage' = [stage EXCEPT ![t] = "executing"]
    /\ UNCHANGED << outcome, beat, tracked, entering, awaited, requests >>

\* The function ends.  A thread's end is seen by the loop later.
Return(t, how) ==
    /\ stage[t] = "executing"
    /\ entering[t] = 0
    /\ outcome' = [outcome EXCEPT ![t] = how]
    /\ IF t \in SyncTasks
       THEN /\ stage' = [stage EXCEPT ![t] = "returned"]
            /\ UNCHANGED awaited
       ELSE /\ stage' = [stage EXCEPT ![t] = "flushing"]
            /\ awaited' = [awaited EXCEPT ![t] = tracked[t]]
    /\ UNCHANGED << beat, tracked, entering, requests >>

\* _wait_pending_heartbeats, in a finally: it waits for those it finds.
Flush(t) ==
    /\ stage[t] = "returned"
    /\ stage' = [stage EXCEPT ![t] = "flushing"]
    /\ awaited' = [awaited EXCEPT ![t] = tracked[t]]
    /\ UNCHANGED << outcome, beat, tracked, entering, requests >>

\* Mutant of Flushed: the heartbeats are not waited for.
Flushed_at_once(t) == stage[t] = "flushing"

\* Those it found are over, however they ended.
Flushed(t) ==
    /\ stage[t] = "flushing"
    /\ \A b \in awaited[t] : beat[t][b] = "ended"

\* The result is encoded and reported.
ReportSuccess(t) ==
    /\ Flushed(t)
    /\ outcome[t] = "result"
    /\ Report(t, "Completed")
    /\ UNCHANGED << outcome, beat, tracked, entering, awaited >>

\* Mutant of ReportFailure: what the function raised is not caught.
ReportFailure_of_encoding(t) ==
    /\ Flushed(t)
    /\ outcome[t] = "result"
    /\ Report(t, "Failed")
    /\ UNCHANGED << outcome, beat, tracked, entering, awaited >>

\* What the function raised is reported, or that its result cannot be encoded.
ReportFailure(t) ==
    /\ Flushed(t)
    /\ outcome[t] \in {"result", "exception"}
    /\ Report(t, "Failed")
    /\ outcome' = [outcome EXCEPT ![t] = "exception"]
    /\ UNCHANGED << beat, tracked, entering, awaited >>

\* A CancelledError of the function is no Exception: it is not reported.
Unreported(t) ==
    /\ Flushed(t)
    /\ outcome[t] = "cancelled"
    /\ stage' = [stage EXCEPT ![t] = "done"]
    /\ UNCHANGED << outcome, beat, tracked, entering, awaited, requests >>

\* Mutant of ReportEnds: a success that was not answered is reported again, as
\* a failure.
ReportEnds_with_failure(t) ==
    /\ stage[t] = "reporting"
    /\ \/ stage' = [stage EXCEPT ![t] = "done"] /\ UNCHANGED requests
       \/ requests[t] = << "Completed" >> /\ Report(t, "Failed")
    /\ UNCHANGED << outcome, beat, tracked, entering, awaited >>

\* The report was answered, or it was not; neither is acted on.
ReportEnds(t) ==
    /\ stage[t] = "reporting"
    /\ stage' = [stage EXCEPT ![t] = "done"]
    /\ UNCHANGED << outcome, beat, tracked, entering, awaited, requests >>

-----------------------------------------------------------------------------
(* Heartbeats                                                              *)

NextBeat(t, b) ==
    /\ stage[t] = "executing"
    /\ entering[t] = 0
    /\ beat[t][b] = "none"
    /\ \A c \in 1..(b - 1) : beat[t][c] # "none"
    /\ beat' = [beat EXCEPT ![t][b] = "submitted"]

\* _Context.heartbeat: a task is created and entered at once.
AsyncHeartbeat(t, b) ==
    /\ t \notin SyncTasks
    /\ NextBeat(t, b)
    /\ tracked' = [tracked EXCEPT ![t] = @ \cup {b}]
    /\ UNCHANGED << stage, outcome, entering, awaited, requests >>

\* _SyncContext.heartbeat: the coroutine is submitted to the loop, which may
\* run it before the thread has entered it.
SyncHeartbeat(t, b) ==
    /\ t \in SyncTasks
    /\ NextBeat(t, b)
    /\ entering' = [entering EXCEPT ![t] = b]
    /\ UNCHANGED << stage, outcome, tracked, awaited, requests >>

\* The thread enters it, and its done callback.
EnterHeartbeat(t) ==
    /\ entering[t] # 0
    /\ tracked' = [tracked EXCEPT ![t] = @ \cup {entering[t]}]
    /\ entering' = [entering EXCEPT ![t] = 0]
    /\ UNCHANGED << stage, outcome, beat, awaited, requests >>

\* send_heartbeat runs to its call of the service.
SendHeartbeat(t, b) ==
    /\ beat[t][b] = "submitted"
    /\ beat' = [beat EXCEPT ![t][b] = "sent"]
    /\ UNCHANGED << stage, outcome, tracked, entering, awaited, requests >>

\* It was answered, or it failed, in the call or before it; either is its end.
HeartbeatEnds(t, b) ==
    /\ beat[t][b] \in {"submitted", "sent"}
    /\ beat' = [beat EXCEPT ![t][b] = "ended"]
    /\ UNCHANGED << stage, outcome, tracked, entering, awaited, requests >>

\* The done callback.
DiscardHeartbeat(t, b) ==
    /\ beat[t][b] = "ended"
    /\ b \in tracked[t]
    /\ tracked' = [tracked EXCEPT ![t] = @ \ {b}]
    /\ UNCHANGED << stage, outcome, beat, entering, awaited, requests >>

-----------------------------------------------------------------------------
ExecutorNext(t) ==
    \/ Refuse(t)
    \/ Execute(t)
    \/ Flush(t)
    \/ ReportSuccess(t)
    \/ ReportFailure(t)
    \/ Unreported(t)
    \/ ReportEnds(t)

FunctionNext(t) ==
    \/ \E how \in {"result", "exception", "cancelled"} : Return(t, how)
    \/ \E b \in Beats : AsyncHeartbeat(t, b) \/ SyncHeartbeat(t, b)
    \/ EnterHeartbeat(t)

HeartbeatNext(t, b) ==
    \/ SendHeartbeat(t, b)
    \/ HeartbeatEnds(t, b)
    \/ DiscardHeartbeat(t, b)

Next ==
    \E t \in Tasks :
        \/ ExecutorNext(t)
        \/ FunctionNext(t)
        \/ \E b \in Beats : HeartbeatNext(t, b)

Spec == Init /\ [][Next]_vars

\* The loop and the threads run, calls of the service end by their deadline,
\* and functions end.
FairSpec ==
    /\ Spec
    /\ \A t \in Tasks : WF_vars(ExecutorNext(t)) /\ WF_vars(FunctionNext(t))
    /\ \A t \in Tasks, b \in Beats : WF_vars(HeartbeatNext(t, b))

-----------------------------------------------------------------------------
TypeOK ==
    /\ stage \in [Tasks -> {"received", "executing", "returned", "flushing",
                            "reporting", "done"}]
    /\ outcome \in [Tasks -> {"none", "result", "exception", "cancelled"}]
    /\ beat \in [Tasks -> [Beats -> {"none", "submitted", "sent", "ended"}]]
    /\ tracked \in [Tasks -> SUBSET Beats]
    /\ entering \in [Tasks -> {0} \cup Beats]
    /\ awaited \in [Tasks -> SUBSET Beats]
    /\ requests \in [Tasks -> Seq({"Completed", "Failed"})]

\* The service hears of the end of an execution once: whatever becomes of the
\* report, and of the heartbeats before it, no second one of either kind
\* follows.
ReportedOnce == \A t \in Tasks : Len(requests[t]) <= 1

\* When the report is sent no heartbeat of the execution is on its way: none
\* reaches the service behind the end of its activity, although a thread hands
\* them to the loop without waiting for them.
ReportEndsHeartbeats ==
    \A t \in Tasks :
        requests[t] # << >> =>
            \A b \in Beats : beat[t][b] \in {"none", "ended"}

\* Every execution is reported, also one whose heartbeats fail, unless the
\* function ended in a CancelledError.
EveryExecutionEnds ==
    \A t \in Tasks :
        <>[](stage[t] = "done" /\ (requests[t] # << >> \/ outcome[t] = "cancelled"))
=============================================================================
