--------------------------- MODULE DecisionTaskLife ---------------------------
(***************************************************************************)
(* What a workflow execution may rely on, whatever becomes of the workers  *)
(* and their messages: one decision task is open at a time, it is settled  *)
(* once, and the decisions of a completed one were taken from the whole    *)
(* history with which it was started.                                      *)
(***************************************************************************)
EXTENDS Naturals, Sequences

CONSTANT Tasks      \* the tasks of one execution, by their tokens

VARIABLES
    length,     \* the history: how many events it has
    status,     \* of each task
    started,    \* how many events of history it was started with
    basis       \* the events its decisions were taken from

vars == << length, status, started, basis >>

\* The first n events of history, each named by its place.
History(n) == [i \in 1..n |-> i]

Init ==
    /\ length = 1
    /\ status = [t \in Tasks |-> "none"]
    /\ started = [t \in Tasks |-> 0]
    /\ basis = [t \in Tasks |-> << >>]

Grow ==
    /\ length' = length + 1
    /\ UNCHANGED << status, started, basis >>

Start(t) ==
    /\ status[t] = "none"
    /\ \A u \in Tasks : status[u] # "open"
    /\ status' = [status EXCEPT ![t] = "open"]
    /\ started' = [started EXCEPT ![t] = length]
    /\ UNCHANGED << length, basis >>

Complete(t) ==
    /\ status[t] = "open"
    /\ status' = [status EXCEPT ![t] = "completed"]
    /\ basis' = [basis EXCEPT ![t] = History(started[t])]
    /\ UNCHANGED << length, started >>

\* The worker reports a failure, or the service gives the task up.
GiveUp(t) ==
    /\ status[t] = "open"
    /\ \E how \in {"failed", "timed out"} : status' = [status EXCEPT ![t] = how]
    /\ UNCHANGED << length, started, basis >>

Next == Grow \/ \E t \in Tasks : Start(t) \/ Complete(t) \/ GiveUp(t)

Spec == Init /\ [][Next]_vars
=============================================================================
