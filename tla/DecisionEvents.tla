---------------------------- MODULE DecisionEvents ----------------------------
(***************************************************************************)
(* DecisionEventsIterator: how a history is cut into the batches of events *)
(* the engine replays, one per decision task that was completed, and a     *)
(* last one for the task in hand.  A batch names events by their position  *)
(* in history, which is also their event id.                               *)
(***************************************************************************)
EXTENDS Naturals, Sequences, FiniteSets

decision_event_types ==
    {"ActivityTaskScheduled", "TimerStarted",
     "WorkflowExecutionCompleted", "WorkflowExecutionFailed",
     "WorkflowExecutionContinuedAsNew", "ActivityTaskCancelRequested",
     "RequestCancelActivityTaskFailed", "TimerCanceled", "CancelTimerFailed",
     "MarkerRecorded"}

is_decision_event(e) == e.type \in decision_event_types
is_marker_event(e) == e.type = "MarkerRecorded"

unsuccessful == {"DecisionTaskFailed", "DecisionTaskTimedOut"}

IsStarted(h, i) == i \in DOMAIN h /\ h[i].type = "DecisionTaskStarted"

\* The pair (started, failed or timed out) the search steps over.
Skipped(h, i) ==
    IF IsStarted(h, i)
    THEN i < Len(h) /\ h[i + 1].type \in unsuccessful
    ELSE h[i].type \in unsuccessful /\ IsStarted(h, i - 1)

\* The started events that end the search: the last event of the history,
\* or one that a completed event follows.
EndsSearch(h, i) ==
    /\ IsStarted(h, i)
    /\ i < Len(h) => h[i + 1].type = "DecisionTaskCompleted"

Ascending(S) ==
    [k \in 1..Cardinality(S) |->
        CHOOSE i \in S : Cardinality({j \in S : j <= i}) = k]

\* The events the search goes past: none of them, from pos on, ends it.
Passed(h, pos) == {i \in pos..Len(h) : \A j \in pos..i : ~EndsSearch(h, j)}

\* Mutant of Malformed: a task that failed is no reason to search on.
Malformed_unless_completed(h, pos) == \E i \in Passed(h, pos) : IsStarted(h, i)

\* A started event with anything else behind it is an error when the search
\* comes to it.
Malformed(h, pos) ==
    \E i \in Passed(h, pos) :
        IsStarted(h, i) /\ h[i + 1].type \notin unsuccessful

Exhausted(h, pos) ==
    ~Malformed(h, pos) /\ \A i \in pos..Len(h) : ~EndsSearch(h, i)

\* __next__, with the iterator at pos; "next" is where it stops.  The output is
\* the run of decision events behind the decision task.
NextBatch(h, pos) ==
    LET passed  == Passed(h, pos)
        started == pos + Cardinality(passed)
        replay  == started < Len(h)
        first   == IF replay THEN started + 2 ELSE started + 1
        run     == {i \in first..Len(h) :
                        \A j \in first..i : is_decision_event(h[j])}
    IN  [input   |-> Ascending({i \in passed : ~Skipped(h, i)}),
         output  |-> [k \in 1..Cardinality(run) |-> first + k - 1],
         markers |-> Ascending({i \in run : is_marker_event(h[i])}),
         replay  |-> replay,
         next    |-> first + Cardinality(run)]
=============================================================================
