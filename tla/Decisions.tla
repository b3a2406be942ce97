------------------------------ MODULE Decisions ------------------------------
(***************************************************************************)
(* The vocabulary of the decision state machines: decision ids, the life   *)
(* cycle of one machine, the decision it wants to send, and the history    *)
(* events that move it.  Everything here is a constant expression; the     *)
(* state that uses it is in DecisionManager.                               *)
(*                                                                         *)
(* Abstractions.  Payloads, durations and failure details do not appear:   *)
(* of a request only the activity type is kept, because it is the only     *)
(* property of a request the determinism tracker compares.                 *)
(***************************************************************************)
EXTENDS Naturals, Sequences

CONSTANTS
    ActivityTypes,  \* the activity types a workflow can schedule
    Outcomes        \* how the workflow function can end

ASSUME OutcomesAssumption ==
    Outcomes \subseteq {"Complete", "Fail", "ContinueAsNew", "CancelledError"}

-----------------------------------------------------------------------------
(* Decision ids                                                            *)

DecisionType == {"ACTIVITY", "TIMER", "WORKFLOW_COMPLETE"}

DecisionId(type, n) == [type |-> type, id |-> n]

COMPLETION_ID == DecisionId("WORKFLOW_COMPLETE", 0)

DecisionIds == [type : DecisionType, id : Nat]

-----------------------------------------------------------------------------
(* What the tracker compares.  Properties are a function from the keys the *)
(* code sets to their values; two of them match when they agree on the     *)
(* keys both have.                                                         *)

CANCEL == [canceled |-> TRUE]
ActivityProps(t) == [activity_type |-> t]
TimerProps == << >>
CompletionProps(outcome) == [success |-> outcome = "Complete"]

Match(p, q) == \A key \in DOMAIN p \cap DOMAIN q : p[key] = q[key]

-----------------------------------------------------------------------------
(* One state machine.  "future" is what the workflow code awaits; the      *)
(* completion machine has none.                                            *)

DecisionState == {"REQUESTED", "CANCELED_AFTER_REQUESTED", "RECORDED",
                  "CANCELED_AFTER_RECORDED", "CANCELLATION_RECORDED",
                  "COMPLETED"}
FutureState == {"none", "pending", "result", "exception", "cancelled"}

Machine(props, request) ==
    [state |-> "REQUESTED", future |-> "pending", props |-> props,
     request |-> request]
CompletionMachine(outcome) ==
    [state |-> "REQUESTED", future |-> "none",
     props |-> CompletionProps(outcome), request |-> outcome]

\* Mutant of Cancellable: what is over can still be cancelled.
Cancellable_when_completed(m) == m.state \in {"REQUESTED", "RECORDED", "COMPLETED"}

Cancellable(m) == m.state \in {"REQUESTED", "RECORDED"}

\* force_cancel is a no-op on a future that is already done.
ForceCancel(future) == IF future = "pending" THEN "cancelled" ELSE future

\* Mutant of CancelRequested: the activity's future is given up like a timer's.
CancelRequested_forcing(type, m) ==
    [m EXCEPT !.state = IF @ = "REQUESTED" THEN "CANCELED_AFTER_REQUESTED"
                        ELSE "CANCELED_AFTER_RECORDED",
              !.future = ForceCancel(@)]

\* The machine after a request_cancel that returned True.  A recorded
\* activity keeps its future pending until the service answers; a recorded
\* timer gives it up at once.
CancelRequested(type, m) ==
    IF m.state = "REQUESTED"
    THEN [m EXCEPT !.state = "CANCELED_AFTER_REQUESTED",
                   !.future = ForceCancel(@)]
    ELSE [m EXCEPT !.state = "CANCELED_AFTER_RECORDED",
                   !.future = IF type = "TIMER" THEN ForceCancel(@) ELSE @]

-----------------------------------------------------------------------------
(* Decisions: what a machine still has to tell the service.                *)

Decision(what, id, props) == [what |-> what, id |-> id, props |-> props]

CreateDecision ==
    [ACTIVITY |-> "ScheduleActivityTask", TIMER |-> "StartTimer"]
CancelDecision ==
    [ACTIVITY |-> "RequestCancelActivityTask", TIMER |-> "CancelTimer"]

\* Mutant of HasDecision: the recorded cancellation is overlooked.
HasDecision_until_completed(id, m) ==
    id = COMPLETION_ID \/ m.state \notin {"RECORDED", "COMPLETED"}

HasDecision(id, m) ==
    \/ id = COMPLETION_ID
    \/ m.state \in {"REQUESTED", "CANCELED_AFTER_REQUESTED",
                    "CANCELED_AFTER_RECORDED"}

GetDecision(id, m) ==
    IF id = COMPLETION_ID THEN Decision(m.request, id, m.props)
    ELSE CASE m.state = "REQUESTED" -> Decision(CreateDecision[id.type], id, m.props)
           [] m.state = "CANCELED_AFTER_REQUESTED" -> Decision("RecordMarker", id, m.props)
           [] OTHER -> Decision(CancelDecision[id.type], id, CANCEL)

-----------------------------------------------------------------------------
(* History events.  "id" is the decision id an event names and "ref" the   *)
(* event id of the ActivityTaskScheduled event it answers; each kind of    *)
(* event carries the one its attributes have.                              *)

\* Mutant of Handler: handle_cancel_requested forgets its transition.
Handler_without_cancellation(type, attr, to, future) ==
    [type |-> type, attr |-> attr, future |-> future,
     to |-> IF to = "CANCELLATION_RECORDED" THEN "keep" ELSE to]

\* One row per registered handler: the machine type, the attribute that
\* finds the machine, the state the handler moves to ("keep" for none) and
\* what it does to the future.
Handler(type, attr, to, future) ==
    [type |-> type, attr |-> attr, to |-> to, future |-> future]

type_to_action ==
    [ActivityTaskScheduled |-> Handler("ACTIVITY", "id", "RECORDED", "keep"),
     ActivityTaskStarted   |-> Handler("ACTIVITY", "ref", "keep", "keep"),
     ActivityTaskCompleted |-> Handler("ACTIVITY", "ref", "COMPLETED", "result"),
     ActivityTaskFailed    |-> Handler("ACTIVITY", "ref", "COMPLETED", "exception"),
     ActivityTaskTimedOut  |-> Handler("ACTIVITY", "ref", "COMPLETED", "exception"),
     ActivityTaskCanceled  |-> Handler("ACTIVITY", "ref", "COMPLETED", "cancelled"),
     ActivityTaskCancelRequested |->
         Handler("ACTIVITY", "id", "CANCELLATION_RECORDED", "keep"),
     RequestCancelActivityTaskFailed |->
         Handler("ACTIVITY", "id", "RECORDED", "keep"),
     TimerStarted          |-> Handler("TIMER", "id", "RECORDED", "keep"),
     TimerFired            |-> Handler("TIMER", "id", "COMPLETED", "result"),
     TimerCanceled         |-> Handler("TIMER", "id", "COMPLETED", "keep"),
     CancelTimerFailed     |-> Handler("TIMER", "id", "RECORDED", "keep")]

\* The events later events refer to by event id.
EventIdIsAlias(type) == type = "ActivityTaskScheduled"

\* set_result and set_exception refuse a future that is done; a forced
\* cancellation does not.
Resolvable(handler, m) ==
    handler.future \in {"result", "exception"} => m.future = "pending"

\* Mutant of Handled: a started event moves the machine too.
Handled_always_moving(handler, m) == [m EXCEPT !.state = handler.to]

Handled(handler, m) ==
    [m EXCEPT !.state  = IF handler.to = "keep" THEN @ ELSE handler.to,
              !.future = CASE handler.future = "keep" -> @
                           [] handler.future = "cancelled" -> ForceCancel(@)
                           [] OTHER -> IF @ = "pending" THEN handler.future ELSE @]

-----------------------------------------------------------------------------
(* What an output event makes the tracker expect: a sequence of property   *)
(* sets for one decision id, empty when the event constrains nothing.  The *)
(* event and the decision it records carry the same id and properties.     *)

\* The recorded attempt to cancel, whatever came of it.
AttemptsCancel(event) ==
    event.type \in {"ActivityTaskCancelRequested", "TimerCanceled", "CancelTimerFailed"}

upcomingFor(event) ==
    CASE event.type \in {"ActivityTaskScheduled", "TimerStarted",
                         "WorkflowExecutionCompleted",
                         "WorkflowExecutionFailed"} -> << event.props >>
      [] AttemptsCancel(event) -> << CANCEL >>
      [] event.type = "MarkerRecorded" -> << event.props, CANCEL >>
      [] OTHER -> << >>

\* A continue-as-new has no expectation, neither as decision nor as event.
Constrained(outcome) == outcome \in {"Complete", "Fail"}

Expectation(event) == [id |-> event.id, upcoming |-> upcomingFor(event)]
=============================================================================
