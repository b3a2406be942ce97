---------------------------- MODULE WorkflowReplay ----------------------------
(***************************************************************************)
(* One workflow execution: the service that keeps its history, and the     *)
(* worker that, for every decision task, builds a new WorkflowEngine,      *)
(* replays the whole history through it, runs the workflow function on     *)
(* what is new and answers with decisions.                                 *)
(*                                                                         *)
(* The worker is translated from the engine (process_decision and          *)
(* _process_decision_events), which calls the actions of DecisionManager.  *)
(* The service is external: what it does is what the engine's code and     *)
(* comments expect of it.  It writes decision events in the order of the   *)
(* decisions, directly after the completed event, and what happens while a *)
(* task is being worked on after them.                                     *)
(*                                                                         *)
(* The workflow function is anything: it makes any calls, in any order, up *)
(* to the bounds below.  If Deterministic, it makes in replay the calls    *)
(* the recorded run made; otherwise it may have been rewritten, and makes  *)
(* any others.                                                             *)
(***************************************************************************)
EXTENDS DecisionManager, DecisionEvents

SE == INSTANCE SequencesExt

CONSTANTS
    Deterministic,      \* the workflow function was not rewritten
    ImmediateCancel,    \* it cancels calls it made in the same task
    CloseEvents,        \* how an activity may end
    MaxIds,             \* bound: activities and timers per workflow
    MaxOps,             \* bound: calls per decision task
    MaxSignals,         \* bound: signals sent to the execution
    MaxUnsuccessful     \* bound: decision tasks that fail or time out

ASSUME FlagsAssumption ==
    Deterministic \in BOOLEAN /\ ImmediateCancel \in BOOLEAN
ASSUME BoundsAssumption ==
    /\ MaxIds \in Nat /\ MaxOps \in Nat
    /\ MaxSignals \in Nat /\ MaxUnsuccessful \in Nat
ASSUME CloseEventsAssumption ==
    CloseEvents \subseteq {"ActivityTaskCompleted", "ActivityTaskFailed",
                           "ActivityTaskTimedOut", "ActivityTaskCanceled"}

VARIABLES
    history,    \* service: the events of the execution
    buffered,   \* service: events that arrived during a decision task
    decisions,  \* service: decisions of the answer still to be recorded
    phase,      \* engine: where process_decision is
    pos,        \* engine: position of the events iterator
    batch,      \* engine: the current DecisionEvents
    todo,       \* engine: events of the batch still to be handled
    task,       \* engine: WorkflowInstance._task, and how it ended
    view,       \* workflow: the manager's state when its code runs
    ops,        \* workflow: the calls made in the current batch
    replayed,   \* workflow: how many batches of this engine are over
    script,     \* workflow: what it did in every recorded batch
    outlived    \* history: the workflow function, in this task or an earlier
                \* one, went on behind a call that was rejected

serviceVars == << history, buffered, decisions >>
engineVars  == << phase, pos, batch, todo, task >>
userVars    == << view, ops, replayed, script, outlived >>
vars == << managerVars, serviceVars, engineVars, userVars >>

Phases == {"idle", "next", "input", "run", "complete", "end", "output",
           "respond", "failed", "record"}

-----------------------------------------------------------------------------
(* Events and what history says about an activity or a timer               *)

Event(type) == [type |-> type]
IdEvent(type, id) == [type |-> type, id |-> id]
RecordedEvent(type, d) == [type |-> type, id |-> d.id, props |-> d.props]
RefEvent(type, ref) == [type |-> type, ref |-> ref]

Known == history \o buffered

Count(Test(_)) == Cardinality({i \in DOMAIN history : Test(history[i])})

Reported(types, id) ==
    \E i \in DOMAIN Known : Known[i].type \in types /\ Known[i].id = id

activity_close_types == {"ActivityTaskCompleted", "ActivityTaskFailed",
                         "ActivityTaskTimedOut", "ActivityTaskCanceled"}

ActivityOpen(s) ==
    /\ history[s].type = "ActivityTaskScheduled"
    /\ \A i \in DOMAIN Known :
           Known[i].type \in activity_close_types => Known[i].ref # s

TimerOpen(id) ==
    /\ Reported({"TimerStarted"}, id)
    /\ ~Reported({"TimerFired", "TimerCanceled"}, id)

ScheduledEventOf(id) ==
    CHOOSE s \in DOMAIN history :
        history[s].type = "ActivityTaskScheduled" /\ history[s].id = id

close_types == {"WorkflowExecutionCompleted", "WorkflowExecutionFailed",
                "WorkflowExecutionContinuedAsNew"}

CloseEvent ==
    [Complete |-> "WorkflowExecutionCompleted",
     Fail |-> "WorkflowExecutionFailed",
     ContinueAsNew |-> "WorkflowExecutionContinuedAsNew"]

Closed == \E i \in DOMAIN history : history[i].type \in close_types

\* The last event of the history is something no decision task has seen.
NeedsDecisionTask ==
    LET newest == history[Len(history)]
    IN  newest.type # "DecisionTaskCompleted" /\ ~is_decision_event(newest)

Unsuccessful == Count(LAMBDA e : e.type \in unsuccessful)

-----------------------------------------------------------------------------
NoBatch == [input |-> << >>, output |-> << >>, markers |-> << >>,
            replay |-> FALSE, next |-> 1]

Init ==
    /\ ManagerInit
    /\ history = << Event("WorkflowExecutionStarted") >>
    /\ buffered = << >>
    /\ decisions = << >>
    /\ phase = "idle"
    /\ pos = 1
    /\ batch = NoBatch
    /\ todo = << >>
    /\ task = "none"
    /\ view = << >>
    /\ ops = << >>
    /\ replayed = 0
    /\ script = << >>
    /\ outlived = FALSE

\* Between two tasks no engine exists; the next one starts from scratch.
DropEngine ==
    /\ NewManager
    /\ phase' = "idle"
    /\ pos' = 1
    /\ batch' = NoBatch
    /\ todo' = << >>
    /\ task' = "none"
    /\ view' = << >>
    /\ ops' = << >>
    /\ replayed' = 0

-----------------------------------------------------------------------------
(* The service: activities, timers and decision tasks                      *)

\* What arrives during a decision task is written when the task is over.
\* The engine reads only the history it was given, so that an arrival
\* commutes with its steps; it is placed where it can matter, before the
\* answer or between two tasks.
Arrive(events) ==
    /\ phase \in {"idle", "respond"}
    /\ ~Closed
    /\ IF phase = "idle"
       THEN history' = history \o events /\ UNCHANGED buffered
       ELSE buffered' = buffered \o events /\ UNCHANGED history
    /\ UNCHANGED << managerVars, decisions, engineVars, userVars >>

\* An activity is started and ends.  Only one that the workflow asked to
\* cancel ends as canceled; that and a timeout need no start.
ActivityCloses(s, type) ==
    /\ ActivityOpen(s)
    /\ type = "ActivityTaskCanceled" =>
           Reported({"ActivityTaskCancelRequested"}, history[s].id)
    /\ IF type \in {"ActivityTaskCanceled", "ActivityTaskTimedOut"}
       THEN Arrive(<< RefEvent(type, s) >>)
       ELSE Arrive(<< RefEvent("ActivityTaskStarted", s), RefEvent(type, s) >>)

TimerFires(id) ==
    /\ TimerOpen(id)
    /\ Arrive(<< IdEvent("TimerFired", id) >>)

\* A signal makes the service hand out a decision task; the engine has no
\* handler for its event.
SignalArrives ==
    /\ Cardinality({i \in DOMAIN Known :
            Known[i].type = "WorkflowExecutionSignaled"}) < MaxSignals
    /\ Arrive(<< Event("WorkflowExecutionSignaled") >>)

\* A decision task is handed to the worker, which builds a new engine and
\* fetches the whole history.
PollDecisionTask ==
    /\ phase = "idle"
    /\ ~Closed
    /\ NeedsDecisionTask
    /\ history' = Append(history, Event("DecisionTaskStarted"))
    /\ phase' = "next"
    /\ UNCHANGED << managerVars, buffered, decisions, pos, batch, todo, task,
                    userVars >>

\* The task ends without decisions; what arrived meanwhile is written.
Unsuccessfully(type) ==
    /\ history' = (history \o << Event(type) >>) \o buffered
    /\ buffered' = << >>
    /\ decisions' = << >>
    /\ DropEngine
    /\ UNCHANGED << script, outlived >>

\* The worker crashed, or its answer was lost or late.
DecisionTaskTimesOut ==
    /\ phase \notin {"idle", "record"}
    /\ Unsuccessful < MaxUnsuccessful
    /\ Unsuccessfully("DecisionTaskTimedOut")

\* handle_task_failure answers for every Exception; a CancelledError is
\* none and is left to the timeout.
RespondDecisionTaskFailed ==
    /\ phase = "failed"
    /\ raised # "CancelledError"
    /\ Unsuccessful < MaxUnsuccessful
    /\ Unsuccessfully("DecisionTaskFailed")

ClosesWorkflow(d) == d.what \in Outcomes

\* An answer that closes the workflow is refused while there is something
\* the workflow has not seen.
RespondDecisionTaskCompleted ==
    /\ phase = "respond"
    /\ IF (\E i \in DOMAIN decisions : ClosesWorkflow(decisions[i]))
             /\ buffered # << >>
       THEN Unsuccessfully("DecisionTaskFailed")
       ELSE /\ history' = Append(history, Event("DecisionTaskCompleted"))
            /\ phase' = "record"
            /\ UNCHANGED << managerVars, buffered, decisions, pos, batch, todo,
                            task, userVars >>

\* The service records the decisions of an answer one by one.  A timer can be
\* cancelled although its firing is waiting to be written: the firing is
\* dropped.  Cancelling an activity that ended is recorded, and may be
\* recorded as failed besides.
RecordDecision ==
    /\ phase = "record"
    /\ decisions # << >>
    /\ LET d == Head(decisions)
           Records(type) == history' = Append(history, RecordedEvent(type, d))
           IsFiring(e) == e.type = "TimerFired" /\ e.id = d.id
       IN  \/ /\ d.what = "ScheduleActivityTask"
              /\ Records("ActivityTaskScheduled")
              /\ UNCHANGED buffered
           \/ /\ d.what = "StartTimer"
              /\ Records("TimerStarted")
              /\ UNCHANGED buffered
           \/ /\ d.what = "RecordMarker"
              /\ Records("MarkerRecorded")
              /\ UNCHANGED buffered
           \/ /\ d.what = "CancelTimer"
              /\ LET firing == {i \in DOMAIN buffered : IsFiring(buffered[i])}
                 IN  /\ IF TimerOpen(d.id) \/ firing # {}
                        THEN Records("TimerCanceled")
                        ELSE Records("CancelTimerFailed")
                     /\ buffered' = IF firing = {} THEN buffered
                                    ELSE SE!RemoveAt(buffered, CHOOSE i \in firing : TRUE)
           \/ /\ d.what = "RequestCancelActivityTask"
              /\ \/ Records("ActivityTaskCancelRequested")
                 \/ /\ ~ActivityOpen(ScheduledEventOf(d.id))
                    /\ history' = history \o
                          << RecordedEvent("ActivityTaskCancelRequested", d),
                             RecordedEvent("RequestCancelActivityTaskFailed", d) >>
              /\ UNCHANGED buffered
           \/ /\ ClosesWorkflow(d)
              /\ Records(CloseEvent[d.what])
              /\ UNCHANGED buffered
    /\ decisions' = Tail(decisions)
    /\ UNCHANGED << managerVars, engineVars, userVars >>

\* What arrived during the task is written behind its decision events.
FinishDecisionTask ==
    /\ phase = "record"
    /\ decisions = << >>
    /\ history' = history \o buffered
    /\ buffered' = << >>
    /\ DropEngine
    /\ script' = IF Deterministic
                 THEN Append(script, [view |-> view, ops |-> ops]) ELSE script
    /\ UNCHANGED << decisions, outlived >>

-----------------------------------------------------------------------------
(* The engine                                                              *)

\* An exception of the engine's own calls ends process_decision.
Continue(next) == phase' = IF raised' = "none" THEN next ELSE "failed"

\* An exception of the engine itself; the manager is left as it is.
RaiseInEngine(exception) ==
    /\ raised' = exception
    /\ UNCHANGED << id_counter, replaying, state_machines, order, aliases,
                    expectations, failed >>

OutputEvents(b) == [i \in DOMAIN b.output |-> history[b.output[i]]]

\* The next batch: track_nondeterminism is entered with its output events.
NextDecisionEvents ==
    /\ phase = "next"
    /\ ~Exhausted(history, pos)
    /\ IF Malformed(history, pos)
       THEN /\ RaiseInEngine("ValueError")
            /\ UNCHANGED << batch, pos, todo >>
       ELSE \E b \in {NextBatch(history, pos)} :
                /\ batch' = b
                /\ pos' = b.next
                /\ todo' = b.markers \o b.input
                /\ start_execution(b.replay, OutputEvents(b))
    /\ Continue("input")
    /\ UNCHANGED << serviceVars, task, userVars >>

\* There is no other: the pending decisions are the answer.
CollectDecisions ==
    /\ phase = "next"
    /\ Exhausted(history, pos)
    /\ decisions' = collect_pending_decisions
    /\ phase' = "respond"
    /\ UNCHANGED << managerVars, history, buffered, pos, batch, todo, task,
                    userVars >>

\* Markers first, then the input events; the first event of all starts the
\* workflow.
ApplyInputEvent ==
    /\ phase = "input"
    /\ todo # << >>
    /\ LET e == history[Head(todo)]
       IN  /\ task' = IF e.type = "WorkflowExecutionStarted" /\ task = "none"
                      THEN "running" ELSE task
           /\ handle_history_event(e, Head(todo))
    /\ Continue("input")
    /\ todo' = Tail(todo)
    /\ UNCHANGED << serviceVars, pos, batch, userVars >>

StartRun ==
    /\ phase = "input"
    /\ todo = << >>
    /\ phase' = "run"
    /\ ops' = << >>
    /\ view' = IF Deterministic
               THEN << id_counter, order, state_machines, task >> ELSE << >>
    /\ UNCHANGED << managerVars, serviceVars, pos, batch, todo, task, replayed,
                    script, outlived >>

-----------------------------------------------------------------------------
(* The workflow function, between run_until_yield and its return           *)

\* A call the workflow function makes next.
Calls(op) ==
    /\ phase = "run"
    /\ task = "running"
    /\ IF Deterministic /\ batch.replay
       THEN LET recorded == script[replayed + 1].ops
            IN  Len(ops) < Len(recorded) /\ recorded[Len(ops) + 1] = op
       ELSE Len(ops) < MaxOps
    /\ ops' = Append(ops, op)
    /\ UNCHANGED << serviceVars, phase, pos, batch, todo, view, replayed,
                    script >>

\* A rejected call raises in the task of the workflow that made it.  That may be
\* the end of the workflow function; or the exception is caught, gathered,
\* waits for the function to await that task, or is only logged, and the
\* function goes on, with a tracker that has failed.
Raises ==
    \/ /\ raised' = "none"
       /\ UNCHANGED << task, outlived >>
    \/ /\ raised' # "none"
       /\ task' = "FatalDecisionError"
       /\ UNCHANGED outlived
    \/ /\ raised' # "none"
       /\ outlived' = TRUE
       /\ UNCHANGED task

ExecuteActivity(t) ==
    /\ id_counter < MaxIds
    /\ Calls(<< "execute_activity", t >>)
    /\ schedule_activity(t)
    /\ Raises

StartTimer ==
    /\ id_counter < MaxIds
    /\ Calls(<< "start_timer" >>)
    /\ start_timer
    /\ Raises

CancelFuture(id) ==
    /\ ~ImmediateCancel => state_machines[id].state # "REQUESTED"
    /\ Calls(<< "cancel", id >>)
    /\ request_cancel(id)
    /\ Raises

\* While the exception of a rejected call unwinds, what still runs is
\* cancelled.
AutomaticCancel(id) ==
    /\ phase = "run"
    /\ task = "FatalDecisionError"
    /\ Cancellable(state_machines[id])
    /\ request_cancel(id)
    /\ UNCHANGED << serviceVars, engineVars, userVars >>

\* A rejection the function went on behind ends it after all.
RejectionUnwinds ==
    /\ phase = "run"
    /\ task = "running"
    /\ failed
    /\ task' = "FatalDecisionError"
    /\ UNCHANGED << managerVars, serviceVars, phase, pos, batch, todo, userVars >>

Ends(outcome) ==
    /\ Calls(<< "return", outcome >>)
    /\ task' = outcome
    /\ UNCHANGED << managerVars, outlived >>

\* It returns, raises or is cancelled.
Return(outcome) == outcome # "ContinueAsNew" /\ Ends(outcome)

\* It raises ContinueAsNewError, which ends it like any other exception.
continue_as_new == "ContinueAsNew" \in Outcomes /\ Ends("ContinueAsNew")

\* Nothing is ready to run any more.
Yield ==
    /\ phase = "run"
    /\ Deterministic /\ batch.replay =>
           Len(ops) = Len(script[replayed + 1].ops) \/ task = "FatalDecisionError"
    /\ phase' = "complete"
    /\ UNCHANGED << managerVars, serviceVars, pos, batch, todo, task, userVars >>

-----------------------------------------------------------------------------
(* The engine, after the workflow function yielded                         *)

\* _maybe_complete_workflow, and complete_workflow with what it returns.
\* What it does not turn into a decision it raises.
MaybeCompleteWorkflow ==
    /\ phase = "complete"
    /\ \/ /\ task \in {"none", "running"}
          /\ UNCHANGED managerVars
          /\ phase' = "end"
       \/ /\ task \in Outcomes \ {"CancelledError"}
          /\ complete_workflow(task)
          /\ Continue("end")
       \/ /\ task \in {"CancelledError", "FatalDecisionError"}
          /\ RaiseInEngine(task)
          /\ phase' = "failed"
    /\ UNCHANGED << serviceVars, pos, batch, todo, task, userVars >>

EndExecution ==
    /\ phase = "end"
    /\ end_execution
    /\ Continue("output")
    /\ todo' = batch.output
    /\ UNCHANGED << serviceVars, pos, batch, task, userVars >>

ApplyOutputEvent ==
    /\ phase = "output"
    /\ todo # << >>
    /\ handle_history_event(history[Head(todo)], Head(todo))
    /\ Continue("output")
    /\ todo' = Tail(todo)
    /\ UNCHANGED << serviceVars, pos, batch, task, userVars >>

FinishBatch ==
    /\ phase = "output"
    /\ todo = << >>
    /\ phase' = "next"
    /\ replayed' = replayed + 1
    /\ UNCHANGED << managerVars, serviceVars, pos, batch, todo, task, view, ops,
                    script, outlived >>

-----------------------------------------------------------------------------
ServiceNext ==
    \/ \E s \in DOMAIN history, type \in CloseEvents : ActivityCloses(s, type)
    \/ \E n \in 0..(MaxIds - 1) : TimerFires(DecisionId("TIMER", n))
    \/ SignalArrives
    \/ PollDecisionTask
    \/ DecisionTaskTimesOut
    \/ RespondDecisionTaskFailed
    \/ RespondDecisionTaskCompleted
    \/ RecordDecision
    \/ FinishDecisionTask

WorkflowNext ==
    \/ \E t \in ActivityTypes : ExecuteActivity(t)
    \/ StartTimer
    \/ \E id \in DOMAIN state_machines : CancelFuture(id) \/ AutomaticCancel(id)
    \/ RejectionUnwinds
    \/ \E outcome \in Outcomes : Return(outcome)
    \/ continue_as_new
    \/ Yield

EngineNext ==
    \/ NextDecisionEvents
    \/ CollectDecisions
    \/ ApplyInputEvent
    \/ StartRun
    \/ MaybeCompleteWorkflow
    \/ EndExecution
    \/ ApplyOutputEvent
    \/ FinishBatch

Next == ServiceNext \/ EngineNext \/ WorkflowNext

Spec == Init /\ [][Next]_vars

\* What the worker does and what the service does with its answer.  Only the
\* arrivals and the loss of a task are left to chance; MaxUnsuccessful bounds
\* the losses.
Progress ==
    \/ EngineNext
    \/ WorkflowNext
    \/ PollDecisionTask
    \/ RespondDecisionTaskFailed
    \/ RespondDecisionTaskCompleted
    \/ RecordDecision
    \/ FinishDecisionTask

FairSpec == Spec /\ WF_vars(Progress)

-----------------------------------------------------------------------------
(* Type correctness of the manager and of the engine.                      *)

TypeOK ==
    /\ id_counter \in Nat
    /\ replaying \in BOOLEAN
    /\ failed \in BOOLEAN
    /\ raised \in {"none", "NonDeterminismError", "FatalDecisionError",
                   "CancelledError", "KeyError", "ValueError",
                   "InvalidStateError"}
    /\ phase \in Phases
    /\ task \in {"none", "running", "FatalDecisionError"} \cup Outcomes
    /\ outlived \in BOOLEAN
    /\ \A id \in DOMAIN state_machines :
           /\ id \in DecisionIds
           /\ state_machines[id].state \in DecisionState
           /\ state_machines[id].future \in FutureState

-----------------------------------------------------------------------------
(* Properties of replay                                                    *)

\* A workflow function that was not rewritten is never turned down: whatever
\* the order of answers, cancellations, lost tasks and late events, the only
\* exception process_decision raises is the workflow's own.
NoSpuriousFailure ==
    raised \in {"none", "CancelledError"}

\* Replay rebuilds the past: when the code of a batch runs again, the ids,
\* the order of the machines, their states and their futures are what they
\* were when it ran first, although history has grown since.
ReplayRebuilds ==
    phase = "run" /\ batch.replay => view = script[replayed + 1].view

\* Once a recorded batch is replayed the manager has nothing left to send:
\* each decision in it has been acknowledged by its event, so that no command
\* is sent again by a later task.
NothingSentAgain ==
    phase = "next" /\ batch.replay => collect_pending_decisions = << >>

\* The service is given every command at most once: no activity is scheduled,
\* no timer started, and neither cancelled, a second time under the same id.
CommandsOnce ==
    \A i, j \in DOMAIN history :
        /\ is_decision_event(history[i])
        /\ history[j].type = history[i].type
        /\ history[j].id = history[i].id
        => i = j

\* What the workflow's code awaits is what history reports before the point
\* it has reached: a future is done exactly if the end of its activity or the
\* firing of its timer was recorded, or the workflow gave it up itself.
FuturesAgreeWithHistory ==
    phase = "run" =>
        \A id \in DOMAIN state_machines \ {COMPLETION_ID} :
            LET m == state_machines[id]
                ended == {i \in 1..(pos - 1) :
                            IF id.type = "ACTIVITY"
                            THEN /\ history[i].type \in activity_close_types
                                 /\ history[history[i].ref].id = id
                            ELSE /\ history[i].type = "TimerFired"
                                 /\ history[i].id = id}
                GivenUp == IF id.type = "ACTIVITY"
                           THEN m.state = "CANCELED_AFTER_REQUESTED"
                           ELSE m.state \in {"CANCELED_AFTER_REQUESTED",
                                             "CANCELED_AFTER_RECORDED",
                                             "COMPLETED"}
            IN  /\ ended # {} =>
                      \A i \in ended :
                          m.future = type_to_action[history[i].type].future
                /\ ended = {} => m.future = IF GivenUp THEN "cancelled"
                                           ELSE "pending"

\* A completion is the last decision of an answer and the only one of its
\* kind: no call of the workflow is sent behind the end of the workflow.
CompletionIsLast ==
    \A i \in DOMAIN decisions :
        ClosesWorkflow(decisions[i]) => i = Len(decisions)

\* The calls that concern a decision id: the one that created it in this
\* batch and the first that cancelled it; a second one is refused.
Creates(i) == ops[i][1] \in {"execute_activity", "start_timer"}
CreatedBy(i) == view[1] + Cardinality({j \in 1..(i - 1) : Creates(j)})
Concerns(i, id) ==
    \/ Creates(i) /\ CreatedBy(i) = id.id
    \/ ops[i] = << "cancel", id >> /\ \A j \in 1..(i - 1) : ops[j] # ops[i]

\* "Interactions with the state machines should move them to the end so that
\* the decisions are ordered as they happened in the Workflow": of two
\* decisions about activities or timers, the one the workflow's last word on
\* came first is sent first.
DecisionsInCallOrder ==
    phase = "respond" =>
        \A k, l \in DOMAIN decisions :
            k < l /\ ~ClosesWorkflow(decisions[l]) =>
                \E j \in DOMAIN ops :
                    /\ Concerns(j, decisions[l].id)
                    /\ \A i \in j..Len(ops) : ~Concerns(i, decisions[k].id)

\* The ids that the events of these types name, in the order of history.
IdsAt(h, types) ==
    LET at == Ascending({i \in DOMAIN h : h[i].type \in types})
    IN  [k \in DOMAIN at |-> h[at[k]].id]

\* The activities and timers that events behind a history report as over.
IsEnd(event) == event.type \in activity_close_types \cup {"TimerFired", "TimerCanceled"}
EndedBy(h, event) ==
    IF event.type \in activity_close_types THEN h[event.ref].id ELSE event.id
EndedIn(h, events) ==
    {EndedBy(h, events[i]) : i \in {j \in DOMAIN events : IsEnd(events[j])}}

\* Those among them that some decision task was started with.
SeenIn(h) ==
    {EndedBy(h, h[i]) : i \in {j \in DOMAIN h :
        IsEnd(h[j]) /\ \E s \in j..Len(h) : h[s].type = "DecisionTaskStarted"}}

ClosingsIn(h) == Cardinality({i \in DOMAIN h : h[i].type \in close_types})

Commands == INSTANCE CommandLife WITH
    Ids       <- {DecisionId(type, n) : type \in {"ACTIVITY", "TIMER"}, n \in 0..(MaxIds - 1)},
    started   <- IdsAt(history, {"ActivityTaskScheduled", "TimerStarted"}),
    cancelled <- IdsAt(history, {"ActivityTaskCancelRequested", "TimerCanceled", "CancelTimerFailed"}),
    ended     <- EndedIn(history, Known),
    seen      <- SeenIn(history),
    closings  <- ClosingsIn(history)

\* What history records is the life of a workflow's commands: whatever was
\* replayed, lost, or crossed on its way, each item is started once and in turn,
\* cancelled once and only while the workflow cannot know that it is over, and
\* no command follows the end.
ImplementsCommandLife == Commands!Spec

-----------------------------------------------------------------------------
(* Properties of a rewritten workflow                                      *)

\* The events that record a decision.
RecordedAs(d) ==
    CASE d.what = "ScheduleActivityTask" -> {"ActivityTaskScheduled"}
      [] d.what = "StartTimer" -> {"TimerStarted"}
      [] d.what = "RecordMarker" -> {"MarkerRecorded"}
      [] d.what = "RequestCancelActivityTask" -> {"ActivityTaskCancelRequested"}
      [] d.what = "CancelTimer" -> {"TimerCanceled", "CancelTimerFailed"}
      [] OTHER -> {CloseEvent[d.what]}

BatchAccepted == phase = "output" /\ batch.replay /\ todo = batch.output

\* The output events of the batch that bind the workflow, in their order.
Binding ==
    LET recorded == OutputEvents(batch)
        at == Ascending({k \in DOMAIN recorded :
                  recorded[k].type # "RequestCancelActivityTaskFailed"})
    IN  [i \in DOMAIN at |-> recorded[at[i]]]

Says(d, e) == e.type \in RecordedAs(d) /\ e.id = d.id /\ e.props = d.props

\* A replay the tracker accepts, and turned no call down in, did what the record
\* says: the decisions the rewritten code would have sent are the recorded ones,
\* one by one, in the recorded order, with the recorded activity types.
ReplaySound ==
    BatchAccepted /\ ~failed =>
        LET made == collect_pending_decisions
        IN  /\ Len(made) = Len(Binding)
            /\ \A i \in DOMAIN made : Says(made[i], Binding[i])

\* Whatever becomes of a rejection - the function catches it, nobody awaits the
\* task it ended, others make their calls before it unwinds - a replay is only
\* accepted if everything recorded was asked for again.  What a function that
\* went on can do is to add cancellations: a recorded call it has cancelled as
\* well has become a marker.
NothingRecordedIsMissed ==
    BatchAccepted =>
        \A k \in DOMAIN Binding :
            \E d \in SE!ToSet(collect_pending_decisions) :
                \/ Says(d, Binding[k])
                \/ /\ failed
                   /\ d.what = "RecordMarker"
                   /\ d.id = Binding[k].id /\ d.props = Binding[k].props

\* "If it completed early (or late), the nondeterminism tracking will catch
\* that": a replay is only accepted when the workflow ended exactly in the
\* batch whose events record its end.
EarlyCompletionCaught ==
    BatchAccepted =>
        (task \in Outcomes <=>
            \E i \in DOMAIN batch.output :
                history[batch.output[i]].type \in close_types)

-----------------------------------------------------------------------------
(* Liveness                                                                *)

\* An activity's end and a timer's firing reach the workflow: a decision task
\* that was given them is completed, or the workflow is over.
EndReported(n) ==
    \E i \in DOMAIN Known :
        \/ /\ Known[i].type = "TimerFired"
           /\ Known[i].id.id = n
        \/ /\ Known[i].type \in activity_close_types
           /\ history[Known[i].ref].id.id = n

EndAnswered(n) ==
    \E i, j \in DOMAIN history :
        /\ i < j
        /\ history[j].type = "DecisionTaskCompleted"
        /\ \/ /\ history[i].type = "TimerFired"
              /\ history[i].id.id = n
           \/ /\ history[i].type \in activity_close_types
              /\ history[history[i].ref].id.id = n

EveryEndIsAnswered ==
    \A n \in 0..(MaxIds - 1) :
        EndReported(n) ~> (EndAnswered(n) \/ Closed \/ ~EndReported(n))
=============================================================================
