# A TLA+ model of the Cadence Python client

The repository is a client library for the Cadence workflow service. A
*worker* polls the service for decision tasks and activity tasks. For a
decision task it fetches the history of one workflow execution, replays it
through a freshly built engine, lets the workflow function run on what is new,
and answers with decisions. For an activity task it runs a function and reports
how it ended.

The heart of the library, and of this project, is replay: the state of a
workflow exists only while one task is being worked on, and must be the same
every time it is rebuilt from a history that has grown meanwhile.

## 1. The system

Paths are below `src/cadence/`.

| Component | State it keeps | Operations | What makes it correct |
|---|---|---|---|
| Decision state machines (`_internal/workflow/statemachine/*_state_machine.py`, `cancellation.py`, `event_dispatcher.py`) | life-cycle state, request, future | `get_decision`, `request_cancel`, one handler per history event | a command is sent until history acknowledges it, and then never again; the future tells what history tells |
| Decision manager (`decision_manager.py`) | ordered dictionary of machines, aliases, id counter, replay flag | `schedule_activity`, `start_timer`, `complete_workflow`, cancellation, `handle_history_event`, `collect_pending_decisions` | ids never repeat, aliases resolve, decisions leave in the order of the workflow's calls |
| Determinism tracker (`nondeterminism.py`) | expectations by decision id, in order; `_failed` | `add_expectation`, `validate_action`, `validate_cancel`, `complete_replay` | accepts every unchanged workflow, and of a changed one only replays that do what is recorded |
| Decision events iterator (`decision_events_iterator.py`) | position in history | `__next__` | batches of replay are the batches the tasks had, failed tasks folded into the next |
| Workflow engine (`workflow_engine.py`) | the objects above, one set per task | `process_decision` | four phases per batch, an answer only if nothing was raised |
| Workflow instance and context (`workflow_instance.py`, `context.py`) | the task of the workflow function | `start`, `run_until_yield`, `get_result`, `execute_activity`, `start_timer` | started once; result read once done |
| Deterministic event loop (`deterministic_event_loop.py`) | ready queue, running, stopping and closed flags | `call_soon`, `run_until_yield`, `run_forever`, `run_until_complete`, `stop`, `close` | first in, first out; runs until nothing is ready, or until its future is done |
| Decision task handler (`worker/_decision_task_handler.py`, `_base_task_handler.py`) | none between tasks | `handle_task`, `handle_task_failure` | each task is answered at most once with success |
| History paging (`history_event_iterator.py`) | page token, look-ahead | `iterate_history_events`, `peek`, `next` | no event lost or repeated across pages |
| Pollers and workers (`worker/_poller.py`, `_worker.py`, `_decision.py`, `_activity.py`) | permits, background tasks | poll loop, dispatch, shutdown | never more tasks than permits; no permit lost |
| Activity execution (`_internal/activity/`) | context, heartbeat sender | `execute`, heartbeats, reports | one report per task |
| RPC interceptors (`_internal/rpc/`) | none | retry with backoff, error mapping | retries only what may be retried, within the deadline |
| Client (`client.py`) | none between calls | `start_workflow`, `signal_workflow`, `signal_with_start_workflow` | a call has its effect once however often it is sent, and what it is told is so |
| Definitions, signals, signatures (`activity.py`, `workflow.py`, `signal.py`, `_internal/activity/_definition.py`, `_internal/fn_signature.py`) | none once they are made | decorators, `override`, `__get__`, `params_from_call`, `params_from_payload` | a call means on the worker's side what it means in Python on the caller's |
| Data converter (`data_converter.py`, `contrib/openai/pydantic_data_converter.py`) | none | `to_data`, `from_data` | what a hint admits arrives as it was |
| Registry (`worker/_registry.py`) | two dictionaries | registration one by one, by object or class, in sums; lookup | a name keeps its meaning; a registered definition serves its own calls |
| OpenAI integration (`contrib/openai/`) | the `model` fields of the application's agents | `run`, the replacement of models, `get_response` | every model call is an activity, with the model the agent was made with |
| Metrics (`metrics/`) | one prometheus metric per name | get or create, counters | not modelled |
| Generated protobuf code, samples, scripts | -- | -- | not modelled |

How they interact. The poller hands a task to the handler, which builds an
engine and calls `process_decision` in a thread. The engine drives the iterator
and, for every batch, enters `track_nondeterminism`, feeds markers and input
events to the manager, runs the event loop until the workflow function yields,
may complete the workflow, leaves `track_nondeterminism` and feeds the output
events. The workflow function calls the manager back through the context and
through `DecisionFuture.cancel`; the manager calls the tracker during replay.
When no batch is left, the manager's pending decisions are the answer. A worker
looks the name of an activity or a workflow up in its registry and binds the
decoded payload by the signature it finds there. Whatever worker and client ask
of the service goes through the interceptors.

What is hard. The service and the worker run concurrently, and what arrives
during a task is written behind the task's own events, so a cancellation may
cross the end of what it cancels. Tasks are lost, time out and fail, which
changes the batches of later replays. The workflow function may cancel any
future at any time, also automatically while an exception unwinds. The function
may have been rewritten since its history was recorded. Its calls are then
rejected, by an exception that the function may catch, gather or leave in a task
nobody awaits. A client's call is sent again when
its answer may only have been late, and definitions, registries and agents are
shared by everything an application runs. `PROJECT.json` lists each hazard at
its line.

## 2. Modules

| Module | Models | Correspondence |
|---|---|---|
| `Decisions` | state machines, decisions, event handlers, expectations | constant operators; a machine is a record `[state, future, props, request]`, `type_to_action` the dispatch table with one row per handler |
| `DecisionManager` | decision manager and determinism tracker | variables are the fields of both classes; one action per method, with the exception it raises in `raised`. An entry of `_expectations` that was deleted is one whose `upcoming` is empty |
| `DecisionEvents` | decision events iterator | `NextBatch(history, pos)` is what `__next__` returns, `Exhausted` its `StopIteration`, `Malformed` its `ValueError` |
| `WorkflowReplay` | engine, workflow instance, context, task handler's success and failure paths, the service around them | composes the others; `phase` is where `process_decision` is, `task` the state of `WorkflowInstance._task` |
| `CommandLife` | -- | abstract specification: how the recorded commands of a workflow follow each other; `WorkflowReplay` implements it |
| `DecisionTask` | task handler, history paging | per task: `stage` is where `_handle_task_implementation` is, `events` and `token` the locals of `iterate_history_events`; `sent` holds the answers the service may execute at any time |
| `DecisionTaskLife` | -- | abstract specification: what an execution may rely on; `DecisionTask` implements it |
| `Poller` | `Poller`, the workers around it, asyncio's semaphore | `at` is where each `_poll_loop` is, `callback` where each task is; an action is what runs between two awaits |
| `ActivityExecution` | executor, contexts, heartbeat sender | per task: its stage, its heartbeats each with a stage of its own, its report; functions run in the loop or in a thread |
| `RpcRetry` | `RetryInterceptor`, error mapping | one call; `stage` is where `intercept_unary_unary` is, the clock counts from `start_time` |
| `Client` | `Client`, the service behind it | extends `RpcRetry`: the calls of one client, one after the other. `calls` holds their requests, `wire` the attempts the service may execute at any time, `runs` and `signals` what it has done |
| `Signatures` | `FnSignature`, both data converters | constant operators: a value is its Python type and which one it is; what raises is a predicate beside the operator it would raise in |
| `Registry` | definitions, `Registry` | the two dictionaries of every registry, and which registrations returned |
| `Application` | a call by name, from the caller's binding to its answer | extends `Registry`: one call and where it is, the payload it became, what was found under its name and what its parameters got |
| `Agents` | `CadenceAgentRunner`, `CadenceModel`, the SDK's loop over turns around them | extends `Application`: the `model` field of every agent, and the run; a model call is a call of `Application` |
| `EventLoop` | `DeterministicEventLoop` | variables are its fields and the locals of `_run_once`, the future of `run_until_complete` and the handles that call `stop`, plus the histories of what was scheduled, ran and was thrown away |
| `MC...` | -- | the instances TLC checks: sets of model values, symmetry |
| `..._proofs` | -- | theorems about the module of that name; `WorkflowHistory_proofs`, `WorkflowRebuild_proofs` and `WorkflowCalls_proofs` continue `WorkflowReplay_proofs`, each the one before it, `Worker_proofs` is about `Poller` and `Application`, `Execution_proofs` about `ActivityExecution` and `EventLoop`, and `Client_proofs` begins with those about `RpcRetry` |

How they compose. `WorkflowReplay` is built from `Decisions`, `DecisionManager`
and `DecisionEvents`; `Client` from `RpcRetry`; `Agents` from `Application`, that
from `Registry`, and that from `Signatures`. Otherwise a module meets another at
an interface that is one step on one side and a module on the other:
`run_until_yield` is a phase of `WorkflowReplay` and the subject of `EventLoop`;
the engine is one step of `DecisionTask`, which is what `WorkflowReplay` assumes
of its tasks (a task is answered once, on the whole history); a handler is a
callback of `Poller`, and the execution of an activity is another; a call of the
service is one step of all of them but `Client`, which ends, by `RpcRetry`; a
call by name is one step of `WorkflowReplay` (`ExecuteActivity`) and the whole
of `Application`.

Two abstract specifications say what the service may rely on, and are
instantiated with a refinement mapping: `Life` in `DecisionTask` (the status of
each task, and what its decisions rest on) and `Commands` in `WorkflowReplay`,
whose variables are read off the recorded history (the ids that were started
and cancelled, in order, what is over, and what of it the latest task was
told).

`WorkflowReplay` is one execution of one workflow. The workflow function is any
function: in each batch it makes any sequence of up to `MaxOps` calls
(`execute_activity`, `start_timer`, cancellation of any future, return with any
outcome). With `Deterministic` it makes in a replayed batch the calls it made
when the batch was recorded (`script`); without, it may make any others, as a
rewritten function would. A call that is rejected raises in the task that made
it, and what becomes of that is the function's affair (`Raises`): it ends at
once; or it goes on, because it catches the exception, gathers it, does not await
that task, or is in another task just now, and makes further calls, returns, or
is ended by the rejection after all (`RejectionUnwinds`). Nothing in the code asks
for the rejection again: `complete_replay` looks at what is left to expect and not
at `_failed`. While an exception unwinds, `AutomaticCancel` cancels what still
runs. `outlived` remembers that some call was rejected and the function went on;
no action reads it.

The service is external. Its actions do what the engine's code and comments
expect: decision events directly behind `DecisionTaskCompleted` in the order of
the decisions, what arrived meanwhile behind those; a cancelled timer's waiting
firing is dropped; a cancelled activity that already ended is recorded as
requested, and perhaps as failed besides; an answer that closes the workflow
is refused while there is something unseen; an unsuccessful task leaves a
`DecisionTaskFailed` or `DecisionTaskTimedOut` event. In `Client` the service
remembers the `request_id`s it has executed: it is what the client sends them
for, and nothing else could make a repeated start harmless.

Abstractions, and why they lose nothing the properties speak of:

- Payloads, results, durations and failure details are dropped; of a request
  the activity type stays, because the tracker compares it. The JSON text of a
  cancellation marker is its content.
- Of the events no handler looks at, only signals are written, as what may wake
  a workflow that waits for nothing else; `DecisionTaskScheduled` is not. Event
  kinds the client has no call for (child workflows, external signals) do not
  occur, although `is_decision_event` lists them.
- Arrivals are placed before the answer or between tasks. The engine works on
  the history it was given, so an arrival commutes with its steps.
- One engine works at a time: the service accepts one answer per task token, so
  the answer of an engine whose task timed out has no effect. A crash of the
  worker is such a timeout, in any phase.
- Which calls the function can make does not depend on which future is done,
  so the model's workflows include every real one and some that wake up
  without cause.
- Completions raised by an `ExceptionGroup` are `Fail`, or the fatal error in it.
- `DecisionTask`: events are named by their places in history; the cause and
  the text of a failure are dropped. A page token is taken to be bound to the
  history the task was started with.
- `Poller`: the worker is run and closed once. A poll or a callback raises, or
  does not, at the environment's choice.
- `ActivityExecution`: results and failures by what becomes of them (a result
  may not encode, a report may fail); the size of the thread pool is left out.
- `RpcRetry`: time is whole ticks; `lag` is how late the event loop comes back.
  The growing delay is exact in the model and a float in the code.
- `Client`: a client's caller waits for each answer before its next call. Of the
  options only what validation distinguishes is kept. The service may execute
  any attempt it was ever sent, at any time and repeatedly; once, somebody else
  starts a workflow of the same id.
- `Registry`, `Application`: a function is its qualified name, its parameters,
  its result and whether it is a coroutine function. The text of a payload is
  its values and the spaces between them. The options of definitions are left out.
- `Agents`: the SDK's loop asks the model of the current agent and goes on with
  it, with one it hands off to, or ends. Of a model call's parameters only the
  model's name differs from call to call.
- `EventLoop`: a task or a future is a source of handles. What raises and
  changes nothing (a nested run, closing a running loop, what the loop does not
  support) is no step.

Not modelled: tasks the function spawned and left running after it returned; what a signal carries
(the engine does not deliver signals yet); a worker that is run again, or ends
with its event loop; the rounding of durations and the data `ActivityInfo` and
`WorkflowInfo` are filled with; contextvars; opening and closing of channels and
the headers of `yarpc.py`; the agent runner's `run_sync` and `run_streamed`, which
only raise. Of whole components: metrics, which nothing in the client or the
worker calls (see the remarks below for what reading them showed); generated
code; samples and scripts.

## 3. Properties and runs

| Run | Instance | Shows |
|---|---|---|
| `faithful` | workflow unchanged, no cancellation in the task of the call | `NoSpuriousFailure`: never rejected, no engine error whatever the interleaving. `ReplayRebuilds`: at the start of each replayed batch, ids, order, machine states and futures are what they were when the batch ran first. `NothingSentAgain`: a recorded command is not sent again. `FuturesAgreeWithHistory`: a future is done exactly if history up to there, or the workflow itself, says so. `CompletionIsLast` |
| `signaled` | unchanged, woken by a signal while everything is open | several cancellations in one task, in any order. `CommandsOnce`: the service sees every command once. `DecisionsInCallOrder`: the order of an answer is the order of the workflow's last word on each item |
| `rewritten` | anything in replay, immediate cancellation | `ReplaySound`: the decisions the rewritten code would have sent in an accepted batch are the recorded ones, one by one, if no call was rejected in it. `NothingRecordedIsMissed`: also behind a rejection that the function caught, a batch is only accepted if everything recorded was called for again. `ManagerSound` (that is `OrderIsKeys`, `FreshIds`, `AliasesResolve` and `TrackerHoldsOneEntry`), `TypeOK`: the manager's structures stay sound under calls nobody intended |
| `liveness` | unchanged, one task lost | `EveryEndIsAnswered`: an end of an activity or a firing that was reported is seen by a task that completes, unless the workflow closes first (or a cancellation dropped the firing). `ImplementsCommandLife`: what history records is a behaviour of `CommandLife`: items start once and in turn, are cancelled once, and only while the workflow cannot know that they are over |
| `decision_task` | two tasks, four events, pages of two | `ImplementsLife`: each task is settled once, and decisions rest on the whole history it was started with, whatever pages fail, calls are lost, late or repeated, tasks time out and workers die. `NoSilentEnd`: a handler ends only behind decisions the service took or a failure it was sent. `EveryTaskIsHandled` |
| `poller` | four loops, two permits, two tasks | `PermitsAccounted`: each permit is in one place until the worker is closed, and there are never more. `EveryLoopPolls`: no loop starves behind the others. `EveryTaskIsExecuted` |
| `activity` | one activity in the loop, one in a thread, two heartbeats each | `ReportedOnce`. `ReportEndsHeartbeats`: no heartbeat is on its way behind the report, whichever thread sent it. `EveryExecutionEnds`, unless the function ended in a `CancelledError` |
| `client` | two calls of up to three attempts, delays of 1 and 2 ticks, 6 in all | `EndsInTime`: a call is over by its deadline, plus what the loop is late. `AttemptsBounded`. `GivesUpLate`: it does not give up while the longest delay would fit. `EffectsOnce`: however often it was sent and however late it is executed, it starts one run and records one signal. `RefusedByOthers`: a start is never refused because of its own first attempt. `AnsweredInOrder`: what was answered is done, signals in the order of the calls. `EveryCallEnds`, although the service never answers |
| `application` | definitions that share names, three registries, six ways to call, four agents | `NamesKeepMeaning`: a registry never changes what a name means, whatever is refused half way. `ServedByItsOwn`: what the worker's registry took runs when it is called. `ValuesArrive`: what the hints admit arrives as it was, through position, name, default, payload and the worker's own signature. `CallsAreActivities`: no model is called from a workflow, until a run was refused. `AgentsGetTheirModel`: over several runs of the same agents |
| `event_loop` | four handles, each scheduled once | `RunInOrder`: handles run in the order of their scheduling and none is passed over. `NothingLost`, also by an aborted run. `PassHasHandles`: `popleft` never finds the queue empty. `RunsYield`: `run_until_yield` returns once handles come to schedule no more. `EndsOnceDone`: `run_until_complete` returns behind the end of its future, once |
| `marker_repeated` | unchanged, immediate cancellation | violation of `CommandsOnce`, see below |
| `continued_early` | rewritten, may continue as new | violation of `EarlyCompletionCaught`, see below |

Bounds. Two ids make a pair of activities, a pair of timers and a mix: enough
for two machines to change places, for one to be cancelled while the other
ends, and for a rewritten workflow to swap them. Three calls per batch allow
"start, start, cancel" and "cancel, cancel, return"; the number of batches is
not bounded by a constant of its own: it is bounded by what can happen to two ids,
up to five tasks. One unsuccessful task puts a failed pair at every
position of the history. The `rewritten` run has two activity types, so that a
swapped type can be noticed, and was also run with three ids and no lost task (4.0
million states) with the same result. Symmetry on the activity types is
sound: no property names one, and it is used with invariants only.

`signaled` allows two calls per batch and one signal: the first task starts two
items, the second cancels both in either order, and later tasks replay it.

The other modules. Two tasks in `decision_task`: more than one handler is only
at work behind a timeout, and the service keeps one task open; four events in
pages of two give an empty first page, a full one and a last one with one event.
Four loops on two permits let two wait, one of them behind the other, and two
tasks keep both permits busy. In `activity` the two executions share only the
loop, and two heartbeats are enough for one to be under way while another is
handed over. Two calls in `client` let the second meet what a late attempt of
the first leaves behind; three attempts, with a delay below the cap and one at
it, exhaust both the policy and the deadline, one tick late or not. The two
functions of one name, the method with its two overrides and the class that is
registered without an object in `application` are one of each case the registry
tells apart; three registries are two operands and a sum. Two of its agents
hand off to each other, a third has a handoff that is refused behind one that
is not, a fourth a tool that cannot be described; two turns let a run change its
agent once. Four handles make two passes of two, the
first of which schedules the second. No run but `rewritten` uses symmetry.

The four handles of `event_loop` bound what is ever scheduled, and that bound hides
one thing: a handle that schedules another, which does so again, and so on for
ever (`while True: await asyncio.sleep(0)` in a workflow) fills the queue again in
every pass, and `run_until_yield` never leaves `while self._ready`
(`deterministic_event_loop.py:42`). `RunsYield` therefore has it as a hypothesis
that scheduling comes to an end; in the run it always does. What the property
shows is that nothing else keeps a run from returning: not a cancelled handle, a
call of `stop`, an abort, or what an earlier run left.

Two runs restrict their steps with an action constraint, where only the order
of independent steps is left out. `InOneOrder` (`event_loop`): handles have no
names, so the order in which they are scheduled names them. `InOrder`
(`application`): a worker's registry is filled by itself, also while a call
waits, or by a sum of two that are complete before anything is called; agents
run where little else is registered.

All runs turn the deadlock check off: a closed workflow, one whose unsuccessful
tasks are used up, a closed worker, a reported activity, a client that made
its calls and a closed loop stop.

Fairness (`liveness`). Weak fairness of `Progress`: the engine's steps, the
workflow function's steps, the poll, and the service's treatment of an answer. The
code justifies the first two by the loops that call them, the poll by the poll
loop, which has no other exit than cancellation; the service's part is what the
library assumes of it. Activities and timers need not end, and tasks may be lost
up to `MaxUnsuccessful`: without a bound, a worker that crashes in every task
answers nothing.

Fairness of the others, each under a `FairSpec` of its own (`LoopFairSpec` for
`event_loop`). `decision_task`: each
handler goes on, because the engine returns and calls end; nothing is assumed of
the service. `poller`: asyncio runs what is ready, a poll ends by its timeout, a
callback ends, and a service that holds a task and is polled again and again
hands it out. `activity`: the loop and the threads run, calls end, functions
end. `client`: time passes, gRPC ends an attempt whose time is over, and the event
loop comes back to the call; nothing is assumed of the service or the callers.
`event_loop`: the thread that runs the loop goes on and handles end.

### Disagreements found

- **A marker is sent in every later task** (`marker_repeated`). A call that is
  cancelled in the task that made it is recorded by a marker.
  `nondeterminism.py:143` counts on "a single event". No handler acknowledges
  it (`decision_manager.py:66`), the machine stays in
  `CANCELED_AFTER_REQUESTED`, and `collect_pending_decisions` sends the marker
  with each later task. With three ids the same model goes further: the repeated
  marker makes the tracker expect the call in a batch in which the workflow does not
  make it, and an unchanged workflow is rejected for non-determinism
  (`NoSpuriousFailure` with `MaxIds = 3`).
- **An early continue-as-new is not caught** (`continued_early`).
  `workflow_engine.py:173` relies on the tracker to catch a completion that
  comes early; `to_expectation` has no case for a continue-as-new, neither as
  decision nor as event, so a replay in which the workflow continues as new too
  early is accepted.

### Remarks

What reading and modelling showed besides. No document says otherwise, or no run
is spent on it.

- `run_until_yield` has the docstring of `run_forever`, "Run until stop() is
  called." (`deterministic_event_loop.py:39`), and runs until nothing is ready,
  stopped or not. The engine relies on the latter. A workflow that never stops
  scheduling keeps it, and the worker's thread, for ever.
- A rejection is not final. A workflow that goes on behind a `NonDeterminismError`
  is answered, if it made every recorded call; what it called for besides is not
  sent, but has taken a number (`decision_manager.py:88`), so that the next answer
  leaves one out. A cancellation that was rejected is sent: `_request_cancel`
  changes the machine before it asks the tracker (`decision_manager.py:209`).
- `run_until_complete` of a future that was interrupted before the run spins for
  ever; a run that is aborted leaves its callback in the queue, which stops a
  later run early.
- A run of agents that is refused half way leaves some of them with the new
  model; a second run takes those for done, and calls the models of the others
  from the workflow (`CallsAreActivities` holds until then).
- `register_activities` of a class registers its functions unbound: the first
  value of a call becomes `self`, and the rest shift.
- `signal.py:130` refuses a handler annotated `-> None`, because its hint is
  `type(None)`.
- A `CancelledError` of a workflow or activity function is no `Exception`: the
  task is not answered and waits for its timeout, every time.
- The generators behind `_activate` (`workflow.py:321`, `activity.py:84`,
  `context.py:129`) have no `finally`: an exception leaves the context set.
- Metrics: the first sample of a name decides its label names, and only if it
  has tags of its own are the default labels among them (`prometheus.py:62`),
  although they are "Default labels to apply to all metrics" (`:26`). A later
  sample with other labels is refused by prometheus_client, and only logged.

## 4. Proofs

Each theorem holds for every value of the constants, from the named assumptions
of its module (finite sets of pollers and tasks, bounds that are numbers, `None`
no handle, ...), which TLC evaluates in the runs.

| Module | Theorem | Statement |
|---|---|---|
| `WorkflowReplay_proofs` | `TypeCorrect` | `Spec => []TypeOK` |
| | `OrderIsAlwaysKeys` | `Spec => []OrderIsKeys` |
| | `IdsAreFresh` | `Spec => []FreshIds` |
| | `AliasesAlwaysResolve` | `Spec => []AliasesResolve` |
| | `TrackerEntriesAreUnique` | `Spec => []TrackerHoldsOneEntry` |
| | `ManagerIsSound` | `Spec => []ManagerSound` |
| | `CompletionStaysLast` | `Spec => []CompletionIsLast` |
| | `ReplayIsSound` | `Spec => []ReplayInv` |
| | `CommandsAreGivenOnce` | `~ImmediateCancel` gives `Spec => []CommandsOnce` |
| | `DecisionsAreRecordedOnce` | `Spec => []RecordedOnce` |
| | `HistoryIsShaped` | `Spec => []ShapeInv` |
| | `FuturesFollowHistory` | `~ImmediateCancel` gives `Spec => []FuturesAgreeWithHistory` |
| | `ReplayAcknowledges` | `~ImmediateCancel` gives `Spec => []AckInv` |
| `WorkflowHistory_proofs` | `NothingIsSentAgain` | `~ImmediateCancel`, and `Deterministic` or no continue-as-new, give `Spec => [](Untroubled => NothingSentAgain)` |
| | `CommandLifeIsImplemented` | `~ImmediateCancel` gives `Spec /\ []LetThrough => ImplementsCommandLife` |
| | `AcceptedReplaysAreSound` | `~ImmediateCancel`, and `Deterministic` or no continue-as-new, give `Spec => [](LetThrough => ReplaySound)` |
| `WorkflowCalls_proofs` | `NothingIsTurnedDown` | `Deterministic`, `~ImmediateCancel` give `Spec => []NoSpuriousFailure` |
| | `HistoryHoldsTheCalls` | the same give `Spec => [](AnswerSays /\ ScriptSays)` |
| | `ReplayRebuildsThePast` | the same give `Spec => []ReplayRebuilds` |
| | `AnswersFollowTheCalls` | the same give `Spec => []DecisionsInCallOrder` |
| | `ReplaySendsNothing` | the same give `Spec => []NothingSentAgain` |
| | `CommandsLiveAsRecorded` | the same give `Spec => ImplementsCommandLife` |
| `DecisionTask_proofs` | `TypeCorrect` | `Spec => []TypeOK` |
| | `HandlersAnswer` | `Spec => []NoSilentEnd` |
| | `LifeIsImplemented` | `Spec => ImplementsLife` |
| `Worker_proofs` | `TypeCorrect` | `Spec => []TypeOK` (`Spec` is that of `Poller`) |
| | `PermitsAreAccounted` | `Spec => []PermitsAccounted` |
| | `NamesAlwaysKeepMeaning` | `ApplicationSpec => NamesKeepMeaning` |
| | `CallsReachTheirOwn` | `ApplicationSpec => []ServedByItsOwn` |
| `Execution_proofs` | `TypeCorrect` | `Spec => []TypeOK` (`Spec` is that of `ActivityExecution`) |
| | `ExecutionsReportedOnce` | `Spec => []ReportedOnce` |
| | `ReportsFollowHeartbeats` | `Spec => []ReportEndsHeartbeats` |
| | `LoopTypeCorrect` | `LoopSpec => []LoopTypeOK` |
| | `HandlesRunInOrder` | `LoopSpec => []RunInOrder` |
| | `NoHandleIsLost` | `LoopSpec => []NothingLost` |
| | `PassesHaveHandles` | `LoopSpec => []PassHasHandles` |
| `Client_proofs` | `TypeCorrect` | `Spec => []TypeOK` (`Spec` is that of `RpcRetry`) |
| | `CallsEndInTime` | `Spec => []EndsInTime` |
| | `AttemptsAreBounded` | `Spec => []AttemptsBounded` |
| | `CallsGiveUpLate` | `Spec => []GivesUpLate` |
| | `CallsTakeEffectOnce` | `ClientSpec => []EffectsOnce` |
| | `StartsAreRefusedByOthers` | `ClientSpec => []RefusedByOthers` |
| | `AnswersAreInOrder` | `ClientSpec => []AnsweredInOrder` |
| | `ClientCallsEndInTime`, `ClientAttemptsAreBounded`, `ClientCallsGiveUpLate` | the same of every call of a client |

**Replay.** The five structural properties are conjuncts of one inductive
invariant `IInv`. None is inductive alone: that `Add` keeps `OrderIsKeys` needs the
keys to be decision ids and `order` a sequence; that it keeps `FreshIds` needs
both the type of the keys and the counter's; that an event keeps
`AliasesResolve` needs the machine it finds to exist; and that a batch of
expectations outside of replay is empty needs `ReplayOver` (between batches
nothing is replaying), which is an invariant of its own, proved first. The
steps are one lemma per method of the manager (`RequestKeepsManager`,
`RequestCancelKeepsManager`, ...), on top of lemmas about what they do to
sequences: `MoveToEndPermutes` (moving a key to the end permutes the order),
`AddKeepsMachines`, `ConsumeKeepsTracker`, `NextBatchShape` (a batch is a finite
run of events). `EngineKeepsInv`, `WorkflowKeepsInv` and `ServiceKeepsInv` put them
together, one step per action.

**Rejections.** `IInv`, and the invariants of the service's history behind
`CommandsOnce`, `FuturesAgreeWithHistory` and the rest of `WorkflowReplay_proofs`,
hold of every workflow, whatever it does with a rejection. Where a proof needs
that a failed tracker ends the task (`Unwinds`: the workflow function has ended in
the failure and is on its way to `_maybe_complete_workflow`, which raises it, or
the engine has given up), it has to say so: it holds as long as no function went on
behind a rejection (`LetThrough`, that is `~outlived`; `RejectionsUnwind`). Since
`outlived` is never reset (`OutlivedStays`), the theorems with that hypothesis speak
of all executions up to the first rejection that was caught, in whatever engine
it was. A caught rejection does break them: it takes a number, so that commands no
longer start in turn. For a workflow that was not rewritten the hypothesis goes
away: `AllIsTaken` shows in one induction that no call of it is rejected and that
it therefore never went on behind a rejection, and the theorems of
`WorkflowCalls_proofs` follow without it.

`CompletionStaysLast` is about the loop of `collect_pending_decisions`, of any
length. Its invariant `LastInv` says that the completion, once there is one, is
the last key of the ordered dictionary and the workflow function has ended, so
that no call moves another key behind it. That the loop turns this order into
the order of the decisions (`CollectedIsLast`) is an induction over the keys,
made without the library's induction theorems: a set of counterexamples would
have a least element (`Least`, from the well-foundedness of `<`), and the one
before it is none.

**History.** What relates an engine to the history it replays is `ReplayInv`
(`ReplayIsSound`), for every workflow, rewritten or not. It has three parts
beside the above. `HistoryInv` says what the service may have written: `Follows`
gives, for an event and the history before it, what must be there (a start
before its cancellation, with a task between them; no second event of a kind for
an id; nothing behind an end), and what waits behind a history can be written
whenever the task is over (`Writable`). It holds because a decision of an answer
is news to the service (`Sendable`), which in turn needs to know what a machine's
state says of the history: `AgreeInv` says that the machines and aliases are what
the events handled so far make them. The events handled so far are those before
the iterator's position without those of the batch that are still to come
(`Applied`, `Pending`), so `PlaceInv` says where the engine is in its batch in every
phase. That the loop of `collect_pending_decisions` takes from each machine what its
state tells (`CollectedInOrder`) is again an induction by a least counterexample.
`CommandsAreGivenOnce` and `DecisionsAreRecordedOnce` follow from `Written`.

**Futures.** `FlowInv` adds what the futures say. The one event whose handler
leaves a future alone is the cancellation of a timer, so the invariant has to say
that the workflow cancelled that future before, or that the tracker still waits
for it (`CancelsExpected`): a batch with a cancellation the workflow does not make is
rejected at its end and the output events are not handled.

**Acknowledgement.** `AckInv`: when a batch was replayed, no activity or timer has
anything to send. In the middle of the batch it says that whatever has something
to send has its event among those still to come (`Recording`), because the tracker
lets a call pass only when it was expected, and expects only what the batch
records (`Foretold`). It does not say that the workflow is not over, and for a
rewritten workflow that continues as new it is not true (`continued_early`). For
the others `Unended` is proved in two ways: by the tracker, if every completion
is one it knows, and otherwise by the script of an unchanged workflow
(`ScriptInv`: an entry for every answer recorded, a return only in the last).
`NothingIsSentAgain` is the two together, in a task that rejected nothing
(`Untroubled`). Where a workflow cancels its own request
the markers are sent again, so the property and most of the theorems of this
part have the hypothesis `~ImmediateCancel`; `CommandsOnce` without it is refuted by
`marker_repeated`.

**The life of commands.** The refinement reads the abstract state off the history:
what was started and cancelled, in order, what is over, and what the latest task
was told. The proof has a lemma for each way the history grows: by what starts,
cancels or ends something, by the start of a task, and by events that are none of
its concern (`Quiet`). The hard steps are those of the answer. That items start
in turn needs the numbers (`NumbersInv`: no number is lost but to a rejected call,
and newer machines are behind older ones; `NumberedIn`: so history and the rest of
the answer continue each other). That an item is cancelled once and not after the
workflow was told that it is over is `Sendable`. That nothing is behind the end of the
workflow is `ClosingInv`. That a refused cancellation changes nothing is `RefusedInv`.

**The order of an answer.** `CallOrderInv`: of two machines with something to send,
the one behind in the ordered dictionary was called last. It is a statement
about the calls of the live batch, and starts from nothing to send (`AckInv`); it
needs that a machine's state shows whether its cancellation was called
(`CallsAreKnown`), and which number a call was given, which is a count of the
calls before it (`OneCallMore`).

**What the tracker accepts.** `ReplaySound` compares two lists, so the invariant
does: the entries of the tracker are the output events of the batch, one for one
(`EntriesInv`); those met so far are a prefix of them, what is met is what the
machines would send, nothing else would be sent, and in the order of the dictionary
(`TrackInv`). A call that passes meets the next entry and moves its machine behind the
others. At the end of the batch all entries are met, and two ascending
enumerations of one set are the same (`AscendingIsUnique`). A request that is cancelled
at once leaves a marker, which stands for two calls; the theorem leaves it out, the
run does not.

**Replay rebuilds the past.** A replay and the run it repeats are steps of two
engines, with lost tasks and new events between them, so they are not compared
with each other but with what both have read: `ViewAt(v, h, n)` says what the first
`n` events of a history make of the manager, and `ViewIsOne` that they make one thing
of it. The number of the next command is what those started before it; the order of
the machines is that of the last word on each, a start or a cancellation
(`OrderIsOfWords`, by `AscendingIsUnique`); state, future, properties and request of a
machine are those of its own events. `ViewStays`: they are the same in a history that has
grown. `RunSeesHistory` is the core: when the code of a batch runs, in
replay or not, the manager is as the events before the batch's task have it. That
machines are not behind those events is `AgreeInv`; that they are not ahead
of them needs that every call of a replayed batch is recorded in it (`AckInv`), that
its event is told to a machine of the same properties (`FollowInv`, from what the
tracker met, `TrackInv`), and for the order that a call made again moves its machine to
the place of its event (`WordInv`: those the batch moved are behind those it did not, and
among themselves in the order of the events that `ReplaySound` compares). `ViewsInv`
then says of every entry of the script that its view is the one of the events before the
task it answered, `ReplayIsOfItsAnswer` that the batch being replayed is that of the
entry.

**Nothing is turned down.** What `process_decision` may raise, it may raise over an event
or over a call. *Events*: the iterator finds the batches because every
task but the last is answered directly behind its start (`TasksInv`); the tracker takes
the events of a batch because they start or cancel nothing twice (`RunNamesOnce`); an
event finds its machine because the events that made it and gave it its alias are handled
before it (`RefsInv`), and a future that is open: an activity is closed and a timer
ended once, in history or still in the buffer (`OneEnd`, `TimersInv`), and a future that
the workflow cancelled is one whose machine still has its cancellation to send, which
nothing has when inputs are handled (`AckInv`). *Calls*: `CallsInv` says what the
manager is when the code of a batch found `view` and made the calls `ops`: a
machine is new and made by one of the calls, or as it was found and not cancelled, or
cancelled by one. `collect_pending_decisions` then sends exactly what these calls want, in
their order (`CollectedIsWanted`, with `CallOrderIsKept`), the service records it
behind the mark of the answer (`AnswerSays`, one decision at a time), and there it
stays while history grows (`ScriptSays`): for each entry of the script, the events behind
the mark of its answer are its calls. When the batch is replayed, the code finds what it
found (`RebuildingIsKept`), so the calls made so far are those of the script
(`RepeatInv`); the tracker has met what they wanted (`MetInv`); so the entry it expects
next is that of the next call (`NextIsAccepted`), and when the code yields all calls
were made and all entries met (`AllIsMet`). The hypotheses are needed: a workflow that
was rewritten is turned down, which is what the tracker is for, and one that cancels its
own requests is turned down by the markers (below).

**Decision tasks.** A failed page must not look like the end of history, so the
invariant says what a handler has at every moment: the first `n` events of the
history its task was started with, and a token that is `n + 1`, or 0 exactly if `n`
is all of it (`PagesInv`; `PagesJoin` is the step from one page to the next). An
answer on its way then carries the whole history (`AnswersInv`), however late it
arrives, because `started` never changes once the task was handed out. The
abstract step of a late, repeated or refused answer follows.

**Pollers.** `PermitsAccounted` is a sum over four kinds of places (free, handed to a
waiting loop, in a poll, in a callback), and a step moves one permit between two of
them; the invariant adds that the line holds each
waiting loop once and that a loop woken in it has its permit already, so that
cancelling it must pass the permit on. `WithoutLeaves` (taking one loop out of the line)
carries the sequence part.

**Activities.** A report is behind the last heartbeat because the wait for
pending heartbeats covers both what the loop started and what a thread handed
over; the invariant says, stage by stage, which heartbeats can still be alive.

**Retries.** `EndsInTime` needs to know what the timeout of the current wait is:
the deadline for an attempt, and an earlier tick for a sleep. `AttemptsBounded`
needs that attempts made and attempts that failed differ by the one under way.

**Clients.** `ClientInv` follows a `request_id` through the system: each call has
one of its own and every attempt on the wire carries it (`IdsInv`); a run or a
signal of the service names the call it came from (`OriginInv`); an answer that
waits for the client is one the service has given for it (`AnswerInv`). A second
execution of a call then finds the first. For `RefusedByOthers` a start must not
be refused by its own run: while that run is there the service answers `Done`, and
an answer of `AlreadyStarted` needs another run of the workflow. The clock is
that of `RpcRetry`, whose invariant is used as it is. The assumption on the
service is in the model: it remembers the requests it has executed.

**Registries.** The invariant says that every registration that returned is still
in its table, and that what runs is what the table holds under its name now. The
second needs the first and `NamesKeepMeaning`, because registrations go on while
a call is served. The theorems are stated for `ApplicationSpec`, whose tables the
steps of `Agents` leave alone or change by `Registering`.

**Event loop.** `RunInOrder` is the consequence of an invariant on the queue:
what ran and what is ready is, in this order, a subsequence of what was
scheduled, each handle once. With `NothingLost` and the bound of a pass by the queue it
is inductive.

Only model-checked:

- What is proved with the hypothesis `~ImmediateCancel`, for a workflow that cancels
  its own requests: `CommandsOnce` and `NoSpuriousFailure` are false for it,
  `ReplaySound` is checked with it in `rewritten`.
- What a workflow that goes on behind a rejection may do: `NothingRecordedIsMissed` and
  `ManagerSound` in `rewritten`; the second is proved for it as well.
- `ValuesArrive`, which rests on lists of parameters and values of any length bound
  by recursive definitions, and `CallsAreActivities` and `AgentsGetTheirModel`,
  which rest on a recursion over agents that refer to each other in circles. A
  recursive operator is beyond the provers.
- Liveness everywhere (`FairSpec`), which is out of the prover's reach.
- The values of `Backoff`, whose exponent the prover does not know: the proofs use
  its cap only.

## 5. Plan

Done, in this order; each module is a component of its own.

1. `Decisions`, `DecisionManager`, `DecisionEvents`, `WorkflowReplay`: the core.
2. `Poller`: permits, poll failures, callbacks and shutdown.
3. `DecisionTask` and `DecisionTaskLife`: the handler with its paging, and the
   refinement, proved.
4. `ActivityExecution`: executor, contexts, heartbeats, threads.
5. `RpcRetry`, then `Client`: a call, and calls against a service that may
   execute any attempt.
6. `EventLoop`, with its stops and futures.
7. `Signatures`, `Registry`, `Application`, `Agents`: what a call by name means.
8. `CommandLife`, which `WorkflowReplay` implements.
9. Proofs about histories and managers of any size: `CompletionIsLast`,
   `CommandsOnce`, `FuturesAgreeWithHistory`, `NothingSentAgain`,
   `DecisionsInCallOrder`, `ReplaySound`, `ReplayRebuilds`, `NoSpuriousFailure`, and
   the refinement of `CommandLife`.

Left:

1. `DecisionEvents` against a declarative partition of history: `NextBatch`
   visits every event once, in batches that are those of the successful tasks.
2. Composition of `Poller` with `DecisionTask`: a worker that is closed while
   handlers run, and one that is run again.
3. Calls of a client that overlap, and metrics, when the library starts to use
   them.
