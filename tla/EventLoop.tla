------------------------------- MODULE EventLoop -------------------------------
(***************************************************************************)
(* DeterministicEventLoop: a queue of handles that one thread runs in      *)
(* passes, until nothing is left (run_until_yield, what the engine uses),  *)
(* until it is stopped (run_forever), or until the callback of a future    *)
(* stops it (run_until_complete).                                          *)
(*                                                                         *)
(* While a handle runs it may do anything to the loop; between runs the    *)
(* loop's owner may.  What raises RuntimeError and changes nothing, such   *)
(* as a second run inside the first, is no step.                           *)
(***************************************************************************)
EXTENDS Naturals, Sequences, SequencesExt

CONSTANTS
    Handles,    \* the handles that can be created, each by one call_soon: where
                \* they are finitely many, only so many are ever scheduled
    None        \* no handle

ASSUME NoneAssumption == None \notin Handles

VARIABLES
    ready,      \* _ready
    cancelled,  \* the handles with _cancelled set
    running,    \* "no", or the method that runs the loop (_thread_id is set)
    inPass,     \* _run_once is under way
    todo,       \* what is left of its ntodo
    current,    \* the handle that runs
    stopping,   \* _stopping
    closed,     \* _closed
    future,     \* the future of run_until_complete: "none", "pending", "done", or
                \* "interrupted" by a SystemExit or a KeyboardInterrupt
    watched,    \* it holds the callback _run_until_complete_cb
    stops,      \* the handles that will run that callback and call stop
    scheduled,  \* history: the handles in the order of their call_soon
    ran,        \* history: the handles in the order they were run
    dropped     \* history: the handles close threw away

completion == << future, watched, stops >>
loopVars == << ready, cancelled, running, inPass, todo, current, stopping, closed,
           completion, scheduled, ran, dropped >>

LoopInit ==
    /\ ready = << >>
    /\ cancelled = {}
    /\ running = "no"
    /\ inPass = FALSE
    /\ todo = 0
    /\ current = None
    /\ stopping = FALSE
    /\ closed = FALSE
    /\ future = "none"
    /\ watched = FALSE
    /\ stops = {}
    /\ scheduled = << >>
    /\ ran = << >>
    /\ dropped = {}

\* Somebody's code runs: a handle, or the owner of the loop between two runs.
UserCode == running = "no" \/ current \notin stops \cup {None}

-----------------------------------------------------------------------------
(* What user code does                                                     *)

\* Mutant of Enqueue: it goes in front.
Enqueue_in_front(h) ==
    /\ h \notin ToSet(scheduled)
    /\ ready' = << h >> \o ready
    /\ scheduled' = Append(scheduled, h)

\* A new handle; _call_soon does not ask whether the loop is closed.
Enqueue(h) ==
    /\ h \notin ToSet(scheduled)
    /\ ready' = Append(ready, h)
    /\ scheduled' = Append(scheduled, h)

\* call_soon, also by way of a task or of the callbacks of a future.
CallSoon(h) ==
    /\ UserCode
    /\ Enqueue(h)
    /\ UNCHANGED << cancelled, running, inPass, todo, current, stopping, closed, completion, ran, dropped >>

\* Handle.cancel leaves the handle in the queue.  Nobody holds that of a future.
CancelHandle(h) ==
    /\ UserCode
    /\ h \in ToSet(scheduled) \ stops
    /\ cancelled' = cancelled \cup {h}
    /\ UNCHANGED << ready, running, inPass, todo, current, stopping, closed, completion, scheduled, ran, dropped >>

Stop ==
    /\ UserCode
    /\ stopping' = TRUE
    /\ UNCHANGED << ready, cancelled, running, inPass, todo, current, closed, completion, scheduled, ran, dropped >>

\* Mutant of Close: a running loop is closed too.
Close_running ==
    /\ UserCode
    /\ ~closed
    /\ closed' = TRUE
    /\ ready' = << >>
    /\ dropped' = dropped \cup ToSet(ready)
    /\ UNCHANGED << cancelled, running, inPass, todo, current, stopping, completion, scheduled, ran >>

\* Only a loop that does not run can be closed.
Close ==
    /\ running = "no"
    /\ ~closed
    /\ closed' = TRUE
    /\ ready' = << >>
    /\ dropped' = dropped \cup ToSet(ready)
    /\ UNCHANGED << cancelled, running, inPass, todo, current, stopping, completion, scheduled, ran >>

\* _run_forever_setup
Run(how) ==
    /\ running = "no"
    /\ ~closed
    /\ running' = how
    /\ UNCHANGED << ready, cancelled, inPass, todo, current, stopping, closed, completion, scheduled, ran, dropped >>

\* Mutant of RunUntilComplete: a future that is done gets no callback.
RunUntilComplete_unless_done(f, h) ==
    /\ running = "no" /\ ~closed
    /\ running' = "complete"
    /\ future' = f
    /\ watched' = (f = "pending")
    /\ UNCHANGED << cancelled, inPass, todo, current, stopping, closed, ready, scheduled, stops, ran, dropped >>

\* Of a future that is done already the callback h is scheduled at once; it does
\* not stop the loop for one that was interrupted.
RunUntilComplete(f, h) ==
    /\ running = "no" /\ ~closed
    /\ running' = "complete"
    /\ future' = f
    /\ watched' = (f = "pending")
    /\ IF f = "pending" THEN UNCHANGED << ready, scheduled >> ELSE Enqueue(h)
    /\ stops' = IF f = "done" THEN stops \cup {h} ELSE stops
    /\ UNCHANGED << cancelled, inPass, todo, current, stopping, closed, ran, dropped >>

\* The future gets its result, or its task ends; h is its callback.
Complete(h) ==
    /\ UserCode
    /\ future = "pending"
    /\ future' = "done"
    /\ watched' = FALSE
    /\ IF watched THEN Enqueue(h) ELSE UNCHANGED << ready, scheduled >>
    /\ stops' = IF watched THEN stops \cup {h} ELSE stops
    /\ UNCHANGED << cancelled, running, inPass, todo, current, stopping, closed, ran, dropped >>

-----------------------------------------------------------------------------
(* What the loop does                                                      *)

\* Mutant of BeginPass: run_until_yield begins a pass whatever is ready, as
\* run_forever does.
BeginPass_always ==
    /\ running # "no" /\ ~inPass
    /\ inPass' = TRUE
    /\ todo' = Len(ready)
    /\ UNCHANGED << ready, cancelled, running, current, stopping, closed, completion, scheduled, ran, dropped >>

\* _run_once: a pass is as long as the queue is at its start.  run_forever
\* begins one whatever is ready, and also if it was stopped before, and so does
\* run_until_complete.
BeginPass ==
    /\ running # "no" /\ ~inPass
    /\ running \in {"forever", "complete"} \/ ready # << >>
    /\ inPass' = TRUE
    /\ todo' = Len(ready)
    /\ UNCHANGED << ready, cancelled, running, current, stopping, closed, completion, scheduled, ran, dropped >>

\* A cancelled handle is passed over.
SkipHandle ==
    /\ todo > 0 /\ current = None
    /\ Head(ready) \in cancelled
    /\ ready' = Tail(ready)
    /\ todo' = todo - 1
    /\ UNCHANGED << cancelled, running, inPass, current, stopping, closed, completion, scheduled, ran, dropped >>

\* All that the callback of a future does is to call stop.
RunHandle ==
    /\ todo > 0 /\ current = None
    /\ Head(ready) \notin cancelled
    /\ current' = Head(ready)
    /\ ready' = Tail(ready)
    /\ ran' = Append(ran, Head(ready))
    /\ stopping' = (stopping \/ Head(ready) \in stops)
    /\ UNCHANGED << cancelled, running, inPass, todo, closed, completion, scheduled, dropped >>

\* The handle returns, or raises what the loop logs.
HandleEnds ==
    /\ current # None
    /\ current' = None
    /\ todo' = todo - 1
    /\ UNCHANGED << ready, cancelled, running, inPass, stopping, closed, completion, scheduled, ran, dropped >>

\* _run_forever_cleanup, and what run_until_complete does behind it: it takes its
\* callback back, unless that is in the queue already.
Cleanup ==
    /\ running' = "no"
    /\ inPass' = FALSE
    /\ stopping' = FALSE
    /\ watched' = FALSE
    /\ UNCHANGED << cancelled, closed, stops, ran, dropped >>

\* SystemExit or KeyboardInterrupt ends the run in the middle of its pass.
Aborts ==
    /\ current \notin stops \cup {None}
    /\ current' = None
    /\ todo' = 0

\* Mutant of HandleAborts: the rest of the pass is gone.
HandleAborts_with_pass ==
    /\ Aborts
    /\ ready' = SubSeq(ready, todo, Len(ready))
    /\ Cleanup
    /\ UNCHANGED << future, scheduled >>

HandleAborts ==
    /\ Aborts
    /\ Cleanup
    /\ UNCHANGED << ready, future, scheduled >>

\* The handle is the task of the future itself, whose callback h is scheduled
\* before the exception leaves the run.
FutureAborts(h) ==
    /\ Aborts
    /\ Cleanup
    /\ future = "pending"
    /\ future' = "interrupted"
    /\ IF watched THEN Enqueue(h) ELSE UNCHANGED << ready, scheduled >>

PassIsOver == inPass /\ todo = 0

EndPass ==
    /\ PassIsOver
    /\ running = "yield" \/ ~stopping
    /\ inPass' = FALSE
    /\ UNCHANGED << ready, cancelled, running, todo, current, stopping, closed, completion, scheduled, ran, dropped >>

\* run_forever asks behind every pass whether it was stopped.
Stopped ==
    /\ PassIsOver
    /\ running # "yield"
    /\ stopping
    /\ Cleanup
    /\ UNCHANGED << ready, todo, current, future, scheduled >>

\* run_until_yield is over when nothing is ready, whoever called stop.
Yield ==
    /\ running = "yield" /\ ~inPass
    /\ ready = << >>
    /\ Cleanup
    /\ UNCHANGED << ready, todo, current, future, scheduled >>

LoopNext ==
    \/ \E h \in Handles : CallSoon(h) \/ CancelHandle(h) \/ Complete(h) \/ FutureAborts(h)
    \/ \E f \in {"pending", "done", "interrupted"}, h \in Handles : RunUntilComplete(f, h)
    \/ Stop
    \/ Close
    \/ \E how \in {"yield", "forever"} : Run(how)
    \/ BeginPass
    \/ SkipHandle
    \/ RunHandle
    \/ HandleEnds
    \/ HandleAborts
    \/ EndPass
    \/ Stopped
    \/ Yield
LoopSpec == LoopInit /\ [][LoopNext]_loopVars

\* The thread that runs the loop goes on, and handles end.
Progress ==
    BeginPass \/ SkipHandle \/ RunHandle \/ HandleEnds \/ EndPass \/ Stopped \/ Yield
LoopFairSpec == LoopSpec /\ WF_loopVars(Progress)

-----------------------------------------------------------------------------
LoopTypeOK ==
    /\ ready \in Seq(Handles)
    /\ cancelled \subseteq Handles
    /\ running \in {"no", "yield", "forever", "complete"}
    /\ inPass \in BOOLEAN
    /\ todo \in Nat
    /\ current \in Handles \cup {None}
    /\ stopping \in BOOLEAN
    /\ closed \in BOOLEAN
    /\ future \in {"none", "pending", "done", "interrupted"}
    /\ watched \in BOOLEAN
    /\ stops \subseteq Handles
    /\ scheduled \in Seq(Handles)
    /\ ran \in Seq(Handles)
    /\ dropped \subseteq Handles

\* The handle g comes before h in the history s.
Before(s, g, h) == \E i, j \in DOMAIN s : i < j /\ s[i] = g /\ s[j] = h

\* What makes the loop deterministic: handles are run in the order in which
\* they were scheduled, whoever schedules them and however runs end and begin,
\* and none is passed over but those that were cancelled or thrown away.
RunInOrder ==
    /\ \A i, j \in DOMAIN ran : i < j => Before(scheduled, ran[i], ran[j])
    /\ \A h \in ToSet(ran), g \in ToSet(scheduled) :
           Before(scheduled, g, h) => g \in ToSet(ran) \cup cancelled \cup dropped

\* No handle is lost: one that did not run is in the queue, also after a run
\* that was aborted, unless it was cancelled or the loop was closed.
NothingLost ==
    \A h \in ToSet(scheduled) : h \in ToSet(ran) \cup ToSet(ready) \cup cancelled \cup dropped

\* A pass never runs out of handles: popleft finds one for each it counted, and
\* a loop that is closed does not run.
PassHasHandles ==
    /\ todo <= Len(ready) + (IF current = None THEN 0 ELSE 1)
    /\ closed => running = "no" /\ current = None

\* run_until_yield returns if its handles come to schedule no more, whatever they
\* cancel and stop.  Without that it need not: a handle that schedules another,
\* which does so again and so on, as `while True: await asyncio.sleep(0)` does,
\* keeps the queue filled and the run never ends.
RunsYield == <>[][FALSE]_scheduled => (running = "yield" ~> running = "no")

\* run_until_complete returns once its future is done, whenever that happens and
\* whatever the handles behind schedule: its callback is in the queue, and no
\* cancellation or abort of others removes it.
EndsOnceDone == running = "complete" /\ future = "done" ~> running = "no"
=============================================================================
