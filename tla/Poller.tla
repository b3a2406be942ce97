-------------------------------- MODULE Poller --------------------------------
(***************************************************************************)
(* The poll loops of one worker: permits are taken before a poll, go with  *)
(* the task to a background callback and come back when it ends.  Worker   *)
(* starts the loops and, when it is closed, cancels them.                  *)
(*                                                                         *)
(* asyncio runs one coroutine at a time, from one await to the next, so    *)
(* that an action is everything between two of them.  Its semaphore wakes  *)
(* waiters in the order they came and hands the permit over when it does;  *)
(* a permit handed over is gone although its new holder did not run yet.   *)
(***************************************************************************)
EXTENDS Integers, FiniteSets, Sequences

CONSTANTS
    Pollers,    \* the poll loops of the worker
    Tasks,      \* what the service can hand out
    Permits     \* the size of the semaphore

ASSUME PollersAssumption == IsFiniteSet(Pollers)
ASSUME TasksAssumption == IsFiniteSet(Tasks)
ASSUME PermitsAssumption == Permits \in Nat

VARIABLES
    worker,     \* Worker: "new", "running" or "closed"
    value,      \* Semaphore._value
    line,       \* Semaphore._waiters: the loops that wait, first come first
    woken,      \* the loops in line whose future is done
    at,         \* where each loop is
    callback    \* where each task is: with the service, or its callback

semaphore == << value, line, woken >>
vars == << worker, semaphore, at, callback >>

Init ==
    /\ worker = "new"
    /\ value = Permits
    /\ line = << >>
    /\ woken = {}
    /\ at = [p \in Pollers |-> "created"]
    /\ callback = [t \in Tasks |-> "queued"]

-----------------------------------------------------------------------------
(* asyncio.Semaphore                                                       *)

\* A line without its member p.
Without(s, p) ==
    LET i == CHOOSE k \in DOMAIN s : s[k] = p
    IN  SubSeq(s, 1, i - 1) \o SubSeq(s, i + 1, Len(s))

\* The places of a line whose loops are not awake, w being the ones that are.
Asleep(s, w) == {i \in DOMAIN s : s[i] \notin w}

\* _wake_up_next: of the line s the first that sleeps is woken, if one of the
\* v permits can be handed to it.
WakeNext(v, s, w) ==
    IF v > 0 /\ Asleep(s, w) # {}
    THEN \E i \in Asleep(s, w) :
             /\ \A j \in Asleep(s, w) : i <= j
             /\ value' = v - 1
             /\ woken' = w \cup {s[i]}
    ELSE value' = v /\ woken' = w

\* A loop may overtake nobody: it takes a permit at once only if the line is
\* empty.
Locked(v, s) == v = 0 \/ s # << >>

\* What a loop does at its top, with v permits free: take one and poll, or
\* queue.
Acquire(p, v) ==
    /\ UNCHANGED woken
    /\ IF Locked(v, line)
       THEN /\ line' = Append(line, p)
            /\ value' = v
            /\ at' = [at EXCEPT ![p] = "waiting"]
       ELSE /\ value' = v - 1
            /\ at' = [at EXCEPT ![p] = "polling"]
            /\ UNCHANGED line

\* The permit is given back and the loop starts over, in one go.  With a
\* line, the permit goes to the first in it.
ReleaseAndAcquire(p) ==
    IF line = << >>
    THEN Acquire(p, value + 1)
    ELSE /\ WakeNext(value + 1, line, woken)
         /\ line' = Append(line, p)
         /\ at' = [at EXCEPT ![p] = "waiting"]

-----------------------------------------------------------------------------
(* A poll loop                                                             *)

\* Worker.run and Poller.run
Run ==
    /\ worker = "new"
    /\ worker' = "running"
    /\ at' = [p \in Pollers |-> "started"]
    /\ UNCHANGED << semaphore, callback >>

Start(p) ==
    /\ at[p] = "started"
    /\ Acquire(p, value)
    /\ UNCHANGED << worker, callback >>

\* The loop runs on with the permit it was handed; whoever leaves the line
\* wakes the next if there are permits.
Resume(p) ==
    /\ at[p] = "waiting"
    /\ p \in woken
    /\ line' = Without(line, p)
    /\ WakeNext(value, line', woken \ {p})
    /\ at' = [at EXCEPT ![p] = "polling"]
    /\ UNCHANGED << worker, callback >>

\* Mutants of PollWithoutTask: the permit is not given back when the poll
\* raised; the exception ends the loop.
PollWithoutTask_keeping_permit(p) ==
    /\ at[p] = "polling"
    /\ ReleaseAndAcquire(p) \/ Acquire(p, value)
    /\ UNCHANGED << worker, callback >>
PollWithoutTask_ending_loop(p) ==
    /\ at[p] = "polling"
    /\ \/ ReleaseAndAcquire(p)
       \/ /\ at' = [at EXCEPT ![p] = "ended"]
          /\ WakeNext(value + 1, line, woken)
          /\ UNCHANGED line
    /\ UNCHANGED << worker, callback >>

\* A poll that raised or had no task: the permit is given back.
PollWithoutTask(p) ==
    /\ at[p] = "polling"
    /\ ReleaseAndAcquire(p)
    /\ UNCHANGED << worker, callback >>

\* A poll that brought a task: the callback takes the permit over.
PollWithTask(p, t) ==
    /\ at[p] = "polling"
    /\ callback[t] = "queued"
    /\ callback' = [callback EXCEPT ![t] = "created"]
    /\ Acquire(p, value)
    /\ UNCHANGED worker

\* _execute_callback
StartCallback(t) ==
    /\ callback[t] = "created"
    /\ callback' = [callback EXCEPT ![t] = "running"]
    /\ UNCHANGED << worker, semaphore, at >>

\* Mutant of EndCallback: the permit is only given back if it returned.
EndCallback_keeping_permit(t) ==
    /\ callback[t] = "running"
    /\ callback' = [callback EXCEPT ![t] = "done"]
    /\ WakeNext(value + 1, line, woken) \/ UNCHANGED << value, woken >>
    /\ UNCHANGED << worker, line, at >>

\* It returned or raised.
EndCallback(t) ==
    /\ callback[t] = "running"
    /\ callback' = [callback EXCEPT ![t] = "done"]
    /\ WakeNext(value + 1, line, woken)
    /\ UNCHANGED << worker, line, at >>

-----------------------------------------------------------------------------
(* Closing                                                                 *)

\* Worker.close asks for the cancellation of the poller, whose task group
\* passes it on to every loop.
Close ==
    /\ worker = "running"
    /\ worker' = "closed"
    /\ UNCHANGED << semaphore, at, callback >>

\* A loop that polls keeps its permit for ever, and the task the service may
\* just have answered with is in nobody's hands.
CancelPolling(p) ==
    /\ at[p] = "polling"
    /\ \/ UNCHANGED callback
       \/ \E t \in Tasks :
              /\ callback[t] = "queued"
              /\ callback' = [callback EXCEPT ![t] = "lost"]
    /\ UNCHANGED semaphore

\* A loop that waits leaves the line; the permit it was handed is passed on.
CancelWaiting(p) ==
    /\ at[p] = "waiting"
    /\ line' = Without(line, p)
    /\ IF p \in woken
       THEN WakeNext(value + 1, line', woken \ {p})
       ELSE UNCHANGED << value, woken >>
    /\ UNCHANGED callback

\* A loop that did not run yet never does.
Cancel(p) ==
    /\ worker = "closed"
    /\ at[p] # "ended"
    /\ \/ CancelPolling(p)
       \/ CancelWaiting(p)
       \/ at[p] = "started" /\ UNCHANGED << semaphore, callback >>
    /\ at' = [at EXCEPT ![p] = "ended"]
    /\ UNCHANGED worker

-----------------------------------------------------------------------------
Next ==
    \/ Run
    \/ Close
    \/ \E p \in Pollers :
           \/ Start(p)
           \/ Resume(p)
           \/ PollWithoutTask(p)
           \/ \E t \in Tasks : PollWithTask(p, t)
           \/ Cancel(p)
    \/ \E t \in Tasks : StartCallback(t) \/ EndCallback(t)

Spec == Init /\ [][Next]_vars

\* asyncio runs what is ready.  A poll ends, after 60 seconds at the latest;
\* a callback ends; a service that is polled again and again hands out what
\* it has.
FairSpec ==
    /\ Spec
    /\ \A p \in Pollers :
           WF_vars(Start(p)) /\ WF_vars(Resume(p)) /\ WF_vars(Cancel(p))
    /\ \A p \in Pollers :
           WF_vars(PollWithoutTask(p) \/ \E t \in Tasks : PollWithTask(p, t))
    /\ \A t \in Tasks :
           /\ SF_vars(\E p \in Pollers : PollWithTask(p, t))
           /\ WF_vars(StartCallback(t))
           /\ WF_vars(EndCallback(t))

-----------------------------------------------------------------------------
TypeOK ==
    /\ worker \in {"new", "running", "closed"}
    /\ value \in 0..Permits
    /\ line \in Seq(Pollers)
    /\ woken \subseteq Pollers
    /\ at \in [Pollers -> {"created", "started", "waiting", "polling", "ended"}]
    /\ callback \in [Tasks -> {"queued", "created", "running", "done", "lost"}]

Polling == {p \in Pollers : at[p] = "polling"}
Executing == {t \in Tasks : callback[t] \in {"created", "running"}}

\* No permit is lost or given back twice, whatever polls and callbacks do: each
\* is free, handed to a loop that is being woken, at a poll, or with a task.
\* Closing takes permits away, but adds none.
PermitsAccounted ==
    LET held == value + Cardinality(woken) + Cardinality(Polling)
                      + Cardinality(Executing)
    IN  /\ held <= Permits
        /\ worker # "closed" => held = Permits

\* A loop that waits is in the line, once; one that does not has left it, also
\* when its wait was cancelled.
LineIsWaiting ==
    /\ \A i, j \in DOMAIN line : line[i] = line[j] => i = j
    /\ {line[i] : i \in DOMAIN line} = {p \in Pollers : at[p] = "waiting"}
    /\ woken \subseteq {p \in Pollers : at[p] = "waiting"}

\* Every loop gets to poll, however many share the permits and however long
\* callbacks hold them.
EveryLoopPolls ==
    \A p \in Pollers :
        worker = "running" ~> at[p] = "polling" \/ worker = "closed"

\* As long as the worker is not closed, polls that fail or bring nothing and
\* callbacks that raise do not keep it from working off its task list.
EveryTaskIsExecuted ==
    \A t \in Tasks :
        worker = "running" ~> callback[t] = "done" \/ worker = "closed"
=============================================================================
