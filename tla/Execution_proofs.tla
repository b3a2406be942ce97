--------------------------- MODULE Execution_proofs ---------------------------
(***************************************************************************)
(* How a worker runs code: an activity's by ActivityExecution, a           *)
(* workflow's in EventLoop.                                                *)
(*                                                                         *)
(* An execution of an activity is reported once, and behind all its        *)
(* heartbeats, for any number of activities and heartbeats.                *)
(*                                                                         *)
(* The loop runs handles in the order in which they were scheduled, and    *)
(* loses none, for any set of handles.  The order alone is not inductive:  *)
(* it needs that the queue holds what was scheduled behind all that was    *)
(* run, in order.                                                          *)
(***************************************************************************)
EXTENDS ActivityExecution, EventLoop, SequenceTheorems, TLAPS

-----------------------------------------------------------------------------
(* The executor of activities                                              *)

\* A heartbeat on its way.
Unfinished(t, b) == beat[t][b] \in {"submitted", "sent"}

\* Nothing is reported before the end of the wait, and one report after it.
ReportInv(t) ==
    /\ stage[t] \notin {"reporting", "done"} => requests[t] = << >>
    /\ Len(requests[t]) <= 1

\* Where an unfinished heartbeat is remembered: by the thread that just sent
\* it or in _heartbeat_tasks while the function runs, and then by the wait.
HeartbeatInv(t) ==
    /\ stage[t] # "executing" => entering[t] = 0
    /\ stage[t] = "received" => \A b \in Beats : ~Unfinished(t, b)
    /\ stage[t] \in {"executing", "returned"} =>
           \A b \in Beats : Unfinished(t, b) => b \in tracked[t] \/ b = entering[t]
    /\ stage[t] = "flushing" =>
           \A b \in Beats : Unfinished(t, b) => b \in awaited[t]
    /\ stage[t] \in {"reporting", "done"} => \A b \in Beats : ~Unfinished(t, b)

IInv ==
    /\ TypeOK
    /\ \A t \in Tasks : ReportInv(t) /\ HeartbeatInv(t)

\* An execution that was just handed out.
LEMMA InitHasInv == Init => IInv
<1> SUFFICES ASSUME Init
             PROVE  IInv
  OBVIOUS
<1>1. TypeOK
  BY HeartbeatsAssumption DEF Init, TypeOK, Beats
<1>2. ASSUME NEW t \in Tasks
      PROVE  ReportInv(t) /\ HeartbeatInv(t)
  <2>1. /\ stage[t] = "received" /\ entering[t] = 0 /\ requests[t] = << >>
        /\ \A b \in Beats : beat[t][b] = "none"
    BY DEF Init
  <2>2. Len(requests[t]) <= 1
    BY <2>1
  <2> QED BY <2>1, <2>2 DEF ReportInv, HeartbeatInv, Unfinished
<1> QED BY <1>1, <1>2 DEF IInv

\* A step of one execution leaves the others alone.
LEMMA OthersKeepInv ==
    ASSUME IInv, NEW t \in Tasks, NEW u \in Tasks, t # u,
           \/ ExecutorNext(t) \/ FunctionNext(t)
           \/ \E b \in Beats : HeartbeatNext(t, b)
    PROVE  ReportInv(u)' /\ HeartbeatInv(u)'
<1>1. /\ stage'[u] = stage[u] /\ entering'[u] = entering[u]
      /\ beat'[u] = beat[u] /\ tracked'[u] = tracked[u]
      /\ awaited'[u] = awaited[u] /\ requests'[u] = requests[u]
  BY DEF IInv, TypeOK, ExecutorNext, FunctionNext, HeartbeatNext, Report, Refuse,
         Execute, Return, Flush, ReportSuccess, ReportFailure, Unreported,
         ReportEnds, NextBeat, AsyncHeartbeat, SyncHeartbeat, EnterHeartbeat,
         SendHeartbeat, HeartbeatEnds, DiscardHeartbeat
<1> QED BY <1>1 DEF IInv, ReportInv, HeartbeatInv, Unfinished

\* Each step keeps the types.
LEMMA TypeStep ==
    ASSUME TypeOK, NEW t \in Tasks,
           \/ ExecutorNext(t) \/ FunctionNext(t)
           \/ \E b \in Beats : HeartbeatNext(t, b)
    PROVE  TypeOK'
<1>1. ASSUME NEW request \in {"Completed", "Failed"}, Report(t, request)
      PROVE  /\ requests' \in [Tasks -> Seq({"Completed", "Failed"})]
             /\ stage' = [stage EXCEPT ![t] = "reporting"]
  <2>1. Append(requests[t], request) \in Seq({"Completed", "Failed"})
    BY DEF TypeOK
  <2> QED BY <1>1, <2>1 DEF TypeOK, Report
<1>2. CASE Refuse(t)
  BY <1>1, <1>2 DEF Refuse, TypeOK
<1>3. CASE Execute(t)
  BY <1>3 DEF Execute, TypeOK
<1>4. CASE Flush(t)
  BY <1>4 DEF Flush, TypeOK
<1>5. CASE ReportSuccess(t)
  BY <1>1, <1>5 DEF ReportSuccess, TypeOK
<1>6. CASE ReportFailure(t)
  BY <1>1, <1>6 DEF ReportFailure, TypeOK
<1>7. CASE Unreported(t)
  BY <1>7 DEF Unreported, TypeOK
<1>8. CASE ReportEnds(t)
  BY <1>8 DEF ReportEnds, TypeOK
<1>9. CASE FunctionNext(t)
  <2>1. ASSUME NEW how \in {"result", "exception", "cancelled"}, Return(t, how)
        PROVE  TypeOK'
    BY <2>1 DEF Return, TypeOK
  <2>2. ASSUME NEW b \in Beats, NextBeat(t, b)
        PROVE  beat' \in [Tasks -> [Beats -> {"none", "submitted", "sent", "ended"}]]
    BY <2>2 DEF NextBeat, TypeOK
  <2>3. ASSUME NEW b \in Beats, AsyncHeartbeat(t, b)
        PROVE  TypeOK'
    BY <2>2, <2>3 DEF AsyncHeartbeat, TypeOK
  <2>4. ASSUME NEW b \in Beats, SyncHeartbeat(t, b)
        PROVE  TypeOK'
    BY <2>2, <2>4 DEF SyncHeartbeat, TypeOK
  <2>5. CASE EnterHeartbeat(t)
    BY <2>5 DEF EnterHeartbeat, TypeOK
  <2> QED BY <1>9, <2>1, <2>3, <2>4, <2>5 DEF FunctionNext
<1>10. CASE \E b \in Beats : HeartbeatNext(t, b)
  <2>1. PICK b \in Beats : HeartbeatNext(t, b)
    BY <1>10
  <2>2. CASE SendHeartbeat(t, b)
    BY <2>2 DEF SendHeartbeat, TypeOK
  <2>3. CASE HeartbeatEnds(t, b)
    BY <2>3 DEF HeartbeatEnds, TypeOK
  <2>4. CASE DiscardHeartbeat(t, b)
    BY <2>4 DEF DiscardHeartbeat, TypeOK
  <2> QED BY <2>1, <2>2, <2>3, <2>4 DEF HeartbeatNext
<1> QED BY <1>2, <1>3, <1>4, <1>5, <1>6, <1>7, <1>8, <1>9, <1>10 DEF ExecutorNext

\* The first report: behind it no heartbeat is on its way.
LEMMA FirstReport ==
    ASSUME IInv, NEW t \in Tasks, NEW request, Report(t, request),
           beat' = beat, entering' = entering, entering[t] = 0,
           requests[t] = << >>, \A b \in Beats : ~Unfinished(t, b)
    PROVE  ReportInv(t)' /\ HeartbeatInv(t)'
<1>1. Len(Append(requests[t], request)) = 1
  BY DEF IInv, TypeOK
<1>2. stage'[t] = "reporting" /\ requests'[t] = Append(requests[t], request)
  BY DEF IInv, TypeOK, Report
<1> QED BY <1>1, <1>2 DEF ReportInv, HeartbeatInv, Unfinished

\* The executor's steps: what is waited for is what was unfinished.
LEMMA ExecutorKeepsInv ==
    ASSUME IInv, NEW t \in Tasks, ExecutorNext(t)
    PROVE  ReportInv(t)' /\ HeartbeatInv(t)'
<1> USE DEF IInv, TypeOK, ReportInv, HeartbeatInv, Unfinished
<1>1. CASE Refuse(t)
  BY <1>1, FirstReport DEF Refuse
<1>2. CASE Execute(t)
  BY <1>2 DEF Execute
<1>3. CASE Flush(t)
  <2>1. /\ stage[t] = "returned" /\ stage'[t] = "flushing" /\ entering' = entering
        /\ beat' = beat /\ requests' = requests /\ awaited'[t] = tracked[t]
    BY <1>3 DEF Flush
  <2>2. entering[t] = 0 /\ \A b \in Beats : b # 0
    BY <2>1 DEF Beats
  <2>3. \A b \in Beats : Unfinished(t, b) => b \in tracked[t]
    BY <2>1, <2>2
  <2> QED BY <2>1, <2>2, <2>3
<1>4. ASSUME Flushed(t)
      PROVE  /\ stage[t] = "flushing" /\ requests[t] = << >> /\ entering[t] = 0
             /\ \A b \in Beats : ~Unfinished(t, b)
  BY <1>4 DEF Flushed
<1>5. CASE ReportSuccess(t)
  BY <1>4, <1>5, FirstReport DEF ReportSuccess
<1>6. CASE ReportFailure(t)
  BY <1>4, <1>6, FirstReport DEF ReportFailure
<1>7. CASE Unreported(t)
  BY <1>4, <1>7 DEF Unreported
<1>8. CASE ReportEnds(t)
  BY <1>8 DEF ReportEnds
<1> QED BY <1>1, <1>2, <1>3, <1>5, <1>6, <1>7, <1>8 DEF ExecutorNext

\* The function's steps: it returns between two heartbeats.
LEMMA FunctionKeepsInv ==
    ASSUME IInv, NEW t \in Tasks, FunctionNext(t)
    PROVE  ReportInv(t)' /\ HeartbeatInv(t)'
<1> USE DEF IInv, TypeOK, ReportInv, HeartbeatInv, Unfinished
<1>1. ASSUME NEW how \in {"result", "exception", "cancelled"}, Return(t, how)
      PROVE  ReportInv(t)' /\ HeartbeatInv(t)'
  <2>1. /\ stage[t] = "executing" /\ entering[t] = 0 /\ entering' = entering
        /\ beat' = beat /\ tracked' = tracked /\ requests' = requests
        /\ \/ stage'[t] = "returned"
           \/ stage'[t] = "flushing" /\ awaited'[t] = tracked[t]
    BY <1>1 DEF Return
  <2>2. \A b \in Beats : b # entering[t]
    BY <2>1 DEF Beats
  <2>3. \A b \in Beats : Unfinished(t, b) => b \in tracked[t]
    BY <2>1, <2>2
  <2> QED BY <2>1, <2>3
<1>2. ASSUME NEW b \in Beats, NextBeat(t, b),
             stage' = stage, requests' = requests, awaited' = awaited,
             \/ tracked'[t] = tracked[t] \cup {b} /\ entering' = entering
             \/ tracked' = tracked /\ entering'[t] = b
      PROVE  ReportInv(t)' /\ HeartbeatInv(t)'
  <2>1. /\ stage[t] = "executing" /\ entering[t] = 0 /\ b # 0
        /\ \A c \in Beats : c # b => beat'[t][c] = beat[t][c]
    BY <1>2, HeartbeatsAssumption DEF NextBeat, Beats
  <2>2. \A c \in Beats : c # entering[t]
    BY <2>1 DEF Beats
  <2>3. \A c \in Beats : Unfinished(t, c) => c \in tracked[t]
    BY <2>1, <2>2
  <2> QED BY <1>2, <2>1, <2>3
<1>3. ASSUME NEW b \in Beats, AsyncHeartbeat(t, b)
      PROVE  ReportInv(t)' /\ HeartbeatInv(t)'
  BY <1>2, <1>3 DEF AsyncHeartbeat
<1>4. ASSUME NEW b \in Beats, SyncHeartbeat(t, b)
      PROVE  ReportInv(t)' /\ HeartbeatInv(t)'
  BY <1>2, <1>4 DEF SyncHeartbeat
<1>5. CASE EnterHeartbeat(t)
  BY <1>5 DEF EnterHeartbeat
<1> QED BY <1>1, <1>3, <1>4, <1>5 DEF FunctionNext

\* The heartbeats' own steps: only an ended one is forgotten.
LEMMA HeartbeatKeepsInv ==
    ASSUME IInv, NEW t \in Tasks, NEW b \in Beats, HeartbeatNext(t, b)
    PROVE  ReportInv(t)' /\ HeartbeatInv(t)'
<1> USE DEF IInv, TypeOK, ReportInv, HeartbeatInv, Unfinished
<1>1. CASE SendHeartbeat(t, b)
  BY <1>1 DEF SendHeartbeat
<1>2. CASE HeartbeatEnds(t, b)
  BY <1>2 DEF HeartbeatEnds
<1>3. CASE DiscardHeartbeat(t, b)
  BY <1>3 DEF DiscardHeartbeat
<1> QED BY <1>1, <1>2, <1>3 DEF HeartbeatNext

\* The invariant holds of every execution.
THEOREM Invariance == Spec => []IInv
<1>1. Init => IInv
  BY InitHasInv
<1>2. IInv /\ [Next]_vars => IInv'
  <2> SUFFICES ASSUME IInv, [Next]_vars
               PROVE  IInv'
    OBVIOUS
  <2>1. CASE UNCHANGED vars
    BY <2>1 DEF vars, IInv, TypeOK, ReportInv, HeartbeatInv, Unfinished
  <2>2. CASE Next
    <3>1. PICK t \in Tasks : \/ ExecutorNext(t) \/ FunctionNext(t)
                             \/ \E b \in Beats : HeartbeatNext(t, b)
      BY <2>2 DEF Next
    <3>2. TypeOK' /\ ReportInv(t)' /\ HeartbeatInv(t)'
      BY <3>1, TypeStep, ExecutorKeepsInv, FunctionKeepsInv, HeartbeatKeepsInv DEF IInv
    <3>3. \A u \in Tasks : u # t => ReportInv(u)' /\ HeartbeatInv(u)'
      BY <3>1, OthersKeepInv
    <3> QED BY <3>2, <3>3 DEF IInv
  <2> QED BY <2>1, <2>2
<1> QED BY <1>1, <1>2, PTL DEF Spec

\* Every field of an execution keeps its type.
THEOREM TypeCorrect == Spec => []TypeOK
<1>1. IInv => TypeOK
  BY DEF IInv
<1> QED BY <1>1, Invariance, PTL

\* No execution is reported twice, as completed and as failed least of all.
THEOREM ExecutionsReportedOnce == Spec => []ReportedOnce
<1>1. IInv => ReportedOnce
  BY DEF IInv, ReportInv, ReportedOnce
<1> QED BY <1>1, Invariance, PTL

\* The report follows every heartbeat, from whatever thread it was sent.
THEOREM ReportsFollowHeartbeats == Spec => []ReportEndsHeartbeats
<1>1. IInv => ReportEndsHeartbeats
  BY DEF IInv, TypeOK, ReportInv, HeartbeatInv, Unfinished, ReportEndsHeartbeats
<1> QED BY <1>1, Invariance, PTL

-----------------------------------------------------------------------------
(* The event loop                                                          *)

\* The queue continues what was run, in the order of scheduling.
QueueInv ==
    /\ \A i, j \in DOMAIN scheduled : scheduled[i] = scheduled[j] => i = j
    /\ ToSet(ready) \subseteq ToSet(scheduled)
    /\ ToSet(ran) \subseteq ToSet(scheduled)
    /\ \A i, j \in DOMAIN ready : i < j => Before(scheduled, ready[i], ready[j])
    /\ \A i \in DOMAIN ran, j \in DOMAIN ready : Before(scheduled, ran[i], ready[j])
    /\ \A i, j \in DOMAIN ran : i < j => Before(scheduled, ran[i], ran[j])

\* A pass ends with its last handle, and only a loop that runs has one.
PassInv ==
    /\ current # None => todo > 0
    /\ todo > 0 => inPass
    /\ inPass => running # "no"
    /\ PassHasHandles

LoopInv == LoopTypeOK /\ QueueInv /\ NothingLost /\ PassInv

\* The members of a sequence that loses its head.
LEMMA TailProps ==
    ASSUME NEW S, NEW s \in Seq(S), s # << >>
    PROVE  /\ Head(s) = s[1] /\ 1 \in DOMAIN s
           /\ Tail(s) \in Seq(S) /\ Len(Tail(s)) = Len(s) - 1
           /\ \A i \in DOMAIN Tail(s) : i + 1 \in DOMAIN s /\ Tail(s)[i] = s[i + 1]
           /\ ToSet(s) = {Head(s)} \cup ToSet(Tail(s))
<1>1. /\ Head(s) = s[1] /\ 1 \in DOMAIN s /\ Len(s) \in Nat
      /\ Tail(s) \in Seq(S) /\ Len(Tail(s)) = Len(s) - 1
      /\ \A i \in 1..(Len(s) - 1) : Tail(s)[i] = s[i + 1]
  OBVIOUS
<1>2. \A i \in DOMAIN Tail(s) : i + 1 \in DOMAIN s /\ Tail(s)[i] = s[i + 1]
  BY <1>1
<1>3. ToSet(s) \subseteq {Head(s)} \cup ToSet(Tail(s))
  <2> SUFFICES ASSUME NEW i \in DOMAIN s, i # 1
               PROVE  s[i] \in ToSet(Tail(s))
    BY <1>1 DEF ToSet
  <2>1. i - 1 \in DOMAIN Tail(s) /\ Tail(s)[i - 1] = s[i]
    BY <1>1
  <2> QED BY <2>1 DEF ToSet
<1>4. {Head(s)} \cup ToSet(Tail(s)) \subseteq ToSet(s)
  BY <1>1, <1>2 DEF ToSet
<1> QED BY <1>1, <1>2, <1>3, <1>4

\* The members of a sequence that gains a last one.
LEMMA AppendProps ==
    ASSUME NEW S, NEW s \in Seq(S), NEW h \in S
    PROVE  /\ Append(s, h) \in Seq(S) /\ Len(Append(s, h)) = Len(s) + 1
           /\ DOMAIN Append(s, h) = DOMAIN s \cup {Len(s) + 1}
           /\ \A i \in DOMAIN s : Append(s, h)[i] = s[i] /\ i < Len(s) + 1
           /\ Append(s, h)[Len(s) + 1] = h
           /\ ToSet(Append(s, h)) = ToSet(s) \cup {h}
<1>1. /\ Append(s, h) \in Seq(S) /\ Len(Append(s, h)) = Len(s) + 1
      /\ DOMAIN Append(s, h) = DOMAIN s \cup {Len(s) + 1}
      /\ \A i \in DOMAIN s : Append(s, h)[i] = s[i] /\ i < Len(s) + 1
      /\ Append(s, h)[Len(s) + 1] = h
  OBVIOUS
<1> QED BY <1>1 DEF ToSet

\* A new handle comes behind all that were scheduled, whose order stays.
LEMMA ScheduledLast ==
    ASSUME NEW s \in Seq(Handles), NEW h \in Handles
    PROVE  /\ \A g \in ToSet(s) : Before(Append(s, h), g, h)
           /\ \A f, g : Before(s, f, g) => Before(Append(s, h), f, g)
<1>1. /\ DOMAIN Append(s, h) = DOMAIN s \cup {Len(s) + 1}
      /\ \A i \in DOMAIN s : Append(s, h)[i] = s[i] /\ i < Len(s) + 1
      /\ Append(s, h)[Len(s) + 1] = h
  BY AppendProps
<1> QED BY <1>1 DEF Before, ToSet

\* A handle that is scheduled comes last in the queue.
LEMMA EnqueueKeepsQueue ==
    ASSUME LoopInv, NEW h \in Handles, Enqueue(h), ran' = ran,
           cancelled' = cancelled, dropped' = dropped
    PROVE  /\ ready' \in Seq(Handles) /\ scheduled' \in Seq(Handles)
           /\ Len(ready') = Len(ready) + 1
           /\ QueueInv' /\ NothingLost'
<1>1. /\ scheduled \in Seq(Handles) /\ scheduled' = Append(scheduled, h)
      /\ ready \in Seq(Handles) /\ ready' = Append(ready, h)
      /\ ran' = ran /\ h \notin ToSet(scheduled)
  BY DEF LoopInv, LoopTypeOK, Enqueue
<1>2. /\ scheduled' \in Seq(Handles) /\ ready' \in Seq(Handles)
      /\ Len(ready') = Len(ready) + 1
      /\ ToSet(scheduled') = ToSet(scheduled) \cup {h}
      /\ ToSet(ready') = ToSet(ready) \cup {h}
  BY <1>1, AppendProps
<1>3. \A i, j \in DOMAIN scheduled' : scheduled'[i] = scheduled'[j] => i = j
  <2>1. /\ DOMAIN scheduled' = DOMAIN scheduled \cup {Len(scheduled) + 1}
        /\ \A i \in DOMAIN scheduled : scheduled'[i] = scheduled[i]
        /\ scheduled'[Len(scheduled) + 1] = h
    BY <1>1, AppendProps
  <2>2. \A i \in DOMAIN scheduled : scheduled[i] # h
    BY <1>1 DEF ToSet
  <2> QED BY <2>1, <2>2 DEF LoopInv, QueueInv
<1>4. QueueInv'
  <2>1. /\ \A g \in ToSet(scheduled) : Before(scheduled', g, h)
        /\ \A f, g : Before(scheduled, f, g) => Before(scheduled', f, g)
    BY <1>1, ScheduledLast
  <2>2. /\ DOMAIN ready' = DOMAIN ready \cup {Len(ready) + 1}
        /\ \A i \in DOMAIN ready : ready'[i] = ready[i] /\ i < Len(ready) + 1
        /\ ready'[Len(ready) + 1] = h
    BY <1>1, AppendProps
  <2>3. /\ \A i \in DOMAIN ready : ready[i] \in ToSet(scheduled)
        /\ \A i \in DOMAIN ran : ran[i] \in ToSet(scheduled)
    BY DEF LoopInv, QueueInv, ToSet
  <2>4. ASSUME NEW i \in DOMAIN ready', NEW j \in DOMAIN ready', i < j
        PROVE  Before(scheduled', ready'[i], ready'[j])
    <3>1. i \in DOMAIN ready
      BY <1>1, <2>2, <2>4
    <3>2. CASE j \in DOMAIN ready
      BY <2>1, <2>2, <2>4, <3>1, <3>2 DEF LoopInv, QueueInv
    <3>3. CASE j = Len(ready) + 1
      BY <2>1, <2>2, <2>3, <3>1, <3>3
    <3> QED BY <2>2, <3>2, <3>3
  <2>5. \A i \in DOMAIN ran, j \in DOMAIN ready' : Before(scheduled', ran[i], ready'[j])
    BY <2>1, <2>2, <2>3 DEF LoopInv, QueueInv
  <2>6. \A i, j \in DOMAIN ran : i < j => Before(scheduled', ran[i], ran[j])
    BY <2>1 DEF LoopInv, QueueInv
  <2> QED BY <1>1, <1>2, <1>3, <2>4, <2>5, <2>6 DEF LoopInv, QueueInv
<1>5. NothingLost'
  BY <1>1, <1>2 DEF LoopInv, NothingLost
<1> QED BY <1>2, <1>4, <1>5

\* The steps that schedule a handle, or would if the future were watched.
LEMMA SchedulingKeepsInv ==
    ASSUME LoopInv, NEW h \in Handles, NEW f \in {"pending", "done", "interrupted"},
           CallSoon(h) \/ RunUntilComplete(f, h) \/ Complete(h) \/ FutureAborts(h)
    PROVE  LoopInv'
<1> USE DEF CallSoon, RunUntilComplete, Complete, FutureAborts, Aborts, Cleanup, UserCode,
            completion
<1>1. ran' = ran /\ cancelled' = cancelled /\ dropped' = dropped
  OBVIOUS
<1>2. Enqueue(h) \/ UNCHANGED << ready, scheduled >>
  OBVIOUS
<1>3. /\ ready' \in Seq(Handles) /\ scheduled' \in Seq(Handles)
      /\ ready' = ready \/ Len(ready') = Len(ready) + 1
      /\ QueueInv' /\ NothingLost'
  <2>1. CASE Enqueue(h)
    BY <1>1, <2>1, EnqueueKeepsQueue
  <2>2. CASE UNCHANGED << ready, scheduled >>
    BY <1>1, <2>2 DEF LoopInv, LoopTypeOK, QueueInv, NothingLost
  <2> QED BY <1>2, <2>1, <2>2
<1>4. LoopTypeOK'
  <2>1. CASE CallSoon(h)
    BY <1>1, <1>3, <2>1 DEF LoopInv, LoopTypeOK
  <2>2. CASE RunUntilComplete(f, h)
    BY <1>1, <1>3, <2>2 DEF LoopInv, LoopTypeOK
  <2>3. CASE Complete(h)
    BY <1>1, <1>3, <2>3 DEF LoopInv, LoopTypeOK
  <2>4. CASE FutureAborts(h)
    BY <1>1, <1>3, <2>4 DEF LoopInv, LoopTypeOK
  <2> QED BY <2>1, <2>2, <2>3, <2>4
<1>5. PassInv'
  <2>1. ready' = ready \/ Len(ready') = Len(ready) + 1
    BY <1>3
  <2>2. CASE CallSoon(h)
    BY <2>1, <2>2 DEF LoopInv, LoopTypeOK, PassInv, PassHasHandles
  <2>3. CASE RunUntilComplete(f, h)
    BY <2>1, <2>3 DEF LoopInv, LoopTypeOK, PassInv, PassHasHandles
  <2>4. CASE Complete(h)
    BY <2>1, <2>4 DEF LoopInv, LoopTypeOK, PassInv, PassHasHandles
  <2>5. CASE FutureAborts(h)
    <3>1. Len(ready') \in Nat /\ todo' = 0 /\ current' = None /\ running' = "no" /\ inPass' = FALSE
      BY <1>3, <2>5
    <3> QED BY <3>1 DEF PassInv, PassHasHandles
  <2> QED BY <2>2, <2>3, <2>4, <2>5
<1> QED BY <1>3, <1>4, <1>5 DEF LoopInv

\* Closing an idle loop.
LEMMA CloseKeepsInv ==
    ASSUME LoopInv, Close
    PROVE  LoopInv'
<1>1. LoopTypeOK'
  BY DEF LoopInv, LoopTypeOK, Close, ToSet, completion
<1>2. QueueInv'
  BY DEF LoopInv, QueueInv, Close, ToSet
<1>3. NothingLost'
  BY DEF LoopInv, NothingLost, Close
<1>4. PassInv'
  BY DEF LoopInv, LoopTypeOK, PassInv, PassHasHandles, Close
<1> QED BY <1>1, <1>2, <1>3, <1>4 DEF LoopInv

\* Taking the first handle out of the queue, to run it or to pass over it.
LEMMA PopKeepsQueue ==
    ASSUME LoopInv, todo > 0, current = None,
           ready' = Tail(ready), scheduled' = scheduled,
           ran' = ran \/ ran' = Append(ran, Head(ready))
    PROVE  /\ ready # << >> /\ Head(ready) \in Handles
           /\ ready' \in Seq(Handles) /\ ran' \in Seq(Handles)
           /\ Len(ready') = Len(ready) - 1
           /\ ToSet(ready) = {Head(ready)} \cup ToSet(ready')
           /\ ToSet(ran') = ToSet(ran) \cup (IF ran' = ran THEN {} ELSE {Head(ready)})
           /\ QueueInv'
<1>1. /\ ready \in Seq(Handles) /\ ran \in Seq(Handles) /\ todo \in Nat
      /\ todo <= Len(ready)
  BY DEF LoopInv, LoopTypeOK, PassInv, PassHasHandles
<1>2. ready # << >>
  BY <1>1
<1>3. /\ Head(ready) = ready[1] /\ 1 \in DOMAIN ready /\ Head(ready) \in Handles
      /\ ready' \in Seq(Handles) /\ Len(ready') = Len(ready) - 1
      /\ \A i \in DOMAIN ready' : i + 1 \in DOMAIN ready /\ ready'[i] = ready[i + 1]
      /\ ToSet(ready) = {Head(ready)} \cup ToSet(ready')
  BY <1>1, <1>2, TailProps
<1>4. \A i, j \in DOMAIN ready' : i \in Nat /\ 1 < i + 1 /\ (i < j => i + 1 < j + 1)
  BY <1>3
<1>5. CASE ran' = ran
  BY <1>1, <1>2, <1>3, <1>4, <1>5 DEF LoopInv, QueueInv
<1>6. CASE ran' = Append(ran, Head(ready))
  <2>1. /\ ran' \in Seq(Handles) /\ Len(ran') = Len(ran) + 1
        /\ DOMAIN ran' = DOMAIN ran \cup {Len(ran) + 1}
        /\ \A i \in DOMAIN ran : ran'[i] = ran[i] /\ i < Len(ran) + 1
        /\ ran'[Len(ran) + 1] = Head(ready)
        /\ ToSet(ran') = ToSet(ran) \cup {Head(ready)}
    BY <1>1, <1>3, <1>6, AppendProps
  <2>2. ran' # ran
    BY <1>1, <2>1
  <2>3. \A i \in DOMAIN ran', j \in DOMAIN ready' : Before(scheduled, ran'[i], ready'[j])
    BY <1>3, <1>4, <2>1 DEF LoopInv, QueueInv
  <2>4. \A i, j \in DOMAIN ran' : i < j => Before(scheduled, ran'[i], ran'[j])
    <3> SUFFICES ASSUME NEW i \in DOMAIN ran', NEW j \in DOMAIN ran', i < j
                 PROVE  Before(scheduled, ran'[i], ran'[j])
      OBVIOUS
    <3>1. i \in DOMAIN ran
      BY <1>1, <2>1
    <3> QED BY <1>3, <2>1, <3>1 DEF LoopInv, QueueInv
  <2>5. \A i, j \in DOMAIN ready' : i < j => Before(scheduled, ready'[i], ready'[j])
    BY <1>3, <1>4 DEF LoopInv, QueueInv
  <2> QED BY <1>2, <1>3, <2>1, <2>2, <2>3, <2>4, <2>5 DEF LoopInv, QueueInv
<1> QED BY <1>5, <1>6

\* Passing over a cancelled handle.
LEMMA SkipKeepsInv ==
    ASSUME LoopInv, SkipHandle
    PROVE  LoopInv'
<1>1. /\ ready' \in Seq(Handles) /\ Len(ready') = Len(ready) - 1
      /\ ToSet(ready) = {Head(ready)} \cup ToSet(ready') /\ QueueInv'
  BY PopKeepsQueue DEF SkipHandle
<1>2. LoopTypeOK'
  BY <1>1 DEF LoopInv, LoopTypeOK, SkipHandle, completion
<1>3. NothingLost'
  BY <1>1 DEF LoopInv, NothingLost, SkipHandle
<1>4. PassInv'
  BY <1>1 DEF LoopInv, LoopTypeOK, PassInv, PassHasHandles, SkipHandle
<1> QED BY <1>1, <1>2, <1>3, <1>4 DEF LoopInv

\* Running a handle.
LEMMA RunHandleKeepsInv ==
    ASSUME LoopInv, RunHandle
    PROVE  LoopInv'
<1>1. /\ ready' \in Seq(Handles) /\ Len(ready') = Len(ready) - 1
      /\ ran' \in Seq(Handles) /\ Head(ready) \in Handles
      /\ ToSet(ready) = {Head(ready)} \cup ToSet(ready') /\ QueueInv'
      /\ ToSet(ran') = ToSet(ran) \cup {Head(ready)}
  <2>1. ran' # ran
    <3>1. ran \in Seq(Handles) /\ ran' = Append(ran, Head(ready))
      BY DEF LoopInv, LoopTypeOK, RunHandle, completion
    <3>2. Head(ready) \in Handles
      BY PopKeepsQueue DEF RunHandle
    <3> QED BY <3>1, <3>2, AppendProps
  <2> QED BY <2>1, PopKeepsQueue DEF RunHandle
<1>2. LoopTypeOK'
  BY <1>1 DEF LoopInv, LoopTypeOK, RunHandle, completion
<1>3. NothingLost'
  BY <1>1 DEF LoopInv, NothingLost, RunHandle
<1>4. PassInv'
  BY <1>1, NoneAssumption DEF LoopInv, LoopTypeOK, PassInv, PassHasHandles, RunHandle
<1> QED BY <1>1, <1>2, <1>3, <1>4 DEF LoopInv

\* The other steps leave the queue and the histories alone.
LEMMA OthersKeepLoopInv ==
    ASSUME LoopInv,
           \/ \E h \in Handles : CancelHandle(h)
           \/ Stop
           \/ \E how \in {"yield", "forever"} : Run(how)
           \/ BeginPass \/ HandleEnds \/ HandleAborts \/ EndPass \/ Stopped \/ Yield
           \/ UNCHANGED loopVars
    PROVE  LoopInv'
<1> USE DEF CancelHandle, Stop, Run, BeginPass, HandleEnds, HandleAborts, EndPass,
            Stopped, Yield, Aborts, Cleanup, PassIsOver, UserCode, completion, loopVars
<1>1. /\ ready' = ready /\ scheduled' = scheduled /\ ran' = ran /\ dropped' = dropped
      /\ cancelled \subseteq cancelled'
  OBVIOUS
<1>2. LoopTypeOK'
  <2>1. CASE \E h \in Handles : CancelHandle(h)
    BY <2>1 DEF LoopInv, LoopTypeOK
  <2>2. CASE Stop
    BY <2>2 DEF LoopInv, LoopTypeOK
  <2>3. CASE \E how \in {"yield", "forever"} : Run(how)
    BY <2>3 DEF LoopInv, LoopTypeOK
  <2>4. CASE BeginPass
    BY <2>4 DEF LoopInv, LoopTypeOK
  <2>5. CASE HandleEnds
    BY <2>5 DEF LoopInv, LoopTypeOK, PassInv
  <2>6. CASE HandleAborts
    BY <2>6 DEF LoopInv, LoopTypeOK
  <2>7. CASE EndPass
    BY <2>7 DEF LoopInv, LoopTypeOK
  <2>8. CASE Stopped \/ Yield
    BY <2>8 DEF LoopInv, LoopTypeOK
  <2>9. CASE UNCHANGED loopVars
    BY <2>9 DEF LoopInv, LoopTypeOK
  <2> QED BY <2>1, <2>2, <2>3, <2>4, <2>5, <2>6, <2>7, <2>8, <2>9
<1>3. QueueInv'
  BY <1>1 DEF LoopInv, QueueInv
<1>4. NothingLost'
  BY <1>1 DEF LoopInv, NothingLost
<1>5. PassInv'
  BY DEF LoopInv, LoopTypeOK, PassInv, PassHasHandles
<1> QED BY <1>2, <1>3, <1>4, <1>5 DEF LoopInv

\* A loop that was just made.
LEMMA NewLoopHasInv == LoopInit => LoopInv
<1> SUFFICES ASSUME LoopInit
             PROVE  LoopInv
  OBVIOUS
<1>1. LoopTypeOK
  <2>1. << >> \in Seq(Handles) /\ 0 \in Nat
    OBVIOUS
  <2> QED BY <2>1 DEF LoopInit, LoopTypeOK
<1>2. QueueInv
  BY DEF LoopInit, QueueInv, ToSet
<1>3. NothingLost
  BY DEF LoopInit, NothingLost, ToSet
<1>4. PassInv
  BY DEF LoopInit, PassInv, PassHasHandles
<1> QED BY <1>1, <1>2, <1>3, <1>4 DEF LoopInv

\* The invariant holds of every loop.
THEOREM LoopInvariance == LoopSpec => []LoopInv
<1>1. LoopInit => LoopInv
  BY NewLoopHasInv
<1>2. LoopInv /\ [LoopNext]_loopVars => LoopInv'
  <2> SUFFICES ASSUME LoopInv, [LoopNext]_loopVars
               PROVE  LoopInv'
    OBVIOUS
  <2>1. CASE \E h \in Handles : CallSoon(h) \/ Complete(h) \/ FutureAborts(h)
    BY <2>1, SchedulingKeepsInv
  <2>2. CASE \E f \in {"pending", "done", "interrupted"}, h \in Handles : RunUntilComplete(f, h)
    BY <2>2, SchedulingKeepsInv
  <2>3. CASE Close \/ SkipHandle \/ RunHandle
    BY <2>3, CloseKeepsInv, SkipKeepsInv, RunHandleKeepsInv
  <2>4. CASE \/ \E h \in Handles : CancelHandle(h)
             \/ Stop
             \/ \E how \in {"yield", "forever"} : Run(how)
             \/ BeginPass \/ HandleEnds \/ HandleAborts \/ EndPass \/ Stopped \/ Yield
             \/ UNCHANGED loopVars
    BY <2>4, OthersKeepLoopInv
  <2> QED BY <2>1, <2>2, <2>3, <2>4 DEF LoopNext
<1> QED BY <1>1, <1>2, PTL DEF LoopSpec

\* The queue and the flags of the loop stay what they are declared to be.
THEOREM LoopTypeCorrect == LoopSpec => []LoopTypeOK
<1>1. LoopInv => LoopTypeOK
  BY DEF LoopInv
<1> QED BY <1>1, LoopInvariance, PTL

\* Handles are run in the order of their scheduling.
THEOREM HandlesRunInOrder == LoopSpec => []RunInOrder
<1>1. LoopInv => RunInOrder
  <2> SUFFICES ASSUME LoopInv
               PROVE  RunInOrder
    OBVIOUS
  <2>1. \A f, g : Before(scheduled, f, g) => ~Before(scheduled, g, f)
    <3> SUFFICES ASSUME NEW f, NEW g, Before(scheduled, f, g), Before(scheduled, g, f)
                 PROVE  FALSE
      OBVIOUS
    <3>1. PICK i, j \in DOMAIN scheduled : i < j /\ scheduled[i] = f /\ scheduled[j] = g
      BY DEF Before
    <3>2. PICK k, l \in DOMAIN scheduled : k < l /\ scheduled[k] = g /\ scheduled[l] = f
      BY DEF Before
    <3>3. i = l /\ j = k
      BY <3>1, <3>2 DEF LoopInv, QueueInv
    <3>4. i \in Nat /\ j \in Nat
      BY DEF LoopInv, LoopTypeOK
    <3> QED BY <3>1, <3>2, <3>3, <3>4
  <2>2. ASSUME NEW h \in ToSet(ran), NEW g \in ToSet(scheduled), Before(scheduled, g, h)
        PROVE  g \in ToSet(ran) \cup cancelled \cup dropped
    <3>1. g \notin ToSet(ready)
      BY <2>1, <2>2 DEF LoopInv, QueueInv, ToSet
    <3> QED BY <3>1 DEF LoopInv, NothingLost
  <2> QED BY <2>2 DEF LoopInv, QueueInv, RunInOrder
<1> QED BY <1>1, LoopInvariance, PTL

\* Aborted runs, cancellations and nested calls lose no handle.
THEOREM NoHandleIsLost == LoopSpec => []NothingLost
<1>1. LoopInv => NothingLost
  BY DEF LoopInv
<1> QED BY <1>1, LoopInvariance, PTL

\* popleft never finds the queue empty.
THEOREM PassesHaveHandles == LoopSpec => []PassHasHandles
<1>1. LoopInv => PassHasHandles
  BY DEF LoopInv, PassInv
<1> QED BY <1>1, LoopInvariance, PTL

=============================================================================
