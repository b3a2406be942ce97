------------------------ MODULE WorkflowRebuild_proofs ------------------------
(***************************************************************************)
(* That a replay of a deterministic workflow finds exactly the manager the *)
(* code found when it ran first: what history makes of the manager, that   *)
(* the engine is where history is, and that the order of the machines is   *)
(* that of the last words.                                                 *)
(*                                                                         *)
(* And that the engine can take what history holds: the iterator finds its *)
(* batches, the tracker takes their events, and every event finds its      *)
(* machine and an open future.                                             *)
(***************************************************************************)
EXTENDS WorkflowHistory_proofs

-----------------------------------------------------------------------------
(* What history makes of the manager                                       *)

\* An event that records a call about an activity or a timer.
Said(e) == e.type \in StartTypes \cup CancelTypes

\* The last such event about an id, among the first n.
LastWord(h, n, i) ==
    /\ i \in 1..n /\ Said(h[i])
    /\ \A j \in (i + 1)..n : Said(h[j]) => h[j].id # h[i].id

\* The activities and timers that were started.
Begun(h, n) == {h[i].id : i \in {j \in 1..n : h[j].type \in StartTypes}}

\* One of them is over.
OverAt(h, n, id) == \E i \in 1..n : h[i].type \in EndTypes /\ SubjectIn(h, i) = id

\* Its cancellation is recorded.
AskedAt(h, n, id) ==
    \E i \in 1..n : h[i].type = "ActivityTaskCancelRequested" /\ h[i].id = id

\* Machines are in the order of the last words on them.
InWordOrder(o, h, n) ==
    \A a, b \in DOMAIN o, i, j \in 1..n :
        /\ a < b
        /\ LastWord(h, n, i) /\ h[i].id = o[a]
        /\ LastWord(h, n, j) /\ h[j].id = o[b]
        => i < j

\* What a request and its properties have in common.
RequestOf(id, m) ==
    IF id.type = "ACTIVITY" THEN m.props = ActivityProps(m.request)
    ELSE m.request = "timer"

\* A machine is what the first n events make it.
MachineAt(h, n, id, m) ==
    /\ MachineOK(m)
    /\ m.state = IF OverAt(h, n, id) THEN "COMPLETED"
                 ELSE IF AskedAt(h, n, id) THEN "CANCELLATION_RECORDED" ELSE "RECORDED"
    /\ \A i \in 1..n : h[i].type \in Resolvers /\ SubjectIn(h, i) = id =>
           m.future = type_to_action[h[i].type].future
    /\ (\A i \in 1..n : h[i].type \in Resolvers => SubjectIn(h, i) # id) =>
           m.future = IF OverAt(h, n, id) THEN "cancelled" ELSE "pending"
    /\ \A i \in 1..n : h[i].type \in StartTypes /\ h[i].id = id => m.props = h[i].props
    /\ RequestOf(id, m)

\* The counter is behind the ids that were used, and those are all before it.
CountAt(c, h, n) ==
    /\ c \in Nat
    /\ \A k \in 0..(c - 1) : \E id \in Begun(h, n) : id.id = k
    /\ \A id \in Begun(h, n) : id.id < c

\* The order is of what was started, each once, by the last words.
OrderAt(o, h, n) ==
    /\ IsSeq(o)
    /\ \A a, b \in DOMAIN o : o[a] = o[b] => a = b
    /\ {o[a] : a \in DOMAIN o} = Begun(h, n)
    /\ InWordOrder(o, h, n)

\* There is a machine of each of them.
MachinesAt(m, h, n) ==
    /\ m = [id \in Begun(h, n) |-> m[id]]
    /\ \A id \in Begun(h, n) : MachineAt(h, n, id, m[id])

\* What the workflow finds when its code runs behind the first n events.
ViewAt(v, h, n) ==
    /\ v = << v[1], v[2], v[3], "running" >>
    /\ CountAt(v[1], h, n)
    /\ OrderAt(v[2], h, n)
    /\ MachinesAt(v[3], h, n)

\* Of what was said of an id there is a last word.
LEMMA LastWordExists ==
    ASSUME NEW h, NEW n \in Nat, NEW k \in 1..n, Said(h[k])
    PROVE  \E i \in 1..n : LastWord(h, n, i) /\ h[i].id = h[k].id
<1> DEFINE W == {m \in Nat : \E i \in 1..n : Said(h[i]) /\ h[i].id = h[k].id /\ m = n - i}
<1>1. W \subseteq Nat /\ n - k \in W
  OBVIOUS
<1>2. PICK m \in W : \A l \in W : m <= l
  BY <1>1, Least
<1>3. PICK i \in 1..n : Said(h[i]) /\ h[i].id = h[k].id /\ m = n - i
  BY <1>2
<1>4. ASSUME NEW j \in (i + 1)..n, Said(h[j]), h[j].id = h[i].id
      PROVE  FALSE
  <2>1. n - j \in W /\ n - j < m
    BY <1>3, <1>4
  <2> QED BY <2>1, <1>2
<1> QED BY <1>3, <1>4 DEF LastWord

\* There is only one.
LEMMA LastWordIsOne ==
    ASSUME NEW h, NEW n \in Nat, NEW i, NEW j, LastWord(h, n, i), LastWord(h, n, j), h[i].id = h[j].id
    PROVE  i = j
<1>1. i \in 1..n /\ j \in 1..n
  BY DEF LastWord
<1>2. i < j => FALSE
  <2>1. i < j => j \in (i + 1)..n
    BY <1>1
  <2> QED BY <2>1 DEF LastWord
<1>3. j < i => FALSE
  <2>1. j < i => i \in (j + 1)..n
    BY <1>1
  <2> QED BY <2>1 DEF LastWord
<1> QED BY <1>1, <1>2, <1>3

\* The order of the machines is that of the last words.
LEMMA OrderIsOfWords ==
    ASSUME NEW h, NEW n \in Nat, NEW o, OrderAt(o, h, n)
    PROVE  LET W == {i \in 1..n : LastWord(h, n, i) /\ h[i].id \in Begun(h, n)}
           IN  o = [k \in DOMAIN Ascending(W) |-> h[Ascending(W)[k]].id]
<1> DEFINE W == {i \in 1..n : LastWord(h, n, i) /\ h[i].id \in Begun(h, n)}
           f == [a \in 1..Len(o) |-> CHOOSE i \in W : h[i].id = o[a]]
<1>1. /\ IsSeq(o) /\ Len(o) \in Nat /\ DOMAIN o = 1..Len(o)
      /\ o = [k \in 1..Len(o) |-> o[k]]
  BY DEF OrderAt, IsSeq
<1>2. W \subseteq Nat /\ IsFiniteSet(W)
  BY FS_Interval, FS_Subset
<1>3. ASSUME NEW a \in 1..Len(o)
      PROVE  \E i \in W : h[i].id = o[a]
  <2>1. o[a] \in Begun(h, n)
    BY <1>1 DEF OrderAt
  <2>2. PICK k \in 1..n : h[k].type \in StartTypes /\ h[k].id = o[a]
    BY <2>1 DEF Begun
  <2>3. PICK i \in 1..n : LastWord(h, n, i) /\ h[i].id = h[k].id
    BY <2>2, LastWordExists DEF Said
  <2> QED BY <2>1, <2>2, <2>3
<1>4. \A a \in 1..Len(o) : f[a] \in W /\ h[f[a]].id = o[a]
  BY <1>3
<1>5. f \in [1..Len(o) -> W]
  BY <1>4
<1>6. ASSUME NEW a \in 1..Len(o), NEW b \in 1..Len(o), a < b
      PROVE  f[a] < f[b]
  <2>1. /\ f[a] \in 1..n /\ LastWord(h, n, f[a]) /\ h[f[a]].id = o[a]
        /\ f[b] \in 1..n /\ LastWord(h, n, f[b]) /\ h[f[b]].id = o[b]
    BY <1>4
  <2> HIDE DEF f, W
  <2> QED BY <2>1, <1>1, <1>6 DEF OrderAt, InWordOrder
<1>7. ASSUME NEW i \in W
      PROVE  \E a \in 1..Len(o) : f[a] = i
  <2>1. PICK a \in 1..Len(o) : o[a] = h[i].id
    BY <1>1 DEF OrderAt
  <2>2. f[a] \in W /\ h[f[a]].id = h[i].id
    BY <1>4, <2>1
  <2>3. f[a] = i
    BY <2>2, LastWordIsOne
  <2> QED BY <2>3
<1>8. DOMAIN Ascending(W) = 1..Len(o) /\ \A k \in 1..Len(o) : Ascending(W)[k] = f[k]
  <2> HIDE DEF f, W
  <2> QED BY <1>1, <1>2, <1>5, <1>6, <1>7, AscendingIsUnique
<1> HIDE DEF f, W
<1>9. [k \in DOMAIN Ascending(W) |-> h[Ascending(W)[k]].id] = [k \in 1..Len(o) |-> o[k]]
  BY <1>4, <1>8
<1> QED BY <1>1, <1>9 DEF W

\* A machine is of one request.
LEMMA RequestIsOne ==
    ASSUME NEW id, NEW m, NEW l, RequestOf(id, m), RequestOf(id, l), m.props = l.props
    PROVE  m.request = l.request
<1>1. ASSUME NEW s, NEW t, ActivityProps(s) = ActivityProps(t)
      PROVE  s = t
  <2>1. ActivityProps(s).activity_type = ActivityProps(t).activity_type
    BY <1>1
  <2> QED BY <2>1 DEF ActivityProps
<1> QED BY <1>1 DEF RequestOf

\* History makes one machine of each, in every respect.
LEMMA MachineIsOne ==
    ASSUME NEW h, NEW n \in Nat, NEW id \in Begun(h, n), NEW m, NEW l,
           MachineAt(h, n, id, m), MachineAt(h, n, id, l)
    PROVE  m = l
<1>1. m.state = l.state
  BY DEF MachineAt
<1>2. m.future = l.future
  <2>1. CASE \E i \in 1..n : h[i].type \in Resolvers /\ SubjectIn(h, i) = id
    BY <2>1 DEF MachineAt
  <2>2. CASE \A i \in 1..n : h[i].type \in Resolvers => SubjectIn(h, i) # id
    BY <2>2 DEF MachineAt
  <2> QED BY <2>1, <2>2
<1>3. m.props = l.props
  BY DEF MachineAt, Begun
<1>4. m.request = l.request
  BY <1>3, RequestIsOne DEF MachineAt
<1>5. /\ m = [state |-> m.state, future |-> m.future, props |-> m.props, request |-> m.request]
      /\ l = [state |-> l.state, future |-> l.future, props |-> l.props, request |-> l.request]
  BY DEF MachineAt, MachineOK
<1> QED BY <1>1, <1>2, <1>3, <1>4, <1>5

\* What the workflow finds behind the first events is one thing.
LEMMA ViewIsOne ==
    ASSUME NEW h, NEW n \in Nat, NEW v, NEW w, ViewAt(v, h, n), ViewAt(w, h, n)
    PROVE  v = w
<1>1. v[1] = w[1]
  <2> DEFINE c == v[1]
             d == w[1]
  <2>0. CountAt(c, h, n) /\ CountAt(d, h, n)
    BY DEF ViewAt
  <2> HIDE DEF c, d
  <2>1. c \in Nat /\ d \in Nat
    BY <2>0 DEF CountAt
  <2>2. c < d => FALSE
    <3>1. c < d => c \in 0..(d - 1)
      BY <2>1
    <3>2. c < d => \E id \in Begun(h, n) : id.id = c /\ id.id < c
      BY <2>0, <3>1 DEF CountAt
    <3> QED BY <3>2, <2>1
  <2>3. d < c => FALSE
    <3>1. d < c => d \in 0..(c - 1)
      BY <2>1
    <3>2. d < c => \E id \in Begun(h, n) : id.id = d /\ id.id < d
      BY <2>0, <3>1 DEF CountAt
    <3> QED BY <3>2, <2>1
  <2>4. c = d
    BY <2>1, <2>2, <2>3
  <2> QED BY <2>4 DEF c, d
<1>2. v[2] = w[2]
  <2> DEFINE o == v[2]
             p == w[2]
  <2>1. OrderAt(o, h, n) /\ OrderAt(p, h, n)
    BY DEF ViewAt
  <2> HIDE DEF o, p
  <2>2. o = p
    BY <2>1, OrderIsOfWords
  <2> QED BY <2>2 DEF o, p
<1>3. v[3] = w[3]
  <2> DEFINE m == v[3]
             l == w[3]
  <2>1. MachinesAt(m, h, n) /\ MachinesAt(l, h, n)
    BY DEF ViewAt
  <2> HIDE DEF m, l
  <2>2. \A id \in Begun(h, n) : m[id] = l[id]
    BY <2>1, MachineIsOne DEF MachinesAt
  <2>3. m = [id \in Begun(h, n) |-> m[id]] /\ l = [id \in Begun(h, n) |-> l[id]]
    BY <2>1 DEF MachinesAt
  <2>4. m = l
    BY <2>2, <2>3
  <2> QED BY <2>4 DEF m, l
<1>4. v = << v[1], v[2], v[3], "running" >> /\ w = << w[1], w[2], w[3], "running" >>
  BY DEF ViewAt
<1> QED BY <1>1, <1>2, <1>3, <1>4

\* It rests on the first events only.
LEMMA ViewStays ==
    ASSUME NEW h, NEW g, NEW n \in Nat, \A i \in 1..n : g[i] = h[i],
           \A i \in 1..n : Follows(h, i - 1, h[i]), NEW v, ViewAt(v, h, n)
    PROVE  ViewAt(v, g, n)
<1>1. \A i \in 1..n : SubjectIn(g, i) = SubjectIn(h, i)
  BY FollowsAgrees
<1>2. Begun(g, n) = Begun(h, n)
  BY DEF Begun
<1>3. \A id : (OverAt(g, n, id) <=> OverAt(h, n, id)) /\ (AskedAt(g, n, id) <=> AskedAt(h, n, id))
  BY <1>1 DEF OverAt, AskedAt
<1>4. \A i : LastWord(g, n, i) <=> LastWord(h, n, i)
  <2>1. \A i \in 1..n : (i + 1)..n \subseteq 1..n
    OBVIOUS
  <2> QED BY <2>1 DEF LastWord
<1>5. ASSUME NEW o
      PROVE  InWordOrder(o, g, n) <=> InWordOrder(o, h, n)
  BY <1>4 DEF InWordOrder
<1>6. ASSUME NEW id, NEW m
      PROVE  MachineAt(g, n, id, m) <=> MachineAt(h, n, id, m)
  BY <1>1, <1>3 DEF MachineAt
<1>7. CountAt(v[1], g, n) /\ OrderAt(v[2], g, n) /\ MachinesAt(v[3], g, n)
  BY <1>2, <1>5, <1>6 DEF ViewAt, CountAt, OrderAt, MachinesAt
<1> QED BY <1>7 DEF ViewAt

-----------------------------------------------------------------------------
(* The engine follows history                                              *)

\* No machine is ahead of the events in A.
StatesFollow(A) ==
    \A id \in DOMAIN state_machines \ {COMPLETION_ID} :
        /\ StateOf(id) = "COMPLETED" =>
               \E i \in A : history[i].type \in EndTypes /\ Subject(i) = id
        /\ StateOf(id) = "CANCELLATION_RECORDED" =>
               \E i \in A : history[i].type = "ActivityTaskCancelRequested" /\ history[i].id = id

\* Each has the properties that its start was recorded with.
PropsFollow(A) ==
    \A i \in A : history[i].type \in StartTypes =>
        state_machines[history[i].id].props = history[i].props

\* What a replayed batch has still to be told it has asked for.
ToldInv ==
    phase = "output" =>
        \A p \in Elems(todo) : history[p].type \in StartTypes =>
            /\ history[p].id \in DOMAIN state_machines
            /\ state_machines[history[p].id].props = history[p].props

\* No machine is told of an event: those there are keep their properties, and none is
\* taken to where only an event takes it.
CalledOnly ==
    /\ \A id \in DOMAIN state_machines :
           id \in DOMAIN state_machines' /\ state_machines'[id].props = state_machines[id].props
    /\ \A id \in DOMAIN state_machines' \ {COMPLETION_ID} :
           StateOf(id)' \in {"COMPLETED", "CANCELLATION_RECORDED"} =>
               id \in DOMAIN state_machines /\ StateOf(id)' = StateOf(id)

\* Requests and properties say the same.
RequestsInv ==
    /\ state_machines = [id \in DOMAIN state_machines |-> state_machines[id]]
    /\ \A id \in DOMAIN state_machines \ {COMPLETION_ID} : RequestOf(id, state_machines[id])

\* The machines follow the events that were handled.
FollowedInv == phase \in EnginePhases => StatesFollow(Applied) /\ PropsFollow(Applied)

\* And what they are of follows too.
FollowInv == FollowedInv /\ ToldInv /\ RequestsInv

\* The batch that is replayed is behind the mark of its answer, and is not the last.
ReplayedInv ==
    /\ InBatch /\ batch.replay =>
           /\ First \in 3..pos
           /\ history[First - 1].type = "DecisionTaskCompleted"
    /\ phase \in EnginePhases /\ batch.replay => pos <= Len(history)

\* The first event starts the workflow.
FirstInv ==
    /\ Len(history) # 0 /\ history[1].type = "WorkflowExecutionStarted"
    /\ phase = "next" /\ task = "none" => pos = 1
    /\ phase = "input" /\ task = "none" => 1 \in Elems(todo)
    /\ phase \in {"run", "complete", "end", "output"} => task # "none"

\* A new machine is of its request, and leaves the others.
LEMMA AddKeepsRequests ==
    ASSUME RequestsInv, NEW id, NEW m, id = COMPLETION_ID \/ RequestOf(id, m), Add(id, m)
    PROVE  RequestsInv'
<1>1. CASE UNCHANGED state_machines
    BY <1>1 DEF RequestsInv
<1>2. CASE state_machines' = [i \in DOMAIN state_machines \cup {id} |-> IF i = id THEN m ELSE state_machines[i]]
    BY <1>2 DEF RequestsInv
<1> QED BY <1>1, <1>2 DEF Add

\* A machine that moves is of the request it was of.
LEMMA MovesKeepRequests ==
    ASSUME MachinesInv, RequestsInv,
           \/ \E id : request_cancel(id)
           \/ \E event, event_id : handle_history_event(event, event_id)
    PROVE  RequestsInv'
<1>1. ASSUME NEW id \in DOMAIN state_machines, NEW m,
             m.props = state_machines[id].props, m.request = state_machines[id].request,
             state_machines' = [state_machines EXCEPT ![id] = m]
      PROVE  RequestsInv'
    BY <1>1 DEF RequestsInv, RequestOf
<1>2. ASSUME NEW id, request_cancel(id) PROVE RequestsInv'
  <2>1. CASE Cancellable(state_machines[id])
    <3>1. PICK m : m = CancelRequested(id.type, state_machines[id])
      OBVIOUS
    <3>2. id \in DOMAIN state_machines /\ state_machines' = [state_machines EXCEPT ![id] = m]
      BY <1>2, <2>1, <3>1 DEF request_cancel
    <3>3. MachineOK(state_machines[id])
      BY <3>2 DEF MachinesInv
    <3>4. m.props = state_machines[id].props /\ m.request = state_machines[id].request
      BY <3>1, <3>3 DEF CancelRequested, MachineOK
    <3> QED BY <1>1, <3>2, <3>4
  <2>2. CASE ~Cancellable(state_machines[id])
    BY <1>2, <2>2 DEF request_cancel, RequestsInv
  <2> QED BY <2>1, <2>2
<1>3. ASSUME NEW event, NEW event_id, handle_history_event(event, event_id) PROVE RequestsInv'
  <2>1. CASE UNCHANGED state_machines
    BY <2>1 DEF RequestsInv
  <2>2. CASE ~UNCHANGED state_machines
    <3>1. PICK h : h = type_to_action[event.type]
      OBVIOUS
    <3>2. PICK a : a = << h.type, h.attr, event[h.attr] >>
      OBVIOUS
    <3>3. PICK id : id = aliases[a]
      OBVIOUS
    <3>4. a \in DOMAIN aliases /\ state_machines' = [state_machines EXCEPT ![id] = Handled(h, @)]
      BY <1>3, <2>2, <3>1, <3>2, <3>3 DEF handle_history_event
    <3>5. id \in DOMAIN state_machines
      BY <3>3, <3>4 DEF MachinesInv, AliasesResolve
    <3>6. MachineOK(state_machines[id])
      BY <3>5 DEF MachinesInv
    <3>7. PICK m : m = Handled(h, state_machines[id])
      OBVIOUS
    <3>8. m.props = state_machines[id].props /\ m.request = state_machines[id].request
      BY <3>6, <3>7 DEF Handled, MachineOK
    <3> QED BY <1>1, <3>4, <3>5, <3>7, <3>8
  <2> QED BY <2>1, <2>2
<1> QED BY <1>2, <1>3

\* What the worker does keeps the requests.
LEMMA WorkerKeepsRequests ==
    ASSUME IInv, RequestsInv, EngineNext \/ WorkflowNext
    PROVE  RequestsInv'
<1>1. MachinesInv
  BY DEF IInv, ManagerInv
<1>2. CASE UNCHANGED state_machines
  BY <1>2 DEF RequestsInv
<1>3. ASSUME NEW outcome, complete_workflow(outcome) PROVE RequestsInv'
  <2>1. UNCHANGED state_machines \/ Add(COMPLETION_ID, CompletionMachine(outcome))
    BY <1>3 DEF complete_workflow
  <2> QED BY <1>2, <2>1, AddKeepsRequests
<1>4. ASSUME NEW type, NEW props, NEW request, Request(type, props, request),
             RequestOf(DecisionId(type, id_counter), Machine(props, request))
      PROVE  RequestsInv'
  <2>1. UNCHANGED state_machines \/ Add(DecisionId(type, id_counter), Machine(props, request))
    BY <1>4 DEF Request
  <2> QED BY <1>2, <1>4, <2>1, AddKeepsRequests
<1>5. /\ \A t, n : RequestOf(DecisionId("ACTIVITY", n), Machine(ActivityProps(t), t))
      /\ \A n : RequestOf(DecisionId("TIMER", n), Machine(TimerProps, "timer"))
  BY DEF RequestOf, DecisionId, Machine
<1>6. ASSUME NEW t \in ActivityTypes, ExecuteActivity(t) PROVE RequestsInv'
  BY <1>4, <1>5, <1>6 DEF ExecuteActivity, schedule_activity
<1>7. CASE StartTimer
  BY <1>4, <1>5, <1>7 DEF StartTimer, start_timer
<1>8. ASSUME NEW id, CancelFuture(id) \/ AutomaticCancel(id) PROVE RequestsInv'
  BY <1>1, <1>8, MovesKeepRequests DEF CancelFuture, AutomaticCancel
<1>9. CASE ApplyInputEvent \/ ApplyOutputEvent
  BY <1>1, <1>9, MovesKeepRequests DEF ApplyInputEvent, ApplyOutputEvent
<1>10. CASE MaybeCompleteWorkflow
  BY <1>2, <1>3, <1>10 DEF MaybeCompleteWorkflow, managerVars, RaiseInEngine
<1>11. CASE NextDecisionEvents \/ CollectDecisions \/ StartRun \/ EndExecution \/ FinishBatch \/ Yield
             \/ RejectionUnwinds \/ \E outcome : Ends(outcome)
  BY <1>2, <1>11 DEF NextDecisionEvents, CollectDecisions, StartRun, EndExecution, FinishBatch, Yield,
                     RejectionUnwinds, Ends, managerVars, RaiseInEngine, start_execution, end_execution
<1> QED BY <1>6, <1>7, <1>8, <1>9, <1>10, <1>11 DEF EngineNext, WorkflowNext, Return, continue_as_new

\* The service leaves the machines alone, or drops them with their engine.
LEMMA ServiceDropsMachines ==
    ASSUME ServiceNext
    PROVE  UNCHANGED << state_machines, order, view, task, ops, replayed >> \/ (state_machines' = << >> /\ phase' = "idle")
<1>1. ASSUME NEW events, Arrive(events) PROVE UNCHANGED << state_machines, order, view, task, ops, replayed >>
  BY <1>1 DEF Arrive, managerVars, engineVars, userVars
<1>2. ASSUME DropEngine PROVE state_machines' = << >> /\ phase' = "idle"
  BY <1>2 DEF DropEngine, NewManager
<1>3. ASSUME NEW s, NEW type, ActivityCloses(s, type) PROVE \E events : Arrive(events)
  BY <1>3 DEF ActivityCloses
<1>4. ASSUME NEW id, TimerFires(id) PROVE \E events : Arrive(events)
  BY <1>4 DEF TimerFires
<1>5. SignalArrives => \E events : Arrive(events)
  BY DEF SignalArrives
<1>6. DecisionTaskTimesOut \/ RespondDecisionTaskFailed \/ FinishDecisionTask => DropEngine
  BY DEF DecisionTaskTimesOut, RespondDecisionTaskFailed, FinishDecisionTask, Unsuccessfully
<1>7. RespondDecisionTaskCompleted => DropEngine \/ UNCHANGED << state_machines, order, view, task, ops, replayed >>
  BY DEF RespondDecisionTaskCompleted, Unsuccessfully, managerVars, userVars
<1>8. PollDecisionTask \/ RecordDecision => UNCHANGED << state_machines, order, view, task, ops, replayed >>
  BY DEF PollDecisionTask, RecordDecision, managerVars, userVars, engineVars
<1> QED BY <1>1, <1>2, <1>3, <1>4, <1>5, <1>6, <1>7, <1>8 DEF ServiceNext

\* So do the service's steps.
LEMMA ServiceKeepsRequests ==
    ASSUME RequestsInv, ServiceNext
    PROVE  RequestsInv'
<1>1. << >> = [id \in DOMAIN << >> |-> << >>[id]]
  BY EmptyIsSeq
<1> QED BY <1>1, ServiceDropsMachines, EmptyIsSeq DEF RequestsInv

\* Only the next batch changes the place of the engine.
LEMMA WithinABatch ==
    ASSUME IInv, KeysInv', EngineNext \/ WorkflowNext, ~NextDecisionEvents
    PROVE  /\ UNCHANGED << history, pos, batch >>
           /\ InBatch' => InBatch
           /\ phase \in EnginePhases
<1>1. CASE WorkflowNext
  BY <1>1, CallsMakeNoCompletion DEF InBatch, EnginePhases
<1>2. CASE EngineNext
  BY <1>2 DEF EngineNext, CollectDecisions, ApplyInputEvent, StartRun, MaybeCompleteWorkflow, EndExecution,
              ApplyOutputEvent, FinishBatch, serviceVars, InBatch, EnginePhases
<1> QED BY <1>1, <1>2

\* The place of a new batch.
LEMMA NextBatchBegins ==
    ASSUME IInv, HistoryInv, PlaceInv, NextDecisionEvents, phase' = "input"
    PROVE  \E s \in pos..Len(history) :
               /\ IsBatch(history, pos, batch', s)
               /\ pos' = batch'.next /\ pos \in Nat \ {0} /\ Len(history) \in Nat
               /\ First' = IF batch'.replay THEN s + 2 ELSE s + 1
               /\ First' \in Nat /\ pos' \in First'..(Len(history) + 1)
               /\ batch'.replay => pos' <= Len(history)
<1>1. PICK s : IsBatch(history, pos, batch', s)
  BY NextBatchFacts
<1>2. /\ phase = "next" /\ pos \in Nat \ {0} /\ pos' = batch'.next /\ UNCHANGED history
  BY NextBatchFacts DEF serviceVars
<1>3. Len(history) \in Nat /\ DOMAIN history = 1..Len(history)
  BY LenProperties DEF IInv, ServiceInv, IsSeq
<1>4. PICK b : b = batch'
  OBVIOUS
<1>5. PICK L : L = Len(history)
  OBVIOUS
<1>6. PICK f : f = IF b.replay THEN s + 2 ELSE s + 1
  OBVIOUS
<1>7. /\ s \in pos..L /\ b.next \in f..(L + 1)
      /\ b.output = [k \in 1..(b.next - f) |-> f + k - 1]
      /\ \A i \in f..(b.next - 1) : is_decision_event(history[i])
      /\ b.replay = (s < L)
      /\ b.replay => history[s + 1].type = "DecisionTaskCompleted"
  BY <1>1, <1>4, <1>5, <1>6 DEF IsBatch
<1>8. s \in Nat /\ f \in Nat /\ L \in Nat /\ s <= L /\ pos <= s
  BY <1>2, <1>3, <1>5, <1>6, <1>7
<1>9. b.next \in Nat /\ f <= b.next /\ b.next <= L + 1
  BY <1>7, <1>8
<1>10. b.next - f \in Nat
  BY <1>8, <1>9
<1>11. Len(b.output) = b.next - f
  BY <1>7, <1>10, FunctionIsSeq
<1>12. First' = f
  BY <1>2, <1>4, <1>8, <1>9, <1>11 DEF First
<1>13. ASSUME b.replay PROVE b.next <= L
  <2>1. CASE b.next = L + 1 /\ b.next = f
    <3>1. s + 1 = L
      BY <1>6, <1>8, <1>13, <2>1
    <3> QED BY <1>2, <1>5, <1>7, <1>13, <3>1 DEF HistoryInv, PhaseInv
  <2>2. CASE b.next = L + 1 /\ b.next # f
    <3>1. L \in f..(b.next - 1)
      BY <1>8, <1>9, <2>2
    <3> QED BY <1>2, <1>5, <1>7, <3>1 DEF HistoryInv, PhaseInv, is_decision_event, decision_event_types
  <2> QED BY <1>8, <1>9, <2>1, <2>2
<1> QED BY <1>1, <1>2, <1>3, <1>4, <1>5, <1>6, <1>7, <1>8, <1>9, <1>12, <1>13

\* What is replayed has its place in every step of the worker.
LEMMA WorkerKeepsReplayed ==
    ASSUME IInv, KeysInv', HistoryInv, PlaceInv, ReplayedInv, EngineNext \/ WorkflowNext
    PROVE  ReplayedInv'
<1>1. CASE NextDecisionEvents /\ phase' = "input"
  <2>1. PICK s \in pos..Len(history) :
               /\ IsBatch(history, pos, batch', s)
               /\ pos' = batch'.next /\ pos \in Nat \ {0} /\ Len(history) \in Nat
               /\ First' = IF batch'.replay THEN s + 2 ELSE s + 1
               /\ First' \in Nat /\ pos' \in First'..(Len(history) + 1)
               /\ batch'.replay => pos' <= Len(history)
    BY <1>1, NextBatchBegins
  <2>2. history' = history
    BY <1>1 DEF NextDecisionEvents, serviceVars
  <2>3. ASSUME batch'.replay PROVE First' \in 3..pos' /\ history[First' - 1].type = "DecisionTaskCompleted"
    <3>1. First' = s + 2 /\ s \in Nat /\ s >= 1
      BY <2>1, <2>3
    <3>2. First' - 1 = s + 1 /\ First' >= 3
      BY <3>1
    <3>3. history[s + 1].type = "DecisionTaskCompleted"
      BY <2>1, <2>3 DEF IsBatch
    <3>4. First' <= pos'
      BY <2>1
    <3>5. PICK f : f = First'
      OBVIOUS
    <3>6. PICK q : q = pos'
      OBVIOUS
    <3>7. f \in 3..q
      BY <2>1, <3>2, <3>4, <3>5, <3>6
    <3> QED BY <3>2, <3>3, <3>5, <3>6, <3>7
  <2> QED BY <2>1, <2>2, <2>3 DEF ReplayedInv
<1>2. CASE NextDecisionEvents /\ phase' # "input"
  <2>1. phase' \notin EnginePhases
    BY <1>2 DEF NextDecisionEvents, Continue, EnginePhases
  <2> QED BY <2>1 DEF ReplayedInv, InBatch
<1>3. CASE ~NextDecisionEvents
  <2>1. /\ UNCHANGED << history, pos, batch >>
        /\ InBatch' => InBatch
        /\ phase \in EnginePhases
    BY <1>3, WithinABatch
  <2> QED BY <2>1 DEF ReplayedInv, First
<1> QED BY <1>1, <1>2, <1>3

\* A new engine has replayed nothing.
LEMMA ServiceKeepsReplayed ==
    ASSUME IInv, EngineStateInv, ServiceNext
    PROVE  ReplayedInv'
<1>1. CASE PollDecisionTask
  <2>1. phase = "idle" /\ phase' = "next" /\ pos' = pos /\ history' = Append(history, Event("DecisionTaskStarted"))
    BY <1>1 DEF PollDecisionTask
  <2>2. pos' = 1
    BY <2>1 DEF EngineStateInv, IdleInv
  <2>3. PICK n : n = Len(history)
    OBVIOUS
  <2>4. n \in Nat /\ Len(history') = n + 1
    BY <2>1, <2>3, AppendPositions DEF IInv, ServiceInv
  <2>5. pos' <= Len(history')
    BY <2>2, <2>4
  <2> QED BY <2>1, <2>5 DEF ReplayedInv, InBatch
<1>2. CASE ~PollDecisionTask
  <2>1. phase' \notin EnginePhases
    BY <1>2, ServiceLeavesTheEngine
  <2> QED BY <2>1 DEF ReplayedInv, InBatch
<1> QED BY <1>1, <1>2

\* The workflow is started by the first event, in every step of the worker.
LEMMA WorkerKeepsFirst ==
    ASSUME IInv, KeysInv', HistoryInv, PlaceInv, FirstInv, EngineNext \/ WorkflowNext
    PROVE  FirstInv'
<1>1. history' = history
  BY WorkerWritesNothing
<1>2. "none" \notin Outcomes
  BY OutcomesAssumption
<1>3. CASE NextDecisionEvents /\ phase' = "input"
  <2>1. PICK s \in pos..Len(history) :
               /\ IsBatch(history, pos, batch', s)
               /\ pos' = batch'.next /\ pos \in Nat \ {0} /\ Len(history) \in Nat
               /\ First' = IF batch'.replay THEN s + 2 ELSE s + 1
               /\ First' \in Nat /\ pos' \in First'..(Len(history) + 1)
               /\ batch'.replay => pos' <= Len(history)
    BY <1>3, NextBatchBegins
  <2>2. phase = "next" /\ task' = task /\ todo' = batch'.markers \o batch'.input
    BY <1>3, NextBatchFacts
  <2>3. ASSUME task = "none" PROVE 1 \in Elems(todo')
    <3>1. pos = 1
      BY <2>2, <2>3 DEF FirstInv
    <3>2. s # 1
      BY <2>1 DEF IsBatch, FirstInv
    <3>3. PICK S : S = {i \in 1..(s - 1) : ~Skipped(history, i)}
      OBVIOUS
    <3>4. batch'.input = Ascending(S)
      BY <2>1, <3>1, <3>3 DEF IsBatch
    <3>5. 1 \in S
      <4>1. 1 \in 1..(s - 1)
        BY <2>1, <3>1, <3>2
      <4>2. ~Skipped(history, 1)
        BY DEF FirstInv, Skipped, IsStarted, unsuccessful
      <4> QED BY <3>3, <4>1, <4>2
    <3>6. S \subseteq Nat /\ IsFiniteSet(S)
      <4>1. 1..(s - 1) \subseteq Nat /\ s - 1 \in Int
        BY <2>1
      <4>2. IsFiniteSet(1..(s - 1))
        BY <4>1, FS_Interval
      <4> QED BY <3>3, <4>1, <4>2, FS_Subset
    <3>7. IsSeq(Ascending(S)) /\ \E k \in DOMAIN Ascending(S) : Ascending(S)[k] = 1
      BY <3>5, <3>6, AscendingEnumerates
    <3>8. IsSeq(batch'.markers)
      <4>1. PICK f : f = IF batch'.replay THEN s + 2 ELSE s + 1
        OBVIOUS
      <4>5. PICK g : g = batch'.next - 1
        OBVIOUS
      <4>6. f \in Nat /\ g \in Int
        BY <2>1, <4>1, <4>5
      <4>7. batch'.markers = Ascending({i \in f..g : is_marker_event(history[i])})
        BY <2>1, <4>1, <4>5 DEF IsBatch
      <4>2. IsFiniteSet(f..g) /\ f..g \subseteq Nat
        BY <4>6, FS_Interval
      <4>3. PICK M : M = {i \in f..g : is_marker_event(history[i])}
        OBVIOUS
      <4>4. IsFiniteSet(M) /\ M \subseteq Nat
        BY <4>2, <4>3, FS_Subset
      <4> QED BY <4>3, <4>4, <4>7, AscendingEnumerates
    <3>9. PICK k \in DOMAIN Ascending(S) : Ascending(S)[k] = 1
      BY <3>7
    <3>10. PICK ms : ms = batch'.markers
      OBVIOUS
    <3>11. PICK new : new = Ascending(S)
      OBVIOUS
    <3>12. IsSeq(ms) /\ IsSeq(new) /\ k \in DOMAIN new /\ new[k] = 1
      BY <3>7, <3>8, <3>9, <3>10, <3>11
    <3>13. \E i \in DOMAIN (ms \o new) : (ms \o new)[i] = new[k]
      <4>1. \A l \in DOMAIN new : \E i \in DOMAIN (ms \o new) : (ms \o new)[i] = new[l]
        BY <3>12, ConcatElements
      <4> QED BY <3>12, <4>1
    <3>14. todo' = ms \o new
      BY <2>2, <3>4, <3>10, <3>11
    <3> QED BY <3>12, <3>13, <3>14 DEF Elems
  <2> QED BY <1>1, <1>3, <2>2, <2>3 DEF FirstInv
<1>4. CASE NextDecisionEvents /\ phase' # "input"
  BY <1>1, <1>4 DEF NextDecisionEvents, Continue, FirstInv
<1>5. CASE CollectDecisions
  BY <1>1, <1>5 DEF CollectDecisions, FirstInv
<1>6. CASE ApplyInputEvent
  <2>1. phase = "input" /\ todo # << >> /\ phase' \in {"input", "failed"} /\ todo' = Tail(todo)
        /\ task' = IF history[Head(todo)].type = "WorkflowExecutionStarted" /\ task = "none"
                   THEN "running" ELSE task
    BY <1>6 DEF ApplyInputEvent, Continue
  <2>2. ASSUME task' = "none" PROVE 1 \in Elems(todo')
    <3>1. task = "none"
      BY <2>1, <2>2
    <3>2. PICK k \in DOMAIN todo : todo[k] = 1
      BY <2>1, <3>1 DEF FirstInv, Elems
    <3>3. IsSeq(todo)
      BY <2>1 DEF PlaceInv, BatchInv, InBatch, EnginePhases
    <3>4. k # 1
      <4>1. todo[1] # 1
        BY <2>1, <2>2, <3>1, <3>3, HeadAndTail DEF FirstInv
      <4> QED BY <3>2, <4>1
    <3>5. PICK j : j = k - 1
      OBVIOUS
    <3>6. Len(todo) \in Nat /\ DOMAIN todo = 1..Len(todo) /\ DOMAIN Tail(todo) = 1..(Len(todo) - 1)
          /\ \A l \in DOMAIN Tail(todo) : Tail(todo)[l] = todo[l + 1]
      BY <2>1, <3>3, HeadAndTail
    <3>7. j \in DOMAIN Tail(todo) /\ j + 1 = k
      BY <3>2, <3>4, <3>5, <3>6
    <3> QED BY <2>1, <3>2, <3>6, <3>7 DEF Elems
  <2> QED BY <1>1, <2>1, <2>2 DEF FirstInv
<1>7. CASE StartRun
  <2>1. Elems(<< >>) = {}
    BY EmptyIsSeq DEF Elems
  <2> QED BY <1>1, <1>7, <2>1 DEF StartRun, FirstInv
<1>8. CASE MaybeCompleteWorkflow \/ EndExecution \/ ApplyOutputEvent \/ FinishBatch
  BY <1>1, <1>8 DEF MaybeCompleteWorkflow, EndExecution, ApplyOutputEvent, FinishBatch, Continue, FirstInv
<1>9. CASE WorkflowNext
  <2>1. phase = "run" /\ phase' \in {"run", "complete"}
    BY <1>9, CallsMakeNoCompletion
  <2>2. task' # "none"
    BY <1>2, <1>9, <2>1 DEF WorkflowNext, ExecuteActivity, StartTimer, CancelFuture, AutomaticCancel, Return,
          continue_as_new, Ends, Raises, RejectionUnwinds, Yield, engineVars, FirstInv
  <2> QED BY <1>1, <2>1, <2>2 DEF FirstInv
<1> QED BY <1>3, <1>4, <1>5, <1>6, <1>7, <1>8, <1>9 DEF EngineNext

\* A new engine starts at the first event.
LEMMA ServiceKeepsFirst ==
    ASSUME IInv, EngineStateInv, FirstInv, ServiceNext
    PROVE  FirstInv'
<1>1. Len(history) \in Nat /\ DOMAIN history = 1..Len(history) /\ IsSeq(history)
  BY LenProperties DEF IInv, ServiceInv, IsSeq
<1>2. 1 \in DOMAIN history
  BY <1>1 DEF FirstInv
<1>3. 1 \in DOMAIN history' /\ history'[1] = history[1]
  BY <1>2, HistoryIsKept
<1>4. Len(history') # 0
  <2>1. IInv'
    BY ServiceKeepsInv
  <2>2. DOMAIN history' = 1..Len(history')
    BY <2>1, LenProperties DEF IInv, ServiceInv, IsSeq
  <2> QED BY <1>3, <2>2
<1>5. phase' \notin EnginePhases \/ (phase' = "next" /\ pos' = 1)
  <2>1. CASE PollDecisionTask
    BY <2>1 DEF PollDecisionTask, EngineStateInv, IdleInv
  <2>2. CASE ~PollDecisionTask
    BY <2>2, ServiceLeavesTheEngine
  <2> QED BY <2>1, <2>2
<1> QED BY <1>3, <1>4, <1>5 DEF FirstInv, EnginePhases

\* Where no event is handled the machines follow those that were.
LEMMA FollowStays ==
    ASSUME NEW A, Agree(A), StatesFollow(A), PropsFollow(A), UNCHANGED history, CalledOnly
    PROVE  (StatesFollow(A) /\ PropsFollow(A))'
<1>1. \A i : Subject(i)' = Subject(i)
  BY DEF Subject, SubjectIn
<1>2. StatesFollow(A)'
  BY <1>1 DEF StatesFollow, CalledOnly
<1>3. \A i \in A : history[i].type \in StartTypes => history[i].id \in DOMAIN state_machines
  BY DEF Agree, EventsAgree, Subject, SubjectIn, StartTypes, RefTypes, activity_close_types
<1>4. PropsFollow(A)'
  BY <1>3 DEF PropsFollow, CalledOnly
<1> QED BY <1>2, <1>4

\* The machine of an event that is handled follows it.
LEMMA HandledFollows ==
    ASSUME IInv, NEW p \in DOMAIN history, HasHandler(p), NEW A, Agree(A), StatesFollow(A), PropsFollow(A),
           handle_history_event(history[p], p), raised' = "none", UNCHANGED history,
           history[p].type \in StartTypes => state_machines[history[p].id].props = history[p].props
    PROVE  (StatesFollow(A \cup {p}) /\ PropsFollow(A \cup {p}))'
<1>1. PICK x : x = Subject(p)
  OBVIOUS
<1>2. PICK h : h = type_to_action[history[p].type]
  OBVIOUS
<1>3. AliasesAgree(A)
  BY DEF Agree
<1>4. /\ x \in DOMAIN state_machines \ {COMPLETION_ID}
      /\ state_machines' = [state_machines EXCEPT ![x] = Handled(h, @)]
  BY <1>1, <1>2, <1>3, EventFindsItsMachine
<1>5. /\ h.to \in {"keep", "RECORDED", "COMPLETED", "CANCELLATION_RECORDED"}
      /\ h.to = "COMPLETED" <=> history[p].type \in EndTypes
      /\ h.to = "CANCELLATION_RECORDED" <=> history[p].type = "ActivityTaskCancelRequested"
  BY <1>2, HandlerTable DEF HasHandler
<1>6. MachineOK(state_machines[x])
  BY <1>4 DEF IInv, ManagerInv, MachinesInv
<1>7. /\ DOMAIN state_machines' = DOMAIN state_machines
      /\ StateOf(x)' = IF h.to = "keep" THEN StateOf(x) ELSE h.to
      /\ \A id \in DOMAIN state_machines : state_machines'[id].props = state_machines[id].props
      /\ \A id \in DOMAIN state_machines \ {x} : StateOf(id)' = StateOf(id)
  BY <1>4, <1>6 DEF StateOf, Handled, MachineOK
<1>8. \A i : Subject(i)' = Subject(i)
  BY DEF Subject, SubjectIn
<1>9. PICK B : B = A \cup {p}
  OBVIOUS
<1>10. history[p].type = "ActivityTaskCancelRequested" => history[p].id = x
  BY <1>1 DEF Subject, SubjectIn, RefTypes, activity_close_types
<1>11. ASSUME NEW id \in DOMAIN state_machines \ {COMPLETION_ID}
       PROVE  /\ StateOf(id)' = "COMPLETED" => \E i \in B : history[i].type \in EndTypes /\ Subject(i) = id
              /\ StateOf(id)' = "CANCELLATION_RECORDED" =>
                     \E i \in B : history[i].type = "ActivityTaskCancelRequested" /\ history[i].id = id
  <2>1. /\ StateOf(id) = "COMPLETED" => \E i \in B : history[i].type \in EndTypes /\ Subject(i) = id
        /\ StateOf(id) = "CANCELLATION_RECORDED" =>
               \E i \in B : history[i].type = "ActivityTaskCancelRequested" /\ history[i].id = id
    BY <1>9 DEF StatesFollow
  <2>2. CASE id = x /\ h.to # "keep"
    BY <1>1, <1>5, <1>7, <1>9, <1>10, <2>2
  <2>3. CASE id # x \/ h.to = "keep"
    BY <1>7, <2>1, <2>3
  <2> QED BY <2>2, <2>3
<1>12. StatesFollow(B)'
  BY <1>7, <1>8, <1>11 DEF StatesFollow
<1>13. \A i \in A : history[i].type \in StartTypes => history[i].id \in DOMAIN state_machines
  BY DEF Agree, EventsAgree, Subject, SubjectIn, StartTypes, RefTypes, activity_close_types
<1>14. history[p].type \in StartTypes => history[p].id = x
  BY <1>1 DEF Subject, SubjectIn, StartTypes, RefTypes, activity_close_types
<1>15. \A i \in B : history[i].type \in StartTypes => state_machines'[history[i].id].props = history[i].props
  BY <1>4, <1>7, <1>9, <1>13, <1>14 DEF PropsFollow
<1>16. PropsFollow(B)'
  BY <1>15 DEF PropsFollow
<1> QED BY <1>9, <1>12, <1>16

\* The calls of the workflow tell no machine of an event.
LEMMA WorkflowOnlyCalls ==
    ASSUME IInv, WorkflowNext
    PROVE  CalledOnly
<1>1. CASE UNCHANGED state_machines
  BY <1>1 DEF CalledOnly, StateOf
<1>2. ASSUME NEW type, NEW props, NEW request, Request(type, props, request) PROVE CalledOnly
  <2>1. PICK id : id = DecisionId(type, id_counter)
    OBVIOUS
  <2>2. UNCHANGED state_machines \/ Add(id, Machine(props, request))
    BY <1>2, <2>1 DEF Request
  <2>3. CASE Add(id, Machine(props, request)) /\ ~UNCHANGED state_machines
    <3>1. id \notin DOMAIN state_machines
          /\ state_machines' = [i \in DOMAIN state_machines \cup {id} |->
                                    IF i = id THEN Machine(props, request) ELSE state_machines[i]]
      BY <2>3 DEF Add
    <3>2. Machine(props, request).state = "REQUESTED"
      BY DEF Machine
    <3> QED BY <3>1, <3>2 DEF CalledOnly, StateOf
  <2> QED BY <1>1, <2>2, <2>3
<1>3. ASSUME NEW id, request_cancel(id) PROVE CalledOnly
  <2>1. CASE Cancellable(state_machines[id])
    <3>1. PICK m : m = CancelRequested(id.type, state_machines[id])
      OBVIOUS
    <3>2. id \in DOMAIN state_machines /\ state_machines' = [state_machines EXCEPT ![id] = m]
      BY <1>3, <2>1, <3>1 DEF request_cancel
    <3>3. MachineOK(state_machines[id])
      BY <3>2 DEF IInv, ManagerInv, MachinesInv
    <3>4. m.props = state_machines[id].props
          /\ m.state \in {"CANCELED_AFTER_REQUESTED", "CANCELED_AFTER_RECORDED"}
      BY <3>1, <3>3 DEF CancelRequested, MachineOK
    <3> QED BY <3>2, <3>4 DEF CalledOnly, StateOf
  <2>2. CASE ~Cancellable(state_machines[id])
    BY <1>1, <1>3, <2>2 DEF request_cancel
  <2> QED BY <2>1, <2>2
<1>4. ASSUME NEW t \in ActivityTypes, ExecuteActivity(t) PROVE CalledOnly
  BY <1>2, <1>4 DEF ExecuteActivity, schedule_activity
<1>5. CASE StartTimer
  BY <1>2, <1>5 DEF StartTimer, start_timer
<1>6. ASSUME NEW id, CancelFuture(id) \/ AutomaticCancel(id) PROVE CalledOnly
  BY <1>3, <1>6 DEF CancelFuture, AutomaticCancel
<1>7. CASE Yield \/ RejectionUnwinds \/ \E outcome : Ends(outcome)
  BY <1>1, <1>7 DEF Yield, RejectionUnwinds, Ends, managerVars
<1> QED BY <1>4, <1>5, <1>6, <1>7 DEF WorkflowNext, Return, continue_as_new

\* Nor does the completion.
LEMMA CompletionOnlyCalls ==
    ASSUME NEW outcome, complete_workflow(outcome)
    PROVE  CalledOnly
<1>1. \/ UNCHANGED state_machines
      \/ /\ COMPLETION_ID \notin DOMAIN state_machines
         /\ state_machines' = [i \in DOMAIN state_machines \cup {COMPLETION_ID} |->
                IF i = COMPLETION_ID THEN CompletionMachine(outcome) ELSE state_machines[i]]
  BY DEF complete_workflow, Add
<1>2. CASE UNCHANGED state_machines
  BY <1>2 DEF CalledOnly, StateOf
<1>3. CASE /\ COMPLETION_ID \notin DOMAIN state_machines
           /\ state_machines' = [i \in DOMAIN state_machines \cup {COMPLETION_ID} |->
                  IF i = COMPLETION_ID THEN CompletionMachine(outcome) ELSE state_machines[i]]
  BY <1>3 DEF CalledOnly, StateOf
<1> QED BY <1>1, <1>2, <1>3

\* Only handling an event changes what was handled.
LEMMA AppliedStays ==
    ASSUME IInv, KeysInv', PlaceInv, EngineNext \/ WorkflowNext, phase' \in EnginePhases,
           ~ApplyInputEvent, ~ApplyOutputEvent
    PROVE  Applied' = Applied
<1>1. CASE NextDecisionEvents
  <2>1. phase' = "input"
    BY <1>1 DEF NextDecisionEvents, Continue, EnginePhases
  <2> QED BY <1>1, <2>1, NextBatchIsInPlace
<1>2. CASE CollectDecisions
  BY <1>2 DEF CollectDecisions, EnginePhases
<1>3. CASE StartRun
  BY <1>3, BatchGoesOn DEF StartRun, serviceVars, managerVars
<1>4. CASE MaybeCompleteWorkflow
  <2>1. phase = "complete" /\ phase' = "end" /\ UNCHANGED << history, pos, batch, todo, replaying >>
    BY <1>4 DEF MaybeCompleteWorkflow, Continue, EnginePhases, serviceVars, managerVars, complete_workflow
  <2> QED BY <2>1, BatchGoesOn
<1>5. CASE EndExecution
  <2>1. phase = "end" /\ phase' = "output" /\ todo' = batch.output /\ UNCHANGED << history, pos, batch >>
    BY <1>5 DEF EndExecution, Continue, EnginePhases, serviceVars
  <2> QED BY <2>1, BatchGoesOn
<1>6. CASE FinishBatch
  BY <1>6, BatchGoesOn DEF FinishBatch, serviceVars
<1>7. CASE WorkflowNext
  BY <1>7, CallsMakeNoCompletion, BatchGoesOn
<1> QED BY <1>1, <1>2, <1>3, <1>4, <1>5, <1>6, <1>7 DEF EngineNext

\* The machines follow what is handled.
LEMMA FollowsNext ==
    ASSUME NEW A, Applied' = A, (StatesFollow(A) /\ PropsFollow(A))'
    PROVE  FollowedInv'
BY DEF FollowedInv, StatesFollow, PropsFollow

\* The engine handles an event the machine of which it has told, or is of the input.
LEMMA EventKeepsFollow ==
    ASSUME IInv, HistoryInv, EngineStateInv, InputInv, FollowInv,
           phase \in {"input", "output"}, phase' = phase,
           todo # << >>, todo' = Tail(todo), UNCHANGED << history, pos, batch >>,
           handle_history_event(history[Head(todo)], Head(todo)), raised' = "none"
    PROVE  FollowedInv' /\ ToldInv'
<1>1. /\ UNCHANGED replaying /\ PlaceInv /\ phase \in EnginePhases /\ FollowedInv /\ ToldInv
  BY Zenon DEF handle_history_event, EngineStateInv, EnginePhases, FollowInv
<1>2. PICK p : p = Head(todo)
  OBVIOUS
<1>3. /\ p \in DOMAIN history
      /\ HasHandler(p) => /\ Applied' = Applied \cup {p}
                          /\ Applied = {i \in 1..(p - 1) : HasHandler(i)}
      /\ ~HasHandler(p) => Applied' = Applied
  BY <1>1, <1>2, HeadIsHandled
<1>4. PICK A : A = Applied
  OBVIOUS
<1>5. Agree(A) /\ StatesFollow(A) /\ PropsFollow(A)
  BY <1>1, <1>4 DEF EngineStateInv, AgreeInv, Agree, AliasesAgree, EventsAgree, StatesAgree, FollowedInv,
                    StatesFollow, PropsFollow
<1>6. handle_history_event(history[p], p)
  BY <1>2
<1>7. /\ IsSeq(todo) /\ 1 \in DOMAIN todo /\ p = todo[1] /\ Elems(Tail(todo)) \subseteq Elems(todo)
  <2>1. IsSeq(todo)
    BY <1>1 DEF PlaceInv, BatchInv, InBatch, EnginePhases
  <2> QED BY <1>2, <2>1, HeadAndTail DEF Elems
<1>8. history[p].type \in StartTypes =>
          /\ phase = "output"
          /\ state_machines[history[p].id].props = history[p].props
  <2>1. history[p].type \in StartTypes => HasHandler(p) /\ is_decision_event(history[p])
    BY DEF StartTypes, HasHandler, type_to_action, is_decision_event, decision_event_types
  <2>2. p \in Elems(todo)
    BY <1>7 DEF Elems
  <2> QED BY <1>1, <1>7, <2>1, <2>2 DEF InputInv, ToldInv
<1>9. CASE HasHandler(p)
  <2>1. Applied' = A \cup {p}
    BY <1>3, <1>4, <1>9
  <2>2. (StatesFollow(A \cup {p}) /\ PropsFollow(A \cup {p}))'
    BY <1>3, <1>5, <1>6, <1>8, <1>9, HandledFollows
  <2>3. PICK B : B = A \cup {p}
    OBVIOUS
  <2>4. Applied' = B /\ (StatesFollow(B) /\ PropsFollow(B))'
    BY <2>1, <2>2, <2>3
  <2>5. PICK x : x = Subject(p)
    OBVIOUS
  <2>6. AliasesAgree(A)
    BY <1>5 DEF Agree
  <2>7. PICK h : h = type_to_action[history[p].type]
    OBVIOUS
  <2>8. /\ x \in DOMAIN state_machines \ {COMPLETION_ID}
        /\ state_machines' = [state_machines EXCEPT ![x] = Handled(h, @)]
    BY <1>6, <1>9, <2>5, <2>6, <2>7, EventFindsItsMachine
  <2>9. MachineOK(state_machines[x])
    BY <2>8 DEF IInv, ManagerInv, MachinesInv
  <2>10. /\ DOMAIN state_machines' = DOMAIN state_machines
         /\ \A id \in DOMAIN state_machines : state_machines'[id].props = state_machines[id].props
    BY <2>8, <2>9 DEF Handled, MachineOK
  <2>11. ToldInv'
    BY <1>1, <1>7, <2>10 DEF ToldInv, Elems
  <2> QED BY <2>4, <2>11, FollowsNext
<1>10. CASE ~HasHandler(p)
  <2>1. UNCHANGED state_machines
    BY Zenon, <1>6, <1>10 DEF handle_history_event, HasHandler
  <2>2. CalledOnly
    BY <2>1 DEF CalledOnly, StateOf
  <2>3. Applied' = A /\ (StatesFollow(A) /\ PropsFollow(A))'
    BY <1>3, <1>4, <1>5, <1>10, <2>2, FollowStays
  <2>4. ToldInv'
    BY <1>1, <1>7, <2>1 DEF ToldInv, Elems
  <2> QED BY <2>3, <2>4, FollowsNext
<1> QED BY <1>9, <1>10

\* What the tracker lets pass was asked for by the machines of the batch's events.
LEMMA AcceptedIsTold ==
    ASSUME IInv, KeysInv, EngineStateInv, EntriesInv, TrackInv, EndExecution, phase' = "output"
    PROVE  ToldInv'
<1>1. /\ phase = "end" /\ InBatch /\ task # "FatalDecisionError" /\ phase \in TrackedPhases
      /\ todo' = batch.output /\ raised' = "none" /\ end_execution
      /\ batch.output # << >> => batch.replay /\ replaying
  BY DEF EndExecution, InBatch, EnginePhases, EngineStateInv, PlaceInv, BatchInv, FatalInv, TrackedPhases, Continue
<1>2. UNCHANGED << history, batch, state_machines >>
  BY <1>1 DEF EndExecution, serviceVars, end_execution
<1>3. CASE batch.output = << >>
  <2>1. Elems(todo') = {}
    BY <1>1, <1>3, EmptyIsSeq DEF Elems
  <2> QED BY <2>1 DEF ToldInv
<1>4. CASE batch.output # << >>
  <2>1. Expected = {} /\ DOMAIN expectations = DOMAIN batch.output /\ AllTold
    BY <1>1, <1>4 DEF end_execution, Reject, EntriesInv, TrackInv, Tracked
  <2>2. ASSUME NEW k \in DOMAIN batch.output, OutEvent(k).type \in StartTypes
        PROVE  /\ OutEvent(k).id \in DOMAIN state_machines
               /\ state_machines[OutEvent(k).id].props = OutEvent(k).props
    <3>1. Asked(k) /\ Met(k)
      <4>1. upcomingFor(OutEvent(k)) = << OutEvent(k).props >>
        BY <2>2 DEF StartTypes, upcomingFor, AttemptsCancel
      <4>2. expectations[k].upcoming = << >>
        BY <2>1, <2>2 DEF Expected
      <4> QED BY <4>1, <4>2 DEF Asked, Met
    <3>2. PICK e : e = OutEvent(k)
      OBVIOUS
    <3>3. PICK m : m = state_machines[e.id]
      OBVIOUS
    <3>4. PICK d : d = GetDecision(e.id, m)
      OBVIOUS
    <3>5. /\ e.id \in DOMAIN state_machines \ {COMPLETION_ID}
          /\ e.type \in RecordedAs(d) /\ e.props = d.props
      BY <2>1, <2>2, <3>1, <3>2, <3>3, <3>4 DEF AllTold, Tells
    <3>6. e.type \in StartTypes
      BY <2>2, <3>2
    <3>7. m.state = "REQUESTED" => d.props = m.props
      BY <3>4, <3>5 DEF GetDecision, Decision
    <3>8. m.state # "REQUESTED" => FALSE
      <4>1. e.id.type \in {"ACTIVITY", "TIMER"}
        BY <3>5 DEF KeysInv
      <4>2. m.state # "REQUESTED" =>
                d.what \in {"RecordMarker", "RequestCancelActivityTask", "CancelTimer"}
        BY <3>4, <3>5, <4>1 DEF GetDecision, Decision, CancelDecision
      <4> QED BY <3>5, <3>6, <4>2 DEF RecordedAs, StartTypes
    <3> QED BY <3>2, <3>3, <3>5, <3>6, <3>7, <3>8
  <2> QED BY <1>1, <1>2, <2>2 DEF ToldInv, Elems, OutEvent
<1> QED BY <1>3, <1>4

\* The machines follow the events in every step of the worker.
LEMMA WorkerKeepsFollow ==
    ASSUME IInv, KeysInv, KeysInv', HistoryInv, EngineStateInv, InputInv, EntriesInv, TrackInv, FollowInv,
           EngineNext \/ WorkflowNext
    PROVE  FollowInv'
<1>1. RequestsInv'
  BY WorkerKeepsRequests DEF FollowInv
<1>2. CASE phase' \notin EnginePhases
  BY <1>1, <1>2 DEF FollowInv, FollowedInv, ToldInv, EnginePhases
<1>3. CASE phase' \in EnginePhases /\ ~ApplyInputEvent /\ ~ApplyOutputEvent
  <2>1. PICK A : A = Applied
    OBVIOUS
  <2>2. Applied' = A /\ UNCHANGED history /\ phase \in EnginePhases
    BY <1>3, <2>1, AppliedStays, WorkerWritesNothing DEF EngineStateInv
  <2>3. Agree(A) /\ StatesFollow(A) /\ PropsFollow(A)
    BY <2>1, <2>2 DEF EngineStateInv, AgreeInv, Agree, AliasesAgree, EventsAgree, StatesAgree,
                      FollowInv, FollowedInv, StatesFollow, PropsFollow
  <2>4. CalledOnly
    <3>1. CASE UNCHANGED state_machines
      BY <3>1 DEF CalledOnly, StateOf
    <3>2. CASE MaybeCompleteWorkflow
      BY <3>1, <3>2, CompletionOnlyCalls DEF MaybeCompleteWorkflow, managerVars, RaiseInEngine
    <3>3. CASE NextDecisionEvents \/ CollectDecisions \/ StartRun \/ EndExecution \/ FinishBatch
      BY <3>1, <3>3 DEF NextDecisionEvents, CollectDecisions, StartRun, EndExecution, FinishBatch,
                        managerVars, RaiseInEngine, start_execution, end_execution
    <3> QED BY <1>3, <3>2, <3>3, WorkflowOnlyCalls DEF EngineNext
  <2>5. FollowedInv'
    BY <2>2, <2>3, <2>4, FollowStays, FollowsNext
  <2>6. ToldInv'
    <3>1. CASE EndExecution
      BY <3>1, AcceptedIsTold DEF ToldInv
    <3>2. CASE ~EndExecution
      <4>1. phase' # "output"
        <5>1. WorkflowNext => phase' # "output"
          BY CallsMakeNoCompletion
        <5> QED BY <1>3, <3>2, <5>1 DEF EngineNext, NextDecisionEvents, CollectDecisions, StartRun,
                   MaybeCompleteWorkflow, FinishBatch, Continue
      <4> QED BY <4>1 DEF ToldInv
    <3> QED BY <3>1, <3>2
  <2> QED BY <1>1, <2>5, <2>6 DEF FollowInv
<1>4. CASE phase' \in EnginePhases /\ (ApplyInputEvent \/ ApplyOutputEvent)
  <2>1. /\ phase \in {"input", "output"} /\ phase' = phase /\ raised' = "none"
        /\ todo # << >> /\ todo' = Tail(todo) /\ UNCHANGED << history, pos, batch >>
        /\ handle_history_event(history[Head(todo)], Head(todo))
    BY <1>4 DEF ApplyInputEvent, ApplyOutputEvent, Continue, serviceVars, EnginePhases
  <2> QED BY <1>1, <2>1, EventKeepsFollow DEF FollowInv
<1> QED BY <1>2, <1>3, <1>4

\* A new engine has no machines.
LEMMA ServiceKeepsFollow ==
    ASSUME IInv, EngineStateInv, FollowInv, ServiceNext
    PROVE  FollowInv'
<1>1. RequestsInv'
  BY ServiceKeepsRequests DEF FollowInv
<1>2. CASE PollDecisionTask
  <2>1. /\ phase = "idle" /\ phase' = "next" /\ pos' = 1 /\ state_machines' = << >>
    BY <1>2 DEF PollDecisionTask, managerVars, EngineStateInv, IdleInv
  <2>2. Applied' = {}
    BY <2>1 DEF Applied, Pending
  <2>3. (StatesFollow({}) /\ PropsFollow({}))'
    BY <2>1, EmptyIsSeq DEF StatesFollow, PropsFollow
  <2>4. FollowedInv'
    BY <2>2, <2>3, FollowsNext
  <2> QED BY <1>1, <2>1, <2>4 DEF FollowInv, ToldInv
<1>3. CASE ~PollDecisionTask
  BY <1>1, <1>3, ServiceLeavesTheEngine DEF FollowInv, FollowedInv, ToldInv, EnginePhases
<1> QED BY <1>2, <1>3

-----------------------------------------------------------------------------
(* The order of the machines is that of the last words                     *)

\* While the calls of a batch are made, what they moved is behind what they did not.
SilentFirst(n) ==
    \A a, b \in DOMAIN order : a < b /\ Silent(order[b]) =>
        /\ Silent(order[a])
        /\ \A i, j \in 1..n :
               /\ LastWord(history, n, i) /\ history[i].id = order[a]
               /\ LastWord(history, n, j) /\ history[j].id = order[b]
               => i < j

\* Between two runs the machines are in the order of the last words.
WordInv ==
    /\ phase = "next" /\ (batch.replay \/ pos <= Len(history)) => InWordOrder(order, history, pos - 1)
    /\ phase = "output" /\ batch.replay => InWordOrder(order, history, pos - 1)
    /\ phase = "input" => InWordOrder(order, history, First - 1)
    /\ phase \in {"run", "complete", "end"} /\ task # "FatalDecisionError" => SilentFirst(First - 1)

\* What follows and is no word leaves the last words.
LEMMA WordsStay ==
    ASSUME NEW h, NEW n \in Nat, NEW m \in Nat, n <= m, \A i \in (n + 1)..m : ~Said(h[i])
    PROVE  \A i : LastWord(h, m, i) <=> LastWord(h, n, i)
<1> SUFFICES ASSUME NEW i PROVE LastWord(h, m, i) <=> LastWord(h, n, i)
  OBVIOUS
<1>1. ASSUME LastWord(h, m, i) PROVE LastWord(h, n, i)
  <2>1. /\ i \in 1..m /\ Said(h[i])
        /\ \A j \in (i + 1)..m : Said(h[j]) => h[j].id # h[i].id
    BY <1>1 DEF LastWord
  <2>2. i \in 1..n
    BY <2>1
  <2>3. \A j \in (i + 1)..n : j \in (i + 1)..m
    BY <2>2
  <2> QED BY <2>1, <2>2, <2>3 DEF LastWord
<1>2. ASSUME LastWord(h, n, i) PROVE LastWord(h, m, i)
  <2>1. /\ i \in 1..n /\ Said(h[i])
        /\ \A j \in (i + 1)..n : Said(h[j]) => h[j].id # h[i].id
    BY <1>2 DEF LastWord
  <2>2. i \in 1..m /\ \A j \in (i + 1)..m : j \in (i + 1)..n \/ j \in (n + 1)..m
    BY <2>1
  <2> QED BY <2>1, <2>2 DEF LastWord
<1> QED BY <1>1, <1>2

\* What precedes is not what follows.
LEMMA EarlierWord ==
    ASSUME NEW h, NEW n \in Nat, NEW m \in Nat, n <= m, NEW i \in 1..n, LastWord(h, m, i)
    PROVE  LastWord(h, n, i)
<1>1. \A j \in (i + 1)..n : j \in (i + 1)..m
  OBVIOUS
<1> QED BY <1>1 DEF LastWord

\* The next batch begins behind the last words, and the mark of an answer is none.
LEMMA NextBatchKeepsWords ==
    ASSUME IInv, HistoryInv, PlaceInv, ShapeInv, BoundaryInv, WordInv, NextDecisionEvents, phase' = "input"
    PROVE  WordInv'
<1>1. PICK s \in pos..Len(history) :
          /\ IsBatch(history, pos, batch', s)
          /\ pos \in Nat \ {0} /\ Len(history) \in Nat
          /\ First' = IF batch'.replay THEN s + 2 ELSE s + 1
  BY NextBatchBegins
<1>2. phase = "next" /\ UNCHANGED << history, order >>
  BY NextBatchFacts DEF serviceVars
<1>3. IsSeq(history) /\ Shaped(history) /\ pos <= Len(history) /\ (pos \in DOMAIN history => ~Records(history[pos]))
  BY <1>1, <1>2 DEF IInv, ServiceInv, ShapeInv, BoundaryInv, EnginePhases
<1>4. PICK b : b = batch'
  OBVIOUS
<1>5. \A i \in pos..s : ~Records(history[i])
  <2>1. IsBatch(history, pos, b, s)
    BY <1>1, <1>4
  <2> QED BY <1>1, <1>3, <2>1, BatchInputIsPlain
<1>6. InWordOrder(order, history, pos - 1)
  BY <1>2, <1>3 DEF WordInv
<1>7. PICK n \in Nat : n = pos - 1
  BY <1>1
<1>8. PICK m \in Nat : m = First' - 1
  BY <1>1
<1>9. n <= m /\ \A i \in (n + 1)..m : i \in pos..s \/ (b.replay /\ i = s + 1)
  BY <1>1, <1>4, <1>7, <1>8
<1>10. b.replay => history[s + 1].type = "DecisionTaskCompleted"
  BY <1>1, <1>4 DEF IsBatch
<1>11. \A i \in (n + 1)..m : ~Said(history[i])
  <2>1. \A i \in pos..s : ~Said(history[i])
    BY <1>5 DEF Records, is_decision_event, decision_event_types, Said, StartTypes, CancelTypes
  <2>2. b.replay => ~Said(history[s + 1])
    BY <1>10 DEF Said, StartTypes, CancelTypes
  <2> QED BY <1>9, <2>1, <2>2
<1>12. \A i : LastWord(history, m, i) <=> LastWord(history, n, i)
  BY <1>9, <1>11, WordsStay
<1>13. \A i : LastWord(history, n, i) => i \in 1..n
  BY DEF LastWord
<1>14. InWordOrder(order, history, m)
  <2>1. InWordOrder(order, history, n)
    BY <1>6, <1>7
  <2> QED BY <1>12, <1>13, <2>1 DEF InWordOrder
<1>15. InWordOrder(order, history, First - 1)'
  BY <1>2, <1>8, <1>14
<1> QED BY <1>15 DEF WordInv

\* A new machine is behind all others.
LEMMA AddMovesLast ==
    ASSUME IInv, NEW id, NEW m, Add(id, m), raised' = "none"
    PROVE  MovesLast(id) /\ id \in DOMAIN state_machines' /\ state_machines'[id] = m
<1>1. /\ id \notin DOMAIN state_machines
      /\ state_machines' = [i \in DOMAIN state_machines \cup {id} |->
                                IF i = id THEN m ELSE state_machines[i]]
      /\ order' = Append(order, id)
  BY DEF Add
<1>2. PICK n : n = Len(order)
  OBVIOUS
<1>3. /\ n \in Nat /\ DOMAIN order = 1..n /\ DOMAIN order' = 1..(n + 1)
      /\ order'[n + 1] = id /\ \A a \in 1..n : order'[a] = order[a] /\ order[a] # id
  <2>1. order \in Seq(DecisionIds) /\ OrderIsKeys
    BY DEF IInv, ManagerInv, MachinesInv
  <2>2. IsSeq(order)
    BY <2>1, SeqIsSeq
  <2>3. /\ n \in Nat /\ DOMAIN order = 1..n
        /\ DOMAIN order' = 1..(n + 1) /\ order'[n + 1] = id /\ \A a \in 1..n : order'[a] = order[a]
    BY <1>1, <1>2, <2>2, AppendPositions
  <2> QED BY <1>1, <2>1, <2>3 DEF OrderIsKeys
<1>4. \A a, b \in DOMAIN order' : order'[a] = id => ~(a < b)
  BY <1>3
<1>5. \A a, b \in DOMAIN order' : a < b /\ order'[a] # id /\ order'[b] # id =>
          \E c, d \in DOMAIN order : c < d /\ order[c] = order'[a] /\ order[d] = order'[b]
  <2> SUFFICES ASSUME NEW a \in DOMAIN order', NEW b \in DOMAIN order', a < b, order'[a] # id, order'[b] # id
               PROVE  \E c, d \in DOMAIN order : c < d /\ order[c] = order'[a] /\ order[d] = order'[b]
    OBVIOUS
  <2>1. a \in 1..n /\ b \in 1..n
    BY <1>3
  <2> QED BY <1>3, <2>1
<1> QED BY <1>1, <1>4, <1>5 DEF MovesLast

\* A machine that is cancelled is moved behind all others.
LEMMA CancelMovesLast ==
    ASSUME IInv, NEW id, request_cancel(id), raised' = "none", StateOf(id) # "REQUESTED"
    PROVE  UNCHANGED << state_machines, order >> \/ (MovesLast(id) /\ ~Silent(id)')
<1>1. id \in DOMAIN state_machines
  BY DEF request_cancel
<1>2. CASE ~Cancellable(state_machines[id])
  BY <1>2 DEF request_cancel
<1>3. CASE Cancellable(state_machines[id])
  <2>1. /\ state_machines' = [state_machines EXCEPT ![id] = CancelRequested(id.type, @)]
        /\ order' = MoveToEnd(order, id)
    BY <1>3 DEF request_cancel, Reject
  <2>2. /\ order \in Seq(DecisionIds) /\ id \in {order[a] : a \in DOMAIN order}
        /\ \A a, b \in DOMAIN order : order[a] = order[b] => a = b
    BY <1>1 DEF IInv, ManagerInv, MachinesInv, OrderIsKeys
  <2>3. PICK t : t = order'
    OBVIOUS
  <2>4. /\ DOMAIN t = 1..Len(order) /\ t[Len(order)] = id
        /\ \A a \in DOMAIN t : t[a] = id => a = Len(order)
    BY <2>1, <2>2, <2>3, MovedIsLast
  <2>5. Len(order) \in Nat
    BY <2>2, LenProperties
  <2>6. \A a, b \in DOMAIN order' : order'[a] = id => ~(a < b)
    BY <2>3, <2>4, <2>5
  <2>7. \A a, b \in DOMAIN order' : a < b /\ order'[a] # id /\ order'[b] # id =>
            \E c, d \in DOMAIN order : c < d /\ order[c] = order'[a] /\ order[d] = order'[b]
    BY <2>1, <2>2, OthersKeepTheirOrder
  <2>8. /\ \A j \in DOMAIN state_machines \ {id} :
               j \in DOMAIN state_machines' /\ state_machines'[j] = state_machines[j]
        /\ \A j \in DOMAIN state_machines' \ {id} : j \in DOMAIN state_machines
    BY <2>1
  <2>9. PICK m : m = CancelRequested(id.type, state_machines[id])
    OBVIOUS
  <2>10. m.state = "CANCELED_AFTER_RECORDED"
    <3>1. MachineOK(state_machines[id]) /\ state_machines[id].state = "RECORDED"
      BY <1>1, <1>3 DEF IInv, ManagerInv, MachinesInv, Cancellable, StateOf
    <3> QED BY <2>9, <3>1 DEF CancelRequested, MachineOK
  <2>11. state_machines'[id] = m
    BY <1>1, <2>1, <2>9
  <2>12. ~Silent(id)'
    BY <2>10, <2>11 DEF Silent, StateOf
  <2> QED BY <2>6, <2>7, <2>8, <2>12 DEF MovesLast
<1> QED BY <1>2, <1>3

\* What is called is behind what is silent.
LEMMA CallsStayBehind ==
    ASSUME IInv, UNCHANGED history, NEW id, MovesLast(id), ~Silent(id)', NEW n, SilentFirst(n),
           NEW a \in DOMAIN order', NEW b \in DOMAIN order', a < b, Silent(order[b])'
    PROVE  \E c, d \in DOMAIN order :
               /\ c < d /\ order[c] = order'[a] /\ order[d] = order'[b]
               /\ Silent(order[d]) /\ Silent(order[a])'
<1>1. order'[b] # id /\ order'[a] # id
  BY DEF MovesLast
<1>2. PICK c, d \in DOMAIN order : c < d /\ order[c] = order'[a] /\ order[d] = order'[b]
  BY <1>1 DEF MovesLast
<1>3. order[c] \in DOMAIN state_machines \ {id} /\ order[d] \in DOMAIN state_machines \ {id}
  BY <1>1, <1>2 DEF IInv, ManagerInv, MachinesInv, OrderIsKeys
<1>4. state_machines'[order[c]] = state_machines[order[c]] /\ state_machines'[order[d]] = state_machines[order[d]]
  BY <1>3 DEF MovesLast
<1>5. Silent(order[d]) /\ (Silent(order[c]) => Silent(order[a])')
  BY <1>2, <1>4 DEF Silent, StateOf
<1>6. Silent(order[c])
  BY <1>2, <1>5 DEF SilentFirst
<1> QED BY <1>2, <1>5, <1>6

\* They stay in that order.
LEMMA CallsKeepWords ==
    ASSUME IInv, UNCHANGED << history, pos, batch >>, NEW id, MovesLast(id), ~Silent(id)', SilentFirst(First - 1)
    PROVE  SilentFirst(First - 1)'
<1>1. PICK n : n = First - 1
  OBVIOUS
<1>2. SilentFirst(n) /\ First' - 1 = n
  BY <1>1 DEF First
<1>3. ASSUME NEW a \in DOMAIN order', NEW b \in DOMAIN order', a < b, Silent(order[b])'
      PROVE  /\ Silent(order[a])'
             /\ \A i, j \in 1..n :
                    /\ LastWord(history, n, i) /\ history[i].id = order'[a]
                    /\ LastWord(history, n, j) /\ history[j].id = order'[b]
                    => i < j
  <2>1. PICK c, d \in DOMAIN order :
            /\ c < d /\ order[c] = order'[a] /\ order[d] = order'[b]
            /\ Silent(order[d]) /\ Silent(order[a])'
    BY <1>2, <1>3, CallsStayBehind
  <2> QED BY <1>2, <2>1 DEF SilentFirst
<1>4. history' = history
  OBVIOUS
<1> QED BY <1>2, <1>3, <1>4 DEF SilentFirst

\* Without a move nothing is out of order.
LEMMA StillInOrder ==
    ASSUME UNCHANGED << history, pos, batch, state_machines, order >>, SilentFirst(First - 1)
    PROVE  SilentFirst(First - 1)'
BY DEF SilentFirst, First, Silent, StateOf

\* The calls of the workflow, as long as none is rejected.
LEMMA WorkflowKeepsWords ==
    ASSUME ~ImmediateCancel, IInv, KeysInv', WordInv, LetThrough', WorkflowNext
    PROVE  WordInv'
<1>1. phase = "run" /\ phase' \in {"run", "complete"} /\ UNCHANGED << history, pos, batch >>
  BY CallsMakeNoCompletion
<1>2. SUFFICES ASSUME task' # "FatalDecisionError" PROVE SilentFirst(First - 1)'
  BY <1>1 DEF WordInv
<1>3. ASSUME task # "FatalDecisionError" PROVE SilentFirst(First - 1)
  BY <1>1, <1>3 DEF WordInv
<1>4. ASSUME NEW op, Calls(op) PROVE SilentFirst(First - 1)
  BY <1>3, <1>4 DEF Calls
<1>5. ASSUME NEW type \in {"ACTIVITY", "TIMER"}, NEW props, NEW request, NEW op, Calls(op),
             Request(type, props, request), Raises
      PROVE  SilentFirst(First - 1)'
  <2>1. raised' = "none"
    BY <1>2, <1>5 DEF Raises, LetThrough
  <2>2. PICK x : x = DecisionId(type, id_counter)
    OBVIOUS
  <2>3. PICK m : m = Machine(props, request)
    OBVIOUS
  <2>4. Add(x, m) /\ m.state = "REQUESTED"
    BY <1>5, <2>1, <2>2, <2>3 DEF Request, Reject, Machine
  <2>5. MovesLast(x) /\ state_machines'[x] = m
    BY <2>1, <2>4, AddMovesLast
  <2>6. ~Silent(x)'
    BY <2>4, <2>5 DEF Silent, StateOf
  <2> QED BY <1>1, <1>4, <1>5, <2>5, <2>6, CallsKeepWords
<1>6. ASSUME NEW t \in ActivityTypes, ExecuteActivity(t) PROVE SilentFirst(First - 1)'
  BY <1>5, <1>6 DEF ExecuteActivity, schedule_activity
<1>7. CASE StartTimer
  BY <1>5, <1>7 DEF StartTimer, start_timer
<1>8. ASSUME NEW id, CancelFuture(id) PROVE SilentFirst(First - 1)'
  <2>1. Calls(<< "cancel", id >>) /\ request_cancel(id) /\ StateOf(id) # "REQUESTED" /\ raised' = "none"
    BY <1>2, <1>8 DEF CancelFuture, Raises, LetThrough, StateOf
  <2>2. SilentFirst(First - 1)
    BY <1>4, <2>1
  <2>3. UNCHANGED << state_machines, order >> \/ (MovesLast(id) /\ ~Silent(id)')
    BY <2>1, CancelMovesLast
  <2> QED BY <1>1, <2>2, <2>3, CallsKeepWords, StillInOrder
<1>9. ASSUME NEW id, AutomaticCancel(id) PROVE FALSE
  BY <1>2, <1>9 DEF AutomaticCancel, engineVars
<1>10. ASSUME NEW outcome, Ends(outcome) PROVE SilentFirst(First - 1)'
  BY <1>1, <1>4, <1>10, StillInOrder DEF Ends, managerVars
<1>11. CASE Yield
  BY <1>1, <1>2, <1>3, <1>11, StillInOrder DEF Yield, managerVars
<1>12. ASSUME RejectionUnwinds PROVE FALSE
  BY <1>2, <1>12 DEF RejectionUnwinds
<1> QED BY <1>6, <1>7, <1>8, <1>9, <1>10, <1>11, <1>12 DEF WorkflowNext, Return, continue_as_new

\* Where the output events of the batch are.
LEMMA OutputPlaces ==
    ASSUME PlaceInv, InBatch, IInv
    PROVE  /\ First \in Nat \ {0} /\ pos \in Nat /\ Len(batch.output) \in Nat
           /\ pos = First + Len(batch.output) /\ DOMAIN batch.output = 1..Len(batch.output)
           /\ \A k \in 1..Len(batch.output) : batch.output[k] = First + k - 1
<1>1. /\ IsSeq(batch.output) /\ First \in Nat
      /\ \A k \in DOMAIN batch.output : batch.output[k] = First + k - 1
      /\ \E s \in DOMAIN history : First = s + 1 \/ First = s + 2
  BY DEF PlaceInv, BatchInv
<1>2. PICK n : n = Len(batch.output)
  OBVIOUS
<1>3. n \in Nat /\ DOMAIN batch.output = 1..n
  BY <1>1, <1>2, LenProperties DEF IsSeq
<1>4. DOMAIN history = 1..Len(history) /\ Len(history) \in Nat
  BY LenProperties DEF IInv, ServiceInv, IsSeq
<1>5. pos \in Nat
  BY DEF IInv, ServiceInv
<1>6. pos = First + n
  BY <1>1, <1>2, <1>3, <1>5 DEF First
<1>7. First # 0
  BY <1>1, <1>4
<1> QED BY <1>1, <1>2, <1>3, <1>5, <1>6, <1>7

\* What the tracker lets pass is what the batch has the last words of.
LEMMA AcceptedKeepsWords ==
    ASSUME ~ImmediateCancel, IInv, HistoryInv, EngineStateInv, EntriesInv, TrackInv, NoneEnded, WordInv,
           phase = "end", batch.replay, EndExecution, phase' = "output"
    PROVE  InWordOrder(order, history, pos - 1)
<1>1. /\ InBatch /\ PlaceInv /\ replaying /\ task # "FatalDecisionError" /\ phase \in TrackedPhases
  BY DEF InBatch, EnginePhases, EngineStateInv, PlaceInv, BatchInv, FatalInv, TrackedPhases
<1>2. Expected = {}
  <2>1. raised' = "none" /\ end_execution
    BY DEF EndExecution, Continue
  <2> QED BY <1>1, <2>1 DEF end_execution, Reject
<1>3. AllTold /\ NothingElse /\ OrderedAsMet /\ DOMAIN expectations = DOMAIN batch.output
  BY <1>1 DEF TrackInv, Tracked, EntriesInv
<1>4. COMPLETION_ID \notin DOMAIN state_machines
  BY <1>1 DEF NoneEnded
<1>5. \A k \in DOMAIN batch.output : Asked(k) => Met(k)
  BY <1>2, <1>3 DEF Expected, Met
<1>6. PICK f \in Nat \ {0}, l \in Nat :
          /\ f = First /\ l = Len(batch.output) /\ pos = f + l /\ DOMAIN batch.output = 1..l
          /\ \A k \in 1..l : batch.output[k] = f + k - 1
  BY <1>1, OutputPlaces
<1>7. PICK n \in Nat : n = f - 1
  BY <1>6
<1>8. PICK m \in Nat : m = pos - 1
  <2>1. f + l - 1 \in Nat
    OBVIOUS
  <2>2. pos - 1 = f + l - 1
    BY <1>6
  <2> QED BY <2>1, <2>2
<1>9. SilentFirst(n)
  BY <1>1, <1>6, <1>7 DEF WordInv
<1>10. n <= m /\ \A i \in 1..m : i \in 1..n \/ \E k \in 1..l : i = f + k - 1
  <2>1. n <= m
    BY <1>6, <1>7, <1>8
  <2>2. ASSUME NEW i \in 1..m, i \notin 1..n PROVE \E k \in 1..l : i = f + k - 1
    <3>1. i - n \in 1..l /\ i = f + (i - n) - 1
      BY <1>6, <1>7, <1>8, <2>2
    <3> QED BY <3>1
  <2> QED BY <2>1, <2>2
\* A word of the batch is met, and its machine has something to send.
<1>11. ASSUME NEW k \in 1..l, Said(history[f + k - 1])
       PROVE  /\ k \in DOMAIN batch.output /\ Met(k) /\ OutEvent(k) = history[f + k - 1]
              /\ ~Silent(history[f + k - 1].id)
  <2>1. k \in DOMAIN batch.output /\ OutEvent(k) = history[f + k - 1]
    BY <1>6 DEF OutEvent
  <2>2. Asked(k) <=> OutEvent(k).type # "RequestCancelActivityTaskFailed"
    BY <1>1, <2>1, WhatIsAsked
  <2>3. Asked(k)
    BY <1>11, <2>1, <2>2 DEF Said, StartTypes, CancelTypes
  <2>4. Met(k) /\ Tells(k)
    BY <1>3, <1>5, <2>1, <2>3 DEF AllTold
  <2> QED BY <2>1, <2>4 DEF Tells
<1>12. ASSUME NEW a \in DOMAIN order, NEW b \in DOMAIN order, NEW i \in 1..m, NEW j \in 1..m,
              a < b, LastWord(history, m, i), history[i].id = order[a],
              LastWord(history, m, j), history[j].id = order[b]
       PROVE  i < j
  <2>1. Said(history[i]) /\ Said(history[j])
    BY <1>12 DEF LastWord
  <2>2. CASE Silent(order[b])
    <3>1. Silent(order[a])
      BY <1>9, <1>12, <2>2 DEF SilentFirst
    <3>2. i \in 1..n /\ j \in 1..n
      BY <1>10, <1>11, <1>12, <2>1, <2>2, <3>1
    <3>3. LastWord(history, n, i) /\ LastWord(history, n, j)
      BY <1>10, <1>12, <3>2, EarlierWord
    <3> QED BY <1>9, <1>12, <2>2, <3>2, <3>3 DEF SilentFirst
  <2>3. CASE ~Silent(order[b])
    <3>1. order[b] \in DOMAIN state_machines \ {COMPLETION_ID}
      BY <1>4 DEF IInv, ManagerInv, MachinesInv, OrderIsKeys
    <3>2. PICK k \in DOMAIN batch.output : Met(k) /\ OutEvent(k).id = order[b]
      BY <1>3, <2>3, <3>1 DEF NothingElse
    <3>3. k \in 1..l /\ OutEvent(k) = history[f + k - 1] /\ Said(OutEvent(k))
      <4>1. Asked(k) /\ OutEvent(k).type \in StartTypes \cup CancelTypes
        BY <1>1, <3>2, WhatIsAsked DEF Met
      <4> QED BY <1>6, <4>1 DEF OutEvent, Said
    <3>4. f + k - 1 \in 1..m
      <4>1. f + k - 1 >= 1 /\ f + k - 1 <= f + l - 1 /\ f + k - 1 \in Nat
        BY <3>3
      <4>2. m = f + l - 1
        BY <1>6, <1>8
      <4> QED BY <4>1, <4>2
    <3>5. ~(j < f + k - 1)
      <4>1. ASSUME j < f + k - 1 PROVE FALSE
        <5>1. f + k - 1 \in (j + 1)..m
          BY <3>4, <4>1, <1>6, <3>3
        <5>2. \A x \in (j + 1)..m : Said(history[x]) => history[x].id # history[j].id
          BY <1>12 DEF LastWord
        <5> QED BY <1>12, <3>2, <3>3, <5>1, <5>2
      <4> QED BY <4>1
    <3>6. j \notin 1..n
      BY <1>6, <1>7, <3>3, <3>5
    <3>7. PICK k2 \in 1..l : j = f + k2 - 1
      BY <1>10, <3>6
    <3>8. k2 \in DOMAIN batch.output /\ Met(k2) /\ OutEvent(k2).id = order[b]
      BY <1>11, <1>12, <2>1, <3>7
    <3>9. CASE i \in 1..n
      BY <1>7, <3>6, <3>9
    <3>10. CASE i \notin 1..n
      <4>1. PICK k1 \in 1..l : i = f + k1 - 1
        BY <1>10, <3>10
      <4>2. k1 \in DOMAIN batch.output /\ Met(k1) /\ OutEvent(k1).id = order[a]
        BY <1>11, <1>12, <2>1, <4>1
      <4>3. k1 < k2
        BY <1>3, <1>12, <3>8, <4>2 DEF OrderedAsMet
      <4> QED BY <1>6, <3>7, <4>1, <4>3
    <3> QED BY <3>9, <3>10
  <2> QED BY <2>2, <2>3
<1>13. InWordOrder(order, history, m)
  BY <1>12 DEF InWordOrder
<1> QED BY <1>8, <1>13

\* The steps of the engine.
LEMMA EngineKeepsWords ==
    ASSUME ~ImmediateCancel, IInv, KeysInv', LastInv, HistoryInv, EngineStateInv, ShapeInv, BoundaryInv,
           Unwinds, AckInv, RunsOn, EntriesInv, TrackInv, NoneEnded, WordInv, EngineNext
    PROVE  WordInv'
<1>0. PlaceInv
  BY DEF EngineStateInv
<1>1. CASE NextDecisionEvents
  <2>1. phase' = "input" \/ phase' = "failed"
    BY <1>1 DEF NextDecisionEvents, Continue
  <2>2. CASE phase' = "failed"
    BY <2>2 DEF WordInv
  <2> QED BY <1>0, <1>1, <2>1, <2>2, NextBatchKeepsWords
<1>2. CASE CollectDecisions
  BY <1>2 DEF CollectDecisions, WordInv
<1>3. CASE ApplyInputEvent \/ ApplyOutputEvent
  <2>1. /\ phase \in {"input", "output"} /\ (phase' = phase \/ phase' = "failed")
        /\ UNCHANGED << history, pos, batch, order >>
    BY <1>3 DEF ApplyInputEvent, ApplyOutputEvent, Continue, serviceVars, handle_history_event
  <2> QED BY <2>1 DEF WordInv, First, InWordOrder
<1>4. CASE StartRun
  <2>1. /\ phase = "input" /\ phase' = "run"
        /\ UNCHANGED << history, pos, batch, order, state_machines, task >>
    BY <1>4 DEF StartRun, serviceVars, managerVars
  <2>2. InWordOrder(order, history, First - 1) /\ Settled
    BY <2>1 DEF WordInv, AckInv, Unwinds
  <2>3. COMPLETION_ID \notin DOMAIN state_machines
    BY <2>1 DEF RunsOn, InBatch, EnginePhases, LastInv, CompletionInv
  <2>4. \A a \in DOMAIN order : Silent(order[a])
    BY <2>2, <2>3 DEF Settled, IInv, ManagerInv, MachinesInv, OrderIsKeys
  <2>5. SilentFirst(First - 1)
    BY <2>2, <2>4 DEF SilentFirst, InWordOrder
  <2>6. SilentFirst(First - 1)'
    BY <2>1, <2>5, StillInOrder
  <2> QED BY <2>1, <2>6 DEF WordInv
<1>5. CASE MaybeCompleteWorkflow
  <2>1. /\ phase = "complete" /\ UNCHANGED << history, pos, batch, task >>
        /\ \/ phase' = "failed"
           \/ phase' = "end" /\ UNCHANGED managerVars
           \/ phase' = "end" /\ raised' = "none" /\ complete_workflow(task)
    BY <1>5 DEF MaybeCompleteWorkflow, Continue, serviceVars
  <2>2. CASE phase' = "failed"
    BY <2>2 DEF WordInv
  <2>3. CASE phase' = "end" /\ UNCHANGED managerVars
    BY <2>1, <2>3, StillInOrder DEF WordInv, managerVars
  <2>4. CASE phase' = "end" /\ raised' = "none" /\ complete_workflow(task)
    <3>1. PICK m : m = CompletionMachine(task)
      OBVIOUS
    <3>2. Add(COMPLETION_ID, m) /\ m.state = "REQUESTED"
      BY <2>4, <3>1 DEF complete_workflow, Reject, CompletionMachine, Machine
    <3>3. MovesLast(COMPLETION_ID) /\ state_machines'[COMPLETION_ID] = m
      BY <2>4, <3>2, AddMovesLast
    <3>4. ~Silent(COMPLETION_ID)'
      BY <3>2, <3>3 DEF Silent, StateOf
    <3>5. task' # "FatalDecisionError" => SilentFirst(First - 1)
      BY <2>1 DEF WordInv
    <3>6. task' # "FatalDecisionError" => SilentFirst(First - 1)'
      BY <2>1, <3>3, <3>4, <3>5, CallsKeepWords
    <3> QED BY <2>4, <3>6 DEF WordInv
  <2> QED BY <2>1, <2>2, <2>3, <2>4
<1>6. CASE EndExecution
  <2>1. phase = "end" /\ (phase' = "output" \/ phase' = "failed") /\ UNCHANGED << history, pos, batch, order >>
    BY <1>6 DEF EndExecution, Continue, serviceVars, end_execution
  <2>2. CASE phase' = "output" /\ batch.replay
    <3>1. InWordOrder(order, history, pos - 1)
      BY <1>6, <2>1, <2>2, AcceptedKeepsWords
    <3> QED BY <2>1, <2>2, <3>1 DEF WordInv, InWordOrder
  <2>3. CASE phase' = "failed" \/ ~batch.replay
    BY <2>1, <2>3 DEF WordInv
  <2> QED BY <2>1, <2>2, <2>3
<1>7. CASE FinishBatch
  <2>1. phase = "output" /\ phase' = "next" /\ UNCHANGED << history, pos, batch, order >>
    BY <1>7 DEF FinishBatch, serviceVars, managerVars
  <2>2. CASE batch.replay
    <3>1. InWordOrder(order, history, pos - 1)
      BY <2>1, <2>2 DEF WordInv
    <3> QED BY <2>1, <2>2, <3>1 DEF WordInv, InWordOrder
  <2>3. CASE ~batch.replay
    <3>1. pos > Len(history) /\ pos \in Nat /\ Len(history) \in Nat
      BY <2>1, <2>3, LenProperties DEF AckInv, LiveIsLast, InBatch, EnginePhases, IInv, ServiceInv, IsSeq
    <3>2. ~(pos <= Len(history))
      BY <3>1
    <3> QED BY <2>1, <2>3, <3>2 DEF WordInv
  <2> QED BY <2>2, <2>3
<1> QED BY <1>1, <1>2, <1>3, <1>4, <1>5, <1>6, <1>7 DEF EngineNext

\* A new engine has no machines to be in any order.
LEMMA ServiceKeepsWords ==
    ASSUME IInv, EngineStateInv, ServiceNext
    PROVE  WordInv'
<1>1. CASE PollDecisionTask
  <2>1. phase' = "next" /\ UNCHANGED order /\ state_machines = << >>
    BY <1>1 DEF PollDecisionTask, managerVars, EngineStateInv, IdleInv
  <2>2. DOMAIN order = {}
    BY <2>1, EmptyIsSeq DEF IInv, ManagerInv, MachinesInv, OrderIsKeys
  <2> QED BY <2>1, <2>2 DEF WordInv, InWordOrder
<1>2. CASE ~PollDecisionTask
  BY <1>2, ServiceLeavesTheEngine DEF WordInv, EnginePhases
<1> QED BY <1>1, <1>2

-----------------------------------------------------------------------------
(* What a run finds                                                        *)

\* An activity that is over when the next task starts ended before it.
LEMMA RefusedBeforeTheTask ==
    ASSUME IInv, HistoryInv, phase # "record", NEW s \in DOMAIN history, history[s].type = "DecisionTaskStarted",
           NEW j \in 1..s, history[j].type = "RequestCancelActivityTaskFailed"
    PROVE  OverAt(history, s, history[j].id)
<1>1. Len(history) \in Nat /\ DOMAIN history = 1..Len(history)
  BY LenProperties DEF IInv, ServiceInv, IsSeq
<1>2. PICK k \in DOMAIN history :
          /\ j < k
          /\ history[k].type \in activity_close_types
          /\ SubjectIn(history, k) = history[j].id
          /\ \A t \in j..k : history[t].type # "DecisionTaskStarted"
  <2>1. j \in DOMAIN history
    BY <1>1
  <2>2. Answered(history, j)
    BY <2>1 DEF HistoryInv, RefusedInv
  <2> QED BY <2>2 DEF Answered
<1>3. k \in 1..s
  <2>1. s \notin j..k
    BY <1>2
  <2> QED BY <1>1, <1>2, <2>1
<1> QED BY <1>2, <1>3 DEF OverAt, EndTypes

\* The handled events of those types are all events of those types.
LEMMA AllAreHandled ==
    ASSUME NEW n, NEW i \in 1..n
    PROVE  history[i].type \in StartTypes \cup EndTypes \cup Resolvers
                \cup {"ActivityTaskCancelRequested", "RequestCancelActivityTaskFailed"} => HasHandler(i)
BY DEF HasHandler, type_to_action, StartTypes, EndTypes, Resolvers, activity_close_types

\* The machines are those of the activities and timers that were started.
LEMMA MachinesAreBegun ==
    ASSUME NEW s, NEW A, A = {i \in 1..s : HasHandler(i)}, Agree(A), Settled,
           COMPLETION_ID \notin DOMAIN state_machines
    PROVE  DOMAIN state_machines = Begun(history, s)
<1>1. ASSUME NEW id \in DOMAIN state_machines PROVE id \in Begun(history, s)
  <2>1. id \in DOMAIN state_machines \ {COMPLETION_ID}
    OBVIOUS
  <2>2. StateOf(id) \notin {"REQUESTED", "CANCELED_AFTER_REQUESTED"}
    BY <2>1 DEF Settled, Silent
  <2>3. \E i \in A : history[i].type \in StartTypes /\ history[i].id = id
    BY <2>1, <2>2 DEF Agree, StatesAgree
  <2> QED BY <2>3 DEF Begun
<1>2. ASSUME NEW i \in 1..s, history[i].type \in StartTypes PROVE history[i].id \in DOMAIN state_machines
  <2>1. i \in A
    BY <1>2, AllAreHandled
  <2>2. Subject(i) = history[i].id
    BY <1>2 DEF Subject, SubjectIn, StartTypes, RefTypes, activity_close_types
  <2> QED BY <2>1, <2>2 DEF Agree, EventsAgree
<1> QED BY <1>1, <1>2 DEF Begun

\* A machine that has nothing to send is in the state that history tells.
LEMMA StateIsHistory ==
    ASSUME IInv, HistoryInv, phase # "record", NEW s \in DOMAIN history, history[s].type = "DecisionTaskStarted",
           NEW A, A = {i \in 1..s : HasHandler(i)}, Agree(A), StatesFollow(A),
           NEW id \in DOMAIN state_machines \ {COMPLETION_ID}, Silent(id)
    PROVE  StateOf(id) = IF OverAt(history, s, id) THEN "COMPLETED"
                         ELSE IF AskedAt(history, s, id) THEN "CANCELLATION_RECORDED" ELSE "RECORDED"
<1>1. StateOf(id) \in {"RECORDED", "CANCELLATION_RECORDED", "COMPLETED"}
  <2>1. StateOf(id) \in DecisionState
    BY DEF IInv, ManagerInv, MachinesInv, MachineOK, StateOf
  <2> QED BY <2>1 DEF Silent, DecisionState
<1>2. OverAt(history, s, id) <=> StateOf(id) = "COMPLETED"
  <2>1. ASSUME OverAt(history, s, id) PROVE StateOf(id) = "COMPLETED"
    <3>1. PICK i \in 1..s : history[i].type \in EndTypes /\ SubjectIn(history, i) = id
      BY <2>1 DEF OverAt
    <3>2. i \in A
      BY <3>1, AllAreHandled
    <3> QED BY <3>1, <3>2 DEF Agree, EventsAgree, Subject
  <2>2. ASSUME StateOf(id) = "COMPLETED" PROVE OverAt(history, s, id)
    BY <2>2 DEF StatesFollow, OverAt, Subject
  <2> QED BY <2>1, <2>2
<1>3. ASSUME AskedAt(history, s, id), StateOf(id) = "RECORDED" PROVE OverAt(history, s, id)
  <2>1. PICK i \in 1..s : history[i].type = "ActivityTaskCancelRequested" /\ history[i].id = id
    BY <1>3 DEF AskedAt
  <2>2. i \in A
    BY <2>1, AllAreHandled
  <2>3. Subject(i) = id
    BY <2>1 DEF Subject, SubjectIn, RefTypes, activity_close_types
  <2>4. PICK j \in A : history[j].type = "RequestCancelActivityTaskFailed" /\ history[j].id = id
    BY <1>3, <2>1, <2>2, <2>3 DEF Agree, EventsAgree
  <2> QED BY <2>4, RefusedBeforeTheTask
<1>4. ASSUME StateOf(id) = "CANCELLATION_RECORDED" PROVE AskedAt(history, s, id)
  BY <1>4 DEF StatesFollow, AskedAt
<1> QED BY <1>1, <1>2, <1>3, <1>4

\* So are its future, its properties and its request.
LEMMA MachineIsHistory ==
    ASSUME IInv, KeysInv, HistoryInv, phase # "record",
           NEW s \in DOMAIN history, history[s].type = "DecisionTaskStarted",
           NEW A, A = {i \in 1..s : HasHandler(i)}, Agree(A), FuturesAgree(A), StatesFollow(A), PropsFollow(A),
           RequestsInv, NEW id \in DOMAIN state_machines \ {COMPLETION_ID}, Silent(id)
    PROVE  MachineAt(history, s, id, state_machines[id])
<1>1. PICK m : m = state_machines[id]
  OBVIOUS
<1>2. MachineOK(m) /\ RequestOf(id, m) /\ StateOf(id) = m.state /\ FutureOf(id) = m.future
  BY <1>1 DEF IInv, ManagerInv, MachinesInv, RequestsInv, StateOf, FutureOf
<1>3. m.state = IF OverAt(history, s, id) THEN "COMPLETED"
                ELSE IF AskedAt(history, s, id) THEN "CANCELLATION_RECORDED" ELSE "RECORDED"
  BY <1>2, StateIsHistory
<1>4. ASSUME NEW i \in 1..s, history[i].type \in Resolvers, SubjectIn(history, i) = id
      PROVE  m.future = type_to_action[history[i].type].future
  <2>1. i \in A
    BY <1>4, AllAreHandled
  <2> QED BY <1>2, <1>4, <2>1 DEF FuturesAgree, Subject
<1>5. ASSUME \A i \in 1..s : history[i].type \in Resolvers => SubjectIn(history, i) # id
      PROVE  m.future = IF OverAt(history, s, id) THEN "cancelled" ELSE "pending"
  <2>1. m.future = IF GivenUpBy(id) THEN "cancelled" ELSE "pending"
    BY <1>2, <1>5 DEF FuturesAgree, Subject
  <2>2. m.state \notin {"CANCELED_AFTER_REQUESTED", "CANCELED_AFTER_RECORDED"}
    BY <1>2 DEF Silent
  <2>3. CASE id.type = "ACTIVITY"
    <3>1. ~GivenUpBy(id)
      BY <1>2, <2>2, <2>3 DEF GivenUpBy
    <3>2. ~OverAt(history, s, id)
      <4>1. SUFFICES ASSUME NEW i \in 1..s, history[i].type \in EndTypes, SubjectIn(history, i) = id PROVE FALSE
        BY DEF OverAt
      <4>2. history[i].type = "TimerCanceled"
        BY <1>5, <4>1 DEF EndTypes, Resolvers
      <4>3. i \in A
        BY <4>1, AllAreHandled
      <4>4. id.type = type_to_action["TimerCanceled"].type
        BY <4>1, <4>2, <4>3 DEF Agree, EventsAgree, Subject
      <4>5. type_to_action["TimerCanceled"].type = "TIMER"
        BY DEF type_to_action, Handler
      <4> QED BY <2>3, <4>4, <4>5
    <3> QED BY <2>1, <3>1, <3>2
  <2>4. CASE id.type = "TIMER"
    BY <1>2, <1>3, <2>1, <2>2, <2>4 DEF GivenUpBy
  <2> QED BY <2>3, <2>4 DEF KeysInv
<1>6. ASSUME NEW i \in 1..s, history[i].type \in StartTypes, history[i].id = id
      PROVE  m.props = history[i].props
  <2>1. i \in A
    BY <1>6, AllAreHandled
  <2> QED BY <1>1, <1>6, <2>1 DEF PropsFollow
<1> QED BY <1>1, <1>2, <1>3, <1>4, <1>5, <1>6 DEF MachineAt

\* What the workflow finds when everything before its task was handled is what
\* history makes of it.
LEMMA FoundIsHistory ==
    ASSUME IInv, KeysInv, HistoryInv, phase \in EnginePhases, task = "running",
           NEW s \in DOMAIN history, history[s].type = "DecisionTaskStarted",
           NEW A, A = {i \in 1..s : HasHandler(i)}, Agree(A), FuturesAgree(A), StatesFollow(A), PropsFollow(A),
           RequestsInv, NumbersInv, Settled, COMPLETION_ID \notin DOMAIN state_machines,
           InWordOrder(order, history, s),
           NEW v, v = << id_counter, order, state_machines, task >>
    PROVE  ViewAt(v, history, s)
<1>1. phase # "record"
  BY DEF EnginePhases
<1>2. DOMAIN state_machines = Begun(history, s)
  BY MachinesAreBegun
<1>3. CountAt(id_counter, history, s)
  <2>1. id_counter \in Nat
    BY DEF IInv, ManagerInv, MachinesInv
  <2>2. \A k \in 0..(id_counter - 1) : \E id \in Begun(history, s) : id.id = k
    BY <1>2 DEF NumbersInv
  <2>3. \A id \in Begun(history, s) : id.id < id_counter
    BY <1>2 DEF IInv, ManagerInv, MachinesInv, FreshIds
  <2> QED BY <2>1, <2>2, <2>3 DEF CountAt
<1>4. OrderAt(order, history, s)
  BY <1>2, SeqIsSeq DEF OrderAt, IInv, ManagerInv, MachinesInv, OrderIsKeys
<1>5. MachinesAt(state_machines, history, s)
  <2>1. state_machines = [id \in Begun(history, s) |-> state_machines[id]]
    BY <1>2 DEF RequestsInv
  <2>2. ASSUME NEW id \in Begun(history, s) PROVE MachineAt(history, s, id, state_machines[id])
    <3>1. id \in DOMAIN state_machines \ {COMPLETION_ID} /\ Silent(id)
      BY <1>2, <2>2 DEF Settled
    <3> QED BY <1>1, <3>1, MachineIsHistory
  <2> QED BY <2>1, <2>2 DEF MachinesAt
<1> QED BY <1>3, <1>4, <1>5 DEF ViewAt

\* When the input of a batch is handled, so is all that is before the batch's task.
LEMMA HandledBeforeTheRun ==
    ASSUME IInv, HistoryInv, EngineStateInv, AckInv, ReplayedInv, phase = "input", todo = << >>
    PROVE  LET s == IF batch.replay THEN First - 2 ELSE First - 1
           IN  /\ s \in DOMAIN history /\ history[s].type = "DecisionTaskStarted"
               /\ Applied = {i \in 1..s : HasHandler(i)}
               /\ ~batch.replay => s = Len(history)
               /\ batch.replay => history[s + 1].type = "DecisionTaskCompleted" /\ s + 1 = First - 1
<1>1. InBatch /\ phase \in EnginePhases /\ PlaceInv
  BY DEF InBatch, EnginePhases, EngineStateInv
<1>2. PICK f \in Nat \ {0}, l \in Nat :
          /\ f = First /\ l = Len(batch.output) /\ pos = f + l /\ DOMAIN batch.output = 1..l
          /\ \A k \in 1..l : batch.output[k] = f + k - 1
  BY <1>1, OutputPlaces
<1>3. PICK n \in Nat : n = Len(history) /\ DOMAIN history = 1..n
  BY LenProperties DEF IInv, ServiceInv, IsSeq
<1>4. pos <= n + 1
  BY <1>1, <1>3 DEF PlaceInv, PosInv
<1>5. PICK s : s = IF batch.replay THEN f - 2 ELSE f - 1
  OBVIOUS
<1>6. /\ s \in DOMAIN history /\ history[s].type = "DecisionTaskStarted"
      /\ ~batch.replay => s = n
      /\ batch.replay => history[s + 1].type = "DecisionTaskCompleted" /\ s + 1 = f - 1
  <2>1. CASE batch.replay
    <3>1. f - 1 # 0 /\ history[f - 1].type = "DecisionTaskCompleted" /\ f >= 3
      BY <1>1, <1>2, <2>1 DEF ReplayedInv
    <3>2. PICK r \in DOMAIN history :
              history[r].type = "DecisionTaskStarted" /\ (f = r + 1 \/ f = r + 2)
      BY <1>1, <1>2 DEF PlaceInv, BatchInv
    <3>3. f # r + 1
      BY <1>3, <3>1, <3>2
    <3>4. r = f - 2
      BY <1>3, <3>2, <3>3
    <3>5. s = r /\ s + 1 = f - 1
      BY <1>2, <1>5, <2>1, <3>4
    <3> QED BY <2>1, <3>1, <3>2, <3>5
  <2>2. CASE ~batch.replay
    <3>1. batch.output = << >> /\ pos > n
      BY <1>1, <1>3, <2>2 DEF PlaceInv, BatchInv, AckInv, LiveIsLast
    <3>2. l = 0
      BY <1>2, <3>1, EmptyIsSeq
    <3>3. f = n + 1
      BY <1>2, <1>3, <1>4, <3>1, <3>2
    <3>4. n # 0 /\ history[n].type = "DecisionTaskStarted"
      BY <1>3 DEF HistoryInv, PhaseInv
    <3>5. s = n
      BY <1>3, <1>5, <2>2, <3>3
    <3> QED BY <1>3, <2>2, <3>4, <3>5
  <2> QED BY <2>1, <2>2
<1>7. Pending = Elems(batch.output)
  <2>1. Elems(todo) = {}
    BY EmptyIsSeq DEF Elems
  <2> QED BY <2>1 DEF Pending
<1>8. \A i : i \in Elems(batch.output) <=> \E k \in 1..l : i = f + k - 1
  BY <1>2 DEF Elems
<1>9. \A i \in 1..(pos - 1) : i \in Elems(batch.output) <=> i >= f
  <2>1. ASSUME NEW i \in 1..(pos - 1), i >= f PROVE \E k \in 1..l : i = f + k - 1
    <3>1. i - f + 1 \in 1..l /\ i = f + (i - f + 1) - 1
      BY <1>2, <2>1
    <3> QED BY <3>1
  <2>2. \A k \in 1..l : f + k - 1 >= f
    BY <1>2
  <2> QED BY <1>8, <2>1, <2>2
<1>10. Applied = {i \in 1..(f - 1) : HasHandler(i)}
  <2>1. \A i : i \in 1..(f - 1) <=> i \in 1..(pos - 1) /\ ~(i >= f)
    BY <1>2
  <2> QED BY <1>7, <1>9, <2>1 DEF Applied
<1>11. {i \in 1..(f - 1) : HasHandler(i)} = {i \in 1..s : HasHandler(i)}
  <2>1. CASE batch.replay
    <3>1. ~HasHandler(s + 1)
      BY <1>6, <2>1 DEF HasHandler, type_to_action
    <3>2. \A i : i \in 1..(f - 1) <=> i \in 1..s \/ i = s + 1
      BY <1>2, <1>3, <1>6, <2>1
    <3> QED BY <3>1, <3>2
  <2>2. CASE ~batch.replay
    BY <1>5, <2>2
  <2> QED BY <2>1, <2>2
<1> QED BY <1>2, <1>3, <1>5, <1>6, <1>10, <1>11

\* The code of a batch finds what history makes of the events before its task.
LEMMA RunSeesHistory ==
    ASSUME ~ImmediateCancel, IInv, LastInv, HistoryInv, EngineStateInv, FuturesInv, Unwinds, AckInv, NumbersInv,
           RunsOn, FollowInv, ReplayedInv, FirstInv, WordInv, phase = "input", todo = << >>,
           NEW s, s = IF batch.replay THEN First - 2 ELSE First - 1,
           NEW v, v = << id_counter, order, state_machines, task >>
    PROVE  /\ s \in DOMAIN history /\ ViewAt(v, history, s)
           /\ ~batch.replay => s = Len(history)
           /\ batch.replay => history[s + 1].type = "DecisionTaskCompleted" /\ s + 1 = First - 1
<1>1. /\ s \in DOMAIN history /\ history[s].type = "DecisionTaskStarted"
      /\ Applied = {i \in 1..s : HasHandler(i)}
      /\ ~batch.replay => s = Len(history)
      /\ batch.replay => history[s + 1].type = "DecisionTaskCompleted" /\ s + 1 = First - 1
  BY HandledBeforeTheRun
<1>2. InBatch /\ phase \in EnginePhases
  BY DEF InBatch, EnginePhases
<1>3. task = "running" /\ COMPLETION_ID \notin DOMAIN state_machines
  <2>1. task # "none"
    <3>1. Elems(todo) = {}
      BY EmptyIsSeq DEF Elems
    <3> QED BY <3>1 DEF FirstInv
  <2>2. task \notin Outcomes /\ task # "FatalDecisionError"
    BY <1>2 DEF RunsOn, EngineStateInv, FatalInv
  <2> QED BY <2>1, <2>2 DEF IInv, EngineInv, LastInv, CompletionInv
<1>4. PICK A : A = Applied
  OBVIOUS
<1>5. Agree(A) /\ FuturesAgree(A) /\ StatesFollow(A) /\ PropsFollow(A)
  BY <1>2, <1>4 DEF EngineStateInv, AgreeInv, Agree, AliasesAgree, EventsAgree, StatesAgree, FuturesInv,
                    FuturesAgree, FollowInv, FollowedInv, StatesFollow, PropsFollow
<1>6. Settled /\ RequestsInv /\ KeysInv
  BY DEF AckInv, Unwinds, FollowInv, LastInv
<1>7. InWordOrder(order, history, s)
  <2>1. InWordOrder(order, history, First - 1)
    BY DEF WordInv
  <2>2. CASE ~batch.replay
    BY <2>1, <2>2
  <2>3. CASE batch.replay
    <3>1. PICK n \in Nat : n = s
      <4>1. Len(history) \in Nat /\ DOMAIN history = 1..Len(history)
        BY LenProperties DEF IInv, ServiceInv, IsSeq
      <4> QED BY <1>1, <4>1
    <3>2. PICK m \in Nat : m = n + 1
      OBVIOUS
    <3>3. First - 1 = m
      BY <1>1, <2>3, <3>1, <3>2
    <3>4. ~Said(history[m])
      BY <1>1, <2>3, <3>1, <3>2 DEF Said, StartTypes, CancelTypes
    <3>5. n <= m /\ \A i \in (n + 1)..m : ~Said(history[i])
      BY <3>2, <3>4
    <3>6. \A i : LastWord(history, m, i) <=> LastWord(history, n, i)
      BY <3>5, WordsStay
    <3>7. \A i \in 1..n : i \in 1..m
      BY <3>2
    <3>8. InWordOrder(order, history, m)
      BY <2>1, <3>3
    <3>9. InWordOrder(order, history, n)
      BY <3>6, <3>7, <3>8 DEF InWordOrder
    <3> QED BY <3>1, <3>9
  <2> QED BY <2>2, <2>3
<1>8. ViewAt(v, history, s)
  BY <1>1, <1>2, <1>3, <1>4, <1>5, <1>6, <1>7, FoundIsHistory
<1> QED BY <1>1, <1>8

-----------------------------------------------------------------------------
(* Replay rebuilds the past                                                *)

\* Until its answer is recorded, the view is what history makes of the events
\* before it.
LiveView ==
    /\ /\ phase \in {"next", "run", "complete", "end", "output"} /\ ~batch.replay
       /\ phase = "next" => pos > Len(history)
       => ViewAt(view, history, Len(history))
    /\ phase = "respond" => ViewAt(view, history, Len(history))
    /\ phase = "record" =>
           \E d \in DOMAIN history :
               /\ history[d].type = "DecisionTaskCompleted"
               /\ \A i \in (d + 1)..Len(history) : history[i].type # "DecisionTaskCompleted"
               /\ ViewAt(view, history, d - 1)

\* The answers up to a place in history.
AnswersTo(h, d) == {i \in 1..d : h[i].type = "DecisionTaskCompleted"}

\* What was found by the code that ran first is in the script, with its answer.
ViewsInv ==
    \A d \in DOMAIN history : \A k \in DOMAIN script :
        /\ history[d].type = "DecisionTaskCompleted"
        /\ Cardinality(AnswersTo(history, d)) = k
        => ViewAt(script[k].view, history, d - 1)

\* What was found is found in a history that has grown since.
LEMMA ViewIsKept ==
    ASSUME IInv, HistoryInv, ServiceNext, NEW n \in Nat, n <= Len(history), NEW v, ViewAt(v, history, n)
    PROVE  ViewAt(v, history', n)
<1>1. Len(history) \in Nat /\ DOMAIN history = 1..Len(history)
  BY LenProperties DEF IInv, ServiceInv, IsSeq
<1>2. \A i \in 1..n : i \in DOMAIN history
  BY <1>1
<1>3. PICK g : g = history'
  OBVIOUS
<1>4. \A i \in 1..n : g[i] = history[i]
  BY <1>2, <1>3, HistoryIsKept
<1>5. \A i \in 1..n : Follows(history, i - 1, history[i])
  BY <1>2 DEF HistoryInv, WrittenInv, Written
<1>6. ViewAt(v, g, n)
  BY <1>4, <1>5, ViewStays
<1> QED BY <1>3, <1>6

\* The code that runs first finds what history makes of the events before its
\* task, and that is what is kept until the answer is recorded.
LEMMA WorkerKeepsView ==
    ASSUME ~ImmediateCancel, Deterministic, IInv, LastInv, HistoryInv, EngineStateInv, FuturesInv, Unwinds,
           AckInv, NumbersInv, RunsOn, FollowInv, ReplayedInv, FirstInv, WordInv, LiveView, EngineNext \/ WorkflowNext
    PROVE  LiveView'
<1>1. UNCHANGED history /\ phase \in EnginePhases /\ phase' \notin {"idle", "record"}
  BY WorkerWritesNothing
<1>2. ASSUME UNCHANGED << view, batch, pos >>, phase \in {"run", "complete", "end", "output"}, phase' # "respond"
      PROVE  LiveView'
  BY <1>1, <1>2 DEF LiveView
<1>3. ASSUME phase' \in {"input", "failed"} PROVE LiveView'
  BY <1>3 DEF LiveView
<1>4. CASE WorkflowNext
  <2>1. UNCHANGED << view, batch, pos >> /\ phase = "run" /\ phase' \in {"run", "complete"}
    <3>1. ASSUME NEW op, Calls(op) PROVE UNCHANGED << view, batch, pos, phase >> /\ phase = "run"
      BY <3>1 DEF Calls
    <3>2. ASSUME NEW id, AutomaticCancel(id) PROVE UNCHANGED << view, batch, pos, phase >> /\ phase = "run"
      BY <3>2 DEF AutomaticCancel, engineVars, userVars
    <3>3. ASSUME Yield PROVE UNCHANGED << view, batch, pos >> /\ phase = "run" /\ phase' = "complete"
      BY <3>3 DEF Yield, userVars
    <3>4. ASSUME RejectionUnwinds PROVE UNCHANGED << view, batch, pos, phase >> /\ phase = "run"
      BY <3>4 DEF RejectionUnwinds, userVars
    <3> QED BY <1>4, <3>1, <3>2, <3>3, <3>4
        DEF WorkflowNext, ExecuteActivity, StartTimer, CancelFuture, Return, continue_as_new, Ends
  <2> QED BY <1>2, <2>1
<1>5. CASE NextDecisionEvents \/ ApplyInputEvent
  <2>1. phase' \in {"input", "failed"}
    BY <1>5 DEF NextDecisionEvents, ApplyInputEvent, Continue
  <2> QED BY <1>3, <2>1
<1>6. CASE CollectDecisions
  <2>1. phase = "next" /\ phase' = "respond" /\ Exhausted(history, pos) /\ UNCHANGED << view >>
    BY <1>6 DEF CollectDecisions, userVars
  <2>2. pos \in Nat /\ IsSeq(history) /\ Len(history) \in Nat
    BY LenProperties DEF IInv, ServiceInv, IsSeq
  <2>3. Len(history) # 0 /\ history[Len(history)].type = "DecisionTaskStarted"
    BY <2>1 DEF HistoryInv, PhaseInv
  <2>4. pos > Len(history)
    BY <2>1, <2>2, <2>3, ExhaustedAtTheEnd
  <2>5. ~batch.replay
    BY <1>1, <2>2, <2>4 DEF ReplayedInv
  <2>6. ViewAt(view, history, Len(history))
    BY <2>1, <2>4, <2>5 DEF LiveView
  <2> QED BY <1>1, <2>1, <2>6 DEF LiveView
<1>7. CASE StartRun
  <2>1. /\ phase = "input" /\ todo = << >> /\ phase' = "run" /\ UNCHANGED batch
        /\ view' = << id_counter, order, state_machines, task >>
    BY <1>7 DEF StartRun
  <2>2. PICK s, v : /\ s = IF batch.replay THEN First - 2 ELSE First - 1
                    /\ v = << id_counter, order, state_machines, task >>
    OBVIOUS
  <2>3. ViewAt(v, history, s) /\ (~batch.replay => s = Len(history))
    BY <2>1, <2>2, RunSeesHistory
  <2>4. ~batch.replay => ViewAt(view', history, Len(history))
    BY <2>1, <2>2, <2>3
  <2> QED BY <1>1, <2>1, <2>4 DEF LiveView
<1>8. CASE MaybeCompleteWorkflow \/ EndExecution \/ ApplyOutputEvent \/ FinishBatch
  <2>1. UNCHANGED << view, batch, pos >> /\ phase \in {"complete", "end", "output"} /\ phase' # "respond"
    BY <1>8 DEF MaybeCompleteWorkflow, EndExecution, ApplyOutputEvent, FinishBatch, Continue, userVars
  <2> QED BY <1>2, <2>1
<1> QED BY <1>4, <1>5, <1>6, <1>7, <1>8 DEF EngineNext

\* An answer that is taken is the only step of the service that writes a mark.
Takes == RespondDecisionTaskCompleted /\ history' = Append(history, Event("DecisionTaskCompleted"))

\* The mark comes behind all that was there, and nothing else changes.
LEMMA TakenMark ==
    ASSUME IInv, HistoryInv, DecisionsInv, Takes
    PROVE  /\ phase = "respond" /\ phase' = "record" /\ UNCHANGED << view, script >>
           /\ \E n \in Nat : /\ n = Len(history) /\ DOMAIN history = 1..n /\ DOMAIN history' = 1..(n + 1)
                             /\ Len(history') = n + 1
                             /\ history'[n + 1].type = "DecisionTaskCompleted"
<1>1. IsSeq(history) /\ IsSeq(buffered)
  BY DEF IInv, ServiceInv
<1>2. PICK n : n = Len(history)
  OBVIOUS
<1>3. PICK g, e : e = Event("DecisionTaskCompleted") /\ g = Append(history, e)
  OBVIOUS
<1>4. /\ n \in Nat /\ DOMAIN history = 1..n
      /\ IsSeq(g) /\ Len(g) = n + 1 /\ DOMAIN g = 1..(n + 1)
      /\ g[n + 1] = e
      /\ \A i \in 1..n : g[i] = history[i]
  BY <1>1, <1>2, <1>3, AppendPositions
<1>5. history' = g /\ e.type = "DecisionTaskCompleted"
  BY <1>3 DEF Takes, Event
<1>6. phase = "respond" /\ (Unsuccessfully("DecisionTaskFailed") \/ (phase' = "record" /\ UNCHANGED userVars))
  BY DEF Takes, RespondDecisionTaskCompleted
<1>7. ~Unsuccessfully("DecisionTaskFailed")
  <2> SUFFICES ASSUME Unsuccessfully("DecisionTaskFailed") PROVE FALSE
    OBVIOUS
  <2>1. PICK f : f = Event("DecisionTaskFailed")
    OBVIOUS
  <2>2. PICK k : k = Append(history, f)
    OBVIOUS
  <2>3. IsSeq(k) /\ Len(k) = n + 1 /\ DOMAIN k = 1..(n + 1) /\ k[n + 1] = f
    <3>1. /\ n \in Nat /\ DOMAIN history = 1..n
          /\ IsSeq(k) /\ Len(k) = n + 1 /\ DOMAIN k = 1..(n + 1)
          /\ k[n + 1] = f
          /\ \A i \in 1..n : k[i] = history[i]
      BY <1>1, <1>2, <2>2, AppendPositions
    <3> QED BY <3>1
  <2>4. history' = k \o buffered
    <3>1. history \o << f >> = k
      BY <1>1, <2>2, AppendIsBehind
    <3> QED BY <2>1, <3>1 DEF Unsuccessfully
  <2>5. (k \o buffered)[n + 1] = k[n + 1]
    <3>1. \A i \in DOMAIN k : (k \o buffered)[i] = k[i]
      BY <1>1, <2>3, ConcatPositions
    <3>2. n + 1 \in DOMAIN k
      BY <1>4, <2>3
    <3> QED BY <3>1, <3>2
  <2>6. g[n + 1] = f
    BY <1>5, <2>3, <2>4, <2>5
  <2>7. f.type = "DecisionTaskFailed"
    BY <2>1 DEF Event
  <2> QED BY <1>4, <1>5, <2>6, <2>7
<1>8. phase' = "record" /\ UNCHANGED << view, script >>
  BY <1>6, <1>7 DEF userVars
<1> QED BY <1>2, <1>4, <1>5, <1>6, <1>8

\* In a history that grew by no mark, the marks and what comes before them are
\* where they were.
LEMMA OldAnswers ==
    ASSUME NEW h, NEW g, IsSeq(h), IsSeq(g),
           \A i \in DOMAIN h : i \in DOMAIN g /\ g[i] = h[i],
           AnswersFrom(g, 1) = AnswersFrom(h, 1)
    PROVE  \A d \in DOMAIN g : g[d].type = "DecisionTaskCompleted" =>
               /\ d \in DOMAIN h /\ h[d].type = "DecisionTaskCompleted"
               /\ AnswersTo(g, d) = AnswersTo(h, d)
<1>1. PICK n \in Nat : n = Len(h) /\ DOMAIN h = 1..n
  BY LenProperties DEF IsSeq
<1>2. PICK m \in Nat : m = Len(g) /\ DOMAIN g = 1..m
  BY LenProperties DEF IsSeq
<1>3. \A d \in DOMAIN g : g[d].type = "DecisionTaskCompleted" =>
          d \in 1..n /\ d \in DOMAIN h /\ h[d].type = "DecisionTaskCompleted"
  BY <1>1, <1>2 DEF AnswersFrom
<1>4. ASSUME NEW d \in 1..n PROVE AnswersTo(g, d) = AnswersTo(h, d)
  <2>1. \A i \in 1..d : g[i] = h[i]
    BY <1>1
  <2> QED BY <2>1 DEF AnswersTo
<1> QED BY <1>3, <1>4

\* What the service writes is behind the events the view is of.
LEMMA ServiceKeepsView ==
    ASSUME IInv, IInv', HistoryInv, DecisionsInv, EngineStateInv, FirstInv, LiveView, ServiceNext
    PROVE  LiveView'
<1>1. PICK n \in Nat : n = Len(history) /\ DOMAIN history = 1..n
  BY LenProperties DEF IInv, ServiceInv, IsSeq
<1>2. \A i \in DOMAIN history : i \in DOMAIN history' /\ history'[i] = history[i]
  BY HistoryIsKept
<1>3. CASE Takes
  <2>1. /\ phase = "respond" /\ phase' = "record" /\ UNCHANGED << view, script >>
        /\ \E m \in Nat : /\ m = Len(history) /\ DOMAIN history = 1..m /\ DOMAIN history' = 1..(m + 1)
                          /\ Len(history') = m + 1
                          /\ history'[m + 1].type = "DecisionTaskCompleted"
    BY <1>3, TakenMark
  <2>2. /\ DOMAIN history' = 1..(n + 1) /\ Len(history') = n + 1
        /\ history'[n + 1].type = "DecisionTaskCompleted"
    BY <1>1, <2>1
  <2>3. ViewAt(view, history, n)
    BY <1>1, <2>1 DEF LiveView
  <2>4. ViewAt(view, history', n)
    <3>1. n <= Len(history)
      BY <1>1
    <3> QED BY <2>3, <3>1, ViewIsKept
  <2>5. n + 1 \in DOMAIN history' /\ \A i \in (n + 1 + 1)..(n + 1) : FALSE
    BY <2>2
  <2>6. n + 1 - 1 = n
    OBVIOUS
  <2>7. ViewAt(view', history', n + 1 - 1)
    BY <2>1, <2>4, <2>6
  <2>8. PICK d : d = n + 1
    OBVIOUS
  <2>9. /\ d \in DOMAIN history' /\ history'[d].type = "DecisionTaskCompleted"
        /\ \A i \in (d + 1)..Len(history') : history'[i].type # "DecisionTaskCompleted"
        /\ ViewAt(view', history', d - 1)
    BY <2>2, <2>5, <2>7, <2>8
  <2> QED BY <2>1, <2>9 DEF LiveView
<1>4. CASE ~Takes
  <2>1. AnswersFrom(history', 1) = AnswersFrom(history, 1)
    BY <1>4, ServiceAnswers DEF Takes
  <2>2. CASE PollDecisionTask
    <3>1. phase' = "next" /\ pos' = 1
      BY <2>2 DEF PollDecisionTask, EngineStateInv, IdleInv
    <3>2. Len(history') \in Nat /\ DOMAIN history' = 1..Len(history')
      BY LenProperties DEF IInv, ServiceInv, IsSeq
    <3>3. 1 \in DOMAIN history'
      BY <1>1, <1>2 DEF FirstInv
    <3>4. ~(pos' > Len(history'))
      BY <3>1, <3>2, <3>3
    <3> QED BY <3>1, <3>4 DEF LiveView
  <2>3. CASE FinishDecisionTask
    BY <2>3 DEF FinishDecisionTask, DropEngine, LiveView
  <2>4. CASE ~PollDecisionTask /\ ~FinishDecisionTask
    <3>1. /\ phase' \notin EnginePhases /\ (phase' = "record" <=> phase = "record")
          /\ UNCHANGED script
          /\ \/ UNCHANGED << ops, replayed, phase, view, state_machines, task >>
             \/ /\ phase' = "idle" /\ ops' = << >> /\ replayed' = 0 /\ view' = << >>
                /\ state_machines' = << >> /\ task' = "none"
      BY <1>4, <2>4, ServiceKeepsTheRest DEF Takes
    <3>2. phase' = "respond" => UNCHANGED history
      <4>1. ASSUME NEW events, Arrive(events) PROVE phase = "respond" => UNCHANGED history
        BY <4>1 DEF Arrive
      <4>2. ASSUME NEW type, Unsuccessfully(type) PROVE phase' # "respond"
        BY <4>2 DEF Unsuccessfully, DropEngine
      <4> QED BY <3>1, <4>1, <4>2 DEF ServiceNext, ActivityCloses, TimerFires, SignalArrives, PollDecisionTask,
                            DecisionTaskTimesOut, RespondDecisionTaskFailed, RespondDecisionTaskCompleted,
                            RecordDecision, FinishDecisionTask, DropEngine, engineVars, userVars
    <3>3. CASE phase' = "respond"
      BY <3>1, <3>2, <3>3 DEF LiveView
    <3>4. CASE phase' = "record"
      <4>1. phase = "record" /\ UNCHANGED view
        BY <3>1, <3>4
      <4>2. PICK d \in DOMAIN history :
                /\ history[d].type = "DecisionTaskCompleted"
                /\ \A i \in (d + 1)..Len(history) : history[i].type # "DecisionTaskCompleted"
                /\ ViewAt(view, history, d - 1)
        BY <4>1 DEF LiveView
      <4>3. d - 1 \in Nat /\ d - 1 <= Len(history)
        BY <1>1
      <4>4. ViewAt(view, history', d - 1)
        BY <4>2, <4>3, ViewIsKept
      <4>5. d \in DOMAIN history' /\ history'[d].type = "DecisionTaskCompleted"
        BY <1>2, <4>2
      <4>6. PICK g : g = history'
        OBVIOUS
      <4>7. IsSeq(history) /\ IsSeq(g) /\ AnswersFrom(g, 1) = AnswersFrom(history, 1)
        BY <2>1, <4>6 DEF IInv, ServiceInv
      <4>8. PICK m \in Nat : m = Len(g) /\ DOMAIN g = 1..m
        BY <4>7, LenProperties DEF IsSeq
      <4>9. \A i \in DOMAIN g : g[i].type = "DecisionTaskCompleted" =>
                i \in DOMAIN history /\ history[i].type = "DecisionTaskCompleted"
        <5>1. \A i \in DOMAIN history : i \in DOMAIN g /\ g[i] = history[i]
          BY <1>2, <4>6
        <5>2. \A k \in DOMAIN g : g[k].type = "DecisionTaskCompleted" =>
                  /\ k \in DOMAIN history /\ history[k].type = "DecisionTaskCompleted"
                  /\ AnswersTo(g, k) = AnswersTo(history, k)
          BY <4>7, <5>1, OldAnswers
        <5> QED BY <5>2
      <4>10. \A i \in (d + 1)..m : g[i].type # "DecisionTaskCompleted"
        <5> SUFFICES ASSUME NEW i \in (d + 1)..m, g[i].type = "DecisionTaskCompleted" PROVE FALSE
          OBVIOUS
        <5>1. d \in Nat
          BY <1>1
        <5>2. i \in 1..m
          BY <4>8, <5>1
        <5>3. i \in 1..n /\ history[i].type = "DecisionTaskCompleted"
          BY <1>1, <4>8, <4>9, <5>2
        <5>4. i \in (d + 1)..n
          BY <5>1, <5>3
        <5> QED BY <1>1, <4>2, <5>3, <5>4
      <4>11. \A i \in (d + 1)..Len(history') : history'[i].type # "DecisionTaskCompleted"
        BY <4>6, <4>8, <4>10
      <4> QED BY <3>4, <4>1, <4>4, <4>5, <4>11 DEF LiveView
    <3>5. CASE phase' \notin {"respond", "record"}
      BY <3>1, <3>5 DEF LiveView, EnginePhases
    <3> QED BY <3>3, <3>4, <3>5
  <2> QED BY <2>2, <2>3, <2>4
<1> QED BY <1>3, <1>4

\* What was found by the code that ran first is kept with every answer.
LEMMA ServiceKeepsViews ==
    ASSUME Deterministic, IInv, IInv', HistoryInv, DecisionsInv, EngineStateInv, ScriptInv, LiveView, ViewsInv,
           ServiceNext
    PROVE  ViewsInv'
<1>1. PICK n \in Nat : n = Len(history) /\ DOMAIN history = 1..n
  BY LenProperties DEF IInv, ServiceInv, IsSeq
<1>2. \A i \in DOMAIN history : i \in DOMAIN history' /\ history'[i] = history[i]
  BY HistoryIsKept
<1>3. PICK g : g = history'
  OBVIOUS
<1>4. IsSeq(history) /\ IsSeq(g)
  BY <1>3 DEF IInv, ServiceInv
<1>5. PICK m \in Nat : m = Len(script) /\ DOMAIN script = 1..m /\ IsSeq(script)
  BY LenProperties DEF ScriptInv, IsSeq
<1>6. \A d \in 1..n : \A k \in 1..m :
          history[d].type = "DecisionTaskCompleted" /\ Cardinality(AnswersTo(history, d)) = k
          => ViewAt(script[k].view, g, d - 1)
  <2> SUFFICES ASSUME NEW d \in 1..n, NEW k \in 1..m, history[d].type = "DecisionTaskCompleted",
                      Cardinality(AnswersTo(history, d)) = k
               PROVE  ViewAt(script[k].view, g, d - 1)
    OBVIOUS
  <2>1. ViewAt(script[k].view, history, d - 1)
    BY <1>1, <1>5 DEF ViewsInv
  <2>2. d - 1 \in Nat /\ d - 1 <= Len(history)
    BY <1>1
  <2> QED BY <1>3, <2>1, <2>2, ViewIsKept
<1>7. CASE Takes
  <2>1. /\ phase = "respond" /\ phase' = "record" /\ UNCHANGED << view, script >>
        /\ \E l \in Nat : /\ l = Len(history) /\ DOMAIN history = 1..l /\ DOMAIN history' = 1..(l + 1)
                          /\ Len(history') = l + 1
                          /\ history'[l + 1].type = "DecisionTaskCompleted"
    BY <1>7, TakenMark
  <2>2. DOMAIN g = 1..(n + 1) /\ Len(g) = n + 1 /\ \A i \in 1..n : g[i] = history[i]
    BY <1>1, <1>2, <1>3, <2>1
  <2>3. Cardinality(AnswersTo(g, n + 1)) = m + 1
    <3>1. AnswersTo(g, n + 1) = AnswersFrom(g, 1)
      BY <2>2 DEF AnswersTo, AnswersFrom
    <3>2. Event("DecisionTaskCompleted").type = "DecisionTaskCompleted"
      BY DEF Event
    <3>3. Cardinality(AnswersFrom(g, 1)) = Cardinality(AnswersFrom(history, 1)) + 1
      BY <1>3, <1>4, <1>7, <3>2, OneAnswerMore DEF Takes
    <3>4. Cardinality(AnswersFrom(history, 1)) = m + 0
      BY <1>5, <2>1 DEF ScriptInv
    <3> QED BY <1>5, <3>1, <3>3, <3>4
  <2>4. ASSUME NEW d \in DOMAIN g, NEW k \in 1..m, g[d].type = "DecisionTaskCompleted",
               Cardinality(AnswersTo(g, d)) = k
        PROVE  ViewAt(script[k].view, g, d - 1)
    <3>1. d # n + 1
      BY <1>5, <2>3, <2>4
    <3>2. d \in 1..n
      BY <2>2, <3>1
    <3>3. AnswersTo(g, d) = AnswersTo(history, d)
      <4>1. \A i \in 1..d : g[i] = history[i]
        BY <2>2, <3>2
      <4> QED BY <4>1 DEF AnswersTo
    <3> QED BY <1>6, <2>2, <2>4, <3>2, <3>3
  <2>5. script' = script /\ DOMAIN script' = 1..m /\ history' = g
    BY <1>3, <1>5, <2>1
  <2> QED BY <2>4, <2>5 DEF ViewsInv
<1>8. CASE ~Takes
  <2>1. AnswersFrom(g, 1) = AnswersFrom(history, 1)
    BY <1>3, <1>8, ServiceAnswers DEF Takes
  <2>2. \A d \in DOMAIN g : g[d].type = "DecisionTaskCompleted" =>
            /\ d \in DOMAIN history /\ history[d].type = "DecisionTaskCompleted"
            /\ AnswersTo(g, d) = AnswersTo(history, d)
    <3>1. \A i \in DOMAIN history : i \in DOMAIN g /\ g[i] = history[i]
      BY <1>2, <1>3
    <3> QED BY <1>4, <2>1, <3>1, OldAnswers
  <2>3. ASSUME NEW d \in DOMAIN g, NEW k \in 1..m, g[d].type = "DecisionTaskCompleted",
               Cardinality(AnswersTo(g, d)) = k
        PROVE  ViewAt(script[k].view, g, d - 1)
    BY <1>1, <1>6, <2>2, <2>3
  <2>4. CASE FinishDecisionTask
    <3>1. /\ phase = "record"
          /\ script' = Append(script, [view |-> view, ops |-> ops])
      BY <2>4 DEF FinishDecisionTask
    <3>2. PICK x, s : x = [view |-> view, ops |-> ops] /\ s = Append(script, x)
      OBVIOUS
    <3>3. x.view = view
      BY <3>2
    <3>4. DOMAIN s = 1..(m + 1) /\ s[m + 1] = x /\ \A k \in 1..m : s[k] = script[k]
      <4>1. /\ m \in Nat /\ DOMAIN script = 1..m
            /\ IsSeq(s) /\ Len(s) = m + 1 /\ DOMAIN s = 1..(m + 1)
            /\ s[m + 1] = x
            /\ \A k \in 1..m : s[k] = script[k]
        BY <1>5, <3>2, AppendPositions
      <4> QED BY <4>1
    <3>5. PICK e \in DOMAIN history :
              /\ history[e].type = "DecisionTaskCompleted"
              /\ \A i \in (e + 1)..Len(history) : history[i].type # "DecisionTaskCompleted"
              /\ ViewAt(view, history, e - 1)
      BY <3>1 DEF LiveView
    <3>6. e \in 1..n /\ \A i \in (e + 1)..n : history[i].type # "DecisionTaskCompleted"
      BY <1>1, <3>5
    <3>7. PICK A : A = AnswersFrom(history, 1)
      OBVIOUS
    <3>8. Cardinality(A) = m + 1
      BY <1>5, <3>1, <3>7 DEF ScriptInv
    <3>9. A \subseteq 1..n /\ IsFiniteSet(A) /\ e \in A
      <4>1. A \subseteq 1..n /\ e \in A
        BY <1>1, <3>5, <3>6, <3>7 DEF AnswersFrom
      <4>2. IsFiniteSet(1..n)
        BY FS_Interval
      <4> QED BY <4>1, <4>2, FS_Subset
    <3>10. ASSUME NEW d \in 1..n, history[d].type = "DecisionTaskCompleted",
                  Cardinality(AnswersTo(history, d)) = m + 1
           PROVE  d = e
      <4>1. d <= e
        BY <3>6, <3>10
      <4>2. SUFFICES ASSUME d < e PROVE FALSE
        BY <3>6, <4>1
      <4>3. PICK B : B = AnswersTo(history, d)
        OBVIOUS
      <4>4. B \subseteq A \ {e}
        BY <1>1, <3>6, <3>7, <4>2, <4>3 DEF AnswersTo, AnswersFrom
      <4>5. IsFiniteSet(A \ {e}) /\ Cardinality(A \ {e}) = Cardinality(A) - 1
        BY <3>9, FS_RemoveElement
      <4>6. Cardinality(A \ {e}) = m
        BY <3>8, <4>5
      <4>7. IsFiniteSet(B) /\ Cardinality(B) <= m
        BY <4>4, <4>5, <4>6, FS_Subset
      <4> QED BY <3>10, <4>3, <4>7
    <3>11. ViewAt(view, g, e - 1)
      <4>1. e - 1 \in Nat /\ e - 1 <= Len(history)
        BY <1>1, <3>6
      <4> QED BY <1>3, <3>5, <4>1, ViewIsKept
    <3>12. ASSUME NEW d \in DOMAIN g, NEW k \in 1..(m + 1), g[d].type = "DecisionTaskCompleted",
                  Cardinality(AnswersTo(g, d)) = k
           PROVE  ViewAt(s[k].view, g, d - 1)
      <4>1. CASE k \in 1..m
        BY <2>3, <3>4, <3>12, <4>1
      <4>2. CASE k = m + 1
        <5>1. d = e
          BY <1>1, <2>2, <3>10, <3>12, <4>2
        <5>2. s[k].view = view
          BY <3>3, <3>4, <4>2
        <5> QED BY <3>11, <5>1, <5>2
      <4>3. k \in 1..m \/ k = m + 1
        OBVIOUS
      <4> QED BY <4>1, <4>2, <4>3
    <3>13. script' = s /\ DOMAIN script' = 1..(m + 1) /\ history' = g
      BY <1>3, <3>1, <3>2, <3>4
    <3> QED BY <3>12, <3>13 DEF ViewsInv
  <2>5. CASE ~FinishDecisionTask
    <3>1. UNCHANGED script
      <4>1. CASE PollDecisionTask
        BY <4>1 DEF PollDecisionTask, userVars
      <4>2. CASE ~PollDecisionTask
        <5>1. /\ phase' \notin EnginePhases /\ (phase' = "record" <=> phase = "record")
              /\ UNCHANGED script
              /\ \/ UNCHANGED << ops, replayed, phase, view, state_machines, task >>
                 \/ /\ phase' = "idle" /\ ops' = << >> /\ replayed' = 0 /\ view' = << >>
                    /\ state_machines' = << >> /\ task' = "none"
          BY <1>8, <2>5, <4>2, ServiceKeepsTheRest DEF Takes
        <5> QED BY <5>1
      <4> QED BY <4>1, <4>2
    <3>2. script' = script /\ DOMAIN script' = 1..m /\ history' = g
      BY <1>3, <1>5, <3>1
    <3> QED BY <2>3, <3>2 DEF ViewsInv
  <2> QED BY <2>4, <2>5
<1> QED BY <1>7, <1>8

\* The batch that is replayed is the one whose answer it is behind: it has the
\* entry of that answer.
LEMMA ReplayIsOfItsAnswer ==
    ASSUME Deterministic, IInv, EngineStateInv, ScriptInv, ReplayedInv, InBatch, batch.replay
    PROVE  /\ First - 1 \in DOMAIN history /\ history[First - 1].type = "DecisionTaskCompleted"
           /\ Cardinality(AnswersTo(history, First - 1)) = replayed + 1
<1>1. PICK n \in Nat : n = Len(history) /\ DOMAIN history = 1..n
  BY LenProperties DEF IInv, ServiceInv, IsSeq
<1>2. PICK f \in Nat \ {0}, l \in Nat :
          /\ f = First /\ l = Len(batch.output) /\ pos = f + l /\ DOMAIN batch.output = 1..l
          /\ \A k \in 1..l : batch.output[k] = f + k - 1
  BY OutputPlaces DEF EngineStateInv
<1>3. PICK p \in Nat : p = pos /\ p = f + l /\ p <= n + 1
  <2>1. pos \in 1..(Len(history) + 1)
    BY DEF EngineStateInv, PlaceInv, PosInv, InBatch
  <2> QED BY <1>1, <1>2, <2>1
<1>4. f >= 3 /\ history[f - 1].type = "DecisionTaskCompleted"
  BY <1>2 DEF ReplayedInv
<1>5. \A i \in f..(p - 1) : history[i].type # "DecisionTaskCompleted"
  <2> SUFFICES ASSUME NEW i \in f..(p - 1) PROVE history[i].type # "DecisionTaskCompleted"
    OBVIOUS
  <2>1. PICK k \in 1..l : k = i - f + 1
    BY <1>2, <1>3
  <2>2. k \in DOMAIN batch.output /\ f + k - 1 = i
    BY <1>2, <1>3, <2>1
  <2>3. is_decision_event(history[First + k - 1])
    BY <2>2 DEF EngineStateInv, PlaceInv, BatchInv
  <2>4. is_decision_event(history[i])
    BY <1>2, <2>2, <2>3
  <2> QED BY <2>4 DEF is_decision_event, decision_event_types
<1>6. PICK A, B, C : /\ A = AnswersFrom(history, 1) /\ B = AnswersTo(history, f - 1)
                     /\ C = AnswersFrom(history, p)
  OBVIOUS
<1>7. /\ A \subseteq 1..n /\ \A i \in 1..n : i \in A <=> history[i].type = "DecisionTaskCompleted"
      /\ C = {i \in p..n : history[i].type = "DecisionTaskCompleted"}
      /\ B = {i \in 1..(f - 1) : history[i].type = "DecisionTaskCompleted"}
  BY <1>1, <1>6 DEF AnswersFrom, AnswersTo
<1>8. A = B \cup C
  <2>1. ASSUME NEW i \in A PROVE i \in B \/ i \in C
    <3>1. i \in 1..n /\ history[i].type = "DecisionTaskCompleted"
      BY <1>7, <2>1
    <3>2. i \notin f..(p - 1)
      BY <1>5, <3>1
    <3>3. i \in 1..(f - 1) \/ i \in p..n
      BY <1>2, <1>3, <3>1, <3>2
    <3> QED BY <1>7, <3>1, <3>3
  <2>2. ASSUME NEW i \in B \cup C PROVE i \in A
    <3>1. history[i].type = "DecisionTaskCompleted" /\ (i \in 1..(f - 1) \/ i \in p..n)
      BY <1>7, <2>2
    <3>2. i \in 1..n
      BY <1>2, <1>3, <3>1
    <3> QED BY <1>7, <3>1, <3>2
  <2> QED BY <2>1, <2>2
<1>9. B \cap C = {}
  BY <1>2, <1>3, <1>7
<1>10. IsFiniteSet(B) /\ IsFiniteSet(C)
  <2>1. B \subseteq 1..(f - 1) /\ C \subseteq p..n
    BY <1>7
  <2>2. IsFiniteSet(1..(f - 1)) /\ IsFiniteSet(p..n)
    <3>1. 1 \in Int /\ f - 1 \in Int /\ p \in Int /\ n \in Int
      BY <1>1, <1>2, <1>3
    <3> QED BY <3>1, FS_Interval
  <2> QED BY <2>1, <2>2, FS_Subset
<1>11. Cardinality(A) = Cardinality(B) + Cardinality(C)
  <2>1. Cardinality(B \cup C) = Cardinality(B) + Cardinality(C) - Cardinality(B \cap C)
    BY <1>10, FS_Union
  <2>2. Cardinality(B \cap C) = 0
    BY <1>9, FS_EmptySet
  <2>3. Cardinality(B) \in Nat /\ Cardinality(C) \in Nat
    BY <1>10, FS_CardinalityType
  <2> QED BY <1>8, <2>1, <2>2, <2>3
<1>12. Cardinality(A) = replayed + 1 + Cardinality(C)
  BY <1>3, <1>6 DEF ScriptInv, InBatch, EnginePhases
<1>13. Cardinality(B) = replayed + 1
  <2>1. PICK a, b, c : a = Cardinality(A) /\ b = Cardinality(B) /\ c = Cardinality(C)
    OBVIOUS
  <2>2. b \in Nat /\ c \in Nat /\ replayed \in Nat
    BY <1>10, <2>1, FS_CardinalityType DEF ScriptInv
  <2>3. a = b + c /\ a = replayed + 1 + c
    BY <1>11, <1>12, <2>1
  <2> QED BY <2>1, <2>2, <2>3
<1>14. f - 1 \in 1..n
  BY <1>2, <1>3, <1>4
<1> QED BY <1>1, <1>2, <1>4, <1>6, <1>13, <1>14

\* What the code of a replayed batch finds is what it found when it ran first.
LEMMA RebuiltIsKept ==
    ASSUME ~ImmediateCancel, Deterministic, IInv, LastInv, HistoryInv, EngineStateInv, FuturesInv, Unwinds, AckInv,
           NumbersInv, RunsOn, ScriptInv, FollowInv, ReplayedInv, FirstInv, WordInv, ViewsInv,
           ReplayRebuilds, Next
    PROVE  ReplayRebuilds'
<1>1. CASE ServiceNext
  <2>1. phase' # "run"
    <3>1. ASSUME NEW events, Arrive(events) PROVE phase' # "run"
      BY <3>1 DEF Arrive, engineVars
    <3>2. ASSUME NEW type, Unsuccessfully(type) PROVE phase' # "run"
      BY <3>2 DEF Unsuccessfully, DropEngine
    <3> QED BY <1>1, <3>1, <3>2 DEF ServiceNext, ActivityCloses, TimerFires, SignalArrives, PollDecisionTask,
                          DecisionTaskTimesOut, RespondDecisionTaskFailed, RespondDecisionTaskCompleted,
                          RecordDecision, FinishDecisionTask, DropEngine, engineVars
  <2> QED BY <2>1 DEF ReplayRebuilds
<1>2. CASE StartRun
  <2>1. /\ phase = "input" /\ todo = << >> /\ phase' = "run" /\ UNCHANGED << batch, replayed, script >>
        /\ view' = << id_counter, order, state_machines, task >>
    BY <1>2 DEF StartRun
  <2>2. SUFFICES ASSUME batch.replay PROVE view' = script[replayed + 1].view
    BY <2>1 DEF ReplayRebuilds
  <2>3. InBatch
    BY <2>1 DEF InBatch, EnginePhases
  <2>4. PICK s, v : /\ s = IF batch.replay THEN First - 2 ELSE First - 1
                    /\ v = << id_counter, order, state_machines, task >>
    OBVIOUS
  <2>5. s \in DOMAIN history /\ ViewAt(v, history, s) /\ s + 1 = First - 1
    BY <2>1, <2>2, <2>4, RunSeesHistory
  <2>6. PICK d : d = First - 1
    OBVIOUS
  <2>7. /\ d \in DOMAIN history /\ history[d].type = "DecisionTaskCompleted"
        /\ Cardinality(AnswersTo(history, d)) = replayed + 1
    BY <2>2, <2>3, <2>6, ReplayIsOfItsAnswer
  <2>8. PICK r : r = replayed + 1
    OBVIOUS
  <2>9. r \in DOMAIN script
    BY <2>2, <2>3, <2>8, ReplaysTheScript
  <2>10. ViewAt(script[r].view, history, d - 1)
    BY <2>7, <2>8, <2>9 DEF ViewsInv
  <2>11. s \in Nat /\ d - 1 = s
    <3>1. DOMAIN history = 1..Len(history) /\ Len(history) \in Nat
      BY LenProperties DEF IInv, ServiceInv, IsSeq
    <3>2. s \in Nat
      BY <2>5, <3>1
    <3>3. s + 1 = d
      BY <2>5, <2>6
    <3> QED BY <3>2, <3>3
  <2>12. v = script[r].view
    BY <2>5, <2>10, <2>11, ViewIsOne
  <2> QED BY <2>1, <2>4, <2>8, <2>12
<1>3. CASE WorkflowNext
  <2>1. ASSUME NEW op, Calls(op) PROVE UNCHANGED << view, batch, script, replayed, phase >>
    BY <2>1 DEF Calls
  <2>2. ASSUME NEW id, AutomaticCancel(id) PROVE UNCHANGED << view, batch, script, replayed, phase >>
    BY <2>2 DEF AutomaticCancel, engineVars, userVars
  <2>3. ASSUME Yield PROVE phase' = "complete"
    BY <2>3 DEF Yield
  <2>4. ASSUME RejectionUnwinds PROVE UNCHANGED << view, batch, script, replayed, phase >>
    BY <2>4 DEF RejectionUnwinds, userVars
  <2>5. UNCHANGED << view, batch, script, replayed, phase >> \/ phase' = "complete"
    BY <1>3, <2>1, <2>2, <2>3, <2>4
        DEF WorkflowNext, ExecuteActivity, StartTimer, CancelFuture, Return, continue_as_new, Ends
  <2> QED BY <2>5 DEF ReplayRebuilds
<1>4. CASE EngineNext /\ ~StartRun
  <2>1. phase' # "run"
    BY <1>4 DEF EngineNext, NextDecisionEvents, CollectDecisions, ApplyInputEvent, MaybeCompleteWorkflow,
                EndExecution, ApplyOutputEvent, FinishBatch, Continue
  <2> QED BY <2>1 DEF ReplayRebuilds
<1> QED BY <1>1, <1>2, <1>3, <1>4 DEF Next

\* The engine is in step with history: its machines, its place and their order.
FoundInv == FollowInv /\ ReplayedInv /\ FirstInv /\ WordInv

\* What an engine starts with.
LEMMA FoundAtFirst == Init => FoundInv
<1> SUFFICES ASSUME Init PROVE FoundInv
  OBVIOUS
<1>1. /\ phase = "idle" /\ state_machines = << >> /\ task = "none"
      /\ history = << Event("WorkflowExecutionStarted") >>
  BY DEF Init, ManagerInit
<1>2. DOMAIN << >> = {} /\ << >> = [id \in DOMAIN << >> |-> << >>[id]]
  BY EmptyIsSeq
<1>3. FollowInv
  BY <1>1, <1>2 DEF FollowInv, FollowedInv, ToldInv, RequestsInv, EnginePhases
<1>4. ReplayedInv
  BY <1>1 DEF ReplayedInv, InBatch, EnginePhases
<1>5. FirstInv
  <2>1. PICK e : e = Event("WorkflowExecutionStarted")
    OBVIOUS
  <2>2. Len(<< e >>) = 1 /\ << e >>[1] = e
    OBVIOUS
  <2>3. e.type = "WorkflowExecutionStarted"
    BY <2>1 DEF Event
  <2> QED BY <1>1, <2>1, <2>2, <2>3 DEF FirstInv
<1>6. WordInv
  BY <1>1 DEF WordInv
<1> QED BY <1>3, <1>4, <1>5, <1>6 DEF FoundInv

\* It stays in step.
LEMMA FoundIsKept ==
    ASSUME ~ImmediateCancel, Deterministic
    PROVE  Spec => [](LetThrough => FoundInv)
<1>1. /\ IInv /\ ReplayInv /\ ShapeInv /\ FlowInv /\ Unwinds /\ AckInv /\ RunsOn /\ NoneEnded
      /\ EntriesInv /\ TrackInv /\ FoundInv /\ [Next]_vars /\ ReplayInv' /\ LetThrough'
      => FoundInv'
  <2> SUFFICES ASSUME IInv, ReplayInv, ShapeInv, FlowInv, Unwinds, AckInv, RunsOn, NoneEnded,
                      EntriesInv, TrackInv, FoundInv, [Next]_vars, ReplayInv', LetThrough'
               PROVE  FoundInv'
    OBVIOUS
  <2>1. LastInv /\ KeysInv /\ KeysInv' /\ HistoryInv /\ EngineStateInv /\ PlaceInv /\ InputInv /\ BoundaryInv
    BY DEF ReplayInv, LastInv, EngineStateInv, FlowInv
  <2>2. FollowInv /\ ReplayedInv /\ FirstInv /\ WordInv
    BY DEF FoundInv
  <2>3. CASE ServiceNext
    BY <2>1, <2>2, <2>3, ServiceKeepsFollow, ServiceKeepsReplayed, ServiceKeepsFirst, ServiceKeepsWords DEF FoundInv
  <2>4. CASE EngineNext \/ WorkflowNext
    <3>1. FollowInv'
      BY <2>1, <2>2, <2>4, WorkerKeepsFollow
    <3>2. ReplayedInv' /\ FirstInv'
      BY <2>1, <2>2, <2>4, WorkerKeepsReplayed, WorkerKeepsFirst
    <3>3. WordInv'
      BY <2>1, <2>2, <2>4, WorkflowKeepsWords, EngineKeepsWords
    <3> QED BY <3>1, <3>2, <3>3 DEF FoundInv
  <2>5. CASE UNCHANGED vars
    <3>1. UNCHANGED << state_machines, order, history, phase, pos, batch, todo, task >>
      BY <2>5 DEF vars, managerVars, serviceVars, engineVars
    <3>2. UNCHANGED Applied
      BY <3>1 DEF Applied, Pending, HasHandler
    <3>3. FollowInv'
      <4>1. PICK A : A = Applied
        OBVIOUS
      <4>2. phase \in EnginePhases => StatesFollow(A) /\ PropsFollow(A)
        BY <2>2, <4>1 DEF FollowInv, FollowedInv
      <4>3. (StatesFollow(A) => StatesFollow(A)') /\ (PropsFollow(A) => PropsFollow(A)')
        BY <3>1 DEF StatesFollow, PropsFollow, StateOf, Subject
      <4>4. FollowedInv'
        BY <3>1, <3>2, <4>1, <4>2, <4>3 DEF FollowedInv, StatesFollow, PropsFollow, StateOf, Subject
      <4> QED BY <2>2, <3>1, <4>4 DEF FollowInv, ToldInv, RequestsInv
    <3>4. ReplayedInv' /\ FirstInv'
      BY <2>2, <3>1 DEF ReplayedInv, FirstInv, First, InBatch
    <3>5. WordInv'
      BY <2>2, <3>1 DEF WordInv, SilentFirst, Silent, StateOf, First
    <3> QED BY <3>3, <3>4, <3>5 DEF FoundInv
  <2> QED BY <2>3, <2>4, <2>5 DEF Next
<1> QED BY <1>1, FoundAtFirst, Invariance, ReplayIsSound, HistoryIsShaped, FlowIsKept, RejectionsUnwind,
           ReplayAcknowledges, ReplayRunsOn, ReplayEndsNothing, TrackIsKept, OutlivedStays, PTL DEF Spec

\* Replay rebuilds the past: when the code of a recorded batch runs again, the
\* counter of the ids, the order of the machines, their states, requests,
\* properties and futures are exactly what they were when it ran first, although
\* history has grown since, the engine is another, and what was asked for then is
\* acknowledged now.  A workflow that cancels its own requests is left out: it
\* meets the markers.  Said as long as rejections are let through.
LEMMA RebuildingIsKept ==
    ASSUME ~ImmediateCancel, Deterministic
    PROVE  Spec => [](LetThrough => ReplayRebuilds)
<1>1. Init => LiveView /\ ViewsInv /\ ReplayRebuilds
  <2> SUFFICES ASSUME Init PROVE LiveView /\ ViewsInv /\ ReplayRebuilds
    OBVIOUS
  <2>1. phase = "idle" /\ script = << >>
    BY DEF Init
  <2>2. DOMAIN script = {}
    BY <2>1, EmptyIsSeq
  <2> QED BY <2>1, <2>2 DEF LiveView, ViewsInv, ReplayRebuilds
<1>2. /\ IInv /\ ReplayInv /\ FlowInv /\ Unwinds /\ AckInv /\ CommandsInv /\ RunsOn /\ ScriptInv /\ FoundInv
      /\ LiveView /\ ViewsInv /\ ReplayRebuilds /\ [Next]_vars /\ IInv'
      => LiveView' /\ ViewsInv' /\ ReplayRebuilds'
  <2> SUFFICES ASSUME IInv, ReplayInv, FlowInv, Unwinds, AckInv, CommandsInv, RunsOn, ScriptInv, FoundInv,
                      LiveView, ViewsInv, ReplayRebuilds, [Next]_vars, IInv'
               PROVE  LiveView' /\ ViewsInv' /\ ReplayRebuilds'
    OBVIOUS
  <2>1. LastInv /\ DecisionsInv /\ HistoryInv /\ EngineStateInv /\ FuturesInv /\ NumbersInv
    BY DEF ReplayInv, LastInv, FlowInv, CommandsInv
  <2>2. FollowInv /\ ReplayedInv /\ FirstInv /\ WordInv
    BY DEF FoundInv
  <2>3. CASE Next
    <3>1. ReplayRebuilds'
      BY <2>1, <2>2, <2>3, RebuiltIsKept
    <3>2. CASE ServiceNext
      BY <2>1, <2>2, <3>1, <3>2, ServiceKeepsView, ServiceKeepsViews
    <3>3. CASE EngineNext \/ WorkflowNext
      <4>1. LiveView'
        BY <2>1, <2>2, <3>3, WorkerKeepsView
      <4>2. UNCHANGED << history, script >>
        BY <3>3, WorkerWritesNothing
      <4>3. ViewsInv'
        BY <4>2 DEF ViewsInv
      <4> QED BY <3>1, <4>1, <4>3
    <3> QED BY <2>3, <3>2, <3>3 DEF Next
  <2>4. CASE UNCHANGED vars
    <3>1. UNCHANGED << history, phase, pos, batch, view, script, replayed >>
      BY <2>4 DEF vars, serviceVars, engineVars, userVars
    <3> QED BY <3>1 DEF LiveView, ViewsInv, ReplayRebuilds
  <2> QED BY <2>3, <2>4
<1> QED BY <1>1, <1>2, Invariance, ReplayIsSound, FlowIsKept, RejectionsUnwind, ReplayAcknowledges,
           CommandsAreKept, ReplayRunsOn, ScriptIsKept, FoundIsKept, OutlivedStays, PTL DEF Spec

-----------------------------------------------------------------------------
(* Tasks that were handed out                                              *)

\* The last event hands out a task.
Waits(h) == Len(h) # 0 /\ h[Len(h)].type = "DecisionTaskStarted"

\* What answers a task: its completion, or that it failed or timed out.
TaskEnds == unsuccessful \cup {"DecisionTaskCompleted"}

\* Every task but the last is answered directly behind its start.
AllAnsweredTasks(h) ==
    \A i \in DOMAIN h : h[i].type = "DecisionTaskStarted" =>
        i = Len(h) \/ h[i + 1].type \in TaskEnds

\* And the last one too, once it is over.
TasksInv ==
    /\ AllAnsweredTasks(history)
    /\ phase \in {"idle", "record"} => ~Waits(history)

\* A decision is recorded as an event of some decision's kind, or a refused
\* cancellation as two.
LEMMA RecordedByType ==
    ASSUME HistoryInv, DecisionsInv, RecordDecision
    PROVE  \/ \E type \in decision_event_types : \E d : history' = Append(history, RecordedEvent(type, d))
           \/ \E d : history' = history \o << RecordedEvent("ActivityTaskCancelRequested", d),
                                             RecordedEvent("RequestCancelActivityTaskFailed", d) >>
<1> DEFINE d == Head(decisions)
<1>1. CASE ClosesWorkflow(d) /\ history' = Append(history, RecordedEvent(CloseEvent[d.what], d))
  <2>1. d.what # "CancelledError" /\ d.what \in Outcomes
    <3>1. 1 \in DOMAIN decisions /\ Head(decisions) = decisions[1]
      <4>1. IsSeq(decisions) /\ decisions # << >>
        BY DEF RecordDecision, DecisionsInv
      <4> QED BY <4>1, HeadAndTail
    <3>2. Sendable(history, d)
      BY <3>1 DEF HistoryInv, AnswerInv
    <3> QED BY <1>1, <3>2, OutcomesAssumption DEF Sendable, ClosesWorkflow
  <2>2. CloseEvent[d.what] \in decision_event_types
    <3>1. d.what \in {"Complete", "Fail", "ContinueAsNew"}
      BY <2>1, OutcomesAssumption
    <3> HIDE DEF d
    <3> QED BY <3>1 DEF CloseEvent, decision_event_types
  <2> QED BY <1>1, <2>2
<1> QED BY <1>1 DEF RecordDecision, decision_event_types

\* What is written behind a history starts no task, or is the start, and answers
\* the task that waits.
LEMMA TasksGrow ==
    ASSUME NEW h, NEW new, IsSeq(h), IsSeq(new), AllAnsweredTasks(h),
           \A k \in DOMAIN new : new[k].type = "DecisionTaskStarted" => k = Len(new),
           Waits(h) => new # << >> /\ new[1].type \in TaskEnds
    PROVE  /\ AllAnsweredTasks(h \o new)
           /\ (\A k \in DOMAIN new : new[k].type # "DecisionTaskStarted") => ~Waits(h \o new)
<1>1. PICK g : g = h \o new
  OBVIOUS
<1>2. PICK n, m : n = Len(h) /\ m = Len(new)
  OBVIOUS
<1>3. /\ n \in Nat /\ m \in Nat /\ DOMAIN h = 1..n /\ DOMAIN new = 1..m /\ DOMAIN g = 1..(n + m)
      /\ Len(g) = n + m
      /\ \A i \in 1..n : g[i] = h[i]
      /\ \A k \in 1..m : g[n + k] = new[k]
  BY <1>1, <1>2, ConcatPositions
<1>4. new # << >> => m # 0
  BY <1>2, <1>3, EmptySeq DEF IsSeq
<1>5. ASSUME NEW i \in 1..(n + m), g[i].type = "DecisionTaskStarted"
      PROVE  i = n + m \/ g[i + 1].type \in TaskEnds
  <2>1. CASE i < n
    <3>1. i \in 1..n /\ i + 1 \in 1..n /\ i # n
      BY <1>3, <2>1
    <3>2. h[i].type = "DecisionTaskStarted" /\ h[i + 1] = g[i + 1]
      BY <1>3, <1>5, <3>1
    <3> QED BY <1>2, <1>3, <3>1, <3>2 DEF AllAnsweredTasks
  <2>2. CASE i = n
    <3>1. Waits(h)
      BY <1>2, <1>3, <1>5, <2>2 DEF Waits
    <3>2. 1 \in 1..m /\ g[n + 1] = new[1]
      BY <1>3, <1>4, <3>1
    <3> QED BY <2>2, <3>1, <3>2
  <2>3. CASE i > n
    <3>1. PICK k : k = i - n
      OBVIOUS
    <3>2. k \in 1..m /\ i = n + k
      BY <1>3, <2>3, <3>1
    <3>3. g[i] = new[k]
      BY <1>3, <3>2
    <3> QED BY <1>2, <1>3, <1>5, <3>2, <3>3
  <2> QED BY <1>3, <2>1, <2>2, <2>3
<1>6. ASSUME \A k \in DOMAIN new : new[k].type # "DecisionTaskStarted" PROVE ~Waits(g)
  <2>1. CASE m = 0
    <3>1. new = << >>
      BY <1>2, <2>1, EmptySeq DEF IsSeq
    <3>2. ~Waits(h)
      BY <3>1
    <3>3. Len(g) = n /\ (n # 0 => g[n] = h[n])
      BY <1>3, <2>1
    <3> QED BY <1>2, <3>2, <3>3 DEF Waits
  <2>2. CASE m # 0
    <3>1. m \in 1..m /\ g[n + m] = new[m]
      BY <1>3, <2>2
    <3> QED BY <1>3, <1>6, <3>1 DEF Waits
  <2> QED BY <2>1, <2>2
<1> QED BY <1>1, <1>3, <1>5, <1>6 DEF AllAnsweredTasks

\* A task that is handed out is answered before anything else is written.
LEMMA ServiceKeepsTasks ==
    ASSUME IInv, HistoryInv, DecisionsInv, TasksInv, ServiceNext
    PROVE  TasksInv'
<1>1. IsSeq(history) /\ AllAnsweredTasks(history) /\ IsSeq(buffered)
  BY DEF IInv, ServiceInv, TasksInv
<1>2. \A k \in DOMAIN buffered : buffered[k].type # "DecisionTaskStarted"
  BY DEF HistoryInv, WrittenInv, Writable, RefTypes, activity_close_types
<1>3. \A e, f : e.type # "DecisionTaskStarted" /\ f.type # "DecisionTaskStarted" =>
          /\ \A k \in DOMAIN << e >> : << e >>[k].type # "DecisionTaskStarted"
          /\ \A k \in DOMAIN << e, f >> : << e, f >>[k].type # "DecisionTaskStarted"
  OBVIOUS
<1>4. ASSUME NEW new, IsSeq(new), \A k \in DOMAIN new : new[k].type # "DecisionTaskStarted",
             phase \in {"idle", "record"}, history' = history \o new
      PROVE  TasksInv'
  <2>1. ~Waits(history)
    BY <1>4 DEF TasksInv
  <2>2. AllAnsweredTasks(history \o new) /\ ~Waits(history \o new)
    BY <1>1, <1>4, <2>1, TasksGrow
  <2> QED BY <1>4, <2>2 DEF TasksInv
<1>5. ASSUME NEW events, IsSeq(events), \A k \in DOMAIN events : events[k].type # "DecisionTaskStarted",
             Arrive(events)
      PROVE  TasksInv'
  <2>1. CASE phase = "idle"
    BY <1>4, <1>5, <2>1 DEF Arrive
  <2>2. CASE phase # "idle"
    BY <1>5, <2>2 DEF Arrive, TasksInv, engineVars
  <2> QED BY <2>1, <2>2
<1>6. ASSUME NEW s, NEW type \in CloseEvents, ActivityCloses(s, type) PROVE TasksInv'
  <2>1. PICK e, f : e = RefEvent("ActivityTaskStarted", s) /\ f = RefEvent(type, s)
    OBVIOUS
  <2>2. e.type # "DecisionTaskStarted" /\ f.type # "DecisionTaskStarted"
    BY <2>1, CloseEventsAssumption DEF RefEvent
  <2>3. Arrive(<< f >>) \/ Arrive(<< e, f >>)
    BY <1>6, <2>1 DEF ActivityCloses
  <2> QED BY <1>3, <1>5, <2>2, <2>3, TuplesAreSeqs
<1>7. ASSUME NEW id, TimerFires(id) PROVE TasksInv'
  <2>1. IdEvent("TimerFired", id).type # "DecisionTaskStarted"
    BY DEF IdEvent
  <2> QED BY <1>3, <1>5, <1>7, <2>1, TuplesAreSeqs DEF TimerFires
<1>8. ASSUME SignalArrives PROVE TasksInv'
  <2>1. Event("WorkflowExecutionSignaled").type # "DecisionTaskStarted"
    BY DEF Event
  <2> QED BY <1>3, <1>5, <1>8, <2>1, TuplesAreSeqs DEF SignalArrives
<1>9. ASSUME PollDecisionTask PROVE TasksInv'
  <2>1. PICK e : e = Event("DecisionTaskStarted")
    OBVIOUS
  <2>2. history' = history \o << e >> /\ phase = "idle" /\ phase' = "next"
    BY <1>1, <1>9, <2>1, AppendIsBehind DEF PollDecisionTask
  <2>3. ~Waits(history)
    BY <2>2 DEF TasksInv
  <2>4. IsSeq(<< e >>) /\ \A k \in DOMAIN << e >> : k = Len(<< e >>)
    BY TuplesAreSeqs
  <2>5. AllAnsweredTasks(history \o << e >>)
    BY <1>1, <2>3, <2>4, TasksGrow
  <2> QED BY <2>2, <2>5 DEF TasksInv
<1>10. ASSUME NEW type \in unsuccessful, Unsuccessfully(type) PROVE TasksInv'
  <2>1. PICK e : e = Event(type)
    OBVIOUS
  <2>2. e.type \in TaskEnds /\ e.type # "DecisionTaskStarted"
    BY <1>10, <2>1 DEF Event, unsuccessful, TaskEnds
  <2>3. PICK h : h = history \o << e >>
    OBVIOUS
  <2>4. history' = h \o buffered
    BY <1>10, <2>1, <2>3 DEF Unsuccessfully
  <2>5. IsSeq(<< e >>) /\ << e >> # << >> /\ << e >>[1] = e
    BY TuplesAreSeqs
  <2>6. AllAnsweredTasks(h) /\ ~Waits(h)
    BY <1>1, <1>3, <2>2, <2>3, <2>5, TasksGrow
  <2>7. IsSeq(h)
    BY <1>1, <2>3, <2>5, ConcatPositions
  <2>8. AllAnsweredTasks(h \o buffered) /\ ~Waits(h \o buffered)
    BY <1>1, <1>2, <2>6, <2>7, TasksGrow
  <2> QED BY <2>4, <2>8 DEF TasksInv
<1>11. ASSUME RespondDecisionTaskCompleted PROVE TasksInv'
  <2>1. CASE Unsuccessfully("DecisionTaskFailed")
    BY <1>10, <2>1 DEF unsuccessful
  <2>2. CASE history' = Append(history, Event("DecisionTaskCompleted"))
    <3>1. PICK e : e = Event("DecisionTaskCompleted")
      OBVIOUS
    <3>2. e.type \in TaskEnds /\ e.type # "DecisionTaskStarted"
      BY <3>1 DEF Event, TaskEnds
    <3>3. history' = history \o << e >>
      BY <1>1, <2>2, <3>1, AppendIsBehind
    <3>4. IsSeq(<< e >>) /\ << e >> # << >> /\ << e >>[1] = e
      BY TuplesAreSeqs
    <3>5. AllAnsweredTasks(history \o << e >>) /\ ~Waits(history \o << e >>)
      BY <1>1, <1>3, <3>2, <3>4, TasksGrow
    <3> QED BY <3>3, <3>5 DEF TasksInv
  <2> QED BY <1>11, <2>1, <2>2 DEF RespondDecisionTaskCompleted
<1>12. ASSUME RecordDecision PROVE TasksInv'
  <2>1. phase = "record"
    BY <1>12 DEF RecordDecision
  <2>2. ASSUME NEW type \in decision_event_types, NEW d, history' = Append(history, RecordedEvent(type, d))
        PROVE  TasksInv'
    <3>1. PICK e : e = RecordedEvent(type, d)
      OBVIOUS
    <3>2. e.type # "DecisionTaskStarted"
      BY <2>2, <3>1 DEF RecordedEvent, decision_event_types
    <3>3. history' = history \o << e >>
      BY <1>1, <2>2, <3>1, AppendIsBehind
    <3>4. IsSeq(<< e >>) /\ \A k \in DOMAIN << e >> : << e >>[k].type # "DecisionTaskStarted"
      BY <1>3, <3>2, TuplesAreSeqs
    <3> QED BY <1>4, <2>1, <3>3, <3>4
  <2>3. ASSUME NEW d, history' = history \o << RecordedEvent("ActivityTaskCancelRequested", d),
                                               RecordedEvent("RequestCancelActivityTaskFailed", d) >>
        PROVE  TasksInv'
    <3>1. PICK e, f : /\ e = RecordedEvent("ActivityTaskCancelRequested", d)
                      /\ f = RecordedEvent("RequestCancelActivityTaskFailed", d)
      OBVIOUS
    <3>2. e.type # "DecisionTaskStarted" /\ f.type # "DecisionTaskStarted"
      BY <3>1 DEF RecordedEvent
    <3>3. history' = history \o << e, f >>
      BY <2>3, <3>1
    <3>4. IsSeq(<< e, f >>) /\ \A k \in DOMAIN << e, f >> : << e, f >>[k].type # "DecisionTaskStarted"
      BY <1>3, <3>2, TuplesAreSeqs
    <3> QED BY <1>4, <2>1, <3>3, <3>4
  <2>4. \/ \E type \in decision_event_types : \E d : history' = Append(history, RecordedEvent(type, d))
        \/ \E d : history' = history \o << RecordedEvent("ActivityTaskCancelRequested", d),
                                          RecordedEvent("RequestCancelActivityTaskFailed", d) >>
    BY <1>12, RecordedByType
  <2> QED BY <2>2, <2>3, <2>4
<1>13. ASSUME FinishDecisionTask PROVE TasksInv'
  BY <1>1, <1>2, <1>4, <1>13 DEF FinishDecisionTask
<1>14. ASSUME DecisionTaskTimesOut \/ RespondDecisionTaskFailed PROVE TasksInv'
  BY <1>10, <1>14 DEF DecisionTaskTimesOut, RespondDecisionTaskFailed, unsuccessful
<1> QED BY <1>6, <1>7, <1>8, <1>9, <1>11, <1>12, <1>13, <1>14 DEF ServiceNext

-----------------------------------------------------------------------------
(* Timers that are over                                                    *)

\* An event that ends a timer.
EndsTimer(e) == e.type \in {"TimerFired", "TimerCanceled"}

\* No timer is ended twice by these events.
EndedOnce(s) ==
    \A i, j \in DOMAIN s : EndsTimer(s[i]) /\ EndsTimer(s[j]) /\ s[i].id = s[j].id => i = j

\* None that those end is ended by the others.
EndedApart(s, t) ==
    \A i \in DOMAIN s, k \in DOMAIN t : EndsTimer(s[i]) /\ EndsTimer(t[k]) => s[i].id # t[k].id

\* A timer fires or is cancelled, and once.
TimersInv ==
    EndedOnce(history) /\ EndedOnce(buffered) /\ EndedApart(history, buffered)

\* What is written behind others ends no timer that they end.
LEMMA EndsConcat ==
    ASSUME NEW s, NEW t, NEW u, IsSeq(s), IsSeq(t)
    PROVE  /\ EndedOnce(s) /\ EndedOnce(t) /\ EndedApart(s, t) => EndedOnce(s \o t)
           /\ EndedApart(s, u) /\ EndedApart(t, u) => EndedApart(s \o t, u)
           /\ EndedApart(u, s) /\ EndedApart(u, t) => EndedApart(u, s \o t)
           /\ EndedApart(s, t) => EndedApart(t, s)
<1>1. PICK g : g = s \o t
  OBVIOUS
<1>2. PICK n, m : n = Len(s) /\ m = Len(t)
  OBVIOUS
<1>3. /\ n \in Nat /\ m \in Nat /\ DOMAIN s = 1..n /\ DOMAIN t = 1..m
      /\ \A i \in 1..n : g[i] = s[i]
      /\ \A k \in 1..m : g[n + k] = t[k]
      /\ \A i \in DOMAIN g : i \in 1..n \/ \E k \in 1..m : i = n + k
  <2>1. /\ Len(s) \in Nat /\ DOMAIN s = 1..Len(s)
        /\ Len(t) \in Nat /\ DOMAIN t = 1..Len(t)
    BY ConcatPositions
  <2>2. \A i \in DOMAIN s : g[i] = s[i]
    BY <1>1, ConcatPositions
  <2>3. \A k \in DOMAIN t : g[Len(s) + k] = t[k]
    BY <1>1, ConcatPositions
  <2>4. \A i \in DOMAIN g : i \in DOMAIN s \/ \E k \in DOMAIN t : i = Len(s) + k
    BY <1>1, ConcatPositions
  <2> QED BY <1>2, <2>1, <2>2, <2>3, <2>4
<1>4. ASSUME EndedOnce(s), EndedOnce(t), EndedApart(s, t), NEW i \in DOMAIN g, NEW j \in DOMAIN g,
             EndsTimer(g[i]), EndsTimer(g[j]), g[i].id = g[j].id
      PROVE  i = j
  <2>1. CASE i \in 1..n /\ j \in 1..n
    BY <1>3, <1>4, <2>1 DEF EndedOnce
  <2>2. ASSUME NEW k \in 1..m, NEW l \in 1..m, i = n + k, j = n + l PROVE i = j
    <3>1. g[i] = t[k] /\ g[j] = t[l] /\ k \in DOMAIN t /\ l \in DOMAIN t
      BY <1>3, <2>2
    <3>2. k = l
      BY <1>4, <3>1 DEF EndedOnce
    <3> QED BY <2>2, <3>2
  <2>3. ASSUME NEW k \in 1..m, (i \in 1..n /\ j = n + k) \/ (j \in 1..n /\ i = n + k) PROVE FALSE
    <3>1. g[n + k] = t[k] /\ k \in DOMAIN t /\ \A x \in 1..n : g[x] = s[x] /\ x \in DOMAIN s
      BY <1>3
    <3> QED BY <1>4, <2>3, <3>1 DEF EndedApart
  <2> QED BY <1>3, <2>1, <2>2, <2>3
<1>5. \A i \in DOMAIN g : (\E a \in DOMAIN s : g[i] = s[a]) \/ \E k \in DOMAIN t : g[i] = t[k]
  <2> SUFFICES ASSUME NEW i \in DOMAIN g
               PROVE  (\E a \in DOMAIN s : g[i] = s[a]) \/ \E k \in DOMAIN t : g[i] = t[k]
    OBVIOUS
  <2>1. CASE i \in 1..n
    BY <1>3, <2>1
  <2>2. ASSUME NEW k \in 1..m, i = n + k PROVE \E l \in DOMAIN t : g[i] = t[l]
    BY <1>3, <2>2
  <2> QED BY <1>3, <2>1, <2>2
<1>6. ASSUME EndedApart(s, u), EndedApart(t, u) PROVE EndedApart(g, u)
  BY <1>5, <1>6 DEF EndedApart
<1>7. ASSUME EndedApart(u, s), EndedApart(u, t) PROVE EndedApart(u, g)
  BY <1>5, <1>7 DEF EndedApart
<1> QED BY <1>1, <1>4, <1>6, <1>7 DEF EndedOnce, EndedApart

\* Events that end no timer.
LEMMA EndNoTimer ==
    ASSUME NEW s, \A k \in DOMAIN s : ~EndsTimer(s[k]), NEW t
    PROVE  EndedOnce(s) /\ EndedApart(s, t) /\ EndedApart(t, s)
BY DEF EndedOnce, EndedApart

\* What is written and ends no timer that is over.
LEMMA TimersBehind ==
    ASSUME TimersInv, NEW new, IsSeq(new), IsSeq(history), IsSeq(buffered),
           EndedOnce(new), EndedApart(history, new), EndedApart(buffered, new)
    PROVE  /\ history' = history \o new /\ UNCHANGED buffered => TimersInv'
           /\ buffered' = buffered \o new /\ UNCHANGED history => TimersInv'
<1>1. EndedOnce(history \o new) /\ EndedOnce(buffered \o new)
  BY EndsConcat DEF TimersInv
<1>2. EndedApart(new, buffered)
  BY EndsConcat
<1>3. EndedApart(history \o new, buffered) /\ EndedApart(history, buffered \o new)
  BY <1>2, EndsConcat DEF TimersInv
<1> QED BY <1>1, <1>3 DEF TimersInv

\* When a timer is cancelled, its firing does not wait any more.
LEMMA FiringIsDropped ==
    ASSUME HistoryInv, RecordDecision, NEW d, d = Head(decisions), d.what = "CancelTimer"
    PROVE  \/ UNCHANGED buffered /\ \A k \in DOMAIN buffered : ~IsFiringOf(d.id, buffered[k])
           \/ \E i \in DOMAIN buffered :
                  IsFiringOf(d.id, buffered[i]) /\ buffered' = SE!RemoveAt(buffered, i)
<1> DEFINE firing == {i \in DOMAIN buffered : buffered[i].type = "TimerFired" /\ buffered[i].id = d.id}
<1>1. ~ClosesWorkflow(d)
  BY OutcomesAssumption DEF ClosesWorkflow
<1>2. buffered' = IF firing = {} THEN buffered ELSE SE!RemoveAt(buffered, CHOOSE i \in firing : TRUE)
  BY <1>1 DEF RecordDecision
<1>3. CASE firing = {}
  BY <1>2, <1>3 DEF IsFiringOf
<1>4. CASE firing # {}
  <2>1. PICK i : i = CHOOSE j \in firing : TRUE
    OBVIOUS
  <2>2. i \in firing /\ buffered' = SE!RemoveAt(buffered, i)
    BY <1>2, <1>4, <2>1
  <2> QED BY <2>2 DEF IsFiringOf
<1> QED BY <1>3, <1>4

\* A sequence without one of its elements.
LEMMA TimersRemoved ==
    ASSUME NEW s, IsSeq(s), NEW i \in DOMAIN s, NEW r, r = SE!RemoveAt(s, i), EndedOnce(s)
    PROVE  /\ EndedOnce(r)
           /\ \A u : EndedApart(u, s) => EndedApart(u, r)
           /\ EndsTimer(s[i]) => \A k \in DOMAIN r : EndsTimer(r[k]) => r[k].id # s[i].id
<1>1. PICK n : n = Len(s)
  OBVIOUS
<1>2. /\ DOMAIN r = 1..(n - 1)
      /\ \A k \in 1..(n - 1) : r[k] = IF k < i THEN s[k] ELSE s[k + 1]
  BY <1>1, RemoveAtElements
<1>3. n \in Nat /\ DOMAIN s = 1..n
  BY <1>1, LenProperties DEF IsSeq
<1>4. PICK w : w = [k \in 1..(n - 1) |-> IF k < i THEN k ELSE k + 1]
  OBVIOUS
<1>5. \A k \in 1..(n - 1) : w[k] \in 1..n /\ w[k] # i /\ r[k] = s[w[k]]
  <2> SUFFICES ASSUME NEW k \in 1..(n - 1) PROVE w[k] \in 1..n /\ w[k] # i /\ r[k] = s[w[k]]
    OBVIOUS
  <2>1. i \in 1..n /\ w[k] = IF k < i THEN k ELSE k + 1
    BY <1>3, <1>4
  <2>2. w[k] \in 1..n /\ w[k] # i
    BY <1>3, <2>1
  <2> QED BY <1>2, <2>1, <2>2
<1>6. \A k, l \in 1..(n - 1) : w[k] = w[l] => k = l
  <2> SUFFICES ASSUME NEW k \in 1..(n - 1), NEW l \in 1..(n - 1), w[k] = w[l] PROVE k = l
    OBVIOUS
  <2>1. i \in 1..n
    BY <1>3
  <2>2. (IF k < i THEN k ELSE k + 1) = (IF l < i THEN l ELSE l + 1)
    BY <1>4
  <2> QED BY <1>3, <2>1, <2>2
<1> QED BY <1>2, <1>3, <1>5, <1>6 DEF EndedOnce, EndedApart

\* A timer that fires is open, and one that is cancelled is not over.
LEMMA ServiceKeepsTimers ==
    ASSUME ~ImmediateCancel, IInv, HistoryInv, DecisionsInv, TimersInv, ServiceNext
    PROVE  TimersInv'
<1>1. IsSeq(history) /\ IsSeq(buffered)
  BY DEF IInv, ServiceInv
<1>2. ASSUME NEW new, IsSeq(new), \A k \in DOMAIN new : ~EndsTimer(new[k])
      PROVE  /\ history' = history \o new /\ UNCHANGED buffered => TimersInv'
             /\ buffered' = buffered \o new /\ UNCHANGED history => TimersInv'
  BY <1>1, <1>2, EndNoTimer, TimersBehind
<1>3. \A e, f : /\ ~EndsTimer(e) => \A k \in DOMAIN << e >> : ~EndsTimer(<< e >>[k])
                /\ ~EndsTimer(e) /\ ~EndsTimer(f) => \A k \in DOMAIN << e, f >> : ~EndsTimer(<< e, f >>[k])
  OBVIOUS
<1>4. ASSUME NEW e, ~EndsTimer(e)
      PROVE  /\ history' = history \o << e >> /\ UNCHANGED buffered => TimersInv'
             /\ buffered' = buffered \o << e >> /\ UNCHANGED history => TimersInv'
  <2>1. IsSeq(<< e >>) /\ \A k \in DOMAIN << e >> : ~EndsTimer(<< e >>[k])
    BY <1>3, <1>4, TuplesAreSeqs
  <2> QED BY <1>2, <2>1
<1>5. ASSUME NEW e, NEW f, ~EndsTimer(e), ~EndsTimer(f)
      PROVE  /\ history' = history \o << e, f >> /\ UNCHANGED buffered => TimersInv'
             /\ buffered' = buffered \o << e, f >> /\ UNCHANGED history => TimersInv'
  <2>1. IsSeq(<< e, f >>) /\ \A k \in DOMAIN << e, f >> : ~EndsTimer(<< e, f >>[k])
    BY <1>3, <1>5, TuplesAreSeqs
  <2> QED BY <1>2, <2>1
<1>6. ASSUME NEW s, NEW type \in CloseEvents, ActivityCloses(s, type) PROVE TimersInv'
  <2>1. PICK e, f : e = RefEvent("ActivityTaskStarted", s) /\ f = RefEvent(type, s)
    OBVIOUS
  <2>2. ~EndsTimer(e) /\ ~EndsTimer(f)
    BY <2>1, CloseEventsAssumption DEF RefEvent, EndsTimer
  <2>3. Arrive(<< f >>) \/ Arrive(<< e, f >>)
    BY <1>6, <2>1 DEF ActivityCloses
  <2> QED BY <1>4, <1>5, <2>2, <2>3 DEF Arrive
<1>7. ASSUME SignalArrives PROVE TimersInv'
  <2>1. ~EndsTimer(Event("WorkflowExecutionSignaled"))
    BY DEF Event, EndsTimer
  <2> QED BY <1>4, <1>7, <2>1 DEF SignalArrives, Arrive
<1>8. ASSUME NEW id, TimerFires(id) PROVE TimersInv'
  <2>1. PICK e : e = IdEvent("TimerFired", id)
    OBVIOUS
  <2>2. e.id = id
    BY <2>1 DEF IdEvent
  <2>3. \A j \in DOMAIN Known : EndsTimer(Known[j]) => Known[j].id # id
    BY <1>8 DEF TimerFires, TimerOpen, Reported, EndsTimer
  <2>4. /\ \A i \in DOMAIN history : EndsTimer(history[i]) => history[i].id # id
        /\ \A k \in DOMAIN buffered : EndsTimer(buffered[k]) => buffered[k].id # id
    BY <1>1, <2>3, KnownParts
  <2>5. IsSeq(<< e >>) /\ DOMAIN << e >> = {1} /\ << e >>[1] = e
    BY TuplesAreSeqs
  <2>6. EndedOnce(<< e >>) /\ EndedApart(history, << e >>) /\ EndedApart(buffered, << e >>)
    BY <2>2, <2>4, <2>5 DEF EndedOnce, EndedApart
  <2> QED BY <1>1, <1>8, <2>1, <2>5, <2>6, TimersBehind DEF TimerFires, Arrive
<1>9. ASSUME NEW type \in {"DecisionTaskStarted", "DecisionTaskCompleted"},
             history' = Append(history, Event(type)), UNCHANGED buffered
      PROVE  TimersInv'
  <2>1. ~EndsTimer(Event(type))
    BY <1>9 DEF Event, EndsTimer
  <2> QED BY <1>1, <1>4, <1>9, <2>1, AppendIsBehind
<1>10. ASSUME NEW h, IsSeq(h), EndedOnce(h), EndedApart(h, buffered), history' = h \o buffered, buffered' = << >>
       PROVE  TimersInv'
  <2>1. EndedOnce(history')
    BY <1>1, <1>10, EndsConcat DEF TimersInv
  <2>2. DOMAIN << >> = {}
    BY EmptyIsSeq
  <2> QED BY <1>10, <2>1, <2>2 DEF TimersInv, EndedOnce, EndedApart
<1>11. ASSUME NEW type \in unsuccessful, Unsuccessfully(type) PROVE TimersInv'
  <2>1. PICK e : e = Event(type)
    OBVIOUS
  <2>2. ~EndsTimer(e)
    BY <1>11, <2>1 DEF Event, EndsTimer, unsuccessful
  <2>3. IsSeq(<< e >>) /\ \A k \in DOMAIN << e >> : ~EndsTimer(<< e >>[k])
    BY <1>3, <2>2, TuplesAreSeqs
  <2>4. /\ EndedOnce(<< e >>) /\ EndedApart(history, << e >>) /\ EndedApart(<< e >>, buffered)
    BY <2>3, EndNoTimer
  <2>5. PICK h : h = history \o << e >>
    OBVIOUS
  <2>6. IsSeq(h) /\ EndedOnce(h) /\ EndedApart(h, buffered)
    BY <1>1, <2>3, <2>4, <2>5, EndsConcat, ConcatPositions DEF TimersInv
  <2>7. history' = h \o buffered /\ buffered' = << >>
    BY <1>11, <2>1, <2>5 DEF Unsuccessfully
  <2> QED BY <1>10, <2>6, <2>7
<1>12. ASSUME RecordDecision PROVE TimersInv'
  <2>1. PICK d : d = Head(decisions)
    OBVIOUS
  <2>2. /\ phase = "record" /\ phase' = "record" /\ ~Closed
        /\ decisions # << >> /\ decisions' = Tail(decisions) /\ Sendable(history, d)
        /\ \/ /\ Starts(d) /\ ~ClosesWorkflow(d) /\ UNCHANGED buffered
              /\ RecordsOne(d, {IF d.what = "StartTimer" THEN "TimerStarted" ELSE "ActivityTaskScheduled"})
           \/ /\ d.what = "CancelTimer" /\ ~Starts(d) /\ ~ClosesWorkflow(d)
              /\ RecordsOne(d, {"TimerCanceled"})
              /\ \/ UNCHANGED buffered
                 \/ \E i \in DOMAIN buffered :
                        IsFiringOf(d.id, buffered[i]) /\ buffered' = SE!RemoveAt(buffered, i)
           \/ /\ d.what = "RequestCancelActivityTask" /\ ~Starts(d) /\ ~ClosesWorkflow(d)
              /\ UNCHANGED buffered
              /\ \/ RecordsOne(d, {"ActivityTaskCancelRequested"})
                 \/ \E e, f : /\ e.type = "ActivityTaskCancelRequested" /\ e.id = d.id
                              /\ f.type = "RequestCancelActivityTaskFailed" /\ f.id = d.id
                              /\ history' = history \o << e, f >>
           \/ ClosesWorkflow(d) /\ ~Starts(d) /\ RecordsOne(d, close_types) /\ UNCHANGED buffered
    BY <1>12, <2>1, DecisionRecorded
  <2>3. ASSUME NEW types, \A t \in types : t \notin {"TimerFired", "TimerCanceled"}, RecordsOne(d, types),
               UNCHANGED buffered
        PROVE  TimersInv'
    <3>1. PICK e : e.type \in types /\ e.id = d.id /\ history' = Append(history, e)
      BY <2>3 DEF RecordsOne
    <3>2. ~EndsTimer(e)
      BY <2>3, <3>1 DEF EndsTimer
    <3> QED BY <1>1, <1>4, <2>3, <3>1, <3>2, AppendIsBehind
  <2>4. CASE UNCHANGED buffered /\
             RecordsOne(d, {IF d.what = "StartTimer" THEN "TimerStarted" ELSE "ActivityTaskScheduled"})
    BY <2>3, <2>4
  <2>5. CASE UNCHANGED buffered /\ RecordsOne(d, {"ActivityTaskCancelRequested"})
    BY <2>3, <2>5
  <2>6. CASE UNCHANGED buffered /\ RecordsOne(d, close_types)
    <3>1. \A t \in close_types : t \notin {"TimerFired", "TimerCanceled"}
      BY DEF close_types
    <3> QED BY <2>3, <2>6, <3>1
  <2>7. ASSUME UNCHANGED buffered, NEW e, NEW f, e.type = "ActivityTaskCancelRequested",
               f.type = "RequestCancelActivityTaskFailed", history' = history \o << e, f >>
        PROVE  TimersInv'
    <3>1. ~EndsTimer(e) /\ ~EndsTimer(f)
      BY <2>7 DEF EndsTimer
    <3> QED BY <1>5, <2>7, <3>1
  <2>8. CASE d.what = "CancelTimer" /\ RecordsOne(d, {"TimerCanceled"})
    <3>1. PICK e : e.type = "TimerCanceled" /\ e.id = d.id /\ history' = Append(history, e)
      BY <2>8 DEF RecordsOne
    <3>2. NotEnded(history, d.id)
      BY <2>2, <2>8, OutcomesAssumption DEF Sendable, ClosesWorkflow
    <3>3. \A i \in DOMAIN history : EndsTimer(history[i]) => history[i].id # d.id
      BY <3>2 DEF NotEnded, EndsTimer, EndTypes, SubjectIn, RefTypes, activity_close_types
    <3>4. IsSeq(<< e >>) /\ DOMAIN << e >> = {1} /\ << e >>[1] = e
      BY TuplesAreSeqs
    <3>5. history' = history \o << e >>
      BY <1>1, <3>1, AppendIsBehind
    <3>6. EndedOnce(<< e >>) /\ EndedApart(history, << e >>)
      BY <3>1, <3>3, <3>4 DEF EndedOnce, EndedApart
    <3>7. EndedOnce(history')
      BY <1>1, <3>4, <3>5, <3>6, EndsConcat DEF TimersInv
    <3>8. PICK b : b = buffered'
      OBVIOUS
    <3>9. /\ EndedOnce(b) /\ EndedApart(history, b)
          /\ \A k \in DOMAIN b : EndsTimer(b[k]) => b[k].id # d.id
      <4>1. CASE UNCHANGED buffered /\ \A k \in DOMAIN buffered : ~IsFiringOf(d.id, buffered[k])
        <5>1. \A k \in DOMAIN buffered : buffered[k].type # "TimerCanceled"
          BY DEF HistoryInv, WrittenInv, Writable, RefTypes, activity_close_types
        <5> QED BY <3>8, <4>1, <5>1 DEF TimersInv, EndsTimer, IsFiringOf
      <4>2. ASSUME NEW i \in DOMAIN buffered, IsFiringOf(d.id, buffered[i]), buffered' = SE!RemoveAt(buffered, i)
            PROVE  /\ EndedOnce(b) /\ EndedApart(history, b)
                   /\ \A k \in DOMAIN b : EndsTimer(b[k]) => b[k].id # d.id
        <5>1. /\ EndedOnce(b)
              /\ \A u : EndedApart(u, buffered) => EndedApart(u, b)
              /\ EndsTimer(buffered[i]) => \A k \in DOMAIN b : EndsTimer(b[k]) => b[k].id # buffered[i].id
          BY <1>1, <3>8, <4>2, TimersRemoved DEF TimersInv
        <5> QED BY <4>2, <5>1 DEF TimersInv, EndsTimer, IsFiringOf
      <4> QED BY <1>12, <2>1, <2>8, <4>1, <4>2, FiringIsDropped
    <3>10. EndedApart(<< e >>, b)
      BY <3>1, <3>4, <3>9 DEF EndedApart
    <3>11. EndedApart(history \o << e >>, b)
      BY <1>1, <3>4, <3>9, <3>10, EndsConcat
    <3> QED BY <3>5, <3>7, <3>8, <3>9, <3>11 DEF TimersInv
  <2> QED BY <2>2, <2>4, <2>5, <2>6, <2>7, <2>8
<1>13. ASSUME FinishDecisionTask PROVE TimersInv'
  BY <1>1, <1>10, <1>13 DEF FinishDecisionTask, TimersInv
<1>14. ASSUME DecisionTaskTimesOut \/ RespondDecisionTaskFailed PROVE TimersInv'
  BY <1>11, <1>14 DEF DecisionTaskTimesOut, RespondDecisionTaskFailed, unsuccessful
<1>15. ASSUME RespondDecisionTaskCompleted PROVE TimersInv'
  BY <1>9, <1>11, <1>15 DEF RespondDecisionTaskCompleted, unsuccessful
<1>16. ASSUME PollDecisionTask PROVE TimersInv'
  BY <1>9, <1>16 DEF PollDecisionTask
<1> QED BY <1>6, <1>7, <1>8, <1>12, <1>13, <1>14, <1>15, <1>16 DEF ServiceNext

-----------------------------------------------------------------------------
(* Events find their machines                                              *)

\* The activities these events schedule can be found by the ids of the events.
FoundByEvent(A) ==
    \A i \in A : history[i].type = "ActivityTaskScheduled" =>
        << "ACTIVITY", "ref", i >> \in DOMAIN aliases

\* Those that were handled can.
RefsInv == phase \in EnginePhases => FoundByEvent(Applied)

\* No alias is dropped by the worker.
LEMMA AliasesStay ==
    ASSUME EngineNext \/ WorkflowNext
    PROVE  DOMAIN aliases \subseteq DOMAIN aliases'
<1>1. ASSUME NEW id, NEW m, Add(id, m) PROVE DOMAIN aliases \subseteq DOMAIN aliases'
  BY <1>1 DEF Add
<1>2. ASSUME NEW type, NEW props, NEW request, Request(type, props, request)
      PROVE  DOMAIN aliases \subseteq DOMAIN aliases'
  BY <1>1, <1>2 DEF Request
<1>3. ASSUME NEW id, request_cancel(id) PROVE DOMAIN aliases \subseteq DOMAIN aliases'
  BY <1>3 DEF request_cancel
<1>4. ASSUME NEW e, NEW p, handle_history_event(e, p) PROVE DOMAIN aliases \subseteq DOMAIN aliases'
  BY <1>4 DEF handle_history_event
<1>5. ASSUME NEW outcome, complete_workflow(outcome) PROVE DOMAIN aliases \subseteq DOMAIN aliases'
  BY <1>1, <1>5 DEF complete_workflow
<1>6. CASE WorkflowNext
  BY <1>2, <1>3, <1>6 DEF WorkflowNext, ExecuteActivity, schedule_activity, StartTimer, start_timer, CancelFuture,
      AutomaticCancel, RejectionUnwinds, Return, continue_as_new, Ends, Yield, managerVars
<1>7. CASE MaybeCompleteWorkflow
  BY <1>5, <1>7 DEF MaybeCompleteWorkflow, managerVars, RaiseInEngine
<1>8. CASE ApplyInputEvent \/ ApplyOutputEvent
  BY <1>4, <1>8 DEF ApplyInputEvent, ApplyOutputEvent
<1>9. CASE NextDecisionEvents \/ CollectDecisions \/ StartRun \/ EndExecution \/ FinishBatch
  BY <1>9 DEF NextDecisionEvents, CollectDecisions, StartRun, EndExecution, FinishBatch,
              managerVars, RaiseInEngine, start_execution, end_execution
<1> QED BY <1>6, <1>7, <1>8, <1>9 DEF EngineNext

\* An activity that is told of its scheduled event can be found by it.
LEMMA WorkerKeepsRefs ==
    ASSUME IInv, KeysInv', HistoryInv, EngineStateInv, RefsInv, EngineNext \/ WorkflowNext
    PROVE  RefsInv'
<1>1. SUFFICES ASSUME phase' \in EnginePhases PROVE FoundByEvent(Applied)'
  BY DEF RefsInv
<1>2. UNCHANGED history /\ phase \in EnginePhases /\ DOMAIN aliases \subseteq DOMAIN aliases'
  BY WorkerWritesNothing, AliasesStay
<1>3. FoundByEvent(Applied)
  BY <1>2 DEF RefsInv
<1>4. CASE ~ApplyInputEvent /\ ~ApplyOutputEvent
  <2>1. Applied' = Applied
    BY <1>1, <1>4, AppliedStays DEF EngineStateInv
  <2> QED BY <1>2, <1>3, <2>1 DEF FoundByEvent
<1>5. CASE ApplyInputEvent \/ ApplyOutputEvent
  <2>1. /\ phase \in {"input", "output"} /\ phase' = phase /\ raised' = "none"
        /\ todo # << >> /\ todo' = Tail(todo) /\ UNCHANGED << history, pos, batch >>
        /\ handle_history_event(history[Head(todo)], Head(todo))
    BY <1>1, <1>5 DEF ApplyInputEvent, ApplyOutputEvent, Continue, serviceVars, EnginePhases
  <2>2. PICK p : p = Head(todo)
    OBVIOUS
  <2>3. UNCHANGED replaying /\ PlaceInv /\ handle_history_event(history[p], p)
    BY Zenon, <2>1, <2>2 DEF handle_history_event, EngineStateInv
  <2>4. /\ p \in DOMAIN history
        /\ HasHandler(p) => /\ Applied' = Applied \cup {p}
                            /\ Applied = {i \in 1..(p - 1) : HasHandler(i)}
        /\ ~HasHandler(p) => Applied' = Applied
    BY <2>1, <2>2, <2>3, HeadIsHandled
  <2>5. CASE ~HasHandler(p)
    BY <1>2, <1>3, <2>4, <2>5 DEF FoundByEvent
  <2>6. CASE HasHandler(p)
    <3>1. PICK A : A = Applied
      OBVIOUS
    <3>2. AliasesAgree(A)
      BY <1>2, <3>1 DEF EngineStateInv, AgreeInv, Agree, AliasesAgree
    <3>3. aliases' = IF history[p].type = "ActivityTaskScheduled"
                     THEN [a \in DOMAIN aliases \cup {<< "ACTIVITY", "ref", p >>} |->
                               IF a = << "ACTIVITY", "ref", p >> THEN Subject(p) ELSE aliases[a]]
                     ELSE aliases
      <4>1. AliasesAgree(A) /\ HasHandler(p) /\ handle_history_event(history[p], p) /\ raised' = "none"
        BY <2>1, <2>3, <2>6, <3>2
      <4> QED BY Zenon, <4>1, EventFindsItsMachine
    <3>4. PICK x, b : x = Subject(p) /\ b = << "ACTIVITY", "ref", p >>
      OBVIOUS
    <3>5. history[p].type = "ActivityTaskScheduled" => b \in DOMAIN aliases'
      BY <3>3, <3>4
    <3> QED BY <1>2, <1>3, <2>4, <2>6, <3>4, <3>5 DEF FoundByEvent
  <2> QED BY <2>5, <2>6
<1> QED BY <1>4, <1>5

\* A new engine was told of nothing.
LEMMA ServiceKeepsRefs ==
    ASSUME IInv, EngineStateInv, ServiceNext
    PROVE  RefsInv'
<1>1. CASE PollDecisionTask
  <2>1. phase' = "next" /\ pos' = 1
    BY <1>1 DEF PollDecisionTask, EngineStateInv, IdleInv
  <2>2. Applied' = {}
    BY <2>1 DEF Applied, Pending
  <2> QED BY <2>2 DEF RefsInv, FoundByEvent
<1>2. CASE ~PollDecisionTask
  BY <1>2, ServiceLeavesTheEngine DEF RefsInv, EnginePhases
<1> QED BY <1>1, <1>2

\* The machine of an event that is handled next, and the alias it is found by.
LEMMA EventHasItsMachine ==
    ASSUME ~ImmediateCancel, IInv, KeysInv, HistoryInv, EngineStateInv, NumberedInv, ToldInv, RefsInv, InputInv,
           phase \in {"input", "output"}, todo # << >>, NEW p, p = Head(todo), HasHandler(p),
           p \in DOMAIN history, Applied = {i \in 1..(p - 1) : HasHandler(i)},
           NEW h, h = type_to_action[history[p].type]
    PROVE  /\ << h.type, h.attr, history[p][h.attr] >> \in DOMAIN aliases
           /\ aliases[<< h.type, h.attr, history[p][h.attr] >>] = Subject(p)
           /\ Subject(p) \in DOMAIN state_machines \ {COMPLETION_ID} /\ Subject(p).type = h.type
<1>1. PICK A : A = Applied
  OBVIOUS
<1>2. /\ phase \in EnginePhases /\ AliasesAgree(A) /\ EventsAgree(A) /\ FoundByEvent(A) /\ AliasesResolve
      /\ A = {i \in 1..(p - 1) : HasHandler(i)}
  BY <1>1 DEF EnginePhases, EngineStateInv, AgreeInv, Agree, AliasesAgree, EventsAgree, RefsInv, FoundByEvent,
              IInv, ManagerInv, MachinesInv
<1>3. PICK e : e = history[p]
  OBVIOUS
<1>4. PICK n \in Nat : n = Len(history) /\ DOMAIN history = 1..n
  BY LenProperties DEF IInv, ServiceInv, IsSeq
<1>5. Follows(history, p - 1, e) /\ p \in 1..n
  BY <1>3, <1>4 DEF HistoryInv, WrittenInv, Written
<1>6. /\ e.type \in DOMAIN type_to_action
      /\ h.type \in {"ACTIVITY", "TIMER"}
      /\ h.type = "TIMER" <=> e.type \in {"TimerStarted", "TimerFired", "TimerCanceled", "CancelTimerFailed"}
      /\ h.attr = IF e.type \in RefTypes THEN "ref" ELSE "id"
  <2>1. e.type \in DOMAIN type_to_action /\ h = type_to_action[e.type]
    BY <1>3 DEF HasHandler
  <2> QED BY <2>1, HandlerTable
<1>7. /\ IsSeq(todo) /\ 1 \in DOMAIN todo /\ p = todo[1] /\ p \in Elems(todo)
  <2>1. IsSeq(todo)
    BY <1>2 DEF EngineStateInv, PlaceInv, BatchInv, InBatch, EnginePhases
  <2> QED BY <2>1, HeadAndTail DEF Elems
<1>8. ASSUME NEW i \in 1..(p - 1), history[i].type \in {"TimerStarted", "ActivityTaskScheduled",
                                                       "ActivityTaskCancelRequested"}
      PROVE  /\ history[i].id \in DOMAIN state_machines \ {COMPLETION_ID}
             /\ history[i].id.type = IF history[i].type = "TimerStarted" THEN "TIMER" ELSE "ACTIVITY"
             /\ i \in A
  <2>1. HasHandler(i) /\ Subject(i) = history[i].id
    BY <1>8 DEF HasHandler, type_to_action, Subject, SubjectIn, RefTypes, activity_close_types
  <2>2. i \in A
    BY <1>2, <2>1
  <2>3. type_to_action[history[i].type].type = IF history[i].type = "TimerStarted" THEN "TIMER" ELSE "ACTIVITY"
    BY <1>8 DEF type_to_action, Handler
  <2> QED BY <1>2, <2>1, <2>2, <2>3 DEF EventsAgree
<1>9. CASE e.type \in RefTypes
  <2>1. PICK r : r = e.ref
    OBVIOUS
  <2>2. r \in 1..(p - 1) /\ history[r].type = "ActivityTaskScheduled"
    BY <1>5, <1>9, <2>1 DEF Follows
  <2>3. history[r].id \in DOMAIN state_machines \ {COMPLETION_ID} /\ history[r].id.type = "ACTIVITY" /\ r \in A
    BY <1>8, <2>2
  <2>4. PICK a : a = << "ACTIVITY", "ref", r >>
    OBVIOUS
  <2>5. a \in DOMAIN aliases
    BY <1>2, <2>2, <2>3, <2>4 DEF FoundByEvent
  <2>6. a[2] = "ref" /\ a[3] = r
    BY <2>4
  <2>7. a # AliasOf(aliases[a])
    <3>1. \A id : AliasOf(id)[2] = "id"
      BY DEF AliasOf
    <3> QED BY <2>6, <3>1
  <2>8. history[r].id = aliases[a]
    BY <1>2, <2>5, <2>6, <2>7 DEF AliasesAgree
  <2>9. h.attr = "ref" /\ h.type = "ACTIVITY"
    BY <1>6, <1>9 DEF RefTypes, activity_close_types
  <2>10. history[p][h.attr] = r /\ Subject(p) = history[r].id
    <3>1. e["ref"] = e.ref
      OBVIOUS
    <3> QED BY <1>3, <1>9, <2>1, <2>9, <3>1 DEF Subject, SubjectIn
  <2> QED BY <2>3, <2>4, <2>5, <2>8, <2>9, <2>10
<1>10. CASE e.type \notin RefTypes
  <2>1. h.attr = "id" /\ Subject(p) = e.id /\ history[p][h.attr] = e.id
    <3>1. e["id"] = e.id
      OBVIOUS
    <3> QED BY <1>3, <1>6, <1>10, <3>1 DEF Subject, SubjectIn
  <2>2. PICK x : x = e.id
    OBVIOUS
  <2>3. x \in DOMAIN state_machines \ {COMPLETION_ID} /\ x.type = h.type
    <3>1. CASE e.type \in StartTypes
      <4>1. phase = "output"
        <5>1. is_decision_event(e)
          BY <3>1 DEF is_decision_event, decision_event_types, StartTypes
        <5> QED BY <1>3, <1>7, <5>1 DEF InputInv
      <4>2. x \in DOMAIN state_machines
        BY <1>3, <1>7, <2>2, <3>1, <4>1 DEF ToldInv
      <4>3. x.type = h.type
        <5>1. /\ e.type = "ActivityTaskScheduled" => x \in CommandIds("ACTIVITY")
              /\ e.type = "TimerStarted" => x \in CommandIds("TIMER")
          BY <1>3, <2>2 DEF NumberedInv, NumberedIn
        <5> QED BY <1>6, <3>1, <5>1 DEF StartTypes, CommandIds, DecisionId
      <4>4. x # COMPLETION_ID
        BY <1>6, <4>3 DEF COMPLETION_ID, DecisionId
      <4> QED BY <4>2, <4>3, <4>4
    <3>2. CASE e.type \in {"TimerFired", "TimerCanceled"}
      <4>1. PICK i \in 1..(p - 1) : history[i].type = "TimerStarted" /\ history[i].id = x
        BY <1>5, <2>2, <3>2 DEF Follows, CancelTypes
      <4> QED BY <1>6, <1>8, <3>2, <4>1
    <3>3. CASE e.type = "ActivityTaskCancelRequested"
      <4>1. PICK i \in 1..(p - 1) : history[i].type = "ActivityTaskScheduled" /\ history[i].id = x
        BY <1>5, <2>2, <3>3 DEF Follows, CancelTypes
      <4> QED BY <1>6, <1>8, <3>3, <4>1
    <3>4. CASE e.type = "RequestCancelActivityTaskFailed"
      <4>1. PICK i \in 1..(p - 1) : history[i].type = "ActivityTaskCancelRequested" /\ history[i].id = x
        BY <1>5, <2>2, <3>4 DEF Follows
      <4> QED BY <1>6, <1>8, <3>4, <4>1
    <3>5. e.type # "CancelTimerFailed"
      BY <1>5 DEF Follows
    <3>6. e.type \in StartTypes \cup RefTypes \cup {"TimerFired", "TimerCanceled", "ActivityTaskCancelRequested",
                                                   "RequestCancelActivityTaskFailed", "CancelTimerFailed"}
      BY <1>6 DEF type_to_action, StartTypes, RefTypes, activity_close_types
    <3> QED BY <1>10, <3>1, <3>2, <3>3, <3>4, <3>5, <3>6
  <2>4. AliasOf(x) \in DOMAIN aliases /\ aliases[AliasOf(x)] = x
    BY <1>2, <2>3 DEF AliasesResolve
  <2>5. AliasOf(x) = << h.type, "id", x >>
    BY <2>3 DEF AliasOf
  <2> QED BY <2>1, <2>2, <2>3, <2>4, <2>5
<1> QED BY <1>9, <1>10

\* What is handled next is behind all that was handled.
LEMMA HeadIsNext ==
    ASSUME IInv, PlaceInv, phase \in {"input", "output"}, todo # << >>, NEW p, p = Head(todo)
    PROVE  /\ IsSeq(todo) /\ 1 \in DOMAIN todo /\ p = todo[1] /\ p \in Elems(todo)
           /\ p \in DOMAIN history /\ p \in 1..(pos - 1)
           /\ HasHandler(p) => Applied = {i \in 1..(p - 1) : HasHandler(i)}
<1>1. /\ IsSeq(history) /\ IsSeq(todo) /\ IsSeq(batch.output) /\ First \in Nat
      /\ \A k \in DOMAIN batch.output : batch.output[k] = First + k - 1
      /\ pos \in 1..(Len(history) + 1)
      /\ TodoInv /\ BatchInv /\ OrderInv
  BY DEF IInv, ServiceInv, PlaceInv, BatchInv, PosInv, InBatch, EnginePhases
<1>2. /\ DOMAIN history = 1..Len(history) /\ Len(history) \in Nat
      /\ DOMAIN todo = 1..Len(todo) /\ Len(todo) \in Nat
      /\ DOMAIN batch.output = 1..Len(batch.output) /\ Len(batch.output) \in Nat
  BY <1>1, LenProperties DEF IsSeq
<1>3. 1 \in DOMAIN todo /\ p = todo[1] /\ p \in Elems(todo)
  BY <1>1, HeadAndTail DEF Elems
<1>4. PICK n, m, f, t : /\ n \in Nat /\ m \in Nat /\ n = Len(todo) /\ m = Len(batch.output)
                       /\ f = First /\ t = todo
  BY <1>2
<1>5. p \in 1..(pos - 1)
  <2>1. CASE phase = "input"
    BY <1>1, <1>3, <2>1 DEF TodoInv
  <2>2. CASE phase = "output"
    <3>1. p = pos - n + 1 - 1 /\ n <= m /\ f = pos - m
      BY <1>1, <1>3, <1>4, <2>2 DEF TodoInv, First
    <3>2. \E s \in DOMAIN history : f = s + 1 \/ f = s + 2
      BY <1>1, <1>4 DEF BatchInv, InBatch, EnginePhases
    <3>3. f >= 1 /\ f \in Nat
      BY <1>2, <3>2
    <3>4. n >= 1 /\ pos \in Nat
      BY <1>1, <1>2, <1>3, <1>4
    <3> QED BY <1>4, <3>1, <3>3, <3>4
  <2> QED BY <2>1, <2>2
<1>6. p \in DOMAIN history /\ pos \in Nat
  BY <1>1, <1>2, <1>5
<1>7. ASSUME HasHandler(p), NEW q \in Pending, HasHandler(q) PROVE q \in Int /\ q >= p
  <2>1. CASE phase = "input" /\ q \in Elems(todo)
    <3>1. PICK k \in DOMAIN todo : q = todo[k]
      BY <2>1 DEF Elems
    <3>2. q \in Int /\ (k = 1 \/ p < q)
      BY <1>1, <1>2, <1>3, <1>7, <2>1, <3>1 DEF TodoInv
    <3> QED BY <1>3, <1>5, <3>1, <3>2
  <2>2. CASE phase = "input" /\ q \in Elems(batch.output)
    <3>1. p < f
      BY <1>1, <1>3, <1>4, <1>7, <2>2 DEF TodoInv
    <3>2. PICK k \in DOMAIN batch.output : q = f + k - 1
      BY <1>1, <1>4, <2>2 DEF Elems
    <3>3. k \in Nat /\ k >= 1 /\ f \in Nat
      BY <1>1, <1>2, <1>4, <3>2
    <3> QED BY <1>5, <3>1, <3>2, <3>3
  <2>3. CASE phase = "output"
    <3>1. PICK k \in DOMAIN todo : q = todo[k]
      BY <2>3 DEF Pending, Elems
    <3>2. q = pos - n + k - 1 /\ p = pos - n + 1 - 1
      BY <1>1, <1>3, <1>4, <2>3, <3>1 DEF TodoInv
    <3>3. k \in Nat /\ k >= 1
      BY <1>2, <3>1
    <3> QED BY <1>4, <1>6, <3>2, <3>3
  <2> QED BY <2>1, <2>2, <2>3 DEF Pending
<1>8. p \in Pending
  BY <1>3 DEF Pending
<1>9. ASSUME HasHandler(p) PROVE Applied = {i \in 1..(p - 1) : HasHandler(i)}
  <2>1. ASSUME NEW i \in Applied PROVE i \in 1..(p - 1) /\ HasHandler(i)
    <3>1. i < p /\ i \in 1..(pos - 1) /\ HasHandler(i)
      BY <1>1, <1>8, <1>9, <2>1 DEF OrderInv, Applied
    <3> QED BY <1>5, <1>6, <3>1
  <2>2. ASSUME NEW i \in 1..(p - 1), HasHandler(i) PROVE i \in Applied
    <3>1. i \notin Pending
      BY <1>5, <1>7, <1>9, <2>2
    <3>2. i \in 1..(pos - 1)
      BY <1>5, <1>6
    <3> QED BY <2>2, <3>1, <3>2 DEF Applied
  <2> QED BY <2>1, <2>2
<1> QED BY <1>1, <1>3, <1>5, <1>6, <1>9

\* The future that the next event sets is open.
LEMMA FutureIsOpen ==
    ASSUME ~ImmediateCancel, IInv, KeysInv, HistoryInv, EngineStateInv, NumberedInv, ToldInv, RefsInv, InputInv,
           FuturesInv, TimersInv, Unwinds, AckInv,
           phase \in {"input", "output"}, todo # << >>, NEW p, p = Head(todo), HasHandler(p),
           history[p].type \in Resolvers
    PROVE  FutureOf(Subject(p)) = "pending"
<1>1. PICK A, id, e : A = Applied /\ id = Subject(p) /\ e = history[p]
  OBVIOUS
<1>2. /\ IsSeq(todo) /\ 1 \in DOMAIN todo /\ p = todo[1] /\ p \in Elems(todo)
      /\ p \in DOMAIN history /\ p \in 1..(pos - 1)
      /\ A = {i \in 1..(p - 1) : HasHandler(i)}
  <2>1. PlaceInv
    BY DEF EngineStateInv
  <2> QED BY <1>1, <2>1, HeadIsNext
<1>3. id \in DOMAIN state_machines \ {COMPLETION_ID} /\ id.type = type_to_action[e.type].type
  BY <1>1, <1>2, EventHasItsMachine
<1>4. FuturesAgree(A) /\ EventsAgree(A) /\ AliasesAgree(A)
  BY <1>1 DEF FuturesInv, EngineStateInv, AgreeInv, Agree, EnginePhases
<1>5. phase = "input"
  <2>1. ~is_decision_event(e)
    BY <1>1 DEF Resolvers, activity_close_types, is_decision_event, decision_event_types
  <2>2. ASSUME phase = "output" PROVE FALSE
    <3>1. /\ IsSeq(batch.output) /\ First \in Nat
          /\ \A k \in DOMAIN batch.output : is_decision_event(history[First + k - 1])
          /\ Len(todo) <= Len(batch.output)
          /\ p = pos - Len(todo) + 1 - 1
      BY <1>2, <2>2 DEF EngineStateInv, PlaceInv, BatchInv, TodoInv, InBatch, EnginePhases
    <3>2. PICK n \in Nat, m \in Nat, f \in Nat :
              /\ n = Len(todo) /\ m = Len(batch.output) /\ f = First
              /\ DOMAIN todo = 1..n /\ DOMAIN batch.output = 1..m
      BY <1>2, <3>1, LenProperties DEF IsSeq
    <3>3. f = pos - m /\ pos \in Nat /\ n >= 1
      BY <1>2, <3>2 DEF First, IInv, ServiceInv
    <3>4. PICK k : k = m - n + 1
      OBVIOUS
    <3>5. k \in 1..m /\ f + k - 1 = p
      BY <3>1, <3>2, <3>3, <3>4
    <3> QED BY <1>1, <2>1, <3>1, <3>2, <3>5
  <2> QED BY <2>2
<1>6. Silent(id)
  BY <1>3, <1>5 DEF AckInv, Unwinds, Settled
<1>7. \A i \in A : i \in 1..(p - 1) /\ i \in DOMAIN history /\ HasHandler(i) /\ i # p
  <2>1. PICK n : n = Len(history) /\ n \in Nat /\ DOMAIN history = 1..n
    BY LenProperties DEF IInv, ServiceInv, IsSeq
  <2>2. p \in 1..n
    BY <1>2, <2>1
  <2>3. \A i \in A : i \in 1..(p - 1) /\ HasHandler(i)
    BY <1>2
  <2>4. \A i \in 1..(p - 1) : i \in 1..n /\ i # p
    BY <2>1, <2>2
  <2> QED BY <2>1, <2>3, <2>4
<1>8. \A i \in A : history[i].type \in EndTypes => ~(Subject(i) = id)
  <2> SUFFICES ASSUME NEW i \in A, history[i].type \in EndTypes, Subject(i) = id PROVE FALSE
    OBVIOUS
  <2>1. id.type = type_to_action[history[i].type].type
    BY <1>4 DEF EventsAgree
  <2>2. type_to_action[history[i].type].type = type_to_action[e.type].type
    BY <1>3, <2>1
  <2>3. CASE e.type \in activity_close_types
    <3>1. history[i].type \in activity_close_types
      <4>1. e.type \in DOMAIN type_to_action /\ history[i].type \in DOMAIN type_to_action
        BY <1>1, <1>7 DEF HasHandler
      <4> QED BY <2>2, <2>3, <4>1, HandlerTable DEF EndTypes, activity_close_types
    <3>2. Written(history) /\ IsSeq(history)
      BY DEF HistoryInv, WrittenInv, IInv, ServiceInv
    <3> QED BY <1>1, <1>2, <1>7, <2>3, <3>1, <3>2, OneEnd
  <2>4. CASE e.type = "TimerFired"
    <3>1. history[i].type \in {"TimerFired", "TimerCanceled"}
      <4>1. e.type \in DOMAIN type_to_action /\ history[i].type \in DOMAIN type_to_action
        BY <1>1, <1>7 DEF HasHandler
      <4> QED BY <2>2, <2>4, <4>1, HandlerTable DEF EndTypes, activity_close_types
    <3>2. Subject(i) = history[i].id /\ id = e.id
      BY <1>1, <2>4, <3>1 DEF Subject, SubjectIn, RefTypes, activity_close_types
    <3>3. EndsTimer(history[i]) /\ EndsTimer(e)
      BY <2>4, <3>1 DEF EndsTimer
    <3>4. EndedOnce(history)
      BY DEF TimersInv
    <3> QED BY <1>1, <1>2, <1>7, <2>4, <3>2, <3>3, <3>4 DEF EndedOnce
  <2> QED BY <1>1, <2>3, <2>4 DEF Resolvers
<1>9. \A i \in A : history[i].type \in Resolvers => Subject(i) # id
  BY <1>8 DEF Resolvers, EndTypes
<1>10. FutureOf(id) = IF GivenUpBy(id) THEN "cancelled" ELSE "pending"
  BY <1>3, <1>4, <1>9 DEF FuturesAgree
<1>11. ~GivenUpBy(id)
  <2>1. StateOf(id) \notin {"CANCELED_AFTER_REQUESTED", "CANCELED_AFTER_RECORDED"}
    BY <1>6 DEF Silent
  <2>2. id.type # "ACTIVITY" => StateOf(id) # "COMPLETED"
    BY <1>3, <1>4, <1>8 DEF KeysInv, FuturesAgree
  <2> QED BY <2>1, <2>2 DEF GivenUpBy
<1> QED BY <1>1, <1>10, <1>11

\* No event of the history is refused by its machine.
LEMMA EventIsHandled ==
    ASSUME ~ImmediateCancel, IInv, KeysInv, HistoryInv, EngineStateInv, NumberedInv, ToldInv, RefsInv, InputInv,
           FuturesInv, TimersInv, Unwinds, AckInv,
           phase \in {"input", "output"}, todo # << >>, NEW p, p = Head(todo),
           handle_history_event(history[p], p)
    PROVE  raised' = "none"
<1>1. CASE ~HasHandler(p)
  BY <1>1 DEF handle_history_event, HasHandler
<1>2. CASE HasHandler(p)
  <2>1. PICK h : h = type_to_action[history[p].type]
    OBVIOUS
  <2>2. PlaceInv
    BY DEF EngineStateInv
  <2>3. p \in DOMAIN history /\ Applied = {i \in 1..(p - 1) : HasHandler(i)}
    BY <1>2, <2>2, HeadIsNext
  <2>4. PICK a : a = << h.type, h.attr, history[p][h.attr] >>
    OBVIOUS
  <2>5. a \in DOMAIN aliases /\ aliases[a] = Subject(p)
    BY <1>2, <2>1, <2>3, <2>4, EventHasItsMachine
  <2>6. history[p].type \in DOMAIN type_to_action
    BY <1>2 DEF HasHandler
  <2>7. raised' = IF a \notin DOMAIN aliases THEN "KeyError"
                  ELSE IF Resolvable(h, state_machines[aliases[a]]) THEN "none" ELSE "InvalidStateError"
    BY <2>1, <2>4, <2>6 DEF handle_history_event
  <2>8. Resolvable(h, state_machines[Subject(p)])
    <3>1. h.future \in {"result", "exception"} => history[p].type \in Resolvers
      BY <2>1, <2>6, HandlerTable
    <3>2. history[p].type \in Resolvers => FutureOf(Subject(p)) = "pending"
      BY <1>2, FutureIsOpen
    <3> QED BY <3>1, <3>2 DEF Resolvable, FutureOf
  <2> QED BY <2>5, <2>7, <2>8
<1> QED BY <1>1, <1>2

-----------------------------------------------------------------------------
(* A batch names everything once                                           *)

\* What an event starts or cancels was started by an event of the type of its id;
\* a cancellation is of an earlier task.
LEMMA SaidIsBegun ==
    ASSUME IInv, WrittenInv, NumberedInv, NEW x \in DOMAIN history, Said(history[x])
    PROVE  \E i \in 1..x :
               /\ history[i].id = history[x].id
               /\ history[i].type = IF history[x].id.type = "TIMER" THEN "TimerStarted" ELSE "ActivityTaskScheduled"
               /\ history[x].type \in StartTypes => i = x
               /\ history[x].type \in CancelTypes =>
                      i < x /\ \E s \in i..(x - 1) : history[s].type = "DecisionTaskStarted"
<1>1. DOMAIN history = 1..Len(history) /\ Len(history) \in Nat
  BY LenProperties DEF IInv, ServiceInv, IsSeq
<1>2. \A i \in DOMAIN history :
          /\ history[i].type = "ActivityTaskScheduled" => history[i].id.type = "ACTIVITY"
          /\ history[i].type = "TimerStarted" => history[i].id.type = "TIMER"
  BY DEF NumberedInv, NumberedIn, CommandIds, DecisionId
<1>3. CASE history[x].type \in StartTypes
  <2>1. history[x].type \notin CancelTypes /\ x \in 1..x
    BY <1>1, <1>3 DEF StartTypes, CancelTypes
  <2>2. history[x].type = IF history[x].id.type = "TIMER" THEN "TimerStarted" ELSE "ActivityTaskScheduled"
    BY <1>2, <1>3 DEF StartTypes
  <2> QED BY <2>1, <2>2
<1>4. CASE history[x].type \in CancelTypes
  <2>1. Follows(history, x - 1, history[x])
    BY DEF WrittenInv, Written
  <2>2. PICK i \in 1..(x - 1) :
            /\ history[i].type = IF history[x].type = "TimerCanceled" THEN "TimerStarted" ELSE "ActivityTaskScheduled"
            /\ history[i].id = history[x].id
            /\ \E s \in i..(x - 1) : history[s].type = "DecisionTaskStarted"
    BY <1>4, <2>1 DEF Follows
  <2>3. i \in 1..x /\ i < x /\ i \in DOMAIN history
    BY <1>1, <2>2
  <2>4. history[i].type = IF history[x].id.type = "TIMER" THEN "TimerStarted" ELSE "ActivityTaskScheduled"
    BY <1>2, <2>2, <2>3
  <2>5. history[x].type \notin StartTypes
    BY <1>4 DEF StartTypes, CancelTypes
  <2> QED BY <2>2, <2>3, <2>4, <2>5
<1> QED BY <1>3, <1>4 DEF Said

\* A run of decision events starts or cancels nothing twice.
LEMMA RunNamesOnce ==
    ASSUME IInv, WrittenInv, NumberedInv, NEW p \in DOMAIN history, NEW q \in DOMAIN history, p < q,
           \A i \in p..q : is_decision_event(history[i]), Said(history[p]), Said(history[q])
    PROVE  history[p].id # history[q].id
<1> SUFFICES ASSUME history[p].id = history[q].id PROVE FALSE
  OBVIOUS
<1>1. DOMAIN history = 1..Len(history) /\ Len(history) \in Nat
  BY LenProperties DEF IInv, ServiceInv, IsSeq
<1>2. PICK i \in 1..p :
          /\ history[i].id = history[p].id
          /\ history[i].type = IF history[p].id.type = "TIMER" THEN "TimerStarted" ELSE "ActivityTaskScheduled"
          /\ history[p].type \in StartTypes => i = p
          /\ history[p].type \in CancelTypes =>
                 i < p /\ \E s \in i..(p - 1) : history[s].type = "DecisionTaskStarted"
  BY SaidIsBegun
<1>3. PICK j \in 1..q :
          /\ history[j].id = history[q].id
          /\ history[j].type = IF history[q].id.type = "TIMER" THEN "TimerStarted" ELSE "ActivityTaskScheduled"
          /\ history[q].type \in StartTypes => j = q
          /\ history[q].type \in CancelTypes =>
                 j < q /\ \E s \in j..(q - 1) : history[s].type = "DecisionTaskStarted"
  BY SaidIsBegun
<1>4. i \in DOMAIN history /\ j \in DOMAIN history /\ history[i].type = history[j].type /\ history[i].id = history[j].id
  BY <1>1, <1>2, <1>3
<1>5. \A a, b \in DOMAIN history :
          a < b /\ history[a].type = history[b].type /\ is_decision_event(history[b]) /\ history[b].type # "MarkerRecorded"
          => history[a].id # history[b].id
  <2> SUFFICES ASSUME NEW a \in DOMAIN history, NEW b \in DOMAIN history, a < b,
                      history[a].type = history[b].type, is_decision_event(history[b]), history[b].type # "MarkerRecorded"
               PROVE  history[a].id # history[b].id
    OBVIOUS
  <2>1. Follows(history, b - 1, history[b]) /\ a \in 1..(b - 1)
    BY <1>1 DEF WrittenInv, Written
  <2> QED BY <2>1 DEF Follows, is_decision_event
<1>6. i = j
  <2>1. history[i].type # "MarkerRecorded" /\ is_decision_event(history[i]) /\ is_decision_event(history[j])
    BY <1>2, <1>4 DEF is_decision_event, decision_event_types
  <2>2. i \in Int /\ j \in Int
    BY <1>1, <1>4
  <2> QED BY <1>4, <1>5, <2>1, <2>2
<1>7. i <= p /\ i < q /\ i \in Int /\ p \in Int /\ q \in Int
  BY <1>1, <1>2
<1>8. history[q].type \in CancelTypes
  BY <1>3, <1>6, <1>7 DEF Said
<1>9. PICK s \in i..(q - 1) : history[s].type = "DecisionTaskStarted"
  BY <1>3, <1>6, <1>8
<1>10. s < p
  <2>1. ~is_decision_event(history[s])
    BY <1>9 DEF is_decision_event, decision_event_types
  <2> QED BY <1>7, <1>9, <2>1
<1>11. history[p].type \in CancelTypes
  BY <1>2, <1>7, <1>9, <1>10 DEF Said
<1>12. history[p].type = history[q].type
  <2>1. ASSUME NEW x \in DOMAIN history, history[x].type \in CancelTypes
        PROVE  history[x].type = IF history[x].id.type = "TIMER" THEN "TimerCanceled" ELSE "ActivityTaskCancelRequested"
    <3>1. Follows(history, x - 1, history[x])
      BY DEF WrittenInv, Written
    <3>2. PICK k \in 1..(x - 1) :
              /\ history[k].type = IF history[x].type = "TimerCanceled" THEN "TimerStarted" ELSE "ActivityTaskScheduled"
              /\ history[k].id = history[x].id
      BY <2>1, <3>1 DEF Follows
    <3>3. k \in DOMAIN history
      BY <1>1, <3>2
    <3>4. /\ history[k].type = "ActivityTaskScheduled" => history[k].id.type = "ACTIVITY"
          /\ history[k].type = "TimerStarted" => history[k].id.type = "TIMER"
      BY <3>3 DEF NumberedInv, NumberedIn, CommandIds, DecisionId
    <3> QED BY <2>1, <3>2, <3>4 DEF CancelTypes
  <2> QED BY <1>8, <1>11, <2>1
<1>13. is_decision_event(history[q]) /\ history[q].type # "MarkerRecorded"
  BY <1>7, <1>8 DEF CancelTypes
<1> QED BY <1>5, <1>12, <1>13

\* The iterator finds a batch, and the tracker takes its events.
LEMMA BatchIsTaken ==
    ASSUME ~ImmediateCancel, IInv, HistoryInv, EngineStateInv, NumberedInv, EntriesInv, TasksInv, NextDecisionEvents
    PROVE  raised' = "none"
<1>1. PICK n \in Nat : n = Len(history) /\ DOMAIN history = 1..n /\ IsSeq(history)
  BY LenProperties DEF IInv, ServiceInv, IsSeq
<1>2. phase = "next" /\ ~Exhausted(history, pos) /\ expectations = << >> /\ pos \in 1..(n + 1) /\ pos \in Nat \ {0}
  BY <1>1 DEF NextDecisionEvents, EntriesInv, EngineStateInv, PlaceInv, PosInv, EnginePhases
<1>3. ~Malformed(history, pos)
  <2> SUFFICES ASSUME NEW i \in Passed(history, pos), IsStarted(history, i), history[i + 1].type \notin unsuccessful
               PROVE  FALSE
    BY DEF Malformed
  <2>1. i \in pos..n /\ ~EndsSearch(history, i)
    BY <1>1, <1>2 DEF Passed
  <2>2. i < n /\ history[i + 1].type # "DecisionTaskCompleted"
    BY <1>1, <2>1 DEF EndsSearch
  <2>3. i = n \/ history[i + 1].type \in TaskEnds
    BY <1>1 DEF TasksInv, AllAnsweredTasks, IsStarted
  <2> QED BY <1>1, <2>1, <2>2, <2>3 DEF TaskEnds
<1>4. PICK b, s : b = NextBatch(history, pos) /\ IsBatch(history, pos, b, s)
  BY <1>1, <1>2, <1>3, NextBatchIsBatch
<1>5. start_execution(b.replay, OutputEvents(b))
  BY <1>3, <1>4 DEF NextDecisionEvents
<1>6. PICK f : f = IF b.replay THEN s + 2 ELSE s + 1
  OBVIOUS
<1>7. /\ s \in pos..n /\ b.next \in f..(n + 1)
      /\ \A i \in f..(b.next - 1) : is_decision_event(history[i])
      /\ b.output = [k \in 1..(b.next - f) |-> f + k - 1]
  BY <1>1, <1>4, <1>6 DEF IsBatch
<1>8. PICK m \in Nat : f \in Nat /\ f >= 1 /\ m = b.next - f /\ m + f <= n + 1 /\ DOMAIN b.output = 1..m
  BY <1>2, <1>6, <1>7
<1>9. \A k \in 1..m : /\ b.output[k] = f + k - 1 /\ f + k - 1 \in f..(b.next - 1)
                      /\ f + k - 1 \in DOMAIN history
  BY <1>1, <1>7, <1>8
<1>10. PICK added : added = [k \in 1..m |-> Expectation(history[f + k - 1])]
  OBVIOUS
<1>11. IsSeq(added) /\ DOMAIN added = 1..m
  BY <1>10, FunctionIsSeq
<1>12. expectations \o [i \in DOMAIN OutputEvents(b) |-> Expectation(OutputEvents(b)[i])] = added
  <2>1. DOMAIN OutputEvents(b) = 1..m
    BY <1>8, OutputEventsIsSeq
  <2>2. \A k \in 1..m : OutputEvents(b)[k] = history[f + k - 1]
    BY <1>8, <1>9 DEF OutputEvents
  <2>3. [i \in DOMAIN OutputEvents(b) |-> Expectation(OutputEvents(b)[i])] = added
    BY <1>10, <2>1, <2>2
  <2>4. << >> \o added = added
    BY <1>11 DEF IsSeq
  <2> QED BY <1>2, <2>3, <2>4
<1>13. ~Duplicate(added)
  <2>1. ASSUME NEW k \in 1..m, added[k].upcoming # << >> PROVE Said(history[f + k - 1])
    <3>1. PICK x \in DOMAIN history : x = f + k - 1 /\ is_decision_event(history[x])
      BY <1>7, <1>9
    <3>2. upcomingFor(history[x]) # << >>
      BY <1>10, <2>1, <3>1 DEF Expectation
    <3>3. history[x].type \in StartTypes \cup CancelTypes
      BY <1>2, <3>1, <3>2, BindingEvents DEF EnginePhases
    <3> QED BY <3>1, <3>3 DEF Said
  <2>2. ASSUME NEW k \in 1..m, NEW l \in 1..m, k < l, added[k].upcoming # << >>, added[l].upcoming # << >>
        PROVE  added[k].id # added[l].id
    <3>1. PICK p, q : p = f + k - 1 /\ q = f + l - 1
      OBVIOUS
    <3>2. p \in DOMAIN history /\ p \in f..(b.next - 1)
      BY <1>9, <3>1
    <3>3. q \in DOMAIN history /\ q \in f..(b.next - 1)
      BY <1>9, <3>1
    <3>4. p < q
      BY <1>8, <2>2, <3>1
    <3>5. \A i \in p..q : is_decision_event(history[i])
      <4>1. f \in Int /\ b.next - 1 \in Int
        BY <1>7, <1>8
      <4>2. \A i \in p..q : i \in f..(b.next - 1)
        BY <3>2, <3>3, <4>1
      <4> QED BY <1>7, <4>2
    <3>6. Said(history[p]) /\ Said(history[q])
      BY <2>1, <2>2, <3>1
    <3>7. history[p].id # history[q].id
      BY <3>2, <3>3, <3>4, <3>5, <3>6, RunNamesOnce DEF HistoryInv
    <3> QED BY <1>10, <3>1, <3>7 DEF Expectation
  <2>3. \A k, l \in 1..m : k # l => k < l \/ l < k
    OBVIOUS
  <2> QED BY <1>11, <2>2, <2>3 DEF Duplicate
<1> QED BY <1>5, <1>12, <1>13 DEF start_execution

\* Tasks are answered, timers end once and activities are found, in every history.
LEMMA EventsAreKept ==
    ASSUME ~ImmediateCancel
    PROVE  Spec => [](TasksInv /\ TimersInv /\ RefsInv)
<1>1. Init => TasksInv /\ TimersInv /\ RefsInv
  <2> SUFFICES ASSUME Init PROVE TasksInv /\ TimersInv /\ RefsInv
    OBVIOUS
  <2>1. history = << Event("WorkflowExecutionStarted") >> /\ buffered = << >> /\ phase = "idle"
    BY DEF Init
  <2>2. PICK e : e = Event("WorkflowExecutionStarted")
    OBVIOUS
  <2>3. e.type = "WorkflowExecutionStarted"
    BY <2>2 DEF Event
  <2>4. DOMAIN << e >> = {1} /\ << e >>[1] = e /\ Len(<< e >>) = 1 /\ DOMAIN << >> = {}
    BY EmptyIsSeq
  <2>5. TasksInv
    BY <2>1, <2>2, <2>3, <2>4 DEF TasksInv, AllAnsweredTasks, Waits
  <2>6. TimersInv
    BY <2>1, <2>2, <2>3, <2>4 DEF TimersInv, EndedOnce, EndedApart, EndsTimer
  <2> QED BY <2>1, <2>5, <2>6 DEF RefsInv, EnginePhases
<1>2. IInv /\ ReplayInv /\ TasksInv /\ TimersInv /\ RefsInv /\ [Next]_vars /\ ReplayInv'
      => TasksInv' /\ TimersInv' /\ RefsInv'
  <2> SUFFICES ASSUME IInv, ReplayInv, TasksInv, TimersInv, RefsInv, [Next]_vars, ReplayInv'
               PROVE  TasksInv' /\ TimersInv' /\ RefsInv'
    OBVIOUS
  <2>1. HistoryInv /\ DecisionsInv /\ EngineStateInv /\ KeysInv'
    BY DEF ReplayInv, LastInv
  <2>2. CASE ServiceNext
    BY <2>1, <2>2, ServiceKeepsTasks, ServiceKeepsTimers, ServiceKeepsRefs
  <2>3. CASE EngineNext \/ WorkflowNext
    <3>1. UNCHANGED << history, buffered >> /\ phase' \notin {"idle", "record"}
      BY <2>3, WorkerWritesNothing
    <3>2. TasksInv' /\ TimersInv'
      BY <3>1 DEF TasksInv, TimersInv
    <3>3. RefsInv'
      BY <2>1, <2>3, WorkerKeepsRefs
    <3> QED BY <3>2, <3>3
  <2>4. CASE UNCHANGED vars
    <3>1. UNCHANGED << history, buffered, phase, pos, batch, todo, aliases >>
      BY <2>4 DEF vars, managerVars, serviceVars, engineVars
    <3>2. UNCHANGED Applied
      BY <3>1 DEF Applied, Pending, HasHandler
    <3>3. RefsInv'
      BY <3>1, <3>2 DEF RefsInv, FoundByEvent
    <3> QED BY <3>1, <3>3 DEF TasksInv, TimersInv
  <2> QED BY <2>2, <2>3, <2>4 DEF Next
<1> QED BY <1>1, <1>2, Invariance, ReplayIsSound, PTL DEF Spec

=============================================================================
