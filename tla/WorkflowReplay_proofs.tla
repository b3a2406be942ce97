------------------------ MODULE WorkflowReplay_proofs ------------------------
(***************************************************************************)
(* What holds of WorkflowReplay for every number of activities, timers,    *)
(* calls and lost tasks, and whatever the workflow function does.          *)
(***************************************************************************)
EXTENDS WorkflowReplay, SequenceTheorems, FiniteSetTheorems, WellFoundedInduction, TLAPS

-----------------------------------------------------------------------------
(* The inductive invariant                                                 *)

\* A sequence, of whatever elements.
IsSeq(s) == s \in Seq({s[i] : i \in DOMAIN s})

\* A machine is a record with a state and a future.
MachineOK(m) ==
    /\ m = [state |-> m.state, future |-> m.future, props |-> m.props,
            request |-> m.request]
    /\ m.state \in DecisionState
    /\ m.future \in FutureState

\* A tracker entry expects a start, a cancellation or one behind the other.
EntryOK(e) ==
    /\ e = [id |-> e.id, upcoming |-> e.upcoming]
    /\ IsSeq(e.upcoming)
    /\ Len(e.upcoming) <= 2

\* The manager's machines, with their order, numbers and aliases.
MachinesInv ==
    /\ id_counter \in Nat
    /\ order \in Seq(DecisionIds)
    /\ \A id \in DOMAIN state_machines : MachineOK(state_machines[id])
    /\ OrderIsKeys
    /\ FreshIds
    /\ AliasesResolve

\* The entries of the tracker.
TrackerInv ==
    /\ IsSeq(expectations)
    /\ \A i \in DOMAIN expectations : EntryOK(expectations[i])
    /\ TrackerHoldsOneEntry

\* The flags, and what a call may have raised.
FlagsOK ==
    /\ replaying \in BOOLEAN
    /\ failed \in BOOLEAN
    /\ raised \in {"none", "NonDeterminismError", "FatalDecisionError",
                   "CancelledError", "KeyError", "ValueError",
                   "InvalidStateError"}

\* The history, what waits behind it, and the place of the iterator.
ServiceInv ==
    /\ IsSeq(history)
    /\ IsSeq(buffered)
    /\ pos \in Nat

\* The engine's phase and the state of the workflow's task.
EngineInv ==
    /\ phase \in Phases
    /\ task \in {"none", "running", "FatalDecisionError"} \cup Outcomes

\* Between two batches nothing is replaying.
ReplayOver ==
    phase \in {"idle", "next", "output", "respond", "record"} => ~replaying

\* The manager between any two steps.
ManagerInv == MachinesInv /\ TrackerInv /\ FlagsOK

\* What every step of the worker, the workflow and the service keeps.
IInv == ManagerInv /\ ServiceInv /\ EngineInv

-----------------------------------------------------------------------------
(* Sequences                                                               *)

\* A sequence over any set is a sequence over its own elements.
LEMMA SeqIsSeq ==
    ASSUME NEW S, NEW s \in Seq(S)
    PROVE  /\ IsSeq(s)
           /\ Len(s) \in Nat
           /\ DOMAIN s = 1..Len(s)
<1> DEFINE T == {s[i] : i \in DOMAIN s}
<1>1. Len(s) \in Nat /\ s \in [1..Len(s) -> S] /\ DOMAIN s = 1..Len(s)
  BY LenProperties
<1>2. s \in [1..Len(s) -> T]
  BY <1>1
<1> HIDE DEF T
<1>3. s \in Seq(T)
  BY <1>1, <1>2
<1> QED BY <1>1, <1>3 DEF IsSeq, T

\* So is the empty one.
LEMMA EmptyIsSeq ==
    /\ IsSeq(<< >>)
    /\ DOMAIN << >> = {}
    /\ Len(<< >>) = 0
    /\ << >> \in Seq(DecisionIds)
<1>1. << >> \in Seq(DecisionIds) /\ Len(<< >>) = 0
  BY EmptySeq
<1>2. << >> \in Seq({<< >>[i] : i \in DOMAIN << >>})
  BY EmptySeq
<1>3. DOMAIN << >> = 1..Len(<< >>)
  BY <1>1, LenProperties
<1>4. 1..0 = {}
  OBVIOUS
<1> QED BY <1>1, <1>2, <1>3, <1>4 DEF IsSeq

\* Two sequences one behind the other are a sequence.
LEMMA ConcatIsSeq ==
    ASSUME NEW s, NEW t, IsSeq(s), IsSeq(t)
    PROVE  /\ IsSeq(s \o t)
           /\ DOMAIN (s \o t) = 1..(Len(s) + Len(t))
           /\ \A i \in 1..(Len(s) + Len(t)) :
                  (s \o t)[i] = IF i <= Len(s) THEN s[i] ELSE t[i - Len(s)]
<1> DEFINE S == {s[i] : i \in DOMAIN s} \cup {t[i] : i \in DOMAIN t}
<1>1. s \in Seq(S)
  BY SeqMonotonic DEF IsSeq
<1>2. t \in Seq(S)
  BY SeqMonotonic DEF IsSeq
<1> HIDE DEF S
<1>3. /\ s \o t \in Seq(S)
      /\ Len(s \o t) = Len(s) + Len(t)
      /\ \A i \in 1 .. Len(s) + Len(t) : (s \o t)[i] =
             IF i <= Len(s) THEN s[i] ELSE t[i - Len(s)]
  BY <1>1, <1>2, ConcatProperties
<1> QED BY <1>3, SeqIsSeq

\* So is one with an element appended to it.
LEMMA AppendIsSeq ==
    ASSUME NEW s, NEW x, IsSeq(s)
    PROVE  IsSeq(Append(s, x))
<1> DEFINE S == {s[i] : i \in DOMAIN s} \cup {x}
<1>1. s \in Seq(S) /\ x \in S
  BY SeqMonotonic DEF IsSeq
<1> HIDE DEF S
<1> QED BY <1>1, AppendProperties, SeqIsSeq

\* Moving an element to the end permutes the sequence: what was in it once
\* is in it once, and nothing else is.
LEMMA MoveToEndPermutes ==
    ASSUME NEW S, NEW s \in Seq(S), NEW x, x \in {s[i] : i \in DOMAIN s},
           \A i, j \in DOMAIN s : s[i] = s[j] => i = j
    PROVE  LET t == MoveToEnd(s, x)
           IN  /\ t \in Seq(S)
               /\ \A i, j \in DOMAIN t : t[i] = t[j] => i = j
               /\ {t[i] : i \in DOMAIN t} = {s[i] : i \in DOMAIN s}
<1> DEFINE t == MoveToEnd(s, x)
           n == Len(s)
           at == CHOOSE i \in DOMAIN s : s[i] = x
<1>1. n \in Nat /\ DOMAIN s = 1..n /\ \A i \in 1..n : s[i] \in S
  BY LenProperties
<1>2. at \in 1..n /\ s[at] = x
  BY <1>1
<1>3. t = [i \in 1..n |-> IF i < at THEN s[i] ELSE IF i < n THEN s[i + 1] ELSE x]
  BY <1>1 DEF MoveToEnd
<1> HIDE DEF t, n, at
<1>4. t \in Seq(S)
  <2>1. \A i \in 1..n : (IF i < at THEN s[i] ELSE IF i < n THEN s[i + 1] ELSE x) \in S
    BY <1>1, <1>2
  <2>2. t \in [1..n -> S]
    BY <1>3, <2>1
  <2> QED BY <1>1, <2>2
<1>5. \A i, j \in DOMAIN t : t[i] = t[j] => i = j
  <2> DEFINE from(i) == IF i < at THEN i ELSE IF i < n THEN i + 1 ELSE at
  <2>1. \A i \in 1..n : from(i) \in 1..n /\ t[i] = s[from(i)]
    BY <1>1, <1>2, <1>3
  <2>2. \A i, j \in 1..n : from(i) = from(j) => i = j
    BY <1>1, <1>2
  <2>3. \A i, j \in 1..n : s[i] = s[j] => i = j
    BY <1>1
  <2> HIDE DEF from
  <2> QED BY <2>1, <2>2, <2>3, <1>3
<1>6. {t[i] : i \in DOMAIN t} = {s[i] : i \in DOMAIN s}
  <2>1. \A k \in 1..n : \E i \in 1..n : t[i] = s[k]
    <3> TAKE k \in 1..n
    <3>1. CASE k < at
      BY <1>1, <1>2, <1>3, <3>1
    <3>2. CASE k = at
      <4>1. n \in 1..n /\ t[n] = x
        BY <1>1, <1>2, <1>3, <3>2
      <4> QED BY <4>1, <1>2, <3>2
    <3>3. CASE k > at
      <4>1. k - 1 \in 1..n /\ t[k - 1] = s[k]
        BY <1>1, <1>2, <1>3, <3>3
      <4> QED BY <4>1
    <3> QED BY <1>1, <1>2, <3>1, <3>2, <3>3
  <2>2. \A k \in 1..n : \E i \in 1..n : s[i] = t[k]
    BY <1>1, <1>2, <1>3
  <2>3. {t[i] : i \in 1..n} = {s[i] : i \in 1..n}
    <3> HIDE DEF t, n
    <3>1. ASSUME NEW y \in {t[i] : i \in 1..n} PROVE y \in {s[i] : i \in 1..n}
      <4>1. PICK k \in 1..n : y = t[k]
        OBVIOUS
      <4>2. PICK i \in 1..n : s[i] = t[k]
        BY <2>2
      <4> QED BY <4>1, <4>2
    <3>2. ASSUME NEW y \in {s[i] : i \in 1..n} PROVE y \in {t[i] : i \in 1..n}
      <4>1. PICK k \in 1..n : y = s[k]
        OBVIOUS
      <4>2. PICK i \in 1..n : t[i] = s[k]
        BY <2>1
      <4> QED BY <4>1, <4>2
    <3> QED BY <3>1, <3>2
  <2>4. DOMAIN t = 1..n /\ DOMAIN s = 1..n
    BY <1>1, <1>3
  <2> QED BY <2>3, <2>4
<1> QED BY <1>4, <1>5, <1>6 DEF t

-----------------------------------------------------------------------------
(* The machines                                                            *)

\* The machines are filed under decision ids.
LEMMA KeysAreIds ==
    ASSUME MachinesInv
    PROVE  \A id \in DOMAIN state_machines : id \in DecisionIds /\ id.id \in Nat
<1>1. \A i \in DOMAIN order : order[i] \in DecisionIds
  BY LenProperties DEF MachinesInv
<1>2. \A id \in DOMAIN state_machines : \E i \in DOMAIN order : id = order[i]
  BY DEF MachinesInv, OrderIsKeys
<1> QED BY <1>1, <1>2 DEF DecisionIds

\* _add_state_machine keeps the machines in order when the id it is given is
\* the completion's or one the counter has not yet passed.
LEMMA AddKeepsMachines ==
    ASSUME MachinesInv,
           NEW id \in DecisionIds, NEW machine, MachineOK(machine),
           id_counter' \in Nat, id_counter <= id_counter',
           id # COMPLETION_ID => id_counter <= id.id /\ id.id < id_counter',
           Add(id, machine)
    PROVE  MachinesInv'
<1>1. CASE id \in DOMAIN state_machines
  <2>1. UNCHANGED << state_machines, order, aliases >>
    BY <1>1 DEF Add
  <2>2. FreshIds'
    BY <2>1, KeysAreIds DEF FreshIds, MachinesInv
  <2>3. OrderIsKeys' /\ AliasesResolve'
    BY <2>1 DEF MachinesInv, OrderIsKeys, AliasesResolve
  <2> QED BY <2>1, <2>2, <2>3 DEF MachinesInv
<1>2. CASE id \notin DOMAIN state_machines
  <2>1. /\ state_machines' = [i \in DOMAIN state_machines \cup {id} |->
                                 IF i = id THEN machine ELSE state_machines[i]]
        /\ order' = Append(order, id)
        /\ aliases' = [a \in DOMAIN aliases \cup {AliasOf(id)} |->
                         IF a = AliasOf(id) THEN id ELSE aliases[a]]
    BY <1>2 DEF Add
  <2>2. DOMAIN state_machines' = DOMAIN state_machines \cup {id}
    BY <2>1
  <2>3. \A i \in DOMAIN state_machines' : MachineOK(state_machines'[i])
    BY <2>1 DEF MachinesInv
  <2>4. /\ Len(order) \in Nat
        /\ DOMAIN order = 1..Len(order)
        /\ order' \in Seq(DecisionIds)
        /\ DOMAIN order' = 1..(Len(order) + 1)
        /\ \A i \in 1..Len(order) : order'[i] = order[i]
        /\ order'[Len(order) + 1] = id
    BY <2>1, AppendProperties, LenProperties DEF MachinesInv
  <2>5. OrderIsKeys'
    <3>1. \A i \in DOMAIN order : order[i] # id
      BY <1>2 DEF MachinesInv, OrderIsKeys
    <3>2. \A i, j \in DOMAIN order' : order'[i] = order'[j] => i = j
      BY <2>4, <3>1 DEF MachinesInv, OrderIsKeys
    <3>3. \A y \in DOMAIN state_machines' : \E i \in DOMAIN order' : y = order'[i]
      <4>1. ASSUME NEW y \in DOMAIN state_machines
            PROVE  \E i \in DOMAIN order' : y = order'[i]
        <5>1. PICK i \in DOMAIN order : y = order[i]
          BY DEF MachinesInv, OrderIsKeys
        <5> QED BY <5>1, <2>4
      <4>2. \E i \in DOMAIN order' : id = order'[i]
        BY <2>4
      <4> QED BY <4>1, <4>2, <2>2
    <3>4. \A i \in DOMAIN order' : order'[i] \in DOMAIN state_machines'
      BY <2>2, <2>4 DEF MachinesInv, OrderIsKeys
    <3> QED BY <3>2, <3>3, <3>4 DEF OrderIsKeys
  <2>6. FreshIds'
    <3>1. \A i \in DOMAIN state_machines \ {COMPLETION_ID} :
              i \in DecisionIds /\ i.id \in Nat /\ i.id < id_counter
      BY KeysAreIds DEF MachinesInv, FreshIds
    <3>2. id.id \in Nat
      BY DEF DecisionIds
    <3> QED BY <3>1, <3>2, <2>2 DEF FreshIds, MachinesInv, COMPLETION_ID, DecisionId
  <2>7. AliasesResolve'
    <3>1. \A i, j : AliasOf(i) = AliasOf(j) => i = j
      BY DEF AliasOf
    <3>2. AliasOf(id)[1] = id.type
      BY DEF AliasOf
    <3>3. \A a \in DOMAIN aliases' :
              aliases'[a] \in DOMAIN state_machines' /\ aliases'[a].type = a[1]
      BY <2>1, <2>2, <3>2 DEF MachinesInv, AliasesResolve
    <3>4. \A i \in DOMAIN state_machines' :
              AliasOf(i) \in DOMAIN aliases' /\ aliases'[AliasOf(i)] = i
      BY <2>1, <2>2, <3>1 DEF MachinesInv, AliasesResolve
    <3> QED BY <3>3, <3>4 DEF AliasesResolve
  <2> QED BY <2>3, <2>4, <2>5, <2>6, <2>7 DEF MachinesInv
<1> QED BY <1>1, <1>2

\* A handled event or a cancellation changes one machine in place.
LEMMA ChangeKeepsMachines ==
    ASSUME MachinesInv,
           NEW id \in DOMAIN state_machines, NEW machine, MachineOK(machine),
           state_machines' = [state_machines EXCEPT ![id] = machine],
           UNCHANGED << id_counter, aliases >>,
           order' = order \/ order' = MoveToEnd(order, id)
    PROVE  MachinesInv'
<1>1. DOMAIN state_machines' = DOMAIN state_machines
  OBVIOUS
<1>2. \A i \in DOMAIN state_machines' : MachineOK(state_machines'[i])
  BY DEF MachinesInv
<1>3. /\ order' \in Seq(DecisionIds)
      /\ \A i, j \in DOMAIN order' : order'[i] = order'[j] => i = j
      /\ {order'[i] : i \in DOMAIN order'} = {order[i] : i \in DOMAIN order}
  <2>1. CASE order' = order
    BY <2>1 DEF MachinesInv, OrderIsKeys
  <2>2. CASE order' = MoveToEnd(order, id)
    <3>1. /\ order \in Seq(DecisionIds)
          /\ \A i, j \in DOMAIN order : order[i] = order[j] => i = j
          /\ id \in {order[i] : i \in DOMAIN order}
      BY DEF MachinesInv, OrderIsKeys
    <3>2. LET t == MoveToEnd(order, id)
          IN  /\ t \in Seq(DecisionIds)
              /\ \A i, j \in DOMAIN t : t[i] = t[j] => i = j
              /\ {t[i] : i \in DOMAIN t} = {order[i] : i \in DOMAIN order}
      BY ZenonT(40), <3>1, MoveToEndPermutes
    <3> QED BY <3>2, <2>2
  <2> QED BY <2>1, <2>2
<1>4. OrderIsKeys'
  BY <1>1, <1>3 DEF MachinesInv, OrderIsKeys
<1>5. FreshIds' /\ AliasesResolve'
  BY <1>1 DEF MachinesInv, FreshIds, AliasesResolve
<1> QED BY <1>2, <1>3, <1>4, <1>5 DEF MachinesInv

\* What request_cancel and the event handlers make of a machine is one.
LEMMA CancelledMachine ==
    ASSUME NEW m, MachineOK(m), NEW type
    PROVE  MachineOK(CancelRequested(type, m))
BY DEF MachineOK, CancelRequested, ForceCancel, DecisionState, FutureState

\* A handled event leaves a machine in a state of its life cycle.
LEMMA HandledMachine ==
    ASSUME NEW m, MachineOK(m), NEW type \in DOMAIN type_to_action
    PROVE  MachineOK(Handled(type_to_action[type], m))
<1> DEFINE h == type_to_action[type]
<1>1. /\ h.to \in DecisionState \cup {"keep"}
      /\ h.future \in FutureState \cup {"keep"}
  BY DEF type_to_action, Handler, DecisionState, FutureState
<1> HIDE DEF h
<1>2. Handled(h, m).state = IF h.to = "keep" THEN m.state ELSE h.to
  BY DEF Handled, MachineOK
<1>3. Handled(h, m).future \in {m.future, h.future, "cancelled"} \ {"keep"}
  BY <1>1 DEF Handled, MachineOK, ForceCancel, FutureState
<1>4. Handled(h, m) = [state |-> Handled(h, m).state,
                       future |-> Handled(h, m).future,
                       props |-> Handled(h, m).props,
                       request |-> Handled(h, m).request]
  <2>1. PICK a, b, c, d :
            m = [state |-> a, future |-> b, props |-> c, request |-> d]
    BY DEF MachineOK
  <2>3. \A s, f : [m EXCEPT !.state = s, !.future = f] =
                  [state |-> s, future |-> f, props |-> c, request |-> d]
    <3>1. TAKE s, f
    <3> DEFINE n == [m EXCEPT !.state = s]
    <3>2. n = [state |-> s, future |-> b, props |-> c, request |-> d]
      BY <2>1
    <3> HIDE DEF n
    <3>3. [n EXCEPT !.future = f] =
              [state |-> s, future |-> f, props |-> c, request |-> d]
      BY <3>2
    <3> QED BY <3>3 DEF n
  <2>2. \E s, f : Handled(h, m) = [m EXCEPT !.state = s, !.future = f]
    BY DEF Handled
  <2>4. PICK s, f : Handled(h, m) =
                  [state |-> s, future |-> f, props |-> c, request |-> d]
    BY ZenonT(40), <2>2, <2>3
  <2> QED BY <2>4
<1>5. /\ Handled(h, m).state \in DecisionState
      /\ Handled(h, m).future \in FutureState
  BY <1>1, <1>2, <1>3 DEF MachineOK, FutureState
<1> QED BY <1>4, <1>5 DEF MachineOK, h

-----------------------------------------------------------------------------
(* The tracker                                                             *)

\* An accepted call takes one expectation out of its entry.
LEMMA ConsumeKeepsTracker ==
    ASSUME TrackerInv, NEW id, NEW props, Accepted(id, props),
           expectations' = Consumed(id), UNCHANGED replaying
    PROVE  TrackerInv'
<1>1. CASE ~replaying
  BY <1>1 DEF Consumed, TrackerInv, TrackerHoldsOneEntry, Expected
<1>2. CASE replaying
  <2> DEFINE e == EntryOf(id)
             u == expectations[e].upcoming
  <2>1. e \in Expected /\ e \in DOMAIN expectations
    BY <1>2 DEF Accepted, Validates, EntryOf, Expected
  <2>2. IsSeq(u) /\ u # << >> /\ Len(u) <= 2
    BY <2>1 DEF Expected, TrackerInv, EntryOK
  <2>3. expectations' = [expectations EXCEPT ![e].upcoming = Tail(@)]
    BY <1>2 DEF Consumed, Consume
  <2> HIDE DEF e
  <2>4. IsSeq(Tail(u)) /\ Len(Tail(u)) \in Nat /\ Len(Tail(u)) <= 1
    <3> HIDE DEF u
    <3>1. u \in Seq({u[i] : i \in DOMAIN u}) /\ Len(u) \in Nat
      BY <2>2, LenProperties DEF IsSeq
    <3>2. Tail(u) \in Seq({u[i] : i \in DOMAIN u}) /\ Len(Tail(u)) = Len(u) - 1
      BY <2>2, <3>1, HeadTailProperties
    <3>3. IsSeq(Tail(u)) /\ Len(Tail(u)) \in Nat
      BY <3>2, SeqIsSeq
    <3> QED BY <2>2, <3>1, <3>2, <3>3
  <2>5. /\ DOMAIN expectations' = DOMAIN expectations
        /\ \A i \in DOMAIN expectations : i # e => expectations'[i] = expectations[i]
        /\ expectations'[e] = [id |-> expectations[e].id, upcoming |-> Tail(u)]
    <3>1. expectations[e] = [id |-> expectations[e].id,
                             upcoming |-> expectations[e].upcoming]
      BY <2>1 DEF TrackerInv, EntryOK
    <3> QED BY <2>1, <2>3, <3>1
  <2> HIDE DEF u
  <2>6. \A i \in DOMAIN expectations' : EntryOK(expectations'[i])
    <3>1. EntryOK([id |-> expectations[e].id, upcoming |-> Tail(u)])
      BY <2>4 DEF EntryOK
    <3>2. \A i \in DOMAIN expectations : EntryOK(expectations[i])
      BY DEF TrackerInv
    <3>3. \A i \in DOMAIN expectations' :
              i = e \/ EntryOK(expectations'[i])
      BY <2>5, <3>2
    <3> QED BY <2>5, <3>1, <3>3
  <2>7. IsSeq(expectations')
    <3> DEFINE T == {expectations'[i] : i \in DOMAIN expectations'}
               n == Len(expectations)
    <3>1. n \in Nat /\ DOMAIN expectations = 1..n /\ expectations \in [1..n -> {expectations[i] : i \in DOMAIN expectations}]
      BY LenProperties DEF TrackerInv, IsSeq
    <3>2. expectations' = [i \in DOMAIN expectations |-> expectations'[i]]
      BY <2>3
    <3>3. expectations' \in [1..n -> T]
      BY <3>1, <3>2
    <3>4. expectations' \in Seq(T)
      BY <3>1, <3>3
    <3> QED BY <3>4 DEF IsSeq
  <2>8. TrackerHoldsOneEntry'
    <3>1. \A i \in DOMAIN expectations : expectations'[i].id = expectations[i].id
      BY <2>5
    <3>2. Expected' \subseteq Expected
      BY <2>1, <2>5 DEF Expected
    <3>3. \A i, j \in Expected' : expectations'[i].id = expectations'[j].id => i = j
      BY <3>1, <3>2 DEF TrackerInv, TrackerHoldsOneEntry, Expected
    <3>4. \A i \in Expected' : Len(expectations'[i].upcoming) \in 1..2
      <4>1. ASSUME NEW i \in Expected', i = e
            PROVE  Len(expectations'[i].upcoming) \in 1..2
        <5>1. Tail(u) # << >>
          <6>1. expectations'[e].upcoming = Tail(u)
            BY <2>5
          <6>2. expectations'[i].upcoming # << >>
            BY DEF Expected
          <6> QED BY <6>1, <6>2, <4>1
        <5>2. Len(Tail(u)) # 0
          BY <5>1, <2>4, EmptySeq DEF IsSeq
        <5>3. Len(Tail(u)) \in 1..2
          <6> DEFINE n == Len(Tail(u))
          <6>1. n \in Nat /\ n <= 1 /\ n # 0
            BY <2>4, <5>2
          <6> HIDE DEF n
          <6>2. n \in 1..2
            BY <6>1
          <6> QED BY <6>2 DEF n
        <5>4. expectations'[e].upcoming = Tail(u)
          BY <2>5
        <5> QED BY <5>3, <5>4, <4>1
      <4>2. ASSUME NEW i \in Expected', i # e
            PROVE  Len(expectations'[i].upcoming) \in 1..2
        <5>1. i \in Expected /\ i \in DOMAIN expectations
          BY <3>2 DEF Expected
        <5>2. Len(expectations[i].upcoming) \in 1..2
          BY <5>1 DEF TrackerInv, TrackerHoldsOneEntry
        <5> QED BY <5>1, <5>2, <4>2, <2>5
      <4> QED BY <4>1, <4>2
    <3> QED BY <3>3, <3>4, <1>2 DEF TrackerHoldsOneEntry
  <2> QED BY <2>6, <2>7, <2>8 DEF TrackerInv
<1> QED BY <1>1, <1>2

-----------------------------------------------------------------------------
(* The methods of the manager                                              *)

\* A call that leaves the machines alone may still have taken an id.
LEMMA MachinesUnchanged ==
    ASSUME MachinesInv, id_counter' \in Nat, id_counter <= id_counter',
           UNCHANGED << state_machines, order, aliases >>
    PROVE  MachinesInv'
<1>1. FreshIds'
  BY KeysAreIds DEF FreshIds, MachinesInv
<1>2. OrderIsKeys' /\ AliasesResolve'
  BY DEF MachinesInv, OrderIsKeys, AliasesResolve
<1> QED BY <1>1, <1>2 DEF MachinesInv

\* A call the tracker is not asked about leaves it as it was.
LEMMA TrackerUnchanged ==
    ASSUME TrackerInv, UNCHANGED << expectations, replaying >>
    PROVE  TrackerInv'
BY DEF TrackerInv, TrackerHoldsOneEntry, Expected

\* schedule_activity and start_timer.
LEMMA RequestKeepsManager ==
    ASSUME ManagerInv, NEW type \in {"ACTIVITY", "TIMER"}, NEW props,
           NEW request, Request(type, props, request)
    PROVE  ManagerInv'
<1> DEFINE id == DecisionId(type, id_counter)
<1>1. /\ MachinesInv /\ TrackerInv /\ FlagsOK
      /\ id_counter \in Nat
      /\ id_counter' = id_counter + 1
      /\ replaying' = replaying
  BY DEF ManagerInv, MachinesInv, Request, next_id
<1>2. id_counter' \in Nat /\ id_counter <= id_counter' /\ id_counter < id_counter'
  BY <1>1
<1>3. CASE Accepted(id, props)
  <2>1. /\ expectations' = Consumed(id)
        /\ Add(id, Machine(props, request))
        /\ failed' = failed
    BY <1>3 DEF Request
  <2>2. TrackerInv'
    BY <1>1, <1>3, <2>1, ConsumeKeepsTracker
  <2>3. MachinesInv'
    <3>1. id \in DecisionIds /\ id.id = id_counter
      BY <1>1 DEF DecisionId, DecisionIds, DecisionType
    <3>2. MachineOK(Machine(props, request))
      BY DEF MachineOK, Machine, DecisionState, FutureState
    <3> HIDE DEF id
    <3> QED BY <1>1, <1>2, <2>1, <3>1, <3>2, AddKeepsMachines
  <2>4. FlagsOK'
    <3>1. raised' \in {"none", "ValueError"}
      BY <2>1 DEF Add
    <3> QED BY <1>1, <2>1, <3>1 DEF FlagsOK
  <2> QED BY <2>2, <2>3, <2>4 DEF ManagerInv
<1>4. CASE ~Accepted(id, props)
  <2>1. /\ Reject
        /\ UNCHANGED << state_machines, order, aliases, expectations >>
    BY <1>4 DEF Request
  <2>2. MachinesInv' /\ TrackerInv'
    BY <1>1, <1>2, <2>1, MachinesUnchanged, TrackerUnchanged
  <2>3. FlagsOK'
    BY <1>1, <2>1 DEF FlagsOK, Reject
  <2> QED BY <2>2, <2>3 DEF ManagerInv
<1> QED BY <1>3, <1>4

\* complete_workflow: the completion has an id of its own.
LEMMA CompleteWorkflowKeepsManager ==
    ASSUME ManagerInv, NEW outcome, complete_workflow(outcome)
    PROVE  ManagerInv'
<1> DEFINE props == CompletionProps(outcome)
<1>1. /\ MachinesInv /\ TrackerInv /\ FlagsOK
      /\ id_counter \in Nat
      /\ id_counter' = id_counter
      /\ replaying' = replaying
  BY DEF ManagerInv, MachinesInv, complete_workflow
<1>2. id_counter' \in Nat /\ id_counter <= id_counter'
  BY <1>1
<1>3. CASE Constrained(outcome) /\ ~Accepted(COMPLETION_ID, props)
  <2>1. /\ Reject
        /\ UNCHANGED << state_machines, order, aliases, expectations >>
    BY <1>3 DEF complete_workflow
  <2>2. MachinesInv' /\ TrackerInv'
    BY <1>1, <1>2, <2>1, MachinesUnchanged, TrackerUnchanged
  <2>3. FlagsOK'
    BY <1>1, <2>1 DEF FlagsOK, Reject
  <2> QED BY <2>2, <2>3 DEF ManagerInv
<1>4. CASE ~(Constrained(outcome) /\ ~Accepted(COMPLETION_ID, props))
  <2>1. /\ expectations' = IF Constrained(outcome)
                           THEN Consumed(COMPLETION_ID) ELSE expectations
        /\ Add(COMPLETION_ID, CompletionMachine(outcome))
        /\ failed' = failed
    BY <1>4 DEF complete_workflow
  <2>2. TrackerInv'
    BY <1>1, <1>4, <2>1, ConsumeKeepsTracker, TrackerUnchanged
  <2>3. MachinesInv'
    <3>1. COMPLETION_ID \in DecisionIds
      BY DEF COMPLETION_ID, DecisionId, DecisionIds, DecisionType
    <3>2. MachineOK(CompletionMachine(outcome))
      BY DEF MachineOK, CompletionMachine, DecisionState, FutureState
    <3> QED BY <1>1, <1>2, <2>1, <3>1, <3>2, AddKeepsMachines
  <2>4. FlagsOK'
    <3>1. raised' \in {"none", "ValueError"}
      BY <2>1 DEF Add
    <3> QED BY <1>1, <2>1, <3>1 DEF FlagsOK
  <2> QED BY <2>2, <2>3, <2>4 DEF ManagerInv
<1> QED BY <1>3, <1>4

\* request_cancel, also when it is rejected after it cancelled the machine.
LEMMA RequestCancelKeepsManager ==
    ASSUME ManagerInv, NEW id, request_cancel(id)
    PROVE  ManagerInv'
<1>1. /\ MachinesInv /\ TrackerInv /\ FlagsOK
      /\ id_counter \in Nat
      /\ id_counter' = id_counter /\ replaying' = replaying
      /\ aliases' = aliases
      /\ id \in DOMAIN state_machines
      /\ MachineOK(state_machines[id])
  BY DEF ManagerInv, MachinesInv, request_cancel
<1>2. CASE ~Cancellable(state_machines[id])
  <2>1. /\ UNCHANGED << state_machines, order, expectations, failed >>
        /\ raised' = "none"
    BY <1>2 DEF request_cancel
  <2>2. MachinesInv' /\ TrackerInv'
    BY <1>1, <2>1, MachinesUnchanged, TrackerUnchanged
  <2>3. FlagsOK'
    BY <1>1, <2>1 DEF FlagsOK
  <2> QED BY <2>2, <2>3 DEF ManagerInv
<1>3. CASE Cancellable(state_machines[id])
  <2> DEFINE machine == CancelRequested(id.type, state_machines[id])
  <2>1. state_machines' = [state_machines EXCEPT ![id] = machine]
    BY <1>3 DEF request_cancel
  <2>2. \/ /\ failed \/ Accepted(id, CANCEL)
           /\ expectations' = IF failed THEN expectations ELSE Consumed(id)
           /\ order' = MoveToEnd(order, id)
           /\ raised' = "none"
           /\ UNCHANGED failed
        \/ /\ Reject
           /\ UNCHANGED << order, expectations >>
    BY <1>3 DEF request_cancel
  <2>3. MachinesInv'
    <3>1. MachineOK(machine)
      BY <1>1, CancelledMachine
    <3>2. order' = order \/ order' = MoveToEnd(order, id)
      BY <2>2
    <3> HIDE DEF machine
    <3> QED BY <1>1, <2>1, <3>1, <3>2, ChangeKeepsMachines
  <2>4. TrackerInv'
    BY <1>1, <2>2, ConsumeKeepsTracker, TrackerUnchanged
  <2>5. FlagsOK'
    BY <1>1, <2>2 DEF FlagsOK, Reject
  <2> QED BY <2>3, <2>4, <2>5 DEF ManagerInv
<1> QED BY <1>2, <1>3

\* handle_history_event, of any event: the alias it adds is not a decision id.
LEMMA HandleHistoryEventKeepsManager ==
    ASSUME ManagerInv, NEW event, NEW event_id,
           handle_history_event(event, event_id)
    PROVE  ManagerInv'
<1> DEFINE handler == type_to_action[event.type]
           alias   == << handler.type, handler.attr, event[handler.attr] >>
           id      == aliases[alias]
           byEvent == << handler.type, "ref", event_id >>
<1>1. /\ MachinesInv /\ TrackerInv /\ FlagsOK
      /\ id_counter \in Nat
      /\ id_counter' = id_counter /\ replaying' = replaying
      /\ order' = order /\ expectations' = expectations /\ failed' = failed
  BY DEF ManagerInv, MachinesInv, handle_history_event
<1>2. TrackerInv'
  BY <1>1, TrackerUnchanged
<1>3. CASE \/ event.type \notin DOMAIN type_to_action
           \/ alias \notin DOMAIN aliases
  <2>1. /\ UNCHANGED << state_machines, aliases >>
        /\ raised' \in {"none", "KeyError"}
    BY <1>3 DEF handle_history_event
  <2>2. MachinesInv'
    BY <1>1, <2>1, MachinesUnchanged
  <2>3. FlagsOK'
    BY <1>1, <2>1 DEF FlagsOK
  <2> QED BY <1>2, <2>2, <2>3 DEF ManagerInv
<1>4. CASE event.type \in DOMAIN type_to_action /\ alias \in DOMAIN aliases
  <2> DEFINE machine == Handled(handler, state_machines[id])
  <2>1. /\ state_machines' = [state_machines EXCEPT ![id] = machine]
        /\ raised' \in {"none", "InvalidStateError"}
        /\ aliases' = IF EventIdIsAlias(event.type)
                      THEN [a \in DOMAIN aliases \cup {byEvent} |->
                              IF a = byEvent THEN id ELSE aliases[a]]
                      ELSE aliases
    BY <1>4 DEF handle_history_event
  <2>2. id \in DOMAIN state_machines /\ id.type = handler.type
    <3>1. id \in DOMAIN state_machines /\ id.type = alias[1]
      <4> HIDE DEF alias
      <4> QED BY <1>1, <1>4 DEF MachinesInv, AliasesResolve
    <3> QED BY <3>1
  <2>3. MachineOK(machine)
    <3>1. MachineOK(state_machines[id])
      BY <1>1, <2>2 DEF MachinesInv
    <3> HIDE DEF id
    <3> QED BY <3>1, <1>4, HandledMachine
  <2> HIDE DEF machine, id, alias
  <2>4. FlagsOK'
    BY <1>1, <2>1 DEF FlagsOK
  <2>5. /\ DOMAIN state_machines' = DOMAIN state_machines
        /\ \A i \in DOMAIN state_machines' : MachineOK(state_machines'[i])
    BY <1>1, <2>1, <2>2, <2>3 DEF MachinesInv
  <2>6. AliasesResolve'
    <3> HIDE DEF handler
    <3>1. \A i : AliasOf(i) # byEvent
      BY DEF AliasOf
    <3>2. byEvent[1] = id.type
      BY <2>2
    <3> HIDE DEF byEvent
    <3>3. \A a \in DOMAIN aliases' :
              aliases'[a] \in DOMAIN state_machines' /\ aliases'[a].type = a[1]
      BY <1>1, <2>1, <2>2, <2>5, <3>2 DEF MachinesInv, AliasesResolve
    <3>4. \A i \in DOMAIN state_machines' :
              AliasOf(i) \in DOMAIN aliases' /\ aliases'[AliasOf(i)] = i
      BY <1>1, <2>1, <2>5, <3>1 DEF MachinesInv, AliasesResolve
    <3> QED BY <3>3, <3>4 DEF AliasesResolve
  <2>7. OrderIsKeys' /\ FreshIds'
    BY <1>1, <2>5 DEF MachinesInv, OrderIsKeys, FreshIds
  <2>8. MachinesInv'
    BY <1>1, <2>5, <2>6, <2>7 DEF MachinesInv
  <2> QED BY <1>2, <2>4, <2>8 DEF ManagerInv
<1> QED BY <1>3, <1>4

\* A function on an initial segment of the numbers is a sequence.
LEMMA FunctionIsSeq ==
    ASSUME NEW n \in Nat, NEW f, f = [i \in 1..n |-> f[i]]
    PROVE  IsSeq(f) /\ Len(f) = n /\ DOMAIN f = 1..n
<1> DEFINE T == {f[i] : i \in DOMAIN f}
<1>1. DOMAIN f = 1..n
  OBVIOUS
<1>2. f \in [1..n -> T]
  BY <1>1
<1>3. f \in Seq(T)
  BY <1>2
<1>4. Len(f) = n
  BY <1>1, <1>3, LenProperties
<1> QED BY <1>1, <1>3, <1>4 DEF IsSeq

\* An output event makes the tracker expect at most a creation and a
\* cancellation.
LEMMA ExpectationIsEntry ==
    ASSUME NEW event
    PROVE  EntryOK(Expectation(event))
<1> DEFINE u == upcomingFor(event)
<1>1. \/ u = << >>
      \/ \E p : u = << p >>
      \/ \E p, q : u = << p, q >>
  BY DEF upcomingFor
<1> HIDE DEF u
<1>2. IsSeq(u) /\ Len(u) <= 2
  <2>1. CASE u = << >>
    BY <2>1, EmptyIsSeq
  <2>2. CASE \E p : u = << p >>
    <3>1. PICK p : u = << p >>
      BY <2>2
    <3>2. u \in Seq({p}) /\ Len(u) = 1
      BY <3>1
    <3> QED BY <3>2, SeqIsSeq
  <2>3. CASE \E p, q : u = << p, q >>
    <3>1. PICK p, q : u = << p, q >>
      BY <2>3
    <3>2. u \in Seq({p, q}) /\ Len(u) = 2
      BY <3>1
    <3> QED BY <3>2, SeqIsSeq
  <2> QED BY <1>1, <2>1, <2>2, <2>3
<1> QED BY <1>2 DEF EntryOK, Expectation, u

\* Entering track_nondeterminism between two replays.
LEMMA StartExecutionKeepsManager ==
    ASSUME ManagerInv, NEW replay \in BOOLEAN, NEW outcomes, IsSeq(outcomes),
           start_execution(replay, outcomes),
           ~replaying, ~replay => DOMAIN outcomes = {}
    PROVE  ManagerInv'
<1> DEFINE added == [i \in DOMAIN outcomes |-> Expectation(outcomes[i])]
           entries == expectations \o added
<1>1. /\ MachinesInv /\ TrackerInv /\ FlagsOK
      /\ id_counter \in Nat
      /\ UNCHANGED << id_counter, state_machines, order, aliases, failed >>
      /\ replaying' = replay
      /\ Expected = {}
  BY DEF ManagerInv, MachinesInv, start_execution, TrackerInv, TrackerHoldsOneEntry
<1>2. MachinesInv'
  BY <1>1, MachinesUnchanged
<1>3. FlagsOK'
  <2>1. raised' \in {"none", "FatalDecisionError"}
    BY DEF start_execution
  <2> QED BY <1>1, <2>1 DEF FlagsOK
<1>4. CASE UNCHANGED expectations
  <2>1. TrackerInv'
    BY <1>1, <1>4 DEF TrackerInv, TrackerHoldsOneEntry, Expected
  <2> QED BY <1>2, <1>3, <2>1 DEF ManagerInv
<1>5. CASE /\ expectations' = entries
           /\ \A i, j \in DOMAIN entries :
                  /\ entries[i].upcoming # << >>
                  /\ entries[j].upcoming # << >>
                  /\ entries[i].id = entries[j].id
                  => i = j
  <2>1. /\ IsSeq(added)
        /\ Len(added) = Len(outcomes)
        /\ Len(outcomes) \in Nat
        /\ \A i \in 1..Len(added) : EntryOK(added[i])
    <3>1. Len(outcomes) \in Nat /\ DOMAIN outcomes = 1..Len(outcomes)
      BY LenProperties DEF IsSeq
    <3>2. added = [i \in 1..Len(outcomes) |-> added[i]]
      BY <3>1
    <3>3. \A i \in 1..Len(outcomes) : EntryOK(added[i])
      BY <3>1, ExpectationIsEntry
    <3> HIDE DEF added
    <3>4. IsSeq(added) /\ Len(added) = Len(outcomes)
      BY <3>1, <3>2, FunctionIsSeq
    <3> QED BY <3>1, <3>3, <3>4
  <2> HIDE DEF added
  <2>2. /\ Len(expectations) \in Nat
        /\ \A i \in 1..Len(expectations) : EntryOK(expectations[i])
    BY <1>1, LenProperties DEF TrackerInv, IsSeq
  <2>3. /\ IsSeq(entries)
        /\ DOMAIN entries = 1..(Len(expectations) + Len(added))
        /\ \A i \in 1..(Len(expectations) + Len(added)) :
              entries[i] = IF i <= Len(expectations) THEN expectations[i]
                           ELSE added[i - Len(expectations)]
    BY <1>1, <2>1, ConcatIsSeq DEF TrackerInv
  <2> HIDE DEF entries
  <2>4. \A i \in DOMAIN entries : EntryOK(entries[i])
    <3> SUFFICES ASSUME NEW i \in DOMAIN entries PROVE EntryOK(entries[i])
      OBVIOUS
    <3>1. CASE i <= Len(expectations)
      <4>1. i \in 1..Len(expectations) /\ entries[i] = expectations[i]
        BY <3>1, <2>1, <2>2, <2>3
      <4> QED BY <4>1, <2>2
    <3>2. CASE ~(i <= Len(expectations))
      <4>1. /\ i - Len(expectations) \in 1..Len(added)
            /\ entries[i] = added[i - Len(expectations)]
        BY <3>2, <2>1, <2>2, <2>3
      <4> QED BY <4>1, <2>1
    <3> QED BY <3>1, <3>2
  <2>5. TrackerHoldsOneEntry'
    <3>1. \A i, j \in Expected' : expectations'[i].id = expectations'[j].id => i = j
      BY <1>5 DEF Expected
    <3>2. ASSUME NEW i \in Expected'
          PROVE  Len(expectations'[i].upcoming) \in 1..2
      <4> DEFINE u == expectations'[i].upcoming
      <4>1. u # << >> /\ IsSeq(u) /\ Len(u) <= 2
        BY <1>5, <2>4 DEF Expected, EntryOK
      <4> HIDE DEF u
      <4>2. Len(u) \in Nat \ {0}
        BY <4>1, EmptySeq DEF IsSeq
      <4>3. Len(u) \in 1..2
        <5> DEFINE n == Len(u)
        <5>1. n \in Nat \ {0} /\ n <= 2
          BY <4>1, <4>2
        <5> HIDE DEF n
        <5>2. n \in 1..2
          BY <5>1
        <5> QED BY <5>2 DEF n
      <4> QED BY <4>3 DEF u
    <3>3. replaying' \/ Expected' = {}
      <4> SUFFICES ASSUME ~replay PROVE Expected' = {}
        BY <1>1
      <4>1. Len(outcomes) = 0
        BY <2>1, LenProperties DEF IsSeq
      <4>2. DOMAIN expectations' = DOMAIN expectations
        BY <1>1, <1>5, <2>1, <2>2, <2>3, <4>1, LenProperties DEF TrackerInv, IsSeq
      <4>3. \A i \in DOMAIN expectations : expectations'[i] = expectations[i]
        BY <1>5, <2>1, <2>2, <2>3, <4>1, <4>2
      <4> QED BY <1>1, <4>2, <4>3 DEF Expected
    <3> QED BY <3>1, <3>2, <3>3 DEF TrackerHoldsOneEntry
  <2>6. TrackerInv'
    BY <1>5, <2>3, <2>4, <2>5 DEF TrackerInv
  <2> QED BY <1>2, <1>3, <2>6 DEF ManagerInv
<1> QED BY <1>4, <1>5 DEF start_execution, Duplicate

\* Leaving it, with or without expectations that were not met.
LEMMA EndExecutionKeepsManager ==
    ASSUME ManagerInv, end_execution
    PROVE  ManagerInv'
<1>1. /\ MachinesInv /\ TrackerInv /\ FlagsOK
      /\ id_counter \in Nat
      /\ UNCHANGED << id_counter, state_machines, order, aliases >>
  BY DEF ManagerInv, MachinesInv, end_execution
<1>2. MachinesInv'
  BY <1>1, MachinesUnchanged
<1>3. FlagsOK'
  BY <1>1 DEF FlagsOK, end_execution, Reject
<1>4. TrackerInv'
  <2>1. \/ expectations' = << >>
        \/ UNCHANGED << expectations, replaying >>
    BY <1>1 DEF end_execution, FlagsOK
  <2>2. CASE expectations' = << >>
    <3>1. IsSeq(<< >>) /\ DOMAIN << >> = {}
      BY EmptyIsSeq
    <3> QED BY <2>2, <3>1 DEF TrackerInv, TrackerHoldsOneEntry, Expected
  <2> QED BY <1>1, <2>1, <2>2, TrackerUnchanged
<1> QED BY <1>2, <1>3, <1>4 DEF ManagerInv

\* A manager without machines: the first one and the one of every new engine.
LEMMA EmptyManager ==
    ASSUME NewManager
    PROVE  ManagerInv'
<1>1. IsSeq(<< >>) /\ DOMAIN << >> = {} /\ << >> \in Seq(DecisionIds)
  BY EmptyIsSeq
<1>2. MachinesInv'
  BY <1>1 DEF NewManager, MachinesInv, OrderIsKeys, FreshIds, AliasesResolve
<1>3. TrackerInv'
  BY <1>1 DEF NewManager, TrackerInv, TrackerHoldsOneEntry, Expected
<1>4. FlagsOK'
  BY DEF NewManager, FlagsOK
<1> QED BY <1>2, <1>3, <1>4 DEF ManagerInv

\* The manager of the initial state has no machines either.
LEMMA FirstManager ==
    ASSUME ManagerInit
    PROVE  ManagerInv
<1>1. IsSeq(<< >>) /\ DOMAIN << >> = {} /\ << >> \in Seq(DecisionIds)
  BY EmptyIsSeq
<1>2. MachinesInv
  BY <1>1 DEF ManagerInit, MachinesInv, OrderIsKeys, FreshIds, AliasesResolve
<1>3. TrackerInv
  BY <1>1 DEF ManagerInit, TrackerInv, TrackerHoldsOneEntry, Expected
<1>4. FlagsOK
  BY DEF ManagerInit, FlagsOK
<1> QED BY <1>2, <1>3, <1>4 DEF ManagerInv

\* An exception of the engine is not one of the manager.
LEMMA RaiseInEngineKeepsManager ==
    ASSUME ManagerInv, NEW exception, RaiseInEngine(exception),
           exception \in {"ValueError", "CancelledError", "FatalDecisionError"}
    PROVE  ManagerInv'
<1>1. /\ MachinesInv /\ TrackerInv /\ FlagsOK
      /\ id_counter \in Nat
      /\ UNCHANGED << id_counter, replaying, state_machines, order, aliases,
                      expectations, failed >>
      /\ raised' = exception
  BY DEF ManagerInv, MachinesInv, RaiseInEngine
<1>2. MachinesInv' /\ TrackerInv'
  BY <1>1, MachinesUnchanged, TrackerUnchanged
<1>3. FlagsOK'
  BY <1>1 DEF FlagsOK
<1> QED BY <1>2, <1>3 DEF ManagerInv

\* A step that leaves the manager alone.
LEMMA ManagerUnchanged ==
    ASSUME ManagerInv, UNCHANGED managerVars
    PROVE  ManagerInv'
<1>1. /\ MachinesInv /\ TrackerInv /\ FlagsOK /\ id_counter \in Nat
      /\ UNCHANGED << id_counter, replaying, state_machines, order, aliases,
                      expectations, failed, raised >>
  BY DEF ManagerInv, MachinesInv, managerVars
<1>2. MachinesInv' /\ TrackerInv'
  BY <1>1, MachinesUnchanged, TrackerUnchanged
<1>3. FlagsOK'
  BY <1>1 DEF FlagsOK
<1> QED BY <1>2, <1>3 DEF ManagerInv

-----------------------------------------------------------------------------
(* The service                                                             *)

\* The service appends one or two events at a time.
LEMMA TuplesAreSeqs ==
    /\ \A a : IsSeq(<< a >>)
    /\ \A a, b : IsSeq(<< a, b >>)
<1>1. \A a : << a >> \in Seq({a})
  OBVIOUS
<1>2. \A a, b : << a, b >> \in Seq({a, b})
  OBVIOUS
<1>3. \A a : IsSeq(<< a >>)
  BY <1>1, SeqIsSeq
<1>4. \A a, b : IsSeq(<< a, b >>)
  BY <1>2, SeqIsSeq
<1> QED BY <1>3, <1>4

\* A sequence without one of its elements is still one.
LEMMA RemoveAtIsSeq ==
    ASSUME NEW s, IsSeq(s), NEW i \in DOMAIN s
    PROVE  IsSeq(SE!RemoveAt(s, i))
<1> DEFINE S == {s[k] : k \in DOMAIN s}
<1>1. /\ Len(s) \in Nat /\ i \in 1..Len(s)
      /\ \A k \in 1..Len(s) : s[k] \in S
  BY LenProperties DEF IsSeq
<1> HIDE DEF S
<1>2. SubSeq(s, 1, i - 1) \in Seq(S)
  <2>1. 1 \in Int /\ i - 1 \in Int /\ \A k \in 1..(i - 1) : s[k] \in S
    BY <1>1
  <2> QED BY <2>1, SubSeqProperties
<1>3. SubSeq(s, i + 1, Len(s)) \in Seq(S)
  <2>1. i + 1 \in Int /\ Len(s) \in Int /\ \A k \in (i + 1)..Len(s) : s[k] \in S
    BY <1>1
  <2> QED BY <2>1, SubSeqProperties
<1>4. SubSeq(s, 1, i - 1) \o SubSeq(s, i + 1, Len(s)) \in Seq(S)
  BY <1>2, <1>3, ConcatProperties
<1> QED BY <1>4, SeqIsSeq DEF SE!RemoveAt

\* The output of a batch is a finite run of events, and the iterator stops
\* at a position.
LEMMA NextBatchShape ==
    ASSUME NEW h, IsSeq(h), NEW p \in Nat
    PROVE  /\ NextBatch(h, p).next \in Nat
           /\ NextBatch(h, p).replay \in BOOLEAN
           /\ \E n \in Nat :
                  /\ DOMAIN NextBatch(h, p).output = 1..n
                  /\ ~NextBatch(h, p).replay => n = 0
<1> DEFINE passed  == Passed(h, p)
           started == p + Cardinality(passed)
           replay  == started < Len(h)
           first   == IF replay THEN started + 2 ELSE started + 1
           run     == {i \in first..Len(h) :
                           \A j \in first..i : is_decision_event(h[j])}
<1>1. Len(h) \in Nat
  BY LenProperties DEF IsSeq
<1>2. Cardinality(passed) \in Nat
  <2>1. IsFiniteSet(p..Len(h)) /\ passed \subseteq p..Len(h)
    BY <1>1, FS_Interval DEF Passed
  <2> QED BY <2>1, FS_Subset, FS_CardinalityType
<1> HIDE DEF passed
<1>3. first \in Nat
  BY <1>2
<1>7. ~replay => Cardinality(run) = 0
  <2> SUFFICES ASSUME ~replay PROVE Cardinality(run) = 0
    OBVIOUS
  <2>1. first..Len(h) = {}
    BY <1>1, <1>2
  <2>2. run = {}
    BY <2>1
  <2> QED BY <2>2, FS_EmptySet
<1> HIDE DEF first
<1>4. Cardinality(run) \in Nat
  <2>1. IsFiniteSet(first..Len(h)) /\ run \subseteq first..Len(h)
    BY <1>1, <1>3, FS_Interval
  <2> QED BY <2>1, FS_Subset, FS_CardinalityType
<1>5. /\ NextBatch(h, p).next = first + Cardinality(run)
      /\ NextBatch(h, p).replay = replay
      /\ DOMAIN NextBatch(h, p).output = 1..Cardinality(run)
  BY DEF NextBatch, passed, first
<1> HIDE DEF run, replay
<1>6. replay \in BOOLEAN
  BY DEF replay
<1> QED BY <1>3, <1>4, <1>5, <1>6, <1>7

\* The output events of a batch are a sequence as long as their positions.
LEMMA OutputEventsIsSeq ==
    ASSUME NEW b, NEW n \in Nat, DOMAIN b.output = 1..n
    PROVE  IsSeq(OutputEvents(b)) /\ DOMAIN OutputEvents(b) = 1..n
<1> DEFINE f == OutputEvents(b)
<1>1. f = [i \in 1..n |-> f[i]]
  BY DEF OutputEvents
<1> HIDE DEF f
<1> QED BY <1>1, FunctionIsSeq DEF f

\* Between two tasks the engine is nobody's and history only grows.
LEMMA DropEngineKeepsInv ==
    ASSUME DropEngine
    PROVE  ManagerInv' /\ EngineInv' /\ pos' \in Nat
<1>1. ManagerInv'
  BY EmptyManager DEF DropEngine
<1>2. EngineInv' /\ pos' \in Nat
  BY DEF DropEngine, EngineInv, Phases
<1> QED BY <1>1, <1>2

\* An activity's end or a timer's firing, written or buffered.
LEMMA ArriveKeepsInv ==
    ASSUME IInv, NEW events, IsSeq(events), Arrive(events)
    PROVE  IInv'
<1>1. ManagerInv'
  BY ManagerUnchanged DEF IInv, Arrive
<1>2. ServiceInv'
  <2>1. IsSeq(history \o events) /\ IsSeq(buffered \o events)
    BY ConcatIsSeq DEF IInv, ServiceInv
  <2>2. /\ history' = history \/ history' = history \o events
        /\ buffered' = buffered \/ buffered' = buffered \o events
        /\ pos' = pos
    BY DEF Arrive, engineVars
  <2> QED BY <2>1, <2>2 DEF IInv, ServiceInv
<1>3. EngineInv'
  BY DEF IInv, EngineInv, Arrive, engineVars
<1> QED BY <1>1, <1>2, <1>3 DEF IInv

\* A decision task that fails or times out.
LEMMA UnsuccessfullyKeepsInv ==
    ASSUME IInv, NEW type, Unsuccessfully(type)
    PROVE  IInv'
<1>1. IsSeq(history \o << Event(type) >>)
  BY ConcatIsSeq, TuplesAreSeqs DEF IInv, ServiceInv
<1>2. IsSeq((history \o << Event(type) >>) \o buffered)
  BY <1>1, ConcatIsSeq DEF IInv, ServiceInv
<1>3. ManagerInv' /\ EngineInv' /\ pos' \in Nat
  BY DropEngineKeepsInv DEF Unsuccessfully
<1>4. ServiceInv'
  BY <1>2, <1>3, EmptyIsSeq DEF Unsuccessfully, ServiceInv
<1> QED BY <1>3, <1>4 DEF IInv

\* The service: one step for each of its actions.
LEMMA ServiceKeepsInv ==
    ASSUME IInv, ServiceNext
    PROVE  IInv'
<1>1. ASSUME NEW s \in DOMAIN history, NEW type \in CloseEvents,
             ActivityCloses(s, type)
      PROVE  IInv'
  <2>1. \/ Arrive(<< RefEvent(type, s) >>)
        \/ Arrive(<< RefEvent("ActivityTaskStarted", s), RefEvent(type, s) >>)
    BY <1>1 DEF ActivityCloses
  <2> QED BY <2>1, TuplesAreSeqs, ArriveKeepsInv
<1>2. ASSUME NEW id, TimerFires(id)
      PROVE  IInv'
  <2>1. Arrive(<< IdEvent("TimerFired", id) >>)
    BY <1>2 DEF TimerFires
  <2> QED BY <2>1, TuplesAreSeqs, ArriveKeepsInv
<1>9. CASE SignalArrives
  BY <1>9, TuplesAreSeqs, ArriveKeepsInv DEF SignalArrives
<1>3. CASE PollDecisionTask
  <2>1. ManagerInv'
    BY <1>3, ManagerUnchanged DEF IInv, PollDecisionTask
  <2>2. ServiceInv'
    BY <1>3, AppendIsSeq DEF IInv, ServiceInv, PollDecisionTask
  <2>3. EngineInv'
    BY <1>3 DEF IInv, EngineInv, PollDecisionTask, Phases
  <2> QED BY <2>1, <2>2, <2>3 DEF IInv
<1>4. CASE DecisionTaskTimesOut
  BY <1>4, UnsuccessfullyKeepsInv DEF DecisionTaskTimesOut
<1>5. CASE RespondDecisionTaskFailed
  BY <1>5, UnsuccessfullyKeepsInv DEF RespondDecisionTaskFailed
<1>6. CASE RespondDecisionTaskCompleted
  <2>1. CASE Unsuccessfully("DecisionTaskFailed")
    BY <2>1, UnsuccessfullyKeepsInv
  <2>2. CASE /\ history' = Append(history, Event("DecisionTaskCompleted"))
             /\ phase' = "record"
             /\ UNCHANGED << managerVars, buffered, decisions, pos, batch, todo,
                             task, userVars >>
    <3>1. ManagerInv'
      BY <2>2, ManagerUnchanged DEF IInv
    <3>2. ServiceInv'
      BY <2>2, AppendIsSeq DEF IInv, ServiceInv
    <3>3. EngineInv'
      BY <2>2 DEF IInv, EngineInv, Phases
    <3> QED BY <3>1, <3>2, <3>3 DEF IInv
  <2> QED BY <1>6, <2>1, <2>2 DEF RespondDecisionTaskCompleted
<1>7. CASE RecordDecision
  <2> DEFINE d == Head(decisions)
             firing == {i \in DOMAIN buffered :
                            buffered[i].type = "TimerFired" /\ buffered[i].id = d.id}
  <2>1. ManagerInv'
    BY <1>7, ManagerUnchanged DEF IInv, RecordDecision
  <2>2. EngineInv'
    BY <1>7 DEF IInv, EngineInv, RecordDecision, engineVars
  <2>3. IsSeq(history')
    <3>1. \/ \E e : history' = Append(history, e)
          \/ \E e1, e2 : history' = history \o << e1, e2 >>
      BY <1>7 DEF RecordDecision
    <3> QED BY <3>1, AppendIsSeq, ConcatIsSeq, TuplesAreSeqs DEF IInv, ServiceInv
  <2>4. IsSeq(buffered')
    <3>1. \/ buffered' = buffered
          \/ /\ firing # {}
             /\ buffered' = SE!RemoveAt(buffered, CHOOSE i \in firing : TRUE)
      BY <1>7 DEF RecordDecision
    <3>2. firing # {} => (CHOOSE i \in firing : TRUE) \in DOMAIN buffered
      OBVIOUS
    <3> HIDE DEF firing
    <3> QED BY <3>1, <3>2, RemoveAtIsSeq DEF IInv, ServiceInv
  <2>5. pos' \in Nat
    BY <1>7 DEF IInv, ServiceInv, RecordDecision, engineVars
  <2> QED BY <2>1, <2>2, <2>3, <2>4, <2>5 DEF IInv, ServiceInv
<1>8. CASE FinishDecisionTask
  <2>1. ManagerInv' /\ EngineInv' /\ pos' \in Nat
    BY <1>8, DropEngineKeepsInv DEF FinishDecisionTask
  <2>2. IsSeq(history') /\ IsSeq(buffered')
    BY <1>8, ConcatIsSeq, EmptyIsSeq DEF FinishDecisionTask, IInv, ServiceInv
  <2> QED BY <2>1, <2>2 DEF IInv, ServiceInv
<1> QED BY <1>1, <1>2, <1>3, <1>4, <1>5, <1>6, <1>7, <1>8, <1>9 DEF ServiceNext

-----------------------------------------------------------------------------
(* The engine and the workflow function                                    *)

\* A step that leaves the service and the iterator alone keeps the invariant
\* when it keeps that of the manager and that of the engine.
LEMMA InsideATask ==
    ASSUME IInv, ManagerInv', EngineInv', UNCHANGED << serviceVars, pos >>
    PROVE  IInv'
BY DEF IInv, ServiceInv, serviceVars

\* The engine: one step for each of its actions.
LEMMA EngineKeepsInv ==
    ASSUME IInv, ReplayOver, EngineNext
    PROVE  IInv'
<1>1. CASE NextDecisionEvents
  <2> DEFINE b == NextBatch(history, pos)
  <2>1. /\ UNCHANGED << serviceVars, task, userVars >>
        /\ phase' \in {"input", "failed"}
    BY <1>1 DEF NextDecisionEvents, Continue
  <2>2. EngineInv'
    BY <2>1 DEF IInv, EngineInv, Phases
  <2>3. CASE RaiseInEngine("ValueError") /\ UNCHANGED << batch, pos, todo >>
    <3>1. ManagerInv'
      BY <2>3, RaiseInEngineKeepsManager DEF IInv
    <3> QED BY <2>1, <2>2, <2>3, <3>1, InsideATask
  <2>4. CASE pos' = b.next /\ start_execution(b.replay, OutputEvents(b))
    <3>1. /\ b.next \in Nat
          /\ b.replay \in BOOLEAN
          /\ \E n \in Nat : DOMAIN b.output = 1..n /\ (~b.replay => n = 0)
      BY NextBatchShape DEF IInv, ServiceInv
    <3> HIDE DEF b
    <3>2. /\ IsSeq(OutputEvents(b))
          /\ ~b.replay => DOMAIN OutputEvents(b) = {}
      <4>1. PICK n \in Nat : DOMAIN b.output = 1..n /\ (~b.replay => n = 0)
        BY <3>1
      <4>2. IsSeq(OutputEvents(b)) /\ DOMAIN OutputEvents(b) = 1..n
        BY <4>1, OutputEventsIsSeq
      <4> QED BY <4>1, <4>2
    <3>3. ~replaying
      BY <1>1 DEF NextDecisionEvents, ReplayOver
    <3>5. ManagerInv'
      BY <2>4, <3>1, <3>2, <3>3, StartExecutionKeepsManager DEF IInv
    <3>4. ServiceInv'
      BY <2>1, <2>4, <3>1 DEF IInv, ServiceInv, serviceVars
    <3> QED BY <2>2, <3>4, <3>5 DEF IInv
  <2> QED BY <1>1, <2>3, <2>4 DEF NextDecisionEvents
<1>2. CASE CollectDecisions
  <2>1. ManagerInv'
    BY <1>2, ManagerUnchanged DEF IInv, CollectDecisions
  <2>2. EngineInv' /\ ServiceInv'
    BY <1>2 DEF IInv, EngineInv, ServiceInv, CollectDecisions, Phases
  <2> QED BY <2>1, <2>2 DEF IInv
<1>3. CASE ApplyInputEvent
  <2>1. \E event, event_id : handle_history_event(event, event_id)
    BY <1>3 DEF ApplyInputEvent
  <2>2. ManagerInv'
    BY <2>1, HandleHistoryEventKeepsManager DEF IInv
  <2>3. /\ phase' \in {"input", "failed"}
        /\ task' \in {"running", task}
        /\ UNCHANGED << serviceVars, pos >>
    BY <1>3 DEF ApplyInputEvent, Continue
  <2>4. EngineInv'
    BY <2>3 DEF IInv, EngineInv, Phases
  <2> QED BY <2>2, <2>3, <2>4, InsideATask
<1>4. CASE StartRun
  <2>1. ManagerInv'
    BY <1>4, ManagerUnchanged DEF IInv, StartRun
  <2>2. EngineInv' /\ UNCHANGED << serviceVars, pos >>
    BY <1>4 DEF IInv, EngineInv, StartRun, Phases
  <2> QED BY <2>1, <2>2, InsideATask
<1>5. CASE MaybeCompleteWorkflow
  <2>1. ManagerInv'
    <3>1. CASE UNCHANGED managerVars
      BY <3>1, ManagerUnchanged DEF IInv
    <3>2. CASE complete_workflow(task)
      BY <3>2, CompleteWorkflowKeepsManager DEF IInv
    <3>3. CASE /\ task \in {"CancelledError", "FatalDecisionError"}
               /\ RaiseInEngine(task)
      BY <3>3, RaiseInEngineKeepsManager DEF IInv
    <3> QED BY <1>5, <3>1, <3>2, <3>3 DEF MaybeCompleteWorkflow
  <2>2. /\ phase' \in {"end", "failed"}
        /\ task' = task
        /\ UNCHANGED << serviceVars, pos >>
    BY <1>5 DEF MaybeCompleteWorkflow, Continue
  <2>3. EngineInv'
    BY <2>2 DEF IInv, EngineInv, Phases
  <2> QED BY <2>1, <2>2, <2>3, InsideATask
<1>6. CASE EndExecution
  <2>1. ManagerInv'
    BY <1>6, EndExecutionKeepsManager DEF IInv, EndExecution
  <2>2. /\ phase' \in {"output", "failed"}
        /\ task' = task
        /\ UNCHANGED << serviceVars, pos >>
    BY <1>6 DEF EndExecution, Continue
  <2>3. EngineInv'
    BY <2>2 DEF IInv, EngineInv, Phases
  <2> QED BY <2>1, <2>2, <2>3, InsideATask
<1>7. CASE ApplyOutputEvent
  <2>1. ManagerInv'
    BY <1>7, HandleHistoryEventKeepsManager DEF IInv, ApplyOutputEvent
  <2>2. /\ phase' \in {"output", "failed"}
        /\ task' = task
        /\ UNCHANGED << serviceVars, pos >>
    BY <1>7 DEF ApplyOutputEvent, Continue
  <2>3. EngineInv'
    BY <2>2 DEF IInv, EngineInv, Phases
  <2> QED BY <2>1, <2>2, <2>3, InsideATask
<1>8. CASE FinishBatch
  <2>1. ManagerInv'
    BY <1>8, ManagerUnchanged DEF IInv, FinishBatch
  <2>2. EngineInv' /\ UNCHANGED << serviceVars, pos >>
    BY <1>8 DEF IInv, EngineInv, FinishBatch, Phases
  <2> QED BY <2>1, <2>2, InsideATask
<1> QED BY <1>1, <1>2, <1>3, <1>4, <1>5, <1>6, <1>7, <1>8 DEF EngineNext

\* A call may end the workflow function, and nothing else of the engine.
LEMMA CallKeepsInv ==
    ASSUME IInv, ManagerInv', NEW op, Calls(op),
           Raises \/ task' \in Outcomes
    PROVE  IInv'
<1>1. UNCHANGED << serviceVars, pos, phase >>
  BY DEF Calls
<1>2. EngineInv'
  BY <1>1 DEF IInv, EngineInv, Raises
<1> QED BY <1>1, <1>2, InsideATask

\* The workflow function: one step for each of its calls.
LEMMA WorkflowKeepsInv ==
    ASSUME IInv, WorkflowNext
    PROVE  IInv'
<1>1. ASSUME NEW t \in ActivityTypes, ExecuteActivity(t)
      PROVE  IInv'
  <2>1. ManagerInv'
    BY <1>1, RequestKeepsManager DEF IInv, ExecuteActivity, schedule_activity
  <2> QED BY <1>1, <2>1, CallKeepsInv DEF ExecuteActivity
<1>2. CASE StartTimer
  <2>1. ManagerInv'
    BY <1>2, RequestKeepsManager DEF IInv, StartTimer, start_timer
  <2> QED BY <1>2, <2>1, CallKeepsInv DEF StartTimer
<1>3. ASSUME NEW id \in DOMAIN state_machines, CancelFuture(id)
      PROVE  IInv'
  <2>1. ManagerInv'
    BY <1>3, RequestCancelKeepsManager DEF IInv, CancelFuture
  <2> QED BY <1>3, <2>1, CallKeepsInv DEF CancelFuture
<1>4. ASSUME NEW id \in DOMAIN state_machines, AutomaticCancel(id)
      PROVE  IInv'
  <2>1. ManagerInv'
    BY <1>4, RequestCancelKeepsManager DEF IInv, AutomaticCancel
  <2>2. EngineInv' /\ UNCHANGED << serviceVars, pos >>
    BY <1>4 DEF IInv, EngineInv, AutomaticCancel, engineVars
  <2> QED BY <2>1, <2>2, InsideATask
<1>5. ASSUME NEW outcome \in Outcomes, Ends(outcome)
      PROVE  IInv'
  <2>1. ManagerInv'
    BY <1>5, ManagerUnchanged DEF IInv, Ends
  <2> QED BY <1>5, <2>1, CallKeepsInv DEF Ends
<1>6. CASE Yield
  <2>1. ManagerInv'
    BY <1>6, ManagerUnchanged DEF IInv, Yield
  <2>2. EngineInv' /\ UNCHANGED << serviceVars, pos >>
    BY <1>6 DEF IInv, EngineInv, Yield, Phases
  <2> QED BY <2>1, <2>2, InsideATask
<1>7. CASE RejectionUnwinds
  <2>1. ManagerInv'
    BY <1>7, ManagerUnchanged DEF IInv, RejectionUnwinds
  <2>2. EngineInv' /\ UNCHANGED << serviceVars, pos >>
    BY <1>7 DEF IInv, EngineInv, RejectionUnwinds
  <2> QED BY <2>1, <2>2, InsideATask
<1> QED BY <1>1, <1>2, <1>3, <1>4, <1>5, <1>6, <1>7 DEF WorkflowNext, Return, continue_as_new

OutlivedTyped == outlived \in BOOLEAN

\* A workflow function that once went on behind a rejection did so for good.
LEMMA OutlivedOnlyGrows == [Next]_vars => outlived' = outlived \/ outlived' = TRUE
<1> DEFINE Grows == outlived' = outlived \/ outlived' = TRUE
<1> SUFFICES ASSUME [Next]_vars PROVE Grows
  OBVIOUS
<1>1. ASSUME UNCHANGED userVars PROVE Grows
  BY <1>1 DEF userVars
<1>2. CASE UNCHANGED vars
  BY <1>1, <1>2 DEF vars
<1>3. CASE ServiceNext
  <2>1. ASSUME NEW type, Unsuccessfully(type) PROVE Grows
    BY <2>1 DEF Unsuccessfully
  <2>2. ASSUME NEW events, Arrive(events) PROVE Grows
    BY <1>1, <2>2 DEF Arrive
  <2>3. CASE \/ \E s \in DOMAIN history, type \in CloseEvents : ActivityCloses(s, type)
             \/ \E n \in 0..(MaxIds - 1) : TimerFires(DecisionId("TIMER", n))
             \/ SignalArrives
    BY <2>2, <2>3 DEF ActivityCloses, TimerFires, SignalArrives
  <2>4. CASE \/ PollDecisionTask \/ DecisionTaskTimesOut \/ RespondDecisionTaskFailed
             \/ RespondDecisionTaskCompleted \/ RecordDecision \/ FinishDecisionTask
    BY <1>1, <2>1, <2>4 DEF PollDecisionTask, DecisionTaskTimesOut, RespondDecisionTaskFailed,
                            RespondDecisionTaskCompleted, RecordDecision, FinishDecisionTask
  <2> QED BY <1>3, <2>3, <2>4 DEF ServiceNext
<1>4. CASE EngineNext
  BY <1>1, <1>4 DEF EngineNext, NextDecisionEvents, CollectDecisions, ApplyInputEvent, StartRun,
                    MaybeCompleteWorkflow, EndExecution, ApplyOutputEvent, FinishBatch
<1>5. CASE WorkflowNext
  <2>1. ASSUME Raises PROVE Grows
    BY <2>1 DEF Raises
  <2>2. ASSUME NEW outcome, Ends(outcome) PROVE Grows
    BY <2>2 DEF Ends
  <2> QED BY <1>1, <1>5, <2>1, <2>2
      DEF WorkflowNext, ExecuteActivity, StartTimer, CancelFuture, AutomaticCancel, RejectionUnwinds,
          Return, continue_as_new, Yield
<1> QED BY <1>2, <1>3, <1>4, <1>5 DEF Next

-----------------------------------------------------------------------------
(* The theorems                                                            *)

\* Replay is over when the batch's events are handled: between two batches,
\* and between two tasks, nothing is replaying.
LEMMA ReplayOverKept == ReplayOver /\ [Next]_vars => ReplayOver'
<1> SUFFICES ASSUME ReplayOver, [Next]_vars PROVE ReplayOver'
  OBVIOUS
<1>1. CASE UNCHANGED << replaying, phase >>
  BY <1>1 DEF ReplayOver
<1>2. CASE phase' \in {"input", "run", "complete", "end", "failed"}
  BY <1>2 DEF ReplayOver
<1>3. CASE ~replaying'
  BY <1>3 DEF ReplayOver
<1>4. CASE ~replaying /\ UNCHANGED replaying
  BY <1>4 DEF ReplayOver
<1>5. CASE ServiceNext
  <2>1. ASSUME NEW s, NEW type, ActivityCloses(s, type)
        PROVE  UNCHANGED << replaying, phase >>
    BY <2>1 DEF ActivityCloses, Arrive, managerVars, engineVars
  <2>2. ASSUME NEW id, TimerFires(id)
        PROVE  UNCHANGED << replaying, phase >>
    BY <2>2 DEF TimerFires, Arrive, managerVars, engineVars
  <2>6. ASSUME SignalArrives
        PROVE  UNCHANGED << replaying, phase >>
    BY <2>6 DEF SignalArrives, Arrive, managerVars, engineVars
  <2>3. ASSUME PollDecisionTask \/ RespondDecisionTaskCompleted
        PROVE  ~replaying' \/ (~replaying /\ UNCHANGED replaying)
    BY <2>3 DEF PollDecisionTask, RespondDecisionTaskCompleted, ReplayOver,
                Unsuccessfully, DropEngine, NewManager, managerVars
  <2>4. ASSUME DecisionTaskTimesOut \/ RespondDecisionTaskFailed \/ FinishDecisionTask
        PROVE  ~replaying'
    BY <2>4 DEF DecisionTaskTimesOut, RespondDecisionTaskFailed,
                FinishDecisionTask, Unsuccessfully, DropEngine, NewManager
  <2>5. ASSUME RecordDecision
        PROVE  UNCHANGED << replaying, phase >>
    BY <2>5 DEF RecordDecision, managerVars, engineVars
  <2> QED BY <1>1, <1>3, <1>4, <1>5, <2>1, <2>2, <2>3, <2>4, <2>5, <2>6 DEF ServiceNext
<1>6. CASE EngineNext
  <2>1. ASSUME NextDecisionEvents \/ ApplyInputEvent \/ StartRun \/ MaybeCompleteWorkflow
        PROVE  phase' \in {"input", "run", "complete", "end", "failed"}
    BY Zenon, <2>1 DEF NextDecisionEvents, ApplyInputEvent, StartRun,
                MaybeCompleteWorkflow, Continue
  <2>2. ASSUME CollectDecisions \/ FinishBatch \/ ApplyOutputEvent
        PROVE  ~replaying /\ UNCHANGED replaying
    BY Zenon, <2>2 DEF CollectDecisions, FinishBatch, ApplyOutputEvent, ReplayOver,
                handle_history_event, managerVars
  <2>3. ASSUME EndExecution
        PROVE  phase' = "failed" \/ ~replaying'
    BY <2>3 DEF EndExecution, end_execution, Reject, Continue
  <2> QED BY <1>2, <1>3, <1>4, <1>6, <2>1, <2>2, <2>3 DEF EngineNext
<1>7. CASE WorkflowNext
  <2>1. ASSUME NEW op, Calls(op)
        PROVE  phase' = "run"
    BY <2>1 DEF Calls
  <2>2. ASSUME NEW id, AutomaticCancel(id)
        PROVE  phase' = "run"
    BY <2>2 DEF AutomaticCancel, engineVars
  <2>3. ASSUME Yield
        PROVE  phase' = "complete"
    BY <2>3 DEF Yield
  <2>4. ASSUME RejectionUnwinds
        PROVE  phase' = "run"
    BY <2>4 DEF RejectionUnwinds
  <2> QED BY <1>2, <1>7, <2>1, <2>2, <2>3, <2>4
             DEF WorkflowNext, ExecuteActivity, StartTimer, CancelFuture, Return,
                 continue_as_new, Ends
<1> QED BY <1>1, <1>5, <1>6, <1>7 DEF Next, vars, managerVars, engineVars

\* The invariant holds of an execution that just started.
LEMMA InitHoldsInv == Init => IInv
<1> SUFFICES ASSUME Init PROVE IInv
  OBVIOUS
<1>1. ManagerInv
  BY FirstManager DEF Init
<1>2. ServiceInv
  BY EmptyIsSeq, TuplesAreSeqs DEF Init, ServiceInv
<1>3. EngineInv
  BY DEF Init, EngineInv, Phases
<1> QED BY <1>1, <1>2, <1>3 DEF IInv

\* Every step keeps it.
LEMMA NextKeepsInv == IInv /\ ReplayOver /\ [Next]_vars => IInv'
<1> SUFFICES ASSUME IInv, ReplayOver, [Next]_vars PROVE IInv'
  OBVIOUS
<1>1. CASE UNCHANGED vars
  <2>1. ManagerInv'
    BY <1>1, ManagerUnchanged DEF IInv, vars
  <2>2. EngineInv' /\ UNCHANGED << serviceVars, pos >>
    BY <1>1 DEF IInv, EngineInv, vars, engineVars
  <2> QED BY <2>1, <2>2, InsideATask
<1>2. CASE Next
  BY <1>2, ServiceKeepsInv, EngineKeepsInv, WorkflowKeepsInv DEF Next
<1> QED BY <1>1, <1>2

\* The invariant holds in every state of the worker and its service.
THEOREM Invariance == Spec => []IInv
<1>1. Init => IInv
  BY InitHoldsInv
<1>2. IInv /\ ReplayOver /\ [Next]_vars => IInv'
  BY NextKeepsInv
<1>3. Init => ReplayOver
  BY DEF Init, ManagerInit, ReplayOver
<1>4. ReplayOver /\ [Next]_vars => ReplayOver'
  BY ReplayOverKept
<1> QED BY <1>1, <1>2, <1>3, <1>4, PTL DEF Spec

\* Type correctness: every machine is filed under a decision id and is in a
\* state of its life cycle, the engine in one of its phases.
THEOREM TypeCorrect == Spec => []TypeOK
<1>1. IInv /\ OutlivedTyped => TypeOK
  <2> SUFFICES ASSUME IInv, OutlivedTyped PROVE TypeOK
    OBVIOUS
  <2>1. \A id \in DOMAIN state_machines :
            /\ id \in DecisionIds
            /\ state_machines[id].state \in DecisionState
            /\ state_machines[id].future \in FutureState
    BY KeysAreIds DEF IInv, ManagerInv, MachinesInv, MachineOK
  <2> QED BY <2>1 DEF IInv, ManagerInv, MachinesInv, FlagsOK, EngineInv, OutlivedTyped, TypeOK
<1>2. Init => OutlivedTyped
  BY DEF Init, OutlivedTyped
<1>3. OutlivedTyped /\ [Next]_vars => OutlivedTyped'
  BY OutlivedOnlyGrows DEF OutlivedTyped
<1> QED BY <1>1, <1>2, <1>3, Invariance, PTL DEF Spec

\* The OrderedDict holds every machine exactly once, however often the
\* workflow cancels what it started: no decision is lost or sent twice by the
\* moves to the end.
THEOREM OrderIsAlwaysKeys == Spec => []OrderIsKeys
<1>1. IInv => OrderIsKeys
  BY DEF IInv, ManagerInv, MachinesInv
<1> QED BY <1>1, Invariance, PTL

\* Ids are never reused within an engine, also not after rejected calls.
THEOREM IdsAreFresh == Spec => []FreshIds
<1>1. IInv => FreshIds
  BY DEF IInv, ManagerInv, MachinesInv
<1> QED BY <1>1, Invariance, PTL

\* An event finds the machine its alias names: an alias never dangles, and
\* never leads to a machine of another type.
THEOREM AliasesAlwaysResolve == Spec => []AliasesResolve
<1>1. IInv => AliasesResolve
  BY DEF IInv, ManagerInv, MachinesInv
<1> QED BY <1>1, Invariance, PTL

\* The determinism tracker never holds two entries for one decision, nor an
\* entry with more than a creation and a cancellation.
THEOREM TrackerEntriesAreUnique == Spec => []TrackerHoldsOneEntry
<1>1. IInv => TrackerHoldsOneEntry
  BY DEF IInv, ManagerInv, TrackerInv
<1> QED BY <1>1, Invariance, PTL

\* The four together: every history, every workflow and every rejected call leaves
\* a manager that the next call can rely on.
THEOREM ManagerIsSound == Spec => []ManagerSound
<1>1. IInv => ManagerSound
  BY DEF IInv, ManagerInv, MachinesInv, TrackerInv, ManagerSound
<1> QED BY <1>1, Invariance, PTL

-----------------------------------------------------------------------------
(* What becomes of a rejection                                             *)

\* So far the workflow function let every rejection through.
LetThrough == ~outlived

\* Once it did not, that is so for good.
LEMMA OutlivedStays == LetThrough' /\ [Next]_vars => LetThrough
BY OutlivedOnlyGrows DEF LetThrough

\* The tracker rejects in one of the workflow's calls, which then unwinds, or
\* in the engine, which gives up at once.
Unwinds ==
    failed => \/ phase \in {"run", "complete"} /\ task = "FatalDecisionError"
              \/ phase = "failed"

\* What ends or starts a task leaves no rejection behind.
LEMMA ServiceKeepsRejection ==
    ASSUME Unwinds, ServiceNext
    PROVE  Unwinds'
<1>1. CASE DropEngine
  BY <1>1 DEF DropEngine, NewManager, Unwinds
<1>2. CASE UNCHANGED << managerVars, engineVars >>
  BY <1>2 DEF managerVars, engineVars, Unwinds
<1>3. CASE /\ phase \in {"idle", "respond"}
           /\ UNCHANGED managerVars
  BY <1>3 DEF managerVars, Unwinds
<1>4. DropEngine \/ UNCHANGED << managerVars, engineVars >>
          \/ (phase \in {"idle", "respond"} /\ UNCHANGED managerVars)
  <2>1. ASSUME NEW s, NEW type, ActivityCloses(s, type)
        PROVE  UNCHANGED << managerVars, engineVars >>
    BY <2>1 DEF ActivityCloses, Arrive
  <2>2. ASSUME NEW id, TimerFires(id)
        PROVE  UNCHANGED << managerVars, engineVars >>
    BY <2>2 DEF TimerFires, Arrive
  <2>8. ASSUME SignalArrives
        PROVE  UNCHANGED << managerVars, engineVars >>
    BY <2>8 DEF SignalArrives, Arrive
  <2>3. CASE PollDecisionTask
    BY <2>3 DEF PollDecisionTask
  <2>4. CASE DecisionTaskTimesOut \/ RespondDecisionTaskFailed
    BY <2>4 DEF DecisionTaskTimesOut, RespondDecisionTaskFailed, Unsuccessfully
  <2>5. CASE RespondDecisionTaskCompleted
    BY <2>5 DEF RespondDecisionTaskCompleted, Unsuccessfully
  <2>6. CASE RecordDecision
    BY <2>6 DEF RecordDecision
  <2>7. CASE FinishDecisionTask
    BY <2>7 DEF FinishDecisionTask
  <2> QED BY <2>1, <2>2, <2>3, <2>4, <2>5, <2>6, <2>7, <2>8 DEF ServiceNext
<1> QED BY <1>1, <1>2, <1>3, <1>4

\* The engine gives up when a call of its own is rejected, and when the
\* workflow function ended in a rejection.
LEMMA EngineKeepsRejection ==
    ASSUME Unwinds, EngineNext
    PROVE  Unwinds'
<1>1. CASE MaybeCompleteWorkflow
  <2>1. CASE task \in {"none", "running"} /\ UNCHANGED managerVars /\ phase' = "end"
    BY <1>1, <2>1 DEF MaybeCompleteWorkflow, managerVars, Unwinds
  <2>2. CASE /\ task \in Outcomes \ {"CancelledError"}
             /\ complete_workflow(task)
             /\ Continue("end")
    <3>1. ~failed
      BY <1>1, <2>2, OutcomesAssumption DEF MaybeCompleteWorkflow, Unwinds
    <3>2. failed' = failed \/ raised' = "NonDeterminismError"
      BY <2>2 DEF complete_workflow, Reject
    <3> QED BY <2>2, <3>1, <3>2 DEF Continue, Unwinds
  <2>3. CASE phase' = "failed"
    BY <2>3 DEF Unwinds
  <2> QED BY <1>1, <2>1, <2>2, <2>3 DEF MaybeCompleteWorkflow
<1>2. CASE EndExecution
  <2>1. ~failed
    BY <1>2 DEF EndExecution, Unwinds
  <2>2. failed' = failed \/ raised' = "NonDeterminismError"
    BY <1>2 DEF EndExecution, end_execution, Reject
  <2> QED BY <1>2, <2>1, <2>2 DEF EndExecution, Continue, Unwinds
<1>3. ASSUME phase \in {"next", "input", "output"}, failed' = failed
      PROVE  Unwinds'
  BY <1>3 DEF Unwinds
<1>4. CASE NextDecisionEvents
  BY Zenon, <1>3, <1>4 DEF NextDecisionEvents, RaiseInEngine, start_execution
<1>5. CASE ApplyInputEvent \/ ApplyOutputEvent
  BY Zenon, <1>3, <1>5 DEF ApplyInputEvent, ApplyOutputEvent, handle_history_event
<1>6. CASE CollectDecisions \/ StartRun \/ FinishBatch
  BY <1>3, <1>6 DEF CollectDecisions, StartRun, FinishBatch, managerVars
<1> QED BY <1>1, <1>2, <1>4, <1>5, <1>6 DEF EngineNext

\* A rejected call of the workflow ends it, if it lets the rejection through.
LEMMA WorkflowKeepsRejection ==
    ASSUME Unwinds, LetThrough', WorkflowNext
    PROVE  Unwinds'
<1>1. ASSUME NEW op, Calls(op), Raises,
             failed' = failed \/ raised' = "NonDeterminismError"
      PROVE  Unwinds'
  <2>1. ~failed /\ phase' = "run"
    BY <1>1 DEF Calls, Unwinds
  <2> QED BY <1>1, <2>1 DEF Raises, Unwinds, LetThrough
<1>2. ASSUME NEW type, NEW props, NEW request, Request(type, props, request)
      PROVE  failed' = failed \/ raised' = "NonDeterminismError"
  BY <1>2 DEF Request, Reject
<1>3. ASSUME NEW id, request_cancel(id)
      PROVE  failed' = failed \/ raised' = "NonDeterminismError"
  BY <1>3 DEF request_cancel, Reject
<1>4. ASSUME NEW t, ExecuteActivity(t)
      PROVE  Unwinds'
  BY <1>1, <1>2, <1>4 DEF ExecuteActivity, schedule_activity
<1>5. CASE StartTimer
  BY <1>1, <1>2, <1>5 DEF StartTimer, start_timer
<1>6. ASSUME NEW id, CancelFuture(id)
      PROVE  Unwinds'
  BY <1>1, <1>3, <1>6 DEF CancelFuture
<1>7. ASSUME NEW id, AutomaticCancel(id)
      PROVE  Unwinds'
  BY <1>7 DEF AutomaticCancel, engineVars, Unwinds
<1>8. ASSUME NEW outcome, Ends(outcome)
      PROVE  Unwinds'
  <2>1. ~failed /\ failed' = failed
    BY <1>8 DEF Ends, Calls, managerVars, Unwinds
  <2> QED BY <2>1 DEF Unwinds
<1>9. CASE Yield
  BY <1>9 DEF Yield, managerVars, Unwinds
<1>10. CASE RejectionUnwinds
  BY <1>10 DEF RejectionUnwinds, Unwinds
<1> QED BY <1>4, <1>5, <1>6, <1>7, <1>8, <1>9, <1>10 DEF WorkflowNext, Return, continue_as_new

\* So no step takes a rejection back.
LEMMA RejectionKept ==
    ASSUME Unwinds, LetThrough', [Next]_vars
    PROVE  Unwinds'
<1>1. CASE UNCHANGED vars
  BY <1>1 DEF vars, managerVars, engineVars, Unwinds
<1> QED BY <1>1, ServiceKeepsRejection, EngineKeepsRejection,
           WorkflowKeepsRejection DEF Next

-----------------------------------------------------------------------------
(* Collecting the decisions, a loop over the machines                      *)

\* A set of numbers has a least one: what induction over the machines rests on.
LEMMA Least == ASSUME NEW S, S \subseteq Nat, S # {} PROVE \E n \in S : \A m \in S : n <= m
<1> DEFINE R == OpToRel(<, Nat)
<1>1. IsWellFoundedOn(R, Nat)
  BY NatLessThanWellFounded
<1>2. ASSUME NEW x \in Nat, NEW y \in Nat, y < x PROVE << y, x >> \in R
  BY <1>2 DEF OpToRel
<1> HIDE DEF R
<1>3. PICK n \in S : \A m \in S : ~(<< m, n >> \in R)
  BY <1>1, WFMin
<1>4. ASSUME NEW m \in S PROVE n <= m
  <2>1. m \in Nat /\ n \in Nat
    OBVIOUS
  <2>2. ~(m < n)
    BY <1>2, <1>3, <2>1
  <2> QED BY <2>1, <2>2
<1> QED BY <1>4

\* The loop over the machines is well defined, however many there are.
LEMMA CollectingEnds ==
    ASSUME NEW N \in Nat
    PROVE  \E f : f = [n \in 0..N |->
                          IF n = 0 THEN << >> ELSE f[n - 1] \o DecisionsOf(order[n])]
<1> DEFINE Is(f, k) == f = [n \in 0..k |->
                          IF n = 0 THEN << >> ELSE f[n - 1] \o DecisionsOf(order[n])]
           Undefined == {k \in Nat : ~\E f : Is(f, k)}
<1>1. SUFFICES ASSUME Undefined # {} PROVE FALSE
  OBVIOUS
<1>2. PICK k \in Undefined : \A m \in Undefined : k <= m
  BY <1>1, Least
<1>3. k # 0
  <2>1. Is([n \in 0..0 |-> << >>], 0)
    OBVIOUS
  <2> QED BY <1>2, <2>1
<1>4. k - 1 \in Nat /\ k - 1 \notin Undefined
  <2>1. k \in Nat
    BY <1>2
  <2>2. k - 1 \in Nat /\ ~(k <= k - 1)
    BY <2>1, <1>3
  <2> QED BY <1>2, <2>2
<1>5. PICK g : Is(g, k - 1)
  BY <1>4
<1> DEFINE h == [n \in 0..k |-> IF n = k THEN g[k - 1] \o DecisionsOf(order[k]) ELSE g[n]]
<1>6. ASSUME NEW n \in 0..k
      PROVE  h[n] = IF n = 0 THEN << >> ELSE h[n - 1] \o DecisionsOf(order[n])
  <2>1. CASE n = k
    BY <1>3, <1>4, <2>1
  <2>2. CASE n # k
    <3>1. n \in 0..(k - 1) /\ (n # 0 => n - 1 \in 0..(k - 1) /\ n - 1 \in 0..k /\ n - 1 # k)
      BY <1>4, <2>2
    <3>2. g[n] = IF n = 0 THEN << >> ELSE g[n - 1] \o DecisionsOf(order[n])
      BY <1>5, <3>1
    <3> QED BY <2>2, <3>1, <3>2
  <2> QED BY <2>1, <2>2
<1>7. Is(h, k)
  BY <1>6
<1> QED BY <1>2, <1>7

-----------------------------------------------------------------------------
(* The completion is the last decision                                     *)

\* Besides the completion there are machines of activities and timers only.
KeysInv ==
    \A id \in DOMAIN state_machines \ {COMPLETION_ID} : id.type \in {"ACTIVITY", "TIMER"}

\* The completion is behind all other machines: the workflow function ended,
\* and makes no call that could move another one behind it.
CompletionInv ==
    COMPLETION_ID \in DOMAIN state_machines =>
        /\ task \in Outcomes
        /\ Len(order) # 0
        /\ order[Len(order)] = COMPLETION_ID

\* The answer is a sequence, and what completes the workflow is last in it.
DecisionsInv == IsSeq(decisions) /\ CompletionIsLast

\* The completion is last, while it is asked for and in the answer.
LastInv == KeysInv /\ CompletionInv /\ DecisionsInv

\* A machine has one decision at most, and only the completion's closes the
\* workflow.
LEMMA OneDecision ==
    ASSUME KeysInv, NEW id \in DOMAIN state_machines
    PROVE  LET d == DecisionsOf(id)
           IN  /\ IsSeq(d)
               /\ Len(d) \in 0..1
               /\ \A i \in DOMAIN d : ClosesWorkflow(d[i]) => id = COMPLETION_ID
<1> DEFINE m == state_machines[id]
<1>1. CASE HasDecision(id, m)
  <2>1. DecisionsOf(id) = << GetDecision(id, m) >>
    BY <1>1 DEF DecisionsOf
  <2>2. ASSUME id # COMPLETION_ID PROVE ~ClosesWorkflow(GetDecision(id, m))
    <3>1. id.type \in {"ACTIVITY", "TIMER"}
      BY <2>2 DEF KeysInv
    <3>2. GetDecision(id, m).what \in {"ScheduleActivityTask", "StartTimer", "RecordMarker",
                                       "RequestCancelActivityTask", "CancelTimer"}
      BY <2>2, <3>1 DEF GetDecision, Decision, CreateDecision, CancelDecision
    <3> QED BY <3>2, OutcomesAssumption DEF ClosesWorkflow
  <2> DEFINE g == GetDecision(id, m)
  <2> HIDE DEF g
  <2>3. IsSeq(<< g >>) /\ Len(<< g >>) = 1 /\ DOMAIN << g >> = {1} /\ << g >>[1] = g
    BY TuplesAreSeqs
  <2> QED BY <2>1, <2>2, <2>3 DEF g
<1>2. CASE ~HasDecision(id, m)
  BY <1>2, EmptyIsSeq DEF DecisionsOf
<1> QED BY <1>1, <1>2

\* So the completion's is the last of them all.
LEMMA CollectedIsLast ==
    ASSUME MachinesInv, KeysInv, CompletionInv
    PROVE  LET c == collect_pending_decisions
           IN  /\ IsSeq(c)
               /\ \A i \in DOMAIN c : ClosesWorkflow(c[i]) => i = Len(c)
<1> DEFINE N == Len(order)
           C == CHOOSE f : f = [n \in 0..N |->
                    IF n = 0 THEN << >> ELSE f[n - 1] \o DecisionsOf(order[n])]
           Good(n) == /\ IsSeq(C[n])
                      /\ \A i \in DOMAIN C[n] :
                             ClosesWorkflow(C[n][i]) => i = Len(C[n]) /\ n = N
           Bad == {n \in 0..N : ~Good(n)}
<1>1. /\ N \in Nat
      /\ DOMAIN order = 1..N
      /\ \A n \in 1..N : order[n] \in DOMAIN state_machines
      /\ \A n \in 1..N : order[n] = COMPLETION_ID => n = N
  <2>1. N \in Nat /\ DOMAIN order = 1..N
    BY LenProperties DEF MachinesInv
  <2>2. \A n \in 1..N : order[n] \in DOMAIN state_machines
    BY <2>1 DEF MachinesInv, OrderIsKeys
  <2>3. ASSUME NEW n \in 1..N, order[n] = COMPLETION_ID PROVE n = N
    <3>1. N \in 1..N /\ order[N] = COMPLETION_ID
      BY <2>1, <2>2, <2>3 DEF CompletionInv
    <3> QED BY Zenon, <2>1, <2>3, <3>1 DEF MachinesInv, OrderIsKeys
  <2> QED BY Zenon, <2>1, <2>2, <2>3
<1>2. C = [n \in 0..N |-> IF n = 0 THEN << >> ELSE C[n - 1] \o DecisionsOf(order[n])]
  <2> HIDE DEF N
  <2> QED BY Zenon, <1>1, CollectingEnds
<1>3. collect_pending_decisions = C[N]
  BY DEF collect_pending_decisions
<1> HIDE DEF N, C
<1>4. SUFFICES ASSUME Bad # {} PROVE FALSE
  <2>1. N \in 0..N
    BY <1>1
  <2> QED BY <1>3, <2>1
<1>5. PICK n \in Bad : \A m \in Bad : n <= m
  <2>1. Bad \subseteq Nat
    OBVIOUS
  <2> QED BY <1>4, <2>1, Least
<1>6. n \in 0..N /\ n \in Nat
  BY <1>5
<1>7. CASE n = 0
  <2>1. C[n] = << >>
    BY <1>2, <1>6, <1>7
  <2> QED BY <1>5, <2>1, EmptyIsSeq
<1>8. CASE n # 0
  <2>1. n - 1 \in 0..N /\ n - 1 # N /\ ~(n <= n - 1) /\ n \in 1..N
    BY <1>1, <1>6, <1>8
  <2>2. Good(n - 1)
    BY <1>5, <2>1
  <2> DEFINE s == C[n - 1]
             t == DecisionsOf(order[n])
  <2>3. C[n] = s \o t
    BY <1>2, <1>6, <1>8
  <2>4. IsSeq(s) /\ \A i \in DOMAIN s : ~ClosesWorkflow(s[i])
    BY <2>1, <2>2
  <2>5. /\ IsSeq(t) /\ Len(t) \in 0..1
        /\ \A i \in DOMAIN t : ClosesWorkflow(t[i]) => n = N
    BY <1>1, <2>1, OneDecision
  <2> HIDE DEF s, t
  <2>6. Len(s) \in Nat /\ DOMAIN s = 1..Len(s) /\ Len(t) \in Nat /\ DOMAIN t = 1..Len(t)
    BY <2>4, <2>5, LenProperties DEF IsSeq
  <2>7. /\ IsSeq(s \o t)
        /\ DOMAIN (s \o t) = 1..(Len(s) + Len(t))
        /\ \A i \in 1..(Len(s) + Len(t)) :
               (s \o t)[i] = IF i <= Len(s) THEN s[i] ELSE t[i - Len(s)]
    BY <2>4, <2>5, ConcatIsSeq
  <2>8. Len(s \o t) = Len(s) + Len(t)
    <3>1. Len(s \o t) \in Nat /\ DOMAIN (s \o t) = 1..Len(s \o t)
      BY <2>7, LenProperties DEF IsSeq
    <3> QED BY <2>6, <2>7, <3>1
  <2>9. ASSUME NEW i \in DOMAIN (s \o t), ClosesWorkflow((s \o t)[i])
        PROVE  i = Len(s \o t) /\ n = N
    <3>1. i \in 1..(Len(s) + Len(t))
      BY <2>7
    <3>2. ~(i <= Len(s))
      <4>1. ASSUME i <= Len(s) PROVE FALSE
        <5>1. i \in DOMAIN s /\ (s \o t)[i] = s[i]
          BY <2>6, <2>7, <3>1, <4>1
        <5> QED BY <2>4, <2>9, <5>1
      <4> QED BY <4>1
    <3>3. i - Len(s) \in DOMAIN t /\ Len(t) = 1 /\ i = Len(s) + Len(t)
      BY <2>5, <2>6, <3>1, <3>2
    <3>4. (s \o t)[i] = t[i - Len(s)]
      BY <2>7, <3>1, <3>2
    <3> QED BY <2>5, <2>8, <2>9, <3>3, <3>4
  <2> QED BY <1>5, <2>3, <2>7, <2>9
<1> QED BY <1>7, <1>8

\* What leaves the machines and the answer alone, or begins anew, keeps it.
LEMMA NothingSentLater ==
    ASSUME LastInv, UNCHANGED << state_machines, order, decisions >>,
           task' = task \/ task \notin Outcomes
    PROVE  LastInv'
<1>1. COMPLETION_ID \notin DOMAIN state_machines \/ task' = task
  BY DEF LastInv, CompletionInv
<1> QED BY <1>1 DEF LastInv, KeysInv, CompletionInv, DecisionsInv, CompletionIsLast

\* A new engine has no completion.
LEMMA DropEngineKeepsLast ==
    ASSUME LastInv, DropEngine, decisions' = decisions \/ decisions' = << >>
    PROVE  LastInv'
<1>1. KeysInv' /\ CompletionInv'
  BY DEF DropEngine, NewManager, KeysInv, CompletionInv
<1>2. DecisionsInv'
  BY EmptyIsSeq DEF LastInv, DecisionsInv, CompletionIsLast
<1> QED BY <1>1, <1>2 DEF LastInv

\* The service takes the decisions of an answer from the front.
LEMMA TailKeepsLast ==
    ASSUME DecisionsInv, decisions # << >>, decisions' = Tail(decisions)
    PROVE  DecisionsInv'
<1> DEFINE S == {decisions[i] : i \in DOMAIN decisions}
<1>1. decisions \in Seq(S) /\ decisions # << >>
  BY DEF DecisionsInv, IsSeq
<1> HIDE DEF S
<1>2. /\ Tail(decisions) \in Seq(S)
      /\ Len(Tail(decisions)) = Len(decisions) - 1
      /\ \A i \in 1..Len(Tail(decisions)) : Tail(decisions)[i] = decisions[i + 1]
  BY <1>1, HeadTailProperties
<1>3. /\ IsSeq(decisions')
      /\ Len(decisions) \in Nat /\ Len(decisions') \in Nat
      /\ DOMAIN decisions = 1..Len(decisions)
      /\ DOMAIN decisions' = 1..Len(decisions')
  BY <1>1, <1>2, SeqIsSeq
<1>4. ASSUME NEW i \in DOMAIN decisions', ClosesWorkflow(decisions'[i])
      PROVE  i = Len(decisions')
  <2>1. i + 1 \in DOMAIN decisions /\ decisions'[i] = decisions[i + 1]
    BY <1>2, <1>3
  <2>2. i + 1 = Len(decisions)
    BY <1>4, <2>1 DEF DecisionsInv, CompletionIsLast
  <2> QED BY <1>2, <1>3, <2>2
<1>5. CompletionIsLast'
  BY <1>4 DEF CompletionIsLast, ClosesWorkflow
<1> QED BY <1>3, <1>5 DEF DecisionsInv

\* The service takes an answer from its front, or drops it.
LEMMA ServiceKeepsLast ==
    ASSUME LastInv, ServiceNext
    PROVE  LastInv'
<1>1. CASE UNCHANGED << state_machines, order, decisions, task >>
  BY <1>1, NothingSentLater
<1>2. CASE DropEngine /\ (decisions' = decisions \/ decisions' = << >>)
  BY <1>2, DropEngineKeepsLast
<1>3. CASE RecordDecision
  <2>1. decisions # << >> /\ decisions' = Tail(decisions)
        /\ UNCHANGED << state_machines, order, task >>
    BY <1>3 DEF RecordDecision, managerVars, engineVars
  <2>2. DecisionsInv'
    BY <2>1, TailKeepsLast DEF LastInv
  <2> QED BY <2>1, <2>2 DEF LastInv, KeysInv, CompletionInv
<1>4. ASSUME NEW s, NEW type, ActivityCloses(s, type)
      PROVE  UNCHANGED << state_machines, order, decisions, task >>
  BY <1>4 DEF ActivityCloses, Arrive, managerVars, engineVars
<1>5. ASSUME NEW id, TimerFires(id)
      PROVE  UNCHANGED << state_machines, order, decisions, task >>
  BY <1>5 DEF TimerFires, Arrive, managerVars, engineVars
<1>6. ASSUME SignalArrives
      PROVE  UNCHANGED << state_machines, order, decisions, task >>
  BY <1>6 DEF SignalArrives, Arrive, managerVars, engineVars
<1>7. ASSUME PollDecisionTask
      PROVE  UNCHANGED << state_machines, order, decisions, task >>
  BY <1>7 DEF PollDecisionTask, managerVars
<1>8. CASE DecisionTaskTimesOut \/ RespondDecisionTaskFailed
  BY <1>2, <1>8 DEF DecisionTaskTimesOut, RespondDecisionTaskFailed, Unsuccessfully
<1>9. CASE RespondDecisionTaskCompleted
  BY <1>1, <1>2, <1>9 DEF RespondDecisionTaskCompleted, Unsuccessfully, managerVars
<1>10. CASE FinishDecisionTask
  BY <1>2, <1>10 DEF FinishDecisionTask
<1> QED BY <1>1, <1>3, <1>4, <1>5, <1>6, <1>7, <1>8, <1>9, <1>10 DEF ServiceNext

\* Adding a machine that is not the completion, while there is none.
LEMMA RequestKeepsLast ==
    ASSUME LastInv, IInv, task \notin Outcomes, UNCHANGED decisions,
           NEW type \in {"ACTIVITY", "TIMER"}, NEW props, NEW request,
           Request(type, props, request)
    PROVE  LastInv'
<1> DEFINE id == DecisionId(type, id_counter)
<1>1. id # COMPLETION_ID /\ id.type = type
  BY DEF DecisionId, COMPLETION_ID
<1>2. COMPLETION_ID \notin DOMAIN state_machines
  BY DEF LastInv, CompletionInv
<1>3. DOMAIN state_machines' \subseteq DOMAIN state_machines \cup {id}
  <2>1. CASE Accepted(id, props)
    BY <2>1 DEF Request, Add
  <2>2. CASE ~Accepted(id, props)
    BY <2>2 DEF Request
  <2> QED BY <2>1, <2>2
<1> HIDE DEF id
<1>4. KeysInv' /\ CompletionInv'
  BY <1>1, <1>2, <1>3 DEF LastInv, KeysInv, CompletionInv
<1> QED BY <1>4 DEF LastInv, DecisionsInv, CompletionIsLast, ClosesWorkflow

\* A cancellation changes a machine in place and moves it, while there is no
\* completion.
LEMMA RequestCancelKeepsLast ==
    ASSUME LastInv, task \notin Outcomes, UNCHANGED decisions,
           NEW id, request_cancel(id)
    PROVE  LastInv'
<1>1. COMPLETION_ID \notin DOMAIN state_machines
  BY DEF LastInv, CompletionInv
<1>2. DOMAIN state_machines' = DOMAIN state_machines
  BY DEF request_cancel
<1> QED BY <1>1, <1>2 DEF LastInv, KeysInv, CompletionInv, DecisionsInv,
                          CompletionIsLast, ClosesWorkflow

\* The completion is added behind all machines there are.
LEMMA CompleteWorkflowKeepsLast ==
    ASSUME LastInv, IInv, task \in Outcomes, UNCHANGED << decisions, task >>,
           complete_workflow(task)
    PROVE  LastInv'
<1>1. CASE UNCHANGED << state_machines, order >>
  BY <1>1, NothingSentLater
<1>2. CASE ~UNCHANGED << state_machines, order >>
  <2>1. /\ COMPLETION_ID \notin DOMAIN state_machines
        /\ Add(COMPLETION_ID, CompletionMachine(task))
    BY <1>2 DEF complete_workflow, Add
  <2>2. /\ DOMAIN state_machines' = DOMAIN state_machines \cup {COMPLETION_ID}
        /\ order' = Append(order, COMPLETION_ID)
    BY <2>1 DEF Add
  <2>3. Len(order') # 0 /\ order'[Len(order')] = COMPLETION_ID
    <3>1. order \in Seq(DecisionIds) /\ COMPLETION_ID \in DecisionIds
      BY DEF IInv, ManagerInv, MachinesInv, COMPLETION_ID, DecisionId, DecisionIds,
             DecisionType
    <3>2. /\ Len(order') = Len(order) + 1
          /\ order'[Len(order) + 1] = COMPLETION_ID
      BY <2>2, <3>1, AppendProperties
    <3>3. Len(order) \in Nat
      BY <3>1, LenProperties
    <3> QED BY <3>2, <3>3
  <2>4. KeysInv' /\ CompletionInv'
    BY <2>2, <2>3 DEF LastInv, KeysInv, CompletionInv
  <2> QED BY <2>4 DEF LastInv, DecisionsInv, CompletionIsLast, ClosesWorkflow
<1> QED BY <1>1, <1>2

\* What the engine does leaves the completion last.
LEMMA EngineKeepsLast ==
    ASSUME LastInv, IInv, EngineNext
    PROVE  LastInv'
<1>1. CASE NextDecisionEvents
  <2>1. UNCHANGED << state_machines, order, decisions, task >>
    BY <1>1 DEF NextDecisionEvents, RaiseInEngine, start_execution, serviceVars
  <2> QED BY <2>1, NothingSentLater
<1>2. CASE CollectDecisions
  <2>1. /\ decisions' = collect_pending_decisions
        /\ UNCHANGED << state_machines, order, task >>
    BY <1>2 DEF CollectDecisions, managerVars
  <2>2. DecisionsInv'
    <3> DEFINE c == collect_pending_decisions
    <3>1. IsSeq(c) /\ \A i \in DOMAIN c : ClosesWorkflow(c[i]) => i = Len(c)
      BY CollectedIsLast DEF LastInv, IInv, ManagerInv
    <3> HIDE DEF c
    <3>2. decisions' = c
      BY <2>1 DEF c
    <3> QED BY <3>1, <3>2 DEF DecisionsInv, CompletionIsLast, ClosesWorkflow
  <2> QED BY <2>1, <2>2 DEF LastInv, KeysInv, CompletionInv
<1>3. ASSUME NEW event, NEW event_id, handle_history_event(event, event_id),
             UNCHANGED decisions, task' = task \/ task \notin Outcomes
      PROVE  LastInv'
  <2>1. DOMAIN state_machines' = DOMAIN state_machines /\ order' = order
    BY <1>3 DEF handle_history_event
  <2> QED BY <1>3, <2>1 DEF LastInv, KeysInv, CompletionInv, DecisionsInv,
                            CompletionIsLast, ClosesWorkflow
<1>4. CASE ApplyInputEvent
  <2>1. task' = task \/ task \notin Outcomes
    BY <1>4, OutcomesAssumption DEF ApplyInputEvent
  <2> QED BY <1>3, <1>4, <2>1 DEF ApplyInputEvent, serviceVars
<1>5. CASE ApplyOutputEvent
  BY <1>3, <1>5 DEF ApplyOutputEvent, serviceVars
<1>6. CASE StartRun \/ FinishBatch
  BY <1>6, NothingSentLater DEF StartRun, FinishBatch, managerVars, serviceVars
<1>7. CASE MaybeCompleteWorkflow
  <2>1. UNCHANGED << decisions, task >>
    BY <1>7 DEF MaybeCompleteWorkflow, serviceVars
  <2>2. CASE UNCHANGED << state_machines, order >>
    BY <2>1, <2>2, NothingSentLater
  <2>3. CASE task \in Outcomes /\ complete_workflow(task)
    BY <2>1, <2>3, CompleteWorkflowKeepsLast
  <2> QED BY <1>7, <2>2, <2>3 DEF MaybeCompleteWorkflow, RaiseInEngine, managerVars
<1>8. CASE EndExecution
  BY <1>8, NothingSentLater DEF EndExecution, end_execution, serviceVars
<1> QED BY <1>1, <1>2, <1>4, <1>5, <1>6, <1>7, <1>8 DEF EngineNext

\* The workflow function makes no calls once it ended.
LEMMA WorkflowKeepsLast ==
    ASSUME LastInv, IInv, WorkflowNext
    PROVE  LastInv'
<1>1. task \in {"running", "FatalDecisionError"} => task \notin Outcomes
  BY OutcomesAssumption
<1>2. ASSUME NEW op, Calls(op)
      PROVE  task \notin Outcomes /\ UNCHANGED decisions
  BY <1>1, <1>2 DEF Calls, serviceVars
<1>3. ASSUME NEW t, ExecuteActivity(t)
      PROVE  LastInv'
  BY <1>2, <1>3, RequestKeepsLast DEF ExecuteActivity, schedule_activity
<1>4. CASE StartTimer
  BY <1>2, <1>4, RequestKeepsLast DEF StartTimer, start_timer
<1>5. ASSUME NEW id, CancelFuture(id)
      PROVE  LastInv'
  BY <1>2, <1>5, RequestCancelKeepsLast DEF CancelFuture
<1>6. ASSUME NEW id, AutomaticCancel(id)
      PROVE  LastInv'
  BY <1>1, <1>6, RequestCancelKeepsLast DEF AutomaticCancel, serviceVars
<1>7. ASSUME NEW outcome, Ends(outcome)
      PROVE  LastInv'
  BY <1>2, <1>7, NothingSentLater DEF Ends, managerVars
<1>8. CASE Yield
  BY <1>8, NothingSentLater DEF Yield, managerVars, serviceVars
<1>9. CASE RejectionUnwinds
  BY <1>1, <1>9, NothingSentLater DEF RejectionUnwinds, managerVars, serviceVars
<1> QED BY <1>3, <1>4, <1>5, <1>6, <1>7, <1>8, <1>9 DEF WorkflowNext, Return, continue_as_new

\* An answer that ends the workflow says so last: whatever was cancelled, and
\* whatever history replayed, no command of the workflow is behind its end.
THEOREM CompletionStaysLast == Spec => []CompletionIsLast
<1>1. Init => LastInv
  BY EmptyIsSeq DEF Init, ManagerInit, LastInv, KeysInv, CompletionInv, DecisionsInv,
                    CompletionIsLast
<1>2. IInv /\ LastInv /\ [Next]_vars => LastInv'
  <2> SUFFICES ASSUME IInv, LastInv, [Next]_vars PROVE LastInv'
    OBVIOUS
  <2>1. CASE UNCHANGED vars
    BY <2>1, NothingSentLater DEF vars, managerVars, serviceVars, engineVars
  <2> QED BY <2>1, ServiceKeepsLast, EngineKeepsLast, WorkflowKeepsLast DEF Next
<1>3. LastInv => CompletionIsLast
  BY DEF LastInv, DecisionsInv
<1> QED BY <1>1, <1>2, <1>3, Invariance, PTL DEF Spec

-----------------------------------------------------------------------------
(* The history                                                             *)

\* The events that record a start, those that record a cancellation, those
\* that refer to a scheduled activity, and those that end an activity or a
\* timer.
StartTypes == {"ActivityTaskScheduled", "TimerStarted"}
CancelTypes == {"ActivityTaskCancelRequested", "TimerCanceled"}
RefTypes == activity_close_types \cup {"ActivityTaskStarted"}
EndTypes == activity_close_types \cup {"TimerFired", "TimerCanceled"}

\* The activity or timer an event is about.
SubjectIn(h, i) ==
    IF h[i].type \in RefTypes THEN h[h[i].ref].id ELSE h[i].id

\* An event that may be written when the first n events of h are there.
Follows(h, n, e) ==
    /\ e.type # "CancelTimerFailed"
    /\ e.type = "MarkerRecorded" => ImmediateCancel
    /\ e.type \in RefTypes =>
           e.ref \in 1..n /\ h[e.ref].type = "ActivityTaskScheduled"
    /\ e.type \in activity_close_types =>
           \A i \in 1..n : h[i].type \in activity_close_types => h[i].ref # e.ref
    /\ e.type \in decision_event_types \ {"MarkerRecorded"} =>
           \A i \in 1..n : h[i].type = e.type => h[i].id # e.id
    /\ e.type = "TimerFired" =>
           \E i \in 1..n : h[i].type = "TimerStarted" /\ h[i].id = e.id
    /\ e.type \in CancelTypes =>
           \E i \in 1..n :
               /\ h[i].type = IF e.type = "TimerCanceled" THEN "TimerStarted"
                              ELSE "ActivityTaskScheduled"
               /\ h[i].id = e.id
               /\ \E s \in i..n : h[s].type = "DecisionTaskStarted"
    /\ e.type = "RequestCancelActivityTaskFailed" =>
           \E i \in 1..n :
               h[i].type = "ActivityTaskCancelRequested" /\ h[i].id = e.id
    /\ e.type \in StartTypes \cup {"ActivityTaskCancelRequested",
                                   "RequestCancelActivityTaskFailed"} =>
           \A i \in 1..n : h[i].type \in EndTypes => SubjectIn(h, i) # e.id

\* A history the service can have written.
Written(h) == \A j \in DOMAIN h : Follows(h, j - 1, h[j])

\* Events that can be written behind it whenever the task is over.
Writable(h, b) ==
    \A k \in DOMAIN b :
        /\ b[k].type \in RefTypes \cup {"TimerFired", "WorkflowExecutionSignaled"}
        /\ b[k].type \in RefTypes =>
               b[k].ref \in DOMAIN h /\ h[b[k].ref].type = "ActivityTaskScheduled"
        /\ b[k].type \in activity_close_types =>
               /\ \A i \in DOMAIN h :
                      h[i].type \in activity_close_types => h[i].ref # b[k].ref
               /\ \A l \in DOMAIN b :
                      b[l].type \in activity_close_types /\ b[l].ref = b[k].ref => l = k
        /\ b[k].type = "TimerFired" =>
               \E i \in DOMAIN h : h[i].type = "TimerStarted" /\ h[i].id = b[k].id

\* What is written is written by the rules, now and when the waiting events
\* are.
WrittenInv == Written(history) /\ Writable(history, buffered)

\* The end of the activity whose cancellation was refused comes before the
\* next decision task.
Answered(h, i) ==
    \E j \in DOMAIN h :
        /\ i < j
        /\ h[j].type \in activity_close_types
        /\ SubjectIn(h, j) = h[i].id
        /\ \A s \in i..j : h[s].type # "DecisionTaskStarted"

\* Every refused cancellation comes with the end that refused it.
AllAnswered(h) ==
    \A i \in DOMAIN h : h[i].type = "RequestCancelActivityTaskFailed" => Answered(h, i)

\* A cancellation is only refused when the end is waiting to be written.
EndWaits(i) ==
    /\ \E k \in DOMAIN buffered :
           /\ buffered[k].type \in activity_close_types
           /\ history[buffered[k].ref].id = history[i].id
    /\ \A s \in i..Len(history) : history[s].type # "DecisionTaskStarted"

\* It came, or waits while the answer is recorded.
RefusedInv ==
    \A i \in DOMAIN history :
        history[i].type = "RequestCancelActivityTaskFailed" =>
            Answered(history, i) \/ (phase = "record" /\ EndWaits(i))

\* A decision of an answer is news to the service.
StartedBefore(h, type, id) ==
    \E i \in DOMAIN h :
        /\ h[i].type = type
        /\ h[i].id = id
        /\ \E s \in i..Len(h) : h[s].type = "DecisionTaskStarted"

\* Nothing of this type is recorded of an id.
NotYet(h, type, id) == \A i \in DOMAIN h : h[i].type = type => h[i].id # id

\* Nothing is recorded that ends it.
NotEnded(h, id) == \A i \in DOMAIN h : h[i].type \in EndTypes => SubjectIn(h, i) # id

\* A decision that history does not answer yet.
Sendable(h, d) ==
    \/ /\ d.what = "ScheduleActivityTask"
       /\ NotYet(h, "ActivityTaskScheduled", d.id)
       /\ NotEnded(h, d.id)
    \/ d.what = "StartTimer" /\ NotYet(h, "TimerStarted", d.id) /\ NotEnded(h, d.id)
    \/ d.what = "RecordMarker" /\ ImmediateCancel
    \/ /\ d.what = "CancelTimer"
       /\ StartedBefore(h, "TimerStarted", d.id)
       /\ NotEnded(h, d.id)
    \/ /\ d.what = "RequestCancelActivityTask"
       /\ StartedBefore(h, "ActivityTaskScheduled", d.id)
       /\ NotYet(h, "ActivityTaskCancelRequested", d.id)
       /\ NotYet(h, "RequestCancelActivityTaskFailed", d.id)
       /\ NotEnded(h, d.id)
    \/ ClosesWorkflow(d) /\ d.what # "CancelledError"

\* Of every id there is one decision in an answer, and it is news.
AnswerInv ==
    /\ \A k, l \in DOMAIN decisions : decisions[k].id = decisions[l].id => k = l
    /\ \A k \in DOMAIN decisions : Sendable(history, decisions[k])

\* The phases in which there is an engine that goes on.
EnginePhases == {"next", "input", "run", "complete", "end", "output"}

\* What waits, what is answered and what was recorded last, by phase.
PhaseInv ==
    /\ phase \notin {"respond", "record"} => buffered = << >> /\ decisions = << >>
    /\ phase \notin {"idle", "record"} =>
           Len(history) # 0 /\ history[Len(history)].type = "DecisionTaskStarted"
    /\ Closed => phase = "idle" \/ (phase = "record" /\ decisions = << >>)

\* History, and the answer that is to be recorded in it.
HistoryInv == WrittenInv /\ RefusedInv /\ AnswerInv /\ PhaseInv

\* Decision events directly follow the mark of the answer they record, which
\* directly follows the mark of the task it answers.
Records(e) == is_decision_event(e) \/ e.type = "DecisionTaskCompleted"

\* Such a history.
Shaped(h) ==
    \A j \in DOMAIN h :
        /\ is_decision_event(h[j]) => j # 1 /\ Records(h[j - 1])
        /\ h[j].type = "DecisionTaskCompleted" =>
               j # 1 /\ h[j - 1].type = "DecisionTaskStarted"

\* It is always one, also while an answer is recorded.
ShapeInv ==
    /\ Shaped(history)
    /\ phase = "record" => Len(history) # 0 /\ Records(history[Len(history)])

-----------------------------------------------------------------------------
(* The batch an engine is in                                               *)

\* An event a machine is told of.
HasHandler(i) == history[i].type \in DOMAIN type_to_action

\* What a sequence holds.
Elems(s) == {s[k] : k \in DOMAIN s}

\* The events of the batch that are still to be handled.
Pending ==
    CASE phase = "input" -> Elems(todo) \cup Elems(batch.output)
      [] phase \in {"run", "complete", "end"} -> Elems(batch.output)
      [] phase = "output" -> Elems(todo)
      [] OTHER -> {}

\* The events that were.
Applied == {i \in 1..(pos - 1) : HasHandler(i) /\ i \notin Pending}

\* The engine is in a batch, which it has taken from the iterator.
InBatch == phase \in EnginePhases \ {"next"}

\* The place of the batch's first output event.
First == pos - Len(batch.output)

\* The output events of a batch are the decision events directly behind a
\* mark; only what is replayed has some.
BatchInv ==
    InBatch =>
        /\ IsSeq(batch.output) /\ IsSeq(todo)
        /\ First \in Nat
        /\ \A k \in DOMAIN batch.output :
               /\ batch.output[k] = First + k - 1
               /\ is_decision_event(history[First + k - 1])
        /\ \E s \in DOMAIN history :
               /\ history[s].type = "DecisionTaskStarted"
               /\ \/ First = s + 1
                  \/ First = s + 2 /\ history[s + 1].type = "DecisionTaskCompleted"
        /\ batch.output # << >> => batch.replay
        /\ phase # "output" => replaying = batch.replay

\* What is left to handle of the input, in the order of history, and of the
\* output.
TodoInv ==
    /\ phase = "input" =>
           /\ \A k \in DOMAIN todo : todo[k] \in 1..(pos - 1)
           /\ \A k \in DOMAIN todo : HasHandler(todo[k]) =>
                  /\ todo[k] < First
                  /\ \A l \in DOMAIN todo : k < l => todo[k] < todo[l]
    /\ phase = "output" =>
           /\ Len(todo) <= Len(batch.output)
           /\ \A k \in DOMAIN todo : todo[k] = pos - Len(todo) + k - 1

\* The iterator is in the history, or at its end.
PosInv == phase \in EnginePhases => pos \in 1..(Len(history) + 1)

\* Events are handled in the order of history.
OrderInv == \A i \in Applied, p \in Pending : HasHandler(p) => i < p

\* The engine's place in history.
PlaceInv == BatchInv /\ TodoInv /\ PosInv /\ OrderInv

-----------------------------------------------------------------------------
(* The machines, when the events in A were handled                         *)

\* The state of a machine.
StateOf(id) == state_machines[id].state

\* What an event of the history is about.
Subject(i) == SubjectIn(history, i)

\* An alias is the id itself, or the scheduled event of an activity.
AliasesAgree(A) ==
    \A a \in DOMAIN aliases :
        \/ a = AliasOf(aliases[a])
        \/ /\ a = << "ACTIVITY", "ref", a[3] >>
           /\ a[3] \in A
           /\ history[a[3]].type = "ActivityTaskScheduled"
           /\ history[a[3]].id = aliases[a]

\* The machine an event is about exists, and is in a state behind that event.
EventsAgree(A) ==
    \A i \in A :
        /\ Subject(i) \in DOMAIN state_machines \ {COMPLETION_ID}
        /\ Subject(i).type = type_to_action[history[i].type].type
        /\ StateOf(Subject(i)) \notin {"REQUESTED", "CANCELED_AFTER_REQUESTED"}
        /\ history[i].type \in EndTypes => StateOf(Subject(i)) = "COMPLETED"
        /\ history[i].type = "ActivityTaskCancelRequested" =>
               \/ StateOf(Subject(i)) \in {"CANCELLATION_RECORDED", "COMPLETED"}
               \/ /\ StateOf(Subject(i)) = "RECORDED"
                  /\ \E j \in A : /\ history[j].type = "RequestCancelActivityTaskFailed"
                                  /\ history[j].id = history[i].id

\* A machine that is past its request was told of its start.
StatesAgree(A) ==
    \A id \in DOMAIN state_machines \ {COMPLETION_ID} :
        /\ StateOf(id) \notin {"REQUESTED", "CANCELED_AFTER_REQUESTED"} =>
               \E i \in A : history[i].type \in StartTypes /\ history[i].id = id
        /\ StateOf(id) = "CANCELED_AFTER_REQUESTED" =>
               ImmediateCancel \/ task = "FatalDecisionError"

\* A workflow that met the fatal error is about to raise it.
FatalInv == task = "FatalDecisionError" => phase \in {"run", "complete", "failed"}

\* The machines are what these events make them.
Agree(A) == AliasesAgree(A) /\ EventsAgree(A) /\ StatesAgree(A)

\* They are what the events handled so far make them.
AgreeInv == phase \in EnginePhases => Agree(Applied)

\* Between two tasks there is nothing of an engine.
IdleInv ==
    phase = "idle" =>
        /\ pos = 1 /\ state_machines = << >> /\ aliases = << >>
        /\ expectations = << >> /\ task = "none"

\* What completes the workflow is not the exception that is raised instead.
CompletionRequest ==
    phase \in EnginePhases /\ COMPLETION_ID \in DOMAIN state_machines =>
        state_machines[COMPLETION_ID].request \in Outcomes \ {"CancelledError"}

-----------------------------------------------------------------------------
(* The futures                                                             *)

\* The future of a machine.
FutureOf(id) == state_machines[id].future

\* The events that set a future.
Resolvers == activity_close_types \cup {"TimerFired"}

\* What was cancelled by the workflow, as far as the future shows it at once.
GivenUpBy(id) ==
    IF id.type = "ACTIVITY" THEN StateOf(id) = "CANCELED_AFTER_REQUESTED"
    ELSE StateOf(id) \in {"CANCELED_AFTER_REQUESTED", "CANCELED_AFTER_RECORDED", "COMPLETED"}

\* A future is set by what ended it, or cancelled, or open.
FuturesAgree(A) ==
    \A id \in DOMAIN state_machines \ {COMPLETION_ID} :
        /\ \A i \in A : history[i].type \in Resolvers /\ Subject(i) = id =>
               FutureOf(id) = type_to_action[history[i].type].future
        /\ (\A i \in A : history[i].type \in Resolvers => Subject(i) # id) =>
               FutureOf(id) = IF GivenUpBy(id) THEN "cancelled" ELSE "pending"
        /\ id.type = "TIMER" /\ StateOf(id) = "COMPLETED" =>
               \E i \in A : history[i].type \in EndTypes /\ Subject(i) = id

\* A cancelled timer of the batch that is still to be told was expected by the
\* tracker, or cancelled by the workflow.
CancelsExpected ==
    InBatch =>
        \A p \in Elems(batch.output) \cap Pending :
            history[p].type = "TimerCanceled" =>
                \/ /\ phase # "output"
                   /\ \E i \in DOMAIN expectations :
                          expectations[i].id = history[p].id /\ expectations[i].upcoming = << CANCEL >>
                \/ /\ history[p].id \in DOMAIN state_machines
                   /\ FutureOf(history[p].id) # "pending"

\* The futures are what the events handled so far, and the workflow, make
\* them.
FuturesInv == phase \in EnginePhases => ImmediateCancel \/ FuturesAgree(Applied)
-----------------------------------------------------------------------------
(* History only grows                                                      *)

\* What is behind an event is not changed by what is written after it.
LEMMA FollowsAgrees ==
    ASSUME NEW g, NEW h, NEW n \in Nat, \A i \in 1..n : g[i] = h[i],
           \A i \in 1..n : Follows(h, i - 1, h[i])
    PROVE  /\ \A i \in 1..n : SubjectIn(g, i) = SubjectIn(h, i)
           /\ \A e : Follows(g, n, e) <=> Follows(h, n, e)
<1>1. ASSUME NEW i \in 1..n PROVE SubjectIn(g, i) = SubjectIn(h, i)
  <2>1. Follows(h, i - 1, h[i]) /\ g[i] = h[i] /\ i \in Nat
    OBVIOUS
  <2>2. h[i].type \in RefTypes => h[i].ref \in 1..n /\ g[h[i].ref] = h[h[i].ref]
    <3>1. h[i].type \in RefTypes => h[i].ref \in 1..(i - 1)
      BY <2>1 DEF Follows
    <3> QED BY <3>1
  <2> QED BY <2>1, <2>2 DEF SubjectIn
<1>2. ASSUME NEW e PROVE Follows(g, n, e) <=> Follows(h, n, e)
  <2>1. ASSUME NEW k \in 1..n, NEW s \in k..n PROVE g[s] = h[s]
    BY <2>1
  <2> QED BY <1>1, <2>1 DEF Follows
<1> QED BY <1>1, <1>2

\* One history behind another.
LEMMA ConcatIsWritten ==
    ASSUME NEW h, NEW new, IsSeq(h), IsSeq(new), Written(h),
           \A k \in DOMAIN new : Follows(h \o new, Len(h) + k - 1, new[k])
    PROVE  Written(h \o new)
<1> DEFINE g == h \o new
<1>1. /\ Len(h) \in Nat /\ DOMAIN h = 1..Len(h)
      /\ Len(new) \in Nat /\ DOMAIN new = 1..Len(new)
  BY LenProperties DEF IsSeq
<1>2. /\ DOMAIN g = 1..(Len(h) + Len(new))
      /\ \A i \in 1..(Len(h) + Len(new)) :
             g[i] = IF i <= Len(h) THEN h[i] ELSE new[i - Len(h)]
  BY ConcatIsSeq
<1> HIDE DEF g
<1>3. ASSUME NEW j \in 1..Len(h) PROVE Follows(g, j - 1, g[j])
  <2>1. j - 1 \in Nat /\ \A i \in 1..(j - 1) : g[i] = h[i]
    BY <1>1, <1>2
  <2>2. \A i \in 1..(j - 1) : Follows(h, i - 1, h[i])
    BY <1>1 DEF Written
  <2>3. Follows(h, j - 1, h[j]) /\ g[j] = h[j]
    BY <1>1, <1>2 DEF Written
  <2> QED BY <2>1, <2>2, <2>3, FollowsAgrees
<1>4. ASSUME NEW k \in 1..Len(new) PROVE Follows(g, Len(h) + k - 1, g[Len(h) + k])
  <2>1. g[Len(h) + k] = new[k]
    BY <1>1, <1>2
  <2> QED BY <1>1, <2>1 DEF g
<1>5. ASSUME NEW j \in DOMAIN g PROVE Follows(g, j - 1, g[j])
  <2>1. CASE j <= Len(h)
    BY <1>1, <1>2, <1>3, <2>1
  <2>2. CASE ~(j <= Len(h))
    <3>1. j - Len(h) \in 1..Len(new) /\ Len(h) + (j - Len(h)) = j
      BY <1>1, <1>2, <2>2
    <3>2. Follows(g, Len(h) + (j - Len(h)) - 1, g[Len(h) + (j - Len(h))])
      BY <1>4, <3>1
    <3> QED BY <3>1, <3>2
  <2> QED BY <2>1, <2>2
<1> QED BY <1>5 DEF Written, g

\* What a sequence is made of, one behind the other.
LEMMA ConcatPositions ==
    ASSUME NEW h, NEW new, IsSeq(h), IsSeq(new)
    PROVE  /\ IsSeq(h \o new)
           /\ Len(h) \in Nat /\ DOMAIN h = 1..Len(h)
           /\ Len(new) \in Nat /\ DOMAIN new = 1..Len(new)
           /\ Len(h \o new) = Len(h) + Len(new)
           /\ DOMAIN (h \o new) = 1..(Len(h) + Len(new))
           /\ \A i \in DOMAIN h : (h \o new)[i] = h[i]
           /\ \A k \in DOMAIN new : (h \o new)[Len(h) + k] = new[k]
           /\ \A i \in DOMAIN (h \o new) :
                  i \in DOMAIN h \/ \E k \in DOMAIN new : i = Len(h) + k
<1> DEFINE g == h \o new
<1>1. /\ Len(h) \in Nat /\ DOMAIN h = 1..Len(h)
      /\ Len(new) \in Nat /\ DOMAIN new = 1..Len(new)
  BY LenProperties DEF IsSeq
<1>2. /\ IsSeq(g)
      /\ DOMAIN g = 1..(Len(h) + Len(new))
      /\ \A i \in 1..(Len(h) + Len(new)) :
             g[i] = IF i <= Len(h) THEN h[i] ELSE new[i - Len(h)]
  BY ConcatIsSeq
<1> HIDE DEF g
<1>3. Len(g) = Len(h) + Len(new)
  <2>1. Len(g) \in Nat /\ DOMAIN g = 1..Len(g)
    BY <1>2, LenProperties DEF IsSeq
  <2> QED BY <1>1, <1>2, <2>1
<1>4. \A i \in 1..Len(h) : g[i] = h[i]
  BY <1>1, <1>2
<1>5. \A k \in 1..Len(new) : g[Len(h) + k] = new[k]
  BY <1>1, <1>2
<1>6. ASSUME NEW i \in DOMAIN g, i \notin DOMAIN h
      PROVE  \E k \in DOMAIN new : i = Len(h) + k
  <2>1. i - Len(h) \in 1..Len(new) /\ i = Len(h) + (i - Len(h))
    BY <1>1, <1>2, <1>6
  <2> QED BY <1>1, <2>1
<1> QED BY <1>1, <1>2, <1>3, <1>4, <1>5, <1>6 DEF g

\* What was written keeps its subject and what is behind it.
LEMMA ConcatAgrees ==
    ASSUME NEW h, NEW new, IsSeq(h), IsSeq(new), Written(h)
    PROVE  /\ \A i \in DOMAIN h : SubjectIn(h \o new, i) = SubjectIn(h, i)
           /\ \A e : Follows(h \o new, Len(h), e) <=> Follows(h, Len(h), e)
<1> DEFINE g == h \o new
<1>1. Len(h) \in Nat /\ DOMAIN h = 1..Len(h) /\ \A i \in 1..Len(h) : g[i] = h[i]
  BY ConcatPositions
<1>2. \A i \in 1..Len(h) : Follows(h, i - 1, h[i])
  BY <1>1 DEF Written
<1> HIDE DEF g
<1>3. /\ \A i \in 1..Len(h) : SubjectIn(g, i) = SubjectIn(h, i)
      /\ \A e : Follows(g, Len(h), e) <=> Follows(h, Len(h), e)
  BY <1>1, <1>2, FollowsAgrees
<1> QED BY <1>1, <1>3 DEF g

\* Events that wait can be written.
LEMMA WritableIsWritten ==
    ASSUME NEW h, NEW b, IsSeq(h), IsSeq(b), Written(h), Writable(h, b)
    PROVE  Written(h \o b)
<1> DEFINE g == h \o b
<1>1. /\ Len(h) \in Nat /\ DOMAIN h = 1..Len(h)
      /\ Len(b) \in Nat /\ DOMAIN b = 1..Len(b)
      /\ DOMAIN g = 1..(Len(h) + Len(b))
      /\ \A i \in DOMAIN h : g[i] = h[i]
      /\ \A k \in DOMAIN b : g[Len(h) + k] = b[k]
      /\ \A i \in DOMAIN g : i \in DOMAIN h \/ \E k \in DOMAIN b : i = Len(h) + k
  <2>1. /\ Len(h) \in Nat /\ DOMAIN h = 1..Len(h)
        /\ Len(b) \in Nat /\ DOMAIN b = 1..Len(b)
        /\ DOMAIN g = 1..(Len(h) + Len(b))
        /\ \A i \in DOMAIN h : g[i] = h[i]
        /\ \A k \in DOMAIN b : g[Len(h) + k] = b[k]
    BY ConcatPositions
  <2>2. \A i \in DOMAIN g : i \in DOMAIN h \/ \E k \in DOMAIN b : i = Len(h) + k
    BY ConcatPositions
  <2> QED BY <2>1, <2>2
<1> HIDE DEF g
<1>2. ASSUME NEW k \in DOMAIN b PROVE Follows(g, Len(h) + k - 1, b[k])
  <2> DEFINE e == b[k]
  <2>1. /\ e.type \in RefTypes \cup {"TimerFired", "WorkflowExecutionSignaled"}
        /\ e.type \in RefTypes =>
               e.ref \in DOMAIN h /\ h[e.ref].type = "ActivityTaskScheduled"
        /\ e.type \in activity_close_types =>
               /\ \A i \in DOMAIN h :
                      h[i].type \in activity_close_types => h[i].ref # e.ref
               /\ \A l \in DOMAIN b :
                      b[l].type \in activity_close_types /\ b[l].ref = e.ref => l = k
        /\ e.type = "TimerFired" =>
               \E i \in DOMAIN h : h[i].type = "TimerStarted" /\ h[i].id = e.id
    BY DEF Writable
  <2> HIDE DEF e
  <2>2. \A i \in DOMAIN h : i \in 1..(Len(h) + k - 1)
    BY <1>1
  <2>3. ASSUME e.type \in activity_close_types, NEW i \in 1..(Len(h) + k - 1),
               g[i].type \in activity_close_types
        PROVE  g[i].ref # e.ref
    <3>1. CASE i \in DOMAIN h
      BY <1>1, <2>1, <2>3, <3>1
    <3>2. CASE i \notin DOMAIN h
      <4>1. i \in DOMAIN g
        BY <1>1
      <4>2. PICK l \in DOMAIN b : i = Len(h) + l
        BY <1>1, <3>2, <4>1
      <4>3. l # k /\ g[i] = b[l]
        BY <1>1, <4>2
      <4> QED BY <2>1, <2>3, <4>3
    <3> QED BY <3>1, <3>2
  <2>4. e.type \notin decision_event_types /\ e.type \notin StartTypes /\ e.type \notin CancelTypes
    BY <2>1 DEF RefTypes, activity_close_types, decision_event_types, StartTypes, CancelTypes
  <2>5. e.type = "TimerFired" =>
            \E i \in 1..(Len(h) + k - 1) : g[i].type = "TimerStarted" /\ g[i].id = e.id
    BY <1>1, <2>1, <2>2
  <2>6. e.type \in RefTypes => e.ref \in 1..(Len(h) + k - 1) /\ g[e.ref].type = "ActivityTaskScheduled"
    BY <1>1, <2>1, <2>2
  <2>7. Follows(g, Len(h) + k - 1, e)
    BY <2>3, <2>4, <2>5, <2>6 DEF Follows, decision_event_types, StartTypes, CancelTypes
  <2> QED BY <2>7 DEF e
<1> QED BY <1>2, ConcatIsWritten DEF g

\* More events that wait, behind those that do.
LEMMA WritableConcat ==
    ASSUME NEW h, NEW b, NEW new, IsSeq(b), IsSeq(new), Writable(h, b), Writable(h, new),
           \A k \in DOMAIN b, l \in DOMAIN new :
               b[k].type \in activity_close_types /\ new[l].type \in activity_close_types =>
                   b[k].ref # new[l].ref
    PROVE  Writable(h, b \o new)
<1> DEFINE g == b \o new
           From(i) == IF i \in DOMAIN b THEN b[i] ELSE new[i - Len(b)]
<1>1. /\ Len(b) \in Nat /\ DOMAIN b = 1..Len(b)
      /\ Len(new) \in Nat /\ DOMAIN new = 1..Len(new)
      /\ DOMAIN g = 1..(Len(b) + Len(new))
      /\ \A i \in DOMAIN b : g[i] = b[i]
      /\ \A k \in DOMAIN new : g[Len(b) + k] = new[k]
  BY ConcatPositions
<1>2. \A i \in DOMAIN g : i \in DOMAIN b \/ \E k \in DOMAIN new : i = Len(b) + k
  BY ConcatPositions
<1> HIDE DEF g
<1>3. ASSUME NEW i \in DOMAIN g, NEW l \in DOMAIN g,
             g[i].type \in activity_close_types, g[l].type \in activity_close_types,
             g[i].ref = g[l].ref
      PROVE  i = l
  <2>1. CASE i \in DOMAIN b /\ l \in DOMAIN b
    BY <1>1, <1>3, <2>1 DEF Writable
  <2>2. ASSUME NEW k \in DOMAIN new, i = Len(b) + k, l \in DOMAIN b PROVE FALSE
    BY <1>1, <1>3, <2>2
  <2>3. ASSUME NEW k \in DOMAIN new, l = Len(b) + k, i \in DOMAIN b PROVE FALSE
    BY <1>1, <1>3, <2>3
  <2>4. ASSUME NEW k \in DOMAIN new, i = Len(b) + k, NEW n \in DOMAIN new, l = Len(b) + n
        PROVE  i = l
    <3>1. g[i] = new[k] /\ g[l] = new[n]
      BY <1>1, <2>4
    <3>2. k = n
      BY <1>3, <3>1 DEF Writable
    <3> QED BY <2>4, <3>2
  <2> QED BY <1>2, <2>1, <2>2, <2>3, <2>4
<1>4. ASSUME NEW i \in DOMAIN g
      PROVE  /\ g[i].type \in RefTypes \cup {"TimerFired", "WorkflowExecutionSignaled"}
             /\ g[i].type \in RefTypes =>
                    g[i].ref \in DOMAIN h /\ h[g[i].ref].type = "ActivityTaskScheduled"
             /\ g[i].type \in activity_close_types =>
                    \A n \in DOMAIN h : h[n].type \in activity_close_types => h[n].ref # g[i].ref
             /\ g[i].type = "TimerFired" =>
                    \E n \in DOMAIN h : h[n].type = "TimerStarted" /\ h[n].id = g[i].id
  <2>1. CASE i \in DOMAIN b
    <3>1. g[i] = b[i]
      BY <1>1, <2>1
    <3> QED BY <2>1, <3>1 DEF Writable
  <2>2. ASSUME NEW k \in DOMAIN new, i = Len(b) + k
        PROVE  g[i] = new[k]
    BY <1>1, <2>2
  <2>3. CASE i \notin DOMAIN b
    <3>1. PICK k \in DOMAIN new : g[i] = new[k]
      BY <1>2, <2>2, <2>3
    <3> QED BY <3>1 DEF Writable
  <2> QED BY <2>1, <2>3
<1>5. Writable(h, g)
  BY <1>3, <1>4 DEF Writable
<1> QED BY <1>5 DEF g

-----------------------------------------------------------------------------
(* Arrivals                                                                *)

\* The end stays where it is.
LEMMA AnsweredStays ==
    ASSUME NEW h, NEW new, IsSeq(h), IsSeq(new), Written(h), NEW i \in DOMAIN h, Answered(h, i)
    PROVE  Answered(h \o new, i)
<1> DEFINE g == h \o new
<1>1. /\ Len(h) \in Nat /\ DOMAIN h = 1..Len(h)
      /\ Len(new) \in Nat
      /\ DOMAIN g = 1..(Len(h) + Len(new))
      /\ \A k \in DOMAIN h : g[k] = h[k]
  BY ConcatPositions
<1>2. \A k \in DOMAIN h : SubjectIn(g, k) = SubjectIn(h, k)
  BY ConcatAgrees
<1> HIDE DEF g
<1>3. PICK j \in DOMAIN h :
          /\ i < j
          /\ h[j].type \in activity_close_types
          /\ SubjectIn(h, j) = h[i].id
          /\ \A s \in i..j : h[s].type # "DecisionTaskStarted"
  BY DEF Answered
<1>4. j \in DOMAIN g /\ g[j] = h[j] /\ \A s \in i..j : g[s] = h[s]
  BY <1>1
<1> QED BY <1>1, <1>2, <1>3, <1>4 DEF Answered, g

\* What is written behind a history refuses no cancellation, or it is
\* answered.
LEMMA AllAnsweredStays ==
    ASSUME NEW h, NEW new, IsSeq(h), IsSeq(new), Written(h), AllAnswered(h),
           \A k \in DOMAIN new : new[k].type # "RequestCancelActivityTaskFailed"
    PROVE  AllAnswered(h \o new)
<1> DEFINE g == h \o new
<1>1. /\ Len(h) \in Nat /\ DOMAIN h = 1..Len(h)
      /\ Len(new) \in Nat /\ DOMAIN new = 1..Len(new)
      /\ \A k \in DOMAIN h : g[k] = h[k]
      /\ \A k \in DOMAIN new : g[Len(h) + k] = new[k]
  BY ConcatPositions
<1>2. \A i \in DOMAIN g : i \in DOMAIN h \/ \E k \in DOMAIN new : i = Len(h) + k
  BY ConcatPositions
<1>3. \A i \in DOMAIN h : Answered(h, i) => Answered(g, i)
  BY AnsweredStays
<1> HIDE DEF g
<1> QED BY <1>1, <1>2, <1>3 DEF AllAnswered, g

\* An arrival is written or waits.
LEMMA ArriveKeepsHistory ==
    ASSUME IInv, HistoryInv, NEW events, IsSeq(events), Writable(history, events),
           \A k \in DOMAIN buffered, l \in DOMAIN events :
               buffered[k].type \in activity_close_types
                   /\ events[l].type \in activity_close_types =>
                       buffered[k].ref # events[l].ref,
           Arrive(events)
    PROVE  HistoryInv'
<1>1. /\ IsSeq(history) /\ IsSeq(buffered) /\ Written(history) /\ Writable(history, buffered)
      /\ RefusedInv /\ UNCHANGED << decisions, phase >> /\ ~Closed
  BY DEF IInv, ServiceInv, HistoryInv, WrittenInv, Arrive, engineVars
<1>2. \A k \in DOMAIN events :
          /\ events[k].type \notin close_types
          /\ events[k].type # "RequestCancelActivityTaskFailed"
  BY DEF Writable, RefTypes, activity_close_types, close_types
<1>3. CASE phase = "idle"
  <2>1. history' = history \o events /\ UNCHANGED buffered /\ buffered = << >> /\ decisions = << >>
    BY <1>3 DEF Arrive, HistoryInv, PhaseInv
  <2>2. Written(history')
    BY <1>1, <2>1, WritableIsWritten
  <2>3. Writable(history', buffered')
    BY <2>1, EmptyIsSeq DEF Writable
  <2>4. RefusedInv'
    <3>1. AllAnswered(history)
      BY <1>1, <1>3 DEF RefusedInv, AllAnswered
    <3>2. AllAnswered(history')
      BY <1>1, <1>2, <2>1, <3>1, AllAnsweredStays
    <3> QED BY <3>2 DEF RefusedInv, AllAnswered
  <2>5. AnswerInv'
    BY <1>1, <2>1, EmptyIsSeq DEF AnswerInv
  <2>6. PhaseInv'
    BY <1>1, <1>3, <2>1 DEF PhaseInv
  <2> QED BY <2>2, <2>3, <2>4, <2>5, <2>6 DEF HistoryInv, WrittenInv
<1>4. CASE phase # "idle"
  <2>1. buffered' = buffered \o events /\ UNCHANGED history /\ phase = "respond"
    BY <1>4 DEF Arrive
  <2>2. Writable(history', buffered')
    BY <1>1, <2>1, WritableConcat
  <2>3. RefusedInv'
    BY <1>1, <2>1 DEF RefusedInv, Answered, EndWaits, SubjectIn
  <2>4. AnswerInv'
    BY <1>1, <2>1 DEF HistoryInv, AnswerInv
  <2>5. PhaseInv'
    BY <1>1, <2>1 DEF HistoryInv, PhaseInv, Closed
  <2> QED BY <1>1, <2>1, <2>2, <2>3, <2>4, <2>5 DEF HistoryInv, WrittenInv
<1> QED BY <1>3, <1>4

\* What is known is what is written and what waits.
LEMMA KnownParts ==
    ASSUME IsSeq(history), IsSeq(buffered)
    PROVE  /\ \A i \in DOMAIN history : i \in DOMAIN Known /\ Known[i] = history[i]
           /\ \A k \in DOMAIN buffered : \E i \in DOMAIN Known : Known[i] = buffered[k]
           /\ \A i \in DOMAIN Known :
                  \/ i \in DOMAIN history /\ Known[i] = history[i]
                  \/ \E k \in DOMAIN buffered : Known[i] = buffered[k]
<1>1. /\ Len(history) \in Nat /\ DOMAIN history = 1..Len(history)
      /\ Len(buffered) \in Nat /\ DOMAIN buffered = 1..Len(buffered)
      /\ DOMAIN Known = 1..(Len(history) + Len(buffered))
      /\ \A i \in DOMAIN history : Known[i] = history[i]
      /\ \A k \in DOMAIN buffered : Known[Len(history) + k] = buffered[k]
  BY ConcatPositions DEF Known
<1>2. \A i \in DOMAIN Known :
          i \in DOMAIN history \/ \E k \in DOMAIN buffered : i = Len(history) + k
  BY ConcatPositions DEF Known
<1>3. \A k \in DOMAIN buffered : Len(history) + k \in DOMAIN Known
  BY <1>1
<1>4. \A i \in DOMAIN history : i \in DOMAIN Known
  BY <1>1
<1> QED BY <1>1, <1>2, <1>3, <1>4

\* The event of an activity that has not ended, of a timer, or a signal.
LEMMA ArrivalsKeepHistory ==
    ASSUME IInv, HistoryInv
    PROVE  /\ \A s \in DOMAIN history, type \in CloseEvents : ActivityCloses(s, type) => HistoryInv'
           /\ \A id : TimerFires(id) => HistoryInv'
           /\ SignalArrives => HistoryInv'
<1>1. IsSeq(history) /\ IsSeq(buffered)
  BY DEF IInv, ServiceInv
<1>2. ASSUME NEW s \in DOMAIN history, NEW type \in CloseEvents, ActivityCloses(s, type)
      PROVE  HistoryInv'
  <2> DEFINE a == RefEvent("ActivityTaskStarted", s)
             b == RefEvent(type, s)
  <2>1. /\ history[s].type = "ActivityTaskScheduled"
        /\ \A i \in DOMAIN Known : Known[i].type \in activity_close_types => Known[i].ref # s
        /\ Arrive(<< b >>) \/ Arrive(<< a, b >>)
    BY <1>2 DEF ActivityCloses, ActivityOpen
  <2>2. /\ \A i \in DOMAIN history : history[i].type \in activity_close_types => history[i].ref # s
        /\ \A k \in DOMAIN buffered : buffered[k].type \in activity_close_types => buffered[k].ref # s
    <3>1. ASSUME NEW i \in DOMAIN history, history[i].type \in activity_close_types
          PROVE  history[i].ref # s
      <4>1. i \in DOMAIN Known /\ Known[i] = history[i]
        BY <1>1, KnownParts
      <4> QED BY <2>1, <3>1, <4>1
    <3>2. ASSUME NEW k \in DOMAIN buffered, buffered[k].type \in activity_close_types
          PROVE  buffered[k].ref # s
      <4>1. PICK i \in DOMAIN Known : Known[i] = buffered[k]
        BY <1>1, KnownParts
      <4> QED BY <2>1, <3>2, <4>1
    <3> QED BY <3>1, <3>2
  <2>3. /\ a.type = "ActivityTaskStarted" /\ a.ref = s
        /\ b.type \in activity_close_types /\ b.ref = s
    BY CloseEventsAssumption DEF RefEvent, activity_close_types
  <2> HIDE DEF a, b
  <2>4. a.type \notin activity_close_types /\ a.type # "TimerFired" /\ b.type # "TimerFired"
    BY <2>3 DEF activity_close_types
  <2>5. CASE Arrive(<< b >>)
    <3>1. Writable(history, << b >>)
      BY <2>1, <2>2, <2>3, <2>4 DEF Writable, RefTypes
    <3>2. \A l \in DOMAIN << b >> : << b >>[l] = b
      OBVIOUS
    <3> QED BY <2>2, <2>3, <2>5, <3>1, <3>2, TuplesAreSeqs, ArriveKeepsHistory
  <2>6. CASE Arrive(<< a, b >>)
    <3>1. DOMAIN << a, b >> = {1, 2} /\ << a, b >>[1] = a /\ << a, b >>[2] = b
      OBVIOUS
    <3>2. IsSeq(<< a, b >>)
      BY TuplesAreSeqs
    <3> DEFINE e == << a, b >>
    <3> HIDE DEF e
    <3>3. Writable(history, e)
      BY <2>1, <2>2, <2>3, <2>4, <3>1 DEF Writable, RefTypes, e
    <3>4. \A l \in DOMAIN e : e[l].ref = s
      BY <2>3, <3>1 DEF e
    <3>5. IsSeq(e) /\ Arrive(e)
      BY <2>6, <3>2 DEF e
    <3> QED BY <2>2, <3>3, <3>4, <3>5, ArriveKeepsHistory
  <2> QED BY <2>1, <2>5, <2>6
<1>3. ASSUME NEW id, TimerFires(id) PROVE HistoryInv'
  <2> DEFINE e == IdEvent("TimerFired", id)
  <2>1. e.type = "TimerFired" /\ e.id = id /\ Arrive(<< e >>)
    BY <1>3 DEF IdEvent, TimerFires
  <2>2. PICK i \in DOMAIN Known : Known[i].type = "TimerStarted" /\ Known[i].id = id
    BY <1>3 DEF TimerFires, TimerOpen, Reported
  <2>3. i \in DOMAIN history /\ Known[i] = history[i]
    <3>1. \A k \in DOMAIN buffered : buffered[k].type # "TimerStarted"
      BY DEF HistoryInv, WrittenInv, Writable, RefTypes, activity_close_types
    <3> QED BY <1>1, <2>2, <3>1, KnownParts
  <2> HIDE DEF e
  <2>4. e.type \notin RefTypes /\ e.type \notin activity_close_types
    BY <2>1 DEF RefTypes, activity_close_types
  <2>5. Writable(history, << e >>)
    BY <2>1, <2>2, <2>3, <2>4 DEF Writable
  <2>6. \A l \in DOMAIN << e >> : << e >>[l] = e
    OBVIOUS
  <2> QED BY <2>1, <2>4, <2>5, <2>6, TuplesAreSeqs, ArriveKeepsHistory
<1>4. ASSUME SignalArrives PROVE HistoryInv'
  <2> DEFINE e == Event("WorkflowExecutionSignaled")
  <2>1. e.type = "WorkflowExecutionSignaled" /\ Arrive(<< e >>)
    BY <1>4 DEF Event, SignalArrives
  <2> HIDE DEF e
  <2>2. e.type \notin RefTypes /\ e.type \notin activity_close_types /\ e.type # "TimerFired"
    BY <2>1 DEF RefTypes, activity_close_types
  <2>3. Writable(history, << e >>)
    BY <2>1, <2>2 DEF Writable
  <2>4. \A l \in DOMAIN << e >> : << e >>[l] = e
    OBVIOUS
  <2> QED BY <2>1, <2>2, <2>3, <2>4, TuplesAreSeqs, ArriveKeepsHistory
<1> QED BY <1>2, <1>3, <1>4

-----------------------------------------------------------------------------
(* Decision tasks                                                          *)

\* The marks a decision task leaves are no one's business.
TaskTypes == unsuccessful \cup {"DecisionTaskStarted", "DecisionTaskCompleted"}

\* Such a mark may be written at any time.
LEMMA MarkIsWritten ==
    ASSUME NEW type \in TaskTypes, IsSeq(history), Written(history)
    PROVE  /\ Written(history \o << Event(type) >>)
           /\ \A b : Writable(history, b) => Writable(history \o << Event(type) >>, b)
           /\ IsSeq(history \o << Event(type) >>)
<1> DEFINE e == Event(type)
           new == << e >>
           h == history \o new
<1>1. e.type \in TaskTypes
  BY DEF Event
<1> HIDE DEF e
<1>2. DOMAIN new = {1} /\ Len(new) = 1 /\ new[1] = e /\ IsSeq(new)
  BY TuplesAreSeqs
<1>3. e.type \notin RefTypes \cup decision_event_types \cup {"TimerFired"}
  BY <1>1 DEF TaskTypes, unsuccessful, RefTypes, activity_close_types, decision_event_types
<1> HIDE DEF new
<1>4. /\ Len(history) \in Nat /\ DOMAIN history = 1..Len(history)
      /\ DOMAIN h = 1..(Len(history) + 1)
      /\ \A i \in DOMAIN history : h[i] = history[i]
      /\ h[Len(history) + 1] = e
      /\ IsSeq(h)
  <2>1. /\ Len(history) \in Nat /\ DOMAIN history = 1..Len(history)
        /\ DOMAIN h = 1..(Len(history) + Len(new))
        /\ \A i \in DOMAIN history : h[i] = history[i]
        /\ \A k \in DOMAIN new : h[Len(history) + k] = new[k]
        /\ IsSeq(h)
    BY <1>2, ConcatPositions
  <2> HIDE DEF h
  <2> QED BY <1>2, <2>1
<1>5. ASSUME NEW n PROVE Follows(h, n, e)
  BY <1>3 DEF Follows, RefTypes, decision_event_types, StartTypes, CancelTypes
<1>6. Written(h)
  BY <1>2, <1>5, ConcatIsWritten
<1>7. ASSUME NEW b, Writable(history, b) PROVE Writable(h, b)
  <2>1. \A i \in DOMAIN h : h[i].type \in activity_close_types => i \in DOMAIN history /\ h[i] = history[i]
    BY <1>3, <1>4 DEF RefTypes
  <2>2. \A i \in DOMAIN history : i \in DOMAIN h
    BY <1>4
  <2> HIDE DEF h
  <2> QED BY <1>4, <1>7, <2>1, <2>2 DEF Writable
<1> QED BY <1>4, <1>6, <1>7 DEF new, e

\* A decision task is handed out.
LEMMA PollKeepsHistory ==
    ASSUME IInv, HistoryInv, PollDecisionTask
    PROVE  HistoryInv'
<1> DEFINE e == Event("DecisionTaskStarted")
<1>1. /\ history' = history \o << e >>
      /\ UNCHANGED << buffered, decisions >>
      /\ phase = "idle" /\ phase' = "next" /\ ~Closed
  BY AppendIsConcat DEF PollDecisionTask, IInv, ServiceInv, IsSeq
<1>2. e.type = "DecisionTaskStarted" /\ e.type \in TaskTypes
  BY DEF Event, TaskTypes
<1>3. IsSeq(history) /\ Written(history) /\ Writable(history, buffered) /\ AllAnswered(history)
  BY <1>1 DEF IInv, ServiceInv, HistoryInv, WrittenInv, RefusedInv, AllAnswered
<1>4. WrittenInv'
  BY <1>1, <1>2, <1>3, MarkIsWritten DEF WrittenInv, TaskTypes
<1> HIDE DEF e
<1>5. DOMAIN << e >> = {1} /\ Len(<< e >>) = 1 /\ << e >>[1] = e /\ IsSeq(<< e >>)
  BY TuplesAreSeqs
<1>6. RefusedInv'
  <2>1. AllAnswered(history')
    BY <1>1, <1>2, <1>3, <1>5, AllAnsweredStays
  <2> QED BY <2>1 DEF RefusedInv, AllAnswered
<1>7. AnswerInv'
  BY <1>1, EmptyIsSeq DEF HistoryInv, PhaseInv, AnswerInv
<1>8. PhaseInv'
  <2> DEFINE new == << e >>
  <2> HIDE DEF new
  <2>1. /\ Len(history) \in Nat /\ DOMAIN history = 1..Len(history)
        /\ Len(history') = Len(history) + Len(new)
        /\ \A i \in DOMAIN history : history'[i] = history[i]
        /\ \A k \in DOMAIN new : history'[Len(history) + k] = new[k]
    BY <1>1, <1>3, <1>5, ConcatPositions DEF new
  <2>2. \A i \in DOMAIN history' : i \in DOMAIN history \/ \E k \in DOMAIN new : i = Len(history) + k
    BY <1>1, <1>3, <1>5, ConcatPositions DEF new
  <2>3. ~Closed'
    BY <1>1, <1>2, <1>5, <2>1, <2>2 DEF Closed, close_types, new
  <2>4. Len(history') # 0 /\ history'[Len(history')].type = "DecisionTaskStarted"
    BY <1>2, <1>5, <2>1 DEF new
  <2> QED BY <1>1, <2>3, <2>4 DEF HistoryInv, PhaseInv
<1> QED BY <1>4, <1>6, <1>7, <1>8 DEF HistoryInv

\* A task that is over without an answer, or with all of it recorded: what
\* waited is written.
LEMMA FlushKeepsHistory ==
    ASSUME NEW h, IsSeq(h), IsSeq(buffered), Written(h), Writable(h, buffered), AllAnswered(h \o buffered),
           history' = h \o buffered, buffered' = << >>, decisions' = << >>, phase' = "idle"
    PROVE  HistoryInv'
<1>1. WrittenInv'
  <2>1. Written(history')
    BY WritableIsWritten
  <2> QED BY <2>1, EmptyIsSeq DEF WrittenInv, Writable
<1>2. RefusedInv'
  BY DEF RefusedInv, AllAnswered
<1>3. AnswerInv'
  BY EmptyIsSeq DEF AnswerInv
<1>4. PhaseInv'
  BY DEF PhaseInv
<1> QED BY <1>1, <1>2, <1>3, <1>4 DEF HistoryInv

\* A task that ends without an answer leaves its mark and what waited for it.
LEMMA UnsuccessfullyKeepsHistory ==
    ASSUME IInv, HistoryInv, NEW type \in unsuccessful, phase # "record", Unsuccessfully(type)
    PROVE  HistoryInv'
<1> DEFINE e == Event(type)
           h == history \o << e >>
<1>1. /\ history' = h \o buffered /\ buffered' = << >> /\ decisions' = << >> /\ phase' = "idle"
  BY DEF Unsuccessfully, DropEngine
<1>2. e.type = type /\ type \in TaskTypes /\ type # "RequestCancelActivityTaskFailed"
  BY DEF Event, TaskTypes, unsuccessful
<1>3. /\ IsSeq(history) /\ Written(history) /\ AllAnswered(history)
      /\ IsSeq(buffered) /\ Writable(history, buffered)
  BY DEF IInv, ServiceInv, HistoryInv, WrittenInv, RefusedInv, AllAnswered
<1>4. IsSeq(h) /\ Written(h) /\ Writable(h, buffered)
  BY <1>2, <1>3, MarkIsWritten
<1> HIDE DEF e
<1>5. DOMAIN << e >> = {1} /\ << e >>[1] = e /\ IsSeq(<< e >>)
  BY TuplesAreSeqs
<1>6. AllAnswered(h)
  BY <1>2, <1>3, <1>5, AllAnsweredStays
<1> HIDE DEF h
<1>7. \A k \in DOMAIN buffered : buffered[k].type # "RequestCancelActivityTaskFailed"
  BY <1>3 DEF Writable, RefTypes, activity_close_types
<1>8. AllAnswered(h \o buffered)
  BY <1>3, <1>4, <1>6, <1>7, AllAnsweredStays
<1> QED BY <1>1, <1>3, <1>4, <1>8, FlushKeepsHistory

\* What is recorded of other decisions leaves a decision news to the service.
LEMMA SendableStays ==
    ASSUME NEW h, NEW new, IsSeq(h), IsSeq(new), Written(h), NEW d, Sendable(h, d),
           \A k \in DOMAIN new :
               /\ new[k].type \in decision_event_types \cup {"DecisionTaskCompleted"}
               /\ new[k].type \in decision_event_types => new[k].id # d.id
    PROVE  Sendable(h \o new, d)
<1> DEFINE g == h \o new
<1>1. /\ Len(h) \in Nat /\ DOMAIN h = 1..Len(h)
      /\ Len(new) \in Nat /\ DOMAIN new = 1..Len(new)
      /\ DOMAIN g = 1..(Len(h) + Len(new))
      /\ \A i \in DOMAIN h : g[i] = h[i]
      /\ \A k \in DOMAIN new : g[Len(h) + k] = new[k]
  BY ConcatPositions
<1>9. Len(g) = Len(h) + Len(new)
  BY ConcatPositions
<1>2. \A i \in DOMAIN g : i \in DOMAIN h \/ \E k \in DOMAIN new : i = Len(h) + k
  BY ConcatPositions
<1>3. \A i \in DOMAIN h : SubjectIn(g, i) = SubjectIn(h, i)
  BY ConcatAgrees
<1> HIDE DEF g
<1>4. ASSUME NEW i \in DOMAIN g, i \notin DOMAIN h
      PROVE  /\ g[i].type \in decision_event_types \cup {"DecisionTaskCompleted"}
             /\ g[i].type \in decision_event_types => g[i].id # d.id
  BY <1>1, <1>2, <1>4
<1>5. ASSUME NEW type \in decision_event_types, NotYet(h, type, d.id)
      PROVE  NotYet(g, type, d.id)
  BY <1>1, <1>4, <1>5 DEF NotYet
<1>6. ASSUME NotEnded(h, d.id) PROVE NotEnded(g, d.id)
  <2> SUFFICES ASSUME NEW i \in DOMAIN g, g[i].type \in EndTypes PROVE SubjectIn(g, i) # d.id
    BY DEF NotEnded
  <2>1. CASE i \in DOMAIN h
    BY <1>1, <1>3, <1>6, <2>1 DEF NotEnded
  <2>2. CASE i \notin DOMAIN h
    <3>1. g[i].type \notin RefTypes /\ g[i].type \in decision_event_types
      BY <1>4, <2>2 DEF RefTypes, EndTypes, activity_close_types, decision_event_types
    <3> QED BY <1>4, <2>2, <3>1 DEF SubjectIn
  <2> QED BY <2>1, <2>2
<1>7. ASSUME NEW type, StartedBefore(h, type, d.id) PROVE StartedBefore(g, type, d.id)
  <2>1. PICK i \in DOMAIN h :
            /\ h[i].type = type /\ h[i].id = d.id
            /\ \E s \in i..Len(h) : h[s].type = "DecisionTaskStarted"
    BY <1>7 DEF StartedBefore
  <2>2. PICK s \in i..Len(h) : h[s].type = "DecisionTaskStarted"
    BY <2>1
  <2>3. /\ i \in DOMAIN g /\ g[i] = h[i]
        /\ s \in i..Len(g) /\ g[s] = h[s]
    BY <1>1, <1>9
  <2> QED BY <2>1, <2>2, <2>3 DEF StartedBefore
<1>8. {"ActivityTaskScheduled", "TimerStarted", "ActivityTaskCancelRequested",
       "RequestCancelActivityTaskFailed"} \subseteq decision_event_types
  BY DEF decision_event_types
<1> QED BY <1>5, <1>6, <1>7, <1>8 DEF Sendable, g

\* An answer is taken: its mark is written, its decisions wait.
LEMMA AnswerIsTaken ==
    ASSUME IInv, HistoryInv, RespondDecisionTaskCompleted
    PROVE  HistoryInv'
<1>1. CASE Unsuccessfully("DecisionTaskFailed")
  BY <1>1, UnsuccessfullyKeepsHistory DEF RespondDecisionTaskCompleted, unsuccessful
<1>2. CASE /\ history' = Append(history, Event("DecisionTaskCompleted"))
           /\ phase' = "record"
           /\ UNCHANGED << buffered, decisions >>
  <2> DEFINE e == Event("DecisionTaskCompleted")
             new == << e >>
  <2>1. history' = history \o << e >> /\ phase = "respond"
    <3>1. phase = "respond" /\ history' = Append(history, e)
      BY <1>2 DEF RespondDecisionTaskCompleted
    <3> QED BY <3>1, AppendIsConcat DEF IInv, ServiceInv, IsSeq
  <2>2. e.type = "DecisionTaskCompleted" /\ e.type \in TaskTypes
    BY DEF Event, TaskTypes
  <2>3. IsSeq(history) /\ Written(history) /\ Writable(history, buffered) /\ AllAnswered(history)
    BY <2>1 DEF IInv, ServiceInv, HistoryInv, WrittenInv, RefusedInv, AllAnswered
  <2>4. WrittenInv'
    BY <1>2, <2>1, <2>2, <2>3, MarkIsWritten DEF WrittenInv, TaskTypes
  <2> HIDE DEF e
  <2>5. IsSeq(new) /\ \A k \in DOMAIN new : new[k] = e
    BY TuplesAreSeqs
  <2> HIDE DEF new
  <2>6. history' = history \o new
    BY <2>1 DEF new
  <2>7. RefusedInv'
    <3>1. AllAnswered(history')
      BY <2>2, <2>3, <2>5, <2>6, AllAnsweredStays
    <3> QED BY <3>1 DEF RefusedInv, AllAnswered
  <2>8. AnswerInv'
    <3>1. \A d : Sendable(history, d) => Sendable(history', d)
      <4>1. "DecisionTaskCompleted" \notin decision_event_types
        BY DEF decision_event_types
      <4> QED BY <2>2, <2>3, <2>5, <2>6, <4>1, SendableStays
    <3> QED BY <1>2, <3>1 DEF HistoryInv, AnswerInv
  <2>9. ~Closed'
    <3>1. /\ \A i \in DOMAIN history : history'[i] = history[i]
          /\ \A k \in DOMAIN new : history'[Len(history) + k] = new[k]
      BY <2>3, <2>5, <2>6, ConcatPositions
    <3>2. \A i \in DOMAIN history' : i \in DOMAIN history \/ \E k \in DOMAIN new : i = Len(history) + k
      BY <2>3, <2>5, <2>6, ConcatPositions
    <3>3. ~Closed /\ "DecisionTaskCompleted" \notin close_types
      BY <2>1 DEF HistoryInv, PhaseInv, close_types
    <3> QED BY <2>2, <2>5, <3>1, <3>2, <3>3 DEF Closed
  <2>10. PhaseInv'
    BY <1>2, <2>9 DEF PhaseInv
  <2> QED BY <2>4, <2>7, <2>8, <2>10 DEF HistoryInv
<1> QED BY <1>1, <1>2 DEF RespondDecisionTaskCompleted

\* A sequence without one of its elements has all the others, in their order.
LEMMA RemoveAtElements ==
    ASSUME NEW s, IsSeq(s), NEW i \in DOMAIN s
    PROVE  LET r == SE!RemoveAt(s, i)
           IN  /\ DOMAIN r = 1..(Len(s) - 1)
               /\ \A k \in 1..(Len(s) - 1) : r[k] = IF k < i THEN s[k] ELSE s[k + 1]
<1> DEFINE S == {s[k] : k \in DOMAIN s}
           a == SubSeq(s, 1, i - 1)
           b == SubSeq(s, i + 1, Len(s))
<1>1. /\ Len(s) \in Nat /\ i \in 1..Len(s)
      /\ \A k \in 1..Len(s) : s[k] \in S
  BY LenProperties DEF IsSeq
<1> HIDE DEF S
<1>2. /\ a \in Seq(S) /\ Len(a) = i - 1
      /\ \A k \in 1..(i - 1) : a[k] = s[k]
  <2>1. 1 \in Int /\ i - 1 \in Int /\ \A k \in 1..(i - 1) : s[k] \in S
    BY <1>1
  <2>2. /\ a \in Seq(S)
        /\ Len(a) = IF 1 <= i - 1 THEN (i - 1) - 1 + 1 ELSE 0
        /\ \A k \in 1..((i - 1) - 1 + 1) : a[k] = s[1 + k - 1]
    BY <2>1, SubSeqProperties
  <2> HIDE DEF a
  <2>3. \A k \in 1..(i - 1) : 1 + k - 1 = k
    BY <1>1
  <2> QED BY <1>1, <2>2, <2>3
<1>3. /\ b \in Seq(S) /\ Len(b) = Len(s) - i
      /\ \A k \in 1..(Len(s) - i) : b[k] = s[i + k]
  <2>1. i + 1 \in Int /\ Len(s) \in Int /\ \A k \in (i + 1)..Len(s) : s[k] \in S
    BY <1>1
  <2>2. /\ b \in Seq(S)
        /\ Len(b) = IF i + 1 <= Len(s) THEN Len(s) - (i + 1) + 1 ELSE 0
        /\ \A k \in 1..(Len(s) - (i + 1) + 1) : b[k] = s[i + 1 + k - 1]
    BY SMTT(30), <2>1, SubSeqProperties
  <2> HIDE DEF b
  <2>3. \A k \in 1..(Len(s) - i) : i + 1 + k - 1 = i + k
    BY <1>1
  <2>4. Len(s) - (i + 1) + 1 = Len(s) - i
    BY <1>1
  <2> QED BY <1>1, <2>2, <2>3, <2>4
<1> DEFINE r == a \o b
<1>4. SE!RemoveAt(s, i) = r
  BY DEF SE!RemoveAt
<1> HIDE DEF a, b
<1>5. /\ r \in Seq(S)
      /\ Len(r) = Len(a) + Len(b)
      /\ \A k \in 1..(Len(a) + Len(b)) : r[k] = IF k <= Len(a) THEN a[k] ELSE b[k - Len(a)]
  BY <1>2, <1>3, ConcatProperties
<1> HIDE DEF r
<1>6. Len(a) + Len(b) = Len(s) - 1
  BY <1>1, <1>2, <1>3
<1>7. DOMAIN r = 1..(Len(s) - 1)
  BY <1>5, <1>6, LenProperties
<1>8. ASSUME NEW k \in 1..(Len(s) - 1)
      PROVE  r[k] = IF k < i THEN s[k] ELSE s[k + 1]
  <2>1. CASE k < i
    <3>1. k \in 1..(i - 1) /\ k <= Len(a) /\ r[k] = a[k]
      BY <1>1, <1>2, <1>5, <1>6, <2>1
    <3> QED BY <1>2, <2>1, <3>1
  <2>2. CASE ~(k < i)
    <3>1. /\ k - Len(a) \in 1..(Len(s) - i) /\ ~(k <= Len(a))
          /\ i + (k - Len(a)) = k + 1
      BY <1>1, <1>2, <2>2
    <3>2. r[k] = b[k - Len(a)] /\ b[k - Len(a)] = s[i + (k - Len(a))]
      BY <1>3, <1>5, <1>6, <3>1
    <3> QED BY <2>2, <3>1, <3>2
  <2> QED BY <2>1, <2>2
<1> QED BY <1>4, <1>7, <1>8

\* The firing of a timer that was cancelled in time is dropped; the rest waits
\* as before.
LEMMA WritableRemoveAt ==
    ASSUME NEW h, NEW b, IsSeq(b), Writable(h, b), NEW i \in DOMAIN b,
           b[i].type = "TimerFired"
    PROVE  LET r == SE!RemoveAt(b, i)
           IN  /\ Writable(h, r)
               /\ \A k \in DOMAIN b : b[k].type \in activity_close_types =>
                      \E l \in DOMAIN r : r[l] = b[k]
<1> DEFINE r == SE!RemoveAt(b, i)
           Old(k) == IF k < i THEN k ELSE k + 1
<1>1. Len(b) \in Nat /\ DOMAIN b = 1..Len(b) /\ i \in 1..Len(b)
  BY LenProperties DEF IsSeq
<1>2. DOMAIN r = 1..(Len(b) - 1) /\ \A k \in 1..(Len(b) - 1) : r[k] = b[Old(k)]
  BY RemoveAtElements
<1> HIDE DEF r
<1>3. \A k \in 1..(Len(b) - 1) : Old(k) \in DOMAIN b
  BY <1>1
<1>4. \A k, l \in 1..(Len(b) - 1) : Old(k) = Old(l) => k = l
  BY <1>1
<1>5. ASSUME NEW k \in DOMAIN b, k # i
      PROVE  \E l \in DOMAIN r : Old(l) = k
  <2>1. CASE k < i
    <3>1. k \in DOMAIN r /\ Old(k) = k
      BY <1>1, <1>2, <2>1
    <3> QED BY <3>1
  <2>2. CASE ~(k < i)
    <3>1. k - 1 \in DOMAIN r /\ Old(k - 1) = k
      BY <1>1, <1>2, <1>5, <2>2
    <3> QED BY <3>1
  <2> QED BY <2>1, <2>2
<1> HIDE DEF Old
<1>6. Writable(h, r)
  <2>1. ASSUME NEW k \in DOMAIN r PROVE Old(k) \in DOMAIN b /\ r[k] = b[Old(k)]
    BY <1>2, <1>3
  <2>2. ASSUME NEW k \in DOMAIN r, r[k].type \in activity_close_types,
               NEW l \in DOMAIN r, r[l].type \in activity_close_types, r[l].ref = r[k].ref
        PROVE  l = k
    <3>1. Old(l) = Old(k)
      BY <2>1, <2>2 DEF Writable
    <3> QED BY <1>2, <1>4, <3>1
  <2>3. ASSUME NEW k \in DOMAIN r
        PROVE  /\ r[k].type \in RefTypes \cup {"TimerFired", "WorkflowExecutionSignaled"}
               /\ r[k].type \in RefTypes =>
                      r[k].ref \in DOMAIN h /\ h[r[k].ref].type = "ActivityTaskScheduled"
               /\ r[k].type \in activity_close_types =>
                      \A n \in DOMAIN h : h[n].type \in activity_close_types => h[n].ref # r[k].ref
               /\ r[k].type = "TimerFired" =>
                      \E n \in DOMAIN h : h[n].type = "TimerStarted" /\ h[n].id = r[k].id
    BY <2>1 DEF Writable
  <2> QED BY <2>2, <2>3 DEF Writable
<1>7. ASSUME NEW k \in DOMAIN b, b[k].type \in activity_close_types
      PROVE  \E l \in DOMAIN r : r[l] = b[k]
  <2>1. k # i
    BY <1>7 DEF activity_close_types
  <2>2. PICK l \in DOMAIN r : Old(l) = k
    BY <1>5, <2>1
  <2> QED BY <1>2, <2>2
<1> QED BY <1>6, <1>7 DEF r

\* To append an event is to write it behind the others.
LEMMA AppendIsBehind ==
    ASSUME NEW s, IsSeq(s), NEW x
    PROVE  Append(s, x) = s \o << x >>
<1> DEFINE S == {s[i] : i \in DOMAIN s} \cup {x}
<1>1. s \in Seq(S) /\ x \in S
  BY SeqMonotonic DEF IsSeq
<1> HIDE DEF S
<1> QED BY <1>1, AppendIsConcat

\* The first of a sequence, and those behind it.
LEMMA HeadAndTail ==
    ASSUME NEW s, IsSeq(s), s # << >>
    PROVE  /\ 1 \in DOMAIN s /\ Head(s) = s[1]
           /\ IsSeq(Tail(s))
           /\ Len(s) \in Nat /\ DOMAIN s = 1..Len(s)
           /\ DOMAIN Tail(s) = 1..(Len(s) - 1)
           /\ \A k \in DOMAIN Tail(s) : k + 1 \in DOMAIN s /\ Tail(s)[k] = s[k + 1]
           /\ Len(s) = 1 => Tail(s) = << >>
<1> DEFINE S == {s[i] : i \in DOMAIN s}
           t == Tail(s)
<1>1. s \in Seq(S)
  BY DEF IsSeq
<1> HIDE DEF S
<1>2. /\ t \in Seq(S)
      /\ Len(t) = Len(s) - 1
      /\ \A k \in 1..Len(t) : t[k] = s[k + 1]
  BY <1>1, HeadTailProperties
<1>3. Head(s) = s[1] /\ Len(s) # 0
  BY <1>1
<1> HIDE DEF t
<1>4. IsSeq(t) /\ DOMAIN t = 1..Len(t) /\ Len(t) \in Nat
  BY <1>2, SeqIsSeq
<1>5. DOMAIN s = 1..Len(s) /\ Len(s) \in Nat
  BY <1>1, SeqIsSeq
<1>6. \A k \in DOMAIN t : k + 1 \in DOMAIN s /\ t[k] = s[k + 1]
  BY <1>2, <1>4, <1>5
<1>7. Len(s) = 1 => t = << >>
  BY <1>2, EmptySeq
<1>8. 1 \in DOMAIN s /\ DOMAIN t = 1..(Len(s) - 1)
  BY <1>2, <1>3, <1>4, <1>5
<1> QED BY <1>3, <1>4, <1>5, <1>6, <1>7, <1>8 DEF t

\* What can be written can still be when no end was written before it.
LEMMA WritableBehind ==
    ASSUME NEW h, NEW g, NEW b, Writable(h, b),
           \A i \in DOMAIN h : i \in DOMAIN g /\ g[i] = h[i],
           \A i \in DOMAIN g : g[i].type \in activity_close_types => i \in DOMAIN h /\ g[i] = h[i]
    PROVE  Writable(g, b)
BY DEF Writable

\* What one decision of an answer leaves behind; the others wait on.
LEMMA RecordedKeepsHistory ==
    ASSUME IInv, HistoryInv, DecisionsInv,
           phase = "record", phase' = "record",
           decisions # << >>, decisions' = Tail(decisions),
           NEW new, IsSeq(new), history' = history \o new,
           \A k \in DOMAIN new :
               /\ new[k].type \in decision_event_types
               /\ new[k].id = Head(decisions).id
               /\ new[k].type \in close_types => ClosesWorkflow(Head(decisions))
               /\ Follows(history', Len(history) + k - 1, new[k])
               /\ new[k].type = "RequestCancelActivityTaskFailed" =>
                      \E l \in DOMAIN buffered :
                          /\ buffered[l].type \in activity_close_types
                          /\ history[buffered[l].ref].id = new[k].id,
           Writable(history, buffered'),
           \A k \in DOMAIN buffered : buffered[k].type \in activity_close_types =>
               \E l \in DOMAIN buffered' : buffered'[l] = buffered[k]
    PROVE  HistoryInv'
<1>1. IsSeq(history) /\ Written(history) /\ Writable(history, buffered) /\ IsSeq(decisions)
  BY DEF IInv, ServiceInv, HistoryInv, WrittenInv, DecisionsInv
<1>2. /\ Len(history) \in Nat /\ DOMAIN history = 1..Len(history)
      /\ Len(new) \in Nat /\ DOMAIN new = 1..Len(new)
      /\ DOMAIN history' = 1..(Len(history) + Len(new))
      /\ \A i \in DOMAIN history : history'[i] = history[i]
      /\ \A k \in DOMAIN new : history'[Len(history) + k] = new[k]
  <2>1. /\ IsSeq(history \o new)
        /\ Len(history) \in Nat /\ DOMAIN history = 1..Len(history)
        /\ Len(new) \in Nat /\ DOMAIN new = 1..Len(new)
        /\ Len(history \o new) = Len(history) + Len(new)
        /\ DOMAIN (history \o new) = 1..(Len(history) + Len(new))
        /\ \A i \in DOMAIN history : (history \o new)[i] = history[i]
        /\ \A k \in DOMAIN new : (history \o new)[Len(history) + k] = new[k]
        /\ \A i \in DOMAIN (history \o new) :
               i \in DOMAIN history \/ \E k \in DOMAIN new : i = Len(history) + k
    BY <1>1, ConcatPositions
  <2> QED BY <2>1
<1>3. Len(history') = Len(history) + Len(new)
  BY <1>1, ConcatPositions
<1>4. \A i \in DOMAIN history' : i \in DOMAIN history \/ \E k \in DOMAIN new : i = Len(history) + k
  BY <1>1, ConcatPositions
<1>5. \A i \in DOMAIN history : SubjectIn(history', i) = SubjectIn(history, i)
  BY <1>1, ConcatAgrees
<1>6. Written(history')
  BY <1>1, ConcatIsWritten
<1>7. Writable(history', buffered')
  <2>1. decision_event_types \cap activity_close_types = {}
    BY DEF decision_event_types, activity_close_types
  <2>2. ASSUME NEW i \in DOMAIN history', history'[i].type \in activity_close_types
        PROVE  i \in DOMAIN history /\ history'[i] = history[i]
    BY <1>2, <1>4, <2>1, <2>2
  <2>3. \A i \in DOMAIN history : i \in DOMAIN history' /\ history'[i] = history[i]
    BY <1>2
  <2> QED BY <2>2, <2>3, WritableBehind
<1>8. RefusedInv'
  <2>1. \A k \in DOMAIN new : new[k].type # "DecisionTaskStarted"
    BY DEF decision_event_types
  <2>2. ASSUME NEW i \in DOMAIN history, EndWaits(i) PROVE EndWaits(i)'
    <3>1. PICK k \in DOMAIN buffered :
              /\ buffered[k].type \in activity_close_types
              /\ history[buffered[k].ref].id = history[i].id
      BY <2>2 DEF EndWaits
    <3>2. PICK l \in DOMAIN buffered' : buffered'[l] = buffered[k]
      BY <3>1
    <3>3. buffered[k].ref \in DOMAIN history
      BY <1>1, <3>1 DEF Writable, RefTypes
    <3>4. history'[buffered'[l].ref].id = history'[i].id
      BY <1>2, <3>1, <3>2, <3>3
    <3>5. ASSUME NEW s \in i..Len(history') PROVE history'[s].type # "DecisionTaskStarted"
      <4>1. s \in DOMAIN history'
        BY <1>2, <1>3
      <4>2. CASE s \in DOMAIN history
        <5>1. s \in i..Len(history)
          BY <1>2, <4>2
        <5> QED BY <1>2, <2>2, <4>2, <5>1 DEF EndWaits
      <4>3. CASE s \notin DOMAIN history
        BY <1>2, <1>4, <2>1, <4>1, <4>3
      <4> QED BY <4>2, <4>3
    <3> QED BY <3>1, <3>2, <3>4, <3>5 DEF EndWaits
  <2>3. ASSUME NEW k \in DOMAIN new, new[k].type = "RequestCancelActivityTaskFailed",
               NEW i, i = Len(history) + k
        PROVE  EndWaits(i)'
    <3>1. PICK l \in DOMAIN buffered :
              /\ buffered[l].type \in activity_close_types
              /\ history[buffered[l].ref].id = new[k].id
      BY <2>3
    <3>2. PICK n \in DOMAIN buffered' : buffered'[n] = buffered[l]
      BY <3>1
    <3>3. buffered[l].ref \in DOMAIN history
      BY <1>1, <3>1 DEF Writable, RefTypes
    <3>4. history'[buffered'[n].ref].id = history'[i].id
      BY SMTT(30), <1>2, <2>3, <3>1, <3>2, <3>3
    <3>5. ASSUME NEW s \in i..Len(history')
          PROVE  history'[s].type # "DecisionTaskStarted"
      <4>1. s \in DOMAIN history' /\ s \notin DOMAIN history
        BY <1>2, <1>3, <2>3
      <4> QED BY SMTT(30), <1>2, <1>4, <2>1, <4>1
    <3> QED BY <3>1, <3>2, <3>4, <3>5 DEF EndWaits
  <2>4. ASSUME NEW i \in DOMAIN history', history'[i].type = "RequestCancelActivityTaskFailed"
        PROVE  Answered(history', i) \/ EndWaits(i)'
    <3>1. CASE i \in DOMAIN history
      <4>1. history[i].type = "RequestCancelActivityTaskFailed"
        BY <1>2, <2>4, <3>1
      <4>2. Answered(history, i) \/ EndWaits(i)
        BY <3>1, <4>1 DEF HistoryInv, RefusedInv
      <4>3. Answered(history, i) => Answered(history', i)
        BY <1>1, <3>1, AnsweredStays
      <4> QED BY <2>2, <3>1, <4>2, <4>3
    <3>2. CASE i \notin DOMAIN history
      <4>1. PICK k \in DOMAIN new : i = Len(history) + k
        BY <1>4, <3>2
      <4>2. new[k].type = "RequestCancelActivityTaskFailed"
        BY <1>2, <2>4, <4>1
      <4> QED BY <2>3, <4>1, <4>2
    <3> QED BY <3>1, <3>2
  <2> QED BY <2>4 DEF RefusedInv
<1>9. /\ 1 \in DOMAIN decisions /\ Head(decisions) = decisions[1]
      /\ Len(decisions) \in Nat /\ DOMAIN decisions = 1..Len(decisions)
      /\ DOMAIN decisions' = 1..(Len(decisions) - 1)
      /\ \A k \in DOMAIN decisions' : k + 1 \in DOMAIN decisions /\ decisions'[k] = decisions[k + 1]
      /\ Len(decisions) = 1 => decisions' = << >>
  BY <1>1, HeadAndTail
<1>10. AnswerInv'
  <2>1. ASSUME NEW k \in DOMAIN decisions, decisions[k].id # Head(decisions).id
        PROVE  Sendable(history', decisions[k])
    <3>1. Sendable(history, decisions[k])
      BY DEF HistoryInv, AnswerInv
    <3> QED BY <1>1, <2>1, <3>1, SendableStays
  <2>2. ASSUME NEW k \in DOMAIN decisions' PROVE Sendable(history', decisions'[k])
    <3>1. k + 1 \in DOMAIN decisions /\ decisions'[k] = decisions[k + 1] /\ k + 1 # 1
      BY <1>9
    <3>2. decisions[k + 1].id # decisions[1].id
      BY <1>9, <3>1 DEF HistoryInv, AnswerInv
    <3> QED BY <1>9, <2>1, <3>1, <3>2
  <2>3. ASSUME NEW k \in DOMAIN decisions', NEW l \in DOMAIN decisions',
               decisions'[k].id = decisions'[l].id
        PROVE  k = l
    <3>1. k + 1 = l + 1
      BY <1>9, <2>3 DEF HistoryInv, AnswerInv
    <3> QED BY <1>9, <3>1
  <2> QED BY <2>2, <2>3 DEF AnswerInv
<1>11. PhaseInv'
  <2>1. ~Closed
    BY DEF HistoryInv, PhaseInv
  <2>2. ASSUME Closed' PROVE decisions' = << >>
    <3>1. PICK i \in DOMAIN history' : history'[i].type \in close_types
      BY <2>2 DEF Closed
    <3>2. i \notin DOMAIN history
      BY <1>2, <2>1, <3>1 DEF Closed
    <3>3. ClosesWorkflow(Head(decisions))
      BY <1>2, <1>4, <3>1, <3>2
    <3> QED BY <1>9, <3>3 DEF DecisionsInv, CompletionIsLast
  <2> QED BY <2>2 DEF PhaseInv
<1> QED BY <1>6, <1>7, <1>8, <1>10, <1>11 DEF HistoryInv, WrittenInv

\* What the service records of a sendable decision may be written.
LEMMA SendableFollows ==
    ASSUME NEW h, IsSeq(h), NEW d, Sendable(h, d), NEW e, e.id = d.id
    PROVE  /\ d.what = "ScheduleActivityTask" /\ e.type = "ActivityTaskScheduled" =>
                  Follows(h, Len(h), e)
           /\ d.what = "StartTimer" /\ e.type = "TimerStarted" => Follows(h, Len(h), e)
           /\ d.what = "RecordMarker" /\ e.type = "MarkerRecorded" => Follows(h, Len(h), e)
           /\ d.what = "CancelTimer" /\ e.type = "TimerCanceled" => Follows(h, Len(h), e)
           /\ d.what = "RequestCancelActivityTask" /\ e.type = "ActivityTaskCancelRequested" =>
                  Follows(h, Len(h), e)
           /\ e.type \in close_types /\ (\A i \in DOMAIN h : h[i].type \notin close_types) =>
                  Follows(h, Len(h), e)
<1>1. Len(h) \in Nat /\ DOMAIN h = 1..Len(h)
  BY LenProperties DEF IsSeq
<1>2. \A type : NotYet(h, type, d.id) =>
          \A i \in 1..Len(h) : h[i].type = type => h[i].id # e.id
  BY <1>1 DEF NotYet
<1>3. NotEnded(h, d.id) => \A i \in 1..Len(h) : h[i].type \in EndTypes => SubjectIn(h, i) # e.id
  BY <1>1 DEF NotEnded
<1>4. \A type : StartedBefore(h, type, d.id) =>
          \E i \in 1..Len(h) :
              /\ h[i].type = type
              /\ h[i].id = e.id
              /\ \E s \in i..Len(h) : h[s].type = "DecisionTaskStarted"
  BY <1>1 DEF StartedBefore
<1>5. d.what \in Outcomes =>
          d.what \notin {"ScheduleActivityTask", "StartTimer", "RecordMarker", "CancelTimer",
                         "RequestCancelActivityTask"}
  BY OutcomesAssumption
<1>6. ASSUME d.what = "ScheduleActivityTask", e.type = "ActivityTaskScheduled"
      PROVE  Follows(h, Len(h), e)
  <2>1. NotYet(h, "ActivityTaskScheduled", d.id) /\ NotEnded(h, d.id)
    BY <1>5, <1>6 DEF Sendable, ClosesWorkflow
  <2> QED BY <1>2, <1>3, <1>6, <2>1 DEF Follows, RefTypes, activity_close_types, CancelTypes
<1>7. ASSUME d.what = "StartTimer", e.type = "TimerStarted"
      PROVE  Follows(h, Len(h), e)
  <2>1. NotYet(h, "TimerStarted", d.id) /\ NotEnded(h, d.id)
    BY <1>5, <1>7 DEF Sendable, ClosesWorkflow
  <2> QED BY <1>2, <1>3, <1>7, <2>1 DEF Follows, RefTypes, activity_close_types, CancelTypes
<1>8. ASSUME d.what = "RecordMarker", e.type = "MarkerRecorded"
      PROVE  Follows(h, Len(h), e)
  <2>1. ImmediateCancel
    BY <1>5, <1>8 DEF Sendable, ClosesWorkflow
  <2> QED BY <1>8, <2>1 DEF Follows, RefTypes, activity_close_types, CancelTypes, StartTypes
<1>9. ASSUME d.what = "CancelTimer", e.type = "TimerCanceled"
      PROVE  Follows(h, Len(h), e)
  <2>1. StartedBefore(h, "TimerStarted", d.id) /\ NotEnded(h, d.id)
    BY <1>5, <1>9 DEF Sendable, ClosesWorkflow
  <2>2. ASSUME NEW i \in 1..Len(h), h[i].type = "TimerCanceled" PROVE h[i].id # e.id
    <3>1. h[i].type \in EndTypes /\ SubjectIn(h, i) = h[i].id
      BY <2>2 DEF EndTypes, SubjectIn, RefTypes, activity_close_types
    <3> QED BY <1>3, <2>1, <3>1
  <2> QED BY <1>4, <1>9, <2>1, <2>2 DEF Follows, RefTypes, activity_close_types, StartTypes
<1>10. ASSUME d.what = "RequestCancelActivityTask", e.type = "ActivityTaskCancelRequested"
       PROVE  Follows(h, Len(h), e)
  <2>1. /\ StartedBefore(h, "ActivityTaskScheduled", d.id) /\ NotEnded(h, d.id)
        /\ NotYet(h, "ActivityTaskCancelRequested", d.id)
    BY <1>5, <1>10 DEF Sendable, ClosesWorkflow
  <2> QED BY <1>2, <1>3, <1>4, <1>10, <2>1 DEF Follows, RefTypes, activity_close_types, StartTypes
<1>11. ASSUME e.type \in close_types, \A i \in DOMAIN h : h[i].type \notin close_types
       PROVE  Follows(h, Len(h), e)
  <2>1. \A i \in 1..Len(h) : h[i].type # e.type
    BY <1>1, <1>11
  <2> QED BY <1>11, <2>1
          DEF Follows, RefTypes, activity_close_types, StartTypes, CancelTypes, close_types
<1> QED BY <1>6, <1>7, <1>8, <1>9, <1>10, <1>11

\* One event is the record of a decision.
LEMMA OneIsRecorded ==
    ASSUME IInv, HistoryInv, DecisionsInv,
           phase = "record", phase' = "record",
           decisions # << >>, decisions' = Tail(decisions),
           NEW e, history' = Append(history, e),
           e.type \in decision_event_types \ {"RequestCancelActivityTaskFailed"},
           e.id = Head(decisions).id,
           e.type \in close_types => ClosesWorkflow(Head(decisions)),
           Follows(history, Len(history), e),
           Writable(history, buffered'),
           \A k \in DOMAIN buffered : buffered[k].type \in activity_close_types =>
               \E l \in DOMAIN buffered' : buffered'[l] = buffered[k]
    PROVE  HistoryInv'
<1> DEFINE new == << e >>
<1>1. IsSeq(history) /\ Written(history)
  BY DEF IInv, ServiceInv, HistoryInv, WrittenInv
<1>2. IsSeq(new) /\ DOMAIN new = {1} /\ new[1] = e
  BY TuplesAreSeqs
<1>3. history' = history \o new
  BY <1>1, AppendIsBehind
<1> HIDE DEF new
<1>4. Follows(history', Len(history), e)
  BY <1>1, <1>2, <1>3, ConcatAgrees
<1>5. Len(history) + 1 - 1 = Len(history)
  BY <1>1, LenProperties DEF IsSeq
<1> QED BY <1>2, <1>3, <1>4, <1>5, RecordedKeepsHistory

\* A cancelled timer is open, or its firing waits.
LEMMA CancelledInTime ==
    ASSUME IInv, WrittenInv, NEW id, StartedBefore(history, "TimerStarted", id), NotEnded(history, id)
    PROVE  \/ TimerOpen(id)
           \/ \E k \in DOMAIN buffered : buffered[k].type = "TimerFired" /\ buffered[k].id = id
<1>1. IsSeq(history) /\ IsSeq(buffered)
  BY DEF IInv, ServiceInv
<1>2. Reported({"TimerStarted"}, id)
  <2>1. PICK i \in DOMAIN history : history[i].type = "TimerStarted" /\ history[i].id = id
    BY DEF StartedBefore
  <2>2. i \in DOMAIN Known /\ Known[i] = history[i]
    BY <1>1, KnownParts
  <2> QED BY <2>1, <2>2 DEF Reported
<1>3. ASSUME Reported({"TimerFired", "TimerCanceled"}, id)
      PROVE  \E k \in DOMAIN buffered : buffered[k].type = "TimerFired" /\ buffered[k].id = id
  <2>1. PICK i \in DOMAIN Known :
            Known[i].type \in {"TimerFired", "TimerCanceled"} /\ Known[i].id = id
    BY <1>3 DEF Reported
  <2>2. ~(i \in DOMAIN history /\ Known[i] = history[i])
    <3>1. ASSUME i \in DOMAIN history, Known[i] = history[i] PROVE FALSE
      <4>1. history[i].type \in EndTypes /\ SubjectIn(history, i) = id
        BY <2>1, <3>1 DEF EndTypes, SubjectIn, RefTypes, activity_close_types
      <4> QED BY <3>1, <4>1 DEF NotEnded
    <3> QED BY <3>1
  <2>3. PICK k \in DOMAIN buffered : Known[i] = buffered[k]
    BY <1>1, <2>2, KnownParts
  <2>4. buffered[k].type # "TimerCanceled"
    BY DEF WrittenInv, Writable, RefTypes, activity_close_types
  <2> QED BY <2>1, <2>3, <2>4
<1> QED BY <1>2, <1>3 DEF TimerOpen

\* A cancellation is only refused when the activity's end waits.
LEMMA RefusedInTime ==
    ASSUME IInv, WrittenInv, NEW id,
           StartedBefore(history, "ActivityTaskScheduled", id), NotEnded(history, id),
           ~ActivityOpen(ScheduledEventOf(id))
    PROVE  \E l \in DOMAIN buffered :
               /\ buffered[l].type \in activity_close_types
               /\ history[buffered[l].ref].id = id
<1> DEFINE s == ScheduledEventOf(id)
<1>1. IsSeq(history) /\ IsSeq(buffered)
  BY DEF IInv, ServiceInv
<1>2. s \in DOMAIN history /\ history[s].type = "ActivityTaskScheduled" /\ history[s].id = id
  <2>1. \E i \in DOMAIN history : history[i].type = "ActivityTaskScheduled" /\ history[i].id = id
    BY DEF StartedBefore
  <2> QED BY <2>1 DEF ScheduledEventOf
<1> HIDE DEF s
<1>3. PICK i \in DOMAIN Known : Known[i].type \in activity_close_types /\ Known[i].ref = s
  BY <1>2 DEF ActivityOpen, s
<1>4. ASSUME i \in DOMAIN history, Known[i] = history[i] PROVE FALSE
  <2>1. history[i].type \in EndTypes /\ SubjectIn(history, i) = id
    BY <1>2, <1>3, <1>4 DEF EndTypes, SubjectIn, RefTypes
  <2> QED BY <1>4, <2>1 DEF NotEnded
<1>5. PICK l \in DOMAIN buffered : Known[i] = buffered[l]
  BY <1>1, <1>4, KnownParts
<1> QED BY <1>2, <1>3, <1>5

\* A decision is recorded: what it may be, and what may happen to it.
LEMMA RecordKeepsHistory ==
    ASSUME IInv, HistoryInv, DecisionsInv, RecordDecision
    PROVE  HistoryInv'
<1> DEFINE d == Head(decisions)
           firing == {i \in DOMAIN buffered : buffered[i].type = "TimerFired" /\ buffered[i].id = d.id}
           RecordsIt(type) == history' = Append(history, RecordedEvent(type, d))
           SameWait == UNCHANGED buffered
<1>1. /\ phase = "record" /\ phase' = "record"
      /\ decisions # << >> /\ decisions' = Tail(decisions)
  BY DEF RecordDecision, engineVars
<1>2. /\ IsSeq(history) /\ Written(history) /\ IsSeq(buffered) /\ Writable(history, buffered)
      /\ WrittenInv /\ IsSeq(decisions)
  BY DEF IInv, ServiceInv, HistoryInv, WrittenInv, DecisionsInv
<1>3. Sendable(history, d)
  BY <1>1, <1>2, HeadAndTail DEF HistoryInv, AnswerInv
<1>4. \A i \in DOMAIN history : history[i].type \notin close_types
  BY <1>1 DEF HistoryInv, PhaseInv, Closed
<1>5. \A type : RecordedEvent(type, d).type = type /\ RecordedEvent(type, d).id = d.id
  BY DEF RecordedEvent
<1>6. d.what \in Outcomes =>
          d.what \notin {"ScheduleActivityTask", "StartTimer", "RecordMarker", "CancelTimer",
                         "RequestCancelActivityTask"}
  BY OutcomesAssumption
<1>7. {"ActivityTaskScheduled", "TimerStarted", "MarkerRecorded", "TimerCanceled",
       "ActivityTaskCancelRequested"} \cup close_types
          \subseteq decision_event_types \ {"RequestCancelActivityTaskFailed"}
  BY DEF decision_event_types, close_types
<1>8. {"ActivityTaskScheduled", "TimerStarted", "MarkerRecorded", "TimerCanceled",
       "ActivityTaskCancelRequested"} \cap close_types = {}
  BY DEF close_types
<1>9. CASE d.what = "ScheduleActivityTask" /\ RecordsIt("ActivityTaskScheduled") /\ SameWait
  <2>1. Follows(history, Len(history), RecordedEvent("ActivityTaskScheduled", d))
    BY <1>2, <1>3, <1>5, <1>9, SendableFollows
  <2> QED BY <1>1, <1>2, <1>5, <1>7, <1>8, <1>9, <2>1, OneIsRecorded
<1>10. CASE d.what = "StartTimer" /\ RecordsIt("TimerStarted") /\ SameWait
  <2>1. Follows(history, Len(history), RecordedEvent("TimerStarted", d))
    BY <1>2, <1>3, <1>5, <1>10, SendableFollows
  <2> QED BY <1>1, <1>2, <1>5, <1>7, <1>8, <1>10, <2>1, OneIsRecorded
<1>11. CASE d.what = "RecordMarker" /\ RecordsIt("MarkerRecorded") /\ SameWait
  <2>1. Follows(history, Len(history), RecordedEvent("MarkerRecorded", d))
    BY <1>2, <1>3, <1>5, <1>11, SendableFollows
  <2> QED BY <1>1, <1>2, <1>5, <1>7, <1>8, <1>11, <2>1, OneIsRecorded
<1>12. CASE /\ d.what = "CancelTimer"
            /\ IF TimerOpen(d.id) \/ firing # {} THEN RecordsIt("TimerCanceled")
               ELSE RecordsIt("CancelTimerFailed")
            /\ buffered' = IF firing = {} THEN buffered
                           ELSE SE!RemoveAt(buffered, CHOOSE i \in firing : TRUE)
  <2>1. StartedBefore(history, "TimerStarted", d.id) /\ NotEnded(history, d.id)
    BY <1>3, <1>6, <1>12 DEF Sendable, ClosesWorkflow
  <2>2. TimerOpen(d.id) \/ firing # {}
    <3>1. \/ TimerOpen(d.id)
          \/ \E k \in DOMAIN buffered : buffered[k].type = "TimerFired" /\ buffered[k].id = d.id
      BY <1>2, <2>1, CancelledInTime
    <3> QED BY <3>1
  <2>3. RecordsIt("TimerCanceled")
    BY <1>12, <2>2
  <2>4. /\ Writable(history, buffered')
        /\ \A k \in DOMAIN buffered : buffered[k].type \in activity_close_types =>
               \E l \in DOMAIN buffered' : buffered'[l] = buffered[k]
    <3>1. CASE firing = {}
      BY <1>2, <1>12, <3>1
    <3>2. CASE firing # {}
      <4> DEFINE i == CHOOSE i \in firing : TRUE
      <4>1. i \in DOMAIN buffered /\ buffered[i].type = "TimerFired"
        BY <3>2
      <4>2. buffered' = SE!RemoveAt(buffered, i)
        BY <1>12, <3>2
      <4> HIDE DEF i
      <4> QED BY <1>2, <4>1, <4>2, WritableRemoveAt
    <3> QED BY <3>1, <3>2
  <2>5. Follows(history, Len(history), RecordedEvent("TimerCanceled", d))
    BY <1>2, <1>3, <1>5, <1>12, SendableFollows
  <2> QED BY <1>1, <1>2, <1>5, <1>7, <1>8, <2>3, <2>4, <2>5, OneIsRecorded
<1>13. CASE d.what = "RequestCancelActivityTask" /\ RecordsIt("ActivityTaskCancelRequested") /\ SameWait
  <2>1. Follows(history, Len(history), RecordedEvent("ActivityTaskCancelRequested", d))
    BY <1>2, <1>3, <1>5, <1>13, SendableFollows
  <2> QED BY <1>1, <1>2, <1>5, <1>7, <1>8, <1>13, <2>1, OneIsRecorded
<1>14. CASE /\ d.what = "RequestCancelActivityTask"
            /\ ~ActivityOpen(ScheduledEventOf(d.id))
            /\ history' = history \o << RecordedEvent("ActivityTaskCancelRequested", d),
                                        RecordedEvent("RequestCancelActivityTaskFailed", d) >>
            /\ SameWait
  <2> DEFINE a == RecordedEvent("ActivityTaskCancelRequested", d)
             b == RecordedEvent("RequestCancelActivityTaskFailed", d)
             new == << a, b >>
  <2>1. /\ StartedBefore(history, "ActivityTaskScheduled", d.id) /\ NotEnded(history, d.id)
        /\ NotYet(history, "RequestCancelActivityTaskFailed", d.id)
    BY <1>3, <1>6, <1>14 DEF Sendable, ClosesWorkflow
  <2>2. Follows(history, Len(history), a)
    BY <1>2, <1>3, <1>5, <1>14, SendableFollows
  <2>3. /\ a.type = "ActivityTaskCancelRequested" /\ a.id = d.id
        /\ b.type = "RequestCancelActivityTaskFailed" /\ b.id = d.id
    BY <1>5
  <2>4. \E l \in DOMAIN buffered :
            /\ buffered[l].type \in activity_close_types
            /\ history[buffered[l].ref].id = d.id
    BY <1>2, <1>14, <2>1, RefusedInTime
  <2> HIDE DEF a, b
  <2>5. IsSeq(new) /\ DOMAIN new = {1, 2} /\ new[1] = a /\ new[2] = b
    BY TuplesAreSeqs
  <2>6. history' = history \o new
    BY <1>14 DEF a, b
  <2> HIDE DEF new
  <2>7. /\ Len(history) \in Nat /\ DOMAIN history = 1..Len(history)
        /\ \A i \in DOMAIN history : history'[i] = history[i]
        /\ \A k \in DOMAIN new : history'[Len(history) + k] = new[k]
    BY ZenonT(40), <1>2, <2>5, <2>6, ConcatPositions
  <2>8. /\ \A i \in DOMAIN history : SubjectIn(history', i) = SubjectIn(history, i)
        /\ Follows(history', Len(history), a)
    BY <1>2, <2>2, <2>5, <2>6, ConcatAgrees
  <2>9. history'[Len(history) + 1] = a
    BY <2>5, <2>7
  <2>10. Follows(history', Len(history) + 1, b)
    <3>1. ASSUME NEW i \in 1..(Len(history) + 1)
          PROVE  i \in DOMAIN history \/ i = Len(history) + 1
      BY <2>7
    <3>2. \A i \in 1..(Len(history) + 1) :
              history'[i].type = "RequestCancelActivityTaskFailed" => history'[i].id # d.id
      BY <2>1, <2>3, <2>7, <2>9, <3>1 DEF NotYet
    <3>3. \A i \in 1..(Len(history) + 1) :
              history'[i].type \in EndTypes => SubjectIn(history', i) # d.id
      <4>1. a.type \notin EndTypes
        BY <2>3 DEF EndTypes, activity_close_types
      <4> QED BY <2>1, <2>7, <2>8, <2>9, <3>1, <4>1 DEF NotEnded
    <3>4. Len(history) + 1 \in 1..(Len(history) + 1)
      BY <2>7
    <3> QED BY <2>3, <2>9, <3>2, <3>3, <3>4 DEF Follows, RefTypes, activity_close_types, CancelTypes
  <2>11. /\ Len(history) + 1 - 1 = Len(history)
         /\ Len(history) + 2 - 1 = Len(history) + 1
    BY <2>7
  <2>12. ASSUME NEW k \in DOMAIN new
         PROVE  /\ new[k].type \in decision_event_types
                /\ new[k].id = d.id
                /\ new[k].type \notin close_types
                /\ Follows(history', Len(history) + k - 1, new[k])
    BY <2>3, <2>5, <2>8, <2>10, <2>11 DEF decision_event_types, close_types
  <2> HIDE DEF d
  <2> QED BY <1>1, <1>2, <1>14, <2>4, <2>5, <2>6, <2>12, RecordedKeepsHistory DEF d
<1>15. CASE ClosesWorkflow(d) /\ RecordsIt(CloseEvent[d.what]) /\ SameWait
  <2>1. CloseEvent[d.what] \in close_types
    <3>1. d.what \in {"Complete", "Fail", "ContinueAsNew"}
      BY <1>3, <1>15, OutcomesAssumption DEF Sendable, ClosesWorkflow
    <3> QED BY <3>1 DEF CloseEvent, close_types
  <2>2. Follows(history, Len(history), RecordedEvent(CloseEvent[d.what], d))
    BY <1>2, <1>3, <1>4, <1>5, <2>1, SendableFollows
  <2> QED BY <1>1, <1>2, <1>5, <1>7, <1>15, <2>1, <2>2, OneIsRecorded
<1> QED BY <1>9, <1>10, <1>11, <1>12, <1>13, <1>14, <1>15 DEF RecordDecision

\* When all is recorded, what waited is written: the ends that refused
\* cancellations were waiting for among it.
LEMMA FinishKeepsHistory ==
    ASSUME IInv, HistoryInv, FinishDecisionTask
    PROVE  HistoryInv'
<1> DEFINE g == history \o buffered
<1>1. /\ IsSeq(history) /\ Written(history) /\ IsSeq(buffered) /\ Writable(history, buffered)
      /\ RefusedInv
  BY DEF IInv, ServiceInv, HistoryInv, WrittenInv
<1>2. /\ history' = g /\ buffered' = << >> /\ decisions' = << >> /\ phase' = "idle"
  BY DEF FinishDecisionTask, DropEngine
<1>3. /\ Len(history) \in Nat /\ DOMAIN history = 1..Len(history)
      /\ Len(buffered) \in Nat /\ DOMAIN buffered = 1..Len(buffered)
      /\ DOMAIN g = 1..(Len(history) + Len(buffered))
      /\ \A i \in DOMAIN history : g[i] = history[i]
      /\ \A k \in DOMAIN buffered : g[Len(history) + k] = buffered[k]
  BY <1>1, ConcatPositions
<1>4. \A i \in DOMAIN g : i \in DOMAIN history \/ \E k \in DOMAIN buffered : i = Len(history) + k
  BY <1>1, ConcatPositions
<1>5. \A i \in DOMAIN history : Answered(history, i) => Answered(g, i)
  BY <1>1, AnsweredStays
<1> HIDE DEF g
<1>6. \A k \in DOMAIN buffered :
          buffered[k].type \notin {"RequestCancelActivityTaskFailed", "DecisionTaskStarted"}
  BY <1>1 DEF Writable, RefTypes, activity_close_types
<1>7. ASSUME NEW i \in DOMAIN history, EndWaits(i) PROVE Answered(g, i)
  <2>1. PICK k \in DOMAIN buffered :
            /\ buffered[k].type \in activity_close_types
            /\ history[buffered[k].ref].id = history[i].id
    BY <1>7 DEF EndWaits
  <2> DEFINE j == Len(history) + k
  <2>2. /\ j \in DOMAIN g /\ i < j /\ g[j] = buffered[k] /\ g[i] = history[i]
    BY <1>3
  <2>3. buffered[k].ref \in DOMAIN history /\ buffered[k].type \in RefTypes
    BY <1>1, <2>1 DEF Writable, RefTypes
  <2>4. SubjectIn(g, j) = g[i].id
    BY <1>3, <2>1, <2>2, <2>3 DEF SubjectIn
  <2>5. ASSUME NEW s \in i..j PROVE g[s].type # "DecisionTaskStarted"
    <3>1. s \in DOMAIN g
      BY <1>3
    <3>2. CASE s \in DOMAIN history
      <4>1. s \in i..Len(history) /\ g[s] = history[s]
        BY <1>3, <3>2
      <4> QED BY <1>7, <4>1 DEF EndWaits
    <3>3. CASE s \notin DOMAIN history
      BY <1>3, <1>4, <1>6, <3>1, <3>3
    <3> QED BY <3>2, <3>3
  <2> HIDE DEF j
  <2> QED BY <2>1, <2>2, <2>4, <2>5 DEF Answered
<1>8. AllAnswered(g)
  BY <1>1, <1>3, <1>4, <1>5, <1>6, <1>7 DEF RefusedInv, AllAnswered
<1> QED BY <1>1, <1>2, <1>8, FlushKeepsHistory DEF g

\* The service: one step for each of its actions.
LEMMA ServiceKeepsHistory ==
    ASSUME IInv, HistoryInv, DecisionsInv, ServiceNext
    PROVE  HistoryInv'
<1>1. ASSUME NEW s \in DOMAIN history, NEW type \in CloseEvents, ActivityCloses(s, type)
      PROVE  HistoryInv'
  BY <1>1, ArrivalsKeepHistory
<1>2. ASSUME NEW id, TimerFires(id) PROVE HistoryInv'
  BY <1>2, ArrivalsKeepHistory
<1>3. CASE SignalArrives
  BY <1>3, ArrivalsKeepHistory
<1>4. CASE PollDecisionTask
  BY <1>4, PollKeepsHistory
<1>5. CASE DecisionTaskTimesOut \/ RespondDecisionTaskFailed
  BY <1>5, UnsuccessfullyKeepsHistory
     DEF DecisionTaskTimesOut, RespondDecisionTaskFailed, unsuccessful
<1>6. CASE RespondDecisionTaskCompleted
  BY <1>6, AnswerIsTaken
<1>7. CASE RecordDecision
  BY <1>7, RecordKeepsHistory
<1>8. CASE FinishDecisionTask
  BY <1>8, FinishKeepsHistory
<1> QED BY <1>1, <1>2, <1>3, <1>4, <1>5, <1>6, <1>7, <1>8 DEF ServiceNext

-----------------------------------------------------------------------------
(* The batches                                                             *)

\* Every member of a set of positions has a rank of its own, and is found under
\* it.
LEMMA AscendingRanks ==
    ASSUME NEW S, S \subseteq Nat, IsFiniteSet(S)
    PROVE  /\ IsSeq(Ascending(S))
           /\ Cardinality(S) \in Nat /\ DOMAIN Ascending(S) = 1..Cardinality(S)
           /\ \A k \in DOMAIN Ascending(S) :
                  /\ Ascending(S)[k] \in S
                  /\ Cardinality({j \in S : j <= Ascending(S)[k]}) = k
           /\ \A k, l \in DOMAIN Ascending(S) : k < l => Ascending(S)[k] < Ascending(S)[l]
           /\ \A i \in S : \E k \in DOMAIN Ascending(S) : Ascending(S)[k] = i
           /\ \A i, j \in S :
                  Cardinality({l \in S : l <= i}) = Cardinality({l \in S : l <= j}) => i = j
<1> DEFINE Below(i) == {j \in S : j <= i}
           n == Cardinality(S)
           rank == [i \in S |-> Cardinality(Below(i))]
           a == Ascending(S)
<1>1. n \in Nat /\ IsFiniteSet(1..n) /\ Cardinality(1..n) = n
  <2>1. n \in Nat
    BY FS_CardinalityType
  <2> HIDE DEF n
  <2>2. IsFiniteSet(1..n) /\ Cardinality(1..n) = IF 1 > n THEN 0 ELSE n - 1 + 1
    BY <2>1, FS_Interval
  <2> QED BY <2>1, <2>2
<1>2. ASSUME NEW i \in S
      PROVE  /\ IsFiniteSet(Below(i)) /\ Cardinality(Below(i)) \in Nat
             /\ Cardinality(Below(i)) \in 1..n
  <2>1. Below(i) \in SUBSET S /\ i \in Below(i)
    OBVIOUS
  <2> HIDE DEF Below
  <2>2. IsFiniteSet(Below(i)) /\ Cardinality(Below(i)) <= n
    BY <2>1, FS_Subset
  <2>3. Cardinality(Below(i)) \in Nat
    BY <2>2, FS_CardinalityType
  <2>4. Cardinality(Below(i)) # 0
    BY <2>1, <2>2, FS_EmptySet
  <2> QED BY <1>1, <2>2, <2>3, <2>4
<1>3. ASSUME NEW i \in S, NEW j \in S, i < j
      PROVE  rank[i] < rank[j]
  <2>4. i \in Nat /\ j \in Nat /\ \A k \in S : k \in Nat
    OBVIOUS
  <2>5. \A k \in S : k <= i => k <= j
    BY <1>3, <2>4
  <2>6. j <= j /\ ~(j <= i)
    BY <1>3, <2>4
  <2>1. Below(i) \in SUBSET Below(j) /\ j \in Below(j) /\ j \notin Below(i)
    BY <2>5, <2>6
  <2> HIDE DEF Below
  <2>2. /\ Cardinality(Below(i)) <= Cardinality(Below(j))
        /\ Cardinality(Below(j)) = Cardinality(Below(i)) => Below(j) = Below(i)
    BY <1>2, <2>1, FS_Subset
  <2>3. Cardinality(Below(j)) # Cardinality(Below(i))
    BY <2>1, <2>2
  <2> QED BY <1>2, <2>2, <2>3
<1>4. rank \in [S -> 1..n]
  BY <1>2
<1> HIDE DEF n
<1>5. \A i, j \in S : rank[i] = rank[j] => i = j
  <2> SUFFICES ASSUME NEW i \in S, NEW j \in S, rank[i] = rank[j], i # j PROVE FALSE
    OBVIOUS
  <2>1. i < j \/ j < i
    OBVIOUS
  <2>2. rank[i] \in Nat /\ rank[j] \in Nat
    BY <1>1, <1>4
  <2> HIDE DEF rank
  <2> QED BY <1>3, <2>1, <2>2
<1>6. \A k \in 1..n : \E i \in S : rank[i] = k
  <2> HIDE DEF rank
  <2>1. rank \in Injection(S, 1..n)
    BY <1>4, <1>5 DEF Injection, IsInjective
  <2>2. rank \in Surjection(S, 1..n)
    BY <1>1, <2>1, FS_Injection DEF n
  <2> QED BY <2>2 DEF Surjection
<1>7. a = [k \in 1..n |-> CHOOSE i \in S : Cardinality({j \in S : j <= i}) = k]
  BY DEF Ascending, n
<1>8. ASSUME NEW k \in 1..n PROVE a[k] \in S /\ rank[a[k]] = k
  <2>1. \E i \in S : Cardinality({j \in S : j <= i}) = k
    BY <1>6
  <2>2. a[k] = CHOOSE i \in S : Cardinality({j \in S : j <= i}) = k
    BY <1>7
  <2> HIDE DEF a
  <2> QED BY <2>1, <2>2
<1>9. a = [k \in 1..n |-> a[k]] /\ DOMAIN a = 1..n
  BY <1>7
<1> HIDE DEF a
<1>10. IsSeq(a)
  BY <1>1, <1>9, FunctionIsSeq
<1>11. \A k, l \in 1..n : k < l => a[k] < a[l]
  <2> SUFFICES ASSUME NEW k \in 1..n, NEW l \in 1..n, k < l, ~(a[k] < a[l]) PROVE FALSE
    OBVIOUS
  <2>1. a[k] \in S /\ a[l] \in S /\ rank[a[k]] = k /\ rank[a[l]] = l
    BY <1>8
  <2>2. a[k] \in Nat /\ a[l] \in Nat /\ k \in Nat /\ l \in Nat
    <3>1. k \in Nat /\ l \in Nat
      BY <1>1
    <3> HIDE DEF rank
    <3> QED BY <2>1, <3>1
  <2>3. a[l] = a[k] \/ a[l] < a[k]
    BY <2>2
  <2> HIDE DEF rank
  <2> QED BY <1>3, <2>1, <2>2, <2>3
<1>12. \A i \in S : \E k \in 1..n : a[k] = i
  <2> SUFFICES ASSUME NEW i \in S PROVE \E k \in 1..n : a[k] = i
    OBVIOUS
  <2>1. rank[i] \in 1..n
    BY <1>4
  <2> HIDE DEF rank
  <2>2. a[rank[i]] = i
    BY <1>5, <1>8, <2>1
  <2> QED BY <2>1, <2>2
<1>13. \A k \in 1..n : Cardinality({j \in S : j <= a[k]}) = k
  <2> SUFFICES ASSUME NEW k \in 1..n PROVE Cardinality({j \in S : j <= a[k]}) = k
    OBVIOUS
  <2>1. PICK i \in S : i = a[k] /\ rank[i] = k
    BY <1>8
  <2> QED BY <2>1
<1>14. \A i, j \in S : Cardinality({l \in S : l <= i}) = Cardinality({l \in S : l <= j}) => i = j
  BY <1>5
<1>15. n \in Nat /\ n = Cardinality(S)
  BY <1>1 DEF n
<1> HIDE DEF Below, rank
<1> QED BY <1>8, <1>9, <1>10, <1>11, <1>12, <1>13, <1>14, <1>15 DEF a

\* A set of positions, enumerated in their order.
LEMMA AscendingEnumerates ==
    ASSUME NEW S, S \subseteq Nat, IsFiniteSet(S)
    PROVE  /\ IsSeq(Ascending(S))
           /\ \A k \in DOMAIN Ascending(S) : Ascending(S)[k] \in S
           /\ \A k, l \in DOMAIN Ascending(S) : k < l => Ascending(S)[k] < Ascending(S)[l]
           /\ \A i \in S : \E k \in DOMAIN Ascending(S) : Ascending(S)[k] = i
BY AscendingRanks

\* What the iterator cuts out of a history h at p: the events up to the decision
\* task started at s, and the decision events that follow it.
IsBatch(h, p, b, s) ==
    LET first == IF b.replay THEN s + 2 ELSE s + 1
    IN  /\ s \in p..Len(h)
        /\ h[s].type = "DecisionTaskStarted"
        /\ \A i \in p..(s - 1) : ~EndsSearch(h, i)
        /\ b.replay = (s < Len(h))
        /\ b.replay => h[s + 1].type = "DecisionTaskCompleted"
        /\ b.next \in first..(Len(h) + 1)
        /\ \A i \in first..(b.next - 1) : is_decision_event(h[i])
        /\ b.next <= Len(h) => ~is_decision_event(h[b.next])
        /\ b.output = [k \in 1..(b.next - first) |-> first + k - 1]
        /\ b.input = Ascending({i \in p..(s - 1) : ~Skipped(h, i)})
        /\ b.markers = Ascending({i \in first..(b.next - 1) : is_marker_event(h[i])})

\* The next batch is one.
LEMMA NextBatchIsBatch ==
    ASSUME NEW h, IsSeq(h), NEW p \in Nat \ {0}, ~Exhausted(h, p), ~Malformed(h, p)
    PROVE  \E s : IsBatch(h, p, NextBatch(h, p), s)
<1> DEFINE n == Len(h)
           Ending == {i \in p..n : EndsSearch(h, i)}
<1>1. n \in Nat /\ DOMAIN h = 1..n
  BY LenProperties DEF IsSeq
<1>2. \E i \in p..n : EndsSearch(h, i)
  BY DEF Exhausted
<1> HIDE DEF n
<1>3. PICK s \in Ending : \A i \in Ending : s <= i
  <2>1. Ending \subseteq Nat /\ Ending # {}
    BY <1>1, <1>2
  <2> HIDE DEF Ending
  <2> QED BY <2>1, Least
<1>4. /\ s \in p..n /\ s \in Nat /\ EndsSearch(h, s)
      /\ \A i \in p..(s - 1) : ~EndsSearch(h, i)
  <2>1. s \in p..n /\ s \in Nat /\ EndsSearch(h, s)
    BY <1>1, <1>3
  <2>2. ASSUME NEW i \in p..(s - 1), EndsSearch(h, i) PROVE FALSE
    <3>1. i \in p..n /\ ~(s <= i)
      BY <1>1, <2>1
    <3>2. i \in Ending
      BY <2>2, <3>1
    <3> QED BY <1>3, <3>1, <3>2
  <2> QED BY <2>1, <2>2
<1>5. Passed(h, p) = p..(s - 1)
  <2>1. ASSUME NEW i \in p..n, \A j \in p..i : ~EndsSearch(h, j) PROVE i \in p..(s - 1)
    <3>1. s \notin p..i
      BY <1>4, <2>1
    <3> QED BY <1>1, <1>4, <3>1
  <2>2. ASSUME NEW i \in p..(s - 1)
        PROVE  i \in p..n /\ \A j \in p..i : ~EndsSearch(h, j)
    <3>1. i \in p..n
      BY <1>1, <1>4
    <3>2. \A j \in p..i : j \in p..(s - 1)
      BY <1>1, <1>4
    <3> QED BY <1>4, <3>1, <3>2
  <2> QED BY <2>1, <2>2 DEF Passed, n
<1>6. p + Cardinality(p..(s - 1)) = s
  <2>1. Cardinality(p..(s - 1)) = IF p > s - 1 THEN 0 ELSE (s - 1) - p + 1
    BY <1>4, FS_Interval
  <2> QED BY <1>1, <1>4, <2>1
<1> DEFINE replay == s < n
           first  == IF replay THEN s + 2 ELSE s + 1
           run    == {i \in first..n : \A j \in first..i : is_decision_event(h[j])}
           Stops  == {i \in first..(n + 1) : i <= n => ~is_decision_event(h[i])}
<1>7. first \in 1..(n + 1) /\ first \in Nat
  BY <1>1, <1>4
<1>8. /\ h[s].type = "DecisionTaskStarted"
      /\ replay => h[s + 1].type = "DecisionTaskCompleted"
  BY <1>4 DEF EndsSearch, IsStarted, n
<1>9. /\ NextBatch(h, p).replay = replay
      /\ NextBatch(h, p).next = first + Cardinality(run)
      /\ NextBatch(h, p).output = [k \in 1..Cardinality(run) |-> first + k - 1]
      /\ NextBatch(h, p).input = Ascending({i \in p..(s - 1) : ~Skipped(h, i)})
      /\ NextBatch(h, p).markers = Ascending({i \in run : is_marker_event(h[i])})
  BY <1>5, <1>6 DEF NextBatch, n
<1> HIDE DEF replay, first
<1>10. PICK m \in Stops : \A i \in Stops : m <= i
  <2>1. n + 1 \in first..(n + 1) /\ ~(n + 1 <= n)
    BY <1>1, <1>7
  <2>2. Stops \subseteq Nat /\ Stops # {}
    <3>1. first..(n + 1) \subseteq Nat
      BY <1>1, <1>7
    <3>2. n + 1 \in Stops
      BY <2>1
    <3> QED BY <3>1, <3>2
  <2> HIDE DEF Stops
  <2> QED BY <2>2, Least
<1>11. m \in first..(n + 1) /\ m \in Nat /\ (m <= n => ~is_decision_event(h[m]))
  BY <1>7, <1>10
<1>12. ASSUME NEW i \in first..(m - 1) PROVE is_decision_event(h[i]) /\ i \in first..n
  <2>1. i \in first..(n + 1) /\ i <= n /\ ~(m <= i)
    BY <1>1, <1>7, <1>11
  <2>2. i \notin Stops
    BY <1>10, <2>1
  <2> QED BY <1>1, <1>7, <2>1, <2>2
<1>13. run = first..(m - 1)
  <2>1. ASSUME NEW i \in first..n, \A j \in first..i : is_decision_event(h[j]) PROVE i \in first..(m - 1)
    <3>1. ~(m \in first..i)
      <4>1. ASSUME m \in first..i PROVE FALSE
        <5>1. m <= n
          BY <1>1, <1>7, <1>11, <4>1
        <5> QED BY <1>11, <2>1, <4>1, <5>1
      <4> QED BY <4>1
    <3> QED BY <1>1, <1>7, <1>11, <3>1
  <2>2. ASSUME NEW i \in first..(m - 1) PROVE \A j \in first..i : is_decision_event(h[j])
    <3>1. \A j \in first..i : j \in first..(m - 1)
      BY <1>7, <1>11
    <3> QED BY <1>12, <3>1
  <2> QED BY <1>12, <2>1, <2>2
<1> HIDE DEF run, Stops, Ending
<1>14. Cardinality(run) = m - first
  <2>1. Cardinality(first..(m - 1)) = IF first > m - 1 THEN 0 ELSE (m - 1) - first + 1
    BY <1>7, <1>11, FS_Interval
  <2> QED BY <1>7, <1>11, <1>13, <2>1
<1> DEFINE b == NextBatch(h, p)
<1>15. b.next = m
  BY <1>7, <1>9, <1>11, <1>14
<1>16. first = IF b.replay THEN s + 2 ELSE s + 1
  BY <1>9 DEF first
<1>17. /\ b.output = [k \in 1..(b.next - first) |-> first + k - 1]
       /\ b.markers = Ascending({i \in first..(b.next - 1) : is_marker_event(h[i])})
  BY <1>9, <1>13, <1>14, <1>15
<1>18. /\ b.next \in first..(Len(h) + 1)
       /\ \A i \in first..(b.next - 1) : is_decision_event(h[i])
       /\ b.next <= Len(h) => ~is_decision_event(h[b.next])
  BY <1>11, <1>12, <1>15 DEF n
<1>19. /\ s \in p..Len(h)
       /\ b.replay = (s < Len(h))
       /\ b.replay => h[s + 1].type = "DecisionTaskCompleted"
       /\ b.input = Ascending({i \in p..(s - 1) : ~Skipped(h, i)})
  BY <1>4, <1>8, <1>9 DEF replay, n
<1> HIDE DEF b
<1>20. IsBatch(h, p, b, s)
  BY <1>4, <1>8, <1>16, <1>17, <1>18, <1>19 DEF IsBatch
<1> QED BY <1>20 DEF b

\* A history whose latest event is a decision task has been read to its end when
\* there is no other batch.
LEMMA ExhaustedAtTheEnd ==
    ASSUME NEW h, IsSeq(h), Len(h) # 0, h[Len(h)].type = "DecisionTaskStarted",
           NEW p \in Nat, Exhausted(h, p)
    PROVE  p > Len(h)
<1>1. Len(h) \in Nat /\ DOMAIN h = 1..Len(h)
  BY LenProperties DEF IsSeq
<1>2. EndsSearch(h, Len(h))
  BY <1>1 DEF EndsSearch, IsStarted
<1>3. Len(h) \notin p..Len(h)
  BY <1>2 DEF Exhausted
<1> QED BY <1>1, <1>3

-----------------------------------------------------------------------------
(* Where the engine is                                                     *)

\* No event is pending outside of a batch.
LEMMA OutsideIsInPlace ==
    ASSUME phase \notin EnginePhases
    PROVE  PlaceInv /\ AgreeInv /\ FuturesInv
<1>1. Pending = {} /\ phase \notin {"input", "output"}
  BY DEF Pending, EnginePhases
<1> QED BY <1>1 DEF PlaceInv, BatchInv, InBatch, TodoInv, PosInv, OrderInv, AgreeInv, FuturesInv

\* A new batch: all that has a handler in it is still to be handled.
LEMMA NextBatchIsInPlace ==
    ASSUME IInv, PlaceInv, NextDecisionEvents, phase' = "input"
    PROVE  PlaceInv' /\ Applied' = Applied
<1> DEFINE b == NextBatch(history, pos)
<1>1. /\ IsSeq(history) /\ pos \in Nat \ {0} /\ phase = "next"
      /\ ~Exhausted(history, pos) /\ ~Malformed(history, pos)
  <2>1. IsSeq(history) /\ pos \in Nat
    BY DEF IInv, ServiceInv
  <2>2. phase = "next" /\ ~Exhausted(history, pos)
    BY DEF NextDecisionEvents
  <2>3. pos # 0
    BY <2>1, <2>2 DEF PlaceInv, PosInv, EnginePhases
  <2>4. raised' = "none"
    BY DEF NextDecisionEvents, Continue
  <2>5. ~Malformed(history, pos)
    BY <2>4 DEF NextDecisionEvents, RaiseInEngine
  <2> QED BY <2>1, <2>2, <2>3, <2>5
<1>2. /\ batch' = b /\ pos' = b.next /\ todo' = b.markers \o b.input
      /\ replaying' = b.replay /\ UNCHANGED history
  BY <1>1 DEF NextDecisionEvents, start_execution, serviceVars
<1>3. PICK s : IsBatch(history, pos, b, s)
  BY <1>1, NextBatchIsBatch
<1> HIDE DEF b
<1> DEFINE first == IF b.replay THEN s + 2 ELSE s + 1
           n == Len(history)
           Passing == {i \in pos..(s - 1) : ~Skipped(history, i)}
           Marked == {i \in first..(b.next - 1) : is_marker_event(history[i])}
<1>4. /\ s \in pos..n
      /\ history[s].type = "DecisionTaskStarted"
      /\ b.replay = (s < n)
      /\ b.replay => history[s + 1].type = "DecisionTaskCompleted"
      /\ b.next \in first..(n + 1)
      /\ \A i \in first..(b.next - 1) : is_decision_event(history[i])
      /\ b.output = [k \in 1..(b.next - first) |-> first + k - 1]
      /\ b.input = Ascending(Passing)
      /\ b.markers = Ascending(Marked)
  BY <1>3 DEF IsBatch
<1>5. /\ n \in Nat /\ DOMAIN history = 1..n /\ s \in 1..n /\ s \in Nat
      /\ first \in Nat /\ first \in 1..(n + 1) /\ b.next \in Nat
      /\ b.next - first \in Nat
      /\ first = s + 1 \/ (first = s + 2 /\ b.replay)
      /\ ~b.replay => first = n + 1
  <2>1. n \in Nat /\ DOMAIN history = 1..n
    BY <1>1, LenProperties DEF IsSeq
  <2> HIDE DEF n
  <2>2. s \in 1..n /\ s \in Nat
    BY <1>1, <1>4, <2>1
  <2>3. CASE b.replay
    BY <1>4, <2>1, <2>2, <2>3
  <2>4. CASE ~b.replay
    <3>1. ~(s < n)
      BY <1>4, <2>4
    <3> QED BY <1>4, <2>1, <2>2, <2>4, <3>1
  <2> QED BY <2>1, <2>2, <2>3, <2>4
<1> HIDE DEF first, n
<1>6. /\ IsSeq(b.output) /\ Len(b.output) = b.next - first
      /\ DOMAIN b.output = 1..(b.next - first)
      /\ \A k \in 1..(b.next - first) : b.output[k] = first + k - 1
  <2>1. /\ b.output = [k \in 1..(b.next - first) |-> b.output[k]]
        /\ \A k \in 1..(b.next - first) : b.output[k] = first + k - 1
    BY <1>4
  <2> QED BY <1>5, <2>1, FunctionIsSeq
<1>7. First' = first
  BY <1>2, <1>5, <1>6 DEF First
<1>8. /\ IsSeq(b.input)
      /\ \A k \in DOMAIN b.input : b.input[k] \in Passing
      /\ \A k, l \in DOMAIN b.input : k < l => b.input[k] < b.input[l]
      /\ \A i \in Passing : \E k \in DOMAIN b.input : b.input[k] = i
  <2>1. Passing \subseteq pos..(s - 1) /\ IsFiniteSet(pos..(s - 1)) /\ pos..(s - 1) \subseteq Nat
    <3>1. pos \in Int /\ s - 1 \in Int /\ pos..(s - 1) \subseteq Nat
      BY <1>1, <1>5
    <3> QED BY <3>1, FS_Interval
  <2> HIDE DEF Passing
  <2>2. IsFiniteSet(Passing) /\ Passing \subseteq Nat
    BY <2>1, FS_Subset
  <2> DEFINE a == Ascending(Passing)
  <2>3. /\ IsSeq(a)
        /\ \A k \in DOMAIN a : a[k] \in Passing
        /\ \A k, l \in DOMAIN a : k < l => a[k] < a[l]
        /\ \A i \in Passing : \E k \in DOMAIN a : a[k] = i
    BY <2>2, AscendingEnumerates
  <2>4. b.input = a
    BY <1>4
  <2> HIDE DEF a
  <2> QED BY <2>3, <2>4
<1>9. /\ IsSeq(b.markers)
      /\ \A k \in DOMAIN b.markers : b.markers[k] \in Marked
  <2>1. /\ Marked \subseteq first..(b.next - 1) /\ IsFiniteSet(first..(b.next - 1))
        /\ first..(b.next - 1) \subseteq Nat
    <3>1. first \in Int /\ b.next - 1 \in Int /\ first..(b.next - 1) \subseteq Nat
      BY <1>5
    <3> QED BY <3>1, FS_Interval
  <2> HIDE DEF Marked
  <2>2. IsFiniteSet(Marked) /\ Marked \subseteq Nat
    BY <2>1, FS_Subset
  <2> DEFINE a == Ascending(Marked)
  <2>3. IsSeq(a) /\ \A k \in DOMAIN a : a[k] \in Marked
    BY <2>2, AscendingEnumerates
  <2>4. b.markers = a
    BY <1>4
  <2> HIDE DEF a
  <2> QED BY <2>3, <2>4
<1> DEFINE markers == b.markers
           input == b.input
           both == markers \o input
<1>27. IsSeq(markers) /\ IsSeq(input)
  BY <1>8, <1>9
<1> HIDE DEF markers, input
<1>10. /\ IsSeq(both)
       /\ Len(markers) \in Nat /\ DOMAIN markers = 1..Len(markers)
       /\ Len(input) \in Nat /\ DOMAIN input = 1..Len(input)
       /\ \A k \in DOMAIN markers : both[k] = markers[k]
       /\ \A k \in DOMAIN input : both[Len(markers) + k] = input[k]
  BY <1>27, ConcatPositions
<1>11. \A k \in DOMAIN both : k \in DOMAIN markers \/ \E l \in DOMAIN input : k = Len(markers) + l
  BY <1>27, ConcatPositions
<1>12. \A k \in DOMAIN input : Len(markers) + k \in DOMAIN both
  <2>1. DOMAIN both = 1..(Len(markers) + Len(input))
    BY <1>27, ConcatPositions
  <2> QED BY <1>10, <2>1
<1>25. todo' = both
  BY <1>2 DEF markers, input
<1> HIDE DEF both
<1>13. \A i \in Marked : history[i].type \notin DOMAIN type_to_action
  BY DEF is_marker_event, type_to_action
<1>14. \A i \in Marked : i \in 1..(b.next - 1)
  BY <1>5
<1>15. \A i \in Passing : i \in 1..(b.next - 1) /\ i \in pos..(s - 1) /\ i < first
  BY SMTT(30), <1>1, <1>4, <1>5
<1> HIDE DEF Passing, Marked
<1>16. BatchInv'
  <2>1. InBatch'
    BY DEF InBatch, EnginePhases
  <2>2. \A k \in DOMAIN b.output : is_decision_event(history[first + k - 1]) /\ b.output[k] = first + k - 1
    <3>1. \A k \in 1..(b.next - first) : first + k - 1 \in first..(b.next - 1)
      BY <1>5
    <3> QED BY <1>4, <1>6, <3>1
  <2>3. b.output # << >> => b.replay
    <3>1. ASSUME ~b.replay PROVE b.output = << >>
      <4>1. b.next - first = 0
        BY <1>4, <1>5, <3>1
      <4> QED BY <1>6, <4>1, EmptySeq DEF IsSeq
    <3> QED BY <3>1
  <2>4. \E r \in DOMAIN history :
            /\ history[r].type = "DecisionTaskStarted"
            /\ first = r + 1 \/ (first = r + 2 /\ history[r + 1].type = "DecisionTaskCompleted")
    BY <1>4, <1>5
  <2> QED BY <1>2, <1>5, <1>6, <1>7, <1>10, <1>25, <2>2, <2>3, <2>4 DEF BatchInv, is_decision_event
<1>26. \A k \in DOMAIN both : both[k] \in 1..(b.next - 1)
  BY <1>8, <1>9, <1>10, <1>11, <1>14, <1>15 DEF markers, input
<1>17. TodoInv'
  <2>2. ASSUME NEW k \in DOMAIN both, history[both[k]].type \in DOMAIN type_to_action
        PROVE  /\ both[k] < first
               /\ \A l \in DOMAIN both : k < l => both[k] < both[l]
    <3>1. k \notin DOMAIN markers
      BY <1>9, <1>10, <1>13, <2>2 DEF markers
    <3>2. PICK j \in DOMAIN input : k = Len(markers) + j
      BY <1>11, <3>1
    <3>3. both[k] = input[j] /\ both[k] < first
      BY <1>8, <1>10, <1>15, <3>2 DEF input
    <3>4. ASSUME NEW l \in DOMAIN both, k < l PROVE both[k] < both[l]
      <4>1. l \notin DOMAIN markers
        BY <1>10, <3>2, <3>4
      <4>2. PICK i \in DOMAIN input : l = Len(markers) + i
        BY <1>11, <4>1
      <4>3. j < i
        BY <1>10, <3>2, <3>4, <4>2
      <4> QED BY <1>8, <1>10, <3>3, <3>2, <4>2, <4>3 DEF input
    <3> QED BY <3>3, <3>4
  <2> QED BY <1>2, <1>7, <1>25, <1>26, <2>2 DEF TodoInv, HasHandler
<1>18. PosInv'
  BY <1>2, <1>4, <1>5 DEF PosInv, n
<1>19. Pending' = Elems(both) \cup Elems(b.output)
  BY <1>2, <1>25 DEF Pending
<1>20. Applied = {i \in 1..(pos - 1) : HasHandler(i)}
  BY <1>1 DEF Applied, Pending
<1>21. ASSUME NEW i \in Pending', HasHandler(i) PROVE pos <= i
  <2>1. CASE i \in Elems(both)
    <3>1. PICK k \in DOMAIN both : i = both[k]
      BY <2>1 DEF Elems
    <3>2. k \notin DOMAIN markers
      BY <1>9, <1>10, <1>13, <1>21, <3>1 DEF HasHandler, markers
    <3>3. i \in Passing
      BY <1>8, <1>10, <1>11, <3>1, <3>2 DEF input
    <3> QED BY <1>1, <1>5, <1>15, <3>3
  <2>2. CASE i \in Elems(b.output)
    <3>1. PICK k \in DOMAIN b.output : i = b.output[k]
      BY <2>2 DEF Elems
    <3>2. i = first + k - 1 /\ k \in 1..(b.next - first)
      BY <1>6, <3>1
    <3> QED BY <1>1, <1>4, <1>5, <3>2
  <2> QED BY <1>19, <2>1, <2>2
<1>22. ASSUME NEW i \in pos..(b.next - 1), HasHandler(i) PROVE i \in Pending'
  <2>1. CASE i < s
    <3>1. i \in DOMAIN history /\ i \in pos..(s - 1)
      BY <1>1, <1>4, <1>5, <2>1
    <3>2. ~Skipped(history, i)
      BY <1>22, <3>1 DEF Skipped, IsStarted, HasHandler, unsuccessful, type_to_action
    <3>3. PICK k \in DOMAIN input : input[k] = i
      BY <1>8, <3>1, <3>2 DEF Passing, input
    <3>4. Len(markers) + k \in DOMAIN both /\ both[Len(markers) + k] = i
      BY <1>10, <1>12, <3>3
    <3> QED BY <1>19, <3>4 DEF Elems
  <2>2. CASE i \in s..(first - 1)
    <3>1. i = s \/ (b.replay /\ i = s + 1)
      BY <1>5, <2>2
    <3> QED BY <1>4, <1>22, <3>1 DEF HasHandler, type_to_action
  <2>3. CASE first <= i
    <3>1. i - first + 1 \in 1..(b.next - first) /\ first + (i - first + 1) - 1 = i
      BY <1>1, <1>5, <2>3
    <3>2. b.output[i - first + 1] = i /\ i - first + 1 \in DOMAIN b.output
      BY <1>6, <3>1
    <3> QED BY <1>19, <3>2 DEF Elems
  <2> QED BY <1>1, <1>5, <2>1, <2>2, <2>3
<1>23. Applied' = Applied
  <2>1. Applied' = {i \in 1..(b.next - 1) : HasHandler(i) /\ i \notin Pending'}
    BY <1>2 DEF Applied, HasHandler
  <2>2. ASSUME NEW i \in 1..(b.next - 1), HasHandler(i), i \notin Pending' PROVE i \in 1..(pos - 1)
    <3>1. i \notin pos..(b.next - 1)
      BY <1>22, <2>2
    <3> QED BY <1>1, <1>5, <3>1
  <2>3. ASSUME NEW i \in 1..(pos - 1), HasHandler(i) PROVE i \in 1..(b.next - 1) /\ i \notin Pending'
    <3>1. ~(pos <= i) /\ i \in 1..(b.next - 1)
      BY <1>1, <1>4, <1>5
    <3> QED BY <1>21, <2>3, <3>1
  <2> QED BY <1>20, <2>1, <2>2, <2>3
<1>24. OrderInv'
  <2>1. ASSUME NEW i \in Applied, NEW p \in Pending', HasHandler(p) PROVE i < p
    <3>1. i \in 1..(pos - 1) /\ pos <= p
      BY <1>20, <1>21, <2>1
    <3>2. p \in Nat
      <4>1. CASE p \in Elems(both)
        BY <1>5, <1>26, <4>1 DEF Elems
      <4>2. CASE p \in Elems(b.output)
        <5>1. PICK k \in DOMAIN b.output : p = b.output[k]
          BY <4>2 DEF Elems
        <5>2. p = first + k - 1 /\ k \in 1..(b.next - first)
          BY <1>6, <5>1
        <5> QED BY <1>5, <5>2
      <4> QED BY <1>19, <4>1, <4>2
    <3> QED BY <1>1, <3>1, <3>2
  <2> QED BY <1>2, <1>23, <2>1 DEF OrderInv, HasHandler
<1> QED BY <1>16, <1>17, <1>18, <1>23, <1>24 DEF PlaceInv

\* A step that handles no event leaves what is pending, unless it drops what
\* has no handler.
LEMMA StaysInPlace ==
    ASSUME PlaceInv, phase \in EnginePhases, phase' \in EnginePhases,
           UNCHANGED << history, pos >>, Pending' = Pending,
           BatchInv', TodoInv'
    PROVE  PlaceInv' /\ Applied' = Applied
BY DEF PlaceInv, PosInv, OrderInv, Applied, HasHandler

\* The steps of a batch that handle no event.
LEMMA BatchGoesOn ==
    ASSUME PlaceInv, UNCHANGED << history, pos, batch >>,
           \/ /\ phase = "input" /\ phase' = "run" /\ todo = << >>
              /\ UNCHANGED << todo, replaying >>
           \/ /\ phase = "run" /\ phase' \in {"run", "complete"}
              /\ UNCHANGED << todo, replaying >>
           \/ /\ phase = "complete" /\ phase' = "end"
              /\ UNCHANGED << todo, replaying >>
           \/ phase = "end" /\ phase' = "output" /\ todo' = batch.output
           \/ phase = "output" /\ phase' = "next" /\ todo = << >>
    PROVE  PlaceInv' /\ Applied' = Applied
<1>1. CASE /\ phase \in {"input", "run", "complete"} /\ phase' \in {"run", "complete", "end"}
           /\ UNCHANGED << todo, replaying >>
           /\ phase = "input" => todo = << >>
  <2>1. phase \in EnginePhases /\ phase' \in EnginePhases /\ InBatch /\ InBatch'
    BY <1>1 DEF InBatch, EnginePhases
  <2>2. Pending' = Pending
    BY <1>1, EmptyIsSeq DEF Pending, Elems
  <2>3. BatchInv' /\ TodoInv'
    BY <1>1, <2>1 DEF PlaceInv, BatchInv, TodoInv, First
  <2> QED BY <2>1, <2>2, <2>3, StaysInPlace
<1>2. CASE phase = "end" /\ phase' = "output" /\ todo' = batch.output
  <2>1. phase \in EnginePhases /\ phase' \in EnginePhases /\ InBatch /\ InBatch'
    BY <1>2 DEF InBatch, EnginePhases
  <2>2. Pending' = Pending
    BY <1>2 DEF Pending
  <2>3. BatchInv'
    BY <1>2, <2>1 DEF PlaceInv, BatchInv, First
  <2>4. TodoInv'
    <3>1. /\ IsSeq(batch.output) /\ First \in Nat
          /\ \A k \in DOMAIN batch.output : batch.output[k] = First + k - 1
          /\ pos \in Nat
      BY <2>1 DEF PlaceInv, BatchInv, PosInv
    <3>2. Len(batch.output) \in Nat /\ DOMAIN batch.output = 1..Len(batch.output)
      BY <3>1, LenProperties DEF IsSeq
    <3> QED BY <1>2, <3>1, <3>2 DEF TodoInv, First
  <2> QED BY <2>1, <2>2, <2>3, <2>4, StaysInPlace
<1>3. CASE phase = "output" /\ phase' = "next" /\ todo = << >>
  <2>1. phase \in EnginePhases /\ phase' \in EnginePhases
    BY <1>3 DEF EnginePhases
  <2>2. Pending' = Pending
    BY <1>3, EmptyIsSeq DEF Pending, Elems
  <2>3. BatchInv' /\ TodoInv'
    BY <1>3 DEF BatchInv, InBatch, TodoInv
  <2> QED BY <2>1, <2>2, <2>3, StaysInPlace
<1> QED BY <1>1, <1>2, <1>3

\* The event that is handled joins those that were.
LEMMA HeadIsHandled ==
    ASSUME IInv, PlaceInv, phase \in {"input", "output"}, phase' = phase,
           todo # << >>, todo' = Tail(todo),
           UNCHANGED << history, pos, batch, replaying >>
    PROVE  LET p == Head(todo)
           IN  /\ PlaceInv'
               /\ p \in 1..(pos - 1) /\ p \in DOMAIN history
               /\ HasHandler(p) => /\ Applied' = Applied \cup {p}
                                   /\ Applied = {i \in 1..(p - 1) : HasHandler(i)}
               /\ ~HasHandler(p) => Applied' = Applied
<1> DEFINE p == Head(todo)
<1>1. InBatch /\ InBatch' /\ phase \in EnginePhases
  BY DEF InBatch, EnginePhases
<1>2. /\ IsSeq(history) /\ IsSeq(todo) /\ IsSeq(batch.output) /\ First \in Nat
      /\ \A k \in DOMAIN batch.output : batch.output[k] = First + k - 1
      /\ pos \in 1..(Len(history) + 1)
      /\ TodoInv /\ BatchInv /\ OrderInv
  BY <1>1 DEF IInv, ServiceInv, PlaceInv, BatchInv, PosInv
<1>3. /\ Len(history) \in Nat /\ DOMAIN history = 1..Len(history)
      /\ Len(batch.output) \in Nat /\ DOMAIN batch.output = 1..Len(batch.output)
      /\ pos \in Nat
  BY <1>2, LenProperties DEF IsSeq
<1>4. /\ 1 \in DOMAIN todo /\ p = todo[1]
      /\ IsSeq(todo') /\ Len(todo) \in Nat /\ DOMAIN todo = 1..Len(todo)
      /\ DOMAIN todo' = 1..(Len(todo) - 1)
      /\ \A k \in DOMAIN todo' : k + 1 \in DOMAIN todo /\ todo'[k] = todo[k + 1]
  BY <1>2, HeadAndTail
<1> HIDE DEF p
<1>5. Elems(todo) = {p} \cup Elems(todo')
  <2>1. ASSUME NEW k \in DOMAIN todo PROVE todo[k] = p \/ todo[k] \in Elems(todo')
    <3>1. CASE k = 1
      BY <1>4, <3>1
    <3>2. CASE k # 1
      <4>1. k - 1 \in DOMAIN todo' /\ (k - 1) + 1 = k
        BY <1>4, <3>2
      <4>2. todo'[k - 1] = todo[k]
        BY <1>4, <4>1
      <4> QED BY <4>1, <4>2 DEF Elems
    <3> QED BY <3>1, <3>2
  <2>2. p \in Elems(todo) /\ \A k \in DOMAIN todo' : todo'[k] \in Elems(todo)
    BY <1>4 DEF Elems
  <2> QED BY <2>1, <2>2 DEF Elems
<1>6. Pending = {p} \cup Pending'
  BY <1>5 DEF Pending
<1>7. p \in 1..(pos - 1) /\ p \in DOMAIN history
  <2>1. CASE phase = "input"
    BY <1>2, <1>3, <1>4, <2>1 DEF TodoInv
  <2>2. CASE phase = "output"
    <3>1. p = pos - Len(todo) /\ Len(todo) <= Len(batch.output)
      BY <1>2, <1>3, <1>4, <2>2 DEF TodoInv
    <3>2. First = pos - Len(batch.output)
      BY DEF First
    <3>3. \E s \in DOMAIN history : First = s + 1 \/ First = s + 2
      BY <1>1, <1>2 DEF BatchInv
    <3>4. First >= 1 /\ First \in Nat
      BY <1>2, <1>3, <3>3
    <3> DEFINE n == Len(todo)
               m == Len(batch.output)
    <3>5. n \in Nat /\ n >= 1 /\ m \in Nat /\ n <= m /\ p = pos - n /\ First = pos - m
      BY <1>3, <1>4, <3>1, <3>2
    <3> HIDE DEF n, m
    <3>6. p \in 1..(pos - 1)
      BY <1>3, <3>4, <3>5
    <3> QED BY <1>2, <1>3, <3>6
  <2> QED BY <2>1, <2>2
<1>8. ASSUME HasHandler(p), NEW q \in Pending' PROVE p # q /\ (HasHandler(q) => p < q)
  <2>1. CASE phase = "input" /\ q \in Elems(todo')
    <3>1. PICK k \in DOMAIN todo' : q = todo'[k]
      BY <2>1 DEF Elems
    <3>2. k + 1 \in DOMAIN todo /\ q = todo[k + 1] /\ 1 < k + 1
      BY <1>4, <3>1
    <3>3. p < q
      BY <1>2, <1>4, <1>8, <2>1, <3>2 DEF TodoInv
    <3> QED BY <1>7, <3>3
  <2>2. CASE phase = "input" /\ q \in Elems(batch.output)
    <3>1. p < First
      BY <1>2, <1>4, <1>8, <2>2 DEF TodoInv
    <3>2. PICK k \in DOMAIN batch.output : q = batch.output[k]
      BY <2>2 DEF Elems
    <3>3. q = First + k - 1 /\ k \in 1..Len(batch.output)
      BY <1>2, <1>3, <3>2
    <3> QED BY <1>2, <1>3, <1>7, <3>1, <3>3
  <2>3. CASE phase = "output"
    <3>1. q \in Elems(todo')
      BY <2>3 DEF Pending
    <3>2. PICK k \in DOMAIN todo' : q = todo'[k]
      BY <3>1 DEF Elems
    <3>3. q = todo[k + 1] /\ k + 1 \in DOMAIN todo
      BY <1>4, <3>2
    <3>4. q = pos - Len(todo) + (k + 1) - 1 /\ p = pos - Len(todo) + 1 - 1
      BY <1>2, <1>4, <2>3, <3>3 DEF TodoInv
    <3> QED BY <1>3, <1>4, <3>2, <3>4
  <2> QED BY <2>1, <2>2, <2>3 DEF Pending
<1>9. TodoInv'
  <2>1. CASE phase = "input"
    <3>1. \A k \in DOMAIN todo' : todo'[k] \in 1..(pos - 1)
      BY <1>2, <1>4, <2>1 DEF TodoInv
    <3>2. ASSUME NEW k \in DOMAIN todo', HasHandler(todo'[k]), NEW l \in DOMAIN todo', k < l
          PROVE  todo'[k] < todo'[l]
      <4>1. k + 1 \in DOMAIN todo /\ l + 1 \in DOMAIN todo /\ k + 1 < l + 1
        BY <1>4, <3>2
      <4> QED BY <1>2, <1>4, <2>1, <3>2, <4>1 DEF TodoInv
    <3>3. \A k \in DOMAIN todo' : HasHandler(todo'[k]) => todo'[k] < First
      BY <1>2, <1>4, <2>1 DEF TodoInv
    <3>4. First' = First /\ \A i : HasHandler(i)' <=> HasHandler(i)
      BY DEF First, HasHandler
    <3> QED BY <2>1, <3>1, <3>2, <3>3, <3>4 DEF TodoInv
  <2>2. CASE phase = "output"
    <3>1. Len(todo') = Len(todo) - 1
      BY <1>4, LenProperties DEF IsSeq
    <3>2. /\ Len(todo) <= Len(batch.output)
          /\ \A k \in DOMAIN todo : todo[k] = pos - Len(todo) + k - 1
      BY <1>2, <2>2 DEF TodoInv
    <3>3. ASSUME NEW k \in DOMAIN todo' PROVE todo'[k] = pos - Len(todo') + k - 1
      <4>1. todo'[k] = pos - Len(todo) + (k + 1) - 1
        BY <1>4, <3>2
      <4> QED BY <1>3, <1>4, <3>1, <4>1
    <3>4. Len(todo') <= Len(batch'.output)
      BY <1>3, <1>4, <3>1, <3>2
    <3> QED BY <2>2, <3>3, <3>4 DEF TodoInv
  <2> QED BY <2>1, <2>2
<1>10. BatchInv'
  BY <1>1, <1>2, <1>4 DEF BatchInv, First
<1>11. PosInv'
  BY <1>2 DEF PosInv
<1>12. ASSUME HasHandler(p)
       PROVE  /\ Applied' = Applied \cup {p}
              /\ Applied = {i \in 1..(p - 1) : HasHandler(i)}
  <2>1. p \in Pending /\ p \notin Pending'
    BY <1>6, <1>8, <1>12
  <2>2. \A i \in Applied : i < p
    BY <1>2, <1>12, <2>1 DEF OrderInv
  <2>3. p \notin Applied
    BY <2>1 DEF Applied
  <2>4. Applied' = {i \in 1..(pos - 1) : HasHandler(i) /\ i \notin Pending'}
    BY DEF Applied, HasHandler
  <2>5. Applied' = Applied \cup {p}
    BY <1>6, <1>7, <1>12, <2>1, <2>4 DEF Applied
  <2>6. ASSUME NEW i \in 1..(p - 1), HasHandler(i) PROVE i \in Applied
    <3>1. i \notin Pending'
      BY <1>7, <1>8, <1>12, <2>6
    <3>2. i # p /\ i \in 1..(pos - 1)
      BY <1>3, <1>7
    <3> QED BY <1>6, <2>6, <3>1, <3>2 DEF Applied
  <2>7. ASSUME NEW i \in Applied PROVE i \in 1..(p - 1) /\ HasHandler(i)
    BY <1>3, <1>7, <2>2 DEF Applied
  <2> QED BY <2>5, <2>6, <2>7
<1>13. ASSUME ~HasHandler(p) PROVE Applied' = Applied
  <2>1. Applied' = {i \in 1..(pos - 1) : HasHandler(i) /\ i \notin Pending'}
    BY DEF Applied, HasHandler
  <2> QED BY <1>6, <1>13, <2>1 DEF Applied
<1>14. OrderInv'
  <2>1. ASSUME NEW i \in Applied', NEW q \in Pending', HasHandler(q) PROVE i < q
    <3>1. q \in Pending
      BY <1>6
    <3>2. CASE i \in Applied
      BY <1>2, <2>1, <3>1, <3>2 DEF OrderInv
    <3>3. CASE i \notin Applied
      <4>1. i = p /\ HasHandler(p)
        BY SMTT(30), <1>12, <1>13, <3>3
      <4> QED BY <1>8, <2>1, <4>1
    <3> QED BY <3>2, <3>3
  <2> QED BY <2>1 DEF OrderInv, HasHandler
<1> QED BY <1>7, <1>9, <1>10, <1>11, <1>12, <1>13, <1>14 DEF PlaceInv, p

-----------------------------------------------------------------------------
(* An event is handled                                                     *)

\* What the handlers do, by the kind of the event.
LEMMA HandlerTable ==
    ASSUME NEW type \in DOMAIN type_to_action
    PROVE  LET h == type_to_action[type]
           IN  /\ h.type \in {"ACTIVITY", "TIMER"}
               /\ h.type = "TIMER" <=> type \in {"TimerStarted", "TimerFired",
                                                 "TimerCanceled", "CancelTimerFailed"}
               /\ h.attr = IF type \in RefTypes THEN "ref" ELSE "id"
               /\ h.to \in {"keep", "RECORDED", "COMPLETED", "CANCELLATION_RECORDED"}
               /\ h.to = "keep" <=> type = "ActivityTaskStarted"
               /\ h.to = "COMPLETED" <=> type \in EndTypes
               /\ h.to = "CANCELLATION_RECORDED" <=> type = "ActivityTaskCancelRequested"
               /\ h.to = "RECORDED" <=>
                      type \in StartTypes \cup {"RequestCancelActivityTaskFailed", "CancelTimerFailed"}
               /\ h.future \in {"keep", "result", "exception", "cancelled"}
               /\ h.future # "keep" <=> type \in Resolvers
               /\ h.future = "cancelled" <=> type = "ActivityTaskCanceled"
<1>1. DOMAIN type_to_action =
          {"ActivityTaskScheduled", "ActivityTaskStarted", "ActivityTaskCompleted",
           "ActivityTaskFailed", "ActivityTaskTimedOut", "ActivityTaskCanceled",
           "ActivityTaskCancelRequested", "RequestCancelActivityTaskFailed",
           "TimerStarted", "TimerFired", "TimerCanceled", "CancelTimerFailed"}
  BY DEF type_to_action
<1> USE DEF type_to_action, Handler, RefTypes, EndTypes, StartTypes, Resolvers, activity_close_types
<1>2. CASE type \in {"ActivityTaskScheduled", "ActivityTaskStarted", "ActivityTaskCancelRequested",
                     "RequestCancelActivityTaskFailed"}
  BY <1>2
<1>3. CASE type \in activity_close_types
  BY <1>3
<1>4. CASE type \in {"TimerStarted", "TimerFired", "TimerCanceled", "CancelTimerFailed"}
  BY <1>4
<1> QED BY <1>1, <1>2, <1>3, <1>4

\* An event finds the machine of its activity or timer, and moves it alone.
LEMMA EventFindsItsMachine ==
    ASSUME IInv, NEW A, AliasesAgree(A), NEW p, HasHandler(p),
           handle_history_event(history[p], p), raised' = "none"
    PROVE  LET id == Subject(p)
               h  == type_to_action[history[p].type]
               byEvent == << "ACTIVITY", "ref", p >>
           IN  /\ id \in DOMAIN state_machines \ {COMPLETION_ID} /\ id.type = h.type
               /\ Resolvable(h, state_machines[id])
               /\ state_machines' = [state_machines EXCEPT ![id] = Handled(h, @)]
               /\ history[p].type \in RefTypes =>
                      /\ history[p].ref \in A
                      /\ history[history[p].ref].type = "ActivityTaskScheduled"
               /\ aliases' = IF history[p].type = "ActivityTaskScheduled"
                             THEN [a \in DOMAIN aliases \cup {byEvent} |->
                                       IF a = byEvent THEN id ELSE aliases[a]]
                             ELSE aliases
<1> DEFINE e == history[p]
           h == type_to_action[e.type]
           alias == << h.type, h.attr, e[h.attr] >>
           id == aliases[alias]
<1>1. /\ e.type \in DOMAIN type_to_action
      /\ alias \in DOMAIN aliases
      /\ Resolvable(h, state_machines[id])
      /\ state_machines' = [state_machines EXCEPT ![id] = Handled(h, @)]
      /\ aliases' = IF EventIdIsAlias(e.type)
                    THEN [a \in DOMAIN aliases \cup {<< h.type, "ref", p >>} |->
                              IF a = << h.type, "ref", p >> THEN id ELSE aliases[a]]
                    ELSE aliases
  BY SMTT(30) DEF handle_history_event, HasHandler
<1>2. /\ h.type \in {"ACTIVITY", "TIMER"}
      /\ h.type = "TIMER" <=> e.type \in {"TimerStarted", "TimerFired",
                                          "TimerCanceled", "CancelTimerFailed"}
      /\ h.attr = IF e.type \in RefTypes THEN "ref" ELSE "id"
  BY <1>1, HandlerTable
<1> HIDE DEF h
<1>3. id \in DOMAIN state_machines /\ id.type = h.type
  <2>1. AliasesResolve
    BY DEF IInv, ManagerInv, MachinesInv
  <2> QED BY <1>1, <2>1 DEF AliasesResolve
<1>4. id # COMPLETION_ID
  BY <1>2, <1>3 DEF COMPLETION_ID, DecisionId
<1>5. \/ alias = AliasOf(id)
      \/ /\ alias = << "ACTIVITY", "ref", alias[3] >>
         /\ alias[3] \in A
         /\ history[alias[3]].type = "ActivityTaskScheduled"
         /\ history[alias[3]].id = id
  BY <1>1 DEF AliasesAgree
<1>6. /\ id = Subject(p)
      /\ e.type \in RefTypes => e.ref \in A /\ history[e.ref].type = "ActivityTaskScheduled"
  <2>1. CASE e.type \in RefTypes
    <3>1. h.attr = "ref" /\ alias[2] = "ref" /\ alias[3] = e.ref
      BY <1>2, <2>1
    <3>2. alias # AliasOf(id)
      BY <3>1 DEF AliasOf
    <3> QED BY <1>5, <2>1, <3>1, <3>2 DEF Subject, SubjectIn
  <2>2. CASE e.type \notin RefTypes
    <3>1. h.attr = "id" /\ alias[2] = "id" /\ alias[3] = e.id
      BY <1>2, <2>2
    <3>2. alias = AliasOf(id)
      BY <1>5, <3>1
    <3> QED BY <2>2, <3>1, <3>2 DEF Subject, SubjectIn, AliasOf
  <2> QED BY <2>1, <2>2
<1>7. EventIdIsAlias(e.type) <=> e.type = "ActivityTaskScheduled"
  BY DEF EventIdIsAlias
<1>8. e.type = "ActivityTaskScheduled" => h.type = "ACTIVITY"
  BY <1>2
<1> HIDE DEF id
<1> QED BY SMTT(30), <1>1, <1>3, <1>4, <1>6, <1>7, <1>8 DEF h

\* The machines agree with one event more once it is handled.
LEMMA HandledAgrees ==
    ASSUME IInv, Written(history), NEW p \in DOMAIN history, HasHandler(p),
           NEW A, A = {i \in 1..(p - 1) : HasHandler(i)}, Agree(A),
           handle_history_event(history[p], p), raised' = "none",
           UNCHANGED history, task # "FatalDecisionError"
    PROVE  Agree(A \cup {p})'
<1> DEFINE e == history[p]
           h == type_to_action[e.type]
           B == A \cup {p}
<1>0. PICK id : id = Subject(p)
  OBVIOUS
<1>1. /\ id \in DOMAIN state_machines \ {COMPLETION_ID} /\ id.type = h.type
      /\ state_machines' = [state_machines EXCEPT ![id] = Handled(h, @)]
      /\ e.type \in RefTypes => e.ref \in A /\ history[e.ref].type = "ActivityTaskScheduled"
      /\ aliases' = IF e.type = "ActivityTaskScheduled"
                    THEN [a \in DOMAIN aliases \cup {<< "ACTIVITY", "ref", p >>} |->
                              IF a = << "ACTIVITY", "ref", p >> THEN id ELSE aliases[a]]
                    ELSE aliases
  <2>1. AliasesAgree(A)
    BY DEF Agree
  <2>2. /\ Subject(p) \in DOMAIN state_machines \ {COMPLETION_ID} /\ Subject(p).type = h.type
        /\ state_machines' = [state_machines EXCEPT ![Subject(p)] = Handled(h, @)]
        /\ e.type \in RefTypes => e.ref \in A /\ history[e.ref].type = "ActivityTaskScheduled"
        /\ aliases' = IF e.type = "ActivityTaskScheduled"
                      THEN [a \in DOMAIN aliases \cup {<< "ACTIVITY", "ref", p >>} |->
                                IF a = << "ACTIVITY", "ref", p >> THEN Subject(p) ELSE aliases[a]]
                      ELSE aliases
    BY <2>1, EventFindsItsMachine
  <2> HIDE DEF h
  <2> QED BY <1>0, <2>2
<1>2. /\ e.type \in DOMAIN type_to_action
      /\ h.to \in {"keep", "RECORDED", "COMPLETED", "CANCELLATION_RECORDED"}
      /\ h.to = "keep" <=> e.type = "ActivityTaskStarted"
      /\ h.to = "COMPLETED" <=> e.type \in EndTypes
      /\ h.to = "CANCELLATION_RECORDED" <=> e.type = "ActivityTaskCancelRequested"
      /\ h.to = "RECORDED" <=>
             e.type \in StartTypes \cup {"RequestCancelActivityTaskFailed", "CancelTimerFailed"}
      /\ h.type = "TIMER" <=> e.type \in {"TimerStarted", "TimerFired",
                                          "TimerCanceled", "CancelTimerFailed"}
  BY HandlerTable DEF HasHandler
<1>3. Follows(history, p - 1, e) /\ p \in Nat
  <2>1. p \in 1..Len(history)
    BY LenProperties DEF IInv, ServiceInv, IsSeq
  <2> QED BY <2>1 DEF Written
<1>4. \A i \in A : i \in 1..(p - 1) /\ i \in DOMAIN history
  <2>1. p \in 1..Len(history) /\ DOMAIN history = 1..Len(history) /\ Len(history) \in Nat
    BY LenProperties DEF IInv, ServiceInv, IsSeq
  <2> QED BY <2>1
<1>5. e.type \notin RefTypes => e.id = id
  BY <1>0 DEF Subject, SubjectIn
<1>6. \A i : Subject(i)' = Subject(i)
  BY DEF Subject, SubjectIn
<1>7. /\ DOMAIN state_machines' = DOMAIN state_machines
      /\ StateOf(id)' = IF h.to = "keep" THEN StateOf(id) ELSE h.to
      /\ \A j \in DOMAIN state_machines \ {id} : StateOf(j)' = StateOf(j)
  <2>1. MachineOK(state_machines[id])
    BY <1>1 DEF IInv, ManagerInv, MachinesInv
  <2> HIDE DEF h
  <2>2. state_machines'[id] = Handled(h, state_machines[id])
    BY <1>1
  <2>3. Handled(h, state_machines[id]).state = IF h.to = "keep" THEN state_machines[id].state ELSE h.to
    BY <2>1 DEF Handled, MachineOK
  <2> QED BY <1>1, <2>2, <2>3 DEF StateOf
<1>8. ASSUME NEW i \in A, history[i].type \in EndTypes, Subject(i) = id
      PROVE  h.to \in {"keep", "COMPLETED"}
  <2>1. i \in 1..(p - 1)
    BY <1>4
  <2>2. CASE e.type \in RefTypes
    BY <1>2, <2>2 DEF RefTypes, EndTypes
  <2>3. CASE e.type \notin RefTypes
    <3>1. SubjectIn(history, i) = e.id
      BY <1>5, <1>8, <2>3 DEF Subject
    <3>2. e.type \notin StartTypes \cup {"ActivityTaskCancelRequested", "RequestCancelActivityTaskFailed"}
      BY <1>3, <1>8, <2>1, <3>1 DEF Follows
    <3>3. e.type # "CancelTimerFailed"
      BY <1>3 DEF Follows
    <3> QED BY <1>2, <3>2, <3>3
  <2> QED BY <2>2, <2>3
<1>9. ASSUME h.to = "keep"
      PROVE  \E i \in A : history[i].type = "ActivityTaskScheduled" /\ Subject(i) = id
  <2>1. e.type \in RefTypes
    BY <1>2, <1>9 DEF RefTypes
  <2>2. id = history[e.ref].id /\ Subject(e.ref) = history[e.ref].id
    BY <1>0, <1>1, <2>1 DEF Subject, SubjectIn, RefTypes, activity_close_types
  <2> QED BY <1>1, <2>1, <2>2
<1>10. AliasesAgree(B)'
  <2>1. ASSUME e.type = "ActivityTaskScheduled" PROVE e.id = id
    BY <1>5, <2>1 DEF RefTypes, activity_close_types
  <2>2. ASSUME NEW a \in DOMAIN aliases'
        PROVE  \/ a = AliasOf(aliases'[a])
               \/ /\ a = << "ACTIVITY", "ref", a[3] >>
                  /\ a[3] \in B
                  /\ history[a[3]].type = "ActivityTaskScheduled"
                  /\ history[a[3]].id = aliases'[a]
    <3>1. CASE e.type = "ActivityTaskScheduled" /\ a = << "ACTIVITY", "ref", p >>
      <4>1. aliases'[a] = id /\ a[3] = p
        BY <1>1, <3>1
      <4> QED BY <2>1, <3>1, <4>1
    <3>2. CASE ~(e.type = "ActivityTaskScheduled" /\ a = << "ACTIVITY", "ref", p >>)
      <4>1. a \in DOMAIN aliases /\ aliases'[a] = aliases[a]
        BY <1>1, <2>2, <3>2
      <4> QED BY <4>1 DEF Agree, AliasesAgree
    <3> QED BY <3>1, <3>2
  <2> QED BY <2>2 DEF AliasesAgree
<1> HIDE DEF h
<1>11. EventsAgree(B)'
  <2>1. ASSUME NEW i \in B, NEW s, s = Subject(i)
        PROVE  /\ s \in DOMAIN state_machines \ {COMPLETION_ID}
               /\ s.type = type_to_action[history[i].type].type
               /\ StateOf(s)' \notin {"REQUESTED", "CANCELED_AFTER_REQUESTED"}
               /\ history[i].type \in EndTypes => StateOf(s)' = "COMPLETED"
               /\ history[i].type = "ActivityTaskCancelRequested" =>
                     \/ StateOf(s)' \in {"CANCELLATION_RECORDED", "COMPLETED"}
                     \/ /\ StateOf(s)' = "RECORDED"
                        /\ \E j \in B : /\ history[j].type = "RequestCancelActivityTaskFailed"
                                        /\ history[j].id = history[i].id
    <3>1. CASE i \in A /\ s # id
      BY <1>7, <2>1, <3>1 DEF Agree, EventsAgree
    <3>2. CASE i \in A /\ s = id
      <4>1. StateOf(id)' \notin {"REQUESTED", "CANCELED_AFTER_REQUESTED"}
        BY <1>2, <1>7, <2>1, <3>2 DEF Agree, EventsAgree
      <4>2. ASSUME history[i].type \in EndTypes PROVE StateOf(id)' = "COMPLETED"
        <5>1. h.to \in {"keep", "COMPLETED"}
          BY <1>8, <2>1, <3>2, <4>2
        <5>2. StateOf(id) = "COMPLETED"
          BY <2>1, <3>2, <4>2 DEF Agree, EventsAgree
        <5> QED BY <1>7, <5>1, <5>2
      <4>3. ASSUME history[i].type = "ActivityTaskCancelRequested"
            PROVE  \/ StateOf(id)' \in {"CANCELLATION_RECORDED", "COMPLETED"}
                   \/ /\ StateOf(id)' = "RECORDED"
                      /\ \E j \in B : /\ history[j].type = "RequestCancelActivityTaskFailed"
                                      /\ history[j].id = history[i].id
        <5>1. CASE h.to = "keep"
          BY ZenonT(40), <1>7, <2>1, <3>2, <4>3, <5>1 DEF Agree, EventsAgree
        <5>2. CASE h.to \in {"CANCELLATION_RECORDED", "COMPLETED"}
          BY <1>7, <5>2
        <5>3. CASE h.to = "RECORDED"
          <6>1. history[i].id = id /\ id.type = "ACTIVITY"
            BY <2>1, <3>2, <4>3 DEF Agree, EventsAgree, Subject, SubjectIn, RefTypes, activity_close_types,
                              type_to_action, Handler
          <6>2. e.type \in {"ActivityTaskScheduled", "RequestCancelActivityTaskFailed"}
            BY <1>1, <1>2, <5>3, <6>1 DEF StartTypes
          <6>3. e.id = id
            BY <1>5, <6>2 DEF RefTypes, activity_close_types
          <6>4. e.type # "ActivityTaskScheduled"
            <7>1. ASSUME e.type = "ActivityTaskScheduled" PROVE FALSE
              <8>1. i \in DOMAIN history /\ i \in 1..(p - 1) /\ Follows(history, i - 1, history[i])
                BY <1>4, <3>2 DEF Written
              <8>2. PICK k \in 1..(i - 1) :
                        history[k].type = "ActivityTaskScheduled" /\ history[k].id = history[i].id
                BY <4>3, <8>1 DEF Follows, CancelTypes
              <8>3. k \in 1..(p - 1)
                BY <1>3, <8>1
              <8> QED BY <1>3, <6>1, <6>3, <7>1, <8>2, <8>3 DEF Follows, decision_event_types
            <7> QED BY <7>1
          <6> QED BY <1>7, <5>3, <6>1, <6>2, <6>3, <6>4
        <5> QED BY <1>2, <5>1, <5>2, <5>3
      <4>4. id.type = type_to_action[history[i].type].type
        BY <2>1, <3>2 DEF Agree, EventsAgree
      <4> QED BY <1>1, <3>2, <4>1, <4>2, <4>3, <4>4
    <3>3. CASE i = p
      <4>1. StateOf(id)' \notin {"REQUESTED", "CANCELED_AFTER_REQUESTED"}
        <5>1. CASE h.to = "keep"
          BY <1>7, <1>9, <5>1 DEF Agree, EventsAgree
        <5>2. CASE h.to # "keep"
          BY <1>2, <1>7, <5>2
        <5> QED BY <5>1, <5>2
      <4> QED BY <1>0, <1>1, <1>2, <1>7, <2>1, <3>3, <4>1 DEF h
    <3> QED BY <3>1, <3>2, <3>3
  <2> QED BY <1>6, <1>7, <2>1 DEF EventsAgree
<1>12. StatesAgree(B)'
  <2>1. ASSUME NEW j \in DOMAIN state_machines \ {COMPLETION_ID},
               StateOf(j)' \notin {"REQUESTED", "CANCELED_AFTER_REQUESTED"}
        PROVE  \E i \in B : history[i].type \in StartTypes /\ history[i].id = j
    <3>1. CASE j # id \/ h.to = "keep"
      BY <1>7, <2>1, <3>1 DEF Agree, StatesAgree
    <3>2. CASE j = id /\ e.type \in StartTypes
      BY <1>5, <3>2 DEF StartTypes, RefTypes, activity_close_types
    <3>3. CASE j = id /\ e.type \in RefTypes
      <4>1. history[e.ref].id = id
        BY <1>0, <3>3 DEF Subject, SubjectIn
      <4> QED BY <1>1, <3>3, <4>1 DEF StartTypes
    <3>4. CASE j = id /\ e.type \in {"TimerFired", "TimerCanceled", "ActivityTaskCancelRequested",
                                     "RequestCancelActivityTaskFailed"}
      <4>1. e.id = id
        BY <1>5, <3>4 DEF RefTypes, activity_close_types
      <4>2. ASSUME NEW k \in 1..(p - 1), history[k].type \in StartTypes PROVE k \in A
        BY <4>2 DEF HasHandler, type_to_action, StartTypes
      <4>3. \E k \in 1..(p - 1) : history[k].type \in StartTypes /\ history[k].id = id
        <5>1. CASE e.type = "TimerFired"
          BY <1>3, <4>1, <5>1 DEF Follows, StartTypes
        <5>2. CASE e.type \in CancelTypes
          BY <1>3, <4>1, <5>2 DEF Follows, StartTypes, CancelTypes
        <5>3. CASE e.type = "RequestCancelActivityTaskFailed"
          <6>1. PICK k \in 1..(p - 1) :
                    history[k].type = "ActivityTaskCancelRequested" /\ history[k].id = id
            BY <1>3, <4>1, <5>3 DEF Follows
          <6>2. k \in DOMAIN history /\ k \in Nat
            <7>1. p \in 1..Len(history) /\ DOMAIN history = 1..Len(history) /\ Len(history) \in Nat
              BY LenProperties DEF IInv, ServiceInv, IsSeq
            <7> QED BY <7>1
          <6>3. Follows(history, k - 1, history[k])
            BY <6>2 DEF Written
          <6>4. PICK l \in 1..(k - 1) :
                    history[l].type = "ActivityTaskScheduled" /\ history[l].id = id
            BY <6>1, <6>3 DEF Follows, CancelTypes
          <6> QED BY <1>3, <6>2, <6>4 DEF StartTypes
        <5> QED BY <3>4, <5>1, <5>2, <5>3 DEF CancelTypes
      <4> QED BY <3>4, <4>2, <4>3
    <3> QED
      <4>1. e.type # "CancelTimerFailed"
        BY <1>3 DEF Follows
      <4>2. e.type \in StartTypes \cup RefTypes \cup
                {"TimerFired", "TimerCanceled", "ActivityTaskCancelRequested",
                 "RequestCancelActivityTaskFailed"}
        BY <1>2, <4>1 DEF type_to_action, StartTypes, RefTypes, activity_close_types
      <4> QED BY <3>1, <3>2, <3>3, <3>4, <4>2
  <2>2. ASSUME NEW j \in DOMAIN state_machines \ {COMPLETION_ID}, StateOf(j)' = "CANCELED_AFTER_REQUESTED"
        PROVE  ImmediateCancel
    <3>1. StateOf(j) = "CANCELED_AFTER_REQUESTED"
      BY SMTT(30), <1>2, <1>7, <2>2
    <3> QED BY <3>1 DEF Agree, StatesAgree
  <2> QED BY <1>7, <2>1, <2>2 DEF StatesAgree
<1> QED BY <1>10, <1>11, <1>12 DEF Agree

-----------------------------------------------------------------------------
(* A call is made                                                          *)

\* What touches no machine leaves the agreement.
LEMMA MachinesAgreeStill ==
    ASSUME NEW A, Agree(A), UNCHANGED << history, state_machines, aliases >>,
           task = "FatalDecisionError" => task' = "FatalDecisionError"
    PROVE  Agree(A)'
BY DEF Agree, AliasesAgree, EventsAgree, StatesAgree, Subject, SubjectIn, StateOf

\* A machine is new to every event that was handled.
LEMMA AddAgrees ==
    ASSUME NEW A, Agree(A), NEW id, NEW m, m.state = "REQUESTED", Add(id, m), UNCHANGED history,
           task = "FatalDecisionError" => task' = "FatalDecisionError"
    PROVE  Agree(A)'
<1>1. CASE UNCHANGED << state_machines, aliases >>
  BY <1>1, MachinesAgreeStill
<1>2. CASE /\ id \notin DOMAIN state_machines
           /\ state_machines' = [i \in DOMAIN state_machines \cup {id} |->
                                     IF i = id THEN m ELSE state_machines[i]]
           /\ aliases' = [a \in DOMAIN aliases \cup {AliasOf(id)} |->
                              IF a = AliasOf(id) THEN id ELSE aliases[a]]
  <2>1. /\ DOMAIN state_machines' = DOMAIN state_machines \cup {id}
        /\ StateOf(id)' = "REQUESTED"
        /\ \A j \in DOMAIN state_machines : j # id /\ StateOf(j)' = StateOf(j)
    BY <1>2 DEF StateOf
  <2>2. \A i : Subject(i)' = Subject(i)
    BY DEF Subject, SubjectIn
  <2>3. AliasesAgree(A)'
    <3>1. ASSUME NEW a \in DOMAIN aliases'
          PROVE  \/ a = AliasOf(aliases'[a])
                 \/ /\ a = << "ACTIVITY", "ref", a[3] >>
                    /\ a[3] \in A
                    /\ history[a[3]].type = "ActivityTaskScheduled"
                    /\ history[a[3]].id = aliases'[a]
      <4>1. CASE a = AliasOf(id)
        BY <1>2, <4>1
      <4>2. CASE a # AliasOf(id)
        <5>1. a \in DOMAIN aliases /\ aliases'[a] = aliases[a]
          BY <1>2, <3>1, <4>2
        <5> QED BY <5>1 DEF Agree, AliasesAgree
      <4> QED BY <4>1, <4>2
    <3> QED BY <3>1 DEF AliasesAgree
  <2>4. EventsAgree(A)'
    <3>1. ASSUME NEW i \in A, NEW s, s = Subject(i)
          PROVE  s \in DOMAIN state_machines /\ StateOf(s)' = StateOf(s)
      BY <2>1, <3>1 DEF Agree, EventsAgree
    <3> QED BY <2>1, <2>2, <3>1 DEF Agree, EventsAgree
  <2>5. StatesAgree(A)'
    BY <2>1 DEF Agree, StatesAgree
  <2> QED BY <2>3, <2>4, <2>5 DEF Agree
<1> QED BY <1>1, <1>2 DEF Add

\* An activity or a timer is requested, or refused by the tracker.
LEMMA RequestAgrees ==
    ASSUME NEW A, Agree(A), NEW type, NEW props, NEW request, Request(type, props, request),
           UNCHANGED history, task = "FatalDecisionError" => task' = "FatalDecisionError"
    PROVE  Agree(A)'
<1>1. PICK id : id = DecisionId(type, id_counter)
  OBVIOUS
<1>2. CASE Add(id, Machine(props, request))
  <2>1. PICK m : m = Machine(props, request)
    OBVIOUS
  <2>2. m.state = "REQUESTED" /\ Add(id, m)
    BY <1>2, <2>1 DEF Machine
  <2> QED BY <2>2, AddAgrees
<1>3. CASE UNCHANGED << state_machines, aliases >>
  BY <1>3, MachinesAgreeStill
<1> QED BY <1>1, <1>2, <1>3 DEF Request

\* The workflow is completed, which no event is about.
LEMMA CompleteWorkflowAgrees ==
    ASSUME NEW A, Agree(A), NEW outcome, complete_workflow(outcome), UNCHANGED << history, task >>
    PROVE  Agree(A)'
<1>1. CASE Add(COMPLETION_ID, CompletionMachine(outcome))
  <2>1. PICK m : m = CompletionMachine(outcome)
    OBVIOUS
  <2>2. m.state = "REQUESTED" /\ Add(COMPLETION_ID, m)
    BY <1>1, <2>1 DEF CompletionMachine
  <2>3. PICK id : id = COMPLETION_ID
    OBVIOUS
  <2> QED BY <2>2, <2>3, AddAgrees
<1>2. CASE UNCHANGED << state_machines, aliases >>
  BY <1>2, MachinesAgreeStill
<1> QED BY <1>1, <1>2 DEF complete_workflow

\* What is cancelled is not over, and its cancellation was not recorded: it
\* may have been refused, but then the end it came too late for was handled.
LEMMA RequestCancelAgrees ==
    ASSUME IInv, NEW A, Agree(A), NEW id, request_cancel(id), UNCHANGED history,
           task = "FatalDecisionError" => task' = "FatalDecisionError",
           StateOf(id) = "REQUESTED" => ImmediateCancel \/ task' = "FatalDecisionError",
           \A j \in A : history[j].type = "RequestCancelActivityTaskFailed" =>
               \E k \in A : history[k].type \in EndTypes /\ Subject(k) = history[j].id
    PROVE  Agree(A)'
<1>1. CASE ~Cancellable(state_machines[id])
  BY <1>1, MachinesAgreeStill DEF request_cancel
<1>2. CASE Cancellable(state_machines[id])
  <2>1. /\ id \in DOMAIN state_machines \ {COMPLETION_ID}
        /\ state_machines' = [state_machines EXCEPT ![id] = CancelRequested(id.type, @)]
        /\ StateOf(id) \in {"REQUESTED", "RECORDED"}
        /\ UNCHANGED aliases
    BY <1>2 DEF request_cancel, Cancellable, StateOf
  <2>2. /\ DOMAIN state_machines' = DOMAIN state_machines
        /\ StateOf(id)' = IF StateOf(id) = "REQUESTED" THEN "CANCELED_AFTER_REQUESTED"
                          ELSE "CANCELED_AFTER_RECORDED"
        /\ \A j \in DOMAIN state_machines \ {id} : StateOf(j)' = StateOf(j)
    <3>1. MachineOK(state_machines[id])
      BY <2>1 DEF IInv, ManagerInv, MachinesInv
    <3>2. CancelRequested(id.type, state_machines[id]).state =
              IF state_machines[id].state = "REQUESTED" THEN "CANCELED_AFTER_REQUESTED"
              ELSE "CANCELED_AFTER_RECORDED"
      BY <3>1 DEF CancelRequested, MachineOK
    <3>3. state_machines'[id] = CancelRequested(id.type, state_machines[id])
      BY <2>1
    <3> QED BY <2>1, <3>2, <3>3 DEF StateOf
  <2>3. \A i : Subject(i)' = Subject(i)
    BY DEF Subject, SubjectIn
  <2>4. AliasesAgree(A)'
    BY <2>1 DEF Agree, AliasesAgree
  <2>5. EventsAgree(A)'
    <3>1. ASSUME NEW i \in A, NEW s, s = Subject(i)
          PROVE  /\ s \in DOMAIN state_machines \ {COMPLETION_ID}
                 /\ s.type = type_to_action[history[i].type].type
                 /\ StateOf(s)' \notin {"REQUESTED", "CANCELED_AFTER_REQUESTED"}
                 /\ history[i].type \in EndTypes => StateOf(s)' = "COMPLETED"
                 /\ history[i].type = "ActivityTaskCancelRequested" =>
                        \/ StateOf(s)' \in {"CANCELLATION_RECORDED", "COMPLETED"}
                        \/ /\ StateOf(s)' = "RECORDED"
                           /\ \E j \in A : /\ history[j].type = "RequestCancelActivityTaskFailed"
                                           /\ history[j].id = history[i].id
      <4>1. CASE s # id
        BY <2>2, <3>1, <4>1 DEF Agree, EventsAgree
      <4>2. CASE s = id
        <5>1. StateOf(id) = "RECORDED"
          BY <2>1, <3>1, <4>2 DEF Agree, EventsAgree
        <5>2. \A k \in A : history[k].type \in EndTypes => Subject(k) # id
          BY <5>1 DEF Agree, EventsAgree
        <5>3. history[i].type # "ActivityTaskCancelRequested"
          <6>1. ASSUME history[i].type = "ActivityTaskCancelRequested" PROVE FALSE
            <7>1. PICK j \in A : /\ history[j].type = "RequestCancelActivityTaskFailed"
                                 /\ history[j].id = history[i].id
              BY <3>1, <4>2, <5>1, <6>1 DEF Agree, EventsAgree
            <7>2. history[i].id = id
              BY <3>1, <4>2, <6>1 DEF Subject, SubjectIn, RefTypes, activity_close_types
            <7> QED BY <5>2, <7>1, <7>2
          <6> QED BY <6>1
        <5>4. /\ s \in DOMAIN state_machines \ {COMPLETION_ID}
              /\ s.type = type_to_action[history[i].type].type
          BY <3>1 DEF Agree, EventsAgree
        <5> QED BY <2>2, <3>1, <4>2, <5>1, <5>2, <5>3, <5>4
      <4> QED BY <4>1, <4>2
    <3> QED BY <2>2, <2>3, <3>1 DEF EventsAgree
  <2>6. StatesAgree(A)'
    <3>1. ASSUME NEW j \in DOMAIN state_machines \ {COMPLETION_ID}
          PROVE  /\ StateOf(j)' \notin {"REQUESTED", "CANCELED_AFTER_REQUESTED"} =>
                       \E i \in A : history[i].type \in StartTypes /\ history[i].id = j
                 /\ StateOf(j)' = "CANCELED_AFTER_REQUESTED" =>
                       ImmediateCancel \/ task' = "FatalDecisionError"
      <4>1. CASE j # id
        BY <2>2, <4>1 DEF Agree, StatesAgree
      <4>2. CASE j = id
        BY <2>1, <2>2, <4>2 DEF Agree, StatesAgree
      <4> QED BY <4>1, <4>2
    <3> QED BY <2>2, <3>1 DEF StatesAgree
  <2> QED BY <2>4, <2>5, <2>6 DEF Agree
<1> QED BY <1>1, <1>2

\* Of two tasks the events of the first were handled when the workflow runs
\* in the second.
LEMMA EarlierIsApplied ==
    ASSUME IInv, PlaceInv, phase \in {"run", "complete", "end"},
           NEW p \in Nat, NEW s \in 1..p, NEW i \in 1..s, HasHandler(i), history[s].type = "DecisionTaskStarted",
           p < First \/ p \in Elems(batch.output)
    PROVE  i \in Applied
<1>1. /\ InBatch /\ phase \in EnginePhases /\ Pending = Elems(batch.output)
  BY DEF InBatch, EnginePhases, Pending
<1>2. /\ IsSeq(batch.output) /\ First \in Nat
      /\ \A k \in DOMAIN batch.output :
             batch.output[k] = First + k - 1 /\ is_decision_event(history[First + k - 1])
      /\ pos \in 1..(Len(history) + 1)
  BY <1>1 DEF PlaceInv, BatchInv, PosInv
<1>3. /\ Len(batch.output) \in Nat /\ DOMAIN batch.output = 1..Len(batch.output)
      /\ Len(history) \in Nat /\ pos \in Nat /\ First = pos - Len(batch.output)
  BY <1>2, LenProperties DEF IInv, ServiceInv, IsSeq, First
<1>4. PICK r \in DOMAIN history : First = r + 1 \/ First = r + 2
  BY <1>1 DEF PlaceInv, BatchInv
<1>5. s < First
  <2>1. CASE p < First
    <3> QED BY <1>2, <2>1
  <2>2. CASE p \in Elems(batch.output)
    <3>1. PICK k \in DOMAIN batch.output : p = First + k - 1
      BY <1>2, <2>2 DEF Elems
    <3>2. ASSUME ~(s < First) PROVE FALSE
      <4>1. s - First + 1 \in DOMAIN batch.output /\ First + (s - First + 1) - 1 = s
        <5>1. s >= First /\ s <= First + k - 1 /\ k \in 1..Len(batch.output)
          BY SMTT(30), <1>2, <1>3, <3>1, <3>2
        <5>2. First \in Nat /\ s \in Nat /\ Len(batch.output) \in Nat
          BY <1>2, <1>3
        <5>3. s - First + 1 \in 1..Len(batch.output) /\ First + (s - First + 1) - 1 = s
          BY <5>1, <5>2
        <5> QED BY <1>3, <5>3
      <4>2. is_decision_event(history[s])
        BY <1>2, <4>1
      <4> QED BY <4>2 DEF is_decision_event, decision_event_types
    <3> QED BY <3>2
  <2> QED BY <2>1, <2>2
<1>6. i < First /\ i \in 1..(pos - 1)
  BY SMTT(30), <1>2, <1>3, <1>5
<1>7. i \notin Elems(batch.output)
  <2>1. \A k \in DOMAIN batch.output : i # batch.output[k]
    BY SMTT(30), <1>2, <1>3, <1>6
  <2> QED BY <2>1 DEF Elems
<1> QED BY <1>1, <1>6, <1>7 DEF Applied

-----------------------------------------------------------------------------
(* The engine's state, whatever the workflow and the service do            *)

\* The engine's place, and its machines there.
EngineStateInv == PlaceInv /\ AgreeInv /\ FatalInv /\ IdleInv /\ CompletionRequest

\* The end that a refused cancellation came too late for was handled.
LEMMA RefusalsEnded ==
    ASSUME IInv, HistoryInv, PlaceInv, phase \in {"run", "complete", "end"}
    PROVE  \A j \in Applied : history[j].type = "RequestCancelActivityTaskFailed" =>
               \E k \in Applied : history[k].type \in EndTypes /\ Subject(k) = history[j].id
<1> SUFFICES ASSUME NEW j \in Applied, history[j].type = "RequestCancelActivityTaskFailed"
             PROVE  \E k \in Applied : history[k].type \in EndTypes /\ Subject(k) = history[j].id
  OBVIOUS
<1>1. /\ InBatch /\ phase \in EnginePhases /\ Pending = Elems(batch.output)
  BY DEF InBatch, EnginePhases, Pending
<1>2. /\ IsSeq(batch.output) /\ First \in Nat
      /\ \A k \in DOMAIN batch.output : batch.output[k] = First + k - 1
      /\ pos \in 1..(Len(history) + 1)
  BY <1>1 DEF PlaceInv, BatchInv, PosInv
<1>3. /\ Len(batch.output) \in Nat /\ DOMAIN batch.output = 1..Len(batch.output)
      /\ Len(history) \in Nat /\ DOMAIN history = 1..Len(history)
      /\ pos \in Nat /\ First = pos - Len(batch.output)
  BY <1>2, LenProperties DEF IInv, ServiceInv, IsSeq, First
<1>4. PICK r \in DOMAIN history :
          /\ history[r].type = "DecisionTaskStarted"
          /\ \/ First = r + 1
             \/ First = r + 2 /\ history[r + 1].type = "DecisionTaskCompleted"
  BY <1>1 DEF PlaceInv, BatchInv
<1>5. j \in 1..(pos - 1) /\ j \notin Elems(batch.output) /\ j \in Nat
  BY <1>1, <1>3 DEF Applied
<1>6. j < First
  <2>1. ASSUME ~(j < First) PROVE FALSE
    <3>1. j - First + 1 \in DOMAIN batch.output /\ First + (j - First + 1) - 1 = j
      <4>1. /\ First \in Nat /\ j \in Nat /\ Len(batch.output) \in Nat /\ pos \in Nat
            /\ j >= First /\ j <= pos - 1 /\ First = pos - Len(batch.output)
        BY <1>2, <1>3, <1>5, <2>1
      <4> DEFINE n == Len(batch.output)
                 f == First
      <4>2. f \in Nat /\ n \in Nat /\ j \in Nat /\ pos \in Nat /\ j >= f /\ j <= pos - 1 /\ f = pos - n
        BY <4>1
      <4> HIDE DEF n, f
      <4>3. j - f + 1 \in 1..n /\ f + (j - f + 1) - 1 = j
        BY <4>2
      <4> QED BY <1>3, <4>3 DEF f, n
    <3>2. batch.output[j - First + 1] = j
      BY <1>2, <3>1
    <3> QED BY <1>5, <3>1, <3>2 DEF Elems
  <2> QED BY <2>1
<1>7. j < r
  <2>1. \/ j # r /\ j # r + 1
        \/ First = r + 1 /\ j # r
    BY <1>4
  <2> QED BY SMTT(30), <1>2, <1>3, <1>4, <1>5, <1>6, <2>1
<1>8. PICK k \in DOMAIN history :
          /\ j < k
          /\ history[k].type \in activity_close_types
          /\ SubjectIn(history, k) = history[j].id
          /\ \A s \in j..k : history[s].type # "DecisionTaskStarted"
  <2>1. j \in DOMAIN history
    BY <1>2, <1>3, <1>5
  <2>2. Answered(history, j)
    BY <2>1 DEF HistoryInv, RefusedInv
  <2> QED BY <2>2 DEF Answered
<1>9. k < r
  <2>1. r \notin j..k
    BY <1>4, <1>8
  <2> QED BY <1>3, <1>5, <1>7, <1>8, <2>1
<1>10. HasHandler(k)
  BY <1>8 DEF HasHandler, type_to_action, activity_close_types
<1>11. k \in Applied
  <2>1. r \in Nat /\ r \in 1..r /\ k \in 1..r /\ r < First
    BY <1>3, <1>4, <1>8, <1>9
  <2> QED BY <1>4, <1>10, <2>1, EarlierIsApplied
<1> QED BY <1>8, <1>11 DEF EndTypes, Subject

\* An agreement about what is handled next is one about what was handled.
LEMMA AgreesNext ==
    ASSUME NEW A, Applied' = A, Agree(A)'
    PROVE  AgreeInv'
BY DEF AgreeInv, Agree, AliasesAgree, EventsAgree, StatesAgree

\* What the workflow calls, and what is cancelled when it fails.
LEMMA WorkflowKeepsPlace ==
    ASSUME IInv, HistoryInv, EngineStateInv, WorkflowNext
    PROVE  EngineStateInv'
<1>1. /\ phase = "run" /\ phase' \in {"run", "complete"}
      /\ UNCHANGED << serviceVars, pos, batch, todo, replaying >>
  <2>1. ASSUME NEW t \in ActivityTypes, ExecuteActivity(t)
        PROVE  phase = "run" /\ UNCHANGED << phase, serviceVars, pos, batch, todo, replaying >>
    BY <2>1 DEF ExecuteActivity, Calls, schedule_activity, Request
  <2>2. ASSUME StartTimer
        PROVE  phase = "run" /\ UNCHANGED << phase, serviceVars, pos, batch, todo, replaying >>
    BY <2>2 DEF StartTimer, Calls, start_timer, Request
  <2>3. ASSUME NEW id \in DOMAIN state_machines, CancelFuture(id)
        PROVE  phase = "run" /\ UNCHANGED << phase, serviceVars, pos, batch, todo, replaying >>
    BY <2>3 DEF CancelFuture, Calls, request_cancel
  <2>4. ASSUME NEW id \in DOMAIN state_machines, AutomaticCancel(id)
        PROVE  phase = "run" /\ UNCHANGED << phase, serviceVars, pos, batch, todo, replaying >>
    BY <2>4 DEF AutomaticCancel, request_cancel, engineVars
  <2>5. ASSUME NEW outcome, Ends(outcome)
        PROVE  phase = "run" /\ UNCHANGED << phase, serviceVars, pos, batch, todo, replaying >>
    BY <2>5 DEF Ends, Calls, managerVars
  <2>6. ASSUME Yield
        PROVE  /\ phase = "run" /\ phase' = "complete"
               /\ UNCHANGED << serviceVars, pos, batch, todo, replaying >>
    BY <2>6 DEF Yield, managerVars
  <2>7. ASSUME RejectionUnwinds
        PROVE  phase = "run" /\ UNCHANGED << phase, serviceVars, pos, batch, todo, replaying >>
    BY <2>7 DEF RejectionUnwinds, managerVars
  <2> QED BY <2>1, <2>2, <2>3, <2>4, <2>5, <2>6, <2>7 DEF WorkflowNext, Return, continue_as_new
<1>2. PlaceInv' /\ Applied' = Applied
  <2>1. PlaceInv /\ UNCHANGED history
    BY <1>1 DEF EngineStateInv, serviceVars
  <2> QED BY <1>1, <2>1, BatchGoesOn
<1>3. PICK A : A = Applied
  OBVIOUS
<1>4. Agree(A) /\ UNCHANGED history
  <2>1. AgreeInv /\ phase \in EnginePhases
    BY <1>1 DEF EngineStateInv, EnginePhases
  <2> QED BY <1>1, <1>3, <2>1 DEF AgreeInv, Agree, AliasesAgree, EventsAgree, StatesAgree, serviceVars
<1>5. \A j \in A : history[j].type = "RequestCancelActivityTaskFailed" =>
          \E k \in A : history[k].type \in EndTypes /\ Subject(k) = history[j].id
  <2>1. PlaceInv
    BY DEF EngineStateInv
  <2> QED BY <1>1, <1>3, <2>1, RefusalsEnded
<1>6. COMPLETION_ID \in DOMAIN state_machines =>
          state_machines[COMPLETION_ID].request \in Outcomes \ {"CancelledError"}
  BY <1>1 DEF EngineStateInv, CompletionRequest, EnginePhases
<1> DEFINE Kept == /\ COMPLETION_ID \in DOMAIN state_machines' =>
                          /\ COMPLETION_ID \in DOMAIN state_machines
                          /\ state_machines'[COMPLETION_ID] = state_machines[COMPLETION_ID]
<1>7. ASSUME NEW type \in {"ACTIVITY", "TIMER"}, NEW props, NEW request, Request(type, props, request),
             task = "running"
      PROVE  Agree(A)' /\ Kept
  <2>1. Agree(A)'
    BY <1>4, <1>7, RequestAgrees
  <2>2. PICK id : id = DecisionId(type, id_counter)
    OBVIOUS
  <2>3. id # COMPLETION_ID
    BY <2>2 DEF DecisionId, COMPLETION_ID
  <2>4. \/ UNCHANGED state_machines
        \/ state_machines' = [i \in DOMAIN state_machines \cup {id} |->
                                  IF i = id THEN Machine(props, request) ELSE state_machines[i]]
    BY <1>7, <2>2 DEF Request, Add
  <2> QED BY <2>1, <2>3, <2>4
<1>8. ASSUME NEW id \in DOMAIN state_machines, request_cancel(id),
             task = "FatalDecisionError" => task' = "FatalDecisionError",
             StateOf(id) = "REQUESTED" => ImmediateCancel \/ task' = "FatalDecisionError"
      PROVE  Agree(A)' /\ Kept
  <2>1. Agree(A)'
    BY <1>4, <1>5, <1>8, RequestCancelAgrees
  <2>2. Kept
    BY <1>8 DEF request_cancel
  <2> QED BY <2>1, <2>2
<1>9. Agree(A)' /\ Kept
  <2>1. ASSUME NEW t \in ActivityTypes, ExecuteActivity(t) PROVE Agree(A)' /\ Kept
    BY <1>7, <2>1 DEF ExecuteActivity, Calls, schedule_activity
  <2>2. ASSUME StartTimer PROVE Agree(A)' /\ Kept
    BY <1>7, <2>2 DEF StartTimer, Calls, start_timer
  <2>3. ASSUME NEW id \in DOMAIN state_machines, CancelFuture(id) PROVE Agree(A)' /\ Kept
    <3>1. request_cancel(id) /\ task = "running" /\ (~ImmediateCancel => StateOf(id) # "REQUESTED")
      BY <2>3 DEF CancelFuture, Calls, StateOf
    <3> QED BY <1>8, <3>1
  <2>4. ASSUME NEW id \in DOMAIN state_machines, AutomaticCancel(id) PROVE Agree(A)' /\ Kept
    <3>1. request_cancel(id) /\ task = "FatalDecisionError" /\ UNCHANGED task
      BY <2>4 DEF AutomaticCancel, engineVars
    <3> QED BY <1>8, <3>1
  <2>5. ASSUME NEW outcome, Ends(outcome) PROVE Agree(A)' /\ Kept
    <3>1. task = "running" /\ UNCHANGED << state_machines, aliases >>
      BY <2>5 DEF Ends, Calls, managerVars
    <3> QED BY <1>4, <3>1, MachinesAgreeStill
  <2>6. ASSUME Yield PROVE Agree(A)' /\ Kept
    <3>1. UNCHANGED << task, state_machines, aliases >>
      BY <2>6 DEF Yield, managerVars
    <3> QED BY <1>4, <3>1, MachinesAgreeStill
  <2>7. ASSUME RejectionUnwinds PROVE Agree(A)' /\ Kept
    <3>1. task' = "FatalDecisionError" /\ UNCHANGED << state_machines, aliases >>
      BY <2>7 DEF RejectionUnwinds, managerVars
    <3> QED BY <1>4, <3>1, MachinesAgreeStill
  <2> QED BY <2>1, <2>2, <2>3, <2>4, <2>5, <2>6, <2>7 DEF WorkflowNext, Return, continue_as_new
<1>10. AgreeInv'
  BY <1>2, <1>3, <1>9, AgreesNext
<1>11. FatalInv' /\ IdleInv'
  BY <1>1 DEF FatalInv, IdleInv
<1>12. CompletionRequest'
  BY <1>6, <1>9 DEF CompletionRequest
<1> QED BY <1>2, <1>10, <1>11, <1>12 DEF EngineStateInv

\* Without an engine at work nothing is said of it.
LEMMA LeavesTheEngine ==
    ASSUME phase' \notin EnginePhases
    PROVE  PlaceInv' /\ AgreeInv' /\ FuturesInv' /\ CompletionRequest'
<1>1. Pending' = {} /\ phase' \notin {"input", "output"}
  BY DEF Pending, EnginePhases
<1> QED BY <1>1 DEF PlaceInv, BatchInv, InBatch, TodoInv, PosInv, OrderInv, AgreeInv, FuturesInv,
                    CompletionRequest

\* An event of a batch is handled.
LEMMA EventKeepsPlace ==
    ASSUME IInv, HistoryInv, EngineStateInv, phase \in {"input", "output"}, phase' = phase,
           todo # << >>, todo' = Tail(todo), UNCHANGED << history, pos, batch >>,
           handle_history_event(history[Head(todo)], Head(todo)), raised' = "none",
           task' = "FatalDecisionError" => task = "FatalDecisionError"
    PROVE  EngineStateInv'
<1>1. /\ UNCHANGED replaying /\ PlaceInv /\ phase \in EnginePhases
      /\ task # "FatalDecisionError" /\ task' # "FatalDecisionError"
      /\ Written(history)
  BY Zenon DEF handle_history_event, EngineStateInv, FatalInv, EnginePhases, HistoryInv, WrittenInv
<1>2. PICK p : p = Head(todo)
  OBVIOUS
<1>3. /\ PlaceInv'
      /\ p \in 1..(pos - 1) /\ p \in DOMAIN history
      /\ HasHandler(p) => /\ Applied' = Applied \cup {p}
                          /\ Applied = {i \in 1..(p - 1) : HasHandler(i)}
      /\ ~HasHandler(p) => Applied' = Applied
  BY <1>1, <1>2, HeadIsHandled
<1>4. PICK A : A = Applied
  OBVIOUS
<1>5. Agree(A)
  BY <1>1, <1>4 DEF EngineStateInv, AgreeInv, Agree, AliasesAgree, EventsAgree, StatesAgree
<1>6. handle_history_event(history[p], p)
  BY <1>2
<1>7. COMPLETION_ID \in DOMAIN state_machines =>
          state_machines[COMPLETION_ID].request \in Outcomes \ {"CancelledError"}
  BY <1>1 DEF EngineStateInv, CompletionRequest
<1>8. CASE HasHandler(p)
  <2>1. A = {i \in 1..(p - 1) : HasHandler(i)} /\ Applied' = A \cup {p}
    BY <1>3, <1>4, <1>8
  <2>2. Agree(A \cup {p})'
    BY <1>1, <1>3, <1>5, <1>6, <1>8, <2>1, HandledAgrees
  <2>3. AgreeInv'
    <3>1. PICK B : B = A \cup {p}
      OBVIOUS
    <3>2. Applied' = B /\ Agree(B)'
      BY <2>1, <2>2, <3>1
    <3> QED BY <3>2, AgreesNext
  <2>4. CompletionRequest'
    <3>1. AliasesAgree(A)
      BY <1>5 DEF Agree
    <3>2. /\ Subject(p) # COMPLETION_ID
          /\ state_machines' = [state_machines EXCEPT
                 ![Subject(p)] = Handled(type_to_action[history[p].type], @)]
      BY <1>6, <1>8, <3>1, EventFindsItsMachine
    <3>3. COMPLETION_ID \in DOMAIN state_machines' =>
              /\ COMPLETION_ID \in DOMAIN state_machines
              /\ state_machines'[COMPLETION_ID] = state_machines[COMPLETION_ID]
      BY <3>2
    <3> QED BY <1>7, <3>3 DEF CompletionRequest
  <2> QED BY <1>1, <1>3, <2>3, <2>4 DEF EngineStateInv, FatalInv, IdleInv
<1>9. CASE ~HasHandler(p)
  <2>1. UNCHANGED << state_machines, aliases >>
    BY Zenon, <1>6, <1>9 DEF handle_history_event, HasHandler
  <2>2. Agree(A)'
    BY <1>1, <1>5, <2>1, MachinesAgreeStill
  <2>3. Applied' = A
    BY <1>3, <1>4, <1>9
  <2>4. AgreeInv'
    BY <2>2, <2>3, AgreesNext
  <2>5. CompletionRequest'
    BY <1>7, <2>1 DEF CompletionRequest
  <2> QED BY <1>1, <1>3, <2>4, <2>5 DEF EngineStateInv, FatalInv, IdleInv
<1> QED BY <1>8, <1>9

\* A step of the engine that handles no event and leaves the machines.
LEMMA EngineMovesOn ==
    ASSUME IInv, EngineStateInv, phase \in EnginePhases, phase' \in EnginePhases,
           PlaceInv', Applied' = Applied,
           UNCHANGED << history, state_machines, aliases, task >>,
           task = "FatalDecisionError" => phase' \in {"run", "complete"}
    PROVE  EngineStateInv'
<1>1. PICK A : A = Applied
  OBVIOUS
<1>2. Agree(A)
  BY <1>1 DEF EngineStateInv, AgreeInv, Agree, AliasesAgree, EventsAgree, StatesAgree
<1>3. Agree(A)'
  BY <1>2, MachinesAgreeStill
<1>4. AgreeInv'
  BY <1>1, <1>3, AgreesNext
<1>5. CompletionRequest' /\ IdleInv' /\ FatalInv'
  BY DEF EngineStateInv, CompletionRequest, IdleInv, FatalInv, EnginePhases
<1> QED BY <1>4, <1>5 DEF EngineStateInv

\* The engine.
LEMMA EngineKeepsPlace ==
    ASSUME IInv, HistoryInv, EngineStateInv, EngineNext
    PROVE  EngineStateInv'
<1>1. ASSUME phase' \notin EnginePhases \cup {"idle"}, phase \in EnginePhases,
             task' = "FatalDecisionError" => phase' = "failed"
      PROVE  EngineStateInv'
  <2>1. PlaceInv' /\ AgreeInv' /\ CompletionRequest'
    BY <1>1, LeavesTheEngine
  <2> QED BY <1>1, <2>1 DEF EngineStateInv, FatalInv, IdleInv
<1>2. PlaceInv
  BY DEF EngineStateInv
<1>3. ASSUME phase \in {"next", "input", "end", "output"} PROVE task # "FatalDecisionError"
  BY <1>3 DEF EngineStateInv, FatalInv
<1>4. CASE NextDecisionEvents
  <2>1. phase = "next" /\ phase' \in {"input", "failed"} /\ UNCHANGED << history, task >>
    BY <1>4 DEF NextDecisionEvents, Continue, serviceVars
  <2>2. UNCHANGED << state_machines, aliases >>
    BY <1>4 DEF NextDecisionEvents, RaiseInEngine, start_execution
  <2>3. CASE phase' = "failed"
    BY <1>1, <2>1, <2>3 DEF EnginePhases
  <2>4. CASE phase' = "input"
    <3>1. PlaceInv' /\ Applied' = Applied
      BY <1>2, <1>4, <2>4, NextBatchIsInPlace
    <3>2. phase \in EnginePhases /\ phase' \in EnginePhases
      BY <2>1, <2>4 DEF EnginePhases
    <3> QED BY <1>3, <2>1, <2>2, <3>1, <3>2, EngineMovesOn
  <2> QED BY <2>1, <2>3, <2>4
<1>5. CASE CollectDecisions
  <2>1. phase = "next" /\ phase' = "respond" /\ UNCHANGED task
    BY <1>5 DEF CollectDecisions
  <2> QED BY <1>1, <1>3, <2>1 DEF EnginePhases
<1>6. CASE ApplyInputEvent \/ ApplyOutputEvent
  <2>1. /\ phase \in {"input", "output"} /\ phase' = IF raised' = "none" THEN phase ELSE "failed"
        /\ todo # << >> /\ todo' = Tail(todo) /\ UNCHANGED << history, pos, batch >>
        /\ handle_history_event(history[Head(todo)], Head(todo))
        /\ task' = "FatalDecisionError" => task = "FatalDecisionError"
    BY <1>6 DEF ApplyInputEvent, ApplyOutputEvent, Continue, serviceVars
  <2>2. CASE raised' = "none"
    BY <2>1, <2>2, EventKeepsPlace
  <2>3. CASE raised' # "none"
    BY <1>1, <1>3, <2>1, <2>3 DEF EnginePhases
  <2> QED BY <2>2, <2>3
<1>7. CASE StartRun
  <2>1. /\ phase = "input" /\ phase' = "run" /\ todo = << >>
        /\ UNCHANGED << todo, replaying, history, pos, batch, state_machines, aliases, task >>
    BY <1>7 DEF StartRun, managerVars, serviceVars
  <2>2. PlaceInv' /\ Applied' = Applied
    BY <1>2, <2>1, BatchGoesOn
  <2>3. phase \in EnginePhases /\ phase' \in EnginePhases
    BY <2>1 DEF EnginePhases
  <2> QED BY <2>1, <2>2, <2>3, EngineMovesOn
<1>8. CASE MaybeCompleteWorkflow
  <2>1. phase = "complete" /\ UNCHANGED << history, pos, batch, todo, task >>
    BY <1>8 DEF MaybeCompleteWorkflow, serviceVars
  <2>2. CASE task \in {"none", "running"} /\ UNCHANGED managerVars /\ phase' = "end"
    <3>1. UNCHANGED << replaying, state_machines, aliases >>
      BY <2>2 DEF managerVars
    <3>2. PlaceInv' /\ Applied' = Applied
      BY <1>2, <2>1, <2>2, <3>1, BatchGoesOn
    <3>3. phase \in EnginePhases /\ phase' \in EnginePhases
      BY <2>1, <2>2 DEF EnginePhases
    <3> QED BY <2>1, <2>2, <3>1, <3>2, <3>3, EngineMovesOn
  <2>3. CASE task \in Outcomes \ {"CancelledError"} /\ complete_workflow(task) /\ Continue("end")
    <3>1. phase' \in {"end", "failed"} /\ UNCHANGED replaying
      BY <2>3 DEF Continue, complete_workflow
    <3>4. task # "FatalDecisionError"
      BY <2>3, OutcomesAssumption
    <3>2. CASE phase' = "failed"
      BY <1>1, <2>1, <3>2 DEF EnginePhases
    <3>3. CASE phase' = "end"
      <4>1. PlaceInv' /\ Applied' = Applied
        BY <1>2, <2>1, <3>1, <3>3, BatchGoesOn
      <4>2. PICK A : A = Applied
        OBVIOUS
      <4>3. Agree(A)
        BY <2>1, <4>2 DEF EngineStateInv, AgreeInv, Agree, AliasesAgree, EventsAgree, StatesAgree,
                          EnginePhases
      <4>4. Agree(A)'
        <5>1. PICK outcome : outcome = task
          OBVIOUS
        <5>2. complete_workflow(outcome)
          BY <2>3, <5>1
        <5> QED BY <2>1, <4>3, <5>2, CompleteWorkflowAgrees
      <4>5. AgreeInv'
        BY <4>1, <4>2, <4>4, AgreesNext
      <4>6. CompletionRequest'
        <5>1. COMPLETION_ID \in DOMAIN state_machines =>
                  state_machines[COMPLETION_ID].request \in Outcomes \ {"CancelledError"}
          BY <2>1 DEF EngineStateInv, CompletionRequest, EnginePhases
        <5>2. \/ UNCHANGED state_machines
              \/ state_machines' = [i \in DOMAIN state_machines \cup {COMPLETION_ID} |->
                     IF i = COMPLETION_ID THEN CompletionMachine(task) ELSE state_machines[i]]
          BY <2>3 DEF complete_workflow, Add
        <5>3. CompletionMachine(task).request = task
          BY DEF CompletionMachine
        <5> QED BY <2>3, <5>1, <5>2, <5>3 DEF CompletionRequest
      <4> QED BY <2>1, <3>3, <3>4, <4>1, <4>5, <4>6 DEF EngineStateInv, FatalInv, IdleInv
    <3> QED BY <3>1, <3>2, <3>3
  <2>4. CASE phase' = "failed"
    BY <1>1, <2>1, <2>4 DEF EnginePhases
  <2> QED BY <1>8, <2>2, <2>3, <2>4 DEF MaybeCompleteWorkflow
<1>9. CASE EndExecution
  <2>1. /\ phase = "end" /\ phase' \in {"output", "failed"} /\ todo' = batch.output
        /\ UNCHANGED << history, pos, batch, task, state_machines, aliases >>
    BY <1>9 DEF EndExecution, end_execution, Continue, serviceVars
  <2>2. CASE phase' = "failed"
    BY <1>1, <2>1, <2>2 DEF EnginePhases
  <2>3. CASE phase' = "output"
    <3>1. PlaceInv' /\ Applied' = Applied
      BY <1>2, <2>1, <2>3, BatchGoesOn
    <3>2. phase \in EnginePhases /\ phase' \in EnginePhases
      BY <2>1, <2>3 DEF EnginePhases
    <3> QED BY <1>3, <2>1, <3>1, <3>2, EngineMovesOn
  <2> QED BY <2>1, <2>2, <2>3
<1>10. CASE FinishBatch
  <2>1. /\ phase = "output" /\ phase' = "next" /\ todo = << >>
        /\ UNCHANGED << history, pos, batch, state_machines, aliases, task >>
    BY <1>10 DEF FinishBatch, managerVars, serviceVars
  <2>2. PlaceInv' /\ Applied' = Applied
    BY <1>2, <2>1, BatchGoesOn
  <2>3. phase \in EnginePhases /\ phase' \in EnginePhases
    BY <2>1 DEF EnginePhases
  <2> QED BY <1>3, <2>1, <2>2, <2>3, EngineMovesOn
<1> QED BY <1>4, <1>5, <1>6, <1>7, <1>8, <1>9, <1>10 DEF EngineNext

\* The service hands a task to an engine that has done nothing yet.
LEMMA PollKeepsPlace ==
    ASSUME IInv, EngineStateInv, PollDecisionTask
    PROVE  EngineStateInv'
<1>1. /\ phase = "idle" /\ phase' = "next" /\ UNCHANGED << pos, task, state_machines, aliases >>
      /\ history' = Append(history, Event("DecisionTaskStarted"))
  BY DEF PollDecisionTask, managerVars
<1>2. pos = 1 /\ state_machines = << >> /\ aliases = << >> /\ task = "none"
  BY <1>1 DEF EngineStateInv, IdleInv
<1>3. PosInv'
  <2>1. IsSeq(history')
    BY <1>1, AppendIsSeq DEF IInv, ServiceInv
  <2>2. Len(history') \in Nat
    BY <2>1, LenProperties DEF IsSeq
  <2> QED BY <1>1, <1>2, <2>2 DEF PosInv
<1>4. Pending' = {} /\ Applied' = {}
  <2>1. Pending' = {}
    BY <1>1 DEF Pending
  <2>2. 1..(1 - 1) = {}
    OBVIOUS
  <2> QED BY <1>1, <1>2, <2>1, <2>2 DEF Applied
<1>5. PlaceInv'
  BY <1>1, <1>3, <1>4 DEF PlaceInv, BatchInv, InBatch, TodoInv, OrderInv
<1>6. DOMAIN state_machines' = {} /\ DOMAIN aliases' = {}
  BY <1>1, <1>2, EmptyIsSeq
<1>7. AgreeInv' /\ CompletionRequest'
  BY <1>4, <1>6 DEF AgreeInv, Agree, AliasesAgree, EventsAgree, StatesAgree, CompletionRequest
<1> QED BY <1>1, <1>2, <1>5, <1>7 DEF EngineStateInv, FatalInv, IdleInv

\* What the service does while an engine is there keeps its place.
LEMMA ServiceKeepsPlace ==
    ASSUME IInv, EngineStateInv, ServiceNext
    PROVE  EngineStateInv'
<1>1. ASSUME phase' \notin EnginePhases, FatalInv', IdleInv'
      PROVE  EngineStateInv'
  BY <1>1, LeavesTheEngine DEF EngineStateInv
<1>2. ASSUME phase \in {"idle", "respond"}, UNCHANGED << managerVars, engineVars >>
      PROVE  EngineStateInv'
  <2>1. phase' \notin EnginePhases /\ FatalInv' /\ IdleInv'
    BY <1>2 DEF EngineStateInv, FatalInv, IdleInv, managerVars, engineVars, EnginePhases
  <2> QED BY <1>1, <2>1
<1>3. ASSUME DropEngine PROVE EngineStateInv'
  <2>1. phase' \notin EnginePhases /\ FatalInv' /\ IdleInv'
    BY <1>3 DEF DropEngine, NewManager, FatalInv, IdleInv, EnginePhases
  <2> QED BY <1>1, <2>1
<1>4. ASSUME NEW s \in DOMAIN history, NEW type \in CloseEvents, ActivityCloses(s, type)
      PROVE  EngineStateInv'
  BY <1>2, <1>4 DEF ActivityCloses, Arrive
<1>5. ASSUME NEW n \in 0..(MaxIds - 1), TimerFires(DecisionId("TIMER", n)) PROVE EngineStateInv'
  BY <1>2, <1>5 DEF TimerFires, Arrive
<1>6. ASSUME SignalArrives PROVE EngineStateInv'
  BY <1>2, <1>6 DEF SignalArrives, Arrive
<1>7. ASSUME DecisionTaskTimesOut \/ RespondDecisionTaskFailed \/ FinishDecisionTask
      PROVE  EngineStateInv'
  BY <1>3, <1>7 DEF DecisionTaskTimesOut, RespondDecisionTaskFailed, FinishDecisionTask, Unsuccessfully
<1>8. ASSUME RespondDecisionTaskCompleted PROVE EngineStateInv'
  <2>1. CASE Unsuccessfully("DecisionTaskFailed")
    BY <1>3, <2>1 DEF Unsuccessfully
  <2>2. CASE phase' = "record" /\ UNCHANGED task
    <3>1. task # "FatalDecisionError"
      BY <1>8 DEF RespondDecisionTaskCompleted, EngineStateInv, FatalInv
    <3>2. phase' \notin EnginePhases /\ FatalInv' /\ IdleInv'
      BY <2>2, <3>1 DEF EnginePhases, FatalInv, IdleInv
    <3> QED BY <1>1, <3>2
  <2> QED BY <1>8, <2>1, <2>2 DEF RespondDecisionTaskCompleted
<1>9. ASSUME RecordDecision PROVE EngineStateInv'
  <2>1. phase = "record" /\ phase' = "record" /\ task' = task
    BY <1>9 DEF RecordDecision, engineVars
  <2>2. phase' \notin EnginePhases /\ FatalInv' /\ IdleInv'
    BY <2>1 DEF EnginePhases, FatalInv, IdleInv, EngineStateInv
  <2> QED BY <1>1, <2>2
<1> QED BY <1>4, <1>5, <1>6, <1>7, <1>8, <1>9, PollKeepsPlace DEF ServiceNext

-----------------------------------------------------------------------------
(* The answer                                                              *)

\* The machine at a place of the order has something to send, and what it is.
Sends(n) == HasDecision(order[n], state_machines[order[n]])
SentOf(n) == GetDecision(order[n], state_machines[order[n]])

\* The decisions of the first n machines in the order of the OrderedDict; w
\* tells where each comes from.
CollectedFrom(c, n, w) ==
    /\ IsSeq(c)
    /\ w \in [DOMAIN c -> 1..n]
    /\ \A k \in DOMAIN c : Sends(w[k]) /\ c[k] = SentOf(w[k])
    /\ \A k, l \in DOMAIN c : k < l => w[k] < w[l]
    /\ \A m \in 1..n : Sends(m) => \E k \in DOMAIN c : w[k] = m

\* One machine more, with nothing to send, or with a decision.
LEMMA CollectsOneMore ==
    ASSUME NEW n \in Nat, NEW c, NEW w, CollectedFrom(c, n, w)
    PROVE  \E v : CollectedFrom(c \o DecisionsOf(order[n + 1]), n + 1, v)
<1>1. /\ IsSeq(c) /\ Len(c) \in Nat /\ DOMAIN c = 1..Len(c)
      /\ \A k \in DOMAIN c : w[k] \in 1..n
  BY LenProperties DEF CollectedFrom, IsSeq
<1>2. CASE ~Sends(n + 1)
  <2>1. DecisionsOf(order[n + 1]) = << >>
    BY <1>2 DEF DecisionsOf, Sends
  <2>2. c \o << >> = c
    BY <1>1 DEF IsSeq
  <2>3. \A m \in 1..(n + 1) : Sends(m) => m \in 1..n
    BY <1>2
  <2>4. w \in [DOMAIN c -> 1..(n + 1)]
    BY DEF CollectedFrom
  <2>5. CollectedFrom(c, n + 1, w)
    BY <2>3, <2>4 DEF CollectedFrom
  <2> QED BY <2>1, <2>2, <2>5
<1>3. CASE Sends(n + 1)
  <2> DEFINE d == SentOf(n + 1)
             t == << d >>
  <2>1. DecisionsOf(order[n + 1]) = << d >>
    BY <1>3 DEF DecisionsOf, Sends, SentOf
  <2> HIDE DEF d
  <2>2. IsSeq(t) /\ Len(t) = 1 /\ DOMAIN t = {1} /\ t[1] = d
    BY TuplesAreSeqs
  <2> HIDE DEF t
  <2> DEFINE g == c \o t
  <2>3. /\ IsSeq(g)
        /\ DOMAIN g = 1..(Len(c) + Len(t))
        /\ \A i \in 1..(Len(c) + Len(t)) : g[i] = IF i <= Len(c) THEN c[i] ELSE t[i - Len(c)]
    BY <1>1, <2>2, ConcatIsSeq
  <2> HIDE DEF g
  <2> DEFINE m == Len(c)
             v == [k \in 1..(m + 1) |-> IF k <= m THEN w[k] ELSE n + 1]
  <2>4. m \in Nat /\ DOMAIN c = 1..m /\ DOMAIN g = 1..(m + 1)
        /\ (\A i \in 1..m : g[i] = c[i]) /\ g[m + 1] = d
    BY <1>1, <2>2, <2>3
  <2> HIDE DEF m
  <2>5. /\ \A k \in 1..m : v[k] = w[k] /\ v[k] \in 1..n
        /\ v[m + 1] = n + 1
        /\ v \in [DOMAIN g -> 1..(n + 1)]
    BY SMTT(30), <1>1, <2>4
  <2>6. \A k \in DOMAIN g : k \in 1..m \/ k = m + 1
    BY <2>4
  <2> HIDE DEF v
  <2>7. \A k \in DOMAIN g : Sends(v[k]) /\ g[k] = SentOf(v[k])
    BY <1>3, <2>4, <2>5, <2>6 DEF CollectedFrom, d
  <2>8. ASSUME NEW k \in DOMAIN g, NEW l \in DOMAIN g, k < l PROVE v[k] < v[l]
    <3>1. k \in 1..m
      BY <2>4, <2>8
    <3>2. CASE l \in 1..m
      BY <2>4, <2>5, <2>8, <3>1, <3>2 DEF CollectedFrom
    <3>3. CASE l = m + 1
      BY <2>5, <3>1, <3>3
    <3> QED BY <2>6, <3>2, <3>3
  <2>9. ASSUME NEW j \in 1..(n + 1), Sends(j) PROVE \E k \in DOMAIN g : v[k] = j
    <3>1. CASE j = n + 1
      BY <2>4, <2>5, <3>1
    <3>2. CASE j # n + 1
      <4>1. j \in 1..n
        BY <3>2
      <4>2. PICK k \in 1..m : w[k] = j
        BY <2>4, <2>9, <4>1 DEF CollectedFrom
      <4>3. v[k] = j
        BY <2>5, <4>2
      <4>4. k \in DOMAIN g
        BY <2>4, <4>2
      <4> QED BY <4>3, <4>4
    <3> QED BY <3>1, <3>2
  <2>10. CollectedFrom(g, n + 1, v)
    BY <2>3, <2>5, <2>7, <2>8, <2>9 DEF CollectedFrom
  <2>11. g = c \o DecisionsOf(order[n + 1])
    BY <2>1 DEF g, t
  <2> QED BY <2>10, <2>11
<1> QED BY <1>2, <1>3

\* The answer holds a decision for every machine that has one, and no other,
\* in the order of the OrderedDict.
LEMMA CollectedInOrder ==
    ASSUME MachinesInv
    PROVE  \E w : CollectedFrom(collect_pending_decisions, Len(order), w)
<1> DEFINE N == Len(order)
           C == CHOOSE f : f = [n \in 0..N |->
                    IF n = 0 THEN << >> ELSE f[n - 1] \o DecisionsOf(order[n])]
           Good(n) == \E w : CollectedFrom(C[n], n, w)
           Bad == {n \in 0..N : ~Good(n)}
<1>1. N \in Nat /\ DOMAIN order = 1..N
  BY LenProperties DEF MachinesInv
<1>2. C = [n \in 0..N |-> IF n = 0 THEN << >> ELSE C[n - 1] \o DecisionsOf(order[n])]
  <2> HIDE DEF N
  <2> QED BY Zenon, <1>1, CollectingEnds
<1>3. collect_pending_decisions = C[N]
  BY DEF collect_pending_decisions
<1> HIDE DEF C
<1>4. SUFFICES ASSUME Bad # {} PROVE FALSE
  <2>1. N \in 0..N
    BY <1>1
  <2>2. Good(N)
    BY <1>1, <1>4, <2>1
  <2> QED BY <1>3, <2>2
<1>5. PICK n \in Bad : \A m \in Bad : n <= m
  <2>1. Bad \subseteq Nat
    OBVIOUS
  <2> QED BY <1>4, <2>1, Least
<1>6. n \in 0..N /\ n \in Nat
  BY <1>1, <1>5
<1>7. CASE n = 0
  <2>1. C[n] = << >>
    BY <1>2, <1>6, <1>7
  <2>2. 1..0 = {}
    OBVIOUS
  <2>3. IsSeq(<< >>) /\ DOMAIN << >> = {} /\ << >> \in [DOMAIN << >> -> 1..0]
    BY EmptyIsSeq
  <2>4. CollectedFrom(<< >>, 0, << >>)
    BY <2>2, <2>3 DEF CollectedFrom
  <2> QED BY <1>5, <1>7, <2>1, <2>4
<1>8. CASE n # 0
  <2>1. n - 1 \in 0..N /\ n - 1 \in Nat /\ ~(n <= n - 1) /\ (n - 1) + 1 = n
    BY <1>1, <1>6, <1>8
  <2>2. PICK w : CollectedFrom(C[n - 1], n - 1, w)
    BY <1>5, <2>1
  <2>3. C[n] = C[n - 1] \o DecisionsOf(order[n])
    BY <1>2, <1>6, <1>8
  <2>4. \E v : CollectedFrom(C[n - 1] \o DecisionsOf(order[(n - 1) + 1]), (n - 1) + 1, v)
    BY <2>1, <2>2, CollectsOneMore
  <2> QED BY <1>5, <2>1, <2>3, <2>4
<1> QED BY <1>7, <1>8

\* The history is read to its end when the answer is made: every event of it
\* was handled, so that no machine asks for what is recorded.
LEMMA CollectKeepsHistory ==
    ASSUME IInv, LastInv, HistoryInv, EngineStateInv, CollectDecisions
    PROVE  HistoryInv'
<1>1. /\ phase = "next" /\ phase' = "respond" /\ Exhausted(history, pos)
      /\ decisions' = collect_pending_decisions
      /\ UNCHANGED << history, buffered >>
  BY DEF CollectDecisions
<1>2. /\ IsSeq(history) /\ Len(history) \in Nat /\ DOMAIN history = 1..Len(history)
      /\ Len(history) # 0 /\ history[Len(history)].type = "DecisionTaskStarted"
      /\ pos \in Nat
  <2>1. IsSeq(history) /\ pos \in Nat
    BY DEF IInv, ServiceInv
  <2>2. Len(history) # 0 /\ history[Len(history)].type = "DecisionTaskStarted"
    BY <1>1 DEF HistoryInv, PhaseInv
  <2> QED BY <2>1, <2>2, LenProperties DEF IsSeq
<1>3. pos > Len(history)
  BY <1>1, <1>2, ExhaustedAtTheEnd
<1>4. \A i \in DOMAIN history : HasHandler(i) => i \in Applied
  <2>1. Pending = {}
    BY <1>1 DEF Pending
  <2>2. \A i \in DOMAIN history : i \in 1..(pos - 1)
    BY <1>2, <1>3
  <2> QED BY <2>1, <2>2 DEF Applied
<1>5. Agree(Applied) /\ task # "FatalDecisionError"
  BY <1>1 DEF EngineStateInv, AgreeInv, FatalInv, EnginePhases
<1>6. \A i \in DOMAIN history : history[i].type \in decision_event_types \cup EndTypes =>
          history[i].type \in close_types \cup {"MarkerRecorded"} \/ HasHandler(i)
  BY DEF HasHandler, type_to_action, decision_event_types, EndTypes, activity_close_types, close_types
<1>7. ASSUME NEW id \in DOMAIN state_machines \ {COMPLETION_ID}, StateOf(id) # "COMPLETED"
      PROVE  NotEnded(history, id)
  <2>1. ASSUME NEW i \in DOMAIN history, history[i].type \in EndTypes, SubjectIn(history, i) = id
        PROVE  FALSE
    <3>1. i \in Applied
      BY <1>4, <2>1 DEF HasHandler, type_to_action, EndTypes, activity_close_types
    <3>2. Subject(i) = id
      BY <2>1 DEF Subject
    <3>3. EventsAgree(Applied)
      BY <1>5 DEF Agree
    <3> QED BY <1>7, <2>1, <3>1, <3>2, <3>3 DEF EventsAgree
  <2> QED BY <2>1 DEF NotEnded
<1>8. ASSUME NEW id \in DOMAIN state_machines \ {COMPLETION_ID}, StateOf(id) = "REQUESTED",
             NEW type \in StartTypes
      PROVE  NotYet(history, type, id)
  <2>1. ASSUME NEW i \in DOMAIN history, history[i].type = type, history[i].id = id PROVE FALSE
    <3>1. i \in Applied
      BY <1>4, <1>8, <2>1 DEF HasHandler, type_to_action, StartTypes
    <3>2. Subject(i) = id
      BY <1>8, <2>1 DEF Subject, SubjectIn, StartTypes, RefTypes, activity_close_types
    <3>3. EventsAgree(Applied)
      BY <1>5 DEF Agree
    <3> QED BY <1>8, <3>1, <3>2, <3>3 DEF EventsAgree
  <2> QED BY <2>1 DEF NotYet
<1>9. ASSUME NEW id \in DOMAIN state_machines \ {COMPLETION_ID}, StateOf(id) = "CANCELED_AFTER_RECORDED"
      PROVE  /\ id.type = "TIMER" => StartedBefore(history, "TimerStarted", id)
             /\ id.type = "ACTIVITY" =>
                    /\ StartedBefore(history, "ActivityTaskScheduled", id)
                    /\ NotYet(history, "ActivityTaskCancelRequested", id)
                    /\ NotYet(history, "RequestCancelActivityTaskFailed", id)
  <2>1. StatesAgree(Applied) /\ EventsAgree(Applied)
    BY <1>5 DEF Agree
  <2>2. PICK i \in Applied : history[i].type \in StartTypes /\ history[i].id = id
    BY <1>9, <2>1 DEF StatesAgree
  <2>3. /\ id.type = "TIMER" => history[i].type = "TimerStarted"
        /\ id.type = "ACTIVITY" => history[i].type = "ActivityTaskScheduled"
    <3>1. Subject(i) = id
      BY <2>2 DEF Subject, SubjectIn, StartTypes, RefTypes, activity_close_types
    <3>2. id.type = type_to_action[history[i].type].type
      BY <2>1, <3>1 DEF EventsAgree
    <3> QED BY <2>2, <3>2 DEF StartTypes, type_to_action, Handler
  <2>4. i \in DOMAIN history /\ Len(history) \in i..Len(history)
    <3>1. i \in 1..(pos - 1) /\ HasHandler(i)
      BY DEF Applied
    <3>2. PosInv
      BY DEF EngineStateInv, PlaceInv
    <3>3. pos \in 1..(Len(history) + 1)
      BY <1>1, <3>2 DEF PosInv, EnginePhases
    <3> QED BY <1>2, <3>1, <3>3
  <2>5. ASSUME NEW type \in StartTypes, history[i].type = type
        PROVE  StartedBefore(history, type, id)
    BY <1>2, <2>2, <2>4, <2>5 DEF StartedBefore
  <2>6. NotYet(history, "ActivityTaskCancelRequested", id)
    <3>1. ASSUME NEW j \in DOMAIN history, history[j].type = "ActivityTaskCancelRequested", history[j].id = id
          PROVE  FALSE
      <4>1. j \in Applied
        BY <1>4, <3>1 DEF HasHandler, type_to_action
      <4>2. Subject(j) = id
        BY <3>1 DEF Subject, SubjectIn, RefTypes, activity_close_types
      <4> QED BY <1>9, <2>1, <3>1, <4>1, <4>2 DEF EventsAgree
    <3> QED BY <3>1 DEF NotYet
  <2>7. NotYet(history, "RequestCancelActivityTaskFailed", id)
    <3>1. ASSUME NEW j \in DOMAIN history, history[j].type = "RequestCancelActivityTaskFailed",
                 history[j].id = id
          PROVE  FALSE
      <4>1. Follows(history, j - 1, history[j])
        BY DEF HistoryInv, WrittenInv, Written
      <4>2. PICK k \in 1..(j - 1) : history[k].type = "ActivityTaskCancelRequested" /\ history[k].id = id
        BY <3>1, <4>1 DEF Follows
      <4>3. k \in DOMAIN history
        BY <1>2
      <4> QED BY <2>6, <4>2, <4>3 DEF NotYet
    <3> QED BY <3>1 DEF NotYet
  <2> QED BY <2>3, <2>5, <2>6, <2>7 DEF StartTypes
<1>10. ASSUME NEW id \in DOMAIN state_machines, HasDecision(id, state_machines[id])
       PROVE  Sendable(history, GetDecision(id, state_machines[id])) /\
              GetDecision(id, state_machines[id]).id = id
  <2> DEFINE d == GetDecision(id, state_machines[id])
  <2>1. CASE id = COMPLETION_ID
    <3>1. d.what = state_machines[id].request /\ d.id = id
      BY <2>1 DEF GetDecision, Decision
    <3>2. d.what \in Outcomes \ {"CancelledError"}
      BY <1>1, <2>1, <3>1 DEF EngineStateInv, CompletionRequest, EnginePhases
    <3> QED BY <3>1, <3>2 DEF Sendable, ClosesWorkflow
  <2>2. CASE id # COMPLETION_ID
    <3>1. id.type \in {"ACTIVITY", "TIMER"}
      BY <2>2 DEF LastInv, KeysInv
    <3>2. CASE StateOf(id) = "REQUESTED"
      <4>1. /\ d.what = IF id.type = "ACTIVITY" THEN "ScheduleActivityTask" ELSE "StartTimer"
            /\ d.id = id
        BY <2>2, <3>1, <3>2 DEF GetDecision, Decision, CreateDecision, StateOf
      <4> QED BY <1>7, <1>8, <2>2, <3>1, <3>2, <4>1 DEF Sendable, StartTypes
    <3>3. CASE StateOf(id) = "CANCELED_AFTER_REQUESTED"
      <4>1. d.what = "RecordMarker" /\ d.id = id
        BY <2>2, <3>3 DEF GetDecision, Decision, StateOf
      <4>2. ImmediateCancel
        BY <1>5, <2>2, <3>3 DEF Agree, StatesAgree
      <4> QED BY <4>1, <4>2 DEF Sendable
    <3>4. CASE StateOf(id) = "CANCELED_AFTER_RECORDED"
      <4>1. /\ d.what = IF id.type = "ACTIVITY" THEN "RequestCancelActivityTask" ELSE "CancelTimer"
            /\ d.id = id
        BY <2>2, <3>1, <3>4 DEF GetDecision, Decision, CancelDecision, StateOf
      <4> QED BY <1>7, <1>9, <2>2, <3>1, <3>4, <4>1 DEF Sendable
    <3> QED BY <1>10, <2>2, <3>2, <3>3, <3>4 DEF HasDecision, StateOf
  <2> QED BY <2>1, <2>2
<1> DEFINE c == collect_pending_decisions
<1>11. PICK w : CollectedFrom(c, Len(order), w)
  BY CollectedInOrder DEF IInv, ManagerInv
<1> HIDE DEF c
<1>12. /\ order \in Seq(DecisionIds) /\ Len(order) \in Nat /\ DOMAIN order = 1..Len(order)
       /\ \A i \in DOMAIN order : order[i] \in DOMAIN state_machines
       /\ \A i, j \in DOMAIN order : order[i] = order[j] => i = j
  BY LenProperties DEF IInv, ManagerInv, MachinesInv, OrderIsKeys
<1>13. ASSUME NEW k \in DOMAIN c
       PROVE  w[k] \in DOMAIN order /\ c[k].id = order[w[k]] /\ Sendable(history, c[k])
  <2>1. w[k] \in DOMAIN order /\ Sends(w[k]) /\ c[k] = SentOf(w[k])
    BY <1>11, <1>12 DEF CollectedFrom
  <2>2. order[w[k]] \in DOMAIN state_machines
    BY <1>12, <2>1
  <2> QED BY <1>10, <2>1, <2>2 DEF Sends, SentOf
<1>14. ASSUME NEW k \in DOMAIN c, NEW l \in DOMAIN c, c[k].id = c[l].id PROVE k = l
  <2>1. w[k] = w[l] /\ w[k] \in 1..Len(order)
    BY <1>12, <1>13, <1>14
  <2>2. ~(k < l) /\ ~(l < k)
    BY <1>11, <2>1 DEF CollectedFrom
  <2>3. k \in Nat /\ l \in Nat
    <3>1. IsSeq(c)
      BY <1>11 DEF CollectedFrom
    <3>2. Len(c) \in Nat /\ DOMAIN c = 1..Len(c)
      BY <3>1, LenProperties DEF IsSeq
    <3> QED BY <3>2
  <2> QED BY <2>2, <2>3
<1>15. decisions' = c
  BY <1>1 DEF c
<1>16. AnswerInv'
  BY <1>1, <1>13, <1>14, <1>15 DEF AnswerInv
<1>17. WrittenInv' /\ RefusedInv'
  BY <1>1 DEF HistoryInv, WrittenInv, RefusedInv, EndWaits
<1>18. PhaseInv'
  BY <1>1, <1>2 DEF HistoryInv, PhaseInv, Closed
<1> QED BY <1>16, <1>17, <1>18 DEF HistoryInv

\* The engine and the workflow write nothing.
LEMMA EngineKeepsHistory ==
    ASSUME IInv, LastInv, HistoryInv, EngineStateInv, EngineNext \/ WorkflowNext
    PROVE  HistoryInv'
<1>1. ASSUME phase \in EnginePhases, phase' \in EnginePhases \cup {"failed"}, UNCHANGED serviceVars
      PROVE  HistoryInv'
  <2>1. buffered = << >> /\ decisions = << >> /\ ~Closed
    BY <1>1 DEF HistoryInv, PhaseInv, EnginePhases
  <2>2. WrittenInv' /\ AnswerInv' /\ PhaseInv'
    BY <1>1, <2>1 DEF serviceVars, HistoryInv, WrittenInv, AnswerInv, PhaseInv, Closed, EnginePhases
  <2>3. RefusedInv'
    BY <1>1 DEF serviceVars, HistoryInv, RefusedInv, EnginePhases
  <2> QED BY <2>2, <2>3 DEF HistoryInv
<1>2. ASSUME CollectDecisions PROVE HistoryInv'
  BY <1>2, CollectKeepsHistory
<1>3. ASSUME WorkflowNext PROVE HistoryInv'
  <2>1. phase = "run" /\ phase' \in {"run", "complete"} /\ UNCHANGED serviceVars
    <3>1. ASSUME NEW op, Calls(op) PROVE phase = "run" /\ UNCHANGED phase /\ UNCHANGED serviceVars
      BY <3>1 DEF Calls
    <3>2. ASSUME NEW id, AutomaticCancel(id) PROVE phase = "run" /\ UNCHANGED phase /\ UNCHANGED serviceVars
      BY <3>2 DEF AutomaticCancel, engineVars
    <3> QED BY <1>3, <3>1, <3>2 DEF WorkflowNext, ExecuteActivity, StartTimer, CancelFuture, Return,
                                    RejectionUnwinds, continue_as_new, Ends, Yield
  <2> QED BY <1>1, <2>1 DEF EnginePhases
<1>4. ASSUME EngineNext, ~CollectDecisions PROVE HistoryInv'
  <2>1. phase \in EnginePhases /\ phase' \in EnginePhases \cup {"failed"} /\ UNCHANGED serviceVars
    BY <1>4 DEF EngineNext, NextDecisionEvents, ApplyInputEvent, StartRun, MaybeCompleteWorkflow,
                EndExecution, ApplyOutputEvent, FinishBatch, Continue, EnginePhases
  <2> QED BY <1>1, <2>1
<1> QED BY <1>2, <1>3, <1>4

-----------------------------------------------------------------------------
(* History and engine in every reachable state                             *)

\* The first history has nothing in it that could be out of place, and the
\* engine is not built yet.
LEMMA FirstHistory == Init => HistoryInv /\ EngineStateInv
<1> SUFFICES ASSUME Init PROVE HistoryInv /\ EngineStateInv
  OBVIOUS
<1> DEFINE h == << Event("WorkflowExecutionStarted") >>
<1>1. /\ history = h /\ buffered = << >> /\ decisions = << >> /\ phase = "idle"
      /\ pos = 1 /\ state_machines = << >> /\ aliases = << >> /\ expectations = << >>
      /\ task = "none"
  BY DEF Init, ManagerInit
<1>2. /\ DOMAIN h = {1} /\ Len(h) = 1 /\ h[1].type = "WorkflowExecutionStarted"
  BY DEF Event
<1>3. DOMAIN buffered = {} /\ DOMAIN decisions = {}
  BY <1>1, EmptyIsSeq
<1> HIDE DEF h
<1>4. Written(h)
  BY <1>2 DEF Written, Follows, RefTypes, activity_close_types, decision_event_types, CancelTypes, StartTypes
<1>5. WrittenInv
  BY <1>1, <1>3, <1>4 DEF WrittenInv, Writable
<1>6. RefusedInv /\ AnswerInv /\ PhaseInv
  BY <1>1, <1>2, <1>3 DEF RefusedInv, AnswerInv, PhaseInv, Closed, close_types
<1>7. PlaceInv /\ AgreeInv /\ FatalInv /\ IdleInv /\ CompletionRequest
  BY <1>1, OutsideIsInPlace DEF EnginePhases, FatalInv, IdleInv, CompletionRequest
<1> QED BY <1>5, <1>6, <1>7 DEF HistoryInv, EngineStateInv

\* What the provers need to know of a state: the manager, the answer, the
\* history and the engine's place in it.
ReplayInv == IInv /\ LastInv /\ HistoryInv /\ EngineStateInv

\* Nothing changes when nothing does.
LEMMA StutteringKeepsReplay ==
    ASSUME HistoryInv, EngineStateInv, UNCHANGED vars
    PROVE  HistoryInv' /\ EngineStateInv'
<1>1. UNCHANGED << history, buffered, decisions, phase, pos, batch, todo, task, replaying,
                   state_machines, aliases, expectations >>
  BY DEF vars, managerVars, serviceVars, engineVars
<1>2. HistoryInv'
  BY <1>1 DEF HistoryInv, WrittenInv, RefusedInv, EndWaits, AnswerInv, PhaseInv, Closed
<1>3. Pending' = Pending /\ Applied' = Applied
  BY <1>1 DEF Pending, Applied, HasHandler
<1>4. PlaceInv'
  <2>1. First' = First /\ InBatch' = InBatch
    BY <1>1 DEF First, InBatch
  <2>2. BatchInv'
    BY <1>1, <2>1 DEF EngineStateInv, PlaceInv, BatchInv
  <2>3. TodoInv' /\ PosInv'
    BY <1>1, <2>1 DEF EngineStateInv, PlaceInv, TodoInv, PosInv, HasHandler
  <2>4. OrderInv'
    BY <1>1, <1>3 DEF EngineStateInv, PlaceInv, OrderInv, HasHandler
  <2> QED BY <2>2, <2>3, <2>4 DEF PlaceInv
<1>5. AgreeInv'
  <2>1. PICK A : A = Applied
    OBVIOUS
  <2>2. CASE phase \in EnginePhases
    <3>1. Agree(A)
      BY <2>1, <2>2 DEF EngineStateInv, AgreeInv
    <3>2. Agree(A)'
      BY <3>1, <1>1, MachinesAgreeStill
    <3> QED BY <1>3, <2>1, <3>2, AgreesNext
  <2>3. CASE phase \notin EnginePhases
    BY <1>1, <2>3 DEF AgreeInv
  <2> QED BY <2>2, <2>3
<1>6. FatalInv' /\ IdleInv' /\ CompletionRequest'
  BY <1>1 DEF EngineStateInv, FatalInv, IdleInv, CompletionRequest
<1> QED BY <1>2, <1>4, <1>5, <1>6 DEF EngineStateInv

\* History and the engine that replays it, in every state: the service writes
\* a history it can have written, sends and answers are news to it, and the
\* machines of an engine, wherever it is in whatever history, are what the
\* events it has handled make of them.
THEOREM ReplayIsSound == Spec => []ReplayInv
<1>1. Init => HistoryInv /\ EngineStateInv
  BY FirstHistory
<1>2. Init => LastInv
  BY EmptyIsSeq DEF Init, ManagerInit, LastInv, KeysInv, CompletionInv, DecisionsInv,
                    CompletionIsLast
<1>3. IInv /\ LastInv /\ [Next]_vars => LastInv'
  <2> SUFFICES ASSUME IInv, LastInv, [Next]_vars PROVE LastInv'
    OBVIOUS
  <2>1. CASE UNCHANGED vars
    BY <2>1, NothingSentLater DEF vars, managerVars, serviceVars, engineVars
  <2> QED BY <2>1, ServiceKeepsLast, EngineKeepsLast, WorkflowKeepsLast DEF Next
<1>4. IInv /\ LastInv /\ HistoryInv /\ EngineStateInv /\ [Next]_vars
          => HistoryInv' /\ EngineStateInv'
  <2> SUFFICES ASSUME IInv, LastInv, HistoryInv, EngineStateInv, [Next]_vars
               PROVE  HistoryInv' /\ EngineStateInv'
    OBVIOUS
  <2>1. CASE UNCHANGED vars
    BY <2>1, StutteringKeepsReplay
  <2>2. CASE ServiceNext
    BY <2>2, ServiceKeepsHistory, ServiceKeepsPlace DEF LastInv
  <2>3. CASE EngineNext
    BY <2>3, EngineKeepsHistory, EngineKeepsPlace
  <2>4. CASE WorkflowNext
    BY <2>4, EngineKeepsHistory, WorkflowKeepsPlace
  <2> QED BY <2>1, <2>2, <2>3, <2>4 DEF Next
<1>5. IInv /\ LastInv /\ HistoryInv /\ EngineStateInv => ReplayInv
  BY DEF ReplayInv
<1> QED BY <1>1, <1>2, <1>3, <1>4, <1>5, Invariance, PTL DEF Spec

\* In a history the service can have written every decision but a marker is
\* recorded at most once.
LEMMA WrittenOnce ==
    ASSUME IsSeq(history), Written(history), NEW i \in DOMAIN history, NEW j \in DOMAIN history,
           is_decision_event(history[i]), history[i].type # "MarkerRecorded",
           history[j].type = history[i].type, history[j].id = history[i].id
    PROVE  i = j
<1>1. DOMAIN history = 1..Len(history) /\ Len(history) \in Nat
  BY LenProperties DEF IsSeq
<1>2. Follows(history, i - 1, history[i]) /\ Follows(history, j - 1, history[j])
  BY DEF Written
<1>3. ~(j < i)
  <2> SUFFICES ASSUME j < i PROVE FALSE
    OBVIOUS
  <2>1. j \in 1..(i - 1)
    BY <1>1
  <2> QED BY <1>2, <2>1 DEF Follows, is_decision_event
<1>4. ~(i < j)
  <2> SUFFICES ASSUME i < j PROVE FALSE
    OBVIOUS
  <2>1. i \in 1..(j - 1)
    BY <1>1
  <2> QED BY <1>2, <2>1 DEF Follows, is_decision_event
<1> QED BY <1>1, <1>3, <1>4

\* The service is given every command at most once, under whatever order of
\* answers, losses and late events, when no call is cancelled in the task that
\* made it (such a call leaves a marker, and the marker is sent again).
THEOREM CommandsAreGivenOnce ==
    ASSUME ~ImmediateCancel
    PROVE  Spec => []CommandsOnce
<1>1. ReplayInv => CommandsOnce
  <2> SUFFICES ASSUME ReplayInv, NEW i \in DOMAIN history, NEW j \in DOMAIN history,
                      is_decision_event(history[i]), history[j].type = history[i].type,
                      history[j].id = history[i].id
               PROVE  i = j
    BY DEF CommandsOnce
  <2>1. IsSeq(history) /\ Written(history)
    BY DEF ReplayInv, IInv, ServiceInv, HistoryInv, WrittenInv
  <2>2. history[i].type # "MarkerRecorded"
    BY <2>1 DEF Written, Follows
  <2> QED BY <2>1, <2>2, WrittenOnce
<1> QED BY <1>1, ReplayIsSound, PTL

\* Whatever is cancelled when, no decision but a marker is recorded twice.
RecordedOnce ==
    \A i, j \in DOMAIN history :
        /\ is_decision_event(history[i]) /\ ~is_marker_event(history[i])
        /\ history[j].type = history[i].type
        /\ history[j].id = history[i].id
        => i = j

\* Without any assumption on the workflow, no activity is scheduled, no timer
\* started and neither cancelled a second time under the same id.
THEOREM DecisionsAreRecordedOnce == Spec => []RecordedOnce
<1>1. ReplayInv => RecordedOnce
  BY WrittenOnce DEF RecordedOnce, is_marker_event, ReplayInv, IInv, ServiceInv, HistoryInv, WrittenInv
<1> QED BY <1>1, ReplayIsSound, PTL

-----------------------------------------------------------------------------
(* Where the decision events are                                           *)

\* What is written behind a history may be anything but a decision event or
\* the mark of an answer ...
LEMMA ShapedBehind ==
    ASSUME NEW h, NEW new, IsSeq(h), IsSeq(new), Shaped(h),
           \A k \in DOMAIN new :
               /\ is_decision_event(new[k]) =>
                      Len(h) + k # 1 /\ Records((h \o new)[Len(h) + k - 1])
               /\ new[k].type = "DecisionTaskCompleted" =>
                      Len(h) + k # 1 /\ (h \o new)[Len(h) + k - 1].type = "DecisionTaskStarted"
    PROVE  Shaped(h \o new)
<1> DEFINE g == h \o new
<1>1. /\ Len(h) \in Nat /\ DOMAIN h = 1..Len(h)
      /\ Len(new) \in Nat /\ DOMAIN new = 1..Len(new)
  BY ConcatPositions
<1>2. DOMAIN g = 1..(Len(h) + Len(new))
  BY ConcatPositions
<1>3. \A i \in 1..Len(h) : g[i] = h[i]
  BY <1>1, ConcatPositions
<1>4. \A k \in DOMAIN new : g[Len(h) + k] = new[k]
  BY ConcatPositions
<1>5. \A i \in DOMAIN g : i \in DOMAIN h \/ \E k \in DOMAIN new : i = Len(h) + k
  BY ConcatPositions
<1>6. \A k \in DOMAIN new :
          /\ is_decision_event(new[k]) => Len(h) + k # 1 /\ Records(g[Len(h) + k - 1])
          /\ new[k].type = "DecisionTaskCompleted" =>
                 Len(h) + k # 1 /\ g[Len(h) + k - 1].type = "DecisionTaskStarted"
  OBVIOUS
<1> HIDE DEF g
<1>7. ASSUME NEW j \in DOMAIN g
      PROVE  /\ is_decision_event(g[j]) => j # 1 /\ Records(g[j - 1])
             /\ g[j].type = "DecisionTaskCompleted" =>
                    j # 1 /\ g[j - 1].type = "DecisionTaskStarted"
  <2>1. CASE j \in DOMAIN h
    <3>1. g[j] = h[j] /\ (j # 1 => g[j - 1] = h[j - 1])
      BY <1>1, <1>3, <2>1
    <3> QED BY <2>1, <3>1 DEF Shaped
  <2>2. ASSUME NEW k \in DOMAIN new, j = Len(h) + k
        PROVE  /\ is_decision_event(g[j]) => j # 1 /\ Records(g[j - 1])
               /\ g[j].type = "DecisionTaskCompleted" =>
                      j # 1 /\ g[j - 1].type = "DecisionTaskStarted"
    <3>1. g[j] = new[k] /\ j - 1 = Len(h) + k - 1
      BY <1>1, <1>4, <2>2
    <3>2. /\ is_decision_event(new[k]) => j # 1 /\ Records(g[j - 1])
          /\ new[k].type = "DecisionTaskCompleted" => j # 1 /\ g[j - 1].type = "DecisionTaskStarted"
      BY <1>6, <2>2, <3>1
    <3> QED BY <3>1, <3>2
  <2> QED BY <1>5, <2>1, <2>2
<1> QED BY <1>7 DEF Shaped, g

\* ... while decision events need one, or the mark, before them.
LEMMA ShapedPlain ==
    ASSUME NEW h, NEW new, IsSeq(h), IsSeq(new), Shaped(h),
           \A k \in DOMAIN new : ~Records(new[k])
    PROVE  Shaped(h \o new)
BY ShapedBehind DEF Records

\* Only the service writes; an arrival is no decision.
LEMMA ArrivalsKeepShape ==
    ASSUME IInv, ShapeInv, NEW events, IsSeq(events), \A k \in DOMAIN events : ~Records(events[k]),
           Arrive(events)
    PROVE  ShapeInv'
<1>1. IsSeq(history) /\ Shaped(history)
  BY DEF IInv, ServiceInv, ShapeInv
<1>2. phase' = phase /\ phase # "record"
  BY DEF Arrive, engineVars
<1>3. history' = history \o events \/ history' = history
  BY DEF Arrive
<1>4. Shaped(history')
  BY <1>1, <1>3, ShapedPlain
<1> QED BY <1>2, <1>4 DEF ShapeInv

\* The service records an answer directly behind its mark.
LEMMA ServiceKeepsShape ==
    ASSUME IInv, HistoryInv, DecisionsInv, ShapeInv, ServiceNext
    PROVE  ShapeInv'
<1>1. IsSeq(history) /\ Shaped(history) /\ IsSeq(buffered) /\ Len(history) \in Nat
  BY LenProperties DEF IInv, ServiceInv, ShapeInv, IsSeq
<1>2. \A k \in DOMAIN buffered : ~Records(buffered[k])
  BY DEF HistoryInv, WrittenInv, Writable, Records, is_decision_event, decision_event_types,
         RefTypes, activity_close_types
<1>3. \A e, f : ~Records(e) => \A k \in DOMAIN << e >> : ~Records(<< e >>[k])
  OBVIOUS
<1>4. \A type \in unsuccessful \cup {"WorkflowExecutionSignaled", "DecisionTaskStarted"} :
          ~Records(Event(type))
  BY DEF Event, Records, is_decision_event, decision_event_types, unsuccessful
<1>5. ASSUME NEW s, NEW type \in CloseEvents, ActivityCloses(s, type) PROVE ShapeInv'
  <2>1. /\ ~Records(RefEvent(type, s)) /\ ~Records(RefEvent("ActivityTaskStarted", s))
    BY CloseEventsAssumption DEF RefEvent, Records, is_decision_event, decision_event_types
  <2>2. \/ Arrive(<< RefEvent(type, s) >>)
        \/ Arrive(<< RefEvent("ActivityTaskStarted", s), RefEvent(type, s) >>)
    BY <1>5 DEF ActivityCloses
  <2>3. \A e, f : ~Records(e) /\ ~Records(f) =>
            /\ \A k \in DOMAIN << e >> : ~Records(<< e >>[k])
            /\ \A k \in DOMAIN << e, f >> : ~Records(<< e, f >>[k])
    OBVIOUS
  <2> QED BY <2>1, <2>2, <2>3, ArrivalsKeepShape, TuplesAreSeqs
<1>6. ASSUME NEW id, TimerFires(id) PROVE ShapeInv'
  <2>1. ~Records(IdEvent("TimerFired", id))
    BY DEF IdEvent, Records, is_decision_event, decision_event_types
  <2> QED BY <1>3, <1>6, <2>1, ArrivalsKeepShape, TuplesAreSeqs DEF TimerFires
<1>7. ASSUME SignalArrives PROVE ShapeInv'
  BY <1>3, <1>4, <1>7, ArrivalsKeepShape, TuplesAreSeqs DEF SignalArrives
<1>8. ASSUME PollDecisionTask PROVE ShapeInv'
  <2>1. history' = history \o << Event("DecisionTaskStarted") >> /\ phase' = "next"
    BY <1>1, <1>8, AppendIsBehind DEF PollDecisionTask
  <2> QED BY <1>1, <1>3, <1>4, <2>1, ShapedPlain, TuplesAreSeqs DEF ShapeInv
<1>9. ASSUME NEW type \in unsuccessful, Unsuccessfully(type) PROVE ShapeInv'
  <2>1. /\ history' = (history \o << Event(type) >>) \o buffered /\ phase' = "idle"
    BY <1>9 DEF Unsuccessfully, DropEngine
  <2>2. Shaped(history \o << Event(type) >>) /\ IsSeq(history \o << Event(type) >>)
    BY <1>1, <1>3, <1>4, ShapedPlain, TuplesAreSeqs, ConcatPositions
  <2>3. Shaped(history')
    BY <1>1, <1>2, <2>1, <2>2, ShapedPlain
  <2> QED BY <2>1, <2>3 DEF ShapeInv
<1>10. ASSUME RespondDecisionTaskCompleted, history' = Append(history, Event("DecisionTaskCompleted"))
       PROVE  ShapeInv'
  <2> DEFINE new == << Event("DecisionTaskCompleted") >>
  <2>1. /\ history' = history \o new /\ IsSeq(new) /\ DOMAIN new = {1} /\ Len(new) = 1
        /\ new[1].type = "DecisionTaskCompleted"
    BY <1>1, <1>10, AppendIsBehind, TuplesAreSeqs DEF Event
  <2>2. Len(history) # 0 /\ history[Len(history)].type = "DecisionTaskStarted"
    BY <1>10 DEF RespondDecisionTaskCompleted, HistoryInv, PhaseInv
  <2> HIDE DEF new
  <2>3. Len(history) \in DOMAIN history
    BY <1>1, <2>2, ConcatPositions, <2>1
  <2>4. /\ history'[Len(history)].type = "DecisionTaskStarted"
        /\ history'[Len(history) + 1] = new[1]
        /\ Len(history') = Len(history) + 1
    <3>0. /\ \A k \in DOMAIN new : (history \o new)[Len(history) + k] = new[k]
          /\ Len(history \o new) = Len(history) + Len(new)
      BY <1>1, <2>1, ConcatPositions
    <3>1. 1 \in DOMAIN new /\ history'[Len(history) + 1] = new[1]
      BY <2>1, <3>0
    <3>2. Len(history') = Len(history) + 1
      BY <2>1, <3>0
    <3>3. history'[Len(history)] = history[Len(history)]
      BY <1>1, <2>1, <2>3, ConcatPositions
    <3> QED BY <2>2, <3>1, <3>2, <3>3
  <2>5. ~is_decision_event(new[1])
    BY <2>1 DEF is_decision_event, decision_event_types
  <2>6. Shaped(history \o new)
    <3>1. \A k \in DOMAIN new : Len(history) + k # 1 /\ Len(history) + k - 1 = Len(history)
      BY <1>1, <2>1, <2>2
    <3>2. (history \o new)[Len(history)].type = "DecisionTaskStarted"
      BY <2>1, <2>4
    <3> QED BY <1>1, <2>1, <2>5, <3>1, <3>2, ShapedBehind
  <2>7. Len(history') # 0 /\ Records(history'[Len(history')])
    BY <1>1, <2>1, <2>4 DEF Records
  <2> QED BY <2>1, <2>6, <2>7 DEF ShapeInv
<1>11. ASSUME RecordDecision PROVE ShapeInv'
  <2>1. phase = "record" /\ phase' = "record"
    BY <1>11 DEF RecordDecision, engineVars
  <2>2. Len(history) # 0 /\ Records(history[Len(history)])
    BY <2>1 DEF ShapeInv
  <2>3. ASSUME NEW new, IsSeq(new), Len(new) # 0, history' = history \o new,
               \A k \in DOMAIN new : is_decision_event(new[k])
        PROVE  ShapeInv'
    <3>1. /\ Len(new) \in Nat /\ DOMAIN new = 1..Len(new) /\ DOMAIN history = 1..Len(history)
          /\ Len(history') = Len(history) + Len(new)
      BY <1>1, <2>3, ConcatPositions
    <3>2. \A k \in DOMAIN new : history'[Len(history) + k] = new[k]
      BY <1>1, <2>3, ConcatPositions
    <3>3. history'[Len(history)] = history[Len(history)]
      <4>1. Len(history) \in DOMAIN history
        BY <1>1, <2>2, <3>1
      <4> QED BY <1>1, <2>3, <4>1, ConcatPositions
    <3>4. ASSUME NEW k \in DOMAIN new
          PROVE  Len(history) + k # 1 /\ Records(history'[Len(history) + k - 1])
      <4>1. CASE k = 1
        BY <1>1, <2>2, <3>3, <4>1
      <4>2. CASE k # 1
        <5>1. k - 1 \in DOMAIN new /\ Len(history) + (k - 1) = Len(history) + k - 1 /\ Len(history) + k # 1
          BY <1>1, <3>1, <4>2
        <5>2. history'[Len(history) + (k - 1)] = new[k - 1]
          BY <3>2, <5>1
        <5> QED BY <2>3, <5>1, <5>2 DEF Records
      <4> QED BY <4>1, <4>2
    <3>5. \A k \in DOMAIN new : new[k].type # "DecisionTaskCompleted"
      BY <2>3 DEF is_decision_event, decision_event_types
    <3>6. \A k \in DOMAIN new :
              Len(history) + k # 1 /\ Records((history \o new)[Len(history) + k - 1])
      BY <2>3, <3>4
    <3>7. Shaped(history \o new)
      BY <1>1, <2>3, <3>5, <3>6, ShapedBehind
    <3>8. Len(history') # 0 /\ Records(history'[Len(history')])
      <4>1. Len(new) \in DOMAIN new /\ Len(history') # 0
        BY <1>1, <2>3, <3>1
      <4> QED BY <2>3, <3>1, <3>2, <4>1 DEF Records
    <3> QED BY <2>1, <2>3, <3>7, <3>8 DEF ShapeInv
  <2>4. ASSUME NEW type, is_decision_event([type |-> type]),
               history' = Append(history, RecordedEvent(type, Head(decisions)))
        PROVE  ShapeInv'
    <3> DEFINE e == RecordedEvent(type, Head(decisions))
    <3>1. is_decision_event(e)
      BY <2>4 DEF RecordedEvent, is_decision_event
    <3> HIDE DEF e
    <3>2. history' = history \o << e >>
      BY <1>1, <2>4, AppendIsBehind DEF e
    <3>3. Len(<< e >>) # 0 /\ \A k \in DOMAIN << e >> : is_decision_event(<< e >>[k])
      BY <3>1
    <3> QED BY <2>3, <3>2, <3>3, TuplesAreSeqs
  <2>5. \A type \in decision_event_types : is_decision_event([type |-> type])
    BY DEF is_decision_event
  <2>6. ASSUME NEW d, history' = history \o << RecordedEvent("ActivityTaskCancelRequested", d),
                                             RecordedEvent("RequestCancelActivityTaskFailed", d) >>
        PROVE  ShapeInv'
    <3> DEFINE e == RecordedEvent("ActivityTaskCancelRequested", d)
               f == RecordedEvent("RequestCancelActivityTaskFailed", d)
    <3>1. is_decision_event(e) /\ is_decision_event(f)
      BY DEF RecordedEvent, is_decision_event, decision_event_types
    <3>2. history' = history \o << e, f >>
      BY <2>6
    <3> HIDE DEF e, f
    <3>3. Len(<< e, f >>) # 0 /\ \A k \in DOMAIN << e, f >> : is_decision_event(<< e, f >>[k])
      BY SMTT(30), <3>1
    <3> QED BY <2>3, <3>2, <3>3, TuplesAreSeqs
  <2>7. \/ \E type \in decision_event_types :
               history' = Append(history, RecordedEvent(type, Head(decisions)))
        \/ \E d : history' = history \o << RecordedEvent("ActivityTaskCancelRequested", d),
                                          RecordedEvent("RequestCancelActivityTaskFailed", d) >>
    <3> DEFINE d == Head(decisions)
    <3>1. CASE ClosesWorkflow(d) /\ history' = Append(history, RecordedEvent(CloseEvent[d.what], d))
      <4>1. d.what # "CancelledError" /\ d.what \in Outcomes
        <5>1. 1 \in DOMAIN decisions /\ Head(decisions) = decisions[1]
          <6>1. IsSeq(decisions) /\ decisions # << >>
            BY <1>11 DEF RecordDecision, DecisionsInv
          <6> QED BY <6>1, HeadAndTail
        <5>2. Sendable(history, d)
          BY <5>1 DEF HistoryInv, AnswerInv
        <5> QED BY <3>1, <5>2, OutcomesAssumption DEF Sendable, ClosesWorkflow
      <4>2. CloseEvent[d.what] \in decision_event_types
        <5>1. d.what \in {"Complete", "Fail", "ContinueAsNew"}
          BY <4>1, OutcomesAssumption
        <5> HIDE DEF d
        <5> QED BY <5>1 DEF CloseEvent, decision_event_types
      <4> QED BY <3>1, <4>2
    <3> QED BY <1>11, <3>1 DEF RecordDecision, decision_event_types
  <2> QED BY <2>4, <2>5, <2>6, <2>7
<1>12. ASSUME FinishDecisionTask PROVE ShapeInv'
  <2>1. history' = history \o buffered /\ phase' = "idle"
    BY <1>12 DEF FinishDecisionTask, DropEngine
  <2> QED BY <1>1, <1>2, <2>1, ShapedPlain DEF ShapeInv
<1>13. ASSUME RespondDecisionTaskCompleted PROVE ShapeInv'
  <2>1. \/ Unsuccessfully("DecisionTaskFailed")
        \/ history' = Append(history, Event("DecisionTaskCompleted"))
    BY <1>13 DEF RespondDecisionTaskCompleted
  <2> QED BY <1>9, <1>10, <1>13, <2>1 DEF unsuccessful
<1>14. ASSUME DecisionTaskTimesOut \/ RespondDecisionTaskFailed PROVE ShapeInv'
  BY <1>9, <1>14 DEF DecisionTaskTimesOut, RespondDecisionTaskFailed, unsuccessful
<1> QED BY <1>5, <1>6, <1>7, <1>8, <1>11, <1>12, <1>13, <1>14 DEF ServiceNext

-----------------------------------------------------------------------------
(* Futures                                                                 *)

\* The end of an activity is reported once, under whatever position.
LEMMA OneEnd ==
    ASSUME Written(history), IsSeq(history), NEW p \in DOMAIN history, NEW i \in 1..(p - 1),
           Subject(i) = Subject(p),
           history[p].type \in activity_close_types, history[i].type \in activity_close_types
    PROVE  FALSE
<1>1. DOMAIN history = 1..Len(history) /\ Len(history) \in Nat /\ p \in Nat /\ i \in DOMAIN history
  BY LenProperties DEF IsSeq
<1>2. Follows(history, p - 1, history[p]) /\ Follows(history, i - 1, history[i])
  BY <1>1 DEF Written
<1>3. PICK r : r = history[p].ref
  OBVIOUS
<1>4. PICK q : q = history[i].ref
  OBVIOUS
<1>5. /\ r \in 1..(p - 1) /\ history[r].type = "ActivityTaskScheduled"
      /\ q \in 1..(i - 1) /\ history[q].type = "ActivityTaskScheduled"
      /\ r # q
  BY <1>2, <1>3, <1>4 DEF Follows, RefTypes
<1>6. r \in DOMAIN history /\ q \in DOMAIN history
  BY <1>1, <1>5
<1>7. history[r].id = history[q].id
  BY <1>3, <1>4 DEF Subject, SubjectIn, RefTypes
<1>8. is_decision_event(history[r])
  BY <1>5 DEF is_decision_event, decision_event_types
<1> QED BY <1>5, <1>6, <1>7, <1>8, WrittenOnce

\* The futures agree with one event more once it is handled, when a timer
\* whose cancellation is recorded was cancelled before.
LEMMA HandledFutures ==
    ASSUME IInv, Written(history), NEW p \in DOMAIN history, HasHandler(p),
           NEW A, A = {i \in 1..(p - 1) : HasHandler(i)}, Agree(A), FuturesAgree(A),
           handle_history_event(history[p], p), raised' = "none",
           UNCHANGED history, task # "FatalDecisionError", ~ImmediateCancel,
           history[p].type = "TimerCanceled" => FutureOf(Subject(p)) # "pending"
    PROVE  FuturesAgree(A \cup {p})'
<1> DEFINE e == history[p]
           h == type_to_action[e.type]
           B == A \cup {p}
<1>0. PICK id : id = Subject(p)
  OBVIOUS
<1>1. /\ id \in DOMAIN state_machines \ {COMPLETION_ID} /\ id.type = h.type
      /\ state_machines' = [state_machines EXCEPT ![id] = Handled(h, @)]
      /\ Resolvable(h, state_machines[id])
  <2>1. AliasesAgree(A)
    BY DEF Agree
  <2>2. /\ Subject(p) \in DOMAIN state_machines \ {COMPLETION_ID} /\ Subject(p).type = h.type
        /\ state_machines' = [state_machines EXCEPT ![Subject(p)] = Handled(h, @)]
        /\ Resolvable(h, state_machines[Subject(p)])
    BY <2>1, EventFindsItsMachine
  <2> HIDE DEF h
  <2> QED BY <1>0, <2>2
<1>2. /\ e.type \in DOMAIN type_to_action
      /\ h.to \in {"keep", "RECORDED", "COMPLETED", "CANCELLATION_RECORDED"}
      /\ h.to = "keep" <=> e.type = "ActivityTaskStarted"
      /\ h.to = "COMPLETED" <=> e.type \in EndTypes
      /\ h.type \in {"ACTIVITY", "TIMER"}
      /\ h.type = "TIMER" <=> e.type \in {"TimerStarted", "TimerFired",
                                          "TimerCanceled", "CancelTimerFailed"}
      /\ h.future \in {"keep", "result", "exception", "cancelled"}
      /\ h.future # "keep" <=> e.type \in Resolvers
      /\ h.future = "cancelled" <=> e.type = "ActivityTaskCanceled"
  BY HandlerTable DEF HasHandler
<1>3. Follows(history, p - 1, e) /\ p \in Nat /\ DOMAIN history = 1..Len(history) /\ Len(history) \in Nat
  <2>1. p \in 1..Len(history) /\ DOMAIN history = 1..Len(history) /\ Len(history) \in Nat
    BY LenProperties DEF IInv, ServiceInv, IsSeq
  <2> QED BY <2>1 DEF Written
<1>4. \A i \in A : i \in 1..(p - 1) /\ i \in DOMAIN history /\ HasHandler(i)
  BY <1>3
<1>5. e.type \notin RefTypes => e.id = id
  BY <1>0 DEF Subject, SubjectIn
<1>6. \A i : Subject(i)' = Subject(i)
  BY DEF Subject, SubjectIn
<1>7. /\ DOMAIN state_machines' = DOMAIN state_machines
      /\ StateOf(id)' = IF h.to = "keep" THEN StateOf(id) ELSE h.to
      /\ FutureOf(id)' = CASE h.future = "keep" -> FutureOf(id)
                           [] h.future = "cancelled" -> ForceCancel(FutureOf(id))
                           [] OTHER -> IF FutureOf(id) = "pending" THEN h.future ELSE FutureOf(id)
      /\ \A j \in DOMAIN state_machines \ {id} :
             StateOf(j)' = StateOf(j) /\ FutureOf(j)' = FutureOf(j)
  <2>1. MachineOK(state_machines[id])
    BY <1>1 DEF IInv, ManagerInv, MachinesInv
  <2> HIDE DEF h
  <2>2. state_machines'[id] = Handled(h, state_machines[id])
    BY <1>1
  <2>3. /\ Handled(h, state_machines[id]).state =
               IF h.to = "keep" THEN state_machines[id].state ELSE h.to
        /\ Handled(h, state_machines[id]).future =
               CASE h.future = "keep" -> state_machines[id].future
                 [] h.future = "cancelled" -> ForceCancel(state_machines[id].future)
                 [] OTHER -> IF state_machines[id].future = "pending" THEN h.future
                             ELSE state_machines[id].future
    BY <2>1 DEF Handled, MachineOK
  <2> QED BY <1>1, <2>2, <2>3 DEF StateOf, FutureOf
<1>8. \A j \in DOMAIN state_machines \ {id} : GivenUpBy(j)' = GivenUpBy(j)
  BY <1>7 DEF GivenUpBy
<1>9. /\ StateOf(id) # "CANCELED_AFTER_REQUESTED"
      /\ FutureOf(id) \in {"none", "pending", "result", "exception", "cancelled"}
  <2>1. StatesAgree(A)
    BY DEF Agree
  <2>2. MachineOK(state_machines[id])
    BY <1>1 DEF IInv, ManagerInv, MachinesInv
  <2> QED BY <1>1, <2>1, <2>2 DEF StatesAgree, MachineOK, FutureOf, FutureState
<1> HIDE DEF h
<1>10. ASSUME e.type \in Resolvers, NEW i \in A, history[i].type \in Resolvers
       PROVE  Subject(i) # id
  <2> SUFFICES ASSUME Subject(i) = id PROVE FALSE
    OBVIOUS
  <2>1. FutureOf(id) = type_to_action[history[i].type].future
    BY <1>1, <1>10 DEF FuturesAgree
  <2>2. type_to_action[history[i].type].future \in {"result", "exception", "cancelled"}
    <3>1. history[i].type \in DOMAIN type_to_action
      BY <1>4 DEF HasHandler
    <3> QED BY <1>10, <3>1, HandlerTable
  <2>3. h.future = "cancelled"
    BY <1>1, <1>2, <1>10, <2>1, <2>2 DEF Resolvable, FutureOf
  <2>4. e.type = "ActivityTaskCanceled" /\ id.type = "ACTIVITY"
    BY <1>1, <1>2, <2>3
  <2>5. history[i].type \in activity_close_types
    <3>1. Subject(i).type = type_to_action[history[i].type].type
      BY DEF Agree, EventsAgree
    <3>2. type_to_action["TimerFired"].type = "TIMER"
      BY DEF type_to_action, Handler
    <3> QED BY <1>10, <2>4, <3>1, <3>2 DEF Resolvers
  <2>6. i \in 1..(p - 1) /\ Subject(i) = Subject(p) /\ IsSeq(history)
    BY <1>0, <1>4 DEF IInv, ServiceInv
  <2> QED BY <2>4, <2>5, <2>6, OneEnd DEF activity_close_types
<1>11. ASSUME NEW i \in B, history[i].type \in Resolvers, Subject(i) = id
       PROVE  FutureOf(id)' = type_to_action[history[i].type].future
  <2>1. CASE e.type \in Resolvers
    <3>1. i = p
      BY <1>10, <1>11, <2>1
    <3>2. FutureOf(id)' = h.future
      <4>1. CASE h.future \in {"result", "exception"}
        BY <1>1, <1>7, <4>1 DEF Resolvable, FutureOf
      <4>2. CASE h.future = "cancelled"
        <5>1. \A k \in A : history[k].type \in Resolvers => Subject(k) # id
          BY <1>10, <2>1
        <5>2. FutureOf(id) \in {"cancelled", "pending"}
          BY <1>1, <5>1 DEF FuturesAgree
        <5> QED BY <1>7, <4>2, <5>2 DEF ForceCancel
      <4> QED BY <1>2, <2>1, <4>1, <4>2
    <3> QED BY <3>1, <3>2 DEF h
  <2>2. CASE e.type \notin Resolvers
    <3>1. i \in A
      BY <1>11, <2>2
    <3>2. FutureOf(id)' = FutureOf(id)
      BY <1>2, <1>7, <2>2
    <3> QED BY <1>1, <1>11, <3>1, <3>2 DEF FuturesAgree
  <2> QED BY <2>1, <2>2
<1>12. ASSUME \A i \in B : history[i].type \in Resolvers => Subject(i) # id
       PROVE  FutureOf(id)' = IF GivenUpBy(id)' THEN "cancelled" ELSE "pending"
  <2>1. e.type \notin Resolvers /\ FutureOf(id)' = FutureOf(id)
    BY <1>0, <1>2, <1>7, <1>12
  <2>2. FutureOf(id) = IF GivenUpBy(id) THEN "cancelled" ELSE "pending"
    BY <1>1, <1>12 DEF FuturesAgree
  <2>3. CASE e.type = "TimerCanceled"
    <3>1. FutureOf(id) = "cancelled"
      BY <1>0, <2>2, <2>3
    <3>2. id.type = "TIMER" /\ StateOf(id)' = "COMPLETED"
      BY <1>1, <1>2, <1>7, <2>3 DEF EndTypes
    <3> QED BY <2>1, <3>1, <3>2 DEF GivenUpBy
  <2>4. CASE e.type = "TimerStarted"
    <3>1. id.type = "TIMER" /\ StateOf(id)' = h.to /\ h.to \notin {"COMPLETED", "keep"}
      BY <1>1, <1>2, <1>7, <2>4 DEF EndTypes, activity_close_types
    <3>2. StateOf(id) = "REQUESTED"
      <4> SUFFICES ASSUME StateOf(id) # "REQUESTED" PROVE FALSE
        OBVIOUS
      <4>1. PICK i \in A : history[i].type \in StartTypes /\ history[i].id = id
        BY <1>1, <1>9 DEF Agree, StatesAgree
      <4>2. history[i].type = "TimerStarted"
        <5>1. Subject(i).type = type_to_action[history[i].type].type /\ Subject(i) = id
          BY <4>1 DEF Agree, EventsAgree, Subject, SubjectIn, StartTypes, RefTypes, activity_close_types
        <5>2. type_to_action["ActivityTaskScheduled"].type = "ACTIVITY"
          BY DEF type_to_action, Handler
        <5> QED BY <3>1, <4>1, <5>1, <5>2 DEF StartTypes
      <4>3. e.id = id
        BY <1>5, <2>4 DEF RefTypes, activity_close_types
      <4>4. i \in 1..(p - 1)
        BY <1>4
      <4> QED BY <1>3, <2>4, <4>1, <4>2, <4>3, <4>4 DEF Follows, decision_event_types
    <3>3. ~GivenUpBy(id) /\ ~GivenUpBy(id)'
      BY <1>2, <3>1, <3>2 DEF GivenUpBy
    <3> QED BY <2>1, <2>2, <3>3
  <2>5. CASE e.type \notin {"TimerCanceled", "TimerStarted"}
    <3>1. e.type # "CancelTimerFailed" /\ e.type # "TimerFired"
      BY <1>3, <2>1 DEF Follows, Resolvers
    <3>2. id.type = "ACTIVITY"
      BY <1>1, <1>2, <2>5, <3>1
    <3>3. ~GivenUpBy(id) /\ ~GivenUpBy(id)'
      BY <1>2, <1>7, <1>9, <3>2 DEF GivenUpBy
    <3> QED BY <2>1, <2>2, <3>3
  <2> QED BY <2>3, <2>4, <2>5
<1>13. ASSUME id.type = "TIMER", StateOf(id)' = "COMPLETED"
       PROVE  \E i \in B : history[i].type \in EndTypes /\ Subject(i) = id
  <2>1. CASE e.type \in EndTypes
    BY <1>0, <2>1
  <2>2. CASE e.type \notin EndTypes
    <3>1. StateOf(id) = "COMPLETED"
      BY <1>2, <1>7, <1>13, <2>2
    <3> QED BY <1>1, <1>13, <3>1 DEF FuturesAgree
  <2> QED BY <2>1, <2>2
<1>14. ASSUME NEW j \in DOMAIN state_machines \ {COMPLETION_ID}
       PROVE  /\ \A i \in B : history[i].type \in Resolvers /\ Subject(i) = j =>
                     FutureOf(j)' = type_to_action[history[i].type].future
              /\ (\A i \in B : history[i].type \in Resolvers => Subject(i) # j) =>
                     FutureOf(j)' = IF GivenUpBy(j)' THEN "cancelled" ELSE "pending"
              /\ j.type = "TIMER" /\ StateOf(j)' = "COMPLETED" =>
                     \E i \in B : history[i].type \in EndTypes /\ Subject(i) = j
  <2>1. CASE j = id
    BY <1>11, <1>12, <1>13, <2>1
  <2>2. CASE j # id
    <3>1. FutureOf(j)' = FutureOf(j) /\ StateOf(j)' = StateOf(j) /\ GivenUpBy(j)' = GivenUpBy(j)
      BY <1>7, <1>8, <2>2
    <3>2. Subject(p) # j
      BY <1>0, <2>2
    <3>3. /\ \A i \in A : history[i].type \in Resolvers /\ Subject(i) = j =>
                 FutureOf(j) = type_to_action[history[i].type].future
          /\ (\A i \in A : history[i].type \in Resolvers => Subject(i) # j) =>
                 FutureOf(j) = IF GivenUpBy(j) THEN "cancelled" ELSE "pending"
          /\ j.type = "TIMER" /\ StateOf(j) = "COMPLETED" =>
                 \E i \in A : history[i].type \in EndTypes /\ Subject(i) = j
      BY DEF FuturesAgree
    <3> QED BY <3>1, <3>2, <3>3
  <2> QED BY <2>1, <2>2
<1> HIDE DEF B
<1>15. \A j \in DOMAIN state_machines' \ {COMPLETION_ID} :
           /\ \A i \in B : history'[i].type \in Resolvers /\ Subject(i)' = j =>
                  FutureOf(j)' = type_to_action[history'[i].type].future
           /\ (\A i \in B : history'[i].type \in Resolvers => Subject(i)' # j) =>
                  FutureOf(j)' = IF GivenUpBy(j)' THEN "cancelled" ELSE "pending"
           /\ j.type = "TIMER" /\ StateOf(j)' = "COMPLETED" =>
                  \E i \in B : history'[i].type \in EndTypes /\ Subject(i)' = j
  BY <1>6, <1>7, <1>14
<1> QED BY <1>15 DEF FuturesAgree, B

\* Machines that did not change agree as they did.
LEMMA FuturesStill ==
    ASSUME NEW A, FuturesAgree(A), UNCHANGED << history, state_machines >>
    PROVE  FuturesAgree(A)'
BY DEF FuturesAgree, FutureOf, StateOf, GivenUpBy, Subject, SubjectIn

\* A new machine was neither answered nor given up.
LEMMA AddFutures ==
    ASSUME NEW A, Agree(A), FuturesAgree(A), NEW id, NEW m, Add(id, m), UNCHANGED history,
           id = COMPLETION_ID \/ (m.state = "REQUESTED" /\ m.future = "pending")
    PROVE  FuturesAgree(A)'
<1>1. CASE id \in DOMAIN state_machines
  BY <1>1, FuturesStill DEF Add
<1>2. CASE id \notin DOMAIN state_machines
  <2>1. /\ DOMAIN state_machines' = DOMAIN state_machines \cup {id}
        /\ state_machines'[id] = m
        /\ \A j \in DOMAIN state_machines : state_machines'[j] = state_machines[j]
    BY <1>2 DEF Add
  <2>2. \A i : Subject(i)' = Subject(i)
    BY DEF Subject, SubjectIn
  <2>3. \A j \in DOMAIN state_machines :
            FutureOf(j)' = FutureOf(j) /\ StateOf(j)' = StateOf(j) /\ GivenUpBy(j)' = GivenUpBy(j)
    BY <2>1 DEF FutureOf, StateOf, GivenUpBy
  <2>4. id # COMPLETION_ID => FutureOf(id)' = "pending" /\ StateOf(id)' = "REQUESTED" /\ ~GivenUpBy(id)'
    BY <2>1 DEF FutureOf, StateOf, GivenUpBy
  <2>5. \A i \in A : Subject(i) # id
    BY <1>2 DEF Agree, EventsAgree
  <2>6. ASSUME NEW j \in DOMAIN state_machines' \ {COMPLETION_ID}
        PROVE  /\ \A i \in A : history[i].type \in Resolvers /\ Subject(i) = j =>
                      FutureOf(j)' = type_to_action[history[i].type].future
               /\ (\A i \in A : history[i].type \in Resolvers => Subject(i) # j) =>
                      FutureOf(j)' = IF GivenUpBy(j)' THEN "cancelled" ELSE "pending"
               /\ j.type = "TIMER" /\ StateOf(j)' = "COMPLETED" =>
                      \E i \in A : history[i].type \in EndTypes /\ Subject(i) = j
    <3>1. CASE j = id
      BY <2>4, <2>5, <2>6, <3>1
    <3>2. CASE j # id
      <4>1. j \in DOMAIN state_machines \ {COMPLETION_ID}
        BY <2>1, <2>6, <3>2
      <4>2. /\ \A i \in A : history[i].type \in Resolvers /\ Subject(i) = j =>
                   FutureOf(j) = type_to_action[history[i].type].future
            /\ (\A i \in A : history[i].type \in Resolvers => Subject(i) # j) =>
                   FutureOf(j) = IF GivenUpBy(j) THEN "cancelled" ELSE "pending"
            /\ j.type = "TIMER" /\ StateOf(j) = "COMPLETED" =>
                   \E i \in A : history[i].type \in EndTypes /\ Subject(i) = j
        BY <4>1 DEF FuturesAgree
      <4> QED BY <2>3, <4>1, <4>2
    <3> QED BY <3>1, <3>2
  <2> QED BY <2>2, <2>6 DEF FuturesAgree
<1> QED BY <1>1, <1>2

\* Nor is one that is asked for ...
LEMMA RequestFutures ==
    ASSUME NEW A, Agree(A), FuturesAgree(A), NEW type, NEW props, NEW request,
           Request(type, props, request), UNCHANGED history
    PROVE  FuturesAgree(A)'
<1>1. PICK id : id = DecisionId(type, id_counter)
  OBVIOUS
<1>2. CASE Add(id, Machine(props, request))
  BY <1>2, AddFutures DEF Machine
<1>3. CASE UNCHANGED state_machines
  BY <1>3, FuturesStill
<1> QED BY <1>1, <1>2, <1>3 DEF Request

\* ... and a completion has none.
LEMMA CompleteWorkflowFutures ==
    ASSUME NEW A, Agree(A), FuturesAgree(A), NEW outcome, complete_workflow(outcome), UNCHANGED history
    PROVE  FuturesAgree(A)'
<1>1. CASE Add(COMPLETION_ID, CompletionMachine(outcome))
  BY <1>1, AddFutures
<1>2. CASE UNCHANGED state_machines
  BY <1>2, FuturesStill
<1> QED BY <1>1, <1>2 DEF complete_workflow

\* A cancellation gives up the future of what was not sent yet and of a
\* timer; a timer's is not pending afterwards.
LEMMA RequestCancelFutures ==
    ASSUME IInv, NEW A, Agree(A), FuturesAgree(A), NEW id, request_cancel(id), UNCHANGED history
    PROVE  /\ FuturesAgree(A)'
           /\ \A j \in DOMAIN state_machines : FutureOf(j) # "pending" => FutureOf(j)' # "pending"
           /\ id.type = "TIMER" /\ Cancellable(state_machines[id]) => FutureOf(id)' # "pending"
<1>1. CASE ~Cancellable(state_machines[id])
  BY <1>1, FuturesStill DEF request_cancel, FutureOf
<1>2. CASE Cancellable(state_machines[id])
  <2>1. /\ id \in DOMAIN state_machines \ {COMPLETION_ID}
        /\ state_machines' = [state_machines EXCEPT ![id] = CancelRequested(id.type, @)]
        /\ StateOf(id) \in {"REQUESTED", "RECORDED"}
    BY <1>2 DEF request_cancel, Cancellable, StateOf
  <2>2. /\ DOMAIN state_machines' = DOMAIN state_machines
        /\ StateOf(id)' = IF StateOf(id) = "REQUESTED" THEN "CANCELED_AFTER_REQUESTED"
                          ELSE "CANCELED_AFTER_RECORDED"
        /\ FutureOf(id)' = IF StateOf(id) = "REQUESTED" \/ id.type = "TIMER"
                           THEN ForceCancel(FutureOf(id)) ELSE FutureOf(id)
        /\ \A j \in DOMAIN state_machines \ {id} :
               FutureOf(j)' = FutureOf(j) /\ StateOf(j)' = StateOf(j) /\ GivenUpBy(j)' = GivenUpBy(j)
    <3>1. MachineOK(state_machines[id])
      BY <2>1 DEF IInv, ManagerInv, MachinesInv
    <3>2. LET c == CancelRequested(id.type, state_machines[id])
          IN  /\ c.state = IF state_machines[id].state = "REQUESTED" THEN "CANCELED_AFTER_REQUESTED"
                           ELSE "CANCELED_AFTER_RECORDED"
              /\ c.future = IF state_machines[id].state = "REQUESTED" \/ id.type = "TIMER"
                            THEN ForceCancel(state_machines[id].future)
                            ELSE state_machines[id].future
      BY <3>1 DEF CancelRequested, MachineOK
    <3>3. state_machines'[id] = CancelRequested(id.type, state_machines[id])
      BY <2>1
    <3>4. \A j \in DOMAIN state_machines \ {id} : state_machines'[j] = state_machines[j]
      BY <2>1
    <3> QED BY <2>1, <3>2, <3>3, <3>4 DEF StateOf, FutureOf, GivenUpBy
  <2>3. \A i : Subject(i)' = Subject(i)
    BY DEF Subject, SubjectIn
  <2>4. \A i \in A : history[i].type \in Resolvers => Subject(i) # id
    <3> SUFFICES ASSUME NEW i \in A, history[i].type \in Resolvers, Subject(i) = id PROVE FALSE
      OBVIOUS
    <3>1. StateOf(id) = "COMPLETED"
      BY DEF Agree, EventsAgree, Resolvers, EndTypes
    <3> QED BY <2>1, <3>1
  <2>5. FutureOf(id) = "pending"
    <3>1. ~GivenUpBy(id)
      BY <2>1 DEF GivenUpBy
    <3> QED BY <2>1, <2>4, <3>1 DEF FuturesAgree
  <2>6. /\ FutureOf(id)' = IF GivenUpBy(id)' THEN "cancelled" ELSE "pending"
        /\ StateOf(id)' # "COMPLETED"
    <3>1. CASE StateOf(id) = "REQUESTED"
      BY <2>2, <2>5, <3>1 DEF GivenUpBy, ForceCancel
    <3>2. CASE StateOf(id) = "RECORDED"
      <4>1. PICK i \in A : history[i].type \in StartTypes /\ history[i].id = id
        BY <2>1, <3>2 DEF Agree, StatesAgree
      <4>2. Subject(i) = id /\ Subject(i).type = type_to_action[history[i].type].type
        BY <4>1 DEF Agree, EventsAgree, Subject, SubjectIn, StartTypes, RefTypes, activity_close_types
      <4>3. id.type \in {"ACTIVITY", "TIMER"}
        BY <4>1, <4>2 DEF StartTypes, type_to_action, Handler
      <4> QED BY <2>2, <2>5, <3>2, <4>3 DEF GivenUpBy, ForceCancel
    <3> QED BY <2>1, <3>1, <3>2
  <2>7. ASSUME NEW j \in DOMAIN state_machines \ {COMPLETION_ID}
        PROVE  /\ \A i \in A : history[i].type \in Resolvers /\ Subject(i) = j =>
                      FutureOf(j)' = type_to_action[history[i].type].future
               /\ (\A i \in A : history[i].type \in Resolvers => Subject(i) # j) =>
                      FutureOf(j)' = IF GivenUpBy(j)' THEN "cancelled" ELSE "pending"
               /\ j.type = "TIMER" /\ StateOf(j)' = "COMPLETED" =>
                      \E i \in A : history[i].type \in EndTypes /\ Subject(i) = j
    <3>1. CASE j = id
      BY <2>4, <2>6, <3>1
    <3>2. CASE j # id
      <4>1. /\ \A i \in A : history[i].type \in Resolvers /\ Subject(i) = j =>
                   FutureOf(j) = type_to_action[history[i].type].future
            /\ (\A i \in A : history[i].type \in Resolvers => Subject(i) # j) =>
                   FutureOf(j) = IF GivenUpBy(j) THEN "cancelled" ELSE "pending"
            /\ j.type = "TIMER" /\ StateOf(j) = "COMPLETED" =>
                   \E i \in A : history[i].type \in EndTypes /\ Subject(i) = j
        BY DEF FuturesAgree
      <4> QED BY <2>2, <3>2, <4>1
    <3> QED BY <3>1, <3>2
  <2>8. FuturesAgree(A)'
    BY <2>2, <2>3, <2>7 DEF FuturesAgree
  <2>9. \A j \in DOMAIN state_machines : FutureOf(j) # "pending" => FutureOf(j)' # "pending"
    BY <2>2, <2>5
  <2>10. id.type = "TIMER" => FutureOf(id)' # "pending"
    BY <2>2, <2>5 DEF ForceCancel
  <2> QED BY <2>8, <2>9, <2>10
<1> QED BY <1>1, <1>2

-----------------------------------------------------------------------------
(* What the engine and the workflow do to the futures                      *)

\* A batch starts behind the decision events of the one before.
BoundaryInv ==
    phase \in EnginePhases /\ pos \in DOMAIN history => ~Records(history[pos])

\* The input events of a batch record no decision.
InputInv ==
    phase = "input" =>
        \A k \in DOMAIN todo : HasHandler(todo[k]) => ~is_decision_event(history[todo[k]])

\* What keeps the futures in step with the history.
FlowInv == BoundaryInv /\ InputInv /\ CancelsExpected /\ FuturesInv

\* What is handled next agrees as what was handled does.
LEMMA FuturesNext ==
    ASSUME NEW A, Applied' = A, FuturesAgree(A)'
    PROVE  FuturesInv'
BY DEF FuturesInv, FuturesAgree

\* A future that is done stays done, and its machine stays.
DoneStays ==
    \A id \in DOMAIN state_machines :
        FutureOf(id) # "pending" => id \in DOMAIN state_machines' /\ FutureOf(id)' # "pending"

\* No event opens a future again.
LEMMA HandledStaysDone ==
    ASSUME IInv, NEW e, NEW n, handle_history_event(e, n)
    PROVE  DoneStays
<1>1. CASE UNCHANGED state_machines
  BY <1>1 DEF DoneStays, FutureOf
<1>2. ASSUME NEW id \in DOMAIN state_machines, NEW h,
             state_machines' = [state_machines EXCEPT ![id] = Handled(h, @)]
      PROVE  DoneStays
  <2>1. MachineOK(state_machines[id])
    BY DEF IInv, ManagerInv, MachinesInv
  <2>2. state_machines[id].future # "pending" =>
            Handled(h, state_machines[id]).future = state_machines[id].future
    <3>1. Handled(h, state_machines[id]).future =
              CASE h.future = "keep" -> state_machines[id].future
                [] h.future = "cancelled" -> ForceCancel(state_machines[id].future)
                [] OTHER -> IF state_machines[id].future = "pending" THEN h.future
                            ELSE state_machines[id].future
      BY <2>1 DEF Handled, MachineOK
    <3> QED BY <3>1 DEF ForceCancel
  <2>3. DOMAIN state_machines' = DOMAIN state_machines /\ state_machines'[id] = Handled(h, state_machines[id])
    BY <1>2
  <2>4. \A j \in DOMAIN state_machines \ {id} : state_machines'[j] = state_machines[j]
    BY <1>2
  <2> QED BY <2>2, <2>3, <2>4 DEF DoneStays, FutureOf
<1>3. \A a \in DOMAIN aliases : aliases[a] \in DOMAIN state_machines
  BY DEF IInv, ManagerInv, MachinesInv, AliasesResolve
<1> QED BY <1>1, <1>2, <1>3 DEF handle_history_event

\* An expected cancellation stays expected, or its timer is given up.
LEMMA CancelsStay ==
    ASSUME CancelsExpected, InBatch, UNCHANGED << history, batch >>, DoneStays,
           Pending' \cap Elems(batch.output) \subseteq Pending,
           phase' = "output" => phase = "output",
           \A i \in DOMAIN expectations, p \in Elems(batch.output) :
               history[p].type = "TimerCanceled" /\ history[p].id = expectations[i].id
                       /\ expectations[i].upcoming = << CANCEL >> =>
                   \/ i \in DOMAIN expectations' /\ expectations'[i] = expectations[i]
                   \/ /\ history[p].id \in DOMAIN state_machines'
                      /\ FutureOf(history[p].id)' # "pending"
    PROVE  CancelsExpected'
<1> SUFFICES ASSUME NEW p \in Elems(batch.output), p \in Pending', history[p].type = "TimerCanceled"
             PROVE  \/ /\ phase' # "output"
                       /\ \E i \in DOMAIN expectations' :
                              /\ expectations'[i].id = history[p].id
                              /\ expectations'[i].upcoming = << CANCEL >>
                    \/ /\ history[p].id \in DOMAIN state_machines'
                       /\ FutureOf(history[p].id)' # "pending"
  BY DEF CancelsExpected, Elems, FutureOf
<1>1. PICK t : t = history[p].id
  OBVIOUS
<1>2. p \in Pending
  OBVIOUS
<1>3. CASE t \in DOMAIN state_machines /\ FutureOf(t) # "pending"
  BY <1>1, <1>3 DEF DoneStays, FutureOf
<1>4. CASE /\ phase # "output"
           /\ \E i \in DOMAIN expectations :
                  expectations[i].id = t /\ expectations[i].upcoming = << CANCEL >>
  <2>1. PICK i \in DOMAIN expectations :
            expectations[i].id = t /\ expectations[i].upcoming = << CANCEL >>
    BY <1>4
  <2>2. \/ i \in DOMAIN expectations' /\ expectations'[i] = expectations[i]
        \/ t \in DOMAIN state_machines' /\ FutureOf(t)' # "pending"
    BY <1>1, <2>1 DEF FutureOf
  <2>3. CASE i \in DOMAIN expectations' /\ expectations'[i] = expectations[i]
    BY <1>1, <1>4, <2>1, <2>3
  <2>4. CASE t \in DOMAIN state_machines' /\ FutureOf(t)' # "pending"
    BY <1>1, <2>4 DEF FutureOf
  <2> QED BY <2>2, <2>3, <2>4
<1> QED BY <1>1, <1>2, <1>3, <1>4 DEF CancelsExpected

\* What an output event cancels was started before the task in hand.
LEMMA CancelledIsKnown ==
    ASSUME IInv, HistoryInv, EngineStateInv, phase \in {"run", "complete", "end"},
           NEW p \in Elems(batch.output), history[p].type \in CancelTypes
    PROVE  /\ history[p].id \in DOMAIN state_machines \ {COMPLETION_ID}
           /\ history[p].id.type = IF history[p].type = "TimerCanceled" THEN "TIMER" ELSE "ACTIVITY"
<1>1. PlaceInv /\ Agree(Applied) /\ Written(history)
  BY DEF EngineStateInv, AgreeInv, EnginePhases, HistoryInv, WrittenInv
<1>2. p \in DOMAIN history /\ p \in Nat /\ DOMAIN history = 1..Len(history) /\ Len(history) \in Nat
  <2>1. DOMAIN history = 1..Len(history) /\ Len(history) \in Nat
    BY LenProperties DEF IInv, ServiceInv, IsSeq
  <2>2. BatchInv /\ PosInv
    BY <1>1 DEF PlaceInv
  <2>3. PICK k \in DOMAIN batch.output : p = batch.output[k]
    BY DEF Elems
  <2>4. InBatch /\ phase \in EnginePhases
    BY DEF InBatch, EnginePhases
  <2>5. IsSeq(batch.output) /\ First \in Nat /\ p = First + k - 1 /\ pos \in 1..(Len(history) + 1)
    BY <2>2, <2>3, <2>4 DEF BatchInv, PosInv
  <2>6. Len(batch.output) \in Nat /\ k \in 1..Len(batch.output)
    BY <2>5, LenProperties DEF IsSeq
  <2>7. First = pos - Len(batch.output)
    BY DEF First
  <2>8. \E s \in DOMAIN history : First = s + 1 \/ First = s + 2
    BY <2>2, <2>4 DEF BatchInv
  <2>9. PICK f : f = First
    OBVIOUS
  <2>10. PICK m : m = Len(batch.output)
    OBVIOUS
  <2>11. PICK n : n = Len(history)
    OBVIOUS
  <2>12. n \in Nat /\ m \in Nat /\ pos \in 1..(n + 1) /\ f = pos - m /\ k \in 1..m /\ p = f + k - 1
    BY <2>1, <2>5, <2>6, <2>7, <2>9, <2>10, <2>11
  <2>13. f \in Nat /\ f # 0
    <3>1. PICK s \in DOMAIN history : f = s + 1 \/ f = s + 2
      BY <2>8, <2>9
    <3> QED BY <2>1, <2>5, <2>9, <3>1
  <2>14. p \in 1..n
    BY <2>12, <2>13
  <2> QED BY <2>1, <2>11, <2>14
<1>3. PICK id : id = history[p].id
  OBVIOUS
<1>4. Follows(history, p - 1, history[p])
  BY <1>1, <1>2 DEF Written
<1>5. PICK i \in 1..(p - 1) :
          /\ history[i].type = IF history[p].type = "TimerCanceled" THEN "TimerStarted"
                               ELSE "ActivityTaskScheduled"
          /\ history[i].id = id
          /\ \E s \in i..(p - 1) : history[s].type = "DecisionTaskStarted"
  BY <1>3, <1>4 DEF Follows
<1>6. PICK s \in i..(p - 1) : history[s].type = "DecisionTaskStarted"
  BY <1>5
<1>7. s \in 1..p /\ i \in 1..s
  BY <1>2
<1>8. HasHandler(i) /\ Subject(i) = id
  BY <1>5 DEF HasHandler, type_to_action, Handler, Subject, SubjectIn, RefTypes, activity_close_types
<1>9. i \in Applied
  BY <1>1, <1>2, <1>6, <1>7, <1>8, EarlierIsApplied
<1>10. id \in DOMAIN state_machines \ {COMPLETION_ID} /\ id.type = type_to_action[history[i].type].type
  BY <1>1, <1>8, <1>9 DEF Agree, EventsAgree
<1>11. type_to_action[history[i].type].type =
           IF history[p].type = "TimerCanceled" THEN "TIMER" ELSE "ACTIVITY"
  BY <1>5 DEF type_to_action, Handler
<1> QED BY <1>3, <1>10, <1>11

\* Up to the task it answers a batch has no decision event.
LEMMA BatchInputIsPlain ==
    ASSUME NEW h, IsSeq(h), Shaped(h), NEW p \in Nat \ {0}, NEW b, NEW s, IsBatch(h, p, b, s),
           p \in DOMAIN h => ~Records(h[p])
    PROVE  /\ \A i \in p..s : ~Records(h[i])
           /\ b.next \in DOMAIN h => ~Records(h[b.next])
<1>1. DOMAIN h = 1..Len(h) /\ Len(h) \in Nat
  BY LenProperties DEF IsSeq
<1>2. /\ s \in p..Len(h) /\ h[s].type = "DecisionTaskStarted"
      /\ \A i \in p..(s - 1) : ~EndsSearch(h, i)
      /\ b.replay = (s < Len(h))
      /\ b.replay => h[s + 1].type = "DecisionTaskCompleted"
      /\ b.next <= Len(h) => ~is_decision_event(h[b.next])
  BY DEF IsBatch
<1>3. LET first == IF b.replay THEN s + 2 ELSE s + 1
      IN  /\ b.next \in first..(Len(h) + 1)
          /\ \A i \in first..(b.next - 1) : is_decision_event(h[i])
  BY DEF IsBatch
<1>4. \A i \in p..s : ~Records(h[i])
  <2> DEFINE S == {i \in p..s : Records(h[i])}
  <2> SUFFICES ASSUME S # {} PROVE FALSE
    OBVIOUS
  <2>1. S \subseteq Nat
    BY <1>1, <1>2
  <2>2. PICK n \in S : \A m \in S : n <= m
    BY <2>1, Least
  <2>3. n \in p..s /\ n \in Nat /\ n \in DOMAIN h /\ Records(h[n]) /\ p \in DOMAIN h
    BY <1>1, <1>2, <2>1, <2>2
  <2>4. n # p /\ s \in Nat
    BY <1>1, <1>2, <2>3
  <2>5. n - 1 \in p..(s - 1) /\ n - 1 < n /\ n # s + 1 /\ n # 1
    BY <2>3, <2>4
  <2>6. ~Records(h[n - 1])
    <3> SUFFICES ASSUME Records(h[n - 1]) PROVE FALSE
      OBVIOUS
    <3>1. n - 1 \in p..s
      BY <2>3, <2>4, <2>5
    <3>2. n - 1 \in S
      BY <3>1
    <3> HIDE DEF S
    <3>3. n <= n - 1
      BY <2>2, <3>2
    <3> QED BY <2>3, <3>3
  <2>7. h[n].type = "DecisionTaskCompleted" /\ h[n - 1].type = "DecisionTaskStarted"
    BY <2>3, <2>6 DEF Shaped, Records
  <2>8. EndsSearch(h, n - 1)
    <3>1. n - 1 \in DOMAIN h /\ (n - 1) + 1 = n
      BY <1>1, <2>3, <2>5
    <3> QED BY <2>7, <3>1 DEF EndsSearch, IsStarted
  <2> QED BY <1>2, <2>5, <2>8
<1>5. ASSUME b.next \in DOMAIN h PROVE ~Records(h[b.next])
  <2> SUFFICES ASSUME Records(h[b.next]) PROVE FALSE
    OBVIOUS
  <2>1. b.next \in 1..Len(h) /\ h[b.next].type = "DecisionTaskCompleted"
    BY <1>1, <1>2, <1>5 DEF Records
  <2>2. b.next # 1 /\ h[b.next - 1].type = "DecisionTaskStarted"
    BY <1>5, <2>1 DEF Shaped
  <2>3. ~is_decision_event(h[b.next - 1]) /\ h[b.next - 1].type # "DecisionTaskCompleted"
    BY <2>2 DEF is_decision_event, decision_event_types
  <2>4. PICK first : first = IF b.replay THEN s + 2 ELSE s + 1
    OBVIOUS
  <2>5. b.next \in first..(Len(h) + 1) /\ \A i \in first..(b.next - 1) : is_decision_event(h[i])
    BY <1>3, <2>4
  <2>6. first \in Nat /\ s \in Nat
    BY <1>1, <1>2, <2>4
  <2>7. b.next = first
    <3> SUFFICES ASSUME b.next # first PROVE FALSE
      OBVIOUS
    <3>1. b.next - 1 \in first..(b.next - 1)
      BY <1>1, <2>5, <2>6
    <3> QED BY <2>3, <2>5, <3>1
  <2>8. b.replay
    <3> SUFFICES ASSUME ~b.replay PROVE FALSE
      OBVIOUS
    <3>1. ~(s < Len(h)) /\ first = s + 1
      BY <1>2, <2>4
    <3> QED BY <1>1, <1>2, <2>1, <2>6, <2>7, <3>1
  <2>9. b.next - 1 = s + 1
    BY <2>4, <2>6, <2>7, <2>8
  <2> QED BY <1>2, <2>3, <2>8, <2>9
<1> QED BY <1>4, <1>5

\* What the next batch is, as the engine sees it.
LEMMA NextBatchFacts ==
    ASSUME IInv, PlaceInv, NextDecisionEvents, phase' = "input"
    PROVE  /\ phase = "next" /\ pos \in Nat \ {0} /\ raised' = "none"
           /\ ~Exhausted(history, pos) /\ ~Malformed(history, pos)
           /\ \E s : IsBatch(history, pos, batch', s)
           /\ batch' = NextBatch(history, pos)
           /\ pos' = batch'.next /\ todo' = batch'.markers \o batch'.input
           /\ replaying' = batch'.replay
           /\ expectations' = expectations \o
                 [i \in DOMAIN OutputEvents(batch') |-> Expectation(OutputEvents(batch')[i])]
           /\ UNCHANGED << serviceVars, task, userVars, state_machines, aliases, order, id_counter, failed >>
<1>1. IsSeq(history) /\ pos \in Nat
  BY DEF IInv, ServiceInv
<1>2. phase = "next" /\ ~Exhausted(history, pos)
  BY DEF NextDecisionEvents
<1>3. pos # 0
  BY <1>1, <1>2 DEF PlaceInv, PosInv, EnginePhases
<1>4. raised' = "none"
  BY DEF NextDecisionEvents, Continue
<1>5. ~Malformed(history, pos)
  BY <1>4 DEF NextDecisionEvents, RaiseInEngine
<1>6. /\ batch' = NextBatch(history, pos)
      /\ pos' = batch'.next /\ todo' = batch'.markers \o batch'.input
      /\ start_execution(batch'.replay, OutputEvents(batch'))
  <2>1. PICK b \in {NextBatch(history, pos)} :
            /\ batch' = b
            /\ pos' = b.next
            /\ todo' = b.markers \o b.input
            /\ start_execution(b.replay, OutputEvents(b))
    BY <1>5 DEF NextDecisionEvents
  <2>2. batch' = b
    BY <2>1
  <2> QED BY <2>1, <2>2
<1>7. \E s : IsBatch(history, pos, batch', s)
  BY <1>1, <1>3, <1>2, <1>5, <1>6, NextBatchIsBatch
<1>8. /\ replaying' = batch'.replay
      /\ expectations' = expectations \o
             [i \in DOMAIN OutputEvents(batch') |-> Expectation(OutputEvents(batch')[i])]
      /\ UNCHANGED << state_machines, aliases, order, id_counter, failed >>
  BY <1>4, <1>6 DEF start_execution
<1>9. UNCHANGED << serviceVars, task, userVars >>
  BY DEF NextDecisionEvents
<1> QED BY <1>1, <1>2, <1>3, <1>4, <1>5, <1>6, <1>7, <1>8, <1>9

\* A batch is entered with what it cancels expected.
LEMMA NextBatchKeepsFlow ==
    ASSUME ~ImmediateCancel, IInv, EngineStateInv, ShapeInv, FlowInv, NextDecisionEvents,
           phase' = "input"
    PROVE  FlowInv'
<1>1. PlaceInv /\ phase = "next" /\ phase \in EnginePhases
  BY DEF EngineStateInv, NextDecisionEvents, EnginePhases
<1>2. PlaceInv' /\ Applied' = Applied
  BY <1>1, NextBatchIsInPlace
<1>3. PICK b : b = batch'
  OBVIOUS
<1>4. /\ pos \in Nat \ {0}
      /\ \E s : IsBatch(history, pos, b, s)
      /\ pos' = b.next /\ todo' = b.markers \o b.input
      /\ expectations' = expectations \o
             [i \in DOMAIN OutputEvents(b) |-> Expectation(OutputEvents(b)[i])]
      /\ UNCHANGED << history, state_machines >>
  BY <1>1, <1>3, NextBatchFacts DEF serviceVars
<1>5. PICK s : IsBatch(history, pos, b, s)
  BY <1>4
<1>6. IsSeq(history) /\ Shaped(history) /\ DOMAIN history = 1..Len(history) /\ Len(history) \in Nat
  BY LenProperties DEF IInv, ServiceInv, ShapeInv, IsSeq
<1>7. /\ \A i \in pos..s : ~Records(history[i])
      /\ b.next \in DOMAIN history => ~Records(history[b.next])
  <2>1. pos \in DOMAIN history => ~Records(history[pos])
    BY <1>1 DEF FlowInv, BoundaryInv
  <2> QED BY <1>4, <1>5, <1>6, <2>1, BatchInputIsPlain
<1>8. BoundaryInv'
  BY <1>4, <1>7 DEF BoundaryInv
<1> DEFINE first == IF b.replay THEN s + 2 ELSE s + 1
<1>9. /\ s \in pos..Len(history)
      /\ b.next \in first..(Len(history) + 1)
      /\ \A i \in first..(b.next - 1) : is_decision_event(history[i])
      /\ b.output = [k \in 1..(b.next - first) |-> first + k - 1]
      /\ b.input = Ascending({i \in pos..(s - 1) : ~Skipped(history, i)})
      /\ b.markers = Ascending({i \in first..(b.next - 1) : is_marker_event(history[i])})
  BY <1>5 DEF IsBatch
<1>10. first \in Nat /\ s \in Nat /\ b.next \in Nat /\ pos \in Int
  BY <1>4, <1>6, <1>9
<1> HIDE DEF first
<1>11. /\ IsSeq(b.input) /\ \A k \in DOMAIN b.input : b.input[k] \in pos..(s - 1)
       /\ IsSeq(b.markers)
       /\ \A k \in DOMAIN b.markers : is_marker_event(history[b.markers[k]])
  <2> DEFINE P == {i \in pos..(s - 1) : ~Skipped(history, i)}
             M == {i \in first..(b.next - 1) : is_marker_event(history[i])}
  <2>1. /\ P \subseteq pos..(s - 1) /\ M \subseteq first..(b.next - 1)
        /\ pos..(s - 1) \subseteq Nat /\ first..(b.next - 1) \subseteq Nat
        /\ \A i \in M : is_marker_event(history[i])
    BY <1>4, <1>10
  <2>2. IsFiniteSet(pos..(s - 1)) /\ IsFiniteSet(first..(b.next - 1))
    <3>1. s - 1 \in Int /\ first \in Int /\ b.next - 1 \in Int
      BY <1>10
    <3> QED BY <1>10, <3>1, FS_Interval
  <2>3. b.input = Ascending(P) /\ b.markers = Ascending(M)
    BY <1>9
  <2> HIDE DEF P, M
  <2>4. IsFiniteSet(P) /\ IsFiniteSet(M) /\ P \subseteq Nat /\ M \subseteq Nat
    BY <2>1, <2>2, FS_Subset
  <2> DEFINE p == Ascending(P)
             m == Ascending(M)
  <2>5. /\ IsSeq(p) /\ \A k \in DOMAIN p : p[k] \in P
        /\ IsSeq(m) /\ \A k \in DOMAIN m : m[k] \in M
    BY <2>4, AscendingEnumerates
  <2>6. b.input = p /\ b.markers = m
    BY <2>3
  <2> HIDE DEF p, m
  <2> QED BY <2>1, <2>5, <2>6
<1>12. InputInv'
  <2> SUFFICES ASSUME NEW k \in DOMAIN todo', HasHandler(todo'[k])
               PROVE  ~is_decision_event(history[todo'[k]])
    BY <1>4 DEF InputInv, HasHandler
  <2>1. \/ \E l \in DOMAIN b.markers : todo'[k] = b.markers[l]
        \/ \E l \in DOMAIN b.input : todo'[k] = b.input[l]
    <3>1. PICK m : m = b.markers
      OBVIOUS
    <3>2. PICK n : n = b.input
      OBVIOUS
    <3>3. IsSeq(m) /\ IsSeq(n) /\ todo' = m \o n
      BY <1>4, <1>11, <3>1, <3>2
    <3>4. /\ \A i \in DOMAIN m : (m \o n)[i] = m[i]
          /\ \A j \in DOMAIN n : (m \o n)[Len(m) + j] = n[j]
      BY <3>3, ConcatPositions
    <3>5. \A i \in DOMAIN (m \o n) : i \in DOMAIN m \/ \E j \in DOMAIN n : i = Len(m) + j
      BY <3>3, ConcatPositions
    <3>6. \/ \E l \in DOMAIN m : todo'[k] = m[l]
          \/ \E l \in DOMAIN n : todo'[k] = n[l]
      BY <3>3, <3>4, <3>5
    <3> QED BY <3>1, <3>2, <3>6
  <2>2. CASE \E l \in DOMAIN b.markers : todo'[k] = b.markers[l]
    <3>1. is_marker_event(history[todo'[k]])
      BY <1>11, <2>2
    <3>2. "MarkerRecorded" \notin DOMAIN type_to_action
      BY DEF type_to_action
    <3> QED BY <3>1, <3>2 DEF is_marker_event, HasHandler
  <2>3. CASE \E l \in DOMAIN b.input : todo'[k] = b.input[l]
    <3>1. todo'[k] \in pos..(s - 1)
      BY <1>11, <2>3
    <3>2. todo'[k] \in pos..s
      BY <1>10, <3>1
    <3> QED BY <1>7, <3>2 DEF Records
  <2> QED BY <2>1, <2>2, <2>3
<1>13. CancelsExpected'
  <2> SUFFICES ASSUME NEW p \in Elems(b.output), history[p].type = "TimerCanceled"
               PROVE  \E i \in DOMAIN expectations' :
                          /\ expectations'[i].id = history[p].id
                          /\ expectations'[i].upcoming = << CANCEL >>
    <3>1. phase' # "output" /\ history' = history /\ Elems(b.output) = Elems(batch.output)'
      BY <1>3, <1>4 DEF Elems
    <3> QED BY <3>1 DEF CancelsExpected
  <2>1. PICK k \in DOMAIN b.output : p = b.output[k]
    BY DEF Elems
  <2> DEFINE out == OutputEvents(b)
             added == [i \in DOMAIN out |-> Expectation(out[i])]
  <2>2. IsSeq(out) /\ DOMAIN out = DOMAIN b.output
    <3>1. DOMAIN b.output = 1..(b.next - first) /\ b.next - first \in Nat
      BY <1>6, <1>9, <1>10
    <3> QED BY <3>1, OutputEventsIsSeq
  <2>3. out[k] = history[p]
    BY <2>1, <2>2 DEF OutputEvents
  <2> HIDE DEF out
  <2>4. Expectation(out[k]) = [id |-> history[p].id, upcoming |-> << CANCEL >>]
    BY <2>3 DEF Expectation, upcomingFor, AttemptsCancel
  <2>5. IsSeq(added) /\ DOMAIN added = DOMAIN out /\ added[k] = Expectation(out[k])
    <3>1. Len(out) \in Nat /\ DOMAIN out = 1..Len(out)
      BY <2>2, LenProperties DEF IsSeq
    <3>2. added = [i \in 1..Len(out) |-> added[i]]
      BY <3>1
    <3> QED BY <2>1, <2>2, <3>1, <3>2, FunctionIsSeq
  <2> HIDE DEF added
  <2>6. IsSeq(expectations) /\ expectations' = expectations \o added
    BY <1>4 DEF IInv, ManagerInv, TrackerInv, added, out
  <2>7. /\ \A j \in DOMAIN added : (expectations \o added)[Len(expectations) + j] = added[j]
        /\ DOMAIN (expectations \o added) = 1..(Len(expectations) + Len(added))
        /\ Len(expectations) \in Nat /\ Len(added) \in Nat /\ DOMAIN added = 1..Len(added)
    BY <2>5, <2>6, ConcatPositions
  <2>8. k \in DOMAIN added
    BY <2>1, <2>2, <2>5
  <2>9. Len(expectations) + k \in DOMAIN expectations'
    BY <2>6, <2>7, <2>8
  <2>10. expectations'[Len(expectations) + k] = Expectation(out[k])
    BY <2>5, <2>6, <2>7, <2>8
  <2> QED BY <2>4, <2>9, <2>10
<1>14. FuturesInv'
  <2>1. PICK A : A = Applied
    OBVIOUS
  <2>2. FuturesAgree(A)
    BY <1>1, <2>1 DEF FlowInv, FuturesInv, FuturesAgree
  <2> QED BY <1>2, <1>4, <2>1, <2>2, FuturesStill, FuturesNext
<1> QED BY <1>8, <1>12, <1>13, <1>14 DEF FlowInv

\* An event is handled.
LEMMA EventKeepsFlow ==
    ASSUME ~ImmediateCancel, IInv, HistoryInv, EngineStateInv, FlowInv,
           phase \in {"input", "output"}, phase' = phase,
           todo # << >>, todo' = Tail(todo), UNCHANGED << history, pos, batch >>,
           handle_history_event(history[Head(todo)], Head(todo)), raised' = "none"
    PROVE  FlowInv'
<1>1. /\ UNCHANGED << replaying, expectations >> /\ PlaceInv /\ phase \in EnginePhases /\ InBatch
      /\ task # "FatalDecisionError" /\ Written(history)
  BY Zenon DEF handle_history_event, EngineStateInv, FatalInv, EnginePhases, HistoryInv, WrittenInv, InBatch
<1>2. PICK p : p = Head(todo)
  OBVIOUS
<1>3. /\ p \in 1..(pos - 1) /\ p \in DOMAIN history
      /\ HasHandler(p) => /\ Applied' = Applied \cup {p}
                          /\ Applied = {i \in 1..(p - 1) : HasHandler(i)}
      /\ ~HasHandler(p) => Applied' = Applied
  BY <1>1, <1>2, HeadIsHandled
<1>4. PICK A : A = Applied
  OBVIOUS
<1>5. Agree(A) /\ FuturesAgree(A)
  BY <1>1, <1>4 DEF EngineStateInv, AgreeInv, FlowInv, FuturesInv, Agree, AliasesAgree, EventsAgree,
                    StatesAgree, FuturesAgree
<1>6. handle_history_event(history[p], p)
  BY <1>2
<1>7. /\ IsSeq(todo) /\ p = todo[1] /\ 1 \in DOMAIN todo
      /\ \A k \in DOMAIN todo' : k + 1 \in DOMAIN todo /\ todo'[k] = todo[k + 1]
  <2>1. IsSeq(todo)
    BY <1>1 DEF PlaceInv, BatchInv
  <2> QED BY <1>2, <2>1, HeadAndTail
<1>8. BoundaryInv'
  BY <1>1 DEF FlowInv, BoundaryInv
<1>9. InputInv'
  BY <1>7 DEF FlowInv, InputInv, HasHandler
<1>10. history[p].type = "TimerCanceled" => FutureOf(Subject(p)) # "pending"
  <2> SUFFICES ASSUME history[p].type = "TimerCanceled" PROVE FutureOf(Subject(p)) # "pending"
    OBVIOUS
  <2>1. HasHandler(p) /\ is_decision_event(history[p]) /\ Subject(p) = history[p].id
    BY DEF HasHandler, type_to_action, Handler, is_decision_event, decision_event_types, Subject,
           SubjectIn, RefTypes, activity_close_types
  <2>2. phase = "output"
    BY <1>7, <2>1 DEF FlowInv, InputInv
  <2>3. p \in Pending
    BY <1>7, <2>2 DEF Pending, Elems
  <2>4. p \in Elems(batch.output)
    <3>1. /\ Len(todo) <= Len(batch.output) /\ todo[1] = pos - Len(todo) + 1 - 1
          /\ IsSeq(batch.output)
          /\ First = pos - Len(batch.output)
          /\ \A k \in DOMAIN batch.output : batch.output[k] = First + k - 1
      BY <1>1, <1>7, <2>2 DEF PlaceInv, TodoInv, BatchInv, First
    <3>2. /\ Len(todo) \in Nat /\ Len(todo) # 0 /\ Len(batch.output) \in Nat
          /\ DOMAIN batch.output = 1..Len(batch.output) /\ pos \in Nat
      BY <1>7, <3>1, LenProperties DEF IsSeq, IInv, ServiceInv
    <3>3. PICK n : n = Len(todo)
      OBVIOUS
    <3>4. PICK m : m = Len(batch.output)
      OBVIOUS
    <3>5. /\ n \in Nat /\ n # 0 /\ m \in Nat /\ n <= m /\ p = pos - n /\ First = pos - m
          /\ \A k \in 1..m : batch.output[k] = First + k - 1
      <4>1. /\ n \in Nat /\ n # 0 /\ m \in Nat /\ n <= m /\ First = pos - m
            /\ \A k \in 1..m : batch.output[k] = First + k - 1
        BY <3>1, <3>2, <3>3, <3>4
      <4>2. p = pos - n + 1 - 1
        BY <1>7, <3>1, <3>3
      <4>3. pos - n + 1 - 1 = pos - n
        BY <3>2, <4>1
      <4> QED BY <4>1, <4>2, <4>3
    <3>6. m - n + 1 \in 1..m /\ (pos - m) + (m - n + 1) - 1 = pos - n
      BY <3>2, <3>5
    <3>7. batch.output[m - n + 1] = p
      BY <3>5, <3>6
    <3> QED BY <3>2, <3>4, <3>6, <3>7 DEF Elems
  <2> QED BY <1>1, <2>1, <2>2, <2>3, <2>4 DEF FlowInv, CancelsExpected
<1>11. CancelsExpected'
  <2>1. DoneStays
    BY <1>6, HandledStaysDone
  <2>2. Pending' \subseteq Pending /\ InBatch
    BY <1>1, <1>7 DEF Pending, Elems
  <2>3. CancelsExpected
    BY DEF FlowInv
  <2> QED BY <1>1, <2>1, <2>2, <2>3, CancelsStay
<1>12. FuturesInv'
  <2>1. CASE HasHandler(p)
    <3>1. A = {i \in 1..(p - 1) : HasHandler(i)} /\ Applied' = A \cup {p}
      BY <1>3, <1>4, <2>1
    <3>2. FuturesAgree(A \cup {p})'
      BY <1>1, <1>3, <1>5, <1>6, <1>10, <2>1, <3>1, HandledFutures
    <3>3. PICK B : B = A \cup {p}
      OBVIOUS
    <3>4. Applied' = B /\ FuturesAgree(B)'
      BY <3>1, <3>2, <3>3
    <3> QED BY <3>4, FuturesNext
  <2>2. CASE ~HasHandler(p)
    <3>1. UNCHANGED state_machines
      BY Zenon, <1>6, <2>2 DEF handle_history_event, HasHandler
    <3>2. Applied' = A
      BY <1>3, <1>4, <2>2
    <3> QED BY <1>5, <3>1, <3>2, FuturesStill, FuturesNext
  <2> QED BY <2>1, <2>2
<1> QED BY <1>8, <1>9, <1>11, <1>12 DEF FlowInv

\* A step of the engine that leaves the machines.
LEMMA EngineMovesOnInFlow ==
    ASSUME ~ImmediateCancel, IInv, FlowInv, phase \in EnginePhases, phase' \in EnginePhases \ {"input"},
           Applied' = Applied, UNCHANGED << history, pos, batch, state_machines >>, CancelsExpected'
    PROVE  FlowInv'
<1>1. PICK A : A = Applied
  OBVIOUS
<1>2. FuturesAgree(A)
  BY <1>1 DEF FlowInv, FuturesInv, FuturesAgree
<1>3. FuturesInv'
  BY <1>1, <1>2, FuturesStill, FuturesNext
<1>4. BoundaryInv' /\ InputInv'
  BY DEF FlowInv, BoundaryInv, InputInv
<1> QED BY <1>3, <1>4 DEF FlowInv

\* Without an engine at work there is nothing to say of it.
LEMMA LeavesTheFlow ==
    ASSUME phase' \notin EnginePhases
    PROVE  FlowInv'
BY DEF FlowInv, BoundaryInv, InputInv, CancelsExpected, InBatch, FuturesInv, EnginePhases

\* The engine.
LEMMA EngineKeepsFlow ==
    ASSUME ~ImmediateCancel, IInv, HistoryInv, EngineStateInv, ShapeInv, FlowInv, EngineNext
    PROVE  FlowInv'
<1>1. PlaceInv /\ CancelsExpected
  BY DEF EngineStateInv, FlowInv
<1>2. CASE NextDecisionEvents
  <2>1. phase' = "input" \/ phase' \notin EnginePhases
    BY <1>2 DEF NextDecisionEvents, Continue, EnginePhases
  <2> QED BY <1>2, <2>1, NextBatchKeepsFlow, LeavesTheFlow
<1>3. CASE CollectDecisions
  BY <1>3, LeavesTheFlow DEF CollectDecisions, EnginePhases
<1>4. CASE ApplyInputEvent \/ ApplyOutputEvent
  <2>1. /\ phase \in {"input", "output"} /\ phase' = IF raised' = "none" THEN phase ELSE "failed"
        /\ todo # << >> /\ todo' = Tail(todo) /\ UNCHANGED << history, pos, batch >>
        /\ handle_history_event(history[Head(todo)], Head(todo))
    BY <1>4 DEF ApplyInputEvent, ApplyOutputEvent, Continue, serviceVars
  <2>2. CASE raised' = "none"
    BY <2>1, <2>2, EventKeepsFlow
  <2>3. CASE raised' # "none"
    BY <2>1, <2>3, LeavesTheFlow DEF EnginePhases
  <2> QED BY <2>2, <2>3
<1>5. CASE StartRun
  <2>1. /\ phase = "input" /\ phase' = "run" /\ todo = << >>
        /\ UNCHANGED << todo, replaying, history, pos, batch, state_machines, expectations >>
    BY <1>5 DEF StartRun, managerVars, serviceVars
  <2>2. Applied' = Applied
    BY <1>1, <2>1, BatchGoesOn
  <2>3. phase \in EnginePhases /\ phase' \in EnginePhases \ {"input"} /\ InBatch
    BY <2>1 DEF EnginePhases, InBatch
  <2>4. CancelsExpected'
    <3>1. Pending' \subseteq Pending /\ DoneStays
      BY <2>1 DEF Pending, DoneStays, FutureOf
    <3> QED BY <1>1, <2>1, <2>3, <3>1, CancelsStay
  <2> QED BY <2>1, <2>2, <2>3, <2>4, EngineMovesOnInFlow
<1>6. CASE MaybeCompleteWorkflow
  <2>1. phase = "complete" /\ UNCHANGED << history, pos, batch, todo, task >> /\ InBatch /\ phase \in EnginePhases
    BY <1>6 DEF MaybeCompleteWorkflow, serviceVars, InBatch, EnginePhases
  <2>2. CASE phase' = "failed"
    BY <2>2, LeavesTheFlow DEF EnginePhases
  <2>3. CASE UNCHANGED managerVars /\ phase' = "end"
    <3>1. UNCHANGED << replaying, state_machines, expectations >>
      BY <2>3 DEF managerVars
    <3>2. Applied' = Applied
      BY <1>1, <2>1, <2>3, <3>1, BatchGoesOn
    <3>3. CancelsExpected'
      <4>1. Pending' \subseteq Pending /\ DoneStays
        BY <2>1, <2>3, <3>1 DEF Pending, DoneStays, FutureOf
      <4> QED BY <1>1, <2>1, <2>3, <3>1, <4>1, CancelsStay
    <3> QED BY <2>1, <2>3, <3>1, <3>2, <3>3, EngineMovesOnInFlow DEF EnginePhases
  <2>4. CASE complete_workflow(task) /\ phase' = "end"
    <3>1. UNCHANGED replaying
      BY <2>4 DEF complete_workflow
    <3>2. Applied' = Applied
      BY <1>1, <2>1, <2>4, <3>1, BatchGoesOn
    <3>3. PICK A : A = Applied
      OBVIOUS
    <3>4. Agree(A) /\ FuturesAgree(A)
      BY <2>1, <3>3 DEF EngineStateInv, AgreeInv, FlowInv, FuturesInv, Agree, AliasesAgree, EventsAgree,
                        StatesAgree, FuturesAgree
    <3>5. PICK outcome : outcome = task
      OBVIOUS
    <3>6. complete_workflow(outcome)
      BY <2>4, <3>5
    <3>7. FuturesAgree(A)'
      BY <2>1, <3>4, <3>6, CompleteWorkflowFutures
    <3>8. FuturesInv'
      BY <3>2, <3>3, <3>7, FuturesNext
    <3>9. CancelsExpected'
      <4>1. DoneStays
        BY <3>6 DEF complete_workflow, Add, DoneStays, FutureOf
      <4>2. Pending' \subseteq Pending
        BY <2>1, <2>4 DEF Pending
      <4>3. ASSUME NEW i \in DOMAIN expectations, NEW p \in Elems(batch.output),
                   history[p].type = "TimerCanceled", history[p].id = expectations[i].id
            PROVE  i \in DOMAIN expectations' /\ expectations'[i] = expectations[i]
        <5>1. expectations[i].id # COMPLETION_ID
          BY <2>1, <4>3, CancelledIsKnown DEF CancelTypes
        <5>2. CASE expectations' = expectations
          BY <5>2
        <5>3. CASE replaying /\ Accepted(COMPLETION_ID, CompletionProps(outcome))
                   /\ expectations' = Consume(COMPLETION_ID)
          <6>1. EntryOf(COMPLETION_ID) # i
            <7>1. \E j \in Expected : expectations[j].id = COMPLETION_ID
              BY <5>3 DEF Accepted, Validates
            <7>2. expectations[EntryOf(COMPLETION_ID)].id = COMPLETION_ID
              BY <7>1 DEF EntryOf
            <7> QED BY <5>1, <7>2
          <6> QED BY <5>3, <6>1 DEF Consume
        <5> QED BY <3>6, <5>2, <5>3 DEF complete_workflow, Consumed
      <4> QED BY <1>1, <2>1, <2>4, <4>1, <4>2, <4>3, CancelsStay
    <3>10. BoundaryInv' /\ InputInv'
      BY <2>1, <2>4 DEF FlowInv, BoundaryInv, InputInv
    <3> QED BY <3>8, <3>9, <3>10 DEF FlowInv
  <2> QED BY <1>6, <2>2, <2>3, <2>4 DEF MaybeCompleteWorkflow, Continue
<1>7. CASE EndExecution
  <2>1. /\ phase = "end" /\ phase' \in {"output", "failed"} /\ todo' = batch.output
        /\ phase' = "output" => raised' = "none"
        /\ UNCHANGED << history, pos, batch, task, state_machines >>
        /\ end_execution
    BY <1>7 DEF EndExecution, end_execution, Continue, serviceVars
  <2>2. CASE phase' = "failed"
    BY <2>2, LeavesTheFlow DEF EnginePhases
  <2>3. CASE phase' = "output"
    <3>1. Applied' = Applied
      BY <1>1, <2>1, <2>3, BatchGoesOn
    <3>2. InBatch /\ phase \in EnginePhases /\ phase' \in EnginePhases \ {"input"}
      BY <2>1, <2>3 DEF InBatch, EnginePhases
    <3>3. CancelsExpected'
      <4> SUFFICES ASSUME NEW p \in Elems(batch.output), history[p].type = "TimerCanceled"
                   PROVE  /\ history[p].id \in DOMAIN state_machines
                          /\ FutureOf(history[p].id) # "pending"
        <5>1. Elems(batch.output)' = Elems(batch.output) /\ history' = history
              /\ \A t : FutureOf(t)' = FutureOf(t)
          BY <2>1 DEF Elems, FutureOf
        <5> QED BY <2>1, <5>1 DEF CancelsExpected, FutureOf
      <4>1. replaying
        <5>1. batch.output # << >>
          BY EmptyIsSeq DEF Elems
        <5> QED BY <1>1, <2>1, <3>2, <5>1 DEF PlaceInv, BatchInv
      <4>2. Expected = {}
        BY <2>1, <2>3, <4>1 DEF end_execution, Reject
      <4>3. p \in Pending
        BY <2>1 DEF Pending
      <4>4. ~\E i \in DOMAIN expectations : expectations[i].upcoming = << CANCEL >>
        <5>1. << CANCEL >> # << >>
          OBVIOUS
        <5> QED BY <4>2, <5>1 DEF Expected
      <4> QED BY <1>1, <3>2, <4>3, <4>4 DEF CancelsExpected
    <3> QED BY <2>1, <3>1, <3>2, <3>3, EngineMovesOnInFlow
  <2> QED BY <2>1, <2>2, <2>3
<1>8. CASE FinishBatch
  <2>1. /\ phase = "output" /\ phase' = "next" /\ todo = << >>
        /\ UNCHANGED << history, pos, batch, state_machines >>
    BY <1>8 DEF FinishBatch, managerVars, serviceVars
  <2>2. Applied' = Applied
    BY <1>1, <2>1, BatchGoesOn
  <2>3. phase \in EnginePhases /\ phase' \in EnginePhases \ {"input"}
    BY <2>1 DEF EnginePhases
  <2>4. CancelsExpected'
    BY <2>1 DEF CancelsExpected, InBatch
  <2> QED BY <2>1, <2>2, <2>3, <2>4, EngineMovesOnInFlow
<1> QED BY <1>2, <1>3, <1>4, <1>5, <1>6, <1>7, <1>8 DEF EngineNext

\* The tracker leaves the entries of other decisions.
LEMMA ConsumedElsewhere ==
    ASSUME NEW id, NEW props, Accepted(id, props),
           NEW i \in DOMAIN expectations, expectations[i].id # id
    PROVE  i \in DOMAIN Consumed(id) /\ Consumed(id)[i] = expectations[i]
<1>1. CASE replaying
  <2>1. \E j \in Expected : expectations[j].id = id
    BY <1>1 DEF Accepted, Validates
  <2>2. expectations[EntryOf(id)].id = id
    BY <2>1 DEF EntryOf
  <2> QED BY <1>1, <2>2 DEF Consumed, Consume
<1>2. CASE ~replaying
  BY <1>2 DEF Consumed
<1> QED BY <1>1, <1>2

\* The workflow.
LEMMA WorkflowKeepsFlow ==
    ASSUME ~ImmediateCancel, IInv, HistoryInv, EngineStateInv, FlowInv, WorkflowNext
    PROVE  FlowInv'
<1>1. /\ phase = "run" /\ phase' \in {"run", "complete"}
      /\ UNCHANGED << history, pos, batch, todo, replaying >>
  <2>1. ASSUME NEW op, Calls(op) PROVE phase = "run" /\ UNCHANGED << phase, history, pos, batch, todo >>
    BY <2>1 DEF Calls, serviceVars
  <2>2. ASSUME NEW id, AutomaticCancel(id)
        PROVE  phase = "run" /\ UNCHANGED << phase, history, pos, batch, todo, replaying >>
    BY <2>2 DEF AutomaticCancel, request_cancel, engineVars, serviceVars
  <2>3. ASSUME Yield
        PROVE  phase = "run" /\ phase' = "complete" /\ UNCHANGED << history, pos, batch, todo, replaying >>
    BY <2>3 DEF Yield, managerVars, serviceVars
  <2>4. ASSUME \/ \E t \in ActivityTypes : ExecuteActivity(t)
               \/ StartTimer
               \/ \E id \in DOMAIN state_machines : CancelFuture(id)
               \/ \E outcome \in Outcomes : Ends(outcome)
        PROVE  UNCHANGED replaying /\ \E op : Calls(op)
    BY <2>4 DEF ExecuteActivity, StartTimer, CancelFuture, Ends, schedule_activity, start_timer,
                Request, request_cancel, managerVars
  <2>5. ASSUME RejectionUnwinds
        PROVE  phase = "run" /\ UNCHANGED << phase, history, pos, batch, todo, replaying >>
    BY <2>5 DEF RejectionUnwinds, managerVars, serviceVars
  <2> QED BY <2>1, <2>2, <2>3, <2>4, <2>5 DEF WorkflowNext, Return, continue_as_new
<1>2. PlaceInv /\ CancelsExpected /\ InBatch /\ phase \in EnginePhases
  BY <1>1 DEF EngineStateInv, FlowInv, InBatch, EnginePhases
<1>3. Applied' = Applied
  BY <1>1, <1>2, BatchGoesOn
<1>4. PICK A : A = Applied
  OBVIOUS
<1>5. Agree(A) /\ FuturesAgree(A)
  BY <1>2, <1>4 DEF EngineStateInv, AgreeInv, FlowInv, FuturesInv, Agree, AliasesAgree, EventsAgree,
                    StatesAgree, FuturesAgree
<1> DEFINE Kept(i) == i \in DOMAIN expectations' /\ expectations'[i] = expectations[i]
           Done(id) == id \in DOMAIN state_machines' /\ FutureOf(id)' # "pending"
           Goal == /\ FuturesAgree(A)'
                   /\ DoneStays
                   /\ \A i \in DOMAIN expectations, p \in Elems(batch.output) :
                          history[p].type = "TimerCanceled" /\ history[p].id = expectations[i].id =>
                              Kept(i) \/ Done(history[p].id)
<1>6. ASSUME NEW type, NEW props, NEW request, Request(type, props, request) PROVE Goal
  <2>1. FuturesAgree(A)'
    BY <1>1, <1>5, <1>6, RequestFutures
  <2>2. DoneStays
    BY <1>6 DEF Request, Add, DoneStays, FutureOf
  <2>3. ASSUME NEW i \in DOMAIN expectations, NEW p \in Elems(batch.output),
               history[p].type = "TimerCanceled", history[p].id = expectations[i].id
        PROVE  Kept(i)
    <3>1. PICK t : t = DecisionId(type, id_counter)
      OBVIOUS
    <3>2. expectations[i].id # t
      <4>1. history[p].id \in DOMAIN state_machines \ {COMPLETION_ID}
        BY <1>1, <2>3, CancelledIsKnown DEF CancelTypes
      <4>2. history[p].id.id < id_counter /\ id_counter \in Nat
        BY <4>1 DEF IInv, ManagerInv, MachinesInv, FreshIds
      <4>3. t.id = id_counter
        BY <3>1 DEF DecisionId
      <4> QED BY <2>3, <4>2, <4>3
    <3>3. \/ expectations' = expectations
          \/ Accepted(t, props) /\ expectations' = Consumed(t)
      BY <1>6, <3>1 DEF Request
    <3> QED BY <3>2, <3>3, ConsumedElsewhere
  <2> QED BY <2>1, <2>2, <2>3
<1>7. ASSUME NEW id, request_cancel(id) PROVE Goal
  <2>1. /\ FuturesAgree(A)'
        /\ \A j \in DOMAIN state_machines : FutureOf(j) # "pending" => FutureOf(j)' # "pending"
        /\ id.type = "TIMER" /\ Cancellable(state_machines[id]) => FutureOf(id)' # "pending"
    BY <1>1, <1>5, <1>7, RequestCancelFutures
  <2>2. DOMAIN state_machines' = DOMAIN state_machines
    BY <1>7 DEF request_cancel
  <2>3. DoneStays
    BY <2>1, <2>2 DEF DoneStays
  <2>4. ASSUME NEW i \in DOMAIN expectations, NEW p \in Elems(batch.output),
               history[p].type = "TimerCanceled", history[p].id = expectations[i].id
        PROVE  Kept(i) \/ Done(history[p].id)
    <3>1. PICK t : t = history[p].id
      OBVIOUS
    <3>2. t \in DOMAIN state_machines /\ t.type = "TIMER"
      BY <1>1, <2>4, <3>1, CancelledIsKnown DEF CancelTypes
    <3>3. CASE expectations' = expectations
      BY <3>3
    <3>4. CASE /\ Cancellable(state_machines[id]) /\ Accepted(id, CANCEL)
               /\ expectations' = Consumed(id)
      <4>1. CASE t = id
        <5>1. FutureOf(t)' # "pending" /\ t \in DOMAIN state_machines'
          BY <2>1, <2>2, <3>2, <3>4, <4>1 DEF FutureOf
        <5>2. history' = history
          BY <1>1
        <5>3. Done(t)
          BY <5>1
        <5> HIDE DEF Kept, Done
        <5> QED BY <3>1, <5>2, <5>3
      <4>2. CASE t # id
        BY <2>4, <3>1, <3>4, <4>2, ConsumedElsewhere
      <4> QED BY <4>1, <4>2
    <3> QED BY <1>7, <3>3, <3>4 DEF request_cancel
  <2> QED BY <2>1, <2>3, <2>4
<1>8. ASSUME UNCHANGED managerVars PROVE Goal
  <2>1. UNCHANGED << state_machines, expectations >>
    BY <1>8 DEF managerVars
  <2>2. FuturesAgree(A)'
    BY <1>1, <1>5, <2>1, FuturesStill
  <2> QED BY <2>1, <2>2 DEF DoneStays, FutureOf
<1>9. Goal
  <2> HIDE DEF Goal
  <2>1. ASSUME NEW t \in ActivityTypes, ExecuteActivity(t) PROVE Goal
    BY <1>6, <2>1 DEF ExecuteActivity, schedule_activity
  <2>2. ASSUME StartTimer PROVE Goal
    BY <1>6, <2>2 DEF StartTimer, start_timer
  <2>3. ASSUME NEW id, CancelFuture(id) \/ AutomaticCancel(id) PROVE Goal
    BY <1>7, <2>3 DEF CancelFuture, AutomaticCancel
  <2>4. ASSUME Yield \/ RejectionUnwinds \/ \E outcome : Ends(outcome) PROVE Goal
    BY <1>8, <2>4 DEF Yield, RejectionUnwinds, Ends
  <2> QED BY <2>1, <2>2, <2>3, <2>4 DEF WorkflowNext, Return, continue_as_new
<1>10. FuturesInv'
  BY <1>3, <1>4, <1>9, FuturesNext
<1>11. CancelsExpected'
  <2>1. Pending' \subseteq Pending /\ phase' # "output"
    BY <1>1 DEF Pending
  <2>2. \A i \in DOMAIN expectations, p \in Elems(batch.output) :
            history[p].type = "TimerCanceled" /\ history[p].id = expectations[i].id
                    /\ expectations[i].upcoming = << CANCEL >> =>
                \/ i \in DOMAIN expectations' /\ expectations'[i] = expectations[i]
                \/ /\ history[p].id \in DOMAIN state_machines'
                   /\ FutureOf(history[p].id)' # "pending"
    BY <1>1, <1>9 DEF FutureOf
  <2> QED BY <1>1, <1>2, <1>9, <2>1, <2>2, CancelsStay
<1>12. BoundaryInv' /\ InputInv'
  BY <1>1, <1>2 DEF FlowInv, BoundaryInv, InputInv
<1> QED BY <1>10, <1>11, <1>12 DEF FlowInv

\* But for handing out a task, the service does nothing to an engine at work.
LEMMA ServiceLeavesTheEngine ==
    ASSUME ServiceNext, ~PollDecisionTask
    PROVE  phase' \notin EnginePhases
<1>1. ASSUME NEW events, Arrive(events) PROVE phase' \notin EnginePhases
  BY <1>1 DEF Arrive, engineVars, EnginePhases
<1>2. ASSUME NEW s, NEW type, ActivityCloses(s, type) PROVE phase' \notin EnginePhases
  BY <1>1, <1>2 DEF ActivityCloses
<1>3. ASSUME NEW id, TimerFires(id) PROVE phase' \notin EnginePhases
  BY <1>1, <1>3 DEF TimerFires
<1>4. ASSUME SignalArrives PROVE phase' \notin EnginePhases
  BY <1>1, <1>4 DEF SignalArrives
<1>5. ASSUME \/ DecisionTaskTimesOut \/ RespondDecisionTaskFailed
             \/ RespondDecisionTaskCompleted \/ RecordDecision \/ FinishDecisionTask
      PROVE  phase' \notin EnginePhases
  BY <1>5 DEF DecisionTaskTimesOut, RespondDecisionTaskFailed, RespondDecisionTaskCompleted,
              RecordDecision, FinishDecisionTask, Unsuccessfully, DropEngine, EnginePhases, engineVars
<1> QED BY <1>2, <1>3, <1>4, <1>5 DEF ServiceNext

\* The service hands out a task; all else it does is done without an engine.
LEMMA ServiceKeepsFlow ==
    ASSUME EngineStateInv, FlowInv, ShapeInv', ServiceNext
    PROVE  FlowInv'
<1>1. CASE PollDecisionTask
  <2>1. /\ phase = "idle" /\ phase' = "next" /\ pos' = 1 /\ state_machines' = << >>
    BY <1>1 DEF PollDecisionTask, managerVars, EngineStateInv, IdleInv
  <2>2. BoundaryInv'
    BY <2>1 DEF BoundaryInv, ShapeInv, Shaped, Records
  <2>3. FuturesInv'
    BY <2>1, EmptyIsSeq DEF FuturesInv, FuturesAgree
  <2> QED BY <2>1, <2>2, <2>3 DEF FlowInv, InputInv, CancelsExpected, InBatch
<1>2. CASE ~PollDecisionTask
  BY <1>2, ServiceLeavesTheEngine, LeavesTheFlow
<1> QED BY <1>1, <1>2

\* The decision events of a history are where the engine looks for them:
\* behind the mark of the answer they record.
THEOREM HistoryIsShaped == Spec => []ShapeInv
<1>1. Init => ShapeInv
  <2> SUFFICES ASSUME Init PROVE ShapeInv
    OBVIOUS
  <2>1. /\ DOMAIN history = {1} /\ history[1].type = "WorkflowExecutionStarted" /\ phase = "idle"
    BY DEF Init, Event
  <2> QED BY <2>1 DEF ShapeInv, Shaped, Records, is_decision_event, decision_event_types
<1>2. IInv /\ ReplayInv /\ ShapeInv /\ [Next]_vars => ShapeInv'
  <2> SUFFICES ASSUME IInv, ReplayInv, ShapeInv, [Next]_vars PROVE ShapeInv'
    OBVIOUS
  <2>1. CASE UNCHANGED vars
    BY <2>1 DEF vars, serviceVars, engineVars, ShapeInv, Shaped, Records
  <2>2. CASE ServiceNext
    BY <2>2, ServiceKeepsShape DEF ReplayInv, LastInv
  <2>3. CASE EngineNext \/ WorkflowNext
    <3>1. UNCHANGED history /\ phase' # "record"
      <4>1. ASSUME NEW op, Calls(op) PROVE UNCHANGED history /\ phase' # "record"
        BY <4>1 DEF Calls, serviceVars
      <4>2. ASSUME NEW id, AutomaticCancel(id) PROVE UNCHANGED history /\ phase' # "record"
        BY <4>2 DEF AutomaticCancel, serviceVars, engineVars
      <4>3. CASE WorkflowNext
        BY <4>1, <4>2, <4>3 DEF WorkflowNext, ExecuteActivity, StartTimer, CancelFuture, Return,
                                RejectionUnwinds, continue_as_new, Ends, Yield, serviceVars
      <4>4. CASE EngineNext
        BY <4>4 DEF EngineNext, NextDecisionEvents, CollectDecisions, ApplyInputEvent, StartRun,
                    MaybeCompleteWorkflow, EndExecution, ApplyOutputEvent, FinishBatch, Continue, serviceVars
      <4> QED BY <2>3, <4>3, <4>4
    <3> QED BY <3>1 DEF ShapeInv, Shaped, Records
  <2> QED BY <2>1, <2>2, <2>3 DEF Next
<1> QED BY <1>1, <1>2, Invariance, ReplayIsSound, PTL DEF Spec

\* What the workflow awaits is what history reports.
LEMMA FlowAgrees ==
    ASSUME ~ImmediateCancel, IInv, EngineStateInv, FlowInv
    PROVE  FuturesAgreeWithHistory
<1> SUFFICES ASSUME phase = "run", NEW id \in DOMAIN state_machines \ {COMPLETION_ID}
             PROVE
             LET ended == {i \in 1..(pos - 1) :
                              IF id.type = "ACTIVITY"
                              THEN /\ history[i].type \in activity_close_types
                                   /\ history[history[i].ref].id = id
                              ELSE /\ history[i].type = "TimerFired"
                                   /\ history[i].id = id}
                 GivenUp == IF id.type = "ACTIVITY"
                            THEN state_machines[id].state = "CANCELED_AFTER_REQUESTED"
                            ELSE state_machines[id].state
                                     \in {"CANCELED_AFTER_REQUESTED", "CANCELED_AFTER_RECORDED", "COMPLETED"}
             IN  /\ ended # {} =>
                       \A i \in ended : state_machines[id].future = type_to_action[history[i].type].future
                 /\ ended = {} => state_machines[id].future = IF GivenUp THEN "cancelled" ELSE "pending"
  BY DEF FuturesAgreeWithHistory
<1>1. PICK A : A = Applied
  OBVIOUS
<1>2. phase \in EnginePhases /\ InBatch
  BY DEF EnginePhases, InBatch
<1>3. FuturesAgree(A) /\ EventsAgree(A)
  BY <1>1, <1>2 DEF EngineStateInv, AgreeInv, FlowInv, FuturesInv, Agree, EventsAgree, FuturesAgree
<1> DEFINE IsOver(i) ==
              IF id.type = "ACTIVITY"
              THEN history[i].type \in activity_close_types /\ history[history[i].ref].id = id
              ELSE history[i].type = "TimerFired" /\ history[i].id = id
           ended == {i \in 1..(pos - 1) : IsOver(i)}
<1>4. ASSUME NEW i \in ended PROVE i \in A /\ history[i].type \in Resolvers /\ Subject(i) = id
  <2>1. history[i].type \in Resolvers /\ Subject(i) = id
    BY <1>4 DEF Resolvers, Subject, SubjectIn, activity_close_types, RefTypes
  <2>2. HasHandler(i) /\ ~is_decision_event(history[i])
    BY <2>1 DEF HasHandler, Resolvers, activity_close_types, type_to_action, is_decision_event,
                decision_event_types
  <2>3. i \notin Elems(batch.output)
    BY <1>2, <2>2 DEF EngineStateInv, PlaceInv, BatchInv, Elems
  <2> QED BY <1>1, <1>4, <2>1, <2>2, <2>3 DEF Applied, Pending
<1>5. ASSUME NEW i \in A, history[i].type \in Resolvers, Subject(i) = id PROVE i \in ended
  <2>1. i \in 1..(pos - 1)
    BY <1>1, <1>5 DEF Applied
  <2>2. id.type = type_to_action[history[i].type].type
    BY <1>3, <1>5 DEF EventsAgree
  <2>3. CASE history[i].type = "TimerFired"
    <3>1. id.type = "TIMER"
      BY <2>2, <2>3 DEF type_to_action, Handler
    <3>2. Subject(i) = history[i].id
      BY <2>3 DEF Subject, SubjectIn, RefTypes, activity_close_types
    <3> QED BY <1>5, <2>1, <2>3, <3>1, <3>2
  <2>4. CASE history[i].type \in activity_close_types
    <3>1. id.type = "ACTIVITY"
      BY <2>2, <2>4 DEF type_to_action, Handler, activity_close_types
    <3>2. Subject(i) = history[history[i].ref].id
      BY <2>4 DEF Subject, SubjectIn, RefTypes, activity_close_types
    <3> QED BY <1>5, <2>1, <2>4, <3>1, <3>2
  <2> QED BY <1>5, <2>3, <2>4 DEF Resolvers
<1>6. ASSUME NEW i \in ended PROVE state_machines[id].future = type_to_action[history[i].type].future
  BY <1>3, <1>4, <1>6 DEF FuturesAgree, FutureOf
<1>7. ended = {} => state_machines[id].future = IF GivenUpBy(id) THEN "cancelled" ELSE "pending"
  <2> SUFFICES ASSUME ended = {} PROVE state_machines[id].future = IF GivenUpBy(id) THEN "cancelled" ELSE "pending"
    OBVIOUS
  <2>1. \A i \in A : history[i].type \in Resolvers => Subject(i) # id
    BY <1>5
  <2> HIDE DEF ended
  <2> QED BY <1>3, <2>1 DEF FuturesAgree, FutureOf
<1> QED BY <1>6, <1>7 DEF GivenUpBy, StateOf

\* What is said of the futures of an engine holds in every state.
LEMMA FlowIsKept ==
    ASSUME ~ImmediateCancel
    PROVE  Spec => []FlowInv
<1>1. Init => FlowInv
  BY LeavesTheFlow DEF Init, FlowInv, BoundaryInv, InputInv, CancelsExpected, InBatch, FuturesInv,
                       EnginePhases
<1>2. IInv /\ ReplayInv /\ ShapeInv /\ ShapeInv' /\ FlowInv /\ [Next]_vars => FlowInv'
  <2> SUFFICES ASSUME IInv, ReplayInv, ShapeInv, ShapeInv', FlowInv, [Next]_vars PROVE FlowInv'
    OBVIOUS
  <2>1. CASE UNCHANGED vars
    <3>1. UNCHANGED << managerVars, history, phase, pos, batch, todo, task >>
      BY <2>1 DEF vars, serviceVars, engineVars
    <3>2. Applied' = Applied
      BY <3>1 DEF Applied, HasHandler, Pending
    <3>3. PICK A : A = Applied
      OBVIOUS
    <3>4. phase \in EnginePhases => FuturesAgree(A)
      BY <3>3 DEF FlowInv, FuturesInv, FuturesAgree
    <3>5. FuturesInv'
      BY <3>1, <3>2, <3>3, <3>4, FuturesStill, FuturesNext DEF FuturesInv, managerVars
    <3>6. BoundaryInv' /\ InputInv'
      BY <3>1 DEF FlowInv, BoundaryInv, InputInv, HasHandler
    <3>7. CancelsExpected'
      BY <3>1 DEF FlowInv, CancelsExpected, InBatch, managerVars, Pending, FutureOf
    <3> QED BY <3>5, <3>6, <3>7 DEF FlowInv
  <2>2. HistoryInv /\ EngineStateInv
    BY DEF ReplayInv
  <2> QED BY <2>1, <2>2, EngineKeepsFlow, WorkflowKeepsFlow, ServiceKeepsFlow DEF Next
<1> QED BY <1>1, <1>2, Invariance, ReplayIsSound, HistoryIsShaped, PTL DEF Spec

\* A workflow that cancels no call it made in the same task awaits exactly what
\* history says is still open, whenever its code runs: after every replay, loss
\* of a task and arrival of an event.
THEOREM FuturesFollowHistory ==
    ASSUME ~ImmediateCancel
    PROVE  Spec => []FuturesAgreeWithHistory
<1>1. IInv /\ ReplayInv /\ FlowInv => FuturesAgreeWithHistory
  BY FlowAgrees DEF ReplayInv
<1> QED BY <1>1, FlowIsKept, Invariance, ReplayIsSound, PTL

-----------------------------------------------------------------------------
(* What replay acknowledges                                                *)

\* Nothing is to be told about an activity or a timer.
Silent(id) ==
    StateOf(id) \notin {"REQUESTED", "CANCELED_AFTER_REQUESTED", "CANCELED_AFTER_RECORDED"}

\* Nothing is to be told at all, but the completion.
Settled == \A id \in DOMAIN state_machines \ {COMPLETION_ID} : Silent(id)

\* The batch records a decision of this id, and the event is still to come.
Recording(id) ==
    \E p \in Elems(batch.output) \cap Pending :
        history[p].id = id /\ history[p].type \in StartTypes \cup CancelTypes

\* What the tracker still expects is what the batch records.
Foretold ==
    phase \in {"input", "run", "complete", "end"} =>
        \A i \in Expected :
            \E p \in Elems(batch.output) :
                /\ history[p].id = expectations[i].id
                /\ history[p].type \in StartTypes \cup CancelTypes

\* Only the last batch is not a replay.
LiveIsLast == InBatch /\ ~batch.replay => pos > Len(history)

\* What the code of a batch asked for is recorded by the batch; all before it
\* is settled.  A tracker that has turned a call down vouches for nothing.
AckInv ==
    /\ Foretold
    /\ LiveIsLast
    /\ phase = "next" /\ (batch.replay \/ pos <= Len(history)) /\ ~failed => Settled
    /\ phase = "input" /\ ~failed => Settled
    /\ InBatch /\ batch.replay /\ ~failed =>
           \A id \in DOMAIN state_machines \ {COMPLETION_ID} : Silent(id) \/ Recording(id)

\* What the tracker takes from an output event is the start or the
\* cancellation of an activity or a timer.
LEMMA BindingEvents ==
    ASSUME ~ImmediateCancel, HistoryInv, phase \in EnginePhases,
           NEW p \in DOMAIN history, is_decision_event(history[p]), upcomingFor(history[p]) # << >>
    PROVE  history[p].type \in StartTypes \cup CancelTypes
<1>1. history[p].type \notin close_types
  BY DEF HistoryInv, PhaseInv, Closed, EnginePhases
<1>2. history[p].type \notin {"MarkerRecorded", "CancelTimerFailed"}
  BY DEF HistoryInv, WrittenInv, Written, Follows
<1>3. history[p].type # "RequestCancelActivityTaskFailed"
  BY DEF upcomingFor, AttemptsCancel
<1> QED BY <1>1, <1>2, <1>3 DEF is_decision_event, decision_event_types, close_types, StartTypes, CancelTypes

\* Using an expectation up makes no new one.
LEMMA ConsumedExpected ==
    ASSUME TrackerInv, NEW id, NEW props, Accepted(id, props), NEW f, f = Consumed(id),
           NEW i \in DOMAIN f, f[i].upcoming # << >>
    PROVE  i \in Expected /\ f[i].id = expectations[i].id
<1>1. CASE ~replaying
  BY <1>1 DEF Consumed, Expected
<1>2. CASE replaying
  <2>1. \E j \in Expected : expectations[j].id = id
    BY <1>2 DEF Accepted, Validates
  <2>2. PICK j : j = EntryOf(id)
    OBVIOUS
  <2>3. j \in Expected /\ j \in DOMAIN expectations
    BY <2>1, <2>2 DEF EntryOf, Expected
  <2>4. f = [expectations EXCEPT ![j].upcoming = Tail(@)]
    BY <1>2, <2>2 DEF Consumed, Consume
  <2>5. EntryOK(expectations[j])
    BY <2>3 DEF TrackerInv
  <2>6. f[j].id = expectations[j].id
    BY <2>3, <2>4, <2>5 DEF EntryOK
  <2>7. CASE i = j
    BY <2>3, <2>6, <2>7
  <2>8. CASE i # j
    BY <2>4, <2>8 DEF Expected
  <2> QED BY <2>7, <2>8
<1> QED BY <1>1, <1>2

\* Within a batch.
LEMMA AckStays ==
    ASSUME AckInv, InBatch, InBatch', UNCHANGED << history, pos, batch >>,
           phase' # "output" =>
               /\ phase # "output"
               /\ \A i \in DOMAIN expectations' : expectations'[i].upcoming # << >> =>
                      i \in Expected /\ expectations'[i].id = expectations[i].id,
           phase' = "input" /\ ~failed' => Settled',
           batch.replay /\ ~failed' =>
               \A id \in DOMAIN state_machines' \ {COMPLETION_ID} : Silent(id)' \/ Recording(id)'
    PROVE  AckInv'
<1>1. Foretold'
  <2> SUFFICES ASSUME phase' \in {"input", "run", "complete", "end"}, NEW i \in Expected'
               PROVE  \E p \in Elems(batch.output) :
                          /\ history[p].id = expectations'[i].id
                          /\ history[p].type \in StartTypes \cup CancelTypes
    BY DEF Foretold, Elems
  <2>1. i \in Expected /\ expectations'[i].id = expectations[i].id
    BY DEF Expected
  <2> QED BY <2>1 DEF AckInv, Foretold, InBatch, EnginePhases
<1>2. LiveIsLast'
  BY DEF AckInv, LiveIsLast
<1> QED BY <1>1, <1>2 DEF AckInv, InBatch, EnginePhases

\* A new batch.
LEMMA NextBatchKeepsAck ==
    ASSUME ~ImmediateCancel, IInv, ReplayOver, HistoryInv, EngineStateInv, AckInv,
           NextDecisionEvents, phase' = "input"
    PROVE  AckInv'
<1>1. /\ phase = "next" /\ pos \in Nat \ {0}
      /\ expectations' = expectations \o
             [i \in DOMAIN OutputEvents(batch') |-> Expectation(OutputEvents(batch')[i])]
      /\ pos' = batch'.next
      /\ UNCHANGED << serviceVars, task, state_machines >>
  BY NextBatchFacts DEF EngineStateInv
<1>2. PICK s : IsBatch(history, pos, batch', s)
  BY NextBatchFacts DEF EngineStateInv
<1>3. PlaceInv' /\ history' = history
  BY <1>1, NextBatchIsInPlace DEF EngineStateInv, serviceVars
<1>10. failed' = failed
  BY DEF NextDecisionEvents, RaiseInEngine, start_execution
<1>4. PICK b : b = batch'
  OBVIOUS
<1>5. pos \in Nat /\ Len(history) \in Nat /\ s \in pos..Len(history) /\ DOMAIN history = 1..Len(history)
  BY <1>1, <1>2, LenProperties DEF IsBatch, IInv, ServiceInv, IsSeq
<1>6. ~failed => Settled
  BY <1>1, <1>5 DEF AckInv
<1>7. ~failed' => Settled'
  BY <1>1, <1>6, <1>10 DEF Settled, Silent, StateOf
<1>8. LiveIsLast'
  <2> SUFFICES ASSUME ~b.replay PROVE b.next > Len(history)
    BY <1>1, <1>3, <1>4 DEF LiveIsLast
  <2>1. ~(s < Len(history)) /\ b.next \in (s + 1)..(Len(history) + 1)
    BY <1>2, <1>4 DEF IsBatch
  <2> QED BY <1>5, <2>1
<1>9. Foretold'
  <2> SUFFICES ASSUME NEW i \in Expected'
               PROVE  \E p \in Elems(b.output) :
                          /\ history[p].id = expectations'[i].id
                          /\ history[p].type \in StartTypes \cup CancelTypes
    BY <1>3, <1>4 DEF Foretold, Elems
  <2>1. Expected = {} /\ IsSeq(expectations)
    BY <1>1 DEF ReplayOver, IInv, ManagerInv, TrackerInv, TrackerHoldsOneEntry
  <2>2. PICK n \in Nat : n = Len(b.output) /\ DOMAIN b.output = 1..n
    BY <1>3, <1>4, LenProperties DEF PlaceInv, BatchInv, InBatch, EnginePhases, IsSeq
  <2>3. IsSeq(OutputEvents(b)) /\ DOMAIN OutputEvents(b) = 1..n
    BY <2>2, OutputEventsIsSeq
  <2>4. PICK added : added = [k \in 1..n |-> Expectation(OutputEvents(b)[k])]
    OBVIOUS
  <2>5. IsSeq(added) /\ DOMAIN added = 1..n /\ Len(added) = n
    BY <2>2, <2>4, FunctionIsSeq
  <2>6. expectations' = expectations \o added
    BY <1>1, <1>4, <2>3, <2>4
  <2>7. i \in DOMAIN (expectations \o added) /\ (expectations \o added)[i].upcoming # << >>
    BY <2>6 DEF Expected
  <2>8. CASE i \in DOMAIN expectations
    <3>1. (expectations \o added)[i] = expectations[i]
      BY <2>1, <2>5, <2>8, ConcatPositions
    <3> QED BY <2>1, <2>7, <2>8, <3>1 DEF Expected
  <2>9. CASE i \notin DOMAIN expectations
    <3>1. PICK k \in DOMAIN added : i = Len(expectations) + k
      BY <2>1, <2>5, <2>7, <2>9, ConcatPositions
    <3>2. expectations'[i] = added[k]
      BY <2>1, <2>5, <2>6, <3>1, ConcatPositions
    <3>3. PICK p : p = b.output[k]
      OBVIOUS
    <3>4. added[k] = Expectation(history[p])
      BY <2>2, <2>4, <2>5, <3>1, <3>3 DEF OutputEvents
    <3>5. p \in Elems(b.output)
      BY <2>2, <2>5, <3>1, <3>3 DEF Elems
    <3>6. p \in DOMAIN history /\ is_decision_event(history[p])
      <4>1. PICK f \in Nat : f = First' /\ p = f + k - 1 /\ is_decision_event(history[f + k - 1])
        BY <1>3, <1>4, <2>2, <2>5, <3>1, <3>3 DEF PlaceInv, BatchInv, InBatch, EnginePhases
      <4>2. PICK g : g = IF b.replay THEN s + 2 ELSE s + 1
        OBVIOUS
      <4>3. g \in Nat /\ g >= 1
        BY <1>1, <1>5, <4>2
      <4>4. b.output = [j \in 1..(b.next - g) |-> g + j - 1] /\ b.next \in g..(Len(history) + 1)
        BY <1>2, <1>4, <4>2 DEF IsBatch
      <4>5. k \in 1..(b.next - g)
        BY <2>2, <2>5, <3>1, <4>4
      <4>6. p = g + k - 1
        BY <3>3, <4>4, <4>5
      <4>7. PICK m : m = Len(history)
        OBVIOUS
      <4>8. m \in Nat /\ b.next \in g..(m + 1)
        BY <1>5, <4>4, <4>7
      <4>9. p \in 1..m
        BY <4>3, <4>5, <4>6, <4>8
      <4> QED BY <1>5, <4>1, <4>7, <4>9
    <3>7. history[p].id = expectations'[i].id /\ upcomingFor(history[p]) # << >>
      BY <2>6, <2>7, <3>2, <3>4 DEF Expectation
    <3>8. history[p].type \in StartTypes \cup CancelTypes
      BY <1>1, <3>6, <3>7, BindingEvents DEF EnginePhases
    <3> QED BY <3>5, <3>7, <3>8
  <2> QED BY <2>8, <2>9
<1> QED BY <1>7, <1>8, <1>9 DEF AckInv, Settled

\* Without an engine at work there is nothing to acknowledge.
LEMMA LeavesAck ==
    ASSUME phase' \notin EnginePhases
    PROVE  AckInv'
BY DEF AckInv, Foretold, LiveIsLast, InBatch, EnginePhases

\* An event that is handled makes the machine it is about silent, or leaves it.
LEMMA EventKeepsAck ==
    ASSUME ~ImmediateCancel, IInv, HistoryInv, EngineStateInv, AckInv,
           phase \in {"input", "output"}, phase' = phase,
           todo # << >>, todo' = Tail(todo), UNCHANGED << history, pos, batch >>,
           handle_history_event(history[Head(todo)], Head(todo)), raised' = "none"
    PROVE  AckInv'
<1>1. InBatch /\ InBatch' /\ phase \in EnginePhases
  BY DEF InBatch, EnginePhases
<1>2. UNCHANGED << expectations, failed >>
  BY Zenon DEF handle_history_event
<1>3. PICK p : p = Head(todo)
  OBVIOUS
<1>4. /\ Elems(batch.output) \cap Pending \subseteq (Elems(batch.output) \cap Pending') \cup {p}
      /\ phase = "input" => Elems(batch.output) \subseteq Pending'
  <2>1. IsSeq(todo)
    BY <1>1 DEF EngineStateInv, PlaceInv, BatchInv
  <2>2. Elems(todo) \subseteq Elems(Tail(todo)) \cup {p}
    <3> SUFFICES ASSUME NEW k \in DOMAIN todo PROVE todo[k] \in Elems(Tail(todo)) \cup {p}
      BY DEF Elems
    <3>1. k = 1 \/ k - 1 \in DOMAIN Tail(todo)
      BY <2>1, HeadAndTail
    <3>2. CASE k = 1
      BY <1>3, <2>1, <3>2, HeadAndTail
    <3>3. CASE k - 1 \in DOMAIN Tail(todo)
      <4>1. PICK j : j = k - 1
        OBVIOUS
      <4>2. k = j + 1
        BY <2>1, <4>1, HeadAndTail
      <4>3. Tail(todo)[j] = todo[k]
        BY <2>1, <3>3, <4>1, <4>2, HeadAndTail
      <4> QED BY <3>3, <4>1, <4>3 DEF Elems
    <3> QED BY <3>1, <3>2, <3>3
  <2> QED BY <2>2 DEF Pending, Elems
<1>5. CASE ~HasHandler(p)
  <2>1. UNCHANGED state_machines
    BY Zenon, <1>3, <1>5 DEF handle_history_event, HasHandler
  <2>2. ASSUME NEW id, Recording(id) PROVE Recording(id)'
    <3>1. PICK q \in Elems(batch.output) \cap Pending :
              history[q].id = id /\ history[q].type \in StartTypes \cup CancelTypes
      BY <2>2 DEF Recording
    <3>2. q # p
      BY <1>5, <3>1 DEF HasHandler, type_to_action, StartTypes, CancelTypes
    <3> QED BY <1>4, <3>1, <3>2 DEF Recording, Elems
  <2>3. phase = "input" /\ ~failed => Settled'
    BY <2>1 DEF AckInv, Settled, Silent, StateOf
  <2>4. batch.replay /\ ~failed' =>
            \A id \in DOMAIN state_machines' \ {COMPLETION_ID} : Silent(id)' \/ Recording(id)'
    BY <1>1, <1>2, <2>1, <2>2 DEF AckInv, Silent, StateOf
  <2> QED BY <1>1, <1>2, <2>3, <2>4, AckStays DEF Expected
<1>6. CASE HasHandler(p)
  <2>1. PICK A : A = Applied
    OBVIOUS
  <2>2. AliasesAgree(A)
    BY <1>1, <2>1 DEF EngineStateInv, AgreeInv, Agree, AliasesAgree
  <2>3. PICK x : x = Subject(p)
    OBVIOUS
  <2>4. PICK h : h = type_to_action[history[p].type]
    OBVIOUS
  <2>5. /\ x \in DOMAIN state_machines \ {COMPLETION_ID}
        /\ state_machines' = [state_machines EXCEPT ![x] = Handled(h, @)]
    BY <1>3, <1>6, <2>2, <2>3, <2>4, EventFindsItsMachine
  <2>6. h.to \in {"keep", "RECORDED", "COMPLETED", "CANCELLATION_RECORDED"}
    BY <1>6, <2>4, HandlerTable DEF HasHandler
  <2>7. MachineOK(state_machines[x])
    BY <2>5 DEF IInv, ManagerInv, MachinesInv
  <2>8. StateOf(x)' = IF h.to = "keep" THEN StateOf(x) ELSE h.to
    BY <2>5, <2>7 DEF StateOf, Handled, MachineOK
  <2>9. /\ DOMAIN state_machines' = DOMAIN state_machines
        /\ \A id \in DOMAIN state_machines \ {x} : StateOf(id)' = StateOf(id)
    BY <2>5 DEF StateOf
  <2>10. \A id \in DOMAIN state_machines : Silent(id) => Silent(id)'
    BY <2>6, <2>8, <2>9 DEF Silent
  <2>11. phase = "input" /\ ~failed => Settled'
    BY <2>9, <2>10 DEF AckInv, Settled
  <2>12. ASSUME NEW id \in DOMAIN state_machines, Recording(id) PROVE Silent(id)' \/ Recording(id)'
    <3>1. PICK q \in Elems(batch.output) \cap Pending :
              history[q].id = id /\ history[q].type \in StartTypes \cup CancelTypes
      BY <2>12 DEF Recording
    <3>2. CASE q # p
      BY <1>4, <3>1, <3>2 DEF Recording, Elems
    <3>3. CASE q = p
      <4>1. x = id
        BY <2>3, <3>1, <3>3 DEF Subject, SubjectIn, StartTypes, CancelTypes, RefTypes, activity_close_types
      <4>2. h.to # "keep"
        BY <1>6, <2>4, <3>1, <3>3, HandlerTable DEF HasHandler, StartTypes, CancelTypes
      <4> QED BY <2>6, <2>8, <4>1, <4>2 DEF Silent
    <3> QED BY <3>2, <3>3
  <2>13. batch.replay /\ ~failed' =>
            \A id \in DOMAIN state_machines' \ {COMPLETION_ID} : Silent(id)' \/ Recording(id)'
    <3> SUFFICES ASSUME batch.replay, ~failed',
                        NEW id \in DOMAIN state_machines \ {COMPLETION_ID}
                 PROVE  Silent(id)' \/ Recording(id)'
      BY <2>9
    <3>1. Silent(id) \/ Recording(id)
      BY <1>1, <1>2 DEF AckInv
    <3> QED BY <2>10, <2>12, <3>1
  <2> QED BY <1>1, <1>2, <2>11, <2>13, AckStays DEF Expected
<1> QED BY <1>5, <1>6

\* Within a batch, when the machines keep their states.
LEMMA AckMovesOn ==
    ASSUME AckInv, InBatch, InBatch', UNCHANGED << history, pos, batch >>,
           \A id \in DOMAIN state_machines' \ {COMPLETION_ID} :
               id \in DOMAIN state_machines /\ StateOf(id)' = StateOf(id),
           phase # "output", phase' # "input",
           Elems(batch.output) \cap Pending \subseteq Pending',
           phase' # "output" =>
               \A i \in DOMAIN expectations' : expectations'[i].upcoming # << >> =>
                   i \in Expected /\ expectations'[i].id = expectations[i].id,
           failed => failed'
    PROVE  AckInv'
<1>1. ASSUME NEW id, Recording(id) PROVE Recording(id)'
  BY <1>1 DEF Recording, Elems
<1>2. ASSUME batch.replay, ~failed',
             NEW id \in DOMAIN state_machines' \ {COMPLETION_ID}
      PROVE  Silent(id)' \/ Recording(id)'
  <2>1. Silent(id) \/ Recording(id)
    BY <1>2 DEF AckInv
  <2>2. Silent(id) => Silent(id)'
    BY DEF Silent
  <2> QED BY <1>1, <2>1, <2>2
<1> QED BY <1>2, AckStays

\* The engine.
LEMMA EngineKeepsAck ==
    ASSUME ~ImmediateCancel, IInv, ReplayOver, HistoryInv, EngineStateInv, AckInv, EngineNext
    PROVE  AckInv'
<1>1. CASE NextDecisionEvents
  <2>1. phase' = "input" \/ phase' \notin EnginePhases
    BY <1>1 DEF NextDecisionEvents, Continue, EnginePhases
  <2> QED BY <1>1, <2>1, NextBatchKeepsAck, LeavesAck
<1>2. CASE CollectDecisions
  BY <1>2, LeavesAck DEF CollectDecisions, EnginePhases
<1>3. CASE ApplyInputEvent
  <2>1. phase' = "failed" \/ (phase' = "input" /\ raised' = "none")
    BY <1>3 DEF ApplyInputEvent, Continue
  <2>2. CASE phase' = "failed"
    BY <2>2, LeavesAck DEF EnginePhases
  <2>3. CASE phase' = "input" /\ raised' = "none"
    BY <1>3, <2>3, EventKeepsAck DEF ApplyInputEvent, serviceVars
  <2> QED BY <2>1, <2>2, <2>3
<1>4. CASE StartRun
  <2>1. Elems(batch.output) \cap Pending \subseteq Pending'
    BY <1>4 DEF StartRun, Pending, Elems
  <2> QED BY <1>4, <2>1, AckMovesOn
      DEF StartRun, managerVars, serviceVars, InBatch, EnginePhases, Expected, StateOf
<1>5. CASE MaybeCompleteWorkflow
  <2>1. /\ phase = "complete" /\ UNCHANGED << history, pos, batch, todo, task >>
        /\ \/ phase' = "failed"
           \/ phase' = "end" /\ (UNCHANGED managerVars \/ complete_workflow(task))
    BY <1>5 DEF MaybeCompleteWorkflow, Continue, serviceVars
  <2>2. CASE phase' = "failed"
    BY <2>2, LeavesAck DEF EnginePhases
  <2>3. CASE phase' = "end" /\ UNCHANGED managerVars
    <3>1. Elems(batch.output) \cap Pending \subseteq Pending'
      BY <2>1, <2>3 DEF Pending, Elems
    <3> QED BY <2>1, <2>3, <3>1, AckMovesOn DEF managerVars, InBatch, EnginePhases, Expected, StateOf
  <2>4. CASE phase' = "end" /\ complete_workflow(task)
    <3>1. Elems(batch.output) \cap Pending \subseteq Pending'
      BY <2>1, <2>4 DEF Pending, Elems
    <3>2. \A id \in DOMAIN state_machines' \ {COMPLETION_ID} :
              id \in DOMAIN state_machines /\ StateOf(id)' = StateOf(id)
      BY <2>4 DEF complete_workflow, Add, StateOf
    <3>3. \/ expectations' = expectations
          \/ /\ Accepted(COMPLETION_ID, CompletionProps(task))
             /\ expectations' = Consumed(COMPLETION_ID)
      BY <2>4 DEF complete_workflow
    <3>4. ASSUME NEW i \in DOMAIN expectations', expectations'[i].upcoming # << >>
          PROVE  i \in Expected /\ expectations'[i].id = expectations[i].id
      <4>1. CASE expectations' = expectations
        BY <3>4, <4>1 DEF Expected
      <4>2. CASE /\ Accepted(COMPLETION_ID, CompletionProps(task))
                 /\ expectations' = Consumed(COMPLETION_ID)
        BY <3>4, <4>2, ConsumedExpected DEF IInv, ManagerInv
      <4> QED BY <3>3, <4>1, <4>2
    <3>5. failed => failed'
      BY <2>4 DEF complete_workflow, Reject
    <3> QED BY <2>1, <2>4, <3>1, <3>2, <3>4, <3>5, AckMovesOn DEF InBatch, EnginePhases
  <2> QED BY <2>1, <2>2, <2>3, <2>4
<1>6. CASE EndExecution
  <2>1. phase' = "failed" \/ phase' = "output"
    BY <1>6 DEF EndExecution, Continue
  <2>2. phase = "end" /\ Elems(batch.output) \cap Pending \subseteq Elems(todo')
    BY <1>6 DEF EndExecution, Pending
  <2>3. phase' = "output" => Elems(batch.output) \cap Pending \subseteq Pending'
    BY <1>6, <2>2 DEF EndExecution, Pending, Elems
  <2>4. CASE phase' = "output"
    BY <1>6, <2>2, <2>3, <2>4, AckMovesOn
    DEF EndExecution, end_execution, Reject, serviceVars, InBatch, EnginePhases, StateOf
  <2> QED BY <2>1, <2>4, LeavesAck DEF EnginePhases
<1>7. CASE ApplyOutputEvent
  <2>1. phase' = "failed" \/ (phase' = "output" /\ raised' = "none")
    BY <1>7 DEF ApplyOutputEvent, Continue
  <2>2. CASE phase' = "failed"
    BY <2>2, LeavesAck DEF EnginePhases
  <2>3. CASE phase' = "output" /\ raised' = "none"
    BY <1>7, <2>3, EventKeepsAck DEF ApplyOutputEvent, serviceVars
  <2> QED BY <2>1, <2>2, <2>3
<1>8. CASE FinishBatch
  <2>1. /\ phase = "output" /\ todo = << >> /\ phase' = "next"
        /\ UNCHANGED << history, pos, batch, todo, state_machines, task >>
    BY <1>8 DEF FinishBatch, managerVars, serviceVars
  <2>2. InBatch /\ Pending = {} /\ failed' = failed
    BY <1>8, <2>1 DEF InBatch, EnginePhases, Pending, Elems, FinishBatch, managerVars
  <2>3. \A id : ~Recording(id)
    BY <2>2 DEF Recording
  <2>4. batch.replay /\ ~failed => Settled'
    BY <2>1, <2>2, <2>3 DEF AckInv, Settled, Silent, StateOf
  <2>5. ~batch.replay => ~(pos <= Len(history))
    <3>1. pos \in Nat /\ Len(history) \in Nat
      BY LenProperties DEF IInv, ServiceInv, IsSeq
    <3> QED BY <2>2, <3>1 DEF AckInv, LiveIsLast
  <2> QED BY <2>1, <2>2, <2>4, <2>5 DEF AckInv, Foretold, LiveIsLast, InBatch, Settled
<1> QED BY <1>1, <1>2, <1>3, <1>4, <1>5, <1>6, <1>7, <1>8 DEF EngineNext

\* What the workflow asks for in replay is recorded, or it is turned down.
LEMMA WorkflowKeepsAck ==
    ASSUME ~ImmediateCancel, IInv, EngineStateInv, AckInv, WorkflowNext
    PROVE  AckInv'
<1>1. /\ phase = "run" /\ phase' \in {"run", "complete"}
      /\ UNCHANGED << history, pos, batch, todo >>
  <2>1. ASSUME NEW op, Calls(op) PROVE phase = "run" /\ UNCHANGED << phase, history, pos, batch, todo >>
    BY <2>1 DEF Calls, serviceVars
  <2>2. ASSUME NEW id, AutomaticCancel(id)
        PROVE  phase = "run" /\ UNCHANGED << phase, history, pos, batch, todo >>
    BY <2>2 DEF AutomaticCancel, engineVars, serviceVars
  <2>3. ASSUME Yield
        PROVE  phase = "run" /\ phase' = "complete" /\ UNCHANGED << history, pos, batch, todo >>
    BY <2>3 DEF Yield, managerVars, serviceVars
  <2>4. ASSUME \/ \E t \in ActivityTypes : ExecuteActivity(t)
               \/ StartTimer
               \/ \E id \in DOMAIN state_machines : CancelFuture(id)
               \/ \E outcome \in Outcomes : Ends(outcome)
        PROVE  \E op : Calls(op)
    BY <2>4 DEF ExecuteActivity, StartTimer, CancelFuture, Ends
  <2>5. ASSUME RejectionUnwinds
        PROVE  phase = "run" /\ UNCHANGED << phase, history, pos, batch, todo >>
    BY <2>5 DEF RejectionUnwinds, serviceVars
  <2> QED BY <2>1, <2>2, <2>3, <2>4, <2>5 DEF WorkflowNext, Return, continue_as_new
<1>2. InBatch /\ InBatch' /\ PlaceInv /\ phase \in EnginePhases
  BY <1>1 DEF InBatch, EnginePhases, EngineStateInv
<1>3. Pending = Elems(batch.output) /\ Pending' = Elems(batch.output)
  BY <1>1 DEF Pending, Elems
<1>4. ASSUME NEW id, NEW props, replaying, Accepted(id, props) PROVE Recording(id)'
  <2>1. PICK i \in Expected : expectations[i].id = id
    BY <1>4 DEF Accepted, Validates
  <2>2. PICK p \in Elems(batch.output) : history[p].id = id /\ history[p].type \in StartTypes \cup CancelTypes
    BY <1>1, <2>1 DEF AckInv, Foretold
  <2> QED BY <1>1, <1>3, <2>2 DEF Recording, Elems
<1>5. batch.replay => replaying
  BY <1>1, <1>2 DEF PlaceInv, BatchInv
<1>6. ASSUME NEW id, Recording(id) PROVE Recording(id)'
  BY <1>1, <1>3, <1>6 DEF Recording, Elems
<1>7. ASSUME NEW id, NEW props,
             expectations' = expectations \/ (Accepted(id, props) /\ expectations' = Consumed(id)),
             failed => failed',
             \A j \in DOMAIN state_machines' \ {id, COMPLETION_ID} :
                 j \in DOMAIN state_machines /\ StateOf(j)' = StateOf(j),
             id \in DOMAIN state_machines' \ {COMPLETION_ID} =>
                 \/ id \in DOMAIN state_machines /\ StateOf(id)' = StateOf(id)
                 \/ Accepted(id, props)
                 \/ failed'
      PROVE  AckInv'
  <2>1. ASSUME NEW i \in DOMAIN expectations', expectations'[i].upcoming # << >>
        PROVE  i \in Expected /\ expectations'[i].id = expectations[i].id
    <3>1. CASE expectations' = expectations
      BY <2>1, <3>1 DEF Expected
    <3>2. CASE Accepted(id, props) /\ expectations' = Consumed(id)
      BY <2>1, <3>2, ConsumedExpected DEF IInv, ManagerInv
    <3> QED BY <1>7, <3>1, <3>2
  <2>2. ASSUME batch.replay, ~failed',
               NEW j \in DOMAIN state_machines' \ {COMPLETION_ID}
        PROVE  Silent(j)' \/ Recording(j)'
    <3>1. ~failed
      BY <1>7, <2>2
    <3>2. CASE j \in DOMAIN state_machines /\ StateOf(j)' = StateOf(j)
      <4>1. Silent(j) \/ Recording(j)
        BY <1>2, <2>2, <3>1, <3>2 DEF AckInv
      <4>2. Silent(j) => Silent(j)'
        BY <3>2 DEF Silent
      <4> QED BY <1>6, <4>1, <4>2
    <3>3. CASE j = id /\ Accepted(id, props)
      BY <1>4, <1>5, <2>2, <3>3
    <3> QED BY <1>7, <2>2, <3>2, <3>3
  <2> QED BY <1>1, <1>2, <2>1, <2>2, AckStays
<1>8. ASSUME NEW type, NEW props, NEW request, Request(type, props, request)
      PROVE  AckInv'
  <2>1. PICK id : id = DecisionId(type, id_counter)
    OBVIOUS
  <2>2. expectations' = expectations \/ (Accepted(id, props) /\ expectations' = Consumed(id))
    BY <1>8, <2>1 DEF Request
  <2>3. failed => failed'
    BY <1>8 DEF Request, Reject
  <2>4. \A j \in DOMAIN state_machines' \ {id, COMPLETION_ID} :
            j \in DOMAIN state_machines /\ StateOf(j)' = StateOf(j)
    BY <1>8, <2>1 DEF Request, Add, StateOf
  <2>5. Accepted(id, props) \/ state_machines' = state_machines
    BY <1>8, <2>1 DEF Request
  <2> QED BY <1>7, <2>2, <2>3, <2>4, <2>5 DEF StateOf
<1>9. ASSUME NEW id, request_cancel(id)
      PROVE  AckInv'
  <2>1. \A j \in DOMAIN state_machines' \ {id, COMPLETION_ID} :
            j \in DOMAIN state_machines /\ StateOf(j)' = StateOf(j)
    BY <1>9 DEF request_cancel, StateOf
  <2>2. /\ expectations' = expectations \/ (Accepted(id, CANCEL) /\ expectations' = Consumed(id))
        /\ \/ state_machines' = state_machines
           \/ failed' \/ Accepted(id, CANCEL)
        /\ failed => failed'
    BY <1>9 DEF request_cancel, Reject
  <2>3. \/ id \in DOMAIN state_machines /\ StateOf(id)' = StateOf(id)
        \/ Accepted(id, CANCEL)
        \/ failed'
    BY <1>9, <2>2 DEF StateOf, request_cancel
  <2> QED BY <1>7, <2>1, <2>2, <2>3
<1>10. CASE UNCHANGED managerVars
  <2>1. UNCHANGED << state_machines, expectations, failed >>
    BY <1>10 DEF managerVars
  <2>2. \A i \in DOMAIN expectations' : expectations'[i].upcoming # << >> =>
            i \in Expected /\ expectations'[i].id = expectations[i].id
    BY <2>1 DEF Expected
  <2> QED BY <1>1, <1>2, <1>3, <2>1, <2>2, AckMovesOn DEF StateOf
<1>11. ASSUME NEW t \in ActivityTypes, ExecuteActivity(t) PROVE AckInv'
  BY <1>8, <1>11 DEF ExecuteActivity, schedule_activity
<1>12. ASSUME StartTimer PROVE AckInv'
  BY <1>8, <1>12 DEF StartTimer, start_timer
<1>13. ASSUME NEW id, CancelFuture(id) PROVE AckInv'
  BY <1>9, <1>13 DEF CancelFuture
<1>14. ASSUME NEW id, AutomaticCancel(id) PROVE AckInv'
  BY <1>9, <1>14 DEF AutomaticCancel
<1> QED BY <1>10, <1>11, <1>12, <1>13, <1>14
    DEF WorkflowNext, RejectionUnwinds, Return, continue_as_new, Ends, Yield

\* A new engine has no machines; all else the service does leaves none at work.
LEMMA ServiceKeepsAck ==
    ASSUME EngineStateInv, ServiceNext
    PROVE  AckInv'
<1>1. CASE PollDecisionTask
  <2>1. phase' = "next" /\ state_machines' = << >>
    BY <1>1 DEF PollDecisionTask, managerVars, EngineStateInv, IdleInv
  <2> QED BY <2>1, EmptyIsSeq DEF AckInv, Foretold, LiveIsLast, InBatch, Settled
<1>2. CASE ~PollDecisionTask
  BY <1>2, ServiceLeavesTheEngine, LeavesAck
<1> QED BY <1>1, <1>2

\* A workflow that cancels no call it made in the same task is told, by the
\* events of a replayed batch, of all that the batch decided, unless the tracker
\* turned one of its calls down in this task.
THEOREM ReplayAcknowledges ==
    ASSUME ~ImmediateCancel
    PROVE  Spec => []AckInv
<1>1. Init => ReplayOver /\ AckInv
  BY LeavesAck DEF Init, ManagerInit, ReplayOver, AckInv, Foretold, LiveIsLast, InBatch, EnginePhases
<1>2. ReplayOver /\ [Next]_vars => ReplayOver'
  BY ReplayOverKept
<1>3. IInv /\ ReplayInv /\ ReplayOver /\ AckInv /\ [Next]_vars => AckInv'
  <2> SUFFICES ASSUME IInv, ReplayInv, ReplayOver, AckInv, [Next]_vars PROVE AckInv'
    OBVIOUS
  <2>1. CASE UNCHANGED vars
    BY <2>1 DEF vars, managerVars, serviceVars, engineVars, AckInv, Foretold, LiveIsLast, InBatch, Expected,
                Settled, Silent, StateOf, Recording, Pending
  <2> QED BY <2>1, EngineKeepsAck, WorkflowKeepsAck, ServiceKeepsAck DEF Next, ReplayInv
<1> QED BY <1>1, <1>2, <1>3, Invariance, ReplayIsSound, PTL DEF Spec

=============================================================================
