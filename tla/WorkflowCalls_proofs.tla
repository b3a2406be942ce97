------------------------- MODULE WorkflowCalls_proofs -------------------------
(***************************************************************************)
(* That the code of a deterministic workflow is never turned down when it  *)
(* is replayed: the manager is what the calls of a batch make of it, an    *)
(* answer says what those calls want, history records what was answered,   *)
(* and the replay, which makes the same calls, therefore makes those the   *)
(* tracker expects.                                                        *)
(***************************************************************************)
EXTENDS WorkflowRebuild_proofs

-----------------------------------------------------------------------------
(* The calls of a batch                                                    *)

\* The i-th of the calls o makes an activity or a timer; how many do; and its
\* number if the first is v[1], where v is what the code found.
Makes(o, i) == o[i][1] \in {"execute_activity", "start_timer"}
MadeIn(o) == Cardinality({i \in DOMAIN o : Makes(o, i)})
Number(v, o, i) == v[1] + Cardinality({j \in 1..(i - 1) : Makes(o, j)})

\* A call that cancels.
Cancels(op, id) == op = << "cancel", id >>

\* It is the first to cancel what was found waiting for its end.
GivesUp(v, o, i, id) ==
    /\ o[i] = << "cancel", id >>
    /\ id \in DOMAIN v[3] /\ v[3][id].state = "RECORDED"
    /\ \A j \in 1..(i - 1) : o[j] # o[i]

\* What it asks of the service is about this id and has these properties.
Wants(v, o, i, id, props) ==
    \/ \E t \in ActivityTypes : /\ o[i] = << "execute_activity", t >>
                                /\ id = DecisionId("ACTIVITY", Number(v, o, i))
                                /\ props = ActivityProps(t)
    \/ o[i] = << "start_timer" >> /\ id = DecisionId("TIMER", Number(v, o, i)) /\ props = TimerProps
    \/ GivesUp(v, o, i, id) /\ props = CANCEL

\* A batch finds machines with smaller numbers that have nothing to send.
FoundBy(v) ==
    /\ v[1] \in Nat
    /\ \A id \in DOMAIN v[3] :
           /\ id # COMPLETION_ID /\ id.id \in Nat /\ id.id < v[1]
           /\ v[3][id].state \notin {"REQUESTED", "CANCELED_AFTER_REQUESTED", "CANCELED_AFTER_RECORDED"}

\* g is o and one call more.
OneLonger(v, o, op, g, n) ==
    /\ n \in Nat /\ DOMAIN o = 1..n /\ IsSeq(g) /\ DOMAIN g = 1..(n + 1) /\ g[n + 1] = op
    /\ \A i \in 1..n : g[i] = o[i]
    /\ Number(v, g, n + 1) = v[1] + MadeIn(o)
    /\ MadeIn(o) \in Nat
    /\ MadeIn(g) = MadeIn(o) + IF Makes(g, n + 1) THEN 1 ELSE 0

\* Later calls make what has greater numbers.
LEMMA NumbersAscend ==
    ASSUME NEW v, v[1] \in Nat, NEW o, IsSeq(o), NEW a \in DOMAIN o
    PROVE  /\ Number(v, o, a) \in Nat /\ Number(v, o, a) >= v[1]
           /\ \A b \in DOMAIN o : a < b /\ Makes(o, a) => Number(v, o, a) < Number(v, o, b)
<1>1. DOMAIN o = 1..Len(o) /\ Len(o) \in Nat
  BY LenProperties DEF IsSeq
<1>2. ASSUME NEW i \in DOMAIN o
      PROVE  IsFiniteSet({j \in 1..(i - 1) : Makes(o, j)}) /\ Cardinality({j \in 1..(i - 1) : Makes(o, j)}) \in Nat
  <2>1. 1 \in Int /\ i - 1 \in Int
    BY <1>1
  <2>2. IsFiniteSet(1..(i - 1))
    BY <2>1, FS_Interval
  <2>3. {j \in 1..(i - 1) : Makes(o, j)} \in SUBSET (1..(i - 1))
    OBVIOUS
  <2>4. IsFiniteSet({j \in 1..(i - 1) : Makes(o, j)})
    BY <2>2, <2>3, FS_Subset
  <2> QED BY <2>4, FS_CardinalityType
<1>3. ASSUME NEW b \in DOMAIN o, a < b, Makes(o, a) PROVE Number(v, o, a) < Number(v, o, b)
  <2>1. PICK S, T : S = {j \in 1..(a - 1) : Makes(o, j)} /\ T = {j \in 1..(b - 1) : Makes(o, j)}
    OBVIOUS
  <2>2. a \in T /\ a \notin S /\ S \in SUBSET T
    BY <1>1, <1>3, <2>1
  <2>3. IsFiniteSet(T) /\ Cardinality(T) \in Nat /\ Cardinality(S) \in Nat
    BY <1>2, <2>1
  <2>4. Cardinality(S) <= Cardinality(T) /\ Cardinality(S) # Cardinality(T)
    BY <2>2, <2>3, FS_Subset
  <2>5. Cardinality(S) < Cardinality(T)
    BY <2>3, <2>4
  <2>6. Number(v, o, a) = v[1] + Cardinality(S) /\ Number(v, o, b) = v[1] + Cardinality(T)
    BY <2>1 DEF Number
  <2>7. \A x, y \in Nat : x < y => v[1] + x < v[1] + y
    OBVIOUS
  <2> QED BY <2>3, <2>5, <2>6, <2>7
<1>4. Number(v, o, a) \in Nat /\ Number(v, o, a) >= v[1]
  <2>1. PICK c \in Nat : c = Cardinality({j \in 1..(a - 1) : Makes(o, j)})
    BY <1>2
  <2> QED BY <2>1 DEF Number
<1> QED BY <1>3, <1>4

\* What a call asks for, by its kind.
LEMMA WishesByKind ==
    ASSUME NEW v, NEW o, NEW i, NEW id, NEW props, Wants(v, o, i, id, props)
    PROVE  \/ Makes(o, i) /\ id.id = Number(v, o, i)
           \/ ~Makes(o, i) /\ GivesUp(v, o, i, id)
<1>1. ASSUME NEW t \in ActivityTypes, o[i] = << "execute_activity", t >>,
             id = DecisionId("ACTIVITY", Number(v, o, i))
      PROVE  Makes(o, i) /\ id.id = Number(v, o, i)
  BY <1>1 DEF Makes, DecisionId
<1>2. ASSUME o[i] = << "start_timer" >>, id = DecisionId("TIMER", Number(v, o, i))
      PROVE  Makes(o, i) /\ id.id = Number(v, o, i)
  BY <1>2 DEF Makes, DecisionId
<1>3. ASSUME GivesUp(v, o, i, id) PROVE ~Makes(o, i)
  BY <1>3 DEF Makes, GivesUp
<1> QED BY <1>1, <1>2, <1>3 DEF Wants

\* A call asks for one thing.
LEMMA OneWish ==
    ASSUME NEW v, NEW o, NEW i, NEW id, NEW props, Wants(v, o, i, id, props),
           NEW id2, NEW props2, Wants(v, o, i, id2, props2)
    PROVE  id = id2 /\ props = props2
<1>1. ASSUME NEW t \in ActivityTypes, o[i] = << "execute_activity", t >> PROVE id = id2 /\ props = props2
  <2>1. o[i][1] = "execute_activity" /\ o[i][2] = t
    BY <1>1
  <2>2. ASSUME NEW x, NEW p, Wants(v, o, i, x, p)
        PROVE  x = DecisionId("ACTIVITY", Number(v, o, i)) /\ p = ActivityProps(t)
    <3>1. o[i] # << "start_timer" >> /\ o[i] # << "cancel", x >>
      BY <2>1
    <3>2. PICK u \in ActivityTypes : /\ o[i] = << "execute_activity", u >>
                                     /\ x = DecisionId("ACTIVITY", Number(v, o, i)) /\ p = ActivityProps(u)
      BY <2>2, <3>1 DEF Wants, GivesUp
    <3>3. u = t
      BY <2>1, <3>2
    <3> QED BY <3>2, <3>3
  <2> QED BY <2>2
<1>2. ASSUME o[i] = << "start_timer" >> PROVE id = id2 /\ props = props2
  <2>1. ASSUME NEW x, NEW p, Wants(v, o, i, x, p)
        PROVE  x = DecisionId("TIMER", Number(v, o, i)) /\ p = TimerProps
    <3>1. o[i] # << "cancel", x >> /\ \A t : o[i] # << "execute_activity", t >>
      BY <1>2
    <3> QED BY <2>1, <3>1 DEF Wants, GivesUp
  <2> QED BY <2>1
<1>3. ASSUME GivesUp(v, o, i, id), props = CANCEL PROVE id = id2 /\ props = props2
  <2>1. o[i] = << "cancel", id >>
    BY <1>3 DEF GivesUp
  <2>2. o[i] # << "start_timer" >> /\ \A t : o[i] # << "execute_activity", t >>
    BY <2>1
  <2>3. o[i] = << "cancel", id2 >> /\ props2 = CANCEL
    BY <2>2 DEF Wants, GivesUp
  <2> QED BY <1>3, <2>1, <2>3
<1> QED BY <1>1, <1>2, <1>3 DEF Wants

\* Two calls ask for different things.
LEMMA OneCaller ==
    ASSUME NEW v, FoundBy(v), NEW o, IsSeq(o), NEW a \in DOMAIN o, NEW b \in DOMAIN o,
           NEW id, NEW p, Wants(v, o, a, id, p), NEW q, Wants(v, o, b, id, q)
    PROVE  a = b /\ p = q
<1>1. v[1] \in Nat /\ DOMAIN o = 1..Len(o) /\ Len(o) \in Nat
  BY LenProperties DEF IsSeq, FoundBy
<1>2. /\ Number(v, o, a) \in Nat /\ Number(v, o, a) >= v[1]
      /\ Number(v, o, b) \in Nat /\ Number(v, o, b) >= v[1]
      /\ a < b /\ Makes(o, a) => Number(v, o, a) < Number(v, o, b)
      /\ b < a /\ Makes(o, b) => Number(v, o, b) < Number(v, o, a)
  BY <1>1, NumbersAscend
<1>3. PICK m \in Nat, n \in Nat : m = Number(v, o, a) /\ n = Number(v, o, b)
  BY <1>2
<1>4. \/ Makes(o, a) /\ id.id = m
      \/ ~Makes(o, a) /\ GivesUp(v, o, a, id)
  BY <1>3, WishesByKind
<1>5. \/ Makes(o, b) /\ id.id = n
      \/ ~Makes(o, b) /\ GivesUp(v, o, b, id)
  BY <1>3, WishesByKind
<1>6. ASSUME NEW i, GivesUp(v, o, i, id) PROVE id.id \in Nat /\ id.id < v[1]
  BY <1>6 DEF GivesUp, FoundBy
<1>7. a = b
  <2>1. CASE Makes(o, a) /\ Makes(o, b)
    <3>1. m = n
      BY <1>4, <1>5, <2>1
    <3>2. ~(a < b) /\ ~(b < a)
      BY <1>2, <1>3, <2>1, <3>1
    <3> QED BY <1>1, <3>2
  <2>2. CASE Makes(o, a) /\ ~Makes(o, b)
    <3>1. id.id = m /\ id.id < v[1] /\ m >= v[1]
      BY <1>2, <1>3, <1>4, <1>5, <1>6, <2>2
    <3> QED BY <1>1, <3>1
  <2>3. CASE ~Makes(o, a) /\ Makes(o, b)
    <3>1. id.id = n /\ id.id < v[1] /\ n >= v[1]
      BY <1>2, <1>3, <1>4, <1>5, <1>6, <2>3
    <3> QED BY <1>1, <3>1
  <2>4. CASE ~Makes(o, a) /\ ~Makes(o, b)
    <3>1. GivesUp(v, o, a, id) /\ GivesUp(v, o, b, id)
      BY <1>4, <1>5, <2>4
    <3>2. o[a] = o[b] /\ (\A j \in 1..(a - 1) : o[j] # o[a]) /\ (\A j \in 1..(b - 1) : o[j] # o[b])
      BY <3>1 DEF GivesUp
    <3> QED BY <1>1, <3>2
  <2> QED BY <2>1, <2>2, <2>3, <2>4
<1>8. Wants(v, o, a, id, q)
  BY <1>7
<1> QED BY <1>7, <1>8, OneWish

\* The calls of one sequence ask for the same in another that begins like it.
LEMMA WishesStay ==
    ASSUME NEW v, NEW o, NEW g, NEW n \in Nat, \A i \in 1..n : g[i] = o[i], NEW i \in 1..n, NEW id, NEW props
    PROVE  Wants(v, g, i, id, props) <=> Wants(v, o, i, id, props)
<1>1. \A j \in 1..n : Makes(g, j) <=> Makes(o, j)
  BY DEF Makes
<1>2. \A j \in 1..(i - 1) : j \in 1..n
  OBVIOUS
<1>3. {j \in 1..(i - 1) : Makes(g, j)} = {j \in 1..(i - 1) : Makes(o, j)}
  BY <1>1, <1>2
<1>4. Number(v, g, i) = Number(v, o, i)
  BY <1>3 DEF Number
<1>5. GivesUp(v, g, i, id) <=> GivesUp(v, o, i, id)
  BY <1>2 DEF GivesUp
<1> QED BY <1>4, <1>5 DEF Wants

\* A call more has the number behind those of the calls that were made.
LEMMA NextNumber ==
    ASSUME NEW v, NEW o, IsSeq(o), NEW op, NEW g, g = Append(o, op), NEW n, n = Len(o)
    PROVE  OneLonger(v, o, op, g, n)
<1>1. /\ n \in Nat /\ DOMAIN o = 1..n /\ IsSeq(g) /\ DOMAIN g = 1..(n + 1) /\ g[n + 1] = op
      /\ \A i \in 1..n : g[i] = o[i]
  BY AppendIsSeq, LenProperties DEF IsSeq
<1>2. PICK S : S = {i \in DOMAIN o : Makes(o, i)}
  OBVIOUS
<1>3. IsFiniteSet(S) /\ Cardinality(S) \in Nat
  <2>1. IsFiniteSet(1..n)
    BY <1>1, FS_Interval
  <2>2. S \in SUBSET (1..n)
    BY <1>1, <1>2
  <2>3. IsFiniteSet(S)
    BY <2>1, <2>2, FS_Subset
  <2> QED BY <2>3, FS_CardinalityType
<1>4. \A i \in 1..n : Makes(g, i) <=> Makes(o, i)
  BY <1>1 DEF Makes
<1>5. {j \in 1..((n + 1) - 1) : Makes(g, j)} = S
  <2>1. (n + 1) - 1 = n
    BY <1>1
  <2> QED BY <1>1, <1>2, <1>4, <2>1
<1>6. Number(v, g, n + 1) = v[1] + Cardinality(S)
  BY <1>5 DEF Number
<1>7. Cardinality({i \in DOMAIN g : Makes(g, i)}) = Cardinality(S) + IF Makes(g, n + 1) THEN 1 ELSE 0
  <2>1. CASE Makes(g, n + 1)
    <3>1. {i \in DOMAIN g : Makes(g, i)} = S \cup {n + 1}
      BY <1>1, <1>2, <1>4, <2>1
    <3>2. n + 1 \notin S
      BY <1>1, <1>2
    <3> QED BY <1>3, <2>1, <3>1, <3>2, FS_AddElement
  <2>2. CASE ~Makes(g, n + 1)
    <3>1. {i \in DOMAIN g : Makes(g, i)} = S
      BY <1>1, <1>2, <1>4, <2>2
    <3>2. PICK c \in Nat : c = Cardinality(S)
      BY <1>3
    <3>3. c = c + 0
      BY <3>2
    <3> QED BY <2>2, <3>1, <3>2, <3>3
  <2> QED BY <2>1, <2>2
<1> QED BY <1>1, <1>2, <1>3, <1>6, <1>7 DEF MadeIn, OneLonger

\* A machine is new and made by a call, or as it was found and not cancelled, or
\* was cancelled by one.
MachineBy(v, o, id, m) ==
    \/ /\ id \notin DOMAIN v[3] /\ m.state = "REQUESTED"
       /\ \E i \in DOMAIN o : Wants(v, o, i, id, m.props)
    \/ /\ id \in DOMAIN v[3] /\ m.state = v[3][id].state
       /\ m.state = "RECORDED" => \A i \in DOMAIN o : o[i] # << "cancel", id >>
    \/ /\ id \in DOMAIN v[3] /\ m.state = "CANCELED_AFTER_RECORDED"
       /\ \E i \in DOMAIN o : GivesUp(v, o, i, id)

\* A call has a machine.
HasMade(v, o, i, machines) ==
    \E id \in DOMAIN machines \ {COMPLETION_ID} :
        id \notin DOMAIN v[3] /\ Wants(v, o, i, id, machines[id].props)

\* Counter and machines are those of a batch that found v and made the calls o.
CalledBy(v, o, c, machines) ==
    /\ c = v[1] + MadeIn(o)
    /\ \A id \in DOMAIN v[3] : id \in DOMAIN machines
    /\ \A i \in DOMAIN o : Makes(o, i) => HasMade(v, o, i, machines)
    /\ \A i \in DOMAIN o : \A id : o[i] = << "cancel", id >> => id \in DOMAIN v[3]
    /\ \A id \in DOMAIN machines \ {COMPLETION_ID} : MachineBy(v, o, id, machines[id])

\* From the run of the workflow's code until its answer, or the end of the replay.
InCalls ==
    \/ phase \in {"run", "complete", "end"}
    \/ phase \in {"output", "next"} /\ ~batch.replay /\ (phase = "next" => pos > Len(history))

\* The manager is what the calls made of what they found.
CallsInv ==
    /\ InCalls /\ task # "FatalDecisionError" =>
           FoundBy(view) /\ CalledBy(view, ops, id_counter, state_machines)
    /\ phase \in {"run", "complete"} => COMPLETION_ID \notin DOMAIN state_machines

\* A machine is added to others, or cancelled among them if it can be.
AddedTo(machines, id, m, now) ==
    now = [i \in DOMAIN machines \cup {id} |-> IF i = id THEN m ELSE machines[i]]
CancelledIn(machines, id, now) ==
    now = IF Cancellable(machines[id]) THEN [machines EXCEPT ![id] = CancelRequested(id.type, @)]
          ELSE machines

\* No call was made of what was just found.
LEMMA NothingCalled ==
    ASSUME NEW v, v[1] \in Nat, FoundBy(v)
    PROVE  CalledBy(v, << >>, v[1], v[3])
<1>1. DOMAIN << >> = {}
  BY EmptyIsSeq
<1>2. {i \in DOMAIN << >> : Makes(<< >>, i)} = {}
  BY <1>1
<1>3. v[1] = v[1] + MadeIn(<< >>)
  BY <1>2, FS_EmptySet DEF MadeIn
<1> QED BY <1>1, <1>3 DEF CalledBy, MachineBy

\* A machine stays what the calls made of it, when another call is made.
LEMMA MachineByMore ==
    ASSUME NEW v, NEW o, NEW op, NEW g, NEW n, OneLonger(v, o, op, g, n), NEW id, NEW m, MachineBy(v, o, id, m),
           m.state = "RECORDED" => op # << "cancel", id >>
    PROVE  MachineBy(v, g, id, m)
<1>2. n \in Nat /\ DOMAIN o = 1..n /\ DOMAIN g = 1..(n + 1) /\ g[n + 1] = op /\ \A i \in 1..n : g[i] = o[i]
  BY DEF OneLonger
<1>3. \A i \in 1..n : i \in 1..(n + 1)
  BY <1>2
<1>4. CASE id \notin DOMAIN v[3] /\ m.state = "REQUESTED" /\ \E i \in DOMAIN o : Wants(v, o, i, id, m.props)
  <2>1. PICK i \in 1..n : Wants(v, o, i, id, m.props)
    BY <1>2, <1>4
  <2>2. Wants(v, g, i, id, m.props)
    BY <1>2, <2>1, WishesStay
  <2> QED BY <1>2, <1>3, <1>4, <2>2 DEF MachineBy
<1>5. CASE /\ id \in DOMAIN v[3] /\ m.state = v[3][id].state
           /\ m.state = "RECORDED" => \A i \in DOMAIN o : o[i] # << "cancel", id >>
  <2>1. m.state = "RECORDED" => \A i \in 1..(n + 1) : g[i] # << "cancel", id >>
    <3>1. \A i \in 1..(n + 1) : i \in 1..n \/ i = n + 1
      BY <1>2
    <3> QED BY <1>2, <1>5, <3>1
  <2> QED BY <1>2, <1>5, <2>1 DEF MachineBy
<1>6. CASE /\ id \in DOMAIN v[3] /\ m.state = "CANCELED_AFTER_RECORDED"
           /\ \E i \in DOMAIN o : GivesUp(v, o, i, id)
  <2>1. PICK i \in 1..n : GivesUp(v, o, i, id)
    BY <1>2, <1>6
  <2>2. \A j \in 1..(i - 1) : j \in 1..n
    BY <1>2
  <2>3. GivesUp(v, g, i, id)
    BY <1>2, <2>1, <2>2 DEF GivesUp
  <2> QED BY <1>2, <1>3, <1>6, <2>3 DEF MachineBy
<1> QED BY <1>4, <1>5, <1>6 DEF MachineBy

\* The earlier calls still have what they made.
LEMMA MakersStay ==
    ASSUME NEW v, NEW o, NEW op, NEW g, NEW n, OneLonger(v, o, op, g, n),
           NEW c, NEW machines, CalledBy(v, o, c, machines), NEW now,
           \A id \in DOMAIN machines : id \in DOMAIN now /\ now[id].props = machines[id].props,
           NEW i \in DOMAIN o, Makes(g, i)
    PROVE  HasMade(v, g, i, now)
<1>2. n \in Nat /\ DOMAIN o = 1..n /\ \A k \in 1..n : g[k] = o[k]
  BY DEF OneLonger
<1>3. Makes(o, i)
  BY <1>2 DEF Makes
<1>4. PICK id \in DOMAIN machines \ {COMPLETION_ID} : id \notin DOMAIN v[3] /\ Wants(v, o, i, id, machines[id].props)
  BY <1>3 DEF CalledBy, HasMade
<1>5. Wants(v, g, i, id, machines[id].props)
  BY <1>2, <1>4, WishesStay
<1> QED BY <1>4, <1>5 DEF HasMade

\* A call makes a machine.
LEMMA OneMoreMade ==
    ASSUME NEW v, NEW o, NEW op, NEW g, NEW n, OneLonger(v, o, op, g, n),
           FoundBy(v), NEW c, NEW machines, CalledBy(v, o, c, machines),
           NEW id, id \notin DOMAIN machines, id # COMPLETION_ID, NEW m, m.state = "REQUESTED",
           Makes(g, n + 1), Wants(v, g, n + 1, id, m.props),
           NEW now, AddedTo(machines, id, m, now)
    PROVE  CalledBy(v, g, c + 1, now)
<1>1. /\ n \in Nat /\ DOMAIN o = 1..n /\ IsSeq(g) /\ DOMAIN g = 1..(n + 1) /\ g[n + 1] = op
      /\ \A i \in 1..n : g[i] = o[i]
      /\ Number(v, g, n + 1) = v[1] + MadeIn(o)
      /\ MadeIn(o) \in Nat
      /\ MadeIn(g) = MadeIn(o) + IF Makes(g, n + 1) THEN 1 ELSE 0
  BY Zenon DEF OneLonger
<1>2. \A i \in 1..(n + 1) : i \in 1..n \/ i = n + 1
  BY <1>1
<1>3. c + 1 = v[1] + MadeIn(g)
  <2>1. PICK a \in Nat, b \in Nat : a = v[1] /\ b = MadeIn(o)
    BY <1>1 DEF FoundBy
  <2>2. PICK d : d = MadeIn(g)
    OBVIOUS
  <2>3. c = a + b /\ d = b + 1
    BY <1>1, <2>1, <2>2 DEF CalledBy
  <2>4. c + 1 = a + d
    BY <2>1, <2>3
  <2> QED BY <2>1, <2>2, <2>4
<1>4. id \notin DOMAIN v[3] /\ \A i \in DOMAIN v[3] : i \in DOMAIN now
  BY DEF CalledBy, AddedTo
<1>5. op[1] # "cancel"
  BY <1>1 DEF Makes
<1>6. \A i \in DOMAIN machines : i \in DOMAIN now /\ now[i] = machines[i]
  BY DEF AddedTo
<1>7. ASSUME NEW i \in DOMAIN g, Makes(g, i)
      PROVE  HasMade(v, g, i, now)
  <2>1. CASE i \in DOMAIN o
    <3>1. \A x \in DOMAIN machines : x \in DOMAIN now /\ now[x].props = machines[x].props
      BY <1>6
    <3> QED BY Zenon, <1>7, <2>1, <3>1, MakersStay
  <2>2. CASE i = n + 1
    <3>1. id \in DOMAIN now \ {COMPLETION_ID} /\ now[id].props = m.props
      BY DEF AddedTo
    <3> QED BY <1>4, <2>2, <3>1 DEF HasMade
  <2> QED BY <1>1, <1>2, <2>1, <2>2
<1>8. ASSUME NEW i \in DOMAIN g, NEW x, g[i] = << "cancel", x >> PROVE x \in DOMAIN v[3]
  <2>1. i # n + 1
    BY <1>1, <1>5, <1>8
  <2>2. i \in DOMAIN o /\ o[i] = << "cancel", x >>
    BY <1>1, <1>2, <1>8, <2>1
  <2> QED BY <2>2 DEF CalledBy
<1>9. ASSUME NEW x \in DOMAIN now \ {COMPLETION_ID} PROVE MachineBy(v, g, x, now[x])
  <2>1. CASE x = id
    <3>1. now[x] = m
      BY <2>1 DEF AddedTo
    <3>2. n + 1 \in DOMAIN g
      BY <1>1
    <3> QED BY <1>4, <2>1, <3>1, <3>2 DEF MachineBy
  <2>2. CASE x # id
    <3>1. x \in DOMAIN machines \ {COMPLETION_ID} /\ now[x] = machines[x]
      BY <1>9, <2>2 DEF AddedTo
    <3>2. MachineBy(v, o, x, machines[x])
      BY <3>1 DEF CalledBy
    <3>3. op # << "cancel", x >>
      BY <1>5
    <3> QED BY <3>1, <3>2, <3>3, MachineByMore
  <2> QED BY <2>1, <2>2
<1> QED BY <1>3, <1>4, <1>7, <1>8, <1>9 DEF CalledBy

\* A call cancels a machine, or finds it over.
LEMMA OneMoreCancelled ==
    ASSUME NEW v, NEW o, NEW id, NEW op, Cancels(op, id), NEW g, NEW n, OneLonger(v, o, op, g, n),
           FoundBy(v), NEW c, NEW machines, CalledBy(v, o, c, machines),
           id \in DOMAIN machines \ {COMPLETION_ID}, MachineOK(machines[id]), machines[id].state # "REQUESTED",
           NEW now, CancelledIn(machines, id, now)
    PROVE  /\ CalledBy(v, g, c, now)
           /\ Cancellable(machines[id]) <=> Wants(v, g, n + 1, id, CANCEL)
<1>1. /\ n \in Nat /\ DOMAIN o = 1..n /\ IsSeq(g) /\ DOMAIN g = 1..(n + 1) /\ g[n + 1] = op
      /\ \A i \in 1..n : g[i] = o[i]
      /\ Number(v, g, n + 1) = v[1] + MadeIn(o)
      /\ MadeIn(o) \in Nat
      /\ MadeIn(g) = MadeIn(o) + IF Makes(g, n + 1) THEN 1 ELSE 0
  BY Zenon DEF OneLonger
<1>2. \A i \in 1..(n + 1) : i \in 1..n \/ i = n + 1
  BY <1>1
<1>3. op = << "cancel", id >> /\ op[1] = "cancel" /\ op[2] = id /\ ~Makes(g, n + 1)
  BY <1>1 DEF Makes, Cancels
<1>4. c = v[1] + MadeIn(g)
  <2>1. PICK b \in Nat : b = MadeIn(o)
    BY <1>1
  <2>2. b = b + 0
    BY <2>1
  <2> QED BY <1>1, <1>3, <2>1, <2>2 DEF CalledBy
<1>5. MachineBy(v, o, id, machines[id])
  BY DEF CalledBy
<1>6. id \in DOMAIN v[3]
  BY <1>5 DEF MachineBy
<1>7. PICK m : m = machines[id]
  OBVIOUS
<1>8. CASE Cancellable(machines[id])
  <2>1. m.state = "RECORDED" /\ v[3][id].state = "RECORDED" /\ \A i \in DOMAIN o : o[i] # << "cancel", id >>
    BY <1>5, <1>6, <1>7, <1>8 DEF Cancellable, MachineBy
  <2>2. now[id].state = "CANCELED_AFTER_RECORDED" /\ now[id].props = m.props
    BY <1>7, <1>8, <2>1 DEF CancelRequested, MachineOK, CancelledIn
  <2>3. DOMAIN now = DOMAIN machines /\ \A x \in DOMAIN machines : x # id => now[x] = machines[x]
    BY <1>8 DEF CancelledIn
  <2>4. GivesUp(v, g, n + 1, id)
    <3>1. \A j \in 1..((n + 1) - 1) : j \in 1..n
      BY <1>1
    <3> QED BY <1>1, <1>3, <1>6, <2>1, <3>1 DEF GivesUp
  <2>5. n + 1 \in DOMAIN g
    BY <1>1
  <2>6. MachineBy(v, g, id, now[id])
    BY <1>6, <2>2, <2>4, <2>5 DEF MachineBy
  <2>7. ASSUME NEW x \in DOMAIN now \ {COMPLETION_ID} PROVE MachineBy(v, g, x, now[x])
    <3>1. CASE x = id
      BY <2>6, <3>1
    <3>2. CASE x # id
      <4>1. now[x] = machines[x] /\ MachineBy(v, o, x, machines[x]) /\ op # << "cancel", x >>
        BY <1>3, <2>3, <2>7, <3>2 DEF CalledBy
      <4>2. machines[x].state = "RECORDED" => op # << "cancel", x >>
        BY <4>1
      <4>3. PICK was : was = machines[x]
        OBVIOUS
      <4>4. MachineBy(v, o, x, was) /\ (was.state = "RECORDED" => op # << "cancel", x >>)
        BY <4>1, <4>2, <4>3
      <4>5. MachineBy(v, g, x, was)
        BY Zenon, <4>4, MachineByMore
      <4> QED BY <4>1, <4>3, <4>5
    <3> QED BY <3>1, <3>2
  <2>8. \A x \in DOMAIN machines : x \in DOMAIN now /\ now[x].props = machines[x].props
    BY <1>7, <2>2, <2>3
  <2>9. \A i \in DOMAIN g : Makes(g, i) => HasMade(v, g, i, now)
    <3>1. ASSUME NEW i \in DOMAIN g, Makes(g, i)
          PROVE  HasMade(v, g, i, now)
      <4>1. i \in DOMAIN o
        BY <1>1, <1>2, <1>3, <3>1
      <4> QED BY Zenon, <2>8, <3>1, <4>1, MakersStay
    <3> QED BY <3>1
  <2>10. \A i \in DOMAIN g : \A x : g[i] = << "cancel", x >> => x \in DOMAIN v[3]
    BY <1>1, <1>2, <1>3, <1>6 DEF CalledBy
  <2>11. \A x \in DOMAIN v[3] : x \in DOMAIN now
    BY <2>3 DEF CalledBy
  <2>12. Wants(v, g, n + 1, id, CANCEL)
    BY <2>4 DEF Wants
  <2> QED BY <1>4, <1>8, <2>7, <2>9, <2>10, <2>11, <2>12 DEF CalledBy
<1>9. CASE ~Cancellable(machines[id])
  <2>1. now = machines /\ m.state # "RECORDED"
    BY <1>7, <1>9 DEF Cancellable, CancelledIn
  <2>2. ASSUME NEW x \in DOMAIN now \ {COMPLETION_ID} PROVE MachineBy(v, g, x, now[x])
    <3>1. MachineBy(v, o, x, machines[x])
      BY <2>1, <2>2 DEF CalledBy
    <3>2. machines[x].state = "RECORDED" => op # << "cancel", x >>
      BY <1>3, <1>7, <2>1
    <3> QED BY <2>1, <3>1, <3>2, MachineByMore
  <2>3. \A i \in DOMAIN g : Makes(g, i) => HasMade(v, g, i, now)
    <3>1. ASSUME NEW i \in DOMAIN g, Makes(g, i)
          PROVE  HasMade(v, g, i, now)
      <4>1. i \in DOMAIN o
        BY <1>1, <1>2, <1>3, <3>1
      <4>2. \A x \in DOMAIN machines : x \in DOMAIN now /\ now[x].props = machines[x].props
        BY <2>1
      <4> QED BY Zenon, <3>1, <4>1, <4>2, MakersStay
    <3> QED BY <3>1
  <2>4. \A i \in DOMAIN g : \A x : g[i] = << "cancel", x >> => x \in DOMAIN v[3]
    BY <1>1, <1>2, <1>3, <1>6 DEF CalledBy
  <2>5. ~Wants(v, g, n + 1, id, CANCEL)
    <3> SUFFICES ASSUME Wants(v, g, n + 1, id, CANCEL) PROVE FALSE
      OBVIOUS
    <3>1. GivesUp(v, g, n + 1, id)
      BY <1>3, WishesByKind
    <3>2. v[3][id].state = "RECORDED" /\ \A j \in 1..((n + 1) - 1) : g[j] # op
      BY <1>1, <3>1 DEF GivesUp
    <3>3. m.state = "CANCELED_AFTER_RECORDED" /\ \E i \in DOMAIN o : GivesUp(v, o, i, id)
      BY <1>5, <1>6, <1>7, <2>1, <3>2 DEF MachineBy
    <3>4. PICK i \in 1..n : o[i] = << "cancel", id >>
      BY <1>1, <3>3 DEF GivesUp
    <3>5. i \in 1..((n + 1) - 1)
      BY <1>1, <3>4
    <3>6. g[i] = op
      BY <1>1, <1>3, <3>4
    <3> QED BY <3>2, <3>5, <3>6
  <2> QED BY <1>4, <1>9, <2>1, <2>2, <2>3, <2>4, <2>5 DEF CalledBy
<1> QED BY <1>8, <1>9

\* A return changes nothing, and wants nothing.
LEMMA OneMoreReturned ==
    ASSUME NEW v, NEW o, NEW op, IsReturn(op), NEW g, NEW n, OneLonger(v, o, op, g, n),
           NEW c, NEW machines, CalledBy(v, o, c, machines)
    PROVE  /\ CalledBy(v, g, c, machines)
           /\ \A id, props : ~Wants(v, g, n + 1, id, props)
<1>1. /\ n \in Nat /\ DOMAIN o = 1..n /\ IsSeq(g) /\ DOMAIN g = 1..(n + 1) /\ g[n + 1] = op
      /\ \A i \in 1..n : g[i] = o[i]
      /\ Number(v, g, n + 1) = v[1] + MadeIn(o)
      /\ MadeIn(o) \in Nat
      /\ MadeIn(g) = MadeIn(o) + IF Makes(g, n + 1) THEN 1 ELSE 0
  BY Zenon DEF OneLonger
<1>2. \A i \in 1..(n + 1) : i \in 1..n \/ i = n + 1
  BY <1>1
<1>3. op[1] = "return" /\ ~Makes(g, n + 1) /\ \A x : op # << "cancel", x >>
  BY <1>1 DEF Makes, IsReturn
<1>4. c = v[1] + MadeIn(g)
  <2>1. PICK b \in Nat : b = MadeIn(o)
    BY <1>1
  <2>2. b = b + 0
    BY <2>1
  <2> QED BY <1>1, <1>3, <2>1, <2>2 DEF CalledBy
<1>5. \A id \in DOMAIN machines \ {COMPLETION_ID} : MachineBy(v, g, id, machines[id])
  <2>1. ASSUME NEW id \in DOMAIN machines \ {COMPLETION_ID} PROVE MachineBy(v, g, id, machines[id])
    <3>1. MachineBy(v, o, id, machines[id]) /\ op # << "cancel", id >>
      BY <1>3 DEF CalledBy
    <3> QED BY Zenon, <3>1, MachineByMore
  <2> QED BY <2>1
<1>6. \A i \in DOMAIN g : Makes(g, i) => HasMade(v, g, i, machines)
  <2>1. ASSUME NEW i \in DOMAIN g, Makes(g, i)
        PROVE  HasMade(v, g, i, machines)
    <3>1. i \in DOMAIN o
      BY <1>1, <1>2, <1>3, <2>1
    <3>2. \A x \in DOMAIN machines : x \in DOMAIN machines /\ machines[x].props = machines[x].props
      OBVIOUS
    <3> QED BY Zenon, <2>1, <3>1, <3>2, MakersStay
  <2> QED BY <2>1
<1>7. \A i \in DOMAIN g : \A x : g[i] = << "cancel", x >> => x \in DOMAIN v[3]
  BY <1>1, <1>2, <1>3 DEF CalledBy
<1>8. \A id, props : ~Wants(v, g, n + 1, id, props)
  <2>1. ASSUME NEW id, NEW props, Wants(v, g, n + 1, id, props) PROVE FALSE
    <3>1. GivesUp(v, g, n + 1, id)
      BY <1>3, <2>1, WishesByKind
    <3> QED BY <1>1, <1>3, <3>1 DEF GivesUp
  <2> QED BY <2>1
<1> QED BY <1>4, <1>5, <1>6, <1>7, <1>8 DEF CalledBy

\* A call that makes a machine of this type with these properties.
Asks(op, type, props) ==
    \/ \E t \in ActivityTypes :
           op = << "execute_activity", t >> /\ type = "ACTIVITY" /\ props = ActivityProps(t)
    \/ op = << "start_timer" >> /\ type = "TIMER" /\ props = TimerProps

\* An activity or a timer asked for wants the machine of the next number.
LEMMA RequestWants ==
    ASSUME NEW v, NEW o, IsSeq(o), NEW c, NEW machines, CalledBy(v, o, c, machines),
           NEW op, NEW type, NEW props, Asks(op, type, props), NEW g, g = Append(o, op), NEW n, n = Len(o)
    PROVE  Makes(g, n + 1) /\ Wants(v, g, n + 1, DecisionId(type, c), props)
<1>1. OneLonger(v, o, op, g, n)
  BY NextNumber
<1>2. g[n + 1] = op /\ Number(v, g, n + 1) = v[1] + MadeIn(o)
  BY Zenon, <1>1 DEF OneLonger
<1>3. Number(v, g, n + 1) = c
  BY <1>2 DEF CalledBy
<1>4. PICK num : num = Number(v, g, n + 1)
  OBVIOUS
<1>5. CASE \E t \in ActivityTypes :
               op = << "execute_activity", t >> /\ type = "ACTIVITY" /\ props = ActivityProps(t)
  <2>1. PICK t \in ActivityTypes : op = << "execute_activity", t >> /\ type = "ACTIVITY" /\ props = ActivityProps(t)
    BY <1>5
  <2>2. g[n + 1] = << "execute_activity", t >> /\ g[n + 1][1] = "execute_activity"
    BY <1>2, <2>1
  <2> QED BY <1>3, <2>1, <2>2 DEF Makes, Wants
<1>6. CASE op = << "start_timer" >> /\ type = "TIMER" /\ props = TimerProps
  <2>1. g[n + 1] = << "start_timer" >> /\ g[n + 1][1] = "start_timer"
    BY <1>2, <1>6
  <2> QED BY <1>3, <1>6, <2>1 DEF Makes, Wants
<1> QED BY <1>5, <1>6 DEF Asks

\* An activity or a timer asked for is called.
LEMMA RequestIsCalled ==
    ASSUME IsSeq(ops), FoundBy(view), CalledBy(view, ops, id_counter, state_machines),
           NEW op, ops' = Append(ops, op), view' = view,
           NEW type \in {"ACTIVITY", "TIMER"}, NEW props, Asks(op, type, props), NEW request,
           Request(type, props, request), raised' = "none"
    PROVE  CalledBy(view, ops, id_counter, state_machines)'
<1>1. PICK v, o, c, ms, g : v = view /\ o = ops /\ c = id_counter /\ ms = state_machines /\ g = ops'
  OBVIOUS
<1>2. PICK x, m, n : x = DecisionId(type, c) /\ m = Machine(props, request) /\ n = Len(o)
  OBVIOUS
<1>3. /\ Add(x, m) /\ id_counter' = c + 1
  BY <1>1, <1>2 DEF Request, Reject, next_id
<1>4. PICK now : now = state_machines'
  OBVIOUS
<1>5. x \notin DOMAIN ms /\ AddedTo(ms, x, m, now)
  BY <1>1, <1>3, <1>4 DEF Add, AddedTo
<1>6. x # COMPLETION_ID /\ m.state = "REQUESTED" /\ m.props = props
  BY <1>2 DEF DecisionId, COMPLETION_ID, Machine
<1>7. IsSeq(o) /\ FoundBy(v) /\ CalledBy(v, o, c, ms) /\ g = Append(o, op)
  BY <1>1
<1>8. Makes(g, n + 1) /\ Wants(v, g, n + 1, x, m.props)
  <2>1. Makes(g, n + 1) /\ Wants(v, g, n + 1, DecisionId(type, c), props)
    BY <1>2, <1>7, RequestWants
  <2> QED BY <1>2, <1>6, <2>1
<1>9. OneLonger(v, o, op, g, n)
  BY <1>2, <1>7, NextNumber
<1>10. CalledBy(v, g, c + 1, now)
  BY Zenon, <1>5, <1>6, <1>7, <1>8, <1>9, OneMoreMade
<1> QED BY <1>1, <1>3, <1>4, <1>10

\* What is cancelled is called.
LEMMA CancelIsCalled ==
    ASSUME IInv, IsSeq(ops), FoundBy(view), CalledBy(view, ops, id_counter, state_machines),
           NEW id, NEW op, Cancels(op, id), ops' = Append(ops, op), view' = view,
           request_cancel(id), StateOf(id) # "REQUESTED"
    PROVE  /\ CalledBy(view, ops, id_counter, state_machines)'
           /\ Cancellable(state_machines[id]) <=> Wants(view, ops', Len(ops) + 1, id, CANCEL)
<1>1. PICK v, o, c, ms, g, n :
          v = view /\ o = ops /\ c = id_counter /\ ms = state_machines /\ g = ops' /\ n = Len(ops)
  OBVIOUS
<1>2. PICK now : now = state_machines'
  OBVIOUS
<1>3. id \in DOMAIN ms \ {COMPLETION_ID} /\ MachineOK(ms[id]) /\ ms[id].state # "REQUESTED"
  BY <1>1 DEF request_cancel, IInv, ManagerInv, MachinesInv, StateOf
<1>4. CancelledIn(ms, id, now)
  BY <1>1, <1>2 DEF request_cancel, CancelledIn
<1>5. id_counter' = c
  BY <1>1 DEF request_cancel
<1>6. FoundBy(v) /\ CalledBy(v, o, c, ms) /\ OneLonger(v, o, op, g, n)
  BY <1>1, NextNumber
<1>7. /\ CalledBy(v, g, c, now)
      /\ Cancellable(ms[id]) <=> Wants(v, g, n + 1, id, CANCEL)
  BY Zenon, <1>3, <1>4, <1>6, OneMoreCancelled
<1> QED BY <1>1, <1>2, <1>5, <1>7

\* So is the end of the workflow function.
LEMMA ReturnIsCalled ==
    ASSUME IsSeq(ops), CalledBy(view, ops, id_counter, state_machines), NEW op, IsReturn(op),
           ops' = Append(ops, op), view' = view, UNCHANGED managerVars
    PROVE  /\ CalledBy(view, ops, id_counter, state_machines)'
           /\ \A id, props : ~Wants(view, ops', Len(ops) + 1, id, props)
<1>1. PICK v, o, c, ms, g, n :
          v = view /\ o = ops /\ c = id_counter /\ ms = state_machines /\ g = ops' /\ n = Len(ops)
  OBVIOUS
<1>2. CalledBy(v, o, c, ms) /\ OneLonger(v, o, op, g, n)
  BY <1>1, NextNumber
<1>3. /\ CalledBy(v, g, c, ms)
      /\ \A id, props : ~Wants(v, g, n + 1, id, props)
  BY <1>2, OneMoreReturned
<1> QED BY <1>1, <1>3 DEF managerVars

\* The workflow's calls, as long as it lets rejections through.
LEMMA WorkflowKeepsCalls ==
    ASSUME ~ImmediateCancel, IInv, ScriptInv, CallsInv, LetThrough', WorkflowNext
    PROVE  CallsInv'
<1>1. ASSUME NEW op, Calls(op)
      PROVE  /\ phase = "run" /\ phase' = "run" /\ task = "running" /\ IsSeq(ops)
             /\ ops' = Append(ops, op) /\ view' = view
             /\ FoundBy(view) /\ CalledBy(view, ops, id_counter, state_machines)
             /\ COMPLETION_ID \notin DOMAIN state_machines
  BY <1>1 DEF Calls, CallsInv, InCalls, ScriptInv
<1>2. ASSUME NEW type \in {"ACTIVITY", "TIMER"}, NEW props, NEW request, NEW op, Calls(op),
             Asks(op, type, props), Request(type, props, request), Raises
      PROVE  CallsInv'
  <2>1. COMPLETION_ID \notin DOMAIN state_machines'
    <3>1. PICK x : x = DecisionId(type, id_counter)
      OBVIOUS
    <3>2. x # COMPLETION_ID
      BY <3>1 DEF DecisionId, COMPLETION_ID
    <3>3. DOMAIN state_machines' \in SUBSET (DOMAIN state_machines \cup {x})
      BY <1>2, <3>1 DEF Request, Reject, Add
    <3> QED BY <1>1, <1>2, <3>2, <3>3
  <2>2. CASE raised' = "none"
    <3>1. CalledBy(view, ops, id_counter, state_machines)'
      BY <1>1, <1>2, <2>2, RequestIsCalled
    <3>2. FoundBy(view)'
      BY <1>1, <1>2
    <3> QED BY <2>1, <3>1, <3>2 DEF CallsInv
  <2>3. CASE raised' # "none"
    BY <1>2, <2>1, <2>3 DEF Raises, LetThrough, CallsInv
  <2> QED BY <2>2, <2>3
<1>3. ASSUME NEW t \in ActivityTypes, ExecuteActivity(t) PROVE CallsInv'
  <2>1. PICK op : op = << "execute_activity", t >>
    OBVIOUS
  <2>2. Asks(op, "ACTIVITY", ActivityProps(t))
    BY <2>1 DEF Asks
  <2> QED BY <1>2, <1>3, <2>1, <2>2 DEF ExecuteActivity, schedule_activity
<1>4. CASE StartTimer
  <2>1. PICK op : op = << "start_timer" >>
    OBVIOUS
  <2>2. Asks(op, "TIMER", TimerProps)
    BY <2>1 DEF Asks
  <2> QED BY <1>2, <1>4, <2>1, <2>2 DEF StartTimer, start_timer
<1>5. ASSUME NEW id, CancelFuture(id) PROVE CallsInv'
  <2>1. PICK op : op = << "cancel", id >>
    OBVIOUS
  <2>2. Cancels(op, id) /\ Calls(op) /\ request_cancel(id) /\ Raises /\ StateOf(id) # "REQUESTED"
    BY <1>5, <2>1 DEF CancelFuture, Cancels, StateOf
  <2>3. DOMAIN state_machines' = DOMAIN state_machines
    BY <2>2 DEF request_cancel
  <2>4. CalledBy(view, ops, id_counter, state_machines)'
    BY <1>1, <2>2, CancelIsCalled
  <2> QED BY <1>1, <2>2, <2>3, <2>4 DEF CallsInv
<1>6. ASSUME NEW id, AutomaticCancel(id) PROVE CallsInv'
  <2>1. /\ phase = "run" /\ phase' = "run" /\ task' = "FatalDecisionError"
        /\ DOMAIN state_machines' = DOMAIN state_machines
    BY <1>6 DEF AutomaticCancel, engineVars, request_cancel
  <2> QED BY <2>1 DEF CallsInv
<1>7. ASSUME NEW outcome, Ends(outcome) PROVE CallsInv'
  <2>1. PICK op : op = << "return", outcome >>
    OBVIOUS
  <2>2. IsReturn(op) /\ Calls(op) /\ UNCHANGED managerVars
    BY <1>7, <2>1 DEF Ends, IsReturn
  <2>3. CalledBy(view, ops, id_counter, state_machines)'
    BY <1>1, <2>2, ReturnIsCalled
  <2> QED BY <1>1, <2>2, <2>3 DEF CallsInv, managerVars
<1>8. CASE Yield
  BY <1>8 DEF Yield, CallsInv, InCalls, managerVars, userVars
<1>9. CASE RejectionUnwinds
  BY <1>9 DEF RejectionUnwinds, CallsInv, InCalls, managerVars
<1> QED BY <1>3, <1>4, <1>5, <1>6, <1>7, <1>8, <1>9 DEF WorkflowNext, Return, continue_as_new

\* The end of the workflow is none of its calls.
LEMMA CompletionIsNotCalled ==
    ASSUME NEW v, NEW o, NEW c, NEW machines, CalledBy(v, o, c, machines),
           NEW now, \A id \in DOMAIN machines : id \in DOMAIN now /\ now[id] = machines[id],
           \A id \in DOMAIN now \ {COMPLETION_ID} : id \in DOMAIN machines
    PROVE  CalledBy(v, o, c, now)
<1>1. \A i \in DOMAIN o : Makes(o, i) => HasMade(v, o, i, now)
  BY DEF CalledBy, HasMade
<1>2. \A id \in DOMAIN now \ {COMPLETION_ID} : MachineBy(v, o, id, now[id])
  BY DEF CalledBy
<1> QED BY <1>1, <1>2 DEF CalledBy

\* The code of a batch finds a manager that is settled, and has called nothing yet.
LEMMA NothingIsCalledYet ==
    ASSUME Deterministic, IInv, CompletionInv, Unwinds, AckInv, RunsOn, BatchInv, StartRun
    PROVE  CallsInv'
<1>1. /\ phase = "input" /\ phase' = "run" /\ ops' = << >>
      /\ view' = << id_counter, order, state_machines, task >> /\ UNCHANGED managerVars
  BY DEF StartRun
<1>2. PICK v : v = view'
  OBVIOUS
<1>3. v[1] = id_counter /\ v[3] = state_machines
  BY <1>1, <1>2
<1>4. COMPLETION_ID \notin DOMAIN state_machines
  BY <1>1 DEF CompletionInv, RunsOn, InBatch, EnginePhases
<1>5. /\ id_counter \in Nat
      /\ \A id \in DOMAIN state_machines : id # COMPLETION_ID /\ id.id \in Nat /\ id.id < id_counter
  BY <1>4, KeysAreIds DEF IInv, ManagerInv, MachinesInv, FreshIds
<1>6. \A id \in DOMAIN state_machines :
          state_machines[id].state \notin {"REQUESTED", "CANCELED_AFTER_REQUESTED", "CANCELED_AFTER_RECORDED"}
  BY <1>1, <1>4 DEF AckInv, Unwinds, Settled, Silent, StateOf
<1>7. FoundBy(v)
  BY <1>3, <1>5, <1>6 DEF FoundBy
<1>8. CalledBy(v, << >>, v[1], v[3])
  BY <1>3, <1>5, <1>7, NothingCalled
<1> QED BY <1>1, <1>2, <1>3, <1>4, <1>7, <1>8 DEF CallsInv, managerVars

\* The engine adds nothing to the calls but the end of the workflow.
LEMMA EngineKeepsCalls ==
    ASSUME Deterministic, IInv, CompletionInv, EngineStateInv, Unwinds, AckInv, RunsOn, CallsInv, EngineNext
    PROVE  CallsInv'
<1>1. BatchInv /\ TodoInv
  BY DEF EngineStateInv, PlaceInv
<1>2. CASE NextDecisionEvents \/ CollectDecisions \/ ApplyInputEvent
  <2>1. phase' \notin {"run", "complete", "end", "output", "next"}
    BY <1>2 DEF NextDecisionEvents, CollectDecisions, ApplyInputEvent, Continue
  <2> QED BY <2>1 DEF CallsInv, InCalls
<1>3. CASE StartRun
  BY <1>1, <1>3, NothingIsCalledYet
<1>4. CASE MaybeCompleteWorkflow
  <2>1. phase = "complete" /\ phase' \in {"end", "failed"} /\ UNCHANGED << batch, task, view, ops >>
    BY <1>4 DEF MaybeCompleteWorkflow, Continue, userVars
  <2>2. SUFFICES ASSUME phase' = "end", task # "FatalDecisionError"
                 PROVE  FoundBy(view) /\ CalledBy(view, ops, id_counter, state_machines)'
    BY <2>1 DEF CallsInv, InCalls
  <2>3. FoundBy(view) /\ CalledBy(view, ops, id_counter, state_machines)
    BY <2>1, <2>2 DEF CallsInv, InCalls
  <2>4. CASE UNCHANGED managerVars
    BY <2>1, <2>3, <2>4 DEF managerVars
  <2>5. CASE complete_workflow(task) /\ raised' = "none"
    <3>1. id_counter' = id_counter /\ Add(COMPLETION_ID, CompletionMachine(task))
      BY <2>5 DEF complete_workflow, Reject
    <3>2. PICK now : now = state_machines'
      OBVIOUS
    <3>3. /\ \A id \in DOMAIN state_machines : id \in DOMAIN now /\ now[id] = state_machines[id]
          /\ \A id \in DOMAIN now \ {COMPLETION_ID} : id \in DOMAIN state_machines
      BY <2>5, <3>1, <3>2 DEF Add
    <3>4. CalledBy(view, ops, id_counter, now)
      BY <2>3, <3>3, CompletionIsNotCalled
    <3> QED BY <2>1, <2>3, <3>1, <3>2, <3>4
  <2> QED BY <1>4, <2>2, <2>4, <2>5 DEF MaybeCompleteWorkflow, Continue
<1>5. CASE EndExecution
  <2>1. /\ phase = "end" /\ phase' \in {"output", "failed"} /\ UNCHANGED << batch, task, view, ops >>
        /\ UNCHANGED << id_counter, state_machines >>
    BY <1>5 DEF EndExecution, end_execution, Continue, userVars
  <2> QED BY <2>1 DEF CallsInv, InCalls
<1>6. CASE ApplyOutputEvent
  <2>1. phase = "output" /\ phase' \in {"output", "failed"} /\ UNCHANGED batch /\ todo # << >>
    BY <1>6 DEF ApplyOutputEvent, Continue
  <2>2. batch.output # << >>
    <3>1. IsSeq(todo) /\ IsSeq(batch.output) /\ Len(todo) <= Len(batch.output)
      BY <1>1, <2>1 DEF BatchInv, TodoInv, InBatch, EnginePhases
    <3>2. Len(todo) # 0
      BY <2>1, <3>1, LenProperties DEF IsSeq
    <3> QED BY <3>1, <3>2, LenProperties DEF IsSeq
  <2>3. batch.replay
    BY <1>1, <2>1, <2>2 DEF BatchInv, InBatch, EnginePhases
  <2> QED BY <2>1, <2>3 DEF CallsInv, InCalls
<1>7. CASE FinishBatch
  <2>1. /\ phase = "output" /\ phase' = "next" /\ UNCHANGED << batch, task, view, ops >>
        /\ UNCHANGED << id_counter, state_machines >>
    BY <1>7 DEF FinishBatch, managerVars
  <2> QED BY <2>1 DEF CallsInv, InCalls
<1> QED BY <1>2, <1>3, <1>4, <1>5, <1>6, <1>7 DEF EngineNext

\* The service lets no workflow call, and only takes what an engine answers.
LEMMA ServiceKeepsCalls ==
    ASSUME IInv, IdleInv, PhaseInv, CallsInv, ServiceNext
    PROVE  CallsInv'
<1>1. phase' \in {"idle", "respond", "record"} \/ PollDecisionTask
  BY DEF ServiceNext, ActivityCloses, TimerFires, SignalArrives, Arrive, DecisionTaskTimesOut,
         RespondDecisionTaskFailed, RespondDecisionTaskCompleted, Unsuccessfully, DropEngine,
         RecordDecision, FinishDecisionTask, engineVars
<1>2. CASE phase' \in {"idle", "respond", "record"}
  BY <1>2 DEF CallsInv, InCalls
<1>3. CASE PollDecisionTask
  <2>1. /\ phase = "idle" /\ phase' = "next" /\ pos' = pos
        /\ history' = Append(history, Event("DecisionTaskStarted"))
    BY <1>3 DEF PollDecisionTask
  <2>2. pos' = 1
    BY <2>1 DEF IdleInv
  <2>3. PICK n : n = Len(history)
    OBVIOUS
  <2>4. n \in Nat /\ Len(history') = n + 1
    BY <2>1, <2>3, AppendIsBehind, LenProperties DEF IInv, ServiceInv, IsSeq
  <2>5. ~(pos' > Len(history'))
    BY <2>2, <2>4
  <2> QED BY <2>1, <2>5 DEF CallsInv, InCalls
<1> QED BY <1>1, <1>2, <1>3

-----------------------------------------------------------------------------
(* What the service was told                                               *)

\* What is said about an id, and with what properties, at a place of the history h
\* behind which the decisions ds wait; of the events those at E count.
Word(h, E, ds, n, id, props) ==
    \/ n \in E /\ Said(h[n]) /\ h[n].id = id /\ h[n].props = props
    \/ \E k \in DOMAIN ds : /\ n = Len(h) + k /\ ~ClosesWorkflow(ds[k])
                            /\ ds[k].id = id /\ ds[k].props = props

\* This is what a batch wants that found v and made the calls o, in their order.
AnsweredBy(v, o, h, E, ds) ==
    /\ \A n \in Nat : \A id, props : Word(h, E, ds, n, id, props) =>
           \E j \in DOMAIN o : Wants(v, o, j, id, props)
    /\ \A j \in DOMAIN o : \A id, props : Wants(v, o, j, id, props) =>
           \E n \in Nat : Word(h, E, ds, n, id, props)
    /\ \A m, n \in Nat : \A x, p, y, q : \A a, b \in DOMAIN o :
           /\ m < n /\ Word(h, E, ds, m, x, p) /\ Word(h, E, ds, n, y, q)
           /\ Wants(v, o, a, x, p) /\ Wants(v, o, b, y, q)
           => a < b

\* The decision events directly behind a mark.
RunOf(h, d) == {i \in (d + 1)..Len(h) : \A j \in (d + 1)..i : is_decision_event(h[j])}

\* The answer says what the code of the last batch wants.
AnswerSays ==
    /\ phase = "respond" => AnsweredBy(view, ops, history, {}, decisions)
    /\ phase = "record" =>
           \E d \in DOMAIN history :
               /\ history[d].type = "DecisionTaskCompleted"
               /\ \A i \in (d + 1)..Len(history) : is_decision_event(history[i])
               /\ AnsweredBy(view, ops, history, (d + 1)..Len(history), decisions)

\* And what is behind the mark of an answer is what the code wanted that gave it.
ScriptSays ==
    \A d \in DOMAIN history : \A k \in DOMAIN script :
        /\ history[d].type = "DecisionTaskCompleted"
        /\ Cardinality(AnswersTo(history, d)) = k
        => AnsweredBy(script[k].view, script[k].ops, history, RunOf(history, d), << >>)

\* The same is said when every word is there still, and in the same order.
LEMMA AnswerMoves ==
    ASSUME NEW v, NEW o, NEW h, NEW E, NEW ds, AnsweredBy(v, o, h, E, ds), NEW g, NEW F, NEW es,
           \A n \in Nat : \A x, p : Word(g, F, es, n, x, p) => \E m \in Nat : Word(h, E, ds, m, x, p),
           \A n \in Nat : \A x, p : Word(h, E, ds, n, x, p) => \E m \in Nat : Word(g, F, es, m, x, p),
           \A m, n \in Nat : \A x, p, y, q :
               m < n /\ Word(g, F, es, m, x, p) /\ Word(g, F, es, n, y, q) =>
                   \E k, l \in Nat : k < l /\ Word(h, E, ds, k, x, p) /\ Word(h, E, ds, l, y, q)
    PROVE  AnsweredBy(v, o, g, F, es)
<1>1. ASSUME NEW n \in Nat, NEW id, NEW props, Word(g, F, es, n, id, props)
      PROVE  \E j \in DOMAIN o : Wants(v, o, j, id, props)
  BY <1>1 DEF AnsweredBy
<1>2. ASSUME NEW j \in DOMAIN o, NEW id, NEW props, Wants(v, o, j, id, props)
      PROVE  \E n \in Nat : Word(g, F, es, n, id, props)
  <2>1. PICK n \in Nat : Word(h, E, ds, n, id, props)
    BY <1>2 DEF AnsweredBy
  <2> QED BY <2>1
<1>3. ASSUME NEW m \in Nat, NEW n \in Nat, NEW x, NEW p, NEW y, NEW q, NEW a \in DOMAIN o, NEW b \in DOMAIN o,
             m < n, Word(g, F, es, m, x, p), Word(g, F, es, n, y, q),
             Wants(v, o, a, x, p), Wants(v, o, b, y, q)
      PROVE  a < b
  <2>1. PICK k, l \in Nat : k < l /\ Word(h, E, ds, k, x, p) /\ Word(h, E, ds, l, y, q)
    BY <1>3
  <2> QED BY <1>3, <2>1 DEF AnsweredBy
<1> QED BY <1>1, <1>2, <1>3 DEF AnsweredBy

\* Nothing moves when the events that count are the same.
LEMMA SameWords ==
    ASSUME NEW v, NEW o, NEW h, NEW E, AnsweredBy(v, o, h, E, << >>),
           NEW g, \A i \in E : g[i] = h[i]
    PROVE  AnsweredBy(v, o, g, E, << >>)
<1>1. \A n, x, p : Word(g, E, << >>, n, x, p) <=> Word(h, E, << >>, n, x, p)
  <2>1. DOMAIN << >> = {}
    BY EmptyIsSeq
  <2> QED BY <2>1 DEF Word
<1> QED BY <1>1, AnswerMoves

\* A run ends where it ended, when nothing was added that records a decision or there
\* is something else behind it.
LEMMA RunStays ==
    ASSUME NEW h, NEW g, IsSeq(h), IsSeq(g), \A i \in DOMAIN h : i \in DOMAIN g /\ g[i] = h[i],
           NEW d \in DOMAIN h,
           \/ \A i \in DOMAIN g : i \in DOMAIN h \/ ~is_decision_event(g[i])
           \/ \E x \in (d + 1)..Len(h) : ~is_decision_event(h[x])
    PROVE  /\ RunOf(g, d) = RunOf(h, d)
           /\ \A i \in RunOf(h, d) : g[i] = h[i]
<1>1. PICK n \in Nat : n = Len(h) /\ DOMAIN h = 1..n
  BY LenProperties DEF IsSeq
<1>2. PICK m \in Nat : m = Len(g) /\ DOMAIN g = 1..m
  BY LenProperties DEF IsSeq
<1>3. n <= m
  <2>1. CASE n = 0
    BY <2>1
  <2>2. CASE n # 0
    <3>1. n \in 1..n
      BY <2>2
    <3>2. n \in 1..m
      BY <1>1, <1>2, <3>1
    <3> QED BY <3>2
  <2> QED BY <2>1, <2>2
<1>4. d \in 1..n
  BY <1>1
<1>5. ASSUME NEW i \in RunOf(g, d) PROVE i \in 1..n
  <2>1. i \in (d + 1)..m /\ \A j \in (d + 1)..i : is_decision_event(g[j])
    BY <1>2, <1>5 DEF RunOf
  <2>2. SUFFICES ASSUME i > n PROVE FALSE
    BY <1>4, <2>1
  <2>3. CASE \A j \in DOMAIN g : j \in DOMAIN h \/ ~is_decision_event(g[j])
    <3>1. i \in (d + 1)..i /\ i \in 1..m /\ i \notin 1..n
      BY <1>4, <2>1, <2>2
    <3> QED BY <1>1, <1>2, <2>1, <2>3, <3>1
  <2>4. CASE \E x \in (d + 1)..Len(h) : ~is_decision_event(h[x])
    <3>1. PICK x \in (d + 1)..n : ~is_decision_event(h[x])
      BY <1>1, <2>4
    <3>2. x \in (d + 1)..i /\ x \in 1..n
      BY <1>4, <2>1, <2>2
    <3> QED BY <1>1, <2>1, <3>1, <3>2
  <2> QED BY <2>3, <2>4
<1>6. \A i \in 1..n : \A j \in (d + 1)..i : j \in 1..n
  BY <1>4
<1>7. \A i \in 1..n : i \in RunOf(g, d) <=> i \in RunOf(h, d)
  <2> SUFFICES ASSUME NEW i \in 1..n PROVE i \in RunOf(g, d) <=> i \in RunOf(h, d)
    OBVIOUS
  <2>1. i \in (d + 1)..m <=> i \in (d + 1)..n
    BY <1>3, <1>4
  <2>2. \A j \in (d + 1)..i : g[j] = h[j]
    BY <1>1, <1>6
  <2> QED BY <1>1, <1>2, <2>1, <2>2 DEF RunOf
<1>8. \A i \in RunOf(h, d) : i \in 1..n
  BY <1>1, <1>4 DEF RunOf
<1> QED BY <1>1, <1>5, <1>7, <1>8

\* Only recording a decision writes an event that records one.
LEMMA OthersSayNothing ==
    ASSUME IInv, HistoryInv, DecisionsInv, ServiceNext, ~RecordDecision
    PROVE  \A i \in DOMAIN history' : i \in DOMAIN history \/ ~is_decision_event(history'[i])
<1>1. IsSeq(history) /\ IsSeq(buffered)
  BY DEF IInv, ServiceInv
<1>2. \A k \in DOMAIN buffered : ~is_decision_event(buffered[k])
  BY DEF HistoryInv, WrittenInv, Writable, RefTypes, activity_close_types, is_decision_event, decision_event_types
<1>3. ASSUME NEW e, ~is_decision_event(e)
      PROVE  IsSeq(<< e >>) /\ \A k \in DOMAIN << e >> : ~is_decision_event(<< e >>[k])
  <2>1. IsSeq(<< e >>)
    BY TuplesAreSeqs
  <2>2. \A k \in DOMAIN << e >> : << e >>[k] = e
    OBVIOUS
  <2> QED BY <1>3, <2>1, <2>2
<1>16. ASSUME NEW e, NEW f, ~is_decision_event(e), ~is_decision_event(f)
       PROVE  IsSeq(<< e, f >>) /\ \A k \in DOMAIN << e, f >> : ~is_decision_event(<< e, f >>[k])
  <2>1. IsSeq(<< e, f >>)
    BY TuplesAreSeqs
  <2>2. \A k \in DOMAIN << e, f >> : << e, f >>[k] \in {e, f}
    OBVIOUS
  <2> QED BY <1>16, <2>1, <2>2
<1>4. ASSUME NEW h, NEW new, IsSeq(h), IsSeq(new), \A k \in DOMAIN new : ~is_decision_event(new[k])
      PROVE  \A i \in DOMAIN (h \o new) :
                 \/ i \in DOMAIN h /\ (h \o new)[i] = h[i]
                 \/ ~is_decision_event((h \o new)[i])
  <2>1. /\ IsSeq(h \o new)
        /\ Len(h) \in Nat /\ DOMAIN h = 1..Len(h)
        /\ Len(new) \in Nat /\ DOMAIN new = 1..Len(new)
        /\ Len(h \o new) = Len(h) + Len(new)
        /\ DOMAIN (h \o new) = 1..(Len(h) + Len(new))
        /\ \A i \in DOMAIN h : (h \o new)[i] = h[i]
        /\ \A k \in DOMAIN new : (h \o new)[Len(h) + k] = new[k]
        /\ \A i \in DOMAIN (h \o new) :
               i \in DOMAIN h \/ \E k \in DOMAIN new : i = Len(h) + k
    BY <1>4, ConcatPositions, ZenonT(40)
  <2> QED BY <1>4, <2>1
<1>5. ASSUME NEW new, IsSeq(new), \A k \in DOMAIN new : ~is_decision_event(new[k]),
             history' = history \o new \/ history' = history
      PROVE  \A i \in DOMAIN history' : i \in DOMAIN history \/ ~is_decision_event(history'[i])
  BY <1>1, <1>4, <1>5
<1>6. ASSUME NEW e, ~is_decision_event(e), history' = Append(history, e)
      PROVE  \A i \in DOMAIN history' : i \in DOMAIN history \/ ~is_decision_event(history'[i])
  <2>1. history' = history \o << e >>
    BY <1>1, <1>6, AppendIsBehind
  <2> QED BY <1>3, <1>5, <1>6, <2>1
<1>7. ASSUME NEW s, NEW type \in CloseEvents, ActivityCloses(s, type)
      PROVE  \A i \in DOMAIN history' : i \in DOMAIN history \/ ~is_decision_event(history'[i])
  <2>1. PICK e, f : e = RefEvent("ActivityTaskStarted", s) /\ f = RefEvent(type, s)
    OBVIOUS
  <2>2. ~is_decision_event(e) /\ ~is_decision_event(f)
    BY <2>1, CloseEventsAssumption DEF RefEvent, is_decision_event, decision_event_types
  <2>3. Arrive(<< f >>) \/ Arrive(<< e, f >>)
    BY <1>7, <2>1 DEF ActivityCloses
  <2>4. CASE Arrive(<< f >>)
    BY <1>3, <1>5, <2>2, <2>4 DEF Arrive
  <2>5. CASE Arrive(<< e, f >>)
    BY <1>16, <1>5, <2>2, <2>5 DEF Arrive
  <2> QED BY <2>3, <2>4, <2>5
<1>8. ASSUME NEW id, TimerFires(id)
      PROVE  \A i \in DOMAIN history' : i \in DOMAIN history \/ ~is_decision_event(history'[i])
  <2>1. PICK e : e = IdEvent("TimerFired", id)
    OBVIOUS
  <2>2. ~is_decision_event(e)
    BY <2>1 DEF IdEvent, is_decision_event, decision_event_types
  <2> QED BY <1>3, <1>5, <1>8, <2>1, <2>2 DEF TimerFires, Arrive
<1>9. \A type \in unsuccessful \cup {"WorkflowExecutionSignaled", "DecisionTaskStarted", "DecisionTaskCompleted"} :
          ~is_decision_event(Event(type))
  BY DEF Event, is_decision_event, decision_event_types, unsuccessful
<1>10. CASE SignalArrives
  <2>1. PICK e : e = Event("WorkflowExecutionSignaled")
    OBVIOUS
  <2>2. ~is_decision_event(e)
    BY <1>9, <2>1
  <2> QED BY <1>3, <1>5, <1>10, <2>1, <2>2 DEF SignalArrives, Arrive
<1>11. CASE PollDecisionTask
  BY <1>6, <1>9, <1>11 DEF PollDecisionTask
<1>12. ASSUME NEW type \in unsuccessful, Unsuccessfully(type)
       PROVE  \A i \in DOMAIN history' : i \in DOMAIN history \/ ~is_decision_event(history'[i])
  <2>1. PICK e, h : e = Event(type) /\ h = history \o << e >>
    OBVIOUS
  <2>2. ~is_decision_event(e)
    BY <1>9, <2>1
  <2>3. IsSeq(h)
    BY <1>1, <1>3, <2>1, <2>2, ConcatIsSeq
  <2>4. \A i \in DOMAIN h : i \in DOMAIN history \/ ~is_decision_event(h[i])
    BY <1>1, <1>3, <1>4, <2>1, <2>2
  <2>5. history' = h \o buffered
    BY <1>12, <2>1 DEF Unsuccessfully
  <2> QED BY <1>1, <1>2, <1>4, <2>3, <2>4, <2>5
<1>13. CASE FinishDecisionTask
  BY <1>1, <1>2, <1>5, <1>13 DEF FinishDecisionTask
<1>14. CASE DecisionTaskTimesOut \/ RespondDecisionTaskFailed
  BY <1>12, <1>14 DEF DecisionTaskTimesOut, RespondDecisionTaskFailed, unsuccessful
<1>15. CASE RespondDecisionTaskCompleted
  BY <1>6, <1>9, <1>12, <1>15 DEF RespondDecisionTaskCompleted, unsuccessful
<1> QED BY <1>7, <1>8, <1>10, <1>11, <1>13, <1>14, <1>15 DEF ServiceNext

\* A decision is recorded as it was asked for, and what may be recorded besides says
\* nothing more.
WrittenAs(h, d, g, n, l) ==
    /\ n \in Nat /\ l \in {n + 1, n + 2}
    /\ n = Len(h) /\ DOMAIN h = 1..n /\ l = Len(g) /\ DOMAIN g = 1..l
    /\ \A i \in 1..n : g[i] = h[i]
    /\ g[n + 1].id = d.id /\ g[n + 1].props = d.props
    /\ Said(g[n + 1]) <=> ~ClosesWorkflow(d)
    /\ \A i \in (n + 1)..l : is_decision_event(g[i])
    /\ \A i \in (n + 2)..l : ~Said(g[i])

LEMMA RecordedWord ==
    ASSUME ~ImmediateCancel, IInv, HistoryInv, DecisionsInv, RecordDecision
    PROVE  /\ phase = "record" /\ phase' = "record" /\ UNCHANGED << view, ops, script >>
           /\ decisions # << >> /\ decisions' = Tail(decisions)
           /\ \E n, l : WrittenAs(history, decisions[1], history', n, l)
<1>1. IsSeq(history) /\ IsSeq(decisions)
  BY DEF IInv, ServiceInv, DecisionsInv
<1>2. PICK n : n = Len(history)
  OBVIOUS
<1>3. PICK d : d = Head(decisions)
  OBVIOUS
<1>4. PICK g : g = history'
  OBVIOUS
<1>5. /\ phase = "record" /\ phase' = "record" /\ UNCHANGED << view, ops, script >>
      /\ decisions # << >> /\ decisions' = Tail(decisions)
  BY DEF RecordDecision, engineVars, userVars
<1>6. d = decisions[1]
  BY <1>1, <1>3, <1>5, HeadAndTail
<1>7. n \in Nat /\ DOMAIN history = 1..n
  BY <1>1, <1>2, LenProperties DEF IsSeq
<1>8. \A type : /\ RecordedEvent(type, d).type = type /\ RecordedEvent(type, d).id = d.id
                /\ RecordedEvent(type, d).props = d.props
  BY DEF RecordedEvent
<1>9. ASSUME NEW e, g = Append(history, e)
      PROVE  /\ Len(g) = n + 1 /\ DOMAIN g = 1..(n + 1)
             /\ \A i \in 1..n : g[i] = history[i]
             /\ g[n + 1] = e
  <2>1. /\ n \in Nat /\ DOMAIN history = 1..n
        /\ IsSeq(Append(history, e)) /\ Len(Append(history, e)) = n + 1 /\ DOMAIN Append(history, e) = 1..(n + 1)
        /\ Append(history, e)[n + 1] = e
        /\ \A i \in 1..n : Append(history, e)[i] = history[i]
    BY <1>1, <1>2, AppendPositions
  <2> QED BY <1>9, <2>1
<1>10. ASSUME NEW e, NEW f, g = history \o << e, f >>
       PROVE  /\ Len(g) = n + 2 /\ DOMAIN g = 1..(n + 2)
              /\ \A i \in 1..n : g[i] = history[i]
              /\ g[n + 1] = e /\ g[n + 2] = f
  <2>1. PICK a : a = Append(history, e)
    OBVIOUS
  <2>2. g = Append(a, f)
    <3>1. PICK S : S = {history[i] : i \in DOMAIN history} \cup {e, f}
      OBVIOUS
    <3>2. history \in Seq(S) /\ e \in S /\ f \in S
      BY <1>1, <3>1 DEF IsSeq
    <3> QED BY <1>10, <2>1, <3>2
  <2>3. /\ n \in Nat /\ DOMAIN history = 1..n
        /\ IsSeq(Append(history, e)) /\ Len(Append(history, e)) = n + 1 /\ DOMAIN Append(history, e) = 1..(n + 1)
        /\ Append(history, e)[n + 1] = e
        /\ \A i \in 1..n : Append(history, e)[i] = history[i]
    BY <1>1, <1>2, AppendPositions
  <2>4. PICK m : m = n + 1
    OBVIOUS
  <2>5. /\ IsSeq(a) /\ m = Len(a) /\ DOMAIN a = 1..m /\ a[m] = e
        /\ \A i \in 1..n : a[i] = history[i]
    BY <2>1, <2>3, <2>4
  <2>6. /\ m \in Nat /\ DOMAIN a = 1..m
        /\ IsSeq(Append(a, f)) /\ Len(Append(a, f)) = m + 1 /\ DOMAIN Append(a, f) = 1..(m + 1)
        /\ Append(a, f)[m + 1] = f
        /\ \A i \in 1..m : Append(a, f)[i] = a[i]
    BY <2>5, AppendPositions
  <2>7. m + 1 = n + 2 /\ m \in 1..m /\ \A i \in 1..n : i \in 1..m
    BY <1>7, <2>4
  <2>8. /\ Len(g) = m + 1 /\ DOMAIN g = 1..(m + 1) /\ g[m + 1] = f
        /\ \A i \in 1..m : g[i] = a[i]
    BY <2>2, <2>6
  <2>9. g[m] = e /\ \A i \in 1..n : g[i] = history[i]
    BY <2>5, <2>7, <2>8
  <2> QED BY <2>4, <2>7, <2>8, <2>9
<1>11. \/ \E type : g = Append(history, RecordedEvent(type, d))
       \/ /\ d.what = "RequestCancelActivityTask"
          /\ g = history \o << RecordedEvent("ActivityTaskCancelRequested", d),
                               RecordedEvent("RequestCancelActivityTaskFailed", d) >>
  BY <1>3, <1>4 DEF RecordDecision
<1>12. CASE \E type : g = Append(history, RecordedEvent(type, d))
  <2>1. PICK type : g = Append(history, RecordedEvent(type, d))
    BY <1>12
  <2>2. /\ Len(g) = n + 1 /\ DOMAIN g = 1..(n + 1)
        /\ \A i \in 1..n : g[i] = history[i]
        /\ g[n + 1] = RecordedEvent(type, d)
    BY <1>9, <2>1
  <2>3. ASSUME NEW types, RecordsOne(d, types) PROVE type \in types
    <3>1. PICK e : e.type \in types /\ g = Append(history, e)
      BY <1>4, <2>3 DEF RecordsOne
    <3>2. g[n + 1] = e
      BY <1>9, <3>1
    <3> QED BY <1>8, <2>2, <3>1, <3>2
  <2>4. ~\E e, f : /\ e.type = "ActivityTaskCancelRequested" /\ e.id = d.id
                   /\ f.type = "RequestCancelActivityTaskFailed" /\ f.id = d.id
                   /\ history' = history \o << e, f >>
    <3> SUFFICES ASSUME NEW e, NEW f, g = history \o << e, f >> PROVE FALSE
      BY <1>4
    <3>1. Len(g) = n + 2
      BY <1>10
    <3> QED BY <1>7, <2>2, <3>1
  <2>5. /\ type \in StartTypes \cup CancelTypes \cup close_types
        /\ type \in close_types <=> ClosesWorkflow(d)
    <3>1. /\ phase = "record" /\ phase' = "record" /\ ~Closed
          /\ decisions # << >> /\ decisions' = Tail(decisions) /\ Sendable(history, d)
          /\ \/ /\ Starts(d) /\ ~ClosesWorkflow(d) /\ UNCHANGED buffered
                /\ RecordsOne(d, {IF d.what = "StartTimer" THEN "TimerStarted" ELSE "ActivityTaskScheduled"})
             \/ /\ d.what = "CancelTimer" /\ ~Starts(d) /\ ~ClosesWorkflow(d)
                /\ RecordsOne(d, {"TimerCanceled"})
                /\ \/ UNCHANGED buffered
                   \/ \E i \in DOMAIN buffered :
                          IsFiringOf(d.id, buffered[i]) /\ buffered' = SE!RemoveAt(buffered, i)
             \/ /\ d.what = "RequestCancelActivityTask" /\ ~Starts(d) /\ ~ClosesWorkflow(d)
                /\ UNCHANGED buffered
                /\ \/ RecordsOne(d, {"ActivityTaskCancelRequested"})
                   \/ \E e, f : /\ e.type = "ActivityTaskCancelRequested" /\ e.id = d.id
                                /\ f.type = "RequestCancelActivityTaskFailed" /\ f.id = d.id
                                /\ history' = history \o << e, f >>
             \/ ClosesWorkflow(d) /\ ~Starts(d) /\ RecordsOne(d, close_types) /\ UNCHANGED buffered
      BY <1>3, DecisionRecorded
    <3>2. \/ ~ClosesWorkflow(d) /\ RecordsOne(d, {IF d.what = "StartTimer" THEN "TimerStarted" ELSE "ActivityTaskScheduled"})
          \/ ~ClosesWorkflow(d) /\ RecordsOne(d, {"TimerCanceled"})
          \/ ~ClosesWorkflow(d) /\ RecordsOne(d, {"ActivityTaskCancelRequested"})
          \/ ClosesWorkflow(d) /\ RecordsOne(d, close_types)
      BY <2>4, <3>1
    <3>3. \/ ~ClosesWorkflow(d) /\ type \in StartTypes \cup CancelTypes
          \/ ClosesWorkflow(d) /\ type \in close_types
      BY <2>3, <3>2 DEF StartTypes, CancelTypes
    <3> QED BY <3>3 DEF StartTypes, CancelTypes, close_types
  <2>6. /\ Said(RecordedEvent(type, d)) <=> ~ClosesWorkflow(d)
        /\ is_decision_event(RecordedEvent(type, d))
    BY <1>8, <2>5 DEF Said, StartTypes, CancelTypes, close_types, is_decision_event, decision_event_types
  <2>7. \A i \in (n + 1)..(n + 1) : i = n + 1
    BY <1>7
  <2>8. \A i \in (n + 2)..(n + 1) : FALSE
    BY <1>7
  <2>9. WrittenAs(history, d, g, n, n + 1)
    BY <1>2, <1>7, <1>8, <2>2, <2>6, <2>7, <2>8 DEF WrittenAs
  <2> QED BY <1>4, <1>5, <1>6, <2>9
<1>13. CASE /\ d.what = "RequestCancelActivityTask"
            /\ g = history \o << RecordedEvent("ActivityTaskCancelRequested", d),
                                 RecordedEvent("RequestCancelActivityTaskFailed", d) >>
  <2>1. PICK e, f : /\ e = RecordedEvent("ActivityTaskCancelRequested", d)
                    /\ f = RecordedEvent("RequestCancelActivityTaskFailed", d)
    OBVIOUS
  <2>2. /\ Len(g) = n + 2 /\ DOMAIN g = 1..(n + 2)
        /\ \A i \in 1..n : g[i] = history[i]
        /\ g[n + 1] = e /\ g[n + 2] = f
    <3>1. g = history \o << e, f >>
      BY <1>13, <2>1
    <3> QED BY <1>10, <3>1
  <2>3. ~ClosesWorkflow(d)
    BY <1>13, OutcomesAssumption DEF ClosesWorkflow
  <2>4. /\ Said(e) /\ ~Said(f) /\ is_decision_event(e) /\ is_decision_event(f)
        /\ e.id = d.id /\ e.props = d.props
    BY <1>8, <2>1 DEF Said, StartTypes, CancelTypes, is_decision_event, decision_event_types
  <2>5. \A i \in (n + 1)..(n + 2) : i = n + 1 \/ i = n + 2
    BY <1>7
  <2>6. \A i \in (n + 2)..(n + 2) : i = n + 2
    BY <1>7
  <2>7. WrittenAs(history, d, g, n, n + 2)
    BY <1>2, <1>7, <2>2, <2>3, <2>4, <2>5, <2>6 DEF WrittenAs
  <2> QED BY <1>4, <1>5, <1>6, <2>7
<1> QED BY <1>11, <1>12, <1>13

\* So recording it leaves said what was said.
LEMMA RecordingSaysTheSame ==
    ASSUME NEW v, NEW o, NEW h, NEW a \in Nat, NEW ds, NEW g, NEW n, NEW l, a <= n,
           IsSeq(ds), ds # << >>, WrittenAs(h, ds[1], g, n, l),
           AnsweredBy(v, o, h, (a + 1)..n, ds)
    PROVE  AnsweredBy(v, o, g, (a + 1)..l, Tail(ds))
<1>1. PICK es : es = Tail(ds)
  OBVIOUS
<1>2. PICK d : d = ds[1]
  OBVIOUS
<1>3. PICK s \in Nat : s > 0 /\ DOMAIN ds = 1..s /\ DOMAIN es = 1..(s - 1) /\ \A k \in 1..(s - 1) : es[k] = ds[k + 1]
  <2>1. /\ 1 \in DOMAIN ds /\ Head(ds) = ds[1]
        /\ IsSeq(Tail(ds))
        /\ Len(ds) \in Nat /\ DOMAIN ds = 1..Len(ds)
        /\ DOMAIN Tail(ds) = 1..(Len(ds) - 1)
        /\ \A k \in DOMAIN Tail(ds) : k + 1 \in DOMAIN ds /\ Tail(ds)[k] = ds[k + 1]
        /\ Len(ds) = 1 => Tail(ds) = << >>
    BY HeadAndTail
  <2>2. PICK s \in Nat : s = Len(ds)
    BY <2>1
  <2>3. s > 0
    BY <2>1, <2>2
  <2> QED BY <1>1, <2>1, <2>2, <2>3
<1>4. /\ n \in Nat /\ l \in {n + 1, n + 2} /\ Len(h) = n /\ Len(g) = l
      /\ \A i \in 1..n : g[i] = h[i]
      /\ g[n + 1].id = d.id /\ g[n + 1].props = d.props
      /\ Said(g[n + 1]) <=> ~ClosesWorkflow(d)
      /\ \A i \in (n + 2)..l : ~Said(g[i])
  BY <1>2 DEF WrittenAs
<1> DEFINE Old(k, x, p) == Word(h, (a + 1)..n, ds, k, x, p)
           New_(m, x, p) == Word(g, (a + 1)..l, es, m, x, p)
           At(m, k) == (m <= n + 1 /\ k = m) \/ (m > l /\ k = m - l + n + 1)
<1>5. ASSUME NEW m \in Nat, NEW x, NEW p, New_(m, x, p)
      PROVE  \E k \in Nat : At(m, k) /\ Old(k, x, p)
  <2>1. CASE m \in (a + 1)..l /\ Said(g[m]) /\ g[m].id = x /\ g[m].props = p
    <3>1. m <= n + 1
      BY <1>4, <2>1
    <3>2. CASE m \in 1..n
      <4>1. m \in (a + 1)..n /\ Said(h[m]) /\ h[m].id = x /\ h[m].props = p
        BY <1>4, <2>1, <3>2
      <4> QED BY <3>1, <4>1 DEF Word
    <3>3. CASE m = n + 1
      <4>1. m = Len(h) + 1 /\ 1 \in DOMAIN ds /\ ~ClosesWorkflow(ds[1]) /\ ds[1].id = x /\ ds[1].props = p
        BY <1>2, <1>3, <1>4, <2>1, <3>3
      <4> QED BY <3>1, <4>1 DEF Word
    <3> QED BY <1>4, <2>1, <3>1, <3>2, <3>3
  <2>2. CASE \E k \in DOMAIN es : m = Len(g) + k /\ ~ClosesWorkflow(es[k]) /\ es[k].id = x /\ es[k].props = p
    <3>1. PICK k \in 1..(s - 1) : m = l + k /\ ~ClosesWorkflow(es[k]) /\ es[k].id = x /\ es[k].props = p
      BY <1>3, <1>4, <2>2
    <3>2. k \in Nat /\ n \in Nat
      BY <1>4, <3>1
    <3>3. PICK q, r \in Nat : q = k + 1 /\ r = n + q
      BY <3>2
    <3>4. q \in DOMAIN ds /\ es[k] = ds[q]
      <4>1. q \in 1..s
        BY <1>3, <3>1, <3>3
      <4> QED BY <1>3, <3>1, <3>3, <4>1
    <3>5. Old(r, x, p)
      BY <1>4, <3>1, <3>3, <3>4 DEF Word
    <3>6. At(m, r)
      BY <1>4, <3>1, <3>3
    <3> QED BY <3>5, <3>6
  <2> QED BY <1>5, <2>1, <2>2 DEF Word
<1>6. ASSUME NEW k \in Nat, NEW x, NEW p, Old(k, x, p)
      PROVE  \E m \in Nat : New_(m, x, p)
  <2>1. CASE k \in (a + 1)..n /\ Said(h[k]) /\ h[k].id = x /\ h[k].props = p
    <3>1. k \in (a + 1)..l /\ g[k] = h[k]
      BY <1>4, <2>1
    <3> QED BY <2>1, <3>1 DEF Word
  <2>2. CASE \E j \in DOMAIN ds : k = Len(h) + j /\ ~ClosesWorkflow(ds[j]) /\ ds[j].id = x /\ ds[j].props = p
    <3>1. PICK j \in 1..s : ~ClosesWorkflow(ds[j]) /\ ds[j].id = x /\ ds[j].props = p
      BY <1>3, <2>2
    <3>2. CASE j = 1
      <4>1. PICK i \in Nat : i = n + 1
        BY <1>4
      <4>2. i \in (a + 1)..l /\ Said(g[i]) /\ g[i].id = x /\ g[i].props = p
        BY <1>2, <1>4, <3>1, <3>2, <4>1
      <4> QED BY <4>2 DEF Word
    <3>3. CASE j # 1
      <4>1. PICK i \in 1..(s - 1) : j = i + 1
        BY <1>3, <3>3
      <4>2. PICK r \in Nat : r = l + i
        BY <1>4, <4>1
      <4>3. i \in DOMAIN es /\ es[i] = ds[j]
        BY <1>3, <4>1
      <4> QED BY <1>4, <3>1, <4>2, <4>3 DEF Word
    <3> QED BY <3>2, <3>3
  <2> QED BY <1>6, <2>1, <2>2 DEF Word
<1>7. \A m, b \in Nat : \A k, c \in Nat : m < b /\ At(m, k) /\ At(b, c) => k < c
  BY <1>4
<1> HIDE DEF At
<1>8. ASSUME NEW m \in Nat, NEW b \in Nat, NEW x, NEW p, NEW y, NEW q, m < b, New_(m, x, p), New_(b, y, q)
      PROVE  \E k, c \in Nat : k < c /\ Old(k, x, p) /\ Old(c, y, q)
  <2>1. PICK k \in Nat : At(m, k) /\ Old(k, x, p)
    BY <1>5, <1>8
  <2>2. PICK c \in Nat : At(b, c) /\ Old(c, y, q)
    BY <1>5, <1>8
  <2> QED BY <1>7, <1>8, <2>1, <2>2
<1>9. \A m \in Nat : \A x, p : New_(m, x, p) => \E k \in Nat : Old(k, x, p)
  BY <1>5
<1>10. \A k \in Nat : \A x, p : Old(k, x, p) => \E m \in Nat : New_(m, x, p)
  BY <1>6
<1>11. \A m, b \in Nat : \A x, p, y, q :
           m < b /\ New_(m, x, p) /\ New_(b, y, q) =>
               \E k, c \in Nat : k < c /\ Old(k, x, p) /\ Old(c, y, q)
  BY <1>8
<1>12. AnsweredBy(v, o, g, (a + 1)..l, es)
  BY <1>9, <1>10, <1>11, AnswerMoves
<1> QED BY <1>1, <1>12

\* The mark of the answer comes between the history and its decisions.
LEMMA MarkSaysNothing ==
    ASSUME NEW v, NEW o, NEW h, NEW ds, NEW g, NEW n \in Nat, n = Len(h), Len(g) = n + 1, IsSeq(ds),
           AnsweredBy(v, o, h, {}, ds)
    PROVE  AnsweredBy(v, o, g, (n + 1 + 1)..(n + 1), ds)
<1>1. PICK F : F = (n + 1 + 1)..(n + 1)
  OBVIOUS
<1>2. \A m : m \notin F
  BY <1>1
<1>3. \A k \in DOMAIN ds : k \in Nat
  BY LenProperties DEF IsSeq
<1>4. \A m \in Nat : \A x, p : Word(g, F, ds, m, x, p) =>
          \E k \in Nat : m = k + 1 /\ Word(h, {}, ds, k, x, p)
  <2> SUFFICES ASSUME NEW m \in Nat, NEW x, NEW p, Word(g, F, ds, m, x, p)
               PROVE  \E k \in Nat : m = k + 1 /\ Word(h, {}, ds, k, x, p)
    OBVIOUS
  <2>1. PICK j \in DOMAIN ds : m = n + 1 + j /\ ~ClosesWorkflow(ds[j]) /\ ds[j].id = x /\ ds[j].props = p
    BY <1>2 DEF Word
  <2>2. PICK k \in Nat : k = n + j /\ m = k + 1
    BY <1>3, <2>1
  <2> QED BY <2>1, <2>2 DEF Word
<1>5. \A k \in Nat : \A x, p : Word(h, {}, ds, k, x, p) => \E m \in Nat : Word(g, F, ds, m, x, p)
  <2> SUFFICES ASSUME NEW k \in Nat, NEW x, NEW p, Word(h, {}, ds, k, x, p)
               PROVE  \E m \in Nat : Word(g, F, ds, m, x, p)
    OBVIOUS
  <2>1. PICK j \in DOMAIN ds : k = n + j /\ ~ClosesWorkflow(ds[j]) /\ ds[j].id = x /\ ds[j].props = p
    BY DEF Word
  <2>2. PICK m \in Nat : m = n + 1 + j
    BY <1>3
  <2> QED BY <2>1, <2>2 DEF Word
<1>6. \A m, b \in Nat : \A x, p, y, q :
          m < b /\ Word(g, F, ds, m, x, p) /\ Word(g, F, ds, b, y, q) =>
              \E k, c \in Nat : k < c /\ Word(h, {}, ds, k, x, p) /\ Word(h, {}, ds, c, y, q)
  <2> SUFFICES ASSUME NEW m \in Nat, NEW b \in Nat, NEW x, NEW p, NEW y, NEW q,
                      m < b, Word(g, F, ds, m, x, p), Word(g, F, ds, b, y, q)
               PROVE  \E k, c \in Nat : k < c /\ Word(h, {}, ds, k, x, p) /\ Word(h, {}, ds, c, y, q)
    OBVIOUS
  <2>1. PICK k \in Nat : m = k + 1 /\ Word(h, {}, ds, k, x, p)
    BY <1>4
  <2>2. PICK c \in Nat : b = c + 1 /\ Word(h, {}, ds, c, y, q)
    BY <1>4
  <2>3. k < c
    BY <2>1, <2>2
  <2> QED BY <2>1, <2>2, <2>3
<1>7. \A m \in Nat : \A x, p : Word(g, F, ds, m, x, p) => \E k \in Nat : Word(h, {}, ds, k, x, p)
  BY <1>4
<1>8. AnsweredBy(v, o, g, F, ds)
  BY <1>5, <1>6, <1>7, AnswerMoves
<1> QED BY <1>1, <1>8

\* Nothing else touches an answer that is being given.
LEMMA AnswersAreLeft ==
    ASSUME ServiceNext, ~Takes, ~RecordDecision
    PROVE  /\ phase' # "record"
           /\ phase' = "respond" =>
                  phase = "respond" /\ UNCHANGED << history, decisions, view, ops >>
<1>1. ASSUME NEW events, Arrive(events)
      PROVE  /\ phase' # "record"
             /\ phase' = "respond" =>
                    phase = "respond" /\ UNCHANGED << history, decisions, view, ops >>
  BY <1>1 DEF Arrive, engineVars, userVars
<1>2. ASSUME NEW type, Unsuccessfully(type) PROVE phase' \notin {"record", "respond"}
  BY <1>2 DEF Unsuccessfully, DropEngine
<1>3. CASE \/ \E s \in DOMAIN history, type \in CloseEvents : ActivityCloses(s, type)
           \/ \E n \in 0..(MaxIds - 1) : TimerFires(DecisionId("TIMER", n))
           \/ SignalArrives
  BY <1>1, <1>3 DEF ActivityCloses, TimerFires, SignalArrives
<1>4. CASE DecisionTaskTimesOut \/ RespondDecisionTaskFailed
  BY <1>2, <1>4 DEF DecisionTaskTimesOut, RespondDecisionTaskFailed
<1>5. CASE RespondDecisionTaskCompleted
  BY <1>2, <1>5 DEF RespondDecisionTaskCompleted, Takes
<1>6. CASE PollDecisionTask \/ FinishDecisionTask
  BY <1>6 DEF PollDecisionTask, FinishDecisionTask, DropEngine
<1> QED BY <1>3, <1>4, <1>5, <1>6 DEF ServiceNext

\* What the service does with an answer leaves what it says.
LEMMA ServiceKeepsAnswerSays ==
    ASSUME ~ImmediateCancel, IInv, HistoryInv, DecisionsInv, AnswerSays, ServiceNext
    PROVE  AnswerSays'
<1>1. CASE Takes
  <2>1. /\ phase = "respond" /\ phase' = "record" /\ UNCHANGED << view, script >>
        /\ \E n \in Nat : /\ n = Len(history) /\ DOMAIN history = 1..n /\ DOMAIN history' = 1..(n + 1)
                          /\ Len(history') = n + 1
                          /\ history'[n + 1].type = "DecisionTaskCompleted"
    BY <1>1, TakenMark
  <2>2. PICK n \in Nat : /\ n = Len(history) /\ DOMAIN history' = 1..(n + 1)
                         /\ Len(history') = n + 1
                         /\ history'[n + 1].type = "DecisionTaskCompleted"
    BY <2>1
  <2>3. UNCHANGED << ops, decisions >>
    <3>1. Unsuccessfully("DecisionTaskFailed") => phase' = "idle"
      BY DEF Unsuccessfully, DropEngine
    <3> QED BY <1>1, <2>1, <3>1 DEF Takes, RespondDecisionTaskCompleted, userVars
  <2>4. PICK g : g = history'
    OBVIOUS
  <2>5. AnsweredBy(view, ops, history, {}, decisions) /\ IsSeq(decisions)
    BY <2>1 DEF AnswerSays, DecisionsInv
  <2>6. AnsweredBy(view, ops, g, (n + 1 + 1)..(n + 1), decisions)
    BY <2>2, <2>4, <2>5, MarkSaysNothing
  <2>7. PICK d : d = n + 1
    OBVIOUS
  <2>8. /\ d \in DOMAIN g /\ g[d].type = "DecisionTaskCompleted"
        /\ \A i \in (d + 1)..Len(g) : is_decision_event(g[i])
        /\ AnsweredBy(view, ops, g, (d + 1)..Len(g), decisions)
    BY <2>2, <2>4, <2>6, <2>7
  <2> QED BY <2>1, <2>3, <2>4, <2>8 DEF AnswerSays
<1>2. CASE RecordDecision
  <2>1. /\ phase = "record" /\ phase' = "record" /\ UNCHANGED << view, ops, script >>
        /\ decisions # << >> /\ decisions' = Tail(decisions)
        /\ \E n, l : WrittenAs(history, decisions[1], history', n, l)
    BY <1>2, RecordedWord
  <2>2. PICK g : g = history'
    OBVIOUS
  <2>3. PICK n, l : WrittenAs(history, decisions[1], g, n, l)
    BY <2>1, <2>2
  <2>4. /\ n \in Nat /\ l \in {n + 1, n + 2} /\ n = Len(history) /\ DOMAIN history = 1..n /\ l = Len(g)
        /\ DOMAIN g = 1..l
        /\ \A i \in 1..n : g[i] = history[i]
        /\ \A i \in (n + 1)..l : is_decision_event(g[i])
    BY <2>3 DEF WrittenAs
  <2>5. PICK d \in 1..n :
            /\ history[d].type = "DecisionTaskCompleted"
            /\ \A i \in (d + 1)..n : is_decision_event(history[i])
            /\ AnsweredBy(view, ops, history, (d + 1)..n, decisions)
    BY <2>1, <2>4 DEF AnswerSays
  <2>6. d \in Nat /\ d <= n /\ IsSeq(decisions)
    BY <2>4 DEF DecisionsInv
  <2>7. AnsweredBy(view, ops, g, (d + 1)..l, Tail(decisions))
    BY <2>1, <2>3, <2>5, <2>6, RecordingSaysTheSame
  <2>8. \A i \in (d + 1)..l : is_decision_event(g[i])
    <3> SUFFICES ASSUME NEW i \in (d + 1)..l PROVE is_decision_event(g[i])
      OBVIOUS
    <3>1. CASE i <= n
      <4>1. i \in (d + 1)..n /\ i \in 1..n
        BY <2>4, <2>6, <3>1
      <4> QED BY <2>4, <2>5, <4>1
    <3>2. CASE i > n
      <4>1. i \in (n + 1)..l
        BY <2>4, <2>6, <3>2
      <4> QED BY <2>4, <4>1
    <3> QED BY <2>4, <2>6, <3>1, <3>2
  <2>9. d \in DOMAIN g /\ g[d].type = "DecisionTaskCompleted"
    BY <2>4, <2>5
  <2>10. \E c \in DOMAIN g :
             /\ g[c].type = "DecisionTaskCompleted"
             /\ \A i \in (c + 1)..Len(g) : is_decision_event(g[i])
             /\ AnsweredBy(view, ops, g, (c + 1)..Len(g), Tail(decisions))
    BY <2>4, <2>7, <2>8, <2>9
  <2> QED BY <2>1, <2>2, <2>10 DEF AnswerSays
<1>3. CASE ~Takes /\ ~RecordDecision
  <2>1. /\ phase' # "record"
        /\ phase' = "respond" =>
               phase = "respond" /\ UNCHANGED << history, decisions, view, ops >>
    BY <1>3, AnswersAreLeft
  <2> QED BY <2>1 DEF AnswerSays
<1> QED BY <1>1, <1>2, <1>3

\* The answers that are in history stay there as they are.
LEMMA OldRunsStay ==
    ASSUME ~ImmediateCancel, IInv, IInv', HistoryInv, DecisionsInv, AnswerSays, ServiceNext,
           NEW d \in DOMAIN history,
           RecordDecision =>
               \E m \in (d + 1)..Len(history) : history[m].type = "DecisionTaskCompleted",
           NEW v, NEW o, AnsweredBy(v, o, history, RunOf(history, d), << >>)
    PROVE  AnsweredBy(v, o, history', RunOf(history', d), << >>)
<1>1. \A i \in DOMAIN history : i \in DOMAIN history' /\ history'[i] = history[i]
  BY HistoryIsKept
<1>2. PICK g : g = history'
  OBVIOUS
<1>3. IsSeq(history) /\ IsSeq(g)
  BY <1>2 DEF IInv, ServiceInv
<1>4. \/ \A i \in DOMAIN g : i \in DOMAIN history \/ ~is_decision_event(g[i])
      \/ \E x \in (d + 1)..Len(history) : ~is_decision_event(history[x])
  <2>1. CASE RecordDecision
    BY <2>1 DEF is_decision_event, decision_event_types
  <2>2. CASE ~RecordDecision
    BY <1>2, <2>2, OthersSayNothing
  <2> QED BY <2>1, <2>2
<1>5. /\ RunOf(g, d) = RunOf(history, d)
      /\ \A i \in RunOf(history, d) : g[i] = history[i]
  BY <1>1, <1>2, <1>3, <1>4, RunStays
<1>6. AnsweredBy(v, o, g, RunOf(history, d), << >>)
  BY <1>5, SameWords
<1> QED BY <1>2, <1>5, <1>6

\* While an answer is recorded its mark is the last, and no entry of the script is of
\* it; when it is recorded the next one is.
LEMMA LastMark ==
    ASSUME Deterministic, IInv, ScriptInv, AnswerSays, phase = "record"
    PROVE  \E e \in DOMAIN history :
               /\ history[e].type = "DecisionTaskCompleted"
               /\ RunOf(history, e) = (e + 1)..Len(history)
               /\ AnsweredBy(view, ops, history, (e + 1)..Len(history), decisions)
               /\ \A d \in DOMAIN history : history[d].type = "DecisionTaskCompleted" =>
                      /\ Cardinality(AnswersTo(history, d)) \in DOMAIN script => e \in (d + 1)..Len(history)
                      /\ Cardinality(AnswersTo(history, d)) = Len(script) + 1 => d = e
<1>1. PICK n \in Nat : n = Len(history) /\ DOMAIN history = 1..n
  BY LenProperties DEF IInv, ServiceInv, IsSeq
<1>2. PICK m \in Nat : m = Len(script) /\ DOMAIN script = 1..m
  BY LenProperties DEF ScriptInv, IsSeq
<1>3. PICK e \in 1..n :
          /\ history[e].type = "DecisionTaskCompleted"
          /\ \A i \in (e + 1)..n : is_decision_event(history[i])
          /\ AnsweredBy(view, ops, history, (e + 1)..n, decisions)
  BY <1>1 DEF AnswerSays
<1>4. \A i \in (e + 1)..n : history[i].type # "DecisionTaskCompleted"
  BY <1>3 DEF is_decision_event, decision_event_types
<1>5. RunOf(history, e) = (e + 1)..n
  <2>1. \A i \in (e + 1)..n : \A j \in (e + 1)..i : j \in (e + 1)..n
    OBVIOUS
  <2> QED BY <1>1, <1>3, <2>1 DEF RunOf
<1>6. PICK A : A = AnswersFrom(history, 1)
  OBVIOUS
<1>7. Cardinality(A) = m + 1
  BY <1>2, <1>6 DEF ScriptInv
<1>8. A \subseteq 1..n /\ IsFiniteSet(A) /\ e \in A
  <2>1. A \subseteq 1..n /\ e \in A
    BY <1>1, <1>3, <1>6 DEF AnswersFrom
  <2>2. IsFiniteSet(1..n)
    BY FS_Interval
  <2> QED BY <2>1, <2>2, FS_Subset
<1>9. AnswersTo(history, e) = A
  <2>1. \A i \in 1..n : history[i].type = "DecisionTaskCompleted" => i \in 1..e
    BY <1>4
  <2>2. \A i \in 1..e : i \in 1..n
    OBVIOUS
  <2> QED BY <1>1, <1>6, <2>1, <2>2 DEF AnswersFrom, AnswersTo
<1>10. ASSUME NEW d \in 1..n, history[d].type = "DecisionTaskCompleted",
              Cardinality(AnswersTo(history, d)) \in 1..m
       PROVE  e \in (d + 1)..n
  <2>1. d <= e
    BY <1>4, <1>10
  <2>2. d # e
    BY <1>7, <1>9, <1>10
  <2> QED BY <2>1, <2>2
<1>11. ASSUME NEW d \in 1..n, history[d].type = "DecisionTaskCompleted",
              Cardinality(AnswersTo(history, d)) = m + 1
       PROVE  d = e
  <2>1. d <= e
    BY <1>4, <1>11
  <2>2. SUFFICES ASSUME d < e PROVE FALSE
    BY <2>1
  <2>3. PICK B : B = AnswersTo(history, d)
    OBVIOUS
  <2>4. B \subseteq A \ {e}
    <3>1. \A i \in 1..d : i \in 1..n /\ i # e
      BY <2>2
    <3> QED BY <1>1, <1>6, <2>3, <3>1 DEF AnswersTo, AnswersFrom
  <2>5. IsFiniteSet(A \ {e}) /\ Cardinality(A \ {e}) = Cardinality(A) - 1
    BY <1>8, FS_RemoveElement
  <2>6. Cardinality(A \ {e}) = m
    BY <1>7, <2>5
  <2>7. IsFiniteSet(B) /\ Cardinality(B) <= m
    BY <2>4, <2>5, <2>6, FS_Subset
  <2> QED BY <1>11, <2>3, <2>7
<1> QED BY <1>1, <1>2, <1>3, <1>5, <1>10, <1>11

\* What the code wanted that ran first is kept with its answer.
LEMMA ServiceKeepsScriptSays ==
    ASSUME Deterministic, ~ImmediateCancel, IInv, IInv', HistoryInv, DecisionsInv, ScriptInv,
           AnswerSays, ScriptSays, ServiceNext
    PROVE  ScriptSays'
<1>1. PICK n \in Nat : n = Len(history) /\ DOMAIN history = 1..n
  BY LenProperties DEF IInv, ServiceInv, IsSeq
<1>2. \A i \in DOMAIN history : i \in DOMAIN history' /\ history'[i] = history[i]
  BY HistoryIsKept
<1>3. PICK g : g = history'
  OBVIOUS
<1>4. IsSeq(history) /\ IsSeq(g)
  BY <1>3 DEF IInv, ServiceInv
<1>5. PICK m \in Nat : m = Len(script) /\ DOMAIN script = 1..m /\ IsSeq(script)
  BY LenProperties DEF ScriptInv, IsSeq
<1>6. RecordDecision => phase = "record"
  BY DEF RecordDecision
<1>7. ASSUME NEW d \in 1..n, NEW k \in 1..m, history[d].type = "DecisionTaskCompleted",
             Cardinality(AnswersTo(history, d)) = k
      PROVE  AnsweredBy(script[k].view, script[k].ops, g, RunOf(g, d), << >>)
  <2>1. AnsweredBy(script[k].view, script[k].ops, history, RunOf(history, d), << >>)
    BY <1>1, <1>5, <1>7 DEF ScriptSays
  <2>2. RecordDecision =>
            \E e \in (d + 1)..Len(history) : history[e].type = "DecisionTaskCompleted"
    <3> SUFFICES ASSUME phase = "record"
                 PROVE  \E e \in (d + 1)..Len(history) : history[e].type = "DecisionTaskCompleted"
      BY <1>6
    <3>1. PICK e \in DOMAIN history :
               /\ history[e].type = "DecisionTaskCompleted"
               /\ RunOf(history, e) = (e + 1)..Len(history)
               /\ AnsweredBy(view, ops, history, (e + 1)..Len(history), decisions)
               /\ \A c \in DOMAIN history : history[c].type = "DecisionTaskCompleted" =>
                      /\ Cardinality(AnswersTo(history, c)) \in DOMAIN script => e \in (c + 1)..Len(history)
                      /\ Cardinality(AnswersTo(history, c)) = Len(script) + 1 => c = e
      BY LastMark
    <3>2. e \in (d + 1)..Len(history)
      BY <1>1, <1>5, <1>7, <3>1
    <3> QED BY <3>1, <3>2
  <2>3. d \in DOMAIN history
    BY <1>1
  <2>4. AnsweredBy(script[k].view, script[k].ops, history', RunOf(history', d), << >>)
    BY <2>1, <2>2, <2>3, OldRunsStay
  <2> QED BY <1>3, <2>4
<1>8. CASE Takes
  <2>1. /\ phase = "respond" /\ phase' = "record" /\ UNCHANGED << view, script >>
        /\ \E l \in Nat : /\ l = Len(history) /\ DOMAIN history = 1..l /\ DOMAIN history' = 1..(l + 1)
                          /\ Len(history') = l + 1
                          /\ history'[l + 1].type = "DecisionTaskCompleted"
    BY <1>8, TakenMark
  <2>2. DOMAIN g = 1..(n + 1) /\ Len(g) = n + 1 /\ \A i \in 1..n : g[i] = history[i]
    BY <1>1, <1>2, <1>3, <2>1
  <2>3. Cardinality(AnswersTo(g, n + 1)) = m + 1
    <3>1. AnswersTo(g, n + 1) = AnswersFrom(g, 1)
      BY <2>2 DEF AnswersTo, AnswersFrom
    <3>2. Event("DecisionTaskCompleted").type = "DecisionTaskCompleted"
      BY DEF Event
    <3>3. Cardinality(AnswersFrom(g, 1)) = Cardinality(AnswersFrom(history, 1)) + 1
      BY <1>3, <1>4, <1>8, <3>2, OneAnswerMore DEF Takes
    <3>4. Cardinality(AnswersFrom(history, 1)) = m + 0
      BY <1>5, <2>1 DEF ScriptInv
    <3> QED BY <1>5, <3>1, <3>3, <3>4
  <2>4. ASSUME NEW d \in DOMAIN g, NEW k \in 1..m, g[d].type = "DecisionTaskCompleted",
               Cardinality(AnswersTo(g, d)) = k
        PROVE  AnsweredBy(script[k].view, script[k].ops, g, RunOf(g, d), << >>)
    <3>1. d # n + 1
      BY <1>5, <2>3, <2>4
    <3>2. d \in 1..n
      BY <2>2, <3>1
    <3>3. AnswersTo(g, d) = AnswersTo(history, d)
      <4>1. \A i \in 1..d : g[i] = history[i]
        BY <2>2, <3>2
      <4> QED BY <4>1 DEF AnswersTo
    <3> QED BY <1>7, <2>2, <2>4, <3>2, <3>3
  <2>5. script' = script /\ DOMAIN script' = 1..m /\ history' = g
    BY <1>3, <1>5, <2>1
  <2> QED BY <2>4, <2>5 DEF ScriptSays
<1>9. CASE ~Takes
  <2>1. AnswersFrom(g, 1) = AnswersFrom(history, 1)
    BY <1>3, <1>9, ServiceAnswers DEF Takes
  <2>2. \A d \in DOMAIN g : g[d].type = "DecisionTaskCompleted" =>
            /\ d \in DOMAIN history /\ history[d].type = "DecisionTaskCompleted"
            /\ AnswersTo(g, d) = AnswersTo(history, d)
    <3>1. \A i \in DOMAIN history : i \in DOMAIN g /\ g[i] = history[i]
      BY <1>2, <1>3
    <3> QED BY <1>4, <2>1, <3>1, OldAnswers
  <2>3. ASSUME NEW d \in DOMAIN g, NEW k \in 1..m, g[d].type = "DecisionTaskCompleted",
               Cardinality(AnswersTo(g, d)) = k
        PROVE  AnsweredBy(script[k].view, script[k].ops, g, RunOf(g, d), << >>)
    BY <1>1, <1>7, <2>2, <2>3
  <2>4. CASE FinishDecisionTask
    <3>1. /\ phase = "record" /\ decisions = << >>
          /\ script' = Append(script, [view |-> view, ops |-> ops])
      BY <2>4 DEF FinishDecisionTask
    <3>2. PICK x, s : x = [view |-> view, ops |-> ops] /\ s = Append(script, x)
      OBVIOUS
    <3>3. x.view = view /\ x.ops = ops
      BY <3>2
    <3>4. DOMAIN s = 1..(m + 1) /\ s[m + 1] = x /\ \A k \in 1..m : s[k] = script[k]
      <4>1. /\ m \in Nat /\ DOMAIN script = 1..m
            /\ IsSeq(s) /\ Len(s) = m + 1 /\ DOMAIN s = 1..(m + 1)
            /\ s[m + 1] = x
            /\ \A k \in 1..m : s[k] = script[k]
        BY <1>5, <3>2, AppendPositions
      <4> QED BY <4>1
    <3>5. PICK e \in DOMAIN history :
               /\ history[e].type = "DecisionTaskCompleted"
               /\ RunOf(history, e) = (e + 1)..Len(history)
               /\ AnsweredBy(view, ops, history, (e + 1)..Len(history), decisions)
               /\ \A c \in DOMAIN history : history[c].type = "DecisionTaskCompleted" =>
                      /\ Cardinality(AnswersTo(history, c)) \in DOMAIN script => e \in (c + 1)..Len(history)
                      /\ Cardinality(AnswersTo(history, c)) = Len(script) + 1 => c = e
      BY <3>1, LastMark
    <3>6. ~RecordDecision
      BY <3>1 DEF RecordDecision
    <3>7. AnsweredBy(view, ops, history, RunOf(history, e), << >>)
      BY <3>1, <3>5
    <3>8. AnsweredBy(view, ops, history', RunOf(history', e), << >>)
      BY <3>5, <3>6, <3>7, OldRunsStay
    <3>9. ASSUME NEW d \in DOMAIN g, NEW k \in 1..(m + 1), g[d].type = "DecisionTaskCompleted",
                 Cardinality(AnswersTo(g, d)) = k
          PROVE  AnsweredBy(s[k].view, s[k].ops, g, RunOf(g, d), << >>)
      <4>1. CASE k \in 1..m
        BY <2>3, <3>4, <3>9, <4>1
      <4>2. CASE k = m + 1
        <5>1. d = e
          BY <1>5, <2>2, <3>5, <3>9, <4>2
        <5>2. s[k].view = view /\ s[k].ops = ops
          BY <3>3, <3>4, <4>2
        <5> QED BY <1>3, <3>8, <5>1, <5>2
      <4>3. k \in 1..m \/ k = m + 1
        OBVIOUS
      <4> QED BY <4>1, <4>2, <4>3
    <3>10. script' = s /\ DOMAIN script' = 1..(m + 1) /\ history' = g
      BY <1>3, <3>1, <3>2, <3>4
    <3> QED BY <3>9, <3>10 DEF ScriptSays
  <2>5. CASE ~FinishDecisionTask
    <3>1. UNCHANGED script
      <4>1. CASE PollDecisionTask
        BY <4>1 DEF PollDecisionTask, userVars
      <4>2. CASE ~PollDecisionTask
        <5>1. /\ phase' \notin EnginePhases /\ (phase' = "record" <=> phase = "record")
              /\ UNCHANGED script
              /\ \/ UNCHANGED << ops, replayed, phase, view, state_machines, task >>
                 \/ /\ phase' = "idle" /\ ops' = << >> /\ replayed' = 0 /\ view' = << >>
                    /\ state_machines' = << >> /\ task' = "none"
          BY <1>9, <2>5, <4>2, ServiceKeepsTheRest DEF Takes
        <5> QED BY <5>1
      <4> QED BY <4>1, <4>2
    <3>2. script' = script /\ DOMAIN script' = 1..m /\ history' = g
      BY <1>3, <1>5, <3>1
    <3> QED BY <2>3, <3>2 DEF ScriptSays
  <2> QED BY <2>4, <2>5
<1> QED BY <1>8, <1>9

\* What a machine has to send is what some call wants.
LEMMA SentIsWanted ==
    ASSUME KeysInv, NEW v, NEW o, FoundBy(v), NEW c, CalledBy(v, o, c, state_machines),
           NEW id \in DOMAIN state_machines \ {COMPLETION_ID}, HasDecision(id, state_machines[id]),
           NEW d, d = GetDecision(id, state_machines[id])
    PROVE  /\ d.id = id /\ ~ClosesWorkflow(d)
           /\ \E i \in DOMAIN o : Wants(v, o, i, id, d.props)
<1>1. PICK m : m = state_machines[id]
  OBVIOUS
<1>2. id.type \in {"ACTIVITY", "TIMER"}
  BY DEF KeysInv
<1>3. m.state \in {"REQUESTED", "CANCELED_AFTER_REQUESTED", "CANCELED_AFTER_RECORDED"}
  BY <1>1 DEF HasDecision
<1>4. MachineBy(v, o, id, m)
  BY <1>1 DEF CalledBy
<1>5. id \in DOMAIN v[3] =>
          v[3][id].state \notin {"REQUESTED", "CANCELED_AFTER_REQUESTED", "CANCELED_AFTER_RECORDED"}
  BY DEF FoundBy
<1>6. CASE id \notin DOMAIN v[3] /\ m.state = "REQUESTED" /\ \E i \in DOMAIN o : Wants(v, o, i, id, m.props)
  <2>1. d = Decision(CreateDecision[id.type], id, m.props)
    BY <1>1, <1>6 DEF GetDecision
  <2>2. d.what = CreateDecision[id.type] /\ d.id = id /\ d.props = m.props
    BY <2>1 DEF Decision
  <2>3. d.what \in {"ScheduleActivityTask", "StartTimer"}
    BY <1>2, <2>2 DEF CreateDecision
  <2>4. ~ClosesWorkflow(d)
    BY <2>3, OutcomesAssumption DEF ClosesWorkflow
  <2> QED BY <1>6, <2>2, <2>4
<1>7. CASE m.state = "CANCELED_AFTER_RECORDED" /\ \E i \in DOMAIN o : GivesUp(v, o, i, id)
  <2>1. d = Decision(CancelDecision[id.type], id, CANCEL)
    BY <1>1, <1>7 DEF GetDecision
  <2>2. d.what = CancelDecision[id.type] /\ d.id = id /\ d.props = CANCEL
    BY <2>1 DEF Decision
  <2>3. d.what \in {"RequestCancelActivityTask", "CancelTimer"}
    BY <1>2, <2>2 DEF CancelDecision
  <2>4. ~ClosesWorkflow(d)
    BY <2>3, OutcomesAssumption DEF ClosesWorkflow
  <2>5. \E i \in DOMAIN o : Wants(v, o, i, id, d.props)
    BY <1>7, <2>2 DEF Wants
  <2> QED BY <2>2, <2>4, <2>5
<1> QED BY <1>3, <1>4, <1>5, <1>6, <1>7 DEF MachineBy

\* And every call that wants something has a machine that sends it.
LEMMA WantedIsSent ==
    ASSUME NEW v, NEW o, FoundBy(v), NEW c, CalledBy(v, o, c, state_machines),
           NEW i \in DOMAIN o, NEW id, NEW props, Wants(v, o, i, id, props)
    PROVE  /\ id \in DOMAIN state_machines \ {COMPLETION_ID} /\ HasDecision(id, state_machines[id])
           /\ GetDecision(id, state_machines[id]).props = props
<1>1. CASE Makes(o, i) /\ id.id = Number(v, o, i)
  <2>1. HasMade(v, o, i, state_machines)
    BY <1>1 DEF CalledBy
  <2>2. PICK id2 \in DOMAIN state_machines \ {COMPLETION_ID} :
            id2 \notin DOMAIN v[3] /\ Wants(v, o, i, id2, state_machines[id2].props)
    BY <2>1 DEF HasMade
  <2>3. id2 = id /\ state_machines[id2].props = props
    BY <2>2, OneWish
  <2>4. MachineBy(v, o, id, state_machines[id])
    BY <2>2, <2>3 DEF CalledBy
  <2>5. state_machines[id].state = "REQUESTED"
    BY <2>2, <2>3, <2>4 DEF MachineBy, GivesUp
  <2>6. GetDecision(id, state_machines[id]) = Decision(CreateDecision[id.type], id, props)
    BY <2>2, <2>3, <2>5 DEF GetDecision
  <2>7. GetDecision(id, state_machines[id]).props = props
    BY <2>6 DEF Decision
  <2> QED BY <2>2, <2>3, <2>5, <2>7 DEF HasDecision
<1>2. CASE ~Makes(o, i) /\ GivesUp(v, o, i, id)
  <2>1. id \in DOMAIN v[3] /\ v[3][id].state = "RECORDED" /\ o[i] = << "cancel", id >>
    BY <1>2 DEF GivesUp
  <2>2. id \in DOMAIN state_machines \ {COMPLETION_ID}
    BY <2>1 DEF CalledBy, FoundBy
  <2>3. MachineBy(v, o, id, state_machines[id])
    BY <2>2 DEF CalledBy
  <2>4. state_machines[id].state = "CANCELED_AFTER_RECORDED"
    BY <2>1, <2>3 DEF MachineBy
  <2>5. GetDecision(id, state_machines[id]) = Decision(CancelDecision[id.type], id, CANCEL)
    BY <2>2, <2>4 DEF GetDecision
  <2>6. GetDecision(id, state_machines[id]).props = CANCEL
    BY <2>5 DEF Decision
  <2>7. props = CANCEL
    BY <1>2 DEF Wants, Makes
  <2> QED BY <2>2, <2>4, <2>6, <2>7 DEF HasDecision
<1> QED BY <1>1, <1>2, WishesByKind

\* Only the call that wants something of an id concerns it.
LEMMA OneConcern ==
    ASSUME FoundBy(view), IsSeq(ops), NEW c, NEW machines, CalledBy(view, ops, c, machines),
           NEW b \in DOMAIN ops, NEW id, NEW props, Wants(view, ops, b, id, props)
    PROVE  /\ Concerns(b, id)
           /\ \A j \in DOMAIN ops : Concerns(j, id) => j = b
<1>1. \A i : Creates(i) <=> Makes(ops, i)
  BY DEF Creates, Makes
<1>2. \A i : CreatedBy(i) = Number(view, ops, i)
  BY <1>1 DEF CreatedBy, Number
<1>3. \A i \in DOMAIN ops : /\ Number(view, ops, i) \in Nat /\ Number(view, ops, i) >= view[1]
                            /\ \A k \in DOMAIN ops : i < k /\ Makes(ops, i) => Number(view, ops, i) < Number(view, ops, k)
  BY NumbersAscend DEF FoundBy
<1>4. \A i \in DOMAIN ops : i \in Nat
  BY LenProperties DEF IsSeq
<1>5. view[1] \in Nat /\ \A x \in DOMAIN view[3] : x.id \in Nat /\ x.id < view[1]
  BY DEF FoundBy
<1>6. \A i \in DOMAIN ops : \A x : ops[i] = << "cancel", x >> => x \in DOMAIN view[3]
  BY DEF CalledBy
<1>7. CASE Makes(ops, b) /\ id.id = Number(view, ops, b)
  <2>1. Concerns(b, id)
    BY <1>1, <1>2, <1>7 DEF Concerns
  <2>2. ASSUME NEW j \in DOMAIN ops, Concerns(j, id) PROVE j = b
    <3>1. id \notin DOMAIN view[3]
      BY <1>3, <1>5, <1>7
    <3>2. ops[j] # << "cancel", id >>
      BY <1>6, <3>1
    <3>3. Makes(ops, j) /\ Number(view, ops, j) = id.id
      BY <1>1, <1>2, <2>2, <3>2 DEF Concerns
    <3>4. PICK x, y \in Nat : x = Number(view, ops, j) /\ y = Number(view, ops, b)
      BY <1>3
    <3>5. ~(j < b) /\ ~(b < j)
      BY <1>3, <1>7, <3>3, <3>4
    <3> QED BY <1>4, <3>5
  <2> QED BY <2>1, <2>2
<1>8. CASE ~Makes(ops, b) /\ GivesUp(view, ops, b, id)
  <2>1. /\ ops[b] = << "cancel", id >> /\ id \in DOMAIN view[3]
        /\ \A j \in 1..(b - 1) : ops[j] # ops[b]
    BY <1>8 DEF GivesUp
  <2>2. Concerns(b, id)
    BY <2>1 DEF Concerns
  <2>3. ASSUME NEW j \in DOMAIN ops, Concerns(j, id) PROVE j = b
    <3>1. ~(Creates(j) /\ CreatedBy(j) = id.id)
      <4>1. id.id \in Nat /\ id.id < view[1]
        BY <1>5, <2>1
      <4>2. PICK x \in Nat : x = CreatedBy(j) /\ x >= view[1]
        BY <1>2, <1>3
      <4> QED BY <1>5, <4>1, <4>2
    <3>2. ops[j] = << "cancel", id >> /\ \A k \in 1..(j - 1) : ops[k] # ops[j]
      BY <2>3, <3>1 DEF Concerns
    <3>3. ops[j] = ops[b]
      BY <2>1, <3>2
    <3>4. j \in Nat /\ b \in Nat /\ j >= 1 /\ b >= 1
      BY LenProperties DEF IsSeq
    <3>5. ~(j < b)
      <4> SUFFICES ASSUME j < b PROVE FALSE
        OBVIOUS
      <4>1. j \in 1..(b - 1)
        BY <3>4
      <4> QED BY <2>1, <3>3, <4>1
    <3>6. ~(b < j)
      <4> SUFFICES ASSUME b < j PROVE FALSE
        OBVIOUS
      <4>1. b \in 1..(j - 1)
        BY <3>4
      <4> QED BY <3>2, <3>3, <4>1
    <3> QED BY <3>4, <3>5, <3>6
  <2> QED BY <2>2, <2>3
<1> QED BY <1>7, <1>8, WishesByKind

\* The answer that is collected says what the code wants.
LEMMA CollectedIsWanted ==
    ASSUME IInv, LastInv, HistoryInv, EngineStateInv, ReplayedInv, CallsInv, ScriptInv, CollectDecisions,
           DecisionsInCallOrder'
    PROVE  AnswerSays'
<1>1. /\ phase = "next" /\ phase' = "respond" /\ Exhausted(history, pos)
      /\ UNCHANGED << view, ops, history >> /\ decisions' = collect_pending_decisions
  BY DEF CollectDecisions, userVars
<1>2. FoundBy(view) /\ CalledBy(view, ops, id_counter, state_machines)
  <2>2. pos \in Nat /\ IsSeq(history) /\ Len(history) \in Nat
    BY LenProperties DEF IInv, ServiceInv, IsSeq
  <2>3. Len(history) # 0 /\ history[Len(history)].type = "DecisionTaskStarted"
    BY <1>1 DEF HistoryInv, PhaseInv
  <2>4. pos > Len(history)
    BY <1>1, <2>2, <2>3, ExhaustedAtTheEnd
  <2>5. ~batch.replay
    BY <1>1, <2>2, <2>4 DEF ReplayedInv, EnginePhases
  <2>6. task # "FatalDecisionError"
    BY <1>1, NothingIsPending
  <2> QED BY <1>1, <2>4, <2>5, <2>6 DEF CallsInv, InCalls
<1>3. PICK c : c = collect_pending_decisions
  OBVIOUS
<1>4. PICK m : m = Len(order)
  OBVIOUS
<1>5. PICK w : CollectedFrom(c, m, w)
  BY <1>3, <1>4, CollectedInOrder DEF IInv, ManagerInv
<1>6. /\ m \in Nat /\ DOMAIN order = 1..m /\ \A i \in 1..m : order[i] \in DOMAIN state_machines
      /\ \A id \in DOMAIN state_machines : \E i \in 1..m : order[i] = id
  BY <1>4, LenProperties DEF IInv, ManagerInv, MachinesInv, OrderIsKeys
<1>7. /\ IsSeq(c) /\ w \in [DOMAIN c -> 1..m] /\ \A k \in DOMAIN c : Sends(w[k]) /\ c[k] = SentOf(w[k])
      /\ \A a \in 1..m : Sends(a) => \E k \in DOMAIN c : w[k] = a
  BY <1>5 DEF CollectedFrom
<1>8. PICK n \in Nat : n = Len(history)
  BY LenProperties DEF IInv, ServiceInv, IsSeq
<1>9. KeysInv /\ IsSeq(ops)
  BY DEF LastInv, ScriptInv
<1>10. ASSUME NEW k \in DOMAIN c, ~ClosesWorkflow(c[k])
       PROVE  \E i \in DOMAIN ops : Wants(view, ops, i, c[k].id, c[k].props)
  <2>1. PICK id \in DOMAIN state_machines :
            HasDecision(id, state_machines[id]) /\ c[k] = GetDecision(id, state_machines[id])
    BY <1>6, <1>7, <1>10 DEF Sends, SentOf
  <2>2. id # COMPLETION_ID
    <3> SUFFICES ASSUME id = COMPLETION_ID PROVE FALSE
      OBVIOUS
    <3>1. c[k].what = state_machines[id].request
      BY <2>1 DEF GetDecision, Decision
    <3>2. state_machines[id].request \in Outcomes
      BY <1>1, <2>1 DEF EngineStateInv, CompletionRequest, EnginePhases
    <3> QED BY <1>10, <3>1, <3>2 DEF ClosesWorkflow
  <2>3. c[k].id = id /\ \E i \in DOMAIN ops : Wants(view, ops, i, id, c[k].props)
    BY <1>2, <1>9, <2>1, <2>2, SentIsWanted
  <2> QED BY <2>3
<1>11. ASSUME NEW j \in DOMAIN ops, NEW id, NEW props, Wants(view, ops, j, id, props)
       PROVE  \E k \in DOMAIN c : ~ClosesWorkflow(c[k]) /\ c[k].id = id /\ c[k].props = props
  <2>1. /\ id \in DOMAIN state_machines \ {COMPLETION_ID} /\ HasDecision(id, state_machines[id])
        /\ GetDecision(id, state_machines[id]).props = props
    BY <1>2, <1>11, WantedIsSent
  <2>2. PICK a \in 1..m : order[a] = id
    BY <1>6, <2>1
  <2>3. PICK k \in DOMAIN c : w[k] = a
    BY <1>7, <2>1, <2>2 DEF Sends
  <2>4. c[k] = GetDecision(id, state_machines[id])
    BY <1>7, <2>2, <2>3 DEF SentOf
  <2>5. c[k].id = id /\ ~ClosesWorkflow(c[k])
    BY <1>2, <1>9, <2>1, <2>4, SentIsWanted
  <2> QED BY <2>1, <2>4, <2>5
<1>12. ASSUME NEW k \in DOMAIN c, NEW l \in DOMAIN c, k < l, ~ClosesWorkflow(c[l]),
              NEW a \in DOMAIN ops, NEW b \in DOMAIN ops,
              Wants(view, ops, a, c[k].id, c[k].props), Wants(view, ops, b, c[l].id, c[l].props)
       PROVE  a < b
  <2>1. PICK j \in DOMAIN ops : /\ Concerns(j, c[l].id)
                                /\ \A i \in j..Len(ops) : ~Concerns(i, c[k].id)
    <3>1. \A i, id : Concerns(i, id)' <=> Concerns(i, id)
      BY <1>1, SameCalls
    <3>2. /\ DecisionsInCallOrder' /\ phase' = "respond" /\ decisions' = c /\ ops' = ops
      BY <1>1, <1>3
    <3>3. \E j \in DOMAIN ops : /\ Concerns(j, c[l].id)'
                                /\ \A i \in j..Len(ops) : ~Concerns(i, c[k].id)'
      BY <1>12, <3>2 DEF DecisionsInCallOrder
    <3> QED BY <3>1, <3>3
  <2>2. j = b
    BY <1>2, <1>9, <1>12, <2>1, OneConcern
  <2>3. Concerns(a, c[k].id)
    BY <1>2, <1>9, <1>12, OneConcern
  <2>4. a \in 1..Len(ops) /\ b \in 1..Len(ops) /\ Len(ops) \in Nat
    BY <1>9, LenProperties DEF IsSeq
  <2>5. a \notin b..Len(ops)
    BY <2>1, <2>2, <2>3
  <2> QED BY <2>4, <2>5
<1>13. \A k \in DOMAIN c : k \in Nat
  BY <1>7, LenProperties DEF IsSeq
<1>14. \A q \in Nat : \A id, props : Word(history, {}, c, q, id, props) <=>
           \E k \in DOMAIN c : q = n + k /\ ~ClosesWorkflow(c[k]) /\ c[k].id = id /\ c[k].props = props
  BY <1>8 DEF Word
<1>15. ASSUME NEW q \in Nat, NEW id, NEW props, Word(history, {}, c, q, id, props)
       PROVE  \E j \in DOMAIN ops : Wants(view, ops, j, id, props)
  <2>1. PICK k \in DOMAIN c : q = n + k /\ ~ClosesWorkflow(c[k]) /\ c[k].id = id /\ c[k].props = props
    BY <1>14, <1>15
  <2> QED BY <1>10, <2>1
<1>16. ASSUME NEW j \in DOMAIN ops, NEW id, NEW props, Wants(view, ops, j, id, props)
       PROVE  \E q \in Nat : Word(history, {}, c, q, id, props)
  <2>1. PICK k \in DOMAIN c : ~ClosesWorkflow(c[k]) /\ c[k].id = id /\ c[k].props = props
    BY <1>11, <1>16
  <2>2. PICK q \in Nat : q = n + k
    BY <1>13
  <2> QED BY <1>14, <2>1, <2>2
<1>17. ASSUME NEW p \in Nat, NEW q \in Nat, NEW x, NEW y, NEW s, NEW t, NEW a \in DOMAIN ops, NEW b \in DOMAIN ops,
              p < q, Word(history, {}, c, p, x, s), Word(history, {}, c, q, y, t),
              Wants(view, ops, a, x, s), Wants(view, ops, b, y, t)
       PROVE  a < b
  <2>1. PICK k \in DOMAIN c : p = n + k /\ ~ClosesWorkflow(c[k]) /\ c[k].id = x /\ c[k].props = s
    BY <1>14, <1>17
  <2>2. PICK l \in DOMAIN c : q = n + l /\ ~ClosesWorkflow(c[l]) /\ c[l].id = y /\ c[l].props = t
    BY <1>14, <1>17
  <2>3. k < l
    BY <1>13, <1>17, <2>1, <2>2
  <2> QED BY <1>12, <1>17, <2>1, <2>2, <2>3
<1>18. AnsweredBy(view, ops, history, {}, c)
  BY <1>15, <1>16, <1>17 DEF AnsweredBy
<1> QED BY <1>1, <1>3, <1>18 DEF AnswerSays

\* The worker writes no answer of its own besides.
LEMMA WorkerKeepsAnswerSays ==
    ASSUME IInv, LastInv, HistoryInv, EngineStateInv, ReplayedInv, CallsInv, ScriptInv, AnswerSays,
           DecisionsInCallOrder', EngineNext \/ WorkflowNext
    PROVE  AnswerSays'
<1>1. CASE CollectDecisions
  BY <1>1, CollectedIsWanted
<1>2. CASE ~CollectDecisions
  <2>1. phase' \notin {"respond", "record"}
    BY <1>2 DEF EngineNext, WorkflowNext, NextDecisionEvents, ApplyInputEvent, StartRun, MaybeCompleteWorkflow,
                EndExecution, ApplyOutputEvent, FinishBatch, Continue, ExecuteActivity, StartTimer, CancelFuture,
                AutomaticCancel, RejectionUnwinds, Return, continue_as_new, Ends, Calls, Yield, engineVars
  <2> QED BY <2>1 DEF AnswerSays
<1> QED BY <1>1, <1>2

LEMMA WorkerKeepsScriptSays ==
    ASSUME ScriptSays, EngineNext \/ WorkflowNext
    PROVE  ScriptSays'
<1>1. UNCHANGED << history, script >>
  BY DEF EngineNext, WorkflowNext, NextDecisionEvents, CollectDecisions, ApplyInputEvent, StartRun,
         MaybeCompleteWorkflow, EndExecution, ApplyOutputEvent, FinishBatch, ExecuteActivity, StartTimer,
         CancelFuture, AutomaticCancel, RejectionUnwinds, Return, continue_as_new, Ends, Calls, Yield, engineVars,
         userVars, serviceVars
<1> QED BY <1>1 DEF ScriptSays

-----------------------------------------------------------------------------
(* The replay makes the calls that were recorded                           *)

\* The events behind the mark of a batch record what these calls want, in the
\* order of the calls.
OutAnswers(v, o) ==
    /\ \A k \in DOMAIN batch.output : Asked(k) =>
           \E j \in DOMAIN o : Wants(v, o, j, OutEvent(k).id, OutEvent(k).props)
    /\ \A j \in DOMAIN o : \A id, props : Wants(v, o, j, id, props) =>
           \E k \in DOMAIN batch.output : Asked(k) /\ OutEvent(k).id = id /\ OutEvent(k).props = props
    /\ \A k, l \in DOMAIN batch.output : \A a, b \in DOMAIN o :
           /\ k < l /\ Asked(k) /\ Asked(l)
           /\ Wants(v, o, a, OutEvent(k).id, OutEvent(k).props)
           /\ Wants(v, o, b, OutEvent(l).id, OutEvent(l).props)
           => a < b

\* The code of a batch runs again.
Replays == phase \in {"run", "complete", "end"} /\ batch.replay /\ task # "FatalDecisionError"

\* It finds what the script holds of the batch, and makes those calls, at last all of them.
RepeatInv ==
    Replays =>
        /\ view = script[replayed + 1].view
        /\ Len(ops) <= Len(script[replayed + 1].ops)
        /\ \A j \in DOMAIN ops : ops[j] = script[replayed + 1].ops[j]
        /\ phase # "run" => Len(ops) = Len(script[replayed + 1].ops)

\* What they want so far the tracker has met.
MetInv ==
    Replays =>
        \A j \in DOMAIN ops, k \in DOMAIN batch.output :
            Asked(k) /\ Wants(view, ops, j, OutEvent(k).id, OutEvent(k).props) => Met(k)

\* Nothing of the task under way is turned down.
TakenInv == RepeatInv /\ MetInv /\ task # "FatalDecisionError" /\ NoSpuriousFailure

\* What is behind the mark of a replayed batch is what its calls want.
LEMMA ReplayIsAnswered ==
    ASSUME ~ImmediateCancel, Deterministic, IInv, HistoryInv, EngineStateInv, BoundaryInv, ScriptInv,
           ReplayedInv, ScriptSays, InBatch, batch.replay
    PROVE  OutAnswers(script[replayed + 1].view, script[replayed + 1].ops)
<1>1. PICK n \in Nat : n = Len(history) /\ DOMAIN history = 1..n
  BY LenProperties DEF IInv, ServiceInv, IsSeq
<1>2. PICK f \in Nat \ {0}, l \in Nat :
          /\ f = First /\ l = Len(batch.output) /\ pos = f + l /\ DOMAIN batch.output = 1..l
          /\ \A k \in 1..l : batch.output[k] = f + k - 1
  BY OutputPlaces DEF EngineStateInv
<1>3. PICK p \in Nat : p = pos /\ p = f + l /\ p <= n + 1
  <2>1. pos \in 1..(Len(history) + 1)
    BY DEF EngineStateInv, PlaceInv, PosInv, InBatch
  <2> QED BY <1>1, <1>2, <2>1
<1>4. PICK d : d = First - 1
  OBVIOUS
<1>5. /\ d \in DOMAIN history /\ history[d].type = "DecisionTaskCompleted"
      /\ Cardinality(AnswersTo(history, d)) = replayed + 1
  BY <1>4, ReplayIsOfItsAnswer
<1>6. PICK r : r = replayed + 1
  OBVIOUS
<1>7. r \in DOMAIN script
  BY <1>6, ReplaysTheScript
<1>8. PICK v, o, E : v = script[r].view /\ o = script[r].ops /\ E = RunOf(history, d)
  OBVIOUS
<1>9. AnsweredBy(v, o, history, E, << >>)
  BY <1>5, <1>6, <1>7, <1>8 DEF ScriptSays
<1>10. \A k \in 1..l : is_decision_event(history[f + k - 1])
  BY <1>2 DEF EngineStateInv, PlaceInv, BatchInv
<1>11. \A i \in f..(p - 1) : is_decision_event(history[i])
  <2> SUFFICES ASSUME NEW i \in f..(p - 1) PROVE is_decision_event(history[i])
    OBVIOUS
  <2>1. PICK k \in 1..l : k = i - f + 1
    BY <1>2, <1>3
  <2>2. f + k - 1 = i
    BY <1>2, <1>3, <2>1
  <2> QED BY <1>10, <2>2
<1>12. p \in 1..n => ~is_decision_event(history[p])
  BY <1>1, <1>3 DEF BoundaryInv, InBatch, Records
<1>13. d + 1 = f
  <2>1. d \in Int /\ d = f - 1
    BY <1>2, <1>4
  <2> QED BY <1>2, <2>1
<1>14. \A i : i \in E <=> i \in f..(p - 1)
  <2>1. E = {i \in f..n : \A j \in f..i : is_decision_event(history[j])}
    BY <1>1, <1>8, <1>13 DEF RunOf
  <2>2. ASSUME NEW i \in f..(p - 1) PROVE i \in E
    <3>1. i \in f..n /\ \A j \in f..i : j \in f..(p - 1)
      BY <1>1, <1>2, <1>3, <2>2
    <3> QED BY <1>11, <2>1, <3>1
  <2>3. ASSUME NEW i \in E PROVE i \in f..(p - 1)
    <3>1. i \in f..n /\ \A j \in f..i : is_decision_event(history[j])
      BY <2>1, <2>3
    <3>2. CASE i >= p
      <4>1. p \in f..i /\ p \in 1..n
        BY <1>1, <1>2, <1>3, <3>1, <3>2
      <4> QED BY <1>12, <3>1, <4>1
    <3> QED BY <1>1, <1>2, <1>3, <3>1, <3>2
  <2> QED BY <2>2, <2>3
<1>15. \A k \in 1..l : Asked(k) <=> Said(history[f + k - 1])
  <2> SUFFICES ASSUME NEW k \in 1..l PROVE Asked(k) <=> Said(history[f + k - 1])
    OBVIOUS
  <2>1. k \in DOMAIN batch.output /\ PlaceInv
    BY <1>2 DEF EngineStateInv
  <2>2. /\ Asked(k) <=> OutEvent(k).type # "RequestCancelActivityTaskFailed"
        /\ Asked(k) => OutEvent(k).type \in StartTypes \cup CancelTypes
    BY <2>1, WhatIsAsked
  <2>3. OutEvent(k) = history[f + k - 1]
    BY <1>2 DEF OutEvent
  <2>4. Said(OutEvent(k)) => OutEvent(k).type # "RequestCancelActivityTaskFailed"
    BY DEF Said, StartTypes, CancelTypes
  <2> QED BY <2>2, <2>3, <2>4 DEF Said
<1>16. DOMAIN << >> = {}
  BY EmptyIsSeq
<1>17. \A k \in 1..l : \A id, props :
           Word(history, E, << >>, f + k - 1, id, props)
           <=> Asked(k) /\ OutEvent(k).id = id /\ OutEvent(k).props = props
  <2> SUFFICES ASSUME NEW k \in 1..l, NEW id, NEW props
               PROVE  Word(history, E, << >>, f + k - 1, id, props)
                      <=> Asked(k) /\ OutEvent(k).id = id /\ OutEvent(k).props = props
    OBVIOUS
  <2>1. PICK i : i = f + k - 1
    OBVIOUS
  <2>2. i \in f..(p - 1)
    BY <1>2, <1>3, <2>1
  <2>3. i \in E
    BY <1>14, <2>2
  <2>4. OutEvent(k) = history[i]
    BY <1>2, <2>1 DEF OutEvent
  <2>5. Asked(k) <=> Said(history[i])
    BY <1>15, <2>1
  <2>6. Word(history, E, << >>, i, id, props) <=> Said(history[i]) /\ history[i].id = id /\ history[i].props = props
    BY <1>16, <2>3 DEF Word
  <2> QED BY <2>1, <2>4, <2>5, <2>6
<1>18. ASSUME NEW m \in Nat, NEW id, NEW props, Word(history, E, << >>, m, id, props)
       PROVE  \E k \in 1..l : m = f + k - 1
  <2>1. m \in E
    BY <1>16, <1>18 DEF Word
  <2>2. m \in f..(p - 1)
    BY <1>14, <2>1
  <2>3. PICK k \in 1..l : k = m - f + 1
    BY <1>2, <1>3, <2>2
  <2>4. m = f + k - 1
    BY <1>2, <2>2, <2>3
  <2> QED BY <2>4
<1>19. \A k \in 1..l : f + k - 1 \in Nat
  BY <1>2
<1>20. OutAnswers(v, o)
  <2>1. ASSUME NEW k \in 1..l, Asked(k)
        PROVE  \E j \in DOMAIN o : Wants(v, o, j, OutEvent(k).id, OutEvent(k).props)
    <3>1. Word(history, E, << >>, f + k - 1, OutEvent(k).id, OutEvent(k).props)
      BY <1>17, <2>1
    <3> QED BY <1>9, <1>19, <3>1 DEF AnsweredBy
  <2>2. ASSUME NEW j \in DOMAIN o, NEW id, NEW props, Wants(v, o, j, id, props)
        PROVE  \E k \in DOMAIN batch.output : Asked(k) /\ OutEvent(k).id = id /\ OutEvent(k).props = props
    <3>1. PICK m \in Nat : Word(history, E, << >>, m, id, props)
      BY <1>9, <2>2 DEF AnsweredBy
    <3>2. PICK k \in 1..l : m = f + k - 1
      BY <1>18, <3>1
    <3>3. k \in DOMAIN batch.output
      BY <1>2
    <3>4. Asked(k) /\ OutEvent(k).id = id /\ OutEvent(k).props = props
      BY <1>17, <3>1, <3>2
    <3> QED BY <3>3, <3>4
  <2>3. ASSUME NEW k \in 1..l, NEW m \in 1..l, NEW a \in DOMAIN o, NEW b \in DOMAIN o, k < m, Asked(k), Asked(m),
               Wants(v, o, a, OutEvent(k).id, OutEvent(k).props), Wants(v, o, b, OutEvent(m).id, OutEvent(m).props)
        PROVE  a < b
    <3>1. /\ Word(history, E, << >>, f + k - 1, OutEvent(k).id, OutEvent(k).props)
          /\ Word(history, E, << >>, f + m - 1, OutEvent(m).id, OutEvent(m).props)
      BY <1>17, <2>3
    <3>2. f + k - 1 < f + m - 1
      BY <1>2, <2>3
    <3> QED BY <1>9, <1>19, <2>3, <3>1, <3>2 DEF AnsweredBy
  <2>4. DOMAIN batch.output = 1..l
    BY <1>2
  <2>5. \A k \in DOMAIN batch.output : Asked(k) =>
            \E j \in DOMAIN o : Wants(v, o, j, OutEvent(k).id, OutEvent(k).props)
    BY <2>1, <2>4
  <2>6. \A j \in DOMAIN o : \A id, props : Wants(v, o, j, id, props) =>
            \E k \in DOMAIN batch.output : Asked(k) /\ OutEvent(k).id = id /\ OutEvent(k).props = props
    BY <2>2, Zenon
  <2>7. \A k, m \in DOMAIN batch.output : \A a, b \in DOMAIN o :
            /\ k < m /\ Asked(k) /\ Asked(m)
            /\ Wants(v, o, a, OutEvent(k).id, OutEvent(k).props)
            /\ Wants(v, o, b, OutEvent(m).id, OutEvent(m).props)
            => a < b
    BY <2>3, <2>4, Zenon
  <2> QED BY <2>5, <2>6, <2>7 DEF OutAnswers
<1> QED BY <1>6, <1>8, <1>20

\* The next call of the code is what the tracker expects next of its id, and, if
\* it is the last there, next of all.
LEMMA CallIsExpected ==
    ASSUME ~ImmediateCancel, IInv, HistoryInv, EngineStateInv, PropsInv, EntriesInv, MetInv, Replays,
           NEW so, IsSeq(so), OutAnswers(view, so), NEW op, NEW g, NEW n, OneLonger(view, ops, op, g, n),
           n + 1 \in DOMAIN so, \A i \in 1..(n + 1) : i \in DOMAIN so /\ so[i] = g[i],
           NEW id, NEW props, Wants(view, g, n + 1, id, props),
           \A k \in DOMAIN batch.output : OutEvent(k).id = id => ~Met(k)
    PROVE  Validates(id, props)
<1>1. /\ InBatch /\ PlaceInv /\ phase \in TrackedPhases
      /\ DOMAIN expectations = DOMAIN batch.output
      /\ \A k \in DOMAIN batch.output :
             /\ k \in Nat /\ expectations[k].id = OutEvent(k).id
             /\ expectations[k].upcoming \in {<< >>, upcomingFor(OutEvent(k))}
  <2>1. InBatch /\ PlaceInv /\ phase \in TrackedPhases
    BY DEF Replays, InBatch, EnginePhases, EngineStateInv, TrackedPhases
  <2>2. IsSeq(batch.output)
    BY <2>1 DEF PlaceInv, BatchInv
  <2> QED BY <2>1, <2>2, LenProperties DEF EntriesInv, IsSeq
<1>2. n \in Nat /\ DOMAIN ops = 1..n /\ \A i \in 1..n : g[i] = ops[i]
  BY DEF OneLonger
<1>3. n + 1 \in Nat /\ n + 1 \in 1..(n + 1)
  BY <1>2
<1>4. PICK m \in Nat : m = n + 1
  BY <1>3
<1>5. Wants(view, so, m, id, props)
  <2>1. \A i \in 1..m : so[i] = g[i]
    BY <1>4
  <2>2. Wants(view, so, m, id, props) <=> Wants(view, g, m, id, props)
    BY <1>3, <1>4, <2>1, WishesStay
  <2> QED BY <1>4, <2>2
<1>6. PICK k \in DOMAIN batch.output : Asked(k) /\ OutEvent(k).id = id /\ OutEvent(k).props = props
  BY <1>4, <1>5 DEF OutAnswers
<1>7. k \in Expected /\ expectations[k].id = id /\ expectations[k].upcoming = upcomingFor(OutEvent(k))
  BY <1>1, <1>6 DEF Met, Asked, Expected
<1>8. Match(expectations[k].upcoming[1], props)
  <2>1. /\ batch.output[k] \in DOMAIN history
        /\ Asked(k) => OutEvent(k).type \in StartTypes \cup CancelTypes
        /\ OutEvent(k).type \in StartTypes => upcomingFor(OutEvent(k)) = << OutEvent(k).props >>
        /\ OutEvent(k).type \in CancelTypes => upcomingFor(OutEvent(k)) = << CANCEL >>
    BY <1>1, WhatIsAsked
  <2>2. EventProps(OutEvent(k))
    BY <2>1 DEF PropsInv, OutEvent
  <2>3. OutEvent(k).type \in CancelTypes => OutEvent(k).props = CANCEL
    BY <2>2 DEF EventProps, AskTypes, CancelTypes
  <2>4. upcomingFor(OutEvent(k))[1] = props
    BY <1>6, <2>1, <2>3
  <2> QED BY <1>7, <2>4 DEF Match
<1>9. ASSUME NEW j \in Expected PROVE k <= j
  <2>1. j \in DOMAIN batch.output /\ Asked(j) /\ ~Met(j) /\ j \in Nat /\ k \in Nat
    BY <1>1, <1>6, <1>9 DEF Expected, Asked, Met
  <2>2. CASE j < k
    <3>1. PICK a \in DOMAIN so : Wants(view, so, a, OutEvent(j).id, OutEvent(j).props)
      BY <2>1 DEF OutAnswers
    <3>2. Wants(view, so, m, OutEvent(k).id, OutEvent(k).props) /\ m \in DOMAIN so
      BY <1>4, <1>5, <1>6
    <3>3. a < m
      BY <1>6, <2>1, <2>2, <3>1, <3>2 DEF OutAnswers
    <3>4. a \in 1..n
      <4>1. a \in Nat /\ a > 0
        BY <3>1, LenProperties DEF IsSeq
      <4> QED BY <1>2, <1>4, <3>3, <4>1
    <3>5. \A i \in 1..n : so[i] = ops[i]
      <4>1. \A i \in 1..n : i \in 1..(n + 1)
        BY <1>2
      <4> QED BY <1>2, <4>1
    <3>6. Wants(view, so, a, OutEvent(j).id, OutEvent(j).props)
          <=> Wants(view, ops, a, OutEvent(j).id, OutEvent(j).props)
      BY <1>2, <3>4, <3>5, WishesStay
    <3>7. Met(j)
      BY <1>2, <2>1, <3>1, <3>4, <3>6 DEF MetInv
    <3> QED BY <2>1, <3>7
  <2> QED BY <2>1, <2>2
<1> QED BY <1>7, <1>8, <1>9 DEF Validates, IsNextExpectation

\* What its calls want stays met, and what the next one wants is.
LEMMA CallsAreMet ==
    ASSUME IInv, EntriesInv, MetInv, Replays, UNCHANGED << history, batch, view >>,
           NEW op, NEW n, OneLonger(view, ops, op, ops', n),
           \/ /\ UNCHANGED expectations
              /\ \A id, props : ~Wants(view, ops', n + 1, id, props)
           \/ \E k \in DOMAIN batch.output : \E id :
                  /\ OutEvent(k).id = id /\ Asked(k)
                  /\ expectations' = [expectations EXCEPT ![k].upcoming = << >>]
                  /\ \E props : Wants(view, ops', n + 1, id, props)
    PROVE  MetInv'
<1>1. /\ InBatch /\ phase \in TrackedPhases /\ UNCHANGED << history, batch, view >>
      /\ DOMAIN expectations = DOMAIN batch.output
      /\ \A j, k \in DOMAIN batch.output :
             Asked(j) /\ Asked(k) /\ OutEvent(j).id = OutEvent(k).id => j = k
  BY DEF Replays, InBatch, EnginePhases, TrackedPhases, EntriesInv
<1>2. \A k : OutEvent(k)' = OutEvent(k) /\ (Asked(k)' <=> Asked(k))
  BY <1>1 DEF OutEvent, Asked
<1>3. PICK g : g = ops'
  OBVIOUS
<1>4. n \in Nat /\ DOMAIN ops = 1..n /\ DOMAIN g = 1..(n + 1) /\ \A i \in 1..n : g[i] = ops[i]
  BY <1>3 DEF OneLonger
<1>5. PICK m \in Nat : m = n + 1
  BY <1>4
<1>6. \A i \in DOMAIN g : i \in 1..n \/ i = m
  BY <1>4, <1>5
<1>7. ASSUME NEW k \in DOMAIN batch.output, Met(k) PROVE Met(k)'
  <2>1. expectations[k].upcoming = << >> /\ EntryOK(expectations[k])
    BY <1>1, <1>7 DEF Met, IInv, ManagerInv, TrackerInv
  <2>2. expectations'[k].upcoming = << >>
    <3>1. CASE UNCHANGED expectations
      BY <2>1, <3>1
    <3>2. ASSUME NEW l \in DOMAIN batch.output, expectations' = [expectations EXCEPT ![l].upcoming = << >>]
          PROVE  expectations'[k].upcoming = << >>
      BY <1>1, <2>1, <3>2 DEF EntryOK
    <3> QED BY <3>1, <3>2
  <2> QED BY <1>2, <1>7, <2>2 DEF Met
<1>8. ASSUME NEW i \in 1..n, NEW k \in DOMAIN batch.output, Asked(k),
             Wants(view, g, i, OutEvent(k).id, OutEvent(k).props)
      PROVE  Met(k)'
  <2>1. Wants(view, g, i, OutEvent(k).id, OutEvent(k).props)
        <=> Wants(view, ops, i, OutEvent(k).id, OutEvent(k).props)
    BY <1>4, WishesStay
  <2>2. Met(k)
    BY <1>4, <1>8, <2>1 DEF MetInv
  <2> QED BY <1>7, <2>2
<1>9. ASSUME NEW k \in DOMAIN batch.output, Asked(k), Wants(view, g, m, OutEvent(k).id, OutEvent(k).props)
      PROVE  Met(k)'
  <2>1. PICK l \in DOMAIN batch.output : \E id :
            /\ OutEvent(l).id = id /\ Asked(l)
            /\ expectations' = [expectations EXCEPT ![l].upcoming = << >>]
            /\ \E props : Wants(view, g, m, id, props)
    BY <1>3, <1>5, <1>9
  <2>2. OutEvent(k).id = OutEvent(l).id
    BY <1>9, <2>1, OneWish
  <2>3. k = l
    BY <1>1, <1>9, <2>1, <2>2
  <2>4. EntryOK(expectations[l]) /\ l \in DOMAIN expectations
    BY <1>1, <2>1 DEF IInv, ManagerInv, TrackerInv
  <2>5. expectations'[l].upcoming = << >>
    BY <2>1, <2>4 DEF EntryOK
  <2> QED BY <1>2, <1>9, <2>3, <2>5 DEF Met
<1>10. ASSUME NEW i \in DOMAIN g, NEW k \in DOMAIN batch.output, Asked(k),
              Wants(view, g, i, OutEvent(k).id, OutEvent(k).props)
       PROVE  Met(k)'
  BY <1>6, <1>8, <1>9, <1>10
<1>11. ASSUME NEW i \in DOMAIN ops', NEW k \in DOMAIN batch'.output, Asked(k)',
              Wants(view', ops', i, OutEvent(k)'.id, OutEvent(k)'.props)
       PROVE  Met(k)'
  BY <1>1, <1>2, <1>3, <1>10, <1>11
<1> QED BY <1>11 DEF MetInv

\* A call is one more than those that were made, and in replay the next of the script.
LEMMA NextCallRepeats ==
    ASSUME ~ImmediateCancel, Deterministic, IInv, HistoryInv, EngineStateInv, BoundaryInv, ScriptInv,
           ReplayedInv, ScriptSays, RepeatInv, NEW op, Calls(op)
    PROVE  /\ phase = "run" /\ phase' = "run" /\ task = "running" /\ IsSeq(ops)
           /\ ops' = Append(ops, op) /\ UNCHANGED << history, batch, view >>
           /\ RepeatInv'
           /\ \E n : /\ OneLonger(view, ops, op, ops', n) /\ n = Len(ops)
                     /\ batch.replay => \E so : /\ IsSeq(so) /\ OutAnswers(view, so) /\ n + 1 \in DOMAIN so
                                                /\ \A i \in 1..(n + 1) : i \in DOMAIN so /\ so[i] = ops'[i]
<1>1. /\ phase = "run" /\ phase' = "run" /\ task = "running" /\ IsSeq(ops)
      /\ ops' = Append(ops, op) /\ UNCHANGED << history, pos, batch, view, replayed, script >>
  BY DEF Calls, serviceVars, ScriptInv
<1>2. PICK n \in Nat : n = Len(ops)
  BY <1>1, LenProperties DEF IsSeq
<1>3. OneLonger(view, ops, op, ops', n)
  BY <1>1, <1>2, NextNumber
<1>4. PICK g : g = ops'
  OBVIOUS
<1>5. DOMAIN ops = 1..n /\ IsSeq(g) /\ DOMAIN g = 1..(n + 1) /\ g[n + 1] = op /\ \A i \in 1..n : g[i] = ops[i]
  BY <1>3, <1>4 DEF OneLonger
<1>6. Len(g) = n + 1
  <2>1. Len(g) \in Nat /\ DOMAIN g = 1..Len(g)
    BY <1>5, LenProperties DEF IsSeq
  <2> QED BY <1>2, <1>5, <2>1
<1>7. PICK r, so, sv : r = replayed + 1 /\ so = script[r].ops /\ sv = script[r].view
  OBVIOUS
<1>8. ASSUME batch.replay
      PROVE  /\ IsSeq(so) /\ OutAnswers(view, so) /\ n + 1 \in DOMAIN so /\ view = sv
             /\ Len(so) >= n + 1
             /\ \A i \in 1..(n + 1) : i \in DOMAIN so /\ so[i] = g[i]
  <2>1. Replays /\ InBatch
    BY <1>1, <1>8 DEF Replays, InBatch, EnginePhases
  <2>2. /\ view = sv /\ \A j \in DOMAIN ops : ops[j] = so[j]
        /\ n < Len(so) /\ so[n + 1] = op
    BY <1>2, <1>7, <1>8, <2>1 DEF RepeatInv, Calls
  <2>3. IsSeq(so)
    BY <1>7, <1>8, <2>1, ReplaysTheScript
  <2>4. OutAnswers(sv, so)
    BY <1>7, <1>8, <2>1, ReplayIsAnswered
  <2>5. Len(so) \in Nat /\ DOMAIN so = 1..Len(so)
    BY <2>3, LenProperties DEF IsSeq
  <2>6. \A i \in 1..(n + 1) : i \in DOMAIN so /\ so[i] = g[i]
    <3> SUFFICES ASSUME NEW i \in 1..(n + 1) PROVE i \in DOMAIN so /\ so[i] = g[i]
      OBVIOUS
    <3>1. i \in DOMAIN so /\ (i \in 1..n \/ i = n + 1)
      BY <1>2, <2>2, <2>5
    <3> QED BY <1>5, <2>2, <3>1
  <2>7. n + 1 \in DOMAIN so /\ Len(so) >= n + 1
    BY <1>2, <2>2, <2>5
  <2> QED BY <2>2, <2>3, <2>4, <2>6, <2>7
<1>9. RepeatInv'
  <2> SUFFICES ASSUME batch.replay
               PROVE  /\ view = sv /\ Len(g) <= Len(so)
                      /\ \A j \in DOMAIN g : g[j] = so[j]
    BY <1>1, <1>4, <1>7 DEF RepeatInv, Replays
  <2>1. /\ view = sv /\ Len(so) >= n + 1 /\ IsSeq(so)
        /\ \A i \in 1..(n + 1) : so[i] = g[i]
    BY <1>8
  <2>2. Len(so) \in Nat
    BY <2>1, LenProperties DEF IsSeq
  <2> QED BY <1>2, <1>5, <1>6, <2>1, <2>2
<1>10. batch.replay => \E s : /\ IsSeq(s) /\ OutAnswers(view, s) /\ n + 1 \in DOMAIN s
                              /\ \A i \in 1..(n + 1) : i \in DOMAIN s /\ s[i] = ops'[i]
  BY <1>4, <1>8
<1> QED BY <1>1, <1>2, <1>3, <1>9, <1>10

\* What a call wants that the tracker has not met is accepted, and met then.
LEMMA NextIsAccepted ==
    ASSUME ~ImmediateCancel, Deterministic, IInv, HistoryInv, EngineStateInv, PropsInv, EntriesInv, BoundaryInv,
           ScriptInv, ReplayedInv, ScriptSays, RepeatInv, MetInv, NEW op, Calls(op),
           NEW n, n = Len(ops), NEW id, NEW props, Wants(view, ops', n + 1, id, props),
           batch.replay => \A k \in DOMAIN batch.output : OutEvent(k).id = id => ~Met(k)
    PROVE  Accepted(id, props) /\ (expectations' = Consumed(id) => MetInv')
<1>1. /\ phase = "run" /\ phase' = "run" /\ task = "running" /\ IsSeq(ops)
      /\ ops' = Append(ops, op) /\ UNCHANGED << history, batch, view >>
      /\ \E m : /\ OneLonger(view, ops, op, ops', m) /\ m = Len(ops)
                /\ batch.replay => \E so : /\ IsSeq(so) /\ OutAnswers(view, so) /\ m + 1 \in DOMAIN so
                                           /\ \A i \in 1..(m + 1) : i \in DOMAIN so /\ so[i] = ops'[i]
  BY NextCallRepeats
<1>2. replaying = batch.replay
  BY <1>1 DEF InBatch, EnginePhases, EngineStateInv, PlaceInv, BatchInv
<1>3. CASE ~batch.replay
  <2>1. MetInv'
    BY <1>1, <1>3 DEF MetInv, Replays
  <2> QED BY <1>2, <1>3, <2>1 DEF Accepted
<1>4. CASE batch.replay
  <2>1. Replays /\ InBatch /\ phase \in TrackedPhases /\ replaying /\ PlaceInv
    BY <1>1, <1>2, <1>4 DEF Replays, InBatch, EnginePhases, TrackedPhases, EngineStateInv
  <2>2. OneLonger(view, ops, op, ops', n)
    BY <1>1
  <2>3. PICK so : /\ IsSeq(so) /\ OutAnswers(view, so) /\ n + 1 \in DOMAIN so
                  /\ \A i \in 1..(n + 1) : i \in DOMAIN so /\ so[i] = ops'[i]
    BY <1>1, <1>4
  <2>4. PICK g : g = ops'
    OBVIOUS
  <2>5. Validates(id, props)
    <3>1. /\ OneLonger(view, ops, op, g, n) /\ Wants(view, g, n + 1, id, props)
          /\ \A i \in 1..(n + 1) : i \in DOMAIN so /\ so[i] = g[i]
      BY <2>2, <2>3, <2>4
    <3> QED BY <1>4, <2>1, <2>3, <3>1, CallIsExpected
  <2>6. PICK k \in DOMAIN batch.output :
            /\ Asked(k) /\ OutEvent(k).id = id
            /\ Consumed(id) = [expectations EXCEPT ![k].upcoming = << >>]
    BY <2>1, <2>5, OneEntryLess DEF Consumed
  <2>7. ASSUME expectations' = Consumed(id) PROVE MetInv'
    <3>1. \E j \in DOMAIN batch.output : \E x :
              /\ OutEvent(j).id = x /\ Asked(j)
              /\ expectations' = [expectations EXCEPT ![j].upcoming = << >>]
              /\ \E p : Wants(view, ops', n + 1, x, p)
      BY <2>6, <2>7
    <3> QED BY <1>1, <2>1, <2>2, <3>1, CallsAreMet
  <2> QED BY <2>5, <2>7 DEF Accepted
<1> QED BY <1>3, <1>4

\* A request of a workflow that was not rewritten is taken.
LEMMA RequestIsTaken ==
    ASSUME ~ImmediateCancel, Deterministic, IInv, HistoryInv, EngineStateInv, PropsInv, EntriesInv, TrackInv,
           BoundaryInv, ScriptInv, ReplayedInv, ScriptSays, CallsInv, RepeatInv, MetInv,
           NEW op, Calls(op), NEW type \in {"ACTIVITY", "TIMER"}, NEW props, Asks(op, type, props),
           NEW request, Request(type, props, request)
    PROVE  raised' = "none" /\ MetInv'
<1>1. PICK id, n : id = DecisionId(type, id_counter) /\ n = Len(ops)
  OBVIOUS
<1>2. /\ phase = "run" /\ task = "running" /\ IsSeq(ops) /\ ops' = Append(ops, op)
      /\ FoundBy(view) /\ CalledBy(view, ops, id_counter, state_machines)
  BY DEF Calls, CallsInv, InCalls, ScriptInv
<1>3. id \notin DOMAIN state_machines
  <2>1. id # COMPLETION_ID /\ id.id = id_counter
    BY <1>1 DEF DecisionId, COMPLETION_ID
  <2>2. /\ \A x \in DOMAIN state_machines \ {COMPLETION_ID} : x.id < id_counter
        /\ id_counter \in Nat
    BY DEF IInv, ManagerInv, MachinesInv, FreshIds
  <2> QED BY <2>1, <2>2
<1>4. Wants(view, ops', n + 1, id, props)
  <2>1. PICK g : g = ops'
    OBVIOUS
  <2>2. Wants(view, g, n + 1, DecisionId(type, id_counter), props)
    BY <1>1, <1>2, <2>1, RequestWants
  <2> QED BY <1>1, <2>1, <2>2
<1>5. ASSUME batch.replay, NEW k \in DOMAIN batch.output, OutEvent(k).id = id PROVE ~Met(k)
  <2>1. AllTold
    BY <1>2, <1>5 DEF TrackInv, Tracked, TrackedPhases
  <2> QED BY <1>3, <1>5, <2>1 DEF AllTold, Tells
<1>6. Accepted(id, props) /\ (expectations' = Consumed(id) => MetInv')
  BY <1>1, <1>4, <1>5, NextIsAccepted
<1>7. expectations' = Consumed(id) /\ Add(id, Machine(props, request))
  BY <1>1, <1>6 DEF Request
<1> QED BY <1>3, <1>6, <1>7 DEF Add

\* A cancellation is.
LEMMA CancelIsTaken ==
    ASSUME ~ImmediateCancel, Deterministic, IInv, HistoryInv, EngineStateInv, Unwinds, PropsInv, EntriesInv,
           TrackInv, BoundaryInv, ScriptInv, ReplayedInv, ScriptSays, CallsInv, RepeatInv, MetInv,
           NEW op, Calls(op), NEW id, Cancels(op, id), request_cancel(id), StateOf(id) # "REQUESTED"
    PROVE  raised' = "none" /\ MetInv'
<1>1. PICK n : n = Len(ops)
  OBVIOUS
<1>2. /\ phase = "run" /\ task = "running" /\ IsSeq(ops) /\ ops' = Append(ops, op) /\ view' = view
      /\ FoundBy(view) /\ CalledBy(view, ops, id_counter, state_machines) /\ ~failed
      /\ id \in DOMAIN state_machines
  BY DEF Calls, CallsInv, InCalls, ScriptInv, Unwinds, request_cancel
<1>3. Cancellable(state_machines[id]) <=> Wants(view, ops', n + 1, id, CANCEL)
  BY <1>1, <1>2, CancelIsCalled
<1>4. CASE Cancellable(state_machines[id])
  <2>1. ASSUME batch.replay, NEW k \in DOMAIN batch.output, OutEvent(k).id = id PROVE ~Met(k)
    <3>1. AllTold
      BY <1>2, <2>1 DEF TrackInv, Tracked, TrackedPhases
    <3>2. StateOf(id) = "RECORDED"
      BY <1>4 DEF Cancellable, StateOf
    <3>3. Silent(id)
      BY <3>2 DEF Silent
    <3> QED BY <2>1, <3>1, <3>3 DEF AllTold, Tells
  <2>2. Accepted(id, CANCEL) /\ (expectations' = Consumed(id) => MetInv')
    BY <1>1, <1>3, <1>4, <2>1, NextIsAccepted
  <2>3. expectations' = Consumed(id) /\ raised' = "none"
    BY <1>2, <1>4, <2>2 DEF request_cancel
  <2> QED BY <2>2, <2>3
<1>5. CASE ~Cancellable(state_machines[id])
  <2>1. UNCHANGED expectations /\ raised' = "none"
    BY <1>5 DEF request_cancel
  <2>2. /\ phase' = "run" /\ UNCHANGED << history, batch, view >> /\ OneLonger(view, ops, op, ops', n)
    BY <1>1, NextCallRepeats
  <2>3. PICK g : g = ops'
    OBVIOUS
  <2>4. ASSUME NEW x, NEW p, Wants(view, g, n + 1, x, p) PROVE FALSE
    <3>1. g[n + 1] = op
      BY <2>2, <2>3 DEF OneLonger
    <3>2. g[n + 1] = << "cancel", id >>
      BY <3>1 DEF Cancels
    <3>3. x = id /\ p = CANCEL
      BY <2>4, <3>2 DEF Wants, GivesUp
    <3> QED BY <1>3, <1>5, <2>3, <2>4, <3>3
  <2>5. CASE batch.replay
    <3>1. Replays
      BY <1>2, <2>5 DEF Replays
    <3>2. \A x, p : ~Wants(view, ops', n + 1, x, p)
      BY <2>3, <2>4
    <3> QED BY <2>1, <2>2, <3>1, <3>2, CallsAreMet
  <2>6. CASE ~batch.replay
    BY <2>1, <2>2, <2>6 DEF MetInv, Replays
  <2> QED BY <2>1, <2>5, <2>6
<1> QED BY <1>4, <1>5

\* A return wants nothing.
LEMMA ReturnIsTaken ==
    ASSUME ~ImmediateCancel, Deterministic, IInv, HistoryInv, EngineStateInv, EntriesInv,
           BoundaryInv, ScriptInv, ReplayedInv, ScriptSays, CallsInv, RepeatInv, MetInv,
           NEW op, Calls(op), IsReturn(op), UNCHANGED managerVars
    PROVE  MetInv'
<1>1. PICK n : n = Len(ops)
  OBVIOUS
<1>2. /\ phase = "run" /\ task = "running" /\ IsSeq(ops) /\ ops' = Append(ops, op) /\ view' = view
      /\ CalledBy(view, ops, id_counter, state_machines) /\ UNCHANGED expectations
  BY DEF Calls, CallsInv, InCalls, ScriptInv, managerVars
<1>3. /\ phase' = "run" /\ UNCHANGED << history, batch, view >> /\ OneLonger(view, ops, op, ops', n)
  BY <1>1, NextCallRepeats
<1>4. \A x, p : ~Wants(view, ops', n + 1, x, p)
  BY <1>1, <1>2, ReturnIsCalled
<1>5. CASE batch.replay
  <2>1. Replays
    BY <1>2, <1>5 DEF Replays
  <2> QED BY <1>2, <1>3, <1>4, <2>1, CallsAreMet
<1>6. CASE ~batch.replay
  BY <1>3, <1>6 DEF MetInv, Replays
<1> QED BY <1>5, <1>6

\* A call of the workflow is never turned down.
LEMMA WorkflowIsTaken ==
    ASSUME ~ImmediateCancel, Deterministic, IInv, HistoryInv, EngineStateInv, Unwinds, PropsInv, EntriesInv,
           TrackInv, BoundaryInv, ScriptInv, ReplayedInv, ScriptSays, CallsInv, RepeatInv, MetInv,
           task # "FatalDecisionError", WorkflowNext
    PROVE  /\ RepeatInv' /\ MetInv' /\ task' # "FatalDecisionError"
           /\ raised' = "none" \/ UNCHANGED raised
           /\ UNCHANGED outlived
<1>1. ASSUME NEW op, Calls(op) PROVE RepeatInv' /\ task = "running"
  BY <1>1, NextCallRepeats
<1>2. ASSUME NEW type \in {"ACTIVITY", "TIMER"}, NEW props, NEW request, NEW op, Calls(op),
             Asks(op, type, props), Request(type, props, request), Raises
      PROVE  RepeatInv' /\ MetInv' /\ task' # "FatalDecisionError" /\ raised' = "none" /\ UNCHANGED outlived
  <2>1. raised' = "none" /\ MetInv'
    BY <1>2, RequestIsTaken
  <2>2. task' = task /\ UNCHANGED outlived
    BY <1>2, <2>1 DEF Raises
  <2> QED BY <1>1, <1>2, <2>1, <2>2
<1>3. ASSUME NEW t \in ActivityTypes, ExecuteActivity(t)
      PROVE  RepeatInv' /\ MetInv' /\ task' # "FatalDecisionError" /\ raised' = "none" /\ UNCHANGED outlived
  <2>1. PICK op : op = << "execute_activity", t >>
    OBVIOUS
  <2>2. Asks(op, "ACTIVITY", ActivityProps(t))
    BY <2>1 DEF Asks
  <2> QED BY <1>2, <1>3, <2>1, <2>2 DEF ExecuteActivity, schedule_activity
<1>4. ASSUME StartTimer
      PROVE  RepeatInv' /\ MetInv' /\ task' # "FatalDecisionError" /\ raised' = "none" /\ UNCHANGED outlived
  <2>1. PICK op : op = << "start_timer" >>
    OBVIOUS
  <2>2. Asks(op, "TIMER", TimerProps)
    BY <2>1 DEF Asks
  <2> QED BY <1>2, <1>4, <2>1, <2>2 DEF StartTimer, start_timer
<1>5. ASSUME NEW id, CancelFuture(id)
      PROVE  RepeatInv' /\ MetInv' /\ task' # "FatalDecisionError" /\ raised' = "none" /\ UNCHANGED outlived
  <2>1. PICK op : op = << "cancel", id >>
    OBVIOUS
  <2>2. Cancels(op, id) /\ Calls(op) /\ request_cancel(id) /\ Raises /\ StateOf(id) # "REQUESTED"
    BY <1>5, <2>1 DEF CancelFuture, Cancels, StateOf
  <2>3. raised' = "none" /\ MetInv'
    BY <2>2, CancelIsTaken
  <2>4. task' = task /\ UNCHANGED outlived
    BY <2>2, <2>3 DEF Raises
  <2> QED BY <1>1, <2>2, <2>3, <2>4
<1>6. ASSUME NEW id, AutomaticCancel(id) PROVE FALSE
  BY <1>6 DEF AutomaticCancel
<1>7. ASSUME NEW outcome \in Outcomes, Ends(outcome)
      PROVE  RepeatInv' /\ MetInv' /\ task' # "FatalDecisionError" /\ UNCHANGED << raised, outlived >>
  <2>1. PICK op : op = << "return", outcome >>
    OBVIOUS
  <2>2. IsReturn(op) /\ Calls(op) /\ UNCHANGED managerVars /\ task' = outcome /\ UNCHANGED outlived
    BY <1>7, <2>1 DEF Ends, IsReturn
  <2>3. MetInv'
    BY <2>2, ReturnIsTaken
  <2>4. outcome # "FatalDecisionError"
    BY OutcomesAssumption
  <2> QED BY <1>1, <2>2, <2>3, <2>4 DEF managerVars
<1>8. ASSUME Yield
      PROVE  RepeatInv' /\ MetInv' /\ task' # "FatalDecisionError" /\ UNCHANGED << raised, outlived >>
  <2>1. /\ phase = "run" /\ phase' = "complete"
        /\ batch.replay => Len(ops) = Len(script[replayed + 1].ops)
        /\ UNCHANGED << history, batch, task, view, ops, replayed, script, expectations, raised, outlived >>
    BY <1>8 DEF Yield, managerVars, serviceVars, userVars
  <2>2. Replays' <=> Replays
    BY <2>1 DEF Replays
  <2>3. RepeatInv'
    <3>1. PICK s : s = script[replayed + 1]
      OBVIOUS
    <3>2. s = script'[replayed' + 1]
      BY <2>1, <3>1
    <3>3. Replays => /\ view = s.view /\ Len(ops) <= Len(s.ops) /\ \A j \in DOMAIN ops : ops[j] = s.ops[j]
                     /\ Len(ops) = Len(s.ops)
      BY <2>1, <3>1 DEF RepeatInv, Replays
    <3> QED BY <2>1, <2>2, <3>2, <3>3 DEF RepeatInv
  <2>4. MetInv'
    BY <2>1, <2>2 DEF MetInv, Met, Asked, OutEvent
  <2> QED BY <2>1, <2>3, <2>4
<1>9. ASSUME RejectionUnwinds PROVE FALSE
  BY <1>9 DEF RejectionUnwinds, Unwinds
<1> QED BY <1>3, <1>4, <1>5, <1>6, <1>7, <1>8, <1>9 DEF WorkflowNext, Return, continue_as_new

\* What a replayed batch records was met when its code is through.
LEMMA AllIsMet ==
    ASSUME ~ImmediateCancel, Deterministic, IInv, HistoryInv, EngineStateInv, EntriesInv, BoundaryInv, ScriptInv,
           ReplayedInv, ScriptSays, RepeatInv, MetInv, phase = "end", task # "FatalDecisionError", EndExecution
    PROVE  raised' = "none"
<1>1. InBatch /\ phase \in TrackedPhases /\ replaying = batch.replay
  BY DEF InBatch, EnginePhases, TrackedPhases, EngineStateInv, PlaceInv, BatchInv
<1>2. ASSUME batch.replay, NEW k \in Expected PROVE FALSE
  <2>1. PICK r, so : r = replayed + 1 /\ so = script[r].ops
    OBVIOUS
  <2>2. Replays
    BY <1>2 DEF Replays
  <2>3. OutAnswers(view, so) /\ Len(ops) = Len(so) /\ IsSeq(so)
    BY <1>1, <1>2, <2>1, <2>2, ReplayIsAnswered, ReplaysTheScript DEF RepeatInv
  <2>4. DOMAIN so = 1..Len(so) /\ DOMAIN ops = 1..Len(ops) /\ Len(so) \in Nat
    BY <2>3, LenProperties DEF IsSeq, ScriptInv
  <2>5. k \in DOMAIN batch.output /\ Asked(k) /\ ~Met(k)
    BY <1>1, <1>2 DEF Expected, EntriesInv, Asked, Met
  <2>6. PICK j \in DOMAIN so : Wants(view, so, j, OutEvent(k).id, OutEvent(k).props)
    BY <2>3, <2>5 DEF OutAnswers
  <2>7. j \in 1..Len(so) /\ j \in DOMAIN ops
    BY <2>3, <2>4, <2>6
  <2>8. \A i \in 1..Len(so) : so[i] = ops[i]
    BY <2>1, <2>2, <2>3, <2>4 DEF RepeatInv
  <2>9. Wants(view, so, j, OutEvent(k).id, OutEvent(k).props)
        <=> Wants(view, ops, j, OutEvent(k).id, OutEvent(k).props)
    BY <2>4, <2>7, <2>8, WishesStay
  <2> QED BY <2>2, <2>5, <2>6, <2>7, <2>9 DEF MetInv
<1> QED BY <1>1, <1>2 DEF EndExecution, end_execution

\* What is repeated does not depend on the manager but for the tracker's entries.
LEMMA RepeatsStay ==
    ASSUME RepeatInv, MetInv, phase \in {"run", "complete", "end"}, phase = "run" <=> phase' = "run",
           UNCHANGED << history, batch, task, view, ops, replayed, script, expectations >>
    PROVE  RepeatInv' /\ MetInv'
<1>1. Replays' => Replays
  BY DEF Replays
<1>2. PICK s : s = script[replayed + 1]
  OBVIOUS
<1>3. s = script'[replayed' + 1]
  BY <1>2
<1>4. Replays => /\ view = s.view /\ Len(ops) <= Len(s.ops) /\ \A j \in DOMAIN ops : ops[j] = s.ops[j]
                 /\ phase # "run" => Len(ops) = Len(s.ops)
  BY <1>2 DEF RepeatInv
<1>5. RepeatInv'
  BY <1>1, <1>3, <1>4 DEF RepeatInv
<1>6. MetInv'
  BY <1>1 DEF MetInv, Met, Asked, OutEvent
<1> QED BY <1>5, <1>6

\* The engine takes what history says, and lets the workflow end as it wants.
LEMMA EngineIsTaken ==
    ASSUME ~ImmediateCancel, Deterministic, IInv, KeysInv, HistoryInv, EngineStateInv, NumberedInv, BoundaryInv,
           InputInv, FuturesInv, Unwinds, AckInv, RunsOn, ScriptInv, EntriesInv, ToldInv, ReplayedInv, TasksInv,
           TimersInv, RefsInv, CallsInv, ScriptSays, RepeatInv, MetInv, ReplayRebuilds',
           task # "FatalDecisionError", EngineNext
    PROVE  /\ RepeatInv' /\ MetInv' /\ task' # "FatalDecisionError"
           /\ raised' \in {"none", "CancelledError"} \/ UNCHANGED raised
<1>1. ASSUME phase' \notin {"run", "complete", "end"} PROVE RepeatInv' /\ MetInv'
  BY <1>1 DEF RepeatInv, MetInv, Replays
<1>2. CASE NextDecisionEvents
  <2>1. raised' = "none"
    BY <1>2, BatchIsTaken
  <2>2. phase' = "input" /\ task' = task
    BY <1>2, <2>1 DEF NextDecisionEvents, Continue
  <2> QED BY <1>1, <2>1, <2>2
<1>3. CASE CollectDecisions
  BY <1>1, <1>3 DEF CollectDecisions, managerVars
<1>4. CASE ApplyInputEvent
  <2>1. phase = "input" /\ todo # << >> /\ handle_history_event(history[Head(todo)], Head(todo))
    BY <1>4 DEF ApplyInputEvent
  <2>2. raised' = "none"
    BY <2>1, EventIsHandled
  <2>3. phase' = "input" /\ task' \in {"running", task}
    BY <1>4, <2>2 DEF ApplyInputEvent, Continue
  <2> QED BY <1>1, <2>2, <2>3
<1>5. CASE StartRun
  <2>1. /\ phase' = "run" /\ ops' = << >> /\ task' = task /\ UNCHANGED << batch, script, replayed, raised >>
        /\ phase = "input"
    BY <1>5 DEF StartRun, managerVars
  <2>2. DOMAIN ops' = {} /\ Len(ops') = 0
    BY <2>1, EmptyIsSeq
  <2>3. MetInv'
    BY <2>2 DEF MetInv
  <2>4. PICK s : s = script[replayed + 1]
    OBVIOUS
  <2>5. batch.replay => view' = s.view /\ Len(s.ops) \in Nat
    <3>1. ASSUME batch.replay PROVE IsSeq(s.ops)
      BY <2>1, <2>4, <3>1, ReplaysTheScript DEF InBatch, EnginePhases
    <3>2. batch.replay => view' = s.view
      BY <2>1, <2>4 DEF ReplayRebuilds
    <3> QED BY <3>1, <3>2, LenProperties DEF IsSeq
  <2>6. RepeatInv'
    BY <2>1, <2>2, <2>4, <2>5 DEF RepeatInv, Replays
  <2> QED BY <2>1, <2>3, <2>6
<1>6. CASE MaybeCompleteWorkflow
  <2>1. /\ phase = "complete" /\ task' = task
        /\ UNCHANGED << history, batch, view, ops, replayed, script >>
    BY <1>6 DEF MaybeCompleteWorkflow, serviceVars, userVars
  <2>2. CASE UNCHANGED managerVars /\ phase' = "end"
    BY <2>1, <2>2, RepeatsStay DEF managerVars
  <2>3. CASE task \in Outcomes \ {"CancelledError"} /\ complete_workflow(task) /\ Continue("end")
    <3>1. ~batch.replay /\ ~replaying /\ COMPLETION_ID \notin DOMAIN state_machines
      BY <2>1, <2>3 DEF RunsOn, InBatch, EnginePhases, EngineStateInv, PlaceInv, BatchInv, CallsInv
    <3>2. Accepted(COMPLETION_ID, CompletionProps(task))
      BY <3>1 DEF Accepted
    <3>3. raised' = "none"
      BY <2>3, <3>1, <3>2 DEF complete_workflow, Add
    <3>4. RepeatInv' /\ MetInv'
      BY <2>1, <3>1 DEF RepeatInv, MetInv, Replays
    <3> QED BY <2>1, <3>3, <3>4
  <2>4. CASE task \in {"CancelledError", "FatalDecisionError"} /\ RaiseInEngine(task) /\ phase' = "failed"
    BY <1>1, <2>1, <2>4 DEF RaiseInEngine
  <2> QED BY <1>6, <2>2, <2>3, <2>4 DEF MaybeCompleteWorkflow
<1>7. CASE EndExecution
  <2>1. phase = "end" /\ task' = task
    BY <1>7 DEF EndExecution
  <2>2. raised' = "none"
    BY <1>7, <2>1, AllIsMet
  <2>3. phase' = "output"
    BY <1>7, <2>2 DEF EndExecution, Continue
  <2> QED BY <1>1, <2>1, <2>2, <2>3
<1>8. CASE ApplyOutputEvent
  <2>1. /\ phase = "output" /\ todo # << >> /\ handle_history_event(history[Head(todo)], Head(todo))
        /\ task' = task
    BY <1>8 DEF ApplyOutputEvent
  <2>2. raised' = "none"
    BY <2>1, EventIsHandled
  <2>3. phase' = "output"
    BY <1>8, <2>2 DEF ApplyOutputEvent, Continue
  <2> QED BY <1>1, <2>1, <2>2, <2>3
<1>9. CASE FinishBatch
  BY <1>1, <1>9 DEF FinishBatch, managerVars
<1> QED BY <1>2, <1>3, <1>4, <1>5, <1>6, <1>7, <1>8, <1>9 DEF EngineNext

\* What the service does raises nothing.
LEMMA ServiceRaisesNothing ==
    ASSUME task # "FatalDecisionError", ServiceNext
    PROVE  /\ RepeatInv' /\ MetInv' /\ task' # "FatalDecisionError"
           /\ raised' = "none" \/ UNCHANGED raised
<1>1. ASSUME phase' \notin {"run", "complete", "end"} PROVE RepeatInv' /\ MetInv'
  BY <1>1 DEF RepeatInv, MetInv, Replays
<1>2. ASSUME NEW events, Arrive(events)
      PROVE  phase' \notin {"run", "complete", "end"} /\ UNCHANGED << task, raised >>
  BY <1>2 DEF Arrive, managerVars, engineVars
<1>3. ASSUME DropEngine
      PROVE  phase' \notin {"run", "complete", "end"} /\ task' = "none" /\ raised' = "none"
  BY <1>3 DEF DropEngine, NewManager
<1>4. /\ phase' \notin {"run", "complete", "end"}
      /\ task' # "FatalDecisionError" /\ (raised' = "none" \/ UNCHANGED raised)
  <2>1. ASSUME NEW s, NEW type, ActivityCloses(s, type)
        PROVE  phase' \notin {"run", "complete", "end"} /\ UNCHANGED << task, raised >>
    BY <1>2, <2>1 DEF ActivityCloses
  <2>2. ASSUME NEW id, TimerFires(id)
        PROVE  phase' \notin {"run", "complete", "end"} /\ UNCHANGED << task, raised >>
    BY <1>2, <2>2 DEF TimerFires
  <2>3. ASSUME SignalArrives
        PROVE  phase' \notin {"run", "complete", "end"} /\ UNCHANGED << task, raised >>
    BY <1>2, <2>3 DEF SignalArrives
  <2>4. ASSUME PollDecisionTask \/ RecordDecision \/ (RespondDecisionTaskCompleted /\ ~DropEngine)
        PROVE  phase' \notin {"run", "complete", "end"} /\ UNCHANGED << task, raised >>
    BY <2>4 DEF PollDecisionTask, RecordDecision, RespondDecisionTaskCompleted, Unsuccessfully, managerVars, engineVars
  <2>5. ASSUME DecisionTaskTimesOut \/ RespondDecisionTaskFailed \/ FinishDecisionTask
        PROVE  DropEngine
    BY <2>5 DEF DecisionTaskTimesOut, RespondDecisionTaskFailed, FinishDecisionTask, Unsuccessfully
  <2> QED BY <1>3, <2>1, <2>2, <2>3, <2>4, <2>5 DEF ServiceNext
<1> QED BY <1>1, <1>4

\* The manager is what the calls of a batch make of it, in every engine.
LEMMA CallsAreKept ==
    ASSUME ~ImmediateCancel, Deterministic
    PROVE  Spec => [](LetThrough => CallsInv)
<1>1. Init => CallsInv
  BY DEF Init, CallsInv, InCalls
<1>2. /\ IInv /\ ReplayInv /\ Unwinds /\ AckInv /\ ScriptInv /\ RunsOn /\ CallsInv /\ LetThrough' /\ [Next]_vars
      => CallsInv'
  <2> SUFFICES ASSUME IInv, ReplayInv, Unwinds, AckInv, ScriptInv, RunsOn, CallsInv, LetThrough', [Next]_vars
               PROVE  CallsInv'
    OBVIOUS
  <2>1. CompletionInv /\ EngineStateInv /\ IdleInv /\ PhaseInv
    BY DEF ReplayInv, LastInv, EngineStateInv, HistoryInv
  <2>2. CASE UNCHANGED vars
    <3>1. UNCHANGED << history, phase, pos, batch, task, view, ops, id_counter, state_machines >>
      BY <2>2 DEF vars, managerVars, serviceVars, engineVars, userVars
    <3> QED BY <3>1 DEF CallsInv, InCalls
  <2> QED BY <2>1, <2>2, EngineKeepsCalls, WorkflowKeepsCalls, ServiceKeepsCalls DEF Next
<1> QED BY <1>1, <1>2, Invariance, ReplayIsSound, ReplayAcknowledges, ScriptIsKept, ReplayRunsOn,
           RejectionsUnwind, OutlivedStays, PTL DEF Spec

\* What was answered and recorded is what the calls asked for.
LEMMA AnswersAreKept ==
    ASSUME ~ImmediateCancel, Deterministic
    PROVE  Spec => [](LetThrough => AnswerSays /\ ScriptSays)
<1>1. Init => AnswerSays /\ ScriptSays
  <2> SUFFICES ASSUME Init PROVE AnswerSays /\ ScriptSays
    OBVIOUS
  <2>1. phase = "idle" /\ script = << >>
    BY DEF Init
  <2>2. DOMAIN script = {}
    BY <2>1, EmptyIsSeq
  <2> QED BY <2>1, <2>2 DEF AnswerSays, ScriptSays
<1>2. /\ IInv /\ ReplayInv /\ ScriptInv /\ FoundInv /\ CallsInv /\ AnswerSays /\ ScriptSays /\ [Next]_vars
      /\ IInv' /\ DecisionsInCallOrder'
      => AnswerSays' /\ ScriptSays'
  <2> SUFFICES ASSUME IInv, ReplayInv, ScriptInv, FoundInv, CallsInv, AnswerSays, ScriptSays, [Next]_vars,
                      IInv', DecisionsInCallOrder'
               PROVE  AnswerSays' /\ ScriptSays'
    OBVIOUS
  <2>1. LastInv /\ DecisionsInv /\ HistoryInv /\ EngineStateInv /\ ReplayedInv
    BY DEF ReplayInv, LastInv, FoundInv
  <2>2. CASE ServiceNext
    BY <2>1, <2>2, ServiceKeepsAnswerSays, ServiceKeepsScriptSays
  <2>3. CASE EngineNext \/ WorkflowNext
    BY <2>1, <2>3, WorkerKeepsAnswerSays, WorkerKeepsScriptSays
  <2>4. CASE UNCHANGED vars
    <3>1. UNCHANGED << history, decisions, phase, view, ops, script >>
      BY <2>4 DEF vars, serviceVars, engineVars, userVars
    <3> QED BY <3>1 DEF AnswerSays, ScriptSays
  <2> QED BY <2>2, <2>3, <2>4 DEF Next
<1> QED BY <1>1, <1>2, Invariance, ReplayIsSound, ScriptIsKept, FoundIsKept, CallsAreKept,
           CallOrderIsKept, OutlivedStays, PTL DEF Spec

\* What the engine and the service do says nothing of rejections.
LEMMA OnlyCallsOutlive ==
    ASSUME EngineNext \/ ServiceNext
    PROVE  UNCHANGED outlived
<1>1. ASSUME UNCHANGED userVars PROVE UNCHANGED outlived
  BY <1>1 DEF userVars
<1>2. CASE EngineNext
  BY <1>1, <1>2 DEF EngineNext, NextDecisionEvents, CollectDecisions, ApplyInputEvent, StartRun,
                    MaybeCompleteWorkflow, EndExecution, ApplyOutputEvent, FinishBatch
<1>3. CASE ServiceNext
  <2>1. ASSUME NEW type, Unsuccessfully(type) PROVE UNCHANGED outlived
    BY <2>1 DEF Unsuccessfully
  <2>2. ASSUME NEW events, Arrive(events) PROVE UNCHANGED outlived
    BY <1>1, <2>2 DEF Arrive
  <2>3. CASE \/ \E s \in DOMAIN history, type \in CloseEvents : ActivityCloses(s, type)
             \/ \E n \in 0..(MaxIds - 1) : TimerFires(DecisionId("TIMER", n))
             \/ SignalArrives
    BY <2>2, <2>3 DEF ActivityCloses, TimerFires, SignalArrives
  <2>4. CASE \/ PollDecisionTask \/ DecisionTaskTimesOut \/ RespondDecisionTaskFailed
             \/ RespondDecisionTaskCompleted \/ RecordDecision \/ FinishDecisionTask
    BY <1>1, <2>1, <2>4 DEF PollDecisionTask, DecisionTaskTimesOut, RespondDecisionTaskFailed,
                            RespondDecisionTaskCompleted, RecordDecision, FinishDecisionTask
  <2> QED BY <1>3, <2>3, <2>4 DEF ServiceNext
<1> QED BY <1>2, <1>3

\* A workflow function that was not rewritten meets no rejection, so that there
\* is none to catch, and its calls are those that were recorded.
LEMMA AllIsTaken ==
    ASSUME ~ImmediateCancel, Deterministic
    PROVE  Spec => [](LetThrough /\ TakenInv)
<1>1. Init => LetThrough /\ TakenInv
  BY DEF Init, ManagerInit, LetThrough, RepeatInv, MetInv, Replays, NoSpuriousFailure, TakenInv
<1> DEFINE AllKept == /\ IInv /\ ReplayInv /\ FlowInv /\ AckInv /\ CommandsInv /\ RunsOn /\ ScriptInv /\ FoundInv
                      /\ Unwinds /\ PropsInv /\ EntriesInv /\ TrackInv /\ TasksInv /\ TimersInv /\ RefsInv
                      /\ CallsInv /\ ScriptSays
<1>2. AllKept => /\ KeysInv /\ HistoryInv /\ EngineStateInv /\ NumberedInv /\ BoundaryInv /\ InputInv
                 /\ FuturesInv /\ ToldInv /\ ReplayedInv
  BY DEF ReplayInv, LastInv, CommandsInv, FlowInv, FoundInv, FollowInv
<1>3. AllKept /\ TakenInv /\ WorkflowNext
      => /\ RepeatInv' /\ MetInv' /\ task' # "FatalDecisionError"
         /\ raised' = "none" \/ UNCHANGED raised
         /\ UNCHANGED outlived
  <2> SUFFICES ASSUME AllKept, RepeatInv, MetInv, task # "FatalDecisionError", WorkflowNext
               PROVE  /\ RepeatInv' /\ MetInv' /\ task' # "FatalDecisionError"
                      /\ raised' = "none" \/ UNCHANGED raised
                      /\ UNCHANGED outlived
    BY DEF TakenInv
  <2> QED BY <1>2, WorkflowIsTaken
<1>4. AllKept /\ TakenInv /\ LetThrough /\ [Next]_vars => LetThrough'
  <2> SUFFICES ASSUME AllKept, TakenInv, LetThrough, [Next]_vars PROVE LetThrough'
    OBVIOUS
  <2>1. CASE WorkflowNext
    BY <1>3, <2>1 DEF LetThrough
  <2>2. CASE EngineNext \/ ServiceNext
    BY <2>2, OnlyCallsOutlive DEF LetThrough
  <2>3. CASE UNCHANGED vars
    BY <2>3 DEF vars, userVars, LetThrough
  <2> QED BY <2>1, <2>2, <2>3 DEF Next
<1>5. AllKept /\ TakenInv /\ [Next]_vars /\ ReplayRebuilds' => TakenInv'
  <2> SUFFICES ASSUME AllKept, RepeatInv, MetInv, task # "FatalDecisionError", NoSpuriousFailure, [Next]_vars,
                      ReplayRebuilds'
               PROVE  RepeatInv' /\ MetInv' /\ task' # "FatalDecisionError" /\ NoSpuriousFailure'
    BY DEF TakenInv
  <2>1. CASE WorkflowNext
    BY <1>3, <2>1 DEF TakenInv, NoSpuriousFailure
  <2>2. CASE EngineNext
    <3>1. /\ RepeatInv' /\ MetInv' /\ task' # "FatalDecisionError"
          /\ raised' \in {"none", "CancelledError"} \/ UNCHANGED raised
      BY <1>2, <2>2, EngineIsTaken
    <3> QED BY <3>1 DEF NoSpuriousFailure
  <2>3. CASE ServiceNext
    <3>1. /\ RepeatInv' /\ MetInv' /\ task' # "FatalDecisionError"
          /\ raised' = "none" \/ UNCHANGED raised
      BY <2>3, ServiceRaisesNothing
    <3> QED BY <3>1 DEF NoSpuriousFailure
  <2>4. CASE UNCHANGED vars
    <3>1. UNCHANGED << history, phase, batch, task, view, ops, replayed, script, expectations, raised >>
      BY <2>4 DEF vars, managerVars, serviceVars, engineVars, userVars
    <3>2. CASE phase \in {"run", "complete", "end"}
      BY <3>1, <3>2, RepeatsStay DEF NoSpuriousFailure
    <3>3. CASE phase \notin {"run", "complete", "end"}
      BY <3>1, <3>3 DEF RepeatInv, MetInv, Replays, NoSpuriousFailure
    <3> QED BY <3>2, <3>3
  <2> QED BY <2>1, <2>2, <2>3, <2>4 DEF Next
<1>6. Spec => [](LetThrough => PropsInv /\ EntriesInv /\ TrackInv /\ ReplaySound)
  BY TrackIsKept
<1>7. Spec => [](LetThrough => AllKept)
  <2>1. (IInv /\ ReplayInv /\ FlowInv /\ AckInv /\ RunsOn /\ ScriptInv /\ TasksInv /\ TimersInv /\ RefsInv)
        /\ (LetThrough => CommandsInv /\ FoundInv /\ Unwinds /\ CallsInv /\ AnswerSays /\ ScriptSays)
        /\ (LetThrough => PropsInv /\ EntriesInv /\ TrackInv /\ ReplaySound)
        => (LetThrough => AllKept)
    OBVIOUS
  <2> QED BY <1>6, <2>1, Invariance, ReplayIsSound, FlowIsKept, ReplayAcknowledges, ReplayRunsOn, ScriptIsKept,
             EventsAreKept, CommandsAreKept, FoundIsKept, RejectionsUnwind, CallsAreKept, AnswersAreKept, PTL
<1> HIDE DEF AllKept
<1> QED BY <1>1, <1>4, <1>5, <1>7, RebuildingIsKept, PTL DEF Spec

-----------------------------------------------------------------------------
(* What a workflow function that was not rewritten can rely on             *)

\* A workflow function that was not rewritten is never turned down: whatever the
\* order of answers, cancellations, lost tasks and late events, in a history of
\* any length, every event finds its machine and an open future, every replayed
\* call is the one the tracker expects, none that is recorded is missed, and the
\* only exception process_decision raises is the workflow's own.  A workflow that
\* cancels its own requests is left out, here and below: the markers do turn it
\* down.
THEOREM NothingIsTurnedDown ==
    ASSUME ~ImmediateCancel, Deterministic
    PROVE  Spec => []NoSpuriousFailure
<1>1. TakenInv => NoSpuriousFailure
  BY DEF TakenInv
<1> QED BY <1>1, AllIsTaken, PTL

\* Every call is in the history once, in its place: what is recorded behind the
\* mark of an answer is, event for event, what the calls of that batch asked for,
\* in the order of the calls, whatever was lost, refused or written between the
\* answers.  So is an answer on its way.
THEOREM HistoryHoldsTheCalls ==
    ASSUME ~ImmediateCancel, Deterministic
    PROVE  Spec => [](AnswerSays /\ ScriptSays)
BY AllIsTaken, AnswersAreKept, PTL

\* Replay rebuilds the past: when the code of a recorded batch runs again, the
\* counter of the ids, the order of the machines, their states, requests,
\* properties and futures are exactly what they were when it ran first, although
\* history has grown since, the engine is another, and what was asked for then is
\* acknowledged now.
THEOREM ReplayRebuildsThePast ==
    ASSUME ~ImmediateCancel, Deterministic
    PROVE  Spec => []ReplayRebuilds
BY AllIsTaken, RebuildingIsKept, PTL

\* Of two decisions of an answer, the one the workflow's last word on came
\* first is sent first: whatever was replayed before, however the calls are
\* mixed, and although a cancellation moves a machine.
THEOREM AnswersFollowTheCalls ==
    ASSUME ~ImmediateCancel, Deterministic
    PROVE  Spec => []DecisionsInCallOrder
BY AllIsTaken, CallOrderIsKept, PTL

\* When a recorded batch was replayed the manager has nothing to send: no command
\* of an earlier task is given again, whatever was lost or arrived in between.
THEOREM ReplaySendsNothing ==
    ASSUME ~ImmediateCancel, Deterministic
    PROVE  Spec => []NothingSentAgain
<1>1. Unwinds /\ (Untroubled => NothingSentAgain) => NothingSentAgain
  BY DEF Unwinds, Untroubled, NothingSentAgain
<1> QED BY <1>1, AllIsTaken, RejectionsUnwind, NothingIsSentAgain, PTL

\* The history the service keeps is the life of the workflow's commands: each is
\* started, cancelled and ended once, and nothing is behind the workflow's end.
\* There is no rejection to catch, so that nothing is asked of the function.
THEOREM CommandsLiveAsRecorded ==
    ASSUME ~ImmediateCancel, Deterministic
    PROVE  Spec => ImplementsCommandLife
BY AllIsTaken, CommandLifeIsImplemented, PTL

=============================================================================
