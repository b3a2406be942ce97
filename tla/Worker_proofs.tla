----------------------------- MODULE Worker_proofs -----------------------------
(***************************************************************************)
(* The two parts of a worker: its pollers, and the registry that finds     *)
(* what the polled tasks are about.                                        *)
(*                                                                         *)
(* The pollers' permits are accounted for, for any number of loops, tasks  *)
(* and permits.  The accounts alone are not inductive: that a loop leaves  *)
(* the line when it runs on needs that it is in it.                        *)
(*                                                                         *)
(* A name keeps its meaning, in registries of any number, size and order   *)
(* of registration, and a definition the worker's registry took is the one *)
(* that runs when it is called.  The invariant relates the tables to the   *)
(* ghost of what was registered, and what runs to the tables as they are   *)
(* now, which is where the first of the two results is needed for the      *)
(* second.                                                                 *)
(***************************************************************************)
EXTENDS Poller, Application, FiniteSetTheorems, SequenceTheorems, TLAPS

\* A set gains or loses an element, and its cardinality follows.
LEMMA SetGains ==
    ASSUME NEW S, IsFiniteSet(S), NEW x, x \notin S
    PROVE  /\ IsFiniteSet(S \cup {x})
           /\ Cardinality(S) \in Nat
           /\ Cardinality(S \cup {x}) = Cardinality(S) + 1
  BY FS_AddElement, FS_CardinalityType

LEMMA SetLoses ==
    ASSUME NEW S, IsFiniteSet(S), NEW x \in S
    PROVE  /\ IsFiniteSet(S \ {x})
           /\ Cardinality(S \ {x}) \in Nat
           /\ Cardinality(S) = Cardinality(S \ {x}) + 1
<1>1. IsFiniteSet(S \ {x}) /\ x \notin S \ {x} /\ (S \ {x}) \cup {x} = S
  BY FS_RemoveElement
<1> QED BY <1>1, FS_AddElement, FS_CardinalityType

\* The sets that are counted are finite.
LEMMA CountedAreFinite ==
    ASSUME TypeOK
    PROVE  /\ IsFiniteSet(woken) /\ Cardinality(woken) \in Nat
           /\ IsFiniteSet(Polling) /\ Cardinality(Polling) \in Nat
           /\ IsFiniteSet(Executing) /\ Cardinality(Executing) \in Nat
<1>1. woken \subseteq Pollers /\ Polling \subseteq Pollers /\ Executing \subseteq Tasks
  BY DEF TypeOK, Polling, Executing
<1> QED BY <1>1, PollersAssumption, TasksAssumption, FS_Subset, FS_CardinalityType

-----------------------------------------------------------------------------
(* The semaphore                                                           *)

\* Waking hands permits over and creates none; who is woken is in the line.
LEMMA WakeNextHandsOver ==
    ASSUME NEW v \in Nat, NEW s \in Seq(Pollers), NEW w \in SUBSET Pollers,
           WakeNext(v, s, w)
    PROVE  /\ value' \in Nat
           /\ woken' \subseteq Pollers
           /\ value' + Cardinality(woken') = v + Cardinality(w)
           /\ woken' \subseteq w \cup {s[i] : i \in DOMAIN s}
<1>1. IsFiniteSet(w) /\ Cardinality(w) \in Nat
  BY PollersAssumption, FS_Subset, FS_CardinalityType
<1>2. CASE v > 0 /\ Asleep(s, w) # {}
  <2>1. PICK i \in Asleep(s, w) : value' = v - 1 /\ woken' = w \cup {s[i]}
    BY <1>2 DEF WakeNext
  <2>2. s[i] \notin w /\ s[i] \in Pollers /\ i \in DOMAIN s
    BY <2>1 DEF Asleep
  <2>3. Cardinality(woken') = Cardinality(w) + 1
    BY <1>1, <2>1, <2>2, SetGains
  <2> QED BY <1>1, <1>2, <2>1, <2>2, <2>3
<1>3. CASE ~(v > 0 /\ Asleep(s, w) # {})
  BY <1>1, <1>3 DEF WakeNext
<1> QED BY <1>2, <1>3

\* The members of a sequence.
Elements(s) == {s[i] : i \in DOMAIN s}

\* No member of the line is in it twice.
Distinct(s) == \A i, j \in DOMAIN s : s[i] = s[j] => i = j

\* Leaving the line takes out one loop and no other.
LEMMA WithoutLeaves ==
    ASSUME NEW s \in Seq(Pollers), Distinct(s), NEW p \in Elements(s)
    PROVE  /\ Without(s, p) \in Seq(Pollers)
           /\ Elements(Without(s, p)) = Elements(s) \ {p}
           /\ Distinct(Without(s, p))
<1> DEFINE k == CHOOSE k \in DOMAIN s : s[k] = p
           r == Without(s, p)
<1>1. k \in 1..Len(s) /\ s[k] = p
  BY DEF Elements
<1>2. /\ r \in Seq(Pollers)
      /\ Len(r) = Len(s) - 1
      /\ \A i \in 1..Len(r) : r[i] = IF i < k THEN s[i] ELSE s[i + 1]
  <2> DEFINE a == SubSeq(s, 1, k - 1)
             b == SubSeq(s, k + 1, Len(s))
  <2>1. r = a \o b
    BY DEF Without
  <2>2. k \in Nat /\ k >= 1 /\ k <= Len(s) /\ Len(s) \in Nat
    BY <1>1
  <2> HIDE DEF k, r
  <2>3. /\ a \in Seq(Pollers) /\ Len(a) = k - 1
        /\ \A i \in 1..(k - 1) : a[i] = s[i]
    BY <2>2, SubSeqProperties
  <2>4. /\ b \in Seq(Pollers) /\ Len(b) = Len(s) - k
        /\ \A i \in 1..(Len(s) - k) : b[i] = s[k + i]
    BY <2>2, SubSeqProperties
  <2> HIDE DEF a, b
  <2>5. /\ r \in Seq(Pollers) /\ Len(r) = Len(a) + Len(b)
        /\ \A i \in 1..(Len(a) + Len(b)) :
              r[i] = IF i <= Len(a) THEN a[i] ELSE b[i - Len(a)]
    BY <2>1, <2>3, <2>4, ConcatProperties, Zenon
  <2>6. Len(r) = Len(s) - 1
    BY <2>2, <2>3, <2>4, <2>5
  <2>7. ASSUME NEW i \in 1..Len(r)
        PROVE  r[i] = IF i < k THEN s[i] ELSE s[i + 1]
    <3>1. i \in 1..(Len(a) + Len(b)) /\ i \in Int
      BY <2>5
    <3>2. r[i] = IF i <= Len(a) THEN a[i] ELSE b[i - Len(a)]
      BY <2>5, <3>1
    <3>3. CASE i < k
      BY <2>2, <2>3, <3>1, <3>2, <3>3
    <3>4. CASE ~(i < k)
      <4>1. /\ ~(i <= Len(a)) /\ i - Len(a) \in 1..(Len(s) - k)
            /\ k + (i - Len(a)) = i + 1
        BY <2>2, <2>3, <2>4, <3>1, <3>4
      <4>2. r[i] = b[i - Len(a)]
        BY <3>2, <4>1
      <4> QED BY <2>4, <3>4, <4>1, <4>2
    <3> QED BY <3>3, <3>4
  <2> QED BY <2>5, <2>6, <2>7
<1> HIDE DEF k, r
<1>3. Elements(r) \subseteq Elements(s) \ {p}
  <2> SUFFICES ASSUME NEW i \in 1..Len(r)
               PROVE  r[i] \in Elements(s) /\ r[i] # p
    BY <1>2 DEF Elements
  <2> QED BY <1>1, <1>2 DEF Elements, Distinct
<1>4. Elements(s) \ {p} \subseteq Elements(r)
  <2> SUFFICES ASSUME NEW j \in 1..Len(s), s[j] # p
               PROVE  s[j] \in Elements(r)
    BY DEF Elements
  <2>1. CASE j < k
    BY <1>1, <1>2, <2>1 DEF Elements
  <2>2. CASE j > k
    <3>1. j - 1 \in 1..Len(r) /\ r[j - 1] = s[j]
      BY <1>1, <1>2, <2>2
    <3>2. DOMAIN r = 1..Len(r)
      BY <1>2
    <3> QED BY <3>1, <3>2 DEF Elements
  <2> QED BY <1>1, <2>1, <2>2
<1>5. Distinct(r)
  BY <1>1, <1>2 DEF Distinct
<1> QED BY <1>2, <1>3, <1>4, <1>5 DEF r

\* Entering it adds one loop at its end.
LEMMA AppendEnters ==
    ASSUME NEW s \in Seq(Pollers), Distinct(s), NEW p \in Pollers, p \notin Elements(s)
    PROVE  /\ Append(s, p) \in Seq(Pollers)
           /\ Elements(Append(s, p)) = Elements(s) \cup {p}
           /\ Distinct(Append(s, p))
<1>1. /\ Append(s, p) \in Seq(Pollers)
      /\ Len(Append(s, p)) = Len(s) + 1
      /\ \A i \in 1..Len(s) : Append(s, p)[i] = s[i]
      /\ Append(s, p)[Len(s) + 1] = p
  OBVIOUS
<1>2. DOMAIN s = 1..Len(s) /\ DOMAIN Append(s, p) = 1..(Len(s) + 1)
  BY <1>1
<1> QED BY <1>1, <1>2 DEF Elements, Distinct
-----------------------------------------------------------------------------
(* What a loop does to the accounts                                        *)

Waiting == {p \in Pollers : at[p] = "waiting"}

\* Before the worker runs there are no loops and no callbacks.
NoLoopsYet ==
    worker = "new" => /\ \A p \in Pollers : at[p] = "created"
                      /\ \A t \in Tasks : callback[t] = "queued"

IInv == TypeOK /\ LineIsWaiting /\ PermitsAccounted /\ NoLoopsYet

\* The line in the words of the lemmas.
LEMMA LineAsElements ==
    LineIsWaiting <=> /\ Distinct(line)
                      /\ Elements(line) = Waiting
                      /\ woken \subseteq Waiting
  BY DEF LineIsWaiting, Distinct, Elements, Waiting

\* A loop that is not in the line takes one of v permits and polls, or joins
\* the line.
LEMMA AcquireAccounts ==
    ASSUME TypeOK, LineIsWaiting, NEW p \in Pollers, at[p] # "waiting",
           NEW v \in Nat, Acquire(p, v)
    PROVE  /\ value' \in Nat /\ line' \in Seq(Pollers) /\ woken' = woken
           /\ at' \in [Pollers -> {"created", "started", "waiting", "polling", "ended"}]
           /\ LineIsWaiting'
           /\ value' + Cardinality(Polling') = v + Cardinality(Polling \ {p})
<1> USE DEF TypeOK
<1>1. IsFiniteSet(Polling \ {p}) /\ Cardinality(Polling \ {p}) \in Nat
  BY CountedAreFinite, FS_Subset, FS_CardinalityType
<1>2. CASE Locked(v, line)
  <2>1. /\ line' = Append(line, p) /\ value' = v /\ woken' = woken
        /\ at' = [at EXCEPT ![p] = "waiting"]
    BY <1>2 DEF Acquire
  <2>2. Polling' = Polling \ {p} /\ Waiting' = Waiting \cup {p}
    BY <2>1 DEF Polling, Waiting
  <2>3. Distinct(line) /\ Elements(line) = Waiting /\ woken \subseteq Waiting
    BY LineAsElements
  <2>4. p \notin Elements(line)
    BY <2>3 DEF Waiting
  <2>5. /\ line' \in Seq(Pollers) /\ Distinct(line')
        /\ Elements(line') = Waiting' /\ woken' \subseteq Waiting'
    BY <2>1, <2>2, <2>3, <2>4, AppendEnters
  <2>6. LineIsWaiting'
    BY <2>5 DEF LineIsWaiting, Distinct, Elements, Waiting
  <2> QED BY <1>1, <2>1, <2>2, <2>5, <2>6
<1>3. CASE ~Locked(v, line)
  <2>1. /\ line' = line /\ value' = v - 1 /\ woken' = woken
        /\ at' = [at EXCEPT ![p] = "polling"]
        /\ v # 0
    BY <1>3 DEF Acquire, Locked
  <2>2. Polling' = (Polling \ {p}) \cup {p} /\ Waiting' = Waiting
    BY <2>1 DEF Polling, Waiting
  <2>3. LineIsWaiting'
    BY <2>1, <2>2 DEF LineIsWaiting, Waiting
  <2>4. Cardinality(Polling') = Cardinality(Polling \ {p}) + 1
    BY <1>1, <2>2, SetGains
  <2> QED BY <1>1, <2>1, <2>3, <2>4
<1> QED BY <1>2, <1>3

\* A poll that gives its permit back leaves the accounts as they are.
LEMMA ReleaseAndAcquireAccounts ==
    ASSUME TypeOK, LineIsWaiting, NEW p \in Pollers, at[p] = "polling",
           ReleaseAndAcquire(p)
    PROVE  /\ value' \in Nat /\ line' \in Seq(Pollers) /\ woken' \subseteq Pollers
           /\ at' \in [Pollers -> {"created", "started", "waiting", "polling", "ended"}]
           /\ LineIsWaiting'
           /\ value' + Cardinality(woken') + Cardinality(Polling')
                = value + Cardinality(woken) + Cardinality(Polling)
<1> USE DEF TypeOK
<1>1. /\ IsFiniteSet(Polling) /\ Cardinality(Polling) \in Nat
      /\ Cardinality(woken) \in Nat
  BY CountedAreFinite
<1>2. p \in Polling
  BY DEF Polling
<1>3. /\ Cardinality(Polling \ {p}) \in Nat
      /\ Cardinality(Polling) = Cardinality(Polling \ {p}) + 1
  BY <1>1, <1>2, SetLoses
<1>4. CASE line = << >>
  <2>1. Acquire(p, value + 1) /\ value + 1 \in Nat
    BY <1>4 DEF ReleaseAndAcquire
  <2>2. /\ value' \in Nat /\ line' \in Seq(Pollers) /\ woken' = woken
        /\ at' \in [Pollers -> {"created", "started", "waiting", "polling", "ended"}]
        /\ LineIsWaiting'
        /\ value' + Cardinality(Polling') = value + 1 + Cardinality(Polling \ {p})
    BY <2>1, AcquireAccounts
  <2>3. Polling' \subseteq Polling \cup {p}
    BY <2>1 DEF Acquire, Polling
  <2>4. Cardinality(Polling') \in Nat
    BY <1>1, <1>2, <2>3, FS_Subset, FS_CardinalityType
  <2>5. value' + Cardinality(woken') + Cardinality(Polling')
          = value + Cardinality(woken) + Cardinality(Polling)
    <3>1. Cardinality(woken') = Cardinality(woken) /\ value \in Int
      BY <2>2
    <3> HIDE DEF TypeOK
    <3>2. value' + Cardinality(Polling') = value + Cardinality(Polling)
      BY <1>3, <2>2, <3>1
    <3> QED BY <1>1, <2>2, <2>4, <3>1, <3>2
  <2> QED BY <2>2, <2>5
<1>5. CASE line # << >>
  <2>1. /\ WakeNext(value + 1, line, woken) /\ value + 1 \in Nat
        /\ line' = Append(line, p)
        /\ at' = [at EXCEPT ![p] = "waiting"]
    BY <1>5 DEF ReleaseAndAcquire
  <2>2. /\ value' \in Nat /\ woken' \subseteq Pollers
        /\ value' + Cardinality(woken') = value + 1 + Cardinality(woken)
        /\ woken' \subseteq woken \cup Elements(line)
    BY <2>1, WakeNextHandsOver DEF Elements
  <2>3. Polling' = Polling \ {p} /\ Waiting' = Waiting \cup {p}
    BY <2>1 DEF Polling, Waiting
  <2>4. Distinct(line) /\ Elements(line) = Waiting /\ woken \subseteq Waiting
    BY LineAsElements
  <2>5. p \notin Elements(line)
    BY <2>4 DEF Waiting
  <2>6. /\ line' \in Seq(Pollers) /\ Distinct(line')
        /\ Elements(line') = Waiting' /\ woken' \subseteq Waiting'
    BY <2>1, <2>2, <2>3, <2>4, <2>5, AppendEnters
  <2>7. LineIsWaiting'
    BY <2>6 DEF LineIsWaiting, Distinct, Elements, Waiting
  <2>8. Cardinality(woken') \in Nat
    BY <2>2, PollersAssumption, FS_Subset, FS_CardinalityType
  <2>9. value' + Cardinality(woken') + Cardinality(Polling')
          = value + Cardinality(woken) + Cardinality(Polling)
    <3>1. Cardinality(Polling') = Cardinality(Polling \ {p}) /\ value \in Int
      BY <2>3
    <3> QED BY <1>1, <1>3, <2>2, <2>8, <3>1
  <2> QED BY <2>1, <2>2, <2>6, <2>7, <2>9
<1> QED BY <1>4, <1>5

-----------------------------------------------------------------------------
(* The invariant                                                           *)

Account == value + Cardinality(woken) + Cardinality(Polling) + Cardinality(Executing)

\* What every step has to show.  After it the account may only be short if
\* the worker is closed.
LEMMA AccountsKeepInv ==
    ASSUME IInv,
           worker' \in {"new", "running", "closed"},
           value' \in Nat, line' \in Seq(Pollers), woken' \subseteq Pollers,
           at' \in [Pollers -> {"created", "started", "waiting", "polling", "ended"}],
           callback' \in [Tasks -> {"queued", "created", "running", "done", "lost"}],
           LineIsWaiting',
           Account' = Account \/ (worker = "closed" /\ Account' <= Account),
           worker = "closed" => worker' = "closed",
           worker' # "new"
    PROVE  IInv'
<1>1. Account <= Permits /\ (worker # "closed" => Account = Permits)
  BY DEF IInv, PermitsAccounted, Account
<1>2. Account \in Nat
  BY CountedAreFinite DEF IInv, Account, TypeOK
<1>3. /\ IsFiniteSet(woken') /\ Cardinality(woken') \in Nat
      /\ IsFiniteSet(Polling') /\ Cardinality(Polling') \in Nat
      /\ IsFiniteSet(Executing') /\ Cardinality(Executing') \in Nat
  <2>1. woken' \subseteq Pollers /\ Polling' \subseteq Pollers /\ Executing' \subseteq Tasks
    BY DEF Polling, Executing
  <2> QED BY <2>1, PollersAssumption, TasksAssumption, FS_Subset, FS_CardinalityType
<1>4. Account' \in Nat /\ value' <= Account'
  BY <1>3 DEF Account
<1>5. Account' <= Permits
  BY <1>1, <1>2, <1>4, PermitsAssumption
<1>6. PermitsAccounted'
  BY <1>1, <1>5 DEF PermitsAccounted, Account
<1>7. value' \in 0..Permits
  BY <1>4, <1>5, PermitsAssumption
<1> QED BY <1>6, <1>7 DEF IInv, TypeOK, NoLoopsYet

\* A worker that is new has all its permits.
LEMMA InitHasInv ==
    ASSUME Init
    PROVE  IInv
<1>1. woken = {} /\ Polling = {} /\ Executing = {} /\ line = << >>
  BY DEF Init, Polling, Executing
<1>2. Cardinality({}) = 0
  BY FS_EmptySet
<1>3. TypeOK
  BY PermitsAssumption DEF Init, TypeOK
<1>4. LineIsWaiting
  BY DEF Init, LineIsWaiting
<1>5. PermitsAccounted
  BY <1>1, <1>2, PermitsAssumption DEF Init, PermitsAccounted
<1>6. NoLoopsYet
  BY DEF Init, NoLoopsYet
<1> QED BY <1>3, <1>4, <1>5, <1>6 DEF IInv

\* The loops' own steps, before the worker is closed and after.
LEMMA LoopKeepsInv ==
    ASSUME IInv, NEW p \in Pollers,
           \/ Start(p) \/ Resume(p) \/ PollWithoutTask(p)
           \/ \E t \in Tasks : PollWithTask(p, t)
    PROVE  IInv'
<1>0. TypeOK /\ LineIsWaiting /\ NoLoopsYet
  BY DEF IInv
<1>1. /\ IsFiniteSet(woken) /\ Cardinality(woken) \in Nat
      /\ IsFiniteSet(Polling) /\ Cardinality(Polling) \in Nat
      /\ IsFiniteSet(Executing) /\ Cardinality(Executing) \in Nat
  BY <1>0, CountedAreFinite
<1>2. CASE Start(p)
  <2>1. /\ at[p] = "started" /\ Acquire(p, value) /\ value \in Nat
        /\ UNCHANGED << worker, callback >>
    BY <1>0, <1>2 DEF Start, TypeOK
  <2>2. Polling \ {p} = Polling
    BY <2>1 DEF Polling
  <2>3. /\ value' \in Nat /\ line' \in Seq(Pollers) /\ woken' = woken
        /\ at' \in [Pollers -> {"created", "started", "waiting", "polling", "ended"}]
        /\ LineIsWaiting'
        /\ value' + Cardinality(Polling') = value + Cardinality(Polling \ {p})
    BY <1>0, <2>1, AcquireAccounts
  <2>4. Executing' = Executing
    BY <2>1 DEF Executing
  <2>5. Cardinality(Polling') \in Nat
    BY <2>3, PollersAssumption, FS_Subset, FS_CardinalityType DEF Polling
  <2>6. Account' = Account
    <3>1. /\ Cardinality(woken') = Cardinality(woken)
          /\ Cardinality(Executing') = Cardinality(Executing)
          /\ value' + Cardinality(Polling') = value + Cardinality(Polling)
      BY <2>2, <2>3, <2>4
    <3>2. value + Cardinality(woken) + Cardinality(Polling)
            = value' + Cardinality(woken') + Cardinality(Polling')
      BY <1>1, <2>1, <2>3, <2>5, <3>1
    <3> QED BY <1>1, <2>1, <2>3, <2>5, <3>1, <3>2 DEF Account
  <2> QED BY <1>0, <2>1, <2>3, <2>6, AccountsKeepInv DEF TypeOK, NoLoopsYet
<1>3. CASE Resume(p)
  <2> DEFINE rest == Without(line, p)
  <2>1. /\ at[p] = "waiting" /\ p \in woken
        /\ line' = rest /\ WakeNext(value, rest, woken \ {p})
        /\ at' = [at EXCEPT ![p] = "polling"]
        /\ UNCHANGED << worker, callback >>
    BY <1>3 DEF Resume
  <2>2. Distinct(line) /\ Elements(line) = Waiting /\ woken \subseteq Waiting
    BY <1>0, LineAsElements
  <2>3. /\ rest \in Seq(Pollers) /\ Distinct(rest)
        /\ Elements(rest) = Elements(line) \ {p}
    BY <1>0, <2>1, <2>2, WithoutLeaves DEF TypeOK
  <2> HIDE DEF rest
  <2>4. woken \ {p} \in SUBSET Pollers /\ value \in Nat
    BY <1>0 DEF TypeOK
  <2>5. /\ value' \in Nat /\ woken' \subseteq Pollers
        /\ value' + Cardinality(woken') = value + Cardinality(woken \ {p})
        /\ woken' \subseteq (woken \ {p}) \cup Elements(rest)
    BY <2>1, <2>3, <2>4, WakeNextHandsOver DEF Elements
  <2>6. /\ Waiting' = Waiting \ {p} /\ Polling' = Polling \cup {p}
        /\ p \notin Polling /\ Executing' = Executing
    BY <1>0, <2>1 DEF Waiting, Polling, Executing, TypeOK
  <2>7. LineIsWaiting'
    <3>1. Distinct(line') /\ Elements(line') = Waiting' /\ woken' \subseteq Waiting'
      BY <2>1, <2>2, <2>3, <2>5, <2>6
    <3> QED BY <3>1 DEF LineIsWaiting, Distinct, Elements, Waiting
  <2>8. Account' = Account
    <3>1. Cardinality(Polling') = Cardinality(Polling) + 1
      BY <1>1, <2>6, SetGains
    <3>2. /\ Cardinality(woken \ {p}) \in Nat
          /\ Cardinality(woken) = Cardinality(woken \ {p}) + 1
      BY <1>1, <2>1, SetLoses
    <3>3. Cardinality(woken') \in Nat
      BY <2>5, PollersAssumption, FS_Subset, FS_CardinalityType
    <3> QED BY <1>1, <2>4, <2>5, <2>6, <3>1, <3>2, <3>3 DEF Account
  <2> QED BY <1>0, <2>1, <2>3, <2>5, <2>7, <2>8, AccountsKeepInv DEF TypeOK, NoLoopsYet
<1>4. CASE PollWithoutTask(p)
  <2>1. at[p] = "polling" /\ ReleaseAndAcquire(p) /\ UNCHANGED << worker, callback >>
    BY <1>4 DEF PollWithoutTask
  <2>2. /\ value' \in Nat /\ line' \in Seq(Pollers) /\ woken' \subseteq Pollers
        /\ at' \in [Pollers -> {"created", "started", "waiting", "polling", "ended"}]
        /\ LineIsWaiting'
        /\ value' + Cardinality(woken') + Cardinality(Polling')
             = value + Cardinality(woken) + Cardinality(Polling)
    BY <1>0, <2>1, ReleaseAndAcquireAccounts
  <2>3. Executing' = Executing
    BY <2>1 DEF Executing
  <2>4. Account' = Account
    BY <2>2, <2>3 DEF Account
  <2> QED BY <1>0, <2>1, <2>2, <2>4, AccountsKeepInv DEF TypeOK, NoLoopsYet
<1>5. ASSUME NEW t \in Tasks, PollWithTask(p, t)
      PROVE  IInv'
  <2>1. /\ at[p] = "polling" /\ callback[t] = "queued" /\ Acquire(p, value)
        /\ callback' = [callback EXCEPT ![t] = "created"]
        /\ value \in Nat /\ worker' = worker
    BY <1>0, <1>5 DEF PollWithTask, TypeOK
  <2>2. /\ value' \in Nat /\ line' \in Seq(Pollers) /\ woken' = woken
        /\ at' \in [Pollers -> {"created", "started", "waiting", "polling", "ended"}]
        /\ LineIsWaiting'
        /\ value' + Cardinality(Polling') = value + Cardinality(Polling \ {p})
    BY <1>0, <2>1, AcquireAccounts
  <2>3. /\ Executing' = Executing \cup {t} /\ t \notin Executing
        /\ p \in Polling
    BY <1>0, <2>1 DEF Executing, Polling, TypeOK
  <2>4. Account' = Account
    <3>1. Cardinality(Executing') = Cardinality(Executing) + 1
      BY <1>1, <2>3, SetGains
    <3>2. /\ Cardinality(Polling \ {p}) \in Nat
          /\ Cardinality(Polling) = Cardinality(Polling \ {p}) + 1
      BY <1>1, <2>3, SetLoses
    <3>3. Cardinality(Polling') \in Nat
      BY <2>2, PollersAssumption, FS_Subset, FS_CardinalityType DEF Polling
    <3>4. /\ Cardinality(woken') = Cardinality(woken)
          /\ value' + Cardinality(Polling') + 1 = value + Cardinality(Polling)
      BY <2>1, <2>2, <3>2, <3>3
    <3>5. value + Cardinality(Polling) + Cardinality(Executing)
            = value' + Cardinality(Polling') + Cardinality(Executing')
      BY <1>1, <2>1, <2>2, <3>1, <3>3, <3>4
    <3>6. /\ value \in Nat /\ value' \in Nat
          /\ Cardinality(Polling') \in Nat /\ Cardinality(Executing') \in Nat
          /\ Cardinality(woken') = Cardinality(woken)
      BY <1>1, <2>1, <2>2, <3>1, <3>3, <3>4
    <3> QED BY <1>1, <3>5, <3>6 DEF Account
  <2> QED BY <1>0, <2>1, <2>2, <2>4, AccountsKeepInv DEF TypeOK, NoLoopsYet
<1> QED BY <1>2, <1>3, <1>4, <1>5

\* A cancelled loop may take its permit with it, but gives none back that was
\* not its own.
LEMMA CancelKeepsInv ==
    ASSUME IInv, NEW p \in Pollers, Cancel(p)
    PROVE  IInv'
<1>0. TypeOK /\ LineIsWaiting /\ NoLoopsYet
  BY DEF IInv
<1>1. /\ IsFiniteSet(woken) /\ Cardinality(woken) \in Nat
      /\ IsFiniteSet(Polling) /\ Cardinality(Polling) \in Nat
      /\ IsFiniteSet(Executing) /\ Cardinality(Executing) \in Nat
  BY <1>0, CountedAreFinite
<1>2. worker = "closed" /\ worker' = worker /\ at' = [at EXCEPT ![p] = "ended"]
  BY DEF Cancel
<1>3. at' \in [Pollers -> {"created", "started", "waiting", "polling", "ended"}]
  BY <1>0, <1>2 DEF TypeOK
<1>4. CASE CancelPolling(p)
  <2>1. at[p] = "polling" /\ UNCHANGED << value, line, woken >>
    BY <1>4 DEF CancelPolling, semaphore
  <2>2. /\ Polling' = Polling \ {p} /\ p \in Polling /\ Waiting' = Waiting
    BY <1>0, <1>2, <2>1 DEF Polling, Waiting, TypeOK
  <2>3. /\ callback' \in [Tasks -> {"queued", "created", "running", "done", "lost"}]
        /\ Executing' = Executing
    BY <1>0, <1>4 DEF CancelPolling, Executing, TypeOK
  <2>4. LineIsWaiting'
    BY <1>0, <2>1, <2>2 DEF LineIsWaiting, Waiting
  <2>5. /\ Cardinality(Polling \ {p}) \in Nat
        /\ Cardinality(Polling) = Cardinality(Polling \ {p}) + 1
    BY <1>1, <2>2, SetLoses
  <2>6. value \in Nat /\ Account' <= Account
    BY <1>0, <1>1, <2>1, <2>2, <2>3, <2>5 DEF Account, TypeOK
  <2> QED BY <1>0, <1>2, <1>3, <2>1, <2>3, <2>4, <2>6, AccountsKeepInv DEF TypeOK
<1>5. CASE CancelWaiting(p)
  <2> DEFINE rest == Without(line, p)
  <2>1. at[p] = "waiting" /\ line' = rest /\ callback' = callback
    BY <1>5 DEF CancelWaiting
  <2>2. Distinct(line) /\ Elements(line) = Waiting /\ woken \subseteq Waiting
    BY <1>0, LineAsElements
  <2>3. /\ rest \in Seq(Pollers) /\ Distinct(rest)
        /\ Elements(rest) = Elements(line) \ {p}
    BY <1>0, <2>1, <2>2, WithoutLeaves DEF TypeOK, Waiting
  <2>4. CancelWaiting(p) => IF p \in woken
                            THEN WakeNext(value + 1, rest, woken \ {p})
                            ELSE UNCHANGED << value, woken >>
    BY <2>1 DEF CancelWaiting
  <2> HIDE DEF rest
  <2>5. /\ Waiting' = Waiting \ {p} /\ Polling' = Polling /\ Executing' = Executing
    BY <1>0, <1>2, <2>1 DEF Waiting, Polling, Executing, TypeOK
  <2>6. /\ value' \in Nat /\ woken' \subseteq Pollers
        /\ value' + Cardinality(woken') = value + Cardinality(woken)
        /\ woken' \subseteq Waiting'
    <3>1. CASE p \in woken
      <4>1. woken \ {p} \in SUBSET Pollers /\ value + 1 \in Nat /\ value \in Nat
        BY <1>0 DEF TypeOK
      <4>2. /\ value' \in Nat /\ woken' \subseteq Pollers
            /\ value' + Cardinality(woken') = value + 1 + Cardinality(woken \ {p})
            /\ woken' \subseteq (woken \ {p}) \cup Elements(rest)
        BY <1>5, <2>3, <2>4, <3>1, <4>1, WakeNextHandsOver DEF Elements
      <4>3. /\ Cardinality(woken \ {p}) \in Nat
            /\ Cardinality(woken) = Cardinality(woken \ {p}) + 1
        BY <1>1, <3>1, SetLoses
      <4>4. woken' \subseteq Waiting'
        BY <2>2, <2>3, <2>5, <4>2
      <4> QED BY <4>1, <4>2, <4>3, <4>4
    <3>2. CASE p \notin woken
      BY <1>0, <1>5, <2>2, <2>4, <2>5, <3>2 DEF TypeOK
    <3> QED BY <3>1, <3>2
  <2>7. LineIsWaiting'
    <3>1. Distinct(line') /\ Elements(line') = Waiting' /\ woken' \subseteq Waiting'
      BY <2>1, <2>2, <2>3, <2>5, <2>6
    <3> QED BY <3>1 DEF LineIsWaiting, Distinct, Elements, Waiting
  <2>8. Account' = Account
    BY <2>5, <2>6 DEF Account
  <2> QED BY <1>0, <1>2, <1>3, <2>1, <2>3, <2>6, <2>7, <2>8, AccountsKeepInv DEF TypeOK
<1>6. CASE at[p] = "started" /\ UNCHANGED << semaphore, callback >>
  <2>1. /\ UNCHANGED << value, line, woken, callback >>
        /\ Waiting' = Waiting /\ Polling' = Polling /\ Executing' = Executing
    BY <1>0, <1>2, <1>6 DEF semaphore, Waiting, Polling, Executing, TypeOK
  <2>2. LineIsWaiting'
    BY <1>0, <2>1 DEF LineIsWaiting, Waiting
  <2>3. Account' = Account
    BY <2>1 DEF Account
  <2> QED BY <1>0, <1>2, <1>3, <2>1, <2>2, <2>3, AccountsKeepInv DEF TypeOK
<1> QED BY <1>4, <1>5, <1>6 DEF Cancel

\* The worker's and the callbacks' steps.
LEMMA OthersKeepInv ==
    ASSUME IInv,
           \/ Run \/ Close
           \/ \E t \in Tasks : StartCallback(t) \/ EndCallback(t)
    PROVE  IInv'
<1>0. TypeOK /\ LineIsWaiting /\ NoLoopsYet
  BY DEF IInv
<1>1. /\ IsFiniteSet(woken) /\ Cardinality(woken) \in Nat
      /\ IsFiniteSet(Polling) /\ Cardinality(Polling) \in Nat
      /\ IsFiniteSet(Executing) /\ Cardinality(Executing) \in Nat
  BY <1>0, CountedAreFinite
<1>2. CASE Run
  <2>1. /\ worker = "new" /\ worker' = "running"
        /\ UNCHANGED << value, line, woken, callback >>
        /\ at' = [q \in Pollers |-> "started"]
    BY <1>2 DEF Run, semaphore
  <2>2. /\ Waiting = {} /\ Polling = {}
        /\ Waiting' = {} /\ Polling' = {} /\ Executing' = Executing
    BY <1>0, <2>1 DEF NoLoopsYet, Waiting, Polling, Executing
  <2>3. LineIsWaiting'
    BY <1>0, <2>1, <2>2 DEF LineIsWaiting, Waiting
  <2>4. Account' = Account
    BY <2>1, <2>2 DEF Account
  <2> QED BY <1>0, <2>1, <2>3, <2>4, AccountsKeepInv DEF TypeOK
<1>3. CASE Close
  <2>1. /\ worker' = "closed" /\ worker = "running"
        /\ UNCHANGED << value, line, woken, at, callback >>
    BY <1>3 DEF Close, semaphore
  <2>2. LineIsWaiting'
    BY <1>0, <2>1 DEF LineIsWaiting
  <2>3. Account' = Account
    BY <2>1 DEF Account, Polling, Executing
  <2> QED BY <1>0, <2>1, <2>2, <2>3, AccountsKeepInv DEF TypeOK
<1>4. ASSUME NEW t \in Tasks, StartCallback(t)
      PROVE  IInv'
  <2>1. /\ callback[t] = "created" /\ callback' = [callback EXCEPT ![t] = "running"]
        /\ UNCHANGED << worker, value, line, woken, at >>
    BY <1>4 DEF StartCallback, semaphore
  <2>2. Executing' = Executing /\ Polling' = Polling
    BY <1>0, <2>1 DEF Executing, Polling, TypeOK
  <2>3. LineIsWaiting'
    BY <1>0, <2>1 DEF LineIsWaiting
  <2>4. Account' = Account
    BY <2>1, <2>2 DEF Account
  <2> QED BY <1>0, <2>1, <2>3, <2>4, AccountsKeepInv DEF TypeOK, NoLoopsYet
<1>5. ASSUME NEW t \in Tasks, EndCallback(t)
      PROVE  IInv'
  <2>1. /\ callback[t] = "running" /\ callback' = [callback EXCEPT ![t] = "done"]
        /\ WakeNext(value + 1, line, woken)
        /\ UNCHANGED << worker, line, at >>
        /\ value \in Nat /\ value + 1 \in Nat /\ woken \in SUBSET Pollers
    BY <1>0, <1>5 DEF EndCallback, TypeOK
  <2>2. /\ Executing' = Executing \ {t} /\ t \in Executing
        /\ Polling' = Polling /\ Waiting' = Waiting
    BY <1>0, <2>1 DEF Executing, Polling, Waiting, TypeOK
  <2>3. /\ value' \in Nat /\ woken' \subseteq Pollers
        /\ value' + Cardinality(woken') = value + 1 + Cardinality(woken)
        /\ woken' \subseteq woken \cup Elements(line)
    BY <1>0, <2>1, WakeNextHandsOver DEF Elements, TypeOK
  <2>4. LineIsWaiting'
    <3>1. Distinct(line) /\ Elements(line) = Waiting /\ woken \subseteq Waiting
      BY <1>0, LineAsElements
    <3> QED BY <2>1, <2>2, <2>3, <3>1 DEF LineIsWaiting, Distinct, Elements, Waiting
  <2>5. Account' = Account
    <3>1. /\ Cardinality(Executing \ {t}) \in Nat
          /\ Cardinality(Executing) = Cardinality(Executing \ {t}) + 1
      BY <1>1, <2>2, SetLoses
    <3>2. Cardinality(Polling') = Cardinality(Polling)
      BY <2>2
    <3>3. Cardinality(woken') \in Nat
      BY <2>3, PollersAssumption, FS_Subset, FS_CardinalityType
    <3> QED BY <1>1, <2>1, <2>2, <2>3, <3>1, <3>2, <3>3 DEF Account
  <2> QED BY <1>0, <2>1, <2>3, <2>4, <2>5, AccountsKeepInv DEF TypeOK, NoLoopsYet
<1> QED BY <1>2, <1>3, <1>4, <1>5

\* The invariant holds of every execution.
THEOREM Invariance == Spec => []IInv
<1>1. Init => IInv
  BY InitHasInv
<1>2. IInv /\ [Next]_vars => IInv'
  <2> SUFFICES ASSUME IInv, [Next]_vars
               PROVE  IInv'
    OBVIOUS
  <2>1. CASE UNCHANGED vars
    BY <2>1 DEF vars, semaphore, IInv, TypeOK, LineIsWaiting, PermitsAccounted,
                NoLoopsYet, Polling, Executing
  <2>2. CASE Next
    BY <2>2, LoopKeepsInv, CancelKeepsInv, OthersKeepInv DEF Next
  <2> QED BY <2>1, <2>2
<1> QED BY <1>1, <1>2, PTL DEF Spec

\* The semaphore's value stays between zero and its size and every loop and
\* callback in one of its states.
THEOREM TypeCorrect == Spec => []TypeOK
<1>1. IInv => TypeOK
  BY DEF IInv
<1> QED BY <1>1, Invariance, PTL

\* Every permit is accounted for: until the worker is closed none is lost, and
\* none is ever given back twice.
THEOREM PermitsAreAccounted == Spec => []PermitsAccounted
<1>1. IInv => PermitsAccounted
  BY DEF IInv
<1> QED BY <1>1, Invariance, PTL

-----------------------------------------------------------------------------
(* What is registered and what runs                                        *)

\* Every registration that returned is in the table of its kind.
In(table, definition) ==
    definition.name \in DOMAIN table /\ table[definition.name] = definition
Held(entry, as, ws) ==
    /\ entry = << entry[1], entry[2], entry[3] >>
    /\ entry[2] \in Registries
    /\ \/ entry[1] = "activity" /\ In(as[entry[2]], entry[3])
       \/ entry[1] = "workflow" /\ In(ws[entry[2]], entry[3])

IsTables(tables) == tables = [r \in Registries |-> tables[r]]

RegistryInv ==
    /\ IsTables(activities)
    /\ IsTables(workflows)
    /\ \A entry \in registered : Held(entry, activities, workflows)

\* What ran is what the worker's table holds under the name, whatever was
\* registered since.
CallInv ==
    /\ stage = "none" => by = Empty
    /\ stage = "scheduled" => by = Empty
    /\ stage # "none" => task.kind \in {"activity", "workflow"}
    /\ by # Empty => Known /\ by = << Found >>

Inv == RegistryInv /\ CallInv

-----------------------------------------------------------------------------
(* Tables                                                                  *)

LEMMA RegistersKeeps ==
    ASSUME NEW table, NEW definition, definition.name \notin DOMAIN table
    PROVE  /\ KeepsMeaning(table, Registers(table, definition))
           /\ In(Registers(table, definition), definition)
BY DEF KeepsMeaning, In, Registers, Updated

LEMMA KeepsIsReflexive == ASSUME NEW table PROVE KeepsMeaning(table, table)
BY DEF KeepsMeaning

LEMMA KeepsHolds ==
    ASSUME NEW before, NEW after, KeepsMeaning(before, after), NEW d, In(before, d)
    PROVE  In(after, d)
BY DEF KeepsMeaning, In

\* What a class adds has names the table did not know.
LEMMA TakenAreNew ==
    ASSUME NEW table, NEW object \in DOMAIN Objects, NEW d \in Taken(table, Objects[object])
    PROVE  d.name \notin DOMAIN table
<1> DEFINE found == Objects[object]
<1>1. PICK i \in DOMAIN found : d = found[i] /\ \A j \in Refused(table, found) : i < j
  BY DEF Taken
<1>2. i \in Nat
  <2>1. found \in Seq({found[k] : k \in DOMAIN found})
    BY ObjectsAssumption
  <2> HIDE DEF found
  <2>2. DOMAIN found = 1..Len(found)
    BY <2>1
  <2> QED
    BY <1>1, <2>1, <2>2
<1>3. i \notin Refused(table, found)
  BY <1>1, <1>2
<1> QED
  BY <1>1, <1>3 DEF Refused, IsNew

\* When nothing is refused, no two of them share a name.
LEMMA TakenAreDistinct ==
    ASSUME NEW table, NEW object \in DOMAIN Objects,
           Refused(table, Objects[object]) = {},
           NEW d \in Taken(table, Objects[object]),
           NEW e \in Taken(table, Objects[object]), d.name = e.name
    PROVE  d = e
<1> DEFINE found == Objects[object]
<1>1. PICK i \in DOMAIN found : d = found[i]
  BY DEF Taken
<1>2. PICK j \in DOMAIN found : e = found[j]
  BY DEF Taken
<1>3. i \in Nat \ {0} /\ j \in Nat \ {0}
  <2>1. found \in Seq({found[k] : k \in DOMAIN found})
    BY ObjectsAssumption
  <2> HIDE DEF found
  <2>2. DOMAIN found = 1..Len(found)
    BY <2>1
  <2> QED
    BY <1>1, <1>2, <2>1, <2>2
<1>4. ~(i < j) /\ ~(j < i)
  BY <1>1, <1>2, <1>3 DEF Refused
<1> QED
  BY <1>1, <1>2, <1>3, <1>4

-----------------------------------------------------------------------------
(* Steps of the registries                                                 *)

\* A step that changes tables only by adding names, and registers what is in them.
Adds ==
    /\ IsTables(activities') /\ IsTables(workflows')
    /\ \A r \in Registries : /\ KeepsMeaning(activities[r], activities'[r])
                             /\ KeepsMeaning(workflows[r], workflows'[r])
    /\ \A entry \in registered' :
        entry \in registered \/ Held(entry, activities', workflows')

LEMMA AddsKeepsInv ==
    ASSUME RegistryInv, Adds
    PROVE  RegistryInv'
<1> SUFFICES ASSUME NEW entry \in registered' PROVE Held(entry, activities', workflows')
  BY DEF RegistryInv, Adds
<1>1. CASE entry \in registered
  <2>1. Held(entry, activities, workflows)
    BY <1>1 DEF RegistryInv
  <2> QED
    BY <2>1, KeepsHolds DEF Held, Adds
<1>2. CASE Held(entry, activities', workflows')
  BY <1>2
<1> QED
  BY <1>1, <1>2 DEF Adds

LEMMA UnchangedAdds ==
    ASSUME RegistryInv, UNCHANGED registries
    PROVE  Adds
BY KeepsIsReflexive DEF RegistryInv, Adds, registries

LEMMA register_activityAdds ==
    ASSUME RegistryInv, NEW r \in Registries, NEW d, register_activity(r, d)
    PROVE  Adds
<1> USE DEF register_activity, RegistryInv
<1>1. d.name \notin DOMAIN activities[r]
  BY DEF IsNew
<1>2. /\ KeepsMeaning(activities[r], Registers(activities[r], d))
      /\ In(Registers(activities[r], d), d)
  BY <1>1, RegistersKeeps
<1>3. /\ activities'[r] = Registers(activities[r], d)
      /\ \A q \in Registries : q # r => activities'[q] = activities[q]
  BY DEF IsTables
<1>4. IsTables(activities') /\ IsTables(workflows')
  BY DEF IsTables
<1>5. \A q \in Registries : /\ KeepsMeaning(activities[q], activities'[q])
                            /\ KeepsMeaning(workflows[q], workflows'[q])
  BY <1>2, <1>3, KeepsIsReflexive
<1>6. Held(<< "activity", r, d >>, activities', workflows')
  BY <1>2, <1>3 DEF Held
<1> QED
  BY <1>4, <1>5, <1>6 DEF Adds

LEMMA register_workflowAdds ==
    ASSUME RegistryInv, NEW r \in Registries, NEW cls, NEW name,
           register_workflow(r, cls, name)
    PROVE  Adds
<1> DEFINE d == Wrapped(cls, name)
<1>0. /\ IsNew(workflows[r], d.name)
      /\ workflows' = [workflows EXCEPT ![r] = Registers(@, d)]
      /\ registered' = registered \cup {<< "workflow", r, d >>}
      /\ UNCHANGED activities
  BY DEF register_workflow
<1> HIDE DEF d
<1> USE DEF RegistryInv
<1>1. d.name \notin DOMAIN workflows[r]
  BY <1>0 DEF IsNew
<1>2. /\ KeepsMeaning(workflows[r], Registers(workflows[r], d))
      /\ In(Registers(workflows[r], d), d)
  BY <1>1, RegistersKeeps
<1>3. /\ workflows'[r] = Registers(workflows[r], d)
      /\ \A q \in Registries : q # r => workflows'[q] = workflows[q]
  BY <1>0 DEF IsTables
<1>4. IsTables(activities') /\ IsTables(workflows')
  BY <1>0 DEF IsTables
<1>5. \A q \in Registries : /\ KeepsMeaning(activities[q], activities'[q])
                            /\ KeepsMeaning(workflows[q], workflows'[q])
  BY <1>0, <1>2, <1>3, KeepsIsReflexive
<1>6. Held(<< "workflow", r, d >>, activities', workflows')
  BY <1>2, <1>3 DEF Held
<1> QED
  BY <1>0, <1>4, <1>5, <1>6 DEF Adds

LEMMA register_activitiesAdds ==
    ASSUME RegistryInv, NEW r \in Registries, NEW object \in DOMAIN Objects,
           register_activities(r, object)
    PROVE  Adds
<1> DEFINE taken == Taken(activities[r], Objects[object])
           table == Updated(activities[r],
               [name \in {d.name : d \in taken} |-> CHOOSE d \in taken : d.name = name])
<1>0. /\ activities' = [activities EXCEPT ![r] = table]
      /\ UNCHANGED workflows
      /\ registered' = IF Refused(activities[r], Objects[object]) # {} THEN registered
                       ELSE registered \cup {<< "activity", r, d >> : d \in taken}
  BY DEF register_activities
<1>1. \A d \in taken : d.name \notin DOMAIN activities[r]
  BY TakenAreNew
<1>2. KeepsMeaning(activities[r], table)
  BY <1>1 DEF KeepsMeaning, Updated
<1>3. Refused(activities[r], Objects[object]) = {} => \A d \in taken : In(table, d)
  <2> SUFFICES ASSUME Refused(activities[r], Objects[object]) = {}, NEW d \in taken
               PROVE  In(table, d)
    OBVIOUS
  <2>1. \A e \in taken : e.name = d.name => e = d
    BY TakenAreDistinct
  <2>2. (CHOOSE e \in taken : e.name = d.name) = d
    BY <2>1
  <2> QED
    BY <2>2 DEF In, Updated
<1>4. /\ activities'[r] = table
      /\ \A q \in Registries : q # r => activities'[q] = activities[q]
  BY <1>0 DEF IsTables, RegistryInv
<1> HIDE DEF table, taken
<1>5. IsTables(activities') /\ IsTables(workflows')
  BY <1>0 DEF IsTables, RegistryInv
<1>6. \A q \in Registries : /\ KeepsMeaning(activities[q], activities'[q])
                            /\ KeepsMeaning(workflows[q], workflows'[q])
  BY <1>0, <1>2, <1>4, KeepsIsReflexive
<1>7. \A entry \in registered' :
        entry \in registered \/ Held(entry, activities', workflows')
  <2> SUFFICES ASSUME NEW entry \in registered', entry \notin registered
               PROVE  Held(entry, activities', workflows')
    OBVIOUS
  <2>1. /\ Refused(activities[r], Objects[object]) = {}
        /\ \E d \in taken : entry = << "activity", r, d >>
    BY <1>0
  <2> QED
    BY <2>1, <1>3, <1>4 DEF Held
<1> QED
  BY <1>5, <1>6, <1>7 DEF Adds

LEMMA AddAdds ==
    ASSUME RegistryInv, NEW left \in Registries, NEW right \in Registries,
           NEW sum \in Registries, Add(left, right, sum)
    PROVE  Adds
<1> USE DEF Add
<1>1. /\ DOMAIN activities[sum] = {} /\ DOMAIN workflows[sum] = {}
      /\ sum # left /\ sum # right
  OBVIOUS
<1>2. /\ activities'[sum] = Updated(activities[left], activities[right])
      /\ workflows'[sum] = Updated(workflows[left], workflows[right])
      /\ \A q \in Registries : q # sum => /\ activities'[q] = activities[q]
                                          /\ workflows'[q] = workflows[q]
  BY DEF RegistryInv, IsTables
<1>3. IsTables(activities') /\ IsTables(workflows')
  BY DEF RegistryInv, IsTables
<1>4. \A q \in Registries : /\ KeepsMeaning(activities[q], activities'[q])
                            /\ KeepsMeaning(workflows[q], workflows'[q])
  BY <1>1, <1>2, KeepsIsReflexive DEF KeepsMeaning
<1>5. \A d : In(activities[left], d) \/ In(activities[right], d) => In(activities'[sum], d)
  BY <1>2 DEF Summable, In, Updated
<1>6. \A d : In(workflows[left], d) \/ In(workflows[right], d) => In(workflows'[sum], d)
  BY <1>2 DEF Summable, In, Updated
<1>7. \A entry \in registered' :
        entry \in registered \/ Held(entry, activities', workflows')
  <2> SUFFICES ASSUME NEW entry \in registered', entry \notin registered
               PROVE  Held(entry, activities', workflows')
    OBVIOUS
  <2>1. PICK e \in registered : e[2] \in {left, right} /\ entry = << e[1], sum, e[3] >>
    OBVIOUS
  <2>2. Held(e, activities, workflows)
    BY DEF RegistryInv
  <2> QED
    BY <2>1, <2>2, <1>5, <1>6 DEF Held
<1> QED
  BY <1>3, <1>4, <1>7 DEF Adds

LEMMA RegisteringAdds ==
    ASSUME RegistryInv, Registering
    PROVE  Adds
BY register_activityAdds, register_activitiesAdds, register_workflowAdds, AddAdds
DEF Registering

-----------------------------------------------------------------------------
(* Steps of the call                                                       *)

\* Whatever is added to the tables, what ran is still what they hold.
LEMMA AddsKeepsCallInv ==
    ASSUME Inv, Adds, UNCHANGED call
    PROVE  CallInv'
<1> SUFFICES ASSUME by # Empty PROVE (Known /\ by = << Found >>)'
  BY DEF Inv, CallInv, call
<1>1. Known /\ by = << Found >>
  BY DEF Inv, CallInv
<1>2. KeepsMeaning(Table, Table')
  BY ServedAssumption DEF Adds, Table, call
<1> QED
  BY <1>1, <1>2 DEF Known, Found, KeepsMeaning, call

LEMMA CallStepKeepsCallInv ==
    ASSUME Inv, Calling \/ Serving \/ Take
    PROVE  CallInv' /\ UNCHANGED registries
<1>1. ASSUME NEW kind \in {"activity", "workflow"}, NEW definition, NEW args, NEW kwargs,
             NEW values, Scheduled(kind, definition, args, kwargs, values)
      PROVE  CallInv' /\ UNCHANGED registries
  <2>1. /\ stage' = "scheduled" /\ task'.kind = kind /\ by' = by /\ by = Empty
        /\ UNCHANGED registries
    BY <1>1 DEF Scheduled, Inv, CallInv
  <2> QED
    BY <2>1 DEF CallInv
<1>2. CASE Calling
  BY <1>1, <1>2 DEF Calling, Execute, StartWorkflow
<1>3. CASE Handle
  <2>1. /\ Known /\ by' = << Found >> /\ stage = "scheduled" /\ stage' = "ran"
        /\ UNCHANGED << registries, task >>
    BY <1>3 DEF Handle
  <2>2. Table' = Table
    BY <2>1 DEF Table, registries
  <2>3. Known' /\ Found' = Found
    BY <2>1, <2>2 DEF Known, Found
  <2> QED
    BY <2>1, <2>3 DEF Inv, CallInv
<1>4. CASE HandleFails \/ Return \/ Fail \/ Complete
  <2>1. /\ stage # "none" /\ stage' \notin {"none", "scheduled"}
        /\ UNCHANGED << registries, task, by >>
    BY <1>4 DEF HandleFails, Return, Fail, Complete
  <2>2. Table' = Table
    BY <2>1 DEF Table, registries
  <2>3. Known' = Known /\ Found' = Found
    BY <2>1, <2>2 DEF Known, Found
  <2> QED
    BY <2>1, <2>3 DEF Inv, CallInv
<1>5. CASE Take
  BY <1>5 DEF Take, CallInv
<1> QED
  BY <1>2, <1>3, <1>4, <1>5 DEF Serving

LEMMA InvIsInductive ==
    ASSUME Inv, [ApplicationNext]_applicationVars
    PROVE  Inv' /\ Adds
<1>1. CASE Registering /\ UNCHANGED << converter, call >>
  BY <1>1, RegisteringAdds, AddsKeepsInv, AddsKeepsCallInv DEF Inv
<1>2. CASE Calling \/ Serving \/ Take
  BY <1>2, CallStepKeepsCallInv, UnchangedAdds, AddsKeepsInv DEF Inv
<1>3. CASE UNCHANGED applicationVars
  <2>1. UNCHANGED registries /\ UNCHANGED call
    BY <1>3 DEF applicationVars
  <2> QED
    BY <2>1, UnchangedAdds, AddsKeepsInv, AddsKeepsCallInv DEF Inv
<1> QED
  BY <1>1, <1>2, <1>3 DEF ApplicationNext

LEMMA InitHoldsInv == ASSUME ApplicationInit PROVE Inv
BY DEF ApplicationInit, RegistryInit, Inv, RegistryInv, CallInv, IsTables

LEMMA ApplicationInvariance == ApplicationSpec => []Inv
<1>1. ApplicationInit => Inv
  BY InitHoldsInv
<1>2. Inv /\ [ApplicationNext]_applicationVars => Inv'
  BY InvIsInductive
<1> QED
  BY <1>1, <1>2, PTL DEF ApplicationSpec

-----------------------------------------------------------------------------
(* Results                                                                 *)

\* A name of a registry never changes its meaning, whatever is registered, refused
\* in the middle of a class (_registry.py:155) or added up (_registry.py:200).
THEOREM NamesAlwaysKeepMeaning == ApplicationSpec => NamesKeepMeaning
<1>1. Inv /\ [ApplicationNext]_applicationVars =>
        [\A r \in Registries : /\ KeepsMeaning(activities[r], activities'[r])
                               /\ KeepsMeaning(workflows[r], workflows'[r])]_registries
  BY InvIsInductive DEF Adds
<1> QED
  BY <1>1, ApplicationInvariance, PTL DEF ApplicationSpec, NamesKeepMeaning

\* A definition the worker's registry took runs when it is called, in every
\* application and whatever shares its name elsewhere (_registry.py:163).
THEOREM CallsReachTheirOwn == ApplicationSpec => []ServedByItsOwn
<1>1. Inv => ServedByItsOwn
  <2> SUFFICES ASSUME Inv, Ran, << task.kind, Served, task.definition >> \in registered
               PROVE  by = << task.definition >>
    BY DEF ServedByItsOwn
  <2>1. Known /\ by = << Found >>
    BY DEF Inv, CallInv, Ran
  <2>2. Held(<< task.kind, Served, task.definition >>, activities, workflows)
    BY DEF Inv, RegistryInv
  <2>3. Found = task.definition
    BY <2>2 DEF Held, In, Found, Table
  <2> QED
    BY <2>1, <2>3
<1> QED
  BY <1>1, ApplicationInvariance, PTL
=============================================================================
