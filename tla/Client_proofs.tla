----------------------------- MODULE Client_proofs -----------------------------
(***************************************************************************)
(* That a client's calls keep to their deadlines and attempts, have their  *)
(* effect once, and are in effect, in order, once they are answered: for   *)
(* any number of calls, any policy and any service that executes what it   *)
(* was sent whenever it likes.                                             *)
(***************************************************************************)
EXTENDS Client, TLAPS

-----------------------------------------------------------------------------
(* One call: RpcRetry, which holds of every call of a client too.          *)

\* Every wait is over by the deadline, or over already.
WaitsInv ==
    /\ stage = "started" => now = 0
    /\ stage = "calling" => until <= Expiration
    /\ stage = "sleeping" => until < Expiration

\* An attempt that was made has failed, but for the one on its way, and those
\* that may still be made are within the bound.
AttemptsInv ==
    /\ stage = "started" => attempts = 0
    /\ stage \in {"calling", "succeeded"} => sent = attempts + 1
    /\ stage \in {"started", "sleeping", "failed"} => sent = attempts
    /\ AttemptsBounded
    /\ stage \in {"calling", "sleeping"} /\ MaxAttempts # 0 => attempts < MaxAttempts

IInv == TypeOK /\ WaitsInv /\ AttemptsInv /\ EndsInTime /\ GivesUpLate

\* A delay is never longer than the longest.
LEMMA BackoffIsCapped ==
    ASSUME NEW n
    PROVE  Backoff(n) \in 0..MaxInterval
  BY DurationsAssumption DEF Backoff

\* Errors are of the classes and have the fields they should have.
LEMMA ErrorsHaveType ==
    ASSUME NEW s \in Statuses \cup {DeadlineExceeded}
    PROVE  map_error(s) \in [class: MappedDetails \cup {"CadenceRpcError"}, code: StatusCodes,
                             current: Clusters, active: Clusters]
<1>1. DeadlineExceeded \in [code: StatusCodes, detail: {"none", "other"} \cup MappedDetails,
                            current: Clusters, active: Clusters]
  BY ClustersAssumption DEF DeadlineExceeded, StatusCodes
<1>2. s \in [code: StatusCodes, detail: {"none", "other"} \cup MappedDetails,
             current: Clusters, active: Clusters]
  BY <1>1, StatusesAssumption
<1> QED BY <1>2 DEF map_error

\* A call that was just made.
LEMMA InitHasInv == Init => IInv
  BY DurationsAssumption, BoundsAssumption
  DEF Init, IInv, TypeOK, WaitsInv, AttemptsInv, AttemptsBounded, EndsInTime,
      GivesUpLate, Active

\* A failed attempt: what follows is a sleep that ends before the deadline, or
\* the end.
LEMMA FailureKeepsInv ==
    ASSUME IInv, NEW s \in Statuses \cup {DeadlineExceeded}, FailWith(s)
    PROVE  IInv'
<1> DEFINE n == attempts + 1
           d == Backoff(n)
<1>1. /\ n \in Nat /\ d \in 0..MaxInterval
      /\ now \in Nat /\ lag \in Nat /\ until \in Nat /\ sent = n
      /\ now <= Expiration + lag
      /\ MaxAttempts # 0 => attempts < MaxAttempts /\ sent <= MaxAttempts
  BY BackoffIsCapped, DurationsAssumption, BoundsAssumption
  DEF IInv, TypeOK, AttemptsInv, AttemptsBounded, EndsInTime, Active, FailWith
<1>2. /\ now' = now /\ lag' = lag /\ sent' = sent /\ attempts' = n
      /\ method' = method /\ err' = map_error(s)
  BY DEF FailWith
<1> HIDE DEF n, d
<1>3. TypeOK'
  <2>1. until' \in Nat /\ stage' \in {"sleeping", "failed"}
    BY <1>1, DurationsAssumption DEF FailWith, n, d
  <2> QED BY <1>1, <1>2, <2>1, ErrorsHaveType DEF IInv, TypeOK
<1>4. CASE is_retryable(map_error(s)) /\ HasNextDelay(n)
  <2>1. stage' = "sleeping" /\ until' = now + d
    BY <1>4 DEF FailWith, n, d
  <2>2. now + d < Expiration /\ (MaxAttempts = 0 \/ n < MaxAttempts)
    BY <1>4 DEF HasNextDelay, d
  <2> QED BY <1>1, <1>2, <1>3, <2>1, <2>2
          DEF IInv, WaitsInv, AttemptsInv, AttemptsBounded, EndsInTime, GivesUpLate, Active
<1>5. CASE ~(is_retryable(map_error(s)) /\ HasNextDelay(n))
  <2>1. stage' = "failed"
    BY <1>5 DEF FailWith, n
  <2>2. is_retryable(err)' => is_retryable(map_error(s))
    BY <1>2 DEF is_retryable
  <2>3. GivesUpLate'
    <3> SUFFICES ASSUME is_retryable(map_error(s)), MaxAttempts = 0 \/ n < MaxAttempts
                 PROVE  now + MaxInterval >= Expiration
      BY <1>2, <2>2 DEF GivesUpLate
    <3>1. ~(now < Expiration) \/ ~(now + d < Expiration)
      BY <1>5 DEF HasNextDelay, d
    <3> QED BY <1>1, <3>1, DurationsAssumption
  <2> QED BY <1>1, <1>2, <1>3, <2>1, <2>3
          DEF IInv, WaitsInv, AttemptsInv, AttemptsBounded, EndsInTime, Active
<1> QED BY <1>4, <1>5

\* Time passes before the end of a wait, or on the loop's account.
LEMMA TickKeepsInv ==
    ASSUME IInv, Tick
    PROVE  IInv'
<1> USE DEF IInv, TypeOK, WaitsInv, AttemptsInv, AttemptsBounded
<1>1. TypeOK'
  BY BoundsAssumption DEF Tick
<1>2. EndsInTime'
  <2>1. CASE now < until
    BY <2>1, DurationsAssumption DEF Tick, EndsInTime, Active
  <2>2. CASE ~(now < until)
    BY <2>2, DurationsAssumption DEF Tick, EndsInTime, Active
  <2> QED BY <2>1, <2>2
<1> QED BY <1>1, <1>2 DEF Tick, GivesUpLate

\* Each step of a call.
LEMMA StepKeepsInv == IInv /\ [Next]_vars => IInv'
<1> SUFFICES ASSUME IInv, [Next]_vars
             PROVE  IInv'
  OBVIOUS
<1> USE DEF IInv, TypeOK, WaitsInv, AttemptsInv, AttemptsBounded, EndsInTime,
            GivesUpLate, Active
<1>1. CASE Attempt
  BY <1>1, DurationsAssumption, BoundsAssumption DEF Attempt, AttemptDue
<1>2. CASE Succeed
  BY <1>2 DEF Succeed
<1>3. CASE Fail
  BY <1>3, FailureKeepsInv DEF Fail
<1>4. CASE TimeOut
  BY <1>4, FailureKeepsInv DEF TimeOut
<1>5. CASE Cancel
  BY <1>5 DEF Cancel
<1>6. CASE Tick
  BY <1>6, TickKeepsInv
<1>7. CASE UNCHANGED vars
  BY <1>7 DEF vars, is_retryable
<1> QED BY <1>1, <1>2, <1>3, <1>4, <1>5, <1>6, <1>7 DEF Next

\* The invariant holds of every call.
THEOREM Invariance == Spec => []IInv
<1>1. Init => IInv
  BY InitHasInv
<1> QED BY <1>1, StepKeepsInv, PTL DEF Spec

\* The state of a call stays what its fields are declared to be.
THEOREM TypeCorrect == Spec => []TypeOK
<1>1. IInv => TypeOK
  BY DEF IInv
<1> QED BY <1>1, Invariance, PTL

\* The deadline holds for a call of any number of attempts.
THEOREM CallsEndInTime == Spec => []EndsInTime
<1>1. IInv => EndsInTime
  BY DEF IInv
<1> QED BY <1>1, Invariance, PTL

\* The policy's number of attempts holds.
THEOREM AttemptsAreBounded == Spec => []AttemptsBounded
<1>1. IInv => AttemptsBounded
  BY DEF IInv, AttemptsInv
<1> QED BY <1>1, Invariance, PTL

\* No call is given up while the longest delay would still fit.
THEOREM CallsGiveUpLate == Spec => []GivesUpLate
<1>1. IInv => GivesUpLate
  BY DEF IInv
<1> QED BY <1>1, Invariance, PTL

-----------------------------------------------------------------------------
(* The calls of a client, and the service that executes them.              *)

Effective == {"start", "signal", "signal_with_start"}
WorkflowIds ==
    {<< o.workflow_id >> : o \in Options} \cup {<< "unknown" >>, << >>}
        \cup {Uuid(n) : n \in Nat}
Requests == [kind: Effective \cup {"none", "history"}, workflow: WorkflowIds,
             run: Nat, request_id: Nat]
Answers == Refusals \cup {Done}

\* The client's and the service's variables.
CallsTypeOK ==
    /\ calls \in Seq(Requests)
    /\ outcomes \in Seq(MappedDetails \cup {"CadenceRpcError", "answered", "CancelledError",
                                            "ValueError"})
    /\ uuids \in Nat
    /\ wire \subseteq [call: Nat, request: Requests]
    /\ answer \in Seq(Answers)
    /\ runs \in Seq([workflow: WorkflowIds, request_id: Nat, call: Nat, open: BOOLEAN])
    /\ signals \in Seq([request_id: Nat, call: Nat])

\* A call is the last one until it has ended.
EndsInv == Len(calls) = Len(outcomes) + (IF Active THEN 1 ELSE 0)

\* Each call has a request_id of its own, and all its attempts carry it.
IdsInv ==
    /\ \A c \in DOMAIN calls : /\ calls[c].request_id <= uuids
                               /\ calls[c].kind \in Effective => calls[c].request_id > 0
    /\ \A c, d \in DOMAIN calls :
          /\ calls[c].kind \in Effective /\ calls[d].kind \in Effective
          /\ calls[c].request_id = calls[d].request_id
          => c = d
    /\ \A m \in wire : m.call \in DOMAIN calls /\ m.request = calls[m.call]

\* What the service has done it did for a call, or for somebody else.
OriginInv ==
    /\ \A i \in DOMAIN runs :
          \/ runs[i].call = 0
          \/ /\ runs[i].call \in DOMAIN calls
             /\ runs[i].request_id = calls[runs[i].call].request_id
             /\ calls[runs[i].call].kind \in {"start", "signal_with_start"}
             /\ calls[runs[i].call].kind = "signal_with_start" =>
                   \E j \in DOMAIN signals : signals[j].call = runs[i].call
    /\ \A i \in DOMAIN runs : runs[i].call = 0 => runs[i].request_id = 0
    /\ \A i \in DOMAIN signals :
          /\ signals[i].call \in DOMAIN calls
          /\ signals[i].request_id = calls[signals[i].call].request_id
          /\ calls[signals[i].call].kind \in {"signal", "signal_with_start"}

\* What a call is for.
Effect(c) ==
    /\ calls[c].kind = "start" => \E i \in DOMAIN runs : runs[i].call = c
    /\ calls[c].kind \in {"signal", "signal_with_start"} =>
          \E i \in DOMAIN signals : signals[i].call = c

\* An answer that is not a refusal means that the call is in effect.
AnswerInv == stage = "calling" /\ answer # << >> /\ answer[1] \notin Refusals
                => Effect(CurrentCall)

ClientInv ==
    /\ CallsTypeOK /\ EndsInv /\ IdsInv /\ OriginInv /\ EffectsOnce /\ AnswerInv
    /\ AnsweredInOrder

-----------------------------------------------------------------------------
\* An element of a sequence over a set, and what one more element leaves alone.
LEMMA SequencesHaveElements ==
    ASSUME NEW S, NEW s \in Seq(S)
    PROVE  \A i \in DOMAIN s : s[i] \in S
  OBVIOUS

LEMMA AppendKeepsElements ==
    ASSUME NEW S, NEW s \in Seq(S), NEW e \in S, NEW t, t = Append(s, e)
    PROVE  /\ t \in Seq(S) /\ Len(t) = Len(s) + 1 /\ t[Len(t)] = e
           /\ Len(t) \in DOMAIN t
           /\ \A i \in DOMAIN s : i \in DOMAIN t /\ t[i] = s[i] /\ i < Len(t)
           /\ \A i \in DOMAIN t : i \in DOMAIN s \/ i = Len(t)
<1>1. t \in Seq(S) /\ Len(t) = Len(s) + 1 /\ t[Len(s) + 1] = e /\ Len(s) \in Nat
  OBVIOUS
<1>2. DOMAIN s = 1..Len(s) /\ DOMAIN t = 1..(Len(s) + 1)
  BY <1>1
<1>3. \A n \in Nat : /\ n + 1 \in 1..(n + 1)
                     /\ \A i \in 1..n : i \in 1..(n + 1) /\ i < n + 1
                     /\ \A i \in 1..(n + 1) : i \in 1..n \/ i = n + 1
  OBVIOUS
<1>4. \A i \in 1..Len(s) : t[i] = s[i]
  OBVIOUS
<1> QED BY <1>1, <1>2, <1>3, <1>4

\* A request that is drawn behind all others keeps the ids apart, and changes
\* nothing of what earlier calls did.
LEMMA NewCallKeepsInv ==
    ASSUME ClientInv, NEW q \in Requests, calls' = Append(calls, q),
           uuids' \in Nat, uuids' >= uuids, q.request_id <= uuids',
           q.kind \in Effective => q.request_id > uuids,
           UNCHANGED << wire, runs, signals >>
    PROVE  /\ calls' \in Seq(Requests) /\ Len(calls') = Len(calls) + 1
           /\ \A c \in DOMAIN calls : c \in DOMAIN calls' /\ calls'[c] = calls[c]
           /\ IdsInv' /\ OriginInv' /\ EffectsOnce'
<1> USE DEF ClientInv, CallsTypeOK
<1>1. /\ calls' \in Seq(Requests) /\ Len(calls') = Len(calls) + 1
      /\ DOMAIN calls = 1..Len(calls) /\ DOMAIN calls' = 1..(Len(calls) + 1)
      /\ Len(calls) \in Nat
  OBVIOUS
<1>2. /\ \A c \in DOMAIN calls : calls'[c] = calls[c]
      /\ calls'[Len(calls) + 1] = q
  BY <1>1
<1>3. \A c \in DOMAIN calls' : c \in DOMAIN calls \/ c = Len(calls) + 1
  <2>1. \A n \in Nat : \A c \in 1..(n + 1) : c \in 1..n \/ c = n + 1
    OBVIOUS
  <2> HIDE DEF CallsTypeOK, ClientInv
  <2> QED BY <1>1, <2>1
<1>4. \A c \in DOMAIN calls : calls[c] \in Requests
  OBVIOUS
<1>5. IdsInv'
  <2>1. \A c \in DOMAIN calls' : /\ calls'[c].request_id <= uuids'
                                 /\ calls'[c].kind \in Effective => calls'[c].request_id > 0
    BY <1>2, <1>3, <1>4 DEF IdsInv, Requests
  <2>2. ASSUME NEW c \in DOMAIN calls', NEW d \in DOMAIN calls',
               calls'[c].kind \in Effective, calls'[d].kind \in Effective,
               calls'[c].request_id = calls'[d].request_id
        PROVE  c = d
    <3>1. CASE c \in DOMAIN calls /\ d \in DOMAIN calls
      BY <1>2, <2>2, <3>1 DEF IdsInv
    <3>2. CASE c = Len(calls) + 1 /\ d \in DOMAIN calls
      BY <1>2, <1>4, <2>2, <3>2 DEF IdsInv, Requests
    <3>3. CASE d = Len(calls) + 1 /\ c \in DOMAIN calls
      BY <1>2, <1>4, <2>2, <3>3 DEF IdsInv, Requests
    <3> QED BY <1>3, <3>1, <3>2, <3>3
  <2>3. \A m \in wire' : m.call \in DOMAIN calls' /\ m.request = calls'[m.call]
    BY <1>1, <1>2 DEF IdsInv
  <2> QED BY <2>1, <2>2, <2>3 DEF IdsInv
<1>6. OriginInv'
  BY <1>1, <1>2 DEF OriginInv
<1> QED BY <1>1, <1>2, <1>5, <1>6 DEF EffectsOnce

\* A call that is sent, and one that raises at once.
LEMMA InvokeKeepsInv ==
    ASSUME ClientInv, Idle, NEW q \in Requests, NEW m, calls' = Append(calls, q),
           uuids' \in Nat, uuids' >= uuids, q.request_id <= uuids',
           q.kind \in Effective => q.request_id > uuids, Invoke(m)
    PROVE  ClientInv'
<1> USE DEF ClientInv
<1>1. UNCHANGED << wire, runs, signals, outcomes >> /\ answer' = << >> /\ stage' = "started"
  BY DEF Invoke, serviceVars
<1>2. /\ calls' \in Seq(Requests) /\ Len(calls') = Len(calls) + 1
      /\ \A c \in DOMAIN calls : c \in DOMAIN calls' /\ calls'[c] = calls[c]
      /\ IdsInv' /\ OriginInv' /\ EffectsOnce'
  BY <1>1, NewCallKeepsInv
<1>3. CallsTypeOK'
  BY <1>1, <1>2 DEF CallsTypeOK
<1>4. EndsInv'
  BY <1>1, <1>2 DEF EndsInv, Idle, Active, CallsTypeOK
<1>5. \A c \in DOMAIN outcomes : c \in DOMAIN calls
  BY DEF EndsInv, Idle, CallsTypeOK
<1>6. AnsweredInOrder' /\ AnswerInv'
  BY <1>1, <1>2, <1>5 DEF AnsweredInOrder, AnswerInv
<1> QED BY <1>2, <1>3, <1>4, <1>6

LEMMA RaiseKeepsInv ==
    ASSUME ClientInv, RaiseValueError
    PROVE  ClientInv'
<1> USE DEF ClientInv
<1> DEFINE q == Request("none", << >>, NoRun, 0)
<1>1. /\ UNCHANGED << wire, runs, signals, uuids, answer, stage >>
      /\ outcomes' = Append(outcomes, "ValueError") /\ calls' = Append(calls, q) /\ ~Active
  BY DEF RaiseValueError, serviceVars, rpcVars, Idle
<1>2. q \in Requests /\ q.kind \notin Effective /\ q.request_id = 0
  BY DEF Requests, Request, NoRun, WorkflowIds, Effective
<1>3. /\ calls' \in Seq(Requests) /\ Len(calls') = Len(calls) + 1
      /\ \A c \in DOMAIN calls : c \in DOMAIN calls' /\ calls'[c] = calls[c]
      /\ IdsInv' /\ OriginInv' /\ EffectsOnce'
  <2> HIDE DEF q
  <2>1. uuids' \in Nat /\ uuids' >= uuids /\ q.request_id <= uuids'
    BY <1>1, <1>2 DEF CallsTypeOK
  <2> QED BY <1>1, <1>2, <2>1, NewCallKeepsInv
<1>4. CallsTypeOK'
  BY <1>1, <1>3 DEF CallsTypeOK
<1>5. EndsInv' /\ AnswerInv'
  BY <1>1, <1>3 DEF EndsInv, AnswerInv, Active, CallsTypeOK
<1>6. AnsweredInOrder'
  <2>1. /\ DOMAIN outcomes = DOMAIN calls
        /\ \A c \in DOMAIN outcomes' :
              \/ c \in DOMAIN outcomes /\ outcomes'[c] = outcomes[c]
              \/ outcomes'[c] = "ValueError"
    BY <1>1 DEF EndsInv, CallsTypeOK
  <2>2. ASSUME NEW c \in DOMAIN outcomes', outcomes'[c] = "answered"
        PROVE  c \in DOMAIN outcomes /\ outcomes[c] = "answered" /\ calls'[c] = calls[c]
    BY <1>3, <2>1, <2>2
  <2> QED BY <1>1, <2>2 DEF AnsweredInOrder
<1> QED BY <1>3, <1>4, <1>5, <1>6

\* Building a request draws fresh uuids.
LEMMA BuildDrawsIds ==
    ASSUME ClientInv, NEW k \in {"start", "signal_with_start"},
           NEW o, o.workflow_id \in {p.workflow_id : p \in Options},
           _build_start_workflow_request(k, o)
    PROVE  \E q \in Requests :
               /\ calls' = Append(calls, q) /\ uuids' \in Nat /\ uuids' >= uuids
               /\ q.request_id <= uuids' /\ q.request_id > uuids
<1> DEFINE drawn == IF o.workflow_id = "" THEN 1 ELSE 0
           q == Request(k, WorkflowId(o), NoRun, uuids + drawn + 1)
<1>1. uuids \in Nat /\ drawn \in {0, 1}
  BY DEF ClientInv, CallsTypeOK
<1>2. WorkflowId(o) \in WorkflowIds
  <2>1. uuids + 1 \in Nat
    BY <1>1
  <2>2. CASE o.workflow_id = ""
    BY <2>1, <2>2 DEF WorkflowId, WorkflowIds
  <2>3. CASE o.workflow_id # ""
    BY <2>3 DEF WorkflowId, WorkflowIds
  <2> QED BY <2>2, <2>3
<1>3. q \in Requests
  <2> HIDE DEF drawn
  <2>1. uuids + drawn + 1 \in Nat
    BY <1>1
  <2> QED BY <1>2, <2>1 DEF Requests, Request, Effective, NoRun
<1>4. calls' = Append(calls, q) /\ uuids' = uuids + drawn + 1
  BY DEF _build_start_workflow_request
<1>5. q.request_id = uuids + drawn + 1
  BY DEF Request
<1> HIDE DEF q, drawn
<1>6. uuids' \in Nat /\ uuids' >= uuids /\ q.request_id <= uuids' /\ q.request_id > uuids
  BY <1>1, <1>4, <1>5
<1> QED BY <1>3, <1>4, <1>6

LEMMA CallsKeepInv ==
    ASSUME ClientInv, Calls
    PROVE  ClientInv'
<1>1. CASE RaiseValueError
  BY <1>1, RaiseKeepsInv
<1>2. ASSUME NEW o \in Options, NEW a, start_workflow(o, a)
      PROVE  ClientInv'
  <2> DEFINE d == _validate_and_apply_defaults(o)
  <2>1. d.workflow_id \in {p.workflow_id : p \in Options}
    BY OptionsAssumption DEF _validate_and_apply_defaults
  <2>2. Idle /\ _build_start_workflow_request("start", d) /\ Invoke("other")
    BY <1>2 DEF start_workflow
  <2> HIDE DEF d
  <2>3. PICK q \in Requests :
            /\ calls' = Append(calls, q) /\ uuids' \in Nat /\ uuids' >= uuids
            /\ q.request_id <= uuids' /\ q.request_id > uuids
    BY <2>1, <2>2, BuildDrawsIds
  <2> QED BY <2>2, <2>3, InvokeKeepsInv
<1>3. ASSUME NEW o \in Options, NEW a, NEW b, signal_with_start_workflow(o, a, b)
      PROVE  ClientInv'
  <2> DEFINE d == _validate_and_apply_defaults(o)
  <2>1. d.workflow_id \in {p.workflow_id : p \in Options}
    BY OptionsAssumption DEF _validate_and_apply_defaults
  <2>2. Idle /\ _build_start_workflow_request("signal_with_start", d) /\ Invoke("other")
    BY <1>3 DEF signal_with_start_workflow
  <2> HIDE DEF d
  <2>3. PICK q \in Requests :
            /\ calls' = Append(calls, q) /\ uuids' \in Nat /\ uuids' >= uuids
            /\ q.request_id <= uuids' /\ q.request_id > uuids
    BY <2>1, <2>2, BuildDrawsIds
  <2> QED BY <2>2, <2>3, InvokeKeepsInv
<1>4. ASSUME NEW w \in WorkflowIds, NEW run \in Nat, NEW a, signal_workflow(w, run, a)
      PROVE  ClientInv'
  <2> DEFINE q == Request("signal", w, run, uuids + 1)
  <2>1. uuids \in Nat
    BY DEF ClientInv, CallsTypeOK
  <2>2. q \in Requests /\ q.request_id = uuids + 1
    BY <2>1 DEF Requests, Request, Effective
  <2>3. Idle /\ calls' = Append(calls, q) /\ uuids' = uuids + 1 /\ Invoke("other")
    BY <1>4 DEF signal_workflow
  <2> HIDE DEF q
  <2>4. uuids' \in Nat /\ uuids' >= uuids /\ q.request_id <= uuids' /\ q.request_id > uuids
    BY <2>1, <2>2, <2>3
  <2> QED BY <2>2, <2>3, <2>4, InvokeKeepsInv
<1>5. CASE GetWorkflowExecutionHistory
  <2> DEFINE q == Request("history", << >>, NoRun, 0)
  <2>1. uuids \in Nat
    BY DEF ClientInv, CallsTypeOK
  <2>2. q \in Requests /\ q.request_id = 0 /\ q.kind \notin Effective
    BY DEF Requests, Request, Effective, NoRun, WorkflowIds
  <2>3. /\ Idle /\ calls' = Append(calls, q) /\ uuids' = uuids
        /\ Invoke("GetWorkflowExecutionHistory")
    BY <1>5 DEF GetWorkflowExecutionHistory
  <2> HIDE DEF q
  <2> QED BY <2>1, <2>2, <2>3, InvokeKeepsInv
<1>6. \A i \in DOMAIN runs : runs[i].workflow \in WorkflowIds /\ i \in Nat
  <2>1. runs \in Seq([workflow: WorkflowIds, request_id: Nat, call: Nat, open: BOOLEAN])
    BY DEF ClientInv, CallsTypeOK
  <2>2. DOMAIN runs = 1..Len(runs) /\ Len(runs) \in Nat
    BY <2>1
  <2>3. \A i \in DOMAIN runs :
            runs[i] \in [workflow: WorkflowIds, request_id: Nat, call: Nat, open: BOOLEAN]
    BY <2>1, SequencesHaveElements
  <2> QED BY <2>2, <2>3
<1>7. << "unknown" >> \in WorkflowIds /\ NoRun \in Nat
  BY DEF WorkflowIds, NoRun
<1> QED BY <1>1, <1>2, <1>3, <1>4, <1>5, <1>6, <1>7 DEF Calls

-----------------------------------------------------------------------------
\* An attempt that is sent carries its call's request.
LEMMA SendKeepsInv ==
    ASSUME ClientInv, SendAttempt
    PROVE  ClientInv'
<1> USE DEF ClientInv
<1>1. /\ UNCHANGED << calls, outcomes, uuids, runs, signals >>
      /\ answer' = << >> /\ stage' = "calling" /\ AttemptDue
      /\ wire' = wire \cup {[call |-> CurrentCall, request |-> SentRequest]}
  BY DEF SendAttempt, serviceVars, Attempt
<1>2. Active
  BY <1>1 DEF AttemptDue, Active
<1>3. Len(calls) \in DOMAIN calls /\ Len(calls) \in Nat /\ SentRequest = calls[Len(calls)]
  BY <1>2 DEF EndsInv, CallsTypeOK, SentRequest, CurrentCall
<1>4. calls[Len(calls)] \in Requests
  BY <1>3, SequencesHaveElements DEF CallsTypeOK
<1>5. CallsTypeOK' /\ IdsInv'
  BY <1>1, <1>3, <1>4 DEF CallsTypeOK, IdsInv, CurrentCall
<1>6. EndsInv'
  BY <1>1, <1>2 DEF EndsInv, Active
<1> QED BY <1>1, <1>5, <1>6 DEF OriginInv, EffectsOnce, AnswerInv, AnsweredInOrder

\* What the client does with an answer or an error leaves the service alone.
LEMMA EndKeepsInv ==
    ASSUME ClientInv, UNCHANGED << calls, uuids, wire, runs, signals, answer >>,
           stage = "calling" \/ (Active /\ stage' = "cancelled"),
           \/ Active' /\ stage' # "calling" /\ UNCHANGED outcomes
           \/ /\ ~Active'
              /\ \E o \in MappedDetails \cup {"CadenceRpcError", "answered", "CancelledError",
                                            "ValueError"} :
                    /\ outcomes' = Append(outcomes, o)
                    /\ o = "answered" => stage = "calling" /\ answer # << >>
                                              /\ answer[1] \notin Refusals
    PROVE  ClientInv'
<1> USE DEF ClientInv
<1>1. Active
  BY DEF Active
<1>2. IdsInv' /\ OriginInv' /\ EffectsOnce'
  BY DEF IdsInv, OriginInv, EffectsOnce
<1>3. CASE Active' /\ stage' # "calling" /\ UNCHANGED outcomes
  BY <1>1, <1>2, <1>3 DEF CallsTypeOK, EndsInv, AnswerInv, AnsweredInOrder
<1>4. CASE ~Active'
  <2>1. PICK o \in MappedDetails \cup {"CadenceRpcError", "answered", "CancelledError",
                                       "ValueError"} :
            /\ outcomes' = Append(outcomes, o)
            /\ o = "answered" => stage = "calling" /\ answer # << >> /\ answer[1] \notin Refusals
    BY <1>1, <1>4
  <2> DEFINE S == MappedDetails \cup {"CadenceRpcError", "answered", "CancelledError",
                                      "ValueError"}
  <2>2. outcomes \in Seq(S)
    BY DEF CallsTypeOK
  <2>3. /\ outcomes' \in Seq(S) /\ Len(outcomes') = Len(outcomes) + 1
        /\ outcomes'[Len(outcomes')] = o
        /\ \A c \in DOMAIN outcomes : outcomes'[c] = outcomes[c]
        /\ \A c \in DOMAIN outcomes' : c \in DOMAIN outcomes \/ c = Len(outcomes')
    <3> HIDE DEF S
    <3> QED BY <2>1, <2>2, AppendKeepsElements DEF S
  <2>4. CallsTypeOK' /\ stage' # "calling"
    BY <1>4, <2>3 DEF CallsTypeOK, Active
  <2>5. EndsInv' /\ Len(outcomes') = Len(calls)
    BY <1>1, <1>4, <2>2, <2>3 DEF EndsInv, CallsTypeOK
  <2>6. AnsweredInOrder'
    <3> SUFFICES ASSUME NEW c \in DOMAIN outcomes', outcomes'[c] = "answered"
                 PROVE  /\ calls[c].kind = "start" => \E i \in DOMAIN runs : runs[i].call = c
                        /\ calls[c].kind \in {"signal", "signal_with_start"} =>
                              \E i \in DOMAIN signals :
                                 /\ signals[i].call = c
                                 /\ \A j \in 1..i : signals[j].call <= c
      BY DEF AnsweredInOrder
    <3>1. CASE c \in DOMAIN outcomes
      BY <2>3, <3>1 DEF AnsweredInOrder
    <3>2. CASE c = Len(outcomes')
      <4>1. c = Len(calls) /\ Effect(c)
        BY <2>1, <2>3, <2>5, <3>2 DEF AnswerInv, CurrentCall
      <4>2. \A j \in DOMAIN signals : signals[j].call <= c
        BY <4>1 DEF OriginInv, CallsTypeOK
      <4>3. \A i \in DOMAIN signals : \A j \in 1..i : j \in DOMAIN signals
        BY DEF CallsTypeOK
      <4> QED BY <4>1, <4>2, <4>3 DEF Effect
    <3> QED BY <2>3, <3>1, <3>2
  <2> QED BY <1>2, <2>4, <2>5, <2>6 DEF AnswerInv
<1> QED BY <1>3, <1>4

\* An attempt that fails is followed by another one or by the end of the call.
LEMMA FailureEnds ==
    ASSUME ClientInv, NEW s \in Statuses \cup {DeadlineExceeded}, FailWith(s), EndIfFailed,
           UNCHANGED << calls, uuids, wire, answer, serviceVars >>
    PROVE  ClientInv'
<1>1. stage = "calling" /\ stage' \in {"sleeping", "failed"} /\ err' = map_error(s)
  BY DEF FailWith
<1>2. err'.class \in MappedDetails \cup {"CadenceRpcError"}
  BY <1>1, ErrorsHaveType
<1>3. \/ Active' /\ stage' # "calling" /\ UNCHANGED outcomes
      \/ ~Active' /\ outcomes' = Append(outcomes, err'.class)
  BY <1>1 DEF Active, EndIfFailed, End
<1>4. err'.class # "answered"
  BY <1>2 DEF MappedDetails
<1> QED BY <1>1, <1>2, <1>3, <1>4, EndKeepsInv DEF serviceVars

LEMMA AnswersKeepInv ==
    ASSUME ClientInv, Answered \/ Refused \/ AttemptBreaks \/ CallerIsCancelled \/ TimePasses
    PROVE  ClientInv'
<1>1. CASE Answered
  <2>1. /\ stage = "calling" /\ stage' = "succeeded" /\ outcomes' = Append(outcomes, "answered")
        /\ answer # << >> /\ answer[1] \notin Refusals
        /\ UNCHANGED << calls, uuids, wire, runs, signals, answer >>
    BY <1>1 DEF Answered, Succeed, End, serviceVars
  <2> QED BY <2>1, EndKeepsInv DEF Active
<1>2. CASE Refused
  <2>1. answer[1] \in Statuses
    BY <1>2, RefusalsAssumption DEF Refused
  <2> QED BY <1>2, <2>1, FailureEnds DEF Refused
<1>3. CASE AttemptBreaks
  BY <1>3, FailureEnds DEF AttemptBreaks, TimeOut
<1>4. CASE CallerIsCancelled
  <2>1. /\ Active /\ stage' = "cancelled" /\ outcomes' = Append(outcomes, "CancelledError")
        /\ UNCHANGED << calls, uuids, wire, runs, signals, answer >>
    BY <1>4 DEF CallerIsCancelled, Cancel, End, serviceVars, Active
  <2> QED BY <2>1, EndKeepsInv DEF Active
<1>5. CASE TimePasses
  <2>1. UNCHANGED << stage, calls, outcomes, uuids, wire, answer, runs, signals >>
    BY <1>5 DEF TimePasses, Tick, serviceVars
  <2>2. CallsTypeOK' /\ EndsInv' /\ IdsInv'
    BY <2>1 DEF ClientInv, CallsTypeOK, EndsInv, IdsInv, Active
  <2>3. OriginInv' /\ EffectsOnce' /\ AnsweredInOrder'
    BY <2>1 DEF ClientInv, OriginInv, EffectsOnce, AnsweredInOrder
  <2>4. AnswerInv'
    BY <2>1 DEF ClientInv, AnswerInv, Effect, CurrentCall
  <2> QED BY <2>2, <2>3, <2>4 DEF ClientInv
<1> QED BY <1>1, <1>2, <1>3, <1>4, <1>5

-----------------------------------------------------------------------------
\* The service starts a run for a call that has none.
LEMMA StartRunKeepsInv ==
    ASSUME ClientInv, NEW m \in wire, StartRun(m),
           UNCHANGED << calls, outcomes, uuids, wire >>,
           m.request.kind \in {"start", "signal_with_start"},
           \A i \in DOMAIN runs : runs[i].call # m.call,
           m.request.kind = "signal_with_start" =>
               \E j \in DOMAIN signals' : signals'[j].call = m.call,
           \A j \in DOMAIN signals : j \in DOMAIN signals' /\ signals'[j] = signals[j]
    PROVE  /\ runs' \in Seq([workflow: WorkflowIds, request_id: Nat, call: Nat, open: BOOLEAN])
           /\ \A i \in DOMAIN runs : i \in DOMAIN runs' /\ runs'[i] = runs[i]
           /\ \E i \in DOMAIN runs' : runs'[i].call = m.call
           /\ \A i, j \in DOMAIN runs' : runs'[i].call = runs'[j].call => i = j
           /\ \A i \in DOMAIN runs' :
                 \/ runs'[i].call = 0
                 \/ /\ runs'[i].call \in DOMAIN calls
                    /\ runs'[i].request_id = calls[runs'[i].call].request_id
                    /\ calls[runs'[i].call].kind \in {"start", "signal_with_start"}
                    /\ calls[runs'[i].call].kind = "signal_with_start" =>
                          \E j \in DOMAIN signals' : signals'[j].call = runs'[i].call
           /\ \A i \in DOMAIN runs' : runs'[i].call = 0 => runs'[i].request_id = 0
<1> DEFINE R == [workflow: WorkflowIds, request_id: Nat, call: Nat, open: BOOLEAN]
           r == [workflow |-> m.request.workflow, request_id |-> m.request.request_id,
                 call |-> m.call, open |-> TRUE]
<1>1. m.call \in DOMAIN calls /\ m.request = calls[m.call] /\ m.request \in Requests
      /\ m.call \in Nat /\ m.call # 0
  BY DEF ClientInv, CallsTypeOK, IdsInv
<1>2. r \in R
  BY <1>1 DEF Requests
<1>3. runs \in Seq(R)
  BY DEF ClientInv, CallsTypeOK
<1>4. /\ r.call = m.call /\ r.request_id = m.request.request_id
      /\ runs' = Append(runs, r)
  BY DEF StartRun
<1> HIDE DEF R, r
<1>5. /\ runs' \in Seq(R) /\ Len(runs') \in DOMAIN runs' /\ runs'[Len(runs')] = r
      /\ \A i \in DOMAIN runs : i \in DOMAIN runs' /\ runs'[i] = runs[i]
      /\ \A i \in DOMAIN runs' : i \in DOMAIN runs \/ i = Len(runs')
  BY <1>2, <1>3, <1>4, AppendKeepsElements
<1>6. \A i, j \in DOMAIN runs' : runs'[i].call = runs'[j].call => i = j
  BY <1>4, <1>5 DEF ClientInv, EffectsOnce
<1>7. ASSUME NEW i \in DOMAIN runs'
      PROVE  /\ \/ runs'[i].call = 0
                \/ /\ runs'[i].call \in DOMAIN calls
                   /\ runs'[i].request_id = calls[runs'[i].call].request_id
                   /\ calls[runs'[i].call].kind \in {"start", "signal_with_start"}
                   /\ calls[runs'[i].call].kind = "signal_with_start" =>
                         \E j \in DOMAIN signals' : signals'[j].call = runs'[i].call
             /\ runs'[i].call = 0 => runs'[i].request_id = 0
  <2>1. CASE i \in DOMAIN runs
    BY <1>5, <2>1 DEF ClientInv, OriginInv
  <2>2. CASE i = Len(runs')
    BY <1>1, <1>4, <1>5, <2>2
  <2> QED BY <1>5, <2>1, <2>2
<1>8. runs' \in Seq([workflow: WorkflowIds, request_id: Nat, call: Nat, open: BOOLEAN])
  BY <1>5 DEF R
<1>9. \E i \in DOMAIN runs' : runs'[i].call = m.call
  BY <1>4, <1>5
<1> QED BY <1>5, <1>6, <1>7, <1>8, <1>9

\* The service records a signal that it does not have.
LEMMA RecordKeepsInv ==
    ASSUME ClientInv, NEW m \in wire, Record(m),
           m.request.kind \in {"signal", "signal_with_start"},
           \A i \in DOMAIN signals : signals[i].call # m.call
    PROVE  /\ signals' \in Seq([request_id: Nat, call: Nat])
           /\ \A i \in DOMAIN signals : i \in DOMAIN signals' /\ signals'[i] = signals[i]
           /\ \A i \in DOMAIN signals : \A j \in 1..i : j \in DOMAIN signals
           /\ \E i \in DOMAIN signals' : signals'[i].call = m.call
           /\ \A i, j \in DOMAIN signals' : signals'[i].call = signals'[j].call => i = j
           /\ \A i \in DOMAIN signals' :
                 /\ signals'[i].call \in DOMAIN calls
                 /\ signals'[i].request_id = calls[signals'[i].call].request_id
                 /\ calls[signals'[i].call].kind \in {"signal", "signal_with_start"}
<1> DEFINE R == [request_id: Nat, call: Nat]
           r == [request_id |-> m.request.request_id, call |-> m.call]
<1>1. m.call \in DOMAIN calls /\ m.request = calls[m.call] /\ m.request \in Requests
      /\ m.call \in Nat
  BY DEF ClientInv, CallsTypeOK, IdsInv
<1>2. r \in R
  BY <1>1 DEF Requests
<1>3. signals \in Seq(R)
  BY DEF ClientInv, CallsTypeOK
<1>4. /\ r.call = m.call /\ r.request_id = m.request.request_id
      /\ signals' = Append(signals, r)
  BY DEF Record
<1>5. \A i \in DOMAIN signals : \A j \in 1..i : j \in DOMAIN signals
  BY <1>3
<1> HIDE DEF R, r
<1>6. /\ signals' \in Seq(R) /\ Len(signals') \in DOMAIN signals' /\ signals'[Len(signals')] = r
      /\ \A i \in DOMAIN signals : i \in DOMAIN signals' /\ signals'[i] = signals[i]
      /\ \A i \in DOMAIN signals' : i \in DOMAIN signals \/ i = Len(signals')
  BY <1>2, <1>3, <1>4, AppendKeepsElements
<1>7. \A i, j \in DOMAIN signals' : signals'[i].call = signals'[j].call => i = j
  BY <1>4, <1>6 DEF ClientInv, EffectsOnce
<1>8. ASSUME NEW i \in DOMAIN signals'
      PROVE  /\ signals'[i].call \in DOMAIN calls
             /\ signals'[i].request_id = calls[signals'[i].call].request_id
             /\ calls[signals'[i].call].kind \in {"signal", "signal_with_start"}
  <2>1. CASE i \in DOMAIN signals
    BY <1>6, <2>1 DEF ClientInv, OriginInv
  <2>2. CASE i = Len(signals')
    BY <1>1, <1>4, <1>6, <2>2
  <2> QED BY <1>6, <2>1, <2>2
<1> QED BY <1>4, <1>5, <1>6, <1>7, <1>8 DEF R

\* What is put together from what the service did.
LEMMA ServedKeepsInv ==
    ASSUME ClientInv, UNCHANGED << stage, calls, outcomes, uuids, wire >>,
           runs' \in Seq([workflow: WorkflowIds, request_id: Nat, call: Nat, open: BOOLEAN]),
           signals' \in Seq([request_id: Nat, call: Nat]),
           \A i \in DOMAIN runs : i \in DOMAIN runs' /\ runs'[i].call = runs[i].call,
           \A i \in DOMAIN signals : i \in DOMAIN signals' /\ signals'[i] = signals[i],
           OriginInv', EffectsOnce',
           \/ UNCHANGED answer
           \/ \E reply \in Answers : /\ answer' = << reply >>
                                     /\ reply = Done => Effect(CurrentCall)'
    PROVE  ClientInv'
<1>1. CallsTypeOK'
  <2>1. \A reply \in Answers : << reply >> \in Seq(Answers)
    OBVIOUS
  <2>2. answer' \in Seq(Answers)
    <3> HIDE DEF Answers
    <3> QED BY <2>1 DEF ClientInv, CallsTypeOK
  <2> QED BY <2>2 DEF ClientInv, CallsTypeOK
<1>2. EndsInv' /\ IdsInv'
  BY DEF ClientInv, EndsInv, IdsInv, Active
<1>3. AnswerInv'
  <2>1. CASE UNCHANGED answer
    BY <2>1 DEF ClientInv, AnswerInv, Effect, CurrentCall
  <2>2. ASSUME NEW reply \in Answers, answer' = << reply >>,
               reply = Done => Effect(CurrentCall)'
        PROVE  AnswerInv'
    BY <2>2 DEF AnswerInv, Answers
  <2> QED BY <2>1, <2>2
<1>4. AnsweredInOrder'
  <2>1. \A i \in DOMAIN signals : \A j \in 1..i : j \in DOMAIN signals
    BY DEF ClientInv, CallsTypeOK
  <2> SUFFICES ASSUME NEW c \in DOMAIN outcomes, outcomes[c] = "answered"
               PROVE  /\ calls[c].kind = "start" => \E i \in DOMAIN runs' : runs'[i].call = c
                      /\ calls[c].kind \in {"signal", "signal_with_start"} =>
                            \E i \in DOMAIN signals' :
                               /\ signals'[i].call = c
                               /\ \A j \in 1..i : signals'[j].call <= c
    BY DEF AnsweredInOrder
  <2>2. calls[c].kind = "start" => \E i \in DOMAIN runs' : runs'[i].call = c
    BY DEF ClientInv, AnsweredInOrder
  <2>3. ASSUME calls[c].kind \in {"signal", "signal_with_start"}
        PROVE  \E i \in DOMAIN signals' :
                   signals'[i].call = c /\ \A j \in 1..i : signals'[j].call <= c
    <3>1. PICK i \in DOMAIN signals :
              signals[i].call = c /\ \A j \in 1..i : signals[j].call <= c
      BY <2>3 DEF ClientInv, AnsweredInOrder
    <3> QED BY <2>1, <3>1
  <2> QED BY <2>2, <2>3
<1> QED BY <1>1, <1>2, <1>3, <1>4 DEF ClientInv

LEMMA ExecuteKeepsInv ==
    ASSUME ClientInv, NEW m \in wire, Execute(m)
    PROVE  ClientInv'
<1>1. UNCHANGED << stage, calls, outcomes, uuids, wire >>
  BY DEF Execute, rpcVars
<1>2. /\ m.call \in DOMAIN calls /\ m.request = calls[m.call] /\ m.request \in Requests
      /\ m.call # 0
  BY DEF ClientInv, CallsTypeOK, IdsInv
<1>3. PICK reply \in Answers :
          /\ \/ ServeStart(m, reply) \/ ServeSignal(m, reply)
             \/ ServeSignalWithStart(m, reply) \/ ServeHistory(m, reply)
          /\ answer' = IF stage = "calling" /\ m.call = CurrentCall THEN << reply >> ELSE answer
  BY DEF Execute, Answers
<1>4. UNCHANGED serviceVars =>
          /\ runs' \in Seq([workflow: WorkflowIds, request_id: Nat, call: Nat, open: BOOLEAN])
          /\ signals' \in Seq([request_id: Nat, call: Nat])
          /\ \A i \in DOMAIN runs : i \in DOMAIN runs' /\ runs'[i].call = runs[i].call
          /\ \A i \in DOMAIN signals : i \in DOMAIN signals' /\ signals'[i] = signals[i]
          /\ OriginInv' /\ EffectsOnce'
  BY <1>1 DEF serviceVars, ClientInv, CallsTypeOK, OriginInv, EffectsOnce
\* A request id that is known is the one of this call.
<1>5. /\ m.request.kind \in Effective => m.request.request_id > 0
      /\ \A i \in DOMAIN runs :
            runs[i].call = m.call \/ (m.request.kind \in Effective /\
                                         runs[i].request_id # m.request.request_id)
               \/ m.request.kind \notin Effective
      /\ \A i \in DOMAIN signals :
            signals[i].call = m.call \/ signals[i].request_id # m.request.request_id
               \/ m.request.kind \notin Effective
  BY <1>2 DEF ClientInv, IdsInv, OriginInv, Effective
<1>6. /\ \A i \in DOMAIN runs : runs[i].call = m.call => runs[i].request_id = m.request.request_id
      /\ \A i \in DOMAIN signals : signals[i].call = m.call =>
             signals[i].request_id = m.request.request_id
  BY <1>2 DEF ClientInv, OriginInv
<1>7. Done \notin Refusals
  BY DEF Done, Refusals, AlreadyStarted, NotExists, AlreadyCompleted
<1> DEFINE Served == /\ runs' \in Seq([workflow: WorkflowIds, request_id: Nat, call: Nat,
                                        open: BOOLEAN])
                     /\ signals' \in Seq([request_id: Nat, call: Nat])
                     /\ \A i \in DOMAIN runs : i \in DOMAIN runs' /\ runs'[i].call = runs[i].call
                     /\ \A i \in DOMAIN signals : i \in DOMAIN signals' /\ signals'[i] = signals[i]
                     /\ OriginInv' /\ EffectsOnce'
                     /\ reply = Done => Effect(m.call)'
<1>8. ASSUME UNCHANGED serviceVars /\ (reply = Done => Effect(m.call))
      PROVE  Served
  BY <1>1, <1>4, <1>8 DEF serviceVars, Effect
<1>9. ASSUME ServeStart(m, reply)
      PROVE  Served
  <2>1. m.request.kind = "start" /\ UNCHANGED signals
    BY <1>9 DEF ServeStart
  <2>2. \/ StartedBy(m.request) # {} /\ UNCHANGED runs
        \/ reply \in Refusals /\ UNCHANGED runs
        \/ StartedBy(m.request) = {} /\ StartRun(m)
    BY <1>9 DEF ServeStart, Refusals
  <2>3. CASE StartedBy(m.request) # {} /\ UNCHANGED runs
    <3>1. Effect(m.call)
      BY <1>2, <1>5, <2>1, <2>3 DEF StartedBy, Effect, Effective
    <3> QED BY <1>8, <2>1, <2>3, <3>1 DEF serviceVars
  <2>4. CASE reply \in Refusals /\ UNCHANGED runs
    BY <1>7, <1>8, <2>1, <2>4 DEF serviceVars
  <2>5. CASE StartedBy(m.request) = {} /\ StartRun(m)
    <3>1. \A i \in DOMAIN runs : runs[i].call # m.call
      BY <1>6, <2>5 DEF StartedBy
    <3>2. /\ runs' \in Seq([workflow: WorkflowIds, request_id: Nat, call: Nat, open: BOOLEAN])
          /\ \A i \in DOMAIN runs : i \in DOMAIN runs' /\ runs'[i] = runs[i]
          /\ \E i \in DOMAIN runs' : runs'[i].call = m.call
          /\ \A i, j \in DOMAIN runs' : runs'[i].call = runs'[j].call => i = j
          /\ \A i \in DOMAIN runs' :
                \/ runs'[i].call = 0
                \/ /\ runs'[i].call \in DOMAIN calls
                   /\ runs'[i].request_id = calls[runs'[i].call].request_id
                   /\ calls[runs'[i].call].kind \in {"start", "signal_with_start"}
                   /\ calls[runs'[i].call].kind = "signal_with_start" =>
                         \E j \in DOMAIN signals' : signals'[j].call = runs'[i].call
          /\ \A i \in DOMAIN runs' : runs'[i].call = 0 => runs'[i].request_id = 0
      BY <1>1, <2>1, <2>5, <3>1, StartRunKeepsInv
    <3>3. OriginInv' /\ EffectsOnce'
      BY <1>1, <2>1, <3>2 DEF ClientInv, OriginInv, EffectsOnce
    <3>4. signals' \in Seq([request_id: Nat, call: Nat])
      BY <2>1 DEF ClientInv, CallsTypeOK
    <3>5. Effect(m.call)'
      BY <1>1, <1>2, <2>1, <3>2 DEF Effect
    <3> QED BY <2>1, <3>2, <3>3, <3>4, <3>5
  <2> QED BY <2>2, <2>3, <2>4, <2>5
<1>10. Recorded(m.request) /\ m.request.kind \in Effective =>
           \E i \in DOMAIN signals : signals[i].call = m.call
  BY <1>5 DEF Recorded
<1>11. ~Recorded(m.request) => \A i \in DOMAIN signals : signals[i].call # m.call
  BY <1>6 DEF Recorded
<1>12. ASSUME ServeSignal(m, reply)
       PROVE  Served
  <2>1. m.request.kind = "signal" /\ UNCHANGED runs
    BY <1>12 DEF ServeSignal
  <2>2. \/ Recorded(m.request) /\ UNCHANGED signals
        \/ reply \in Refusals /\ UNCHANGED signals
        \/ ~Recorded(m.request) /\ Record(m)
    BY <1>12 DEF ServeSignal, Refusals
  <2>3. CASE Recorded(m.request) /\ UNCHANGED signals
    BY <1>2, <1>8, <1>10, <2>1, <2>3 DEF serviceVars, Effect, Effective
  <2>4. CASE reply \in Refusals /\ UNCHANGED signals
    BY <1>7, <1>8, <2>1, <2>4 DEF serviceVars
  <2>5. CASE ~Recorded(m.request) /\ Record(m)
    <3>1. /\ signals' \in Seq([request_id: Nat, call: Nat])
          /\ \A i \in DOMAIN signals : i \in DOMAIN signals' /\ signals'[i] = signals[i]
          /\ \E i \in DOMAIN signals' : signals'[i].call = m.call
          /\ \A i, j \in DOMAIN signals' : signals'[i].call = signals'[j].call => i = j
          /\ \A i \in DOMAIN signals' :
                /\ signals'[i].call \in DOMAIN calls
                /\ signals'[i].request_id = calls[signals'[i].call].request_id
                /\ calls[signals'[i].call].kind \in {"signal", "signal_with_start"}
      BY <1>11, <2>1, <2>5, RecordKeepsInv
    <3>2. OriginInv' /\ EffectsOnce'
      BY <1>1, <2>1, <2>5, <3>1 DEF ClientInv, OriginInv, EffectsOnce
    <3>3. runs' \in Seq([workflow: WorkflowIds, request_id: Nat, call: Nat, open: BOOLEAN])
      BY <2>1, <2>5 DEF ClientInv, CallsTypeOK
    <3>4. Effect(m.call)'
      BY <1>1, <1>2, <2>1, <3>1 DEF Effect
    <3> QED BY <2>1, <2>5, <3>1, <3>2, <3>3, <3>4
  <2> QED BY <2>2, <2>3, <2>4, <2>5
<1>13. ASSUME ServeSignalWithStart(m, reply)
       PROVE  Served
  <2>1. m.request.kind = "signal_with_start"
    BY <1>13 DEF ServeSignalWithStart
  <2>2. \/ Recorded(m.request) /\ UNCHANGED serviceVars
        \/ ~Recorded(m.request) /\ Record(m) /\ UNCHANGED runs
        \/ ~Recorded(m.request) /\ Record(m) /\ StartRun(m)
    BY <1>13 DEF ServeSignalWithStart
  <2>3. CASE Recorded(m.request) /\ UNCHANGED serviceVars
    BY <1>2, <1>8, <1>10, <2>1, <2>3 DEF Effect, Effective
  <2>4. CASE ~Recorded(m.request) /\ Record(m) /\ UNCHANGED runs
    <3>1. /\ signals' \in Seq([request_id: Nat, call: Nat])
          /\ \A i \in DOMAIN signals : i \in DOMAIN signals' /\ signals'[i] = signals[i]
          /\ \E i \in DOMAIN signals' : signals'[i].call = m.call
          /\ \A i, j \in DOMAIN signals' : signals'[i].call = signals'[j].call => i = j
          /\ \A i \in DOMAIN signals' :
                /\ signals'[i].call \in DOMAIN calls
                /\ signals'[i].request_id = calls[signals'[i].call].request_id
                /\ calls[signals'[i].call].kind \in {"signal", "signal_with_start"}
      BY <1>11, <2>1, <2>4, RecordKeepsInv
    <3>2. OriginInv' /\ EffectsOnce'
      BY <1>1, <2>1, <2>4, <3>1 DEF ClientInv, OriginInv, EffectsOnce
    <3>3. runs' \in Seq([workflow: WorkflowIds, request_id: Nat, call: Nat, open: BOOLEAN])
      BY <2>1, <2>4 DEF ClientInv, CallsTypeOK
    <3>4. Effect(m.call)'
      BY <1>1, <1>2, <2>1, <3>1 DEF Effect
    <3> QED BY <2>1, <2>4, <3>1, <3>2, <3>3, <3>4
  <2>5. CASE ~Recorded(m.request) /\ Record(m) /\ StartRun(m)
    <3>1. \A i \in DOMAIN runs : runs[i].call # m.call
      BY <1>2, <1>11, <2>1, <2>5 DEF ClientInv, OriginInv
    <3>2. /\ signals' \in Seq([request_id: Nat, call: Nat])
          /\ \A i \in DOMAIN signals : i \in DOMAIN signals' /\ signals'[i] = signals[i]
          /\ \E i \in DOMAIN signals' : signals'[i].call = m.call
          /\ \A i, j \in DOMAIN signals' : signals'[i].call = signals'[j].call => i = j
          /\ \A i \in DOMAIN signals' :
                /\ signals'[i].call \in DOMAIN calls
                /\ signals'[i].request_id = calls[signals'[i].call].request_id
                /\ calls[signals'[i].call].kind \in {"signal", "signal_with_start"}
      BY <1>11, <2>1, <2>5, RecordKeepsInv
    <3>3. /\ runs' \in Seq([workflow: WorkflowIds, request_id: Nat, call: Nat, open: BOOLEAN])
          /\ \A i \in DOMAIN runs : i \in DOMAIN runs' /\ runs'[i] = runs[i]
          /\ \A i, j \in DOMAIN runs' : runs'[i].call = runs'[j].call => i = j
          /\ \A i \in DOMAIN runs' :
                \/ runs'[i].call = 0
                \/ /\ runs'[i].call \in DOMAIN calls
                   /\ runs'[i].request_id = calls[runs'[i].call].request_id
                   /\ calls[runs'[i].call].kind \in {"start", "signal_with_start"}
                   /\ calls[runs'[i].call].kind = "signal_with_start" =>
                         \E j \in DOMAIN signals' : signals'[j].call = runs'[i].call
          /\ \A i \in DOMAIN runs' : runs'[i].call = 0 => runs'[i].request_id = 0
      BY <1>1, <2>1, <2>5, <3>1, <3>2, StartRunKeepsInv
    <3>4. OriginInv' /\ EffectsOnce'
      BY <1>1, <3>2, <3>3 DEF OriginInv, EffectsOnce
    <3>5. Effect(m.call)'
      BY <1>1, <1>2, <2>1, <3>2 DEF Effect
    <3> QED BY <3>2, <3>3, <3>4, <3>5
  <2> QED BY <2>2, <2>3, <2>4, <2>5
<1>14. ASSUME ServeHistory(m, reply)
       PROVE  Served
  BY <1>2, <1>8, <1>14 DEF ServeHistory, Effect
<1>15. Served
  BY <1>3, <1>9, <1>12, <1>13, <1>14
<1>16. \/ UNCHANGED answer
       \/ /\ answer' = << reply >>
          /\ reply = Done => Effect(CurrentCall)'
  <2>1. CurrentCall' = CurrentCall
    BY <1>1 DEF CurrentCall
  <2> QED BY <1>3, <1>15, <2>1 DEF CurrentCall, Effect
<1> QED BY <1>1, <1>15, <1>16, ServedKeepsInv

LEMMA ServiceKeepsInv ==
    ASSUME ClientInv, Service
    PROVE  ClientInv'
<1>1. CASE \E m \in wire : Execute(m)
  BY <1>1, ExecuteKeepsInv
<1>2. ASSUME NEW o \in Options, OthersStart(o)
      PROVE  ClientInv'
  <2> DEFINE R == [workflow: WorkflowIds, request_id: Nat, call: Nat, open: BOOLEAN]
             r == [workflow |-> WorkflowId(o), request_id |-> 0, call |-> 0, open |-> TRUE]
  <2>1. /\ runs' = Append(runs, r)
        /\ UNCHANGED << stage, calls, outcomes, uuids, wire, answer, signals >>
        /\ \A i \in DOMAIN runs : runs[i].call # 0
        /\ o.workflow_id # ""
    BY <1>2 DEF OthersStart, rpcVars
  <2>2. r \in R
    BY <2>1 DEF WorkflowId, WorkflowIds
  <2>3. runs \in Seq(R) /\ signals' \in Seq([request_id: Nat, call: Nat])
    BY <2>1 DEF ClientInv, CallsTypeOK
  <2>4. r.call = 0 /\ r.request_id = 0
    OBVIOUS
  <2>a. runs \in Seq(R)
    BY <2>3
  <2>b. runs' = Append(runs, r)
    BY <2>1
  <2> HIDE DEF r, R
  <2>5. /\ runs' \in Seq(R) /\ Len(runs') \in DOMAIN runs' /\ runs'[Len(runs')] = r
        /\ \A i \in DOMAIN runs : i \in DOMAIN runs' /\ runs'[i] = runs[i]
        /\ \A i \in DOMAIN runs' : i \in DOMAIN runs \/ i = Len(runs')
    BY <2>2, <2>a, <2>b, AppendKeepsElements
  <2>c. ASSUME NEW i \in DOMAIN runs'
        PROVE  \/ i \in DOMAIN runs /\ runs'[i] = runs[i] /\ runs[i].call # 0
               \/ i = Len(runs') /\ runs'[i].call = 0 /\ runs'[i].request_id = 0
    BY <2>1, <2>4, <2>5
  <2>6. OriginInv'
    <3>1. \A i \in DOMAIN runs : runs[i].call # 0 =>
             /\ runs[i].call \in DOMAIN calls
             /\ runs[i].request_id = calls[runs[i].call].request_id
             /\ calls[runs[i].call].kind \in {"start", "signal_with_start"}
             /\ calls[runs[i].call].kind = "signal_with_start" =>
                   \E j \in DOMAIN signals : signals[j].call = runs[i].call
      BY DEF ClientInv, OriginInv
    <3>2. \A i \in DOMAIN signals :
             /\ signals[i].call \in DOMAIN calls
             /\ signals[i].request_id = calls[signals[i].call].request_id
             /\ calls[signals[i].call].kind \in {"signal", "signal_with_start"}
      BY DEF ClientInv, OriginInv
    <3>3. UNCHANGED << calls, signals >>
      BY <2>1
    <3> QED BY <2>c, <3>1, <3>2, <3>3 DEF OriginInv
  <2>7. EffectsOnce'
    <3>1. \A i, j \in DOMAIN runs' : runs'[i].call = runs'[j].call => i = j
      <4>1. \A i, j \in DOMAIN runs : runs[i].call = runs[j].call => i = j
        BY DEF ClientInv, EffectsOnce
      <4> QED BY <2>c, <4>1
    <3> QED BY <2>1, <3>1 DEF ClientInv, EffectsOnce
  <2>8. runs' \in Seq([workflow: WorkflowIds, request_id: Nat, call: Nat, open: BOOLEAN])
    BY <2>5 DEF R
  <2> QED BY <2>1, <2>3, <2>5, <2>6, <2>7, <2>8, ServedKeepsInv
<1>3. ASSUME NEW k \in DOMAIN runs, RunCloses(k)
      PROVE  ClientInv'
  <2>1. /\ runs' = [runs EXCEPT ![k].open = FALSE]
        /\ UNCHANGED << stage, calls, outcomes, uuids, wire, answer, signals >>
    BY <1>3 DEF RunCloses, rpcVars
  <2>2. /\ runs' \in Seq([workflow: WorkflowIds, request_id: Nat, call: Nat, open: BOOLEAN])
        /\ signals' \in Seq([request_id: Nat, call: Nat])
        /\ DOMAIN runs' = DOMAIN runs
        /\ \A i \in DOMAIN runs : /\ runs'[i].call = runs[i].call
                                  /\ runs'[i].request_id = runs[i].request_id
    <3> DEFINE R == [workflow: WorkflowIds, request_id: Nat, call: Nat, open: BOOLEAN]
    <3>1. runs \in Seq(R) /\ runs[k] \in R
      BY SequencesHaveElements DEF ClientInv, CallsTypeOK
    <3>2. [runs[k] EXCEPT !.open = FALSE] \in R
      BY <3>1
    <3>3. runs' = [runs EXCEPT ![k] = [runs[k] EXCEPT !.open = FALSE]]
      BY <2>1
    <3>4. signals' \in Seq([request_id: Nat, call: Nat])
      BY <2>1 DEF ClientInv, CallsTypeOK
    <3>5. DOMAIN runs' = DOMAIN runs
      BY <3>3
    <3>6. \A i \in DOMAIN runs : /\ runs'[i].call = runs[i].call
                                /\ runs'[i].request_id = runs[i].request_id
      BY <3>1, <3>3
    <3> HIDE DEF R
    <3>7. runs' \in Seq(R)
      BY <3>1, <3>2, <3>3
    <3> QED BY <3>4, <3>5, <3>6, <3>7 DEF R
  <2>3. OriginInv'
    BY <2>1, <2>2 DEF ClientInv, OriginInv
  <2>4. EffectsOnce'
    <3>1. \A i, j \in DOMAIN runs' : runs'[i].call = runs'[j].call => i = j
      <4>1. \A i, j \in DOMAIN runs : runs[i].call = runs[j].call => i = j
        BY DEF ClientInv, EffectsOnce
      <4> QED BY <2>2, <4>1
    <3>2. \A i, j \in DOMAIN signals : signals[i].call = signals[j].call => i = j
      BY DEF ClientInv, EffectsOnce
    <3>3. signals' = signals
      BY <2>1
    <3> QED BY <3>1, <3>2, <3>3 DEF EffectsOnce
  <2> QED BY <2>1, <2>2, <2>3, <2>4, ServedKeepsInv
<1> QED BY <1>1, <1>2, <1>3 DEF Service

\* The steps of the client are those of its calls, each from the beginning.
LEMMA StepsAreCalls ==
    ASSUME IInv, [ClientNext]_clientVars
    PROVE  IInv'
<1>1. ASSUME NEW m \in {"other", "GetWorkflowExecutionHistory"}, Invoke(m)
      PROVE  IInv'
  BY <1>1, DurationsAssumption, BoundsAssumption
  DEF Invoke, IInv, TypeOK, WaitsInv, AttemptsInv, AttemptsBounded, EndsInTime, GivesUpLate, Active
<1>2. CASE UNCHANGED rpcVars
  BY <1>2, StepKeepsInv DEF rpcVars, vars
<1>3. CASE Calls
  BY <1>1, <1>2, <1>3 DEF Calls, RaiseValueError, start_workflow, signal_workflow,
                          signal_with_start_workflow, GetWorkflowExecutionHistory
<1>4. CASE SendAttempt \/ Answered \/ CallerIsCancelled \/ TimePasses
  BY <1>4, StepKeepsInv DEF SendAttempt, Answered, CallerIsCancelled, TimePasses, Next
<1>5. CASE Refused
  BY <1>5, FailureKeepsInv, RefusalsAssumption DEF Refused
<1>6. CASE AttemptBreaks
  BY <1>6, FailureKeepsInv DEF AttemptBreaks, TimeOut
<1>7. CASE Service
  BY <1>2, <1>7 DEF Service, Execute, OthersStart, RunCloses
<1>8. CASE UNCHANGED clientVars
  BY <1>2, <1>8 DEF clientVars
<1> QED BY <1>3, <1>4, <1>5, <1>6, <1>7, <1>8 DEF ClientNext

\* The invariants of a call and of all calls hold of every client.
THEOREM ClientInvariance == ClientSpec => [](IInv /\ ClientInv)
<1>1. ClientInit => IInv
  BY DurationsAssumption, BoundsAssumption
  DEF ClientInit, IInv, TypeOK, WaitsInv, AttemptsInv, AttemptsBounded, EndsInTime,
      GivesUpLate, Active
<1>2. ClientInit => ClientInv
  BY DEF ClientInit, ClientInv, CallsTypeOK, EndsInv, IdsInv, OriginInv, EffectsOnce, AnswerInv,
         AnsweredInOrder, Active
<1>3. IInv /\ [ClientNext]_clientVars => IInv'
  BY StepsAreCalls
<1>4. ClientInv /\ [ClientNext]_clientVars => ClientInv'
  <2> SUFFICES ASSUME ClientInv, [ClientNext]_clientVars
               PROVE  ClientInv'
    OBVIOUS
  <2>1. CASE UNCHANGED clientVars
    <3>1. UNCHANGED << stage, calls, outcomes, uuids, wire, answer, runs, signals >>
      BY <2>1 DEF clientVars, rpcVars, serviceVars
    <3>2. CallsTypeOK' /\ EndsInv' /\ IdsInv'
      BY <3>1 DEF ClientInv, CallsTypeOK, EndsInv, IdsInv, Active
    <3>3. OriginInv' /\ EffectsOnce' /\ AnsweredInOrder'
      BY <3>1 DEF ClientInv, OriginInv, EffectsOnce, AnsweredInOrder
    <3>4. AnswerInv'
      BY <3>1 DEF ClientInv, AnswerInv, Effect, CurrentCall
    <3> QED BY <3>2, <3>3, <3>4 DEF ClientInv
  <2> QED BY <2>1, CallsKeepInv, SendKeepsInv, AnswersKeepInv, ServiceKeepsInv DEF ClientNext
<1> QED BY <1>1, <1>2, <1>3, <1>4, PTL DEF ClientSpec

\* No call has its effect twice, however many attempts it took.
THEOREM CallsTakeEffectOnce == ClientSpec => []EffectsOnce
<1>1. ClientInv => EffectsOnce
  BY DEF ClientInv
<1> QED BY <1>1, ClientInvariance, PTL

\* Calls that were answered are in effect, signals in the order of their calls.
THEOREM AnswersAreInOrder == ClientSpec => []AnsweredInOrder
<1>1. ClientInv => AnsweredInOrder
  BY DEF ClientInv
<1> QED BY <1>1, ClientInvariance, PTL

\* The deadline holds for each of a client's calls.
THEOREM ClientCallsEndInTime == ClientSpec => []EndsInTime
<1>1. IInv => EndsInTime
  BY DEF IInv
<1> QED BY <1>1, ClientInvariance, PTL

\* The policy's number of attempts holds for each of a client's calls.
THEOREM ClientAttemptsAreBounded == ClientSpec => []AttemptsBounded
<1>1. IInv => AttemptsBounded
  BY DEF IInv, AttemptsInv
<1> QED BY <1>1, ClientInvariance, PTL

\* None of a client's calls is given up while the longest delay would still fit.
THEOREM ClientCallsGiveUpLate == ClientSpec => []GivesUpLate
<1>1. IInv => GivesUpLate
  BY DEF IInv
<1> QED BY <1>1, ClientInvariance, PTL

-----------------------------------------------------------------------------
(* Refusals                                                                *)

\* There is a run of the workflow of call c that c did not start.
Met(c) == \E i \in DOMAIN runs : runs[i].call # c /\ runs[i].workflow = calls[c].workflow

\* A start is refused for such a run, and reports nothing else.
RefusalInv ==
    /\ stage = "calling" /\ answer # << >> /\ answer[1] = AlreadyStarted => Met(CurrentCall)
    /\ RefusedByOthers

\* Calls that were made and runs that were started stay what they are.
LEMMA CallsStay ==
    ASSUME ClientInv, [ClientNext]_clientVars
    PROVE  \A c \in DOMAIN calls : c \in DOMAIN calls' /\ calls'[c] = calls[c]
<1>1. calls \in Seq(Requests)
  BY DEF ClientInv, CallsTypeOK
<1>2. UNCHANGED calls \/ \E q : calls' = Append(calls, q)
  BY DEF ClientNext, Calls, RaiseValueError, start_workflow, signal_with_start_workflow,
         signal_workflow, GetWorkflowExecutionHistory, _build_start_workflow_request,
         SendAttempt, Answered, Refused, AttemptBreaks, CallerIsCancelled, TimePasses,
         Service, Execute, OthersStart, RunCloses, clientVars
<1> QED BY <1>1, <1>2

LEMMA RunsStay ==
    ASSUME ClientInv, [ClientNext]_clientVars
    PROVE  \A i \in DOMAIN runs : /\ i \in DOMAIN runs'
                                  /\ runs'[i].call = runs[i].call
                                  /\ runs'[i].workflow = runs[i].workflow
<1> DEFINE R == [workflow: WorkflowIds, request_id: Nat, call: Nat, open: BOOLEAN]
<1>1. runs \in Seq(R)
  BY DEF ClientInv, CallsTypeOK
<1>2. \/ UNCHANGED runs
      \/ \E r : runs' = Append(runs, r)
      \/ \E k \in DOMAIN runs : runs' = [runs EXCEPT ![k].open = FALSE]
  <2>1. CASE Calls
    BY <2>1 DEF Calls, RaiseValueError, start_workflow, signal_with_start_workflow,
                signal_workflow, GetWorkflowExecutionHistory, Invoke, serviceVars
  <2>2. CASE SendAttempt \/ Answered \/ Refused \/ AttemptBreaks \/ CallerIsCancelled
                \/ TimePasses \/ UNCHANGED clientVars
    BY <2>2 DEF SendAttempt, Answered, Refused, AttemptBreaks, CallerIsCancelled, TimePasses,
                clientVars, serviceVars
  <2>3. ASSUME NEW m \in wire, Execute(m)
        PROVE  UNCHANGED runs \/ \E r : runs' = Append(runs, r)
    BY <2>3 DEF Execute, ServeStart, ServeSignal, ServeSignalWithStart, ServeHistory, StartRun,
                serviceVars
  <2>4. CASE Service
    BY <2>3, <2>4 DEF Service, OthersStart, RunCloses
  <2> QED BY <2>1, <2>2, <2>4 DEF ClientNext
<1>3. CASE UNCHANGED runs
  BY <1>3
<1>4. CASE \E r : runs' = Append(runs, r)
  BY <1>1, <1>4
<1>5. ASSUME NEW k \in DOMAIN runs, runs' = [runs EXCEPT ![k].open = FALSE]
      PROVE  \A i \in DOMAIN runs : /\ i \in DOMAIN runs'
                                    /\ runs'[i].call = runs[i].call
                                    /\ runs'[i].workflow = runs[i].workflow
  <2>1. runs[k] \in R
    BY <1>1, SequencesHaveElements
  <2> QED BY <1>5, <2>1
<1> QED BY <1>2, <1>3, <1>4, <1>5

\* What becomes of a call is written when it ends, and only the service's refusal
\* makes it one that was already started.
LEMMA OutcomesAreWritten ==
    ASSUME ClientInv, [ClientNext]_clientVars
    PROVE  \/ UNCHANGED outcomes
           \/ \E o : /\ outcomes' = Append(outcomes, o)
                     /\ o = AlreadyStarted.detail =>
                           stage = "calling" /\ answer # << >> /\ answer[1] = AlreadyStarted
<1>1. AlreadyStarted.detail = "WorkflowExecutionAlreadyStartedError"
  BY DEF AlreadyStarted
<1>2. ASSUME NEW s \in Statuses \cup {DeadlineExceeded}, FailWith(s), EndIfFailed,
             s.detail = AlreadyStarted.detail =>
                 answer # << >> /\ answer[1] = AlreadyStarted
      PROVE  \/ UNCHANGED outcomes
             \/ \E o : /\ outcomes' = Append(outcomes, o)
                       /\ o = AlreadyStarted.detail =>
                             stage = "calling" /\ answer # << >> /\ answer[1] = AlreadyStarted
  <2>1. stage = "calling" /\ err'.class \in {s.detail, "CadenceRpcError"}
    BY <1>2 DEF FailWith, map_error
  <2> QED BY <1>1, <1>2, <2>1 DEF EndIfFailed, End
<1>3. CASE Calls \/ SendAttempt \/ TimePasses \/ Service \/ UNCHANGED clientVars
  <2>1. CASE Calls
    <3>1. UNCHANGED outcomes \/ outcomes' = Append(outcomes, "ValueError")
      BY <2>1 DEF Calls, RaiseValueError, start_workflow, signal_with_start_workflow,
             signal_workflow, GetWorkflowExecutionHistory, Invoke
    <3> QED BY <1>1, <3>1
  <2>2. CASE SendAttempt \/ TimePasses \/ Service \/ UNCHANGED clientVars
    BY <2>2 DEF SendAttempt, TimePasses, Service, Execute, OthersStart, RunCloses, clientVars
  <2> QED BY <1>3, <2>1, <2>2
<1>4. CASE Answered \/ CallerIsCancelled
  BY <1>1, <1>4 DEF Answered, CallerIsCancelled, End
<1>5. CASE Refused
  <2>1. answer[1] \in Statuses
    BY <1>5, RefusalsAssumption DEF Refused
  <2> QED BY <1>2, <1>5, <2>1, RefusalsAssumption DEF Refused
<1>6. CASE AttemptBreaks
  <2>1. ASSUME NEW s \in Statuses \ Refusals, FailWith(s), EndIfFailed
        PROVE  s.detail # AlreadyStarted.detail
    BY <2>1, RefusalsAssumption DEF Refusals
  <2>2. DeadlineExceeded.detail # AlreadyStarted.detail
    BY <1>1 DEF DeadlineExceeded
  <2> QED BY <1>2, <1>6, <2>1, <2>2 DEF AttemptBreaks, TimeOut
<1> QED BY <1>3, <1>4, <1>5, <1>6 DEF ClientNext

\* The service refuses a start only for an open run with another request_id.
LEMMA RefusalsAreMet ==
    ASSUME ClientInv, NEW m \in wire, Execute(m), stage = "calling", m.call = CurrentCall,
           answer'[1] = AlreadyStarted
    PROVE  Met(CurrentCall)
<1>1. /\ m.call \in DOMAIN calls /\ m.request = calls[m.call] /\ m.call # 0
  BY DEF ClientInv, CallsTypeOK, IdsInv
<1>2. AlreadyStarted # Done /\ AlreadyStarted # NotExists /\ AlreadyStarted # AlreadyCompleted
  BY DEF AlreadyStarted, Done, NotExists, AlreadyCompleted
<1>3. StartedBy(m.request) = {} /\ OpenRuns(m.request.workflow) # {}
  BY <1>2 DEF Execute, ServeStart, ServeSignal, ServeSignalWithStart, ServeHistory
<1>4. PICK i \in DOMAIN runs : /\ runs[i].workflow = m.request.workflow
                              /\ runs[i].request_id # m.request.request_id
  BY <1>3 DEF StartedBy, OpenRuns
<1>5. runs[i].call # m.call
  BY <1>1, <1>4 DEF ClientInv, OriginInv
<1> QED BY <1>1, <1>4, <1>5 DEF Met

LEMMA StepKeepsRefusalInv ==
    ASSUME ClientInv, RefusalInv, [ClientNext]_clientVars
    PROVE  RefusalInv'
<1>1. ASSUME NEW c \in DOMAIN calls, Met(c)
      PROVE  Met(c)'
  BY <1>1, CallsStay, RunsStay DEF Met
<1>2. /\ Len(calls) = Len(outcomes) + (IF Active THEN 1 ELSE 0)
      /\ calls \in Seq(Requests) /\ Len(calls) \in Nat /\ DOMAIN calls = 1..Len(calls)
      /\ DOMAIN outcomes = 1..Len(outcomes) /\ Len(outcomes) \in Nat
  BY DEF ClientInv, EndsInv, CallsTypeOK
<1>3. DOMAIN outcomes \subseteq DOMAIN calls
  BY <1>2
<1>4. stage = "calling" => CurrentCall \in DOMAIN calls /\ CurrentCall = Len(outcomes) + 1
  BY <1>2 DEF Active, CurrentCall
<1>5. RefusedByOthers'
  <2>1. ASSUME NEW o, outcomes' = Append(outcomes, o), NEW c \in DOMAIN outcomes',
               o = AlreadyStarted.detail =>
                  stage = "calling" /\ answer # << >> /\ answer[1] = AlreadyStarted,
               outcomes'[c] = AlreadyStarted.detail
        PROVE  Met(c)'
    <3>1. \/ c \in DOMAIN outcomes /\ outcomes'[c] = outcomes[c]
          \/ c = Len(outcomes) + 1 /\ outcomes'[c] = o
      BY <1>2, <2>1 DEF ClientInv, CallsTypeOK
    <3>2. CASE c \in DOMAIN outcomes /\ outcomes'[c] = outcomes[c]
      <4>1. Met(c)
        BY <2>1, <3>2 DEF RefusalInv, RefusedByOthers, Met, AlreadyStarted
      <4> QED BY <1>1, <1>3, <3>2, <4>1
    <3>3. CASE c = Len(outcomes) + 1 /\ outcomes'[c] = o
      BY <1>1, <1>4, <2>1, <3>3 DEF RefusalInv
    <3> QED BY <3>1, <3>2, <3>3
  <2>2. ASSUME UNCHANGED outcomes, NEW c \in DOMAIN outcomes,
               outcomes[c] = AlreadyStarted.detail
        PROVE  Met(c)'
    <3>1. Met(c)
      BY <2>2 DEF RefusalInv, RefusedByOthers, Met, AlreadyStarted
    <3> QED BY <1>1, <1>3, <3>1
  <2>3. AlreadyStarted.detail = "WorkflowExecutionAlreadyStartedError"
    BY DEF AlreadyStarted
  <2> QED BY <2>1, <2>2, <2>3, OutcomesAreWritten DEF RefusedByOthers, Met
<1>6. ASSUME stage' = "calling", answer' # << >>, answer'[1] = AlreadyStarted
      PROVE  Met(CurrentCall)'
  <2>1. CASE Calls
    BY <1>6, <2>1 DEF Calls, RaiseValueError, start_workflow, signal_with_start_workflow,
         signal_workflow, GetWorkflowExecutionHistory, Invoke, Idle, Active, rpcVars
  <2>2. CASE SendAttempt
    BY <1>6, <2>2 DEF SendAttempt
  <2>3. CASE Answered \/ Refused \/ AttemptBreaks \/ CallerIsCancelled
    BY <1>6, <2>3 DEF Answered, Refused, AttemptBreaks, CallerIsCancelled, Succeed, FailWith,
                      TimeOut, Cancel
  <2>4. ASSUME UNCHANGED << stage, calls, answer >>
        PROVE  Met(CurrentCall)'
    <3>1. Met(CurrentCall) /\ CurrentCall \in DOMAIN calls /\ CurrentCall' = CurrentCall
      BY <1>4, <1>6, <2>4 DEF RefusalInv, CurrentCall
    <3> QED BY <1>1, <3>1
  <2>5. CASE TimePasses \/ UNCHANGED clientVars
    BY <2>4, <2>5 DEF TimePasses, Tick, clientVars, rpcVars
  <2>6. ASSUME NEW m \in wire, Execute(m)
        PROVE  Met(CurrentCall)'
    <3>1. UNCHANGED << stage, calls >>
      BY <2>6 DEF Execute, rpcVars
    <3>2. CASE UNCHANGED answer
      BY <2>4, <3>1, <3>2
    <3>3. CASE stage = "calling" /\ m.call = CurrentCall
      <4>1. Met(CurrentCall) /\ CurrentCall \in DOMAIN calls /\ CurrentCall' = CurrentCall
        BY <1>4, <1>6, <2>6, <3>1, <3>3, RefusalsAreMet DEF CurrentCall
      <4> QED BY <1>1, <4>1
    <3> QED BY <2>6, <3>2, <3>3 DEF Execute
  <2>7. CASE Service
    BY <2>4, <2>6, <2>7 DEF Service, OthersStart, RunCloses, rpcVars
  <2> QED BY <2>1, <2>2, <2>3, <2>5, <2>7 DEF ClientNext
<1> QED BY <1>5, <1>6 DEF RefusalInv

\* A start that is told its workflow runs already met a run of somebody else's: no
\* attempt of a call is refused for what another attempt of it did.
THEOREM StartsAreRefusedByOthers == ClientSpec => []RefusedByOthers
<1>1. ClientInit => RefusalInv
  BY DEF ClientInit, RefusalInv, RefusedByOthers
<1>2. ClientInv /\ RefusalInv /\ [ClientNext]_clientVars => RefusalInv'
  BY StepKeepsRefusalInv
<1>3. RefusalInv => RefusedByOthers
  BY DEF RefusalInv
<1> QED BY <1>1, <1>2, <1>3, ClientInvariance, PTL DEF ClientSpec
=============================================================================
