-------------------------- MODULE DecisionTask_proofs --------------------------
(***************************************************************************)
(* For every number of tasks, every page size and every length of history: *)
(* the handler's steps implement DecisionTaskLife, and no handler ends     *)
(* without an answer.                                                      *)
(***************************************************************************)
EXTENDS DecisionTask, TLAPS

\* A task that was never handed out has left no trace.
UntouchedInv ==
    \A t \in Tasks :
        /\ status[t] = "none" => stage[t] = "none"
        /\ stage[t] = "none" => token[t] = 0
        /\ status[t] \in {"none", "open"} => basis[t] = << >>

\* What was fetched is the beginning of history, and the token says where it
\* goes on.
PagesInv ==
    \A t \in Tasks :
        stage[t] # "none" =>
            \E n \in 0..started[t] :
                events[t] = Life!History(n) /\ token[t] = NextToken(n, started[t])

\* An answer of decisions has the whole history under it.
AnswersInv ==
    /\ \A t \in Tasks : stage[t] = "deciding" => token[t] = 0
    /\ \A m \in sent :
           /\ status[m.task] # "none"
           /\ m.events = (IF m.kind = "completed" THEN Life!History(started[m.task])
                          ELSE << >>)

\* A handler that ends has answered.
EndsInv ==
    /\ \A t \in Tasks : stage[t] = "failing" => Failed(t) \in sent
    /\ NoSilentEnd

IInv == TypeOK /\ UntouchedInv /\ PagesInv /\ AnswersInv /\ EndsInv

-----------------------------------------------------------------------------
\* Pages are finite pieces of history.
LEMMA PageType ==
    ASSUME NEW first \in Nat, NEW last \in Nat, first > 0
    PROVE  Page(first, last) \in Seq(Nat)
<1>1. CASE first > last
  BY <1>1 DEF Page
<1>2. CASE first <= last
  BY <1>2 DEF Page
<1> QED BY <1>1, <1>2

\* The first page is the beginning of history.
LEMMA FirstPage ==
    ASSUME NEW n \in Nat
    PROVE  Page(1, n) = Life!History(n)
BY DEF Page, Life!History

\* A page that begins where the others ended continues them.
LEMMA PagesJoin ==
    ASSUME NEW n \in Nat, NEW last \in Nat, n <= last
    PROVE  Life!History(n) \o Page(n + 1, last) = Life!History(last)
BY DEF Page, Life!History

-----------------------------------------------------------------------------
\* A handler is where it was or further, and only the pages of one task change.
LEMMA StartKeepsInv ==
    ASSUME IInv, NEW t \in Tasks, HandOut(t) \/ HandOutUnseen(t)
    PROVE  IInv'
<1> USE DEF Start, serviceVars, pageVars
<1>1. /\ length \in Nat /\ status[t] = "none" /\ stage[t] = "none" /\ token[t] = 0
      /\ status' = [status EXCEPT ![t] = "open"]
      /\ started' = [started EXCEPT ![t] = length]
      /\ UNCHANGED << length, basis, sent >>
  BY DEF IInv, TypeOK, UntouchedInv, HandOut, HandOutUnseen
<1>2. \A m \in sent : m.task \in Tasks /\ m.task # t
  BY <1>1 DEF IInv, TypeOK, AnswersInv
<1>3. CASE HandOut(t)
  <2>1. PICK last \in 0..length :
            /\ events' = [events EXCEPT ![t] = Page(1, last)]
            /\ token' = [token EXCEPT ![t] = NextToken(last, length)]
    BY <1>3 DEF HandOut
  <2>2. /\ Page(1, last) \in Seq(Nat)
        /\ Page(1, last) = Life!History(last)
        /\ NextToken(last, length) \in 0..length
    <3>1. last \in Nat /\ 1 \in Nat /\ 1 > 0
      BY <1>1
    <3>2. NextToken(last, length) \in 0..length
      BY <1>1 DEF NextToken
    <3> QED BY <3>1, <3>2, PageType, FirstPage
  <2>3. stage' = [stage EXCEPT ![t] = "received"]
    BY <1>3 DEF HandOut
  <2>4. TypeOK'
    <3>1. events' \in [Tasks -> Seq(Nat)]
      BY <2>1, <2>2 DEF IInv, TypeOK
    <3>2. /\ token' \in [Tasks -> Nat] /\ started' \in [Tasks -> Nat]
          /\ \A u \in Tasks : token'[u] <= started'[u]
      BY <1>1, <2>1, <2>2 DEF IInv, TypeOK
    <3>3. stage' \in [Tasks -> Stages] /\ status' \in [Tasks -> Statuses]
      BY <1>1, <2>3 DEF IInv, TypeOK, Statuses, Stages, Working
    <3> QED BY <1>1, <3>1, <3>2, <3>3 DEF IInv, TypeOK
  <2>5. UntouchedInv'
    BY <1>1, <2>1, <2>3 DEF IInv, TypeOK, UntouchedInv
  <2>6. PagesInv'
    BY <1>1, <2>1, <2>2, <2>3 DEF IInv, TypeOK, PagesInv
  <2>7. AnswersInv'
    BY <1>1, <1>2, <2>1, <2>3 DEF IInv, TypeOK, AnswersInv
  <2>8. EndsInv'
    BY <1>1, <2>3 DEF IInv, TypeOK, EndsInv, NoSilentEnd, Failed
  <2> QED BY <2>4, <2>5, <2>6, <2>7, <2>8 DEF IInv
<1>4. CASE HandOutUnseen(t)
  <2>1. UNCHANGED << stage, events, token >>
    BY <1>4 DEF HandOutUnseen
  <2>2. TypeOK'
    <3>1. /\ started' \in [Tasks -> Nat]
          /\ \A u \in Tasks : token[u] <= started'[u]
      BY <1>1 DEF IInv, TypeOK
    <3>2. status' \in [Tasks -> Statuses]
      BY <1>1 DEF IInv, TypeOK, Statuses
    <3> QED BY <1>1, <2>1, <3>1, <3>2 DEF IInv, TypeOK
  <2>3. UntouchedInv'
    BY <1>1, <2>1 DEF IInv, TypeOK, UntouchedInv
  <2>4. PagesInv'
    BY <1>1, <2>1 DEF IInv, TypeOK, PagesInv
  <2>5. AnswersInv'
    BY <1>1, <1>2, <2>1 DEF IInv, TypeOK, AnswersInv
  <2>6. EndsInv'
    BY <1>1, <2>1 DEF IInv, TypeOK, EndsInv, NoSilentEnd, Failed
  <2> QED BY <2>2, <2>3, <2>4, <2>5, <2>6 DEF IInv
<1> QED BY <1>3, <1>4

\* The service settles a task, gives it up, or writes an event.
LEMMA ServiceKeepsInv ==
    ASSUME IInv,
           EventArrives \/ (\E t \in Tasks : TimeOut(t)) \/ (\E m \in sent : Settle(m))
    PROVE  IInv'
<1> USE DEF pageVars
<1>1. UNCHANGED << started, sent, stage, events, token >>
  BY DEF EventArrives, TimeOut, Settle
<1>2. /\ length' \in Nat
      /\ status' \in [Tasks -> Statuses] /\ basis' \in [Tasks -> Seq(Nat)]
      /\ \A t \in Tasks : \/ status'[t] = status[t] /\ basis'[t] = basis[t]
                          \/ status[t] = "open" /\ status'[t] \notin {"none", "open"}
  <2>1. CASE EventArrives
    BY <2>1 DEF EventArrives, IInv, TypeOK
  <2>2. CASE \E t \in Tasks : TimeOut(t)
    BY <2>2 DEF TimeOut, IInv, TypeOK, Statuses
  <2>3. CASE \E m \in sent : Settle(m)
    <3>1. PICK m \in sent : Settle(m)
      BY <2>3
    <3>2. m.task \in Tasks /\ m.kind \in {"completed", "failed"} /\ m.events \in Seq(Nat)
      BY DEF IInv, TypeOK
    <3> QED BY <3>1, <3>2 DEF Settle, IInv, TypeOK, Statuses
  <2> QED BY <2>1, <2>2, <2>3
<1>3. TypeOK'
  BY <1>1, <1>2 DEF IInv, TypeOK
<1>4. UntouchedInv'
  BY <1>1, <1>2 DEF IInv, UntouchedInv
<1>5. PagesInv'
  BY <1>1 DEF IInv, PagesInv
<1>6. AnswersInv'
  <2>1. \A m \in sent : m.task \in Tasks
    BY DEF IInv, TypeOK
  <2> QED BY <1>1, <1>2, <2>1 DEF IInv, AnswersInv
<1>7. EndsInv'
  BY <1>1, <1>2 DEF IInv, EndsInv, NoSilentEnd, Failed
<1> QED BY <1>3, <1>4, <1>5, <1>6, <1>7 DEF IInv

\* A page is fetched.
LEMMA FetchPageKeepsInv ==
    ASSUME IInv, NEW t \in Tasks, FetchPage(t)
    PROVE  IInv'
<1>1. PICK last \in token[t]..started[t] :
          /\ events' = [events EXCEPT ![t] = @ \o Page(token[t], last)]
          /\ token' = [token EXCEPT ![t] = NextToken(last, started[t])]
  BY DEF FetchPage
<1>2. /\ stage[t] = "paging" /\ token[t] # 0
      /\ UNCHANGED << length, status, started, basis, sent, stage >>
  BY DEF FetchPage, serviceVars
<1>3. PICK n \in 0..started[t] :
          events[t] = Life!History(n) /\ token[t] = NextToken(n, started[t])
  BY <1>2 DEF IInv, PagesInv
<1>4. /\ started[t] \in Nat /\ n \in Nat /\ token[t] = n + 1
      /\ last \in Nat /\ n <= last /\ token[t] \in Nat /\ token[t] > 0
      /\ last <= started[t] /\ NextToken(last, started[t]) \in 0..started[t]
  BY <1>1, <1>2, <1>3 DEF IInv, TypeOK, NextToken
<1>5. events[t] \o Page(token[t], last) = Life!History(last)
  <2>1. Life!History(n) \o Page(n + 1, last) = Life!History(last)
    BY <1>4, PagesJoin
  <2> QED BY <1>3, <1>4, <2>1
<1>6. events[t] \o Page(token[t], last) \in Seq(Nat)
  <2>1. Page(token[t], last) \in Seq(Nat)
    BY <1>4, PageType
  <2> QED BY <2>1 DEF IInv, TypeOK
<1>7. TypeOK'
  BY <1>1, <1>2, <1>4, <1>6 DEF IInv, TypeOK
<1>8. UntouchedInv'
  BY <1>1, <1>2 DEF IInv, TypeOK, UntouchedInv
<1>9. PagesInv'
  <2> SUFFICES ASSUME NEW u \in Tasks, stage[u] # "none"
               PROVE  \E k \in 0..started[u] : /\ events'[u] = Life!History(k)
                                               /\ token'[u] = NextToken(k, started[u])
    BY <1>2 DEF PagesInv, Life!History, NextToken
  <2>1. CASE u = t
    <3>1. /\ events'[u] = Life!History(last) /\ token'[u] = NextToken(last, started[u])
          /\ last \in 0..started[u]
      BY <1>1, <1>4, <1>5, <2>1 DEF IInv, TypeOK
    <3> QED BY <3>1
  <2>2. CASE u # t
    BY <1>1, <2>2 DEF IInv, TypeOK, PagesInv
  <2> QED BY <2>1, <2>2
<1>10. AnswersInv'
  BY <1>1, <1>2 DEF IInv, TypeOK, AnswersInv
<1>11. EndsInv'
  BY <1>2 DEF IInv, EndsInv, NoSilentEnd, Failed
<1> QED BY <1>7, <1>8, <1>9, <1>10, <1>11 DEF IInv

\* The other steps of a handler change its stage and may send one answer.
LEMMA HandlerKeepsInv ==
    ASSUME IInv, NEW t \in Tasks, Handle(t), ~FetchPage(t)
    PROVE  IInv'
<1>1. PICK to \in Stages \ {"none"} : stage' = [stage EXCEPT ![t] = to]
  BY DEF Handle, GetWorkflow, UnknownWorkflow, FetchFails, HistoryRead, Decide, EngineRaises,
         EngineCancelled, Confirmed, AnswerFails, ReportEnds, Raise, Advance, Stages, Working
<1>2. stage[t] # "none" /\ UNCHANGED << length, status, started, basis, events, token >>
  BY DEF Handle, GetWorkflow, UnknownWorkflow, FetchFails, HistoryRead, Decide, EngineRaises,
         EngineCancelled, Confirmed, AnswerFails, ReportEnds, Raise, Advance,
         serviceVars, pageVars
<1>3. /\ sent \subseteq sent'
      /\ sent' \subseteq sent \cup {Failed(t), Completed(t)}
      /\ Completed(t) \in sent' \ sent => stage[t] = "deciding"
  BY DEF Handle, GetWorkflow, UnknownWorkflow, FetchFails, HistoryRead, Decide, EngineRaises,
         EngineCancelled, Confirmed, AnswerFails, ReportEnds, Raise, Advance,
         Completed, Failed
<1>4. /\ to = "deciding" => token[t] = 0
      /\ to = "failing" => Failed(t) \in sent'
      /\ to = "done" => stage[t] = "failing" \/ status[t] = "completed"
  BY <1>1 DEF Handle, GetWorkflow, UnknownWorkflow, FetchFails, HistoryRead, Decide,
         EngineRaises, EngineCancelled, Confirmed, AnswerFails, ReportEnds, Raise, Advance,
         IInv, TypeOK
<1>5. stage[t] = "deciding" => events[t] = Life!History(started[t])
  <2> SUFFICES ASSUME stage[t] = "deciding"
               PROVE  events[t] = Life!History(started[t])
    OBVIOUS
  <2>1. PICK n \in 0..started[t] :
            events[t] = Life!History(n) /\ token[t] = NextToken(n, started[t])
    BY DEF IInv, PagesInv
  <2>2. token[t] = 0 /\ started[t] \in Nat
    BY DEF IInv, TypeOK, AnswersInv
  <2>3. n = started[t]
    BY <2>1, <2>2 DEF NextToken
  <2> QED BY <2>1, <2>3
<1>6. TypeOK'
  <2>1. {Failed(t), Completed(t)} \subseteq
            [task: Tasks, kind: {"completed", "failed"}, events: Seq(Nat)]
    BY DEF IInv, TypeOK, Completed, Failed
  <2>2. stage' \in [Tasks -> Stages]
    BY <1>1 DEF IInv, TypeOK
  <2> QED BY <1>2, <1>3, <2>1, <2>2 DEF IInv, TypeOK
<1>7. UntouchedInv'
  BY <1>1, <1>2 DEF IInv, TypeOK, UntouchedInv
<1>8. PagesInv'
  BY <1>1, <1>2 DEF IInv, TypeOK, PagesInv
<1>9. AnswersInv'
  <2>1. \A u \in Tasks : stage'[u] = "deciding" => token'[u] = 0
    BY <1>1, <1>2, <1>4 DEF IInv, TypeOK, AnswersInv
  <2>2. ASSUME NEW m \in sent'
        PROVE  /\ status[m.task] # "none"
               /\ m.events = (IF m.kind = "completed" THEN Life!History(started[m.task])
                              ELSE << >>)
    <3>1. CASE m \in sent
      BY <3>1 DEF IInv, AnswersInv
    <3>2. CASE m = Failed(t)
      BY <1>2, <3>2 DEF IInv, UntouchedInv, Failed
    <3>3. CASE m = Completed(t) /\ m \notin sent
      BY <1>2, <1>3, <1>5, <3>3 DEF IInv, UntouchedInv, Completed
    <3> QED BY <1>3, <3>1, <3>2, <3>3
  <2> QED BY <1>2, <2>1, <2>2 DEF AnswersInv
<1>10. EndsInv'
  BY <1>1, <1>2, <1>3, <1>4 DEF IInv, TypeOK, EndsInv, NoSilentEnd, Failed
<1> QED BY <1>6, <1>7, <1>8, <1>9, <1>10 DEF IInv

\* A worker dies with its handlers.
LEMMA WorkerDiesKeepsInv ==
    ASSUME IInv, WorkerDies
    PROVE  IInv'
<1>1. /\ stage' = [t \in Tasks |-> IF stage[t] \in Working THEN "lost" ELSE stage[t]]
      /\ UNCHANGED << length, status, started, basis, sent, events, token >>
      /\ stage \in [Tasks -> Stages]
  BY DEF WorkerDies, serviceVars, pageVars, IInv, TypeOK
<1>2. \A t \in Tasks : /\ stage'[t] \in Stages
                       /\ stage'[t] = stage[t] \/ (stage'[t] = "lost" /\ stage[t] # "none")
  BY <1>1 DEF Stages, Working
<1>3. TypeOK'
  BY <1>1, <1>2 DEF IInv, TypeOK
<1>4. UntouchedInv'
  BY <1>1, <1>2 DEF IInv, UntouchedInv
<1>5. PagesInv'
  BY <1>1, <1>2 DEF IInv, PagesInv
<1>6. AnswersInv'
  BY <1>1, <1>2 DEF IInv, AnswersInv
<1>7. EndsInv'
  BY <1>1, <1>2 DEF IInv, EndsInv, NoSilentEnd, Failed
<1> QED BY <1>3, <1>4, <1>5, <1>6, <1>7 DEF IInv

\* The invariant holds of every worker and service.
THEOREM Invariance == Spec => []IInv
<1>1. Init => IInv
  <2> SUFFICES ASSUME Init
               PROVE  IInv
    OBVIOUS
  <2>1. TypeOK
    <3>1. << >> \in Seq(Nat) /\ 0 \in Nat /\ 1 \in Nat /\ 0 <= 0
      OBVIOUS
    <3> QED BY <3>1 DEF Init, TypeOK, Statuses, Stages, Working
  <2> QED BY <2>1 DEF Init, IInv, UntouchedInv, PagesInv, AnswersInv, EndsInv, NoSilentEnd
<1>2. IInv /\ [Next]_vars => IInv'
  <2> SUFFICES ASSUME IInv, [Next]_vars
               PROVE  IInv'
    OBVIOUS
  <2>1. CASE UNCHANGED vars
    BY <2>1 DEF vars, serviceVars, pageVars, IInv, TypeOK, UntouchedInv, PagesInv,
                AnswersInv, EndsInv, NoSilentEnd, Failed
  <2> QED BY <2>1, StartKeepsInv, ServiceKeepsInv, FetchPageKeepsInv, HandlerKeepsInv,
             WorkerDiesKeepsInv DEF Next
<1> QED BY <1>1, <1>2, PTL DEF Spec

\* The type invariant, of any number of tasks.
THEOREM TypeCorrect == Spec => []TypeOK
<1>1. IInv => TypeOK
  BY DEF IInv
<1> QED BY <1>1, Invariance, PTL

\* No handler of any worker ends without an answer.
THEOREM HandlersAnswer == Spec => []NoSilentEnd
<1>1. IInv => NoSilentEnd
  BY DEF IInv, EndsInv
<1> QED BY <1>1, Invariance, PTL

\* Every task is settled once, and decisions rest on the whole history.
THEOREM LifeIsImplemented == Spec => ImplementsLife
<1>1. Init => Life!Init
  BY DEF Init, Life!Init
<1>2. IInv /\ [Next]_vars => [Life!Next]_(Life!vars)
  <2> SUFFICES ASSUME IInv, Next
               PROVE  Life!Next \/ UNCHANGED Life!vars
    BY DEF vars, serviceVars, Life!vars
  <2>1. CASE EventArrives
    BY <2>1 DEF EventArrives, Life!Next, Life!Grow
  <2>2. CASE \E t \in Tasks : HandOut(t) \/ HandOutUnseen(t)
    BY <2>2 DEF HandOut, HandOutUnseen, Start, Life!Next, Life!Start
  <2>3. CASE \E t \in Tasks : TimeOut(t)
    BY <2>3 DEF TimeOut, Life!Next, Life!GiveUp
  <2>4. CASE \E t \in Tasks : Handle(t)
    BY <2>4 DEF Handle, GetWorkflow, UnknownWorkflow, FetchPage, FetchFails, HistoryRead,
                Decide, EngineRaises, EngineCancelled, Confirmed, AnswerFails, ReportEnds,
                Raise, Advance, serviceVars, Life!vars
  <2>5. CASE \E m \in sent : Settle(m)
    <3>1. PICK m \in sent : Settle(m)
      BY <2>5
    <3>2. /\ m.task \in Tasks /\ m.kind \in {"completed", "failed"}
          /\ basis \in [Tasks -> Seq(Nat)]
      BY DEF IInv, TypeOK
    <3>3. CASE m.kind = "completed"
      <4>1. Life!Complete(m.task)
        BY <3>1, <3>3 DEF Settle, IInv, AnswersInv, Life!Complete
      <4> QED BY <3>2, <4>1 DEF Life!Next
    <3>4. CASE m.kind = "failed"
      <4>1. m.events = << >> /\ basis[m.task] = << >>
        BY <3>1, <3>2, <3>4 DEF Settle, IInv, AnswersInv, UntouchedInv
      <4>2. basis' = basis
        BY <3>1, <3>2, <4>1 DEF Settle
      <4>3. Life!GiveUp(m.task)
        BY <3>1, <3>4, <4>2 DEF Settle, Life!GiveUp
      <4> QED BY <3>2, <4>3 DEF Life!Next
    <3> QED BY <3>2, <3>3, <3>4
  <2>6. CASE WorkerDies
    BY <2>6 DEF WorkerDies, serviceVars, Life!vars
  <2> QED BY <2>1, <2>2, <2>3, <2>4, <2>5, <2>6 DEF Next
<1> QED BY <1>1, <1>2, Invariance, PTL DEF Spec, ImplementsLife, Life!Spec
=============================================================================
