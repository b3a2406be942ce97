------------------------ MODULE WorkflowHistory_proofs ------------------------
(***************************************************************************)
(* What the service may rely on, because the engine is where its history   *)
(* says: that nothing is sent again, that its history is the life of a     *)
(* workflow's commands, that an answer is in the order of the calls; and   *)
(* that a replay which is accepted did what was recorded.                  *)
(***************************************************************************)
EXTENDS WorkflowReplay_proofs

\* A workflow that lets every rejection through ends with it.
LEMMA RejectionsUnwind == Spec => [](LetThrough => Unwinds)
<1>1. Init => Unwinds
  BY DEF Init, ManagerInit, Unwinds
<1>2. Unwinds /\ LetThrough' /\ [Next]_vars => Unwinds'
  BY RejectionKept
<1> QED BY <1>1, <1>2, OutlivedStays, PTL DEF Spec

-----------------------------------------------------------------------------
(* What the service is not given again                                     *)

\* Machines that have nothing to say are not in the answer.
LEMMA SettledSendsNothing ==
    ASSUME IInv, Settled, COMPLETION_ID \notin DOMAIN state_machines
    PROVE  collect_pending_decisions = << >>
<1>1. PICK w : CollectedFrom(collect_pending_decisions, Len(order), w)
  BY CollectedInOrder DEF IInv, ManagerInv
<1>2. PICK c : c = collect_pending_decisions
  OBVIOUS
<1>3. IsSeq(c) /\ w \in [DOMAIN c -> 1..Len(order)] /\ \A k \in DOMAIN c : Sends(w[k])
  BY <1>1, <1>2 DEF CollectedFrom
<1>4. \A m \in 1..Len(order) : order[m] \in DOMAIN state_machines
  BY LenProperties DEF IInv, ManagerInv, MachinesInv, OrderIsKeys
<1>5. \A m \in 1..Len(order) : ~Sends(m)
  BY <1>4 DEF Sends, HasDecision, Settled, Silent, StateOf
<1>6. DOMAIN c = {}
  BY <1>3, <1>5
<1>7. Len(c) = 0
  BY <1>3, <1>6, LenProperties DEF IsSeq
<1> QED BY <1>2, <1>3, <1>7, EmptySeq DEF IsSeq

\* No batch that is replayed ends the workflow.
Unended ==
    phase = "next" /\ (batch.replay \/ pos <= Len(history)) => COMPLETION_ID \notin DOMAIN state_machines

\* In a batch that is replayed the workflow ends only if the event is recorded
\* there.
CompletionRecorded ==
    /\ Unended
    /\ phase = "input" => COMPLETION_ID \notin DOMAIN state_machines
    /\ InBatch /\ batch.replay /\ COMPLETION_ID \in DOMAIN state_machines => Recording(COMPLETION_ID)

\* The workflow's calls make no completion.
LEMMA CallsMakeNoCompletion ==
    ASSUME IInv, KeysInv', WorkflowNext
    PROVE  /\ phase = "run" /\ phase' \in {"run", "complete"}
           /\ UNCHANGED << history, pos, batch, todo, replaying >>
           /\ COMPLETION_ID \in DOMAIN state_machines' => COMPLETION_ID \in DOMAIN state_machines
<1>1. ASSUME NEW op, Calls(op) PROVE phase = "run" /\ UNCHANGED << phase, history, pos, batch, todo >>
  BY <1>1 DEF Calls, serviceVars
<1>2. ASSUME NEW type \in {"ACTIVITY", "TIMER"}, NEW props, NEW request, Request(type, props, request)
      PROVE  /\ UNCHANGED replaying
             /\ COMPLETION_ID \in DOMAIN state_machines' => COMPLETION_ID \in DOMAIN state_machines
  <2>1. DecisionId(type, id_counter) # COMPLETION_ID
    BY DEF DecisionId, COMPLETION_ID
  <2> QED BY <1>2, <2>1 DEF Request, Add
<1>3. ASSUME NEW id, request_cancel(id)
      PROVE  /\ UNCHANGED replaying
             /\ COMPLETION_ID \in DOMAIN state_machines' => COMPLETION_ID \in DOMAIN state_machines
  BY <1>3 DEF request_cancel
<1>4. CASE \/ \E t \in ActivityTypes : ExecuteActivity(t)
           \/ StartTimer
  BY <1>1, <1>2, <1>4 DEF ExecuteActivity, StartTimer, schedule_activity, start_timer
<1>5. CASE \E id : CancelFuture(id)
  BY <1>1, <1>3, <1>5 DEF CancelFuture
<1>6. CASE \E id : AutomaticCancel(id)
  BY <1>3, <1>6 DEF AutomaticCancel, serviceVars, engineVars
<1>7. CASE Yield \/ RejectionUnwinds \/ \E outcome : Ends(outcome)
  BY <1>1, <1>7 DEF Yield, RejectionUnwinds, Ends, managerVars, serviceVars
<1> QED BY <1>4, <1>5, <1>6, <1>7 DEF WorkflowNext, Return, continue_as_new

\* A workflow that cannot continue as new ends in replay only where history
\* records it.
LEMMA EngineKeepsCompletion ==
    ASSUME ~ImmediateCancel, "ContinueAsNew" \notin Outcomes,
           IInv, HistoryInv, EngineStateInv, AckInv, AckInv', CompletionRecorded, EngineNext
    PROVE  CompletionRecorded'
<1> DEFINE Ended == COMPLETION_ID \in DOMAIN state_machines
<1>0. ASSUME phase' \notin EnginePhases PROVE CompletionRecorded'
  BY <1>0 DEF CompletionRecorded, Unended, InBatch, EnginePhases
<1>1. CASE NextDecisionEvents
  <2>1. phase' = "input" \/ phase' = "failed"
    BY <1>1 DEF NextDecisionEvents, Continue
  <2>2. CASE phase' = "input"
    <3>1. phase = "next" /\ pos \in Nat \ {0} /\ UNCHANGED state_machines
      BY <1>1, <2>2, NextBatchFacts DEF EngineStateInv
    <3>2. PICK s : IsBatch(history, pos, batch', s)
      BY <1>1, <2>2, NextBatchFacts DEF EngineStateInv
    <3>3. pos <= Len(history)
      BY <3>1, <3>2, LenProperties DEF IsBatch, IInv, ServiceInv, IsSeq
    <3> QED BY <2>2, <3>1, <3>3 DEF CompletionRecorded, Unended
  <2> QED BY <1>0, <2>1, <2>2 DEF EnginePhases
<1>2. CASE CollectDecisions
  BY <1>0, <1>2 DEF CollectDecisions, EnginePhases
<1>3. ASSUME phase \in {"input", "output"}, phase' = phase, todo # << >>, todo' = Tail(todo),
             UNCHANGED << history, pos, batch >>,
             handle_history_event(history[Head(todo)], Head(todo)), raised' = "none"
      PROVE  CompletionRecorded'
  <2>1. DOMAIN state_machines' = DOMAIN state_machines
    BY Zenon, <1>3 DEF handle_history_event
  <2>2. CASE phase = "input" \/ ~batch.replay \/ ~Ended
    BY <1>3, <2>1, <2>2 DEF CompletionRecorded, Unended, InBatch, EnginePhases
  <2>3. CASE phase = "output" /\ batch.replay /\ Ended
    <3>1. PICK q \in Elems(batch.output) \cap Pending :
              history[q].id = COMPLETION_ID /\ history[q].type \in StartTypes \cup CancelTypes
      BY <2>3 DEF CompletionRecorded, InBatch, EnginePhases, Recording
    <3>2. q # Head(todo)
      <4> SUFFICES ASSUME q = Head(todo) PROVE FALSE
        OBVIOUS
      <4>1. HasHandler(q)
        BY <3>1 DEF HasHandler, type_to_action, StartTypes, CancelTypes
      <4>2. PICK A : A = Applied
        OBVIOUS
      <4>3. AliasesAgree(A)
        BY <2>3, <4>2 DEF EngineStateInv, AgreeInv, Agree, AliasesAgree, EnginePhases
      <4>4. Subject(q) # COMPLETION_ID
        BY <1>3, <4>1, <4>3, EventFindsItsMachine
      <4> QED BY <3>1, <4>4 DEF Subject, SubjectIn, StartTypes, CancelTypes, RefTypes, activity_close_types
    <3>3. IsSeq(todo)
      BY <2>3 DEF EngineStateInv, PlaceInv, BatchInv, InBatch, EnginePhases
    <3>4. PICK k \in DOMAIN todo : todo[k] = q
      BY <2>3, <3>1 DEF Pending, Elems
    <3>5. PICK j : j = k - 1
      OBVIOUS
    <3>6. k = j + 1 /\ j \in DOMAIN Tail(todo)
      BY <1>3, <3>2, <3>3, <3>4, <3>5, HeadAndTail
    <3>7. Tail(todo)[j] = q
      BY <1>3, <3>3, <3>4, <3>6, HeadAndTail
    <3>8. q \in Elems(batch.output) /\ q \in Pending'
      BY <1>3, <2>3, <3>1, <3>6, <3>7 DEF Pending, Elems
    <3>9. Recording(COMPLETION_ID)'
      BY <1>3, <3>1, <3>8 DEF Recording, Elems
    <3> QED BY <1>3, <2>3, <3>9 DEF CompletionRecorded, Unended
  <2> QED BY <1>3, <2>2, <2>3
<1>4. CASE ApplyInputEvent
  BY <1>0, <1>3, <1>4 DEF ApplyInputEvent, Continue, serviceVars, EnginePhases
<1>5. CASE ApplyOutputEvent
  BY <1>0, <1>3, <1>5 DEF ApplyOutputEvent, Continue, serviceVars, EnginePhases
<1>6. ASSUME InBatch, phase \notin {"input", "output"}, phase' \in {"run", "complete", "end", "output"},
             UNCHANGED << history, pos, batch >>, Elems(batch.output) \cap Pending \subseteq Pending',
             DOMAIN state_machines' = DOMAIN state_machines
      PROVE  CompletionRecorded'
  <2>1. Recording(COMPLETION_ID) => Recording(COMPLETION_ID)'
    BY <1>6 DEF Recording, Elems
  <2> QED BY <1>6, <2>1 DEF CompletionRecorded, Unended
<1>7. CASE StartRun
  BY <1>7 DEF StartRun, CompletionRecorded, Unended, managerVars
<1>8. CASE MaybeCompleteWorkflow
  <2>1. /\ phase = "complete" /\ UNCHANGED << history, pos, batch, todo >>
        /\ \/ phase' = "failed"
           \/ phase' = "end" /\ UNCHANGED managerVars
           \/ phase' = "end" /\ raised' = "none" /\ complete_workflow(task) /\ task \in Outcomes \ {"CancelledError"}
    BY <1>8 DEF MaybeCompleteWorkflow, Continue, serviceVars
  <2>2. CASE phase' = "failed"
    BY <1>0, <2>2 DEF EnginePhases
  <2>3. CASE phase' = "end" /\ UNCHANGED managerVars
    <3>1. Elems(batch.output) \cap Pending \subseteq Pending'
      BY <2>1, <2>3 DEF Pending, Elems
    <3> QED BY <1>6, <2>1, <2>3, <3>1 DEF managerVars, InBatch, EnginePhases
  <2>4. CASE phase' = "end" /\ raised' = "none" /\ complete_workflow(task) /\ task \in Outcomes \ {"CancelledError"}
    <3>1. Constrained(task)
      BY <2>4, OutcomesAssumption DEF Constrained
    <3>2. Accepted(COMPLETION_ID, CompletionProps(task))
      BY <2>4, <3>1 DEF complete_workflow, Reject
    <3>3. batch.replay => replaying
      BY <2>1 DEF EngineStateInv, PlaceInv, BatchInv, InBatch, EnginePhases
    <3>4. batch.replay => Recording(COMPLETION_ID)'
      <4> SUFFICES ASSUME batch.replay PROVE Recording(COMPLETION_ID)'
        OBVIOUS
      <4>1. PICK i \in Expected : expectations[i].id = COMPLETION_ID
        BY <3>2, <3>3 DEF Accepted, Validates
      <4>2. PICK p \in Elems(batch.output) :
                history[p].id = COMPLETION_ID /\ history[p].type \in StartTypes \cup CancelTypes
        BY <2>1, <4>1 DEF AckInv, Foretold
      <4>3. p \in Pending'
        BY <2>1, <2>4, <4>2 DEF Pending, Elems
      <4> QED BY <2>1, <4>2, <4>3 DEF Recording, Elems
    <3> QED BY <2>1, <2>4, <3>4 DEF CompletionRecorded, Unended
  <2> QED BY <2>1, <2>2, <2>3, <2>4
<1>9. CASE EndExecution
  <2>1. phase' = "failed" \/ phase' = "output"
    BY <1>9 DEF EndExecution, Continue
  <2>2. phase' = "output" => Elems(batch.output) \cap Pending \subseteq Pending'
    BY <1>9 DEF EndExecution, Pending, Elems
  <2>3. DOMAIN state_machines' = DOMAIN state_machines
    BY <1>9 DEF EndExecution, end_execution
  <2> QED BY <1>0, <1>6, <1>9, <2>1, <2>2, <2>3 DEF EndExecution, serviceVars, InBatch, EnginePhases
<1>10. CASE FinishBatch
  <2>1. /\ phase = "output" /\ todo = << >> /\ phase' = "next"
        /\ UNCHANGED << history, pos, batch, todo, state_machines >>
    BY <1>10 DEF FinishBatch, managerVars, serviceVars
  <2>2. InBatch /\ Pending = {}
    BY <2>1 DEF InBatch, EnginePhases, Pending, Elems
  <2>3. batch.replay => ~Ended
    BY <2>2 DEF CompletionRecorded, Recording
  <2>4. ~batch.replay => ~(pos <= Len(history))
    <3>1. pos \in Nat /\ Len(history) \in Nat
      BY LenProperties DEF IInv, ServiceInv, IsSeq
    <3> QED BY <2>2, <3>1 DEF AckInv, LiveIsLast
  <2> QED BY <2>1, <2>3, <2>4 DEF CompletionRecorded, Unended, InBatch
<1> QED BY <1>1, <1>2, <1>4, <1>5, <1>7, <1>8, <1>9, <1>10 DEF EngineNext

-----------------------------------------------------------------------------
(* What the script holds                                                   *)

\* The call that ends the workflow function.
IsReturn(op) == op[1] = "return"

\* The answers recorded from position p on.
AnswersFrom(h, p) == {i \in p..Len(h) : h[i].type = "DecisionTaskCompleted"}

\* The script has an entry for every answer, in the order of the answers; a
\* return is in the last of a workflow that is over.
ScriptInv ==
    /\ IsSeq(ops) /\ replayed \in Nat /\ (phase = "idle" => replayed = 0)
    /\ IsSeq(script)
    /\ \A k \in DOMAIN script : IsSeq(script[k].ops)
    /\ Deterministic =>
           Cardinality(AnswersFrom(history, 1)) = Len(script) + IF phase = "record" THEN 1 ELSE 0
    /\ phase \in EnginePhases /\ (phase = "next" => batch.replay \/ pos <= Len(history)) =>
           Cardinality(AnswersFrom(history, 1))
               = replayed + (IF InBatch /\ batch.replay THEN 1 ELSE 0)
                     + Cardinality(AnswersFrom(history, pos))

\* What it returned is what it answered with.
EndInv ==
    /\ (\E j \in DOMAIN ops : IsReturn(ops[j])) => task \in Outcomes
    /\ phase \in {"next", "end", "output", "respond", "record"} /\ task \in Outcomes =>
           COMPLETION_ID \in DOMAIN state_machines
    /\ phase \in {"respond", "record"} /\ COMPLETION_ID \in DOMAIN state_machines =>
           Closed \/ \E i \in DOMAIN decisions : ClosesWorkflow(decisions[i])
    /\ ~Closed =>
           \A k \in DOMAIN script : \A j \in DOMAIN script[k].ops : ~IsReturn(script[k].ops[j])

\* In a replay of its own run the workflow does not end.
RunsOn ==
    /\ InBatch /\ (batch.replay \/ phase = "input") => task \notin Outcomes
    /\ phase = "next" /\ (batch.replay \/ pos <= Len(history)) => task \notin Outcomes

\* Where no answer is among what is written behind a history, it has the
\* answers it had.
LEMMA SameAnswers ==
    ASSUME NEW h, NEW new, IsSeq(h), IsSeq(new),
           \A k \in DOMAIN new : new[k].type # "DecisionTaskCompleted"
    PROVE  AnswersFrom(h \o new, 1) = AnswersFrom(h, 1)
<1>1. /\ DOMAIN h = 1..Len(h) /\ DOMAIN (h \o new) = 1..Len(h \o new)
      /\ \A i \in DOMAIN h : i \in DOMAIN (h \o new) /\ (h \o new)[i] = h[i]
      /\ \A i \in DOMAIN (h \o new) :
             i \in DOMAIN h \/ \E k \in DOMAIN new : (h \o new)[i] = new[k]
  <2>1. PICK g : g = h \o new
    OBVIOUS
  <2>2. IsSeq(g) /\ DOMAIN h = 1..Len(h) /\ DOMAIN g = 1..Len(g)
    <3>1. IsSeq(g)
      BY <2>1, ConcatIsSeq
    <3> QED BY <3>1, LenProperties DEF IsSeq
  <2>3. \A i \in DOMAIN h : i \in DOMAIN g /\ g[i] = h[i]
    <3>1. Len(h) \in Nat /\ Len(new) \in Nat /\ DOMAIN g = 1..(Len(h) + Len(new))
      BY <2>1, ConcatPositions
    <3>2. \A i \in DOMAIN h : g[i] = h[i]
      BY <2>1, ConcatPositions
    <3> QED BY <2>2, <3>1, <3>2
  <2>4. \A i \in DOMAIN g : i \in DOMAIN h \/ \E k \in DOMAIN new : g[i] = new[k]
    <3>1. \A i \in DOMAIN g : i \in DOMAIN h \/ \E k \in DOMAIN new : i = Len(h) + k
      BY <2>1, ConcatPositions
    <3>2. \A k \in DOMAIN new : g[Len(h) + k] = new[k]
      BY <2>1, ConcatPositions
    <3> QED BY <3>1, <3>2
  <2> QED BY <2>1, <2>2, <2>3, <2>4
<1> QED BY <1>1 DEF AnswersFrom

\* What is appended comes last.
LEMMA AppendPositions ==
    ASSUME NEW s, IsSeq(s), NEW x, NEW n, n = Len(s)
    PROVE  /\ n \in Nat /\ DOMAIN s = 1..n
           /\ IsSeq(Append(s, x)) /\ Len(Append(s, x)) = n + 1 /\ DOMAIN Append(s, x) = 1..(n + 1)
           /\ Append(s, x)[n + 1] = x
           /\ \A i \in 1..n : Append(s, x)[i] = s[i]
<1>1. n \in Nat /\ DOMAIN s = 1..n
  BY LenProperties DEF IsSeq
<1>2. PICK S : S = {s[i] : i \in DOMAIN s} \cup {x}
  OBVIOUS
<1>3. s \in Seq(S) /\ x \in S
  BY <1>2, SeqMonotonic DEF IsSeq
<1>4. /\ Len(Append(s, x)) = n + 1
      /\ Append(s, x)[n + 1] = x
      /\ \A i \in 1..n : Append(s, x)[i] = s[i]
  BY <1>1, <1>3, AppendProperties
<1>5. IsSeq(Append(s, x))
  BY AppendIsSeq
<1>6. DOMAIN Append(s, x) = 1..(n + 1)
  BY <1>4, <1>5, LenProperties DEF IsSeq
<1> QED BY <1>1, <1>4, <1>5, <1>6

\* One more answer.
LEMMA OneAnswerMore ==
    ASSUME NEW h, IsSeq(h), NEW e, e.type = "DecisionTaskCompleted"
    PROVE  Cardinality(AnswersFrom(Append(h, e), 1)) = Cardinality(AnswersFrom(h, 1)) + 1
<1>1. PICK n \in Nat : n = Len(h) /\ DOMAIN h = 1..n
  BY LenProperties DEF IsSeq
<1>2. PICK g : g = Append(h, e)
  OBVIOUS
<1>3. Len(g) = n + 1 /\ g[n + 1] = e /\ \A i \in 1..n : g[i] = h[i]
  BY <1>1, <1>2, AppendPositions
<1>4. IsFiniteSet(AnswersFrom(h, 1)) /\ n + 1 \notin AnswersFrom(h, 1)
  <2>1. AnswersFrom(h, 1) \subseteq 1..n /\ IsFiniteSet(1..n)
    BY <1>1, FS_Interval DEF AnswersFrom
  <2> QED BY <1>1, <2>1, FS_Subset
<1>5. AnswersFrom(g, 1) = AnswersFrom(h, 1) \cup {n + 1}
  BY <1>1, <1>3 DEF AnswersFrom
<1> QED BY <1>2, <1>4, <1>5, FS_AddElement

\* The service writes an answer only when it takes one.
LEMMA ServiceAnswers ==
    ASSUME IInv, HistoryInv, DecisionsInv, ServiceNext,
           ~(RespondDecisionTaskCompleted /\ history' = Append(history, Event("DecisionTaskCompleted")))
    PROVE  AnswersFrom(history', 1) = AnswersFrom(history, 1)
<1>1. IsSeq(history) /\ IsSeq(buffered)
  BY DEF IInv, ServiceInv
<1>2. \A k \in DOMAIN buffered : buffered[k].type # "DecisionTaskCompleted"
  BY DEF HistoryInv, WrittenInv, Writable, RefTypes, activity_close_types
<1>3. \A e : e.type # "DecisionTaskCompleted" =>
          /\ IsSeq(<< e >>)
          /\ \A k \in DOMAIN << e >> : << e >>[k].type # "DecisionTaskCompleted"
  BY TuplesAreSeqs
<1>4. \A e, f : e.type # "DecisionTaskCompleted" /\ f.type # "DecisionTaskCompleted" =>
          /\ IsSeq(<< e, f >>)
          /\ \A k \in DOMAIN << e, f >> : << e, f >>[k].type # "DecisionTaskCompleted"
  BY TuplesAreSeqs
<1>5. ASSUME NEW new, IsSeq(new), \A k \in DOMAIN new : new[k].type # "DecisionTaskCompleted",
             history' = history \o new \/ history' = history
      PROVE  AnswersFrom(history', 1) = AnswersFrom(history, 1)
  BY <1>1, <1>5, SameAnswers
<1>6. ASSUME NEW s, NEW type \in CloseEvents, ActivityCloses(s, type)
      PROVE  AnswersFrom(history', 1) = AnswersFrom(history, 1)
  <2>1. PICK e, f : e = RefEvent("ActivityTaskStarted", s) /\ f = RefEvent(type, s)
    OBVIOUS
  <2>2. e.type # "DecisionTaskCompleted" /\ f.type # "DecisionTaskCompleted"
    BY <2>1, CloseEventsAssumption DEF RefEvent
  <2>3. Arrive(<< f >>) \/ Arrive(<< e, f >>)
    BY <1>6, <2>1 DEF ActivityCloses
  <2>4. CASE Arrive(<< f >>)
    BY <1>3, <1>5, <2>2, <2>4 DEF Arrive
  <2>5. CASE Arrive(<< e, f >>)
    BY <1>4, <1>5, <2>2, <2>5 DEF Arrive
  <2> QED BY <2>3, <2>4, <2>5
<1>7. ASSUME NEW id, TimerFires(id) PROVE AnswersFrom(history', 1) = AnswersFrom(history, 1)
  <2>1. IdEvent("TimerFired", id).type # "DecisionTaskCompleted"
    BY DEF IdEvent
  <2> QED BY <1>3, <1>5, <1>7, <2>1 DEF TimerFires, Arrive
<1>8. CASE SignalArrives
  <2>1. Event("WorkflowExecutionSignaled").type # "DecisionTaskCompleted"
    BY DEF Event
  <2> QED BY <1>3, <1>5, <1>8, <2>1 DEF SignalArrives, Arrive
<1>9. CASE PollDecisionTask
  <2>1. Event("DecisionTaskStarted").type # "DecisionTaskCompleted"
    BY DEF Event
  <2>2. history' = history \o << Event("DecisionTaskStarted") >>
    BY <1>1, <1>9, AppendIsBehind DEF PollDecisionTask
  <2> QED BY <1>3, <1>5, <2>1, <2>2
<1>10. ASSUME NEW type \in unsuccessful, Unsuccessfully(type)
       PROVE  AnswersFrom(history', 1) = AnswersFrom(history, 1)
  <2>1. PICK e : e = Event(type)
    OBVIOUS
  <2>2. e.type # "DecisionTaskCompleted"
    BY <2>1 DEF Event, unsuccessful
  <2>3. PICK h : h = history \o << e >>
    OBVIOUS
  <2>4. IsSeq(h) /\ AnswersFrom(h, 1) = AnswersFrom(history, 1)
    BY <1>1, <1>3, <2>2, <2>3, SameAnswers, ConcatIsSeq
  <2>5. history' = h \o buffered
    BY <1>10, <2>1, <2>3 DEF Unsuccessfully
  <2> QED BY <1>1, <1>2, <2>4, <2>5, SameAnswers
<1>11. CASE RecordDecision
  <2>1. PICK d : d = Head(decisions)
    OBVIOUS
  <2>2. d.what # "CancelledError" \/ ~ClosesWorkflow(d)
    <3>1. d = decisions[1] /\ 1 \in DOMAIN decisions
      BY <1>11, <2>1, HeadAndTail DEF RecordDecision, DecisionsInv
    <3>2. Sendable(history, d)
      BY <3>1 DEF HistoryInv, AnswerInv
    <3> QED BY <3>2, OutcomesAssumption DEF Sendable, ClosesWorkflow
  <2>3. ASSUME NEW type, type # "DecisionTaskCompleted", history' = Append(history, RecordedEvent(type, d))
        PROVE  AnswersFrom(history', 1) = AnswersFrom(history, 1)
    <3>1. RecordedEvent(type, d).type # "DecisionTaskCompleted"
      BY <2>3 DEF RecordedEvent
    <3> QED BY <1>1, <1>3, <1>5, <2>3, <3>1, AppendIsBehind
  <2>4. CASE history' = history \o << RecordedEvent("ActivityTaskCancelRequested", d),
                                     RecordedEvent("RequestCancelActivityTaskFailed", d) >>
    <3>1. /\ RecordedEvent("ActivityTaskCancelRequested", d).type # "DecisionTaskCompleted"
          /\ RecordedEvent("RequestCancelActivityTaskFailed", d).type # "DecisionTaskCompleted"
      BY DEF RecordedEvent
    <3> QED BY <1>4, <1>5, <2>4, <3>1
  <2>5. CASE ClosesWorkflow(d) /\ history' = Append(history, RecordedEvent(CloseEvent[d.what], d))
    <3>1. CloseEvent[d.what] # "DecisionTaskCompleted"
      <4>1. d.what \in {"Complete", "Fail", "ContinueAsNew"}
        BY <2>2, <2>5, OutcomesAssumption DEF ClosesWorkflow
      <4> QED BY <4>1 DEF CloseEvent
    <3> QED BY <2>3, <2>5, <3>1
  <2> QED BY <1>11, <2>1, <2>3, <2>4, <2>5 DEF RecordDecision
<1>12. CASE FinishDecisionTask
  BY <1>1, <1>2, <1>5, <1>12 DEF FinishDecisionTask
<1>13. CASE DecisionTaskTimesOut \/ RespondDecisionTaskFailed
  BY <1>10, <1>13 DEF DecisionTaskTimesOut, RespondDecisionTaskFailed, unsuccessful
<1>14. CASE RespondDecisionTaskCompleted
  BY <1>10, <1>14 DEF RespondDecisionTaskCompleted, unsuccessful
<1> QED BY <1>6, <1>7, <1>8, <1>9, <1>11, <1>12, <1>13, <1>14 DEF ServiceNext

\* The service never takes an event back.
LEMMA HistoryIsKept ==
    ASSUME IInv, ServiceNext
    PROVE  \A i \in DOMAIN history : i \in DOMAIN history' /\ history'[i] = history[i]
<1>1. IsSeq(history) /\ IsSeq(buffered)
  BY DEF IInv, ServiceInv
<1>2. ASSUME NEW h, NEW new, IsSeq(h), IsSeq(new)
      PROVE  \A i \in DOMAIN h : i \in DOMAIN (h \o new) /\ (h \o new)[i] = h[i]
  <2>1. \A i \in DOMAIN h : (h \o new)[i] = h[i]
    BY ZenonT(40), <1>2, ConcatPositions
  <2>2. Len(h) \in Nat /\ Len(new) \in Nat /\ DOMAIN h = 1..Len(h) /\ DOMAIN (h \o new) = 1..(Len(h) + Len(new))
    BY <1>2, ConcatPositions
  <2>3. DOMAIN h \subseteq DOMAIN (h \o new)
    <3>1. PICK m, n : m = Len(h) /\ n = Len(new)
      OBVIOUS
    <3>2. DOMAIN h = 1..m /\ DOMAIN (h \o new) = 1..(m + n) /\ m \in Nat /\ n \in Nat
      BY <2>2, <3>1
    <3>3. 1..m \subseteq 1..(m + n)
      BY <3>2
    <3> QED BY <3>2, <3>3
  <2> QED BY <2>1, <2>3
<1>3. ASSUME NEW new, IsSeq(new), history' = history \o new \/ history' = history
      PROVE  \A i \in DOMAIN history : i \in DOMAIN history' /\ history'[i] = history[i]
  BY <1>1, <1>2, <1>3
<1>4. \A e, f : IsSeq(<< e >>) /\ IsSeq(<< e, f >>)
  BY TuplesAreSeqs
<1>5. ASSUME NEW e, history' = Append(history, e)
      PROVE  \A i \in DOMAIN history : i \in DOMAIN history' /\ history'[i] = history[i]
  BY <1>1, <1>3, <1>4, <1>5, AppendIsBehind
<1>6. ASSUME NEW events, Arrive(events), IsSeq(events)
      PROVE  \A i \in DOMAIN history : i \in DOMAIN history' /\ history'[i] = history[i]
  BY <1>3, <1>6 DEF Arrive
<1>7. ASSUME NEW type, Unsuccessfully(type)
      PROVE  \A i \in DOMAIN history : i \in DOMAIN history' /\ history'[i] = history[i]
  <2>1. PICK h : h = history \o << Event(type) >>
    OBVIOUS
  <2>2. IsSeq(h) /\ \A i \in DOMAIN history : i \in DOMAIN h /\ h[i] = history[i]
    BY <1>1, <1>2, <1>4, <2>1, ConcatIsSeq
  <2>3. history' = h \o buffered
    BY <1>7, <2>1 DEF Unsuccessfully
  <2> QED BY <1>1, <1>2, <2>2, <2>3
<1>8. CASE \/ \E s \in DOMAIN history, type \in CloseEvents : ActivityCloses(s, type)
           \/ \E n \in 0..(MaxIds - 1) : TimerFires(DecisionId("TIMER", n))
           \/ SignalArrives
  BY <1>4, <1>6, <1>8 DEF ActivityCloses, TimerFires, SignalArrives
<1>9. CASE PollDecisionTask
  BY <1>5, <1>9 DEF PollDecisionTask
<1>10. CASE DecisionTaskTimesOut \/ RespondDecisionTaskFailed \/ RespondDecisionTaskCompleted
  BY <1>5, <1>7, <1>10 DEF DecisionTaskTimesOut, RespondDecisionTaskFailed, RespondDecisionTaskCompleted
<1>11. CASE RecordDecision
  BY <1>3, <1>4, <1>5, <1>11 DEF RecordDecision
<1>12. CASE FinishDecisionTask
  BY <1>1, <1>3, <1>12 DEF FinishDecisionTask
<1> QED BY <1>8, <1>9, <1>10, <1>11, <1>12 DEF ServiceNext

\* What the engine and the workflow do leaves the service's events alone.
LEMMA WorkerWritesNothing ==
    ASSUME EngineNext \/ WorkflowNext
    PROVE  /\ UNCHANGED << history, buffered, script >>
           /\ phase \in EnginePhases /\ phase' \notin {"idle", "record"}
           /\ ~CollectDecisions => UNCHANGED decisions /\ phase' # "respond"
<1>1. ASSUME NEW op, Calls(op) PROVE UNCHANGED << serviceVars, script, phase >> /\ phase = "run"
  BY <1>1 DEF Calls
<1>2. ASSUME NEW id, AutomaticCancel(id) PROVE UNCHANGED << serviceVars, script, phase >> /\ phase = "run"
  BY <1>2 DEF AutomaticCancel, engineVars, userVars
<1>3. CASE Yield
  BY <1>3 DEF Yield, serviceVars, userVars, EnginePhases
<1>4. CASE WorkflowNext /\ ~Yield
  <2>1. RejectionUnwinds => UNCHANGED << serviceVars, script, phase >> /\ phase = "run"
    BY DEF RejectionUnwinds, userVars
  <2> QED BY <1>1, <1>2, <1>4, <2>1
      DEF WorkflowNext, ExecuteActivity, StartTimer, CancelFuture, Return,
          continue_as_new, Ends, serviceVars, EnginePhases
<1>5. CASE EngineNext
  BY <1>5 DEF EngineNext, NextDecisionEvents, CollectDecisions, ApplyInputEvent, StartRun,
              MaybeCompleteWorkflow, EndExecution, ApplyOutputEvent, FinishBatch, Continue, serviceVars,
              userVars, EnginePhases
<1> QED BY <1>3, <1>4, <1>5

\* What the service does when it takes no answer and ends none.
LEMMA ServiceKeepsTheRest ==
    ASSUME ServiceNext, ~PollDecisionTask, ~FinishDecisionTask,
           ~(RespondDecisionTaskCompleted /\ history' = Append(history, Event("DecisionTaskCompleted")))
    PROVE  /\ phase' \notin EnginePhases /\ (phase' = "record" <=> phase = "record")
           /\ UNCHANGED script
           /\ \/ UNCHANGED << ops, replayed, phase, view, state_machines, task >>
              \/ /\ phase' = "idle" /\ ops' = << >> /\ replayed' = 0 /\ view' = << >>
                 /\ state_machines' = << >> /\ task' = "none"
<1>1. ASSUME NEW events, Arrive(events)
      PROVE  /\ UNCHANGED << phase, ops, replayed, script, view, state_machines, task >>
             /\ phase \in {"idle", "respond"}
  BY <1>1 DEF Arrive, engineVars, userVars, managerVars
<1>2. ASSUME NEW type, Unsuccessfully(type)
      PROVE  /\ UNCHANGED script /\ phase' = "idle" /\ ops' = << >> /\ replayed' = 0 /\ view' = << >>
             /\ state_machines' = << >> /\ task' = "none"
  BY <1>2 DEF Unsuccessfully, DropEngine, NewManager
<1>3. CASE \/ \E s \in DOMAIN history, type \in CloseEvents : ActivityCloses(s, type)
           \/ \E n \in 0..(MaxIds - 1) : TimerFires(DecisionId("TIMER", n))
           \/ SignalArrives
  <2>1. UNCHANGED << phase, ops, replayed, script, view, state_machines, task >> /\ phase \in {"idle", "respond"}
    BY <1>1, <1>3 DEF ActivityCloses, TimerFires, SignalArrives
  <2> QED BY <2>1 DEF EnginePhases
<1>4. CASE DecisionTaskTimesOut \/ RespondDecisionTaskFailed
  <2>1. phase # "record"
    BY <1>4 DEF DecisionTaskTimesOut, RespondDecisionTaskFailed
  <2> QED BY <1>2, <1>4, <2>1 DEF DecisionTaskTimesOut, RespondDecisionTaskFailed, EnginePhases
<1>5. CASE RespondDecisionTaskCompleted
  <2>1. phase = "respond" /\ Unsuccessfully("DecisionTaskFailed")
    BY <1>5 DEF RespondDecisionTaskCompleted
  <2> QED BY <1>2, <2>1 DEF EnginePhases
<1>6. CASE RecordDecision
  BY <1>6 DEF RecordDecision, engineVars, userVars, managerVars, EnginePhases
<1> QED BY <1>3, <1>4, <1>5, <1>6 DEF ServiceNext

\* What the service does keeps the script in step with the answers.
LEMMA ServiceKeepsScript ==
    ASSUME IInv, HistoryInv, DecisionsInv, EngineStateInv, ScriptInv, ServiceNext
    PROVE  ScriptInv'
<1> DEFINE Taken == RespondDecisionTaskCompleted /\ history' = Append(history, Event("DecisionTaskCompleted"))
<1>1. IsSeq(history) /\ Event("DecisionTaskCompleted").type = "DecisionTaskCompleted"
  BY DEF IInv, ServiceInv, Event
<1>2. PICK n : n = Cardinality(AnswersFrom(history, 1))
  OBVIOUS
<1>3. /\ IsSeq(ops) /\ replayed \in Nat /\ IsSeq(script)
      /\ \A k \in DOMAIN script : IsSeq(script[k].ops)
      /\ phase = "idle" => replayed = 0
      /\ Deterministic => n = Len(script) + IF phase = "record" THEN 1 ELSE 0
  BY <1>2 DEF ScriptInv
<1>4. CASE Taken
  <2>1. Cardinality(AnswersFrom(history', 1)) = n + 1
    BY <1>1, <1>2, <1>4, OneAnswerMore
  <2>2. phase = "respond" /\ UNCHANGED << script, ops, replayed >> /\ phase' = "record"
    <3>1. phase = "respond" /\ (Unsuccessfully("DecisionTaskFailed") \/ (phase' = "record" /\ UNCHANGED userVars))
      BY <1>4 DEF RespondDecisionTaskCompleted
    <3>2. ~Unsuccessfully("DecisionTaskFailed")
      <4> SUFFICES ASSUME Unsuccessfully("DecisionTaskFailed") PROVE FALSE
        OBVIOUS
      <4>1. AnswersFrom(history', 1) = AnswersFrom(history, 1)
        <5>1. PICK h : h = history \o << Event("DecisionTaskFailed") >>
          OBVIOUS
        <5>2. IsSeq(buffered) /\ \A k \in DOMAIN buffered : buffered[k].type # "DecisionTaskCompleted"
          BY DEF IInv, ServiceInv, HistoryInv, WrittenInv, Writable, RefTypes, activity_close_types
        <5>3. IsSeq(h) /\ AnswersFrom(h, 1) = AnswersFrom(history, 1)
          <6>1. PICK e : e = Event("DecisionTaskFailed")
            OBVIOUS
          <6>2. IsSeq(<< e >>) /\ \A k \in DOMAIN << e >> : << e >>[k].type # "DecisionTaskCompleted"
            BY <6>1, TuplesAreSeqs DEF Event
          <6> QED BY <1>1, <5>1, <6>1, <6>2, SameAnswers, ConcatIsSeq
        <5>4. history' = h \o buffered
          BY <5>1 DEF Unsuccessfully
        <5> QED BY <5>2, <5>3, <5>4, SameAnswers
      <4>2. n \in Nat
        <5>1. AnswersFrom(history, 1) \subseteq 1..Len(history) /\ IsFiniteSet(1..Len(history))
          BY <1>1, FS_Interval, LenProperties DEF AnswersFrom, IsSeq
        <5> QED BY <1>2, <5>1, FS_Subset, FS_CardinalityType
      <4> QED BY <1>2, <2>1, <4>1, <4>2
    <3> QED BY <3>1, <3>2 DEF userVars
  <2>3. Len(script) \in Nat
    BY <1>3, LenProperties DEF IsSeq
  <2>4. n = Len(script) => Cardinality(AnswersFrom(history', 1)) = Len(script) + 1
    BY <2>1
  <2> HIDE DEF Taken
  <2> QED BY <1>3, <2>2, <2>3, <2>4 DEF ScriptInv, EnginePhases
<1>5. CASE ~Taken
  <2>1. AnswersFrom(history', 1) = AnswersFrom(history, 1)
    BY <1>5, ServiceAnswers
  <2>2. CASE PollDecisionTask
    <3>1. /\ phase = "idle" /\ phase' = "next" /\ pos' = 1 /\ replayed' = 0
          /\ UNCHANGED << ops, script, replayed, batch >>
      BY <1>3, <2>2 DEF PollDecisionTask, EngineStateInv, IdleInv, userVars
    <3>2. n \in Nat
      <4>1. AnswersFrom(history, 1) \subseteq 1..Len(history) /\ IsFiniteSet(1..Len(history))
        BY <1>1, FS_Interval, LenProperties DEF AnswersFrom, IsSeq
      <4> QED BY <1>2, <4>1, FS_Subset, FS_CardinalityType
    <3> HIDE DEF Taken
    <3>3. Cardinality(AnswersFrom(history', 1)) = n /\ Cardinality(AnswersFrom(history', pos')) = n
      BY <1>2, <2>1, <3>1
    <3>4. n = 0 + 0 + n
      BY <3>2
    <3> QED BY <1>3, <3>1, <3>3, <3>4 DEF ScriptInv, InBatch
  <2>3. CASE FinishDecisionTask
    <3>1. /\ phase = "record" /\ phase' = "idle" /\ ops' = << >> /\ replayed' = 0
          /\ script' = IF Deterministic THEN Append(script, [view |-> view, ops |-> ops]) ELSE script
      BY <2>3 DEF FinishDecisionTask, DropEngine
    <3>2. PICK m : m = Len(script)
      OBVIOUS
    <3>3. PICK x : x = [view |-> view, ops |-> ops]
      OBVIOUS
    <3>4. /\ IsSeq(script') /\ IsSeq(ops')
          /\ \A k \in DOMAIN script' : IsSeq(script'[k].ops)
          /\ Deterministic => Len(script') = m + 1
          /\ m \in Nat
      <4>1. x.ops = ops
        BY <3>3
      <4>2. PICK g : g = Append(script, x)
        OBVIOUS
      <4>3. /\ m \in Nat /\ IsSeq(g) /\ Len(g) = m + 1 /\ DOMAIN script = 1..m
            /\ DOMAIN g = 1..(m + 1) /\ g[m + 1] = x /\ \A k \in 1..m : g[k] = script[k]
        BY <1>3, <3>2, <4>2, AppendPositions
      <4>4. \A k \in DOMAIN g : IsSeq(g[k].ops)
        BY <1>3, <4>1, <4>3
      <4> QED BY <1>3, <3>1, <3>3, <4>2, <4>3, <4>4, EmptyIsSeq
    <3> HIDE DEF Taken
    <3>5. Cardinality(AnswersFrom(history', 1)) = n
      BY <1>2, <2>1
    <3>6. Deterministic => n = m + 1
      BY <1>3, <3>1, <3>2
    <3>7. Deterministic => Cardinality(AnswersFrom(history', 1)) = Len(script')
      BY <3>4, <3>5, <3>6
    <3>8. Len(script') \in Nat
      BY <3>4, LenProperties DEF IsSeq
    <3> QED BY <3>1, <3>4, <3>7, <3>8 DEF ScriptInv, EnginePhases
  <2>4. CASE ~PollDecisionTask /\ ~FinishDecisionTask
    <3>1. /\ phase' \notin EnginePhases /\ (phase' = "record" <=> phase = "record")
          /\ UNCHANGED script
          /\ \/ UNCHANGED << ops, replayed, phase >>
             \/ phase' = "idle" /\ ops' = << >> /\ replayed' = 0
      BY <1>5, <2>4, ServiceKeepsTheRest
    <3> HIDE DEF Taken
    <3>2. IsSeq(ops') /\ replayed' \in Nat /\ (phase' = "idle" => replayed' = 0)
      BY <1>3, <3>1, EmptyIsSeq
    <3> QED BY <1>2, <1>3, <2>1, <3>1, <3>2 DEF ScriptInv
  <2> QED BY <2>2, <2>3, <2>4
<1> QED BY <1>4, <1>5

\* A replayed batch has one answer, the last none.
LEMMA BatchAnswers ==
    ASSUME NEW h, IsSeq(h), Shaped(h), NEW p \in Nat \ {0}, NEW b, NEW s, IsBatch(h, p, b, s),
           p \in DOMAIN h => ~Records(h[p])
    PROVE  Cardinality(AnswersFrom(h, p))
               = (IF b.replay THEN 1 ELSE 0) + Cardinality(AnswersFrom(h, b.next))
<1>1. PICK n \in Nat : n = Len(h) /\ DOMAIN h = 1..n
  BY LenProperties DEF IsSeq
<1>2. /\ s \in p..n
      /\ b.replay = (s < n)
      /\ b.replay => h[s + 1].type = "DecisionTaskCompleted"
      /\ b.next \in (IF b.replay THEN s + 2 ELSE s + 1)..(n + 1)
      /\ \A i \in (IF b.replay THEN s + 2 ELSE s + 1)..(b.next - 1) : is_decision_event(h[i])
  BY <1>1 DEF IsBatch
<1>3. \A i \in p..s : h[i].type # "DecisionTaskCompleted"
  BY BatchInputIsPlain DEF Records
<1>4. \A i : is_decision_event(h[i]) => h[i].type # "DecisionTaskCompleted"
  BY DEF is_decision_event, decision_event_types
<1>5. PICK q : q = b.next
  OBVIOUS
<1>6. AnswersFrom(h, q) \subseteq 1..n /\ IsFiniteSet(1..n)
  <2>1. q \in 1..(n + 1)
    BY <1>1, <1>2, <1>5
  <2>2. AnswersFrom(h, q) \subseteq 1..n
    BY <1>1, <2>1 DEF AnswersFrom
  <2>3. IsFiniteSet(1..n)
    BY <1>1, FS_Interval
  <2> QED BY <2>2, <2>3
<1>7. IsFiniteSet(AnswersFrom(h, q)) /\ Cardinality(AnswersFrom(h, q)) \in Nat
  BY <1>6, FS_Subset, FS_CardinalityType
<1>8. CASE b.replay
  <2>1. s + 1 \notin AnswersFrom(h, q)
    BY <1>1, <1>2, <1>5, <1>8 DEF AnswersFrom
  <2>2. AnswersFrom(h, p) = AnswersFrom(h, q) \cup {s + 1}
    <3>0. \A i \in (s + 2)..(q - 1) : h[i].type # "DecisionTaskCompleted"
      BY <1>2, <1>4, <1>5, <1>8
    <3>1. ASSUME NEW i \in p..n, h[i].type = "DecisionTaskCompleted" PROVE i = s + 1 \/ i \in q..n
      <4>1. i \notin p..s /\ i \notin (s + 2)..(q - 1)
        BY <1>3, <3>0, <3>1
      <4>2. q \in Nat /\ s \in Nat
        BY <1>1, <1>2, <1>5, <1>8
      <4> QED BY <1>1, <4>1, <4>2
    <3>2. s + 1 \in p..n /\ \A i \in q..n : i \in p..n
      BY SMTT(30), <1>1, <1>2, <1>5, <1>8
    <3> QED BY <1>1, <1>2, <1>8, <3>1, <3>2 DEF AnswersFrom
  <2>3. Cardinality(AnswersFrom(h, p)) = Cardinality(AnswersFrom(h, q)) + 1
    BY <1>7, <2>1, <2>2, FS_AddElement
  <2> QED BY <1>5, <1>7, <1>8, <2>3
<1>9. CASE ~b.replay
  <2>1. AnswersFrom(h, p) = AnswersFrom(h, q)
    <3>1. \A i \in p..n : h[i].type = "DecisionTaskCompleted" => i \in q..n
      BY <1>1, <1>2, <1>3, <1>4, <1>5, <1>9
    <3>2. \A i \in q..n : i \in p..n
      BY <1>1, <1>2, <1>5, <1>9
    <3> QED BY <1>1, <3>1, <3>2 DEF AnswersFrom
  <2> QED BY <1>5, <1>7, <1>9, <2>1
<1> QED BY <1>8, <1>9

\* The engine and the workflow keep it too: one entry is used up by every
\* batch.
LEMMA WorkerKeepsScript ==
    ASSUME ~ImmediateCancel, IInv, HistoryInv, EngineStateInv, ShapeInv, BoundaryInv, AckInv, ScriptInv,
           EngineNext \/ WorkflowNext
    PROVE  ScriptInv'
<1>1. /\ UNCHANGED << history, script >>
      /\ phase \in EnginePhases /\ phase' \notin {"idle", "record"}
  BY WorkerWritesNothing
<1>2. PICK n : n = Cardinality(AnswersFrom(history, 1))
  OBVIOUS
<1>3. phase # "idle" /\ phase # "record"
  BY <1>1 DEF EnginePhases
<1>4. ASSUME IsSeq(ops'), replayed' \in Nat,
             phase' \in EnginePhases /\ (phase' = "next" => batch'.replay \/ pos' <= Len(history)) =>
                 n = replayed' + (IF InBatch' /\ batch'.replay THEN 1 ELSE 0)
                         + Cardinality(AnswersFrom(history, pos'))
      PROVE  ScriptInv'
  BY <1>1, <1>2, <1>3, <1>4 DEF ScriptInv
<1>5. /\ IsSeq(ops) /\ replayed \in Nat
      /\ phase = "next" /\ (batch.replay \/ pos <= Len(history)) =>
             n = replayed + 0 + Cardinality(AnswersFrom(history, pos))
      /\ InBatch => n = replayed + (IF batch.replay THEN 1 ELSE 0) + Cardinality(AnswersFrom(history, pos))
  BY <1>1, <1>2 DEF ScriptInv, InBatch, EnginePhases
<1>6. ASSUME UNCHANGED << replayed, pos, batch >>, IsSeq(ops'), InBatch, phase' # "next" PROVE ScriptInv'
  <2>1. phase' \in EnginePhases => InBatch'
    BY <1>6 DEF InBatch
  <2> QED BY <1>4, <1>5, <1>6, <2>1
<1>7. CASE WorkflowNext
  <2>1. ASSUME NEW op, Calls(op) PROVE UNCHANGED << replayed, pos, batch, phase >> /\ IsSeq(ops') /\ phase = "run"
    <3>1. ops' = Append(ops, op) /\ UNCHANGED << replayed, pos, batch, phase >> /\ phase = "run"
      BY <2>1 DEF Calls
    <3> QED BY <1>5, <3>1, AppendIsSeq
  <2>2. ASSUME NEW id, AutomaticCancel(id)
        PROVE  UNCHANGED << replayed, pos, batch, phase, ops >> /\ phase = "run"
    BY <2>2 DEF AutomaticCancel, engineVars, userVars
  <2>3. ASSUME Yield PROVE UNCHANGED << replayed, pos, batch, ops >> /\ phase = "run" /\ phase' = "complete"
    BY <2>3 DEF Yield, userVars
  <2>4. ASSUME RejectionUnwinds PROVE UNCHANGED << replayed, pos, batch, phase, ops >> /\ phase = "run"
    BY <2>4 DEF RejectionUnwinds, userVars
  <2>5. UNCHANGED << replayed, pos, batch >> /\ IsSeq(ops') /\ phase = "run" /\ phase' # "next"
    BY <1>5, <1>7, <2>1, <2>2, <2>3, <2>4
        DEF WorkflowNext, ExecuteActivity, StartTimer, CancelFuture, Return, continue_as_new, Ends
  <2> QED BY <1>6, <2>5 DEF InBatch, EnginePhases
<1>8. CASE NextDecisionEvents
  <2>1. UNCHANGED << ops, replayed >> /\ (phase' = "input" \/ phase' = "failed")
    BY <1>8 DEF NextDecisionEvents, Continue, userVars
  <2>2. CASE phase' = "failed"
    BY <1>4, <1>5, <2>1, <2>2 DEF EnginePhases
  <2>3. CASE phase' = "input"
    <3>1. PICK s : IsBatch(history, pos, batch', s)
      BY <1>8, <2>3, NextBatchFacts DEF EngineStateInv
    <3>2. phase = "next" /\ pos \in Nat \ {0} /\ pos' = batch'.next
      BY <1>8, <2>3, NextBatchFacts DEF EngineStateInv
    <3>3. PICK b : b = batch'
      OBVIOUS
    <3>4. IsSeq(history) /\ Shaped(history) /\ (pos \in DOMAIN history => ~Records(history[pos]))
      BY <3>2 DEF IInv, ServiceInv, ShapeInv, BoundaryInv, EnginePhases
    <3>5. Cardinality(AnswersFrom(history, pos))
              = (IF b.replay THEN 1 ELSE 0) + Cardinality(AnswersFrom(history, b.next))
      BY <3>1, <3>2, <3>3, <3>4, BatchAnswers
    <3>6. pos <= Len(history)
      BY <3>1, <3>2, LenProperties DEF IsBatch, IInv, ServiceInv, IsSeq
    <3>7. PICK c : c = Cardinality(AnswersFrom(history, b.next))
      OBVIOUS
    <3>8. c \in Nat
      <4>1. AnswersFrom(history, b.next) \subseteq b.next..Len(history)
        BY DEF AnswersFrom
      <4>2. b.next \in Int /\ Len(history) \in Int
        BY <3>1, <3>2, <3>3, <3>4, LenProperties DEF IsBatch, IsSeq
      <4>3. IsFiniteSet(b.next..Len(history))
        BY <4>2, FS_Interval
      <4> QED BY <3>7, <4>1, <4>3, FS_Subset, FS_CardinalityType
    <3>9. n = replayed + (IF b.replay THEN 1 ELSE 0) + c
      BY <1>5, <3>2, <3>5, <3>6, <3>7, <3>8
    <3>10. n = replayed' + (IF InBatch' /\ batch'.replay THEN 1 ELSE 0)
                   + Cardinality(AnswersFrom(history, pos'))
      BY <2>1, <2>3, <3>2, <3>3, <3>7, <3>9 DEF InBatch, EnginePhases
    <3> QED BY <1>4, <1>5, <2>1, <3>10
  <2> QED BY <2>1, <2>2, <2>3
<1>9. CASE CollectDecisions
  <2>1. UNCHANGED << ops, replayed >> /\ phase' = "respond"
    BY <1>9 DEF CollectDecisions, userVars
  <2> QED BY <1>4, <1>5, <2>1 DEF EnginePhases
<1>10. CASE ApplyInputEvent \/ MaybeCompleteWorkflow \/ EndExecution \/ ApplyOutputEvent
  <2>1. UNCHANGED << replayed, pos, batch, ops >> /\ InBatch /\ phase' # "next"
    BY <1>10 DEF ApplyInputEvent, MaybeCompleteWorkflow, EndExecution, ApplyOutputEvent, userVars, Continue,
                 InBatch, EnginePhases
  <2> QED BY <1>5, <1>6, <2>1
<1>11. CASE StartRun
  <2>1. UNCHANGED << replayed, pos, batch >> /\ InBatch /\ phase' # "next" /\ ops' = << >>
    BY <1>11 DEF StartRun, InBatch, EnginePhases
  <2> QED BY <1>6, <2>1, EmptyIsSeq
<1>12. CASE FinishBatch
  <2>1. /\ phase = "output" /\ phase' = "next" /\ replayed' = replayed + 1
        /\ UNCHANGED << pos, batch, ops >> /\ InBatch /\ ~InBatch'
    BY <1>12 DEF FinishBatch, InBatch, EnginePhases
  <2>2. ~batch.replay => ~(pos <= Len(history))
    <3>1. pos \in Nat /\ Len(history) \in Nat
      BY LenProperties DEF IInv, ServiceInv, IsSeq
    <3> QED BY <2>1, <3>1 DEF AckInv, LiveIsLast
  <2>3. PICK c : c = Cardinality(AnswersFrom(history, pos))
    OBVIOUS
  <2>4. c \in Nat
    <3>1. AnswersFrom(history, pos) \subseteq pos..Len(history)
      BY DEF AnswersFrom
    <3>2. pos \in Int /\ Len(history) \in Int
      BY LenProperties DEF IInv, ServiceInv, IsSeq
    <3>3. IsFiniteSet(pos..Len(history))
      BY <3>2, FS_Interval
    <3> QED BY <2>3, <3>1, <3>3, FS_Subset, FS_CardinalityType
  <2>5. batch.replay => n = replayed + 1 + c
    BY <1>5, <2>1, <2>3
  <2>6. batch.replay => n = replayed' + 0 + Cardinality(AnswersFrom(history, pos'))
    BY <1>5, <2>1, <2>3, <2>4, <2>5
  <2>7. replayed' \in Nat
    BY <1>5, <2>1
  <2> QED BY <1>4, <1>5, <2>1, <2>2, <2>6, <2>7
<1> QED BY <1>7, <1>8, <1>9, <1>10, <1>11, <1>12 DEF EngineNext

\* What the service does keeps what the script says of the end.
LEMMA ServiceKeepsEnd ==
    ASSUME IInv, HistoryInv, DecisionsInv, EngineStateInv, ScriptInv, EndInv, ServiceNext
    PROVE  EndInv'
<1>1. Closed => Closed'
  BY HistoryIsKept DEF Closed
<1>2. "none" \notin Outcomes
  BY OutcomesAssumption
<1> DEFINE NoReturn(s) == \A k \in DOMAIN s : \A j \in DOMAIN s[k].ops : ~IsReturn(s[k].ops[j])
           Closing == Closed \/ \E i \in DOMAIN decisions : ClosesWorkflow(decisions[i])
<1>3. ASSUME UNCHANGED << ops, task, state_machines, script >>,
             phase' \in {"next", "end", "output", "respond", "record"} => phase \in {"respond", "record"} \/ task = "none",
             phase' \in {"respond", "record"} => phase \in {"respond", "record"},
             phase' \in {"respond", "record"} /\ Closing => Closing'
      PROVE  EndInv'
  <2>1. (\E j \in DOMAIN ops' : IsReturn(ops'[j])) => task' \in Outcomes
    BY <1>3 DEF EndInv
  <2>2. phase' \in {"next", "end", "output", "respond", "record"} /\ task' \in Outcomes =>
            COMPLETION_ID \in DOMAIN state_machines'
    BY <1>2, <1>3 DEF EndInv
  <2>3. phase' \in {"respond", "record"} /\ COMPLETION_ID \in DOMAIN state_machines' => Closing'
    BY <1>3 DEF EndInv
  <2>4. ~Closed' => NoReturn(script')
    BY <1>1, <1>3 DEF EndInv
  <2> QED BY <2>1, <2>2, <2>3, <2>4 DEF EndInv
<1>4. CASE PollDecisionTask
  <2>1. phase' = "next" /\ task = "none" /\ UNCHANGED << ops, task, state_machines, script >>
    BY <1>4 DEF PollDecisionTask, managerVars, userVars, EngineStateInv, IdleInv
  <2> QED BY <1>3, <2>1
<1>5. CASE FinishDecisionTask
  <2>1. /\ phase = "record" /\ decisions = << >> /\ phase' = "idle" /\ ops' = << >>
        /\ script' = script \/ script' = Append(script, [view |-> view, ops |-> ops])
    BY <1>5 DEF FinishDecisionTask, DropEngine
  <2>2. (\E j \in DOMAIN ops : IsReturn(ops[j])) => Closed
    <3>1. DOMAIN decisions = {}
      BY <2>1, EmptyIsSeq
    <3> QED BY <2>1, <3>1 DEF EndInv
  <2>3. ~Closed' => NoReturn(script')
    <3> SUFFICES ASSUME ~Closed' PROVE NoReturn(script')
      OBVIOUS
    <3>1. NoReturn(script) /\ \A j \in DOMAIN ops : ~IsReturn(ops[j])
      BY <1>1, <2>2 DEF EndInv
    <3>2. PICK x : x = [view |-> view, ops |-> ops]
      OBVIOUS
    <3>3. x.ops = ops
      BY <3>2
    <3>4. \A s : s = Append(script, x) => NoReturn(s)
      <4> SUFFICES ASSUME NEW s, s = Append(script, x) PROVE NoReturn(s)
        OBVIOUS
      <4>1. PICK m : m = Len(script)
        OBVIOUS
      <4>2. IsSeq(script)
        BY DEF ScriptInv
      <4>3. /\ DOMAIN script = 1..m /\ DOMAIN s = 1..(m + 1) /\ s[m + 1] = x /\ m \in Nat
            /\ \A k \in 1..m : s[k] = script[k]
        BY <4>1, <4>2, AppendPositions
      <4> QED BY <3>1, <3>3, <4>3
    <3> QED BY <2>1, <3>1, <3>2, <3>4
  <2>4. DOMAIN ops' = {}
    BY <2>1, EmptyIsSeq
  <2> HIDE DEF NoReturn
  <2>5. NoReturn(script') = \A k \in DOMAIN script' : \A j \in DOMAIN script'[k].ops : ~IsReturn(script'[k].ops[j])
    BY DEF NoReturn
  <2> QED BY <2>1, <2>3, <2>4, <2>5 DEF EndInv
<1>6. CASE RespondDecisionTaskCompleted /\ history' = Append(history, Event("DecisionTaskCompleted"))
  <2>1. \/ phase = "respond" /\ Unsuccessfully("DecisionTaskFailed")
        \/ phase = "respond" /\ phase' = "record" /\ UNCHANGED << managerVars, decisions, task, userVars >>
    BY <1>6 DEF RespondDecisionTaskCompleted
  <2>2. CASE phase = "respond" /\ Unsuccessfully("DecisionTaskFailed")
    <3>1. UNCHANGED script /\ phase' = "idle" /\ ops' = << >>
      BY <2>2 DEF Unsuccessfully, DropEngine
    <3>2. DOMAIN ops' = {}
      BY <3>1, EmptyIsSeq
    <3> QED BY <1>1, <3>1, <3>2 DEF EndInv
  <2>3. CASE phase = "respond" /\ phase' = "record" /\ UNCHANGED << managerVars, decisions, task, userVars >>
    <3>1. UNCHANGED << ops, task, state_machines, script, decisions >>
      BY <2>3 DEF managerVars, userVars
    <3>2. Closing => Closing'
      BY <1>1, <3>1 DEF ClosesWorkflow
    <3> QED BY <1>3, <2>3, <3>1, <3>2
  <2> QED BY <2>1, <2>2, <2>3
<1>7. CASE RecordDecision
  <2>1. /\ phase = "record" /\ decisions # << >> /\ decisions' = Tail(decisions) /\ UNCHANGED phase
        /\ UNCHANGED << ops, task, state_machines, script >>
    BY <1>7 DEF RecordDecision, managerVars, engineVars, userVars
  <2>2. Closing => Closing'
    <3> SUFFICES ASSUME NEW i \in DOMAIN decisions, ClosesWorkflow(decisions[i]) PROVE Closing'
      BY <1>1
    <3>1. /\ IsSeq(decisions) /\ 1 \in DOMAIN decisions /\ Head(decisions) = decisions[1]
          /\ Len(decisions) \in Nat /\ DOMAIN decisions = 1..Len(decisions)
          /\ DOMAIN Tail(decisions) = 1..(Len(decisions) - 1)
          /\ \A k \in DOMAIN Tail(decisions) : Tail(decisions)[k] = decisions[k + 1]
      <4>1. IsSeq(decisions)
        BY DEF DecisionsInv
      <4> QED BY <2>1, <4>1, HeadAndTail
    <3>2. CASE i = 1
      <4>1. PICK d : d = Head(decisions)
        OBVIOUS
      <4>2. d.what \in Outcomes /\ d.what # "CancelledError"
        <5>1. d = decisions[1]
          BY <3>1, <4>1
        <5>2. Sendable(history, d)
          BY <3>1, <5>1 DEF HistoryInv, AnswerInv
        <5> QED BY <3>2, <5>1, <5>2, OutcomesAssumption DEF Sendable, ClosesWorkflow
      <4>3. d.what \in {"Complete", "Fail", "ContinueAsNew"}
        BY <4>2, OutcomesAssumption
      <4>4. history' = Append(history, RecordedEvent(CloseEvent[d.what], d))
        BY <1>7, <4>1, <4>3 DEF RecordDecision, ClosesWorkflow
      <4>5. CloseEvent[d.what] \in close_types
        BY <4>3 DEF CloseEvent, close_types
      <4>6. PICK e : e = RecordedEvent(CloseEvent[d.what], d)
        OBVIOUS
      <4>7. e.type \in close_types
        BY <4>5, <4>6 DEF RecordedEvent
      <4>8. PICK m : m = Len(history)
        OBVIOUS
      <4>9. m + 1 \in DOMAIN Append(history, e) /\ Append(history, e)[m + 1] = e
        <5>1. IsSeq(history)
          BY DEF IInv, ServiceInv
        <5>2. m \in Nat /\ DOMAIN Append(history, e) = 1..(m + 1) /\ Append(history, e)[m + 1] = e
          BY <4>8, <5>1, AppendPositions
        <5> QED BY <5>2
      <4> QED BY <4>4, <4>6, <4>7, <4>9 DEF Closed
    <3>3. CASE i # 1
      <4>1. PICK j : j = i - 1
        OBVIOUS
      <4>2. j \in DOMAIN Tail(decisions) /\ i = j + 1
        BY <3>1, <3>3, <4>1
      <4>3. decisions'[j] = decisions[i] /\ j \in DOMAIN decisions'
        BY <2>1, <3>1, <4>2
      <4> QED BY <4>3 DEF ClosesWorkflow
    <3> QED BY <3>2, <3>3
  <2> QED BY <1>3, <2>1, <2>2
<1>8. ASSUME ~PollDecisionTask, ~FinishDecisionTask, ~RecordDecision,
             ~(RespondDecisionTaskCompleted /\ history' = Append(history, Event("DecisionTaskCompleted")))
      PROVE  EndInv'
  <2>1. /\ phase' \notin EnginePhases /\ (phase' = "record" <=> phase = "record")
        /\ UNCHANGED script
        /\ \/ UNCHANGED << ops, replayed, phase, view, state_machines, task >>
           \/ /\ phase' = "idle" /\ ops' = << >>
    BY <1>8, ServiceKeepsTheRest
  <2>2. CASE phase' = "idle" /\ ops' = << >>
    <3>1. DOMAIN ops' = {}
      BY <2>2, EmptyIsSeq
    <3> QED BY <1>1, <2>1, <2>2, <3>1 DEF EndInv
  <2>3. CASE UNCHANGED << ops, replayed, phase, view, state_machines, task >> /\ phase' # "idle"
    <3>1. UNCHANGED decisions
      <4>1. ASSUME NEW events, Arrive(events) PROVE UNCHANGED decisions
        BY <4>1 DEF Arrive
      <4>2. ASSUME NEW type, Unsuccessfully(type) PROVE phase' = "idle"
        BY <4>2 DEF Unsuccessfully, DropEngine
      <4> QED BY <1>8, <2>3, <4>1, <4>2 DEF ServiceNext, ActivityCloses, TimerFires, SignalArrives,
                  DecisionTaskTimesOut, RespondDecisionTaskFailed, RespondDecisionTaskCompleted
    <3>2. Closing => Closing'
      BY <1>1, <3>1 DEF ClosesWorkflow
    <3>3. phase' \in {"next", "end", "output", "respond", "record"} => phase \in {"respond", "record"}
      BY <2>1, <2>3 DEF EnginePhases
    <3> QED BY <1>3, <2>1, <2>3, <3>2, <3>3
  <2>4. CASE UNCHANGED << ops, replayed, phase, view, state_machines, task >> /\ phase' = "idle"
    BY <1>3, <2>1, <2>4
  <2> QED BY <2>1, <2>2, <2>3, <2>4
<1> QED BY <1>4, <1>5, <1>6, <1>7, <1>8

\* A decision of the completion is in the answer that ends the workflow.
LEMMA CompletionIsCollected ==
    ASSUME IInv, EngineStateInv, phase = "next", COMPLETION_ID \in DOMAIN state_machines
    PROVE  \E k \in DOMAIN collect_pending_decisions : ClosesWorkflow(collect_pending_decisions[k])
<1>1. PICK w : CollectedFrom(collect_pending_decisions, Len(order), w)
  BY CollectedInOrder DEF IInv, ManagerInv
<1>2. PICK c : c = collect_pending_decisions
  OBVIOUS
<1>3. /\ \A m \in 1..Len(order) : Sends(m) => \E k \in DOMAIN c : w[k] = m
      /\ \A k \in DOMAIN c : c[k] = SentOf(w[k])
  BY <1>1, <1>2 DEF CollectedFrom
<1>4. PICK m \in 1..Len(order) : order[m] = COMPLETION_ID
  BY LenProperties DEF IInv, ManagerInv, MachinesInv, OrderIsKeys
<1>5. Sends(m)
  BY <1>4 DEF Sends, HasDecision
<1>6. PICK k \in DOMAIN c : c[k] = SentOf(m)
  BY <1>3, <1>5
<1>7. SentOf(m).what = state_machines[COMPLETION_ID].request
  BY <1>4 DEF SentOf, GetDecision, Decision
<1>8. SentOf(m).what \in Outcomes
  BY <1>7 DEF EngineStateInv, CompletionRequest, EnginePhases
<1> QED BY <1>2, <1>6, <1>8 DEF ClosesWorkflow

\* The calls of a batch end with a return, if there is one.
LEMMA WorkerKeepsEnd ==
    ASSUME IInv, HistoryInv, EngineStateInv, ScriptInv, EndInv, EngineNext \/ WorkflowNext
    PROVE  EndInv'
<1> DEFINE Returned == \E j \in DOMAIN ops : IsReturn(ops[j])
           Closing == Closed \/ \E i \in DOMAIN decisions : ClosesWorkflow(decisions[i])
<1>1. /\ UNCHANGED << history, script >> /\ phase \in EnginePhases /\ phase' # "record"
      /\ ~CollectDecisions => phase' # "respond"
  BY WorkerWritesNothing
<1>2. "none" \notin Outcomes /\ "running" \notin Outcomes /\ "FatalDecisionError" \notin Outcomes
  BY OutcomesAssumption
<1>3. ASSUME Returned' => task' \in Outcomes,
             phase' \in {"next", "end", "output", "respond"} /\ task' \in Outcomes =>
                 COMPLETION_ID \in DOMAIN state_machines',
             phase' = "respond" /\ COMPLETION_ID \in DOMAIN state_machines' => Closing'
      PROVE  EndInv'
  BY <1>1, <1>3 DEF EndInv, Closed
<1>4. ASSUME UNCHANGED << ops, task >>,
             DOMAIN state_machines' = DOMAIN state_machines,
             phase \in {"end", "output"} \/ phase' \notin {"next", "end", "output"},
             ~CollectDecisions
      PROVE  EndInv'
  <2>1. Returned' => task' \in Outcomes
    BY <1>4 DEF EndInv
  <2> HIDE DEF Returned, Closing
  <2> QED BY <1>1, <1>3, <1>4, <2>1 DEF EndInv
<1>5. CASE NextDecisionEvents
  <2>1. /\ UNCHANGED << ops, task >> /\ phase' \in {"input", "failed"}
        /\ UNCHANGED state_machines
    <3>1. UNCHANGED << ops, task >> /\ phase' \in {"input", "failed"}
      BY <1>5 DEF NextDecisionEvents, Continue, userVars
    <3>2. UNCHANGED state_machines
      BY <1>5 DEF NextDecisionEvents, RaiseInEngine, start_execution
    <3> QED BY <3>1, <3>2
  <2>2. ~CollectDecisions
    BY <2>1 DEF CollectDecisions
  <2> QED BY <1>4, <2>1, <2>2
<1>6. CASE CollectDecisions
  <2>1. /\ phase = "next" /\ phase' = "respond" /\ decisions' = collect_pending_decisions
        /\ UNCHANGED << ops, task, state_machines >>
    BY <1>6 DEF CollectDecisions, managerVars, userVars
  <2>2. COMPLETION_ID \in DOMAIN state_machines' => Closing'
    BY <2>1, CompletionIsCollected DEF ClosesWorkflow
  <2>3. Returned' => task' \in Outcomes
    BY <2>1 DEF EndInv
  <2> HIDE DEF Returned, Closing
  <2> QED BY <1>3, <2>1, <2>2, <2>3 DEF EndInv
<1>7. CASE ApplyInputEvent
  <2>1. /\ UNCHANGED ops /\ (UNCHANGED task \/ task = "none")
        /\ phase' \in {"input", "failed"}
    BY <1>7 DEF ApplyInputEvent, Continue, userVars
  <2>2. Returned' => task' \in Outcomes
    BY <1>2, <2>1 DEF EndInv
  <2> HIDE DEF Returned, Closing
  <2> QED BY <1>3, <2>1, <2>2
<1>8. CASE StartRun
  <2>1. ops' = << >> /\ phase' = "run"
    BY <1>8 DEF StartRun
  <2>2. ~Returned'
    <3>1. DOMAIN ops' = {}
      BY <2>1, EmptyIsSeq
    <3> QED BY <3>1
  <2> HIDE DEF Returned, Closing
  <2> QED BY <1>3, <2>1, <2>2
<1>9. CASE MaybeCompleteWorkflow
  <2>1. UNCHANGED << ops, task >>
    BY <1>9 DEF MaybeCompleteWorkflow, userVars
  <2>2. \/ phase' = "failed"
        \/ phase' = "end" /\ task \in {"none", "running"}
        \/ phase' = "end" /\ raised' = "none" /\ complete_workflow(task)
    BY <1>9 DEF MaybeCompleteWorkflow, Continue
  <2>3. raised' = "none" /\ complete_workflow(task) => COMPLETION_ID \in DOMAIN state_machines'
    BY DEF complete_workflow, Add, Reject
  <2>4. Returned' => task' \in Outcomes
    BY <2>1 DEF EndInv
  <2> HIDE DEF Returned, Closing
  <2> QED BY <1>2, <1>3, <2>1, <2>2, <2>3, <2>4
<1>10. CASE EndExecution
  <2>1. UNCHANGED << ops, task, state_machines >> /\ phase = "end"
    BY <1>10 DEF EndExecution, end_execution, userVars
  <2>2. ~CollectDecisions
    BY <2>1 DEF CollectDecisions
  <2> QED BY <1>4, <2>1, <2>2
<1>11. CASE ApplyOutputEvent
  <2>1. UNCHANGED << ops, task >> /\ phase = "output"
    BY <1>11 DEF ApplyOutputEvent, userVars
  <2>2. DOMAIN state_machines' = DOMAIN state_machines
    BY Zenon, <1>11 DEF ApplyOutputEvent, handle_history_event
  <2>3. ~CollectDecisions
    BY <2>1 DEF CollectDecisions
  <2> QED BY <1>4, <2>1, <2>2, <2>3
<1>12. CASE FinishBatch
  <2>1. UNCHANGED << ops, task, state_machines >> /\ phase = "output"
    BY <1>12 DEF FinishBatch, managerVars
  <2>2. ~CollectDecisions
    BY <2>1 DEF CollectDecisions
  <2> QED BY <1>4, <2>1, <2>2
<1>13. CASE WorkflowNext
  <2>1. phase = "run" /\ phase' \in {"run", "complete"}
    <3>1. ASSUME NEW op, Calls(op) PROVE phase = "run" /\ phase' = "run"
      BY <3>1 DEF Calls
    <3>2. ASSUME NEW id, AutomaticCancel(id) PROVE phase = "run" /\ phase' = "run"
      BY <3>2 DEF AutomaticCancel, engineVars
    <3>3. ASSUME Yield PROVE phase = "run" /\ phase' = "complete"
      BY <3>3 DEF Yield
    <3>4. ASSUME RejectionUnwinds PROVE phase = "run" /\ phase' = "run"
      BY <3>4 DEF RejectionUnwinds
    <3> QED BY <1>13, <3>1, <3>2, <3>3, <3>4
        DEF WorkflowNext, ExecuteActivity, StartTimer, CancelFuture, Return, continue_as_new, Ends
  <2>2. ASSUME NEW op, Calls(op), ~IsReturn(op) PROVE ~Returned'
    <3>1. ~Returned /\ ops' = Append(ops, op)
      BY <1>2, <2>2 DEF Calls, EndInv
    <3>2. PICK n : n = Len(ops)
      OBVIOUS
    <3>3. PICK s : s = Append(ops, op)
      OBVIOUS
    <3>4. /\ DOMAIN ops = 1..n /\ DOMAIN s = 1..(n + 1) /\ s[n + 1] = op /\ n \in Nat
          /\ \A k \in 1..n : s[k] = ops[k]
      <4>1. IsSeq(ops)
        BY DEF ScriptInv
      <4> QED BY <3>2, <3>3, <4>1, AppendPositions
    <3>5. \A j \in DOMAIN s : ~IsReturn(s[j])
      BY <2>2, <3>1, <3>4
    <3> QED BY <3>1, <3>3, <3>5
  <2>3. Returned' => task' \in Outcomes
    <3>1. ASSUME NEW id, AutomaticCancel(id) PROVE UNCHANGED << ops, task >>
      BY <3>1 DEF AutomaticCancel, engineVars, userVars
    <3>2. ASSUME Yield PROVE UNCHANGED << ops, task >>
      BY <3>2 DEF Yield, userVars
    <3>3. ASSUME NEW outcome \in Outcomes, Ends(outcome) PROVE task' \in Outcomes
      BY <3>3 DEF Ends
    <3>4. ASSUME NEW t, ExecuteActivity(t) PROVE ~Returned'
      <4>1. ~IsReturn(<< "execute_activity", t >>)
        BY DEF IsReturn
      <4> QED BY <2>2, <3>4, <4>1 DEF ExecuteActivity
    <3>5. ASSUME StartTimer PROVE ~Returned'
      <4>1. ~IsReturn(<< "start_timer" >>)
        BY DEF IsReturn
      <4> QED BY <2>2, <3>5, <4>1 DEF StartTimer
    <3>6. ASSUME NEW id, CancelFuture(id) PROVE ~Returned'
      <4>1. ~IsReturn(<< "cancel", id >>)
        BY DEF IsReturn
      <4> QED BY <2>2, <3>6, <4>1 DEF CancelFuture
    <3>7. Returned => task \in Outcomes
      BY DEF EndInv
    <3>8. UNCHANGED << ops, task >> => (Returned' => task' \in Outcomes)
      BY <3>7
    <3>12. ops' = ops /\ task = "running" => (Returned' => task' \in Outcomes)
      BY <1>2, <3>7
    <3> HIDE DEF Returned
    <3>9. CASE continue_as_new
      BY <3>3, <3>9 DEF continue_as_new
    <3>10. CASE \E outcome \in Outcomes : Return(outcome)
      BY <3>3, <3>10 DEF Return
    <3>11. RejectionUnwinds => ops' = ops /\ task = "running"
      BY DEF RejectionUnwinds, userVars
    <3> QED BY <1>13, <3>1, <3>2, <3>4, <3>5, <3>6, <3>8, <3>9, <3>10, <3>11, <3>12 DEF WorkflowNext
  <2> HIDE DEF Returned, Closing
  <2> QED BY <1>3, <2>1, <2>3
<1> QED BY <1>5, <1>6, <1>7, <1>8, <1>9, <1>10, <1>11, <1>12, <1>13 DEF EngineNext

\* A batch that is replayed is in the script.
LEMMA ReplaysTheScript ==
    ASSUME IInv, ScriptInv, Deterministic, InBatch, batch.replay
    PROVE  /\ replayed + 1 \in DOMAIN script
           /\ IsSeq(script[replayed + 1].ops)
<1>1. PICK m : m = Len(script)
  OBVIOUS
<1>2. PICK c : c = Cardinality(AnswersFrom(history, pos))
  OBVIOUS
<1>3. m \in Nat /\ DOMAIN script = 1..m /\ replayed \in Nat
  BY <1>1, LenProperties DEF ScriptInv, IsSeq
<1>4. c \in Nat
  <2>1. AnswersFrom(history, pos) \subseteq pos..Len(history)
    BY DEF AnswersFrom
  <2>2. pos \in Int /\ Len(history) \in Int
    BY LenProperties DEF IInv, ServiceInv, IsSeq
  <2>3. IsFiniteSet(pos..Len(history))
    BY <2>2, FS_Interval
  <2> QED BY <1>2, <2>1, <2>3, FS_Subset, FS_CardinalityType
<1>5. Cardinality(AnswersFrom(history, 1)) = replayed + 1 + c
  BY <1>2 DEF ScriptInv, InBatch, EnginePhases
<1>6. phase # "record"
  BY DEF InBatch, EnginePhases
<1>7. m + 0 = replayed + 1 + c
  BY <1>1, <1>5, <1>6 DEF ScriptInv
<1>8. replayed + 1 \in 1..m
  BY <1>3, <1>4, <1>7
<1> QED BY <1>3, <1>8 DEF ScriptInv

\* A workflow that was not rewritten does not end in replay: had it ended
\* there, the execution would be over.
LEMMA RunsOnKept ==
    ASSUME Deterministic, IInv, HistoryInv, EngineStateInv, AckInv, ScriptInv, EndInv, RunsOn, Next
    PROVE  RunsOn'
<1>0. "none" \notin Outcomes /\ "running" \notin Outcomes /\ "FatalDecisionError" \notin Outcomes
  BY OutcomesAssumption
<1>1. ASSUME task' \notin Outcomes PROVE RunsOn'
  BY <1>1 DEF RunsOn
<1>2. ASSUME phase' \notin EnginePhases PROVE RunsOn'
  BY <1>2 DEF RunsOn, InBatch, EnginePhases
<1>3. CASE ServiceNext
  <2>1. CASE PollDecisionTask
    <3>1. task' = "none"
      BY <2>1 DEF PollDecisionTask, EngineStateInv, IdleInv
    <3> QED BY <1>0, <1>1, <3>1
  <2>2. CASE ~PollDecisionTask
    BY <1>2, <1>3, <2>2, ServiceLeavesTheEngine
  <2> QED BY <2>1, <2>2
<1>4. ASSUME UNCHANGED << batch, task >>, InBatch, InBatch', phase' # "input" PROVE RunsOn'
  BY <1>4 DEF RunsOn, InBatch
<1>5. CASE WorkflowNext
  <2>1. ASSUME NEW op, Calls(op), Raises PROVE RunsOn'
    <3>1. task' \in {"running", "FatalDecisionError"}
      BY <2>1 DEF Calls, Raises
    <3> QED BY <1>0, <1>1, <3>1
  <2>5. ASSUME RejectionUnwinds PROVE RunsOn'
    <3>1. task' = "FatalDecisionError"
      BY <2>5 DEF RejectionUnwinds
    <3> QED BY <1>0, <1>1, <3>1
  <2>2. ASSUME NEW outcome, Ends(outcome) PROVE RunsOn'
    <3>1. phase = "run" /\ UNCHANGED << phase, batch >> /\ Calls(<< "return", outcome >>)
      BY <2>2 DEF Ends, Calls
    <3>2. ~batch.replay
      <4> SUFFICES ASSUME batch.replay PROVE FALSE
        OBVIOUS
      <4>1. InBatch
        BY <3>1 DEF InBatch, EnginePhases
      <4>2. PICK r : r = replayed + 1
        OBVIOUS
      <4>3. r \in DOMAIN script /\ IsSeq(script[r].ops)
        BY <4>1, <4>2, ReplaysTheScript
      <4>4. PICK s : s = script[r].ops
        OBVIOUS
      <4>5. Len(ops) < Len(s) /\ s[Len(ops) + 1] = << "return", outcome >>
        BY <3>1, <4>2, <4>4 DEF Calls
      <4>6. Len(ops) + 1 \in DOMAIN s
        <5>1. PICK a, b : a = Len(ops) /\ b = Len(s)
          OBVIOUS
        <5>2. a \in Nat /\ b \in Nat /\ DOMAIN s = 1..b
          BY <4>3, <4>4, <5>1, LenProperties DEF ScriptInv, IsSeq
        <5>3. a < b
          BY <4>5, <5>1
        <5>4. a + 1 \in 1..b
          BY <5>2, <5>3
        <5> QED BY <5>1, <5>2, <5>4
      <4>7. ~Closed
        BY <3>1 DEF HistoryInv, PhaseInv
      <4>8. ~IsReturn(s[Len(ops) + 1])
        BY <4>3, <4>4, <4>6, <4>7 DEF EndInv
      <4> QED BY <4>5, <4>8 DEF IsReturn
    <3> QED BY <3>1, <3>2 DEF RunsOn
  <2>3. ASSUME NEW id, AutomaticCancel(id) PROVE RunsOn'
    <3>1. UNCHANGED << phase, batch, task >> /\ phase = "run"
      BY <2>3 DEF AutomaticCancel, engineVars
    <3> QED BY <1>4, <3>1 DEF InBatch, EnginePhases
  <2>4. ASSUME Yield PROVE RunsOn'
    <3>1. UNCHANGED << batch, task >> /\ phase = "run" /\ phase' = "complete"
      BY <2>4 DEF Yield
    <3> QED BY <1>4, <3>1 DEF InBatch, EnginePhases
  <2> QED BY <1>5, <2>1, <2>2, <2>3, <2>4, <2>5
      DEF WorkflowNext, ExecuteActivity, StartTimer, CancelFuture, Return, continue_as_new
<1>6. CASE NextDecisionEvents
  <2>1. UNCHANGED task /\ phase' \in {"input", "failed"}
    BY <1>6 DEF NextDecisionEvents, Continue
  <2>2. CASE phase' = "input"
    <3>1. phase = "next" /\ pos \in Nat \ {0}
      BY <1>6, <2>2, NextBatchFacts DEF EngineStateInv
    <3>2. PICK s : IsBatch(history, pos, batch', s)
      BY <1>6, <2>2, NextBatchFacts DEF EngineStateInv
    <3>3. pos <= Len(history)
      BY <3>1, <3>2, LenProperties DEF IsBatch, IInv, ServiceInv, IsSeq
    <3> QED BY <1>1, <2>1, <3>1, <3>3 DEF RunsOn
  <2> QED BY <1>2, <2>1, <2>2 DEF EnginePhases
<1>7. CASE CollectDecisions
  BY <1>2, <1>7 DEF CollectDecisions, EnginePhases
<1>8. CASE ApplyInputEvent
  <2>1. phase = "input" /\ (task' = task \/ task' = "running")
    BY <1>8 DEF ApplyInputEvent
  <2> QED BY <1>0, <1>1, <2>1 DEF RunsOn, InBatch, EnginePhases
<1>9. CASE StartRun \/ MaybeCompleteWorkflow \/ EndExecution \/ ApplyOutputEvent
  <2>1. UNCHANGED << batch, task >> /\ InBatch /\ phase' \in {"run", "end", "output", "failed"}
    BY <1>9 DEF StartRun, MaybeCompleteWorkflow, EndExecution, ApplyOutputEvent, Continue, InBatch, EnginePhases
  <2> QED BY <1>2, <1>4, <2>1 DEF InBatch, EnginePhases
<1>10. CASE FinishBatch
  <2>1. /\ phase = "output" /\ phase' = "next" /\ InBatch
        /\ UNCHANGED << batch, task, pos, history >>
    BY <1>10 DEF FinishBatch, serviceVars, InBatch, EnginePhases
  <2>2. ~batch.replay => ~(pos <= Len(history))
    <3>1. pos \in Nat /\ Len(history) \in Nat
      BY LenProperties DEF IInv, ServiceInv, IsSeq
    <3> QED BY <2>1, <3>1 DEF AckInv, LiveIsLast
  <2> QED BY <2>1, <2>2 DEF RunsOn, InBatch
<1> QED BY <1>3, <1>5, <1>6, <1>7, <1>8, <1>9, <1>10 DEF Next, EngineNext

\* A workflow that cannot continue as new asks for its completion in a batch
\* that is replayed only if the event that closes it is recorded there, which
\* no batch but the last has.
LEMMA CompletionIsRecorded ==
    ASSUME ~ImmediateCancel, "ContinueAsNew" \notin Outcomes
    PROVE  Spec => []CompletionRecorded
<1>1. Init => CompletionRecorded
  BY DEF Init, CompletionRecorded, Unended, InBatch, EnginePhases
<1>2. /\ IInv /\ ReplayInv /\ AckInv /\ CompletionRecorded /\ [Next]_vars
      /\ IInv' /\ ReplayInv' /\ AckInv'
      => CompletionRecorded'
  <2> SUFFICES ASSUME IInv, ReplayInv, AckInv, CompletionRecorded, [Next]_vars, ReplayInv', AckInv'
               PROVE  CompletionRecorded'
    OBVIOUS
  <2>1. CASE UNCHANGED vars
    BY <2>1 DEF vars, managerVars, serviceVars, engineVars, CompletionRecorded, Unended, InBatch, Recording, Pending
  <2>2. CASE EngineNext
    BY <2>2, EngineKeepsCompletion DEF ReplayInv
  <2>3. CASE WorkflowNext
    <3>1. /\ phase = "run" /\ phase' \in {"run", "complete"}
          /\ UNCHANGED << history, pos, batch, todo, replaying >>
          /\ COMPLETION_ID \in DOMAIN state_machines' => COMPLETION_ID \in DOMAIN state_machines
      BY <2>3, CallsMakeNoCompletion DEF ReplayInv, LastInv
    <3>2. Pending' = Pending
      BY <3>1 DEF Pending
    <3>3. Recording(COMPLETION_ID) => Recording(COMPLETION_ID)'
      BY <3>1, <3>2 DEF Recording
    <3> QED BY <3>1, <3>3 DEF CompletionRecorded, Unended, InBatch, EnginePhases
  <2>4. CASE ServiceNext
    <3>1. CASE PollDecisionTask
      <4>1. phase' = "next" /\ state_machines' = << >>
        BY <3>1 DEF PollDecisionTask, managerVars, ReplayInv, EngineStateInv, IdleInv
      <4>2. DOMAIN state_machines' = {}
        BY <4>1, EmptyIsSeq
      <4> QED BY <4>1, <4>2 DEF CompletionRecorded, Unended, InBatch
    <3>2. CASE ~PollDecisionTask
      <4>1. phase' \notin EnginePhases
        BY <2>4, <3>2, ServiceLeavesTheEngine
      <4> QED BY <4>1 DEF CompletionRecorded, Unended, InBatch, EnginePhases
    <3> QED BY <3>1, <3>2
  <2> QED BY <2>1, <2>2, <2>3, <2>4 DEF Next
<1> QED BY <1>1, <1>2, Invariance, ReplayIsSound, ReplayAcknowledges, PTL DEF Spec

\* Hence such a workflow is not over in a batch that is replayed.
LEMMA ReplayIsUnended ==
    ASSUME ~ImmediateCancel, "ContinueAsNew" \notin Outcomes
    PROVE  Spec => []Unended
<1>1. CompletionRecorded => Unended
  BY DEF CompletionRecorded
<1> QED BY <1>1, CompletionIsRecorded, PTL

\* The script stays in step with the answers.
LEMMA ScriptIsKept ==
    ASSUME ~ImmediateCancel
    PROVE  Spec => [](ScriptInv /\ EndInv)
<1>1. Init => ScriptInv /\ EndInv
  <2> SUFFICES ASSUME Init PROVE ScriptInv /\ EndInv
    OBVIOUS
  <2>1. /\ ops = << >> /\ replayed = 0 /\ script = << >> /\ phase = "idle"
        /\ history = << Event("WorkflowExecutionStarted") >>
    BY DEF Init
  <2>2. AnswersFrom(history, 1) = {}
    BY <2>1 DEF AnswersFrom, Event
  <2>3. Cardinality(AnswersFrom(history, 1)) = Len(script) + 0
    BY <2>1, <2>2, FS_EmptySet
  <2>4. DOMAIN ops = {} /\ DOMAIN script = {} /\ IsSeq(ops) /\ IsSeq(script)
    BY <2>1, EmptyIsSeq
  <2> QED BY <2>1, <2>3, <2>4 DEF ScriptInv, EndInv, EnginePhases
<1>2. /\ IInv /\ ReplayInv /\ ShapeInv /\ FlowInv /\ AckInv /\ ScriptInv /\ EndInv /\ [Next]_vars
      => ScriptInv' /\ EndInv'
  <2> SUFFICES ASSUME IInv, ReplayInv, ShapeInv, FlowInv, AckInv, ScriptInv, EndInv, [Next]_vars
               PROVE  ScriptInv' /\ EndInv'
    OBVIOUS
  <2>1. CASE UNCHANGED vars
    <3>1. UNCHANGED << history, phase, pos, batch, ops, replayed, script, task, state_machines, decisions >>
      BY <2>1 DEF vars, managerVars, serviceVars, engineVars, userVars
    <3>2. ScriptInv'
      BY <3>1 DEF ScriptInv, InBatch
    <3>3. EndInv'
      BY <3>1 DEF EndInv, Closed, ClosesWorkflow
    <3> QED BY <3>2, <3>3
  <2>2. HistoryInv /\ EngineStateInv /\ DecisionsInv /\ BoundaryInv
    BY DEF ReplayInv, LastInv, FlowInv
  <2> QED BY <2>1, <2>2, ServiceKeepsScript, WorkerKeepsScript, ServiceKeepsEnd, WorkerKeepsEnd DEF Next
<1> QED BY <1>1, <1>2, Invariance, ReplayIsSound, HistoryIsShaped, FlowIsKept, ReplayAcknowledges, PTL DEF Spec

\* And a workflow that was not rewritten runs on where it ran on.
LEMMA ReplayRunsOn ==
    ASSUME ~ImmediateCancel, Deterministic
    PROVE  Spec => []RunsOn
<1>1. Init => RunsOn
  BY DEF Init, RunsOn, InBatch, EnginePhases
<1>2. IInv /\ ReplayInv /\ AckInv /\ ScriptInv /\ EndInv /\ RunsOn /\ [Next]_vars => RunsOn'
  <2> SUFFICES ASSUME IInv, ReplayInv, AckInv, ScriptInv, EndInv, RunsOn, [Next]_vars PROVE RunsOn'
    OBVIOUS
  <2>1. CASE UNCHANGED vars
    BY <2>1 DEF vars, serviceVars, engineVars, RunsOn, InBatch
  <2> QED BY <2>1, RunsOnKept DEF ReplayInv
<1> QED BY <1>1, <1>2, Invariance, ReplayIsSound, ReplayAcknowledges, ScriptIsKept, PTL DEF Spec

\* The engine met no rejection.
Untroubled == ~failed

\* When a recorded batch was replayed and nothing was rejected in the task, the
\* manager has nothing to send: no command of an earlier task is given again,
\* whatever was lost or arrived in between.  A workflow that cancels its own requests is left out, since its
\* markers are sent again; so is one that was rewritten and may continue as new
\* where it did not.
THEOREM NothingIsSentAgain ==
    ASSUME ~ImmediateCancel, Deterministic \/ "ContinueAsNew" \notin Outcomes
    PROVE  Spec => [](Untroubled => NothingSentAgain)
<1>1. IInv /\ AckInv /\ Unended => (Untroubled => NothingSentAgain)
  BY SettledSendsNothing DEF AckInv, Unended, NothingSentAgain, Untroubled
<1>2. ReplayInv /\ RunsOn => Unended
  BY DEF ReplayInv, LastInv, CompletionInv, RunsOn, Unended
<1>3. CASE Deterministic
  BY <1>1, <1>2, <1>3, Invariance, ReplayIsSound, ReplayAcknowledges, ReplayRunsOn, PTL
<1>4. CASE "ContinueAsNew" \notin Outcomes
  BY <1>1, <1>4, Invariance, ReplayAcknowledges, ReplayIsUnended, PTL
<1> QED BY <1>3, <1>4

\* Sequences of the same elements are the same.
LEMMA SameElements ==
    ASSUME NEW s, NEW t, IsSeq(s), IsSeq(t), DOMAIN s = DOMAIN t, \A k \in DOMAIN s : s[k] = t[k]
    PROVE  s = t
<1>1. PICK S : S = {s[i] : i \in DOMAIN s}
  OBVIOUS
<1>2. {t[i] : i \in DOMAIN t} = S
  BY <1>1
<1>3. s \in Seq(S) /\ t \in Seq(S)
  BY <1>1, <1>2 DEF IsSeq
<1>4. s \in [1..Len(s) -> S] /\ t \in [1..Len(t) -> S]
  BY <1>3, LenProperties
<1>5. DOMAIN s = 1..Len(s) /\ t \in [DOMAIN t -> S] /\ s \in [DOMAIN s -> S]
  BY <1>4
<1>6. s = [i \in DOMAIN s |-> s[i]] /\ t = [i \in DOMAIN t |-> t[i]]
  BY <1>5
<1>7. [i \in DOMAIN s |-> s[i]] = [i \in DOMAIN t |-> t[i]]
  OBVIOUS
<1> QED BY <1>6, <1>7

\* The elements of a concatenation are those of its parts.
LEMMA ConcatElements ==
    ASSUME NEW h, NEW new, IsSeq(h), IsSeq(new)
    PROVE  /\ \A i \in DOMAIN h : i \in DOMAIN (h \o new) /\ (h \o new)[i] = h[i]
           /\ \A i \in DOMAIN (h \o new) : i \in DOMAIN h \/ \E k \in DOMAIN new : (h \o new)[i] = new[k]
           /\ \A k \in DOMAIN new : \E i \in DOMAIN (h \o new) : (h \o new)[i] = new[k]
<1>1. PICK g : g = h \o new
  OBVIOUS
<1>2. PICK m : m = Len(h)
  OBVIOUS
<1>3. PICK n : n = Len(new)
  OBVIOUS
<1>4. m \in Nat /\ n \in Nat /\ DOMAIN h = 1..m /\ DOMAIN new = 1..n /\ DOMAIN g = 1..(m + n)
  BY <1>1, <1>2, <1>3, ConcatPositions
<1>5. \A i \in DOMAIN h : g[i] = h[i]
  BY <1>1, ConcatPositions
<1>6. \A k \in DOMAIN new : g[m + k] = new[k]
  BY <1>1, <1>2, ConcatPositions
<1>7. \A k \in DOMAIN new : m + k \in DOMAIN g
  BY <1>4
<1>8. \A i \in DOMAIN g : i \in DOMAIN h \/ \E k \in DOMAIN new : i = m + k
  <2>1. \A i \in DOMAIN g : i \in DOMAIN h \/ \E k \in DOMAIN new : i = Len(h) + k
    BY <1>1, ConcatPositions
  <2> QED BY <1>2, <2>1
<1>9. \A i \in DOMAIN h : i \in DOMAIN g
  BY <1>4
<1>10. \A i \in DOMAIN g : i \in DOMAIN h \/ \E k \in DOMAIN new : g[i] = new[k]
  BY <1>6, <1>8
<1>11. \A k \in DOMAIN new : \E i \in DOMAIN g : g[i] = new[k]
  BY <1>6, <1>7
<1> QED BY <1>1, <1>5, <1>9, <1>10, <1>11

\* A position behind all others is enumerated behind them.
LEMMA AscendingAppends ==
    ASSUME NEW n \in Nat, NEW S, S \subseteq 1..n
    PROVE  Ascending(S \cup {n + 1}) = Append(Ascending(S), n + 1)
<1>1. PICK R : R = S \cup {n + 1}
  OBVIOUS
<1>2. S \subseteq Nat /\ R \subseteq Nat /\ n + 1 \notin S /\ \A i \in S : i <= n /\ i \in Nat
  BY <1>1
<1>3. IsFiniteSet(S) /\ IsFiniteSet(R) /\ Cardinality(R) = Cardinality(S) + 1
  <2>1. IsFiniteSet(1..n)
    BY FS_Interval
  <2>2. S \in SUBSET (1..n)
    OBVIOUS
  <2>3. IsFiniteSet(S)
    BY <2>1, <2>2, FS_Subset
  <2> QED BY <1>1, <1>2, <2>3, FS_AddElement
<1>4. PICK c : c = Cardinality(S)
  OBVIOUS
<1>5. PICK a : a = Ascending(S)
  OBVIOUS
<1>6. PICK b : b = Ascending(R)
  OBVIOUS
<1>7. /\ IsSeq(a) /\ c \in Nat /\ DOMAIN a = 1..c
      /\ \A k \in 1..c : a[k] \in S /\ Cardinality({j \in S : j <= a[k]}) = k
  <2>1. /\ IsSeq(Ascending(S)) /\ Cardinality(S) \in Nat /\ DOMAIN Ascending(S) = 1..Cardinality(S)
        /\ \A k \in DOMAIN Ascending(S) :
               Ascending(S)[k] \in S /\ Cardinality({j \in S : j <= Ascending(S)[k]}) = k
    BY <1>2, <1>3, AscendingRanks
  <2> QED BY <1>4, <1>5, <2>1
<1>8. /\ IsSeq(b) /\ DOMAIN b = 1..(c + 1)
      /\ \A k \in 1..(c + 1) : b[k] \in R /\ Cardinality({j \in R : j <= b[k]}) = k
      /\ \A i, j \in R : Cardinality({l \in R : l <= i}) = Cardinality({l \in R : l <= j}) => i = j
  <2>1. /\ IsSeq(Ascending(R)) /\ Cardinality(R) \in Nat /\ DOMAIN Ascending(R) = 1..Cardinality(R)
        /\ \A k \in DOMAIN Ascending(R) :
               Ascending(R)[k] \in R /\ Cardinality({j \in R : j <= Ascending(R)[k]}) = k
    BY <1>2, <1>3, AscendingRanks
  <2>2. \A i, j \in R : Cardinality({l \in R : l <= i}) = Cardinality({l \in R : l <= j}) => i = j
    BY <1>2, <1>3, AscendingRanks
  <2>3. Cardinality(R) = c + 1
    BY <1>3, <1>4
  <2> QED BY <1>6, <2>1, <2>2, <2>3
<1>9. \A i \in S : {j \in R : j <= i} = {j \in S : j <= i}
  BY <1>1, <1>2
<1>10. {j \in R : j <= n + 1} = R
  <2>1. \A j \in S : j <= n + 1
    BY <1>2
  <2>2. \A j \in R : j <= n + 1
    BY <1>1, <2>1
  <2> QED BY <2>2
<1>11. \A k \in 1..c : b[k] = a[k]
  <2> SUFFICES ASSUME NEW k \in 1..c PROVE b[k] = a[k]
    OBVIOUS
  <2>1. k \in 1..(c + 1)
    BY <1>7
  <2>2. a[k] \in S /\ a[k] \in R /\ Cardinality({j \in R : j <= a[k]}) = k
    BY <1>1, <1>7, <1>9
  <2>3. b[k] \in R /\ Cardinality({j \in R : j <= b[k]}) = k
    BY <1>8, <2>1
  <2> QED BY <1>8, <2>2, <2>3
<1>12. b[c + 1] = n + 1
  <2>1. n + 1 \in R /\ Cardinality({j \in R : j <= n + 1}) = c + 1
    BY <1>1, <1>3, <1>4, <1>10
  <2>2. c + 1 \in 1..(c + 1)
    BY <1>7
  <2>3. b[c + 1] \in R /\ Cardinality({j \in R : j <= b[c + 1]}) = c + 1
    BY <1>8, <2>2
  <2> QED BY <1>8, <2>1, <2>3
<1>13. PICK g : g = Append(a, n + 1)
  OBVIOUS
<1>14. Len(a) = c
  BY <1>7, LenProperties DEF IsSeq
<1>15. IsSeq(g) /\ DOMAIN g = 1..(c + 1) /\ g[c + 1] = n + 1 /\ \A k \in 1..c : g[k] = a[k]
  <2>1. PICK x : x = n + 1
    OBVIOUS
  <2>2. IsSeq(a) /\ c = Len(a)
    BY <1>7, <1>14
  <2>3. /\ IsSeq(Append(a, x)) /\ DOMAIN Append(a, x) = 1..(c + 1) /\ Append(a, x)[c + 1] = x
        /\ \A i \in 1..c : Append(a, x)[i] = a[i]
    BY <2>2, AppendPositions
  <2> QED BY <1>13, <2>1, <2>3
<1>16. \A k \in 1..(c + 1) : b[k] = g[k]
  BY <1>7, <1>11, <1>12, <1>15
<1>17. b = g
  BY <1>8, <1>15, <1>16, SameElements
<1> QED BY <1>1, <1>5, <1>6, <1>13, <1>17

\* The ids of the events in a history are those of the events of these types.
LEMMA IdsAtElements ==
    ASSUME NEW h, IsSeq(h), NEW types
    PROVE  /\ IsSeq(IdsAt(h, types)) /\ Len(IdsAt(h, types)) \in Nat
           /\ DOMAIN IdsAt(h, types) = 1..Len(IdsAt(h, types))
           /\ \A k \in DOMAIN IdsAt(h, types) :
                  \E i \in DOMAIN h : h[i].type \in types /\ h[i].id = IdsAt(h, types)[k]
           /\ \A i \in DOMAIN h : h[i].type \in types =>
                  \E k \in DOMAIN IdsAt(h, types) : h[i].id = IdsAt(h, types)[k]
<1>1. PICK S : S = {i \in DOMAIN h : h[i].type \in types}
  OBVIOUS
<1>2. PICK a : a = Ascending(S)
  OBVIOUS
<1>3. S \subseteq Nat /\ IsFiniteSet(S)
  <2>1. Len(h) \in Nat /\ DOMAIN h = 1..Len(h)
    BY LenProperties DEF IsSeq
  <2>2. IsFiniteSet(1..Len(h))
    BY <2>1, FS_Interval
  <2>3. S \in SUBSET (1..Len(h))
    BY <1>1, <2>1
  <2>4. IsFiniteSet(S)
    BY <2>2, <2>3, FS_Subset
  <2> QED BY <2>1, <2>3, <2>4
<1>4. PICK c : c = Cardinality(S)
  OBVIOUS
<1>5. /\ IsSeq(a) /\ c \in Nat /\ DOMAIN a = 1..c
      /\ \A k \in DOMAIN a : a[k] \in S
      /\ \A i \in S : \E k \in DOMAIN a : a[k] = i
  BY <1>2, <1>3, <1>4, AscendingRanks
<1>6. PICK s : s = IdsAt(h, types)
  OBVIOUS
<1>7. s = [k \in 1..c |-> h[a[k]].id]
  BY <1>1, <1>2, <1>5, <1>6 DEF IdsAt
<1>8. DOMAIN s = 1..c /\ \A k \in 1..c : s[k] = h[a[k]].id
  BY <1>7
<1>9. IsSeq(s) /\ Len(s) = c
  <2>1. s = [k \in 1..c |-> s[k]]
    BY <1>7, <1>8
  <2>2. IsSeq(s)
    BY <1>5, <2>1, FunctionIsSeq
  <2> QED BY <1>5, <1>8, <2>2, LenProperties DEF IsSeq
<1> QED BY <1>1, <1>5, <1>6, <1>8, <1>9

\* An event of another type adds no id.
LEMMA IdsOfOthers ==
    ASSUME NEW h, NEW new, IsSeq(h), IsSeq(new), NEW types, \A k \in DOMAIN new : new[k].type \notin types
    PROVE  IdsAt(h \o new, types) = IdsAt(h, types)
<1>1. PICK g : g = h \o new
  OBVIOUS
<1>2. /\ \A i \in DOMAIN h : i \in DOMAIN g /\ g[i] = h[i]
      /\ \A i \in DOMAIN g : i \in DOMAIN h \/ \E k \in DOMAIN new : g[i] = new[k]
  BY SMTT(30), <1>1, ConcatElements
<1>3. PICK S : S = {i \in DOMAIN h : h[i].type \in types}
  OBVIOUS
<1>4. {i \in DOMAIN g : g[i].type \in types} = S
  BY <1>2, <1>3
<1>5. PICK a : a = Ascending(S)
  OBVIOUS
<1>6. \A k \in DOMAIN a : a[k] \in S
  <2>1. Len(h) \in Nat /\ DOMAIN h = 1..Len(h)
    BY LenProperties DEF IsSeq
  <2>2. IsFiniteSet(1..Len(h))
    BY <2>1, FS_Interval
  <2>3. S \in SUBSET (1..Len(h))
    BY <1>3, <2>1
  <2>4. IsFiniteSet(S)
    BY <2>2, <2>3, FS_Subset
  <2>5. S \subseteq Nat
    BY <2>1, <2>3
  <2> QED BY <1>5, <2>4, <2>5, AscendingRanks
<1>7. \A k \in DOMAIN a : g[a[k]] = h[a[k]]
  BY <1>2, <1>3, <1>6
<1>8. IdsAt(g, types) = [k \in DOMAIN a |-> g[a[k]].id]
  BY <1>4, <1>5 DEF IdsAt
<1>9. IdsAt(h, types) = [k \in DOMAIN a |-> h[a[k]].id]
  BY <1>3, <1>5 DEF IdsAt
<1> QED BY <1>1, <1>7, <1>8, <1>9

\* An event of one of the types adds its id behind the others.
LEMMA IdsOfOneMore ==
    ASSUME NEW h, IsSeq(h), NEW e, NEW types, e.type \in types
    PROVE  IdsAt(Append(h, e), types) = Append(IdsAt(h, types), e.id)
<1>1. PICK n : n = Len(h)
  OBVIOUS
<1>2. PICK g : g = Append(h, e)
  OBVIOUS
<1>3. /\ n \in Nat /\ DOMAIN h = 1..n /\ DOMAIN g = 1..(n + 1) /\ g[n + 1] = e
      /\ \A i \in 1..n : g[i] = h[i]
  BY <1>1, <1>2, AppendPositions
<1>4. PICK S : S = {i \in DOMAIN h : h[i].type \in types}
  OBVIOUS
<1>5. S \subseteq 1..n
  BY <1>3, <1>4
<1>6. {i \in DOMAIN g : g[i].type \in types} = S \cup {n + 1}
  BY <1>3, <1>4
<1>7. PICK a : a = Ascending(S)
  OBVIOUS
<1>8. PICK b : b = Ascending(S \cup {n + 1})
  OBVIOUS
<1>9. b = Append(a, n + 1)
  BY <1>3, <1>5, <1>7, <1>8, AscendingAppends
<1>10. PICK c : c = Len(a)
  OBVIOUS
<1>11. IsSeq(a) /\ \A k \in DOMAIN a : a[k] \in S
  <2>1. IsFiniteSet(1..n)
    BY <1>3, FS_Interval
  <2>2. S \in SUBSET (1..n)
    BY <1>5
  <2>3. IsFiniteSet(S)
    BY <2>1, <2>2, FS_Subset
  <2>4. S \subseteq Nat
    BY <1>3, <2>2
  <2> QED BY <1>7, <2>3, <2>4, AscendingRanks
<1>12. /\ c \in Nat /\ DOMAIN a = 1..c /\ DOMAIN b = 1..(c + 1) /\ b[c + 1] = n + 1
       /\ \A k \in 1..c : b[k] = a[k]
  BY <1>9, <1>10, <1>11, AppendPositions
<1>13. PICK s : s = IdsAt(h, types)
  OBVIOUS
<1>14. PICK t : t = IdsAt(g, types)
  OBVIOUS
<1>15. /\ DOMAIN s = 1..c /\ \A k \in 1..c : s[k] = h[a[k]].id
       /\ IsSeq(s) /\ Len(s) = c
  <2>1. s = [k \in DOMAIN a |-> h[a[k]].id]
    BY <1>4, <1>7, <1>13 DEF IdsAt
  <2>2. IsSeq(s)
    BY <1>13, IdsAtElements
  <2>3. DOMAIN s = 1..c
    BY <1>12, <2>1
  <2> QED BY <1>12, <2>1, <2>2, <2>3, LenProperties DEF IsSeq
<1>16. /\ DOMAIN t = 1..(c + 1) /\ \A k \in 1..(c + 1) : t[k] = g[b[k]].id
       /\ IsSeq(t)
  <2>1. t = [k \in DOMAIN b |-> g[b[k]].id]
    BY <1>6, <1>8, <1>14 DEF IdsAt
  <2>2. IsSeq(g)
    BY <1>2, AppendIsSeq
  <2>3. IsSeq(t)
    BY <1>14, <2>2, IdsAtElements
  <2> QED BY <1>12, <2>1, <2>3
<1>17. PICK u : u = Append(s, e.id)
  OBVIOUS
<1>18. IsSeq(u) /\ DOMAIN u = 1..(c + 1) /\ u[c + 1] = e.id /\ \A k \in 1..c : u[k] = s[k]
  BY <1>15, <1>17, AppendPositions
<1>19. \A k \in 1..(c + 1) : t[k] = u[k]
  <2>1. ASSUME NEW k \in 1..c PROVE t[k] = u[k]
    <3>1. t[k] = g[a[k]].id
      BY <1>12, <1>16
    <3>2. g[a[k]] = h[a[k]]
      BY <1>3, <1>5, <1>11, <1>12
    <3> QED BY <1>15, <1>18, <3>1, <3>2
  <2>2. t[c + 1] = u[c + 1]
    BY <1>3, <1>12, <1>16, <1>18
  <2> QED BY <1>12, <2>1, <2>2
<1>20. t = u
  BY <1>16, <1>18, <1>19, SameElements
<1> QED BY <1>2, <1>13, <1>14, <1>17, <1>20

-----------------------------------------------------------------------------
(* The life of the commands                                                *)

\* What starts an activity or a timer; the ids of one type.
StartingTypes == {"ScheduleActivityTask", "StartTimer"}
CommandIds(type) == {DecisionId(type, n) : n \in 0..(MaxIds - 1)}

\* Such a decision.
Starts(d) == d.what \in StartingTypes

\* An activity or a timer that was asked for and is in no history yet.
Unsent(id) == id # COMPLETION_ID /\ StateOf(id) = "REQUESTED"

\* The ids a history started, in its order.
Started(h) == IdsAt(h, StartTypes)

\* No number that was given out is lost, but to a call that was rejected, and
\* new machines are behind older ones.
NumbersInv ==
    /\ id_counter \in 0..MaxIds
    /\ phase = "idle" => id_counter = 0
    /\ phase \in EnginePhases /\ task # "FatalDecisionError" =>
           \A n \in 0..(id_counter - 1) :
               \E id \in DOMAIN state_machines \ {COMPLETION_ID} : id.id = n
    /\ \A a, b \in DOMAIN order :
           a < b /\ Unsent(order[a]) /\ Unsent(order[b]) => order[a].id < order[b].id

\* What is started has the next number, in the history and in the answer.
NumberedIn(h, ds) ==
    /\ \A i \in DOMAIN h : /\ h[i].type = "ActivityTaskScheduled" => h[i].id \in CommandIds("ACTIVITY")
                           /\ h[i].type = "TimerStarted" => h[i].id \in CommandIds("TIMER")
    /\ \A k \in DOMAIN Started(h) : Started(h)[k].id = k - 1
    /\ \A k \in DOMAIN ds :
           /\ ds[k].what = "ScheduleActivityTask" => ds[k].id \in CommandIds("ACTIVITY")
           /\ ds[k].what = "StartTimer" => ds[k].id \in CommandIds("TIMER")
           /\ Starts(ds[k]) =>
                  /\ ds[k].id.id >= Len(Started(h))
                  /\ \A l \in DOMAIN ds : Starts(ds[l]) /\ k < l => ds[k].id.id < ds[l].id.id
                  /\ \A n \in Len(Started(h))..(ds[k].id.id - 1) :
                         \E l \in DOMAIN ds : Starts(ds[l]) /\ ds[l].id.id = n

\* A decision task's events are recorded directly behind its mark, and an end
\* of the workflow only when there is nothing it has not seen.
ClosingInv ==
    phase = "record" =>
        /\ \E s \in DOMAIN history :
               /\ history[s].type = "DecisionTaskStarted"
               /\ \A i \in (s + 1)..Len(history) : Records(history[i])
        /\ (\E k \in DOMAIN decisions : ClosesWorkflow(decisions[k])) => buffered = << >>

\* So it is in the history and the answer there are.
NumberedInv == NumberedIn(history, decisions)

\* What makes the history the life of a sequence of commands.
CommandsInv == NumbersInv /\ NumberedInv /\ ClosingInv

\* Only the machine that is moved to the end changes places with others.
LEMMA OthersKeepTheirOrder ==
    ASSUME NEW S, NEW s \in Seq(S), NEW x, x \in {s[i] : i \in DOMAIN s}, NEW t, t = MoveToEnd(s, x),
           NEW a \in DOMAIN t, NEW b \in DOMAIN t, a < b, t[a] # x, t[b] # x
    PROVE  \E i, j \in DOMAIN s : i < j /\ s[i] = t[a] /\ s[j] = t[b]
<1>1. PICK at : at = CHOOSE i \in DOMAIN s : s[i] = x
  OBVIOUS
<1>2. PICK n : n = Len(s)
  OBVIOUS
<1>3. n \in Nat /\ DOMAIN s = 1..n
  BY <1>2, LenProperties
<1>4. at \in 1..n
  BY <1>1, <1>3
<1>5. t = [i \in 1..n |-> IF i < at THEN s[i] ELSE IF i < n THEN s[i + 1] ELSE x]
  BY <1>1, <1>2, <1>3 DEF MoveToEnd
<1>6. DOMAIN t = 1..n /\ \A i \in 1..n : t[i] # x =>
          t[i] = s[IF i < at THEN i ELSE i + 1] /\ (i < at \/ i < n)
  BY <1>5
<1>7. \A i \in 1..n : (i < at \/ i < n) => (IF i < at THEN i ELSE i + 1) \in 1..n
  BY <1>3, <1>4
<1>8. (IF a < at THEN a ELSE a + 1) < (IF b < at THEN b ELSE b + 1)
  BY <1>3, <1>4, <1>6
<1> QED BY <1>3, <1>6, <1>7, <1>8

\* What keeps the machines where they are keeps their numbers.
LEMMA NumbersStay ==
    ASSUME NumbersInv, UNCHANGED << id_counter, order >>,
           phase' = "idle" => phase = "idle",
           phase' \in EnginePhases /\ task' # "FatalDecisionError" =>
               id_counter = 0 \/ (phase \in EnginePhases /\ task # "FatalDecisionError"),
           DOMAIN state_machines \subseteq DOMAIN state_machines',
           \A a \in DOMAIN order : Unsent(order[a])' => Unsent(order[a])
    PROVE  NumbersInv'
<1>1. id_counter' \in 0..MaxIds /\ (phase' = "idle" => id_counter' = 0)
  BY DEF NumbersInv
<1>2. ASSUME phase' \in EnginePhases, task' # "FatalDecisionError", NEW n \in 0..(id_counter' - 1)
      PROVE  \E id \in DOMAIN state_machines' \ {COMPLETION_ID} : id.id = n
  <2>1. id_counter # 0
    BY <1>2
  <2>2. \E id \in DOMAIN state_machines \ {COMPLETION_ID} : id.id = n
    BY <1>2, <2>1 DEF NumbersInv
  <2> QED BY <2>2
<1>3. ASSUME NEW a \in DOMAIN order', NEW b \in DOMAIN order', a < b, Unsent(order[a])', Unsent(order[b])'
      PROVE  order'[a].id < order'[b].id
  <2>1. Unsent(order[a]) /\ Unsent(order[b])
    BY <1>3
  <2> QED BY <1>3, <2>1 DEF NumbersInv
<1> QED BY <1>1, <1>2, <1>3 DEF NumbersInv

\* A new machine has the number the counter stands at, or is the completion.
LEMMA AddKeepsNumbers ==
    ASSUME IInv, NumbersInv, NEW id, NEW m, Add(id, m), raised' = "none",
           \/ /\ id # COMPLETION_ID /\ id.id = id_counter
              /\ id_counter' = id_counter + 1 /\ id_counter < MaxIds
           \/ id = COMPLETION_ID /\ UNCHANGED id_counter,
           phase \in EnginePhases, phase' # "idle",
           task' # "FatalDecisionError" => task # "FatalDecisionError"
    PROVE  NumbersInv'
<1>1. /\ id \notin DOMAIN state_machines
      /\ state_machines' = [i \in DOMAIN state_machines \cup {id} |->
                               IF i = id THEN m ELSE state_machines[i]]
      /\ order' = Append(order, id)
  BY DEF Add
<1>2. IsSeq(order) /\ id_counter \in Nat /\ MaxIds \in Nat
      /\ \A a \in DOMAIN order : order[a] \in DOMAIN state_machines
  BY SeqIsSeq, BoundsAssumption DEF IInv, ManagerInv, MachinesInv, OrderIsKeys
<1>3. PICK n : n = Len(order)
  OBVIOUS
<1>4. n \in Nat /\ DOMAIN order = 1..n /\ DOMAIN order' = 1..(n + 1) /\ order'[n + 1] = id
      /\ \A a \in 1..n : order'[a] = order[a]
  BY <1>1, <1>2, <1>3, AppendPositions
<1>5. id_counter' \in 0..MaxIds
  BY <1>2 DEF NumbersInv
<1>6. ASSUME phase' \in EnginePhases, task' # "FatalDecisionError", NEW k \in 0..(id_counter' - 1)
      PROVE  \E i \in DOMAIN state_machines' \ {COMPLETION_ID} : i.id = k
  <2>1. CASE k \in 0..(id_counter - 1)
    <3>1. PICK i \in DOMAIN state_machines \ {COMPLETION_ID} : i.id = k
      BY <1>6, <2>1 DEF NumbersInv
    <3>2. i \in DOMAIN state_machines'
      BY <1>1
    <3> QED BY <3>1, <3>2
  <2>2. CASE k \notin 0..(id_counter - 1)
    <3>1. id # COMPLETION_ID /\ id.id = k
      BY <1>2, <1>6, <2>2
    <3>2. id \in DOMAIN state_machines'
      BY <1>1
    <3> QED BY <3>1, <3>2
  <2> QED BY <2>1, <2>2
<1>7. ASSUME NEW a \in 1..n, Unsent(order[a])' PROVE Unsent(order[a]) /\ order[a].id < id_counter
  <2>1. order'[a] = order[a] /\ order[a] \in DOMAIN state_machines
    BY <1>2, <1>4
  <2>2. state_machines'[order[a]] = state_machines[order[a]]
    BY <1>1, <2>1
  <2>3. Unsent(order[a])
    BY <1>7, <2>1, <2>2 DEF Unsent, StateOf
  <2>4. order[a].id < id_counter
    BY <2>1, <2>3 DEF Unsent, IInv, ManagerInv, MachinesInv, FreshIds
  <2> QED BY <2>3, <2>4
<1>8. ASSUME NEW a \in 1..(n + 1), NEW b \in 1..(n + 1), a < b, Unsent(order[a])', Unsent(order[b])'
      PROVE  order'[a].id < order'[b].id
  <2>1. a \in 1..n
    BY <1>4, <1>8
  <2>2. CASE b \in 1..n
    <3>1. Unsent(order[a]) /\ Unsent(order[b])
      BY <1>7, <1>8, <2>1, <2>2
    <3>2. order[a].id < order[b].id
      BY <1>4, <1>8, <2>1, <2>2, <3>1 DEF NumbersInv
    <3> QED BY <1>4, <2>1, <2>2, <3>2
  <2>3. CASE b = n + 1
    <3>1. order'[b] = id /\ id # COMPLETION_ID
      BY <1>4, <1>8, <2>3 DEF Unsent
    <3>2. order[a].id < id_counter
      BY <1>7, <1>8, <2>1
    <3> QED BY <1>4, <2>1, <3>1, <3>2
  <2> QED BY <1>4, <2>2, <2>3
<1> QED BY <1>4, <1>5, <1>6, <1>8 DEF NumbersInv

\* The calls of the workflow: a number is given out with each machine, and only a
\* rejected call wastes one.
LEMMA WorkflowKeepsNumbers ==
    ASSUME IInv, NumbersInv, LetThrough', WorkflowNext
    PROVE  NumbersInv'
<1>1. ASSUME NEW type, NEW props, NEW request, Request(type, props, request), type \in {"ACTIVITY", "TIMER"},
             phase = "run", phase' = "run", Raises, id_counter < MaxIds, task = "running"
      PROVE  NumbersInv'
  <2>1. id_counter' = id_counter + 1 /\ id_counter \in Nat /\ MaxIds \in Nat
    BY <1>1, BoundsAssumption DEF Request, next_id, IInv, ManagerInv, MachinesInv
  <2>2. PICK id : id = DecisionId(type, id_counter)
    OBVIOUS
  <2>3. id # COMPLETION_ID /\ id.id = id_counter
    BY <1>1, <2>2 DEF DecisionId, COMPLETION_ID
  <2>4. CASE raised' = "none"
    <3>1. Accepted(id, props)
      BY <1>1, <2>2, <2>4 DEF Request, Reject
    <3>2. Add(id, Machine(props, request))
      BY <1>1, <2>2, <3>1 DEF Request
    <3> QED BY <1>1, <2>1, <2>3, <2>4, <3>2, AddKeepsNumbers DEF EnginePhases
  <2>5. CASE raised' # "none"
    <3>1. UNCHANGED << order, state_machines >>
      <4>1. CASE Accepted(id, props)
        BY <1>1, <2>2, <2>5, <4>1 DEF Request, Add
      <4>2. CASE ~Accepted(id, props)
        BY <1>1, <2>2, <4>2 DEF Request
      <4> QED BY <4>1, <4>2
    <3>2. task' = "FatalDecisionError"
      BY <1>1, <2>5 DEF Raises, LetThrough
    <3>3. \A a \in DOMAIN order : Unsent(order[a])' => Unsent(order[a])
      BY <3>1 DEF Unsent, StateOf
    <3>4. id_counter' \in 0..MaxIds
      BY <1>1, <2>1
    <3> QED BY <1>1, <3>1, <3>2, <3>3, <3>4 DEF NumbersInv
  <2> QED BY <2>4, <2>5
<1>2. ASSUME NEW id, request_cancel(id), phase = "run", phase' = "run", task' = task \/ Raises
      PROVE  NumbersInv'
  <2>1. id \in DOMAIN state_machines /\ UNCHANGED id_counter
    BY <1>2 DEF request_cancel
  <2>2. DOMAIN state_machines' = DOMAIN state_machines
        /\ \A i \in DOMAIN state_machines : StateOf(i)' = "REQUESTED" => StateOf(i) = "REQUESTED" /\ (order' # order => i # id)
    <3>1. CASE ~Cancellable(state_machines[id])
      BY <1>2, <3>1 DEF request_cancel, StateOf
    <3>2. CASE Cancellable(state_machines[id])
      <4>1. state_machines' = [state_machines EXCEPT ![id] = CancelRequested(id.type, state_machines[id])]
        BY <1>2, <3>2 DEF request_cancel
      <4>2. MachineOK(state_machines[id])
        BY <2>1 DEF IInv, ManagerInv, MachinesInv
      <4>3. CancelRequested(id.type, state_machines[id]).state # "REQUESTED"
        BY <4>2 DEF CancelRequested, MachineOK
      <4> QED BY <2>1, <4>1, <4>3 DEF StateOf
    <3> QED BY <3>1, <3>2
  <2>3. task' # "FatalDecisionError" => task # "FatalDecisionError"
    BY <1>2 DEF Raises
  <2>4. /\ order \in Seq(DecisionIds) /\ id \in {order[i] : i \in DOMAIN order}
        /\ \A a \in DOMAIN order : order[a] \in DOMAIN state_machines
        /\ \A i, j \in DOMAIN order : order[i] = order[j] => i = j
    BY <2>1 DEF IInv, ManagerInv, MachinesInv, OrderIsKeys
  <2>5. CASE order' = order
    <3>1. \A a \in DOMAIN order : Unsent(order[a])' => Unsent(order[a])
      BY <2>2, <2>4, <2>5 DEF Unsent
    <3> QED BY <1>2, <2>1, <2>2, <2>3, <2>5, <3>1, NumbersStay DEF EnginePhases
  <2>6. CASE order' # order
    <3>1. order' = MoveToEnd(order, id)
      BY <1>2, <2>6 DEF request_cancel
    <3>2. \A a \in DOMAIN order' : order'[a] \in DOMAIN state_machines
      <4>1. LET t == MoveToEnd(order, id)
            IN  {t[i] : i \in DOMAIN t} = {order[i] : i \in DOMAIN order}
        BY <2>4, MoveToEndPermutes
      <4>2. {order'[a] : a \in DOMAIN order'} = {order[a] : a \in DOMAIN order}
        BY <3>1, <4>1
      <4>3. \A a \in DOMAIN order' : order'[a] \in {order[i] : i \in DOMAIN order}
        BY <4>2
      <4> QED BY <2>4, <4>3
    <3>3. ASSUME NEW a \in DOMAIN order', Unsent(order[a])' PROVE Unsent(order'[a]) /\ order'[a] # id
      <4>1. PICK i : i = order'[a]
        OBVIOUS
      <4>2. i \in DOMAIN state_machines /\ i # COMPLETION_ID /\ StateOf(i)' = "REQUESTED"
        BY <3>2, <3>3, <4>1 DEF Unsent
      <4>3. Unsent(i) /\ i # id
        BY <2>2, <2>6, <4>2 DEF Unsent
      <4> QED BY <4>1, <4>3
    <3>4. ASSUME NEW a \in DOMAIN order', NEW b \in DOMAIN order', a < b, Unsent(order[a])', Unsent(order[b])'
          PROVE  order'[a].id < order'[b].id
      <4>1. Unsent(order'[a]) /\ order'[a] # id /\ Unsent(order'[b]) /\ order'[b] # id
        BY <3>3, <3>4
      <4>2. \E i, j \in DOMAIN order : i < j /\ order[i] = order'[a] /\ order[j] = order'[b]
        BY <2>4, <3>1, <3>4, <4>1, OthersKeepTheirOrder
      <4> QED BY <4>1, <4>2 DEF NumbersInv
    <3>5. id_counter' \in 0..MaxIds
      BY <2>1 DEF NumbersInv
    <3>6. task' # "FatalDecisionError" =>
              \A n \in 0..(id_counter' - 1) : \E i \in DOMAIN state_machines' \ {COMPLETION_ID} : i.id = n
      BY <1>2, <2>1, <2>2, <2>3 DEF NumbersInv, EnginePhases
    <3> QED BY <1>2, <3>4, <3>5, <3>6 DEF NumbersInv
  <2> QED BY <2>5, <2>6
<1>3. ASSUME NEW t \in ActivityTypes, ExecuteActivity(t) PROVE NumbersInv'
  BY <1>1, <1>3 DEF ExecuteActivity, Calls, schedule_activity
<1>4. CASE StartTimer
  BY <1>1, <1>4 DEF StartTimer, Calls, start_timer
<1>5. ASSUME NEW id \in DOMAIN state_machines, CancelFuture(id) PROVE NumbersInv'
  BY <1>2, <1>5 DEF CancelFuture, Calls
<1>6. ASSUME NEW id \in DOMAIN state_machines, AutomaticCancel(id) PROVE NumbersInv'
  BY <1>2, <1>6 DEF AutomaticCancel, engineVars
<1>7. ASSUME phase = "run", phase' \in {"run", "complete"}, UNCHANGED managerVars,
             task = "running" \/ UNCHANGED task
      PROVE  NumbersInv'
  <2>1. /\ UNCHANGED << id_counter, order, state_machines >>
        /\ phase \in EnginePhases /\ phase' # "idle"
        /\ task' # "FatalDecisionError" => task # "FatalDecisionError"
    BY <1>7 DEF managerVars, EnginePhases
  <2>2. \A a \in DOMAIN order : Unsent(order[a])' => Unsent(order[a])
    BY <2>1 DEF Unsent, StateOf
  <2> QED BY <2>1, <2>2, NumbersStay
<1>8. ASSUME NEW outcome, Ends(outcome) PROVE NumbersInv'
  BY <1>7, <1>8 DEF Ends, Calls
<1>9. CASE Yield
  BY <1>7, <1>9 DEF Yield
<1>10. CASE RejectionUnwinds
  BY <1>7, <1>10 DEF RejectionUnwinds
<1> QED BY <1>3, <1>4, <1>5, <1>6, <1>8, <1>9, <1>10 DEF WorkflowNext, Return, continue_as_new

\* The engine makes no machine but the completion.
LEMMA EngineKeepsNumbers ==
    ASSUME IInv, NumbersInv, EngineNext
    PROVE  NumbersInv'
<1>1. phase \in EnginePhases /\ phase' # "idle"
  BY WorkerWritesNothing
<1>2. ASSUME UNCHANGED << id_counter, order, state_machines >>, task' # "FatalDecisionError" => task # "FatalDecisionError"
      PROVE  NumbersInv'
  <2>1. \A a \in DOMAIN order : Unsent(order[a])' => Unsent(order[a])
    BY <1>2 DEF Unsent, StateOf
  <2> QED BY <1>1, <1>2, <2>1, NumbersStay
<1>3. ASSUME NEW e, NEW n, handle_history_event(e, n), task' # "FatalDecisionError" => task # "FatalDecisionError"
      PROVE  NumbersInv'
  <2>1. UNCHANGED << id_counter, order >>
    BY <1>3 DEF handle_history_event
  <2>2. /\ DOMAIN state_machines' = DOMAIN state_machines
        /\ \A id \in DOMAIN state_machines : StateOf(id)' = "REQUESTED" => StateOf(id) = "REQUESTED"
    <3>1. CASE UNCHANGED state_machines
      BY <3>1 DEF StateOf
    <3>2. CASE ~UNCHANGED state_machines
      <4>1. e.type \in DOMAIN type_to_action
        BY <1>3, <3>2 DEF handle_history_event
      <4>2. PICK h : h = type_to_action[e.type]
        OBVIOUS
      <4>3. h.to \in {"keep", "RECORDED", "COMPLETED", "CANCELLATION_RECORDED"}
        BY <4>1, <4>2, HandlerTable
      <4>4. PICK id : /\ id = aliases[<< h.type, h.attr, e[h.attr] >>]
                      /\ state_machines' = [state_machines EXCEPT ![id] = Handled(h, state_machines[id])]
        BY <1>3, <3>2, <4>1, <4>2 DEF handle_history_event
      <4>5. DOMAIN state_machines' = DOMAIN state_machines
            /\ \A i \in DOMAIN state_machines : i # id => state_machines'[i] = state_machines[i]
        BY <4>4
      <4>6. ASSUME id \in DOMAIN state_machines, StateOf(id)' = "REQUESTED" PROVE StateOf(id) = "REQUESTED"
        <5>1. state_machines'[id] = Handled(h, state_machines[id])
          BY <4>4, <4>6
        <5>2. MachineOK(state_machines[id])
          BY <4>6 DEF IInv, ManagerInv, MachinesInv
        <5>3. Handled(h, state_machines[id]).state = IF h.to = "keep" THEN state_machines[id].state ELSE h.to
          BY <5>2 DEF Handled, MachineOK
        <5> QED BY <4>3, <4>6, <5>1, <5>3 DEF StateOf
      <4> QED BY <4>5, <4>6 DEF StateOf
    <3> QED BY <3>1, <3>2
  <2>3. \A a \in DOMAIN order : order[a] \in DOMAIN state_machines
    BY DEF IInv, ManagerInv, MachinesInv, OrderIsKeys
  <2>4. \A a \in DOMAIN order : Unsent(order[a])' => Unsent(order[a])
    BY <2>1, <2>2, <2>3 DEF Unsent
  <2> QED BY <1>1, <1>3, <2>1, <2>2, <2>4, NumbersStay
<1>4. CASE NextDecisionEvents
  BY <1>2, <1>4 DEF NextDecisionEvents, RaiseInEngine, start_execution
<1>5. CASE CollectDecisions
  BY <1>2, <1>5 DEF CollectDecisions, managerVars
<1>6. CASE ApplyInputEvent
  BY <1>3, <1>6 DEF ApplyInputEvent
<1>7. CASE StartRun
  BY <1>2, <1>7 DEF StartRun, managerVars
<1>8. CASE MaybeCompleteWorkflow
  <2>1. CASE UNCHANGED managerVars
    BY <1>2, <1>8, <2>1 DEF MaybeCompleteWorkflow, managerVars
  <2>2. ASSUME NEW exception, RaiseInEngine(exception) PROVE NumbersInv'
    BY <1>2, <1>8, <2>2 DEF MaybeCompleteWorkflow, RaiseInEngine
  <2>3. CASE complete_workflow(task)
    <3>1. UNCHANGED << id_counter, task >>
      BY <1>8, <2>3 DEF MaybeCompleteWorkflow, complete_workflow
    <3>2. CASE UNCHANGED << order, state_machines >>
      BY <1>2, <3>1, <3>2
    <3>3. CASE ~UNCHANGED << order, state_machines >>
      <4>1. Add(COMPLETION_ID, CompletionMachine(task))
        BY <2>3, <3>3 DEF complete_workflow
      <4>2. raised' = "none"
        BY <3>3, <4>1 DEF Add
      <4> QED BY <1>1, <3>1, <4>1, <4>2, AddKeepsNumbers
    <3> QED BY <3>2, <3>3
  <2> QED BY <1>8, <2>1, <2>2, <2>3 DEF MaybeCompleteWorkflow
<1>9. CASE EndExecution
  BY <1>2, <1>9 DEF EndExecution, end_execution
<1>10. CASE ApplyOutputEvent
  BY <1>3, <1>10 DEF ApplyOutputEvent
<1>11. CASE FinishBatch
  BY <1>2, <1>11 DEF FinishBatch, managerVars
<1> QED BY <1>4, <1>5, <1>6, <1>7, <1>8, <1>9, <1>10, <1>11 DEF EngineNext

\* A new engine counts from the start.
LEMMA ServiceKeepsNumbers ==
    ASSUME IInv, NumbersInv, ServiceNext
    PROVE  NumbersInv'
<1>1. CASE UNCHANGED << id_counter, order, state_machines >> /\ (phase' = "idle" => phase = "idle")
  <2>1. \A a \in DOMAIN order : Unsent(order[a])' => Unsent(order[a])
    BY <1>1 DEF Unsent, StateOf
  <2>2. phase' \in EnginePhases => phase = "idle"
    <3>1. CASE PollDecisionTask
      BY <3>1 DEF PollDecisionTask
    <3>2. CASE ~PollDecisionTask
      BY <3>2, ServiceLeavesTheEngine
    <3> QED BY <3>1, <3>2
  <2>3. phase' \in EnginePhases => id_counter = 0
    BY <2>2 DEF NumbersInv
  <2> QED BY <1>1, <2>1, <2>3, NumbersStay
<1>2. CASE DropEngine
  <2>1. id_counter' = 0 /\ order' = << >> /\ phase' = "idle" /\ MaxIds \in Nat
    BY <1>2, BoundsAssumption DEF DropEngine, NewManager
  <2>2. DOMAIN order' = {}
    BY <2>1, EmptyIsSeq
  <2> QED BY <2>1, <2>2 DEF NumbersInv, EnginePhases
<1>3. ASSUME NEW events, Arrive(events) PROVE NumbersInv'
  BY <1>1, <1>3 DEF Arrive, managerVars, engineVars
<1>4. ASSUME NEW s \in DOMAIN history, NEW type \in CloseEvents, ActivityCloses(s, type) PROVE NumbersInv'
  BY <1>3, <1>4 DEF ActivityCloses
<1>5. ASSUME NEW id, TimerFires(id) PROVE NumbersInv'
  BY <1>3, <1>5 DEF TimerFires
<1>6. CASE SignalArrives
  BY <1>3, <1>6 DEF SignalArrives
<1>7. CASE PollDecisionTask
  BY <1>1, <1>7 DEF PollDecisionTask, managerVars
<1>8. CASE DecisionTaskTimesOut \/ RespondDecisionTaskFailed
  BY <1>2, <1>8 DEF DecisionTaskTimesOut, RespondDecisionTaskFailed, Unsuccessfully
<1>9. CASE RespondDecisionTaskCompleted
  BY <1>1, <1>2, <1>9 DEF RespondDecisionTaskCompleted, Unsuccessfully, managerVars
<1>10. CASE RecordDecision
  BY <1>1, <1>10 DEF RecordDecision, managerVars, engineVars
<1>11. CASE FinishDecisionTask
  BY <1>2, <1>11 DEF FinishDecisionTask
<1> QED BY <1>4, <1>5, <1>6, <1>7, <1>8, <1>9, <1>10, <1>11 DEF ServiceNext

\* When the iterator is exhausted, everything that history says was handled.
LEMMA NothingIsPending ==
    ASSUME IInv, HistoryInv, EngineStateInv, phase = "next", Exhausted(history, pos)
    PROVE  /\ \A i \in DOMAIN history : HasHandler(i) => i \in Applied
           /\ Agree(Applied) /\ task # "FatalDecisionError"
<1>1. /\ IsSeq(history) /\ Len(history) \in Nat /\ DOMAIN history = 1..Len(history)
      /\ Len(history) # 0 /\ history[Len(history)].type = "DecisionTaskStarted"
      /\ pos \in Nat
  <2>1. IsSeq(history) /\ pos \in Nat
    BY DEF IInv, ServiceInv
  <2>2. Len(history) # 0 /\ history[Len(history)].type = "DecisionTaskStarted"
    BY DEF HistoryInv, PhaseInv
  <2> QED BY <2>1, <2>2, LenProperties DEF IsSeq
<1>2. pos > Len(history)
  BY <1>1, ExhaustedAtTheEnd
<1>3. \A i \in DOMAIN history : HasHandler(i) => i \in Applied
  <2>1. Pending = {}
    BY DEF Pending
  <2>2. \A i \in DOMAIN history : i \in 1..(pos - 1)
    BY <1>1, <1>2
  <2> QED BY <2>1, <2>2 DEF Applied
<1>4. Agree(Applied) /\ task # "FatalDecisionError"
  BY DEF EngineStateInv, AgreeInv, FatalInv, EnginePhases
<1> QED BY <1>3, <1>4

\* What a machine has to send: a start if it was never sent, and nothing else is one.
LEMMA StartsAreUnsent ==
    ASSUME LastInv, EngineStateInv, phase \in EnginePhases,
           NEW id \in DOMAIN state_machines, NEW d, d = GetDecision(id, state_machines[id])
    PROVE  /\ d.id = id
           /\ Starts(d) <=> Unsent(id)
           /\ Unsent(id) => d.what = IF id.type = "ACTIVITY" THEN "ScheduleActivityTask" ELSE "StartTimer"
           /\ Unsent(id) => id.type \in {"ACTIVITY", "TIMER"} /\ HasDecision(id, state_machines[id])
<1>1. CASE id = COMPLETION_ID
  <2>1. d.what = state_machines[id].request /\ d.id = id
    BY <1>1 DEF GetDecision, Decision
  <2>2. d.what \in Outcomes
    BY <1>1, <2>1 DEF EngineStateInv, CompletionRequest
  <2>3. d.what \notin {"ScheduleActivityTask", "StartTimer"}
    BY <2>2, OutcomesAssumption
  <2> QED BY <1>1, <2>1, <2>3 DEF Starts, StartingTypes, Unsent
<1>2. CASE id # COMPLETION_ID
  <2>1. id.type \in {"ACTIVITY", "TIMER"}
    BY <1>2 DEF LastInv, KeysInv
  <2>2. CASE StateOf(id) = "REQUESTED"
    <3>1. /\ d.what = IF id.type = "ACTIVITY" THEN "ScheduleActivityTask" ELSE "StartTimer"
          /\ d.id = id
      BY <1>2, <2>1, <2>2 DEF GetDecision, Decision, CreateDecision, StateOf
    <3>2. HasDecision(id, state_machines[id])
      BY <2>2 DEF HasDecision, StateOf
    <3> QED BY <1>2, <2>1, <2>2, <3>1, <3>2 DEF Starts, StartingTypes, Unsent
  <2>3. CASE StateOf(id) = "CANCELED_AFTER_REQUESTED"
    <3>1. d.what = "RecordMarker" /\ d.id = id
      BY <1>2, <2>3 DEF GetDecision, Decision, StateOf
    <3> QED BY <2>3, <3>1 DEF Starts, StartingTypes, Unsent
  <2>4. CASE StateOf(id) \notin {"REQUESTED", "CANCELED_AFTER_REQUESTED"}
    <3>1. /\ d.what = IF id.type = "ACTIVITY" THEN "RequestCancelActivityTask" ELSE "CancelTimer"
          /\ d.id = id
      BY <1>2, <2>1, <2>4 DEF GetDecision, Decision, CancelDecision, StateOf
    <3> QED BY <2>1, <2>4, <3>1 DEF Starts, StartingTypes, Unsent
  <2> QED BY <2>2, <2>3, <2>4
<1> QED BY <1>1, <1>2

\* A machine was never sent exactly if its number is not among those started.
LEMMA UnsentIsNext ==
    ASSUME ~ImmediateCancel, IInv, HistoryInv, EngineStateInv, NumberedInv,
           phase = "next", Exhausted(history, pos),
           NEW id \in DOMAIN state_machines \ {COMPLETION_ID}
    PROVE  Unsent(id) <=> id.id >= Len(Started(history))
<1>1. /\ \A i \in DOMAIN history : HasHandler(i) => i \in Applied
      /\ EventsAgree(Applied) /\ StatesAgree(Applied) /\ task # "FatalDecisionError"
  BY NothingIsPending DEF Agree
<1>2. PICK s : s = Started(history)
  OBVIOUS
<1>3. /\ Len(s) \in Nat /\ DOMAIN s = 1..Len(s)
      /\ \A k \in DOMAIN s : \E i \in DOMAIN history : history[i].type \in StartTypes /\ history[i].id = s[k]
      /\ \A i \in DOMAIN history : history[i].type \in StartTypes => \E k \in DOMAIN s : history[i].id = s[k]
  BY <1>2, IdsAtElements DEF Started, IInv, ServiceInv
<1>4. \A k \in DOMAIN s : s[k].id = k - 1
  BY <1>2 DEF NumberedInv, NumberedIn
<1>5. id.id \in Nat
  BY KeysAreIds DEF IInv, ManagerInv
<1>6. ASSUME id.id < Len(s) PROVE ~Unsent(id)
  <2>1. PICK k : k = id.id + 1
    OBVIOUS
  <2>2. k \in DOMAIN s /\ k - 1 = id.id
    BY <1>3, <1>5, <1>6, <2>1
  <2>3. s[k].id = id.id
    BY <1>4, <2>2
  <2>4. PICK i \in DOMAIN history : history[i].type \in StartTypes /\ history[i].id = s[k]
    BY <1>3, <2>2
  <2>5. i \in Applied
    BY <1>1, <2>4 DEF HasHandler, type_to_action, StartTypes
  <2>6. Subject(i) = s[k]
    BY <2>4 DEF Subject, SubjectIn, StartTypes, RefTypes, activity_close_types
  <2>7. s[k] \in DOMAIN state_machines \ {COMPLETION_ID} /\ StateOf(s[k]) # "REQUESTED"
    BY <1>1, <2>5, <2>6 DEF EventsAgree
  <2>8. s[k] = id
    BY <2>3, <2>7 DEF IInv, ManagerInv, MachinesInv, FreshIds
  <2> QED BY <2>7, <2>8 DEF Unsent
<1>7. ASSUME ~Unsent(id) PROVE id.id < Len(s)
  <2>1. StateOf(id) # "REQUESTED"
    BY <1>7 DEF Unsent
  <2>2. StateOf(id) # "CANCELED_AFTER_REQUESTED"
    BY <1>1 DEF StatesAgree
  <2>3. PICK i \in Applied : history[i].type \in StartTypes /\ history[i].id = id
    BY <1>1, <2>1, <2>2 DEF StatesAgree
  <2>4. i \in DOMAIN history
    <3>1. i \in 1..(pos - 1) /\ HasHandler(i)
      BY DEF Applied
    <3>2. PosInv
      BY DEF EngineStateInv, PlaceInv
    <3>3. pos \in 1..(Len(history) + 1)
      BY <3>2 DEF PosInv, EnginePhases
    <3>4. Len(history) \in Nat /\ DOMAIN history = 1..Len(history)
      BY LenProperties DEF IInv, ServiceInv, IsSeq
    <3> QED BY <3>1, <3>3, <3>4
  <2>5. PICK k \in DOMAIN s : id = s[k]
    BY <1>3, <2>3, <2>4
  <2>6. id.id = k - 1
    BY <1>4, <2>5
  <2> QED BY <1>3, <2>5, <2>6
<1>8. Unsent(id) <=> ~(id.id < Len(s))
  BY <1>6, <1>7
<1> QED BY <1>2, <1>3, <1>5, <1>8

\* The starts of an answer take up the numbers where the history leaves off.
LEMMA CollectKeepsNumbered ==
    ASSUME ~ImmediateCancel, IInv, LastInv, HistoryInv, EngineStateInv, NumbersInv, NumberedInv,
           CollectDecisions
    PROVE  NumberedInv'
<1>1. /\ phase = "next" /\ Exhausted(history, pos)
      /\ decisions' = collect_pending_decisions
      /\ UNCHANGED history
      /\ phase \in EnginePhases
  BY DEF CollectDecisions, EnginePhases
<1>2. PICK c : c = collect_pending_decisions
  OBVIOUS
<1>3. PICK w : CollectedFrom(c, Len(order), w)
  BY <1>2, CollectedInOrder DEF IInv, ManagerInv
<1>4. /\ Len(order) \in Nat /\ DOMAIN order = 1..Len(order)
      /\ \A i \in DOMAIN order : order[i] \in DOMAIN state_machines
      /\ \A id \in DOMAIN state_machines : \E i \in DOMAIN order : order[i] = id
  BY LenProperties DEF IInv, ManagerInv, MachinesInv, OrderIsKeys
<1>5. ASSUME NEW k \in DOMAIN c
      PROVE  /\ w[k] \in DOMAIN order /\ order[w[k]] \in DOMAIN state_machines
             /\ c[k] = GetDecision(order[w[k]], state_machines[order[w[k]]])
  BY <1>3, <1>4 DEF CollectedFrom, SentOf
<1>6. ASSUME NEW k \in DOMAIN c
      PROVE  /\ c[k].id = order[w[k]]
             /\ Starts(c[k]) => /\ Unsent(c[k].id) /\ c[k].id \in DOMAIN state_machines
                                /\ c[k].id.type \in {"ACTIVITY", "TIMER"}
                                /\ c[k].what = IF c[k].id.type = "ACTIVITY" THEN "ScheduleActivityTask"
                                               ELSE "StartTimer"
  BY <1>1, <1>5, StartsAreUnsent
<1>7. ASSUME NEW id \in DOMAIN state_machines, Unsent(id)
      PROVE  \E k \in DOMAIN c : c[k].id = id /\ Starts(c[k])
  <2>1. PICK i \in DOMAIN order : order[i] = id
    BY <1>4
  <2>2. HasDecision(id, state_machines[id])
    BY <1>1, <1>7, StartsAreUnsent
  <2>3. i \in 1..Len(order) /\ Sends(i)
    BY <1>4, <2>1, <2>2 DEF Sends
  <2>4. PICK k \in DOMAIN c : w[k] = i
    BY <1>3, <2>3 DEF CollectedFrom
  <2>5. c[k].id = id
    BY <1>6, <2>1, <2>4
  <2>6. c[k] = GetDecision(id, state_machines[id])
    BY <1>5, <2>1, <2>4
  <2> QED BY <1>1, <1>7, <2>5, <2>6, StartsAreUnsent
<1>8. \A id \in DOMAIN state_machines \ {COMPLETION_ID} :
          /\ Unsent(id) <=> id.id >= Len(Started(history))
          /\ id.id \in Nat /\ id.id < id_counter /\ id = DecisionId(id.type, id.id)
  <2> TAKE id \in DOMAIN state_machines \ {COMPLETION_ID}
  <2>1. Unsent(id) <=> id.id >= Len(Started(history))
    BY <1>1, UnsentIsNext
  <2>2. id \in DecisionIds /\ id.id \in Nat
    BY KeysAreIds DEF IInv, ManagerInv
  <2>3. id = DecisionId(id.type, id.id)
    BY <2>2 DEF DecisionIds, DecisionId
  <2>4. id.id < id_counter
    BY DEF IInv, ManagerInv, MachinesInv, FreshIds
  <2> QED BY <2>1, <2>2, <2>3, <2>4
<1>9. PICK L : L = Len(Started(history))
  OBVIOUS
<1>10. L \in Nat
  BY <1>9, IdsAtElements DEF Started, IInv, ServiceInv
<1>11. id_counter \in 0..MaxIds /\ MaxIds \in Nat
  BY BoundsAssumption DEF NumbersInv
<1>12. ASSUME NEW k \in DOMAIN c, Starts(c[k])
       PROVE  /\ c[k].what = "ScheduleActivityTask" => c[k].id \in CommandIds("ACTIVITY")
              /\ c[k].what = "StartTimer" => c[k].id \in CommandIds("TIMER")
              /\ c[k].id.id >= L /\ c[k].id.id \in Nat
              /\ \A l \in DOMAIN c : Starts(c[l]) /\ k < l => c[k].id.id < c[l].id.id
              /\ \A n \in L..(c[k].id.id - 1) : \E l \in DOMAIN c : Starts(c[l]) /\ c[l].id.id = n
  <2>1. PICK id : id = c[k].id
    OBVIOUS
  <2>2. /\ id \in DOMAIN state_machines \ {COMPLETION_ID} /\ Unsent(id)
        /\ id.type \in {"ACTIVITY", "TIMER"}
        /\ c[k].what = IF id.type = "ACTIVITY" THEN "ScheduleActivityTask" ELSE "StartTimer"
    BY <1>6, <1>12, <2>1 DEF Unsent
  <2>3. id.id \in Nat /\ id.id < id_counter /\ id = DecisionId(id.type, id.id) /\ id.id >= L
    BY <1>8, <1>9, <2>2
  <2>4. id.id \in 0..(MaxIds - 1)
    BY <1>11, <2>3
  <2>5. id \in CommandIds(id.type)
    BY <2>3, <2>4 DEF CommandIds
  <2>6. ASSUME NEW l \in DOMAIN c, Starts(c[l]), k < l PROVE id.id < c[l].id.id
    <3>1. w[k] < w[l] /\ w[k] \in DOMAIN order /\ w[l] \in DOMAIN order
      BY <1>3, <1>5, <2>6 DEF CollectedFrom
    <3>2. Unsent(order[w[k]]) /\ Unsent(order[w[l]])
      BY <1>6, <1>12, <2>6
    <3>3. order[w[k]].id < order[w[l]].id
      BY <3>1, <3>2 DEF NumbersInv
    <3> QED BY <1>6, <2>1, <3>3
  <2>7. ASSUME NEW n \in L..(id.id - 1) PROVE \E l \in DOMAIN c : Starts(c[l]) /\ c[l].id.id = n
    <3>1. n \in 0..(id_counter - 1) /\ n >= L
      BY <1>10, <1>11, <2>3, <2>7
    <3>2. task # "FatalDecisionError"
      BY <1>1, NothingIsPending
    <3>3. PICK i \in DOMAIN state_machines \ {COMPLETION_ID} : i.id = n
      BY <1>1, <3>1, <3>2 DEF NumbersInv
    <3>4. Unsent(i)
      BY <1>8, <1>9, <3>1, <3>3
    <3> QED BY <1>7, <3>3, <3>4
  <2> QED BY <2>1, <2>2, <2>3, <2>5, <2>6, <2>7
<1>13. decisions' = c
  BY <1>1, <1>2
<1>14. \A k \in DOMAIN c :
           c[k].what \in {"ScheduleActivityTask", "StartTimer"} => Starts(c[k])
  BY DEF Starts, StartingTypes
<1>15. NumberedIn(history, c)
  BY <1>9, <1>12, <1>14 DEF NumberedInv, NumberedIn
<1> QED BY <1>1, <1>13, <1>15 DEF NumberedInv

\* What is written besides starts neither takes nor frees a number.
LEMMA NumberedStays ==
    ASSUME NEW h, NEW new, IsSeq(h), IsSeq(new), NEW ds, NumberedIn(h, ds),
           \A k \in DOMAIN new : new[k].type \notin StartTypes
    PROVE  NumberedIn(h \o new, ds) /\ NumberedIn(h \o new, << >>)
<1>1. PICK g : g = h \o new
  OBVIOUS
<1>2. Started(g) = Started(h)
  BY <1>1, IdsOfOthers DEF Started
<1>3. ASSUME NEW i \in DOMAIN g
      PROVE  /\ g[i].type = "ActivityTaskScheduled" => g[i].id \in CommandIds("ACTIVITY")
             /\ g[i].type = "TimerStarted" => g[i].id \in CommandIds("TIMER")
  <2>1. CASE i \in DOMAIN h
    <3>1. g[i] = h[i]
      BY <1>1, <2>1, ConcatElements
    <3> QED BY <2>1, <3>1 DEF NumberedIn
  <2>2. CASE \E k \in DOMAIN new : g[i] = new[k]
    BY <2>2 DEF StartTypes
  <2>3. i \in DOMAIN h \/ \E k \in DOMAIN new : g[i] = new[k]
    BY SMTT(30), <1>1, ConcatElements
  <2> QED BY <2>1, <2>2, <2>3
<1>4. \A k \in DOMAIN Started(g) : Started(g)[k].id = k - 1
  BY <1>2 DEF NumberedIn
<1>5. NumberedIn(g, ds)
  BY <1>2, <1>3 DEF NumberedIn
<1>6. NumberedIn(g, << >>)
  BY <1>3, <1>4, EmptyIsSeq DEF NumberedIn
<1> QED BY <1>1, <1>5, <1>6

\* The first decision of an answer is recorded: if it is a start, its number is
\* the next.
LEMMA NumberedTail ==
    ASSUME NEW h, IsSeq(h), NEW ds, IsSeq(ds), ds # << >>, NumberedIn(h, ds), NEW d, d = Head(ds)
    PROVE  /\ ~Starts(d) => NumberedIn(h, Tail(ds))
           /\ Starts(d) => d.id.id = Len(Started(h))
           /\ \A e : /\ Starts(d) /\ e.id = d.id
                     /\ e.type = IF d.what = "StartTimer" THEN "TimerStarted" ELSE "ActivityTaskScheduled"
                     => NumberedIn(Append(h, e), Tail(ds))
<1>1. PICK t : t = Tail(ds)
  OBVIOUS
<1>2. PICK n : n = Len(ds)
  OBVIOUS
<1>3. /\ n \in Nat /\ DOMAIN ds = 1..n /\ 1 \in DOMAIN ds /\ d = ds[1]
      /\ DOMAIN t = 1..(n - 1) /\ \A k \in DOMAIN t : k + 1 \in DOMAIN ds /\ t[k] = ds[k + 1]
  BY <1>1, <1>2, HeadAndTail
<1>4. \A l \in DOMAIN ds : l # 1 => l - 1 \in DOMAIN t /\ t[l - 1] = ds[l]
  <2> SUFFICES ASSUME NEW l \in DOMAIN ds, l # 1 PROVE l - 1 \in DOMAIN t /\ t[l - 1] = ds[l]
    OBVIOUS
  <2>1. l - 1 \in DOMAIN t /\ (l - 1) + 1 = l
    BY <1>3
  <2> QED BY <1>3, <2>1
<1>5. PICK L : L = Len(Started(h))
  OBVIOUS
<1>6. L \in Nat /\ DOMAIN Started(h) = 1..L
  BY <1>5, IdsAtElements DEF Started
<1>7. \A k \in DOMAIN ds : Starts(ds[k]) =>
          /\ ds[k].id.id \in 0..(MaxIds - 1) /\ ds[k].id.id >= L
          /\ \A l \in DOMAIN ds : Starts(ds[l]) /\ k < l => ds[k].id.id < ds[l].id.id
          /\ \A i \in L..(ds[k].id.id - 1) : \E l \in DOMAIN ds : Starts(ds[l]) /\ ds[l].id.id = i
  <2> SUFFICES ASSUME NEW k \in DOMAIN ds, Starts(ds[k])
               PROVE  /\ ds[k].id.id \in 0..(MaxIds - 1) /\ ds[k].id.id >= L
                      /\ \A l \in DOMAIN ds : Starts(ds[l]) /\ k < l => ds[k].id.id < ds[l].id.id
                      /\ \A i \in L..(ds[k].id.id - 1) :
                             \E l \in DOMAIN ds : Starts(ds[l]) /\ ds[l].id.id = i
    OBVIOUS
  <2>1. ds[k].id \in CommandIds("ACTIVITY") \cup CommandIds("TIMER")
    BY DEF NumberedIn, Starts, StartingTypes
  <2>2. ds[k].id.id \in 0..(MaxIds - 1)
    BY <2>1 DEF CommandIds, DecisionId
  <2> QED BY <1>5, <2>2 DEF NumberedIn
<1>8. ASSUME Starts(d) PROVE d.id.id = L
  <2>1. d.id.id \in Nat /\ d.id.id >= L
    BY <1>3, <1>7, <1>8
  <2>2. ASSUME d.id.id > L PROVE FALSE
    <3>1. L \in L..(d.id.id - 1)
      BY <1>6, <2>1, <2>2
    <3>2. PICK l \in DOMAIN ds : Starts(ds[l]) /\ ds[l].id.id = L
      BY <1>3, <1>7, <1>8, <3>1
    <3>3. l # 1
      BY <1>3, <1>6, <2>2, <3>2
    <3>5. 1 < l
      BY <1>3, <3>3
    <3>4. d.id.id < L
      BY <1>3, <1>7, <1>8, <3>2, <3>5
    <3> QED BY <1>6, <2>1, <2>2, <3>4
  <2> QED BY <1>6, <2>1, <2>2

\* The numbers of the rest, from M on.
<1>9. ASSUME NEW M \in {L, L + 1}, M = IF Starts(d) THEN L + 1 ELSE L, NEW k \in DOMAIN t, Starts(t[k])
      PROVE  /\ t[k].id.id >= M
             /\ \A l \in DOMAIN t : Starts(t[l]) /\ k < l => t[k].id.id < t[l].id.id
             /\ \A i \in M..(t[k].id.id - 1) : \E l \in DOMAIN t : Starts(t[l]) /\ t[l].id.id = i
  <2>1. PICK m : m = k + 1
    OBVIOUS
  <2>2. m \in DOMAIN ds /\ t[k] = ds[m] /\ 1 < m
    BY <1>3, <2>1
  <2>3. ds[m].id.id \in Nat /\ ds[m].id.id >= L
    BY <1>7, <1>9, <2>2
  <2>4. Starts(d) => ds[m].id.id > L
    BY <1>3, <1>7, <1>8, <1>9, <2>2
  <2>5. ASSUME NEW l \in DOMAIN t, Starts(t[l]), k < l PROVE t[k].id.id < t[l].id.id
    <3>1. l + 1 \in DOMAIN ds /\ t[l] = ds[l + 1] /\ m < l + 1
      BY <1>3, <2>1, <2>5
    <3> QED BY <1>7, <1>9, <2>2, <2>5, <3>1
  <2>6. ASSUME NEW i \in M..(t[k].id.id - 1) PROVE \E l \in DOMAIN t : Starts(t[l]) /\ t[l].id.id = i
    <3>1. i \in L..(ds[m].id.id - 1) /\ (Starts(d) => i # L)
      BY <1>6, <1>9, <2>2, <2>3, <2>6
    <3>2. PICK l \in DOMAIN ds : Starts(ds[l]) /\ ds[l].id.id = i
      BY <1>7, <1>9, <2>2, <3>1
    <3>3. l # 1
      BY <1>3, <1>8, <3>1, <3>2
    <3> QED BY <1>4, <3>2, <3>3
  <2> QED BY <1>6, <1>9, <2>2, <2>3, <2>4, <2>5, <2>6
<1>10. \A k \in DOMAIN t : /\ t[k].what = "ScheduleActivityTask" => t[k].id \in CommandIds("ACTIVITY")
                           /\ t[k].what = "StartTimer" => t[k].id \in CommandIds("TIMER")
  BY <1>3 DEF NumberedIn
<1>11. ASSUME ~Starts(d) PROVE NumberedIn(h, t)
  <2>1. \A k \in DOMAIN t : Starts(t[k]) =>
            /\ t[k].id.id >= L
            /\ \A l \in DOMAIN t : Starts(t[l]) /\ k < l => t[k].id.id < t[l].id.id
            /\ \A i \in L..(t[k].id.id - 1) : \E l \in DOMAIN t : Starts(t[l]) /\ t[l].id.id = i
    BY <1>9, <1>11
  <2> QED BY <1>5, <1>10, <2>1 DEF NumberedIn
<1>12. ASSUME NEW e, Starts(d), e.id = d.id,
              e.type = IF d.what = "StartTimer" THEN "TimerStarted" ELSE "ActivityTaskScheduled"
       PROVE  NumberedIn(Append(h, e), t)
  <2>1. PICK g : g = Append(h, e)
    OBVIOUS
  <2>2. PICK q : q = Len(h)
    OBVIOUS
  <2>3. /\ q \in Nat /\ DOMAIN h = 1..q /\ DOMAIN g = 1..(q + 1) /\ g[q + 1] = e
        /\ \A i \in 1..q : g[i] = h[i]
    BY <2>1, <2>2, AppendPositions
  <2>4. PICK s : s = Started(h)
    OBVIOUS
  <2>5. Started(g) = Append(s, d.id)
    BY <1>12, <2>1, <2>4, IdsOfOneMore DEF Started, StartTypes
  <2>6. IsSeq(s) /\ Len(s) = L
    BY <1>5, <2>4, IdsAtElements DEF Started
  <2>7. /\ Len(Started(g)) = L + 1 /\ DOMAIN Started(g) = 1..(L + 1) /\ Started(g)[L + 1] = d.id
        /\ \A k \in 1..L : Started(g)[k] = s[k]
    BY <2>5, <2>6, AppendPositions
  <2>8. \A k \in DOMAIN Started(g) : Started(g)[k].id = k - 1
    <3>1. \A k \in 1..L : s[k].id = k - 1
      BY <1>6, <2>4 DEF NumberedIn
    <3>2. d.id.id = L
      BY <1>8, <1>12
    <3>3. \A k \in 1..(L + 1) : k \in 1..L \/ k = L + 1
      BY <1>6
    <3>4. (L + 1) - 1 = L
      BY <1>6
    <3> QED BY <2>7, <3>1, <3>2, <3>3, <3>4
  <2>9. \A i \in DOMAIN g : /\ g[i].type = "ActivityTaskScheduled" => g[i].id \in CommandIds("ACTIVITY")
                            /\ g[i].type = "TimerStarted" => g[i].id \in CommandIds("TIMER")
    <3>1. /\ d.what = "ScheduleActivityTask" => d.id \in CommandIds("ACTIVITY")
          /\ d.what = "StartTimer" => d.id \in CommandIds("TIMER")
      BY <1>3 DEF NumberedIn
    <3>2. /\ e.type = "ActivityTaskScheduled" => e.id \in CommandIds("ACTIVITY")
          /\ e.type = "TimerStarted" => e.id \in CommandIds("TIMER")
      BY <1>12, <3>1 DEF Starts, StartingTypes
    <3>3. \A i \in DOMAIN g : (i \in DOMAIN h /\ g[i] = h[i]) \/ g[i] = e
      BY <2>3
    <3> QED BY <3>2, <3>3 DEF NumberedIn
  <2>10. \A k \in DOMAIN t : Starts(t[k]) =>
            /\ t[k].id.id >= L + 1
            /\ \A l \in DOMAIN t : Starts(t[l]) /\ k < l => t[k].id.id < t[l].id.id
            /\ \A i \in (L + 1)..(t[k].id.id - 1) : \E l \in DOMAIN t : Starts(t[l]) /\ t[l].id.id = i
    BY SMTT(30), <1>9, <1>12
  <2> QED BY <1>10, <2>1, <2>7, <2>8, <2>9, <2>10 DEF NumberedIn
<1> QED BY <1>1, <1>5, <1>8, <1>11, <1>12

\* What recording one decision writes, when no call was cancelled at once.
RecordsOne(d, types) ==
    \E e : e.type \in types /\ e.id = d.id /\ history' = Append(history, e)

\* The firing of this timer.
IsFiringOf(id, event) == event.type = "TimerFired" /\ event.id = id

\* Recording a decision writes the event of its kind, and may drop the firing
\* of a cancelled timer.
LEMMA DecisionRecorded ==
    ASSUME ~ImmediateCancel, IInv, HistoryInv, DecisionsInv, RecordDecision, NEW d, d = Head(decisions)
    PROVE  /\ phase = "record" /\ phase' = "record" /\ ~Closed
           /\ decisions # << >> /\ decisions' = Tail(decisions) /\ Sendable(history, d)
           /\ \/ /\ Starts(d) /\ ~ClosesWorkflow(d) /\ UNCHANGED buffered
                 /\ RecordsOne(d, {IF d.what = "StartTimer" THEN "TimerStarted" ELSE "ActivityTaskScheduled"})
              \/ /\ d.what = "CancelTimer" /\ ~Starts(d) /\ ~ClosesWorkflow(d)
                 /\ RecordsOne(d, {"TimerCanceled"})
                 /\ \/ UNCHANGED buffered
                    \/ \E i \in DOMAIN buffered :
                           IsFiringOf(d.id, buffered[i]) /\ buffered' = SE!RemoveAt(buffered, i)
              \/ /\ d.what = "RequestCancelActivityTask" /\ ~Starts(d) /\ ~ClosesWorkflow(d)
                 /\ UNCHANGED buffered
                 /\ \/ RecordsOne(d, {"ActivityTaskCancelRequested"})
                    \/ \E e, f : /\ e.type = "ActivityTaskCancelRequested" /\ e.id = d.id
                                 /\ f.type = "RequestCancelActivityTaskFailed" /\ f.id = d.id
                                 /\ history' = history \o << e, f >>
              \/ ClosesWorkflow(d) /\ ~Starts(d) /\ RecordsOne(d, close_types) /\ UNCHANGED buffered
<1>1. /\ phase = "record" /\ phase' = "record"
      /\ decisions # << >> /\ decisions' = Tail(decisions)
  BY DEF RecordDecision, engineVars
<1>2. ~Closed
  BY <1>1 DEF HistoryInv, PhaseInv
<1>3. Sendable(history, d)
  BY <1>1, HeadAndTail DEF HistoryInv, AnswerInv, DecisionsInv
<1>4. \A type : RecordedEvent(type, d).type = type /\ RecordedEvent(type, d).id = d.id
  BY DEF RecordedEvent
<1>5. d.what \in Outcomes =>
          d.what \notin {"ScheduleActivityTask", "StartTimer", "RecordMarker", "CancelTimer",
                         "RequestCancelActivityTask"}
  BY OutcomesAssumption
<1>6. /\ Starts(d) <=> d.what \in {"ScheduleActivityTask", "StartTimer"}
      /\ ClosesWorkflow(d) <=> d.what \in Outcomes
  BY DEF Starts, StartingTypes, ClosesWorkflow
<1> DEFINE firing == {i \in DOMAIN buffered : buffered[i].type = "TimerFired" /\ buffered[i].id = d.id}
           RecordsIt(type) == history' = Append(history, RecordedEvent(type, d))
<1>7. \A type : RecordsIt(type) => RecordsOne(d, {type})
  BY <1>4 DEF RecordsOne
<1>8. CASE d.what = "ScheduleActivityTask" /\ RecordsIt("ActivityTaskScheduled") /\ UNCHANGED buffered
  BY <1>1, <1>2, <1>3, <1>5, <1>6, <1>7, <1>8
<1>9. CASE d.what = "StartTimer" /\ RecordsIt("TimerStarted") /\ UNCHANGED buffered
  BY <1>1, <1>2, <1>3, <1>5, <1>6, <1>7, <1>9
<1>10. CASE d.what = "RecordMarker"
  BY <1>3, <1>5, <1>10 DEF Sendable, ClosesWorkflow
<1>11. CASE /\ d.what = "CancelTimer"
            /\ IF TimerOpen(d.id) \/ firing # {} THEN RecordsIt("TimerCanceled")
               ELSE RecordsIt("CancelTimerFailed")
            /\ buffered' = IF firing = {} THEN buffered
                           ELSE SE!RemoveAt(buffered, CHOOSE i \in firing : TRUE)
  <2>1. StartedBefore(history, "TimerStarted", d.id) /\ NotEnded(history, d.id)
    BY <1>3, <1>5, <1>11 DEF Sendable, ClosesWorkflow
  <2>2. TimerOpen(d.id) \/ firing # {}
    <3>1. \/ TimerOpen(d.id)
          \/ \E k \in DOMAIN buffered : buffered[k].type = "TimerFired" /\ buffered[k].id = d.id
      BY <2>1, CancelledInTime DEF HistoryInv
    <3> QED BY <3>1
  <2>3. RecordsOne(d, {"TimerCanceled"})
    BY <1>7, <1>11, <2>2
  <2>4. UNCHANGED buffered \/ \E i \in DOMAIN buffered :
            IsFiringOf(d.id, buffered[i]) /\ buffered' = SE!RemoveAt(buffered, i)
    <3>1. CASE firing = {}
      BY <1>11, <3>1
    <3>2. CASE firing # {}
      <4>1. PICK i : i = CHOOSE j \in firing : TRUE
        OBVIOUS
      <4>2. i \in firing
        BY <3>2, <4>1
      <4>3. buffered' = SE!RemoveAt(buffered, i)
        BY <1>11, <3>2, <4>1
      <4> QED BY <4>2, <4>3 DEF IsFiringOf
    <3> QED BY <3>1, <3>2
  <2> QED BY <1>1, <1>2, <1>3, <1>5, <1>6, <1>11, <2>3, <2>4
<1>12. CASE /\ d.what = "RequestCancelActivityTask"
            /\ RecordsIt("ActivityTaskCancelRequested") /\ UNCHANGED buffered
  BY <1>1, <1>2, <1>3, <1>5, <1>6, <1>7, <1>12
<1>13. CASE /\ d.what = "RequestCancelActivityTask"
            /\ history' = history \o << RecordedEvent("ActivityTaskCancelRequested", d),
                                        RecordedEvent("RequestCancelActivityTaskFailed", d) >>
            /\ UNCHANGED buffered
  BY <1>1, <1>2, <1>3, <1>4, <1>5, <1>6, <1>13
<1>14. CASE ClosesWorkflow(d) /\ RecordsIt(CloseEvent[d.what]) /\ UNCHANGED buffered
  <2>1. CloseEvent[d.what] \in close_types
    <3>1. d.what \in {"Complete", "Fail", "ContinueAsNew"}
      BY <1>3, <1>14, OutcomesAssumption DEF Sendable, ClosesWorkflow
    <3> QED BY <3>1 DEF CloseEvent, close_types
  <2>2. RecordsOne(d, close_types)
    BY <1>4, <1>14, <2>1 DEF RecordsOne
  <2> QED BY <1>1, <1>2, <1>3, <1>5, <1>6, <1>14, <2>2
<1> HIDE DEF RecordsIt
<1> QED BY <1>8, <1>9, <1>10, <1>11, <1>12, <1>13, <1>14 DEF RecordDecision, RecordsIt

\* The service starts what has the next number, and nothing else.
LEMMA ServiceKeepsNumbered ==
    ASSUME ~ImmediateCancel, IInv, HistoryInv, DecisionsInv, NumberedInv, ServiceNext
    PROVE  NumberedInv'
<1>1. IsSeq(history) /\ IsSeq(buffered) /\ IsSeq(decisions) /\ NumberedIn(history, decisions)
  BY DEF IInv, ServiceInv, DecisionsInv, NumberedInv
<1>2. \A k \in DOMAIN buffered : buffered[k].type \notin StartTypes
  BY DEF HistoryInv, WrittenInv, Writable, StartTypes, RefTypes, activity_close_types
<1>3. ASSUME NEW new, IsSeq(new), \A k \in DOMAIN new : new[k].type \notin StartTypes,
             history' = history \o new, decisions' = decisions \/ decisions' = << >>
      PROVE  NumberedInv'
  <2>1. NumberedIn(history', decisions) /\ NumberedIn(history', << >>)
    BY <1>1, <1>3, NumberedStays
  <2> QED BY <1>3, <2>1 DEF NumberedInv
<1>4. ASSUME UNCHANGED << history, decisions >> PROVE NumberedInv'
  BY <1>4 DEF NumberedInv
<1>5. ASSUME NEW events, Arrive(events), IsSeq(events), \A k \in DOMAIN events : events[k].type \notin StartTypes
      PROVE  NumberedInv'
  BY <1>3, <1>4, <1>5 DEF Arrive
<1>6. ASSUME NEW s \in DOMAIN history, NEW type \in CloseEvents, ActivityCloses(s, type) PROVE NumberedInv'
  <2>1. PICK a : a = RefEvent("ActivityTaskStarted", s)
    OBVIOUS
  <2>2. PICK b : b = RefEvent(type, s)
    OBVIOUS
  <2>3. a.type \notin StartTypes /\ b.type \notin StartTypes
    BY <2>1, <2>2, CloseEventsAssumption DEF RefEvent, StartTypes
  <2>4. Arrive(<< b >>) \/ Arrive(<< a, b >>)
    BY <1>6, <2>1, <2>2 DEF ActivityCloses
  <2>5. IsSeq(<< b >>) /\ IsSeq(<< a, b >>)
    BY TuplesAreSeqs
  <2>6. \A k \in DOMAIN << b >> : << b >>[k] = b
    OBVIOUS
  <2>7. \A k \in DOMAIN << a, b >> : << a, b >>[k] = a \/ << a, b >>[k] = b
    OBVIOUS
  <2> QED BY <1>5, <2>3, <2>4, <2>5, <2>6, <2>7
<1>7. ASSUME NEW e, Arrive(<< e >>), e.type \notin StartTypes PROVE NumberedInv'
  <2>1. \A k \in DOMAIN << e >> : << e >>[k] = e
    OBVIOUS
  <2> QED BY <1>5, <1>7, <2>1, TuplesAreSeqs
<1>8. ASSUME NEW id, TimerFires(id) PROVE NumberedInv'
  <2>1. IdEvent("TimerFired", id).type \notin StartTypes
    BY DEF IdEvent, StartTypes
  <2> QED BY <1>7, <1>8, <2>1 DEF TimerFires
<1>9. CASE SignalArrives
  <2>1. Event("WorkflowExecutionSignaled").type \notin StartTypes
    BY DEF Event, StartTypes
  <2> QED BY <1>7, <1>9, <2>1 DEF SignalArrives
<1>10. ASSUME NEW type \in TaskTypes
       PROVE  /\ IsSeq(<< Event(type) >>) /\ Event(type).type \notin StartTypes
              /\ \A k \in DOMAIN << Event(type) >> : << Event(type) >>[k].type \notin StartTypes
  <2>1. Event(type).type \notin StartTypes
    BY DEF Event, StartTypes, TaskTypes, unsuccessful
  <2> QED BY <2>1, TuplesAreSeqs
<1>11. CASE PollDecisionTask
  <2>1. history' = history \o << Event("DecisionTaskStarted") >> /\ UNCHANGED decisions
    BY <1>1, <1>11, AppendIsBehind DEF PollDecisionTask
  <2> QED BY <1>3, <1>10, <2>1 DEF TaskTypes
<1>12. ASSUME NEW type \in unsuccessful, Unsuccessfully(type) PROVE NumberedInv'
  <2>1. PICK h : h = history \o << Event(type) >>
    OBVIOUS
  <2>2. history' = h \o buffered /\ decisions' = << >>
    BY <1>12, <2>1 DEF Unsuccessfully
  <2>3. NumberedIn(h, << >>) /\ IsSeq(h)
    BY <1>1, <1>10, <2>1, NumberedStays, ConcatIsSeq DEF TaskTypes
  <2> QED BY <1>1, <1>2, <2>2, <2>3, NumberedStays DEF NumberedInv
<1>13. CASE DecisionTaskTimesOut \/ RespondDecisionTaskFailed
  BY <1>12, <1>13 DEF DecisionTaskTimesOut, RespondDecisionTaskFailed, unsuccessful
<1>14. CASE RespondDecisionTaskCompleted
  <2>1. CASE history' = Append(history, Event("DecisionTaskCompleted")) /\ UNCHANGED decisions
    <3>1. history' = history \o << Event("DecisionTaskCompleted") >>
      BY <1>1, <2>1, AppendIsBehind
    <3> QED BY <1>3, <1>10, <2>1, <3>1 DEF TaskTypes
  <2> QED BY <1>12, <1>14, <2>1 DEF RespondDecisionTaskCompleted, unsuccessful
<1>15. CASE RecordDecision
  <2>1. PICK d : d = Head(decisions)
    OBVIOUS
  <2>2. decisions # << >> /\ decisions' = Tail(decisions)
    BY <1>15, <2>1, DecisionRecorded
  <2>3. CASE Starts(d)
    <3>1. RecordsOne(d, {IF d.what = "StartTimer" THEN "TimerStarted" ELSE "ActivityTaskScheduled"})
      BY <1>15, <2>1, <2>3, DecisionRecorded
    <3>2. PICK e : /\ e.type = IF d.what = "StartTimer" THEN "TimerStarted" ELSE "ActivityTaskScheduled"
                   /\ e.id = d.id /\ history' = Append(history, e)
      BY <3>1 DEF RecordsOne
    <3> QED BY <1>1, <2>1, <2>2, <2>3, <3>2, NumberedTail DEF NumberedInv
  <2>4. CASE ~Starts(d)
    <3>1. NumberedIn(history, Tail(decisions))
      BY <1>1, <2>1, <2>2, <2>4, NumberedTail
    <3>2. PICK new : IsSeq(new) /\ (\A k \in DOMAIN new : new[k].type \notin StartTypes) /\ history' = history \o new
      <4>1. ASSUME NEW types, types \cap StartTypes = {}, RecordsOne(d, types)
            PROVE  \E new : IsSeq(new) /\ (\A k \in DOMAIN new : new[k].type \notin StartTypes)
                            /\ history' = history \o new
        <5>1. PICK e : e.type \in types /\ history' = Append(history, e)
          BY <4>1 DEF RecordsOne
        <5>2. history' = history \o << e >> /\ IsSeq(<< e >>)
          BY <1>1, <5>1, AppendIsBehind, TuplesAreSeqs
        <5>3. \A k \in DOMAIN << e >> : << e >>[k] = e
          OBVIOUS
        <5> QED BY <4>1, <5>1, <5>2, <5>3
      <4>2. ASSUME NEW e, NEW f, e.type = "ActivityTaskCancelRequested", f.type = "RequestCancelActivityTaskFailed",
                   history' = history \o << e, f >>
            PROVE  \E new : IsSeq(new) /\ (\A k \in DOMAIN new : new[k].type \notin StartTypes)
                            /\ history' = history \o new
        <5>1. IsSeq(<< e, f >>)
          BY TuplesAreSeqs
        <5>2. \A k \in DOMAIN << e, f >> : << e, f >>[k] = e \/ << e, f >>[k] = f
          OBVIOUS
        <5>3. e.type \notin StartTypes /\ f.type \notin StartTypes
          BY <4>2 DEF StartTypes
        <5> QED BY <4>2, <5>1, <5>2, <5>3
      <4>3. \/ RecordsOne(d, {"TimerCanceled"})
            \/ RecordsOne(d, {"ActivityTaskCancelRequested"})
            \/ RecordsOne(d, close_types)
            \/ \E e, f : /\ e.type = "ActivityTaskCancelRequested"
                         /\ f.type = "RequestCancelActivityTaskFailed"
                         /\ history' = history \o << e, f >>
        <5> HIDE DEF RecordsOne
        <5> QED BY <1>15, <2>1, <2>4, DecisionRecorded
      <4>4. {"TimerCanceled"} \cap StartTypes = {} /\ {"ActivityTaskCancelRequested"} \cap StartTypes = {}
            /\ close_types \cap StartTypes = {}
        BY DEF StartTypes, close_types
      <4> QED BY <4>1, <4>2, <4>3, <4>4
    <3> QED BY <1>1, <2>2, <3>1, <3>2, NumberedStays DEF NumberedInv
  <2> QED BY <2>3, <2>4
<1>16. CASE FinishDecisionTask
  BY <1>1, <1>2, <1>3, <1>16 DEF FinishDecisionTask
<1> QED BY <1>6, <1>8, <1>9, <1>11, <1>13, <1>14, <1>15, <1>16 DEF ServiceNext

\* What is recorded of an answer follows its decision task without a gap; and the
\* answer was refused if it closes the workflow over something unseen.
LEMMA ServiceKeepsClosing ==
    ASSUME ~ImmediateCancel, IInv, HistoryInv, DecisionsInv, ClosingInv, ServiceNext
    PROVE  ClosingInv'
<1>1. IsSeq(history) /\ IsSeq(buffered) /\ IsSeq(decisions)
  BY DEF IInv, ServiceInv, DecisionsInv
<1>2. CASE phase' # "record"
  BY <1>2 DEF ClosingInv
<1>3. ASSUME phase = "record", NEW new, IsSeq(new), \A k \in DOMAIN new : Records(new[k]),
             history' = history \o new, decisions # << >>, decisions' = Tail(decisions),
             (\E k \in DOMAIN decisions : ClosesWorkflow(decisions[k])) => UNCHANGED buffered
      PROVE  ClosingInv'
  <2>1. PICK s \in DOMAIN history :
            /\ history[s].type = "DecisionTaskStarted"
            /\ \A i \in (s + 1)..Len(history) : Records(history[i])
    BY <1>3 DEF ClosingInv
  <2>2. /\ s \in DOMAIN history' /\ history'[s] = history[s]
        /\ Len(history) \in Nat /\ DOMAIN history = 1..Len(history)
        /\ DOMAIN history' = 1..Len(history')
        /\ \A i \in DOMAIN history : history'[i] = history[i]
    BY SMTT(30), <1>1, <1>3, ConcatPositions, ConcatElements, LenProperties DEF IsSeq
  <2>3. ASSUME NEW i \in (s + 1)..Len(history') PROVE Records(history'[i])
    <3>1. i \in DOMAIN history'
      BY <2>2
    <3>2. CASE i \in DOMAIN history
      <4>1. i \in (s + 1)..Len(history)
        BY <2>2, <3>2
      <4> QED BY <2>1, <2>2, <3>2, <4>1
    <3>3. i \in DOMAIN history \/ \E k \in DOMAIN new : history'[i] = new[k]
      <4>1. PICK both : both = history \o new
        OBVIOUS
      <4>2. \A j \in DOMAIN both : j \in DOMAIN history \/ \E k \in DOMAIN new : both[j] = new[k]
        BY SMTT(30), <1>1, <1>3, <4>1, ConcatPositions
      <4> QED BY <1>3, <3>1, <4>1, <4>2
    <3> QED BY <1>3, <3>2, <3>3
  <2>4. (\E k \in DOMAIN decisions' : ClosesWorkflow(decisions'[k])) => buffered' = << >>
    <3>1. ASSUME NEW k \in DOMAIN decisions', ClosesWorkflow(decisions'[k]) PROVE buffered' = << >>
      <4>1. k + 1 \in DOMAIN decisions /\ decisions'[k] = decisions[k + 1]
        BY <1>1, <1>3, HeadAndTail
      <4>2. \E l \in DOMAIN decisions : ClosesWorkflow(decisions[l])
        BY <3>1, <4>1
      <4> QED BY <1>3, <4>2 DEF ClosingInv
    <3> QED BY <3>1
  <2> QED BY <2>1, <2>2, <2>3, <2>4 DEF ClosingInv
<1>4. CASE RecordDecision
  <2>1. PICK d : d = Head(decisions)
    OBVIOUS
  <2>2. phase = "record" /\ decisions # << >> /\ decisions' = Tail(decisions)
    BY <1>4, <2>1, DecisionRecorded
  <2>3. (\E k \in DOMAIN decisions : ClosesWorkflow(decisions[k])) => UNCHANGED buffered
    <3>1. CASE UNCHANGED buffered
      BY <3>1
    <3>2. CASE \E i \in DOMAIN buffered : IsFiringOf(d.id, buffered[i])
      BY <2>2, <3>2, EmptyIsSeq DEF ClosingInv
    <3> HIDE DEF RecordsOne
    <3> QED BY <1>4, <2>1, <3>1, <3>2, DecisionRecorded
  <2>4. \E new : IsSeq(new) /\ (\A k \in DOMAIN new : Records(new[k])) /\ history' = history \o new
    <3>1. ASSUME NEW types, types \subseteq decision_event_types, RecordsOne(d, types)
          PROVE  \E new : IsSeq(new) /\ (\A k \in DOMAIN new : Records(new[k])) /\ history' = history \o new
      <4>1. PICK e : e.type \in types /\ history' = Append(history, e)
        BY <3>1 DEF RecordsOne
      <4>2. history' = history \o << e >> /\ IsSeq(<< e >>)
        BY <1>1, <4>1, AppendIsBehind, TuplesAreSeqs
      <4>3. \A k \in DOMAIN << e >> : << e >>[k] = e
        OBVIOUS
      <4>4. Records(e)
        BY <3>1, <4>1 DEF Records, is_decision_event
      <4> QED BY <4>2, <4>3, <4>4
    <3>2. ASSUME NEW e, NEW f, e.type = "ActivityTaskCancelRequested", f.type = "RequestCancelActivityTaskFailed",
                 history' = history \o << e, f >>
          PROVE  \E new : IsSeq(new) /\ (\A k \in DOMAIN new : Records(new[k])) /\ history' = history \o new
      <4>1. IsSeq(<< e, f >>)
        BY TuplesAreSeqs
      <4>2. \A k \in DOMAIN << e, f >> : << e, f >>[k] = e \/ << e, f >>[k] = f
        OBVIOUS
      <4>3. Records(e) /\ Records(f)
        BY <3>2 DEF Records, is_decision_event, decision_event_types
      <4> QED BY <3>2, <4>1, <4>2, <4>3
    <3>3. \/ RecordsOne(d, {IF d.what = "StartTimer" THEN "TimerStarted" ELSE "ActivityTaskScheduled"})
          \/ RecordsOne(d, {"TimerCanceled"})
          \/ RecordsOne(d, {"ActivityTaskCancelRequested"})
          \/ RecordsOne(d, close_types)
          \/ \E e, f : /\ e.type = "ActivityTaskCancelRequested"
                       /\ f.type = "RequestCancelActivityTaskFailed"
                       /\ history' = history \o << e, f >>
      BY <1>4, <2>1, DecisionRecorded
    <3>4. /\ {IF d.what = "StartTimer" THEN "TimerStarted" ELSE "ActivityTaskScheduled"} \subseteq decision_event_types
          /\ {"TimerCanceled"} \subseteq decision_event_types
          /\ {"ActivityTaskCancelRequested"} \subseteq decision_event_types
          /\ close_types \subseteq decision_event_types
      BY DEF decision_event_types, close_types
    <3> HIDE DEF RecordsOne
    <3> QED BY <3>1, <3>2, <3>3, <3>4
  <2> QED BY <1>3, <2>2, <2>3, <2>4
<1>5. CASE RespondDecisionTaskCompleted /\ phase' = "record"
  <2>1. /\ phase = "respond" /\ history' = Append(history, Event("DecisionTaskCompleted"))
        /\ ~((\E k \in DOMAIN decisions : ClosesWorkflow(decisions[k])) /\ buffered # << >>)
        /\ UNCHANGED << buffered, decisions >>
    BY <1>5 DEF RespondDecisionTaskCompleted, Unsuccessfully, DropEngine
  <2>2. Len(history) # 0 /\ history[Len(history)].type = "DecisionTaskStarted"
    BY <2>1 DEF HistoryInv, PhaseInv
  <2>3. PICK n : n = Len(history)
    OBVIOUS
  <2>4. /\ n \in Nat /\ DOMAIN history = 1..n /\ DOMAIN history' = 1..(n + 1) /\ Len(history') = n + 1
        /\ history'[n + 1] = Event("DecisionTaskCompleted") /\ \A i \in 1..n : history'[i] = history[i]
    BY <1>1, <2>1, <2>3, AppendPositions
  <2>5. n \in DOMAIN history' /\ history'[n].type = "DecisionTaskStarted"
    BY <2>2, <2>3, <2>4
  <2>6. Records(history'[n + 1])
    BY <2>4 DEF Records, Event
  <2>7. \A i \in (n + 1)..Len(history') : Records(history'[i])
    BY <2>4, <2>6
  <2> QED BY <2>1, <2>5, <2>7 DEF ClosingInv
<1>6. ~RecordDecision /\ phase' = "record" => RespondDecisionTaskCompleted
  <2>1. ASSUME NEW events, Arrive(events) PROVE phase' # "record"
    BY <2>1 DEF Arrive, engineVars
  <2> QED BY <2>1 DEF ServiceNext, ActivityCloses, TimerFires, SignalArrives, PollDecisionTask,
                      DecisionTaskTimesOut, RespondDecisionTaskFailed, Unsuccessfully, DropEngine,
                      FinishDecisionTask
<1> QED BY <1>2, <1>4, <1>5, <1>6

\* The first state.
LEMMA FirstCommands == Init => CommandsInv
<1> SUFFICES ASSUME Init PROVE CommandsInv
  OBVIOUS
<1>1. /\ history = << Event("WorkflowExecutionStarted") >> /\ decisions = << >> /\ phase = "idle"
      /\ id_counter = 0 /\ order = << >> /\ task = "none" /\ state_machines = << >>
  BY DEF Init, ManagerInit
<1>2. PICK e : e = Event("WorkflowExecutionStarted")
  OBVIOUS
<1>3. e.type = "WorkflowExecutionStarted" /\ IsSeq(<< e >>) /\ DOMAIN << e >> = {1} /\ << e >>[1] = e
  BY <1>2, TuplesAreSeqs DEF Event
<1>4. IsSeq(<< >>) /\ DOMAIN << >> = {}
  BY EmptyIsSeq
<1>5. NumberedIn(<< >>, << >>)
  <2>1. \A k \in DOMAIN Started(<< >>) : \E i \in DOMAIN << >> : TRUE
    BY <1>4, IdsAtElements DEF Started
  <2> QED BY <1>4, <2>1 DEF NumberedIn
<1>6. \A k \in DOMAIN << e >> : << e >>[k].type \notin StartTypes
  BY <1>3 DEF StartTypes
<1>7. NumberedIn(<< >> \o << e >>, << >>)
  BY <1>3, <1>4, <1>5, <1>6, NumberedStays
<1>8. << >> \o << e >> = << e >>
  <2>1. IsSeq(<< >> \o << e >>) /\ DOMAIN (<< >> \o << e >>) = 1..(Len(<< >>) + Len(<< e >>))
        /\ \A k \in DOMAIN << e >> : (<< >> \o << e >>)[Len(<< >>) + k] = << e >>[k]
    BY <1>3, <1>4, ConcatPositions
  <2>2. Len(<< >>) = 0 /\ Len(<< e >>) = 1
    OBVIOUS
  <2>3. DOMAIN (<< >> \o << e >>) = {1} /\ (<< >> \o << e >>)[1] = e
    BY <1>3, <2>1, <2>2
  <2> QED BY <1>3, <2>1, <2>3, SameElements
<1>9. NumberedInv
  BY <1>1, <1>2, <1>7, <1>8 DEF NumberedInv
<1>10. NumbersInv
  BY <1>1, <1>4, BoundsAssumption DEF NumbersInv, EnginePhases
<1>11. ClosingInv
  BY <1>1 DEF ClosingInv
<1> QED BY <1>9, <1>10, <1>11 DEF CommandsInv

\* What an answer starts has the next numbers, and history has them in turn.
LEMMA CommandsAreKept ==
    ASSUME ~ImmediateCancel
    PROVE  Spec => [](LetThrough => CommandsInv)
<1>1. IInv /\ ReplayInv /\ CommandsInv /\ LetThrough' /\ [Next]_vars => CommandsInv'
  <2> SUFFICES ASSUME IInv, LastInv, HistoryInv, EngineStateInv, CommandsInv, LetThrough', [Next]_vars
               PROVE  CommandsInv'
    BY DEF ReplayInv
  <2>1. NumbersInv /\ NumberedInv /\ ClosingInv
    BY DEF CommandsInv
  <2>2. CASE ServiceNext
    BY <2>1, <2>2, ServiceKeepsNumbers, ServiceKeepsNumbered, ServiceKeepsClosing DEF CommandsInv, LastInv
  <2>3. CASE EngineNext \/ WorkflowNext
    <3>1. NumbersInv'
      BY <2>1, <2>3, EngineKeepsNumbers, WorkflowKeepsNumbers
    <3>2. UNCHANGED history /\ phase' # "record" /\ (~CollectDecisions => UNCHANGED decisions)
      BY <2>3, WorkerWritesNothing
    <3>3. CASE CollectDecisions
      BY <2>1, <3>1, <3>2, <3>3, CollectKeepsNumbered DEF CommandsInv, ClosingInv
    <3>4. CASE ~CollectDecisions
      BY <2>1, <3>1, <3>2, <3>4 DEF CommandsInv, ClosingInv, NumberedInv
    <3> QED BY <3>3, <3>4
  <2>4. CASE UNCHANGED vars
    <3>1. UNCHANGED << id_counter, order, state_machines, phase, task, history, buffered, decisions >>
      BY <2>4 DEF vars, managerVars, serviceVars, engineVars
    <3>2. NumbersInv'
      <4>1. \A a \in DOMAIN order : Unsent(order[a])' => Unsent(order[a])
        BY <3>1 DEF Unsent, StateOf
      <4> QED BY <2>1, <3>1, <4>1, NumbersStay
    <3> QED BY <2>1, <3>1, <3>2 DEF CommandsInv, NumberedInv, ClosingInv
  <2> QED BY <2>2, <2>3, <2>4 DEF Next
<1> QED BY <1>1, FirstCommands, OutlivedStays, Invariance, ReplayIsSound, PTL DEF Spec

-----------------------------------------------------------------------------
(* The life of the commands, in a history                                  *)

\* A reference of a history, or of what is written behind it, is in it.
RefersInto(h, events) ==
    \A i \in DOMAIN events : events[i].type \in activity_close_types => events[i].ref \in DOMAIN h

\* What a history says is over, and what is written behind it.
LEMMA EndedTogether ==
    ASSUME NEW g, NEW h, NEW b, IsSeq(h), IsSeq(b)
    PROVE  EndedIn(g, h \o b) = EndedIn(g, h) \cup EndedIn(g, b)
<1>1. PICK k : k = h \o b
  OBVIOUS
<1>2. PICK n : n = Len(h)
  OBVIOUS
<1>3. /\ \A i \in DOMAIN h : k[i] = h[i] /\ i \in DOMAIN k
      /\ \A i \in DOMAIN b : k[n + i] = b[i] /\ n + i \in DOMAIN k
      /\ \A i \in DOMAIN k : i \in DOMAIN h \/ \E l \in DOMAIN b : i = n + l
  <2>1. PICK m : m = Len(b)
    OBVIOUS
  <2>2. /\ n \in Nat /\ m \in Nat /\ DOMAIN h = 1..n /\ DOMAIN b = 1..m /\ DOMAIN k = 1..(n + m)
        /\ \A i \in DOMAIN h : k[i] = h[i]
        /\ \A i \in DOMAIN b : k[n + i] = b[i]
        /\ \A i \in DOMAIN k : i \in DOMAIN h \/ \E l \in DOMAIN b : i = n + l
    <3>1. /\ IsSeq(h \o b)
          /\ Len(h) \in Nat /\ DOMAIN h = 1..Len(h)
          /\ Len(b) \in Nat /\ DOMAIN b = 1..Len(b)
          /\ Len(h \o b) = Len(h) + Len(b)
          /\ DOMAIN (h \o b) = 1..(Len(h) + Len(b))
          /\ \A i \in DOMAIN h : (h \o b)[i] = h[i]
          /\ \A i \in DOMAIN b : (h \o b)[Len(h) + i] = b[i]
          /\ \A i \in DOMAIN (h \o b) :
                 i \in DOMAIN h \/ \E l \in DOMAIN b : i = Len(h) + l
      BY ConcatPositions
    <3> QED BY <1>1, <1>2, <2>1, <3>1
  <2>3. \A i \in 1..n : i \in 1..(n + m)
    BY <2>2
  <2>4. \A i \in 1..m : n + i \in 1..(n + m)
    BY <2>2
  <2> QED BY <2>2, <2>3, <2>4
<1>4. \A events, x : x \in EndedIn(g, events) <=>
          \E i \in DOMAIN events : IsEnd(events[i]) /\ x = EndedBy(g, events[i])
  BY DEF EndedIn
<1>5. ASSUME NEW x \in EndedIn(g, k) PROVE x \in EndedIn(g, h) \/ x \in EndedIn(g, b)
  <2>1. PICK i \in DOMAIN k : IsEnd(k[i]) /\ x = EndedBy(g, k[i])
    BY <1>4, <1>5
  <2>2. CASE i \in DOMAIN h
    BY <1>3, <1>4, <2>1, <2>2
  <2>3. ASSUME NEW l \in DOMAIN b, i = n + l PROVE x \in EndedIn(g, b)
    BY <1>3, <1>4, <2>1, <2>3
  <2> QED BY <1>3, <2>2, <2>3
<1>6. ASSUME NEW x \in EndedIn(g, h) PROVE x \in EndedIn(g, k)
  BY <1>3, <1>4, <1>6
<1>7. ASSUME NEW x \in EndedIn(g, b) PROVE x \in EndedIn(g, k)
  <2>1. PICK i \in DOMAIN b : IsEnd(b[i]) /\ x = EndedBy(g, b[i])
    BY <1>4, <1>7
  <2>2. n + i \in DOMAIN k /\ k[n + i] = b[i]
    BY <1>3
  <2> QED BY <1>4, <2>1, <2>2
<1> QED BY <1>1, <1>5, <1>6, <1>7

\* An older history is enough to tell what is over.
LEMMA EndedAgrees ==
    ASSUME NEW g, NEW h, NEW events, RefersInto(h, events),
           \A i \in DOMAIN h : g[i] = h[i]
    PROVE  EndedIn(g, events) = EndedIn(h, events)
<1>1. \A i \in DOMAIN events : EndedBy(g, events[i]) = EndedBy(h, events[i])
  BY DEF RefersInto, EndedBy
<1> QED BY <1>1 DEF EndedIn

\* Where no event is an end, nothing is over.
LEMMA NothingEnds ==
    ASSUME NEW g, NEW events, \A i \in DOMAIN events : ~IsEnd(events[i])
    PROVE  EndedIn(g, events) = {}
<1> QED BY DEF EndedIn

\* The references that the service writes are into the history.
LEMMA ReferencesAreOld ==
    ASSUME NEW h, IsSeq(h), NEW b, Written(h), Writable(h, b)
    PROVE  RefersInto(h, h) /\ RefersInto(h, b)
<1>1. ASSUME NEW i \in DOMAIN h, h[i].type \in activity_close_types PROVE h[i].ref \in DOMAIN h
  <2>1. h[i].type \in RefTypes => h[i].ref \in 1..(i - 1)
    BY DEF Written, Follows
  <2>2. Len(h) \in Nat /\ DOMAIN h = 1..Len(h)
    BY LenProperties DEF IsSeq
  <2> QED BY <1>1, <2>1, <2>2 DEF RefTypes
<1>2. ASSUME NEW k \in DOMAIN b, b[k].type \in activity_close_types PROVE b[k].ref \in DOMAIN h
  BY <1>2 DEF Writable, RefTypes
<1> QED BY <1>1, <1>2 DEF RefersInto

\* No decision task, no news.
LEMMA SeenStays ==
    ASSUME NEW h, NEW new, IsSeq(h), IsSeq(new), RefersInto(h, h),
           \A k \in DOMAIN new : new[k].type # "DecisionTaskStarted"
    PROVE  SeenIn(h \o new) = SeenIn(h)
<1>1. PICK g : g = h \o new
  OBVIOUS
<1>2. PICK n : n = Len(h)
  OBVIOUS
<1>3. PICK m : m = Len(g)
  OBVIOUS
<1>4. /\ n \in Nat /\ m \in Nat /\ n <= m /\ DOMAIN h = 1..n /\ DOMAIN g = 1..m
      /\ \A i \in DOMAIN h : g[i] = h[i]
      /\ \A i \in DOMAIN g : i \in DOMAIN h \/ \E k \in DOMAIN new : g[i] = new[k]
  BY <1>1, <1>2, <1>3, ConcatPositions
<1>5. \A s \in DOMAIN g : g[s].type = "DecisionTaskStarted" => s \in DOMAIN h
  BY <1>4
<1>6. ASSUME NEW j \in DOMAIN h PROVE
          (\E s \in j..m : g[s].type = "DecisionTaskStarted") <=> (\E s \in j..n : h[s].type = "DecisionTaskStarted")
  <2>1. ASSUME NEW s \in j..m, g[s].type = "DecisionTaskStarted" PROVE s \in j..n /\ h[s].type = "DecisionTaskStarted"
    BY <1>4, <1>5, <2>1
  <2>2. ASSUME NEW s \in j..n, h[s].type = "DecisionTaskStarted" PROVE s \in j..m /\ g[s].type = "DecisionTaskStarted"
    BY <1>4, <2>2
  <2> QED BY <2>1, <2>2
<1>7. ASSUME NEW j \in DOMAIN g, NEW s \in j..m, g[s].type = "DecisionTaskStarted" PROVE j \in DOMAIN h
  BY <1>4, <1>5, <1>7
<1>8. \A j \in DOMAIN h : EndedBy(g, g[j]) = EndedBy(h, h[j]) /\ g[j] = h[j]
  BY <1>4 DEF RefersInto, EndedBy
<1> DEFINE SeenAt(k, l, j) == IsEnd(k[j]) /\ \E s \in j..l : k[s].type = "DecisionTaskStarted"
<1>9. /\ \A x : x \in SeenIn(g) <=> \E j \in DOMAIN g : SeenAt(g, m, j) /\ x = EndedBy(g, g[j])
      /\ \A x : x \in SeenIn(h) <=> \E j \in DOMAIN h : SeenAt(h, n, j) /\ x = EndedBy(h, h[j])
  BY <1>2, <1>3 DEF SeenIn
<1>10. /\ \A j \in DOMAIN h : SeenAt(g, m, j) <=> SeenAt(h, n, j)
       /\ \A j \in DOMAIN g : SeenAt(g, m, j) => j \in DOMAIN h
       /\ DOMAIN h \subseteq DOMAIN g
  BY <1>4, <1>6, <1>7, <1>8
<1> HIDE DEF SeenAt
<1>11. \A x : x \in SeenIn(g) <=> x \in SeenIn(h)
  BY <1>8, <1>9, <1>10
<1> QED BY <1>1, <1>11

\* A decision task is started with everything that is over.
LEMMA SeenWithTheTask ==
    ASSUME NEW h, IsSeq(h), RefersInto(h, h), NEW e, e.type = "DecisionTaskStarted"
    PROVE  SeenIn(Append(h, e)) = EndedIn(h, h)
<1>1. PICK g : g = Append(h, e)
  OBVIOUS
<1>2. PICK n : n = Len(h)
  OBVIOUS
<1>3. /\ n \in Nat /\ DOMAIN h = 1..n /\ DOMAIN g = 1..(n + 1) /\ Len(g) = n + 1
      /\ g[n + 1] = e /\ \A i \in 1..n : g[i] = h[i]
  BY <1>1, <1>2, AppendPositions
<1>4. ~IsEnd(e)
  BY DEF IsEnd, activity_close_types
<1>5. \A j \in DOMAIN h : EndedBy(g, g[j]) = EndedBy(h, h[j]) /\ g[j] = h[j]
  BY <1>3 DEF RefersInto, EndedBy
<1>6. \A j \in DOMAIN h : j \in DOMAIN g /\ \E s \in j..Len(g) : g[s].type = "DecisionTaskStarted"
  BY <1>3
<1>7. \A j \in DOMAIN g : IsEnd(g[j]) => j \in DOMAIN h
  BY <1>3, <1>4
<1>8. /\ \A x : x \in SeenIn(g) <=> \E j \in DOMAIN g :
             /\ IsEnd(g[j]) /\ \E s \in j..Len(g) : g[s].type = "DecisionTaskStarted"
             /\ x = EndedBy(g, g[j])
      /\ \A x : x \in EndedIn(h, h) <=> \E j \in DOMAIN h : IsEnd(h[j]) /\ x = EndedBy(h, h[j])
  BY DEF SeenIn, EndedIn
<1>9. \A x : x \in SeenIn(g) <=> x \in EndedIn(h, h)
  BY <1>5, <1>6, <1>7, <1>8
<1> QED BY <1>1, <1>9

\* Closing events are counted.
LEMMA ClosingsStay ==
    ASSUME NEW h, NEW new, IsSeq(h), IsSeq(new), \A k \in DOMAIN new : new[k].type \notin close_types
    PROVE  ClosingsIn(h \o new) = ClosingsIn(h)
<1>1. PICK g : g = h \o new
  OBVIOUS
<1>2. /\ \A i \in DOMAIN h : g[i] = h[i] /\ i \in DOMAIN g
      /\ \A i \in DOMAIN g : i \in DOMAIN h \/ \E k \in DOMAIN new : g[i] = new[k]
  BY <1>1, ConcatPositions
<1>3. {i \in DOMAIN g : g[i].type \in close_types} = {i \in DOMAIN h : h[i].type \in close_types}
  BY <1>2
<1> QED BY <1>1, <1>3 DEF ClosingsIn

\* The first one makes the count one.
LEMMA ClosingsGrow ==
    ASSUME NEW h, IsSeq(h), \A i \in DOMAIN h : h[i].type \notin close_types
    PROVE  /\ ClosingsIn(h) = 0
           /\ \A e : e.type \in close_types => ClosingsIn(Append(h, e)) = 1
<1>1. {i \in DOMAIN h : h[i].type \in close_types} = {}
  OBVIOUS
<1>2. ClosingsIn(h) = 0
  BY <1>1, FS_EmptySet DEF ClosingsIn
<1>3. ASSUME NEW e, e.type \in close_types PROVE ClosingsIn(Append(h, e)) = 1
  <2>1. PICK g : g = Append(h, e)
    OBVIOUS
  <2>2. PICK n : n = Len(h)
    OBVIOUS
  <2>3. /\ n \in Nat /\ DOMAIN h = 1..n /\ DOMAIN g = 1..(n + 1)
        /\ g[n + 1] = e /\ \A i \in 1..n : g[i] = h[i]
    BY <2>1, <2>2, AppendPositions
  <2>4. \A i \in 1..(n + 1) : i = n + 1 \/ i \in 1..n
    BY <2>3
  <2>5. {i \in DOMAIN g : g[i].type \in close_types} = {n + 1}
    BY <1>3, <2>3, <2>4
  <2>6. Cardinality({n + 1}) = 1
    BY FS_Singleton
  <2> QED BY <2>1, <2>5, <2>6 DEF ClosingsIn
<1> QED BY <1>2, <1>3

\* The events that change the life of the commands, but for the ends.
AskTypes == {"ActivityTaskCancelRequested", "TimerCanceled", "CancelTimerFailed"}

\* With these and the tasks that were started.
LifeTypes == StartTypes \cup AskTypes \cup close_types \cup {"DecisionTaskStarted"}

\* Events that change nothing of it.
Quiet(events) == \A k \in DOMAIN events : events[k].type \notin LifeTypes

\* What the commands have come to, with a history and what waits behind it.
LifeOf(h, b) ==
    << Started(h), IdsAt(h, AskTypes), EndedIn(h, h \o b), SeenIn(h), ClosingsIn(h) >>

\* It is what the refinement maps the state to, before a step and behind it.
LEMMA LifeIsMapped == Commands!vars = LifeOf(history, buffered)
<1> QED BY DEF Commands!vars, LifeOf, Started, StartTypes, AskTypes, Known

\* A step that leaves it alone is a stutter.
LEMMA MappedWhenItIs ==
    ASSUME LifeOf(history', buffered') = LifeOf(history, buffered)
    PROVE  UNCHANGED Commands!vars
<1>1. Commands!vars = LifeOf(history, buffered)
  BY LifeIsMapped
<1>2. Commands!vars' = LifeOf(history', buffered')
  BY DEF Commands!vars, LifeOf, Started, StartTypes, AskTypes, Known
<1> QED BY <1>1, <1>2

\* Other events neither start, cancel, close, nor show anything.
LEMMA QuietBehind ==
    ASSUME NEW h, NEW new, IsSeq(h), IsSeq(new), RefersInto(h, h), Quiet(new)
    PROVE  /\ Started(h \o new) = Started(h)
           /\ IdsAt(h \o new, AskTypes) = IdsAt(h, AskTypes)
           /\ SeenIn(h \o new) = SeenIn(h)
           /\ ClosingsIn(h \o new) = ClosingsIn(h)
<1>1. \A k \in DOMAIN new : /\ new[k].type \notin StartTypes /\ new[k].type \notin AskTypes
                            /\ new[k].type \notin close_types /\ new[k].type # "DecisionTaskStarted"
  BY DEF Quiet, LifeTypes
<1>2. Started(h \o new) = Started(h)
  BY <1>1, IdsOfOthers DEF Started
<1>3. IdsAt(h \o new, AskTypes) = IdsAt(h, AskTypes)
  BY <1>1, IdsOfOthers
<1>4. SeenIn(h \o new) = SeenIn(h)
  BY <1>1, SeenStays
<1>5. ClosingsIn(h \o new) = ClosingsIn(h)
  BY <1>1, ClosingsStay
<1> QED BY <1>2, <1>3, <1>4, <1>5

\* What is over, when events are written in front of those that wait.
LEMMA EndedBehind ==
    ASSUME NEW h, NEW b, NEW new, IsSeq(h), IsSeq(b), IsSeq(new),
           RefersInto(h, h), RefersInto(h, b), RefersInto(h, new)
    PROVE  /\ EndedIn(h, h \o b) = EndedIn(h, h) \cup EndedIn(h, b)
           /\ EndedIn(h \o new, (h \o new) \o b) = EndedIn(h, h \o b) \cup EndedIn(h, new)
<1>1. PICK g : g = h \o new
  OBVIOUS
<1>2. IsSeq(g)
  BY <1>1, ConcatIsSeq
<1>3. EndedIn(h, h \o b) = EndedIn(h, h) \cup EndedIn(h, b)
  BY EndedTogether
<1>4. EndedIn(g, g \o b) = EndedIn(g, g) \cup EndedIn(g, b)
  BY <1>2, EndedTogether
<1>5. EndedIn(g, g) = EndedIn(g, h) \cup EndedIn(g, new)
  BY <1>1, EndedTogether
<1>6. \A i \in DOMAIN h : g[i] = h[i]
  BY <1>1, ConcatElements
<1>7. EndedIn(g, h) = EndedIn(h, h) /\ EndedIn(g, b) = EndedIn(h, b) /\ EndedIn(g, new) = EndedIn(h, new)
  BY <1>6, EndedAgrees
<1> QED BY <1>1, <1>3, <1>4, <1>5, <1>7

\* A mark of a task changes nothing.
LEMMA MarksAreQuiet ==
    ASSUME NEW h, NEW b, NEW e, IsSeq(h), IsSeq(b), RefersInto(h, h), RefersInto(h, b),
           e.type \notin LifeTypes, ~IsEnd(e)
    PROVE  LifeOf(h \o << e >>, b) = LifeOf(h, b)
<1>1. /\ IsSeq(<< e >>) /\ Quiet(<< e >>) /\ (\A k \in DOMAIN << e >> : ~IsEnd(<< e >>[k]))
  <2>1. \A k \in DOMAIN << e >> : << e >>[k] = e
    OBVIOUS
  <2> QED BY <2>1, TuplesAreSeqs DEF Quiet
<1>3. RefersInto(h, << e >>)
  BY <1>1 DEF RefersInto, IsEnd
<1>4. EndedIn(h, << e >>) = {}
  BY <1>1, NothingEnds
<1>5. EndedIn(h \o << e >>, (h \o << e >>) \o b) = EndedIn(h, h \o b) \cup EndedIn(h, << e >>)
  BY <1>1, <1>3, EndedBehind
<1> QED BY <1>1, <1>4, <1>5, QuietBehind DEF LifeOf

\* Writing what waited changes nothing.
LEMMA FlushingIsQuiet ==
    ASSUME NEW h, NEW b, IsSeq(h), IsSeq(b), Written(h), Writable(h, b)
    PROVE  LifeOf(h \o b, << >>) = LifeOf(h, b)
<1>1. RefersInto(h, h) /\ RefersInto(h, b)
  BY ReferencesAreOld
<1>2. IsSeq(<< >>) /\ RefersInto(h, << >>) /\ EndedIn(h, << >>) = {}
  BY EmptyIsSeq, NothingEnds DEF RefersInto
<1>3. Quiet(b)
  <2>1. \A k \in DOMAIN b : b[k].type \in RefTypes \cup {"TimerFired", "WorkflowExecutionSignaled"}
    BY DEF Writable
  <2> QED BY <2>1 DEF Quiet, LifeTypes, StartTypes, AskTypes, close_types, RefTypes, activity_close_types
<1>4. PICK e : e = << >>
  OBVIOUS
<1>5. EndedIn(h \o b, (h \o b) \o e) = EndedIn(h, h \o e) \cup EndedIn(h, b)
  <2>1. IsSeq(e) /\ RefersInto(h, e)
    BY <1>2, <1>4
  <2>2. /\ EndedIn(h, h \o e) = EndedIn(h, h) \cup EndedIn(h, e)
        /\ EndedIn(h \o b, (h \o b) \o e) = EndedIn(h, h \o e) \cup EndedIn(h, b)
    BY <1>1, <2>1, EndedBehind
  <2> QED BY <2>2
<1>6. EndedIn(h, h \o e) = EndedIn(h, h) \cup EndedIn(h, e)
  BY <1>1, <1>2, <1>4, EndedBehind
<1>7. EndedIn(h, h \o b) = EndedIn(h, h) \cup EndedIn(h, b)
  BY <1>1, EndedBehind
<1>8. EndedIn(h \o b, (h \o b) \o << >>) = EndedIn(h, h \o b)
  BY <1>2, <1>4, <1>5, <1>6, <1>7
<1> QED BY <1>1, <1>3, <1>8, QuietBehind DEF LifeOf

-----------------------------------------------------------------------------
(* The steps of the service                                                *)

\* What is over was started, as what it is.
LEMMA WhatIsOver ==
    ASSUME IInv, HistoryInv, NEW x \in EndedIn(history, Known)
    PROVE  \/ \E j \in DOMAIN Known :
                  /\ Known[j].type \in activity_close_types /\ Known[j].ref \in DOMAIN history
                  /\ history[Known[j].ref].type = "ActivityTaskScheduled"
                  /\ x = history[Known[j].ref].id
           \/ \E j \in DOMAIN Known :
                  /\ Known[j].type \in {"TimerFired", "TimerCanceled"} /\ x = Known[j].id
                  /\ \E i \in DOMAIN history : history[i].type = "TimerStarted" /\ history[i].id = x
<1>1. /\ IsSeq(history) /\ IsSeq(buffered) /\ Written(history) /\ Writable(history, buffered)
      /\ Len(history) \in Nat /\ DOMAIN history = 1..Len(history)
  BY LenProperties DEF IInv, ServiceInv, HistoryInv, WrittenInv, IsSeq
<1>2. PICK j \in DOMAIN Known : IsEnd(Known[j]) /\ x = EndedBy(history, Known[j])
  BY DEF EndedIn
<1>3. CASE Known[j].type \in activity_close_types
  <2>1. x = history[Known[j].ref].id
    BY <1>2, <1>3 DEF EndedBy
  <2>2. Known[j].ref \in DOMAIN history /\ history[Known[j].ref].type = "ActivityTaskScheduled"
    <3>1. CASE j \in DOMAIN history /\ Known[j] = history[j]
      <4>1. Follows(history, j - 1, history[j])
        BY <1>1, <3>1 DEF Written
      <4>2. history[j].ref \in 1..(j - 1) /\ history[history[j].ref].type = "ActivityTaskScheduled"
        BY <1>3, <3>1, <4>1 DEF Follows, RefTypes
      <4>3. \A i \in 1..(j - 1) : i \in DOMAIN history
        BY <1>1, <3>1
      <4> QED BY <3>1, <4>2, <4>3
    <3>2. CASE \E k \in DOMAIN buffered : Known[j] = buffered[k]
      BY <1>1, <1>3, <3>2 DEF Writable, RefTypes
    <3> QED BY <1>1, <3>1, <3>2, KnownParts
  <2> QED BY <1>3, <2>1, <2>2
<1>4. CASE Known[j].type \notin activity_close_types
  <2>1. Known[j].type \in {"TimerFired", "TimerCanceled"} /\ x = Known[j].id
    BY <1>2, <1>4 DEF IsEnd, EndedBy
  <2>2. \E i \in DOMAIN history : history[i].type = "TimerStarted" /\ history[i].id = x
    <3>1. CASE j \in DOMAIN history /\ Known[j] = history[j]
      <4>1. Follows(history, j - 1, history[j])
        BY <1>1, <3>1 DEF Written
      <4>2. \E i \in 1..(j - 1) : history[i].type = "TimerStarted" /\ history[i].id = history[j].id
        BY <2>1, <3>1, <4>1 DEF Follows, CancelTypes
      <4>3. \A i \in 1..(j - 1) : i \in DOMAIN history
        BY <1>1, <3>1
      <4> QED BY <2>1, <3>1, <4>2, <4>3
    <3>2. CASE \E k \in DOMAIN buffered : Known[j] = buffered[k]
      <4>1. PICK k \in DOMAIN buffered : Known[j] = buffered[k]
        BY <3>2
      <4>2. buffered[k].type = "TimerFired"
        BY <1>1, <2>1, <4>1 DEF Writable, RefTypes, activity_close_types
      <4> QED BY <1>1, <2>1, <4>1, <4>2 DEF Writable
    <3> QED BY <1>1, <3>1, <3>2, KnownParts
  <2> QED BY <2>1, <2>2
<1> QED BY <1>3, <1>4

\* An activity and a timer never have one id.
LEMMA KindsDiffer ==
    ASSUME NumberedInv, NEW i \in DOMAIN history, NEW j \in DOMAIN history,
           history[i].type = "ActivityTaskScheduled", history[j].type = "TimerStarted"
    PROVE  history[i].id # history[j].id
<1>1. history[i].id \in CommandIds("ACTIVITY") /\ history[j].id \in CommandIds("TIMER")
  BY DEF NumberedInv, NumberedIn
<1>2. history[i].id.type = "ACTIVITY" /\ history[j].id.type = "TIMER"
  BY <1>1 DEF CommandIds, DecisionId
<1> QED BY <1>2

\* What was started is the id of an activity or of a timer.
LEMMA StartedIds ==
    ASSUME IsSeq(history), NumberedInv, NEW i \in DOMAIN history, history[i].type \in StartTypes
    PROVE  /\ \E type \in {"ACTIVITY", "TIMER"}, n \in 0..(MaxIds - 1) : history[i].id = DecisionId(type, n)
           /\ history[i].id \in Commands!Elements(Started(history))
<1>1. history[i].id \in CommandIds("ACTIVITY") \/ history[i].id \in CommandIds("TIMER")
  BY DEF NumberedInv, NumberedIn, StartTypes
<1>2. \E k \in DOMAIN Started(history) : history[i].id = Started(history)[k]
  BY IdsAtElements DEF Started
<1> QED BY <1>1, <1>2 DEF CommandIds, Commands!Elements

\* What arrives says what is over, and nothing else.
LEMMA ArrivesQuietly ==
    ASSUME IInv, HistoryInv, NEW events, IsSeq(events), Arrive(events), Quiet(events),
           RefersInto(history, events)
    PROVE  /\ ClosingsIn(history) = 0
           /\ UNCHANGED << Started(history), IdsAt(history, AskTypes), SeenIn(history), ClosingsIn(history) >>
           /\ EndedIn(history, Known)' = EndedIn(history, Known) \cup EndedIn(history, events)
<1>1. IsSeq(history) /\ IsSeq(buffered) /\ RefersInto(history, history) /\ RefersInto(history, buffered)
  BY ReferencesAreOld DEF IInv, ServiceInv, HistoryInv, WrittenInv
<1>2. \A i \in DOMAIN history : history[i].type \notin close_types
  BY DEF Arrive, Closed
<1>3. ClosingsIn(history) = 0
  BY <1>1, <1>2, ClosingsGrow
<1>4. CASE history' = history \o events /\ UNCHANGED buffered
  <2>1. EndedIn(history', history' \o buffered) = EndedIn(history, history \o buffered) \cup EndedIn(history, events)
    BY <1>1, <1>4, EndedBehind
  <2> QED BY <1>1, <1>3, <1>4, <2>1, QuietBehind DEF Known, Started
<1>5. CASE buffered' = buffered \o events /\ UNCHANGED history
  <2>1. PICK c : c = buffered \o events
    OBVIOUS
  <2>2. IsSeq(c)
    BY <1>1, <2>1, ConcatIsSeq
  <2>3. EndedIn(history, history \o c) = EndedIn(history, history) \cup EndedIn(history, c)
    BY <1>1, <2>2, EndedTogether
  <2>4. EndedIn(history, c) = EndedIn(history, buffered) \cup EndedIn(history, events)
    BY <1>1, <2>1, EndedTogether
  <2>5. EndedIn(history, history \o buffered) = EndedIn(history, history) \cup EndedIn(history, buffered)
    BY <1>1, EndedTogether
  <2> QED BY <1>3, <1>5, <2>1, <2>3, <2>4, <2>5 DEF Known, Started
<1> QED BY <1>4, <1>5 DEF Arrive

\* What arrives as an end, ends what was started and was not over.
LEMMA ArrivalEnds ==
    ASSUME IInv, HistoryInv, NumberedInv, NEW events, IsSeq(events), Arrive(events), Quiet(events),
           RefersInto(history, events), NEW i \in DOMAIN history, history[i].type \in StartTypes,
           EndedIn(history, events) = {history[i].id}, history[i].id \notin EndedIn(history, Known)
    PROVE  Commands!Next
<1>1. PICK id : id = history[i].id
  OBVIOUS
<1>2. /\ id \in {DecisionId(type, n) : type \in {"ACTIVITY", "TIMER"}, n \in 0..(MaxIds - 1)}
      /\ id \in Commands!Elements(Started(history))
  BY <1>1, StartedIds DEF IInv, ServiceInv
<1>3. Commands!End(id)
  BY <1>1, <1>2, ArrivesQuietly DEF Commands!End, Started, StartTypes, AskTypes
<1>4. ClosingsIn(history) = 0
  BY ArrivesQuietly
<1> QED BY <1>2, <1>3, <1>4 DEF Commands!Next

\* An activity ends once.
LEMMA ActivityEnds ==
    ASSUME IInv, HistoryInv, NumberedInv, NEW s \in DOMAIN history, NEW type \in CloseEvents,
           ActivityCloses(s, type)
    PROVE  Commands!Next
<1>1. PICK a : a = RefEvent("ActivityTaskStarted", s)
  OBVIOUS
<1>2. PICK b : b = RefEvent(type, s)
  OBVIOUS
<1>3. /\ a.type = "ActivityTaskStarted" /\ a.ref = s /\ a.type \notin activity_close_types
      /\ b.type = type /\ b.ref = s /\ b.type \in activity_close_types
  BY <1>1, <1>2, CloseEventsAssumption DEF RefEvent, activity_close_types
<1>4. /\ a.type \notin LifeTypes /\ ~IsEnd(a) /\ b.type \notin LifeTypes /\ IsEnd(b)
      /\ EndedBy(history, b) = history[s].id
  BY <1>3 DEF LifeTypes, StartTypes, AskTypes, close_types, IsEnd, EndedBy, activity_close_types
<1>5. Arrive(<< b >>) \/ Arrive(<< a, b >>)
  BY <1>1, <1>2 DEF ActivityCloses
<1>6. /\ history[s].type = "ActivityTaskScheduled"
      /\ \A i \in DOMAIN Known : Known[i].type \in activity_close_types => Known[i].ref # s
  BY DEF ActivityCloses, ActivityOpen
<1>7. history[s].id \notin EndedIn(history, Known)
  <2>1. SUFFICES ASSUME history[s].id \in EndedIn(history, Known) PROVE FALSE
    OBVIOUS
  <2>2. PICK x : x = history[s].id
    OBVIOUS
  <2>3. x \in EndedIn(history, Known)
    BY <2>1, <2>2
  <2>4. CASE \E j \in DOMAIN Known :
                  /\ Known[j].type \in activity_close_types /\ Known[j].ref \in DOMAIN history
                  /\ history[Known[j].ref].type = "ActivityTaskScheduled"
                  /\ x = history[Known[j].ref].id
    <3>1. PICK r \in DOMAIN history : /\ r # s /\ history[r].type = "ActivityTaskScheduled"
                                      /\ x = history[r].id
      BY <1>6, <2>4
    <3>2. is_decision_event(history[s])
      BY <1>6 DEF is_decision_event, decision_event_types
    <3>3. s = r
      BY <1>6, <2>2, <3>1, <3>2, WrittenOnce DEF IInv, ServiceInv, HistoryInv, WrittenInv
    <3> QED BY <3>1, <3>3
  <2>5. CASE \E j \in DOMAIN Known :
                  /\ Known[j].type \in {"TimerFired", "TimerCanceled"} /\ x = Known[j].id
                  /\ \E i \in DOMAIN history : history[i].type = "TimerStarted" /\ history[i].id = x
    BY <1>6, <2>2, <2>5, KindsDiffer
  <2> QED BY <2>3, <2>4, <2>5, WhatIsOver
<1>8. history[s].type \in StartTypes
  BY <1>6 DEF StartTypes
<1>9. ASSUME NEW events, IsSeq(events), Arrive(events),
             \A k \in DOMAIN events : events[k] = a \/ events[k] = b,
             \E k \in DOMAIN events : events[k] = b
      PROVE  Commands!Next
  <2>1. Quiet(events)
    BY <1>4, <1>9 DEF Quiet
  <2>2. RefersInto(history, events)
    BY <1>3, <1>9 DEF RefersInto
  <2>3. \A x : x \in EndedIn(history, events) <=> \E k \in DOMAIN events : IsEnd(events[k]) /\ x = EndedBy(history, events[k])
    BY DEF EndedIn
  <2>4. EndedIn(history, events) = {history[s].id}
    BY <1>4, <1>9, <2>3
  <2> QED BY <1>7, <1>8, <1>9, <2>1, <2>2, <2>4, ArrivalEnds
<1>10. CASE Arrive(<< b >>)
  <2>1. IsSeq(<< b >>)
    BY TuplesAreSeqs
  <2>2. (\A k \in DOMAIN << b >> : << b >>[k] = b) /\ 1 \in DOMAIN << b >> /\ << b >>[1] = b
    OBVIOUS
  <2> QED BY <1>9, <1>10, <2>1, <2>2
<1>11. CASE Arrive(<< a, b >>)
  <2>1. IsSeq(<< a, b >>)
    BY TuplesAreSeqs
  <2>2. /\ \A k \in DOMAIN << a, b >> : << a, b >>[k] = a \/ << a, b >>[k] = b
        /\ 2 \in DOMAIN << a, b >> /\ << a, b >>[2] = b
    OBVIOUS
  <2> QED BY <1>9, <1>11, <2>1, <2>2
<1> QED BY <1>5, <1>10, <1>11

\* A timer fires once, and not when it is cancelled.
LEMMA TimerEnds ==
    ASSUME IInv, HistoryInv, NumberedInv, NEW id, TimerFires(id)
    PROVE  Commands!Next
<1>1. PICK e : e = IdEvent("TimerFired", id)
  OBVIOUS
<1>2. /\ e.type = "TimerFired" /\ e.id = id /\ e.type \notin activity_close_types /\ IsEnd(e)
      /\ EndedBy(history, e) = id /\ e.type \notin LifeTypes
  BY <1>1 DEF IdEvent, activity_close_types, IsEnd, EndedBy, LifeTypes, StartTypes, AskTypes, close_types
<1>3. TimerOpen(id) /\ Arrive(<< e >>)
  BY <1>1 DEF TimerFires
<1>4. IsSeq(history) /\ IsSeq(buffered) /\ Writable(history, buffered)
  BY DEF IInv, ServiceInv, HistoryInv, WrittenInv
<1>5. PICK i \in DOMAIN history : history[i].type = "TimerStarted" /\ history[i].id = id
  <2>1. PICK j \in DOMAIN Known : Known[j].type = "TimerStarted" /\ Known[j].id = id
    BY <1>3 DEF TimerOpen, Reported
  <2>2. ~\E k \in DOMAIN buffered : Known[j] = buffered[k]
    BY <1>4, <2>1 DEF Writable, RefTypes, activity_close_types
  <2> QED BY <1>4, <2>1, <2>2, KnownParts
<1>6. id \notin EndedIn(history, Known)
  <2>1. SUFFICES ASSUME id \in EndedIn(history, Known) PROVE FALSE
    OBVIOUS
  <2>2. ~\E j \in DOMAIN Known : Known[j].type \in {"TimerFired", "TimerCanceled"} /\ id = Known[j].id
    BY <1>3 DEF TimerOpen, Reported
  <2>3. PICK j \in DOMAIN Known :
            /\ Known[j].type \in activity_close_types /\ Known[j].ref \in DOMAIN history
            /\ history[Known[j].ref].type = "ActivityTaskScheduled"
            /\ id = history[Known[j].ref].id
    BY <2>1, <2>2, WhatIsOver
  <2> QED BY <1>5, <2>3, KindsDiffer
<1>7. IsSeq(<< e >>) /\ \A k \in DOMAIN << e >> : << e >>[k] = e
  BY TuplesAreSeqs
<1>8. Quiet(<< e >>) /\ RefersInto(history, << e >>)
  BY <1>2, <1>7 DEF Quiet, RefersInto
<1>9. EndedIn(history, << e >>) = {history[i].id}
  <2>1. \A x : x \in EndedIn(history, << e >>) <=>
            \E k \in DOMAIN << e >> : IsEnd(<< e >>[k]) /\ x = EndedBy(history, << e >>[k])
    BY DEF EndedIn
  <2>2. 1 \in DOMAIN << e >>
    OBVIOUS
  <2> QED BY <1>2, <1>5, <1>7, <2>1, <2>2
<1>10. history[i].type \in StartTypes
  BY <1>5 DEF StartTypes
<1> QED BY <1>3, <1>5, <1>6, <1>7, <1>8, <1>9, <1>10, ArrivalEnds

\* A signal ends nothing.
LEMMA SignalsEndNothing ==
    ASSUME IInv, HistoryInv, SignalArrives
    PROVE  UNCHANGED Commands!vars
<1>1. PICK e : e = Event("WorkflowExecutionSignaled")
  OBVIOUS
<1>2. e.type \notin activity_close_types /\ ~IsEnd(e) /\ e.type \notin LifeTypes
  BY <1>1 DEF Event, activity_close_types, IsEnd, LifeTypes, StartTypes, AskTypes, close_types
<1>3. Arrive(<< e >>)
  BY <1>1 DEF SignalArrives
<1>4. IsSeq(<< e >>) /\ \A k \in DOMAIN << e >> : << e >>[k] = e
  BY TuplesAreSeqs
<1>5. Quiet(<< e >>) /\ RefersInto(history, << e >>) /\ EndedIn(history, << e >>) = {}
  BY <1>2, <1>4, NothingEnds DEF Quiet, RefersInto
<1> QED BY <1>3, <1>4, <1>5, ArrivesQuietly, LifeIsMapped DEF Commands!vars, Started, StartTypes, AskTypes

\* A task that is handed out shows the workflow what is over.
LEMMA TasksLook ==
    ASSUME IInv, HistoryInv, PollDecisionTask
    PROVE  Commands!Next
<1>1. PICK e : e = Event("DecisionTaskStarted")
  OBVIOUS
<1>2. /\ e.type = "DecisionTaskStarted" /\ ~IsEnd(e) /\ e.type \notin activity_close_types
      /\ e.type \notin StartTypes /\ e.type \notin AskTypes /\ e.type \notin close_types
  BY <1>1 DEF Event, activity_close_types, IsEnd, StartTypes, AskTypes, close_types
<1>3. /\ history' = Append(history, e) /\ buffered' = buffered /\ phase = "idle" /\ ~Closed
  BY <1>1 DEF PollDecisionTask
<1>4. buffered = << >> /\ IsSeq(history) /\ RefersInto(history, history) /\ IsSeq(buffered)
  BY <1>3, ReferencesAreOld DEF HistoryInv, PhaseInv, IInv, ServiceInv, WrittenInv
<1>5. IsSeq(<< e >>) /\ (\A k \in DOMAIN << e >> : << e >>[k] = e) /\ history' = history \o << e >>
  BY <1>3, <1>4, TuplesAreSeqs, AppendIsBehind
<1>6. /\ RefersInto(history, << e >>) /\ EndedIn(history, << e >>) = {}
      /\ RefersInto(history, buffered) /\ EndedIn(history, buffered) = {}
  BY <1>2, <1>4, <1>5, EmptyIsSeq, NothingEnds DEF RefersInto
<1>7. /\ EndedIn(history, history \o buffered) = EndedIn(history, history)
      /\ EndedIn(history', history' \o buffered) = EndedIn(history, history \o buffered)
  <2>1. PICK new : new = << e >>
    OBVIOUS
  <2>2. IsSeq(new) /\ RefersInto(history, new) /\ EndedIn(history, new) = {} /\ history' = history \o new
    BY <1>5, <1>6, <2>1
  <2>3. /\ EndedIn(history, history \o buffered) = EndedIn(history, history) \cup EndedIn(history, buffered)
        /\ EndedIn(history \o new, (history \o new) \o buffered)
               = EndedIn(history, history \o buffered) \cup EndedIn(history, new)
    <3>1. IsSeq(history) /\ IsSeq(buffered) /\ RefersInto(history, history) /\ RefersInto(history, buffered)
          /\ IsSeq(new) /\ RefersInto(history, new)
      BY <1>4, <1>6, <2>2
    <3> QED BY <3>1, EndedBehind
  <2> QED BY <1>6, <2>2, <2>3
<1>8. SeenIn(history') = EndedIn(history, history)
  BY <1>2, <1>3, <1>4, SeenWithTheTask
<1>9. /\ Started(history') = Started(history)
      /\ IdsAt(history', AskTypes) = IdsAt(history, AskTypes)
      /\ ClosingsIn(history') = ClosingsIn(history)
  BY <1>2, <1>4, <1>5, IdsOfOthers, ClosingsStay DEF Started
<1>10. ClosingsIn(history) = 0
  BY <1>3, <1>4, ClosingsGrow DEF Closed
<1>11. Commands!Look
  BY <1>3, <1>7, <1>8, <1>9 DEF Commands!Look, Known, Started, StartTypes, AskTypes
<1> QED BY <1>10, <1>11 DEF Commands!Next

-----------------------------------------------------------------------------
(* What recording a decision does to the life                              *)

\* The record of a decision is behind what was there.
LEMMA RecordedBehind ==
    ASSUME NEW h, NEW b, NEW e, IsSeq(h), IsSeq(b), RefersInto(h, h), RefersInto(h, b),
           e.type \in StartTypes \cup AskTypes \cup close_types
    PROVE  LET g == Append(h, e)
           IN  /\ IsSeq(g) /\ RefersInto(g, g) /\ RefersInto(g, b)
               /\ Started(g) = IF e.type \in StartTypes THEN Append(Started(h), e.id) ELSE Started(h)
               /\ IdsAt(g, AskTypes) = IF e.type \in AskTypes THEN Append(IdsAt(h, AskTypes), e.id)
                                       ELSE IdsAt(h, AskTypes)
               /\ SeenIn(g) = SeenIn(h)
               /\ e.type \notin close_types => ClosingsIn(g) = ClosingsIn(h)
               /\ EndedIn(h, h \o b) = EndedIn(h, h) \cup EndedIn(h, b)
               /\ EndedIn(g, g \o b) = IF e.type = "TimerCanceled" THEN EndedIn(h, h \o b) \cup {e.id}
                                       ELSE EndedIn(h, h \o b)
<1>1. /\ e.type \notin activity_close_types /\ e.type # "DecisionTaskStarted"
      /\ IsEnd(e) <=> e.type = "TimerCanceled"
      /\ e.type \in StartTypes => e.type \notin AskTypes
      /\ e.type \in close_types => e.type \notin StartTypes /\ e.type \notin AskTypes
      /\ e.type \in AskTypes => e.type \notin StartTypes
  BY DEF StartTypes, AskTypes, close_types, activity_close_types, IsEnd
<1>2. PICK g : g = Append(h, e)
  OBVIOUS
<1>3. PICK new : new = << e >>
  OBVIOUS
<1>4. g = h \o new
  BY <1>2, <1>3, AppendIsBehind
<1>5. IsSeq(new) /\ (\A k \in DOMAIN new : new[k] = e) /\ 1 \in DOMAIN new /\ new[1] = e
  BY <1>3, TuplesAreSeqs
<1>6. IsSeq(g) /\ RefersInto(g, g) /\ RefersInto(g, b) /\ RefersInto(h, new)
  <2>1. PICK n : n = Len(h)
    OBVIOUS
  <2>2. /\ n \in Nat /\ DOMAIN h = 1..n /\ DOMAIN g = 1..(n + 1) /\ IsSeq(g)
        /\ g[n + 1] = e /\ \A i \in 1..n : g[i] = h[i]
    BY <1>2, <2>1, AppendPositions
  <2>3. DOMAIN h \subseteq DOMAIN g /\ \A i \in DOMAIN g : i = n + 1 \/ i \in DOMAIN h
    BY <2>2
  <2> QED BY <1>1, <1>5, <2>2, <2>3 DEF RefersInto
<1>7. Started(g) = IF e.type \in StartTypes THEN Append(Started(h), e.id) ELSE Started(h)
  <2>1. CASE e.type \in StartTypes
    BY <1>2, <2>1, IdsOfOneMore DEF Started
  <2>2. CASE e.type \notin StartTypes
    BY <1>4, <1>5, <2>2, IdsOfOthers DEF Started
  <2> QED BY <2>1, <2>2
<1>8. IdsAt(g, AskTypes) = IF e.type \in AskTypes THEN Append(IdsAt(h, AskTypes), e.id)
                           ELSE IdsAt(h, AskTypes)
  <2>1. CASE e.type \in AskTypes
    BY <1>2, <2>1, IdsOfOneMore
  <2>2. CASE e.type \notin AskTypes
    BY <1>4, <1>5, <2>2, IdsOfOthers
  <2> QED BY <2>1, <2>2
<1>9. SeenIn(g) = SeenIn(h)
  BY <1>1, <1>4, <1>5, SeenStays
<1>10. e.type \notin close_types => ClosingsIn(g) = ClosingsIn(h)
  BY <1>4, <1>5, ClosingsStay
<1>11. /\ EndedIn(h, h \o b) = EndedIn(h, h) \cup EndedIn(h, b)
       /\ EndedIn(g, g \o b) = EndedIn(h, h \o b) \cup EndedIn(h, new)
  BY <1>4, <1>5, <1>6, EndedBehind
<1>12. EndedIn(h, new) = IF e.type = "TimerCanceled" THEN {e.id} ELSE {}
  <2>1. \A x : x \in EndedIn(h, new) <=> \E k \in DOMAIN new : IsEnd(new[k]) /\ x = EndedBy(h, new[k])
    BY DEF EndedIn
  <2>2. EndedBy(h, e) = e.id
    BY <1>1 DEF EndedBy
  <2> QED BY <1>1, <1>5, <2>1, <2>2
<1> QED BY <1>2, <1>6, <1>7, <1>8, <1>9, <1>10, <1>11, <1>12

\* A firing that is dropped leaves its timer over once the cancellation is
\* recorded.
LEMMA FiringDropped ==
    ASSUME NEW h, NEW b, IsSeq(h), IsSeq(b), NEW i \in DOMAIN b, NEW id, IsFiringOf(id, b[i])
    PROVE  /\ IsSeq(SE!RemoveAt(b, i))
           /\ RefersInto(h, b) => RefersInto(h, SE!RemoveAt(b, i))
           /\ EndedIn(h, b) \cup {id} = EndedIn(h, SE!RemoveAt(b, i)) \cup {id}
<1>1. PICK r : r = SE!RemoveAt(b, i)
  OBVIOUS
<1>2. PICK n : n = Len(b)
  OBVIOUS
<1>3. n \in Nat /\ DOMAIN b = 1..n
  BY <1>2, LenProperties DEF IsSeq
<1>4. DOMAIN r = 1..(n - 1) /\ \A k \in 1..(n - 1) : r[k] = IF k < i THEN b[k] ELSE b[k + 1]
  BY <1>1, <1>2, RemoveAtElements
<1>5. IsSeq(r)
  <2>1. IsSeq(SE!RemoveAt(b, i))
    <3>1. /\ SE!RemoveAt(b, i) = SubSeq(b, 1, i - 1) \o SubSeq(b, i + 1, Len(b))
      BY DEF SE!RemoveAt
    <3>2. /\ b \in Seq({b[k] : k \in DOMAIN b})
          /\ SubSeq(b, 1, i - 1) \in Seq({b[k] : k \in DOMAIN b})
          /\ SubSeq(b, i + 1, Len(b)) \in Seq({b[k] : k \in DOMAIN b})
      BY <1>2, <1>3, SubSeqProperties DEF IsSeq
    <3>3. SE!RemoveAt(b, i) \in Seq({b[k] : k \in DOMAIN b})
      BY ZenonT(40), <3>1, <3>2, ConcatProperties
    <3> QED BY <3>3, SeqDef, LenProperties DEF IsSeq
  <2> QED BY <1>1, <2>1
<1>6. ASSUME NEW k \in DOMAIN r PROVE \E l \in DOMAIN b : r[k] = b[l]
  <2>1. k \in 1..n /\ k + 1 \in 1..n
    BY <1>3, <1>4
  <2> QED BY <1>3, <1>4, <2>1
<1>7. ASSUME NEW l \in DOMAIN b, l # i PROVE \E k \in DOMAIN r : r[k] = b[l]
  <2>1. CASE l < i
    <3>1. l \in 1..(n - 1)
      BY <1>3, <2>1
    <3> QED BY <1>4, <2>1, <3>1
  <2>2. CASE l > i
    <3>1. l - 1 \in 1..(n - 1) /\ ~(l - 1 < i) /\ l - 1 + 1 = l
      BY <1>3, <1>7, <2>2
    <3> QED BY <1>4, <3>1
  <2> QED BY <1>3, <1>7, <2>1, <2>2
<1>8. \A events, x : x \in EndedIn(h, events) <=>
          \E k \in DOMAIN events : IsEnd(events[k]) /\ x = EndedBy(h, events[k])
  BY DEF EndedIn
<1>9. EndedBy(h, b[i]) = id
  BY DEF EndedBy, IsFiringOf, activity_close_types
<1>10. ASSUME NEW x \in EndedIn(h, b) PROVE x = id \/ x \in EndedIn(h, r)
  <2>1. PICK l \in DOMAIN b : IsEnd(b[l]) /\ x = EndedBy(h, b[l])
    BY <1>8, <1>10
  <2> QED BY <1>7, <1>8, <1>9, <2>1
<1>11. ASSUME NEW x \in EndedIn(h, r) PROVE x \in EndedIn(h, b)
  <2>1. PICK l \in DOMAIN r : IsEnd(r[l]) /\ x = EndedBy(h, r[l])
    BY <1>8, <1>11
  <2> QED BY <1>6, <1>8, <2>1
<1>12. RefersInto(h, b) => RefersInto(h, r)
  BY <1>6 DEF RefersInto
<1> QED BY <1>1, <1>5, <1>10, <1>11, <1>12

\* What is in the way of a cancellation has ended or was cancelled before.
LEMMA CancellableIsOpen ==
    ASSUME IInv, HistoryInv, NumberedInv, NEW id, NEW type \in StartTypes,
           StartedBefore(history, type, id), NotEnded(history, id),
           type = "ActivityTaskScheduled" => NotYet(history, "ActivityTaskCancelRequested", id)
    PROVE  /\ \E t \in {"ACTIVITY", "TIMER"}, n \in 0..(MaxIds - 1) : id = DecisionId(t, n)
           /\ id \in Commands!Elements(Started(history))
           /\ id \notin Commands!Elements(IdsAt(history, AskTypes))
           /\ id \notin SeenIn(history)
<1>1. /\ IsSeq(history) /\ Written(history) /\ Len(history) \in Nat /\ DOMAIN history = 1..Len(history)
  BY LenProperties DEF IInv, ServiceInv, HistoryInv, WrittenInv, IsSeq
<1>2. PICK i \in DOMAIN history : history[i].type = type /\ history[i].id = id
  BY DEF StartedBefore
<1>3. ASSUME NEW j \in DOMAIN history, history[j].type \in AskTypes, history[j].id = id PROVE FALSE
  <2>1. Follows(history, j - 1, history[j])
    BY <1>1 DEF Written
  <2>2. history[j].type # "CancelTimerFailed"
    BY <2>1 DEF Follows
  <2>3. CASE history[j].type = "TimerCanceled"
    BY <1>3, <2>3 DEF NotEnded, SubjectIn, EndTypes, RefTypes, activity_close_types
  <2>4. CASE history[j].type = "ActivityTaskCancelRequested"
    <3>1. PICK k \in 1..(j - 1) : history[k].type = "ActivityTaskScheduled" /\ history[k].id = history[j].id
      BY <2>1, <2>4 DEF Follows, CancelTypes
    <3>2. k \in DOMAIN history
      BY <1>1, <3>1
    <3>3. type = "ActivityTaskScheduled"
      BY <1>2, <1>3, <3>1, <3>2, KindsDiffer DEF StartTypes
    <3> QED BY <1>3, <2>4, <3>3 DEF NotYet
  <2> QED BY <1>3, <2>2, <2>3, <2>4 DEF AskTypes
<1>4. id \notin Commands!Elements(IdsAt(history, AskTypes))
  <2>1. SUFFICES ASSUME id \in Commands!Elements(IdsAt(history, AskTypes)) PROVE FALSE
    OBVIOUS
  <2>2. PICK k \in DOMAIN IdsAt(history, AskTypes) : id = IdsAt(history, AskTypes)[k]
    BY <2>1 DEF Commands!Elements
  <2>3. \E j \in DOMAIN history : history[j].type \in AskTypes /\ history[j].id = IdsAt(history, AskTypes)[k]
    BY <1>1, IdsAtElements
  <2> QED BY <1>3, <2>2, <2>3
<1>5. id \notin SeenIn(history)
  <2>1. SUFFICES ASSUME id \in SeenIn(history) PROVE FALSE
    OBVIOUS
  <2>2. PICK j \in DOMAIN history : IsEnd(history[j]) /\ id = EndedBy(history, history[j])
    BY <2>1 DEF SeenIn
  <2>3. history[j].type \in EndTypes /\ SubjectIn(history, j) = id
    BY <2>2 DEF IsEnd, EndedBy, SubjectIn, EndTypes, RefTypes, activity_close_types
  <2> QED BY <2>3 DEF NotEnded
<1> QED BY <1>1, <1>2, <1>4, <1>5, StartedIds

\* Two events written together are written one behind the other.
LEMMA TwoBehind ==
    ASSUME NEW h, IsSeq(h), NEW e, NEW f, NEW g, g = Append(h, e)
    PROVE  h \o << e, f >> = g \o << f >>
<1>0. ASSUME NEW a, NEW p, IsSeq(a), IsSeq(p)
      PROVE  /\ DOMAIN (a \o p) = 1..(Len(a) + Len(p))
             /\ \A i \in DOMAIN a : (a \o p)[i] = a[i]
             /\ \A i \in DOMAIN p : (a \o p)[Len(a) + i] = p[i]
  <2>1. /\ IsSeq(a \o p)
        /\ Len(a) \in Nat /\ DOMAIN a = 1..Len(a)
        /\ Len(p) \in Nat /\ DOMAIN p = 1..Len(p)
        /\ Len(a \o p) = Len(a) + Len(p)
        /\ DOMAIN (a \o p) = 1..(Len(a) + Len(p))
        /\ \A i \in DOMAIN a : (a \o p)[i] = a[i]
        /\ \A i \in DOMAIN p : (a \o p)[Len(a) + i] = p[i]
        /\ \A i \in DOMAIN (a \o p) :
               i \in DOMAIN a \/ \E j \in DOMAIN p : i = Len(a) + j
    BY <1>0, ConcatPositions
  <2> QED BY <2>1
<1>1. PICK n : n = Len(h)
  OBVIOUS
<1>2. /\ n \in Nat /\ DOMAIN h = 1..n /\ DOMAIN g = 1..(n + 1) /\ IsSeq(g) /\ Len(g) = n + 1
      /\ g[n + 1] = e /\ \A i \in 1..n : g[i] = h[i]
  BY <1>1, AppendPositions
<1>3. IsSeq(<< e, f >>) /\ IsSeq(<< f >>)
  BY TuplesAreSeqs
<1>4. PICK k : k = h \o << e, f >>
  OBVIOUS
<1>5. PICK l : l = g \o << f >>
  OBVIOUS
<1>6. /\ IsSeq(k) /\ DOMAIN k = 1..(n + 2) /\ k[n + 1] = e /\ k[n + 2] = f /\ \A i \in 1..n : k[i] = h[i]
  <2>1. IsSeq(h \o << e, f >>)
    BY <1>3, ConcatIsSeq
  <2>2. PICK p : p = << e, f >>
    OBVIOUS
  <2>3. DOMAIN p = 1..2 /\ Len(p) = 2 /\ p[1] = e /\ p[2] = f /\ IsSeq(p)
    BY <1>3, <2>2
  <2>4. /\ DOMAIN (h \o p) = 1..(Len(h) + Len(p))
        /\ \A i \in DOMAIN h : (h \o p)[i] = h[i]
        /\ \A i \in DOMAIN p : (h \o p)[Len(h) + i] = p[i]
    <3>1. IsSeq(p) /\ IsSeq(h)
      BY <1>2, <2>3
    <3> QED BY <1>0, <3>1
  <2>5. (h \o p)[Len(h) + 1] = p[1] /\ (h \o p)[Len(h) + 2] = p[2]
    BY <2>3, <2>4
  <2> QED BY <1>1, <1>2, <1>4, <2>1, <2>2, <2>3, <2>4, <2>5
<1>7. /\ IsSeq(l) /\ DOMAIN l = 1..(n + 2) /\ l[n + 2] = f /\ \A i \in 1..(n + 1) : l[i] = g[i]
  <2>1. IsSeq(g \o << f >>)
    BY <1>2, <1>3, ConcatIsSeq
  <2>2. PICK p : p = << f >>
    OBVIOUS
  <2>3. DOMAIN p = 1..1 /\ Len(p) = 1 /\ p[1] = f /\ IsSeq(p)
    BY <1>3, <2>2
  <2>4. /\ DOMAIN (g \o p) = 1..(Len(g) + Len(p))
        /\ \A i \in DOMAIN g : (g \o p)[i] = g[i]
        /\ \A i \in DOMAIN p : (g \o p)[Len(g) + i] = p[i]
    <3>1. IsSeq(p) /\ IsSeq(g)
      BY <1>2, <2>3
    <3> QED BY <1>0, <3>1
  <2>5. (g \o p)[Len(g) + 1] = p[1]
    BY <2>3, <2>4
  <2>6. DOMAIN l = 1..(n + 1 + 1) /\ l[n + 1 + 1] = f /\ \A i \in 1..(n + 1) : l[i] = g[i]
    BY <1>2, <1>5, <2>2, <2>3, <2>4, <2>5
  <2>7. n + 1 + 1 = n + 2
    BY <1>2
  <2> QED BY <1>5, <2>1, <2>6, <2>7
<1>8. \A i \in 1..(n + 2) : i \in 1..n \/ i = n + 1 \/ i = n + 2
  BY <1>2
<1>9. \A i \in 1..n : i \in 1..(n + 1)
  BY <1>2
<1>10. n + 1 \in 1..(n + 1)
  BY <1>2
<1>11. \A i \in DOMAIN k : k[i] = l[i]
  BY <1>2, <1>6, <1>7, <1>8, <1>9, <1>10
<1> QED BY <1>4, <1>5, <1>6, <1>7, <1>11, SameElements


\* What is recorded starts what has the next number, cancels what is open, or
\* ends the workflow once it has seen what is over.
LEMMA RecordsCommands ==
    ASSUME ~ImmediateCancel, IInv, HistoryInv, DecisionsInv, NumberedInv, ClosingInv, RecordDecision
    PROVE  Commands!Next
<1> DEFINE Id(x) == \E t \in {"ACTIVITY", "TIMER"}, n \in 0..(MaxIds - 1) : x = DecisionId(t, n)
<1>1. PICK d : d = Head(decisions)
  OBVIOUS
<1>2. /\ IsSeq(history) /\ IsSeq(buffered) /\ IsSeq(decisions)
      /\ RefersInto(history, history) /\ RefersInto(history, buffered)
  BY ReferencesAreOld DEF IInv, ServiceInv, HistoryInv, WrittenInv, DecisionsInv
<1>3. /\ phase = "record" /\ ~Closed /\ decisions # << >> /\ Sendable(history, d)
  BY <1>1, DecisionRecorded
<1>4. ClosingsIn(history) = 0 /\ \A e : e.type \in close_types => ClosingsIn(Append(history, e)) = 1
  BY <1>2, <1>3, ClosingsGrow DEF Closed
<1>5. d = decisions[1] /\ 1 \in DOMAIN decisions
  BY <1>1, <1>2, <1>3, HeadAndTail
<1>6. ASSUME NEW e, e.type \in StartTypes \cup AskTypes \cup close_types, history' = Append(history, e)
      PROVE  /\ IsSeq(history') /\ RefersInto(history', history') /\ RefersInto(history', buffered)
             /\ Started(history') = IF e.type \in StartTypes THEN Append(Started(history), e.id) ELSE Started(history)
             /\ IdsAt(history', AskTypes) = IF e.type \in AskTypes THEN Append(IdsAt(history, AskTypes), e.id)
                                            ELSE IdsAt(history, AskTypes)
             /\ SeenIn(history') = SeenIn(history)
             /\ e.type \notin close_types => ClosingsIn(history') = ClosingsIn(history)
             /\ EndedIn(history', history' \o buffered) =
                    IF e.type = "TimerCanceled" THEN EndedIn(history, history \o buffered) \cup {e.id}
                    ELSE EndedIn(history, history \o buffered)
  BY <1>2, <1>6, RecordedBehind
<1>7. CASE Starts(d)
  <2>1. /\ UNCHANGED buffered
        /\ RecordsOne(d, {IF d.what = "StartTimer" THEN "TimerStarted" ELSE "ActivityTaskScheduled"})
    BY <1>1, <1>7, DecisionRecorded
  <2>2. PICK e : /\ e.type = IF d.what = "StartTimer" THEN "TimerStarted" ELSE "ActivityTaskScheduled"
                 /\ e.id = d.id /\ history' = Append(history, e)
    BY <2>1 DEF RecordsOne
  <2>3. e.type \in StartTypes /\ e.type \notin AskTypes /\ e.type \notin close_types /\ e.type # "TimerCanceled"
    BY <2>2 DEF StartTypes, AskTypes, close_types
  <2>4. d.id.id = Len(Started(history))
    BY <1>1, <1>2, <1>3, <1>7, NumberedTail DEF NumberedInv
  <2>5. Id(d.id)
    <3>1. d.what = "ScheduleActivityTask" \/ d.what = "StartTimer"
      BY <1>7 DEF Starts, StartingTypes
    <3>2. d.id \in CommandIds("ACTIVITY") \/ d.id \in CommandIds("TIMER")
      BY <1>5, <3>1 DEF NumberedInv, NumberedIn
    <3> QED BY <3>2 DEF CommandIds
  <2>6. Commands!Start(d.id)
    BY <1>6, <2>1, <2>2, <2>3, <2>4 DEF Commands!Start, Started, StartTypes, AskTypes, Known
  <2> QED BY <1>4, <2>5, <2>6 DEF Commands!Next
<1>8. CASE d.what = "CancelTimer" /\ ~Starts(d) /\ ~ClosesWorkflow(d)
  <2>1. /\ RecordsOne(d, {"TimerCanceled"})
        /\ UNCHANGED buffered \/ \E i \in DOMAIN buffered :
               IsFiringOf(d.id, buffered[i]) /\ buffered' = SE!RemoveAt(buffered, i)
    <3> HIDE DEF RecordsOne
    <3> QED BY <1>1, <1>8, DecisionRecorded
  <2>2. PICK e : e.type = "TimerCanceled" /\ e.id = d.id /\ history' = Append(history, e)
    BY <2>1 DEF RecordsOne
  <2>3. e.type \in AskTypes /\ e.type \notin StartTypes /\ e.type \notin close_types
    BY <2>2 DEF StartTypes, AskTypes, close_types
  <2>4. StartedBefore(history, "TimerStarted", d.id) /\ NotEnded(history, d.id)
    BY <1>3, <1>8 DEF Sendable
  <2>5. /\ Id(d.id) /\ d.id \in Commands!Elements(Started(history))
        /\ d.id \notin Commands!Elements(IdsAt(history, AskTypes)) /\ d.id \notin SeenIn(history)
    <3>1. "TimerStarted" \in StartTypes /\ "TimerStarted" # "ActivityTaskScheduled"
      BY DEF StartTypes
    <3> QED BY <2>4, <3>1, CancellableIsOpen
  <2>6. EndedIn(history', history' \o buffered') = EndedIn(history, history \o buffered) \cup {d.id}
    <3>1. EndedIn(history', history' \o buffered) = EndedIn(history, history \o buffered) \cup {d.id}
      BY <1>6, <2>2, <2>3
    <3>2. CASE UNCHANGED buffered
      BY <3>1, <3>2
    <3>3. ASSUME NEW i \in DOMAIN buffered, IsFiringOf(d.id, buffered[i]), buffered' = SE!RemoveAt(buffered, i)
          PROVE  EndedIn(history', history' \o buffered') = EndedIn(history, history \o buffered) \cup {d.id}
      <4>1. /\ IsSeq(buffered') /\ RefersInto(history, buffered')
            /\ EndedIn(history, buffered) \cup {d.id} = EndedIn(history, buffered') \cup {d.id}
        BY <1>2, <3>3, FiringDropped
      <4>2. EndedIn(history, history \o buffered) = EndedIn(history, history) \cup EndedIn(history, buffered)
        BY <1>2, EndedTogether
      <4>3. EndedIn(history, history \o buffered') = EndedIn(history, history) \cup EndedIn(history, buffered')
        BY <1>2, <4>1, EndedTogether
      <4>4. PICK c : c = buffered'
        OBVIOUS
      <4>5. LET g == Append(history, e)
            IN  EndedIn(g, g \o c) = IF e.type = "TimerCanceled" THEN EndedIn(history, history \o c) \cup {e.id}
                                     ELSE EndedIn(history, history \o c)
        <5>1. IsSeq(c) /\ RefersInto(history, c)
          BY <4>1, <4>4
        <5> QED BY <1>2, <2>3, <5>1, RecordedBehind
      <4> QED BY <2>2, <4>1, <4>2, <4>3, <4>4, <4>5
    <3> QED BY <2>1, <3>2, <3>3
  <2>7. Commands!Cancel(d.id)
    BY <1>6, <2>2, <2>3, <2>5, <2>6 DEF Commands!Cancel, Started, StartTypes, AskTypes, Known
  <2> QED BY <1>4, <2>5, <2>7 DEF Commands!Next
<1>9. CASE d.what = "RequestCancelActivityTask" /\ ~Starts(d) /\ ~ClosesWorkflow(d)
  <2>1. /\ UNCHANGED buffered
        /\ \/ RecordsOne(d, {"ActivityTaskCancelRequested"})
           \/ \E e, f : /\ e.type = "ActivityTaskCancelRequested" /\ e.id = d.id
                        /\ f.type = "RequestCancelActivityTaskFailed" /\ f.id = d.id
                        /\ history' = history \o << e, f >>
    <3> HIDE DEF RecordsOne
    <3> QED BY <1>1, <1>9, DecisionRecorded
  <2>2. /\ StartedBefore(history, "ActivityTaskScheduled", d.id) /\ NotEnded(history, d.id)
        /\ NotYet(history, "ActivityTaskCancelRequested", d.id)
    BY <1>3, <1>9 DEF Sendable
  <2>3. /\ Id(d.id) /\ d.id \in Commands!Elements(Started(history))
        /\ d.id \notin Commands!Elements(IdsAt(history, AskTypes)) /\ d.id \notin SeenIn(history)
    <3>1. "ActivityTaskScheduled" \in StartTypes
      BY DEF StartTypes
    <3> QED BY <2>2, <3>1, CancellableIsOpen
  <2>4. PICK e : /\ e.type = "ActivityTaskCancelRequested" /\ e.id = d.id
                 /\ \/ history' = Append(history, e)
                    \/ \E f : f.type = "RequestCancelActivityTaskFailed" /\ history' = history \o << e, f >>
    BY <2>1 DEF RecordsOne
  <2>5. e.type \in AskTypes /\ e.type \notin StartTypes /\ e.type \notin close_types /\ e.type # "TimerCanceled"
    BY <2>4 DEF StartTypes, AskTypes, close_types
  <2>6. PICK g : g = Append(history, e)
    OBVIOUS
  <2>7. /\ IsSeq(g) /\ RefersInto(g, g) /\ RefersInto(g, buffered)
        /\ Started(g) = Started(history)
        /\ IdsAt(g, AskTypes) = Append(IdsAt(history, AskTypes), d.id)
        /\ SeenIn(g) = SeenIn(history) /\ ClosingsIn(g) = ClosingsIn(history)
        /\ EndedIn(g, g \o buffered) = EndedIn(history, history \o buffered)
    <3>1. LET k == Append(history, e)
          IN  /\ IsSeq(k) /\ RefersInto(k, k) /\ RefersInto(k, buffered)
              /\ Started(k) = IF e.type \in StartTypes THEN Append(Started(history), e.id) ELSE Started(history)
              /\ IdsAt(k, AskTypes) = IF e.type \in AskTypes THEN Append(IdsAt(history, AskTypes), e.id)
                                      ELSE IdsAt(history, AskTypes)
              /\ SeenIn(k) = SeenIn(history)
              /\ e.type \notin close_types => ClosingsIn(k) = ClosingsIn(history)
              /\ EndedIn(k, k \o buffered) = IF e.type = "TimerCanceled" THEN EndedIn(history, history \o buffered) \cup {e.id}
                                       ELSE EndedIn(history, history \o buffered)
      BY <1>2, <2>5, RecordedBehind
    <3> QED BY <2>4, <2>5, <2>6, <3>1
  <2>8. LifeOf(history', buffered) = LifeOf(g, buffered)
    <3>1. CASE history' = Append(history, e)
      BY <2>6, <3>1
    <3>2. ASSUME NEW f, f.type = "RequestCancelActivityTaskFailed", history' = history \o << e, f >>
          PROVE  LifeOf(history', buffered) = LifeOf(g, buffered)
      <4>1. history' = g \o << f >>
        BY ZenonT(40), <1>2, <2>6, <3>2, TwoBehind
      <4>2. f.type \notin LifeTypes /\ ~IsEnd(f)
        BY <3>2 DEF LifeTypes, StartTypes, AskTypes, close_types, IsEnd, activity_close_types
      <4>3. LifeOf(g \o << f >>, buffered) = LifeOf(g, buffered)
        BY <1>2, <2>7, <4>2, MarksAreQuiet
      <4> QED BY <4>1, <4>3
    <3> QED BY <2>4, <3>1, <3>2
  <2>9. /\ Started(history') = Started(history)
        /\ IdsAt(history', AskTypes) = Append(IdsAt(history, AskTypes), d.id)
        /\ SeenIn(history') = SeenIn(history) /\ ClosingsIn(history') = ClosingsIn(history)
        /\ EndedIn(history', history' \o buffered) = EndedIn(history, history \o buffered)
    BY <2>7, <2>8 DEF LifeOf
  <2>10. Commands!Cancel(d.id)
    BY <2>1, <2>3, <2>9 DEF Commands!Cancel, Started, StartTypes, AskTypes, Known
  <2> QED BY <1>4, <2>3, <2>10 DEF Commands!Next
<1>10. CASE ClosesWorkflow(d)
  <2>1. RecordsOne(d, close_types) /\ UNCHANGED buffered
    <3> HIDE DEF RecordsOne
    <3> QED BY <1>1, <1>10, DecisionRecorded
  <2>2. PICK e : e.type \in close_types /\ history' = Append(history, e)
    BY <2>1 DEF RecordsOne
  <2>3. e.type \notin AskTypes /\ e.type \notin StartTypes /\ e.type # "TimerCanceled"
    BY <2>2 DEF StartTypes, AskTypes, close_types
  <2>4. buffered = << >>
    BY <1>3, <1>5, <1>10 DEF ClosingInv
  <2>5. EndedIn(history, history \o buffered) = EndedIn(history, history)
    <3>1. EndedIn(history, buffered) = {}
      BY <2>4, EmptyIsSeq, NothingEnds
    <3>2. EndedIn(history, history \o buffered) = EndedIn(history, history) \cup EndedIn(history, buffered)
      BY <1>2, EndedTogether
    <3> QED BY <3>1, <3>2
  <2>6. ASSUME NEW x \in EndedIn(history, history)
        PROVE  x \in SeenIn(history) \/ x \in Commands!Elements(IdsAt(history, AskTypes))
    <3>1. PICK j \in DOMAIN history : IsEnd(history[j]) /\ x = EndedBy(history, history[j])
      BY <2>6 DEF EndedIn
    <3>2. PICK s \in DOMAIN history :
              /\ history[s].type = "DecisionTaskStarted"
              /\ \A i \in (s + 1)..Len(history) : Records(history[i])
      BY <1>3 DEF ClosingInv
    <3>3. Len(history) \in Nat /\ DOMAIN history = 1..Len(history)
      BY <1>2, LenProperties DEF IsSeq
    <3>4. CASE j <= s
      <4>1. s \in j..Len(history)
        BY <3>3, <3>4
      <4> QED BY <3>1, <3>2, <4>1 DEF SeenIn
    <3>5. CASE ~(j <= s)
      <4>1. j \in (s + 1)..Len(history)
        BY <3>3, <3>5
      <4>2. Records(history[j])
        BY <3>2, <4>1
      <4>3. history[j].type = "TimerCanceled"
        BY <3>1, <4>2 DEF Records, is_decision_event, decision_event_types, IsEnd, activity_close_types
      <4>4. x = history[j].id /\ history[j].type \in AskTypes
        BY <3>1, <4>3 DEF EndedBy, activity_close_types, AskTypes
      <4>5. \E k \in DOMAIN IdsAt(history, AskTypes) : x = IdsAt(history, AskTypes)[k]
        <5>1. IsSeq(history)
          BY <1>2
        <5>2. /\ IsSeq(IdsAt(history, AskTypes)) /\ Len(IdsAt(history, AskTypes)) \in Nat
              /\ DOMAIN IdsAt(history, AskTypes) = 1..Len(IdsAt(history, AskTypes))
              /\ \A k \in DOMAIN IdsAt(history, AskTypes) : \E i \in DOMAIN history :
                     history[i].type \in AskTypes /\ history[i].id = IdsAt(history, AskTypes)[k]
              /\ \A i \in DOMAIN history : history[i].type \in AskTypes =>
                     \E k \in DOMAIN IdsAt(history, AskTypes) : history[i].id = IdsAt(history, AskTypes)[k]
          BY <5>1, IdsAtElements
        <5> QED BY <4>4, <5>2
      <4> QED BY <4>5 DEF Commands!Elements
    <3> QED BY <3>4, <3>5
  <2>7. ClosingsIn(history') = 1
    BY <1>4, <2>2
  <2>8. EndedIn(history, Known) \subseteq SeenIn(history) \cup Commands!Elements(IdsAt(history, AskTypes))
    BY <2>5, <2>6 DEF Known
  <2>9. Commands!Close
    BY <1>6, <2>1, <2>2, <2>3, <2>7, <2>8 DEF Commands!Close, Started, StartTypes, AskTypes, Known
  <2> QED BY <1>4, <2>9 DEF Commands!Next
<1> HIDE DEF RecordsOne
<1> QED BY <1>1, <1>7, <1>8, <1>9, <1>10, DecisionRecorded


\* The end of a task, and the mark of an answer, change nothing.
LEMMA TasksEndQuietly ==
    ASSUME IInv, HistoryInv,
           \/ DecisionTaskTimesOut \/ RespondDecisionTaskFailed
           \/ RespondDecisionTaskCompleted \/ FinishDecisionTask
    PROVE  UNCHANGED Commands!vars
<1>1. IsSeq(history) /\ IsSeq(buffered) /\ Written(history) /\ Writable(history, buffered)
  BY DEF IInv, ServiceInv, HistoryInv, WrittenInv
<1>2. RefersInto(history, history) /\ RefersInto(history, buffered)
  BY <1>1, ReferencesAreOld
<1>3. ASSUME NEW type \in TaskTypes \ {"DecisionTaskStarted"}
      PROVE  /\ Event(type).type \notin LifeTypes /\ ~IsEnd(Event(type))
             /\ LifeOf(history \o << Event(type) >>, buffered) = LifeOf(history, buffered)
  <2>1. Event(type).type \notin LifeTypes /\ ~IsEnd(Event(type))
    BY <1>3 DEF Event, TaskTypes, unsuccessful, LifeTypes, StartTypes, AskTypes, close_types, IsEnd,
                activity_close_types
  <2> QED BY <1>1, <1>2, <2>1, MarksAreQuiet
<1>4. ASSUME NEW type \in unsuccessful, Unsuccessfully(type) PROVE UNCHANGED Commands!vars
  <2>1. type \in TaskTypes \ {"DecisionTaskStarted"} /\ type \in TaskTypes
    BY DEF TaskTypes, unsuccessful
  <2>2. PICK h : h = history \o << Event(type) >>
    OBVIOUS
  <2>3. Event(type).type = type
    BY DEF Event
  <2>4. IsSeq(h) /\ Written(h) /\ Writable(h, buffered)
    BY <1>1, <2>1, <2>2, <2>3, MarkIsWritten
  <2>5. history' = h \o buffered /\ buffered' = << >>
    BY <1>4, <2>2 DEF Unsuccessfully
  <2>6. LifeOf(h \o buffered, << >>) = LifeOf(h, buffered)
    BY <1>1, <2>4, FlushingIsQuiet
  <2>7. LifeOf(h, buffered) = LifeOf(history, buffered)
    BY <1>3, <2>1, <2>2
  <2>8. LifeOf(history, buffered)' = LifeOf(history', buffered')
    OBVIOUS
  <2> QED BY <2>5, <2>6, <2>7, <2>8, MappedWhenItIs
<1>5. CASE DecisionTaskTimesOut \/ RespondDecisionTaskFailed
  BY <1>4, <1>5 DEF DecisionTaskTimesOut, RespondDecisionTaskFailed, unsuccessful
<1>6. CASE RespondDecisionTaskCompleted
  <2>1. CASE history' = Append(history, Event("DecisionTaskCompleted")) /\ UNCHANGED buffered
    <3>1. history' = history \o << Event("DecisionTaskCompleted") >>
      BY <1>1, <2>1, AppendIsBehind
    <3>2. LifeOf(history', buffered) = LifeOf(history, buffered)
      BY <1>3, <3>1 DEF TaskTypes
    <3> QED BY <2>1, <3>2, MappedWhenItIs
  <2> QED BY SMTT(30), <1>4, <1>6, <2>1 DEF RespondDecisionTaskCompleted, unsuccessful
<1>7. CASE FinishDecisionTask
  <2>1. history' = history \o buffered /\ buffered' = << >>
    BY <1>7 DEF FinishDecisionTask
  <2>2. LifeOf(history \o buffered, << >>) = LifeOf(history, buffered)
    BY <1>1, FlushingIsQuiet
  <2> QED BY <2>1, <2>2, MappedWhenItIs
<1> QED BY <1>5, <1>6, <1>7

\* However many engines, replays and lost tasks there were, and whatever
\* crossed on its way: the history the service keeps is the life of a
\* workflow's commands.  Each activity and timer is started once, under the
\* next number; is cancelled once, under its own id, by a task that cannot
\* know that it is over; ends once; and nothing is behind the workflow's end.
\* Said of every workflow, rewritten or not, whose function lets each rejection
\* end it: behind a rejection that was caught, a number is left out.
THEOREM CommandLifeIsImplemented ==
    ASSUME ~ImmediateCancel
    PROVE  Spec /\ []LetThrough => ImplementsCommandLife
<1>1. Init => Commands!Init
  <2> SUFFICES ASSUME Init PROVE Commands!Init
    OBVIOUS
  <2>1. PICK e : e = Event("WorkflowExecutionStarted")
    OBVIOUS
  <2>2. history = << e >> /\ buffered = << >>
    BY <2>1 DEF Init
  <2>3. /\ e.type \notin LifeTypes /\ e.type \notin close_types /\ ~IsEnd(e)
        /\ e.type \notin StartTypes /\ e.type \notin AskTypes
    BY <2>1 DEF Event, LifeTypes, StartTypes, AskTypes, close_types, IsEnd, activity_close_types
  <2>4. IsSeq(history) /\ (\A k \in DOMAIN history : history[k] = e) /\ IsSeq(buffered)
    BY <2>2, TuplesAreSeqs, EmptyIsSeq
  <2>5. ASSUME NEW types, e.type \notin types PROVE IdsAt(history, types) = << >>
    <3>1. IsSeq(IdsAt(history, types))
      BY <2>4, IdsAtElements
    <3>2. DOMAIN IdsAt(history, types) = {}
      BY <2>4, <2>5, IdsAtElements
    <3>3. IsSeq(<< >>) /\ DOMAIN << >> = {}
      BY EmptyIsSeq
    <3> QED BY <3>1, <3>2, <3>3, SameElements
  <2>6. EndedIn(history, Known) = {}
    <3>1. EndedIn(history, history) = {}
      BY <2>3, <2>4, NothingEnds
    <3>2. EndedIn(history, buffered) = {}
      BY <2>2, EmptyIsSeq, NothingEnds
    <3>3. EndedIn(history, history \o buffered) = EndedIn(history, history) \cup EndedIn(history, buffered)
      BY <2>4, EndedTogether
    <3> QED BY <3>1, <3>2, <3>3 DEF Known
  <2>7. SeenIn(history) = {}
    BY <2>3, <2>4 DEF SeenIn
  <2>8. ClosingsIn(history) = 0
    BY <2>3, <2>4, ClosingsGrow
  <2>9. IdsAt(history, StartTypes) = << >> /\ IdsAt(history, AskTypes) = << >>
    BY <2>3, <2>5
  <2> QED BY <2>6, <2>7, <2>8, <2>9 DEF Commands!Init, StartTypes, AskTypes
<1>2. IInv /\ ReplayInv /\ CommandsInv /\ [Next]_vars => [Commands!Next]_(Commands!vars)
  <2> SUFFICES ASSUME IInv, ReplayInv, CommandsInv, [Next]_vars
               PROVE  Commands!Next \/ UNCHANGED Commands!vars
    OBVIOUS
  <2>1. HistoryInv /\ DecisionsInv /\ NumberedInv /\ ClosingInv
    BY DEF ReplayInv, LastInv, CommandsInv
  <2>2. ASSUME UNCHANGED << history, buffered >> PROVE UNCHANGED Commands!vars
    BY <2>2, MappedWhenItIs
  <2>3. CASE EngineNext \/ WorkflowNext
    BY <2>2, <2>3, WorkerWritesNothing
  <2>4. CASE UNCHANGED vars
    BY <2>2, <2>4 DEF vars, serviceVars
  <2>5. CASE ServiceNext
    BY <2>1, <2>5, ActivityEnds, TimerEnds, SignalsEndNothing, TasksLook, TasksEndQuietly, RecordsCommands
       DEF ServiceNext
  <2> QED BY <2>3, <2>4, <2>5 DEF Next
<1> QED BY <1>1, <1>2, Invariance, ReplayIsSound, CommandsAreKept, PTL
        DEF Spec, ImplementsCommandLife, Commands!Spec

-----------------------------------------------------------------------------
(* The order of the calls                                                  *)

\* What the workflow asks for in the batch that history does not know yet: of
\* two activities or timers with something to send, the one behind in the
\* order of the machines has been called last.
OrderedCalls ==
    \A a, b \in DOMAIN order :
        /\ a < b /\ order[a] # COMPLETION_ID /\ order[b] # COMPLETION_ID
        /\ ~Silent(order[a]) /\ ~Silent(order[b])
        => \E j \in DOMAIN ops : /\ Concerns(j, order[b])
                                 /\ \A i \in j..Len(ops) : ~Concerns(i, order[a])

\* The batch is no replay and the workflow was not rejected.
Live == ~batch.replay /\ task # "FatalDecisionError"

\* While the calls are made they account for the numbers given out, and a
\* machine shows whether its cancellation was called.
Called(id) == \E i \in DOMAIN ops : ops[i] = << "cancel", id >>
CallsAreKnown ==
    /\ IsSeq(ops) /\ view[1] \in Nat
    /\ id_counter = view[1] + Cardinality({i \in DOMAIN ops : Creates(i)})
    /\ \A id \in DOMAIN state_machines \ {COMPLETION_ID} :
           /\ StateOf(id) = "CANCELED_AFTER_RECORDED" => Called(id)
           /\ StateOf(id) = "RECORDED" => ~Called(id)

\* The machines are in the order of the calls until they are the answer, which
\* is in that order then.
CallOrderInv ==
    /\ phase = "run" /\ Live => CallsAreKnown
    /\ phase \in {"run", "complete", "end", "output", "next"} /\ Live => OrderedCalls
    /\ DecisionsInCallOrder

\* A call more leaves the earlier ones what they were.
LEMMA OneCallMore ==
    ASSUME IsSeq(ops), NEW op, ops' = Append(ops, op), view' = view, NEW n, n = Len(ops)
    PROVE  /\ n \in Nat /\ DOMAIN ops = 1..n
           /\ IsSeq(ops)' /\ DOMAIN ops' = 1..(n + 1) /\ Len(ops') = n + 1 /\ ops'[n + 1] = op
           /\ \A i \in 1..n : ops'[i] = ops[i]
           /\ \A j \in 1..n : \A id : Concerns(j, id)' <=> Concerns(j, id)
           /\ \A id : Concerns(n + 1, id)' <=>
                  \/ /\ op[1] \in {"execute_activity", "start_timer"}
                     /\ view[1] + Cardinality({i \in DOMAIN ops : Creates(i)}) = id.id
                  \/ op = << "cancel", id >> /\ ~Called(id)
           /\ \A id : Called(id)' <=> Called(id) \/ op = << "cancel", id >>
<1>1. n \in Nat /\ DOMAIN ops = 1..n
  BY LenProperties DEF IsSeq
<1>2. PICK o : o = ops'
  OBVIOUS
<1>3. IsSeq(o) /\ DOMAIN o = 1..(n + 1) /\ o[n + 1] = op /\ \A i \in 1..n : o[i] = ops[i]
  <2>1. /\ IsSeq(Append(ops, op)) /\ DOMAIN Append(ops, op) = 1..(n + 1) /\ Append(ops, op)[n + 1] = op
        /\ \A i \in 1..n : Append(ops, op)[i] = ops[i]
    BY AppendPositions
  <2> QED BY <1>2, <2>1
<1>4. Len(o) = n + 1
  <2>1. PICK m : m = n + 1
    OBVIOUS
  <2>2. PICK l : l = Len(o)
    OBVIOUS
  <2>3. l \in Nat /\ DOMAIN o = 1..l
    BY <1>3, <2>2, LenProperties DEF IsSeq
  <2>4. l = n + 1
    BY <1>1, <1>3, <2>3
  <2> QED BY <2>2, <2>4
<1>5. IsSeq(ops)'
  BY <1>2, <1>3 DEF IsSeq
<1>6. \A i \in 1..n : Creates(i)' <=> Creates(i)
  BY <1>2, <1>3 DEF Creates
<1>7. ASSUME NEW j \in 1..(n + 1)
      PROVE  CreatedBy(j)' = view[1] + Cardinality({i \in 1..(j - 1) : Creates(i)})
  <2>1. \A i \in 1..(j - 1) : i \in 1..n
    BY <1>1
  <2>2. {i \in 1..(j - 1) : Creates(i)'} = {i \in 1..(j - 1) : Creates(i)}
    BY <1>6, <2>1
  <2> QED BY <2>2 DEF CreatedBy
<1>8. ASSUME NEW j \in 1..n, NEW id PROVE Concerns(j, id)' <=> Concerns(j, id)
  <2>1. j \in 1..(n + 1)
    BY <1>1
  <2>2. CreatedBy(j)' = CreatedBy(j)
    BY <1>7, <2>1 DEF CreatedBy
  <2>3. \A i \in 1..(j - 1) : i \in 1..n
    BY <1>1
  <2>4. \A i \in 1..(j - 1) : o[i] = ops[i]
    BY <1>3, <2>3
  <2>5. o[j] = ops[j]
    BY <1>3
  <2> QED BY <1>2, <1>6, <2>2, <2>4, <2>5 DEF Concerns
<1>9. ASSUME NEW id
      PROVE  Concerns(n + 1, id)' <=>
                  \/ /\ op[1] \in {"execute_activity", "start_timer"}
                     /\ view[1] + Cardinality({i \in DOMAIN ops : Creates(i)}) = id.id
                  \/ op = << "cancel", id >> /\ ~Called(id)
  <2>1. n + 1 \in 1..(n + 1) /\ (n + 1) - 1 = n
    BY <1>1
  <2>2. CreatedBy(n + 1)' = view[1] + Cardinality({i \in DOMAIN ops : Creates(i)})
    BY <1>1, <1>7, <2>1
  <2>3. Creates(n + 1)' <=> op[1] \in {"execute_activity", "start_timer"}
    BY <1>2, <1>3 DEF Creates
  <2>4. (\A i \in 1..n : o[i] # o[n + 1]) <=> \A i \in DOMAIN ops : ops[i] # op
    BY <1>1, <1>3
  <2>5. o[n + 1] = op
    BY <1>3
  <2>6. Concerns(n + 1, id)' <=>
            \/ Creates(n + 1)' /\ CreatedBy(n + 1)' = id.id
            \/ o[n + 1] = << "cancel", id >> /\ \A i \in 1..n : o[i] # o[n + 1]
    BY <1>2, <2>1 DEF Concerns
  <2>7. op = << "cancel", id >> => ((\A i \in DOMAIN ops : ops[i] # op) <=> ~Called(id))
    BY DEF Called
  <2> QED BY <2>2, <2>3, <2>4, <2>5, <2>6, <2>7
<1>10. ASSUME NEW id PROVE Called(id)' <=> Called(id) \/ op = << "cancel", id >>
  <2>1. Called(id)' <=> \E i \in 1..(n + 1) : o[i] = << "cancel", id >>
    BY <1>2, <1>3 DEF Called
  <2>2. \A i \in 1..(n + 1) : i \in 1..n \/ i = n + 1
    BY <1>1
  <2>3. \A i \in 1..n : i \in 1..(n + 1)
    BY <1>1
  <2>4. n + 1 \in 1..(n + 1)
    BY <1>1
  <2> QED BY <1>1, <1>3, <2>1, <2>2, <2>3, <2>4 DEF Called
<1> QED BY <1>1, <1>2, <1>3, <1>4, <1>5, <1>8, <1>9, <1>10

\* A call keeps the order when it is the last word on one of any two machines
\* it puts behind the other, and says nothing about those it leaves in front.
LEMMA CallKeepsOrder ==
    ASSUME IsSeq(ops), NEW op, ops' = Append(ops, op), view' = view, OrderedCalls, NEW n, n = Len(ops),
           \A a, b \in DOMAIN order' :
               /\ a < b /\ order'[a] # COMPLETION_ID /\ order'[b] # COMPLETION_ID
               /\ ~Silent(order[a])' /\ ~Silent(order[b])'
               => /\ ~Concerns(n + 1, order[a])'
                  /\ \/ Concerns(n + 1, order[b])'
                     \/ \E c, d \in DOMAIN order :
                            /\ c < d /\ order[c] = order'[a] /\ order[d] = order'[b]
                            /\ ~Silent(order[c]) /\ ~Silent(order[d])
    PROVE  OrderedCalls'
<1>2. /\ n \in Nat /\ DOMAIN ops = 1..n /\ DOMAIN ops' = 1..(n + 1) /\ Len(ops') = n + 1
      /\ \A j \in 1..n : \A id : Concerns(j, id)' <=> Concerns(j, id)
  BY OneCallMore
<1> SUFFICES ASSUME NEW a \in DOMAIN order', NEW b \in DOMAIN order', a < b,
                    order'[a] # COMPLETION_ID, order'[b] # COMPLETION_ID,
                    ~Silent(order[a])', ~Silent(order[b])'
             PROVE  \E j \in DOMAIN ops' : /\ Concerns(j, order[b])'
                                           /\ \A i \in j..Len(ops') : ~Concerns(i, order[a])'
  BY DEF OrderedCalls
<1>3. ~Concerns(n + 1, order[a])'
  OBVIOUS
<1>4. CASE Concerns(n + 1, order[b])'
  <2>1. n + 1 \in 1..(n + 1) /\ \A i \in (n + 1)..(n + 1) : i = n + 1
    BY <1>2
  <2>2. n + 1 \in DOMAIN ops' /\ \A i \in (n + 1)..Len(ops') : ~Concerns(i, order[a])'
    BY <1>2, <1>3, <2>1
  <2> QED BY <1>4, <2>2
<1>5. CASE ~Concerns(n + 1, order[b])'
  <2>1. PICK c, d \in DOMAIN order :
            /\ c < d /\ order[c] = order'[a] /\ order[d] = order'[b]
            /\ ~Silent(order[c]) /\ ~Silent(order[d])
    BY <1>5
  <2>2. PICK j \in DOMAIN ops : /\ Concerns(j, order[d])
                                /\ \A i \in j..Len(ops) : ~Concerns(i, order[c])
    BY <2>1 DEF OrderedCalls
  <2>3. j \in 1..n /\ j \in 1..(n + 1)
    BY <1>2
  <2>4. \A i \in j..(n + 1) : (i \in j..n /\ i \in 1..n) \/ i = n + 1
    BY <1>2, <2>3
  <2>5. \A i \in j..(n + 1) : ~Concerns(i, order[a])'
    BY <1>2, <1>3, <2>1, <2>2, <2>4
  <2>6. Concerns(j, order[b])'
    BY <1>2, <2>1, <2>2, <2>3
  <2> QED BY <1>2, <2>3, <2>5, <2>6
<1> QED BY <1>4, <1>5

\* An activity or a timer asked for is the last word on the newest machine.
LEMMA RequestsInOrder ==
    ASSUME IInv, CallsAreKnown, OrderedCalls, NEW op, ops' = Append(ops, op), view' = view,
           op[1] \in {"execute_activity", "start_timer"},
           NEW type \in {"ACTIVITY", "TIMER"}, NEW props, NEW request,
           Request(type, props, request), raised' = "none"
    PROVE  CallsAreKnown' /\ OrderedCalls'
<1>1. PICK n : n = Len(ops)
  OBVIOUS
<1>2. PICK x : x = DecisionId(type, id_counter)
  OBVIOUS
<1>3. x # COMPLETION_ID /\ x.id = id_counter
  BY <1>2 DEF DecisionId, COMPLETION_ID
<1>4. /\ Add(x, Machine(props, request)) /\ id_counter' = id_counter + 1
  BY <1>2 DEF Request, Reject, next_id
<1>5. /\ x \notin DOMAIN state_machines
      /\ DOMAIN state_machines' = DOMAIN state_machines \cup {x}
      /\ \A id \in DOMAIN state_machines : state_machines'[id] = state_machines[id]
      /\ state_machines'[x] = Machine(props, request)
      /\ order' = Append(order, x)
  BY <1>4 DEF Add
<1>6. \A id : op # << "cancel", id >>
  OBVIOUS
<1>7. IsSeq(ops)
  BY DEF CallsAreKnown
<1>8. /\ n \in Nat /\ DOMAIN ops = 1..n
      /\ IsSeq(ops)' /\ DOMAIN ops' = 1..(n + 1) /\ ops'[n + 1] = op
      /\ \A i \in 1..n : ops'[i] = ops[i]
      /\ \A id : Concerns(n + 1, id)' <=> id_counter = id.id
      /\ \A id : Called(id)' <=> Called(id)
  BY <1>1, <1>6, <1>7, OneCallMore DEF CallsAreKnown
<1>9. CallsAreKnown'
  <2>1. PICK S : S = {i \in DOMAIN ops : Creates(i)}
    OBVIOUS
  <2>2. {i \in DOMAIN ops' : Creates(i)'} = S \cup {n + 1}
    BY <1>8, <2>1 DEF Creates
  <2>3. IsFiniteSet(S) /\ n + 1 \notin S
    <3>1. S \in SUBSET (1..n) /\ IsFiniteSet(1..n)
      BY <1>8, <2>1, FS_Interval
    <3>2. IsFiniteSet(S)
      BY <3>1, FS_Subset
    <3>3. n + 1 \notin 1..n
      BY <1>8
    <3> QED BY <3>1, <3>2, <3>3
  <2>4. Cardinality(S \cup {n + 1}) = Cardinality(S) + 1 /\ Cardinality(S) \in Nat
    BY <2>3, FS_AddElement, FS_CardinalityType
  <2>5. view[1] \in Nat /\ id_counter = view[1] + Cardinality(S)
    BY <2>1 DEF CallsAreKnown
  <2>6. id_counter' = view'[1] + Cardinality({i \in DOMAIN ops' : Creates(i)'}) /\ view'[1] \in Nat
    <3>1. PICK c : c = Cardinality(S)
      OBVIOUS
    <3>2. PICK v : v = view[1]
      OBVIOUS
    <3>3. v \in Nat /\ c \in Nat /\ id_counter = v + c
      BY <2>4, <2>5, <3>1, <3>2
    <3>4. id_counter + 1 = v + (c + 1)
      BY <3>3
    <3>5. view'[1] = v /\ Cardinality({i \in DOMAIN ops' : Creates(i)'}) = c + 1
      BY <2>2, <2>4, <3>1, <3>2
    <3> QED BY <1>4, <3>3, <3>4, <3>5
  <2>7. ASSUME NEW id \in DOMAIN state_machines' \ {COMPLETION_ID}
        PROVE  /\ StateOf(id)' = "CANCELED_AFTER_RECORDED" => Called(id)'
               /\ StateOf(id)' = "RECORDED" => ~Called(id)'
    <3>1. CASE id = x
      BY <1>5, <3>1 DEF StateOf, Machine
    <3>2. CASE id # x
      <4>1. id \in DOMAIN state_machines \ {COMPLETION_ID} /\ StateOf(id)' = StateOf(id)
        BY <1>5, <2>7, <3>2 DEF StateOf
      <4> QED BY <1>8, <4>1 DEF CallsAreKnown
    <3> QED BY <3>1, <3>2
  <2> QED BY <1>8, <2>6, <2>7 DEF CallsAreKnown
<1>10. PICK m : m = Len(order)
  OBVIOUS
<1>11. m \in Nat /\ DOMAIN order = 1..m /\ \A i \in 1..m : order[i] \in DOMAIN state_machines
  BY <1>10, LenProperties DEF IInv, ManagerInv, MachinesInv, OrderIsKeys
<1>12. DOMAIN order' = 1..(m + 1) /\ order'[m + 1] = x /\ \A i \in 1..m : order'[i] = order[i]
  <2>1. IsSeq(order)
    BY DEF IInv, ManagerInv, MachinesInv, IsSeq
  <2>2. /\ IsSeq(Append(order, x)) /\ DOMAIN Append(order, x) = 1..(m + 1) /\ Append(order, x)[m + 1] = x
        /\ \A i \in 1..m : Append(order, x)[i] = order[i]
    BY <1>10, <2>1, AppendPositions
  <2> QED BY <1>5, <2>2
<1>13. ASSUME NEW a \in DOMAIN order', NEW b \in DOMAIN order',
              a < b, order'[a] # COMPLETION_ID, order'[b] # COMPLETION_ID,
              ~Silent(order[a])', ~Silent(order[b])'
       PROVE  /\ ~Concerns(n + 1, order[a])'
              /\ \/ Concerns(n + 1, order[b])'
                 \/ \E c, d \in DOMAIN order :
                        /\ c < d /\ order[c] = order'[a] /\ order[d] = order'[b]
                        /\ ~Silent(order[c]) /\ ~Silent(order[d])
  <2>1. a \in 1..m /\ (b \in 1..m \/ b = m + 1)
    BY <1>11, <1>12, <1>13
  <2>2. order'[a] = order[a] /\ order[a] \in DOMAIN state_machines
    BY <1>11, <1>12, <2>1
  <2>3. order[a].id < id_counter /\ order[a].id \in Nat /\ id_counter \in Nat
    BY <1>13, <2>2, KeysAreIds DEF IInv, ManagerInv, MachinesInv, FreshIds
  <2>4. ~Concerns(n + 1, order[a])'
    BY <1>8, <2>2, <2>3
  <2>5. CASE b = m + 1
    BY <1>3, <1>8, <1>12, <2>4, <2>5
  <2>6. CASE b \in 1..m
    <3>1. order'[b] = order[b] /\ order[b] \in DOMAIN state_machines
      BY <1>11, <1>12, <2>6
    <3>2. ~Silent(order[a]) /\ ~Silent(order[b])
      BY <1>5, <1>13, <2>2, <3>1 DEF Silent, StateOf
    <3>3. a \in DOMAIN order /\ b \in DOMAIN order
      BY <1>11, <2>1, <2>6
    <3> QED BY <1>13, <2>2, <2>4, <3>1, <3>2, <3>3
  <2> QED BY <2>1, <2>5, <2>6
<1>14. OrderedCalls'
  BY <1>1, <1>7, <1>13, CallKeepsOrder
<1> QED BY <1>9, <1>14

\* What is moved to the end is at the end, and only there.
LEMMA MovedIsLast ==
    ASSUME NEW S, NEW s \in Seq(S), NEW x, x \in {s[i] : i \in DOMAIN s}, NEW t, t = MoveToEnd(s, x),
           \A i, j \in DOMAIN s : s[i] = s[j] => i = j
    PROVE  /\ DOMAIN t = 1..Len(s) /\ t[Len(s)] = x
           /\ \A i \in DOMAIN t : t[i] = x => i = Len(s)
<1>1. PICK at : at = CHOOSE i \in DOMAIN s : s[i] = x
  OBVIOUS
<1>2. PICK n : n = Len(s)
  OBVIOUS
<1>3. n \in Nat /\ DOMAIN s = 1..n
  BY <1>2, LenProperties
<1>4. at \in 1..n
  BY <1>1, <1>3
<1>5. t = [i \in 1..n |-> IF i < at THEN s[i] ELSE IF i < n THEN s[i + 1] ELSE x]
  BY <1>1, <1>2, <1>3 DEF MoveToEnd
<1>6. n \in 1..n /\ ~(n < at)
  BY <1>3, <1>4
<1>7. t[n] = x
  BY <1>5, <1>6
<1>8. \A i, j \in DOMAIN t : t[i] = t[j] => i = j
  <2>1. LET u == MoveToEnd(s, x)
        IN  /\ u \in Seq(S)
            /\ \A i, j \in DOMAIN u : u[i] = u[j] => i = j
            /\ {u[i] : i \in DOMAIN u} = {s[i] : i \in DOMAIN s}
    BY MoveToEndPermutes
  <2> QED BY <2>1
<1> QED BY <1>2, <1>5, <1>6, <1>7, <1>8

\* A cancellation is the first and last word on the machine it moves; one that
\* is refused is not the first.
LEMMA CancelsInOrder ==
    ASSUME IInv, CallsAreKnown, OrderedCalls, StatesAgree(Applied), task # "FatalDecisionError",
           ~ImmediateCancel, NEW id, NEW op, op = << "cancel", id >>, ops' = Append(ops, op), view' = view,
           request_cancel(id), StateOf(id) # "REQUESTED", raised' = "none"
    PROVE  CallsAreKnown' /\ OrderedCalls'
<1>1. PICK n : n = Len(ops)
  OBVIOUS
<1>2. IsSeq(ops) /\ op[1] = "cancel"
  BY DEF CallsAreKnown
<1>3. /\ n \in Nat /\ DOMAIN ops = 1..n
      /\ IsSeq(ops)' /\ DOMAIN ops' = 1..(n + 1) /\ ops'[n + 1] = op
      /\ \A i \in 1..n : ops'[i] = ops[i]
      /\ \A x : Concerns(n + 1, x)' <=> x = id /\ ~Called(id)
      /\ \A x : Called(x)' <=> Called(x) \/ x = id
  <2>1. \A x : op = << "cancel", x >> <=> x = id
    OBVIOUS
  <2> QED BY ZenonT(40), <1>1, <1>2, <2>1, OneCallMore
<1>4. id_counter' = view'[1] + Cardinality({i \in DOMAIN ops' : Creates(i)'}) /\ view'[1] \in Nat
  <2>1. ~Creates(n + 1)' /\ \A i \in 1..n : Creates(i)' <=> Creates(i)
    BY <1>2, <1>3 DEF Creates
  <2>2. \A i \in 1..(n + 1) : i \in 1..n \/ i = n + 1
    BY <1>3
  <2>3. \A i \in 1..n : i \in 1..(n + 1)
    BY <1>3
  <2>4. {i \in DOMAIN ops' : Creates(i)'} = {i \in DOMAIN ops : Creates(i)}
    BY <1>3, <2>1, <2>2, <2>3
  <2>5. id_counter' = id_counter
    BY DEF request_cancel
  <2> QED BY <2>4, <2>5 DEF CallsAreKnown
<1>5. id \in DOMAIN state_machines /\ id # COMPLETION_ID
  BY DEF request_cancel
<1>6. CASE Cancellable(state_machines[id])
  <2>1. StateOf(id) = "RECORDED"
    BY <1>6 DEF Cancellable, StateOf
  <2>2. ~Called(id)
    BY <1>5, <2>1 DEF CallsAreKnown
  <2>3. /\ state_machines' = [state_machines EXCEPT ![id] = CancelRequested(id.type, @)]
        /\ order' = MoveToEnd(order, id)
    BY <1>6 DEF request_cancel, Reject
  <2>4. /\ DOMAIN state_machines' = DOMAIN state_machines
        /\ \A x \in DOMAIN state_machines \ {id} : state_machines'[x] = state_machines[x]
        /\ StateOf(id)' = "CANCELED_AFTER_RECORDED"
    <3>1. MachineOK(state_machines[id])
      BY <1>5 DEF IInv, ManagerInv, MachinesInv
    <3>2. CancelRequested(id.type, state_machines[id]).state = "CANCELED_AFTER_RECORDED"
      BY <2>1, <3>1 DEF CancelRequested, MachineOK, StateOf
    <3> QED BY <1>5, <2>3, <3>2 DEF StateOf
  <2>5. CallsAreKnown'
    <3>1. ASSUME NEW x \in DOMAIN state_machines' \ {COMPLETION_ID}
          PROVE  /\ StateOf(x)' = "CANCELED_AFTER_RECORDED" => Called(x)'
                 /\ StateOf(x)' = "RECORDED" => ~Called(x)'
      <4>1. CASE x = id
        BY <1>3, <2>4, <4>1
      <4>2. CASE x # id
        <5>1. x \in DOMAIN state_machines \ {COMPLETION_ID} /\ StateOf(x)' = StateOf(x)
          BY <2>4, <3>1, <4>2 DEF StateOf
        <5> QED BY <1>3, <4>2, <5>1 DEF CallsAreKnown
      <4> QED BY <4>1, <4>2
    <3> QED BY <1>3, <1>4, <3>1 DEF CallsAreKnown
  <2>6. /\ order \in Seq(DecisionIds) /\ id \in {order[i] : i \in DOMAIN order}
        /\ \A i, j \in DOMAIN order : order[i] = order[j] => i = j
    BY <1>5 DEF IInv, ManagerInv, MachinesInv, OrderIsKeys
  <2>7. PICK m : m = Len(order)
    OBVIOUS
  <2>8. /\ m \in Nat /\ DOMAIN order' = 1..m
        /\ \A i \in DOMAIN order' : order'[i] = id => i = m
    BY <2>3, <2>6, <2>7, MovedIsLast, LenProperties
  <2>9. ASSUME NEW a \in DOMAIN order', NEW b \in DOMAIN order',
               a < b, order'[a] # COMPLETION_ID, order'[b] # COMPLETION_ID,
               ~Silent(order[a])', ~Silent(order[b])'
        PROVE  /\ ~Concerns(n + 1, order[a])'
               /\ \/ Concerns(n + 1, order[b])'
                  \/ \E c, d \in DOMAIN order :
                         /\ c < d /\ order[c] = order'[a] /\ order[d] = order'[b]
                         /\ ~Silent(order[c]) /\ ~Silent(order[d])
    <3>1. a # m
      BY <2>8, <2>9
    <3>2. order'[a] # id
      BY <2>8, <3>1
    <3>3. ~Concerns(n + 1, order[a])'
      BY <1>3, <3>2
    <3>4. CASE order'[b] = id
      BY <1>3, <2>2, <3>3, <3>4
    <3>5. CASE order'[b] # id
      <4>1. PICK c, d \in DOMAIN order : c < d /\ order[c] = order'[a] /\ order[d] = order'[b]
        BY <2>3, <2>6, <2>9, <3>2, <3>5, OthersKeepTheirOrder
      <4>2. order[c] \in DOMAIN state_machines /\ order[d] \in DOMAIN state_machines
        BY DEF IInv, ManagerInv, MachinesInv, OrderIsKeys
      <4>3. ~Silent(order[c]) /\ ~Silent(order[d])
        BY <2>4, <2>9, <3>2, <3>5, <4>1, <4>2 DEF Silent, StateOf
      <4> QED BY <3>3, <4>1, <4>3
    <3> QED BY <3>4, <3>5
  <2>10. OrderedCalls'
    BY <1>1, <1>2, <2>9, CallKeepsOrder
  <2> QED BY <2>5, <2>10
<1>7. CASE ~Cancellable(state_machines[id])
  <2>1. UNCHANGED << state_machines, order >>
    BY <1>7 DEF request_cancel
  <2>2. StateOf(id) # "RECORDED" /\ StateOf(id) # "REQUESTED"
    BY <1>7 DEF Cancellable, StateOf
  <2>3. StateOf(id) # "CANCELED_AFTER_REQUESTED"
    BY <1>5 DEF StatesAgree
  <2>4. ~Silent(id) => Called(id)
    BY <1>5, <2>2, <2>3 DEF Silent, CallsAreKnown
  <2>5. CallsAreKnown'
    <3>1. ASSUME NEW x \in DOMAIN state_machines' \ {COMPLETION_ID}
          PROVE  /\ StateOf(x)' = "CANCELED_AFTER_RECORDED" => Called(x)'
                 /\ StateOf(x)' = "RECORDED" => ~Called(x)'
      <4>1. x \in DOMAIN state_machines \ {COMPLETION_ID} /\ StateOf(x)' = StateOf(x)
        BY <2>1, <3>1 DEF StateOf
      <4> QED BY <1>3, <2>2, <4>1 DEF CallsAreKnown
    <3> QED BY <1>3, <1>4, <3>1 DEF CallsAreKnown
  <2>6. ASSUME NEW a \in DOMAIN order', NEW b \in DOMAIN order',
               a < b, order'[a] # COMPLETION_ID, order'[b] # COMPLETION_ID,
               ~Silent(order[a])', ~Silent(order[b])'
        PROVE  /\ ~Concerns(n + 1, order[a])'
               /\ \/ Concerns(n + 1, order[b])'
                  \/ \E c, d \in DOMAIN order :
                         /\ c < d /\ order[c] = order'[a] /\ order[d] = order'[b]
                         /\ ~Silent(order[c]) /\ ~Silent(order[d])
    <3>1. ~Silent(order[a]) /\ ~Silent(order[b])
      BY <2>1, <2>6 DEF Silent, StateOf
    <3>2. ~Concerns(n + 1, order[a])'
      BY <1>3, <2>1, <2>4, <3>1
    <3> QED BY <2>1, <2>6, <3>1, <3>2
  <2>7. OrderedCalls'
    BY <1>1, <1>2, <2>6, CallKeepsOrder
  <2> QED BY <2>5, <2>7
<1> QED BY <1>6, <1>7

\* What concerns a machine is told by the calls and the number they began at.
LEMMA SameCalls ==
    ASSUME ops' = ops, view' = view
    PROVE  \A j, id : Concerns(j, id)' <=> Concerns(j, id)
BY DEF Concerns, Creates, CreatedBy

\* The calls of the workflow, as long as none is rejected.
LEMMA WorkflowKeepsCallOrder ==
    ASSUME ~ImmediateCancel, IInv, EngineStateInv, CallOrderInv, LetThrough', WorkflowNext
    PROVE  CallOrderInv'
<1>1. ASSUME NEW op, Calls(op)
      PROVE  /\ phase = "run" /\ phase' = "run" /\ task = "running"
             /\ ops' = Append(ops, op) /\ view' = view /\ batch' = batch
  BY <1>1 DEF Calls
<1>2. \/ phase = "run" /\ phase' = "run" /\ UNCHANGED batch
      \/ Yield
  <2>1. ASSUME NEW id, AutomaticCancel(id) PROVE phase = "run" /\ phase' = "run" /\ UNCHANGED batch
    BY <2>1 DEF AutomaticCancel, engineVars
  <2>2. ASSUME RejectionUnwinds PROVE phase = "run" /\ phase' = "run" /\ UNCHANGED batch
    BY <2>2 DEF RejectionUnwinds
  <2> QED BY <1>1, <2>1, <2>2 DEF WorkflowNext, ExecuteActivity, StartTimer, CancelFuture, Return,
                                  continue_as_new, Ends
<1>3. CASE Yield
  <2>1. phase = "run" /\ phase' = "complete" /\ UNCHANGED << managerVars, batch, task, ops, view >>
    BY <1>3 DEF Yield, userVars
  <2>2. OrderedCalls' <=> OrderedCalls
    <3>1. \A j, id : Concerns(j, id)' <=> Concerns(j, id)
      BY <2>1, SameCalls
    <3> QED BY <2>1, <3>1 DEF OrderedCalls, Silent, StateOf, managerVars
  <2> QED BY <2>1, <2>2 DEF CallOrderInv, Live, DecisionsInCallOrder
<1>4. SUFFICES ASSUME ~Yield, Live' PROVE CallsAreKnown' /\ OrderedCalls'
  BY <1>2, <1>3 DEF CallOrderInv, DecisionsInCallOrder
<1>5. task' # "FatalDecisionError" /\ batch' = batch /\ phase = "run"
  BY <1>2, <1>4 DEF Live
<1>6. ASSUME task = "running" PROVE CallsAreKnown /\ OrderedCalls /\ StatesAgree(Applied)
  BY <1>4, <1>5, <1>6 DEF CallOrderInv, Live, EngineStateInv, AgreeInv, Agree, EnginePhases
<1>7. ASSUME NEW type \in {"ACTIVITY", "TIMER"}, NEW props, NEW request, NEW op, Calls(op),
             op[1] \in {"execute_activity", "start_timer"}, Request(type, props, request), Raises
      PROVE  CallsAreKnown' /\ OrderedCalls'
  <2>1. raised' = "none"
    BY <1>5, <1>7 DEF Raises, LetThrough
  <2> QED BY <1>1, <1>6, <1>7, <2>1, RequestsInOrder
<1>8. ASSUME NEW t \in ActivityTypes, ExecuteActivity(t) PROVE CallsAreKnown' /\ OrderedCalls'
  BY <1>7, <1>8 DEF ExecuteActivity, schedule_activity
<1>9. CASE StartTimer
  BY <1>7, <1>9 DEF StartTimer, start_timer
<1>10. ASSUME NEW id, CancelFuture(id) PROVE CallsAreKnown' /\ OrderedCalls'
  <2>1. /\ Calls(<< "cancel", id >>) /\ request_cancel(id) /\ StateOf(id) # "REQUESTED"
        /\ raised' = "none"
    BY <1>5, <1>10 DEF CancelFuture, Raises, LetThrough, StateOf
  <2>2. task # "FatalDecisionError"
    BY <1>1, <2>1
  <2> QED BY <1>1, <1>6, <2>1, <2>2, CancelsInOrder
<1>11. ASSUME NEW id, AutomaticCancel(id) PROVE FALSE
  BY <1>5, <1>11 DEF AutomaticCancel, engineVars
<1>12. ASSUME NEW outcome, Ends(outcome) PROVE CallsAreKnown' /\ OrderedCalls'
  <2>1. PICK op : op = << "return", outcome >>
    OBVIOUS
  <2>2. op[1] = "return" /\ \A id : op # << "cancel", id >>
    BY <2>1
  <2>3. /\ ops' = Append(ops, op) /\ view' = view /\ UNCHANGED managerVars
        /\ CallsAreKnown /\ OrderedCalls
    BY <1>1, <1>6, <1>12, <2>1 DEF Ends
  <2>4. PICK n : n = Len(ops)
    OBVIOUS
  <2>5. IsSeq(ops)
    BY <2>3 DEF CallsAreKnown
  <2>6. /\ n \in Nat /\ DOMAIN ops = 1..n
        /\ IsSeq(ops)' /\ DOMAIN ops' = 1..(n + 1) /\ ops'[n + 1] = op
        /\ \A i \in 1..n : ops'[i] = ops[i]
        /\ \A x : ~Concerns(n + 1, x)'
        /\ \A x : Called(x)' <=> Called(x)
    BY ZenonT(40), <2>2, <2>3, <2>4, <2>5, OneCallMore
  <2>7. {i \in DOMAIN ops' : Creates(i)'} = {i \in DOMAIN ops : Creates(i)}
    <3>1. ~Creates(n + 1)' /\ \A i \in 1..n : Creates(i)' <=> Creates(i)
      BY <2>2, <2>6 DEF Creates
    <3>2. \A i \in 1..(n + 1) : i \in 1..n \/ i = n + 1
      BY <2>6
    <3>3. \A i \in 1..n : i \in 1..(n + 1)
      BY <2>6
    <3> QED BY <2>6, <3>1, <3>2, <3>3
  <2>8. CallsAreKnown'
    BY <2>3, <2>6, <2>7 DEF CallsAreKnown, managerVars, StateOf
  <2>9. ASSUME NEW a \in DOMAIN order', NEW b \in DOMAIN order',
               a < b, order'[a] # COMPLETION_ID, order'[b] # COMPLETION_ID,
               ~Silent(order[a])', ~Silent(order[b])'
        PROVE  /\ ~Concerns(n + 1, order[a])'
               /\ \/ Concerns(n + 1, order[b])'
                  \/ \E c, d \in DOMAIN order :
                         /\ c < d /\ order[c] = order'[a] /\ order[d] = order'[b]
                         /\ ~Silent(order[c]) /\ ~Silent(order[d])
    <3>1. UNCHANGED << order, state_machines >>
      BY <2>3 DEF managerVars
    <3>2. ~Silent(order[a]) /\ ~Silent(order[b])
      BY <2>9, <3>1 DEF Silent, StateOf
    <3> QED BY <2>6, <2>9, <3>1, <3>2
  <2> QED BY <2>3, <2>4, <2>5, <2>8, <2>9, CallKeepsOrder
<1>13. ASSUME RejectionUnwinds PROVE FALSE
  BY <1>5, <1>13 DEF RejectionUnwinds
<1> QED BY <1>4, <1>8, <1>9, <1>10, <1>11, <1>12, <1>13 DEF WorkflowNext, Return, continue_as_new

\* The answer is in the order the machines are in.
LEMMA AnswersInCallOrder ==
    ASSUME IInv, LastInv, HistoryInv, EngineStateInv, Unwinds, AckInv, CallOrderInv, CollectDecisions
    PROVE  DecisionsInCallOrder'
<1>1. /\ phase = "next" /\ Exhausted(history, pos) /\ decisions' = collect_pending_decisions
      /\ UNCHANGED << ops, view >>
  BY DEF CollectDecisions, userVars
<1>2. task # "FatalDecisionError"
  BY <1>1, NothingIsPending
<1>3. PICK w : CollectedFrom(collect_pending_decisions, Len(order), w)
  BY CollectedInOrder DEF IInv, ManagerInv
<1>4. PICK c : c = collect_pending_decisions
  OBVIOUS
<1>5. PICK m : m = Len(order)
  OBVIOUS
<1>6. /\ m \in Nat /\ DOMAIN order = 1..m /\ \A i \in 1..m : order[i] \in DOMAIN state_machines
      /\ \A i, j \in 1..m : order[i] = order[j] => i = j
  BY <1>5, LenProperties DEF IInv, ManagerInv, MachinesInv, OrderIsKeys
<1>7. /\ w \in [DOMAIN c -> 1..m] /\ \A k \in DOMAIN c : Sends(w[k]) /\ c[k] = SentOf(w[k])
      /\ \A k, l \in DOMAIN c : k < l => w[k] < w[l]
  BY <1>3, <1>4, <1>5 DEF CollectedFrom
<1>8. SUFFICES ASSUME NEW k \in DOMAIN c, NEW l \in DOMAIN c, k < l, ~ClosesWorkflow(c[l])
               PROVE  \E j \in DOMAIN ops : /\ Concerns(j, c[l].id)
                                            /\ \A i \in j..Len(ops) : ~Concerns(i, c[k].id)
  <2>1. \A j, id : Concerns(j, id)' <=> Concerns(j, id)
    BY <1>1, SameCalls
  <2> QED BY <1>1, <1>4, <2>1 DEF DecisionsInCallOrder
<1>9. PICK a \in 1..m : a = w[k]
  BY <1>7
<1>10. PICK b \in 1..m : b = w[l]
  BY <1>7
<1>11. a < b
  BY <1>7, <1>8, <1>9, <1>10
<1>12. /\ Sends(a) /\ c[k] = GetDecision(order[a], state_machines[order[a]])
       /\ Sends(b) /\ c[l] = GetDecision(order[b], state_machines[order[b]])
  BY <1>7, <1>9, <1>10 DEF SentOf
<1>13. c[k].id = order[a] /\ c[l].id = order[b]
  <2>1. phase \in EnginePhases
    BY <1>1 DEF EnginePhases
  <2>2. order[a] \in DOMAIN state_machines /\ order[b] \in DOMAIN state_machines
    BY <1>6
  <2> QED BY <1>12, <2>1, <2>2, StartsAreUnsent
<1>14. order[b] # COMPLETION_ID
  <2>1. ASSUME order[b] = COMPLETION_ID PROVE FALSE
    <3>1. c[l].what = state_machines[COMPLETION_ID].request
      BY <1>12, <2>1 DEF GetDecision, Decision
    <3>2. state_machines[COMPLETION_ID].request \in Outcomes
      BY <1>1, <1>6, <2>1 DEF EngineStateInv, CompletionRequest, EnginePhases
    <3> QED BY <1>8, <3>1, <3>2 DEF ClosesWorkflow
  <2> QED BY <2>1
<1>15. order[a] # COMPLETION_ID
  <2>1. ASSUME order[a] = COMPLETION_ID PROVE FALSE
    <3>1. m # 0 /\ order[m] = COMPLETION_ID
      BY <1>5, <1>6, <2>1 DEF LastInv, CompletionInv
    <3>2. m \in 1..m
      BY <1>6, <3>1
    <3>3. a = m
      BY <1>6, <2>1, <3>1, <3>2
    <3> QED BY <1>6, <1>11, <3>3
  <2> QED BY <2>1
<1>16. ~Silent(order[a]) /\ ~Silent(order[b])
  BY <1>12, <1>14, <1>15 DEF Sends, HasDecision, Silent, StateOf
<1>17. ~batch.replay
  BY <1>1, <1>6, <1>14, <1>16 DEF AckInv, Unwinds, Settled
<1>18. OrderedCalls
  BY <1>1, <1>2, <1>17 DEF CallOrderInv, Live
<1>19. a \in DOMAIN order /\ b \in DOMAIN order
  BY <1>6
<1> QED BY <1>11, <1>13, <1>14, <1>15, <1>16, <1>18, <1>19 DEF OrderedCalls

\* A run starts with every machine settled; its end leaves the machines where
\* they are; and nothing that was just decided is recorded yet.
LEMMA EngineKeepsCallOrder ==
    ASSUME Deterministic, IInv, LastInv, HistoryInv, EngineStateInv, Unwinds, AckInv, CallOrderInv, EngineNext
    PROVE  CallOrderInv'
<1>1. CASE NextDecisionEvents
  <2>1. phase' \in {"input", "failed"}
    BY <1>1 DEF NextDecisionEvents, Continue
  <2> QED BY <2>1 DEF CallOrderInv, DecisionsInCallOrder
<1>2. CASE CollectDecisions
  <2>1. phase' = "respond"
    BY <1>2 DEF CollectDecisions
  <2> QED BY <1>2, <2>1, AnswersInCallOrder DEF CallOrderInv
<1>3. CASE ApplyInputEvent
  <2>1. phase' \in {"input", "failed"}
    BY <1>3 DEF ApplyInputEvent, Continue
  <2> QED BY <2>1 DEF CallOrderInv, DecisionsInCallOrder
<1>4. CASE StartRun
  <2>1. /\ phase = "input" /\ phase' = "run" /\ ops' = << >> /\ UNCHANGED << managerVars >>
        /\ view' = << id_counter, order, state_machines, task >>
    BY <1>4 DEF StartRun
  <2>2. \A id \in DOMAIN state_machines \ {COMPLETION_ID} : Silent(id)
    BY <2>1 DEF AckInv, Unwinds, Settled
  <2>3. \A i \in DOMAIN order : order[i] \in DOMAIN state_machines
    BY DEF IInv, ManagerInv, MachinesInv, OrderIsKeys
  <2>4. OrderedCalls'
    BY <2>1, <2>2, <2>3 DEF OrderedCalls, Silent, StateOf, managerVars
  <2>5. IsSeq(ops') /\ DOMAIN ops' = {}
    BY <2>1, EmptyIsSeq
  <2>6. id_counter' \in Nat /\ view'[1] = id_counter'
    BY <2>1 DEF IInv, ManagerInv, MachinesInv, managerVars
  <2>7. Cardinality({i \in DOMAIN ops' : Creates(i)'}) = 0
    <3>1. {i \in DOMAIN ops' : Creates(i)'} = {}
      BY <2>5
    <3> QED BY <3>1, FS_EmptySet
  <2>8. id_counter' = view'[1] + Cardinality({i \in DOMAIN ops' : Creates(i)'})
    <3>1. PICK n \in Nat : n = id_counter'
      BY <2>6
    <3>2. \A i \in Nat : i = i + 0
      OBVIOUS
    <3> QED BY <2>6, <2>7, <3>1, <3>2
  <2>9. \A id : ~Called(id)'
    BY <2>5 DEF Called
  <2>10. \A id \in DOMAIN state_machines' \ {COMPLETION_ID} : StateOf(id)' # "CANCELED_AFTER_RECORDED"
    BY <2>1, <2>2 DEF Silent, StateOf, managerVars
  <2>11. CallsAreKnown'
    BY <2>5, <2>6, <2>8, <2>9, <2>10 DEF CallsAreKnown, IsSeq
  <2> QED BY <2>1, <2>4, <2>11 DEF CallOrderInv, DecisionsInCallOrder
<1>5. CASE MaybeCompleteWorkflow
  <2>1. phase = "complete" /\ phase' \in {"end", "failed"} /\ UNCHANGED << batch, task, ops, view >>
    BY <1>5 DEF MaybeCompleteWorkflow, Continue, userVars
  <2>2. SUFFICES ASSUME phase' = "end", Live' PROVE OrderedCalls'
    BY <2>1 DEF CallOrderInv, DecisionsInCallOrder
  <2>3. OrderedCalls
    BY <2>1, <2>2 DEF CallOrderInv, Live
  <2>4. CASE UNCHANGED managerVars
    <3>1. \A j, id : Concerns(j, id)' <=> Concerns(j, id)
      BY <2>1, SameCalls
    <3> QED BY <2>1, <2>3, <2>4, <3>1 DEF OrderedCalls, Silent, StateOf, managerVars
  <2>5. CASE complete_workflow(task) /\ raised' = "none"
    <3>1. /\ order' = Append(order, COMPLETION_ID)
          /\ COMPLETION_ID \notin DOMAIN state_machines
          /\ \A id \in DOMAIN state_machines : state_machines'[id] = state_machines[id]
      BY <2>5 DEF complete_workflow, Add, Reject
    <3>2. PICK m : m = Len(order)
      OBVIOUS
    <3>3. m \in Nat /\ DOMAIN order = 1..m /\ \A i \in 1..m : order[i] \in DOMAIN state_machines
      BY <3>2, LenProperties DEF IInv, ManagerInv, MachinesInv, OrderIsKeys
    <3>4. DOMAIN order' = 1..(m + 1) /\ order'[m + 1] = COMPLETION_ID /\ \A i \in 1..m : order'[i] = order[i]
      <4>1. IsSeq(order)
        BY DEF IInv, ManagerInv, MachinesInv, IsSeq
      <4>2. PICK x : x = COMPLETION_ID
        OBVIOUS
      <4>3. /\ IsSeq(Append(order, x)) /\ DOMAIN Append(order, x) = 1..(m + 1) /\ Append(order, x)[m + 1] = x
            /\ \A i \in 1..m : Append(order, x)[i] = order[i]
        BY <3>2, <4>1, AppendPositions
      <4> QED BY <3>1, <4>2, <4>3
    <3>5. SUFFICES ASSUME NEW a \in DOMAIN order', NEW b \in DOMAIN order', a < b,
                          order'[a] # COMPLETION_ID, order'[b] # COMPLETION_ID,
                          ~Silent(order[a])', ~Silent(order[b])'
                   PROVE  \E j \in DOMAIN ops : /\ Concerns(j, order'[b])
                                                /\ \A i \in j..Len(ops) : ~Concerns(i, order'[a])
      <4>1. \A j, id : Concerns(j, id)' <=> Concerns(j, id)
        BY <2>1, SameCalls
      <4> QED BY <2>1, <4>1 DEF OrderedCalls
    <3>6. a \in 1..m /\ b \in 1..m
      BY <3>3, <3>4, <3>5
    <3>7. order'[a] = order[a] /\ order'[b] = order[b]
      BY <3>4, <3>6
    <3>8. ~Silent(order[a]) /\ ~Silent(order[b])
      BY <3>1, <3>3, <3>5, <3>6, <3>7 DEF Silent, StateOf
    <3> QED BY <2>3, <3>3, <3>5, <3>6, <3>7, <3>8 DEF OrderedCalls
  <2> QED BY <1>5, <2>2, <2>4, <2>5 DEF MaybeCompleteWorkflow, Continue
<1>6. CASE EndExecution \/ FinishBatch
  <2>1. /\ phase \in {"end", "output"} /\ phase' \in {"output", "failed", "next"}
        /\ UNCHANGED << batch, task, ops, view, order, state_machines >>
    BY <1>6 DEF EndExecution, FinishBatch, end_execution, Continue, userVars, managerVars
  <2>2. OrderedCalls' <=> OrderedCalls
    <3>1. \A j, id : Concerns(j, id)' <=> Concerns(j, id)
      BY <2>1, SameCalls
    <3> QED BY <2>1, <3>1 DEF OrderedCalls, Silent, StateOf
  <2> QED BY <2>1, <2>2 DEF CallOrderInv, DecisionsInCallOrder, Live
<1>7. CASE ApplyOutputEvent
  <2>1. phase = "output" /\ todo # << >> /\ phase' \in {"output", "failed"} /\ UNCHANGED batch
    BY <1>7 DEF ApplyOutputEvent, Continue
  <2>2. IsSeq(todo) /\ IsSeq(batch.output) /\ Len(todo) <= Len(batch.output)
    BY <2>1 DEF EngineStateInv, PlaceInv, BatchInv, TodoInv, InBatch, EnginePhases
  <2>3. batch.output # << >>
    <3>1. PICK k : k = Len(todo)
      OBVIOUS
    <3>2. PICK l : l = Len(batch.output)
      OBVIOUS
    <3>3. k \in Nat /\ l \in Nat /\ k <= l
      BY <2>2, <3>1, <3>2, LenProperties DEF IsSeq
    <3>4. k # 0
      BY <2>1, <2>2, <3>1, EmptySeq DEF IsSeq
    <3>5. l # 0
      BY <3>3, <3>4
    <3> QED BY <3>2, <3>5, EmptySeq
  <2>4. batch.replay
    BY <2>1, <2>3 DEF EngineStateInv, PlaceInv, BatchInv, InBatch, EnginePhases
  <2> QED BY <2>1, <2>4 DEF CallOrderInv, DecisionsInCallOrder, Live
<1> QED BY <1>1, <1>2, <1>3, <1>4, <1>5, <1>6, <1>7 DEF EngineNext

\* The service hands out tasks to engines without machines, and leaves the
\* answer alone until it takes it.
LEMMA ServiceKeepsCallOrder ==
    ASSUME IInv, EngineStateInv, CallOrderInv, ServiceNext
    PROVE  CallOrderInv'
<1>1. phase' = "respond" => UNCHANGED << phase, decisions, ops, view >>
  <2>1. ASSUME NEW events, Arrive(events) PROVE UNCHANGED << phase, decisions, ops, view >>
    BY <2>1 DEF Arrive, engineVars, userVars
  <2>2. ASSUME NEW type, Unsuccessfully(type) PROVE phase' # "respond"
    BY <2>2 DEF Unsuccessfully, DropEngine
  <2> QED BY <2>1, <2>2 DEF ServiceNext, ActivityCloses, TimerFires, SignalArrives, PollDecisionTask,
                            DecisionTaskTimesOut, RespondDecisionTaskFailed, RespondDecisionTaskCompleted,
                            RecordDecision, FinishDecisionTask, DropEngine, engineVars, userVars
<1>2. DecisionsInCallOrder'
  <2>1. SUFFICES ASSUME phase' = "respond" PROVE DecisionsInCallOrder'
    BY DEF DecisionsInCallOrder
  <2>2. \A j, id : Concerns(j, id)' <=> Concerns(j, id)
    BY <1>1, <2>1, SameCalls
  <2>3. DecisionsInCallOrder
    BY DEF CallOrderInv
  <2> QED BY <1>1, <2>1, <2>2, <2>3 DEF DecisionsInCallOrder
<1>3. CASE PollDecisionTask
  <2>1. phase = "idle" /\ phase' = "next" /\ UNCHANGED << order >>
    BY <1>3 DEF PollDecisionTask, managerVars
  <2>2. DOMAIN state_machines = {}
    BY <2>1 DEF EngineStateInv, IdleInv
  <2>3. DOMAIN order = {}
    BY <2>2 DEF IInv, ManagerInv, MachinesInv, OrderIsKeys
  <2>4. OrderedCalls'
    BY <2>1, <2>3 DEF OrderedCalls
  <2> QED BY <1>2, <2>1, <2>4 DEF CallOrderInv
<1>4. CASE ~PollDecisionTask
  <2>1. phase' \notin EnginePhases
    BY <1>4, ServiceLeavesTheEngine
  <2> QED BY <1>2, <2>1 DEF CallOrderInv, EnginePhases
<1> QED BY <1>3, <1>4

\* Of two decisions of an answer, the one the workflow's last word on came
\* first is sent first: whatever was replayed before, however the calls are
\* mixed, and although a cancellation moves a machine.  A workflow that
\* cancels its own requests is left out: its cancellation sends a marker
\* in the place of the call.  (WorkflowCalls_proofs shows that it lets every
\* rejection through, as it meets none.)
LEMMA CallOrderIsKept ==
    ASSUME Deterministic, ~ImmediateCancel
    PROVE  Spec => [](LetThrough => DecisionsInCallOrder)
<1>1. Init => CallOrderInv
  BY DEF Init, CallOrderInv, DecisionsInCallOrder
<1>2. IInv /\ ReplayInv /\ Unwinds /\ AckInv /\ CallOrderInv /\ LetThrough' /\ [Next]_vars => CallOrderInv'
  <2> SUFFICES ASSUME IInv, ReplayInv, Unwinds, AckInv, CallOrderInv, LetThrough', [Next]_vars
               PROVE  CallOrderInv'
    OBVIOUS
  <2>1. LastInv /\ HistoryInv /\ EngineStateInv
    BY DEF ReplayInv
  <2>2. CASE UNCHANGED vars
    <3>1. \A j, id : Concerns(j, id)' <=> Concerns(j, id)
      BY <2>2, SameCalls DEF vars, userVars
    <3>2. UNCHANGED << phase, task, batch, order, state_machines, id_counter, ops, view, decisions >>
      BY <2>2 DEF vars, managerVars, serviceVars, engineVars, userVars
    <3>3. OrderedCalls' <=> OrderedCalls
      BY <3>1, <3>2 DEF OrderedCalls, Silent, StateOf
    <3>4. DecisionsInCallOrder' <=> DecisionsInCallOrder
      BY <3>1, <3>2 DEF DecisionsInCallOrder
    <3>5. CallsAreKnown' <=> CallsAreKnown
      BY <3>2 DEF CallsAreKnown, Called, Creates, StateOf
    <3> QED BY <3>2, <3>3, <3>4, <3>5 DEF CallOrderInv, Live
  <2> QED BY <2>1, <2>2, EngineKeepsCallOrder, WorkflowKeepsCallOrder, ServiceKeepsCallOrder DEF Next
<1>3. CallOrderInv => DecisionsInCallOrder
  BY DEF CallOrderInv
<1> QED BY <1>1, <1>2, <1>3, Invariance, ReplayIsSound, RejectionsUnwind, ReplayAcknowledges,
           OutlivedStays, PTL DEF Spec

-----------------------------------------------------------------------------
(* What the tracker accepts                                                *)

\* The properties of a request, of a decision and of the event that records it
\* are those its kind has.
RequestProps(type, props) ==
    /\ type = "ACTIVITY" => \E t \in ActivityTypes : props = ActivityProps(t)
    /\ type = "TIMER" => props = TimerProps

\* Those of a decision.
DecisionProps(d) ==
    /\ d.what = "ScheduleActivityTask" => RequestProps("ACTIVITY", d.props)
    /\ d.what = "StartTimer" => RequestProps("TIMER", d.props)
    /\ d.what \in {"CancelTimer", "RequestCancelActivityTask"} => d.props = CANCEL

\* Those of an event.
EventProps(e) ==
    /\ e.type = "ActivityTaskScheduled" => RequestProps("ACTIVITY", e.props)
    /\ e.type = "TimerStarted" => RequestProps("TIMER", e.props)
    /\ e.type \in AskTypes => e.props = CANCEL

\* Those the machines were requested with.
MachineProps ==
    \A id \in DOMAIN state_machines : RequestProps(id.type, state_machines[id].props)

\* All three.
PropsInv ==
    /\ MachineProps
    /\ \A k \in DOMAIN decisions : DecisionProps(decisions[k])
    /\ \A i \in DOMAIN history : EventProps(history[i])

\* The phases between the opening and the end of the tracking.
TrackedPhases == {"input", "run", "complete", "end"}

\* The output events of the batch, and those the tracker has an entry of.
OutEvent(k) == history[batch.output[k]]
Asked(k) == upcomingFor(OutEvent(k)) # << >>

\* In a batch the tracker has one entry for every output event, with what the
\* event expects or nothing any more.
EntriesInv ==
    /\ phase \in {"next", "output"} => expectations = << >>
    /\ phase \in TrackedPhases =>
           /\ DOMAIN expectations = DOMAIN batch.output
           /\ \A k \in DOMAIN batch.output :
                  /\ expectations[k].id = OutEvent(k).id
                  /\ expectations[k].upcoming \in {<< >>, upcomingFor(OutEvent(k))}
           /\ \A j, k \in DOMAIN batch.output :
                  Asked(j) /\ Asked(k) /\ OutEvent(j).id = OutEvent(k).id => j = k

\* The workflow did what the event asks for, and its machine would send the
\* decision the event records.
Met(k) == Asked(k) /\ expectations[k].upcoming = << >>

\* The machine of an output event would send what the event records.
Tells(k) ==
    LET e == OutEvent(k)
        d == GetDecision(e.id, state_machines[e.id])
    IN  /\ e.id \in DOMAIN state_machines \ {COMPLETION_ID}
        /\ ~Silent(e.id)
        /\ e.type \in RecordedAs(d)
        /\ e.id = d.id
        /\ e.props = d.props

\* What was asked for is met from the first on; what is met is what there is to
\* send, and the machines are in the order of the events.
InTurn == \A j, k \in DOMAIN batch.output : j < k /\ Asked(j) /\ Met(k) => Met(j)

\* What is met is what the machines would send.
AllTold == \A k \in DOMAIN batch.output : Met(k) => Tells(k)

\* What they would send is met.
NothingElse ==
    \A id \in DOMAIN state_machines \ {COMPLETION_ID} :
        Silent(id) \/ \E k \in DOMAIN batch.output : Met(k) /\ OutEvent(k).id = id

\* They would send it in the order of the events.
OrderedAsMet ==
    \A a, b \in DOMAIN order, j, k \in DOMAIN batch.output :
        /\ a < b
        /\ Met(j) /\ order[a] = OutEvent(j).id
        /\ Met(k) /\ order[b] = OutEvent(k).id
        => j < k

\* The tracker follows the calls of a batch and has rejected none.
Tracked == phase \in TrackedPhases /\ batch.replay /\ task # "FatalDecisionError"

\* What it has accepted so far.
TrackInv == Tracked => InTurn /\ AllTold /\ NothingElse /\ OrderedAsMet

\* Who counts a set in ascending order counts it as Ascending does.
LEMMA AscendingIsUnique ==
    ASSUME NEW S, S \subseteq Nat, IsFiniteSet(S), NEW n \in Nat, NEW f \in [1..n -> S],
           \A k, l \in 1..n : k < l => f[k] < f[l],
           \A i \in S : \E k \in 1..n : f[k] = i
    PROVE  DOMAIN Ascending(S) = 1..n /\ \A k \in 1..n : Ascending(S)[k] = f[k]
<1>1. \A k \in 1..n : f[k] \in S /\ f[k] \in Nat
  OBVIOUS
<1>2. \A k, l \in 1..n : f[k] = f[l] => k = l
  BY <1>1
<1>3. ASSUME NEW m \in 0..n, NEW T, T = {f[k] : k \in 1..m}
      PROVE  Cardinality(T) = m
  <2>2. 1..m \subseteq 1..n
    OBVIOUS
  <2>3. PICK g : g = [k \in 1..m |-> f[k]]
    OBVIOUS
  <2>4. g \in Bijection(1..m, T)
    <3>1. g \in [1..m -> T] /\ DOMAIN g = 1..m
      BY <1>3, <2>3
    <3>2. \A a, b \in 1..m : g[a] = g[b] => a = b
      BY <1>2, <2>2, <2>3
    <3>3. \A t \in T : \E a \in 1..m : g[a] = t
      BY <1>3, <2>3
    <3> QED BY <3>1, <3>2, <3>3 DEF Bijection, Injection, Surjection, IsInjective
  <2>5. ExistsBijection(1..m, T)
    BY <2>4 DEF ExistsBijection
  <2> QED BY <2>5, FS_CountingElements
<1>4. ASSUME NEW m \in 1..n PROVE {j \in S : j <= f[m]} = {f[k] : k \in 1..m}
  <2>1. ASSUME NEW j \in S PROVE j <= f[m] <=> \E k \in 1..m : f[k] = j
    <3>1. PICK k \in 1..n : f[k] = j
      OBVIOUS
    <3>2. f[k] \in Nat /\ f[m] \in Nat
      BY <1>1
    <3>3. k <= m => f[k] <= f[m]
      BY <3>2
    <3>4. m < k => f[m] < f[k]
      OBVIOUS
    <3>5. \A l \in 1..m : f[l] = j => l = k
      BY <1>2, <3>1
    <3> QED BY <3>1, <3>2, <3>3, <3>4, <3>5
  <2>2. \A k \in 1..m : f[k] \in S
    BY <1>1
  <2> QED BY <2>1, <2>2
<1>5. \A m \in 1..n : Cardinality({j \in S : j <= f[m]}) = m
  BY SMTT(30), <1>3, <1>4
<1>6. Cardinality(S) = n
  <2>1. S = {f[k] : k \in 1..n}
    BY <1>1
  <2> QED BY SMTT(30), <1>3, <2>1
<1>7. PICK a : a = Ascending(S)
  OBVIOUS
<1>8. /\ DOMAIN a = 1..n
      /\ \A k \in DOMAIN a : Cardinality({j \in S : j <= a[k]}) = k
      /\ \A i \in S : \E k \in DOMAIN a : a[k] = i
  <2>1. /\ IsSeq(Ascending(S))
        /\ Cardinality(S) \in Nat /\ DOMAIN Ascending(S) = 1..Cardinality(S)
        /\ \A k \in DOMAIN Ascending(S) :
               /\ Ascending(S)[k] \in S
               /\ Cardinality({j \in S : j <= Ascending(S)[k]}) = k
        /\ \A k, l \in DOMAIN Ascending(S) : k < l => Ascending(S)[k] < Ascending(S)[l]
        /\ \A i \in S : \E k \in DOMAIN Ascending(S) : Ascending(S)[k] = i
        /\ \A i, j \in S :
               Cardinality({l \in S : l <= i}) = Cardinality({l \in S : l <= j}) => i = j
    BY AscendingRanks
  <2> QED BY <1>6, <1>7, <2>1
<1>9. ASSUME NEW m \in 1..n PROVE a[m] = f[m]
  <2>1. PICK k \in 1..n : a[k] = f[m]
    BY <1>1, <1>8
  <2>2. k = m
    BY <1>5, <1>8, <2>1
  <2> QED BY <2>1, <2>2
<1> QED BY <1>7, <1>8, <1>9

\* Every output event but a refused cancellation asks for something: a start
\* with its properties, or a cancellation.
LEMMA WhatIsAsked ==
    ASSUME ~ImmediateCancel, IInv, HistoryInv, PlaceInv, InBatch, NEW k \in DOMAIN batch.output
    PROVE  /\ batch.output[k] \in DOMAIN history /\ batch.output[k] \in Elems(batch.output)
           /\ Asked(k) <=> OutEvent(k).type # "RequestCancelActivityTaskFailed"
           /\ Asked(k) => OutEvent(k).type \in StartTypes \cup CancelTypes
           /\ OutEvent(k).type \in StartTypes => upcomingFor(OutEvent(k)) = << OutEvent(k).props >>
           /\ OutEvent(k).type \in CancelTypes => upcomingFor(OutEvent(k)) = << CANCEL >>
           /\ k \in Nat
<1>1. /\ IsSeq(batch.output) /\ First \in Nat
      /\ batch.output[k] = First + k - 1 /\ is_decision_event(history[First + k - 1])
  BY DEF PlaceInv, BatchInv
<1>2. PICK n : n = Len(batch.output)
  OBVIOUS
<1>3. n \in Nat /\ DOMAIN batch.output = 1..n
  BY <1>1, <1>2, LenProperties DEF IsSeq
<1>4. PICK l : l = Len(history)
  OBVIOUS
<1>5. l \in Nat /\ DOMAIN history = 1..l
  BY <1>4, LenProperties DEF IInv, ServiceInv, IsSeq
<1>6. pos \in 1..(l + 1)
  BY <1>4 DEF PlaceInv, PosInv, InBatch
<1>7. First = pos - n /\ First # 0
  <2>1. \E s \in 1..l : First = s + 1 \/ First = s + 2
    BY <1>5 DEF PlaceInv, BatchInv
  <2> QED BY <1>1, <1>2, <2>1 DEF First
<1>8. batch.output[k] \in DOMAIN history
  BY <1>1, <1>3, <1>5, <1>6, <1>7
<1>9. PICK e : e = OutEvent(k)
  OBVIOUS
<1>10. is_decision_event(e) /\ e.type \notin close_types
  <2>1. is_decision_event(e)
    BY <1>1, <1>9 DEF OutEvent
  <2>2. ~Closed
    BY DEF HistoryInv, PhaseInv, InBatch, EnginePhases
  <2> QED BY <1>8, <1>9, <2>1, <2>2 DEF Closed, OutEvent
<1>11. e.type \notin {"MarkerRecorded", "CancelTimerFailed"}
  BY <1>8, <1>9 DEF HistoryInv, WrittenInv, Written, Follows, OutEvent
<1>12. e.type \in StartTypes \cup CancelTypes \cup {"RequestCancelActivityTaskFailed"}
  BY <1>10, <1>11 DEF is_decision_event, decision_event_types, close_types, StartTypes, CancelTypes
<1>13. /\ e.type \in StartTypes => upcomingFor(e) = << e.props >>
       /\ e.type \in CancelTypes => upcomingFor(e) = << CANCEL >>
       /\ e.type = "RequestCancelActivityTaskFailed" => upcomingFor(e) = << >>
  BY DEF upcomingFor, AttemptsCancel, StartTypes, CancelTypes
<1>14. \A x : << x >> # << >>
  OBVIOUS
<1>15. "RequestCancelActivityTaskFailed" \notin StartTypes \cup CancelTypes
  BY DEF StartTypes, CancelTypes
<1>16. Asked(k) <=> upcomingFor(e) # << >>
  BY <1>9 DEF Asked
<1> QED BY SMTT(30), <1>3, <1>8, <1>9, <1>12, <1>13, <1>14, <1>15, <1>16 DEF Elems

\* What the tracker accepts is what the first entry left asks for, and uses it up.
LEMMA OneEntryLess ==
    ASSUME ~ImmediateCancel, IInv, HistoryInv, PlaceInv, EntriesInv, InBatch, phase \in TrackedPhases,
           replaying, NEW id, NEW props, Validates(id, props)
    PROVE  \E i \in DOMAIN batch.output :
               /\ Asked(i) /\ OutEvent(i).id = id
               /\ i \in Expected /\ IsNextExpectation(i)
               /\ Match(upcomingFor(OutEvent(i))[1], props)
               /\ Consumed(id) = [expectations EXCEPT ![i].upcoming = << >>]
<1>1. PICK i \in Expected : /\ expectations[i].id = id
                            /\ Match(expectations[i].upcoming[1], props)
                            /\ Len(expectations[i].upcoming) = 1 => IsNextExpectation(i)
  BY DEF Validates
<1>2. i \in DOMAIN batch.output /\ OutEvent(i).id = id
  BY <1>1 DEF EntriesInv, Expected
<1>3. expectations[i].upcoming = upcomingFor(OutEvent(i)) /\ Asked(i)
  BY <1>1, <1>2 DEF EntriesInv, Expected, Asked
<1>4. PICK p : upcomingFor(OutEvent(i)) = << p >>
  BY <1>2, <1>3, WhatIsAsked
<1>5. Len(<< p >>) = 1 /\ Tail(<< p >>) = << >>
  OBVIOUS
<1>6. IsNextExpectation(i)
  BY <1>1, <1>3, <1>4, <1>5
<1>7. EntryOf(id) = i
  <2>1. \A j \in Expected : expectations[j].id = id => j = i
    BY <1>1 DEF IInv, ManagerInv, TrackerInv, TrackerHoldsOneEntry
  <2> QED BY <1>1, <2>1 DEF EntryOf
<1>8. Consumed(id) = [expectations EXCEPT ![i].upcoming = << >>]
  BY <1>3, <1>4, <1>5, <1>7 DEF Consumed, Consume
<1> QED BY <1>1, <1>2, <1>3, <1>6, <1>8

\* Only the machine of an id is new or changes, and is behind the others then.
MovesLast(id) ==
    /\ \A j \in DOMAIN state_machines \ {id} :
           j \in DOMAIN state_machines' /\ state_machines'[j] = state_machines[j]
    /\ \A j \in DOMAIN state_machines' \ {id} : j \in DOMAIN state_machines
    /\ \A a, b \in DOMAIN order' : order'[a] = id => ~(a < b)
    /\ \A a, b \in DOMAIN order' : a < b /\ order'[a] # id /\ order'[b] # id =>
           \E c, d \in DOMAIN order : c < d /\ order[c] = order'[a] /\ order[d] = order'[b]

\* The next event that asks for something is met, by the machine that moved to
\* the end.
LEMMA OneMoreIsMet ==
    ASSUME IInv, PlaceInv, InBatch, EntriesInv, Tracked, TrackInv, UNCHANGED << history, batch >>,
           NEW i \in DOMAIN batch.output, Asked(i), i \in Expected, IsNextExpectation(i),
           NEW id, id = OutEvent(i).id,
           expectations' = [expectations EXCEPT ![i].upcoming = << >>],
           Tells(i)', MovesLast(id)
    PROVE  TrackInv'
<1>1. \A k : OutEvent(k)' = OutEvent(k) /\ (Asked(k)' <=> Asked(k))
  BY DEF OutEvent, Asked
<1>2. /\ InTurn /\ AllTold /\ NothingElse /\ OrderedAsMet
      /\ DOMAIN expectations = DOMAIN batch.output
      /\ \A k \in DOMAIN batch.output : k \in Nat
      /\ phase \in TrackedPhases
  <2>1. IsSeq(batch.output)
    BY DEF PlaceInv, BatchInv
  <2> QED BY <2>1, LenProperties DEF TrackInv, Tracked, EntriesInv, IsSeq
<1>3. \A k \in DOMAIN batch.output :
          expectations'[k].upcoming = IF k = i THEN << >> ELSE expectations[k].upcoming
  <2>1. \A k \in DOMAIN batch.output : EntryOK(expectations[k])
    BY <1>2 DEF IInv, ManagerInv, TrackerInv
  <2> QED BY <1>2, <2>1 DEF EntryOK
<1>4. \A k \in DOMAIN batch.output : Met(k)' <=> Met(k) \/ k = i
  BY <1>1, <1>3 DEF Met
<1>5. ~Met(i) /\ \A j \in DOMAIN batch.output : j < i /\ Asked(j) => Met(j)
  <2>1. \A j \in DOMAIN batch.output : Asked(j) /\ ~Met(j) => j \in Expected
    BY <1>2 DEF Met, Expected
  <2>2. \A j \in Expected : i <= j
    BY DEF IsNextExpectation
  <2>3. i \in Nat /\ \A j \in DOMAIN batch.output : j \in Nat
    BY <1>2
  <2>4. ASSUME NEW j \in DOMAIN batch.output, j < i, Asked(j) PROVE Met(j)
    BY <2>1, <2>2, <2>3, <2>4
  <2>5. ~Met(i)
    BY DEF Met, Expected
  <2> QED BY <2>4, <2>5
<1>6. \A j \in DOMAIN batch.output : Met(j) => j < i
  <2> SUFFICES ASSUME NEW j \in DOMAIN batch.output, Met(j) PROVE j < i
    OBVIOUS
  <2>1. j # i
    BY <1>5
  <2>2. ~(i < j)
    BY <1>2, <1>5 DEF InTurn
  <2> QED BY <1>2, <2>1, <2>2
<1>7. \A k \in DOMAIN batch.output : Met(k) => OutEvent(k).id # id
  BY <1>2, <1>5 DEF EntriesInv, Met
<1>8. InTurn'
  <2> SUFFICES ASSUME NEW j \in DOMAIN batch.output, NEW k \in DOMAIN batch.output,
                      j < k, Asked(j), Met(k)'
               PROVE  Met(j)'
    BY <1>1 DEF InTurn
  <2> QED BY <1>2, <1>4, <1>5 DEF InTurn
<1>9. AllTold'
  <2> SUFFICES ASSUME NEW k \in DOMAIN batch.output, Met(k)' PROVE Tells(k)'
    BY DEF AllTold
  <2>1. CASE k = i
    BY <2>1
  <2>2. CASE Met(k)
    <3>1. Tells(k) /\ OutEvent(k).id # id
      BY <1>2, <1>7, <2>2 DEF AllTold
    <3>2. PICK j : j = OutEvent(k).id
      OBVIOUS
    <3>3. j \in DOMAIN state_machines \ {id} /\ j # COMPLETION_ID
      BY <3>1, <3>2 DEF Tells
    <3>4. j \in DOMAIN state_machines' /\ state_machines'[j] = state_machines[j]
      BY <3>3 DEF MovesLast
    <3> QED BY <1>1, <3>1, <3>2, <3>3, <3>4 DEF Tells, Silent, StateOf
  <2> QED BY <1>4, <2>1, <2>2
<1>10. NothingElse'
  <2> SUFFICES ASSUME NEW j \in DOMAIN state_machines' \ {COMPLETION_ID}, ~Silent(j)'
               PROVE  \E k \in DOMAIN batch.output : Met(k)' /\ OutEvent(k).id = j
    BY <1>1 DEF NothingElse
  <2>1. CASE j = id
    BY <1>4, <2>1
  <2>2. CASE j # id
    <3>1. j \in DOMAIN state_machines /\ state_machines'[j] = state_machines[j]
      BY <2>2 DEF MovesLast
    <3>2. ~Silent(j)
      BY <3>1 DEF Silent, StateOf
    <3> QED BY <1>2, <1>4, <3>1, <3>2 DEF NothingElse
  <2> QED BY <2>1, <2>2
<1>11. OrderedAsMet'
  <2> SUFFICES ASSUME NEW a \in DOMAIN order', NEW b \in DOMAIN order',
                      NEW j \in DOMAIN batch.output, NEW k \in DOMAIN batch.output,
                      a < b, Met(j)', order'[a] = OutEvent(j).id, Met(k)', order'[b] = OutEvent(k).id
               PROVE  j < k
    BY <1>1 DEF OrderedAsMet
  <2>1. order'[a] # id /\ j # i /\ Met(j)
    BY <1>4 DEF MovesLast
  <2>2. CASE k = i
    BY <1>6, <2>1, <2>2
  <2>3. CASE Met(k)
    <3>1. order'[b] # id
      BY <1>7, <2>3
    <3>2. \E c, d \in DOMAIN order : c < d /\ order[c] = order'[a] /\ order[d] = order'[b]
      BY <2>1, <3>1 DEF MovesLast
    <3> QED BY <1>2, <2>1, <2>3, <3>2 DEF OrderedAsMet
  <2> QED BY <1>4, <2>2, <2>3
<1> QED BY <1>8, <1>9, <1>10, <1>11 DEF TrackInv

\* What starts an activity or a timer that has no machine yet is its start.
LEMMA CreationIsRecorded ==
    ASSUME ~ImmediateCancel, IInv, HistoryInv, EngineStateInv, NumberedInv, PropsInv, phase = "run",
           NEW k \in DOMAIN batch.output, Asked(k), NEW id, id = OutEvent(k).id, id \notin DOMAIN state_machines,
           NEW type \in {"ACTIVITY", "TIMER"}, id.type = type,
           NEW props, RequestProps(type, props), Match(upcomingFor(OutEvent(k))[1], props)
    PROVE  /\ OutEvent(k).type = IF type = "ACTIVITY" THEN "ActivityTaskScheduled" ELSE "TimerStarted"
           /\ OutEvent(k).props = props
<1>1. InBatch /\ PlaceInv
  BY DEF InBatch, EnginePhases, EngineStateInv
<1>2. PICK e : e = OutEvent(k)
  OBVIOUS
<1>3. PICK p : p = batch.output[k]
  OBVIOUS
<1>4. /\ p \in DOMAIN history /\ p \in Elems(batch.output) /\ e = history[p]
      /\ e.type \in StartTypes \cup CancelTypes
      /\ e.type \in StartTypes => upcomingFor(e) = << e.props >>
  BY <1>1, <1>2, <1>3, WhatIsAsked DEF OutEvent
<1>5. e.type \in StartTypes
  BY <1>2, <1>4, CancelledIsKnown
<1>6. e.type = IF type = "ACTIVITY" THEN "ActivityTaskScheduled" ELSE "TimerStarted"
  <2>1. /\ e.type = "ActivityTaskScheduled" => id \in CommandIds("ACTIVITY")
        /\ e.type = "TimerStarted" => id \in CommandIds("TIMER")
    BY <1>2, <1>4 DEF NumberedInv, NumberedIn
  <2>2. \A t : id \in CommandIds(t) => id.type = t
    BY DEF CommandIds, DecisionId
  <2> QED BY <1>5, <2>1, <2>2 DEF StartTypes
<1>7. Match(e.props, props)
  BY <1>2, <1>4, <1>5
<1>8. RequestProps(type, e.props)
  BY <1>4, <1>6 DEF PropsInv, EventProps
<1>9. e.props = props
  <2>1. CASE type = "ACTIVITY"
    <3>1. PICK t \in ActivityTypes : props = ActivityProps(t)
      BY <2>1 DEF RequestProps
    <3>2. PICK u \in ActivityTypes : e.props = ActivityProps(u)
      BY <1>8, <2>1 DEF RequestProps
    <3>3. t = u
      BY <1>7, <3>1, <3>2 DEF Match, ActivityProps
    <3> QED BY <3>1, <3>2, <3>3
  <2>2. CASE type = "TIMER"
    BY <1>8, <2>2 DEF RequestProps
  <2> QED BY <2>1, <2>2
<1> QED BY <1>2, <1>6, <1>9

\* What cancels an activity or a timer that history knows is its cancellation.
LEMMA CancellationIsRecorded ==
    ASSUME ~ImmediateCancel, IInv, HistoryInv, EngineStateInv, NumberedInv, PropsInv, phase = "run",
           task # "FatalDecisionError",
           NEW k \in DOMAIN batch.output, Asked(k), NEW id, id = OutEvent(k).id,
           id \in DOMAIN state_machines \ {COMPLETION_ID}, StateOf(id) # "REQUESTED"
    PROVE  /\ OutEvent(k).type = IF id.type = "ACTIVITY" THEN "ActivityTaskCancelRequested" ELSE "TimerCanceled"
           /\ OutEvent(k).props = CANCEL
<1>1. InBatch /\ PlaceInv /\ phase \in EnginePhases
  BY DEF InBatch, EnginePhases, EngineStateInv
<1>2. PICK e : e = OutEvent(k)
  OBVIOUS
<1>3. PICK p : p = batch.output[k]
  OBVIOUS
<1>4. /\ p \in DOMAIN history /\ p \in Elems(batch.output) /\ e = history[p]
      /\ e.type \in StartTypes \cup CancelTypes
  BY <1>1, <1>2, <1>3, WhatIsAsked DEF OutEvent
<1>5. e.type \notin StartTypes
  <2> SUFFICES ASSUME e.type \in StartTypes PROVE FALSE
    OBVIOUS
  <2>1. StatesAgree(Applied)
    BY <1>1 DEF EngineStateInv, AgreeInv, Agree
  <2>2. PICK i \in Applied : history[i].type \in StartTypes /\ history[i].id = id
    BY <2>1 DEF StatesAgree
  <2>3. i \in DOMAIN history /\ i # p
    <3>1. p \in Pending
      BY <1>4 DEF Pending
    <3>2. i \in 1..(pos - 1) /\ i \notin Pending
      BY <2>2 DEF Applied
    <3>3. pos \in 1..(Len(history) + 1)
      BY <1>1 DEF PlaceInv, PosInv
    <3>4. Len(history) \in Nat /\ DOMAIN history = 1..Len(history)
      BY LenProperties DEF IInv, ServiceInv, IsSeq
    <3> QED BY <3>1, <3>2, <3>3, <3>4
  <2>4. history[i].type = e.type
    BY <1>2, <1>4, <2>2, <2>3, KindsDiffer DEF StartTypes
  <2>5. is_decision_event(history[i]) /\ history[i].type # "MarkerRecorded"
    BY <2>2 DEF is_decision_event, decision_event_types, StartTypes
  <2>6. p = i
    BY <1>2, <1>4, <2>2, <2>3, <2>4, <2>5, WrittenOnce DEF IInv, ServiceInv, HistoryInv, WrittenInv
  <2> QED BY <2>3, <2>6
<1>6. e.type \in CancelTypes /\ id.type = IF e.type = "TimerCanceled" THEN "TIMER" ELSE "ACTIVITY"
  BY <1>2, <1>4, <1>5, CancelledIsKnown
<1>7. e.props = CANCEL
  BY <1>4, <1>6 DEF PropsInv, EventProps, CancelTypes, AskTypes
<1> QED BY <1>2, <1>6, <1>7 DEF CancelTypes

\* A request that is accepted in replay is one the batch records.
LEMMA RequestIsTracked ==
    ASSUME ~ImmediateCancel, IInv, HistoryInv, EngineStateInv, NumberedInv, PropsInv, EntriesInv,
           Tracked, TrackInv, phase = "run", UNCHANGED << history, batch >>,
           NEW type \in {"ACTIVITY", "TIMER"}, NEW props, RequestProps(type, props), NEW request,
           Request(type, props, request), raised' = "none"
    PROVE  TrackInv'
<1>1. PICK id : id = DecisionId(type, id_counter)
  OBVIOUS
<1>2. InBatch /\ PlaceInv /\ replaying
  BY DEF InBatch, EnginePhases, EngineStateInv, PlaceInv, BatchInv, Tracked
<1>3. /\ Accepted(id, props) /\ expectations' = Consumed(id)
      /\ Add(id, Machine(props, request))
  BY <1>1 DEF Request, Reject
<1>4. /\ id \notin DOMAIN state_machines
      /\ state_machines' = [i \in DOMAIN state_machines \cup {id} |->
                                IF i = id THEN Machine(props, request) ELSE state_machines[i]]
      /\ order' = Append(order, id)
  BY <1>3 DEF Add
<1>5. Validates(id, props)
  BY <1>2, <1>3 DEF Accepted
<1>6. PICK i \in DOMAIN batch.output :
          /\ Asked(i) /\ OutEvent(i).id = id
          /\ i \in Expected /\ IsNextExpectation(i)
          /\ Match(upcomingFor(OutEvent(i))[1], props)
          /\ Consumed(id) = [expectations EXCEPT ![i].upcoming = << >>]
  BY <1>2, <1>5, OneEntryLess DEF Tracked
<1>7. id.type = type /\ id # COMPLETION_ID
  BY <1>1 DEF DecisionId, COMPLETION_ID
<1>8. /\ OutEvent(i).type = IF type = "ACTIVITY" THEN "ActivityTaskScheduled" ELSE "TimerStarted"
      /\ OutEvent(i).props = props
  BY <1>4, <1>6, <1>7, CreationIsRecorded
<1>9. Tells(i)'
  <2>1. OutEvent(i)' = OutEvent(i)
    BY DEF OutEvent
  <2>2. /\ id \in DOMAIN state_machines' \ {COMPLETION_ID}
        /\ state_machines'[id] = Machine(props, request)
    BY <1>4, <1>7
  <2>3. Machine(props, request).state = "REQUESTED" /\ Machine(props, request).props = props
    BY DEF Machine
  <2>4. ~Silent(id)'
    BY <2>2, <2>3 DEF Silent, StateOf
  <2>5. PICK d : d = GetDecision(id, state_machines'[id])
    OBVIOUS
  <2>6. d = Decision(CreateDecision[type], id, props)
    BY <1>7, <2>2, <2>3, <2>5 DEF GetDecision
  <2>7. d.id = id /\ d.props = props /\ d.what = CreateDecision[type]
    BY <2>6 DEF Decision
  <2>8. OutEvent(i).type \in RecordedAs(d)
    BY <1>8, <2>7 DEF RecordedAs, CreateDecision
  <2> QED BY <1>6, <1>8, <2>1, <2>2, <2>4, <2>5, <2>7, <2>8 DEF Tells
<1>10. PICK n : n = Len(order)
  OBVIOUS
<1>11. /\ n \in Nat /\ DOMAIN order = 1..n /\ DOMAIN order' = 1..(n + 1)
       /\ order'[n + 1] = id /\ \A a \in 1..n : order'[a] = order[a] /\ order[a] # id
  <2>1. order \in Seq(DecisionIds) /\ OrderIsKeys
    BY DEF IInv, ManagerInv, MachinesInv
  <2>2. n \in Nat /\ DOMAIN order = 1..n
    BY <1>10, <2>1, LenProperties
  <2>3. IsSeq(order)
    BY <2>1, SeqIsSeq
  <2>4. DOMAIN order' = 1..(n + 1) /\ order'[n + 1] = id /\ \A a \in 1..n : order'[a] = order[a]
    BY <1>4, <1>10, <2>3, AppendPositions
  <2> QED BY <1>4, <2>1, <2>2, <2>4 DEF OrderIsKeys
<1>12. \A a, b \in DOMAIN order' : order'[a] = id => ~(a < b)
  BY <1>11
<1>13. \A a, b \in DOMAIN order' : a < b /\ order'[a] # id /\ order'[b] # id =>
           \E c, d \in DOMAIN order : c < d /\ order[c] = order'[a] /\ order[d] = order'[b]
  <2> SUFFICES ASSUME NEW a \in DOMAIN order', NEW b \in DOMAIN order', a < b, order'[a] # id, order'[b] # id
               PROVE  \E c, d \in DOMAIN order : c < d /\ order[c] = order'[a] /\ order[d] = order'[b]
    OBVIOUS
  <2>1. a \in 1..n /\ b \in 1..n
    BY <1>11
  <2> QED BY <1>11, <2>1
<1>14. /\ \A j \in DOMAIN state_machines \ {id} :
               j \in DOMAIN state_machines' /\ state_machines'[j] = state_machines[j]
       /\ \A j \in DOMAIN state_machines' \ {id} : j \in DOMAIN state_machines
  BY <1>4
<1>15. expectations' = [expectations EXCEPT ![i].upcoming = << >>]
  BY <1>3, <1>6
<1>16. id = OutEvent(i).id /\ Asked(i) /\ i \in Expected /\ IsNextExpectation(i)
  BY <1>6
<1>17. MovesLast(id)
  BY <1>12, <1>13, <1>14 DEF MovesLast
<1> QED BY <1>2, <1>9, <1>15, <1>16, <1>17, OneMoreIsMet

\* So is a cancellation.
LEMMA CancelIsTracked ==
    ASSUME ~ImmediateCancel, IInv, LastInv, HistoryInv, EngineStateInv, Unwinds, NumberedInv, PropsInv,
           EntriesInv, Tracked, TrackInv, phase = "run", UNCHANGED << history, batch >>,
           NEW id, request_cancel(id), StateOf(id) # "REQUESTED", raised' = "none"
    PROVE  TrackInv' \/ phase' \notin TrackedPhases \/ task' = "FatalDecisionError"
           \/ (UNCHANGED << state_machines, order, expectations >>)
<1>1. /\ InBatch /\ PlaceInv /\ replaying /\ ~failed /\ task # "FatalDecisionError"
      /\ id \in DOMAIN state_machines \ {COMPLETION_ID}
  BY DEF InBatch, EnginePhases, EngineStateInv, PlaceInv, BatchInv, Tracked, Unwinds, request_cancel
<1>2. CASE ~Cancellable(state_machines[id])
  BY <1>2 DEF request_cancel
<1>3. CASE Cancellable(state_machines[id])
  <2>1. /\ state_machines' = [state_machines EXCEPT ![id] = CancelRequested(id.type, @)]
        /\ Accepted(id, CANCEL) /\ expectations' = Consumed(id)
        /\ order' = MoveToEnd(order, id)
    BY <1>1, <1>3 DEF request_cancel, Reject
  <2>2. Validates(id, CANCEL)
    BY <1>1, <2>1 DEF Accepted
  <2>3. PICK i \in DOMAIN batch.output :
            /\ Asked(i) /\ OutEvent(i).id = id
            /\ i \in Expected /\ IsNextExpectation(i)
            /\ Match(upcomingFor(OutEvent(i))[1], CANCEL)
            /\ Consumed(id) = [expectations EXCEPT ![i].upcoming = << >>]
    BY <1>1, <2>2, OneEntryLess DEF Tracked
  <2>4. /\ OutEvent(i).type = IF id.type = "ACTIVITY" THEN "ActivityTaskCancelRequested" ELSE "TimerCanceled"
        /\ OutEvent(i).props = CANCEL
    BY <1>1, <2>3, CancellationIsRecorded
  <2>5. id.type \in {"ACTIVITY", "TIMER"}
    BY <1>1 DEF LastInv, KeysInv
  <2>6. PICK m : m = CancelRequested(id.type, state_machines[id])
    OBVIOUS
  <2>7. m.state = "CANCELED_AFTER_RECORDED"
    <3>1. MachineOK(state_machines[id]) /\ state_machines[id].state = "RECORDED"
      BY <1>1, <1>3 DEF IInv, ManagerInv, MachinesInv, Cancellable, StateOf
    <3> QED BY <2>6, <3>1 DEF CancelRequested, MachineOK
  <2>8. id \in DOMAIN state_machines' /\ state_machines'[id] = m
    BY <1>1, <2>1, <2>6
  <2>9. Tells(i)'
    <3>1. OutEvent(i)' = OutEvent(i)
      BY DEF OutEvent
    <3>2. ~Silent(id)'
      BY <2>7, <2>8 DEF Silent, StateOf
    <3>3. PICK d : d = GetDecision(id, state_machines'[id])
      OBVIOUS
    <3>4. d = Decision(CancelDecision[id.type], id, CANCEL)
      BY <1>1, <2>7, <2>8, <3>3 DEF GetDecision
    <3>5. d.id = id /\ d.props = CANCEL /\ d.what = CancelDecision[id.type]
      BY <3>4 DEF Decision
    <3>6. OutEvent(i).type \in RecordedAs(d)
      BY <2>4, <2>5, <3>5 DEF RecordedAs, CancelDecision
    <3> QED BY <1>1, <2>3, <2>4, <2>8, <3>1, <3>2, <3>3, <3>5, <3>6 DEF Tells
  <2>10. /\ order \in Seq(DecisionIds) /\ id \in {order[a] : a \in DOMAIN order}
         /\ \A a, b \in DOMAIN order : order[a] = order[b] => a = b
    BY <1>1 DEF IInv, ManagerInv, MachinesInv, OrderIsKeys
  <2>11. PICK t : t = order'
    OBVIOUS
  <2>12. /\ DOMAIN t = 1..Len(order) /\ t[Len(order)] = id
         /\ \A a \in DOMAIN t : t[a] = id => a = Len(order)
    BY <2>1, <2>10, <2>11, MovedIsLast
  <2>13. Len(order) \in Nat
    BY <2>10, LenProperties
  <2>14. \A a, b \in DOMAIN order' : order'[a] = id => ~(a < b)
    BY <2>11, <2>12, <2>13
  <2>15. \A a, b \in DOMAIN order' : a < b /\ order'[a] # id /\ order'[b] # id =>
             \E c, d \in DOMAIN order : c < d /\ order[c] = order'[a] /\ order[d] = order'[b]
    BY <2>1, <2>10, OthersKeepTheirOrder
  <2>16. /\ \A j \in DOMAIN state_machines \ {id} :
                 j \in DOMAIN state_machines' /\ state_machines'[j] = state_machines[j]
         /\ \A j \in DOMAIN state_machines' \ {id} : j \in DOMAIN state_machines
    BY <2>1
  <2>17. expectations' = [expectations EXCEPT ![i].upcoming = << >>]
    BY <2>1, <2>3
  <2>18. id = OutEvent(i).id /\ Asked(i) /\ i \in Expected /\ IsNextExpectation(i)
    BY <2>3
  <2>19. MovesLast(id)
    BY <2>14, <2>15, <2>16 DEF MovesLast
  <2> QED BY <1>1, <2>9, <2>17, <2>18, <2>19, OneMoreIsMet
<1> QED BY <1>2, <1>3

\* A new machine has the properties of its request.
LEMMA RequestKeepsProps ==
    ASSUME MachineProps, NEW type \in {"ACTIVITY", "TIMER"}, NEW props, RequestProps(type, props),
           NEW request, Request(type, props, request)
    PROVE  MachineProps'
<1>1. PICK id : id = DecisionId(type, id_counter)
  OBVIOUS
<1>2. id.type = type
  BY <1>1 DEF DecisionId
<1>3. \/ state_machines' = state_machines
      \/ state_machines' = [i \in DOMAIN state_machines \cup {id} |->
                                IF i = id THEN Machine(props, request) ELSE state_machines[i]]
  BY <1>1 DEF Request, Add
<1>4. Machine(props, request).props = props
  BY DEF Machine
<1> QED BY <1>2, <1>3, <1>4 DEF MachineProps

\* A machine keeps its properties when it moves.
LEMMA MovesKeepProps ==
    ASSUME MachinesInv, MachineProps,
           \/ \E id : request_cancel(id)
           \/ \E event, event_id : handle_history_event(event, event_id)
    PROVE  MachineProps'
<1>1. ASSUME NEW id \in DOMAIN state_machines, NEW m, m.props = state_machines[id].props,
             state_machines' = [state_machines EXCEPT ![id] = m]
      PROVE  MachineProps'
  BY <1>1 DEF MachineProps
<1>2. ASSUME NEW id, request_cancel(id) PROVE MachineProps'
  <2>1. CASE Cancellable(state_machines[id])
    <3>1. PICK m : m = CancelRequested(id.type, state_machines[id])
      OBVIOUS
    <3>2. id \in DOMAIN state_machines /\ state_machines' = [state_machines EXCEPT ![id] = m]
      BY <1>2, <2>1, <3>1 DEF request_cancel
    <3>3. MachineOK(state_machines[id])
      BY <3>2 DEF MachinesInv
    <3>4. m.props = state_machines[id].props
      BY <3>1, <3>3 DEF CancelRequested, MachineOK
    <3> QED BY <1>1, <3>2, <3>4
  <2>2. CASE ~Cancellable(state_machines[id])
    BY <1>2, <2>2 DEF request_cancel, MachineProps
  <2> QED BY <2>1, <2>2
<1>3. ASSUME NEW event, NEW event_id, handle_history_event(event, event_id) PROVE MachineProps'
  <2>1. CASE UNCHANGED state_machines
    BY <2>1 DEF MachineProps
  <2>2. CASE ~UNCHANGED state_machines
    <3>1. PICK h : h = type_to_action[event.type]
      OBVIOUS
    <3>2. PICK a : a = << h.type, h.attr, event[h.attr] >>
      OBVIOUS
    <3>3. PICK id : id = aliases[a]
      OBVIOUS
    <3>4. a \in DOMAIN aliases /\ state_machines' = [state_machines EXCEPT ![id] = Handled(h, @)]
      BY <1>3, <2>2, <3>1, <3>2, <3>3 DEF handle_history_event
    <3>5. id \in DOMAIN state_machines
      BY <3>3, <3>4 DEF MachinesInv, AliasesResolve
    <3>6. MachineOK(state_machines[id])
      BY <3>5 DEF MachinesInv
    <3>7. PICK m : m = Handled(h, state_machines[id])
      OBVIOUS
    <3>8. m.props = state_machines[id].props
      BY <3>6, <3>7 DEF Handled, MachineOK
    <3> QED BY <1>1, <3>4, <3>5, <3>7, <3>8
  <2> QED BY <2>1, <2>2
<1> QED BY <1>2, <1>3

\* The decision of a machine has the properties of the machine, or cancels it.
LEMMA DecisionHasProps ==
    ASSUME LastInv, EngineStateInv, MachineProps, phase \in EnginePhases, NEW id \in DOMAIN state_machines
    PROVE  DecisionProps(GetDecision(id, state_machines[id]))
<1>1. PICK d : d = GetDecision(id, state_machines[id])
  OBVIOUS
<1>2. CASE id = COMPLETION_ID
  <2>1. d.what = state_machines[id].request
    BY <1>1, <1>2 DEF GetDecision, Decision
  <2>2. d.what \in Outcomes
    BY <1>2, <2>1 DEF EngineStateInv, CompletionRequest
  <2>3. d.what \notin {"ScheduleActivityTask", "StartTimer", "CancelTimer", "RequestCancelActivityTask"}
    BY <2>2, OutcomesAssumption
  <2> QED BY <1>1, <2>3 DEF DecisionProps
<1>3. CASE id # COMPLETION_ID
  <2>1. id.type \in {"ACTIVITY", "TIMER"} /\ RequestProps(id.type, state_machines[id].props)
    BY <1>3 DEF LastInv, KeysInv, MachineProps
  <2>2. CASE state_machines[id].state = "REQUESTED"
    <3>1. d.what = CreateDecision[id.type] /\ d.props = state_machines[id].props
      BY <1>1, <1>3, <2>2 DEF GetDecision, Decision
    <3> QED BY <1>1, <2>1, <3>1 DEF DecisionProps, CreateDecision
  <2>3. CASE state_machines[id].state = "CANCELED_AFTER_REQUESTED"
    <3>1. d.what = "RecordMarker"
      BY <1>1, <1>3, <2>3 DEF GetDecision, Decision
    <3> QED BY <1>1, <3>1 DEF DecisionProps
  <2>4. CASE state_machines[id].state \notin {"REQUESTED", "CANCELED_AFTER_REQUESTED"}
    <3>1. d.what = CancelDecision[id.type] /\ d.props = CANCEL
      BY <1>1, <1>3, <2>4 DEF GetDecision, Decision
    <3> QED BY <1>1, <2>1, <3>1 DEF DecisionProps, CancelDecision
  <2> QED BY <2>2, <2>3, <2>4
<1> QED BY <1>2, <1>3

\* What the worker does keeps the properties.
LEMMA WorkerKeepsProps ==
    ASSUME IInv, LastInv, EngineStateInv, PropsInv, EngineNext \/ WorkflowNext
    PROVE  PropsInv'
<1>1. MachinesInv /\ MachineProps /\ phase \in EnginePhases /\ history' = history
  BY WorkerWritesNothing DEF IInv, ManagerInv, PropsInv
<1>2. MachineProps'
  <2>1. CASE UNCHANGED state_machines
    BY <1>1, <2>1 DEF MachineProps
  <2>2. ASSUME NEW outcome, complete_workflow(outcome) PROVE MachineProps'
    <3>1. \/ state_machines' = state_machines
          \/ state_machines' = [i \in DOMAIN state_machines \cup {COMPLETION_ID} |->
                  IF i = COMPLETION_ID THEN CompletionMachine(outcome) ELSE state_machines[i]]
      BY <2>2 DEF complete_workflow, Add
    <3>2. COMPLETION_ID.type = "WORKFLOW_COMPLETE"
      BY DEF COMPLETION_ID, DecisionId
    <3> QED BY <1>1, <3>1, <3>2 DEF MachineProps, RequestProps
  <2>3. ASSUME NEW t \in ActivityTypes, ExecuteActivity(t) PROVE MachineProps'
    BY <1>1, <2>3, RequestKeepsProps DEF ExecuteActivity, schedule_activity, RequestProps
  <2>4. CASE StartTimer
    BY <1>1, <2>4, RequestKeepsProps DEF StartTimer, start_timer, RequestProps
  <2>5. ASSUME NEW id, CancelFuture(id) \/ AutomaticCancel(id) PROVE MachineProps'
    BY <1>1, <2>5, MovesKeepProps DEF CancelFuture, AutomaticCancel
  <2>6. CASE ApplyInputEvent \/ ApplyOutputEvent
    BY <1>1, <2>6, MovesKeepProps DEF ApplyInputEvent, ApplyOutputEvent
  <2>7. CASE MaybeCompleteWorkflow
    BY <2>1, <2>2, <2>7 DEF MaybeCompleteWorkflow, managerVars, RaiseInEngine
  <2>8. CASE NextDecisionEvents \/ CollectDecisions \/ StartRun \/ EndExecution \/ FinishBatch \/ Yield
             \/ RejectionUnwinds \/ \E outcome : Ends(outcome)
    BY <2>1, <2>8 DEF NextDecisionEvents, CollectDecisions, StartRun, EndExecution, FinishBatch, Yield,
                      RejectionUnwinds, Ends, managerVars, RaiseInEngine, start_execution, end_execution
  <2> QED BY <2>3, <2>4, <2>5, <2>6, <2>7, <2>8 DEF EngineNext, WorkflowNext, Return, continue_as_new
<1>3. \A k \in DOMAIN decisions' : DecisionProps(decisions'[k])
  <2>1. CASE CollectDecisions
    <3>1. PICK c : c = collect_pending_decisions
      OBVIOUS
    <3>2. decisions' = c
      BY <2>1, <3>1 DEF CollectDecisions
    <3>3. PICK w : CollectedFrom(c, Len(order), w)
      BY <1>1, <3>1, CollectedInOrder
    <3>4. \A k \in DOMAIN c : w[k] \in 1..Len(order) /\ c[k] = SentOf(w[k])
      BY <3>3 DEF CollectedFrom
    <3>5. \A n \in 1..Len(order) : order[n] \in DOMAIN state_machines
      BY <1>1, LenProperties DEF MachinesInv, OrderIsKeys
    <3>6. \A n \in 1..Len(order) : DecisionProps(SentOf(n))
      BY <1>1, <3>5, DecisionHasProps DEF SentOf
    <3> QED BY <3>2, <3>4, <3>6
  <2>2. CASE ~CollectDecisions
    BY <2>2, WorkerWritesNothing DEF PropsInv
  <2> QED BY <2>1, <2>2
<1> QED BY <1>1, <1>2, <1>3 DEF PropsInv

\* So does what the service does: an event has the properties of its decision.
LEMMA ServiceKeepsProps ==
    ASSUME IInv, HistoryInv, DecisionsInv, PropsInv, ServiceNext
    PROVE  PropsInv'
<1>1. /\ IsSeq(history) /\ IsSeq(buffered) /\ IsSeq(decisions) /\ MachineProps
      /\ \A i \in DOMAIN history : EventProps(history[i])
      /\ \A k \in DOMAIN decisions : DecisionProps(decisions[k])
  BY DEF IInv, ServiceInv, DecisionsInv, PropsInv
<1>2. ASSUME NEW e, e.type \notin StartTypes \cup AskTypes PROVE EventProps(e)
  BY <1>2 DEF EventProps, StartTypes
<1>3. ASSUME NEW h, NEW new, IsSeq(h), IsSeq(new), \A i \in DOMAIN h : EventProps(h[i]),
             \A k \in DOMAIN new : EventProps(new[k])
      PROVE  IsSeq(h \o new) /\ \A i \in DOMAIN (h \o new) : EventProps((h \o new)[i])
  BY <1>3, ConcatElements, ConcatIsSeq
<1>4. \A k \in DOMAIN buffered : EventProps(buffered[k])
  <2>1. \A k \in DOMAIN buffered :
            buffered[k].type \in RefTypes \cup {"TimerFired", "WorkflowExecutionSignaled"}
    BY DEF HistoryInv, WrittenInv, Writable
  <2> QED BY <1>2, <2>1 DEF RefTypes, activity_close_types, StartTypes, AskTypes
<1>5. /\ \A e : IsSeq(<< e >>) /\ \A k \in DOMAIN << e >> : << e >>[k] = e
      /\ \A e, f : IsSeq(<< e, f >>) /\ \A k \in DOMAIN << e, f >> : << e, f >>[k] \in {e, f}
  <2>1. (\A e : IsSeq(<< e >>)) /\ (\A e, f : IsSeq(<< e, f >>))
    BY TuplesAreSeqs
  <2>2. \A e, k : k \in DOMAIN << e >> => << e >>[k] = e
    OBVIOUS
  <2>3. \A e, f, k : k \in DOMAIN << e, f >> => << e, f >>[k] \in {e, f}
    OBVIOUS
  <2> QED BY <2>1, <2>2, <2>3
<1>6. ASSUME NEW e, EventProps(e) PROVE \A i \in DOMAIN Append(history, e) : EventProps(Append(history, e)[i])
  <2>1. Append(history, e) = history \o << e >>
    BY <1>1, AppendIsBehind
  <2> QED BY <1>1, <1>3, <1>5, <1>6, <2>1
<1>7. ASSUME UNCHANGED << state_machines, decisions, history >> PROVE PropsInv'
  BY <1>1, <1>7 DEF PropsInv, MachineProps
<1>8. ASSUME UNCHANGED state_machines \/ state_machines' = << >>,
             UNCHANGED decisions \/ decisions' = << >>,
             \A i \in DOMAIN history' : EventProps(history'[i])
      PROVE  PropsInv'
  BY <1>1, <1>8, EmptyIsSeq DEF PropsInv, MachineProps
<1>9. ASSUME NEW events, Arrive(events), IsSeq(events),
             \A k \in DOMAIN events : events[k].type \notin StartTypes \cup AskTypes
      PROVE  PropsInv'
  <2>1. history' = history \/ history' = history \o events
    BY <1>9 DEF Arrive
  <2>2. UNCHANGED << state_machines, decisions >>
    BY <1>9 DEF Arrive, managerVars
  <2> QED BY <1>1, <1>2, <1>3, <1>8, <1>9, <2>1, <2>2
<1>10. ASSUME NEW type, type \in unsuccessful, Unsuccessfully(type) PROVE PropsInv'
  <2>1. EventProps(Event(type))
    BY <1>2, <1>10 DEF Event, unsuccessful, StartTypes, AskTypes
  <2>2. /\ history' = (history \o << Event(type) >>) \o buffered
        /\ state_machines' = << >> /\ decisions' = << >>
    BY <1>10 DEF Unsuccessfully, DropEngine, NewManager
  <2>3. \A i \in DOMAIN history' : EventProps(history'[i])
    <3>1. PICK h : h = history \o << Event(type) >>
      OBVIOUS
    <3>2. IsSeq(h) /\ \A i \in DOMAIN h : EventProps(h[i])
      <4>1. PICK new : new = << Event(type) >>
        OBVIOUS
      <4>2. IsSeq(new) /\ \A k \in DOMAIN new : EventProps(new[k])
        BY <1>5, <2>1, <4>1
      <4> QED BY <1>1, <1>3, <3>1, <4>1, <4>2
    <3> QED BY <1>1, <1>3, <1>4, <2>2, <3>1, <3>2
  <2> QED BY <1>8, <2>2, <2>3
<1>11. CASE \E s \in DOMAIN history, type \in CloseEvents : ActivityCloses(s, type)
  <2>1. PICK s \in DOMAIN history, type \in CloseEvents : ActivityCloses(s, type)
    BY <1>11
  <2>2. PICK e : e = RefEvent(type, s)
    OBVIOUS
  <2>3. PICK f : f = RefEvent("ActivityTaskStarted", s)
    OBVIOUS
  <2>4. e.type \notin StartTypes \cup AskTypes /\ f.type \notin StartTypes \cup AskTypes
    BY <2>2, <2>3, CloseEventsAssumption DEF RefEvent, StartTypes, AskTypes
  <2>5. Arrive(<< e >>) \/ Arrive(<< f, e >>)
    BY <2>1, <2>2, <2>3 DEF ActivityCloses
  <2>6. ASSUME Arrive(<< e >>) PROVE PropsInv'
    <3>1. PICK new : new = << e >>
      OBVIOUS
    <3>2. IsSeq(new) /\ \A k \in DOMAIN new : new[k] = e
      BY <1>5, <3>1
    <3> QED BY <1>9, <2>4, <2>6, <3>1, <3>2
  <2>7. ASSUME Arrive(<< f, e >>) PROVE PropsInv'
    <3>1. PICK new : new = << f, e >>
      OBVIOUS
    <3>2. IsSeq(new) /\ \A k \in DOMAIN new : new[k] \in {f, e}
      BY <1>5, <3>1
    <3>3. \A k \in DOMAIN new : new[k].type \notin StartTypes \cup AskTypes
      BY <2>4, <3>2
    <3> QED BY <1>9, <2>7, <3>1, <3>2, <3>3
  <2> QED BY <2>5, <2>6, <2>7
<1>12. CASE SignalArrives \/ \E n \in 0..(MaxIds - 1) : TimerFires(DecisionId("TIMER", n))
  <2>1. \E e : e.type \in {"TimerFired", "WorkflowExecutionSignaled"} /\ Arrive(<< e >>)
    <3>1. /\ Event("WorkflowExecutionSignaled").type = "WorkflowExecutionSignaled"
          /\ \A id : IdEvent("TimerFired", id).type = "TimerFired"
      BY DEF Event, IdEvent
    <3>2. \/ Arrive(<< Event("WorkflowExecutionSignaled") >>)
          \/ \E id : Arrive(<< IdEvent("TimerFired", id) >>)
      BY <1>12 DEF SignalArrives, TimerFires
    <3> QED BY <3>1, <3>2
  <2>3. PICK e : e.type \in {"TimerFired", "WorkflowExecutionSignaled"} /\ Arrive(<< e >>)
    BY <2>1
  <2>2. e.type \notin StartTypes \cup AskTypes
    BY <2>3 DEF StartTypes, AskTypes
  <2>4. PICK new : new = << e >>
    OBVIOUS
  <2>5. IsSeq(new) /\ \A k \in DOMAIN new : new[k] = e
    BY <1>5, <2>4
  <2> QED BY <1>9, <2>2, <2>3, <2>4, <2>5
<1>13. CASE PollDecisionTask
  <2>1. EventProps(Event("DecisionTaskStarted"))
    BY <1>2 DEF Event, StartTypes, AskTypes
  <2> QED BY <1>6, <1>8, <1>13, <2>1 DEF PollDecisionTask, managerVars
<1>14. CASE DecisionTaskTimesOut \/ RespondDecisionTaskFailed
  BY <1>10, <1>14 DEF DecisionTaskTimesOut, RespondDecisionTaskFailed, unsuccessful
<1>15. CASE RespondDecisionTaskCompleted
  <2>1. EventProps(Event("DecisionTaskCompleted"))
    BY <1>2 DEF Event, StartTypes, AskTypes
  <2>2. CASE Unsuccessfully("DecisionTaskFailed")
    BY <1>10, <2>2 DEF unsuccessful
  <2>3. CASE ~Unsuccessfully("DecisionTaskFailed")
    <3>1. /\ history' = Append(history, Event("DecisionTaskCompleted"))
          /\ UNCHANGED << state_machines, decisions >>
      BY <1>15, <2>3 DEF RespondDecisionTaskCompleted, managerVars
    <3> QED BY <1>6, <1>8, <2>1, <3>1
  <2> QED BY <2>2, <2>3
<1>16. CASE RecordDecision
  <2>1. PICK d : d = Head(decisions)
    OBVIOUS
  <2>2. DecisionProps(d) /\ \A k \in DOMAIN decisions' : DecisionProps(decisions'[k])
    <3>1. decisions # << >> /\ decisions' = Tail(decisions)
      BY <1>16 DEF RecordDecision
    <3> QED BY <1>1, <2>1, <3>1, HeadAndTail
  <2>3. ASSUME NEW type PROVE /\ RecordedEvent(type, d).type = type
                              /\ RecordedEvent(type, d).props = d.props
    BY DEF RecordedEvent
  <2>4. /\ d.what = "ScheduleActivityTask" => EventProps(RecordedEvent("ActivityTaskScheduled", d))
        /\ d.what = "StartTimer" => EventProps(RecordedEvent("TimerStarted", d))
        /\ EventProps(RecordedEvent("MarkerRecorded", d))
    BY <2>2, <2>3 DEF EventProps, DecisionProps, AskTypes
  <2>5. /\ d.what = "CancelTimer" => /\ EventProps(RecordedEvent("TimerCanceled", d))
                                     /\ EventProps(RecordedEvent("CancelTimerFailed", d))
        /\ d.what = "RequestCancelActivityTask" =>
               /\ EventProps(RecordedEvent("ActivityTaskCancelRequested", d))
               /\ EventProps(RecordedEvent("RequestCancelActivityTaskFailed", d))
    BY <2>2, <2>3 DEF EventProps, DecisionProps, AskTypes
  <2>6. ClosesWorkflow(d) => EventProps(RecordedEvent(CloseEvent[d.what], d)) \/ d.what = "CancelledError"
    <3> SUFFICES ASSUME ClosesWorkflow(d), d.what # "CancelledError"
                 PROVE  EventProps(RecordedEvent(CloseEvent[d.what], d))
      OBVIOUS
    <3>1. CloseEvent[d.what] \in close_types
      <4>1. d.what \in {"Complete", "Fail", "ContinueAsNew"}
        BY OutcomesAssumption DEF ClosesWorkflow
      <4>2. /\ CloseEvent["Complete"] = "WorkflowExecutionCompleted"
            /\ CloseEvent["Fail"] = "WorkflowExecutionFailed"
            /\ CloseEvent["ContinueAsNew"] = "WorkflowExecutionContinuedAsNew"
        BY DEF CloseEvent
      <4> QED BY <4>1, <4>2 DEF close_types
    <3> QED BY <1>2, <2>3, <3>1 DEF close_types, StartTypes, AskTypes
  <2>7. d.what # "CancelledError"
    <3>1. Sendable(history, d)
      <4>1. decisions # << >>
        BY <1>16 DEF RecordDecision
      <4> QED BY <1>1, <2>1, <4>1, HeadAndTail DEF HistoryInv, AnswerInv
    <3> QED BY <3>1 DEF Sendable
  <2>8. \/ \E e : EventProps(e) /\ history' = Append(history, e)
        \/ \E e, f : EventProps(e) /\ EventProps(f) /\ history' = history \o << e, f >>
    BY <1>16, <2>1, <2>4, <2>5, <2>6, <2>7 DEF RecordDecision
  <2>9. \A i \in DOMAIN history' : EventProps(history'[i])
    <3>1. CASE \E e : EventProps(e) /\ history' = Append(history, e)
      BY <1>6, <3>1
    <3>2. CASE \E e, f : EventProps(e) /\ EventProps(f) /\ history' = history \o << e, f >>
      <4>1. PICK e, f : EventProps(e) /\ EventProps(f) /\ history' = history \o << e, f >>
        BY <3>2
      <4>2. PICK new : new = << e, f >>
        OBVIOUS
      <4>3. IsSeq(new) /\ \A k \in DOMAIN new : EventProps(new[k])
        BY <1>5, <4>1, <4>2
      <4> QED BY <1>1, <1>3, <4>1, <4>2, <4>3
    <3> QED BY <2>8, <3>1, <3>2
  <2>10. state_machines' = state_machines
    BY <1>16 DEF RecordDecision, managerVars
  <2> QED BY <1>1, <2>2, <2>9, <2>10 DEF PropsInv, MachineProps
<1>17. CASE FinishDecisionTask
  <2>1. \A i \in DOMAIN history' : EventProps(history'[i])
    BY <1>1, <1>3, <1>4, <1>17 DEF FinishDecisionTask
  <2> QED BY <1>8, <1>17, <2>1 DEF FinishDecisionTask, DropEngine, NewManager
<1> QED BY <1>11, <1>12, <1>13, <1>14, <1>15, <1>16, <1>17 DEF ServiceNext

\* No batch that is replayed ends the workflow.
NoneEnded == InBatch /\ batch.replay => COMPLETION_ID \notin DOMAIN state_machines

\* A new batch has one entry for every output event, and none of them is met.
LEMMA NextBatchEntries ==
    ASSUME IInv, IInv', EngineStateInv, EntriesInv, NextDecisionEvents, phase' = "input"
    PROVE  EntriesInv' /\ (\A k \in DOMAIN batch'.output : ~Met(k)') /\ phase = "next"
<1>1. /\ phase = "next"
      /\ expectations' = expectations \o
             [i \in DOMAIN OutputEvents(batch') |-> Expectation(OutputEvents(batch')[i])]
      /\ UNCHANGED << serviceVars >>
  BY NextBatchFacts DEF EngineStateInv
<1>2. PICK s : IsBatch(history, pos, batch', s)
  BY NextBatchFacts DEF EngineStateInv
<1>3. PlaceInv' /\ history' = history
  BY <1>1, NextBatchIsInPlace DEF EngineStateInv, serviceVars
<1>4. PICK b : b = batch'
  OBVIOUS
<1>5. PICK n \in Nat : n = Len(b.output) /\ DOMAIN b.output = 1..n
  BY <1>3, <1>4, LenProperties DEF PlaceInv, BatchInv, InBatch, EnginePhases, IsSeq
<1>6. DOMAIN OutputEvents(b) = 1..n
  BY <1>5, OutputEventsIsSeq
<1>7. PICK added : added = [k \in 1..n |-> Expectation(OutputEvents(b)[k])]
  OBVIOUS
<1>8. IsSeq(added) /\ DOMAIN added = 1..n /\ Len(added) = n
  BY <1>5, <1>7, FunctionIsSeq
<1>9. expectations' = << >> \o added
  BY <1>1, <1>4, <1>6, <1>7 DEF EntriesInv
<1>10. << >> \o added = added
  BY <1>8 DEF IsSeq
<1>11. \A k \in 1..n : OutEvent(k)' = history[b.output[k]] /\ OutputEvents(b)[k] = history[b.output[k]]
  BY <1>3, <1>4, <1>5 DEF OutEvent, OutputEvents
<1>12. \A k \in 1..n : /\ expectations'[k].id = OutEvent(k)'.id
                       /\ expectations'[k].upcoming = upcomingFor(OutEvent(k)')
  BY <1>7, <1>9, <1>10, <1>11 DEF Expectation
<1>13. DOMAIN expectations' = DOMAIN batch'.output /\ DOMAIN batch'.output = 1..n
  BY <1>4, <1>5, <1>8, <1>9, <1>10
<1>14. ASSUME NEW j \in DOMAIN batch'.output, NEW k \in DOMAIN batch'.output,
              Asked(j)', Asked(k)', OutEvent(j)'.id = OutEvent(k)'.id
       PROVE  j = k
  <2>1. j \in Expected' /\ k \in Expected'
    BY <1>12, <1>13, <1>14 DEF Expected, Asked
  <2>2. TrackerHoldsOneEntry'
    BY DEF IInv, ManagerInv, TrackerInv
  <2>3. expectations'[j].id = expectations'[k].id
    BY <1>12, <1>13, <1>14
  <2> QED BY <2>1, <2>2, <2>3 DEF TrackerHoldsOneEntry
<1>15. \A k \in DOMAIN batch'.output : ~Met(k)'
  BY <1>12, <1>13 DEF Met, Asked
<1> QED BY <1>1, <1>12, <1>13, <1>14, <1>15 DEF EntriesInv

\* In the batch entries are met, one after the other.
LEMMA EntriesStay ==
    ASSUME IInv, EntriesInv, phase \in TrackedPhases, phase' \in TrackedPhases, UNCHANGED << history, batch >>,
           \/ UNCHANGED expectations
           \/ \E i \in DOMAIN batch.output : expectations' = [expectations EXCEPT ![i].upcoming = << >>]
    PROVE  EntriesInv'
<1>1. /\ DOMAIN expectations = DOMAIN batch.output
      /\ \A k \in DOMAIN batch.output :
             /\ expectations[k].id = OutEvent(k).id
             /\ expectations[k].upcoming \in {<< >>, upcomingFor(OutEvent(k))}
      /\ \A j, k \in DOMAIN batch.output :
             Asked(j) /\ Asked(k) /\ OutEvent(j).id = OutEvent(k).id => j = k
  BY DEF EntriesInv
<1>2. \A k : OutEvent(k)' = OutEvent(k) /\ (Asked(k)' <=> Asked(k))
  BY DEF OutEvent, Asked
<1>3. /\ DOMAIN expectations' = DOMAIN batch.output
      /\ \A k \in DOMAIN batch.output :
             /\ expectations'[k].id = expectations[k].id
             /\ expectations'[k].upcoming \in {<< >>, expectations[k].upcoming}
  <2>1. CASE UNCHANGED expectations
    BY <1>1, <2>1
  <2>2. CASE \E i \in DOMAIN batch.output : expectations' = [expectations EXCEPT ![i].upcoming = << >>]
    <3>1. PICK i \in DOMAIN batch.output : expectations' = [expectations EXCEPT ![i].upcoming = << >>]
      BY <2>2
    <3>2. \A k \in DOMAIN batch.output : EntryOK(expectations[k])
      BY <1>1 DEF IInv, ManagerInv, TrackerInv
    <3> QED BY <1>1, <3>1, <3>2 DEF EntryOK
  <2> QED BY <2>1, <2>2
<1> QED BY <1>1, <1>2, <1>3 DEF EntriesInv, TrackedPhases

\* The tracker's entries in every step of the worker.
LEMMA WorkerKeepsEntries ==
    ASSUME ~ImmediateCancel, IInv, IInv', HistoryInv, EngineStateInv, EngineStateInv', NoneEnded',
           EntriesInv, EngineNext \/ WorkflowNext
    PROVE  EntriesInv'
<1>0. ASSUME phase' \notin EnginePhases PROVE EntriesInv'
  BY <1>0 DEF EntriesInv, TrackedPhases, EnginePhases
<1>1. CASE NextDecisionEvents
  <2>1. phase' = "input" \/ phase' = "failed"
    BY <1>1 DEF NextDecisionEvents, Continue
  <2> QED BY <1>0, <1>1, <2>1, NextBatchEntries DEF EnginePhases
<1>2. CASE CollectDecisions
  BY <1>0, <1>2 DEF CollectDecisions, EnginePhases
<1>3. CASE ApplyInputEvent
  <2>1. phase = "input" /\ (phase' = "input" \/ phase' = "failed") /\ UNCHANGED << history, batch, expectations >>
    BY <1>3 DEF ApplyInputEvent, Continue, serviceVars, handle_history_event
  <2> QED BY SMTT(30), <1>0, <2>1, EntriesStay DEF EnginePhases, TrackedPhases
<1>4. CASE StartRun \/ Yield \/ RejectionUnwinds \/ \E outcome \in Outcomes : Ends(outcome)
  <2>1. phase \in TrackedPhases /\ phase' \in TrackedPhases /\ UNCHANGED << history, batch, expectations >>
    BY <1>4 DEF StartRun, Yield, RejectionUnwinds, Ends, Calls, serviceVars, managerVars, TrackedPhases
  <2> QED BY <2>1, EntriesStay
<1>5. ASSUME phase = "run", phase' = "run", UNCHANGED << history, batch >>, NEW id, NEW props,
             expectations' = expectations \/ (Accepted(id, props) /\ expectations' = Consumed(id))
      PROVE  EntriesInv'
  <2>1. InBatch /\ PlaceInv /\ phase \in TrackedPhases /\ phase' \in TrackedPhases
    BY <1>5 DEF InBatch, EnginePhases, EngineStateInv, TrackedPhases
  <2>2. CASE UNCHANGED expectations \/ ~replaying
    BY <1>5, <2>1, <2>2, EntriesStay DEF Consumed
  <2>3. CASE replaying /\ ~UNCHANGED expectations
    <3>1. Validates(id, props) /\ expectations' = Consumed(id)
      BY <1>5, <2>3 DEF Accepted
    <3>2. PICK i \in DOMAIN batch.output :
              /\ Asked(i) /\ OutEvent(i).id = id
              /\ i \in Expected /\ IsNextExpectation(i)
              /\ Match(upcomingFor(OutEvent(i))[1], props)
              /\ Consumed(id) = [expectations EXCEPT ![i].upcoming = << >>]
      BY <2>1, <2>3, <3>1, OneEntryLess
    <3> QED BY <1>5, <2>1, <3>1, <3>2, EntriesStay
  <2> QED BY <2>2, <2>3
<1>6. ASSUME NEW type, NEW props, NEW request, Request(type, props, request), NEW op, Calls(op) PROVE EntriesInv'
  <2>1. PICK id : id = DecisionId(type, id_counter)
    OBVIOUS
  <2>2. expectations' = expectations \/ (Accepted(id, props) /\ expectations' = Consumed(id))
    BY <1>6, <2>1 DEF Request
  <2>3. phase = "run" /\ phase' = "run" /\ UNCHANGED << history, batch >>
    BY <1>6 DEF Calls, serviceVars
  <2> QED BY <1>5, <2>2, <2>3
<1>7. ASSUME NEW id, request_cancel(id), phase = "run", phase' = "run", UNCHANGED << history, batch >>
      PROVE  EntriesInv'
  <2>1. expectations' = expectations \/ (Accepted(id, CANCEL) /\ expectations' = Consumed(id))
    BY <1>7 DEF request_cancel, Reject
  <2> QED BY <1>5, <1>7, <2>1
<1>8. ASSUME NEW t \in ActivityTypes, ExecuteActivity(t) PROVE EntriesInv'
  BY <1>6, <1>8 DEF ExecuteActivity, schedule_activity
<1>9. CASE StartTimer
  BY <1>6, <1>9 DEF StartTimer, start_timer
<1>10. ASSUME NEW id, CancelFuture(id) \/ AutomaticCancel(id) PROVE EntriesInv'
  <2>1. phase = "run" /\ phase' = "run" /\ UNCHANGED << history, batch >> /\ request_cancel(id)
    BY <1>10 DEF CancelFuture, Calls, AutomaticCancel, serviceVars, engineVars
  <2> QED BY <1>7, <2>1
<1>11. CASE MaybeCompleteWorkflow
  <2>1. /\ phase = "complete" /\ UNCHANGED << history, batch >>
        /\ \/ phase' = "failed"
           \/ phase' = "end" /\ UNCHANGED managerVars
           \/ phase' = "end" /\ raised' = "none" /\ complete_workflow(task)
    BY <1>11 DEF MaybeCompleteWorkflow, Continue, serviceVars
  <2>2. CASE phase' = "failed"
    BY <1>0, <2>2 DEF EnginePhases
  <2>3. CASE phase' = "end" /\ UNCHANGED managerVars
    BY <2>1, <2>3, EntriesStay DEF managerVars, TrackedPhases
  <2>4. CASE phase' = "end" /\ raised' = "none" /\ complete_workflow(task)
    <3>1. ~batch.replay
      <4>1. COMPLETION_ID \in DOMAIN state_machines'
        BY <2>4 DEF complete_workflow, Add, Reject
      <4> QED BY <2>1, <2>4, <4>1 DEF NoneEnded, InBatch, EnginePhases
    <3>2. ~replaying
      BY <2>1, <3>1 DEF EngineStateInv, PlaceInv, BatchInv, InBatch, EnginePhases
    <3>3. UNCHANGED expectations
      BY <2>4, <3>2 DEF complete_workflow, Consumed
    <3> QED BY <2>1, <2>4, <3>3, EntriesStay DEF TrackedPhases
  <2> QED BY <2>1, <2>2, <2>3, <2>4
<1>12. CASE EndExecution
  <2>1. phase = "end" /\ (phase' = "failed" \/ (phase' = "output" /\ raised' = "none")) /\ end_execution
    BY <1>12 DEF EndExecution, Continue
  <2>2. CASE phase' = "failed"
    BY <1>0, <2>2 DEF EnginePhases
  <2>3. CASE phase' = "output" /\ raised' = "none"
    <3>1. CASE replaying
      BY <2>1, <2>3, <3>1 DEF end_execution, Reject, EntriesInv, TrackedPhases
    <3>2. CASE ~replaying
      <4>1. IsSeq(expectations) /\ DOMAIN expectations = DOMAIN batch.output
        BY <2>1 DEF IInv, ManagerInv, TrackerInv, EntriesInv, TrackedPhases
      <4>2. batch.output = << >>
        BY <2>1, <3>2 DEF EngineStateInv, PlaceInv, BatchInv, InBatch, EnginePhases
      <4>3. expectations = << >>
        BY <4>1, <4>2, EmptyIsSeq, SameElements
      <4> QED BY <2>1, <2>3, <3>2, <4>3 DEF end_execution, EntriesInv, TrackedPhases
    <3> QED BY <3>1, <3>2
  <2> QED BY <2>1, <2>2, <2>3
<1>13. CASE ApplyOutputEvent \/ FinishBatch
  <2>1. /\ phase = "output" /\ UNCHANGED expectations
        /\ phase' \in {"output", "next", "failed"}
    BY <1>13 DEF ApplyOutputEvent, FinishBatch, handle_history_event, managerVars, Continue
  <2> QED BY SMTT(30), <2>1 DEF EntriesInv, TrackedPhases
<1> QED BY <1>1, <1>2, <1>3, <1>4, <1>8, <1>9, <1>10, <1>11, <1>12, <1>13
    DEF EngineNext, WorkflowNext, Return, continue_as_new

\* And without one.
LEMMA ServiceKeepsEntries ==
    ASSUME EngineStateInv, ServiceNext
    PROVE  EntriesInv'
<1>1. CASE PollDecisionTask
  <2>1. phase' = "next" /\ expectations' = << >>
    BY <1>1 DEF PollDecisionTask, managerVars, EngineStateInv, IdleInv
  <2> QED BY <2>1 DEF EntriesInv, TrackedPhases
<1>2. CASE ~PollDecisionTask
  <2>1. phase' \notin EnginePhases
    BY <1>2, ServiceLeavesTheEngine
  <2> QED BY <2>1 DEF EntriesInv, TrackedPhases, EnginePhases
<1> QED BY <1>1, <1>2

\* Where nothing is met yet, everything is settled.
LEMMA NothingIsMet ==
    ASSUME Settled', \A k \in DOMAIN batch'.output : ~Met(k)'
    PROVE  TrackInv'
BY DEF TrackInv, InTurn, AllTold, NothingElse, OrderedAsMet, Settled

\* Steps that leave the machines and the tracker alone.
LEMMA TrackStays ==
    ASSUME TrackInv, phase \in TrackedPhases, task = "FatalDecisionError" => task' = "FatalDecisionError",
           UNCHANGED << history, batch, state_machines, order, expectations >>
    PROVE  TrackInv'
<1>1. \A k : OutEvent(k)' = OutEvent(k) /\ (Asked(k)' <=> Asked(k)) /\ (Met(k)' <=> Met(k)) /\ (Tells(k)' <=> Tells(k))
  BY DEF OutEvent, Asked, Met, Tells, Silent, StateOf
<1>2. \A id : Silent(id)' <=> Silent(id)
  BY DEF Silent, StateOf
<1>3. Tracked' => Tracked
  BY DEF Tracked
<1> QED BY <1>1, <1>2, <1>3 DEF TrackInv, InTurn, AllTold, NothingElse, OrderedAsMet

\* What is tracked, in every step of the worker.
LEMMA WorkerKeepsTrack ==
    ASSUME ~ImmediateCancel, IInv, IInv', LastInv, HistoryInv, EngineStateInv, Unwinds, Unwinds', LetThrough',
           NumberedInv, AckInv, AckInv', NoneEnded', PropsInv, EntriesInv, TrackInv, EngineNext \/ WorkflowNext
    PROVE  TrackInv'
<1>0. ASSUME phase' \notin TrackedPhases \/ task' = "FatalDecisionError" PROVE TrackInv'
  BY <1>0 DEF TrackInv, Tracked
<1>1. CASE NextDecisionEvents
  <2>1. phase' = "input" \/ phase' = "failed"
    BY <1>1 DEF NextDecisionEvents, Continue
  <2>2. CASE phase' = "input"
    <3>1. \A k \in DOMAIN batch'.output : ~Met(k)'
      BY <1>1, <2>2, NextBatchEntries
    <3>2. Settled'
      BY <2>2 DEF AckInv, Unwinds
    <3> QED BY <3>1, <3>2, NothingIsMet
  <2> QED BY <1>0, <2>1, <2>2 DEF TrackedPhases
<1>2. CASE CollectDecisions
  BY <1>0, <1>2 DEF CollectDecisions, TrackedPhases
<1>3. CASE ApplyInputEvent
  <2>1. phase = "input" /\ (phase' = "input" \/ phase' = "failed") /\ UNCHANGED << history, batch, expectations >>
    BY <1>3 DEF ApplyInputEvent, Continue, serviceVars, handle_history_event
  <2>2. CASE phase' = "input" /\ batch.replay
    <3>1. task # "FatalDecisionError" /\ Settled /\ Settled'
      BY <2>1, <2>2 DEF EngineStateInv, FatalInv, AckInv, Unwinds
    <3>2. AllTold
      BY <2>1, <2>2, <3>1 DEF TrackInv, Tracked, TrackedPhases
    <3>3. \A k \in DOMAIN batch.output : ~Met(k)
      BY <3>1, <3>2 DEF AllTold, Tells, Settled
    <3>4. \A k : Met(k)' <=> Met(k)
      BY <2>1 DEF Met, Asked, OutEvent
    <3> QED BY <2>1, <3>1, <3>3, <3>4, NothingIsMet
  <2>3. CASE phase' = "failed" \/ ~batch.replay
    BY <2>1, <2>3 DEF TrackInv, Tracked, TrackedPhases
  <2> QED BY SMTT(30), <2>1, <2>2, <2>3
<1>4. CASE StartRun \/ Yield
  <2>1. /\ phase \in TrackedPhases
        /\ UNCHANGED << history, batch, state_machines, order, expectations, task >>
    BY <1>4 DEF StartRun, Yield, serviceVars, managerVars, TrackedPhases
  <2> QED BY <2>1, TrackStays
<1>5. ASSUME NEW outcome \in Outcomes, Ends(outcome) PROVE TrackInv'
  <2>1. /\ phase = "run" /\ task = "running"
        /\ UNCHANGED << history, batch, state_machines, order, expectations >>
    BY <1>5 DEF Ends, Calls, serviceVars, managerVars
  <2> QED BY <2>1, TrackStays DEF TrackedPhases
<1>6. ASSUME NEW type \in {"ACTIVITY", "TIMER"}, NEW props, RequestProps(type, props), NEW request,
             Request(type, props, request), NEW op, Calls(op), Raises
      PROVE  TrackInv'
  <2>1. phase = "run" /\ phase' = "run" /\ task = "running" /\ UNCHANGED << history, batch >>
    BY <1>6 DEF Calls, serviceVars
  <2>2. CASE raised' # "none"
    BY <1>0, <1>6, <2>2 DEF Raises, LetThrough
  <2>3. CASE raised' = "none" /\ batch.replay
    <3>1. Tracked
      BY <2>1, <2>3 DEF Tracked, TrackedPhases
    <3> QED BY <1>6, <2>1, <2>3, <3>1, RequestIsTracked
  <2>4. CASE ~batch.replay
    BY <2>1, <2>4 DEF TrackInv, Tracked
  <2> QED BY <2>2, <2>3, <2>4
<1>7. ASSUME NEW t \in ActivityTypes, ExecuteActivity(t) PROVE TrackInv'
  BY <1>6, <1>7 DEF ExecuteActivity, schedule_activity, RequestProps
<1>8. CASE StartTimer
  BY <1>6, <1>8 DEF StartTimer, start_timer, RequestProps
<1>9. ASSUME NEW id, CancelFuture(id) PROVE TrackInv'
  <2>1. /\ phase = "run" /\ phase' = "run" /\ task = "running" /\ UNCHANGED << history, batch >>
        /\ request_cancel(id) /\ Raises /\ StateOf(id) # "REQUESTED"
    BY <1>9 DEF CancelFuture, Calls, serviceVars, StateOf
  <2>2. CASE raised' # "none"
    BY <1>0, <2>1, <2>2 DEF Raises, LetThrough
  <2>3. CASE raised' = "none" /\ batch.replay
    <3>1. Tracked
      BY <2>1, <2>3 DEF Tracked, TrackedPhases
    <3>2. TrackInv' \/ phase' \notin TrackedPhases \/ task' = "FatalDecisionError"
          \/ (UNCHANGED << state_machines, order, expectations >>)
      BY <2>1, <2>3, <3>1, CancelIsTracked
    <3>3. CASE UNCHANGED << state_machines, order, expectations >>
      BY <2>1, <3>3, TrackStays DEF TrackedPhases
    <3> QED BY <1>0, <3>2, <3>3
  <2>4. CASE ~batch.replay
    BY <2>1, <2>4 DEF TrackInv, Tracked
  <2> QED BY <2>2, <2>3, <2>4
<1>10. ASSUME NEW id, AutomaticCancel(id) PROVE TrackInv'
  BY <1>0, <1>10 DEF AutomaticCancel, engineVars
<1>13. CASE RejectionUnwinds
  BY <1>0, <1>13 DEF RejectionUnwinds
<1>11. CASE MaybeCompleteWorkflow
  <2>1. /\ phase = "complete" /\ UNCHANGED << history, batch, task >>
        /\ \/ phase' = "failed"
           \/ phase' = "end" /\ UNCHANGED managerVars
           \/ phase' = "end" /\ raised' = "none" /\ complete_workflow(task)
    BY <1>11 DEF MaybeCompleteWorkflow, Continue, serviceVars
  <2>2. CASE phase' = "failed"
    BY <1>0, <2>2 DEF TrackedPhases
  <2>3. CASE phase' = "end" /\ UNCHANGED managerVars
    BY <2>1, <2>3, TrackStays DEF managerVars, TrackedPhases
  <2>4. CASE phase' = "end" /\ raised' = "none" /\ complete_workflow(task)
    <3>1. COMPLETION_ID \in DOMAIN state_machines'
      BY <2>4 DEF complete_workflow, Add, Reject
    <3>2. ~batch'.replay
      BY <2>4, <3>1 DEF NoneEnded, InBatch, EnginePhases
    <3> QED BY <3>2 DEF TrackInv, Tracked
  <2> QED BY <2>1, <2>2, <2>3, <2>4
<1>12. CASE EndExecution \/ ApplyOutputEvent \/ FinishBatch
  BY <1>0, <1>12 DEF EndExecution, ApplyOutputEvent, FinishBatch, Continue, TrackedPhases
<1> QED BY <1>1, <1>2, <1>3, <1>4, <1>5, <1>7, <1>8, <1>9, <1>10, <1>11, <1>12, <1>13
    DEF EngineNext, WorkflowNext, Return, continue_as_new

\* And of the service.
LEMMA ServiceKeepsTrack ==
    ASSUME ServiceNext
    PROVE  TrackInv'
<1>1. CASE PollDecisionTask
  BY <1>1 DEF PollDecisionTask, TrackInv, Tracked, TrackedPhases
<1>2. CASE ~PollDecisionTask
  <2>1. phase' \notin EnginePhases
    BY <1>2, ServiceLeavesTheEngine
  <2> QED BY <2>1 DEF TrackInv, Tracked, TrackedPhases, EnginePhases
<1> QED BY <1>1, <1>2

\* What the tracker lets pass when it is left is what it was told: as many
\* decisions as there are recorded ones, each of them the recorded one.
LEMMA AcceptedIsRecorded ==
    ASSUME ~ImmediateCancel, IInv, HistoryInv, EngineStateInv, EntriesInv, TrackInv, NoneEnded,
           phase = "end", batch.replay, EndExecution, phase' = "output"
    PROVE  ReplaySound'
<1>1. /\ InBatch /\ PlaceInv /\ replaying /\ task # "FatalDecisionError" /\ phase \in TrackedPhases
      /\ MachinesInv /\ IsSeq(expectations)
  BY DEF InBatch, EnginePhases, EngineStateInv, PlaceInv, BatchInv, FatalInv, TrackedPhases,
         IInv, ManagerInv, TrackerInv
<1>2. /\ Expected = {} /\ UNCHANGED << history, batch, state_machines, order >>
  <2>1. raised' = "none" /\ end_execution
    BY DEF EndExecution, Continue
  <2> QED BY <1>1, <2>1 DEF end_execution, Reject, EndExecution, serviceVars
<1>3. InTurn /\ AllTold /\ NothingElse /\ OrderedAsMet
  BY <1>1 DEF TrackInv, Tracked
<1>4. COMPLETION_ID \notin DOMAIN state_machines
  BY <1>1 DEF NoneEnded
<1>5. /\ DOMAIN expectations = DOMAIN batch.output
      /\ \A j, k \in DOMAIN batch.output :
             Asked(j) /\ Asked(k) /\ OutEvent(j).id = OutEvent(k).id => j = k
  BY <1>1 DEF EntriesInv
<1>6. \A k \in DOMAIN batch.output : Asked(k) <=> Met(k)
  BY <1>2, <1>5 DEF Expected, Met
<1>7. PICK c : c = collect_pending_decisions
  OBVIOUS
<1>8. PICK w : CollectedFrom(c, Len(order), w)
  BY <1>1, <1>7, CollectedInOrder
<1>9. PICK n : n = Len(c)
  OBVIOUS
<1>10. PICK N : N = Len(order)
  OBVIOUS
<1>11. /\ n \in Nat /\ DOMAIN c = 1..n
       /\ \A i \in 1..n : w[i] \in 1..N /\ Sends(w[i]) /\ c[i] = SentOf(w[i])
       /\ \A i, j \in 1..n : i < j => w[i] < w[j]
       /\ \A m \in 1..N : Sends(m) => \E i \in 1..n : w[i] = m
  BY Zenon, <1>8, <1>9, <1>10, LenProperties DEF CollectedFrom, IsSeq
<1>12. /\ DOMAIN order = 1..N
       /\ DOMAIN state_machines = {order[a] : a \in DOMAIN order}
  BY <1>1, <1>10, LenProperties DEF MachinesInv, OrderIsKeys
<1>13. \A id \in DOMAIN state_machines : HasDecision(id, state_machines[id]) <=> ~Silent(id)
  <2>1. \A id \in DOMAIN state_machines : id # COMPLETION_ID
    BY <1>4
  <2> QED BY <2>1 DEF HasDecision, Silent, StateOf
<1>14. \A a \in 1..N : Sends(a) <=> ~Silent(order[a])
  BY <1>12, <1>13 DEF Sends
<1>15. PICK S : S = {k \in DOMAIN batch.output : Met(k)}
  OBVIOUS
<1>16. \A i \in 1..n : \E k \in S : OutEvent(k).id = order[w[i]]
  <2> SUFFICES ASSUME NEW i \in 1..n PROVE \E k \in S : OutEvent(k).id = order[w[i]]
    OBVIOUS
  <2>1. w[i] \in 1..N /\ ~Silent(order[w[i]])
    BY <1>11, <1>14
  <2>2. order[w[i]] \in DOMAIN state_machines \ {COMPLETION_ID}
    BY <1>4, <1>12, <2>1
  <2> QED BY <1>3, <1>15, <2>1, <2>2 DEF NothingElse
<1>17. PICK f : f = [i \in 1..n |-> CHOOSE k \in S : OutEvent(k).id = order[w[i]]]
  OBVIOUS
<1>18. f \in [1..n -> S] /\ \A i \in 1..n : f[i] \in S /\ OutEvent(f[i]).id = order[w[i]]
  BY <1>16, <1>17
<1>19. \A i, j \in 1..n : i < j => f[i] < f[j]
  <2> SUFFICES ASSUME NEW i \in 1..n, NEW j \in 1..n, i < j PROVE f[i] < f[j]
    OBVIOUS
  <2>1. w[i] \in DOMAIN order /\ w[j] \in DOMAIN order /\ w[i] < w[j]
    BY <1>11, <1>12
  <2>2. PICK a : a = w[i]
    OBVIOUS
  <2>3. PICK b : b = w[j]
    OBVIOUS
  <2>4. PICK k : k = f[i]
    OBVIOUS
  <2>5. PICK l : l = f[j]
    OBVIOUS
  <2>6. /\ k \in DOMAIN batch.output /\ l \in DOMAIN batch.output /\ Met(k) /\ Met(l)
        /\ order[a] = OutEvent(k).id /\ order[b] = OutEvent(l).id
    BY <1>15, <1>18, <2>2, <2>3, <2>4, <2>5
  <2> QED BY <1>3, <2>1, <2>2, <2>3, <2>4, <2>5, <2>6 DEF OrderedAsMet
<1>20. \A k \in S : \E i \in 1..n : f[i] = k
  <2> SUFFICES ASSUME NEW k \in S PROVE \E i \in 1..n : f[i] = k
    OBVIOUS
  <2>1. k \in DOMAIN batch.output /\ Met(k) /\ Tells(k)
    BY <1>3, <1>15 DEF AllTold
  <2>2. OutEvent(k).id \in DOMAIN state_machines /\ ~Silent(OutEvent(k).id)
    BY <2>1 DEF Tells
  <2>3. PICK a \in 1..N : order[a] = OutEvent(k).id
    BY <1>12, <2>2
  <2>4. PICK i \in 1..n : w[i] = a
    BY <1>11, <1>14, <2>2, <2>3
  <2>5. f[i] \in DOMAIN batch.output /\ Met(f[i]) /\ OutEvent(f[i]).id = OutEvent(k).id
    BY <1>15, <1>18, <2>3, <2>4
  <2>6. Asked(f[i]) /\ Asked(k)
    BY <2>1, <2>5 DEF Met
  <2> QED BY <1>5, <2>1, <2>5, <2>6
<1>21. S \subseteq Nat /\ IsFiniteSet(S)
  <2>1. IsSeq(batch.output)
    BY <1>1 DEF PlaceInv, BatchInv
  <2>2. PICK m : m = Len(batch.output)
    OBVIOUS
  <2>3. m \in Nat /\ DOMAIN batch.output = 1..m
    BY <2>1, <2>2, LenProperties DEF IsSeq
  <2>4. S \subseteq 1..m
    BY <1>15, <2>3
  <2>5. IsFiniteSet(1..m) /\ S \in SUBSET (1..m)
    BY <2>3, <2>4, FS_Interval
  <2>6. IsFiniteSet(S)
    BY <2>5, FS_Subset
  <2>7. S \subseteq Nat
    BY <2>3, <2>4
  <2> QED BY <2>6, <2>7
<1>22. PICK binding : binding = Ascending(S)
  OBVIOUS
<1>23. DOMAIN binding = 1..n /\ \A i \in 1..n : binding[i] = f[i]
  <2>1. S \subseteq Nat /\ IsFiniteSet(S) /\ n \in Nat /\ f \in [1..n -> S]
    BY <1>11, <1>18, <1>21
  <2>2. DOMAIN Ascending(S) = 1..n /\ \A k \in 1..n : Ascending(S)[k] = f[k]
    BY <1>19, <1>20, <2>1, AscendingIsUnique
  <2> QED BY <1>22, <2>2
<1>24. Len(binding) = n
  <2>1. IsSeq(Ascending(S))
    BY <1>21, AscendingEnumerates
  <2> QED BY <1>11, <1>22, <1>23, <2>1, LenProperties DEF IsSeq
<1>25. PICK recorded : recorded = OutputEvents(batch)
  OBVIOUS
<1>26. DOMAIN recorded = DOMAIN batch.output /\ \A k \in DOMAIN batch.output : recorded[k] = OutEvent(k)
  BY <1>25 DEF OutputEvents, OutEvent
<1>27. {k \in DOMAIN recorded : recorded[k].type # "RequestCancelActivityTaskFailed"} = S
  <2>1. \A k \in DOMAIN batch.output : Asked(k) <=> OutEvent(k).type # "RequestCancelActivityTaskFailed"
    BY <1>1, WhatIsAsked
  <2> QED BY <1>6, <1>15, <1>26, <2>1
<1>28. ASSUME NEW i \in 1..n
       PROVE  Says(c[i], recorded[binding[i]])
  <2>1. PICK k : k = f[i]
    OBVIOUS
  <2>2. k \in DOMAIN batch.output /\ Tells(k) /\ OutEvent(k).id = order[w[i]]
    BY <1>3, <1>15, <1>18, <2>1 DEF AllTold
  <2>3. recorded[binding[i]] = OutEvent(k)
    BY <1>23, <1>26, <2>1, <2>2
  <2>4. c[i] = GetDecision(OutEvent(k).id, state_machines[OutEvent(k).id])
    BY <1>11, <2>2 DEF SentOf
  <2> QED BY <2>2, <2>3, <2>4 DEF Tells, Says
<1>29. collect_pending_decisions' = c /\ OutputEvents(batch)' = recorded
  BY <1>2, <1>7, <1>25 DEF collect_pending_decisions, DecisionsOf, OutputEvents
<1>30. PICK told : told = [i \in DOMAIN binding |-> recorded[binding[i]]]
  OBVIOUS
<1>31. Binding' = told
  BY <1>22, <1>27, <1>29, <1>30 DEF Binding
<1>32. Len(told) = n
  <2>1. DOMAIN told = 1..n
    BY <1>23, <1>30
  <2>2. IsSeq(told)
    BY <1>11, <1>23, <1>30 DEF IsSeq
  <2> QED BY <1>11, <2>1, <2>2, LenProperties DEF IsSeq
<1>33. \A i \in DOMAIN c : Says(c[i], told[i])
  BY <1>11, <1>23, <1>28, <1>30
<1>34. \A d, e : Says(d, e)' <=> Says(d, e)
  BY DEF Says, RecordedAs
<1> QED BY <1>9, <1>29, <1>31, <1>32, <1>33 DEF ReplaySound, Says

\* Only the tracker's end accepts a batch.
LEMMA WorkerKeepsSound ==
    ASSUME ~ImmediateCancel, IInv, HistoryInv, EngineStateInv, EntriesInv, TrackInv, NoneEnded, ReplaySound,
           EngineNext \/ WorkflowNext
    PROVE  ReplaySound'
<1>1. CASE EndExecution
  <2>1. phase = "end" /\ UNCHANGED batch
    BY <1>1 DEF EndExecution
  <2>2. CASE phase' = "output" /\ batch.replay
    BY <1>1, <2>1, <2>2, AcceptedIsRecorded
  <2>3. CASE ~(phase' = "output" /\ batch.replay)
    BY <2>1, <2>3 DEF ReplaySound, BatchAccepted
  <2> QED BY <2>2, <2>3
<1>2. CASE ApplyOutputEvent
  <2>1. /\ phase = "output" /\ todo # << >> /\ todo' = Tail(todo) /\ UNCHANGED batch
    BY <1>2 DEF ApplyOutputEvent
  <2>2. IsSeq(todo) /\ Len(todo) <= Len(batch.output) /\ IsSeq(batch.output)
    BY <2>1 DEF EngineStateInv, PlaceInv, TodoInv, BatchInv, InBatch, EnginePhases
  <2>3. Tail(todo) # batch.output
    <3>1. PICK m : m = Len(todo)
      OBVIOUS
    <3>2. PICK n : n = Len(batch.output)
      OBVIOUS
    <3>3. m \in Nat /\ DOMAIN todo = 1..m /\ DOMAIN Tail(todo) = 1..(m - 1) /\ 1 \in DOMAIN todo
      BY <2>1, <2>2, <3>1, HeadAndTail
    <3>4. n \in Nat /\ DOMAIN batch.output = 1..n /\ m <= n
      BY <2>2, <3>1, <3>2, LenProperties DEF IsSeq
    <3>5. m \in 1..n /\ m \notin 1..(m - 1)
      BY <3>3, <3>4
    <3> QED BY <3>3, <3>4, <3>5
  <2> QED BY <2>1, <2>3 DEF ReplaySound, BatchAccepted
<1>3. CASE ~EndExecution /\ ~ApplyOutputEvent
  <2>1. phase' # "output"
    <3>1. ASSUME NEW op, Calls(op) PROVE phase' # "output"
      BY <3>1 DEF Calls
    <3>2. ASSUME NEW id, AutomaticCancel(id) PROVE phase' # "output"
      BY <3>2 DEF AutomaticCancel, engineVars
    <3>3. CASE WorkflowNext
      BY <3>1, <3>2, <3>3 DEF WorkflowNext, ExecuteActivity, StartTimer, CancelFuture, Return, continue_as_new,
                              Ends, Yield, RejectionUnwinds
    <3>4. CASE EngineNext
      BY <1>3, <3>4 DEF EngineNext, NextDecisionEvents, CollectDecisions, ApplyInputEvent, StartRun,
                        MaybeCompleteWorkflow, FinishBatch, Continue
    <3> QED BY <3>3, <3>4
  <2> QED BY <2>1 DEF ReplaySound, BatchAccepted
<1> QED BY <1>1, <1>2, <1>3

\* What a start or a cancellation is about is an activity or a timer.
LEMMA CompletionIsNotAsked ==
    ASSUME IInv, HistoryInv, NumberedInv, EngineStateInv
    PROVE  ~Recording(COMPLETION_ID)
<1> SUFFICES ASSUME Recording(COMPLETION_ID) PROVE FALSE
  OBVIOUS
<1>1. COMPLETION_ID.type = "WORKFLOW_COMPLETE"
  BY DEF COMPLETION_ID, DecisionId
<1>2. PICK p \in Elems(batch.output) \cap Pending :
          history[p].id = COMPLETION_ID /\ history[p].type \in StartTypes \cup CancelTypes
  BY DEF Recording
<1>3. IsSeq(history) /\ DOMAIN history = 1..Len(history) /\ Len(history) \in Nat
  BY LenProperties DEF IInv, ServiceInv, IsSeq
<1>4. p \in DOMAIN history
  <2>1. phase \in EnginePhases
    BY <1>2 DEF Pending, EnginePhases
  <2>2. pos \in 1..(Len(history) + 1)
    BY <2>1 DEF EngineStateInv, PlaceInv, PosInv
  <2>3. InBatch
    BY <1>2 DEF Pending, InBatch, EnginePhases
  <2>4. IsSeq(batch.output) /\ First \in Nat /\ \A k \in DOMAIN batch.output : batch.output[k] = First + k - 1
    BY <2>3 DEF EngineStateInv, PlaceInv, BatchInv
  <2>5. PICK n : n = Len(batch.output)
    OBVIOUS
  <2>6. n \in Nat /\ DOMAIN batch.output = 1..n /\ First = pos - n
    BY <2>4, <2>5, LenProperties DEF IsSeq, First
  <2>7. PICK k \in 1..n : p = First + k - 1
    BY <1>2, <2>4, <2>6 DEF Elems
  <2>8. First # 0
    BY <2>3, <1>3 DEF EngineStateInv, PlaceInv, BatchInv
  <2>9. PICK l : l = Len(history)
    OBVIOUS
  <2>10. l \in Nat /\ pos \in 1..(l + 1) /\ First \in Nat \ {0}
    BY <1>3, <2>2, <2>4, <2>8, <2>9
  <2>11. p \in 1..l
    BY <2>6, <2>7, <2>10
  <2> QED BY <1>3, <2>9, <2>11
<1>5. \A i \in DOMAIN history : history[i].type \in StartTypes => history[i].id.type # "WORKFLOW_COMPLETE"
  <2>1. \A i \in DOMAIN history :
            /\ history[i].type = "ActivityTaskScheduled" => history[i].id \in CommandIds("ACTIVITY")
            /\ history[i].type = "TimerStarted" => history[i].id \in CommandIds("TIMER")
    BY DEF NumberedInv, NumberedIn
  <2>2. \A id, t : id \in CommandIds(t) => id.type = t
    BY DEF CommandIds, DecisionId
  <2> QED BY <2>1, <2>2 DEF StartTypes
<1>6. CASE history[p].type \in CancelTypes
  <2>1. Follows(history, p - 1, history[p])
    BY <1>4 DEF HistoryInv, WrittenInv, Written
  <2>2. PICK i \in 1..(p - 1) : history[i].type \in StartTypes /\ history[i].id = history[p].id
    BY <1>6, <2>1 DEF Follows, StartTypes
  <2>3. i \in DOMAIN history
    BY <1>3, <1>4
  <2> QED BY <1>1, <1>2, <1>5, <2>2, <2>3
<1> QED BY <1>1, <1>2, <1>4, <1>5, <1>6

\* A workflow that was not rewritten, or cannot continue as new, does not end
\* in a batch that is replayed.
LEMMA ReplayEndsNothing ==
    ASSUME ~ImmediateCancel, Deterministic \/ "ContinueAsNew" \notin Outcomes
    PROVE  Spec => [](LetThrough => NoneEnded)
<1>1. ReplayInv /\ RunsOn => NoneEnded
  BY DEF ReplayInv, LastInv, CompletionInv, RunsOn, NoneEnded
<1>2. ReplayInv /\ CommandsInv /\ CompletionRecorded => NoneEnded
  BY CompletionIsNotAsked DEF ReplayInv, CommandsInv, CompletionRecorded, NoneEnded
<1>3. CASE Deterministic
  BY <1>1, <1>3, ReplayIsSound, ReplayRunsOn, PTL
<1>4. CASE "ContinueAsNew" \notin Outcomes
  BY <1>2, <1>4, ReplayIsSound, CommandsAreKept, CompletionIsRecorded, PTL
<1> QED BY <1>3, <1>4

\* What the tracker knows is kept, and what it accepts is the record.
LEMMA TrackIsKept ==
    ASSUME ~ImmediateCancel, Deterministic \/ "ContinueAsNew" \notin Outcomes
    PROVE  Spec => [](LetThrough => PropsInv /\ EntriesInv /\ TrackInv /\ ReplaySound)
<1>1. Init => PropsInv /\ EntriesInv /\ TrackInv /\ ReplaySound
  <2> SUFFICES ASSUME Init PROVE PropsInv /\ EntriesInv /\ TrackInv /\ ReplaySound
    OBVIOUS
  <2>1. /\ history = << Event("WorkflowExecutionStarted") >> /\ decisions = << >> /\ phase = "idle"
        /\ state_machines = << >>
    BY DEF Init, ManagerInit
  <2>2. PICK e : e = Event("WorkflowExecutionStarted")
    OBVIOUS
  <2>3. EventProps(e) /\ \A k \in DOMAIN << e >> : << e >>[k] = e
    <3>1. \A k : k \in DOMAIN << e >> => << e >>[k] = e
      OBVIOUS
    <3>2. EventProps(e)
      BY <2>2 DEF EventProps, Event, AskTypes
    <3> QED BY <3>1, <3>2
  <2>4. DOMAIN << >> = {}
    BY EmptyIsSeq
  <2>5. PropsInv
    BY <2>1, <2>2, <2>3, <2>4 DEF PropsInv, MachineProps
  <2> QED BY <2>1, <2>5 DEF EntriesInv, TrackInv, Tracked, TrackedPhases, ReplaySound, BatchAccepted
<1>2. /\ IInv /\ ReplayInv /\ Unwinds /\ AckInv /\ CommandsInv /\ NoneEnded
      /\ PropsInv /\ EntriesInv /\ TrackInv /\ ReplaySound /\ [Next]_vars
      /\ IInv' /\ ReplayInv' /\ Unwinds' /\ AckInv' /\ NoneEnded' /\ LetThrough'
      => PropsInv' /\ EntriesInv' /\ TrackInv' /\ ReplaySound'
  <2> SUFFICES ASSUME IInv, ReplayInv, Unwinds, AckInv, CommandsInv, NoneEnded,
                      PropsInv, EntriesInv, TrackInv, ReplaySound, [Next]_vars,
                      IInv', ReplayInv', Unwinds', AckInv', NoneEnded', LetThrough'
               PROVE  PropsInv' /\ EntriesInv' /\ TrackInv' /\ ReplaySound'
    OBVIOUS
  <2>1. LastInv /\ HistoryInv /\ EngineStateInv /\ EngineStateInv' /\ NumberedInv /\ DecisionsInv
    BY DEF ReplayInv, CommandsInv, LastInv
  <2>2. CASE EngineNext \/ WorkflowNext
    BY <2>1, <2>2, WorkerKeepsProps, WorkerKeepsEntries, WorkerKeepsTrack, WorkerKeepsSound
  <2>3. CASE ServiceNext
    <3>1. PropsInv' /\ EntriesInv' /\ TrackInv'
      BY <2>1, <2>3, ServiceKeepsProps, ServiceKeepsEntries, ServiceKeepsTrack
    <3>2. phase' # "output"
      <4>1. CASE PollDecisionTask
        BY <4>1 DEF PollDecisionTask
      <4>2. CASE ~PollDecisionTask
        BY <2>3, <4>2, ServiceLeavesTheEngine DEF EnginePhases
      <4> QED BY <4>1, <4>2
    <3> QED BY <3>1, <3>2 DEF ReplaySound, BatchAccepted
  <2>4. CASE UNCHANGED vars
    <3>1. UNCHANGED << history, decisions, phase, batch, todo, task, state_machines, order, expectations, failed >>
      BY <2>4 DEF vars, managerVars, serviceVars, engineVars
    <3>2. PropsInv'
      BY <3>1 DEF PropsInv, MachineProps
    <3>3. EntriesInv'
      BY <3>1 DEF EntriesInv, OutEvent, Asked
    <3>4. TrackInv'
      <4>1. CASE phase \in TrackedPhases
        BY <3>1, <4>1, TrackStays
      <4>2. CASE phase \notin TrackedPhases
        BY <3>1, <4>2 DEF TrackInv, Tracked
      <4> QED BY <4>1, <4>2
    <3>5. ReplaySound'
      <4>1. PICK made : made = collect_pending_decisions
        OBVIOUS
      <4>2. collect_pending_decisions' = made
        BY <3>1, <4>1 DEF collect_pending_decisions, DecisionsOf
      <4>3. PICK told : told = Binding
        OBVIOUS
      <4>4. Binding' = told
        <5>1. PICK recorded : recorded = OutputEvents(batch)
          OBVIOUS
        <5>2. OutputEvents(batch)' = recorded
          BY <3>1, <5>1 DEF OutputEvents
        <5> QED BY <4>3, <5>1, <5>2 DEF Binding
      <4>5. BatchAccepted' => BatchAccepted
        BY <3>1 DEF BatchAccepted
      <4> QED BY <3>1, <4>1, <4>2, <4>3, <4>4, <4>5 DEF ReplaySound, Says
    <3> QED BY <3>2, <3>3, <3>4, <3>5
  <2> QED BY <2>2, <2>3, <2>4 DEF Next
<1> QED BY <1>1, <1>2, Invariance, ReplayIsSound, RejectionsUnwind, ReplayAcknowledges, CommandsAreKept,
           ReplayEndsNothing, OutlivedStays, PTL DEF Spec

\* A replay the tracker lets pass did what the record says, decision by
\* decision and in the recorded order, whatever became of the code since.  A
\* workflow that cancels its own requests is left out, since its markers are
\* sent again and what there is to send is not of the batch alone; so is one
\* that was rewritten and may continue as new, which the tracker does not see.
\* Said as long as every function so far let the rejections of its calls end it.
THEOREM AcceptedReplaysAreSound ==
    ASSUME ~ImmediateCancel, Deterministic \/ "ContinueAsNew" \notin Outcomes
    PROVE  Spec => [](LetThrough => ReplaySound)
BY TrackIsKept, PTL

====
