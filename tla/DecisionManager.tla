--------------------------- MODULE DecisionManager ---------------------------
(***************************************************************************)
(* The DecisionManager of one decision task: the state machines of the     *)
(* workflow's activities, timers and completion, in the order of the last  *)
(* interaction of the workflow with them, and the tracker that compares    *)
(* what the workflow does during replay with what history says it did.     *)
(*                                                                         *)
(* Every method of the class is one action.  A method that raises leaves   *)
(* what it changed before the raise, as the code does, and puts the name   *)
(* of the exception in "raised"; the engine decides what becomes of it.    *)
(***************************************************************************)
EXTENDS Decisions, FiniteSets

VARIABLES
    id_counter,     \* _id_counter: the next activity or timer id
    replaying,      \* _replaying
    state_machines, \* the values of the OrderedDict: id -> machine
    order,          \* its keys, in its order
    aliases,        \* <<type, attribute, value>> -> id of the machine
    expectations,   \* DeterminismTracker._expectations; an entry whose
                    \* upcoming is empty has been deleted
    failed,         \* DeterminismTracker._failed
    raised          \* the exception the last call raised, or "none"

managerVars == << id_counter, replaying, state_machines, order, aliases,
                  expectations, failed, raised >>

\* Mutant of NewManager: _id_counter is shared by all managers.
NewManager_sharing_ids ==
    /\ UNCHANGED id_counter
    /\ replaying' = FALSE
    /\ state_machines' = << >>
    /\ order' = << >>
    /\ aliases' = << >>
    /\ expectations' = << >>
    /\ failed' = FALSE
    /\ raised' = "none"

\* A new engine, with a new manager, is made for every decision task.
ManagerInit ==
    /\ id_counter = 0
    /\ replaying = FALSE
    /\ state_machines = << >>
    /\ order = << >>
    /\ aliases = << >>
    /\ expectations = << >>
    /\ failed = FALSE
    /\ raised = "none"

NewManager ==
    /\ id_counter' = 0
    /\ replaying' = FALSE
    /\ state_machines' = << >>
    /\ order' = << >>
    /\ aliases' = << >>
    /\ expectations' = << >>
    /\ failed' = FALSE
    /\ raised' = "none"

-----------------------------------------------------------------------------
(* The determinism tracker                                                 *)

\* Mutant of Expected: an entry without upcoming properties is not deleted.
Expected_keeping_entries == DOMAIN expectations

Expected == {i \in DOMAIN expectations : expectations[i].upcoming # << >>}

EntryOf(id) == CHOOSE i \in Expected : expectations[i].id = id

IsNextExpectation(i) == \A j \in Expected : i <= j

\* Mutant of Validates: the properties are not compared.
Validates_ids_only(id, props) ==
    \E i \in Expected :
        /\ expectations[i].id = id
        /\ Len(expectations[i].upcoming) = 1 => IsNextExpectation(i)

\* _validate_expectation does not fail: the id has an entry, its first
\* properties match, and its last ones are only accepted in order.
Validates(id, props) ==
    \E i \in Expected :
        /\ expectations[i].id = id
        /\ Match(expectations[i].upcoming[1], props)
        /\ Len(expectations[i].upcoming) = 1 => IsNextExpectation(i)

Consume(id) ==
    [expectations EXCEPT ![EntryOf(id)].upcoming = Tail(@)]

\* The call is checked only during replay; id and props are its expectation.
Accepted(id, props) == replaying => Validates(id, props)

Consumed(id) == IF replaying THEN Consume(id) ELSE expectations

Reject ==
    /\ failed' = TRUE
    /\ raised' = "NonDeterminismError"

-----------------------------------------------------------------------------
(* The OrderedDict of state machines                                       *)

\* Mutants of MoveToEnd: it does nothing; the old place is kept.
MoveToEnd_never(s, x) == s
MoveToEnd_copying(s, x) == Append(s, x)

\* OrderedDict.move_to_end
MoveToEnd(s, x) ==
    LET at == CHOOSE i \in DOMAIN s : s[i] = x
    IN  [i \in DOMAIN s |-> IF i < at THEN s[i]
                            ELSE IF i < Len(s) THEN s[i + 1] ELSE x]

AliasOf(id) == << id.type, "id", id >>

\* _add_state_machine
Add(id, machine) ==
    IF id \in DOMAIN state_machines
    THEN /\ raised' = "ValueError"
         /\ UNCHANGED << state_machines, order, aliases >>
    ELSE /\ raised' = "none"
         /\ state_machines' =
                [i \in DOMAIN state_machines \cup {id} |->
                    IF i = id THEN machine ELSE state_machines[i]]
         /\ order' = Append(order, id)
         /\ aliases' = [a \in DOMAIN aliases \cup {AliasOf(id)} |->
                            IF a = AliasOf(id) THEN id ELSE aliases[a]]

-----------------------------------------------------------------------------
(* The calls of the workflow                                               *)

\* _next_id
next_id == id_counter' = id_counter + 1

\* The part schedule_activity and start_timer share: the id is taken before
\* the call is validated, and the machine is only added afterwards.
Request(type, props, request) ==
    LET id == DecisionId(type, id_counter)
    IN  /\ next_id
        /\ IF Accepted(id, props)
           THEN /\ expectations' = Consumed(id)
                /\ Add(id, Machine(props, request))
                /\ UNCHANGED failed
           ELSE /\ Reject
                /\ UNCHANGED << state_machines, order, aliases, expectations >>
        /\ UNCHANGED replaying

schedule_activity(t) == Request("ACTIVITY", ActivityProps(t), t)

start_timer == Request("TIMER", TimerProps, "timer")

complete_workflow(outcome) ==
    /\ IF Constrained(outcome) /\ ~Accepted(COMPLETION_ID, CompletionProps(outcome))
       THEN /\ Reject
            /\ UNCHANGED << state_machines, order, aliases, expectations >>
       ELSE /\ expectations' = IF Constrained(outcome)
                               THEN Consumed(COMPLETION_ID) ELSE expectations
            /\ Add(COMPLETION_ID, CompletionMachine(outcome))
            /\ UNCHANGED failed
    /\ UNCHANGED << id_counter, replaying >>

\* DecisionFuture.cancel.  The machine is cancelled before the call is
\* validated; a tracker that already failed validates nothing.
request_cancel(id) ==
    /\ id \in DOMAIN state_machines
    /\ id # COMPLETION_ID
    /\ IF ~Cancellable(state_machines[id])
       THEN UNCHANGED << state_machines, order, expectations, failed >>
            /\ raised' = "none"
       ELSE /\ state_machines' = [state_machines EXCEPT
                                    ![id] = CancelRequested(id.type, @)]
            /\ IF failed \/ Accepted(id, CANCEL)
               THEN /\ expectations' = IF failed THEN expectations
                                       ELSE Consumed(id)
                    /\ order' = MoveToEnd(order, id)
                    /\ raised' = "none"
                    /\ UNCHANGED failed
               ELSE /\ Reject
                    /\ UNCHANGED << order, expectations >>
    /\ UNCHANGED << id_counter, replaying, aliases >>

-----------------------------------------------------------------------------
(* The calls of the engine                                                 *)

\* event_id is the position of the event in history.
handle_history_event(event, event_id) ==
    /\ IF event.type \notin DOMAIN type_to_action
       THEN raised' = "none" /\ UNCHANGED << state_machines, aliases >>
       ELSE LET handler == type_to_action[event.type]
                alias == << handler.type, handler.attr, event[handler.attr] >>
            IN  IF alias \notin DOMAIN aliases
                THEN /\ raised' = "KeyError"
                     /\ UNCHANGED << state_machines, aliases >>
                ELSE LET id == aliases[alias]
                         byEvent == << handler.type, "ref", event_id >>
                     IN  /\ state_machines' = [state_machines EXCEPT
                                                 ![id] = Handled(handler, @)]
                         /\ raised' = IF Resolvable(handler, state_machines[id])
                                      THEN "none" ELSE "InvalidStateError"
                         /\ aliases' =
                                IF EventIdIsAlias(event.type)
                                THEN [a \in DOMAIN aliases \cup {byEvent} |->
                                        IF a = byEvent THEN id ELSE aliases[a]]
                                ELSE aliases
    /\ UNCHANGED << id_counter, replaying, order, expectations, failed >>

\* Two entries for the same decision are refused.
Duplicate(entries) ==
    \E i, j \in DOMAIN entries :
        /\ i # j
        /\ entries[i].upcoming # << >> /\ entries[j].upcoming # << >>
        /\ entries[i].id = entries[j].id

\* Entering track_nondeterminism: one expectation per output event (the entries added
\* before a refusal are left out: the engine that holds them is dropped).
start_execution(replay, outcomes) ==
    LET added == [i \in DOMAIN outcomes |-> Expectation(outcomes[i])]
        entries == expectations \o added
    IN  /\ replaying' = replay
        /\ IF Duplicate(entries)
           THEN raised' = "FatalDecisionError" /\ UNCHANGED expectations
           ELSE raised' = "none" /\ expectations' = entries
        /\ UNCHANGED << id_counter, state_machines, order, aliases, failed >>

\* Mutant of end_execution: like validate_cancel it ignores what comes behind a
\* failure.
end_execution_unless_failed ==
    /\ IF replaying /\ Expected # {} /\ ~failed
       THEN Reject /\ UNCHANGED << replaying, expectations >>
       ELSE /\ replaying' = FALSE
            /\ expectations' = IF replaying THEN << >> ELSE expectations
            /\ raised' = "none"
            /\ UNCHANGED failed
    /\ UNCHANGED << id_counter, state_machines, order, aliases >>

\* Leaving it: during replay nothing expected may be left.
end_execution ==
    /\ IF replaying /\ Expected # {}
       THEN Reject /\ UNCHANGED << replaying, expectations >>
       ELSE /\ replaying' = FALSE
            /\ expectations' = IF replaying THEN << >> ELSE expectations
            /\ raised' = "none"
            /\ UNCHANGED failed
    /\ UNCHANGED << id_counter, state_machines, order, aliases >>

\* What a machine has to send, if it has: get_decision returned one.
DecisionsOf(id) ==
    IF HasDecision(id, state_machines[id]) THEN << GetDecision(id, state_machines[id]) >>
    ELSE << >>

\* Mutant of collect_pending_decisions: latest interaction first.
collect_pending_decisions_reversed ==
    LET Collected[n \in 0..Len(order)] ==
            IF n = 0 THEN << >> ELSE DecisionsOf(order[n]) \o Collected[n - 1]
    IN  Collected[Len(order)]

\* The decisions to send, in the order of the OrderedDict.
collect_pending_decisions ==
    LET Collected[n \in 0..Len(order)] ==
            IF n = 0 THEN << >> ELSE Collected[n - 1] \o DecisionsOf(order[n])
    IN  Collected[Len(order)]

-----------------------------------------------------------------------------
(* Properties of the manager, in every state of every engine.              *)

\* The keys of the OrderedDict are the machines, each once: moving a machine
\* to the end neither loses one nor sends its decision twice.
OrderIsKeys ==
    /\ \A i, j \in DOMAIN order : order[i] = order[j] => i = j
    /\ DOMAIN state_machines = {order[i] : i \in DOMAIN order}

\* One counter numbers activities and timers: no two machines share a number,
\* and the counter is ahead of them all, so that no call meets an id in use
\* even after calls that were rejected.
FreshIds ==
    /\ \A id \in DOMAIN state_machines \ {COMPLETION_ID} : id.id < id_counter
    /\ \A id1, id2 \in DOMAIN state_machines \ {COMPLETION_ID} :
           id1.id = id2.id => id1 = id2

\* Every alias leads to a machine of its type that is still in the
\* OrderedDict, and every machine can be found by its own id.
AliasesResolve ==
    /\ \A a \in DOMAIN aliases :
           aliases[a] \in DOMAIN state_machines /\ aliases[a].type = a[1]
    /\ \A id \in DOMAIN state_machines :
           AliasOf(id) \in DOMAIN aliases /\ aliases[AliasOf(id)] = id

\* A decision id has at most one entry in the tracker, of at most a creation
\* and a cancellation; and outside of replay there is none, so that what one
\* batch left unmet is never held against a later one.
TrackerHoldsOneEntry ==
    /\ \A i, j \in Expected : expectations[i].id = expectations[j].id => i = j
    /\ \A i \in Expected : Len(expectations[i].upcoming) \in 1..2
    /\ replaying \/ Expected = {}

\* What the next call relies on, also after calls that were rejected half way:
\* the manager's four structures are about the same machines.
ManagerSound == OrderIsKeys /\ FreshIds /\ AliasesResolve /\ TrackerHoldsOneEntry
=============================================================================
