------------------------------ MODULE CommandLife ------------------------------
(***************************************************************************)
(* What the service may rely on when it records the commands of one        *)
(* workflow, however many engines, replays and lost tasks produced them:   *)
(* activities and timers are numbered without a gap and started once, in   *)
(* the order of their numbers; what is cancelled was started, under the    *)
(* same id, is cancelled once, and was not known to be over by the task    *)
(* that cancels it; and nothing is behind the end of the workflow.         *)
(***************************************************************************)
EXTENDS Naturals, Sequences

CONSTANT Ids        \* the ids of activities and timers: records with a number "id"

VARIABLES
    started,    \* the ids that were started, in order
    cancelled,  \* the ids that were asked to be cancelled, in order
    ended,      \* the ids that are over, whoever ended them
    seen,       \* those the workflow has been told of
    closings    \* how often the workflow was ended

vars == << started, cancelled, ended, seen, closings >>

Elements(s) == {s[i] : i \in DOMAIN s}

Init ==
    /\ started = << >>
    /\ cancelled = << >>
    /\ ended = {}
    /\ seen = {}
    /\ closings = 0

Start(id) ==
    /\ id.id = Len(started)
    /\ started' = Append(started, id)
    /\ UNCHANGED << cancelled, ended, seen, closings >>

\* A timer is over as soon as it is cancelled.
Cancel(id) ==
    /\ id \in Elements(started) \ (Elements(cancelled) \cup seen)
    /\ cancelled' = Append(cancelled, id)
    /\ ended' \in {ended, ended \cup {id}}
    /\ UNCHANGED << started, seen, closings >>

End(id) ==
    /\ id \in Elements(started) \ ended
    /\ ended' = ended \cup {id}
    /\ UNCHANGED << started, cancelled, seen, closings >>

\* A decision task is started, with everything that is over.
Look ==
    /\ seen' = ended
    /\ UNCHANGED << started, cancelled, ended, closings >>

\* The workflow ends knowing what is over, but for what it cancelled itself.
Close ==
    /\ ended \subseteq seen \cup Elements(cancelled)
    /\ closings' = 1
    /\ UNCHANGED << started, cancelled, ended, seen >>

\* Nothing is behind the end of the workflow.
Next ==
    /\ closings = 0
    /\ \/ \E id \in Ids : Start(id) \/ Cancel(id) \/ End(id)
       \/ Look
       \/ Close

Spec == Init /\ [][Next]_vars
=============================================================================
