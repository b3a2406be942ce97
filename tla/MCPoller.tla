------------------------------- MODULE MCPoller -------------------------------
EXTENDS Poller

CONSTANTS p1, p2, p3, p4, t1, t2

\* Twice as many loops as permits: two of them wait.
MCPollers == {p1, p2, p3, p4}
MCTasks == {t1, t2}
MCPermits == 2
=============================================================================
