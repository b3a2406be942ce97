---------------------------- MODULE MCDecisionTask ----------------------------
EXTENDS DecisionTask

CONSTANTS t1, t2

\* A task and the one that takes its place.
MCTasks == {t1, t2}
=============================================================================
