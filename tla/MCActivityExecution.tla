-------------------------- MODULE MCActivityExecution --------------------------
EXTENDS ActivityExecution

CONSTANTS t1, t2

\* One activity in a thread, one in the loop.
MCTasks == {t1, t2}
MCSyncTasks == {t1}
=============================================================================
