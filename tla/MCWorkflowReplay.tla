--------------------------- MODULE MCWorkflowReplay ---------------------------
EXTENDS WorkflowReplay, TLC

Symmetry == Permutations(ActivityTypes)
=============================================================================
