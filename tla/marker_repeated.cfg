SPECIFICATION Spec
CONSTANTS
    ActivityTypes = {a}
    Outcomes = {"Complete"}
    Deterministic = TRUE
    ImmediateCancel = TRUE
    CloseEvents = {"ActivityTaskCompleted"}
    MaxIds = 2
    MaxOps = 3
    MaxUnsuccessful = 0
    MaxSignals = 0
INVARIANTS
    CommandsOnce
CHECK_DEADLOCK FALSE
