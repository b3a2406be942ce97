SPECIFICATION Spec
CONSTANTS
    ActivityTypes = {a}
    Outcomes = {"Complete"}
    Deterministic = TRUE
    ImmediateCancel = FALSE
    CloseEvents = {"ActivityTaskCompleted", "ActivityTaskCanceled"}
    MaxIds = 2
    MaxOps = 2
    MaxUnsuccessful = 0
    MaxSignals = 1
INVARIANTS
    CommandsOnce
    DecisionsInCallOrder
CHECK_DEADLOCK FALSE
