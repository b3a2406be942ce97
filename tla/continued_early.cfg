SPECIFICATION Spec
CONSTANTS
    ActivityTypes = {a}
    Outcomes = {"Complete", "ContinueAsNew"}
    Deterministic = FALSE
    ImmediateCancel = FALSE
    CloseEvents = {"ActivityTaskCompleted"}
    MaxIds = 2
    MaxOps = 2
    MaxUnsuccessful = 0
    MaxSignals = 0
INVARIANTS
    EarlyCompletionCaught
CHECK_DEADLOCK FALSE
