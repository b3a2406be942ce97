SPECIFICATION Spec
CONSTANTS
    ActivityTypes = {a, b}
    Outcomes = {"Complete", "Fail"}
    Deterministic = FALSE
    ImmediateCancel = TRUE
    CloseEvents = {"ActivityTaskCompleted", "ActivityTaskCanceled"}
    MaxIds = 2
    MaxOps = 3
    MaxUnsuccessful = 1
    MaxSignals = 0
SYMMETRY Symmetry
INVARIANTS
    ReplaySound
    NothingRecordedIsMissed
    TypeOK
    ManagerSound
CHECK_DEADLOCK FALSE
