SPECIFICATION FairSpec
CONSTANTS
    ActivityTypes = {a}
    Outcomes = {"Complete"}
    Deterministic = TRUE
    ImmediateCancel = FALSE
    CloseEvents = {"ActivityTaskFailed", "ActivityTaskTimedOut", "ActivityTaskCanceled"}
    MaxIds = 2
    MaxOps = 2
    MaxUnsuccessful = 1
    MaxSignals = 0
PROPERTIES
    EveryEndIsAnswered
    ImplementsCommandLife
CHECK_DEADLOCK FALSE
