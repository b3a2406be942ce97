SPECIFICATION Spec
CONSTANTS
    ActivityTypes = {a}
    Outcomes = {"Complete", "ContinueAsNew", "CancelledError"}
    Deterministic = TRUE
    ImmediateCancel = FALSE
    CloseEvents = {"ActivityTaskCompleted", "ActivityTaskFailed", "ActivityTaskCanceled"}
    MaxIds = 2
    MaxOps = 3
    MaxUnsuccessful = 1
    MaxSignals = 0
INVARIANTS
    NoSpuriousFailure
    ReplayRebuilds
    NothingSentAgain
    FuturesAgreeWithHistory
    CompletionIsLast
CHECK_DEADLOCK FALSE
