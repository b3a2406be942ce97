SPECIFICATION FairClientSpec
CONSTANTS
    Expiration = 6
    InitialInterval = 1
    BackoffCoefficient = 3
    MaxInterval = 2
    MaxAttempts = 3
    MaxLag = 1
    Clusters = {"", "c1", "c2"}
    Statuses <- MCStatuses
    Options <- MCOptions
    Arguments = {"encodable"}
    MaxCalls = 2
INVARIANTS
    EndsInTime
    AttemptsBounded
    GivesUpLate
    EffectsOnce
    RefusedByOthers
    AnsweredInOrder
PROPERTIES
    EveryCallEnds
CHECK_DEADLOCK FALSE
