SPECIFICATION FairSpec
CONSTANTS
    t1 = t1
    t2 = t2
    Tasks <- MCTasks
    PageSize = 2
    MaxEvents = 4
INVARIANTS
    NoSilentEnd
PROPERTIES
    ImplementsLife
    EveryTaskIsHandled
CHECK_DEADLOCK FALSE
