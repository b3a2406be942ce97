SPECIFICATION FairSpec
CONSTANTS
    t1 = t1
    t2 = t2
    Tasks <- MCTasks
    SyncTasks <- MCSyncTasks
    MaxHeartbeats = 2
INVARIANTS
    ReportedOnce
    ReportEndsHeartbeats
PROPERTIES
    EveryExecutionEnds
CHECK_DEADLOCK FALSE
