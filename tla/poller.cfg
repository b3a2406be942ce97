SPECIFICATION FairSpec
CONSTANTS
    p1 = p1
    p2 = p2
    p3 = p3
    p4 = p4
    t1 = t1
    t2 = t2
    Pollers <- MCPollers
    Tasks <- MCTasks
    Permits <- MCPermits
INVARIANTS
    PermitsAccounted
PROPERTIES
    EveryLoopPolls
    EveryTaskIsExecuted
CHECK_DEADLOCK FALSE
