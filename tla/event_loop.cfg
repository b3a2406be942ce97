SPECIFICATION LoopFairSpec
CONSTANTS
    h1 = h1
    h2 = h2
    h3 = h3
    h4 = h4
    None = None
    Handles <- MCHandles
INVARIANTS
    RunInOrder
    NothingLost
    PassHasHandles
PROPERTIES
    RunsYield
    EndsOnceDone
CHECK_DEADLOCK FALSE
ACTION_CONSTRAINT InOneOrder
