CONSTANTS
    w1 = w1 w2 = w2
    Walker <- Walkers
    Forward <- ForwardW1
    Part <- Blocks
    Filters <- Single
    Database = {1}
    Verifiers = 1
    Vouches <- AllVouchedByFirst
    First = 1
    Period = 1
    MaxOrder = 3
    LowestSummary = 1
SPECIFICATION FairSpec
INVARIANTS OneFilterSkipsNothing
PROPERTIES BoundaryNeverGoesBack NoInsertBeforeCursor EveryRowIsReached
