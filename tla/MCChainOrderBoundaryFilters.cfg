CONSTANTS
    w1 = w1 w2 = w2
    Walker <- Walkers
    Forward <- Walkers
    Part <- Messages
    Filters <- Both
    Database = {1}
    Verifiers = 1
    Vouches <- AllVouchedByFirst
    First = 1
    Period = 1
    MaxOrder = 2
    LowestSummary = 1
SPECIFICATION Spec
INVARIANTS NothingSkipped
