CONSTANTS
    w1 = w1 w2 = w2
    Walker <- Walkers
    Forward <- ForwardW1
    Part <- Blocks
    Filters <- Single
    Database = {1, 2}
    Verifiers = 2
    Vouches <- OwnSummary
    First = 1
    Period = 1
    MaxOrder = 2
    LowestSummary = 1
SPECIFICATION Spec
PROPERTIES NoInsertBeforeCursor
