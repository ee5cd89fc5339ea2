CONSTANTS
    w1 = w1 w2 = w2
    Wait <- Waits
    Walks <- Walkers
    MaxDocs = 1
SPECIFICATION WalkSpec
INVARIANTS NothingLeftBehind NoDocumentMissed
PROPERTIES FirstReasonDecides EveryWaitReturns
CHECK_DEADLOCK FALSE
