CONSTANTS
    NoOne = NoOne r1 = r1 r2 = r2 r3 = r3 other = other k = k l = l
    Request <- Requests
    Key <- Keys
    KeyOf <- Text
    TTL = 0
    Limit = 2
    MaxTime = 5
SPECIFICATION Spec
SYMMETRY Symmetry
INVARIANTS HasNextPageIsRight
CHECK_DEADLOCK FALSE
