CONSTANTS
    NoOne = NoOne r1 = r1 r2 = r2 r3 = r3 other = other k = k l = l
    Request <- Requests
    Key <- Keys
    KeyOf <- Text
    TTL = 2
    Limit = 2
    MaxTime = 5
SPECIFICATION Spec
INVARIANTS Deduplicated AgeIsBounded PagesAreWhole
CHECK_DEADLOCK FALSE
