CONSTANT MaxReceipts = 3
SPECIFICATION Spec
INVARIANTS UnreadOnlyFromTheGap
PROPERTIES NotifiedIsRead NextIsAnswered ReleasedAfterClose ImplementsStream
CHECK_DEADLOCK FALSE
