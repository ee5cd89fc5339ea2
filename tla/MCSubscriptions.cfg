CONSTANTS
    Collection = {"blocks", "messages"}
    Messages = "messages"
    Starts <- MCStarts
    Subscriber = {s1}
    MaxDocs = 2
    MaxFailures = 2
    QueueLimit = 1
    Client = {c1, c2}
    HasHealth = TRUE
    MaxPublished = 1
    MaxErrors = 2
    Patience = 2
SPECIFICATION Spec
INVARIANTS HeardOnceInOrder NothingLostNothingTwice ReleasedWhenClosed
PROPERTIES EndsAreSilent FeedComesBack LeaseFollowsUse
CHECK_DEADLOCK FALSE
