CONSTANTS
    d1 = d1 d2 = d2 d3 = d3 s1 = s1 s2 = s2 r1 = r1 r2 = r2
    c1 = c1 c2 = c2 c3 = c3 l1 = l1 l2 = l2
    Server <- Servers
    Request <- Requests
    MaxSize = 2
    Caller <- Callers
    Load <- Loads
    MaxVersion = 2
    KeepNewest = TRUE
    NoDatabase = NoDatabase
    Files <- MCFiles
    Environments <- MCEnvironments
    MaxServers = 3
    Reporter = {"p1", "p2"}
    Modes = {"rest", "kafka", "jrpc", "tcpadnl"}
    Batches <- MCBatches
    MaxMessage = 2
    Deployments <- MCDeployments
    MaxRows = 2
SPECIFICATION ServerSpec
INVARIANTS AnswersAreFresh SingleFlight NoLostWaiter
           OneServerServes FeedIsWhole OneSocket PostedAsTold SelectedIsAnswered
PROPERTIES EveryRequestEnds RefreshGoesOn NeverOlder EveryPostEnds
CHECK_DEADLOCK FALSE
