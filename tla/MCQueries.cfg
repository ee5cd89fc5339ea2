CONSTANTS
    Null = Null
    Request = {"r1","r2"}
    Databases = 2
    Client = {"client"}
    Episodes <- MCEpisodes
    MaxPage = 3
    FirstBoundary = 300
    LastBoundary = 500
    Types <- MCTypes
    Asks <- MCAsks
    Initially <- MCInitially
    Arrivals <- MCArrivals
    IndexHistory <- MCIndexHistory
    Portion = 2
    JoinLimit = 1
    Selections <- MCSelections
    Matches <- MCMatches
    Accepts <- MCAccepts
    BothCompare <- MCBothCompare
    Operands <- MCOperands
    Explanation <- MCExplanation
    JudgedFast <- MCJudgedFast
SPECIFICATION DataSpec
INVARIANTS AnswerIsBest FeedAgreesWithDatabase StatsAreOfTheIndexes JoinedRight PageIsRight WholeOrNothing
CHECK_DEADLOCK FALSE
