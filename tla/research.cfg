SPECIFICATION FairSpec
CONSTANTS
    u1 = u1
    u2 = u2
    u3 = u3
    out = out
    Malformed = Malformed
    Fails = Fails
    EngineCount = 2
    QueryCount = 2
    CandidateLimit = 2
    MaxPages = 2
    Enriches = TRUE
    Asks = {1, 2, 3}
    Allowed <- MCAllowed
    Answers <- MCAnswers
    Picks <- MCPicks
    StartPages <- MCStartPages
    Pages <- MCPages
INVARIANTS
    ResearchTypeOK
    SelectionIsFull
    EveryVisitCounts
    NoVisitAfterEnough
    ShortMeansAllTried
PROPERTY ResearchEnds
CHECK_DEADLOCK FALSE
