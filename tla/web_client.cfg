SPECIFICATION Spec
CONSTANTS
    own1 = own1
    own2 = own2
    other1 = other1
    OwnTurns <- MCOwnTurns
    OtherTurns <- MCOtherTurns
    ChatLimit = 2
    ChatLoads = {1}
    Loads = {1, 2}
    MaxAttempts = 1
    MaxInbound = 1
    MaxFailures = 1
    SearchProcs = {1, 2}
    Found = {1}
    CatalogLoads = {1, 2}
    MaxCatalogFailures = 1
INVARIANTS
    SettledShowsMessage
    ChatLostOnlyByOverlap
    CatalogueShortOnlyIfEarly
PROPERTIES
    PagesSettle
CHECK_DEADLOCK FALSE
