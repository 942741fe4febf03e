SPECIFICATION FairSpec
CONSTANTS
    Commits = {1, 2, 3, 4, 5, 6}
    Parents <- McParents
    Anc <- McAnc
    ServerSets <- McServer
    Uses <- McUses
    Nil = Nil
INVARIANTS
    TypeOK
    HistoryComplete
    InStep
    FetchSucceeds
PROPERTIES
    FetchReturns
CHECK_DEADLOCK FALSE
