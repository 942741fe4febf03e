SPECIFICATION FairSpec
CONSTANTS
    Commits = {1, 2, 3, 4, 5, 6}
    Parents <- McParents
    Anc <- McAnc
    ServerSets <- McServer
    Uses <- McSecondRound
    Nil = Nil
PROPERTIES
    NegotiationEnds
CHECK_DEADLOCK FALSE
