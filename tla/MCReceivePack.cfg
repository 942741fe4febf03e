SPECIFICATION FairSpec
CONSTANTS
    p1 = p1
    p2 = p2
    Pushers = {p1, p2}
    Refs = {"a", "b", "t"}
    Commits = {"c1", "c2", "c3", "c4"}
    Nil = Nil
    Anc <- McAnc
    Uses <- McUses
INVARIANTS
    TypeOK
    ServerComplete
    OkMeansApplied
    OnlyFastForwards
    LeaseHolds
    PushSucceeds
PROPERTIES
    PushConverges
    PushReturns
