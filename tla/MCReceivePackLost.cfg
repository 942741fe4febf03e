SPECIFICATION Spec
CONSTANTS
    p1 = p1
    p2 = p2
    Pushers = {p1, p2}
    Refs = {"a", "b", "t"}
    Commits = {"c1", "c2", "c3", "c4"}
    Nil = Nil
    Anc <- McAnc
    Uses <- McSameBranch
INVARIANTS
    NoLostUpdate
