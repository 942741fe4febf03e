SPECIFICATION Spec
CONSTANTS
    Paths <- mcPaths
    InDir <- mcInDir
    Contents = {"x", "y"}
    Nil = Nil
    Branches = {"main", "dev"}
    InitCommits <- mcCommits
    Uses <- mcUses
INVARIANTS
    TypeOK
    StatusFaithful
    ResetConverges
PROPERTIES
    UnstagedKept
    AddStages
    OthersUntouched
    FastForwardOnly
    CommitExact
