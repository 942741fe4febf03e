SPECIFICATION FairSpec
CONSTANTS
    Paths <- mcPaths
    InDir <- mcInDir
    Contents = {"x", "y"}
    Nil = Nil
    Branches = {"main", "dev"}
    InitCommits <- mcCommits
    Uses <- mcCheckout
PROPERTIES
    CheckoutKeepsUntracked
