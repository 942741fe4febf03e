SPECIFICATION FairSpec
CONSTANTS
    MaxBytes = 3
    MaxSeeks = 2
INVARIANTS
    SendMeetsReceive
    IInv
PROPERTIES
    DrainedBeforeEOF
    CloseReturns
    SleeperWakes
