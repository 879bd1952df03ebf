SPECIFICATION FairSpec
CONSTANTS
    Count = 2
    NTiles = 2
    InFlight = 1
    CanStall = TRUE
    MaxErr = 1
    MaxFailed = 1
    MaxDup = 0
INVARIANTS
    NoSpuriousFailure
    TilesAccounted
PROPERTIES
    Terminates
