SPECIFICATION Spec
CONSTANTS
    Count = 3
    NTiles = 1
    InFlight = 2
    CanStall = FALSE
    MaxErr = 0
    MaxFailed = 0
    MaxDup = 1
INVARIANTS
    TypeOK
    SemAccounting
    BusBounded
    IInv
PROPERTIES
    ImplementsWindow
