SPECIFICATION HealthySpec
CONSTANTS
    Count = 3
    NTiles = 2
    InFlight = 2
    CanStall = FALSE
    MaxErr = 1
    MaxFailed = 0
    MaxDup = 0
INVARIANTS
    ReportAgrees
    StitchComplete
    NoTileOrphaned
PROPERTIES
    Completes
