SPECIFICATION Spec
CONSTANTS
    Count = 1
    NTiles = 2
    InFlight = 1
    CanStall = FALSE
    MaxErr = 0
    MaxFailed = 1
    MaxDup = 0
INVARIANTS
    OutputsCorrelated
