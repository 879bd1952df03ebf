SPECIFICATION FairSpec
CONSTANTS
    NRequests = 3
    Variants <- AllServices
    Dies = TRUE
    Kills = TRUE
INVARIANTS
    TypeOK
    InStep
PROPERTIES
    ImplementsExchange
    Answered
    ChipReleased
