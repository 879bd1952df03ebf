SPECIFICATION FairSpec
CONSTANTS
    NNodes = 2
    Up = {1}
    Models = {"kws", "vww", "own"}
    Staged = {"kws", "vww"}
    Maps <- KwsOnly
    Width <- TwoSizes
    Jobs = {1, 2}
    Asks <- Tabs
    Samples = 2
    Slow = TRUE
INVARIANTS
    TypeOK
    LockAccounted
    ReplyTruthful
PROPERTIES
    JobsEnd
    HealthAnswered
