SPECIFICATION FairSpec
CONSTANTS
    Hosts = {"h1", "h2"}
    PerHost = 3
    MaxPolls = 1
    Pages = {"p1"}
PROPERTIES
    CardShowsLive
    ReadyMeansReady
    FleetComesUp
