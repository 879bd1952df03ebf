SPECIFICATION FairSpec
CONSTANTS
    Jobs <- SmallJobs
    Hosts = {h1, h2}
    MaxErr = 1
    MaxFailed = 1
    MaxDup = 1
    MaxLost = 1
INVARIANTS
    TypeOK
    Partitioned
    ReportAddsUp
PROPERTIES
    Reports
