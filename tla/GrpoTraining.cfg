\* Both jobs; three deaths anywhere, two tiers.
SPECIFICATION FairSpec
CONSTANTS
    Jobs <- MCJobs
    Tiers = 2
    MaxFaults = 3
    MaxLaunches = 5
INVARIANTS
    TypeOK
    DumpsAreLineage
    InStep
    ResumePoint
    Retention
    LastIsComplete
PROPERTIES
    Settles
