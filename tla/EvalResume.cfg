\* Three keys, two requests at a time, the first error aborts; two faults anywhere.
SPECIFICATION FairSpec
CONSTANTS
    k1 = k1
    k2 = k2
    k3 = k3
    Keys <- MCKeys
    Concurrency = 2
    MaxErrors = 1
    RetryReact = TRUE
    MaxFaults = 2
INVARIANTS
    TypeOK
    NotRedone
    RequestsBounded
PROPERTIES
    NothingLost
    Settles
