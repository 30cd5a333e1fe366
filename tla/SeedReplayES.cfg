\* Any order of requests, up to two updates at once and up to two exceptions
\* inside a pass, at any tensor of any request.
SPECIFICATION Spec
CONSTANTS
    t1 = t1
    t2 = t2
    s1 = s1
    s2 = s2
    None = None
    Tensors <- MCTensors
    Seeds <- MCSeeds
    Scopes <- MCScopes
    ScopeTensors <- MCScopeTensors
    Sigmas <- MCSigmas
    Deltas <- MCDeltas
    MaxUpdates = 2
    MaxFaults = 2
INVARIANTS
    TypeOK
    WeightsAccounted
    InitRestoresBase
PROPERTIES
    RefinesModelES
