\* One exception inside a pass, then init.
SPECIFICATION Spec
CONSTANTS
    t1 = t1
    t2 = t2
    s1 = s1
    s2 = s2
    None = None
    Tensors <- MCTensors
    Seeds <- MCSeeds
    Scopes <- MCScopes
    ScopeTensors <- MCScopeTensors
    Sigmas <- MCSigmas
    Deltas <- MCDeltas
    MaxUpdates = 2
    MaxFaults = 1
INVARIANTS
    InitLeavesBase
