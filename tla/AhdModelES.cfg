\* A kill, an engine restart and a timeout anywhere in a run.
SPECIFICATION Spec
CONSTANTS
    None = None
    RewardsOf <- MCRewardsOf
    Invalid = 0
    NEngines = 2
    Workers = 2
    Directions = 3
    NOperators = 2
    Generations = 2
    MaxCrashes = 1
    MaxRestarts = 1
    MaxTimeouts = 1
INVARIANTS
    TypeOK
    EnginesInSync
    GenerationsCovered
PROPERTIES
    ImplementsTraining
    EventuallyDone
