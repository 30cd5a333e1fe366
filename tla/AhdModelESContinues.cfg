\* One kill.
SPECIFICATION Spec
CONSTANTS
    None = None
    RewardsOf <- MCRewardsOf
    Invalid = 0
    NEngines = 2
    Workers = 2
    Directions = 3
    NOperators = 2
    Generations = 2
    MaxCrashes = 1
    MaxRestarts = 0
    MaxTimeouts = 0
INVARIANT
    ContinuesFromNext
