\* Kills, a server restart and timeouts anywhere in a run, which completes.
SPECIFICATION FairSpec
CONSTANTS
    None = None
    AnswersOf <- MCAnswersOf
    RewardOf <- MCRewardOf
    MaxRequests = 2
    NEndpoints = 2
    Population = 3
    Generations = 2
    RevertAttempts = 2
    MaxCrashes = 2
    MaxRestarts = 1
    MaxTimeouts = 2
INVARIANTS
    TypeOK
    InSync
PROPERTIES
    ImplementsTraining
    EventuallyDone
