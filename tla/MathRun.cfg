\* Two faults and one more launch on the finished history, anywhere in a run.
SPECIFICATION FairSpec
CONSTANTS
    None = None
    RewardsOf <- MCRewardsOf
    LossyRewardsOf <- MCLossyRewardsOf
    NEngines = 2
    Population = 3
    Generations = 3
    EvalInterval = 2
    SkipFinalIntervalEval = FALSE
    FinalEval = TRUE
    MaxFaults = 2
    MaxReruns = 1
INVARIANTS
    TypeOK
    EvaluatedAsRecorded
PROPERTIES
    ImplementsTraining
    EventuallyDone
