\* Three generations on two endpoints, with an evaluation after the second and the
\* third: any two kills, failed requests and restarted servers, one launch that is
\* not made to continue the run, and one test.
SPECIFICATION FairSpec
CONSTANTS
    main = main
    copy = copy
    a = a
    b = b
    None = None
    Torn = Torn
    Runs <- MCRuns
    Setups <- MCSetups
    Draw <- MCDraw
    RewardsOf <- MCRewardsOf
    NEndpoints = 2
    Generations = 3
    EvalInterval = 2
    MaxFaults = 2
    MaxOthers = 1
    MaxTests = 1
INVARIANTS
    TypeOK
    AsRecorded
    ContinuesSource
PROPERTIES
    EventuallyComplete
