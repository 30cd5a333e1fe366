\* Four candidates, one of which cannot be prepared, for two workers.
SPECIFICATION Spec
CONSTANTS
    None = None
    NCandidates = 4
    MaxWorkers = 2
    Unpreparable <- MCUnpreparable
INVARIANTS
    TypeOK
    ResultsSettled
    ChildrenBounded
PROPERTIES
    Returns
