\* Four launches with kills anywhere, totals on and off the batch boundary.
SPECIFICATION SamplingSpec
CONSTANTS
    Totals <- MCTotals
    BatchSizes <- MCBatchSizes
    MaxLaunches = 4
INVARIANTS
    SamplingTypeOK
    IndexIsPosition
    MissesLessThanABatch
