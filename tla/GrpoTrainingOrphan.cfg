\* The Math job, one death of its watchdog.
SPECIFICATION Spec
CONSTANTS
    Jobs <- MCMathJob
    Tiers = 2
    MaxFaults = 1
    MaxLaunches = 3
INVARIANTS
    ExactlyLast
