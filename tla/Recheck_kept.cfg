SPECIFICATION Spec
CONSTANTS
    c1 = c1
    c2 = c2
    c3 = c3
    Commands <- TwoCommands
    MaxRuns = 1
    MaxClock = 2
    recheckCooldown = 3
    Timeout = 1
    Failures = {"context"}
SYMMETRY CommandSymmetry
CHECK_DEADLOCK FALSE
INVARIANTS
    FailedStartFree
