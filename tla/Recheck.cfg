SPECIFICATION Spec
CONSTANTS
    c1 = c1
    c2 = c2
    c3 = c3
    Commands <- ThreeCommands
    MaxRuns = 1
    MaxClock = 5
    recheckCooldown = 3
    Timeout = 1
    Failures = {"call", "context"}
SYMMETRY CommandSymmetry
CHECK_DEADLOCK FALSE
INVARIANTS
    TypeOK
    TakesSpaced
    CooldownEarned
