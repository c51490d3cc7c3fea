SPECIFICATION Spec
CONSTANTS
    Sessions = {a, b}
    Main = a
    Results <- Done
    MaxTurns = 1
    MaxCalls = 2
    MaxAsks = 0
    MaxFaults = 1
    MaxReloads = 0
    MaxDeletions = 0
INVARIANTS
    NoBleed
CHECK_DEADLOCK FALSE
