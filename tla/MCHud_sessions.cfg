SPECIFICATION Spec
CONSTANTS
    Sessions = {a, b}
    Main = a
    Results <- Stopped
    MaxTurns = 1
    MaxCalls = 2
    MaxAsks = 0
    MaxFaults = 1
    MaxReloads = 1
    MaxDeletions = 0
INVARIANTS
    ClaimsTrue
PROPERTIES
    EvidenceLands
    Unblocks
CHECK_DEADLOCK FALSE
