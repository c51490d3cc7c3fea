SPECIFICATION Spec
CONSTANTS
    Terminals = {a, b}
    Pids = {1, 2}
    Slots = {1, 2}
    MaxBirths = 3
    MaxFaults = 2
INVARIANTS
    NothingUnrecorded
    SparesOthers
PROPERTIES
    WayOut
