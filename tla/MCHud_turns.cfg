SPECIFICATION Spec
CONSTANTS
    Sessions = {a}
    Main = a
    Results <- Done
    MaxTurns = 2
    MaxCalls = 2
    MaxAsks = 1
    MaxFaults = 1
    MaxReloads = 1
    MaxDeletions = 1
INVARIANTS
    HudTypeOK
    CardOnItsTransport
    LocatorBacksStop
    EndedStaysEnded
PROPERTIES
    NoCompetingTurn
    NeverOlder
CHECK_DEADLOCK FALSE
