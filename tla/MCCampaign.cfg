SPECIFICATION Spec
CONSTANTS
    MaxRuns = 7
    Terminals = 2
    MaxEdits = 1
INVARIANTS
    CampaignTypeOK
    EachGateOnce
    EvidenceListed
    AuditExact
PROPERTIES
    FailureFreezes
    ClosedForGood
CHECK_DEADLOCK FALSE
