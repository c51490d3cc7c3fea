SPECIFICATION Spec
CONSTANTS
    Threads = {w1, w2}
    Plans = {p1}
    Keys = {k1, k2}
    Limit = 2
    TTL = 1
    Altered = Altered
    None = None
SYMMETRY Symmetry
INVARIANTS
    OwnDecision
    ExactAndAlone
    NoLeak
PROPERTIES
    DecidedInTime
