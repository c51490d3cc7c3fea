SPECIFICATION Spec
CONSTANTS
    n1 = n1
    d1 = d1
    Workers = {w1, w2}
    Tokens = {t1, t2}
    Notes = {n1}
    Drafts = {d1}
    Data = {A, B}
    EditPaths <- NoEdits
    ScanLimit = 1
    Absent = Absent
    Torn = Torn
    NoPlan = NoPlan
    NoPath = NoPath
    NoToken = NoToken
    NoResult = NoResult
SYMMETRY Symmetry
INVARIANTS
    ReceiptLast
PROPERTIES
    OrphansFrozen
    ImplementsLedger
