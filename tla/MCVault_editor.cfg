SPECIFICATION FairSpec
CONSTANTS
    n1 = n1
    d1 = d1
    Workers = {w1}
    Tokens = {t1, t2}
    Notes = {n1}
    Drafts = {d1}
    Data = {A, B}
    EditPaths <- AllEdits
    ScanLimit = 2
    Absent = Absent
    Torn = Torn
    NoPlan = NoPlan
    NoPath = NoPath
    NoToken = NoToken
    NoResult = NoResult
INVARIANTS
    WriteAhead
    ReportsHonestly
    StrayTempFlagged
PROPERTIES
    NothingLost
    CallReturns
