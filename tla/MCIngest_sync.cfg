SPECIFICATION Spec
CONSTANTS
    n1 = n1
    n2 = n2
    g1 = g1
    g2 = g2
    Runs = {r1, r2}
    Notes = {n1, n2}
    Tags = {g1, g2}
    TagOf <- OwnTag
    Texts = {A, B}
    Stamps = {1}
    Stores = {d1, d2}
    Ids = {c0, c1, c2, c3}
    EmptyId = c0
    Torn = Torn
    None = None
SYMMETRY Symmetry
INVARIANTS
    RecordsTogether
PROPERTIES
    JournalFirst
    ImplementsSync
