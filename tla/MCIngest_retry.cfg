SPECIFICATION FairSpec
CONSTANTS
    n1 = n1
    n2 = n2
    g1 = g1
    g2 = g2
    Runs = {r1}
    Notes = {n1, n2}
    Tags = {g1}
    TagOf <- SharedTag
    Texts = {A}
    Stamps = {1, 2}
    Stores = {d1}
    Ids = {c0, c1, c2, c3}
    EmptyId = c0
    Torn = Torn
    None = None
INVARIANTS
    JournalAgrees
PROPERTIES
    ImplementsSync
    RetrySyncs
