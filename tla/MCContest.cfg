SPECIFICATION Spec
CONSTANTS
    People = {p1, p2}
    Codes = {c1}
    ClientIds = {"i1", "i2"}
    Slots = {s1, s2}
    Prices = {0, 10}
    Menu <- MCMenu
    InitialCash = 21
    FeePct = 10
    TaxPct = 20
    Callers = {quotes, feedd}
    Procs = {quotes, feedd}
    ProcOf <- MCProcOf
    Quote = quotes
    NoCaller = NoCaller
    Unissued = Unissued
    Unused = Unused
    None = None
    MaxRare = 2
SYMMETRY MCSymmetry
INVARIANTS
    BooksAreSound
    QuotesAreShared
