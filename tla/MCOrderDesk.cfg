\* Two orders of a share or one of two, with partial fills and notices; one crash,
\* failing call of the reconcile loop or share ordered elsewhere.
CONSTANTS
    c1 = c1
    c2 = c2
    ClientIds <- MCIds
    MaxQty = 2
    Notices = TRUE
    MaxOrders = 2
    MaxShares = 2
    MaxFaults = 1
SPECIFICATION Spec
SYMMETRY MCSymmetry
INVARIANTS
    NoOrderTwice
    VerdictIsTrue
    FillsAreReal
PROPERTIES
    CloseIsSound
    RoundConverges
