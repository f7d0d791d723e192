SPECIFICATION Spec
CONSTANTS
    m1 = m1
    m2 = m2
    t1 = t1
    t2 = t2
    w1 = w1
    w2 = w2
    None = None
    Article <- Articles
    Space <- Spaces
    Model <- Models
    Tx <- Transactions
    Worker <- Workers
    MaxVersion = 2
    MaxOps = 3
    MaxFaults = 1
    LateCreates = FALSE
    LateMoves = TRUE
    Seed <- Seeds
SYMMETRY Symmetry
INVARIANTS
    IndexedIsSearchable
