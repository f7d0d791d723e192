SPECIFICATION Spec
CONSTANTS
    Article <- MCArticle
    Space <- MCSpace
    Tx = {t1, t2}
    None = None
    MaxDepth = 3
    Ops = {"move", "delete", "drop"}
    MaxOps = 3
    Seed <- MoveSeeds
SYMMETRY TxSymmetry
INVARIANTS DepthFollowsParent OneSpacePerTree NoLiveUnderDeleted RowsOfLockedSpaces NoLockCycle
