SPECIFICATION Spec
CONSTANTS
    Article <- MCArticle
    Space <- MCSpace
    Tx = {t1, t2}
    None = None
    MaxDepth = 3
    Ops = {"create", "move", "delete", "update", "drop", "switch"}
    MaxOps = 3
    Seed <- HomeSeeds
SYMMETRY TxSymmetry
INVARIANTS TypeOK HomeIsLiveTopLevel NoLockCycle
PROPERTIES ActiveNeverPurged
