SPECIFICATION Spec
CONSTANTS
    Article <- MCArticle
    Space <- MCSpace
    Tx = {t1, t2}
    None = None
    MaxDepth = 3
    Ops = {"create", "move"}
    MaxOps = 2
    Seed <- DraftSeeds
SYMMETRY TxSymmetry
INVARIANTS OneSpacePerTree
