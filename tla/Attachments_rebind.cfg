SPECIFICATION Spec
CONSTANTS
    Article <- MCArticle
    Space <- MCSpace
    SpaceOf <- MCSpaceOf
    File = {"f1", "f2"}
    Req = {r1, r2}
    None = None
    Overlap = {"rebind"}
    Seed <- OneBound
    MaxOps = 2
    MaxFaults = 0
CHECK_DEADLOCK FALSE
INVARIANTS BoundIsStored
