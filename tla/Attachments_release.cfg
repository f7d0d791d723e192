SPECIFICATION FairSpec
CONSTANTS
    Article <- MCArticle
    Space <- MCSpace
    SpaceOf <- MCSpaceOf
    File = {"f1", "f2"}
    Req = {r1, r2}
    None = None
    Overlap = {}
    Seed <- MCSeed
    MaxOps = 3
    MaxFaults = 1
CHECK_DEADLOCK FALSE
INVARIANTS TypeOK BoundIsStored UnboundIsReleased
PROPERTIES UnboundGoes
