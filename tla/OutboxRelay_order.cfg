SPECIFICATION Spec
CONSTANTS
    Instance = {i1}
    None = None
    MaxXid = 2
    MaxOffset = 2
    BatchSize = 1
    RetryLimit = 0
    MaxFaults = 0
    Keyless = {}
CHECK_DEADLOCK FALSE
INVARIANTS PublishedInCommitOrder
