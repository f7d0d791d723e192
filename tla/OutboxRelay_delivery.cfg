SPECIFICATION FairSpec
CONSTANTS
    Instance = {i1, i2}
    None = None
    MaxXid = 2
    MaxOffset = 2
    BatchSize = 2
    RetryLimit = 1
    MaxFaults = 2
    Keyless = {2}
CHECK_DEADLOCK FALSE
INVARIANTS TypeOK BacklogCoversUndelivered DeliveredInOutboxOrder OnlyUndeliverableSetAside
PROPERTIES OffsetNeverMovesBack ImplementsQueue BacklogDrains DeliversEveryEvent
