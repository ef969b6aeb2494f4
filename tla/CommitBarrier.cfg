SPECIFICATION FairSpec
CONSTANTS
    MaxBufferSize = 3
    EventCounts = {1, 2, 3}
    MaxEvents = 4
    MaxFaults = 2
    CallsMayBeDropped = TRUE
INVARIANTS
    TypeOK
    CheckpointWithinAcceptance
    AcceptanceIsAPrefix
PROPERTIES
    FailedCallRestores
    PendingIsEventuallyDrained
CHECK_DEADLOCK FALSE
