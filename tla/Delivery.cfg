SPECIFICATION FairSpec
CONSTANTS
    Deployments <- Sound
    MaxFaults = 3
    MaxRestarts = 1
INVARIANTS
    ConfirmedWithinCheckpoint
    BarrierMatchesDelivery
PROPERTIES
    ImplementsAtLeastOnce
    CheckpointNeverMovesBack
    CleanRestartDeliversNothing
    EveryEventIsAcknowledged
CHECK_DEADLOCK FALSE
