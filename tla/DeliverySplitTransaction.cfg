SPECIFICATION Spec
CONSTANTS
    Deployments <- SplitTransaction
    MaxFaults = 0
    MaxRestarts = 1
INVARIANTS
    NothingIsLost
CHECK_DEADLOCK FALSE
