SPECIFICATION FairSpec
CONSTANTS
    Scenarios <- BothPolicies
    TotalsDeclared = TRUE
    WholeTransactions = FALSE
    MaxHandOver = 6
INVARIANTS
    QueueConserved
    BatchesWithinBudget
PROPERTIES
    BatchesEndOnBoundary
    EverythingIsDelivered
CHECK_DEADLOCK FALSE
