SPECIFICATION Spec
CONSTANTS
    PgDeployments <- PgAll
    MyDeployments <- MyAll
    SsDeployments <- SsAll
    SfDeployments <- SfAll
    MAX_TRACKED_TX_ENDS = 1
    PeekWindow = 4
    RowCap = 2
    MaxMessagesPerPoll = 4
    MaxFailures = 1
    MaxRestarts = 1
INVARIANTS
    StreamLosesNothing
    TransactionsStayWhole
    MyResumesAtBoundary
    SsOneOrder
    SfReplica
PROPERTIES
    StreamsSettle
CHECK_DEADLOCK FALSE
