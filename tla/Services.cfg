SPECIFICATION Spec
CONSTANTS
    Lifecycles <- LifecycleAll
    Embedders <- EmbedderAll
    SinkTrees <- SinkTreeAll
    BulkReads <- BulkAll
    Resumptions <- ResumptionAll
    Pagings <- PagingAll
    FaultPlans <- FaultPlanAll
    Audits <- AuditAll
    Feeds <- FeedAll
    Guests <- GuestAll
    Connections <- ConnectionsAll
INVARIANTS
    NothingLost
    SnapshotsAreComplete
    OrderKept
    ReportsAreTrue
    ConfigurationHolds
PROPERTIES
    ServicesSettle
CHECK_DEADLOCK FALSE
