SPECIFICATION Spec
CONSTANTS
    Lifecycles <- Nothing
    Embedders <- Nothing
    SinkTrees <- Nothing
    BulkReads <- Nothing
    Resumptions <- Nothing
    Pagings <- FilteredComposite
    FaultPlans <- Nothing
    Audits <- Nothing
    Feeds <- Nothing
    Guests <- Nothing
    Connections <- Nothing
INVARIANT ConfigurationHolds
CHECK_DEADLOCK FALSE
