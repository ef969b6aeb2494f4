SPECIFICATION FairSpec
CONSTANTS
    Scenarios <- MCScenarios
    XidSpan = 100
    InnerBatch = 2
INVARIANTS
    ConsumerConverges
    FeedInLogOrder
    CheckpointLosesNoRow
PROPERTIES
    EveryTableIsFinished
