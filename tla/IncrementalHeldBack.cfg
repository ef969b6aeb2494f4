SPECIFICATION Spec
CONSTANTS
    Scenarios <- MCHeldBack
    XidSpan = 100
    InnerBatch = 2
INVARIANTS
    FeedInLogOrder
