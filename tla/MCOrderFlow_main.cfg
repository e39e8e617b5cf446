\* Concurrent invocations with failures.
SPECIFICATION FlowSpec
CONSTANTS
    OrderIds <- Three
    Users = {"u", "v"}
    Requests <- FlowRequests
    FetchLimit = 3
    InitialFunds <- FlowFunds
    ClientKeys = {"none", "warmup", "k"}
    SnapshotLimit = 3
INVARIANTS RowLagExplained PublishedBookUncrossed
CHECK_DEADLOCK FALSE
