\* What the transactions do to the balances.
SPECIFICATION HealthySpec
CONSTANTS
    OrderIds <- Two
    Users = {"u", "v"}
    Requests <- FlowRequests
    FetchLimit = 3
    InitialFunds <- FlowFunds
    ClientKeys = {"none"}
    SnapshotLimit = 3
INVARIANT SupplyConserved
CHECK_DEADLOCK FALSE
