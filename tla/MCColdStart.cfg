\* Seeding, resets and crashes next to trading.
SPECIFICATION BidSpec
CONSTANTS
    OrderIds <- Two
    Users = {"u"}
    Requests <- ColdRequests
    FetchLimit = 3
    InitialFunds <- ColdFunds
    ClientKeys = {"none"}
    SnapshotLimit = 3
    Gateways = {"g1"}
    Workers = {"w1"}
    SeedFunds <- ColdSeeds
    MaxEvents = 1
    MaxCrashes = 1
INVARIANTS  SkipIsSafe RestartNeverOverfills
CHECK_DEADLOCK FALSE
