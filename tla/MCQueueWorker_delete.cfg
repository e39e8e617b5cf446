\* One resting order and one DELETE of it; nothing fails.
SPECIFICATION WorkerSpec
CONSTANTS
    OrderIds <- One
    Users = {"u", "v"}
    Requests <- RestingRequest
    FetchLimit = 3
    InitialFunds <- WorkerFunds
    SnapshotLimit = 3
    BatchMax = 2
    Permits = 2
    ChannelCap = 1
    WriteMax = 2
    CancelPermits = 1
    CancelAlls = {}
    CancelUser <- NoCancelAll
    MaxCancels = 1
    MaxFaults = 0
PROPERTIES DeleteRemoves
CHECK_DEADLOCK FALSE
