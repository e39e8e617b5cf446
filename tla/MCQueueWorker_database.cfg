\* Queue, channel, direct writers and cancellations, with failures.
SPECIFICATION WorkerSpec
CONSTANTS
    OrderIds <- Three
    Users = {"u", "v"}
    Requests <- DatabaseRequests
    FetchLimit = 3
    InitialFunds <- WorkerFunds
    SnapshotLimit = 3
    BatchMax = 2
    Permits = 2
    ChannelCap = 1
    WriteMax = 2
    CancelPermits = 1
    CancelAlls = {1}
    CancelUser <- OneCancelAll
    MaxCancels = 1
    MaxFaults = 1
INVARIANTS RowNeverBelowBook FilledRowIsFilled CreditedOnce NoJobLost
PROPERTIES NoFillAfterCancel PipelineDrains
CHECK_DEADLOCK FALSE
