\* Expiry, cancellation and the sweep interleaved with trading, and a fetch that
\* three makers or ghosts exceed.
SPECIFICATION UpkeepSpec
CONSTANTS
    OrderIds <- Four
    Users = {"u", "v"}
    Requests <- UpkeepRequests
    FetchLimit = 2
    InitialFunds <- AmpleFunds
INVARIANTS BookUncrossed QuantityAccounted SweepSparesLive
PROPERTIES ImplementsExchange
CHECK_DEADLOCK FALSE
