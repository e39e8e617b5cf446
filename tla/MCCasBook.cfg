\* One order through the script, two callers (one fill-or-kill), cancellations.
SPECIFICATION CasSpec
CONSTANTS
    OrderIds <- Three
    Users = {"u", "v"}
    Requests <- CasRequests
    FetchLimit = 3
    InitialFunds <- CasFunds
    OccIds = {2, 3}
    FokIds = {3}
INVARIANTS EngineMeetsReference CleanAccounted FokAllOrNothing
PROPERTY NoResurrection
CHECK_DEADLOCK FALSE
