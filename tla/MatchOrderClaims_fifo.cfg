\* Time priority at equal price.
SPECIFICATION ClaimsSpec
CONSTANTS
    OrderIds <- Three
    Users = {"u", "v"}
    Requests <- UpkeepRequests
    FetchLimit = 3
    InitialFunds <- AmpleFunds
PROPERTY EarliestFirst
CHECK_DEADLOCK FALSE
