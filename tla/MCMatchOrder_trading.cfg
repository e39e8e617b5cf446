\* Trading alone: every kind of order, little money.
SPECIFICATION TradingSpec
CONSTANTS
    OrderIds <- Three
    Users = {"u", "v"}
    Requests <- TradingRequests
    FetchLimit = 3
    InitialFunds <- TightFunds
INVARIANTS TypeOK BookUncrossed FundsBackBook ReplyMatchesTrades LimitRespected SelfTradePrevented
PROPERTIES BestPriceFirst ImplementsExchange
CHECK_DEADLOCK FALSE
