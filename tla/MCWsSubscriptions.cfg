\* One connection with two invocations at a time, one push at a time.
SPECIFICATION WsSpec
CONSTANTS
    Conns = {"c"}
    Channels = {"book", "trades"}
    PairChannels <- MCPairChannels
    Messages <- MCMessages
    Writes = {{}, {"book", "trades"}}
    Handlers = {"h1", "h2"}
    Pushers = {"p"}
    MaxWrites = 1
    MaxMessages = 2
    MaxFaults = 1
INVARIANTS ListedIsServed SetsExpire
PROPERTIES OpenKeepsChannels ClosedGoes
CHECK_DEADLOCK FALSE
