\* One client of either kind, two publishers, failures.
SPECIFICATION FeedSpec
CONSTANTS
    Publishers = {"p", "q"}
    Clients = {"c"}
    ChannelCap = 1
    MaxChanges = 2
    MaxWire = 1
    MaxFaults = 1
INVARIANTS QuietBookPublished CaughtUpIsFresh
PROPERTIES EveryoneCatchesUp
CHECK_DEADLOCK FALSE
