\* Expiry, dropped guards, crashes and lost replies.
SPECIFICATION FairSpec
CONSTANTS
    Tasks = {"w1", "w2"}
    WorkerId <- OwnId
    MaxRetries = 2
    MaxCalls = 3
INVARIANTS MutualExclusion KeyLostOnlyByExpiry TokensUnique
PROPERTY AttemptEnds
CHECK_DEADLOCK FALSE
