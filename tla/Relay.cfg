CONSTANTS
    LastEvent = 4
    AggregateOf <- MCAggregateOf
    Relays = {r1, r2}
    BatchSize = 2
    MaxAttempts = 1
    MaxFaults = 3
SPECIFICATION FairRelaySpec
INVARIANTS
    SentInOrder NoNeedlessCopy PublishedWasSent
PROPERTIES
    BacklogDrains
CHECK_DEADLOCK FALSE
