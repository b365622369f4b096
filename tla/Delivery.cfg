CONSTANTS
    LastEvent = 1
    AggregateOf <- MCAggregateOf
    Relays = {r1}
    BatchSize = 1
    Workers = {w1, w2}
    NoEvent = NoEvent
    MaxAttempts = 2
    MaxFaults = 2
    MaxRedrives = 1
    PruneRaces = FALSE
SPECIFICATION FairSpec
INVARIANTS TypeOK EffectOnce NothingLost
PROPERTY EventsSettle
CHECK_DEADLOCK FALSE
