CONSTANTS
    LastEvent = 1
    AggregateOf <- MCAggregateOf
    Relays = {r1}
    BatchSize = 1
    Workers = {w1}
    NoEvent = NoEvent
    MaxAttempts = 2
    MaxFaults = 1
    MaxRedrives = 1
    PruneRaces = TRUE
SPECIFICATION Spec
INVARIANT EffectOnce
CHECK_DEADLOCK FALSE
