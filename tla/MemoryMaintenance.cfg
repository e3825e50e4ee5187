SPECIFICATION FairSpec
CONSTANTS
    Types = {governance}
    LastDay = 1
    Records = {1, 2}
    Workers = {w1, w2}
    NoJob = none
    MaxAttempts = 2
    PerTick = 2
    BatchSize = 1
    MaxFaults = 1
INVARIANTS CompletedOwesNothing
PROPERTY EventuallySettled
