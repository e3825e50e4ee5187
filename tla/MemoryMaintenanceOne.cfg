SPECIFICATION FairSpec
CONSTANTS
    Types = {governance}
    LastDay = 2
    Records = {1, 2, 3}
    Workers = {w1}
    NoJob = none
    MaxAttempts = 2
    PerTick = 3
    BatchSize = 2
    MaxFaults = 1
INVARIANTS SweptOnce
PROPERTIES EventuallySettled
