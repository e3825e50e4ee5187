SPECIFICATION FairSpec
CONSTANTS
    NoKey = none
    Keys = {d1, m1, x1}
    Dispatched = {d1, m1}
    Replay = {}
    DailyType = {d1, m1}
    DayKeys = {d1}
    Ensuring = {d1, m1}
    Runners = {worker}
    Raising = {}
    Requests = {req}
    MaxAttempts = 2
    Limit = 2
    MaxFaults = 2
INVARIANTS
    ReworkCostsAFault
PROPERTIES
    AtMostOnce
    EventuallySettled
CHECK_DEADLOCK FALSE
