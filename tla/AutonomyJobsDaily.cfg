SPECIFICATION Spec
CONSTANTS
    NoKey = none
    Keys = {d1, d2, x1}
    Dispatched = {d1, d2}
    Replay = {}
    DailyType = {d1, d2}
    DayKeys = {d1, d2}
    Ensuring = {d1, d2}
    Runners = {worker}
    Raising = {}
    Requests = {req}
    MaxAttempts = 2
    Limit = 2
    MaxFaults = 2
PROPERTIES
    EnsureLeavesADailyJob
CHECK_DEADLOCK FALSE
