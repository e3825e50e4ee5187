SPECIFICATION Spec
CONSTANTS
    NoKey = none
    Keys = {d1, x1}
    Dispatched = {d1}
    Replay = {}
    DailyType = {d1}
    DayKeys = {d1}
    Ensuring = {d1}
    Runners = {worker, manual}
    Raising = {manual}
    Requests = {}
    MaxAttempts = 2
    Limit = 2
    MaxFaults = 0
PROPERTIES
    NoLeaseStolen
CHECK_DEADLOCK FALSE
