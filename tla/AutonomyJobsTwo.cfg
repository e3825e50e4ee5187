SPECIFICATION Spec
CONSTANTS
    NoKey = none
    Keys = {d1, y1}
    Dispatched = {d1}
    Replay = {y1}
    DailyType = {d1}
    DayKeys = {d1}
    Ensuring = {d1}
    Runners = {worker, manual}
    Raising = {manual}
    Requests = {req}
    MaxAttempts = 2
    Limit = 2
    MaxFaults = 1
INVARIANTS
    CompletedMeansDone
PROPERTIES
    FinishedChangesOnlyFromStaleReads
CHECK_DEADLOCK FALSE
