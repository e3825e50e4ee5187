SPECIFICATION Spec
CONSTANTS
    Items = {1, 2, 3}
    Stages = {1, 2}
    StageOf <- LongStageOf
    DayOf <- LongDayOf
    EndOf <- LongEndOf
    Deadline = 2
    Window = 2
    Reach = 1
    Runners = {worker}
    Budget = 1
PROPERTY BlockedUntilCompleted
CHECK_DEADLOCK FALSE
