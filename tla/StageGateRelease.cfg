SPECIFICATION Spec
CONSTANTS
    Items = {1, 2, 3}
    Stages = {1, 2}
    StageOf <- LongStageOf
    DayOf <- LongDayOf
    EndOf <- LongEndOf
    Deadline = 2
    Window = 3
    Reach = 1
    Runners = {worker}
    Budget = 0
PROPERTY ReleasedDayIsMaterialized
CHECK_DEADLOCK FALSE
