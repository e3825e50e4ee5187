SPECIFICATION FairSpec
CONSTANTS
    Items = {1, 2}
    Stages = {1, 2}
    StageOf <- ShortStageOf
    DayOf <- ShortDayOf
    EndOf <- ShortEndOf
    Deadline = 1
    Window = 1
    Reach = 1
    Runners = {worker}
    Budget = 1
INVARIANT OncePerRunner
INVARIANT OneMilestone
PROPERTY GateHolds
PROPERTY DueStagesGetMilestones
CHECK_DEADLOCK FALSE
