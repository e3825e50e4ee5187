SPECIFICATION Spec
CONSTANTS
    Actors = {a1}
    TasksPerPlan = 1
    Budget = 3
PROPERTY FailedReplansAreRolledBack
CHECK_DEADLOCK FALSE
