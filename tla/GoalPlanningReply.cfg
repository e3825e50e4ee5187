SPECIFICATION Spec
CONSTANTS
    Actors = {a1}
    TasksPerPlan = 1
    Budget = 3
INVARIANT ManualReplanLeavesReplanning
CHECK_DEADLOCK FALSE
