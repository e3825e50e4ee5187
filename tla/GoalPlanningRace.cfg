SPECIFICATION Spec
CONSTANTS
    Actors = {a1, a2}
    TasksPerPlan = 1
    Budget = 3
INVARIANT NoTwoActivePlans
CHECK_DEADLOCK FALSE
