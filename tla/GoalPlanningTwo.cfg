SPECIFICATION Spec
CONSTANTS
    Actors = {a1, a2}
    TasksPerPlan = 1
    Budget = 3
INVARIANT TypeOK
INVARIANT NewestPlanIsActive
INVARIANT SupersededHasSuccessor
INVARIANT OneStatePerJob
CHECK_DEADLOCK FALSE
