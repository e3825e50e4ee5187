SPECIFICATION Spec
CONSTANTS
    Actors = {a1, a2}
    TasksPerPlan = 1
    Budget = 3
PROPERTY ArchivedIsFinal
CHECK_DEADLOCK FALSE
