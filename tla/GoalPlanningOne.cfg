SPECIFICATION FairSpec
CONSTANTS
    Actors = {a1}
    TasksPerPlan = 1
    Budget = 3
INVARIANT NewestPlanIsActive
INVARIANT StateFollows
INVARIANT OneActivePlan
INVARIANT OpenTasksFollowThePlan
PROPERTY SettledTasksStaySettled
PROPERTY ReplansAreServed
CHECK_DEADLOCK FALSE
