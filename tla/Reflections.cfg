SPECIFICATION ReflectionsSpec
CONSTANTS
    Tasks = {t1, t2}
    Repairs = {t2}
    Assessments = {t1}
    Earlier = 2
    Outcomes = {"completed", "failed"}
    FullReplans = {}
    Causes = {"knowledge_gap"}
    Resolutions = {"completed"}
    Actors = {a, b}
    PeriodicDays = {1}
    MaxFailedRuns = 1
    MaxDecisions = 1
    LastDay = 1
SYMMETRY Symmetry
INVARIANTS ReviewIsDue OccurrencesAreCounted NewestCardIsActive
CHECK_DEADLOCK FALSE
