SPECIFICATION SessionSpec
CONSTANTS
    Calls = {c1, c2}
    Hour = 1
    MaxCalls = 1
    MaxRetries = 1
    Threshold = 2
    Cooldown = 2
    Turns = {t1, t2}
    Quizzes = {q}
    WithGoal = TRUE
    Closed = {"completed"}
SYMMETRY Symmetry
INVARIANTS MessagesAreCounted TurnsAreReplayed UsageTellsOutcome
PROPERTY ProviderRests
CHECK_DEADLOCK FALSE
