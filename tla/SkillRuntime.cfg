SPECIFICATION FairRuntimeSpec
CONSTANTS
    a = a
    b = b
    Artifacts = {a, b}
    Governed = {b}
    InUse = {}
    Advised = {"replace_selectable"}
    Actors = {t}
    Held = {"replace_selectable"}
    Offers <- Offered
INVARIANTS ProductionIsRolledOut ServedPlansAreSound
PROPERTIES RetiredStays ReadyIsRecommended BadRunsTell
CHECK_DEADLOCK FALSE
