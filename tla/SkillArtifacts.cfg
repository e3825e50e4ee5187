SPECIFICATION FairSpec
CONSTANTS
    Artifacts = {a, b}
    Governed = {b}
    InUse = {}
    Advised = {"replace_selectable", "archive_deprecated"}
    Actors = {t}
    Held = {"stage", "activate_staged", "replace_selectable", "stabilize_active",
            "rollback", "accept", "dismiss"}
INVARIANTS ProductionIsRolledOut
PROPERTIES RetiredStays AcceptedIsDone ReadyIsRecommended
CHECK_DEADLOCK FALSE
