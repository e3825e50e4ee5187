SPECIFICATION Spec
CONSTANTS
    Artifacts = {a, b}
    Governed = {b}
    InUse = {a}
    Advised = {}
    Actors = {t}
    Held = {"stage", "activate_staged", "replace_selectable", "stabilize_active",
            "rollback", "accept", "dismiss"}
INVARIANTS RolledBackIsNotInUse
CHECK_DEADLOCK FALSE
