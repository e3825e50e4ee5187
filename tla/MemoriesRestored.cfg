SPECIFICATION Spec
CONSTANTS
    Kind = "knowledge"
    Memories = {m1, m2}
    Goals = {g}
    Batch = 2
    Held = {"govern"}
    Actors = {t}
    Unprovided = {}
PROPERTIES SuppressedIsNotRestored
CHECK_DEADLOCK FALSE
