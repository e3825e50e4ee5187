SPECIFICATION Spec
CONSTANTS
    Kind = "behavior"
    Memories = {m1, m2, m3}
    Goals = {g}
    Batch = 2
    Held = {"compress"}
    Actors = {t}
    Unprovided = {m1}
PROPERTIES SuppressedStays
CHECK_DEADLOCK FALSE
