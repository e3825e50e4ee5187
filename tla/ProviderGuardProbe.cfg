SPECIFICATION Spec
CONSTANTS
    Calls = {c1, c2}
    Hour = 3
    MaxCalls = 3
    MaxRetries = 1
    Threshold = 2
    Cooldown = 2
INVARIANT OneProbe
