SPECIFICATION Spec
CONSTANTS
    Sizes = {0, 1, 2}
    Threshold = 1
    Cooldown = 3
    Slow = FALSE
    MaxQueue = 3
PROPERTY OnlyLeaking
CHECK_DEADLOCK FALSE
