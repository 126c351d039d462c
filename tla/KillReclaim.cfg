SPECIFICATION FairSpec
CONSTANTS
    Plugins = {}
    MaxEntries = 1
    MaxFails = 0
    Silent = FALSE
    Unreadable = FALSE
PROPERTY RingTried
CHECK_DEADLOCK FALSE
