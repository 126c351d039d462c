SPECIFICATION BothSpec
CONSTANTS
    Procs = {p1, p2, p3}
    NoProc = NoProc
    Cgroups = {g1, g2}
    CgroupOf <- OneAlone
    Tier <- TwoTiers
    Excluded = {p2}
    Spikes = {p3}
    MayHold = FALSE
    HasTrigger = FALSE
    p1 = p1
    p2 = p2
    p3 = p3
    g1 = g1
    g2 = g2
INVARIANT CapsLeave
INVARIANT ShutdownRestores
INVARIANT ForegroundUnlimited
PROPERTY RestoredWhenCalm
CHECK_DEADLOCK FALSE
