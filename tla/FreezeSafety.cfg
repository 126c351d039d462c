SPECIFICATION BothSpec
CONSTANTS
    Pids = {p1, p2}
    NoPid = NoPid
    MaxGen = 2
    MaxUnfreeze = 1
    Freezers = {}
    Unfreezers = {}
    Focusers = {}
    IdleFreeze = TRUE
    SpikeMode = TRUE
    VictimTimeout = TRUE
    MayShutdown = TRUE
    MayCrash = FALSE
    TornSaves = FALSE
    p1 = p1
    p2 = p2
    k1 = k1
    f1 = f1
SYMMETRY Symmetry
INVARIANT StoppedIsTracked
INVARIANT ShutdownLeavesNoneStopped
PROPERTY ImplementsProcessHold
PROPERTY EntryOutlivesKills
PROPERTY VictimsOutliveKills
CHECK_DEADLOCK FALSE
