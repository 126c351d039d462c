SPECIFICATION LiveSpec
CONSTANTS
    Pids = {p1}
    NoPid = NoPid
    MaxGen = 1
    MaxUnfreeze = 1
    Freezers = {}
    Unfreezers = {u1}
    Focusers = {w1}
    IdleFreeze = FALSE
    SpikeMode = TRUE
    VictimTimeout = FALSE
    MayShutdown = FALSE
    MayCrash = FALSE
    TornSaves = FALSE
    p1 = p1
    p2 = p2
    k1 = k1
    f1 = f1
PROPERTY FrozenReleased
PROPERTY VictimsReleased
PROPERTY RequestHonoured
INVARIANT NoDoubleHold
