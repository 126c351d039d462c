SPECIFICATION Spec
CONSTANTS
    Procs = {build, make, other}
    First = {build, make, other}
    NoPid = NoPid
    Windows = {i3}
    PidOf <- Desktop
    Prio <- Priority
    ReadingsOf <- Swinging
    Avails = {3}
    Configs <- Reloads
    Include = {}
    Exclude = {}
    VictimExclude = {}
    Gaps = {1, 2}
    WindowSec = 1
    MinRss = 2
    GrowthThreshold = 1
    MinSamples = 2
    DropPct = 90
    HeadroomPct = 125
    IdleRssDelta = 1
    IdleTicks = 2
    VictimMinRss = 1
    CooldownSec = 1
    MaxLimit = 1
    QuickReuse = FALSE
    build = build
    make = make
    other = other
    i1 = i1
    i2 = i2
    i3 = i3
PROPERTY TrackingSwings
PROPERTY DemotedWhenQuiet
PROPERTY NotSoonAgain
PROPERTY HeldTogether
PROPERTY NoMoreThanNeeded
CHECK_DEADLOCK FALSE
