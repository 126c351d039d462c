SPECIFICATION Spec
CONSTANTS
    IdleProcs = {editor, mail}
    IdleFirst = {editor, mail}
    IdlePids = {1, 2}
    IdlePidOf <- TwoPids
    NoPid = 0
    Windows = {1}
    Low = {mail}
    Important = {editor}
    Large = {editor, mail}
    Reliable = {editor, mail}
    IdleGaps = {1}
    SwapReadings = {"fine", "full", "tight"}
    Freezings = {TRUE, FALSE}
    IdleSec = 2
    ImportantSec = 2
    FreezeAfter = 2
    GlobalCooldown = 1
    MaxReclaims = 1
    MaxFreezes = 1
    IdleMaxAge = 2
    QuickReuse = FALSE
    KillProcs = {player, store, update}
    KillFirst = {player, store}
    KillPidOf <- StorePids
    Rules = {player, store, update}
    KillAfter = 2
    KillMaxAge = 2
    LeakPids = {1, 2, 3, 4, 5}
    Families = {server}
    FamilyOf <- OneFamily
    Exclude = {}
    RssOf <- FirstBig
    LeakGaps = {1, 2}
    WindowSec = 2
    MinGroupCount = 2
    MinGroupRss = 4
    GrowthOverWindow = 2
    MinSamples = 2
    KeepNewest = 1
    CooldownSec = 3
    LeakMaxAge = 3
    Wraps = FALSE
    Readings <- Loads
    FirstReading <- NoLoad
    Weight <- Weights
    MinObserved = 3
    MinStallEvents = 1
    MinStallSecs = 1
    Current <- Defaults
    Torn = Torn
    NoFlight = NoFlight
    MaxSecs = 3
    MaxEvents = 2
    MaxLate = 1
    GateGaps = {1}
    Jumps <- Backward
    MaxJumps = 2
    Cooldown <- Cooldowns
    DropTrigger = 2
    GateMaxAge = 4
    editor = editor
    mail = mail
    player = player
    store = store
    update = update
    server = server
    stopped1 = stopped1
    stopped2 = stopped2
    dumped = dumped
    huge = huge
PROPERTY TerminatedWithCause
PROPERTY NotBotheredAgain
PROPERTY EvidenceSound
PROPERTY NobodyStarves
CHECK_DEADLOCK FALSE
