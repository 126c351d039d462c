SPECIFICATION AwaySpec
CONSTANTS
    editor = editor
    Procs = {editor}
    First = {editor}
    Pids = {1}
    PidOf <- EditorPid
    NoPid = 0
    Windows = {1}
    Low = {editor}
    Important = {}
    Large = {editor}
    Reliable = {editor}
    Gaps = {1}
    SwapReadings = {"fine"}
    Freezings = {FALSE}
    IdleSec = 2
    ImportantSec = 2
    FreezeAfter = 2
    GlobalCooldown = 1
    MaxReclaims = 1
    MaxFreezes = 1
    MaxAge = 3
    QuickReuse = FALSE
PROPERTY ContinuouslyIdle
CHECK_DEADLOCK FALSE
