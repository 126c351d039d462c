SPECIFICATION SupervisionSpec
CONSTANTS
    Readings <- AllReadings
    Gaps = {2, 50, 70}
    HasTrigger = TRUE
    HibernateAfter = 100
    MaxStreak = 12
    Plugins = {kde}
    MaxEntries = 1
    MaxFails = 0
    Silent = FALSE
    Unreadable = FALSE
    Sizes = {0, 1, 2}
    Threshold = 1
    ShellCooldown = 3
    Slow = FALSE
    MaxQueue = 3
    IdleCheck = 3
    ReapCooldown = 3
    QuickReuse = FALSE
    Devices = {zram0, zram1}
    NoDevice = NoDevice
    MinUsed = 2
    Headroom = 15
    SwapCooldown = 2
    KillCooldown = 1
    MaxData = 2
    MaxAvail = 5
    MaxErrors = 4
    Drift = FALSE
    kde = kde
    zram0 = zram0
    zram1 = zram1
PROPERTY EscalationPersists
PROPERTY RecoveryPersists
PROPERTY Settles
PROPERTY NobodyMisses
PROPERTY EndsWell
PROPERTY DoesNoHarm
CHECK_DEADLOCK FALSE
