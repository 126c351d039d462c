SPECIFICATION Spec
CONSTANTS
    Procs = {app, helper, daemon, shell}
    First = {app, daemon}
    NoPid = NoPid
    NoCgroup = NoCgroup
    Attr <- Desktop
    Windows = {i1}
    Tiny = 1
    Budget = 4
    Loads = {2}
    DumpsFail = TRUE
    QuickReuse = FALSE
    MaxThreads = 2
    app = app
    helper = helper
    daemon = daemon
    shell = shell
    i1 = i1
    i2 = i2
    i3 = i3
    g1 = g1
    g2 = g2
PROPERTY NeverTouched
CHECK_DEADLOCK FALSE
