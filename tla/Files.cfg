SPECIFICATION FilesSpec
CONSTANTS
    Pids = {p1, p2}
    Names = {n1, n2}
    NoName = NoName
    NoPid = NoPid
    MaxGen = 3
    NameOf <- TwoNames
    MaxTries = 3
    Restorers = {}
    Reuse = FALSE
    Overlap = {}
    MayStop = TRUE
    MayCrash = FALSE
    TornSaves = FALSE
    p1 = p1
    p2 = p2
    n1 = n1
    n2 = n2
    c1 = c1
    c2 = c2
    Texts <- UserTexts
    Default <- DefaultTiers
    System <- SystemText
    Suggested = {3}
    MaxEdits = 1
    MaxTold = 1
    Absent = Absent
    Broken = Broken
    Nothing = Nothing
INVARIANT NothingLost
INVARIANT ReloadsSettle
PROPERTY RecordedIsSafe
PROPERTY RecordOutlivesKills
PROPERTY EntriesResolved
PROPERTY ImplementsReversibleEviction
