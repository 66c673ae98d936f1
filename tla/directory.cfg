SPECIFICATION DirectoryRetrySpec
CONSTANTS
    s1 = s1
    s2 = s2
    up = up
    down = down
    sql = sql
    create = create
    drop = drop
    u1 = u1
    NoMid = NoMid
    Subdirectory = Subdirectory
    NoDirectory = NoDirectory
    Separator = Separator
    NoUrl = NoUrl
    BadUrl = BadUrl
    UnknownUrl = UnknownUrl
    Null = Null
    NotInteger = NotInteger
    Sorted <- MCSorted
    UpMid <- MCUpMid
    DownMid <- MCDownMid
    SqlExt <- MCSqlExt
    Comment = {}
    LongLine = {}
    Directories <- MCDirectories
    Id <- MCId
    BlankId <- MCBlankId
    Rev <- MCRev
    NoUp <- MCNoUp
    NoDown <- MCNoDown
    Url <- MCUrl
    ResourceUrl <- MCResourceUrl
    ProviderConfig <- MCProvider
    Needs = {}
    Strict = FALSE
    FaultKinds = {"refuse", "lost", "ping", "stop"}
    MaxFaults = 1
INVARIANTS
    RecordedHasRun
    NothingUnrecorded
PROPERTIES
    OnlyDifference
    ImplementsLedger
    DestroyedWithoutFiles
    FollowsDirectory
CHECK_DEADLOCK FALSE
