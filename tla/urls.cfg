SPECIFICATION RetrySpec
CONSTANTS
    a = a
    b = b
    blank = blank
    r1 = r1
    r2 = r2
    u1 = u1
    u2 = u2
    NoUrl = NoUrl
    BadUrl = BadUrl
    UnknownUrl = UnknownUrl
    Null = Null
    NotInteger = NotInteger
    BlankId = blank
    Id <- MCId
    Rev <- MCRev
    NoUp <- MCNoUp
    NoDown <- MCNoDown
    Url <- MCUrl
    Lists <- MCGrowing
    ProviderConfig <- MCTwoProviders
    Needs = {}
    Strict = FALSE
    FaultKinds = {"refuse", "lost", "ping", "stop"}
    MaxFaults = 2
INVARIANTS
    RecordedHasRun
    NothingUnrecorded
PROPERTIES
    OnlyDifference
    ImplementsLedger
    Settles
CHECK_DEADLOCK FALSE
