SPECIFICATION Spec
CONSTANTS
    a = a
    b = b
    blank = blank
    r1 = r1
    r2 = r2
    u1 = u1
    u2 = u2
    NoUrl = NoUrl
    BadUrl = BadUrl
    UnknownUrl = UnknownUrl
    Null = Null
    NotInteger = NotInteger
    BlankId = blank
    Id <- MCId
    Rev <- MCRev
    NoUp <- MCNoUp
    NoDown <- MCNoDown
    Url <- MCOneUrl
    Lists <- MCLists
    ProviderConfig <- MCOneProvider
    Needs = {}
    Strict = TRUE
    FaultKinds = {}
    MaxFaults = 1
INVARIANT DuplicateIdRejected
CHECK_DEADLOCK FALSE
