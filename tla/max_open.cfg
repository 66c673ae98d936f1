SPECIFICATION ConnectionsSpec
CONSTANTS
    u1 = u1
    u2 = u2
    k1 = k1
    k2 = k2
    k3 = k3
    NoUrl = NoUrl
    BadUrl = BadUrl
    UnknownUrl = UnknownUrl
    Null = Null
    NotInteger = NotInteger
    Url <- MCUrl
    Call <- MCThreeCalls
    ProviderConfig <- MCLimited
    MaxStatements = 2
INVARIANT MaxOpenRespected
CHECK_DEADLOCK FALSE
