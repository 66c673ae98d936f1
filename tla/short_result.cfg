SPECIFICATION DataSpec
CONSTANTS
    u1 = u1
    u2 = u2
    u3 = u3
    u4 = u4
    k1 = k1
    k2 = k2
    col1 = col1
    col2 = col2
    x = x
    y = y
    NoUrl = NoUrl
    BadUrl = BadUrl
    UnknownUrl = UnknownUrl
    Null = Null
    NotInteger = NotInteger
    Unnamed = Unnamed
    Nil = Nil
    NaN = NaN
    Url <- MCUrl
    Call <- MCCall
    Reader <- MCReader
    SchemeOf <- MCScheme
    Positional <- MCPositional
    Query <- MCQuery
    ProviderConfig <- MCProviderConfig
    MaxStatements = 2
    MaxInt = 6
    MaxInt32 = 5
    MaxExact = 4
INVARIANT ResultIsWhole
CHECK_DEADLOCK FALSE
