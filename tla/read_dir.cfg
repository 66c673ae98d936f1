SPECIFICATION ReadSpec
CONSTANTS
    s1 = s1
    s2 = s2
    up = up
    UP = UP
    down = down
    sql = sql
    txt = txt
    create = create
    drop = drop
    comment = comment
    long = long
    NoMid = NoMid
    Subdirectory = Subdirectory
    NoDirectory = NoDirectory
    Separator = Separator
    Sorted <- MCSorted
    UpMid <- MCUpMid
    DownMid <- MCDownMid
    SqlExt <- MCSqlExt
    Comment <- MCComment
    LongLine <- MCLongLine
    Lines <- MCLines
    MaxEdits = 1
    Id <- MCId
    BlankId <- MCBlankId
    Rev <- MCRev
    NoUp <- MCRev
    NoDown <- MCRev
INVARIANTS
    ReadsListing
    ReadsDirectory
    OneMigrationPerId
CHECK_DEADLOCK FALSE
