SPECIFICATION FairSession
CONSTANTS
    x1 = x1
    x2 = x2
    u1 = u1
    u2 = u2
    f1 = f1
    reader = reader
    Undated = Undated
    EveryDay = EveryDay
    Message <- All
    Date <- Dates
    DateOf <- DateIs
    DigestOf <- Digests
    Mailbox <- Boxes
    DayOf <- Days2
    Limit = 1
    TopDigest = 5
    Horizons = 1
    Client = {reader}
    Reader = reader
    NoRequest = NoRequest
    Threshold = 2
    Lockout = 2
INVARIANTS
    NothingSkipped
PROPERTIES
    PagesInOrder
    WalkSurvivesLogin
    FewGuesses
    WalkEnds
