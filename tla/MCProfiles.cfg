SPECIFICATION Spec
CONSTANTS
    noreply = noreply
    shop = shop
    person = person
    n1 = n1
    n2 = n2
    s1 = s1
    p1 = p1
    reply = reply
    None = None
    NoProfile = NoProfile
    Unknown = Unknown
    Address <- Addresses
    DomainOf <- Domains
    Message <- Messages
    From <- Senders1
    To <- Rcpts
    LabelsOf <- Labels1
    Unreplyable = {noreply}
    RoleShaped = {}
    HighVolume = 3
    HighPersonal = 4
    DomainVolume = 2
    RatioNum = 2
    RatioDen = 3
    Rebuild = {r1, r2}
    MaxFailures = 1
    MaxOverrides = 1
SYMMETRY Symmetry
INVARIANTS
    OwnersWordStands
    VerdictsFromMail
