SPECIFICATION Spec
CONSTANTS
  x1 = x1
  x2 = x2
  x3 = x3
  u1 = u1
  u2 = u2
  f1 = f1
  Undated = Undated
  EveryDay = EveryDay
  Message <- All
  Date <- Dates
  DateOf <- DateIs
  DigestOf <- Digests
  Mailbox <- Boxes
  DayOf <- Days2
  Limit = 2
  TopDigest = 6
  Horizons = 2
INVARIANT ImplausibleReached
