SPECIFICATION FairSpec
CONSTANTS
  m1 = m1
  m2 = m2
  m3 = m3
  empty = empty
  c1 = c1
  c2 = c2
  Content = {empty, c1, c2}
  Blank = empty
  Undated = Undated
  Horizon = 1
  Message = {m1, m2, m3}
  Mailboxes <- Boxes
  Garbled <- Garbage
  Matches <- Hits3
  Score <- Scores
  Digest <- Digests
  Index <- Numbers
  Asked <- Sizes
  MaxLimit = 2
  MaxOffset = 1
  Lost = Lost
  NoRow = NoRow
  LastDay = 1
  MaxDamage = 1
INVARIANTS
  ServesWhatWasRecorded
  ShowsWhatParseSaw
  NoPageFails
  SearchMissesNothing
PROPERTY SearchEnds
