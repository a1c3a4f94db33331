SPECIFICATION FairSpec
CONSTANTS
  p1 = p1
  p2 = p2
  w1 = w1
  w2 = w2
  w3 = w3
  h1 = h1
  h2 = h2
  h3 = h3
  dir = dir
  s1 = s1
  s2 = s2
  s3 = s3
  acctA = acctA
  acctB = acctB
  NoHash = NoHash
  Nobody = Nobody
  None = None
  Hash = {h1}
  Shard = {dir}
  ShardOf <- OneDir
  Worker = {w1, w2}
  JournalledMkdir = TRUE
  Proc = {p1, p2}
  Source = {s1}
  Content <- Two
  Refused = {}
  Account = {acctA}
  RunId = {1, 2}
  BatchSize = 2
  FaultKind = {"worker"}
  MaxFaults = 1
CHECK_DEADLOCK FALSE
PROPERTY AllRecordedAtLast
