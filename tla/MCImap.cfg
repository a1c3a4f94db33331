SPECIFICATION FairSpec
CONSTANTS
  m1 = m1
  m2 = m2
  inboxLabel = inboxLabel
  work = work
  j1 = j1
  j2 = j2
  Message = {m1, m2}
  Account = {a1}
  Label = {inboxLabel}
  LabelsOf <- Plain
  Inbox = Inbox
  InboxNames = {Inbox, inboxLabel}
  Unreadable = {m2}
  Job = {j1, j2}
  Client = {c1}
  CommitEvery = 1
  MaxKills = 1
INVARIANTS
  UidsDense
  InboxByArrival
PROPERTIES
  UidsAscend
  UidNextIsSafe
  BackfillFinishes
