SPECIFICATION FairSpec
CONSTANTS
  m1 = m1
  m2 = m2
  inboxLabel = inboxLabel
  work = work
  j1 = j1
  j2 = j2
  Message = {m1, m2}
  Account = {a1, a2}
  Label = {inboxLabel, work}
  LabelsOf <- Labels2
  Inbox = Inbox
  InboxNames = {Inbox, inboxLabel}
  Unreadable = {}
  Job = {j1}
  Client = {}
  CommitEvery = 2
  MaxKills = 0
PROPERTY BackfillFinishes
