SPECIFICATION FairSpec
CONSTANTS
    r1 = r1
    r2 = r2
    h1 = h1
    h2 = h2
    dirA = dirA
    dirB = dirB
    Runner = {r1, r2}
    Image = {1, 2}
    MaxFailures = 1
    Hash = {h1, h2}
    Shard = {dirA, dirB}
    ShardOf <- TwoDirs
    MaxDamage = 1
    MaxSeen = 2
    Tables = 1
    Accounts = 2
INVARIANTS
    InOrderOnce
    EveryMessageHasAccount
    DamageIsReported
    ReportIsExact
PROPERTY SchemaGetsLatest
