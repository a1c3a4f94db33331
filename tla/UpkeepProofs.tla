------------------------------ MODULE UpkeepProofs ------------------------------
(***************************************************************************)
(* What holds of migrations and accounts for any number of runners and     *)
(* releases, next to an ingest, a check and a failing disk.                *)
(***************************************************************************)
EXTENDS Upkeep, FiniteSetTheorems, NaturalsInduction, TLAPS

(* A runner's list is an interval that leaves no gap above what is recorded. *)
ListInv ==
    \A r \in Runner : runner[r].todo # {} =>
        \E lo, hi \in Nat : /\ 1 <= lo /\ lo <= hi /\ lo <= Len(schema) + 1
                            /\ runner[r].todo = lo .. hi

(* The open transaction of the script of accounts has found every message.   *)
FoundInv ==
    /\ found = [r \in Runner |-> found[r]]
    /\ \A r \in Runner :
           /\ runner[r].pc = "record"
           /\ Least(runner[r].todo) = Accounts
           /\ Accounts \notin recorded
           => rows \subseteq found[r]

MigrateInv == MigrateTypeOK /\ InOrderOnce /\ ListInv

(* The least script of an interval is its lower end.                         *)
LEMMA LeastOfInterval ==
    ASSUME NEW lo \in Nat, NEW hi \in Nat, lo <= hi
    PROVE  Least(lo .. hi) = lo
<1>1. lo \in lo .. hi /\ \A u \in lo .. hi : lo <= u
  OBVIOUS
<1>2. \A v \in lo .. hi : (\A u \in lo .. hi : v <= u) => v = lo
  OBVIOUS
<1> QED BY <1>1, <1>2 DEF Least

(* A runner with scripts left goes on, one without is done.                  *)
LEMMA RestType ==
    ASSUME NEW todo \in SUBSET Nat
    PROVE  /\ Rest(todo) \in RunnerRec
           /\ Rest(todo).pc = "idle" <=> Rest(todo).todo = {}
           /\ Rest(todo).todo = todo
<1>1. CASE todo = {}
  BY <1>1 DEF Rest, NoRunner, RunnerRec
<1>2. CASE todo # {}
  BY <1>2 DEF Rest, RunnerRec
<1> QED BY <1>1, <1>2

(* The invariant of migrations holds at first.                               *)
LEMMA InitMigrateInv == MigrateInit => MigrateInv
<1> SUFFICES ASSUME MigrateInit PROVE MigrateInv
  OBVIOUS
<1>1. PICK n \in Image \cup {0} : schema = [i \in 1 .. n |-> i] /\ recorded = 1 .. n
  BY DEF MigrateInit
<1>2. n \in Nat
  BY <1>1, MigrateAssumption
<1>3. schema \in Seq(Nat) /\ Len(schema) = n
  BY <1>1, <1>2
<1>4. InOrderOnce
  BY <1>1, <1>3 DEF InOrderOnce
<1>5. \A r \in Runner : runner[r] = NoRunner
  BY DEF MigrateInit
<1>6. MigrateTypeOK
  BY <1>1, <1>2, <1>3, <1>5, MigrateAssumption
     DEF MigrateTypeOK, MigrateInit, NoRunner, RunnerRec
<1> QED BY <1>4, <1>5, <1>6 DEF MigrateInv, ListInv, NoRunner

(* What a step of one runner does to the others: nothing, but the schema may *)
(* have grown.                                                               *)
LEMMA OneRunner ==
    ASSUME MigrateInv, NEW r \in Runner, NEW rec \in RunnerRec,
           runner' = [runner EXCEPT ![r] = rec],
           rec.pc = "idle" <=> rec.todo = {},
           rec.todo # {} => \E lo, hi \in Nat : /\ 1 <= lo /\ lo <= hi
                                               /\ lo <= Len(schema') + 1
                                               /\ rec.todo = lo .. hi,
           schema' \in Seq(Nat), Len(schema) <= Len(schema'), recorded' \subseteq Nat,
           failures' \in 0 .. MaxFailures, InOrderOnce'
    PROVE  MigrateInv'
<1>1. runner \in [Runner -> RunnerRec] /\ schema \in Seq(Nat)
  BY DEF MigrateInv, MigrateTypeOK
<1>2. /\ runner' \in [Runner -> RunnerRec]
      /\ runner'[r] = rec /\ \A s \in Runner : s # r => runner'[s] = runner[s]
  BY <1>1
<1>3. MigrateTypeOK'
  BY <1>2 DEF MigrateInv, MigrateTypeOK
<1>4. ASSUME NEW s \in Runner, runner'[s].todo # {}
      PROVE  \E lo, hi \in Nat : /\ 1 <= lo /\ lo <= hi /\ lo <= Len(schema') + 1
                                 /\ runner'[s].todo = lo .. hi
  <2>1. CASE s = r
    BY <1>2, <1>4, <2>1
  <2>2. CASE s # r
    <3>1. PICK lo, hi \in Nat : /\ 1 <= lo /\ lo <= hi /\ lo <= Len(schema) + 1
                                /\ runner[s].todo = lo .. hi
      BY <1>2, <1>4, <2>2 DEF MigrateInv, ListInv
    <3>2. lo <= Len(schema') + 1
      BY <1>1, <3>1
    <3> QED BY <1>2, <2>2, <3>1, <3>2
  <2> QED BY <2>1, <2>2
<1> QED BY <1>3, <1>4 DEF MigrateInv, ListInv

(* A runner that ends keeps it.                                              *)
LEMMA RunnerLeaves ==
    ASSUME MigrateInv, NEW r \in Runner, runner' = [runner EXCEPT ![r] = NoRunner],
           schema' = schema, recorded' = recorded, failures' \in 0 .. MaxFailures
    PROVE  MigrateInv'
<1>1. NoRunner \in RunnerRec /\ NoRunner.pc = "idle" /\ NoRunner.todo = {}
  BY DEF NoRunner, RunnerRec
<1>2. schema' \in Seq(Nat) /\ recorded' \subseteq Nat
  BY DEF MigrateInv, MigrateTypeOK
<1>3. Len(schema) \in Nat /\ Len(schema') = Len(schema)
  BY DEF MigrateInv, MigrateTypeOK
<1>4. InOrderOnce'
  BY DEF MigrateInv, InOrderOnce
<1>5. Len(schema) <= Len(schema')
  BY <1>3
<1>6. NoRunner.todo # {} => \E lo, hi \in Nat : /\ 1 <= lo /\ lo <= hi
                                                /\ lo <= Len(schema') + 1
                                                /\ NoRunner.todo = lo .. hi
  BY <1>1
<1>7. NoRunner.pc = "idle" <=> NoRunner.todo = {}
  BY <1>1
<1> HIDE DEF NoRunner
<1> QED BY <1>1, <1>2, <1>4, <1>5, <1>6, <1>7, OneRunner

(* Every step of the runners keeps it.                                       *)
LEMMA NextMigrateInv == MigrateInv /\ [MigrateNext]_migrateVars => MigrateInv'
<1> SUFFICES ASSUME MigrateInv, [MigrateNext]_migrateVars PROVE MigrateInv'
  OBVIOUS
<1>1. /\ schema \in Seq(Nat) /\ Len(schema) \in Nat
      /\ recorded = 1 .. Len(schema) /\ recorded \subseteq Nat
      /\ schema = [i \in 1 .. Len(schema) |-> i]
      /\ runner \in [Runner -> RunnerRec] /\ failures \in 0 .. MaxFailures
      /\ MaxFailures \in Nat
  BY MigrateAssumption DEF MigrateInv, MigrateTypeOK, InOrderOnce
<1>2. NoRunner \in RunnerRec /\ NoRunner.pc = "idle" /\ NoRunner.todo = {}
  BY DEF NoRunner, RunnerRec
<1>3. ASSUME NEW r \in Runner, NEW n \in Image, Discover(r, n) PROVE MigrateInv'
  <2> DEFINE rec == [pc |-> "apply", todo |-> Pending(n)]
  <2>1. n \in Nat
    BY MigrateAssumption
  <2>2. Pending(n) # {} /\ Pending(n) = 1 .. n \ 1 .. Len(schema)
    BY <1>1, <1>3 DEF Discover, Pending
  <2>3. Pending(n) = Len(schema) + 1 .. n
    BY <1>1, <2>1, <2>2
  <2>4. Len(schema) + 1 <= n
    BY <1>1, <2>1, <2>2, <2>3
  <2>5. /\ runner' = [runner EXCEPT ![r] = rec]
        /\ schema' = schema /\ recorded' = recorded /\ failures' = failures
    BY <1>3 DEF Discover
  <2>6. rec \in RunnerRec
    BY <1>1, <2>1, <2>3 DEF RunnerRec
  <2>7. \E lo, hi \in Nat : /\ 1 <= lo /\ lo <= hi /\ lo <= Len(schema') + 1
                            /\ rec.todo = lo .. hi
    <3> WITNESS Len(schema) + 1 \in Nat, n \in Nat
    <3> QED BY <1>1, <2>1, <2>3, <2>4, <2>5
  <2>8. InOrderOnce'
    BY <2>5 DEF MigrateInv, InOrderOnce
  <2>9. Len(schema) <= Len(schema') /\ rec.pc # "idle" /\ rec.todo # {}
    BY <1>1, <2>2, <2>5
  <2> HIDE DEF rec
  <2> QED BY <1>1, <2>5, <2>6, <2>7, <2>8, <2>9, OneRunner
<1>4. ASSUME NEW r \in Runner, Apply(r) PROVE MigrateInv'
  <2> DEFINE rec == [runner[r] EXCEPT !.pc = "record"]
  <2>1. /\ runner' = [runner EXCEPT ![r] = rec] /\ runner[r].pc = "apply"
        /\ schema' = schema /\ recorded' = recorded /\ failures' = failures
    BY <1>4 DEF Apply
  <2>2. runner[r] \in RunnerRec /\ (runner[r].pc = "idle" <=> runner[r].todo = {})
    BY <1>1 DEF MigrateInv, MigrateTypeOK
  <2>3. rec \in RunnerRec /\ rec.todo = runner[r].todo /\ rec.pc = "record"
    BY <2>2 DEF RunnerRec
  <2>4. runner[r].todo # {}
    BY <2>1, <2>2
  <2>5. InOrderOnce'
    BY <2>1 DEF MigrateInv, InOrderOnce
  <2>6. \E lo, hi \in Nat : /\ 1 <= lo /\ lo <= hi /\ lo <= Len(schema') + 1
                            /\ rec.todo = lo .. hi
    BY <2>1, <2>3, <2>4 DEF MigrateInv, ListInv
  <2>7. Len(schema) <= Len(schema') /\ rec.pc # "idle" /\ rec.todo # {}
    BY <1>1, <2>1, <2>3, <2>4
  <2> HIDE DEF rec
  <2> QED BY <1>1, <2>1, <2>3, <2>5, <2>6, <2>7, OneRunner
<1>5. ASSUME NEW r \in Runner, Record(r) PROVE MigrateInv'
  <2> DEFINE v == Least(runner[r].todo)
  <2>1. runner[r] \in RunnerRec /\ runner[r].todo # {} /\ runner[r].pc = "record"
    BY <1>1, <1>5 DEF MigrateInv, MigrateTypeOK, Record
  <2>2. PICK lo, hi \in Nat : /\ 1 <= lo /\ lo <= hi /\ lo <= Len(schema) + 1
                              /\ runner[r].todo = lo .. hi
    BY <2>1 DEF MigrateInv, ListInv
  <2>3. v = lo
    BY <2>2, LeastOfInterval
  <2> HIDE DEF v
  <2>4. CASE v \in recorded
    <3>1. /\ runner' = [runner EXCEPT ![r] = NoRunner] /\ failures' = failures
          /\ schema' = schema /\ recorded' = recorded
      BY <1>5, <2>4 DEF Record, v
    <3> QED BY <1>1, <3>1, RunnerLeaves
  <2>5. CASE v \notin recorded
    <3> DEFINE rest == Rest(runner[r].todo \ {v})
    <3>1. /\ runner' = [runner EXCEPT ![r] = rest] /\ failures' = failures
          /\ schema' = Append(schema, v) /\ recorded' = recorded \cup {v}
      BY <1>5, <2>5 DEF Record, v
    <3>2. lo = Len(schema) + 1
      BY <1>1, <2>2, <2>3, <2>5
    <3>3. /\ schema' \in Seq(Nat) /\ Len(schema') = Len(schema) + 1
          /\ schema' = [i \in 1 .. Len(schema) + 1 |-> i]
      BY <1>1, <2>2, <2>3, <3>1, <3>2
    <3>4. recorded' = 1 .. Len(schema) + 1 /\ recorded' \subseteq Nat
      BY <1>1, <2>3, <3>1, <3>2
    <3>5. InOrderOnce'
      BY <3>3, <3>4 DEF InOrderOnce
    <3>6. runner[r].todo \ {v} = lo + 1 .. hi
      BY <2>2, <2>3
    <3>7. /\ rest \in RunnerRec
          /\ (rest.pc = "idle" <=> rest.todo = {})
          /\ rest.todo = lo + 1 .. hi
      <4>1. lo + 1 .. hi \in SUBSET Nat
        BY <2>2
      <4> QED BY <3>6, <4>1, RestType
    <3>8. rest.todo # {} => \E a, b \in Nat : /\ 1 <= a /\ a <= b
                                             /\ a <= Len(schema') + 1
                                             /\ rest.todo = a .. b
      <4> SUFFICES ASSUME rest.todo # {}
                   PROVE  \E a, b \in Nat : /\ 1 <= a /\ a <= b
                                            /\ a <= Len(schema') + 1
                                            /\ rest.todo = a .. b
        OBVIOUS
      <4> HIDE DEF rest
      <4>1. lo + 1 \in Nat /\ 1 <= lo + 1 /\ lo + 1 <= hi
        BY <2>2, <3>7
      <4>2. lo + 1 <= Len(schema') + 1
        BY <1>1, <2>2, <3>3
      <4> QED BY <2>2, <3>7, <4>1, <4>2
    <3>9. Len(schema) <= Len(schema')
      BY <1>1, <3>3
    <3> HIDE DEF rest
    <3> QED BY <1>1, <3>1, <3>3, <3>4, <3>5, <3>7, <3>8, <3>9, OneRunner
  <2> QED BY <2>4, <2>5
<1>6. ASSUME NEW r \in Runner, Fail(r) PROVE MigrateInv'
  <2>1. /\ runner' = [runner EXCEPT ![r] = NoRunner]
        /\ schema' = schema /\ recorded' = recorded /\ failures' \in 0 .. MaxFailures
    BY <1>1, <1>6 DEF Fail
  <2> QED BY <2>1, RunnerLeaves
<1>7. CASE UNCHANGED migrateVars
  BY <1>7 DEF migrateVars, MigrateInv, MigrateTypeOK, InOrderOnce, ListInv
<1> QED BY <1>3, <1>4, <1>5, <1>6, <1>7 DEF MigrateNext, RunnerStep

-----------------------------------------------------------------------------
(* Migrations next to everything else.                                       *)

(* Every step is one of the runners or leaves them alone.                    *)
LEMMA NextMigrates == [Next]_vars => [MigrateNext]_migrateVars
<1> SUFFICES ASSUME [Next]_vars PROVE [MigrateNext]_migrateVars
  OBVIOUS
<1>1. ASSUME NEW r \in Runner, MigrateStep(r) \/ MigrateFails(r) PROVE MigrateNext
  BY <1>1 DEF MigrateStep, MigrateFails, Execute, Settle, MigrateNext, RunnerStep
<1>2. CASE Ingest \/ Check \/ DiskFails
  BY <1>2 DEF Ingest, Check, DiskFails
<1>3. CASE UNCHANGED vars
  BY <1>3 DEF vars
<1> QED BY <1>1, <1>2, <1>3 DEF Next

(* Rows are added by the ingest alone.                                       *)
LEMMA RowsStay ==
    ASSUME CheckStep \/ (\E h \in Hash : Damage(h)) \/ UNCHANGED verifyVars
    PROVE  UNCHANGED rows
<1>1. CASE CheckStep
  BY <1>1 DEF CheckStep, Begin, CountSightings, ListShard, ReadRows, CountUnseen,
              HashBlob, EndHashing, Report, archiveVars
<1>2. CASE \E h \in Hash : Damage(h)
  BY <1>2 DEF Damage
<1>3. CASE UNCHANGED verifyVars
  BY <1>3 DEF verifyVars
<1> QED BY <1>1, <1>2, <1>3

AccountInv == FoundInv /\ EveryMessageHasAccount

(* Every step keeps accounts complete.                                       *)
LEMMA NextAccountInv == MigrateInv /\ AccountInv /\ [Next]_vars => AccountInv'
<1> SUFFICES ASSUME MigrateInv, AccountInv, [Next]_vars PROVE AccountInv'
  OBVIOUS
<1>1. /\ runner \in [Runner -> RunnerRec] /\ schema \in Seq(Nat)
      /\ \A r \in Runner : runner[r].pc = "idle" <=> runner[r].todo = {}
  BY DEF MigrateInv, MigrateTypeOK
<1> USE DEF AccountInv, FoundInv, EveryMessageHasAccount
<1>2. ASSUME NEW r \in Runner, NEW n \in Image, Discover(r, n),
             UNCHANGED <<verifyVars, attributed, found>>
      PROVE  AccountInv'
  <2>1. rows' = rows
    BY <1>2, RowsStay
  <2>2. recorded' = recorded /\ runner'[r].pc = "apply"
        /\ \A s \in Runner : s # r => runner'[s] = runner[s]
    BY <1>1, <1>2 DEF Discover
  <2> QED BY <1>2, <2>1, <2>2
<1>3. ASSUME NEW r \in Runner, Execute(r) PROVE AccountInv'
  <2>1. rows' = rows /\ recorded' = recorded /\ attributed' = attributed
    BY <1>3, RowsStay DEF Execute, Apply
  <2>2. /\ runner'[r].todo = runner[r].todo
        /\ \A s \in Runner : s # r => runner'[s] = runner[s]
    BY <1>1, <1>3 DEF Execute, Apply, RunnerRec
  <2>3. ASSUME NEW s \in Runner, runner'[s].pc = "record",
               Least(runner'[s].todo) = Accounts, Accounts \notin recorded
        PROVE  rows \subseteq found'[s]
    <3>1. CASE s = r
      BY <1>3, <2>2, <2>3, <3>1 DEF Execute
    <3>2. CASE s # r
      BY <1>3, <2>2, <2>3, <3>2 DEF Execute
    <3> QED BY <3>1, <3>2
  <2>4. found' = [s \in Runner |-> found'[s]]
    BY <1>3 DEF Execute
  <2> QED BY <2>1, <2>3, <2>4
<1>4. ASSUME NEW r \in Runner, Settle(r) PROVE AccountInv'
  <2> DEFINE v == Least(runner[r].todo)
  <2>1. rows' = rows /\ runner[r].pc = "record"
    BY <1>4, RowsStay DEF Settle, Record
  <2>2. runner'[r].pc # "record" /\ \A s \in Runner : s # r =>
            runner'[s] = runner[s] /\ found'[s] = found[s]
    BY <1>1, <1>4 DEF Settle, Record, Rest, NoRunner
  <2>5. found' = [s \in Runner |-> found'[s]]
    BY <1>4 DEF Settle
  <2>3. CASE v \in recorded
    <3>1. recorded' = recorded /\ attributed' = attributed
      BY <1>4, <2>3 DEF Settle, Record
    <3> QED BY <2>1, <2>2, <2>5, <3>1
  <2>4. CASE v \notin recorded
    <3>1. recorded' = recorded \cup {v} /\ schema' = Append(schema, v)
      BY <1>4, <2>4 DEF Settle, Record
    <3>2. schema' # schema
      <4>1. Len(Append(schema, v)) = Len(schema) + 1 /\ Len(schema) \in Nat
        BY <1>1
      <4> QED BY <3>1, <4>1
    <3>3. attributed' = attributed \cup found[r]
      BY <1>4, <3>2 DEF Settle
    <3> QED BY <2>1, <2>2, <2>4, <2>5, <3>1, <3>3
  <2> QED BY <2>3, <2>4
<1>5. ASSUME NEW r \in Runner, MigrateFails(r) PROVE AccountInv'
  <2>1. /\ rows' = rows /\ recorded' = recorded /\ attributed' = attributed
        /\ runner'[r].pc = "idle" /\ found' = [s \in Runner |-> found'[s]]
        /\ \A s \in Runner : s # r => runner'[s] = runner[s] /\ found'[s] = found[s]
    BY <1>1, <1>5, RowsStay DEF MigrateFails, Fail, NoRunner
  <2> QED BY <2>1
<1>6. CASE Ingest
  <2>1. /\ Accounts \in recorded /\ recorded' = recorded /\ found' = found
        /\ attributed' = attributed \cup (rows' \ rows)
    BY <1>6 DEF Ingest, migrateVars
  <2> QED BY <2>1
<1>7. CASE Check \/ DiskFails \/ UNCHANGED vars
  <2>1. rows' = rows /\ UNCHANGED <<recorded, runner, attributed, found>>
    BY <1>7, RowsStay DEF Check, DiskFails, vars, migrateVars
  <2> QED BY <2>1
<1> QED BY <1>2, <1>3, <1>4, <1>5, <1>6, <1>7 DEF Next, MigrateStep

(* So both always hold.                                                      *)
LEMMA UpkeepInvAlways == Spec => [](MigrateInv /\ AccountInv)
<1>1. Init => MigrateInv /\ AccountInv
  <2> SUFFICES ASSUME Init PROVE MigrateInv /\ AccountInv
    OBVIOUS
  <2>1. MigrateInv
    BY InitMigrateInv DEF Init
  <2>2. \A r \in Runner : runner[r].pc = "idle"
    BY DEF Init, MigrateInit, NoRunner
  <2> QED BY <2>1, <2>2 DEF Init, AccountInv, FoundInv, EveryMessageHasAccount
<1> QED BY <1>1, NextMigrates, NextMigrateInv, NextAccountInv, PTL DEF Spec

(* Every script has been applied once, in order and without a gap, for any   *)
(* number of runners and releases, wherever they fail (migrate.py:5).        *)
THEOREM InOrderOnceAlways == Spec => []InOrderOnce
BY UpkeepInvAlways, PTL DEF MigrateInv

(* No message is without an account once there are accounts: the script      *)
(* misses none, and the ingest leaves none out (0006_accounts.sql:76).       *)
THEOREM EveryMessageHasAccountAlways == Spec => []EveryMessageHasAccount
BY UpkeepInvAlways, PTL DEF AccountInv

-----------------------------------------------------------------------------
(* The integrity check. A blob gone since the check began is in no listing,  *)
(* and one damaged since is in every one.                                    *)

CheckShape ==
    /\ check = [pc |-> check.pc, messages |-> check.messages,
                sightings |-> check.sightings, left |-> check.left,
                listed |-> check.listed, orphaned |-> check.orphaned,
                missing |-> check.missing, unseen |-> check.unseen,
                deep |-> check.deep, unhashed |-> check.unhashed,
                corrupt |-> check.corrupt]
    /\ since = [gone |-> since.gone, bad |-> since.bad, quiet |-> since.quiet]

GoneInv ==
    /\ check.pc # "idle" => since.gone \subseteq Gone
    /\ check.pc \in {"sightings", "listing", "rows"} => since.gone \cap check.listed = {}
    /\ check.pc \in {"unseen", "deep", "report"} => since.gone \subseteq check.missing

BadInv ==
    /\ check.pc # "idle" => since.bad \subseteq Bad
    /\ check.pc = "listing" =>
           since.bad \subseteq check.listed \cup {h \in Hash : ShardOf[h] \in check.left}
    /\ check.pc \in {"rows", "unseen"} => since.bad \subseteq check.listed
    /\ check.pc = "deep" /\ check.deep =>
           since.bad \subseteq check.unhashed \cup check.corrupt
    /\ check.pc = "report" /\ check.deep => since.bad \subseteq check.corrupt

CheckInv == CheckShape /\ GoneInv /\ BadInv

(* While the check stands still, the history only shrinks.                   *)
LEMMA ObserveKeeps ==
    ASSUME CheckInv, check' = check, Observe
    PROVE  CheckInv'
<1>1. CASE check.pc = "idle"
  BY <1>1 DEF Observe, CheckInv, CheckShape, GoneInv, BadInv
<1>2. CASE check.pc # "idle"
  <2>1. /\ since' = [gone |-> since.gone \cap Gone', bad |-> since.bad \cap Bad',
                     quiet |-> since'.quiet]
    BY <1>2 DEF Observe
  <2>2. since'.gone = since.gone \cap Gone' /\ since'.bad = since.bad \cap Bad'
    BY <2>1
  <2>3. CheckShape'
    BY <2>1, <2>2 DEF CheckInv, CheckShape
  <2>4. GoneInv'
    BY <2>2 DEF CheckInv, GoneInv
  <2>5. BadInv'
    BY <2>2 DEF CheckInv, BadInv
  <2> QED BY <2>3, <2>4, <2>5 DEF CheckInv
<1> QED BY <1>1, <1>2

(* Every step of the check keeps its invariant.                              *)
LEMMA CheckStepKeeps ==
    ASSUME CheckInv, CheckStep
    PROVE  CheckInv'
<1> USE DEF CheckInv, CheckShape, GoneInv, BadInv
<1>1. UNCHANGED archiveVars => Gone' = Gone /\ Bad' = Bad /\ Present' = Present
  BY DEF archiveVars, Gone, Bad, Present
<1>2. Gone \cap Present = {} /\ Bad \subseteq Present /\ Gone \subseteq rows
      /\ Present \subseteq Hash
  BY DEF Gone, Bad, Present
<1>3. ASSUME NEW deep \in BOOLEAN, Begin(deep) PROVE CheckInv'
  BY <1>1, <1>3 DEF Begin, NoCheck
<1>4. CASE CountSightings
  <2>1. \A h \in Hash : ShardOf[h] \in Shard
    BY VerifyAssumption
  <2> QED BY <1>1, <1>2, <1>4, <2>1 DEF CountSightings
<1>5. CASE ListShard
  <2>1. PICK s \in check.left :
           check' = [check EXCEPT
                        !.left = @ \ {s},
                        !.listed = @ \cup {h \in Present : ShardOf[h] = s},
                        !.pc = IF check.left = {s} THEN "rows" ELSE @]
    BY <1>5 DEF ListShard
  <2>2. check.pc = "listing" /\ UNCHANGED <<archiveVars, since>>
    BY <1>5 DEF ListShard
  <2>3. /\ check'.left = check.left \ {s}
        /\ check'.listed = check.listed \cup {h \in Present : ShardOf[h] = s}
        /\ check'.pc = IF check.left = {s} THEN "rows" ELSE "listing"
    BY <2>1, <2>2
  <2>4. CheckShape'
    BY <2>1, <2>2
  <2>5. GoneInv'
    BY <1>1, <1>2, <2>2, <2>3
  <2>6. since.bad \subseteq check'.listed \cup {h \in Hash : ShardOf[h] \in check'.left}
    BY <1>2, <2>2, <2>3
  <2>7. BadInv'
    BY <1>1, <2>2, <2>3, <2>6
  <2> QED BY <2>4, <2>5, <2>7
<1>6. CASE ReadRows
  BY <1>1, <1>2, <1>6 DEF ReadRows
<1>7. CASE CountUnseen
  BY <1>1, <1>7 DEF CountUnseen
<1>8. CASE HashBlob
  <2>1. \A h \in Bad : disk[h] # "whole"
    BY DEF Bad
  <2>2. PICK h \in check.unhashed :
           check' = [check EXCEPT !.unhashed = @ \ {h},
                                  !.corrupt = IF disk[h] = "whole" THEN @ ELSE @ \cup {h}]
    BY <1>8 DEF HashBlob
  <2>3. check.pc = "deep" /\ UNCHANGED <<archiveVars, since>>
    BY <1>8 DEF HashBlob
  <2>4. /\ check'.unhashed = check.unhashed \ {h}
        /\ check'.corrupt = IF disk[h] = "whole" THEN check.corrupt
                            ELSE check.corrupt \cup {h}
        /\ check'.pc = "deep" /\ check'.deep = check.deep
        /\ check'.missing = check.missing
    BY <2>2, <2>3
  <2>5. CheckShape'
    BY <2>2, <2>3
  <2>6. GoneInv'
    BY <1>1, <2>3, <2>4
  <2>7. BadInv'
    BY <1>1, <2>1, <2>3, <2>4
  <2> QED BY <2>5, <2>6, <2>7
<1>9. CASE EndHashing
  BY <1>1, <1>9 DEF EndHashing
<1>10. CASE Report
  BY <1>1, <1>10 DEF Report, NoCheck, NoSince
<1> QED BY <1>3, <1>4, <1>5, <1>6, <1>7, <1>8, <1>9, <1>10 DEF CheckStep

(* So does every step around it.                                             *)
LEMMA NextCheckInv == CheckInv /\ [Next]_vars => CheckInv'
<1> SUFFICES ASSUME CheckInv, [Next]_vars PROVE CheckInv'
  OBVIOUS
<1>1. CASE UNCHANGED verifyVars
  BY <1>1 DEF verifyVars, CheckInv, CheckShape, GoneInv, BadInv, Gone, Bad, Present
<1>2. ASSUME NEW r \in Runner, MigrateStep(r) \/ MigrateFails(r) PROVE CheckInv'
  BY <1>1, <1>2 DEF MigrateStep, MigrateFails, Execute, Settle
<1>3. CASE Ingest
  BY <1>3, ObserveKeeps DEF Ingest, Put, CommitBatch, Abandon
<1>4. CASE Check
  BY <1>4, CheckStepKeeps DEF Check
<1>5. CASE DiskFails
  BY <1>5, ObserveKeeps DEF DiskFails, Damage
<1>6. CASE UNCHANGED vars
  BY <1>1, <1>6 DEF vars
<1> QED BY <1>2, <1>3, <1>4, <1>5, <1>6 DEF Next

(* The check overlooks no lasting damage, whatever an ingest or the disk     *)
(* does while it reads (verify.py:3).                                        *)
THEOREM DamageIsReportedAlways == Spec => []DamageIsReported
<1>1. Init => CheckInv
  BY DEF Init, VerifyInit, NoCheck, NoSince, CheckInv, CheckShape, GoneInv, BadInv
<1>2. CheckInv => DamageIsReported
  BY DEF CheckInv, GoneInv, BadInv, DamageIsReported, Reporting
<1> QED BY <1>1, <1>2, NextCheckInv, PTL DEF Spec

(***************************************************************************)
(* Sums                                                                    *)
(***************************************************************************)

(* A set of numbers has a least one: an induction over numbers is an argument *)
(* about the least one of which something fails.                             *)
LEMMA LeastNumber ==
    ASSUME NEW S \in SUBSET Nat, S # {}
    PROVE  \E x \in S : \A y \in S : x <= y
<1>1. PICK x \in S : \A y \in S : <<y, x>> \notin OpToRel(<, Nat)
  BY WFMin, NatLessThanWellFounded, Zenon
<1>2. ASSUME NEW y \in S PROVE ~(y < x)
  <2>1. <<y, x>> \notin OpToRel(<, Nat)
    BY <1>1, Zenon
  <2> QED BY <2>1 DEF OpToRel
<1> QED BY <1>2

(* The element the folds take out of a set.                                  *)
AnyOf(T) == CHOOSE x \in T : TRUE

(* What a sum over T is, given g for the smaller sets.                       *)
PlusOne(f, g, T) == IF T = {} THEN 0 ELSE f[AnyOf(T)] + g[T \ {AnyOf(T)}]

(* SumFunction is a recursive function on the sets of indices.               *)
SumOn(f) == CHOOSE g : g = [T \in SUBSET DOMAIN f |-> PlusOne(f, g, T)]

(* It is that function of all indices.                                       *)
LEMMA SumIs ==
    ASSUME NEW f
    PROVE  SumFunction(f) = SumOn(f)[DOMAIN f]
BY DEF SumFunction, SumFunctionOnSet, FoldFunctionOnSet, MapThenFoldSet, SumOn, PlusOne, AnyOf

(* Sets of indices up to a size.                                             *)
UpTo(D, n) == {T \in SUBSET D : Cardinality(T) <= n}

(* Sums of them.                                                             *)
SumsUpTo(f, D, n) ==
    {g \in [UpTo(D, n) -> Nat] : \A T \in UpTo(D, n) : g[T] = PlusOne(f, g, T)}

(* An element less.                                                          *)
LEMMA OneLess ==
    ASSUME NEW D, IsFiniteSet(D), NEW T \in SUBSET D, T # {}
    PROVE  /\ AnyOf(T) \in T
           /\ T \ {AnyOf(T)} \in SUBSET D
           /\ IsFiniteSet(T) /\ Cardinality(T) \in Nat \ {0}
           /\ IsFiniteSet(T \ {AnyOf(T)})
           /\ Cardinality(T \ {AnyOf(T)}) = Cardinality(T) - 1
<1>1. AnyOf(T) \in T
  BY DEF AnyOf
<1>2. IsFiniteSet(T) /\ Cardinality(T) \in Nat
  BY FS_Subset, FS_CardinalityType
<1>3. Cardinality(T) # 0
  BY <1>2, FS_EmptySet
<1> QED BY <1>1, <1>2, <1>3, FS_RemoveElement

(* The sums of sets of any size exist.                                       *)
LEMMA SumsExist ==
    ASSUME NEW D, IsFiniteSet(D), NEW f \in [D -> Nat], NEW n \in Nat
    PROVE  SumsUpTo(f, D, n) # {}
<1> DEFINE Without == {k \in Nat : SumsUpTo(f, D, k) = {}}
<1>1. SUFFICES ASSUME Without # {} PROVE FALSE
  OBVIOUS
<1>2. PICK b \in Without : \A k \in Without : b <= k
  <2>1. Without \in SUBSET Nat
    OBVIOUS
  <2> HIDE DEF Without
  <2> QED BY <1>1, <2>1, LeastNumber
<1>3. b \in Nat /\ SumsUpTo(f, D, b) = {}
  OBVIOUS
<1>4. CASE b = 0
  <2> DEFINE g == [T \in UpTo(D, 0) |-> 0]
  <2>1. \A T \in UpTo(D, 0) : T = {}
    <3> SUFFICES ASSUME NEW T \in UpTo(D, 0), T # {} PROVE FALSE
      OBVIOUS
    <3>1. Cardinality(T) \in Nat \ {0} /\ Cardinality(T) <= 0
      BY OneLess DEF UpTo
    <3> QED BY <3>1
  <2>2. g \in SumsUpTo(f, D, 0)
    BY <2>1 DEF SumsUpTo, PlusOne
  <2> QED BY <1>3, <1>4, <2>2
<1>5. CASE b # 0
  <2>1. b - 1 \in Nat /\ b - 1 \notin Without
    BY <1>2, <1>3, <1>5
  <2> HIDE DEF Without
  <2>2. PICK g : g \in SumsUpTo(f, D, b - 1)
    BY <2>1 DEF Without
  <2> DEFINE h == [T \in UpTo(D, b) |-> PlusOne(f, g, T)]
  <2>3. ASSUME NEW T \in UpTo(D, b), T # {}
        PROVE  /\ AnyOf(T) \in D
               /\ T \ {AnyOf(T)} \in UpTo(D, b - 1)
               /\ T \ {AnyOf(T)} \in UpTo(D, b)
    BY <1>3, <2>1, <2>3, OneLess DEF UpTo
  <2>4. /\ g \in [UpTo(D, b - 1) -> Nat]
        /\ \A T \in UpTo(D, b - 1) : g[T] = PlusOne(f, g, T)
    BY <2>2 DEF SumsUpTo
  <2>5. ASSUME NEW T \in UpTo(D, b) PROVE PlusOne(f, g, T) \in Nat
    BY <2>3, <2>4 DEF PlusOne
  <2>6. ASSUME NEW T \in UpTo(D, b) PROVE PlusOne(f, g, T) = PlusOne(f, h, T)
    <3>1. CASE T = {}
      BY <3>1 DEF PlusOne
    <3>2. CASE T # {}
      <4>1. h[T \ {AnyOf(T)}] = g[T \ {AnyOf(T)}]
        BY <2>3, <2>4, <3>2
      <4> HIDE DEF h
      <4> QED BY <3>2, <4>1 DEF PlusOne
    <3> QED BY <3>1, <3>2
  <2>7. h \in SumsUpTo(f, D, b)
    <3>1. h \in [UpTo(D, b) -> Nat] /\ \A T \in UpTo(D, b) : h[T] = PlusOne(f, g, T)
      BY <2>5
    <3> HIDE DEF h
    <3> QED BY <2>6, <3>1 DEF SumsUpTo
  <2> QED BY <1>3, <2>7
<1> QED BY <1>4, <1>5

(* So SumOn is what its equation says.                                       *)
LEMMA SumOnIs ==
    ASSUME NEW D, IsFiniteSet(D), NEW f \in [D -> Nat]
    PROVE  \A T \in SUBSET D : SumOn(f)[T] = PlusOne(f, SumOn(f), T)
<1>1. Cardinality(D) \in Nat
  BY FS_CardinalityType
<1>2. UpTo(D, Cardinality(D)) = SUBSET D
  BY FS_Subset DEF UpTo
<1>3. PICK g : g \in SumsUpTo(f, D, Cardinality(D))
  BY <1>1, SumsExist
<1>4. g = [T \in SUBSET D |-> PlusOne(f, g, T)]
  <2>1. g \in [SUBSET D -> Nat] /\ \A T \in SUBSET D : g[T] = PlusOne(f, g, T)
    BY <1>2, <1>3 DEF SumsUpTo
  <2>2. g = [T \in SUBSET D |-> g[T]]
    BY <2>1
  <2> QED BY <2>1, <2>2
<1>5. DOMAIN f = D
  OBVIOUS
<1>6. SumOn(f) = [T \in SUBSET D |-> PlusOne(f, SumOn(f), T)]
  BY <1>4, <1>5 DEF SumOn
<1> QED BY <1>6, Zenon

(* Indices that count.                                                       *)
Support(f, T) == {x \in T : f[x] # 0}

(* A sum counts each of them once at least, and once exactly if all are 1.   *)
Counts(f, T) ==
    /\ SumOn(f)[T] \in Nat
    /\ Cardinality(Support(f, T)) <= SumOn(f)[T]
    /\ SumOn(f)[T] = Cardinality(Support(f, T)) <=> \A x \in Support(f, T) : f[x] = 1

(* Every sum does: the least set whose sum did not would have one without    *)
(* an element that did not either.                                           *)
LEMMA SumCounts ==
    ASSUME NEW D, IsFiniteSet(D), NEW f \in [D -> Nat], NEW T \in SUBSET D
    PROVE  Counts(f, T)
<1> DEFINE Wrong == {U \in SUBSET D : ~Counts(f, U)}
           Sizes == {Cardinality(U) : U \in Wrong}
<1>1. SUFFICES ASSUME Wrong # {} PROVE FALSE
  OBVIOUS
<1>2. Sizes \in SUBSET Nat /\ Sizes # {}
  BY <1>1, FS_Subset, FS_CardinalityType
<1>3. PICK n \in Sizes : \A k \in Sizes : n <= k
  <2> HIDE DEF Sizes
  <2> QED BY <1>2, LeastNumber
<1>4. PICK U \in Wrong : n = Cardinality(U)
  OBVIOUS
<1>5. U \in SUBSET D /\ ~Counts(f, U)
  OBVIOUS
<1>6. \A V \in SUBSET D : Cardinality(V) < Cardinality(U) => Counts(f, V)
  <2> SUFFICES ASSUME NEW V \in SUBSET D, V \in Wrong PROVE ~(Cardinality(V) < Cardinality(U))
    OBVIOUS
  <2>1. Cardinality(V) \in Sizes
    OBVIOUS
  <2>2. Cardinality(U) <= Cardinality(V) /\ Cardinality(U) \in Nat /\ Cardinality(V) \in Nat
    BY <1>2, <1>3, <1>4, <2>1
  <2> QED BY <2>2
<1> HIDE DEF Wrong, Sizes
<1>7. CASE U = {}
  <2>1. SumOn(f)[U] = 0
    BY <1>5, <1>7, SumOnIs DEF PlusOne
  <2>2. Support(f, U) = {} /\ Cardinality(Support(f, U)) = 0
    BY <1>7, FS_EmptySet DEF Support
  <2> QED BY <1>5, <2>1, <2>2 DEF Counts
<1>8. CASE U # {}
  <2> DEFINE x == AnyOf(U)
             V == U \ {x}
             s == Cardinality(Support(f, V))
  <2>1. x \in U /\ x \in D /\ V \in SUBSET D /\ Cardinality(V) < Cardinality(U) /\ IsFiniteSet(V)
    <3>1. /\ x \in U /\ V \in SUBSET D /\ IsFiniteSet(V)
          /\ Cardinality(U) \in Nat \ {0} /\ Cardinality(V) = Cardinality(U) - 1
      BY <1>5, <1>8, OneLess
    <3> HIDE DEF x, V
    <3> QED BY <1>5, <3>1
  <2>2. SumOn(f)[U] = f[x] + SumOn(f)[V]
    BY <1>5, <1>8, SumOnIs DEF PlusOne
  <2>3. Counts(f, V)
    BY <1>6, <2>1
  <2>4. IsFiniteSet(Support(f, V)) /\ s \in Nat /\ x \notin Support(f, V)
    BY <2>1, FS_Subset, FS_CardinalityType DEF Support
  <2>5. f[x] \in Nat
    BY <2>1
  <2>6. CASE f[x] = 0
    <3>1. Support(f, U) = Support(f, V)
      BY <2>1, <2>6 DEF Support
    <3> HIDE DEF x, V
    <3> QED BY <1>5, <2>2, <2>3, <2>4, <2>6, <3>1 DEF Counts
  <2>7. CASE f[x] # 0
    <3>1. Support(f, U) = Support(f, V) \cup {x}
      BY <2>1, <2>7 DEF Support
    <3> HIDE DEF x, V
    <3>2. Cardinality(Support(f, U)) = s + 1
      BY <2>4, <3>1, FS_AddElement
    <3>3. SumOn(f)[V] \in Nat /\ s <= SumOn(f)[V]
          /\ (SumOn(f)[V] = s <=> \A y \in Support(f, V) : f[y] = 1)
      BY <2>3 DEF Counts
    <3> HIDE DEF s
    <3>4. SumOn(f)[U] \in Nat /\ s + 1 <= SumOn(f)[U]
      BY <2>2, <2>4, <2>5, <2>7, <3>3
    <3>5. SumOn(f)[U] = s + 1 <=> f[x] = 1 /\ SumOn(f)[V] = s
      BY <2>2, <2>4, <2>5, <2>7, <3>3
    <3>6. (\A y \in Support(f, U) : f[y] = 1) <=> f[x] = 1 /\ \A y \in Support(f, V) : f[y] = 1
      BY <3>1
    <3> QED BY <1>5, <3>2, <3>3, <3>4, <3>5, <3>6 DEF Counts
  <2> QED BY <2>5, <2>6, <2>7
<1> QED BY <1>7, <1>8

(***************************************************************************)
(* The types of the check, and the report of a quiet archive               *)
(***************************************************************************)

\* Every message has a sighting, and nothing else has one.
SightingsOK == \A h \in Hash : sightings[h] # 0 <=> h \in rows

\* Nothing has changed since the check began.
Quiet == check.pc # "idle" /\ since.quiet

\* What the check has found in a quiet archive, query by query.
ExactInv ==
    Quiet =>
        /\ check.messages = Cardinality(rows)
        /\ check.pc # "sightings" => check.sightings = SumFunction(sightings)
        /\ check.pc = "sightings" => check.listed = {}
        /\ check.pc \in {"sightings", "listing", "rows", "unseen"} => check.corrupt = {}
        /\ check.pc = "listing" =>
              check.left \subseteq Shard /\ check.listed = {h \in Present : ShardOf[h] \notin check.left}
        /\ check.pc \in {"rows", "unseen", "deep", "report"} => check.listed = Present
        /\ check.pc \in {"unseen", "deep", "report"} =>
              check.missing = Gone /\ check.orphaned = Present \ rows
        /\ check.pc \in {"deep", "report"} => check.unseen = 0
        /\ check.pc = "deep" /\ check.deep =>
              check.unhashed \subseteq Present /\ check.corrupt = Bad \ check.unhashed
        /\ check.pc = "report" /\ check.deep => check.corrupt = Bad

VerifyInv == VerifyTypeOK /\ CheckShape /\ SightingsOK /\ ExactInv
(* Sightings of all messages are as many as the messages if and only if each *)
(* was seen once.                                                            *)
LEMMA SumOfSightings ==
    ASSUME VerifyTypeOK
    PROVE  /\ SumFunction(sightings) \in Nat
           /\ IsFiniteSet(rows) /\ Cardinality(rows) \in Nat
           /\ SightingsOK =>
                (SumFunction(sightings) = Cardinality(rows) <=> \A h \in rows : sightings[h] = 1)
<1>1. /\ IsFiniteSet(Hash) /\ sightings \in [Hash -> Nat] /\ rows \in SUBSET Hash
      /\ DOMAIN sightings = Hash
  BY VerifyAssumption DEF VerifyTypeOK
<1>2. SumFunction(sightings) = SumOn(sightings)[Hash]
  BY <1>1, SumIs
<1>3. Counts(sightings, Hash)
  BY <1>1, SumCounts
<1>4. ASSUME SightingsOK PROVE Support(sightings, Hash) = rows
  BY <1>1, <1>4 DEF Support, SightingsOK
<1>5. IsFiniteSet(rows) /\ Cardinality(rows) \in Nat
  BY <1>1, FS_Subset, FS_CardinalityType
<1> QED BY <1>2, <1>3, <1>4, <1>5 DEF Counts

(* While the check stands still and the archive keeps its types, nothing is  *)
(* said of it but that it may have changed.                                  *)
LEMMA ObserveKeepsExact ==
    ASSUME VerifyInv, check' = check, Observe, SightingsOK',
           disk' \in [Hash -> {"absent", "whole", "bad"}], rows' \subseteq Hash,
           sightings' \in [Hash -> Nat], batch' \subseteq Hash, damage' \in 0 .. MaxDamage
    PROVE  VerifyInv'
<1> USE DEF VerifyInv
<1>1. CASE check.pc = "idle"
  <2>1. since' = since
    BY <1>1 DEF Observe
  <2> QED BY <1>1, <2>1 DEF VerifyTypeOK, CheckShape, ExactInv, Quiet
<1>2. CASE check.pc # "idle"
  <2>1. since' = [gone |-> since.gone \cap Gone', bad |-> since.bad \cap Bad',
                  quiet |-> since.quiet /\ UNCHANGED <<disk, rows, sightings>>]
    BY <1>2 DEF Observe
  <2>2. since.gone \subseteq Hash /\ since.bad \subseteq Hash
    BY DEF VerifyTypeOK, SinceRec
  <2>3. since' \in SinceRec
    <3> DEFINE q == since.quiet /\ UNCHANGED <<disk, rows, sightings>>
    <3>1. q \in BOOLEAN
      BY Zenon
    <3>2. since' = [gone |-> since.gone \cap Gone', bad |-> since.bad \cap Bad', quiet |-> q]
      BY <2>1, Zenon
    <3> HIDE DEF q
    <3> QED BY <2>2, <3>1, <3>2 DEF SinceRec
  <2>4. since'.quiet => since.quiet /\ UNCHANGED <<disk, rows, sightings>>
    BY <2>1, Zenon
  <2>5. VerifyTypeOK'
    BY <2>3 DEF VerifyTypeOK
  <2>6. CheckShape'
    BY <2>3 DEF CheckShape, SinceRec
  <2>7. ExactInv'
    <3>1. CASE ~since'.quiet
      BY <3>1 DEF ExactInv, Quiet
    <3>2. CASE since'.quiet
      BY <1>2, <2>4, <3>2 DEF ExactInv, Quiet, Present, Gone, Bad
    <3> QED BY <3>1, <3>2
  <2> QED BY <2>5, <2>6, <2>7
<1> QED BY <1>1, <1>2

(* An ingest and a failing disk keep the types, and every row its sighting.  *)
LEMMA ArchiveStepKeeps ==
    ASSUME VerifyInv, ArchiveStep
    PROVE  VerifyInv'
<1>0. VerifyTypeOK /\ SightingsOK
  BY DEF VerifyInv
<1>1. ASSUME NEW h \in Hash, Put(h) PROVE VerifyInv'
  <2>1. /\ check' = check /\ Observe /\ UNCHANGED <<rows, sightings, damage>>
        /\ disk' \in [Hash -> {"absent", "whole", "bad"}] /\ batch' \subseteq Hash
    BY <1>0, <1>1 DEF Put, VerifyTypeOK
  <2> QED BY <1>0, <2>1, ObserveKeepsExact DEF VerifyTypeOK, SightingsOK
<1>2. ASSUME NEW h \in Hash, Damage(h) PROVE VerifyInv'
  <2>1. /\ check' = check /\ Observe /\ UNCHANGED <<rows, sightings, batch>>
        /\ disk' \in [Hash -> {"absent", "whole", "bad"}]
        /\ damage' \in 0 .. MaxDamage
    BY <1>0, <1>2, VerifyAssumption DEF Damage, VerifyTypeOK
  <2> QED BY <1>0, <2>1, ObserveKeepsExact DEF VerifyTypeOK, SightingsOK
<1>3. CASE CommitBatch
  <2>1. /\ check' = check /\ Observe /\ UNCHANGED <<disk, damage>>
        /\ batch' \subseteq Hash /\ rows' \subseteq Hash
        /\ sightings' \in [Hash -> Nat]
    BY <1>0, <1>3 DEF CommitBatch, VerifyTypeOK
  <2>2. SightingsOK'
    <3> SUFFICES ASSUME NEW h \in Hash PROVE sightings'[h] # 0 <=> h \in rows'
      BY DEF SightingsOK
    <3>1. sightings[h] \in Nat /\ (sightings[h] # 0 <=> h \in rows)
      BY <1>0 DEF SightingsOK, VerifyTypeOK
    <3>2. sightings'[h] = sightings[h] + (IF h \in batch THEN 1 ELSE 0) /\ rows' = rows \cup batch
      BY <1>3 DEF CommitBatch
    <3> QED BY <3>1, <3>2
  <2> QED BY <1>0, <2>1, <2>2, ObserveKeepsExact DEF VerifyTypeOK
<1>4. CASE Abandon
  <2>1. check' = check /\ Observe /\ UNCHANGED <<disk, rows, sightings, damage>> /\ batch' = {}
    BY <1>4 DEF Abandon
  <2> QED BY <1>0, <2>1, ObserveKeepsExact DEF VerifyTypeOK, SightingsOK
<1> QED BY <1>1, <1>2, <1>3, <1>4 DEF ArchiveStep

(* A check that keeps its types, its history and what it has found of a      *)
(* quiet archive keeps the invariant: it changes nothing else.               *)
LEMMA CheckKeepsExact ==
    ASSUME VerifyInv, UNCHANGED archiveVars, check' \in CheckRec, since' \in SinceRec, ExactInv'
    PROVE  VerifyInv'
<1>1. CheckShape'
  BY DEF CheckShape, CheckRec, SinceRec
<1> QED BY <1>1 DEF VerifyInv, VerifyTypeOK, SightingsOK, archiveVars

(* Every query of the check does.                                            *)
LEMMA CheckStepKeepsExact ==
    ASSUME VerifyInv, CheckStep
    PROVE  VerifyInv'
<1>0. /\ VerifyTypeOK /\ SightingsOK /\ ExactInv
      /\ check \in CheckRec /\ since \in SinceRec
      /\ Present \subseteq Hash /\ Gone \subseteq Hash /\ Bad \subseteq Present /\ rows \subseteq Hash
  BY DEF VerifyInv, VerifyTypeOK, Present, Gone, Bad
<1>1. /\ SumFunction(sightings) \in Nat
      /\ IsFiniteSet(rows) /\ Cardinality(rows) \in Nat
  BY <1>0, SumOfSightings
<1>2. UNCHANGED archiveVars =>
        /\ Gone' = Gone /\ Bad' = Bad /\ Present' = Present
        /\ rows' = rows /\ sightings' = sightings /\ disk' = disk
  BY DEF archiveVars, Gone, Bad, Present
<1>3. ASSUME NEW deep \in BOOLEAN, Begin(deep) PROVE VerifyInv'
  <2>1. /\ check' = [NoCheck EXCEPT !.pc = "sightings", !.deep = deep,
                                    !.messages = Cardinality(rows)]
        /\ since' = [gone |-> Gone, bad |-> Bad, quiet |-> TRUE]
        /\ UNCHANGED archiveVars
    BY <1>3 DEF Begin
  <2>2. check' \in CheckRec /\ since' \in SinceRec
    BY <1>0, <1>1, <2>1 DEF NoCheck, CheckRec, SinceRec
  <2>3. ExactInv'
    BY <1>2, <2>1 DEF ExactInv, NoCheck
  <2> QED BY <2>1, <2>2, <2>3, CheckKeepsExact
<1>4. CASE CountSightings
  <2>1. /\ check.pc = "sightings" /\ UNCHANGED <<archiveVars, since>>
        /\ check' = [check EXCEPT !.pc = "listing", !.sightings = SumFunction(sightings),
                                  !.left = Shard]
    BY <1>4 DEF CountSightings
  <2>2. check' \in CheckRec
    BY <1>0, <1>1, <2>1 DEF CheckRec
  <2>3. ExactInv'
    <3>1. \A h \in Hash : ShardOf[h] \in Shard
      BY VerifyAssumption
    <3> QED BY <1>0, <1>2, <2>1, <3>1 DEF ExactInv, Quiet, CheckRec
  <2> QED BY <1>0, <2>1, <2>2, <2>3, CheckKeepsExact
<1>5. CASE ListShard
  <2>1. PICK s \in check.left :
           check' = [check EXCEPT
                        !.left = @ \ {s},
                        !.listed = @ \cup {h \in Present : ShardOf[h] = s},
                        !.pc = IF check.left = {s} THEN "rows" ELSE @]
    BY <1>5 DEF ListShard
  <2>2. check.pc = "listing" /\ UNCHANGED <<archiveVars, since>>
    BY <1>5 DEF ListShard
  <2>3. check' \in CheckRec
    BY <1>0, <2>1, <2>2 DEF CheckRec
  <2>4. /\ check'.left = check.left \ {s}
        /\ check'.listed = check.listed \cup {h \in Present : ShardOf[h] = s}
        /\ check'.pc = IF check.left = {s} THEN "rows" ELSE "listing"
        /\ check'.messages = check.messages /\ check'.sightings = check.sightings
        /\ check'.corrupt = check.corrupt
    BY <1>0, <2>1, <2>2 DEF CheckRec
  <2>5. ExactInv'
    <3> SUFFICES ASSUME Quiet
                 PROVE  /\ check'.messages = Cardinality(rows)
                        /\ check'.sightings = SumFunction(sightings)
                        /\ check'.corrupt = {} /\ check'.left \subseteq Shard
                        /\ check'.listed = {h \in Present : ShardOf[h] \notin check'.left}
                        /\ check'.pc = "rows" => check'.listed = Present
      BY <1>2, <2>2, <2>4 DEF ExactInv, Quiet
    <3> QED BY <1>0, <2>2, <2>4 DEF ExactInv
  <2> QED BY <1>0, <2>2, <2>3, <2>5, CheckKeepsExact
<1>6. CASE ReadRows
  <2>1. /\ check.pc = "rows" /\ UNCHANGED <<archiveVars, since>>
        /\ check' = [check EXCEPT !.pc = "unseen", !.orphaned = check.listed \ rows,
                                  !.missing = rows \ check.listed]
    BY <1>6 DEF ReadRows
  <2>2. check' \in CheckRec
    BY <1>0, <2>1 DEF CheckRec
  <2>3. ExactInv'
    BY <1>0, <1>2, <2>1 DEF ExactInv, Quiet, CheckRec, Gone
  <2> QED BY <1>0, <2>1, <2>2, <2>3, CheckKeepsExact
<1>7. CASE CountUnseen
  <2> DEFINE n == Cardinality({h \in rows : sightings[h] = 0})
  <2>1. /\ check.pc = "unseen" /\ UNCHANGED <<archiveVars, since>>
        /\ check' = [check EXCEPT !.unseen = n,
                        !.unhashed = IF check.deep THEN check.listed ELSE {},
                        !.pc = "deep"]
    BY <1>7 DEF CountUnseen
  <2>2. {h \in rows : sightings[h] = 0} = {}
    BY <1>0 DEF SightingsOK
  <2>3. n = 0
    BY <2>2, FS_EmptySet
  <2> HIDE DEF n
  <2>4. check' \in CheckRec
    BY <1>0, <2>1, <2>3 DEF CheckRec
  <2>5. ExactInv'
    BY <1>0, <1>2, <2>1, <2>3 DEF ExactInv, Quiet, CheckRec
  <2> QED BY <1>0, <2>1, <2>4, <2>5, CheckKeepsExact
<1>8. CASE HashBlob
  <2>1. PICK h \in check.unhashed :
           check' = [check EXCEPT !.unhashed = @ \ {h},
                                  !.corrupt = IF disk[h] = "whole" THEN @ ELSE @ \cup {h}]
    BY <1>8 DEF HashBlob
  <2>2. check.pc = "deep" /\ UNCHANGED <<archiveVars, since>>
    BY <1>8 DEF HashBlob
  <2>3. check' \in CheckRec
    BY <1>0, <2>1 DEF CheckRec
  <2>4. /\ check'.unhashed = check.unhashed \ {h}
        /\ check'.corrupt = IF disk[h] = "whole" THEN check.corrupt ELSE check.corrupt \cup {h}
        /\ check'.pc = "deep" /\ check'.deep = check.deep
        /\ check'.messages = check.messages /\ check'.sightings = check.sightings
        /\ check'.listed = check.listed /\ check'.missing = check.missing
        /\ check'.orphaned = check.orphaned /\ check'.unseen = check.unseen
    BY <1>0, <2>1, <2>2 DEF CheckRec
  <2>5. ASSUME Quiet, check.deep
        PROVE  check'.unhashed \subseteq Present /\ check'.corrupt = Bad \ check'.unhashed
    <3>1. check.unhashed \subseteq Present /\ check.corrupt = Bad \ check.unhashed
      BY <1>0, <2>2, <2>5 DEF ExactInv
    <3>2. \A d \in Present : d \in Bad <=> disk[d] # "whole"
      BY <1>0 DEF Present, Bad, VerifyTypeOK
    <3> QED BY <2>1, <2>4, <3>1, <3>2
  <2>6. ExactInv'
    BY <1>0, <1>2, <2>2, <2>4, <2>5 DEF ExactInv, Quiet
  <2> QED BY <1>0, <2>2, <2>3, <2>6, CheckKeepsExact
<1>9. CASE EndHashing
  <2>1. /\ check.pc = "deep" /\ check.unhashed = {} /\ UNCHANGED <<archiveVars, since>>
        /\ check' = [check EXCEPT !.pc = "report"]
    BY <1>9 DEF EndHashing
  <2>2. check' \in CheckRec
    BY <1>0, <2>1 DEF CheckRec
  <2>3. ExactInv'
    BY <1>0, <1>2, <2>1 DEF ExactInv, Quiet, CheckRec
  <2> QED BY <1>0, <2>1, <2>2, <2>3, CheckKeepsExact
<1>10. CASE Report
  <2>1. check' = NoCheck /\ since' = NoSince /\ UNCHANGED archiveVars
    BY <1>10 DEF Report
  <2>2. check' \in CheckRec /\ since' \in SinceRec
    BY <2>1 DEF NoCheck, NoSince, CheckRec, SinceRec
  <2>3. ExactInv'
    BY <2>1 DEF ExactInv, Quiet, NoCheck
  <2> QED BY <2>1, <2>2, <2>3, CheckKeepsExact
<1> QED BY <1>3, <1>4, <1>5, <1>6, <1>7, <1>8, <1>9, <1>10 DEF CheckStep

(* At the start there is no check, and every row has one sighting.           *)
LEMMA InitVerifyInv == VerifyInit => VerifyInv
<1> SUFFICES ASSUME VerifyInit PROVE VerifyInv
  OBVIOUS
<1>1. VerifyTypeOK
  BY VerifyAssumption DEF VerifyInit, VerifyTypeOK, NoCheck, NoSince, CheckRec, SinceRec
<1>2. CheckShape /\ ExactInv
  BY DEF VerifyInit, NoCheck, NoSince, CheckShape, ExactInv, Quiet
<1>3. SightingsOK
  BY DEF VerifyInit, SightingsOK
<1> QED BY <1>1, <1>2, <1>3 DEF VerifyInv

(* Every step around the check keeps the invariant.                          *)
LEMMA NextVerifyInv == VerifyInv /\ [Next]_vars => VerifyInv'
<1> SUFFICES ASSUME VerifyInv, [Next]_vars PROVE VerifyInv'
  OBVIOUS
<1>1. CASE UNCHANGED verifyVars
  BY <1>1 DEF verifyVars, VerifyInv, VerifyTypeOK, CheckShape, SightingsOK, ExactInv, Quiet,
              Gone, Bad, Present
<1>2. ASSUME NEW r \in Runner, MigrateStep(r) \/ MigrateFails(r) PROVE VerifyInv'
  BY <1>1, <1>2 DEF MigrateStep, MigrateFails, Execute, Settle
<1>3. CASE Ingest
  BY <1>3, ArchiveStepKeeps DEF Ingest, ArchiveStep
<1>4. CASE Check
  BY <1>4, CheckStepKeepsExact DEF Check
<1>5. CASE DiskFails
  BY <1>5, ArchiveStepKeeps DEF DiskFails, ArchiveStep
<1>6. CASE UNCHANGED vars
  BY <1>1, <1>6 DEF vars
<1> QED BY <1>2, <1>3, <1>4, <1>5, <1>6 DEF Next

(* So it always holds.                                                       *)
LEMMA VerifyInvAlways == Spec => []VerifyInv
<1>1. Init => VerifyInv
  BY InitVerifyInv DEF Init
<1> QED BY <1>1, NextVerifyInv, PTL DEF Spec

(* A check of an archive that nothing changes meanwhile reports the truth:   *)
(* its lists are the differences of disk and database, and a mismatch of     *)
(* zero means that every message was seen exactly once (verify.py, verify).  *)
THEOREM ReportIsExactAlways == Spec => []ReportIsExact
<1>1. VerifyInv => ReportIsExact
  <2> SUFFICES ASSUME VerifyInv, Reporting, since.quiet
               PROVE  /\ check.missing = Gone
                      /\ check.orphaned = Present \ rows
                      /\ check.unseen = 0
                      /\ Mismatch = 0 <=> \A h \in rows : sightings[h] = 1
                      /\ check.deep => check.corrupt = Bad
    BY DEF ReportIsExact
  <2>1. /\ check.messages = Cardinality(rows) /\ check.sightings = SumFunction(sightings)
        /\ check.missing = Gone /\ check.orphaned = Present \ rows
        /\ check.unseen = 0 /\ (check.deep => check.corrupt = Bad)
    BY DEF VerifyInv, ExactInv, Quiet, Reporting
  <2>2. /\ SumFunction(sightings) \in Nat /\ Cardinality(rows) \in Nat
        /\ SumFunction(sightings) = Cardinality(rows) <=> \A h \in rows : sightings[h] = 1
    BY SumOfSightings DEF VerifyInv
  <2>3. Mismatch = 0 <=> check.messages = check.sightings
    BY <2>1, <2>2 DEF Mismatch
  <2> QED BY <2>1, <2>2, <2>3
<1> QED BY <1>1, VerifyInvAlways, PTL

(* Tables, runners, disk and check are always well formed.                   *)
THEOREM UpkeepTypes == Spec => []TypeOK
<1>1. MigrateInv /\ AccountInv /\ VerifyInv /\ attributed \subseteq Hash
        /\ found \in [Runner -> SUBSET Hash] => TypeOK
  BY DEF MigrateInv, VerifyInv, TypeOK
<1> DEFINE Extra == attributed \subseteq Hash /\ found \in [Runner -> SUBSET Hash]
<1>2. Init => Extra
  BY DEF Init, VerifyInit
<1>3. VerifyInv /\ Extra /\ [Next]_vars /\ VerifyInv' => Extra'
  <2> SUFFICES ASSUME VerifyInv, Extra, [Next]_vars, VerifyInv' PROVE Extra'
    OBVIOUS
  <2>0. rows \subseteq Hash /\ rows' \subseteq Hash
    BY DEF VerifyInv, VerifyTypeOK
  <2>1. ASSUME NEW r \in Runner, MigrateStep(r) \/ MigrateFails(r) PROVE Extra'
    BY <2>0, <2>1 DEF MigrateStep, MigrateFails, Execute, Settle
  <2>2. CASE Ingest \/ Check \/ DiskFails \/ UNCHANGED vars
    BY <2>0, <2>2 DEF Ingest, Check, DiskFails, vars
  <2> QED BY <2>1, <2>2 DEF Next
<1>4. Spec => []Extra
  BY <1>2, <1>3, VerifyInvAlways, PTL DEF Spec
<1> QED BY <1>1, <1>4, UpkeepInvAlways, VerifyInvAlways, PTL
=============================================================================
