--------------------------------- MODULE Upkeep ---------------------------------
(***************************************************************************)
(* What an operator runs beside the web application, against one database: *)
(* migrate, ingest and verify, any of them at the same time.               *)
(*                                                                         *)
(* Without its tables a command fails at its first query and changes       *)
(* nothing. The scripts that matter to the data are the one that creates   *)
(* the tables and the one that gives messages an account (0001 and 0006).  *)
(***************************************************************************)
EXTENDS Migrate, Verify

CONSTANTS
    Tables,     \* the script that creates the tables
    Accounts    \* the script that adds the tables of accounts

ASSUME UpkeepAssumption ==
    /\ Tables \in Nat \ {0}
    /\ Accounts \in Nat \ {0}
    /\ Tables < Accounts

VARIABLES
    attributed, \* table message_accounts: messages that have an account
    found       \* per runner: the messages its open transaction gives one

vars == <<migrateVars, verifyVars, attributed, found>>

TypeOK ==
    /\ MigrateTypeOK
    /\ VerifyTypeOK
    /\ attributed \subseteq Hash
    /\ found \in [Runner -> SUBSET Hash]

\* An empty database, or what a release before or after accounts has left.
Init ==
    /\ MigrateInit
    /\ VerifyInit
    /\ Tables \notin recorded => rows = {}
    /\ attributed = IF Accounts \in recorded THEN rows ELSE {}
    /\ found = [r \in Runner |-> {}]

\* Mutated form of Execute: only the tables are made.
ExecuteBare(r) ==
    /\ Apply(r)
    /\ UNCHANGED <<verifyVars, attributed, found>>

\* The script of accounts attributes the messages it sees.
Execute(r) ==
    /\ Apply(r)
    /\ found' = [found EXCEPT ![r] =
                    IF Least(runner[r].todo) = Accounts THEN rows ELSE {}]
    /\ UNCHANGED <<verifyVars, attributed>>

Settle(r) ==
    /\ Record(r)
    /\ attributed' = IF schema' = schema THEN attributed ELSE attributed \cup found[r]
    /\ found' = [found EXCEPT ![r] = {}]
    /\ UNCHANGED verifyVars

MigrateStep(r) ==
    \/ /\ \E n \in Image : Discover(r, n)
       /\ UNCHANGED <<verifyVars, attributed, found>>
    \/ Execute(r)
    \/ Settle(r)

MigrateFails(r) ==
    /\ Fail(r)
    /\ found' = [found EXCEPT ![r] = {}]
    /\ UNCHANGED <<verifyVars, attributed>>

\* An ingest of this release needs the tables of accounts, and gives the
\* messages of a batch their account.
Ingest ==
    /\ Accounts \in recorded
    /\ (\E h \in Hash : Put(h)) \/ CommitBatch \/ Abandon
    /\ attributed' = attributed \cup (rows' \ rows)
    /\ UNCHANGED <<migrateVars, found>>

Check ==
    /\ Tables \in recorded
    /\ CheckStep
    /\ UNCHANGED <<migrateVars, attributed, found>>

DiskFails ==
    /\ \E h \in Hash : Damage(h)
    /\ UNCHANGED <<migrateVars, attributed, found>>

Next ==
    \/ \E r \in Runner : MigrateStep(r) \/ MigrateFails(r)
    \/ Ingest
    \/ Check
    \/ DiskFails

Spec == Init /\ [][Next]_vars

\* Whoever migrates does so until nothing is pending.
FairSpec == Spec /\ \A r \in Runner : WF_vars(MigrateStep(r))

-----------------------------------------------------------------------------
\* Once accounts are there, every message has one: those stored before from the
\* script (migrations/0006_accounts.sql:76), those stored since from the ingest,
\* whichever of rival migrations commits and whichever fails.
EveryMessageHasAccount == Accounts \in recorded => rows \subseteq attributed

\* Whatever else runs, and however often it fails, migrating again brings the
\* schema up to the newest release.
SchemaGetsLatest == <>[](\A n \in Image : 1 .. n \subseteq recorded)
=============================================================================
