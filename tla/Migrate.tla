-------------------------------- MODULE Migrate --------------------------------
(***************************************************************************)
(* Schema migrations: numbered scripts, each applied in one transaction    *)
(* with the row that records it. Several runners may be at it at once,     *)
(* from images of different releases; any of them may fail or be killed.   *)
(*                                                                         *)
(* A script that another runner has already applied can be executed again  *)
(* (if not exists); its transaction then fails on the key of               *)
(* schema_migrations and is rolled back, script and all.                   *)
(***************************************************************************)
EXTENDS Naturals, Sequences, FiniteSets

CONSTANTS
    Runner,     \* invocations of the command
    Image,      \* how many scripts the images of the releases hold
    MaxFailures \* bound on runs that fail or are killed

\* A release adds scripts after those of the release before.
ASSUME MigrateAssumption ==
    /\ Image \subseteq Nat
    /\ MaxFailures \in Nat

VARIABLES
    schema,     \* the scripts whose effects are committed, in their order
    recorded,   \* versions in schema_migrations
    runner,     \* per runner: where it is, and the versions it found pending
    failures    \* how many runs have failed so far

migrateVars == <<schema, recorded, runner, failures>>

RunnerRec == [pc : {"idle", "apply", "record"}, todo : SUBSET Nat]

NoRunner == [pc |-> "idle", todo |-> {}]

MigrateTypeOK ==
    /\ schema \in Seq(Nat)
    /\ recorded \subseteq Nat
    /\ runner \in [Runner -> RunnerRec]
    /\ \A r \in Runner : runner[r].pc = "idle" <=> runner[r].todo = {}
    /\ failures \in 0 .. MaxFailures

\* The database as some release left it, or an empty one.
MigrateInit ==
    /\ \E n \in Image \cup {0} : schema = [i \in 1 .. n |-> i] /\ recorded = 1 .. n
    /\ runner = [r \in Runner |-> NoRunner]
    /\ failures = 0

Least(S) == CHOOSE v \in S : \A u \in S : v <= u

\* Mutated form of Pending: the last file is left out.
PendingShort(n) == 1 .. (n - 1) \ recorded

Pending(n) == 1 .. n \ recorded

\* The directory is read, and schema_migrations, once for the whole run.
Discover(r, n) ==
    /\ runner[r].pc = "idle"
    /\ Pending(n) # {}
    /\ runner' = [runner EXCEPT ![r] = [pc |-> "apply", todo |-> Pending(n)]]
    /\ UNCHANGED <<schema, recorded, failures>>

\* A transaction begins with the next script.
Apply(r) ==
    /\ runner[r].pc = "apply"
    /\ runner' = [runner EXCEPT ![r].pc = "record"]
    /\ UNCHANGED <<schema, recorded, failures>>

\* On to what is left, or back from the command.
Rest(todo) == IF todo = {} THEN NoRunner ELSE [pc |-> "apply", todo |-> todo]

\* Mutated form of Record: a version recorded meanwhile is applied again.
RecordAgain(r) ==
    LET v == Least(runner[r].todo)
    IN  /\ runner[r].pc = "record"
        /\ schema' = Append(schema, v)
        /\ recorded' = recorded \cup {v}
        /\ runner' = [runner EXCEPT ![r] = Rest(@.todo \ {v})]
        /\ UNCHANGED failures

\* It ends: with the row and a commit, or with an error of its key.
Record(r) ==
    LET v == Least(runner[r].todo)
    IN  /\ runner[r].pc = "record"
        /\ \/ /\ v \notin recorded
              /\ schema' = Append(schema, v)
              /\ recorded' = recorded \cup {v}
              /\ runner' = [runner EXCEPT ![r] = Rest(@.todo \ {v})]
           \/ /\ v \in recorded
              /\ runner' = [runner EXCEPT ![r] = NoRunner]
              /\ UNCHANGED <<schema, recorded>>
        /\ UNCHANGED failures

\* A script raises, or the process is killed: what is not committed is gone.
Fail(r) ==
    /\ runner[r].pc # "idle"
    /\ failures < MaxFailures
    /\ failures' = failures + 1
    /\ runner' = [runner EXCEPT ![r] = NoRunner]
    /\ UNCHANGED <<schema, recorded>>

RunnerStep(r) == (\E n \in Image : Discover(r, n)) \/ Apply(r) \/ Record(r)

MigrateNext == \E r \in Runner : RunnerStep(r) \/ Fail(r)

MigrateSpec == MigrateInit /\ [][MigrateNext]_migrateVars

-----------------------------------------------------------------------------
\* Every script has been applied exactly once, in order and without a gap, and
\* schema_migrations says so, whoever runs the migrations at the same time and
\* wherever they stop (migrate.py:5).
InOrderOnce ==
    /\ schema = [i \in 1 .. Len(schema) |-> i]
    /\ recorded = 1 .. Len(schema)
=============================================================================
