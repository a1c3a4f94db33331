--------------------------------- MODULE Verify ---------------------------------
(***************************************************************************)
(* The integrity check: blobs on disk against rows of the database, read   *)
(* one after the other while an ingest may be adding to both, and blobs    *)
(* may be lost or damaged.                                                 *)
(*                                                                         *)
(* Of the ingest only what the check can see is here: a blob is put before *)
(* its row is committed, and stays if it never is (the modules BlobStore   *)
(* and Ingest have the detail). A batch commits blob, message and sighting *)
(* together, so one set stands for the tables blobs and messages.          *)
(***************************************************************************)
EXTENDS Naturals, FiniteSets, Functions

CONSTANTS
    Hash,       \* digests
    Shard,      \* directories of the store
    ShardOf,    \* the directory of a digest
    MaxDamage,  \* bound on blobs lost or damaged
    MaxSeen     \* bound on the sightings of all messages

ASSUME VerifyAssumption ==
    /\ IsFiniteSet(Hash)
    /\ ShardOf \in [Hash -> Shard]
    /\ MaxDamage \in Nat
    /\ MaxSeen \in Nat

VARIABLES
    disk,       \* what is under the name of each digest
    rows,       \* tables blobs and messages
    sightings,  \* table message_sightings: how often each was seen
    batch,      \* results of the ingest whose rows are not committed yet
    damage,     \* blobs lost or damaged so far
    check,      \* the locals of verify()
    since       \* history: what has held since the check began

verifyVars == <<disk, rows, sightings, batch, damage, check, since>>

Present == {h \in Hash : disk[h] # "absent"}
Bad     == {h \in Hash : disk[h] = "bad"}
Gone    == rows \ Present

CheckRec ==
    [pc : {"idle", "sightings", "listing", "rows", "unseen", "deep", "report"},
     messages : Nat, sightings : Nat, left : SUBSET Shard, listed : SUBSET Hash,
     orphaned : SUBSET Hash, missing : SUBSET Hash, unseen : Nat,
     deep : BOOLEAN, unhashed : SUBSET Hash, corrupt : SUBSET Hash]

NoCheck ==
    [pc |-> "idle", messages |-> 0, sightings |-> 0, left |-> {}, listed |-> {},
     orphaned |-> {}, missing |-> {}, unseen |-> 0,
     deep |-> FALSE, unhashed |-> {}, corrupt |-> {}]

\* gone: at every moment a row without a blob; bad: at every moment damaged;
\* quiet: nothing has changed.
SinceRec == [gone : SUBSET Hash, bad : SUBSET Hash, quiet : BOOLEAN]

NoSince == [gone |-> {}, bad |-> {}, quiet |-> TRUE]

VerifyTypeOK ==
    /\ disk \in [Hash -> {"absent", "whole", "bad"}]
    /\ rows \subseteq Hash
    /\ sightings \in [Hash -> Nat]
    /\ batch \subseteq Hash
    /\ damage \in 0 .. MaxDamage
    /\ check \in CheckRec
    /\ since \in SinceRec

\* What an earlier ingest has left, all of it in order.
VerifyInit ==
    /\ rows \in SUBSET Hash
    /\ disk = [h \in Hash |-> IF h \in rows THEN "whole" ELSE "absent"]
    /\ sightings = [h \in Hash |-> IF h \in rows THEN 1 ELSE 0]
    /\ batch = {}
    /\ damage = 0
    /\ check = NoCheck
    /\ since = NoSince

-----------------------------------------------------------------------------
(* The ingest, and what befalls a disk. Each step keeps the history.       *)

Observe ==
    since' = IF check.pc = "idle" THEN since
             ELSE [gone  |-> since.gone \cap Gone',
                   bad   |-> since.bad \cap Bad',
                   quiet |-> since.quiet /\ UNCHANGED <<disk, rows, sightings>>]

\* A worker puts a message. A file that is there is taken for the blob.
Put(h) ==
    /\ h \notin batch
    /\ SumFunction(sightings) + Cardinality(batch) < MaxSeen
    /\ disk' = IF disk[h] = "absent" THEN [disk EXCEPT ![h] = "whole"] ELSE disk
    /\ batch' = batch \cup {h}
    /\ UNCHANGED <<rows, sightings, damage, check>>
    /\ Observe

CommitBatch ==
    /\ batch # {}
    /\ rows' = rows \cup batch
    /\ sightings' = [h \in Hash |-> sightings[h] + (IF h \in batch THEN 1 ELSE 0)]
    /\ batch' = {}
    /\ UNCHANGED <<disk, damage, check>>
    /\ Observe

\* The ingest is killed: its blobs stay behind.
Abandon ==
    /\ batch # {}
    /\ batch' = {}
    /\ UNCHANGED <<disk, rows, sightings, damage, check>>
    /\ Observe

Damage(h) ==
    /\ damage < MaxDamage
    /\ disk[h] # "absent"
    /\ \E state \in {"absent", "bad"} \ {disk[h]} : disk' = [disk EXCEPT ![h] = state]
    /\ damage' = damage + 1
    /\ UNCHANGED <<rows, sightings, batch, check>>
    /\ Observe

-----------------------------------------------------------------------------
(* verify(), query by query.                                               *)

archiveVars == <<disk, rows, sightings, batch, damage>>

Begin(deep) ==
    /\ check.pc = "idle"
    /\ check' = [NoCheck EXCEPT !.pc = "sightings", !.deep = deep,
                                !.messages = Cardinality(rows)]
    /\ since' = [gone |-> Gone, bad |-> Bad, quiet |-> TRUE]
    /\ UNCHANGED archiveVars

CountSightings ==
    /\ check.pc = "sightings"
    /\ check' = [check EXCEPT !.pc = "listing", !.sightings = SumFunction(sightings),
                              !.left = Shard]
    /\ UNCHANGED <<archiveVars, since>>

\* iter_blobs, a directory at a time.
ListShard ==
    /\ check.pc = "listing"
    /\ \E s \in check.left :
         check' = [check EXCEPT
                      !.left = @ \ {s},
                      !.listed = @ \cup {h \in Present : ShardOf[h] = s},
                      !.pc = IF check.left = {s} THEN "rows" ELSE @]
    /\ UNCHANGED <<archiveVars, since>>

\* Mutated form of ReadRows: the difference is taken the wrong way round.
ReadRowsSwapped ==
    /\ check.pc = "rows"
    /\ check' = [check EXCEPT !.pc = "unseen", !.orphaned = rows \ check.listed,
                              !.missing = check.listed \ rows]
    /\ UNCHANGED <<archiveVars, since>>

ReadRows ==
    /\ check.pc = "rows"
    /\ check' = [check EXCEPT !.pc = "unseen", !.orphaned = check.listed \ rows,
                              !.missing = rows \ check.listed]
    /\ UNCHANGED <<archiveVars, since>>

\* Messages without a sighting; then, with --deep, the blobs are hashed.
CountUnseen ==
    /\ check.pc = "unseen"
    /\ check' = [check EXCEPT
                    !.unseen = Cardinality({h \in rows : sightings[h] = 0}),
                    !.unhashed = IF check.deep THEN check.listed ELSE {},
                    !.pc = "deep"]
    /\ UNCHANGED <<archiveVars, since>>

\* Mutated form of HashBlob: a file that cannot be read is passed over, and so
\* is one that has no row.
HashRowsOnly ==
    /\ check.pc = "deep"
    /\ \E h \in check.unhashed :
         check' = [check EXCEPT
                      !.unhashed = @ \ {h},
                      !.corrupt = IF disk[h] = "bad" /\ h \notin check.orphaned
                                  THEN @ \cup {h} ELSE @]
    /\ UNCHANGED <<archiveVars, since>>

\* BlobStore.verify: a file that cannot be read fails like a damaged one.
HashBlob ==
    /\ check.pc = "deep"
    /\ \E h \in check.unhashed :
         check' = [check EXCEPT !.unhashed = @ \ {h},
                                !.corrupt = IF disk[h] = "whole" THEN @ ELSE @ \cup {h}]
    /\ UNCHANGED <<archiveVars, since>>

EndHashing ==
    /\ check.pc = "deep"
    /\ check.unhashed = {}
    /\ check' = [check EXCEPT !.pc = "report"]
    /\ UNCHANGED <<archiveVars, since>>

\* The report is printed.
Report ==
    /\ check.pc = "report"
    /\ check' = NoCheck
    /\ since' = NoSince
    /\ UNCHANGED archiveVars

ArchiveStep ==
    \/ \E h \in Hash : Put(h) \/ Damage(h)
    \/ CommitBatch
    \/ Abandon

CheckStep ==
    \/ \E deep \in BOOLEAN : Begin(deep)
    \/ CountSightings \/ ListShard \/ ReadRows \/ CountUnseen
    \/ HashBlob \/ EndHashing \/ Report

-----------------------------------------------------------------------------
\* What is reported when it is printed.
Reporting == check.pc = "report"

Mismatch == IF check.messages > check.sightings
            THEN check.messages - check.sightings
            ELSE check.sightings - check.messages

\* A row that has had no blob since the check began is reported missing, and a
\* blob that has been damaged since then is reported corrupt by a deep check,
\* whatever an ingest does meanwhile: verify overlooks no lasting damage
\* (verify.py:3).
DamageIsReported ==
    Reporting => /\ since.gone \subseteq check.missing
                 /\ check.deep => since.bad \subseteq check.corrupt

\* If nothing changes while it runs, the report is the truth: its lists are
\* the differences between disk and database, and a mismatch of zero means
\* that every message was seen exactly once.
ReportIsExact ==
    Reporting /\ since.quiet =>
        /\ check.missing = Gone
        /\ check.orphaned = Present \ rows
        /\ check.unseen = 0
        /\ Mismatch = 0 <=> \A h \in rows : sightings[h] = 1
        /\ check.deep => check.corrupt = Bad
=============================================================================
