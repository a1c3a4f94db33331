------------------------------- MODULE Ledger -------------------------------
(***************************************************************************)
(* What an ingest promises to whoever looks at the database only: a run's  *)
(* book-keeping never claims more than has been recorded, and never takes  *)
(* a claim back. Workers, batches, transactions, locks and crashes are     *)
(* absent here; Ingest implements this specification.                      *)
(***************************************************************************)
EXTENDS Naturals

CONSTANTS
  RunId,    \* identifiers of ingest runs
  Source,   \* mailbox files
  Size,     \* messages in each file
  NoRow     \* value of a run that does not exist

VARIABLES
  ledger,   \* per run: its file, its checkpoint, and whether it is complete
  recorded  \* pairs of a file and a position accounted for in the archive

lvars == <<ledger, recorded>>

Entry == [src : Source, ckpt : Nat, complete : BOOLEAN]

\* Everything the entry claims to have been dealt with is in rec.
Honest(e, rec) ==
  \A i \in 1..Size[e.src] : (e.complete \/ i <= e.ckpt) => <<e.src, i>> \in rec

LedgerInit ==
  /\ ledger = [r \in RunId |-> NoRow]
  /\ recorded = {}

\* One transaction commits: messages are recorded, and at most one run is
\* opened or updated. An update keeps the run's file and never moves its
\* checkpoint back.
Commit ==
  /\ recorded \subseteq recorded'
  /\ \E r \in RunId :
       LET e == ledger'[r] IN
       /\ ledger' = [ledger EXCEPT ![r] = e]
       /\ e \in Entry
       /\ Honest(e, recorded')
       /\ ledger[r] # NoRow => e.src = ledger[r].src /\ e.ckpt >= ledger[r].ckpt

LedgerSpec == LedgerInit /\ [][Commit]_lvars

\* Nothing below a run's checkpoint, and nothing of a complete run's file, is
\* missing from the archive.
EveryEntryHonest == \A r \in RunId : ledger[r] # NoRow => Honest(ledger[r], recorded)
=============================================================================
