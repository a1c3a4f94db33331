------------------------------ MODULE MCIngest ------------------------------
(***************************************************************************)
(* Small mailboxes for TLC. The first file of each content repeats a       *)
(* message, so that two workers may meet on one digest; Long is the        *)
(* shortest in which two batches of two can commit while its first message *)
(* is in flight; Mixed has a second file for a row that is refused.        *)
(***************************************************************************)
EXTENDS Ingest, TLC

CONSTANTS p1, p2, w1, w2, w3, h1, h2, h3, dir, s1, s2, s3, acctA, acctB

OneDir   == [h \in Hash |-> dir]
Three    == s1 :> <<h1, h2, h1>>
Mixed    == (s1 :> <<h1, h1>>) @@ (s2 :> <<h1, h3>>)
Two      == s1 :> <<h1, h1>>
Long     == (s1 :> <<h1, h2, h1, h1, h1>>) @@ (s3 :> <<>>)

Symmetry == Permutations(Proc) \cup Permutations(Worker)
=============================================================================
