-------------------------------- MODULE MCUpkeep --------------------------------
(* Releases of one script and of two, messages in directories of their own. *)
EXTENDS Upkeep, TLC

CONSTANTS r1, r2, h1, h2, dirA, dirB

TwoDirs == (h1 :> dirA) @@ (h2 :> dirB)
=============================================================================
