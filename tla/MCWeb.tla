--------------------------------- MODULE MCWeb ---------------------------------
(***************************************************************************)
(* A small mailbox for TLC: two messages of one date, one of a newer date, *)
(* and two undated ones. At horizon 0 all dates but the lower one are in   *)
(* the far future, at horizon 1 none is.                                   *)
(***************************************************************************)
EXTENDS WebSession, TLC

CONSTANTS reader, x1, x2, u1, u2, f1

All     == {x1, x2, u1, u2, f1}
Dates   == {0, 1}
DateIs  == (x1 :> 0) @@ (x2 :> 0) @@ (u1 :> Undated) @@ (u2 :> Undated) @@ (f1 :> 1)
Digests == (x1 :> 4) @@ (x2 :> 1) @@ (u1 :> 2) @@ (u2 :> 3) @@ (f1 :> 0)
Days2   == (0 :> 0) @@ (1 :> 0)
Boxes   == {All}
=============================================================================
