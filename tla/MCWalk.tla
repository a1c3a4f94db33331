------------------------------- MODULE MCWalk -------------------------------
(***************************************************************************)
(* A small mailbox for TLC: two messages of one date, one each of an older *)
(* and a newer one, and two undated ones. At horizon 0 all but the oldest  *)
(* date are in the far future, at horizon 2 none is.                       *)
(***************************************************************************)
EXTENDS MailboxWalk, TLC

CONSTANTS x1, x2, x3, u1, u2, f1

All     == {x1, x2, x3, u1, u2, f1}
Dates   == {0, 1, 2}
DateIs  == (x1 :> 0) @@ (x2 :> 1) @@ (x3 :> 1) @@ (u1 :> Undated) @@ (u2 :> Undated)
             @@ (f1 :> 2)
Digests == (x1 :> 2) @@ (x2 :> 5) @@ (x3 :> 1) @@ (u1 :> 3) @@ (u2 :> 4) @@ (f1 :> 0)
Days2   == (0 :> 0) @@ (1 :> 0) @@ (2 :> 1)
Boxes   == {All, All \ {x2, u1}}
=============================================================================
