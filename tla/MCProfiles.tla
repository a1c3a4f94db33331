------------------------------- MODULE MCProfiles -------------------------------
(***************************************************************************)
(* One domain, with a no-reply address, a shop and a person, and messages  *)
(* that make it bulk and human by turns.                                   *)
(***************************************************************************)
EXTENDS SenderProfiles, TLC

CONSTANTS noreply, shop, person, n1, n2, s1, p1, reply

Addresses == {noreply, shop, person}
Messages  == {n1, n2, s1, p1, reply}
Domains   == [a \in Addresses |-> "d"]
Senders1  == (n1 :> noreply) @@ (n2 :> noreply) @@ (s1 :> shop) @@ (p1 :> person)
                @@ (reply :> None)
Rcpts     == [m \in Messages |-> IF m = reply THEN {shop} ELSE {}]
Labels1   == (n1 :> {}) @@ (n2 :> {"Bulk"}) @@ (s1 :> {}) @@ (p1 :> {"Personal"})
                @@ (reply :> {"Sent"})

Symmetry == Permutations(Rebuild)
=============================================================================
