----------------------------- MODULE MCDurability -----------------------------
(* Answers a and b, and the reading of a notion. b is given on the tablet, if
   there is one. *)
EXTENDS Durability, TLC

CONSTANTS phone, tablet, a, b, notion, stats, course, j1, j2

Where == [i \in Items |-> IF i = notion THEN course ELSE stats]
Who == [i \in Items |-> IF i = b /\ tablet \in Devices THEN tablet ELSE phone]
Sym == Permutations({j1, j2})
=============================================================================
