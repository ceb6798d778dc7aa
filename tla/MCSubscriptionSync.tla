-------------------------- MODULE MCSubscriptionSync --------------------------
(* Instances of SubscriptionSync for TLC. *)
EXTENDS SubscriptionSync

SubSymmetry == Permutations(Subs)
===============================================================================
