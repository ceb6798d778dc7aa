----------------------------- MODULE MCRateLimit -----------------------------
(* Instances of RateLimit for TLC. *)
EXTENDS RateLimit, TLC

RequestSymmetry == Permutations(Requests)
===============================================================================
