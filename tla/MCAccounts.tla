------------------------------ MODULE MCAccounts ------------------------------
(* Two guests in succession in one browser, two requests of it, two operations
   on the consent. *)
EXTENDS Accounts, TLC

CONSTANTS r1, r2, c1, c2, g1, g2

Sym == Permutations({r1, r2}) \cup Permutations({c1, c2}) \cup Permutations({g1, g2})
===============================================================================
