----------------------------- MODULE MCGeneration -----------------------------
(* Instances of Generation for TLC. *)
EXTENDS Generation, TLC

CONSTANTS r1, r2, pro, flash, k1, k2

TwoModels == {pro, flash}
PremiumChain == <<pro, flash>>
TwoKeys == {k1, k2}
\* The second model's provider has its key in the environment.
KeysInTable == [m \in TwoModels |-> IF m = pro THEN TwoKeys ELSE {}]
ById == [k \in TwoKeys \cup {NoKey} |-> IF k = k2 THEN 2 ELSE 1]
===============================================================================
