---------------------------- MODULE MCQuotaService ----------------------------
(* Instances of QuotaService for TLC. *)
EXTENDS QuotaService, TLC

CONSTANTS free, ultra

\* A limited plan and an unlimited one, as in QUOTA_MATRIX.
MCLimit == (free :> 1) @@ (ultra :> Unlimited)
\* Two limited plans, the second one more generous.
MCTwoLimits == (free :> 1) @@ (ultra :> 2)

RequestSymmetry == Permutations(Requests)
===============================================================================
