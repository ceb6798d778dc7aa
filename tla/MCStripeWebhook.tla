--------------------------- MODULE MCStripeWebhook ---------------------------
(* Instances of StripeWebhook for TLC. *)
EXTENDS StripeWebhook, TLC

WorkerSymmetry == Permutations(Workers)
==============================================================================
