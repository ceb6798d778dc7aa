-------------------------------- MODULE Consent --------------------------------
(***************************************************************************)
(* The consent of a parent to the account of a child: consent_service.py    *)
(* and the tables users and parental_consent_requests. The child may ask    *)
(* for a new link, which supersedes the pending ones; whoever has a link    *)
(* accepts or refuses. Each statement is a transaction of its own; the      *)
(* operations interleave between them and may be killed there.              *)
(***************************************************************************)
EXTENDS Naturals, Sequences, FiniteSets

CONSTANT Clerks  \* operations on the consent that may run at once

ASSUME ConsentAssumption == IsFiniteSet(Clerks)

VARIABLES
  status,   \* account_status, "none" before the account exists
  links,    \* parental_consent_requests, in the order of their creation
  proofs,   \* consent_records of type parental_consent
  clerk,    \* the operations
  crossed,  \* history: two operations have run together
  broken    \* history: how many were killed

consent == <<status, links, proofs, clerk, broken>>

Pending == "pending_parental_consent"
Statuses == {"none", "active", Pending, "parental_consent_refused"}
Decisions == {"accepted", "refused"}

Off == [at |-> "off", link |-> 0, decision |-> "accepted"]
Clerk == [at : {"off", "supersede", "issue", "resolve", "settle", "prove"}, link : Nat, decision : Decisions]

ConsentOK ==
  /\ status \in Statuses
  /\ links \in Seq({"pending", "superseded"} \cup Decisions)
  /\ proofs \in Seq(Decisions)
  /\ clerk \in [Clerks -> Clerk]
  /\ \A c \in Clerks : clerk[c].at \in {"resolve", "settle", "prove"} => clerk[c].link \in DOMAIN links
  /\ crossed \in BOOLEAN /\ broken \in Nat

ConsentInit ==
  /\ status = "none"
  /\ links = <<>>
  /\ proofs = <<>>
  /\ clerk = [c \in Clerks |-> Off]
  /\ crossed = FALSE /\ broken = 0

\* create_parental_consent_request, then the e-mail to the parent.
NewLink == links' = Append(links, "pending")

-----------------------------------------------------------------------------
(* resend_parental_consent, resend_consent_email *)

\* The account is pending, and has had a link.
Resend(c) ==
  /\ clerk[c].at = "off"
  /\ status = Pending
  /\ links # <<>>
  /\ clerk' = [clerk EXCEPT ![c].at = "supersede"]
  /\ UNCHANGED <<status, links, proofs, broken>>

\* supersede_pending_parental_consent_requests. Mutant: the older links stay valid.
SupersedeNone(c) ==
  /\ clerk[c].at = "supersede"
  /\ clerk' = [clerk EXCEPT ![c].at = "issue"]
  /\ UNCHANGED <<status, links, proofs, broken>>

Supersede(c) ==
  /\ clerk[c].at = "supersede"
  /\ links' = [n \in DOMAIN links |-> IF links[n] = "pending" THEN "superseded" ELSE links[n]]
  /\ clerk' = [clerk EXCEPT ![c].at = "issue"]
  /\ UNCHANGED <<status, proofs, broken>>

Issue(c) ==
  /\ clerk[c].at = "issue"
  /\ NewLink
  /\ clerk' = [clerk EXCEPT ![c] = Off]
  /\ UNCHANGED <<status, proofs, broken>>

-----------------------------------------------------------------------------
(* resolve_consent *)

\* The link is read: pending, and not expired. A link may expire at any time, and
\* is then followed no more: that takes steps away, and changes nothing else.
Follow(c, n, decision) ==
  /\ clerk[c].at = "off"
  /\ links[n] = "pending"
  /\ clerk' = [clerk EXCEPT ![c] = [at |-> "resolve", link |-> n, decision |-> decision]]
  /\ UNCHANGED <<status, links, proofs, broken>>

\* UPDATE ... WHERE status = 'pending'. Mutant: without the condition.
ResolvableAlways(n) == n \in DOMAIN links
Resolvable(n) == links[n] = "pending"

Resolve(c) ==
  LET n == clerk[c].link
  IN /\ clerk[c].at = "resolve"
     /\ IF Resolvable(n)
        THEN /\ links' = [links EXCEPT ![n] = clerk[c].decision]
             /\ clerk' = [clerk EXCEPT ![c].at = "settle"]
        ELSE /\ clerk' = [clerk EXCEPT ![c] = Off]
             /\ UNCHANGED links
     /\ UNCHANGED <<status, proofs, broken>>

Verdict(decision) == IF decision = "accepted" THEN "active" ELSE "parental_consent_refused"

\* Mutant: a refusal leaves the account as it is.
SettleAccepted(c) ==
  /\ clerk[c].at = "settle"
  /\ status' = IF clerk[c].decision = "accepted" THEN "active" ELSE status
  /\ clerk' = [clerk EXCEPT ![c].at = "prove"]
  /\ UNCHANGED <<links, proofs, broken>>

Settle(c) ==
  /\ clerk[c].at = "settle"
  /\ status' = Verdict(clerk[c].decision)
  /\ clerk' = [clerk EXCEPT ![c].at = "prove"]
  /\ UNCHANGED <<links, proofs, broken>>

\* add_consent_record, then the e-mail.
Prove(c) ==
  /\ clerk[c].at = "prove"
  /\ proofs' = Append(proofs, clerk[c].decision)
  /\ clerk' = [clerk EXCEPT ![c] = Off]
  /\ UNCHANGED <<status, links, broken>>

\* The operation is killed, or fails.
Abort(c) ==
  /\ clerk[c].at # "off"
  /\ clerk' = [clerk EXCEPT ![c] = Off]
  /\ broken' = broken + 1
  /\ UNCHANGED <<status, links, proofs>>

ConsentStep(c) ==
  \/ Resend(c) \/ Supersede(c) \/ Issue(c)
  \/ (\E n \in DOMAIN links, decision \in Decisions : Follow(c, n, decision))
  \/ Resolve(c) \/ Settle(c) \/ Prove(c) \/ Abort(c)

ConsentNext == \E c \in Clerks : ConsentStep(c)
===============================================================================
