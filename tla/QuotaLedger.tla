----------------------------- MODULE QuotaLedger -----------------------------
(***************************************************************************)
(* What webapp/quota_service.py promises about daily allowances, seen from *)
(* its callers: consume() either grants a unit or refuses, in one          *)
(* indivisible step, a grant is only given below the limit of the plan it  *)
(* is asked under, and a unit is given back once at most, by refund(), to  *)
(* the allowance of the day refund() runs on. QuotaService implements it.  *)
(***************************************************************************)
EXTENDS Naturals

CONSTANTS
  Requests,   \* request threads
  Days,       \* calendar days, the `date` column of user_daily_usage
  Plans,      \* subscription plans
  Limit,      \* QUOTA_MATRIX restricted to one quota type
  Unlimited,  \* the matrix entry that means "no limit"
  NoDay       \* a request that holds no unit

VARIABLES
  settled,    \* units counted on each day
  holding     \* the day of the unit a request has been granted, or NoDay

vars == <<settled, holding>>

Init ==
  /\ settled = [d \in Days |-> 0]
  /\ holding = [r \in Requests |-> NoDay]

\* consume() returns: one more unit of day d, below the limit of plan p.
Grant(r, d, p) ==
  /\ holding[r] = NoDay
  /\ Limit[p] = Unlimited \/ settled[d] < Limit[p]
  /\ settled' = [settled EXCEPT ![d] = @ + 1]
  /\ holding' = [holding EXCEPT ![r] = d]

\* The request ends and its unit stays charged.
Keep(r) ==
  /\ holding[r] # NoDay
  /\ holding' = [holding EXCEPT ![r] = NoDay]
  /\ UNCHANGED settled

\* refund(), on day d.
Cancel(r, d) ==
  /\ holding[r] # NoDay
  /\ settled' = [settled EXCEPT ![d] = @ - 1]
  /\ holding' = [holding EXCEPT ![r] = NoDay]

\* A request dies between its increment and the decrement that undoes it: the
\* refused unit stays counted, on a day whose allowance was already used up.
Lose(d, p) ==
  /\ Limit[p] # Unlimited
  /\ settled' = [settled EXCEPT ![d] = @ + 1]
  /\ UNCHANGED holding

Next ==
  \/ \E r \in Requests, d \in Days, p \in Plans : Grant(r, d, p)
  \/ \E r \in Requests : Keep(r)
  \/ \E r \in Requests, d \in Days : Cancel(r, d)
  \/ \E d \in Days, p \in Plans : Lose(d, p)

Spec == Init /\ [][Next]_vars
==============================================================================
