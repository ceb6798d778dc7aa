----------------------------- MODULE QuotaService -----------------------------
(***************************************************************************)
(* Daily usage quotas: webapp/quota_service.py (consume, refund) over the  *)
(* table user_daily_usage of webapp/db.py. The rows of one (user, quota    *)
(* type) pair are modelled, one per day; pairs never share a row. Request  *)
(* threads of several gunicorn workers interleave between any two          *)
(* statements that read or write shared state, die at any point, and may   *)
(* live across midnight. Every caller consumes one unit at a time.         *)
(***************************************************************************)
EXTENDS Integers, FiniteSets

CONSTANTS
  Requests,   \* request threads
  Plans,      \* values of users.plan
  Limit,      \* QUOTA_MATRIX for this quota type, [Plans -> Nat or Unlimited]
  Unlimited,  \* UNLIMITED (None)
  Owner,      \* is the user the account of NOVAMATH_OWNER_USER_ID?
  LastDay,    \* bound: the calendar stops there
  MaxUnits,   \* bound: no request starts once the row of the day has reached it
  NoDay       \* no row chosen

ASSUME RequestsAssumption == IsFiniteSet(Requests)
ASSUME LimitAssumption ==
  /\ Unlimited \notin Int
  /\ Limit \in [Plans -> Nat \cup {Unlimited}]
ASSUME OwnerAssumption == Owner \in BOOLEAN
ASSUME BoundAssumption == LastDay \in Nat \ {0} /\ MaxUnits \in Nat
ASSUME NoDayAssumption == NoDay \notin Nat

VARIABLES
  day,    \* the UTC date, _today()
  plan,   \* users.plan, or the owner's test setting in system_settings
  usage,  \* user_daily_usage.count, one row per day (0: no row yet)
  pc,     \* where each request is in consume() / refund()
  asked,  \* the plan in the `user` dict the request loaded
  row,    \* the date the request counts on
  due,    \* history: granted units of each day that were not given back
  drift   \* history: units of a row that no grant explains

vars == <<day, plan, usage, pc, asked, row, due, drift>>

Days == 1..LastDay

\* Requests whose increment was over the limit and is still to be undone.
Pending(d) == {r \in Requests : pc[r] = "over" /\ row[r] = d}

TypeOK ==
  /\ day \in Days
  /\ plan \in Plans
  /\ usage \in [Days -> Int]
  /\ pc \in [Requests -> {"idle", "started", "unlimited", "limited", "dated",
                          "over", "granted", "failed"}]
  /\ asked \in [Requests -> Plans]
  /\ row \in [Requests -> Days \cup {NoDay}]
  /\ \A r \in Requests :
       pc[r] \in {"dated", "over", "granted", "failed"} => row[r] \in Days
  /\ due \in [Days -> Int]
  /\ drift \in [Days -> Int]

Init ==
  /\ day = 1
  /\ plan \in Plans
  /\ usage = [d \in Days |-> 0]
  /\ pc = [r \in Requests |-> "idle"]
  /\ asked = [r \in Requests |-> plan]
  /\ row = [r \in Requests |-> NoDay]
  /\ due = [d \in Days |-> 0]
  /\ drift = [d \in Days |-> 0]

Goto(r, from, to) == pc[r] = from /\ pc' = [pc EXCEPT ![r] = to]

\* get_limit: for an ordinary user a function of the dict loaded with the
\* request; for the owner system_settings is read again by every call.
GetLimit(r) == Limit[IF Owner THEN plan ELSE asked[r]]

-----------------------------------------------------------------------------
(* The environment: midnight, and a subscription or test plan that changes. *)

NextDay ==
  /\ day < LastDay
  /\ day' = day + 1
  /\ UNCHANGED <<plan, usage, pc, asked, row, due, drift>>

ChangePlan(p) ==
  /\ plan' = p
  /\ UNCHANGED <<day, usage, pc, asked, row, due, drift>>

\* login_required loads the user's row; the request then calls consume().
Begin(r) ==
  /\ usage[day] < MaxUnits
  /\ Goto(r, "idle", "started")
  /\ asked' = [asked EXCEPT ![r] = plan]
  /\ row' = [row EXCEPT ![r] = NoDay]
  /\ UNCHANGED <<day, plan, usage, due, drift>>

-----------------------------------------------------------------------------
(* consume() *)

\* Mutant: the day is never read.
IsUnlimitedUndated(r) ==
  /\ Goto(r, "started", IF GetLimit(r) = Unlimited THEN "unlimited" ELSE "dated")
  /\ UNCHANGED <<day, plan, usage, asked, row, due, drift>>

\* The first test of consume().
IsUnlimited(r) ==
  /\ Goto(r, "started", IF GetLimit(r) = Unlimited THEN "unlimited" ELSE "limited")
  /\ UNCHANGED <<day, plan, usage, asked, row, due, drift>>

\* No limit: the unit is counted on today's row and nothing is compared.
ConsumeUnlimited(r) ==
  /\ Goto(r, "unlimited", "granted")
  /\ usage' = [usage EXCEPT ![day] = @ + 1]
  /\ row' = [row EXCEPT ![r] = day]
  /\ due' = [due EXCEPT ![day] = @ + 1]
  /\ UNCHANGED <<day, plan, asked, drift>>

\* day = _today(), read once for both the increment and its cancellation.
ReadDay(r) ==
  /\ Goto(r, "limited", "dated")
  /\ row' = [row EXCEPT ![r] = day]
  /\ UNCHANGED <<day, plan, usage, asked, due, drift>>

OverLate(total, limit) == total > limit + 1  \* mutant: off by one
Over(total, limit) == total > limit

\* limit = get_limit() for the second time, then the atomic UPSERT and the
\* test of the total it returned. If the owner lifted the limit since
\* IsUnlimited, the comparison with None raises and the unit stays counted.
Increment(r) ==
  LET d == row[r]
      limit == GetLimit(r)
      total == usage[d] + 1
  IN /\ pc[r] = "dated"
     /\ usage' = [usage EXCEPT ![d] = total]
     /\ \/ /\ limit = Unlimited
           /\ Goto(r, "dated", "idle")
           /\ drift' = [drift EXCEPT ![d] = @ + 1]
           /\ UNCHANGED due
        \/ /\ limit # Unlimited /\ Over(total, limit)
           /\ Goto(r, "dated", "over")
           /\ UNCHANGED <<due, drift>>
        \/ /\ limit # Unlimited /\ ~Over(total, limit)
           /\ Goto(r, "dated", "granted")
           /\ due' = [due EXCEPT ![d] = @ + 1]
           /\ UNCHANGED drift
     /\ UNCHANGED <<day, plan, asked, row>>

\* Mutant: _today() is called again for the cancellation.
CompensateToday(r) ==
  /\ Goto(r, "over", "idle")
  /\ usage' = [usage EXCEPT ![day] = @ - 1]
  /\ UNCHANGED <<day, plan, asked, row, due, drift>>

\* Undo the increment on the row it was made on, then raise.
Compensate(r) ==
  /\ Goto(r, "over", "idle")
  /\ usage' = [usage EXCEPT ![row[r]] = @ - 1]
  /\ UNCHANGED <<day, plan, asked, row, due, drift>>

-----------------------------------------------------------------------------
(* After consume() *)

Deliver(r) ==
  /\ Goto(r, "granted", "idle")
  /\ UNCHANGED <<day, plan, usage, asked, row, due, drift>>

\* The reply raises before any assistant message was stored.
Fail(r) ==
  /\ Goto(r, "granted", "failed")
  /\ UNCHANGED <<day, plan, usage, asked, row, due, drift>>

\* Mutant: the refund may run again.
RefundAgain(r) ==
  /\ pc[r] = "failed"
  /\ usage' = [usage EXCEPT ![day] = @ - 1]
  /\ due' = [due EXCEPT ![row[r]] = @ - 1]
  /\ UNCHANGED <<day, plan, pc, asked, row, drift>>

\* refund() decrements the row of the day it RUNS on.
Refund(r) ==
  /\ Goto(r, "failed", "idle")
  /\ usage' = [usage EXCEPT ![day] = @ - 1]
  /\ due' = [due EXCEPT ![row[r]] = @ - 1]
  /\ drift' = IF row[r] = day THEN drift
              ELSE [drift EXCEPT ![row[r]] = @ + 1, ![day] = @ - 1]
  /\ UNCHANGED <<day, plan, asked, row>>

\* The worker is killed: what was not yet compensated stays counted.
Crash(r) ==
  /\ pc[r] # "idle"
  /\ pc' = [pc EXCEPT ![r] = "idle"]
  /\ drift' = IF pc[r] = "over" THEN [drift EXCEPT ![row[r]] = @ + 1] ELSE drift
  /\ UNCHANGED <<day, plan, usage, asked, row, due>>

Consume(r) ==
  IsUnlimited(r) \/ ConsumeUnlimited(r) \/ ReadDay(r) \/ Increment(r) \/ Compensate(r)

Next ==
  \/ NextDay
  \/ \E p \in Plans : ChangePlan(p)
  \/ \E r \in Requests :
       Begin(r) \/ Consume(r) \/ Deliver(r) \/ Fail(r) \/ Refund(r) \/ Crash(r)

Spec == Init /\ [][Next]_vars

-----------------------------------------------------------------------------
(* Properties *)

\* The counter of a row is exactly: the units granted and not given back, plus
\* the increments still to be undone, plus what crashes and refunds on another
\* day displaced. A refusal, however interleaved, leaves nothing behind
\* ("dans ce cas, RIEN n'est facture", consume()).
LedgerBalances ==
  \A d \in Days : usage[d] = due[d] + Cardinality(Pending(d)) + drift[d]

\* A request that is granted a limited unit leaves at most its limit granted on
\* that day, whatever other requests do meanwhile; only units given back on
\* another day (negative drift) can widen the allowance.
GrantsCountEarlierOnes ==
  [][\A r \in Requests :
       pc[r] = "dated" /\ pc'[r] = "granted"
         => due'[row[r]] + drift[row[r]] <= GetLimit(r)]_vars

\* The same without the exception: the billed units of a day never exceed the
\* limit ("jamais de depassement facture au-dela de la limite", consume()).
GrantsWithinLimit ==
  [][\A r \in Requests :
       pc[r] = "dated" /\ pc'[r] = "granted" => due'[row[r]] <= GetLimit(r)]_vars

\* The counter seen through the increments still to be undone behaves like the
\* atomic allowance of QuotaLedger.
Ledger == INSTANCE QuotaLedger WITH
  settled <- [d \in Days |-> usage[d] - Cardinality(Pending(d))],
  holding <- [r \in Requests |->
                IF pc[r] \in {"granted", "failed"} THEN row[r] ELSE NoDay]

ImplementsLedger == Ledger!Spec
=============================================================================
