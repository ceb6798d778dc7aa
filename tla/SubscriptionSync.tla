--------------------------- MODULE SubscriptionSync ---------------------------
(***************************************************************************)
(* What the Stripe webhook handlers do to one user: the columns plan,      *)
(* stripe_subscription_id and stripe_subscription_status of his row, kept  *)
(* in line with his subscriptions at Stripe by webhook events and by the   *)
(* page he comes back to after a payment. A handler reads the row, may     *)
(* fetch the subscription from Stripe, then writes the row: three steps    *)
(* that other handlers and Stripe interleave with.                         *)
(*                                                                         *)
(* That an event is handled by one worker at a time, and again if its      *)
(* handler fails, is StripeWebhook.                                        *)
(***************************************************************************)
EXTENDS Naturals, Sequences, SequencesExt

CONSTANTS
  Subs,      \* Stripe subscription ids
  PaidPlans, \* plans with a Stripe price
  Free,      \* Plan.FREE
  NoSub,     \* stripe_subscription_id IS NULL
  Workers,   \* request threads
  Allowed,   \* what the environment may do, see below
  MaxMail    \* bound on the undelivered events

\* "reorder": events arrive in any order;  "overlap": handlers interleave;
\* "revisit": the success page of a checkout may be opened at any later time.
ASSUME AllowedAssumption == Allowed \subseteq {"reorder", "overlap", "revisit"}
ASSUME PlansAssumption == Free \notin PaidPlans /\ NoSub \notin Subs

VARIABLES
  stripe,   \* status of each subscription at Stripe
  price,    \* the plan its price stands for
  mail,     \* events Stripe has still to deliver, oldest first
  row,      \* the user's row
  pc, job,  \* per worker: where it is, the event or page it handles
  seen      \* per worker: the `user` dict it has read

vars == <<stripe, price, mail, row, pc, job, seen>>

Statuses == {"none", "active", "past_due", "unpaid", "canceled"}
Rows == [sub : Subs \cup {NoSub}, plan : PaidPlans \cup {Free}, status : Statuses]
Events == [type : {"fetch", "sync", "deleted", "payment_failed", "page"},
           sub : Subs, status : Statuses, plan : PaidPlans]

TypeOK ==
  /\ stripe \in [Subs -> Statuses]
  /\ price \in [Subs -> PaidPlans]
  /\ mail \in Seq(Events)
  /\ row \in Rows
  /\ pc \in [Workers -> {"idle", "fetching", "writing"}]
  /\ \A w \in Workers : pc[w] # "idle" => job[w] \in Events /\ seen[w] \in Rows

Live(s) == stripe[s] \in {"active", "past_due"}

Init ==
  /\ stripe = [s \in Subs |-> "none"]
  /\ price \in [Subs -> PaidPlans]
  /\ mail = <<>>
  /\ row = [sub |-> NoSub, plan |-> Free, status |-> "none"]
  /\ pc = [w \in Workers |-> "idle"]
  /\ job = [w \in Workers |-> NoSub]
  /\ seen = [w \in Workers |-> row]

-----------------------------------------------------------------------------
(* Stripe: each change of a subscription sends the events that report it.  *)

\* An event carries the subscription as it was when the event was made.
Event(type, s) == [type |-> type, sub |-> s, status |-> stripe'[s], plan |-> price'[s]]

Change(s, from, to, p, types) ==
  /\ stripe[s] = from
  /\ stripe' = [stripe EXCEPT ![s] = to]
  /\ price' = [price EXCEPT ![s] = p]
  /\ mail' = mail \o [i \in DOMAIN types |-> Event(types[i], s)]
  /\ Len(mail') <= MaxMail
  /\ UNCHANGED <<row, pc, job, seen>>

\* checkout.session.completed and customer.subscription.created. A user is taken
\* not to buy a second subscription while one is live.
Subscribe(s, p) ==
  /\ \A t \in Subs : ~Live(t)
  /\ Change(s, "none", "active", p, <<"fetch", "sync">>)

\* billing_service.change_plan, or the customer portal.
ChangePlan(s, p) == p # price[s] /\ Change(s, "active", "active", p, <<"sync">>)

PaymentFails(s) == Change(s, "active", "past_due", price[s], <<"sync", "payment_failed">>)
PaymentRecovers(s) == Change(s, "past_due", "active", price[s], <<"sync", "fetch">>)
GiveUp(s) == Change(s, "past_due", "unpaid", price[s], <<"sync">>)
Cancel(s) == Live(s) /\ Change(s, stripe[s], "canceled", price[s], <<"deleted">>)

Stripe ==
  \/ \E s \in Subs, p \in PaidPlans : Subscribe(s, p) \/ ChangePlan(s, p)
  \/ \E s \in Subs : PaymentFails(s) \/ PaymentRecovers(s) \/ GiveUp(s) \/ Cancel(s)

-----------------------------------------------------------------------------
(* The handlers *)

\* Mutant: past_due is not a grace period.
SyncedWithoutGrace(user, obj) ==
  [sub |-> obj.sub, status |-> obj.status,
   plan |-> IF obj.status = "active" THEN obj.plan ELSE Free]

\* sync_subscription(user, obj)
Synced(user, obj) ==
  [sub |-> obj.sub,
   status |-> obj.status,
   plan |-> CASE obj.status = "active" -> obj.plan
              [] obj.status = "past_due" -> user.plan
              [] OTHER -> Free]

\* customer.subscription.deleted: ignored if the row that was read shows
\* another subscription.
ObsoleteAlways(user, obj) == user.sub # NoSub  \* mutant
Obsolete(user, obj) == user.sub \notin {NoSub, obj.sub}

UnsubscribedNullPlan == [sub |-> NoSub, plan |-> NoSub, status |-> "canceled"]  \* mutant
Unsubscribed == [sub |-> NoSub, plan |-> Free, status |-> "canceled"]

\* The row once the handler of obj, which had read user, has written.
Written(user, obj) ==
  CASE obj.type = "deleted" ->
         IF Obsolete(user, obj) THEN row ELSE Unsubscribed
    [] obj.type = "payment_failed" -> [row EXCEPT !.status = "past_due"]
    [] OTHER -> Synced(user, obj)

\* _user_for_customer, or login_required for the page.
Read(w, obj) ==
  /\ pc[w] = "idle"
  /\ "overlap" \in Allowed \/ \A v \in Workers : pc[v] = "idle"
  /\ seen' = [seen EXCEPT ![w] = row]
  /\ job' = [job EXCEPT ![w] = obj]
  /\ pc' = [pc EXCEPT ![w] = IF obj.type \in {"fetch", "page"} THEN "fetching" ELSE "writing"]
  /\ UNCHANGED <<stripe, price, row>>

Receive(w, i) ==
  /\ i = 1 \/ "reorder" \in Allowed
  /\ Read(w, mail[i])
  /\ mail' = RemoveAt(mail, i)

\* /checkout/success, for a checkout that created subscription s.
OpenSuccessPage(w, s) ==
  /\ stripe[s] # "none"
  /\ "revisit" \in Allowed \/ Live(s)
  /\ Read(w, [type |-> "page", sub |-> s, status |-> stripe[s], plan |-> price[s]])
  /\ UNCHANGED mail

\* stripe_service.get_subscription: the subscription as it is now.
Fetch(w) ==
  /\ pc[w] = "fetching"
  /\ pc' = [pc EXCEPT ![w] = "writing"]
  /\ job' = [job EXCEPT ![w].status = stripe[job[w].sub], ![w].plan = price[job[w].sub]]
  /\ UNCHANGED <<stripe, price, mail, row, seen>>

Finish(w) == pc' = [pc EXCEPT ![w] = "idle"] /\ UNCHANGED <<stripe, price, job, seen>>

Write(w) ==
  /\ pc[w] = "writing"
  /\ row' = Written(seen[w], job[w])
  /\ Finish(w)
  /\ UNCHANGED mail

\* The handler raises or its worker dies, before its write or after it; a later
\* redelivery handles the event again. Nobody asks for a page again.
Fail(w) ==
  /\ pc[w] # "idle"
  /\ \/ UNCHANGED row
     \/ pc[w] = "writing" /\ row' = Written(seen[w], job[w])
  /\ mail' = IF job[w].type = "page" THEN mail ELSE <<job[w]>> \o mail
  /\ Finish(w)

Handle(w) == (\E i \in DOMAIN mail : Receive(w, i)) \/ Fetch(w) \/ Write(w)

Next ==
  \/ Stripe
  \/ \E w \in Workers : Handle(w) \/ Fail(w)
  \/ \E w \in Workers, s \in Subs : OpenSuccessPage(w, s)

Spec == Init /\ [][Next]_vars

\* An event is received while any is left, and a handler does not fail for ever.
Fairness ==
  \A w \in Workers :
    /\ SF_vars(\E i \in DOMAIN mail : Receive(w, i))
    /\ SF_vars(Fetch(w))
    /\ SF_vars(Write(w))

FairSpec == Spec /\ Fairness

-----------------------------------------------------------------------------
(* Properties *)

Quiet == mail = <<>> /\ \A w \in Workers : pc[w] = "idle"

\* Whatever happened, once every event is handled the row shows the user's live
\* subscription with its plan (while it is past due: a paid one), and no paid
\* plan without one.
Agreement ==
  Quiet =>
    /\ \A s \in Subs :
         /\ stripe[s] = "active" => row = [sub |-> s, plan |-> price[s], status |-> "active"]
         /\ stripe[s] = "past_due" => row.sub = s /\ row.plan # Free /\ row.status = "past_due"
    /\ (\A s \in Subs : ~Live(s)) => row.plan = Free

\* A plan that is paid for reaches the row, and the end of the last
\* subscription takes it away, unless Stripe changes again.
PlanFollowsStripe ==
  /\ \A s \in Subs, p \in PaidPlans :
       LET paying == stripe[s] = "active" /\ price[s] = p
       IN paying ~> (row.sub = s /\ row.plan = p) \/ ~paying
  /\ LET over == \A s \in Subs : ~Live(s)
     IN over ~> row.plan = Free \/ ~over
=============================================================================
