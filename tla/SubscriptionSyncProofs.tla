------------------------ MODULE SubscriptionSyncProofs ------------------------
(***************************************************************************)
(* Proofs about SubscriptionSync, for any subscriptions, plans and workers: *)
(* with events handled in order and one at a time, the row agrees with      *)
(* Stripe once all are handled; in any order, and however the handlers      *)
(* overlap, its columns agree with each other.                              *)
(*                                                                          *)
(* The row follows the events that are left. What matters of them is said   *)
(* by Reach(good, Q, S, K): either the row is good already or some event of *)
(* the queue Q is in S, which makes it good, and every later event is in K, *)
(* which keeps it so. The invariant is a few such facts.                    *)
(***************************************************************************)
EXTENDS SubscriptionSync, TLAPS

-----------------------------------------------------------------------------
(* Queues *)

Reach(good, Q, S, K) ==
  \E i \in 0 .. Len(Q) :
    /\ i = 0 => good
    /\ i > 0 => Q[i] \in S
    /\ \A k \in i + 1 .. Len(Q) : Q[k] \in K

\* Q is e, then M.
Headed(Q, e, M) ==
  /\ Len(M) \in Nat /\ Len(Q) = Len(M) + 1
  /\ Q[1] = e
  /\ \A k \in 1 .. Len(M) : Q[k + 1] = M[k]

\* The first event is handled: the row becomes good, stays good, or was not.
LEMMA ReachNext ==
  ASSUME NEW Q, NEW e, NEW M, Headed(Q, e, M), NEW S, NEW K, NEW good, NEW good1,
         Reach(good, Q, S, K), e \in S => good1, good /\ e \in K => good1
  PROVE  Reach(good1, M, S, K)
<1>1. PICK i \in 0 .. Len(Q) : (i = 0 => good) /\ (i > 0 => Q[i] \in S) /\ (\A k \in i + 1 .. Len(Q) : Q[k] \in K)
  BY DEF Reach
<1>2. Len(M) \in Nat /\ Len(Q) = Len(M) + 1 /\ Q[1] = e
  BY DEF Headed
<1>3. \A k \in 1 .. Len(M) : k + 1 \in 1 .. Len(Q) /\ M[k] = Q[k + 1]
  BY <1>2 DEF Headed
<1>4. CASE i = 0 \/ i = 1
  <2>1. good1
    BY <1>1, <1>2, <1>4
  <2>2. \A k \in 0 + 1 .. Len(M) : M[k] \in K
    BY <1>1, <1>2, <1>3, <1>4
  <2>. QED
    BY <1>2, <2>1, <2>2 DEF Reach
<1>5. CASE i > 1
  <2>1. i - 1 \in 1 .. Len(M) /\ M[i - 1] \in S
    BY <1>1, <1>2, <1>3, <1>5
  <2>2. \A k \in (i - 1) + 1 .. Len(M) : M[k] \in K
    BY <1>1, <1>2, <1>3, <1>5
  <2>. QED
    BY <1>2, <2>1, <2>2 DEF Reach
<1>. QED
  BY <1>1, <1>2, <1>4, <1>5

\* The event that is left may have been fetched meanwhile: it counts for the same.
LEMMA ReachAgain ==
  ASSUME NEW Q, NEW e, NEW M, Headed(Q, e, M), NEW Q1, NEW e1, Headed(Q1, e1, M), NEW S, NEW K,
         NEW good, NEW good1, Reach(good, Q, S, K),
         e \in S => e1 \in S, e \in K => e1 \in K, good /\ e \in K => good1
  PROVE  Reach(good1, Q1, S, K)
<1>1. PICK i \in 0 .. Len(Q) : (i = 0 => good) /\ (i > 0 => Q[i] \in S) /\ (\A k \in i + 1 .. Len(Q) : Q[k] \in K)
  BY DEF Reach
<1>2. Len(M) \in Nat /\ Len(Q) = Len(M) + 1 /\ Len(Q1) = Len(Q) /\ Q[1] = e /\ Q1[1] = e1
  BY DEF Headed
<1>3. \A k \in 2 .. Len(Q) : Q1[k] = Q[k]
  <2>1. SUFFICES ASSUME NEW k \in 2 .. Len(Q) PROVE Q1[k] = Q[k]
    OBVIOUS
  <2>2. k - 1 \in 1 .. Len(M) /\ (k - 1) + 1 = k
    BY <1>2
  <2>. QED
    BY <2>2 DEF Headed
<1>4. \A k \in i + 1 .. Len(Q1) : Q1[k] \in K
  <2>1. SUFFICES ASSUME NEW k \in i + 1 .. Len(Q) PROVE Q1[k] \in K
    BY <1>2
  <2>2. CASE k = 1
    BY <1>1, <1>2, <2>2
  <2>3. CASE k > 1
    BY <1>1, <1>2, <1>3, <2>3
  <2>. QED
    BY <1>2, <2>2, <2>3
<1>5. CASE i = 0
  <2>1. good1
    BY <1>1, <1>2, <1>5
  <2>. QED
    BY <1>2, <1>4, <1>5, <2>1 DEF Reach
<1>6. CASE i = 1
  BY <1>1, <1>2, <1>4, <1>6 DEF Reach
<1>7. CASE i > 1
  BY <1>1, <1>2, <1>3, <1>4, <1>7 DEF Reach
<1>. QED
  BY <1>1, <1>2, <1>5, <1>6, <1>7

\* More is good, makes good or keeps good.
LEMMA ReachWeaker ==
  ASSUME NEW Q, NEW S, NEW K, NEW good, NEW S1, NEW K1, NEW good1,
         Reach(good, Q, S, K), good => good1, S \subseteq S1, K \subseteq K1
  PROVE  Reach(good1, Q, S1, K1)
<1>1. PICK i \in 0 .. Len(Q) : (i = 0 => good) /\ (i > 0 => Q[i] \in S) /\ (\A k \in i + 1 .. Len(Q) : Q[k] \in K)
  BY DEF Reach
<1>. QED
  BY <1>1 DEF Reach

\* Events that keep the row good arrive.
LEMMA ReachLonger ==
  ASSUME NEW T, NEW Q \in Seq(T), NEW E \in Seq(T), NEW S, NEW K, NEW good, Reach(good, Q, S, K),
         \A k \in 1 .. Len(E) : E[k] \in K
  PROVE  Reach(good, Q \o E, S, K)
<1>1. PICK i \in 0 .. Len(Q) : (i = 0 => good) /\ (i > 0 => Q[i] \in S) /\ (\A k \in i + 1 .. Len(Q) : Q[k] \in K)
  BY DEF Reach
<1>2. /\ Len(Q \o E) = Len(Q) + Len(E) /\ Len(Q) \in Nat /\ Len(E) \in Nat
      /\ \A k \in 1 .. Len(Q) : (Q \o E)[k] = Q[k]
      /\ \A k \in Len(Q) + 1 .. Len(Q) + Len(E) : (Q \o E)[k] = E[k - Len(Q)]
  OBVIOUS
<1>3. \A k \in i + 1 .. Len(Q \o E) : (Q \o E)[k] \in K
  <2>1. SUFFICES ASSUME NEW k \in i + 1 .. Len(Q) + Len(E) PROVE (Q \o E)[k] \in K
    BY <1>2
  <2>2. CASE k <= Len(Q)
    BY <1>1, <1>2, <2>2
  <2>3. CASE k > Len(Q)
    <3>1. k - Len(Q) \in 1 .. Len(E)
      BY <1>2, <2>3
    <3>. QED
      BY <1>2, <2>3, <3>1
  <2>. QED
    BY <1>2, <2>2, <2>3
<1>4. i \in 0 .. Len(Q \o E) /\ (i > 0 => (Q \o E)[i] \in S)
  BY <1>1, <1>2
<1>. QED
  BY <1>1, <1>3, <1>4 DEF Reach

\* An event that makes the row good arrives, and others that keep it so.
LEMMA ReachNew ==
  ASSUME NEW T, NEW Q \in Seq(T), NEW E \in Seq(T), NEW S, NEW K, NEW good,
         NEW n \in 1 .. Len(E), E[n] \in S, \A k \in n + 1 .. Len(E) : E[k] \in K
  PROVE  Reach(good, Q \o E, S, K)
<1>2. /\ Len(Q \o E) = Len(Q) + Len(E) /\ Len(Q) \in Nat /\ Len(E) \in Nat
      /\ \A k \in Len(Q) + 1 .. Len(Q) + Len(E) : (Q \o E)[k] = E[k - Len(Q)]
  OBVIOUS
<1>3. Len(Q) + n \in 0 .. Len(Q \o E) /\ (Q \o E)[Len(Q) + n] \in S /\ Len(Q) + n > 0
  BY <1>2
<1>4. \A k \in (Len(Q) + n) + 1 .. Len(Q \o E) : (Q \o E)[k] \in K
  <2>1. SUFFICES ASSUME NEW k \in (Len(Q) + n) + 1 .. Len(Q) + Len(E) PROVE (Q \o E)[k] \in K
    BY <1>2
  <2>2. k - Len(Q) \in n + 1 .. Len(E) /\ k \in Len(Q) + 1 .. Len(Q) + Len(E)
    BY <1>2
  <2>. QED
    BY <1>2, <2>2
<1>. QED
  BY <1>3, <1>4 DEF Reach

LEMMA HeadedIs ==
  ASSUME NEW T, NEW M \in Seq(T), NEW e \in T
  PROVE  <<e>> \o M \in Seq(T) /\ Headed(<<e>> \o M, e, M)
BY DEF Headed

LEMMA FirstLeaves ==
  ASSUME NEW T, NEW Q \in Seq(T), Len(Q) > 0
  PROVE  /\ RemoveAt(Q, 1) \in Seq(T) /\ Q[1] \in T
         /\ Headed(Q, Q[1], RemoveAt(Q, 1)) /\ Q = <<Q[1]>> \o RemoveAt(Q, 1)
BY DEF RemoveAt, Headed

-----------------------------------------------------------------------------
(* Types *)

\* job and seen are functions, of which only the busy workers' entries matter.
Shaped == DOMAIN job = Workers /\ job = [w \in Workers |-> job[w]]
          /\ DOMAIN seen = Workers /\ seen = [w \in Workers |-> seen[w]]
Typed == TypeOK /\ Shaped

\* What a handler makes of row r.
After(r, e) ==
  CASE e.type = "deleted" -> IF Obsolete(r, e) THEN r ELSE Unsubscribed
    [] e.type = "payment_failed" -> [r EXCEPT !.status = "past_due"]
    [] OTHER -> Synced(r, e)

LEMMA AfterIs ==
  ASSUME NEW r \in Rows, NEW e \in Events
  PROVE  /\ After(r, e) \in Rows
         /\ e.type \in {"sync", "fetch", "page"} =>
              /\ After(r, e).sub = e.sub /\ After(r, e).status = e.status
              /\ e.status = "active" => After(r, e) = [sub |-> e.sub, plan |-> e.plan, status |-> "active"]
              /\ e.status = "past_due" => After(r, e).plan = r.plan
              /\ e.status \notin {"active", "past_due"} => After(r, e).plan = Free
         /\ e.type = "deleted" =>
              IF r.sub \in {NoSub, e.sub} THEN After(r, e).sub = NoSub /\ After(r, e).plan = Free
              ELSE After(r, e) = r
         /\ e.type = "payment_failed" =>
              After(r, e).sub = r.sub /\ After(r, e).plan = r.plan /\ After(r, e).status = "past_due"
<1>0. /\ r = [sub |-> r.sub, plan |-> r.plan, status |-> r.status]
      /\ r.sub \in Subs \cup {NoSub} /\ r.plan \in PaidPlans \cup {Free} /\ r.status \in Statuses
      /\ e.sub \in Subs /\ e.plan \in PaidPlans /\ e.status \in Statuses
  BY DEF Rows, Events
<1>1. CASE e.type = "deleted"
  BY <1>0, <1>1 DEF After, Obsolete, Unsubscribed, Rows, Statuses
<1>2. CASE e.type = "payment_failed"
  BY <1>0, <1>2 DEF After, Rows, Statuses
<1>3. CASE e.type \in {"sync", "fetch", "page"}
  <2>1. After(r, e) = Synced(r, e)
    BY <1>3 DEF After
  <2>2. Synced(r, e).plan \in PaidPlans \cup {Free}
    BY <1>0 DEF Synced
  <2>. QED
    BY <1>0, <1>3, <2>1, <2>2 DEF Synced, Rows
<1>. QED
  BY <1>1, <1>2, <1>3 DEF Events

\* The events of a change.
Sent(types, s) == [i \in DOMAIN types |-> Event(types[i], s)]

\* A change at Stripe keeps the types, and says what it changes.
LEMMA ChangeTypes ==
  ASSUME Typed, NEW s \in Subs, NEW from, NEW to \in Statuses, NEW p \in PaidPlans,
         NEW types \in Seq({"fetch", "sync", "deleted", "payment_failed"}), Change(s, from, to, p, types)
  PROVE  /\ Typed'
         /\ stripe[s] = from /\ stripe' = [stripe EXCEPT ![s] = to] /\ price' = [price EXCEPT ![s] = p]
         /\ stripe'[s] = to /\ price'[s] = p
         /\ \A t \in Subs \ {s} : stripe'[t] = stripe[t] /\ price'[t] = price[t]
         /\ Sent(types, s) \in Seq(Events)
         /\ mail' = mail \o Sent(types, s)
         /\ UNCHANGED <<row, pc, job, seen>>
<1>1. /\ stripe[s] = from /\ stripe' = [stripe EXCEPT ![s] = to] /\ price' = [price EXCEPT ![s] = p]
      /\ mail' = mail \o Sent(types, s)
      /\ UNCHANGED <<row, pc, job, seen>>
  BY DEF Change, Sent
<1>2. stripe' \in [Subs -> Statuses] /\ price' \in [Subs -> PaidPlans]
  BY <1>1 DEF Typed, TypeOK
<1>3. /\ stripe'[s] = to /\ price'[s] = p
      /\ \A t \in Subs \ {s} : stripe'[t] = stripe[t] /\ price'[t] = price[t]
  BY <1>1 DEF Typed, TypeOK
<1>4. \A i \in DOMAIN types : Event(types[i], s) \in Events
  BY <1>3 DEF Event, Events
<1>5. Sent(types, s) \in Seq(Events)
  BY <1>4 DEF Sent
<1>6. mail' \in Seq(Events)
  BY <1>1, <1>5 DEF Typed, TypeOK
<1>. QED
  BY <1>1, <1>2, <1>3, <1>5, <1>6 DEF Typed, TypeOK, Shaped

LEMMA StripeTypes ==
  ASSUME Typed, Stripe
  PROVE  Typed'
<1>0. \A s \in Subs : price[s] \in PaidPlans
  BY DEF Typed, TypeOK
<1>1. <<"sync">> \in Seq({"fetch", "sync", "deleted", "payment_failed"})
      /\ <<"deleted">> \in Seq({"fetch", "sync", "deleted", "payment_failed"})
      /\ <<"fetch", "sync">> \in Seq({"fetch", "sync", "deleted", "payment_failed"})
      /\ <<"sync", "fetch">> \in Seq({"fetch", "sync", "deleted", "payment_failed"})
      /\ <<"sync", "payment_failed">> \in Seq({"fetch", "sync", "deleted", "payment_failed"})
  OBVIOUS
<1>2. {"active", "past_due", "unpaid", "canceled"} \subseteq Statuses
  BY DEF Statuses
<1>. QED
  BY <1>0, <1>1, <1>2, ChangeTypes DEF Stripe, Subscribe, ChangePlan, PaymentFails, PaymentRecovers, GiveUp, Cancel

LEMMA ReadTypes ==
  ASSUME Typed, NEW w \in Workers, NEW obj \in Events, Read(w, obj), mail' \in Seq(Events)
  PROVE  Typed'
BY DEF Read, Typed, TypeOK, Shaped

LEMMA WrittenTypes ==
  ASSUME Typed, NEW w \in Workers, pc[w] # "idle"
  PROVE  Written(seen[w], job[w]) \in Rows
<1>1. seen[w] \in Rows /\ job[w] \in Events /\ row \in Rows
  BY DEF Typed, TypeOK
<1>2. After(seen[w], job[w]) \in Rows /\ After(row, job[w]) \in Rows
  BY <1>1, AfterIs
<1>. QED
  BY <1>1, <1>2 DEF Written, After, Unsubscribed, Rows, Statuses

LEMMA FinishTypes ==
  ASSUME Typed, NEW w \in Workers, Finish(w), row' \in Rows, mail' \in Seq(Events)
  PROVE  Typed'
BY DEF Finish, Typed, TypeOK, Shaped

LEMMA FetchIs ==
  ASSUME Typed, NEW w \in Workers, Fetch(w)
  PROVE  /\ Typed'
         /\ job[w] \in Events /\ job'[w] \in Events
         /\ job'[w].type = job[w].type /\ job'[w].sub = job[w].sub
         /\ job'[w].status = stripe[job[w].sub] /\ job'[w].plan = price[job[w].sub]
         /\ \A v \in Workers \ {w} : job'[v] = job[v] /\ pc'[v] = pc[v]
         /\ pc[w] = "fetching" /\ pc'[w] = "writing"
         /\ UNCHANGED <<stripe, price, mail, row, seen>>
<1>1. /\ pc[w] = "fetching" /\ pc' = [pc EXCEPT ![w] = "writing"]
      /\ job' = [job EXCEPT ![w].status = stripe[job[w].sub], ![w].plan = price[job[w].sub]]
      /\ UNCHANGED <<stripe, price, mail, row, seen>>
  BY DEF Fetch
<1>2. job[w] \in Events /\ job[w].sub \in Subs
  BY <1>1 DEF Typed, TypeOK, Events
<1> DEFINE e == [job[w] EXCEPT !.status = stripe[job[w].sub], !.plan = price[job[w].sub]]
<1>3. e \in Events /\ e.type = job[w].type /\ e.sub = job[w].sub
      /\ e.status = stripe[job[w].sub] /\ e.plan = price[job[w].sub]
  BY <1>2 DEF Typed, TypeOK, Events
<1>4. job' = [job EXCEPT ![w] = e]
  BY <1>1 DEF Typed, Shaped
<1>. HIDE DEF e
<1>5. job'[w] = e /\ (\A v \in Workers \ {w} : job'[v] = job[v]) /\ Shaped'
  BY <1>1, <1>4 DEF Typed, Shaped
<1>6. pc' \in [Workers -> {"idle", "fetching", "writing"}] /\ pc'[w] = "writing"
      /\ \A v \in Workers \ {w} : pc'[v] = pc[v]
  BY <1>1 DEF Typed, TypeOK
<1>7. \A v \in Workers : pc'[v] # "idle" => job'[v] \in Events /\ seen'[v] \in Rows
  BY <1>1, <1>3, <1>5, <1>6 DEF Typed, TypeOK
<1>. QED
  BY <1>1, <1>2, <1>3, <1>5, <1>6, <1>7 DEF Typed, TypeOK

LEMMA TypesKept ==
  ASSUME Typed, [Next]_vars
  PROVE  Typed'
<1>1. CASE UNCHANGED vars
  BY <1>1 DEF vars, Typed, TypeOK, Shaped
<1>2. CASE Stripe
  BY <1>2, StripeTypes
<1>3. ASSUME NEW w \in Workers, NEW i \in DOMAIN mail, Receive(w, i) PROVE Typed'
  <2>1. mail \in Seq(Events) /\ mail[i] \in Events /\ i \in 1 .. Len(mail)
    BY DEF Typed, TypeOK
  <2>2. SubSeq(mail, 1, i - 1) \in Seq(Events) /\ SubSeq(mail, i + 1, Len(mail)) \in Seq(Events)
    BY <2>1
  <2>3. mail' \in Seq(Events)
    BY <1>3, <2>2 DEF Receive, RemoveAt
  <2>. QED
    BY <1>3, <2>1, <2>3, ReadTypes DEF Receive
<1>4. ASSUME NEW w \in Workers, Fetch(w) PROVE Typed'
  BY <1>4, FetchIs
<1>5. ASSUME NEW w \in Workers, Write(w) PROVE Typed'
  BY <1>5, WrittenTypes, FinishTypes DEF Write, Typed, TypeOK
<1>6. ASSUME NEW w \in Workers, Fail(w) PROVE Typed'
  <2>1. job[w] \in Events /\ mail \in Seq(Events)
    BY <1>6 DEF Fail, Typed, TypeOK
  <2>2. mail' \in Seq(Events)
    BY <1>6, <2>1 DEF Fail
  <2>3. row' \in Rows
    BY <1>6, WrittenTypes DEF Fail, Typed, TypeOK
  <2>. QED
    BY <1>6, <2>2, <2>3, FinishTypes DEF Fail
<1>7. ASSUME NEW w \in Workers, NEW s \in Subs, OpenSuccessPage(w, s) PROVE Typed'
  <2>1. [type |-> "page", sub |-> s, status |-> stripe[s], plan |-> price[s]] \in Events
    BY DEF Typed, TypeOK, Events
  <2>. QED
    BY <1>7, <2>1, ReadTypes DEF OpenSuccessPage, Typed, TypeOK
<1>. QED
  BY <1>1, <1>2, <1>3, <1>4, <1>5, <1>6, <1>7 DEF Next, Handle

LEMMA TypesInit ==
  ASSUME Init
  PROVE  Typed
BY DEF Init, Typed, TypeOK, Shaped, Rows, Statuses

\* Every variable keeps its type, whatever the environment may do.
THEOREM TypeCorrect == Spec => []TypeOK
BY TypesInit, TypesKept, PTL DEF Spec, Typed

-----------------------------------------------------------------------------
(* What the row follows. st and pr stand for stripe and price, r for the row, *)
(* Q for the events that are left.                                            *)

Of(type, s) == {e \in Events : e.type = type /\ e.sub = s}
Every(type) == {e \in Events : e.type = type}
Synchronised(s, status) == {e \in Of("sync", s) : e.status = status}
EndOfOthers(s) == {e \in Every("deleted") : e.sub # s}
Ended == {e \in Every("sync") : e.status \notin {"active", "past_due"}}

Alive(st, s) == st[s] \in {"active", "past_due"}

\* For a live subscription: it has the row, with a paid plan ...
IsPaid(r, s) == r.sub = s /\ r.plan # Free
PaidKeeps(s) == Of("fetch", s) \cup Synchronised(s, "active") \cup Synchronised(s, "past_due")
                \cup Of("payment_failed", s) \cup EndOfOthers(s)
Paid(r, Q, s) == Reach(IsPaid(r, s), Q, Synchronised(s, "active"), PaidKeeps(s))

\* ... its own plan if it is active ...
IsActive(pr, r, s) == r = [sub |-> s, plan |-> pr[s], status |-> "active"]
ActiveMakes(pr, s) == Of("fetch", s) \cup {e \in Synchronised(s, "active") : e.plan = pr[s]}
Active(pr, r, Q, s) == Reach(IsActive(pr, r, s), Q, ActiveMakes(pr, s), ActiveMakes(pr, s) \cup EndOfOthers(s))

\* ... and its status if it is past due.
IsLate(r, s) == r.sub = s /\ r.status = "past_due"
LateMakes(s) == Of("fetch", s) \cup Synchronised(s, "past_due")
Late(r, Q, s) == Reach(IsLate(r, s), Q, LateMakes(s), LateMakes(s) \cup Of("payment_failed", s) \cup EndOfOthers(s))

\* Without one: the plan is free ...
IsFree(r) == r.plan = Free
FreeMakes == Every("fetch") \cup Ended
FreeKeeps == FreeMakes \cup Every("payment_failed") \cup Every("deleted")
Freed(r, Q) == Reach(IsFree(r), Q, FreeMakes, FreeKeeps)

\* ... or the end of subscription s will free it, because the row shows s by then.
IsOwned(r, s) == r.plan = Free \/ r.sub \in {s, NoSub}
OwnedMakes(s) == Of("fetch", s) \cup Of("sync", s)
OwnedKeeps(s) == OwnedMakes(s) \cup Of("payment_failed", s) \cup Every("deleted")
Owned(r, Q, s) == Reach(IsOwned(r, s), Q, OwnedMakes(s), OwnedKeeps(s))
Ends(Q, s) == Reach(FALSE, Q, Of("deleted", s), FreeKeeps)
Freeing(r, Q) == \E s \in Subs : Ends(Q, s) /\ Owned(r, Q, s)

Follows(st, pr, r, Q) ==
  /\ \A s \in Subs :
       /\ Alive(st, s) => Paid(r, Q, s)
       /\ st[s] = "active" => Active(pr, r, Q, s)
       /\ st[s] = "past_due" => Late(r, Q, s)
  /\ (\A s \in Subs : ~Alive(st, s)) => Freed(r, Q) \/ Freeing(r, Q)

\* A handler may find e fetched anew, as e1.
Same(e, e1) == e1 = e \/ (e.type = "fetch" /\ e1.type = "fetch" /\ e1.sub = e.sub)

\* What a fetch or a page has been told.
Current(st, pr, e) == e.status = st[e.sub] /\ e.plan = pr[e.sub]

LEMMA PaidNext ==
  ASSUME NEW r \in Rows, NEW e \in Events, NEW s \in Subs, NEW st, NEW pr, Alive(st, s),
         e.type = "fetch" => Current(st, pr, e)
  PROVE  /\ e \in Synchronised(s, "active") => IsPaid(After(r, e), s)
         /\ IsPaid(r, s) /\ e \in PaidKeeps(s) => IsPaid(After(r, e), s)
<1>0. e.plan \in PaidPlans /\ e.plan # Free /\ s # NoSub
  BY PlansAssumption DEF Events
<1>1. CASE e.type \in {"sync", "fetch"}
  BY <1>0, <1>1, AfterIs
     DEF PaidKeeps, Synchronised, Of, EndOfOthers, Every, IsPaid, Current, Alive
<1>2. CASE e.type \in {"deleted", "payment_failed"}
  BY <1>0, <1>2, AfterIs
     DEF PaidKeeps, Synchronised, Of, EndOfOthers, Every, IsPaid
<1>3. CASE e.type = "page"
  BY <1>3 DEF PaidKeeps, Synchronised, Of, EndOfOthers, Every
<1>. QED
  BY <1>1, <1>2, <1>3 DEF Events

LEMMA ActiveNext ==
  ASSUME NEW r \in Rows, NEW e \in Events, NEW s \in Subs, NEW st, NEW pr, st[s] = "active",
         e.type = "fetch" => Current(st, pr, e)
  PROVE  /\ e \in ActiveMakes(pr, s) => IsActive(pr, After(r, e), s)
         /\ IsActive(pr, r, s) /\ e \in ActiveMakes(pr, s) \cup EndOfOthers(s) => IsActive(pr, After(r, e), s)
<1>0. s # NoSub
  BY PlansAssumption
<1>1. CASE e.type \in {"sync", "fetch"}
  BY <1>0, <1>1, AfterIs
     DEF ActiveMakes, Synchronised, Of, EndOfOthers, Every, IsActive, Current
<1>2. CASE e.type = "deleted"
  BY <1>0, <1>2, AfterIs
     DEF ActiveMakes, Synchronised, Of, EndOfOthers, Every, IsActive
<1>3. CASE e.type \in {"page", "payment_failed"}
  BY <1>3 DEF ActiveMakes, Synchronised, Of, EndOfOthers, Every
<1>. QED
  BY <1>1, <1>2, <1>3 DEF Events

LEMMA LateNext ==
  ASSUME NEW r \in Rows, NEW e \in Events, NEW s \in Subs, NEW st, NEW pr, st[s] = "past_due",
         e.type = "fetch" => Current(st, pr, e)
  PROVE  /\ e \in LateMakes(s) => IsLate(After(r, e), s)
         /\ IsLate(r, s) /\ e \in LateMakes(s) \cup Of("payment_failed", s) \cup EndOfOthers(s)
              => IsLate(After(r, e), s)
<1>0. s # NoSub
  BY PlansAssumption
<1>1. CASE e.type \in {"sync", "fetch"}
  BY <1>0, <1>1, AfterIs
     DEF LateMakes, Synchronised, Of, EndOfOthers, Every, IsLate, Current
<1>2. CASE e.type \in {"deleted", "payment_failed"}
  BY <1>0, <1>2, AfterIs
     DEF LateMakes, Synchronised, Of, EndOfOthers, Every, IsLate
<1>3. CASE e.type = "page"
  BY <1>3 DEF LateMakes, Synchronised, Of, EndOfOthers, Every
<1>. QED
  BY <1>1, <1>2, <1>3 DEF Events

LEMMA FreedNext ==
  ASSUME NEW r \in Rows, NEW e \in Events, NEW st, NEW pr, \A s \in Subs : ~Alive(st, s),
         e.type = "fetch" => Current(st, pr, e)
  PROVE  /\ e \in FreeMakes => IsFree(After(r, e))
         /\ IsFree(r) /\ e \in FreeKeeps => IsFree(After(r, e))
<1>0. e.sub \in Subs
  BY DEF Events
<1>1. CASE e.type \in {"sync", "fetch"}
  BY <1>0, <1>1, AfterIs DEF FreeMakes, FreeKeeps, Ended, Every, IsFree, Current, Alive
<1>2. CASE e.type \in {"deleted", "payment_failed"}
  BY <1>0, <1>2, AfterIs DEF FreeMakes, FreeKeeps, Ended, Every, IsFree
<1>3. CASE e.type = "page"
  BY <1>3 DEF FreeMakes, FreeKeeps, Ended, Every
<1>. QED
  BY <1>1, <1>2, <1>3 DEF Events

LEMMA OwnedNext ==
  ASSUME NEW r \in Rows, NEW e \in Events, NEW s \in Subs
  PROVE  /\ e \in OwnedMakes(s) => IsOwned(After(r, e), s)
         /\ IsOwned(r, s) /\ e \in OwnedKeeps(s) => IsOwned(After(r, e), s)
         /\ IsOwned(r, s) /\ e \in Of("deleted", s) => IsFree(After(r, e))
<1>0. e.sub \in Subs
  BY DEF Events
<1>1. CASE e.type \in {"sync", "fetch"}
  BY <1>0, <1>1, AfterIs DEF OwnedMakes, OwnedKeeps, Of, Every, IsFree, IsOwned
<1>2. CASE e.type \in {"deleted", "payment_failed"}
  BY <1>0, <1>2, AfterIs DEF OwnedMakes, OwnedKeeps, Of, Every, IsFree, IsOwned
<1>3. CASE e.type = "page"
  BY <1>3 DEF OwnedMakes, OwnedKeeps, Of, Every
<1>. QED
  BY <1>1, <1>2, <1>3 DEF Events

\* The event that ends s is the next one or comes later, unless some event
\* after it frees the row in any case.
LEMMA EndsNext ==
  ASSUME NEW r, NEW Q, NEW e, NEW M, Headed(Q, e, M), NEW s \in Subs, Ends(Q, s), Owned(r, Q, s)
  PROVE  \/ Freed(r, Q)
         \/ Ends(M, s)
         \/ e \in Of("deleted", s) /\ IsOwned(r, s) /\ \A k \in 1 .. Len(M) : M[k] \in FreeKeeps
<1>1. PICK i \in 0 .. Len(Q) : i > 0 /\ Q[i] \in Of("deleted", s) /\ (\A k \in i + 1 .. Len(Q) : Q[k] \in FreeKeeps)
  BY DEF Ends, Reach
<1>2. PICK j \in 0 .. Len(Q) : (j = 0 => IsOwned(r, s)) /\ (j > 0 => Q[j] \in OwnedMakes(s))
  BY DEF Owned, Reach
<1>3. Len(M) \in Nat /\ Len(Q) = Len(M) + 1 /\ Q[1] = e
  BY DEF Headed
<1>4. \A k \in 1 .. Len(M) : k + 1 \in 1 .. Len(Q) /\ M[k] = Q[k + 1]
  BY <1>3 DEF Headed
<1>5. CASE j > i
  <2>1. Q[j] \in OwnedMakes(s) /\ Q[j] \in FreeKeeps
    BY <1>1, <1>2, <1>3, <1>5
  <2>2. Q[j] \in FreeMakes
    BY <2>1 DEF OwnedMakes, Of, FreeKeeps, FreeMakes, Every
  <2>3. \A k \in j + 1 .. Len(Q) : Q[k] \in FreeKeeps
    BY <1>1, <1>3, <1>5
  <2>. QED
    BY <1>5, <2>2, <2>3 DEF Freed, Reach
<1>6. CASE j <= i /\ i = 1
  <2>1. j # 1
    BY <1>1, <1>2, <1>6 DEF OwnedMakes, Of
  <2>. QED
    BY <1>1, <1>2, <1>3, <1>4, <1>6, <2>1
<1>7. CASE i > 1
  <2>1. i - 1 \in 1 .. Len(M) /\ M[i - 1] \in Of("deleted", s)
    BY <1>1, <1>3, <1>4, <1>7
  <2>2. \A k \in (i - 1) + 1 .. Len(M) : M[k] \in FreeKeeps
    BY <1>1, <1>3, <1>4, <1>7
  <2>. QED
    BY <1>3, <1>7, <2>1, <2>2 DEF Ends, Reach
<1>. QED
  BY <1>1, <1>5, <1>6, <1>7

\* Nothing is live, and the event is handled: it leaves the queue ...
LEMMA OverNext ==
  ASSUME NEW r \in Rows, NEW Q, NEW e, NEW e1 \in Events, NEW M, Headed(Q, e, M), Same(e, e1), e \in Events,
         NEW st, NEW pr, \A s \in Subs : ~Alive(st, s), e1.type = "fetch" => Current(st, pr, e1),
         Freed(r, Q) \/ Freeing(r, Q)
  PROVE  Freed(After(r, e1), M) \/ Freeing(After(r, e1), M)
<1>0. /\ e \in FreeMakes => e1 \in FreeMakes
      /\ e \in FreeKeeps => e1 \in FreeKeeps
      /\ \A s \in Subs : /\ e \in OwnedMakes(s) => e1 \in OwnedMakes(s)
                         /\ e \in OwnedKeeps(s) => e1 \in OwnedKeeps(s)
                         /\ e \in Of("deleted", s) => e1 \in Of("deleted", s)
  BY DEF Same, FreeMakes, FreeKeeps, Ended, Every, OwnedMakes, OwnedKeeps, Of
<1>1. CASE Freed(r, Q)
  BY <1>0, <1>1, FreedNext, ReachNext DEF Freed
<1>2. CASE ~Freed(r, Q)
  <2>1. PICK s \in Subs : Ends(Q, s) /\ Owned(r, Q, s)
    BY <1>2 DEF Freeing
  <2>2. CASE Ends(M, s)
    <3>1. Owned(After(r, e1), M, s)
      BY <1>0, <2>1, OwnedNext, ReachNext DEF Owned
    <3>. QED
      BY <2>2, <3>1 DEF Freeing
  <2>3. CASE e \in Of("deleted", s) /\ IsOwned(r, s) /\ \A k \in 1 .. Len(M) : M[k] \in FreeKeeps
    <3>1. IsFree(After(r, e1))
      BY <1>0, <2>3, OwnedNext
    <3>2. Len(M) \in Nat
      BY DEF Headed
    <3>. QED
      BY <2>3, <3>1, <3>2 DEF Freed, Reach
  <2>. QED
    BY <1>2, <2>1, <2>2, <2>3, EndsNext
<1>. QED
  BY <1>1, <1>2

\* ... or stays, to be handled again, and the row has been written, or not.
LEMMA OverAgain ==
  ASSUME NEW r \in Rows, NEW Q, NEW e \in Events, NEW e1 \in Events, NEW M, Headed(Q, e, M), Same(e, e1),
         NEW Q1, Headed(Q1, e1, M), NEW r1 \in {r, After(r, e1)},
         NEW st, NEW pr, \A s \in Subs : ~Alive(st, s), e1.type = "fetch" => Current(st, pr, e1),
         Freed(r, Q) \/ Freeing(r, Q)
  PROVE  Freed(r1, Q1) \/ Freeing(r1, Q1)
<1>0. /\ e \in FreeMakes => e1 \in FreeMakes
      /\ e \in FreeKeeps => e1 \in FreeKeeps
      /\ \A s \in Subs : /\ e \in OwnedMakes(s) => e1 \in OwnedMakes(s)
                         /\ e \in OwnedKeeps(s) => e1 \in OwnedKeeps(s)
                         /\ e \in Of("deleted", s) => e1 \in Of("deleted", s)
  BY DEF Same, FreeMakes, FreeKeeps, Ended, Every, OwnedMakes, OwnedKeeps, Of
<1>1. CASE Freed(r, Q)
  <2>1. IsFree(r) /\ e \in FreeKeeps => IsFree(r1)
    BY <1>0, FreedNext
  <2>. QED
    BY <1>0, <1>1, <2>1, ReachAgain DEF Freed
<1>2. CASE Freeing(r, Q)
  <2>1. PICK s \in Subs : Ends(Q, s) /\ Owned(r, Q, s)
    BY <1>2 DEF Freeing
  <2>2. IsOwned(r, s) /\ e \in OwnedKeeps(s) => IsOwned(r1, s)
    BY <1>0, OwnedNext
  <2>3. Owned(r1, Q1, s)
    BY <1>0, <2>1, <2>2, ReachAgain DEF Owned
  <2>4. Ends(Q1, s)
    BY <1>0, <2>1, ReachAgain DEF Ends
  <2>. QED
    BY <2>3, <2>4 DEF Freeing
<1>. QED
  BY <1>1, <1>2

LEMMA HandledNext ==
  ASSUME NEW r \in Rows, NEW Q, NEW e \in Events, NEW e1 \in Events, NEW M, Headed(Q, e, M), Same(e, e1),
         NEW st, NEW pr, e1.type = "fetch" => Current(st, pr, e1), Follows(st, pr, r, Q)
  PROVE  Follows(st, pr, After(r, e1), M)
<1>1. ASSUME NEW s \in Subs, Alive(st, s) PROVE Paid(After(r, e1), M, s)
  <2>1. /\ e \in Synchronised(s, "active") => e1 \in Synchronised(s, "active")
        /\ e \in PaidKeeps(s) => e1 \in PaidKeeps(s)
    BY DEF Same, PaidKeeps, Synchronised, Of, EndOfOthers, Every
  <2>. QED
    BY <1>1, <2>1, PaidNext, ReachNext DEF Paid, Follows
<1>2. ASSUME NEW s \in Subs, st[s] = "active" PROVE Active(pr, After(r, e1), M, s)
  <2>1. /\ e \in ActiveMakes(pr, s) => e1 \in ActiveMakes(pr, s)
        /\ e \in ActiveMakes(pr, s) \cup EndOfOthers(s) => e1 \in ActiveMakes(pr, s) \cup EndOfOthers(s)
    BY DEF Same, ActiveMakes, Synchronised, Of, EndOfOthers, Every
  <2>. QED
    BY <1>2, <2>1, ActiveNext, ReachNext DEF Active, Follows
<1>3. ASSUME NEW s \in Subs, st[s] = "past_due" PROVE Late(After(r, e1), M, s)
  <2>1. /\ e \in LateMakes(s) => e1 \in LateMakes(s)
        /\ e \in LateMakes(s) \cup Of("payment_failed", s) \cup EndOfOthers(s)
             => e1 \in LateMakes(s) \cup Of("payment_failed", s) \cup EndOfOthers(s)
    BY DEF Same, LateMakes, Synchronised, Of, EndOfOthers, Every
  <2>. QED
    BY <1>3, <2>1, LateNext, ReachNext DEF Late, Follows
<1>4. ASSUME \A s \in Subs : ~Alive(st, s)
      PROVE  Freed(After(r, e1), M) \/ Freeing(After(r, e1), M)
  BY <1>4, OverNext DEF Follows
<1>. QED
  BY <1>1, <1>2, <1>3, <1>4 DEF Follows

LEMMA HandledAgain ==
  ASSUME NEW r \in Rows, NEW Q, NEW e \in Events, NEW e1 \in Events, NEW M, Headed(Q, e, M), Same(e, e1),
         NEW Q1, Headed(Q1, e1, M), NEW r1 \in {r, After(r, e1)},
         NEW st, NEW pr, e1.type = "fetch" => Current(st, pr, e1), Follows(st, pr, r, Q)
  PROVE  Follows(st, pr, r1, Q1)
<1>1. ASSUME NEW s \in Subs, Alive(st, s) PROVE Paid(r1, Q1, s)
  <2>1. /\ e \in Synchronised(s, "active") => e1 \in Synchronised(s, "active")
        /\ e \in PaidKeeps(s) => e1 \in PaidKeeps(s)
    BY DEF Same, PaidKeeps, Synchronised, Of, EndOfOthers, Every
  <2>2. IsPaid(r, s) /\ e \in PaidKeeps(s) => IsPaid(r1, s)
    BY <1>1, <2>1, PaidNext
  <2>. QED
    BY <1>1, <2>1, <2>2, ReachAgain DEF Paid, Follows
<1>2. ASSUME NEW s \in Subs, st[s] = "active" PROVE Active(pr, r1, Q1, s)
  <2>1. /\ e \in ActiveMakes(pr, s) => e1 \in ActiveMakes(pr, s)
        /\ e \in ActiveMakes(pr, s) \cup EndOfOthers(s) => e1 \in ActiveMakes(pr, s) \cup EndOfOthers(s)
    BY DEF Same, ActiveMakes, Synchronised, Of, EndOfOthers, Every
  <2>2. IsActive(pr, r, s) /\ e \in ActiveMakes(pr, s) \cup EndOfOthers(s) => IsActive(pr, r1, s)
    BY <1>2, <2>1, ActiveNext
  <2>. QED
    BY <1>2, <2>1, <2>2, ReachAgain DEF Active, Follows
<1>3. ASSUME NEW s \in Subs, st[s] = "past_due" PROVE Late(r1, Q1, s)
  <2>1. /\ e \in LateMakes(s) => e1 \in LateMakes(s)
        /\ e \in LateMakes(s) \cup Of("payment_failed", s) \cup EndOfOthers(s)
             => e1 \in LateMakes(s) \cup Of("payment_failed", s) \cup EndOfOthers(s)
    BY DEF Same, LateMakes, Synchronised, Of, EndOfOthers, Every
  <2>2. IsLate(r, s) /\ e \in LateMakes(s) \cup Of("payment_failed", s) \cup EndOfOthers(s) => IsLate(r1, s)
    BY <1>3, <2>1, LateNext
  <2>. QED
    BY <1>3, <2>1, <2>2, ReachAgain DEF Late, Follows
<1>4. ASSUME \A s \in Subs : ~Alive(st, s)
      PROVE  Freed(r1, Q1) \/ Freeing(r1, Q1)
  BY <1>4, OverAgain DEF Follows
<1>. QED
  BY <1>1, <1>2, <1>3, <1>4 DEF Follows

\* A page has been told the state of the subscription that the row shows, if that
\* one is live.
LEMMA HandledPage ==
  ASSUME NEW r \in Rows, NEW Q, NEW e \in Events, e.type = "page", NEW st, NEW pr, Current(st, pr, e),
         \A s \in Subs : Alive(st, s) /\ r.sub = s => s = e.sub, Follows(st, pr, r, Q)
  PROVE  Follows(st, pr, After(r, e), Q)
<1>0. /\ e.plan \in PaidPlans /\ e.plan # Free /\ e.sub \in Subs
      /\ e.status = st[e.sub] /\ e.plan = pr[e.sub]
  BY PlansAssumption DEF Events, Current
<1>1. ASSUME NEW s \in Subs, Alive(st, s) PROVE Paid(After(r, e), Q, s)
  <2>1. IsPaid(r, s) => IsPaid(After(r, e), s)
    BY <1>0, <1>1, AfterIs DEF IsPaid, Alive
  <2>. QED
    BY <1>1, <2>1, ReachWeaker DEF Paid, Follows
<1>2. ASSUME NEW s \in Subs, st[s] = "active" PROVE Active(pr, After(r, e), Q, s)
  <2>1. IsActive(pr, r, s) => IsActive(pr, After(r, e), s)
    BY <1>0, <1>2, AfterIs DEF IsActive, Alive
  <2>. QED
    BY <1>2, <2>1, ReachWeaker DEF Active, Follows
<1>3. ASSUME NEW s \in Subs, st[s] = "past_due" PROVE Late(After(r, e), Q, s)
  <2>1. IsLate(r, s) => IsLate(After(r, e), s)
    BY <1>0, <1>3, AfterIs DEF IsLate, Alive
  <2>. QED
    BY <1>3, <2>1, ReachWeaker DEF Late, Follows
<1>4. ASSUME \A s \in Subs : ~Alive(st, s)
      PROVE  Freed(After(r, e), Q) \/ Freeing(After(r, e), Q)
  <2>1. IsFree(After(r, e)) /\ \A s \in Subs : IsOwned(After(r, e), s)
    BY <1>0, <1>4, AfterIs DEF IsFree, IsOwned, Alive
  <2>2. Freed(r, Q) => Freed(After(r, e), Q)
    BY <2>1, ReachWeaker DEF Freed
  <2>3. \A s \in Subs : Owned(r, Q, s) => Owned(After(r, e), Q, s)
    BY <2>1, ReachWeaker DEF Owned
  <2>. QED
    BY <1>4, <2>2, <2>3 DEF Follows, Freeing
<1>. QED
  BY <1>1, <1>2, <1>3, <1>4 DEF Follows

-----------------------------------------------------------------------------
(* Stripe changes *)

OnlyAlive(st, s) == \A t \in Subs : Alive(st, t) => t = s
OneAlive(st) == \A s, t \in Subs : Alive(st, s) /\ Alive(st, t) => s = t

\* s is active, and an event that says so arrives.
LEMMA BecomesActive ==
  ASSUME NEW s \in Subs, NEW st, NEW pr, st[s] = "active", OnlyAlive(st, s),
         NEW r, NEW Q \in Seq(Events), NEW E \in Seq(Events), NEW n \in 1 .. Len(E),
         E[n] \in Synchronised(s, "active"), \A k \in 1 .. Len(E) : E[k] \in ActiveMakes(pr, s)
  PROVE  Follows(st, pr, r, Q \o E)
<1>0. Len(E) \in Nat
  OBVIOUS
<1>1. \A k \in n + 1 .. Len(E) : /\ E[k] \in ActiveMakes(pr, s) \cup EndOfOthers(s)
                                 /\ E[k] \in PaidKeeps(s)
  BY <1>0 DEF ActiveMakes, PaidKeeps
<1>2. Paid(r, Q \o E, s)
  BY <1>1, ReachNew DEF Paid
<1>3. Active(pr, r, Q \o E, s)
  BY <1>1, ReachNew DEF Active
<1>. QED
  BY <1>2, <1>3 DEF Follows, OnlyAlive, Alive

\* s is past due, and the events that say so arrive.
LEMMA BecomesLate ==
  ASSUME NEW s \in Subs, NEW st, NEW pr, st[s] = "past_due", OnlyAlive(st, s),
         NEW r, NEW Q \in Seq(Events), NEW E \in Seq(Events), Len(E) = 2,
         E[1] \in Synchronised(s, "past_due"), E[2] \in Of("payment_failed", s), Paid(r, Q, s)
  PROVE  Follows(st, pr, r, Q \o E)
<1>1. \A k \in 1 .. Len(E) : E[k] \in PaidKeeps(s)
  BY DEF PaidKeeps
<1>2. Paid(r, Q \o E, s)
  BY <1>1, ReachLonger DEF Paid
<1>3. 1 \in 1 .. Len(E) /\ E[1] \in LateMakes(s)
      /\ \A k \in 1 + 1 .. Len(E) : E[k] \in LateMakes(s) \cup Of("payment_failed", s) \cup EndOfOthers(s)
  BY DEF LateMakes
<1>4. Late(r, Q \o E, s)
  BY <1>3, ReachNew DEF Late
<1>. QED
  BY <1>2, <1>4 DEF Follows, OnlyAlive, Alive

\* The last live subscription is given up.
LEMMA BecomesUnpaid ==
  ASSUME NEW st, NEW pr, \A t \in Subs : ~Alive(st, t),
         NEW r, NEW Q \in Seq(Events), NEW E \in Seq(Events), Len(E) = 1, E[1] \in Ended
  PROVE  Follows(st, pr, r, Q \o E)
<1>1. 1 \in 1 .. Len(E) /\ E[1] \in FreeMakes /\ \A k \in 1 + 1 .. Len(E) : E[k] \in FreeKeeps
  BY DEF FreeMakes
<1>2. Freed(r, Q \o E)
  BY <1>1, ReachNew DEF Freed
<1>. QED
  BY <1>2 DEF Follows, Alive

\* The last live subscription is cancelled: the row shows it by the time this
\* event is handled.
LEMMA BecomesCanceled ==
  ASSUME NEW st, NEW pr, \A t \in Subs : ~Alive(st, t), NEW s \in Subs,
         NEW r, NEW Q \in Seq(Events), NEW E \in Seq(Events), Len(E) = 1, E[1] \in Of("deleted", s),
         Paid(r, Q, s)
  PROVE  Follows(st, pr, r, Q \o E)
<1>1. 1 \in 1 .. Len(E) /\ \A k \in 1 + 1 .. Len(E) : E[k] \in FreeKeeps
  OBVIOUS
<1>2. Ends(Q \o E, s)
  BY <1>1, ReachNew DEF Ends
<1>3. Owned(r, Q, s)
  <2>1. IsPaid(r, s) => IsOwned(r, s)
    BY DEF IsPaid, IsOwned
  <2>2. Synchronised(s, "active") \subseteq OwnedMakes(s) /\ PaidKeeps(s) \subseteq OwnedKeeps(s)
    BY DEF Synchronised, OwnedMakes, PaidKeeps, OwnedKeeps, EndOfOthers
  <2>. QED
    BY <2>1, <2>2, ReachWeaker DEF Paid, Owned
<1>4. \A k \in 1 .. Len(E) : E[k] \in OwnedKeeps(s)
  BY DEF OwnedKeeps, Of, Every
<1>5. Owned(r, Q \o E, s)
  BY <1>3, <1>4, ReachLonger DEF Owned
<1>. QED
  BY <1>2, <1>5 DEF Follows, Freeing, Alive

\* What a change of Stripe means for the handlers.
Appended(E) ==
  /\ E \in Seq(Events) /\ mail' = mail \o E
  /\ \A k \in 1 .. Len(E) : E[k].type # "page" /\ stripe'[E[k].sub] # "none"
  /\ UNCHANGED <<row, pc, job, seen>>
  /\ \A s \in Subs : /\ stripe[s] # "none" => stripe'[s] # "none"
                     /\ Alive(stripe', s) => Alive(stripe, s) \/ stripe[s] = "none"
  /\ OneAlive(stripe')
  /\ \A r \in Rows, Q \in Seq(Events) :
       Follows(stripe, price, r, Q) => Follows(stripe', price', r, Q \o E)

\* The events of the change, and what is left to show of it.
Brings(types, s, to, p) ==
  /\ Sent(types, s) \in Seq(Events) /\ Len(Sent(types, s)) = Len(types)
  /\ \A k \in 1 .. Len(types) :
       /\ Sent(types, s)[k] \in Events /\ Sent(types, s)[k].type = types[k]
       /\ Sent(types, s)[k].sub = s /\ Sent(types, s)[k].status = to /\ Sent(types, s)[k].plan = p
  /\ stripe'[s] = to /\ price'[s] = p /\ OnlyAlive(stripe', s)
  /\ (\A r \in Rows, Q \in Seq(Events) :
       Follows(stripe, price, r, Q) => Follows(stripe', price', r, Q \o Sent(types, s)))
       => Appended(Sent(types, s))

LEMMA ChangeIs ==
  ASSUME Typed, NEW s \in Subs, NEW from, NEW to \in Statuses \ {"none"}, NEW p \in PaidPlans,
         NEW types \in Seq({"fetch", "sync", "deleted", "payment_failed"}), Change(s, from, to, p, types),
         Alive(stripe, s) \/ stripe[s] = "none",
         \A t \in Subs \ {s} : ~Alive(stripe, t)
  PROVE  Brings(types, s, to, p)
<1> DEFINE E == Sent(types, s)
<1>1. /\ stripe[s] = from /\ stripe'[s] = to /\ price'[s] = p
      /\ \A t \in Subs \ {s} : stripe'[t] = stripe[t] /\ price'[t] = price[t]
      /\ E \in Seq(Events) /\ mail' = mail \o E
      /\ UNCHANGED <<row, pc, job, seen>>
  <2>1. to \in Statuses
    OBVIOUS
  <2>. QED
    BY <2>1, ChangeTypes
<1>2. DOMAIN types = 1 .. Len(types) /\ Len(types) \in Nat /\ Len(E) = Len(types)
  BY DEF Sent
<1>3. \A k \in 1 .. Len(types) : E[k] = Event(types[k], s)
  BY <1>2 DEF Sent
<1>4. \A k \in 1 .. Len(types) : E[k] \in Events
  BY <1>1, <1>2
<1>. HIDE DEF E
<1>5. \A k \in 1 .. Len(types) :
         E[k] \in Events /\ E[k].type = types[k] /\ E[k].sub = s /\ E[k].status = to /\ E[k].plan = p
  <2>1. \A type : Event(type, s) = [type |-> type, sub |-> s, status |-> to, plan |-> p]
    BY <1>1 DEF Event
  <2>. QED
    BY <1>3, <1>4, <2>1
<1>6. OnlyAlive(stripe', s)
  BY <1>1 DEF OnlyAlive, Alive
<1>7. \A t \in Subs : /\ stripe[t] # "none" => stripe'[t] # "none"
                      /\ Alive(stripe', t) => Alive(stripe, t) \/ stripe[t] = "none"
  BY <1>1 DEF Alive
<1>8. \A k \in 1 .. Len(E) : E[k].type # "page" /\ stripe'[E[k].sub] # "none"
  <2>1. \A k \in 1 .. Len(types) : types[k] \in {"fetch", "sync", "deleted", "payment_failed"}
    OBVIOUS
  <2>2. SUFFICES ASSUME NEW k \in 1 .. Len(types) PROVE E[k].type # "page" /\ stripe'[E[k].sub] # "none"
    BY <1>2
  <2>3. E[k].type = types[k] /\ E[k].sub = s
    BY <1>5
  <2>. QED
    BY <1>1, <2>1, <2>3
<1>9. (\A r \in Rows, Q \in Seq(Events) :
         Follows(stripe, price, r, Q) => Follows(stripe', price', r, Q \o E)) => Appended(E)
  BY <1>1, <1>6, <1>7, <1>8 DEF Appended, OnlyAlive, OneAlive
<1>. QED
  BY <1>1, <1>2, <1>5, <1>6, <1>9 DEF E, Brings

LEMMA StripeAppends ==
  ASSUME Typed, OneAlive(stripe), Stripe
  PROVE  \E E : Appended(E)
<1>0. /\ <<"sync">> \in Seq({"fetch", "sync", "deleted", "payment_failed"})
      /\ <<"deleted">> \in Seq({"fetch", "sync", "deleted", "payment_failed"})
      /\ <<"fetch", "sync">> \in Seq({"fetch", "sync", "deleted", "payment_failed"})
      /\ <<"sync", "fetch">> \in Seq({"fetch", "sync", "deleted", "payment_failed"})
      /\ <<"sync", "payment_failed">> \in Seq({"fetch", "sync", "deleted", "payment_failed"})
      /\ {"active", "past_due", "unpaid", "canceled"} \subseteq Statuses \ {"none"}
      /\ \A s \in Subs : price[s] \in PaidPlans
  BY DEF Statuses, Typed, TypeOK
<1>1. ASSUME NEW s \in Subs, NEW p \in PaidPlans, Subscribe(s, p) PROVE \E E : Appended(E)
  <2> DEFINE E == Sent(<<"fetch", "sync">>, s)
  <2>1. /\ Change(s, "none", "active", p, <<"fetch", "sync">>)
        /\ stripe[s] = "none" /\ \A t \in Subs \ {s} : ~Alive(stripe, t)
    BY <1>1 DEF Subscribe, Live, Alive, Change
  <2>2. /\ E \in Seq(Events) /\ Len(E) = 2
        /\ E[1] \in Events /\ E[1].type = "fetch" /\ E[1].sub = s
        /\ E[2] \in Events /\ E[2].type = "sync" /\ E[2].sub = s /\ E[2].status = "active" /\ E[2].plan = p
        /\ stripe'[s] = "active" /\ price'[s] = p /\ OnlyAlive(stripe', s)
        /\ (\A r \in Rows, Q \in Seq(Events) :
              Follows(stripe, price, r, Q) => Follows(stripe', price', r, Q \o E)) => Appended(E)
    <3>1. Brings(<<"fetch", "sync">>, s, "active", p)
      BY <1>0, <2>1, ChangeIs
    <3>. QED
      BY <3>1 DEF Brings, E
  <2>. HIDE DEF E
  <2>3. /\ E[2] \in Synchronised(s, "active") /\ 2 \in 1 .. Len(E)
        /\ \A k \in 1 .. Len(E) : E[k] \in ActiveMakes(price', s)
    BY <2>2 DEF Synchronised, Of, ActiveMakes
  <2>4. \A r \in Rows, Q \in Seq(Events) : Follows(stripe', price', r, Q \o E)
    BY <2>2, <2>3, BecomesActive
  <2>. QED
    BY <2>2, <2>4
<1>2. ASSUME NEW s \in Subs, NEW p \in PaidPlans, ChangePlan(s, p) PROVE \E E : Appended(E)
  <2> DEFINE E == Sent(<<"sync">>, s)
  <2>1. /\ Change(s, "active", "active", p, <<"sync">>)
        /\ Alive(stripe, s) /\ \A t \in Subs \ {s} : ~Alive(stripe, t)
    BY <1>2 DEF ChangePlan, Alive, Change, OneAlive
  <2>2. /\ E \in Seq(Events) /\ Len(E) = 1
        /\ E[1] \in Events /\ E[1].type = "sync" /\ E[1].sub = s /\ E[1].status = "active" /\ E[1].plan = p
        /\ stripe'[s] = "active" /\ price'[s] = p /\ OnlyAlive(stripe', s)
        /\ (\A r \in Rows, Q \in Seq(Events) :
              Follows(stripe, price, r, Q) => Follows(stripe', price', r, Q \o E)) => Appended(E)
    <3>1. Brings(<<"sync">>, s, "active", p)
      BY <1>0, <2>1, ChangeIs
    <3>. QED
      BY <3>1 DEF Brings, E
  <2>. HIDE DEF E
  <2>3. /\ E[1] \in Synchronised(s, "active") /\ 1 \in 1 .. Len(E)
        /\ \A k \in 1 .. Len(E) : E[k] \in ActiveMakes(price', s)
    BY <2>2 DEF Synchronised, Of, ActiveMakes
  <2>4. \A r \in Rows, Q \in Seq(Events) : Follows(stripe', price', r, Q \o E)
    BY <2>2, <2>3, BecomesActive
  <2>. QED
    BY <2>2, <2>4
<1>3. ASSUME NEW s \in Subs, PaymentFails(s) PROVE \E E : Appended(E)
  <2> DEFINE E == Sent(<<"sync", "payment_failed">>, s)
  <2>1. /\ Change(s, "active", "past_due", price[s], <<"sync", "payment_failed">>)
        /\ Alive(stripe, s) /\ \A t \in Subs \ {s} : ~Alive(stripe, t)
    BY <1>3 DEF PaymentFails, Alive, Change, OneAlive
  <2>2. /\ E \in Seq(Events) /\ Len(E) = 2
        /\ E[1] \in Events /\ E[1].type = "sync" /\ E[1].sub = s /\ E[1].status = "past_due"
        /\ E[2] \in Events /\ E[2].type = "payment_failed" /\ E[2].sub = s
        /\ stripe'[s] = "past_due" /\ OnlyAlive(stripe', s)
        /\ (\A r \in Rows, Q \in Seq(Events) :
              Follows(stripe, price, r, Q) => Follows(stripe', price', r, Q \o E)) => Appended(E)
    <3>1. Brings(<<"sync", "payment_failed">>, s, "past_due", price[s])
      BY <1>0, <2>1, ChangeIs
    <3>. QED
      BY <3>1 DEF Brings, E
  <2>. HIDE DEF E
  <2>3. E[1] \in Synchronised(s, "past_due") /\ E[2] \in Of("payment_failed", s)
    BY <2>2 DEF Synchronised, Of
  <2>4. \A r \in Rows, Q \in Seq(Events) :
          Follows(stripe, price, r, Q) => Follows(stripe', price', r, Q \o E)
    <3>1. \A r \in Rows, Q \in Seq(Events) : Follows(stripe, price, r, Q) => Paid(r, Q, s)
      BY <2>1 DEF Follows
    <3>. QED
      BY <2>2, <2>3, <3>1, BecomesLate
  <2>. QED
    BY <2>2, <2>4
<1>4. ASSUME NEW s \in Subs, PaymentRecovers(s) PROVE \E E : Appended(E)
  <2> DEFINE E == Sent(<<"sync", "fetch">>, s)
  <2>1. /\ Change(s, "past_due", "active", price[s], <<"sync", "fetch">>)
        /\ Alive(stripe, s) /\ \A t \in Subs \ {s} : ~Alive(stripe, t)
    BY <1>4 DEF PaymentRecovers, Alive, Change, OneAlive
  <2>2. /\ E \in Seq(Events) /\ Len(E) = 2
        /\ E[1] \in Events /\ E[1].type = "sync" /\ E[1].sub = s /\ E[1].status = "active" /\ E[1].plan = price'[s]
        /\ E[2] \in Events /\ E[2].type = "fetch" /\ E[2].sub = s
        /\ stripe'[s] = "active" /\ OnlyAlive(stripe', s)
        /\ (\A r \in Rows, Q \in Seq(Events) :
              Follows(stripe, price, r, Q) => Follows(stripe', price', r, Q \o E)) => Appended(E)
    <3>1. Brings(<<"sync", "fetch">>, s, "active", price[s])
      BY <1>0, <2>1, ChangeIs
    <3>. QED
      BY <3>1 DEF Brings, E
  <2>. HIDE DEF E
  <2>3. /\ E[1] \in Synchronised(s, "active") /\ 1 \in 1 .. Len(E)
        /\ \A k \in 1 .. Len(E) : E[k] \in ActiveMakes(price', s)
    BY <2>2 DEF Synchronised, Of, ActiveMakes
  <2>4. \A r \in Rows, Q \in Seq(Events) : Follows(stripe', price', r, Q \o E)
    BY <2>2, <2>3, BecomesActive
  <2>. QED
    BY <2>2, <2>4
<1>5. ASSUME NEW s \in Subs, GiveUp(s) PROVE \E E : Appended(E)
  <2> DEFINE E == Sent(<<"sync">>, s)
  <2>1. /\ Change(s, "past_due", "unpaid", price[s], <<"sync">>)
        /\ Alive(stripe, s) /\ \A t \in Subs \ {s} : ~Alive(stripe, t)
    BY <1>5 DEF GiveUp, Alive, Change, OneAlive
  <2>2. /\ E \in Seq(Events) /\ Len(E) = 1
        /\ E[1] \in Events /\ E[1].type = "sync" /\ E[1].status = "unpaid"
        /\ stripe'[s] = "unpaid" /\ OnlyAlive(stripe', s)
        /\ (\A r \in Rows, Q \in Seq(Events) :
              Follows(stripe, price, r, Q) => Follows(stripe', price', r, Q \o E)) => Appended(E)
    <3>1. Brings(<<"sync">>, s, "unpaid", price[s])
      BY <1>0, <2>1, ChangeIs
    <3>. QED
      BY <3>1 DEF Brings, E
  <2>. HIDE DEF E
  <2>3. E[1] \in Ended /\ \A t \in Subs : ~Alive(stripe', t)
    BY <2>2 DEF Ended, Every, OnlyAlive, Alive
  <2>4. \A r \in Rows, Q \in Seq(Events) : Follows(stripe', price', r, Q \o E)
    BY <2>2, <2>3, BecomesUnpaid
  <2>. QED
    BY <2>2, <2>4
<1>6. ASSUME NEW s \in Subs, Cancel(s) PROVE \E E : Appended(E)
  <2> DEFINE E == Sent(<<"deleted">>, s)
  <2>1. /\ Change(s, stripe[s], "canceled", price[s], <<"deleted">>)
        /\ Alive(stripe, s) /\ \A t \in Subs \ {s} : ~Alive(stripe, t)
    BY <1>6 DEF Cancel, Live, Alive, OneAlive
  <2>2. /\ E \in Seq(Events) /\ Len(E) = 1
        /\ E[1] \in Events /\ E[1].type = "deleted" /\ E[1].sub = s
        /\ stripe'[s] = "canceled" /\ OnlyAlive(stripe', s)
        /\ (\A r \in Rows, Q \in Seq(Events) :
              Follows(stripe, price, r, Q) => Follows(stripe', price', r, Q \o E)) => Appended(E)
    <3>1. Brings(<<"deleted">>, s, "canceled", price[s])
      BY <1>0, <2>1, ChangeIs
    <3>. QED
      BY <3>1 DEF Brings, E
  <2>. HIDE DEF E
  <2>3. E[1] \in Of("deleted", s) /\ \A t \in Subs : ~Alive(stripe', t)
    BY <2>2 DEF Of, OnlyAlive, Alive
  <2>4. \A r \in Rows, Q \in Seq(Events) :
          Follows(stripe, price, r, Q) => Follows(stripe', price', r, Q \o E)
    <3>1. \A r \in Rows, Q \in Seq(Events) : Follows(stripe, price, r, Q) => Paid(r, Q, s)
      BY <2>1 DEF Follows
    <3>. QED
      BY <2>2, <2>3, <3>1, BecomesCanceled
  <2>. QED
    BY <2>2, <2>4
<1>. QED
  BY <1>1, <1>2, <1>3, <1>4, <1>5, <1>6 DEF Stripe

-----------------------------------------------------------------------------
(* The invariant *)

\* The events that are left if w does not write: its own comes back.
Queue(w) == IF job[w].type = "page" THEN mail ELSE <<job[w]>> \o mail

Delivered == \A k \in 1 .. Len(mail) : mail[k].type # "page" /\ stripe[mail[k].sub] # "none"
Begun == /\ row.sub \in Subs => stripe[row.sub] # "none"
         /\ \A w \in Workers : pc[w] # "idle" => stripe[job[w].sub] # "none"

\* A worker has read the row that it will write, in time with the events.
Busy(w) ==
  /\ seen[w] = row
  /\ Follows(stripe, price, row, Queue(w))
  /\ pc[w] = "writing" => /\ Follows(stripe, price, After(row, job[w]), mail)
                          /\ Follows(stripe, price, After(row, job[w]), Queue(w))
  /\ pc[w] = "fetching" =>
       /\ job[w].type \in {"fetch", "page"}
       /\ job[w].type = "page" => \A s \in Subs : Alive(stripe, s) /\ row.sub = s => s = job[w].sub

InLine ==
  /\ Typed /\ OneAlive(stripe) /\ Delivered /\ Begun
  /\ \A v, w \in Workers : pc[v] # "idle" /\ pc[w] # "idle" => v = w
  /\ (\A w \in Workers : pc[w] = "idle") => Follows(stripe, price, row, mail)
  /\ \A w \in Workers : pc[w] # "idle" => Busy(w)

LEMMA QueueIs ==
  ASSUME Typed, NEW w \in Workers, pc[w] # "idle"
  PROVE  /\ mail \in Seq(Events) /\ job[w] \in Events /\ row \in Rows /\ Queue(w) \in Seq(Events)
         /\ job[w].type # "page" => Queue(w) = <<job[w]>> \o mail /\ Headed(Queue(w), job[w], mail)
         /\ job[w].type = "page" => Queue(w) = mail
BY HeadedIs DEF Typed, TypeOK, Queue

LEMMA WrittenIs ==
  ASSUME NEW w \in Workers, seen[w] = row
  PROVE  Written(seen[w], job[w]) = After(row, job[w])
BY DEF Written, After

LEMMA AfterSub ==
  ASSUME NEW r \in Rows, NEW e \in Events
  PROVE  After(r, e) \in Rows /\ After(r, e).sub \in {r.sub, e.sub, NoSub}
BY AfterIs DEF Events

LEMMA InLineStripe ==
  ASSUME InLine, Stripe
  PROVE  InLine'
<1>1. PICK E : Appended(E)
  BY StripeAppends DEF InLine
<1>2. /\ E \in Seq(Events) /\ mail' = mail \o E /\ UNCHANGED <<row, pc, job, seen>>
      /\ \A r \in Rows, Q \in Seq(Events) :
           Follows(stripe, price, r, Q) => Follows(stripe', price', r, Q \o E)
      /\ \A s \in Subs : /\ stripe[s] # "none" => stripe'[s] # "none"
                         /\ Alive(stripe', s) => Alive(stripe, s) \/ stripe[s] = "none"
      /\ OneAlive(stripe')
      /\ \A k \in 1 .. Len(E) : E[k].type # "page" /\ stripe'[E[k].sub] # "none"
  BY <1>1 DEF Appended
<1>3. Typed' /\ mail \in Seq(Events) /\ row \in Rows
  BY StripeTypes DEF InLine, Typed, TypeOK
<1>4. Delivered'
  <2>1. SUFFICES ASSUME NEW k \in 1 .. Len(mail \o E)
                 PROVE  (mail \o E)[k].type # "page" /\ stripe'[(mail \o E)[k].sub] # "none"
    BY <1>2 DEF Delivered
  <2>2. CASE k \in 1 .. Len(mail)
    <3>1. (mail \o E)[k] = mail[k] /\ mail[k] \in Events
      BY <1>2, <1>3, <2>2
    <3>2. mail[k].sub \in Subs
      BY <3>1 DEF Events
    <3>. QED
      BY <1>2, <2>2, <3>1, <3>2 DEF InLine, Delivered
  <2>3. CASE k \notin 1 .. Len(mail)
    <3>1. k - Len(mail) \in 1 .. Len(E) /\ (mail \o E)[k] = E[k - Len(mail)]
      BY <1>2, <1>3, <2>3
    <3>. QED
      BY <1>2, <3>1
  <2>. QED
    BY <2>2, <2>3
<1>5. Begun'
  <2>1. \A w \in Workers : pc[w] # "idle" => job[w].sub \in Subs
    BY QueueIs DEF InLine, Events
  <2>. QED
    BY <1>2, <2>1 DEF InLine, Begun
<1>6. (\A w \in Workers : pc[w] = "idle") => Follows(stripe', price', row, mail')
  BY <1>2, <1>3 DEF InLine
<1>7. ASSUME NEW w \in Workers, pc[w] # "idle" PROVE Busy(w)'
  <2>1. /\ Busy(w) /\ job[w] \in Events /\ Queue(w) \in Seq(Events) /\ After(row, job[w]) \in Rows
        /\ row.sub \in Subs => stripe[row.sub] # "none"
    BY <1>7, QueueIs, AfterSub DEF InLine, Begun
  <2>2. Queue(w)' = Queue(w) \o E
    <3>1. CASE job[w].type = "page"
      BY <1>2, <3>1 DEF Queue
    <3>2. CASE job[w].type # "page"
      <4>1. <<job[w]>> \o (mail \o E) = (<<job[w]>> \o mail) \o E
        BY <1>2, <1>3, <2>1
      <4>. QED
        BY <1>2, <3>2, <4>1 DEF Queue
    <3>. QED
      BY <3>1, <3>2
  <2>3. Follows(stripe', price', row, Queue(w)')
    BY <1>2, <1>3, <2>1, <2>2 DEF Busy
  <2>4. pc[w] = "writing" => /\ Follows(stripe', price', After(row, job[w]), mail')
                             /\ Follows(stripe', price', After(row, job[w]), Queue(w)')
    BY <1>2, <1>3, <2>1, <2>2 DEF Busy
  <2>5. \A s \in Subs : Alive(stripe', s) /\ row.sub = s => Alive(stripe, s)
    BY <1>2, <2>1
  <2>. QED
    BY <1>2, <2>1, <2>3, <2>4, <2>5 DEF Busy, After, Obsolete, Synced, Unsubscribed
<1>. QED
  BY <1>2, <1>3, <1>4, <1>5, <1>6, <1>7 DEF InLine

\* A worker that was idle, as all were, begins with e: an event that leaves the
\* mail, or a page.
LEMMA InLineRead ==
  ASSUME Allowed = {}, InLine, NEW w \in Workers, NEW e \in Events, Read(w, e), Typed',
         stripe[e.sub] # "none", Delivered',
         \/ e.type # "page" /\ mail = <<e>> \o mail'
         \/ e.type = "page" /\ Alive(stripe, e.sub) /\ mail' = mail
  PROVE  InLine'
<1>1. /\ \A v \in Workers : pc[v] = "idle"
      /\ seen' = [seen EXCEPT ![w] = row] /\ job' = [job EXCEPT ![w] = e]
      /\ pc' = [pc EXCEPT ![w] = IF e.type \in {"fetch", "page"} THEN "fetching" ELSE "writing"]
      /\ UNCHANGED <<stripe, price, row>>
  BY DEF Read
<1>2. /\ seen'[w] = row /\ job'[w] = e
      /\ pc'[w] = (IF e.type \in {"fetch", "page"} THEN "fetching" ELSE "writing")
      /\ \A v \in Workers \ {w} : pc'[v] = "idle"
  BY <1>1 DEF InLine, Typed, TypeOK, Shaped
<1>3. row \in Rows /\ mail \in Seq(Events) /\ mail' \in Seq(Events) /\ Follows(stripe, price, row, mail)
  BY <1>1 DEF InLine, Typed, TypeOK
<1>4. Queue(w)' = mail
  BY <1>2 DEF Queue
<1>5. e.type # "page" => Headed(mail, e, mail')
  BY <1>3, HeadedIs
<1>6. pc'[w] = "writing" => /\ Follows(stripe, price, After(row, e), mail')
                            /\ Follows(stripe, price, After(row, e), mail)
  <2>1. CASE e.type \in {"fetch", "page"}
    BY <1>2, <2>1
  <2>2. CASE e.type \notin {"fetch", "page"}
    <3>1. Follows(stripe, price, After(row, e), mail')
      BY <1>3, <1>5, <2>2, HandledNext DEF Same
    <3>2. Follows(stripe, price, After(row, e), mail)
      BY <1>3, <1>5, <2>2, HandledAgain DEF Same
    <3>. QED
      BY <3>1, <3>2
  <2>. QED
    BY <2>1, <2>2
<1>7. e.type = "page" => \A s \in Subs : Alive(stripe, s) /\ row.sub = s => s = e.sub
  <2>1. e.sub \in Subs
    BY DEF Events
  <2>. QED
    BY <2>1 DEF InLine, OneAlive
<1>8. pc'[w] = "fetching" => e.type \in {"fetch", "page"}
  BY <1>2
<1>9. After(row', job'[w]) = After(row, e)
  BY <1>1, <1>2
<1>10. Busy(w)'
  BY <1>1, <1>2, <1>3, <1>4, <1>6, <1>7, <1>8, <1>9 DEF Busy
<1>11. Begun'
  BY <1>1, <1>2 DEF InLine, Begun
<1>12. pc'[w] # "idle"
  BY <1>2
<1>. QED
  BY <1>1, <1>2, <1>10, <1>11, <1>12 DEF InLine

LEMMA InLineReceive ==
  ASSUME Allowed = {}, InLine, Typed', NEW w \in Workers, NEW i \in DOMAIN mail, Receive(w, i)
  PROVE  InLine'
<1>1. i = 1 /\ Read(w, mail[1]) /\ mail' = RemoveAt(mail, 1) /\ mail \in Seq(Events) /\ Len(mail) > 0
  BY DEF Receive, InLine, Typed, TypeOK
<1>2. /\ mail' \in Seq(Events) /\ mail[1] \in Events
      /\ Headed(mail, mail[1], mail') /\ mail = <<mail[1]>> \o mail'
  BY <1>1, FirstLeaves
<1>3. mail[1].type # "page" /\ stripe[mail[1].sub] # "none"
  BY <1>1 DEF InLine, Delivered
<1>4. Delivered'
  <2>1. Len(mail') \in Nat /\ \A k \in 1 .. Len(mail') : k + 1 \in 1 .. Len(mail) /\ mail'[k] = mail[k + 1]
    BY <1>1, <1>2 DEF Headed
  <2>2. UNCHANGED stripe
    BY <1>1 DEF Read
  <2>. QED
    BY <2>1, <2>2 DEF InLine, Delivered
<1>. QED
  BY <1>1, <1>2, <1>3, <1>4, InLineRead

LEMMA InLineOpen ==
  ASSUME Allowed = {}, InLine, Typed', NEW w \in Workers, NEW s \in Subs, OpenSuccessPage(w, s)
  PROVE  InLine'
<1> DEFINE e == [type |-> "page", sub |-> s, status |-> stripe[s], plan |-> price[s]]
<1>1. e \in Events /\ e.type = "page" /\ e.sub = s
  BY DEF InLine, Typed, TypeOK, Events
<1>2. Read(w, e) /\ mail' = mail /\ stripe[s] # "none" /\ Alive(stripe, s)
  BY DEF OpenSuccessPage, Live, Alive
<1>. HIDE DEF e
<1>3. Delivered'
  BY <1>2 DEF InLine, Delivered, Read
<1>. QED
  BY <1>1, <1>2, <1>3, InLineRead

LEMMA InLineFetch ==
  ASSUME InLine, NEW w \in Workers, Fetch(w)
  PROVE  InLine'
<1>1. /\ Typed' /\ job[w] \in Events /\ job'[w] \in Events
      /\ job'[w].type = job[w].type /\ job'[w].sub = job[w].sub
      /\ job'[w].status = stripe[job[w].sub] /\ job'[w].plan = price[job[w].sub]
      /\ \A v \in Workers \ {w} : job'[v] = job[v] /\ pc'[v] = pc[v]
      /\ pc[w] = "fetching" /\ pc'[w] = "writing"
      /\ UNCHANGED <<stripe, price, mail, row, seen>>
  BY FetchIs DEF InLine
<1>2. Busy(w) /\ job[w].type \in {"fetch", "page"} /\ Follows(stripe, price, row, Queue(w))
      /\ row \in Rows /\ mail \in Seq(Events) /\ \A v \in Workers \ {w} : pc[v] = "idle"
  BY <1>1 DEF InLine, Busy, Typed, TypeOK
<1>3. Current(stripe, price, job'[w])
  BY <1>1 DEF Current
<1>4. CASE job[w].type = "fetch"
  <2>1. Queue(w)' = <<job'[w]>> \o mail /\ Headed(Queue(w), job[w], mail)
    BY <1>1, <1>2, <1>4, QueueIs DEF Queue, InLine
  <2>2. Headed(Queue(w)', job'[w], mail) /\ Same(job[w], job'[w])
    BY <1>1, <1>2, <1>4, <2>1, HeadedIs DEF Same
  <2>3. Follows(stripe, price, After(row, job'[w]), mail)
    BY <1>1, <1>2, <1>3, <2>1, <2>2, HandledNext
  <2>4. Follows(stripe, price, After(row, job'[w]), Queue(w)')
    BY <1>1, <1>2, <1>3, <2>1, <2>2, HandledAgain
  <2>5. Follows(stripe, price, row, Queue(w)')
    BY <1>1, <1>2, <1>3, <2>1, <2>2, HandledAgain
  <2>. QED
    BY <1>1, <1>2, <2>3, <2>4, <2>5 DEF InLine, Busy, Begun, Delivered
<1>5. CASE job[w].type = "page"
  <2>1. Queue(w)' = mail /\ Queue(w) = mail
    BY <1>1, <1>5 DEF Queue
  <2>2. Follows(stripe, price, After(row, job'[w]), mail)
    BY <1>1, <1>2, <1>3, <1>5, <2>1, HandledPage DEF Busy
  <2>. QED
    BY <1>1, <1>2, <2>1, <2>2 DEF InLine, Busy, Begun, Delivered
<1>. QED
  BY <1>2, <1>4, <1>5

\* The worker is done: it has written or not, and its event is left or not.
LEMMA InLineFinish ==
  ASSUME InLine, NEW w \in Workers, pc[w] # "idle", Finish(w), Typed',
         \/ row' = row /\ mail' = Queue(w)
         \/ pc[w] = "writing" /\ row' = Written(seen[w], job[w]) /\ mail' \in {mail, Queue(w)}
  PROVE  InLine'
<1>1. /\ Busy(w) /\ \A v \in Workers \ {w} : pc[v] = "idle"
      /\ stripe[job[w].sub] # "none" /\ (row.sub \in Subs => stripe[row.sub] # "none")
  BY DEF InLine, Begun
<1>2. (\A v \in Workers : pc'[v] = "idle") /\ UNCHANGED <<stripe, price>>
  BY <1>1 DEF InLine, Finish, Typed, TypeOK
<1>3. Written(seen[w], job[w]) = After(row, job[w])
  BY <1>1, WrittenIs DEF Busy
<1>4. Follows(stripe, price, row', mail')
  BY <1>1, <1>3 DEF Busy
<1>5. row'.sub \in Subs => stripe[row'.sub] # "none"
  <2>1. row \in Rows /\ job[w] \in Events /\ NoSub \notin Subs
    BY QueueIs, PlansAssumption DEF InLine
  <2>. QED
    BY <1>1, <1>3, <2>1, AfterSub
<1>6. Delivered'
  <2>1. CASE mail' = mail
    BY <1>2, <2>1 DEF InLine, Delivered
  <2>2. CASE mail' = <<job[w]>> \o mail /\ job[w].type # "page"
    <3>1. Headed(mail', job[w], mail)
      BY <2>2, QueueIs DEF InLine
    <3>2. \A k \in 1 .. Len(mail') : k = 1 \/ (k - 1 \in 1 .. Len(mail) /\ (k - 1) + 1 = k)
      BY <3>1 DEF Headed
    <3>3. ASSUME NEW k \in 1 .. Len(mail') PROVE mail'[k].type # "page" /\ stripe[mail'[k].sub] # "none"
      <4>1. CASE k = 1
        BY <1>1, <2>2, <3>1, <4>1 DEF Headed
      <4>2. CASE k - 1 \in 1 .. Len(mail) /\ (k - 1) + 1 = k
        <5>1. mail'[k] = mail[k - 1]
          BY <3>1, <4>2 DEF Headed
        <5>. QED
          BY <4>2, <5>1 DEF InLine, Delivered
      <4>. QED
        BY <3>2, <4>1, <4>2
    <3>. QED
      BY <1>2, <3>3 DEF Delivered
  <2>. QED
    BY <2>1, <2>2, QueueIs DEF InLine
<1>. QED
  BY <1>2, <1>4, <1>5, <1>6 DEF InLine, Begun

LEMMA InLineStep ==
  ASSUME Allowed = {}, InLine, [Next]_vars
  PROVE  InLine'
<1>0. Typed'
  BY TypesKept DEF InLine
<1>1. CASE UNCHANGED vars
  BY <1>0, <1>1 DEF vars, InLine, Delivered, Begun, Busy, Queue
<1>2. CASE Stripe
  BY <1>2, InLineStripe
<1>3. ASSUME NEW w \in Workers, NEW i \in DOMAIN mail, Receive(w, i) PROVE InLine'
  BY <1>0, <1>3, InLineReceive
<1>4. ASSUME NEW w \in Workers, Fetch(w) PROVE InLine'
  BY <1>4, InLineFetch
<1>5. ASSUME NEW w \in Workers, Write(w) PROVE InLine'
  BY <1>0, <1>5, InLineFinish DEF Write
<1>6. ASSUME NEW w \in Workers, Fail(w) PROVE InLine'
  <2>1. mail' = Queue(w) /\ Finish(w) /\ pc[w] # "idle"
        /\ (row' = row \/ (pc[w] = "writing" /\ row' = Written(seen[w], job[w])))
    BY <1>6 DEF Fail, Queue
  <2>. QED
    BY <1>0, <2>1, InLineFinish
<1>7. ASSUME NEW w \in Workers, NEW s \in Subs, OpenSuccessPage(w, s) PROVE InLine'
  BY <1>0, <1>7, InLineOpen
<1>. QED
  BY <1>1, <1>2, <1>3, <1>4, <1>5, <1>6, <1>7 DEF Next, Handle

LEMMA InLineInit ==
  ASSUME Init
  PROVE  InLine
<1>1. Typed /\ \A s \in Subs : ~Alive(stripe, s)
  BY TypesInit DEF Init, Alive
<1>2. mail = <<>> /\ Len(mail) = 0 /\ row.plan = Free /\ row.sub = NoSub /\ \A w \in Workers : pc[w] = "idle"
  BY DEF Init
<1>3. Freed(row, mail)
  BY <1>2 DEF Freed, Reach, IsFree
<1>4. Follows(stripe, price, row, mail)
  BY <1>1, <1>3 DEF Follows, Alive
<1>. QED
  BY <1>1, <1>2, <1>4, PlansAssumption DEF InLine, OneAlive, Delivered, Begun

\* With no event left, what the row follows is what it shows.
LEMMA InLineAgrees ==
  ASSUME InLine
  PROVE  Agreement
<1>1. SUFFICES ASSUME Quiet
               PROVE  /\ \A s \in Subs :
                           /\ stripe[s] = "active" => row = [sub |-> s, plan |-> price[s], status |-> "active"]
                           /\ stripe[s] = "past_due" => row.sub = s /\ row.plan # Free /\ row.status = "past_due"
                      /\ (\A s \in Subs : ~Alive(stripe, s)) => row.plan = Free
  BY DEF Agreement, Live, Alive
<1>2. Len(mail) = 0 /\ Follows(stripe, price, row, mail)
  BY <1>1 DEF InLine, Quiet
<1>3. ASSUME NEW s \in Subs, stripe[s] = "active"
      PROVE  row = [sub |-> s, plan |-> price[s], status |-> "active"]
  BY <1>2, <1>3 DEF Follows, Active, Reach, IsActive
<1>4. ASSUME NEW s \in Subs, stripe[s] = "past_due"
      PROVE  row.sub = s /\ row.plan # Free /\ row.status = "past_due"
  BY <1>2, <1>4 DEF Follows, Alive, Paid, Late, Reach, IsPaid, IsLate
<1>5. ASSUME \A s \in Subs : ~Alive(stripe, s)
      PROVE  row.plan = Free
  BY <1>2, <1>5 DEF Follows, Freed, Freeing, Ends, Reach, IsFree
<1>. QED
  BY <1>3, <1>4, <1>5

\* Once every event is handled the row shows the live subscription, or a free plan
\* (Agreement), whatever fails and however often, for any number of
\* subscriptions, plans and undelivered events, when events are handled in order
\* and one at a time.
THEOREM RowAgrees ==
  ASSUME Allowed = {}
  PROVE  Spec => []Agreement
<1>1. Init => InLine
  BY InLineInit
<1>2. InLine /\ [Next]_vars => InLine'
  BY InLineStep
<1>3. InLine => Agreement
  BY InLineAgrees
<1>. QED
  BY <1>1, <1>2, <1>3, PTL DEF Spec

-----------------------------------------------------------------------------
(* What no order of the events can break *)

\* The row names no subscription that Stripe does not have, and shows a paid plan only
\* with the subscription that pays it and a status that allows it.
RowIsCoherent ==
  /\ row.sub # NoSub => stripe[row.sub] # "none"
  /\ row.plan # Free => row.sub # NoSub /\ row.status \in {"active", "past_due"}

\* Events are about subscriptions that have begun.
Known(st, e) == st[e.sub] # "none"
Grounded ==
  /\ RowIsCoherent
  /\ \A i \in DOMAIN mail : Known(stripe, mail[i])
  /\ \A w \in Workers : pc[w] # "idle" => Known(stripe, job[w])

\* What two sequences make together.
LEMMA Joined ==
  ASSUME NEW T, NEW A \in Seq(T), NEW B \in Seq(T)
  PROVE  /\ Len(A) \in Nat /\ Len(B) \in Nat
         /\ DOMAIN (A \o B) = 1 .. Len(A) + Len(B)
         /\ \A k \in 1 .. Len(A) : (A \o B)[k] = A[k]
         /\ \A k \in Len(A) + 1 .. Len(A) + Len(B) :
              k - Len(A) \in 1 .. Len(B) /\ (A \o B)[k] = B[k - Len(A)]
OBVIOUS

LEMMA CoherentWritten ==
  ASSUME Typed, Grounded, NEW w \in Workers, pc[w] # "idle", row' = Written(seen[w], job[w]), stripe' = stripe
  PROVE  RowIsCoherent'
<1>0. /\ seen[w] \in Rows /\ job[w] \in Events /\ row \in Rows /\ Known(stripe, job[w])
      /\ NoSub \notin Subs
  BY PlansAssumption DEF Typed, TypeOK, Grounded
<1>1. CASE job[w].type = "deleted"
  BY <1>0, <1>1 DEF Written, Unsubscribed, Grounded, RowIsCoherent
<1>2. CASE job[w].type = "payment_failed"
  <2>1. row' = [row EXCEPT !.status = "past_due"]
    BY <1>2 DEF Written
  <2>2. row'.sub = row.sub /\ row'.plan = row.plan /\ row'.status = "past_due"
    BY <1>0, <2>1 DEF Rows
  <2>. QED
    BY <1>0, <2>2 DEF Grounded, RowIsCoherent
<1>3. CASE job[w].type \in {"sync", "fetch", "page"}
  <2>1. row' = After(seen[w], job[w])
    BY <1>3 DEF Written, After
  <2>2. /\ row'.sub = job[w].sub /\ row'.status = job[w].status
        /\ job[w].status \notin {"active", "past_due"} => row'.plan = Free
    BY <1>0, <1>3, <2>1, AfterIs
  <2>. QED
    BY <1>0, <2>2 DEF Known, RowIsCoherent, Events
<1>. QED
  BY <1>0, <1>1, <1>2, <1>3 DEF Events

LEMMA GroundedChange ==
  ASSUME Typed, Grounded, NEW s \in Subs, NEW from, NEW to \in Statuses \ {"none"}, NEW p \in PaidPlans,
         NEW types \in Seq({"fetch", "sync", "deleted", "payment_failed"}), Change(s, from, to, p, types)
  PROVE  Grounded'
<1>1. /\ stripe'[s] = to /\ \A t \in Subs \ {s} : stripe'[t] = stripe[t]
      /\ mail' = mail \o Sent(types, s) /\ Sent(types, s) \in Seq(Events) /\ mail \in Seq(Events)
      /\ UNCHANGED <<row, pc, job, seen>>
  BY ChangeTypes DEF Typed, TypeOK
<1>2. \A e \in Events : Known(stripe, e) => Known(stripe', e)
  BY <1>1 DEF Known, Events
<1>3. \A i \in 1 .. Len(Sent(types, s)) : Known(stripe', Sent(types, s)[i])
  <2>1. \A i \in DOMAIN types : Event(types[i], s).sub = s
    BY DEF Event
  <2>. QED
    BY <1>1, <2>1 DEF Sent, Known
<1>4. \A i \in 1 .. Len(mail) : mail[i] \in Events /\ Known(stripe, mail[i])
  BY <1>1 DEF Grounded
<1>5. \A i \in DOMAIN mail' : Known(stripe', mail'[i])
  <2>1. /\ DOMAIN mail' = 1 .. Len(mail) + Len(Sent(types, s))
        /\ Len(mail) \in Nat /\ Len(Sent(types, s)) \in Nat
        /\ \A i \in 1 .. Len(mail) : mail'[i] = mail[i]
        /\ \A i \in Len(mail) + 1 .. Len(mail) + Len(Sent(types, s)) : mail'[i] = Sent(types, s)[i - Len(mail)]
    BY <1>1
  <2>2. ASSUME NEW i \in DOMAIN mail' PROVE Known(stripe', mail'[i])
    <3>1. CASE i <= Len(mail)
      BY <1>2, <1>4, <2>1, <3>1
    <3>2. CASE i > Len(mail)
      <4>1. i - Len(mail) \in 1 .. Len(Sent(types, s)) /\ mail'[i] = Sent(types, s)[i - Len(mail)]
        BY <2>1, <3>2
      <4>. QED
        BY <1>3, <4>1
    <3>. QED
      BY <2>1, <3>1, <3>2
  <2>. QED
    BY <2>2
<1>6. \A w \in Workers : pc[w] # "idle" => Known(stripe', job[w])
  BY <1>2 DEF Grounded, Typed, TypeOK
<1>7. row.sub \in Subs /\ stripe[row.sub] # "none" => stripe'[row.sub] # "none"
  BY <1>1
<1>8. RowIsCoherent'
  BY <1>1, <1>7 DEF Grounded, RowIsCoherent, Typed, TypeOK, Rows
<1>. QED
  BY <1>1, <1>5, <1>6, <1>8 DEF Grounded

LEMMA GroundedStep ==
  ASSUME Typed, Grounded, [Next]_vars
  PROVE  Grounded'
<1>0. /\ mail \in Seq(Events) /\ \A s \in Subs : price[s] \in PaidPlans
      /\ \A i \in 1 .. Len(mail) : mail[i] \in Events /\ Known(stripe, mail[i])
  BY DEF Typed, TypeOK, Grounded
<1>1. CASE UNCHANGED vars
  BY <1>1 DEF vars, Grounded, RowIsCoherent
<1>2. CASE Stripe
  <2>1. /\ <<"sync">> \in Seq({"fetch", "sync", "deleted", "payment_failed"})
        /\ <<"deleted">> \in Seq({"fetch", "sync", "deleted", "payment_failed"})
        /\ <<"fetch", "sync">> \in Seq({"fetch", "sync", "deleted", "payment_failed"})
        /\ <<"sync", "fetch">> \in Seq({"fetch", "sync", "deleted", "payment_failed"})
        /\ <<"sync", "payment_failed">> \in Seq({"fetch", "sync", "deleted", "payment_failed"})
    OBVIOUS
  <2>2. {"active", "past_due", "unpaid", "canceled"} \subseteq Statuses \ {"none"}
    BY DEF Statuses
  <2>. QED
    BY <1>0, <1>2, <2>1, <2>2, GroundedChange
    DEF Stripe, Subscribe, ChangePlan, PaymentFails, PaymentRecovers, GiveUp, Cancel
<1>3. ASSUME NEW w \in Workers, NEW obj \in Events, Read(w, obj), Known(stripe, obj),
             \A i \in DOMAIN mail' : Known(stripe, mail'[i])
      PROVE  Grounded'
  <2>1. /\ UNCHANGED <<stripe, price, row>> /\ job' = [job EXCEPT ![w] = obj]
        /\ \A v \in Workers \ {w} : pc'[v] = pc[v]
    BY <1>3 DEF Read, Typed, TypeOK
  <2>2. job'[w] = obj /\ \A v \in Workers \ {w} : job'[v] = job[v]
    BY <2>1 DEF Typed, Shaped
  <2>3. \A v \in Workers : pc'[v] # "idle" => Known(stripe, job'[v])
    BY <1>3, <2>1, <2>2 DEF Grounded
  <2>. QED
    BY <1>3, <2>1, <2>3 DEF Grounded, RowIsCoherent
<1>4. ASSUME NEW w \in Workers, NEW i \in DOMAIN mail, Receive(w, i) PROVE Grounded'
  <2>1. mail' = SubSeq(mail, 1, i - 1) \o SubSeq(mail, i + 1, Len(mail)) /\ Read(w, mail[i])
    BY <1>4 DEF Receive, RemoveAt
  <2>2. \A k \in DOMAIN mail' : \E n \in 1 .. Len(mail) : mail'[k] = mail[n]
    <3> DEFINE A == SubSeq(mail, 1, i - 1)
               B == SubSeq(mail, i + 1, Len(mail))
    <3>1. Len(mail) \in Nat /\ i \in 1 .. Len(mail)
      BY <1>0
    <3>2. A \in Seq(Events) /\ Len(A) = i - 1 /\ \A k \in 1 .. i - 1 : A[k] = mail[k]
      BY <1>0, <3>1
    <3>3. B \in Seq(Events) /\ Len(B) = Len(mail) - i /\ \A k \in 1 .. Len(mail) - i : B[k] = mail[i + k]
      <4>1. CASE i = Len(mail)
        BY <1>0, <3>1, <4>1
      <4>2. CASE i < Len(mail)
        BY <1>0, <3>1, <4>2
      <4>. QED
        BY <3>1, <4>1, <4>2
    <3>. HIDE DEF A, B
    <3>4. mail' = A \o B
      BY <2>1 DEF A, B
    <3>5. ASSUME NEW k \in DOMAIN mail' PROVE \E n \in 1 .. Len(mail) : mail'[k] = mail[n]
      <4>0. k \in 1 .. Len(A) \/ k \in Len(A) + 1 .. Len(A) + Len(B)
        BY <3>2, <3>3, <3>4, Joined
      <4>1. CASE k \in 1 .. Len(A)
        <5>1. mail'[k] = A[k]
          BY <3>2, <3>3, <3>4, <4>1, Joined
        <5>2. k \in 1 .. i - 1 /\ k \in 1 .. Len(mail)
          BY <3>1, <3>2, <4>1
        <5>. QED
          BY <3>2, <5>1, <5>2
      <4>2. CASE k \in Len(A) + 1 .. Len(A) + Len(B)
        <5>0. k - Len(A) \in 1 .. Len(B) /\ mail'[k] = B[k - Len(A)]
          BY <3>2, <3>3, <3>4, <4>2, Joined
        <5>1. PICK n \in 1 .. Len(B) : mail'[k] = B[n]
          BY <5>0
        <5>2. n \in 1 .. Len(mail) - i /\ i + n \in 1 .. Len(mail)
          BY <3>1, <3>3
        <5>. QED
          BY <3>3, <5>1, <5>2
      <4>. QED
        BY <4>0, <4>1, <4>2
    <3>. QED
      BY <3>5
  <2>3. mail[i] \in Events /\ Known(stripe, mail[i])
    BY <1>0
  <2>. QED
    BY <1>0, <1>3, <2>1, <2>2, <2>3
<1>5. ASSUME NEW w \in Workers, NEW s \in Subs, OpenSuccessPage(w, s) PROVE Grounded'
  <2> DEFINE page == [type |-> "page", sub |-> s, status |-> stripe[s], plan |-> price[s]]
  <2>1. page \in Events /\ page.sub = s
    BY DEF Typed, TypeOK, Events
  <2>2. Read(w, page) /\ stripe[s] # "none" /\ mail' = mail
    BY <1>5 DEF OpenSuccessPage
  <2>. HIDE DEF page
  <2>. QED
    BY <1>0, <1>3, <2>1, <2>2 DEF Known
<1>6. ASSUME NEW w \in Workers, Fetch(w) PROVE Grounded'
  <2>1. /\ job'[w].sub = job[w].sub /\ pc[w] = "fetching" /\ UNCHANGED <<stripe, mail, row>>
        /\ \A v \in Workers \ {w} : job'[v] = job[v] /\ pc'[v] = pc[v]
    BY <1>6, FetchIs
  <2>. QED
    BY <2>1 DEF Grounded, RowIsCoherent, Known
<1>7. ASSUME NEW w \in Workers, Finish(w), pc[w] # "idle", RowIsCoherent',
             \A i \in DOMAIN mail' : Known(stripe, mail'[i])
      PROVE  Grounded'
  BY <1>7 DEF Finish, Grounded, Typed, TypeOK
<1>8. ASSUME NEW w \in Workers, Write(w) PROVE Grounded'
  <2>1. pc[w] # "idle" /\ row' = Written(seen[w], job[w]) /\ Finish(w) /\ UNCHANGED <<mail, stripe>>
    BY <1>8 DEF Write, Finish
  <2>2. RowIsCoherent'
    BY <2>1, CoherentWritten
  <2>. QED
    BY <1>7, <2>1, <2>2 DEF Grounded
<1>9. ASSUME NEW w \in Workers, Fail(w) PROVE Grounded'
  <2>1. /\ pc[w] # "idle" /\ Finish(w) /\ stripe' = stripe
        /\ row' = row \/ row' = Written(seen[w], job[w])
        /\ mail' = mail \/ mail' = <<job[w]>> \o mail
    BY <1>9 DEF Fail, Finish
  <2>2. RowIsCoherent'
    BY <2>1, CoherentWritten DEF Grounded, RowIsCoherent
  <2>3. job[w] \in Events /\ Known(stripe, job[w])
    BY <2>1 DEF Typed, TypeOK, Grounded
  <2>4. \A i \in DOMAIN mail' : Known(stripe, mail'[i])
    <3>1. CASE mail' = mail
      BY <3>1 DEF Grounded
    <3>2. CASE mail' = <<job[w]>> \o mail
      <4>1. /\ DOMAIN mail' = 1 .. Len(mail) + 1 /\ Len(mail) \in Nat /\ mail'[1] = job[w]
            /\ \A k \in 1 .. Len(mail) : mail'[k + 1] = mail[k]
        BY <1>0, <2>3, <3>2
      <4>2. ASSUME NEW i \in DOMAIN mail', i # 1 PROVE Known(stripe, mail'[i])
        <5>1. i - 1 \in 1 .. Len(mail) /\ mail'[(i - 1) + 1] = mail[i - 1] /\ (i - 1) + 1 = i
          BY <4>1, <4>2
        <5>. QED
          BY <1>0, <5>1
      <4>. QED
        BY <2>3, <4>1, <4>2
    <3>. QED
      BY <2>1, <3>1, <3>2
  <2>. QED
    BY <1>7, <2>1, <2>2, <2>4
<1>. QED
  BY <1>1, <1>2, <1>4, <1>5, <1>6, <1>8, <1>9 DEF Next, Handle

\* Whatever the order of the events, the handlers that overlap, the failures and the
\* pages that are opened again, the three columns of the row hang together: a paid plan
\* comes with the subscription it is paid by, one that exists, and with a status that
\* allows it (sync_subscription, handle_subscription_deleted).
THEOREM RowHangsTogether == Spec => []RowIsCoherent
<1>1. Init => Grounded
  BY DEF Init, Grounded, RowIsCoherent
<1>2. Grounded => RowIsCoherent
  BY DEF Grounded
<1>. QED
  BY <1>1, <1>2, TypesInit, TypesKept, GroundedStep, PTL DEF Spec
===============================================================================
