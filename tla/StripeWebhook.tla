---------------------------- MODULE StripeWebhook ----------------------------
(***************************************************************************)
(* Idempotence of Stripe webhooks: stripe_webhook_service.handle_event and *)
(* the table stripe_webhook_events (webapp/db.py). Stripe delivers an      *)
(* event at least once and stops once it has had a 2xx answer; workers of  *)
(* several processes reserve the event, run its handler, then complete or  *)
(* release the reservation; a worker may die at any point. What a handler  *)
(* does to the user is the subject of SubscriptionSync.                    *)
(*                                                                         *)
(* Time is abstracted: Expire(e) is the moment a reservation becomes older *)
(* than STRIPE_WEBHOOK_CLAIM_TIMEOUT_SECONDS.                              *)
(***************************************************************************)
EXTENDS Naturals

CONSTANTS
  Events,     \* Stripe event ids
  Handled,    \* the events whose type is a key of EVENT_HANDLERS
  Workers,    \* request threads of all processes
  MayStall,   \* may a handler outlive the reservation time-out?
  NoEvent     \* the job of an idle worker

ASSUME EventsAssumption == Handled \subseteq Events /\ NoEvent \notin Events
ASSUME StallAssumption == MayStall \in BOOLEAN

VARIABLES
  claim,      \* stripe_webhook_events: no row, reserved, reserved and past the
              \* time-out, or completed_at set
  pc,         \* where each worker is in handle_event
  job,        \* the event it handles
  acked,      \* events Stripe has had a 2xx answer for
  applied,    \* history: events whose handler has had its effect
  halfway     \* history: events whose handler had its effect in a run that did
              \* not get to record it

vars == <<claim, pc, job, acked, applied, halfway>>

Busy(w) == pc[w] \in {"running", "ran", "raised"}
Handling(e) == \E w \in Workers : Busy(w) /\ job[w] = e

TypeOK ==
  /\ claim \in [Events -> {"absent", "reserved", "stale", "completed"}]
  /\ pc \in [Workers -> {"idle", "running", "ran", "raised"}]
  /\ job \in [Workers -> Events \cup {NoEvent}]
  /\ \A w \in Workers : job[w] = NoEvent <=> pc[w] = "idle"
  /\ acked \subseteq Events
  /\ applied \subseteq Events
  /\ halfway \subseteq applied

Init ==
  /\ claim = [e \in Events |-> "absent"]
  /\ pc = [w \in Workers |-> "idle"]
  /\ job = [w \in Workers |-> NoEvent]
  /\ acked = {}
  /\ applied = {}
  /\ halfway = {}

Goto(w, from, to) == pc[w] = from /\ pc' = [pc EXCEPT ![w] = to]
LeaveWithJob(w, from) == Goto(w, from, "idle") /\ UNCHANGED job  \* mutant
Leave(w, from) == Goto(w, from, "idle") /\ job' = [job EXCEPT ![w] = NoEvent]

\* A 2xx answer, which Stripe may not receive.
Answer(e) == acked' \in {acked, acked \cup {e}}

-----------------------------------------------------------------------------
\* Mutants: no re-reservation, no age test, no completed_at test.
ReservableOnce(e) == claim[e] = "absent"
ReservableAtAnyAge(e) == claim[e] # "completed"
ReservableWhenDone(e) == claim[e] # "reserved"
\* mark_stripe_event_processed finds no row, or a reservation that was neither
\* completed nor renewed since the time-out.
Reservable(e) == claim[e] \in {"absent", "stale"}

\* A delivery reaches the route: the first one, a retry, a duplicate, or a
\* redelivery asked for in the Dashboard. An event without a handler goes
\* straight to its completion.
Reserve(w, e) ==
  /\ Reservable(e)
  /\ Goto(w, "idle", IF e \in Handled THEN "running" ELSE "ran")
  /\ job' = [job EXCEPT ![w] = e]
  /\ claim' = [claim EXCEPT ![e] = "reserved"]
  /\ UNCHANGED <<acked, applied, halfway>>

\* Otherwise the delivery is a duplicate: it is answered 200 at once.
IgnoreDuplicate(e) ==
  /\ ~Reservable(e)
  /\ Answer(e)
  /\ UNCHANGED <<claim, pc, job, applied, halfway>>

HandlerSucceeds(w) ==
  /\ Goto(w, "running", "ran")
  /\ applied' = applied \cup {job[w]}
  /\ UNCHANGED <<claim, job, acked, halfway>>

\* The handler raises, before its write or after it (log_security_event, or a
\* Stripe call, fails).
HandlerRaises(w) ==
  /\ Goto(w, "running", "raised")
  /\ \/ UNCHANGED <<applied, halfway>>
     \/ /\ applied' = applied \cup {job[w]}
        /\ halfway' = halfway \cup {job[w]}
  /\ UNCHANGED <<claim, job, acked>>

\* Mutant: the completion is not recorded.
CompleteUnrecorded(w) ==
  /\ Leave(w, "ran")
  /\ Answer(job[w])
  /\ UNCHANGED <<claim, applied, halfway>>

\* mark_stripe_event_completed (an UPDATE: without the row it does nothing),
\* then the 200 answer.
Complete(w) ==
  /\ pc[w] = "ran"
  /\ claim' = [claim EXCEPT ![job[w]] = IF @ = "absent" THEN @ ELSE "completed"]
  /\ Leave(w, "ran")
  /\ Answer(job[w])
  /\ UNCHANGED <<applied, halfway>>

\* unmark_stripe_event_processed deletes the row of the event, whoever made it,
\* and the route answers 502 or 500.
Unmark(w) ==
  /\ pc[w] = "raised"
  /\ claim' = [claim EXCEPT ![job[w]] = "absent"]
  /\ Leave(w, "raised")
  /\ UNCHANGED <<acked, applied, halfway>>

\* SIGKILL or a restart, or the database refuses the completion or the release:
\* neither takes place and no 2xx is sent.
Crash(w) ==
  /\ pc[w] # "idle"
  /\ pc' = [pc EXCEPT ![w] = "idle"]
  /\ job' = [job EXCEPT ![w] = NoEvent]
  /\ halfway' = IF pc[w] = "ran" /\ job[w] \in applied
                THEN halfway \cup {job[w]} ELSE halfway
  /\ UNCHANGED <<claim, acked, applied>>

\* A reservation gets older than the time-out. config.py counts on handlers to
\* be far quicker than that; MayStall lifts the assumption.
Expire(e) ==
  /\ claim[e] = "reserved"
  /\ MayStall \/ ~Handling(e)
  /\ claim' = [claim EXCEPT ![e] = "stale"]
  /\ UNCHANGED <<pc, job, acked, applied, halfway>>

Run(w) == HandlerSucceeds(w) \/ HandlerRaises(w) \/ Complete(w) \/ Unmark(w)

Next ==
  \/ \E w \in Workers, e \in Events : Reserve(w, e)
  \/ \E w \in Workers : Run(w) \/ Crash(w)
  \/ \E e \in Events : IgnoreDuplicate(e) \/ Expire(e)

Spec == Init /\ [][Next]_vars

(***************************************************************************)
(* Fairness. A worker that is not killed goes on; time passes; an event is *)
(* redelivered again and again (Stripe retries for days, and a human can   *)
(* ask for more from the Dashboard); a handler is not killed or failing    *)
(* for ever.                                                               *)
(***************************************************************************)
Fairness ==
  /\ \A w \in Workers : WF_vars(Run(w))
  /\ \A e \in Events : WF_vars(Expire(e))
  /\ \A e \in Events : SF_vars(\E w \in Workers : Reserve(w, e))
  /\ \A e \in Events : SF_vars(\E w \in Workers : job[w] = e /\ HandlerSucceeds(w))
  /\ \A e \in Events : SF_vars(\E w \in Workers : job[w] = e /\ Complete(w))

FairSpec == Spec /\ Fairness

-----------------------------------------------------------------------------
(* Properties *)

\* Two workers never hold the same event, whether in its handler, about to
\* complete it or about to release it ("jamais de double execution du
\* handler", mark_stripe_event_processed), and the holder's reservation stands.
OneHolderPerEvent ==
  /\ \A v, w \in Workers : Busy(v) /\ Busy(w) /\ job[v] = job[w] => v = w
  /\ \A w \in Workers : Busy(w) => claim[job[w]] = "reserved"

\* A handler runs on an event that has already had its effect only if the run
\* that applied it was killed or raised before it could be recorded.
OnlyLostRunsRepeat ==
  \A w \in Workers :
    pc[w] = "running" /\ job[w] \in applied => job[w] \in halfway

\* A completed event is never reserved, released or handled again ("un event
\* correctement traite de bout en bout ne doit JAMAIS etre rejoue").
CompletedForever ==
  [][\A e \in Events : claim[e] = "completed" => claim'[e] = "completed"]_claim

\* What Stripe considers delivered, and will not send again, has been applied
\* or is being handled ("jamais de perte d'evenement", api_checkout_webhook).
AckedMeansHandled ==
  \A e \in acked \cap Handled : e \in applied \/ Handling(e)

\* However often workers die, an event that keeps being delivered is completed
\* ("au lieu de rester bloque en doublon fantome pour toujours").
RedeliveryRecovers == \A e \in Events : <>(claim[e] = "completed")

\* The reservations implement EventInbox: a reservation nobody works on is an
\* abandoned one.
Inbox == INSTANCE EventInbox WITH
  status <- [e \in Events |-> IF claim[e] = "completed" THEN "handled"
                              ELSE IF Handling(e) THEN "handling" ELSE "new"]

ImplementsInbox == Inbox!Spec
=============================================================================
