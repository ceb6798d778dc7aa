-------------------------- MODULE StripeWebhookProofs --------------------------
(***************************************************************************)
(* Proofs about StripeWebhook, for any number of events and workers. When  *)
(* no handler outlives the reservation time-out (config.py counts on it):  *)
(* exclusive reservations, no repeated handler but after a lost run, and   *)
(* the refinement of EventInbox. Without that assumption: what a completed *)
(* event, and an answer of the webhook, are worth.                         *)
(***************************************************************************)
EXTENDS StripeWebhook, TLAPS

\* Values stay in their types; a worker has a job exactly when it is busy.
THEOREM TypeCorrect == Spec => []TypeOK
<1>1. Init => TypeOK
  BY EventsAssumption DEF Init, TypeOK
<1>2. TypeOK /\ [Next]_vars => TypeOK'
  <2> SUFFICES ASSUME TypeOK, [Next]_vars PROVE TypeOK'
    OBVIOUS
  <2> USE EventsAssumption DEF TypeOK, Goto, Leave, Answer
  <2>1. ASSUME NEW w \in Workers, NEW e \in Events, Reserve(w, e) PROVE TypeOK'
    BY <2>1 DEF Reserve, Reservable
  <2>2. ASSUME NEW e \in Events, IgnoreDuplicate(e) PROVE TypeOK'
    BY <2>2 DEF IgnoreDuplicate
  <2>3. ASSUME NEW w \in Workers, HandlerSucceeds(w) PROVE TypeOK'
    BY <2>3 DEF HandlerSucceeds
  <2>4. ASSUME NEW w \in Workers, HandlerRaises(w) PROVE TypeOK'
    BY <2>4 DEF HandlerRaises
  <2>5. ASSUME NEW w \in Workers, Complete(w) PROVE TypeOK'
    BY <2>5 DEF Complete
  <2>6. ASSUME NEW w \in Workers, Unmark(w) PROVE TypeOK'
    BY <2>6 DEF Unmark
  <2>7. ASSUME NEW w \in Workers, Crash(w) PROVE TypeOK'
    BY <2>7 DEF Crash
  <2>8. ASSUME NEW e \in Events, Expire(e) PROVE TypeOK'
    BY <2>8 DEF Expire
  <2>9. CASE UNCHANGED vars
    BY <2>9 DEF vars
  <2>. QED
    BY <2>1, <2>2, <2>3, <2>4, <2>5, <2>6, <2>7, <2>8, <2>9 DEF Next, Run
<1>. QED
  BY <1>1, <1>2, PTL DEF Spec

\* One step keeps reservations exclusive when no handler stalls.
LEMMA HolderStep ==
  ASSUME ~MayStall, TypeOK, OneHolderPerEvent, [Next]_vars
  PROVE  OneHolderPerEvent'
<1> USE EventsAssumption DEF TypeOK, Goto, Leave, Busy, OneHolderPerEvent
<1>1. ASSUME NEW w \in Workers, NEW e \in Events, Reserve(w, e)
      PROVE  OneHolderPerEvent'
  BY <1>1 DEF Reserve, Reservable
<1>2. ASSUME NEW e \in Events, IgnoreDuplicate(e) PROVE OneHolderPerEvent'
  BY <1>2 DEF IgnoreDuplicate
<1>3. ASSUME NEW w \in Workers, HandlerSucceeds(w) PROVE OneHolderPerEvent'
  BY <1>3 DEF HandlerSucceeds
<1>4. ASSUME NEW w \in Workers, HandlerRaises(w) PROVE OneHolderPerEvent'
  BY <1>4 DEF HandlerRaises
<1>5. ASSUME NEW w \in Workers, Complete(w) PROVE OneHolderPerEvent'
  BY <1>5 DEF Complete
<1>6. ASSUME NEW w \in Workers, Unmark(w) PROVE OneHolderPerEvent'
  BY <1>6 DEF Unmark
<1>7. ASSUME NEW w \in Workers, Crash(w) PROVE OneHolderPerEvent'
  BY <1>7 DEF Crash
<1>8. ASSUME NEW e \in Events, Expire(e) PROVE OneHolderPerEvent'
  BY <1>8 DEF Expire, Handling
<1>9. CASE UNCHANGED vars
  BY <1>9 DEF vars
<1>. QED
  BY <1>1, <1>2, <1>3, <1>4, <1>5, <1>6, <1>7, <1>8, <1>9 DEF Next, Run

\* Two workers never hold the same event (OneHolderPerEvent).
THEOREM ExclusiveReservations ==
  ASSUME ~MayStall
  PROVE  Spec => []OneHolderPerEvent
<1>1. Init => OneHolderPerEvent
  BY DEF Init, OneHolderPerEvent, Busy
<1>2. TypeOK /\ OneHolderPerEvent /\ [Next]_vars => OneHolderPerEvent'
  BY HolderStep
<1>. QED
  BY <1>1, <1>2, TypeCorrect, PTL DEF Spec

\* An effect that was not lost half-way is recorded, or its worker is about to
\* record it: the strengthening that makes OnlyLostRunsRepeat inductive.
EffectsRecorded ==
  \A e \in applied \ halfway :
    claim[e] = "completed" \/ \E w \in Workers : pc[w] = "ran" /\ job[w] = e

LEMMA EffectsStep ==
  ASSUME ~MayStall, TypeOK, OneHolderPerEvent, EffectsRecorded, [Next]_vars
  PROVE  EffectsRecorded'
<1> USE EventsAssumption DEF TypeOK, Goto, Leave, Busy, OneHolderPerEvent
<1>1. ASSUME NEW w \in Workers, NEW e \in Events, Reserve(w, e)
      PROVE  EffectsRecorded'
  BY <1>1 DEF Reserve, Reservable, EffectsRecorded
<1>2. ASSUME NEW e \in Events, IgnoreDuplicate(e) PROVE EffectsRecorded'
  BY <1>2 DEF IgnoreDuplicate, EffectsRecorded
<1>3. ASSUME NEW w \in Workers, HandlerSucceeds(w) PROVE EffectsRecorded'
  BY <1>3 DEF HandlerSucceeds, EffectsRecorded
<1>4. ASSUME NEW w \in Workers, HandlerRaises(w) PROVE EffectsRecorded'
  BY <1>4 DEF HandlerRaises, EffectsRecorded
<1>5. ASSUME NEW w \in Workers, Complete(w) PROVE EffectsRecorded'
  BY <1>5 DEF Complete, EffectsRecorded
<1>6. ASSUME NEW w \in Workers, Unmark(w) PROVE EffectsRecorded'
  BY <1>6 DEF Unmark, EffectsRecorded
<1>7. ASSUME NEW w \in Workers, Crash(w) PROVE EffectsRecorded'
  BY <1>7 DEF Crash, EffectsRecorded
<1>8. ASSUME NEW e \in Events, Expire(e) PROVE EffectsRecorded'
  BY <1>8 DEF Expire, EffectsRecorded
<1>9. CASE UNCHANGED vars
  BY <1>9 DEF vars, EffectsRecorded
<1>. QED
  BY <1>1, <1>2, <1>3, <1>4, <1>5, <1>6, <1>7, <1>8, <1>9 DEF Next, Run

\* A handler runs again on an event that had its effect only after a run that
\* was killed or raised before it was recorded (OnlyLostRunsRepeat).
THEOREM RepeatsAreLostRuns ==
  ASSUME ~MayStall
  PROVE  Spec => []OnlyLostRunsRepeat
<1>1. Init => EffectsRecorded
  BY DEF Init, EffectsRecorded
<1>2. TypeOK /\ OneHolderPerEvent /\ EffectsRecorded /\ [Next]_vars => EffectsRecorded'
  BY EffectsStep
<1>3. TypeOK /\ OneHolderPerEvent /\ EffectsRecorded => OnlyLostRunsRepeat
  BY DEF TypeOK, OneHolderPerEvent, EffectsRecorded, OnlyLostRunsRepeat, Busy
<1>. QED
  BY <1>1, <1>2, <1>3, TypeCorrect, ExclusiveReservations, PTL DEF Spec

\* A completed event stays completed (CompletedForever).
THEOREM CompletionIsFinal ==
  ASSUME ~MayStall
  PROVE  Spec => CompletedForever
<1> DEFINE Final == \A e \in Events : claim[e] = "completed" => claim'[e] = "completed"
<1>1. TypeOK /\ OneHolderPerEvent /\ [Next]_vars => [Final]_claim
  BY EventsAssumption
     DEF TypeOK, OneHolderPerEvent, Busy, Next, Run, vars, Reserve, Reservable, IgnoreDuplicate,
         HandlerSucceeds, HandlerRaises, Complete, Unmark, Crash, Expire, Goto, Leave
<1>. QED
  BY <1>1, TypeCorrect, ExclusiveReservations, PTL DEF Spec, CompletedForever

\* The reservation table, with its crashes, releases and renewals, implements
\* the inbox of EventInbox: one worker at a time, handled for ever.
THEOREM InboxRefinement ==
  ASSUME ~MayStall
  PROVE  Spec => ImplementsInbox
<1> DEFINE Status(e) == IF claim[e] = "completed" THEN "handled"
                        ELSE IF Handling(e) THEN "handling" ELSE "new"
           status == [e \in Events |-> Status(e)]
<1>1. Init => Inbox!Init
  BY DEF Init, Inbox!Init, Handling, Busy
<1>2. TypeOK /\ OneHolderPerEvent /\ OneHolderPerEvent' /\ [Next]_vars
        => [Inbox!Next]_(status)
  <2> SUFFICES ASSUME TypeOK, OneHolderPerEvent, OneHolderPerEvent', [Next]_vars
               PROVE  [Inbox!Next]_(status)
    OBVIOUS
  <2> USE EventsAssumption DEF TypeOK, Goto, Leave, Busy
  \* A step that changes the status of one event at most.
  <2>1. ASSUME NEW e \in Events,
               \A x \in Events \ {e} : Status(x)' = Status(x),
               \/ Status(e)' = Status(e)
               \/ Status(e) = "new" /\ Status(e)' = "handling"
               \/ Status(e) = "handling" /\ Status(e)' \in {"new", "handled"}
        PROVE  [Inbox!Next]_(status)
    <3>1. CASE Status(e)' = Status(e)
      <4>1. \A x \in Events : Status(x)' = Status(x)
        BY <2>1, <3>1
      <4>2. status' = status
        BY <4>1
      <4>. QED
        BY <4>2
    <3>2. CASE Status(e)' # Status(e)
      <4>1. status' = [status EXCEPT ![e] = Status(e)'] /\ status[e] = Status(e)
        BY <2>1
      <4>2. Inbox!Start(e) \/ Inbox!Abandon(e) \/ Inbox!Finish(e)
        BY <2>1, <3>2, <4>1 DEF Inbox!Start, Inbox!Abandon, Inbox!Finish, Inbox!Move
      <4>. QED
        BY <4>2 DEF Inbox!Next
    <3>. QED
      BY <3>1, <3>2
  <2>2. ASSUME NEW w \in Workers, NEW e \in Events, Reserve(w, e)
        PROVE  [Inbox!Next]_(status)
    <3>1. ~Handling(e) /\ Handling(e)' /\ claim[e] # "completed" /\ claim'[e] = "reserved"
      BY <2>2 DEF Reserve, Reservable, Handling, OneHolderPerEvent
    <3>2. \A x \in Events \ {e} : Handling(x)' = Handling(x) /\ claim'[x] = claim[x]
      BY <2>2 DEF Reserve, Reservable, Handling
    <3>. QED
      BY <3>1, <3>2, <2>1
  <2>3. ASSUME NEW e \in Events, IgnoreDuplicate(e) PROVE [Inbox!Next]_(status)
    BY <2>3 DEF IgnoreDuplicate, Handling
  <2>4. ASSUME NEW w \in Workers, HandlerSucceeds(w) \/ HandlerRaises(w)
        PROVE  [Inbox!Next]_(status)
    <3>1. \A x \in Events : (Handling(x)' <=> Handling(x)) /\ claim'[x] = claim[x]
      BY <2>4 DEF HandlerSucceeds, HandlerRaises, Handling
    <3>2. status' = status
      BY <3>1
    <3>. QED
      BY <3>2
  \* The holder lets go of its event.
  <2>5. ASSUME NEW w \in Workers, NEW e \in Events, Busy(w), job[w] = e, pc'[w] = "idle",
               job' = [job EXCEPT ![w] = NoEvent],
               \A v \in Workers \ {w} : pc'[v] = pc[v],
               \A x \in Events \ {e} : claim'[x] = claim[x]
        PROVE  [Inbox!Next]_(status)
    <3>1. claim[e] = "reserved" /\ Handling(e)
      BY <2>5 DEF OneHolderPerEvent, Handling
    <3>2. ~Handling(e)'
      <4> SUFFICES ASSUME NEW v \in Workers, Busy(v)', job'[v] = e PROVE FALSE
        BY DEF Handling
      <4>1. v # w
        BY <2>5
      <4>2. Busy(v) /\ job[v] = e
        BY <2>5, <4>1
      <4>. QED
        BY <2>5, <4>1, <4>2 DEF OneHolderPerEvent
    <3>3. \A x \in Events \ {e} : (Handling(x)' <=> Handling(x)) /\ claim'[x] = claim[x]
      BY <2>5 DEF Handling
    <3>4. \A x \in Events \ {e} : Status(x)' = Status(x)
      BY <3>3
    <3>5. Status(e) = "handling"
      BY <3>1
    <3>. QED
      BY <3>1, <3>2, <3>4, <3>5, <2>1
  <2>6. ASSUME NEW w \in Workers, Complete(w) \/ Unmark(w) \/ Crash(w)
        PROVE  [Inbox!Next]_(status)
    <3>1. PICK e \in Events : job[w] = e
      BY <2>6 DEF Complete, Unmark, Crash
    <3>. QED
      BY <2>6, <3>1, <2>5 DEF Complete, Unmark, Crash
  <2>7. ASSUME NEW e \in Events, Expire(e) PROVE [Inbox!Next]_(status)
    <3>1. \A x \in Events : Status(x)' = Status(x)
      BY <2>7 DEF Expire, Handling
    <3>2. status' = status
      BY <3>1
    <3>. QED
      BY <3>2
  <2>8. CASE UNCHANGED vars
    BY <2>8 DEF vars, Handling
  <2>. QED
    BY <2>2, <2>3, <2>4, <2>6, <2>7, <2>8 DEF Next, Run
<1>. QED
  BY <1>1, <1>2, TypeCorrect, ExclusiveReservations, PTL
     DEF Spec, ImplementsInbox, Inbox!Spec

-----------------------------------------------------------------------------
(* What a 2xx answer means *)

\* A worker that is about to complete an event with a handler, or has completed
\* it, has seen the handler's effect.
CompletedIsApplied ==
  \A e \in Handled :
    /\ claim[e] = "completed" => e \in applied
    /\ \A w \in Workers : pc[w] = "ran" /\ job[w] = e => e \in applied

LEMMA CompletedStep ==
  ASSUME TypeOK, CompletedIsApplied, [Next]_vars
  PROVE  CompletedIsApplied'
<1> USE EventsAssumption DEF TypeOK, CompletedIsApplied, Goto, Leave
<1>1. ASSUME NEW w \in Workers, NEW e \in Events, Reserve(w, e) PROVE CompletedIsApplied'
  BY <1>1 DEF Reserve, Reservable
<1>2. ASSUME NEW e \in Events, IgnoreDuplicate(e) \/ Expire(e) PROVE CompletedIsApplied'
  BY <1>2 DEF IgnoreDuplicate, Expire
<1>3. ASSUME NEW w \in Workers, HandlerSucceeds(w) PROVE CompletedIsApplied'
  BY <1>3 DEF HandlerSucceeds
<1>4. ASSUME NEW w \in Workers, HandlerRaises(w) PROVE CompletedIsApplied'
  BY <1>4 DEF HandlerRaises
<1>5. ASSUME NEW w \in Workers, Complete(w) PROVE CompletedIsApplied'
  BY <1>5 DEF Complete
<1>6. ASSUME NEW w \in Workers, Unmark(w) \/ Crash(w) PROVE CompletedIsApplied'
  BY <1>6 DEF Unmark, Crash
<1>7. CASE UNCHANGED vars
  BY <1>7 DEF vars
<1>. QED
  BY <1>1, <1>2, <1>3, <1>4, <1>5, <1>6, <1>7 DEF Next, Run

\* An event with a handler is completed only once the handler has had its
\* effect, however many deliveries and workers race, crash or stall.
THEOREM CompletionMeansEffect == Spec => []CompletedIsApplied
<1>1. Init => CompletedIsApplied
  BY EventsAssumption DEF Init, CompletedIsApplied
<1>2. TypeOK /\ CompletedIsApplied /\ [Next]_vars => CompletedIsApplied'
  BY CompletedStep
<1>. QED
  BY <1>1, <1>2, TypeCorrect, PTL DEF Spec

\* A duplicate is answered 2xx for a completed event only: what handle_event
\* would do if it refused one whose first delivery is still being handled.
DuplicateIsDone ==
  \A e \in Events : IgnoreDuplicate(e) /\ e \in acked' \ acked => claim[e] = "completed"
DuplicatesAreDone == [][DuplicateIsDone]_vars

AckedIsApplied == acked \cap Handled \subseteq applied

\* The early answer to a duplicate is the only way an acknowledged event gets
\* lost: if only completed duplicates are answered 2xx, what Stripe considers
\* delivered has been applied, whatever the crashes, the time-outs and the
\* handlers that outlive them (the run stripe_early_ack takes that way).
THEOREM PatientAnswersLoseNothing == Spec /\ DuplicatesAreDone => []AckedMeansHandled
<1>1. Init => AckedIsApplied
  BY DEF Init, AckedIsApplied
<1>2. TypeOK /\ CompletedIsApplied /\ AckedIsApplied /\ [Next]_vars /\ [DuplicateIsDone]_vars
        => AckedIsApplied'
  <2> SUFFICES ASSUME TypeOK, CompletedIsApplied, AckedIsApplied, [Next]_vars, [DuplicateIsDone]_vars
               PROVE  AckedIsApplied'
    OBVIOUS
  <2>1. applied \subseteq applied'
    BY DEF Next, Run, vars, Reserve, IgnoreDuplicate, HandlerSucceeds, HandlerRaises, Complete,
           Unmark, Crash, Expire
  <2>2. ASSUME NEW e \in Events, IgnoreDuplicate(e) PROVE AckedIsApplied'
    <3>1. acked' \subseteq acked \cup {e}
      BY <2>2 DEF IgnoreDuplicate, Answer
    <3>2. e \in (acked' \ acked) \cap Handled => e \in applied
      BY <2>2 DEF DuplicateIsDone, CompletedIsApplied, vars
    <3>. QED
      BY <2>1, <3>1, <3>2 DEF AckedIsApplied
  <2>3. ASSUME NEW w \in Workers, Complete(w) PROVE AckedIsApplied'
    <3>1. acked' \subseteq acked \cup {job[w]} /\ pc[w] = "ran"
      BY <2>3 DEF Complete, Answer
    <3>2. job[w] \in Handled => job[w] \in applied
      BY <3>1 DEF CompletedIsApplied
    <3>. QED
      BY <2>1, <3>1, <3>2 DEF AckedIsApplied
  <2>4. CASE acked' = acked
    BY <2>1, <2>4 DEF AckedIsApplied
  <2>. QED
    BY <2>2, <2>3, <2>4 DEF Next, Run, vars, Reserve, HandlerSucceeds, HandlerRaises, Unmark, Crash, Expire
<1>3. AckedIsApplied => AckedMeansHandled
  BY DEF AckedIsApplied, AckedMeansHandled
<1>. QED
  BY <1>1, <1>2, <1>3, CompletionMeansEffect, TypeCorrect, PTL DEF Spec, DuplicatesAreDone
================================================================================
