---------------------------- MODULE SlidingWindow ----------------------------
(***************************************************************************)
(* What webapp/rate_limit_service.check promises: a limiter that forgets   *)
(* nothing and decides on a request and records it in one step. A request  *)
(* is dated when it arrives, and decided MaxStall seconds later at most.   *)
(***************************************************************************)
EXTENDS Integers, FiniteSets

CONSTANTS Limit, Period, MaxStall

VARIABLES
  now,      \* the clock
  served    \* the admitted requests: their rank and their date

Init == now = 0 /\ served = {}

Tick == now' = now + 1 /\ UNCHANGED served

Admit(t) ==
  /\ Cardinality({h \in served : h.at > t - Period}) < Limit
  /\ served' = served \cup {[n |-> Cardinality(served) + 1, at |-> t]}
  /\ UNCHANGED now

Next == Tick \/ \E t \in (now - MaxStall)..now : Admit(t)

Spec == Init /\ [][Next]_<<now, served>>
===============================================================================
