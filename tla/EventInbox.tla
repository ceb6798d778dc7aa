------------------------------ MODULE EventInbox ------------------------------
(***************************************************************************)
(* What webapp/stripe_webhook_service.handle_event promises about webhook  *)
(* events: an event is handled by one worker at a time, an event whose     *)
(* handling is abandoned can be handled again, and a handled event never   *)
(* leaves that state.                                                      *)
(***************************************************************************)
CONSTANT Events

VARIABLE status   \* per event: "new", "handling" or "handled"

Init == status = [e \in Events |-> "new"]

Move(e, from, to) == status[e] = from /\ status' = [status EXCEPT ![e] = to]

Start(e)   == Move(e, "new", "handling")
Abandon(e) == Move(e, "handling", "new")
Finish(e)  == Move(e, "handling", "handled")

Next == \E e \in Events : Start(e) \/ Abandon(e) \/ Finish(e)

Spec == Init /\ [][Next]_status
===============================================================================
