------------------------------ MODULE Delivery ------------------------------
(***************************************************************************)
(* What the outbox promises, without its dispatcher: a message that was    *)
(* enqueued may reach its recipient while it is pending, and is in the end *)
(* recorded as sent, which it is only if it did, or as failed.  A failed   *)
(* message may be queued again by hand; a sent one is never touched again. *)
(***************************************************************************)
EXTENDS Naturals

CONSTANT Messages

VARIABLES phase, delivered

vars == <<phase, delivered>>

Init ==
  /\ phase     = [m \in Messages |-> "unknown"]
  /\ delivered = [m \in Messages |-> 0]

Enter(m, from, to) ==
  /\ phase[m] = from
  /\ phase' = [phase EXCEPT ![m] = to]
  /\ UNCHANGED delivered

Submit(m)   == Enter(m, "unknown", "pending")
Resubmit(m) == Enter(m, "failed", "pending")
GiveUp(m)   == Enter(m, "pending", "failed")
Confirm(m)  == delivered[m] > 0 /\ Enter(m, "pending", "sent")

Deliver(m) ==
  /\ phase[m] = "pending"
  /\ delivered' = [delivered EXCEPT ![m] = @ + 1]
  /\ UNCHANGED phase

Settle(m) == Confirm(m) \/ GiveUp(m)

Next == \E m \in Messages : Submit(m) \/ Resubmit(m) \/ Deliver(m) \/ Settle(m)

\* The records a message goes through, without the promise that it settles.
Safe == Init /\ [][Next]_vars

Spec == Safe /\ \A m \in Messages : WF_vars(Settle(m))
=============================================================================
