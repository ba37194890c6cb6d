------------------------------ MODULE Delivery ------------------------------
(***************************************************************************)
(* What the durable op log promises, with nothing of how it is kept: an op *)
(* that was recorded on a device is delivered to the server, and only an   *)
(* op the server holds is settled (forgotten by the device).  Nothing ever *)
(* leaves any of the three sets.                                           *)
(***************************************************************************)

CONSTANT Batch          \* the ops, each under the batch id of its push

VARIABLES
  recorded,             \* ops that reached the device's durable op log
  delivered,            \* ops the server holds (sync_log or quarantine)
  settled               \* ops the device no longer needs to resend

vars == <<recorded, delivered, settled>>

Init ==
  /\ recorded = {}
  /\ delivered = {}
  /\ settled = {}

Record(b) ==
  /\ b \notin recorded
  /\ recorded' = recorded \cup {b}
  /\ UNCHANGED <<delivered, settled>>

Deliver(b) ==
  /\ b \in recorded \ delivered
  /\ delivered' = delivered \cup {b}
  /\ UNCHANGED <<recorded, settled>>

Settle(b) ==
  /\ b \in delivered \ settled
  /\ settled' = settled \cup {b}
  /\ UNCHANGED <<recorded, delivered>>

Next == \E b \in Batch : Record(b) \/ Deliver(b) \/ Settle(b)

Spec == Init /\ [][Next]_vars
=============================================================================
