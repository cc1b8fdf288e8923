----------------------------- MODULE MCThrottle -----------------------------
(* Connections whose chunk is smaller than the quota. *)
EXTENDS Throttle
=============================================================================
