---------------------------- MODULE MCLiveOrders -----------------------------
(* Instances of LiveOrders. *)
EXTENDS LiveOrders
=============================================================================
