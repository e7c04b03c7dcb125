----------------------------- MODULE MCOrderStatus -----------------------------
(* Instances of OrderStatus for TLC. *)
EXTENDS OrderStatus
=============================================================================
