--------------------------- MODULE MCCancellation ---------------------------
(* Small instances of Cancellation for TLC. *)
EXTENDS Cancellation

FirstTwo == 1..2
Everyone == Orders
Nobody == {}
=============================================================================
