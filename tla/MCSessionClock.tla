--------------------------- MODULE MCSessionClock ---------------------------
(* Instances of SessionClock for TLC. *)
EXTENDS SessionClock

Ticks == {2, 3, -5}
=============================================================================
