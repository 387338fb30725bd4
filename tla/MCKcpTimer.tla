----------------------------- MODULE MCKcpTimer -----------------------------
(* Instances of KcpTimer for TLC. *)
EXTENDS KcpTimer

Forth == {1, 4}
=============================================================================
