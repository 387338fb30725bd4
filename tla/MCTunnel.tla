------------------------------ MODULE MCTunnel ------------------------------
(* Instances of Tunnel for TLC: bounds that depend on is_local. *)
EXTENDS Tunnel

Each(local, server) == [r \in BOOLEAN |-> IF r THEN local ELSE server]

LocalOne == Each(1, 0)
Two == Each(2, 2)
TwoAndFive == Each(2, 5)
None == Each(0, 0)
Unbounded == Each(-1, -1)
=============================================================================
