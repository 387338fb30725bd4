------------------------------ MODULE MCKcpLink ------------------------------
(* Instances of KcpLink for TLC. *)
EXTENDS KcpLink

OneWay(n) == [p \in {Local, Server} |-> IF p = Local THEN n ELSE 0]

OneWay2 == OneWay(2)
OneWay3 == OneWay(3)

Lens13 == {1, 3}
Lens1 == {1}
=============================================================================
