----------------------------- MODULE MCKcpObject -----------------------------
(* Instance of KcpObject: the integers at the edges of what the options    *)
(* and the conversion to C accept.                                         *)
EXTENDS KcpObject

Mtus == {-1, 0, 4, 5, 6, 7, 40, Half}
Windows == {-1, 0, 1, 4, WndMod, Half}

Default == [mtu |-> 8, nodelay |-> 0, interval |-> 50, resend |-> 0, nc |-> 0,
            sndwnd |-> 1, rcvwnd |-> 3]
Options ==
  {[Default EXCEPT !.mtu = m] : m \in Mtus}
  \cup {[Default EXCEPT !.sndwnd = w] : w \in Windows}
  \cup {[Default EXCEPT !.rcvwnd = w] : w \in Windows}
  \cup {[Default EXCEPT !.nodelay = 1, !.interval = 10, !.resend = 2, !.nc = 1]}

Numbers == {-1, 1, W}
Offsets == {-1, 0, 1, 3}
=============================================================================
