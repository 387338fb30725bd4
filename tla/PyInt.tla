------------------------------- MODULE PyInt -------------------------------
(***************************************************************************)
(* How the generated binding (kcp/KCP.c) turns Python integers into C ones *)
(* of W = 2^32 values and back.  A Python integer that does not fit raises *)
(* OverflowError; a C integer always becomes a Python one.                 *)
(***************************************************************************)
EXTENDS SeqNum

(* __Pyx_PyInt_As_int and __Pyx_PyInt_As_uint32_t return these, and raise  *)
(* for all others.                                                         *)
PyInt_As_int == (-Half)..(Half - 1)
PyInt_As_uint32_t == 0..(W - 1)

\* mutation: the low bits are converted as C does it
kcp_now_Truncated(t) == itimediff(t, 0)

(* kcp_now at the time t, in milliseconds since the epoch.  It is declared *)
(* to return an int: when the low 32 bits do not fit one, the conversion   *)
(* raises, a cpdef function with a C result cannot pass that on, the error *)
(* is written to stderr, and the caller gets 0.                            *)
kcp_now(t) == IF Wrap(t) \in PyInt_As_int THEN Wrap(t) ELSE 0
=============================================================================
