---------------------------- MODULE MessageStream ----------------------------
(***************************************************************************)
(* What a KCP conversation promises its two applications: each direction   *)
(* is a reliable, ordered stream of messages.  A message is a sequence of  *)
(* fragments numbered down to 0; it is accepted whole, and it is delivered *)
(* whole, once, after the messages accepted before it.                     *)
(***************************************************************************)
EXTENDS Naturals, Sequences

CONSTANTS Ends, Peer(_)

VARIABLES
  stream,   \* per end, the fragments its application wrote
  got       \* per end, the fragments its application was handed

svars == <<stream, got>>

Message(m) ==
  /\ m # <<>>
  /\ \A i \in 1..Len(m) : m[i].frg = Len(m) - i /\ m[i].msg = m[1].msg

Rest(old, new) == SubSeq(new, Len(old) + 1, Len(new))
Extends(new, old) == Len(old) <= Len(new) /\ SubSeq(new, 1, Len(old)) = old

SInit == /\ stream = [p \in Ends |-> <<>>]
         /\ got = [p \in Ends |-> <<>>]

(* Only p's entry of f changes, and it grows by one message.               *)
GrowsBy(p, f, new) ==
  /\ DOMAIN new = Ends
  /\ Extends(new[p], f[p])
  /\ Message(Rest(f[p], new[p]))
  /\ \A q \in Ends \ {p} : new[q] = f[q]

Accept(p) == GrowsBy(p, stream, stream') /\ UNCHANGED got

Deliver(p) == /\ GrowsBy(p, got, got')
              /\ Extends(stream[Peer(p)], got'[p])
              /\ UNCHANGED stream

SNext == \E p \in Ends : Accept(p) \/ Deliver(p)

SSpec == SInit /\ [][SNext]_svars
=============================================================================
