----------------------------- MODULE ByteStreams -----------------------------
(***************************************************************************)
(* What one tunnelled connection promises its two applications: each       *)
(* direction is a stream of bytes; an end is handed the bytes the other    *)
(* end sent, in order, each once, until its own connection is closed.      *)
(***************************************************************************)
EXTENDS Naturals, Sequences

CONSTANTS Ends, Peer(_)

VARIABLES
  sent,   \* per end, the bytes its application sent
  got,    \* per end, the bytes its application was handed
  open    \* per end, the connection to its application is not closed

bvars == <<sent, got, open>>

Prefix(s, t) == Len(s) <= Len(t) /\ s = SubSeq(t, 1, Len(s))

(* Only p's entry of f changes, and it grows.                              *)
Grows(p, f, new) == /\ Prefix(f[p], new[p]) /\ new[p] # f[p]
                    /\ new = [f EXCEPT ![p] = new[p]]

BInit == /\ sent = [p \in Ends |-> <<>>] /\ got = [p \in Ends |-> <<>>]
         /\ open = [p \in Ends |-> TRUE]

Send(p) == open[p] /\ Grows(p, sent, sent') /\ UNCHANGED <<got, open>>

Hand(p) == /\ open[p] /\ Grows(p, got, got')
           /\ Prefix(got'[p], sent[Peer(p)])
           /\ UNCHANGED <<sent, open>>

Close(p) == /\ open[p] /\ open' = [open EXCEPT ![p] = FALSE]
            /\ UNCHANGED <<sent, got>>

BNext == \E p \in Ends : Send(p) \/ Hand(p) \/ Close(p)

BSpec == BInit /\ [][BNext]_bvars
=============================================================================
