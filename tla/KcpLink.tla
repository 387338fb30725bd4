------------------------------- MODULE KcpLink -------------------------------
(***************************************************************************)
(* Two KCP control blocks joined by UDP: one conversation between the      *)
(* local end and the server end.                                           *)
(*                                                                         *)
(* net[p] is the set of datagrams on their way to p.  UDP may lose a       *)
(* datagram (it is not kept when it is sent), deliver it twice (it stays   *)
(* after a delivery) and deliver datagrams in any order.  The application  *)
(* writes and reads at any time, and update and flush run at any time:     *)
(* this covers every schedule of the callbacks of kcp/protocols.py and of  *)
(* the timer of kcp/updater.py.                                            *)
(***************************************************************************)
EXTENDS KcpBlock

CONSTANT MaxNet   \* bound: datagrams on their way to one end

ASSUME NetAssumption == MaxNet \in Nat

VARIABLE net

vars == <<blockVars, net>>

LinkInit == Init /\ net = [p \in Ends |-> {}]

-----------------------------------------------------------------------------
(* sendto hands the datagrams of p to the network, which keeps some.       *)
Output(p, datagrams) ==
  \E kept \in SUBSET datagrams :
    /\ Cardinality(net[Peer(p)] \cup kept) <= MaxNet
    /\ net' = [net EXCEPT ![Peer(p)] = @ \cup kept]

(* TunnelTransportWrapper.write *)
Write(p) == /\ \E len \in MsgLens : ikcp_send(p, len)
            /\ UNCHANGED net

(* The application takes a message, when ikcp_peeksize says there is one.  *)
(* One of length 0, which is a fragment by itself, it leaves where it is.  *)
Read(p) == /\ ikcp_recv(p) /\ Head(rcv_queue[p]).len # 0
           /\ UNCHANGED net

(* Updater.update *)
Update(p) ==
  \E late \in SUBSET snd_buf[p], due \in BOOLEAN :
    ikcp_update(p, late, due) /\ Output(p, Datagrams(p, late, due))

(* The flush after a read in datagram_received.                            *)
Flush(p) ==
  \E late \in SUBSET snd_buf[p], due \in BOOLEAN :
    ikcp_flush(p, late, due) /\ Output(p, Datagrams(p, late, due))

(* A datagram arrives and ikcp_input is called with it.                    *)
Receive(p) ==
  \E d \in net[p] :
    /\ InputStart(p, d)
    /\ \/ net' = [net EXCEPT ![p] = @ \ {d}]
       \/ UNCHANGED net

Input(p) ==
  /\ \/ \E s \in inp[p].segs :
          InputAck(p, s) \/ InputPush(p, s) \/ InputWask(p, s) \/ InputWins(p, s)
     \/ InputDone(p)
  /\ UNCHANGED net

Next == \E p \in Ends :
          Write(p) \/ Read(p) \/ Update(p) \/ Flush(p) \/ Receive(p) \/ Input(p)

Spec == LinkInit /\ [][Next]_vars

(* Fairness.  The updater calls ikcp_update every interval, and a segment  *)
(* that is not acknowledged passes its resendts in the end; the network    *)
(* does not lose everything for ever; a datagram received is processed to  *)
(* its end, and the application reads what is there to read.               *)
RetransmitAll(p) ==
  /\ ikcp_update(p, snd_buf[p], TRUE)
  /\ LET all == Datagrams(p, snd_buf[p], TRUE)
     IN /\ Cardinality(net[Peer(p)] \cup all) <= MaxNet
        /\ net' = [net EXCEPT ![Peer(p)] = @ \cup all]

Arrive(p) ==
  \E d \in net[p] : InputStart(p, d) /\ net' = [net EXCEPT ![p] = @ \ {d}]

Fairness ==
  \A p \in Ends : /\ SF_vars(RetransmitAll(p)) /\ SF_vars(Arrive(p))
                  /\ WF_vars(Input(p)) /\ SF_vars(Read(p))

FairSpec == Spec /\ Fairness

-----------------------------------------------------------------------------
(* The segments end p has not processed yet.                               *)
Incoming(p) == (UNION net[p]) \cup inp[p].segs

Prefix(n, s) == SubSeq(s, 1, n)

(* Every field keeps its type. *)
TypeOK ==
  /\ snd_queue \in [Ends -> Seq(Frag)]
  /\ snd_buf \in [Ends -> SUBSET SndSeg]
  /\ snd_una \in [Ends -> Nat] /\ snd_nxt \in [Ends -> Nat]
  /\ rcv_nxt \in [Ends -> Nat]
  /\ rcv_buf \in [Ends -> SUBSET RcvSeg]
  /\ rcv_queue \in [Ends -> Seq(Frag)]
  /\ acklist \in [Ends -> SUBSET Nat]
  /\ rmt_wnd \in [Ends -> Nat]
  /\ probe \in [Ends -> SUBSET {"ASK_SEND", "ASK_TELL"}]
  /\ probe_wait \in [Ends -> BOOLEAN]
  /\ cwnd \in [Ends -> Nat] /\ incr \in [Ends -> Nat] /\ ssthresh \in [Ends -> Nat]
  /\ updated \in [Ends -> BOOLEAN]
  /\ state \in [Ends -> {0, -1}]
  /\ inp \in [Ends -> InputCall]
  /\ written \in [Ends -> Nat]
  /\ stream \in [Ends -> Seq(Frag)] /\ got \in [Ends -> Seq(Frag)]
  /\ net \in [Ends -> SUBSET (SUBSET Segment)]

(* What one end hands to its application is, fragment by fragment, what    *)
(* the other end's application wrote: nothing lost, repeated, reordered or *)
(* invented, whatever the network does.                                    *)
InOrderExactlyOnce ==
  \A p \in Ends :
    /\ Len(got[Peer(p)]) <= Len(stream[p])
    /\ got[Peer(p)] = Prefix(Len(got[Peer(p)]), stream[p])

(* ikcp_recv hands over whole messages: a hand-over never stops inside a   *)
(* message (the assertion len == peeksize of ikcp_recv is about this).     *)
WholeMessages ==
  \A p \in Ends : got[p] # <<>> => got[p][Len(got[p])].frg = 0

(* A segment leaves the sender's snd_buf only after the receiver has it,   *)
(* in whatever order acknowledgements and una fields arrive.               *)
NoSegmentLost ==
  \A p \in Ends : \A n \in 0..(snd_nxt[p] - 1) :
    \/ Has(snd_buf[p], n)
    \/ n < rcv_nxt[Peer(p)]
    \/ Has(rcv_buf[Peer(p)], n)

(* The sender stays within its own window, and what it believes to be      *)
(* acknowledged within the receiver's: every sequence number in use at one *)
(* end is close to those in use at the other, although a late datagram may *)
(* have set rmt_wnd to a window that is long closed.                       *)
FlightBound ==
  \A p \in Ends :
    /\ snd_nxt[p] <= snd_una[p] + snd_wnd
    /\ snd_una[p] <= rcv_nxt[Peer(p)] + rcv_wnd

(* A full receive queue always begins with a complete message, so that the *)
(* reader can make room: with the limit on fragments in ikcp_send and the  *)
(* minimum in ikcp_wndsize the two ends cannot wait for each other.        *)
FullQueueReadable ==
  \A p \in Ends : Len(rcv_queue[p]) >= rcv_wnd => Readable(rcv_queue[p])

(* Packets passed to the output callback respect the mtu.                  *)
DatagramFits ==
  \A p \in Ends : \A d \in net[p] : MapThenSumSet(Bytes, d) <= MTU

(* The congestion window never closes for good: after the first update it  *)
(* admits a segment, and it is never larger than its byte count incr says. *)
CwndOpen ==
  \A p \in Ends : updated[p] => cwnd[p] >= 1 /\ cwnd[p] * mss <= incr[p]

Forward(p) == /\ snd_una'[p] >= snd_una[p]
              /\ snd_nxt'[p] >= snd_nxt[p]
              /\ rcv_nxt'[p] >= rcv_nxt[p]

(* The window edges never move back, whatever old una, ack or data segment *)
(* arrives.                                                                *)
OnlyForward == [][\A p \in Ends : Forward(p)]_vars

(***************************************************************************)
(* The inductive invariant, per direction: from the sender p to its peer.  *)
(***************************************************************************)

(* s is the part of t that lies behind the first k elements.               *)
Agrees(s, t, k) == \A i \in 1..Len(s) : s[i] = t[k + i]

(* x carries the fragment of p's stream that its sequence number stands for.*)
Carries(x, p) == x.sn < snd_nxt[p] /\ x.frag = stream[p][x.sn + 1]

(* snd_buf and snd_queue hold the rest of the stream.                      *)
SenderInv(p) ==
  /\ snd_una[p] <= snd_nxt[p] /\ snd_nxt[p] <= snd_una[p] + snd_wnd
  /\ snd_nxt[p] + Len(snd_queue[p]) = Len(stream[p])
  /\ Agrees(snd_queue[p], stream[p], snd_nxt[p])
  /\ \A x \in snd_buf[p] : snd_una[p] <= x.sn /\ Carries(x, p)

InWindow(x, q) == rcv_nxt[q] <= x.sn /\ x.sn < rcv_nxt[q] + rcv_wnd

(* What the receiver q handed out and what it still queues is the stream   *)
(* up to rcv_nxt; rcv_buf holds later pieces of it.                        *)
ReceiverInv(p, q) ==
  /\ rcv_nxt[q] <= snd_nxt[p]
  /\ Len(got[q]) + Len(rcv_queue[q]) = rcv_nxt[q]
  /\ Agrees(got[q], stream[p], 0)
  /\ Agrees(rcv_queue[q], stream[p], Len(got[q]))
  /\ \A x \in rcv_buf[q] : InWindow(x, q) /\ Carries(x, p)

(* A data segment on the way carries the fragment its number stands for.   *)
DataInv(p, q) == \A s \in Incoming(q) : s.cmd = "PUSH" => Carries(s, p)

(* Acknowledgements, queued or on the way, are true of the receiver.       *)
Received(q, n) == n < rcv_nxt[q] \/ Has(rcv_buf[q], n)

AckInv(p, q) ==
  /\ \A n \in acklist[q] : Received(q, n)
  /\ \A s \in Incoming(p) : /\ s.una <= rcv_nxt[q]
                            /\ s.cmd = "ACK" => Received(q, s.sn)

KeptInv(p, q) ==
  \A n \in 0..(snd_nxt[p] - 1) : Has(snd_buf[p], n) \/ Received(q, n)

(* The fragments of a message follow each other, fewer than WND_RCV.       *)
WellFormed(s) ==
  \A i \in 1..Len(s) :
    /\ s[i].frg + 1 < WND_RCV
    /\ \A j \in 0..s[i].frg : /\ i + j <= Len(s)
                              /\ s[i + j].frg = s[i].frg - j
                              /\ s[i + j].msg = s[i].msg

(* A hand-over stops at the end of a message. *)
BoundaryInv(q) == got[q] # <<>> => got[q][Len(got[q])].frg = 0

(* Everything about the direction from p to its peer.                      *)
DirectionInv(p) ==
  /\ SenderInv(p) /\ ReceiverInv(p, Peer(p))
  /\ DataInv(p, Peer(p)) /\ AckInv(p, Peer(p)) /\ KeptInv(p, Peer(p))
  /\ WellFormed(stream[p]) /\ BoundaryInv(Peer(p))

IInv == TypeOK /\ \A p \in Ends : DirectionInv(p)

(* Both directions together implement a reliable stream of messages.       *)
Stream == INSTANCE MessageStream
  WITH Ends <- Ends, Peer <- Peer, stream <- stream, got <- got
ImplementsStream == Stream!SSpec

(* Everything written is handed to the other application in the end, also  *)
(* when the window was closed and the answer that opened it was lost.      *)
AllDelivered ==
  \A p \in Ends : \A n \in 1..SendLimit[p] :
    written[p] = n ~> (got[Peer(p)] # <<>>
                        /\ got[Peer(p)][Len(got[Peer(p)])].msg >= n
                        /\ got[Peer(p)][Len(got[Peer(p)])].frg = 0)

=============================================================================
