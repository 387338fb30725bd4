------------------------------ MODULE KcpBlock ------------------------------
(***************************************************************************)
(* The KCP control block of ikcp/ikcp.c (struct IKCPCB) at the two ends of *)
(* one conversation, and the operations of its interface: ikcp_send,       *)
(* ikcp_recv, ikcp_input, ikcp_update and ikcp_flush.                      *)
(*                                                                         *)
(* Every variable is a function over the two ends and keeps the name of    *)
(* the IKCPCB field.  The module says how an operation changes the block   *)
(* of the end p that calls it; KcpLink connects the two ends by a network. *)
(*                                                                         *)
(* Time is abstract: which segments have passed their resendts, and        *)
(* whether the window probe is due, is chosen when a flush happens.        *)
(* Lengths are in abstract units; a payload is named by the message it     *)
(* belongs to and its fragment number.                                     *)
(***************************************************************************)
EXTENDS Integers, Sequences, FiniteSets, FiniteSetsExt

CONSTANTS
  Local, Server,   \* the two ends of the conversation
  SndWnd,          \* argument sndwnd of ikcp_wndsize
  RcvWnd,          \* argument rcvwnd of ikcp_wndsize
  WND_RCV,         \* IKCP_WND_RCV, also the limit on fragments of a message
  MTU, OVERHEAD,   \* datagram limit and header size
  DEADLINK,        \* IKCP_DEADLINK
  FastResend,      \* kcp->fastresend, 0 turns fast retransmission off
  NoCwnd,          \* kcp->nocwnd # 0
  MsgLens,         \* lengths of the messages the application writes
  SendLimit        \* bound: number of messages each end writes

ASSUME BlockAssumption ==
  /\ Local # Server
  /\ SndWnd \in Nat \ {0} /\ RcvWnd \in Nat \ {0} /\ WND_RCV \in Nat \ {0}
  /\ OVERHEAD \in Nat \ {0} /\ MTU \in Nat /\ MTU > OVERHEAD
  /\ DEADLINK \in Nat \ {0} /\ FastResend \in Nat /\ NoCwnd \in BOOLEAN
  /\ MsgLens \subseteq Nat
  /\ SendLimit \in [{Local, Server} -> Nat]

Ends == {Local, Server}
Peer(p) == IF p = Local THEN Server ELSE Local

imin(a, b) == IF a <= b THEN a ELSE b
imax(a, b) == IF a >= b THEN a ELSE b

IKCP_THRESH_INIT == 2
IKCP_THRESH_MIN == 2

mss == MTU - OVERHEAD
snd_wnd == SndWnd
rcv_wnd_NoMinimum == RcvWnd   \* mutation: any window size is accepted
rcv_wnd == imax(RcvWnd, WND_RCV)
resent == FastResend

VARIABLES
  snd_queue,   \* fragments written and not yet numbered
  snd_buf,     \* segments in flight: numbered, not yet acknowledged
  snd_una, snd_nxt,
  rcv_nxt,
  rcv_buf,     \* segments received out of order
  rcv_queue,   \* fragments in order, not yet read
  acklist,     \* sequence numbers to acknowledge at the next flush
  rmt_wnd,     \* window the peer advertised last
  probe,       \* subset of {"ASK_SEND", "ASK_TELL"}
  probe_wait,  \* the window probe timer is armed (probe_wait # 0)
  cwnd, incr, ssthresh,
  updated, state,
  inp,         \* locals of the ikcp_input call in progress
  written,     \* history: number of messages accepted by ikcp_send
  stream,      \* history: the fragments accepted, in order
  got          \* history: the fragments ikcp_recv handed out, in order

sndVars == <<snd_queue, snd_buf, snd_una, snd_nxt>>
rcvVars == <<rcv_nxt, rcv_buf, rcv_queue>>
ccVars == <<cwnd, incr, ssthresh>>
ctlVars == <<rmt_wnd, probe, probe_wait, updated, state>>
histVars == <<written, stream, got>>
blockVars == <<sndVars, rcvVars, acklist, ccVars, ctlVars, inp, histVars>>

-----------------------------------------------------------------------------
(* Segments.  A fragment is the payload of one segment; frg counts down to *)
(* 0, the last fragment of its message.                                    *)

Frag == [msg : Nat, frg : Nat, len : Nat]
NoFrag == [msg |-> 0, frg |-> 0, len |-> 0]

Segment == [cmd : {"PUSH", "ACK", "WASK", "WINS"}, sn : Nat, una : Nat,
            wnd : Nat, frag : Frag]
SndSeg == [sn : Nat, frag : Frag, fastack : Nat, xmit : Nat]
RcvSeg == [sn : Nat, frag : Frag]

Bytes(s) == OVERHEAD + s.frag.len

InputCall == [busy : BOOLEAN, segs : SUBSET Segment,
              una : Nat, maxack : Nat \cup {-1}]
NoInput == [busy |-> FALSE, segs |-> {}, una |-> 0, maxack |-> -1]
Idle(p) == ~inp[p].busy

wnd_unused(p) ==
  IF Len(rcv_queue[p]) < rcv_wnd THEN rcv_wnd - Len(rcv_queue[p]) ELSE 0

Init ==
  /\ snd_queue = [p \in Ends |-> <<>>]
  /\ snd_buf = [p \in Ends |-> {}]
  /\ snd_una = [p \in Ends |-> 0]
  /\ snd_nxt = [p \in Ends |-> 0]
  /\ rcv_nxt = [p \in Ends |-> 0]
  /\ rcv_buf = [p \in Ends |-> {}]
  /\ rcv_queue = [p \in Ends |-> <<>>]
  /\ acklist = [p \in Ends |-> {}]
  /\ rmt_wnd = [p \in Ends |-> WND_RCV]
  /\ probe = [p \in Ends |-> {}]
  /\ probe_wait = [p \in Ends |-> FALSE]
  /\ cwnd = [p \in Ends |-> 0]
  /\ incr = [p \in Ends |-> 0]
  /\ ssthresh = [p \in Ends |-> IKCP_THRESH_INIT]
  /\ updated = [p \in Ends |-> FALSE]
  /\ state = [p \in Ends |-> 0]
  /\ inp = [p \in Ends |-> NoInput]
  /\ written = [p \in Ends |-> 0]
  /\ stream = [p \in Ends |-> <<>>]
  /\ got = [p \in Ends |-> <<>>]

-----------------------------------------------------------------------------
(* ikcp_send: cut the message into fragments of at most mss and queue them.*)
(* A message that would need WND_RCV fragments or more is refused (-2) and *)
(* changes nothing.                                                        *)

FragCount(len) == IF len <= mss THEN 1 ELSE (len + mss - 1) \div mss

\* mutation: the last fragment is measured one fragment too far
Fragments_OffByOne(m, len) ==
  [i \in 1..FragCount(len) |->
     [msg |-> m, frg |-> FragCount(len) - i, len |-> imin(mss, len - i * mss)]]

Fragments(m, len) ==
  [i \in 1..FragCount(len) |->
     [msg |-> m, frg |-> FragCount(len) - i,
      len |-> imin(mss, len - (i - 1) * mss)]]

ikcp_send(p, len) ==
  /\ Idle(p)
  /\ FragCount(len) < WND_RCV
  /\ written[p] < SendLimit[p]
  /\ LET new == Fragments(written[p] + 1, len)
     IN /\ snd_queue' = [snd_queue EXCEPT ![p] = @ \o new]
        /\ stream' = [stream EXCEPT ![p] = @ \o new]
  /\ written' = [written EXCEPT ![p] = @ + 1]
  /\ UNCHANGED <<snd_buf, snd_una, snd_nxt, rcvVars, acklist, ccVars, ctlVars,
                 inp, got>>

-----------------------------------------------------------------------------
(* The loop "move available data from rcv_buf -> rcv_queue", run by        *)
(* ikcp_recv and ikcp_parse_data: m segments are moved, and m is where the *)
(* loop breaks.                                                            *)

Has(buf, n) == \E s \in buf : s.sn = n

\* mutation: the loop takes the newest segment of rcv_buf
FragAt_Newest(buf, n) == (CHOOSE s \in buf : \A t \in buf : t.sn <= s.sn).frag

FragAt(buf, n) == (CHOOSE s \in buf : s.sn = n).frag

StopsAfter(m, buf, queue, nxt) ==
  /\ \A i \in 0..(m - 1) : Has(buf, nxt + i) /\ Len(queue) + i < rcv_wnd
  /\ ~(Has(buf, nxt + m) /\ Len(queue) + m < rcv_wnd)

MoveReady(p, buf, queue) ==
  \E m \in 0..Cardinality(buf) :
    /\ StopsAfter(m, buf, queue, rcv_nxt[p])
    /\ rcv_queue' = [rcv_queue EXCEPT ![p] =
                       queue \o [i \in 1..m |-> FragAt(buf, rcv_nxt[p] + i - 1)]]
    /\ rcv_buf' = [rcv_buf EXCEPT ![p] =
                     {s \in buf : s.sn \notin rcv_nxt[p]..(rcv_nxt[p] + m - 1)}]
    /\ rcv_nxt' = [rcv_nxt EXCEPT ![p] = @ + m]

\* mutation: frg is taken for the number of fragments
Readable_OneShort(queue) ==
  queue # <<>> /\ (queue[1].frg = 0 \/ Len(queue) >= queue[1].frg)

(* ikcp_peeksize(kcp) >= 0: the first message in rcv_queue is complete.    *)
Readable(queue) ==
  /\ queue # <<>>
  /\ queue[1].frg = 0 \/ Len(queue) >= queue[1].frg + 1

\* mutation: one fragment is handed over at a time
MergesTo_First(queue, k) == k = 1

(* The merge loop of ikcp_recv and ikcp_peeksize takes the fragments up to *)
(* the first whose frg is 0.                                               *)
MergesTo(queue, k) ==
  /\ k \in 1..Len(queue)
  /\ \A i \in 1..(k - 1) : queue[i].frg # 0
  /\ queue[k].frg = 0 \/ k = Len(queue)

ikcp_recv(p) ==
  /\ Idle(p)
  /\ Readable(rcv_queue[p])
  /\ \E k \in 1..Len(rcv_queue[p]) :
       /\ MergesTo(rcv_queue[p], k)
       /\ got' = [got EXCEPT ![p] = @ \o SubSeq(rcv_queue[p], 1, k)]
       /\ MoveReady(p, rcv_buf[p],
                    SubSeq(rcv_queue[p], k + 1, Len(rcv_queue[p])))
  /\ probe' = [probe EXCEPT ![p] =
                 IF Len(rcv_queue[p]) >= rcv_wnd /\ Len(rcv_queue'[p]) < rcv_wnd
                 THEN @ \cup {"ASK_TELL"} ELSE @]
  /\ UNCHANGED <<sndVars, acklist, ccVars, rmt_wnd, probe_wait, updated, state,
                 inp, written, stream>>

-----------------------------------------------------------------------------
(* ikcp_input.  InputStart is its prologue, the four handlers are the body *)
(* of its while loop for the four commands, and InputDone is its epilogue. *)
(* No other operation of this end can run in between (Idle).               *)

InputStart(p, d) ==
  /\ Idle(p)
  /\ inp' = [inp EXCEPT ![p] = [busy |-> TRUE, segs |-> d,
                                una |-> snd_una[p], maxack |-> -1]]
  /\ UNCHANGED <<sndVars, rcvVars, acklist, ccVars, ctlVars, histVars>>

(* The segments of a datagram lie in the order ikcp_flush wrote them.      *)
Before(s, t) ==
  LET rank == [c \in {"ACK", "WASK", "WINS", "PUSH"} |->
                 CASE c = "ACK" -> 0 [] c = "WASK" -> 1
                   [] c = "WINS" -> 2 [] c = "PUSH" -> 3]
  IN \/ rank[s.cmd] < rank[t.cmd]
     \/ s.cmd = t.cmd /\ s.sn < t.sn

Takes(p, s) ==
  /\ inp[p].busy
  /\ s \in inp[p].segs
  /\ \A t \in inp[p].segs : ~Before(t, s)

\* mutation: una itself counts as acknowledged
AfterUna_Inclusive(p, una) == {x \in snd_buf[p] : x.sn > una}

(* ikcp_parse_una and ikcp_shrink_buf, run for every segment.              *)
AfterUna(p, una) == {x \in snd_buf[p] : x.sn >= una}

Front(buf, nxt) ==
  IF buf = {} THEN nxt ELSE Min({x.sn : x \in buf})

\* mutation: an ack counts for everything before it
AfterAck_Cumulative(p, una, sn) == {x \in AfterUna(p, una) : x.sn > sn}

(* ikcp_parse_ack, after ikcp_parse_una.                                   *)
AfterAck(p, una, sn) ==
  LET buf == AfterUna(p, una)
  IN IF Front(buf, snd_nxt[p]) <= sn /\ sn < snd_nxt[p]
     THEN {x \in buf : x.sn # sn} ELSE buf

\* mutation: snd_una is set from the segment, however old it is
TakeSegment_TrustsUna(p, s, buf, maxack) ==
  /\ Takes(p, s)
  /\ rmt_wnd' = [rmt_wnd EXCEPT ![p] = s.wnd]
  /\ snd_buf' = [snd_buf EXCEPT ![p] = buf]
  /\ snd_una' = [snd_una EXCEPT ![p] = s.una]
  /\ inp' = [inp EXCEPT ![p].segs = @ \ {s}, ![p].maxack = maxack]
  /\ UNCHANGED <<snd_queue, snd_nxt, ccVars, probe_wait, updated, state,
                 histVars>>

TakeSegment(p, s, buf, maxack) ==
  /\ Takes(p, s)
  /\ rmt_wnd' = [rmt_wnd EXCEPT ![p] = s.wnd]
  /\ snd_buf' = [snd_buf EXCEPT ![p] = buf]
  /\ snd_una' = [snd_una EXCEPT ![p] = Front(buf, snd_nxt[p])]
  /\ inp' = [inp EXCEPT ![p] = [inp[p] EXCEPT !.segs = inp[p].segs \ {s},
                                            !.maxack = maxack]]
  /\ UNCHANGED <<snd_queue, snd_nxt, ccVars, probe_wait, updated, state,
                 histVars>>

InputAck(p, s) ==
  /\ s.cmd = "ACK"
  /\ TakeSegment(p, s, AfterAck(p, s.una, s.sn), imax(inp[p].maxack, s.sn))
  /\ UNCHANGED <<rcvVars, acklist, probe>>

(* The window test, ikcp_ack_push, and ikcp_parse_data with its own window *)
(* test, its search for a repeated segment and its move loop.              *)
InputPush(p, s) ==
  /\ s.cmd = "PUSH"
  /\ TakeSegment(p, s, AfterUna(p, s.una), inp[p].maxack)
  /\ IF s.sn < rcv_nxt[p] + rcv_wnd
     THEN acklist' = [acklist EXCEPT ![p] = @ \cup {s.sn}]
     ELSE UNCHANGED acklist
  /\ IF s.sn \in rcv_nxt[p]..(rcv_nxt[p] + rcv_wnd - 1)
     THEN MoveReady(p, IF Has(rcv_buf[p], s.sn) THEN rcv_buf[p]
                       ELSE rcv_buf[p] \cup {[sn |-> s.sn, frag |-> s.frag]},
                    rcv_queue[p])
     ELSE UNCHANGED rcvVars
  /\ UNCHANGED probe

InputWask(p, s) ==
  /\ s.cmd = "WASK"
  /\ TakeSegment(p, s, AfterUna(p, s.una), inp[p].maxack)
  /\ probe' = [probe EXCEPT ![p] = @ \cup {"ASK_TELL"}]
  /\ UNCHANGED <<rcvVars, acklist>>

InputWins(p, s) ==
  /\ s.cmd = "WINS"
  /\ TakeSegment(p, s, AfterUna(p, s.una), inp[p].maxack)
  /\ UNCHANGED <<rcvVars, acklist, probe>>

(* ikcp_parse_fastack: an acknowledgement of maxack passes over the older  *)
(* segments.  fastack is compared only with resent, so it stops there.     *)
AfterFastack(p, maxack) ==
  IF snd_una[p] <= maxack /\ maxack < snd_nxt[p]
  THEN {IF x.sn < maxack THEN [x EXCEPT !.fastack = imin(@ + 1, resent)] ELSE x :
          x \in snd_buf[p]}
  ELSE snd_buf[p]

(* Growth of the congestion window when snd_una advanced.                  *)
Grown(p) ==
  LET slow == cwnd[p] < ssthresh[p]
      base == imax(incr[p], mss)
      inc == IF slow THEN incr[p] + mss
             ELSE base + (mss * mss) \div base + mss \div 16
      cw == IF slow \/ (cwnd[p] + 1) * mss <= inc THEN cwnd[p] + 1 ELSE cwnd[p]
  IN IF cw > rmt_wnd[p] THEN <<rmt_wnd[p], rmt_wnd[p] * mss>> ELSE <<cw, inc>>

InputDone(p) ==
  /\ inp[p].busy
  /\ inp[p].segs = {}
  /\ snd_buf' = [snd_buf EXCEPT ![p] =
                   IF inp[p].maxack >= 0 THEN AfterFastack(p, inp[p].maxack) ELSE @]
  /\ IF snd_una[p] > inp[p].una /\ cwnd[p] < rmt_wnd[p]
     THEN /\ cwnd' = [cwnd EXCEPT ![p] = Grown(p)[1]]
          /\ incr' = [incr EXCEPT ![p] = Grown(p)[2]]
     ELSE UNCHANGED <<cwnd, incr>>
  /\ inp' = [inp EXCEPT ![p] = NoInput]
  /\ UNCHANGED <<snd_queue, snd_una, snd_nxt, rcvVars, acklist, ssthresh,
                 ctlVars, histVars>>

-----------------------------------------------------------------------------
(* ikcp_flush.  late is the set of segments whose resendts has passed, due *)
(* says whether ts_probe has passed.                                       *)

\* mutation: the window of the peer is never asked for
Asks_NoProbe(p, due) == probe[p]

Asks(p, due) ==
  probe[p] \cup
    (IF rmt_wnd[p] = 0 /\ probe_wait[p] /\ due THEN {"ASK_SEND"} ELSE {})

EffectiveWnd(p) ==
  LET w == imin(snd_wnd, rmt_wnd[p])
  IN IF NoCwnd THEN w ELSE imin(cwnd[p], w)

\* mutation: every flush sends a window of segments
MoveCount_PerFlush(p) == imin(Len(snd_queue[p]), EffectiveWnd(p))

(* How many fragments move from snd_queue to snd_buf.                      *)
MoveCount(p) ==
  imin(Len(snd_queue[p]), imax(0, snd_una[p] + EffectiveWnd(p) - snd_nxt[p]))

Numbered(p) ==
  snd_buf[p] \cup {[sn |-> snd_nxt[p] + i - 1, frag |-> snd_queue[p][i],
                    fastack |-> 0, xmit |-> 0] : i \in 1..MoveCount(p)}

Fast(s) == FastResend > 0 /\ s.fastack >= resent

(* One segment of snd_buf as the transmission loop leaves it.  xmit is     *)
(* compared only with dead_link, so it stops there.                        *)
Transmitted(s, late) ==
  IF s.xmit = 0 THEN [s EXCEPT !.xmit = 1]
  ELSE IF s \in late THEN [s EXCEPT !.xmit = imin(@ + 1, DEADLINK)]
  ELSE IF Fast(s) THEN [s EXCEPT !.xmit = imin(@ + 1, DEADLINK), !.fastack = 0]
  ELSE s

NeedSend(p, late) == {s \in Numbered(p) : s.xmit = 0 \/ s \in late \/ Fast(s)}
FastResent(p, late) == {s \in Numbered(p) : s.xmit # 0 /\ s \notin late /\ Fast(s)}

(* Everything a flush writes into its buffer.                              *)
Outgoing(p, late, due) ==
  LET Seg(cmd, sn, frag) == [cmd |-> cmd, sn |-> sn, una |-> rcv_nxt[p],
                             wnd |-> wnd_unused(p), frag |-> frag]
  IN {Seg("ACK", n, NoFrag) : n \in acklist[p]}
     \cup (IF "ASK_SEND" \in Asks(p, due) THEN {Seg("WASK", 0, NoFrag)} ELSE {})
     \cup (IF "ASK_TELL" \in Asks(p, due) THEN {Seg("WINS", 0, NoFrag)} ELSE {})
     \cup {Seg("PUSH", s.sn, s.frag) : s \in NeedSend(p, late)}

\* mutation: the buffer is handed over once, at the end
Pack_Once(out) == {out} \ {{}}

(* The buffer is handed to the output callback whenever the next segment   *)
(* would push it over the mtu, and once more at the end.                   *)
Pack(out) ==
  LET n == Cardinality(out)
      Pos(s) == Cardinality({t \in out : Before(t, s)}) + 1
      At(i) == CHOOSE s \in out : Pos(s) = i
      fill[i \in 0..n] ==
        IF i = 0 THEN 0
        ELSE IF fill[i - 1] + Bytes(At(i)) > MTU THEN Bytes(At(i))
        ELSE fill[i - 1] + Bytes(At(i))
      Cut(i) == i = 1 \/ fill[i - 1] + Bytes(At(i)) > MTU
      Group(s) == Cardinality({i \in 1..Pos(s) : Cut(i)})
  IN {{s \in out : Group(s) = g} : g \in 1..n} \ {{}}

(* The datagrams ikcp_flush passes to the output callback.                 *)
Datagrams(p, late, due) == Pack(Outgoing(p, late, due))

\* mutation: a window of 0 is kept
AfterCongestion_NoFloor(p, late) ==
  [ssthresh |-> ssthresh[p], cwnd |-> cwnd[p], incr |-> incr[p]]

AfterCongestion(p, late) ==
  LET change == FastResent(p, late) # {}
      inflight == snd_nxt[p] + MoveCount(p) - snd_una[p]
      th1 == IF change THEN imax(inflight \div 2, IKCP_THRESH_MIN) ELSE ssthresh[p]
      cw1 == IF change THEN th1 + resent ELSE cwnd[p]
      in1 == IF change THEN cw1 * mss ELSE incr[p]
  IN IF late # {}
     THEN [ssthresh |-> imax(EffectiveWnd(p) \div 2, IKCP_THRESH_MIN),
           cwnd |-> 1, incr |-> mss]
     ELSE [ssthresh |-> th1, cwnd |-> imax(cw1, 1),
           incr |-> IF cw1 < 1 THEN mss ELSE in1]

FlushBody(p, late, due) ==
  /\ Idle(p)
  /\ late \subseteq snd_buf[p]
  /\ acklist' = [acklist EXCEPT ![p] = {}]
  /\ probe' = [probe EXCEPT ![p] = {}]
  /\ probe_wait' = [probe_wait EXCEPT ![p] = (rmt_wnd[p] = 0)]
  /\ snd_queue' = [snd_queue EXCEPT ![p] =
                     SubSeq(@, MoveCount(p) + 1, Len(@))]
  /\ snd_nxt' = [snd_nxt EXCEPT ![p] = @ + MoveCount(p)]
  /\ snd_buf' = [snd_buf EXCEPT ![p] =
                   {Transmitted(s, late) : s \in Numbered(p)}]
  /\ state' = [state EXCEPT ![p] =
                 IF \E s \in NeedSend(p, late) :
                      Transmitted(s, late).xmit >= DEADLINK
                 THEN -1 ELSE @]
  /\ cwnd' = [cwnd EXCEPT ![p] = AfterCongestion(p, late).cwnd]
  /\ incr' = [incr EXCEPT ![p] = AfterCongestion(p, late).incr]
  /\ ssthresh' = [ssthresh EXCEPT ![p] = AfterCongestion(p, late).ssthresh]
  /\ UNCHANGED <<snd_una, rcvVars, rmt_wnd, inp, histVars>>

(* A direct call does nothing before the first ikcp_update.                *)
ikcp_flush(p, late, due) ==
  /\ updated[p]
  /\ FlushBody(p, late, due)
  /\ UNCHANGED updated

(* ikcp_update at a moment when the flush timer has expired; before that   *)
(* moment it changes nothing but the clock.                                *)
ikcp_update(p, late, due) ==
  /\ FlushBody(p, late, due)
  /\ updated' = [updated EXCEPT ![p] = TRUE]

=============================================================================
