------------------------------ MODULE KcpObject ------------------------------
(***************************************************************************)
(* An object of the class KCP of kcp/KCP.pyx, as Cython generates it in    *)
(* kcp/KCP.c: the control block it owns and the memory of that block, from *)
(* new_kcp to the end of its session.  The calls are those of              *)
(* kcp/protocols.py and kcp/updater.py, in their order; `pc` is the call   *)
(* that comes next, "open" between the handlers of the event loop.         *)
(*                                                                         *)
(* Segments are counted, not told apart: how many of those in flight are   *)
(* acknowledged, and how many fragments the first message has, is chosen.  *)
(* KcpBlock says what they carry.  malloc does not fail.                   *)
(***************************************************************************)
EXTENDS PyInt, FiniteSets

CONSTANTS
  NULL,               \* the null pointer
  Configs,            \* the values KCPConfig may hold
  Convs,              \* conversation numbers given to KCP()
  ReadSize,           \* most bytes one write of the pipe passes on
  WND_SND, WND_RCV, MTU_DEF, OVERHEAD, INTERVAL, RTO_NDL, RTO_MIN,
  MtuMin, IntervalMin, IntervalMax,   \* literals of setmtu and nodelay
  AckBlock,           \* literal of ack_push: entries of the first list
  WndMod,             \* what the 16 bits of a window in a header can tell apart
  Datagrams,          \* distances from rcv_nxt of the data segments received
  MaxQueued, MaxAcks  \* bounds: segments queued or in flight, and acks

Config == [mtu : Int, nodelay : {0, 1}, interval : Int, resend : Nat,
           nc : {0, 1}, sndwnd : Int, rcvwnd : Int]

(* The fields of the control block.  rcv_buf holds the distances of its    *)
(* segments from rcv_nxt; `longest` is the length of the longest segment   *)
(* ikcp_send has made.                                                     *)
Block ==
  [conv : Nat, state : Nat, mtu : Nat, mss : Nat, buffer : Nat,
   snd_wnd : Nat, rcv_wnd : Nat, nodelay : Nat, rx_minrto : Nat,
   interval : Nat, fastresend : Nat, nocwnd : Nat, output : BOOLEAN,
   updated : BOOLEAN, nsnd_que : Nat, nsnd_buf : Nat, rcv_buf : SUBSET Nat,
   nrcv_buf : Nat, nrcv_que : Nat, ackcount : Nat, ackblock : Nat,
   longest : Nat]

ASSUME ObjectAssumption ==
  /\ NULL \notin Block
  /\ Configs \subseteq Config /\ Convs \subseteq Int
  /\ {WND_SND, WND_RCV, INTERVAL, RTO_NDL, RTO_MIN, AckBlock, OVERHEAD}
       \subseteq 1..(Half - 1)
  /\ OVERHEAD < MtuMin /\ MtuMin <= MTU_DEF /\ MTU_DEF \in Nat /\ MtuMin \in Nat
  /\ IntervalMin \in Nat \ {0} /\ IntervalMin <= INTERVAL
  /\ IntervalMax \in Nat /\ INTERVAL <= IntervalMax
  /\ ReadSize \in Nat /\ WND_RCV > 1
  /\ WndMod \in Nat /\ WND_RCV < WndMod
  /\ Datagrams \subseteq Int
  /\ MaxQueued \in Nat /\ MaxAcks \in Nat

(* No datagram is so large that three of them, with a header each, exceed  *)
(* the range of the integer their buffer is measured with.                 *)
ASSUME MtuAssumption ==
  /\ 3 * (MTU_DEF + OVERHEAD) < W
  /\ \A c \in Configs : c.mtu \in PyInt_As_int => 3 * (c.mtu + OVERHEAD) < W

VARIABLES
  pc,       \* the next call, "open", or "gone" when the object is freed
  config,   \* KCPConfig()
  conv,     \* the argument of KCP()
  ckcp,     \* the control block, NULL before ikcp_create
  heap,     \* blocks of memory allocated by ikcp_malloc and not freed
  refused   \* history: a write was refused by ikcp_send

vars == <<pc, config, conv, ckcp, heap, refused>>

imin(a, b) == IF a <= b THEN a ELSE b
imax(a, b) == IF a >= b THEN a ELSE b

\* mutation: the buffer holds one datagram without its next header
BufferSize_Mss(mtu) == Wrap(mtu - OVERHEAD)

(* The size of kcp->buffer: an unsigned product.                           *)
BufferSize(mtu) == Wrap((mtu + OVERHEAD) * 3)

(* ikcp_create: the defaults.                                              *)
ikcp_create(c) ==
  [conv |-> c, state |-> 0, mtu |-> MTU_DEF, mss |-> MTU_DEF - OVERHEAD,
   buffer |-> BufferSize(MTU_DEF), snd_wnd |-> WND_SND, rcv_wnd |-> WND_RCV,
   nodelay |-> 0, rx_minrto |-> RTO_MIN, interval |-> INTERVAL,
   fastresend |-> 0, nocwnd |-> 0, output |-> FALSE, updated |-> FALSE,
   nsnd_que |-> 0, nsnd_buf |-> 0, rcv_buf |-> {}, nrcv_buf |-> 0,
   nrcv_que |-> 0, ackcount |-> 0, ackblock |-> 0, longest |-> 0]

Init ==
  /\ pc = "KCP" /\ config \in Configs /\ conv \in Convs
  /\ ckcp = NULL /\ heap = 0 /\ refused = FALSE

-----------------------------------------------------------------------------
(* new_kcp.  An argument that does not fit the C type of its parameter     *)
(* raises before the method does anything; new_kcp passes the exception on *)
(* and with it the only reference to the object is gone.                   *)

Call(name, next, fits, new) ==
  /\ pc = name
  /\ IF fits THEN pc' = next /\ ckcp' = new
             ELSE pc' = "dealloc" /\ UNCHANGED ckcp
  /\ UNCHANGED <<config, conv, refused>>

(* tp_new and __cinit__: the block and its buffer are allocated.           *)
Create ==
  /\ Call("KCP", "set_output", conv \in PyInt_As_uint32_t, ikcp_create(conv))
  /\ heap' = IF conv \in PyInt_As_uint32_t THEN heap + 2 ELSE heap

SetOutput ==
  /\ Call("set_output", "set_mtu", TRUE, [ckcp EXCEPT !.output = TRUE])
  /\ UNCHANGED heap

\* mutation: a limit that is too small is accepted
ikcp_setmtu_AnySize(b, mtu) ==
  [b EXCEPT !.mtu = Wrap(mtu), !.mss = Wrap(mtu - OVERHEAD),
            !.buffer = BufferSize(mtu)]

(* ikcp_setmtu: an mtu that is too small changes nothing (-1).             *)
ikcp_setmtu(b, mtu) ==
  IF mtu < MtuMin THEN b
  ELSE [b EXCEPT !.mtu = mtu, !.mss = mtu - OVERHEAD,
                 !.buffer = BufferSize(mtu)]

(* The buffer is replaced: one block allocated, one freed.                 *)
SetMtu ==
  /\ Call("set_mtu", "nodelay", config.mtu \in PyInt_As_int,
          ikcp_setmtu(ckcp, config.mtu))
  /\ UNCHANGED heap

(* ikcp_nodelay: a negative argument leaves its field alone.               *)
ikcp_nodelay(b, nodelay, interval, resend, nc) ==
  [b EXCEPT
    !.nodelay = IF nodelay >= 0 THEN nodelay ELSE @,
    !.rx_minrto = IF nodelay < 0 THEN @ ELSE IF nodelay = 0 THEN RTO_MIN
                                                          ELSE RTO_NDL,
    !.interval = IF interval < 0 THEN @
                 ELSE imax(IntervalMin, imin(interval, IntervalMax)),
    !.fastresend = IF resend >= 0 THEN resend ELSE @,
    !.nocwnd = IF nc >= 0 THEN nc ELSE @]

NoDelay ==
  /\ Call("nodelay", "wndsize",
          {config.nodelay, config.interval, config.resend, config.nc}
            \subseteq PyInt_As_int,
          ikcp_nodelay(ckcp, config.nodelay, config.interval, config.resend,
                       config.nc))
  /\ UNCHANGED heap

ikcp_wndsize(b, sndwnd, rcvwnd) ==
  [b EXCEPT !.snd_wnd = IF sndwnd > 0 THEN sndwnd ELSE @,
            !.rcv_wnd = IF rcvwnd > 0 THEN imax(rcvwnd, WND_RCV) ELSE @]

WndSize ==
  /\ Call("wndsize", "open", {config.sndwnd, config.rcvwnd} \subseteq PyInt_As_int,
          ikcp_wndsize(ckcp, config.sndwnd, config.rcvwnd))
  /\ UNCHANGED heap

-----------------------------------------------------------------------------
(* The calls of a session.  Their arguments, lengths of bytes objects and  *)
(* readings of kcp_now, always fit.                                        *)

Go(name, next) == pc = name /\ pc' = next /\ UNCHANGED <<config, conv>>

\* mutation: a full last fragment is followed by an empty one
FragCount_OneMore(len, mss) == len \div mss + 1

FragCount(len, mss) == IF len <= mss THEN 1 ELSE (len + mss - 1) \div mss

(* TunnelTransportWrapper.write calls send and ignores its result: a       *)
(* message of WND_RCV fragments or more is not sent.                       *)
Send(len) ==
  LET n == FragCount(len, ckcp.mss)
  IN /\ Go("open", "open")
     /\ IF n >= WND_RCV
        THEN refused' = TRUE /\ UNCHANGED <<ckcp, heap>>
        ELSE /\ ckcp.nsnd_que + ckcp.nsnd_buf + n <= MaxQueued
             /\ ckcp' = [ckcp EXCEPT !.nsnd_que = @ + n,
                           !.longest = imax(@, imin(len, ckcp.mss))]
             /\ heap' = heap + n
             /\ UNCHANGED refused

(* What a header says of the receive queue: ikcp_wnd_unused in 16 bits.    *)
AdvertisedWnd(b) ==
  (IF b.nrcv_que < b.rcv_wnd THEN b.rcv_wnd - b.nrcv_que ELSE 0) % WndMod

(* The state property: the setter takes an int, the field and the getter   *)
(* are unsigned.                                                           *)
Stored_Signed(s) == s   \* mutation: the field is signed
Stored(s) == Wrap(s)
Close == /\ Go("open", "open")
         /\ ckcp' = [ckcp EXCEPT !.state = Stored(-1)]
         /\ UNCHANGED <<heap, refused>>

(* The tunnel and its sessions end with connection_lost.                   *)
Drop == Go("open", "dealloc") /\ UNCHANGED <<ckcp, heap, refused>>

-----------------------------------------------------------------------------
(* A datagram: input takes its segments one by one, then peeksize, and     *)
(* recv and flush if a message is complete.                                *)

Receive == Go("open", "input") /\ UNCHANGED <<ckcp, heap, refused>>

(* k segments in flight are acknowledged, by una or by sn, and deleted.    *)
InputAck ==
  /\ Go("input", "input")
  /\ \E k \in 1..ckcp.nsnd_buf :
       /\ ckcp' = [ckcp EXCEPT !.nsnd_buf = @ - k]
       /\ heap' = heap - k
  /\ UNCHANGED refused

\* mutation: the list keeps the size it was created with
GrowsTo_Once(count, block, n) == n = IF block = 0 THEN AckBlock ELSE block

(* ikcp_ack_push: a list that is full is replaced by one of n entries,     *)
(* AckBlock doubled until the new entry fits.                              *)
GrowsTo(count, block, n) ==
  IF count + 1 <= block THEN n = block
  ELSE /\ n \in {AckBlock * 2^k : k \in 0..count}
       /\ n >= count + 1
       /\ n = AckBlock \/ n \div 2 < count + 1

\* mutation: the window does not count
StopsAfter_Gap(m, b, buf) == 0..(m - 1) \subseteq buf /\ m \notin buf

(* The loop that moves segments in order from rcv_buf to rcv_queue stops   *)
(* after m of them.                                                        *)
StopsAfter(m, b, buf) ==
  /\ \A i \in 0..(m - 1) : i \in buf /\ b.nrcv_que + i < b.rcv_wnd
  /\ ~(m \in buf /\ b.nrcv_que + m < b.rcv_wnd)

(* b' is b with buf for its rcv_buf, and what is in order moved.           *)
MovedTo(new, b, buf, count) ==
  \E m \in 0..count :
    /\ StopsAfter(m, b, buf)
    /\ new = [b EXCEPT !.rcv_buf = {i - m : i \in buf \ 0..(m - 1)},
                       !.nrcv_buf = count - m, !.nrcv_que = @ + m]

(* ikcp_parse_data keeps a segment that is not in rcv_buf yet.             *)
Kept(b, i) == i >= 0 /\ i \notin b.rcv_buf

\* mutation: the copy of a segment that came before is not deleted
Copies_NotDeleted(b, i) == IF i >= 0 THEN 1 ELSE 0

(* The copies ikcp_input and ikcp_parse_data leave allocated.              *)
Copies(b, i) == IF Kept(b, i) THEN 1 ELSE 0

(* A data segment i places after rcv_nxt: one that is past the window is   *)
(* ignored, one that was read before is acknowledged only.                 *)
InputPush(i) ==
  /\ Go("input", "input")
  /\ i < ckcp.rcv_wnd /\ ckcp.ackcount < MaxAcks
  /\ \E n \in 1..(2 * AckBlock * MaxAcks) :
       /\ GrowsTo(ckcp.ackcount, ckcp.ackblock, n)
       /\ LET acked == [ckcp EXCEPT !.ackcount = @ + 1, !.ackblock = n]
          IN IF Kept(ckcp, i)
             THEN MovedTo(ckcp', acked, ckcp.rcv_buf \cup {i}, ckcp.nrcv_buf + 1)
             ELSE ckcp' = acked
  /\ heap' = heap + Copies(ckcp, i) + (IF ckcp.ackblock = 0 THEN 1 ELSE 0)
  /\ UNCHANGED refused

(* accept_connection only hands the buffered datagrams to input.           *)
InputEnd == /\ Go("input", "peeksize") \/ Go("input", "open")
            /\ UNCHANGED <<ckcp, heap, refused>>

(* peeksize is -1 while no message is complete; an empty message has size  *)
(* 0 and is not read either.                                               *)
Peek(name, next, otherwise) ==
  /\ (Go(name, next) /\ ckcp.nrcv_que > 0) \/ Go(name, otherwise)
  /\ UNCHANGED <<ckcp, heap, refused>>

(* recv deletes the k segments of a message and refills rcv_queue.         *)
Recv(name, next) ==
  /\ Go(name, next)
  /\ \E k \in 1..ckcp.nrcv_que :
       /\ MovedTo(ckcp', [ckcp EXCEPT !.nrcv_que = @ - k], ckcp.rcv_buf,
                  ckcp.nrcv_buf)
       /\ heap' = heap - k
  /\ UNCHANGED refused

(* ikcp_flush sends all acknowledgements, and gives m segments a number;   *)
(* a segment sent too often marks the link as dead.  What the Python       *)
(* function output raises is reported by output_wrapper and ends there.    *)
Flushed(new, b) ==
  \/ ~b.updated /\ new = b
  \/ /\ b.updated
     /\ \E m \in 0..b.nsnd_que, dead \in BOOLEAN :
          /\ b.nsnd_buf + m <= b.snd_wnd \/ m = 0
          /\ dead => b.nsnd_buf + m > 0
          /\ new = [b EXCEPT !.ackcount = 0, !.nsnd_que = @ - m,
                      !.nsnd_buf = @ + m, !.state = IF dead THEN Stored(-1) ELSE @]

Flush == /\ Go("flush", "open") /\ Flushed(ckcp', ckcp)
         /\ UNCHANGED <<heap, refused>>

(* Updater.update: ikcp_update flushes when its timer has expired.         *)
Update ==
  /\ Go("open", "state")
  /\ LET b == [ckcp EXCEPT !.updated = TRUE] IN ckcp' = b \/ Flushed(ckcp', b)
  /\ UNCHANGED <<heap, refused>>

(* kcp.state == -1: close_session drops the session.                       *)
State == /\ Go("state", IF ckcp.state = -1 THEN "dealloc" ELSE "peek")
         /\ UNCHANGED <<ckcp, heap, refused>>

(* ikcp_release frees the segments of the four queues, the list of         *)
(* acknowledgements, the buffer and the block.                             *)
Released(b) ==
  IF b = NULL THEN 0
  ELSE 2 + b.nsnd_buf + b.nrcv_buf + b.nsnd_que + b.nrcv_que
         + (IF b.ackblock > 0 THEN 1 ELSE 0)

(* tp_dealloc and __dealloc__, when the last reference is gone.            *)
Dealloc ==
  /\ Go("dealloc", "gone")
  /\ ckcp' = NULL
  /\ heap' = heap - Released(ckcp)
  /\ UNCHANGED refused

Next ==
  \/ Create \/ SetOutput \/ SetMtu \/ NoDelay \/ WndSize
  \/ \E len \in 0..ReadSize : Send(len)
  \/ Close \/ Drop \/ Dealloc
  \/ Receive \/ InputAck \/ (\E i \in Datagrams : InputPush(i)) \/ InputEnd
  \/ Peek("peeksize", "recv", "open") \/ Recv("recv", "flush") \/ Flush
  \/ Update \/ State \/ Peek("peek", "take", "open") \/ Recv("take", "open")

Spec == Init /\ [][Next]_vars

-----------------------------------------------------------------------------
(* Properties.                                                             *)

Calls == {"KCP", "set_output", "set_mtu", "nodelay", "wndsize"}   \* of new_kcp
Sessions == {"open", "input", "peeksize", "recv", "flush",
             "state", "peek", "take"}
Open == pc \in Sessions

(* Every field of the block stays in the range of its C type, the state    *)
(* included, which Python writes as a signed number.                       *)
TypeOK ==
  /\ pc \in Calls \cup Sessions \cup {"dealloc", "gone"}
  /\ config \in Configs /\ conv \in Convs
  /\ ckcp \in Block \cup {NULL}
  /\ heap \in Int /\ refused \in BOOLEAN

(* A session has a block that satisfies what ikcp.c takes for granted,     *)
(* whatever integers the configuration holds: an output function, a mss    *)
(* that is not 0, a reading window that takes the longest message, an      *)
(* interval and windows of at least 1 that are positive as C integers.     *)
Configured ==
  Open =>
    /\ ckcp # NULL /\ ckcp.output
    /\ ckcp.mss \in 1..(Half - 1) /\ ckcp.mtu = ckcp.mss + OVERHEAD
    /\ ckcp.rcv_wnd \in WND_RCV..(Half - 1)
    /\ ckcp.snd_wnd \in 1..(Half - 1)
    /\ ckcp.interval \in IntervalMin..IntervalMax
    /\ ckcp.rx_minrto \in {RTO_NDL, RTO_MIN}

(* A flush appends a header, and the data of a segment, when they fit the  *)
(* mtu or the buffer is empty: what it writes stays inside kcp->buffer,    *)
(* whatever mtu was set, and also if that was refused.                     *)
BufferFits ==
  ckcp # NULL => imax(ckcp.mtu, OVERHEAD + ckcp.longest) <= ckcp.buffer

(* ikcp_ack_push writes inside the list it allocated.                      *)
AcksFit == ckcp # NULL => ckcp.ackcount <= ckcp.ackblock

(* Both loops that fill rcv_queue stop at the window, and the peer is told *)
(* the exact room that is left: unless more is configured than a header    *)
(* can say.                                                                *)
WindowShown ==
  Open /\ config.rcvwnd < WndMod =>
    AdvertisedWnd(ckcp) = ckcp.rcv_wnd - ckcp.nrcv_que

(* The end of a session frees what ikcp_malloc gave out for it, no more    *)
(* and no less, also if the session never began.                           *)
NoLeak == heap >= 0 /\ (pc = "gone" => heap = 0)

(* With an mtu this large the longest write is never refused by ikcp_send, *)
(* which write would not notice.                                           *)
SafeMtu == OVERHEAD + (ReadSize + WND_RCV - 2) \div (WND_RCV - 1)
WritesAccepted == config.mtu >= SafeMtu => ~refused
=============================================================================
