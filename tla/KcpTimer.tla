------------------------------ MODULE KcpTimer ------------------------------
(***************************************************************************)
(* The timers of one KCP control block: when ikcp_update flushes, when a   *)
(* segment is sent again, how the retransmission timeout is estimated,     *)
(* when the peer's closed window is probed, and what ikcp_check answers.   *)
(* KcpBlock leaves these moments open; here they are computed, modulo W.   *)
(*                                                                         *)
(* now is what kcp_now read for the last ikcp_update, not wrapped: the     *)
(* code holds kcp->current = Wrap(now).                                    *)
(* How many fragments the windows admit is left open, as is which          *)
(* acknowledgements arrive: that is KcpBlock's part.                       *)
(***************************************************************************)
EXTENDS SeqNum, FiniteSets

CONSTANTS
  Interval,             \* kcp->interval
  NoDelay,              \* kcp->nodelay # 0
  FastResend,           \* kcp->fastresend, 0 is off
  RTO_NDL, RTO_MIN, RTO_DEF, RTO_MAX,
  PROBE_INIT, PROBE_LIMIT,
  JUMP,                 \* the 10000 of ikcp_update and ikcp_check
  Start,                \* the clock when the block is created
  Steps,                \* how far the clock moves between two updates
  MaxNow,               \* bound: the last reading of the clock
  MaxSegs,              \* bound: segments sent
  MaxAcks               \* bound: acknowledgements on their way

ASSUME TimerAssumption ==
  /\ Interval \in Nat \ {0} /\ NoDelay \in BOOLEAN /\ FastResend \in Nat
  /\ {RTO_NDL, RTO_MIN, RTO_DEF, RTO_MAX} \subseteq Nat \ {0, 1}
  /\ RTO_NDL <= RTO_MIN /\ RTO_MIN <= RTO_DEF /\ RTO_DEF <= RTO_MAX
  /\ PROBE_INIT \in Nat \ {0} /\ PROBE_LIMIT \in Nat /\ PROBE_INIT <= PROBE_LIMIT
  /\ JUMP \in Nat /\ Interval < JUMP /\ JUMP < Half
  /\ Start \in Nat /\ Steps \subseteq Int 
  /\ {MaxNow, MaxSegs, MaxAcks} \subseteq Nat

VARIABLES
  now, updated, ts_flush,
  rx_srtt, rx_rttval, rx_rto,
  snd_buf,              \* segments in flight, see Segment
  snd_nxt,
  acks,                 \* acknowledgements that may still arrive
  shut,                 \* rmt_wnd = 0
  ts_probe, probe_wait,
  asked                 \* history: when the probe timer was armed or last fired

rttVars == <<rx_srtt, rx_rttval, rx_rto>>
probeVars == <<ts_probe, probe_wait, asked>>
vars == <<now, updated, ts_flush, rttVars, snd_buf, snd_nxt, acks, shut,
          probeVars>>

(* sent is the reading at the last transmission; the code's ts is          *)
(* Wrap(sent), in the segment and in its acknowledgement.                  *)
Segment == [sn : Nat, sent : Int, rto : Nat, resendts : 0..(W - 1), fastack : Nat]

minOf(a, b) == IF a <= b THEN a ELSE b
maxOf(a, b) == IF a >= b THEN a ELSE b
abs(n) == maxOf(n, -n)

rx_minrto == IF NoDelay THEN RTO_NDL ELSE RTO_MIN
current == Wrap(now)

Init ==
  /\ now = Start /\ updated = FALSE /\ ts_flush = Wrap(Interval)
  /\ rx_srtt = 0 /\ rx_rttval = 0 /\ rx_rto = RTO_DEF
  /\ snd_buf = {} /\ snd_nxt = 0 /\ acks = {}
  /\ shut = FALSE /\ ts_probe = 0 /\ probe_wait = 0 /\ asked = 0

-----------------------------------------------------------------------------
(* ikcp_flush: the transmission loop at the reading r.                     *)

\* mutation: the first timeout is doubled
rtomin_Whole == IF NoDelay THEN 0 ELSE rx_rto

rtomin == IF NoDelay THEN 0 ELSE rx_rto \div 8

New(sn, r) == [sn |-> sn, sent |-> r, rto |-> rx_rto,
               resendts |-> Wrap(r + rx_rto + rtomin), fastack |-> 0]

Expired(x, r) == itimediff(Wrap(r), x.resendts) >= 0
Fast(x) == FastResend > 0 /\ x.fastack >= FastResend

Resent(x, r) ==
  LET longer == x.rto + (IF NoDelay THEN rx_rto \div 2 ELSE rx_rto)
  IN IF Expired(x, r)
     THEN [x EXCEPT !.sent = r, !.rto = longer, !.resendts = Wrap(r + longer)]
     ELSE IF Fast(x)
     THEN [x EXCEPT !.sent = r, !.resendts = Wrap(r + x.rto), !.fastack = 0]
     ELSE x

(* The window probe: armed when the window is found closed, and fired with *)
(* growing delays while it stays closed.                                   *)
ProbeFires(r) == probe_wait # 0 /\ itimediff(Wrap(r), ts_probe) >= 0

\* mutation: the growth of the delay has no limit
NextWait_Unlimited == IF probe_wait = 0 THEN PROBE_INIT
                      ELSE probe_wait + probe_wait \div 2

NextWait == IF probe_wait = 0 THEN PROBE_INIT
            ELSE minOf(probe_wait + probe_wait \div 2, PROBE_LIMIT)

Probe(r) ==
  IF ~shut
  THEN ts_probe' = 0 /\ probe_wait' = 0 /\ asked' = 0
  ELSE IF probe_wait = 0 \/ ProbeFires(r)
  THEN /\ probe_wait' = NextWait
       /\ ts_probe' = Wrap(r + NextWait)
       /\ asked' = r
  ELSE UNCHANGED probeVars

ikcp_flush(r) ==
  \E k \in 0..(IF shut THEN 0 ELSE MaxSegs - snd_nxt) :
    LET new == {New(snd_nxt + i, r) : i \in 0..(k - 1)}
        old == {Resent(x, r) : x \in snd_buf}
    IN /\ snd_buf' = old \cup new
       /\ snd_nxt' = snd_nxt + k
       /\ \E kept \in SUBSET (acks \cup {[sn |-> x.sn, sent |-> x.sent] :
                                         x \in old \cup new}) :
            Cardinality(kept) <= MaxAcks /\ acks' = kept
       /\ Probe(r)

-----------------------------------------------------------------------------
(* ikcp_update at the reading r.                                           *)

Slap(r) == IF updated THEN itimediff(Wrap(r), ts_flush) ELSE 0

\* mutation: a clock that was set back is not noticed
Jumped_ForwardOnly(slap) == slap >= JUMP

Jumped(slap) == slap >= JUMP \/ slap < -JUMP

Flushes(r) == Slap(r) >= 0 \/ Jumped(Slap(r))

\* mutation: a late update is followed by flushes that catch up
NextFlush_NoCatchUp(r) ==
  Wrap((IF updated /\ ~Jumped(Slap(r)) THEN ts_flush ELSE r) + Interval)

(* The next flush is one interval after the planned time of this one, or   *)
(* after now when that has passed or the clock has jumped.                 *)
NextFlush(r) ==
  LET planned == IF updated /\ ~Jumped(Slap(r)) THEN ts_flush ELSE r
      next == Wrap(planned + Interval)
  IN IF itimediff(Wrap(r), next) >= 0 THEN Wrap(r + Interval) ELSE next

UpdateAt(r) ==
  /\ now' = r
  /\ updated' = TRUE
  /\ IF Flushes(r)
     THEN ts_flush' = NextFlush(r) /\ ikcp_flush(r)
     ELSE UNCHANGED <<ts_flush, snd_buf, snd_nxt, acks, probeVars>>
  /\ UNCHANGED <<rttVars, shut>>

Update == \E d \in Steps : now + d \in Start..MaxNow /\ UpdateAt(now + d)

(* The flush after a read in datagram_received: with the old reading.      *)
Flush ==
  /\ updated
  /\ ikcp_flush(now)
  /\ UNCHANGED <<now, updated, ts_flush, rttVars, shut>>

\* mutation: only the segments in flight are looked at
ikcp_check_PacketsOnly(r) ==
  LET toResend == {itimediff(x.resendts, Wrap(r)) : x \in snd_buf}
      minimal == CHOOSE d \in toResend \cup {Interval} :
                   \A e \in toResend \cup {Interval} : d <= e
  IN IF ~updated \/ Flushes(r) \/ minimal <= 0 THEN Wrap(r) ELSE Wrap(r + minimal)

(* ikcp_check at the reading r. *)
ikcp_check(r) ==
  LET toFlush == itimediff(ts_flush, Wrap(r))
      toResend == {itimediff(x.resendts, Wrap(r)) : x \in snd_buf}
      minimal == CHOOSE d \in toResend \cup {toFlush, Interval} :
                   \A e \in toResend \cup {toFlush, Interval} : d <= e
  IN IF ~updated \/ Flushes(r) \/ minimal <= 0 THEN Wrap(r) ELSE Wrap(r + minimal)

-----------------------------------------------------------------------------
(* ikcp_input.  Every datagram brings the peer's window and its una.       *)

AfterUna(una) == {x \in snd_buf : x.sn >= una}

bounded(lower, middle, upper) == minOf(maxOf(lower, middle), upper)

update_ack(rtt) ==
  LET first == rx_srtt = 0
      val == IF first THEN rtt \div 2 ELSE (3 * rx_rttval + abs(rtt - rx_srtt)) \div 4
      srtt == IF first THEN rtt ELSE maxOf((7 * rx_srtt + rtt) \div 8, 1)
  IN <<srtt, val, bounded(rx_minrto, srtt + maxOf(Interval, 4 * val), RTO_MAX)>>

(* ... with a datagram that acknowledges one transmission.                 *)
InputAck(a, una) ==
  /\ LET rtt == itimediff(current, Wrap(a.sent))
     IN IF rtt >= 0
        THEN /\ rx_srtt' = update_ack(rtt)[1]
             /\ rx_rttval' = update_ack(rtt)[2]
             /\ rx_rto' = update_ack(rtt)[3]
        ELSE UNCHANGED rttVars
  /\ snd_buf' = {IF x.sn < a.sn
                 THEN [x EXCEPT !.fastack = minOf(@ + 1, FastResend)] ELSE x :
                   x \in {y \in AfterUna(una) : y.sn # a.sn}}
  /\ acks' \in {acks, acks \ {a}}
  /\ shut' \in BOOLEAN
  /\ UNCHANGED <<now, updated, ts_flush, snd_nxt, probeVars>>

(* ... with one that acknowledges nothing but by its una field.            *)
InputOther(una) ==
  /\ snd_buf' = AfterUna(una)
  /\ shut' \in BOOLEAN
  /\ UNCHANGED <<now, updated, ts_flush, rttVars, snd_nxt, acks, probeVars>>

Next == \/ Update \/ Flush
        \/ \E una \in 0..snd_nxt : \/ \E a \in acks : InputAck(a, una)
                                  \/ InputOther(una)

Spec == Init /\ [][Next]_vars

-----------------------------------------------------------------------------
TypeOK ==
  /\ now \in Nat /\ updated \in BOOLEAN
  /\ ts_flush \in 0..(W - 1) /\ ts_probe \in 0..(W - 1)
  /\ rx_srtt \in Nat /\ rx_rttval \in Nat
  /\ rx_rto \in rx_minrto..RTO_MAX
  /\ snd_buf \in SUBSET Segment /\ snd_nxt \in Nat
  /\ acks \in SUBSET [sn : Nat, sent : Nat]
  /\ shut \in BOOLEAN /\ probe_wait \in Nat /\ asked \in Nat

(* After an update the next flush is planned, and it is planned within the *)
(* interval: the link never falls silent, also when the timestamps wrap.   *)
FlushPlanned == updated => itimediff(ts_flush, current) \in 1..Interval

(* The same when the clock may be set back or forth: at most JUMP away.    *)
FlushPlannedAfterJump ==
  updated => itimediff(ts_flush, current) \in 1..maxOf(Interval, JUMP)

(* A segment that was not acknowledged is not left longer than its rto, an *)
(* eighth of the largest estimate and one interval.                        *)
NoLateTimeout ==
  \A x \in snd_buf : now - x.sent < x.rto + RTO_MAX \div 8 + Interval

(* A closed window is asked about again and again: PROBE_LIMIT after the   *)
(* last probe the next flush sends one, and the last flush before that     *)
(* moment has planned it within the interval.                              *)
ProbedInTime ==
  shut /\ probe_wait # 0 => now - asked < PROBE_LIMIT + Interval - 1

(* Whoever calls ikcp_update only at the times ikcp_check names misses no  *)
(* flush: before that time an update would not flush.                      *)
CheckMissesNothing ==
  \A r \in now..(now + Interval) :
    LET wait == itimediff(ikcp_check(r), Wrap(r))
    IN /\ wait \in 0..Interval
       /\ \A d \in 0..(wait - 1) : ~Flushes(r + d)

(* ikcp.c, above ikcp_check: the function "returns when you should invoke  *)
(* ikcp_update", to "reduce unnacessary ikcp_update invoking".             *)
CheckNamesAFlush ==
  updated => Flushes(now + itimediff(ikcp_check(now), current))
=============================================================================
