--------------------------- MODULE KcpTimerProofs ---------------------------
(***************************************************************************)
(* For every width, interval and clock: the next flush is always planned,  *)
(* and near; the timers keep their types, the retransmission timeout its   *)
(* limits; timeouts and probes come in time, and none too early; and       *)
(* ikcp_check misses no flush.                                             *)
(***************************************************************************)
EXTENDS KcpTimer, SeqNumProofs, WellFoundedInduction

(* What the planning of the flushes rests on. *)
PlanType == now \in Nat /\ updated \in BOOLEAN /\ ts_flush \in 0..(W - 1)

LEMMA Constants ==
  /\ Interval \in Nat \ {0} /\ JUMP \in Nat /\ Start \in Nat /\ Steps \subseteq Int
  /\ Half \in Nat /\ Interval < JUMP /\ JUMP < Half
BY TimerAssumption, WidthAssumption DEF Half

LEMMA PlanInit == Init => PlanType
<1>1. Wrap(Interval) \in 0..(W - 1)
  BY Constants, WrapRange
<1> QED  BY <1>1, Constants DEF Init, PlanType

(* A flush at reading r plans the next one within the interval.            *)
LEMMA NextIsNear ==
  ASSUME PlanType, NEW r \in Nat, Flushes(r)
  PROVE  /\ NextFlush(r) \in 0..(W - 1)
         /\ itimediff(NextFlush(r), Wrap(r)) \in 1..Interval
<1> DEFINE s == Slap(r)
           f == IF updated /\ ~Jumped(s) THEN r - s ELSE r
           t == IF updated /\ ~Jumped(s) THEN ts_flush ELSE r
<1> USE Constants
<1>1. s \in Int
  BY DifferenceRange, WrapRange, WidthAssumption DEF Slap, PlanType
<1>2. f \in Int /\ t \in Int /\ f <= r /\ r - f < JUMP
  BY <1>1, WidthAssumption DEF Flushes, Jumped, PlanType
<1>3. Wrap(t + Interval) = Wrap(f + Interval)
  <2>1. CASE updated /\ ~Jumped(s)
    <3>1. ts_flush = Wrap(r - s)
      BY <2>1, DifferenceBack DEF Slap, PlanType
    <3> QED  BY <2>1, <3>1, <1>1, WrapAdd
  <2>2. CASE ~(updated /\ ~Jumped(s))
    BY <2>2
  <2> QED  BY <2>1, <2>2
<1>4. itimediff(Wrap(r), Wrap(f + Interval)) = r - (f + Interval)
  BY <1>2, DifferenceExact
<1>5. NextFlush(r) = IF r - (f + Interval) >= 0 THEN Wrap(r + Interval)
                     ELSE Wrap(f + Interval)
  BY <1>3, <1>4 DEF NextFlush
<1>6. CASE r - (f + Interval) >= 0
  <2>1. itimediff(Wrap(r + Interval), Wrap(r)) = Interval
    BY DifferenceExact
  <2>2. Wrap(r + Interval) \in 0..(W - 1)
    BY WrapRange
  <2> QED  BY <1>5, <1>6, <2>1, <2>2
<1>7. CASE ~(r - (f + Interval) >= 0)
  <2>1. itimediff(Wrap(f + Interval), Wrap(r)) = f + Interval - r
    BY <1>2, <1>7, DifferenceExact
  <2>2. Wrap(f + Interval) \in 0..(W - 1)
    BY <1>2, WrapRange
  <2> QED  BY <1>2, <1>5, <1>7, <2>1, <2>2
<1> QED  BY <1>6, <1>7

(* An update that does not flush leaves a plan that lies ahead.            *)
LEMMA PlanAhead ==
  ASSUME PlanType, NEW r \in Nat, ~Flushes(r)
  PROVE  /\ updated /\ Slap(r) \in (-JUMP)..(-1)
         /\ ts_flush = Wrap(r - Slap(r))
         /\ itimediff(ts_flush, Wrap(r)) = -Slap(r)
<1> USE Constants
<1>1. updated /\ Slap(r) = itimediff(Wrap(r), ts_flush)
  BY DEF Flushes, Slap
<1>2. Slap(r) \in Int
  BY <1>1, DifferenceRange, WrapRange, WidthAssumption DEF PlanType
<1>3. Slap(r) \in (-JUMP)..(-1)
  BY <1>2 DEF Flushes, Jumped
<1>4. ts_flush = Wrap(r - Slap(r))
  BY <1>1, DifferenceBack DEF PlanType
<1>5. itimediff(Wrap(r - Slap(r)), Wrap(r)) = -Slap(r)
  BY <1>3, DifferenceExact
<1> QED  BY <1>1, <1>3, <1>4, <1>5

(* Whatever the reading, an update leaves the next flush near.             *)
LEMMA NearStep ==
  ASSUME PlanType, FlushPlannedAfterJump, NEW r \in Nat, UpdateAt(r)
  PROVE  PlanType' /\ FlushPlannedAfterJump'
<1> USE Constants
<1>1. /\ now' = r /\ updated' = TRUE
      /\ IF Flushes(r) THEN ts_flush' = NextFlush(r) ELSE UNCHANGED ts_flush
  BY DEF UpdateAt
<1>2. CASE Flushes(r)
  <2>1. /\ NextFlush(r) \in 0..(W - 1)
        /\ itimediff(NextFlush(r), Wrap(r)) \in 1..Interval
    BY <1>2, NextIsNear
  <2> QED  BY <1>1, <1>2, <2>1 DEF PlanType, FlushPlannedAfterJump, current, maxOf
<1>3. CASE ~Flushes(r)
  <2>1. Slap(r) \in (-JUMP)..(-1) /\ itimediff(ts_flush, Wrap(r)) = -Slap(r)
    BY <1>3, PlanAhead
  <2> QED  BY <1>1, <1>3, <2>1 DEF PlanType, FlushPlannedAfterJump, current, maxOf
<1> QED  BY <1>2, <1>3

(* Whatever the clock does, forwards or backwards and by any distance, an  *)
(* updated block has a flush planned at most max(Interval, JUMP) ahead.    *)
THEOREM FlushNear == Spec => []FlushPlannedAfterJump
<1> DEFINE Near == PlanType /\ FlushPlannedAfterJump
<1>1. Init => Near
  BY PlanInit DEF Init, FlushPlannedAfterJump
<1>2. Near /\ [Next]_vars => Near'
  <2> SUFFICES ASSUME Near, [Next]_vars PROVE Near'
    OBVIOUS
  <2>1. CASE Update
    <3>1. PICK d \in Steps : now + d \in Start..MaxNow /\ UpdateAt(now + d)
      BY <2>1 DEF Update
    <3>2. now + d \in Nat
      BY <3>1, Constants, TimerAssumption
    <3> QED  BY <3>1, <3>2, NearStep
  <2>2. CASE UNCHANGED <<now, updated, ts_flush>>
    BY <2>2 DEF PlanType, FlushPlannedAfterJump, current
  <2> QED  BY <2>1, <2>2 DEF Next, Flush, InputAck, InputOther, vars
<1>3. Near => FlushPlannedAfterJump
  OBVIOUS
<1> QED  BY <1>1, <1>2, <1>3, PTL DEF Spec

LEMMA PlanTypeStep == PlanType /\ [Next]_vars => PlanType'
<1> SUFFICES ASSUME PlanType, [Next]_vars PROVE PlanType'
  OBVIOUS
<1>1. CASE Update
  <2>1. PICK d \in Steps : /\ now + d \in Start..MaxNow
                           /\ now' = now + d
                           /\ updated' = TRUE
                           /\ IF Flushes(now') THEN ts_flush' = NextFlush(now')
                              ELSE UNCHANGED ts_flush
    BY <1>1 DEF Update, UpdateAt
  <2>2. now' \in Nat
    BY <2>1, Constants, TimerAssumption
  <2> QED  BY <2>1, <2>2, NextIsNear DEF PlanType
<1>2. CASE UNCHANGED <<now, updated, ts_flush>>
  BY <1>2 DEF PlanType
<1> QED  BY <1>1, <1>2 DEF Next, Flush, InputAck, InputOther, vars

(* The reading at which the next flush is planned.                         *)
plannedAt == now + itimediff(ts_flush, current)

(* The time that itimediff says lies ahead of r is the one meant.          *)
LEMMA AheadOf ==
  ASSUME NEW r \in Int, NEW t \in 0..(W - 1), itimediff(t, Wrap(r)) >= 0
  PROVE  t = Wrap(r + itimediff(t, Wrap(r)))
<1> DEFINE m == itimediff(Wrap(r), t)
<1>1. Half \in Nat /\ W = 2 * Half /\ W \in Nat /\ Wrap(r) \in Int /\ t \in Int /\ Half > 0
  BY WidthAssumption, WrapRange DEF Half
<1>2. m \in (-Half)..(Half - 1)  BY <1>1, DifferenceRange
<1>3. t = Wrap(r - m)  BY DifferenceBack
<1> HIDE DEF m
<1>4. CASE m = -Half
  <2>1. r - m = (r - Half) + W * 1 /\ r - Half \in Int  BY <1>1, <1>4
  <2>2. Wrap(r - m) = Wrap(r - Half)  BY <2>1, WrapShift
  <2>3. itimediff(Wrap(r - Half), Wrap(r)) = -Half  BY <1>1, <2>1, DifferenceExact
  <2> QED BY <1>1, <1>3, <2>2, <2>3
<1>5. CASE m # -Half
  <2>1. r - m \in Int /\ (r - m) - r \in (-Half)..(Half - 1)  BY <1>1, <1>2, <1>5
  <2>2. itimediff(Wrap(r - m), Wrap(r)) = (r - m) - r  BY <2>1, DifferenceExact
  <2>3. r + itimediff(t, Wrap(r)) = r - m  BY <1>2, <1>3, <2>2
  <2> QED BY <1>3, <2>3
<1> QED BY <1>4, <1>5

(* Within half the range of the last update, an update flushes exactly     *)
(* from the planned time on.                                               *)
LEMMA FlushesFrom ==
  ASSUME PlanType, FlushPlanned, updated, NEW r \in Nat, r \in now..(now + Half)
  PROVE  /\ plannedAt \in (now + 1)..(now + Interval)
         /\ ts_flush = Wrap(plannedAt)
         /\ Flushes(r) <=> r >= plannedAt
<1> DEFINE e == itimediff(ts_flush, Wrap(now))
<1>1. now \in Nat /\ ts_flush \in 0..(W - 1)  BY DEF PlanType
<1>2. e \in 1..Interval  BY DEF FlushPlanned, current
<1>3. plannedAt = now + e  BY DEF plannedAt, current
<1> HIDE DEF e
<1>4. plannedAt \in (now + 1)..(now + Interval) /\ plannedAt \in Int
  BY <1>1, <1>2, <1>3, Constants
<1>5. ts_flush = Wrap(plannedAt)
  <2>1. itimediff(ts_flush, Wrap(now)) = e /\ e >= 0  BY <1>2, Constants DEF e
  <2> QED BY <1>1, <1>3, <2>1, AheadOf
<1>6. r - plannedAt \in (-Half)..(Half - 1)
  BY <1>1, <1>4, Constants
<1>7. itimediff(Wrap(r), Wrap(plannedAt)) = r - plannedAt  BY <1>4, <1>6, DifferenceExact
<1>8. Slap(r) = r - plannedAt  BY <1>5, <1>7 DEF Slap
<1>9. r - plannedAt >= -Interval  BY <1>1, <1>4, Constants
<1> QED BY <1>4, <1>5, <1>6, <1>8, <1>9, Constants DEF Flushes, Jumped

LEMMA PlannedStep ==
  ASSUME Steps \subseteq 0..(Half - 1), PlanType, FlushPlanned, [Next]_vars
  PROVE  FlushPlanned'
<1>1. CASE Update
  <2>1. PICK d \in Steps : /\ now + d \in Start..MaxNow
                           /\ now' = now + d
                           /\ updated' = TRUE
                           /\ IF Flushes(now') THEN ts_flush' = NextFlush(now')
                              ELSE UNCHANGED ts_flush
    BY <1>1 DEF Update, UpdateAt
  <2>2. now' \in Nat /\ now \in Nat /\ now' \in now..(now + Half)
    BY <2>1, Constants, TimerAssumption DEF PlanType
  <2>3. CASE Flushes(now')
    <3>1. itimediff(NextFlush(now'), Wrap(now')) \in 1..Interval
      BY <2>2, <2>3, NextIsNear
    <3> QED  BY <2>1, <2>3, <3>1 DEF FlushPlanned, current
  <2>4. CASE ~Flushes(now')
    <3>1. PICK r \in Nat : r = now'  BY <2>2
    <3>2. updated  BY <2>2, <2>4, PlanAhead
    <3>3. plannedAt \in (now + 1)..(now + Interval) /\ ts_flush = Wrap(plannedAt)
          /\ r < plannedAt
      BY <2>2, <2>4, <3>1, <3>2, FlushesFrom
    <3>4. plannedAt \in Int /\ plannedAt - r \in 1..Interval
          /\ plannedAt - r \in (-Half)..(Half - 1)
      <4>1. now \in Nat /\ r >= now  BY <2>2, <3>1
      <4> QED BY <3>3, <4>1, Constants
    <3>5. itimediff(Wrap(plannedAt), Wrap(r)) = plannedAt - r
      BY <3>4, DifferenceExact
    <3> QED  BY <2>1, <2>4, <3>1, <3>3, <3>4, <3>5 DEF FlushPlanned, current
  <2> QED  BY <2>3, <2>4
<1>2. CASE UNCHANGED <<now, updated, ts_flush>>
  BY <1>2 DEF FlushPlanned, current
<1> QED  BY <1>1, <1>2 DEF Next, Flush, InputAck, InputOther, vars

(* A clock that only goes forwards, by less than half the range, keeps the *)
(* next flush within the interval, also where the timestamps wrap.         *)
THEOREM FlushOnTime ==
  ASSUME Steps \subseteq 0..(Half - 1)
  PROVE  Spec => []FlushPlanned
<1> DEFINE Planned == PlanType /\ FlushPlanned
<1>1. Init => Planned
  BY PlanInit DEF Init, FlushPlanned
<1>2. Planned /\ [Next]_vars => Planned'
  BY PlanTypeStep, PlannedStep
<1>3. Planned => FlushPlanned
  OBVIOUS
<1> QED  BY <1>1, <1>2, <1>3, PTL DEF Spec

-----------------------------------------------------------------------------
(* Types, the range of the retransmission timeout among them.              *)
TimerInv == TypeOK /\ \A x \in snd_buf : x.sent \in Nat

LEMMA TimerFacts ==
  /\ Interval \in Nat /\ FastResend \in Nat /\ RTO_DEF \in Nat /\ RTO_MAX \in Nat
  /\ rx_minrto \in Nat /\ rx_minrto <= RTO_DEF /\ RTO_DEF <= RTO_MAX
  /\ PROBE_INIT \in Nat /\ PROBE_LIMIT \in Nat /\ Start \in Nat
BY TimerAssumption DEF rx_minrto

LEMMA Halves ==
  /\ \A n \in Nat : n \div 2 \in Nat /\ n \div 4 \in Nat /\ n \div 8 \in Nat
  /\ \A n \in Nat : Wrap(n) \in 0..(W - 1)
BY WrapRange

LEMMA TimerInit == Init => TimerInv
<1>1. 0 \in 0..(W - 1) /\ Wrap(Interval) \in 0..(W - 1)
  BY TimerFacts, Halves, WidthAssumption
<1>2. RTO_DEF \in rx_minrto..RTO_MAX  BY TimerFacts
<1>3. Init => /\ updated \in BOOLEAN /\ shut \in BOOLEAN
              /\ snd_buf \in SUBSET Segment /\ \A x \in snd_buf : x.sent \in Nat
              /\ acks \in SUBSET [sn : Nat, sent : Nat]
  BY DEF Init
<1> QED BY <1>1, <1>2, <1>3, TimerFacts DEF Init, TimerInv, TypeOK

(* What an estimate of the round trip leaves is between its two limits.    *)
LEMMA EstimateType ==
  ASSUME TypeOK, NEW rtt \in Nat
  PROVE  /\ update_ack(rtt)[1] \in Nat /\ update_ack(rtt)[2] \in Nat
         /\ update_ack(rtt)[3] \in rx_minrto..RTO_MAX
<1> DEFINE val == IF rx_srtt = 0 THEN rtt \div 2
                  ELSE (3 * rx_rttval + abs(rtt - rx_srtt)) \div 4
           srtt == IF rx_srtt = 0 THEN rtt ELSE maxOf((7 * rx_srtt + rtt) \div 8, 1)
<1>1. rx_srtt \in Nat /\ rx_rttval \in Nat  BY DEF TypeOK
<1>2. val \in Nat
  <2>1. abs(rtt - rx_srtt) \in Nat  BY <1>1 DEF abs, maxOf
  <2>2. 3 * rx_rttval + abs(rtt - rx_srtt) \in Nat  BY <1>1, <2>1
  <2> QED BY <2>2, Halves
<1>3. srtt \in Nat
  <2>1. 7 * rx_srtt + rtt \in Nat  BY <1>1
  <2>2. (7 * rx_srtt + rtt) \div 8 \in Nat  BY <2>1, Halves
  <2> QED BY <2>2 DEF maxOf
<1>4. update_ack(rtt)
        = <<srtt, val, bounded(rx_minrto, srtt + maxOf(Interval, 4 * val), RTO_MAX)>>
  BY DEF update_ack
<1> HIDE DEF val, srtt
<1>5. srtt + maxOf(Interval, 4 * val) \in Nat  BY <1>2, <1>3, TimerFacts DEF maxOf
<1>6. \A n \in Nat : bounded(rx_minrto, n, RTO_MAX) \in rx_minrto..RTO_MAX
  BY TimerFacts DEF bounded, minOf, maxOf
<1> QED BY <1>2, <1>3, <1>4, <1>5, <1>6

LEMMA SentAgain ==
  ASSUME NEW x \in Segment, NEW r \in Int, NEW t \in 0..(W - 1), NEW n \in Nat
  PROVE  /\ [x EXCEPT !.sent = r, !.rto = n, !.resendts = t] \in Segment
         /\ [x EXCEPT !.sent = r, !.resendts = t, !.fastack = 0] \in Segment
BY WidthAssumption DEF Segment

(* A segment as the transmission loop makes it and leaves it.              *)
LEMMA SegmentType ==
  ASSUME TimerInv, NEW r \in Nat
  PROVE  /\ \A sn \in Nat : New(sn, r) \in Segment /\ New(sn, r).sent \in Nat
         /\ \A x \in snd_buf : /\ Resent(x, r) \in Segment /\ Resent(x, r).sent \in Nat
                               /\ Resent(x, r).sn \in Nat
<1>0. r \in Int  OBVIOUS
<1>1. rx_rto \in Nat /\ rx_rto \div 2 \in Nat /\ rtomin \in Nat
  BY TimerFacts, Halves DEF TimerInv, TypeOK, rtomin
<1>2. ASSUME NEW sn \in Nat PROVE New(sn, r) \in Segment /\ New(sn, r).sent \in Nat
  <2>1. r + rx_rto + rtomin \in Nat  BY <1>1
  <2>2. Wrap(r + rx_rto + rtomin) \in 0..(W - 1)  BY <2>1, Halves
  <2> QED BY <1>1, <2>2 DEF New, Segment
<1>3. ASSUME NEW x \in snd_buf
      PROVE  /\ Resent(x, r) \in Segment /\ Resent(x, r).sent \in Nat
             /\ Resent(x, r).sn \in Nat
  <2> DEFINE longer == x.rto + (IF NoDelay THEN rx_rto \div 2 ELSE rx_rto)
  <2>1. x \in Segment /\ x.sent \in Nat  BY DEF TimerInv, TypeOK
  <2>2. longer \in Nat /\ r + longer \in Nat /\ r + x.rto \in Nat  BY <1>1, <2>1 DEF Segment
  <2>3. Resent(x, r) =
          IF Expired(x, r)
          THEN [x EXCEPT !.sent = r, !.rto = longer, !.resendts = Wrap(r + longer)]
          ELSE IF Fast(x)
          THEN [x EXCEPT !.sent = r, !.resendts = Wrap(r + x.rto), !.fastack = 0]
          ELSE x
    BY DEF Resent
  <2> HIDE DEF longer
  <2>4. PICK t \in 0..(W - 1), u \in 0..(W - 1) : t = Wrap(r + longer) /\ u = Wrap(r + x.rto)
    BY <2>2, Halves
  <2>5. CASE Expired(x, r)
    <3>1. Resent(x, r) = [x EXCEPT !.sent = r, !.rto = longer, !.resendts = t]
      BY <2>3, <2>4, <2>5
    <3>2. [x EXCEPT !.sent = r, !.rto = longer, !.resendts = t] \in Segment
      BY <1>0, <2>1, <2>2, SentAgain
    <3>3. Resent(x, r).sent = r  BY <2>1, <3>1 DEF Segment
    <3> QED BY <3>1, <3>2, <3>3 DEF Segment
  <2>6. CASE ~Expired(x, r) /\ Fast(x)
    <3>1. Resent(x, r) = [x EXCEPT !.sent = r, !.resendts = u, !.fastack = 0]
      BY <2>3, <2>4, <2>6
    <3>2. [x EXCEPT !.sent = r, !.resendts = u, !.fastack = 0] \in Segment
      BY <1>0, <2>1, <2>2, SentAgain
    <3>3. Resent(x, r).sent = r  BY <2>1, <3>1 DEF Segment
    <3> QED BY <3>1, <3>2, <3>3 DEF Segment
  <2>7. CASE ~Expired(x, r) /\ ~Fast(x)
    <3>1. Resent(x, r) = x  BY <2>3, <2>7
    <3> QED BY <2>1, <3>1 DEF Segment
  <2> QED BY <2>5, <2>6, <2>7
<1> QED BY <1>2, <1>3

LEMMA ProbeType ==
  ASSUME TypeOK, NEW r \in Nat, Probe(r)
  PROVE  ts_probe' \in 0..(W - 1) /\ probe_wait' \in Nat /\ asked' \in Nat
<1>1. NextWait \in Nat
  <2>1. probe_wait + probe_wait \div 2 \in Nat  BY Halves DEF TypeOK
  <2> QED BY <2>1, TimerFacts DEF NextWait, minOf
<1>2. r + NextWait \in Nat  BY <1>1
<1>3. Wrap(r + NextWait) \in 0..(W - 1) /\ 0 \in 0..(W - 1)
  BY <1>2, Halves, WidthAssumption
<1> QED BY <1>1, <1>3 DEF Probe, probeVars, TypeOK

LEMMA FlushTypes ==
  ASSUME TimerInv, NEW r \in Nat, ikcp_flush(r)
  PROVE  /\ snd_buf' \in SUBSET Segment /\ \A x \in snd_buf' : x.sent \in Nat
         /\ snd_nxt' \in Nat /\ acks' \in SUBSET [sn : Nat, sent : Nat]
         /\ ts_probe' \in 0..(W - 1) /\ probe_wait' \in Nat /\ asked' \in Nat
<1>0. TypeOK /\ snd_nxt \in Nat /\ acks \in SUBSET [sn : Nat, sent : Nat]
  BY DEF TimerInv, TypeOK
<1> DEFINE new(k) == {New(snd_nxt + i, r) : i \in 0..(k - 1)}
           old == {Resent(x, r) : x \in snd_buf}
<1>1. PICK k \in Nat :
        /\ snd_buf' = old \cup new(k) /\ snd_nxt' = snd_nxt + k
        /\ acks' \subseteq acks \cup {[sn |-> x.sn, sent |-> x.sent] : x \in old \cup new(k)}
        /\ Probe(r)
  BY DEF ikcp_flush
<1>2. \A x \in old : x \in Segment /\ x.sent \in Nat /\ x.sn \in Nat  BY SegmentType
<1>3. \A x \in new(k) : x \in Segment /\ x.sent \in Nat /\ x.sn \in Nat
  <2>1. \A i \in 0..(k - 1) : snd_nxt + i \in Nat  BY <1>0
  <2>2. \A i \in 0..(k - 1) : New(snd_nxt + i, r) \in Segment /\ New(snd_nxt + i, r).sent \in Nat
    BY <2>1, SegmentType
  <2> QED BY <2>2 DEF Segment
<1> HIDE DEF new, old
<1>4. acks' \in SUBSET [sn : Nat, sent : Nat]  BY <1>0, <1>1, <1>2, <1>3
<1> QED BY <1>0, <1>1, <1>2, <1>3, <1>4, ProbeType

LEMMA UpdateTypes == ASSUME TimerInv, NEW r \in Nat, UpdateAt(r) PROVE TimerInv'
<1>0. TypeOK /\ PlanType  BY DEF TimerInv, TypeOK, PlanType
<1>1. now' \in Nat /\ updated' \in BOOLEAN /\ UNCHANGED <<rttVars, shut>>
  BY DEF UpdateAt
<1>2. CASE Flushes(r)
  <2>1. ts_flush' = NextFlush(r) /\ ikcp_flush(r)  BY <1>2 DEF UpdateAt
  <2>2. ts_flush' \in 0..(W - 1)  BY <1>0, <1>2, <2>1, NextIsNear
  <2> QED BY <1>0, <1>1, <2>1, <2>2, FlushTypes DEF TimerInv, TypeOK, rttVars
<1>3. CASE ~Flushes(r)
  BY <1>0, <1>1, <1>3 DEF UpdateAt, TimerInv, TypeOK, rttVars, probeVars
<1> QED BY <1>2, <1>3

LEMMA TimerStep == TimerInv /\ [Next]_vars => TimerInv'
<1> SUFFICES ASSUME TimerInv, [Next]_vars PROVE TimerInv'  OBVIOUS
<1>0. TypeOK  BY DEF TimerInv
<1>1. CASE UNCHANGED vars  BY <1>1 DEF TimerInv, TypeOK, vars, rttVars, probeVars
<1>3. CASE Update
  <2>1. PICK d \in Steps : now + d \in Start..MaxNow /\ UpdateAt(now + d)
    BY <1>3 DEF Update
  <2>2. now + d \in Nat  BY <2>1, Constants, TimerAssumption
  <2> QED BY <2>1, <2>2, UpdateTypes
<1>4. CASE Flush
  <2>1. now \in Nat  BY <1>0 DEF TypeOK
  <2> QED BY <1>0, <1>4, <2>1, FlushTypes DEF Flush, TimerInv, TypeOK, rttVars
<1>5. ASSUME NEW una \in 0..snd_nxt, NEW a \in acks, InputAck(a, una) PROVE TimerInv'
  <2>1. /\ rx_srtt' \in Nat /\ rx_rttval' \in Nat /\ rx_rto' \in rx_minrto..RTO_MAX
    <3>1. PICK rtt \in Int : rtt = itimediff(current, Wrap(a.sent))
      <4>1. now - a.sent \in Int /\ now \in Int /\ a.sent \in Int  BY <1>0 DEF TypeOK
      <4>2. \A n \in Int : Wrap(n) \in Int  BY WidthAssumption DEF Wrap
      <4>3. \A m, n \in Int : itimediff(m, n) \in Int
        BY <4>2, WidthAssumption DEF itimediff
      <4> QED BY <4>1, <4>2, <4>3 DEF current
    <3>2. CASE rtt >= 0
      <4>1. rtt \in Nat  BY <3>2
      <4> QED BY <1>0, <1>5, <3>1, <3>2, <4>1, EstimateType DEF InputAck
    <3>3. CASE ~(rtt >= 0)
      BY <1>0, <1>5, <3>1, <3>3 DEF InputAck, rttVars, TypeOK
    <3> QED BY <3>2, <3>3
  <2>2. snd_buf' \in SUBSET Segment /\ \A x \in snd_buf' : x.sent \in Nat
    <3>1. ASSUME NEW x \in snd_buf
          PROVE  LET y == [x EXCEPT !.fastack = minOf(@ + 1, FastResend)]
                 IN y \in Segment /\ y.sent \in Nat
      <4>1. x \in Segment /\ x.sent \in Nat  BY DEF TimerInv, TypeOK
      <4>2. minOf(x.fastack + 1, FastResend) \in Nat
        BY <4>1, TimerFacts DEF Segment, minOf
      <4> QED BY <4>1, <4>2 DEF Segment
    <3>2. \A x \in snd_buf' : \E y \in snd_buf :
            x = y \/ x = [y EXCEPT !.fastack = minOf(@ + 1, FastResend)]
      BY <1>5 DEF InputAck, AfterUna
    <3>3. \A x \in snd_buf : x \in Segment /\ x.sent \in Nat  BY DEF TimerInv, TypeOK
    <3> QED BY <3>1, <3>2, <3>3
  <2>3. acks' \in SUBSET [sn : Nat, sent : Nat] /\ shut' \in BOOLEAN
    BY <1>0, <1>5 DEF InputAck, TypeOK
  <2> QED BY <1>0, <1>5, <2>1, <2>2, <2>3 DEF InputAck, TimerInv, TypeOK, probeVars
<1>6. ASSUME NEW una \in 0..snd_nxt, InputOther(una) PROVE TimerInv'
  BY <1>0, <1>6 DEF InputOther, AfterUna, TimerInv, TypeOK, rttVars, probeVars
<1> QED BY <1>1, <1>3, <1>4, <1>5, <1>6 DEF Next

(* Every timer of the block keeps its type, and the retransmission timeout *)
(* stays between rx_minrto and 60 s, whatever the clock, the losses and    *)
(* the acknowledgements do.                                                *)
THEOREM TimerTypes == Spec => []TypeOK
<1>1. TimerInv => TypeOK  BY DEF TimerInv
<1> QED BY <1>1, TimerInit, TimerStep, PTL DEF Spec

-----------------------------------------------------------------------------
(* The timers of the segments and of the window probe, against the clock.  *)

(* The longest rto for which a wrapped timer is still exact.               *)
Longest_rto == Half - RTO_MAX \div 8

(* How far the clock may move from one update to the next, and how long    *)
(* the block may live: for the values of ikcp.h these are 24 days and more *)
(* than a thousand years.                                                  *)
ClockInRange ==
  /\ Steps \subseteq 0..(Half - Interval) /\ PROBE_LIMIT <= Half
  /\ RTO_MAX <= Longest_rto
  /\ 2 * RTO_MAX * (MaxNow - Start) < Longest_rto * (Longest_rto - RTO_MAX)

(* An rto can only have grown as far as the time that went into it allows. *)
Grown(rto, since) == rto * (rto - RTO_MAX) <= 2 * RTO_MAX * since

(* A segment times out d after it was sent, and the last flush was earlier *)
(* than that.                                                              *)
Waits(x, d) == /\ d \in x.rto..(x.rto + RTO_MAX \div 8)
               /\ x.resendts = Wrap(x.sent + d)
               /\ plannedAt - Interval < x.sent + d

Timed(x) == /\ x.sent \in Start..now /\ x.rto >= 1 /\ x.sn < snd_nxt
            /\ Grown(x.rto, x.sent - Start)
            /\ \E d \in Nat : Waits(x, d)

ProbeTimed ==
  probe_wait # 0 => /\ probe_wait <= PROBE_LIMIT /\ asked <= now
                    /\ ts_probe = Wrap(asked + probe_wait)
                    /\ plannedAt - Interval < asked + probe_wait

TimedInv ==
  /\ TimerInv /\ FlushPlanned
  /\ ~updated => snd_buf = {} /\ probe_wait = 0
  /\ updated => now \in Start..MaxNow
  /\ \A x \in snd_buf : Timed(x)
  /\ \A x, y \in snd_buf : x.sn = y.sn => x = y
  /\ ProbeTimed

(* An rto that grows by at most RTO_MAX at every timeout grows with the    *)
(* root of the time.                                                       *)
LEMMA GrowthStep ==
  ASSUME NEW rto \in Nat, NEW g \in Nat, NEW M \in Nat, NEW s \in Nat, NEW t \in Nat,
         NEW q \in Nat, q = rto + g,
         g <= M, rto * (rto - M) <= 2 * M * s, t >= s + rto
  PROVE  q * (q - M) <= 2 * M * t
<1>1. q * (q - M) = rto * (rto - M) + 2 * (g * rto) + g * (g - M)
  OBVIOUS
<1>2. g * (g - M) <= 0  OBVIOUS
<1>3. g * rto <= M * rto  OBVIOUS
<1>4. 2 * M * t >= 2 * M * s + 2 * (M * rto)  OBVIOUS
<1> QED BY <1>1, <1>2, <1>3, <1>4

LEMMA GrowthBound ==
  ASSUME NEW rto \in Nat, NEW L \in Nat, NEW M \in Nat, NEW s \in Nat, NEW t \in Nat,
         rto * (rto - M) <= 2 * M * s, s <= t, M <= L, 2 * M * t < L * (L - M)
  PROVE  rto <= L
<1> SUFFICES ASSUME rto > L PROVE FALSE  OBVIOUS
<1>1. 2 * M * s <= 2 * M * t  OBVIOUS
<1>2. rto - M >= L - M /\ L - M >= 0  OBVIOUS
<1>3. rto * (rto - M) >= L * (rto - M)  OBVIOUS
<1>4. L * (rto - M) >= L * (L - M)  BY <1>2
<1> QED BY <1>1, <1>3, <1>4

LEMMA RangeFacts ==
  ASSUME ClockInRange
  PROVE  /\ Half \in Nat /\ Interval \in Nat \ {0} /\ Interval < Half
         /\ RTO_MAX \in Nat /\ RTO_MAX \div 8 \in Nat /\ Longest_rto \in Nat
         /\ Longest_rto + RTO_MAX \div 8 = Half
         /\ Start \in Nat /\ MaxNow \in Nat
<1>1. RTO_MAX \in Nat /\ RTO_MAX \div 8 \in Nat /\ MaxNow \in Nat
  BY TimerFacts, Halves, TimerAssumption
<1> QED BY <1>1, Constants DEF ClockInRange, Longest_rto

LEMMA SegmentFacts ==
  ASSUME TimedInv, NEW x \in snd_buf
  PROVE  /\ x \in Segment /\ x.sn \in Nat /\ x.sent \in Nat /\ x.rto \in Nat
         /\ x.resendts \in 0..(W - 1) /\ Timed(x) /\ updated
BY DEF TimedInv, TimerInv, TypeOK, Segment

LEMMA RtoBounded ==
  ASSUME ClockInRange, TimedInv, NEW x \in snd_buf
  PROVE  x.rto <= Longest_rto
<1>1. x.rto \in Nat /\ x.sent \in Nat /\ Timed(x) /\ updated  BY SegmentFacts
<1>2. now \in Start..MaxNow  BY <1>1 DEF TimedInv
<1>3. PICK s \in Nat, t \in Nat : s = x.sent - Start /\ t = MaxNow - Start /\ s <= t
  BY <1>1, <1>2, RangeFacts DEF Timed
<1>4. x.rto * (x.rto - RTO_MAX) <= 2 * RTO_MAX * s  BY <1>1, <1>3 DEF Timed, Grown
<1>5. 2 * RTO_MAX * t < Longest_rto * (Longest_rto - RTO_MAX) /\ RTO_MAX <= Longest_rto
  BY <1>3 DEF ClockInRange
<1> QED BY <1>1, <1>3, <1>4, <1>5, RangeFacts, GrowthBound

(* A segment's timer has run out exactly from its time on.                 *)
LEMMA ExpiredFrom ==
  ASSUME ClockInRange, TimedInv, NEW x \in snd_buf, NEW d \in Nat, Waits(x, d),
         NEW r \in Nat, r \in now..(now + (Half - Interval))
  PROVE  Expired(x, r) <=> r >= x.sent + d
<1>1. /\ x.rto \in Nat /\ x.sent \in Nat /\ Timed(x) /\ updated
      /\ x.rto <= Longest_rto
  BY SegmentFacts, RtoBounded
<1>2. now \in Nat /\ PlanType /\ FlushPlanned
  BY DEF TimedInv, TimerInv, TypeOK, PlanType
<1>3. now \in now..(now + Half)  BY <1>2, RangeFacts
<1>4. plannedAt \in (now + 1)..(now + Interval)  BY <1>1, <1>2, <1>3, FlushesFrom
<1>5. d <= x.rto + RTO_MAX \div 8 /\ plannedAt - Interval < x.sent + d
  BY <1>1, RangeFacts DEF Waits
<1>6. x.sent <= now  BY <1>1, <1>2, RangeFacts DEF Timed
<1>7. r - (x.sent + d) \in (-Half)..(Half - 1)
  BY <1>1, <1>2, <1>4, <1>5, <1>6, RangeFacts
<1>8. itimediff(Wrap(r), x.resendts) = r - (x.sent + d)
  BY <1>1, <1>7, DifferenceExact DEF Waits
<1> QED BY <1>1, <1>8 DEF Expired

(* A segment as a flush at the reading r leaves it.                        *)
Sent(y, r) == /\ y.sent \in Start..r /\ y.rto >= 1
              /\ Grown(y.rto, y.sent - Start)
              /\ \E d \in Nat : /\ d \in y.rto..(y.rto + RTO_MAX \div 8)
                                /\ y.resendts = Wrap(y.sent + d)
                                /\ r < y.sent + d

LEMMA EstimateFacts ==
  ASSUME TypeOK
  PROVE  /\ rx_rto \in Nat /\ rx_rto >= 2 /\ rx_rto <= RTO_MAX
         /\ rx_rto \div 2 \in Nat /\ rx_rto \div 2 >= 1 /\ rx_rto \div 2 <= RTO_MAX
         /\ rtomin \in Nat /\ rtomin <= RTO_MAX \div 8
<1>1. rx_minrto >= 2 /\ rx_minrto \in Nat /\ RTO_MAX \in Nat
  BY TimerAssumption DEF rx_minrto
<1>2. rx_rto \in Nat /\ rx_rto >= 2 /\ rx_rto <= RTO_MAX  BY <1>1 DEF TypeOK
<1>3. \A a, b \in Nat : a <= b => a \div 8 <= b \div 8  OBVIOUS
<1>4. \A a \in Nat : a >= 2 => a \div 2 \in Nat /\ a \div 2 >= 1 /\ a \div 2 <= a  OBVIOUS
<1>5. rx_rto \div 8 \in Nat /\ RTO_MAX \div 8 \in Nat  BY <1>1, <1>2, Halves
<1>6. rx_rto \div 8 <= RTO_MAX \div 8  BY <1>1, <1>2, <1>3
<1>7. rx_rto \div 2 \in Nat /\ rx_rto \div 2 >= 1 /\ rx_rto \div 2 <= rx_rto  BY <1>2, <1>4
<1>8. rtomin \in Nat /\ rtomin <= RTO_MAX \div 8  BY <1>5, <1>6 DEF rtomin
<1> HIDE DEF rtomin
<1> QED BY <1>1, <1>2, <1>7, <1>8

LEMMA NewSent ==
  ASSUME TypeOK, NEW sn \in Nat, NEW r \in Nat, r >= Start
  PROVE  Sent(New(sn, r), r)
<1> DEFINE y == New(sn, r)
           d == rx_rto + rtomin
<1>1. /\ y.sent = r /\ y.rto = rx_rto /\ y.resendts = Wrap(r + rx_rto + rtomin)
  BY DEF New
<1>2. /\ rx_rto \in Nat /\ rx_rto >= 2 /\ rx_rto <= RTO_MAX
      /\ rtomin \in Nat /\ rtomin <= RTO_MAX \div 8 /\ Start \in Nat
      /\ RTO_MAX \in Nat /\ RTO_MAX \div 8 \in Nat
  BY EstimateFacts, TimerFacts, Halves
<1>3. r + rx_rto + rtomin = r + d /\ d \in Nat  BY <1>2
<1>4. \A a, m, t \in Nat : a <= m => a * (a - m) <= 2 * m * t  OBVIOUS
<1>5. PICK t \in Nat : t = r - Start  BY <1>2
<1>6. Grown(rx_rto, t)  BY <1>2, <1>4 DEF Grown
<1> HIDE DEF y
<1>7. d \in y.rto..(y.rto + RTO_MAX \div 8) /\ r < y.sent + d  BY <1>1, <1>2
<1>8. y.resendts = Wrap(y.sent + d)  BY <1>1, <1>3
<1>9. y.sent \in Start..r /\ y.rto >= 1 /\ Grown(y.rto, y.sent - Start)
  BY <1>1, <1>2, <1>5, <1>6
<1> QED BY <1>3, <1>7, <1>8, <1>9 DEF Sent, y

(* What the transmission loop does to a segment in flight.                 *)
LEMMA ResentSent ==
  ASSUME ClockInRange, TimedInv, NEW x \in snd_buf,
         NEW r \in Nat, r \in now..(now + (Half - Interval))
  PROVE  /\ Resent(x, r).sn = x.sn /\ Sent(Resent(x, r), r)
         /\ Resent(x, r).rto > x.rto => r - x.sent >= x.rto
<1> DEFINE y == Resent(x, r)
           g == IF NoDelay THEN rx_rto \div 2 ELSE rx_rto
<1>0. /\ TypeOK /\ now \in Nat  BY DEF TimedInv, TimerInv, TypeOK
<1>1. /\ x \in Segment /\ x.sn \in Nat /\ x.sent \in Nat /\ x.rto \in Nat /\ x.rto >= 1
      /\ x.sent >= Start /\ x.sent <= now /\ Timed(x)
      /\ Grown(x.rto, x.sent - Start)
  BY <1>0, SegmentFacts, RangeFacts DEF Timed
<1>2. PICK d \in Nat : Waits(x, d)  BY <1>1 DEF Timed
<1>3. Expired(x, r) <=> r >= x.sent + d  BY <1>2, ExpiredFrom
<1>4. d >= x.rto /\ d <= x.rto + RTO_MAX \div 8 /\ x.resendts = Wrap(x.sent + d)
  BY <1>1, <1>2, RangeFacts DEF Waits
<1>5. g \in Nat /\ g >= 1 /\ g <= RTO_MAX  BY <1>0, EstimateFacts
<1>6. y = IF Expired(x, r)
          THEN [x EXCEPT !.sent = r, !.rto = x.rto + g, !.resendts = Wrap(r + (x.rto + g))]
          ELSE IF Fast(x)
          THEN [x EXCEPT !.sent = r, !.resendts = Wrap(r + x.rto), !.fastack = 0]
          ELSE x
  BY DEF Resent
<1> HIDE DEF y, g
<1>7. CASE Expired(x, r)
  <2>1. PICK n \in Nat : n = x.rto + g  BY <1>1, <1>5
  <2>2. y = [x EXCEPT !.sent = r, !.rto = n, !.resendts = Wrap(r + n)]  BY <1>6, <1>7, <2>1
  <2>3. y.sn = x.sn /\ y.sent = r /\ y.rto = n /\ y.resendts = Wrap(r + n)
    BY <1>1, <2>2 DEF Segment
  <2>4. r - x.sent >= x.rto  BY <1>1, <1>3, <1>4, <1>7
  <2>5. PICK s \in Nat, t \in Nat : s = x.sent - Start /\ t = r - Start
    BY <1>0, <1>1, RangeFacts
  <2>6. t >= s + x.rto  BY <1>1, <2>4, <2>5, RangeFacts
  <2>7. x.rto * (x.rto - RTO_MAX) <= 2 * RTO_MAX * s  BY <1>1, <2>5 DEF Grown
  <2>8. n * (n - RTO_MAX) <= 2 * RTO_MAX * t
    BY <1>1, <1>5, <2>1, <2>6, <2>7, RangeFacts, GrowthStep
  <2>9. Grown(y.rto, y.sent - Start)
    <3>1. y.rto = n /\ y.sent - Start = t  BY <2>3, <2>5
    <3>2. Grown(n, t)  BY <2>8 DEF Grown
    <3> QED BY <3>1, <3>2
  <2>10. y.sent \in Start..r /\ y.rto >= 1 /\ n \in y.rto..(y.rto + RTO_MAX \div 8)
         /\ r < y.sent + n
    BY <1>0, <1>1, <1>5, <2>1, <2>3, RangeFacts
  <2> QED BY <2>3, <2>4, <2>9, <2>10 DEF Sent, y
<1>8. CASE ~Expired(x, r) /\ Fast(x)
  <2>1. y = [x EXCEPT !.sent = r, !.resendts = Wrap(r + x.rto), !.fastack = 0]
    BY <1>6, <1>8
  <2>2. y.sn = x.sn /\ y.sent = r /\ y.rto = x.rto /\ y.resendts = Wrap(r + x.rto)
    BY <1>1, <2>1 DEF Segment
  <2>3. PICK s \in Nat, t \in Nat : s = x.sent - Start /\ t = r - Start /\ t >= s
    BY <1>0, <1>1, RangeFacts
  <2>4. x.rto * (x.rto - RTO_MAX) <= 2 * RTO_MAX * s  BY <1>1, <2>3 DEF Grown
  <2>5. \A m, a, b \in Nat : a <= b => 2 * m * a <= 2 * m * b  OBVIOUS
  <2>6. 2 * RTO_MAX * s <= 2 * RTO_MAX * t  BY <2>3, <2>5, RangeFacts
  <2>7. \A i, j, k \in Int : i <= j /\ j <= k => i <= k  OBVIOUS
  <2>8. Grown(x.rto, t)
    <3>1. x.rto * (x.rto - RTO_MAX) \in Int /\ 2 * RTO_MAX * s \in Int /\ 2 * RTO_MAX * t \in Int
      BY <1>1, RangeFacts
    <3> QED BY <2>4, <2>6, <2>7, <3>1 DEF Grown
  <2>9. y.sent \in Start..r /\ y.rto >= 1 /\ x.rto \in y.rto..(y.rto + RTO_MAX \div 8)
        /\ r < y.sent + x.rto /\ ~(y.rto > x.rto)
    BY <1>0, <1>1, <2>2, RangeFacts
  <2> QED BY <1>1, <2>2, <2>3, <2>8, <2>9 DEF Sent, y
<1>9. CASE ~Expired(x, r) /\ ~Fast(x)
  <2>1. y = x  BY <1>6, <1>9
  <2>2. r < x.sent + d /\ ~(x.rto > x.rto)  BY <1>1, <1>3, <1>9
  <2>3. x.sent \in Start..r  BY <1>0, <1>1, RangeFacts
  <2>4. d \in x.rto..(x.rto + RTO_MAX \div 8)  BY <1>2 DEF Waits
  <2> QED BY <1>1, <1>4, <2>1, <2>2, <2>3, <2>4 DEF Sent, y
<1> QED BY <1>7, <1>8, <1>9 DEF y

(* A probe is sent, or its time lies ahead.                                *)
LEMMA ProbeStep ==
  ASSUME ClockInRange, TimedInv, NEW r \in Nat,
         updated => r \in now..(now + (Half - Interval)),
         Probe(r), now' = r, plannedAt' - Interval <= r, plannedAt' \in Int
  PROVE  ProbeTimed'
<1>0. /\ TypeOK /\ now \in Nat /\ probe_wait \in Nat /\ asked \in Nat
      /\ ts_probe \in 0..(W - 1)
  BY DEF TimedInv, TimerInv, TypeOK
<1>1. PROBE_INIT \in Nat \ {0} /\ PROBE_LIMIT \in Nat /\ PROBE_INIT <= PROBE_LIMIT
  BY TimerAssumption
<1>2. CASE ~shut
  BY <1>2 DEF Probe, ProbeTimed
<1>3. CASE shut /\ (probe_wait = 0 \/ ProbeFires(r))
  <2>1. probe_wait' = NextWait /\ ts_probe' = Wrap(r + NextWait) /\ asked' = r
    BY <1>3 DEF Probe
  <2>2. NextWait \in Nat /\ NextWait >= 1 /\ NextWait <= PROBE_LIMIT
    <3>1. PICK h \in Nat : h = probe_wait \div 2  BY <1>0, Halves
    <3>2. NextWait = IF probe_wait = 0 THEN PROBE_INIT
                     ELSE minOf(probe_wait + h, PROBE_LIMIT)
      BY <3>1 DEF NextWait
    <3> QED BY <1>0, <1>1, <3>2 DEF minOf
  <2> HIDE DEF NextWait
  <2>3. PICK n \in Nat : n = NextWait /\ n >= 1 /\ n <= PROBE_LIMIT  BY <2>2
  <2>4. probe_wait' = n /\ ts_probe' = Wrap(r + n) /\ asked' = r  BY <2>1, <2>3
  <2>5. plannedAt' - Interval < r + n  BY <2>3, RangeFacts
  <2> QED BY <2>3, <2>4, <2>5 DEF ProbeTimed
<1>4. CASE shut /\ probe_wait # 0 /\ ~ProbeFires(r)
  <2>1. UNCHANGED probeVars  BY <1>4 DEF Probe
  <2>2. /\ probe_wait <= PROBE_LIMIT /\ asked <= now
        /\ ts_probe = Wrap(asked + probe_wait)
        /\ plannedAt - Interval < asked + probe_wait /\ updated
    BY <1>4 DEF TimedInv, ProbeTimed
  <2>3. plannedAt \in (now + 1)..(now + Interval)
    <3>1. PlanType /\ FlushPlanned  BY <1>0 DEF TimedInv, TypeOK, PlanType
    <3>2. now \in now..(now + Half)  BY <1>0, RangeFacts
    <3> QED BY <1>0, <2>2, <3>1, <3>2, FlushesFrom
  <2>4. r - (asked + probe_wait) \in (-Half)..(Half - 1)
    BY <1>0, <1>1, <2>2, <2>3, RangeFacts DEF ClockInRange
  <2>5. itimediff(Wrap(r), ts_probe) = r - (asked + probe_wait)
    BY <1>0, <2>2, <2>4, DifferenceExact
  <2>6. r < asked + probe_wait  BY <1>0, <1>4, <2>5 DEF ProbeFires
  <2>7. asked <= r  BY <1>0, <2>2, RangeFacts
  <2>8. plannedAt' - Interval < asked + probe_wait  BY <1>0, <2>6, RangeFacts
  <2> QED BY <2>1, <2>2, <2>7, <2>8 DEF ProbeTimed, probeVars
<1> QED BY <1>2, <1>3, <1>4

(* A flush at the reading r, whoever asked for it.                         *)
LEMMA FlushTimes ==
  ASSUME ClockInRange, TimedInv, NEW r \in Nat, r \in Start..MaxNow,
         updated => r \in now..(now + (Half - Interval)),
         ikcp_flush(r), now' = r, updated', FlushPlanned'
  PROVE  /\ \A y \in snd_buf' : Timed(y)'
         /\ \A x, y \in snd_buf' : x.sn = y.sn => x = y
         /\ ProbeTimed'
         /\ \A x \in snd_buf, y \in snd_buf' :
              x.sn = y.sn /\ y.rto > x.rto => r - x.sent >= x.rto
<1>0. TypeOK /\ TimerInv /\ snd_nxt \in Nat /\ now \in Nat
  BY DEF TimedInv, TimerInv, TypeOK
<1> DEFINE new(k) == {New(snd_nxt + i, r) : i \in 0..(k - 1)}
           old == {Resent(x, r) : x \in snd_buf}
<1>1. PICK k \in Nat :
        /\ snd_buf' = old \cup new(k) /\ snd_nxt' = snd_nxt + k /\ Probe(r)
  BY DEF ikcp_flush
<1>2. plannedAt' - Interval <= r /\ plannedAt' \in Int
  <2>1. itimediff(ts_flush, current)' \in 1..Interval  BY DEF FlushPlanned
  <2>2. plannedAt' = r + itimediff(ts_flush, current)'  BY DEF plannedAt
  <2>3. PICK e \in 1..Interval : e = itimediff(ts_flush, current)'  BY <2>1
  <2> QED BY <2>2, <2>3, RangeFacts
<1>3. ASSUME NEW x \in snd_buf
      PROVE  /\ Resent(x, r).sn = x.sn /\ Sent(Resent(x, r), r)
             /\ Resent(x, r).rto > x.rto => r - x.sent >= x.rto
             /\ x.sn \in Nat /\ x.sn < snd_nxt
  <2>1. updated /\ Timed(x) /\ x.sn \in Nat  BY SegmentFacts
  <2> QED BY <2>1, ResentSent DEF Timed
<1>4. ASSUME NEW i \in 0..(k - 1)
      PROVE  /\ Sent(New(snd_nxt + i, r), r) /\ New(snd_nxt + i, r).sn = snd_nxt + i
  <2>1. snd_nxt + i \in Nat /\ r >= Start  BY <1>0, RangeFacts
  <2> QED BY <1>0, <2>1, NewSent DEF New
<1>5. \A y \in old : \E x \in snd_buf : y = Resent(x, r)  OBVIOUS
<1>6. \A y \in new(k) : \E i \in 0..(k - 1) : y = New(snd_nxt + i, r)  OBVIOUS
<1> HIDE DEF new, old
<1>7. \A y \in old : Sent(y, r) /\ y.sn \in Nat /\ y.sn < snd_nxt  BY <1>3, <1>5
<1>8. \A y \in new(k) : Sent(y, r) /\ y.sn \in Nat /\ y.sn >= snd_nxt /\ y.sn < snd_nxt + k
  <2>1. \A i \in 0..(k - 1) : snd_nxt + i \in Nat /\ snd_nxt + i >= snd_nxt /\ snd_nxt + i < snd_nxt + k
    BY <1>0
  <2> QED BY <1>4, <1>6, <2>1
<1>9. \A y \in snd_buf' : Sent(y, r) /\ y.sn < snd_nxt'
  BY <1>0, <1>1, <1>7, <1>8
<1>10. ASSUME NEW y \in snd_buf' PROVE Timed(y)'
  <2>1. y \in Segment /\ y.sent \in Nat /\ y.rto \in Nat
    BY <1>0, FlushTypes DEF Segment
  <2>2. Sent(y, r) /\ y.sn < snd_nxt'  BY <1>9
  <2>3. PICK d \in Nat : /\ d \in y.rto..(y.rto + RTO_MAX \div 8)
                         /\ y.resendts = Wrap(y.sent + d)
                         /\ r < y.sent + d
    BY <2>2 DEF Sent
  <2>4. plannedAt' - Interval < y.sent + d  BY <1>2, <2>1, <2>3, RangeFacts
  <2>5. Waits(y, d)'  BY <2>3, <2>4 DEF Waits
  <2> QED BY <2>2, <2>5 DEF Sent, Timed
<1>11. ASSUME NEW x \in snd_buf', NEW y \in snd_buf', x.sn = y.sn PROVE x = y
  <2>1. CASE x \in old /\ y \in old
    <3>1. PICK a \in snd_buf, b \in snd_buf : x = Resent(a, r) /\ y = Resent(b, r)
      BY <1>5, <2>1
    <3>2. a.sn = b.sn  BY <1>3, <1>11, <3>1
    <3>3. a = b  BY <3>2 DEF TimedInv
    <3> QED BY <3>1, <3>3
  <2>2. CASE x \in new(k) /\ y \in new(k)
    <3>1. PICK i \in 0..(k - 1), j \in 0..(k - 1) :
            x = New(snd_nxt + i, r) /\ y = New(snd_nxt + j, r)
      BY <1>6, <2>2
    <3>2. snd_nxt + i = snd_nxt + j  BY <1>4, <1>11, <3>1
    <3> QED BY <3>1, <3>2
  <2>3. CASE (x \in old /\ y \in new(k)) \/ (x \in new(k) /\ y \in old)
    BY <1>0, <1>7, <1>8, <1>11, <2>3
  <2> QED BY <1>1, <2>1, <2>2, <2>3
<1>12. ASSUME NEW x \in snd_buf, NEW y \in snd_buf', x.sn = y.sn, y.rto > x.rto
       PROVE  r - x.sent >= x.rto
  <2>1. y \in old  BY <1>0, <1>1, <1>3, <1>8, <1>12
  <2>2. PICK a \in snd_buf : y = Resent(a, r)  BY <1>5, <2>1
  <2>3. a = x  BY <1>3, <1>12, <2>2 DEF TimedInv
  <2> QED BY <1>3, <1>12, <2>2, <2>3
<1>13. ProbeTimed'  BY <1>1, <1>2, ProbeStep
<1> QED BY <1>10, <1>11, <1>12, <1>13

(* A segment that is not touched keeps its timer while the plan stands.    *)
LEMMA StillTimed ==
  ASSUME NEW x, NEW y, Timed(x), y.sn = x.sn, y.sent = x.sent, y.rto = x.rto,
         y.resendts = x.resendts, x.sent \in Nat, now \in Nat, now' \in Nat,
         now <= now', plannedAt' = plannedAt, snd_nxt' = snd_nxt
  PROVE  Timed(y)'
<1>1. y.sent \in Start..now'  BY Constants DEF Timed
<1>2. PICK d \in Nat : Waits(x, d)  BY DEF Timed
<1>3. Waits(y, d)'  BY <1>2 DEF Waits
<1> QED BY <1>1, <1>3 DEF Timed

LEMMA TimedInit == Init => TimedInv
BY TimerInit DEF Init, TimedInv, FlushPlanned, ProbeTimed

(* Every step keeps the timers, and lets none run out early.               *)
LEMMA TimedStep ==
  ASSUME ClockInRange, TimedInv, [Next]_vars
  PROVE  /\ TimedInv'
         /\ \A x \in snd_buf, y \in snd_buf' :
              x.sn = y.sn /\ y.rto > x.rto => now' - x.sent >= x.rto
<1> DEFINE Early == \A x \in snd_buf, y \in snd_buf' :
                      x.sn = y.sn /\ y.rto > x.rto => now' - x.sent >= x.rto
<1>0. /\ TypeOK /\ TimerInv /\ now \in Nat /\ snd_nxt \in Nat
      /\ PlanType /\ FlushPlanned
  BY DEF TimedInv, TimerInv, TypeOK, PlanType
<1>1. TimerInv' /\ FlushPlanned'
  <2>1. Steps \subseteq 0..(Half - 1)  BY RangeFacts DEF ClockInRange
  <2> QED BY <1>0, <2>1, TimerStep, PlannedStep
<1>2. now' \in Nat  BY <1>1 DEF TimerInv, TypeOK
<1>3. ASSUME NEW r \in Nat, r \in Start..MaxNow,
             updated => r \in now..(now + (Half - Interval)),
             ikcp_flush(r), now' = r, updated' = TRUE
      PROVE  TimedInv' /\ Early
  BY <1>1, <1>3, FlushTimes DEF TimedInv
<1>4. CASE Update
  <2>1. PICK d \in Steps : now + d \in Start..MaxNow /\ UpdateAt(now + d)
    BY <1>4 DEF Update
  <2>2. PICK r \in Nat : r = now + d /\ r \in Start..MaxNow  BY <1>0, <2>1, RangeFacts
  <2>3. r \in now..(now + (Half - Interval)) /\ r \in now..(now + Half)
    BY <1>0, <2>2, RangeFacts DEF ClockInRange
  <2>4. UpdateAt(r) /\ now' = r /\ updated' = TRUE  BY <2>1, <2>2 DEF UpdateAt
  <2>5. CASE Flushes(r)
    <3>1. ikcp_flush(r)  BY <2>4, <2>5 DEF UpdateAt
    <3> QED BY <1>3, <2>2, <2>3, <2>4, <3>1
  <2>6. CASE ~Flushes(r)
    <3>1. UNCHANGED <<ts_flush, snd_buf, snd_nxt, acks, probeVars>>
      BY <2>4, <2>6 DEF UpdateAt
    <3>2. updated  BY <1>0, <2>6, PlanAhead
    <3>3. r < plannedAt /\ ts_flush = Wrap(plannedAt)
          /\ plannedAt \in (now + 1)..(now + Interval)
      BY <1>0, <2>3, <2>6, <3>2, FlushesFrom
    <3>4. plannedAt \in Int /\ plannedAt - r \in (-Half)..(Half - 1)
      BY <1>0, <2>3, <3>3, RangeFacts
    <3>5. itimediff(Wrap(plannedAt), Wrap(r)) = plannedAt - r
      BY <3>4, DifferenceExact
    <3>6. plannedAt' = plannedAt
      <4>1. plannedAt' = r + itimediff(ts_flush, Wrap(r))
        BY <2>4, <3>1 DEF plannedAt, current
      <4> QED BY <3>3, <3>4, <3>5, <4>1
    <3>7. ASSUME NEW x \in snd_buf' PROVE Timed(x)'
      <4>1. x \in snd_buf /\ now <= now'  BY <1>0, <2>3, <2>4, <3>1
      <4> QED BY <1>0, <1>2, <3>1, <3>6, <4>1, SegmentFacts, StillTimed
    <3>8. ProbeTimed'
      <4>1. now <= now'  BY <1>0, <2>3, <2>4
      <4>2. asked \in Nat /\ probe_wait' = probe_wait /\ asked' = asked /\ ts_probe' = ts_probe
        BY <1>0, <3>1 DEF TypeOK, probeVars
      <4> QED BY <1>0, <1>2, <3>6, <4>1, <4>2 DEF TimedInv, ProbeTimed
    <3>9. Early
      <4>1. ASSUME NEW x \in snd_buf, NEW y \in snd_buf', x.sn = y.sn PROVE ~(y.rto > x.rto)
        <5>1. x = y  BY <3>1, <4>1 DEF TimedInv
        <5> QED BY <5>1, SegmentFacts
      <4> QED BY <4>1
    <3> QED BY <1>1, <2>2, <2>4, <3>1, <3>7, <3>8, <3>9 DEF TimedInv
  <2> QED BY <2>5, <2>6
<1>5. CASE Flush
  <2>1. updated /\ ikcp_flush(now) /\ now' = now /\ updated'  BY <1>5 DEF Flush
  <2>2. now \in Start..MaxNow  BY <2>1 DEF TimedInv
  <2>3. now \in now..(now + (Half - Interval))  BY <1>0, RangeFacts
  <2>4. updated' = TRUE  BY <2>1, <1>1 DEF TimerInv, TypeOK
  <2>5. PICK r \in Nat : r = now  BY <1>0
  <2> QED BY <1>3, <2>1, <2>2, <2>3, <2>4, <2>5
<1>6. ASSUME UNCHANGED <<now, updated, ts_flush, snd_nxt, probeVars>>,
             \A y \in snd_buf' : \E x \in snd_buf :
               /\ y.sn = x.sn /\ y.sent = x.sent /\ y.rto = x.rto
               /\ y.resendts = x.resendts,
             \A x, y \in snd_buf' : x.sn = y.sn => x = y
      PROVE  TimedInv' /\ Early
  <2>1. plannedAt' = plannedAt /\ now <= now' /\ snd_nxt' = snd_nxt
    BY <1>0, <1>6 DEF plannedAt, current
  <2>2. ASSUME NEW y \in snd_buf' PROVE Timed(y)'
    <3>1. PICK x \in snd_buf : /\ y.sn = x.sn /\ y.sent = x.sent /\ y.rto = x.rto
                               /\ y.resendts = x.resendts
      BY <1>6
    <3> QED BY <1>0, <1>2, <2>1, <3>1, SegmentFacts, StillTimed
  <2>3. ProbeTimed'
    BY <1>6, <2>1 DEF TimedInv, ProbeTimed, probeVars
  <2>4. Early
    <3>1. ASSUME NEW x \in snd_buf, NEW y \in snd_buf', x.sn = y.sn PROVE ~(y.rto > x.rto)
      <4>1. PICK z \in snd_buf : y.sn = z.sn /\ y.rto = z.rto  BY <1>6
      <4>2. z = x  BY <3>1, <4>1 DEF TimedInv
      <4> QED BY <4>1, <4>2, SegmentFacts
    <3> QED BY <3>1
  <2>5. (~updated => snd_buf = {} /\ probe_wait = 0)'
    BY <1>6 DEF TimedInv, probeVars
  <2>6. (updated => now \in Start..MaxNow)'  BY <1>6 DEF TimedInv
  <2> QED BY <1>1, <1>6, <2>2, <2>3, <2>4, <2>5, <2>6 DEF TimedInv
<1>7. ASSUME NEW una \in 0..snd_nxt, NEW a \in acks, InputAck(a, una) PROVE TimedInv' /\ Early
  <2>1. UNCHANGED <<now, updated, ts_flush, snd_nxt, probeVars>>  BY <1>7 DEF InputAck
  <2> DEFINE Skipped(x) == IF x.sn < a.sn
                           THEN [x EXCEPT !.fastack = minOf(@ + 1, FastResend)] ELSE x
  <2>2. \A y \in snd_buf' : \E x \in snd_buf : y = Skipped(x)
    BY <1>7 DEF InputAck, AfterUna
  <2>3. ASSUME NEW x \in snd_buf
        PROVE  /\ Skipped(x).sn = x.sn /\ Skipped(x).sent = x.sent
               /\ Skipped(x).rto = x.rto /\ Skipped(x).resendts = x.resendts
    <3>1. x \in Segment  BY SegmentFacts
    <3> QED BY <3>1 DEF Segment
  <2> HIDE DEF Skipped
  <2>4. \A x, y \in snd_buf' : x.sn = y.sn => x = y
    BY <2>2, <2>3 DEF TimedInv
  <2> QED BY <1>6, <2>1, <2>2, <2>3, <2>4
<1>8. ASSUME NEW una \in 0..snd_nxt, InputOther(una) PROVE TimedInv' /\ Early
  <2>1. UNCHANGED <<now, updated, ts_flush, snd_nxt, probeVars>> /\ snd_buf' \subseteq snd_buf
    BY <1>8 DEF InputOther, AfterUna
  <2>2. \A x, y \in snd_buf' : x.sn = y.sn => x = y  BY <2>1 DEF TimedInv
  <2> QED BY <1>6, <2>1, <2>2
<1>9. CASE UNCHANGED vars
  <2>1. UNCHANGED <<now, updated, ts_flush, snd_nxt, probeVars, snd_buf>>  BY <1>9 DEF vars
  <2>2. \A x, y \in snd_buf' : x.sn = y.sn => x = y  BY <2>1 DEF TimedInv
  <2> QED BY <1>6, <2>1, <2>2
<1> QED BY <1>4, <1>5, <1>7, <1>8, <1>9 DEF Next

(* An unacknowledged segment does not stay longer than its rto, an eighth  *)
(* of the largest estimate and one interval: with a clock that never goes  *)
(* back, and for as long as an rto that keeps growing cannot come near     *)
(* half the range of the timestamps.                                       *)
THEOREM TimeoutsInTime ==
  ASSUME ClockInRange
  PROVE  Spec => []NoLateTimeout
<1>1. TimedInv => NoLateTimeout
  <2> SUFFICES ASSUME TimedInv, NEW x \in snd_buf
               PROVE  now - x.sent < x.rto + RTO_MAX \div 8 + Interval
    BY DEF NoLateTimeout
  <2>1. /\ x.rto \in Nat /\ x.sent \in Nat /\ Timed(x) /\ updated
        /\ now \in Nat /\ PlanType /\ FlushPlanned
    BY SegmentFacts DEF TimedInv, TimerInv, TypeOK, PlanType
  <2>2. PICK d \in Nat : d <= x.rto + RTO_MAX \div 8 /\ plannedAt - Interval < x.sent + d
    BY <2>1, RangeFacts DEF Timed, Waits
  <2>3. now \in now..(now + Half)  BY <2>1, RangeFacts
  <2>4. plannedAt \in (now + 1)..(now + Interval)  BY <2>1, <2>3, FlushesFrom
  <2> QED BY <2>1, <2>2, <2>4, RangeFacts
<1>2. TimedInv /\ [Next]_vars => TimedInv'  BY TimedStep
<1> QED BY <1>1, <1>2, TimedInit, PTL DEF Spec

(* By the readings of the clock that the code has, a segment times out     *)
(* (its rto grows) only when its rto has passed since the reading it was   *)
(* sent at, across the wrap too.  That reading may be older than the       *)
(* sending: how much earlier that makes a timeout is shown for a session   *)
(* under the updater (TimeoutsNotEarly).                                   *)
THEOREM TimeoutsByReadings ==
  ASSUME ClockInRange
  PROVE  Spec => [][\A x \in snd_buf, y \in snd_buf' :
                      x.sn = y.sn /\ y.rto > x.rto => now' - x.sent >= x.rto]_vars
<1> DEFINE Early == \A x \in snd_buf, y \in snd_buf' :
                      x.sn = y.sn /\ y.rto > x.rto => now' - x.sent >= x.rto
<1>1. TimedInv /\ [Next]_vars => TimedInv' /\ Early  BY TimedStep
<1> QED BY <1>1, TimedInit, PTL DEF Spec

(* A closed window is asked about again and again.                         *)
THEOREM ProbesInTime ==
  ASSUME ClockInRange
  PROVE  Spec => []ProbedInTime
<1>1. TimedInv => ProbedInTime
  <2> SUFFICES ASSUME TimedInv, probe_wait # 0
               PROVE  now - asked < PROBE_LIMIT + Interval - 1
    BY DEF ProbedInTime
  <2>1. /\ probe_wait \in Nat /\ asked \in Nat /\ updated
        /\ now \in Nat /\ PlanType /\ FlushPlanned
        /\ probe_wait <= PROBE_LIMIT /\ plannedAt - Interval < asked + probe_wait
    BY DEF TimedInv, TimerInv, TypeOK, PlanType, ProbeTimed
  <2>2. now \in now..(now + Half)  BY <2>1, RangeFacts
  <2>3. plannedAt \in (now + 1)..(now + Interval)  BY <2>1, <2>2, FlushesFrom
  <2>4. PROBE_LIMIT \in Nat  BY TimerFacts
  <2> QED BY <2>1, <2>3, <2>4, RangeFacts
<1>2. TimedInv /\ [Next]_vars => TimedInv'  BY TimedStep
<1> QED BY <1>1, <1>2, TimedInit, PTL DEF Spec

-----------------------------------------------------------------------------
(* ikcp_check.                                                             *)
LEMMA LeastOf ==
  ASSUME NEW S, S # {}, NEW b \in Nat, \A n \in S : n \in Int /\ n >= -b
  PROVE  \E m \in S : \A n \in S : m <= n
<1> DEFINE T == {n + b : n \in S}
           R == OpToRel(<, Nat)
<1>1. T \subseteq Nat /\ T # {}  OBVIOUS
<1>2. IsWellFoundedOn(R, Nat)  BY NatLessThanWellFounded
<1>3. \A m, n \in Nat : m < n => <<m, n>> \in R  BY DEF OpToRel
<1>4. \A n \in S : n + b \in T  OBVIOUS
<1>5. \A t \in T : \E n \in S : t = n + b  OBVIOUS
<1> HIDE DEF R, T
<1>6. PICK t \in T : \A u \in T : ~(<<u, t>> \in R)  BY <1>1, <1>2, WFMin
<1>7. \A u \in T : ~(u < t)  BY <1>1, <1>3, <1>6, Zenon
<1>8. PICK m \in S : t = m + b  BY <1>5
<1>9. ASSUME NEW n \in S PROVE m <= n
  <2>1. ~(n + b < m + b)  BY <1>4, <1>7, <1>8
  <2> QED BY <2>1
<1> QED BY <1>9

(* Whoever calls ikcp_update only when ikcp_check says so misses no flush. *)
THEOREM CheckIsEnough ==
  ASSUME Steps \subseteq 0..(Half - 1)
  PROVE  Spec => []CheckMissesNothing
<1>1. TimerInv /\ FlushPlanned => CheckMissesNothing
  <2> SUFFICES ASSUME TimerInv, FlushPlanned, NEW r \in now..(now + Interval)
               PROVE  LET wait == itimediff(ikcp_check(r), Wrap(r))
                      IN /\ wait \in 0..Interval
                         /\ \A d \in 0..(wait - 1) : ~Flushes(r + d)
    BY DEF CheckMissesNothing
  <2> DEFINE toFlush == itimediff(ts_flush, Wrap(r))
             toResend == {itimediff(x.resendts, Wrap(r)) : x \in snd_buf}
             S == toResend \cup {toFlush, Interval}
             minimal == CHOOSE d \in S : \A e \in S : d <= e
             wait == itimediff(ikcp_check(r), Wrap(r))
  <2>0. /\ now \in Nat /\ r \in Nat /\ r >= now /\ PlanType
        /\ Interval \in Nat \ {0} /\ Half \in Nat /\ Interval < Half
        /\ \A x \in snd_buf : x.resendts \in Int
    <3>1. \A x \in snd_buf : x.resendts \in Int
      BY WidthAssumption DEF TimerInv, TypeOK, Segment
    <3> QED BY <3>1, Constants DEF TimerInv, TypeOK, PlanType
  <2>1. itimediff(Wrap(r), Wrap(r)) = 0
    <3>1. r - r = 0 /\ r - r \in (-Half)..(Half - 1)  BY <2>0
    <3> QED BY <2>0, <3>1, DifferenceExact
  <2>2. ikcp_check(r) = IF ~updated \/ Flushes(r) \/ minimal <= 0 THEN Wrap(r)
                        ELSE Wrap(r + minimal)
    BY DEF ikcp_check
  <2>3. CASE ~updated \/ Flushes(r) \/ minimal <= 0
    <3>1. wait = 0  BY <2>1, <2>2, <2>3
    <3>2. \A d \in 0..(0 - 1) : FALSE  OBVIOUS
    <3> HIDE DEF wait
    <3> QED BY <2>0, <3>1, <3>2 DEF wait
  <2>4. CASE updated /\ ~Flushes(r) /\ ~(minimal <= 0)
    <3>1. \A n \in S : n \in Int /\ n >= -Half
      <4>1. toFlush \in (-Half)..(Half - 1)
        BY <2>0, WrapRange, DifferenceRange, WidthAssumption DEF PlanType
      <4>2. ASSUME NEW x \in snd_buf
            PROVE  itimediff(x.resendts, Wrap(r)) \in (-Half)..(Half - 1)
        <5>1. Wrap(r) \in Int /\ x.resendts \in Int  BY <2>0, WrapRange, WidthAssumption
        <5> QED BY <5>1, DifferenceRange
      <4> QED BY <2>0, <4>1, <4>2
    <3>2. \E m \in S : \A n \in S : m <= n
      <4> HIDE DEF toResend
      <4>1. S # {}  OBVIOUS
      <4> HIDE DEF S
      <4> QED BY <2>0, <3>1, <4>1, LeastOf
    <3>3. minimal \in S /\ \A n \in S : minimal <= n
      <4> HIDE DEF S
      <4> QED BY <3>2, Zenon
    <3>4. Interval \in S /\ toFlush \in S  OBVIOUS
    <3> HIDE DEF minimal, S
    <3>5. PICK m \in Int : m = minimal /\ m > 0 /\ m <= Interval /\ m <= toFlush
      BY <2>4, <3>1, <3>3, <3>4
    <3>6. wait = m
      <4>1. ikcp_check(r) = Wrap(r + m)  BY <2>2, <2>4, <3>5
      <4>2. (r + m) - r = m /\ m \in (-Half)..(Half - 1) /\ r + m \in Int  BY <2>0, <3>5
      <4>3. itimediff(Wrap(r + m), Wrap(r)) = m  BY <2>0, <4>2, DifferenceExact
      <4> QED BY <4>1, <4>3
    <3>7. r \in now..(now + Half)  BY <2>0
    <3>8. plannedAt \in (now + 1)..(now + Interval) /\ ts_flush = Wrap(plannedAt)
      BY <2>0, <2>4, <3>7, FlushesFrom
    <3>9. toFlush = plannedAt - r
      <4>1. plannedAt - r \in (-Half)..(Half - 1) /\ plannedAt \in Int  BY <2>0, <3>8
      <4> QED BY <2>0, <3>8, <4>1, DifferenceExact
    <3>10. ASSUME NEW d \in 0..(m - 1) PROVE ~Flushes(r + d)
      <4>1. PICK t \in Nat : t = r + d  BY <2>0
      <4>2. t < plannedAt  BY <2>0, <3>5, <3>8, <3>9, <4>1
      <4>3. t \in now..(now + Half)  BY <2>0, <3>8, <4>1, <4>2
      <4> QED BY <2>0, <2>4, <3>8, <4>1, <4>2, <4>3, FlushesFrom
    <3> HIDE DEF wait
    <3> QED BY <2>0, <3>5, <3>6, <3>10 DEF wait
  <2> QED BY <2>3, <2>4
<1>2. TimerInv => PlanType  BY DEF TimerInv, TypeOK, PlanType
<1>3. Init => TimerInv /\ FlushPlanned  BY TimerInit DEF Init, FlushPlanned
<1>4. TimerInv /\ FlushPlanned /\ [Next]_vars => (TimerInv /\ FlushPlanned)'
  BY <1>2, TimerStep, PlannedStep
<1> QED BY <1>1, <1>3, <1>4, PTL DEF Spec
=============================================================================
