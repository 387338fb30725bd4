------------------------ MODULE SessionClockProofs ------------------------
(***************************************************************************)
(* For every width, interval and clock: no reading of the clock ends the   *)
(* updater, the next flush stays near, flushes and retransmissions come in *)
(* time, and a timeout is hardly earlier than its rto.                     *)
(***************************************************************************)
EXTENDS SendTimes, KcpTimerProofs

(* What kcp_now returns is a Python integer that update and check accept.  *)
LEMMA ReadingConverts ==
  ASSUME NEW t \in Int
  PROVE  kcp_now(t) \in Nat /\ Converts(kcp_now(t))
<1>1. W = 2 * Half /\ W \in Nat \ {0} /\ Half \in Nat
  BY WidthAssumption DEF Half
<1>2. Wrap(t) \in 0..(W - 1)
  BY WrapRange
<1> QED  BY <1>1, <1>2 DEF kcp_now, Converts, PyInt_As_int, PyInt_As_uint32_t

(* A tick either updates the session at a reading that is a number, or     *)
(* leaves its timers alone.                                                *)
LEMMA TickReading ==
  ASSUME clock \in Int, Tick
  PROVE  /\ clock' \in Int /\ (running => running')
         /\ (\E r \in Nat : UpdateAt(r)) \/ UNCHANGED vars
<1>1. PICK d \in Steps : \E r \in {kcp_now(clock + d)} :
        /\ clock' = clock + d
        /\ running' = (~active \/ Converts(r))
        /\ IF active /\ Converts(r) THEN UpdateSession(r)
           ELSE UNCHANGED vars
  BY DEF Tick
<1>2. clock + d \in Int
  BY Constants
<1>3. kcp_now(clock + d) \in Nat /\ Converts(kcp_now(clock + d))
  BY <1>2, ReadingConverts
<1> QED  BY <1>1, <1>2, <1>3 DEF UpdateSession

(* No value of the system clock makes kcp.update or kcp.check raise, so    *)
(* the updater always schedules its next tick.                             *)
THEOREM UpdaterGoesOn == ClockSpec => []UpdaterRuns
<1> DEFINE Runs == clock \in Int /\ running = TRUE
<1>1. ClockInit => Runs
  BY Constants DEF ClockInit
<1>2. Runs /\ [ClockNext]_allVars => Runs'
  <2> SUFFICES ASSUME Runs, [ClockNext]_allVars PROVE Runs'
    OBVIOUS
  <2>1. CASE Tick
    <3>1. clock' \in Int /\ (running => running')
      BY <2>1, TickReading
    <3>2. running' \in BOOLEAN
      BY <2>1 DEF Tick
    <3> QED  BY <3>1, <3>2
  <2>2. CASE UNCHANGED <<clock, running>>
    BY <2>2
  <2> QED  BY <2>1, <2>2 DEF ClockNext, Datagram, ReadFlush, Write, clockVars, allVars
<1>3. Runs => UpdaterRuns
  BY DEF UpdaterRuns
<1> QED  BY <1>1, <1>2, <1>3, PTL DEF ClockSpec

(* Under the updater, too, a flush is always planned and near, also where  *)
(* kcp_now stops giving the time.                                          *)
THEOREM SessionFlushNear == ClockSpec => []FlushPlannedAfterJump
<1> DEFINE Near == clock \in Int /\ PlanType /\ FlushPlannedAfterJump
<1>1. ClockInit => Near
  BY PlanInit, Constants DEF ClockInit, Init, FlushPlannedAfterJump
<1>2. Near /\ [ClockNext]_allVars => Near'
  <2> SUFFICES ASSUME Near, [ClockNext]_allVars PROVE Near'
    OBVIOUS
  <2>1. ASSUME NEW r \in Nat, UpdateAt(r) PROVE PlanType' /\ FlushPlannedAfterJump'
    BY <2>1, NearStep
  <2>2. CASE Tick
    BY <2>1, <2>2, TickReading DEF PlanType, FlushPlannedAfterJump, current, vars
  <2>3. CASE UNCHANGED <<clock, now, updated, ts_flush>>
    BY <2>3 DEF PlanType, FlushPlannedAfterJump, current
  <2> QED
    BY <2>2, <2>3 DEF ClockNext, Datagram, ReadFlush, Flush, InputAck, InputOther,
                      Write, clockVars, allVars, vars
<1>3. Near => FlushPlannedAfterJump
  OBVIOUS
<1> QED  BY <1>1, <1>2, <1>3, PTL DEF ClockSpec

-----------------------------------------------------------------------------
(* Flushes and retransmissions of a session against its own clock.         *)

(* The updater is called back after an interval, and the clock is set by   *)
(* less than half the range of the timestamps.                             *)
TicksInRange == Steps \subseteq (-Half)..Half /\ \E d \in Steps : d >= Interval

(* When x times out.  As long as kcp_now is a time it gives no time beyond *)
(* half the range, so nothing wraps.                                       *)
TimesOut(x, d) == /\ d \in x.rto..(x.rto + RTO_MAX \div 8)
                  /\ x.resendts = Wrap(x.sent + d)

Held(x) == x.sent \in 0..(Half - 1) /\ x.rto >= 1 /\ \E d \in Nat : TimesOut(x, d)

(* ... and the flush before the planned one was earlier than that, or the  *)
(* plan was made before the clock was set back.                            *)
Due(x) == \E d \in Nat : /\ TimesOut(x, d)
                         /\ \/ x.sent + d > ts_flush - Interval
                            \/ setbacks > 0 /\ x.sent >= ts_flush - JUMP

Planned == /\ now < Half /\ ts_flush \in (now + 1)..(now + JUMP)
           /\ next_update \in Int /\ next_update <= ts_flush

(* The ticks since the last flush that the clock accounts for.             *)
behind == quiet * Interval - lag

InTime == /\ Wrap(clock) < Half
          /\ Wrap(clock) < ts_flush + (IF active THEN Longest ELSE 0)
          /\ behind <= Wrap(clock) - ts_flush + Interval
          /\ behind <= IF active THEN 2 * Interval ELSE Interval
          /\ setbacks = 0 => now <= Wrap(clock) /\ ts_flush <= now + Interval

ClockType == clock \in Int /\ setbacks \in Nat /\ quiet \in Nat /\ lag \in Nat

SessionInv ==
  /\ TimerInv /\ ClockType
  /\ ~updated => active /\ snd_buf = {} /\ quiet = 0 /\ lag = 0
  /\ updated => Planned
  /\ \A x \in snd_buf : Held(x)
  /\ updated /\ ~blind => InTime /\ \A x \in snd_buf : Due(x)

LEMMA TickFacts ==
  ASSUME TicksInRange
  PROVE  /\ Longest \in Int /\ Longest >= Interval /\ \A d \in Steps : d <= Longest
         /\ \A d \in Steps : d \in (-Half)..Half
<1>0. Half \in Nat /\ Interval \in Nat /\ \A d \in Steps : d \in (-Half)..Half
  BY Constants DEF TicksInRange
<1> DEFINE Back == {-d : d \in Steps}
<1>1. Back # {} /\ \A n \in Back : n \in Int /\ n >= -Half
  BY <1>0 DEF TicksInRange
<1>2. \A d \in Steps : -d \in Back  OBVIOUS
<1>3. \A n \in Back : \E d \in Steps : n = -d  OBVIOUS
<1> HIDE DEF Back
<1>4. PICK m \in Back : \A n \in Back : m <= n  BY <1>0, <1>1, LeastOf
<1>5. PICK d \in Steps : m = -d  BY <1>3
<1>6. \A e \in Steps : e <= d
  <2> SUFFICES ASSUME NEW e \in Steps PROVE e <= d  OBVIOUS
  <2>1. m <= -e  BY <1>2, <1>4
  <2>2. d \in Int /\ e \in Int  BY <1>0
  <2> QED BY <1>5, <2>1, <2>2
<1>7. Longest \in Steps /\ \A e \in Steps : e <= Longest
  <2>1. \E c \in Steps : \A e \in Steps : e <= c  BY <1>6
  <2> QED BY <2>1, Zenon DEF Longest
<1> QED BY <1>0, <1>7 DEF TicksInRange

(* What kcp_now returns for the time t.                                     *)
LEMMA Reading ==
  ASSUME NEW t \in Int
  PROVE  kcp_now(t) \in 0..(Half - 1)
<1>1. W = 2 * Half /\ W \in Nat \ {0} /\ Half \in Nat /\ Half > 0
  BY WidthAssumption DEF Half
<1>2. Wrap(t) \in 0..(W - 1)
  BY WrapRange
<1> QED  BY <1>1, <1>2 DEF kcp_now, PyInt_As_int

(* Between two times that the readings show, the clock moved by as much.   *)
LEMMA ReadingMoves ==
  ASSUME NEW t \in Int, NEW d \in (-Half)..Half,
         Wrap(t) < Half, Wrap(t + d) < Half
  PROVE  Wrap(t + d) = Wrap(t) + d
<1>1. W = 2 * Half /\ W \in Nat \ {0} /\ Half \in Nat /\ Half > 0 /\ d \in Int
  BY WidthAssumption DEF Half
<1>2. Wrap(t) \in 0..(Half - 1) /\ Wrap(t + d) \in 0..(Half - 1)
  BY <1>1, WrapRange
<1>3. Wrap(Wrap(t) + d) = Wrap(t + d)
  BY <1>1, WrapAdd
<1>4. PICK a \in 0..(Half - 1), b \in 0..(Half - 1) : a = Wrap(t) /\ b = Wrap(t + d)
  BY <1>2
<1>5. CASE a + d \in 0..(W - 1)
  BY <1>3, <1>4, <1>5, WrapId
<1>6. CASE a + d < 0
  <2>1. a + d + W * 1 \in 0..(W - 1) /\ a + d \in Int  BY <1>1, <1>6
  <2>2. Wrap(a + d + W * 1) = Wrap(a + d)  BY <2>1, WrapShift
  <2>3. b = a + d + W * 1  BY <1>3, <1>4, <2>1, <2>2, WrapId
  <2> QED BY <1>1, <1>4, <1>6, <2>3
<1>7. CASE a + d > W - 1
  BY <1>1, <1>7
<1> QED BY <1>1, <1>5, <1>6, <1>7

LEMMA BehindStep ==
  ASSUME NEW q \in Nat, NEW l \in Nat, NEW d \in Int
  PROVE  /\ (q + 1) * Interval - (l + maxOf(0, Interval - d)) <= q * Interval - l + d
         /\ (q + 1) * Interval - (l + maxOf(0, Interval - d)) <= q * Interval - l + Interval
<1>1. Interval \in Nat  BY Constants
<1>2. (q + 1) * Interval = q * Interval + Interval  BY <1>1
<1>3. PICK m \in Nat : m = q * Interval  BY <1>1
<1> QED BY <1>1, <1>2, <1>3 DEF maxOf

(* Once an update has read the clock, the flush is planned ahead of it.    *)
LEMMA PlanAfter ==
  ASSUME PlanType, NEW r \in 0..(Half - 1), UpdateAt(r)
  PROVE  /\ now' = r /\ updated' /\ ts_flush' \in (r + 1)..(r + JUMP)
         /\ Flushes(r) => ts_flush' <= r + Interval
         /\ ~Flushes(r) => updated /\ ts_flush' = ts_flush /\ snd_buf' = snd_buf
<1>0. /\ r \in Nat /\ Half \in Nat /\ W = 2 * Half /\ Interval \in Nat \ {0}
      /\ JUMP \in Nat /\ Interval < JUMP /\ JUMP < Half
  BY Constants, WidthAssumption DEF Half
<1>1. /\ now' = r /\ updated' = TRUE
      /\ IF Flushes(r) THEN ts_flush' = NextFlush(r)
         ELSE ts_flush' = ts_flush /\ snd_buf' = snd_buf
  BY DEF UpdateAt
<1>2. CASE Flushes(r)
  <2>1. PICK t \in 0..(W - 1) : t = NextFlush(r) /\ itimediff(t, Wrap(r)) \in 1..Interval
    BY <1>0, <1>2, NextIsNear
  <2>2. PICK e \in 1..Interval : e = itimediff(t, Wrap(r))  BY <2>1
  <2>3. t = Wrap(r + e)  BY <1>0, <2>2, AheadOf
  <2>4. r + e \in 0..(W - 1)  BY <1>0
  <2>5. t = r + e  BY <2>3, <2>4, WrapId
  <2> QED BY <1>0, <1>1, <1>2, <2>1, <2>5
<1>3. CASE ~Flushes(r)
  <2>1. updated /\ Slap(r) \in (-JUMP)..(-1) /\ ts_flush = Wrap(r - Slap(r))
    BY <1>0, <1>3, PlanAhead
  <2>2. PICK e \in 1..JUMP : e = -Slap(r)  BY <1>0, <2>1
  <2>3. r - Slap(r) = r + e /\ r + e \in 0..(W - 1)  BY <1>0, <2>1, <2>2
  <2>4. ts_flush = r + e  BY <2>1, <2>3, WrapId
  <2> QED BY <1>0, <1>1, <1>3, <2>1, <2>4
<1> QED BY <1>2, <1>3

(* ikcp_check names no moment after the planned flush.                     *)
LEMMA CheckInTime ==
  TimerInv => \A q \in 0..(Half - 1) :
    ts_flush \in (q + 1)..(q + JUMP) => ikcp_check(q) \in Int /\ ikcp_check(q) <= ts_flush
<1> SUFFICES ASSUME TimerInv, NEW r \in 0..(Half - 1), ts_flush \in (r + 1)..(r + JUMP)
             PROVE  ikcp_check(r) \in Int /\ ikcp_check(r) <= ts_flush
  OBVIOUS
<1> DEFINE toFlush == itimediff(ts_flush, Wrap(r))
           toResend == {itimediff(x.resendts, Wrap(r)) : x \in snd_buf}
           S == toResend \cup {toFlush, Interval}
           minimal == CHOOSE d \in S : \A e \in S : d <= e
<1>0. /\ r \in Nat /\ r \in 0..(W - 1) /\ Half \in Nat /\ W = 2 * Half /\ JUMP \in Nat
      /\ Interval \in Nat /\ Interval < Half /\ JUMP < Half /\ ts_flush \in 0..(W - 1)
      /\ \A x \in snd_buf : x.resendts \in Int
  BY Constants, WidthAssumption DEF Half, TimerInv, TypeOK, Segment
<1>1. Wrap(r) = r /\ Wrap(ts_flush) = ts_flush  BY <1>0, WrapId
<1>2. ikcp_check(r) = IF ~updated \/ Flushes(r) \/ minimal <= 0 THEN Wrap(r)
                      ELSE Wrap(r + minimal)
  BY DEF ikcp_check
<1>3. CASE ~updated \/ Flushes(r) \/ minimal <= 0
  BY <1>0, <1>1, <1>2, <1>3
<1>4. CASE ~(~updated \/ Flushes(r) \/ minimal <= 0)
  <2>1. toFlush = ts_flush - r
    <3>1. ts_flush - r \in (-Half)..(Half - 1) /\ ts_flush \in Int  BY <1>0
    <3> QED BY <1>0, <1>1, <3>1, DifferenceExact
  <2>2. \A n \in S : n \in Int /\ n >= -Half
    <3>1. ASSUME NEW x \in snd_buf
          PROVE  itimediff(x.resendts, Wrap(r)) \in (-Half)..(Half - 1)
      <4>1. Wrap(r) \in Int /\ x.resendts \in Int  BY <1>0, <1>1
      <4> QED BY <4>1, DifferenceRange
    <3> QED BY <1>0, <2>1, <3>1
  <2>3. \E m \in S : \A n \in S : m <= n
    <3> HIDE DEF toResend
    <3>1. S # {}  OBVIOUS
    <3> HIDE DEF S
    <3> QED BY <1>0, <2>2, <3>1, LeastOf
  <2>4. minimal \in S /\ \A n \in S : minimal <= n
    <3> HIDE DEF S
    <3> QED BY <2>3, Zenon
  <2>5. toFlush \in S  OBVIOUS
  <2> HIDE DEF minimal, S
  <2>6. PICK m \in Int : m = minimal /\ m > 0 /\ m <= toFlush
    BY <1>4, <2>2, <2>4, <2>5
  <2>7. r + m \in 0..(W - 1) /\ r + m <= ts_flush  BY <1>0, <2>1, <2>6
  <2>8. ikcp_check(r) = r + m  BY <1>2, <1>4, <2>6, <2>7, WrapId
  <2> QED BY <1>0, <2>7, <2>8
<1> QED BY <1>3, <1>4

(* A flush sends a segment at its reading, or leaves it because it is not  *)
(* due yet.                                                                *)
SentAt(y, r) == y.sent = r /\ y.rto >= 1 /\ \E d \in Nat : d >= 1 /\ TimesOut(y, d)
LeftAt(y, r) == y \in snd_buf /\ \A d \in Nat : TimesOut(y, d) => r < y.sent + d

LEMMA NewSentAt ==
  ASSUME TypeOK, NEW sn \in Nat, NEW r \in Nat
  PROVE  SentAt(New(sn, r), r)
<1> DEFINE y == New(sn, r)
           d == rx_rto + rtomin
<1>1. y.sent = r /\ y.rto = rx_rto /\ y.resendts = Wrap(r + rx_rto + rtomin)
  BY DEF New
<1>2. /\ rx_rto \in Nat /\ rx_rto >= 2 /\ rtomin \in Nat /\ rtomin <= RTO_MAX \div 8
      /\ RTO_MAX \div 8 \in Nat
  BY EstimateFacts, TimerFacts, Halves
<1>3. r + rx_rto + rtomin = r + d /\ d \in Nat /\ d >= 1  BY <1>2
<1> HIDE DEF y
<1>4. TimesOut(y, d)  BY <1>1, <1>2, <1>3 DEF TimesOut
<1> QED BY <1>1, <1>2, <1>3, <1>4 DEF SentAt, y

LEMMA ResentAt ==
  ASSUME TimerInv, NEW x \in snd_buf, Held(x), NEW r \in 0..(Half - 1)
  PROVE  SentAt(Resent(x, r), r) \/ (Resent(x, r) = x /\ LeftAt(x, r))
<1> DEFINE y == Resent(x, r)
           g == IF NoDelay THEN rx_rto \div 2 ELSE rx_rto
<1>0. TypeOK /\ r \in Nat /\ Half \in Nat /\ RTO_MAX \div 8 \in Nat
  BY Constants, TimerFacts, Halves DEF TimerInv
<1>1. /\ x \in Segment /\ x.sent \in Nat /\ x.rto \in Nat /\ x.rto >= 1
  BY DEF TimerInv, TypeOK, Segment, Held
<1>2. g \in Nat /\ g >= 1  BY <1>0, EstimateFacts
<1>3. y = IF Expired(x, r)
          THEN [x EXCEPT !.sent = r, !.rto = x.rto + g, !.resendts = Wrap(r + (x.rto + g))]
          ELSE IF Fast(x)
          THEN [x EXCEPT !.sent = r, !.resendts = Wrap(r + x.rto), !.fastack = 0]
          ELSE x
  BY DEF Resent
<1> HIDE DEF y, g
<1>4. CASE Expired(x, r)
  <2>1. PICK n \in Nat : n = x.rto + g  BY <1>1, <1>2
  <2>2. y = [x EXCEPT !.sent = r, !.rto = n, !.resendts = Wrap(r + n)]  BY <1>3, <1>4, <2>1
  <2>3. y.sent = r /\ y.rto = n /\ y.resendts = Wrap(r + n)
    BY <1>1, <2>2 DEF Segment
  <2>4. n >= 1 /\ TimesOut(y, n)  BY <1>0, <1>1, <1>2, <2>1, <2>3 DEF TimesOut
  <2> QED BY <2>3, <2>4 DEF SentAt, y
<1>5. CASE ~Expired(x, r) /\ Fast(x)
  <2>1. y.sent = r /\ y.rto = x.rto /\ y.resendts = Wrap(r + x.rto)
    BY <1>1, <1>3, <1>5 DEF Segment
  <2>2. TimesOut(y, x.rto)  BY <1>0, <1>1, <2>1 DEF TimesOut
  <2> QED BY <1>1, <2>1, <2>2 DEF SentAt, y
<1>6. CASE ~Expired(x, r) /\ ~Fast(x)
  <2>1. y = x  BY <1>3, <1>6
  <2>2. ASSUME NEW d \in Nat, TimesOut(x, d), r >= x.sent + d PROVE FALSE
    <3>1. r - (x.sent + d) \in (-Half)..(Half - 1) /\ x.sent + d \in Int
      BY <1>0, <1>1, <2>2
    <3>2. itimediff(Wrap(r), x.resendts) = r - (x.sent + d)
      BY <1>0, <2>2, <3>1, DifferenceExact DEF TimesOut
    <3> QED BY <1>0, <1>1, <1>6, <2>2, <3>2 DEF Expired
  <2>3. LeftAt(x, r)
    <3>1. ASSUME NEW d \in Nat, TimesOut(x, d) PROVE r < x.sent + d
      BY <1>0, <1>1, <2>2, <3>1
    <3> QED BY <3>1 DEF LeftAt
  <2> QED BY <2>1, <2>3 DEF y
<1> QED BY <1>4, <1>5, <1>6

LEMMA FlushSends ==
  ASSUME TimerInv, \A x \in snd_buf : Held(x), NEW r \in 0..(Half - 1), ikcp_flush(r)
  PROVE  \A y \in snd_buf' : SentAt(y, r) \/ LeftAt(y, r)
<1>0. TypeOK /\ snd_nxt \in Nat /\ r \in Nat  BY DEF TimerInv, TypeOK
<1>1. PICK k \in Nat :
        snd_buf' = {Resent(x, r) : x \in snd_buf} \cup {New(snd_nxt + i, r) : i \in 0..(k - 1)}
  BY DEF ikcp_flush
<1>2. ASSUME NEW x \in snd_buf PROVE SentAt(Resent(x, r), r) \/ LeftAt(Resent(x, r), r)
  BY ResentAt
<1>3. ASSUME NEW i \in 0..(k - 1) PROVE SentAt(New(snd_nxt + i, r), r)
  <2>1. PICK n \in Nat : n = snd_nxt + i  BY <1>0
  <2> QED BY <1>0, <2>1, NewSentAt
<1> QED BY <1>1, <1>2, <1>3

(* An acknowledgement changes no timer of the segments it leaves.          *)
LEMMA InputKeeps ==
  ASSUME TimerInv, NEW una \in 0..snd_nxt,
         (\E a \in acks : InputAck(a, una)) \/ InputOther(una)
  PROVE  \A y \in snd_buf' : \E x \in snd_buf :
           y.sent = x.sent /\ y.rto = x.rto /\ y.resendts = x.resendts
<1>1. CASE InputOther(una)
  BY <1>1 DEF InputOther, AfterUna
<1>2. ASSUME NEW a \in acks, InputAck(a, una)
      PROVE  \A y \in snd_buf' : \E x \in snd_buf :
               y.sent = x.sent /\ y.rto = x.rto /\ y.resendts = x.resendts
  <2> DEFINE Skipped(x) == IF x.sn < a.sn
                           THEN [x EXCEPT !.fastack = minOf(@ + 1, FastResend)] ELSE x
  <2>1. \A y \in snd_buf' : \E x \in snd_buf : y = Skipped(x)
    BY <1>2 DEF InputAck, AfterUna
  <2>2. ASSUME NEW x \in snd_buf
        PROVE  /\ Skipped(x).sent = x.sent /\ Skipped(x).rto = x.rto
               /\ Skipped(x).resendts = x.resendts
    <3>1. x \in Segment  BY DEF TimerInv, TypeOK
    <3> QED BY <3>1 DEF Segment
  <2> HIDE DEF Skipped
  <2> QED BY <2>1, <2>2
<1> QED BY <1>1, <1>2

-----------------------------------------------------------------------------
(* The steps.                                                              *)
LEMMA PlanTyped == TimerInv => PlanType
BY DEF TimerInv, TypeOK, PlanType

(* A segment that keeps its timer stays due while the plan stands.         *)
LEMMA DueStays ==
  ASSUME NEW x, NEW y, Due(x), y.sent = x.sent, y.rto = x.rto, y.resendts = x.resendts,
         ts_flush' = ts_flush, setbacks > 0 => setbacks' > 0
  PROVE  Due(y)'
BY DEF Due, TimesOut

(* A tick that leaves the plan as it is.                                   *)
LEMMA PlanStands ==
  ASSUME TicksInRange, ClockType, InTime, Planned, TimerInv,
         NEW d \in Steps, NEW r \in 0..(Half - 1), r = Wrap(clock + d), clock' = clock + d,
         ts_flush' = ts_flush, setbacks' = 0 => d >= 0 /\ setbacks = 0,
         quiet' = quiet + 1, lag' = lag + maxOf(0, Interval - d)
  PROVE  /\ Wrap(clock') = r /\ r = Wrap(clock) + d /\ behind' \in Int
         /\ behind' <= r - ts_flush' + Interval /\ behind' <= behind + Interval
         /\ setbacks' = 0 => now <= r /\ ts_flush' <= now + Interval
<1>1. /\ clock \in Int /\ d \in Int /\ d \in (-Half)..Half /\ Half \in Nat /\ r \in Nat
      /\ Interval \in Nat /\ quiet \in Nat /\ lag \in Nat
      /\ now \in Nat /\ ts_flush \in Int /\ behind \in Int
  BY TickFacts, Constants, WidthAssumption DEF ClockType, TimerInv, TypeOK, behind
<1>2. Wrap(clock) < Half /\ Wrap(clock) \in Int /\ Wrap(clock + d) < Half
  BY <1>1, WrapRange, WidthAssumption DEF InTime
<1>3. r = Wrap(clock) + d  BY <1>1, <1>2, ReadingMoves
<1>4. behind' <= behind + d /\ behind' <= behind + Interval /\ behind' \in Int
  <2>1. /\ (quiet + 1) * Interval - (lag + maxOf(0, Interval - d)) <= quiet * Interval - lag + d
        /\ (quiet + 1) * Interval - (lag + maxOf(0, Interval - d))
             <= quiet * Interval - lag + Interval
    BY <1>1, BehindStep
  <2>2. behind' = (quiet + 1) * Interval - (lag + maxOf(0, Interval - d))
    BY DEF behind
  <2>3. behind' \in Int  BY <1>1, <2>2 DEF maxOf
  <2> QED BY <2>1, <2>2, <2>3 DEF behind
<1>5. behind <= Wrap(clock) - ts_flush + Interval  BY DEF InTime
<1>6. setbacks = 0 => now <= Wrap(clock) /\ ts_flush <= now + Interval  BY DEF InTime
<1>7. behind' <= r - ts_flush' + Interval
  BY <1>1, <1>2, <1>3, <1>4, <1>5
<1> QED BY <1>1, <1>2, <1>3, <1>4, <1>6, <1>7

LEMMA PlannedBehind ==
  \A r, t \in Int : t >= r + 1 /\ t <= r + Interval =>
    /\ \A m \in Int : m > r => m > t - Interval
    /\ r < t /\ r < t + 0 /\ 0 <= r - t + Interval /\ 0 <= Interval
BY Constants

(* A tick at the reading r, where the clock has moved by d.                *)
TickAt(d, r) ==
  LET flushed == active /\ Flushes(r)
  IN /\ clock' = clock + d
     /\ setbacks' = IF d < 0 THEN setbacks + 1 ELSE setbacks
     /\ quiet' = IF flushed THEN 0 ELSE quiet + 1
     /\ lag' = IF flushed THEN 0 ELSE lag + maxOf(0, Interval - d)
     /\ blind' = ((blind /\ ~flushed) \/ r # Wrap(clock + d))

(* The tick of a session that is active. *)
LEMMA UpdateStep ==
  ASSUME TicksInRange, SessionInv, ClockType', active,
         NEW d \in Steps, NEW r \in 0..(Half - 1), TickAt(d, r), UpdateSession(r)
  PROVE  SessionInv'
<1>0. /\ r \in Nat /\ r \in Int /\ Half \in Nat /\ Interval \in Nat /\ d \in Int
      /\ setbacks \in Nat /\ JUMP \in Nat
  BY Constants DEF SessionInv, ClockType
<1>a. /\ TimerInv /\ PlanType /\ ClockType
      /\ UpdateAt(r) /\ active' = FALSE /\ next_update' = ikcp_check(r)'
  BY PlanTyped DEF SessionInv, UpdateSession
<1>1. TimerInv'  BY <1>0, <1>a, UpdateTypes
<1>2. /\ now' = r /\ updated' /\ ts_flush' \in (r + 1)..(r + JUMP)
      /\ Flushes(r) => ts_flush' <= r + Interval
      /\ ~Flushes(r) => updated /\ ts_flush' = ts_flush /\ snd_buf' = snd_buf
  BY <1>0, <1>a, PlanAfter
<1>3. Planned'
  <2>1. (TimerInv => \A q \in 0..(Half - 1) :
           ts_flush \in (q + 1)..(q + JUMP) => ikcp_check(q) \in Int /\ ikcp_check(q) <= ts_flush)'
    BY CheckInTime, PTL
  <2>2. ikcp_check(r)' \in Int /\ ikcp_check(r)' <= ts_flush'  BY <1>1, <1>2, <2>1
  <2> QED BY <1>a, <1>0, <1>2, <2>2 DEF Planned
<1>4. CASE Flushes(r)
  <2>1. ikcp_flush(r)  BY <1>a, <1>4 DEF UpdateAt
  <2>2. \A y \in snd_buf' : SentAt(y, r) \/ LeftAt(y, r)
    BY <1>0, <1>a, <2>1, FlushSends DEF SessionInv
  <2>3. ts_flush' \in Int /\ ts_flush' >= r + 1 /\ ts_flush' <= r + Interval
    BY <1>0, <1>2, <1>4
  <2>4. \A m \in Int : m > r => m > ts_flush' - Interval
    BY <1>0, <2>3, PlannedBehind, Zenon
  <2>5. ASSUME NEW y \in snd_buf' PROVE Held(y)' /\ Due(y)'
    <3>1. CASE SentAt(y, r)
      <4>1. PICK n \in Nat : n >= 1 /\ TimesOut(y, n)  BY <3>1 DEF SentAt
      <4>2. y.sent = r /\ y.rto >= 1  BY <3>1 DEF SentAt
      <4>3. r + n > ts_flush' - Interval  BY <1>0, <2>4, <4>1
      <4>4. TimesOut(y, n)'  BY <4>1 DEF TimesOut
      <4> QED BY <4>1, <4>2, <4>3, <4>4 DEF Held, Due
    <3>2. CASE LeftAt(y, r)
      <4>1. Held(y)  BY <3>2 DEF LeftAt, SessionInv
      <4>2. PICK n \in Nat : TimesOut(y, n)  BY <4>1 DEF Held
      <4>3. r < y.sent + n /\ y.sent \in 0..(Half - 1)  BY <3>2, <4>1, <4>2 DEF LeftAt, Held
      <4>4. y.sent + n > ts_flush' - Interval  BY <1>0, <2>4, <4>3
      <4>5. TimesOut(y, n)'  BY <4>2 DEF TimesOut
      <4> QED BY <4>1, <4>4, <4>5 DEF Held, Due
    <3> QED BY <2>2, <3>1, <3>2
  <2>6. ASSUME ~blind' PROVE InTime'
    <3>1. Wrap(clock') = r  BY <2>6 DEF TickAt
    <3>2. behind' = 0
      <4>1. quiet' = 0 /\ lag' = 0  BY <1>4 DEF TickAt
      <4> QED BY <1>0, <4>1 DEF behind
    <3>3. r < ts_flush' + 0 /\ 0 <= r - ts_flush' + Interval /\ 0 <= Interval
      BY <1>0, <2>3, PlannedBehind, Zenon
    <3>4. now' = r /\ active' = FALSE  BY <1>a, <1>2
    <3>5. r < Half /\ r <= r  BY <1>0
    <3> QED BY <2>3, <3>1, <3>2, <3>3, <3>4, <3>5, Zenon DEF InTime
  <2> QED BY <1>1, <1>2, <1>3, <2>5, <2>6 DEF SessionInv
<1>5. CASE ~Flushes(r)
  <2>1. updated /\ ts_flush' = ts_flush /\ snd_buf' = snd_buf  BY <1>2, <1>5
  <2>2. ASSUME NEW y \in snd_buf' PROVE Held(y)'
    <3>1. Held(y)  BY <2>1 DEF SessionInv
    <3> QED BY <3>1 DEF Held, TimesOut
  <2>3. ASSUME ~blind' PROVE InTime' /\ \A x \in snd_buf' : Due(x)'
    <3>1. ~blind /\ r = Wrap(clock + d) /\ clock' = clock + d  BY <1>5, <2>3 DEF TickAt
    <3>2. InTime /\ Planned /\ \A x \in snd_buf : Due(x)  BY <2>1, <3>1 DEF SessionInv
    <3>3. setbacks' = 0 => d >= 0 /\ setbacks = 0  BY <1>0 DEF TickAt
    <3>4. quiet' = quiet + 1 /\ lag' = lag + maxOf(0, Interval - d)  BY <1>5 DEF TickAt
    <3>5. /\ Wrap(clock') = r /\ r = Wrap(clock) + d /\ behind' \in Int
          /\ behind' <= r - ts_flush' + Interval
          /\ setbacks' = 0 => now <= r /\ ts_flush' <= now + Interval
      BY <1>0, <1>a, <2>1, <3>1, <3>2, <3>3, <3>4, PlanStands
    <3>6. ts_flush' \in Int /\ ts_flush' >= r + 1  BY <1>0, <1>2
    <3>7. behind' <= Interval  BY <1>0, <3>5, <3>6
    <3>8. setbacks' = 0 => now' <= r /\ ts_flush' <= now' + Interval
      <4>1. now \in Nat  BY <1>a DEF PlanType
      <4> QED BY <1>0, <1>2, <3>5, <3>6, <4>1
    <3>9. InTime'  BY <1>a, <1>0, <3>5, <3>6, <3>7, <3>8 DEF InTime
    <3>10. setbacks > 0 => setbacks' > 0  BY <1>0 DEF TickAt
    <3> QED BY <2>1, <3>2, <3>9, <3>10, DueStays
  <2> QED BY <1>1, <1>2, <1>3, <2>2, <2>3 DEF SessionInv
<1> QED BY <1>4, <1>5

(* The tick of a session that is not. *)
LEMMA IdleStep ==
  ASSUME TicksInRange, SessionInv, ClockType', ~active,
         NEW d \in Steps, NEW r \in 0..(Half - 1), TickAt(d, r), PutBack(r),
         UNCHANGED <<vars, next_update>>
  PROVE  SessionInv'
<1>0. updated /\ TimerInv /\ ClockType /\ Planned /\ \A x \in snd_buf : Held(x)
  BY DEF SessionInv
<1>1. /\ UNCHANGED <<now, updated, ts_flush, snd_buf, next_update>>
      /\ active' = (next_update - r < Interval)
  BY DEF vars, PutBack
<1>2. TimerInv'
  <2>1. [Next]_vars  OBVIOUS
  <2> QED BY <1>0, <2>1, TimerStep
<1>3. Planned' /\ updated'  BY <1>0, <1>1 DEF Planned
<1>4. \A x \in snd_buf' : Held(x)'  BY <1>0, <1>1 DEF Held, TimesOut
<1>5. ASSUME ~blind' PROVE InTime' /\ \A x \in snd_buf' : Due(x)'
  <2>1. ~blind /\ r = Wrap(clock + d) /\ clock' = clock + d
    BY <1>5 DEF TickAt
  <2>2. InTime /\ \A x \in snd_buf : Due(x)  BY <1>0, <2>1 DEF SessionInv
  <2>3. /\ setbacks' = 0 => d >= 0 /\ setbacks = 0
        /\ setbacks > 0 => setbacks' > 0
        /\ quiet' = quiet + 1 /\ lag' = lag + maxOf(0, Interval - d)
    <3>1. setbacks \in Nat /\ d \in Int  BY <1>0, Constants DEF ClockType
    <3> QED BY <3>1 DEF TickAt
  <2>4. /\ Wrap(clock') = r /\ r = Wrap(clock) + d /\ behind' \in Int
        /\ behind' <= r - ts_flush' + Interval /\ behind' <= behind + Interval
        /\ setbacks' = 0 => now <= r /\ ts_flush' <= now + Interval
    BY <1>0, <1>1, <2>1, <2>2, <2>3, PlanStands
  <2>5. PICK t \in Int, n \in Int, l \in Int, b \in Int, i \in Nat \ {0} :
          /\ t = ts_flush /\ n = next_update /\ l = Longest /\ b = behind' /\ i = Interval
          /\ n <= t /\ d \in Int /\ d <= l /\ l >= i
    <3>1. ts_flush \in Int  BY <1>0, WidthAssumption DEF TimerInv, TypeOK
    <3> QED BY <1>0, <2>4, <3>1, TickFacts, Constants DEF Planned
  <2>6. PICK c \in Int, q \in Int : /\ c = Wrap(clock) /\ q = r /\ q = c + d /\ c < t
                                    /\ b <= q - t + i /\ b <= behind + i /\ behind <= i
    <3>1. Wrap(clock) \in Int /\ r \in Int
      BY <1>0, Constants, WrapRange, WidthAssumption DEF ClockType
    <3>2. Wrap(clock) < ts_flush + 0 /\ behind <= Interval  BY <2>2 DEF InTime
    <3>3. Wrap(clock) < ts_flush  BY <2>5, <3>1, <3>2
    <3> QED BY <1>1, <2>4, <2>5, <3>1, <3>2, <3>3
  <2>7. Wrap(clock') < Half  BY <2>4, Constants
  <2>8. CASE next_update - r < Interval
    <3>1. active' = TRUE  BY <1>1, <2>8
    <3>2. q < t + l  BY <2>5, <2>6
    <3>3. b <= 2 * i
      <4>1. behind \in Int  BY <1>0, Constants DEF behind, ClockType
      <4> QED BY <2>5, <2>6, <4>1
    <3> QED BY <1>1, <2>2, <2>3, <2>4, <2>5, <2>6, <2>7, <3>1, <3>2, <3>3, DueStays DEF InTime
  <2>9. CASE ~(next_update - r < Interval)
    <3>1. ~active'  BY <1>1, <2>9
    <3>2. ~(n - q < i)  BY <2>5, <2>6, <2>9
    <3>3. q < t /\ q < t + 0 /\ b <= i  BY <2>5, <2>6, <3>2
    <3> QED BY <1>1, <2>2, <2>3, <2>4, <2>5, <2>6, <2>7, <3>1, <3>3, DueStays DEF InTime
  <2> QED BY <2>8, <2>9
<1> QED BY <1>2, <1>3, <1>4, <1>5 DEF SessionInv

LEMMA TickStep ==
  ASSUME TicksInRange, SessionInv, Tick
  PROVE  SessionInv'
<1>0. ClockType  BY DEF SessionInv
<1>1. PICK d \in Steps : \E r \in {kcp_now(clock + d)} :
        /\ IF active /\ Converts(r) THEN UpdateSession(r)
           ELSE /\ IF active THEN active' = FALSE ELSE PutBack(r)
                /\ UNCHANGED <<vars, next_update>>
        /\ clock' = clock + d
        /\ setbacks' = IF d < 0 THEN setbacks + 1 ELSE setbacks
        /\ LET flushed == active /\ Converts(r) /\ Flushes(r)
           IN /\ quiet' = IF flushed THEN 0 ELSE quiet + 1
              /\ lag' = IF flushed THEN 0 ELSE lag + maxOf(0, Interval - d)
              /\ blind' = ((blind /\ ~flushed) \/ r # Wrap(clock + d))
  BY DEF Tick
<1>2. d \in Int /\ clock + d \in Int  BY <1>0, Constants DEF ClockType
<1>3. PICK r \in 0..(Half - 1) : r = kcp_now(clock + d)  BY <1>2, Reading
<1>4. Converts(r)  BY <1>2, <1>3, ReadingConverts
<1>5. TickAt(d, r)  BY <1>1, <1>3, <1>4 DEF TickAt
<1>6. ClockType'
  <2>1. Interval \in Nat  BY Constants
  <2>2. setbacks' \in Nat /\ quiet' \in Nat /\ clock' \in Int
    BY <1>0, <1>2, <1>5 DEF ClockType, TickAt
  <2>3. maxOf(0, Interval - d) \in Nat  BY <1>2, <2>1 DEF maxOf
  <2>4. lag' \in Nat  BY <1>0, <1>5, <2>3 DEF ClockType, TickAt
  <2> QED BY <2>2, <2>4 DEF ClockType
<1>7. CASE active
  <2>1. UpdateSession(r)  BY <1>1, <1>3, <1>4, <1>7
  <2> QED BY <1>5, <1>6, <1>7, <2>1, UpdateStep
<1>8. CASE ~active
  <2>1. PutBack(r) /\ UNCHANGED <<vars, next_update>>  BY <1>1, <1>3, <1>8
  <2> QED BY <1>5, <1>6, <1>8, <2>1, IdleStep
<1> QED BY <1>7, <1>8

(* What comes between the ticks only wakes the session, at an open plan.   *)
LEMMA BetweenStep ==
  ASSUME TicksInRange, SessionInv, TimerInv',
         UNCHANGED <<now, updated, ts_flush, clock, next_update, setbacks, quiet, lag, blind>>,
         active' = TRUE \/ active' = active,
         \A y \in snd_buf' : Held(y)',
         ~updated => snd_buf' = {},
         updated /\ ~blind => \A y \in snd_buf' : Due(y)'
  PROVE  SessionInv'
<1>1. ClockType /\ ClockType'  BY DEF SessionInv, ClockType
<1>2. updated => Planned'  BY DEF SessionInv, Planned
<1>3. ~updated => active' /\ snd_buf' = {} /\ quiet' = 0 /\ lag' = 0
  BY DEF SessionInv
<1>4. ASSUME updated, ~blind PROVE InTime'
  <2>1. InTime  BY <1>4 DEF SessionInv
  <2>2. behind' = behind  BY DEF behind
  <2>3. CASE active' = active
    BY <2>1, <2>2, <2>3 DEF InTime
  <2>4. CASE active' = TRUE
    <3>1. PICK c \in Int, t \in Int, l \in Nat, b \in Int, i \in Nat :
            c = Wrap(clock) /\ t = ts_flush /\ l = Longest /\ b = behind /\ i = Interval
      <4>1. Wrap(clock) \in Int /\ behind \in Int
        BY <1>1, WrapRange, WidthAssumption, Constants DEF ClockType, behind
      <4>2. ts_flush \in Int  BY WidthAssumption DEF SessionInv, TimerInv, TypeOK
      <4> QED BY <4>1, <4>2, TickFacts, Constants
    <3>2. (c < t + l \/ c < t + 0) /\ (b <= 2 * i \/ b <= i)
      BY <2>1, <3>1 DEF InTime
    <3>3. c < t + l /\ b <= 2 * i  BY <3>1, <3>2
    <3> QED BY <2>1, <2>2, <2>4, <3>1, <3>3 DEF InTime
  <2> QED BY <2>3, <2>4
<1> QED BY <1>1, <1>2, <1>3, <1>4 DEF SessionInv

LEMMA DatagramStep ==
  ASSUME TicksInRange, SessionInv, Datagram
  PROVE  SessionInv'
<1>1. PICK una \in 0..snd_nxt : (\E a \in acks : InputAck(a, una)) \/ InputOther(una)
  BY DEF Datagram
<1>2. TimerInv'
  <2>1. TimerInv /\ [Next]_vars  BY <1>1 DEF SessionInv, Next
  <2> QED BY <2>1, TimerStep
<1>3. /\ UNCHANGED <<now, updated, ts_flush, clock, next_update, setbacks, quiet, lag, blind>>
      /\ active' = TRUE
  BY <1>1 DEF Datagram, InputAck, InputOther
<1>4. \A y \in snd_buf' : \E x \in snd_buf :
        y.sent = x.sent /\ y.rto = x.rto /\ y.resendts = x.resendts
  BY <1>1, InputKeeps DEF SessionInv
<1>5. \A y \in snd_buf' : Held(y)'
  BY <1>4 DEF SessionInv, Held, TimesOut
<1>6. ~updated => snd_buf' = {}  BY <1>4 DEF SessionInv
<1>7. updated /\ ~blind => \A y \in snd_buf' : Due(y)'
  BY <1>3, <1>4, DueStays DEF SessionInv
<1> QED BY <1>2, <1>3, <1>5, <1>6, <1>7, BetweenStep

LEMMA ReadFlushStep ==
  ASSUME TicksInRange, SessionInv, ReadFlush
  PROVE  SessionInv'
<1>1. /\ updated /\ ikcp_flush(now) /\ Flush
      /\ UNCHANGED <<now, updated, ts_flush, clock, next_update, setbacks, quiet, lag, blind>>
      /\ active' = active
  BY DEF ReadFlush, Flush, clockVars
<1>2. TimerInv /\ Planned /\ ClockType  BY <1>1 DEF SessionInv
<1>3. TimerInv'
  <2>1. [Next]_vars  BY <1>1 DEF Next
  <2> QED BY <1>2, <2>1, TimerStep
<1>4. PICK r \in Nat : r = now /\ r \in 0..(Half - 1)
  BY <1>2, Constants DEF TimerInv, TypeOK, Planned
<1>5. \A y \in snd_buf' : SentAt(y, r) \/ LeftAt(y, r)
  BY <1>1, <1>2, <1>4, FlushSends DEF SessionInv
<1>6. ASSUME NEW y \in snd_buf' PROVE Held(y)'
  <2>1. CASE SentAt(y, r)
    BY <1>4, <2>1 DEF SentAt, Held, TimesOut
  <2>2. CASE LeftAt(y, r)
    BY <2>2 DEF LeftAt, SessionInv, Held, TimesOut
  <2> QED BY <1>5, <2>1, <2>2
<1>7. ASSUME ~blind, NEW y \in snd_buf' PROVE Due(y)'
  <2>0. InTime /\ \A x \in snd_buf : Due(x)  BY <1>1, <1>7 DEF SessionInv
  <2>1. CASE SentAt(y, r)
    <3>1. PICK n \in Nat : n >= 1 /\ TimesOut(y, n) /\ y.sent = r  BY <2>1 DEF SentAt
    <3>2. PICK t \in Int, i \in Nat, j \in Nat, s \in Nat :
            /\ t = ts_flush /\ i = Interval /\ j = JUMP /\ s = setbacks /\ t <= r + j
            /\ s = 0 => t <= r + i
      <4>1. ts_flush \in Int  BY <1>2, WidthAssumption DEF TimerInv, TypeOK
      <4>2. ts_flush <= now + JUMP
        <5>1. now \in Nat /\ JUMP \in Nat  BY <1>2, Constants DEF TimerInv, TypeOK
        <5> QED BY <1>2, <5>1 DEF Planned
      <4> QED BY <1>2, <1>4, <2>0, <4>1, <4>2, Constants DEF ClockType, InTime
    <3>3. r + n > t - i \/ (s > 0 /\ r >= t - j)  BY <3>1, <3>2
    <3>4. TimesOut(y, n)'  BY <3>1 DEF TimesOut
    <3> QED BY <1>1, <3>1, <3>2, <3>3, <3>4 DEF Due
  <2>2. CASE LeftAt(y, r)
    BY <1>1, <2>0, <2>2, DueStays DEF LeftAt
  <2> QED BY <1>5, <2>1, <2>2
<1> QED BY <1>1, <1>3, <1>6, <1>7, BetweenStep

LEMMA SessionStep == TicksInRange /\ SessionInv /\ [ClockNext]_allVars => SessionInv'
<1> SUFFICES ASSUME TicksInRange, SessionInv, [ClockNext]_allVars PROVE SessionInv'
  OBVIOUS
<1>1. ASSUME UNCHANGED <<vars, clock, next_update, setbacks, quiet, lag, blind>>,
             active' = TRUE \/ active' = active
      PROVE  SessionInv'
  <2>1. UNCHANGED <<now, updated, ts_flush, snd_buf>>  BY <1>1 DEF vars
  <2>2. TimerInv'
    <3>1. TimerInv /\ [Next]_vars  BY <1>1 DEF SessionInv
    <3> QED BY <3>1, TimerStep
  <2>3. \A y \in snd_buf' : Held(y)'  BY <2>1 DEF SessionInv, Held, TimesOut
  <2>4. updated /\ ~blind => \A y \in snd_buf' : Due(y)'
    BY <1>1, <2>1, DueStays DEF SessionInv
  <2> QED BY <1>1, <2>1, <2>2, <2>3, <2>4, BetweenStep DEF SessionInv
<1>2. CASE Write
  BY <1>1, <1>2 DEF Write
<1>3. CASE UNCHANGED allVars
  BY <1>1, <1>3 DEF allVars, clockVars
<1> QED BY <1>2, <1>3, TickStep, DatagramStep, ReadFlushStep DEF ClockNext

LEMMA SessionInit == ClockInit => SessionInv
<1>1. ClockInit => TimerInv  BY TimerInit DEF ClockInit
<1>2. ClockInit => ClockType
  <2>1. Start \in Int  BY Constants
  <2> QED BY <2>1 DEF ClockInit, ClockType
<1> QED BY <1>1, <1>2 DEF ClockInit, Init, SessionInv

(* As long as kcp_now gives the time a session is flushed every other tick *)
(* of the updater, whatever the moments that ikcp_check names and whatever *)
(* wakes the session in between; a clock that is set back delays that by   *)
(* no more than the distance.                                              *)
THEOREM FlushesInTime ==
  ASSUME TicksInRange
  PROVE  ClockSpec => []FlushedInTime
<1>1. SessionInv => FlushedInTime
  <2> SUFFICES ASSUME SessionInv, ~blind PROVE quiet * Interval <= lag + 2 * Interval
    BY DEF FlushedInTime
  <2>1. PICK b \in Int, q \in Int, l \in Nat, i \in Nat :
          b = behind /\ q = quiet * Interval /\ l = lag /\ i = Interval /\ b = q - l
    BY Constants DEF SessionInv, ClockType, behind
  <2>2. CASE updated
    <3>1. b <= 2 * i \/ b <= i  BY <2>1, <2>2 DEF SessionInv, InTime
    <3> QED BY <2>1, <3>1
  <2>3. CASE ~updated
    <3>1. quiet = 0 /\ lag = 0  BY <2>3 DEF SessionInv
    <3> QED BY <3>1, Constants
  <2> QED BY <2>2, <2>3
<1>2. SessionInv /\ [ClockNext]_allVars => SessionInv'  BY SessionStep
<1> QED BY <1>1, <1>2, SessionInit, PTL DEF ClockSpec

(* And a segment that is not acknowledged is sent again in time, also by   *)
(* an updater that looks at the session only at the times ikcp_check names *)
(* and only every other tick.                                              *)
THEOREM ResendsInTime ==
  ASSUME TicksInRange
  PROVE  ClockSpec => []ResentInTime
<1>1. SessionInv => ResentInTime
  <2> SUFFICES ASSUME SessionInv, ~blind, NEW x \in snd_buf
               PROVE  Wrap(clock) - x.sent < 2 * Longest +
                        maxOf(x.rto + RTO_MAX \div 8, IF setbacks = 0 THEN 0 ELSE JUMP)
    BY DEF ResentInTime
  <2>1. updated /\ InTime /\ Due(x) /\ ClockType  BY DEF SessionInv
  <2>2. x.sent \in Nat /\ x.rto \in Nat /\ RTO_MAX \div 8 \in Nat
    BY TimerFacts, Halves DEF SessionInv, TimerInv, TypeOK, Segment
  <2>3. PICK n \in Nat : /\ n \in x.rto..(x.rto + RTO_MAX \div 8)
                         /\ \/ x.sent + n > ts_flush - Interval
                            \/ setbacks > 0 /\ x.sent >= ts_flush - JUMP
    BY <2>1 DEF Due, TimesOut
  <2>a. PICK s \in Nat, m \in Nat : s = x.sent /\ m = x.rto + RTO_MAX \div 8
    BY <2>2
  <2>4. PICK c \in Int, t \in Int, l \in Nat, i \in Nat, j \in Nat, k \in Nat :
          /\ c = Wrap(clock) /\ t = ts_flush /\ l = Longest /\ i = Interval /\ j = JUMP
          /\ k = setbacks /\ i <= l
    <3>1. Wrap(clock) \in Int
      BY <2>1, WrapRange, WidthAssumption DEF ClockType
    <3>2. ts_flush \in Int  BY WidthAssumption DEF SessionInv, TimerInv, TypeOK
    <3> QED BY <2>1, <3>1, <3>2, TickFacts, Constants DEF ClockType
  <2>5. c < t + l \/ c < t + 0  BY <2>1, <2>4 DEF InTime
  <2>6. s + m > t - i \/ (k > 0 /\ s >= t - j)  BY <2>a, <2>2, <2>3, <2>4
  <2>7. c - s < 2 * l + m \/ (k > 0 /\ c - s < 2 * l + j)  BY <2>4, <2>5, <2>6
  <2>8. c - s < 2 * l + maxOf(m, IF k = 0 THEN 0 ELSE j)  BY <2>4, <2>7 DEF maxOf
  <2> QED BY <2>a, <2>4, <2>8
<1>2. SessionInv /\ [ClockNext]_allVars => SessionInv'  BY SessionStep
<1> QED BY <1>1, <1>2, SessionInit, PTL DEF ClockSpec

-----------------------------------------------------------------------------
(* Timeouts against the true time of sending.                              *)

(* Numbers are used once. *)
Numbered == /\ \A x \in snd_buf : x.sn < snd_nxt
            /\ \A x, y \in snd_buf : x.sn = y.sn => x = y

(* How far the reading of the last update is behind the clock.             *)
InSync == Wrap(clock) <= now + (IF active THEN Longest ELSE 0)

(* The time at which the clock showed the reading of the last update.      *)
updatedAt == clock - (Wrap(clock) - now)

(* What is remembered was sent at a reading that the clock showed at u,    *)
(* and no more than two ticks later.                                       *)
Remembered(s) ==
  /\ s.at \in Int
  /\ \E u \in Int : /\ s.reading = Wrap(u) /\ s.at <= u + 2 * Longest /\ u <= clock
                    /\ updated /\ ~blind => u <= updatedAt

SendInv ==
  /\ SessionInv /\ Numbered
  /\ moment \in Int /\ clock <= moment
  /\ setbacks = 0 => /\ updated /\ ~blind => InSync
                     /\ \A s \in sendings : Remembered(s)

(* A flush at r takes up an rto only where the timer has run out.          *)
LEMMA FlushNumbers ==
  ASSUME TimerInv, Numbered, NEW r, ikcp_flush(r)
  PROVE  /\ Numbered'
         /\ \A x \in snd_buf, y \in snd_buf' :
              x.sn = y.sn => y = Resent(x, r)
<1>0. snd_nxt \in Nat /\ \A x \in snd_buf : x.sn \in Nat /\ x \in Segment
  BY DEF TimerInv, TypeOK, Segment
<1>1. PICK k \in Nat :
        /\ snd_buf' = {Resent(x, r) : x \in snd_buf} \cup {New(snd_nxt + i, r) : i \in 0..(k - 1)}
        /\ snd_nxt' = snd_nxt + k
  BY <1>0 DEF ikcp_flush
<1>2. ASSUME NEW x \in snd_buf PROVE Resent(x, r).sn = x.sn
  BY <1>0 DEF Resent, Segment
<1>3. ASSUME NEW i \in 0..(k - 1) PROVE New(snd_nxt + i, r).sn = snd_nxt + i
  BY DEF New
<1> DEFINE Old(y) == \E x \in snd_buf : y = Resent(x, r) /\ y.sn = x.sn /\ y.sn < snd_nxt
           Fresh(y) == \E i \in 0..(k - 1) : y = New(snd_nxt + i, r) /\ y.sn = snd_nxt + i
<1>4. \A y \in snd_buf' : Old(y) \/ Fresh(y)
  BY <1>1, <1>2, <1>3 DEF Numbered
<1>5. ASSUME NEW y \in snd_buf' PROVE y.sn < snd_nxt'
  BY <1>0, <1>1, <1>4
<1>6. ASSUME NEW y \in snd_buf', NEW z \in snd_buf', y.sn = z.sn PROVE y = z
  <2>1. CASE Old(y) /\ Old(z)  BY <1>6, <2>1 DEF Numbered
  <2>2. CASE Fresh(y) /\ Fresh(z)
    <3>1. PICK i \in 0..(k - 1), j \in 0..(k - 1) :
            /\ y = New(snd_nxt + i, r) /\ z = New(snd_nxt + j, r)
            /\ snd_nxt + i = snd_nxt + j
      BY <1>6, <2>2
    <3>2. i = j  BY <1>0, <3>1
    <3> QED BY <3>1, <3>2
  <2>3. ASSUME NEW v, NEW w, Old(v), Fresh(w), v.sn = w.sn PROVE FALSE
    BY <1>0, <2>3
  <2> QED BY <1>4, <1>6, <2>1, <2>2, <2>3
<1>7. ASSUME NEW x \in snd_buf, NEW y \in snd_buf', x.sn = y.sn PROVE y = Resent(x, r)
  <2>1. Resent(x, r) \in snd_buf' /\ Resent(x, r).sn = x.sn  BY <1>1, <1>2
  <2> QED BY <1>6, <1>7, <2>1
<1> QED BY <1>5, <1>6, <1>7 DEF Numbered

LEMMA InputNumbers ==
  ASSUME TimerInv, Numbered, NEW una \in 0..snd_nxt,
         (\E a \in acks : InputAck(a, una)) \/ InputOther(una)
  PROVE  /\ Numbered'
         /\ \A x \in snd_buf, y \in snd_buf' : x.sn = y.sn => y.rto = x.rto
<1>1. CASE InputOther(una)
  BY <1>1 DEF InputOther, AfterUna, Numbered
<1>2. ASSUME NEW a \in acks, InputAck(a, una)
      PROVE  /\ Numbered'
             /\ \A x \in snd_buf, y \in snd_buf' : x.sn = y.sn => y.rto = x.rto
  <2> DEFINE Skipped(x) == IF x.sn < a.sn
                           THEN [x EXCEPT !.fastack = minOf(@ + 1, FastResend)] ELSE x
  <2>1. (\A y \in snd_buf' : \E x \in snd_buf : y = Skipped(x)) /\ snd_nxt' = snd_nxt
    BY <1>2 DEF InputAck, AfterUna
  <2>2. ASSUME NEW x \in snd_buf PROVE Skipped(x).sn = x.sn /\ Skipped(x).rto = x.rto
    <3>1. x \in Segment  BY DEF TimerInv, TypeOK
    <3> QED BY <3>1 DEF Segment
  <2> HIDE DEF Skipped
  <2> QED BY <2>1, <2>2 DEF Numbered
<1> QED BY <1>1, <1>2

(* A timer that has run out at the time t, and was started at u.           *)
LEMMA RunOut ==
  ASSUME NEW x, Held(x), x.rto \in Nat, NEW u \in Int, x.sent = Wrap(u),
         NEW t \in Int, u <= t, NEW r \in Int, Wrap(r) = Wrap(t), Expired(x, r),
         x.rto + RTO_MAX \div 8 <= Half
  PROVE  t >= u + x.rto
<1>0. RTO_MAX \div 8 \in Nat /\ Half \in Nat  BY TimerFacts, Halves, Constants
<1>1. PICK d \in Nat : d >= x.rto /\ d <= Half /\ x.resendts = Wrap(x.sent + d)
  <2>1. PICK d \in Nat : TimesOut(x, d)  BY DEF Held
  <2>2. d >= x.rto /\ d <= x.rto + RTO_MAX \div 8  BY <1>0, <2>1 DEF TimesOut
  <2> QED BY <1>0, <2>1, <2>2 DEF TimesOut
<1>2. x.resendts = Wrap(u + d)  BY <1>1, WrapAdd
<1>3. SUFFICES ASSUME t < u + d PROVE FALSE  BY <1>1
<1>4. t - (u + d) \in (-Half)..(Half - 1)
  <2>1. t - (u + d) >= -Half /\ t - (u + d) < 0 /\ Half > 0
    BY <1>0, <1>1, <1>3, WidthAssumption DEF Half
  <2> QED BY <1>0, <1>1, <2>1
<1>5. itimediff(Wrap(t), Wrap(u + d)) = t - (u + d)
  <2>1. u + d \in Int  BY <1>1
  <2> QED BY <1>4, <2>1, DifferenceExact
<1> QED BY <1>1, <1>2, <1>3, <1>5 DEF Expired

(* Only a timer that has run out makes an rto grow.                        *)
LEMMA GrowsExpired ==
  ASSUME SendInv, NEW r, ikcp_flush(r) \/ snd_buf' = snd_buf,
         NEW x \in snd_buf, NEW y \in snd_buf', x.sn = y.sn, y.rto > x.rto
  PROVE  ikcp_flush(r) /\ Expired(x, r)
<1>1. x \in Segment /\ x.rto \in Nat /\ TimerInv
  BY DEF SendInv, SessionInv, TimerInv, TypeOK, Segment
<1>2. snd_buf' # snd_buf  BY <1>1 DEF SendInv, Numbered
<1>3. ikcp_flush(r) /\ y = Resent(x, r)  BY <1>1, <1>2, FlushNumbers DEF SendInv
<1>4. CASE ~Expired(x, r)
  <2>1. y.rto = x.rto  BY <1>1, <1>3, <1>4 DEF Resent, Segment
  <2> QED BY <1>1, <2>1
<1> QED BY <1>3, <1>4

LEMMA Remembers ==
  ASSUME SessionInv, NEW r \in 0..(Half - 1), ikcp_flush(r) \/ snd_buf' = snd_buf, Remember
  PROVE  \A s \in sendings' :
           \/ s \in sendings
           \/ ikcp_flush(r) /\ ~blind' /\ s.reading = r /\ s.at = moment'
<1>1. ASSUME NEW y \in snd_buf' \ snd_buf PROVE ikcp_flush(r) /\ y.sent = r
  <2>1. ikcp_flush(r)  BY <1>1
  <2>2. SentAt(y, r) \/ LeftAt(y, r)  BY <1>1, <2>1, FlushSends DEF SessionInv
  <2> QED BY <1>1, <2>1, <2>2 DEF SentAt, LeftAt
<1>2. ASSUME NEW s \in sendings', s \notin sendings
      PROVE  ~blind' /\ \E y \in snd_buf' \ snd_buf :
               s = [sn |-> y.sn, reading |-> y.sent, at |-> moment']
  BY <1>2 DEF Remember, Measured
<1> QED BY <1>1, <1>2

LEMMA StaysRemembered ==
  ASSUME NEW s, Remembered(s), clock \in Int, clock' \in Int, now \in Int, now' \in Int,
         updatedAt \in Int, updatedAt' \in Int, clock <= clock',
         updated' /\ ~blind' => \/ clock <= updatedAt'
                                \/ updated /\ ~blind /\ updatedAt <= updatedAt'
  PROVE  Remembered(s)'
<1>1. PICK u \in Int : /\ s.reading = Wrap(u) /\ s.at <= u + 2 * Longest /\ u <= clock
                       /\ updated /\ ~blind => u <= updatedAt
  BY DEF Remembered
<1>2. u <= clock'  BY <1>1
<1>3. updated' /\ ~blind' => u <= updatedAt'  BY <1>1
<1> QED BY <1>1, <1>2, <1>3 DEF Remembered

LEMMA TimesTyped ==
  SessionInv => clock \in Int /\ now \in Nat /\ Wrap(clock) \in Int /\ updatedAt \in Int
                /\ setbacks \in Nat
<1> SUFFICES ASSUME SessionInv
             PROVE  clock \in Int /\ now \in Nat /\ Wrap(clock) \in Int /\ updatedAt \in Int
                    /\ setbacks \in Nat
  OBVIOUS
<1>1. clock \in Int /\ now \in Nat /\ setbacks \in Nat
  BY DEF SessionInv, ClockType, TimerInv, TypeOK
<1>2. Wrap(clock) \in Int  BY <1>1, WrapRange, WidthAssumption
<1> QED BY <1>1, <1>2 DEF updatedAt

(* What the clock showed at updatedAt. *)
LEMMA ShownAt ==
  ASSUME SessionInv, now < Half
  PROVE  Wrap(updatedAt) = now
<1>1. clock \in Int /\ now \in Nat /\ Wrap(clock) \in Int  BY TimesTyped
<1>2. now \in 0..(W - 1)  BY <1>1, WidthAssumption, Constants DEF Half
<1>3. PICK c \in Int, n \in Int : c = Wrap(clock) /\ n = now - c  BY <1>1
<1>4. Wrap(Wrap(clock) + n) = Wrap(clock + n)  BY <1>1, WrapAdd
<1>5. c + n = now /\ updatedAt = clock + n  BY <1>1, <1>3 DEF updatedAt
<1> QED BY <1>2, <1>3, <1>4, <1>5, WrapId

(* No segment times out much too early in the step. *)
NoneEarly ==
  Measured' =>
    \A x \in snd_buf, y \in snd_buf', s \in sendings :
      /\ x.sn = y.sn /\ y.rto > x.rto
      /\ x.sn = s.sn /\ x.sent = s.reading
      /\ x.rto + RTO_MAX \div 8 <= Half
      => moment' - s.at >= x.rto - 2 * Longest

(* ... where a flush at r finds its timer run out at the time t. *)
LEMMA HardlyEarly ==
  ASSUME TicksInRange, SendInv, setbacks = 0, NEW r \in 0..(Half - 1), NEW t \in Int,
         ikcp_flush(r) \/ snd_buf' = snd_buf,
         ikcp_flush(r) => r = Wrap(t) /\ t <= moment',
         \A u \in Int : u <= clock /\ (updated /\ ~blind => u <= updatedAt) => u <= t,
         moment' \in Int
  PROVE  NoneEarly
<1> SUFFICES ASSUME NEW x \in snd_buf, NEW y \in snd_buf', NEW s \in sendings,
                    x.sn = y.sn, y.rto > x.rto, x.sn = s.sn, x.sent = s.reading,
                    x.rto + RTO_MAX \div 8 <= Half
             PROVE  moment' - s.at >= x.rto - 2 * Longest
  BY DEF NoneEarly, Measured
<1>1. ikcp_flush(r) /\ Expired(x, r)  BY GrowsExpired
<1>2. x.rto \in Nat /\ Held(x)
  BY DEF SendInv, SessionInv, TimerInv, TypeOK, Segment
<1>3. s.at \in Int /\ Remembered(s)  BY DEF SendInv, Remembered
<1>4. PICK u \in Int : /\ s.reading = Wrap(u) /\ s.at <= u + 2 * Longest /\ u <= clock
                       /\ updated /\ ~blind => u <= updatedAt
  BY <1>3 DEF Remembered
<1>5. u <= t  BY <1>4
<1>6. r \in Int /\ Wrap(r) = Wrap(t)
  <2>1. r \in Int /\ r \in 0..(W - 1)  BY WidthAssumption, Constants DEF Half
  <2> QED BY <1>1, <2>1, WrapId
<1>7. t >= u + x.rto  BY <1>1, <1>2, <1>4, <1>5, <1>6, RunOut
<1>8. Longest \in Int  BY TickFacts
<1> QED BY <1>1, <1>2, <1>3, <1>4, <1>7, <1>8

LEMMA TickParts ==
  ASSUME SessionInv, Tick
  PROVE  \E d \in Steps, r \in 0..(Half - 1) :
           /\ TickAt(d, r)
           /\ active => UpdateSession(r)
           /\ ~active => PutBack(r) /\ UNCHANGED <<vars, next_update>>
<1>0. ClockType  BY DEF SessionInv
<1>1. PICK d \in Steps : \E r \in {kcp_now(clock + d)} :
        /\ IF active /\ Converts(r) THEN UpdateSession(r)
           ELSE /\ IF active THEN active' = FALSE ELSE PutBack(r)
                /\ UNCHANGED <<vars, next_update>>
        /\ clock' = clock + d
        /\ setbacks' = IF d < 0 THEN setbacks + 1 ELSE setbacks
        /\ LET flushed == active /\ Converts(r) /\ Flushes(r)
           IN /\ quiet' = IF flushed THEN 0 ELSE quiet + 1
              /\ lag' = IF flushed THEN 0 ELSE lag + maxOf(0, Interval - d)
              /\ blind' = ((blind /\ ~flushed) \/ r # Wrap(clock + d))
  BY DEF Tick
<1>2. clock + d \in Int  BY <1>0, Constants DEF ClockType
<1>3. PICK r \in 0..(Half - 1) : r = kcp_now(clock + d)  BY <1>2, Reading
<1>4. Converts(r)  BY <1>2, <1>3, ReadingConverts
<1>5. TickAt(d, r)  BY <1>1, <1>3, <1>4 DEF TickAt
<1>6. active => UpdateSession(r)  BY <1>1, <1>3, <1>4
<1>7. ~active => PutBack(r) /\ UNCHANGED <<vars, next_update>>  BY <1>1, <1>3
<1> QED BY <1>5, <1>6, <1>7

(* What a tick leaves between the clock and the last reading.              *)
LEMMA TickSync ==
  ASSUME TicksInRange, SendInv, SessionInv', setbacks' = 0, ~blind',
         NEW d \in Steps, NEW r \in 0..(Half - 1), TickAt(d, r),
         active => UpdateSession(r),
         ~active => PutBack(r) /\ UNCHANGED <<vars, next_update>>
  PROVE  /\ InSync' /\ d >= 0 /\ setbacks = 0
         /\ active => now' = r /\ r = Wrap(clock') /\ updatedAt' = clock'
         /\ ~active => updated /\ ~blind /\ updatedAt' = updatedAt
<1>0. /\ clock \in Int /\ now \in Nat /\ Wrap(clock) \in Int /\ setbacks \in Nat
      /\ d \in Int /\ d \in (-Half)..Half /\ Longest \in Int /\ d <= Longest
      /\ Longest >= Interval /\ Interval \in Nat
  BY TimesTyped, TickFacts, Constants DEF SendInv
<1>1. /\ clock' = clock + d /\ r = Wrap(clock + d)
      /\ d >= 0 /\ setbacks = 0
  <2>1. clock' = clock + d /\ r = Wrap(clock + d)  BY DEF TickAt
  <2>2. setbacks' = IF d < 0 THEN setbacks + 1 ELSE setbacks  BY DEF TickAt
  <2>3. d >= 0 /\ setbacks = 0  BY <1>0, <2>2
  <2> QED BY <2>1, <2>3
<1>2. CASE active
  <2>1. now' = r /\ ~active'  BY <1>2 DEF UpdateSession, UpdateAt
  <2>2. r \in Int /\ Wrap(clock') = r  BY <1>1
  <2>3. updatedAt' = clock'
    <3>1. clock' \in Int  BY <1>0, <1>1
    <3>2. \A a, b \in Int : a - (b - b) = a  OBVIOUS
    <3>3. updatedAt' = clock' - (r - r)  BY <2>1, <2>2 DEF updatedAt
    <3> QED BY <2>2, <3>1, <3>2, <3>3
  <2>4. InSync'  BY <2>1, <2>2 DEF InSync
  <2> QED BY <1>1, <1>2, <2>1, <2>2, <2>3, <2>4
<1>3. CASE ~active
  <2>1. /\ now' = now /\ updated' = updated
        /\ active' = (next_update - r < Interval)
    BY <1>3 DEF PutBack, vars
  <2>2. updated /\ ~blind  BY <1>3 DEF SendInv, SessionInv, TickAt
  <2>3. InTime /\ Planned /\ Wrap(clock) <= now + 0
    BY <1>1, <1>3, <2>2 DEF SendInv, SessionInv, InSync
  <2>4. PICK c \in Int, n \in Nat, l \in Int, i \in Nat, m \in Int :
          /\ c = Wrap(clock) /\ n = now /\ l = Longest /\ i = Interval /\ m = next_update
          /\ c <= n /\ m <= n + i
    <3>1. ts_flush \in Int /\ next_update \in Int /\ next_update <= ts_flush
          /\ ts_flush <= now + Interval
      BY <1>1, <2>3, WidthAssumption DEF SendInv, SessionInv, TimerInv, TypeOK, Planned, InTime
    <3> QED BY <1>0, <2>3, <3>1
  <2>5. r = c + d
    <3>1. Wrap(clock) < Half /\ Wrap(clock + d) < Half  BY <1>1, <2>3, Constants DEF InTime
    <3> QED BY <1>0, <1>1, <2>4, <3>1, ReadingMoves
  <2>6. updatedAt' = updatedAt
    BY <1>0, <1>1, <2>1, <2>4, <2>5 DEF updatedAt
  <2>7. InSync'
    <3>1. CASE next_update - r < Interval
      <4>1. active' = TRUE  BY <2>1, <3>1
      <4>2. r <= n + l  BY <1>0, <2>4, <2>5
      <4> QED BY <1>1, <2>1, <2>4, <4>1, <4>2 DEF InSync
    <3>2. CASE ~(next_update - r < Interval)
      <4>1. ~active'  BY <2>1, <3>2
      <4>2. r \in Int /\ ~(m - r < i)  BY <2>4, <3>2
      <4>3. r <= n + 0  BY <2>4, <4>2
      <4> QED BY <1>1, <2>1, <2>4, <4>1, <4>3 DEF InSync
    <3> QED BY <3>1, <3>2
  <2> QED BY <1>1, <1>3, <2>2, <2>6, <2>7
<1> QED BY <1>2, <1>3


LEMMA SendTickStep ==
  ASSUME TicksInRange, SendInv, SendTick
  PROVE  SendInv' /\ NoneEarly
<1>0. SessionInv /\ SessionInv' /\ Tick  BY TickStep DEF SendInv, SendTick
<1>1. PICK d \in Steps, r \in 0..(Half - 1) :
        /\ TickAt(d, r)
        /\ active => UpdateSession(r)
        /\ ~active => PutBack(r) /\ UNCHANGED <<vars, next_update>>
  BY <1>0, TickParts
<1>2. /\ clock \in Int /\ now \in Int /\ updatedAt \in Int /\ setbacks \in Nat
      /\ clock' \in Int /\ now' \in Int /\ updatedAt' \in Int
      /\ d \in Int /\ moment' = clock' /\ moment' \in Int /\ clock' = clock + d
      /\ Longest \in Int /\ Longest >= 0
  <2>1. (SessionInv => clock \in Int /\ now \in Nat /\ Wrap(clock) \in Int
                       /\ updatedAt \in Int /\ setbacks \in Nat)'
    BY TimesTyped, PTL
  <2>2. d \in Int /\ Longest \in Int /\ Longest >= 0  BY TickFacts, Constants
  <2> QED BY <1>0, <1>1, <2>1, <2>2, TimesTyped DEF SendTick, TickAt
<1>3. /\ ikcp_flush(r) \/ snd_buf' = snd_buf
      /\ ikcp_flush(r) \/ (snd_buf' = snd_buf /\ snd_nxt' = snd_nxt)
      /\ ~active => snd_buf' = snd_buf
  BY <1>1 DEF UpdateSession, UpdateAt, vars
<1>4. Numbered'
  <2>1. CASE ikcp_flush(r)
    BY <1>0, <2>1, FlushNumbers DEF SendInv, SessionInv
  <2>2. CASE snd_buf' = snd_buf /\ snd_nxt' = snd_nxt
    BY <2>2 DEF SendInv, Numbered
  <2> QED BY <1>3, <2>1, <2>2
<1>5. ASSUME setbacks' = 0
      PROVE  d >= 0 /\ setbacks = 0 /\ clock <= clock'
  <2>1. setbacks' = IF d < 0 THEN setbacks + 1 ELSE setbacks  BY <1>1 DEF TickAt
  <2>2. d >= 0 /\ setbacks = 0  BY <1>2, <1>5, <2>1
  <2> QED BY <1>2, <2>2
<1>6. ASSUME setbacks' = 0, ~blind'
      PROVE  /\ InSync'
             /\ active => now' = r /\ r = Wrap(clock') /\ updatedAt' = clock'
             /\ ~active => updated /\ ~blind /\ updatedAt' = updatedAt
  BY <1>0, <1>1, <1>6, TickSync
<1>7. ASSUME setbacks' = 0, NEW s \in sendings' PROVE Remembered(s)'
  <2>1. CASE s \in sendings
    <3>1. Remembered(s)  BY <1>5, <1>7, <2>1 DEF SendInv
    <3>2. updated' /\ ~blind' => \/ clock <= updatedAt'
                                 \/ updated /\ ~blind /\ updatedAt <= updatedAt'
      BY <1>2, <1>5, <1>6, <1>7
    <3> QED BY <1>2, <1>5, <1>7, <3>1, <3>2, StaysRemembered
  <2>2. CASE snd_buf' # snd_buf /\ ~blind' /\ s.reading = r /\ s.at = moment'
    <3>1. active  BY <1>3, <2>2
    <3>2. r = Wrap(clock') /\ updatedAt' = clock'  BY <1>6, <1>7, <2>2, <3>1
    <3>3. clock' <= clock' /\ s.at <= clock' + 2 * Longest  BY <1>2, <2>2
    <3> QED BY <1>2, <2>2, <3>2, <3>3 DEF Remembered
  <2>3. \/ s \in sendings
        \/ snd_buf' # snd_buf /\ ~blind' /\ s.reading = r /\ s.at = moment'
    <3>1. Remember  BY DEF SendTick
    <3>2. snd_buf' = snd_buf => s \in sendings
      BY <3>1 DEF Remember, Measured
    <3>3. s \in sendings \/ (~blind' /\ s.reading = r /\ s.at = moment')
      BY <1>0, <1>3, <3>1, Remembers
    <3> QED BY <3>2, <3>3
  <2> QED BY <2>1, <2>2, <2>3
<1>8. NoneEarly
  <2> SUFFICES ASSUME ~blind', setbacks' = 0 PROVE NoneEarly
    BY DEF NoneEarly, Measured
  <2>1. CASE active
    <3>1. ikcp_flush(r) => r = Wrap(clock') /\ clock' <= moment'
      BY <1>2, <1>6, <2>1
    <3>2. \A u \in Int : u <= clock /\ (updated /\ ~blind => u <= updatedAt) => u <= clock'
      BY <1>2, <1>5
    <3> QED BY <1>2, <1>3, <1>5, <3>1, <3>2, HardlyEarly
  <2>2. CASE ~active
    <3>1. snd_buf' = snd_buf  BY <1>3, <2>2
    <3>2. \A x \in snd_buf, y \in snd_buf' : x.sn = y.sn => ~(y.rto > x.rto)
      <4>1. \A x \in snd_buf : x.rto \in Nat
        BY <1>0 DEF SessionInv, TimerInv, TypeOK, Segment
      <4> QED BY <3>1, <4>1 DEF SendInv, Numbered
    <3> QED BY <3>2 DEF NoneEarly, Measured
  <2> QED BY <2>1, <2>2
<1>9. clock' <= moment'  BY <1>2
<1> QED BY <1>0, <1>2, <1>4, <1>6, <1>7, <1>8, <1>9 DEF SendInv

LEMMA SendReadFlushStep ==
  ASSUME TicksInRange, SendInv, SendReadFlush
  PROVE  SendInv' /\ NoneEarly
<1>0. /\ SessionInv /\ SessionInv' /\ updated /\ ikcp_flush(now)
      /\ UNCHANGED <<now, updated, clock, active, setbacks, blind>>
  BY ReadFlushStep DEF SendInv, SendReadFlush, ReadFlush, Flush, clockVars
<1>1. PICK r \in 0..(Half - 1) : r = now
  <2>1. now \in Nat /\ now < Half  BY <1>0, TimesTyped DEF SessionInv, Planned
  <2> QED BY <2>1, Constants
<1>2. /\ clock \in Int /\ now \in Int /\ Wrap(clock) \in Int /\ updatedAt \in Int
      /\ setbacks \in Nat /\ Longest \in Nat
  <2>1. Longest \in Int /\ Longest >= 0  BY TickFacts, Constants
  <2> QED BY <1>0, <2>1, TimesTyped
<1>3. /\ moment' \in Int /\ clock <= moment'
      /\ setbacks = 0 /\ ~blind => moment' <= clock + Longest
  <2>1. moment \in Int /\ clock <= moment  BY DEF SendInv
  <2>2. CASE Measured
    <3>1. moment' \in moment..(clock + Longest)  BY <2>2 DEF SendReadFlush
    <3> QED BY <1>2, <2>1, <3>1
  <2>3. CASE ~Measured
    <3>1. moment' = moment  BY <2>3 DEF SendReadFlush
    <3> QED BY <2>1, <2>3, <3>1 DEF Measured
  <2> QED BY <2>2, <2>3
<1>4. Numbered'  BY <1>0, FlushNumbers DEF SendInv, SessionInv
<1>5. updatedAt' = updatedAt /\ (InSync => InSync')  BY <1>0 DEF updatedAt, InSync
<1>6. Wrap(updatedAt) = now
  <2>1. SessionInv /\ now < Half  BY <1>0 DEF SessionInv, Planned
  <2> QED BY <2>1, ShownAt
<1>7. ASSUME setbacks = 0, ~blind
      PROVE  updatedAt <= clock /\ moment' <= updatedAt + 2 * Longest
  <2>1. now <= Wrap(clock)  BY <1>0, <1>7 DEF SessionInv, InTime
  <2>2. InSync  BY <1>0, <1>7 DEF SendInv
  <2>3. PICK c \in Int, n \in Int, l \in Nat :
          c = Wrap(clock) /\ n = now /\ l = Longest /\ n <= c
    BY <1>2, <2>1
  <2>4. c <= n + l
    <3>1. c <= n + l \/ c <= n + 0  BY <2>2, <2>3 DEF InSync
    <3> QED BY <2>3, <3>1
  <2>5. updatedAt = clock - (c - n)  BY <2>3 DEF updatedAt
  <2>6. moment' <= clock + l  BY <1>3, <1>7, <2>3
  <2> QED BY <1>2, <1>3, <2>3, <2>4, <2>5, <2>6
<1>8. ASSUME setbacks = 0, NEW s \in sendings' PROVE Remembered(s)'
  <2>1. CASE s \in sendings
    <3>1. Remembered(s)  BY <1>8, <2>1 DEF SendInv
    <3> QED BY <1>0, <1>5, <3>1 DEF Remembered
  <2>2. CASE ~blind' /\ s.reading = now /\ s.at = moment'
    <3>1. updatedAt <= clock /\ moment' <= updatedAt + 2 * Longest
      BY <1>0, <1>7, <1>8, <2>2
    <3>2. updatedAt <= updatedAt  BY <1>2
    <3> QED BY <1>0, <1>2, <1>3, <1>5, <1>6, <2>2, <3>1, <3>2 DEF Remembered
  <2> QED BY <1>0, <1>1, <2>1, <2>2, Remembers DEF SendReadFlush
<1>9. NoneEarly
  <2> SUFFICES ASSUME ~blind, setbacks = 0 PROVE NoneEarly
    BY <1>0 DEF NoneEarly, Measured
  <2>1. updatedAt <= moment'  BY <1>2, <1>3, <1>7
  <2>2. \A u \in Int : u <= clock /\ (updated /\ ~blind => u <= updatedAt) => u <= updatedAt
    BY <1>0
  <2> QED BY <1>0, <1>1, <1>2, <1>3, <1>6, <2>1, <2>2, HardlyEarly
<1> QED BY <1>0, <1>3, <1>4, <1>5, <1>8, <1>9 DEF SendInv

LEMMA SendStep == TicksInRange /\ SendInv /\ [SendNext]_sendVars => SendInv' /\ NoneEarly
<1> SUFFICES ASSUME TicksInRange, SendInv, [SendNext]_sendVars PROVE SendInv' /\ NoneEarly
  OBVIOUS
<1>1. ASSUME Datagram \/ Write \/ UNCHANGED allVars, UNCHANGED <<moment, sendings>>
      PROVE  SendInv' /\ NoneEarly
  <2>0. SessionInv /\ TimerInv  BY DEF SendInv, SessionInv
  <2>1. SessionInv'  BY <1>1, <2>0, SessionStep DEF ClockNext
  <2>2. /\ UNCHANGED <<now, updated, clock, setbacks, blind>>
        /\ active' = TRUE \/ active' = active
    BY <1>1 DEF Datagram, InputAck, InputOther, Write, allVars, vars, clockVars
  <2>3. /\ Numbered'
        /\ \A x \in snd_buf, y \in snd_buf' : x.sn = y.sn => y.rto = x.rto
    <3>1. CASE Datagram  BY <2>0, <3>1, InputNumbers DEF Datagram, SendInv
    <3>2. CASE Write \/ UNCHANGED allVars
      <4>1. UNCHANGED <<snd_buf, snd_nxt>>  BY <3>2 DEF Write, allVars, vars
      <4> QED BY <4>1 DEF SendInv, Numbered
    <3> QED BY <1>1, <3>1, <3>2
  <2>4. NoneEarly
    <3>1. \A x \in snd_buf : x.rto \in Nat  BY <2>0 DEF TimerInv, TypeOK, Segment
    <3>2. \A x \in snd_buf, y \in snd_buf' : x.sn = y.sn => ~(y.rto > x.rto)
      BY <2>3, <3>1
    <3> QED BY <3>2 DEF NoneEarly, Measured
  <2>5. ASSUME updated, ~blind, setbacks = 0 PROVE InSync'
    <3>1. InSync  BY <2>5 DEF SendInv
    <3>2. PICK c \in Int, n \in Int, l \in Nat : c = Wrap(clock) /\ n = now /\ l = Longest
      <4>1. Longest \in Int /\ Longest >= 0  BY TickFacts, Constants
      <4> QED BY <2>0, <4>1, TimesTyped
    <3>3. c <= n + l
      <4>1. c <= n + l \/ c <= n + 0  BY <3>1, <3>2 DEF InSync
      <4> QED BY <3>2, <4>1
    <3>4. CASE active' = TRUE  BY <2>2, <3>2, <3>3, <3>4 DEF InSync
    <3>5. CASE active' = active  BY <2>2, <3>1, <3>5 DEF InSync
    <3> QED BY <2>2, <3>4, <3>5
  <2>6. updatedAt' = updatedAt  BY <2>2 DEF updatedAt
  <2>7. ASSUME setbacks = 0, NEW s \in sendings' PROVE Remembered(s)'
    <3>1. Remembered(s)  BY <1>1, <2>7 DEF SendInv
    <3> QED BY <2>2, <2>6, <3>1 DEF Remembered
  <2> QED BY <1>1, <2>1, <2>2, <2>3, <2>4, <2>5, <2>7 DEF SendInv
<1> QED BY <1>1, SendTickStep, SendReadFlushStep DEF SendNext, sendVars

LEMMA SendInit_Inv == SendInit => SendInv
<1> SUFFICES ASSUME SendInit PROVE SendInv  OBVIOUS
<1>1. SessionInv  BY SessionInit DEF SendInit
<1>2. clock \in Int  BY <1>1, TimesTyped
<1> QED BY <1>1, <1>2 DEF SendInit, ClockInit, Init, SendInv, Numbered

(* A segment times out at most two ticks earlier than its rto after it was *)
(* really sent, whenever between two ticks the flush after a read sent it: *)
(* that is how old the reading of the last update, from which its timer    *)
(* counts, can be under the updater.                                       *)
THEOREM TimeoutsNotEarly ==
  ASSUME TicksInRange
  PROVE  SendSpec => NoEarlyTimeout
<1>1. SendInv /\ [SendNext]_sendVars => SendInv' /\ NoneEarly  BY SendStep
<1>2. NoneEarly =>
        (Measured' =>
           \A x \in snd_buf, y \in snd_buf', s \in sendings :
             /\ x.sn = y.sn /\ y.rto > x.rto
             /\ x.sn = s.sn /\ x.sent = s.reading
             /\ x.rto + RTO_MAX \div 8 <= Half
             => moment' - s.at >= x.rto - 2 * Longest)
  BY DEF NoneEarly, Measured
<1> QED BY <1>1, <1>2, SendInit_Inv, PTL DEF SendSpec, NoEarlyTimeout
=============================================================================
