----------------------------- MODULE SendTimes -----------------------------
(***************************************************************************)
(* SessionClock with the true time of every transmission.                  *)
(*                                                                         *)
(* A datagram may come at any moment between two ticks.  The flush after   *)
(* the read sends at that moment, but kcp->current still is the reading of *)
(* the last ikcp_update, and the timeout of what it sends counts from that *)
(* reading.  The variables of this module are history: they remember the   *)
(* moment, which lies before the next tick.  Every behaviour of            *)
(* SessionClock has such a history.                                        *)
(***************************************************************************)
EXTENDS SessionClock

VARIABLES
  moment,      \* history: the time of the last tick, or of a flush since then
  sendings     \* history: when the segments in flight were last sent

sendVars == <<allVars, moment, sendings>>

SendInit == ClockInit /\ moment = clock /\ sendings = {}

(* kcp_now gives the time, and the clock was not set back.                 *)
Measured == ~blind /\ setbacks = 0

(* What a flush has sent is what it changed.  A segment is known by its    *)
(* number and the reading it was sent at, as in an acknowledgement.        *)
(* Nothing is remembered where the clock does not measure time.            *)
Remember ==
  LET unsent == snd_buf \cap snd_buf'
      sent == IF Measured' THEN snd_buf' \ snd_buf ELSE {}
  IN sendings' = {s \in sendings :
                    setbacks' = 0 /\ \E x \in unsent : x.sn = s.sn /\ x.sent = s.reading}
                 \cup {[sn |-> x.sn, reading |-> x.sent, at |-> moment'] : x \in sent}

SendTick ==
  /\ Tick
  /\ moment' = clock' /\ (clock <= clock' => moment <= clock')
  /\ Remember

SendReadFlush ==
  /\ ReadFlush
  /\ moment' \in IF Measured THEN moment..(clock + Longest) ELSE {moment}
  /\ Remember

SendNext ==
  \/ SendTick \/ SendReadFlush
  \/ (Datagram \/ Write) /\ UNCHANGED <<moment, sendings>>

SendSpec == SendInit /\ [][SendNext]_sendVars

-----------------------------------------------------------------------------
(* A segment that a flush after a read has sent may time out before its    *)
(* rto has passed, since its timer was started in the past; but it is no   *)
(* more than two ticks early, which is how old the reading can be: as long *)
(* as kcp_now gives the time, the clock is not set back and the timeout is *)
(* shorter than half the range of the timestamps.                          *)
NoEarlyTimeout ==
  [][Measured' =>
       \A x \in snd_buf, y \in snd_buf', s \in sendings :
         /\ x.sn = y.sn /\ y.rto > x.rto
         /\ x.sn = s.sn /\ x.sent = s.reading
         /\ x.rto + RTO_MAX \div 8 <= Half
         => moment' - s.at >= x.rto - 2 * Longest]_sendVars
=============================================================================
