---------------------------- MODULE SessionClock ----------------------------
(***************************************************************************)
(* One session under the Updater, with the clock it really has: the timers *)
(* of KcpTimer driven by kcp_now, ikcp_check deciding next_update, and the *)
(* comparison of next_update with the clock in Python's integers.          *)
(*                                                                         *)
(* clock is CLOCK_REALTIME in milliseconds, not wrapped.  KcpTimer's now   *)
(* is what kcp_now made of it.                                             *)
(***************************************************************************)
EXTENDS KcpTimer, PyInt

CONSTANTS
  MaxClock,      \* bound: the last time
  MaxSetBack     \* bound: how often the clock is set back

VARIABLES
  clock,
  running,       \* the updater has scheduled its next call
  active,        \* the session is in active_sessions
  setbacks,
  next_update,   \* of the session, as the tunnel keeps it
  quiet,         \* history: ticks since the last flush by ikcp_update
  lag,           \* history: how far the clock fell behind the ticks since then
  blind          \* history: kcp_now did not give the time since then

clockVars == <<clock, running, active, next_update, setbacks, quiet, lag, blind>>
allVars == <<vars, clockVars>>

ClockInit ==
  /\ Init
  /\ clock = Start /\ running = TRUE
  /\ active = TRUE /\ next_update = 0 /\ setbacks = 0
  /\ quiet = 0 /\ lag = 0 /\ blind = FALSE

(* Whether kcp.update(r) and kcp.check(r) take the argument: the error is  *)
(* not a KeyError, so it ends Updater.update before call_later.            *)
Converts(r) == r \in PyInt_As_uint32_t

\* mutation: the operands are swapped: a session waits to be overdue
PutBack_Swapped(r) == active' = (r - next_update > Interval)

(* The tick finds active_sessions empty. *)
PutBack(r) == active' = (next_update - r < Interval)

(* The tick pops the session. *)
UpdateSession(r) ==
  /\ UpdateAt(r)
  /\ active' = FALSE
  /\ next_update' = ikcp_check(r)'

(* Updater.update, one interval after the last time.                       *)
Tick ==
  \E d \in Steps :
    \E r \in {kcp_now(clock + d)} :
      /\ running /\ clock + d \in 0..MaxClock
      /\ clock' = clock + d
      /\ running' = (~active \/ Converts(r))
      /\ IF active /\ Converts(r) THEN UpdateSession(r)
         ELSE /\ IF active THEN active' = FALSE ELSE PutBack(r)
              /\ UNCHANGED <<vars, next_update>>
      /\ d < 0 => setbacks < MaxSetBack
      /\ setbacks' = IF d < 0 THEN setbacks + 1 ELSE setbacks
      /\ LET flushed == active /\ Converts(r) /\ Flushes(r)
         IN /\ quiet' = IF flushed THEN 0 ELSE quiet + 1
            /\ lag' = IF flushed THEN 0 ELSE lag + maxOf(0, Interval - d)
            /\ blind' = ((blind /\ ~flushed) \/ r # Wrap(clock + d))

(* datagram_received, up to the flush after a read.  The peer's window     *)
(* stays open here: it has no part in when the next flush comes.           *)
Datagram ==
  /\ \E una \in 0..snd_nxt : \/ \E a \in acks : InputAck(a, una)
                            \/ InputOther(una)
  /\ active' = TRUE
  /\ UNCHANGED <<shut, clock, running, next_update, setbacks, quiet, lag, blind>>

(* ... and that flush, with kcp->current as the last update left it.       *)
ReadFlush ==
  /\ Flush
  /\ UNCHANGED clockVars

(* TunnelTransportWrapper.write; what it queues is KcpBlock's part.        *)
Write ==
  /\ ~active /\ active' = TRUE
  /\ UNCHANGED <<vars, clock, running, next_update, setbacks, quiet, lag, blind>>

ClockNext == Tick \/ Datagram \/ ReadFlush \/ Write

Longest == CHOOSE d \in Steps : \A e \in Steps : e <= d

ClockSpec == ClockInit /\ [][ClockNext]_allVars

-----------------------------------------------------------------------------
(* No reading of the clock makes the binding raise in Updater.update: that *)
(* would be the last tick of every session of every tunnel.                *)
UpdaterRuns == running

(* A session without traffic is flushed every other tick, however the      *)
(* moments that ikcp_check names fall between the ticks; a clock that was  *)
(* set back delays that by no more than the distance.                      *)
FlushedInTime ==
  ~blind => quiet * Interval <= lag + 2 * Interval

(* A segment that is not acknowledged is sent again in time also by the    *)
(* updater, which looks at the clock only every other tick.  Where the     *)
(* clock was set back, the flush planned before comes only when the clock  *)
(* has caught up, and ikcp_update takes up to JUMP for no jump.            *)
ResentInTime ==
  ~blind =>
    \A x \in snd_buf :
      Wrap(clock) - x.sent < 2 * Longest +
        maxOf(x.rto + RTO_MAX \div 8, IF setbacks = 0 THEN 0 ELSE JUMP)

(* ikcp.h:349: call ikcp_update "repeatedly, every 10ms-100ms", or ask     *)
(* ikcp_check when; "'current' - current timestamp in millisec".           *)
FlushedAlways == quiet * Interval <= lag + 2 * Interval
=============================================================================
