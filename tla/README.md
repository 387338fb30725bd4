# Verification of kcp-py

kcp-py carries TCP connections over UDP. A *local* process accepts TCP
connections, a *server* process opens one TCP connection per accepted
conversation, and between the two runs the KCP protocol: the C code of
`ikcp/ikcp.c`, wrapped by `kcp/KCP.pyx` and driven by asyncio callbacks
(`kcp/protocols.py`) and a periodic updater (`kcp/updater.py`).

This directory holds TLA+ modules that model that program, TLC configurations
that check them on small instances, and TLAPS proofs for every value of the
constants. `PROJECT.json` lists the parts, the runs, the theorems, the hazards
of the code, and for every definition the lines it was translated from.

    tlc -config KcpLink_reorder.cfg MCKcpLink     # one run
    tlapm KcpLinkProofs.tla                       # the proofs of one module

## 1. The system

### Inventory

| part | source | state | operations |
|---|---|---|---|
| KCP control block | `ikcp/ikcp.c` | `struct IKCPCB`: send and receive queues and buffers, window edges, acknowledgement list, congestion window, probe flags | `ikcp_send`, `ikcp_recv`, `ikcp_peeksize`, `ikcp_input`, `ikcp_flush`, `ikcp_update` |
| KCP timers | `ikcp/ikcp.c` | `current`, `ts_flush`, `rx_srtt`, `rx_rttval`, `rx_rto`, `ts_probe`, `probe_wait`, per segment `ts`, `rto`, `resendts`, `fastack` | the time part of `ikcp_update` and `ikcp_flush`, `ikcp_update_ack`, `ikcp_check` |
| KCP wire format | `ikcp/ikcp.c` | none | `ikcp_encode*`, `ikcp_decode*`, `ikcp_encode_seg` |
| Cython binding | `kcp/KCP.pyx` and the code Cython made of it, `kcp/KCP.c` | the control block and its memory, the output callback | `KCP()`, `set_output`, `set_mtu`, `nodelay`, `wndsize`, one method per C function, `state` getter and setter, deallocation; `kcp_now` |
| Tunnel | `kcp/protocols.py` | `sessions`, `active_sessions`, `accept_dict`, `conv` | `create_connection`, `accept_connection`, `datagram_received`, `connection_lost`, `close_session`; `write`, `close` of the transport |
| Updater | `kcp/updater.py` | the set of tunnels; `next_update` in each session | `update`, once per interval |
| Server socket | `kcp/protocols.py` | `conns`, the peers seen | `datagram_received`, `connection_accepted_cb` |
| Pipe | `kcp/pipe.py` | two tasks per connection | `open_pipe`, `flow` |
| Start-up | `kcp/local.py`, `kcp/server.py`, `kcp/utils.py` | configuration | none that change state later |
| Old port, experiments, build files | `oldversion/`, `test/`, `setup.py` | not used by `kcp/` | |

### How the parts interact

- The application's stream writer calls `TunnelTransportWrapper.write`, which
  calls `ikcp_send` and marks the conversation active. Nothing is sent yet.
- Once per interval `Updater.update` takes *one* active conversation of each
  tunnel, calls `ikcp_update` with a reading of the system clock, hands at most
  one message to the stream, and notes when it wants to be called again. When
  it finds no active session it puts back the sessions that are due.
- `ikcp_update` calls `ikcp_flush` when its flush timer has expired. That
  numbers new segments, decides what is sent again, and calls the output
  callback, which is `sendto` of the UDP socket.
- A datagram is given to `ikcp_input`; then at most one message is read, and
  the control block is flushed at once, with the clock reading of the last
  update.
- On the server the first datagram of a peer arrives at the shared server
  socket, which creates a connected socket with a tunnel of its own and hands
  it what has arrived so far. The first datagram of a conversation starts a
  task that creates the session; what arrives before that task has run is kept
  in `accept_dict`.
- The session's streams are given to `open_pipe`, which connects the other side
  and copies bytes both ways until one of the two copying tasks ends. Then it
  closes both writers. Closing the tunnel's writer sets `state` and nothing
  else; the peer hears nothing of it.

All Python code runs in one thread: a callback runs to its end. The hard
behaviour is in the order of callbacks and datagrams, not in threads.

### What is hard, and what makes each part correct

| part | hard behaviour | correct when |
|---|---|---|
| control block | UDP loses, repeats and reorders; old `una`, `ack` and window fields; a closed window whose reopening is lost; a read between two datagrams | the reader gets what was written, whole messages, in order, once; nothing is dropped before the peer has it; the two ends cannot wait for each other; everything arrives in the end |
| timers | 32-bit wrap; a clock that is set; a flush with an old reading; acknowledgements of earlier transmissions | a flush is always planned and near; no segment is left, or times out earlier than the age of an old reading explains; the estimate stays in range; `ikcp_check` is never too late |
| tunnel, server socket | datagrams between the first one of a conversation and the task that accepts it; buffer overflow; hand-over | each conversation is accepted, and once; a ready message is handed on; a closed session is removed |
| updater | one session per tick | every session is updated again and again |
| pipe | two directions, one idle or at its end; failures while connecting; a peer that is not told | each application gets a prefix of what the other sent; both pipes end; what was sent before an orderly end arrives |
| binding | integers that do not fit their C type, on the way in and out; errors in the middle of construction; who frees what | a session has limits that fit each other or does not begin; buffers hold what is written to them; the clock the timers get is the time; everything is freed once |

The complete list of hazards, with the line where each one bites and the
properties that would catch it, is in `PROJECT.json`.

## 2. The modules

| module | what it is |
|---|---|
| `MessageStream` | abstract specification: per direction a reliable ordered stream of whole messages |
| `KcpBlock` | the control block at both ends of a conversation, one operator per operation of `ikcp.c` |
| `KcpLink` | two control blocks joined by a lossy network; the properties and the inductive invariant |
| `KcpLinkTypes`, `KcpLinkProofs` | proofs about `KcpLink`: types, the invariant, the refinement, the size of datagrams |
| `SeqNum`, `SeqNumProofs` | arithmetic and comparison of wrapping numbers, and when it is exact |
| `KcpTimer`, `KcpTimerProofs` | the timers of one control block, with wrapping timestamps |
| `PyInt` | Python integers and C integers, and `kcp_now` |
| `SessionClock`, `SessionClockProofs` | `KcpTimer` under the updater: `kcp_now` of a clock that may be set, `ikcp_check` deciding when the next tick looks at the session |
| `SendTimes` | `SessionClock` with the true time at which each segment was sent; proved about in `SessionClockProofs` |
| `KcpObject`, `KcpObjectProofs` | a `KCP` object from `new_kcp` to its deallocation: configuration, limits, memory |
| `Tunnel`, `TunnelProofs` | one tunnel with its sessions, its accept tasks, its updater, and on the server the way to it through the server socket |
| `ByteStreams` | abstract specification: two byte streams between two applications, until a connection is closed |
| `Pipe`, `PipeProofs` | the pipes at both ends of one connection, over a tunnel that keeps the promise of `MessageStream` |
| `MCKcpLink`, `MCKcpTimer`, `MCSessionClock`, `MCSendTimes`, `MCKcpObject`, `MCTunnel` | the constants of the runs that a configuration file cannot spell |

### KcpBlock and KcpLink

Every variable is a function over the two ends and has the name of its `IKCPCB`
field. `net[p]` is the set of datagrams on their way to `p`. The actions of
`KcpLink` are the calls the Python code makes:

| action | code |
|---|---|
| `Write(p)` | `TunnelTransportWrapper.write` calls `ikcp_send` |
| `Read(p)` | `ikcp_peeksize` and `ikcp_recv`, from the tunnel or the updater |
| `Update(p)` | `ikcp_update` at a time when it flushes |
| `Flush(p)` | the direct `ikcp_flush` after a read |
| `Receive(p)`, `Input(p)` | `ikcp_input`: prologue, one step per segment, epilogue |

`ikcp_input` is split because its loop may process any number of segments. No
other action of that end is enabled until its epilogue has run (`Idle`), so it
is as indivisible as in the code. Reads, writes and flushes may occur in any
order. This includes the order in which the tunnel and the updater use them, who
follow an input by a read and a flush, and an update by a read: the safety
properties do not depend on it, and the liveness property assumes no more than
that reads and updates come again.

What is abstracted:

- *Time.* Which segments are past their `resendts` (`late`) and whether the
  probe is due (`due`) is a free choice at each flush. `KcpTimer` computes it.
- *Numbers* are not wrapped here. This is sound when numbers that are compared
  are less than 2^31 apart: `FlightBound` says that the window edges of the two
  ends are at most two windows apart, and `SeqNumProofs!DifferenceExact` that
  then `_itimediff` is the true difference. It leaves out a datagram that stays
  in the network while 2^31 segments pass.
- *Payload.* A fragment is named by its message and its position in it; lengths
  are small numbers, and `OVERHEAD` is one of them.
- *Acknowledgements* of one flush are a set: the code keeps them in a list and
  may repeat one in a datagram, where the second has no further effect. Inside a
  datagram the segments are processed in the order in which `ikcp_flush` writes
  them, by kind and then by number.
- `xmit` and `fastack` stop growing at the value they are compared with.
- Both ends have the same configuration. Stream mode is never switched on by
  the binding and is left out, as are headers that no `ikcp_flush` writes.
- A message of length 0 is one fragment of length 0, and `Read` does not take it
  (`peeksize` is 0). The runs of `KcpLink` have none; `Pipe` is about the one
  that the end of a stream writes.
- A probe or window answer keeps in `sn` what the last acknowledgement of the
  flush left there; nobody reads it, and the model has 0.

### KcpTimer

One control block. `now` is the clock reading of the last `ikcp_update`, not
wrapped; `current` is its wrapped value, and `ts_flush`, `ts_probe` and
`resendts` are wrapped as in the code. `Update` moves the clock by a member of
`Steps`; `Flush` is the direct flush with the old reading; `InputAck` and
`InputOther` are the parts of `ikcp_input` that touch the timers or take
segments out of flight. Which acknowledgements arrive, how many segments the window admits and when it closes
is left open, because `KcpBlock` is where it is decided.

The field `sent` of a segment is `kcp->current` at the flush, which in a direct
flush is older than the moment of sending. For the upper bounds (`NoLateTimeout`,
`ProbedInTime`) that is the cautious side. How early a timeout can be because of
it is a question about the true time, which `SendTimes` has.

The code puts no limit on `segment->rto`, which grows with every timeout. It
would have to come near 2^31 ms to disturb a comparison. How long that takes is
part of the proofs about the timeouts (section 4): more than a thousand years.

### PyInt and SessionClock

`kcp_now` masks the time to 32 bits and is declared to return a C `int`. What
Cython generates for it stores the masked value in a Python integer and converts
that: above 2^31 - 1 the conversion raises, a `cpdef` function with a C result
has no way to pass an exception on, so it is written to stderr and the result is
0. `PyInt!kcp_now` is this function of the time.

`SessionClock` extends `KcpTimer` with the clock itself and with the updater:

| action | code |
|---|---|
| `Tick` | `Updater.update`: reads the clock, and updates the session if it is active, or puts it back if it is due |
| `Datagram` | `datagram_received` up to the flush |
| `ReadFlush` | the flush after a read |
| `Write` | `TunnelTransportWrapper.write`, which makes the session active |

`Tick` calls `KcpTimer!UpdateAt` with the value of `kcp_now` and stores the
answer of `ikcp_check`. The comparison of `next_update` with the time is done in
Python's integers, not modulo 2^32. `quiet`, `lag` and `blind` are history: the
ticks since the last flush, how far the clock fell behind the ticks, and whether
`kcp_now` gave something other than the time. The probe of a closed window is
not part of this module: the peer's window stays open.

### SendTimes

A datagram may come at any moment between two ticks, and the flush after the
read sends at that moment, while `resendts` is counted from `kcp->current`, the
reading of the last `ikcp_update` (`protocols.py:131`, `ikcp.c:913`, `1036`). In
`SessionClock` the clock stands still between ticks. `SendTimes` adds the
moment: `SendReadFlush` sends at any time up to a tick's length after the last
tick, `SendTick` at the time it reads, and `sendings` remembers the number, the
reading and the moment of what is in flight. Every behaviour of `SessionClock`
has such a history. The variables have a module of their own because they
multiply the states.

`NoEarlyTimeout` says that a segment which times out was sent at least its `rto`
less two ticks before. The updater looks at a session every other tick, so a
reading can be nearly two ticks old when a datagram comes, and a segment sent
then is repeated that much too early: in the run a bound that is two units
smaller is violated. With the default interval of 50 ms the two ticks are 100 ms,
as long as the smallest `rto` without `nodelay`: a segment with that `rto` may
be repeated almost as soon as it was sent. The `rto` of a new session is 200 ms,
and with an interval of 10 ms what is lost of it is 20 ms. The property says nothing where
`kcp_now` does not give the time or the clock was set back (`Measured`), since
then the clock does not measure time, and where `rto` has grown to half the
range of the timestamps.

### KcpObject

`pc` is the call that comes next. `new_kcp` makes five calls; an argument that
does not fit its C type raises `OverflowError` there, the half-made object is
dropped, and `__dealloc__` runs on it. Between the callbacks of the event loop
`pc` is `"open"`; a datagram is `input`, `peeksize`, `recv`, `flush` in this
order, a tick `update`, `state`, `peeksize`, `recv`.

The segments of a queue are counted. `rcv_buf` is kept as the distances of its
numbers from `rcv_nxt`, which is what decides how many segments the two move
loops take. `heap` counts the blocks that `ikcp_malloc` gave out. `longest`
remembers the longest segment `ikcp_send` has cut, since `kcp->buffer` must hold
that one too.

Two of its properties hold under a condition that is itself the finding about
the code. `WindowShown` is about windows below 65536: what is configured above
is truncated to 16 bits in the header, and 65536 is shown as 0. `WritesAccepted`
is about an mtu of at least `SafeMtu`: below it `ikcp_send` refuses a read of
65536 bytes, and `write`, which ignores the result, loses it. The properties say
that these are the exact limits of the two failures, not that they do not occur.

Assumed: `malloc` does not return `NULL`; the library is built with `NDEBUG`, as
Python builds extensions, so that `ikcp_release(NULL)`, after `KCP()` itself
raised, returns as its `if` says; and `MtuAssumption`, that three datagrams fit
the range of the integer their buffer is measured with. The option parser
accepts an mtu of 1.4 billion, for which they do not.

### Tunnel

The actions are the callbacks of the event loop, and each runs to its end:
`CreateConnection`, `AcceptConnection`, `Datagram`, `Write`, `Close`,
`ConnectionLost`, `Update`, and at the server socket `ServerDatagram`,
`EndpointCreated` and `HandOver` (`connection_accepted_cb`). `is_local` tells the
two kinds of tunnel apart and is a variable that does not change, so that one
run covers both. The
control block of a session is reduced to `state`, the number of messages that
can be read (`ready`), and `wait`, which is `next_update - now`.

- The loop runs what is scheduled before it polls the sockets again, so an
  accept task runs before the next `Datagram`; the hand-over runs before the
  accept task of a datagram read just before it. The exception is a task that
  the hand-over itself starts: a datagram found in the same poll is read before
  it (`endpoint = "now"`). Hence at most two pieces of input reach a conversation
  that is being accepted, and that is what `SessionOnce` rests on: a third would
  start a second task for a conversation whose buffer was thrown away.
- `accept_connection` never suspends: `create_connection` awaits nothing.
- `new_kcp` does not raise. It does so for each session or for none, depending on
  the configuration only (`KcpObject` says what becomes of the object). In a
  server that has such a configuration the accept task ends before it deletes
  the entry of `accept_dict`, whose buffer then grows to its limit and is thrown
  away, after which the next datagram starts another task: no conversation is
  ever accepted. `Accepted` is about configurations that are accepted.
- `active_sessions.pop()` of CPython takes small integers in cyclic order;
  `finger` is the place it continues from.
- `conns` keeps the entry of one peer. If its endpoint cannot be created the entry
  stays, and the peer is never served; `Accepted` names this exception.
- `state` is an `IUINT32`: -1 is stored as `WordMax`, and the binding returns it
  as that number.
- A write may come from a stream whose session is already gone; it still adds
  the conversation to `active_sessions`, and the updater's `KeyError` handler
  meets it.

### Pipe

`open_pipe` at the local end runs when a client has connected, at the server end
when a conversation is accepted. For each end and each of its two flows there is
the stream reader (`reader`, `buf`), the task (`flow`) and the time since it
began to wait (`silent`). `wire[e]` holds the messages that end `e` has written
and the other end has not read. A byte is its position in what its application
sent.

- `Pass` is one turn of the loop in `flowing`: the read, the write of what it
  returned, and the test of the loop condition, which decides whether the task
  ends. The read at the end of a stream returns `b''`, and that is written too.
- `TimeOut`, `Raise`, and the condition of the loop end a flow; `Finish` is what
  `FIRST_COMPLETED` and the `finally` of `open_pipe` do then, in one step since
  nothing else of this pipe runs in between: the other task is cancelled with
  what it has not written, and both writers are closed.
- A message of size 0 blocks what is behind it: neither `datagram_received` nor
  the updater reads when `peeksize` is 0.
- A session whose writer is closed goes on sending what it has queued (`Left`),
  because nothing removes it (run `tunnel_close`). `EofDelivered` rests on that:
  if `close_session` did what its caller means, the end of a download would be
  lost. What excuses a loss there is remembered when the first flow of the other
  pipe ends (`first`): by the end of its own application, or by a timer that
  expired while something was still to come. A pipe that ended after all that
  was left had come in (`Drained`) is no excuse. Besides there are a tunnel that
  is lost, a connection that fails or breaks, and one attempt that never ends.
- The TCP connection and the event loop are external: `reader`, `AppSends`,
  `AppEnds`, `Tick`. `wait_for` is that of Python 3.7, the version the
  repository names: a timeout cancels the read, and nothing the read would have
  returned is lost.

## 3. The runs

| run | question | instance |
|---|---|---|
| `messages` | Are messages handed over whole and in order, can the reader always make room, do the window edges of both ends stay close when the window closes, and does the congestion window stay open? | messages of 1 and of 3 units in datagrams of 3, receive queue of 3, `NoCwnd = FALSE`, fast retransmission |
| `reorder` | Does the inductive invariant hold with two datagrams on the way, in any order, and fast retransmission? | two messages, two datagrams |
| `liveness` | Does everything written arrive, although the window closes and its reopening may be lost? | receive queue of 2, three messages |
| `timers` | Are flush, probe, timeout estimate and `ikcp_check` right across the wrap, and is no segment left too long? | `W = 64`, clock from 58 to 71, two segments |
| `clock` | Is a session flushed and are its segments resent in time by the updater, with the clock it really has? Does any reading end the updater? How early can a segment time out that was sent with an old reading? | `W = 32`, clock from 0 to 33: through the range that `kcp_now` can give, the one it cannot, and back; ticks of 2, or 1 late; one step back by 13, where `JUMP` is 15 |
| `clock_int32` | Is it flushed in every part of the cycle? (no) | `W = 44`, clock from 8 to 47, no traffic, no step back |
| `check_hint` | Does an update at the time `ikcp_check` names flush? (no) | `W = 32`, clock from 22 to 44, one segment |
| `tunnel` | Is each conversation accepted once, also when buffers overflow, sockets change and endpoints fail, are all messages that became ready at once handed on, and is each session updated again and again after bounded traffic and a clock set back? | three conversations, both kinds of tunnel, buffer of 2 |
| `tunnel_busy` | The same under traffic without end (no) | two sessions |
| `tunnel_close` | Is a closed or dead session removed? (no) | two sessions |
| `object` | Whatever integers are configured: do the limits fit each other, do the buffers hold what is written to them, is the window shown exactly, is every block freed once, and from which mtu on is no write refused? | 21 configurations at the edges, `W = 256`, header of 3, receive queue of 3 |
| `pipe` | Do the pipes implement `ByteStreams`, do they end together, is nothing written behind an end of file, and does what was sent before one arrive? | two bytes, reads of one byte, timeout of 2 ticks |

### Bounds, and why they are enough

`SendLimit`, `MaxNet` and `MsgLens` bound `KcpLink`. Two messages of which one
has two fragments are enough for a message to be split over datagrams, for a
queue of three to be full in the middle of a message, and for a fragment to be
overtaken by one of the next message. Three messages against a receive queue of
two, or four fragments against one of three, close the window while data remains. A datagram that is on its way can be
delivered at any later time and any number of times, so `MaxNet = 1` already
has repeated and very late datagrams; `MaxNet = 2` adds overtaking. One
direction carries data since the directions share nothing but the fields `una`
and `wnd` that ride on data segments. What these bounds cannot show is proved for every value: see section 4.

`MaxNow`, `MaxSegs` and `MaxAcks` bound `KcpTimer`. The clock starts two or
three intervals before the wrap and runs past it by more than the timeout a
segment starts with. `W` is as small as it can be with the longest difference below `W/2`.

`MaxClock` and `MaxSetBack` bound `SessionClock` and `SendTimes`: the clock
passes through a whole cycle of `W`, in ticks that are on time, late, or a step
back. In `clock` that step is a little shorter than `JUMP`, the longest one the flush timer does
not correct, and longer than a timeout and two intervals, so that the plan it
leaves behind is what decides when a segment is resent. In `ikcp.h` the first
timeouts are shorter than `JUMP` too, but the largest one is longer; the theorems
hold for every order of the two. One consequence of the small cycle: where the
bounds of `FlushedInTime` and `ResentInTime` add the distance the clock was set
back by, they are larger than any difference the run can show. The run tests
these two properties, and `NoEarlyTimeout`, before a step back, and `FlushPlannedAfterJump` and
`UpdaterRuns` after it; the part after a step back rests on `FlushesInTime` and
`ResendsInTime` (section 4).

The timeout a segment starts with, 7, is longer than the two ticks, 6, by which
it may be early, so that `NoEarlyTimeout` excludes something.

`MaxQueued` and `MaxAcks` bound `KcpObject`: two fragments of which one may be
in flight, and acknowledgements enough for the list to double once. `Configs`
has each option at -1, 0, the edges of the tests in `ikcp_setmtu` and
`ikcp_wndsize`, the size at which 16 bits of window wrap, and `W/2`, the first
integer that does not fit an `int`.

`MaxBytes` and `Timeout` bound `Pipe`. Two bytes, sent by one application or one
by each, read one by one, are enough for a flow to be cancelled between the two,
and for a message to be followed by the empty one. Timeout 2 lets the timers of
two flows be at different points.

`MaxConv`, `MaxReady`, `MaxTraffic`, `MaxSetBack` and `BufferMax` bound
`Tunnel`. Three conversations let one be starved by two others; a buffer of two
datagrams overflows with the two pieces of input that can reach it.

`CHECK_DEADLOCK FALSE` is used where the bound on the clock ends a run
(`KcpTimer`, `SessionClock`, `SendTimes`), where an object is freed (`KcpObject`), where both
pipes have ended (`Pipe`), and where a tunnel that has lost its socket and used
up its traffic has nothing left to do (`Tunnel`).

### Fairness

- `KcpLink`: the updater calls `ikcp_update` of every session again and again,
  a segment that is not acknowledged passes its `resendts`, and the network
  does not lose everything for ever: `SF(RetransmitAll)`, `SF(Arrive)`. Strong
  fairness is needed because `ikcp_input` runs in between and because the
  network keeps at most `MaxNet` datagrams. `ikcp_input` ends: `WF(Input)`. The
  application reads: `SF(Read)`. That the updater really comes back to every
  session is what `tunnel` shows and `tunnel_busy` limits.
- `Tunnel`: the timer of the updater fires again and again, and the loop runs
  what is scheduled: `WF(Update)`, `WF(AcceptConnection)`, `WF(HandOver)`; an
  attempt to create an endpoint ends: `WF(EndpointCreated)`. Nothing is assumed
  about peers and applications.
- `Pipe`: each event loop runs what is ready and its timers fire (`WF(Runs)`,
  `WF(Tick)`), and the tunnel delivers while both its ends are there
  (`WF(Delivers)`), which is `AllDelivered` and `HandedOn`. Nobody has to send
  or to close, and a connection attempt may take for ever, except in
  `EofDelivered`, whose hypothesis is that it comes to an end.
- `SessionClock`, `SendTimes` and `KcpObject` have safety properties only: "in time" is
  counted in ticks.

### What the runs found

- `check_hint`: `ikcp_check` names the earliest `resendts` in flight, but
  `ikcp_update` does nothing before the flush timer has expired. The caller
  wakes up early, and is then told "now" until the flush. `CheckMissesNothing`
  shows that the answer is never too late, so nothing but work is wasted.
- `tunnel_busy`: the updater serves one session per tick and puts sessions back
  only when it finds none. A conversation that receives a datagram in every
  interval is added each time, so the set never becomes empty, and an idle
  session of the same tunnel is not updated: a segment it must repeat waits as
  long as the traffic lasts. `tunnel` shows that it recovers afterwards.
- `clock_int32`: during half of every 49.7 days `kcp_now` returns 0. Every update
  then happens at time 0: the flush timer is found far from the clock once, is
  set to one interval, and never expires again. Data is then only sent by the
  flush that follows a read, and nothing is repeated. `FlushedInTime` shows that
  flushes are on time otherwise.
- `tunnel_close`: `TunnelTransportWrapper.close` and a dead link set `state` to
  -1, but the binding reads it as 4294967295, so `close_session` is never
  called: sessions stay until the socket is lost.

Two expectations about the code turned out not to be true without being
contradicted by its documents. The sender may overrun the receiver's window,
since a late datagram sets `rmt_wnd` back to an old value; the receiver drops
what is outside (`ikcp.c:811`) and it is sent again. And `cwnd` may exceed the
peer's window.

## 4. What is proved

All theorems hold for every value of the constants that the named assumptions
admit (`BlockAssumption`, `NetAssumption`, `WidthAssumption`, `TimerAssumption`,
`ObjectAssumption`, `MtuAssumption`, `PipeAssumption`, `TunnelAssumption`);
the bounds of the runs play no part in them. The theorems with a hypothesis of
their own are about the clock; the runs on the same properties satisfy it:

- `Forwards`, short here for `Steps \subseteq 0..(W/2 - 1)`: from one update to
  the next the clock goes forwards, by less than half the range of the
  timestamps, 24 days.
- `ClockInRange`: forwards, by an interval less than that; and the life of the
  block, `MaxNow - Start`, is short enough for no `rto` to grow to half the
  range. For the numbers of `ikcp.h` that is a life of 1200 years, so the bound
  on the clock says nothing about the code that one would miss.
- `TicksInRange`: the updater is called back after an interval, or later, and
  the clock may be set, in either direction, by up to half the range.

| theorem | statement |
|---|---|
| `KcpLinkTypes!TypeCorrect` | `Spec => []TypeOK` |
| `KcpLinkTypes!WindowOpen` | `Spec => []CwndOpen` |
| `KcpLinkProofs!Invariant` | `Spec => []IInv` |
| `KcpLinkProofs!InOrder` | `Spec => []InOrderExactlyOnce` |
| `KcpLinkProofs!NothingLost` | `Spec => []NoSegmentLost` |
| `KcpLinkProofs!WholeMessagesOnly` | `Spec => []WholeMessages` |
| `KcpLinkProofs!FlightBounded` | `Spec => []FlightBound` |
| `KcpLinkProofs!NoWedge` | `Spec => []FullQueueReadable` |
| `KcpLinkProofs!MtuRespected` | `Spec => []DatagramFits` |
| `KcpLinkProofs!Refinement` | `Spec => ImplementsStream` |
| `KcpLinkProofs!EdgesAdvance` | `Spec => OnlyForward` |
| `SeqNumProofs!DifferenceExact` | wrapped numbers less than half the range apart are compared exactly |
| `KcpTimerProofs!FlushNear` | `Spec => []FlushPlannedAfterJump` |
| `KcpTimerProofs!FlushOnTime` | `Spec => []FlushPlanned`, if `Forwards` |
| `KcpTimerProofs!CheckIsEnough` | `Spec => []CheckMissesNothing`, if `Forwards` |
| `KcpTimerProofs!TimeoutsInTime` | `Spec => []NoLateTimeout`, if `ClockInRange` |
| `KcpTimerProofs!TimeoutsByReadings` | a segment times out at a reading its `rto` after the reading it was sent at, if `ClockInRange` |
| `KcpTimerProofs!ProbesInTime` | `Spec => []ProbedInTime`, if `ClockInRange` |
| `KcpTimerProofs!TimerTypes` | `Spec => []TypeOK`, the limits of `rx_rto` among the types |
| `SessionClockProofs!UpdaterGoesOn` | `ClockSpec => []UpdaterRuns` |
| `SessionClockProofs!SessionFlushNear` | `ClockSpec => []FlushPlannedAfterJump` |
| `SessionClockProofs!FlushesInTime` | `ClockSpec => []FlushedInTime`, if `TicksInRange` |
| `SessionClockProofs!ResendsInTime` | `ClockSpec => []ResentInTime`, if `TicksInRange` |
| `SessionClockProofs!TimeoutsNotEarly` | `SendSpec => NoEarlyTimeout`, if `TicksInRange` |
| `TunnelProofs!TunnelTypes` | `Spec => []TypeOK` |
| `TunnelProofs!OneSessionEach` | `Spec => []SessionOnce` |
| `TunnelProofs!UpdaterClosesNothing` | the updater never removes a session |
| `KcpObjectProofs!ObjectTypes` | `Spec => []TypeOK` |
| `KcpObjectProofs!AlwaysConfigured` | `Spec => []Configured` |
| `KcpObjectProofs!BufferLargeEnough` | `Spec => []BufferFits` |
| `KcpObjectProofs!AcksAlwaysFit` | `Spec => []AcksFit` |
| `KcpObjectProofs!NothingLeaks` | `Spec => []NoLeak` |
| `KcpObjectProofs!NoWriteRefused` | `Spec => []WritesAccepted` |
| `KcpObjectProofs!WindowExact` | `Spec => []WindowShown` |
| `PipeProofs!PipeTypes` | `Spec => []TypeOK` |
| `PipeProofs!NothingFollowsEmpty` | `Spec => []NothingBehindEmpty` |
| `PipeProofs!SilenceEnds` | `Spec => []OutlivesBriefly` |
| `PipeProofs!PipesAreStreams` | `Spec => ImplementsStreams` |

**The invariant of the link.** None of the safety properties is inductive: that
a read returns the stream depends on what lies in the queue, that on what was in
a datagram, and that on what was in the sender's buffer. `IInv` follows a
fragment along that way, for each direction: `SenderInv` (numbered segments and
queued fragments are the rest of the stream), `DataInv` (a data segment on the
way carries the fragment its number stands for), `ReceiverInv` (what was read
and what is queued is the stream up to `rcv_nxt`; `rcv_buf` lies in the window).
The way back is `AckInv` (an acknowledgement, queued or on the way, is true of
the receiver, and remains so) and from it `KeptInv` (a number below `snd_nxt` is
still with the sender or with the receiver). `WellFormed` and `BoundaryInv` say
that the stream consists of messages and that reads stop at their ends; this is
what lets a full queue begin with a complete message. `DataInv` and `AckInv`
speak of every datagram and never of its age, which is why loss, repetition and
order do not occur in the proof. The `reorder` run checks `IInv` itself.

The proof has one lemma per operation of the control block, each stating which
parts of which direction it may disturb; the two directions are put together at
the level of `KcpLink`. `CwndOpen` does not need `IInv`: it is inductive once
`cwnd * mss <= incr` is claimed before the first update as well.

**Refinement.** `stream` and `got` are the abstract variables. `Write` appends a
message, which `Fragments` builds; `Read` appends the fragments up to the first
with `frg = 0`, which by `WellFormed` and `BoundaryInv` is one message; every
other step stutters.

**Datagrams.** `Pack` computes the fill of the buffer by a recursive function, and
the size of a datagram is a sum over a set, which the library counts in an order
of its own choosing. The induction theorems of the library take a predicate as a
parameter, which the provers cannot instantiate, so `NumberInduction` and
`SubsetInduction` take the set of those that have the property instead. With them
both recursive functions are shown to exist (`FillExists`, `WeightExists`), the
sum not to depend on the order (`WeightAdds`), and, segment by segment, the
datagram being filled to hold what the buffer holds (`FilledTo`). That needs the
segments of one flush to be finitely many, no two of them equal in kind and
number, and none larger than the mtu: the first two follow from `IInv`, the last
one from how `ikcp_send` cuts messages (`Sized`).

**The timers.** `itimediff(x, y)` is the only number in its half-open range
congruent to `x - y`. From this `NextIsNear` bounds the next flush after any
step of the clock, and `PlanAhead` keeps the bound while the clock runs towards
it. `CheckIsEnough` adds that the answer of `ikcp_check` is a minimum, of which
the planned flush is one member.

For the timeouts, `TimedInv` gives every wrapped timer the time it stands for: a
segment times out a whole number `d` after it was sent, `d` between its `rto` and
an eighth of `RTO_MAX` more (`Waits`), and the flush before the planned one was
earlier than that, or it would have repeated the segment. The probe timer is
treated the same way. A comparison of wrapped timers is then one of the times,
as long as `d` is below half the range. But `rto` is not bounded in the code: at
each timeout it grows by up to `rx_rto` again. `Grown` bounds it by what that
costs: to grow from `rto`, the time `rto` has to pass, so that the square of
`rto` is at most about `2 * RTO_MAX` times the age of the block (`GrowthStep`).

`SessionClockProofs` carries this over to the session: every step of it either
is a step of the timers at some reading or leaves `ts_flush` alone, and
`kcp_now` gives a value that `update` and `check` accept, whatever the time.

Whether flushes and retransmissions are in time, counted in ticks of the updater,
needs `SessionInv`. As long as `kcp_now` gives the time nothing has wrapped, and
`ts_flush` is within `JUMP` of the reading it was planned at (`Planned`); the
session is looked at again by then, since `next_update` is not later; the clock
is never further past the planned flush than one tick, and only while the session
is in the active set (`InTime`); and a segment in flight was not due at the flush
before the planned one, unless that plan was made before the clock was set back
(`Due`). In the other half of the cycle only what does not depend on the time
survives: the plan and the types.

The attempt to prove `ResentInTime` in an earlier form, which bounded the delay
by the timeout alone, failed, and rightly: a clock that is set back by less than
`JUMP` (10 s) is not noticed by `ikcp_update`, and the planned flush waits until
the clock has caught up. A segment sent just after that may have timed out long
before. The property now has that term, the run has a step back large enough to
need it, and `setbacks = 0` restores the bound by the timeout.

`TimeoutsNotEarly` needs the true times as well (`SendInv`). The last reading is
at most two ticks old: one, or two while the session is not in the active set
(`InSync`). What is in flight is known by its number and its reading, and the
segments in flight have different numbers (`Numbered`), so that what `sendings`
remembers of a segment is when it was last sent, and that is at most two ticks
after the time of its reading (`Remembered`). A timeout comes its `rto` after
that time, by the comparison of wrapped timers (`RunOut`).

**The tunnel.** That a conversation gets one session rests on what the loop may
do between the datagram that starts it and its accept task. `Accepting` says it:
a conversation has its one session or waits for its one task, never both nor
two; a buffer in `accept_dict` belongs to a waiting task; and a task whose
buffer was thrown away, which would let the next datagram start a second one, is
only found where no datagram can be read before the task runs. `Opening` and
`Closed` say that the local end accepts nothing, as it numbers its conversations
itself, and that nothing is accepted before the endpoint exists; `Pending` that
what waits at the server socket belongs to a conversation. `UpdaterClosesNothing`
states for every session what the run `tunnel_close` finds in one.

**The object.** `KInv` says where in its life the block exists, which limits
each call of `new_kcp` has settled by then, that the buffer is as large as the
mtu and the longest segment demand, and that `heap` is exactly what
`ikcp_release` would free now; `NoLeak` follows at the last step.
`NoWriteRefused` needs a lemma about rounding up (`LargeFits`). `WindowExact`
needs a second invariant, that the receive queue is within its window after
every move.

**The pipes.** `EndInv` says that an empty message is the last one of its pipe
and its writer's flow is over (`EmptyEnds`), and that a pipe that outlives the
other one has nothing left to read and has been silent for as long (`Outlives`).
`StreamInv` lays the bytes of one direction in a row: what the application was
handed, the buffer of the reader there, the messages of the tunnel (`Chained`)
and the buffer of the sender, each beginning where the one before it ends. The
buffers belong to the row only as long as their pipe is there and their way out
is not lost (`Outgoing`, `Incoming`), which is where the stream of an end that
closes is cut. In the refinement `Pass` from the tunnel is `Hand`, `Finish` is
`Close`, and all else but the application's `Send` stutters.

**Only model-checked.** Liveness (`AllDelivered`, `Accepted`,
`UpdatedRepeatedly`, `HandedOn`, `EndsTogether`, `EofDelivered`) is outside
what the proof system can do. Every safety property of the runs has a theorem.

## 5. Not modelled, and what could follow

- **Restart.** A process that is restarted takes the conversation for a new one.
  KCP's numbers carry no incarnation: its acknowledgements are believed, and its
  data is taken for old or, later, for new data of the old stream. No property
  of `KcpLink` survives that, and the repository claims none.
- **The wire format** except for the width of the window field: byte order and
  layout of the header, and headers that no `ikcp_flush` writes.
- **Stream mode**, which the binding never switches on.
- **Start-up and option parsing**; the values they let through are the `Configs`
  of `KcpObject`.
- **The old port** in `oldversion/`, the experiments in `test/`, build files,
  logging.
- Of the generated `KCP.c`: module initialisation, argument tuples, reference
  counts of temporaries. `get_conv` and the `conv` property return a field.

What could follow, in order of importance: `Pipe` over `Tunnel` instead of over
its promise, which would make one model of the session that is closed and still
sends; several conversations in `SessionClock`.
