------------------------------- MODULE Tunnel -------------------------------
(***************************************************************************)
(* One tunnel of kcp/protocols.py: a DataGramConnHandlerProtocol with its  *)
(* sessions, served by the Updater of kcp/updater.py.  At the server the   *)
(* tunnel begins with a datagram of an unknown peer at the server socket,  *)
(* a ServerDataGramHandlerProtocol.  The callbacks of the event loop are   *)
(* the actions; each runs to its end.                                      *)
(*                                                                         *)
(* A session's control block is reduced to what the tunnel sees of it: its *)
(* state field, how many messages are ready to be read, and the time of    *)
(* its next update.  Convs are the conversation numbers in use.            *)
(***************************************************************************)
EXTENDS Integers, Sequences, FiniteSets, FiniteSetsExt

CONSTANTS
  Roles,         \* values of is_local
  MaxConv,       \* bound: conversations opened or accepted
  Interval,      \* raw_interval, also the interval of every control block
  BufferMax,     \* the 65536 of datagram_received, in datagrams
  WordMax,       \* largest value of an IUINT32
  MaxReady,      \* bound: messages ready in one control block
  MaxTraffic,    \* bound, per role: datagrams and writes, none if negative
  MaxSetBack     \* bound, per role: how often the system clock is set back

ASSUME TunnelAssumption ==
  /\ Roles \subseteq BOOLEAN /\ MaxConv \in Nat
  /\ {Interval, BufferMax, WordMax} \subseteq Nat \ {0}
  /\ MaxReady \in Nat /\ MaxTraffic \in [BOOLEAN -> Int]
  /\ MaxSetBack \in [BOOLEAN -> Nat]

Convs == 1..MaxConv

VARIABLES
  is_local,      \* the local end, which opens the conversations
  conns,         \* server socket: the first conversation, and how many
                 \* datagrams wait for the peer's tunnel
  endpoint,      \* the tunnel's way from the server socket: see HandOver
  conv,          \* the next conversation number of the local end
  sessions,      \* conversations with a session
  state, ready,  \* of the session's control block
  wait,          \* session.next_update - now
  active_sessions,
  finger,        \* where active_sessions.pop() starts to look
  accept_dict,   \* conversations being accepted, with the datagrams buffered
  tasks,         \* accept_connection tasks in the loop, in order
  registered,    \* the updater knows the tunnel
  traffic, setbacks,
  ended,         \* history: sessions closed by their transport or found dead
  created,       \* history: how many sessions a conversation has had
  visited        \* history: the conversation the last tick updated, or 0

blockVars == <<state, ready, wait>>
acceptVars == <<accept_dict, tasks>>
serverVars == <<is_local, conns, endpoint>>
countVars == <<traffic, setbacks>>
histVars == <<ended, created, visited>>
vars == <<serverVars, conv, sessions, blockVars, active_sessions, finger,
          acceptVars, registered, countVars, histVars>>

Init ==
  /\ is_local \in Roles /\ conns = [conv |-> 0, size |-> 0]
  /\ endpoint = IF is_local THEN "served" ELSE "none"
  /\ conv = 1 /\ sessions = {}
  /\ state = [c \in Convs |-> 0] /\ ready = [c \in Convs |-> 0]
  /\ wait = [c \in Convs |-> -Interval]
  /\ active_sessions = {} /\ finger = 1
  /\ accept_dict = << >> /\ tasks = <<>> /\ registered = is_local
  /\ traffic = 0 /\ setbacks = 0
  /\ ended = {} /\ created = [c \in Convs |-> 0] /\ visited = 0

Busy == MaxTraffic[is_local] < 0 \/ traffic < MaxTraffic[is_local]
Count == traffic' = IF MaxTraffic[is_local] < 0 THEN 0 ELSE traffic + 1

With(f, c, n) == [x \in DOMAIN f \cup {c} |-> IF x = c THEN n ELSE f[x]]
Without(f, c) == [x \in DOMAIN f \ {c} |-> f[x]]

-----------------------------------------------------------------------------
(* The server socket.  The first datagram of a peer has the tunnel's       *)
(* endpoint created, which may fail; what comes before it is there is      *)
(* buffered.  What comes later is buffered too, and never looked at.       *)
ServerDatagram(c) ==
  /\ endpoint \in {"none", "creating", "made"} /\ conns.size <= BufferMax
  /\ endpoint' = IF endpoint = "none" THEN "creating" ELSE endpoint
  /\ conns' = [conv |-> IF conns.size = 0 THEN c ELSE conns.conv,
               size |-> conns.size + 1]
  /\ UNCHANGED <<is_local, conv, sessions, blockVars, active_sessions, finger,
                 acceptVars, registered, countVars, histVars>>

EndpointCreated ==
  /\ endpoint = "creating"
  /\ \/ endpoint' = "made" /\ registered' = TRUE
     \/ endpoint' = "failed" /\ UNCHANGED registered
  /\ UNCHANGED <<is_local, conns, conv, sessions, blockVars, active_sessions,
                 finger, acceptVars, countVars, histVars>>

-----------------------------------------------------------------------------
(* A new session, in place of an older one of the same conversation.       *)
NewSession(c, input) ==
  /\ sessions' = sessions \cup {c}
  /\ active_sessions' = active_sessions \cup {c}
  /\ state' = [state EXCEPT ![c] = 0]
  /\ ready' = [ready EXCEPT ![c] = input]
  /\ wait' = [wait EXCEPT ![c] = -Interval]
  /\ created' = [created EXCEPT ![c] = @ + 1]
  /\ ended' = ended \ {c}

(* open_pipe asks the local end for a connection. *)
CreateConnection ==
  /\ is_local /\ conv \in Convs
  /\ conv' = conv + 1
  /\ NewSession(conv, 0)
  /\ UNCHANGED <<serverVars, finger, acceptVars, registered, countVars, visited>>

(* The task that accepts a conversation on the server.  It never waits, so *)
(* it is one step of the loop; the buffered datagrams are put in, and they *)
(* may complete a message.                                                 *)
AcceptConnection ==
  /\ tasks # <<>> /\ endpoint # "made"
  /\ \E k \in 0..MaxReady :
       /\ k > 0 => Head(tasks) \in DOMAIN accept_dict
       /\ NewSession(Head(tasks), k)
  /\ accept_dict' = Without(accept_dict, Head(tasks))
  /\ tasks' = Tail(tasks)
  /\ UNCHANGED <<serverVars, conv, finger, registered, countVars, visited>>

-----------------------------------------------------------------------------
(* datagram_received, for a conversation with a session: at most one       *)
(* message is handed on, however many are ready.                           *)
DatagramToSession(c) ==
  /\ \E k \in 0..(MaxReady - ready[c]) :
       ready' = [ready EXCEPT ![c] = IF @ + k > 0 THEN @ + k - 1 ELSE 0]
  /\ active_sessions' = active_sessions \cup {c}
  /\ UNCHANGED acceptVars

\* mutation: the buffer has no limit
DatagramToAccept_NoLimit(c, size) ==
  /\ tasks' = IF c \in DOMAIN accept_dict THEN tasks ELSE Append(tasks, c)
  /\ accept_dict' = With(accept_dict, c,
       size + (IF c \in DOMAIN accept_dict THEN accept_dict[c] ELSE 0))
  /\ UNCHANGED <<ready, active_sessions>>

\* mutation: it is not noticed that the conversation is being accepted
DatagramToAccept_Always(c, size) ==
  /\ tasks' = Append(tasks, c)
  /\ accept_dict' = With(accept_dict, c, size)
  /\ UNCHANGED <<ready, active_sessions>>

(* ... for a conversation without one: it is accepted, or its datagram is  *)
(* kept for the task that accepts it.  A buffer that grows too large is    *)
(* thrown away.                                                            *)
DatagramToAccept(c, size) ==
  /\ IF c \notin DOMAIN accept_dict
     THEN /\ tasks' = Append(tasks, c)
          /\ accept_dict' = With(accept_dict, c, size)
     ELSE /\ UNCHANGED tasks
          /\ accept_dict' = IF accept_dict[c] + size > BufferMax
                            THEN Without(accept_dict, c)
                            ELSE With(accept_dict, c, accept_dict[c] + size)
  /\ UNCHANGED <<ready, active_sessions>>

datagram_received(c, size) ==
  /\ IF c \in sessions THEN DatagramToSession(c)
     ELSE IF is_local THEN UNCHANGED <<ready, active_sessions, accept_dict, tasks>>
     ELSE DatagramToAccept(c, size)
  /\ UNCHANGED <<is_local, conv, sessions, state, wait, finger,
                 registered, setbacks, histVars>>

(* A datagram is read from the socket of the tunnel.  The loop runs what   *)
(* was scheduled before it looks at the socket again, so an accept task    *)
(* runs before the next datagram is read.                                  *)
Datagram(c) ==
  /\ registered /\ Busy
  /\ tasks = <<>> \/ (endpoint = "now" /\ Len(tasks) = 1)
  /\ datagram_received(c, 1)
  /\ endpoint' = IF endpoint = "now" THEN "served" ELSE endpoint
  /\ Count /\ UNCHANGED conns

\* mutation: what came before is left at the server socket
HandOver_Nothing ==
  /\ endpoint = "made" /\ endpoint' = "served"
  /\ UNCHANGED <<is_local, conns, conv, sessions, blockVars, active_sessions,
                 finger, acceptVars, registered, countVars, histVars>>

(* connection_accepted_cb of the server socket hands over, as one datagram *)
(* of the first one's conversation, what it received from this peer before *)
(* the endpoint was made.  One datagram may have been read from the        *)
(* tunnel's own socket before.  If the hand-over starts an accept task,    *)
(* the loop may already have found the socket readable, and one more       *)
(* datagram is read before that task runs ("now").  The bytes stay in      *)
(* conns, where nothing reads them again.                                  *)
HandOver ==
  /\ endpoint = "made" /\ conns' = [conv |-> 0, size |-> 0]
  /\ datagram_received(conns.conv, conns.size)
  /\ endpoint' = IF tasks' = tasks THEN "served" ELSE "now"
  /\ UNCHANGED traffic

-----------------------------------------------------------------------------
(* The transport handed to the application.                                *)
MinusOne == (-1) % (WordMax + 1)   \* state is an IUINT32

Write(c) ==
  /\ created[c] > 0 /\ Busy
  /\ active_sessions' = active_sessions \cup {c}
  /\ Count
  /\ UNCHANGED <<serverVars, conv, sessions, blockVars, finger, acceptVars,
                 registered, setbacks, histVars>>

Close(c) ==
  /\ created[c] > 0 /\ c \notin ended
  /\ state' = [state EXCEPT ![c] = MinusOne]
  /\ ended' = ended \cup {c}
  /\ UNCHANGED <<serverVars, conv, sessions, ready, wait, active_sessions,
                 finger, acceptVars, registered, countVars, created, visited>>

ConnectionLost ==
  /\ registered /\ registered' = FALSE
  /\ sessions' = {} /\ accept_dict' = << >>
  /\ UNCHANGED <<serverVars, conv, blockVars, active_sessions, finger, tasks,
                 countVars, histVars>>

-----------------------------------------------------------------------------
(* Updater.update, once every interval: it pops one conversation, and when *)
(* there is none it puts back those that are due.                          *)

(* CPython's set of small integers pops the next one in cyclic order.      *)
Popped == LET ahead == {c \in active_sessions : c >= finger}
          IN Min(IF ahead = {} THEN active_sessions ELSE ahead)

\* mutation: the comparison is turned round
Due_NotYet(left) == {c \in sessions : left[c] > Interval}

\* mutation: only sessions with something to read are put back
Due_Readable(left) == {c \in sessions : ready[c] > 0 /\ left[c] < Interval}

Due(left) == {c \in sessions : left[c] < Interval}

(* What remains of every wait after the clock moved by d. *)
Left(d) == [c \in Convs |-> Max({wait[c] - d, -Interval})]

close_session(c) ==
  /\ sessions' = sessions \ {c}
  /\ active_sessions' = active_sessions \ {c}
  /\ UNCHANGED ready

(* The flush may find the link dead.  One message is handed on.            *)
UpdateSession(c, left) ==
  /\ \E dead \in BOOLEAN :
       /\ state' = IF dead THEN [state EXCEPT ![c] = MinusOne] ELSE state
       /\ ended' = IF dead THEN ended \cup {c} ELSE ended
  /\ IF state'[c] = -1
     THEN close_session(c) /\ wait' = left
     ELSE /\ ready' = [ready EXCEPT ![c] = IF @ > 0 THEN @ - 1 ELSE 0]
          /\ \E next \in 0..Interval : wait' = [left EXCEPT ![c] = next]
          /\ active_sessions' = active_sessions \ {c}
          /\ UNCHANGED sessions
  /\ visited' = c

(* The KeyError of an empty set, or of a conversation without a session.   *)
PutBack(rest, left) ==
  /\ active_sessions' = rest \cup Due(left)
  /\ wait' = left /\ visited' = 0
  /\ UNCHANGED <<sessions, state, ready, ended>>

Update ==
  /\ registered
  /\ \E d \in {Interval, -2 * Interval} :
       /\ d < 0 => setbacks < MaxSetBack[is_local]
       /\ setbacks' = IF d < 0 THEN setbacks + 1 ELSE setbacks
       /\ IF active_sessions = {} THEN PutBack({}, Left(d)) /\ UNCHANGED finger
          ELSE /\ finger' = Popped + 1
               /\ IF Popped \in sessions THEN UpdateSession(Popped, Left(d))
                  ELSE PutBack(active_sessions \ {Popped}, Left(d))
  /\ UNCHANGED <<serverVars, conv, acceptVars, registered, traffic, created>>

Next == \/ EndpointCreated \/ HandOver \/ CreateConnection \/ AcceptConnection
        \/ \E c \in Convs : ServerDatagram(c) \/ Datagram(c) \/ Write(c) \/ Close(c)
        \/ Update \/ ConnectionLost

Spec == Init /\ [][Next]_vars

(* The timer of the updater fires again and again, the loop runs what is   *)
(* scheduled, and an attempt to create an endpoint comes to an end.        *)
Fairness == /\ WF_vars(Update) /\ WF_vars(AcceptConnection)
            /\ WF_vars(EndpointCreated) /\ WF_vars(HandOver)

FairSpec == Spec /\ Fairness

-----------------------------------------------------------------------------
TypeOK ==
  /\ conv \in Nat /\ sessions \subseteq Convs /\ active_sessions \subseteq Convs
  /\ state \in [Convs -> 0..WordMax] /\ ready \in [Convs -> 0..MaxReady]
  /\ wait \in [Convs -> Int] /\ finger \in Nat
  /\ DOMAIN accept_dict \subseteq Convs
  /\ \A c \in DOMAIN accept_dict : accept_dict[c] \in 1..(BufferMax + 1)
  /\ tasks \in Seq(Convs)
  /\ is_local \in BOOLEAN /\ registered \in BOOLEAN
  /\ conns \in [conv : 0..MaxConv, size : 0..(BufferMax + 1)]
  /\ endpoint \in {"none", "creating", "made", "failed", "now", "served"}
  /\ traffic \in Nat /\ setbacks \in Nat
  /\ ended \subseteq Convs /\ created \in [Convs -> Nat] /\ visited \in 0..MaxConv

(* A conversation is accepted once: no session, with the data its control  *)
(* block holds, is replaced by a new one of the same number.               *)
SessionOnce == registered => \A c \in Convs : created[c] <= 1

(* Every conversation whose first datagram arrived gets a session, also    *)
(* when its buffer overflows before the accept task runs, and if that      *)
(* datagram came to the server socket: unless no endpoint can be created.  *)
Accepted ==
  \A c \in Convs : c \in DOMAIN accept_dict \/ conns.conv = c
                     ~> created[c] > 0 \/ endpoint = "failed"

Served(c) == registered /\ c \in sessions

(* Every session is updated again and again: after a burst of traffic of   *)
(* other sessions, and after the clock was set back.                       *)
UpdatedRepeatedly ==
  \A c \in Convs : Served(c) ~> visited = c \/ ~Served(c)

(* A message that can be read is handed to the stream in the end.          *)
HandedOn ==
  \A c \in Convs : Served(c) /\ ready[c] > 0 ~> ready[c] = 0 \/ ~Served(c)

(* protocols.py:59 sets the state of a closed transport to -1, and         *)
(* updater.py:27 closes the session of a control block in state -1.        *)
ClosedIsRemoved == \A c \in Convs : c \in ended ~> ~Served(c)
=============================================================================
