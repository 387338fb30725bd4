---------------------------- MODULE TunnelProofs ----------------------------
(***************************************************************************)
(* For every number of conversations, interval and buffer limit: a tunnel  *)
(* keeps its types, and while it is connected a conversation gets one      *)
(* session.                                                                *)
(***************************************************************************)
EXTENDS Tunnel, TLAPS, WellFoundedInduction

(* What waits at the server socket has a conversation.                     *)
Pending ==
  /\ conns.size >= 1 => conns.conv \in Convs
  /\ endpoint \in {"creating", "made"} => conns.size >= 1

(* The local end numbers its conversations itself and accepts none.        *)
Opening ==
  is_local => /\ endpoint = "served" /\ tasks = <<>> /\ DOMAIN accept_dict = {}
              /\ \A c \in Convs : created[c] <= (IF c < conv THEN 1 ELSE 0)

(* Nothing is accepted before the tunnel has an endpoint.                  *)
Closed ==
  endpoint \in {"none", "creating", "failed"} =>
    /\ ~registered /\ tasks = <<>> /\ DOMAIN accept_dict = {}
    /\ \A c \in Convs : created[c] = 0

(* A conversation either has its one session or waits for its one task;    *)
(* a task may have lost its buffer only where no datagram can be read      *)
(* before it runs.                                                         *)
Accepting ==
  ~is_local /\ registered =>
    /\ \A c \in Convs : created[c] <= 1 /\ (created[c] = 1 => c \in sessions)
    /\ IsInjective(tasks) /\ Range(tasks) \cap sessions = {}
    /\ DOMAIN accept_dict \subseteq Range(tasks)
    /\ endpoint # "served" => Range(tasks) \subseteq DOMAIN accept_dict

TunnelInv == TypeOK /\ Pending /\ Opening /\ Closed /\ Accepting

-----------------------------------------------------------------------------
LEMMA TunnelFacts ==
  /\ Roles \subseteq BOOLEAN /\ MaxConv \in Nat /\ Interval \in Nat \ {0}
  /\ BufferMax \in Nat \ {0} /\ WordMax \in Nat \ {0} /\ MaxReady \in Nat
  /\ Convs \subseteq Nat /\ Convs \subseteq 0..MaxConv
  /\ MinusOne \in 0..WordMax /\ 0 \in 0..WordMax
<1>1. \A n \in Nat \ {0} : (-1) % (n + 1) \in 0..n  OBVIOUS
<1> QED BY <1>1, TunnelAssumption DEF Convs, MinusOne

LEMMA MinimumExists ==
  ASSUME NEW S, S \subseteq Nat, S # {}
  PROVE  Min(S) \in S
<1> DEFINE R == OpToRel(<, Nat)
<1>1. IsWellFoundedOn(R, Nat)  BY NatLessThanWellFounded
<1>2. \A m, n \in Nat : m < n => <<m, n>> \in R  BY DEF OpToRel
<1> HIDE DEF R
<1>3. PICK m \in S : \A n \in S : ~(<<n, m>> \in R)  BY <1>1, WFMin
<1>4. \A n \in S : ~(n < m)  BY <1>2, <1>3, Zenon
<1>5. \A n \in S : m <= n  BY <1>4
<1> QED BY <1>5, Zenon DEF Min

LEMMA MaximumOfTwo ==
  ASSUME NEW a \in Int, NEW b \in Int
  PROVE  Max({a, b}) \in Int
<1>1. \E m \in {a, b} : \A n \in {a, b} : m >= n  OBVIOUS
<1>2. Max({a, b}) \in {a, b}  BY <1>1, Zenon DEF Max
<1> QED BY <1>2

LEMMA PoppedIsActive ==
  ASSUME TypeOK, active_sessions # {}
  PROVE  Popped \in active_sessions
<1> DEFINE ahead == {c \in active_sessions : c >= finger}
           S == IF ahead = {} THEN active_sessions ELSE ahead
<1>1. S \subseteq active_sessions /\ S # {}  OBVIOUS
<1>2. S \subseteq Nat  BY <1>1, TunnelFacts DEF TypeOK
<1>3. Popped = Min(S)  BY DEF Popped
<1> HIDE DEF S
<1> QED BY <1>1, <1>2, <1>3, MinimumExists

LEMMA LeftType == ASSUME TypeOK, NEW d \in Int PROVE Left(d) \in [Convs -> Int]
<1>1. \A c \in Convs : wait[c] - d \in Int /\ -Interval \in Int
  BY TunnelFacts DEF TypeOK
<1> QED BY <1>1, MaximumOfTwo DEF Left

LEMMA EmptyDomain == DOMAIN << >> = {}
OBVIOUS

(* The conversations in the loop, in order.                                *)
LEMMA TailOf ==
  ASSUME NEW s \in Seq(Convs), s # <<>>
  PROVE  /\ Head(s) \in Convs /\ Tail(s) \in Seq(Convs)
         /\ IsInjective(s) => /\ IsInjective(Tail(s))
                              /\ Range(Tail(s)) = Range(s) \ {Head(s)}
<1> DEFINE t == Tail(s)
<1>1. PICK n \in Nat : n = Len(s) /\ n >= 1 /\ s[1] \in Convs  OBVIOUS
<1>2. Head(s) = s[1] /\ DOMAIN s = 1..n  BY <1>1
<1>3. t \in Seq(Convs) /\ DOMAIN t = 1..(n - 1) /\ \A i \in 1..(n - 1) : t[i] = s[i + 1]
  BY <1>1
<1> HIDE DEF t
<1>4. ASSUME IsInjective(s) PROVE IsInjective(t) /\ Range(t) = Range(s) \ {Head(s)}
  <2>1. IsInjective(t)
    <3>1. ASSUME NEW i \in 1..(n - 1), NEW j \in 1..(n - 1), t[i] = t[j] PROVE i = j
      <4>1. i + 1 \in 1..n /\ j + 1 \in 1..n  BY <1>1
      <4>2. s[i + 1] = s[j + 1]  BY <1>3, <3>1
      <4>3. i + 1 = j + 1  BY <1>2, <1>4, <4>1, <4>2 DEF IsInjective
      <4> QED BY <4>3
    <3> QED BY <1>3, <3>1 DEF IsInjective
  <2>2. ASSUME NEW i \in 1..(n - 1) PROVE t[i] \in Range(s) /\ t[i] # Head(s)
    <3>1. i + 1 \in 1..n /\ 1 \in 1..n /\ i + 1 # 1  BY <1>1
    <3> QED BY <1>2, <1>3, <1>4, <3>1 DEF IsInjective, Range
  <2>3. ASSUME NEW j \in 1..n, s[j] # Head(s) PROVE \E i \in 1..(n - 1) : t[i] = s[j]
    <3>1. j # 1  BY <1>2, <2>3
    <3>2. j - 1 \in 1..(n - 1) /\ j = (j - 1) + 1  BY <1>1, <3>1
    <3> QED BY <1>3, <3>2
  <2> QED BY <1>2, <1>3, <2>1, <2>2, <2>3 DEF Range
<1> QED BY <1>1, <1>2, <1>3, <1>4 DEF t

LEMMA AppendTo ==
  ASSUME NEW s \in Seq(Convs), NEW c \in Convs
  PROVE  /\ Append(s, c) \in Seq(Convs) /\ Append(s, c) # s
         /\ Range(Append(s, c)) = Range(s) \cup {c}
         /\ IsInjective(s) /\ c \notin Range(s) => IsInjective(Append(s, c))
<1> DEFINE t == Append(s, c)
<1>1. PICK n \in Nat : n = Len(s)  OBVIOUS
<1>2. /\ t \in Seq(Convs) /\ DOMAIN t = 1..(n + 1) /\ DOMAIN s = 1..n /\ Len(t) = n + 1
      /\ t[n + 1] = c /\ \A i \in 1..n : t[i] = s[i]
  BY <1>1
<1> HIDE DEF t
<1>3. t # s  BY <1>1, <1>2
<1>4. 1..(n + 1) = 1..n \cup {n + 1}  BY <1>1
<1>5. Range(t) = Range(s) \cup {c}  BY <1>2, <1>4 DEF Range
<1>6. ASSUME IsInjective(s), c \notin Range(s) PROVE IsInjective(t)
  BY <1>2, <1>4, <1>6 DEF IsInjective, Range
<1> QED BY <1>2, <1>3, <1>5, <1>6 DEF t

LEMMA EmptyRange == Range(<<>>) = {} /\ IsInjective(<<>>)
BY EmptyDomain DEF Range, IsInjective

(* The buffers after one was set, or was dropped.                          *)
LEMMA WithType ==
  ASSUME TypeOK, NEW c \in Convs, NEW n \in 1..(BufferMax + 1),
         accept_dict' = With(accept_dict, c, n)
  PROVE  /\ DOMAIN accept_dict' = DOMAIN accept_dict \cup {c}
         /\ DOMAIN accept_dict' \subseteq Convs
         /\ \A x \in DOMAIN accept_dict' : accept_dict'[x] \in 1..(BufferMax + 1)
<1>1. /\ DOMAIN accept_dict \subseteq Convs
      /\ \A x \in DOMAIN accept_dict : accept_dict[x] \in 1..(BufferMax + 1)
  BY DEF TypeOK
<1> QED BY <1>1 DEF With

LEMMA WithoutType ==
  ASSUME TypeOK, NEW c \in Convs, accept_dict' = Without(accept_dict, c)
  PROVE  /\ DOMAIN accept_dict' = DOMAIN accept_dict \ {c}
         /\ DOMAIN accept_dict' \subseteq Convs
         /\ \A x \in DOMAIN accept_dict' : accept_dict'[x] \in 1..(BufferMax + 1)
<1>1. /\ DOMAIN accept_dict \subseteq Convs
      /\ \A x \in DOMAIN accept_dict : accept_dict[x] \in 1..(BufferMax + 1)
  BY DEF TypeOK
<1> QED BY <1>1 DEF Without

-----------------------------------------------------------------------------
LEMMA TunnelInit == Init => TunnelInv
<1> SUFFICES ASSUME Init PROVE TunnelInv  OBVIOUS
<1>1. TypeOK
  BY TunnelFacts, EmptyDomain DEF Init, TypeOK
<1> QED
  BY <1>1, TunnelFacts, EmptyDomain, EmptyRange
     DEF Init, TunnelInv, Pending, Opening, Closed, Accepting, TypeOK

(* What a datagram of conversation c leaves of the accepting.              *)
LEMMA DatagramTypes ==
  ASSUME TunnelInv, NEW c \in Convs, NEW size \in 1..(BufferMax + 1),
         datagram_received(c, size)
  PROVE  /\ active_sessions' \subseteq Convs /\ ready' \in [Convs -> 0..MaxReady]
         /\ DOMAIN accept_dict' \subseteq Convs
         /\ \A x \in DOMAIN accept_dict' : accept_dict'[x] \in 1..(BufferMax + 1)
         /\ tasks' \in Seq(Convs)
         /\ UNCHANGED <<is_local, conv, sessions, state, wait, finger,
                        registered, setbacks, histVars>>
<1>0. TypeOK  BY DEF TunnelInv
<1>1. UNCHANGED <<is_local, conv, sessions, state, wait, finger, registered,
                  setbacks, histVars>>
  BY DEF datagram_received
<1>2. CASE DatagramToSession(c)
  <2>1. PICK k \in 0..(MaxReady - ready[c]) :
          ready' = [ready EXCEPT ![c] = IF @ + k > 0 THEN @ + k - 1 ELSE 0]
    BY <1>2 DEF DatagramToSession
  <2>2. ready[c] \in 0..MaxReady /\ ready \in [Convs -> 0..MaxReady]  BY <1>0 DEF TypeOK
  <2>3. (IF ready[c] + k > 0 THEN ready[c] + k - 1 ELSE 0) \in 0..MaxReady
    BY <2>2, TunnelFacts
  <2>4. ready' \in [Convs -> 0..MaxReady]  BY <2>1, <2>2, <2>3
  <2> QED BY <1>0, <1>1, <1>2, <2>4 DEF DatagramToSession, acceptVars, TypeOK
<1>3. CASE UNCHANGED <<ready, active_sessions, accept_dict, tasks>>
  BY <1>0, <1>1, <1>3 DEF TypeOK
<1>4. CASE DatagramToAccept(c, size)
  <2>1. UNCHANGED <<ready, active_sessions>>  BY <1>4 DEF DatagramToAccept
  <2>2. CASE c \notin DOMAIN accept_dict
    <3>1. tasks' = Append(tasks, c) /\ accept_dict' = With(accept_dict, c, size)
      BY <1>4, <2>2 DEF DatagramToAccept
    <3>2. tasks' \in Seq(Convs)  BY <1>0, <3>1, AppendTo DEF TypeOK
    <3> QED BY <1>0, <1>1, <2>1, <3>1, <3>2, WithType DEF TypeOK
  <2>3. CASE c \in DOMAIN accept_dict /\ accept_dict[c] + size > BufferMax
    <3>1. tasks' = tasks /\ accept_dict' = Without(accept_dict, c)
      BY <1>4, <2>3 DEF DatagramToAccept
    <3> QED BY <1>0, <1>1, <2>1, <3>1, WithoutType DEF TypeOK
  <2>4. CASE c \in DOMAIN accept_dict /\ ~(accept_dict[c] + size > BufferMax)
    <3>1. tasks' = tasks /\ accept_dict' = With(accept_dict, c, accept_dict[c] + size)
      BY <1>4, <2>4 DEF DatagramToAccept
    <3>2. accept_dict[c] + size \in 1..(BufferMax + 1)
      BY <1>0, <2>4, TunnelFacts DEF TypeOK
    <3> QED BY <1>0, <1>1, <2>1, <3>1, <3>2, WithType DEF TypeOK
  <2> QED BY <2>2, <2>3, <2>4
<1> QED BY <1>2, <1>3, <1>4 DEF datagram_received

(* ... and where it leaves them: nothing is added to the tasks but a       *)
(* conversation that has neither a session nor a task.                     *)
LEMMA DatagramAccepts ==
  ASSUME TunnelInv, NEW c \in Convs, NEW size \in 1..(BufferMax + 1),
         datagram_received(c, size), ~is_local, registered,
         endpoint # "served" \/ tasks = <<>>
  PROVE  /\ IsInjective(tasks') /\ Range(tasks') \cap sessions = {}
         /\ DOMAIN accept_dict' \subseteq Range(tasks')
         /\ tasks' # tasks => (endpoint # "served" => Range(tasks') \subseteq DOMAIN accept_dict')
<1>0. /\ IsInjective(tasks) /\ Range(tasks) \cap sessions = {}
      /\ DOMAIN accept_dict \subseteq Range(tasks)
      /\ endpoint # "served" => Range(tasks) \subseteq DOMAIN accept_dict
      /\ tasks \in Seq(Convs)
  BY DEF TunnelInv, Accepting, TypeOK
<1>1. Range(tasks) \subseteq DOMAIN accept_dict  BY <1>0, EmptyRange
<1>2. CASE UNCHANGED acceptVars  BY <1>0, <1>2 DEF acceptVars
<1>3. CASE c \notin sessions /\ c \notin DOMAIN accept_dict
  <2>1. tasks' = Append(tasks, c) /\ accept_dict' = With(accept_dict, c, size)
    BY <1>3 DEF datagram_received, DatagramToAccept
  <2>2. c \notin Range(tasks)  BY <1>1, <1>3
  <2>3. IsInjective(tasks') /\ Range(tasks') = Range(tasks) \cup {c}
    BY <1>0, <2>1, <2>2, AppendTo
  <2>4. DOMAIN accept_dict' = DOMAIN accept_dict \cup {c}  BY <2>1 DEF With
  <2> QED BY <1>0, <1>1, <1>3, <2>3, <2>4
<1>4. CASE c \notin sessions /\ c \in DOMAIN accept_dict
  <2>1. /\ tasks' = tasks
        /\ \/ accept_dict' = Without(accept_dict, c)
           \/ accept_dict' = With(accept_dict, c, accept_dict[c] + size)
    BY <1>4 DEF datagram_received, DatagramToAccept
  <2>2. DOMAIN accept_dict' \subseteq DOMAIN accept_dict  BY <1>4, <2>1 DEF With, Without
  <2> QED BY <1>0, <2>1, <2>2
<1>5. CASE c \in sessions
  <2>1. UNCHANGED acceptVars  BY <1>5 DEF datagram_received, DatagramToSession
  <2> QED BY <1>2, <2>1
<1> QED BY <1>3, <1>4, <1>5

(* A new session keeps the types.                                          *)
LEMMA NewSessionTypes ==
  ASSUME TypeOK, NEW c \in Convs, NEW k \in 0..MaxReady, NewSession(c, k)
  PROVE  /\ sessions' = sessions \cup {c} /\ sessions' \subseteq Convs
         /\ active_sessions' \subseteq Convs /\ ended' \subseteq Convs
         /\ state' \in [Convs -> 0..WordMax] /\ ready' \in [Convs -> 0..MaxReady]
         /\ wait' \in [Convs -> Int] /\ created' \in [Convs -> Nat]
         /\ created'[c] = created[c] + 1
         /\ \A x \in Convs : x # c => created'[x] = created[x]
<1>1. -Interval \in Int /\ 0 \in 0..WordMax  BY TunnelFacts
<1> QED BY <1>1 DEF NewSession, TypeOK

(* A tick closes no session: the state of a control block is an unsigned   *)
(* word, which is never -1.                                                *)
LEMMA UpdateTypes ==
  ASSUME TypeOK, Update
  PROVE  /\ UNCHANGED <<serverVars, conv, acceptVars, registered, traffic, created>>
         /\ UNCHANGED sessions
         /\ active_sessions' \subseteq Convs /\ ended' \subseteq Convs
         /\ state' \in [Convs -> 0..WordMax] /\ ready' \in [Convs -> 0..MaxReady]
         /\ wait' \in [Convs -> Int] /\ finger' \in Nat
         /\ setbacks' \in Nat /\ visited' \in 0..MaxConv
<1>1. PICK d \in {Interval, -2 * Interval} :
        /\ setbacks' = IF d < 0 THEN setbacks + 1 ELSE setbacks
        /\ IF active_sessions = {} THEN PutBack({}, Left(d)) /\ UNCHANGED finger
           ELSE /\ finger' = Popped + 1
                /\ IF Popped \in sessions THEN UpdateSession(Popped, Left(d))
                   ELSE PutBack(active_sessions \ {Popped}, Left(d))
  BY DEF Update
<1>2. d \in Int  BY <1>1, TunnelFacts
<1>3. PICK left \in [Convs -> Int] : left = Left(d)  BY <1>2, LeftType
<1>4. UNCHANGED <<serverVars, conv, acceptVars, registered, traffic, created>>
  BY DEF Update
<1>5. setbacks' \in Nat  BY <1>1 DEF TypeOK
<1>6. ASSUME NEW rest \in SUBSET active_sessions, PutBack(rest, left)
      PROVE  /\ UNCHANGED sessions
             /\ active_sessions' \subseteq Convs /\ ended' \subseteq Convs
             /\ state' \in [Convs -> 0..WordMax] /\ ready' \in [Convs -> 0..MaxReady]
             /\ wait' \in [Convs -> Int] /\ visited' \in 0..MaxConv
  <2>1. UNCHANGED <<sessions, state, ready, ended>> /\ wait' = left
    BY <1>6 DEF PutBack
  <2>2. active_sessions' \subseteq Convs  BY <1>6 DEF PutBack, Due, TypeOK
  <2>3. visited' \in 0..MaxConv
    <3>1. 0 \in 0..MaxConv  BY TunnelFacts
    <3> QED BY <1>6, <3>1 DEF PutBack
  <2> QED BY <2>1, <2>2, <2>3 DEF TypeOK
<1>7. CASE active_sessions = {}
  BY <1>1, <1>3, <1>4, <1>5, <1>6, <1>7, TunnelFacts DEF TypeOK
<1>8. CASE active_sessions # {}
  <2>1. PICK c \in Convs : c = Popped  BY <1>8, PoppedIsActive DEF TypeOK
  <2>2. c \in Nat /\ c \in 0..MaxConv /\ finger' = c + 1  BY <1>1, <1>8, <2>1, TunnelFacts
  <2>3. CASE c \notin sessions
    <3>1. PutBack(active_sessions \ {c}, left)  BY <1>1, <1>3, <1>8, <2>1, <2>3
    <3>2. active_sessions \ {c} \in SUBSET active_sessions  OBVIOUS
    <3>3. finger' \in Nat  BY <2>2
    <3> QED BY <1>4, <1>5, <1>6, <3>1, <3>2, <3>3
  <2>4. CASE c \in sessions
    <3>1. UpdateSession(c, left)  BY <1>1, <1>3, <1>8, <2>1, <2>4
    <3>2. visited' = c  BY <3>1 DEF UpdateSession
    <3>3. state' \in [Convs -> 0..WordMax] /\ ended' \subseteq Convs
      BY <3>1, TunnelFacts DEF UpdateSession, TypeOK
    <3>4. state'[c] # -1  BY <3>3, TunnelFacts
    <3>5. /\ ready' = [ready EXCEPT ![c] = IF @ > 0 THEN @ - 1 ELSE 0]
          /\ \E next \in 0..Interval : wait' = [left EXCEPT ![c] = next]
          /\ active_sessions' = active_sessions \ {c}
          /\ UNCHANGED sessions
      BY <3>1, <3>4 DEF UpdateSession
    <3>6. ready' \in [Convs -> 0..MaxReady]
      <4>1. ready[c] \in 0..MaxReady  BY DEF TypeOK
      <4>2. (IF ready[c] > 0 THEN ready[c] - 1 ELSE 0) \in 0..MaxReady  BY <4>1, TunnelFacts
      <4> QED BY <3>5, <4>2 DEF TypeOK
    <3>7. wait' \in [Convs -> Int]  BY <3>5
    <3> QED BY <1>4, <1>5, <2>2, <3>2, <3>3, <3>5, <3>6, <3>7 DEF TypeOK
  <2> QED BY <2>3, <2>4
<1> QED BY <1>7, <1>8

-----------------------------------------------------------------------------
LEMMA ServerDatagramStep ==
  ASSUME TunnelInv, NEW c \in Convs, ServerDatagram(c)
  PROVE  TunnelInv'
<1>1. /\ endpoint \in {"none", "creating", "made"} /\ conns.size <= BufferMax
      /\ endpoint' = IF endpoint = "none" THEN "creating" ELSE endpoint
      /\ conns' = [conv |-> IF conns.size = 0 THEN c ELSE conns.conv,
                   size |-> conns.size + 1]
      /\ UNCHANGED <<is_local, conv, sessions, blockVars, active_sessions, finger,
                     acceptVars, registered, countVars, histVars>>
  BY DEF ServerDatagram
<1>2. conns.size \in 0..(BufferMax + 1) /\ conns.conv \in 0..MaxConv
  BY DEF TunnelInv, TypeOK
<1>3. /\ conns'.size = conns.size + 1 /\ conns'.size \in 1..(BufferMax + 1)
      /\ conns'.conv = (IF conns.size = 0 THEN c ELSE conns.conv)
  BY <1>1, <1>2, TunnelFacts
<1>4. conns'.conv \in Convs  BY <1>2, <1>3 DEF TunnelInv, Pending
<1>5. conns' \in [conv : 0..MaxConv, size : 0..(BufferMax + 1)]
  BY <1>1, <1>2, <1>3, <1>4, TunnelFacts
<1>6. TypeOK'
  BY <1>1, <1>5 DEF TunnelInv, TypeOK, blockVars, acceptVars, countVars, histVars
<1>7. Pending'  BY <1>3, <1>4 DEF Pending
<1>8. Opening' /\ Closed' /\ Accepting'
  BY <1>1 DEF TunnelInv, Opening, Closed, Accepting, blockVars, acceptVars, histVars
<1> QED BY <1>6, <1>7, <1>8 DEF TunnelInv

LEMMA EndpointCreatedStep == TunnelInv /\ EndpointCreated => TunnelInv'
<1> SUFFICES ASSUME TunnelInv, EndpointCreated PROVE TunnelInv'  OBVIOUS
<1>1. /\ endpoint = "creating"
      /\ \/ endpoint' = "made" /\ registered' = TRUE
         \/ endpoint' = "failed" /\ UNCHANGED registered
      /\ UNCHANGED <<is_local, conns, conv, sessions, blockVars, active_sessions,
                     finger, acceptVars, countVars, histVars>>
  BY DEF EndpointCreated
<1>2. TypeOK'
  BY <1>1 DEF TunnelInv, TypeOK, blockVars, acceptVars, countVars, histVars
<1>3. Pending' /\ Opening' /\ Closed'
  BY <1>1 DEF TunnelInv, Pending, Opening, Closed, blockVars, acceptVars, histVars
<1>4. Accepting'
  <2>1. tasks = <<>> /\ DOMAIN accept_dict = {} /\ \A c \in Convs : created[c] = 0
    BY <1>1 DEF TunnelInv, Closed
  <2>2. UNCHANGED <<tasks, accept_dict, created>>  BY <1>1 DEF acceptVars, histVars
  <2> QED BY <2>1, <2>2, EmptyRange DEF Accepting
<1> QED BY <1>2, <1>3, <1>4 DEF TunnelInv

LEMMA CreateConnectionStep == TunnelInv /\ CreateConnection => TunnelInv'
<1> SUFFICES ASSUME TunnelInv, CreateConnection PROVE TunnelInv'  OBVIOUS
<1>1. /\ is_local /\ conv \in Convs /\ conv' = conv + 1 /\ NewSession(conv, 0)
      /\ UNCHANGED <<serverVars, finger, acceptVars, registered, countVars, visited>>
  BY DEF CreateConnection
<1>2. TypeOK /\ 0 \in 0..MaxReady /\ conv \in Nat  BY <1>1, TunnelFacts DEF TunnelInv
<1>3. /\ sessions' \subseteq Convs
      /\ active_sessions' \subseteq Convs /\ ended' \subseteq Convs
      /\ state' \in [Convs -> 0..WordMax] /\ ready' \in [Convs -> 0..MaxReady]
      /\ wait' \in [Convs -> Int] /\ created' \in [Convs -> Nat]
      /\ created'[conv] = created[conv] + 1
      /\ \A x \in Convs : x # conv => created'[x] = created[x]
  BY <1>1, <1>2, NewSessionTypes
<1>4. TypeOK'
  <2>1. conv' \in Nat  BY <1>1, <1>2
  <2>2. UNCHANGED <<serverVars, finger, acceptVars, registered, countVars, visited>>
    BY <1>1
  <2> QED BY <1>2, <1>3, <2>1, <2>2 DEF TypeOK, serverVars, acceptVars, countVars
<1>5. Opening'
  <2>1. \A c \in Convs : created[c] <= (IF c < conv THEN 1 ELSE 0)
    BY <1>1 DEF TunnelInv, Opening
  <2>2. \A c \in Convs : created[c] \in Nat /\ c \in Nat  BY <1>2, TunnelFacts DEF TypeOK
  <2>3. created[conv] = 0  BY <1>1, <1>2, <2>1, <2>2
  <2>4. ASSUME NEW c \in Convs PROVE created'[c] <= (IF c < conv' THEN 1 ELSE 0)
    <3>1. CASE c = conv  BY <1>1, <1>2, <1>3, <2>3, <3>1
    <3>2. CASE c # conv
      <4>1. created'[c] = created[c] /\ created[c] <= (IF c < conv THEN 1 ELSE 0)
        BY <1>3, <2>1, <3>2
      <4> QED BY <1>1, <1>2, <2>2, <4>1
    <3> QED BY <3>1, <3>2
  <2> QED BY <1>1, <2>4 DEF TunnelInv, Opening, serverVars, acceptVars
<1>6. Pending' /\ Closed' /\ Accepting'
  BY <1>1 DEF TunnelInv, Pending, Opening, Closed, Accepting, serverVars
<1> QED BY <1>4, <1>5, <1>6 DEF TunnelInv

LEMMA AcceptConnectionStep == TunnelInv /\ AcceptConnection => TunnelInv'
<1> SUFFICES ASSUME TunnelInv, AcceptConnection PROVE TunnelInv'  OBVIOUS
<1>0. TypeOK  BY DEF TunnelInv
<1>1. PICK k \in 0..MaxReady : NewSession(Head(tasks), k)
  BY DEF AcceptConnection
<1>2. /\ tasks # <<>> /\ endpoint # "made"
      /\ accept_dict' = Without(accept_dict, Head(tasks)) /\ tasks' = Tail(tasks)
      /\ UNCHANGED <<serverVars, conv, finger, registered, countVars, visited>>
  BY DEF AcceptConnection
<1>3. PICK c \in Convs : c = Head(tasks)  BY <1>0, <1>2, TailOf DEF TypeOK
<1>4. /\ sessions' = sessions \cup {c} /\ sessions' \subseteq Convs
      /\ active_sessions' \subseteq Convs /\ ended' \subseteq Convs
      /\ state' \in [Convs -> 0..WordMax] /\ ready' \in [Convs -> 0..MaxReady]
      /\ wait' \in [Convs -> Int] /\ created' \in [Convs -> Nat]
      /\ created'[c] = created[c] + 1
      /\ \A x \in Convs : x # c => created'[x] = created[x]
  BY <1>0, <1>1, <1>3, NewSessionTypes
<1>5. /\ tasks' \in Seq(Convs)
      /\ IsInjective(tasks) => IsInjective(tasks') /\ Range(tasks') = Range(tasks) \ {c}
      /\ c \in Range(tasks)
  <2>1. 1 \in DOMAIN tasks /\ Head(tasks) = tasks[1]  BY <1>0, <1>2 DEF TypeOK
  <2> QED BY <1>0, <1>2, <1>3, <2>1, TailOf DEF TypeOK, Range
<1>6. /\ DOMAIN accept_dict' = DOMAIN accept_dict \ {c}
      /\ DOMAIN accept_dict' \subseteq Convs
      /\ \A x \in DOMAIN accept_dict' : accept_dict'[x] \in 1..(BufferMax + 1)
  BY <1>0, <1>2, <1>3, WithoutType
<1>7. TypeOK'
  BY <1>0, <1>2, <1>4, <1>5, <1>6 DEF TypeOK, serverVars, countVars
<1>8. Pending' /\ Opening' /\ Closed'
  BY <1>2 DEF TunnelInv, Pending, Opening, Closed, serverVars
<1>9. Accepting'
  <2> SUFFICES ASSUME ~is_local, registered PROVE Accepting'
    BY <1>2 DEF Accepting, serverVars
  <2>1. /\ \A x \in Convs : created[x] <= 1 /\ (created[x] = 1 => x \in sessions)
        /\ IsInjective(tasks) /\ Range(tasks) \cap sessions = {}
        /\ DOMAIN accept_dict \subseteq Range(tasks)
        /\ endpoint # "served" => Range(tasks) \subseteq DOMAIN accept_dict
    BY DEF TunnelInv, Accepting
  <2>2. created[c] = 0  BY <1>0, <1>5, <2>1 DEF TypeOK
  <2>3. \A x \in Convs : created'[x] <= 1 /\ (created'[x] = 1 => x \in sessions')
    BY <1>4, <2>1, <2>2
  <2> QED BY <1>2, <1>4, <1>5, <1>6, <2>1, <2>3 DEF Accepting, serverVars
<1> QED BY <1>7, <1>8, <1>9 DEF TunnelInv

(* What a datagram leaves of the accepting, whoever hands it over.         *)
LEMMA DatagramAccepting ==
  ASSUME TunnelInv, NEW c \in Convs, NEW size \in 1..(BufferMax + 1),
         datagram_received(c, size),
         endpoint # "served" \/ tasks = <<>>,
         endpoint \in {"made", "now", "served"},
         endpoint' \in {"made", "now", "served"},
         tasks' = tasks => endpoint' = "served" \/ tasks = <<>>,
         endpoint = "served" => endpoint' = "served"
  PROVE  Opening' /\ Closed' /\ Accepting'
<1>1. UNCHANGED <<is_local, conv, sessions, registered, created>>
  BY DEF datagram_received, histVars
<1>2. Opening'
  <2>1. CASE is_local
    <3>1. endpoint = "served"  BY <2>1 DEF TunnelInv, Opening
    <3>2. UNCHANGED acceptVars
      BY <2>1 DEF datagram_received, DatagramToSession, acceptVars
    <3>3. endpoint' = "served"  BY <3>1
    <3> QED BY <1>1, <3>2, <3>3 DEF TunnelInv, Opening, acceptVars
  <2>2. CASE ~is_local  BY <1>1, <2>2 DEF Opening
  <2> QED BY <2>1, <2>2
<1>3. Accepting'
  <2> SUFFICES ASSUME ~is_local, registered PROVE Accepting'
    BY <1>1 DEF Accepting
  <2>1. /\ IsInjective(tasks') /\ Range(tasks') \cap sessions = {}
        /\ DOMAIN accept_dict' \subseteq Range(tasks')
        /\ tasks' # tasks => (endpoint # "served" => Range(tasks') \subseteq DOMAIN accept_dict')
    BY DatagramAccepts
  <2>2. tasks' = <<>> => Range(tasks') = {}  BY EmptyRange
  <2>3. endpoint' # "served" => Range(tasks') \subseteq DOMAIN accept_dict'
    BY <2>1, <2>2
  <2>4. \A x \in Convs : created[x] <= 1 /\ (created[x] = 1 => x \in sessions)
    BY DEF TunnelInv, Accepting
  <2> QED BY <1>1, <2>1, <2>3, <2>4 DEF Accepting
<1> QED BY <1>2, <1>3 DEF Closed

(* A datagram of the tunnel's own socket. *)
LEMMA DatagramStep ==
  ASSUME TunnelInv, NEW c \in Convs, Datagram(c)
  PROVE  TunnelInv'
<1>0. TypeOK  BY DEF TunnelInv
<1>1. /\ registered
      /\ tasks = <<>> \/ endpoint = "now"
      /\ datagram_received(c, 1)
      /\ endpoint' = IF endpoint = "now" THEN "served" ELSE endpoint
      /\ UNCHANGED conns
      /\ traffic' = IF MaxTraffic[is_local] < 0 THEN 0 ELSE traffic + 1
  BY DEF Datagram, Count
<1>2. 1 \in 1..(BufferMax + 1)  BY TunnelFacts
<1>3. endpoint \in {"made", "now", "served"} /\ endpoint' \in {"made", "now", "served"}
  BY <1>0, <1>1 DEF TunnelInv, Closed, TypeOK
<1>4. Opening' /\ Closed' /\ Accepting'
  BY <1>1, <1>2, <1>3, DatagramAccepting
<1>5. traffic' \in Nat  BY <1>0, <1>1 DEF TypeOK
<1>6. TypeOK'
  <2>1. /\ active_sessions' \subseteq Convs /\ ready' \in [Convs -> 0..MaxReady]
        /\ DOMAIN accept_dict' \subseteq Convs
        /\ \A x \in DOMAIN accept_dict' : accept_dict'[x] \in 1..(BufferMax + 1)
        /\ tasks' \in Seq(Convs)
        /\ UNCHANGED <<is_local, conv, sessions, state, wait, finger, registered,
                       setbacks, histVars>>
    BY <1>1, <1>2, DatagramTypes
  <2>2. UNCHANGED conns /\ endpoint' \in {"made", "now", "served"}  BY <1>1, <1>3
  <2> QED BY <1>0, <1>5, <2>1, <2>2 DEF TypeOK, histVars
<1>7. Pending'  BY <1>1 DEF TunnelInv, Pending
<1> QED BY <1>4, <1>6, <1>7 DEF TunnelInv

LEMMA HandOverStep == TunnelInv /\ HandOver => TunnelInv'
<1> SUFFICES ASSUME TunnelInv, HandOver PROVE TunnelInv'  OBVIOUS
<1>0. TypeOK  BY DEF TunnelInv
<1>1. /\ endpoint = "made" /\ conns' = [conv |-> 0, size |-> 0]
      /\ datagram_received(conns.conv, conns.size)
      /\ endpoint' = IF tasks' = tasks THEN "served" ELSE "now"
      /\ UNCHANGED traffic
  BY DEF HandOver
<1>2. PICK c \in Convs, size \in 1..(BufferMax + 1) : c = conns.conv /\ size = conns.size
  <2>1. conns.size >= 1 /\ conns.conv \in Convs  BY <1>1 DEF TunnelInv, Pending
  <2>2. conns.size \in 0..(BufferMax + 1)  BY <1>0 DEF TypeOK
  <2> QED BY <2>1, <2>2
<1>3. datagram_received(c, size)  BY <1>1, <1>2
<1>4. Opening' /\ Closed' /\ Accepting'
  BY <1>1, <1>3, DatagramAccepting
<1>5. conns' \in [conv : 0..MaxConv, size : 0..(BufferMax + 1)] /\ conns'.size = 0
  BY <1>1, TunnelFacts
<1>6. TypeOK'
  <2>1. /\ active_sessions' \subseteq Convs /\ ready' \in [Convs -> 0..MaxReady]
        /\ DOMAIN accept_dict' \subseteq Convs
        /\ \A x \in DOMAIN accept_dict' : accept_dict'[x] \in 1..(BufferMax + 1)
        /\ tasks' \in Seq(Convs)
        /\ UNCHANGED <<is_local, conv, sessions, state, wait, finger, registered,
                       setbacks, histVars>>
    BY <1>3, DatagramTypes
  <2>2. endpoint' \in {"made", "now", "served"} /\ UNCHANGED traffic  BY <1>1
  <2> QED BY <1>0, <1>5, <2>1, <2>2 DEF TypeOK, histVars
<1>7. Pending'  BY <1>1, <1>5 DEF Pending
<1> QED BY <1>4, <1>6, <1>7 DEF TunnelInv

(* Writing, closing, losing the connection, and a tick.                    *)
LEMMA OtherSteps ==
  ASSUME TunnelInv,
         (\E c \in Convs : Write(c) \/ Close(c)) \/ ConnectionLost \/ Update
  PROVE  TunnelInv'
<1>0. TypeOK  BY DEF TunnelInv
<1>1. ASSUME NEW c \in Convs, Write(c) PROVE TunnelInv'
  <2>1. /\ active_sessions' = active_sessions \cup {c}
        /\ traffic' = IF MaxTraffic[is_local] < 0 THEN 0 ELSE traffic + 1
        /\ UNCHANGED <<serverVars, conv, sessions, blockVars, finger, acceptVars,
                       registered, setbacks, histVars>>
    BY <1>1 DEF Write, Count
  <2>2. traffic' \in Nat /\ active_sessions' \subseteq Convs  BY <1>0, <2>1 DEF TypeOK
  <2>3. TypeOK'
    BY <1>0, <2>1, <2>2 DEF TypeOK, serverVars, blockVars, acceptVars, histVars
  <2> QED
    BY <2>1, <2>3 DEF TunnelInv, Pending, Opening, Closed, Accepting, serverVars,
                      acceptVars, histVars
<1>2. ASSUME NEW c \in Convs, Close(c) PROVE TunnelInv'
  <2>1. /\ state' = [state EXCEPT ![c] = MinusOne] /\ ended' = ended \cup {c}
        /\ UNCHANGED <<serverVars, conv, sessions, ready, wait, active_sessions,
                       finger, acceptVars, registered, countVars, created, visited>>
    BY <1>2 DEF Close
  <2>2. state' \in [Convs -> 0..WordMax] /\ ended' \subseteq Convs
    BY <1>0, <2>1, TunnelFacts DEF TypeOK
  <2>3. TypeOK'
    BY <1>0, <2>1, <2>2 DEF TypeOK, serverVars, acceptVars, countVars
  <2> QED
    BY <2>1, <2>3 DEF TunnelInv, Pending, Opening, Closed, Accepting, serverVars,
                      acceptVars
<1>3. CASE ConnectionLost
  <2>1. /\ registered' = FALSE /\ sessions' = {} /\ accept_dict' = << >>
        /\ UNCHANGED <<serverVars, conv, blockVars, active_sessions, finger, tasks,
                       countVars, histVars>>
    BY <1>3 DEF ConnectionLost
  <2>2. DOMAIN accept_dict' = {}  BY <2>1, EmptyDomain
  <2>3. TypeOK'
    BY <1>0, <2>1, <2>2 DEF TypeOK, serverVars, blockVars, countVars, histVars
  <2> QED
    BY <2>1, <2>2, <2>3 DEF TunnelInv, Pending, Opening, Closed, Accepting,
                            serverVars, histVars
<1>4. CASE Update
  <2>1. /\ UNCHANGED <<serverVars, conv, acceptVars, registered, traffic, created>>
        /\ UNCHANGED sessions
        /\ active_sessions' \subseteq Convs /\ ended' \subseteq Convs
        /\ state' \in [Convs -> 0..WordMax] /\ ready' \in [Convs -> 0..MaxReady]
        /\ wait' \in [Convs -> Int] /\ finger' \in Nat
        /\ setbacks' \in Nat /\ visited' \in 0..MaxConv
    BY <1>0, <1>4, UpdateTypes
  <2>2. TypeOK'  BY <1>0, <2>1 DEF TypeOK, serverVars, acceptVars
  <2> QED
    BY <2>1, <2>2 DEF TunnelInv, Pending, Opening, Closed, Accepting, serverVars,
                      acceptVars
<1> QED BY <1>1, <1>2, <1>3, <1>4

LEMMA TunnelStep == TunnelInv /\ [Next]_vars => TunnelInv'
<1> SUFFICES ASSUME TunnelInv, [Next]_vars PROVE TunnelInv'  OBVIOUS
<1>1. CASE UNCHANGED vars
  BY <1>1 DEF TunnelInv, TypeOK, Pending, Opening, Closed, Accepting, vars,
              serverVars, blockVars, acceptVars, countVars, histVars
<1> QED
  BY <1>1, ServerDatagramStep, EndpointCreatedStep, CreateConnectionStep,
     AcceptConnectionStep, DatagramStep, HandOverStep, OtherSteps DEF Next

(* Every variable of a tunnel keeps its type: the conversations are those  *)
(* in use, a buffer never holds more than its limit and one datagram, and  *)
(* the state of a control block is an unsigned word, so it is never the -1 *)
(* that the updater looks for.                                             *)
THEOREM TunnelTypes == Spec => []TypeOK
<1>1. TunnelInv => TypeOK  BY DEF TunnelInv
<1> QED BY <1>1, TunnelInit, TunnelStep, PTL DEF Spec

(* While a tunnel is connected, a conversation gets at most one session:   *)
(* for any number of conversations, any order in which datagrams reach the *)
(* server socket, the tunnel's own socket and the accept tasks, and where  *)
(* a buffer overflows before its task runs.                                *)
THEOREM OneSessionEach == Spec => []SessionOnce
<1>1. TunnelInv => SessionOnce
  <2> SUFFICES ASSUME TunnelInv, registered, NEW c \in Convs PROVE created[c] <= 1
    BY DEF SessionOnce
  <2>1. CASE is_local
    <3>1. created[c] <= (IF c < conv THEN 1 ELSE 0)  BY <2>1 DEF TunnelInv, Opening
    <3>2. created[c] \in Nat  BY DEF TunnelInv, TypeOK
    <3> QED BY <3>1, <3>2
  <2>2. CASE ~is_local
    BY <2>2 DEF TunnelInv, Accepting
  <2> QED BY <2>1, <2>2
<1> QED BY <1>1, TunnelInit, TunnelStep, PTL DEF Spec

(* The updater never removes a session: state is compared with -1, which   *)
(* no unsigned word is.  So a session whose link is dead, or whose         *)
(* transport was closed, stays until the connection is lost.               *)
THEOREM UpdaterClosesNothing == Spec => [][Update => UNCHANGED sessions]_vars
<1>1. TunnelInv => (Update => UNCHANGED sessions)
  BY UpdateTypes DEF TunnelInv
<1> QED BY <1>1, TunnelInit, TunnelStep, PTL DEF Spec
=============================================================================
