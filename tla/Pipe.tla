-------------------------------- MODULE Pipe --------------------------------
(***************************************************************************)
(* One connection through the tunnel: open_pipe and DataPipe of            *)
(* kcp/pipe.py at both ends.  The local end opens its pipe for a client    *)
(* that has connected, the server end when the first datagram of the       *)
(* conversation comes in.  A pipe has two flows, each a task of the event  *)
(* loop: "out" from the application to the tunnel, "in" from the tunnel to *)
(* the application.                                                        *)
(*                                                                         *)
(* The tunnel keeps the promise of MessageStream, at any speed.  It goes   *)
(* on sending what a closed session has left: nothing removes the session  *)
(* (Tunnel).  A byte is its position in what its application sent.         *)
(***************************************************************************)
EXTENDS Integers, Sequences

CONSTANTS
  Local, Server,
  Size, Timeout,   \* the arguments of flow; Timeout in ticks of the clock
  MaxBytes         \* bound: bytes the two applications send

ASSUME PipeAssumption ==
  /\ Local # Server
  /\ {Size, Timeout} \subseteq Nat \ {0} /\ MaxBytes \in Nat

Ends == {Local, Server}
Peer(e) == IF e = Local THEN Server ELSE Local
Flows == {"out", "in"}

VARIABLES
  sent, got,   \* bytes each application sent and was handed
  reader,      \* per end and flow, its StreamReader: "open", "eof", "error"
  buf,         \* ... and the bytes it buffers
  wire,        \* per end, the messages given to the tunnel and not yet read
  pipe,        \* "none", "connecting", "flowing", "closed" or "failed"
  flow,        \* per end and flow, "reading" or "ended"
  silent,      \* ticks since the flow began to read
  first,       \* history: what ended the first flow, see EndFlows
  late         \* history: ticks a pipe outlived the other one in silence

dataVars == <<sent, got, reader, buf, wire>>
vars == <<dataVars, pipe, flow, silent, first, late>>

PerFlow(x) == [e \in Ends |-> [d \in Flows |-> x]]

Init ==
  /\ sent = [e \in Ends |-> <<>>] /\ got = [e \in Ends |-> <<>>]
  /\ reader = PerFlow("open") /\ buf = PerFlow(<<>>)
  /\ wire = [e \in Ends |-> <<>>]
  /\ pipe = [e \in Ends |-> IF e = Local THEN "connecting" ELSE "none"]
  /\ flow = PerFlow("reading") /\ silent = PerFlow(0)
  /\ first = [e \in Ends |-> "none"] /\ late = [e \in Ends |-> 0]

-----------------------------------------------------------------------------
(* The application at the other side of the TCP connection, which the      *)
(* server end has once it is connected.                                    *)

Connected(e) == pipe[e] = "flowing" \/ (e = Local /\ pipe[e] = "connecting")

AppSends(e) ==
  /\ Connected(e) /\ reader[e]["out"] = "open" /\ Len(sent[Local]) + Len(sent[Server]) < MaxBytes
  /\ LET byte == Len(sent[e]) + 1
     IN /\ sent' = [sent EXCEPT ![e] = Append(@, byte)]
        /\ buf' = [buf EXCEPT ![e]["out"] = Append(@, byte)]
  /\ UNCHANGED <<got, reader, wire, pipe, flow, silent, first, late>>

(* It closes its side, or the connection breaks.                           *)
AppEnds(e) ==
  /\ Connected(e) /\ reader[e]["out"] = "open"
  /\ \E how \in {"eof", "error"} : reader' = [reader EXCEPT ![e]["out"] = how]
  /\ UNCHANGED <<sent, got, buf, wire, pipe, flow, silent, first, late>>

-----------------------------------------------------------------------------
(* The tunnel.                                                             *)

(* A datagram of an unknown conversation: accept_connection starts         *)
(* open_pipe.                                                              *)
Accept ==
  /\ pipe[Server] = "none" /\ wire[Local] # <<>> /\ reader[Server]["in"] = "open"
  /\ pipe' = [pipe EXCEPT ![Server] = "connecting"]
  /\ UNCHANGED <<dataVars, flow, silent, first, late>>

(* A message of size 0 is not read: it stays, and what follows it.         *)
Blocked(w) == w = <<>> \/ Head(w) = <<>>

Gone(e) == pipe[e] \in {"closed", "failed"}

(* The next message is read and handed to the stream reader of e, also     *)
(* when nobody reads there any more.                                       *)
Arrive(e) ==
  /\ pipe[e] # "none" /\ reader[e]["in"] = "open" /\ ~Blocked(wire[Peer(e)])
  /\ wire' = [wire EXCEPT ![Peer(e)] = Tail(@)]
  /\ buf' = [buf EXCEPT ![e]["in"] =
               IF Gone(e) THEN @
               ELSE @ \o Head(wire[Peer(e)])]
  /\ UNCHANGED <<sent, got, reader, pipe, flow, silent, first, late>>

(* connection_lost of the tunnel at e ends the stream reader, with or      *)
(* without an exception.                                                   *)
TunnelLost(e) ==
  /\ pipe[e] \in {"connecting", "flowing"} /\ reader[e]["in"] = "open"
  /\ \E how \in {"eof", "error"} : reader' = [reader EXCEPT ![e]["in"] = how]
  /\ UNCHANGED <<sent, got, buf, wire, pipe, flow, silent, first, late>>

-----------------------------------------------------------------------------
(* flowing(reader, writer).                                                *)

\* mutation: the end of the stream is noticed by its empty message only
Goes_NoEof(e, d, b) == d = "out" \/ reader[e]["out"] # "error"

(* The condition of the loop, b being what the reader has left.  The       *)
(* transport of a broken connection is closing; the tunnel's closes with   *)
(* the pipe only.                                                          *)
Goes(e, d, b) ==
  /\ ~(reader[e][d] = "eof" /\ b = <<>>)
  /\ d = "out" \/ reader[e]["out"] # "error"

(* The other end was over before, by its own end of file, and all it left  *)
(* has come in and is passed on.                                           *)
Drained(e) == /\ first[Peer(e)] = "eof" /\ Blocked(wire[Peer(e)])
              /\ buf[e]["in"] = <<>>

(* The flows `over` of e end.  It is remembered how the first one did: at  *)
(* the end of the application's stream, if the condition of the loop says  *)
(* so; later than all that the other end left; or while more may come.     *)
EndFlows(e, over) ==
  /\ flow' = [flow EXCEPT ![e] = [d \in Flows |-> IF d \in over THEN "ended" ELSE @[d]]]
  /\ first' = [first EXCEPT ![e] =
       IF @ # "none" \/ over = {} THEN @
       ELSE IF "out" \in over /\ ~Goes(e, "out", buf'[e]["out"]) THEN "eof"
       ELSE IF Drained(e) THEN "drained" ELSE "other"]

(* open_pipe awaits ds_factory and starts the flows.  A local session is   *)
(* there at once; the server's connection may fail, and then the tunnel's  *)
(* writer stays open.                                                      *)
Connect(e) ==
  /\ pipe[e] = "connecting" /\ UNCHANGED <<dataVars, silent, late>>
  /\ \/ /\ e = Server /\ pipe' = [pipe EXCEPT ![e] = "failed"]
        /\ UNCHANGED <<flow, first>>
     \/ /\ pipe' = [pipe EXCEPT ![e] = "flowing"]
        /\ EndFlows(e, {d \in Flows : ~Goes(e, d, buf[e][d])})

Running(e, d) == pipe[e] = "flowing" /\ flow[e][d] = "reading"

(* writer.write: a message for the tunnel, bytes for the application.  A   *)
(* tunnel that is lost and a broken connection take nothing, and an empty  *)
(* write is nothing to a TCP transport.                                    *)
WriteOn(e, d, data) ==
  IF d = "out"
  THEN /\ wire' = IF reader[e]["in"] = "open"
                  THEN [wire EXCEPT ![e] = Append(@, data)] ELSE wire
       /\ UNCHANGED got
  ELSE /\ got' = IF reader[e]["out"] = "error" THEN got
                 ELSE [got EXCEPT ![e] = @ \o data]
       /\ UNCHANGED wire

\* mutation: a read passes on all there is
Chunk_Whole(b) == b

(* read(size): what is there, up to size.                                  *)
Chunk(b) == SubSeq(b, 1, IF Len(b) < Size THEN Len(b) ELSE Size)
Rest(b) == SubSeq(b, Size + 1, Len(b))

(* read returns data, or b'' at the end of the stream, and it is written.  *)
Pass(e, d) ==
  /\ Running(e, d) /\ reader[e][d] # "error"
  /\ buf[e][d] # <<>> \/ reader[e][d] = "eof"
  /\ WriteOn(e, d, Chunk(buf[e][d]))
  /\ buf' = [buf EXCEPT ![e][d] = Rest(@)]
  /\ silent' = [silent EXCEPT ![e][d] = 0]
  /\ EndFlows(e, IF Goes(e, d, Rest(buf[e][d])) THEN {} ELSE {d})
  /\ UNCHANGED <<sent, reader, pipe, late>>

(* read raises what the stream reader was given; no except clause fits.    *)
Raise(e, d) == /\ Running(e, d) /\ reader[e][d] = "error"
               /\ UNCHANGED <<dataVars, pipe, silent, late>>
               /\ EndFlows(e, {d})

\* mutation: the timer is looked at too late
Expired_Late(n) == n > Timeout

Expired(n) == n >= Timeout

\* mutation: the loop goes on after a timeout
GivesUp_Retries(e, d) == /\ silent' = [silent EXCEPT ![e][d] = 0]
                         /\ UNCHANGED <<flow, first>>

GivesUp(e, d) == EndFlows(e, {d}) /\ UNCHANGED silent

(* wait_for raises TimeoutError; a late byte stays with the reader.        *)
TimeOut(e, d) == /\ Running(e, d) /\ Expired(silent[e][d])
                 /\ UNCHANGED <<dataVars, pipe, late>>
                 /\ GivesUp(e, d)

-----------------------------------------------------------------------------
\* mutation: the pipe waits for both flows
Over_All(e) == \A d \in Flows : flow[e][d] = "ended"

(* FIRST_COMPLETED.                                                        *)
Over(e) == \E d \in Flows : flow[e][d] = "ended"

\* mutation: what a closed session has not sent is thrown away with it
Left_None(e) == <<>>

(* What a closed session still sends.                                      *)
Left(e) == wire[e]

(* The first flow that ends cancels the other one, with what it has read,  *)
(* and both writers are closed: the connection to the application, and the *)
(* session, whose peer is not told.                                        *)
Finish(e) ==
  /\ pipe[e] = "flowing" /\ Over(e)
  /\ pipe' = [pipe EXCEPT ![e] = "closed"]
  /\ flow' = [flow EXCEPT ![e] = [d \in Flows |-> "ended"]]
  /\ buf' = [buf EXCEPT ![e] = [d \in Flows |-> <<>>]]
  /\ wire' = [wire EXCEPT ![e] = Left(e)]
  /\ silent' = [silent EXCEPT ![e] = [d \in Flows |-> 0]]
  /\ UNCHANGED <<sent, got, reader, first, late>>

(* The flow waits, and will until something comes in or its time is over.  *)
Waits(e, d) == /\ reader[e][d] = "open" /\ buf[e][d] = <<>>
               /\ ~Expired(silent[e][d])

Quiet(e) == ~Over(e) /\ \A d \in Flows : flow[e][d] = "reading" => Waits(e, d)

(* Time passes when the loop has nothing to run.                           *)
Tick ==
  /\ \E e \in Ends : pipe[e] = "flowing"
  /\ \A e \in Ends : pipe[e] = "flowing" => Quiet(e)
  /\ silent' = [e \in Ends |-> [d \in Flows |->
                  IF pipe[e] = "flowing" /\ flow[e][d] = "reading"
                  THEN silent[e][d] + 1 ELSE silent[e][d]]]
  /\ late' = [e \in Ends |->
       IF /\ pipe[e] = "flowing" /\ Gone(Peer(e))
          /\ Blocked(wire[Peer(e)]) /\ late[e] <= Timeout
       THEN late[e] + 1 ELSE late[e]]
  /\ UNCHANGED <<dataVars, pipe, flow, first>>

Step(e, d) == Pass(e, d) \/ Raise(e, d) \/ TimeOut(e, d)

Next ==
  \/ Accept \/ Tick
  \/ \E e \in Ends :
       \/ AppSends(e) \/ AppEnds(e) \/ Arrive(e) \/ TunnelLost(e)
       \/ Connect(e) \/ Finish(e) \/ \E d \in Flows : Step(e, d)

Spec == Init /\ [][Next]_vars

(* Each loop runs what is ready, timers fire, and the tunnel delivers as   *)
(* long as both its ends are there.  Nobody has to send or to end, and     *)
(* a connection attempt may take for ever.                                 *)
Sound == \A e \in Ends : reader[e]["in"] = "open"
Runs == \E e \in Ends : Finish(e) \/ \E d \in Flows : Step(e, d)
Delivers == Sound /\ (Accept \/ \E e \in Ends : Arrive(e))

Fairness == WF_vars(Tick) /\ WF_vars(Runs) /\ WF_vars(Delivers)

FairSpec == Spec /\ Fairness

-----------------------------------------------------------------------------
TypeOK ==
  /\ sent \in [Ends -> Seq(Nat)] /\ got \in [Ends -> Seq(Nat)]
  /\ reader \in [Ends -> [Flows -> {"open", "eof", "error"}]]
  /\ buf \in [Ends -> [Flows -> Seq(Nat)]]
  /\ wire \in [Ends -> Seq(Seq(Nat))]
  /\ pipe \in [Ends -> {"none", "connecting", "flowing", "closed", "failed"}]
  /\ flow \in [Ends -> [Flows -> {"reading", "ended"}]]
  /\ silent \in [Ends -> [Flows -> 0..Timeout]]
  /\ first \in [Ends -> {"none", "eof", "drained", "other"}]
  /\ late \in [Ends -> 0..(Timeout + 1)]

(* The pipes, with the tunnel between them, keep the promise of            *)
(* ByteStreams: whatever ends first, an application is handed a prefix of  *)
(* what the other one sent, and nothing after its connection is closed.    *)
Streams == INSTANCE ByteStreams
  WITH Ends <- Ends, Peer <- Peer, sent <- sent, got <- got,
       open <- [e \in Ends |-> pipe[e] # "closed"]
ImplementsStreams == Streams!BSpec

(* The empty message a flow writes at the end of its stream is never read  *)
(* by the other end (peeksize is 0): nothing is ever written behind it.    *)
NothingBehindEmpty ==
  \A e \in Ends : \A i \in 1..(Len(wire[e]) - 1) : wire[e][i] # <<>>

(* Nothing tells a pipe that the other one is closed, or was never opened  *)
(* for want of a connection.  It is found out by silence, and in time,     *)
(* however much its own application sends.                                 *)
OutlivesBriefly == \A e \in Ends : late[e] <= Timeout

EndsTogether ==
  \A e \in Ends : Gone(e) /\ pipe[Peer(e)] = "flowing"
                    ~> pipe[Peer(e)] = "closed"

(* An application that closes its side has all it sent handed to the other *)
(* one, though its own pipe is closed at once and the other one, which is  *)
(* told nothing, only later: if the tunnel is not lost, and if the other   *)
(* end has, or gets, a connection which does not break and on which its    *)
(* pipe did not end first: by its own end of file, or by its timer while   *)
(* something was still to come.  A pipe that ends when all has come in is  *)
(* no excuse.                                                              *)
EofDelivered ==
  []<>(pipe[Server] # "connecting") =>
    \A e \in Ends :
      first[e] = "eof"
        ~> \/ got[Peer(e)] = sent[e] \/ ~Sound
           \/ pipe[Peer(e)] = "failed" \/ reader[Peer(e)]["out"] = "error"
           \/ first[Peer(e)] \in {"eof", "other"}
=============================================================================
