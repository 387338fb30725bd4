----------------------------- MODULE PipeProofs -----------------------------
(***************************************************************************)
(* The pipes of a connection, for every size of a read, every timeout and  *)
(* any number of bytes: their types, what an end of file leaves behind, in *)
(* what time silence ends a pipe, and that they implement ByteStreams.     *)
(***************************************************************************)
EXTENDS Pipe, TLAPS, SequenceTheorems

Bytes == Seq(Nat)

LEMMA EndFacts ==
  /\ Local # Server /\ Size \in Nat \ {0} /\ Timeout \in Nat \ {0}
  /\ \A e \in Ends : Peer(e) \in Ends /\ Peer(e) # e /\ Peer(Peer(e)) = e
  /\ \A e \in Ends : \A q \in Ends : q = e \/ q = Peer(e)
  /\ \A d \in Flows : d = "out" \/ d = "in"
  /\ "out" \in Flows /\ "in" \in Flows /\ "out" # "in"
BY PipeAssumption DEF Ends, Peer, Flows

-----------------------------------------------------------------------------
(* What one read takes and what it leaves.                                 *)
LEMMA ChunkFacts ==
  ASSUME NEW b \in Bytes
  PROVE  /\ Chunk(b) \in Bytes /\ Rest(b) \in Bytes
         /\ Len(b) \in Nat /\ Len(Chunk(b)) \in Nat /\ Len(Rest(b)) \in Nat
         /\ Len(b) = Len(Chunk(b)) + Len(Rest(b))
         /\ \A i \in 1..Len(Chunk(b)) : Chunk(b)[i] = b[i]
         /\ \A i \in 1..Len(Rest(b)) : Rest(b)[i] = b[Len(Chunk(b)) + i]
         /\ Chunk(b) = <<>> => b = <<>>
         /\ b = <<>> => Rest(b) = <<>>
<1>0. Size \in Nat \ {0} /\ Len(b) \in Nat /\ \A i \in 1..Len(b) : b[i] \in Nat
  BY EndFacts, LenProperties, ElementOfSeq DEF Bytes
<1>1. PICK n \in Nat : n = IF Len(b) < Size THEN Len(b) ELSE Size  BY <1>0
<1>2. /\ Chunk(b) = SubSeq(b, 1, n) /\ n <= Len(b) /\ n <= Size
      /\ n = Len(b) \/ n = Size
  BY <1>0, <1>1 DEF Chunk
<1>3. /\ Chunk(b) \in Bytes /\ Len(Chunk(b)) = n
      /\ \A i \in 1..n : Chunk(b)[i] = b[i]
  <2>1. \A i \in 1..n : b[i] \in Nat  BY <1>0, <1>2
  <2>2. /\ SubSeq(b, 1, n) \in Seq(Nat)
        /\ Len(SubSeq(b, 1, n)) = IF 1 <= n THEN n - 1 + 1 ELSE 0
        /\ \A i \in 1..(n - 1 + 1) : SubSeq(b, 1, n)[i] = b[1 + i - 1]
    BY <2>1, SubSeqProperties, 1 \in Int, n \in Int
  <2>3. (IF 1 <= n THEN n - 1 + 1 ELSE 0) = n /\ n - 1 + 1 = n  OBVIOUS
  <2>4. \A i \in 1..n : 1 + i - 1 = i  OBVIOUS
  <2> QED BY <1>2, <2>2, <2>3, <2>4 DEF Bytes
<1>4. /\ Rest(b) \in Bytes /\ Len(Rest(b)) = Len(b) - n
      /\ \A i \in 1..(Len(b) - n) : Rest(b)[i] = b[n + i]
  <2>0. PICK l \in Nat, m \in Nat : l = Len(b) /\ m = Size + 1  BY <1>0
  <2>1. \A i \in m..l : b[i] \in Nat  BY <1>0, <2>0
  <2>2. /\ SubSeq(b, m, l) \in Seq(Nat)
        /\ Len(SubSeq(b, m, l)) = IF m <= l THEN l - m + 1 ELSE 0
        /\ \A i \in 1..(l - m + 1) : SubSeq(b, m, l)[i] = b[m + i - 1]
    BY <2>1, SubSeqProperties, m \in Int, l \in Int
  <2>6. m \in Nat \ {0} /\ n = IF l < m - 1 THEN l ELSE m - 1  BY <1>0, <1>1, <2>0
  <2>3. (IF m <= l THEN l - m + 1 ELSE 0) = l - n  BY <2>6
  <2>4. \A i \in 1..(l - n) : i \in 1..(l - m + 1) /\ m + i - 1 = n + i
    BY <2>6
  <2>5. Rest(b) = SubSeq(b, m, l)  BY <2>0 DEF Rest
  <2> QED BY <2>0, <2>2, <2>3, <2>4, <2>5 DEF Bytes
<1>5. Chunk(b) = <<>> => b = <<>>
  <2>1. Len(<<>>) = 0 /\ (b # <<>> => Len(b) \in Nat \ {0})  BY EmptySeq DEF Bytes
  <2>2. SUFFICES ASSUME Chunk(b) = <<>> PROVE Len(b) = 0  BY <2>1
  <2>3. n = 0  BY <1>3, <2>1, <2>2
  <2> QED BY <1>0, <1>2, <2>3
<1>6. b = <<>> => Rest(b) = <<>>
  <2>1. Len(<<>>) = 0 /\ (Rest(b) # <<>> => Len(Rest(b)) \in Nat \ {0})
    BY <1>4, EmptySeq DEF Bytes
  <2>2. ASSUME b = <<>> PROVE Rest(b) = <<>>
    <3>1. Len(Rest(b)) = 0  BY <1>0, <1>2, <1>4, <2>1, <2>2
    <3> QED BY <2>1, <3>1
  <2> QED BY <2>2
<1>7. Len(b) = n + (Len(b) - n) /\ Len(b) - n \in Nat  BY <1>0, <1>2
<1> QED BY <1>0, <1>3, <1>4, <1>5, <1>6, <1>7

-----------------------------------------------------------------------------
(* Types.                                                                  *)
LEMMA EndFlowsType ==
  ASSUME TypeOK, NEW e \in Ends, NEW over, EndFlows(e, over)
  PROVE  /\ flow' \in [Ends -> [Flows -> {"reading", "ended"}]]
         /\ first' \in [Ends -> {"none", "eof", "drained", "other"}]
         /\ \A q \in Ends, c \in Flows :
              /\ flow[q][c] = "ended" => flow'[q][c] = "ended"
              /\ q # e => flow'[q][c] = flow[q][c]
              /\ q = e /\ c \in over => flow'[q][c] = "ended"
BY DEF TypeOK, EndFlows

(* One field of one flow.                                                  *)
LEMMA TypeAt ==
  ASSUME TypeOK, NEW e \in Ends, NEW d \in Flows
  PROVE  /\ sent[e] \in Bytes /\ got[e] \in Bytes /\ buf[e][d] \in Bytes
         /\ wire[e] \in Seq(Bytes) /\ silent[e][d] \in 0..Timeout
         /\ reader[e][d] \in {"open", "eof", "error"}
         /\ flow[e][d] \in {"reading", "ended"}
BY DEF TypeOK, Bytes

LEMMA InitType == Init => TypeOK
<1>1. <<>> \in Seq(Nat) /\ <<>> \in Seq(Seq(Nat))  BY EmptySeq
<1>2. 0 \in 0..Timeout /\ 0 \in 0..(Timeout + 1)  BY EndFacts
<1> QED BY <1>1, <1>2 DEF Init, TypeOK, PerFlow

LEMMA SendType == ASSUME TypeOK, NEW e \in Ends, AppSends(e) PROVE TypeOK'
<1> DEFINE byte == Len(sent[e]) + 1
<1>1. sent[e] \in Seq(Nat) /\ buf[e]["out"] \in Seq(Nat)
  BY EndFacts, TypeAt DEF Bytes
<1>2. byte \in Nat  BY <1>1, LenProperties
<1> HIDE DEF byte
<1>3. Append(sent[e], byte) \in Seq(Nat) /\ Append(buf[e]["out"], byte) \in Seq(Nat)
  BY <1>1, <1>2, AppendProperties
<1>4. /\ sent' = [sent EXCEPT ![e] = Append(sent[e], byte)]
      /\ buf' = [buf EXCEPT ![e]["out"] = Append(buf[e]["out"], byte)]
  BY DEF AppSends, byte
<1>5. sent' \in [Ends -> Seq(Nat)]  BY <1>3, <1>4 DEF TypeOK
<1>6. buf' \in [Ends -> [Flows -> Seq(Nat)]]  BY <1>3, <1>4, EndFacts DEF TypeOK
<1> QED BY <1>5, <1>6 DEF TypeOK, AppSends

LEMMA ArriveType == ASSUME TypeOK, NEW e \in Ends, Arrive(e) PROVE TypeOK'
<1>1. Peer(e) \in Ends /\ "in" \in Flows  BY EndFacts
<1>2. wire[Peer(e)] \in Seq(Seq(Nat)) /\ wire[Peer(e)] # <<>>
  BY <1>1 DEF TypeOK, Arrive, Blocked
<1>3. Tail(wire[Peer(e)]) \in Seq(Seq(Nat)) /\ Head(wire[Peer(e)]) \in Seq(Nat)
  BY <1>2, HeadTailProperties
<1>4. buf[e]["in"] \o Head(wire[Peer(e)]) \in Seq(Nat)
  BY <1>1, <1>3, TypeAt, ConcatProperties DEF Bytes
<1>5. wire' \in [Ends -> Seq(Seq(Nat))]  BY <1>3 DEF TypeOK, Arrive
<1>6. buf' = [buf EXCEPT ![e]["in"] =
               IF Gone(e) THEN buf[e]["in"] ELSE buf[e]["in"] \o Head(wire[Peer(e)])]
  BY DEF Arrive
<1>7. buf' \in [Ends -> [Flows -> Seq(Nat)]]  BY <1>1, <1>4, <1>6 DEF TypeOK
<1> QED BY <1>5, <1>7 DEF TypeOK, Arrive

LEMMA PassType ==
  ASSUME TypeOK, NEW e \in Ends, NEW d \in Flows, Pass(e, d) PROVE TypeOK'
<1> DEFINE chunk == Chunk(buf[e][d])
<1>1. buf[e][d] \in Bytes  BY TypeAt
<1>2. chunk \in Seq(Nat) /\ Rest(buf[e][d]) \in Seq(Nat)  BY <1>1, ChunkFacts DEF Bytes
<1>3. WriteOn(e, d, chunk)  BY DEF Pass
<1> HIDE DEF chunk
<1>4. wire' \in [Ends -> Seq(Seq(Nat))]
  <2>1. Append(wire[e], chunk) \in Seq(Seq(Nat))
    BY <1>2, AppendProperties DEF TypeOK
  <2>2. wire' = wire \/ wire' = [wire EXCEPT ![e] = Append(wire[e], chunk)]
    BY <1>3 DEF WriteOn
  <2> QED BY <2>1, <2>2 DEF TypeOK
<1>5. got' \in [Ends -> Seq(Nat)]
  <2>1. got[e] \o chunk \in Seq(Nat)  BY <1>2, ConcatProperties DEF TypeOK
  <2>2. got' = got \/ got' = [got EXCEPT ![e] = got[e] \o chunk]
    BY <1>3 DEF WriteOn
  <2> QED BY <2>1, <2>2 DEF TypeOK
<1>6. buf' \in [Ends -> [Flows -> Seq(Nat)]]
  <2>1. buf' = [buf EXCEPT ![e][d] = Rest(buf[e][d])]  BY DEF Pass
  <2> QED BY <1>2, <2>1 DEF TypeOK
<1>7. silent' \in [Ends -> [Flows -> 0..Timeout]]
  <2>1. 0 \in 0..Timeout  BY EndFacts
  <2> QED BY <2>1 DEF Pass, TypeOK
<1>8. /\ flow' \in [Ends -> [Flows -> {"reading", "ended"}]]
      /\ first' \in [Ends -> {"none", "eof", "drained", "other"}]
  BY EndFlowsType DEF Pass
<1> QED BY <1>4, <1>5, <1>6, <1>7, <1>8 DEF TypeOK, Pass

LEMMA TickType == ASSUME TypeOK, Tick PROVE TypeOK'
<1>1. silent' \in [Ends -> [Flows -> 0..Timeout]]
  <2>1. ASSUME NEW e \in Ends, NEW d \in Flows, pipe[e] = "flowing", flow[e][d] = "reading"
        PROVE  silent[e][d] + 1 \in 0..Timeout
    <3>1. ~(silent[e][d] >= Timeout)  BY <2>1 DEF Tick, Quiet, Waits, Expired
    <3> QED BY <3>1, TypeAt, EndFacts
  <2> QED BY <2>1 DEF Tick, TypeOK
<1>2. late' \in [Ends -> 0..(Timeout + 1)]
  <2>1. ASSUME NEW e \in Ends, late[e] <= Timeout PROVE late[e] + 1 \in 0..(Timeout + 1)
    <3>1. late[e] \in 0..(Timeout + 1)  BY DEF TypeOK
    <3> QED BY <2>1, <3>1, EndFacts
  <2> QED BY <2>1 DEF Tick, TypeOK
<1> QED BY <1>1, <1>2 DEF TypeOK, Tick, dataVars

LEMMA FinishType == ASSUME TypeOK, NEW e \in Ends, Finish(e) PROVE TypeOK'
<1>1. <<>> \in Seq(Nat) /\ 0 \in 0..Timeout  BY EmptySeq, EndFacts
<1> QED BY <1>1 DEF TypeOK, Finish, Left

LEMMA TypeStep == TypeOK /\ [Next]_vars => TypeOK'
<1> SUFFICES ASSUME TypeOK, [Next]_vars PROVE TypeOK'  OBVIOUS
<1>1. CASE UNCHANGED vars  BY <1>1 DEF TypeOK, vars, dataVars
<1>2. CASE Accept  BY <1>2, EndFacts DEF TypeOK, Accept, dataVars
<1>3. CASE Tick  BY <1>3, TickType
<1>4. ASSUME NEW e \in Ends, AppEnds(e) \/ TunnelLost(e) PROVE TypeOK'
  <2>1. \E d \in Flows : \E how \in {"eof", "error"} :
          reader' = [reader EXCEPT ![e][d] = how]
    BY <1>4, EndFacts DEF AppEnds, TunnelLost
  <2>2. reader' \in [Ends -> [Flows -> {"open", "eof", "error"}]]
    BY <2>1 DEF TypeOK
  <2>3. UNCHANGED <<sent, got, buf, wire, pipe, flow, silent, first, late>>
    BY <1>4 DEF AppEnds, TunnelLost
  <2> QED BY <2>2, <2>3 DEF TypeOK
<1>5. ASSUME NEW e \in Ends, Connect(e) PROVE TypeOK'
  BY <1>5, EndFlowsType DEF TypeOK, Connect, dataVars
<1>6. ASSUME NEW e \in Ends, NEW d \in Flows, Raise(e, d) \/ TimeOut(e, d) PROVE TypeOK'
  BY <1>6, EndFlowsType DEF TypeOK, Raise, TimeOut, GivesUp, dataVars
<1> QED BY <1>1, <1>2, <1>3, <1>4, <1>5, <1>6, SendType, ArriveType, PassType, FinishType
        DEF Next, Step

(* Every variable of the pipes keeps its type; in particular no flow waits *)
(* longer than its timeout, however the two pipes and the clock interleave.*)
THEOREM PipeTypes == Spec => []TypeOK
<1> QED BY InitType, TypeStep, PTL DEF Spec

-----------------------------------------------------------------------------
(* The inductive invariant of the ends of the pipes.  An empty message is  *)
(* the last one of its pipe, and the flow that wrote it is over.           *)
EmptyEnds(e) ==
  \A i \in 1..Len(wire[e]) :
    wire[e][i] = <<>> => i = Len(wire[e]) /\ flow[e]["out"] = "ended"

(* A pipe that outlives the other one has nothing more to read from the    *)
(* tunnel, and its flow has been silent for as long.                       *)
Outlives(e) ==
  /\ late[e] <= Timeout
  /\ pipe[e] \in {"none", "connecting"} => late[e] = 0
  /\ late[e] > 0 /\ pipe[e] = "flowing" =>
       /\ Gone(Peer(e)) /\ Blocked(wire[Peer(e)]) /\ buf[e]["in"] = <<>>
       /\ Over(e) \/ late[e] <= silent[e]["in"]

EndInv == TypeOK /\ \A e \in Ends : EmptyEnds(e) /\ Outlives(e)

LEMMA InitEnd == Init => EndInv
<1>1. ASSUME Init, NEW e \in Ends PROVE EmptyEnds(e) /\ Outlives(e)
  <2>1. wire[e] = <<>> /\ late[e] = 0  BY <1>1 DEF Init
  <2>2. Len(wire[e]) = 0  BY <2>1, EmptySeq
  <2> QED BY <2>1, <2>2, EndFacts DEF EmptyEnds, Outlives
<1> QED BY <1>1, InitType DEF EndInv

(* Of the messages of an end, only what Pass writes and Arrive reads.      *)
LEMMA EmptyStep ==
  ASSUME EndInv, [Next]_vars, NEW q \in Ends PROVE EmptyEnds(q)'
<1>0. TypeOK /\ EmptyEnds(q) /\ flow[q]["out"] \in {"reading", "ended"}
  BY EndFacts, TypeAt DEF EndInv
<1>1. ASSUME wire'[q] = wire[q], flow[q]["out"] = "ended" => flow'[q]["out"] = "ended"
      PROVE  EmptyEnds(q)'
  BY <1>0, <1>1 DEF EmptyEnds
<1>2. CASE UNCHANGED vars  BY <1>1, <1>2 DEF vars, dataVars
<1>3. CASE Accept \/ Tick  BY <1>1, <1>3 DEF Accept, Tick, dataVars
<1>4. ASSUME NEW e \in Ends, AppSends(e) \/ AppEnds(e) \/ TunnelLost(e) PROVE EmptyEnds(q)'
  BY <1>1, <1>4 DEF AppSends, AppEnds, TunnelLost
<1>5. ASSUME NEW e \in Ends, Connect(e) PROVE EmptyEnds(q)'
  BY <1>0, <1>1, <1>5, EndFlowsType, EndFacts DEF Connect, dataVars
<1>6. ASSUME NEW e \in Ends, NEW d \in Flows, Raise(e, d) \/ TimeOut(e, d)
      PROVE  EmptyEnds(q)'
  BY <1>0, <1>1, <1>6, EndFlowsType, EndFacts DEF Raise, TimeOut, GivesUp, dataVars
<1>7. ASSUME NEW e \in Ends, Finish(e) PROVE EmptyEnds(q)'
  BY <1>0, <1>1, <1>7, EndFacts DEF Finish, Left, TypeOK
<1>8. ASSUME NEW e \in Ends, Arrive(e) PROVE EmptyEnds(q)'
  <2>1. CASE q # Peer(e)
    BY <1>0, <1>1, <1>8, <2>1 DEF Arrive, TypeOK
  <2>2. CASE q = Peer(e)
    <3>1. wire[q] \in Seq(Bytes) /\ wire[q] # <<>>
      BY <1>0, <1>8, <2>2, EndFacts, TypeAt DEF Arrive, Blocked
    <3>2. wire'[q] = Tail(wire[q]) /\ flow' = flow  BY <1>8, <2>2 DEF Arrive, TypeOK, EndInv
    <3>3. PICK n \in Nat : n = Len(wire[q]) - 1 /\ Len(wire[q]) = n + 1
      <4>1. Len(wire[q]) \in Nat \ {0}  BY <3>1, EmptySeq
      <4>2. \A m \in Nat \ {0} : m - 1 \in Nat /\ m = m - 1 + 1  OBVIOUS
      <4> QED BY <4>1, <4>2
    <3>4. Len(Tail(wire[q])) = n /\ \A i \in 1..n : Tail(wire[q])[i] = wire[q][i + 1]
      BY <3>1, <3>3, HeadTailProperties
    <3>5. \A i \in 1..n : i + 1 \in 1..(n + 1) /\ (i + 1 = n + 1 => i = n)  OBVIOUS
    <3> QED BY <1>0, <3>2, <3>3, <3>4, <3>5 DEF EmptyEnds
  <2> QED BY <2>1, <2>2
<1>9. ASSUME NEW e \in Ends, NEW d \in Flows, Pass(e, d) PROVE EmptyEnds(q)'
  <2>0. flow[q]["out"] = "ended" => flow'[q]["out"] = "ended"
    BY <1>0, <1>9, EndFlowsType, EndFacts DEF Pass
  <2>1. CASE wire'[q] = wire[q]  BY <1>1, <2>0, <2>1
  <2>2. CASE wire'[q] # wire[q]
    <3>1. WriteOn(e, d, Chunk(buf[e][d]))  BY <1>9 DEF Pass
    <3>2. /\ q = e /\ d = "out" /\ reader[e]["in"] = "open"
          /\ wire'[e] = Append(wire[e], Chunk(buf[e][d]))
      BY <1>0, <2>2, <3>1 DEF WriteOn, TypeOK
    <3>3. wire[e] \in Seq(Bytes) /\ buf[e][d] \in Bytes  BY <1>0, TypeAt
    <3>4. Chunk(buf[e][d]) \in Bytes  BY <3>3, ChunkFacts
    <3>5. /\ Len(wire'[e]) = Len(wire[e]) + 1 /\ Len(wire[e]) \in Nat
          /\ \A i \in 1..Len(wire[e]) : wire'[e][i] = wire[e][i]
          /\ wire'[e][Len(wire[e]) + 1] = Chunk(buf[e][d])
      BY <3>2, <3>3, <3>4, AppendProperties, LenProperties
    <3>6. \A i \in 1..Len(wire[e]) : wire[e][i] # <<>>
      BY <1>0, <1>9, <3>2 DEF EmptyEnds, Pass, Running
    <3>7. Chunk(buf[e][d]) = <<>> => flow'[e]["out"] = "ended"
      <4>1. SUFFICES ASSUME Chunk(buf[e][d]) = <<>> PROVE flow'[e]["out"] = "ended"
        OBVIOUS
      <4>2. buf[e][d] = <<>> /\ Rest(buf[e][d]) = <<>>  BY <3>3, <4>1, ChunkFacts
      <4>3. reader[e][d] = "eof"  BY <1>9, <4>2 DEF Pass
      <4>4. ~Goes(e, d, Rest(buf[e][d]))  BY <4>2, <4>3 DEF Goes
      <4>5. EndFlows(e, {d})  BY <1>9, <4>4 DEF Pass
      <4> QED BY <1>0, <3>2, <4>5, EndFlowsType, EndFacts
    <3>8. \A i \in 1..(Len(wire[e]) + 1) : i \in 1..Len(wire[e]) \/ i = Len(wire[e]) + 1
      BY <3>5
    <3> QED BY <3>2, <3>5, <3>6, <3>7, <3>8 DEF EmptyEnds
  <2> QED BY <2>1, <2>2
<1> QED BY <1>2, <1>3, <1>4, <1>5, <1>6, <1>7, <1>8, <1>9 DEF Next, Step

(* What a pipe that outlives the other one has to keep.                    *)
LEMMA OutlivesKept ==
  ASSUME EndInv, TypeOK', NEW q \in Ends, late'[q] = late[q],
         pipe'[q] \in {"none", "connecting"} => pipe[q] \in {"none", "connecting"},
         late[q] > 0 /\ pipe'[q] = "flowing" =>
           /\ pipe[q] = "flowing" /\ (Gone(Peer(q)) => Gone(Peer(q))')
           /\ wire'[Peer(q)] = wire[Peer(q)] /\ buf'[q]["in"] = buf[q]["in"]
           /\ Over(q) => Over(q)'
           /\ Over(q)' \/ silent'[q]["in"] = silent[q]["in"]
  PROVE  Outlives(q)'
BY DEF EndInv, Outlives, Blocked

LEMMA OutlivesTick ==
  ASSUME EndInv, Tick, TypeOK', NEW q \in Ends PROVE Outlives(q)'
<1>0. TypeOK /\ Outlives(q)  BY DEF EndInv
<1>1. CASE late'[q] = late[q]
  <2>1. pipe[q] = "flowing" => ~Over(q)  BY DEF Tick, Quiet
  <2>2. ASSUME late[q] > 0, pipe[q] = "flowing"
        PROVE  late[q] <= silent'[q]["in"]
    <3>1. late[q] <= silent[q]["in"]  BY <1>0, <2>1, <2>2 DEF Outlives
    <3>2. silent'[q]["in"] = silent[q]["in"] \/ silent'[q]["in"] = silent[q]["in"] + 1
      BY EndFacts DEF Tick
    <3>3. silent[q]["in"] \in Nat /\ late[q] \in Nat  BY <1>0, TypeAt, EndFacts DEF TypeOK
    <3> QED BY <3>1, <3>2, <3>3
  <2> QED BY <1>0, <1>1, <2>2 DEF Outlives, Tick, dataVars, Gone, Blocked, Over
<1>2. CASE late'[q] # late[q]
  <2>1. /\ late'[q] = late[q] + 1 /\ pipe[q] = "flowing" /\ Gone(Peer(q))
        /\ Blocked(wire[Peer(q)])
    BY <1>2 DEF Tick
  <2>2. flow[q]["in"] = "reading" /\ ~Over(q) /\ Waits(q, "in")
    BY <1>0, <2>1, TypeAt, EndFacts DEF Tick, Quiet, Over
  <2>3. late[q] <= silent[q]["in"]
    <3>1. silent[q]["in"] \in Nat /\ late[q] \in Nat  BY <1>0, TypeAt, EndFacts DEF TypeOK
    <3> QED BY <1>0, <2>1, <2>2, <3>1 DEF Outlives
  <2>4. silent'[q]["in"] = silent[q]["in"] + 1  BY <2>1, <2>2, EndFacts DEF Tick
  <2>5. late'[q] <= silent'[q]["in"] /\ silent'[q]["in"] <= Timeout
    <3>1. silent'[q]["in"] \in 0..Timeout  BY EndFacts, TypeAt DEF TypeOK
    <3>2. silent[q]["in"] \in Nat /\ late[q] \in Nat  BY <1>0, TypeAt, EndFacts DEF TypeOK
    <3> QED BY <2>1, <2>3, <2>4, <3>1, <3>2, EndFacts
  <2>6. late'[q] <= Timeout  BY <2>5, EndFacts DEF TypeOK
  <2> QED BY <2>1, <2>2, <2>5, <2>6 DEF Outlives, Waits, Tick, dataVars, Gone, Blocked
<1> QED BY <1>1, <1>2

(* A flow that reads what is left gets nothing, and ends.                  *)
LEMMA OutlivesPass ==
  ASSUME EndInv, TypeOK', NEW e \in Ends, NEW d \in Flows, Pass(e, d), NEW q \in Ends
  PROVE  Outlives(q)'
<1>0. TypeOK /\ Outlives(q)  BY DEF EndInv
<1>1. late' = late /\ pipe' = pipe  BY DEF Pass
<1>2. Over(q) => Over(q)'  BY <1>0, EndFlowsType DEF Pass, Over
<1>3. ASSUME late[q] > 0, pipe[q] = "flowing"
      PROVE  /\ wire'[Peer(q)] = wire[Peer(q)] /\ buf'[q]["in"] = buf[q]["in"]
             /\ Over(q)' \/ silent'[q]["in"] = silent[q]["in"]
  <2>1. Gone(Peer(q)) /\ buf[q]["in"] = <<>>  BY <1>0, <1>3 DEF Outlives
  <2>2. e = q  BY <2>1, EndFacts DEF Pass, Running, Gone
  <2>3. wire'[Peer(q)] = wire[Peer(q)]
    <3>1. \/ wire' = wire
          \/ wire' = [wire EXCEPT ![q] = Append(wire[q], Chunk(buf[q][d]))]
      BY <2>2 DEF Pass, WriteOn
    <3>2. PICK p \in Ends : p = Peer(q) /\ p # q  BY EndFacts
    <3>3. wire'[p] = wire[p]  BY <1>0, <3>1, <3>2 DEF TypeOK
    <3> QED BY <3>2, <3>3
  <2>4. CASE d = "out"
    BY <1>0, <2>2, <2>3, <2>4, EndFacts DEF Pass, TypeOK
  <2>5. CASE d = "in"
    <3>1. reader[q]["in"] = "eof" /\ Rest(buf[q]["in"]) = <<>>
      <4>1. buf[q]["in"] \in Bytes  BY <1>0, TypeAt, EndFacts
      <4> QED BY <2>1, <2>2, <2>5, <4>1, ChunkFacts DEF Pass
    <3>2. EndFlows(q, {"in"})  BY <2>2, <2>5, <3>1 DEF Pass, Goes
    <3>3. Over(q)'  BY <1>0, <3>2, EndFlowsType, EndFacts DEF Over
    <3>4. buf'[q]["in"] = <<>>
      BY <1>0, <2>2, <2>5, <3>1, EndFacts DEF Pass, TypeOK
    <3> QED BY <2>1, <2>3, <3>3, <3>4
  <2> QED BY <2>4, <2>5, EndFacts
<1> QED BY <1>1, <1>2, <1>3, OutlivesKept DEF Gone

LEMMA OutlivesStep ==
  ASSUME EndInv, [Next]_vars, NEW q \in Ends PROVE Outlives(q)'
<1>0. TypeOK /\ Outlives(q) /\ TypeOK'  BY TypeStep DEF EndInv
<1>1. CASE UNCHANGED vars
  BY <1>0, <1>1, OutlivesKept DEF vars, dataVars, Gone, Over
<1>2. CASE Accept
  <2>1. PICK p \in Ends : p = Peer(q)  BY EndFacts
  <2>2. /\ Server \in Ends /\ pipe[Server] = "none"
        /\ pipe' = [pipe EXCEPT ![Server] = "connecting"]
    BY <1>2 DEF Accept, Ends
  <2>3. pipe'[q] = pipe[q] \/ (pipe[q] = "none" /\ pipe'[q] = "connecting")
    BY <1>0, <2>2 DEF TypeOK
  <2>4. Gone(p) => pipe'[p] = pipe[p]  BY <1>0, <2>2 DEF TypeOK, Gone
  <2>5. Gone(Peer(q)) => Gone(Peer(q))'  BY <2>1, <2>4 DEF Gone
  <2> QED BY <1>0, <1>2, <2>3, <2>5, OutlivesKept DEF Accept, dataVars, Over
<1>3. CASE Tick  BY <1>0, <1>3, OutlivesTick
<1>4. ASSUME NEW e \in Ends, AppSends(e) PROVE Outlives(q)'
  <2>1. buf'[q]["in"] = buf[q]["in"]  BY <1>0, <1>4, EndFacts DEF AppSends, TypeOK
  <2>2. UNCHANGED <<wire, pipe, flow, silent, late>>  BY <1>4 DEF AppSends
  <2> QED BY <1>0, <2>1, <2>2, OutlivesKept DEF Gone, Over
<1>5. ASSUME NEW e \in Ends, AppEnds(e) \/ TunnelLost(e) PROVE Outlives(q)'
  BY <1>0, <1>5, OutlivesKept DEF AppEnds, TunnelLost, Gone, Over
<1>6. ASSUME NEW e \in Ends, Arrive(e) PROVE Outlives(q)'
  <2>1. CASE e = q
    BY <1>0, <1>6, <2>1, OutlivesKept DEF Arrive, Outlives
  <2>2. CASE e # q
    <3>1. wire'[Peer(q)] = wire[Peer(q)] /\ buf'[q]["in"] = buf[q]["in"]
      BY <1>0, <1>6, <2>2, EndFacts DEF Arrive, TypeOK
    <3> QED BY <1>0, <1>6, <3>1, OutlivesKept DEF Arrive, Gone, Over
  <2> QED BY <2>1, <2>2
<1>7. ASSUME NEW e \in Ends, Connect(e) PROVE Outlives(q)'
  <2>1. late'[q] = late[q] /\ UNCHANGED dataVars /\ silent' = silent  BY <1>7 DEF Connect
  <2>2. CASE q = e
    <3>1. late[q] = 0 /\ pipe'[q] \in {"flowing", "failed"}
      BY <1>0, <1>7, <2>2 DEF Connect, Outlives, TypeOK
    <3> QED BY <1>0, <2>1, <3>1, OutlivesKept
  <2>3. CASE q # e
    <3>1. PICK s \in {"flowing", "failed"} :
            pipe[e] = "connecting" /\ pipe' = [pipe EXCEPT ![e] = s]
      BY <1>7 DEF Connect
    <3>4. pipe'[q] = pipe[q]  BY <1>0, <2>3, <3>1 DEF TypeOK
    <3>5. PICK p \in Ends : p = Peer(q)  BY EndFacts
    <3>6. Gone(p) => p # e /\ pipe'[p] = pipe[p]
      BY <1>0, <3>1, <3>5 DEF TypeOK, Gone
    <3>2. pipe'[q] = pipe[q] /\ (Gone(Peer(q)) => Gone(Peer(q))')
      BY <3>4, <3>5, <3>6 DEF Gone
    <3>3. Over(q) => Over(q)'  BY <1>0, <1>7, EndFlowsType DEF Connect, Over
    <3> QED BY <1>0, <2>1, <3>2, <3>3, OutlivesKept DEF dataVars
  <2> QED BY <2>2, <2>3
<1>8. ASSUME NEW e \in Ends, NEW d \in Flows, Pass(e, d) PROVE Outlives(q)'
  BY <1>0, <1>8, OutlivesPass
<1>9. ASSUME NEW e \in Ends, NEW d \in Flows, Raise(e, d) \/ TimeOut(e, d)
      PROVE  Outlives(q)'
  <2>1. EndFlows(e, {d}) /\ UNCHANGED <<dataVars, pipe, silent, late>>
    BY <1>9 DEF Raise, TimeOut, GivesUp
  <2>2. Over(q) => Over(q)'  BY <1>0, <2>1, EndFlowsType DEF Over
  <2> QED BY <1>0, <2>1, <2>2, OutlivesKept DEF dataVars, Gone
<1>10. ASSUME NEW e \in Ends, Finish(e) PROVE Outlives(q)'
  <2>1. late' = late  BY <1>10 DEF Finish
  <2>2. CASE q = e
    <3>1. pipe'[q] = "closed"  BY <1>0, <1>10, <2>2 DEF Finish, TypeOK
    <3> QED BY <1>0, <2>1, <3>1, OutlivesKept
  <2>3. CASE q # e
    <3>1. /\ pipe'[q] = pipe[q] /\ (Gone(Peer(q)) => Gone(Peer(q))')
          /\ wire'[Peer(q)] = wire[Peer(q)] /\ buf'[q] = buf[q]
          /\ flow'[q] = flow[q] /\ silent'[q] = silent[q]
      BY <1>0, <1>10, <2>3, EndFacts DEF Finish, Left, TypeOK, Gone
    <3> QED BY <1>0, <2>1, <3>1, OutlivesKept DEF Over
  <2> QED BY <2>2, <2>3
<1> QED BY <1>1, <1>2, <1>3, <1>4, <1>5, <1>6, <1>7, <1>8, <1>9, <1>10 DEF Next, Step

LEMMA EndStep == EndInv /\ [Next]_vars => EndInv'
BY TypeStep, EmptyStep, OutlivesStep DEF EndInv

(* The message a flow writes at the end of its stream stays the last one:  *)
(* it blocks the session of the other end, and nothing is lost behind it.  *)
THEOREM NothingFollowsEmpty == Spec => []NothingBehindEmpty
<1>1. EndInv => NothingBehindEmpty
  <2>1. ASSUME EndInv, NEW e \in Ends, NEW i \in 1..(Len(wire[e]) - 1)
        PROVE  wire[e][i] # <<>>
    <3>1. Len(wire[e]) \in Nat  BY <2>1, LenProperties DEF EndInv, TypeOK
    <3>2. i \in 1..Len(wire[e]) /\ i # Len(wire[e])  BY <3>1
    <3> QED BY <2>1, <3>2 DEF EndInv, EmptyEnds
  <2> QED BY <2>1 DEF NothingBehindEmpty
<1> QED BY <1>1, InitEnd, EndStep, PTL DEF Spec

(* A pipe whose peer is closed, or was never opened, and that reads        *)
(* nothing more from it, ends within the timeout of its flow, whatever its *)
(* own application sends.                                                  *)
THEOREM SilenceEnds == Spec => []OutlivesBriefly
<1>1. EndInv => OutlivesBriefly  BY DEF EndInv, Outlives, OutlivesBriefly
<1> QED BY <1>1, InitEnd, EndStep, PTL DEF Spec

-----------------------------------------------------------------------------
(* The bytes on their way.  A run is what follows the first n bytes; the   *)
(* messages w are a chain of runs, from the a-th byte to the b-th.         *)
Run(s, n) == \A i \in 1..Len(s) : s[i] = n + i

Chained(w, a, b) ==
  \E off \in [1..(Len(w) + 1) -> Nat] :
    /\ off[1] = a /\ off[Len(w) + 1] = b
    /\ \A i \in 1..(Len(w) + 1) : off[i] <= b
    /\ \A i \in 1..Len(w) : Run(w[i], off[i]) /\ off[i + 1] = off[i] + Len(w[i])

LEMMA RunEmpty == ASSUME NEW n \in Nat PROVE Run(<<>>, n)
<1>1. Len(<<>>) = 0  BY EmptySeq
<1> QED BY <1>1 DEF Run

LEMMA RunConcat ==
  ASSUME NEW s \in Bytes, NEW t \in Bytes, NEW n \in Nat,
         Run(s, n), Run(t, n + Len(s))
  PROVE  Run(s \o t, n) /\ Len(s \o t) = Len(s) + Len(t)
<1>1. PICK l, m \in Nat : l = Len(s) /\ m = Len(t)  BY LenProperties DEF Bytes
<1>2. /\ Len(s \o t) = l + m
      /\ \A i \in 1..(l + m) : (s \o t)[i] = IF i <= l THEN s[i] ELSE t[i - l]
  BY <1>1, ConcatProperties DEF Bytes
<1>3. ASSUME NEW i \in 1..(l + m) PROVE (s \o t)[i] = n + i
  <2>1. CASE i <= l
    <3>1. i \in 1..l  BY <2>1
    <3> QED BY <1>1, <1>2, <2>1, <3>1 DEF Run
  <2>2. CASE ~(i <= l)
    <3>1. i - l \in 1..m /\ n + l + (i - l) = n + i  BY <2>2
    <3>2. t[i - l] = n + l + (i - l)  BY <1>1, <3>1 DEF Run
    <3> QED BY <1>2, <2>2, <3>1, <3>2
  <2> QED BY <2>1, <2>2
<1> QED BY <1>1, <1>2, <1>3 DEF Run

LEMMA RunAppend ==
  ASSUME NEW s \in Bytes, NEW n \in Nat, NEW x \in Nat, Run(s, n), x = n + Len(s) + 1
  PROVE  /\ Run(Append(s, x), n) /\ Append(s, x) \in Bytes
         /\ Len(Append(s, x)) = Len(s) + 1
<1>1. PICK l \in Nat : l = Len(s)  BY LenProperties DEF Bytes
<1>2. /\ Append(s, x) \in Bytes /\ Len(Append(s, x)) = l + 1
      /\ \A i \in 1..l : Append(s, x)[i] = s[i]
      /\ Append(s, x)[l + 1] = x
  BY <1>1, AppendProperties DEF Bytes
<1>3. \A i \in 1..(l + 1) : i \in 1..l \/ i = l + 1  OBVIOUS
<1>4. n + l + 1 = n + (l + 1)  OBVIOUS
<1> QED BY <1>1, <1>2, <1>3, <1>4 DEF Run

(* A read takes the first bytes of a run and leaves the rest of it.        *)
LEMMA RunChunk ==
  ASSUME NEW b \in Bytes, NEW n \in Nat, Run(b, n)
  PROVE  Run(Chunk(b), n) /\ Run(Rest(b), n + Len(Chunk(b)))
<1>1. PICK c, r \in Nat : c = Len(Chunk(b)) /\ r = Len(Rest(b))  BY ChunkFacts
<1>2. /\ Len(b) = c + r
      /\ \A i \in 1..c : Chunk(b)[i] = b[i]
      /\ \A i \in 1..r : Rest(b)[i] = b[c + i]
  BY <1>1, ChunkFacts
<1>3. \A i \in 1..c : i \in 1..(c + r)  OBVIOUS
<1>4. \A i \in 1..r : c + i \in 1..(c + r) /\ n + (c + i) = n + c + i  OBVIOUS
<1> QED BY <1>1, <1>2, <1>3, <1>4 DEF Run

LEMMA ChainEmpty == ASSUME NEW a \in Nat PROVE Chained(<<>>, a, a)
<1> DEFINE off == [i \in 1..1 |-> a]
<1>1. Len(<<>>) = 0  BY EmptySeq
<1>2. off \in [1..(0 + 1) -> Nat] /\ off[1] = a /\ off[0 + 1] = a  OBVIOUS
<1>3. \A i \in 1..(0 + 1) : off[i] <= a  OBVIOUS
<1> HIDE DEF off
<1>4. \A i \in 1..0 : FALSE  OBVIOUS
<1> QED BY <1>1, <1>2, <1>3, <1>4 DEF Chained

LEMMA ChainOrder ==
  ASSUME NEW w \in Seq(Bytes), NEW a, NEW b, Chained(w, a, b)
  PROVE  a \in Nat /\ b \in Nat /\ a <= b
<1>1. PICK n \in Nat : n = Len(w)  BY LenProperties
<1>2. 1 \in 1..(n + 1) /\ n + 1 \in 1..(n + 1)  OBVIOUS
<1> QED BY <1>1, <1>2 DEF Chained

(* A message more at the end of the chain ...                              *)
LEMMA ChainAppend ==
  ASSUME NEW w \in Seq(Bytes), NEW a, NEW b, Chained(w, a, b),
         NEW c \in Bytes, Run(c, b)
  PROVE  Chained(Append(w, c), a, b + Len(c))
<1>1. PICK n, m \in Nat : n = Len(w) /\ m = Len(c)  BY LenProperties DEF Bytes
<1>2. b \in Nat  BY ChainOrder
<1>3. PICK off \in [1..(n + 1) -> Nat] :
        /\ off[1] = a /\ off[n + 1] = b
        /\ \A i \in 1..(n + 1) : off[i] <= b
        /\ \A i \in 1..n : Run(w[i], off[i]) /\ off[i + 1] = off[i] + Len(w[i])
  BY <1>1 DEF Chained
<1> DEFINE new == [i \in 1..(n + 2) |-> IF i = n + 2 THEN b + m ELSE off[i]]
<1>4. \A i \in 1..(n + 2) : i = n + 2 \/ i \in 1..(n + 1)  OBVIOUS
<1>5. new \in [1..(n + 2) -> Nat]
  <2>1. b + m \in Nat  BY <1>2
  <2> QED BY <1>4, <2>1
<1>6. /\ \A i \in 1..(n + 1) : new[i] = off[i]
      /\ new[n + 2] = b + m
  OBVIOUS
<1> HIDE DEF new
<1>7. new[1] = a  BY <1>3, <1>6
<1>8. \A i \in 1..(n + 2) : new[i] <= b + m
  <2>1. \A k \in Nat : k <= b => k <= b + m  BY <1>2
  <2>2. b + m <= b + m  BY <1>2
  <2> QED BY <1>3, <1>4, <1>6, <2>1, <2>2
<1>9. /\ Len(Append(w, c)) = n + 1
      /\ \A i \in 1..n : Append(w, c)[i] = w[i]
      /\ Append(w, c)[n + 1] = c
  BY <1>1, AppendProperties
<1>10. ASSUME NEW i \in 1..(n + 1)
       PROVE  /\ Run(Append(w, c)[i], new[i])
              /\ new[i + 1] = new[i] + Len(Append(w, c)[i])
  <2>1. CASE i \in 1..n
    <3>1. i \in 1..(n + 1) /\ i + 1 \in 1..(n + 1)  BY <2>1
    <3> QED BY <1>3, <1>6, <1>9, <2>1, <3>1
  <2>2. CASE i = n + 1
    <3>1. n + 1 \in 1..(n + 1) /\ i + 1 = n + 2  BY <2>2
    <3> QED BY <1>1, <1>3, <1>6, <1>9, <2>2, <3>1
  <2>3. i \in 1..n \/ i = n + 1  OBVIOUS
  <2> QED BY <2>1, <2>2, <2>3
<1>11. n + 1 + 1 = n + 2  OBVIOUS
<1> QED BY <1>1, <1>5, <1>6, <1>7, <1>8, <1>9, <1>10, <1>11 DEF Chained

(* ... and one less at its start.                                          *)
LEMMA ChainTail ==
  ASSUME NEW w \in Seq(Bytes), w # <<>>, NEW a, NEW b, Chained(w, a, b)
  PROVE  /\ Head(w) \in Bytes /\ Tail(w) \in Seq(Bytes)
         /\ Run(Head(w), a) /\ Chained(Tail(w), a + Len(Head(w)), b)
<1>1. PICK n \in Nat : Len(w) = n + 1 /\ n = Len(w) - 1
  <2>1. Len(w) \in Nat \ {0}  BY EmptySeq
  <2>2. \A k \in Nat \ {0} : k - 1 \in Nat /\ k = k - 1 + 1  OBVIOUS
  <2> QED BY <2>1, <2>2
<1>2. PICK off \in [1..(n + 2) -> Nat] :
        /\ off[1] = a /\ off[n + 2] = b
        /\ \A i \in 1..(n + 2) : off[i] <= b
        /\ \A i \in 1..(n + 1) : Run(w[i], off[i]) /\ off[i + 1] = off[i] + Len(w[i])
  <2>1. n + 1 + 1 = n + 2  OBVIOUS
  <2> QED BY <1>1, <2>1 DEF Chained
<1>3. /\ Head(w) \in Bytes /\ Tail(w) \in Seq(Bytes) /\ Head(w) = w[1]
      /\ Len(Tail(w)) = n /\ \A i \in 1..n : Tail(w)[i] = w[i + 1]
  BY <1>1, HeadTailProperties
<1> DEFINE new == [i \in 1..(n + 1) |-> off[i + 1]]
<1>4. \A i \in 1..(n + 1) : i + 1 \in 1..(n + 2)  OBVIOUS
<1>5. new \in [1..(n + 1) -> Nat]  BY <1>4
<1>6. \A i \in 1..(n + 1) : new[i] = off[i + 1]  OBVIOUS
<1> HIDE DEF new
<1>7. 1 \in 1..(n + 1) /\ 1 + 1 = 2 /\ n + 1 \in 1..(n + 1) /\ n + 1 + 1 = n + 2
  OBVIOUS
<1>8. Run(w[1], a) /\ off[1 + 1] = a + Len(w[1])  BY <1>2, <1>7
<1>9. new[1] = a + Len(Head(w)) /\ new[n + 1] = b  BY <1>2, <1>3, <1>6, <1>7, <1>8
<1>10. \A i \in 1..(n + 1) : new[i] <= b  BY <1>2, <1>4, <1>6
<1>11. ASSUME NEW i \in 1..n
       PROVE  /\ Run(Tail(w)[i], new[i])
              /\ new[i + 1] = new[i] + Len(Tail(w)[i])
  <2>1. i \in 1..(n + 1) /\ i + 1 \in 1..(n + 1)  OBVIOUS
  <2> QED BY <1>2, <1>3, <1>6, <2>1
<1> QED BY <1>3, <1>5, <1>8, <1>9, <1>10, <1>11 DEF Chained

-----------------------------------------------------------------------------
(* The inductive invariant of the streams: what e sent is what its peer    *)
(* was handed, what the reader there buffers, the messages of the tunnel   *)
(* and the buffer of e, each where the one before it ends, as long as the  *)
(* buffers still go anywhere.                                              *)
Outgoing(e, b) ==
  reader[e]["in"] = "open" /\ ~Gone(e) =>
    Run(buf[e]["out"], b) /\ b + Len(buf[e]["out"]) = Len(sent[e])

Incoming(p, a) ==
  reader[p]["out"] # "error" /\ ~Gone(p) =>
    Run(buf[p]["in"], Len(got[p])) /\ a = Len(got[p]) + Len(buf[p]["in"])

Between(e, p, a, b) ==
  /\ Chained(wire[e], a, b) /\ b <= Len(sent[e]) /\ Len(got[p]) <= a
  /\ Outgoing(e, b) /\ Incoming(p, a)

Streamed(e, p) ==
  Run(sent[e], 0) /\ Run(got[p], 0) /\ \E a, b \in Nat : Between(e, p, a, b)

StreamInv == TypeOK /\ \A e \in Ends : Streamed(e, Peer(e))

LEMMA InitStream == Init => StreamInv
<1>1. ASSUME Init, NEW e \in Ends PROVE Streamed(e, Peer(e))
  <2>1. PICK p \in Ends : p = Peer(e)  BY EndFacts
  <2>2. /\ sent[e] = <<>> /\ got[p] = <<>> /\ wire[e] = <<>>
        /\ buf[e]["out"] = <<>> /\ buf[p]["in"] = <<>>
    BY <1>1, EndFacts DEF Init, PerFlow
  <2>3. Len(<<>>) = 0 /\ Run(<<>>, 0) /\ Chained(<<>>, 0, 0)
    BY EmptySeq, RunEmpty, ChainEmpty
  <2>4. Between(e, p, 0, 0)  BY <2>2, <2>3 DEF Between, Outgoing, Incoming
  <2>5. Streamed(e, p)  BY <2>2, <2>3, <2>4 DEF Streamed
  <2> QED BY <2>1, <2>5
<1> QED BY <1>1, InitType DEF StreamInv

(* A step that leaves the stream from q to p alone, but may take away what *)
(* its ends still owe to it.                                               *)
LEMMA StreamKept ==
  ASSUME NEW q \in Ends, NEW p \in Ends, Streamed(q, p),
         sent'[q] = sent[q], got'[p] = got[p], wire'[q] = wire[q],
         reader'[q]["in"] = "open" /\ ~Gone(q)' =>
           /\ reader[q]["in"] = "open" /\ ~Gone(q)
           /\ buf'[q]["out"] = buf[q]["out"],
         reader'[p]["out"] # "error" /\ ~Gone(p)' =>
           /\ reader[p]["out"] # "error" /\ ~Gone(p)
           /\ buf'[p]["in"] = buf[p]["in"]
  PROVE  Streamed(q, p)'
<1>1. ASSUME NEW a \in Nat, NEW b \in Nat, Between(q, p, a, b)
      PROVE  Between(q, p, a, b)'
  <2>1. Outgoing(q, b)'  BY <1>1 DEF Between, Outgoing
  <2>2. Incoming(p, a)'  BY <1>1 DEF Between, Incoming
  <2> QED BY <1>1, <2>1, <2>2 DEF Between
<1> QED BY <1>1 DEF Streamed

(* The same, told by the fields that change.                               *)
LEMMA StreamSame ==
  ASSUME NEW q \in Ends, NEW p \in Ends, Streamed(q, p), UNCHANGED dataVars,
         Gone(q) => Gone(q)', Gone(p) => Gone(p)'
  PROVE  Streamed(q, p)'
BY StreamKept DEF dataVars

LEMMA SendStream ==
  ASSUME TypeOK, NEW q \in Ends, NEW p \in Ends, p # q, Streamed(q, p),
         NEW e \in Ends, AppSends(e)
  PROVE  Streamed(q, p)'
<1> DEFINE byte == Len(sent[e]) + 1
<1>1. /\ sent' = [sent EXCEPT ![e] = Append(sent[e], byte)]
      /\ buf' = [buf EXCEPT ![e]["out"] = Append(buf[e]["out"], byte)]
      /\ UNCHANGED <<got, reader, wire, pipe>>
  BY DEF AppSends
<1>2. sent[e] \in Bytes /\ buf[e]["out"] \in Bytes /\ Len(sent[e]) \in Nat /\ byte \in Nat
  BY EndFacts, TypeAt, LenProperties DEF Bytes
<1>3. byte = Len(sent[e]) + 1  OBVIOUS
<1> HIDE DEF byte
<1>4. buf'[p]["in"] = buf[p]["in"]  BY <1>1, EndFacts DEF TypeOK
<1>5. CASE q # e
  <2>1. sent'[q] = sent[q] /\ buf'[q] = buf[q]  BY <1>1, <1>5 DEF TypeOK
  <2> QED BY <1>1, <1>4, <2>1, StreamKept DEF Gone
<1>6. CASE q = e
  <2>1. sent'[q] = Append(sent[q], byte) /\ buf'[q]["out"] = Append(buf[q]["out"], byte)
    BY <1>1, <1>6, EndFacts DEF TypeOK
  <2>2. Run(sent'[q], 0) /\ Len(sent'[q]) = Len(sent[q]) + 1
    <3>1. byte = 0 + Len(sent[q]) + 1  BY <1>2, <1>3, <1>6
    <3> QED BY <1>2, <1>6, <2>1, <3>1, RunAppend DEF Streamed
  <2>3. PICK a, b \in Nat : Between(q, p, a, b)  BY DEF Streamed
  <2>4. Outgoing(q, b)'
    <3>1. ASSUME reader[q]["in"] = "open" /\ ~Gone(q)
          PROVE  /\ Run(buf'[q]["out"], b)
                 /\ b + Len(buf'[q]["out"]) = Len(sent'[q])
      <4>1. Run(buf[q]["out"], b) /\ b + Len(buf[q]["out"]) = Len(sent[q])
        BY <2>3, <3>1 DEF Between, Outgoing
      <4>2. byte = b + Len(buf[q]["out"]) + 1  BY <1>3, <1>6, <4>1
      <4>3. Run(buf'[q]["out"], b) /\ Len(buf'[q]["out"]) = Len(buf[q]["out"]) + 1
        BY <1>2, <1>6, <2>1, <4>1, <4>2, RunAppend
      <4>4. Len(buf[q]["out"]) \in Nat  BY <1>2, <1>6, LenProperties DEF Bytes
      <4> QED BY <2>2, <4>1, <4>3, <4>4
    <3> QED BY <1>1, <3>1 DEF Outgoing, Gone
  <2>5. Incoming(p, a)'
    BY <1>1, <1>4, <2>3 DEF Between, Incoming, Gone
  <2>6. b <= Len(sent'[q])  BY <1>2, <1>6, <2>2, <2>3 DEF Between
  <2>7. Between(q, p, a, b)'  BY <1>1, <2>3, <2>4, <2>5, <2>6 DEF Between
  <2> QED BY <1>1, <2>2, <2>7 DEF Streamed
<1> QED BY <1>5, <1>6

LEMMA ArriveStream ==
  ASSUME TypeOK, NEW q \in Ends, NEW p \in Ends, p = Peer(q), p # q, Streamed(q, p),
         NEW e \in Ends, Arrive(e)
  PROVE  Streamed(q, p)'
<1>0. UNCHANGED <<sent, got, reader, pipe>>  BY DEF Arrive
<1>1. CASE e = q
  <2>1. wire'[q] = wire[q] /\ buf'[q]["out"] = buf[q]["out"] /\ buf'[p] = buf[p]
    BY <1>1, EndFacts DEF Arrive, TypeOK
  <2> QED BY <1>0, <2>1, StreamKept DEF Gone
<1>2. CASE e = p
  <2> DEFINE head == Head(wire[q])
  <2>1. Peer(e) = q /\ wire[q] # <<>> /\ wire[q] \in Seq(Bytes)
    BY <1>2, EndFacts, TypeAt DEF Arrive, Blocked
  <2>2. /\ wire'[q] = Tail(wire[q]) /\ buf'[q] = buf[q]
        /\ ~Gone(p) => buf'[p]["in"] = buf[p]["in"] \o head
    <3>1. wire' = [wire EXCEPT ![q] = Tail(wire[q])]  BY <2>1 DEF Arrive
    <3>2. buf' = [buf EXCEPT ![p]["in"] =
                    IF Gone(p) THEN buf[p]["in"] ELSE buf[p]["in"] \o head]
      BY <1>2, <2>1 DEF Arrive
    <3> HIDE DEF head
    <3>3. wire'[q] = Tail(wire[q])  BY <3>1 DEF TypeOK
    <3>4. buf'[q] = buf[q]  BY <3>2 DEF TypeOK
    <3>5. ~Gone(p) => buf'[p]["in"] = buf[p]["in"] \o head
      <4>1. "in" \in Flows  BY EndFacts
      <4> QED BY <3>2, <4>1 DEF TypeOK
    <3> QED BY <3>3, <3>4, <3>5
  <2>3. PICK a, b \in Nat : Between(q, p, a, b)  BY DEF Streamed
  <2>4. head \in Bytes /\ Run(head, a) /\ Chained(Tail(wire[q]), a + Len(head), b)
    BY <2>1, <2>3, ChainTail DEF Between
  <2> HIDE DEF head
  <2>5. Len(head) \in Nat /\ Len(got[p]) \in Nat /\ buf[p]["in"] \in Bytes
    BY <2>4, TypeAt, EndFacts, LenProperties DEF Bytes
  <2>10. PICK c \in Nat : c = a + Len(head) /\ Len(got[p]) <= c
    BY <2>3, <2>5 DEF Between
  <2>6. Incoming(p, c)'
    <3>1. ASSUME reader[p]["out"] # "error" /\ ~Gone(p)
          PROVE  /\ Run(buf'[p]["in"], Len(got[p]))
                 /\ c = Len(got[p]) + Len(buf'[p]["in"])
      <4>1. Run(buf[p]["in"], Len(got[p])) /\ a = Len(got[p]) + Len(buf[p]["in"])
        BY <2>3, <3>1 DEF Between, Incoming
      <4>2. /\ Run(buf[p]["in"] \o head, Len(got[p]))
            /\ Len(buf[p]["in"] \o head) = Len(buf[p]["in"]) + Len(head)
        BY <2>4, <2>5, <4>1, RunConcat
      <4>3. Len(buf[p]["in"]) \in Nat  BY <2>5, LenProperties DEF Bytes
      <4>4. c = Len(got[p]) + (Len(buf[p]["in"]) + Len(head))
        <5>1. \A x, y, z \in Nat : x + y + z = x + (y + z)  OBVIOUS
        <5>2. PICK x, y, z \in Nat :
                x = Len(got[p]) /\ y = Len(buf[p]["in"]) /\ z = Len(head)
          BY <2>5, <4>3
        <5>3. a = x + y /\ c = a + z  BY <2>10, <4>1, <5>2
        <5>4. c = x + (y + z)  BY <5>1, <5>3
        <5> QED BY <5>2, <5>4
      <4> QED BY <2>2, <3>1, <4>2, <4>4
    <3> QED BY <1>0, <3>1 DEF Incoming, Gone
  <2>7. Outgoing(q, b)'  BY <1>0, <2>2, <2>3 DEF Between, Outgoing, Gone
  <2>8. Chained(wire'[q], c, b)  BY <2>2, <2>4, <2>10
  <2>9. Between(q, p, c, b)'  BY <1>0, <2>3, <2>6, <2>7, <2>8, <2>10 DEF Between
  <2> QED BY <1>0, <2>9 DEF Streamed
<1> QED BY <1>1, <1>2, EndFacts

LEMMA WriteStream ==
  ASSUME TypeOK, NEW q \in Ends, NEW p \in Ends, p # q, Streamed(q, p),
         NEW e \in Ends, Pass(e, "out")
  PROVE  Streamed(q, p)'
<1> DEFINE chunk == Chunk(buf[e]["out"])
           rest == Rest(buf[e]["out"])
<1>0. /\ UNCHANGED <<sent, got, reader, pipe>> /\ ~Gone(e)
      /\ buf' = [buf EXCEPT ![e]["out"] = rest]
      /\ wire' = IF reader[e]["in"] = "open"
                 THEN [wire EXCEPT ![e] = Append(wire[e], chunk)] ELSE wire
  BY DEF Pass, WriteOn, Running, Gone
<1>1. buf[e]["out"] \in Bytes  BY TypeAt, EndFacts
<1>2. /\ chunk \in Bytes /\ Len(chunk) \in Nat /\ Len(rest) \in Nat
      /\ Len(buf[e]["out"]) = Len(chunk) + Len(rest)
  BY <1>1, ChunkFacts
<1>3. \A n \in Nat : Run(buf[e]["out"], n) => Run(chunk, n) /\ Run(rest, n + Len(chunk))
  BY <1>1, RunChunk
<1> HIDE DEF chunk, rest
<1>4. buf'[p]["in"] = buf[p]["in"]  BY <1>0, EndFacts DEF TypeOK
<1>5. CASE q # e
  <2>1. wire'[q] = wire[q] /\ buf'[q] = buf[q]  BY <1>0, <1>5 DEF TypeOK
  <2> QED BY <1>0, <1>4, <2>1, StreamKept DEF Gone
<1>6. CASE q = e /\ reader[e]["in"] # "open"
  BY <1>0, <1>4, <1>6, StreamKept DEF Gone
<1>7. CASE q = e /\ reader[e]["in"] = "open"
  <2>1. wire'[q] = Append(wire[q], chunk) /\ buf'[q]["out"] = rest
    BY <1>0, <1>7, EndFacts DEF TypeOK
  <2>2. PICK a, b \in Nat : Between(q, p, a, b)  BY DEF Streamed
  <2>3. Run(buf[q]["out"], b) /\ b + Len(buf[q]["out"]) = Len(sent[q])
    BY <1>0, <1>7, <2>2 DEF Between, Outgoing
  <2>9. PICK c \in Nat : c = b + Len(chunk)  BY <1>2
  <2>4. Chained(wire'[q], a, c)
    BY <2>9, <1>2, <1>3, <1>7, <2>1, <2>2, <2>3, ChainAppend, TypeAt, EndFacts DEF Between
  <2>5. c + Len(rest) = Len(sent[q]) /\ c <= Len(sent[q])
    BY <1>2, <1>7, <2>3, <2>9
  <2>6. Outgoing(q, c)'
    <3>1. Run(rest, c)  BY <1>3, <1>7, <2>3, <2>9
    <3> QED BY <1>0, <2>1, <2>5, <3>1 DEF Outgoing
  <2>7. Incoming(p, a)'  BY <1>0, <1>4, <2>2 DEF Between, Incoming, Gone
  <2>8. Between(q, p, a, c)'
    BY <1>0, <2>2, <2>4, <2>5, <2>6, <2>7 DEF Between
  <2> QED BY <1>0, <2>8 DEF Streamed
<1> QED BY <1>5, <1>6, <1>7

LEMMA HandStream ==
  ASSUME TypeOK, NEW q \in Ends, NEW p \in Ends, p # q, Streamed(q, p),
         NEW e \in Ends, Pass(e, "in")
  PROVE  Streamed(q, p)'
<1> DEFINE chunk == Chunk(buf[e]["in"])
           rest == Rest(buf[e]["in"])
<1>0. /\ UNCHANGED <<sent, wire, reader, pipe>> /\ ~Gone(e)
      /\ buf' = [buf EXCEPT ![e]["in"] = rest]
      /\ got' = IF reader[e]["out"] = "error" THEN got
                ELSE [got EXCEPT ![e] = got[e] \o chunk]
  BY EndFacts DEF Pass, WriteOn, Running, Gone
<1>1. buf[e]["in"] \in Bytes  BY TypeAt, EndFacts
<1>2. /\ chunk \in Bytes /\ Len(chunk) \in Nat /\ Len(rest) \in Nat
      /\ Len(buf[e]["in"]) = Len(chunk) + Len(rest)
  BY <1>1, ChunkFacts
<1>3. \A n \in Nat : Run(buf[e]["in"], n) => Run(chunk, n) /\ Run(rest, n + Len(chunk))
  BY <1>1, RunChunk
<1> HIDE DEF chunk, rest
<1>4. buf'[q]["out"] = buf[q]["out"]  BY <1>0, EndFacts DEF TypeOK
<1>5. CASE p # e
  <2>1. got'[p] = got[p] /\ buf'[p] = buf[p]  BY <1>0, <1>5 DEF TypeOK
  <2> QED BY <1>0, <1>4, <2>1, StreamKept DEF Gone
<1>6. CASE p = e /\ reader[e]["out"] = "error"
  BY <1>0, <1>4, <1>6, StreamKept DEF Gone
<1>7. CASE p = e /\ reader[e]["out"] # "error"
  <2>1. got'[p] = got[p] \o chunk /\ buf'[p]["in"] = rest
    BY <1>0, <1>7, EndFacts DEF TypeOK
  <2>2. PICK a, b \in Nat : Between(q, p, a, b)  BY DEF Streamed
  <2>3. Run(buf[p]["in"], Len(got[p])) /\ a = Len(got[p]) + Len(buf[p]["in"])
    BY <1>0, <1>7, <2>2 DEF Between, Incoming
  <2>4. got[p] \in Bytes /\ Len(got[p]) \in Nat  BY TypeAt, EndFacts, LenProperties DEF Bytes
  <2>5. Run(got'[p], 0) /\ Len(got'[p]) = Len(got[p]) + Len(chunk)
    <3>1. 0 + Len(got[p]) = Len(got[p])  BY <2>4
    <3>2. Run(chunk, 0 + Len(got[p])) /\ Run(got[p], 0)
      BY <1>3, <1>7, <2>3, <2>4, <3>1 DEF Streamed
    <3> QED BY <1>2, <2>1, <2>4, <3>2, RunConcat
  <2>6. Run(buf'[p]["in"], Len(got'[p]))
    BY <1>3, <1>7, <2>1, <2>3, <2>4, <2>5
  <2>7. a = Len(got'[p]) + Len(rest) /\ Len(got'[p]) <= a
    <3>1. Len(buf[p]["in"]) = Len(chunk) + Len(rest)  BY <1>2, <1>7
    <3>2. a = Len(got[p]) + (Len(chunk) + Len(rest))  BY <2>3, <3>1
    <3>3. \A x, y, z \in Nat : x + (y + z) = x + y + z /\ x + y <= x + (y + z)
      OBVIOUS
    <3>4. PICK x, y, z \in Nat : x = Len(got[p]) /\ y = Len(chunk) /\ z = Len(rest)
      BY <1>2, <2>4
    <3>5. a = x + (y + z) /\ Len(got'[p]) = x + y  BY <2>5, <3>2, <3>4
    <3>6. a = x + y + z /\ x + y <= a  BY <3>3, <3>5
    <3> QED BY <3>4, <3>5, <3>6
  <2>8. Incoming(p, a)'  BY <2>1, <2>6, <2>7 DEF Incoming
  <2>9. Outgoing(q, b)'  BY <1>0, <1>4, <2>2 DEF Between, Outgoing, Gone
  <2>10. Between(q, p, a, b)'  BY <1>0, <2>2, <2>7, <2>8, <2>9 DEF Between
  <2> QED BY <1>0, <2>5, <2>10 DEF Streamed
<1> QED BY <1>5, <1>6, <1>7

LEMMA StreamStep == StreamInv /\ [Next]_vars => StreamInv'
<1> SUFFICES ASSUME StreamInv, [Next]_vars, NEW q \in Ends PROVE Streamed(q, Peer(q))'
  BY TypeStep DEF StreamInv
<1>0. PICK p \in Ends : p = Peer(q) /\ p # q /\ Streamed(q, p)
  BY EndFacts DEF StreamInv
<1>t. TypeOK  BY DEF StreamInv
<1> SUFFICES Streamed(q, p)'  BY <1>0
<1>1. CASE UNCHANGED vars  BY <1>0, <1>1, StreamSame DEF vars, Gone
<1>2. CASE Accept
  <2>1. \A e \in Ends : Gone(e) => Gone(e)'
    <3>1. pipe[Server] = "none" /\ pipe' = [pipe EXCEPT ![Server] = "connecting"]
      BY <1>2 DEF Accept
    <3> QED BY <1>t, <3>1 DEF TypeOK, Gone
  <2> QED BY <1>0, <1>2, <2>1, StreamSame DEF Accept
<1>3. CASE Tick  BY <1>0, <1>3, StreamSame DEF Tick, Gone
<1>4. ASSUME NEW e \in Ends, AppSends(e) PROVE Streamed(q, p)'
  BY <1>0, <1>t, <1>4, SendStream
<1>5. ASSUME NEW e \in Ends, AppEnds(e) \/ TunnelLost(e) PROVE Streamed(q, p)'
  <2>1. PICK d \in Flows, how \in {"eof", "error"} :
          reader[e][d] = "open" /\ reader' = [reader EXCEPT ![e][d] = how]
    BY <1>5, EndFacts DEF AppEnds, TunnelLost
  <2>2. UNCHANGED <<sent, got, buf, wire, pipe>>  BY <1>5 DEF AppEnds, TunnelLost
  <2>3. \A x \in Ends, c \in Flows :
          /\ reader'[x][c] = "open" => reader[x][c] = "open"
          /\ reader'[x][c] # "error" => reader[x][c] # "error"
    BY <1>t, <2>1 DEF TypeOK
  <2> QED BY <1>0, <2>2, <2>3, StreamKept, EndFacts DEF Gone
<1>6. ASSUME NEW e \in Ends, Arrive(e) PROVE Streamed(q, p)'
  BY <1>0, <1>t, <1>6, ArriveStream
<1>7. ASSUME NEW e \in Ends, Connect(e) PROVE Streamed(q, p)'
  <2>1. PICK s \in {"flowing", "failed"} :
          pipe[e] = "connecting" /\ pipe' = [pipe EXCEPT ![e] = s]
    BY <1>7 DEF Connect
  <2>2. \A x \in Ends : Gone(x) => Gone(x)'  BY <1>t, <2>1 DEF TypeOK, Gone
  <2> QED BY <1>0, <1>7, <2>2, StreamSame DEF Connect
<1>8. ASSUME NEW e \in Ends, NEW d \in Flows, Pass(e, d) PROVE Streamed(q, p)'
  BY <1>0, <1>t, <1>8, WriteStream, HandStream, EndFacts
<1>9. ASSUME NEW e \in Ends, NEW d \in Flows, Raise(e, d) \/ TimeOut(e, d)
      PROVE  Streamed(q, p)'
  BY <1>0, <1>9, StreamSame DEF Raise, TimeOut, Gone
<1>10. ASSUME NEW e \in Ends, Finish(e) PROVE Streamed(q, p)'
  <2>1. UNCHANGED <<sent, got, reader>> /\ wire'[q] = wire[q]
    BY <1>t, <1>10 DEF Finish, Left, TypeOK
  <2>2. ASSUME NEW x \in Ends, ~Gone(x)' PROVE ~Gone(x) /\ buf'[x] = buf[x]
    BY <1>t, <1>10, <2>2 DEF Finish, Gone, TypeOK
  <2> QED BY <1>0, <2>1, <2>2, StreamKept
<1> QED BY <1>1, <1>2, <1>3, <1>4, <1>5, <1>6, <1>7, <1>8, <1>9, <1>10 DEF Next, Step

-----------------------------------------------------------------------------
(* The refinement.                                                         *)
LEMMA RunPrefix ==
  ASSUME NEW s \in Bytes, NEW t \in Bytes, Run(s, 0), Run(t, 0), Len(s) <= Len(t)
  PROVE  Streams!Prefix(s, t)
<1>1. PICK l, m \in Nat : l = Len(s) /\ m = Len(t)  BY LenProperties DEF Bytes
<1>2. \A i \in 1..l : i \in 1..m  BY <1>1
<1>3. \A i \in 1..l : t[i] \in Nat  BY <1>1, <1>2, ElementOfSeq DEF Bytes
<1>4. /\ SubSeq(t, 1, l) \in Seq(Nat)
      /\ Len(SubSeq(t, 1, l)) = IF 1 <= l THEN l - 1 + 1 ELSE 0
      /\ \A i \in 1..(l - 1 + 1) : SubSeq(t, 1, l)[i] = t[1 + i - 1]
  BY <1>3, SubSeqProperties, 1 \in Int, l \in Int
<1>5. /\ (IF 1 <= l THEN l - 1 + 1 ELSE 0) = l /\ l - 1 + 1 = l
      /\ \A i \in 1..l : 1 + i - 1 = i
  OBVIOUS
<1>6. \A i \in 1..l : s[i] = SubSeq(t, 1, l)[i]
  BY <1>1, <1>2, <1>4, <1>5 DEF Run
<1>7. s = SubSeq(t, 1, l)  BY <1>1, <1>4, <1>5, <1>6, SeqEqual DEF Bytes
<1> QED BY <1>1, <1>7 DEF Streams!Prefix

(* What an application was handed is a prefix of what the other one sent.  *)
LEMMA HandedPrefix ==
  StreamInv => \A p \in Ends : Run(got[p], 0) /\ Streams!Prefix(got[p], sent[Peer(p)])
<1> SUFFICES ASSUME StreamInv, NEW p \in Ends
             PROVE  Run(got[p], 0) /\ Streams!Prefix(got[p], sent[Peer(p)])
  OBVIOUS
<1>1. PICK q \in Ends : q = Peer(p) /\ Peer(q) = p  BY EndFacts
<1>2. Streamed(q, p)  BY <1>1 DEF StreamInv
<1>3. PICK a, b \in Nat : Between(q, p, a, b)  BY <1>2 DEF Streamed
<1>4. wire[q] \in Seq(Bytes) /\ got[p] \in Bytes /\ sent[q] \in Bytes
  BY TypeAt, EndFacts DEF StreamInv
<1>5. a <= b /\ b <= Len(sent[q]) /\ Len(got[p]) <= a
  BY <1>3, <1>4, ChainOrder DEF Between
<1>6. Len(got[p]) \in Nat /\ Len(sent[q]) \in Nat  BY <1>4, LenProperties DEF Bytes
<1>7. Len(got[p]) <= Len(sent[q])  BY <1>5, <1>6
<1> QED BY <1>1, <1>2, <1>4, <1>7, RunPrefix DEF Streamed

LEMMA SendMaps ==
  ASSUME StreamInv, StreamInv', NEW e \in Ends, AppSends(e) PROVE Streams!Send(e)
<1>1. sent[e] \in Bytes /\ sent'[e] \in Bytes  BY DEF StreamInv, TypeOK, Bytes
<1>2. sent' = [sent EXCEPT ![e] = sent'[e]] /\ sent'[e] = Append(sent[e], Len(sent[e]) + 1)
  BY DEF AppSends, StreamInv, TypeOK
<1>3. Len(sent[e]) \in Nat /\ Len(sent'[e]) = Len(sent[e]) + 1
  <2>1. Len(sent[e]) \in Nat  BY <1>1, LenProperties DEF Bytes
  <2>2. Len(sent[e]) + 1 \in Nat  BY <2>1
  <2> QED BY <1>1, <1>2, <2>1, <2>2, AppendProperties DEF Bytes
<1>4. Len(sent[e]) <= Len(sent'[e]) /\ sent'[e] # sent[e]  BY <1>3
<1>5. Run(sent[e], 0) /\ Run(sent'[e], 0)  BY DEF StreamInv, Streamed
<1>6. Streams!Prefix(sent[e], sent'[e])  BY <1>1, <1>4, <1>5, RunPrefix
<1>7. pipe[e] # "closed" /\ UNCHANGED <<got, pipe>>  BY DEF AppSends, Connected
<1> QED BY <1>2, <1>4, <1>6, <1>7 DEF Streams!Send, Streams!Grows

LEMMA HandMaps ==
  ASSUME StreamInv, StreamInv', NEW e \in Ends, Pass(e, "in"), got' # got
  PROVE  Streams!Hand(e)
<1>0. TypeOK  BY DEF StreamInv
<1>1. got[e] \in Bytes /\ got'[e] \in Bytes /\ buf[e]["in"] \in Bytes
  BY EndFacts DEF StreamInv, TypeOK, Bytes
<1>2. got' = [got EXCEPT ![e] = got[e] \o Chunk(buf[e]["in"])]
  BY EndFacts DEF Pass, WriteOn
<1>3. /\ got' = [got EXCEPT ![e] = got'[e]] /\ got'[e] # got[e]
      /\ got'[e] = got[e] \o Chunk(buf[e]["in"])
  BY <1>0, <1>2 DEF TypeOK
<1>4. Len(got[e]) <= Len(got'[e])
  <2>1. PICK l, m \in Nat : l = Len(got[e]) /\ m = Len(Chunk(buf[e]["in"]))
    BY <1>1, ChunkFacts, LenProperties DEF Bytes
  <2>2. Len(got'[e]) = l + m
    BY <1>1, <1>3, <2>1, ChunkFacts, ConcatProperties DEF Bytes
  <2>3. l <= l + m  OBVIOUS
  <2> QED BY <2>1, <2>2, <2>3
<1>5. Run(got[e], 0) /\ Run(got'[e], 0) /\ Streams!Prefix(got'[e], sent'[Peer(e)])
  <2>1. Run(got[e], 0)  BY HandedPrefix
  <2>2. (\A p \in Ends : Run(got[p], 0) /\ Streams!Prefix(got[p], sent[Peer(p)]))'
    BY HandedPrefix, PTL
  <2> QED BY <2>1, <2>2
<1>6. Streams!Prefix(got[e], got'[e])  BY <1>1, <1>4, <1>5, RunPrefix
<1>7. pipe[e] # "closed" /\ UNCHANGED <<sent, pipe>>  BY DEF Pass, Running
<1> QED BY <1>3, <1>5, <1>6, <1>7 DEF Streams!Hand, Streams!Grows

LEMMA CloseMaps ==
  ASSUME TypeOK, NEW e \in Ends, Finish(e) PROVE Streams!Close(e)
<1>1. /\ pipe[e] # "closed" /\ UNCHANGED <<sent, got>>
      /\ pipe' = [pipe EXCEPT ![e] = "closed"]
  BY DEF Finish
<1>2. [x \in Ends |-> pipe'[x] # "closed"]
        = [[x \in Ends |-> pipe[x] # "closed"] EXCEPT ![e] = FALSE]
  BY <1>1 DEF TypeOK
<1> QED BY <1>1, <1>2 DEF Streams!Close

LEMMA InitMaps == Init => Streams!BInit
BY EndFacts DEF Init, Streams!BInit

LEMMA StepMaps ==
  StreamInv /\ StreamInv' /\ [Next]_vars => [Streams!BNext]_(Streams!bvars)
<1> SUFFICES ASSUME StreamInv, StreamInv', [Next]_vars
             PROVE  [Streams!BNext]_(Streams!bvars)
  OBVIOUS
<1>0. TypeOK  BY DEF StreamInv
<1>1. ASSUME UNCHANGED <<sent, got>>,
             \A x \in Ends : (pipe'[x] # "closed") = (pipe[x] # "closed")
      PROVE  UNCHANGED Streams!bvars
  BY <1>1 DEF Streams!bvars
<1>2. CASE UNCHANGED vars  BY <1>1, <1>2 DEF vars, dataVars
<1>3. CASE Accept
  <2>1. pipe[Server] = "none" /\ pipe' = [pipe EXCEPT ![Server] = "connecting"]
        /\ UNCHANGED <<sent, got>>
    BY <1>3 DEF Accept, dataVars
  <2> QED BY <1>0, <1>1, <2>1 DEF TypeOK
<1>4. CASE Tick  BY <1>1, <1>4 DEF Tick, dataVars
<1>5. ASSUME NEW e \in Ends, AppSends(e) PROVE Streams!BNext
  BY <1>5, SendMaps DEF Streams!BNext
<1>6. ASSUME NEW e \in Ends, AppEnds(e) \/ TunnelLost(e) \/ Arrive(e)
      PROVE  UNCHANGED Streams!bvars
  BY <1>1, <1>6 DEF AppEnds, TunnelLost, Arrive
<1>7. ASSUME NEW e \in Ends, Connect(e) PROVE UNCHANGED Streams!bvars
  <2>1. PICK s \in {"flowing", "failed"} :
          /\ pipe[e] = "connecting" /\ pipe' = [pipe EXCEPT ![e] = s]
          /\ UNCHANGED <<sent, got>>
    BY <1>7 DEF Connect, dataVars
  <2> QED BY <1>0, <1>1, <2>1 DEF TypeOK
<1>8. ASSUME NEW e \in Ends, NEW d \in Flows, Pass(e, d)
      PROVE  Streams!BNext \/ UNCHANGED Streams!bvars
  <2>1. UNCHANGED <<sent, pipe>>  BY <1>8 DEF Pass
  <2>2. CASE got' = got  BY <1>1, <2>1, <2>2
  <2>3. CASE got' # got
    <3>1. d = "in"  BY <1>8, <2>3, EndFacts DEF Pass, WriteOn
    <3> QED BY <1>8, <2>3, <3>1, HandMaps DEF Streams!BNext
  <2> QED BY <2>2, <2>3
<1>9. ASSUME NEW e \in Ends, NEW d \in Flows, Raise(e, d) \/ TimeOut(e, d)
      PROVE  UNCHANGED Streams!bvars
  BY <1>1, <1>9 DEF Raise, TimeOut, dataVars
<1>10. ASSUME NEW e \in Ends, Finish(e) PROVE Streams!BNext
  BY <1>0, <1>10, CloseMaps DEF Streams!BNext
<1> QED BY <1>2, <1>3, <1>4, <1>5, <1>6, <1>7, <1>8, <1>9, <1>10, <1>1 DEF Next, Step

(* The pipes of both ends, with the tunnel between them, implement two     *)
(* streams of bytes: whatever the size of a read, whichever flow ends      *)
(* first and however, an application is handed a prefix of what the other  *)
(* one sent, in order and each byte once, and nothing once it is closed.   *)
THEOREM PipesAreStreams == Spec => ImplementsStreams
<1>1. Spec => []StreamInv  BY InitStream, StreamStep, PTL DEF Spec
<1> QED BY <1>1, InitMaps, StepMaps, PTL DEF Spec, ImplementsStreams, Streams!BSpec
=============================================================================
