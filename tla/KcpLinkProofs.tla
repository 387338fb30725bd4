---------------------------- MODULE KcpLinkProofs ----------------------------
(***************************************************************************)
(* The inductive invariant IInv of KcpLink, for every value of the         *)
(* constants, and the safety properties that follow from it; and that      *)
(* KcpLink implements MessageStream, its window edges only advance, and no *)
(* datagram is larger than the mtu.                                        *)
(***************************************************************************)
EXTENDS KcpLinkTypes

(***************************************************************************)
(* Sequences of fragments                                                  *)
(***************************************************************************)
LEMMA AgreesGrown ==
  ASSUME NEW s \in Seq(Frag), NEW t \in Seq(Frag), NEW u \in Seq(Frag), NEW k \in Nat,
         Agrees(s, t, k), k + Len(s) <= Len(t)
  PROVE  Agrees(s, t \o u, k)
<1>1. Len(s) \in Nat /\ Len(t) \in Nat /\ Len(u) \in Nat  BY LenProperties
<1>2. \A i \in 1..(Len(t) + Len(u)) :
        (t \o u)[i] = IF i <= Len(t) THEN t[i] ELSE u[i - Len(t)]
  BY ConcatProperties
<1>3. ASSUME NEW i \in 1..Len(s) PROVE s[i] = (t \o u)[k + i]
  <2>1. k + i \in 1..(Len(t) + Len(u)) /\ k + i <= Len(t)  BY <1>1
  <2>2. s[i] = t[k + i]  BY DEF Agrees
  <2> QED BY <2>1, <2>2, <1>2
<1> QED BY <1>3 DEF Agrees

LEMMA AgreesConcat ==
  ASSUME NEW s \in Seq(Frag), NEW t \in Seq(Frag), NEW u \in Seq(Frag), NEW k \in Nat,
         Agrees(s, t, k), Agrees(u, t, k + Len(s))
  PROVE  Agrees(s \o u, t, k)
<1>1. Len(s) \in Nat /\ Len(u) \in Nat  BY LenProperties
<1>2. /\ Len(s \o u) = Len(s) + Len(u)
      /\ \A i \in 1..(Len(s) + Len(u)) :
           (s \o u)[i] = IF i <= Len(s) THEN s[i] ELSE u[i - Len(s)]
  BY ConcatProperties
<1>3. ASSUME NEW i \in 1..(Len(s) + Len(u)) PROVE (s \o u)[i] = t[k + i]
  <2>1. CASE i <= Len(s)
    <3>1. i \in 1..Len(s)  BY <1>1, <2>1
    <3>2. s[i] = t[k + i]  BY <3>1 DEF Agrees
    <3> QED BY <1>2, <2>1, <3>2
  <2>2. CASE i > Len(s)
    <3>1. i - Len(s) \in 1..Len(u) /\ k + Len(s) + (i - Len(s)) = k + i  BY <1>1, <2>2
    <3>2. u[i - Len(s)] = t[k + Len(s) + (i - Len(s))]  BY <3>1 DEF Agrees
    <3>3. (s \o u)[i] = u[i - Len(s)]  BY <1>1, <1>2, <2>2
    <3> QED BY <3>1, <3>2, <3>3
  <2> QED BY <1>1, <2>1, <2>2
<1> QED BY <1>2, <1>3 DEF Agrees

(* t itself continues behind t: what concatenation appends.                *)
LEMMA AgreesAppended ==
  ASSUME NEW t \in Seq(Frag), NEW u \in Seq(Frag)
  PROVE  Agrees(u, t \o u, Len(t))
<1>1. Len(t) \in Nat /\ Len(u) \in Nat  BY LenProperties
<1>2. ASSUME NEW i \in 1..Len(u) PROVE u[i] = (t \o u)[Len(t) + i]
  <2>1. Len(t) + i \in 1..(Len(t) + Len(u)) /\ ~(Len(t) + i <= Len(t))
        /\ Len(t) + i - Len(t) = i
    BY <1>1
  <2> QED BY <2>1, ConcatProperties
<1> QED BY <1>2 DEF Agrees

LEMMA PartProperties ==
  ASSUME NEW s \in Seq(Frag), NEW m \in Nat \ {0}, NEW n \in Nat, n <= Len(s), m <= n + 1
  PROVE  /\ SubSeq(s, m, n) \in Seq(Frag)
         /\ Len(SubSeq(s, m, n)) = n - m + 1
         /\ \A i \in 1..(n - m + 1) : SubSeq(s, m, n)[i] = s[m + i - 1]
<1>1. \A i \in m..n : s[i] \in Frag  BY ElementOfSeq
<1> QED BY <1>1, SubSeqProperties

LEMMA AgreesPart ==
  ASSUME NEW s \in Seq(Frag), NEW t \in Seq(Frag), NEW k \in Nat,
         NEW m \in Nat \ {0}, NEW n \in Nat, n <= Len(s), m <= n + 1, Agrees(s, t, k),
         NEW d \in Nat, d = k + m - 1
  PROVE  Agrees(SubSeq(s, m, n), t, d)
<1>0. Len(s) \in Nat  BY LenProperties
<1>1. /\ Len(SubSeq(s, m, n)) = n - m + 1
      /\ \A i \in 1..(n - m + 1) : SubSeq(s, m, n)[i] = s[m + i - 1]
  BY PartProperties
<1>2. ASSUME NEW i \in 1..(n - m + 1) PROVE s[m + i - 1] = t[d + i]
  <2>1. m + i - 1 \in 1..Len(s) /\ k + (m + i - 1) = d + i  BY <1>0
  <2>2. s[m + i - 1] = t[k + (m + i - 1)]  BY <2>1 DEF Agrees
  <2> QED BY <2>1, <2>2
<1> QED BY <1>1, <1>2 DEF Agrees

LEMMA SubSeqWhole == ASSUME NEW s \in Seq(Frag) PROVE Agrees(s, s, 0)
<1>1. \A i \in 1..Len(s) : 0 + i = i  BY LenProperties
<1> QED BY <1>1 DEF Agrees

(* A message behind well formed messages.                                  *)
LEMMA WellFormedGrown ==
  ASSUME NEW s \in Seq(Frag), WellFormed(s), NEW u \in Seq(Frag), NEW c,
         Len(u) < WND_RCV,
         \A i \in 1..Len(u) : u[i].frg = Len(u) - i /\ u[i].msg = c
  PROVE  WellFormed(s \o u)
<1> DEFINE t == s \o u
<1>1. Len(s) \in Nat /\ Len(u) \in Nat /\ WND_RCV \in Nat  BY LenProperties, ConstantFacts
<1>2. /\ Len(t) = Len(s) + Len(u)
      /\ \A i \in 1..(Len(s) + Len(u)) : t[i] = IF i <= Len(s) THEN s[i] ELSE u[i - Len(s)]
  BY ConcatProperties
<1> HIDE DEF t
<1>3. ASSUME NEW i \in 1..Len(s)
      PROVE  /\ t[i].frg + 1 < WND_RCV
             /\ \A j \in 0..t[i].frg : /\ i + j <= Len(t)
                                       /\ t[i + j].frg = t[i].frg - j
                                       /\ t[i + j].msg = t[i].msg
  <2>1. t[i] = s[i]  BY <1>1, <1>2
  <2>2. s[i].frg \in Nat
    <3>1. s[i] \in Frag  BY ElementOfSeq
    <3> QED BY <3>1 DEF Frag
  <2>3. s[i].frg + 1 < WND_RCV  BY DEF WellFormed
  <2>4. ASSUME NEW j \in 0..s[i].frg
        PROVE  /\ i + j <= Len(t) /\ t[i + j].frg = s[i].frg - j /\ t[i + j].msg = s[i].msg
    <3>1. i + j <= Len(s) /\ s[i + j].frg = s[i].frg - j /\ s[i + j].msg = s[i].msg
      BY DEF WellFormed
    <3>2. i + j \in 1..(Len(s) + Len(u))  BY <1>1, <2>2, <3>1
    <3>3. t[i + j] = s[i + j]  BY <3>1, <3>2, <1>2
    <3> QED BY <3>1, <3>3, <1>1, <1>2, <2>2
  <2> QED BY <2>1, <2>3, <2>4
<1>4. ASSUME NEW k \in 1..Len(u)
      PROVE  /\ t[Len(s) + k].frg + 1 < WND_RCV
             /\ \A j \in 0..t[Len(s) + k].frg :
                  /\ Len(s) + k + j <= Len(t)
                  /\ t[Len(s) + k + j].frg = t[Len(s) + k].frg - j
                  /\ t[Len(s) + k + j].msg = t[Len(s) + k].msg
  <2>1. ASSUME NEW n \in 1..Len(u)
        PROVE  t[Len(s) + n].frg = Len(u) - n /\ t[Len(s) + n].msg = c
    <3>1. Len(s) + n \in 1..(Len(s) + Len(u)) /\ ~(Len(s) + n <= Len(s)) /\ Len(s) + n - Len(s) = n
      BY <1>1
    <3>2. t[Len(s) + n] = u[n]  BY <3>1, <1>2
    <3> QED BY <3>2
  <2>2. t[Len(s) + k].frg = Len(u) - k /\ t[Len(s) + k].msg = c  BY <2>1
  <2>3. ASSUME NEW j \in 0..(Len(u) - k)
        PROVE  /\ Len(s) + k + j <= Len(t)
               /\ t[Len(s) + k + j].frg = Len(u) - k - j
               /\ t[Len(s) + k + j].msg = c
    <3>1. k + j \in 1..Len(u) /\ Len(s) + k + j = Len(s) + (k + j)
          /\ Len(u) - (k + j) = Len(u) - k - j
      BY <1>1
    <3>2. t[Len(s) + (k + j)].frg = Len(u) - (k + j) /\ t[Len(s) + (k + j)].msg = c
      BY <3>1, <2>1
    <3> QED BY <3>1, <3>2, <1>1, <1>2
  <2>4. Len(u) - k + 1 < WND_RCV  BY <1>1
  <2> QED BY <2>2, <2>3, <2>4
<1>5. ASSUME NEW i \in 1..Len(t)
      PROVE  i \in 1..Len(s) \/ \E k \in 1..Len(u) : i = Len(s) + k
  <2>1. CASE i <= Len(s) BY <2>1, <1>1, <1>2
  <2>2. CASE i > Len(s)
    <3>1. i - Len(s) \in 1..Len(u) /\ i = Len(s) + (i - Len(s))  BY <2>2, <1>1, <1>2
    <3> QED BY <3>1
  <2> QED BY <2>1, <2>2, <1>1, <1>2
<1>6. ASSUME NEW i \in 1..Len(t)
      PROVE  /\ t[i].frg + 1 < WND_RCV
             /\ \A j \in 0..t[i].frg : /\ i + j <= Len(t)
                                       /\ t[i + j].frg = t[i].frg - j
                                       /\ t[i + j].msg = t[i].msg
  <2>1. CASE i \in 1..Len(s)  BY <2>1, <1>3
  <2>2. ASSUME NEW k \in 1..Len(u), i = Len(s) + k
        PROVE  /\ t[i].frg + 1 < WND_RCV
               /\ \A j \in 0..t[i].frg : /\ i + j <= Len(t)
                                         /\ t[i + j].frg = t[i].frg - j
                                         /\ t[i + j].msg = t[i].msg
    BY <2>2, <1>4, Zenon
  <2> QED BY <1>5, <2>1, <2>2, Zenon
<1>7. WellFormed(t)  BY <1>6 DEF WellFormed
<1> QED BY <1>7 DEF t

(***************************************************************************)
(* The parts of the state one direction reads                              *)
(***************************************************************************)
LEMMA TwoEnds == \A e, p \in Ends : p = e \/ p = Peer(e)
BY DEF Ends, Peer

LEMMA EndType ==
  ASSUME TypeOK, NEW i \in Ends
  PROVE  /\ snd_queue[i] \in Seq(Frag) /\ Len(snd_queue[i]) \in Nat
         /\ stream[i] \in Seq(Frag) /\ Len(stream[i]) \in Nat
         /\ rcv_queue[i] \in Seq(Frag) /\ Len(rcv_queue[i]) \in Nat
         /\ got[i] \in Seq(Frag) /\ Len(got[i]) \in Nat
         /\ snd_una[i] \in Nat /\ snd_nxt[i] \in Nat /\ rcv_nxt[i] \in Nat
         /\ \A x \in snd_buf[i] : x \in SndSeg /\ x.sn \in Nat /\ x.frag \in Frag
         /\ \A x \in rcv_buf[i] : x \in RcvSeg /\ x.sn \in Nat /\ x.frag \in Frag
         /\ acklist[i] \subseteq Nat
<1>1. /\ snd_queue[i] \in Seq(Frag) /\ stream[i] \in Seq(Frag)
      /\ rcv_queue[i] \in Seq(Frag) /\ got[i] \in Seq(Frag)
  BY DEF TypeOK
<1>2. /\ Len(snd_queue[i]) \in Nat /\ Len(stream[i]) \in Nat
      /\ Len(rcv_queue[i]) \in Nat /\ Len(got[i]) \in Nat
  BY <1>1, LenProperties
<1>3. /\ snd_una[i] \in Nat /\ snd_nxt[i] \in Nat /\ rcv_nxt[i] \in Nat
      /\ acklist[i] \subseteq Nat
  BY DEF TypeOK
<1>4. /\ \A x \in snd_buf[i] : x \in SndSeg /\ x.sn \in Nat /\ x.frag \in Frag
      /\ \A x \in rcv_buf[i] : x \in RcvSeg /\ x.sn \in Nat /\ x.frag \in Frag
  BY DEF TypeOK, SndSeg, RcvSeg
<1> QED BY <1>1, <1>2, <1>3, <1>4

LEMMA IncomingType ==
  ASSUME TypeOK, NEW i \in Ends
  PROVE  \A s \in Incoming(i) : s \in Segment /\ s.sn \in Nat /\ s.una \in Nat
<1>1. inp[i].segs \subseteq Segment
  <2>1. inp[i] \in InputCall  BY DEF TypeOK
  <2> QED BY <2>1 DEF InputCall
<1>2. UNION net[i] \subseteq Segment
  <2>1. net[i] \in SUBSET (SUBSET Segment)  BY DEF TypeOK
  <2> QED BY <2>1
<1>3. \A s \in Incoming(i) : s \in Segment  BY <1>1, <1>2, Zenon DEF Incoming
<1> QED BY <1>3 DEF Segment

SenderSame(p) ==
  /\ snd_queue'[p] = snd_queue[p] /\ stream'[p] = stream[p]
  /\ snd_buf'[p] = snd_buf[p] /\ snd_una'[p] = snd_una[p] /\ snd_nxt'[p] = snd_nxt[p]

ReceiverSame(q) ==
  /\ rcv_nxt'[q] = rcv_nxt[q] /\ rcv_buf'[q] = rcv_buf[q]
  /\ rcv_queue'[q] = rcv_queue[q] /\ got'[q] = got[q]

(* All that is left of a direction when its two ends keep their numbers:   *)
(* segments may be taken from the network or put into it.                  *)
LEMMA SameDirection ==
  ASSUME IInv, NEW p \in Ends, SenderSame(p), ReceiverSame(Peer(p)),
         DataInv(p, Peer(p))', AckInv(p, Peer(p))'
  PROVE  DirectionInv(p)'
<1> DEFINE q == Peer(p)
<1>1. /\ SenderInv(p) /\ ReceiverInv(p, q) /\ KeptInv(p, q)
      /\ WellFormed(stream[p]) /\ BoundaryInv(q)
  BY DEF IInv, DirectionInv
<1> HIDE DEF q
<1>2. ReceiverSame(q)  BY DEF q
<1>3. SenderInv(p)'  BY <1>1 DEF SenderInv, SenderSame, Carries
<1>4. ReceiverInv(p, q)'  BY <1>1, <1>2 DEF ReceiverInv, SenderSame, ReceiverSame, Carries, InWindow
<1>5. KeptInv(p, q)'  BY <1>1, <1>2 DEF KeptInv, Received, SenderSame, ReceiverSame
<1>6. WellFormed(stream[p])'  BY <1>1 DEF SenderSame
<1>7. BoundaryInv(q)'  BY <1>1, <1>2 DEF BoundaryInv, ReceiverSame
<1> QED BY <1>3, <1>4, <1>5, <1>6, <1>7 DEF DirectionInv, q

LEMMA InitInv == LinkInit => IInv
<1> SUFFICES ASSUME LinkInit PROVE IInv  OBVIOUS
<1>1. TypeOK  BY InitType
<1>2. ASSUME NEW p \in Ends, NEW q \in Ends, q = Peer(p) PROVE DirectionInv(p)
  <2>1. snd_wnd \in Nat  BY ConstantFacts
  <2>2. ASSUME NEW i \in Ends
        PROVE  /\ snd_queue[i] = <<>> /\ snd_buf[i] = {} /\ snd_una[i] = 0
               /\ snd_nxt[i] = 0 /\ rcv_nxt[i] = 0 /\ rcv_buf[i] = {}
               /\ rcv_queue[i] = <<>> /\ acklist[i] = {}
               /\ stream[i] = <<>> /\ got[i] = <<>>
               /\ inp[i].segs = {} /\ net[i] = {}
    BY DEF LinkInit, Init, NoInput
  <2>3. Len(<<>>) = 0  OBVIOUS
  <2>4. \A s, k : Agrees(<<>>, s, k)  BY <2>3 DEF Agrees
  <2>5. SenderInv(p)  BY <2>1, <2>2, <2>3, <2>4 DEF SenderInv
  <2>6. ReceiverInv(p, q)
    <3>1. /\ rcv_nxt[q] = 0 /\ snd_nxt[p] = 0 /\ rcv_buf[q] = {}
          /\ rcv_queue[q] = <<>> /\ got[q] = <<>>
      BY <2>2
    <3>2. Agrees(got[q], stream[p], 0) /\ Agrees(rcv_queue[q], stream[p], Len(got[q]))
      BY <3>1, <2>4
    <3>3. Len(got[q]) + Len(rcv_queue[q]) = rcv_nxt[q]  BY <3>1, <2>3
    <3> QED BY <3>1, <3>2, <3>3 DEF ReceiverInv
  <2>7. Incoming(p) = {} /\ Incoming(q) = {}  BY <2>2 DEF Incoming
  <2>8. DataInv(p, q) /\ AckInv(p, q)  BY <2>2, <2>7 DEF DataInv, AckInv
  <2>9. KeptInv(p, q)  BY <2>2 DEF KeptInv
  <2>10. WellFormed(stream[p]) /\ BoundaryInv(q)
    BY <2>2, <2>3 DEF WellFormed, BoundaryInv
  <2> QED BY <1>2, <2>5, <2>6, <2>8, <2>9, <2>10 DEF DirectionInv
<1>3. \A p \in Ends : DirectionInv(p)  BY <1>2, ConstantFacts
<1> QED BY <1>1, <1>3 DEF IInv

(***************************************************************************)
(* Write: the message is added behind the stream and behind snd_queue.     *)
(***************************************************************************)
LEMMA WriteEffect ==
  ASSUME TypeOK, NEW e \in Ends, Write(e)
  PROVE  \E new \in Seq(Frag) :
           /\ snd_queue'[e] = snd_queue[e] \o new /\ stream'[e] = stream[e] \o new
           /\ Len(new) \in Nat \ {0} /\ Len(new) < WND_RCV
           /\ \A i \in 1..Len(new) : new[i].frg = Len(new) - i /\ new[i].msg = written[e] + 1
           /\ snd_queue' = [snd_queue EXCEPT ![e] = snd_queue[e] \o new]
           /\ stream' = [stream EXCEPT ![e] = stream[e] \o new]
<1>1. PICK len \in MsgLens : ikcp_send(e, len)  BY DEF Write
<1> DEFINE new == Fragments(written[e] + 1, len)
<1>2. len \in Nat /\ written[e] + 1 \in Nat
  <2>1. written[e] \in Nat  BY DEF TypeOK
  <2> QED BY <2>1, BlockAssumption
<1>3. /\ new \in Seq(Frag) /\ Len(new) = FragCount(len)
      /\ \A i \in 1..Len(new) : new[i].frg = Len(new) - i /\ new[i].msg = written[e] + 1
  <2>1. PICK m \in Nat : m = written[e] + 1  BY <1>2
  <2>2. /\ Fragments(m, len) \in Seq(Frag) /\ Len(Fragments(m, len)) = FragCount(len)
        /\ \A i \in 1..FragCount(len) :
             Fragments(m, len)[i].frg = FragCount(len) - i /\ Fragments(m, len)[i].msg = m
    BY <1>2, FragmentsType
  <2> QED BY <2>1, <2>2, Zenon
<1>4. FragCount(len) \in Nat \ {0} /\ FragCount(len) < WND_RCV
  BY <1>1, <1>2, FragCountBounds DEF ikcp_send
<1>5. /\ snd_queue' = [snd_queue EXCEPT ![e] = snd_queue[e] \o new]
      /\ stream' = [stream EXCEPT ![e] = stream[e] \o new]
  BY <1>1 DEF ikcp_send
<1> HIDE DEF new
<1>6. snd_queue'[e] = snd_queue[e] \o new /\ stream'[e] = stream[e] \o new
  BY <1>5 DEF TypeOK
<1> QED BY <1>3, <1>4, <1>5, <1>6

LEMMA WriteInv ==
  ASSUME IInv, NEW e \in Ends, NEW q \in Ends, q = Peer(e), Write(e)
  PROVE  DirectionInv(e)' /\ DirectionInv(q)'
<1>0. TypeOK /\ Peer(q) = e /\ q # e  BY ConstantFacts DEF IInv
<1>1. PICK new \in Seq(Frag) :
           /\ snd_queue'[e] = snd_queue[e] \o new /\ stream'[e] = stream[e] \o new
           /\ Len(new) \in Nat \ {0} /\ Len(new) < WND_RCV
           /\ \A i \in 1..Len(new) : new[i].frg = Len(new) - i /\ new[i].msg = written[e] + 1
           /\ snd_queue' = [snd_queue EXCEPT ![e] = snd_queue[e] \o new]
           /\ stream' = [stream EXCEPT ![e] = stream[e] \o new]
  BY <1>0, WriteEffect
<1>2. UNCHANGED <<snd_buf, snd_una, snd_nxt, rcv_nxt, rcv_buf, rcv_queue, acklist, inp, got, net>>
  BY DEF Write, ikcp_send, rcvVars
<1>3. Incoming(e)' = Incoming(e) /\ Incoming(q)' = Incoming(q)  BY <1>2 DEF Incoming
<1>4. DirectionInv(q)'
  <2>1. SenderSame(q)  BY <1>0, <1>1, <1>2 DEF SenderSame, TypeOK
  <2>2. ReceiverSame(e)  BY <1>2 DEF ReceiverSame
  <2>3. DataInv(q, e) /\ AckInv(q, e)  BY <1>0 DEF IInv, DirectionInv
  <2>4. DataInv(q, e)'  BY <2>1, <2>3, <1>3 DEF DataInv, Carries, SenderSame
  <2>5. AckInv(q, e)'  BY <1>2, <1>3, <2>3 DEF AckInv, Received
  <2> QED BY <1>0, <2>1, <2>2, <2>4, <2>5, SameDirection
<1>5. /\ SenderInv(e) /\ ReceiverInv(e, q) /\ DataInv(e, q) /\ AckInv(e, q)
      /\ KeptInv(e, q) /\ WellFormed(stream[e]) /\ BoundaryInv(q)
  BY DEF IInv, DirectionInv
<1>6. /\ snd_queue[e] \in Seq(Frag) /\ Len(snd_queue[e]) \in Nat
      /\ stream[e] \in Seq(Frag) /\ Len(stream[e]) \in Nat /\ snd_nxt[e] \in Nat
  BY <1>0, EndType
<1>7. snd_nxt[e] + Len(snd_queue[e]) = Len(stream[e])  BY <1>5 DEF SenderInv
<1>8. /\ Len(stream'[e]) = Len(stream[e]) + Len(new)
      /\ Len(snd_queue'[e]) = Len(snd_queue[e]) + Len(new)
      /\ \A n \in Nat : n < snd_nxt[e] => stream'[e][n + 1] = stream[e][n + 1]
  <2>1. /\ Len(stream[e] \o new) = Len(stream[e]) + Len(new)
        /\ \A i \in 1..(Len(stream[e]) + Len(new)) :
             (stream[e] \o new)[i] = IF i <= Len(stream[e]) THEN stream[e][i]
                                     ELSE new[i - Len(stream[e])]
    BY <1>6, ConcatProperties
  <2>2. Len(snd_queue[e] \o new) = Len(snd_queue[e]) + Len(new)
    BY <1>6, ConcatProperties
  <2>3. ASSUME NEW n \in Nat, n < snd_nxt[e]
        PROVE  n + 1 \in 1..(Len(stream[e]) + Len(new)) /\ n + 1 <= Len(stream[e])
    BY <1>1, <1>6, <1>7, <2>3
  <2> QED BY <1>1, <2>1, <2>2, <2>3
<1>9. ASSUME NEW x, x.sn \in Nat, Carries(x, e) PROVE Carries(x, e)'
  BY <1>2, <1>8, <1>9 DEF Carries
<1>10. SenderInv(e)'
  <2>1. Agrees(snd_queue[e], stream[e] \o new, snd_nxt[e])
    BY <1>5, <1>6, <1>7, AgreesGrown DEF SenderInv
  <2>2. Agrees(new, stream[e] \o new, snd_nxt[e] + Len(snd_queue[e]))
    BY <1>6, <1>7, AgreesAppended
  <2>3. stream[e] \o new \in Seq(Frag)  BY <1>6, ConcatProperties
  <2>4. Agrees(snd_queue[e] \o new, stream[e] \o new, snd_nxt[e])
    BY <2>1, <2>2, <2>3, <1>6, AgreesConcat
  <2>5. \A x \in snd_buf[e] : x.sn \in Nat /\ snd_una[e] <= x.sn /\ Carries(x, e)
    BY <1>0, <1>5, EndType DEF SenderInv
  <2>6. \A x \in snd_buf'[e] : snd_una'[e] <= x.sn /\ Carries(x, e)'
    BY <2>5, <1>2, <1>9
  <2>7. snd_nxt'[e] + Len(snd_queue'[e]) = Len(stream'[e])
    <3>1. snd_nxt'[e] = snd_nxt[e] /\ Len(new) \in Nat  BY <1>1, <1>2
    <3>2. \A a, b, c, d \in Nat : a + b = c => a + (b + d) = c + d  OBVIOUS
    <3>3. Len(snd_queue'[e]) = Len(snd_queue[e]) + Len(new)
          /\ Len(stream'[e]) = Len(stream[e]) + Len(new)
      BY <1>8
    <3>4. snd_nxt[e] + (Len(snd_queue[e]) + Len(new)) = Len(stream[e]) + Len(new)
      BY <3>1, <3>2, <1>6, <1>7
    <3> QED BY <3>1, <3>3, <3>4
  <2> QED BY <1>1, <1>2, <1>5, <2>4, <2>6, <2>7 DEF SenderInv
<1>11. ReceiverInv(e, q)'
  <2>1. /\ got[q] \in Seq(Frag) /\ rcv_queue[q] \in Seq(Frag) /\ rcv_nxt[q] \in Nat
        /\ Len(got[q]) \in Nat /\ Len(rcv_queue[q]) \in Nat
        /\ \A x \in rcv_buf[q] : x.sn \in Nat
    BY <1>0, EndType
  <2>2. /\ rcv_nxt[q] <= snd_nxt[e] /\ Len(got[q]) + Len(rcv_queue[q]) = rcv_nxt[q]
        /\ Agrees(got[q], stream[e], 0) /\ Agrees(rcv_queue[q], stream[e], Len(got[q]))
        /\ \A x \in rcv_buf[q] : InWindow(x, q) /\ Carries(x, e)
    BY <1>5 DEF ReceiverInv
  <2>3. 0 + Len(got[q]) <= Len(stream[e]) /\ Len(got[q]) + Len(rcv_queue[q]) <= Len(stream[e])
    <3>1. \A a, b, c, d, f, n \in Nat :
            a + b = n /\ n <= d /\ d + f = c => 0 + a <= c /\ a + b <= c
      OBVIOUS
    <3> QED BY <3>1, <1>6, <1>7, <2>1, <2>2
  <2>4. Agrees(got[q], stream'[e], 0)  BY <1>1, <1>6, <2>1, <2>2, <2>3, AgreesGrown
  <2>5. Agrees(rcv_queue[q], stream'[e], Len(got[q]))
    BY <1>1, <1>6, <2>1, <2>2, <2>3, AgreesGrown
  <2>6. \A x \in rcv_buf[q] : InWindow(x, q) /\ Carries(x, e)'
    BY <2>1, <2>2, <1>9
  <2> QED BY <1>2, <2>2, <2>4, <2>5, <2>6 DEF ReceiverInv, InWindow
<1>12. DataInv(e, q)'
  <2>1. \A s \in Incoming(q) : s.sn \in Nat  BY <1>0, IncomingType
  <2> QED BY <1>3, <1>5, <1>9, <2>1 DEF DataInv
<1>13. AckInv(e, q)' /\ KeptInv(e, q)' /\ BoundaryInv(q)'
  BY <1>2, <1>3, <1>5 DEF AckInv, KeptInv, BoundaryInv, Received
<1>14. WellFormed(stream[e])'
  <2>1. WellFormed(stream[e] \o new)  BY <1>1, <1>5, <1>6, WellFormedGrown
  <2> QED BY <1>1, <2>1
<1>15. DirectionInv(e)'
  BY <1>10, <1>11, <1>12, <1>13, <1>14 DEF DirectionInv
<1> QED BY <1>4, <1>15

(***************************************************************************)
(* Receive and ikcp_input: segments only disappear from what is on the way.*)
(***************************************************************************)
LEMMA FewerSegments ==
  ASSUME IInv, NEW p \in Ends, NEW q \in Ends, q = Peer(p),
         SenderSame(p), ReceiverSame(q), acklist'[q] = acklist[q],
         Incoming(p)' \subseteq Incoming(p), Incoming(q)' \subseteq Incoming(q)
  PROVE  DirectionInv(p)'
<1>1. DataInv(p, q) /\ AckInv(p, q)  BY DEF IInv, DirectionInv
<1>2. DataInv(p, q)'  BY <1>1 DEF DataInv, Carries, SenderSame
<1>3. AckInv(p, q)'  BY <1>1 DEF AckInv, Received, ReceiverSame
<1> QED BY <1>2, <1>3, SameDirection

LEMMA ReceiveInv ==
  ASSUME IInv, NEW e \in Ends, NEW q \in Ends, q = Peer(e), Receive(e)
  PROVE  DirectionInv(e)' /\ DirectionInv(q)'
<1>0. TypeOK /\ Peer(q) = e /\ q # e  BY ConstantFacts DEF IInv
<1>1. PICK d \in net[e] :
        /\ InputStart(e, d)
        /\ net' = [net EXCEPT ![e] = @ \ {d}] \/ UNCHANGED net
  BY DEF Receive
<1>2. \A i \in Ends : SenderSame(i) /\ ReceiverSame(i) /\ acklist'[i] = acklist[i]
  BY <1>1 DEF InputStart, sndVars, rcvVars, histVars, SenderSame, ReceiverSame
<1>3. inp'[e].segs = d /\ inp'[q] = inp[q]
  BY <1>0, <1>1 DEF InputStart, TypeOK
<1>4. net'[e] \subseteq net[e] /\ net'[q] = net[q]
  BY <1>0, <1>1 DEF TypeOK
<1>5. Incoming(q)' = Incoming(q)  BY <1>3, <1>4 DEF Incoming
<1>6. Incoming(e)' \subseteq Incoming(e)
  <2>1. UNION net'[e] \subseteq UNION net[e]  BY <1>4
  <2>2. d \subseteq UNION net[e]  BY <1>1
  <2> QED BY <1>3, <2>1, <2>2 DEF Incoming
<1> QED BY <1>0, <1>2, <1>5, <1>6, FewerSegments

(* ikcp_input at e, seen from the direction in which e sends: segments     *)
(* leave snd_buf only when the other end has received them.                *)
LEMMA AcknowledgedSender ==
  ASSUME IInv, NEW e \in Ends, NEW q \in Ends, q = Peer(e),
         snd_queue'[e] = snd_queue[e], stream'[e] = stream[e], snd_nxt'[e] = snd_nxt[e],
         ReceiverSame(q), acklist'[q] = acklist[q],
         Incoming(e)' \subseteq Incoming(e), Incoming(q)' \subseteq Incoming(q),
         snd_una'[e] \in Nat, snd_una[e] <= snd_una'[e], snd_una'[e] <= snd_nxt[e],
         \A y \in snd_buf'[e] :
           /\ snd_una'[e] <= y.sn
           /\ \E x \in snd_buf[e] : x.sn = y.sn /\ x.frag = y.frag,
         \A n : Has(snd_buf[e], n) => Has(snd_buf'[e], n) \/ Received(q, n)
  PROVE  DirectionInv(e)'
<1>0. TypeOK  BY DEF IInv
<1>1. /\ SenderInv(e) /\ ReceiverInv(e, q) /\ DataInv(e, q) /\ AckInv(e, q)
      /\ KeptInv(e, q) /\ WellFormed(stream[e]) /\ BoundaryInv(q)
  BY DEF IInv, DirectionInv
<1>2. SenderInv(e)'
  <2>1. snd_nxt[e] <= snd_una'[e] + snd_wnd
    <3>1. /\ snd_una[e] \in Nat /\ snd_nxt[e] \in Nat /\ snd_wnd \in Nat
          /\ snd_nxt[e] <= snd_una[e] + snd_wnd
      BY <1>0, <1>1, ConstantFacts DEF TypeOK, SenderInv
    <3> QED BY <3>1
  <2>2. \A y \in snd_buf'[e] : Carries(y, e)'  BY <1>1 DEF SenderInv, Carries
  <2> QED BY <1>1, <2>1, <2>2 DEF SenderInv
<1>3. ReceiverInv(e, q)'  BY <1>1 DEF ReceiverInv, ReceiverSame, Carries, InWindow
<1>4. DataInv(e, q)'  BY <1>1 DEF DataInv, Carries
<1>5. \A n : Received(q, n)' <=> Received(q, n)  BY DEF Received, ReceiverSame
<1>6. AckInv(e, q)'  BY <1>1, <1>5 DEF AckInv, ReceiverSame
<1>7. KeptInv(e, q)'  BY <1>1, <1>5 DEF KeptInv
<1>8. WellFormed(stream[e])' /\ BoundaryInv(q)'
  BY <1>1 DEF BoundaryInv, ReceiverSame
<1> QED BY <1>2, <1>3, <1>4, <1>6, <1>7, <1>8 DEF DirectionInv

(* The handlers' common step, for any buf they leave.                      *)
LEMMA TakeSegmentEffect ==
  ASSUME TypeOK, NEW e \in Ends, NEW q \in Ends, q = Peer(e),
         NEW s \in inp[e].segs, NEW buf, NEW maxack,
         TakeSegment(e, s, buf, maxack), UNCHANGED net
  PROVE  /\ s \in Incoming(e)
         /\ Incoming(e)' \subseteq Incoming(e) /\ Incoming(q)' = Incoming(q)
         /\ UNCHANGED <<snd_queue, snd_nxt, stream, got>>
         /\ snd_buf'[e] = buf /\ snd_una'[e] = Front(buf, snd_nxt[e])
         /\ snd_buf'[q] = snd_buf[q] /\ snd_una'[q] = snd_una[q]
<1>0. q # e  BY ConstantFacts
<1> DEFINE new == [inp[e] EXCEPT !.segs = inp[e].segs \ {s}, !.maxack = maxack]
<1>1. inp' = [inp EXCEPT ![e] = new]  BY DEF TakeSegment
<1>2. inp[e] \in InputCall  BY DEF TypeOK
<1>3. new.segs = inp[e].segs \ {s}  BY <1>2 DEF InputCall
<1> HIDE DEF new
<1>4. inp'[e].segs = inp[e].segs \ {s} /\ inp'[q] = inp[q]
  BY <1>0, <1>1, <1>3 DEF TypeOK
<1>5. /\ Incoming(e)' \subseteq Incoming(e) /\ Incoming(q)' = Incoming(q)
      /\ s \in Incoming(e)
  BY <1>4 DEF Incoming
<1>6. /\ snd_buf'[e] = buf /\ snd_una'[e] = Front(buf, snd_nxt[e])
      /\ snd_buf'[q] = snd_buf[q] /\ snd_una'[q] = snd_una[q]
  BY <1>0 DEF TakeSegment, TypeOK
<1> QED BY <1>5, <1>6 DEF TakeSegment, histVars

LEMMA TakeSegmentSender ==
  ASSUME IInv, NEW e \in Ends, NEW q \in Ends, q = Peer(e),
         NEW s \in inp[e].segs, NEW buf, NEW maxack,
         TakeSegment(e, s, buf, maxack), UNCHANGED net,
         buf \subseteq snd_buf[e],
         \A x \in snd_buf[e] : x \in buf \/ Received(q, x.sn),
         ReceiverSame(q), acklist'[q] = acklist[q]
  PROVE  DirectionInv(e)'
<1>0. TypeOK /\ SenderInv(e)  BY DEF IInv, DirectionInv
<1>1. /\ Incoming(e)' \subseteq Incoming(e) /\ Incoming(q)' = Incoming(q)
      /\ UNCHANGED <<snd_queue, snd_nxt, stream>>
      /\ snd_buf'[e] = buf /\ snd_una'[e] = Front(buf, snd_nxt[e])
  BY <1>0, TakeSegmentEffect
<1>2. /\ snd_una[e] \in Nat /\ snd_nxt[e] \in Nat /\ snd_una[e] <= snd_nxt[e]
      /\ \A x \in buf : x.sn \in Nat /\ snd_una[e] <= x.sn /\ x.sn < snd_nxt[e]
  BY <1>0, EndType DEF SenderInv, Carries
<1>3. /\ Front(buf, snd_nxt[e]) \in Nat
      /\ \A x \in buf : Front(buf, snd_nxt[e]) <= x.sn
      /\ buf # {} => \E x \in buf : x.sn = Front(buf, snd_nxt[e])
      /\ buf = {} => Front(buf, snd_nxt[e]) = snd_nxt[e]
  BY <1>2, FrontType
<1>4. /\ snd_una'[e] \in Nat /\ snd_una[e] <= snd_una'[e] /\ snd_una'[e] <= snd_nxt[e]
  BY <1>1, <1>2, <1>3
<1>5. \A y \in snd_buf'[e] : /\ snd_una'[e] <= y.sn
                             /\ \E x \in snd_buf[e] : x.sn = y.sn /\ x.frag = y.frag
  BY <1>1, <1>3
<1>6. \A n : Has(snd_buf[e], n) => Has(snd_buf'[e], n) \/ Received(q, n)
  BY <1>1 DEF Has
<1> QED BY <1>1, <1>4, <1>5, <1>6, AcknowledgedSender

(* A segment's una acknowledges only what the other end has moved past.    *)
LEMMA AfterUnaKeeps ==
  ASSUME IInv, NEW e \in Ends, NEW q \in Ends, q = Peer(e), NEW s \in Incoming(e)
  PROVE  \A x \in snd_buf[e] : x \in AfterUna(e, s.una) \/ Received(q, x.sn)
<1>1. TypeOK /\ s.una <= rcv_nxt[q]  BY DEF IInv, DirectionInv, AckInv
<1>2. s.una \in Nat /\ rcv_nxt[q] \in Nat  BY <1>1, IncomingType, EndType
<1>3. \A x \in snd_buf[e] : x.sn \in Nat  BY <1>1, EndType
<1> QED BY <1>1, <1>2, <1>3 DEF AfterUna, Received

LEMMA AfterAckKeeps ==
  ASSUME IInv, NEW e \in Ends, NEW q \in Ends, q = Peer(e), NEW s \in Incoming(e),
         s.cmd = "ACK"
  PROVE  \A x \in snd_buf[e] : x \in AfterAck(e, s.una, s.sn) \/ Received(q, x.sn)
<1>1. Received(q, s.sn)  BY DEF IInv, DirectionInv, AckInv
<1> QED BY <1>1, AfterUnaKeeps DEF AfterAck

(***************************************************************************)
(* The move loop at e, seen from the direction in which its peer q sends:  *)
(* g is what e has handed out, queue what it holds in order, buf the       *)
(* segments out of order when the loop starts.                             *)
(***************************************************************************)
LEMMA MoveReadyInv ==
  ASSUME TypeOK, NEW e \in Ends, NEW q \in Ends, NEW buf \in SUBSET RcvSeg,
         NEW queue \in Seq(Frag), NEW g \in Seq(Frag),
         rcv_nxt[e] <= snd_nxt[q],
         Agrees(g, stream[q], 0), Agrees(queue, stream[q], Len(g)),
         Len(g) + Len(queue) = rcv_nxt[e],
         \A x \in buf : InWindow(x, e) /\ Carries(x, q),
         MoveReady(e, buf, queue), got'[e] = g,
         snd_nxt'[q] = snd_nxt[q], stream'[q] = stream[q]
  PROVE  /\ ReceiverInv(q, e)'
         /\ \A n \in Nat : n < rcv_nxt[e] \/ Has(buf, n) => Received(e, n)'
         /\ rcv_nxt'[e] >= rcv_nxt[e]
<1>1. PICK m \in Nat, moved \in Seq(Frag) : Moves(e, buf, queue, m, moved)
  BY MoveReadyEffect
<1>2. /\ Len(moved) = m
      /\ \A i \in 1..m : \E x \in buf : x.sn = rcv_nxt[e] + i - 1 /\ moved[i] = x.frag
  BY <1>1 DEF Moves
<1>3. /\ rcv_nxt'[e] = rcv_nxt[e] + m
      /\ rcv_buf'[e] = {x \in buf : x.sn < rcv_nxt[e] \/ rcv_nxt[e] + m <= x.sn}
      /\ rcv_queue'[e] = queue \o moved
  BY <1>1 DEF Moves, TypeOK
<1>4. /\ rcv_nxt[e] \in Nat /\ snd_nxt[q] \in Nat /\ stream[q] \in Seq(Frag)
      /\ Len(g) \in Nat /\ Len(queue) \in Nat
      /\ \A x \in buf : x.sn \in Nat
  BY EndType, LenProperties DEF RcvSeg
<1>5. rcv_nxt[e] + m <= snd_nxt[q]
  <2>1. CASE m = 0  BY <2>1, <1>4
  <2>2. CASE m # 0
    <3>1. m \in 1..m  BY <2>2
    <3>2. PICK x \in buf : x.sn = rcv_nxt[e] + m - 1  BY <3>1, <1>2
    <3>3. x.sn < snd_nxt[q]  BY DEF Carries
    <3> QED BY <3>2, <3>3, <1>4
  <2> QED BY <2>1, <2>2
<1>6. Agrees(moved, stream[q], rcv_nxt[e])
  <2>1. ASSUME NEW i \in 1..m PROVE moved[i] = stream[q][rcv_nxt[e] + i]
    <3>1. PICK x \in buf : x.sn = rcv_nxt[e] + i - 1 /\ moved[i] = x.frag  BY <1>2
    <3>2. x.frag = stream[q][x.sn + 1]  BY DEF Carries
    <3>3. x.sn + 1 = rcv_nxt[e] + i  BY <3>1, <1>4
    <3> QED BY <3>1, <3>2, <3>3
  <2> QED BY <2>1, <1>2 DEF Agrees
<1>7. Agrees(queue \o moved, stream[q], Len(g))
  BY <1>4, <1>6, AgreesConcat
<1>8. Len(g) + Len(queue \o moved) = rcv_nxt[e] + m
  <2>1. Len(queue \o moved) = Len(queue) + Len(moved)  BY ConcatProperties
  <2> QED BY <2>1, <1>2, <1>4
<1>9. \A x \in rcv_buf'[e] : InWindow(x, e)' /\ Carries(x, q)'
  BY <1>3, <1>4, ConstantFacts DEF Carries, InWindow
<1>10. ReceiverInv(q, e)'
  BY <1>3, <1>5, <1>7, <1>8, <1>9 DEF ReceiverInv
<1>11. ASSUME NEW n \in Nat, n < rcv_nxt[e] \/ Has(buf, n) PROVE Received(e, n)'
  <2>1. CASE n < rcv_nxt[e] + m  BY <2>1, <1>3 DEF Received
  <2>2. CASE ~(n < rcv_nxt[e] + m)
    <3>1. rcv_nxt[e] + m <= n /\ ~(n < rcv_nxt[e])  BY <2>2, <1>4
    <3>2. PICK x \in buf : x.sn = n  BY <3>1, <1>11 DEF Has
    <3>3. x \in rcv_buf'[e]  BY <3>1, <3>2, <1>3
    <3> QED BY <3>2, <3>3 DEF Received, Has
  <2> QED BY <2>1, <2>2
<1>12. rcv_nxt'[e] >= rcv_nxt[e]  BY <1>3, <1>4
<1> QED BY <1>10, <1>11, <1>12

(* What remains to show of the direction from q when e's receiving side    *)
(* advances.                                                               *)
LEMMA ReceiverAdvances ==
  ASSUME IInv, NEW q \in Ends, NEW e \in Ends, e = Peer(q), SenderSame(q),
         ReceiverInv(q, e)',
         \A n \in Nat : Received(e, n) => Received(e, n)',
         rcv_nxt'[e] \in Nat, rcv_nxt'[e] >= rcv_nxt[e],
         \A n \in acklist'[e] : n \in acklist[e] \/ Received(e, n)',
         Incoming(q)' \subseteq Incoming(q), Incoming(e)' \subseteq Incoming(e),
         BoundaryInv(e)'
  PROVE  DirectionInv(q)'
<1>0. TypeOK  BY DEF IInv
<1>1. /\ SenderInv(q) /\ DataInv(q, e) /\ AckInv(q, e) /\ KeptInv(q, e)
      /\ WellFormed(stream[q])
  BY DEF IInv, DirectionInv
<1>2. SenderInv(q)'  BY <1>1 DEF SenderInv, SenderSame, Carries
<1>3. DataInv(q, e)'  BY <1>1 DEF DataInv, SenderSame, Carries
<1>4. AckInv(q, e)'
  <2>1. acklist[e] \subseteq Nat /\ rcv_nxt[e] \in Nat  BY <1>0, EndType
  <2>2. \A s \in Incoming(q) : s.sn \in Nat /\ s.una \in Nat  BY <1>0, IncomingType
  <2>3. \A n \in acklist'[e] : Received(e, n)'  BY <1>1, <2>1 DEF AckInv
  <2>4. ASSUME NEW s \in Incoming(q)'
        PROVE  s.una <= rcv_nxt'[e] /\ (s.cmd = "ACK" => Received(e, s.sn)')
    <3>1. s \in Incoming(q)  OBVIOUS
    <3>2. s.una <= rcv_nxt[e] /\ (s.cmd = "ACK" => Received(e, s.sn))
      BY <1>1, <3>1 DEF AckInv
    <3> QED BY <2>1, <2>2, <3>1, <3>2
  <2> QED BY <2>3, <2>4 DEF AckInv
<1>5. KeptInv(q, e)'
  <2>1. snd_nxt[q] \in Nat  BY <1>0, EndType
  <2> QED BY <1>1, <2>1 DEF KeptInv, SenderSame
<1>6. WellFormed(stream[q])'  BY <1>1 DEF SenderSame
<1> QED BY <1>2, <1>3, <1>4, <1>5, <1>6 DEF DirectionInv

LEMMA InputAckInv ==
  ASSUME IInv, NEW e \in Ends, NEW q \in Ends, q = Peer(e),
         NEW s \in inp[e].segs, InputAck(e, s), UNCHANGED net
  PROVE  DirectionInv(e)' /\ DirectionInv(q)'
<1>0. TypeOK /\ Peer(q) = e /\ s \in Incoming(e)
  BY ConstantFacts DEF IInv, Incoming
<1> DEFINE buf == AfterAck(e, s.una, s.sn)
           maxack == imax(inp[e].maxack, s.sn)
<1>1. TakeSegment(e, s, buf, maxack) /\ s.cmd = "ACK"  BY DEF InputAck
<1>2. UNCHANGED <<rcv_nxt, rcv_buf, rcv_queue, acklist, got>>
  BY DEF InputAck, TakeSegment, rcvVars, histVars
<1>3. buf \subseteq snd_buf[e]  BY <1>0, AfterAckType
<1>4. \A x \in snd_buf[e] : x \in buf \/ Received(q, x.sn)  BY <1>0, <1>1, AfterAckKeeps
<1> HIDE DEF buf, maxack
<1>5. ReceiverSame(q) /\ ReceiverSame(e)  BY <1>2 DEF ReceiverSame
<1>6. DirectionInv(e)'  BY <1>1, <1>2, <1>3, <1>4, <1>5, TakeSegmentSender
<1>7. SenderSame(q) /\ Incoming(e)' \subseteq Incoming(e) /\ Incoming(q)' = Incoming(q)
  BY <1>0, <1>1, TakeSegmentEffect DEF SenderSame
<1>8. DirectionInv(q)'  BY <1>0, <1>2, <1>5, <1>7, FewerSegments
<1> QED BY <1>6, <1>8

LEMMA InputWindowInv ==
  ASSUME IInv, NEW e \in Ends, NEW q \in Ends, q = Peer(e),
         NEW s \in inp[e].segs, InputWask(e, s) \/ InputWins(e, s), UNCHANGED net
  PROVE  DirectionInv(e)' /\ DirectionInv(q)'
<1>0. TypeOK /\ Peer(q) = e /\ s \in Incoming(e)
  BY ConstantFacts DEF IInv, Incoming
<1> DEFINE buf == AfterUna(e, s.una)
<1>1. TakeSegment(e, s, buf, inp[e].maxack)  BY DEF InputWask, InputWins
<1>2. UNCHANGED <<rcv_nxt, rcv_buf, rcv_queue, acklist, got>>
  BY <1>1 DEF InputWask, InputWins, TakeSegment, rcvVars, histVars
<1>3. buf \subseteq snd_buf[e]  BY <1>0, AfterUnaType
<1>4. \A x \in snd_buf[e] : x \in buf \/ Received(q, x.sn)  BY <1>0, AfterUnaKeeps
<1> HIDE DEF buf
<1>5. ReceiverSame(q) /\ ReceiverSame(e)  BY <1>2 DEF ReceiverSame
<1>6. DirectionInv(e)'  BY <1>1, <1>2, <1>3, <1>4, <1>5, TakeSegmentSender
<1>7. SenderSame(q) /\ Incoming(e)' \subseteq Incoming(e) /\ Incoming(q)' = Incoming(q)
  BY <1>0, <1>1, TakeSegmentEffect DEF SenderSame
<1>8. DirectionInv(q)'  BY <1>0, <1>2, <1>5, <1>7, FewerSegments
<1> QED BY <1>6, <1>8

LEMMA InputPushInv ==
  ASSUME IInv, NEW e \in Ends, NEW q \in Ends, q = Peer(e),
         NEW s \in inp[e].segs, InputPush(e, s), UNCHANGED net
  PROVE  DirectionInv(e)' /\ DirectionInv(q)'
<1>0. TypeOK /\ TypeOK' /\ Peer(q) = e /\ q # e /\ s \in Incoming(e)
  BY ConstantFacts, InputPushType DEF IInv, Incoming
<1> DEFINE sbuf == AfterUna(e, s.una)
           rbuf == IF Has(rcv_buf[e], s.sn) THEN rcv_buf[e]
                   ELSE rcv_buf[e] \cup {[sn |-> s.sn, frag |-> s.frag]}
           inWindow == s.sn \in rcv_nxt[e]..(rcv_nxt[e] + rcv_wnd - 1)
<1>1. TakeSegment(e, s, sbuf, inp[e].maxack) /\ s.cmd = "PUSH"  BY DEF InputPush
<1>2. /\ IF s.sn < rcv_nxt[e] + rcv_wnd
         THEN acklist' = [acklist EXCEPT ![e] = @ \cup {s.sn}]
         ELSE UNCHANGED acklist
      /\ IF inWindow THEN MoveReady(e, rbuf, rcv_queue[e]) ELSE UNCHANGED rcvVars
  BY DEF InputPush
<1>3. UNCHANGED got  BY <1>1 DEF TakeSegment, histVars
<1>4. sbuf \subseteq snd_buf[e]  BY <1>0, AfterUnaType
<1>5. \A x \in snd_buf[e] : x \in sbuf \/ Received(q, x.sn)  BY <1>0, AfterUnaKeeps
<1>6. Carries(s, q)  BY <1>0, <1>1 DEF IInv, DirectionInv, DataInv
<1>7. s.sn \in Nat /\ s.frag \in Frag  BY <1>0, IncomingType DEF Segment
<1>8. ReceiverInv(q, e) /\ BoundaryInv(e)  BY <1>0 DEF IInv, DirectionInv
<1>9. /\ rcv_nxt[e] \in Nat /\ rcv_wnd \in Nat /\ rcv_queue[e] \in Seq(Frag)
      /\ got[e] \in Seq(Frag) /\ rcv_buf[e] \in SUBSET RcvSeg
  BY <1>0, EndType, ConstantFacts DEF TypeOK
<1>10. /\ rbuf \in SUBSET RcvSeg
       /\ \A n : Has(rcv_buf[e], n) => Has(rbuf, n)
       /\ Has(rbuf, s.sn)
       /\ inWindow => \A x \in rbuf : InWindow(x, e) /\ Carries(x, q)
  <2>1. [sn |-> s.sn, frag |-> s.frag] \in RcvSeg  BY <1>7 DEF RcvSeg
  <2>2. Carries([sn |-> s.sn, frag |-> s.frag], q)  BY <1>6 DEF Carries
  <2>3. \A x \in rcv_buf[e] : InWindow(x, e) /\ Carries(x, q)  BY <1>8 DEF ReceiverInv
  <2>4. inWindow => InWindow([sn |-> s.sn, frag |-> s.frag], e)  BY <1>7, <1>9 DEF InWindow
  <2> QED BY <1>9, <2>1, <2>2, <2>3, <2>4 DEF Has
<1>11. acklist'[q] = acklist[q] /\ \A n \in acklist'[e] :
          n \in acklist[e] \/ (n = s.sn /\ s.sn < rcv_nxt[e] + rcv_wnd)
  <2>1. acklist \in [Ends -> SUBSET Nat]  BY <1>0 DEF TypeOK
  <2>2. CASE s.sn < rcv_nxt[e] + rcv_wnd
    <3>1. acklist' = [acklist EXCEPT ![e] = acklist[e] \cup {s.sn}]  BY <1>2, <2>2
    <3>2. acklist'[q] = acklist[q] /\ acklist'[e] = acklist[e] \cup {s.sn}
      BY <1>0, <2>1, <3>1
    <3> QED BY <2>2, <3>2
  <2>3. CASE ~(s.sn < rcv_nxt[e] + rcv_wnd)  BY <1>2, <2>3
  <2> QED BY <2>2, <2>3
<1> HIDE DEF sbuf, rbuf
<1>12. ReceiverSame(q)
  <2>1. /\ rcv_nxt'[q] = rcv_nxt[q] /\ rcv_buf'[q] = rcv_buf[q]
        /\ rcv_queue'[q] = rcv_queue[q]
    <3>1. CASE inWindow
      <4>1. PICK m \in Nat, moved \in Seq(Frag) : Moves(e, rbuf, rcv_queue[e], m, moved)
        BY <3>1, <1>0, <1>2, <1>9, <1>10, MoveReadyEffect
      <4> QED BY <4>1, <1>0 DEF Moves, TypeOK
    <3>2. CASE ~inWindow  BY <3>2, <1>2 DEF rcvVars
    <3> QED BY <3>1, <3>2
  <2> QED BY <2>1, <1>3 DEF ReceiverSame
<1>13. DirectionInv(e)'  BY <1>1, <1>4, <1>5, <1>11, <1>12, TakeSegmentSender
<1>14. SenderSame(q) /\ Incoming(e)' \subseteq Incoming(e) /\ Incoming(q)' = Incoming(q)
  BY <1>0, <1>1, TakeSegmentEffect DEF SenderSame
<1>15. /\ ReceiverInv(q, e)'
       /\ \A n \in Nat : Received(e, n) => Received(e, n)'
       /\ rcv_nxt'[e] >= rcv_nxt[e]
       /\ s.sn < rcv_nxt[e] + rcv_wnd => Received(e, s.sn)'
  <2>1. CASE inWindow
    <3>1. /\ rcv_nxt[e] <= snd_nxt[q] /\ Agrees(got[e], stream[q], 0)
          /\ Agrees(rcv_queue[e], stream[q], Len(got[e]))
          /\ Len(got[e]) + Len(rcv_queue[e]) = rcv_nxt[e]
      BY <1>8 DEF ReceiverInv
    <3>2. /\ snd_nxt'[q] = snd_nxt[q] /\ stream'[q] = stream[q] /\ got'[e] = got[e]
      BY <1>3, <1>14 DEF SenderSame
    <3>3. \A x \in rbuf : InWindow(x, e) /\ Carries(x, q)  BY <2>1, <1>10
    <3>4. MoveReady(e, rbuf, rcv_queue[e])  BY <2>1, <1>2
    <3>5. /\ ReceiverInv(q, e)'
          /\ \A n \in Nat : n < rcv_nxt[e] \/ Has(rbuf, n) => Received(e, n)'
          /\ rcv_nxt'[e] >= rcv_nxt[e]
      BY <1>0, <1>9, <1>10, <3>1, <3>2, <3>3, <3>4, MoveReadyInv
    <3> QED BY <1>7, <1>10, <3>5 DEF Received
  <2>2. CASE ~inWindow
    <3>1. UNCHANGED <<rcv_nxt, rcv_buf, rcv_queue>>  BY <2>2, <1>2 DEF rcvVars
    <3>2. ReceiverInv(q, e)'
      BY <3>1, <1>3, <1>8, <1>14 DEF ReceiverInv, SenderSame, Carries, InWindow
    <3>3. s.sn < rcv_nxt[e] + rcv_wnd => s.sn < rcv_nxt[e]  BY <2>2, <1>7, <1>9
    <3> QED BY <3>1, <3>2, <3>3, <1>9 DEF Received
  <2> QED BY <2>1, <2>2
<1>16. rcv_nxt'[e] \in Nat  BY <1>0, EndType DEF TypeOK
<1>17. BoundaryInv(e)'  BY <1>3, <1>8 DEF BoundaryInv
<1>18. \A n \in acklist'[e] : n \in acklist[e] \/ Received(e, n)'  BY <1>11, <1>15
<1>19. DirectionInv(q)'
  BY <1>0, <1>14, <1>15, <1>16, <1>17, <1>18, ReceiverAdvances
<1> QED BY <1>13, <1>19

LEMMA InputDoneInv ==
  ASSUME IInv, NEW e \in Ends, NEW q \in Ends, q = Peer(e), InputDone(e), UNCHANGED net
  PROVE  DirectionInv(e)' /\ DirectionInv(q)'
<1>0. TypeOK /\ Peer(q) = e /\ q # e /\ SenderInv(e)
  BY ConstantFacts DEF IInv, DirectionInv
<1>1. UNCHANGED <<snd_queue, snd_una, snd_nxt, rcv_nxt, rcv_buf, rcv_queue, acklist,
                  stream, got>>
  BY DEF InputDone, rcvVars, histVars
<1>2. ReceiverSame(q) /\ ReceiverSame(e)  BY <1>1 DEF ReceiverSame
<1>3. Incoming(e)' \subseteq Incoming(e) /\ Incoming(q)' = Incoming(q)
  <2>1. inp'[e].segs = {} /\ inp'[q] = inp[q]  BY <1>0 DEF InputDone, NoInput, TypeOK
  <2> QED BY <2>1 DEF Incoming
<1>4. snd_buf'[q] = snd_buf[q]  BY <1>0 DEF InputDone, TypeOK
<1>5. SenderSame(q)  BY <1>1, <1>4 DEF SenderSame
<1>6. DirectionInv(q)'  BY <1>0, <1>1, <1>2, <1>3, <1>5, FewerSegments
<1>7. snd_buf'[e] = snd_buf[e] \/ snd_buf'[e] = AfterFastack(e, inp[e].maxack)
  BY DEF InputDone, TypeOK
<1>8. /\ \A y \in snd_buf'[e] : \E x \in snd_buf[e] : x.sn = y.sn /\ x.frag = y.frag
      /\ \A x \in snd_buf[e] : \E y \in snd_buf'[e] : x.sn = y.sn
  <2>1. \A x \in snd_buf[e] : [x EXCEPT !.fastack = imin(@ + 1, resent)].sn = x.sn
                             /\ [x EXCEPT !.fastack = imin(@ + 1, resent)].frag = x.frag
    BY <1>0, EndType DEF SndSeg
  <2> DEFINE Aged(x) == [x EXCEPT !.fastack = imin(@ + 1, resent)]
  <2>3. /\ \A y \in AfterFastack(e, inp[e].maxack) :
             y \in snd_buf[e] \/ \E x \in snd_buf[e] : y = Aged(x)
        /\ \A x \in snd_buf[e] : x \in AfterFastack(e, inp[e].maxack)
                              \/ Aged(x) \in AfterFastack(e, inp[e].maxack)
    BY DEF AfterFastack
  <2>4. \A x \in snd_buf[e] : Aged(x).sn = x.sn /\ Aged(x).frag = x.frag  BY <2>1
  <2> HIDE DEF Aged
  <2>5. CASE snd_buf'[e] = snd_buf[e]  BY <2>5
  <2>6. CASE snd_buf'[e] = AfterFastack(e, inp[e].maxack)  BY <2>3, <2>4, <2>6
  <2> QED BY <1>7, <2>5, <2>6
<1>9. \A n : Has(snd_buf[e], n) => Has(snd_buf'[e], n)  BY <1>8 DEF Has
<1>10. \A y \in snd_buf'[e] : snd_una'[e] <= y.sn  BY <1>0, <1>1, <1>8 DEF SenderInv
<1>11. snd_una'[e] \in Nat /\ snd_una[e] <= snd_una'[e] /\ snd_una'[e] <= snd_nxt[e]
  BY <1>0, <1>1, EndType DEF SenderInv
<1>12. DirectionInv(e)'
  BY <1>1, <1>2, <1>3, <1>8, <1>9, <1>10, <1>11, AcknowledgedSender
<1> QED BY <1>6, <1>12

LEMMA InputInv ==
  ASSUME IInv, NEW e \in Ends, NEW q \in Ends, q = Peer(e), Input(e)
  PROVE  DirectionInv(e)' /\ DirectionInv(q)'
BY InputAckInv, InputPushInv, InputWindowInv, InputDoneInv DEF Input

(***************************************************************************)
(* Read: a readable queue begins with a whole message, and the merge loop  *)
(* takes exactly that message.                                             *)
(***************************************************************************)
LEMMA MergesMessage ==
  ASSUME NEW t \in Seq(Frag), WellFormed(t), NEW queue \in Seq(Frag), NEW c \in Nat,
         c + Len(queue) <= Len(t), Agrees(queue, t, c), Readable(queue),
         NEW k \in 1..Len(queue), MergesTo(queue, k)
  PROVE  /\ k = queue[1].frg + 1
         /\ \A i \in 1..k : queue[i].frg = k - i /\ queue[i].msg = queue[1].msg
<1> DEFINE f == queue[1].frg
<1>1. Len(queue) \in Nat /\ Len(t) \in Nat  BY LenProperties
<1>2. 1 \in 1..Len(queue)  BY <1>1
<1>3. f \in Nat
  <2>1. queue[1] \in Frag  BY <1>2, ElementOfSeq
  <2> QED BY <2>1 DEF Frag
<1>4. f + 1 <= Len(queue)  BY <1>1, <1>2, <1>3 DEF Readable
<1>5. c + 1 \in 1..Len(t) /\ queue[1] = t[c + 1]  BY <1>1, <1>2 DEF Agrees
<1> HIDE DEF f
<1>6. \A j \in 0..f : t[c + 1 + j].frg = f - j /\ t[c + 1 + j].msg = queue[1].msg
  BY <1>5 DEF WellFormed, f
<1>7. ASSUME NEW i \in 1..Len(queue), i <= f + 1
      PROVE  queue[i].frg = f + 1 - i /\ queue[i].msg = queue[1].msg
  <2>1. i - 1 \in 0..f /\ c + 1 + (i - 1) = c + i /\ f - (i - 1) = f + 1 - i
    BY <1>1, <1>3, <1>7
  <2>2. t[c + 1 + (i - 1)].frg = f - (i - 1) /\ t[c + 1 + (i - 1)].msg = queue[1].msg
    BY <2>1, <1>6
  <2>3. queue[i] = t[c + i]  BY DEF Agrees
  <2> QED BY <2>1, <2>2, <2>3
<1>8. k = f + 1
  <2>1. CASE k < f + 1
    <3>0. k <= f + 1  BY <2>1, <1>3
    <3>1. queue[k].frg = f + 1 - k  BY <1>7, <3>0
    <3>2. queue[k].frg # 0  BY <3>1, <2>1, <1>3
    <3>3. k = Len(queue)  BY <3>2 DEF MergesTo
    <3> QED BY <3>3, <2>1, <1>3, <1>4
  <2>2. CASE k > f + 1
    <3>1. PICK n \in 1..(k - 1) : n = f + 1 /\ n \in 1..Len(queue) /\ n <= f + 1
      <4>1. f + 1 \in 1..(k - 1) /\ f + 1 \in 1..Len(queue) /\ f + 1 <= f + 1
        BY <2>2, <1>1, <1>3, <1>4
      <4> QED BY <4>1
    <3>2. queue[n].frg # 0  BY <3>1 DEF MergesTo
    <3>3. queue[n].frg = f + 1 - n  BY <3>1, <1>7
    <3> QED BY <3>1, <3>2, <3>3, <1>3
  <2> QED BY <2>1, <2>2, <1>1, <1>3
<1>9. \A i \in 1..k : queue[i].frg = k - i /\ queue[i].msg = queue[1].msg
  <2>1. ASSUME NEW i \in 1..k PROVE queue[i].frg = k - i /\ queue[i].msg = queue[1].msg
    <3>1. i \in 1..Len(queue) /\ i <= f + 1  BY <1>1, <1>3, <1>8
    <3>2. queue[i].frg = f + 1 - i /\ queue[i].msg = queue[1].msg  BY <3>1, <1>7
    <3>3. f + 1 - i = k - i  BY <1>1, <1>3, <1>8
    <3> QED BY <3>2, <3>3
  <2> QED BY <2>1
<1> QED BY <1>8, <1>9 DEF f

(* What ikcp_recv hands over and leaves, in a state that satisfies IInv.   *)
LEMMA ReadEffect ==
  ASSUME IInv, NEW e \in Ends, NEW q \in Ends, q = Peer(e), Read(e)
  PROVE  \E k \in 1..Len(rcv_queue[e]) :
           /\ got' = [got EXCEPT ![e] = got[e] \o SubSeq(rcv_queue[e], 1, k)]
           /\ MoveReady(e, rcv_buf[e], SubSeq(rcv_queue[e], k + 1, Len(rcv_queue[e])))
           /\ \A i \in 1..k : /\ rcv_queue[e][i].frg = k - i
                              /\ rcv_queue[e][i].msg = rcv_queue[e][1].msg
<1>0. TypeOK /\ Peer(q) = e  BY ConstantFacts DEF IInv
<1>1. PICK k \in 1..Len(rcv_queue[e]) :
        /\ MergesTo(rcv_queue[e], k)
        /\ got' = [got EXCEPT ![e] = @ \o SubSeq(rcv_queue[e], 1, k)]
        /\ MoveReady(e, rcv_buf[e], SubSeq(rcv_queue[e], k + 1, Len(rcv_queue[e])))
  BY DEF Read, ikcp_recv
<1>2. Readable(rcv_queue[e])  BY DEF Read, ikcp_recv
<1>3. /\ stream[q] \in Seq(Frag) /\ rcv_queue[e] \in Seq(Frag) /\ Len(got[e]) \in Nat
      /\ Len(rcv_queue[e]) \in Nat /\ Len(stream[q]) \in Nat
      /\ rcv_nxt[e] \in Nat /\ snd_nxt[q] \in Nat /\ Len(snd_queue[q]) \in Nat
  BY <1>0, EndType
<1>4. SenderInv(q) /\ ReceiverInv(q, e) /\ WellFormed(stream[q])
  BY <1>0 DEF IInv, DirectionInv
<1>5. Agrees(rcv_queue[e], stream[q], Len(got[e]))  BY <1>4 DEF ReceiverInv
<1>6. Len(got[e]) + Len(rcv_queue[e]) <= Len(stream[q])
  <2>1. /\ Len(got[e]) + Len(rcv_queue[e]) = rcv_nxt[e] /\ rcv_nxt[e] <= snd_nxt[q]
        /\ snd_nxt[q] + Len(snd_queue[q]) = Len(stream[q])
    BY <1>4 DEF ReceiverInv, SenderInv
  <2>2. \A a, b, c, d, n, t \in Nat : a + b = n /\ n <= d /\ d + c = t => a + b <= t
    OBVIOUS
  <2> QED BY <2>1, <2>2, <1>3
<1>7. \A i \in 1..k : /\ rcv_queue[e][i].frg = k - i
                     /\ rcv_queue[e][i].msg = rcv_queue[e][1].msg
  BY <1>1, <1>2, <1>3, <1>4, <1>5, <1>6, MergesMessage
<1> QED BY <1>1, <1>7

LEMMA ReadInv ==
  ASSUME IInv, NEW e \in Ends, NEW q \in Ends, q = Peer(e), Read(e)
  PROVE  DirectionInv(e)' /\ DirectionInv(q)'
<1>0. TypeOK /\ TypeOK' /\ Peer(q) = e /\ q # e
  BY ConstantFacts, ReadType DEF IInv
<1> DEFINE queue == rcv_queue[e]
<1>1. PICK k \in 1..Len(queue) :
        /\ got' = [got EXCEPT ![e] = got[e] \o SubSeq(queue, 1, k)]
        /\ MoveReady(e, rcv_buf[e], SubSeq(queue, k + 1, Len(queue)))
        /\ \A i \in 1..k : queue[i].frg = k - i
  BY ReadEffect
<1>2. /\ queue \in Seq(Frag) /\ Len(queue) \in Nat /\ got[e] \in Seq(Frag)
      /\ Len(got[e]) \in Nat /\ rcv_buf[e] \in SUBSET RcvSeg /\ rcv_nxt[e] \in Nat
      /\ stream[q] \in Seq(Frag)
  BY <1>0, EndType DEF TypeOK
<1>3. UNCHANGED <<snd_queue, snd_buf, snd_una, snd_nxt, acklist, inp, stream, net>>
  BY DEF Read, ikcp_recv, sndVars
<1>4. ReceiverInv(q, e)  BY <1>0 DEF IInv, DirectionInv
<1>5. /\ rcv_nxt[e] <= snd_nxt[q] /\ Len(got[e]) + Len(queue) = rcv_nxt[e]
      /\ Agrees(got[e], stream[q], 0) /\ Agrees(queue, stream[q], Len(got[e]))
      /\ \A x \in rcv_buf[e] : InWindow(x, e) /\ Carries(x, q)
  BY <1>4 DEF ReceiverInv
<1> HIDE DEF queue
<1> DEFINE head == SubSeq(queue, 1, k)
           tail == SubSeq(queue, k + 1, Len(queue))
           g == got[e] \o head
<1>6. /\ head \in Seq(Frag) /\ Len(head) = k /\ head[k] = queue[k]
      /\ tail \in Seq(Frag) /\ Len(tail) = Len(queue) - k
  <2>1. /\ head \in Seq(Frag) /\ Len(head) = k - 1 + 1
        /\ \A i \in 1..(k - 1 + 1) : head[i] = queue[1 + i - 1]
    BY <1>2, PartProperties
  <2>2. /\ tail \in Seq(Frag) /\ Len(tail) = Len(queue) - (k + 1) + 1
    BY <1>2, PartProperties
  <2> QED BY <2>1, <2>2, <1>2
<1>7. Agrees(head, stream[q], Len(got[e])) /\ Agrees(tail, stream[q], Len(got[e]) + k)
  <2>1. Agrees(head, stream[q], Len(got[e]))
    <3>1. Len(got[e]) = Len(got[e]) + 1 - 1 /\ 1 <= k + 1 /\ k <= Len(queue)  BY <1>2
    <3> QED BY <3>1, <1>2, <1>5, AgreesPart
  <2>2. PICK m \in Nat \ {0}, d \in Nat :
          /\ m = k + 1 /\ m <= Len(queue) + 1
          /\ d = Len(got[e]) + k /\ d = Len(got[e]) + m - 1
    <3>1. /\ k + 1 \in Nat \ {0} /\ k + 1 <= Len(queue) + 1
          /\ Len(got[e]) + k \in Nat /\ Len(got[e]) + k = Len(got[e]) + (k + 1) - 1
      BY <1>2
    <3> QED BY <3>1, Zenon
  <2>3. Agrees(SubSeq(queue, m, Len(queue)), stream[q], d)
    <3>1. Len(queue) <= Len(queue)  BY <1>2
    <3> QED BY <2>2, <3>1, <1>2, <1>5, AgreesPart
  <2> QED BY <2>1, <2>2, <2>3
<1> HIDE DEF head, tail
<1>8. /\ g \in Seq(Frag) /\ Len(g) = Len(got[e]) + k /\ g[Len(g)] = queue[k]
  <2>1. /\ g \in Seq(Frag) /\ Len(g) = Len(got[e]) + k
        /\ \A i \in 1..(Len(got[e]) + k) :
             g[i] = IF i <= Len(got[e]) THEN got[e][i] ELSE head[i - Len(got[e])]
    BY <1>2, <1>6, ConcatProperties
  <2>2. Len(got[e]) + k \in 1..(Len(got[e]) + k) /\ ~(Len(got[e]) + k <= Len(got[e]))
        /\ Len(got[e]) + k - Len(got[e]) = k
    BY <1>2
  <2> QED BY <2>1, <2>2, <1>6
<1>9. Agrees(g, stream[q], 0)
  <2>1. 0 + Len(got[e]) = Len(got[e])  BY <1>2
  <2> QED BY <2>1, <1>2, <1>5, <1>6, <1>7, AgreesConcat
<1> HIDE DEF g
<1>10. got'[e] = g /\ got'[q] = got[q]  BY <1>0, <1>1 DEF TypeOK, g, head
<1>11. /\ ReceiverInv(q, e)'
       /\ \A n \in Nat : n < rcv_nxt[e] \/ Has(rcv_buf[e], n) => Received(e, n)'
       /\ rcv_nxt'[e] >= rcv_nxt[e]
  <2>1. Len(g) + Len(tail) = rcv_nxt[e]  BY <1>2, <1>5, <1>6, <1>8
  <2>2. Agrees(tail, stream[q], Len(g))  BY <1>7, <1>8
  <2>3. MoveReady(e, rcv_buf[e], tail)  BY <1>1 DEF tail
  <2> QED BY <1>0, <1>2, <1>3, <1>5, <1>6, <1>8, <1>9, <1>10, <2>1, <2>2, <2>3, MoveReadyInv
<1>12. BoundaryInv(e)'
  <2>1. queue[k].frg = 0
    <3>1. k \in 1..k /\ k - k = 0  BY <1>2
    <3> QED BY <3>1, <1>1
  <2> QED BY <2>1, <1>8, <1>10 DEF BoundaryInv
<1>13. SenderSame(q) /\ SenderSame(e)  BY <1>3 DEF SenderSame
<1>14. Incoming(e)' = Incoming(e) /\ Incoming(q)' = Incoming(q)  BY <1>3 DEF Incoming
<1>15. rcv_nxt'[e] \in Nat  BY <1>0, EndType DEF TypeOK
<1>16. DirectionInv(q)'
  <2>1. \A n \in Nat : Received(e, n) => Received(e, n)'  BY <1>11 DEF Received
  <2> QED BY <1>0, <1>3, <1>11, <1>12, <1>13, <1>14, <1>15, <2>1, ReceiverAdvances
<1>17. ReceiverSame(q)
  <2>1. PICK m \in Nat, moved \in Seq(Frag) : Moves(e, rcv_buf[e], tail, m, moved)
    BY <1>0, <1>1, <1>2, <1>6, MoveReadyEffect DEF tail
  <2>2. /\ rcv_nxt'[q] = rcv_nxt[q] /\ rcv_buf'[q] = rcv_buf[q]
        /\ rcv_queue'[q] = rcv_queue[q]
    BY <2>1, <1>0 DEF Moves, TypeOK
  <2> QED BY <2>2, <1>10 DEF ReceiverSame
<1>18. DirectionInv(e)'  BY <1>3, <1>13, <1>14, <1>17, FewerSegments
<1> QED BY <1>16, <1>18

(***************************************************************************)
(* Update and Flush                                                        *)
(***************************************************************************)
LEMMA FlushEffect ==
  ASSUME TypeOK, NEW e \in Ends, NEW q \in Ends, q = Peer(e), Update(e) \/ Flush(e)
  PROVE  \E late, due :
           /\ FlushBody(e, late, due)
           /\ Incoming(e)' = Incoming(e)
           /\ \A s \in Incoming(q)' : s \in Incoming(q) \/ s \in Outgoing(e, late, due)
<1>0. q # e  BY ConstantFacts
<1>1. PICK late, due :
        /\ FlushBody(e, late, due)
        /\ Output(e, Datagrams(e, late, due))
  BY DEF Update, Flush, ikcp_update, ikcp_flush
<1>2. PICK kept \in SUBSET Datagrams(e, late, due) :
        net' = [net EXCEPT ![q] = @ \cup kept]
  BY <1>1 DEF Output
<1>3. net'[q] = net[q] \cup kept /\ net'[e] = net[e]  BY <1>0, <1>2 DEF TypeOK
<1>4. UNCHANGED inp  BY <1>1 DEF FlushBody
<1>5. \A d \in kept : d \subseteq Outgoing(e, late, due)  BY PackType DEF Datagrams
<1>6. Incoming(e)' = Incoming(e)  BY <1>3, <1>4 DEF Incoming
<1>7. \A s \in Incoming(q)' : s \in Incoming(q) \/ s \in Outgoing(e, late, due)
  <2>1. UNION net'[q] \subseteq (UNION net[q]) \cup Outgoing(e, late, due)  BY <1>3, <1>5
  <2> QED BY <2>1, <1>4 DEF Incoming
<1> QED BY <1>1, <1>6, <1>7

(* What a flush of e puts on the way.                                      *)
LEMMA OutgoingFacts ==
  ASSUME TypeOK, NEW e \in Ends, NEW late, NEW due, NEW s \in Outgoing(e, late, due)
  PROVE  /\ s.una = rcv_nxt[e]
         /\ s.cmd = "ACK" => s.sn \in acklist[e]
         /\ s.cmd = "PUSH" => \E x \in Numbered(e) : s.sn = x.sn /\ s.frag = x.frag
BY DEF Outgoing, NeedSend

(* The fragments e numbers are the next ones of its stream.                *)
LEMMA NumberedCarries ==
  ASSUME TypeOK, NEW e \in Ends, SenderInv(e)
  PROVE  /\ \A x \in Numbered(e) : /\ x.sn \in Nat /\ snd_una[e] <= x.sn
                                  /\ x.sn < snd_nxt[e] + MoveCount(e)
                                  /\ x.frag = stream[e][x.sn + 1]
         /\ \A n \in 0..(snd_nxt[e] + MoveCount(e) - 1) :
              (n < snd_nxt[e] /\ Has(snd_buf[e], n)) \/ n >= snd_nxt[e] => Has(Numbered(e), n)
<1> DEFINE m == MoveCount(e)
           New(i) == [sn |-> snd_nxt[e] + i - 1, frag |-> snd_queue[e][i],
                      fastack |-> 0, xmit |-> 0]
<1>1. m \in Nat /\ m <= Len(snd_queue[e])  BY MoveCountBounds
<1>2. /\ snd_una[e] \in Nat /\ snd_nxt[e] \in Nat /\ Len(snd_queue[e]) \in Nat
      /\ snd_una[e] <= snd_nxt[e]
      /\ \A x \in snd_buf[e] : /\ x.sn \in Nat /\ snd_una[e] <= x.sn /\ x.sn < snd_nxt[e]
                               /\ x.frag = stream[e][x.sn + 1]
  BY EndType DEF SenderInv, Carries
<1>3. Numbered(e) = snd_buf[e] \cup {New(i) : i \in 1..m}  BY DEF Numbered
<1>4. ASSUME NEW i \in 1..m
      PROVE  /\ New(i).sn \in Nat /\ New(i).sn = snd_nxt[e] + i - 1
             /\ New(i).frag = stream[e][New(i).sn + 1]
  <2>1. i \in 1..Len(snd_queue[e])  BY <1>1, <1>2
  <2>2. snd_queue[e][i] = stream[e][snd_nxt[e] + i]  BY <2>1 DEF SenderInv, Agrees
  <2>3. snd_nxt[e] + i - 1 + 1 = snd_nxt[e] + i /\ snd_nxt[e] + i - 1 \in Nat  BY <1>2
  <2> QED BY <2>2, <2>3
<1> HIDE DEF m, New
<1>5. ASSUME NEW x \in Numbered(e)
      PROVE  /\ x.sn \in Nat /\ snd_una[e] <= x.sn /\ x.sn < snd_nxt[e] + m
             /\ x.frag = stream[e][x.sn + 1]
  <2>1. CASE x \in snd_buf[e]  BY <2>1, <1>1, <1>2
  <2>2. ASSUME NEW i \in 1..m, x = New(i)
        PROVE  /\ x.sn \in Nat /\ snd_una[e] <= x.sn /\ x.sn < snd_nxt[e] + m
               /\ x.frag = stream[e][x.sn + 1]
    BY <2>2, <1>1, <1>2, <1>4
  <2> QED BY <1>3, <2>1, <2>2
<1>6. ASSUME NEW n \in 0..(snd_nxt[e] + m - 1),
             (n < snd_nxt[e] /\ Has(snd_buf[e], n)) \/ n >= snd_nxt[e]
      PROVE  Has(Numbered(e), n)
  <2>1. CASE n >= snd_nxt[e]
    <3>1. PICK i \in 1..m : i = n - snd_nxt[e] + 1  BY <2>1, <1>1, <1>2
    <3>2. New(i).sn = n  BY <3>1, <1>2, <1>4
    <3> QED BY <3>2, <1>3 DEF Has
  <2>2. CASE Has(snd_buf[e], n)  BY <2>2, <1>3 DEF Has
  <2> QED BY <1>6, <2>1, <2>2
<1> QED BY <1>5, <1>6 DEF m

LEMMA FlushSenderInv ==
  ASSUME IInv, NEW e \in Ends, NEW late, NEW due, FlushBody(e, late, due)
  PROVE  /\ SenderInv(e)'
         /\ snd_nxt'[e] = snd_nxt[e] + MoveCount(e)
         /\ \A n : Has(Numbered(e), n) => Has(snd_buf'[e], n)
<1> DEFINE m == MoveCount(e)
<1>0. TypeOK /\ SenderInv(e)  BY DEF IInv, DirectionInv
<1>1. /\ m \in Nat /\ m <= Len(snd_queue[e])
      /\ m > 0 => snd_nxt[e] + m <= snd_una[e] + snd_wnd
  BY <1>0, MoveCountBounds
<1>2. /\ snd_una[e] \in Nat /\ snd_nxt[e] \in Nat /\ snd_wnd \in Nat
      /\ snd_queue[e] \in Seq(Frag) /\ Len(snd_queue[e]) \in Nat
      /\ stream[e] \in Seq(Frag) /\ Len(stream[e]) \in Nat
      /\ snd_una[e] <= snd_nxt[e] /\ snd_nxt[e] <= snd_una[e] + snd_wnd
      /\ snd_nxt[e] + Len(snd_queue[e]) = Len(stream[e])
      /\ Agrees(snd_queue[e], stream[e], snd_nxt[e])
  BY <1>0, EndType, ConstantFacts DEF SenderInv
<1>3. /\ snd_nxt'[e] = snd_nxt[e] + m
      /\ snd_queue'[e] = SubSeq(snd_queue[e], m + 1, Len(snd_queue[e]))
      /\ snd_buf'[e] = {Transmitted(x, late) : x \in Numbered(e)}
      /\ snd_una'[e] = snd_una[e] /\ stream'[e] = stream[e]
  BY <1>0 DEF FlushBody, TypeOK, histVars
<1>4. \A x \in Numbered(e) : /\ x \in SndSeg /\ Transmitted(x, late).sn = x.sn
                            /\ Transmitted(x, late).frag = x.frag
  BY <1>0, NumberedType, TransmittedType
<1>5. \A x \in Numbered(e) : /\ x.sn \in Nat /\ snd_una[e] <= x.sn /\ x.sn < snd_nxt[e] + m
                            /\ x.frag = stream[e][x.sn + 1]
  BY <1>0, NumberedCarries
<1> HIDE DEF m
<1>6. PICK j \in Nat \ {0} : j = m + 1 /\ j <= Len(snd_queue[e]) + 1  BY <1>1, <1>2
<1>7. Agrees(snd_queue'[e], stream'[e], snd_nxt'[e])
  <2>1. PICK d \in Nat : d = snd_nxt[e] + m /\ d = snd_nxt[e] + j - 1
    BY <1>1, <1>2, <1>6
  <2>2. Agrees(SubSeq(snd_queue[e], j, Len(snd_queue[e])), stream[e], d)
    <3>1. Len(snd_queue[e]) <= Len(snd_queue[e])  BY <1>2
    <3> QED BY <2>1, <3>1, <1>2, <1>6, AgreesPart
  <2> QED BY <2>1, <2>2, <1>3, <1>6
<1>8. snd_nxt'[e] + Len(snd_queue'[e]) = Len(stream'[e])
  <2>1. Len(SubSeq(snd_queue[e], j, Len(snd_queue[e]))) = Len(snd_queue[e]) - j + 1
    BY <1>2, <1>6, PartProperties
  <2>2. snd_nxt[e] + m + (Len(snd_queue[e]) - j + 1) = snd_nxt[e] + Len(snd_queue[e])
    <3>1. \A a, b, c, d \in Nat : d = b + 1 => a + b + (c - d + 1) = a + c  OBVIOUS
    <3> QED BY <3>1, <1>1, <1>2, <1>6
  <2> QED BY <2>1, <2>2, <1>2, <1>3, <1>6
<1>9. \A y \in snd_buf'[e] : snd_una'[e] <= y.sn /\ Carries(y, e)'
  BY <1>3, <1>4, <1>5 DEF Carries
<1>10. snd_una'[e] <= snd_nxt'[e] /\ snd_nxt'[e] <= snd_una'[e] + snd_wnd
  BY <1>1, <1>2, <1>3
<1>11. SenderInv(e)'  BY <1>7, <1>8, <1>9, <1>10 DEF SenderInv
<1>12. ASSUME NEW n, Has(Numbered(e), n) PROVE Has(snd_buf'[e], n)
  BY <1>3, <1>4, <1>12 DEF Has
<1> QED BY <1>3, <1>11, <1>12 DEF m

LEMMA FlushInv ==
  ASSUME IInv, NEW e \in Ends, NEW q \in Ends, q = Peer(e), Update(e) \/ Flush(e)
  PROVE  DirectionInv(e)' /\ DirectionInv(q)'
<1>0. TypeOK /\ Peer(q) = e /\ q # e  BY ConstantFacts DEF IInv
<1>1. PICK late, due :
        /\ FlushBody(e, late, due)
        /\ Incoming(e)' = Incoming(e)
        /\ \A s \in Incoming(q)' : s \in Incoming(q) \/ s \in Outgoing(e, late, due)
  BY <1>0, FlushEffect
<1>2. UNCHANGED <<snd_una, rcv_nxt, rcv_buf, rcv_queue, stream, got>>
  BY <1>1 DEF FlushBody, rcvVars, histVars
<1>3. ReceiverSame(e) /\ ReceiverSame(q)  BY <1>2 DEF ReceiverSame
<1>4. acklist'[e] = {} /\ acklist'[q] = acklist[q]
  BY <1>0, <1>1 DEF FlushBody, TypeOK
<1>5. SenderSame(q)
  <2>1. snd_queue'[q] = snd_queue[q] /\ snd_buf'[q] = snd_buf[q] /\ snd_nxt'[q] = snd_nxt[q]
    BY <1>0, <1>1 DEF FlushBody, TypeOK
  <2> QED BY <2>1, <1>2 DEF SenderSame
<1>6. DataInv(q, e) /\ AckInv(q, e)  BY <1>0 DEF IInv, DirectionInv
<1>7. \A s \in Outgoing(e, late, due) :
         /\ s.una = rcv_nxt[e]
         /\ s.cmd = "ACK" => s.sn \in acklist[e]
         /\ s.cmd = "PUSH" => \E x \in Numbered(e) : s.sn = x.sn /\ s.frag = x.frag
  BY <1>0, OutgoingFacts
<1>8. DirectionInv(q)'
  <2>1. DataInv(q, e)'  BY <1>1, <1>5, <1>6 DEF DataInv, SenderSame, Carries
  <2>2. rcv_nxt[e] \in Nat  BY <1>0, EndType
  <2>3. AckInv(q, e)'
    BY <1>1, <1>2, <1>4, <1>6, <1>7, <2>2 DEF AckInv, Received
  <2> QED BY <1>0, <1>3, <1>5, <2>1, <2>3, SameDirection
<1>9. /\ SenderInv(e) /\ ReceiverInv(e, q) /\ DataInv(e, q) /\ AckInv(e, q)
      /\ KeptInv(e, q) /\ WellFormed(stream[e]) /\ BoundaryInv(q)
  BY DEF IInv, DirectionInv
<1>10. /\ SenderInv(e)' /\ snd_nxt'[e] = snd_nxt[e] + MoveCount(e)
       /\ \A n : Has(Numbered(e), n) => Has(snd_buf'[e], n)
  BY <1>1, FlushSenderInv
<1>11. /\ MoveCount(e) \in Nat /\ snd_nxt[e] \in Nat
       /\ \A x \in rcv_buf[q] : x.sn \in Nat
       /\ rcv_nxt[q] \in Nat
       /\ \A s \in Incoming(q) : s.sn \in Nat
  BY <1>0, MoveCountBounds, EndType, IncomingType
<1>12. ASSUME NEW x, x.sn \in Nat, Carries(x, e) PROVE Carries(x, e)'
  BY <1>2, <1>10, <1>11, <1>12 DEF Carries
<1>13. ReceiverInv(e, q)'
  <2>1. rcv_nxt[q] <= snd_nxt'[e]  BY <1>9, <1>10, <1>11 DEF ReceiverInv
  <2>2. \A x \in rcv_buf[q] : InWindow(x, q) /\ Carries(x, e)'
    BY <1>9, <1>11, <1>12 DEF ReceiverInv
  <2> QED BY <1>2, <1>9, <2>1, <2>2 DEF ReceiverInv, InWindow
<1>14. DataInv(e, q)'
  <2>1. ASSUME NEW s \in Incoming(q)', s.cmd = "PUSH" PROVE Carries(s, e)'
    <3>1. CASE s \in Incoming(q)  BY <2>1, <3>1, <1>9, <1>11, <1>12 DEF DataInv
    <3>2. CASE s \in Outgoing(e, late, due)
      <4>1. PICK x \in Numbered(e) : s.sn = x.sn /\ s.frag = x.frag  BY <2>1, <3>2, <1>7
      <4>2. x.sn < snd_nxt[e] + MoveCount(e) /\ x.frag = stream[e][x.sn + 1]
        BY <1>0, <1>9, NumberedCarries
      <4> QED BY <4>1, <4>2, <1>2, <1>10 DEF Carries
    <3> QED BY <1>1, <3>1, <3>2
  <2> QED BY <2>1 DEF DataInv
<1>15. AckInv(e, q)'  BY <1>1, <1>2, <1>4, <1>9 DEF AckInv, Received
<1>16. KeptInv(e, q)'
  <2>1. \A n : Received(q, n)' <=> Received(q, n)  BY <1>2 DEF Received
  <2>2. ASSUME NEW n \in 0..(snd_nxt[e] + MoveCount(e) - 1)
        PROVE  Has(snd_buf'[e], n) \/ Received(q, n)
    <3>1. CASE n < snd_nxt[e]
      <4>1. Has(snd_buf[e], n) \/ Received(q, n)
        <5>1. n \in 0..(snd_nxt[e] - 1)  BY <3>1, <1>11
        <5> QED BY <5>1, <1>9 DEF KeptInv
      <4>2. Has(snd_buf[e], n) => Has(Numbered(e), n)  BY <3>1, <1>0, <1>9, NumberedCarries
      <4> QED BY <4>1, <4>2, <1>10
    <3>2. CASE n >= snd_nxt[e]
      <4>1. Has(Numbered(e), n)  BY <3>2, <1>0, <1>9, NumberedCarries
      <4> QED BY <4>1, <1>10
    <3> QED BY <3>1, <3>2, <1>11
  <2>3. \A n \in 0..(snd_nxt'[e] - 1) : Has(snd_buf'[e], n) \/ Received(q, n)'
    <3>1. snd_nxt'[e] - 1 = snd_nxt[e] + MoveCount(e) - 1  BY <1>10, <1>11
    <3>2. \A n \in 0..(snd_nxt'[e] - 1) : Has(snd_buf'[e], n) \/ Received(q, n)
      BY <2>2, <3>1, Zenon
    <3> QED BY <2>1, <3>2, Zenon
  <2> QED BY <2>3 DEF KeptInv
<1>17. WellFormed(stream[e])' /\ BoundaryInv(q)'  BY <1>2, <1>9 DEF BoundaryInv
<1>18. DirectionInv(e)'
  BY <1>10, <1>13, <1>14, <1>15, <1>16, <1>17 DEF DirectionInv
<1> QED BY <1>8, <1>18

(***************************************************************************)
(* The invariant and what follows from it                                  *)
(***************************************************************************)
LEMMA StepInv ==
  ASSUME IInv, NEW e \in Ends, NEW q \in Ends, q = Peer(e),
         Write(e) \/ Read(e) \/ Update(e) \/ Flush(e) \/ Receive(e) \/ Input(e)
  PROVE  DirectionInv(e)' /\ DirectionInv(q)'
BY WriteInv, ReadInv, FlushInv, ReceiveInv, InputInv

LEMMA NextInv == IInv /\ [Next]_vars => IInv'
<1> SUFFICES ASSUME IInv, [Next]_vars PROVE IInv'  OBVIOUS
<1>1. TypeOK'  BY NextType DEF IInv
<1>2. CASE UNCHANGED vars
  <2>1. UNCHANGED <<snd_queue, snd_buf, snd_una, snd_nxt, rcv_nxt, rcv_buf, rcv_queue,
                    acklist, inp, stream, got, net>>
    BY <1>2 DEF vars, blockVars, sndVars, rcvVars, histVars
  <2>2. ASSUME NEW p \in Ends, NEW q \in Ends, q = Peer(p) PROVE DirectionInv(p)'
    <3>1. SenderSame(p) /\ ReceiverSame(q)  BY <2>1 DEF SenderSame, ReceiverSame
    <3>2. Incoming(p)' = Incoming(p) /\ Incoming(q)' = Incoming(q)  BY <2>1 DEF Incoming
    <3> QED BY <2>1, <2>2, <3>1, <3>2, FewerSegments
  <2>3. \A p \in Ends : DirectionInv(p)'  BY <2>2, ConstantFacts
  <2> QED BY <1>1, <2>3 DEF IInv
<1>3. CASE Next
  <2>1. PICK e \in Ends :
          Write(e) \/ Read(e) \/ Update(e) \/ Flush(e) \/ Receive(e) \/ Input(e)
    BY <1>3 DEF Next
  <2>2. DirectionInv(e)' /\ DirectionInv(Peer(e))'  BY <2>1, StepInv, ConstantFacts
  <2>3. \A p \in Ends : DirectionInv(p)'  BY <2>2, TwoEnds
  <2> QED BY <1>1, <2>3 DEF IInv
<1> QED BY <1>2, <1>3

(* The inductive invariant holds of every behaviour: sequence numbers,     *)
(* buffers, queued and travelling acknowledgements of the two control      *)
(* blocks always agree with each other and with what was written.          *)
THEOREM Invariant == Spec => []IInv
BY InitInv, NextInv, PTL DEF Spec

LEMMA InvInOrder == IInv => InOrderExactlyOnce
<1> SUFFICES ASSUME IInv, NEW p \in Ends, NEW q \in Ends, q = Peer(p)
             PROVE  /\ Len(got[q]) <= Len(stream[p])
                    /\ got[q] = Prefix(Len(got[q]), stream[p])
  BY ConstantFacts DEF InOrderExactlyOnce
<1>1. /\ got[q] \in Seq(Frag) /\ stream[p] \in Seq(Frag)
      /\ Len(got[q]) \in Nat /\ Len(stream[p]) \in Nat /\ Len(snd_queue[p]) \in Nat
      /\ Len(rcv_queue[q]) \in Nat /\ rcv_nxt[q] \in Nat /\ snd_nxt[p] \in Nat
  BY EndType DEF IInv
<1>2. /\ rcv_nxt[q] <= snd_nxt[p] /\ Len(got[q]) + Len(rcv_queue[q]) = rcv_nxt[q]
      /\ Agrees(got[q], stream[p], 0)
      /\ snd_nxt[p] + Len(snd_queue[p]) = Len(stream[p])
  BY DEF IInv, DirectionInv, ReceiverInv, SenderInv
<1>3. Len(got[q]) <= Len(stream[p])
  <2>1. \A a, b, c, d, n, t \in Nat : a + b = n /\ n <= d /\ d + c = t => a <= t
    OBVIOUS
  <2> QED BY <2>1, <1>1, <1>2
<1> DEFINE n == Len(got[q])
           prefix == SubSeq(stream[p], 1, n)
<1>4. /\ prefix \in Seq(Frag) /\ Len(prefix) = n - 1 + 1
      /\ \A i \in 1..(n - 1 + 1) : prefix[i] = stream[p][1 + i - 1]
  BY <1>1, <1>3, PartProperties
<1>5. \A i \in 1..n : got[q][i] = stream[p][0 + i]  BY <1>2 DEF Agrees
<1>6. n - 1 + 1 = n /\ \A i \in 1..n : 1 + i - 1 = i /\ 0 + i = i  BY <1>1
<1>7. Len(prefix) = n /\ \A i \in 1..n : got[q][i] = prefix[i]
  BY <1>4, <1>5, <1>6
<1> HIDE DEF prefix
<1>8. got[q] = prefix  BY <1>1, <1>4, <1>7, SeqEqual
<1> QED BY <1>3, <1>8 DEF Prefix, prefix

(* What ikcp_recv has handed out at one end is a prefix of what ikcp_send  *)
(* accepted at the other, for any loss, repetition and reordering.         *)
THEOREM InOrder == Spec => []InOrderExactlyOnce
BY InvInOrder, Invariant, PTL

(* Nothing leaves the sender's snd_buf before the receiver has it.         *)
THEOREM NothingLost == Spec => []NoSegmentLost
<1>1. IInv => NoSegmentLost
  BY DEF IInv, DirectionInv, KeptInv, Received, NoSegmentLost
<1> QED BY <1>1, Invariant, PTL

(* Every hand-over of ikcp_recv ends at the end of a message.              *)
THEOREM WholeMessagesOnly == Spec => []WholeMessages
<1>1. IInv => WholeMessages
  <2> SUFFICES ASSUME IInv, NEW q \in Ends PROVE BoundaryInv(q)
    BY DEF WholeMessages, BoundaryInv
  <2>1. Peer(q) \in Ends /\ Peer(Peer(q)) = q  BY ConstantFacts
  <2>2. DirectionInv(Peer(q))  BY <2>1 DEF IInv
  <2> QED BY <2>1, <2>2 DEF DirectionInv
<1> QED BY <1>1, Invariant, PTL

(* The windows: what is in flight fits the sender's window, and the sender *)
(* never believes more acknowledged than the receiver has in its window.   *)
THEOREM FlightBounded == Spec => []FlightBound
<1>1. IInv => FlightBound
  <2> SUFFICES ASSUME IInv, NEW p \in Ends, NEW q \in Ends, q = Peer(p)
               PROVE  /\ snd_nxt[p] <= snd_una[p] + snd_wnd
                      /\ snd_una[p] <= rcv_nxt[q] + rcv_wnd
    BY ConstantFacts DEF FlightBound
  <2>1. /\ TypeOK /\ SenderInv(p) /\ KeptInv(p, q)
        /\ \A x \in rcv_buf[q] : InWindow(x, q)
    BY DEF IInv, DirectionInv, ReceiverInv
  <2>2. /\ snd_una[p] \in Nat /\ snd_nxt[p] \in Nat /\ rcv_nxt[q] \in Nat /\ rcv_wnd \in Nat
        /\ snd_una[p] <= snd_nxt[p]
        /\ \A x \in snd_buf[p] : x.sn \in Nat /\ snd_una[p] <= x.sn
    BY <2>1, EndType, ConstantFacts DEF SenderInv
  <2>3. snd_una[p] <= rcv_nxt[q] + rcv_wnd
    <3>1. CASE snd_una[p] = 0  BY <3>1, <2>2
    <3>2. CASE snd_una[p] # 0
      <4>1. PICK n \in 0..(snd_nxt[p] - 1) : n + 1 = snd_una[p]
        <5>1. snd_una[p] - 1 \in 0..(snd_nxt[p] - 1)  BY <3>2, <2>2
        <5> QED BY <5>1, <2>2
      <4>2. ~Has(snd_buf[p], n)  BY <4>1, <2>2 DEF Has
      <4>3. Received(q, n)  BY <4>2, <2>1 DEF KeptInv
      <4>4. CASE n < rcv_nxt[q]  BY <4>1, <4>4, <2>2
      <4>5. CASE Has(rcv_buf[q], n)  BY <4>1, <4>5, <2>1, <2>2 DEF Has, InWindow
      <4> QED BY <4>3, <4>4, <4>5 DEF Received
    <3> QED BY <3>1, <3>2
  <2> QED BY <2>1, <2>3 DEF SenderInv
<1> QED BY <1>1, Invariant, PTL

(* A full rcv_queue begins with a whole message, because ikcp_send refuses *)
(* messages of WND_RCV fragments and ikcp_wndsize gives at least WND_RCV.  *)
THEOREM NoWedge == Spec => []FullQueueReadable
<1>1. IInv => FullQueueReadable
  <2> SUFFICES ASSUME IInv, NEW q \in Ends, Len(rcv_queue[q]) >= rcv_wnd
               PROVE  Readable(rcv_queue[q])
    BY DEF FullQueueReadable
  <2>1. PICK p \in Ends : q = Peer(p)  BY ConstantFacts
  <2>2. TypeOK /\ ReceiverInv(p, q) /\ SenderInv(p) /\ WellFormed(stream[p])
    BY <2>1 DEF IInv, DirectionInv
  <2>3. /\ rcv_queue[q] \in Seq(Frag) /\ Len(rcv_queue[q]) \in Nat
        /\ Len(got[q]) \in Nat /\ Len(stream[p]) \in Nat
        /\ rcv_wnd \in Nat \ {0} /\ WND_RCV \in Nat /\ WND_RCV <= rcv_wnd
        /\ rcv_nxt[q] \in Nat /\ snd_nxt[p] \in Nat /\ Len(snd_queue[p]) \in Nat
    BY <2>2, EndType, ConstantFacts
  <2>4. /\ Len(got[q]) + Len(rcv_queue[q]) = rcv_nxt[q] /\ rcv_nxt[q] <= snd_nxt[p]
        /\ Agrees(rcv_queue[q], stream[p], Len(got[q]))
        /\ snd_nxt[p] + Len(snd_queue[p]) = Len(stream[p])
    BY <2>2 DEF ReceiverInv, SenderInv
  <2>5. 1 \in 1..Len(rcv_queue[q])  BY <2>3
  <2>6. Len(got[q]) + 1 \in 1..Len(stream[p])
    <3>1. \A a, b, c, d, n, t \in Nat :
            a + b = n /\ n <= d /\ d + c = t /\ b >= 1 => a + 1 \in 1..t
      OBVIOUS
    <3>2. Len(rcv_queue[q]) >= 1  BY <2>3
    <3> QED BY <3>1, <3>2, <2>3, <2>4
  <2>7. rcv_queue[q][1] = stream[p][Len(got[q]) + 1]  BY <2>4, <2>5 DEF Agrees
  <2>8. rcv_queue[q][1].frg + 1 < WND_RCV  BY <2>2, <2>6, <2>7 DEF WellFormed
  <2>9. rcv_queue[q][1].frg \in Nat
    <3>1. rcv_queue[q][1] \in Frag  BY <2>3, <2>5, ElementOfSeq
    <3> QED BY <3>1 DEF Frag
  <2>10. Len(rcv_queue[q]) >= rcv_queue[q][1].frg + 1  BY <2>3, <2>8, <2>9
  <2>11. rcv_queue[q] # <<>>  BY <2>5
  <2> QED BY <2>10, <2>11 DEF Readable
<1> QED BY <1>1, Invariant, PTL

-----------------------------------------------------------------------------
(* The two parts of a concatenation.                                       *)
LEMMA ConcatParts ==
  ASSUME NEW s \in Seq(Frag), NEW u \in Seq(Frag)
  PROVE  /\ Len(s) <= Len(s \o u)
         /\ SubSeq(s \o u, 1, Len(s)) = s
         /\ SubSeq(s \o u, Len(s) + 1, Len(s \o u)) = u
<1> DEFINE t == s \o u
<1>1. /\ t \in Seq(Frag) /\ Len(t) = Len(s) + Len(u)
      /\ \A i \in 1..(Len(s) + Len(u)) : t[i] = IF i <= Len(s) THEN s[i] ELSE u[i - Len(s)]
  BY ConcatProperties
<1>2. Len(s) \in Nat /\ Len(u) \in Nat  BY LenProperties
<1> HIDE DEF t
<1> DEFINE left == SubSeq(t, 1, Len(s))
           right == SubSeq(t, Len(s) + 1, Len(t))
<1>3. /\ left \in Seq(Frag) /\ Len(left) = Len(s)
      /\ \A i \in 1..Len(s) : left[i] = t[i]
  <2>1. Len(s) <= Len(t) /\ 1 <= Len(s) + 1 /\ Len(s) - 1 + 1 = Len(s)  BY <1>1, <1>2
  <2>2. /\ left \in Seq(Frag) /\ Len(left) = Len(s) - 1 + 1
        /\ \A i \in 1..(Len(s) - 1 + 1) : left[i] = t[1 + i - 1]
    BY <1>1, <1>2, <2>1, PartProperties
  <2>3. \A i \in 1..Len(s) : 1 + i - 1 = i  OBVIOUS
  <2> QED BY <2>1, <2>2, <2>3
<1>4. /\ right \in Seq(Frag) /\ Len(right) = Len(u)
      /\ \A i \in 1..Len(u) : right[i] = t[Len(s) + i]
  <2>1. PICK m \in Nat \ {0}, n \in Nat :
          /\ m = Len(s) + 1 /\ n = Len(t) /\ n <= Len(t) /\ m <= n + 1
          /\ n - m + 1 = Len(u)
    <3>1. /\ Len(s) + 1 \in Nat \ {0} /\ Len(t) \in Nat /\ Len(t) <= Len(t)
          /\ Len(s) + 1 <= Len(t) + 1 /\ Len(t) - (Len(s) + 1) + 1 = Len(u)
      BY <1>1, <1>2
    <3> QED BY <3>1, Zenon
  <2>2. /\ SubSeq(t, m, n) \in Seq(Frag) /\ Len(SubSeq(t, m, n)) = n - m + 1
        /\ \A i \in 1..(n - m + 1) : SubSeq(t, m, n)[i] = t[m + i - 1]
    BY <1>1, <2>1, PartProperties
  <2>3. \A i \in 1..Len(u) : m + i - 1 = Len(s) + i  BY <1>2, <2>1
  <2> QED BY <2>1, <2>2, <2>3
<1> HIDE DEF left, right
<1>5. left = s
  <2>1. ASSUME NEW i \in 1..Len(s) PROVE left[i] = s[i]
    <3>1. i \in 1..(Len(s) + Len(u)) /\ i <= Len(s)  BY <1>2
    <3> QED BY <3>1, <1>1, <1>3
  <2> QED BY <2>1, <1>3, SeqEqual
<1>6. right = u
  <2>1. ASSUME NEW i \in 1..Len(u) PROVE right[i] = u[i]
    <3>1. /\ Len(s) + i \in 1..(Len(s) + Len(u)) /\ ~(Len(s) + i <= Len(s))
          /\ Len(s) + i - Len(s) = i
      BY <1>2
    <3> QED BY <3>1, <1>1, <1>4
  <2> QED BY <2>1, <1>4, SeqEqual
<1>7. Len(s) <= Len(t)  BY <1>1, <1>2
<1> QED BY <1>5, <1>6, <1>7 DEF left, right, t

(* One more message at one end is a step of the abstract stream.           *)
LEMMA GrowsByMessage ==
  ASSUME NEW f \in [Ends -> Seq(Frag)], NEW h, NEW e \in Ends, NEW u \in Seq(Frag),
         h = [f EXCEPT ![e] = f[e] \o u],
         u # <<>>, \A i \in 1..Len(u) : u[i].frg = Len(u) - i /\ u[i].msg = u[1].msg
  PROVE  Stream!GrowsBy(e, f, h)
<1>1. DOMAIN h = Ends /\ h[e] = f[e] \o u /\ \A q \in Ends \ {e} : h[q] = f[q]  OBVIOUS
<1>2. f[e] \in Seq(Frag)  OBVIOUS
<1>3. Stream!Extends(h[e], f[e])  BY <1>1, <1>2, ConcatParts DEF Stream!Extends
<1>4. Stream!Rest(f[e], h[e]) = u  BY <1>1, <1>2, ConcatParts DEF Stream!Rest
<1>5. Stream!Message(u)  BY DEF Stream!Message
<1> QED BY <1>1, <1>3, <1>4, <1>5 DEF Stream!GrowsBy

LEMMA WriteRefines ==
  ASSUME IInv, NEW e \in Ends, Write(e) PROVE Stream!Accept(e)
<1>0. TypeOK  BY DEF IInv
<1>1. PICK new \in Seq(Frag) :
        /\ Len(new) \in Nat \ {0}
        /\ \A i \in 1..Len(new) : new[i].frg = Len(new) - i /\ new[i].msg = written[e] + 1
        /\ stream' = [stream EXCEPT ![e] = stream[e] \o new]
  BY <1>0, WriteEffect
<1>2. new # <<>>  BY <1>1
<1>3. \A i \in 1..Len(new) : new[i].frg = Len(new) - i /\ new[i].msg = new[1].msg
  <2>1. 1 \in 1..Len(new)  BY <1>1
  <2> QED BY <2>1, <1>1
<1>4. stream \in [Ends -> Seq(Frag)]  BY <1>0 DEF TypeOK
<1>5. Stream!GrowsBy(e, stream, stream')  BY <1>1, <1>2, <1>3, <1>4, GrowsByMessage
<1>6. UNCHANGED got  BY DEF Write, ikcp_send
<1> QED BY <1>5, <1>6 DEF Stream!Accept

LEMMA ReadRefines ==
  ASSUME IInv, IInv', NEW e \in Ends, Read(e) PROVE Stream!Deliver(e)
<1>0. TypeOK /\ Peer(e) \in Ends /\ Peer(Peer(e)) = e  BY ConstantFacts DEF IInv
<1> DEFINE queue == rcv_queue[e]
<1>1. PICK k \in 1..Len(queue) :
        /\ got' = [got EXCEPT ![e] = got[e] \o SubSeq(queue, 1, k)]
        /\ \A i \in 1..k : queue[i].frg = k - i /\ queue[i].msg = queue[1].msg
  BY <1>0, ReadEffect
<1>2. queue \in Seq(Frag) /\ Len(queue) \in Nat  BY <1>0, EndType
<1> HIDE DEF queue
<1> DEFINE head == SubSeq(queue, 1, k)
<1>3. /\ head \in Seq(Frag) /\ Len(head) = k
      /\ \A i \in 1..k : head[i] = queue[i]
  <2>1. k <= Len(queue) /\ 1 <= k + 1 /\ k - 1 + 1 = k  BY <1>2
  <2>2. /\ head \in Seq(Frag) /\ Len(head) = k - 1 + 1
        /\ \A i \in 1..(k - 1 + 1) : head[i] = queue[1 + i - 1]
    BY <1>2, <2>1, PartProperties
  <2>3. \A i \in 1..k : 1 + i - 1 = i  OBVIOUS
  <2> QED BY <2>1, <2>2, <2>3
<1> HIDE DEF head
<1>4. head # <<>> /\ \A i \in 1..Len(head) : head[i].frg = Len(head) - i
                                         /\ head[i].msg = head[1].msg
  <2>1. 1 \in 1..k  BY <1>2
  <2> QED BY <2>1, <1>1, <1>3
<1>5. got \in [Ends -> Seq(Frag)]  BY <1>0 DEF TypeOK
<1>6. Stream!GrowsBy(e, got, got')
  <2>1. got' = [got EXCEPT ![e] = got[e] \o head]  BY <1>1 DEF head
  <2> QED BY <2>1, <1>3, <1>4, <1>5, GrowsByMessage
<1>7. UNCHANGED stream  BY DEF Read, ikcp_recv
<1>8. Stream!Extends(stream[Peer(e)], got'[e])
  <2>1. InOrderExactlyOnce'  BY InvInOrder, PTL
  <2>2. /\ Len(got'[e]) <= Len(stream'[Peer(e)])
        /\ got'[e] = Prefix(Len(got'[e]), stream'[Peer(e)])
    BY <2>1, <1>0 DEF InOrderExactlyOnce, Prefix
  <2> QED BY <2>2, <1>7 DEF Stream!Extends, Prefix
<1> QED BY <1>6, <1>7, <1>8 DEF Stream!Deliver

LEMMA StepRefines ==
  ASSUME IInv, IInv', [Next]_vars PROVE [Stream!SNext]_(Stream!svars)
<1>1. CASE UNCHANGED vars  BY <1>1 DEF vars, blockVars, histVars, Stream!svars
<1>2. ASSUME NEW e \in Ends, Write(e) PROVE Stream!SNext
  BY <1>2, WriteRefines DEF Stream!SNext
<1>3. ASSUME NEW e \in Ends, Read(e) PROVE Stream!SNext
  BY <1>3, ReadRefines DEF Stream!SNext
<1>4. ASSUME NEW e \in Ends, Update(e) \/ Flush(e) PROVE UNCHANGED <<stream, got>>
  BY <1>4 DEF Update, Flush, ikcp_update, ikcp_flush, FlushBody, histVars
<1>5. ASSUME NEW e \in Ends, Receive(e) PROVE UNCHANGED <<stream, got>>
  BY <1>5 DEF Receive, InputStart, histVars
<1>6. ASSUME NEW e \in Ends, Input(e) PROVE UNCHANGED <<stream, got>>
  BY <1>6 DEF Input, InputAck, InputPush, InputWask, InputWins, InputDone, TakeSegment, histVars
<1> QED BY <1>1, <1>2, <1>3, <1>4, <1>5, <1>6 DEF Next, Stream!svars

(* The two control blocks and the network implement, in each direction, a  *)
(* reliable stream: each message ikcp_send accepts is handed to the other  *)
(* application by ikcp_recv whole, once, and in order.                     *)
THEOREM Refinement == Spec => ImplementsStream
<1>1. LinkInit => Stream!SInit  BY DEF LinkInit, Init, Stream!SInit
<1>2. IInv /\ IInv' /\ [Next]_vars => [Stream!SNext]_(Stream!svars)  BY StepRefines
<1> QED BY <1>1, <1>2, Invariant, PTL DEF Spec, ImplementsStream, Stream!SSpec

-----------------------------------------------------------------------------
(* The window edges                                                        *)

Edges(p) == <<snd_una[p], snd_nxt[p], rcv_nxt[p]>>

LEMMA SameEdges ==
  ASSUME TypeOK, NEW p \in Ends, Edges(p)' = Edges(p) PROVE Forward(p)
<1>1. snd_una'[p] = snd_una[p] /\ snd_nxt'[p] = snd_nxt[p] /\ rcv_nxt'[p] = rcv_nxt[p]
  BY DEF Edges
<1> QED BY <1>1, EndType DEF Forward

LEMMA MoveReadyForward ==
  ASSUME TypeOK, NEW e \in Ends, NEW buf \in SUBSET RcvSeg, NEW queue \in Seq(Frag),
         MoveReady(e, buf, queue)
  PROVE  \A p \in Ends : rcv_nxt'[p] >= rcv_nxt[p]
<1>1. PICK m \in Nat, moved \in Seq(Frag) : Moves(e, buf, queue, m, moved)
  BY MoveReadyEffect
<1>2. rcv_nxt' = [rcv_nxt EXCEPT ![e] = rcv_nxt[e] + m]  BY <1>1 DEF Moves
<1>3. rcv_nxt \in [Ends -> Nat]  BY DEF TypeOK
<1>4. ASSUME NEW p \in Ends PROVE rcv_nxt'[p] >= rcv_nxt[p]
  <2>1. rcv_nxt[p] \in Nat  BY <1>3
  <2>2. CASE p = e  BY <2>1, <2>2, <1>2, <1>3
  <2>3. CASE p # e  BY <2>1, <2>3, <1>2, <1>3
  <2> QED BY <2>2, <2>3
<1> QED BY <1>4

LEMMA FrontForward ==
  ASSUME TypeOK, NEW e \in Ends, SenderInv(e), NEW buf, buf \subseteq snd_buf[e]
  PROVE  Front(buf, snd_nxt[e]) >= snd_una[e]
<1>1. /\ snd_una[e] \in Nat /\ snd_nxt[e] \in Nat /\ snd_una[e] <= snd_nxt[e]
      /\ \A x \in buf : x.sn \in Nat /\ snd_una[e] <= x.sn
  BY EndType DEF SenderInv
<1>2. /\ buf # {} => \E x \in buf : x.sn = Front(buf, snd_nxt[e])
      /\ buf = {} => Front(buf, snd_nxt[e]) = snd_nxt[e]
  BY <1>1, FrontType
<1> QED BY <1>1, <1>2

LEMMA ReadForward ==
  ASSUME IInv, NEW e \in Ends, Read(e) PROVE \A p \in Ends : Forward(p)
<1>0. TypeOK /\ Peer(e) \in Ends  BY ConstantFacts DEF IInv
<1>1. PICK k \in 1..Len(rcv_queue[e]) :
        MoveReady(e, rcv_buf[e], SubSeq(rcv_queue[e], k + 1, Len(rcv_queue[e])))
  BY <1>0, ReadEffect
<1>2. rcv_queue[e] \in Seq(Frag) /\ Len(rcv_queue[e]) \in Nat /\ rcv_buf[e] \in SUBSET RcvSeg
  BY <1>0, EndType DEF TypeOK
<1>3. SubSeq(rcv_queue[e], k + 1, Len(rcv_queue[e])) \in Seq(Frag)
  BY <1>2, SubSeqType
<1>4. \A p \in Ends : rcv_nxt'[p] >= rcv_nxt[p]
  BY <1>0, <1>1, <1>2, <1>3, MoveReadyForward
<1>5. UNCHANGED <<snd_una, snd_nxt>>  BY DEF Read, ikcp_recv, sndVars
<1> QED BY <1>0, <1>4, <1>5, EndType DEF Forward

LEMMA FlushForward ==
  ASSUME IInv, NEW e \in Ends, Update(e) \/ Flush(e) PROVE \A p \in Ends : Forward(p)
<1>0. TypeOK  BY DEF IInv
<1>1. /\ snd_nxt' = [snd_nxt EXCEPT ![e] = @ + MoveCount(e)]
      /\ UNCHANGED <<snd_una, rcv_nxt>>
  BY DEF Update, Flush, ikcp_update, ikcp_flush, FlushBody, rcvVars
<1>2. snd_nxt \in [Ends -> Nat] /\ MoveCount(e) \in Nat  BY <1>0, MoveCountBounds DEF TypeOK
<1>3. ASSUME NEW p \in Ends PROVE snd_nxt'[p] >= snd_nxt[p]
  <2>1. snd_nxt[p] \in Nat  BY <1>2
  <2>2. CASE p = e  BY <2>1, <2>2, <1>1, <1>2
  <2>3. CASE p # e  BY <2>1, <2>3, <1>1, <1>2
  <2> QED BY <2>2, <2>3
<1> QED BY <1>0, <1>1, <1>3, EndType DEF Forward

LEMMA TakeForward ==
  ASSUME IInv, NEW e \in Ends, NEW s \in inp[e].segs, NEW buf, NEW maxack,
         TakeSegment(e, s, buf, maxack), buf \subseteq snd_buf[e]
  PROVE  \A p \in Ends : snd_una'[p] >= snd_una[p] /\ snd_nxt'[p] >= snd_nxt[p]
<1>0. TypeOK /\ SenderInv(e)  BY DEF IInv, DirectionInv
<1>1. snd_una' = [snd_una EXCEPT ![e] = Front(buf, snd_nxt[e])] /\ UNCHANGED snd_nxt
  BY DEF TakeSegment
<1>2. snd_una \in [Ends -> Nat]  BY <1>0 DEF TypeOK
<1>3. ASSUME NEW p \in Ends PROVE snd_una'[p] >= snd_una[p]
  <2>1. snd_una[p] \in Nat  BY <1>2
  <2>2. CASE p = e  BY <2>2, <1>0, <1>1, <1>2, FrontForward
  <2>3. CASE p # e  BY <2>1, <2>3, <1>1, <1>2
  <2> QED BY <2>2, <2>3
<1> QED BY <1>0, <1>1, <1>3, EndType

LEMMA InputForward ==
  ASSUME IInv, NEW e \in Ends, Input(e) PROVE \A p \in Ends : Forward(p)
<1>0. TypeOK  BY DEF IInv
<1>1. CASE InputDone(e)
  <2>1. UNCHANGED <<snd_una, snd_nxt, rcv_nxt>>  BY <1>1 DEF InputDone, rcvVars
  <2> QED BY <2>1, <1>0, SameEdges DEF Edges
<1>2. ASSUME NEW s \in inp[e].segs,
             InputAck(e, s) \/ InputPush(e, s) \/ InputWask(e, s) \/ InputWins(e, s)
      PROVE  \A p \in Ends : Forward(p)
  <2>1. \A p \in Ends : snd_una'[p] >= snd_una[p] /\ snd_nxt'[p] >= snd_nxt[p]
    <3>1. CASE InputAck(e, s)
      <4>1. TakeSegment(e, s, AfterAck(e, s.una, s.sn), imax(inp[e].maxack, s.sn))
        BY <3>1 DEF InputAck
      <4> QED BY <4>1, <1>0, AfterAckType, TakeForward
    <3>2. CASE InputPush(e, s) \/ InputWask(e, s) \/ InputWins(e, s)
      <4>1. TakeSegment(e, s, AfterUna(e, s.una), inp[e].maxack)
        BY <3>2 DEF InputPush, InputWask, InputWins
      <4> QED BY <4>1, <1>0, AfterUnaType, TakeForward
    <3> QED BY <1>2, <3>1, <3>2
  <2>2. \A p \in Ends : rcv_nxt'[p] >= rcv_nxt[p]
    <3>1. CASE UNCHANGED rcvVars  BY <3>1, <1>0, EndType DEF rcvVars
    <3>2. CASE InputPush(e, s)
      <4> DEFINE buf == IF Has(rcv_buf[e], s.sn) THEN rcv_buf[e]
                        ELSE rcv_buf[e] \cup {[sn |-> s.sn, frag |-> s.frag]}
      <4>1. MoveReady(e, buf, rcv_queue[e]) \/ UNCHANGED rcvVars  BY <3>2 DEF InputPush
      <4>2. s \in Segment
        <5>1. inp[e] \in InputCall  BY <1>0 DEF TypeOK
        <5> QED BY <5>1 DEF InputCall
      <4>3. buf \in SUBSET RcvSeg  BY <1>0, <4>2 DEF TypeOK, RcvSeg, Segment
      <4>4. rcv_queue[e] \in Seq(Frag)  BY <1>0, EndType
      <4> HIDE DEF buf
      <4> QED BY <3>1, <4>1, <4>3, <4>4, <1>0, MoveReadyForward
    <3> QED BY <1>2, <3>1, <3>2 DEF InputAck, InputWask, InputWins
  <2> QED BY <2>1, <2>2 DEF Forward
<1> QED BY <1>1, <1>2 DEF Input

(* snd_una, snd_nxt and rcv_nxt of both ends never move back, whatever old *)
(* acknowledgement or data segment ikcp_input is given.                    *)
THEOREM EdgesAdvance == Spec => OnlyForward
<1>1. ASSUME IInv, [Next]_vars, NEW p \in Ends PROVE Forward(p)
  <2>0. TypeOK  BY <1>1 DEF IInv
  <2>1. ASSUME UNCHANGED <<snd_una, snd_nxt, rcv_nxt>> PROVE Forward(p)
    BY <2>0, <2>1, SameEdges DEF Edges
  <2>2. CASE UNCHANGED vars
    BY <2>1, <2>2 DEF vars, blockVars, sndVars, rcvVars
  <2>3. ASSUME NEW e \in Ends, Write(e) \/ Receive(e) PROVE Forward(p)
    BY <2>1, <2>3 DEF Write, Receive, ikcp_send, InputStart, sndVars, rcvVars
  <2>4. ASSUME NEW e \in Ends, Read(e) \/ Update(e) \/ Flush(e) \/ Input(e) PROVE Forward(p)
    BY <1>1, <2>4, ReadForward, FlushForward, InputForward
  <2> QED BY <1>1, <2>2, <2>3, <2>4 DEF Next
<1>2. IInv /\ [Next]_vars => [\A p \in Ends : Forward(p)]_vars  BY <1>1
<1> QED BY <1>2, Invariant, PTL DEF Spec, OnlyForward

-----------------------------------------------------------------------------
(***************************************************************************)
(* What a flush writes                                                     *)
(***************************************************************************)
(* ikcp_send cuts a message into pieces of at most mss.                    *)
Sized == \A p \in Ends : \A i \in 1..Len(stream[p]) : stream[p][i].len <= mss

LEMMA PieceSize ==
  ASSUME NEW m \in Nat, NEW len \in Nat, NEW i \in 1..Len(Fragments(m, len))
  PROVE  Fragments(m, len)[i].len <= mss
<1>1. mss \in Nat /\ FragCount(len) \in Nat /\ i \in 1..FragCount(len)
  BY ConstantFacts, FragCountBounds, FragmentsType
<1>2. len - (i - 1) * mss \in Nat  BY <1>1, FragCountBounds
<1>3. Fragments(m, len)[i].len = imin(mss, len - (i - 1) * mss)  BY <1>1 DEF Fragments
<1> QED BY <1>1, <1>2, <1>3 DEF imin

LEMMA SizedStep ==
  ASSUME TypeOK, Sized, [Next]_vars
  PROVE  Sized'
<1>1. CASE UNCHANGED stream  BY <1>1 DEF Sized
<1>2. ASSUME NEW e \in Ends, Write(e) PROVE Sized'
  <2>1. PICK len \in MsgLens : ikcp_send(e, len)  BY <1>2 DEF Write
  <2> DEFINE new == Fragments(written[e] + 1, len)
  <2>2. len \in Nat /\ written[e] + 1 \in Nat /\ new \in Seq(Frag)
        /\ \A i \in 1..Len(new) : new[i].len <= mss
    <3>1. len \in Nat /\ written[e] + 1 \in Nat  BY BlockAssumption DEF TypeOK
    <3> QED BY <3>1, PieceSize, FragmentsType
  <2>3. stream' = [stream EXCEPT ![e] = @ \o new]  BY <2>1 DEF ikcp_send
  <2> HIDE DEF new
  <2>4. ASSUME NEW p \in Ends, NEW i \in 1..Len(stream'[p]) PROVE stream'[p][i].len <= mss
    <3>0. stream[p] \in Seq(Frag) /\ Len(stream[p]) \in Nat /\ Len(new) \in Nat
      BY <2>2, LenProperties DEF TypeOK
    <3>1. CASE p = e
      <4>1. stream'[p] = stream[p] \o new  BY <2>3, <3>1 DEF TypeOK
      <4>2. /\ Len(stream'[p]) = Len(stream[p]) + Len(new)
            /\ stream'[p][i] = IF i <= Len(stream[p]) THEN stream[p][i]
                               ELSE new[i - Len(stream[p])]
        BY <2>2, <3>0, <4>1, ConcatProperties
      <4>3. CASE i <= Len(stream[p])
        <5>1. i \in 1..Len(stream[p])  BY <3>0, <4>2, <4>3
        <5> QED BY <4>2, <4>3, <5>1 DEF Sized
      <4>4. CASE ~(i <= Len(stream[p]))
        <5>1. i - Len(stream[p]) \in 1..Len(new)  BY <3>0, <4>2, <4>4
        <5> QED BY <2>2, <4>2, <4>4, <5>1
      <4> QED BY <4>3, <4>4
    <3>2. CASE p # e
      <4>1. stream'[p] = stream[p]  BY <2>3, <3>2 DEF TypeOK
      <4> QED BY <4>1 DEF Sized
    <3> QED BY <3>1, <3>2
  <2>5. mss' = mss  BY DEF mss
  <2> QED BY <2>4, <2>5 DEF Sized
<1>3. ASSUME NEW e \in Ends, Read(e) \/ Update(e) \/ Flush(e) \/ Receive(e) \/ Input(e)
      PROVE  UNCHANGED stream
  BY <1>3 DEF Read, ikcp_recv, Update, ikcp_update, Flush, ikcp_flush, FlushBody, histVars,
     Receive, InputStart, Input, InputAck, InputPush, InputWask, InputWins, InputDone,
     TakeSegment
<1>4. CASE UNCHANGED vars  BY <1>1, <1>4 DEF vars, blockVars, histVars
<1> QED BY <1>1, <1>2, <1>3, <1>4 DEF Next

LEMMA OutgoingFinite ==
  ASSUME IInv, NEW e \in Ends, NEW late, NEW due
  PROVE  IsFiniteSet(Outgoing(e, late, due))
<1> DEFINE q == Peer(e)
           Seg(cmd, sn, frag) == [cmd |-> cmd, sn |-> sn, una |-> rcv_nxt[e],
                                  wnd |-> wnd_unused(e), frag |-> frag]
           last == snd_nxt[e] + MoveCount(e)
           acks == rcv_nxt[e] + rcv_wnd
           f == [n \in 0..acks |-> Seg("ACK", n, NoFrag)]
           g == [n \in 0..last |-> Seg("PUSH", n, stream[e][n + 1])]
           rest == {Seg("WASK", 0, NoFrag)} \cup {Seg("WINS", 0, NoFrag)}
           FS == {f[n] : n \in 0..acks}
           GS == {g[n] : n \in 0..last}
<1>1. TypeOK /\ rcv_nxt[e] \in Nat /\ rcv_wnd \in Nat /\ last \in Nat /\ acks \in Nat
  <2>1. TypeOK /\ rcv_nxt[e] \in Nat /\ snd_nxt[e] \in Nat  BY DEF IInv, TypeOK
  <2>2. MoveCount(e) \in Nat  BY <2>1, MoveCountBounds DEF TypeOK
  <2> QED BY <2>1, <2>2, ConstantFacts
<1>2. \A n \in acklist[e] : n \in 0..acks
  <2>1. q \in Ends /\ Peer(q) = e  BY ConstantFacts
  <2>2. AckInv(q, e) /\ ReceiverInv(q, e)  BY <2>1 DEF IInv, DirectionInv
  <2>3. SUFFICES ASSUME NEW n \in acklist[e] PROVE n \in 0..acks  OBVIOUS
  <2>4. n \in Nat /\ Received(e, n)  BY <1>1, <2>2 DEF AckInv, TypeOK
  <2>5. n < rcv_nxt[e] + rcv_wnd \/ n < rcv_nxt[e]
    BY <2>2, <2>4 DEF Received, ReceiverInv, Has, InWindow
  <2> QED BY <1>1, <2>4, <2>5
<1>3. \A x \in NeedSend(e, late) : x.sn \in 0..last /\ x.frag = stream[e][x.sn + 1]
  <2>1. SenderInv(e)  BY DEF IInv, DirectionInv
  <2>2. SUFFICES ASSUME NEW x \in NeedSend(e, late)
                 PROVE  x.sn \in 0..last /\ x.frag = stream[e][x.sn + 1]
    OBVIOUS
  <2>3. x.sn \in Nat /\ x.sn < last /\ x.frag = stream[e][x.sn + 1]
    BY <1>1, <2>1, NumberedCarries DEF NeedSend
  <2> HIDE DEF last
  <2> QED BY <1>1, <2>3
<1>4. Outgoing(e, late, due) \subseteq FS \cup (GS \cup rest)
  <2>1. \A n \in acklist[e] : Seg("ACK", n, NoFrag) \in FS
    <3> HIDE DEF acks
    <3> QED BY <1>2
  <2>2. \A x \in NeedSend(e, late) : Seg("PUSH", x.sn, x.frag) \in GS
    <3> HIDE DEF last
    <3> QED BY <1>3
  <2> HIDE DEF FS, GS
  <2> QED BY <2>1, <2>2 DEF Outgoing
<1>5. IsFiniteSet(FS)
  <2>1. f \in Surjection(0..acks, FS)  BY DEF Surjection
  <2>2. IsFiniteSet(0..acks)  BY <1>1, FS_Interval
  <2> HIDE DEF f, FS
  <2> QED BY <2>1, <2>2, FS_Surjection
<1>6. IsFiniteSet(GS)
  <2>1. g \in Surjection(0..last, GS)  BY DEF Surjection
  <2> HIDE DEF last
  <2>2. IsFiniteSet(0..last)  BY <1>1, FS_Interval
  <2> HIDE DEF g, GS
  <2> QED BY <2>1, <2>2, FS_Surjection
<1>7. IsFiniteSet(rest)  BY FS_Singleton, FS_Union
<1> HIDE DEF FS, GS, rest
<1>8. IsFiniteSet(FS \cup (GS \cup rest))  BY <1>5, <1>6, <1>7, FS_Union
<1> QED BY <1>4, <1>8, FS_Subset

LEMMA OutgoingOrdered ==
  ASSUME IInv, Sized, NEW e \in Ends, NEW late, NEW due
  PROVE  /\ Ordered(Outgoing(e, late, due))
         /\ \A s \in Outgoing(e, late, due) : Bytes(s) \in 0..MTU
<1> DEFINE out == Outgoing(e, late, due)
           last == snd_nxt[e] + MoveCount(e)
<1>0. TypeOK /\ SenderInv(e)  BY DEF IInv, DirectionInv
<1>1. out \subseteq Segment  BY <1>0, OutgoingType
<1>2. \A x \in Numbered(e) : /\ x.sn \in Nat /\ x.sn < last
                             /\ x.frag = stream[e][x.sn + 1]
  BY <1>0, NumberedCarries
<1>3. \A s \in out : s.cmd # "PUSH" => s.frag = NoFrag /\ (s.cmd # "ACK" => s.sn = 0)
  BY DEF Outgoing
<1>4. \A s \in out : s.cmd = "PUSH" => /\ s.sn \in Nat /\ s.sn < last
                                       /\ s.frag = stream[e][s.sn + 1]
  BY <1>0, <1>2, OutgoingFacts
<1>5. \A s \in out : s.una = rcv_nxt[e] /\ s.wnd = wnd_unused(e)  BY DEF Outgoing
<1>6. ASSUME NEW s \in out, NEW t \in out, s.cmd = t.cmd, s.sn = t.sn PROVE s = t
  <2>1. s.frag = t.frag  BY <1>3, <1>4, <1>6
  <2>2. s \in Segment /\ t \in Segment  BY <1>1
  <2> HIDE DEF out
  <2> QED BY <1>5, <1>6, <2>1, <2>2 DEF Segment
<1>7. ASSUME NEW s \in out, NEW t \in out, s # t PROVE Before(s, t) \/ Before(t, s)
  <2>1. s \in Segment /\ t \in Segment  BY <1>1
  <2>2. s.cmd # t.cmd \/ s.sn # t.sn  BY <1>6, <1>7
  <2> HIDE DEF out
  <2> QED BY <2>1, <2>2 DEF Before, Segment
<1>8. ASSUME NEW s \in out PROVE Bytes(s) \in 0..MTU
  <2>1. s.frag.len \in Nat  BY <1>1 DEF Segment, Frag
  <2>2. s.frag.len <= mss
    <3>1. mss \in Nat  BY ConstantFacts
    <3>2. CASE s.cmd # "PUSH"  BY <1>3, <3>1, <3>2 DEF NoFrag
    <3>3. CASE s.cmd = "PUSH"
      <4>1. /\ snd_nxt[e] \in Nat /\ Len(snd_queue[e]) \in Nat /\ Len(stream[e]) \in Nat
            /\ snd_nxt[e] + Len(snd_queue[e]) = Len(stream[e])
        BY <1>0, EndType DEF SenderInv
      <4>2. MoveCount(e) \in Nat /\ MoveCount(e) <= Len(snd_queue[e])
        BY <1>0, MoveCountBounds DEF TypeOK
      <4>3. s.sn \in Nat /\ s.sn < last /\ s.frag = stream[e][s.sn + 1]  BY <1>4, <3>3
      <4>4. s.sn + 1 \in 1..Len(stream[e])  BY <4>1, <4>2, <4>3
      <4> QED BY <4>3, <4>4 DEF Sized
    <3> QED BY <3>2, <3>3
  <2> HIDE DEF out
  <2> QED BY <2>1, <2>2, BlockAssumption DEF Bytes, mss
<1> QED BY <1>1, <1>7, <1>8, OutgoingFinite DEF Ordered

(***************************************************************************)
(* The datagrams on the way                                                *)
(***************************************************************************)
Fits(d) == MapThenSumSet(Bytes, d) <= MTU

AllFit == \A p \in Ends : \A d \in net[p] : Fits(d)

LEMMA FitsStep ==
  ASSUME IInv, Sized, AllFit, [Next]_vars
  PROVE  AllFit'
<1>1. ASSUME UNCHANGED net PROVE AllFit'  BY <1>1 DEF AllFit
<1>2. ASSUME NEW e \in Ends, Update(e) \/ Flush(e) PROVE AllFit'
  <2>1. PICK late, due : Output(e, Datagrams(e, late, due))  BY <1>2 DEF Update, Flush
  <2>2. \A d \in Datagrams(e, late, due) : Fits(d)
    BY OutgoingOrdered, PackFits DEF Datagrams, Fits
  <2>3. \A p \in Ends : \A d \in net'[p] : d \in net[p] \/ d \in Datagrams(e, late, due)
    BY <2>1 DEF Output, IInv, TypeOK
  <2> QED BY <2>2, <2>3 DEF AllFit
<1>3. ASSUME NEW e \in Ends, Receive(e) PROVE AllFit'
  <2>1. \A p \in Ends : net'[p] \subseteq net[p]  BY <1>3 DEF Receive, IInv, TypeOK
  <2> QED BY <2>1 DEF AllFit
<1>4. ASSUME NEW e \in Ends, Write(e) \/ Read(e) \/ Input(e) PROVE UNCHANGED net
  BY <1>4 DEF Write, Read, Input
<1> QED BY <1>1, <1>2, <1>3, <1>4 DEF Next, vars

(* No datagram is larger than the mtu, however many acknowledgements,      *)
(* probes and segments a flush has to send: ikcp_flush hands its buffer    *)
(* over before the segment that would push it over the limit.              *)
THEOREM MtuRespected == Spec => []DatagramFits
<1> DEFINE Fit == Sized /\ AllFit
<1>1. LinkInit => Fit
  BY DEF LinkInit, Init, Sized, AllFit
<1>2. IInv /\ Fit /\ [Next]_vars => Fit'
  BY SizedStep, FitsStep DEF IInv
<1>3. Fit => DatagramFits  BY DEF AllFit, Fits, DatagramFits
<1> QED BY <1>1, <1>2, <1>3, Invariant, PTL DEF Spec
=============================================================================
