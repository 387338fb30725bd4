---------------------------- MODULE KcpLinkTypes ----------------------------
(***************************************************************************)
(* Type correctness of KcpLink, and what its operators return, for every   *)
(* value of the constants; that the congestion window stays open; and that *)
(* Pack, which fills the buffer of a flush by a recursive function, cuts   *)
(* what it is given into datagrams of at most the mtu.                     *)
(***************************************************************************)
EXTENDS KcpLink, TLAPS, WellFoundedInduction, SequenceTheorems,
        FiniteSetTheorems

LEMMA ConstantFacts ==
  /\ mss \in Nat \ {0} /\ snd_wnd \in Nat \ {0} /\ rcv_wnd \in Nat \ {0}
  /\ WND_RCV \in Nat /\ WND_RCV <= rcv_wnd /\ resent \in Nat
  /\ DEADLINK \in Nat \ {0} /\ FastResend \in Nat
  /\ \A p \in Ends : Peer(p) \in Ends /\ Peer(p) # p /\ Peer(Peer(p)) = p
BY BlockAssumption
   DEF mss, snd_wnd, rcv_wnd, resent, imax, Ends, Peer

LEMMA MinimumExists ==
  ASSUME NEW S, S \subseteq Nat, S # {}
  PROVE \E m \in S : \A n \in S : m <= n
<1> DEFINE R == OpToRel(<, Nat)
<1>0. IsWellFoundedOn(R, Nat) BY NatLessThanWellFounded
<1>2. \A m, n \in Nat : m < n => <<m, n>> \in R
  BY DEF OpToRel
<1> HIDE DEF R
<1>1. \E m \in S : \A n \in S : ~ (<<n, m>> \in R)
  BY <1>0, WFMin
<1>3. PICK m \in S : \A n \in S : ~ (<<n, m>> \in R) BY <1>1
<1>4. \A n \in S : ~ (n < m) BY <1>3, <1>2, Zenon
<1>. QED  BY <1>4

LEMMA MinMaxType ==
  \A a, b \in Nat : imin(a, b) \in Nat /\ imax(a, b) \in Nat
BY DEF imin, imax

LEMMA FragCountBounds ==
  ASSUME NEW len \in Nat
  PROVE  /\ FragCount(len) \in Nat \ {0}
         /\ \A i \in 1..FragCount(len) : len - (i - 1) * mss \in Nat
<1> DEFINE c == (len + mss - 1) \div mss
<1>0. mss \in Nat \ {0}  BY ConstantFacts
<1> HIDE DEF c
<1>1. CASE len <= mss
  <2>1. FragCount(len) = 1  BY <1>1 DEF FragCount
  <2>2. \A i \in 1..1 : len - (i - 1) * mss = len BY <1>0
  <2> QED BY <2>1, <2>2
<1>2. CASE ~(len <= mss)
  <2>1. FragCount(len) = c  BY <1>2 DEF FragCount, c
  <2>2. PICK k \in Nat \ {0} : k = mss BY <1>0
  <2>3. c \in Nat \ {0} /\ c * mss <= len + mss - 1
    <3>1. \A a \in Nat, b \in Nat \ {0} : a >= b => a \div b \in Nat \ {0} /\ (a \div b) * b <= a
      OBVIOUS
    <3>2. len + mss - 1 \in Nat /\ len + mss - 1 >= mss BY <1>0, <1>2
    <3> QED BY <3>1, <3>2, <1>0 DEF c
  <2>4. ASSUME NEW i \in 1..c PROVE len - (i - 1) * mss \in Nat
    <3>1. \A a, b \in Nat, m \in Nat : a <= b => a * m <= b * m  OBVIOUS
    <3>2. (i - 1) * mss <= (c - 1) * mss  BY <3>1, <2>3, <1>0
    <3>3. (c - 1) * mss = c * mss - mss  BY <2>3, <1>0
    <3>4. (i - 1) * mss \in Nat /\ c * mss \in Nat BY <1>0, <2>3
    <3> QED BY <3>2, <3>3, <3>4, <2>3, <1>0
  <2> QED BY <2>1, <2>3, <2>4
<1> QED BY <1>1, <1>2

LEMMA FragmentsType ==
  ASSUME NEW m \in Nat, NEW len \in Nat
  PROVE  /\ Fragments(m, len) \in Seq(Frag)
         /\ Len(Fragments(m, len)) = FragCount(len)
         /\ \A i \in 1..FragCount(len) :
              /\ Fragments(m, len)[i].frg = FragCount(len) - i
              /\ Fragments(m, len)[i].msg = m
<1> DEFINE e(i) == [msg |-> m, frg |-> FragCount(len) - i,
                    len |-> imin(mss, len - (i - 1) * mss)]
<1>1. Fragments(m, len) = [i \in 1..FragCount(len) |-> e(i)]  BY DEF Fragments
<1>2. FragCount(len) \in Nat  BY FragCountBounds
<1>3. ASSUME NEW i \in 1..FragCount(len) PROVE e(i) \in Frag
  <2>1. len - (i - 1) * mss \in Nat  BY FragCountBounds
  <2>2. imin(mss, len - (i - 1) * mss) \in Nat  BY <2>1, ConstantFacts, MinMaxType
  <2> QED BY <2>2, <1>2 DEF Frag
<1>4. \A i \in 1..FragCount(len) : e(i).frg = FragCount(len) - i /\ e(i).msg = m
  OBVIOUS
<1> HIDE DEF e
<1>5. Fragments(m, len) \in Seq(Frag)  BY <1>1, <1>2, <1>3, IsASeq
<1> QED BY <1>1, <1>2, <1>4, <1>5

LEMMA InitType == LinkInit => TypeOK
<1> SUFFICES ASSUME LinkInit PROVE TypeOK OBVIOUS
<1>1. WND_RCV \in Nat BY ConstantFacts
<1>2. <<>> \in Seq(Frag) BY EmptySeq
<1>3. NoInput \in InputCall
  BY DEF NoInput, InputCall
<1> QED BY <1>1, <1>2, <1>3 DEF LinkInit, Init, TypeOK, IKCP_THRESH_INIT

LEMMA SendType ==
  ASSUME TypeOK, NEW p \in Ends, Write(p) PROVE TypeOK'
<1>1. PICK len \in MsgLens : ikcp_send(p, len)  BY DEF Write
<1>2. len \in Nat /\ written[p] + 1 \in Nat BY BlockAssumption DEF TypeOK
<1> DEFINE new == Fragments(written[p] + 1, len)
<1>3. new \in Seq(Frag)  BY <1>2, FragmentsType
<1> HIDE DEF new
<1>4. /\ snd_queue' = [snd_queue EXCEPT ![p] = @ \o new]
      /\ stream' = [stream EXCEPT ![p] = @ \o new]
  BY <1>1 DEF ikcp_send, new
<1>5. /\ snd_queue[p] \o new \in Seq(Frag)
      /\ stream[p] \o new \in Seq(Frag)
  BY <1>3, ConcatProperties DEF TypeOK
<1>6. /\ snd_queue' \in [Ends -> Seq(Frag)]
      /\ stream' \in [Ends -> Seq(Frag)]
  BY <1>4, <1>5 DEF TypeOK
<1>7. written' \in [Ends -> Nat]  BY <1>1, <1>2 DEF TypeOK, ikcp_send
<1> QED BY <1>1, <1>6, <1>7 DEF TypeOK, Write, ikcp_send, rcvVars, ccVars, ctlVars

(* The effect of MoveReady when it moves m segments, with fragments moved. *)
Moves(p, buf, queue, m, moved) ==
  /\ Len(moved) = m
  /\ \A i \in 1..m : \E s \in buf : s.sn = rcv_nxt[p] + i - 1 /\ moved[i] = s.frag
  /\ rcv_nxt' = [rcv_nxt EXCEPT ![p] = @ + m]
  /\ rcv_buf' = [rcv_buf EXCEPT ![p] =
                   {s \in buf : s.sn < rcv_nxt[p] \/ rcv_nxt[p] + m <= s.sn}]
  /\ rcv_queue' = [rcv_queue EXCEPT ![p] = queue \o moved]

LEMMA MoveReadyEffect ==
  ASSUME TypeOK, NEW p \in Ends, NEW buf \in SUBSET RcvSeg,
         NEW queue \in Seq(Frag), MoveReady(p, buf, queue)
  PROVE  \E m \in Nat, moved \in Seq(Frag) : Moves(p, buf, queue, m, moved)
<1>1. PICK m \in 0..Cardinality(buf) :
        /\ StopsAfter(m, buf, queue, rcv_nxt[p])
        /\ rcv_queue' = [rcv_queue EXCEPT ![p] =
                queue \o [i \in 1..m |-> FragAt(buf, rcv_nxt[p] + i - 1)]]
        /\ rcv_buf' = [rcv_buf EXCEPT ![p] =
                {s \in buf : s.sn \notin rcv_nxt[p]..(rcv_nxt[p] + m - 1)}]
        /\ rcv_nxt' = [rcv_nxt EXCEPT ![p] = @ + m]
  BY DEF MoveReady
<1> DEFINE e(i) == FragAt(buf, rcv_nxt[p] + i - 1)
           moved == [i \in 1..m |-> e(i)]
<1>2. m \in Nat /\ rcv_nxt[p] \in Nat  BY DEF TypeOK
<1>3. ASSUME NEW i \in 1..m
      PROVE  \E s \in buf : s.sn = rcv_nxt[p] + i - 1 /\ e(i) = s.frag
  <2> DEFINE n == rcv_nxt[p] + i - 1
  <2>1. Has(buf, rcv_nxt[p] + (i - 1))
    <3>1. i - 1 \in 0..(m - 1) BY <1>2
    <3> QED BY <3>1, <1>1 DEF StopsAfter
  <2>2. rcv_nxt[p] + (i - 1) = n  BY <1>2
  <2>3. \E s \in buf : s.sn = n  BY <2>1, <2>2, Zenon DEF Has
  <2> HIDE DEF n
  <2>4. \E s \in buf : s.sn = n /\ FragAt(buf, n) = s.frag
    BY <2>3, Zenon DEF FragAt
  <2> QED BY <2>4 DEF n
<1>4. \A i \in 1..m : e(i) \in Frag  BY <1>3 DEF RcvSeg
<1> HIDE DEF e
<1>5. moved \in Seq(Frag)  BY <1>2, <1>4, IsASeq
<1>6. Len(moved) = m  BY <1>2
<1>7. \A i \in 1..m : \E s \in buf : s.sn = rcv_nxt[p] + i - 1 /\ moved[i] = s.frag
  BY <1>3
<1>8. {s \in buf : s.sn \notin rcv_nxt[p]..(rcv_nxt[p] + m - 1)}
       = {s \in buf : s.sn < rcv_nxt[p] \/ rcv_nxt[p] + m <= s.sn}
  BY <1>2 DEF RcvSeg
<1>9. rcv_queue' = [rcv_queue EXCEPT ![p] = queue \o moved]  BY <1>1 DEF e
<1>10. rcv_buf' = [rcv_buf EXCEPT ![p] =
                {s \in buf : s.sn < rcv_nxt[p] \/ rcv_nxt[p] + m <= s.sn}]
  BY <1>1, <1>8
<1>11. rcv_nxt' = [rcv_nxt EXCEPT ![p] = @ + m]  BY <1>1
<1> HIDE DEF moved
<1>12. Moves(p, buf, queue, m, moved) BY <1>6, <1>7, <1>9, <1>10, <1>11, Zenon DEF Moves
<1> QED BY <1>2, <1>5, <1>12

LEMMA MoveReadyType ==
  ASSUME TypeOK, NEW p \in Ends, NEW buf \in SUBSET RcvSeg,
         NEW queue \in Seq(Frag), MoveReady(p, buf, queue)
  PROVE  /\ rcv_nxt' \in [Ends -> Nat]
         /\ rcv_buf' \in [Ends -> SUBSET RcvSeg]
         /\ rcv_queue' \in [Ends -> Seq(Frag)]
<1>1. PICK m \in Nat, moved \in Seq(Frag) : Moves(p, buf, queue, m, moved)
  BY MoveReadyEffect
<1>2. queue \o moved \in Seq(Frag)  BY ConcatProperties
<1> QED BY <1>1, <1>2 DEF TypeOK, Moves

LEMMA SubSeqType ==
  ASSUME NEW s \in Seq(Frag), NEW m \in Nat \ {0}, NEW n \in Nat, n <= Len(s)
  PROVE  SubSeq(s, m, n) \in Seq(Frag)
<1>1. \A i \in m..n : s[i] \in Frag
  BY ElementOfSeq
<1> QED BY <1>1, SubSeqProperties

LEMMA ReadType ==
  ASSUME TypeOK, NEW p \in Ends, Read(p) PROVE TypeOK'
<1> DEFINE q == rcv_queue[p]
<1>0. q \in Seq(Frag) /\ got[p] \in Seq(Frag) /\ rcv_buf[p] \in SUBSET RcvSeg  BY DEF TypeOK
<1>1. PICK k \in 1..Len(q) :
        /\ got' = [got EXCEPT ![p] = @ \o SubSeq(q, 1, k)]
        /\ MoveReady(p, rcv_buf[p], SubSeq(q, k + 1, Len(q)))
  BY DEF Read, ikcp_recv
<1> HIDE DEF q
<1>2. Len(q) \in Nat BY <1>0, LenProperties
<1>3. SubSeq(q, 1, k) \in Seq(Frag) /\ SubSeq(q, k + 1, Len(q)) \in Seq(Frag)
  BY <1>0, <1>2, SubSeqType
<1>4. got' \in [Ends -> Seq(Frag)]
  <2>1. got[p] \o SubSeq(q, 1, k) \in Seq(Frag)  BY <1>0, <1>3, ConcatProperties
  <2> QED BY <2>1, <1>1 DEF TypeOK
<1>5. /\ rcv_nxt' \in [Ends -> Nat]
      /\ rcv_buf' \in [Ends -> SUBSET RcvSeg]
      /\ rcv_queue' \in [Ends -> Seq(Frag)]
  BY <1>0, <1>1, <1>3, MoveReadyType
<1>6. probe' \in [Ends -> SUBSET {"ASK_SEND", "ASK_TELL"}]
  BY DEF TypeOK, Read, ikcp_recv
<1> QED BY <1>4, <1>5, <1>6 DEF TypeOK, Read, ikcp_recv, sndVars, ccVars

LEMMA ReceiveType ==
  ASSUME TypeOK, NEW p \in Ends, Receive(p) PROVE TypeOK'
<1>1. PICK d \in net[p] : InputStart(p, d) /\ (net' = [net EXCEPT ![p] = @ \ {d}] \/ UNCHANGED net)
  BY DEF Receive
<1>2. d \in SUBSET Segment /\ snd_una[p] \in Nat  BY DEF TypeOK
<1>3. inp' \in [Ends -> InputCall]
  BY <1>1, <1>2 DEF TypeOK, InputStart, InputCall
<1>4. net' \in [Ends -> SUBSET (SUBSET Segment)]
  <2>1. net[p] \ {d} \in SUBSET (SUBSET Segment)  BY DEF TypeOK
  <2> QED BY <1>1, <2>1 DEF TypeOK
<1> QED BY <1>1, <1>3, <1>4 DEF TypeOK, InputStart, sndVars, rcvVars, ccVars, ctlVars, histVars

LEMMA FrontType ==
  ASSUME NEW buf, NEW nxt \in Nat, \A x \in buf : x.sn \in Nat
  PROVE  /\ Front(buf, nxt) \in Nat
         /\ \A x \in buf : Front(buf, nxt) <= x.sn
         /\ buf # {} => \E x \in buf : x.sn = Front(buf, nxt)
         /\ buf = {} => Front(buf, nxt) = nxt
<1>1. CASE buf = {} BY <1>1 DEF Front
<1>2. CASE buf # {}
  <2>1. PICK m \in {x.sn : x \in buf} : \A n \in {x.sn : x \in buf} : m <= n
    BY <1>2, MinimumExists
  <2> QED BY <2>1, <1>2, Zenon DEF Front, Min
<1> QED BY <1>1, <1>2

LEMMA AfterUnaType ==
  ASSUME TypeOK, NEW p \in Ends, NEW una
  PROVE  AfterUna(p, una) \in SUBSET SndSeg /\ AfterUna(p, una) \subseteq snd_buf[p]
BY DEF AfterUna, TypeOK

LEMMA AfterAckType ==
  ASSUME TypeOK, NEW p \in Ends, NEW una, NEW sn
  PROVE  AfterAck(p, una, sn) \in SUBSET SndSeg /\ AfterAck(p, una, sn) \subseteq snd_buf[p]
BY AfterUnaType DEF AfterAck

(* What the four handlers of ikcp_input do alike. *)
LEMMA TakeSegmentType ==
  ASSUME TypeOK, NEW p \in Ends, NEW s \in inp[p].segs, NEW buf \in SUBSET SndSeg,
         NEW maxack \in Nat \cup {-1}, TakeSegment(p, s, buf, maxack)
  PROVE  /\ s \in Segment
         /\ rmt_wnd' \in [Ends -> Nat]
         /\ snd_buf' \in [Ends -> SUBSET SndSeg]
         /\ snd_una' \in [Ends -> Nat]
         /\ inp' \in [Ends -> InputCall]
         /\ UNCHANGED <<snd_queue, snd_nxt, cwnd, incr, ssthresh, probe_wait,
                        updated, state, written, stream, got>>
<1>4. inp[p] \in InputCall  BY DEF TypeOK
<1>1. s \in Segment  BY <1>4 DEF InputCall
<1>2. s.wnd \in Nat  BY <1>1 DEF Segment
<1>3. Front(buf, snd_nxt[p]) \in Nat  BY FrontType DEF TypeOK, SndSeg
<1> DEFINE new == [inp[p] EXCEPT !.segs = inp[p].segs \ {s}, !.maxack = maxack]
<1>5. inp' = [inp EXCEPT ![p] = new]  BY DEF TakeSegment
<1>6. new \in InputCall  BY <1>4 DEF InputCall
<1> HIDE DEF new
<1>7. inp' \in [Ends -> InputCall]  BY <1>5, <1>6 DEF TypeOK
<1> QED BY <1>1, <1>2, <1>3, <1>7 DEF TypeOK, TakeSegment, ccVars, histVars

LEMMA InputAckType ==
  ASSUME TypeOK, NEW p \in Ends, NEW s \in inp[p].segs, InputAck(p, s), UNCHANGED net
  PROVE  TypeOK'
<1>0. s \in Segment /\ inp[p] \in InputCall BY DEF TypeOK, InputCall
<1>1. imax(inp[p].maxack, s.sn) \in Nat \cup {-1}  BY <1>0 DEF imax, InputCall, Segment
<1>2. AfterAck(p, s.una, s.sn) \in SUBSET SndSeg  BY AfterAckType
<1>3. /\ TakeSegment(p, s, AfterAck(p, s.una, s.sn), imax(inp[p].maxack, s.sn))
      /\ UNCHANGED <<rcvVars, acklist, probe>>
  BY DEF InputAck
<1> QED BY <1>1, <1>2, <1>3, TakeSegmentType DEF TypeOK, rcvVars

LEMMA InputPushType ==
  ASSUME TypeOK, NEW p \in Ends, NEW s \in inp[p].segs, InputPush(p, s), UNCHANGED net
  PROVE  TypeOK'
<1>0. s \in Segment /\ inp[p].maxack \in Nat \cup {-1}  BY DEF TypeOK, InputCall
<1> DEFINE buf == IF Has(rcv_buf[p], s.sn) THEN rcv_buf[p]
                  ELSE rcv_buf[p] \cup {[sn |-> s.sn, frag |-> s.frag]}
<1>1. buf \in SUBSET RcvSeg  BY <1>0 DEF TypeOK, RcvSeg, Segment
<1>2. AfterUna(p, s.una) \in SUBSET SndSeg  BY AfterUnaType
<1>3. TakeSegment(p, s, AfterUna(p, s.una), inp[p].maxack)  BY DEF InputPush
<1>4. acklist' \in [Ends -> SUBSET Nat]
  <2>1. acklist[p] \cup {s.sn} \in SUBSET Nat  BY <1>0 DEF TypeOK, Segment
  <2> QED BY <2>1 DEF TypeOK, InputPush
<1>5. MoveReady(p, buf, rcv_queue[p]) \/ UNCHANGED rcvVars  BY DEF InputPush
<1> HIDE DEF buf
<1>6. /\ rcv_nxt' \in [Ends -> Nat]
      /\ rcv_buf' \in [Ends -> SUBSET RcvSeg]
      /\ rcv_queue' \in [Ends -> Seq(Frag)]
  <2>1. CASE MoveReady(p, buf, rcv_queue[p])
    BY <1>1, <2>1, MoveReadyType DEF TypeOK
  <2>2. CASE UNCHANGED rcvVars BY <2>2 DEF rcvVars, TypeOK
  <2> QED BY <1>5, <2>1, <2>2
<1>7. UNCHANGED probe  BY DEF InputPush
<1> QED BY <1>0, <1>2, <1>3, <1>4, <1>6, <1>7, TakeSegmentType DEF TypeOK

LEMMA InputWindowType ==
  ASSUME TypeOK, NEW p \in Ends, NEW s \in inp[p].segs,
         InputWask(p, s) \/ InputWins(p, s), UNCHANGED net
  PROVE  TypeOK'
<1>0. inp[p].maxack \in Nat \cup {-1}  BY DEF TypeOK, InputCall
<1>2. AfterUna(p, s.una) \in SUBSET SndSeg  BY AfterUnaType
<1>3. TakeSegment(p, s, AfterUna(p, s.una), inp[p].maxack)  BY DEF InputWask, InputWins
<1>4. probe' \in [Ends -> SUBSET {"ASK_SEND", "ASK_TELL"}]
  <2>1. probe[p] \cup {"ASK_TELL"} \in SUBSET {"ASK_SEND", "ASK_TELL"}  BY DEF TypeOK
  <2> QED BY <2>1 DEF InputWask, InputWins, TypeOK
<1>5. UNCHANGED <<rcvVars, acklist>>  BY DEF InputWask, InputWins
<1> QED BY <1>0, <1>2, <1>3, <1>4, <1>5, TakeSegmentType DEF TypeOK, rcvVars

LEMMA QuotientType == \A a \in Nat, b \in Nat \ {0} : a \div b \in Nat
OBVIOUS

LEMMA GrownType ==
  ASSUME TypeOK, NEW p \in Ends PROVE Grown(p)[1] \in Nat /\ Grown(p)[2] \in Nat
<1>1. /\ cwnd[p] \in Nat /\ incr[p] \in Nat /\ rmt_wnd[p] \in Nat
      /\ mss \in Nat \ {0}
  BY ConstantFacts DEF TypeOK
<1>2. \A a, b \in Nat : a * b \in Nat  OBVIOUS
<1> DEFINE base == imax(incr[p], mss)
           grow == base + (mss * mss) \div base + mss \div 16
<1>3. base \in Nat \ {0}  BY <1>1 DEF imax
<1> HIDE DEF base
<1>4. grow \in Nat  BY <1>1, <1>2, <1>3, QuotientType
<1>5. rmt_wnd[p] * mss \in Nat BY <1>1, <1>2
<1>6. incr[p] + mss \in Nat /\ cwnd[p] + 1 \in Nat BY <1>1
<1> DEFINE cw == IF cwnd[p] < ssthresh[p] \/ (cwnd[p] + 1) * mss
                        <= (IF cwnd[p] < ssthresh[p] THEN incr[p] + mss ELSE grow)
                 THEN cwnd[p] + 1 ELSE cwnd[p]
           inc == IF cwnd[p] < ssthresh[p] THEN incr[p] + mss ELSE grow
<1>7. Grown(p) = IF cw > rmt_wnd[p] THEN <<rmt_wnd[p], rmt_wnd[p] * mss>> ELSE <<cw, inc>>
  BY DEF Grown, base
<1>8. cw \in Nat /\ inc \in Nat  BY <1>1, <1>4, <1>6
<1> HIDE DEF cw, inc
<1> QED BY <1>1, <1>5, <1>7, <1>8

LEMMA AfterFastackType ==
  ASSUME TypeOK, NEW p \in Ends, NEW maxack PROVE AfterFastack(p, maxack) \in SUBSET SndSeg
<1>1. \A x \in snd_buf[p] : x \in SndSeg  BY DEF TypeOK
<1>2. ASSUME NEW x \in SndSeg PROVE [x EXCEPT !.fastack = imin(@ + 1, resent)] \in SndSeg
  <2>1. imin(x.fastack + 1, resent) \in Nat  BY ConstantFacts DEF imin, SndSeg
  <2> QED BY <2>1 DEF SndSeg
<1> QED BY <1>1, <1>2 DEF AfterFastack

LEMMA InputDoneType ==
  ASSUME TypeOK, NEW p \in Ends, InputDone(p), UNCHANGED net PROVE TypeOK'
<1>1. snd_buf' \in [Ends -> SUBSET SndSeg]
  BY AfterFastackType DEF InputDone, TypeOK
<1>2. cwnd' \in [Ends -> Nat] /\ incr' \in [Ends -> Nat]
  BY GrownType DEF InputDone, TypeOK
<1>3. inp' \in [Ends -> InputCall]
  BY DEF InputDone, TypeOK, NoInput, InputCall
<1> QED BY <1>1, <1>2, <1>3 DEF TypeOK, InputDone, rcvVars, ctlVars, histVars

LEMMA InputType ==
  ASSUME TypeOK, NEW p \in Ends, Input(p) PROVE TypeOK'
BY InputAckType, InputPushType, InputWindowType, InputDoneType DEF Input

LEMMA EffectiveWndBounds ==
  ASSUME TypeOK, NEW p \in Ends
  PROVE  EffectiveWnd(p) \in Nat /\ EffectiveWnd(p) <= snd_wnd
BY ConstantFacts DEF EffectiveWnd, imin, TypeOK

LEMMA MoveCountBounds ==
  ASSUME TypeOK, NEW p \in Ends
  PROVE  /\ MoveCount(p) \in Nat /\ MoveCount(p) <= Len(snd_queue[p])
         /\ MoveCount(p) > 0 => snd_nxt[p] + MoveCount(p) <= snd_una[p] + snd_wnd
<1>1. Len(snd_queue[p]) \in Nat  BY LenProperties DEF TypeOK
<1>2. /\ snd_una[p] \in Nat /\ snd_nxt[p] \in Nat /\ snd_wnd \in Nat
      /\ EffectiveWnd(p) \in Nat /\ EffectiveWnd(p) <= snd_wnd
  BY EffectiveWndBounds, ConstantFacts DEF TypeOK
<1>3. ASSUME NEW n \in Nat, NEW room \in Int
      PROVE  /\ imin(n, imax(0, room)) \in Nat /\ imin(n, imax(0, room)) <= n
             /\ imin(n, imax(0, room)) > 0 => imin(n, imax(0, room)) <= room
  BY DEF imin, imax
<1> DEFINE room == snd_una[p] + EffectiveWnd(p) - snd_nxt[p]
<1>4. room \in Int /\ snd_nxt[p] + room <= snd_una[p] + snd_wnd  BY <1>2
<1>5. MoveCount(p) = imin(Len(snd_queue[p]), imax(0, room))  BY DEF MoveCount
<1> HIDE DEF room
<1>6. /\ MoveCount(p) \in Nat /\ MoveCount(p) <= Len(snd_queue[p])
      /\ MoveCount(p) > 0 => MoveCount(p) <= room
  BY <1>1, <1>3, <1>4, <1>5
<1> QED BY <1>2, <1>4, <1>6

LEMMA NumberedType ==
  ASSUME TypeOK, NEW p \in Ends PROVE Numbered(p) \in SUBSET SndSeg
<1>1. /\ snd_queue[p] \in Seq(Frag) /\ snd_nxt[p] \in Nat
      /\ snd_buf[p] \in SUBSET SndSeg
  BY DEF TypeOK
<1>2. MoveCount(p) \in Nat /\ MoveCount(p) <= Len(snd_queue[p]) /\ Len(snd_queue[p]) \in Nat
  BY <1>1, MoveCountBounds, LenProperties
<1>3. ASSUME NEW i \in 1..MoveCount(p)
      PROVE [sn |-> snd_nxt[p] + i - 1, frag |-> snd_queue[p][i],
             fastack |-> 0, xmit |-> 0] \in SndSeg
  <2>1. snd_queue[p][i] \in Frag  BY <1>1, <1>2, ElementOfSeq
  <2> QED BY <1>1, <1>2, <2>1 DEF SndSeg
<1> QED BY <1>1, <1>3 DEF Numbered

LEMMA TransmittedType ==
  ASSUME NEW s \in SndSeg, NEW late
  PROVE  /\ Transmitted(s, late) \in SndSeg
         /\ Transmitted(s, late).sn = s.sn /\ Transmitted(s, late).frag = s.frag
<1>1. imin(s.xmit + 1, DEADLINK) \in Nat  BY ConstantFacts DEF imin, SndSeg
<1> QED BY <1>1 DEF Transmitted, SndSeg

LEMMA AfterCongestionType ==
  ASSUME TypeOK, NEW p \in Ends, NEW late
  PROVE  /\ AfterCongestion(p, late).cwnd \in Nat
         /\ AfterCongestion(p, late).incr \in Nat
         /\ AfterCongestion(p, late).ssthresh \in Nat
<1> DEFINE inflight == snd_nxt[p] + MoveCount(p) - snd_una[p]
           th1 == IF FastResent(p, late) # {} THEN imax(inflight \div 2, IKCP_THRESH_MIN)
                  ELSE ssthresh[p]
           cw1 == IF FastResent(p, late) # {} THEN th1 + resent ELSE cwnd[p]
           in1 == IF FastResent(p, late) # {} THEN cw1 * mss ELSE incr[p]
<1>1. mss \in Nat /\ resent \in Nat /\ cwnd[p] \in Nat /\ incr[p] \in Nat /\ ssthresh[p] \in Nat
  BY ConstantFacts DEF TypeOK
<1>2. inflight \in Int
  <2>1. MoveCount(p) \in Nat /\ snd_nxt[p] \in Nat /\ snd_una[p] \in Nat
    BY MoveCountBounds DEF TypeOK
  <2> QED BY <2>1
<1>3. th1 \in Nat
  <2>1. \A a \in Int : a \div 2 \in Int  OBVIOUS
  <2> HIDE DEF inflight
  <2>2. inflight \div 2 \in Int  BY <1>2, <2>1
  <2> QED BY <1>1, <2>2 DEF imax, IKCP_THRESH_MIN
<1> HIDE DEF th1
<1>4. cw1 \in Nat  BY <1>1, <1>3
<1> HIDE DEF cw1
<1>5. in1 \in Nat
  <2>1. \A a, b \in Nat : a * b \in Nat  OBVIOUS
  <2> QED BY <2>1, <1>1, <1>4
<1> HIDE DEF in1
<1>6. imax(EffectiveWnd(p) \div 2, IKCP_THRESH_MIN) \in Nat
  <2>1. EffectiveWnd(p) \div 2 \in Nat  BY EffectiveWndBounds, QuotientType
  <2> QED BY <2>1, MinMaxType DEF IKCP_THRESH_MIN
<1>7. imax(cw1, 1) \in Nat BY <1>4, MinMaxType
<1>8. AfterCongestion(p, late) =
        IF late # {}
        THEN [ssthresh |-> imax(EffectiveWnd(p) \div 2, IKCP_THRESH_MIN),
              cwnd |-> 1, incr |-> mss]
        ELSE [ssthresh |-> th1, cwnd |-> imax(cw1, 1),
              incr |-> IF cw1 < 1 THEN mss ELSE in1]
  BY Zenon DEF AfterCongestion, th1, cw1, in1
<1> QED BY <1>1, <1>3, <1>4, <1>5, <1>6, <1>7, <1>8

LEMMA OutgoingType ==
  ASSUME TypeOK, NEW p \in Ends, NEW late, NEW due
  PROVE  Outgoing(p, late, due) \in SUBSET Segment
<1>1. rcv_nxt[p] \in Nat /\ acklist[p] \in SUBSET Nat  BY DEF TypeOK
<1>2. wnd_unused(p) \in Nat
  <2>1. Len(rcv_queue[p]) \in Nat  BY LenProperties DEF TypeOK
  <2> QED BY <2>1, ConstantFacts DEF wnd_unused
<1>3. NoFrag \in Frag  BY DEF NoFrag, Frag
<1>4. \A s \in NeedSend(p, late) : s.sn \in Nat /\ s.frag \in Frag
  BY NumberedType DEF NeedSend, SndSeg
<1>5. ASSUME NEW cmd \in {"PUSH", "ACK", "WASK", "WINS"}, NEW sn \in Nat, NEW frag \in Frag
      PROVE  [cmd |-> cmd, sn |-> sn, una |-> rcv_nxt[p],
              wnd |-> wnd_unused(p), frag |-> frag] \in Segment
  BY <1>1, <1>2 DEF Segment
<1> QED BY <1>1, <1>3, <1>4, <1>5 DEF Outgoing

LEMMA PackType == ASSUME NEW out, NEW d \in Pack(out) PROVE d \subseteq out
BY DEF Pack

LEMMA OutputType ==
  ASSUME TypeOK, NEW p \in Ends, NEW late, NEW due, Output(p, Datagrams(p, late, due))
  PROVE  net' \in [Ends -> SUBSET (SUBSET Segment)]
<1>1. PICK kept \in SUBSET Datagrams(p, late, due) :
        net' = [net EXCEPT ![Peer(p)] = @ \cup kept]
  BY DEF Output
<1>2. \A d \in kept : d \in SUBSET Segment
  BY OutgoingType, PackType DEF Datagrams
<1>3. net[Peer(p)] \cup kept \in SUBSET (SUBSET Segment)
  BY <1>2, ConstantFacts DEF TypeOK
<1> QED BY <1>1, <1>3, ConstantFacts DEF TypeOK

LEMMA FlushType ==
  ASSUME TypeOK, NEW p \in Ends, Update(p) \/ Flush(p) PROVE TypeOK'
<1>1. PICK late \in SUBSET snd_buf[p], due \in BOOLEAN :
        /\ FlushBody(p, late, due)
        /\ Output(p, Datagrams(p, late, due))
        /\ UNCHANGED updated \/ updated' = [updated EXCEPT ![p] = TRUE]
  BY DEF Update, Flush, ikcp_update, ikcp_flush
<1>2. net' \in [Ends -> SUBSET (SUBSET Segment)]  BY <1>1, OutputType
<1>3. snd_buf' \in [Ends -> SUBSET SndSeg]
  <2>1. {Transmitted(s, late) : s \in Numbered(p)} \in SUBSET SndSeg
    BY NumberedType, TransmittedType
  <2> QED BY <1>1, <2>1 DEF FlushBody, TypeOK
<1>4. snd_queue' \in [Ends -> Seq(Frag)]
  <2>1. snd_queue[p] \in Seq(Frag)  BY DEF TypeOK
  <2>2. SubSeq(snd_queue[p], MoveCount(p) + 1, Len(snd_queue[p])) \in Seq(Frag)
    BY <2>1, MoveCountBounds, SubSeqType, LenProperties
  <2> QED BY <1>1, <2>2 DEF FlushBody, TypeOK
<1>5. snd_nxt' \in [Ends -> Nat]
  <2>1. MoveCount(p) \in Nat /\ snd_nxt[p] \in Nat  BY MoveCountBounds DEF TypeOK
  <2>2. snd_nxt[p] + MoveCount(p) \in Nat  BY <2>1
  <2> QED BY <1>1, <2>2 DEF FlushBody, TypeOK
<1>6. /\ cwnd' \in [Ends -> Nat] /\ incr' \in [Ends -> Nat] /\ ssthresh' \in [Ends -> Nat]
  BY <1>1, AfterCongestionType DEF FlushBody, TypeOK
<1>7. /\ acklist' \in [Ends -> SUBSET Nat]
      /\ probe' \in [Ends -> SUBSET {"ASK_SEND", "ASK_TELL"}]
      /\ probe_wait' \in [Ends -> BOOLEAN]
      /\ updated' \in [Ends -> BOOLEAN]
  BY <1>1 DEF FlushBody, TypeOK
<1>8. state' \in [Ends -> {0, -1}]  BY <1>1 DEF FlushBody, TypeOK
<1>9. UNCHANGED <<snd_una, rcvVars, rmt_wnd, inp, histVars>>  BY <1>1 DEF FlushBody
<1> QED BY <1>2, <1>3, <1>4, <1>5, <1>6, <1>7, <1>8, <1>9 DEF TypeOK, rcvVars, histVars

LEMMA NextType == TypeOK /\ [Next]_vars => TypeOK'
<1> SUFFICES ASSUME TypeOK, [Next]_vars PROVE TypeOK'  OBVIOUS
<1>1. CASE UNCHANGED vars
  BY <1>1 DEF TypeOK, vars, blockVars, sndVars, rcvVars, ccVars, ctlVars, histVars
<1>2. CASE Next
  BY <1>2, SendType, ReadType, FlushType, ReceiveType, InputType DEF Next
<1> QED BY <1>1, <1>2

(* Every field of the two control blocks keeps its type, whatever the      *)
(* network and the applications do.                                        *)
THEOREM TypeCorrect == Spec => []TypeOK
BY InitType, NextType, PTL DEF Spec

-----------------------------------------------------------------------------
(* The congestion window: open since the first update, and no larger than  *)
(* its byte count.                                                         *)
WindowInv ==
  \A p \in Ends : /\ updated[p] => cwnd[p] >= 1
                  /\ cwnd[p] * mss <= incr[p]

LEMMA NextUnit == \A c, m \in Nat : (c + 1) * m = c * m + m
OBVIOUS

LEMMA GrownOpen ==
  ASSUME TypeOK, NEW p \in Ends, cwnd[p] * mss <= incr[p], cwnd[p] < rmt_wnd[p]
  PROVE  Grown(p)[1] >= cwnd[p] /\ Grown(p)[1] * mss <= Grown(p)[2]
<1>1. /\ cwnd[p] \in Nat /\ incr[p] \in Nat /\ rmt_wnd[p] \in Nat
      /\ mss \in Nat \ {0}
  BY ConstantFacts DEF TypeOK
<1>2. \A a, b \in Nat : a * b \in Nat  OBVIOUS
<1> DEFINE base == imax(incr[p], mss)
           more == (mss * mss) \div base
           slow == cwnd[p] < ssthresh[p]
           inc == IF slow THEN incr[p] + mss ELSE base + more + mss \div 16
           up == slow \/ (cwnd[p] + 1) * mss <= inc
           cw == IF up THEN cwnd[p] + 1 ELSE cwnd[p]
<1>3. base \in Nat \ {0} /\ base >= incr[p]  BY <1>1 DEF imax
<1>7. Grown(p) = IF cw > rmt_wnd[p] THEN <<rmt_wnd[p], rmt_wnd[p] * mss>> ELSE <<cw, inc>>
  BY DEF Grown
<1> HIDE DEF base
<1>4. more \in Nat /\ mss \div 16 \in Nat  BY <1>1, <1>2, <1>3, QuotientType
<1> HIDE DEF more
<1>5. inc \in Nat /\ inc >= incr[p] /\ (slow => inc = incr[p] + mss)
  BY <1>1, <1>3, <1>4
<1> HIDE DEF inc
<1>6. (cwnd[p] + 1) * mss = cwnd[p] * mss + mss /\ cwnd[p] * mss \in Nat
  BY <1>1, <1>2, NextUnit
<1>8. cwnd[p] * mss <= inc  BY <1>1, <1>5, <1>6
<1>9. slow => (cwnd[p] + 1) * mss <= inc  BY <1>1, <1>5, <1>6
<1>10. cw >= cwnd[p] /\ cw * mss <= inc /\ cw \in Nat /\ cw <= rmt_wnd[p]
  BY <1>1, <1>8, <1>9
<1> HIDE DEF cw
<1> QED BY <1>1, <1>7, <1>10

LEMMA CongestionOpen ==
  ASSUME TypeOK, NEW p \in Ends, NEW late, cwnd[p] * mss <= incr[p]
  PROVE  /\ AfterCongestion(p, late).cwnd >= 1
         /\ AfterCongestion(p, late).cwnd * mss <= AfterCongestion(p, late).incr
<1> DEFINE fast == FastResent(p, late) # {}
           th1 == IF fast THEN imax((snd_nxt[p] + MoveCount(p) - snd_una[p]) \div 2,
                                    IKCP_THRESH_MIN)
                  ELSE ssthresh[p]
           cw1 == IF fast THEN th1 + resent ELSE cwnd[p]
           in1 == IF fast THEN cw1 * mss ELSE incr[p]
<1>1. /\ mss \in Nat /\ resent \in Nat /\ cwnd[p] \in Nat /\ incr[p] \in Nat
      /\ ssthresh[p] \in Nat
  BY ConstantFacts DEF TypeOK
<1>8. AfterCongestion(p, late) =
        IF late # {}
        THEN [ssthresh |-> imax(EffectiveWnd(p) \div 2, IKCP_THRESH_MIN),
              cwnd |-> 1, incr |-> mss]
        ELSE [ssthresh |-> th1, cwnd |-> imax(cw1, 1),
              incr |-> IF cw1 < 1 THEN mss ELSE in1]
  BY Zenon DEF AfterCongestion
<1>2. th1 \in Nat
  <2>1. PICK n \in Int : n = snd_nxt[p] + MoveCount(p) - snd_una[p]
    <3>1. MoveCount(p) \in Nat /\ snd_nxt[p] \in Nat /\ snd_una[p] \in Nat
      BY MoveCountBounds DEF TypeOK
    <3> QED BY <3>1
  <2>2. n \div 2 \in Int  OBVIOUS
  <2> QED BY <1>1, <2>1, <2>2 DEF imax, IKCP_THRESH_MIN
<1> HIDE DEF th1
<1>3. cw1 \in Nat  BY <1>1, <1>2
<1>4. in1 = cw1 * mss \/ (cw1 = cwnd[p] /\ in1 = incr[p])  OBVIOUS
<1> HIDE DEF cw1, in1
<1>5. cw1 * mss <= in1
  <2>1. cw1 * mss \in Nat  BY <1>1, <1>3
  <2> QED BY <1>4, <2>1
<1>6. 1 * mss = mss /\ mss <= mss  BY <1>1
<1>9. CASE late # {}  BY <1>6, <1>8, <1>9
<1>10. CASE late = {}
  <2>1. /\ AfterCongestion(p, late).cwnd = imax(cw1, 1)
        /\ AfterCongestion(p, late).incr = IF cw1 < 1 THEN mss ELSE in1
    BY <1>8, <1>10
  <2>2. IF cw1 < 1 THEN imax(cw1, 1) = 1 ELSE imax(cw1, 1) = cw1 /\ cw1 >= 1
    BY <1>3 DEF imax
  <2> QED BY <1>5, <1>6, <2>1, <2>2
<1> QED BY <1>9, <1>10

LEMMA WindowStep == TypeOK /\ WindowInv /\ [Next]_vars => WindowInv'
<1> SUFFICES ASSUME TypeOK, WindowInv, [Next]_vars, NEW p \in Ends
             PROVE  /\ updated'[p] => cwnd'[p] >= 1
                    /\ cwnd'[p] * mss <= incr'[p]
  BY DEF WindowInv
<1>0. /\ updated[p] => cwnd[p] >= 1
      /\ cwnd[p] * mss <= incr[p] /\ cwnd[p] \in Nat
  BY DEF WindowInv, TypeOK
<1>1. ASSUME UNCHANGED <<ccVars, updated>> PROVE UNCHANGED <<cwnd, incr, updated>>
  BY <1>1 DEF ccVars
<1>2. CASE UNCHANGED vars  BY <1>0, <1>1, <1>2 DEF vars, blockVars, ctlVars
<1>3. ASSUME NEW e \in Ends, Write(e) \/ Read(e) \/ Receive(e)
      PROVE  UNCHANGED <<cwnd, incr, updated>>
  BY <1>1, <1>3 DEF Write, Read, Receive, ikcp_send, ikcp_recv, InputStart, ctlVars
<1>4. ASSUME NEW e \in Ends, Update(e) \/ Flush(e)
      PROVE  /\ updated'[p] => cwnd'[p] >= 1
             /\ cwnd'[p] * mss <= incr'[p]
  <2>1. PICK late \in SUBSET snd_buf[e], due \in BOOLEAN : FlushBody(e, late, due)
    BY <1>4 DEF Update, Flush, ikcp_update, ikcp_flush
  <2>2. updated' = updated \/ updated' = [updated EXCEPT ![e] = TRUE]
    BY <1>4 DEF Update, Flush, ikcp_update, ikcp_flush
  <2>3. CASE p = e
    <3>1. /\ cwnd'[p] = AfterCongestion(p, late).cwnd
          /\ incr'[p] = AfterCongestion(p, late).incr
      BY <2>1, <2>3 DEF FlushBody, TypeOK
    <3> QED BY <1>0, <3>1, CongestionOpen
  <2>4. CASE p # e
    <3>1. cwnd'[p] = cwnd[p] /\ incr'[p] = incr[p] /\ updated'[p] = updated[p]
      BY <2>1, <2>2, <2>4 DEF FlushBody, TypeOK
    <3> QED BY <1>0, <3>1
  <2> QED BY <2>3, <2>4
<1>5. ASSUME NEW e \in Ends, Input(e)
      PROVE  /\ updated'[p] => cwnd'[p] >= 1
             /\ cwnd'[p] * mss <= incr'[p]
  <2>1. CASE InputDone(e)
    <3>1. \/ UNCHANGED <<cwnd, incr>>
          \/ /\ cwnd[e] < rmt_wnd[e]
             /\ cwnd' = [cwnd EXCEPT ![e] = Grown(e)[1]]
             /\ incr' = [incr EXCEPT ![e] = Grown(e)[2]]
      BY <2>1 DEF InputDone
    <3>2. updated' = updated  BY <2>1 DEF InputDone, ctlVars
    <3>3. CASE UNCHANGED <<cwnd, incr>>  BY <1>0, <3>2, <3>3
    <3>4. CASE ~UNCHANGED <<cwnd, incr>> /\ p = e
      <4>1. cwnd[p] < rmt_wnd[p] /\ cwnd'[p] = Grown(p)[1] /\ incr'[p] = Grown(p)[2]
        BY <3>1, <3>4 DEF TypeOK
      <4>2. Grown(p)[1] \in Nat  BY GrownType
      <4>3. cwnd'[p] >= cwnd[p] /\ cwnd'[p] * mss <= incr'[p]
        BY <1>0, <4>1, GrownOpen
      <4> QED BY <1>0, <3>2, <4>1, <4>2, <4>3
    <3>5. CASE ~UNCHANGED <<cwnd, incr>> /\ p # e
      <4>1. cwnd'[p] = cwnd[p] /\ incr'[p] = incr[p]  BY <3>1, <3>5 DEF TypeOK
      <4> QED BY <1>0, <3>2, <4>1
    <3> QED BY <3>3, <3>4, <3>5
  <2>2. CASE ~InputDone(e)
    <3>1. UNCHANGED <<ccVars, updated>>
      BY <1>5, <2>2
         DEF Input, InputAck, InputPush, InputWask, InputWins, TakeSegment
    <3> QED BY <1>0, <1>1, <3>1
  <2> QED BY <2>1, <2>2
<1> QED BY <1>0, <1>2, <1>3, <1>4, <1>5 DEF Next

(* After the first update the congestion window admits a segment, and it   *)
(* is never larger than its byte count, for every mtu and window and       *)
(* however losses and acknowledgements alternate.                          *)
THEOREM WindowOpen == Spec => []CwndOpen
<1>1. LinkInit => WindowInv
  BY ConstantFacts DEF LinkInit, Init, WindowInv
<1>2. WindowInv => CwndOpen  BY DEF WindowInv, CwndOpen
<1> QED BY <1>1, <1>2, InitType, NextType, WindowStep, PTL DEF Spec

-----------------------------------------------------------------------------
(***************************************************************************)
(* Induction.  What is proved of every number, or of every subset, is      *)
(* given as the set P of those that have it.                               *)
(***************************************************************************)
LEMMA NumberInduction ==
  ASSUME NEW P, 0 \in P, \A n \in Nat : n \in P => n + 1 \in P
  PROVE  \A n \in Nat : n \in P
<1> DEFINE T == Nat \ P
<1>1. SUFFICES ASSUME T # {} PROVE FALSE  OBVIOUS
<1>2. PICK m \in T : \A n \in T : m <= n  BY <1>1, MinimumExists
<1>3. m \in Nat /\ m # 0 /\ m - 1 \in Nat /\ ~(m <= m - 1) /\ m = (m - 1) + 1
  OBVIOUS
<1>4. m - 1 \in P  BY <1>2, <1>3
<1> QED BY <1>3, <1>4

LEMMA SubsetInduction ==
  ASSUME NEW S, IsFiniteSet(S), NEW P,
         \A A \in SUBSET S : (\A x \in A : A \ {x} \in P) => A \in P
  PROVE  \A A \in SUBSET S : A \in P
<1> DEFINE Q == {n \in Nat : \A A \in SUBSET S : Cardinality(A) = n => A \in P}
<1>1. \A A \in SUBSET S : IsFiniteSet(A) /\ Cardinality(A) \in Nat
  BY FS_Subset, FS_CardinalityType
<1>2. 0 \in Q
  <2> SUFFICES ASSUME NEW A \in SUBSET S, Cardinality(A) = 0 PROVE A \in P  OBVIOUS
  <2>1. A = {}  BY <1>1, FS_EmptySet
  <2> QED BY <2>1
<1>3. ASSUME NEW n \in Nat, n \in Q PROVE n + 1 \in Q
  <2> SUFFICES ASSUME NEW A \in SUBSET S, Cardinality(A) = n + 1 PROVE A \in P
    BY DEF Q
  <2>1. ASSUME NEW x \in A PROVE A \ {x} \in P
    <3>1. Cardinality(A \ {x}) = n  BY <1>1, FS_RemoveElement
    <3> QED BY <1>3, <3>1
  <2> QED BY <2>1
<1>4. \A n \in Nat : n \in Q
  <2> HIDE DEF Q
  <2> QED BY <1>2, <1>3, NumberInduction
<1> QED BY <1>1, <1>4

(***************************************************************************)
(* The sum over a set                                                      *)
(***************************************************************************)
Chosen(s) == CHOOSE x \in s : TRUE

Rest(s) == s \ {Chosen(s)}

(* w gives every subset of S its bytes. *)
Weighs(w, S) ==
  w = [s \in SUBSET S |-> IF s = {} THEN 0 ELSE Bytes(Chosen(s)) + w[Rest(s)]]

LEMMA SumWeighs ==
  ASSUME NEW S PROVE MapThenSumSet(Bytes, S) = (CHOOSE w : Weighs(w, S))[S]
BY DEF MapThenSumSet, MapThenFoldSet, Weighs, Chosen, Rest

LEMMA ChosenIn == ASSUME NEW s, s # {} PROVE Chosen(s) \in s /\ Rest(s) # s /\ Rest(s) \subseteq s
BY DEF Chosen, Rest

LEMMA WeightExists ==
  ASSUME NEW S, IsFiniteSet(S) PROVE \E w : Weighs(w, S)
<1> DEFINE D(n) == {s \in SUBSET S : Cardinality(s) <= n}
           Upto(w, n) == w = [s \in D(n) |-> IF s = {} THEN 0
                                              ELSE Bytes(Chosen(s)) + w[Rest(s)]]
           Q == {n \in Nat : \E w : Upto(w, n)}
<1>1. \A A \in SUBSET S : IsFiniteSet(A) /\ Cardinality(A) \in Nat
  BY FS_Subset, FS_CardinalityType
<1>2. \A s \in SUBSET S : s # {} => /\ Rest(s) \in SUBSET S
                                    /\ Cardinality(Rest(s)) = Cardinality(s) - 1
  BY <1>1, ChosenIn, FS_RemoveElement DEF Rest
<1>3. 0 \in Q
  <2> DEFINE w == [s \in D(0) |-> 0]
  <2>1. \A s \in D(0) : s = {}  BY <1>1, FS_EmptySet
  <2>2. Upto(w, 0)  BY <2>1
  <2> QED BY <2>2
<1>4. ASSUME NEW n \in Nat, n \in Q PROVE n + 1 \in Q
  <2>1. PICK v : Upto(v, n)  BY <1>4
  <2> DEFINE w == [s \in D(n + 1) |-> IF s = {} THEN 0
                                       ELSE Bytes(Chosen(s)) + v[Rest(s)]]
  <2>2. \A s \in D(n + 1) : s # {} => Rest(s) \in D(n)  BY <1>1, <1>2
  <2>3. D(n) \subseteq D(n + 1)  BY <1>1
  <2>4. \A s \in D(n) : v[s] = IF s = {} THEN 0 ELSE Bytes(Chosen(s)) + v[Rest(s)]
    <3> HIDE DEF D
    <3> QED BY <2>1
  <2>5. \A s \in D(n) : w[s] = v[s]
    <3> HIDE DEF D
    <3> QED BY <2>3, <2>4
  <2>6. Upto(w, n + 1)
    <3> HIDE DEF D
    <3> QED BY <2>2, <2>5
  <2>7. \E u : Upto(u, n + 1)
    <3> HIDE DEF w, Upto
    <3> QED BY <2>6
  <2> QED BY <2>7
<1>5. Cardinality(S) \in Q
  <2>1. \A n \in Nat : n \in Q
    <3> HIDE DEF Q
    <3> QED BY <1>3, <1>4, NumberInduction
  <2> QED BY <2>1, <1>1
<1>6. D(Cardinality(S)) = SUBSET S  BY <1>1, FS_Subset
<1>7. PICK w : Upto(w, Cardinality(S))  BY <1>5
<1> QED BY <1>6, <1>7 DEF Weighs

LEMMA WeightAt ==
  ASSUME NEW w, NEW S, Weighs(w, S), NEW A \in SUBSET S
  PROVE  w[A] = IF A = {} THEN 0 ELSE Bytes(Chosen(A)) + w[Rest(A)]
BY DEF Weighs

(* It does not matter of which set A is a part. *)
LEMMA WeightsAgree ==
  ASSUME NEW S, IsFiniteSet(S), NEW T \in SUBSET S, NEW w, Weighs(w, S), NEW v, Weighs(v, T)
  PROVE  \A A \in SUBSET T : v[A] = w[A]
<1> DEFINE P == {A \in SUBSET T : v[A] = w[A]}
<1>1. ASSUME NEW A \in SUBSET T, \A x \in A : A \ {x} \in P PROVE A \in P
  <2>1. A # {} => v[Rest(A)] = w[Rest(A)]  BY <1>1, ChosenIn DEF Rest
  <2>2. v[A] = w[A]  BY <2>1, WeightAt
  <2> QED BY <2>2
<1>2. IsFiniteSet(T)  BY FS_Subset
<1>3. \A A \in SUBSET T : A \in P
  <2> HIDE DEF P
  <2> QED BY <1>1, <1>2, SubsetInduction
<1> QED BY <1>3

LEMMA SumAt ==
  ASSUME NEW S, IsFiniteSet(S), NEW w, Weighs(w, S), NEW T \in SUBSET S
  PROVE  MapThenSumSet(Bytes, T) = w[T]
<1> DEFINE v == CHOOSE v : Weighs(v, T)
<1>1. IsFiniteSet(T)  BY FS_Subset
<1>2. \E u : Weighs(u, T)  BY <1>1, WeightExists
<1>3. Weighs(v, T)  BY <1>2
<1>4. v[T] = w[T]
  <2> HIDE DEF v
  <2> QED BY <1>3, WeightsAgree
<1> QED BY <1>4, SumWeighs

(* Nor in which order the elements are counted. *)
LEMMA WeightAdds ==
  ASSUME NEW S, IsFiniteSet(S), NEW w, Weighs(w, S), \A x \in S : Bytes(x) \in Nat
  PROVE  \A A \in SUBSET S : /\ w[A] \in Nat
                             /\ \A x \in S \ A : w[A \cup {x}] = w[A] + Bytes(x)
<1> DEFINE N == {A \in SUBSET S : w[A] \in Nat}
           P == {A \in SUBSET S : \A x \in S \ A : w[A \cup {x}] = w[A] + Bytes(x)}
<1>1. ASSUME NEW A \in SUBSET S, \A x \in A : A \ {x} \in N PROVE A \in N
  <2>1. A # {} => Chosen(A) \in S /\ w[Rest(A)] \in Nat  BY <1>1, ChosenIn DEF Rest
  <2>2. w[A] \in Nat  BY <2>1, WeightAt
  <2> QED BY <2>2
<1>2. \A A \in SUBSET S : A \in N
  <2> HIDE DEF N
  <2> QED BY <1>1, SubsetInduction
<1>3. ASSUME NEW A \in SUBSET S, \A c \in A : A \ {c} \in P PROVE A \in P
  <2> SUFFICES ASSUME NEW x \in S \ A PROVE w[A \cup {x}] = w[A] + Bytes(x)
    OBVIOUS
  <2> DEFINE B == A \cup {x}
             c == Chosen(B)
  <2>0. B \in SUBSET S /\ B # {}  OBVIOUS
  <2> HIDE DEF B
  <2>1. c \in B /\ w[B] = Bytes(c) + w[B \ {c}]
    BY <2>0, ChosenIn, WeightAt DEF Rest
  <2> HIDE DEF c
  <2>2. CASE c = x
    <3>1. B \ {c} = A  BY <2>2 DEF B
    <3>2. w[A] \in Nat /\ Bytes(x) \in Nat  BY <1>2
    <3>3. w[B] = Bytes(x) + w[A]  BY <2>1, <2>2, <3>1
    <3> QED BY <3>2, <3>3 DEF B
  <2>3. CASE c # x
    <3>1. c \in A /\ x \notin A \ {c} /\ A \ {c} \in P  BY <1>3, <2>1, <2>3 DEF B
    <3>2. B \ {c} = (A \ {c}) \cup {x} /\ A = (A \ {c}) \cup {c}
      BY <2>3, <3>1 DEF B
    <3>3. w[(A \ {c}) \cup {x}] = w[A \ {c}] + Bytes(x)  BY <3>1
    <3>4. w[(A \ {c}) \cup {c}] = w[A \ {c}] + Bytes(c)  BY <3>1
    <3>5. /\ w[A] = w[A \ {c}] + Bytes(c)
          /\ w[B] = Bytes(c) + (w[A \ {c}] + Bytes(x))
      BY <2>1, <3>2, <3>3, <3>4
    <3>6. w[A \ {c}] \in Nat /\ Bytes(c) \in Nat /\ Bytes(x) \in Nat  BY <1>2, <3>1
    <3> QED BY <3>5, <3>6 DEF B
  <2> QED BY <2>2, <2>3
<1>4. \A A \in SUBSET S : A \in P
  <2> HIDE DEF P
  <2> QED BY <1>3, SubsetInduction
<1> QED BY <1>2, <1>4

LEMMA SumEmpty == MapThenSumSet(Bytes, {}) = 0
<1>1. IsFiniteSet({})  BY FS_EmptySet
<1>2. PICK w : Weighs(w, {})  BY <1>1, WeightExists
<1> QED BY <1>1, <1>2, SumAt, WeightAt

LEMMA SumAdds ==
  ASSUME NEW S, IsFiniteSet(S), NEW x, x \notin S, \A y \in S \cup {x} : Bytes(y) \in Nat
  PROVE  MapThenSumSet(Bytes, S \cup {x}) = MapThenSumSet(Bytes, S) + Bytes(x)
<1> DEFINE T == S \cup {x}
<1>1. IsFiniteSet(T)  BY FS_AddElement
<1>2. PICK w : Weighs(w, T)  BY <1>1, WeightExists
<1>3. w[T] = w[S] + Bytes(x)  BY <1>1, <1>2, WeightAdds
<1>4. MapThenSumSet(Bytes, T) = w[T] /\ MapThenSumSet(Bytes, S) = w[S]
  BY <1>1, <1>2, SumAt
<1> QED BY <1>3, <1>4

(***************************************************************************)
(* The order in which a flush writes its segments                          *)
(***************************************************************************)
Ordered(out) == /\ IsFiniteSet(out) /\ out \subseteq Segment
                /\ \A s, t \in out : s # t => Before(s, t) \/ Before(t, s)

Place(out, s) == Cardinality({t \in out : Before(t, s)}) + 1

At(out, i) == CHOOSE s \in out : Place(out, s) = i

LEMMA BeforeIsOrder ==
  ASSUME NEW s \in Segment, NEW t \in Segment, NEW u \in Segment
  PROVE  /\ ~Before(s, s)
         /\ Before(s, t) /\ Before(t, u) => Before(s, u)
BY DEF Before, Segment

LEMMA LaterPlace ==
  ASSUME NEW out, Ordered(out), NEW s \in out, NEW t \in out, Before(s, t)
  PROVE  Place(out, s) < Place(out, t)
<1> DEFINE S == {u \in out : Before(u, s)}
           T == {u \in out : Before(u, t)}
<1>1. S \subseteq T /\ s \in T /\ s \notin S
  BY BeforeIsOrder DEF Ordered
<1>2. IsFiniteSet(T) /\ IsFiniteSet(S)  BY FS_Subset DEF Ordered
<1>3. Cardinality(S) \in Nat /\ Cardinality(T) \in Nat  BY <1>2, FS_CardinalityType
<1>4. Cardinality(S) <= Cardinality(T) /\ Cardinality(S) # Cardinality(T)
  <2> HIDE DEF S, T
  <2> QED BY <1>1, <1>2, FS_Subset
<1>5. Cardinality(S) < Cardinality(T)  BY <1>3, <1>4
<1> QED BY <1>3, <1>5 DEF Place

LEMMA PlaceUnique ==
  ASSUME NEW out, Ordered(out), NEW s \in out, NEW t \in out,
         Place(out, s) = Place(out, t)
  PROVE  s = t
<1>1. Place(out, s) \in Int /\ Place(out, t) \in Int
  BY FS_Subset, FS_CardinalityType DEF Place, Ordered
<1>2. ~(Place(out, s) < Place(out, t)) /\ ~(Place(out, t) < Place(out, s))
  BY <1>1
<1> QED BY <1>2, LaterPlace DEF Ordered

LEMMA PlaceInRange ==
  ASSUME NEW out, Ordered(out), NEW s \in out
  PROVE  Place(out, s) \in 1..Cardinality(out)
<1> DEFINE S == {u \in out : Before(u, s)}
<1>1. S \subseteq out \ {s}  BY BeforeIsOrder DEF Ordered
<1>2. /\ IsFiniteSet(out) /\ IsFiniteSet(out \ {s})
      /\ Cardinality(out \ {s}) = Cardinality(out) - 1
  BY FS_RemoveElement DEF Ordered
<1>3. /\ Cardinality(S) \in Nat /\ Cardinality(out) \in Nat
      /\ Cardinality(S) <= Cardinality(out \ {s})
  <2> HIDE DEF S
  <2> QED BY <1>1, <1>2, FS_Subset, FS_CardinalityType
<1> QED BY <1>2, <1>3 DEF Place

LEMMA PlaceTaken ==
  ASSUME NEW out, Ordered(out), NEW i \in 1..Cardinality(out)
  PROVE  At(out, i) \in out /\ Place(out, At(out, i)) = i
<1> DEFINE n == Cardinality(out)
           f == [s \in out |-> Place(out, s)]
<1>1. IsFiniteSet(out) /\ n \in Nat  BY FS_CardinalityType DEF Ordered
<1>2. f \in Injection(out, 1..n)
  <2>1. f \in [out -> 1..n]  BY PlaceInRange
  <2>2. \A s, t \in out : f[s] = f[t] => s = t  BY PlaceUnique
  <2> HIDE DEF f
  <2> QED BY <2>1, <2>2 DEF Injection, IsInjective
<1>3. IsFiniteSet(1..n) /\ Cardinality(1..n) = n  BY <1>1, FS_Interval
<1>4. f \in Surjection(out, 1..n)
  <2> HIDE DEF f
  <2> QED BY <1>2, <1>3, FS_Injection
<1>5. PICK s \in out : f[s] = i
  <2> HIDE DEF f
  <2> QED BY <1>4 DEF Surjection
<1>6. \E t \in out : Place(out, t) = i  BY <1>5
<1> QED BY <1>6 DEF At

LEMMA AtPlace ==
  ASSUME NEW out, Ordered(out), NEW s \in out
  PROVE  At(out, Place(out, s)) = s
<1>1. At(out, Place(out, s)) \in out /\ Place(out, At(out, Place(out, s))) = Place(out, s)
  BY DEF At
<1> QED BY <1>1, PlaceUnique

(***************************************************************************)
(* Filling the buffer                                                      *)
(***************************************************************************)
Fills(f, out) ==
  f = [i \in 0..Cardinality(out) |->
         IF i = 0 THEN 0
         ELSE IF f[i - 1] + Bytes(At(out, i)) > MTU THEN Bytes(At(out, i))
         ELSE f[i - 1] + Bytes(At(out, i))]

Filled(out) == CHOOSE f : Fills(f, out)

(* The buffer is handed over before segment i. *)
Cut(out, i) == i = 1 \/ Filled(out)[i - 1] + Bytes(At(out, i)) > MTU

Cuts(out, j) == Cardinality({i \in 1..j : Cut(out, i)})

LEMMA PackIs ==
  ASSUME NEW out
  PROVE  Pack(out) = {{s \in out : Cuts(out, Place(out, s)) = g} :
                         g \in 1..Cardinality(out)} \ {{}}
BY DEF Pack, Cuts, Cut, Filled, Fills, At, Place

LEMMA FillExists ==
  ASSUME NEW out, IsFiniteSet(out)
  PROVE  Fills(Filled(out), out)
<1> DEFINE With(f, i) == IF f[i - 1] + Bytes(At(out, i)) > MTU THEN Bytes(At(out, i))
                         ELSE f[i - 1] + Bytes(At(out, i))
           Upto(f, n) == f = [i \in 0..n |-> IF i = 0 THEN 0 ELSE With(f, i)]
           Q == {n \in Nat : \E f : Upto(f, n)}
<1>1. 0 \in Q
  <2> DEFINE f == [i \in 0..0 |-> 0]
  <2>1. \A i \in 0..0 : i = 0  OBVIOUS
  <2>2. Upto(f, 0)  BY <2>1
  <2>3. \E g : Upto(g, 0)
    <3> HIDE DEF f, Upto
    <3> QED BY <2>2
  <2> QED BY <2>3
<1>2. ASSUME NEW n \in Nat, n \in Q PROVE n + 1 \in Q
  <2>1. PICK f : Upto(f, n)  BY <1>2
  <2> DEFINE g == [i \in 0..(n + 1) |-> IF i = 0 THEN 0 ELSE With(f, i)]
  <2>2. \A i \in 0..n : f[i] = IF i = 0 THEN 0 ELSE With(f, i)
    <3> HIDE DEF With
    <3> QED BY <2>1
  <2>3. \A i \in 0..n : g[i] = f[i]
    <3> HIDE DEF With
    <3> QED BY <2>2
  <2>4. \A i \in 0..(n + 1) : i # 0 => With(g, i) = With(f, i)
    <3> SUFFICES ASSUME NEW i \in 0..(n + 1), i # 0 PROVE With(g, i) = With(f, i)
      OBVIOUS
    <3>1. i - 1 \in 0..n  OBVIOUS
    <3>2. g[i - 1] = f[i - 1]  BY <2>3, <3>1
    <3> HIDE DEF g
    <3> QED BY <3>2
  <2>5. Upto(g, n + 1)
    <3> HIDE DEF With
    <3> QED BY <2>4
  <2>6. \E h : Upto(h, n + 1)
    <3> HIDE DEF g, Upto
    <3> QED BY <2>5
  <2> QED BY <2>6
<1>3. Cardinality(out) \in Q
  <2>1. \A n \in Nat : n \in Q
    <3> HIDE DEF Q
    <3> QED BY <1>1, <1>2, NumberInduction
  <2> QED BY <2>1, FS_CardinalityType
<1>4. PICK f : Upto(f, Cardinality(out))  BY <1>3
<1>5. Fills(f, out)  BY <1>4 DEF Fills
<1> QED BY <1>5 DEF Filled

(* A segment begins a datagram or goes behind the ones before it.          *)
LEMMA FillStep ==
  ASSUME NEW out, Ordered(out), NEW j \in 0..(Cardinality(out) - 1),
         Bytes(At(out, j + 1)) \in 0..MTU, Filled(out)[j] \in 0..MTU
  PROVE  /\ Filled(out)[0] = 0
         /\ Filled(out)[j + 1] = IF Cut(out, j + 1) THEN Bytes(At(out, j + 1))
                                 ELSE Filled(out)[j] + Bytes(At(out, j + 1))
         /\ Filled(out)[j + 1] \in 0..MTU
<1> DEFINE n == Cardinality(out)
           b == Bytes(At(out, j + 1))
           f == Filled(out)
<1>1. IsFiniteSet(out) /\ n \in Nat /\ MTU \in Nat
  BY BlockAssumption, FS_CardinalityType DEF Ordered
<1>2. /\ f[0] = 0
      /\ \A i \in 1..n : f[i] = IF f[i - 1] + Bytes(At(out, i)) > MTU
                                THEN Bytes(At(out, i)) ELSE f[i - 1] + Bytes(At(out, i))
  <2>1. Fills(f, out)  BY <1>1, FillExists
  <2> HIDE DEF f
  <2> QED BY <1>1, <2>1 DEF Fills
<1>3. j + 1 \in 1..n /\ (j + 1) - 1 = j /\ (j + 1 = 1 => j = 0)  BY <1>1
<1>4. f[j + 1] = IF f[j] + b > MTU THEN b ELSE f[j] + b  BY <1>2, <1>3
<1>5. Cut(out, j + 1) <=> j = 0 \/ f[j] + b > MTU  BY <1>3 DEF Cut
<1> HIDE DEF f, b
<1>6. f[j] \in 0..MTU /\ b \in 0..MTU  BY DEF f, b
<1>7. f[j + 1] = IF Cut(out, j + 1) THEN b ELSE f[j] + b
  BY <1>1, <1>2, <1>4, <1>5, <1>6
<1>8. f[j + 1] \in 0..MTU  BY <1>1, <1>4, <1>6
<1> QED BY <1>2, <1>7, <1>8 DEF f, b

LEMMA CutsStep ==
  ASSUME NEW out, NEW j \in Nat
  PROVE  /\ Cuts(out, j) \in Nat /\ Cuts(out, 0) = 0
         /\ Cuts(out, j + 1) = Cuts(out, j) + (IF Cut(out, j + 1) THEN 1 ELSE 0)
<1> DEFINE C(k) == {i \in 1..k : Cut(out, i)}
<1>1. IsFiniteSet(C(j)) /\ Cardinality(C(j)) \in Nat
  <2>1. IsFiniteSet(1..j) /\ C(j) \in SUBSET (1..j)  BY FS_Interval
  <2> HIDE DEF C
  <2> QED BY <2>1, FS_Subset, FS_CardinalityType
<1>2. C(0) = {} /\ Cardinality(C(0)) = 0
  <2>1. C(0) = {}  OBVIOUS
  <2> QED BY <2>1, FS_EmptySet
<1>3. j + 1 \notin C(j) /\ C(j + 1) = IF Cut(out, j + 1) THEN C(j) \cup {j + 1} ELSE C(j)
  <2>1. 1..(j + 1) = (1..j) \cup {j + 1} /\ j + 1 \notin 1..j  OBVIOUS
  <2> QED BY <2>1
<1>4. Cardinality(C(j + 1)) = Cardinality(C(j)) + (IF Cut(out, j + 1) THEN 1 ELSE 0)
  <2> HIDE DEF C
  <2> QED BY <1>1, <1>3, FS_AddElement
<1> QED BY <1>1, <1>2, <1>4 DEF Cuts

(***************************************************************************)
(* Filling datagram after datagram                                         *)
(***************************************************************************)
(* The segments of datagram g among the first j.                           *)
Part(out, j, g) == {s \in out : Place(out, s) <= j /\ Cuts(out, Place(out, s)) = g}

LEMMA PartStep ==
  ASSUME NEW out, Ordered(out), NEW j \in 0..(Cardinality(out) - 1), NEW g
  PROVE  LET s == At(out, j + 1)
         IN  /\ s \in out /\ s \notin Part(out, j, g)
             /\ Part(out, j + 1, g) = IF g = Cuts(out, j + 1) THEN Part(out, j, g) \cup {s}
                                      ELSE Part(out, j, g)
<1> DEFINE s == At(out, j + 1)
<1>0. Cardinality(out) \in Nat  BY FS_CardinalityType DEF Ordered
<1>1. s \in out /\ Place(out, s) = j + 1
  <2>1. j + 1 \in 1..Cardinality(out)  BY <1>0
  <2> QED BY <2>1, PlaceTaken
<1>2. \A t \in out : Place(out, t) = j + 1 => t = s  BY <1>1, PlaceUnique
<1>3. \A t \in out : Place(out, t) \in Nat  BY PlaceInRange
<1> HIDE DEF s
<1>4. \A t \in out : Place(out, t) <= j + 1 <=> Place(out, t) <= j \/ t = s
  BY <1>1, <1>2, <1>3
<1>5. s \notin Part(out, j, g)  BY <1>1 DEF Part
<1>6. ASSUME g = Cuts(out, j + 1) PROVE Part(out, j + 1, g) = Part(out, j, g) \cup {s}
  BY <1>1, <1>4, <1>6, Zenon DEF Part
<1>7. ASSUME g # Cuts(out, j + 1) PROVE Part(out, j + 1, g) = Part(out, j, g)
  BY <1>1, <1>4, <1>7, Zenon DEF Part
<1> QED BY <1>1, <1>5, <1>6, <1>7 DEF s

(* After j segments: the datagram being filled holds what the buffer does, *)
(* the ones before it fit, and the later ones are empty.                   *)
FilledTo(out, j) ==
  /\ Filled(out)[j] \in 0..MTU
  /\ MapThenSumSet(Bytes, Part(out, j, Cuts(out, j))) = Filled(out)[j]
  /\ \A g \in Nat : /\ MapThenSumSet(Bytes, Part(out, j, g)) <= MTU
                    /\ g > Cuts(out, j) => Part(out, j, g) = {}

LEMMA FilledStep ==
  ASSUME NEW out, Ordered(out), \A s \in out : Bytes(s) \in 0..MTU,
         NEW j \in 0..(Cardinality(out) - 1), FilledTo(out, j)
  PROVE  FilledTo(out, j + 1)
<1> DEFINE n == Cardinality(out)
           s == At(out, j + 1)
           f == Filled(out)
           c == Cuts(out, j + 1)
           Sum(S) == MapThenSumSet(Bytes, S)
<1>1. j \in Nat /\ MTU \in Nat  BY BlockAssumption
<1>2. s \in out /\ Bytes(s) \in 0..MTU  BY PartStep
<1>3. /\ f[j] \in 0..MTU /\ f[j + 1] \in 0..MTU /\ f[0] = 0
      /\ f[j + 1] = IF Cut(out, j + 1) THEN Bytes(s) ELSE f[j] + Bytes(s)
  BY <1>2, FillStep DEF FilledTo
<1>4. /\ Cuts(out, j) \in Nat /\ c \in Nat
      /\ c = Cuts(out, j) + (IF Cut(out, j + 1) THEN 1 ELSE 0)
  <2>1. j + 1 \in Nat  BY <1>1
  <2> QED BY <1>1, <2>1, CutsStep
<1>5. Sum(Part(out, j + 1, c)) = Sum(Part(out, j, c)) + Bytes(s)
  <2>1. IsFiniteSet(Part(out, j, c))  BY FS_Subset DEF Part, Ordered
  <2>2. \A t \in Part(out, j, c) \cup {s} : Bytes(t) \in Nat
    BY <1>1, <1>2 DEF Part
  <2>3. s \notin Part(out, j, c) /\ Part(out, j + 1, c) = Part(out, j, c) \cup {s}
    BY PartStep
  <2> QED BY <2>1, <2>2, <2>3, SumAdds
<1>6. Sum(Part(out, j + 1, c)) = f[j + 1]
  <2>1. CASE Cut(out, j + 1)
    <3>1. Part(out, j, c) = {}  BY <1>4, <2>1 DEF FilledTo
    <3>2. Sum(Part(out, j + 1, c)) = 0 + Bytes(s)  BY <1>5, <3>1, SumEmpty
    <3>3. f[j + 1] = Bytes(s) /\ Bytes(s) = 0 + Bytes(s)  BY <1>1, <1>2, <1>3, <2>1
    <3> QED BY <3>2, <3>3
  <2>2. CASE ~Cut(out, j + 1)
    <3>1. c = Cuts(out, j)  BY <1>4, <2>2
    <3>2. Sum(Part(out, j, c)) = f[j]  BY <3>1 DEF FilledTo
    <3>3. f[j + 1] = f[j] + Bytes(s)  BY <1>3, <2>2
    <3> QED BY <1>5, <3>2, <3>3
  <2> QED BY <2>1, <2>2
<1>7. ASSUME NEW g \in Nat
      PROVE  Sum(Part(out, j + 1, g)) <= MTU /\ (g > c => Part(out, j + 1, g) = {})
  <2>1. CASE g = c
    <3>1. f[j + 1] <= MTU  BY <1>1, <1>3
    <3>2. Sum(Part(out, j + 1, g)) <= MTU  BY <1>6, <2>1, <3>1
    <3> QED BY <1>4, <2>1, <3>2
  <2>2. CASE g # c
    <3>1. Part(out, j + 1, g) = Part(out, j, g)  BY <2>2, PartStep
    <3>2. g > c => g > Cuts(out, j)  BY <1>4
    <3> QED BY <3>1, <3>2 DEF FilledTo
  <2> QED BY <2>1, <2>2
<1> QED BY <1>3, <1>6, <1>7 DEF FilledTo

LEMMA PackFits ==
  ASSUME NEW out, Ordered(out), \A s \in out : Bytes(s) \in 0..MTU, NEW d \in Pack(out)
  PROVE  MapThenSumSet(Bytes, d) <= MTU
<1> DEFINE n == Cardinality(out)
           Q == {j \in Nat : j <= n => FilledTo(out, j)}
<1>1. IsFiniteSet(out) /\ n \in Nat /\ MTU \in Nat
  BY BlockAssumption, FS_CardinalityType DEF Ordered
<1>2. 0 \in Q
  <2>1. \A g : Part(out, 0, g) = {}
    <3>1. \A s \in out : ~(Place(out, s) <= 0)  BY PlaceInRange
    <3> QED BY <3>1 DEF Part
  <2>2. Filled(out)[0] = 0  BY <1>1, FillExists DEF Fills
  <2>3. FilledTo(out, 0)  BY <1>1, <2>1, <2>2, SumEmpty DEF FilledTo
  <2> QED BY <2>3
<1>3. ASSUME NEW j \in Nat, j \in Q PROVE j + 1 \in Q
  <2> SUFFICES ASSUME j + 1 <= n PROVE FilledTo(out, j + 1)  OBVIOUS
  <2>1. j \in 0..(n - 1) /\ FilledTo(out, j)  BY <1>1, <1>3
  <2> QED BY <2>1, FilledStep
<1>4. FilledTo(out, n)
  <2>1. \A j \in Nat : j \in Q
    <3> HIDE DEF Q
    <3> QED BY <1>2, <1>3, NumberInduction
  <2> QED BY <1>1, <2>1
<1>5. PICK g \in 1..n : d = {s \in out : Cuts(out, Place(out, s)) = g}  BY PackIs
<1>6. \A s \in out : Place(out, s) <= n  BY PlaceInRange
<1>7. d = Part(out, n, g)  BY <1>5, <1>6 DEF Part
<1> QED BY <1>1, <1>4, <1>7 DEF FilledTo
=============================================================================
