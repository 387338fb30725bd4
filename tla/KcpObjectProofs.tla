--------------------------- MODULE KcpObjectProofs ---------------------------
(***************************************************************************)
(* For every configuration: new_kcp leaves a block that is fit for use or  *)
(* no object at all, the buffer takes what a flush writes, the list of     *)
(* acknowledgements its entries, and the memory of the block is freed.     *)
(***************************************************************************)
EXTENDS KcpObject, SeqNumProofs, TLAPS

(* What the parameters of the block satisfy from its creation on.          *)
Params(b) ==
  /\ b.mtu \in MtuMin..(Half - 1)
  /\ b.mss = b.mtu - OVERHEAD
  /\ b.buffer = 3 * (b.mtu + OVERHEAD)
  /\ b.longest <= b.mss
  /\ b.rcv_wnd \in WND_RCV..(Half - 1)
  /\ b.snd_wnd \in 1..(Half - 1)
  /\ b.interval \in IntervalMin..IntervalMax
  /\ b.rx_minrto \in {RTO_NDL, RTO_MIN}

Stages ==
  /\ pc \in {"KCP", "gone"} => ckcp = NULL
  /\ pc \in {"set_output", "set_mtu", "nodelay", "wndsize"} \cup Sessions
       => ckcp # NULL
  /\ pc \in {"set_output", "set_mtu"} => ckcp.longest = 0
  /\ pc \in {"set_mtu", "nodelay", "wndsize"} \cup Sessions => ckcp.output
  /\ pc \in {"nodelay", "wndsize"} \cup Sessions =>
       (config.mtu >= MtuMin => ckcp.mtu = config.mtu)

KInv ==
  /\ TypeOK /\ Stages /\ AcksFit /\ WritesAccepted
  /\ ckcp # NULL => Params(ckcp)
  /\ heap = Released(ckcp)

-----------------------------------------------------------------------------
(* The constants, as integers.                                             *)
LEMMA Sizes ==
  /\ W \in Nat \ {0} /\ Half \in Nat /\ W = 2 * Half
  /\ OVERHEAD \in 1..(Half - 1) /\ WND_RCV \in 1..(Half - 1) /\ WND_RCV > 1
  /\ WND_SND \in 1..(Half - 1) /\ AckBlock \in Nat \ {0}
  /\ RTO_NDL \in Nat /\ RTO_MIN \in Nat /\ INTERVAL \in IntervalMin..IntervalMax
  /\ MTU_DEF \in Nat /\ MtuMin \in Nat /\ OVERHEAD < MtuMin /\ MtuMin <= MTU_DEF
  /\ IntervalMin \in Nat \ {0} /\ IntervalMax \in Nat
<1>1. W \in Nat \ {0} /\ W = 2 * Half /\ Half \in Nat
  BY WidthAssumption DEF Half
<1> QED  BY <1>1, ObjectAssumption

(* An mtu that fits is measured without overflow.                          *)
LEMMA BufferExact ==
  ASSUME NEW m \in Nat, 3 * (m + OVERHEAD) < W
  PROVE  m < Half /\ BufferSize(m) = 3 * (m + OVERHEAD)
<1>1. 3 * (m + OVERHEAD) \in 0..(W - 1) /\ m < Half
      /\ (m + OVERHEAD) * 3 = 3 * (m + OVERHEAD)
  BY Sizes
<1> QED  BY <1>1, WrapId DEF BufferSize

LEMMA InitInv == Init => KInv
<1> SUFFICES ASSUME Init PROVE KInv
  OBVIOUS
<1>1. TypeOK
  <2>1. refused \in BOOLEAN /\ config \in Configs /\ conv \in Convs
    BY DEF Init
  <2>2. /\ pc \in Calls \cup Sessions \cup {"dealloc", "gone"}
        /\ ckcp \in Block \cup {NULL} /\ heap \in Int
    BY DEF Init, Calls
  <2> QED  BY <2>1, <2>2 DEF TypeOK
<1>2. Released(NULL) = 0
  BY DEF Released
<1> QED  BY <1>1, <1>2 DEF Init, KInv, Stages, AcksFit, WritesAccepted, Sessions

LEMMA CreateInv == ASSUME KInv, Create PROVE KInv'
<1>1. CASE conv \in PyInt_As_uint32_t
  <2> DEFINE b == ikcp_create(conv)
  <2>1. pc' = "set_output" /\ ckcp' = b /\ heap' = heap + 2 /\ heap = 0
        /\ UNCHANGED <<config, conv, refused>>
    BY <1>1 DEF Create, Call, KInv, Stages, Released
  <2>2. MTU_DEF < Half /\ BufferSize(MTU_DEF) = 3 * (MTU_DEF + OVERHEAD)
    BY MtuAssumption, BufferExact, Sizes
  <2>3. conv \in Nat
    BY <1>1, Sizes DEF PyInt_As_uint32_t
  <2>4. b \in Block /\ Params(b)
    BY <2>2, <2>3, Sizes DEF ikcp_create, Block, Params
  <2>5. b # NULL
    BY <2>4, ObjectAssumption
  <2>6. Released(b) = 2 /\ b.longest = 0 /\ b.ackcount <= b.ackblock
    BY <2>5 DEF Released, ikcp_create
  <2> QED
    BY <2>1, <2>4, <2>5, <2>6
    DEF KInv, TypeOK, Stages, AcksFit, WritesAccepted, Calls, Sessions
<1>2. CASE conv \notin PyInt_As_uint32_t
  BY <1>2
  DEF Create, Call, KInv, TypeOK, Stages, AcksFit, WritesAccepted, Calls, Sessions
<1> QED  BY <1>1, <1>2

(* A call of new_kcp that raises leaves the object to be freed.            *)
LEMMA RaiseInv ==
  ASSUME KInv, pc \in Calls, pc' = "dealloc",
         UNCHANGED <<ckcp, config, conv, refused, heap>>
  PROVE  KInv'
  BY DEF KInv, TypeOK, Stages, AcksFit, WritesAccepted, Calls, Sessions

(* A call of new_kcp on an existing block keeps KInv when what it makes of *)
(* the block is one, with the same memory and with parameters in range.    *)
LEMMA ConfigureInv ==
  ASSUME KInv, NEW b \in Block, NEW next \in (Calls \ {"KCP", "set_output"}) \cup {"open"},
         ckcp # NULL, pc \in Calls, pc' = next, ckcp' = b, Params(b), b.output,
         next = "set_mtu" => b.longest = 0,
         next # "set_mtu" => (config.mtu >= MtuMin => b.mtu = config.mtu),
         /\ b.nsnd_que = ckcp.nsnd_que /\ b.nsnd_buf = ckcp.nsnd_buf
         /\ b.nrcv_que = ckcp.nrcv_que /\ b.nrcv_buf = ckcp.nrcv_buf
         /\ b.ackcount = ckcp.ackcount /\ b.ackblock = ckcp.ackblock,
         UNCHANGED <<config, conv, refused, heap>>
  PROVE  KInv'
<1>1. b # NULL
  BY ObjectAssumption
<1>2. Released(b) = Released(ckcp)
  BY <1>1 DEF Released
<1> QED
  BY <1>1, <1>2
  DEF KInv, TypeOK, Stages, AcksFit, WritesAccepted, Calls, Sessions

LEMMA SetOutputInv == ASSUME KInv, SetOutput PROVE KInv'
<1> DEFINE b == [ckcp EXCEPT !.output = TRUE]
<1>1. ckcp # NULL /\ ckcp \in Block /\ ckcp.longest = 0 /\ Params(ckcp)
  BY DEF SetOutput, Call, KInv, Stages, TypeOK
<1>2. b \in Block /\ Params(b) /\ b.longest = 0 /\ b.output
      /\ b.nsnd_que = ckcp.nsnd_que /\ b.nsnd_buf = ckcp.nsnd_buf
      /\ b.nrcv_que = ckcp.nrcv_que /\ b.nrcv_buf = ckcp.nrcv_buf
      /\ b.ackcount = ckcp.ackcount /\ b.ackblock = ckcp.ackblock
  BY <1>1 DEF Block, Params
<1>3. pc = "set_output" /\ pc' = "set_mtu" /\ ckcp' = b
      /\ UNCHANGED <<config, conv, refused, heap>>
  BY DEF SetOutput, Call
<1>4. pc \in Calls /\ "set_mtu" \in (Calls \ {"KCP", "set_output"}) \cup {"open"}
  BY <1>3 DEF Calls
<1> HIDE DEF b
<1> QED  BY <1>1, <1>2, <1>3, <1>4, ConfigureInv

LEMMA SetMtuInv == ASSUME KInv, SetMtu PROVE KInv'
<1> DEFINE b == ikcp_setmtu(ckcp, config.mtu)
<1>1. ckcp # NULL /\ ckcp \in Block /\ ckcp.longest = 0 /\ Params(ckcp)
      /\ ckcp.output /\ config \in Configs /\ config.mtu \in Int
  BY ObjectAssumption DEF SetMtu, Call, KInv, Stages, TypeOK, Config
<1>2. CASE config.mtu \in PyInt_As_int
  <2>1. b \in Block /\ Params(b) /\ b.output
        /\ (config.mtu >= MtuMin => b.mtu = config.mtu)
    <3>1. CASE config.mtu < MtuMin
      BY <1>1, <3>1, Sizes DEF ikcp_setmtu
    <3>2. CASE ~(config.mtu < MtuMin)
      <4>1. config.mtu \in Nat /\ config.mtu >= MtuMin
        BY <1>1, <3>2, Sizes
      <4>2. config.mtu < Half /\ BufferSize(config.mtu) = 3 * (config.mtu + OVERHEAD)
        BY <1>1, <1>2, <4>1, MtuAssumption, BufferExact
      <4> HIDE DEF b
      <4>3. b = [ckcp EXCEPT !.mtu = config.mtu, !.mss = config.mtu - OVERHEAD,
                             !.buffer = 3 * (config.mtu + OVERHEAD)]
        BY <3>2, <4>2 DEF b, ikcp_setmtu
      <4>4. config.mtu - OVERHEAD \in Nat /\ 3 * (config.mtu + OVERHEAD) \in Nat
            /\ config.mtu \in MtuMin..(Half - 1)
        BY <4>1, <4>2, Sizes
      <4>5. /\ b \in Block /\ b.output /\ b.mtu = config.mtu
            /\ b.mss = config.mtu - OVERHEAD
            /\ b.buffer = 3 * (config.mtu + OVERHEAD)
            /\ b.longest = ckcp.longest /\ b.rcv_wnd = ckcp.rcv_wnd
            /\ b.snd_wnd = ckcp.snd_wnd /\ b.interval = ckcp.interval
            /\ b.rx_minrto = ckcp.rx_minrto
        BY <1>1, <4>1, <4>3, <4>4 DEF Block
      <4>6. Params(b)
        BY <1>1, <4>4, <4>5 DEF Params
      <4> QED  BY <4>5, <4>6
    <3> QED  BY <3>1, <3>2
  <2>2. /\ b.nsnd_que = ckcp.nsnd_que /\ b.nsnd_buf = ckcp.nsnd_buf
        /\ b.nrcv_que = ckcp.nrcv_que /\ b.nrcv_buf = ckcp.nrcv_buf
        /\ b.ackcount = ckcp.ackcount /\ b.ackblock = ckcp.ackblock
    BY <1>1 DEF ikcp_setmtu, Block
  <2>3. pc = "set_mtu" /\ pc' = "nodelay" /\ ckcp' = b
        /\ UNCHANGED <<config, conv, refused, heap>>
    BY <1>2 DEF SetMtu, Call
  <2> QED  BY <1>1, <2>1, <2>2, <2>3, ConfigureInv DEF Calls
<1>3. CASE config.mtu \notin PyInt_As_int
  BY <1>3, RaiseInv DEF SetMtu, Call, Calls
<1> QED  BY <1>2, <1>3

LEMMA NoDelayInv == ASSUME KInv, NoDelay PROVE KInv'
<1> DEFINE b == ikcp_nodelay(ckcp, config.nodelay, config.interval,
                             config.resend, config.nc)
<1>1. ckcp # NULL /\ ckcp \in Block /\ Params(ckcp) /\ ckcp.output
      /\ config \in Configs /\ config.nodelay \in Int /\ config.nc \in Int
      /\ config.interval \in Int /\ config.resend \in Int
      /\ (config.mtu >= MtuMin => ckcp.mtu = config.mtu)
  BY ObjectAssumption DEF NoDelay, Call, KInv, Stages, TypeOK, Config
<1>2. CASE {config.nodelay, config.interval, config.resend, config.nc}
             \subseteq PyInt_As_int
  <2>1. /\ b \in Block /\ b.output /\ b.mtu = ckcp.mtu /\ b.mss = ckcp.mss
        /\ b.buffer = ckcp.buffer /\ b.longest = ckcp.longest
        /\ b.rcv_wnd = ckcp.rcv_wnd /\ b.snd_wnd = ckcp.snd_wnd
        /\ b.interval \in IntervalMin..IntervalMax
        /\ b.rx_minrto \in {RTO_NDL, RTO_MIN}
    <3> DEFINE d == IF config.nodelay >= 0 THEN config.nodelay ELSE ckcp.nodelay
               r == IF config.nodelay < 0 THEN ckcp.rx_minrto
                    ELSE IF config.nodelay = 0 THEN RTO_MIN ELSE RTO_NDL
               i == IF config.interval < 0 THEN ckcp.interval
                    ELSE imax(IntervalMin, imin(config.interval, IntervalMax))
               f == IF config.resend >= 0 THEN config.resend ELSE ckcp.fastresend
               n == IF config.nc >= 0 THEN config.nc ELSE ckcp.nocwnd
    <3>1. b = [ckcp EXCEPT !.nodelay = d, !.rx_minrto = r, !.interval = i,
                           !.fastresend = f, !.nocwnd = n]
      BY <1>1 DEF ikcp_nodelay, Block
    <3>2. ckcp.nodelay \in Nat /\ ckcp.fastresend \in Nat /\ ckcp.nocwnd \in Nat
          /\ ckcp.rx_minrto \in {RTO_NDL, RTO_MIN}
          /\ ckcp.interval \in IntervalMin..IntervalMax
      BY <1>1 DEF Block, Params
    <3>3. d \in Nat /\ f \in Nat /\ n \in Nat
      BY <1>1, <3>2
    <3>4. r \in {RTO_NDL, RTO_MIN} /\ r \in Nat
      BY <1>1, <3>2, Sizes
    <3>5. i \in IntervalMin..IntervalMax /\ i \in Nat
      BY <1>1, <3>2, Sizes DEF imin, imax
    <3> HIDE DEF d, r, i, f, n, b
    <3> QED  BY <1>1, <3>1, <3>3, <3>4, <3>5 DEF Block
  <2>2. Params(b)
    BY <1>1, <2>1 DEF Params
  <2>3. /\ b.nsnd_que = ckcp.nsnd_que /\ b.nsnd_buf = ckcp.nsnd_buf
        /\ b.nrcv_que = ckcp.nrcv_que /\ b.nrcv_buf = ckcp.nrcv_buf
        /\ b.ackcount = ckcp.ackcount /\ b.ackblock = ckcp.ackblock
    BY <1>1 DEF ikcp_nodelay, Block
  <2>4. pc = "nodelay" /\ pc' = "wndsize" /\ ckcp' = b
        /\ UNCHANGED <<config, conv, refused, heap>>
    BY <1>2 DEF NoDelay, Call
  <2> HIDE DEF b
  <2> QED  BY <1>1, <2>1, <2>2, <2>3, <2>4, ConfigureInv DEF Calls
<1>3. CASE ~({config.nodelay, config.interval, config.resend, config.nc}
               \subseteq PyInt_As_int)
  BY <1>3, RaiseInv DEF NoDelay, Call, Calls
<1> QED  BY <1>2, <1>3

LEMMA WndSizeInv == ASSUME KInv, WndSize PROVE KInv'
<1> DEFINE b == ikcp_wndsize(ckcp, config.sndwnd, config.rcvwnd)
<1>1. ckcp # NULL /\ ckcp \in Block /\ Params(ckcp) /\ ckcp.output
      /\ config \in Configs /\ config.sndwnd \in Int /\ config.rcvwnd \in Int
      /\ (config.mtu >= MtuMin => ckcp.mtu = config.mtu)
  BY ObjectAssumption DEF WndSize, Call, KInv, Stages, TypeOK, Config
<1>2. CASE {config.sndwnd, config.rcvwnd} \subseteq PyInt_As_int
  <2>1. config.sndwnd < Half /\ config.rcvwnd < Half
    BY <1>1, <1>2, Sizes DEF PyInt_As_int
  <2>2. /\ b \in Block /\ b.output /\ b.mtu = ckcp.mtu /\ b.mss = ckcp.mss
        /\ b.buffer = ckcp.buffer /\ b.longest = ckcp.longest
        /\ b.rcv_wnd \in WND_RCV..(Half - 1) /\ b.snd_wnd \in 1..(Half - 1)
        /\ b.interval = ckcp.interval /\ b.rx_minrto = ckcp.rx_minrto
    <3> DEFINE u == IF config.sndwnd > 0 THEN config.sndwnd ELSE ckcp.snd_wnd
               v == IF config.rcvwnd > 0 THEN imax(config.rcvwnd, WND_RCV)
                    ELSE ckcp.rcv_wnd
    <3>1. b = [ckcp EXCEPT !.snd_wnd = u, !.rcv_wnd = v]
      BY <1>1 DEF ikcp_wndsize, Block
    <3>2. ckcp.snd_wnd \in 1..(Half - 1) /\ ckcp.rcv_wnd \in WND_RCV..(Half - 1)
      BY <1>1 DEF Params
    <3>3. u \in 1..(Half - 1) /\ u \in Nat
      BY <1>1, <2>1, <3>2, Sizes
    <3>4. v \in WND_RCV..(Half - 1) /\ v \in Nat
      BY <1>1, <2>1, <3>2, Sizes DEF imax
    <3> HIDE DEF u, v, b
    <3> QED  BY <1>1, <3>1, <3>3, <3>4 DEF Block
  <2>3. Params(b)
    BY <1>1, <2>2 DEF Params
  <2>4. /\ b.nsnd_que = ckcp.nsnd_que /\ b.nsnd_buf = ckcp.nsnd_buf
        /\ b.nrcv_que = ckcp.nrcv_que /\ b.nrcv_buf = ckcp.nrcv_buf
        /\ b.ackcount = ckcp.ackcount /\ b.ackblock = ckcp.ackblock
    BY <1>1 DEF ikcp_wndsize, Block
  <2>5. pc = "wndsize" /\ pc' = "open" /\ ckcp' = b
        /\ UNCHANGED <<config, conv, refused, heap>>
    BY <1>2 DEF WndSize, Call
  <2> HIDE DEF b
  <2> QED  BY <1>1, <2>2, <2>3, <2>4, <2>5, ConfigureInv DEF Calls
<1>3. CASE ~({config.sndwnd, config.rcvwnd} \subseteq PyInt_As_int)
  BY <1>3, RaiseInv DEF WndSize, Call, Calls
<1> QED  BY <1>2, <1>3

-----------------------------------------------------------------------------
(* The fields a session never changes.                                     *)
SameParams(b, c) ==
  /\ b.mtu = c.mtu /\ b.mss = c.mss /\ b.buffer = c.buffer
  /\ b.rcv_wnd = c.rcv_wnd /\ b.snd_wnd = c.snd_wnd
  /\ b.interval = c.interval /\ b.rx_minrto = c.rx_minrto /\ b.output = c.output

Memory(b) == b.nsnd_buf + b.nrcv_buf + b.nsnd_que + b.nrcv_que
               + (IF b.ackblock > 0 THEN 1 ELSE 0)

(* A step of a session keeps KInv when the memory it allocates and frees   *)
(* is what the counters of the block change by.                            *)
LEMMA SessionInv ==
  ASSUME KInv, pc \in Sessions, pc' \in Sessions \cup {"dealloc"},
         UNCHANGED <<config, conv>>, refused' \in BOOLEAN, WritesAccepted',
         ckcp' \in Block, SameParams(ckcp', ckcp), ckcp'.longest <= ckcp.mss,
         ckcp'.ackcount <= ckcp'.ackblock,
         heap' - heap = Memory(ckcp') - Memory(ckcp), heap' \in Int
  PROVE  KInv'
<1>1. ckcp # NULL /\ ckcp \in Block /\ Params(ckcp) /\ ckcp.output /\ heap \in Int
  BY DEF KInv, Stages, TypeOK
<1>2. ckcp' # NULL
  BY ObjectAssumption
<1>3. Params(ckcp')
  BY <1>1 DEF Params, SameParams
<1>4. heap = 2 + Memory(ckcp) /\ Memory(ckcp) \in Int /\ Memory(ckcp') \in Int
  BY <1>1 DEF KInv, Released, Memory, Block
<1>5. heap' = 2 + Memory(ckcp')
  <2>1. PICK m \in Int, n \in Int :
          heap = 2 + m /\ heap' - heap = n - m /\ n = Memory(ckcp')
    BY <1>4
  <2>2. heap' = 2 + n
    BY <1>1, <2>1
  <2> QED  BY <2>1, <2>2
<1>6. heap' = Released(ckcp')
  BY <1>2, <1>5 DEF Released, Memory, Block
<1>7. TypeOK'
  BY DEF TypeOK, KInv
<1>8. Stages'
  BY <1>1, <1>2 DEF KInv, Stages, SameParams, Sessions
<1> QED  BY <1>3, <1>6, <1>7, <1>8 DEF KInv, AcksFit

(* A step that leaves the block and its memory alone.                      *)
LEMMA QuietInv ==
  ASSUME KInv, pc \in Sessions, pc' \in Sessions \cup {"dealloc"},
         UNCHANGED <<config, conv, ckcp, heap>>, refused' \in BOOLEAN, WritesAccepted'
  PROVE  KInv'
  BY DEF KInv, TypeOK, Stages, AcksFit, Sessions

LEMMA StillAccepted ==
  ASSUME KInv, UNCHANGED <<config, refused>>
  PROVE  WritesAccepted'
  BY DEF KInv, WritesAccepted

LEMMA OpenBlock ==
  ASSUME KInv, pc \in Sessions
  PROVE  /\ ckcp # NULL /\ ckcp \in Block /\ Params(ckcp) /\ heap \in Int
         /\ ckcp.ackcount <= ckcp.ackblock /\ refused \in BOOLEAN
         /\ (config.mtu >= MtuMin => ckcp.mtu = config.mtu)
         /\ config.mtu \in Int
  BY ObjectAssumption DEF KInv, TypeOK, Stages, AcksFit, Config

(* A message is cut into at least one fragment.                            *)
LEMMA SomeFragments ==
  ASSUME NEW len \in Nat, NEW mss \in Nat \ {0}
  PROVE  FragCount(len, mss) \in Nat \ {0}
<1>1. CASE len <= mss
  BY <1>1 DEF FragCount
<1>2. CASE len > mss
  <2>1. (len + mss - 1) \div mss \in Nat \ {0}
    BY <1>2
  <2> QED  BY <1>2, <2>1 DEF FragCount
<1> QED  BY <1>1, <1>2

LEMMA Division ==
  ASSUME NEW x \in Int, NEW d \in Nat \ {0}
  PROVE  /\ x \div d \in Int /\ x % d \in 0..(d - 1)
         /\ x = d * (x \div d) + (x % d)
  BY SMT

LEMMA SafeMtuInt == SafeMtu \in Int
<1>1. ReadSize + WND_RCV - 2 \in Int /\ WND_RCV - 1 \in Nat \ {0}
  BY Sizes, ObjectAssumption
<1>2. (ReadSize + WND_RCV - 2) \div (WND_RCV - 1) \in Int
  BY <1>1, Division
<1> QED  BY <1>2, Sizes DEF SafeMtu

(* The longest write fits when w fragments of this size hold it.           *)
LEMMA LargeFits ==
  ASSUME NEW len \in 0..ReadSize, NEW mss \in Nat,
         OVERHEAD + mss >= SafeMtu
  PROVE  ~(FragCount(len, mss) >= WND_RCV)
<1> DEFINE w == WND_RCV - 1
           s == (ReadSize + w - 1) \div w
<1>1. w \in Nat \ {0} /\ ReadSize \in Nat /\ OVERHEAD \in Nat
  BY Sizes, ObjectAssumption
<1>2. s \in Nat /\ ReadSize <= s * w
  <2>1. PICK v \in Nat \ {0}, r \in Nat, x \in Nat :
          v = w /\ r = ReadSize /\ x = ReadSize + w - 1 /\ x = r + v - 1
    <3>1. w = WND_RCV - 1 /\ WND_RCV \in Nat
      BY Sizes
    <3>2. ReadSize + w - 1 \in Nat
      BY <1>1, <3>1
    <3> QED  BY <1>1, <3>2
  <2>2. /\ x \div v \in Int /\ x % v \in 0..(v - 1)
        /\ x = v * (x \div v) + (x % v)
    <3>1. x \in Int /\ v \in Nat \ {0}
      BY <2>1
    <3> HIDE <2>1
    <3> QED  BY <3>1, Division
  <2>3. PICK q \in Int, m \in Int :
          q = x \div v /\ m \in 0..(v - 1) /\ x = v * q + m
    BY <2>2
  <2>4. v * q > -v
    BY <2>1, <2>3
  <2>5. q \in Nat
    <3> SUFFICES ASSUME q <= -1 PROVE FALSE
      BY <2>3
    <3>1. v * q <= v * (-1)
      BY <2>1, <2>3
    <3> QED  BY <2>1, <2>3, <2>4, <3>1
  <2>6. r <= v * q /\ v * q = q * v
    BY <2>1, <2>3
  <2> QED  BY <2>1, <2>3, <2>5, <2>6
<1>3. ReadSize + WND_RCV - 2 = ReadSize + w - 1 /\ WND_RCV = w + 1
  BY <1>1, Sizes
<1>4. mss >= s
  BY <1>1, <1>2, <1>3, Sizes DEF SafeMtu
<1>5. s * w <= mss * w
  BY <1>1, <1>2, <1>4
<1>6. CASE len <= mss
  BY <1>1, <1>3, <1>6, Sizes DEF FragCount
<1>7. CASE ~(len <= mss)
  <2> DEFINE f == (len + mss - 1) \div mss
  <2>1. mss \in Nat \ {0}
    BY <1>1, <1>2, <1>4, <1>5, <1>7
  <2>2. f \in Nat /\ f * mss <= len + mss - 1
    BY <2>1
  <2>3. f * mss < (w + 1) * mss
    <3>1. (w + 1) * mss = mss * w + mss
      BY <1>1, <2>1
    <3>2. len <= mss * w
      BY <1>1, <1>2, <1>5, <2>1
    <3> QED  BY <1>1, <2>1, <2>2, <3>1, <3>2
  <2>4. f < w + 1
    BY <1>1, <2>1, <2>2, <2>3
  <2>5. FragCount(len, mss) = f
    BY <1>7 DEF FragCount
  <2> HIDE DEF f
  <2> QED  BY <1>1, <1>3, <2>2, <2>4, <2>5
<1> QED  BY <1>6, <1>7

LEMMA SendInv == ASSUME KInv, NEW len \in 0..ReadSize, Send(len) PROVE KInv'
<1> DEFINE n == FragCount(len, ckcp.mss)
<1>1. pc = "open" /\ pc' = "open" /\ UNCHANGED <<config, conv>>
  BY DEF Send, Go
<1>2. ckcp \in Block /\ Params(ckcp) /\ heap \in Int
      /\ ckcp.ackcount <= ckcp.ackblock /\ ckcp.mss \in Nat \ {0}
      /\ ckcp.longest <= ckcp.mss /\ refused \in BOOLEAN
  BY <1>1, OpenBlock, Sizes DEF Sessions, Params, Block
<1>3. CASE n >= WND_RCV
  <2>1. refused' = TRUE /\ UNCHANGED <<ckcp, heap>>
    BY <1>3 DEF Send
  <2>2. ~(config.mtu >= SafeMtu)
    <3> SUFFICES ASSUME config.mtu >= SafeMtu PROVE FALSE
      OBVIOUS
    <3>1. ckcp.mtu >= SafeMtu
      <4>1. /\ config.mtu >= MtuMin => ckcp.mtu = config.mtu
            /\ config.mtu \in Int /\ ckcp.mtu \in MtuMin..(Half - 1)
        BY <1>1, <1>2, OpenBlock DEF Sessions, Params
      <4> QED  BY <4>1, SafeMtuInt, Sizes
    <3> QED  BY <1>2, <1>3, <3>1, LargeFits, Sizes DEF Params, SafeMtu, Block
  <2>3. WritesAccepted'
    BY <1>1, <2>2 DEF WritesAccepted, SafeMtu
  <2> QED  BY <1>1, <2>1, <2>3, QuietInv DEF Sessions
<1>4. CASE ~(n >= WND_RCV)
  <2>1. n \in Nat
    BY <1>2, SomeFragments
  <2> DEFINE l == imax(ckcp.longest, imin(len, ckcp.mss))
             b == [ckcp EXCEPT !.nsnd_que = @ + n, !.longest = l]
  <2>2. ckcp' = b /\ heap' = heap + n /\ UNCHANGED refused
    BY <1>4 DEF Send
  <2>3. l \in Nat /\ l <= ckcp.mss
    BY <1>2 DEF imax, imin, Block
  <2> HIDE DEF n, l
  <2>4. b \in Block /\ SameParams(b, ckcp) /\ b.longest = l
        /\ b.ackcount = ckcp.ackcount /\ b.ackblock = ckcp.ackblock
    <3>1. ckcp.nsnd_que + n \in Nat
      BY <1>2, <2>1 DEF Block
    <3> QED  BY <1>2, <2>3, <3>1 DEF Block, SameParams
  <2>5. heap' - heap = Memory(b) - Memory(ckcp)
    BY <1>2, <2>1, <2>2 DEF Memory, Block
  <2> HIDE DEF b
  <2> QED
    BY <1>1, <1>2, <2>1, <2>2, <2>3, <2>4, <2>5, StillAccepted, SessionInv DEF Sessions
<1> QED  BY <1>3, <1>4

LEMMA StoredNat == Stored(-1) \in Nat
  BY WrapRange, Sizes DEF Stored

LEMMA CloseInv == ASSUME KInv, Close PROVE KInv'
<1> DEFINE b == [ckcp EXCEPT !.state = Stored(-1)]
<1>1. pc = "open" /\ pc' = "open" /\ ckcp' = b
      /\ UNCHANGED <<config, conv, heap, refused>>
  BY DEF Close, Go
<1>2. ckcp \in Block /\ Params(ckcp) /\ heap \in Int /\ refused \in BOOLEAN
      /\ ckcp.ackcount <= ckcp.ackblock /\ ckcp.longest <= ckcp.mss
  BY <1>1, OpenBlock DEF Sessions, Params
<1>3. b \in Block /\ SameParams(b, ckcp) /\ b.longest = ckcp.longest
      /\ b.ackcount = ckcp.ackcount /\ b.ackblock = ckcp.ackblock
      /\ Memory(b) = Memory(ckcp) /\ Memory(b) \in Int
  BY <1>2, StoredNat DEF Block, SameParams, Memory
<1> HIDE DEF b
<1> QED  BY <1>1, <1>2, <1>3, StillAccepted, SessionInv DEF Sessions

LEMMA InputAckInv == ASSUME KInv, InputAck PROVE KInv'
<1>1. pc = "input" /\ pc' = "input" /\ UNCHANGED <<config, conv, refused>>
  BY DEF InputAck, Go
<1>2. ckcp \in Block /\ Params(ckcp) /\ heap \in Int /\ refused \in BOOLEAN
      /\ ckcp.ackcount <= ckcp.ackblock /\ ckcp.longest <= ckcp.mss
  BY <1>1, OpenBlock DEF Sessions, Params
<1>3. PICK k \in 1..ckcp.nsnd_buf :
        ckcp' = [ckcp EXCEPT !.nsnd_buf = @ - k] /\ heap' = heap - k
  BY DEF InputAck
<1> DEFINE b == [ckcp EXCEPT !.nsnd_buf = @ - k]
<1>4. b \in Block /\ SameParams(b, ckcp) /\ b.longest = ckcp.longest
      /\ b.ackcount = ckcp.ackcount /\ b.ackblock = ckcp.ackblock
  BY <1>2 DEF Block, SameParams
<1>5. heap' - heap = Memory(b) - Memory(ckcp) /\ heap' \in Int
  BY <1>2, <1>3 DEF Memory, Block
<1> HIDE DEF b
<1>6. ckcp' = b
  BY <1>3 DEF b
<1> QED  BY <1>1, <1>2, <1>4, <1>5, <1>6, StillAccepted, SessionInv DEF Sessions

(* The move loop moves segments from one queue to the other.               *)
LEMMA MoveKeeps ==
  ASSUME NEW b \in Block, NEW buf \in SUBSET Nat, NEW count \in Nat, NEW new,
         MovedTo(new, b, buf, count)
  PROVE  /\ new \in Block /\ SameParams(new, b) /\ new.longest = b.longest
         /\ new.ackcount = b.ackcount /\ new.ackblock = b.ackblock
         /\ Memory(new) = Memory([b EXCEPT !.nrcv_buf = count])
<1>1. PICK m \in 0..count :
        new = [b EXCEPT !.rcv_buf = {i - m : i \in buf \ 0..(m - 1)},
                        !.nrcv_buf = count - m, !.nrcv_que = @ + m]
  BY DEF MovedTo
<1> DEFINE r == {i - m : i \in buf \ 0..(m - 1)}
<1>2. r \subseteq Nat
  BY <1>1
<1>3. count - m \in Nat /\ b.nrcv_que + m \in Nat
  BY <1>1 DEF Block
<1> HIDE DEF r
<1>4. new = [b EXCEPT !.rcv_buf = r, !.nrcv_buf = count - m, !.nrcv_que = @ + m]
  BY <1>1 DEF r
<1>5. /\ new \in Block /\ SameParams(new, b) /\ new.longest = b.longest
      /\ new.ackcount = b.ackcount /\ new.ackblock = b.ackblock
  BY <1>2, <1>3, <1>4 DEF Block, SameParams
<1>6. Memory(new) = Memory([b EXCEPT !.nrcv_buf = count])
  BY <1>3, <1>4 DEF Memory, Block
<1> QED  BY <1>5, <1>6

LEMMA RoomInList ==
  ASSUME NEW count \in Nat, NEW block \in Nat, NEW n \in Nat,
         GrowsTo(count, block, n)
  PROVE  count + 1 <= n
<1>1. CASE count + 1 <= block
  BY <1>1 DEF GrowsTo
<1>2. CASE ~(count + 1 <= block)
  <2>1. n >= count + 1
    BY <1>2, Zenon DEF GrowsTo
  <2> QED  BY <2>1
<1> QED  BY <1>1, <1>2

LEMMA InputPushInv == ASSUME KInv, NEW i \in Int, InputPush(i) PROVE KInv'
<1>1. pc = "input" /\ pc' = "input" /\ UNCHANGED <<config, conv, refused>>
  BY DEF InputPush, Go
<1>2. ckcp \in Block /\ Params(ckcp) /\ heap \in Int /\ refused \in BOOLEAN
      /\ ckcp.ackcount <= ckcp.ackblock /\ ckcp.longest <= ckcp.mss
  BY <1>1, OpenBlock DEF Sessions, Params
<1> DEFINE list == IF ckcp.ackblock = 0 THEN 1 ELSE 0
<1>3. PICK n \in 1..(2 * AckBlock * MaxAcks) :
        /\ GrowsTo(ckcp.ackcount, ckcp.ackblock, n)
        /\ LET acked == [ckcp EXCEPT !.ackcount = @ + 1, !.ackblock = n]
           IN IF Kept(ckcp, i)
              THEN MovedTo(ckcp', acked, ckcp.rcv_buf \cup {i}, ckcp.nrcv_buf + 1)
              ELSE ckcp' = acked
  BY DEF InputPush
<1>4. heap' = heap + Copies(ckcp, i) + list
  BY DEF InputPush
<1> DEFINE acked == [ckcp EXCEPT !.ackcount = @ + 1, !.ackblock = n]
<1>5. n \in Nat \ {0}
  BY Sizes, ObjectAssumption
<1>6. ckcp.ackcount + 1 <= n
  BY <1>2, <1>3, <1>5, RoomInList DEF Block
<1>7. acked \in Block /\ SameParams(acked, ckcp) /\ acked.longest = ckcp.longest
      /\ acked.ackcount = ckcp.ackcount + 1 /\ acked.ackblock = n
      /\ acked.nrcv_buf = ckcp.nrcv_buf /\ ckcp.nrcv_buf \in Nat
      /\ ckcp.rcv_buf \subseteq Nat
  <2>1. ckcp.ackcount + 1 \in Nat /\ ckcp.nrcv_buf \in Nat
        /\ ckcp.rcv_buf \subseteq Nat
    BY <1>2 DEF Block
  <2>2. acked \in Block
    BY <1>2, <1>5, <2>1 DEF Block
  <2> QED  BY <1>2, <2>1, <2>2 DEF Block, SameParams
<1>8. Memory(acked) = Memory(ckcp) + list /\ Memory(ckcp) \in Int
  BY <1>2, <1>5 DEF Memory, Block
<1>9. CASE Kept(ckcp, i)
  <2>1. i \in Nat /\ Copies(ckcp, i) = 1
    BY <1>9 DEF Kept, Copies
  <2>2. /\ ckcp' \in Block /\ SameParams(ckcp', acked)
        /\ ckcp'.longest = acked.longest /\ ckcp'.ackcount = acked.ackcount
        /\ ckcp'.ackblock = acked.ackblock
        /\ Memory(ckcp') = Memory([acked EXCEPT !.nrcv_buf = ckcp.nrcv_buf + 1])
    <3> HIDE DEF acked
    <3>1. MovedTo(ckcp', acked, ckcp.rcv_buf \cup {i}, ckcp.nrcv_buf + 1)
      BY <1>3, <1>9 DEF acked
    <3>2. ckcp.rcv_buf \cup {i} \in SUBSET Nat /\ ckcp.nrcv_buf + 1 \in Nat
      BY <1>7, <2>1
    <3> QED  BY <1>7, <3>1, <3>2, MoveKeeps
  <2> HIDE DEF acked
  <2>3. Memory([acked EXCEPT !.nrcv_buf = ckcp.nrcv_buf + 1]) = Memory(acked) + 1
    BY <1>7 DEF Memory, Block
  <2>4. heap' - heap = Memory(ckcp') - Memory(ckcp) /\ heap' \in Int
    BY <1>2, <1>4, <1>8, <2>1, <2>2, <2>3
  <2>5. SameParams(ckcp', ckcp) /\ ckcp'.longest <= ckcp.mss
        /\ ckcp'.ackcount <= ckcp'.ackblock
    BY <1>2, <1>6, <1>7, <2>2 DEF SameParams
  <2> QED  BY <1>1, <1>2, <2>2, <2>4, <2>5, StillAccepted, SessionInv DEF Sessions
<1>10. CASE ~Kept(ckcp, i)
  <2>1. Copies(ckcp, i) = 0 /\ ckcp' = acked
    BY <1>3, <1>10 DEF Copies
  <2> HIDE DEF acked
  <2>2. heap' - heap = Memory(acked) - Memory(ckcp) /\ heap' \in Int
    BY <1>2, <1>4, <1>8, <2>1
  <2> QED
    BY <1>1, <1>2, <1>6, <1>7, <2>1, <2>2, StillAccepted, SessionInv DEF Sessions
<1> QED  BY <1>9, <1>10

LEMMA RecvInv ==
  ASSUME KInv, NEW name \in Sessions, NEW next \in Sessions, Recv(name, next)
  PROVE  KInv'
<1>1. pc = name /\ pc' = next /\ UNCHANGED <<config, conv, refused>>
  BY DEF Recv, Go
<1>2. ckcp \in Block /\ Params(ckcp) /\ heap \in Int /\ refused \in BOOLEAN
      /\ ckcp.ackcount <= ckcp.ackblock /\ ckcp.longest <= ckcp.mss
  BY <1>1, OpenBlock DEF Params
<1>3. PICK k \in 1..ckcp.nrcv_que :
        /\ MovedTo(ckcp', [ckcp EXCEPT !.nrcv_que = @ - k], ckcp.rcv_buf,
                   ckcp.nrcv_buf)
        /\ heap' = heap - k
  BY DEF Recv
<1> DEFINE b == [ckcp EXCEPT !.nrcv_que = @ - k]
<1>4. b \in Block /\ SameParams(b, ckcp) /\ b.longest = ckcp.longest
      /\ b.ackcount = ckcp.ackcount /\ b.ackblock = ckcp.ackblock
      /\ b.nrcv_buf = ckcp.nrcv_buf /\ ckcp.rcv_buf \in SUBSET Nat
      /\ ckcp.nrcv_buf \in Nat
  BY <1>2 DEF Block, SameParams
<1>5. Memory(b) = Memory(ckcp) - k /\ Memory(ckcp) \in Int
  BY <1>2 DEF Memory, Block
<1> HIDE DEF b
<1>6. [b EXCEPT !.nrcv_buf = ckcp.nrcv_buf] = b
  BY <1>4 DEF Block
<1>7. /\ ckcp' \in Block /\ SameParams(ckcp', b) /\ ckcp'.longest = b.longest
      /\ ckcp'.ackcount = b.ackcount /\ ckcp'.ackblock = b.ackblock
      /\ Memory(ckcp') = Memory([b EXCEPT !.nrcv_buf = ckcp.nrcv_buf])
  <2>1. MovedTo(ckcp', b, ckcp.rcv_buf, ckcp.nrcv_buf)
    BY <1>3 DEF b
  <2> QED  BY <1>4, <2>1, MoveKeeps
<1>8. heap' - heap = Memory(ckcp') - Memory(ckcp) /\ heap' \in Int
  BY <1>2, <1>3, <1>5, <1>6, <1>7
<1>9. SameParams(ckcp', ckcp) /\ ckcp'.longest <= ckcp.mss
      /\ ckcp'.ackcount <= ckcp'.ackblock
  BY <1>2, <1>4, <1>7 DEF SameParams
<1> QED  BY <1>1, <1>2, <1>7, <1>8, <1>9, StillAccepted, SessionInv

(* A flush moves segments and empties the list of acknowledgements.        *)
LEMMA FlushKeeps ==
  ASSUME NEW b \in Block, NEW new, Flushed(new, b), b.ackcount <= b.ackblock
  PROVE  /\ new \in Block /\ SameParams(new, b) /\ new.longest = b.longest
         /\ new.ackcount <= new.ackblock
         /\ Memory(new) = Memory(b) /\ Memory(b) \in Int
<1>1. Memory(b) \in Int
  BY DEF Memory, Block
<1>2. CASE new = b
  BY <1>1, <1>2 DEF SameParams
<1>3. CASE new # b
  <2>1. PICK m \in 0..b.nsnd_que, dead \in BOOLEAN :
          new = [b EXCEPT !.ackcount = 0, !.nsnd_que = @ - m,
                   !.nsnd_buf = @ + m, !.state = IF dead THEN Stored(-1) ELSE @]
    BY <1>3 DEF Flushed
  <2> DEFINE st == IF dead THEN Stored(-1) ELSE b.state
  <2>2. st \in Nat /\ b.nsnd_que - m \in Nat /\ b.nsnd_buf + m \in Nat
    BY StoredNat DEF Block
  <2>3. new = [b EXCEPT !.ackcount = 0, !.nsnd_que = b.nsnd_que - m,
                 !.nsnd_buf = b.nsnd_buf + m, !.state = st]
    BY <2>1 DEF Block
  <2> HIDE DEF st
  <2>4. new \in Block
    BY <2>2, <2>3 DEF Block
  <2>5. SameParams(new, b) /\ new.longest = b.longest
        /\ new.ackcount = 0 /\ new.ackblock = b.ackblock
    BY <2>3 DEF Block, SameParams
  <2>6. Memory(new) = Memory(b)
    BY <2>2, <2>3 DEF Memory, Block
  <2>7. new.ackcount <= new.ackblock
    BY <2>4, <2>5 DEF Block
  <2> QED  BY <1>1, <2>4, <2>5, <2>6, <2>7
<1> QED  BY <1>2, <1>3

LEMMA FlushInv == ASSUME KInv, Flush PROVE KInv'
<1>1. pc = "flush" /\ pc' = "open" /\ UNCHANGED <<config, conv, refused, heap>>
      /\ Flushed(ckcp', ckcp)
  BY DEF Flush, Go
<1>2. ckcp \in Block /\ Params(ckcp) /\ heap \in Int /\ refused \in BOOLEAN
      /\ ckcp.ackcount <= ckcp.ackblock /\ ckcp.longest <= ckcp.mss
  BY <1>1, OpenBlock DEF Sessions, Params
<1>3. /\ ckcp' \in Block /\ SameParams(ckcp', ckcp)
      /\ ckcp'.longest = ckcp.longest /\ ckcp'.ackcount <= ckcp'.ackblock
      /\ Memory(ckcp') = Memory(ckcp) /\ Memory(ckcp) \in Int
  BY <1>1, <1>2, FlushKeeps
<1> QED  BY <1>1, <1>2, <1>3, StillAccepted, SessionInv DEF Sessions

LEMMA UpdateInv == ASSUME KInv, Update PROVE KInv'
<1> DEFINE b == [ckcp EXCEPT !.updated = TRUE]
<1>1. pc = "open" /\ pc' = "state" /\ UNCHANGED <<config, conv, refused, heap>>
      /\ (ckcp' = b \/ Flushed(ckcp', b))
  BY DEF Update, Go
<1>2. ckcp \in Block /\ Params(ckcp) /\ heap \in Int /\ refused \in BOOLEAN
      /\ ckcp.ackcount <= ckcp.ackblock /\ ckcp.longest <= ckcp.mss
  BY <1>1, OpenBlock DEF Sessions, Params
<1>3. b \in Block /\ SameParams(b, ckcp) /\ b.longest = ckcp.longest
      /\ b.ackcount = ckcp.ackcount /\ b.ackblock = ckcp.ackblock
      /\ Memory(b) = Memory(ckcp) /\ Memory(ckcp) \in Int
  <2>1. b \in Block /\ SameParams(b, ckcp) /\ b.longest = ckcp.longest
        /\ b.ackcount = ckcp.ackcount /\ b.ackblock = ckcp.ackblock
    BY <1>2 DEF Block, SameParams
  <2>2. Memory(b) = Memory(ckcp) /\ Memory(ckcp) \in Int
    BY <1>2 DEF Block, Memory
  <2> QED  BY <2>1, <2>2
<1> HIDE DEF b
<1>4. /\ ckcp' \in Block /\ SameParams(ckcp', b)
      /\ ckcp'.longest = b.longest /\ ckcp'.ackcount <= ckcp'.ackblock
      /\ Memory(ckcp') = Memory(b)
  <2>1. CASE ckcp' = b
    BY <1>2, <1>3, <2>1 DEF SameParams
  <2>2. CASE Flushed(ckcp', b)
    BY <1>2, <1>3, <2>2, FlushKeeps
  <2> QED  BY <1>1, <2>1, <2>2
<1>5. SameParams(ckcp', ckcp)
  BY <1>3, <1>4 DEF SameParams
<1>6. heap' - heap = Memory(ckcp') - Memory(ckcp) /\ heap' \in Int
  BY <1>1, <1>2, <1>3, <1>4
<1> QED  BY <1>1, <1>2, <1>3, <1>4, <1>5, <1>6, StillAccepted, SessionInv DEF Sessions

LEMMA DeallocInv == ASSUME KInv, Dealloc PROVE KInv'
<1>1. pc = "dealloc" /\ pc' = "gone" /\ ckcp' = NULL
      /\ heap' = heap - Released(ckcp) /\ UNCHANGED <<config, conv, refused>>
  BY DEF Dealloc, Go
<1>2. heap \in Int /\ heap = Released(ckcp)
  BY DEF KInv, TypeOK
<1>3. heap' = 0 /\ Released(NULL) = 0
  BY <1>1, <1>2 DEF Released
<1>4. WritesAccepted'
  BY <1>1, StillAccepted
<1> QED
  BY <1>1, <1>3, <1>4 DEF KInv, TypeOK, Stages, AcksFit, Calls, Sessions

(* The steps that change neither the block nor its memory.                 *)
LEMMA OtherInv ==
  ASSUME KInv,
         Drop \/ Receive \/ InputEnd \/ State
           \/ Peek("peeksize", "recv", "open") \/ Peek("peek", "take", "open")
  PROVE  KInv'
<1>1. /\ pc \in Sessions /\ pc' \in Sessions \cup {"dealloc"}
      /\ UNCHANGED <<config, conv, ckcp, heap>> /\ UNCHANGED <<config, refused>>
  BY DEF Drop, Receive, InputEnd, State, Peek, Go, Sessions
<1>2. refused' \in BOOLEAN
  BY <1>1 DEF KInv, TypeOK
<1>3. WritesAccepted'
  BY <1>1, StillAccepted
<1>4. TypeOK'
  BY <1>1, <1>2 DEF KInv, TypeOK, Sessions
<1>5. Stages' /\ AcksFit'
  BY <1>1 DEF KInv, Stages, AcksFit, Sessions
<1>6. (ckcp # NULL => Params(ckcp))' /\ (heap = Released(ckcp))'
  BY <1>1 DEF KInv
<1> QED  BY <1>3, <1>4, <1>5, <1>6 DEF KInv

LEMMA NextInv == KInv /\ [Next]_vars => KInv'
<1> SUFFICES ASSUME KInv, [Next]_vars PROVE KInv'
  OBVIOUS
<1>1. CASE Create \/ SetOutput \/ SetMtu \/ NoDelay \/ WndSize
  BY <1>1, CreateInv, SetOutputInv, SetMtuInv, NoDelayInv, WndSizeInv
<1>2. CASE \E len \in 0..ReadSize : Send(len)
  BY <1>2, SendInv, ObjectAssumption
<1>3. CASE Close \/ Dealloc \/ InputAck \/ Flush \/ Update
  BY <1>3, CloseInv, DeallocInv, InputAckInv, FlushInv, UpdateInv
<1>4. CASE \E i \in Datagrams : InputPush(i)
  BY <1>4, InputPushInv, ObjectAssumption
<1>5. CASE Recv("recv", "flush") \/ Recv("take", "open")
  BY <1>5, RecvInv DEF Sessions
<1>6. CASE \/ Drop \/ Receive \/ InputEnd \/ State
           \/ Peek("peeksize", "recv", "open") \/ Peek("peek", "take", "open")
  BY <1>6, OtherInv
<1>7. CASE UNCHANGED vars
  BY <1>7 DEF vars, KInv, TypeOK, Stages, AcksFit, WritesAccepted
<1> QED  BY <1>1, <1>2, <1>3, <1>4, <1>5, <1>6, <1>7 DEF Next

THEOREM Inductive == Spec => []KInv
  BY InitInv, NextInv, PTL DEF Spec

-----------------------------------------------------------------------------
(* The fields of the block stay in the range of their C types, for every   *)
(* configuration.                                                          *)
THEOREM ObjectTypes == Spec => []TypeOK
<1>1. KInv => TypeOK
  BY DEF KInv
<1> QED  BY <1>1, Inductive, PTL

(* new_kcp either ends with a block that is fit for use, or raises: no     *)
(* integers in the configuration give a session anything else.             *)
THEOREM AlwaysConfigured == Spec => []Configured
<1>1. KInv => Configured
  <2> SUFFICES ASSUME KInv, Open PROVE Configured
    BY DEF Configured
  <2>1. ckcp # NULL /\ ckcp \in Block /\ Params(ckcp) /\ ckcp.output
    BY OpenBlock DEF KInv, Stages, Open
  <2> QED  BY <2>1, Sizes DEF Configured, Params
<1> QED  BY <1>1, Inductive, PTL

(* Whatever mtu is set, or refused, a flush writes inside its buffer.      *)
THEOREM BufferLargeEnough == Spec => []BufferFits
<1>1. KInv => BufferFits
  <2> SUFFICES ASSUME KInv, ckcp # NULL
               PROVE  imax(ckcp.mtu, OVERHEAD + ckcp.longest) <= ckcp.buffer
    BY DEF BufferFits
  <2>1. ckcp \in Block /\ Params(ckcp)
    BY DEF KInv, TypeOK
  <2> QED  BY <2>1, Sizes DEF Params, Block, imax
<1> QED  BY <1>1, Inductive, PTL

(* ikcp_ack_push never writes behind its list, however many segments come  *)
(* between two flushes.                                                    *)
THEOREM AcksAlwaysFit == Spec => []AcksFit
<1>1. KInv => AcksFit
  BY DEF KInv
<1> QED  BY <1>1, Inductive, PTL

(* Every block of memory allocated for an object is freed with it.         *)
THEOREM NothingLeaks == Spec => []NoLeak
<1>1. KInv => NoLeak
  <2> SUFFICES ASSUME KInv PROVE NoLeak
    OBVIOUS
  <2>1. heap = Released(ckcp) /\ ckcp \in Block \cup {NULL}
        /\ (pc = "gone" => ckcp = NULL)
    BY DEF KInv, TypeOK, Stages
  <2>2. CASE ckcp = NULL
    BY <2>1, <2>2 DEF NoLeak, Released
  <2>3. CASE ckcp # NULL
    BY <2>1, <2>3 DEF NoLeak, Released, Block
  <2> QED  BY <2>2, <2>3
<1> QED  BY <1>1, Inductive, PTL

(* With the mtu at SafeMtu or above, for every configuration, no write of  *)
(* the pipe is lost because ikcp_send refuses it.                          *)
THEOREM NoWriteRefused == Spec => []WritesAccepted
<1>1. KInv => WritesAccepted
  BY DEF KInv
<1> QED  BY <1>1, Inductive, PTL

-----------------------------------------------------------------------------
(* The receive queue keeps inside a window that is what was configured.    *)
QInv ==
  ckcp # NULL =>
    /\ ckcp.nrcv_que <= ckcp.rcv_wnd
    /\ ckcp.rcv_wnd \in {WND_RCV, config.rcvwnd}
    /\ pc \in Calls => ckcp.nrcv_que = 0

(* The move loop stops at the window.                                      *)
LEMMA MoveStops ==
  ASSUME NEW b \in Block, NEW buf, NEW count \in Nat, NEW new,
         MovedTo(new, b, buf, count), b.nrcv_que <= b.rcv_wnd
  PROVE  new.nrcv_que <= new.rcv_wnd /\ new.rcv_wnd = b.rcv_wnd
<1>1. PICK m \in 0..count :
        /\ StopsAfter(m, b, buf)
        /\ new = [b EXCEPT !.rcv_buf = {i - m : i \in buf \ 0..(m - 1)},
                           !.nrcv_buf = count - m, !.nrcv_que = @ + m]
  BY DEF MovedTo
<1>2. new.nrcv_que = b.nrcv_que + m /\ new.rcv_wnd = b.rcv_wnd
      /\ b.nrcv_que \in Nat /\ b.rcv_wnd \in Nat
  BY <1>1 DEF Block
<1>3. CASE m = 0
  BY <1>2, <1>3
<1>4. CASE m # 0
  <2>1. m - 1 \in 0..(m - 1)
    BY <1>4
  <2>2. b.nrcv_que + (m - 1) < b.rcv_wnd
    BY <1>1, <2>1 DEF StopsAfter
  <2> QED  BY <1>2, <2>2
<1> QED  BY <1>3, <1>4

LEMMA QueueStep == ASSUME KInv, QInv, [Next]_vars PROVE QInv'
<1>1. ckcp # NULL => ckcp \in Block
  BY DEF KInv, TypeOK
<1>2. CASE Create
  BY <1>2, Sizes DEF Create, Call, QInv, ikcp_create, Calls, KInv, Stages
<1>3. CASE SetOutput \/ SetMtu \/ NoDelay
  <2>1. pc \in Calls /\ ckcp # NULL
    BY <1>3 DEF SetOutput, SetMtu, NoDelay, Call, Calls, KInv, Stages
  <2>2. ckcp'.nrcv_que = ckcp.nrcv_que /\ ckcp'.rcv_wnd = ckcp.rcv_wnd
        /\ UNCHANGED config
    BY <1>1, <1>3, <2>1
    DEF SetOutput, SetMtu, NoDelay, Call, ikcp_setmtu, ikcp_nodelay, Block
  <2> QED  BY <2>1, <2>2 DEF QInv
<1>4. CASE WndSize
  <2>1. pc = "wndsize" /\ pc' \in {"open", "dealloc"} /\ UNCHANGED config
        /\ ckcp # NULL /\ ckcp \in Block /\ config.rcvwnd \in Int
        /\ ckcp.nrcv_que = 0
    BY <1>1, <1>4, ObjectAssumption
    DEF WndSize, Call, KInv, Stages, TypeOK, Config, QInv, Calls
  <2>2. ckcp'.nrcv_que = 0 /\ ckcp'.rcv_wnd \in {WND_RCV, config.rcvwnd}
    BY <1>4, <2>1 DEF WndSize, Call, ikcp_wndsize, imax, QInv, Block
  <2>3. ckcp'.nrcv_que <= ckcp'.rcv_wnd
    <3>1. ckcp' # NULL => Params(ckcp')
      BY <1>4, WndSizeInv DEF KInv
    <3>2. ckcp' # NULL
      <4>1. ckcp' = ckcp \/ ckcp' = ikcp_wndsize(ckcp, config.sndwnd, config.rcvwnd)
        BY <1>4 DEF WndSize, Call
      <4>2. KInv'
        BY <1>4, WndSizeInv
      <4>3. pc' = "open" => ckcp' # NULL
        BY <4>2 DEF KInv, Stages, Sessions
      <4>4. pc' = "dealloc" => ckcp' = ckcp
        BY <1>4 DEF WndSize, Call
      <4> QED  BY <2>1, <4>3, <4>4
    <3> QED  BY <2>2, <3>1, <3>2, Sizes DEF Params
  <2> QED  BY <2>1, <2>2, <2>3 DEF QInv, Calls
<1>5. CASE (\E len \in 0..ReadSize : Send(len)) \/ Close \/ InputAck
  <2>1. pc \in Sessions /\ pc' \in Sessions /\ ckcp # NULL /\ UNCHANGED config
    BY <1>5 DEF Send, Close, InputAck, Go, Sessions, KInv, Stages
  <2>2. ckcp'.nrcv_que = ckcp.nrcv_que /\ ckcp'.rcv_wnd = ckcp.rcv_wnd
    BY <1>1, <1>5, <2>1 DEF Send, Close, InputAck, Block
  <2> QED  BY <2>1, <2>2 DEF QInv, Sessions, Calls
<1>6. CASE Flush \/ Update
  <2>1. pc \in Sessions /\ pc' \in Sessions /\ ckcp # NULL /\ UNCHANGED config
    BY <1>6 DEF Flush, Update, Go, Sessions, KInv, Stages
  <2>2. ckcp'.nrcv_que = ckcp.nrcv_que /\ ckcp'.rcv_wnd = ckcp.rcv_wnd
    BY <1>1, <1>6, <2>1 DEF Flush, Update, Flushed, Block
  <2> QED  BY <2>1, <2>2 DEF QInv, Sessions, Calls
<1>7. CASE \E i \in Datagrams : InputPush(i)
  <2>1. PICK i \in Datagrams, n \in 1..(2 * AckBlock * MaxAcks) :
          LET acked == [ckcp EXCEPT !.ackcount = @ + 1, !.ackblock = n]
          IN IF Kept(ckcp, i)
             THEN MovedTo(ckcp', acked, ckcp.rcv_buf \cup {i}, ckcp.nrcv_buf + 1)
             ELSE ckcp' = acked
    BY <1>7 DEF InputPush
  <2>2. pc \in Sessions /\ pc' \in Sessions /\ ckcp # NULL /\ UNCHANGED config
    BY <1>7 DEF InputPush, Go, Sessions, KInv, Stages
  <2> DEFINE acked == [ckcp EXCEPT !.ackcount = @ + 1, !.ackblock = n]
  <2>3. acked \in Block /\ ckcp.nrcv_buf + 1 \in Nat
        /\ acked.nrcv_que = ckcp.nrcv_que /\ acked.rcv_wnd = ckcp.rcv_wnd
    <3>1. n \in Nat /\ ckcp.ackcount + 1 \in Nat /\ ckcp.nrcv_buf \in Nat
      BY <1>1, <2>2, Sizes, ObjectAssumption DEF Block
    <3>2. acked \in Block
      BY <1>1, <2>2, <3>1 DEF Block
    <3>3. acked.nrcv_que = ckcp.nrcv_que /\ acked.rcv_wnd = ckcp.rcv_wnd
      BY <1>1, <2>2 DEF Block
    <3> QED  BY <3>1, <3>2, <3>3
  <2>4. MovedTo(ckcp', acked, ckcp.rcv_buf \cup {i}, ckcp.nrcv_buf + 1)
          \/ ckcp' = acked
    BY <2>1
  <2> HIDE DEF acked
  <2>5. acked.nrcv_que <= acked.rcv_wnd
    BY <2>2, <2>3 DEF QInv
  <2>6. ckcp'.nrcv_que <= ckcp'.rcv_wnd /\ ckcp'.rcv_wnd = ckcp.rcv_wnd
    BY <2>3, <2>4, <2>5, MoveStops
  <2> QED  BY <2>2, <2>6 DEF QInv, Sessions, Calls
<1>8. CASE Recv("recv", "flush") \/ Recv("take", "open")
  <2>1. PICK k \in 1..ckcp.nrcv_que :
          MovedTo(ckcp', [ckcp EXCEPT !.nrcv_que = @ - k], ckcp.rcv_buf,
                  ckcp.nrcv_buf)
    BY <1>8 DEF Recv
  <2>2. pc \in Sessions /\ pc' \in Sessions /\ ckcp # NULL /\ UNCHANGED config
    BY <1>8 DEF Recv, Go, Sessions, KInv, Stages
  <2> DEFINE b == [ckcp EXCEPT !.nrcv_que = @ - k]
  <2>3. b \in Block /\ ckcp.nrcv_buf \in Nat /\ b.rcv_wnd = ckcp.rcv_wnd
        /\ b.nrcv_que <= b.rcv_wnd
    BY <1>1, <2>2 DEF Block, QInv
  <2>4. MovedTo(ckcp', b, ckcp.rcv_buf, ckcp.nrcv_buf)
    BY <2>1
  <2> HIDE DEF b
  <2>5. ckcp'.nrcv_que <= ckcp'.rcv_wnd /\ ckcp'.rcv_wnd = ckcp.rcv_wnd
    BY <2>3, <2>4, MoveStops
  <2> QED  BY <2>2, <2>5 DEF QInv, Sessions, Calls
<1>9. CASE Dealloc
  BY <1>9 DEF Dealloc, QInv
<1>10. CASE \/ Drop \/ Receive \/ InputEnd \/ State
            \/ Peek("peeksize", "recv", "open") \/ Peek("peek", "take", "open")
  <2>1. UNCHANGED <<config, ckcp>> /\ pc' \in Sessions \cup {"dealloc"}
    BY <1>10 DEF Drop, Receive, InputEnd, State, Peek, Go, Sessions
  <2> QED  BY <2>1 DEF QInv, Sessions, Calls
<1>11. CASE UNCHANGED vars
  BY <1>11 DEF vars, QInv
<1> QED
  BY <1>2, <1>3, <1>4, <1>5, <1>6, <1>7, <1>8, <1>9, <1>10, <1>11 DEF Next

(* The peer is told the exact room of the receive queue, for every         *)
(* configuration whose window a header can express.                        *)
THEOREM WindowExact == Spec => []WindowShown
<1>1. Init => QInv
  BY DEF Init, QInv
<1>2. KInv /\ QInv /\ [Next]_vars => QInv'
  BY QueueStep
<1>3. KInv /\ QInv => WindowShown
  <2> SUFFICES ASSUME KInv, QInv, Open, config.rcvwnd < WndMod
               PROVE  AdvertisedWnd(ckcp) = ckcp.rcv_wnd - ckcp.nrcv_que
    BY DEF WindowShown
  <2>1. ckcp # NULL /\ ckcp \in Block
    BY OpenBlock DEF Open
  <2>2. PICK r \in Nat, q \in Nat :
          r = ckcp.rcv_wnd /\ q = ckcp.nrcv_que /\ q <= r /\ r < WndMod
    BY <2>1, ObjectAssumption DEF QInv, Block
  <2>3. WndMod \in Nat /\ (r - q) % WndMod = r - q /\ (q < r \/ r - q = 0)
    BY <2>2, ObjectAssumption, SMT
  <2>4. 0 % WndMod = 0
    BY <2>2, ObjectAssumption, SMT
  <2> QED  BY <2>2, <2>3, <2>4 DEF AdvertisedWnd
<1> QED  BY <1>1, <1>2, <1>3, Inductive, PTL DEF Spec
=============================================================================
