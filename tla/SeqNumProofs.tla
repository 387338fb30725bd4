---------------------------- MODULE SeqNumProofs ----------------------------
(***************************************************************************)
(* Comparing wrapped numbers is as good as comparing the numbers           *)
(* themselves, as long as they are less than half the range apart.         *)
(***************************************************************************)
EXTENDS SeqNum, TLAPS

LEMMA DivMod == \A x \in Int : /\ x % W \in 0..(W - 1)
                               /\ x = W * (x \div W) + (x % W)
                               /\ x \div W \in Int
  BY WidthAssumption, SMT

LEMMA NoMultiple ==
  \A k \in Int : -W < W * k /\ W * k < W => k = 0
  BY WidthAssumption, SMT

LEMMA Distribute == \A a, b \in Int : W * (a - b) = W * a - W * b
  BY WidthAssumption, SMT

(* A number has only one remainder. *)
LEMMA ModUnique ==
  ASSUME NEW x \in Int, NEW q \in Int, NEW r \in 0..(W - 1), x = W * q + r
  PROVE  x % W = r
<1> DEFINE d == x \div W
           m == x % W
<1>1. d \in Int /\ m \in 0..(W - 1) /\ x = W * d + m
  BY DivMod
<1>2. W * d \in Int /\ W * q \in Int /\ W \in Nat
  BY <1>1, WidthAssumption
<1>3. W * (q - d) = m - r
  <2>1. W * (q - d) = W * q - W * d
    BY <1>1, Distribute
  <2> QED  BY <2>1, <1>1, <1>2
<1>4. q - d \in Int /\ -W < m - r /\ m - r < W
  BY <1>1, <1>2
<1>5. q - d = 0
  BY <1>3, <1>4, NoMultiple
<1>6. W * (q - d) = 0
  BY <1>2, <1>5
<1>7. m = r
  BY <1>1, <1>3, <1>6
<1> QED  BY <1>7

(* Numbers that differ by a multiple of W wrap to the same value.          *)
LEMMA WrapShift ==
  ASSUME NEW x \in Int, NEW k \in Int
  PROVE  Wrap(x + W * k) = Wrap(x)
<1>1. /\ x \div W \in Int /\ x % W \in 0..(W - 1)
      /\ x = W * (x \div W) + (x % W)
  BY DivMod
<1>2. W * (x \div W + k) = W * (x \div W) + W * k
  BY <1>1, WidthAssumption, SMT
<1>3. W * (x \div W) \in Int /\ W * k \in Int /\ x \div W + k \in Int
  BY <1>1, WidthAssumption
<1>4. x + W * k = W * (x \div W + k) + (x % W) /\ x + W * k \in Int
  BY <1>1, <1>2, <1>3
<1>5. (x + W * k) % W = x % W
  BY <1>1, <1>3, <1>4, ModUnique
<1> QED  BY <1>5 DEF Wrap

(* _itimediff of two wrapped numbers is their difference, if that lies     *)
(* within half the range.                                                  *)
THEOREM DifferenceExact ==
  ASSUME NEW a \in Int, NEW b \in Int, a - b \in (-Half)..(Half - 1)
  PROVE  itimediff(Wrap(a), Wrap(b)) = a - b
<1> DEFINE da == a \div W
           db == b \div W
<1>1. /\ da \in Int /\ Wrap(a) \in Int /\ a = W * da + Wrap(a)
      /\ db \in Int /\ Wrap(b) \in Int /\ b = W * db + Wrap(b)
  BY DivMod, WidthAssumption DEF Wrap
<1>2. /\ W * da \in Int /\ W * db \in Int
      /\ W * (db - da) = W * db - W * da
  BY <1>1, Distribute, WidthAssumption
<1>3. Wrap(a) - Wrap(b) = (a - b) + W * (db - da)
  BY <1>1, <1>2
<1>4. Wrap(Wrap(a) - Wrap(b)) = Wrap(a - b)
  BY <1>1, <1>3, WrapShift
<1>5. Half \in Nat /\ W = 2 * Half /\ Half > 0
  BY WidthAssumption DEF Half
<1>6. Wrap(a - b) = IF a - b < 0 THEN a - b + W ELSE a - b
  <2>1. CASE a - b < 0
    <3>1. a - b + W \in 0..(W - 1) /\ a - b = W * (-1) + (a - b + W)
      BY <1>5, <2>1
    <3> QED  BY <3>1, <2>1, ModUnique DEF Wrap
  <2>2. CASE ~(a - b < 0)
    <3>1. a - b \in 0..(W - 1) /\ a - b = W * 0 + (a - b)
      BY <1>5, <2>2
    <3> QED  BY <3>1, <2>2, ModUnique DEF Wrap
  <2> QED  BY <2>1, <2>2
<1> QED  BY <1>4, <1>5, <1>6 DEF itimediff

LEMMA WrapRange == ASSUME NEW x \in Int PROVE Wrap(x) \in 0..(W - 1)
  BY DivMod DEF Wrap

LEMMA WrapId == ASSUME NEW x \in 0..(W - 1) PROVE Wrap(x) = x
<1>1. x \in Int /\ x = W * 0 + x
  BY WidthAssumption
<1> QED  BY <1>1, ModUnique DEF Wrap

LEMMA WrapAdd ==
  ASSUME NEW x \in Int, NEW c \in Int
  PROVE  Wrap(Wrap(x) + c) = Wrap(x + c)
<1> DEFINE d == x \div W
<1>1. d \in Int /\ Wrap(x) \in Int /\ x = W * d + Wrap(x)
  BY DivMod, WidthAssumption DEF Wrap
<1>2. W * d \in Int
  BY <1>1, WidthAssumption
<1>3. x + c = (Wrap(x) + c) + W * d /\ Wrap(x) + c \in Int
  BY <1>1, <1>2
<1> QED  BY <1>1, <1>3, WrapShift

LEMMA DifferenceRange ==
  ASSUME NEW a \in Int, NEW b \in Int
  PROVE  itimediff(a, b) \in (-Half)..(Half - 1)
<1>1. Half \in Nat /\ W = 2 * Half
  BY WidthAssumption DEF Half
<1>2. Wrap(a - b) \in 0..(W - 1)
  BY WrapRange
<1> QED  BY <1>1, <1>2 DEF itimediff

(* Going back from r by what itimediff says leads to t.                    *)
LEMMA DifferenceBack ==
  ASSUME NEW r \in Int, NEW t \in 0..(W - 1)
  PROVE  t = Wrap(r - itimediff(Wrap(r), t))
<1> DEFINE e == itimediff(Wrap(r), t)
           m == Wrap(Wrap(r) - t)
<1>1. /\ Half \in Nat /\ W = 2 * Half /\ W \in Nat /\ t \in Int
      /\ Wrap(r) \in Int /\ m \in Int /\ e \in Int
  BY WidthAssumption, WrapRange, DifferenceRange DEF Half
<1>2. Wrap(r - e) = Wrap(r - m)
  <2>1. CASE e = m
    BY <2>1
  <2>2. CASE e = m - W
    <3>1. r - e = (r - m) + W * 1
      BY <1>1, <2>2
    <3>2. r - m \in Int /\ 1 \in Int
      BY <1>1
    <3>3. Wrap((r - m) + W * 1) = Wrap(r - m)
      BY <3>2, WrapShift
    <3> QED  BY <3>1, <3>3
  <2> QED  BY <2>1, <2>2 DEF itimediff
<1>3. m = Wrap(r - t)
  <2>1. /\ Wrap(r) - t = Wrap(r) + (-t) /\ r - t = r + (-t)
        /\ -t \in Int
    BY <1>1
  <2>2. Wrap(Wrap(r) + (-t)) = Wrap(r + (-t))
    BY <2>1, WrapAdd
  <2> QED  BY <2>1, <2>2
<1>4. \E k \in Int : m = (r - t) + W * k
  <2> DEFINE d == (r - t) \div W
  <2>1. d \in Int /\ r - t = W * d + m
    BY <1>1, <1>3, DivMod DEF Wrap
  <2>2. W * (-d) = -(W * d) /\ W * d \in Int
    BY <2>1, <1>1, SMT
  <2>3. m = (r - t) + W * (-d) /\ -d \in Int
    BY <2>1, <2>2, <1>1
  <2> QED  BY <2>3
<1>5. PICK k \in Int : m = (r - t) + W * k
  BY <1>4
<1>6. W * (-k) = -(W * k) /\ W * k \in Int
  BY <1>1, SMT
<1>7. r - m = t + W * (-k) /\ -k \in Int
  BY <1>1, <1>5, <1>6
<1>8. Wrap(r - m) = Wrap(t)
  <2>1. Wrap(t + W * (-k)) = Wrap(t)
    BY <1>1, <1>7, WrapShift
  <2> QED  BY <2>1, <1>7
<1> QED  BY <1>2, <1>8, WrapId
=============================================================================
