------------------------------- MODULE SeqNum -------------------------------
(***************************************************************************)
(* Sequence numbers and timestamps of ikcp.c are unsigned integers of      *)
(* W = 2^32 values that wrap around; they are compared by the sign of      *)
(* their difference.                                                       *)
(***************************************************************************)
EXTENDS Integers

CONSTANT W   \* number of values

ASSUME WidthAssumption == W \in Nat \ {0} /\ W % 2 = 0

Half == W \div 2

\* mutation: the count is kept in a wider integer
Wrap_Wide(n) == n

(* The value an unbounded count has in the code.                           *)
Wrap(n) == n % W

(* _itimediff: the difference as a signed integer of the same width.       *)
itimediff(later, earlier) ==
  LET d == Wrap(later - earlier) IN IF d < Half THEN d ELSE d - W
=============================================================================
