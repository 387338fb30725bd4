---------------------------- MODULE MCSendTimes ----------------------------
(* Instances of SendTimes for TLC. *)
EXTENDS SendTimes

(* Ticks on time and late, and one set back by a little less than JUMP. *)
FarBack == {2, 3, -13}
=============================================================================
