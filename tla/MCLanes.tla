------------------------------ MODULE MCLanes ------------------------------
(***************************************************************************)
(* Instance of Lanes: two keys and six kinds of footprints; every list of  *)
(* up to four, every assignment to the lane ids 0 and 3 (ids need not be   *)
(* contiguous), the two policies of the crate, and vectors too short and   *)
(* too long.                                                               *)
(***************************************************************************)
EXTENDS Lanes

MCKey == 1..2

Kinds ==
  {EmptyFootprint,
   Read(EmptyFootprint, 1),
   ReadWrite(EmptyFootprint, 1),
   ReadWrite(EmptyFootprint, 2),
   ReadWrite(Read(EmptyFootprint, 1), 2),
   ReadWrite(Read(EmptyFootprint, 1), 1)}

MCInputs == BoundedSeq(Kinds, 4)

MCAssignments(fps) ==
  LET n == Len(fps) IN
  [1..n -> {0, 3}]
    \cup {SingleLane(n), SingleLane(n + 1), RoundRobinLanes(0, n), RoundRobinLanes(3, n)}
    \cup (IF n > 1 THEN {SingleLane(n - 1)} ELSE {})
=============================================================================
