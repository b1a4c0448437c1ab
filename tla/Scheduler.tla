----------------------------- MODULE Scheduler -----------------------------
(***************************************************************************)
(* schedule (crates/scheduler): the conflict graph of the footprints is    *)
(* built, and the greedy scheduler runs on the finished graph.  Conflicts  *)
(* are stated here on the footprints themselves: what the index, the edge  *)
(* set and the adjacency lists lose, this module's properties would show.  *)
(***************************************************************************)
EXTENDS ConflictGraph, Schedule

VARIABLES
  txn,       \* the next transaction to place
  stages     \* the stages so far

vars == <<buildVars, txn, stages>>

\* The scheduler reads the graph the builder left in "adjacency".
Greedy == INSTANCE GreedyScheduler WITH Graphs <- {}

Init ==
  /\ BuildInit
  /\ txn = 1
  /\ stages = <<>>

BuildStep ==
  /\ BuildNext
  /\ UNCHANGED <<txn, stages>>

ScheduleStep ==
  /\ phase = "done"
  /\ Greedy!GreedyNext
  /\ UNCHANGED <<footprints, phase, cursor, index, unemitted, edges>>

Next == BuildStep \/ ScheduleStep

Spec == Init /\ [][Next]_vars

-----------------------------------------------------------------------------
\* The functions of the code that validate a schedule accept the result.
ValidatorsAccept ==
  (phase = "done" /\ txn > Len(footprints)) =>
    /\ IsConflictFree(stages, footprints)
    /\ IsComplete(stages, Len(footprints))
    /\ TransactionCount(stages) = Len(footprints)
    /\ \A i \in Txns : StageOf(stages, i) # 0

\* The loops together compute the function that Lanes calls once per lane.
ReturnsScheduleOf ==
  (phase = "done" /\ txn > Len(footprints)) => stages = ScheduleOf(footprints)

\* What a stage is for: a key one member of a stage writes is touched by no
\* other member, so the members may run in any order or at once.
StagesIsolated ==
  \A s \in DOMAIN stages : \A i, j \in ToSet(stages[s]) :
    i # j => footprints[i].read_write \cap Keys(footprints[j]) = {}

\* The whole call implements StageAssignment for the conflicts of the
\* footprints: building the graph is invisible, and each placement is the
\* abstract one.
Assignment == INSTANCE StageAssignment WITH
  conflicts <- {e \in Txns \X Txns : e[1] # e[2] /\ Conflicting(e[1], e[2])},
  unplaced  <- txn..Len(footprints),
  stageOf   <- [t \in 1..(txn - 1) |-> StageOf(stages, t)]

ImplementsAssignment == Assignment!AssignSpec
=============================================================================
