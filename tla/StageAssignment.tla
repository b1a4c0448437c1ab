-------------------------- MODULE StageAssignment --------------------------
(***************************************************************************)
(* What stage construction promises, whatever the data structures: the     *)
(* transactions of a set are placed one by one, in any order, each for     *)
(* good and in the earliest stage that holds no transaction it conflicts   *)
(* with.  The greedy scheduler and the per-lane scheduler implement this.  *)
(***************************************************************************)
EXTENDS Naturals

VARIABLES
  conflicts,   \* the conflict relation: a symmetric, irreflexive set of pairs
  unplaced,    \* the transactions still without a stage
  stageOf      \* the stage of every placed transaction

assignVars == <<conflicts, unplaced, stageOf>>

Placed == DOMAIN stageOf

Blocked(t, stage) ==
  \E u \in Placed : stageOf[u] = stage /\ <<t, u>> \in conflicts

\* The first stage, or the one after a stage in use.
CandidateStages == {1} \cup {stageOf[u] + 1 : u \in Placed}

Place(t, stage) ==
  /\ t \in unplaced
  /\ ~Blocked(t, stage)
  /\ \A earlier \in 1..(stage - 1) : Blocked(t, earlier)
  /\ stageOf' = [u \in Placed \cup {t} |-> IF u = t THEN stage ELSE stageOf[u]]
  /\ unplaced' = unplaced \ {t}
  /\ UNCHANGED conflicts

AssignInit ==
  /\ \A pair \in conflicts :
       /\ pair \in unplaced \X unplaced
       /\ pair[1] # pair[2]
       /\ <<pair[2], pair[1]>> \in conflicts
  /\ stageOf = [u \in {} |-> 1]

AssignNext == \E t \in unplaced, stage \in CandidateStages : Place(t, stage)

AssignSpec == AssignInit /\ [][AssignNext]_assignVars

-----------------------------------------------------------------------------
\* No two conflicting transactions share a stage.
ConflictsSeparated ==
  \A t, u \in Placed : <<t, u>> \in conflicts => stageOf[t] # stageOf[u]

\* Every transaction has a reason, in each earlier stage, not to be there: the
\* stages in use are 1 to the last one, without a gap.
EarliestPossible ==
  \A t \in Placed : \A earlier \in 1..(stageOf[t] - 1) : Blocked(t, earlier)
=============================================================================
