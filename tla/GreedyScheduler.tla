-------------------------- MODULE GreedyScheduler --------------------------
(***************************************************************************)
(* greedy_schedule (crates/scheduler): the transactions of a conflict      *)
(* graph are taken in index order, and each joins the first stage none of  *)
(* whose members is on its adjacency list, or opens a new last stage.  One *)
(* step is one iteration of the loop.                                      *)
(***************************************************************************)
EXTENDS Naturals, SequencesExt

CONSTANT Graphs     \* the adjacency lists the function is called with

\* What build_conflict_graph returns and the callers pass on: both ends of an
\* edge list each other, and no transaction lists itself.
IsGraph(graph) ==
  /\ graph \in Seq(Seq(1..Len(graph)))
  /\ \A i \in DOMAIN graph : \A j \in ToSet(graph[i]) :
       i # j /\ i \in ToSet(graph[j])

ASSUME GraphsAssumption == \A graph \in Graphs : IsGraph(graph)

VARIABLES
  adjacency,   \* the input graph
  txn,         \* the next transaction to place
  stages       \* the stages so far, each the sequence of its members

greedyVars == <<adjacency, txn, stages>>

GreedyInit ==
  /\ adjacency \in Graphs
  /\ txn = 1
  /\ stages = <<>>

\* Mutant of Fits: one agreeing member is enough.
FitsOneMember(stage) ==
  \E member \in ToSet(stage) : member \notin ToSet(adjacency[txn])

Fits(stage) ==
  \A member \in ToSet(stage) : member \notin ToSet(adjacency[txn])

\* Mutants of PlaceInStage: the stage is replaced, or any stage that fits
\* will do.
PlaceInStageAlone(s) ==
  /\ txn <= Len(adjacency)
  /\ Fits(stages[s])
  /\ \A earlier \in 1..(s - 1) : ~Fits(stages[earlier])
  /\ stages' = [stages EXCEPT ![s] = <<txn>>]
  /\ txn' = txn + 1
  /\ UNCHANGED adjacency

PlaceInSomeStage(s) ==
  /\ txn <= Len(adjacency)
  /\ Fits(stages[s])
  /\ stages' = [stages EXCEPT ![s] = Append(@, txn)]
  /\ txn' = txn + 1
  /\ UNCHANGED adjacency

PlaceInStage(s) ==
  /\ txn <= Len(adjacency)
  /\ Fits(stages[s])
  /\ \A earlier \in 1..(s - 1) : ~Fits(stages[earlier])
  /\ stages' = [stages EXCEPT ![s] = Append(@, txn)]
  /\ txn' = txn + 1
  /\ UNCHANGED adjacency

\* Mutant of OpenStage: a stage is opened although another one fits.
OpenStageAtWill ==
  /\ txn <= Len(adjacency)
  /\ stages' = Append(stages, <<txn>>)
  /\ txn' = txn + 1
  /\ UNCHANGED adjacency

OpenStage ==
  /\ txn <= Len(adjacency)
  /\ \A s \in DOMAIN stages : ~Fits(stages[s])
  /\ stages' = Append(stages, <<txn>>)
  /\ txn' = txn + 1
  /\ UNCHANGED adjacency

GreedyNext == (\E s \in DOMAIN stages : PlaceInStage(s)) \/ OpenStage

GreedySpec == GreedyInit /\ [][GreedyNext]_greedyVars

-----------------------------------------------------------------------------
Adjacent(t, u) == u \in ToSet(adjacency[t])

\* Types of the scheduler's state.
GreedyTypeOK ==
  /\ IsGraph(adjacency)
  /\ txn \in 1..(Len(adjacency) + 1)
  /\ stages \in Seq(Seq(1..Len(adjacency)))

\* Every transaction taken so far sits at exactly one place of exactly one
\* stage, and no other transaction sits anywhere.
ExactlyOnce ==
  /\ \A t \in 1..(txn - 1) : \E s \in DOMAIN stages : t \in ToSet(stages[s])
  /\ \A s \in DOMAIN stages : ToSet(stages[s]) \subseteq 1..(txn - 1)
  /\ \A s, r \in DOMAIN stages :
       \A p \in DOMAIN stages[s], q \in DOMAIN stages[r] :
         stages[s][p] = stages[r][q] => s = r /\ p = q

\* No stage holds two adjacent transactions.
StagesIndependent ==
  \A s \in DOMAIN stages : \A t, u \in ToSet(stages[s]) : ~Adjacent(t, u)

\* A transaction that is not in the first stage has, in every earlier stage, a
\* neighbour of lower index: it could not have run earlier, and a chain of
\* conflicts, ascending in index, runs through all stages to every one.
EarliestStage ==
  \A s \in DOMAIN stages : \A t \in ToSet(stages[s]) :
    \A earlier \in 1..(s - 1) :
      \E u \in ToSet(stages[earlier]) : u < t /\ Adjacent(t, u)

\* The bound every greedy colouring has: at most one stage more than the
\* largest number of conflicts of one transaction.
StageBound ==
  stages # <<>> =>
    \E t \in 1..(txn - 1) :
      Len(stages) <= Cardinality(ToSet(adjacency[t])) + 1

\* A placed transaction never moves: stages are only appended to, at the end
\* of one of them or by a new last one.
PlacedStays ==
  [][ /\ Len(stages) <= Len(stages')
      /\ \A s \in DOMAIN stages : IsPrefix(stages[s], stages'[s]) ]_greedyVars

AdjacentPairs ==
  {e \in (1..Len(adjacency)) \X (1..Len(adjacency)) :
     e[2] \in ToSet(adjacency[e[1]])}

StageAt(t) == CHOOSE s \in DOMAIN stages : t \in ToSet(stages[s])

StageOfPlaced == [t \in 1..(txn - 1) |-> StageAt(t)]

\* The scheduler implements StageAssignment, reading the conflicts from the
\* adjacency lists and the stage of a transaction from the stages.
Assignment == INSTANCE StageAssignment WITH
  conflicts <- AdjacentPairs,
  unplaced  <- txn..Len(adjacency),
  stageOf   <- StageOfPlaced

ImplementsAssignment == Assignment!AssignSpec
=============================================================================
