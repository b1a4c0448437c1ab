------------------------- MODULE MCGreedyScheduler -------------------------
(***************************************************************************)
(* Instance of GreedyScheduler: every graph on at most five transactions,  *)
(* with ascending adjacency lists as build_conflict_graph leaves them.     *)
(***************************************************************************)
EXTENDS GreedyScheduler

\* The adjacency lists of the graph on 1..n with a set of edges {i, j}.
AdjacencyOf(n, edges) ==
  [i \in 1..n |-> SetToSortSeq({j \in 1..n : {i, j} \in edges /\ i # j}, <)]

MCGraphs ==
  UNION {{AdjacencyOf(n, edges) : edges \in SUBSET kSubset(2, 1..n)} : n \in 0..5}
=============================================================================
