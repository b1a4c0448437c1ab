--------------------------- MODULE MCCriticalPath ---------------------------
(***************************************************************************)
(* Instance of CriticalPath: every graph on at most four transactions,     *)
(* with every assignment of the costs 0 (an empty footprint), 1 and 3.     *)
(***************************************************************************)
EXTENDS CriticalPath

\* The adjacency lists of the graph on 1..n with a set of edges {i, j}.
AdjacencyOf(n, edges) ==
  [i \in 1..n |-> SetToSortSeq({j \in 1..n : {i, j} \in edges /\ i # j}, <)]

MCInputs ==
  UNION {[adjacency: {AdjacencyOf(n, edges) : edges \in SUBSET kSubset(2, 1..n)},
          costs: [1..n -> {0, 1, 3}]] : n \in 0..4}
=============================================================================
