---------------------------- MODULE CriticalPath ----------------------------
(***************************************************************************)
(* critical_path and critical_path_weighted (crates/score): the heaviest   *)
(* conflict chain of a graph.  One pass in index order computes, for every *)
(* transaction, the weight of the heaviest chain that ends there and the   *)
(* predecessor on it; the chain is then read backwards from the best end.  *)
(* The two functions are the same loops: critical_path is the case where   *)
(* every transaction costs one.  Costs are natural numbers: the overflow   *)
(* of the code's 64-bit sums is not modelled.                              *)
(***************************************************************************)
EXTENDS Naturals, SequencesExt

CONSTANT Inputs     \* pairs of adjacency lists and transaction costs

\* Adjacency lists as build_conflict_graph returns them, and one cost each.
IsWeightedGraph(input) ==
  /\ input.costs \in Seq(Nat)
  /\ input.adjacency \in Seq(Seq(1..Len(input.adjacency)))
  /\ Len(input.costs) = Len(input.adjacency)
  /\ \A i \in DOMAIN input.adjacency : \A j \in ToSet(input.adjacency[i]) :
       i # j /\ i \in ToSet(input.adjacency[j])

ASSUME InputsAssumption == \A input \in Inputs : IsWeightedGraph(input)

VARIABLES
  adjacency,   \* the input graph
  costs,       \* the input costs
  phase,       \* "relax", "walk" or "done"
  txn,         \* the transaction whose neighbours are looked at
  nbr,         \* the next position in its adjacency list
  longest,     \* per transaction, the heaviest chain found to end there
  prev,        \* per transaction, its predecessor on that chain, 0 for None
  end,         \* the transaction the reported chain ends at, 0 before
  cur,         \* the next transaction of the backward walk, 0 for None
  path         \* the chain: backwards in "walk", forwards in "done"

vars == <<adjacency, costs, phase, txn, nbr, longest, prev, end, cur, path>>

Txns == 1..Len(adjacency)

-----------------------------------------------------------------------------
\* The first transaction has no lower neighbour, so the pass starts behind it.
Init ==
  /\ \E input \in Inputs : adjacency = input.adjacency /\ costs = input.costs
  /\ phase = "relax"
  /\ txn = 2
  /\ nbr = 1
  /\ longest = costs
  /\ prev = [i \in Txns |-> 0]
  /\ end = 0
  /\ cur = 0
  /\ path = <<>>

AtNeighbour ==
  phase = "relax" /\ txn <= Len(adjacency) /\ nbr <= Len(adjacency[txn])

Neighbour == adjacency[txn][nbr]

\* Mutant of Improves: the cost of the transaction itself is forgotten.
ImprovesWithoutCost(j) == j < txn /\ longest[j] > longest[txn]

Improves(j) == j < txn /\ longest[j] + costs[txn] > longest[txn]

Relax ==
  /\ AtNeighbour
  /\ Improves(Neighbour)
  /\ longest' = [longest EXCEPT ![txn] = longest[Neighbour] + costs[txn]]
  /\ prev' = [prev EXCEPT ![txn] = Neighbour]
  /\ nbr' = nbr + 1
  /\ UNCHANGED <<adjacency, costs, phase, txn, end, cur, path>>

Skip ==
  /\ AtNeighbour
  /\ ~Improves(Neighbour)
  /\ nbr' = nbr + 1
  /\ UNCHANGED <<adjacency, costs, phase, txn, longest, prev, end, cur, path>>

NextTxn ==
  /\ phase = "relax"
  /\ txn <= Len(adjacency)
  /\ nbr > Len(adjacency[txn])
  /\ txn' = txn + 1
  /\ nbr' = 1
  /\ UNCHANGED <<adjacency, costs, phase, longest, prev, end, cur, path>>

\* Mutant of IsEnd: the first of several best ends.
IsFirstEnd(e) ==
  /\ \A i \in Txns : longest[i] <= longest[e]
  /\ \A i \in 1..(e - 1) : longest[i] < longest[e]

\* max_by_key: the last of several best ends.
IsEnd(e) ==
  /\ \A i \in Txns : longest[i] <= longest[e]
  /\ \A i \in (e + 1)..Len(adjacency) : longest[i] < longest[e]

ChooseEnd(e) ==
  /\ phase = "relax"
  /\ txn > Len(adjacency)
  /\ IsEnd(e)
  /\ end' = e
  /\ cur' = e
  /\ phase' = "walk"
  /\ UNCHANGED <<adjacency, costs, txn, nbr, longest, prev, path>>

\* The early return for a graph without transactions.
ReturnEmpty ==
  /\ phase = "relax"
  /\ adjacency = <<>>
  /\ phase' = "done"
  /\ UNCHANGED <<adjacency, costs, txn, nbr, longest, prev, end, cur, path>>

StepBack ==
  /\ phase = "walk"
  /\ cur # 0
  /\ path' = Append(path, cur)
  /\ cur' = prev[cur]
  /\ UNCHANGED <<adjacency, costs, phase, txn, nbr, longest, prev, end>>

\* Mutant of ReturnPath: the walk's order is kept.
ReturnPathBackwards ==
  /\ phase = "walk"
  /\ cur = 0
  /\ phase' = "done"
  /\ UNCHANGED <<adjacency, costs, txn, nbr, longest, prev, end, cur, path>>

ReturnPath ==
  /\ phase = "walk"
  /\ cur = 0
  /\ path' = Reverse(path)
  /\ phase' = "done"
  /\ UNCHANGED <<adjacency, costs, txn, nbr, longest, prev, end, cur>>

Next ==
  \/ Relax
  \/ Skip
  \/ NextTxn
  \/ \E e \in Txns : ChooseEnd(e)
  \/ ReturnEmpty
  \/ StepBack
  \/ ReturnPath

Spec == Init /\ [][Next]_vars

\* The "length" or "weight" of the result.
Weight == IF end = 0 THEN 0 ELSE longest[end]

-----------------------------------------------------------------------------
Adjacent(i, j) == j \in ToSet(adjacency[i])

\* A chain: transactions in ascending order, each in conflict with the next.
IsChain(chain) ==
  \A k \in 1..(Len(chain) - 1) :
    chain[k] < chain[k + 1] /\ Adjacent(chain[k], chain[k + 1])

\* The weights of a chain's prefixes, by length, and its own.
PrefixWeights(chain) ==
  LET weight[k \in 0..Len(chain)] ==
        IF k = 0 THEN 0 ELSE weight[k - 1] + costs[chain[k]]
  IN weight

ChainWeight(chain) == PrefixWeights(chain)[Len(chain)]

\* All chains, by enumeration: the reference for the dynamic programming.
Chains ==
  {chain \in UNION {[1..length -> Txns] : length \in Txns} : IsChain(chain)}

HeaviestTo(i) ==
  Max({ChainWeight(chain) : chain \in {c \in Chains : Last(c) = i}})

\* Of the transactions passed, the table holds the weight of the heaviest of
\* all chains that end there.
LongestExact ==
  \A i \in Txns : i < txn => longest[i] = HeaviestTo(i)

\* The reported path is a chain in execution order that ends where the walk
\* began: read backwards from a table that was filled forwards, it never goes
\* astray.
PathIsChain ==
  (phase = "done" /\ adjacency # <<>>) =>
    /\ path # <<>>
    /\ IsChain(path)
    /\ Last(path) = end

\* The costs of the reported path add up to the reported weight, no chain is
\* heavier, and of several equally heavy ends the report names the last: the
\* answer is the same on every run.
ReportsHeaviest ==
  phase = "done" =>
    /\ ChainWeight(path) = Weight
    /\ \A chain \in Chains : ChainWeight(chain) <= Weight
    /\ \A i \in Txns : HeaviestTo(i) = Weight => i <= end
=============================================================================
