------------------------- MODULE CriticalPathProofs -------------------------
(***************************************************************************)
(* Proofs about CriticalPath, for every graph and all costs: the walk back *)
(* through the table of predecessors never leaves the graph's edges, and   *)
(* what is reported is a chain in execution order.                         *)
(***************************************************************************)
EXTENDS CriticalPath, SequenceFacts

\* The graph is one of those the function is called with.
GraphInv == IsWeightedGraph([adjacency |-> adjacency, costs |-> costs])

\* The positions of the two loops, and the tables' ranges.
TablesInv ==
  /\ txn \in Nat \ {0}
  /\ nbr \in Nat \ {0}
  /\ longest \in [Txns -> Nat]
  /\ prev \in [Txns -> 0..Len(adjacency)]

\* A recorded predecessor comes before its transaction and conflicts with it.
PredecessorInv ==
  \A i \in Txns : prev[i] # 0 => prev[i] < i /\ Adjacent(prev[i], i)

\* The walk has followed predecessors from the end to where it stands.
WalkInv ==
  /\ phase \in {"relax", "walk", "done"}
  /\ phase = "relax" => path = <<>>
  /\ phase = "walk" =>
       /\ end \in Txns
       /\ cur \in 0..Len(adjacency)
       /\ path \in Seq(Txns)
       /\ path = <<>> => cur = end
       /\ path # <<>> => path[1] = end /\ cur = prev[path[Len(path)]]
       /\ \A k \in 1..(Len(path) - 1) : path[k + 1] = prev[path[k]]

PathInv == GraphInv /\ TablesInv /\ PredecessorInv /\ WalkInv /\ PathIsChain

-----------------------------------------------------------------------------
LEMMA GraphShape ==
  ASSUME GraphInv
  PROVE  /\ Len(adjacency) \in Nat
         /\ DOMAIN adjacency = Txns
         /\ \A i \in Txns : adjacency[i] \in Seq(Txns)
         /\ \A i, j \in Txns : Adjacent(i, j) => i # j /\ Adjacent(j, i)
<1>1. adjacency \in Seq(Seq(Txns))
  BY DEF GraphInv, IsWeightedGraph, Txns
<1>2. Len(adjacency) \in Nat /\ DOMAIN adjacency = Txns
  BY <1>1, LenProperties DEF Txns
<1>3. \A i \in Txns : adjacency[i] \in Seq(Txns)
  BY <1>1, <1>2, ElementOfSeq DEF Txns
<1>4. \A i, j \in Txns : Adjacent(i, j) => i # j /\ Adjacent(j, i)
  BY <1>2 DEF GraphInv, IsWeightedGraph, Adjacent
<1> QED BY <1>2, <1>3, <1>4

LEMMA PathInit == Init => PathInv
<1> SUFFICES ASSUME Init PROVE PathInv
  OBVIOUS
<1>1. PICK input \in Inputs : adjacency = input.adjacency /\ costs = input.costs
  BY DEF Init
<1>2. IsWeightedGraph(input)
  BY InputsAssumption
<1>3. GraphInv
  BY <1>1, <1>2 DEF GraphInv, IsWeightedGraph
<1>4. Len(adjacency) \in Nat /\ costs \in [Txns -> Nat]
  <2>1. costs \in Seq(Nat) /\ Len(costs) = Len(adjacency)
    BY <1>3 DEF GraphInv, IsWeightedGraph
  <2> QED BY <1>3, <2>1, GraphShape, LenProperties DEF Txns
<1>5. TablesInv
  BY <1>4 DEF Init, TablesInv, Txns
<1>6. PredecessorInv /\ WalkInv /\ PathIsChain
  BY DEF Init, PredecessorInv, WalkInv, PathIsChain
<1> QED BY <1>3, <1>5, <1>6 DEF PathInv

\* The neighbour a pass looks at is a transaction adjacent to it.
LEMMA NeighbourShape ==
  ASSUME PathInv, AtNeighbour
  PROVE  /\ txn \in Txns
         /\ Neighbour \in Txns
         /\ Adjacent(txn, Neighbour)
         /\ Adjacent(Neighbour, txn)
<1>1. txn \in Txns /\ nbr \in 1..Len(adjacency[txn])
  <2>1. txn \in Txns
    BY GraphShape DEF PathInv, TablesInv, AtNeighbour, Txns
  <2>2. adjacency[txn] \in Seq(Txns)
    BY <2>1, GraphShape DEF PathInv
  <2>3. Len(adjacency[txn]) \in Nat
    BY <2>2, LenProperties
  <2> QED BY <2>1, <2>3 DEF PathInv, TablesInv, AtNeighbour
<1>2. adjacency[txn] \in Seq(Txns)
  BY <1>1, GraphShape DEF PathInv
<1>3. Neighbour \in Txns /\ Neighbour \in ToSet(adjacency[txn])
  BY <1>1, <1>2, ElementOfSeq, ToSetMember DEF Neighbour
<1> QED BY <1>1, <1>3, GraphShape DEF PathInv, Adjacent

LEMMA RelaxKeeps == PathInv /\ Relax => PathInv'
<1> SUFFICES ASSUME PathInv, Relax PROVE PathInv'
  OBVIOUS
<1>1. /\ txn \in Txns /\ Neighbour \in Txns /\ Neighbour < txn
      /\ Adjacent(Neighbour, txn)
  BY NeighbourShape DEF Relax, Improves
<1>2. GraphInv' /\ Txns' = Txns
  BY DEF PathInv, GraphInv, Relax, Txns
<1>3. TablesInv'
  <2>1. longest[Neighbour] + costs[txn] \in Nat
    <3>1. costs \in Seq(Nat) /\ Len(costs) = Len(adjacency)
      BY DEF PathInv, GraphInv, IsWeightedGraph
    <3>2. costs[txn] \in Nat
      BY <1>1, <3>1, ElementOfSeq DEF Txns
    <3> QED BY <1>1, <3>2 DEF PathInv, TablesInv
  <2> QED BY <1>1, <1>2, <2>1 DEF PathInv, TablesInv, Relax, Txns
<1>4. PredecessorInv'
  BY <1>1, <1>2 DEF PathInv, TablesInv, PredecessorInv, Relax, Adjacent
<1>5. WalkInv' /\ PathIsChain'
  BY DEF PathInv, WalkInv, PathIsChain, Relax, AtNeighbour
<1> QED BY <1>2, <1>3, <1>4, <1>5 DEF PathInv

\* The steps that change neither the graph nor the tables.
LEMMA TablesKept ==
  ASSUME PathInv, UNCHANGED <<adjacency, costs, longest, prev>>,
         txn' \in Nat \ {0}, nbr' \in Nat \ {0}
  PROVE  GraphInv' /\ TablesInv' /\ PredecessorInv'
BY DEF PathInv, GraphInv, TablesInv, PredecessorInv, Adjacent, Txns

LEMMA StepBackKeeps == PathInv /\ StepBack => PathInv'
<1> SUFFICES ASSUME PathInv, StepBack PROVE PathInv'
  OBVIOUS
<1>1. /\ cur \in Txns /\ end \in Txns /\ path \in Seq(Txns)
      /\ prev[cur] \in 0..Len(adjacency)
      /\ Len(path) \in Nat
  BY LenProperties, GraphShape DEF PathInv, WalkInv, TablesInv, StepBack, Txns
<1>2. /\ path' \in Seq(Txns) /\ path' # <<>>
      /\ Len(path') = Len(path) + 1
      /\ \A k \in 1..Len(path) : path'[k] = path[k]
      /\ path'[Len(path) + 1] = cur
  <2>1. path' = Append(path, cur)
    BY DEF StepBack
  <2> QED BY <1>1, <2>1, AppendProperties
<1>3. GraphInv' /\ TablesInv' /\ PredecessorInv'
  BY TablesKept DEF StepBack, PathInv, TablesInv
<1>4. WalkInv'
  <2>1. path'[1] = end
    <3>1. CASE path = <<>>
      BY <1>2, <3>1 DEF PathInv, WalkInv, StepBack
    <3>2. CASE path # <<>>
      BY <1>1, <1>2, <3>2 DEF PathInv, WalkInv, StepBack
    <3> QED BY <3>1, <3>2
  <2>2. ASSUME NEW k \in 1..Len(path) PROVE path'[k + 1] = prev[path'[k]]
    <3>1. CASE k = Len(path)
      BY <1>1, <1>2, <3>1 DEF PathInv, WalkInv, StepBack
    <3>2. CASE k < Len(path)
      <4>1. k \in 1..(Len(path) - 1) /\ k + 1 \in 1..Len(path)
        BY <1>1, <3>2
      <4>2. path[k + 1] = prev[path[k]]
        BY <4>1 DEF PathInv, WalkInv, StepBack
      <4> QED BY <1>2, <4>1, <4>2
    <3> QED BY <1>1, <3>1, <3>2
  <2>3. /\ UNCHANGED <<adjacency, phase, prev, end>> /\ phase = "walk"
        /\ cur' = prev[cur] /\ Txns' = Txns
    BY DEF StepBack, Txns
  <2> QED BY <1>1, <1>2, <2>1, <2>2, <2>3 DEF WalkInv
<1>5. PathIsChain'
  BY DEF StepBack, PathIsChain
<1> QED BY <1>3, <1>4, <1>5 DEF PathInv

\* Read the other way round, the steps through the table are a chain.
LEMMA ReturnPathKeeps == PathInv /\ ReturnPath => PathInv'
<1> SUFFICES ASSUME PathInv, ReturnPath PROVE PathInv'
  OBVIOUS
<1>1. /\ path \in Seq(Txns) /\ end \in Txns /\ cur = 0
      /\ Len(adjacency) \in Nat /\ Len(path) \in Nat
      /\ \A k \in 1..(Len(path) - 1) : path[k + 1] = prev[path[k]]
  BY LenProperties, GraphShape DEF PathInv, WalkInv, ReturnPath
<1>2. path # <<>> /\ path[1] = end /\ Len(path) > 0
  <2>1. path # <<>>
    BY <1>1 DEF PathInv, WalkInv, ReturnPath, Txns
  <2> QED BY <1>1, <2>1, EmptySeq DEF PathInv, WalkInv, ReturnPath
<1>3. /\ Len(path') = Len(path)
      /\ \A k \in 1..Len(path) : path'[k] = path[Len(path) - k + 1]
      /\ path' # <<>>
  <2>1. path' = [k \in 1..Len(path) |-> path[(Len(path) - k) + 1]]
    BY DEF ReturnPath, Reverse
  <2>2. path' \in Seq(Txns) /\ Len(path') = Len(path)
    <3>1. \A k \in 1..Len(path) : path[(Len(path) - k) + 1] \in Txns
      BY <1>1, ElementOfSeq
    <3> QED BY <1>1, <2>1, <3>1
  <2> QED BY <1>1, <1>2, <2>1, <2>2
<1>4. ASSUME NEW k \in 1..(Len(path) - 1)
      PROVE  path'[k] < path'[k + 1] /\ Adjacent(path'[k], path'[k + 1])
  <2> DEFINE m == Len(path) - k
  <2>1. m \in 1..(Len(path) - 1) /\ path'[k] = path[m + 1] /\ path'[k + 1] = path[m]
    BY <1>1, <1>3
  <2>2. path[m] \in Txns /\ path[m + 1] \in Txns /\ path[m + 1] = prev[path[m]]
    BY <1>1, <2>1, ElementOfSeq
  <2>3. prev[path[m]] # 0
    BY <2>2 DEF Txns
  <2> QED BY <2>1, <2>2, <2>3 DEF PathInv, PredecessorInv
<1>5. Last(path') = end
  BY <1>1, <1>2, <1>3 DEF Last
<1>6. UNCHANGED <<adjacency, costs, txn, nbr, longest, prev, end>> /\ phase' = "done"
  BY DEF ReturnPath
<1>7. PathIsChain'
  BY <1>1, <1>3, <1>4, <1>5, <1>6 DEF PathIsChain, IsChain, Adjacent
<1>8. GraphInv' /\ TablesInv' /\ PredecessorInv'
  BY <1>6, TablesKept DEF PathInv, TablesInv
<1>9. WalkInv'
  BY <1>6 DEF WalkInv
<1> QED BY <1>7, <1>8, <1>9 DEF PathInv

LEMMA OtherStepsKeep ==
  PathInv /\ (Skip \/ NextTxn \/ (\E e \in Txns : ChooseEnd(e)) \/ ReturnEmpty
                \/ UNCHANGED vars)
    => PathInv'
<1> SUFFICES ASSUME PathInv, Skip \/ NextTxn \/ (\E e \in Txns : ChooseEnd(e))
                               \/ ReturnEmpty \/ UNCHANGED vars
             PROVE  PathInv'
  OBVIOUS
<1>1. UNCHANGED <<adjacency, costs, longest, prev, path>>
  BY DEF Skip, NextTxn, ChooseEnd, ReturnEmpty, vars
<1>2. txn' \in Nat \ {0} /\ nbr' \in Nat \ {0}
  BY DEF PathInv, TablesInv, Skip, NextTxn, ChooseEnd, ReturnEmpty, vars
<1>3. GraphInv' /\ TablesInv' /\ PredecessorInv'
  BY <1>1, <1>2, TablesKept
<1>4. WalkInv'
  <2>1. CASE Skip \/ NextTxn \/ ReturnEmpty
    BY <2>1 DEF PathInv, WalkInv, Skip, NextTxn, ReturnEmpty, AtNeighbour
  <2>2. ASSUME NEW e \in Txns, ChooseEnd(e) PROVE WalkInv'
    <3>1. /\ path' = <<>> /\ end' = e /\ cur' = e /\ phase' = "walk"
          /\ UNCHANGED adjacency
      BY <2>2 DEF PathInv, WalkInv, ChooseEnd
    <3>2. e \in 0..Len(adjacency) /\ <<>> \in Seq(Txns) /\ Len(<<>>) = 0
      BY DEF Txns
    <3> QED BY <3>1, <3>2 DEF WalkInv, Txns
  <2>3. CASE UNCHANGED vars
    BY <2>3 DEF PathInv, WalkInv, vars, Txns
  <2> QED BY <2>1, <2>2, <2>3
<1>5. PathIsChain'
  <2>1. CASE UNCHANGED vars
    BY <2>1 DEF PathInv, PathIsChain, IsChain, Adjacent, vars
  <2>2. CASE ~UNCHANGED vars
    BY <2>2 DEF PathIsChain, Skip, NextTxn, ChooseEnd, ReturnEmpty, AtNeighbour
  <2> QED BY <2>1, <2>2
<1> QED BY <1>3, <1>4, <1>5 DEF PathInv

\* For every graph and all costs: the reported path is a chain of conflicting
\* transactions in execution order, which ends where the walk began.
THEOREM ReportedPathIsChain == Spec => []PathIsChain
<1>1. PathInv /\ [Next]_vars => PathInv'
  BY RelaxKeeps, StepBackKeeps, ReturnPathKeeps, OtherStepsKeep DEF Next
<1>2. PathInv => PathIsChain
  BY DEF PathInv
<1> QED BY PathInit, <1>1, <1>2, PTL DEF Spec

-----------------------------------------------------------------------------
\* The recursion of PrefixWeights is well founded: its equations hold.
LEMMA PrefixWeightsShape ==
  ASSUME GraphInv, NEW chain \in Seq(Txns)
  PROVE  /\ Len(chain) \in Nat
         /\ costs \in [Txns -> Nat]
         /\ PrefixWeights(chain) \in [0..Len(chain) -> Nat]
         /\ PrefixWeights(chain)[0] = 0
         /\ \A k \in 1..Len(chain) :
              /\ chain[k] \in Txns
              /\ PrefixWeights(chain)[k]
                   = PrefixWeights(chain)[k - 1] + costs[chain[k]]
<1> DEFINE n == Len(chain)
           Weights(w) == [k \in 0..n |->
                            IF k = 0 THEN 0 ELSE w[k - 1] + costs[chain[k]]]
           step == [k \in 1..n |-> [v \in Nat |-> v + costs[chain[k]]]]
           result == PrefixWeights(chain)
<1>1. n \in Nat /\ \A k \in 1..n : chain[k] \in Txns
  BY LenProperties, ElementOfSeq
<1>2. costs \in [Txns -> Nat]
  <2>1. costs \in Seq(Nat) /\ Len(costs) = Len(adjacency)
    BY DEF GraphInv, IsWeightedGraph
  <2> QED BY <2>1, LenProperties DEF Txns
<1>3. result = CHOOSE w : w = Weights(w)
  BY DEF PrefixWeights
<1> HIDE DEF n, result
<1>4. step \in [1..n -> [Nat -> Nat]]
  BY <1>1, <1>2
<1>5. PICK after : Iterates(after, Nat, 0, n, step)
  <2>1. 0 \in Nat
    OBVIOUS
  <2> HIDE DEF step
  <2> QED BY <1>1, <1>4, <2>1, IterationExists
<1>6. \A k \in 1..n : after[k] = after[k - 1] + costs[chain[k]]
  <2> SUFFICES ASSUME NEW k \in 1..n
               PROVE  after[k] = after[k - 1] + costs[chain[k]]
    OBVIOUS
  <2>1. k - 1 \in 0..n
    BY <1>1
  <2>2. after[k - 1] \in Nat
    BY <1>5, <2>1 DEF Iterates
  <2> QED BY <1>5, <2>2 DEF Iterates
<1> HIDE DEF step
<1>7. after = Weights(after)
  BY <1>5, <1>6 DEF Iterates
<1>8. result = Weights(result)
  <2> HIDE DEF Weights
  <2> QED BY <1>3, <1>7
<1>9. result[0] = 0 /\ \A k \in 1..n : result[k] = result[k - 1] + costs[chain[k]]
  BY <1>1, <1>8
<1>10. DOMAIN result = 0..n
  BY <1>8
<1>11. \A k \in 0..n : result[k] = after[k]
  <2>1. \A k \in 1..n : result[k - 1] = after[k - 1] => result[k] = after[k]
    BY <1>6, <1>9
  <2>2. result[0] = after[0]
    BY <1>5, <1>9 DEF Iterates
  <2>3. n \in Nat
    BY <1>1
  <2> HIDE DEF Weights
  <2>4. StepsAgree(result, after, n)
    BY <2>1, <2>2, <2>3 DEF StepsAgree
  <2> QED BY <2>3, <2>4, IterationAgrees
<1>12. result = after
  BY <1>5, <1>8, <1>10, <1>11 DEF Iterates
<1> QED BY <1>1, <1>2, <1>5, <1>6, <1>12 DEF n, result, Iterates

\* Pushing a transaction on a chain adds its cost.
LEMMA WeightOfAppend ==
  ASSUME GraphInv, NEW chain \in Seq(Txns), NEW i \in Txns
  PROVE  ChainWeight(Append(chain, i)) = ChainWeight(chain) + costs[i]
<1> DEFINE longer == Append(chain, i)
           n == Len(chain)
           one == PrefixWeights(longer)
           other == PrefixWeights(chain)
<1>1. /\ longer \in Seq(Txns) /\ Len(longer) = n + 1
      /\ \A k \in 1..n : longer[k] = chain[k]
      /\ longer[n + 1] = i
  BY AppendProperties
<1>2. /\ n \in Nat /\ other[0] = 0
      /\ \A k \in 1..n : other[k] = other[k - 1] + costs[chain[k]]
  BY PrefixWeightsShape
<1>3. /\ one[0] = 0
      /\ \A k \in 1..(n + 1) : one[k] = one[k - 1] + costs[longer[k]]
  BY <1>1, PrefixWeightsShape
<1>4. one[n + 1] = one[n] + costs[i]
  <2>1. n + 1 \in 1..(n + 1) /\ (n + 1) - 1 = n
    BY <1>2
  <2> QED BY <1>1, <1>3, <2>1
<1>5. \A k \in 1..n : one[k - 1] = other[k - 1] => one[k] = other[k]
  <2>1. 1..n \subseteq 1..(n + 1)
    BY <1>2
  <2> QED BY <1>1, <1>2, <1>3, <2>1
<1> HIDE DEF longer, n, one, other
<1>6. one[n] = other[n]
  <2>1. one[0] = other[0]
    BY <1>2, <1>3
  <2>2. n \in Nat
    BY <1>2
  <2>3. \A k \in 0..n : one[k] = other[k]
    <3>1. StepsAgree(one, other, n)
      BY <1>5, <2>1, <2>2 DEF StepsAgree
    <3> QED BY <2>2, <3>1, IterationAgrees
  <2> QED BY <2>2, <2>3
<1> QED BY <1>1, <1>4, <1>6 DEF ChainWeight, longer, n, one, other

\* Read backwards, a chain has the same weight: a prefix of the one and a
\* prefix of the other make the whole.
LEMMA WeightOfReverse ==
  ASSUME GraphInv, NEW chain \in Seq(Txns)
  PROVE  Reverse(chain) \in Seq(Txns) /\ ChainWeight(Reverse(chain)) = ChainWeight(chain)
<1> DEFINE back == Reverse(chain)
           n == Len(chain)
           one == PrefixWeights(back)
           other == PrefixWeights(chain)
<1>1. /\ n \in Nat /\ other[0] = 0 /\ other \in [0..n -> Nat]
      /\ costs \in [Txns -> Nat]
      /\ \A k \in 1..n : /\ chain[k] \in Txns
                         /\ other[k] = other[k - 1] + costs[chain[k]]
  BY PrefixWeightsShape
<1>2. /\ back \in Seq(Txns) /\ Len(back) = n
      /\ \A k \in 1..n : back[k] = chain[(n - k) + 1]
  <2>1. back = [k \in 1..n |-> chain[(n - k) + 1]]
    BY DEF Reverse
  <2>2. \A k \in 1..n : chain[(n - k) + 1] \in Txns
    BY <1>1
  <2> QED BY <1>1, <2>1, <2>2
<1>3. /\ one[0] = 0 /\ one \in [0..n -> Nat]
      /\ \A k \in 1..n : one[k] = one[k - 1] + costs[back[k]]
  BY <1>2, PrefixWeightsShape
<1> HIDE DEF back, n, one, other
<1> DEFINE Good == {k \in 0..n : one[k] + other[n - k] = other[n]}
<1>4. 0 \in Good
  <2>1. n - 0 = n /\ n \in 0..n /\ 0 \in 0..n
    BY <1>1
  <2> QED BY <1>1, <1>3, <2>1
<1>5. ASSUME NEW k \in 0..(n - 1), k \in Good PROVE k + 1 \in Good
  <2>1. /\ k + 1 \in 1..n /\ k + 1 \in 0..n /\ (k + 1) - 1 = k
        /\ n - k \in 1..n /\ (n - k) - 1 = n - (k + 1)
        /\ (n - (k + 1)) + 1 = n - k
        /\ k \in 0..n /\ n - (k + 1) \in 0..n
    BY <1>1
  <2>2. one[k + 1] = one[k] + costs[chain[n - k]]
    <3>1. one[k + 1] = one[(k + 1) - 1] + costs[back[k + 1]]
      BY <1>3, <2>1
    <3>2. back[k + 1] = chain[(n - (k + 1)) + 1]
      BY <1>2, <2>1
    <3> QED BY <2>1, <3>1, <3>2
  <2>3. other[n - k] = other[n - (k + 1)] + costs[chain[n - k]]
    BY <1>1, <2>1
  <2>4. /\ one[k] \in Nat /\ other[n - (k + 1)] \in Nat
        /\ costs[chain[n - k]] \in Nat
    BY <1>1, <1>3, <2>1
  <2>5. one[k] + other[n - k] = other[n]
    BY <1>5
  <2>6. one[k + 1] + other[n - (k + 1)] = other[n]
    BY <2>2, <2>3, <2>4, <2>5
  <2> QED BY <2>1, <2>6
<1> HIDE DEF Good
<1>6. n \in Good
  <2>1. 0..n \subseteq Good
    <3>1. Inductive(Good, n)
      BY <1>1, <1>4, <1>5 DEF Inductive
    <3> QED BY <1>1, <3>1, InductionTo
  <2> QED BY <1>1, <2>1
<1>7. one[n] = other[n]
  <2>1. one[n] + other[n - n] = other[n]
    BY <1>6 DEF Good
  <2>2. n - n = 0 /\ n \in 0..n
    BY <1>1
  <2> QED BY <1>1, <1>3, <2>1, <2>2
<1> QED BY <1>2, <1>7 DEF ChainWeight, back, n, one, other

-----------------------------------------------------------------------------
\* An entry is its transaction's cost on top of its predecessor's entry, and
\* transactions not reached yet have no predecessor.
Recorded ==
  /\ \A i \in Txns : longest[i] = costs[i] + (IF prev[i] = 0 THEN 0 ELSE longest[prev[i]])
  /\ \A i \in Txns : i > txn => prev[i] = 0

\* No lower neighbour looked at so far would give a heavier chain.
Relaxed ==
  \A i \in Txns : \A p \in 1..Len(adjacency[i]) :
    (i < txn \/ (i = txn /\ p < nbr)) /\ adjacency[i][p] < i
      => longest[adjacency[i][p]] + costs[i] <= longest[i]

\* The end was chosen from the finished table, and the costs collected on the
\* way back, with what is still ahead, are the weight of that end.
Collected ==
  /\ phase = "relax" => end = 0
  /\ phase # "relax" /\ adjacency = <<>> => end = 0 /\ path = <<>>
  /\ phase # "relax" /\ adjacency # <<>> =>
       /\ txn > Len(adjacency)
       /\ end \in Txns
       /\ IsEnd(end)
       /\ path \in Seq(Txns)
  /\ phase = "walk" =>
       ChainWeight(path) + (IF cur = 0 THEN 0 ELSE longest[cur]) = longest[end]
  /\ phase = "done" /\ adjacency # <<>> => ChainWeight(path) = longest[end]

HeaviestInv == PathInv /\ Recorded /\ Relaxed /\ Collected

LEMMA CostShape == GraphInv => costs \in [Txns -> Nat]
<1>1. GraphInv => costs \in Seq(Nat) /\ Len(costs) = Len(adjacency)
  BY DEF GraphInv, IsWeightedGraph
<1> QED BY <1>1, LenProperties DEF Txns

\* The weight of a chain without transactions.
LEMMA WeightOfEmpty == GraphInv => ChainWeight(<<>>) = 0
<1> SUFFICES ASSUME GraphInv PROVE ChainWeight(<<>>) = 0
  OBVIOUS
<1>1. <<>> \in Seq(Txns) /\ Len(<<>>) = 0
  BY EmptySeq
<1>2. PrefixWeights(<<>>)[0] = 0
  BY <1>1, PrefixWeightsShape
<1> QED BY <1>1, <1>2 DEF ChainWeight

\* The chains of the reference, as lists.
LEMMA ChainShape ==
  ASSUME GraphInv, NEW chain \in Chains
  PROVE  /\ chain \in Seq(Txns) /\ Len(chain) \in Txns
         /\ Last(chain) = chain[Len(chain)]
         /\ IsChain(chain)
<1>1. PICK length \in Txns : chain \in [1..length -> Txns]
  BY DEF Chains
<1>2. length \in Nat
  BY DEF Txns
<1>3. chain \in Seq(Txns) /\ Len(chain) = length
  BY <1>1, <1>2
<1> QED BY <1>3 DEF Chains, Last

\* A list is one of them if it is ascending along edges and short enough.
LEMMA ChainIn ==
  ASSUME GraphInv, NEW chain \in Seq(Txns), Len(chain) \in Txns, IsChain(chain)
  PROVE  chain \in Chains
<1>1. chain \in [1..Len(chain) -> Txns]
  BY LenProperties
<1> QED BY <1>1 DEF Chains

-----------------------------------------------------------------------------
\* Every entry is the weight of some chain that ends there: with the
\* predecessors, the table can be read back to one.
LEMMA EntryWitnessed ==
  ASSUME HeaviestInv, NEW i \in Txns
  PROVE  \E chain \in Chains : Last(chain) = i /\ ChainWeight(chain) = longest[i]
<1> DEFINE Reaches(chain, t) ==
             /\ chain \in Seq(Txns) /\ Len(chain) \in 1..t
             /\ chain[Len(chain)] = t
             /\ IsChain(chain)
             /\ ChainWeight(chain) = longest[t]
           Bad == {t \in Txns : ~ \E chain : Reaches(chain, t)}
<1>0. /\ GraphInv /\ TablesInv /\ PredecessorInv /\ Recorded
      /\ Len(adjacency) \in Nat /\ Txns \subseteq Nat \ {0}
      /\ costs \in [Txns -> Nat]
  BY GraphShape, CostShape DEF HeaviestInv, PathInv, Txns
<1>1. ASSUME Bad # {} PROVE FALSE
  <2>1. Bad \subseteq Nat
    BY <1>0
  <2>2. PICK t \in Bad : \A u \in Bad : t <= u
    <3> HIDE DEF Bad
    <3> QED BY <1>1, <2>1, LeastNatural
  <2>3. /\ t \in Txns /\ t \in Nat \ {0} /\ prev[t] \in 0..Len(adjacency)
        /\ costs[t] \in Nat
    BY <1>0, <2>2 DEF TablesInv
  <2>4. CASE prev[t] = 0
    <3> DEFINE chain == Append(<<>>, t)
    <3>1. /\ chain \in Seq(Txns) /\ Len(chain) = 1 /\ chain[1] = t
      BY <2>3, EmptySeq, AppendProperties
    <3>2. ChainWeight(chain) = longest[t]
      <4>1. <<>> \in Seq(Txns)
        BY EmptySeq
      <4>2. ChainWeight(chain) = ChainWeight(<<>>) + costs[t]
        BY <1>0, <2>3, <4>1, WeightOfAppend
      <4> QED BY <1>0, <2>3, <2>4, <4>2, WeightOfEmpty DEF Recorded
    <3>3. IsChain(chain)
      BY <3>1 DEF IsChain
    <3>4. Reaches(chain, t)
      BY <2>3, <3>1, <3>2, <3>3
    <3> QED BY <2>2, <3>4
  <2>5. CASE prev[t] # 0
    <3>1. PICK j : j = prev[t]
      OBVIOUS
    <3>2. j \in Txns /\ j < t /\ Adjacent(j, t) /\ longest[t] = costs[t] + longest[j]
      BY <1>0, <2>3, <2>5, <3>1 DEF PredecessorInv, Recorded, Txns
    <3>3. j \notin Bad
      BY <2>2, <2>3, <3>2, <1>0
    <3>4. PICK front : Reaches(front, j)
      BY <3>2, <3>3
    <3> DEFINE chain == Append(front, t)
               n == Len(front)
    <3>5. n \in 1..j /\ n \in Nat /\ front[n] = j
      BY <3>4, <3>2, <1>0
    <3>6. /\ chain \in Seq(Txns) /\ Len(chain) = n + 1
          /\ \A k \in 1..n : chain[k] = front[k]
          /\ chain[n + 1] = t
      BY <2>3, <3>4, AppendProperties
    <3>7. ChainWeight(chain) = longest[t]
      <4>1. ChainWeight(chain) = ChainWeight(front) + costs[t]
        BY <1>0, <2>3, <3>4, WeightOfAppend
      <4>2. ChainWeight(front) = longest[j] /\ longest[j] \in Nat
        BY <1>0, <3>2, <3>4 DEF TablesInv
      <4> QED BY <2>3, <3>2, <4>1, <4>2
    <3> HIDE DEF chain, n
    <3>8. IsChain(chain)
      <4>1. ASSUME NEW k \in 1..((n + 1) - 1)
            PROVE  chain[k] < chain[k + 1] /\ Adjacent(chain[k], chain[k + 1])
        <5>1. CASE k = n
          BY <3>2, <3>5, <3>6, <5>1
        <5>2. CASE k # n
          <6>1. k \in 1..(n - 1) /\ k \in 1..n /\ k + 1 \in 1..n
            BY <3>5, <5>2
          <6>2. front[k] < front[k + 1] /\ Adjacent(front[k], front[k + 1])
            BY <3>4, <6>1 DEF IsChain, n
          <6> QED BY <3>6, <6>1, <6>2
        <5> QED BY <5>1, <5>2
      <4> QED BY <3>6, <4>1 DEF IsChain
    <3>9. n + 1 \in 1..t
      BY <1>0, <2>3, <3>2, <3>5
    <3>10. Reaches(chain, t)
      BY <3>6, <3>7, <3>8, <3>9
    <3> QED BY <2>2, <3>10
  <2> QED BY <2>4, <2>5
<1>2. PICK chain : Reaches(chain, i)
  BY <1>1
<1>3. Len(chain) \in Txns
  BY <1>0, <1>2 DEF Txns
<1>4. chain \in Chains
  BY <1>0, <1>2, <1>3, ChainIn
<1> QED BY <1>2, <1>4 DEF Last

\* A chain ascends up to its last transaction.
LEMMA ChainBelowLast ==
  ASSUME GraphInv, NEW chain \in Chains, NEW k \in 1..Len(chain)
  PROVE  chain[k] \in Txns /\ chain[k] <= Last(chain)
<1> DEFINE n == Len(chain)
           Good == {d \in 0..(n - 1) : chain[n - d] <= chain[n]}
<1>1. /\ chain \in Seq(Txns) /\ n \in Nat \ {0} /\ Txns \subseteq Nat
      /\ Last(chain) = chain[n]
      /\ IsChain(chain)
  BY ChainShape DEF Txns
<1>2. \A p \in 1..n : chain[p] \in Txns /\ chain[p] \in Nat
  BY <1>1, ElementOfSeq
<1>3. k \in 1..n
  OBVIOUS
<1>4. \A p \in 1..(n - 1) : chain[p] < chain[p + 1]
  BY <1>1 DEF IsChain
<1> HIDE DEF n
<1>5. 0 \in Good
  <2>1. n - 0 = n /\ 0 \in 0..(n - 1) /\ chain[n] \in Nat
    BY <1>1, <1>2
  <2> QED BY <2>1
<1>6. ASSUME NEW d \in 0..((n - 1) - 1), d \in Good PROVE d + 1 \in Good
  <2>1. /\ n - (d + 1) \in 1..(n - 1) /\ (n - (d + 1)) + 1 = n - d
        /\ n - (d + 1) \in 1..n /\ n - d \in 1..n /\ n \in 1..n
        /\ d + 1 \in 0..(n - 1)
    BY <1>1
  <2>2. chain[n - (d + 1)] < chain[n - d]
    BY <1>4, <2>1
  <2>3. chain[n - d] <= chain[n]
    BY <1>6
  <2>4. chain[n - (d + 1)] \in Nat /\ chain[n - d] \in Nat /\ chain[n] \in Nat
    BY <1>2, <2>1
  <2>5. chain[n - (d + 1)] <= chain[n]
    BY <2>2, <2>3, <2>4
  <2> QED BY <2>1, <2>5
<1> HIDE DEF Good
<1>7. n - k \in Good
  <2>1. n - 1 \in Nat /\ n - k \in 0..(n - 1)
    BY <1>1, <1>3
  <2>2. 0..(n - 1) \subseteq Good
    <3>1. Inductive(Good, n - 1)
      BY <1>5, <1>6, <2>1 DEF Inductive
    <3> QED BY <2>1, <3>1, InductionTo
  <2> QED BY <2>1, <2>2
<1>8. chain[n - (n - k)] <= chain[n] /\ n - (n - k) = k
  BY <1>1, <1>3, <1>7 DEF Good
<1> QED BY <1>1, <1>2, <1>3, <1>8

\* A transaction that is settled outweighs each lower neighbour by its cost.
LEMMA SettledEdge ==
  ASSUME HeaviestInv, NEW i \in Txns, NEW j \in Txns, i < txn, j < i, Adjacent(j, i)
  PROVE  longest[j] + costs[i] <= longest[i]
<1>1. Adjacent(i, j) /\ adjacency[i] \in Seq(Txns)
  BY GraphShape DEF HeaviestInv, PathInv
<1>2. PICK p \in 1..Len(adjacency[i]) : adjacency[i][p] = j
  BY <1>1, ToSetMember DEF Adjacent
<1> QED BY <1>2 DEF HeaviestInv, Relaxed

\* No chain that ends at a settled transaction outweighs its entry.
LEMMA EntryUpper ==
  ASSUME HeaviestInv, NEW chain \in Chains, Last(chain) < txn
  PROVE  Last(chain) \in Txns /\ ChainWeight(chain) <= longest[Last(chain)]
<1> DEFINE n == Len(chain)
           weight == PrefixWeights(chain)
           Good == {k \in 0..(n - 1) : weight[k + 1] <= longest[chain[k + 1]]}
<1>0. /\ GraphInv /\ TablesInv /\ Recorded
      /\ Txns \subseteq Nat /\ txn \in Nat
  BY DEF HeaviestInv, PathInv, TablesInv, Txns
<1>1. /\ chain \in Seq(Txns) /\ n \in Nat \ {0}
      /\ Last(chain) = chain[n]
      /\ IsChain(chain)
  BY <1>0, ChainShape DEF Txns
<1>2. /\ weight[0] = 0 /\ weight \in [0..n -> Nat]
      /\ costs \in [Txns -> Nat]
      /\ \A k \in 1..n : /\ chain[k] \in Txns
                         /\ weight[k] = weight[k - 1] + costs[chain[k]]
  BY <1>0, <1>1, PrefixWeightsShape
<1>3. \A k \in 1..n : chain[k] \in Txns /\ chain[k] <= chain[n]
  BY <1>0, <1>1, ChainBelowLast
<1>4. \A k \in 1..n : chain[k] < txn
  <2> HIDE DEF n
  <2>1. chain[n] \in Nat /\ chain[n] < txn
    <3>1. n \in 1..n
      BY <1>1
    <3>2. chain[n] \in Txns
      BY <1>3, <3>1
    <3> QED BY <1>0, <1>1, <3>2
  <2>2. \A k \in 1..n : chain[k] \in Nat /\ chain[k] <= chain[n]
    BY <1>0, <1>3
  <2> QED BY <1>0, <2>1, <2>2
<1>5. \A k \in 1..(n - 1) : chain[k] < chain[k + 1] /\ Adjacent(chain[k], chain[k + 1])
  BY <1>1 DEF IsChain
<1>6. \A i \in Txns : longest[i] \in Nat /\ costs[i] \in Nat /\ costs[i] <= longest[i]
  <2> SUFFICES ASSUME NEW i \in Txns
               PROVE  longest[i] \in Nat /\ costs[i] \in Nat /\ costs[i] <= longest[i]
    OBVIOUS
  <2>1. longest[i] \in Nat /\ costs[i] \in Nat /\ prev[i] \in 0..Len(adjacency)
    BY <1>0, <1>2 DEF TablesInv
  <2>2. prev[i] # 0 => prev[i] \in Txns
    BY <1>0, <2>1, GraphShape DEF Txns
  <2>3. prev[i] # 0 => longest[prev[i]] \in Nat
    BY <1>0, <2>2 DEF TablesInv
  <2>4. longest[i] = costs[i] + (IF prev[i] = 0 THEN 0 ELSE longest[prev[i]])
    BY <1>0 DEF Recorded
  <2> QED BY <2>1, <2>3, <2>4
<1> HIDE DEF n, weight
<1>7. 0 \in Good
  <2>1. 1 \in 1..n /\ 0 \in 0..(n - 1) /\ 0 + 1 = 1 /\ 1 - 1 = 0
    BY <1>1
  <2>2. chain[1] \in Txns /\ weight[1] = weight[0] + costs[chain[1]]
    BY <1>2, <2>1
  <2>3. weight[1] <= longest[chain[1]]
    BY <1>2, <1>6, <2>2
  <2> QED BY <2>1, <2>3
<1>8. ASSUME NEW k \in 0..((n - 1) - 1), k \in Good PROVE k + 1 \in Good
  <2>1. /\ k + 1 \in 1..(n - 1) /\ k + 1 \in 1..n /\ k + 2 \in 1..n
        /\ (k + 1) + 1 = k + 2 /\ (k + 2) - 1 = k + 1
        /\ k + 1 \in 0..(n - 1) /\ k + 1 \in 0..n
    BY <1>1
  <2>2. chain[k + 1] < chain[k + 2] /\ Adjacent(chain[k + 1], chain[k + 2])
    BY <1>5, <2>1
  <2>3. chain[k + 1] \in Txns /\ chain[k + 2] \in Txns /\ chain[k + 2] < txn
    BY <1>3, <1>4, <2>1
  <2>4. longest[chain[k + 1]] + costs[chain[k + 2]] <= longest[chain[k + 2]]
    BY <2>2, <2>3, SettledEdge
  <2>5. weight[k + 2] = weight[k + 1] + costs[chain[k + 2]]
    BY <1>2, <2>1
  <2>6. weight[k + 1] <= longest[chain[k + 1]]
    BY <1>8
  <2>7. /\ weight[k + 1] \in Nat /\ longest[chain[k + 1]] \in Nat
        /\ costs[chain[k + 2]] \in Nat /\ longest[chain[k + 2]] \in Nat
    BY <1>2, <1>6, <2>1, <2>3
  <2>8. weight[k + 2] <= longest[chain[k + 2]]
    BY <2>4, <2>5, <2>6, <2>7
  <2> QED BY <2>1, <2>8
<1> HIDE DEF Good
<1>9. n - 1 \in Good
  <2>1. n - 1 \in Nat /\ n - 1 \in 0..(n - 1)
    BY <1>1
  <2>2. 0..(n - 1) \subseteq Good
    <3>1. Inductive(Good, n - 1)
      BY <1>7, <1>8, <2>1 DEF Inductive
    <3> QED BY <2>1, <3>1, InductionTo
  <2> QED BY <2>1, <2>2
<1>10. weight[n] <= longest[chain[n]]
  <2>1. (n - 1) + 1 = n
    BY <1>1
  <2> QED BY <1>9, <2>1 DEF Good
<1>11. n \in 1..n
  BY <1>1
<1> QED BY <1>1, <1>2, <1>10, <1>11 DEF ChainWeight, n, weight

\* Together: the entry of a settled transaction is the weight of the heaviest
\* chain to it.
LEMMA EntryExact ==
  ASSUME HeaviestInv, NEW i \in Txns, i < txn
  PROVE  longest[i] = HeaviestTo(i)
<1> DEFINE weights == {ChainWeight(chain) : chain \in {c \in Chains : Last(c) = i}}
<1>1. longest[i] \in weights
  BY EntryWitnessed
<1>2. GraphInv
  BY DEF HeaviestInv, PathInv
<1>3. ASSUME NEW chain \in Chains, Last(chain) = i
      PROVE  ChainWeight(chain) \in Nat /\ ChainWeight(chain) <= longest[i]
  <2>1. ChainWeight(chain) <= longest[i]
    BY <1>3, EntryUpper
  <2>2. chain \in Seq(Txns)
    BY <1>2, ChainShape
  <2>3. Len(chain) \in 0..Len(chain) /\ PrefixWeights(chain) \in [0..Len(chain) -> Nat]
    BY <1>2, <2>2, PrefixWeightsShape
  <2> QED BY <2>1, <2>3 DEF ChainWeight
<1>4. weights \subseteq Nat /\ \A w \in weights : w <= longest[i]
  BY <1>3
<1> HIDE DEF weights
<1>5. Max(weights) = longest[i]
  BY <1>1, <1>4, MaxIs
<1> QED BY <1>5 DEF HeaviestTo, weights

-----------------------------------------------------------------------------
LEMMA HeaviestInit == Init => HeaviestInv
<1> SUFFICES ASSUME Init PROVE HeaviestInv
  OBVIOUS
<1>1. /\ PathInv /\ GraphInv /\ Len(adjacency) \in Nat /\ Txns \subseteq Nat \ {0}
      /\ costs \in [Txns -> Nat]
  BY PathInit, GraphShape, CostShape DEF PathInv, Txns
<1>2. /\ longest = costs /\ prev = [i \in Txns |-> 0] /\ txn = 2 /\ nbr = 1
      /\ phase = "relax" /\ end = 0 /\ path = <<>>
  BY DEF Init
<1>3. Recorded
  BY <1>1, <1>2 DEF Recorded
<1>4. Relaxed
  <2>1. ASSUME NEW i \in Txns, NEW p \in 1..Len(adjacency[i]),
               i < txn \/ (i = txn /\ p < nbr), adjacency[i][p] < i
        PROVE  FALSE
    <3>1. i = 1
      BY <1>1, <1>2, <2>1
    <3>2. adjacency[i] \in Seq(Txns)
      BY <1>1, GraphShape
    <3>3. adjacency[i][p] \in Nat \ {0}
      BY <1>1, <3>2, ElementOfSeq
    <3> QED BY <2>1, <3>1, <3>3
  <2> QED BY <2>1 DEF Relaxed
<1>5. Collected
  BY <1>2 DEF Collected
<1> QED BY <1>1, <1>3, <1>4, <1>5 DEF HeaviestInv

\* Neither the graph nor the table changes, and the steps of the loop at most
\* pass a neighbour that does not improve: the table's invariants stay.
LEMMA TableKept ==
  ASSUME HeaviestInv, UNCHANGED <<adjacency, costs, longest, prev>>,
         \/ UNCHANGED <<txn, nbr>>
         \/ Skip
         \/ NextTxn
  PROVE  Recorded' /\ Relaxed'
<1>1. /\ txn \in Nat /\ nbr \in Nat /\ Txns \subseteq Nat /\ Txns' = Txns
      /\ Len(adjacency) \in Nat
      /\ \A i \in Txns : adjacency[i] \in Seq(Txns)
      /\ costs \in [Txns -> Nat] /\ longest \in [Txns -> Nat]
  BY GraphShape, CostShape DEF HeaviestInv, PathInv, TablesInv, Txns
<1>2. txn' >= txn /\ txn' \in Nat
  BY <1>1 DEF Skip, NextTxn
<1>3. Recorded'
  BY <1>1, <1>2 DEF HeaviestInv, Recorded
<1>4. ASSUME NEW i \in Txns, NEW p \in 1..Len(adjacency[i]),
             i < txn' \/ (i = txn' /\ p < nbr'), adjacency[i][p] < i
      PROVE  longest[adjacency[i][p]] + costs[i] <= longest[i]
  <2>1. CASE i < txn \/ (i = txn /\ p < nbr)
    BY <1>4, <2>1 DEF HeaviestInv, Relaxed
  <2>2. CASE ~(i < txn \/ (i = txn /\ p < nbr))
    <3>1. Len(adjacency[i]) \in Nat /\ p \in Nat
      BY <1>1, LenProperties
    <3>2. Skip \/ NextTxn
      BY <1>4, <2>2
    <3>3. ~NextTxn
      BY <1>1, <1>4, <2>2, <3>1 DEF NextTxn
    <3>4. Skip /\ i = txn /\ p = nbr
      BY <1>1, <1>4, <2>2, <3>1, <3>2, <3>3 DEF Skip
    <3>5. ~(longest[Neighbour] + costs[txn] > longest[txn]) /\ Neighbour = adjacency[i][p]
      BY <1>4, <3>4 DEF Skip, Improves, Neighbour
    <3>6. adjacency[i][p] \in Txns
      BY <1>1, ElementOfSeq
    <3>7. /\ longest[adjacency[i][p]] \in Nat /\ costs[i] \in Nat
          /\ longest[i] \in Nat
      BY <1>1, <3>6
    <3> QED BY <3>4, <3>5, <3>7
  <2> QED BY <2>1, <2>2
<1>5. Relaxed'
  BY <1>1, <1>4 DEF Relaxed
<1> QED BY <1>3, <1>5

\* A better predecessor settles the neighbour it comes from, and disturbs no
\* entry that was recorded or settled before.
LEMMA HeaviestRelax == HeaviestInv /\ Relax => HeaviestInv'
<1> SUFFICES ASSUME HeaviestInv, Relax PROVE HeaviestInv'
  OBVIOUS
<1>0. PathInv /\ PathInv' /\ Recorded /\ Relaxed /\ Collected
  BY RelaxKeeps DEF HeaviestInv
<1>1. /\ txn \in Txns /\ Neighbour \in Txns /\ Neighbour < txn
      /\ longest[Neighbour] + costs[txn] > longest[txn]
  BY <1>0, NeighbourShape DEF Relax, Improves
<1>2. /\ txn \in Nat /\ nbr \in Nat /\ Txns \subseteq Nat /\ Txns' = Txns
      /\ costs \in [Txns -> Nat] /\ longest \in [Txns -> Nat]
      /\ prev \in [Txns -> 0..Len(adjacency)]
      /\ \A i \in Txns : adjacency[i] \in Seq(Txns)
      /\ \A i \in Txns : prev[i] # 0 => prev[i] < i
      /\ Len(adjacency) \in Nat
  BY <1>0, GraphShape, CostShape DEF PathInv, TablesInv, PredecessorInv, Relax, Txns
<1>3. /\ longest' = [longest EXCEPT ![txn] = longest[Neighbour] + costs[txn]]
      /\ prev' = [prev EXCEPT ![txn] = Neighbour]
      /\ nbr' = nbr + 1 /\ phase = "relax"
      /\ UNCHANGED <<adjacency, costs, phase, txn, end, cur, path>>
  BY DEF Relax, AtNeighbour
<1>4. Recorded'
  <2>1. ASSUME NEW i \in Txns
        PROVE  longest'[i] = costs[i] + (IF prev'[i] = 0 THEN 0 ELSE longest'[prev'[i]])
    <3>1. CASE i = txn
      <4>1. prev'[i] = Neighbour /\ Neighbour # 0 /\ Neighbour # txn
        BY <1>1, <1>2, <1>3, <3>1 DEF Txns
      <4>2. longest'[Neighbour] = longest[Neighbour]
        BY <1>1, <1>2, <1>3, <4>1
      <4>3. longest'[i] = longest[Neighbour] + costs[txn]
        BY <1>1, <1>2, <1>3, <3>1
      <4>4. longest[Neighbour] \in Nat /\ costs[txn] \in Nat
        BY <1>1, <1>2
      <4> QED BY <3>1, <4>1, <4>2, <4>3, <4>4
    <3>2. CASE i # txn
      <4>1. prev[i] # txn
        <5>1. ASSUME prev[i] = txn PROVE FALSE
          <6>1. txn # 0 /\ i \in Nat
            BY <1>1, <1>2 DEF Txns
          <6>2. txn < i
            BY <1>2, <5>1, <6>1
          <6>3. i > txn
            BY <1>2, <6>1, <6>2
          <6> QED BY <1>0, <5>1, <6>1, <6>3 DEF Recorded
        <5> QED BY <5>1
      <4>2. prev'[i] = prev[i] /\ longest'[i] = longest[i]
        BY <1>2, <1>3, <3>2
      <4>3. prev[i] # 0 => longest'[prev[i]] = longest[prev[i]]
        <5>1. prev[i] # 0 => prev[i] \in Txns
          BY <1>2 DEF Txns
        <5> QED BY <1>2, <1>3, <4>1, <5>1
      <4> QED BY <1>0, <4>2, <4>3 DEF Recorded
    <3> QED BY <3>1, <3>2
  <2>2. ASSUME NEW i \in Txns, i > txn PROVE prev'[i] = 0
    BY <1>0, <1>1, <1>2, <1>3, <2>2 DEF Recorded
  <2> QED BY <1>2, <1>3, <2>1, <2>2 DEF Recorded
<1>5. Relaxed'
  <2>1. ASSUME NEW i \in Txns, NEW p \in 1..Len(adjacency[i]),
               i < txn \/ (i = txn /\ p < nbr + 1), adjacency[i][p] < i
        PROVE  longest'[adjacency[i][p]] + costs[i] <= longest'[i]
    <3>1. /\ adjacency[i][p] \in Txns /\ p \in Nat
          /\ i \in Nat /\ adjacency[i][p] \in Nat
      <4>1. adjacency[i] \in Seq(Txns)
        BY <1>2
      <4>2. adjacency[i][p] \in Txns /\ Len(adjacency[i]) \in Nat
        BY <4>1, ElementOfSeq, LenProperties
      <4>3. p \in Nat
        BY <4>2
      <4>4. \A t \in Txns : t \in Nat
        BY <1>2
      <4> QED BY <4>2, <4>3, <4>4
    <3>2. adjacency[i][p] # txn
      BY <1>2, <2>1, <3>1
    <3>3. longest'[adjacency[i][p]] = longest[adjacency[i][p]]
      BY <1>2, <1>3, <3>1, <3>2
    <3>4. /\ longest[adjacency[i][p]] \in Nat /\ costs[i] \in Nat
          /\ longest[i] \in Nat /\ longest[txn] \in Nat
          /\ longest[Neighbour] \in Nat /\ costs[txn] \in Nat
      BY <1>1, <1>2, <3>1
    <3>5. longest[i] <= longest'[i] /\ longest'[i] \in Nat
      <4>1. CASE i = txn
        <5>1. longest'[i] = longest[Neighbour] + costs[txn]
          BY <1>1, <1>2, <1>3, <4>1
        <5>2. longest[txn] <= longest[Neighbour] + costs[txn]
          BY <1>1, <3>4
        <5> QED BY <3>4, <4>1, <5>1, <5>2
      <4>2. CASE i # txn
        <5>1. longest'[i] = longest[i]
          BY <1>2, <1>3, <4>2
        <5> QED BY <3>4, <5>1
      <4> QED BY <4>1, <4>2
    <3>7. CASE i < txn \/ (i = txn /\ p < nbr)
      <4>1. longest[adjacency[i][p]] + costs[i] <= longest[i]
        BY <1>0, <2>1, <3>7 DEF Relaxed
      <4> QED BY <3>3, <3>4, <3>5, <4>1
    <3>8. CASE i = txn /\ p = nbr
      <4>1. longest'[i] = longest[Neighbour] + costs[txn] /\ Neighbour = adjacency[i][p]
        BY <1>1, <1>2, <1>3, <3>8 DEF Neighbour
      <4> QED BY <3>3, <3>4, <3>8, <4>1
    <3> QED BY <1>2, <2>1, <3>1, <3>7, <3>8
  <2> QED BY <1>2, <1>3, <2>1 DEF Relaxed
<1>6. Collected'
  BY <1>0, <1>3 DEF Collected
<1> QED BY <1>0, <1>4, <1>5, <1>6 DEF HeaviestInv

\* The steps that leave the table, the graph and the walk as they are: going
\* on in the loop, choosing the end of the finished table, the empty graph.
LEMMA HeaviestLoop ==
  HeaviestInv /\ (Skip \/ NextTxn \/ (\E e \in Txns : ChooseEnd(e)) \/ ReturnEmpty
                     \/ UNCHANGED vars)
    => HeaviestInv'
<1> SUFFICES ASSUME HeaviestInv,
                    Skip \/ NextTxn \/ (\E e \in Txns : ChooseEnd(e))
                      \/ ReturnEmpty \/ UNCHANGED vars
             PROVE  HeaviestInv'
  OBVIOUS
<1>0. PathInv /\ Recorded /\ Relaxed /\ Collected
  BY DEF HeaviestInv
<1>1. PathInv'
  BY <1>0, OtherStepsKeep
<1>2. UNCHANGED <<adjacency, costs, longest, prev, path>>
  BY DEF Skip, NextTxn, ChooseEnd, ReturnEmpty, vars
<1>3. UNCHANGED <<txn, nbr>> \/ Skip \/ NextTxn
  BY DEF ChooseEnd, ReturnEmpty, vars
<1>4. Recorded' /\ Relaxed'
  BY <1>2, <1>3, TableKept
<1>5. Collected'
  <2>1. CASE Skip \/ NextTxn
    <3>1. phase' = "relax" /\ phase = "relax" /\ end' = end
      BY <2>1 DEF Skip, NextTxn, AtNeighbour
    <3> QED BY <1>0, <3>1 DEF Collected
  <2>2. ASSUME NEW e \in Txns, ChooseEnd(e) PROVE Collected'
    <3>1. /\ path = <<>> /\ GraphInv /\ longest \in [Txns -> Nat]
          /\ phase = "relax" /\ Txns \subseteq Nat \ {0}
      BY <1>0, <2>2 DEF PathInv, WalkInv, TablesInv, ChooseEnd, Txns
    <3>2. /\ end' = e /\ cur' = e /\ phase' = "walk" /\ txn > Len(adjacency)
          /\ UNCHANGED <<adjacency, costs, txn, longest, path>>
          /\ IsEnd(e)
      BY <2>2 DEF ChooseEnd
    <3>3. /\ ChainWeight(path)' = 0 /\ IsEnd(end)' /\ Txns' = Txns
      <4>1. ChainWeight(path)' = ChainWeight(path)
        BY <3>2 DEF ChainWeight, PrefixWeights
      <4> QED BY <3>1, <3>2, <4>1, WeightOfEmpty DEF IsEnd, Txns
    <3>4. /\ longest[e] \in Nat /\ e # 0 /\ adjacency # <<>> /\ path' \in Seq(Txns)
      BY <3>1, <3>2, EmptySeq DEF Txns
    <3> QED BY <3>1, <3>2, <3>3, <3>4 DEF Collected
  <2>3. CASE ReturnEmpty
    BY <1>0, <2>3 DEF Collected, PathInv, WalkInv, ReturnEmpty
  <2>4. CASE UNCHANGED vars
    <3>1. UNCHANGED <<adjacency, costs, phase, txn, longest, end, cur, path>>
      BY <2>4 DEF vars
    <3>2. ChainWeight(path)' = ChainWeight(path) /\ IsEnd(end)' = IsEnd(end)
      BY <3>1 DEF ChainWeight, PrefixWeights, IsEnd, Txns
    <3> QED BY <1>0, <3>1, <3>2 DEF Collected, Txns
  <2> QED BY <2>1, <2>2, <2>3, <2>4
<1> QED BY <1>1, <1>4, <1>5 DEF HeaviestInv

\* A step back moves a transaction's cost from what is ahead to the path.
LEMMA HeaviestStepBack == HeaviestInv /\ StepBack => HeaviestInv'
<1> SUFFICES ASSUME HeaviestInv, StepBack PROVE HeaviestInv'
  OBVIOUS
<1>0. PathInv /\ PathInv' /\ Recorded /\ Relaxed /\ Collected /\ GraphInv
  BY StepBackKeeps DEF HeaviestInv, PathInv
<1>1. /\ phase = "walk" /\ phase' = "walk" /\ cur # 0
      /\ path' = Append(path, cur) /\ cur' = prev[cur]
      /\ UNCHANGED <<adjacency, costs, txn, nbr, longest, prev, end>>
  BY DEF StepBack
<1>2. Recorded' /\ Relaxed'
  BY <1>1, TableKept
<1>3. /\ cur \in Txns /\ path \in Seq(Txns) /\ end \in Txns
      /\ longest \in [Txns -> Nat] /\ costs \in [Txns -> Nat]
      /\ prev[cur] \in 0..Len(adjacency)
      /\ adjacency # <<>> /\ Len(adjacency) \in Nat
  BY <1>0, <1>1, CostShape, GraphShape, EmptySeq
     DEF PathInv, WalkInv, TablesInv, Txns
<1>4. ChainWeight(path') = ChainWeight(path) + costs[cur]
  BY <1>0, <1>1, <1>3, WeightOfAppend
<1>5. ChainWeight(path)' = ChainWeight(path')
  BY <1>1 DEF ChainWeight, PrefixWeights
<1>6. longest[cur] = costs[cur] + (IF cur' = 0 THEN 0 ELSE longest[cur'])
  BY <1>0, <1>1, <1>3 DEF Recorded
<1>7. ChainWeight(path) + longest[cur] = longest[end]
  BY <1>0, <1>1 DEF Collected
<1>8. ChainWeight(path) \in Nat
  <2>1. Len(path) \in 0..Len(path) /\ PrefixWeights(path) \in [0..Len(path) -> Nat]
    BY <1>0, <1>3, PrefixWeightsShape
  <2> QED BY <2>1 DEF ChainWeight
<1>9. cur' # 0 => cur' \in Txns
  BY <1>1, <1>3 DEF Txns
<1>10. ChainWeight(path)' + (IF cur' = 0 THEN 0 ELSE longest[cur']) = longest[end]
  <2>1. costs[cur] \in Nat /\ (cur' # 0 => longest[cur'] \in Nat)
    BY <1>3, <1>9
  <2> QED BY <1>4, <1>5, <1>6, <1>7, <1>8, <2>1
<1>11. path' \in Seq(Txns) /\ Txns' = Txns /\ IsEnd(end)' /\ txn > Len(adjacency)
  BY <1>0, <1>1, <1>3, AppendProperties DEF Collected, IsEnd, Txns
<1>12. Collected'
  BY <1>1, <1>3, <1>10, <1>11 DEF Collected
<1> QED BY <1>0, <1>2, <1>12 DEF HeaviestInv

\* Turning the path round keeps its weight.
LEMMA HeaviestReturn == HeaviestInv /\ ReturnPath => HeaviestInv'
<1> SUFFICES ASSUME HeaviestInv, ReturnPath PROVE HeaviestInv'
  OBVIOUS
<1>0. PathInv /\ PathInv' /\ Recorded /\ Relaxed /\ Collected /\ GraphInv
  BY ReturnPathKeeps DEF HeaviestInv, PathInv
<1>1. /\ phase = "walk" /\ phase' = "done" /\ cur = 0 /\ path' = Reverse(path)
      /\ UNCHANGED <<adjacency, costs, txn, nbr, longest, prev, end, cur>>
  BY DEF ReturnPath
<1>2. Recorded' /\ Relaxed'
  BY <1>1, TableKept
<1>3. path \in Seq(Txns) /\ end \in Txns /\ adjacency # <<>>
  BY <1>0, <1>1, EmptySeq DEF PathInv, WalkInv, Txns
<1>4. path' \in Seq(Txns) /\ ChainWeight(path') = ChainWeight(path)
  BY <1>0, <1>1, <1>3, WeightOfReverse
<1>5. ChainWeight(path)' = ChainWeight(path')
  BY <1>1 DEF ChainWeight, PrefixWeights
<1>6. ChainWeight(path) = longest[end]
  <2>1. ChainWeight(path) \in Nat
    <3>1. Len(path) \in 0..Len(path) /\ PrefixWeights(path) \in [0..Len(path) -> Nat]
      BY <1>0, <1>3, PrefixWeightsShape
    <3> QED BY <3>1 DEF ChainWeight
  <2> QED BY <1>0, <1>1, <2>1 DEF Collected
<1>7. Txns' = Txns /\ IsEnd(end)' /\ txn > Len(adjacency)
  BY <1>0, <1>1, <1>3 DEF Collected, IsEnd, Txns
<1>8. Collected'
  BY <1>1, <1>3, <1>4, <1>5, <1>6, <1>7 DEF Collected
<1> QED BY <1>0, <1>2, <1>8 DEF HeaviestInv

LEMMA HeaviestStep == HeaviestInv /\ [Next]_vars => HeaviestInv'
BY HeaviestRelax, HeaviestLoop, HeaviestStepBack, HeaviestReturn DEF Next

\* The table is exact for every transaction passed.
LEMMA HeaviestGivesExact == HeaviestInv => LongestExact
BY EntryExact DEF LongestExact

\* The report follows from the finished table.
LEMMA HeaviestGivesReport == HeaviestInv => ReportsHeaviest
<1> SUFFICES ASSUME HeaviestInv, phase = "done"
             PROVE  /\ ChainWeight(path) = Weight
                    /\ \A chain \in Chains : ChainWeight(chain) <= Weight
                    /\ \A i \in Txns : HeaviestTo(i) = Weight => i <= end
  BY DEF ReportsHeaviest
<1>0. PathInv /\ Collected /\ GraphInv /\ Len(adjacency) \in Nat /\ txn \in Nat
  BY GraphShape DEF HeaviestInv, PathInv, TablesInv
<1>1. CASE adjacency = <<>>
  <2>1. end = 0 /\ path = <<>> /\ Txns = {}
    BY <1>0, <1>1 DEF Collected, Txns
  <2>2. Chains = {}
    BY <2>1 DEF Chains
  <2> QED BY <1>0, <2>1, <2>2, WeightOfEmpty DEF Weight
<1>2. CASE adjacency # <<>>
  <2>1. /\ txn > Len(adjacency) /\ end \in Txns /\ IsEnd(end)
        /\ ChainWeight(path) = longest[end]
    BY <1>0, <1>2 DEF Collected
  <2>2. /\ Weight = longest[end] /\ longest \in [Txns -> Nat] /\ Txns \subseteq Nat
        /\ \A i \in Txns : i < txn
    BY <1>0, <2>1 DEF Weight, PathInv, TablesInv, Txns
  <2>3. ASSUME NEW chain \in Chains PROVE ChainWeight(chain) <= Weight
    <3>1. Last(chain) \in Txns
      <4>1. chain \in Seq(Txns) /\ Len(chain) \in 1..Len(chain)
            /\ Last(chain) = chain[Len(chain)]
        BY <1>0, ChainShape DEF Txns
      <4> QED BY <4>1, ElementOfSeq
    <3>2. ChainWeight(chain) <= longest[Last(chain)]
      BY <2>2, <3>1, EntryUpper
    <3>3. longest[Last(chain)] <= longest[end]
      BY <2>1, <3>1 DEF IsEnd
    <3>4. /\ longest[Last(chain)] \in Nat /\ longest[end] \in Nat
          /\ ChainWeight(chain) \in Nat
      <4>1. chain \in Seq(Txns)
        BY <1>0, ChainShape
      <4>2. Len(chain) \in 0..Len(chain) /\ PrefixWeights(chain) \in [0..Len(chain) -> Nat]
        BY <1>0, <4>1, PrefixWeightsShape
      <4> QED BY <2>1, <2>2, <3>1, <4>2 DEF ChainWeight
    <3> QED BY <2>2, <3>2, <3>3, <3>4
  <2>4. ASSUME NEW i \in Txns, HeaviestTo(i) = Weight PROVE i <= end
    <3>1. longest[i] = longest[end]
      BY <2>2, <2>4, EntryExact
    <3>2. ~(i > end)
      <4>1. ASSUME i > end PROVE FALSE
        <5>1. i \in (end + 1)..Len(adjacency)
          BY <2>1, <2>2, <4>1 DEF Txns
        <5>2. longest[i] < longest[end]
          BY <2>1, <5>1 DEF IsEnd
        <5> QED BY <2>1, <2>2, <3>1, <5>2
      <4> QED BY <4>1
    <3> QED BY <2>1, <2>2, <3>2
  <2> QED BY <2>1, <2>2, <2>3, <2>4
<1> QED BY <1>1, <1>2

\* For every graph and all costs: the table holds, for every transaction the
\* pass is through with, the weight of the heaviest of all chains to it.
THEOREM TableIsExact == Spec => []LongestExact
BY HeaviestInit, HeaviestStep, HeaviestGivesExact, PTL DEF Spec

\* For every graph and all costs: the reported weight is the sum of the
\* reported path, no chain of the graph is heavier, and among equally heavy
\* ends the last is named.
THEOREM ReportIsHeaviest == Spec => []ReportsHeaviest
BY HeaviestInit, HeaviestStep, HeaviestGivesReport, PTL DEF Spec
=============================================================================
