--------------------------- MODULE ConflictGraph ---------------------------
(***************************************************************************)
(* build_conflict_graph (crates/scheduler): the conflict graph of an       *)
(* ordered list of footprints, built through a per-key index instead of    *)
(* comparing every pair.  Three loops follow one another:                  *)
(*   "index"      one footprint per step enters the per-key index,         *)
(*   "edges"      one key per step, in key order, emits its edges,         *)
(*   "adjacency"  one edge per step, in the order of the sorted edge set,  *)
(*                is pushed on the lists of its two ends.                  *)
(* Transaction i of the model is index i - 1 of the code.                  *)
(***************************************************************************)
EXTENDS Footprint, SequencesExt

CONSTANT Inputs    \* the footprint lists the function is called with

ASSUME InputsAssumption == Inputs \subseteq Seq(TransactionFootprint)

VARIABLES
  footprints,   \* the input: a sequence of footprints
  phase,        \* the loop that is running, or "done"
  cursor,       \* the next footprint to index
  index,        \* per key, the lists of its writers and of its readers
  unemitted,    \* the keys whose edges are still to be emitted
  edges,        \* the emitted edges not yet pushed, as pairs <<lo, hi>>
  adjacency     \* the result: per transaction, the list of its neighbours

buildVars ==
  <<footprints, phase, cursor, index, unemitted, edges, adjacency>>

Txns == 1..Len(footprints)

-----------------------------------------------------------------------------
\* A key that no footprint names has no entry in the code's map; here it has
\* two empty lists, which emit no edge either.
BuildInit ==
  /\ footprints \in Inputs
  /\ phase = "index"
  /\ cursor = 1
  /\ index = [key \in Key |-> [writers |-> <<>>, readers |-> <<>>]]
  /\ unemitted = {}
  /\ edges = {}
  /\ adjacency = <<>>

PushIf(condition, list, txn) == IF condition THEN Append(list, txn) ELSE list

IndexTxn ==
  /\ phase = "index"
  /\ cursor <= Len(footprints)
  /\ LET fp == footprints[cursor] IN
     index' = [key \in Key |->
       [writers |-> PushIf(key \in fp.read_write, index[key].writers, cursor),
        readers |-> PushIf(key \in fp.read_only, index[key].readers, cursor)]]
  /\ cursor' = cursor + 1
  /\ UNCHANGED <<footprints, phase, unemitted, edges, adjacency>>

StartEdges ==
  /\ phase = "index"
  /\ cursor > Len(footprints)
  /\ phase' = "edges"
  /\ unemitted' = Key
  /\ UNCHANGED <<footprints, cursor, index, edges, adjacency>>

\* Mutant of WriterPairs: each writer is paired with the next one only.
WriterPairsNextOnly(writers) ==
  {<<writers[a], writers[a + 1]>> : a \in 1..(Len(writers) - 1)}

\* Writer lists are paired by position, first with later, and the pair is
\* taken as it stands: only the order of the list makes it <<lo, hi>>.
WriterPairs(writers) ==
  UNION {{<<writers[a], writers[b]>> : b \in (a + 1)..Len(writers)} :
           a \in 1..Len(writers)}

\* Mutant of WriterReaderPairs: a reader before the writer is forgotten.
WriterBeforeReaderPairs(writers, readers) ==
  {e \in ToSet(writers) \X ToSet(readers) : e[1] < e[2]}

\* A writer and a reader are two different transactions, lower index first.
WriterReaderPairs(writers, readers) ==
  {e \in (ToSet(writers) \X ToSet(readers)) \cup
         (ToSet(readers) \X ToSet(writers)) : e[1] < e[2]}

EmitKey(key) ==
  /\ phase = "edges"
  /\ key \in unemitted
  /\ \A other \in unemitted : key <= other
  /\ edges' = edges \cup WriterPairs(index[key].writers)
       \cup WriterReaderPairs(index[key].writers, index[key].readers)
  /\ unemitted' = unemitted \ {key}
  /\ UNCHANGED <<footprints, phase, cursor, index, adjacency>>

StartAdjacency ==
  /\ phase = "edges"
  /\ unemitted = {}
  /\ phase' = "adjacency"
  /\ adjacency' = [i \in Txns |-> <<>>]
  /\ UNCHANGED <<footprints, cursor, index, unemitted, edges>>

\* The order of a BTreeSet of pairs.
EdgeBefore(e, f) == e[1] < f[1] \/ (e[1] = f[1] /\ e[2] < f[2])

\* Mutant of PushEdge: only the lower end learns of its neighbour.
PushEdgeOneSided(e) ==
  /\ phase = "adjacency"
  /\ e \in edges
  /\ \A f \in edges \ {e} : EdgeBefore(e, f)
  /\ adjacency' = [adjacency EXCEPT ![e[1]] = Append(@, e[2])]
  /\ edges' = edges \ {e}
  /\ UNCHANGED <<footprints, phase, cursor, index, unemitted>>

PushEdge(e) ==
  /\ phase = "adjacency"
  /\ e \in edges
  /\ \A f \in edges \ {e} : EdgeBefore(e, f)
  /\ adjacency' = [adjacency EXCEPT ![e[1]] = Append(@, e[2]),
                                    ![e[2]] = Append(@, e[1])]
  /\ edges' = edges \ {e}
  /\ UNCHANGED <<footprints, phase, cursor, index, unemitted>>

FinishGraph ==
  /\ phase = "adjacency"
  /\ edges = {}
  /\ phase' = "done"
  /\ UNCHANGED <<footprints, cursor, index, unemitted, edges, adjacency>>

BuildNext ==
  \/ IndexTxn
  \/ StartEdges
  \/ \E key \in unemitted : EmitKey(key)
  \/ StartAdjacency
  \/ \E e \in edges : PushEdge(e)
  \/ FinishGraph

BuildSpec == BuildInit /\ [][BuildNext]_buildVars
-----------------------------------------------------------------------------
Conflicting(i, j) == ConflictsWith(footprints[i], footprints[j])

Ascending(list) ==
  \A a, b \in 1..Len(list) : a < b => list[a] < list[b]

\* The neighbours of i by pairwise comparison: the reference the index-based
\* builder replaces (tests::naive_conflict_graph).
Neighbours(i) == {j \in Txns \ {i} : Conflicting(i, j)}

\* Types of the builder's state.
BuildTypeOK ==
  /\ footprints \in Seq(TransactionFootprint)
  /\ phase \in {"index", "edges", "adjacency", "done"}
  /\ cursor \in 1..(Len(footprints) + 1)
  /\ index \in [Key -> [writers: Seq(Txns), readers: Seq(Txns)]]
  /\ unemitted \subseteq Key
  /\ edges \subseteq Txns \X Txns
  /\ IF phase \in {"index", "edges"} THEN adjacency = <<>>
     ELSE adjacency \in [Txns -> Seq(Txns)]

\* The index lists, for every key, exactly the footprints walked so far that
\* write it and that read it, in index order: the writer pairs are taken by
\* position, so the order is what makes every edge <<lo, hi>>.
IndexFaithful ==
  \A key \in Key :
    /\ ToSet(index[key].writers) =
         {i \in Txns : i < cursor /\ key \in footprints[i].read_write}
    /\ ToSet(index[key].readers) =
         {i \in Txns : i < cursor /\ key \in footprints[i].read_only}
    /\ Ascending(index[key].writers)
    /\ phase # "index" => cursor = Len(footprints) + 1

\* While keys are walked, the edge set is exactly the ordered pairs that
\* conflict on a key already walked: none is lost, none is invented, and a
\* transaction that reads and writes one key is no neighbour of itself.
EdgesExact ==
  phase = "edges" =>
    edges = {e \in Txns \X Txns :
               /\ e[1] < e[2]
               /\ ConflictKeys(footprints[e[1]], footprints[e[2]])
                    \ unemitted # {}}

\* While edges are pushed, each conflicting pair is either still in the edge
\* set or on both adjacency lists, never in between and never twice, and the
\* lists stay ascending because the edge set is walked in order.
EdgeConservation ==
  phase = "adjacency" =>
    /\ \A e \in edges : e[1] < e[2]
    /\ \A i \in Txns :
         /\ Ascending(adjacency[i])
         /\ \A j \in Txns \ {i} :
              LET waiting == <<i, j>> \in edges \/ <<j, i>> \in edges
                  pushed  == j \in ToSet(adjacency[i])
              IN /\ Conflicting(i, j) <=> (waiting \/ pushed)
                 /\ ~(waiting /\ pushed)
         /\ i \notin ToSet(adjacency[i])

\* The finished graph is the one pairwise comparison gives, lists and order
\* included: an edge for exactly the conflicting pairs, both ways, and every
\* adjacency list ascending (tests::index_graph_matches_naive_reference).
GraphExact ==
  phase = "done" =>
    \A i \in Txns : /\ ToSet(adjacency[i]) = Neighbours(i)
                    /\ Ascending(adjacency[i])
=============================================================================
