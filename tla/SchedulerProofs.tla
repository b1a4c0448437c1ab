-------------------------- MODULE SchedulerProofs --------------------------
(***************************************************************************)
(* The whole schedule call, for every key set and every list of            *)
(* footprints.  The graph builder is exact: the index, the edge set and    *)
(* the adjacency lists neither lose nor invent a conflict.  On its graph   *)
(* the greedy scheduler separates the conflicts of the footprints, and the *)
(* stages it leaves are those of the function ScheduleOf; so it keeps the  *)
(* promise of StageAssignment.  The figures Profile reports of the graph   *)
(* and the stages agree with one another.  What follows from the promise   *)
(* of StageAssignment alone, for every scheduler that keeps it, comes      *)
(* last.                                                                   *)
(***************************************************************************)
EXTENDS Profile, StageAssignment, ScheduleFacts

\* Every pair already pushed comes before every edge still to be pushed: what
\* keeps the adjacency lists ascending.
PushedBeforeWaiting ==
  phase = "adjacency" =>
    \A i \in Txns : \A j \in ToSet(adjacency[i]) : \A e \in edges :
      i < j => EdgeBefore(<<i, j>>, e)

\* The inductive invariant.  Between the loops nothing is pending.
BuildInv ==
  /\ BuildTypeOK
  /\ IndexFaithful
  /\ phase = "index" => edges = {}
  /\ EdgesExact
  /\ EdgeConservation
  /\ PushedBeforeWaiting
  /\ GraphExact

-----------------------------------------------------------------------------
\* Conflicts do not depend on which footprint is named first.
LEMMA ConflictKeysSymmetric ==
  \A a, b : ConflictKeys(a, b) = ConflictKeys(b, a)
BY DEF ConflictKeys

\* A key is a conflict key iff one side writes it and the other touches it.
LEMMA ConflictKeysMember ==
  \A a, b, key :
    key \in ConflictKeys(a, b) <=>
      \/ key \in a.read_write /\ key \in b.read_write
      \/ key \in a.read_write /\ key \in b.read_only
      \/ key \in a.read_only /\ key \in b.read_write
BY DEF ConflictKeys

\* A list that ascends still does when a larger element is pushed on it.
LEMMA AppendAscending ==
  ASSUME NEW list \in Seq(Nat), Ascending(list),
         NEW e \in Nat, \A x \in ToSet(list) : x < e
  PROVE  Ascending(Append(list, e))
<1> DEFINE longer == Append(list, e)
<1>1. /\ Len(longer) = Len(list) + 1
      /\ \A p \in 1..Len(list) : longer[p] = list[p]
      /\ longer[Len(list) + 1] = e
      /\ Len(list) \in Nat
  BY AppendProperties, LenProperties
<1>2. \A p \in 1..Len(list) : list[p] < e
  BY ToSetMember
<1> HIDE DEF longer
<1>3. ASSUME NEW p \in 1..Len(longer), NEW q \in 1..Len(longer), p < q
      PROVE  longer[p] < longer[q]
  <2>1. p \in 1..Len(list)
    BY <1>1, <1>3
  <2>2. CASE q \in 1..Len(list)
    BY <1>1, <1>3, <2>1, <2>2 DEF Ascending
  <2>3. CASE q = Len(list) + 1
    BY <1>1, <1>2, <2>1, <2>3
  <2> QED BY <1>1, <2>2, <2>3
<1>4. Ascending(longer)
  BY <1>3 DEF Ascending
<1> QED BY <1>4 DEF longer

\* Basic facts the types give.
LEMMA BuildTypes ==
  ASSUME BuildTypeOK
  PROVE  /\ Len(footprints) \in Nat
         /\ Txns \subseteq Nat
         /\ \A i \in Txns : /\ footprints[i] \in TransactionFootprint
                            /\ footprints[i].read_only \subseteq Key
                            /\ footprints[i].read_write \subseteq Key
         /\ \A key \in Key : /\ index[key].writers \in Seq(Txns)
                             /\ index[key].readers \in Seq(Txns)
<1>1. Len(footprints) \in Nat /\ footprints \in Seq(TransactionFootprint)
  BY LenProperties DEF BuildTypeOK
<1>2. \A i \in Txns : footprints[i] \in TransactionFootprint
  BY <1>1, ElementOfSeq DEF Txns
<1> QED BY <1>1, <1>2 DEF BuildTypeOK, Txns, TransactionFootprint

-----------------------------------------------------------------------------
\* Walking a footprint keeps the index types and its contents exact.
LEMMA IndexTxnStep ==
  ASSUME BuildInv, IndexTxn
  PROVE  BuildInv'
<1>1. BuildTypeOK /\ IndexFaithful
  BY DEF BuildInv
<1>2. /\ phase = "index" /\ phase' = "index" /\ adjacency' = <<>>
      /\ edges = {} /\ edges' = {} /\ unemitted' = unemitted
      /\ footprints' = footprints /\ Txns' = Txns
      /\ cursor \in Txns /\ cursor' = cursor + 1
      /\ cursor' \in 1..(Len(footprints) + 1)
  <2>1. cursor \in 1..(Len(footprints) + 1) /\ Len(footprints) \in Nat
    BY <1>1, BuildTypes DEF BuildTypeOK
  <2> QED BY <2>1, <1>1 DEF IndexTxn, BuildInv, BuildTypeOK, Txns
<1>3. ASSUME NEW key \in Key
      PROVE  /\ index'[key].writers =
                  PushIf(key \in footprints[cursor].read_write,
                         index[key].writers, cursor)
             /\ index'[key].readers =
                  PushIf(key \in footprints[cursor].read_only,
                         index[key].readers, cursor)
  BY DEF IndexTxn
<1>4. ASSUME NEW list \in Seq(Txns) PROVE Append(list, cursor) \in Seq(Txns)
  BY <1>2, AppendProperties
<1>5. index' \in [Key -> [writers: Seq(Txns), readers: Seq(Txns)]]
  <2>1. ASSUME NEW key \in Key
        PROVE  /\ PushIf(key \in footprints[cursor].read_write,
                         index[key].writers, cursor) \in Seq(Txns)
               /\ PushIf(key \in footprints[cursor].read_only,
                         index[key].readers, cursor) \in Seq(Txns)
    BY <1>1, <1>4, BuildTypes DEF PushIf
  <2> QED BY <2>1 DEF IndexTxn
<1>6. BuildTypeOK'
  BY <1>1, <1>2, <1>5 DEF BuildTypeOK
<1>7. ASSUME NEW list \in Seq(Txns), Ascending(list),
             \A x \in ToSet(list) : x < cursor
      PROVE  /\ ToSet(Append(list, cursor)) = ToSet(list) \cup {cursor}
             /\ Ascending(Append(list, cursor))
  <2>1. list \in Seq(Nat) /\ cursor \in Nat
    BY <1>1, <1>2, <1>7, BuildTypes, SeqMonotonic
  <2> QED BY <1>2, <1>7, <2>1, ToSetAppend, AppendAscending
<1>8. ASSUME NEW key \in Key
      PROVE  /\ ToSet(index'[key].writers) =
                  {i \in Txns : i < cursor' /\ key \in footprints[i].read_write}
             /\ ToSet(index'[key].readers) =
                  {i \in Txns : i < cursor' /\ key \in footprints[i].read_only}
             /\ Ascending(index'[key].writers)
  <2>1. /\ ToSet(index[key].writers) =
             {i \in Txns : i < cursor /\ key \in footprints[i].read_write}
        /\ ToSet(index[key].readers) =
             {i \in Txns : i < cursor /\ key \in footprints[i].read_only}
        /\ Ascending(index[key].writers)
    BY <1>1 DEF IndexFaithful
  <2>2. \A i \in Txns : i < cursor' <=> i < cursor \/ i = cursor
    BY <1>1, <1>2, BuildTypes
  <2>3. index[key].writers \in Seq(Txns) /\ index[key].readers \in Seq(Txns)
    BY <1>1, BuildTypes
  <2>4. /\ ToSet(index'[key].writers) = ToSet(index[key].writers) \cup
             (IF key \in footprints[cursor].read_write THEN {cursor} ELSE {})
        /\ Ascending(index'[key].writers)
    <3>1. CASE key \in footprints[cursor].read_write
      <4>1. index'[key].writers = Append(index[key].writers, cursor)
        BY <1>3, <3>1 DEF PushIf
      <4> QED BY <1>7, <2>1, <2>3, <3>1, <4>1
    <3>2. CASE key \notin footprints[cursor].read_write
      BY <1>3, <2>1, <3>2 DEF PushIf
    <3> QED BY <3>1, <3>2
  <2>5. ToSet(index'[key].readers) = ToSet(index[key].readers) \cup
             (IF key \in footprints[cursor].read_only THEN {cursor} ELSE {})
    BY <2>3, <1>3, <1>2, ToSetAppend DEF PushIf
  <2> QED BY <1>2, <2>1, <2>2, <2>4, <2>5
<1>9. IndexFaithful'
  BY <1>2, <1>8 DEF IndexFaithful
<1> QED BY <1>2, <1>6, <1>9
       DEF BuildInv, EdgesExact, EdgeConservation, PushedBeforeWaiting, GraphExact

\* With the whole list indexed and no key walked, no edge is due.
LEMMA StartEdgesStep ==
  ASSUME BuildInv, StartEdges
  PROVE  BuildInv'
<1>1. BuildTypeOK /\ IndexFaithful /\ edges = {}
  BY DEF BuildInv, StartEdges
<1>2. /\ phase' = "edges" /\ unemitted' = Key
      /\ footprints' = footprints /\ Txns' = Txns /\ cursor' = cursor
      /\ index' = index /\ edges' = edges /\ adjacency' = adjacency
      /\ phase = "index"
  BY DEF StartEdges, Txns
<1>3. cursor = Len(footprints) + 1
  BY <1>1, LenProperties DEF StartEdges, BuildTypeOK
<1>4. BuildTypeOK'
  BY <1>1, <1>2 DEF BuildTypeOK
<1>5. IndexFaithful'
  BY <1>1, <1>2, <1>3 DEF IndexFaithful
<1>6. ASSUME NEW e \in Txns \X Txns
      PROVE  ConflictKeys(footprints[e[1]], footprints[e[2]]) \ Key = {}
  <2>1. e[1] \in Txns /\ e[2] \in Txns
    OBVIOUS
  <2> QED BY <1>1, <2>1, BuildTypes, ConflictKeysMember
<1>7. EdgesExact'
  BY <1>1, <1>2, <1>6 DEF EdgesExact
<1> QED BY <1>2, <1>4, <1>5, <1>7
       DEF BuildInv, EdgeConservation, PushedBeforeWaiting, GraphExact

\* The edges one key emits are exactly the pairs that conflict on it: pairs of
\* writers because the writer list ascends, pairs of a writer and a reader by
\* comparison.
LEMMA KeyEdges ==
  ASSUME BuildTypeOK, IndexFaithful, phase = "edges", NEW key \in Key
  PROVE  WriterPairs(index[key].writers)
           \cup WriterReaderPairs(index[key].writers, index[key].readers)
         = {e \in Txns \X Txns :
              e[1] < e[2] /\ key \in ConflictKeys(footprints[e[1]], footprints[e[2]])}
<1> DEFINE W == index[key].writers
           R == index[key].readers
<1>1. W \in Seq(Txns) /\ R \in Seq(Txns) /\ Len(W) \in Nat /\ Txns \subseteq Nat
  BY BuildTypes, LenProperties
<1>2. /\ ToSet(W) = {i \in Txns : key \in footprints[i].read_write}
      /\ ToSet(R) = {i \in Txns : key \in footprints[i].read_only}
      /\ Ascending(W)
  <2>1. cursor = Len(footprints) + 1 /\ Len(footprints) \in Nat
    BY BuildTypes DEF IndexFaithful
  <2>2. \A i \in Txns : i < cursor
    BY <2>1 DEF Txns
  <2> QED BY <2>2 DEF IndexFaithful
<1> HIDE DEF W, R
<1>3. ASSUME NEW e
      PROVE  e \in WriterPairs(W) <=>
               /\ e \in Txns \X Txns /\ e[1] < e[2]
               /\ e[1] \in ToSet(W) /\ e[2] \in ToSet(W)
  <2>1. ASSUME e \in WriterPairs(W)
        PROVE  /\ e \in Txns \X Txns /\ e[1] < e[2]
               /\ e[1] \in ToSet(W) /\ e[2] \in ToSet(W)
    <3>1. PICK a \in 1..Len(W) : \E b \in (a + 1)..Len(W) : e = <<W[a], W[b]>>
      BY <2>1 DEF WriterPairs
    <3>2. PICK b \in (a + 1)..Len(W) : e = <<W[a], W[b]>>
      BY <3>1
    <3>3. a \in 1..Len(W) /\ b \in 1..Len(W) /\ a < b
      BY <1>1
    <3>4. W[a] < W[b]
      BY <1>2, <3>3 DEF Ascending
    <3>5. W[a] \in ToSet(W) /\ W[b] \in ToSet(W)
      BY <1>1, <3>3, ToSetMember
    <3>6. W[a] \in Txns /\ W[b] \in Txns
      BY <1>1, <3>3, ElementOfSeq
    <3> QED BY <3>2, <3>4, <3>5, <3>6
  <2>2. ASSUME e \in Txns \X Txns, e[1] < e[2],
               e[1] \in ToSet(W), e[2] \in ToSet(W)
        PROVE  e \in WriterPairs(W)
    <3>1. PICK a \in 1..Len(W) : W[a] = e[1]
      BY <1>1, <2>2, ToSetMember
    <3>2. PICK b \in 1..Len(W) : W[b] = e[2]
      BY <1>1, <2>2, ToSetMember
    <3>3. a < b
      <4>1. ~(b < a)
        <5>1. SUFFICES ASSUME b < a PROVE FALSE
          OBVIOUS
        <5>2. W[b] < W[a]
          BY <1>2, <5>1 DEF Ascending
        <5>3. e[1] \in Nat /\ e[2] \in Nat
          BY <1>1, <2>2
        <5> QED BY <2>2, <3>1, <3>2, <5>2, <5>3
      <4>2. a # b
        <5>1. e[1] \in Nat /\ e[2] \in Nat /\ e[1] # e[2]
          <6>1. e[1] \in Nat /\ e[2] \in Nat
            BY <1>1, <2>2
          <6> QED BY <2>2, <6>1
        <5> QED BY <3>1, <3>2, <5>1
      <4> QED BY <1>1, <4>1, <4>2
    <3>4. b \in (a + 1)..Len(W) /\ e = <<W[a], W[b]>>
      BY <1>1, <2>2, <3>1, <3>2, <3>3
    <3> QED BY <3>4 DEF WriterPairs
  <2> QED BY <2>1, <2>2
<1>4. ASSUME NEW e
      PROVE  e \in WriterReaderPairs(W, R) <=>
               /\ e \in Txns \X Txns /\ e[1] < e[2]
               /\ \/ e[1] \in ToSet(W) /\ e[2] \in ToSet(R)
                  \/ e[1] \in ToSet(R) /\ e[2] \in ToSet(W)
  <2>1. ToSet(W) \subseteq Txns /\ ToSet(R) \subseteq Txns
    BY <1>2
  <2> QED BY <2>1 DEF WriterReaderPairs
<1>5. ASSUME NEW e \in Txns \X Txns
      PROVE  key \in ConflictKeys(footprints[e[1]], footprints[e[2]]) <=>
               \/ e[1] \in ToSet(W) /\ e[2] \in ToSet(W)
               \/ e[1] \in ToSet(W) /\ e[2] \in ToSet(R)
               \/ e[1] \in ToSet(R) /\ e[2] \in ToSet(W)
  <2>1. e[1] \in Txns /\ e[2] \in Txns
    OBVIOUS
  <2> QED BY <1>2, <2>1, ConflictKeysMember
<1>6. WriterPairs(W) \cup WriterReaderPairs(W, R) =
        {e \in Txns \X Txns :
           e[1] < e[2] /\ key \in ConflictKeys(footprints[e[1]], footprints[e[2]])}
  BY <1>3, <1>4, <1>5
<1> QED BY <1>6 DEF W, R

\* Walking a key adds its edges and takes it off the keys to walk.
LEMMA EmitKeyStep ==
  ASSUME BuildInv, NEW key \in unemitted, EmitKey(key)
  PROVE  BuildInv'
<1>1. BuildTypeOK /\ IndexFaithful /\ EdgesExact /\ phase = "edges" /\ key \in Key
  BY DEF BuildInv, EmitKey, BuildTypeOK
<1>2. /\ phase' = phase /\ unemitted' = unemitted \ {key}
      /\ footprints' = footprints /\ Txns' = Txns /\ cursor' = cursor
      /\ index' = index /\ adjacency' = adjacency
  BY DEF EmitKey, Txns
<1>3. edges' = edges \cup
        {e \in Txns \X Txns :
           e[1] < e[2] /\ key \in ConflictKeys(footprints[e[1]], footprints[e[2]])}
  BY <1>1, KeyEdges DEF EmitKey
<1>4. BuildTypeOK'
  BY <1>1, <1>2, <1>3 DEF BuildTypeOK
<1>5. IndexFaithful'
  BY <1>1, <1>2 DEF IndexFaithful
<1>6. ASSUME NEW e \in Txns \X Txns
      PROVE  ConflictKeys(footprints[e[1]], footprints[e[2]]) \ unemitted' # {}
             <=> \/ ConflictKeys(footprints[e[1]], footprints[e[2]]) \ unemitted # {}
                 \/ key \in ConflictKeys(footprints[e[1]], footprints[e[2]])
  BY <1>2
<1>7. edges' = {e \in Txns \X Txns :
                  /\ e[1] < e[2]
                  /\ ConflictKeys(footprints[e[1]], footprints[e[2]])
                       \ unemitted' # {}}
  BY <1>1, <1>3, <1>6 DEF EdgesExact
<1>8. EdgesExact'
  BY <1>2, <1>7 DEF EdgesExact
<1> QED BY <1>1, <1>2, <1>4, <1>5, <1>8
       DEF BuildInv, EdgeConservation, PushedBeforeWaiting, GraphExact

\* With every key walked the edges are all conflicting pairs, none is pushed.
LEMMA StartAdjacencyStep ==
  ASSUME BuildInv, StartAdjacency
  PROVE  BuildInv'
<1>1. BuildTypeOK /\ IndexFaithful /\ EdgesExact /\ phase = "edges" /\ unemitted = {}
  BY DEF BuildInv, StartAdjacency
<1>2. /\ phase' = "adjacency" /\ unemitted' = unemitted
      /\ footprints' = footprints /\ Txns' = Txns /\ cursor' = cursor
      /\ index' = index /\ edges' = edges
      /\ adjacency' = [i \in Txns |-> <<>>]
  BY DEF StartAdjacency, Txns
<1>3. \A i \in Txns : adjacency'[i] = <<>> /\ ToSet(adjacency'[i]) = {}
  BY <1>2, ToSetSmall
<1>4. adjacency' \in [Txns -> Seq(Txns)]
  BY <1>2, EmptySeq
<1>5. BuildTypeOK'
  BY <1>1, <1>2, <1>4 DEF BuildTypeOK
<1>6. IndexFaithful'
  BY <1>1, <1>2 DEF IndexFaithful
<1>7. edges = {e \in Txns \X Txns :
                 e[1] < e[2] /\ Conflicting(e[1], e[2])}
  BY <1>1 DEF EdgesExact, Conflicting, ConflictsWith
<1>8. ASSUME NEW i \in Txns, NEW j \in Txns \ {i}
      PROVE  Conflicting(i, j) <=> <<i, j>> \in edges \/ <<j, i>> \in edges
  <2>1. i < j \/ j < i
    BY <1>1, BuildTypes
  <2>2. Conflicting(i, j) <=> Conflicting(j, i)
    BY ConflictKeysSymmetric DEF Conflicting, ConflictsWith
  <2> QED BY <1>7, <2>1, <2>2
<1>9. \A i \in Txns : Ascending(adjacency'[i])
  BY <1>3 DEF Ascending
<1>10. \A e \in edges : e[1] < e[2]
  BY <1>7
<1>11. \A i, j \in Txns : Conflicting(i, j)' <=> Conflicting(i, j)
  BY <1>2 DEF Conflicting
<1>12. EdgeConservation'
  BY <1>2, <1>3, <1>8, <1>9, <1>10, <1>11 DEF EdgeConservation
<1>13. PushedBeforeWaiting'
  BY <1>2, <1>3 DEF PushedBeforeWaiting
<1> QED BY <1>2, <1>5, <1>6, <1>12, <1>13 DEF BuildInv, EdgesExact, GraphExact

\* Pushing the least edge moves one pair from waiting to pushed; the two ends
\* are larger than all that is on the other's list.
LEMMA PushEdgeStep ==
  ASSUME BuildInv, NEW edge \in edges, PushEdge(edge)
  PROVE  BuildInv'
<1> DEFINE lo == edge[1]
           hi == edge[2]
<1>1. /\ BuildTypeOK /\ IndexFaithful /\ EdgeConservation /\ PushedBeforeWaiting
      /\ phase = "adjacency"
  BY DEF BuildInv, PushEdge
<1>2. /\ phase' = phase /\ unemitted' = unemitted
      /\ footprints' = footprints /\ Txns' = Txns /\ cursor' = cursor
      /\ index' = index /\ edges' = edges \ {edge}
  BY DEF PushEdge, Txns
<1>3. /\ lo \in Txns /\ hi \in Txns /\ edge = <<lo, hi>> /\ lo < hi
      /\ Txns \subseteq Nat
      /\ adjacency \in [Txns -> Seq(Txns)]
      /\ edges \subseteq Txns \X Txns
  BY <1>1, BuildTypes DEF BuildTypeOK, EdgeConservation
<1> HIDE DEF lo, hi
<1>4. lo # hi
  <2>1. lo \in Nat /\ hi \in Nat /\ lo < hi
    BY <1>3
  <2> QED BY <2>1
<1>5. /\ adjacency'[lo] = Append(adjacency[lo], hi)
      /\ adjacency'[hi] = Append(adjacency[hi], lo)
      /\ \A i \in Txns : i # lo /\ i # hi => adjacency'[i] = adjacency[i]
      /\ adjacency' \in [Txns -> Seq(Txns)]
  <2>1. /\ Append(adjacency[lo], hi) \in Seq(Txns)
        /\ Append(adjacency[hi], lo) \in Seq(Txns)
    BY <1>3, AppendProperties
  <2>2. adjacency' = [adjacency EXCEPT ![lo] = Append(@, hi),
                                       ![hi] = Append(@, lo)]
    BY DEF PushEdge, lo, hi
  <2> QED BY <1>3, <1>4, <2>1, <2>2
<1>6. BuildTypeOK'
  BY <1>1, <1>2, <1>5 DEF BuildTypeOK
<1>7. IndexFaithful'
  BY <1>1, <1>2 DEF IndexFaithful
<1>8. /\ ToSet(adjacency'[lo]) = ToSet(adjacency[lo]) \cup {hi}
      /\ ToSet(adjacency'[hi]) = ToSet(adjacency[hi]) \cup {lo}
      /\ \A i \in Txns : ToSet(adjacency[i]) \subseteq Txns
  BY <1>3, <1>5, ToSetAppend, ToSetOver
<1>8b. ASSUME NEW i \in Txns, NEW j
       PROVE  j \in ToSet(adjacency'[i]) <=>
                \/ j \in ToSet(adjacency[i])
                \/ i = lo /\ j = hi
                \/ i = hi /\ j = lo
  <2>1. CASE i = lo
    BY <1>4, <1>8, <2>1
  <2>2. CASE i = hi
    BY <1>4, <1>8, <2>2
  <2>3. CASE i # lo /\ i # hi
    BY <1>5, <2>3
  <2> QED BY <2>1, <2>2, <2>3
<1>9. \A i \in Txns : \A j \in ToSet(adjacency[i]) :
        /\ i # j
        /\ i \in ToSet(adjacency[j])
        /\ <<i, j>> \notin edges /\ <<j, i>> \notin edges
  <2>1. \A i, j \in Txns : Conflicting(i, j) <=> Conflicting(j, i)
    BY ConflictKeysSymmetric DEF Conflicting, ConflictsWith
  <2> QED BY <1>1, <1>8, <2>1 DEF EdgeConservation
<1>10. \A m \in ToSet(adjacency[lo]) : m < hi
  <2> SUFFICES ASSUME NEW m \in ToSet(adjacency[lo]) PROVE m < hi
    OBVIOUS
  <2>1. m \in Txns /\ m # lo
    BY <1>3, <1>8, <1>9
  <2>2. CASE m < lo
    BY <1>3, <2>1, <2>2
  <2>3. CASE lo < m
    <3>1. EdgeBefore(<<lo, m>>, edge)
      BY <1>1, <1>3, <2>3 DEF PushedBeforeWaiting
    <3> QED BY <1>3, <2>1, <3>1 DEF EdgeBefore
  <2> QED BY <1>3, <2>1, <2>2, <2>3
<1>11. \A m \in ToSet(adjacency[hi]) : m < lo
  <2> SUFFICES ASSUME NEW m \in ToSet(adjacency[hi]) PROVE m < lo
    OBVIOUS
  <2>1. m \in Txns /\ m # hi /\ hi \in ToSet(adjacency[m])
    BY <1>3, <1>8, <1>9
  <2>2. CASE m < hi
    <3>1. EdgeBefore(<<m, hi>>, edge)
      BY <1>1, <2>1, <2>2 DEF PushedBeforeWaiting
    <3> QED BY <1>3, <2>1, <3>1 DEF EdgeBefore
  <2>3. CASE hi < m
    <3>1. EdgeBefore(<<hi, m>>, edge)
      BY <1>1, <1>3, <2>3 DEF PushedBeforeWaiting
    <3> QED BY <1>3, <2>1, <3>1 DEF EdgeBefore
  <2> QED BY <1>3, <2>1, <2>2, <2>3
<1>12. ASSUME NEW i \in Txns PROVE Ascending(adjacency'[i])
  <2>1. adjacency[i] \in Seq(Nat) /\ Ascending(adjacency[i])
    BY <1>1, <1>3, SeqMonotonic DEF EdgeConservation
  <2>2. CASE i = lo
    BY <1>3, <1>5, <1>10, <2>1, <2>2, AppendAscending
  <2>3. CASE i = hi
    BY <1>3, <1>5, <1>11, <2>1, <2>3, AppendAscending
  <2> QED BY <1>1, <1>5, <2>1, <2>2, <2>3
<1>13. ASSUME NEW i \in Txns, NEW j \in Txns \ {i}
       PROVE  LET waiting == <<i, j>> \in edges' \/ <<j, i>> \in edges'
                  pushed  == j \in ToSet(adjacency'[i])
              IN /\ Conflicting(i, j) <=> (waiting \/ pushed)
                 /\ ~(waiting /\ pushed)
  <2>1. /\ Conflicting(i, j) <=> \/ <<i, j>> \in edges \/ <<j, i>> \in edges
                                 \/ j \in ToSet(adjacency[i])
        /\ ~((<<i, j>> \in edges \/ <<j, i>> \in edges)
               /\ j \in ToSet(adjacency[i]))
    BY <1>1 DEF EdgeConservation
  <2>2. <<hi, lo>> \notin edges
    BY <1>1, <1>3 DEF EdgeConservation
  <2>3. j \in ToSet(adjacency'[i]) <=>
          \/ j \in ToSet(adjacency[i])
          \/ i = lo /\ j = hi
          \/ i = hi /\ j = lo
    BY <1>8b
  <2>4. /\ <<i, j>> = edge <=> i = lo /\ j = hi
        /\ <<j, i>> = edge <=> i = hi /\ j = lo
    BY <1>3
  <2> QED BY <1>2, <1>3, <2>1, <2>2, <2>3, <2>4
<1>14. \A i \in Txns : i \notin ToSet(adjacency'[i])
  BY <1>1, <1>4, <1>8b DEF EdgeConservation
<1>15. \A i, j \in Txns : Conflicting(i, j)' <=> Conflicting(i, j)
  BY <1>2 DEF Conflicting
<1>16. EdgeConservation'
  BY <1>1, <1>2, <1>12, <1>13, <1>14, <1>15 DEF EdgeConservation
<1>17. ASSUME NEW i \in Txns, NEW j \in ToSet(adjacency'[i]), NEW e \in edges', i < j
       PROVE  EdgeBefore(<<i, j>>, e)
  <2>1. CASE i = lo /\ j = hi
    BY <1>2, <1>3, <2>1 DEF PushEdge
  <2>2. CASE j \in ToSet(adjacency[i])
    BY <1>1, <1>2, <1>17, <2>2 DEF PushedBeforeWaiting
  <2>3. \/ j \in ToSet(adjacency[i])
        \/ i = lo /\ j = hi
        \/ i = hi /\ j = lo
    BY <1>8b
  <2> QED BY <1>3, <1>17, <2>1, <2>2, <2>3
<1>18. PushedBeforeWaiting'
  BY <1>2, <1>17 DEF PushedBeforeWaiting
<1> QED BY <1>1, <1>2, <1>6, <1>7, <1>16, <1>18 DEF BuildInv, EdgesExact, GraphExact

\* When no edge waits, the pushed pairs are all conflicting pairs.
LEMMA FinishGraphStep ==
  ASSUME BuildInv, FinishGraph
  PROVE  BuildInv'
<1>1. /\ BuildTypeOK /\ IndexFaithful /\ EdgeConservation
      /\ phase = "adjacency" /\ edges = {}
  BY DEF BuildInv, FinishGraph
<1>2. /\ phase' = "done" /\ unemitted' = unemitted
      /\ footprints' = footprints /\ Txns' = Txns /\ cursor' = cursor
      /\ index' = index /\ edges' = edges /\ adjacency' = adjacency
  BY DEF FinishGraph, Txns
<1>3. BuildTypeOK' /\ IndexFaithful'
  BY <1>1, <1>2 DEF BuildTypeOK, IndexFaithful
<1>4. ASSUME NEW i \in Txns
      PROVE  ToSet(adjacency[i]) = Neighbours(i) /\ Ascending(adjacency[i])
  <2>1. ToSet(adjacency[i]) \subseteq Txns
    BY <1>1, ToSetOver DEF BuildTypeOK
  <2> QED BY <1>1, <2>1 DEF EdgeConservation, Neighbours
<1>5. \A i \in Txns : Neighbours(i)' = Neighbours(i)
  BY <1>2 DEF Neighbours, Conflicting
<1>6. GraphExact'
  BY <1>2, <1>4, <1>5 DEF GraphExact
<1> QED BY <1>2, <1>3, <1>6
       DEF BuildInv, EdgesExact, EdgeConservation, PushedBeforeWaiting

-----------------------------------------------------------------------------
\* The invariant holds at the start and every step keeps it.
LEMMA BuildInvInit == BuildInit => BuildInv
<1> SUFFICES ASSUME BuildInit PROVE BuildInv
  OBVIOUS
<1>1. footprints \in Seq(TransactionFootprint) /\ Len(footprints) \in Nat
  BY InputsAssumption, LenProperties DEF BuildInit
<1>2. BuildTypeOK
  BY <1>1, EmptySeq DEF BuildInit, BuildTypeOK
<1>3. \A key \in Key : index[key].writers = <<>> /\ index[key].readers = <<>>
  BY DEF BuildInit
<1>4. Ascending(<<>>)
  BY DEF Ascending
<1>5. \A i \in Txns : ~(i < cursor)
  BY <1>1 DEF BuildInit, Txns
<1>6. IndexFaithful
  BY <1>3, <1>4, <1>5, ToSetSmall DEF BuildInit, IndexFaithful
<1> QED BY <1>2, <1>6
       DEF BuildInit, BuildInv, EdgesExact, EdgeConservation,
           PushedBeforeWaiting, GraphExact

\* Every step of the builder keeps the invariant.
LEMMA BuildInvStep == BuildInv /\ [BuildNext]_buildVars => BuildInv'
<1> SUFFICES ASSUME BuildInv, [BuildNext]_buildVars PROVE BuildInv'
  OBVIOUS
<1>1. CASE IndexTxn
  BY <1>1, IndexTxnStep
<1>2. CASE StartEdges
  BY <1>2, StartEdgesStep
<1>3. ASSUME NEW key \in unemitted, EmitKey(key) PROVE BuildInv'
  BY <1>3, EmitKeyStep
<1>4. CASE StartAdjacency
  BY <1>4, StartAdjacencyStep
<1>5. ASSUME NEW e \in edges, PushEdge(e) PROVE BuildInv'
  BY <1>5, PushEdgeStep
<1>6. CASE FinishGraph
  BY <1>6, FinishGraphStep
<1>7. CASE UNCHANGED buildVars
  BY <1>7 DEF buildVars, BuildInv, BuildTypeOK, IndexFaithful, EdgesExact,
              EdgeConservation, PushedBeforeWaiting, GraphExact, Txns,
              Conflicting, Neighbours
<1> QED BY <1>1, <1>2, <1>3, <1>4, <1>5, <1>6, <1>7 DEF BuildNext

\* For every key set and every list of footprints: the types, the exactness of
\* index and edge set while they are built, and the finished graph equal to
\* the one pairwise comparison gives.
THEOREM ConflictGraphCorrect ==
  BuildSpec => [](/\ BuildTypeOK
                  /\ IndexFaithful
                  /\ EdgesExact
                  /\ EdgeConservation
                  /\ GraphExact)
<1>1. BuildInv => /\ BuildTypeOK
                  /\ IndexFaithful
                  /\ EdgesExact
                  /\ EdgeConservation
                  /\ GraphExact
  BY DEF BuildInv
<1> QED BY <1>1, BuildInvInit, BuildInvStep, PTL DEF BuildSpec

-----------------------------------------------------------------------------
GreedyP == INSTANCE GreedySchedulerProofs WITH Graphs <- {}

\* While the graph is built nothing is placed; on the finished graph the
\* greedy scheduler's own invariant holds.
SchedulerInv ==
  /\ BuildInv
  /\ phase # "done" => txn = 1 /\ stages = <<>>
  /\ phase = "done" => GreedyP!GreedyInv

GraphFinished == phase = "done"

\* The finished graph is one the greedy scheduler may be called with, and
\* lists the conflicts of the footprints.
Handover ==
  /\ GreedyP!IsGraph(adjacency)
  /\ Len(adjacency) = Len(footprints)
  /\ Len(footprints) \in Nat
  /\ \A i, j \in Txns :
       j \in ToSet(adjacency[i]) <=> i # j /\ Conflicting(i, j)

\* The instance's reading of a list's elements is this module's.
LEMMA SameToSet == \A list : GreedyP!ToSet(list) = ToSet(list)
BY DEF GreedyP!ToSet, ToSet

\* What the builder leaves is what the scheduler needs.
LEMMA FinishedGraph == BuildInv /\ GraphFinished => Handover
<1> SUFFICES ASSUME BuildInv, phase = "done" PROVE Handover
  BY DEF GraphFinished
<1>1. /\ adjacency \in [Txns -> Seq(Txns)] /\ Len(footprints) \in Nat
      /\ GraphExact
  BY BuildTypes DEF BuildInv, BuildTypeOK
<1>2. adjacency \in Seq(Seq(Txns)) /\ Len(adjacency) = Len(footprints)
  BY <1>1, IsASeq DEF Txns
<1>3. \A i, j \in Txns : j \in ToSet(adjacency[i]) <=> i # j /\ Conflicting(i, j)
  BY <1>1 DEF GraphExact, Neighbours
<1>4. \A i, j \in Txns : Conflicting(i, j) <=> Conflicting(j, i)
  BY ConflictKeysSymmetric DEF Conflicting, ConflictsWith
<1>5. \A i \in Txns : ToSet(adjacency[i]) \subseteq Txns
  BY <1>1, ToSetOver
<1>6. DOMAIN adjacency = Txns /\ Txns = 1..Len(adjacency)
  BY <1>1, <1>2 DEF Txns
<1>7. GreedyP!IsGraph(adjacency)
  BY <1>2, <1>3, <1>4, <1>5, <1>6, SameToSet DEF GreedyP!IsGraph
<1> QED BY <1>1, <1>2, <1>3, <1>7 DEF Handover

\* The invariant holds at the start.
LEMMA SchedulerInvInit == Init => SchedulerInv
BY BuildInvInit DEF Init, BuildInit, SchedulerInv

\* A step of the builder keeps it; the last one hands the graph over.
LEMMA BuildStepKeeps ==
  ASSUME SchedulerInv, BuildStep
  PROVE  SchedulerInv'
<1>1. BuildInv /\ BuildInv' /\ phase # "done"
  BY BuildInvStep DEF SchedulerInv, BuildStep, BuildNext, IndexTxn, StartEdges,
     EmitKey, StartAdjacency, PushEdge, FinishGraph
<1>2. txn = 1 /\ txn' = 1 /\ stages = <<>> /\ stages' = <<>>
  BY <1>1 DEF SchedulerInv, BuildStep
<1>3. ASSUME phase' = "done" PROVE GreedyP!GreedyInv'
  <2>1. Handover'
    <3>1. GraphFinished'
      BY <1>3 DEF GraphFinished
    <3> QED BY <1>1, <3>1, FinishedGraph, PTL
  <2>2. /\ Len(stages') = 0 /\ DOMAIN stages' = {} /\ 1..(txn' - 1) = {}
        /\ stages' \in Seq(Seq(1..Len(adjacency')))
        /\ txn' \in 1..(Len(adjacency') + 1)
    BY <1>2, <2>1, EmptySeq DEF Handover
  <2>3. GreedyP!GreedyTypeOK'
    BY <2>1, <2>2 DEF Handover, GreedyP!GreedyTypeOK
  <2> QED BY <2>2, <2>3 DEF GreedyP!GreedyInv, GreedyP!ExactlyOnce,
             GreedyP!StagesIndependent, GreedyP!EarliestStage
<1> QED BY <1>1, <1>2, <1>3 DEF SchedulerInv

\* The step of the call is a step of the greedy loop.
LEMMA StepIsGreedy == ScheduleStep => GreedyP!GreedyNext
BY SameToSet DEF ScheduleStep, Greedy!GreedyNext, Greedy!PlaceInStage, Greedy!OpenStage,
   Greedy!Fits, GreedyP!GreedyNext, GreedyP!PlaceInStage, GreedyP!OpenStage,
   GreedyP!Fits, Greedy!ToSet, GreedyP!ToSet

\* A step of the scheduler leaves the graph alone and keeps its invariant.
LEMMA ScheduleStepKeeps ==
  ASSUME SchedulerInv, ScheduleStep
  PROVE  SchedulerInv'
<1>1. BuildInv /\ GreedyP!GreedyInv /\ phase = "done" /\ phase' = "done"
  BY DEF SchedulerInv, ScheduleStep
<1>2. GreedyP!GreedyNext
  BY StepIsGreedy
<1>3. GreedyP!GreedyInv'
  BY <1>1, <1>2, GreedyP!GreedyInvStep
<1>4. UNCHANGED buildVars
  BY DEF ScheduleStep, Greedy!GreedyNext, Greedy!PlaceInStage, Greedy!OpenStage, buildVars
<1>5. BuildInv'
  BY <1>1, <1>4, BuildInvStep
<1> QED BY <1>1, <1>3, <1>5 DEF SchedulerInv

\* Every step keeps it.
LEMMA SchedulerInvStep == SchedulerInv /\ [Next]_vars => SchedulerInv'
<1> SUFFICES ASSUME SchedulerInv, [Next]_vars PROVE SchedulerInv'
  OBVIOUS
<1>1. CASE BuildStep
  BY <1>1, BuildStepKeeps
<1>2. CASE ScheduleStep
  BY <1>2, ScheduleStepKeeps
<1>3. CASE UNCHANGED vars
  <2>1. UNCHANGED buildVars /\ UNCHANGED <<adjacency, txn, stages>> /\ phase' = phase
    BY <1>3 DEF vars, buildVars
  <2>2. BuildInv'
    BY <2>1, BuildInvStep DEF SchedulerInv
  <2>3. GreedyP!GreedyInv => GreedyP!GreedyInv'
    BY <2>1, GreedyP!GreedyInvStep DEF GreedyP!greedyVars
  <2> QED BY <2>1, <2>2, <2>3 DEF SchedulerInv
<1> QED BY <1>1, <1>2, <1>3 DEF Next

\* A key that one member of a stage writes is touched by no other member.
LEMMA InvIsolates == SchedulerInv => StagesIsolated
<1> SUFFICES ASSUME SchedulerInv, phase = "done" PROVE StagesIsolated
  BY DEF SchedulerInv, StagesIsolated
<1>1. Handover /\ GreedyP!GreedyTypeOK /\ GreedyP!StagesIndependent
  BY FinishedGraph DEF SchedulerInv, GraphFinished, GreedyP!GreedyInv
<1>2. Txns = 1..Len(adjacency)
  BY <1>1 DEF Handover, Txns
<1>3. ASSUME NEW s \in DOMAIN stages, NEW i \in ToSet(stages[s]),
             NEW j \in ToSet(stages[s]), i # j
      PROVE  footprints[i].read_write \cap Keys(footprints[j]) = {}
  <2>1. stages[s] \in Seq(Txns)
    BY <1>1, <1>2, ElementOfSeq, LenProperties DEF GreedyP!GreedyTypeOK
  <2>2. i \in Txns /\ j \in Txns
    BY <2>1, ToSetOver
  <2>3. j \notin ToSet(adjacency[i])
    BY <1>1, SameToSet DEF GreedyP!StagesIndependent, GreedyP!Adjacent
  <2>4. ~Conflicting(i, j)
    BY <1>1, <1>3, <2>2, <2>3 DEF Handover
  <2> QED BY <2>4, ConflictKeysMember DEF Conflicting, ConflictsWith, Keys
<1> QED BY <1>3 DEF StagesIsolated

\* The scheduled stages may each run in any order or at once: for every key
\* set and every list of footprints, no key one member writes is touched by
\* another.
THEOREM SchedulerIsolates == Spec => []StagesIsolated
BY SchedulerInvInit, SchedulerInvStep, InvIsolates, PTL DEF Spec

-----------------------------------------------------------------------------
\* The loop computes the function: the stages are those of the transactions
\* taken so far.
FollowsSchedule ==
  phase = "done" => stages = PartialSchedules(footprints)[txn - 1]

\* On the finished graph the test against the adjacency list is the test of
\* the footprints.
LEMMA FitsIsFree ==
  ASSUME SchedulerInv, GraphFinished, txn \in Txns, NEW s \in DOMAIN stages
  PROVE  GreedyP!Fits(stages[s]) <=> Free(stages[s], txn, footprints)
<1>1. Handover /\ GreedyP!GreedyTypeOK /\ GreedyP!ExactlyOnce
  BY FinishedGraph DEF SchedulerInv, GraphFinished, GreedyP!GreedyInv
<1>2. Len(footprints) \in Nat
  BY <1>1 DEF Handover
<1>3. ASSUME NEW member \in ToSet(stages[s])
      PROVE  member \in Txns /\ member # txn
  <2>1. member \in 1..(txn - 1)
    BY <1>1, SameToSet DEF GreedyP!ExactlyOnce
  <2> QED BY <1>2, <2>1 DEF Txns
<1>4. ASSUME NEW member \in ToSet(stages[s])
      PROVE  member \notin ToSet(adjacency[txn])
               <=> ~ConflictsWith(footprints[txn], footprints[member])
  BY <1>1, <1>3 DEF Handover, Conflicting
<1> QED BY <1>4, SameToSet DEF GreedyP!Fits, Free

\* Each placement is the next value of the function.
LEMMA FollowsStep ==
  SchedulerInv /\ FollowsSchedule /\ [Next]_vars => FollowsSchedule'
<1> SUFFICES ASSUME SchedulerInv, FollowsSchedule, [Next]_vars PROVE FollowsSchedule'
  OBVIOUS
<1>0. Len(footprints) \in Nat
  BY BuildTypes DEF SchedulerInv, BuildInv
<1>1. CASE BuildStep
  <2>1. /\ phase # "done" /\ footprints' = footprints
        /\ txn' = txn /\ stages' = stages
    BY <1>1 DEF BuildStep, BuildNext, IndexTxn, StartEdges, EmitKey, StartAdjacency,
       PushEdge, FinishGraph
  <2>2. txn' - 1 = 0 /\ stages' = <<>>
    BY <2>1 DEF SchedulerInv
  <2>3. PartialSchedules(footprints)[0] = <<>>
    BY <1>0, PartialShape
  <2> QED BY <2>1, <2>2, <2>3 DEF FollowsSchedule
<1>2. CASE ScheduleStep
  <2>1. /\ phase = "done" /\ footprints' = footprints
        /\ stages = PartialSchedules(footprints)[txn - 1]
    BY <1>2 DEF ScheduleStep, FollowsSchedule
  <2>2. /\ GreedyP!GreedyTypeOK /\ Len(adjacency) = Len(footprints)
        /\ \A list : Greedy!ToSet(list) = ToSet(list)
    BY <2>1, FinishedGraph DEF SchedulerInv, GraphFinished, Handover, GreedyP!GreedyInv,
       Greedy!ToSet, ToSet
  <2>3. txn \in Txns /\ txn' = txn + 1 /\ (txn + 1) - 1 = txn
    BY <1>0, <1>2, <2>2 DEF ScheduleStep, Greedy!GreedyNext, Greedy!PlaceInStage,
       Greedy!OpenStage, GreedyP!GreedyTypeOK, Txns
  <2>4. Len(stages) \in Nat /\ DOMAIN stages = 1..Len(stages)
    BY <2>2, LenProperties DEF GreedyP!GreedyTypeOK
  <2>5. \A s \in 1..Len(stages) :
          Greedy!Fits(stages[s]) <=> Free(stages[s], txn, footprints)
    BY <2>1, <2>3, <2>4, FitsIsFree, SameToSet, <2>2
       DEF GraphFinished, Greedy!Fits, GreedyP!Fits
  <2>6. FreeStages(stages, txn, footprints) \subseteq Nat \ {0}
    BY <2>4 DEF FreeStages
  <2>7. stages' = Join(stages, txn, footprints)
    <3>1. ASSUME NEW s \in DOMAIN stages, Greedy!PlaceInStage(s)
          PROVE  stages' = Join(stages, txn, footprints)
      <4>1. s \in FreeStages(stages, txn, footprints)
        BY <2>4, <2>5, <3>1 DEF FreeStages, Greedy!PlaceInStage
      <4>2. \A earlier \in FreeStages(stages, txn, footprints) : s <= earlier
        BY <2>4, <2>5, <3>1 DEF FreeStages, Greedy!PlaceInStage
      <4>3. Join(stages, txn, footprints) = [stages EXCEPT ![s] = Append(@, txn)]
        BY <2>6, <4>1, <4>2, JoinFirst
      <4> QED BY <3>1, <4>3 DEF Greedy!PlaceInStage
    <3>2. ASSUME Greedy!OpenStage PROVE stages' = Join(stages, txn, footprints)
      <4>1. FreeStages(stages, txn, footprints) = {}
        BY <2>4, <2>5, <3>2 DEF FreeStages, Greedy!OpenStage
      <4> QED BY <3>2, <4>1, JoinOpens DEF Greedy!OpenStage
    <3> QED BY <1>2, <3>1, <3>2 DEF ScheduleStep, Greedy!GreedyNext
  <2>8. PartialSchedules(footprints)[txn]
          = Join(PartialSchedules(footprints)[txn - 1], txn, footprints)
    BY <1>0, <2>3, PartialShape DEF Txns
  <2> QED BY <2>1, <2>3, <2>7, <2>8 DEF FollowsSchedule
<1>3. CASE UNCHANGED vars
  BY <1>3 DEF vars, buildVars, FollowsSchedule
<1> QED BY <1>1, <1>2, <1>3 DEF Next

\* The two agree after every step.
LEMMA AlwaysFollows == Spec => [](SchedulerInv /\ FollowsSchedule)
<1>1. Init => FollowsSchedule
  BY DEF Init, BuildInit, FollowsSchedule
<1> QED BY <1>1, SchedulerInvInit, SchedulerInvStep, FollowsStep, PTL DEF Spec

\* With all transactions placed the function's value is reached.
LEMMA FollowsReturns == SchedulerInv /\ FollowsSchedule => ReturnsScheduleOf
<1> SUFFICES ASSUME SchedulerInv, FollowsSchedule, phase = "done", txn > Len(footprints)
             PROVE  stages = ScheduleOf(footprints)
  BY DEF ReturnsScheduleOf
<1>1. Handover /\ GreedyP!GreedyTypeOK
  BY FinishedGraph DEF SchedulerInv, GraphFinished, GreedyP!GreedyInv
<1>2. txn - 1 = Len(footprints)
  BY <1>1 DEF Handover, GreedyP!GreedyTypeOK
<1> QED BY <1>2 DEF FollowsSchedule, ScheduleOf

\* What the code's loops return is, for every list of footprints, the function
\* that the lane scheduler's model calls once per lane.
THEOREM SchedulerReturnsScheduleOf == Spec => []ReturnsScheduleOf
BY AlwaysFollows, FollowsReturns, PTL

\* For every list of footprints the code's own validators accept the result:
\* free of conflicts, complete, of the right size, each transaction found.
THEOREM SchedulerValidated == Spec => []ValidatorsAccept
<1>1. SchedulerInv /\ FollowsSchedule => ValidatorsAccept
  <2> SUFFICES ASSUME SchedulerInv, FollowsSchedule, phase = "done", txn > Len(footprints)
               PROVE  ValidatorsAccept
    BY DEF ValidatorsAccept
  <2>1. stages = ScheduleOf(footprints)
    BY FollowsReturns DEF ReturnsScheduleOf
  <2>2. Len(footprints) \in Nat
    BY BuildTypes DEF SchedulerInv, BuildInv
  <2>3. ValidUpTo(stages, Len(footprints), footprints, Len(footprints))
    BY <2>1, <2>2, ScheduleValid
  <2> QED BY <2>2, <2>3, ValidatorsOfValid DEF ValidatorsAccept, Txns
<1> QED BY <1>1, AlwaysFollows, PTL

-----------------------------------------------------------------------------
\* The conflicts of the footprints, as the abstract assignment has them.
FootprintConflicts == {e \in Txns \X Txns : e[1] # e[2] /\ Conflicting(e[1], e[2])}

StageOfTxns == [t \in 1..(txn - 1) |-> StageOf(stages, t)]

\* On the finished graph the greedy scheduler's reading of conflicts and of
\* stages is the one of the whole call.
SameReading ==
  /\ FootprintConflicts = GreedyP!AdjacentPairs
  /\ StageOfTxns = GreedyP!StageOfPlaced
  /\ Len(footprints) = Len(adjacency)

\* The readings agree whenever the graph is finished.
LEMMA ReadingsAgree == SchedulerInv /\ GraphFinished => SameReading
<1> SUFFICES ASSUME SchedulerInv, phase = "done" PROVE SameReading
  BY DEF GraphFinished
<1>1. Handover /\ GreedyP!GreedyInv
  BY FinishedGraph DEF SchedulerInv, GraphFinished
<1>2. /\ Len(footprints) = Len(adjacency) /\ Txns = 1..Len(adjacency)
      /\ stages \in Seq(Seq(Txns)) /\ DOMAIN stages = 1..Len(stages)
      /\ \A i, j \in Txns :
           j \in ToSet(adjacency[i]) <=> i # j /\ Conflicting(i, j)
  BY <1>1, LenProperties DEF Handover, Txns, GreedyP!GreedyInv, GreedyP!GreedyTypeOK
<1>3. FootprintConflicts = GreedyP!AdjacentPairs
  <2>1. \A e \in Txns \X Txns :
          e[2] \in GreedyP!ToSet(adjacency[e[1]])
            <=> e[1] # e[2] /\ Conflicting(e[1], e[2])
    BY <1>2, SameToSet
  <2> QED BY <1>2, <2>1 DEF FootprintConflicts, GreedyP!AdjacentPairs
<1>4. EachOnce(stages)
  BY <1>1 DEF EachOnce, GreedyP!GreedyInv, GreedyP!ExactlyOnce
<1>5. ASSUME NEW t \in 1..(txn - 1) PROVE StageOf(stages, t) = GreedyP!StageAt(t)
  <2>1. /\ GreedyP!StageAt(t) \in DOMAIN stages
        /\ t \in ToSet(stages[GreedyP!StageAt(t)])
    BY <1>1, <1>2, GreedyP!StageAtUnique, SameToSet DEF GreedyP!StageAtReadable
  <2> QED BY <1>2, <1>4, <2>1, StageOfIs
<1>6. StageOfTxns = GreedyP!StageOfPlaced
  BY <1>5 DEF StageOfTxns, GreedyP!StageOfPlaced
<1> QED BY <1>2, <1>3, <1>6 DEF SameReading

\* A step on the finished graph is an abstract placement.
LEMMA ScheduleStepPlaces ==
  ASSUME SchedulerInv, ScheduleStep
  PROVE  Assignment!AssignNext
<1>1. /\ phase = "done" /\ phase' = "done" /\ SchedulerInv' /\ GreedyP!GreedyInv
      /\ footprints' = footprints
  BY ScheduleStepKeeps DEF SchedulerInv, ScheduleStep
<1>2. GraphFinished /\ GraphFinished'
  BY <1>1 DEF GraphFinished
<1>3. SameReading /\ SameReading'
  BY <1>1, <1>2, ReadingsAgree, PTL
<1>4. GreedyP!GreedyNext
  BY StepIsGreedy
<1>5. GreedyP!Assignment!AssignNext
  BY <1>1, <1>4, GreedyP!StepPlaces
<1>6. Len(footprints)' = Len(adjacency)'
  BY <1>3 DEF SameReading
<1>7. /\ FootprintConflicts = GreedyP!AdjacentPairs
      /\ FootprintConflicts' = GreedyP!AdjacentPairs'
      /\ StageOfTxns = GreedyP!StageOfPlaced
      /\ StageOfTxns' = GreedyP!StageOfPlaced'
      /\ txn..Len(footprints) = txn..Len(adjacency)
      /\ (txn..Len(footprints))' = (txn..Len(adjacency))'
  BY <1>3, <1>6 DEF SameReading
<1>8. Assignment!Placed = GreedyP!Assignment!Placed
  BY <1>7 DEF Assignment!Placed, GreedyP!Assignment!Placed, StageOfTxns
<1>9. \A t, s : Assignment!Blocked(t, s) <=> GreedyP!Assignment!Blocked(t, s)
  <2>1. \A t, s : Assignment!Blocked(t, s) <=>
          \E u \in Assignment!Placed : StageOfTxns[u] = s /\ <<t, u>> \in FootprintConflicts
    BY DEF Assignment!Blocked, StageOfTxns, FootprintConflicts
  <2> QED BY <1>7, <1>8, <2>1 DEF GreedyP!Assignment!Blocked
<1>10. Assignment!CandidateStages = GreedyP!Assignment!CandidateStages
  <2>1. Assignment!CandidateStages = {1} \cup {StageOfTxns[u] + 1 : u \in Assignment!Placed}
    BY DEF Assignment!CandidateStages, StageOfTxns
  <2> QED BY <1>7, <1>8, <2>1 DEF GreedyP!Assignment!CandidateStages
<1>11. PICK t \in txn..Len(adjacency), stage \in GreedyP!Assignment!CandidateStages :
         GreedyP!Assignment!Place(t, stage)
  BY <1>5 DEF GreedyP!Assignment!AssignNext
<1>12. /\ ~GreedyP!Assignment!Blocked(t, stage)
       /\ \A earlier \in 1..(stage - 1) : GreedyP!Assignment!Blocked(t, earlier)
       /\ GreedyP!StageOfPlaced' =
            [u \in GreedyP!Assignment!Placed \cup {t} |->
               IF u = t THEN stage ELSE GreedyP!StageOfPlaced[u]]
       /\ (txn..Len(adjacency))' = (txn..Len(adjacency)) \ {t}
       /\ GreedyP!AdjacentPairs' = GreedyP!AdjacentPairs
  BY <1>11 DEF GreedyP!Assignment!Place
<1>13. /\ StageOfTxns' = [u \in Assignment!Placed \cup {t} |->
                            IF u = t THEN stage ELSE StageOfTxns[u]]
       /\ FootprintConflicts' = FootprintConflicts
       /\ (txn..Len(footprints))' = (txn..Len(footprints)) \ {t}
  BY <1>7, <1>8, <1>12
<1>14. Assignment!Place(t, stage)
  BY <1>7, <1>9, <1>11, <1>12, <1>13 DEF Assignment!Place, StageOfTxns, FootprintConflicts
<1> QED BY <1>7, <1>10, <1>11, <1>14 DEF Assignment!AssignNext

\* Building the graph is invisible to the abstract assignment.
LEMMA BuildStepStutters ==
  ASSUME BuildStep
  PROVE  UNCHANGED Assignment!assignVars
<1>1. UNCHANGED <<footprints, txn, stages>>
  BY DEF BuildStep, BuildNext, IndexTxn, StartEdges, EmitKey, StartAdjacency,
     PushEdge, FinishGraph
<1> QED BY <1>1 DEF Assignment!assignVars, Txns, Conflicting

\* At the start nobody is placed.
LEMMA InitAssignsNothing == Init => Assignment!AssignInit
<1> SUFFICES ASSUME Init PROVE Assignment!AssignInit
  OBVIOUS
<1>1. txn = 1 /\ 1..(txn - 1) = {} /\ txn..Len(footprints) = Txns
  BY DEF Init, Txns
<1>2. \A i, j \in Txns : Conflicting(i, j) <=> Conflicting(j, i)
  BY ConflictKeysSymmetric DEF Conflicting, ConflictsWith
<1>3. [t \in 1..(txn - 1) |-> StageOf(stages, t)] = [u \in {} |-> 1]
  BY <1>1
<1> QED BY <1>1, <1>2, <1>3 DEF Assignment!AssignInit

\* The whole call, from the footprints to the schedule, implements the
\* abstract assignment for the conflicts of the footprints.
THEOREM SchedulerRefinesAssignment == Spec => ImplementsAssignment
<1>1. SchedulerInv /\ [Next]_vars => [Assignment!AssignNext]_(Assignment!assignVars)
  <2> SUFFICES ASSUME SchedulerInv, [Next]_vars
               PROVE  [Assignment!AssignNext]_(Assignment!assignVars)
    OBVIOUS
  <2>1. CASE BuildStep
    BY <2>1, BuildStepStutters
  <2>2. CASE ScheduleStep
    BY <2>2, ScheduleStepPlaces
  <2>3. CASE UNCHANGED vars
    BY <2>3 DEF vars, buildVars, Assignment!assignVars, Txns, Conflicting
  <2> QED BY <2>1, <2>2, <2>3 DEF Next
<1> QED BY <1>1, SchedulerInvInit, SchedulerInvStep, InitAssignsNothing, PTL
       DEF Spec, ImplementsAssignment, Assignment!AssignSpec

-----------------------------------------------------------------------------
\* One key is walked per step, so the loop over the keys ends only if they are
\* finitely many; footprints that go on to be scored are finite.
KeysCounted ==
  /\ phase = "edges" => IsFiniteSet(Key \ unemitted)
  /\ phase \in {"adjacency", "done"} => IsFiniteSet(Key)

\* Nothing is counted before the loop over the keys.
LEMMA KeysCountedInit == Init => KeysCounted
BY DEF Init, BuildInit, KeysCounted

\* Every step keeps it.
LEMMA KeysCountedStep == BuildTypeOK /\ KeysCounted /\ [Next]_vars => KeysCounted'
<1> SUFFICES ASSUME BuildTypeOK, KeysCounted, [Next]_vars PROVE KeysCounted'
  OBVIOUS
<1>1. CASE IndexTxn
  BY <1>1 DEF IndexTxn, KeysCounted
<1>2. CASE StartEdges
  <2>1. Key \ unemitted' = {} /\ phase' = "edges"
    BY <1>2 DEF StartEdges
  <2> QED BY <2>1, FS_EmptySet DEF KeysCounted
<1>3. ASSUME NEW key \in unemitted, EmitKey(key) PROVE KeysCounted'
  <2>1. /\ phase = "edges" /\ phase' = "edges" /\ key \in Key
        /\ Key \ unemitted' = (Key \ unemitted) \cup {key}
    BY <1>3 DEF EmitKey, BuildTypeOK
  <2>2. IsFiniteSet((Key \ unemitted) \cup {key})
    BY <2>1, FS_AddElement DEF KeysCounted
  <2> QED BY <2>1, <2>2 DEF KeysCounted
<1>4. CASE StartAdjacency
  <2>1. Key \ unemitted = Key /\ phase = "edges" /\ phase' = "adjacency"
    BY <1>4 DEF StartAdjacency
  <2> QED BY <2>1 DEF KeysCounted
<1>5. CASE \E e \in edges : PushEdge(e)
  BY <1>5 DEF PushEdge, KeysCounted
<1>6. CASE FinishGraph
  BY <1>6 DEF FinishGraph, KeysCounted
<1>7. CASE ScheduleStep
  BY <1>7 DEF ScheduleStep, KeysCounted
<1>8. CASE UNCHANGED vars
  BY <1>8 DEF vars, buildVars, KeysCounted
<1> QED BY <1>1, <1>2, <1>3, <1>4, <1>5, <1>6, <1>7, <1>8 DEF Next, BuildStep, BuildNext

\* The state a report is made from.
ReportInv == SchedulerInv /\ FollowsSchedule /\ KeysCounted

\* It always holds.
LEMMA AlwaysReportInv == Spec => []ReportInv
<1>1. SchedulerInv => BuildTypeOK
  BY DEF SchedulerInv, BuildInv
<1> QED BY <1>1, AlwaysFollows, KeysCountedInit, KeysCountedStep, PTL DEF Spec, ReportInv

\* What is scored is finite.
LEMMA ScoredFinite == ReportInv /\ Scheduled => FiniteFootprints(footprints)
BY DEF ReportInv, SchedulerInv, BuildInv, BuildTypeOK, KeysCounted, Scheduled, FiniteFootprints

\* For every list of footprints the ranking is a prefix of every longer one and
\* leaves out no key that more transactions write.
THEOREM HotKeysAlwaysRanked == Spec => []HotKeysRanked
<1>1. ASSUME ReportInv, Scheduled, NEW top_n \in 0..Cardinality(Key)
      PROVE  LET hot    == RankHotKeys(footprints, top_n)
                 listed == {hot[k].key : k \in DOMAIN hot}
      IN /\ Len(hot) = Min({top_n, Cardinality(TouchedKeys(footprints))})
         /\ Cardinality(listed) = Len(hot)
         /\ \A key \in TouchedKeys(footprints) \ listed : \A k \in DOMAIN hot :
              Cardinality(Writers(footprints, key)) <= hot[k].writes
         /\ \A k \in DOMAIN hot :
              (\A i \in Txns : hot[k].key \notin
                 footprints[i].read_only \cap footprints[i].read_write)
              => hot[k].touch_count =
                   Cardinality({i \in Txns : hot[k].key \in Keys(footprints[i])})
  <2>1. FiniteFootprints(footprints) /\ top_n \in Nat
    BY <1>1, ScoredFinite
  <2> DEFINE hot    == RankHotKeys(footprints, top_n)
             listed == {hot[k].key : k \in DOMAIN hot}
  <2>2. RankedFor(hot, listed, footprints, top_n)
    BY <2>1, RankingHolds
  <2> QED BY <2>2 DEF Txns, RankedFor
<1>2. ReportInv => HotKeysRanked
  BY <1>1 DEF HotKeysRanked
<1> QED BY <1>2, AlwaysReportInv, PTL

-----------------------------------------------------------------------------
\* The finished graph's edges are the conflicts of the footprints.
LEMMA EdgesAreClashes ==
  ASSUME ReportInv, Scheduled
  PROVE  /\ Edges = ClashingPairs(footprints)
         /\ \A key : EdgesOn(key) = ClashingOn(footprints, key)
         /\ \A i \in Txns : Len(adjacency[i]) = ConflictCount(footprints, i)
<1>1. /\ BuildInv /\ Handover /\ phase = "done" /\ FiniteFootprints(footprints)
      /\ adjacency \in [Txns -> Seq(Txns)] /\ Txns \subseteq Nat
  BY FinishedGraph, ScoredFinite, BuildTypes
     DEF ReportInv, SchedulerInv, Scheduled, GraphFinished, BuildInv, BuildTypeOK
<1>2. \A i, j \in Txns :
        j \in ToSet(adjacency[i]) <=> i # j /\ ConflictsWith(footprints[i], footprints[j])
  BY <1>1 DEF Handover, Conflicting
<1>3. \A e \in Txns \X Txns : e[1] \in Txns /\ e[2] \in Txns /\ (e[1] < e[2] => e[1] # e[2])
  <2>1. \A a, b \in Txns : a < b => a # b
    BY <1>1
  <2> QED BY <2>1
<1>4. Edges = ClashingPairs(footprints)
  BY <1>2, <1>3 DEF Edges, ClashingPairs, Txns
<1>5. ASSUME NEW key PROVE EdgesOn(key) = ClashingOn(footprints, key)
  <2>1. \A a, b : key \in ConflictKeys(a, b) => ConflictsWith(a, b)
    BY DEF ConflictsWith
  <2> QED BY <1>4, <2>1 DEF EdgesOn, ClashingPairs, ClashingOn, Txns
<1>6. ASSUME NEW i \in Txns PROVE Len(adjacency[i]) = ConflictCount(footprints, i)
  <2>1. adjacency[i] \in Seq(Txns) /\ Len(adjacency[i]) \in Nat
        /\ DOMAIN adjacency[i] = 1..Len(adjacency[i])
    BY <1>1, LenProperties
  <2>2. Ascending(adjacency[i]) /\ ToSet(adjacency[i]) = Neighbours(i)
    BY <1>1 DEF BuildInv, GraphExact
  <2>3. \A p \in DOMAIN adjacency[i] : adjacency[i][p] \in Nat
    BY <1>1, <2>1, ElementOfSeq
  <2>4. ASSUME NEW p \in DOMAIN adjacency[i], NEW q \in DOMAIN adjacency[i],
               adjacency[i][p] = adjacency[i][q]
        PROVE  p = q
    <3>1. p \in Nat /\ q \in Nat /\ (p < q => adjacency[i][p] < adjacency[i][q])
          /\ (q < p => adjacency[i][q] < adjacency[i][p])
      BY <2>1, <2>2 DEF Ascending
    <3>2. adjacency[i][p] \in Nat
      BY <2>3
    <3> QED BY <2>4, <3>1, <3>2
  <2>5. Cardinality(ToSet(adjacency[i])) = Len(adjacency[i])
    BY <2>1, <2>4, InjectiveSize
  <2>6. DOMAIN footprints = Txns
    BY <1>1, CountsFinite DEF Txns
  <2>7. Neighbours(i) = {j \in DOMAIN footprints \ {i} :
                           ConflictsWith(footprints[i], footprints[j])}
    BY <2>6 DEF Neighbours, Conflicting
  <2> QED BY <2>2, <2>5, <2>7 DEF ConflictCount
<1> QED BY <1>4, <1>5, <1>6

\* For every list of footprints the three counts agree.
THEOREM ConflictsAlwaysCountedAlike == Spec => []ConflictsCountedAlike
<1>1. ASSUME ReportInv, Scheduled PROVE ConflictsCountedAlike
  <2> DEFINE summary == Summarize(footprints, adjacency, stages, TopN)
             metrics == ComputeMetrics(footprints, stages)
             counts  == [i \in DOMAIN metrics |-> metrics[i].conflict_count]
             lengths == [i \in Txns |-> Len(adjacency[i])]
             list    == KeyContention(footprints, DefaultModel)
  <2>1. /\ FiniteFootprints(footprints) /\ DOMAIN footprints = Txns
        /\ Edges = ClashingPairs(footprints)
        /\ \A key : EdgesOn(key) = ClashingOn(footprints, key)
        /\ \A i \in Txns : Len(adjacency[i]) = ConflictCount(footprints, i)
    BY <1>1, EdgesAreClashes, ScoredFinite, CountsFinite DEF Txns
  <2>2. /\ summary.total_conflicts = SumFunction(counts)
        /\ summary.key_contention = list
    BY DEF Summarize, SummarizeWithModel
  <2>3. SumFunction(counts) = 2 * Cardinality(Edges)
    <3>1. /\ DOMAIN counts = 1..Len(footprints)
          /\ \A i \in 1..Len(footprints) : counts[i] = ConflictCount(footprints, i)
      BY <2>1 DEF ComputeMetrics, Txns
    <3> HIDE DEF counts
    <3> QED BY <2>1, <3>1, ConflictCountsTwice
  <2>4. SumFunction(lengths) = 2 * Cardinality(Edges)
    <3>1. /\ DOMAIN lengths = 1..Len(footprints)
          /\ \A i \in 1..Len(footprints) : lengths[i] = ConflictCount(footprints, i)
      BY <2>1 DEF Txns
    <3> HIDE DEF lengths
    <3> QED BY <2>1, <3>1, ConflictCountsTwice
  <2> HIDE DEF summary, counts, metrics
  <2>5. /\ {list[k].key : k \in DOMAIN list} = TouchedKeys(footprints)
        /\ \A k \in DOMAIN list :
             /\ list[k].key \in TouchedKeys(footprints)
             /\ list[k] = KeyCost(footprints, list[k].key, DefaultModel)
    BY <2>1, ContentionListsKeys
  <2> HIDE DEF list
  <2>6. ASSUME NEW k \in DOMAIN list
        PROVE  list[k].conflict_pairs =
                 Cardinality(EdgesOn(list[k].key))
                   + Cardinality(Writers(footprints, list[k].key))
                       * Cardinality(Writers(footprints, list[k].key)
                                       \cap Readers(footprints, list[k].key))
    <3> DEFINE key == list[k].key
    <3>1. KeyCost(footprints, key, DefaultModel).conflict_pairs =
           Cardinality(ClashingOn(footprints, key))
             + Cardinality(Writers(footprints, key))
                 * Cardinality(Writers(footprints, key) \cap Readers(footprints, key))
      BY <2>1, PairsCounted
    <3>2. list[k] = KeyCost(footprints, key, DefaultModel)
      BY <2>5
    <3> HIDE DEF key
    <3>3. list[k].conflict_pairs =
           Cardinality(EdgesOn(key))
             + Cardinality(Writers(footprints, key))
                 * Cardinality(Writers(footprints, key) \cap Readers(footprints, key))
      BY <2>1, <3>1, <3>2
    <3> QED BY <3>3 DEF key
  <2>7. Edges = UNION {EdgesOn(key) : key \in TouchedKeys(footprints)}
    <3>1. ASSUME NEW e \in Edges
          PROVE  \E key \in TouchedKeys(footprints) : e \in EdgesOn(key)
      <4>1. /\ e \in Txns \X Txns /\ e[1] \in Txns
            /\ ConflictsWith(footprints[e[1]], footprints[e[2]])
        BY <2>1 DEF ClashingPairs, Txns
      <4>2. PICK key : key \in ConflictKeys(footprints[e[1]], footprints[e[2]])
        BY <4>1 DEF ConflictsWith
      <4>3. key \in Keys(footprints[e[1]])
        BY <4>2 DEF ConflictKeys, Keys
      <4>4. key \in TouchedKeys(footprints)
        BY <2>1, <4>1, <4>3 DEF TouchedKeys
      <4> QED BY <4>2, <4>4 DEF EdgesOn
    <3>2. \A key : EdgesOn(key) \subseteq Edges
      BY DEF EdgesOn
    <3> QED BY <3>1, <3>2
  <2>8. /\ summary.total_conflicts = 2 * Cardinality(Edges)
        /\ summary.total_conflicts = SumFunction(lengths)
        /\ {summary.key_contention[k].key : k \in DOMAIN summary.key_contention} =
             TouchedKeys(footprints)
    BY <2>2, <2>3, <2>4, <2>5
  <2>9. \A k \in DOMAIN summary.key_contention :
         LET entry   == summary.key_contention[k]
             writers == Writers(footprints, entry.key)
             twice   == writers \cap Readers(footprints, entry.key)
         IN entry.conflict_pairs =
              Cardinality(EdgesOn(entry.key)) + Cardinality(writers) * Cardinality(twice)
    BY <2>2, <2>6
  <2> QED BY <2>7, <2>8, <2>9 DEF ConflictsCountedAlike, summary, lengths
<1>2. ReportInv => ConflictsCountedAlike
  BY <1>1 DEF ConflictsCountedAlike
<1> QED BY <1>2, AlwaysReportInv, PTL

-----------------------------------------------------------------------------
\* No stage of the finished call is without members.
Inhabited == phase = "done" => GreedyP!StagesInhabited

\* Every step keeps it: a stage is opened with its first member.
LEMMA InhabitedStep == SchedulerInv /\ Inhabited /\ [Next]_vars => Inhabited'
<1> SUFFICES ASSUME SchedulerInv, Inhabited, [Next]_vars PROVE Inhabited'
  OBVIOUS
<1>1. CASE BuildStep
  <2>1. phase # "done" /\ stages' = stages
    BY <1>1 DEF BuildStep, BuildNext, IndexTxn, StartEdges, EmitKey, StartAdjacency,
       PushEdge, FinishGraph
  <2>2. stages' = <<>> /\ Len(<<>>) = 0
    BY <2>1, EmptySeq DEF SchedulerInv
  <2>3. 1..Len(stages') = {}
    BY <2>2
  <2> QED BY <2>3 DEF Inhabited, GreedyP!StagesInhabited
<1>2. CASE ScheduleStep
  <2>1. GreedyP!GreedyInv /\ phase = "done" /\ phase' = "done"
    BY <1>2 DEF SchedulerInv, ScheduleStep
  <2>2. GreedyP!GreedyNext
    BY <1>2, StepIsGreedy
  <2>3. GreedyP!StagesInhabited'
    BY <2>1, <2>2, GreedyP!InhabitedPreserved DEF Inhabited
  <2> QED BY <2>1, <2>3 DEF Inhabited
<1>3. CASE UNCHANGED vars
  <2>1. UNCHANGED stages /\ UNCHANGED phase
    BY <1>3 DEF vars, buildVars
  <2> QED BY <2>1 DEF Inhabited, GreedyP!StagesInhabited, GreedyP!ToSet
<1> QED BY <1>1, <1>2, <1>3 DEF Next

\* It always holds.
LEMMA AlwaysInhabited == Spec => [](ReportInv /\ Inhabited)
<1>1. Init => Inhabited
  BY DEF Init, BuildInit, Inhabited
<1>2. ReportInv => SchedulerInv
  BY DEF ReportInv
<1> QED BY <1>1, <1>2, AlwaysReportInv, InhabitedStep, PTL DEF Spec

\* What the stages of the finished schedule are to its transactions: each is at
\* one depth, above it there are earlier neighbours of it at every depth, and
\* conflicting ones are at different depths.
DepthsFound(depth, m) ==
  /\ m \in Nat
  /\ depth \in [Txns -> 1..m]
  /\ \A i \in Txns : depth[i] > 1 =>
       \E u \in Earlier(adjacency, i) : depth[u] = depth[i] - 1
  /\ \A s \in 1..m : \E t \in Txns : depth[t] = s
  /\ \A i, j \in Txns : i # j /\ Conflicting(i, j) => depth[i] # depth[j]

\* The stage of a transaction is such a depth.
LEMMA StagesAreDepths ==
  ASSUME ReportInv, Inhabited, Scheduled,
         NEW depth, depth = [i \in Txns |-> StageOf(stages, i)]
  PROVE  DepthsFound(depth, Len(stages))
<1>1. /\ Handover /\ GreedyP!GreedyTypeOK /\ GreedyP!ExactlyOnce
      /\ GreedyP!StagesIndependent /\ GreedyP!EarliestStage
      /\ GreedyP!StageAtReadable /\ GreedyP!StagesInhabited
  BY FinishedGraph, GreedyP!StageAtUnique
     DEF ReportInv, Inhabited, Scheduled, SchedulerInv, GraphFinished, GreedyP!GreedyInv
<1>2. /\ Len(footprints) \in Nat /\ Len(adjacency) = Len(footprints)
      /\ Txns = 1..(txn - 1) /\ Txns = 1..Len(adjacency)
      /\ stages \in Seq(Seq(Txns)) /\ DOMAIN stages = 1..Len(stages) /\ Len(stages) \in Nat
  <2>1. /\ Len(footprints) \in Nat /\ Len(adjacency) = Len(footprints)
        /\ txn \in 1..(Len(adjacency) + 1) /\ txn > Len(footprints)
        /\ stages \in Seq(Seq(1..Len(adjacency)))
    BY <1>1 DEF Handover, GreedyP!GreedyTypeOK, Scheduled
  <2>2. txn - 1 = Len(footprints)
    BY <2>1
  <2> QED BY <2>1, <2>2, LenProperties DEF Txns
<1>3. EachOnce(stages)
  BY <1>1 DEF EachOnce, GreedyP!ExactlyOnce
<1>4. ASSUME NEW i \in Txns
      PROVE  depth[i] \in 1..Len(stages) /\ i \in ToSet(stages[depth[i]])
  <2>1. /\ GreedyP!StageAt(i) \in 1..Len(stages)
        /\ i \in ToSet(stages[GreedyP!StageAt(i)])
    BY <1>1, <1>2, SameToSet DEF GreedyP!StageAtReadable
  <2>2. StageOf(stages, i) = GreedyP!StageAt(i)
    BY <1>2, <1>3, <2>1, StageOfIs
  <2> QED BY <2>1, <2>2
<1>5. ASSUME NEW s \in 1..Len(stages), NEW i \in ToSet(stages[s])
      PROVE  i \in Txns /\ depth[i] = s
  <2>1. i \in Txns
    BY <1>1, <1>2, SameToSet DEF GreedyP!StageAtReadable
  <2>2. StageOf(stages, i) = s
    BY <1>2, <1>3, StageOfIs
  <2> QED BY <2>1, <2>2
<1>6. depth = [i \in Txns |-> depth[i]]
  OBVIOUS
<1>7. depth \in [Txns -> 1..Len(stages)]
  BY <1>4, <1>6
<1>8. ASSUME NEW i \in Txns, depth[i] > 1
      PROVE  \E u \in Earlier(adjacency, i) : depth[u] = depth[i] - 1
  <2>1. depth[i] \in 1..Len(stages) /\ i \in ToSet(stages[depth[i]])
    BY <1>4
  <2>2. depth[i] - 1 \in 1..(depth[i] - 1) /\ depth[i] - 1 \in 1..Len(stages)
    BY <1>2, <1>8, <2>1
  <2>3. PICK u \in ToSet(stages[depth[i] - 1]) : u < i /\ u \in ToSet(adjacency[i])
    BY <1>1, <1>2, <2>1, <2>2, SameToSet DEF GreedyP!EarliestStage, GreedyP!Adjacent
  <2>4. depth[u] = depth[i] - 1
    BY <1>5, <2>2, <2>3
  <2> QED BY <2>3, <2>4 DEF Earlier
<1>9. ASSUME NEW s \in 1..Len(stages) PROVE \E t \in Txns : depth[t] = s
  <2>1. PICK t : t \in ToSet(stages[s])
    BY <1>1, SameToSet DEF GreedyP!StagesInhabited
  <2> QED BY <1>5, <2>1
<1>10. ASSUME NEW i \in Txns, NEW j \in Txns, i # j, Conflicting(i, j)
       PROVE  depth[i] # depth[j]
  <2>1. j \in ToSet(adjacency[i])
    BY <1>1, <1>10 DEF Handover
  <2>2. i \in ToSet(stages[depth[i]]) /\ depth[i] \in DOMAIN stages
        /\ j \in ToSet(stages[depth[j]])
    BY <1>2, <1>4
  <2> QED BY <1>1, <2>1, <2>2, SameToSet DEF GreedyP!StagesIndependent, GreedyP!Adjacent
<1> QED BY <1>2, <1>7, <1>8, <1>9, <1>10 DEF DepthsFound

\* The finished graph, with weights of one and with the costs of the footprints.
LEMMA GraphsWeighted ==
  ASSUME ReportInv, Scheduled,
         NEW costs, costs = [i \in Txns |-> AccessCost(footprints[i], DefaultModel)]
  PROVE  /\ Len(footprints) \in Nat /\ Txns = 1..Len(footprints) /\ DOMAIN adjacency = Txns
         /\ Weighted(adjacency, costs, Len(footprints))
         /\ Weighted(adjacency, [i \in Txns |-> 1], Len(footprints))
<1>1. /\ BuildInv /\ phase = "done" /\ FiniteFootprints(footprints)
      /\ adjacency \in [Txns -> Seq(Txns)]
  BY ScoredFinite
     DEF ReportInv, SchedulerInv, Scheduled, BuildInv, BuildTypeOK
<1>2. Len(footprints) \in Nat /\ Txns = 1..Len(footprints) /\ DOMAIN adjacency = Txns
  BY <1>1, CountsFinite DEF Txns
<1>3. \A i \in Txns : ToSet(adjacency[i]) \subseteq Txns
  BY <1>1, ToSetOver
<1>4. ASSUME NEW i \in Txns PROVE costs[i] \in Nat
  <2>1. /\ IsFiniteSet(footprints[i].read_only)
        /\ IsFiniteSet(footprints[i].read_write)
    BY <1>1, <1>2, CountsFinite
  <2>2. /\ Cardinality(footprints[i].read_only) \in Nat
        /\ Cardinality(footprints[i].read_write) \in Nat
    BY <2>1, FS_CardinalityType
  <2>3. costs[i] = (Cardinality(footprints[i].read_only)
                      + Cardinality(footprints[i].read_write)) * 1
                     + Cardinality(footprints[i].read_write) * 2
    BY DEF AccessCost, DefaultModel
  <2> QED BY <2>2, <2>3
<1>5. costs = [i \in Txns |-> costs[i]]
  OBVIOUS
<1>6. costs \in [1..Len(footprints) -> Nat]
  BY <1>2, <1>4, <1>5
<1>7. [i \in Txns |-> 1] \in [1..Len(footprints) -> Nat]
  BY <1>2
<1> QED BY <1>2, <1>3, <1>6, <1>7 DEF Weighted

\* For every list of footprints the reported figures bound one another.
THEOREM FiguresAlwaysBounded == Spec => []FiguresBoundOneAnother
<1>1. ASSUME ReportInv, Inhabited, Scheduled PROVE FiguresBoundOneAnother
  <2> DEFINE n      == Len(footprints)
             report == ProfileReport
             hot    == RankHotKeys(footprints, TopN)
             costs  == [i \in Txns |-> AccessCost(footprints[i], DefaultModel)]
             ones   == [i \in Txns |-> 1]
             depth  == [i \in Txns |-> StageOf(stages, i)]
             chains == HeaviestChains(adjacency, ones)
             weights == HeaviestChains(adjacency, costs)
             length == Max({0} \cup Range(chains))
             weight == Max({0} \cup Range(weights))
             m      == Len(stages)
  <2>1. /\ n \in Nat /\ Txns = 1..n /\ DOMAIN adjacency = Txns
        /\ Weighted(adjacency, costs, n) /\ Weighted(adjacency, ones, n)
    BY <1>1, GraphsWeighted
  <2>2. DepthsFound(depth, m)
    BY <1>1, StagesAreDepths
  <2>3. /\ report.stage_count = m
        /\ report.hot_keys = hot
        /\ report.transaction_count = n
        /\ report.critical_path_length = length
        /\ report.weighted_critical_path_weight = weight
    BY <2>1 DEF ProfileReport, Summarize, SummarizeWithModel, StageCount,
       CriticalPathLength, CriticalPathWeight
  <2>4. \A i \in 1..n : ones[i] = 1
    BY <2>1
  <2>5. /\ chains = HeaviestChains(adjacency, ones)
        /\ weights = HeaviestChains(adjacency, costs)
        /\ length = Max({0} \cup Range(chains))
        /\ weight = Max({0} \cup Range(weights))
        /\ hot = RankHotKeys(footprints, TopN)
        /\ \A i \in Txns : depth[i] = StageOf(stages, i)
    OBVIOUS
  <2> HIDE DEF report, hot, costs, ones, depth, chains, weights, length, weight, n, m
  <2>6. /\ m \in Nat /\ depth \in [1..n -> 1..m] /\ depth \in [1..n -> Nat]
        /\ \A i \in 1..n : depth[i] > 1 =>
             \E u \in Earlier(adjacency, i) : depth[u] = depth[i] - 1
    BY <2>1, <2>2 DEF DepthsFound
  <2>7. \A i \in 1..n : depth[i] <= chains[i]
    BY <2>1, <2>4, <2>5, <2>6, DepthBelowChain
  <2>8. TopBetween(length, chains, n, n)
    BY <2>1, <2>4, <2>5, LengthBounded
  <2>9. weight <= SumFunction(costs) /\ \A i \in 1..n : costs[i] <= weight
    BY <2>1, <2>5, WeightBounded
  <2>10. m <= length
    <3>1. CASE m = 0
      BY <2>8, <3>1 DEF TopBetween
    <3>2. CASE m # 0
      <4>1. m \in 1..m
        BY <2>6, <3>2
      <4>2. PICK t \in 1..n : depth[t] = m
        BY <2>1, <2>2, <4>1 DEF DepthsFound
      <4>3. m <= chains[t] /\ chains[t] <= length /\ length \in Nat
        BY <2>7, <2>8, <4>2 DEF TopBetween
      <4>4. chains[t] \in Nat
        BY <2>1, <2>5, HeaviestAre
      <4> QED BY <2>6, <4>3, <4>4
    <3> QED BY <3>1, <3>2
  <2>11. FiniteFootprints(footprints) /\ TopN \in Nat
    BY <1>1, ScoredFinite DEF TopN
  <2>12. ASSUME NEW key PROVE Cardinality(Writers(footprints, key)) <= m
    <3>1. \A i, j \in 1..n : i # j /\ ConflictsWith(footprints[i], footprints[j])
                               => depth[i] # depth[j]
      BY <2>1, <2>2 DEF DepthsFound, Conflicting
    <3> QED BY <2>6, <2>11, <3>1, WritersApart DEF n
  <2>13. \A k \in DOMAIN hot : hot[k].writes <= m
    BY <2>5, <2>11, <2>12, HotWritesBounded
  <2>14. \A k \in DOMAIN report.hot_keys : report.hot_keys[k].writes <= report.stage_count
    BY <2>3, <2>13
  <2>15. ASSUME NEW i \in Txns
         PROVE  /\ StageOf(stages, i) <= HeaviestChains(adjacency, [j \in Txns |-> 1])[i]
                /\ costs[i] <= report.weighted_critical_path_weight
    BY <2>1, <2>3, <2>5, <2>7, <2>9 DEF ones
  <2>16. /\ report.stage_count <= report.critical_path_length
         /\ report.critical_path_length <= report.transaction_count
         /\ report.weighted_critical_path_weight <= SumFunction(costs)
    BY <2>3, <2>8, <2>9, <2>10 DEF TopBetween
  <2> QED BY <2>14, <2>15, <2>16 DEF FiguresBoundOneAnother, report, costs
<1>2. ReportInv /\ Inhabited => FiguresBoundOneAnother
  BY <1>1 DEF FiguresBoundOneAnother
<1> QED BY <1>2, AlwaysInhabited, PTL

-----------------------------------------------------------------------------
\* The abstract assignment, on its own variables.
\* The conflicts are a graph without loops.
ConflictsInv ==
  \A pair \in conflicts : pair[1] # pair[2] /\ <<pair[2], pair[1]>> \in conflicts

\* Nobody is placed twice.
UnplacedInv == Placed \cap unplaced = {}

AssignInv == ConflictsInv /\ UnplacedInv /\ ConflictsSeparated /\ EarliestPossible

\* It holds before anybody is placed.
LEMMA AssignStarts == AssignInit => AssignInv
BY DEF AssignInit, AssignInv, ConflictsInv, UnplacedInv, ConflictsSeparated,
       EarliestPossible, Placed

\* The newcomer's stage is free of its conflicts, and so, the relation being
\* symmetric, of transactions in conflict with it; nobody else moves.
LEMMA PlaceKeeps ==
  ASSUME AssignInv, NEW t, NEW stage, Place(t, stage)
  PROVE  AssignInv'
<1>1. /\ Placed' = Placed \cup {t} /\ t \notin Placed
      /\ stageOf'[t] = stage
      /\ \A u \in Placed : stageOf'[u] = stageOf[u]
      /\ unplaced' = unplaced \ {t} /\ conflicts' = conflicts
  BY DEF AssignInv, UnplacedInv, Place, Placed
<1>2. ConflictsInv' /\ UnplacedInv'
  BY <1>1 DEF AssignInv, ConflictsInv, UnplacedInv
<1>3. ConflictsSeparated'
  <2>1. ASSUME NEW u \in Placed', NEW v \in Placed', <<u, v>> \in conflicts
        PROVE  stageOf'[u] # stageOf'[v]
    <3>1. u # v /\ <<v, u>> \in conflicts
      BY <2>1 DEF AssignInv, ConflictsInv
    <3>2. CASE u = t
      BY <1>1, <2>1, <3>1, <3>2 DEF Place, Blocked
    <3>3. CASE v = t
      BY <1>1, <2>1, <3>1, <3>3 DEF Place, Blocked
    <3>4. CASE u # t /\ v # t
      BY <1>1, <2>1, <3>4 DEF AssignInv, ConflictsSeparated
    <3> QED BY <3>2, <3>3, <3>4
  <2> QED BY <1>1, <2>1 DEF ConflictsSeparated
<1>4. EarliestPossible'
  <2>1. ASSUME NEW u, NEW s, Blocked(u, s) PROVE Blocked(u, s)'
    BY <1>1, <2>1 DEF Blocked
  <2>2. ASSUME NEW u \in Placed', NEW earlier \in 1..(stageOf'[u] - 1)
        PROVE  Blocked(u, earlier)
    <3>1. CASE u = t
      BY <1>1, <2>2, <3>1 DEF Place
    <3>2. CASE u # t
      BY <1>1, <2>2, <3>2 DEF AssignInv, EarliestPossible
    <3> QED BY <3>1, <3>2
  <2> QED BY <2>1, <2>2 DEF EarliestPossible
<1> QED BY <1>2, <1>3, <1>4 DEF AssignInv

\* Whatever the order of placing: no two conflicting transactions share a
\* stage, and each is in the earliest stage its conflicts leave free.
THEOREM AssignmentSeparates == AssignSpec => [](ConflictsSeparated /\ EarliestPossible)
<1>1. AssignInv /\ [AssignNext]_assignVars => AssignInv'
  <2>1. AssignInv /\ AssignNext => AssignInv'
    BY PlaceKeeps DEF AssignNext
  <2>2. AssignInv /\ UNCHANGED assignVars => AssignInv'
    <3> SUFFICES ASSUME AssignInv, UNCHANGED assignVars PROVE AssignInv'
      OBVIOUS
    <3>1. UNCHANGED <<conflicts, unplaced, stageOf>> /\ Placed' = Placed
      BY DEF assignVars, Placed
    <3>2. ConflictsInv' /\ UnplacedInv' /\ ConflictsSeparated'
      BY <3>1 DEF AssignInv, ConflictsInv, UnplacedInv, ConflictsSeparated
    <3>3. \A u, s : Blocked(u, s)' <=> Blocked(u, s)
      BY <3>1 DEF Blocked
    <3>4. EarliestPossible'
      BY <3>1, <3>3 DEF AssignInv, EarliestPossible
    <3> QED BY <3>2, <3>4 DEF AssignInv
  <2> QED BY <2>1, <2>2
<1>2. AssignInv => ConflictsSeparated /\ EarliestPossible
  BY DEF AssignInv
<1> QED BY AssignStarts, <1>1, <1>2, PTL DEF AssignSpec
=============================================================================
