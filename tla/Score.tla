------------------------------- MODULE Score -------------------------------
(***************************************************************************)
(* The contention metrics of crates/score: what each transaction costs and *)
(* how often it conflicts, which keys are hot, and which keys cause the    *)
(* conflicts.  The reported chain is module CriticalPath; here only its    *)
(* length or weight matters, as a function of the graph.  Floating-point   *)
(* ratios are left out, and sums are natural numbers.                      *)
(***************************************************************************)
EXTENDS Schedule, Ranking

DefaultModel == [read |-> 1, write |-> 2]

UniformModel == [read |-> 1, write |-> 1]

\* A written key is charged as a read as well.
AccessCost(fp, model) ==
  (Cardinality(fp.read_only) + Cardinality(fp.read_write)) * model.read
    + Cardinality(fp.read_write) * model.write

ConflictCount(footprints, i) ==
  Cardinality({j \in DOMAIN footprints \ {i} :
                 ConflictsWith(footprints[i], footprints[j])})

ComputeMetrics(footprints, stages) ==
  [i \in DOMAIN footprints |->
     [footprint_size |-> KeyCount(footprints[i]),
      write_count    |-> WriteCount(footprints[i]),
      conflict_count |-> ConflictCount(footprints, i),
      stage          |-> StageOf(stages, i)]]

\* The weight of the heaviest chain that ends at each transaction: only
\* neighbours with a lower index can come before it.
HeaviestChains(adjacency, costs) ==
  LET heaviest[i \in DOMAIN adjacency] ==
        costs[i] + Max({0} \cup {heaviest[j] : j \in {k \in ToSet(adjacency[i]) : k < i}})
  IN heaviest

\* Mutant of CriticalPathLength: the chain is extended at its end only, so
\* the heaviest single step stands for it.
CriticalPathLengthShort(adjacency) ==
  Max({0} \cup {IF \E j \in ToSet(adjacency[i]) : j < i THEN 2 ELSE 1 :
                  i \in DOMAIN adjacency})

CriticalPathLength(adjacency) ==
  Max({0} \cup Range(HeaviestChains(adjacency, [i \in DOMAIN adjacency |-> 1])))

CriticalPathWeight(adjacency, footprints, model) ==
  Max({0} \cup Range(HeaviestChains(adjacency,
        [i \in DOMAIN adjacency |-> AccessCost(footprints[i], model)])))

Readers(footprints, key) == {i \in DOMAIN footprints : key \in footprints[i].read_only}
Writers(footprints, key) == {i \in DOMAIN footprints : key \in footprints[i].read_write}
TouchedKeys(footprints) == UNION {Keys(footprints[i]) : i \in DOMAIN footprints}

\* A write counts as a read too: a key in both sets of a footprint is read
\* twice by it.
HotKey(footprints, key) ==
  LET writes == Cardinality(Writers(footprints, key))
      reads  == Cardinality(Readers(footprints, key)) + writes
  IN [key |-> key, reads |-> reads, writes |-> writes, touch_count |-> reads]

\* Mutant of Hotter: a key that is only read often comes before a written one.
ReadHotter(a, b) ==
  \/ a.reads > b.reads
  \/ a.reads = b.reads /\ a.key < b.key

Hotter(a, b) ==
  \/ a.writes > b.writes
  \/ a.writes = b.writes /\ a.reads > b.reads
  \/ a.writes = b.writes /\ a.reads = b.reads /\ a.key < b.key

RankHotKeys(footprints, top_n) ==
  LET hot == Ranked({HotKey(footprints, key) : key \in TouchedKeys(footprints)}, Hotter)
  IN SubSeq(hot, 1, Min({top_n, Len(hot)}))

\* Mutant of ConflictPairs: only pairs of writers are counted.
WriterPairsOnly(writers, readers) ==
  [ww |-> (writers * (writers - 1)) \div 2, wr |-> 0]

\* Pairs of two writers, and of a writer and a reader: the two may be one
\* transaction that holds the key in both of its sets.
ConflictPairs(writers, readers) ==
  [ww |-> (writers * (writers - 1)) \div 2, wr |-> writers * readers]

KeyCost(footprints, key, model) ==
  LET pairs == ConflictPairs(Cardinality(Writers(footprints, key)),
                             Cardinality(Readers(footprints, key)))
  IN [key            |-> key,
      conflict_pairs |-> pairs.ww + pairs.wr,
      cost           |-> pairs.ww * 2 * model.write
                           + pairs.wr * (model.write + model.read)]

Costlier(a, b) == a.cost > b.cost \/ (a.cost = b.cost /\ a.key < b.key)

KeyContention(footprints, model) ==
  Ranked({KeyCost(footprints, key, model) : key \in TouchedKeys(footprints)}, Costlier)

SummarizeWithModel(footprints, adjacency, stages, top_n, model) ==
  LET metrics == ComputeMetrics(footprints, stages) IN
  [transaction_count  |-> Len(footprints),
   distinct_keys      |-> Cardinality(TouchedKeys(footprints)),
   stage_count        |-> StageCount(stages),
   total_conflicts    |-> SumFunction([i \in DOMAIN metrics |-> metrics[i].conflict_count]),
   critical_path      |-> CriticalPathLength(adjacency),
   weighted_critical_path |-> CriticalPathWeight(adjacency, footprints, model),
   hot_keys           |-> RankHotKeys(footprints, top_n),
   key_contention     |-> KeyContention(footprints, model)]

Summarize(footprints, adjacency, stages, top_n) ==
  SummarizeWithModel(footprints, adjacency, stages, top_n, DefaultModel)
=============================================================================
