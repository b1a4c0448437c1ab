------------------------------ MODULE Profile ------------------------------
(***************************************************************************)
(* profile (crates/replay) and simulate (crates/cli): a set of footprints  *)
(* is scheduled, and the graph and the stages are scored.  Scheduler is    *)
(* the machine; what is reported is a function of its final state.         *)
(***************************************************************************)
EXTENDS Scheduler, Score

Scheduled == phase = "done" /\ txn > Len(footprints)

\* profile always asks for ten hot keys.
TopN == 10

ProfileReport ==
  LET summary == Summarize(footprints, adjacency, stages, TopN) IN
  [transaction_count  |-> Len(footprints),
   distinct_keys      |-> Cardinality(TouchedKeys(footprints)),
   stage_count        |-> summary.stage_count,
   critical_path_length |-> summary.critical_path,
   weighted_critical_path_weight |-> summary.weighted_critical_path,
   total_conflicts    |-> summary.total_conflicts,
   hot_keys           |-> summary.hot_keys,
   schedule           |-> stages]

\* The synthetic sets: every transaction reads the configuration and writes
\* one drawn key, every fifth a shard of its own range.  The generator's
\* numbers are arbitrary draws; no draw exists from zero keys, where the
\* code's remainder panics.
SimulatedKey(config, distinct, i, draw) ==
  config + 1 + (IF (i - 1) % 5 = 0 THEN draw ELSE distinct + draw)

SimulatedSets(config, distinct, transactions) ==
  {[i \in 1..transactions |->
      ReadWrite(Read(EmptyFootprint, config), SimulatedKey(config, distinct, i, draws[i]))] :
     draws \in [1..transactions -> 0..(distinct - 1)]}

-----------------------------------------------------------------------------
\* The reported figures bound one another: the writers of one key sit in as
\* many different stages, a transaction sits no deeper than the longest chain
\* that ends at it, so the chain bounds the stages from above, and its weight
\* is no less than the costliest transaction's and no more than the sum.
FiguresBoundOneAnother ==
  Scheduled =>
    LET report == ProfileReport
        costs  == [i \in Txns |-> AccessCost(footprints[i], DefaultModel)]
    IN /\ \A k \in DOMAIN report.hot_keys :
            report.hot_keys[k].writes <= report.stage_count
       /\ \A i \in Txns :
            /\ StageOf(stages, i) <= HeaviestChains(adjacency, [j \in Txns |-> 1])[i]
            /\ costs[i] <= report.weighted_critical_path_weight
       /\ report.stage_count <= report.critical_path_length
       /\ report.critical_path_length <= report.transaction_count
       /\ report.weighted_critical_path_weight <= SumFunction(costs)

\* The conflicts are counted three ways, pairwise over the footprints, per
\* key over lists, and in the graph, and the counts agree: twice the graph's
\* edges, and per key the pairs that conflict on it plus, for every
\* transaction that holds the key in both of its sets, once per writer.
Edges == {e \in Txns \X Txns : e[1] < e[2] /\ e[2] \in ToSet(adjacency[e[1]])}

EdgesOn(key) ==
  {e \in Edges : key \in ConflictKeys(footprints[e[1]], footprints[e[2]])}

ConflictsCountedAlike ==
  Scheduled =>
    LET summary == Summarize(footprints, adjacency, stages, TopN) IN
    /\ summary.total_conflicts = 2 * Cardinality(Edges)
    /\ summary.total_conflicts =
         SumFunction([i \in Txns |-> Len(adjacency[i])])
    /\ {summary.key_contention[k].key : k \in DOMAIN summary.key_contention} =
         TouchedKeys(footprints)
    /\ \A k \in DOMAIN summary.key_contention :
         LET entry   == summary.key_contention[k]
             writers == Writers(footprints, entry.key)
             twice   == writers \cap Readers(footprints, entry.key)
         IN entry.conflict_pairs =
              Cardinality(EdgesOn(entry.key)) + Cardinality(writers) * Cardinality(twice)
    /\ Edges = UNION {EdgesOn(key) : key \in TouchedKeys(footprints)}

\* A truncated ranking is a prefix of the longer ones and never leaves out a
\* key that more transactions write than a listed one; without a key in both
\* sets of a footprint the reads of a key are the transactions touching it.
HotKeysRanked ==
  Scheduled =>
    \A top_n \in 0..Cardinality(Key) :
      LET hot    == RankHotKeys(footprints, top_n)
          listed == {hot[k].key : k \in DOMAIN hot}
      IN /\ Len(hot) = Min({top_n, Cardinality(TouchedKeys(footprints))})
         /\ Cardinality(listed) = Len(hot)
         /\ \A key \in TouchedKeys(footprints) \ listed : \A k \in DOMAIN hot :
              Cardinality(Writers(footprints, key)) <= hot[k].writes
         /\ \A k \in DOMAIN hot :
              (\A i \in Txns : hot[k].key \notin
                 footprints[i].read_only \cap footprints[i].read_write)
              => hot[k].touch_count =
                   Cardinality({i \in Txns : hot[k].key \in Keys(footprints[i])})
=============================================================================
