# Slipstream in TLA+

This directory is a verification development for Slipstream, an analytical engine that
predicts how a set of Soroban transactions (or the contracts behind them) will contend for
ledger keys under CAP-0063 style parallel execution. The modules are translated from the
Rust sources; TLC checks them on small instances and TLAPS proves the main results for
every value of the constants.

## 1. Inventory

Slipstream is a sequential, deterministic program: no threads, no persistence, and no messages
except in one capture script. What is hard in it is not concurrency but *order*: indices that are
right only because of the order they were filled in, tables read while they are filled, caches
that outlive the call that filled them, a visitor's context saved and put back around nested
nodes, and answers rebuilt from data another loop wrote. The capture script is the exception: it
pages through a chain that grows meanwhile, over a network that fails.

| Component (source) | State | Operations | Interacts with | Hard behaviour | What makes it correct |
|---|---|---|---|---|---|
| Footprints (`crates/footprint`) | two key sets per transaction; a key may be in both | `read`, `read_write`, `conflict_keys`, `conflicts_with`, `overlaps`, `overlap` | everything below | a key in both sets of one footprint | the conflict relation is symmetric and is what the stages separate |
| Conflict graph (`scheduler/src/lib.rs` 84-151) | per-key index, sorted edge set, adjacency lists | `build_conflict_graph` | read by the scheduler and the score | writer pairs are ordered only by the order of the index; one pair conflicts on several keys in several roles | the graph of pairwise comparison, lists ascending |
| Greedy scheduler (`scheduler/src/lib.rs` 17-82, 153-186) | stages so far | `greedy_schedule`, `schedule`, validators of `Schedule` | consumes the graph | every placement depends on all earlier ones; the newcomer's list alone is asked | complete, conflict free, each in its earliest stage |
| Lanes (`scheduler/src/lib.rs` 188-435) | groups by lane id, finished lanes | `schedule_lanes`, two policies, functions of `LaneSchedule` | calls `schedule` per lane over a sub-list | local positions mapped back; an open trait that may break its contract; conflicts split between stages and reports | a partition; every conflict separated or reported |
| Critical path (`score/src/lib.rs` 140-170, 259-294) | `longest`, `prev` tables, the path | `critical_path`, `critical_path_weighted` | reads the graph and the costs | the table is read while it is filled; ties | the reported chain is a chain, of the reported weight, and none is heavier |
| Contention metrics (`score/src/lib.rs`, the rest) | none | `compute_metrics`, `rank_hot_keys`, `key_contention`, `access_cost`, `summarize` | reads footprints, graph, schedule; read by `profile` | keys in both sets; the same conflicts counted by pairs, by keys and by edges | the counts agree, the figures bound one another |
| Effective footprints (`analyzer/src/lib.rs` 259-341) | memo shared by all roots, visiting set, recursion | `compute_effective`, the report loop | fed by call resolution | cycles, and a memo filled inside a cycle | sound, exact off cycles, terminates |
| Call resolution (`analyzer/src/lib.rs` 173-257, 640-707) | function index, edges, unresolved calls | `analyze_set`, `aggregate*` | takes the visitor's records, feeds effective footprints and the reports | ambiguity, functions without accesses, ignored names, the order of files | every call is an edge or reported; exact where everything resolves |
| Visitor and key extraction (`analyzer/src/lib.rs` 373-638) | current function, loop depth | `StorageVisitor`, `classify`, `call_receiver`, `extract_key`, ... | `syn` trees; the records feed detectors and call resolution | functions inside loops inside functions, trait methods, accesses inside arguments of accesses | every access recorded once, under the right function and loop |
| Detectors (`analyzer/src/detectors.rs`) | none | four passes over access records | the visitor's records; the report | dynamic keys; functions of one name | no instance of a pattern missed, no finding without its reason |
| Capture codec (`replay/src/xdr.rs`) | read position, what was decoded so far | reader, writer, `decode_capture`, `encode_capture` | archive source | padding, length prefixes, truncation, a changed byte | round trip; no cut document accepted; no byte skipped |
| Profile sources (`replay/src/lib.rs`) | none | `load` of four sources, `profile` | codec, capture tool's document, scheduler, score | keys spelled differently that name one entry; keys in both sets | loaded transactions conflict as their entries do |
| Command line (`crates/cli`) | LCG of `simulate` | `scan`, `profile`, `simulate`, `diff` | all crates | functions of one name merged across files; remainder by zero | the deltas add up |
| Capture tool (`tools/capture_mainnet.py`) | page cursor, captured transactions, output file | paging, retry, sorting, writing | Stellar RPC | errors, lost answers, repeated cursors, a growing chain, failure after the file is opened | no transaction twice, none skipped; a whole document only of a complete capture |
| Fixture generator (a script) | none | writes one constant fixture | the codec's format | - | - |

## 2. Modules

| Module | Models | State and actions |
|---|---|---|
| `Footprint` | `TransactionFootprint`, `overlap` | operators; a key is its rank in `LedgerKey`'s derived order |
| `ConflictGraph` | `build_conflict_graph` | `index` and `cursor` (`IndexTxn`), `unemitted` and `edges` (`EmitKey`), `adjacency` (`PushEdge`); `phase` says which loop runs |
| `StageAssignment` | abstract: what stage construction promises | `conflicts`, `unplaced`, `stageOf`; `Place` in any order, earliest free stage |
| `GreedyScheduler` | `greedy_schedule` on an arbitrary graph | `txn`, `stages`; `PlaceInStage`, `OpenStage` |
| `Schedule` | the `Schedule` value and its functions; `schedule` as a function (`ScheduleOf`) | operators |
| `Scheduler` | `schedule`: builder, then greedy loop on its result | extends `ConflictGraph`, instantiates `GreedyScheduler` |
| `Score` | `crates/score` without the reported chain: costs, hot keys, contention per key, summaries | operators |
| `Profile` | `profile` of `crates/replay`, and the synthetic sets of `simulate` | `Scheduler` is the machine; the report is a function of its final state |
| `Lanes` | `schedule_lanes` and `LaneSchedule` | `Assign` (any vector the policy may return; a wrong length panics), `GroupTxn`, `ScheduleLane`, `Return`; calls `ScheduleOf` per lane |
| `CriticalPath` | `critical_path`, `critical_path_weighted` | `Relax`/`Skip`/`NextTxn` fill the tables, `ChooseEnd`, `StepBack`, `ReturnPath` |
| `Expression` | which method calls of an expression are storage accesses, of which key, and which may be calls of other contracts | recursive operators over a small grammar of `syn` expressions |
| `AccessRecords` | what the visitor leaves of a file, and the aggregation per function | operators over access records |
| `Detectors` | the four detectors | operators over access records |
| `StorageVisitor` | `analyze` of one file: the visitor, then aggregation and detectors | `open` (the nodes being visited, each with what it saved), `current_fn`, `loop_depth`, records; `EnterFn`, `EnterTraitFn`, `EnterLoop`, their `Leave...`, `VisitStatement`, `Finish` |
| `CallResolution` | the first half of `analyze_set` | `index`, `edges`, `unresolved`; `IndexFile`, `LinkCall`, `ReportAmbiguous`, `SkipNoise`, `ReportMissing`, ... |
| `EffectiveFootprint` | `compute_effective` and its callers | `stack`, `visiting`, `memo`, `effective`; `EnterRoot`, `Descend`, `MemoHit`, `CycleCut`, `CompleteCall`, `CompleteRoot`, `ReportMemoized` |
| `Reports` | totals, per-function metrics and `diff` of `crates/cli` | operators over reports |
| `AnalyzeSet` | `analyze_set` as a whole | extends `CallResolution` and `EffectiveFootprint`; `HandOver` gives the walk the program that was linked; the reports are a function of the final state |
| `Ranking` | sorting by a comparison (`Ranked`) | an operator, used by `Score` and for the report order |
| `Codec` | the capture document: writing, and one read of each field | operators over bytes; `Then` is the `?` operator; `ValidUtf8`, the standard library's, is a constant |
| `Replay` | `decode_capture` and the loading of a transaction set from it | `pos`, `capture`, `records`, `record`, `keys`; one step per header, record head, key and array |
| `CaptureTool` | `tools/capture_mainnet.py` and the service it reads | `wire` (the one call in flight), `attempt`, `cursor`, `captures`, `out`; `AskPage`, `ReceivePage`, `Retry`, `Abort`, `SortCaptures`, `OpenOut`, `WriteDocument`, `Report`; `Interrupt` breaks it off anywhere, between opening and writing too; the service's `ServePage`, `Fault`, `CloseLedger` |
| `SequenceFacts`, `ScheduleFacts` | lemmas | on sequences, recursive functions, rankings and sums; on the functions of `Schedule` and `Score` |
| `GreedySchedulerProofs`, `SchedulerProofs` (with `ConflictGraph` and `StageAssignment`), `LanesProofs`, `CriticalPathProofs`, `AnalyzerProofs` (with `EffectiveFootprint`, `CallResolution`, `AnalyzeSet` and `StorageVisitor`), `CaptureProofs` (with `CaptureTool`, `Replay` and `Codec`) | proofs | section 4 |
| `MC*` | the instances of section 3 | |

Conventions. Transactions, stages and functions are numbered from 1 where the code counts from 0,
and 0 stands for `None`. One step is one iteration of a loop of the code, one visited node, or one
answer of a recursive call. Operators introduced by a comment "Mutant of ..." are faulty variants
of the definition below them: no specification uses them; `PROJECT.json` names the property each of
them breaks, which shows that the property says something about that definition.

The composition follows the calls. `Scheduler` runs `ConflictGraph` and then `GreedyScheduler` on
the lists the builder left, and `Profile` scores what comes out; `Lanes` calls the whole of
`schedule` once per lane, through the function `ScheduleOf`, which the invariant
`ReturnsScheduleOf` of `Scheduler` ties to the loops. In the same way `Score` needs only the
length and weight of the critical path and has them as a recurrence over the graph
(`HeaviestChains`), while `CriticalPath` checks the loops against all chains. `AnalyzeSet` hands
the result of `CallResolution` to `EffectiveFootprint`, and `ProgramWellFormed` says that the walk
is given what its own run takes from `ProgramsAssumption`. `Replay` and `CaptureTool` end where their documents
are turned into transactions with the footprints of `Footprint`.

`CriticalPath` has no phase for its unweighted twin: `critical_path` is the same two loops with
every cost one. `EffectiveFootprint` gives every function its own set of accesses and ignores the
order in which a report lists them. In `StorageVisitor` the file is not an input: the tree is
chosen as the walk meets it, and the auxiliary variable `sites` remembers what was met, and the auxiliary
`number` of a node tells functions of one name apart, so that the
properties compare the records with what the statements do. Every statement of the instance
carries its effects, written down by hand next to the expression: the recursive extraction is
checked against them and not against itself. What a statement adds to the records is a parameter of
the machine (`AccessesIn`, `CallsIn`), and the instance gives it the operators of `Expression`; the
machine and its proofs are thus independent of the grammar. In `Replay` a document keeps the capture it encodes
and what was done to its bytes.

The service in `CaptureTool` is outside the repository. It is modelled by what the script relies
on: transactions in the order of the chain, each with a hash of its own, continuing behind the cursor, an empty page only if
nothing is left. A page may be shorter than the limit, the last one may come with or without a
cursor, the chain grows between any two steps, an answer may be lost or replaced by an error. The
script sends its start ledger together with the cursor; the modelled service honours the cursor.

## 3. Runs

| Run | Instance | Distinct states | Shows |
|---|---|---|---|
| `greedy` | every graph on up to 5 transactions | 6,505 | `ExactlyOnce`, `EarliestStage`, the colouring bound `StageBound`, and the refinement of `StageAssignment` |
| `scheduler` | two keys; every list of up to 3 footprints (a key in both sets included), every list of 4 without self-overlap; synthetic sets of 6 transactions over two shards and two plain keys | 209,336 | footprints to stages to figures: no edge is lost or doubled while the builder fills its lists (`EdgeConservation`), the result is the graph of pairwise comparison (`GraphExact`), the code's validators accept (`ValidatorsAccept`), the loops compute `ScheduleOf`, stage members are isolated (`StagesIsolated`), stages, chains and costs bound one another (`FiguresBoundOneAnother`), conflicts counted by pairs, keys and edges agree (`ConflictsCountedAlike`), the ranking loses no hotter key (`HotKeysRanked`), refinement of `StageAssignment` with the footprints' own conflicts |
| `lanes` | two keys, six footprint kinds, lists of up to 4; every assignment to ids 0 and 3, the crate's policies, answers too short and too long | 218,237 | nobody is lost between groups and lanes (`PartitionKept`), local positions come back as global ones (`LanesValid`), every conflict is separated or reported (`ConflictsAccounted`), order (`LanesOrdered`), no schedule from a broken answer (`NoPartialSchedule`) |
| `critical_path` | every graph on up to 4 transactions, costs 0, 1, 3 | 67,990 | the tables hold the weight of the heaviest of all chains (`LongestExact`), the path read back from them is a chain (`PathIsChain`), of the reported weight, and the heaviest (`ReportsHeaviest`) |
| `effective` | every call graph on 3 functions with up to 2 calls each (self and repeated calls included), on 4 functions with up to 2 calls to others | 176,026 | the stack is a simple chain (`SimpleChain`), results are sound (`MemoSound`) and final (`MemoFinal`), exact off cycles and for untouched roots (`ExactOffCycles`, `FreshRootsExact`), the walk ends (`Terminates`) |
| `effective_exact` | the same | violation | `EveryRootExact`, the documented promise, fails: see section 6 |
| `scan` | trees of up to 5 nodes, two function names, six statements in the shapes the documentation names | 1,109,821 | the records of a statement are its effects in any context that occurs (`StatementsRecorded`), every access and client call is recorded once under the right function and loop (`EffectsRecorded`), the detectors miss no pattern in functions that have names of their own and report nothing without its reason (`PatternsFound`) |
| `scan_same_name` | the same | violation | `SharedKeysFound`, the documented promise, fails for functions of one name: see section 6 |
| `analyze_set` | two files, functions with and without accesses of the same and of different names, every list of up to 2 calls in the first file and 1 in the second, library-like and other names | 188,272 | linking gives the walk a well-formed program whatever the order of files and calls (`ProgramWellFormed`), no call to a function with accesses goes unmentioned (`NoAccessMissedSilently`), exact where everything resolves (`ExactWhereResolved`), the deltas of `diff` add up (`DeltasAddUp`) |
| `analyze_set_dropped` | the same | violation | `NeverSilentlyDropped`, the documented promise, fails: see section 6 |
| `replay` | whole captures of up to 2 records over 8 keys, strings of every length modulo 4; one capture cut at every byte, changed in every byte to 7 values, followed by up to 3 bytes | 82,555 | a capture decodes to what it encodes, an accepted document is consumed without a gap (`DecodesFaithfully`), a cut one is never taken for a smaller one (`CutDocumentsRejected`), loaded transactions conflict exactly on the ledger entries of the document (`EntriesDecideConflicts`) |
| `capture` | every chain of up to 5 transactions in ledgers 1 to 4, up to two in a ledger; window 2 to 3, at most 3 wanted, pages of 2, 4 attempts | 99,843 | what has been captured is the beginning of the window (`CapturedPrefix`), the output file is opened only for a document that is complete up to the ledger it names, and a whole file holds that, wherever the script is broken off (`DocumentComplete`), the capture ends (`Settles`) |

Why the bounds are enough to be interesting. Conflicts are between pairs, but what an index can
get wrong needs three writers of one key, a reader before a writer, and a pair that meets on two
keys: all occur with two keys and three footprints; four give the greedy loop second stages with
several members. Five vertices are enough for a greedy colouring that is worse than the best one
and for stages of three. Two lanes with non-adjacent ids and four transactions give lanes whose
local positions differ from the global ones. A chain of four with a costly detour exercises every
outcome of the relaxation, and the cost 0 (an empty footprint) makes ties. Three functions are
enough for a memo filled inside a cycle, four for a cycle entered from outside and left again.
Five nodes (`MaxNodes`) are a function in a loop in a function with a statement inside and one
behind, and two functions with two statements each, which is what the detectors compare. Two files
make a name ambiguous, defined only later, or defined with accesses in one file and without in the
other; three calls make a chain, and a cycle across the files. Every field of the codec occurs
with every padding, the last one included, so that a cut may fall into the padding at the end. A
window of three transactions or more with pages of two needs a second page, may be cut by the
limit, and may be closed only while the tool is paging (`LastLedger` bounds the growth). Four
attempts are the script's own number.

Every run ends: the programs return, so the runs do not check for deadlock. That they return with
an answer is what `Terminates`, `Settles` and the "done" cases of the other properties say.

Fairness. `EffectiveFootprint` and `AnalyzeSet` state weak fairness of the whole next-state
relation: the single thread that runs the analysis keeps running. `CaptureTool` states weak fairness of the
script's own steps, and of the answers to a call in flight: the script gives every call 30 seconds
and treats a missing answer as an error, so each call gets some answer, although not a helpful one,
and no fairness is assumed between errors and results. Everything else is safety and is checked
without fairness playing a part.

## 4. Proofs

All theorems hold for every value of the constants: any set of keys, any set of input lists, any
set of graphs, any policy, any program, any chain, any capture. Every safety property of the runs
`greedy`, `scheduler`, `lanes`, `critical_path`, `effective`, `analyze_set`, `replay` and `capture` is
proved, and those of `scan` that go beyond a single statement.

The conflict graph and the stages.

* `SchedulerProofs!ConflictGraphCorrect`: `BuildTypeOK`, `IndexFaithful`, `EdgesExact`,
  `EdgeConservation` and `GraphExact`. Taken together with the fact that
  the loops run one after the other they are inductive: the exact, ascending index makes the edges of
  one key exact and ordered; exact edges start the adjacency phase with every conflict waiting;
  pushing the least edge moves one conflict from the set to both lists and keeps them ascending.
* `GreedySchedulerProofs!GreedySchedulerCorrect`: `GreedyTypeOK`, `ExactlyOnce`,
  `StagesIndependent`, `EarliestStage` from `GraphsAssumption` (both ends of an edge list each
  other, nobody lists itself). Symmetry is what makes it enough to ask the newcomer's list.
* `GreedySchedulerProofs!GreedyStageBound`: `StageBound`. Every member of the last stage has, by
  `EarliestStage`, a neighbour in each stage before it; the neighbours are different because the
  stages are disjoint, so there are no more such stages than elements of its list. The invariant adds
  that no stage is empty (`StagesInhabited`).
* `GreedySchedulerProofs!GreedyRefinesAssignment`: the greedy loop implements `StageAssignment`
  under the mapping that reads the conflicts from the adjacency lists and the stage of a
  transaction from the stages; each step of the loop is a `Place`.
* `GreedySchedulerProofs!GreedyPlacedStays`: a placed transaction never moves.
* `SchedulerProofs!AssignmentSeparates`: what the abstract promise is worth. Whatever the
  order of placing, no two conflicting transactions share a stage and each is in the earliest stage
  its conflicts leave free. The invariant adds that the relation has no loops and is symmetric, and
  that nobody is placed twice.
* `SchedulerProofs!SchedulerIsolates`: `StagesIsolated` for the composition: the builder's
  theorem gives, when the greedy loop starts, a graph that satisfies its assumption, and adjacency
  is then conflict of footprints.
* `SchedulerProofs!SchedulerReturnsScheduleOf`: `ReturnsScheduleOf`. The inductive invariant
  `FollowsSchedule` says that after every transaction the stages of the loop are the corresponding
  entry of the recursive function `PartialSchedules`; the two choose the same stage because an
  adjacency list meets a stage exactly if the footprints conflict.
* `SchedulerProofs!SchedulerValidated`: `ValidatorsAccept`. `ScheduleFacts!ScheduleValid` shows,
  entry by entry of `PartialSchedules` (`ValidUpTo`, `JoinValid`), that the stages of `ScheduleOf`
  hold every transaction once and separate conflicts; counting their members gives what
  `is_complete` compares (`TotalCounts`).
* `SchedulerProofs!SchedulerRefinesAssignment`: the composition implements `StageAssignment` with
  the footprints' own conflicts: the builder's steps stutter, and the greedy steps are those of the
  instance above.

The figures reported of the stages. They count transactions and keys, so the invariant `ReportInv`
adds `KeysCounted`: the builder walks one key per step, so whenever the graph is finished the keys
are finitely many.

* `SchedulerProofs!HotKeysAlwaysRanked`: `HotKeysRanked`. `Hotter` orders any two entries
  (`HotterOrders`), and in such an order an entry further back has more entries ahead of it, so the
  list that has at place `k` the entry with `k - 1` ahead of it has every entry once, in order
  (`SequenceFacts!RankedList`); a prefix of it leaves out nothing hotter.
* `SchedulerProofs!ConflictsAlwaysCountedAlike`: `ConflictsCountedAlike`. A sum over a finite set is
  the number of pairs of an index and one of as many elements (`SumCounts`). The conflicts of all
  transactions are then the ordered pairs that conflict, twice the ascending ones
  (`TwiceAscending`), and the formula over the writers and readers of a key is a count of the same
  kind (`ClashesCounted`), in which a transaction that is both appears once per writer.
* `SchedulerProofs!FiguresAlwaysBounded`: `FiguresBoundOneAnother`. The recursion of
  `HeaviestChains` is well founded (`HeaviestAre`), so an entry is the cost of its transaction,
  alone or on top of an earlier neighbour's entry. By `EarliestStage` a transaction has an earlier
  neighbour in the stage before its own, which bounds its stage by the chain
  (`DepthBelowChain`); no stage is empty (`Inhabited`), so the number of stages is such a depth.
  A chain ascends, so it never outweighs the costs of the transactions up to its end
  (`ChainsBelowSums`); and the writers of a key, being in conflict, are in different stages
  (`WritersApart`).

The lanes.

* `LanesProofs!LanesPartition`: `PartitionKept`. Where a transaction is, is a matter of its id: the
  inductive invariant `PartitionInv` says that a group or a lane holds transactions of its own id
  only, that no lane has the id of a waiting group or of another lane, and that every grouped
  transaction is in the group or the lane of its id. Uniqueness, which the run counts, follows.
* `LanesProofs!NoPartialLanes`: `NoPartialSchedule`, from the part of that invariant that says how
  far the loops have come.
* `LanesProofs!LanesInOrder`: `LanesOrdered`. `OrderInv` says that groups are filled in the order
  of the set and that every finished lane has a smaller id than every waiting group. A policy that
  uses one lane then leaves one group that lists all transactions in order, whose schedule is the
  flat one, and no lane has more stages than members.
* `LanesProofs!LanesValidated`: `LanesValid`. A returned lane is its group, scheduled by
  `ScheduleOf` over the sub-list; the local positions lead back injectively, so that validity over
  the sub-list (`ScheduleValid`) is validity of the members.
* `LanesProofs!LanesAccounted`: `ConflictsAccounted`. Of two conflicting transactions the ids
  decide: equal ids put them into one lane, whose stages separate them; different ids put them into
  two lanes, and the pair is reported.

The critical path.

* `CriticalPathProofs!ReportedPathIsChain`: `PathIsChain`. A recorded predecessor precedes its
  transaction and is adjacent to it (`PredecessorInv`; adjacency is symmetric, so the lower end's
  list has it too), and while walking back every element of the path is the predecessor of the one
  before it (`WalkInv`); reversed, that is a chain that ends at the chosen end.
* `CriticalPathProofs!TableIsExact`: `LongestExact`. `HeaviestInv` says that an entry is the cost
  of its transaction on top of its predecessor's entry (`Recorded`) and no less than any
  neighbour's entry allows (`Relaxed`). The first gives a chain of that weight, by following the
  predecessors down, the second bounds every chain, from its first element up.
* `CriticalPathProofs!ReportIsHeaviest`: `ReportsHeaviest`. While walking back, the weight
  collected and the entry of the current transaction add up to the chosen entry (`Collected`);
  reversing a chain does not change its weight.

The effective footprints alone, from `ProgramsAssumption`.

* `AnalyzerProofs!WalkCorrect`: `EffectiveTypeOK`, `SimpleChain` and `MemoSound`.
  `MemoSound` says nothing of calls that are still active, so the inductive
  invariant adds `FramesSound`: the partial result of every active call lies between the accesses
  of its function with the callees it has had answers for and the accesses of everything the
  function reaches. A completed call has had all answers, which makes its result sound for the
  memo; `SimpleChain` says for which call site of the caller it is the answer.
* `AnalyzerProofs!MemoNeverChanges`: `MemoFinal`; an active function has no memoised
  result yet, by `SimpleChain`, so completing it overwrites nothing.
* `AnalyzerProofs!OffCyclesExact`: `ExactOffCycles`. `ExactInv` extends it to the active
  calls: the partial result of a function off cycles holds all that the callees answered so far
  promise. An answer is cut short only when the callee is on the stack; the stack being a chain of
  calls, the callee then reaches its caller, which closes a cycle through it.
* `AnalyzerProofs!FreshRootExact`: `FreshRootsExact`. Here cycles are allowed, and what a
  cut leaves out is found elsewhere. `FreshInv` says that every completed function is reached from
  a root walked so far, that the callees asked for by completed and by active calls are completed
  or active themselves, and that under a root which no earlier one touches the accesses of every
  completed function it reaches are in the partial result of some active call. When the root is
  done nothing else is active, the completed functions are closed under calls, and so the root's
  result holds all that it reaches.

`analyze_set` as a whole, for every set of files.

* `AnalyzerProofs!ProgramAlwaysWellFormed`: `ProgramWellFormed`. `ResolveInv` says what the loops
  have achieved so far: the index holds, per name, exactly the files seen that define it
  (`IndexRight`); every edge leads from a function that makes such a call to the one function with
  accesses that its name means (`EdgesRight`); and every call passed is linked if its name means one
  such function, and otherwise listed, or skipped with nothing to find (`SitesSettled`). That
  a later file does not change what is settled needs the order of the loops: calls are looked up
  only in a complete index. When the last call is passed, the program is what the walk assumes, and
  `HandOver` starts the walk with `WalkInv`, `ExactInv` and an empty report (`AnalyzeInv`).
* `AnalyzerProofs!NoAccessEverMissed`: `NoAccessMissedSilently`. A linked call is a call of the
  program, `MemoSound` puts the callee's own accesses into the caller's result, and the report
  repeats the memoised results (`ReportIsMemo`): one that was reported is never overwritten, by
  `MemoFinal`.
* `AnalyzerProofs!ExactWhereAllResolved`: `ExactWhereResolved`. What the walk reaches may run, as
  every edge is a call of the sources (`ReachRuns`); where all that may run is resolved, the converse
  holds (`RunsReached`). A cycle in the program is then recursion in the sources (`CycleRecurses`),
  so without recursion `ExactInv` applies.
* `AnalyzerProofs!DeltasAlwaysAddUp`: `DeltasAddUp`. This needs only that a file has finitely many
  records (`ReportsFinite`). Every figure `diff` adds up is then a number of pairs, of a file and
  a listed key for the summary, of a name and such a key for the deltas; both count the same
  triples of file, name and key (`SameKeys`), whether the files are gone through first or the names.
  A name that one side lacks, and a detector that found nothing on either side, add nothing
  (`RowsAddUp`).

One file, from `VisitorAssumption`, whatever the statements.

* `AnalyzerProofs!ContextAlwaysMatches`: `ContextMatchesNesting`. What a function node saved when it
  was opened is the owner of the nodes around it (`SavedRight`), and stays it while nodes are opened
  and closed behind it; so what is put back when the node is left is the owner of what is left.
* `AnalyzerProofs!EffectsAlwaysRecorded`: `EffectsRecorded`, from the hypothesis
  `[]StatementsRecorded`, which says of every single statement that what a visit records are its
  effects, and which the run `scan` checks for `Expression`. A statement's records are attributed to what
  `ContextMatchesNesting` says the context is, and joining lists commutes with marking them
  (`VisitLeaves`, `MarksAppend`).
* `AnalyzerProofs!PatternsAlwaysFound`: `PatternsFound`, from the same hypothesis. `FindingsInv` says
  that the records stand for the effects one to one (`Pairs`). Through this bijection what a detector
  counts over records, positions or names is a fact about effects (`LoopWritesFound`,
  `SharedWritesFound`, `RereadWritesFound`, `DuplicateReadsFound`); that it is one to one is what
  duplicate reads and the number of findings in loops need. The detectors know functions by name only.
  One function has one name (`OneFunctionOneName`), so what one function does is found under its
  name, and two names are two functions; the converses fail, which is why the property bounds the
  findings from both sides and states no equality (`FindingsBounded`).

The capture script.

* `CaptureProofs!PagesArePrefix`: `CapturedPrefix`, whatever answers are lost, refused or late,
  and however the chain grows. Ledgers ascend, so the transactions before the window, those the
  service knows, and those not behind the window are each the beginning of the chain
  (`InitialSegment`). `CaptureInv` says that the captured transactions are those of the chain from
  the first of the window on, without a gap; that a page in flight starts at the position the
  cursor stands for (`WireInv`); and that while the script is paging this position is the one
  behind the last captured transaction (`PositionInv`). The latter survives a page because the
  script asks for another one only if it has taken all of this one: neither the limit nor the
  window has cut it short.
* `CaptureProofs!DocumentsComplete`: `DocumentComplete`. The ledger reported first is never above
  the ledger the service knows (`LatestInv`), so a page that is empty or comes without a cursor ends
  behind every transaction up to that ledger (`WireInv`), and a transaction behind the window has
  none of the window after it (`BehindWindow`): whichever way paging ends, the captured transactions
  are as many as were asked for, or all of the window up to that ledger (`EndedPaging`). Sorting
  permutes them (`HeldRearranged`), and since a call is in flight only while paging, nothing but a
  step of the script touches them or the file afterwards (`DocumentInv`). An interruption leaves the
  file as it is: the old one, a part of a document, or a whole one.

The capture documents, from `DocumentsAssumption`: each document is shorter than 2^31 - 1 bytes, and
what it is said to encode is a capture of the code's types. `ValidUtf8` stays a constant, so the
theorems hold of whatever the standard library accepts.

* `CaptureProofs!AlwaysDecodesFaithfully`: `DecodesFaithfully`. Every read of the codec is shown right
  and sound. Right (`Delivers`): where the bytes of a value lie ahead, it returns the value and the
  position behind them, or an overrun if the document ends among them. Sound (`Covers`): whatever
  it accepts, the bytes it took are those the writer would put there for the value it
  returned, padding bytes apart. Two invariants carry this through the loops. `ConsumedInv` holds of
  any bytes: in front of the position is what is written for what has been read so far,
  the header, the completed records and the fields of the record being read, and the counts still
  to come are those of the document. At the end nothing is to come, which is the second half of the
  property. `IntactInv` holds of a document that is whole, cut or followed by other bytes: what was
  read is the beginning of the encoded capture, and the bytes ahead are those of its rest, as far
  as the document goes (`RecordsLeft`, `KeysLeft`), so that a read can fail only where it
  ends. A whole document does not end early, which is the first half.
* `CaptureProofs!CutAlwaysRejected`: `CutDocumentsRejected`, from the same two. A cut document is
  shorter than what it encodes, and `IntactInv` puts the end of decoding behind all of that, so
  decoding does not end but fails, with an overrun; a longer one never makes a read fail.
* `CaptureProofs!EntriesAlwaysDecide`: `EntriesDecideConflicts`. What was decoded is the encoded
  capture; the footprint folded from a record's keys has the entries of its two lists as its two
  sets, nothing else (`FoldReads`, `FoldWrites`, `FootprintOf`); and two keys become the same
  `LedgerKey` exactly if they name the same entry (`SameKey`).

The two invariants of `Replay` quantify over lists of bytes, which TLC cannot enumerate; the run
`replay` checks the three properties they were made for.

`SequenceFacts` holds the lemmas on sequences: their elements as sets, pushing, removing the last;
and it makes recursive functions accessible. `LeastNatural` finds the least element of a set of
naturals, and with it three lemmas replace induction: what holds at 0 and is handed on holds up to
`n` (`InductionTo`), a function defined by its previous value exists (`IterationExists`), and
two functions with the same start and the same steps agree (`IterationAgrees`). That is how
folds and the recursive functions of `Schedule`, `Score` and `CriticalPath` are reasoned about.
In the same way `InductionOver` replaces induction over finite sets, on which the lemmas on sums,
rankings and pairs rest. `FlattenAppend` says what joining one list more does, `TakeNext` what is
left of joined lists behind the first. `ScheduleFacts` applies them to `PartialSchedules`, `FlattenSeq` and the
functions of `Score`.

The constants' assumptions (`KeyAssumption`, `InputsAssumption`, `GraphsAssumption`,
`LanesAssumption`, `ProgramsAssumption`, `NamesAssumption`, `FilesAssumption`, `AccessAssumption`,
`CaptureAssumption`, `VisitorAssumption`, `DocumentsAssumption`) say no more than the types of the code,
for graphs what `build_conflict_graph` guarantees, and for the service what section 2 says of it.
Type correctness and facts that are steps of these arguments (`IndexFaithful`,
`EdgesExact`, `StagesIndependent`, `ContextMatchesNesting`) are proved but not listed in a run: the run's other properties
would fail with them.

Only model-checked:

* liveness (`Terminates`, `Settles`), which is out of the prover's reach;
* `StatementsRecorded`: what the recursive operators of `Expression` compute of a statement; the
  prover cannot take them.

## 5. Not modelled, and why

Parsing is `syn`'s and JSON is `serde`'s: the models start from the tree and from the fields.
Argument parsing, collecting files, printing, colours and the wording of messages are input and
output around modelled parts. The fixture generator writes one constant. The random numbers of
`simulate` are arbitrary draws. The script's decoding of an envelope to a source account is left
out, as are the keys' constructors and their display forms. Floating-point ratios are left out,
and sums are natural numbers: the width of `u64` is not modelled. Memory is not modelled: an array
of a capture is taken to be allocated whatever its count says. The order of keys and of findings
in a report is left out.

Hazards without a property are in `PROJECT.json` with the reason: `Schedule::is_complete` on
schedules the scheduler does not produce, 64-bit sums under arbitrary cost models, storage chains
behind forms the visitor does not look through, duplicate reads of dynamic keys, the touch count of a
key that a footprint holds twice, the capacity reserved for an array, and `simulate` over zero keys.

## 6. Findings

`compute_effective` caches a result that was computed while a function further up the call chain was
still active, and which therefore holds that function's own accesses only. With `A` calling `B` and
`C`, `B` calling `A`, and `A` reported first, `B`'s entry misses the accesses of `C`; reported first,
`B` would have them. The module documentation promises every function its own accesses joined with
those of the transitively called functions. Run `effective_exact` shows it; `MemoSound`,
`ExactOffCycles` and `FreshRootsExact` show what the code does guarantee.

`analyze_set` drops calls without a trace that its documentation says are never dropped
(`analyzer/src/lib.rs` 181-183). Only functions with accesses of their own enter the index (205-212),
and a name on `NOISE_METHODS` that is not in the index is skipped (241-243). So a call to a function
of the analysed set that is named like a library method and reaches storage only through its own
calls is neither an edge nor unresolved, and a call may be linked to the one function of its name
that has accesses although another file has one that only calls others. Run `analyze_set_dropped`
shows it; `NoAccessMissedSilently` and `ExactWhereResolved` show what the code does guarantee.

The detectors know a function by its bare name. Two methods of one name in different impl blocks, or a
function nested in one of its name, are one function to them, and a static key that both write is not
reported, although the module promises never to miss an obvious pattern silently (`detectors.rs` 4-5,
12-13). Run `scan_same_name` shows it. In the other direction a read in one such function and a write in
the other are reported as a read-modify-write of their name, and a write is listed as in a loop
when the only loop is around the declaration of its function; both are allowed by `PatternsFound` as
the false positives the documentation admits.

Smaller differences between a comment and the code, modelled as the code has them:

* `crates/score/README.md:33` calls the critical path a lower bound on serial depth; of the stages it is an upper
  bound (`FiguresBoundOneAnother`): greedy stages never exceed the longest chain.
* `Schedule::is_complete` collects the members in a set, so a transaction listed twice passes.
* `key_contention` counts a transaction that holds a key in both sets as a pair with itself
  (`ConflictsCountedAlike` states by how much), `rank_hot_keys` counts it as two reads, and
  `access_cost` charges it for both.
* `duplicate_read` is documented for static keys (`detectors.rs` 24, `docs/DETECTORS.md` 21) and has no
  filter for dynamic ones: two reads of keys the analyzer could not resolve are reported as one key
  read twice. `PatternsFound` demands the finding only where the key is static and allows it elsewhere,
  as the false positives the documentation admits.
* `crates/replay/src/lib.rs:41` calls a transaction set de-duplicated; no source removes duplicates,
  and a capture that lists a transaction twice loads as two.
* the reader never returns `XdrError::LengthExceedsInput`: a length beyond the document is an
  overrun like any other.
* the capture script writes its document before its closing message fails on an empty capture, so
  the file is whole although the script ends with an error; `DocumentComplete` allows this.
* the capture script empties its output file and then streams the document into it
  (`tools/capture_mainnet.py` 177-179). A failure in between loses the previous capture and leaves a
  part of the new one. `DocumentComplete` says that this is all that can happen: the file is not
  opened before the capture is complete. A part is not a JSON document unless only the last newline is
  missing, so loading it fails.

## 7. Plan

Modelled, checked and proved: sections 2 to 4. What would add most next:

1. `Schedule::is_complete` and `is_conflict_free` over arbitrary schedules, against their comments.
2. 64-bit widths in `Score` and `CriticalPath`, once a caller can choose the cost model.
3. Proofs: `StatementsRecorded`, with the recursion of `Expression` rewritten over the depth of an
   expression.
