------------------------------ MODULE Schedule ------------------------------
(***************************************************************************)
(* The Schedule value of crates/scheduler and the functions on it.  A      *)
(* schedule is a sequence of stages, a stage the sequence of its member    *)
(* transactions.                                                           *)
(***************************************************************************)
EXTENDS Footprint, SequencesExt

StageCount(stages) == Len(stages)

\* The sum of a list of numbers.
Total(sizes) ==
  LET sum[k \in 0..Len(sizes)] == IF k = 0 THEN 0 ELSE sum[k - 1] + sizes[k]
  IN sum[Len(sizes)]

TransactionCount(stages) == Total([s \in DOMAIN stages |-> Len(stages[s])])

\* The first stage that contains the transaction, 0 for None.
StageOf(stages, txn) ==
  SelectInSeq(stages, LAMBDA stage : Contains(stage, txn))

\* Every member is compared with the members behind it.
StageConflictFree(stage, footprints) ==
  \A i \in DOMAIN stage : \A j \in (i + 1)..Len(stage) :
    ~ConflictsWith(footprints[stage[i]], footprints[stage[j]])

IsConflictFree(stages, footprints) ==
  \A s \in DOMAIN stages : StageConflictFree(stages[s], footprints)

\* The members are collected in a set before they are counted.
Seen(stages) == UNION {ToSet(stages[s]) : s \in DOMAIN stages}

IsComplete(stages, n) ==
  /\ Cardinality(Seen(stages)) = n
  /\ \A txn \in 1..n : txn \in Seen(stages)

\* A transaction joins the first stage it conflicts with nobody in, or opens a
\* new one.
Free(stage, txn, footprints) ==
  \A member \in ToSet(stage) : ~ConflictsWith(footprints[txn], footprints[member])

Join(stages, txn, footprints) ==
  LET s == SelectInSeq(stages, LAMBDA stage : Free(stage, txn, footprints))
  IN IF s = 0 THEN Append(stages, <<txn>>) ELSE [stages EXCEPT ![s] = Append(@, txn)]

\* The stages after each number of transactions, taken in order.
PartialSchedules(footprints) ==
  LET after[k \in 0..Len(footprints)] ==
        IF k = 0 THEN <<>> ELSE Join(after[k - 1], k, footprints)
  IN after

\* What schedule returns, as a function of the footprints.
ScheduleOf(footprints) == PartialSchedules(footprints)[Len(footprints)]

SerialSchedule(n) == [txn \in 1..n |-> <<txn>>]
=============================================================================
