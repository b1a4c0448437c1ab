------------------------------- MODULE Lanes -------------------------------
(***************************************************************************)
(* schedule_lanes (crates/scheduler): a policy gives every transaction a   *)
(* lane id, the transactions are grouped by id, and every lane is          *)
(* scheduled on its own, over the footprints of its members only; the      *)
(* stages come back in local positions and are mapped to the transactions. *)
(***************************************************************************)
EXTENDS Schedule

CONSTANTS
  Inputs,            \* the footprint lists the function is called with
  Assignments(_)     \* the vectors a policy may return for a footprint list

ASSUME LanesAssumption ==
  /\ Inputs \subseteq Seq(TransactionFootprint)
  /\ \A list \in Inputs : Assignments(list) \subseteq Seq(Nat)

VARIABLES
  footprints,   \* the input
  phase,        \* "assign", "group", "schedule", "done" or "panicked"
  lane_of,      \* the policy's answer: a lane id per transaction
  cursor,       \* the next transaction to group
  groups,       \* the lanes not yet scheduled: lane id -> its transactions
  lanes         \* the result: a sequence of [id, txns, schedule]

vars == <<footprints, phase, lane_of, cursor, groups, lanes>>

Txns == 1..Len(footprints)

\* The two policies of the crate, for n transactions.
SingleLane(n) == [i \in 1..n |-> 0]

RoundRobinLanes(count, n) == [i \in 1..n |-> (i - 1) % Max({count, 1})]

-----------------------------------------------------------------------------
Init ==
  /\ footprints \in Inputs
  /\ phase = "assign"
  /\ lane_of = <<>>
  /\ cursor = 1
  /\ groups = [id \in {} |-> <<>>]
  /\ lanes = <<>>

\* Mutant of Assign: a vector that is too long is accepted.
AssignAtLeast(answer) ==
  /\ phase = "assign"
  /\ lane_of' = answer
  /\ phase' = IF Len(answer) >= Len(footprints) THEN "group" ELSE "panicked"
  /\ UNCHANGED <<footprints, cursor, groups, lanes>>

\* LaneAssignment is an open trait: a policy may break its contract and return
\* a vector of the wrong length, which the function refuses to work with.
Assign(answer) ==
  /\ phase = "assign"
  /\ lane_of' = answer
  /\ phase' = IF Len(answer) = Len(footprints) THEN "group" ELSE "panicked"
  /\ UNCHANGED <<footprints, cursor, groups, lanes>>

\* Mutant of Members: the group of an id is started afresh.
NoMembers(id) == <<>>

Members(id) == IF id \in DOMAIN groups THEN groups[id] ELSE <<>>

GroupTxn ==
  /\ phase = "group"
  /\ cursor <= Len(footprints)
  /\ LET id == lane_of[cursor] IN
     groups' = [other \in DOMAIN groups \cup {id} |->
                  IF other = id THEN Append(Members(id), cursor) ELSE groups[other]]
  /\ cursor' = cursor + 1
  /\ UNCHANGED <<footprints, phase, lane_of, lanes>>

StartScheduling ==
  /\ phase = "group"
  /\ cursor > Len(footprints)
  /\ phase' = "schedule"
  /\ UNCHANGED <<footprints, lane_of, cursor, groups, lanes>>

\* Mutant of ToGlobal: the positions are not mapped back.
ToGlobalUnmapped(txns, stages) == stages

\* Local position p of a lane stands for the lane's p-th transaction.
ToGlobal(txns, stages) ==
  [s \in DOMAIN stages |-> [p \in DOMAIN stages[s] |-> txns[stages[s][p]]]]

\* Mutant of ScheduleLane: the groups are taken in any order, as from a map
\* that does not sort its keys.
ScheduleSomeLane(id) ==
  /\ phase = "schedule"
  /\ id \in DOMAIN groups
  /\ LET txns == groups[id]
         sub  == [p \in DOMAIN txns |-> footprints[txns[p]]]
     IN lanes' = Append(lanes, [id |-> id, txns |-> txns,
                                schedule |-> ToGlobal(txns, ScheduleOf(sub))])
  /\ groups' = Restrict(groups, DOMAIN groups \ {id})
  /\ UNCHANGED <<footprints, phase, lane_of, cursor>>

\* The lanes are taken in ascending order of their ids.
ScheduleLane(id) ==
  /\ phase = "schedule"
  /\ id \in DOMAIN groups
  /\ \A other \in DOMAIN groups : id <= other
  /\ LET txns == groups[id]
         sub  == [p \in DOMAIN txns |-> footprints[txns[p]]]
     IN lanes' = Append(lanes, [id |-> id, txns |-> txns,
                                schedule |-> ToGlobal(txns, ScheduleOf(sub))])
  /\ groups' = Restrict(groups, DOMAIN groups \ {id})
  /\ UNCHANGED <<footprints, phase, lane_of, cursor>>

Return ==
  /\ phase = "schedule"
  /\ DOMAIN groups = {}
  /\ phase' = "done"
  /\ UNCHANGED <<footprints, lane_of, cursor, groups, lanes>>

Next ==
  \/ \E answer \in Assignments(footprints) : Assign(answer)
  \/ GroupTxn
  \/ StartScheduling
  \/ \E id \in DOMAIN groups : ScheduleLane(id)
  \/ Return

Spec == Init /\ [][Next]_vars

-----------------------------------------------------------------------------
\* The functions on a LaneSchedule.
StageSpan == Max({0} \cup {StageCount(lanes[l].schedule) : l \in DOMAIN lanes})

TotalTransactions == Total([l \in DOMAIN lanes |-> Len(lanes[l].txns)])

LanesConflictFree ==
  \A l \in DOMAIN lanes : IsConflictFree(lanes[l].schedule, footprints)

\* All members of all stages of all lanes in the order they are visited; the
\* walk stops at the first one it has already seen.
Visited == FlattenSeq([l \in DOMAIN lanes |-> FlattenSeq(lanes[l].schedule)])

LanesComplete(n) ==
  /\ IsInjective(Visited)
  /\ Cardinality(ToSet(Visited)) = n
  /\ \A txn \in 1..n : txn \in ToSet(Visited)

\* The map from transactions to lane ids is rebuilt from the lanes' own lists,
\* a later entry replacing an earlier one.
LaneIdOf(txn) ==
  LET l == SelectLastInSeq(lanes, LAMBDA lane : Contains(lane.txns, txn))
  IN lanes[l].id

\* Mutant of CrossLaneConflicts: a key that one side only reads is no conflict.
CrossLaneWriteConflicts ==
  LET listed == UNION {ToSet(lanes[l].txns) : l \in DOMAIN lanes}
  IN {pair \in listed \X listed :
        /\ pair[1] < pair[2]
        /\ LaneIdOf(pair[1]) # LaneIdOf(pair[2])
        /\ footprints[pair[1]].read_write \cap footprints[pair[2]].read_write # {}}

CrossLaneConflicts ==
  LET listed == UNION {ToSet(lanes[l].txns) : l \in DOMAIN lanes}
  IN {pair \in listed \X listed :
        /\ pair[1] < pair[2]
        /\ LaneIdOf(pair[1]) # LaneIdOf(pair[2])
        /\ ConflictsWith(footprints[pair[1]], footprints[pair[2]])}

-----------------------------------------------------------------------------
\* At every step each grouped transaction is in exactly one place, a waiting
\* group or a finished lane, and it is the one its lane id names; no group and
\* no lane is empty.
PartitionKept ==
  /\ \A i \in 1..(cursor - 1) :
       LET waiting  == {id \in DOMAIN groups : Contains(groups[id], i)}
           finished == {l \in DOMAIN lanes : Contains(lanes[l].txns, i)}
       IN \/ waiting = {lane_of[i]} /\ finished = {}
          \/ /\ waiting = {} /\ Cardinality(finished) = 1
             /\ \A l \in finished : lanes[l].id = lane_of[i]
  /\ \A id \in DOMAIN groups : groups[id] # <<>>
  /\ \A l \in DOMAIN lanes : lanes[l].txns # <<>>

\* The code's own validators accept the result, and every lane's stages hold
\* exactly the lane's transactions: the local positions were mapped back.
LanesValid ==
  phase = "done" =>
    /\ LanesConflictFree
    /\ LanesComplete(Len(footprints))
    /\ TotalTransactions = Len(footprints)
    /\ \A l \in DOMAIN lanes : Seen(lanes[l].schedule) = ToSet(lanes[l].txns)

\* No conflict is lost between the two concerns: each conflicting pair is in
\* one lane and in different stages there, or it is among the reported
\* cross-lane conflicts, and nothing else is reported.
ConflictsAccounted ==
  phase = "done" =>
    \A i, j \in Txns :
      i < j => LET together == lane_of[i] = lane_of[j]
                   reported == <<i, j>> \in CrossLaneConflicts
                   l == SelectInSeq(lanes, LAMBDA lane : lane.id = lane_of[i])
                   stages == lanes[l].schedule
               IN IF ConflictsWith(footprints[i], footprints[j])
                  THEN IF together THEN ~reported /\ StageOf(stages, i) # StageOf(stages, j)
                                   ELSE reported
                  ELSE ~reported

\* A policy that uses one lane reproduces the flat schedule, and one that uses
\* several leaves lanes in ascending id order with ascending members, none of
\* them longer than all its members one after the other.
LanesOrdered ==
  phase = "done" =>
    /\ Cardinality(Range(lane_of)) = 1 =>
         Len(lanes) = 1 /\ lanes[1].schedule = ScheduleOf(footprints)
    /\ \A l, m \in DOMAIN lanes : l < m => lanes[l].id < lanes[m].id
    /\ \A l \in DOMAIN lanes : IsSorted(lanes[l].txns, <)
    /\ StageSpan <= Max({0} \cup {Len(lanes[l].txns) : l \in DOMAIN lanes})

\* A lane is scheduled only after every transaction has been grouped under an
\* answer of the right length, and a finished lane is never touched again.
NoPartialSchedule ==
  [][lanes' # lanes =>
       /\ Len(lane_of) = Len(footprints)
       /\ cursor > Len(footprints)
       /\ IsPrefix(lanes, lanes')]_vars
=============================================================================
