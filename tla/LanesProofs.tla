---------------------------- MODULE LanesProofs ----------------------------
(***************************************************************************)
(* Proofs about Lanes, for every set of keys, every list of footprints and *)
(* every policy: transactions are neither lost nor doubled between the     *)
(* groups and the lanes, and no lane is scheduled from a broken answer.    *)
(***************************************************************************)
EXTENDS Lanes, ScheduleFacts

\* A finished lane: its transactions, scheduled on their own.
LaneOf(list, id, txns) ==
  [id |-> id, txns |-> txns,
   schedule |-> ToGlobal(txns, ScheduleOf([p \in DOMAIN txns |-> list[txns[p]]]))]

LaneSet(list) ==
  {LaneOf(list, id, txns) : id \in Nat, txns \in Seq(1..Len(list))}

\* What is known of the answer and of how far the loops have come.
ProgressInv ==
  /\ footprints \in Seq(TransactionFootprint)
  /\ phase \in {"assign", "group", "schedule", "done", "panicked"}
  /\ cursor \in 1..(Len(footprints) + 1)
  /\ phase \in {"group", "schedule", "done"} =>
       lane_of \in Seq(Nat) /\ Len(lane_of) = Len(footprints)
  /\ phase \in {"assign", "panicked"} => cursor = 1 /\ DOMAIN groups = {}
  /\ phase \in {"assign", "group", "panicked"} => lanes = <<>>
  /\ phase \in {"schedule", "done"} => cursor > Len(footprints)

\* A waiting group holds transactions of its own id.
GroupsInv ==
  \A id \in DOMAIN groups :
    /\ id \in Nat
    /\ groups[id] \in Seq(Txns)
    /\ groups[id] # <<>>
    /\ \A i \in ToSet(groups[id]) : lane_of[i] = id

\* So does a finished lane, whose id no group and no other lane has.
LanesInv ==
  /\ lanes \in Seq(LaneSet(footprints))
  /\ \A l \in DOMAIN lanes :
       /\ lanes[l].txns \in Seq(Txns)
       /\ lanes[l].txns # <<>>
       /\ lanes[l].id \notin DOMAIN groups
       /\ \A i \in ToSet(lanes[l].txns) : lane_of[i] = lanes[l].id
  /\ \A l, m \in DOMAIN lanes : lanes[l].id = lanes[m].id => l = m

Waiting(i) == lane_of[i] \in DOMAIN groups /\ i \in ToSet(groups[lane_of[i]])
Finished(i) == \E l \in DOMAIN lanes : lanes[l].id = lane_of[i] /\ i \in ToSet(lanes[l].txns)

PlacedInv == \A i \in 1..(cursor - 1) : Waiting(i) \/ Finished(i)

PartitionInv == ProgressInv /\ GroupsInv /\ LanesInv /\ PlacedInv

-----------------------------------------------------------------------------
LEMMA LaneFields ==
  ASSUME NEW list, NEW id, NEW txns
  PROVE  LaneOf(list, id, txns).id = id /\ LaneOf(list, id, txns).txns = txns
BY DEF LaneOf

LEMMA ContainsIsMember ==
  ASSUME NEW S, NEW list \in Seq(S), NEW e
  PROVE  Contains(list, e) <=> e \in ToSet(list)
BY ToSetMember DEF Contains

\* The invariant says what the run checks.
LEMMA InvPartition == PartitionInv => PartitionKept
<1> SUFFICES ASSUME PartitionInv PROVE PartitionKept
  OBVIOUS
<1> USE DEF PartitionInv
<1>1. ASSUME NEW i \in 1..(cursor - 1)
      PROVE  LET waiting  == {id \in DOMAIN groups : Contains(groups[id], i)}
                 finished == {l \in DOMAIN lanes : Contains(lanes[l].txns, i)}
             IN \/ waiting = {lane_of[i]} /\ finished = {}
                \/ /\ waiting = {} /\ Cardinality(finished) = 1
                   /\ \A l \in finished : lanes[l].id = lane_of[i]
  <2> DEFINE waiting  == {id \in DOMAIN groups : Contains(groups[id], i)}
             finished == {l \in DOMAIN lanes : Contains(lanes[l].txns, i)}
  <2>1. \A id \in waiting : id = lane_of[i]
    BY ContainsIsMember DEF GroupsInv
  <2>2. \A l \in finished : lanes[l].id = lane_of[i] /\ lanes[l].id \notin DOMAIN groups
    BY ContainsIsMember DEF LanesInv
  <2>3. CASE Waiting(i)
    <3>1. lane_of[i] \in waiting
      BY <2>3, ContainsIsMember DEF Waiting, GroupsInv
    <3>2. finished = {}
      BY <2>2, <2>3 DEF Waiting
    <3> QED BY <2>1, <3>1, <3>2
  <2>4. CASE ~Waiting(i)
    <3>1. waiting = {}
      <4>1. ASSUME NEW id \in waiting PROVE FALSE
        BY <2>1, <2>4, <4>1, ContainsIsMember DEF Waiting, GroupsInv
      <4> QED BY <4>1
    <3>2. PICK l \in DOMAIN lanes : lanes[l].id = lane_of[i] /\ i \in ToSet(lanes[l].txns)
      BY <2>4 DEF PlacedInv, Finished
    <3>3. finished = {l}
      <4>1. l \in finished
        BY <3>2, ContainsIsMember DEF LanesInv
      <4>2. \A m \in finished : m = l
        BY <2>2, <3>2 DEF LanesInv
      <4> QED BY <4>1, <4>2
    <3>4. Cardinality(finished) = 1
      BY <3>3, FS_Singleton
    <3> QED BY <2>2, <3>1, <3>4
  <2> QED BY <2>3, <2>4
<1> QED BY <1>1 DEF PartitionKept, GroupsInv, LanesInv

-----------------------------------------------------------------------------
LEMMA PartitionInit == Init => PartitionInv
<1> SUFFICES ASSUME Init PROVE PartitionInv
  OBVIOUS
<1>1. footprints \in Seq(TransactionFootprint) /\ Len(footprints) \in Nat
  BY LanesAssumption, LenProperties DEF Init
<1>2. ProgressInv
  BY <1>1 DEF Init, ProgressInv
<1>3. GroupsInv /\ LanesInv
  BY DEF Init, GroupsInv, LanesInv
<1>4. PlacedInv
  BY DEF Init, PlacedInv
<1> QED BY <1>2, <1>3, <1>4 DEF PartitionInv

LEMMA AssignKeeps ==
  ASSUME PartitionInv, footprints \in Inputs,
         NEW answer \in Assignments(footprints), Assign(answer)
  PROVE  PartitionInv'
<1>1. answer \in Seq(Nat)
  BY LanesAssumption
<1>2. cursor = 1 /\ DOMAIN groups = {} /\ lanes = <<>>
  BY DEF PartitionInv, ProgressInv, Assign
<1>3. ProgressInv'
  BY <1>1, <1>2 DEF PartitionInv, ProgressInv, Assign
<1>4. GroupsInv' /\ LanesInv' /\ PlacedInv'
  BY <1>2 DEF PartitionInv, GroupsInv, LanesInv, PlacedInv, Assign
<1> QED BY <1>3, <1>4 DEF PartitionInv

\* The next transaction joins the group of its id, a new one if there is none.
LEMMA GroupKeeps ==
  ASSUME PartitionInv, GroupTxn
  PROVE  PartitionInv'
<1> DEFINE id == lane_of[cursor]
<1>1. /\ cursor \in Txns /\ cursor \in Nat /\ Len(footprints) \in Nat
      /\ lane_of \in Seq(Nat) /\ id \in Nat
      /\ lanes = <<>> /\ lanes' = <<>>
      /\ UNCHANGED <<footprints, phase, lane_of>>
  BY LenProperties, ElementOfSeq DEF PartitionInv, ProgressInv, GroupTxn, Txns
<1>2. /\ Members(id) \in Seq(Txns)
      /\ \A i \in ToSet(Members(id)) : lane_of[i] = id
      /\ id \in DOMAIN groups => Members(id) = groups[id]
  BY ToSetSmall DEF PartitionInv, GroupsInv, Members
<1>3. /\ DOMAIN groups' = DOMAIN groups \cup {id}
      /\ groups'[id] = Append(Members(id), cursor)
      /\ \A other \in DOMAIN groups : other # id => groups'[other] = groups[other]
  BY DEF GroupTxn
<1>4. /\ groups'[id] \in Seq(Txns) /\ groups'[id] # <<>>
      /\ ToSet(groups'[id]) = ToSet(Members(id)) \cup {cursor}
  BY <1>1, <1>2, <1>3, ToSetAppend, AppendProperties, LenProperties
<1> HIDE DEF id
<1>5. ProgressInv'
  BY <1>1 DEF PartitionInv, ProgressInv, GroupTxn
<1>6. GroupsInv'
  <2>1. \A i \in ToSet(groups'[id]) : lane_of[i] = id
    BY <1>2, <1>4 DEF id
  <2> QED BY <1>1, <1>3, <1>4, <2>1 DEF PartitionInv, GroupsInv, Txns
<1>7. LanesInv'
  BY <1>1 DEF LanesInv
<1>8. PlacedInv'
  <2>1. cursor' = cursor + 1
    BY DEF GroupTxn
  <2>2. ASSUME NEW i \in 1..cursor PROVE Waiting(i)'
    <3>1. CASE i = cursor
      BY <1>1, <1>3, <1>4, <3>1 DEF Waiting, id
    <3>2. CASE i # cursor
      <4>1. Waiting(i)
        BY <1>1, <3>2 DEF PartitionInv, PlacedInv, Finished
      <4> QED BY <1>1, <1>2, <1>3, <1>4, <4>1 DEF Waiting
    <3> QED BY <3>1, <3>2
  <2> QED BY <1>1, <2>1, <2>2 DEF PlacedInv
<1> QED BY <1>5, <1>6, <1>7, <1>8 DEF PartitionInv

\* The group with the least id becomes the next lane.
LEMMA ScheduleKeeps ==
  ASSUME PartitionInv, NEW id \in DOMAIN groups, ScheduleLane(id)
  PROVE  PartitionInv'
<1> DEFINE lane == LaneOf(footprints, id, groups[id])
<1>1. /\ lanes' = Append(lanes, lane)
      /\ DOMAIN groups' = DOMAIN groups \ {id}
      /\ \A other \in DOMAIN groups' : groups'[other] = groups[other]
      /\ UNCHANGED <<footprints, phase, lane_of, cursor>>
      /\ phase = "schedule"
  BY DEF ScheduleLane, LaneOf, Restrict
<1>2. /\ id \in Nat /\ groups[id] \in Seq(Txns) /\ groups[id] # <<>>
      /\ \A i \in ToSet(groups[id]) : lane_of[i] = id
      /\ lane.id = id /\ lane.txns = groups[id]
      /\ lane \in LaneSet(footprints)
  BY LaneFields DEF PartitionInv, GroupsInv, LaneSet, Txns
<1>3. lanes \in Seq(LaneSet(footprints)) /\ Len(lanes) \in Nat /\ DOMAIN lanes = 1..Len(lanes)
  BY LenProperties DEF PartitionInv, LanesInv
<1> HIDE DEF lane
<1>4. /\ lanes' \in Seq(LaneSet(footprints))
      /\ DOMAIN lanes' = 1..(Len(lanes) + 1)
      /\ \A l \in DOMAIN lanes : l \in DOMAIN lanes' /\ lanes'[l] = lanes[l]
      /\ Len(lanes) + 1 \in DOMAIN lanes' /\ lanes'[Len(lanes) + 1] = lane
      /\ \A l \in DOMAIN lanes' : l \in DOMAIN lanes \/ l = Len(lanes) + 1
  <2>1. /\ lanes' \in Seq(LaneSet(footprints))
        /\ Len(lanes') = Len(lanes) + 1
        /\ \A l \in 1..Len(lanes) : lanes'[l] = lanes[l]
        /\ lanes'[Len(lanes) + 1] = lane
    BY <1>1, <1>2, <1>3, AppendProperties
  <2>2. DOMAIN lanes' = 1..(Len(lanes) + 1)
    BY <2>1, LenProperties
  <2> QED BY <1>3, <2>1, <2>2
<1>5. ProgressInv'
  BY <1>1 DEF PartitionInv, ProgressInv
<1>6. GroupsInv'
  BY <1>1 DEF PartitionInv, GroupsInv, Txns
<1>7. LanesInv'
  <2>1. ASSUME NEW l \in DOMAIN lanes'
        PROVE  /\ lanes'[l].txns \in Seq(Txns)
               /\ lanes'[l].txns # <<>>
               /\ lanes'[l].id \notin DOMAIN groups'
               /\ \A i \in ToSet(lanes'[l].txns) : lane_of[i] = lanes'[l].id
    <3>1. CASE l \in DOMAIN lanes
      BY <1>1, <1>4, <3>1 DEF PartitionInv, LanesInv
    <3>2. CASE l = Len(lanes) + 1
      BY <1>1, <1>2, <1>4, <3>2
    <3> QED BY <1>4, <3>1, <3>2
  <2>2. \A l, m \in DOMAIN lanes' : lanes'[l].id = lanes'[m].id => l = m
    <3>1. \A l \in DOMAIN lanes : lanes[l].id # id
      BY DEF PartitionInv, LanesInv
    <3>2. \A l, m \in DOMAIN lanes : lanes[l].id = lanes[m].id => l = m
      BY DEF PartitionInv, LanesInv
    <3> QED BY <1>2, <1>4, <3>1, <3>2
  <2>3. Txns' = Txns /\ LaneSet(footprints)' = LaneSet(footprints) /\ lane_of' = lane_of
    BY <1>1 DEF Txns
  <2>4. lanes' \in Seq(LaneSet(footprints)')
    BY <1>4, <2>3
  <2>5. \A l \in DOMAIN lanes' :
          /\ lanes'[l].txns \in Seq(Txns')
          /\ lanes'[l].txns # <<>>
          /\ lanes'[l].id \notin DOMAIN groups'
          /\ \A i \in ToSet(lanes'[l].txns) : lane_of'[i] = lanes'[l].id
    BY <2>1, <2>3
  <2> QED BY <2>2, <2>4, <2>5 DEF LanesInv
<1>8. PlacedInv'
  <2>1. ASSUME NEW i \in 1..(cursor - 1) PROVE Waiting(i)' \/ Finished(i)'
    <3>1. CASE Waiting(i) /\ lane_of[i] = id
      BY <1>1, <1>2, <1>4, <3>1 DEF Waiting, Finished
    <3>2. CASE Waiting(i) /\ lane_of[i] # id
      BY <1>1, <3>2 DEF Waiting
    <3>3. CASE Finished(i)
      BY <1>1, <1>4, <3>3 DEF Finished
    <3> QED BY <3>1, <3>2, <3>3 DEF PartitionInv, PlacedInv
  <2> QED BY <1>1, <2>1 DEF PlacedInv
<1> QED BY <1>5, <1>6, <1>7, <1>8 DEF PartitionInv

-----------------------------------------------------------------------------
\* The input stays one of the inputs.
InputInv == footprints \in Inputs

LEMMA PartitionStep == InputInv /\ PartitionInv /\ [Next]_vars => PartitionInv'
<1> SUFFICES ASSUME InputInv, PartitionInv, [Next]_vars PROVE PartitionInv'
  OBVIOUS
<1>1. ASSUME NEW answer \in Assignments(footprints), Assign(answer) PROVE PartitionInv'
  BY <1>1, AssignKeeps DEF InputInv
<1>2. CASE GroupTxn
  BY <1>2, GroupKeeps
<1>3. ASSUME StartScheduling \/ Return \/ UNCHANGED vars PROVE PartitionInv'
  <2>1. UNCHANGED <<footprints, lane_of, cursor, groups, lanes>>
    BY <1>3 DEF StartScheduling, Return, vars
  <2>2. ProgressInv'
    BY <1>3, <2>1 DEF PartitionInv, ProgressInv, StartScheduling, Return, vars
  <2>3. GroupsInv' /\ LanesInv' /\ PlacedInv'
    BY <2>1 DEF PartitionInv, GroupsInv, LanesInv, PlacedInv, Waiting, Finished, Txns
  <2> QED BY <2>2, <2>3 DEF PartitionInv
<1>4. ASSUME NEW id \in DOMAIN groups, ScheduleLane(id) PROVE PartitionInv'
  BY <1>4, ScheduleKeeps
<1> QED BY <1>1, <1>2, <1>3, <1>4 DEF Next

LEMMA InputStep == InputInv /\ [Next]_vars => InputInv'
BY DEF InputInv, Next, vars, Assign, GroupTxn, StartScheduling, ScheduleLane, Return

LEMMA AlwaysPartitioned == Spec => [](InputInv /\ PartitionInv)
<1>1. Init => InputInv
  BY DEF Init, InputInv
<1> QED BY <1>1, PartitionInit, PartitionStep, InputStep, PTL DEF Spec

\* For every list and policy: every grouped transaction is in exactly one
\* place, the group or the lane its id names.
THEOREM LanesPartition == Spec => []PartitionKept
BY AlwaysPartitioned, InvPartition, PTL

\* For every list and policy: lanes are scheduled only from an answer of the
\* right length with every transaction grouped, and finished lanes stay.
THEOREM NoPartialLanes == Spec => NoPartialSchedule
<1> DEFINE Whole == /\ Len(lane_of) = Len(footprints)
                    /\ cursor > Len(footprints)
                    /\ IsPrefix(lanes, lanes')
<1>1. ASSUME PartitionInv, NEW id \in DOMAIN groups, ScheduleLane(id) PROVE Whole
  <2>1. Len(lane_of) = Len(footprints) /\ cursor > Len(footprints)
    BY <1>1 DEF PartitionInv, ProgressInv, ScheduleLane
  <2> DEFINE lane == LaneOf(footprints, id, groups[id])
  <2>2. lanes' = Append(lanes, lane) /\ lane \in LaneSet(footprints)
    <3>1. lanes' = Append(lanes, lane)
      BY <1>1 DEF ScheduleLane, LaneOf
    <3>2. id \in Nat /\ groups[id] \in Seq(1..Len(footprints))
      BY <1>1 DEF PartitionInv, GroupsInv, Txns
    <3> QED BY <3>1, <3>2 DEF LaneSet
  <2> HIDE DEF lane
  <2>3. lanes \in Seq(LaneSet(footprints)) /\ Len(lanes) \in Nat
    BY <1>1, LenProperties DEF PartitionInv, LanesInv
  <2>4. /\ Append(lanes, lane) \in Seq(LaneSet(footprints))
        /\ Len(Append(lanes, lane)) = Len(lanes) + 1
        /\ \A p \in 1..Len(lanes) : Append(lanes, lane)[p] = lanes[p]
    BY <2>2, <2>3, AppendProperties
  <2>5. SubSeq(lanes, 1, Len(lanes)) = SubSeq(Append(lanes, lane), 1, Len(lanes))
    BY <2>3, <2>4
  <2> QED BY <2>1, <2>2, <2>3, <2>4, <2>5 DEF IsPrefix
<1>2. PartitionInv /\ [Next]_vars => [lanes' # lanes => Whole]_vars
  BY <1>1 DEF Next, Assign, GroupTxn, StartScheduling, Return, vars
<1> QED BY <1>2, AlwaysPartitioned, PTL DEF Spec, NoPartialSchedule

-----------------------------------------------------------------------------
\* The members of a list ascend.
Rising(list) == \A p, q \in DOMAIN list : p < q => list[p] < list[q]

\* What the order of grouping and of scheduling leaves: members ascend, ids of
\* lanes ascend, and the waiting groups have larger ones.
OrderInv ==
  /\ phase = "done" => DOMAIN groups = {}
  /\ \A id \in DOMAIN groups :
       /\ Rising(groups[id])
       /\ \A i \in ToSet(groups[id]) : i < cursor
  /\ \A l \in DOMAIN lanes :
       /\ Rising(lanes[l].txns)
       /\ \A id \in DOMAIN groups : lanes[l].id < id
  /\ \A l, m \in DOMAIN lanes : l < m => lanes[l].id < lanes[m].id

LEMMA OrderInit == Init => OrderInv
BY DEF Init, OrderInv

\* A larger element pushed on a rising list.
LEMMA RisingAppend ==
  ASSUME NEW list \in Seq(Nat), Rising(list), NEW e \in Nat,
         \A x \in ToSet(list) : x < e
  PROVE  Rising(Append(list, e))
<1> DEFINE longer == Append(list, e)
<1>1. /\ longer \in Seq(Nat) /\ Len(longer) = Len(list) + 1 /\ Len(list) \in Nat
      /\ \A p \in 1..Len(list) : longer[p] = list[p]
      /\ longer[Len(list) + 1] = e
      /\ DOMAIN list = 1..Len(list)
  BY AppendProperties, LenProperties
<1>2. DOMAIN longer = 1..(Len(list) + 1)
  BY <1>1, LenProperties
<1>3. \A p \in 1..Len(list) : list[p] < e
  BY ToSetMember
<1> HIDE DEF longer
<1>4. ASSUME NEW p \in DOMAIN longer, NEW q \in DOMAIN longer, p < q
      PROVE  longer[p] < longer[q]
  <2>1. p \in 1..Len(list)
    BY <1>1, <1>2, <1>4
  <2>2. CASE q \in 1..Len(list)
    BY <1>1, <1>4, <2>1, <2>2 DEF Rising
  <2>3. CASE q = Len(list) + 1
    BY <1>1, <1>3, <2>1, <2>3
  <2> QED BY <1>1, <1>2, <2>2, <2>3
<1>5. Rising(longer)
  BY <1>4 DEF Rising
<1> QED BY <1>5 DEF longer

LEMMA OrderGroup ==
  ASSUME PartitionInv, OrderInv, GroupTxn
  PROVE  OrderInv'
<1> DEFINE id == lane_of[cursor]
<1>1. /\ cursor \in Txns /\ cursor \in Nat /\ cursor' = cursor + 1 /\ Txns \subseteq Nat
      /\ lanes = <<>> /\ lanes' = <<>> /\ phase' = "group"
  BY LenProperties DEF PartitionInv, ProgressInv, GroupTxn, Txns
<1>2. /\ Members(id) \in Seq(Txns) /\ Rising(Members(id))
      /\ \A i \in ToSet(Members(id)) : i < cursor
  BY ToSetSmall DEF PartitionInv, GroupsInv, OrderInv, Members, Rising
<1>3. /\ DOMAIN groups' = DOMAIN groups \cup {id}
      /\ groups'[id] = Append(Members(id), cursor)
      /\ \A other \in DOMAIN groups : other # id => groups'[other] = groups[other]
  BY DEF GroupTxn
<1> HIDE DEF id
<1>4. Rising(groups'[id]) /\ \A i \in ToSet(groups'[id]) : i < cursor'
  <2>1. Members(id) \in Seq(Nat)
    BY <1>1, <1>2, SeqMonotonic
  <2>2. Rising(groups'[id])
    BY <1>1, <1>2, <1>3, <2>1, RisingAppend
  <2>3. ToSet(groups'[id]) = ToSet(Members(id)) \cup {cursor}
    BY <1>1, <1>2, <1>3, ToSetAppend
  <2>4. \A i \in ToSet(Members(id)) : i \in Nat
    BY <1>1, <1>2, ToSetOver
  <2> QED BY <1>1, <1>2, <2>2, <2>3, <2>4
<1>5. ASSUME NEW other \in DOMAIN groups, other # id
      PROVE  Rising(groups'[other]) /\ \A i \in ToSet(groups'[other]) : i < cursor'
  <2>1. groups[other] \in Seq(Nat)
    BY <1>1, SeqMonotonic DEF PartitionInv, GroupsInv
  <2>2. \A i \in ToSet(groups[other]) : i \in Nat
    BY <2>1, ToSetOver
  <2> QED BY <1>1, <1>3, <1>5, <2>2 DEF OrderInv
<1>6. \A other \in DOMAIN groups' :
        Rising(groups'[other]) /\ \A i \in ToSet(groups'[other]) : i < cursor'
  BY <1>3, <1>4, <1>5
<1>7. DOMAIN lanes' = {} /\ phase' # "done"
  BY <1>1
<1> QED BY <1>6, <1>7 DEF OrderInv

\* The least id is taken: it is above the ids of the lanes and below those of
\* the groups left.
LEMMA OrderSchedule ==
  ASSUME PartitionInv, OrderInv, NEW id \in DOMAIN groups, ScheduleLane(id)
  PROVE  OrderInv'
<1> DEFINE lane == LaneOf(footprints, id, groups[id])
<1>1. /\ lanes' = Append(lanes, lane)
      /\ DOMAIN groups' = DOMAIN groups \ {id}
      /\ \A other \in DOMAIN groups' : groups'[other] = groups[other]
      /\ cursor' = cursor /\ phase' = "schedule"
      /\ \A other \in DOMAIN groups : id <= other
  BY DEF ScheduleLane, LaneOf, Restrict
<1>2. /\ \A other \in DOMAIN groups : other \in Nat
      /\ lane.id = id /\ lane.txns = groups[id]
      /\ groups[id] \in Seq(1..Len(footprints))
  BY LaneFields DEF PartitionInv, GroupsInv, Txns
<1>3. lane \in LaneSet(footprints)
  BY <1>2 DEF LaneSet
<1>4. lanes \in Seq(LaneSet(footprints)) /\ Len(lanes) \in Nat /\ DOMAIN lanes = 1..Len(lanes)
  BY LenProperties DEF PartitionInv, LanesInv
<1> HIDE DEF lane
<1>5. /\ DOMAIN lanes' = 1..(Len(lanes) + 1)
      /\ \A l \in 1..Len(lanes) : lanes'[l] = lanes[l]
      /\ lanes'[Len(lanes) + 1] = lane
  <2>1. /\ lanes' \in Seq(LaneSet(footprints))
        /\ Len(lanes') = Len(lanes) + 1
        /\ \A l \in 1..Len(lanes) : lanes'[l] = lanes[l]
        /\ lanes'[Len(lanes) + 1] = lane
    BY <1>1, <1>3, <1>4, AppendProperties
  <2> QED BY <2>1, LenProperties
<1>6. \A other \in DOMAIN groups' : id < other
  BY <1>1, <1>2
<1>7. ASSUME NEW l \in DOMAIN lanes'
      PROVE  /\ Rising(lanes'[l].txns)
             /\ \A other \in DOMAIN groups' : lanes'[l].id < other
  <2>1. CASE l \in 1..Len(lanes)
    BY <1>1, <1>4, <1>5, <2>1 DEF OrderInv
  <2>2. CASE l = Len(lanes) + 1
    BY <1>2, <1>5, <1>6, <2>2 DEF OrderInv
  <2> QED BY <1>4, <1>5, <2>1, <2>2
<1>8. ASSUME NEW l \in DOMAIN lanes', NEW m \in DOMAIN lanes', l < m
      PROVE  lanes'[l].id < lanes'[m].id
  <2>1. l \in 1..Len(lanes)
    BY <1>4, <1>5, <1>8
  <2>2. CASE m \in 1..Len(lanes)
    BY <1>4, <1>5, <1>8, <2>1, <2>2 DEF OrderInv
  <2>3. CASE m = Len(lanes) + 1
    BY <1>2, <1>4, <1>5, <2>1, <2>3 DEF OrderInv
  <2> QED BY <1>4, <1>5, <2>2, <2>3
<1> QED BY <1>1, <1>7, <1>8 DEF OrderInv

LEMMA OrderStep == PartitionInv /\ OrderInv /\ [Next]_vars => OrderInv'
<1> SUFFICES ASSUME PartitionInv, OrderInv, [Next]_vars PROVE OrderInv'
  OBVIOUS
<1>1. ASSUME NEW answer \in Assignments(footprints), Assign(answer) PROVE OrderInv'
  <2>1. DOMAIN groups = {} /\ lanes = <<>>
    BY <1>1 DEF PartitionInv, ProgressInv, Assign
  <2> QED BY <1>1, <2>1 DEF OrderInv, Assign
<1>2. CASE GroupTxn
  BY <1>2, OrderGroup
<1>3. ASSUME StartScheduling \/ Return \/ UNCHANGED vars PROVE OrderInv'
  <2>1. UNCHANGED <<cursor, groups, lanes>>
    BY <1>3 DEF StartScheduling, Return, vars
  <2>2. phase' = "done" => DOMAIN groups = {}
    BY <1>3 DEF OrderInv, StartScheduling, Return, vars
  <2> QED BY <2>1, <2>2 DEF OrderInv
<1>4. ASSUME NEW id \in DOMAIN groups, ScheduleLane(id) PROVE OrderInv'
  BY <1>4, OrderSchedule
<1> QED BY <1>1, <1>2, <1>3, <1>4 DEF Next

LEMMA AlwaysOrdered == Spec => [](PartitionInv /\ OrderInv)
BY AlwaysPartitioned, OrderInit, OrderStep, PTL DEF Spec

-----------------------------------------------------------------------------
\* A rising list has no element twice.
LEMMA RisingOnce ==
  ASSUME NEW list \in Seq(Nat), Rising(list)
  PROVE  \A p, q \in DOMAIN list : list[p] = list[q] => p = q
<1>1. /\ Len(list) \in Nat /\ DOMAIN list = 1..Len(list)
      /\ \A p \in 1..Len(list) : list[p] \in Nat
  BY LenProperties, ElementOfSeq
<1> SUFFICES ASSUME NEW p \in DOMAIN list, NEW q \in DOMAIN list, list[p] = list[q]
             PROVE  p = q
  OBVIOUS
<1>2. ~(p < q) /\ ~(q < p)
  BY <1>1 DEF Rising
<1> QED BY <1>1, <1>2

\* The schedule of a lane, in the transactions it was mapped back to: exactly
\* the lane's, each at one place, apart from its conflicts.
LEMMA LaneScheduled ==
  ASSUME NEW n \in Nat, NEW F, NEW id, NEW txns \in Seq(1..n), Rising(txns),
         NEW G, G = LaneOf(F, id, txns).schedule
  PROVE  /\ G \in Seq(Seq(1..n))
         /\ Seen(G) = ToSet(txns)
         /\ EachOnce(G)
         /\ StagesFree(G, F)
         /\ Len(G) <= Len(txns)
<1> DEFINE m == Len(txns)
           sub == [p \in DOMAIN txns |-> F[txns[p]]]
           local == ScheduleOf(sub)
<1>1. /\ m \in Nat /\ DOMAIN txns = 1..m
      /\ \A p \in 1..m : txns[p] \in 1..n
  BY LenProperties, ElementOfSeq
<1>2. Len(sub) = m /\ \A p \in 1..m : sub[p] = F[txns[p]]
  <2>1. sub \in Seq({F[i] : i \in 1..n})
    <3>1. \A p \in 1..m : F[txns[p]] \in {F[i] : i \in 1..n}
      BY <1>1
    <3> QED BY <1>1, <3>1, IsASeq
  <2> QED BY <1>1, <2>1, LenProperties
<1>3. G = ToGlobal(txns, local)
  BY DEF LaneOf
<1> HIDE DEF sub
<1>4. ValidUpTo(local, m, sub, m)
  BY <1>1, <1>2, ScheduleValid
<1> HIDE DEF local
<1>5. /\ local \in Seq(Seq(1..m)) /\ Len(local) \in Nat /\ Len(local) <= m
      /\ DOMAIN local = 1..Len(local)
      /\ \A s \in DOMAIN local : local[s] \in Seq(1..m)
      /\ Seen(local) = 1..m /\ EachOnce(local) /\ StagesFree(local, sub)
  BY <1>4, LenProperties, ElementOfSeq DEF ValidUpTo
<1>6. ASSUME NEW s \in DOMAIN local, NEW p \in DOMAIN local[s]
      PROVE  local[s][p] \in 1..m /\ local[s][p] \in ToSet(local[s])
  <2>1. local[s] \in Seq(1..m)
    BY <1>5
  <2>2. p \in 1..Len(local[s])
    BY <2>1, LenProperties
  <2> QED BY <2>1, <2>2, ElementOfSeq, ToSetMember
<1>7. /\ DOMAIN G = DOMAIN local
      /\ \A s \in DOMAIN local :
           /\ DOMAIN G[s] = DOMAIN local[s]
           /\ \A p \in DOMAIN local[s] : G[s][p] = txns[local[s][p]]
  BY <1>3 DEF ToGlobal
<1>8. ASSUME NEW s \in DOMAIN local
      PROVE  /\ G[s] \in Seq(1..n)
             /\ \A e : e \in ToSet(G[s]) <=> \E a \in ToSet(local[s]) : e = txns[a]
  <2>1. Len(local[s]) \in Nat /\ DOMAIN local[s] = 1..Len(local[s])
    BY <1>5, LenProperties
  <2>2. \A p \in 1..Len(local[s]) : txns[local[s][p]] \in 1..n
    BY <1>1, <1>6, <2>1
  <2>3. G[s] \in Seq(1..n)
    <3>1. G[s] = [p \in 1..Len(local[s]) |-> txns[local[s][p]]]
      BY <1>3, <2>1 DEF ToGlobal
    <3> QED BY <2>1, <2>2, <3>1, IsASeq
  <2>4. DOMAIN G[s] = 1..Len(local[s]) /\ Len(G[s]) = Len(local[s])
    BY <1>7, <2>1, <2>3, LenProperties
  <2>5. ASSUME NEW e \in ToSet(G[s]) PROVE \E a \in ToSet(local[s]) : e = txns[a]
    <3>1. PICK p \in 1..Len(local[s]) : G[s][p] = e
      BY <2>3, <2>4, ToSetMember
    <3>2. p \in DOMAIN local[s] /\ e = txns[local[s][p]]
      BY <1>7, <2>1, <3>1
    <3>3. local[s][p] \in ToSet(local[s])
      BY <1>6, <3>2
    <3> QED BY <3>2, <3>3
  <2>6. ASSUME NEW a \in ToSet(local[s]) PROVE txns[a] \in ToSet(G[s])
    <3>1. PICK p \in 1..Len(local[s]) : local[s][p] = a
      BY <1>5, ToSetMember
    <3>2. G[s][p] = txns[a]
      BY <1>7, <2>1, <3>1
    <3> QED BY <2>3, <2>4, <3>2, ToSetMember
  <2> QED BY <2>3, <2>5, <2>6
<1>9. G \in Seq(Seq(1..n)) /\ Len(G) = Len(local)
  <2>1. G = [s \in 1..Len(local) |-> G[s]]
    BY <1>3, <1>5 DEF ToGlobal
  <2>2. G \in Seq(Seq(1..n))
    <3>1. \A s \in 1..Len(local) : G[s] \in Seq(1..n)
      BY <1>5, <1>8
    <3>2. [s \in 1..Len(local) |-> G[s]] \in Seq(Seq(1..n))
      BY <1>5, <3>1, IsASeq
    <3> QED BY <2>1, <3>2
  <2> QED BY <1>5, <1>7, <2>2, LenProperties
<1>10. Seen(G) = ToSet(txns)
  <2>1. ASSUME NEW e \in Seen(G) PROVE e \in ToSet(txns)
    <3>1. PICK s \in DOMAIN local : e \in ToSet(G[s])
      BY <1>7, <2>1 DEF Seen
    <3>2. PICK a \in ToSet(local[s]) : e = txns[a]
      BY <1>8, <3>1
    <3>3. a \in 1..m
      BY <1>5, ToSetOver
    <3> QED BY <3>2, <3>3, ToSetMember
  <2>2. ASSUME NEW e \in ToSet(txns) PROVE e \in Seen(G)
    <3>1. PICK a \in 1..m : txns[a] = e
      BY <2>2, ToSetMember
    <3>2. PICK s \in DOMAIN local : a \in ToSet(local[s])
      BY <1>5 DEF Seen
    <3> QED BY <1>7, <1>8, <3>1, <3>2 DEF Seen
  <2> QED BY <2>1, <2>2
<1>11. \A a, b \in 1..m : txns[a] = txns[b] => a = b
  <2>1. txns \in Seq(Nat)
    BY SeqMonotonic
  <2> QED BY <1>1, <2>1, RisingOnce
<1>12. EachOnce(G)
  <2>1. ASSUME NEW s \in DOMAIN G, NEW r \in DOMAIN G,
               NEW p \in DOMAIN G[s], NEW q \in DOMAIN G[r], G[s][p] = G[r][q]
        PROVE  s = r /\ p = q
    <3>1. /\ s \in DOMAIN local /\ p \in DOMAIN local[s]
          /\ r \in DOMAIN local /\ q \in DOMAIN local[r]
          /\ G[s][p] = txns[local[s][p]] /\ G[r][q] = txns[local[r][q]]
      BY <1>7, <2>1
    <3>2. local[s][p] = local[r][q]
      BY <1>6, <1>11, <2>1, <3>1
    <3> QED BY <1>5, <3>1, <3>2 DEF EachOnce
  <2> QED BY <2>1 DEF EachOnce
<1>13. StagesFree(G, F)
  <2>1. ASSUME NEW s \in DOMAIN G, NEW t \in ToSet(G[s]), NEW u \in ToSet(G[s]), t # u
        PROVE  ~ConflictsWith(F[t], F[u])
    <3>1. s \in DOMAIN local
      BY <1>7
    <3>2. PICK a \in ToSet(local[s]) : t = txns[a]
      BY <1>8, <3>1
    <3>3. PICK b \in ToSet(local[s]) : u = txns[b]
      BY <1>8, <3>1
    <3>4. a \in 1..m /\ b \in 1..m
      BY <1>5, <3>1, ToSetOver
    <3>5. ~ConflictsWith(sub[a], sub[b])
      BY <1>5, <2>1, <3>1, <3>2, <3>3 DEF StagesFree
    <3> QED BY <1>2, <3>2, <3>3, <3>4, <3>5
  <2> QED BY <2>1 DEF StagesFree
<1> QED BY <1>5, <1>9, <1>10, <1>12, <1>13

-----------------------------------------------------------------------------
\* What is true of the lanes the call returns.
ReturnedLanes ==
  /\ Len(footprints) \in Nat /\ Len(lanes) \in Nat /\ DOMAIN lanes = 1..Len(lanes)
  /\ lane_of \in Seq(Nat) /\ Len(lane_of) = Len(footprints)
  /\ \A l \in DOMAIN lanes :
       /\ lanes[l].txns \in Seq(Txns) /\ Rising(lanes[l].txns) /\ lanes[l].txns # <<>>
       /\ lanes[l] = LaneOf(footprints, lanes[l].id, lanes[l].txns)
       /\ lanes[l].schedule \in Seq(Seq(Txns))
       /\ Seen(lanes[l].schedule) = ToSet(lanes[l].txns)
       /\ EachOnce(lanes[l].schedule)
       /\ StagesFree(lanes[l].schedule, footprints)
       /\ Len(lanes[l].schedule) <= Len(lanes[l].txns)
       /\ \A i \in ToSet(lanes[l].txns) : lane_of[i] = lanes[l].id
  /\ \A l, m \in DOMAIN lanes : lanes[l].id = lanes[m].id => l = m
  /\ \A l, m \in DOMAIN lanes : l < m => lanes[l].id < lanes[m].id
  /\ \A i \in Txns : \E l \in DOMAIN lanes :
       lanes[l].id = lane_of[i] /\ i \in ToSet(lanes[l].txns)

Returned == phase = "done"

LEMMA ReturnedShape == PartitionInv /\ OrderInv /\ Returned => ReturnedLanes
<1> SUFFICES ASSUME PartitionInv, OrderInv, phase = "done" PROVE ReturnedLanes
  BY DEF Returned
<1>1. /\ Len(footprints) \in Nat /\ Len(lanes) \in Nat /\ DOMAIN lanes = 1..Len(lanes)
      /\ lane_of \in Seq(Nat) /\ Len(lane_of) = Len(footprints)
      /\ cursor = Len(footprints) + 1 /\ DOMAIN groups = {}
      /\ lanes \in Seq(LaneSet(footprints))
  BY LenProperties DEF PartitionInv, ProgressInv, LanesInv, OrderInv
<1>2. ASSUME NEW l \in DOMAIN lanes
      PROVE  /\ lanes[l].txns \in Seq(Txns) /\ Rising(lanes[l].txns)
             /\ lanes[l].txns # <<>>
             /\ lanes[l] = LaneOf(footprints, lanes[l].id, lanes[l].txns)
             /\ \A i \in ToSet(lanes[l].txns) : lane_of[i] = lanes[l].id
  <2>1. lanes[l] \in LaneSet(footprints)
    BY <1>1, ElementOfSeq
  <2>2. PICK id \in Nat, txns \in Seq(1..Len(footprints)) :
          lanes[l] = LaneOf(footprints, id, txns)
    BY <2>1 DEF LaneSet
  <2>3. lanes[l].id = id /\ lanes[l].txns = txns
    BY <2>2, LaneFields
  <2>4. lanes[l] = LaneOf(footprints, lanes[l].id, lanes[l].txns)
    BY <2>2, <2>3
  <2> QED BY <2>4 DEF PartitionInv, LanesInv, OrderInv
<1>3. ASSUME NEW l \in DOMAIN lanes
      PROVE  /\ lanes[l].schedule \in Seq(Seq(Txns))
             /\ Seen(lanes[l].schedule) = ToSet(lanes[l].txns)
             /\ EachOnce(lanes[l].schedule)
             /\ StagesFree(lanes[l].schedule, footprints)
             /\ Len(lanes[l].schedule) <= Len(lanes[l].txns)
  <2>1. /\ lanes[l].txns \in Seq(1..Len(footprints)) /\ Rising(lanes[l].txns)
        /\ lanes[l].schedule = LaneOf(footprints, lanes[l].id, lanes[l].txns).schedule
    BY <1>2 DEF Txns
  <2> QED BY <1>1, <2>1, LaneScheduled DEF Txns
<1>4. ASSUME NEW i \in Txns
      PROVE  \E l \in DOMAIN lanes : lanes[l].id = lane_of[i] /\ i \in ToSet(lanes[l].txns)
  <2>1. i \in 1..(cursor - 1)
    BY <1>1 DEF Txns
  <2>2. ~Waiting(i)
    BY <1>1 DEF Waiting
  <2> QED BY <2>1, <2>2 DEF PartitionInv, PlacedInv, Finished
<1>5. /\ \A l, m \in DOMAIN lanes : lanes[l].id = lanes[m].id => l = m
      /\ \A l, m \in DOMAIN lanes : l < m => lanes[l].id < lanes[m].id
  BY DEF PartitionInv, LanesInv, OrderInv
<1> QED BY <1>1, <1>2, <1>3, <1>4, <1>5 DEF ReturnedLanes

\* Lists with the same members as the lanes' transactions share none.
LEMMA LanesApart ==
  ASSUME ReturnedLanes, NEW l \in DOMAIN lanes, NEW m \in DOMAIN lanes, NEW i,
         i \in ToSet(lanes[l].txns), i \in ToSet(lanes[m].txns)
  PROVE  l = m
<1>1. lane_of[i] = lanes[l].id /\ lane_of[i] = lanes[m].id
  BY DEF ReturnedLanes
<1>2. lanes[l].id = lanes[m].id => l = m
  BY DEF ReturnedLanes
<1> QED BY <1>1, <1>2

\* The lanes' members are the transactions, each of them once.
LEMMA ReturnedComplete ==
  ASSUME ReturnedLanes
  PROVE  LanesComplete(Len(footprints)) /\ TotalTransactions = Len(footprints)
<1> DEFINE txnsOf == [l \in DOMAIN lanes |-> lanes[l].txns]
           inner == [l \in DOMAIN lanes |-> FlattenSeq(lanes[l].schedule)]
           k == Len(lanes)
<1>1. /\ Len(footprints) \in Nat /\ k \in Nat /\ DOMAIN lanes = 1..k
      /\ \A l \in 1..k : lanes[l].txns \in Seq(Txns)
      /\ Txns \subseteq Nat
  BY DEF ReturnedLanes, Txns
<1> HIDE DEF k
<1>2. DOMAIN txnsOf = 1..k /\ \A l \in 1..k : txnsOf[l] = lanes[l].txns
  BY <1>1
<1>3. ASSUME NEW l \in 1..k
      PROVE  /\ inner[l] \in Seq(Txns) /\ ToSet(inner[l]) = ToSet(lanes[l].txns)
             /\ IsInjective(inner[l])
  <2>1. inner[l] = FlattenSeq(lanes[l].schedule)
    BY <1>1
  <2> HIDE DEF inner
  <2> QED BY <1>1, <2>1, FlattenOnce DEF ReturnedLanes
<1>4. inner \in Seq(Seq(Txns)) /\ DOMAIN inner = 1..k
  <2>1. inner = [l \in 1..k |-> inner[l]]
    BY <1>1
  <2>2. DOMAIN inner = 1..k
    BY <1>1
  <2> HIDE DEF inner
  <2>3. [l \in 1..k |-> inner[l]] \in Seq(Seq(Txns))
    BY <1>1, <1>3, IsASeq
  <2> QED BY <2>1, <2>2, <2>3
<1> HIDE DEF txnsOf, inner
<1>5. EachOnce(txnsOf)
  <2>1. ASSUME NEW l \in 1..k, NEW m \in 1..k,
               NEW p \in DOMAIN txnsOf[l], NEW q \in DOMAIN txnsOf[m],
               txnsOf[l][p] = txnsOf[m][q]
        PROVE  l = m /\ p = q
    <3>1. /\ lanes[l].txns \in Seq(Txns) /\ lanes[m].txns \in Seq(Txns)
          /\ p \in DOMAIN lanes[l].txns /\ q \in DOMAIN lanes[m].txns
          /\ lanes[l].txns[p] = lanes[m].txns[q]
      BY <1>1, <1>2, <2>1
    <3>2. l = m
      <4>1. /\ lanes[l].txns[p] \in ToSet(lanes[l].txns)
            /\ lanes[m].txns[q] \in ToSet(lanes[m].txns)
        BY <3>1, LenProperties, ToSetMember
      <4> QED BY <1>1, <3>1, <4>1, LanesApart
    <3>3. lanes[l].txns \in Seq(Nat) /\ Rising(lanes[l].txns)
      BY <1>1, <3>1, SeqMonotonic DEF ReturnedLanes
    <3> QED BY <3>1, <3>2, <3>3, RisingOnce
  <2> QED BY <1>2, <2>1 DEF EachOnce
<1>6. EachOnce(inner)
  <2>1. ASSUME NEW l \in 1..k, NEW m \in 1..k,
               NEW p \in DOMAIN inner[l], NEW q \in DOMAIN inner[m],
               inner[l][p] = inner[m][q]
        PROVE  l = m /\ p = q
    <3>1. l = m
      <4>1. inner[l][p] \in ToSet(inner[l]) /\ inner[m][q] \in ToSet(inner[m])
        BY <1>3, LenProperties, ToSetMember
      <4> QED BY <1>1, <1>3, <2>1, <4>1, LanesApart
    <3> QED BY <1>3, <2>1, <3>1 DEF IsInjective
  <2> QED BY <1>4, <2>1 DEF EachOnce
<1>7. Seen(txnsOf) = Txns /\ Seen(inner) = Txns
  <2>1. UNION {ToSet(lanes[l].txns) : l \in 1..k} = Txns
    <3>1. \A l \in 1..k : ToSet(lanes[l].txns) \subseteq Txns
      BY <1>1, ToSetOver
    <3>2. \A i \in Txns : \E l \in 1..k : i \in ToSet(lanes[l].txns)
      BY <1>1 DEF ReturnedLanes
    <3> QED BY <3>1, <3>2
  <2> QED BY <1>2, <1>3, <1>4, <2>1 DEF Seen
<1>8. Cardinality(Txns) = Len(footprints)
  <2>1. Len(footprints) \in Nat
    BY <1>1
  <2> QED BY <2>1, UpToSize DEF Txns
<1>9. LanesComplete(Len(footprints))
  <2>1. Visited = FlattenSeq(inner)
    BY DEF Visited, inner
  <2>2. ToSet(Visited) = Txns /\ IsInjective(Visited)
    BY <1>4, <1>6, <1>7, <2>1, FlattenOnce
  <2> QED BY <1>8, <2>2 DEF LanesComplete, Txns
<1>10. TotalTransactions = Len(footprints)
  <2>1. Total([l \in DOMAIN txnsOf |-> Len(txnsOf[l])]) = Cardinality(Seen(txnsOf))
    <3>1. \A l \in 1..k : txnsOf[l] \in Seq(Txns)
      BY <1>1, <1>2
    <3> QED BY <1>1, <1>2, <1>5, <3>1, TotalCounts
  <2>2. [l \in DOMAIN txnsOf |-> Len(txnsOf[l])] = [l \in DOMAIN lanes |-> Len(lanes[l].txns)]
    BY <1>1, <1>2
  <2> QED BY <1>7, <1>8, <2>1, <2>2 DEF TotalTransactions
<1> QED BY <1>9, <1>10

\* For every list and policy: the code's own validators accept the lanes, and
\* every lane's stages hold exactly the lane's transactions.
THEOREM LanesValidated == Spec => []LanesValid
<1>1. PartitionInv /\ OrderInv => LanesValid
  <2> SUFFICES ASSUME PartitionInv, OrderInv, phase = "done" PROVE LanesValid
    BY DEF LanesValid
  <2>1. ReturnedLanes
    BY ReturnedShape DEF Returned
  <2>2. LanesConflictFree
    <3>1. \A l \in DOMAIN lanes : IsConflictFree(lanes[l].schedule, footprints)
      BY <2>1, StagesFreeAccepted DEF ReturnedLanes
    <3> QED BY <3>1 DEF LanesConflictFree
  <2>3. \A l \in DOMAIN lanes : Seen(lanes[l].schedule) = ToSet(lanes[l].txns)
    BY <2>1 DEF ReturnedLanes
  <2> QED BY <2>1, <2>2, <2>3, ReturnedComplete DEF LanesValid
<1> QED BY <1>1, AlwaysOrdered, PTL

-----------------------------------------------------------------------------
\* A list of one index has it as its first and its last.
LEMMA OnlyIndex ==
  ASSUME NEW l \in Nat, NEW I, I = {l}
  PROVE  Min(I) = l /\ Max(I) = l /\ I # {}
<1>1. I \subseteq Nat /\ l \in I /\ \A m \in I : l <= m /\ m <= l
  OBVIOUS
<1>2. Min(I) = l
  BY <1>1, MinIs
<1>3. Max(I) = l
  BY <1>1, MaxIs
<1> QED BY <1>1, <1>2, <1>3

\* The lane of a transaction: the one it is listed in, found by its id and by
\* its members, from either end.
LEMMA LaneFound ==
  ASSUME ReturnedLanes, NEW i \in Txns
  PROVE  \E l \in DOMAIN lanes :
           /\ i \in ToSet(lanes[l].txns)
           /\ SelectInSeq(lanes, LAMBDA lane : lane.id = lane_of[i]) = l
           /\ LaneIdOf(i) = lane_of[i]
<1>1. PICK l \in DOMAIN lanes : lanes[l].id = lane_of[i] /\ i \in ToSet(lanes[l].txns)
  BY DEF ReturnedLanes
<1>2. DOMAIN lanes = 1..Len(lanes) /\ Len(lanes) \in Nat /\ l \in Nat
  BY DEF ReturnedLanes
<1> DEFINE byId == {m \in 1..Len(lanes) : lanes[m].id = lane_of[i]}
           byMember == {m \in 1..Len(lanes) : Contains(lanes[m].txns, i)}
<1>3. byId = {l}
  <2>1. \A m \in DOMAIN lanes : lanes[m].id = lanes[l].id => m = l
    BY DEF ReturnedLanes
  <2> QED BY <1>1, <1>2, <2>1
<1>4. byMember = {l}
  <2>1. \A m \in DOMAIN lanes : Contains(lanes[m].txns, i) <=> i \in ToSet(lanes[m].txns)
    BY ContainsIsMember DEF ReturnedLanes
  <2>2. \A m \in DOMAIN lanes : i \in ToSet(lanes[m].txns) => m = l
    BY <1>1, LanesApart
  <2> QED BY <1>1, <1>2, <2>1, <2>2
<1> HIDE DEF byId, byMember
<1>5. Min(byId) = l /\ byId # {}
  BY <1>2, <1>3, OnlyIndex
<1>6. Max(byMember) = l /\ byMember # {}
  BY <1>2, <1>4, OnlyIndex
<1>7. SelectInSeq(lanes, LAMBDA lane : lane.id = lane_of[i]) = l
  BY <1>5 DEF SelectInSeq, byId
<1>8. LaneIdOf(i) = lanes[l].id
  BY <1>6 DEF LaneIdOf, SelectLastInSeq, byMember
<1> QED BY <1>1, <1>7, <1>8

\* Exactly the conflicting pairs of different lanes are reported.
LEMMA CrossLaneExact ==
  ASSUME ReturnedLanes, NEW i \in Txns, NEW j \in Txns, i < j
  PROVE  <<i, j>> \in CrossLaneConflicts
           <=> /\ lane_of[i] # lane_of[j]
               /\ ConflictsWith(footprints[i], footprints[j])
<1> DEFINE listed == UNION {ToSet(lanes[l].txns) : l \in DOMAIN lanes}
<1>1. LaneIdOf(i) = lane_of[i] /\ LaneIdOf(j) = lane_of[j]
  BY LaneFound
<1>2. i \in listed /\ j \in listed
  BY LaneFound
<1> HIDE DEF listed
<1>3. CrossLaneConflicts =
        {pair \in listed \X listed :
           /\ pair[1] < pair[2]
           /\ LaneIdOf(pair[1]) # LaneIdOf(pair[2])
           /\ ConflictsWith(footprints[pair[1]], footprints[pair[2]])}
  BY DEF CrossLaneConflicts, listed
<1> QED BY <1>1, <1>2, <1>3

\* For every list and policy: each conflicting pair is in different stages of
\* one lane or reported, and nothing else is reported.
THEOREM LanesAccounted == Spec => []ConflictsAccounted
<1>1. PartitionInv /\ OrderInv => ConflictsAccounted
  <2> SUFFICES ASSUME PartitionInv, OrderInv, phase = "done" PROVE ConflictsAccounted
    BY DEF ConflictsAccounted
  <2>1. ReturnedLanes
    BY ReturnedShape DEF Returned
  <2>2. ASSUME NEW i \in Txns, NEW j \in Txns, i < j,
               ConflictsWith(footprints[i], footprints[j]), lane_of[i] = lane_of[j]
        PROVE  LET l == SelectInSeq(lanes, LAMBDA lane : lane.id = lane_of[i])
               IN StageOf(lanes[l].schedule, i) # StageOf(lanes[l].schedule, j)
    <3>1. PICK l \in DOMAIN lanes :
            /\ i \in ToSet(lanes[l].txns)
            /\ SelectInSeq(lanes, LAMBDA lane : lane.id = lane_of[i]) = l
      BY <2>1, LaneFound
    <3>2. PICK m \in DOMAIN lanes : lanes[m].id = lane_of[j] /\ j \in ToSet(lanes[m].txns)
      BY <2>1 DEF ReturnedLanes
    <3>3. lanes[l].id = lane_of[i]
      BY <2>1, <3>1 DEF ReturnedLanes
    <3>4. l = m
      BY <2>1, <2>2, <3>2, <3>3 DEF ReturnedLanes
    <3> DEFINE stages == lanes[l].schedule
    <3>5. /\ stages \in Seq(Seq(Txns)) /\ EachOnce(stages)
          /\ StagesFree(stages, footprints)
          /\ Seen(stages) = ToSet(lanes[l].txns)
      BY <2>1 DEF ReturnedLanes
    <3> HIDE DEF stages
    <3>6. PICK s \in DOMAIN stages : i \in ToSet(stages[s])
      BY <3>1, <3>5 DEF Seen
    <3>7. PICK r \in DOMAIN stages : j \in ToSet(stages[r])
      BY <3>2, <3>4, <3>5 DEF Seen
    <3>8. StageOf(stages, i) = s /\ StageOf(stages, j) = r
      BY <3>5, <3>6, <3>7, StageOfIs
    <3>9. i # j
      <4>1. i \in Nat /\ j \in Nat
        BY <2>1 DEF ReturnedLanes, Txns
      <4> QED BY <2>2, <4>1
    <3>10. s # r
      BY <2>2, <3>5, <3>6, <3>7, <3>9 DEF StagesFree
    <3> QED BY <3>1, <3>8, <3>10 DEF stages
  <2> QED BY <2>1, <2>2, CrossLaneExact DEF ConflictsAccounted
<1> QED BY <1>1, AlwaysOrdered, PTL

-----------------------------------------------------------------------------
\* What the library's Max is of a nonempty set of naturals with a bound.
LEMMA MaxGreatest ==
  ASSUME NEW n \in Nat, NEW T, T \subseteq 0..n, T # {}
  PROVE  Max(T) \in T /\ \A k \in T : k <= Max(T)
<1> DEFINE Mirror == {n - k : k \in T}
<1>1. Mirror \subseteq Nat /\ Mirror # {}
  <2>1. \A k \in T : n - k \in Nat
    OBVIOUS
  <2>2. Mirror \subseteq Nat
    BY <2>1
  <2>3. PICK k : k \in T
    OBVIOUS
  <2>4. n - k \in Mirror
    BY <2>3
  <2> QED BY <2>2, <2>4
<1> HIDE DEF Mirror
<1>2. PICK m \in Mirror : \A k \in Mirror : m <= k
  BY <1>1, LeastNatural
<1>3. PICK top \in T : m = n - top
  BY DEF Mirror
<1>4. \A k \in T : k <= top
  <2> SUFFICES ASSUME NEW k \in T PROVE k <= top
    OBVIOUS
  <2>1. m <= n - k
    BY <1>2 DEF Mirror
  <2> QED BY <1>3, <2>1
<1>5. T \subseteq Nat
  OBVIOUS
<1>6. Max(T) = top
  BY <1>4, <1>5, MaxIs
<1> QED BY <1>4, <1>6

\* A rising list that has every number from 1 to n, and no other, has each at
\* its own place.
LEMMA RisingFull ==
  ASSUME NEW n \in Nat, NEW list \in Seq(1..n), Rising(list), ToSet(list) = 1..n
  PROVE  Len(list) = n /\ \A p \in 1..n : list[p] = p
<1>1. /\ DOMAIN list = 1..Len(list) /\ Len(list) \in Nat
      /\ \A p \in 1..Len(list) : list[p] \in 1..n
  BY LenProperties, ElementOfSeq
<1>2. \A p, q \in DOMAIN list : list[p] = list[q] => p = q
  BY RisingOnce, SeqMonotonic
<1>3. Len(list) = n
  BY <1>2, InjectiveSize, UpToSize
<1> DEFINE Good == {k \in 0..n : \A p \in 1..k : list[p] = p}
<1>4. 0 \in Good
  OBVIOUS
<1>5. ASSUME NEW k \in 0..(n - 1), k \in Good PROVE k + 1 \in Good
  <2>1. k + 1 \in 1..n
    OBVIOUS
  <2>2. PICK r \in 1..n : list[r] = k + 1
    BY <1>3, <2>1, ToSetMember
  <2>3. ~(r < k + 1)
    <3> SUFFICES ASSUME r < k + 1 PROVE FALSE
      OBVIOUS
    <3>1. r \in 1..k
      OBVIOUS
    <3>2. list[r] = r
      BY <1>5, <3>1
    <3> QED BY <2>2, <3>1, <3>2
  <2>4. ~(r > k + 1)
    <3> SUFFICES ASSUME r > k + 1 PROVE FALSE
      OBVIOUS
    <3>1. list[k + 1] < k + 1 /\ list[k + 1] \in 1..n
      BY <1>1, <1>3, <2>1, <2>2 DEF Rising
    <3>2. list[k + 1] \in 1..k
      BY <3>1
    <3>3. list[list[k + 1]] = list[k + 1]
      BY <1>5, <3>2
    <3>4. list[k + 1] = k + 1
      <4>1. list[k + 1] \in DOMAIN list /\ k + 1 \in DOMAIN list
        BY <1>1, <1>3, <2>1, <3>1
      <4> QED BY <1>2, <3>3, <4>1
    <3> QED BY <3>1, <3>4
  <2>5. r = k + 1
    BY <2>1, <2>3, <2>4
  <2>6. \A p \in 1..(k + 1) : list[p] = p
    BY <1>5, <2>2, <2>5
  <2> QED BY <2>1, <2>6
<1> HIDE DEF Good
<1>6. n \in Good
  <2>1. 0..n \subseteq Good
    <3>1. Inductive(Good, n)
      BY <1>4, <1>5 DEF Inductive
    <3> QED BY <3>1, InductionTo
  <2> QED BY <2>1
<1> QED BY <1>3, <1>6 DEF Good

\* One lane id for all: one lane, and its schedule is the flat one.
LEMMA OneLaneFlat ==
  ASSUME ReturnedLanes, Cardinality(Range(lane_of)) = 1, footprints \in Seq(TransactionFootprint)
  PROVE  Len(lanes) = 1 /\ lanes[1].schedule = ScheduleOf(footprints)
<1> DEFINE n == Len(footprints)
<1>1. /\ n \in Nat /\ Len(lanes) \in Nat /\ DOMAIN lanes = 1..Len(lanes)
      /\ lane_of \in Seq(Nat) /\ DOMAIN lane_of = 1..n /\ Txns = 1..n
  BY LenProperties DEF ReturnedLanes, Txns
<1>2. PICK c : Range(lane_of) = {c}
  <2>1. IsFiniteSet(Range(lane_of))
    <3>1. Range(lane_of) = ToSet(lane_of)
      BY <1>1, LenProperties DEF Range, ToSet
    <3> QED BY <1>1, <3>1, ToSetFinite
  <2> QED BY <2>1, FS_Singleton
<1>3. \A i \in 1..n : lane_of[i] = c
  BY <1>1, <1>2 DEF Range
<1>4. 1 \in 1..n
  <2>1. PICK i \in DOMAIN lane_of : lane_of[i] = c
    BY <1>2 DEF Range
  <2> QED BY <1>1, <2>1
<1>5. \A l \in DOMAIN lanes : lanes[l].id = c
  <2> SUFFICES ASSUME NEW l \in DOMAIN lanes PROVE lanes[l].id = c
    OBVIOUS
  <2>1. lanes[l].txns \in Seq(Txns) /\ lanes[l].txns # <<>>
    BY DEF ReturnedLanes
  <2>2. 1 \in 1..Len(lanes[l].txns)
    BY <2>1, EmptySeq
  <2>3. lanes[l].txns[1] \in ToSet(lanes[l].txns) /\ lanes[l].txns[1] \in Txns
    BY <2>1, <2>2, ToSetMember, ElementOfSeq
  <2>4. lane_of[lanes[l].txns[1]] = lanes[l].id
    BY <2>3 DEF ReturnedLanes
  <2> QED BY <1>1, <1>3, <2>3, <2>4
<1>6. Len(lanes) = 1
  <2>1. PICK l \in DOMAIN lanes : lanes[l].id = lane_of[1]
    BY <1>1, <1>4 DEF ReturnedLanes
  <2>2. \A m \in DOMAIN lanes : m = l
    BY <1>5 DEF ReturnedLanes
  <2>3. 1 \in 1..Len(lanes) /\ Len(lanes) \in 1..Len(lanes)
    BY <1>1, <2>1
  <2> QED BY <1>1, <2>2, <2>3
<1> DEFINE txns == lanes[1].txns
<1>7. /\ txns \in Seq(1..n) /\ Rising(txns)
      /\ lanes[1] = LaneOf(footprints, lanes[1].id, txns)
  BY <1>1, <1>6 DEF ReturnedLanes
<1>8. ToSet(txns) = 1..n
  <2>1. \A i \in 1..n : i \in ToSet(txns)
    BY <1>1, <1>6 DEF ReturnedLanes
  <2> QED BY <1>7, <2>1, ToSetOver
<1> HIDE DEF txns
<1>9. Len(txns) = n /\ DOMAIN txns = 1..n /\ \A p \in 1..n : txns[p] = p
  BY <1>1, <1>7, <1>8, RisingFull, LenProperties
<1>10. [p \in DOMAIN txns |-> footprints[txns[p]]] = footprints
  <2>1. footprints = [p \in 1..n |-> footprints[p]]
    BY LenProperties
  <2> QED BY <1>9, <2>1
<1> DEFINE flat == ScheduleOf(footprints)
<1>11. lanes[1].schedule = ToGlobal(txns, flat)
  <2>1. LaneOf(footprints, lanes[1].id, txns).schedule = ToGlobal(txns, flat)
    BY <1>10 DEF LaneOf
  <2> QED BY <1>7, <2>1
<1>12. flat \in Seq(Seq(1..n))
  BY <1>1, ScheduleValid DEF ValidUpTo
<1> HIDE DEF flat
<1>13. ToGlobal(txns, flat) = flat
  <2>1. ASSUME NEW s \in DOMAIN flat
        PROVE  [p \in DOMAIN flat[s] |-> txns[flat[s][p]]] = flat[s]
    <3>1. flat[s] \in Seq(1..n)
      BY <1>12, LenProperties, ElementOfSeq
    <3>2. /\ DOMAIN flat[s] = 1..Len(flat[s])
          /\ \A p \in 1..Len(flat[s]) : flat[s][p] \in 1..n
          /\ flat[s] = [p \in 1..Len(flat[s]) |-> flat[s][p]]
      BY <3>1, LenProperties, ElementOfSeq
    <3>3. \A p \in DOMAIN flat[s] : txns[flat[s][p]] = flat[s][p]
      BY <1>9, <3>2
    <3> QED BY <3>2, <3>3
  <2>2. flat = [s \in DOMAIN flat |-> flat[s]]
    BY <1>12, LenProperties
  <2> QED BY <2>1, <2>2 DEF ToGlobal
<1> QED BY <1>6, <1>11, <1>13 DEF flat

\* No lane is longer than its members one after the other.
LEMMA SpanBounded ==
  ASSUME ReturnedLanes
  PROVE  StageSpan <= Max({0} \cup {Len(lanes[l].txns) : l \in DOMAIN lanes})
<1> DEFINE n == Len(footprints)
           spans == {0} \cup {StageCount(lanes[l].schedule) : l \in DOMAIN lanes}
           sizes == {0} \cup {Len(lanes[l].txns) : l \in DOMAIN lanes}
<1>1. n \in Nat
  BY DEF ReturnedLanes
<1>2. ASSUME NEW l \in DOMAIN lanes
      PROVE  /\ Len(lanes[l].txns) \in 0..n
             /\ StageCount(lanes[l].schedule) \in 0..Len(lanes[l].txns)
  <2> DEFINE txns == lanes[l].txns
             stages == lanes[l].schedule
  <2>1. /\ txns \in Seq(1..n) /\ Rising(txns)
        /\ stages \in Seq(Seq(Txns)) /\ Len(stages) <= Len(txns)
    BY DEF ReturnedLanes, Txns
  <2> HIDE DEF txns, stages
  <2>2. Len(txns) \in Nat /\ Len(stages) \in Nat
    BY <2>1, LenProperties
  <2>3. \A p, q \in DOMAIN txns : txns[p] = txns[q] => p = q
    <3>1. txns \in Seq(Nat)
      BY <2>1, SeqMonotonic
    <3> QED BY <2>1, <3>1, RisingOnce
  <2>4. Cardinality(ToSet(txns)) = Len(txns)
    BY <2>1, <2>3, InjectiveSize
  <2>5. ToSet(txns) \in SUBSET (1..n)
    BY <2>1, ToSetOver
  <2>6. Len(txns) <= n
    <3>1. IsFiniteSet(1..n) /\ Cardinality(1..n) = n
      BY <1>1, UpToSize
    <3> HIDE DEF n
    <3> QED BY <2>4, <2>5, <3>1, FS_Subset
  <2> QED BY <1>1, <2>1, <2>2, <2>6 DEF StageCount, txns, stages
<1>3. spans \subseteq 0..n /\ sizes \subseteq 0..n /\ 0 \in spans /\ 0 \in sizes
  BY <1>1, <1>2
<1>4. Max(sizes) \in sizes /\ \A k \in sizes : k <= Max(sizes)
  <2> HIDE DEF spans, sizes, n
  <2>1. sizes # {}
    BY <1>3
  <2> QED BY <1>1, <1>3, <2>1, MaxGreatest
<1>5. Max(spans) \in spans
  <2> HIDE DEF spans, sizes, n
  <2>1. spans # {}
    BY <1>3
  <2> QED BY <1>1, <1>3, <2>1, MaxGreatest
<1>6. Max(spans) <= Max(sizes)
  <2>1. CASE Max(spans) = 0
    BY <1>3, <1>4, <2>1
  <2>2. ASSUME NEW l \in DOMAIN lanes, Max(spans) = StageCount(lanes[l].schedule)
        PROVE  Max(spans) <= Max(sizes)
    <3>1. Len(lanes[l].txns) \in sizes
      OBVIOUS
    <3>2. Len(lanes[l].txns) <= Max(sizes) /\ Max(sizes) \in 0..n
      BY <1>3, <1>4, <3>1
    <3>3. /\ StageCount(lanes[l].schedule) \in 0..Len(lanes[l].txns)
          /\ Len(lanes[l].txns) \in 0..n
      BY <1>2
    <3> HIDE DEF spans, sizes, n
    <3> QED BY <1>1, <2>2, <3>2, <3>3
  <2> QED BY <1>5, <2>1, <2>2
<1> QED BY <1>6 DEF StageSpan

\* For every list and policy: lanes and members ascend, one lane is the flat
\* schedule, and no lane is longer than its members one after the other.
THEOREM LanesInOrder == Spec => []LanesOrdered
<1>1. PartitionInv /\ OrderInv => LanesOrdered
  <2> SUFFICES ASSUME PartitionInv, OrderInv, phase = "done" PROVE LanesOrdered
    BY DEF LanesOrdered
  <2>1. ReturnedLanes
    BY ReturnedShape DEF Returned
  <2>2. footprints \in Seq(TransactionFootprint)
    BY DEF PartitionInv, ProgressInv
  <2>3. \A l \in DOMAIN lanes : IsSorted(lanes[l].txns, <)
    <3> SUFFICES ASSUME NEW l \in DOMAIN lanes PROVE IsSorted(lanes[l].txns, <)
      OBVIOUS
    <3>1. Rising(lanes[l].txns) /\ DOMAIN lanes[l].txns = 1..Len(lanes[l].txns)
      BY <2>1, LenProperties DEF ReturnedLanes
    <3> QED BY <3>1 DEF IsSorted, Rising
  <2>4. \A l, m \in DOMAIN lanes : l < m => lanes[l].id < lanes[m].id
    BY <2>1 DEF ReturnedLanes
  <2> QED BY <2>1, <2>2, <2>3, <2>4, OneLaneFlat, SpanBounded DEF LanesOrdered
<1> QED BY <1>1, AlwaysOrdered, PTL
=============================================================================
