----------------------- MODULE GreedySchedulerProofs -----------------------
(***************************************************************************)
(* The greedy scheduler's invariants, for every graph.                     *)
(***************************************************************************)
EXTENDS GreedyScheduler, SequenceFacts

\* The conjunction that is inductive: EarliestStage and StagesIndependent need
\* to know which transactions are in the stages, and that is ExactlyOnce.
GreedyInv ==
  /\ GreedyTypeOK
  /\ ExactlyOnce
  /\ StagesIndependent
  /\ EarliestStage

\* A transaction is in a stage iff it has a place in it.
LEMMA StageMember ==
  ASSUME GreedyTypeOK, NEW s \in 1..Len(stages), NEW t
  PROVE  /\ stages[s] \in Seq(1..Len(adjacency))
         /\ Len(stages[s]) \in Nat
         /\ t \in ToSet(stages[s]) <=>
              \E p \in 1..Len(stages[s]) : stages[s][p] = t
<1>1. stages[s] \in Seq(1..Len(adjacency))
  BY ElementOfSeq DEF GreedyTypeOK
<1> QED BY <1>1, ToSetMember, LenProperties

\* Both placements keep the types.
LEMMA TypePreserved ==
  ASSUME GreedyTypeOK, GreedyNext
  PROVE  GreedyTypeOK'
<1> USE DEF GreedyTypeOK
<1>0. stages \in Seq(Seq(1..Len(adjacency))) /\ Len(adjacency) \in Nat
  BY LenProperties DEF IsGraph
<1>1. ASSUME NEW s \in DOMAIN stages, PlaceInStage(s) PROVE GreedyTypeOK'
  <2>1. txn \in 1..Len(adjacency) /\ txn' \in 1..(Len(adjacency) + 1)
    BY <1>0, <1>1 DEF PlaceInStage
  <2>2. stages[s] \in Seq(1..Len(adjacency))
    BY <1>0, ElementOfSeq
  <2>3. Append(stages[s], txn) \in Seq(1..Len(adjacency))
    BY <2>1, <2>2, AppendProperties
  <2>4. stages' \in Seq(Seq(1..Len(adjacency)))
    BY <1>0, <1>1, <2>3, ExceptSeq DEF PlaceInStage
  <2> QED BY <1>1, <2>1, <2>4 DEF PlaceInStage
<1>2. CASE OpenStage
  <2>1. txn \in 1..Len(adjacency) /\ txn' \in 1..(Len(adjacency) + 1)
    BY <1>0, <1>2 DEF OpenStage
  <2>2. <<txn>> \in Seq(1..Len(adjacency))
    BY <2>1
  <2>3. stages' \in Seq(Seq(1..Len(adjacency)))
    BY <1>0, <1>2, <2>2, AppendProperties DEF OpenStage
  <2> QED BY <1>2, <2>1, <2>3 DEF OpenStage
<1> QED BY <1>1, <1>2 DEF GreedyNext
\* The members of a stage before the step; none if the step opens it.
Before(s) == IF s \in 1..Len(stages) THEN stages[s] ELSE <<>>

\* The stage "home" the current transaction is placed in: it goes to the end
\* of home, all other stages keep their members, nothing in home is adjacent
\* to it, and something in each earlier stage is.
IsHome(home) ==
  /\ 1..Len(stages') = (1..Len(stages)) \cup {home}
  /\ stages'[home] = Append(Before(home), txn)
  /\ \A s \in 1..Len(stages) : s # home => stages'[s] = stages[s]
  /\ \A u \in ToSet(Before(home)) : ~Adjacent(txn, u)
  /\ \A earlier \in 1..(home - 1) :
       /\ earlier \in 1..Len(stages)
       /\ \E u \in ToSet(stages[earlier]) : Adjacent(txn, u)

\* Every step places the current transaction, in exactly that way.
LEMMA StepHasHome ==
  ASSUME GreedyTypeOK, GreedyNext
  PROVE  /\ txn \in 1..Len(adjacency)
         /\ txn' = txn + 1
         /\ adjacency' = adjacency
         /\ \E home \in Nat \ {0} : IsHome(home)
<1>0. /\ stages \in Seq(Seq(1..Len(adjacency)))
      /\ Len(adjacency) \in Nat
      /\ Len(stages) \in Nat
      /\ DOMAIN stages = 1..Len(stages)
      /\ txn \in 1..(Len(adjacency) + 1)
  BY LenProperties DEF GreedyTypeOK, IsGraph
<1>1. ASSUME NEW s \in DOMAIN stages, PlaceInStage(s) PROVE IsHome(s)
  <2>1. Append(stages[s], txn) \in Seq(1..Len(adjacency))
    BY <1>0, <1>1, ElementOfSeq, AppendProperties DEF PlaceInStage
  <2>2. /\ Len(stages') = Len(stages)
        /\ stages'[s] = Append(Before(s), txn)
        /\ \A r \in 1..Len(stages) : r # s => stages'[r] = stages[r]
    BY <1>0, <1>1, <2>1, ExceptSeq DEF PlaceInStage, Before
  <2>3. \A u \in ToSet(Before(s)) : ~Adjacent(txn, u)
    BY <1>0, <1>1 DEF PlaceInStage, Fits, Before, Adjacent
  <2>4. \A earlier \in 1..(s - 1) :
          /\ earlier \in 1..Len(stages)
          /\ \E u \in ToSet(stages[earlier]) : Adjacent(txn, u)
    BY <1>0, <1>1 DEF PlaceInStage, Fits, Adjacent
  <2> QED BY <1>0, <2>2, <2>3, <2>4 DEF IsHome
<1>2. ASSUME OpenStage PROVE IsHome(Len(stages) + 1)
  <2>1. txn \in 1..Len(adjacency) /\ <<txn>> \in Seq(1..Len(adjacency))
    BY <1>0, <1>2 DEF OpenStage
  <2>2. /\ Len(stages') = Len(stages) + 1
        /\ stages'[Len(stages) + 1] = <<txn>>
        /\ \A r \in 1..Len(stages) : stages'[r] = stages[r]
    BY <1>0, <1>2, <2>1, AppendProperties DEF OpenStage
  <2>3. Before(Len(stages) + 1) = <<>> /\ Append(<<>>, txn) = <<txn>>
    BY <1>0 DEF Before
  <2>4. \A earlier \in 1..((Len(stages) + 1) - 1) :
          /\ earlier \in 1..Len(stages)
          /\ \E u \in ToSet(stages[earlier]) : Adjacent(txn, u)
    <3>1. 1..((Len(stages) + 1) - 1) = 1..Len(stages)
      BY <1>0
    <3> QED BY <1>0, <1>2, <3>1 DEF OpenStage, Fits, Adjacent
  <2> QED BY <1>0, <2>2, <2>3, <2>4, ToSetSmall DEF IsHome
<1>3. /\ txn \in 1..Len(adjacency)
      /\ txn' = txn + 1
      /\ adjacency' = adjacency
  BY <1>0 DEF GreedyNext, PlaceInStage, OpenStage
<1> QED BY <1>0, <1>1, <1>2, <1>3 DEF GreedyNext

\* The members of the stages after a step: those of before, and the current
\* transaction in its home.
LEMMA HomeMembers ==
  ASSUME GreedyTypeOK, txn \in 1..Len(adjacency), NEW home, IsHome(home)
  PROVE  /\ ToSet(stages'[home]) = ToSet(Before(home)) \cup {txn}
         /\ Before(home) \in Seq(1..Len(adjacency))
         /\ \A s \in 1..Len(stages') :
              s # home => s \in 1..Len(stages) /\ stages'[s] = stages[s]
<1>1. Before(home) \in Seq(1..Len(adjacency))
  <2>1. CASE home \in 1..Len(stages)
    BY <2>1, StageMember DEF Before
  <2>2. CASE home \notin 1..Len(stages)
    BY <2>2, EmptySeq DEF Before
  <2> QED BY <2>1, <2>2
<1>2. ToSet(Append(Before(home), txn)) = ToSet(Before(home)) \cup {txn}
  BY <1>1, ToSetAppend
<1> QED BY <1>1, <1>2 DEF IsHome

\* Every transaction stays placed exactly once.
LEMMA ExactlyOncePreserved ==
  ASSUME GreedyInv, GreedyNext
  PROVE  ExactlyOnce'
<1>1. GreedyTypeOK /\ GreedyTypeOK' /\ ExactlyOnce
  BY TypePreserved DEF GreedyInv
<1>2. /\ txn \in 1..Len(adjacency)
      /\ txn' = txn + 1
      /\ \E home \in Nat \ {0} : IsHome(home)
  BY <1>1, StepHasHome
<1>3. PICK home \in Nat \ {0} : IsHome(home)
  BY <1>2
<1>4. /\ ToSet(stages'[home]) = ToSet(Before(home)) \cup {txn}
      /\ Before(home) \in Seq(1..Len(adjacency))
      /\ \A s \in 1..Len(stages') :
           s # home => s \in 1..Len(stages) /\ stages'[s] = stages[s]
  BY <1>1, <1>2, <1>3, HomeMembers
<1>5. /\ DOMAIN stages = 1..Len(stages) /\ DOMAIN stages' = 1..Len(stages')
      /\ \A s \in 1..Len(stages) : DOMAIN stages[s] = 1..Len(stages[s])
      /\ \A s \in 1..Len(stages') : DOMAIN stages'[s] = 1..Len(stages'[s])
      /\ Len(adjacency) \in Nat
  BY <1>1, ElementOfSeq, LenProperties DEF GreedyTypeOK, IsGraph
<1>6. /\ \A s \in 1..Len(stages) : ToSet(stages[s]) \subseteq 1..(txn - 1)
      /\ \A t \in 1..(txn - 1) :
           \E s \in 1..Len(stages) : t \in ToSet(stages[s])
  BY <1>1, <1>5 DEF ExactlyOnce
<1>7. 1..(txn - 1) \subseteq 1..txn /\ 1..(txn' - 1) = 1..txn /\ txn \in 1..txn
  BY <1>2, <1>5
<1>8. ToSet(Before(home)) \subseteq 1..(txn - 1)
  BY <1>6, ToSetSmall DEF Before
<1>9. ASSUME NEW s \in 1..Len(stages') PROVE ToSet(stages'[s]) \subseteq 1..txn
  <2>1. CASE s = home
    BY <1>4, <1>7, <1>8, <2>1
  <2>2. CASE s # home
    BY <1>4, <1>6, <1>7, <2>2
  <2> QED BY <2>1, <2>2
<1>10. ASSUME NEW t \in 1..txn
       PROVE  \E s \in 1..Len(stages') : t \in ToSet(stages'[s])
  <2>1. home \in 1..Len(stages') /\ 1..Len(stages) \subseteq 1..Len(stages')
    BY <1>3 DEF IsHome
  <2>2. CASE t = txn
    BY <1>4, <2>1, <2>2
  <2>3. CASE t # txn
    <3>1. PICK s \in 1..Len(stages) : t \in ToSet(stages[s])
      BY <1>2, <1>5, <1>6, <2>3
    <3>2. CASE s = home
      BY <1>4, <2>1, <3>1, <3>2 DEF Before
    <3>3. CASE s # home
      BY <1>3, <2>1, <3>1, <3>3 DEF IsHome
    <3> QED BY <3>2, <3>3
  <2> QED BY <2>2, <2>3
<1> DEFINE At(s, p, t) ==
             s \in 1..Len(stages') /\ p \in 1..Len(stages'[s]) /\ stages'[s][p] = t
<1>11. ASSUME NEW s, NEW p, NEW t, At(s, p, t)
       PROVE  \/ t = txn /\ s = home /\ p = Len(Before(home)) + 1
              \/ /\ t # txn /\ s \in 1..Len(stages)
                 /\ p \in 1..Len(stages[s]) /\ stages[s][p] = t
  <2>1. CASE s = home
    <3>1. /\ Len(stages'[home]) = Len(Before(home)) + 1
          /\ \A q \in 1..Len(Before(home)) : stages'[home][q] = Before(home)[q]
          /\ stages'[home][Len(Before(home)) + 1] = txn
          /\ Len(Before(home)) \in Nat
      BY <1>2, <1>3, <1>4, AppendProperties, LenProperties DEF IsHome
    <3>2. CASE p = Len(Before(home)) + 1
      BY <1>11, <2>1, <3>1, <3>2
    <3>3. CASE p \in 1..Len(Before(home))
      <4>1. s \in 1..Len(stages) /\ Before(home) = stages[s]
        BY <2>1, <3>3, EmptySeq DEF Before
      <4>2. p \in 1..Len(stages[s]) /\ stages[s][p] = t
        BY <1>11, <2>1, <3>1, <3>3, <4>1
      <4>3. t \in 1..(txn - 1)
        BY <1>1, <1>6, <4>1, <4>2, StageMember
      <4> QED BY <1>2, <1>5, <4>1, <4>2, <4>3
    <3> QED BY <1>11, <2>1, <3>1, <3>2, <3>3
  <2>2. CASE s # home
    <3>1. /\ s \in 1..Len(stages)
          /\ p \in 1..Len(stages[s])
          /\ stages[s][p] = t
      BY <1>4, <1>11, <2>2
    <3>2. t \in 1..(txn - 1)
      BY <1>1, <1>6, <3>1, StageMember
    <3> QED BY <1>2, <1>5, <3>1, <3>2
  <2> QED BY <2>1, <2>2
<1>12. \A s, r \in 1..Len(stages) :
         \A p \in 1..Len(stages[s]), q \in 1..Len(stages[r]) :
           stages[s][p] = stages[r][q] => s = r /\ p = q
  <2> SUFFICES ASSUME NEW s \in 1..Len(stages), NEW r \in 1..Len(stages),
                      NEW p \in 1..Len(stages[s]), NEW q \in 1..Len(stages[r]),
                      stages[s][p] = stages[r][q]
               PROVE  s = r /\ p = q
    OBVIOUS
  <2>1. /\ s \in DOMAIN stages /\ r \in DOMAIN stages
        /\ p \in DOMAIN stages[s] /\ q \in DOMAIN stages[r]
    BY <1>5
  <2> QED BY <1>1, <2>1 DEF ExactlyOnce
<1>13. ASSUME NEW s, NEW r, NEW p, NEW q, NEW t, At(s, p, t), At(r, q, t)
       PROVE  s = r /\ p = q
  <2> HIDE DEF At
  <2>1. CASE t = txn
    BY <1>11, <1>13, <2>1
  <2>2. CASE t # txn
    <3>1. /\ s \in 1..Len(stages) /\ p \in 1..Len(stages[s])
          /\ r \in 1..Len(stages) /\ q \in 1..Len(stages[r])
          /\ stages[s][p] = t /\ stages[r][q] = t
      BY <1>11, <1>13, <2>2
    <3> QED BY <1>12, <3>1
  <2> QED BY <2>1, <2>2
<1>14. ASSUME NEW s \in DOMAIN stages', NEW r \in DOMAIN stages',
              NEW p \in DOMAIN stages'[s], NEW q \in DOMAIN stages'[r],
              stages'[s][p] = stages'[r][q]
       PROVE  s = r /\ p = q
  <2>1. At(s, p, stages'[s][p]) /\ At(r, q, stages'[s][p])
    BY <1>5, <1>14
  <2> QED BY <1>13, <2>1
<1> QED BY <1>5, <1>7, <1>9, <1>10, <1>14 DEF ExactlyOnce

\* No adjacent pair comes to share a stage: the home of the current
\* transaction has no neighbour of it, and adjacency is symmetric.
LEMMA IndependencePreserved ==
  ASSUME GreedyInv, GreedyNext
  PROVE  StagesIndependent'
<1>1. GreedyTypeOK /\ GreedyTypeOK' /\ StagesIndependent /\ ExactlyOnce
  BY TypePreserved DEF GreedyInv
<1>2. /\ txn \in 1..Len(adjacency)
      /\ adjacency' = adjacency
      /\ \E home \in Nat \ {0} : IsHome(home)
  BY <1>1, StepHasHome
<1>3. PICK home \in Nat \ {0} : IsHome(home)
  BY <1>2
<1>4. /\ ToSet(stages'[home]) = ToSet(Before(home)) \cup {txn}
      /\ Before(home) \in Seq(1..Len(adjacency))
      /\ \A s \in 1..Len(stages') :
           s # home => s \in 1..Len(stages) /\ stages'[s] = stages[s]
  <2>1. GreedyTypeOK /\ txn \in 1..Len(adjacency)
    BY <1>1, <1>2
  <2> QED BY <1>3, <2>1, HomeMembers
<1>5. DOMAIN stages = 1..Len(stages) /\ DOMAIN stages' = 1..Len(stages')
  BY <1>1, LenProperties DEF GreedyTypeOK
<1>6. /\ DOMAIN adjacency = 1..Len(adjacency)
      /\ \A i \in 1..Len(adjacency) : adjacency[i] \in Seq(1..Len(adjacency))
      /\ \A i \in 1..Len(adjacency) : \A j \in ToSet(adjacency[i]) :
           i # j /\ i \in ToSet(adjacency[j])
  BY <1>1, ElementOfSeq, LenProperties DEF GreedyTypeOK, IsGraph
<1>7. ToSet(Before(home)) \subseteq 1..Len(adjacency)
  BY <1>4, ToSetOver
<1>8. ~Adjacent(txn, txn)
  BY <1>2, <1>6 DEF Adjacent
<1>9. \A t \in ToSet(Before(home)) : ~Adjacent(txn, t) /\ ~Adjacent(t, txn)
  BY <1>2, <1>3, <1>6, <1>7 DEF IsHome, Adjacent
<1>10. ASSUME NEW s \in 1..Len(stages'),
              NEW t \in ToSet(stages'[s]), NEW u \in ToSet(stages'[s])
       PROVE  ~Adjacent(t, u)
  <2>1. CASE s # home
    BY <1>1, <1>4, <1>5, <2>1 DEF StagesIndependent
  <2>2. CASE s = home
    <3>1. \A x, y \in ToSet(Before(home)) : ~Adjacent(x, y)
      BY <1>1, <1>5, ToSetSmall DEF StagesIndependent, Before
    <3> QED BY <1>4, <1>8, <1>9, <2>2, <3>1
  <2> QED BY <2>1, <2>2
<1> QED BY <1>2, <1>5, <1>10 DEF StagesIndependent, Adjacent

\* The reasons a transaction has for its stage last, because the members of
\* earlier stages stay; the current transaction has its own from IsHome.
LEMMA EarliestPreserved ==
  ASSUME GreedyInv, GreedyNext
  PROVE  EarliestStage'
<1>1. GreedyTypeOK /\ GreedyTypeOK' /\ EarliestStage /\ ExactlyOnce
  BY TypePreserved DEF GreedyInv
<1>2. /\ txn \in 1..Len(adjacency)
      /\ adjacency' = adjacency
      /\ \E home \in Nat \ {0} : IsHome(home)
  BY <1>1, StepHasHome
<1>3. PICK home \in Nat \ {0} : IsHome(home)
  BY <1>2
<1>4. /\ ToSet(stages'[home]) = ToSet(Before(home)) \cup {txn}
      /\ \A s \in 1..Len(stages') :
           s # home => s \in 1..Len(stages) /\ stages'[s] = stages[s]
  <2>1. GreedyTypeOK /\ txn \in 1..Len(adjacency)
    BY <1>1, <1>2
  <2> QED BY <1>3, <2>1, HomeMembers
<1>5. /\ DOMAIN stages = 1..Len(stages) /\ DOMAIN stages' = 1..Len(stages')
      /\ Len(stages) \in Nat
  BY <1>1, LenProperties DEF GreedyTypeOK
<1>6. \A s \in 1..Len(stages) : ToSet(stages[s]) \subseteq ToSet(stages'[s])
  BY <1>3, <1>4 DEF IsHome, Before
<1>7. \A s \in 1..Len(stages) : \A u \in ToSet(stages[s]) : u < txn
  <2>1. txn \in Nat /\ \A u \in 1..(txn - 1) : u < txn
    BY <1>1, LenProperties DEF GreedyTypeOK, IsGraph
  <2> QED BY <1>1, <1>5, <2>1 DEF ExactlyOnce
<1>8. \A s \in 1..Len(stages) : \A t \in ToSet(stages[s]) :
        \A earlier \in 1..(s - 1) :
          /\ earlier \in 1..Len(stages)
          /\ \E u \in ToSet(stages[earlier]) : u < t /\ Adjacent(t, u)
  BY <1>1, <1>5 DEF EarliestStage
<1>9. ASSUME NEW s \in 1..Len(stages'), NEW t \in ToSet(stages'[s]),
             NEW earlier \in 1..(s - 1)
      PROVE  \E u \in ToSet(stages'[earlier]) : u < t /\ Adjacent(t, u)
  <2>1. CASE s # home
    BY <1>4, <1>6, <1>8, <2>1
  <2>2. CASE s = home /\ t \in ToSet(Before(home))
    BY <1>6, <1>8, <2>2, ToSetSmall DEF Before
  <2>3. CASE s = home /\ t = txn
    BY <1>3, <1>6, <1>7, <2>3 DEF IsHome
  <2> QED BY <1>4, <2>1, <2>2, <2>3
<1> QED BY <1>2, <1>5, <1>9 DEF EarliestStage, Adjacent

\* GreedyInv holds initially and every step, stuttering included, keeps it.
LEMMA GreedyInvInit == GreedyInit => GreedyInv
<1> SUFFICES ASSUME GreedyInit PROVE GreedyInv
  OBVIOUS
<1>1. IsGraph(adjacency) /\ Len(adjacency) \in Nat
  BY GraphsAssumption, LenProperties DEF GreedyInit, IsGraph
<1>2. /\ txn = 1 /\ stages = <<>>
      /\ Len(stages) = 0 /\ DOMAIN stages = {}
      /\ stages \in Seq(Seq(1..Len(adjacency)))
  BY EmptySeq DEF GreedyInit
<1> QED BY <1>1, <1>2
      DEF GreedyInv, GreedyTypeOK, ExactlyOnce, StagesIndependent, EarliestStage

LEMMA GreedyInvStep == GreedyInv /\ [GreedyNext]_greedyVars => GreedyInv'
<1>1. ASSUME GreedyInv, GreedyNext PROVE GreedyInv'
  <2>1. GreedyTypeOK
    BY <1>1 DEF GreedyInv
  <2> QED BY <1>1, <2>1, TypePreserved, ExactlyOncePreserved,
             IndependencePreserved, EarliestPreserved DEF GreedyInv
<1>2. ASSUME GreedyInv, UNCHANGED greedyVars PROVE GreedyInv'
  BY <1>2 DEF greedyVars, GreedyInv, GreedyTypeOK, ExactlyOnce,
              StagesIndependent, EarliestStage, Adjacent
<1> QED BY <1>1, <1>2

\* For every graph the scheduler is called with: the types, each transaction
\* placed exactly once, no two adjacent ones in a stage, and each one in the
\* earliest stage open to it.
THEOREM GreedySchedulerCorrect ==
  GreedySpec => [](GreedyTypeOK /\ ExactlyOnce /\ StagesIndependent /\ EarliestStage)
<1>1. GreedyInv => GreedyTypeOK /\ ExactlyOnce /\ StagesIndependent /\ EarliestStage
  BY DEF GreedyInv
<1> QED BY <1>1, GreedyInvInit, GreedyInvStep, PTL DEF GreedySpec

\* The stage of a transaction can be read off the stages: StageAt finds the
\* only one that has it.
StageAtReadable ==
  /\ \A s \in 1..Len(stages) : \A t \in ToSet(stages[s]) :
       StageAt(t) = s /\ t \in 1..(txn - 1)
  /\ \A t \in 1..(txn - 1) :
       StageAt(t) \in 1..Len(stages) /\ t \in ToSet(stages[StageAt(t)])

\* It is so because every transaction is placed exactly once.
LEMMA StageAtUnique == GreedyInv => StageAtReadable
<1> SUFFICES ASSUME GreedyInv PROVE StageAtReadable
  OBVIOUS
<1>1. GreedyTypeOK /\ ExactlyOnce
  BY DEF GreedyInv
<1>2. /\ DOMAIN stages = 1..Len(stages)
      /\ \A s \in 1..Len(stages) : DOMAIN stages[s] = 1..Len(stages[s])
  BY <1>1, ElementOfSeq, LenProperties DEF GreedyTypeOK
<1>3. ASSUME NEW s \in 1..Len(stages), NEW r \in 1..Len(stages), NEW t,
             t \in ToSet(stages[s]), t \in ToSet(stages[r])
      PROVE  s = r
  <2>1. \E p \in 1..Len(stages[s]) : stages[s][p] = t
    BY <1>1, <1>3, StageMember
  <2>2. \E q \in 1..Len(stages[r]) : stages[r][q] = t
    BY <1>1, <1>3, StageMember
  <2>3. ASSUME NEW p \in 1..Len(stages[s]), NEW q \in 1..Len(stages[r]),
               stages[s][p] = stages[r][q]
        PROVE  s = r
    <3>1. /\ s \in DOMAIN stages /\ r \in DOMAIN stages
          /\ p \in DOMAIN stages[s] /\ q \in DOMAIN stages[r]
      BY <1>2
    <3> QED BY <1>1, <2>3, <3>1 DEF ExactlyOnce
  <2> QED BY <2>1, <2>2, <2>3
<1>4. \A s \in 1..Len(stages) : \A t \in ToSet(stages[s]) :
        StageAt(t) = s /\ t \in 1..(txn - 1)
  BY <1>1, <1>2, <1>3 DEF StageAt, ExactlyOnce
<1>5. ASSUME NEW t \in 1..(txn - 1)
      PROVE  StageAt(t) \in 1..Len(stages) /\ t \in ToSet(stages[StageAt(t)])
  BY <1>1, <1>2 DEF StageAt, ExactlyOnce
<1> QED BY <1>4, <1>5 DEF StageAtReadable

\* A step of the scheduler is the abstract placement of the current
\* transaction in its home.
LEMMA StepPlaces ==
  ASSUME GreedyInv, GreedyNext
  PROVE  Assignment!AssignNext
<1>1. GreedyTypeOK /\ GreedyInv'
  BY GreedyInvStep DEF GreedyInv
<1>2. /\ txn \in 1..Len(adjacency)
      /\ txn' = txn + 1
      /\ adjacency' = adjacency
      /\ \E home \in Nat \ {0} : IsHome(home)
  BY <1>1, StepHasHome
<1>3. PICK home \in Nat \ {0} : IsHome(home)
  BY <1>2
<1>4. /\ ToSet(stages'[home]) = ToSet(Before(home)) \cup {txn}
      /\ \A s \in 1..Len(stages) : ToSet(stages[s]) \subseteq ToSet(stages'[s])
      /\ home \in 1..Len(stages') /\ 1..Len(stages) \subseteq 1..Len(stages')
  <2>1. ToSet(stages'[home]) = ToSet(Before(home)) \cup {txn}
    BY <1>1, <1>2, <1>3, HomeMembers
  <2> QED BY <1>3, <2>1 DEF IsHome, Before
<1>5. StageAtReadable /\ StageAtReadable'
  BY <1>1, StageAtUnique, PTL
<1>6. ASSUME NEW t \in 1..txn
      PROVE  StageAt(t)' = IF t = txn THEN home ELSE StageAt(t)
  <2>1. CASE t = txn
    BY <1>4, <1>5, <2>1 DEF StageAtReadable
  <2>2. CASE t # txn
    <3>1. t \in 1..(txn - 1)
      BY <1>2, <2>2
    <3>2. /\ StageAt(t) \in 1..Len(stages')
          /\ t \in ToSet(stages'[StageAt(t)])
      BY <1>4, <1>5, <3>1 DEF StageAtReadable
    <3> QED BY <1>5, <2>2, <3>2 DEF StageAtReadable
  <2> QED BY <2>1, <2>2
<1>7. 1..(txn' - 1) = 1..txn /\ 1..txn = (1..(txn - 1)) \cup {txn}
  BY <1>2
<1>8. StageOfPlaced' = [t \in (1..(txn - 1)) \cup {txn} |->
                          IF t = txn THEN home ELSE StageOfPlaced[t]]
  BY <1>6, <1>7 DEF StageOfPlaced
<1>9. \A t \in 1..(txn - 1) :
        t \in 1..Len(adjacency) /\ StageOfPlaced[t] = StageAt(t)
  BY <1>2 DEF StageOfPlaced
<1>10. Assignment!Placed = 1..(txn - 1)
  BY DEF Assignment!Placed, StageOfPlaced
<1>11. PICK t : t = txn
  OBVIOUS
<1>12. ~Assignment!Blocked(t, home)
  <2>1. ASSUME NEW u \in 1..(txn - 1), StageAt(u) = home
        PROVE  <<t, u>> \notin AdjacentPairs
    <3>1. u \in ToSet(Before(home))
      BY <1>5, <2>1 DEF StageAtReadable, Before
    <3> QED BY <1>3, <1>11, <3>1 DEF IsHome, Adjacent, AdjacentPairs
  <2> QED BY <1>9, <1>10, <2>1 DEF Assignment!Blocked
<1>13. ASSUME NEW earlier \in 1..(home - 1)
       PROVE  \E u \in 1..(txn - 1) :
                StageOfPlaced[u] = earlier /\ <<t, u>> \in AdjacentPairs
  <2>1. PICK u \in ToSet(stages[earlier]) : Adjacent(txn, u)
    BY <1>3 DEF IsHome
  <2>2. u \in 1..(txn - 1) /\ StageAt(u) = earlier
    BY <1>3, <1>5, <2>1 DEF IsHome, StageAtReadable
  <2> QED BY <1>2, <1>9, <1>11, <2>1, <2>2 DEF Adjacent, AdjacentPairs
<1>14. \A earlier \in 1..(home - 1) : Assignment!Blocked(t, earlier)
  BY <1>10, <1>13 DEF Assignment!Blocked
<1>15. home \in Assignment!CandidateStages
  <2>1. CASE home = 1
    BY <2>1 DEF Assignment!CandidateStages
  <2>2. CASE home # 1
    <3>1. home - 1 \in 1..(home - 1)
      BY <2>2
    <3>2. PICK u \in 1..(txn - 1) : StageOfPlaced[u] = home - 1
      BY <1>13, <3>1
    <3>3. home = StageOfPlaced[u] + 1
      BY <3>2
    <3> QED BY <1>10, <3>3 DEF Assignment!CandidateStages
  <2> QED BY <2>1, <2>2
<1>16. /\ (txn..Len(adjacency))' = (txn..Len(adjacency)) \ {t}
       /\ t \in txn..Len(adjacency)
  BY <1>2, <1>11, LenProperties
<1>17. AdjacentPairs' = AdjacentPairs
  BY <1>2 DEF AdjacentPairs
<1>18. Assignment!Place(t, home)
  BY <1>8, <1>10, <1>11, <1>12, <1>14, <1>16, <1>17 DEF Assignment!Place
<1> QED BY <1>15, <1>16, <1>18 DEF Assignment!AssignNext

\* The initial states are initial states of the abstract specification.
LEMMA InitPlacesNothing == GreedyInit => Assignment!AssignInit
<1> SUFFICES ASSUME GreedyInit PROVE Assignment!AssignInit
  OBVIOUS
<1>1. /\ IsGraph(adjacency) /\ Len(adjacency) \in Nat
      /\ DOMAIN adjacency = 1..Len(adjacency)
  BY GraphsAssumption, LenProperties DEF GreedyInit, IsGraph
<1>2. /\ txn = 1 /\ 1..(txn - 1) = {}
      /\ txn..Len(adjacency) = 1..Len(adjacency)
  BY DEF GreedyInit
<1>3. \A i \in 1..Len(adjacency) : \A j \in ToSet(adjacency[i]) :
        i # j /\ i \in ToSet(adjacency[j])
  BY <1>1 DEF IsGraph
<1>4. StageOfPlaced = [u \in {} |-> 1]
  BY <1>2 DEF StageOfPlaced
<1> QED BY <1>1, <1>2, <1>3, <1>4 DEF Assignment!AssignInit, AdjacentPairs

\* The greedy scheduler implements StageAssignment.
THEOREM GreedyRefinesAssignment == GreedySpec => ImplementsAssignment
<1>1. GreedyInv /\ [GreedyNext]_greedyVars
        => [Assignment!AssignNext]_(Assignment!assignVars)
  <2>1. ASSUME GreedyInv, GreedyNext PROVE Assignment!AssignNext
    BY <2>1, StepPlaces
  <2>2. ASSUME UNCHANGED greedyVars PROVE UNCHANGED Assignment!assignVars
    BY <2>2 DEF greedyVars, Assignment!assignVars,
              AdjacentPairs, StageOfPlaced, StageAt
  <2> QED BY <2>1, <2>2
<1> QED BY <1>1, GreedyInvInit, GreedyInvStep, InitPlacesNothing, PTL
       DEF GreedySpec, ImplementsAssignment, Assignment!AssignSpec

\* A placed transaction never moves.
THEOREM GreedyPlacedStays == GreedySpec => PlacedStays
<1> DEFINE Kept == /\ Len(stages) <= Len(stages')
                   /\ \A s \in DOMAIN stages : IsPrefix(stages[s], stages'[s])
<1>1. ASSUME NEW S, NEW list \in Seq(S), NEW e \in S
      PROVE  IsPrefix(list, list) /\ IsPrefix(list, Append(list, e))
  <2>1. Append(list, e) \in Seq(S) /\ Len(list) \in Nat
        /\ Len(Append(list, e)) = Len(list) + 1
        /\ \A p \in 1..Len(list) : Append(list, e)[p] = list[p]
    BY <1>1, AppendProperties, LenProperties
  <2>2. SubSeq(list, 1, Len(list)) = SubSeq(Append(list, e), 1, Len(list))
    BY <2>1, <1>1
  <2> QED BY <2>1, <2>2 DEF IsPrefix
<1>2. ASSUME GreedyInv, GreedyNext PROVE Kept
  <2>1. GreedyTypeOK
    BY <1>2 DEF GreedyInv
  <2>2. /\ txn \in 1..Len(adjacency)
        /\ \E home \in Nat \ {0} : IsHome(home)
    BY <1>2, <2>1, StepHasHome
  <2>3. PICK home \in Nat \ {0} : IsHome(home)
    BY <2>2
  <2>4. /\ DOMAIN stages = 1..Len(stages)
        /\ Len(stages) \in Nat
        /\ \A s \in 1..Len(stages) : stages[s] \in Seq(1..Len(adjacency))
    BY <2>1, ElementOfSeq, LenProperties DEF GreedyTypeOK
  <2>5. Len(stages) <= Len(stages')
    <3>1. Len(stages') \in Nat
      BY <1>2, <2>1, TypePreserved, LenProperties DEF GreedyTypeOK
    <3>2. 1..Len(stages) \subseteq 1..Len(stages')
      BY <2>3 DEF IsHome
    <3>3. Len(stages) # 0 => Len(stages) \in 1..Len(stages)
      BY <2>4
    <3>4. Len(stages) # 0 => Len(stages) \in 1..Len(stages')
      BY <3>2, <3>3
    <3> QED BY <2>4, <3>1, <3>4
  <2>6. ASSUME NEW s \in 1..Len(stages) PROVE IsPrefix(stages[s], stages'[s])
    <3>1. CASE s = home
      <4>1. stages'[s] = Append(stages[s], txn)
        BY <2>3, <3>1 DEF IsHome, Before
      <4> QED BY <1>1, <2>2, <2>4, <4>1
    <3>2. CASE s # home
      BY <1>1, <2>2, <2>3, <2>4, <3>2 DEF IsHome
    <3> QED BY <3>1, <3>2
  <2> QED BY <2>4, <2>5, <2>6
<1>3. GreedyInv /\ [GreedyNext]_greedyVars => [Kept]_greedyVars
  BY <1>2
<1> QED BY <1>3, GreedyInvInit, GreedyInvStep, PTL DEF GreedySpec, PlacedStays

\* No stage is without members.
StagesInhabited == \A s \in 1..Len(stages) : ToSet(stages[s]) # {}

LEMMA InhabitedPreserved ==
  ASSUME GreedyInv, StagesInhabited, GreedyNext
  PROVE  StagesInhabited'
<1>1. GreedyTypeOK
  BY DEF GreedyInv
<1>2. /\ txn \in 1..Len(adjacency)
      /\ \E home \in Nat \ {0} : IsHome(home)
  BY <1>1, StepHasHome
<1>3. PICK home \in Nat \ {0} : IsHome(home)
  BY <1>2
<1>4. /\ ToSet(stages'[home]) = ToSet(Before(home)) \cup {txn}
      /\ \A s \in 1..Len(stages') :
           s # home => s \in 1..Len(stages) /\ stages'[s] = stages[s]
  BY <1>1, <1>2, <1>3, HomeMembers
<1> QED BY <1>4 DEF StagesInhabited

\* A member of the last stage has a neighbour in every earlier one, and these
\* neighbours differ because no transaction is in two stages.
LEMMA BoundFromNeighbours == GreedyInv /\ StagesInhabited => StageBound
<1> SUFFICES ASSUME GreedyInv, StagesInhabited, stages # <<>>
             PROVE  \E t \in 1..(txn - 1) :
                      Len(stages) <= Cardinality(ToSet(adjacency[t])) + 1
  BY DEF StageBound
<1> DEFINE last == Len(stages)
<1>1. /\ GreedyTypeOK /\ EarliestStage /\ StageAtReadable
      /\ last \in Nat \ {0} /\ DOMAIN stages = 1..last /\ last \in 1..Len(stages)
      /\ Len(adjacency) \in Nat /\ txn \in 1..(Len(adjacency) + 1)
      /\ adjacency \in Seq(Seq(1..Len(adjacency)))
  BY StageAtUnique, LenProperties, EmptySeq DEF GreedyInv, GreedyTypeOK, IsGraph
<1> HIDE DEF last
<1>2. PICK t : t \in ToSet(stages[last])
  BY <1>1 DEF StagesInhabited
<1>3. t \in 1..(txn - 1) /\ t \in 1..Len(adjacency)
  <2>1. t \in 1..(txn - 1)
    BY <1>1, <1>2 DEF StageAtReadable
  <2> QED BY <1>1, <2>1
<1> DEFINE Neighbour(s) ==
             CHOOSE u : u \in ToSet(stages[s]) /\ u \in ToSet(adjacency[t])
           neighbours == [s \in 1..(last - 1) |-> Neighbour(s)]
<1>4. ASSUME NEW s \in 1..(last - 1)
      PROVE  /\ Neighbour(s) \in ToSet(adjacency[t])
             /\ StageAt(Neighbour(s)) = s
  <2>1. \E u : u \in ToSet(stages[s]) /\ u \in ToSet(adjacency[t])
    <3>1. last \in DOMAIN stages
      BY <1>1
    <3> QED BY <1>1, <1>2, <3>1 DEF EarliestStage, Adjacent
  <2>2. Neighbour(s) \in ToSet(stages[s]) /\ Neighbour(s) \in ToSet(adjacency[t])
    BY <2>1
  <2>3. s \in 1..Len(stages)
    BY <1>1 DEF last
  <2> QED BY <1>1, <2>2, <2>3 DEF StageAtReadable
<1> HIDE DEF Neighbour
<1>5. neighbours \in Injection(1..(last - 1), ToSet(adjacency[t]))
  BY <1>4 DEF Injection, IsInjective
<1> HIDE DEF neighbours
<1>6. IsFiniteSet(ToSet(adjacency[t]))
  BY <1>1, <1>3, ElementOfSeq, ToSetFinite
<1>7. Cardinality(1..(last - 1)) <= Cardinality(ToSet(adjacency[t]))
  BY <1>5, <1>6, FS_Injection
<1>8. Cardinality(1..(last - 1)) = last - 1
  <2>1. /\ last - 1 \in Int
        /\ (IF 1 > last - 1 THEN 0 ELSE (last - 1) - 1 + 1) = last - 1
    BY <1>1
  <2> QED BY <2>1, FS_Interval
<1>9. Cardinality(ToSet(adjacency[t])) \in Nat
  BY <1>6, FS_CardinalityType
<1> QED BY <1>1, <1>3, <1>7, <1>8, <1>9 DEF last

\* The greedy colouring's bound: for every graph, never more than one stage
\* above the largest number of conflicts of a placed transaction.
THEOREM GreedyStageBound == GreedySpec => []StageBound
<1>1. GreedyInit => StagesInhabited
  BY EmptySeq DEF GreedyInit, StagesInhabited
<1>2. GreedyInv /\ StagesInhabited /\ [GreedyNext]_greedyVars => StagesInhabited'
  <2>1. ASSUME StagesInhabited, UNCHANGED greedyVars PROVE StagesInhabited'
    BY <2>1 DEF greedyVars, StagesInhabited
  <2> QED BY <2>1, InhabitedPreserved
<1> QED BY <1>1, <1>2, GreedyInvInit, GreedyInvStep, BoundFromNeighbours, PTL
       DEF GreedySpec
=============================================================================
