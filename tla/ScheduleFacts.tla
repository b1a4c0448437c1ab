--------------------------- MODULE ScheduleFacts ---------------------------
(***************************************************************************)
(* What the function ScheduleOf returns, for every list of footprints: a   *)
(* conflict-free schedule with each transaction at one place, and what the *)
(* validators of the code make of such a schedule.  Then what the functions*)
(* of Score return of footprints and of a graph: the rankings, the counts  *)
(* of conflicts, and the heaviest chains.                                  *)
(***************************************************************************)
EXTENDS Score, SequenceFacts

\* No element is at two places of a list of lists.
EachOnce(lists) ==
  \A s, r \in DOMAIN lists :
    \A p \in DOMAIN lists[s], q \in DOMAIN lists[r] :
      lists[s][p] = lists[r][q] => s = r /\ p = q

-----------------------------------------------------------------------------
\* The recursion of Total is well founded: its equations hold.
LEMMA TotalIs ==
  ASSUME NEW sizes \in Seq(Nat)
  PROVE  \E sum \in [0..Len(sizes) -> Nat] :
           /\ sum[0] = 0
           /\ \A k \in 1..Len(sizes) : sum[k] = sum[k - 1] + sizes[k]
           /\ Total(sizes) = sum[Len(sizes)]
<1> DEFINE n == Len(sizes)
           Sums(w) == [k \in 0..n |-> IF k = 0 THEN 0 ELSE w[k - 1] + sizes[k]]
           step == [k \in 1..n |-> [v \in Nat |-> v + sizes[k]]]
           result == CHOOSE w : w = Sums(w)
<1>1. n \in Nat /\ \A k \in 1..n : sizes[k] \in Nat
  BY LenProperties, ElementOfSeq
<1>2. Total(sizes) = result[n]
  BY DEF Total
<1> HIDE DEF n, result
<1>3. step \in [1..n -> [Nat -> Nat]]
  BY <1>1
<1>4. PICK after : Iterates(after, Nat, 0, n, step)
  <2>1. 0 \in Nat
    OBVIOUS
  <2> HIDE DEF step
  <2> QED BY <1>1, <1>3, <2>1, IterationExists
<1>5. \A k \in 1..n : after[k] = after[k - 1] + sizes[k]
  <2> SUFFICES ASSUME NEW k \in 1..n PROVE after[k] = after[k - 1] + sizes[k]
    OBVIOUS
  <2>1. k - 1 \in 0..n
    BY <1>1
  <2>2. after[k - 1] \in Nat /\ after[k] = step[k][after[k - 1]]
    BY <1>4, <2>1 DEF Iterates
  <2> QED BY <2>2
<1>6. after \in [0..n -> Nat] /\ after[0] = 0
  BY <1>4 DEF Iterates
<1> HIDE DEF step
<1>7. after = Sums(after)
  BY <1>5, <1>6
<1>8. result = Sums(result)
  BY <1>7 DEF result
<1>9. result[0] = 0 /\ \A k \in 1..n : result[k] = result[k - 1] + sizes[k]
  BY <1>1, <1>8
<1>10. \A k \in 0..n : after[k] = result[k]
  <2>1. after[0] = result[0]
    BY <1>6, <1>9
  <2>2. \A k \in 1..n : after[k - 1] = result[k - 1] => after[k] = result[k]
    BY <1>5, <1>9
  <2>3. StepsAgree(after, result, n)
    BY <1>1, <2>1, <2>2 DEF StepsAgree
  <2> QED BY <1>1, <2>3, IterationAgrees
<1>11. n \in 0..n
  BY <1>1
<1> QED BY <1>2, <1>5, <1>6, <1>10, <1>11 DEF n

\* The members of the first k lists.
FirstSeen(lists, k) == UNION {ToSet(lists[s]) : s \in 1..k}

\* The next list adds its members, all of them new if no element repeats.
LEMMA FirstSeenGrows ==
  ASSUME NEW S, NEW lists, NEW m \in Nat, DOMAIN lists = 1..m,
         \A s \in 1..m : lists[s] \in Seq(S),
         EachOnce(lists), NEW k \in 0..(m - 1)
  PROVE  /\ FirstSeen(lists, k + 1) = FirstSeen(lists, k) \cup ToSet(lists[k + 1])
         /\ FirstSeen(lists, k) \cap ToSet(lists[k + 1]) = {}
<1>1. k + 1 \in 1..m /\ 1..(k + 1) = 1..k \cup {k + 1}
  OBVIOUS
<1>2. ASSUME NEW e \in FirstSeen(lists, k), e \in ToSet(lists[k + 1]) PROVE FALSE
  <2>1. PICK s \in 1..k : e \in ToSet(lists[s])
    BY DEF FirstSeen
  <2>2. s \in 1..m /\ s # k + 1 /\ lists[s] \in Seq(S) /\ lists[k + 1] \in Seq(S)
    BY <1>1
  <2>3. PICK p \in DOMAIN lists[s] : lists[s][p] = e
    BY <2>1, <2>2, ToSetMember, LenProperties
  <2>4. PICK q \in DOMAIN lists[k + 1] : lists[k + 1][q] = e
    BY <1>2, <2>2, ToSetMember, LenProperties
  <2> QED BY <1>1, <2>2, <2>3, <2>4 DEF EachOnce
<1> QED BY <1>1, <1>2 DEF FirstSeen

\* When no element repeats, the lengths add up to the number of elements.
LEMMA TotalCounts ==
  ASSUME NEW S, NEW lists, NEW m \in Nat, DOMAIN lists = 1..m,
         \A s \in 1..m : lists[s] \in Seq(S),
         EachOnce(lists)
  PROVE  /\ IsFiniteSet(Seen(lists))
         /\ Total([s \in DOMAIN lists |-> Len(lists[s])]) = Cardinality(Seen(lists))
<1> DEFINE sizes == [s \in DOMAIN lists |-> Len(lists[s])]
<1>1. /\ sizes \in Seq(Nat) /\ Len(sizes) = m
      /\ \A s \in 1..m : sizes[s] = Len(lists[s])
  <2>1. \A s \in 1..m : Len(lists[s]) \in Nat
    BY LenProperties
  <2>2. sizes \in [1..m -> Nat]
    BY <2>1
  <2> QED BY <2>1, <2>2, IsASeq, LenProperties
<1> HIDE DEF sizes
<1>2. PICK sum \in [0..m -> Nat] :
        /\ sum[0] = 0
        /\ \A k \in 1..m : sum[k] = sum[k - 1] + sizes[k]
        /\ Total(sizes) = sum[m]
  BY <1>1, TotalIs
<1> DEFINE Good == {k \in 0..m : /\ IsFiniteSet(FirstSeen(lists, k))
                                 /\ sum[k] = Cardinality(FirstSeen(lists, k))}
<1>3. 0 \in Good
  <2>1. FirstSeen(lists, 0) = {}
    BY DEF FirstSeen
  <2> QED BY <1>2, <2>1, FS_EmptySet
<1>4. ASSUME NEW k \in 0..(m - 1), k \in Good PROVE k + 1 \in Good
  <2> DEFINE old == FirstSeen(lists, k)
             new == ToSet(lists[k + 1])
  <2>1. k + 1 \in 1..m /\ lists[k + 1] \in Seq(S)
    OBVIOUS
  <2>2. FirstSeen(lists, k + 1) = old \cup new /\ old \cap new = {}
    BY FirstSeenGrows
  <2>3. IsFiniteSet(new) /\ Cardinality(new) = sizes[k + 1]
    <3>1. \A p, q \in DOMAIN lists[k + 1] : lists[k + 1][p] = lists[k + 1][q] => p = q
      BY <2>1 DEF EachOnce
    <3> QED BY <1>1, <2>1, <3>1, InjectiveSize
  <2>5. IsFiniteSet(old) /\ sum[k] = Cardinality(old)
    BY <1>4
  <2> HIDE DEF old, new
  <2>6. /\ IsFiniteSet(old \cup new)
        /\ Cardinality(old \cup new) = Cardinality(old) + Cardinality(new)
    <3>1. Cardinality(old \cap new) = 0
      BY <2>2, FS_EmptySet
    <3>2. /\ IsFiniteSet(old \cup new)
          /\ Cardinality(old \cup new) = Cardinality(old) + Cardinality(new)
                                         - Cardinality(old \cap new)
      BY <2>3, <2>5, FS_Union
    <3>3. Cardinality(old) \in Nat /\ Cardinality(new) \in Nat
      BY <2>3, <2>5, FS_CardinalityType
    <3> QED BY <3>1, <3>2, <3>3
  <2>7. sum[k + 1] = sum[k] + sizes[k + 1]
    BY <1>2, <2>1
  <2>8. k + 1 \in 0..m
    BY <2>1
  <2> QED BY <2>2, <2>3, <2>5, <2>6, <2>7, <2>8
<1> HIDE DEF Good
<1>5. m \in Good
  <2>1. 0..m \subseteq Good
    <3>1. Inductive(Good, m)
      BY <1>3, <1>4 DEF Inductive
    <3> QED BY <3>1, InductionTo
  <2> QED BY <2>1
<1>6. FirstSeen(lists, m) = Seen(lists)
  BY DEF FirstSeen, Seen
<1> QED BY <1>2, <1>5, <1>6 DEF Good, sizes

\* Putting two lists behind one another: the elements are those of both.
LEMMA ConcatMembers ==
  ASSUME NEW S, NEW a \in Seq(S), NEW b \in Seq(S)
  PROVE  ToSet(a \o b) = ToSet(a) \cup ToSet(b)
<1>1. /\ a \o b \in Seq(S) /\ Len(a \o b) = Len(a) + Len(b)
      /\ Len(a) \in Nat /\ Len(b) \in Nat
      /\ \A i \in 1..(Len(a) + Len(b)) :
           (a \o b)[i] = IF i <= Len(a) THEN a[i] ELSE b[i - Len(a)]
  BY ConcatProperties, LenProperties
<1>2. ASSUME NEW e \in ToSet(a \o b) PROVE e \in ToSet(a) \cup ToSet(b)
  <2>1. PICK i \in 1..(Len(a) + Len(b)) : (a \o b)[i] = e
    BY <1>1, ToSetMember
  <2>2. CASE i <= Len(a)
    <3>1. i \in 1..Len(a) /\ a[i] = e
      BY <1>1, <2>1, <2>2
    <3> QED BY <3>1, ToSetMember
  <2>3. CASE ~(i <= Len(a))
    <3>1. i - Len(a) \in 1..Len(b) /\ b[i - Len(a)] = e
      BY <1>1, <2>1, <2>3
    <3> QED BY <3>1, ToSetMember
  <2> QED BY <2>2, <2>3
<1>3. ASSUME NEW e \in ToSet(a) PROVE e \in ToSet(a \o b)
  <2>1. PICK i \in 1..Len(a) : a[i] = e
    BY ToSetMember
  <2>2. i \in 1..Len(a \o b) /\ (a \o b)[i] = e
    BY <1>1, <2>1
  <2> QED BY <1>1, <2>2, ToSetMember
<1>4. ASSUME NEW e \in ToSet(b) PROVE e \in ToSet(a \o b)
  <2>1. PICK i \in 1..Len(b) : b[i] = e
    BY ToSetMember
  <2>2. /\ i + Len(a) \in 1..Len(a \o b) /\ ~(i + Len(a) <= Len(a))
        /\ (i + Len(a)) - Len(a) = i
    BY <1>1
  <2>3. (a \o b)[i + Len(a)] = e
    BY <1>1, <2>1, <2>2
  <2> QED BY <1>1, <2>2, <2>3, ToSetMember
<1> QED BY <1>2, <1>3, <1>4

\* Two lists without repetition and without a common element.
LEMMA ConcatInjective ==
  ASSUME NEW S, NEW a \in Seq(S), NEW b \in Seq(S),
         IsInjective(a), IsInjective(b), ToSet(a) \cap ToSet(b) = {}
  PROVE  IsInjective(a \o b)
<1>1. /\ Len(a) \in Nat /\ Len(b) \in Nat
      /\ DOMAIN a = 1..Len(a) /\ DOMAIN b = 1..Len(b)
      /\ DOMAIN (a \o b) = 1..(Len(a) + Len(b))
      /\ \A i \in 1..(Len(a) + Len(b)) :
           (a \o b)[i] = IF i <= Len(a) THEN a[i] ELSE b[i - Len(a)]
  <2>1. a \o b \in Seq(S) /\ Len(a \o b) = Len(a) + Len(b)
    BY ConcatProperties
  <2> QED BY <2>1, ConcatProperties, LenProperties
<1>2. \A i \in 1..Len(a) : a[i] \in ToSet(a)
  BY ToSetMember
<1>3. \A i \in 1..Len(b) : b[i] \in ToSet(b)
  BY ToSetMember
<1>4. \A i \in 1..(Len(a) + Len(b)) :
        \/ i \in 1..Len(a) /\ (a \o b)[i] = a[i]
        \/ i - Len(a) \in 1..Len(b) /\ (a \o b)[i] = b[i - Len(a)]
  BY <1>1
<1>5. ASSUME NEW i \in 1..(Len(a) + Len(b)), NEW j \in 1..(Len(a) + Len(b)),
             (a \o b)[i] = (a \o b)[j]
      PROVE  i = j
  <2>1. CASE i \in 1..Len(a) /\ (a \o b)[i] = a[i]
    <3>1. j \in 1..Len(a) /\ (a \o b)[j] = a[j]
      BY <1>2, <1>3, <1>4, <1>5, <2>1
    <3> QED BY <1>1, <1>5, <2>1, <3>1 DEF IsInjective
  <2>2. CASE i - Len(a) \in 1..Len(b) /\ (a \o b)[i] = b[i - Len(a)]
    <3>1. j - Len(a) \in 1..Len(b) /\ (a \o b)[j] = b[j - Len(a)]
      BY <1>2, <1>3, <1>4, <1>5, <2>2
    <3>2. i - Len(a) = j - Len(a)
      BY <1>1, <1>5, <2>2, <3>1 DEF IsInjective
    <3> QED BY <1>1, <3>2
  <2> QED BY <1>4, <2>1, <2>2
<1> QED BY <1>1, <1>5 DEF IsInjective

\* The lists one after the other: nothing is lost, nothing repeats.
LEMMA FlattenOnce ==
  ASSUME NEW S, NEW lists \in Seq(Seq(S)), EachOnce(lists)
  PROVE  /\ FlattenSeq(lists) \in Seq(S)
         /\ ToSet(FlattenSeq(lists)) = Seen(lists)
         /\ IsInjective(FlattenSeq(lists))
<1> DEFINE m == Len(lists)
<1>1. m \in Nat /\ DOMAIN lists = 1..m /\ \A i \in 1..m : lists[i] \in Seq(S)
  BY LenProperties, ElementOfSeq
<1>2. PICK after : Flattens(after, S, lists)
  BY FlattenSteps
<1>3. after \in [0..m -> Seq(S)] /\ after[0] = <<>>
  BY <1>2 DEF Flattens
<1>4. ASSUME NEW i \in 1..m
      PROVE  /\ i - 1 \in 0..m /\ after[i - 1] \in Seq(S) /\ lists[i] \in Seq(S)
             /\ after[i] = after[i - 1] \o lists[i]
  <2>1. after[i] = after[i - 1] \o lists[i]
    BY <1>2 DEF Flattens
  <2>2. i - 1 \in 0..m
    BY <1>1
  <2> QED BY <1>1, <1>3, <2>1, <2>2
<1>5. FlattenSeq(lists) = after[m]
  BY <1>2 DEF Flattens
<1> HIDE DEF m
<1> DEFINE Good == {i \in 0..m : /\ ToSet(after[i]) = FirstSeen(lists, i)
                                 /\ IsInjective(after[i])}
<1>6. 0 \in Good
  <2>1. FirstSeen(lists, 0) = {} /\ IsInjective(after[0])
    BY <1>3 DEF FirstSeen, IsInjective
  <2>2. ToSet(after[0]) = {} /\ 0 \in 0..m
    BY <1>1, <1>3, ToSetSmall
  <2> QED BY <2>1, <2>2
<1>7. ASSUME NEW k \in 0..(m - 1), k \in Good PROVE k + 1 \in Good
  <2> DEFINE i == k + 1
  <2>1. /\ i \in 1..m /\ i \in 0..m /\ i - 1 = k
    BY <1>1
  <2>2. /\ after[i] = after[k] \o lists[i]
        /\ after[k] \in Seq(S) /\ lists[i] \in Seq(S)
    BY <1>4, <2>1
  <2>3. /\ FirstSeen(lists, i) = FirstSeen(lists, k) \cup ToSet(lists[i])
        /\ FirstSeen(lists, k) \cap ToSet(lists[i]) = {}
    BY <1>1, FirstSeenGrows
  <2>4. ToSet(after[k]) = FirstSeen(lists, k) /\ IsInjective(after[k])
    BY <1>7
  <2>5. IsInjective(lists[i])
    <3>1. i \in DOMAIN lists
      BY <1>1, <2>1
    <3>2. \A p, q \in DOMAIN lists[i] : lists[i][p] = lists[i][q] => p = q
      BY <3>1 DEF EachOnce
    <3> QED BY <3>2 DEF IsInjective
  <2> HIDE DEF i
  <2>6. ToSet(after[i]) = FirstSeen(lists, i)
    BY <2>2, <2>3, <2>4, ConcatMembers
  <2>7. IsInjective(after[i])
    BY <2>2, <2>3, <2>4, <2>5, ConcatInjective
  <2> QED BY <2>1, <2>6, <2>7 DEF i
<1> HIDE DEF Good
<1>8. m \in Good
  <2>1. 0..m \subseteq Good
    <3>1. Inductive(Good, m)
      BY <1>1, <1>6, <1>7 DEF Inductive
    <3> QED BY <1>1, <3>1, InductionTo
  <2> QED BY <1>1, <2>1
<1>9. FirstSeen(lists, m) = Seen(lists)
  BY <1>1 DEF FirstSeen, Seen
<1>10. after[m] \in Seq(S)
  BY <1>1, <1>3
<1> QED BY <1>5, <1>8, <1>9, <1>10 DEF Good

-----------------------------------------------------------------------------
\* The stages in which a transaction conflicts with nobody.
FreeStages(stages, t, F) == {s \in 1..Len(stages) : Free(stages[s], t, F)}

\* Join takes the first of them ...
LEMMA JoinFirst ==
  ASSUME NEW stages, NEW t, NEW F, NEW s \in FreeStages(stages, t, F),
         FreeStages(stages, t, F) \subseteq Nat \ {0},
         \A earlier \in FreeStages(stages, t, F) : s <= earlier
  PROVE  Join(stages, t, F) = [stages EXCEPT ![s] = Append(@, t)]
<1>1. Min(FreeStages(stages, t, F)) = s
  BY MinIs
<1>2. s # 0 /\ FreeStages(stages, t, F) # {}
  OBVIOUS
<1> QED BY <1>1, <1>2 DEF Join, SelectInSeq, FreeStages

\* ... or opens a stage if there is none.
LEMMA JoinOpens ==
  ASSUME NEW stages, NEW t, NEW F, FreeStages(stages, t, F) = {}
  PROVE  Join(stages, t, F) = Append(stages, <<t>>)
BY DEF Join, SelectInSeq, FreeStages

\* The members of a stage; none if it is not yet open.
Kept(stages, s) == IF s \in 1..Len(stages) THEN stages[s] ELSE <<>>

\* The transaction is behind the members of its home, where it conflicts with
\* nobody, and no other stage changes.
JoinedAt(home, old, new, t, F) ==
  /\ home \in Nat
  /\ DOMAIN new = DOMAIN old \cup {home}
  /\ Len(new) <= Len(old) + 1
  /\ new[home] = Append(Kept(old, home), t)
  /\ Free(Kept(old, home), t, F)
  /\ \A s \in DOMAIN old : s # home => new[s] = old[s]

\* The stage joined, new or old.
LEMMA JoinHome ==
  ASSUME NEW n \in Nat, NEW old \in Seq(Seq(1..n)), NEW t \in 1..n, NEW F
  PROVE  /\ Join(old, t, F) \in Seq(Seq(1..n))
         /\ \E home : JoinedAt(home, old, Join(old, t, F), t, F)
<1>1. /\ Len(old) \in Nat /\ DOMAIN old = 1..Len(old)
      /\ \A s \in 1..Len(old) : old[s] \in Seq(1..n)
      /\ FreeStages(old, t, F) \subseteq Nat \ {0}
  BY LenProperties, ElementOfSeq DEF FreeStages
<1>2. CASE FreeStages(old, t, F) # {}
  <2>1. PICK s \in FreeStages(old, t, F) :
          \A earlier \in FreeStages(old, t, F) : s <= earlier
    BY <1>1, <1>2, LeastNatural
  <2>2. s \in 1..Len(old) /\ Free(old[s], t, F)
    BY <2>1 DEF FreeStages
  <2> DEFINE longer == Append(old[s], t)
             new == [old EXCEPT ![s] = longer]
  <2>3. Join(old, t, F) = new
    BY <1>1, <2>1, JoinFirst
  <2>4. longer \in Seq(1..n)
    BY <1>1, <2>2, AppendProperties
  <2> HIDE DEF longer
  <2>5. /\ new \in Seq(Seq(1..n)) /\ Len(new) = Len(old) /\ DOMAIN new = DOMAIN old
        /\ \A r \in 1..Len(old) : new[r] = IF r = s THEN longer ELSE old[r]
    BY <2>2, <2>4, ExceptSeq
  <2> HIDE DEF new
  <2>6. JoinedAt(s, old, new, t, F)
    BY <1>1, <2>2, <2>5 DEF JoinedAt, Kept, longer
  <2> QED BY <2>3, <2>5, <2>6
<1>3. CASE FreeStages(old, t, F) = {}
  <2> DEFINE new == Append(old, <<t>>)
             home == Len(old) + 1
  <2>1. Join(old, t, F) = new
    BY <1>3, JoinOpens
  <2>2. <<t>> \in Seq(1..n)
    OBVIOUS
  <2>3. /\ new \in Seq(Seq(1..n)) /\ Len(new) = home
        /\ \A r \in 1..Len(old) : new[r] = old[r]
        /\ new[home] = <<t>>
    BY <2>2, AppendProperties
  <2>4. DOMAIN new = 1..home
    BY <2>3, LenProperties
  <2>5. /\ home \in Nat /\ home \notin 1..Len(old)
        /\ 1..home = 1..Len(old) \cup {home}
    BY <1>1
  <2>6. Kept(old, home) = <<>> /\ Append(<<>>, t) = <<t>>
    BY <2>5 DEF Kept
  <2>7. Free(Kept(old, home), t, F)
    BY <2>6, ToSetSmall DEF Free
  <2> HIDE DEF new, home
  <2>8. Len(new) <= Len(old) + 1
    BY <1>1, <2>3 DEF home
  <2>9. JoinedAt(home, old, new, t, F)
    BY <1>1, <2>3, <2>4, <2>5, <2>6, <2>7, <2>8 DEF JoinedAt
  <2> QED BY <2>1, <2>3, <2>9
<1> QED BY <1>2, <1>3

\* No two members of a stage conflict.
StagesFree(stages, F) ==
  \A s \in DOMAIN stages : \A t, u \in ToSet(stages[s]) :
    t # u => ~ConflictsWith(F[t], F[u])

\* The first k transactions of n, each at one place, apart from its conflicts,
\* in at most as many stages.
ValidUpTo(stages, k, F, n) ==
  /\ stages \in Seq(Seq(1..n))
  /\ Seen(stages) = 1..k
  /\ EachOnce(stages)
  /\ StagesFree(stages, F)
  /\ Len(stages) <= k

\* Joining keeps a schedule valid.
LEMMA JoinValid ==
  ASSUME NEW n \in Nat, NEW t \in 1..n, NEW F,
         NEW old, ValidUpTo(old, t - 1, F, n)
  PROVE  ValidUpTo(Join(old, t, F), t, F, n)
<1> DEFINE new == Join(old, t, F)
<1>1. /\ old \in Seq(Seq(1..n)) /\ Len(old) \in Nat /\ DOMAIN old = 1..Len(old)
      /\ \A s \in DOMAIN old : old[s] \in Seq(1..n)
      /\ Len(old) <= t - 1 /\ Seen(old) = 1..(t - 1)
  BY LenProperties, ElementOfSeq DEF ValidUpTo
<1>2. new \in Seq(Seq(1..n)) /\ \E home : JoinedAt(home, old, new, t, F)
  BY <1>1, JoinHome
<1> HIDE DEF new
<1>3. PICK home : JoinedAt(home, old, new, t, F)
  BY <1>2
<1> DEFINE kept == Kept(old, home)
<1>4. /\ DOMAIN new = DOMAIN old \cup {home} /\ Len(new) <= Len(old) + 1
      /\ new[home] = Append(kept, t)
      /\ Free(kept, t, F)
      /\ \A s \in DOMAIN old : s # home => new[s] = old[s]
  BY <1>3 DEF JoinedAt
<1>5. Len(new) \in Nat /\ \A s \in DOMAIN new : new[s] \in Seq(1..n)
  BY <1>2, LenProperties, ElementOfSeq
<1>6. /\ home \in DOMAIN old => kept = old[home]
      /\ home \notin DOMAIN old => kept = <<>>
      /\ kept \in Seq(1..n)
  BY <1>1, EmptySeq DEF Kept
<1> HIDE DEF kept
<1>7. /\ Len(kept) \in Nat /\ DOMAIN kept = 1..Len(kept)
      /\ DOMAIN new[home] = 1..(Len(kept) + 1)
      /\ \A p \in 1..Len(kept) : new[home][p] = kept[p]
      /\ new[home][Len(kept) + 1] = t
      /\ ToSet(new[home]) = ToSet(kept) \cup {t}
  <2>1. /\ Append(kept, t) \in Seq(1..n) /\ Len(Append(kept, t)) = Len(kept) + 1
        /\ \A p \in 1..Len(kept) : Append(kept, t)[p] = kept[p]
        /\ Append(kept, t)[Len(kept) + 1] = t
    BY <1>6, AppendProperties
  <2>2. ToSet(Append(kept, t)) = ToSet(kept) \cup {t}
    BY <1>6, ToSetAppend
  <2>3. DOMAIN Append(kept, t) = 1..(Len(kept) + 1)
    BY <2>1, LenProperties
  <2>4. Len(kept) \in Nat /\ DOMAIN kept = 1..Len(kept)
    BY <1>6, LenProperties
  <2> QED BY <1>4, <2>1, <2>2, <2>3, <2>4
<1>8. Seen(new) = 1..t
  <2>1. Seen(new) = Seen(old) \cup {t}
    <3>1. ToSet(kept) \subseteq Seen(old)
      BY <1>6, ToSetSmall DEF Seen
    <3>2. ASSUME NEW e \in Seen(new) PROVE e \in Seen(old) \cup {t}
      <4>1. PICK s \in DOMAIN new : e \in ToSet(new[s])
        BY <3>2 DEF Seen
      <4>2. CASE s = home
        BY <1>7, <3>1, <4>1, <4>2
      <4>3. CASE s # home
        BY <1>4, <4>1, <4>3 DEF Seen
      <4> QED BY <4>2, <4>3
    <3>3. ASSUME NEW e \in Seen(old) PROVE e \in Seen(new)
      <4>1. PICK s \in DOMAIN old : e \in ToSet(old[s])
        BY <3>3 DEF Seen
      <4>2. CASE s = home
        BY <1>4, <1>6, <1>7, <4>1, <4>2 DEF Seen
      <4>3. CASE s # home
        BY <1>4, <4>1, <4>3 DEF Seen
      <4> QED BY <4>2, <4>3
    <3>4. t \in Seen(new)
      BY <1>4, <1>7 DEF Seen
    <3> QED BY <3>2, <3>3, <3>4
  <2>2. 1..t = 1..(t - 1) \cup {t}
    OBVIOUS
  <2> QED BY <1>1, <2>1, <2>2
<1>9. EachOnce(new)
  <2> DEFINE Newest(s, p) == s = home /\ p = Len(kept) + 1
             Older(s, p) == /\ s \in DOMAIN old /\ p \in DOMAIN old[s]
                            /\ new[s][p] = old[s][p]
  <2>1. ASSUME NEW s \in DOMAIN new, NEW p \in DOMAIN new[s]
        PROVE  (Newest(s, p) /\ new[s][p] = t) \/ Older(s, p)
    <3>1. CASE s = home
      <4>1. CASE p = Len(kept) + 1
        BY <1>7, <3>1, <4>1
      <4>2. CASE p # Len(kept) + 1
        <5>1. p \in 1..Len(kept)
          BY <1>7, <3>1, <4>2
        <5>2. home \in DOMAIN old
          BY <1>6, <5>1
        <5> QED BY <1>6, <1>7, <3>1, <5>1, <5>2
      <4> QED BY <4>1, <4>2
    <3>2. CASE s # home
      BY <1>4, <3>2
    <3> QED BY <3>1, <3>2
  <2>2. ASSUME NEW s, NEW p, Older(s, p) PROVE new[s][p] # t
    <3>1. old[s][p] \in ToSet(old[s])
      BY <1>1, <2>2, LenProperties, ToSetMember
    <3>2. old[s][p] \in 1..(t - 1)
      BY <1>1, <2>2, <3>1 DEF Seen
    <3> QED BY <2>2, <3>2
  <2>3. ASSUME NEW s, NEW p, Older(s, p), NEW r, NEW q, Older(r, q),
               new[s][p] = new[r][q]
        PROVE  s = r /\ p = q
    <3>1. /\ s \in DOMAIN old /\ p \in DOMAIN old[s]
          /\ r \in DOMAIN old /\ q \in DOMAIN old[r]
          /\ old[s][p] = old[r][q]
      BY <2>3
    <3>2. EachOnce(old)
      BY DEF ValidUpTo
    <3> HIDE DEF Older
    <3> QED BY <3>1, <3>2 DEF EachOnce
  <2> HIDE DEF Older
  <2>4. ASSUME NEW s \in DOMAIN new, NEW r \in DOMAIN new,
               NEW p \in DOMAIN new[s], NEW q \in DOMAIN new[r],
               new[s][p] = new[r][q]
        PROVE  s = r /\ p = q
    <3>1. /\ (Newest(s, p) /\ new[s][p] = t) \/ Older(s, p)
          /\ (Newest(r, q) /\ new[r][q] = t) \/ Older(r, q)
      BY <2>1
    <3>2. CASE Older(s, p)
      <4>1. Older(r, q)
        BY <2>2, <2>4, <3>1, <3>2
      <4> QED BY <2>3, <2>4, <3>2, <4>1
    <3>3. CASE ~Older(s, p)
      <4>1. Newest(s, p) /\ Newest(r, q)
        BY <2>2, <2>4, <3>1, <3>3
      <4> QED BY <4>1
    <3> QED BY <3>2, <3>3
  <2> QED BY <2>4 DEF EachOnce
<1>10. StagesFree(new, F)
  <2>1. \A a, b : ConflictsWith(a, b) <=> ConflictsWith(b, a)
    BY DEF ConflictsWith, ConflictKeys
  <2>2. ASSUME NEW s \in DOMAIN new, NEW v \in ToSet(new[s]), NEW u \in ToSet(new[s]), v # u
        PROVE  ~ConflictsWith(F[v], F[u])
    <3>1. CASE s = home
      <4>1. CASE v = t
        BY <1>4, <1>7, <2>2, <3>1, <4>1 DEF Free
      <4>2. CASE u = t
        BY <1>4, <1>7, <2>1, <2>2, <3>1, <4>2 DEF Free
      <4>3. CASE v # t /\ u # t
        <5>1. v \in ToSet(kept) /\ u \in ToSet(kept)
          BY <1>7, <2>2, <3>1, <4>3
        <5>2. home \in DOMAIN old /\ kept = old[home]
          BY <1>6, <5>1, ToSetSmall
        <5> QED BY <2>2, <5>1, <5>2 DEF ValidUpTo, StagesFree
      <4> QED BY <4>1, <4>2, <4>3
    <3>2. CASE s # home
      <4>1. s \in DOMAIN old /\ new[s] = old[s]
        BY <1>4, <3>2
      <4> QED BY <2>2, <4>1 DEF ValidUpTo, StagesFree
    <3> QED BY <3>1, <3>2
  <2> QED BY <2>2 DEF StagesFree
<1>11. Len(new) <= t
  BY <1>1, <1>4, <1>5
<1>12. ValidUpTo(new, t, F, n)
  BY <1>2, <1>8, <1>9, <1>10, <1>11 DEF ValidUpTo
<1> QED BY <1>12 DEF new

-----------------------------------------------------------------------------
\* The recursion of PartialSchedules is well founded: its equations hold.
LEMMA PartialShape ==
  ASSUME NEW F, Len(F) \in Nat
  PROVE  /\ PartialSchedules(F)[0] = <<>>
         /\ \A k \in 1..Len(F) :
              PartialSchedules(F)[k] = Join(PartialSchedules(F)[k - 1], k, F)
<1> DEFINE n == Len(F)
           S == Seq(Seq(1..n))
           Afters(w) == [k \in 0..n |-> IF k = 0 THEN <<>> ELSE Join(w[k - 1], k, F)]
           step == [k \in 1..n |-> [v \in S |-> Join(v, k, F)]]
           result == PartialSchedules(F)
<1>1. n \in Nat
  OBVIOUS
<1>2. result = CHOOSE w : w = Afters(w)
  BY DEF PartialSchedules
<1> HIDE DEF n, result
<1>3. step \in [1..n -> [S -> S]]
  BY <1>1, JoinHome
<1>4. <<>> \in S
  BY EmptySeq
<1> HIDE DEF S
<1>5. PICK after : Iterates(after, S, <<>>, n, step)
  <2> HIDE DEF step
  <2> QED BY <1>1, <1>3, <1>4, IterationExists
<1>6. after \in [0..n -> S] /\ after[0] = <<>>
  BY <1>5 DEF Iterates
<1>7. \A k \in 1..n : after[k] = Join(after[k - 1], k, F)
  <2> SUFFICES ASSUME NEW k \in 1..n PROVE after[k] = Join(after[k - 1], k, F)
    OBVIOUS
  <2>1. k - 1 \in 0..n
    BY <1>1
  <2>2. after[k - 1] \in S /\ after[k] = step[k][after[k - 1]]
    BY <1>5, <1>6, <2>1 DEF Iterates
  <2> QED BY <2>2
<1> HIDE DEF step
<1>8. after = Afters(after)
  BY <1>6, <1>7
<1>9. result = Afters(result)
  BY <1>2, <1>8
<1>10. result[0] = <<>> /\ \A k \in 1..n : result[k] = Join(result[k - 1], k, F)
  BY <1>1, <1>9
<1> QED BY <1>10 DEF n, result

\* After k transactions, whatever the footprints: the first k, each at one
\* place, apart from its conflicts.
LEMMA PartialValid ==
  ASSUME NEW F, Len(F) \in Nat
  PROVE  \A k \in 0..Len(F) : ValidUpTo(PartialSchedules(F)[k], k, F, Len(F))
<1> DEFINE n == Len(F)
           P == PartialSchedules(F)
           Good == {k \in 0..n : ValidUpTo(P[k], k, F, n)}
<1>1. n \in Nat /\ P[0] = <<>> /\ \A k \in 1..n : P[k] = Join(P[k - 1], k, F)
  BY PartialShape
<1> HIDE DEF n, P
<1>2. 0 \in Good
  <2>1. <<>> \in Seq(Seq(1..n)) /\ Len(<<>>) = 0 /\ DOMAIN <<>> = {}
    BY EmptySeq
  <2>2. ValidUpTo(<<>>, 0, F, n)
    BY <2>1 DEF ValidUpTo, Seen, EachOnce, StagesFree
  <2> QED BY <1>1, <2>2
<1>3. ASSUME NEW k \in 0..(n - 1), k \in Good PROVE k + 1 \in Good
  <2>1. k + 1 \in 1..n /\ (k + 1) - 1 = k /\ k + 1 \in 0..n
    BY <1>1
  <2>2. P[k + 1] = Join(P[k], k + 1, F) /\ ValidUpTo(P[k], k, F, n)
    BY <1>1, <1>3, <2>1
  <2>3. ValidUpTo(Join(P[k], k + 1, F), k + 1, F, n)
    BY <1>1, <2>1, <2>2, JoinValid
  <2> QED BY <2>1, <2>2, <2>3
<1> HIDE DEF Good
<1>4. 0..n \subseteq Good
  <2>1. Inductive(Good, n)
    BY <1>1, <1>2, <1>3 DEF Inductive
  <2> QED BY <1>1, <2>1, InductionTo
<1> QED BY <1>4 DEF Good, n, P

\* So the schedule of all of them is valid.
LEMMA ScheduleValid ==
  ASSUME NEW F, Len(F) \in Nat
  PROVE  ValidUpTo(ScheduleOf(F), Len(F), F, Len(F))
<1>1. Len(F) \in 0..Len(F)
  OBVIOUS
<1> QED BY <1>1, PartialValid DEF ScheduleOf

-----------------------------------------------------------------------------
\* StageOf finds the stage a transaction is in.
LEMMA StageOfIs ==
  ASSUME NEW S, NEW stages \in Seq(Seq(S)), EachOnce(stages),
         NEW s \in DOMAIN stages, NEW t \in ToSet(stages[s])
  PROVE  StageOf(stages, t) = s
<1> DEFINE I == {r \in 1..Len(stages) : Contains(stages[r], t)}
<1>1. /\ Len(stages) \in Nat /\ DOMAIN stages = 1..Len(stages)
      /\ \A r \in 1..Len(stages) : stages[r] \in Seq(S)
  BY LenProperties, ElementOfSeq
<1>2. s \in I
  BY <1>1, ToSetMember DEF Contains
<1>3. ASSUME NEW r \in I PROVE r = s
  <2>1. PICK p \in 1..Len(stages[r]) : stages[r][p] = t
    BY <1>3 DEF Contains
  <2>2. PICK q \in 1..Len(stages[s]) : stages[s][q] = t
    BY <1>1, ToSetMember
  <2>3. r \in DOMAIN stages /\ p \in DOMAIN stages[r] /\ q \in DOMAIN stages[s]
    BY <1>1, LenProperties
  <2> QED BY <2>1, <2>2, <2>3 DEF EachOnce
<1>4. I \subseteq Nat
  BY <1>1
<1> HIDE DEF I
<1>5. I = {s}
  BY <1>2, <1>3
<1>6. Min(I) = s /\ I # {}
  <2>1. s \in I /\ \A k \in I : s <= k
    BY <1>1, <1>5
  <2> QED BY <1>4, <2>1, MinIs
<1> QED BY <1>6 DEF StageOf, SelectInSeq, I

\* A schedule whose stages hold no conflicting members passes the comparison of
\* each member with those behind it.
LEMMA StagesFreeAccepted ==
  ASSUME NEW S, NEW F, NEW stages \in Seq(Seq(S)), EachOnce(stages), StagesFree(stages, F)
  PROVE  IsConflictFree(stages, F)
<1>1. DOMAIN stages = 1..Len(stages) /\ \A s \in 1..Len(stages) : stages[s] \in Seq(S)
  BY LenProperties, ElementOfSeq
<1>2. ASSUME NEW s \in DOMAIN stages, NEW i \in DOMAIN stages[s],
             NEW j \in (i + 1)..Len(stages[s])
      PROVE  ~ConflictsWith(F[stages[s][i]], F[stages[s][j]])
  <2>1. Len(stages[s]) \in Nat /\ DOMAIN stages[s] = 1..Len(stages[s])
    BY <1>1, LenProperties
  <2>2. j \in DOMAIN stages[s] /\ i # j
    BY <2>1
  <2>3. stages[s][i] \in ToSet(stages[s]) /\ stages[s][j] \in ToSet(stages[s])
    BY <1>1, <2>1, <2>2, ToSetMember
  <2>4. stages[s][i] # stages[s][j]
    BY <1>1, <2>2 DEF EachOnce
  <2> QED BY <1>1, <2>3, <2>4 DEF StagesFree
<1> QED BY <1>2 DEF IsConflictFree, StageConflictFree

\* The validators of the code accept every valid schedule of all transactions.
LEMMA ValidatorsOfValid ==
  ASSUME NEW n \in Nat, NEW F, NEW stages, ValidUpTo(stages, n, F, n)
  PROVE  /\ IsConflictFree(stages, F)
         /\ IsComplete(stages, n)
         /\ TransactionCount(stages) = n
         /\ \A t \in 1..n : StageOf(stages, t) # 0
<1>1. /\ stages \in Seq(Seq(1..n)) /\ Len(stages) \in Nat
      /\ DOMAIN stages = 1..Len(stages)
      /\ \A s \in 1..Len(stages) : stages[s] \in Seq(1..n)
      /\ Seen(stages) = 1..n /\ EachOnce(stages) /\ StagesFree(stages, F)
  BY LenProperties, ElementOfSeq DEF ValidUpTo
<1>2. IsConflictFree(stages, F)
  BY <1>1, StagesFreeAccepted
<1>3. Cardinality(1..n) = n
  BY UpToSize
<1>4. IsComplete(stages, n)
  BY <1>1, <1>3 DEF IsComplete
<1>5. TransactionCount(stages) = n
  BY <1>1, <1>3, TotalCounts DEF TransactionCount
<1>6. ASSUME NEW t \in 1..n PROVE StageOf(stages, t) # 0
  <2>1. PICK s \in DOMAIN stages : t \in ToSet(stages[s])
    BY <1>1 DEF Seen
  <2>2. StageOf(stages, t) = s
    BY <1>1, <2>1, StageOfIs
  <2> QED BY <1>1, <2>2
<1> QED BY <1>2, <1>4, <1>5, <1>6
-----------------------------------------------------------------------------
\* A list of footprints over finitely many keys.
FiniteFootprints(F) == F \in Seq(TransactionFootprint) /\ IsFiniteSet(Key)

\* What is counted is finite.
LEMMA CountsFinite ==
  ASSUME NEW F, FiniteFootprints(F)
  PROVE  /\ Len(F) \in Nat /\ DOMAIN F = 1..Len(F)
         /\ \A i \in 1..Len(F) :
              /\ F[i].read_only \subseteq Key /\ IsFiniteSet(F[i].read_only)
              /\ F[i].read_write \subseteq Key /\ IsFiniteSet(F[i].read_write)
         /\ TouchedKeys(F) \subseteq Key /\ TouchedKeys(F) \subseteq Nat
         /\ IsFiniteSet(TouchedKeys(F))
         /\ \A key : /\ IsFiniteSet(Writers(F, key)) /\ Cardinality(Writers(F, key)) \in Nat
                     /\ IsFiniteSet(Readers(F, key)) /\ Cardinality(Readers(F, key)) \in Nat
<1>1. Len(F) \in Nat /\ DOMAIN F = 1..Len(F)
  BY LenProperties DEF FiniteFootprints
<1>2. \A i \in 1..Len(F) : F[i] \in TransactionFootprint
  BY ElementOfSeq DEF FiniteFootprints
<1>3. \A i \in 1..Len(F) : F[i].read_only \subseteq Key /\ F[i].read_write \subseteq Key
  BY <1>2 DEF TransactionFootprint
<1>4. TouchedKeys(F) \subseteq Key
  BY <1>1, <1>3 DEF TouchedKeys, Keys
<1>5. \A T : T \subseteq Key => IsFiniteSet(T)
  BY FS_Subset DEF FiniteFootprints
<1>6. ASSUME NEW T, T \subseteq DOMAIN F PROVE IsFiniteSet(T) /\ Cardinality(T) \in Nat
  <2>1. IsFiniteSet(1..Len(F))
    BY <1>1, UpToSize
  <2> QED BY <1>1, <1>6, <2>1, FS_Subset, FS_CardinalityType
<1>7. \A key : Writers(F, key) \subseteq DOMAIN F /\ Readers(F, key) \subseteq DOMAIN F
  BY DEF Writers, Readers
<1> QED BY <1>1, <1>3, <1>4, <1>5, <1>6, <1>7, KeyAssumption

\* The entries of a report, one per touched key.
LEMMA OneEntryPerKey ==
  ASSUME NEW F, FiniteFootprints(F), NEW entryOf,
         entryOf = [key \in TouchedKeys(F) |-> entryOf[key]],
         \A key \in TouchedKeys(F) : entryOf[key].key = key,
         NEW E, E = {entryOf[key] : key \in TouchedKeys(F)}
  PROVE  /\ IsFiniteSet(E) /\ Cardinality(E) = Cardinality(TouchedKeys(F))
         /\ Cardinality(E) \in Nat
<1> DEFINE T == TouchedKeys(F)
<1>1. IsFiniteSet(T)
  BY CountsFinite
<1>2. entryOf \in Bijection(T, E)
  <2>1. \A a, b \in T : entryOf[a] = entryOf[b] => a = b
    OBVIOUS
  <2>2. /\ DOMAIN entryOf = T /\ E = {entryOf[key] : key \in T}
        /\ entryOf = [key \in T |-> entryOf[key]]
    OBVIOUS
  <2> HIDE DEF T
  <2>3. \A e \in E : \E key \in T : entryOf[key] = e
    BY <2>2
  <2>4. \A key \in T : entryOf[key] \in E
    BY <2>2
  <2>5. entryOf \in [T -> E]
    BY <2>2, <2>4
  <2> QED BY <2>1, <2>2, <2>3, <2>5 DEF Bijection, Injection, IsInjective, Surjection
<1>3. ExistsBijection(T, E)
  BY <1>2 DEF ExistsBijection
<1> HIDE DEF T
<1>4. IsFiniteSet(E) /\ Cardinality(E) = Cardinality(T)
  BY <1>1, <1>3, FS_Bijection
<1> QED BY <1>1, <1>4, FS_CardinalityType DEF T

HotEntries(F) == {HotKey(F, key) : key \in TouchedKeys(F)}

\* The hottest come first, and no two entries are for one key.
HotterPairs(F) == {p \in HotEntries(F) \X HotEntries(F) : Hotter(p[1], p[2])}

\* There is one entry per touched key, and the key tells which.
LEMMA HotEntriesShape ==
  ASSUME NEW F, FiniteFootprints(F)
  PROVE  /\ IsFiniteSet(HotEntries(F))
         /\ Cardinality(HotEntries(F)) = Cardinality(TouchedKeys(F))
         /\ \A key \in TouchedKeys(F) :
              /\ HotKey(F, key) \in HotEntries(F) /\ HotKey(F, key).key = key
              /\ HotKey(F, key).writes = Cardinality(Writers(F, key))
         /\ \A e \in HotEntries(F) :
              /\ e.key \in TouchedKeys(F) /\ e = HotKey(F, e.key)
              /\ e.writes \in Nat /\ e.reads \in Nat /\ e.key \in Nat
<1> DEFINE entryOf == [key \in TouchedKeys(F) |-> HotKey(F, key)]
<1>1. \A key \in TouchedKeys(F) :
        /\ HotKey(F, key).key = key
        /\ HotKey(F, key).writes = Cardinality(Writers(F, key))
        /\ HotKey(F, key).reads = Cardinality(Readers(F, key)) + Cardinality(Writers(F, key))
  BY DEF HotKey
<1>2. /\ entryOf = [key \in TouchedKeys(F) |-> entryOf[key]]
      /\ \A key \in TouchedKeys(F) : entryOf[key].key = key
      /\ HotEntries(F) = {entryOf[key] : key \in TouchedKeys(F)}
  BY <1>1 DEF HotEntries
<1> HIDE DEF entryOf
<1>3. /\ IsFiniteSet(HotEntries(F))
      /\ Cardinality(HotEntries(F)) = Cardinality(TouchedKeys(F))
  BY <1>2, OneEntryPerKey
<1>4. ASSUME NEW e \in HotEntries(F)
      PROVE  /\ e.key \in TouchedKeys(F) /\ e = HotKey(F, e.key)
             /\ e.writes \in Nat /\ e.reads \in Nat /\ e.key \in Nat
  <2>1. PICK key \in TouchedKeys(F) : e = HotKey(F, key)
    BY DEF HotEntries
  <2>2. /\ key \in Nat /\ Cardinality(Readers(F, key)) \in Nat
        /\ Cardinality(Writers(F, key)) \in Nat
    BY CountsFinite
  <2>3. e.key = key
    BY <1>1, <2>1
  <2> QED BY <1>1, <2>1, <2>2, <2>3
<1> QED BY <1>1, <1>3, <1>4 DEF HotEntries

\* The comparison of hot keys orders any two entries.
LEMMA HotterOrders ==
  ASSUME NEW F, FiniteFootprints(F)
  PROVE  OrdersAll(HotterPairs(F), HotEntries(F))
<1> DEFINE E == HotEntries(F)
           R == HotterPairs(F)
<1>1. \A a, b \in E : <<a, b>> \in R <=> Hotter(a, b)
  BY DEF HotterPairs
<1>2. \A a \in E : a.writes \in Nat /\ a.reads \in Nat /\ a.key \in Nat
  BY HotEntriesShape
<1>3. \A a, b \in E : a.key = b.key => a = b
  BY HotEntriesShape
<1> HIDE DEF E, R
<1>4. \A a \in E : ~Hotter(a, a)
  BY <1>2 DEF Hotter
<1>5. \A a, b, c \in E : Hotter(a, b) /\ Hotter(b, c) => Hotter(a, c)
  BY <1>2 DEF Hotter
<1>6. \A a, b \in E : a # b => Hotter(a, b) \/ Hotter(b, a)
  BY <1>2, <1>3 DEF Hotter
<1>7. OrdersAll(R, E)
  BY <1>1, <1>4, <1>5, <1>6 DEF OrdersAll
<1> QED BY <1>7 DEF E, R

\* So the ranked list is the one of that order.
LEMMA HotRanking ==
  ASSUME NEW F, FiniteFootprints(F)
  PROVE  IsRanking(Ranked(HotEntries(F), Hotter), HotterPairs(F), HotEntries(F))
<1> DEFINE E == HotEntries(F)
           R == HotterPairs(F)
<1>1. \A e \in E : Preceding(R, E, e) = {f \in E : Hotter(f, e)}
  BY DEF HotterPairs, Preceding
<1>2. Ranked(E, Hotter) = [k \in 1..Cardinality(E) |->
        CHOOSE e \in E : Cardinality({f \in E : Hotter(f, e)}) = k - 1]
  BY DEF Ranked
<1> HIDE DEF E, R
<1>3. ASSUME NEW k
      PROVE  (CHOOSE e \in E : Cardinality(Preceding(R, E, e)) = k - 1)
               = (CHOOSE e \in E : Cardinality({f \in E : Hotter(f, e)}) = k - 1)
  <2>1. \A e : (e \in E /\ Cardinality(Preceding(R, E, e)) = k - 1)
                 <=> (e \in E /\ Cardinality({f \in E : Hotter(f, e)}) = k - 1)
    BY <1>1
  <2> QED BY <2>1
<1>4. IsRanking(Ranked(E, Hotter), R, E)
  BY <1>2, <1>3 DEF IsRanking
<1> QED BY <1>4 DEF E, R

\* The reported list is the first part of one that has every entry at one
\* place and never a hotter one behind another.
HotList(list, F) ==
  /\ list \in Bijection(1..Cardinality(TouchedKeys(F)), HotEntries(F))
  /\ \A j, k \in 1..Cardinality(TouchedKeys(F)) : j < k => Hotter(list[j], list[k])

\* What is returned is a prefix of the list of all keys.
LEMMA HotKeysPrefix ==
  ASSUME NEW F, FiniteFootprints(F), NEW top_n \in Nat
  PROVE  \E list : \E m \in 0..Cardinality(TouchedKeys(F)) :
           /\ HotList(list, F)
           /\ m = Min({top_n, Cardinality(TouchedKeys(F))})
           /\ m <= top_n
           /\ Len(RankHotKeys(F, top_n)) = m
           /\ DOMAIN RankHotKeys(F, top_n) = 1..m
           /\ \A k \in 1..m : RankHotKeys(F, top_n)[k] = list[k]
<1> DEFINE list == Ranked(HotEntries(F), Hotter)
           n == Cardinality(TouchedKeys(F))
<1>1. /\ IsFiniteSet(HotEntries(F)) /\ Cardinality(HotEntries(F)) = n
      /\ n \in Nat
  BY HotEntriesShape, CountsFinite, FS_CardinalityType
<1>2. /\ list \in Bijection(1..n, HotEntries(F))
      /\ \A j, k \in 1..n : j < k => <<list[j], list[k]>> \in HotterPairs(F)
  BY <1>1, HotterOrders, HotRanking, RankedList
<1>3. HotList(list, F)
  BY <1>2 DEF HotList, HotterPairs
<1>4. RankHotKeys(F, top_n) = SubSeq(list, 1, Min({top_n, Len(list)}))
  BY DEF RankHotKeys, HotEntries
<1> HIDE DEF list, n
<1>5. list \in Seq(HotEntries(F)) /\ Len(list) = n
  <2>1. list \in [1..n -> HotEntries(F)]
    BY <1>2 DEF Bijection, Injection
  <2> QED BY <1>1, <2>1, IsASeq
<1>6. PICK m \in {top_n, n} : m <= top_n /\ m <= n
  BY <1>1
<1>7. Min({top_n, n}) = m
  BY <1>1, <1>6, MinIs
<1>8. m \in 0..n
  BY <1>1, <1>6
<1>9. /\ Len(SubSeq(list, 1, m)) = m
      /\ DOMAIN SubSeq(list, 1, m) = 1..m
      /\ \A k \in 1..m : SubSeq(list, 1, m)[k] = list[k]
  BY <1>1, <1>5, <1>8, SubSeqProperties
<1>10. RankHotKeys(F, top_n) = SubSeq(list, 1, m)
  BY <1>4, <1>5, <1>7
<1> QED BY <1>3, <1>6, <1>7, <1>8, <1>9, <1>10 DEF n

\* What HotKeysRanked states of one list of footprints and one length.
RankedFor(hot, listed, F, top_n) ==
  /\ Len(hot) = Min({top_n, Cardinality(TouchedKeys(F))})
  /\ Cardinality(listed) = Len(hot)
  /\ \A key \in TouchedKeys(F) \ listed : \A k \in DOMAIN hot :
       Cardinality(Writers(F, key)) <= hot[k].writes
  /\ \A k \in DOMAIN hot :
       (\A i \in 1..Len(F) : hot[k].key \notin F[i].read_only \cap F[i].read_write)
       => hot[k].touch_count = Cardinality({i \in 1..Len(F) : hot[k].key \in Keys(F[i])})

\* It holds for every list of footprints and every length.
LEMMA RankingHolds ==
  ASSUME NEW F, FiniteFootprints(F), NEW top_n \in Nat,
         NEW hot, hot = RankHotKeys(F, top_n),
         NEW listed, listed = {hot[k].key : k \in DOMAIN hot}
  PROVE  RankedFor(hot, listed, F, top_n)
<1> DEFINE n == Cardinality(TouchedKeys(F))
           E == HotEntries(F)
<1>1. PICK list : \E m \in 0..n :
           /\ HotList(list, F)
           /\ m = Min({top_n, n})
           /\ m <= top_n
           /\ Len(hot) = m
           /\ DOMAIN hot = 1..m
           /\ \A k \in 1..m : hot[k] = list[k]
  BY HotKeysPrefix
<1>2. PICK m \in 0..n :
           /\ HotList(list, F)
           /\ m = Min({top_n, n})
           /\ m <= top_n
           /\ Len(hot) = m
           /\ DOMAIN hot = 1..m
           /\ \A k \in 1..m : hot[k] = list[k]
  BY <1>1
<1>3. n \in Nat
  BY CountsFinite, FS_CardinalityType
<1> HIDE DEF n
<1>4. /\ \A k \in 1..n : list[k] \in E
      /\ \A e \in E : \E k \in 1..n : list[k] = e
      /\ \A j, k \in 1..n : list[j] = list[k] => j = k
      /\ \A j, k \in 1..n : j < k => Hotter(list[j], list[k])
  BY <1>2 DEF HotList, Bijection, Injection, IsInjective, Surjection, n
<1>5. /\ \A key \in TouchedKeys(F) :
           /\ HotKey(F, key) \in E /\ HotKey(F, key).key = key
           /\ HotKey(F, key).writes = Cardinality(Writers(F, key))
      /\ \A e \in E : /\ e.key \in TouchedKeys(F) /\ e = HotKey(F, e.key)
                       /\ e.writes \in Nat
  BY HotEntriesShape
<1>6. \A k \in 1..m : k \in 1..n /\ hot[k] = list[k] /\ hot[k] \in E
  <2>1. 1..m \subseteq 1..n
    BY <1>3
  <2>2. \A k \in 1..m : hot[k] = list[k]
    BY <1>2
  <2> QED BY <1>4, <2>1, <2>2
<1> HIDE DEF E
<1>7. Cardinality(listed) = m
  <2> DEFINE keyAt == [k \in 1..m |-> hot[k].key]
  <2>1. \A j, k \in 1..m : hot[j].key = hot[k].key => j = k
    BY <1>4, <1>5, <1>6
  <2>2. \A key \in listed : \E k \in 1..m : hot[k].key = key
    BY <1>2
  <2>3. \A k \in 1..m : hot[k].key \in listed
    BY <1>2
  <2>4. keyAt \in Bijection(1..m, listed)
    BY <2>1, <2>2, <2>3 DEF Bijection, Injection, IsInjective, Surjection
  <2>5. ExistsBijection(1..m, listed)
    BY <2>4 DEF ExistsBijection
  <2> QED BY <2>5, FS_CountingElements
<1>8. ASSUME NEW key \in TouchedKeys(F) \ listed, NEW k \in DOMAIN hot
      PROVE  Cardinality(Writers(F, key)) <= hot[k].writes
  <2>1. PICK p \in 1..n : list[p] = HotKey(F, key)
    BY <1>4, <1>5
  <2>2. ~(p \in 1..m)
    <3>1. list[p].key = key
      BY <1>5, <2>1
    <3>2. \A j \in 1..m : hot[j].key \in listed
      BY <1>2
    <3> QED BY <1>6, <3>1, <3>2
  <2>3. k \in 1..n /\ k < p /\ hot[k] = list[k]
    <3>1. k \in 1..m
      BY <1>2
    <3>2. k < p
      BY <1>3, <2>2, <3>1
    <3> QED BY <1>6, <3>1, <3>2
  <2>4. Hotter(list[k], list[p])
    BY <1>4, <2>3
  <2>5. /\ list[k].writes \in Nat /\ list[p].writes \in Nat
        /\ list[p].writes = Cardinality(Writers(F, key))
    BY <1>4, <1>5, <2>1, <2>3
  <2>6. list[p].writes <= list[k].writes
    BY <2>4, <2>5 DEF Hotter
  <2> QED BY <2>3, <2>5, <2>6
<1>9. ASSUME NEW k \in DOMAIN hot,
             \A i \in 1..Len(F) : hot[k].key \notin F[i].read_only \cap F[i].read_write
      PROVE  hot[k].touch_count = Cardinality({i \in 1..Len(F) : hot[k].key \in Keys(F[i])})
  <2> DEFINE key == hot[k].key
             W == Writers(F, key)
             R == Readers(F, key)
  <2>1. hot[k] = HotKey(F, key)
    BY <1>2, <1>5, <1>6
  <2>2. hot[k].touch_count = Cardinality(R) + Cardinality(W)
    BY <2>1 DEF HotKey
  <2>3. /\ IsFiniteSet(W) /\ Cardinality(W) \in Nat
        /\ IsFiniteSet(R) /\ Cardinality(R) \in Nat
        /\ DOMAIN F = 1..Len(F)
    BY CountsFinite
  <2>4. /\ R \cup W = {i \in 1..Len(F) : key \in Keys(F[i])}
        /\ R \cap W = {}
    BY <1>9, <2>3 DEF Keys, Writers, Readers
  <2> HIDE DEF R, W, key
  <2>5. Cardinality(R \cup W) = Cardinality(R) + Cardinality(W) - Cardinality(R \cap W)
    BY <2>3, FS_Union
  <2>6. Cardinality(R \cap W) = 0
    BY <2>4, FS_EmptySet
  <2>7. Cardinality(R \cup W) = Cardinality(R) + Cardinality(W)
    BY <2>3, <2>5, <2>6
  <2> QED BY <2>2, <2>4, <2>7 DEF key
<1> QED BY <1>2, <1>7, <1>8, <1>9 DEF n, RankedFor

-----------------------------------------------------------------------------
\* The pairs of transactions in conflict, lower index first.
ClashingPairs(F) ==
  {e \in (1..Len(F)) \X (1..Len(F)) : e[1] < e[2] /\ ConflictsWith(F[e[1]], F[e[2]])}

\* A transaction's conflicts are counted from both sides.
LEMMA ConflictCountsTwice ==
  ASSUME NEW F, FiniteFootprints(F), NEW f, DOMAIN f = 1..Len(F),
         \A i \in 1..Len(F) : f[i] = ConflictCount(F, i)
  PROVE  SumFunction(f) = 2 * Cardinality(ClashingPairs(F))
<1> DEFINE n == Len(F)
           D == 1..n
           A == [i \in D |-> {j \in D \ {i} : ConflictsWith(F[i], F[j])}]
           T == Tagged(A, D)
<1>1. n \in Nat /\ DOMAIN F = D
  BY CountsFinite
<1>2. IsFiniteSet(D)
  BY <1>1, UpToSize
<1>3. \A i \in D : IsFiniteSet(A[i])
  <2>1. \A i \in D : A[i] \subseteq D
    OBVIOUS
  <2> HIDE DEF A, D
  <2> QED BY <1>2, <2>1, FS_Subset
<1>4. \A i \in D : f[i] = Cardinality(A[i])
  BY <1>1 DEF ConflictCount
<1>5. \A a, b : <<a, b>> \in T <=>
                  a \in D /\ b \in D /\ a # b /\ ConflictsWith(F[a], F[b])
  BY DEF Tagged
<1>6. T \subseteq D \X D
  BY DEF Tagged
<1>7. \A e \in T : e = <<e[1], e[2]>>
  BY <1>6
<1>8. \A a, b : ConflictsWith(a, b) <=> ConflictsWith(b, a)
  BY DEF ConflictsWith, ConflictKeys
<1> HIDE DEF A, T, n
<1>9. SumFunction(f) = Cardinality(T)
  <2>1. DOMAIN f = D
    BY DEF n
  <2> HIDE DEF D
  <2> QED BY <1>2, <1>3, <1>4, <2>1, SumCounts DEF T
<1>10. Mutual(T)
  BY <1>5, <1>8 DEF Mutual
<1>11. ClashingPairs(F) = {e \in T : e[1] < e[2]}
  <2>1. ClashingPairs(F) = {e \in D \X D : e[1] < e[2] /\ ConflictsWith(F[e[1]], F[e[2]])}
    BY DEF ClashingPairs, n
  <2>2. \A e \in D \X D : e = <<e[1], e[2]>> /\ e[1] \in D /\ e[2] \in D
    OBVIOUS
  <2>3. \A a, b \in D : a < b => a # b
    BY <1>1
  <2> HIDE DEF D
  <2> QED BY <1>5, <1>6, <1>7, <2>1, <2>2, <2>3
<1>12. Cardinality(T) = 2 * Cardinality(ClashingPairs(F))
  BY <1>1, <1>6, <1>10, <1>11, TwiceAscending
<1> QED BY <1>9, <1>12

-----------------------------------------------------------------------------
CostEntries(F) == {KeyCost(F, key, DefaultModel) : key \in TouchedKeys(F)}

CostlierPairs(F) == {p \in CostEntries(F) \X CostEntries(F) : Costlier(p[1], p[2])}

\* The figures of one key.
LEMMA CostIsNatural ==
  ASSUME NEW F, FiniteFootprints(F), NEW key
  PROVE  /\ KeyCost(F, key, DefaultModel).cost \in Nat
         /\ KeyCost(F, key, DefaultModel).key = key
         /\ KeyCost(F, key, DefaultModel).conflict_pairs =
              (Cardinality(Writers(F, key)) * (Cardinality(Writers(F, key)) - 1)) \div 2
                + Cardinality(Writers(F, key)) * Cardinality(Readers(F, key))
<1> DEFINE w == Cardinality(Writers(F, key))
           r == Cardinality(Readers(F, key))
           ww == (w * (w - 1)) \div 2
           wr == w * r
<1>1. w \in Nat /\ r \in Nat
  BY CountsFinite
<1>2. /\ KeyCost(F, key, DefaultModel).cost = ww * 2 * 2 + wr * (2 + 1)
      /\ KeyCost(F, key, DefaultModel).key = key
      /\ KeyCost(F, key, DefaultModel).conflict_pairs = ww + wr
  BY DEF KeyCost, ConflictPairs, DefaultModel
<1> HIDE DEF w, r
<1>3. wr \in Nat /\ w * (w - 1) \in Nat
  <2>1. CASE w = 0
    BY <1>1, <2>1
  <2>2. CASE w # 0
    BY <1>1, <2>2
  <2> QED BY <2>1, <2>2
<1>4. \A x \in Nat : x \div 2 \in Nat
  OBVIOUS
<1>5. ww \in Nat
  BY <1>3, <1>4
<1> HIDE DEF ww, wr
<1>6. ww * 2 * 2 + wr * (2 + 1) \in Nat
  BY <1>3, <1>5
<1> QED BY <1>2, <1>6 DEF ww, wr, w, r

\* There is one entry per touched key here as well.
LEMMA CostEntriesShape ==
  ASSUME NEW F, FiniteFootprints(F)
  PROVE  /\ IsFiniteSet(CostEntries(F))
         /\ Cardinality(CostEntries(F)) = Cardinality(TouchedKeys(F))
         /\ \A key \in TouchedKeys(F) : KeyCost(F, key, DefaultModel) \in CostEntries(F)
         /\ \A e \in CostEntries(F) :
              /\ e.key \in TouchedKeys(F) /\ e = KeyCost(F, e.key, DefaultModel)
              /\ e.cost \in Nat /\ e.key \in Nat
<1> DEFINE entryOf == [key \in TouchedKeys(F) |-> KeyCost(F, key, DefaultModel)]
<1>1. /\ entryOf = [key \in TouchedKeys(F) |-> entryOf[key]]
      /\ \A key \in TouchedKeys(F) : entryOf[key].key = key
      /\ CostEntries(F) = {entryOf[key] : key \in TouchedKeys(F)}
  BY CostIsNatural DEF CostEntries
<1> HIDE DEF entryOf
<1>2. /\ IsFiniteSet(CostEntries(F))
      /\ Cardinality(CostEntries(F)) = Cardinality(TouchedKeys(F))
  BY <1>1, OneEntryPerKey
<1>3. ASSUME NEW e \in CostEntries(F)
      PROVE  /\ e.key \in TouchedKeys(F) /\ e = KeyCost(F, e.key, DefaultModel)
             /\ e.cost \in Nat /\ e.key \in Nat
  <2>1. PICK key \in TouchedKeys(F) : e = KeyCost(F, key, DefaultModel)
    BY DEF CostEntries
  <2>2. e.key = key /\ e.cost \in Nat /\ key \in Nat
    BY <2>1, CostIsNatural, CountsFinite
  <2> QED BY <2>1, <2>2
<1> QED BY <1>2, <1>3 DEF CostEntries

\* The comparison of costs orders any two entries.
LEMMA CostlierOrders ==
  ASSUME NEW F, FiniteFootprints(F)
  PROVE  OrdersAll(CostlierPairs(F), CostEntries(F))
<1> DEFINE E == CostEntries(F)
           R == CostlierPairs(F)
<1>1. \A a, b \in E : <<a, b>> \in R <=> Costlier(a, b)
  BY DEF CostlierPairs
<1>2. /\ \A a \in E : a.cost \in Nat /\ a.key \in Nat
      /\ \A a, b \in E : a.key = b.key => a = b
  BY CostEntriesShape
<1> HIDE DEF E, R
<1>3. /\ \A a \in E : ~Costlier(a, a)
      /\ \A a, b, c \in E : Costlier(a, b) /\ Costlier(b, c) => Costlier(a, c)
      /\ \A a, b \in E : a # b => Costlier(a, b) \/ Costlier(b, a)
  BY <1>2 DEF Costlier
<1>4. OrdersAll(R, E)
  BY <1>1, <1>3 DEF OrdersAll
<1> QED BY <1>4 DEF E, R

\* So the list of keys by cost is the one of that order.
LEMMA CostRanking ==
  ASSUME NEW F, FiniteFootprints(F)
  PROVE  IsRanking(Ranked(CostEntries(F), Costlier), CostlierPairs(F), CostEntries(F))
<1> DEFINE E == CostEntries(F)
           R == CostlierPairs(F)
<1>1. \A e \in E : Preceding(R, E, e) = {f \in E : Costlier(f, e)}
  BY DEF CostlierPairs, Preceding
<1>2. Ranked(E, Costlier) = [k \in 1..Cardinality(E) |->
        CHOOSE e \in E : Cardinality({f \in E : Costlier(f, e)}) = k - 1]
  BY DEF Ranked
<1> HIDE DEF E, R
<1>3. ASSUME NEW k
      PROVE  (CHOOSE e \in E : Cardinality(Preceding(R, E, e)) = k - 1)
               = (CHOOSE e \in E : Cardinality({f \in E : Costlier(f, e)}) = k - 1)
  <2>1. \A e : (e \in E /\ Cardinality(Preceding(R, E, e)) = k - 1)
                 <=> (e \in E /\ Cardinality({f \in E : Costlier(f, e)}) = k - 1)
    BY <1>1
  <2> QED BY <2>1
<1>4. IsRanking(Ranked(E, Costlier), R, E)
  BY <1>2, <1>3 DEF IsRanking
<1> QED BY <1>4 DEF E, R

\* Every touched key has its entry in the report, and only they have.
LEMMA ContentionListsKeys ==
  ASSUME NEW F, FiniteFootprints(F), NEW list, list = KeyContention(F, DefaultModel)
  PROVE  /\ {list[k].key : k \in DOMAIN list} = TouchedKeys(F)
         /\ \A k \in DOMAIN list :
              /\ list[k].key \in TouchedKeys(F)
              /\ list[k] = KeyCost(F, list[k].key, DefaultModel)
<1> DEFINE n == Cardinality(CostEntries(F))
<1>1. IsRanking(list, CostlierPairs(F), CostEntries(F))
  BY CostRanking DEF KeyContention, CostEntries
<1>2. list \in Bijection(1..n, CostEntries(F))
  BY <1>1, CostEntriesShape, CostlierOrders, RankedList
<1>3. /\ DOMAIN list = 1..n
      /\ \A k \in 1..n : list[k] \in CostEntries(F)
      /\ \A e \in CostEntries(F) : \E k \in 1..n : list[k] = e
  BY <1>2 DEF Bijection, Injection, Surjection
<1>4. \A key \in TouchedKeys(F) :
        /\ KeyCost(F, key, DefaultModel) \in CostEntries(F)
        /\ KeyCost(F, key, DefaultModel).key = key
  BY CostEntriesShape, CostIsNatural
<1>5. \A e \in CostEntries(F) :
        e.key \in TouchedKeys(F) /\ e = KeyCost(F, e.key, DefaultModel)
  BY CostEntriesShape
<1> HIDE DEF n
<1>6. \A k \in DOMAIN list : /\ list[k].key \in TouchedKeys(F)
                             /\ list[k] = KeyCost(F, list[k].key, DefaultModel)
  BY <1>3, <1>5
<1>7. \A key \in TouchedKeys(F) : \E k \in DOMAIN list : list[k].key = key
  BY <1>3, <1>4
<1> QED BY <1>6, <1>7

\* The pairs in conflict on one key, lower index first.
ClashingOn(F, key) ==
  {e \in (1..Len(F)) \X (1..Len(F)) :
     e[1] < e[2] /\ key \in ConflictKeys(F[e[1]], F[e[2]])}

\* The formula over the numbers of writers and readers counts them.
LEMMA PairsCounted ==
  ASSUME NEW F, FiniteFootprints(F), NEW key
  PROVE  KeyCost(F, key, DefaultModel).conflict_pairs =
           Cardinality(ClashingOn(F, key))
             + Cardinality(Writers(F, key))
                 * Cardinality(Writers(F, key) \cap Readers(F, key))
<1> DEFINE n == Len(F)
           W == Writers(F, key)
           R == Readers(F, key)
<1>1. n \in Nat /\ W \subseteq 1..n /\ R \subseteq 1..n
  BY CountsFinite DEF Writers, Readers
<1>2. \A a, b \in 1..n : key \in ConflictKeys(F[a], F[b]) <=> Clash(W, R, a, b)
  BY CountsFinite DEF ConflictKeys, Clash, Writers, Readers
<1> HIDE DEF W, R
<1>3. ClashingOn(F, key)
        = {e \in (1..n) \X (1..n) : e[1] < e[2] /\ Clash(W, R, e[1], e[2])}
  BY <1>2 DEF ClashingOn
<1>4. FormulaCounts(W, R, ClashingOn(F, key))
  BY <1>1, <1>3, ClashesCounted
<1> QED BY <1>4, CostIsNatural DEF W, R, FormulaCounts

-----------------------------------------------------------------------------
\* The neighbours that may come before a transaction in a chain.
Earlier(adjacency, i) == {k \in ToSet(adjacency[i]) : k < i}

BestOf(h, adjacency, i) == Max({0} \cup {h[j] : j \in Earlier(adjacency, i)})

\* The equations that make a table of the heaviest chains.
ChainsTo(h, m, adjacency, costs) ==
  \A i \in 1..m : h[i] = costs[i] + BestOf(h, adjacency, i)

\* A graph of n transactions, by adjacency lists, and a cost for each.
Weighted(adjacency, costs, n) ==
  /\ DOMAIN adjacency = 1..n
  /\ \A i \in 1..n : ToSet(adjacency[i]) \subseteq 1..n
  /\ costs \in [1..n -> Nat]

\* What the maximum in an equation is, once the table has the earlier entries.
LEMMA BestEarlier ==
  ASSUME NEW n \in Nat, NEW adjacency, NEW costs, Weighted(adjacency, costs, n),
         NEW i \in 1..n, NEW h, \A j \in 1..(i - 1) : h[j] \in Nat,
         NEW best, best = BestOf(h, adjacency, i)
  PROVE  /\ best \in Nat
         /\ \A j \in Earlier(adjacency, i) : h[j] <= best
         /\ best # 0 => \E j \in Earlier(adjacency, i) : best = h[j]
         /\ Earlier(adjacency, i) \subseteq 1..(i - 1)
<1> DEFINE E == Earlier(adjacency, i)
           values == [j \in E |-> h[j]]
           V == {h[j] : j \in E}
<1>1. E \subseteq 1..(i - 1)
  BY DEF Earlier, Weighted
<1>2. IsFiniteSet(E)
  <2>1. IsFiniteSet(1..(i - 1))
    BY FS_Interval
  <2> HIDE DEF E
  <2> QED BY <1>1, <2>1, FS_Subset
<1> HIDE DEF E
<1>3. values \in Surjection(E, V)
  BY DEF Surjection
<1>4. IsFiniteSet(V)
  BY <1>2, <1>3, FS_Surjection
<1>5. V \subseteq Nat
  BY <1>1
<1>6. IsFiniteSet(V \cup {0}) /\ V \cup {0} = {0} \cup V
  BY <1>4, FS_AddElement
<1> DEFINE T == {0} \cup V
<1>7. T \subseteq Nat /\ T # {} /\ IsFiniteSet(T) /\ best = Max(T)
  BY <1>5, <1>6 DEF E, BestOf
<1>8. \A j \in E : h[j] \in T
  OBVIOUS
<1>9. \A x \in T : x # 0 => \E j \in E : x = h[j]
  OBVIOUS
<1> HIDE DEF T, V
<1>10. best \in T /\ best \in Nat /\ \A x \in T : x <= best
  BY <1>7, MaxOfFinite
<1> QED BY <1>1, <1>8, <1>9, <1>10 DEF E

\* The equations have a solution: each entry needs lower ones only.
LEMMA ChainTableExists ==
  ASSUME NEW n \in Nat, NEW adjacency, NEW costs, Weighted(adjacency, costs, n)
  PROVE  \E h \in [1..n -> Nat] : ChainsTo(h, n, adjacency, costs)
<1> DEFINE Good == {m \in 0..n : \E h \in [1..m -> Nat] : ChainsTo(h, m, adjacency, costs)}
<1>1. 0 \in Good
  <2>1. [i \in 1..0 |-> 0] \in [1..0 -> Nat] /\ 1..0 = {}
    OBVIOUS
  <2>2. \A h : ChainsTo(h, 0, adjacency, costs)
    BY <2>1 DEF ChainsTo
  <2> HIDE DEF Good
  <2>3. \E h \in [1..0 -> Nat] : ChainsTo(h, 0, adjacency, costs)
    BY <2>1, <2>2
  <2>4. 0 \in 0..n
    OBVIOUS
  <2> QED BY <2>3, <2>4, Zenon DEF Good
<1>2. ASSUME NEW m \in 0..(n - 1), m \in Good PROVE m + 1 \in Good
  <2>1. PICK h \in [1..m -> Nat] : ChainsTo(h, m, adjacency, costs)
    BY <1>2
  <2> DEFINE best == BestOf(h, adjacency, m + 1)
             longer == [i \in 1..(m + 1) |-> IF i = m + 1 THEN costs[m + 1] + best ELSE h[i]]
  <2>2. m + 1 \in 1..n /\ m + 1 \in 0..n /\ (m + 1) - 1 = m
    OBVIOUS
  <2>3. best \in Nat
    <3>1. \A j \in 1..((m + 1) - 1) : h[j] \in Nat
      BY <2>2
    <3> HIDE DEF best
    <3>2. best = BestOf(h, adjacency, m + 1)
      BY DEF best
    <3> QED BY <2>2, <3>1, <3>2, BestEarlier
  <2>4. costs[m + 1] \in Nat
    BY <2>2 DEF Weighted
  <2>5. \A i \in 1..(m + 1) : Earlier(adjacency, i) \subseteq 1..(i - 1)
    BY DEF Earlier, Weighted
  <2>6. \A j \in 1..m : longer[j] = h[j]
    OBVIOUS
  <2>7. longer[m + 1] = costs[m + 1] + best
    OBVIOUS
  <2> HIDE DEF best
  <2>8. longer \in [1..(m + 1) -> Nat]
    <3>1. costs[m + 1] + best \in Nat
      BY <2>3, <2>4
    <3> QED BY <3>1
  <2> HIDE DEF longer
  <2>9. ASSUME NEW i \in 1..(m + 1)
        PROVE  BestOf(longer, adjacency, i) = BestOf(h, adjacency, i)
    <3>1. \A j \in Earlier(adjacency, i) : longer[j] = h[j]
      <4>1. \A j \in Earlier(adjacency, i) : j \in 1..m
        BY <2>5
      <4> QED BY <2>6, <4>1
    <3>2. {longer[j] : j \in Earlier(adjacency, i)} = {h[j] : j \in Earlier(adjacency, i)}
      BY <3>1
    <3> QED BY <3>2 DEF BestOf
  <2>10. ASSUME NEW i \in 1..(m + 1)
         PROVE  longer[i] = costs[i] + BestOf(longer, adjacency, i)
    <3>1. CASE i = m + 1
      BY <2>7, <2>9, <3>1 DEF best
    <3>2. CASE i # m + 1
      <4>1. i \in 1..m
        BY <3>2
      <4>2. h[i] = costs[i] + BestOf(h, adjacency, i)
        BY <2>1, <4>1 DEF ChainsTo
      <4> QED BY <2>6, <2>9, <4>1, <4>2
    <3> QED BY <3>1, <3>2
  <2>11. ChainsTo(longer, m + 1, adjacency, costs)
    BY <2>10 DEF ChainsTo
  <2> QED BY <2>2, <2>8, <2>11
<1> HIDE DEF Good
<1>3. Inductive(Good, n)
  BY <1>1, <1>2 DEF Inductive
<1>4. n \in Good
  BY <1>3, InductionTo
<1> QED BY <1>4 DEF Good

\* The recursion is well founded: its equations hold.
LEMMA HeaviestAre ==
  ASSUME NEW n \in Nat, NEW adjacency, NEW costs, Weighted(adjacency, costs, n)
  PROVE  /\ HeaviestChains(adjacency, costs) \in [1..n -> Nat]
         /\ ChainsTo(HeaviestChains(adjacency, costs), n, adjacency, costs)
<1> DEFINE Table(w) == [i \in DOMAIN adjacency |->
             costs[i] + Max({0} \cup {w[j] : j \in {k \in ToSet(adjacency[i]) : k < i}})]
           heaviest == CHOOSE w : w = Table(w)
<1>1. HeaviestChains(adjacency, costs) = heaviest
  BY DEF HeaviestChains
<1>2. PICK h \in [1..n -> Nat] : ChainsTo(h, n, adjacency, costs)
  BY ChainTableExists
<1>3. DOMAIN adjacency = 1..n
  BY DEF Weighted
<1>4. h = Table(h)
  <2>1. \A i \in 1..n : h[i] = Table(h)[i]
    BY <1>2, <1>3 DEF ChainsTo, Earlier, BestOf
  <2>2. Table(h) = [i \in 1..n |-> Table(h)[i]] /\ h = [i \in 1..n |-> h[i]]
    BY <1>3
  <2> HIDE DEF Table
  <2> QED BY <2>1, <2>2
<1>5. heaviest = Table(heaviest)
  <2> HIDE DEF Table
  <2> QED BY <1>4
<1> HIDE DEF heaviest
<1>6. /\ heaviest = [i \in 1..n |-> heaviest[i]]
      /\ \A i \in 1..n : heaviest[i] =
           costs[i] + BestOf(heaviest, adjacency, i)
  <2>1. Table(heaviest) = [i \in 1..n |-> Table(heaviest)[i]]
    BY <1>3
  <2>2. \A i \in 1..n : Table(heaviest)[i] =
           costs[i] + BestOf(heaviest, adjacency, i)
    BY <1>3 DEF Earlier, BestOf
  <2> HIDE DEF Table
  <2> QED BY <1>5, <2>1, <2>2
<1> HIDE DEF Table
<1> DEFINE Good == {m \in 0..n : \A i \in 1..m : heaviest[i] \in Nat}
<1>7. 0 \in Good
  OBVIOUS
<1>8. ASSUME NEW m \in 0..(n - 1), m \in Good PROVE m + 1 \in Good
  <2> DEFINE best == BestOf(heaviest, adjacency, m + 1)
  <2>1. m + 1 \in 1..n /\ \A j \in 1..((m + 1) - 1) : heaviest[j] \in Nat
    BY <1>8
  <2>2. best \in Nat
    <3> HIDE DEF best
    <3>1. best = BestOf(heaviest, adjacency, m + 1)
      BY DEF best
    <3> QED BY <2>1, <3>1, BestEarlier
  <2>3. heaviest[m + 1] = costs[m + 1] + best /\ costs[m + 1] \in Nat
    BY <1>6, <2>1 DEF Weighted
  <2> HIDE DEF best
  <2>4. heaviest[m + 1] \in Nat
    BY <2>2, <2>3
  <2> QED BY <1>8, <2>4
<1> HIDE DEF Good
<1>9. Inductive(Good, n)
  BY <1>7, <1>8 DEF Inductive
<1>10. n \in Good
  BY <1>9, InductionTo
<1>11. heaviest \in [1..n -> Nat]
  BY <1>6, <1>10 DEF Good
<1>12. ChainsTo(heaviest, n, adjacency, costs)
  BY <1>6 DEF ChainsTo
<1> QED BY <1>1, <1>11, <1>12

\* An entry is its cost, on its own or behind an earlier neighbour's chain, and
\* no less than behind any of them.
EntryOf(h, adjacency, costs, i) ==
  /\ h[i] \in Nat /\ costs[i] \in Nat /\ costs[i] <= h[i]
  /\ \A j \in Earlier(adjacency, i) :
       j \in 1..(i - 1) /\ h[j] \in Nat /\ costs[i] + h[j] <= h[i]
  /\ \/ h[i] = costs[i]
     \/ \E j \in Earlier(adjacency, i) : h[i] = costs[i] + h[j]

\* So it is for every entry of the table.
LEMMA HeaviestSteps ==
  ASSUME NEW n \in Nat, NEW adjacency, NEW costs, Weighted(adjacency, costs, n),
         NEW h, h = HeaviestChains(adjacency, costs), NEW i \in 1..n
  PROVE  EntryOf(h, adjacency, costs, i)
<1> DEFINE best == BestOf(h, adjacency, i)
<1>1. h \in [1..n -> Nat] /\ ChainsTo(h, n, adjacency, costs)
  BY HeaviestAre
<1>2. h[i] = costs[i] + best
  BY <1>1 DEF ChainsTo
<1>3. \A j \in 1..(i - 1) : h[j] \in Nat
  BY <1>1
<1>0. best = BestOf(h, adjacency, i)
  OBVIOUS
<1> HIDE DEF best
<1>4. /\ best \in Nat
      /\ \A j \in Earlier(adjacency, i) : h[j] <= best
      /\ best # 0 => \E j \in Earlier(adjacency, i) : best = h[j]
      /\ Earlier(adjacency, i) \subseteq 1..(i - 1)
  BY <1>0, <1>3, BestEarlier
<1>5. costs[i] \in Nat /\ h[i] \in Nat
  BY <1>1 DEF Weighted
<1>6. \A j \in Earlier(adjacency, i) : j \in 1..(i - 1) /\ h[j] \in Nat
  BY <1>3, <1>4
<1>7. \A j \in Earlier(adjacency, i) : costs[i] + h[j] <= h[i]
  BY <1>2, <1>4, <1>5, <1>6
<1>8. h[i] = costs[i] \/ \E j \in Earlier(adjacency, i) : h[i] = costs[i] + h[j]
  BY <1>2, <1>4, <1>5
<1> QED BY <1>2, <1>4, <1>5, <1>6, <1>7, <1>8 DEF EntryOf

\* The costs added up one after the other.
AddedUp(sum, costs, n) ==
  /\ sum \in [0..n -> Nat]
  /\ \A i \in 1..n : sum[i] = sum[i - 1] + costs[i]

\* All chains up to m weigh no more than the transactions up to their ends.
BelowSums(h, sum, m) ==
  /\ \A j \in 0..m : sum[j] <= sum[m]
  /\ \A i \in 1..m : h[i] <= sum[i]

\* One transaction more keeps it.
LEMMA BelowSumsGrows ==
  ASSUME NEW n \in Nat, NEW adjacency, NEW costs, Weighted(adjacency, costs, n),
         NEW h, h = HeaviestChains(adjacency, costs),
         NEW sum, AddedUp(sum, costs, n),
         NEW i \in 1..n, NEW m, m = i - 1, BelowSums(h, sum, m)
  PROVE  BelowSums(h, sum, i)
<1>0. \A a, b, c \in Nat : b <= c => a + b <= c + a
  OBVIOUS
<1>1. /\ i - 1 = m /\ m \in 0..n /\ i \in 0..n
      /\ \A j \in 0..i : j = i \/ j \in 0..m
      /\ \A j \in 1..i : j = i \/ j \in 1..m
      /\ \A j \in 1..m : j \in 0..m
  OBVIOUS
<1>2. /\ h[i] \in Nat /\ costs[i] \in Nat
      /\ \A j \in Earlier(adjacency, i) : j \in 1..(i - 1) /\ h[j] \in Nat
      /\ \/ h[i] = costs[i]
         \/ \E j \in Earlier(adjacency, i) : h[i] = costs[i] + h[j]
  <2>1. EntryOf(h, adjacency, costs, i)
    BY HeaviestSteps
  <2> QED BY <2>1 DEF EntryOf
<1>3. sum[i] = sum[m] + costs[i] /\ sum[m] \in Nat /\ sum[i] \in Nat
  BY <1>1 DEF AddedUp
<1>4. \A j \in 0..m : sum[j] <= sum[m] /\ sum[j] \in Nat
  BY <1>1 DEF BelowSums, AddedUp
<1>5. \A j \in 1..m : h[j] <= sum[j]
  BY DEF BelowSums
<1>6. \A j \in 0..i : sum[j] <= sum[i]
  <2>1. sum[m] <= sum[i]
    BY <1>2, <1>3
  <2>2. \A j \in 0..m : sum[j] <= sum[i]
    BY <1>3, <1>4, <2>1
  <2>3. sum[i] <= sum[i]
    BY <1>3
  <2> QED BY <1>1, <2>2, <2>3
<1>7. h[i] <= sum[i]
  <2>1. CASE h[i] = costs[i]
    BY <1>2, <1>3, <2>1
  <2>2. ASSUME NEW j \in Earlier(adjacency, i), h[i] = costs[i] + h[j]
        PROVE  h[i] <= sum[i]
    <3>1. j \in 1..m /\ j \in 0..m /\ h[j] \in Nat
      BY <1>1, <1>2
    <3>2. h[j] <= sum[j] /\ sum[j] <= sum[m] /\ sum[j] \in Nat
      BY <1>4, <1>5, <3>1
    <3>3. h[j] <= sum[m]
      BY <1>3, <3>1, <3>2
    <3> QED BY <1>0, <1>2, <1>3, <2>2, <3>1, <3>3
  <2> QED BY <1>2, <2>1, <2>2
<1>8. \A k \in 1..i : h[k] <= sum[k]
  BY <1>1, <1>5, <1>7
<1> QED BY <1>6, <1>8 DEF BelowSums

\* A chain that ascends weighs no more than all the transactions up to its end.
LEMMA ChainsBelowSums ==
  ASSUME NEW n \in Nat, NEW adjacency, NEW costs, Weighted(adjacency, costs, n),
         NEW h, h = HeaviestChains(adjacency, costs),
         NEW sum, AddedUp(sum, costs, n)
  PROVE  \A i \in 1..n : h[i] <= sum[i] /\ sum[i] <= sum[n]
<1> DEFINE Good == {m \in 0..n : BelowSums(h, sum, m)}
<1>1. 0 \in Good
  <2>1. sum[0] \in Nat /\ 0 \in 0..n /\ 1..0 = {} /\ 0..0 = {0}
    BY DEF AddedUp
  <2> QED BY <2>1 DEF BelowSums
<1>2. ASSUME NEW m \in 0..(n - 1), m \in Good PROVE m + 1 \in Good
  <2>1. m + 1 \in 1..n /\ m + 1 \in 0..n /\ m = (m + 1) - 1 /\ BelowSums(h, sum, m)
    BY <1>2
  <2> HIDE DEF Good
  <2>2. BelowSums(h, sum, m + 1)
    BY <2>1, BelowSumsGrows
  <2> USE DEF Good
  <2> QED BY <2>1, <2>2
<1> HIDE DEF Good
<1>3. Inductive(Good, n)
  BY <1>1, <1>2 DEF Inductive
<1>4. n \in Good
  BY <1>3, InductionTo
<1>5. BelowSums(h, sum, n)
  BY <1>4 DEF Good
<1>6. \A i \in 1..n : i \in 0..n
  OBVIOUS
<1> QED BY <1>5, <1>6 DEF BelowSums

\* What is reported as the longest or heaviest chain.
LEMMA TopOfTable ==
  ASSUME NEW n \in Nat, NEW h \in [1..n -> Nat], NEW bound \in Nat,
         \A i \in 1..n : h[i] <= bound,
         NEW top, top = Max({0} \cup Range(h))
  PROVE  top \in Nat /\ top <= bound /\ \A i \in 1..n : h[i] <= top
<1> DEFINE T == {0} \cup Range(h)
<1>1. T \subseteq 0..bound /\ 0 \in T /\ \A i \in 1..n : h[i] \in T
  BY DEF Range
<1>2. IsFiniteSet(0..bound)
  BY FS_Interval
<1> HIDE DEF T
<1>3. IsFiniteSet(T)
  BY <1>1, <1>2, FS_Subset
<1>4. T \subseteq Nat /\ T # {}
  BY <1>1
<1>5. Max(T) \in T /\ Max(T) \in Nat /\ \A k \in T : k <= Max(T)
  BY <1>3, <1>4, MaxOfFinite
<1>6. top = Max(T)
  BY DEF T
<1>7. top \in 0..bound
  BY <1>1, <1>5, <1>6
<1>8. \A i \in 1..n : h[i] <= top
  BY <1>1, <1>5, <1>6
<1>9. \A x \in 0..bound : x \in Nat /\ x <= bound
  OBVIOUS
<1> QED BY <1>7, <1>8, <1>9

\* The sum of a list of costs, added up one after the other.
LEMMA SumInSteps ==
  ASSUME NEW n \in Nat, NEW costs \in [1..n -> Nat]
  PROVE  \E sum : AddedUp(sum, costs, n) /\ sum[n] = SumFunction(costs)
<1> DEFINE D == 1..n
           A == [i \in D |-> 1..costs[i]]
           sum == [i \in 0..n |-> Cardinality(Tagged(A, 1..i))]
<1>1. IsFiniteSet(D)
  BY UpToSize
<1>2. \A i \in D : IsFiniteSet(A[i]) /\ costs[i] = Cardinality(A[i])
  BY UpToSize
<1>3. DOMAIN costs = D /\ \A i \in 0..n : 1..i \in SUBSET D
  OBVIOUS
<1>4. \A i \in 0..n : sum[i] = Cardinality(Tagged(A, 1..i))
  OBVIOUS
<1>5. sum = [i \in 0..n |-> sum[i]]
  OBVIOUS
<1> HIDE DEF A, sum, D
<1>6. SumFunction(costs) = Cardinality(Tagged(A, D))
  BY <1>1, <1>2, <1>3, SumCounts
<1>7. \A i \in 0..n : IsFiniteSet(Tagged(A, 1..i))
  BY <1>1, <1>2, <1>3, TaggedFinite
<1>8. sum \in [0..n -> Nat]
  <2>1. \A i \in 0..n : sum[i] \in Nat
    BY <1>4, <1>7, FS_CardinalityType
  <2> QED BY <1>5, <2>1
<1>9. ASSUME NEW i \in 1..n PROVE sum[i] = sum[i - 1] + costs[i]
  <2>1. /\ 1..i = (1..(i - 1)) \cup {i} /\ i \notin 1..(i - 1)
        /\ i \in 0..n /\ i - 1 \in 0..n /\ i \in D
    BY DEF D
  <2>2. IsFiniteSet(A[i]) /\ IsFiniteSet(Tagged(A, 1..(i - 1)))
    BY <1>2, <1>7, <2>1
  <2>3. Cardinality(Tagged(A, (1..(i - 1)) \cup {i}))
          = Cardinality(Tagged(A, 1..(i - 1))) + Cardinality(A[i])
    BY <2>1, <2>2, TaggedGrows
  <2> QED BY <1>2, <1>4, <2>1, <2>3
<1>10. sum[n] = SumFunction(costs)
  BY <1>4, <1>6 DEF D
<1> QED BY <1>8, <1>9, <1>10 DEF AddedUp

\* With weights of one, an entry is no less than a depth of which each level
\* has an earlier neighbour on the level above.
LEMMA DepthBelowChain ==
  ASSUME NEW n \in Nat, NEW adjacency, NEW costs, Weighted(adjacency, costs, n),
         \A i \in 1..n : costs[i] = 1,
         NEW h, h = HeaviestChains(adjacency, costs),
         NEW depth \in [1..n -> Nat],
         \A i \in 1..n : depth[i] > 1 =>
           \E u \in Earlier(adjacency, i) : depth[u] = depth[i] - 1
  PROVE  \A i \in 1..n : depth[i] <= h[i]
<1> DEFINE Good == {m \in 0..n : \A i \in 1..m : depth[i] <= h[i]}
<1>1. 0 \in Good
  OBVIOUS
<1>2. ASSUME NEW m \in 0..(n - 1), m \in Good PROVE m + 1 \in Good
  <2>1. /\ m + 1 \in 1..n /\ m + 1 \in 0..n
        /\ \A j \in 1..m : depth[j] <= h[j]
        /\ \A j \in 1..(m + 1) : j = m + 1 \/ j \in 1..m
    BY <1>2
  <2>2. \A i \in 1..n : EntryOf(h, adjacency, costs, i)
    BY HeaviestSteps
  <2>3. PICK i \in 1..n : i = m + 1
    BY <2>1
  <2>4. /\ h[i] \in Nat /\ costs[i] = 1 /\ 1 <= h[i]
        /\ \A j \in Earlier(adjacency, i) :
             j \in 1..(i - 1) /\ h[j] \in Nat /\ 1 + h[j] <= h[i]
    BY <2>2 DEF EntryOf
  <2>5. depth[i] <= h[i]
    <3>1. CASE depth[i] > 1
      <4>1. PICK u \in Earlier(adjacency, i) : depth[u] = depth[i] - 1
        BY <3>1
      <4>2. u \in 1..(i - 1) /\ h[u] \in Nat /\ 1 + h[u] <= h[i]
        BY <2>4
      <4>3. u \in 1..m /\ u \in 1..n /\ depth[u] \in Nat /\ depth[i] \in Nat
        BY <2>3, <4>2
      <4>4. depth[u] <= h[u]
        BY <2>1, <4>3
      <4> QED BY <2>4, <4>1, <4>2, <4>3, <4>4
    <3>2. CASE ~(depth[i] > 1)
      BY <2>4, <3>2
    <3> QED BY <3>1, <3>2
  <2>6. \A j \in 1..(m + 1) : depth[j] <= h[j]
    BY <2>1, <2>3, <2>5
  <2> QED BY <2>1, <2>6
<1> HIDE DEF Good
<1>3. Inductive(Good, n)
  BY <1>1, <1>2 DEF Inductive
<1>4. n \in Good
  BY <1>3, InductionTo
<1> QED BY <1>4 DEF Good

\* The heaviest chain outweighs every transaction, and weighs no more than all
\* of them together.
TopBetween(top, h, bound, n) ==
  top \in Nat /\ top <= bound /\ \A i \in 1..n : h[i] <= top

\* The sum being that of all costs.
LEMMA HeaviestBelowSum ==
  ASSUME NEW n \in Nat, NEW adjacency, NEW costs, Weighted(adjacency, costs, n),
         NEW h, h = HeaviestChains(adjacency, costs),
         NEW sum, AddedUp(sum, costs, n),
         NEW top, top = Max({0} \cup Range(h))
  PROVE  TopBetween(top, h, sum[n], n)
<1>1. h \in [1..n -> Nat]
  BY HeaviestAre
<1>2. \A i \in 1..n : h[i] <= sum[i] /\ sum[i] <= sum[n]
  BY ChainsBelowSums
<1>3. sum[n] \in Nat /\ \A i \in 1..n : h[i] \in Nat /\ sum[i] \in Nat
  BY <1>1 DEF AddedUp
<1>4. \A i \in 1..n : h[i] <= sum[n]
  BY <1>2, <1>3
<1>5. top \in Nat /\ top <= sum[n] /\ \A i \in 1..n : h[i] <= top
  BY <1>1, <1>3, <1>4, TopOfTable
<1> QED BY <1>5 DEF TopBetween

\* The weighted path of a set of footprints against the sum of its costs ...
LEMMA WeightBounded ==
  ASSUME NEW n \in Nat, NEW adjacency, NEW costs, Weighted(adjacency, costs, n),
         NEW h, h = HeaviestChains(adjacency, costs),
         NEW top, top = Max({0} \cup Range(h))
  PROVE  /\ top <= SumFunction(costs)
         /\ \A i \in 1..n : costs[i] <= top
<1>1. costs \in [1..n -> Nat]
  BY DEF Weighted
<1>2. PICK sum : AddedUp(sum, costs, n) /\ sum[n] = SumFunction(costs)
  BY <1>1, SumInSteps
<1>3. TopBetween(top, h, sum[n], n)
  BY <1>2, HeaviestBelowSum
<1>4. \A i \in 1..n : EntryOf(h, adjacency, costs, i)
  BY HeaviestSteps
<1>5. \A i \in 1..n : h[i] \in Nat /\ costs[i] \in Nat /\ costs[i] <= h[i]
  BY <1>4 DEF EntryOf
<1>6. top \in Nat /\ \A i \in 1..n : h[i] <= top
  BY <1>3 DEF TopBetween
<1>7. ASSUME NEW i \in 1..n PROVE costs[i] <= top
  <2>1. \A a, b, c \in Nat : a <= b /\ b <= c => a <= c
    OBVIOUS
  <2>2. /\ h[i] \in Nat /\ costs[i] \in Nat /\ top \in Nat
        /\ costs[i] <= h[i] /\ h[i] <= top
    BY <1>5, <1>6
  <2> QED BY <2>1, <2>2
<1> QED BY <1>2, <1>3, <1>7 DEF TopBetween

\* ... and the length of the path against the number of transactions.
LEMMA LengthBounded ==
  ASSUME NEW n \in Nat, NEW adjacency, NEW costs, Weighted(adjacency, costs, n),
         \A i \in 1..n : costs[i] = 1,
         NEW h, h = HeaviestChains(adjacency, costs),
         NEW top, top = Max({0} \cup Range(h))
  PROVE  TopBetween(top, h, n, n)
<1> DEFINE sum == [i \in 0..n |-> i]
<1>1. sum \in [0..n -> Nat] /\ sum[n] = n
  OBVIOUS
<1>2. \A i \in 1..n : sum[i] = sum[i - 1] + costs[i]
  <2>1. \A i \in 1..n : sum[i] = i /\ sum[i - 1] = i - 1
    OBVIOUS
  <2> HIDE DEF sum
  <2> QED BY <2>1
<1> HIDE DEF sum
<1>3. AddedUp(sum, costs, n)
  BY <1>1, <1>2 DEF AddedUp
<1>4. TopBetween(top, h, sum[n], n)
  BY <1>3, HeaviestBelowSum
<1> QED BY <1>1, <1>4
-----------------------------------------------------------------------------
\* Transactions that write one key conflict, so they are at different depths.
LEMMA WritersApart ==
  ASSUME NEW F, FiniteFootprints(F), NEW m \in Nat, NEW depth \in [1..Len(F) -> 1..m],
         \A i, j \in 1..Len(F) : i # j /\ ConflictsWith(F[i], F[j]) => depth[i] # depth[j],
         NEW key
  PROVE  Cardinality(Writers(F, key)) <= m
<1> DEFINE W == Writers(F, key)
           place == [i \in W |-> depth[i]]
<1>1. W \subseteq 1..Len(F) /\ \A i \in W : key \in F[i].read_write
  BY CountsFinite DEF Writers
<1>2. ASSUME NEW i \in W, NEW j \in W, i # j PROVE depth[i] # depth[j]
  <2>1. key \in ConflictKeys(F[i], F[j])
    BY <1>1 DEF ConflictKeys
  <2>2. ConflictsWith(F[i], F[j])
    BY <2>1 DEF ConflictsWith
  <2> QED BY <1>1, <1>2, <2>2
<1> HIDE DEF W
<1>3. place \in Injection(W, 1..m)
  BY <1>1, <1>2 DEF Injection, IsInjective
<1> HIDE DEF place
<1>4. IsFiniteSet(1..m) /\ Cardinality(1..m) = m
  BY UpToSize
<1>5. Cardinality(W) <= Cardinality(1..m)
  BY <1>3, <1>4, FS_Injection
<1> QED BY <1>4, <1>5 DEF W

\* A bound on the writers of every key bounds the listed ones.
LEMMA HotWritesBounded ==
  ASSUME NEW F, FiniteFootprints(F), NEW top_n \in Nat, NEW bound,
         \A key : Cardinality(Writers(F, key)) <= bound,
         NEW hot, hot = RankHotKeys(F, top_n), NEW k \in DOMAIN hot
  PROVE  hot[k].writes <= bound
<1> DEFINE n == Cardinality(TouchedKeys(F))
<1>0. PICK list : \E m \in 0..Cardinality(TouchedKeys(F)) :
           /\ HotList(list, F)
           /\ m = Min({top_n, Cardinality(TouchedKeys(F))})
           /\ m <= top_n
           /\ Len(RankHotKeys(F, top_n)) = m
           /\ DOMAIN RankHotKeys(F, top_n) = 1..m
           /\ \A j \in 1..m : RankHotKeys(F, top_n)[j] = list[j]
  BY HotKeysPrefix, Zenon
<1>1. /\ HotList(list, F)
      /\ \E m \in 0..n : DOMAIN hot = 1..m /\ \A j \in 1..m : hot[j] = list[j]
  BY <1>0, Zenon
<1>2. n \in Nat
  BY CountsFinite, FS_CardinalityType
<1> HIDE DEF n
<1>3. k \in 1..n /\ hot[k] = list[k]
  <2>1. PICK m \in 0..n : DOMAIN hot = 1..m /\ \A j \in 1..m : hot[j] = list[j]
    BY <1>1
  <2>2. m \in Nat /\ m <= n /\ k \in 1..m
    BY <1>2, <2>1
  <2> QED BY <1>2, <2>1, <2>2
<1>4. list \in [1..n -> HotEntries(F)]
  BY <1>1 DEF HotList, Bijection, Injection, n
<1>5. hot[k] \in HotEntries(F)
  BY <1>3, <1>4
<1>6. hot[k] = HotKey(F, hot[k].key) /\ hot[k].key \in TouchedKeys(F)
  BY <1>5, HotEntriesShape
<1>7. HotKey(F, hot[k].key).writes = Cardinality(Writers(F, hot[k].key))
  BY <1>6, HotEntriesShape
<1>8. hot[k].writes = Cardinality(Writers(F, hot[k].key))
  BY <1>6, <1>7
<1> QED BY <1>8
=============================================================================
