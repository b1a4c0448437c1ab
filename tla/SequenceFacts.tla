--------------------------- MODULE SequenceFacts ---------------------------
(***************************************************************************)
(* Facts about lists for the proofs about the components, which grow every *)
(* list by pushing, and the induction the proofs use: a nonempty set of    *)
(* naturals has a least element.  From that come rankings, sums over sets, *)
(* the counting of pairs, and what a list joined from others starts with.  *)
(***************************************************************************)
EXTENDS Naturals, SequencesExt, SequenceTheorems, FiniteSetTheorems, TLAPS

\* The elements of a list are those at its positions.
LEMMA ToSetMember ==
  ASSUME NEW S, NEW list \in Seq(S), NEW e
  PROVE  e \in ToSet(list) <=> \E p \in 1..Len(list) : list[p] = e
BY DEF ToSet

\* The elements of a list over S are in S.
LEMMA ToSetOver ==
  ASSUME NEW S, NEW list \in Seq(S)
  PROVE  ToSet(list) \subseteq S
BY DEF ToSet

\* Pushing an element adds it to the list's elements, and nothing else.
LEMMA ToSetAppend ==
  ASSUME NEW S, NEW list \in Seq(S), NEW e \in S
  PROVE  ToSet(Append(list, e)) = ToSet(list) \cup {e}
<1> DEFINE longer == Append(list, e)
<1>1. /\ longer \in Seq(S)
      /\ Len(longer) = Len(list) + 1
      /\ \A p \in 1..Len(list) : longer[p] = list[p]
      /\ longer[Len(list) + 1] = e
  BY AppendProperties
<1>2. Len(list) \in Nat
  BY LenProperties
<1> HIDE DEF longer
<1>3. ASSUME NEW x PROVE x \in ToSet(longer) <=> x \in ToSet(list) \cup {e}
  <2>1. x \in ToSet(longer) <=> \E p \in 1..Len(longer) : longer[p] = x
    BY <1>1, ToSetMember
  <2>2. x \in ToSet(list) <=> \E p \in 1..Len(list) : list[p] = x
    BY ToSetMember
  <2>3. \A p \in 1..(Len(list) + 1) : p \in 1..Len(list) \/ p = Len(list) + 1
    BY <1>2
  <2>4. /\ 1..Len(list) \subseteq 1..(Len(list) + 1)
        /\ Len(list) + 1 \in 1..(Len(list) + 1)
    BY <1>2
  <2> QED BY <1>1, <2>1, <2>2, <2>3, <2>4
<1> QED BY <1>3 DEF longer

\* The empty list has no elements, the one-element list has its element.
LEMMA ToSetSmall ==
  /\ ToSet(<<>>) = {}
  /\ \A e : ToSet(<<e>>) = {e}
BY DEF ToSet

\* What is left of a list when its last element is removed.
LEMMA FrontShape ==
  ASSUME NEW S, NEW list \in Seq(S), Len(list) > 1
  PROVE  /\ Front(list) \in Seq(S)
         /\ Len(Front(list)) = Len(list) - 1
         /\ \A k \in 1..(Len(list) - 1) : Front(list)[k] = list[k]
<1> DEFINE m == Len(list) - 1
<1>1. /\ Len(list) \in Nat
      /\ \A k \in 1..Len(list) : list[k] \in S
  BY LenProperties, ElementOfSeq
<1>2. /\ 1 \in Int /\ m \in Int /\ 1 <= m /\ m - 1 + 1 = m
      /\ \A k \in 1..m : k \in 1..Len(list) /\ 1 + k - 1 = k
  BY <1>1
<1> HIDE DEF m
<1>3. \A k \in 1..m : list[k] \in S
  BY <1>1, <1>2
<1>4. /\ SubSeq(list, 1, m) \in Seq(S)
      /\ Len(SubSeq(list, 1, m)) = IF 1 <= m THEN m - 1 + 1 ELSE 0
      /\ \A k \in 1..(m - 1 + 1) : SubSeq(list, 1, m)[k] = list[1 + k - 1]
  BY <1>2, <1>3, SubSeqProperties
<1>5. /\ Len(SubSeq(list, 1, m)) = m
      /\ \A k \in 1..m : SubSeq(list, 1, m)[k] = list[k]
  BY <1>2, <1>4
<1> QED BY <1>4, <1>5 DEF Front, m

\* A list has finitely many elements.
LEMMA ToSetFinite ==
  ASSUME NEW S, NEW list \in Seq(S)
  PROVE  IsFiniteSet(ToSet(list))
<1>1. /\ Len(list) \in Nat
      /\ list \in [1..Len(list) -> S]
  BY LenProperties
<1>2. list \in Surjection(1..Len(list), ToSet(list))
  BY <1>1, ToSetMember DEF Surjection, ToSet
<1>3. IsFiniteSet(1..Len(list))
  BY <1>1, FS_Interval
<1> QED BY <1>2, <1>3, FS_Surjection

\* A nonempty set of naturals has a least element.
LEMMA LeastNatural ==
  ASSUME NEW T, T \subseteq Nat, T # {}
  PROVE  \E m \in T : \A k \in T : m <= k
<1> DEFINE Less == OpToRel(<, Nat)
<1>1. \A j, k \in Nat : j < k => <<j, k>> \in Less
  BY DEF OpToRel
<1>2. IsWellFoundedOn(Less, Nat)
  BY NatLessThanWellFounded
<1> HIDE DEF Less
<1>3. PICK m \in T : \A k \in T : ~ (<<k, m>> \in Less)
  BY <1>2, WFMin
<1>4. \A k \in T : ~ (k < m)
  BY <1>1, <1>3
<1> QED BY <1>3, <1>4

\* A set that has 0 and, with every k below n, k + 1.
Inductive(Good, n) ==
  0 \in Good /\ \A k \in 0..(n - 1) : k \in Good => k + 1 \in Good

\* Induction up to a bound: such a set has all naturals up to the bound.
LEMMA InductionTo ==
  ASSUME NEW n \in Nat, NEW Good, Inductive(Good, n)
  PROVE  0..n \subseteq Good
<1> DEFINE Bad == (0..n) \ Good
<1> SUFFICES ASSUME Bad # {} PROVE FALSE
  OBVIOUS
<1>1. Bad \subseteq Nat
  OBVIOUS
<1> HIDE DEF Bad
<1>2. PICK m \in Bad : \A k \in Bad : m <= k
  BY <1>1, LeastNatural
<1> USE DEF Bad
<1>3. m # 0 /\ m - 1 \in 0..(n - 1)
  BY <1>2 DEF Inductive
<1>4. m - 1 \in Good
  BY <1>2, <1>3
<1> QED BY <1>2, <1>3, <1>4 DEF Inductive

\* The values of a loop that computes each from the one before, n times,
\* beginning with a base.
Iterates(after, S, base, n, step) ==
  /\ after \in [0..n -> S]
  /\ after[0] = base
  /\ \A k \in 1..n : after[k] = step[k][after[k - 1]]

\* Such values exist, whatever the step.
LEMMA IterationExists ==
  ASSUME NEW S, NEW base \in S, NEW n \in Nat, NEW step \in [1..n -> [S -> S]]
  PROVE  \E after : Iterates(after, S, base, n, step)
<1> DEFINE IsUpTo(after, m) ==
             /\ after[0] = base
             /\ \A k \in 1..m : after[k] = step[k][after[k - 1]]
           Good == {m \in 0..n : \E after \in [0..m -> S] : IsUpTo(after, m)}
<1>1. 0 \in Good
  <2> DEFINE start == [k \in 0..0 |-> base]
  <2>1. IsUpTo(start, 0) /\ start \in [0..0 -> S]
    OBVIOUS
  <2> HIDE DEF start, IsUpTo
  <2> QED BY <2>1
<1>2. ASSUME NEW m \in 0..(n - 1), m \in Good PROVE m + 1 \in Good
  <2>1. PICK after \in [0..m -> S] : IsUpTo(after, m)
    BY <1>2
  <2> DEFINE longer == [k \in 0..(m + 1) |->
                          IF k = m + 1 THEN step[m + 1][after[m]] ELSE after[k]]
  <2>2. step[m + 1][after[m]] \in S
    <3>1. after[m] \in S /\ m + 1 \in 1..n
      OBVIOUS
    <3> QED BY <3>1
  <2>3. longer \in [0..(m + 1) -> S]
    BY <2>2
  <2>4. longer[0] = base
    BY <2>1
  <2>5. ASSUME NEW k \in 1..(m + 1) PROVE longer[k] = step[k][longer[k - 1]]
    <3>1. CASE k = m + 1
      BY <3>1
    <3>2. CASE k # m + 1
      BY <2>1, <3>2
    <3> QED BY <3>1, <3>2
  <2>6. m + 1 \in 0..n
    OBVIOUS
  <2> HIDE DEF longer
  <2>7. IsUpTo(longer, m + 1)
    BY <2>4, <2>5
  <2> HIDE DEF IsUpTo
  <2> QED BY <2>3, <2>6, <2>7
<1> HIDE DEF Good
<1>3. 0..n \subseteq Good
  <2>1. Inductive(Good, n)
    BY <1>1, <1>2 DEF Inductive
  <2> QED BY <2>1, InductionTo
<1>4. n \in Good
  BY <1>3
<1> QED BY <1>4 DEF Good, Iterates

\* Each of two runs' first n steps keeps them in agreement.
StepsAgree(one, other, n) ==
  /\ one[0] = other[0]
  /\ \A k \in 1..n : one[k - 1] = other[k - 1] => one[k] = other[k]

\* Such runs agree.
LEMMA IterationAgrees ==
  ASSUME NEW n \in Nat, NEW one, NEW other, StepsAgree(one, other, n)
  PROVE  \A k \in 0..n : one[k] = other[k]
<1> DEFINE Good == {k \in 0..n : one[k] = other[k]}
<1>1. 0 \in Good
  BY DEF StepsAgree
<1>2. \A k \in 0..(n - 1) : k \in Good => k + 1 \in Good
  <2> SUFFICES ASSUME NEW k \in 0..(n - 1), k \in Good PROVE k + 1 \in Good
    OBVIOUS
  <2>1. k + 1 \in 1..n /\ (k + 1) - 1 = k
    OBVIOUS
  <2> QED BY <2>1 DEF StepsAgree
<1> HIDE DEF Good
<1>3. 0..n \subseteq Good
  <2>1. Inductive(Good, n)
    BY <1>1, <1>2 DEF Inductive
  <2> QED BY <2>1, InductionTo
<1> QED BY <1>3 DEF Good

-----------------------------------------------------------------------------
\* The lists one after the other, as many as there are so far.
Flattens(after, S, lists) ==
  /\ after \in [0..Len(lists) -> Seq(S)]
  /\ after[0] = <<>>
  /\ \A i \in 1..Len(lists) : after[i] = after[i - 1] \o lists[i]
  /\ FlattenSeq(lists) = after[Len(lists)]

\* FlattenSeq joins the lists one by one.
LEMMA FlattenSteps ==
  ASSUME NEW S, NEW lists \in Seq(Seq(S))
  PROVE  \E after : Flattens(after, S, lists)
<1> DEFINE m == Len(lists)
           Flat(w) == [i \in 1..m |-> IF i = 1 THEN lists[i] ELSE w[i - 1] \o lists[i]]
           step == [i \in 1..m |-> [v \in Seq(S) |-> v \o lists[i]]]
           result == CHOOSE w : w = Flat(w)
<1>1. m \in Nat /\ DOMAIN lists = 1..m /\ \A i \in 1..m : lists[i] \in Seq(S)
  BY LenProperties, ElementOfSeq
<1>2. CASE m = 0
  <2>1. lists = <<>> /\ 1..m = {}
    BY <1>1, <1>2, EmptySeq
  <2>2. FlattenSeq(lists) = <<>>
    BY <1>2, <2>1 DEF FlattenSeq
  <2>3. Flattens([i \in 0..0 |-> <<>>], S, lists)
    BY <1>2, <2>1, <2>2, EmptySeq DEF Flattens
  <2> QED BY <2>3
<1>3. CASE m # 0
  <2>1. FlattenSeq(lists) = result[m]
    BY <1>3 DEF FlattenSeq
  <2> HIDE DEF m, result
  <2>2. step \in [1..m -> [Seq(S) -> Seq(S)]]
    BY <1>1, ConcatProperties
  <2>3. PICK after : Iterates(after, Seq(S), <<>>, m, step)
    <3>1. <<>> \in Seq(S)
      BY EmptySeq
    <3> HIDE DEF step
    <3> QED BY <1>1, <2>2, <3>1, IterationExists
  <2>4. after \in [0..m -> Seq(S)] /\ after[0] = <<>>
    BY <2>3 DEF Iterates
  <2>5. ASSUME NEW i \in 1..m
        PROVE  /\ i - 1 \in 0..m /\ after[i - 1] \in Seq(S) /\ lists[i] \in Seq(S)
               /\ after[i] = after[i - 1] \o lists[i]
    <3>1. i - 1 \in 0..m
      BY <1>1
    <3>2. after[i - 1] \in Seq(S) /\ after[i] = step[i][after[i - 1]]
      BY <2>3, <2>4, <3>1 DEF Iterates
    <3> QED BY <1>1, <3>1, <3>2
  <2> HIDE DEF step
  <2>6. \A i \in 1..m : after[i] = IF i = 1 THEN lists[i] ELSE after[i - 1] \o lists[i]
    <3>1. \A i \in 1..m : i = 1 => after[i - 1] = <<>>
      BY <2>4
    <3> QED BY <2>5, <3>1, ConcatEmptySeq
  <2>7. result = Flat(result)
    <3> DEFINE w == [i \in 1..m |-> after[i]]
    <3>1. \A i \in 1..m : i # 1 => i - 1 \in 1..m
      BY <1>1
    <3>2. w = Flat(w)
      BY <2>6, <3>1
    <3> QED BY <3>2 DEF result
  <2>8. \A i \in 1..m : result[i] = IF i = 1 THEN lists[i] ELSE result[i - 1] \o lists[i]
    BY <2>7
  <2>9. result[m] = after[m]
    <3> DEFINE other == [i \in 0..m |-> IF i = 0 THEN <<>> ELSE result[i]]
    <3>1. after[0] = other[0]
      BY <1>1, <2>4
    <3>2. \A i \in 1..m : after[i - 1] = other[i - 1] => after[i] = other[i]
      <4> SUFFICES ASSUME NEW i \in 1..m, after[i - 1] = other[i - 1]
                   PROVE  after[i] = other[i]
        OBVIOUS
      <4>1. other[i] = result[i] /\ (i # 1 => other[i - 1] = result[i - 1])
        BY <1>1
      <4> HIDE DEF other
      <4> QED BY <2>6, <2>8, <4>1
    <3>3. m \in 0..m /\ other[m] = result[m]
      BY <1>1, <1>3
    <3> HIDE DEF other
    <3>4. m \in Nat
      BY <1>1
    <3>5. \A i \in 0..m : after[i] = other[i]
      <4>1. StepsAgree(after, other, m)
        BY <3>1, <3>2, <3>4 DEF StepsAgree
      <4> QED BY <3>4, <4>1, IterationAgrees
    <3> QED BY <3>3, <3>5
  <2>10. Flattens(after, S, lists)
    <3> USE DEF m
    <3> QED BY <2>1, <2>4, <2>5, <2>9 DEF Flattens
  <2> QED BY <2>10
<1> QED BY <1>1, <1>2, <1>3

\* One list more is joined at the end.
LEMMA FlattenAppend ==
  ASSUME NEW S, NEW lists \in Seq(Seq(S)), NEW list \in Seq(S)
  PROVE  /\ FlattenSeq(lists) \in Seq(S)
         /\ FlattenSeq(Append(lists, list)) = FlattenSeq(lists) \o list
<1> DEFINE n == Len(lists)
           longer == Append(lists, list)
<1>1. /\ longer \in Seq(Seq(S)) /\ Len(longer) = n + 1
      /\ \A i \in 1..n : longer[i] = lists[i]
      /\ longer[n + 1] = list
  BY AppendProperties
<1>2. n \in Nat
  BY LenProperties
<1> HIDE DEF n, longer
<1>3. PICK one : Flattens(one, S, lists)
  BY FlattenSteps
<1>4. PICK two : Flattens(two, S, longer)
  BY <1>1, FlattenSteps
<1>5. \A i \in 0..n : one[i] = two[i]
  <2>1. one[0] = two[0]
    BY <1>3, <1>4 DEF Flattens
  <2>2. \A i \in 1..n : one[i] = one[i - 1] \o lists[i] /\ two[i] = two[i - 1] \o longer[i]
    <3>1. \A i \in 1..n : one[i] = one[i - 1] \o lists[i]
      BY <1>3 DEF Flattens, n
    <3>2. \A i \in 1..(n + 1) : two[i] = two[i - 1] \o longer[i]
      BY <1>1, <1>4 DEF Flattens
    <3>3. \A i \in 1..n : i \in 1..(n + 1)
      BY <1>2
    <3> QED BY <3>1, <3>2, <3>3
  <2>3. StepsAgree(one, two, n)
    BY <1>1, <2>1, <2>2 DEF StepsAgree
  <2> QED BY <1>2, <2>3, IterationAgrees
<1>6. /\ n \in 0..n /\ n + 1 \in 1..(n + 1) /\ (n + 1) - 1 = n
  BY <1>2
<1>7. FlattenSeq(lists) = one[n] /\ one[n] \in Seq(S)
  BY <1>3, <1>6 DEF Flattens, n
<1>8. FlattenSeq(longer) = two[n + 1] /\ two[n + 1] = two[n] \o list
  BY <1>1, <1>4, <1>6 DEF Flattens
<1> QED BY <1>5, <1>6, <1>7, <1>8 DEF longer

\* A function on the first naturals is a list.
LEMMA FunctionIsList ==
  ASSUME NEW n \in Nat, NEW S, NEW f, f = [k \in 1..n |-> f[k]], \A k \in 1..n : f[k] \in S
  PROVE  f \in Seq(S) /\ Len(f) = n
BY IsASeq, LenProperties

\* A list, looked at one by one.
Mapped(f, list) == [i \in DOMAIN list |-> f[list[i]]]

\* Records put behind others, looked at one by one.
LEMMA ConcatMapped ==
  ASSUME NEW S, NEW one \in Seq(S), NEW two \in Seq(S), NEW f
  PROVE  Mapped(f, one \o two) = Mapped(f, one) \o Mapped(f, two)
<1> DEFINE T == {f[x] : x \in S}
           all == one \o two
           left == [i \in DOMAIN one |-> f[one[i]]]
           right == [i \in DOMAIN two |-> f[two[i]]]
           both == [i \in DOMAIN all |-> f[all[i]]]
<1>1. /\ Len(one) \in Nat /\ DOMAIN one = 1..Len(one) /\ \A i \in 1..Len(one) : one[i] \in S
      /\ Len(two) \in Nat /\ DOMAIN two = 1..Len(two) /\ \A i \in 1..Len(two) : two[i] \in S
  BY LenProperties, ElementOfSeq
<1>2. /\ all \in Seq(S) /\ Len(all) = Len(one) + Len(two) /\ DOMAIN all = 1..(Len(one) + Len(two))
      /\ \A i \in 1..(Len(one) + Len(two)) :
           /\ all[i] = IF i <= Len(one) THEN one[i] ELSE two[i - Len(one)]
           /\ all[i] \in S
  BY ConcatProperties, LenProperties, ElementOfSeq
<1> \A x \in S : f[x] \in T
  OBVIOUS
<1> HIDE DEF all, T
<1>3. /\ left \in Seq(T) /\ right \in Seq(T) /\ both \in Seq(T)
      /\ Len(left) = Len(one) /\ Len(right) = Len(two) /\ Len(both) = Len(one) + Len(two)
  BY <1>1, <1>2, IsASeq, LenProperties
<1>4. /\ left \o right \in Seq(T) /\ Len(left \o right) = Len(one) + Len(two)
      /\ \A i \in 1..(Len(one) + Len(two)) :
           (left \o right)[i] = IF i <= Len(one) THEN left[i] ELSE right[i - Len(one)]
  <2>1. PICK l, r : l = left /\ r = right
    OBVIOUS
  <2> HIDE DEF left, right, both
  <2>2. l \in Seq(T) /\ r \in Seq(T) /\ Len(l) = Len(one) /\ Len(r) = Len(two)
    BY <1>3, <2>1
  <2>3. /\ l \o r \in Seq(T) /\ Len(l \o r) = Len(l) + Len(r)
        /\ \A i \in 1..(Len(l) + Len(r)) : (l \o r)[i] = IF i <= Len(l) THEN l[i] ELSE r[i - Len(l)]
    BY <2>2, ConcatProperties
  <2> QED BY <2>1, <2>2, <2>3
<1>5. \A i \in 1..(Len(one) + Len(two)) : both[i] = (left \o right)[i]
  <2> SUFFICES ASSUME NEW i \in 1..(Len(one) + Len(two)) PROVE both[i] = (left \o right)[i]
    OBVIOUS
  <2>1. both[i] = f[all[i]]
    BY <1>2
  <2>2. i <= Len(one) => i \in 1..Len(one)
    BY <1>1
  <2>3. ~(i <= Len(one)) => i - Len(one) \in 1..Len(two)
    BY <1>1
  <2>4. i \in 1..Len(one) => left[i] = f[one[i]]
    BY <1>1
  <2>5. i - Len(one) \in 1..Len(two) => right[i - Len(one)] = f[two[i - Len(one)]]
    BY <1>1
  <2> HIDE DEF left, right, both
  <2> QED BY <1>2, <1>4, <2>1, <2>2, <2>3, <2>4, <2>5
<1> HIDE DEF left, right, both
<1>6. both = left \o right
  BY <1>3, <1>4, <1>5, SeqEqual
<1> QED BY <1>3, <1>6 DEF left, right, both, all, Mapped

\* What the library's Max is of a set whose greatest element is known.
LEMMA MaxIs ==
  ASSUME NEW T, T \subseteq Nat, NEW m \in T, \A k \in T : k <= m
  PROVE  Max(T) = m
<1>1. \E x \in T : \A y \in T : x >= y
  OBVIOUS
<1>2. Max(T) \in T /\ \A y \in T : Max(T) >= y
  BY <1>1 DEF Max
<1>3. Max(T) \in Nat /\ m \in Nat /\ Max(T) >= m /\ Max(T) <= m
  BY <1>2
<1> HIDE DEF Max
<1> QED BY <1>3

\* What the library's Min is of a set whose least element is known.
LEMMA MinIs ==
  ASSUME NEW T, T \subseteq Nat, NEW m \in T, \A k \in T : m <= k
  PROVE  Min(T) = m
<1>1. \E x \in T : \A y \in T : x <= y
  OBVIOUS
<1>2. Min(T) \in T /\ \A y \in T : Min(T) <= y
  BY <1>1 DEF Min
<1>3. Min(T) \in Nat /\ m \in Nat /\ Min(T) >= m /\ Min(T) <= m
  BY <1>2
<1> HIDE DEF Min
<1> QED BY <1>3

\* A nonempty set of naturals contains its Min, and nothing below it.
LEMMA MinLeast ==
  ASSUME NEW T, T \subseteq Nat, T # {}
  PROVE  Min(T) \in T /\ \A k \in T : Min(T) <= k
<1>1. PICK m \in T : \A k \in T : m <= k
  BY LeastNatural
<1>2. Min(T) = m
  BY <1>1, MinIs
<1> QED BY <1>1, <1>2

\* There are n numbers from 1 to n.
LEMMA UpToSize ==
  ASSUME NEW n \in Nat
  PROVE  IsFiniteSet(1..n) /\ Cardinality(1..n) = n
BY FS_Interval

\* A finite set has two elements or more exactly if two of them differ.
LEMMA TwoOrMore ==
  ASSUME NEW T, IsFiniteSet(T)
  PROVE  Cardinality(T) > 1 <=> \E x, y \in T : x # y
<1>1. Cardinality(T) \in Nat
  BY FS_CardinalityType
<1>2. (Cardinality(T) = 0 <=> T = {}) /\ (Cardinality(T) = 1 <=> \E x : T = {x})
  BY FS_EmptySet, FS_Singleton
<1>3. (\E x, y \in T : x # y) <=> T # {} /\ ~(\E x : T = {x})
  OBVIOUS
<1> QED BY <1>1, <1>2, <1>3

\* A list without repetition has as many elements as places.
LEMMA InjectiveSize ==
  ASSUME NEW S, NEW list \in Seq(S),
         \A p, q \in DOMAIN list : list[p] = list[q] => p = q
  PROVE  IsFiniteSet(ToSet(list)) /\ Cardinality(ToSet(list)) = Len(list)
<1>1. /\ Len(list) \in Nat /\ DOMAIN list = 1..Len(list)
      /\ list \in [1..Len(list) -> S]
  BY LenProperties
<1>2. list \in Bijection(1..Len(list), ToSet(list))
  <2>1. \A p \in 1..Len(list) : list[p] \in ToSet(list)
    BY ToSetMember
  <2>2. \A e \in ToSet(list) : \E p \in 1..Len(list) : list[p] = e
    BY ToSetMember
  <2>3. list \in [1..Len(list) -> ToSet(list)]
    BY <1>1, <2>1
  <2> QED BY <1>1, <2>2, <2>3 DEF Bijection, Injection, Surjection, IsInjective
<1>3. IsFiniteSet(1..Len(list)) /\ Cardinality(1..Len(list)) = Len(list)
  BY <1>1, UpToSize
<1> QED BY <1>2, <1>3, FS_Bijection DEF ExistsBijection
-----------------------------------------------------------------------------
\* R orders any two elements of S, strictly.
OrdersAll(R, S) ==
  /\ \A a \in S : <<a, a>> \notin R
  /\ \A a, b, c \in S : <<a, b>> \in R /\ <<b, c>> \in R => <<a, c>> \in R
  /\ \A a, b \in S : a # b => <<a, b>> \in R \/ <<b, a>> \in R

\* The elements of S that come before e.
Preceding(R, S, e) == {f \in S : <<f, e>> \in R}

\* An element behind another one has more elements ahead of it.
LEMMA PrecedingGrows ==
  ASSUME NEW S, IsFiniteSet(S), NEW R, OrdersAll(R, S)
  PROVE  /\ \A e \in S : Cardinality(Preceding(R, S, e)) \in 0..(Cardinality(S) - 1)
         /\ \A a, b \in S : <<a, b>> \in R =>
              Cardinality(Preceding(R, S, a)) < Cardinality(Preceding(R, S, b))
<1>1. \A e \in S : /\ IsFiniteSet(Preceding(R, S, e))
                   /\ Cardinality(Preceding(R, S, e)) \in Nat
  BY FS_Subset, FS_CardinalityType DEF Preceding
<1>2. ASSUME NEW e \in S PROVE Cardinality(Preceding(R, S, e)) \in 0..(Cardinality(S) - 1)
  <2>1. e \notin Preceding(R, S, e) /\ Preceding(R, S, e) \subseteq S
    BY DEF Preceding, OrdersAll
  <2>2. /\ Cardinality(Preceding(R, S, e)) <= Cardinality(S)
        /\ Cardinality(S) = Cardinality(Preceding(R, S, e)) => S = Preceding(R, S, e)
    BY <2>1, FS_Subset
  <2>3. Cardinality(S) \in Nat
    BY FS_CardinalityType
  <2> QED BY <1>1, <2>1, <2>2, <2>3
<1>3. ASSUME NEW a \in S, NEW b \in S, <<a, b>> \in R
      PROVE  Cardinality(Preceding(R, S, a)) < Cardinality(Preceding(R, S, b))
  <2>1. /\ Preceding(R, S, a) \subseteq Preceding(R, S, b)
        /\ a \in Preceding(R, S, b) /\ a \notin Preceding(R, S, a)
    BY <1>3 DEF Preceding, OrdersAll
  <2>2. /\ Cardinality(Preceding(R, S, a)) <= Cardinality(Preceding(R, S, b))
        /\ Cardinality(Preceding(R, S, b)) = Cardinality(Preceding(R, S, a))
             => Preceding(R, S, b) = Preceding(R, S, a)
    BY <1>1, <2>1, FS_Subset
  <2> QED BY <1>1, <2>1, <2>2
<1> QED BY <1>2, <1>3

IsRanking(list, R, S) ==
  list = [k \in 1..Cardinality(S) |->
            CHOOSE e \in S : Cardinality(Preceding(R, S, e)) = k - 1]

\* The list with, at place k, the element that has k - 1 others ahead of it,
\* has every element at one place, and the places ascend in the order.
LEMMA RankedList ==
  ASSUME NEW S, IsFiniteSet(S), NEW R, OrdersAll(R, S), NEW list, IsRanking(list, R, S)
  PROVE  /\ list \in Bijection(1..Cardinality(S), S)
         /\ \A j, k \in 1..Cardinality(S) : j < k => <<list[j], list[k]>> \in R
<1> DEFINE n == Cardinality(S)
           rank == [e \in S |-> Cardinality(Preceding(R, S, e)) + 1]
<1>1. /\ n \in Nat
      /\ \A e \in S : rank[e] \in 1..n
      /\ \A a, b \in S : <<a, b>> \in R => rank[a] < rank[b]
  <2>1. n \in Nat
    BY FS_CardinalityType
  <2> QED BY <2>1, PrecedingGrows
<1>0. /\ rank = [e \in S |-> rank[e]]
      /\ \A e \in S : rank[e] = Cardinality(Preceding(R, S, e)) + 1
  OBVIOUS
<1> HIDE DEF rank, n
<1>2. rank \in Injection(S, 1..n)
  <2>1. ASSUME NEW a \in S, NEW b \in S, rank[a] = rank[b] PROVE a = b
    <3>1. a # b => <<a, b>> \in R \/ <<b, a>> \in R
      BY DEF OrdersAll
    <3>2. rank[a] \in Nat /\ rank[b] \in Nat
      BY <1>1
    <3> QED BY <1>1, <2>1, <3>1, <3>2
  <2>2. rank \in [S -> 1..n]
    BY <1>0, <1>1
  <2> QED BY <1>0, <2>1, <2>2 DEF Injection, IsInjective
<1>3. rank \in Surjection(S, 1..n)
  <2>1. IsFiniteSet(1..n) /\ Cardinality(1..n) = n
    BY <1>1, UpToSize
  <2>2. Cardinality(S) = n
    BY DEF n
  <2> QED BY <1>2, <2>1, <2>2, FS_Injection
<1>4. ASSUME NEW k \in 1..n PROVE list[k] \in S /\ rank[list[k]] = k
  <2>1. \E e \in S : rank[e] = k
    BY <1>3 DEF Surjection
  <2>2. \E e \in S : Cardinality(Preceding(R, S, e)) = k - 1
    BY <1>0, <1>1, <2>1, PrecedingGrows
  <2>3. list[k] = CHOOSE e \in S : Cardinality(Preceding(R, S, e)) = k - 1
    BY DEF IsRanking, n
  <2>4. list[k] \in S /\ Cardinality(Preceding(R, S, list[k])) = k - 1
    BY <2>2, <2>3
  <2> QED BY <1>0, <2>4
<1>5. DOMAIN list = 1..n /\ list = [k \in 1..n |-> list[k]]
  BY DEF n, IsRanking
<1>6. \A e \in S : list[rank[e]] = e
  BY <1>1, <1>2, <1>4 DEF Injection, IsInjective
<1>7. list \in Bijection(1..n, S)
  <2>1. list \in [1..n -> S]
    BY <1>4, <1>5
  <2>2. \A j, k \in 1..n : list[j] = list[k] => j = k
    BY <1>4
  <2>4. DOMAIN list = 1..n
    BY <1>5
  <2>3. \A e \in S : \E k \in 1..n : list[k] = e
    BY <1>1, <1>6
  <2> QED BY <2>1, <2>2, <2>3, <2>4 DEF Bijection, Injection, IsInjective, Surjection
<1>8. ASSUME NEW j \in 1..n, NEW k \in 1..n, j < k PROVE <<list[j], list[k]>> \in R
  <2>0. /\ list[j] \in S /\ list[k] \in S
        /\ rank[list[j]] = j /\ rank[list[k]] = k
    BY <1>4
  <2>1. list[j] # list[k] /\ ~(<<list[k], list[j]>> \in R)
    BY <1>1, <1>8, <2>0
  <2> QED BY <1>4, <2>1 DEF OrdersAll
<1> QED BY <1>7, <1>8 DEF n

-----------------------------------------------------------------------------
\* A set that has every subset of D which, without any one of its elements, is
\* in the set.
GrowsOver(Good, D) ==
  \A s \in SUBSET D : (\A x \in s : s \ {x} \in Good) => s \in Good

\* Induction over a finite set: such a set has all of its subsets.
LEMMA InductionOver ==
  ASSUME NEW D, IsFiniteSet(D), NEW Good, GrowsOver(Good, D)
  PROVE  SUBSET D \subseteq Good
<1> DEFINE n == Cardinality(D)
           Sizes == {m \in 0..n : \A s \in SUBSET D : Cardinality(s) = m => s \in Good}
<1>1. n \in Nat /\ \A s \in SUBSET D : IsFiniteSet(s) /\ Cardinality(s) \in 0..n
  <2>1. n \in Nat
    BY FS_CardinalityType
  <2>2. ASSUME NEW s \in SUBSET D PROVE IsFiniteSet(s) /\ Cardinality(s) \in 0..n
    <3>1. IsFiniteSet(s) /\ Cardinality(s) <= n
      BY FS_Subset
    <3>2. Cardinality(s) \in Nat
      BY <3>1, FS_CardinalityType
    <3> QED BY <2>1, <3>1, <3>2
  <2> QED BY <2>1, <2>2
<1> HIDE DEF n
<1>2. 0 \in Sizes
  <2>1. ASSUME NEW s \in SUBSET D, Cardinality(s) = 0 PROVE s \in Good
    <3>1. s = {}
      BY <1>1, <2>1, FS_EmptySet
    <3> QED BY <3>1 DEF GrowsOver
  <2> QED BY <1>1, <2>1
<1>3. ASSUME NEW m \in 0..(n - 1), m \in Sizes PROVE m + 1 \in Sizes
  <2>1. ASSUME NEW s \in SUBSET D, Cardinality(s) = m + 1 PROVE s \in Good
    <3>1. ASSUME NEW x \in s PROVE s \ {x} \in Good
      <4>1. Cardinality(s \ {x}) = Cardinality(s) - 1
        BY <1>1, FS_RemoveElement
      <4>2. s \ {x} \in SUBSET D /\ (m + 1) - 1 = m
        OBVIOUS
      <4> QED BY <1>3, <2>1, <4>1, <4>2
    <3> QED BY <3>1 DEF GrowsOver
  <2> QED BY <1>1, <1>3, <2>1
<1>4. Inductive(Sizes, n)
  BY <1>2, <1>3 DEF Inductive
<1> HIDE DEF Sizes
<1>5. 0..n \subseteq Sizes
  BY <1>1, <1>4, InductionTo
<1> QED BY <1>1, <1>5 DEF Sizes

\* The elements of the sets A[i], i in D, each paired with its i.
Tagged(A, D) == UNION {{i} \X A[i] : i \in D}

\* Adding an index adds the pairs of its set.
LEMMA TaggedGrows ==
  ASSUME NEW A, NEW D, NEW x, x \notin D, IsFiniteSet(A[x]), IsFiniteSet(Tagged(A, D))
  PROVE  /\ IsFiniteSet(Tagged(A, D \cup {x}))
         /\ Cardinality(Tagged(A, D \cup {x})) = Cardinality(Tagged(A, D)) + Cardinality(A[x])
<1> DEFINE new == {x} \X A[x]
<1>1. /\ Tagged(A, D \cup {x}) = Tagged(A, D) \cup new
      /\ Tagged(A, D) \cap new = {}
  BY DEF Tagged
<1>2. IsFiniteSet({x}) /\ Cardinality({x}) = 1
  BY FS_Singleton
<1>3. IsFiniteSet(new) /\ Cardinality(new) = 1 * Cardinality(A[x])
  BY <1>2, FS_Product
<1>4. Cardinality(A[x]) \in Nat /\ Cardinality(Tagged(A, D)) \in Nat
  BY FS_CardinalityType
<1> HIDE DEF new
<1>5. /\ IsFiniteSet(Tagged(A, D) \cup new)
      /\ Cardinality(Tagged(A, D) \cup new)
           = Cardinality(Tagged(A, D)) + Cardinality(new) - Cardinality(Tagged(A, D) \cap new)
  BY <1>3, FS_Union
<1>6. Cardinality(Tagged(A, D) \cap new) = 0
  BY <1>1, FS_EmptySet
<1>7. Cardinality(Tagged(A, D) \cup new) = Cardinality(Tagged(A, D)) + Cardinality(A[x])
  BY <1>3, <1>4, <1>5, <1>6
<1> QED BY <1>1, <1>5, <1>7

\* Finitely many finite sets have finitely many pairs.
LEMMA TaggedFinite ==
  ASSUME NEW D, IsFiniteSet(D), NEW A, \A i \in D : IsFiniteSet(A[i])
  PROVE  \A s \in SUBSET D : IsFiniteSet(Tagged(A, s))
<1> DEFINE Good == {s \in SUBSET D : IsFiniteSet(Tagged(A, s))}
<1>1. {} \in Good
  <2>1. Tagged(A, {}) = {}
    BY DEF Tagged
  <2> QED BY <2>1, FS_EmptySet
<1>2. ASSUME NEW s \in SUBSET D, NEW x \in s, s \ {x} \in Good PROVE s \in Good
  <2>1. IsFiniteSet(A[x]) /\ x \notin s \ {x} /\ IsFiniteSet(Tagged(A, s \ {x}))
    BY <1>2
  <2>2. (s \ {x}) \cup {x} = s
    OBVIOUS
  <2>3. IsFiniteSet(Tagged(A, s))
    BY <2>1, <2>2, TaggedGrows
  <2> QED BY <2>3
<1> HIDE DEF Good
<1>3. GrowsOver(Good, D)
  <2>1. ASSUME NEW s \in SUBSET D, \A x \in s : s \ {x} \in Good PROVE s \in Good
    BY <1>1, <1>2, <2>1
  <2> QED BY <2>1 DEF GrowsOver
<1>4. SUBSET D \subseteq Good
  BY <1>3, InductionOver
<1> QED BY <1>4 DEF Good

\* The library's fold adds up what a function adds to a set index by index, in
\* whatever order it takes the indices.
LEMMA SumUnique ==
  ASSUME NEW D, IsFiniteSet(D), NEW f, DOMAIN f = D,
         NEW total, total[{}] = 0,
         \A s \in SUBSET D : \A x \in s : total[s] = f[x] + total[s \ {x}]
  PROVE  SumFunction(f) = total[D]
<1> DEFINE First(s) == CHOOSE y \in s : TRUE
           Sums(w) == [s \in SUBSET D |->
             IF s = {} THEN 0
             ELSE LET x == CHOOSE y \in s : TRUE IN f[x] + w[s \ {x}]]
           iter == CHOOSE w : w = Sums(w)
           sum == [s \in SUBSET D |-> total[s]]
<1>1. SumFunction(f) = iter[D]
  BY DEF SumFunction, SumFunctionOnSet, FoldFunctionOnSet, MapThenFoldSet
<1>2. /\ sum[{}] = 0 /\ sum[D] = total[D]
      /\ \A s \in SUBSET D : \A x \in s : sum[s] = f[x] + sum[s \ {x}]
  BY Zenon
<1>3. sum = [s \in SUBSET D |-> sum[s]]
  OBVIOUS
<1> HIDE DEF sum
<1>4. \A s \in SUBSET D : sum[s] = Sums(sum)[s]
  <2>1. ASSUME NEW s \in SUBSET D, s # {} PROVE sum[s] = Sums(sum)[s]
    <3>1. First(s) \in s
      BY <2>1
    <3>2. Sums(sum)[s] = f[First(s)] + sum[s \ {First(s)}]
      BY <2>1
    <3> HIDE DEF First, Sums
    <3> QED BY <1>2, <3>1, <3>2
  <2>2. Sums(sum)[{}] = 0
    OBVIOUS
  <2> HIDE DEF Sums
  <2> QED BY <1>2, <2>1, <2>2
<1>5. sum = Sums(sum)
  <2>1. Sums(sum) = [s \in SUBSET D |-> Sums(sum)[s]]
    OBVIOUS
  <2> HIDE DEF Sums
  <2> QED BY <1>3, <1>4, <2>1
<1>6. iter = Sums(iter)
  <2> HIDE DEF Sums
  <2> QED BY <1>5
<1> HIDE DEF iter
<1>7. /\ iter[{}] = 0
      /\ \A s \in SUBSET D :
           s # {} => iter[s] = f[First(s)] + iter[s \ {First(s)}]
  BY <1>6
<1> DEFINE Good == {s \in SUBSET D : iter[s] = sum[s]}
<1>8. ASSUME NEW s \in SUBSET D, \A x \in s : s \ {x} \in Good PROVE s \in Good
  <2>1. CASE s = {}
    BY <1>2, <1>7, <2>1
  <2>2. CASE s # {}
    <3>1. First(s) \in s
      BY <2>2
    <3> HIDE DEF First
    <3>2. iter[s \ {First(s)}] = sum[s \ {First(s)}]
      BY <1>8, <3>1
    <3> QED BY <1>2, <1>7, <2>2, <3>1, <3>2
  <2> QED BY <2>1, <2>2
<1> HIDE DEF Good
<1>9. GrowsOver(Good, D)
  BY <1>8 DEF GrowsOver
<1>10. SUBSET D \subseteq Good
  BY <1>9, InductionOver
<1>11. iter[D] = sum[D]
  BY <1>10 DEF Good
<1> QED BY <1>1, <1>2, <1>11

\* One index more, one set of pairs more.
SplitsOff(A, s, x) ==
  /\ Cardinality(A[x]) \in Nat
  /\ Cardinality(Tagged(A, s)) \in Nat /\ Cardinality(Tagged(A, s \ {x})) \in Nat
  /\ Cardinality(Tagged(A, s)) = Cardinality(A[x]) + Cardinality(Tagged(A, s \ {x}))

LEMMA TaggedSplits ==
  ASSUME NEW D, IsFiniteSet(D), NEW A, \A i \in D : IsFiniteSet(A[i]),
         NEW s \in SUBSET D, NEW x \in s
  PROVE  SplitsOff(A, s, x)
<1>1. /\ x \notin s \ {x} /\ (s \ {x}) \cup {x} = s /\ x \in D
      /\ s \ {x} \in SUBSET D
  OBVIOUS
<1>2. \A t \in SUBSET D : IsFiniteSet(Tagged(A, t)) /\ Cardinality(Tagged(A, t)) \in Nat
  BY TaggedFinite, FS_CardinalityType
<1>3. Cardinality(Tagged(A, s)) = Cardinality(Tagged(A, s \ {x})) + Cardinality(A[x])
  BY <1>1, <1>2, TaggedGrows
<1>4. Cardinality(A[x]) \in Nat
  BY <1>1, FS_CardinalityType
<1> QED BY <1>1, <1>2, <1>3, <1>4 DEF SplitsOff

LEMMA TaggedNothing ==
  ASSUME NEW A
  PROVE  Tagged(A, {}) = {} /\ Cardinality(Tagged(A, {})) = 0
<1>1. Tagged(A, {}) = {}
  BY DEF Tagged
<1> QED BY <1>1, FS_EmptySet

\* A sum of sizes is the number of the pairs.
LEMMA SumCounts ==
  ASSUME NEW D, IsFiniteSet(D), NEW A, NEW f, DOMAIN f = D,
         \A i \in D : IsFiniteSet(A[i]) /\ f[i] = Cardinality(A[i])
  PROVE  SumFunction(f) = Cardinality(Tagged(A, D))
<1> DEFINE total == [s \in SUBSET D |-> Cardinality(Tagged(A, s))]
<1>1. total[{}] = 0 /\ total[D] = Cardinality(Tagged(A, D))
  BY TaggedNothing
<1>2. ASSUME NEW s \in SUBSET D, NEW x \in s
      PROVE  total[s] = f[x] + total[s \ {x}]
  BY TaggedSplits DEF SplitsOff
<1> HIDE DEF total
<1> QED BY <1>1, <1>2, SumUnique

\* A sum of differences of sizes is the difference of the numbers of pairs.
LEMMA SumDifference ==
  ASSUME NEW D, IsFiniteSet(D), NEW A, NEW B, NEW f, DOMAIN f = D,
         \A i \in D : /\ IsFiniteSet(A[i]) /\ IsFiniteSet(B[i])
                      /\ f[i] = Cardinality(A[i]) - Cardinality(B[i])
  PROVE  SumFunction(f) = Cardinality(Tagged(A, D)) - Cardinality(Tagged(B, D))
<1>0. ASSUME NEW C, \A i \in D : IsFiniteSet(C[i]), NEW s \in SUBSET D, NEW x \in s
      PROVE  SplitsOff(C, s, x)
  BY <1>0, TaggedSplits
<1> DEFINE total == [s \in SUBSET D |-> Cardinality(Tagged(A, s)) - Cardinality(Tagged(B, s))]
<1>1. /\ total[{}] = 0
      /\ total[D] = Cardinality(Tagged(A, D)) - Cardinality(Tagged(B, D))
  BY TaggedNothing
<1>2. ASSUME NEW s \in SUBSET D, NEW x \in s
      PROVE  total[s] = f[x] + total[s \ {x}]
  <2>1. SplitsOff(A, s, x)
    BY <1>0
  <2>2. SplitsOff(B, s, x)
    BY <1>0
  <2>3. f[x] = Cardinality(A[x]) - Cardinality(B[x])
    OBVIOUS
  <2>4. /\ total[s] = Cardinality(Tagged(A, s)) - Cardinality(Tagged(B, s))
        /\ total[s \ {x}] = Cardinality(Tagged(A, s \ {x})) - Cardinality(Tagged(B, s \ {x}))
    OBVIOUS
  <2> HIDE DEF total
  <2> QED BY <2>1, <2>2, <2>3, <2>4 DEF SplitsOff
<1> HIDE DEF total
<1> QED BY <1>1, <1>2, SumUnique

\* What the library's Max is of a finite nonempty set of naturals.
LEMMA MaxOfFinite ==
  ASSUME NEW T, IsFiniteSet(T), T \subseteq Nat, T # {}
  PROVE  Max(T) \in T /\ Max(T) \in Nat /\ \A k \in T : k <= Max(T)
<1> DEFINE Good == {s \in SUBSET T : s # {} => \E m \in s : \A k \in s : k <= m}
<1>1. ASSUME NEW s \in SUBSET T, \A x \in s : s \ {x} \in Good PROVE s \in Good
  <2>1. ASSUME NEW x \in s PROVE \E m \in s : \A k \in s : k <= m
    <3>1. CASE s \ {x} = {}
      <4>1. s = {x} /\ x \in Nat
        BY <3>1
      <4> QED BY <4>1
    <3>2. CASE s \ {x} # {}
      <4>1. PICK m \in s \ {x} : \A k \in s \ {x} : k <= m
        BY <1>1, <3>2
      <4>2. x \in Nat /\ m \in Nat /\ \A k \in s : k \in Nat
        OBVIOUS
      <4>3. CASE x <= m
        BY <4>1, <4>3
      <4>4. CASE ~(x <= m)
        <5>1. \A k \in s : k <= x
          BY <4>1, <4>2, <4>4
        <5> QED BY <5>1
      <4> QED BY <4>3, <4>4
    <3> QED BY <3>1, <3>2
  <2> QED BY <2>1
<1> HIDE DEF Good
<1>2. GrowsOver(Good, T)
  BY <1>1 DEF GrowsOver
<1>3. SUBSET T \subseteq Good
  BY <1>2, InductionOver
<1>4. \E m \in T : \A k \in T : k <= m
  BY <1>3 DEF Good
<1>5. PICK m \in T : \A k \in T : k <= m
  BY <1>4
<1>6. Max(T) = m
  BY <1>5, MaxIs
<1> QED BY <1>5, <1>6

-----------------------------------------------------------------------------
\* Disjoint sets add up.
LEMMA DisjointSizes ==
  ASSUME NEW S, IsFiniteSet(S), NEW T, IsFiniteSet(T), S \cap T = {}
  PROVE  /\ IsFiniteSet(S \cup T)
         /\ Cardinality(S \cup T) = Cardinality(S) + Cardinality(T)
         /\ Cardinality(S) \in Nat /\ Cardinality(T) \in Nat
<1>1. /\ IsFiniteSet(S \cup T)
      /\ Cardinality(S \cup T) = Cardinality(S) + Cardinality(T) - Cardinality(S \cap T)
  BY FS_Union
<1>2. Cardinality(S \cap T) = 0
  BY FS_EmptySet
<1>3. Cardinality(S) \in Nat /\ Cardinality(T) \in Nat
  BY FS_CardinalityType
<1> QED BY <1>1, <1>2, <1>3

\* No pair of an element with itself, and each pair both ways.
Mutual(T) == \A a, b : <<a, b>> \in T => a # b /\ <<b, a>> \in T

\* A set of pairs of numbers, each both ways, has twice as many as ascend.
LEMMA TwiceAscending ==
  ASSUME NEW n \in Nat, NEW T, T \subseteq (1..n) \X (1..n), Mutual(T),
         NEW low, low = {e \in T : e[1] < e[2]}
  PROVE  /\ IsFiniteSet(low) /\ Cardinality(low) \in Nat
         /\ IsFiniteSet(T) /\ Cardinality(T) = 2 * Cardinality(low)
<1> DEFINE high == {e \in T : e[2] < e[1]}
           swap == [e \in low |-> <<e[2], e[1]>>]
<1>1. IsFiniteSet(T)
  <2>1. IsFiniteSet(1..n)
    BY UpToSize
  <2>2. IsFiniteSet((1..n) \X (1..n))
    BY <2>1, FS_Product
  <2> QED BY <2>2, FS_Subset
<1>2. /\ IsFiniteSet(low) /\ Cardinality(low) \in Nat
      /\ IsFiniteSet(high) /\ Cardinality(high) \in Nat
  BY <1>1, FS_Subset, FS_CardinalityType
<1>3. \A e \in T : e = <<e[1], e[2]>> /\ e[1] \in 1..n /\ e[2] \in 1..n /\ e[1] # e[2]
  BY DEF Mutual
<1>4. low \cup high = T /\ low \cap high = {}
  BY <1>3
<1>5. swap \in Bijection(low, high)
  <2>1. ASSUME NEW e \in low PROVE swap[e] \in high
    BY <1>3 DEF Mutual
  <2>2. ASSUME NEW e \in low, NEW f \in low, swap[e] = swap[f] PROVE e = f
    BY <1>3, <2>2
  <2>3. ASSUME NEW e \in high PROVE \E f \in low : swap[f] = e
    <3>1. <<e[2], e[1]>> \in low /\ e = <<e[1], e[2]>>
      BY <1>3 DEF Mutual
    <3> QED BY <3>1
  <2>4. swap \in [low -> high] /\ DOMAIN swap = low
    BY <2>1
  <2> HIDE DEF swap, high
  <2> QED BY <2>2, <2>3, <2>4 DEF Bijection, Injection, IsInjective, Surjection
<1>6. ExistsBijection(low, high)
  BY <1>5 DEF ExistsBijection
<1> HIDE DEF high, swap
<1>7. Cardinality(high) = Cardinality(low)
  BY <1>2, <1>6, FS_Bijection
<1>8. Cardinality(low \cup high) = Cardinality(low) + Cardinality(high)
  BY <1>2, <1>4, DisjointSizes
<1>9. Cardinality(T) = 2 * Cardinality(low)
  <2>1. T = low \cup high
    BY <1>4
  <2>2. Cardinality(T) = Cardinality(low \cup high)
    BY <2>1, Zenon
  <2> QED BY <1>2, <1>7, <1>8, <2>2
<1> QED BY <1>1, <1>2, <1>9

\* The ordered pairs of two different elements.
LEMMA OffDiagonal ==
  ASSUME NEW W, IsFiniteSet(W), NEW off, off = {e \in W \X W : e[1] # e[2]}
  PROVE  /\ IsFiniteSet(off)
         /\ Cardinality(off) + Cardinality(W) = Cardinality(W) * Cardinality(W)
         /\ Cardinality(off) \in Nat
<1> DEFINE same == {e \in W \X W : e[1] = e[2]}
           twin == [w \in W |-> <<w, w>>]
<1>1. IsFiniteSet(W \X W) /\ Cardinality(W \X W) = Cardinality(W) * Cardinality(W)
  BY FS_Product
<1>2. IsFiniteSet(off) /\ IsFiniteSet(same)
  BY <1>1, FS_Subset
<1>3. off \cup same = W \X W /\ off \cap same = {}
  OBVIOUS
<1>4. twin \in Bijection(W, same)
  <2>1. \A x \in W : twin[x] = <<x, x>> /\ twin[x] \in same
    OBVIOUS
  <2>2. \A e \in same : \E x \in W : twin[x] = e
    OBVIOUS
  <2>3. twin \in [W -> same] /\ DOMAIN twin = W
    OBVIOUS
  <2> HIDE DEF same, twin
  <2>4. \A x, y \in W : twin[x] = twin[y] => x = y
    BY <2>1
  <2> QED BY <2>2, <2>3, <2>4 DEF Bijection, Injection, IsInjective, Surjection
<1>5. ExistsBijection(W, same)
  BY <1>4 DEF ExistsBijection
<1> HIDE DEF same, twin
<1>6. Cardinality(same) = Cardinality(W)
  BY <1>5, FS_Bijection
<1>7. /\ Cardinality(off \cup same) = Cardinality(off) + Cardinality(same)
      /\ Cardinality(off) \in Nat
  BY <1>2, <1>3, DisjointSizes
<1> QED BY <1>1, <1>2, <1>3, <1>6, <1>7

\* With w writers and m other readers: off pairs of two writers, either way,
\* and low clashes.
PairCounts(w, m, low, off) ==
  off + w = w * w /\ 2 * low = off + w * m + m * w

\* With t of the writers readers too, the code's formula counts the clashes and,
\* for each of the t, once per writer.
LEMMA PairArithmetic ==
  ASSUME NEW w \in Nat, NEW t \in Nat, NEW m \in Nat, NEW low \in Nat, NEW off \in Nat,
         PairCounts(w, m, low, off)
  PROVE  (w * (w - 1)) \div 2 + w * (m + t) = low + w * t
<1>1. w * (w - 1) = w * w - w /\ w * (m + t) = w * m + w * t /\ m * w = w * m
  OBVIOUS
<1>2. w * m \in Nat /\ w * t \in Nat /\ w * w \in Nat
  OBVIOUS
<1>3. ASSUME NEW x \in Nat, NEW y \in Nat, NEW z \in Nat,
             2 * low = x + y + y
      PROVE  x \div 2 + (y + z) = low + z
  BY <1>3
<1>4. w * (w - 1) = off /\ 2 * low = off + w * m + w * m
  BY <1>1, <1>2 DEF PairCounts
<1>5. off \div 2 + (w * m + w * t) = low + w * t
  BY <1>2, <1>3, <1>4
<1> QED BY <1>1, <1>4, <1>5

\* Whom a key brings into conflict, by writers and readers.
Clash(W, R, a, b) ==
  \/ a \in W /\ b \in W
  \/ a \in W /\ b \in R
  \/ a \in R /\ b \in W

\* The code's formula counts low, and who is both a writer and a reader once
\* per writer.
FormulaCounts(W, R, low) ==
  (Cardinality(W) * (Cardinality(W) - 1)) \div 2 + Cardinality(W) * Cardinality(R)
    = Cardinality(low) + Cardinality(W) * Cardinality(W \cap R)

\* The two counts of conflicts on one key agree.
LEMMA ClashesCounted ==
  ASSUME NEW n \in Nat, NEW W, W \subseteq 1..n, NEW R, R \subseteq 1..n,
         NEW low, low = {e \in (1..n) \X (1..n) : e[1] < e[2] /\ Clash(W, R, e[1], e[2])}
  PROVE  FormulaCounts(W, R, low)
<1> DEFINE T    == {e \in (1..n) \X (1..n) : e[1] # e[2] /\ Clash(W, R, e[1], e[2])}
           M    == R \ W
           off  == {e \in W \X W : e[1] # e[2]}
           w    == Cardinality(W)
           m    == Cardinality(M)
           both == Cardinality(W \cap R)
<1>1. /\ IsFiniteSet(W) /\ IsFiniteSet(M) /\ IsFiniteSet(R) /\ IsFiniteSet(W \cap R)
      /\ w \in Nat /\ m \in Nat /\ both \in Nat
  <2>1. IsFiniteSet(1..n)
    BY UpToSize
  <2>2. \A S : S \subseteq 1..n => IsFiniteSet(S) /\ Cardinality(S) \in Nat
    BY <2>1, FS_Subset, FS_CardinalityType
  <2> QED BY <2>2
<1>2. IsFiniteSet(off) /\ Cardinality(off) \in Nat /\ Cardinality(off) + w = w * w
  BY <1>1, OffDiagonal
<1>3. /\ IsFiniteSet(W \X M) /\ Cardinality(W \X M) = w * m
      /\ IsFiniteSet(M \X W) /\ Cardinality(M \X W) = m * w
  BY <1>1, FS_Product
<1>4. Mutual(T) /\ T \subseteq (1..n) \X (1..n)
  BY DEF Mutual, Clash
<1>5. low = {e \in T : e[1] < e[2]}
  OBVIOUS
<1>6. /\ T = (off \cup (W \X M)) \cup (M \X W)
      /\ off \cap (W \X M) = {}
      /\ (off \cup (W \X M)) \cap (M \X W) = {}
  BY DEF Clash
<1>7. Cardinality(R) = m + both
  <2>1. M \cup (W \cap R) = R /\ M \cap (W \cap R) = {}
    OBVIOUS
  <2> HIDE DEF M
  <2> QED BY <1>1, <2>1, DisjointSizes
<1> HIDE DEF T, M, off
<1>8. Cardinality(low) \in Nat /\ Cardinality(T) = 2 * Cardinality(low)
  BY <1>4, <1>5, TwiceAscending
<1>9. /\ IsFiniteSet(off \cup (W \X M))
      /\ Cardinality(off \cup (W \X M)) = Cardinality(off) + Cardinality(W \X M)
  BY <1>2, <1>3, <1>6, DisjointSizes
<1>10. Cardinality(T) = Cardinality(off \cup (W \X M)) + Cardinality(M \X W)
  BY <1>3, <1>6, <1>9, DisjointSizes
<1> HIDE DEF w, m, both
<1>11. 2 * Cardinality(low) = Cardinality(off) + w * m + m * w
  BY <1>3, <1>8, <1>9, <1>10
<1>12. PairCounts(w, m, Cardinality(low), Cardinality(off))
  BY <1>2, <1>11 DEF PairCounts
<1>13. (w * (w - 1)) \div 2 + w * (m + both) = Cardinality(low) + w * both
  BY <1>1, <1>2, <1>8, <1>12, PairArithmetic
<1> QED BY <1>7, <1>13 DEF w, both, FormulaCounts

-----------------------------------------------------------------------------
\* f takes the members of S to members of R.
Takes(f, S, R) == f \in [S -> R]

\* What a list looked at one by one is.
LEMMA MappedShape ==
  ASSUME NEW S, NEW R, NEW f, Takes(f, S, R), NEW list \in Seq(S)
  PROVE  /\ Mapped(f, list) \in Seq(R) /\ Len(Mapped(f, list)) = Len(list)
         /\ \A i \in 1..Len(list) : Mapped(f, list)[i] = f[list[i]]
<1>1. /\ Len(list) \in Nat /\ DOMAIN list = 1..Len(list)
      /\ \A i \in 1..Len(list) : list[i] \in S
  BY LenProperties, ElementOfSeq
<1>2. PICK g : g = Mapped(f, list)
  OBVIOUS
<1>3. g = [i \in 1..Len(list) |-> f[list[i]]]
  BY <1>1, <1>2 DEF Mapped
<1>4. \A i \in 1..Len(list) : g[i] = f[list[i]] /\ g[i] \in R
  BY <1>1, <1>3 DEF Takes
<1>5. g = [i \in 1..Len(list) |-> g[i]]
  BY <1>3
<1>6. g \in Seq(R) /\ Len(g) = Len(list)
  BY <1>1, <1>4, <1>5, FunctionIsList
<1> QED BY <1>2, <1>4, <1>6

\* One element more at the end.
LEMMA MappedAppend ==
  ASSUME NEW S, NEW R, NEW f, Takes(f, S, R), NEW list \in Seq(S), NEW e \in S
  PROVE  Mapped(f, Append(list, e)) = Append(Mapped(f, list), f[e])
<1>1. PICK m, n, longer : m = Mapped(f, list) /\ n = Len(list) /\ longer = Append(list, e)
  OBVIOUS
<1>2. n \in Nat /\ f[e] \in R
  BY <1>1, LenProperties DEF Takes
<1>3. /\ longer \in Seq(S) /\ Len(longer) = n + 1
      /\ \A i \in 1..n : longer[i] = list[i]
      /\ longer[n + 1] = e
  BY <1>1, AppendProperties
<1>4. m \in Seq(R) /\ Len(m) = n /\ \A i \in 1..n : m[i] = f[list[i]]
  <2>1. /\ Mapped(f, list) \in Seq(R) /\ Len(Mapped(f, list)) = Len(list)
        /\ \A i \in 1..Len(list) : Mapped(f, list)[i] = f[list[i]]
    BY MappedShape
  <2> QED BY <1>1, <2>1
<1>5. PICK a : a = Append(m, f[e])
  OBVIOUS
<1>6. a \in Seq(R) /\ Len(a) = n + 1 /\ a[n + 1] = f[e] /\ \A i \in 1..n : a[i] = m[i]
  BY <1>2, <1>4, <1>5, AppendProperties
<1>7. PICK k : k = Mapped(f, longer)
  OBVIOUS
<1>8. k \in Seq(R) /\ Len(k) = n + 1 /\ \A i \in 1..(n + 1) : k[i] = f[longer[i]]
  <2>1. longer \in Seq(S)
    BY <1>3
  <2>2. /\ Mapped(f, longer) \in Seq(R) /\ Len(Mapped(f, longer)) = Len(longer)
        /\ \A i \in 1..Len(longer) : Mapped(f, longer)[i] = f[longer[i]]
    BY <2>1, MappedShape
  <2> QED BY <1>3, <1>7, <2>2
<1>9. \A i \in 1..(n + 1) : k[i] = a[i]
  <2> TAKE i \in 1..(n + 1)
  <2>1. k[i] = f[longer[i]]
    BY <1>8
  <2>2. CASE i \in 1..n
    <3>1. longer[i] = list[i] /\ a[i] = m[i] /\ m[i] = f[list[i]]
      BY <1>3, <1>4, <1>6, <2>2
    <3> QED BY <2>1, <3>1
  <2>3. CASE i = n + 1
    <3>1. longer[i] = e /\ a[i] = f[e]
      BY <1>3, <1>6, <2>3
    <3> QED BY <2>1, <3>1
  <2> QED BY <1>2, <2>2, <2>3
<1>10. k = a
  BY <1>6, <1>8, <1>9, SeqEqual
<1> QED BY <1>1, <1>5, <1>7, <1>10

\* A list with one element in front.
LEMMA ConsShape ==
  ASSUME NEW S, NEW e \in S, NEW list \in Seq(S)
  PROVE  /\ Cons(e, list) \in Seq(S) /\ Len(Cons(e, list)) = Len(list) + 1
         /\ Cons(e, list)[1] = e
         /\ \A i \in 1..Len(list) : Cons(e, list)[i + 1] = list[i]
<1>1. PICK s, all, n : s = <<e>> /\ all = Cons(e, list) /\ n = Len(list)
  OBVIOUS
<1>2. s \in Seq(S) /\ Len(s) = 1 /\ s[1] = e /\ n \in Nat
  BY <1>1, LenProperties
<1>3. /\ all \in Seq(S) /\ Len(all) = Len(s) + Len(list)
      /\ \A i \in 1..(Len(s) + Len(list)) :
           all[i] = IF i <= Len(s) THEN s[i] ELSE list[i - Len(s)]
  <2>1. all = s \o list
    BY <1>1 DEF Cons
  <2> QED BY <1>2, <2>1, ConcatProperties
<1>4. Len(all) = n + 1 /\ \A i \in 1..(n + 1) : all[i] = IF i <= 1 THEN s[i] ELSE list[i - 1]
  BY <1>1, <1>2, <1>3
<1>5. \A i \in 1..n : all[i + 1] = list[i]
  <2>1. \A i \in 1..n : i + 1 \in 1..(n + 1) /\ ~(i + 1 <= 1) /\ (i + 1) - 1 = i
    BY <1>2
  <2> QED BY <1>4, <2>1
<1>6. all[1] = e
  BY <1>2, <1>4
<1> QED BY <1>1, <1>3, <1>4, <1>5, <1>6

\* There is a next element in what is left of a list, and it goes behind those
\* taken.
OneMore(S, done, rest) ==
  \E e \in S, more \in Seq(S) :
    /\ rest = Cons(e, more) /\ Len(rest) = Len(more) + 1
    /\ done \o rest = Append(done, e) \o more

\* A list that is not empty has one.
LEMMA TakeNext ==
  ASSUME NEW S, NEW done \in Seq(S), NEW rest \in Seq(S), Len(rest) > 0
  PROVE  OneMore(S, done, rest)
<1>1. rest # <<>>
  BY EmptySeq
<1>2. PICK e \in S, more \in Seq(S) :
        /\ e = Head(rest) /\ more = Tail(rest) /\ Len(more) = Len(rest) - 1
        /\ \A i \in 1..Len(more) : more[i] = rest[i + 1]
  <2>1. Head(rest) \in S /\ Tail(rest) \in Seq(S)
    BY <1>1, HeadTailProperties
  <2>2. /\ Len(Tail(rest)) = Len(rest) - 1
        /\ \A i \in 1..Len(Tail(rest)) : Tail(rest)[i] = rest[i + 1]
    BY <1>1, HeadTailProperties
  <2> QED BY <2>1, <2>2
<1>3. e = rest[1]
  BY <1>1, <1>2
<1>4. PICK s : s = <<e>>
  OBVIOUS
<1>5. s \in Seq(S) /\ Cons(e, more) = s \o more
  BY <1>4 DEF Cons
<1>6. /\ s \o more \in Seq(S) /\ Len(s \o more) = Len(more) + 1
      /\ (s \o more)[1] = e /\ \A i \in 1..Len(more) : (s \o more)[i + 1] = more[i]
  <2>1. /\ Cons(e, more) \in Seq(S) /\ Len(Cons(e, more)) = Len(more) + 1
        /\ Cons(e, more)[1] = e /\ \A i \in 1..Len(more) : Cons(e, more)[i + 1] = more[i]
    BY ConsShape
  <2> QED BY <1>5, <2>1
<1>7. Len(more) \in Nat /\ Len(rest) \in Nat
  BY LenProperties
<1>8. \A i \in 1..Len(rest) : rest[i] = (s \o more)[i]
  <2> SUFFICES ASSUME NEW i \in 1..Len(rest) PROVE rest[i] = (s \o more)[i]
    OBVIOUS
  <2>1. CASE i = 1
    BY <1>3, <1>6, <2>1
  <2>2. CASE i # 1
    <3>1. PICK j : j = i - 1
      OBVIOUS
    <3>2. j \in 1..Len(more) /\ i = j + 1
      BY <1>2, <1>7, <2>2, <3>1
    <3> QED BY <1>2, <1>6, <3>2
  <2> QED BY <2>1, <2>2
<1>9. rest = s \o more
  BY <1>2, <1>6, <1>7, <1>8, SeqEqual
<1>10. done \o (s \o more) = (done \o s) \o more
  <2>1. (done \o s) \o more = done \o (s \o more)
    BY <1>5, ConcatAssociative
  <2> QED BY <2>1
<1>11. Append(done, e) = done \o s
  BY <1>4, AppendIsConcat
<1>12. /\ rest = Cons(e, more) /\ Len(rest) = Len(more) + 1
       /\ done \o rest = Append(done, e) \o more
  <2>1. Len(rest) = Len(more) + 1
    BY <1>2, <1>7
  <2> QED BY <1>4, <1>9, <1>10, <1>11, <2>1 DEF Cons
<1> QED BY <1>12 DEF OneMore

-----------------------------------------------------------------------------
\* Lists made of the elements of a list, one after the other.
Joined(f, list) == FlattenSeq(Mapped(f, list))

\* Nothing is joined to nothing.
LEMMA JoinedEmpty ==
  ASSUME NEW f
  PROVE  Joined(f, <<>>) = <<>>
<1>1. Mapped(f, <<>>) = <<>>
  BY DEF Mapped
<1> QED BY <1>1 DEF Joined, FlattenSeq

\* One list more at the end.
LEMMA JoinedAppend ==
  ASSUME NEW S, NEW T, NEW f, Takes(f, S, Seq(T)), NEW list \in Seq(S), NEW e \in S
  PROVE  /\ Joined(f, list) \in Seq(T)
         /\ Joined(f, Append(list, e)) = Joined(f, list) \o f[e]
<1>1. Mapped(f, list) \in Seq(Seq(T))
  BY MappedShape
<1>2. Mapped(f, Append(list, e)) = Append(Mapped(f, list), f[e])
  BY MappedAppend
<1>3. f[e] \in Seq(T)
  BY DEF Takes
<1> QED BY <1>1, <1>2, <1>3, FlattenAppend DEF Joined

\* One list more in front.
LEMMA JoinedCons ==
  ASSUME NEW S, NEW T, NEW f, Takes(f, S, Seq(T)), NEW list \in Seq(S), NEW e \in S
  PROVE  Joined(f, Cons(e, list)) = f[e] \o Joined(f, list)
<1>1. PICK n, all : n = Len(list) /\ all = Cons(e, list)
  OBVIOUS
<1>2. n \in Nat
  BY <1>1, LenProperties
<1>3. /\ all \in Seq(S) /\ Len(all) = n + 1 /\ all[1] = e
      /\ \A i \in 1..n : all[i + 1] = list[i]
  <2>1. /\ Cons(e, list) \in Seq(S) /\ Len(Cons(e, list)) = Len(list) + 1
        /\ Cons(e, list)[1] = e /\ \A i \in 1..Len(list) : Cons(e, list)[i + 1] = list[i]
    BY ConsShape
  <2> QED BY <1>1, <2>1
<1>4. PICK one, two : one = Mapped(f, list) /\ two = Mapped(f, all)
  OBVIOUS
<1>5. one \in Seq(Seq(T)) /\ Len(one) = n /\ \A i \in 1..n : one[i] = f[list[i]]
  <2>1. /\ Mapped(f, list) \in Seq(Seq(T)) /\ Len(Mapped(f, list)) = Len(list)
        /\ \A i \in 1..Len(list) : Mapped(f, list)[i] = f[list[i]]
    BY MappedShape
  <2> QED BY <1>1, <1>4, <2>1
<1>6. two \in Seq(Seq(T)) /\ Len(two) = n + 1 /\ \A i \in 1..(n + 1) : two[i] = f[all[i]]
  <2>1. all \in Seq(S)
    BY <1>3
  <2>2. /\ Mapped(f, all) \in Seq(Seq(T)) /\ Len(Mapped(f, all)) = Len(all)
        /\ \A i \in 1..Len(all) : Mapped(f, all)[i] = f[all[i]]
    BY <2>1, MappedShape
  <2> QED BY <1>3, <1>4, <2>2
<1>7. two[1] = f[e] /\ \A i \in 1..n : two[i + 1] = one[i]
  <2>1. 1 \in 1..(n + 1) /\ \A i \in 1..n : i + 1 \in 1..(n + 1)
    BY <1>2
  <2>2. two[1] = f[e]
    BY <1>3, <1>6, <2>1
  <2>3. ASSUME NEW i \in 1..n PROVE two[i + 1] = one[i]
    <3>1. PICK j : j = i + 1
      OBVIOUS
    <3>2. two[j] = f[all[j]]
      BY <1>6, <2>1, <3>1
    <3>3. all[j] = list[i] /\ one[i] = f[list[i]]
      BY <1>3, <1>5, <3>1
    <3> QED BY <3>1, <3>2, <3>3
  <2> QED BY <2>2, <2>3
<1>8. PICK a : Flattens(a, T, one)
  BY <1>5, FlattenSteps
<1>9. PICK b : Flattens(b, T, two)
  BY <1>6, FlattenSteps
<1>10. /\ \A i \in 0..n : a[i] \in Seq(T)
       /\ a[0] = <<>> /\ (\A i \in 1..n : a[i] = a[i - 1] \o one[i]) /\ FlattenSeq(one) = a[n]
  BY <1>5, <1>8 DEF Flattens
<1>11. /\ b[0] = <<>> /\ (\A i \in 1..(n + 1) : b[i] = b[i - 1] \o two[i])
       /\ FlattenSeq(two) = b[n + 1]
  BY <1>6, <1>9 DEF Flattens
<1>12. f[e] \in Seq(T) /\ \A i \in 1..n : one[i] \in Seq(T)
  <2>1. \A i \in 1..n : one[i] \in Seq(T)
    BY <1>5, ElementOfSeq
  <2> QED BY <2>1 DEF Takes
<1> DEFINE Good == {i \in 0..n : b[i + 1] = f[e] \o a[i]}
<1>13. 0 \in Good
  <2>1. b[1] = b[0] \o two[1]
    <3>1. 1 \in 1..(n + 1) /\ 1 - 1 = 0
      BY <1>2
    <3> QED BY <1>11, <3>1
  <2>2. <<>> \o f[e] = f[e] /\ f[e] \o <<>> = f[e]
    BY <1>12, ConcatEmptySeq
  <2>3. b[0 + 1] = f[e] \o a[0] /\ 0 \in 0..n
    BY <1>2, <1>7, <1>10, <1>11, <2>1, <2>2
  <2> QED BY <2>3
<1>14. ASSUME NEW i \in 0..(n - 1), i \in Good PROVE i + 1 \in Good
  <2>1. PICK j : j = i + 1
    OBVIOUS
  <2>2. j \in 1..n /\ j \in 0..n /\ j + 1 \in 1..(n + 1) /\ j - 1 = i /\ (j + 1) - 1 = j /\ i \in 0..n
    BY <1>2, <2>1
  <2>3. b[j] = f[e] \o a[i]
    BY <1>14, <2>1
  <2>4. b[j + 1] = b[j] \o one[j]
    BY <1>7, <1>11, <2>2
  <2>5. a[j] = a[i] \o one[j]
    BY <1>10, <2>2
  <2>6. (f[e] \o a[i]) \o one[j] = f[e] \o (a[i] \o one[j])
    <3>1. a[i] \in Seq(T) /\ one[j] \in Seq(T)
      BY <1>10, <1>12, <2>2
    <3>2. f[e] \in Seq(T)
      BY <1>12
    <3>3. PICK x, y, z : x = f[e] /\ y = a[i] /\ z = one[j]
      OBVIOUS
    <3>4. x \in Seq(T) /\ y \in Seq(T) /\ z \in Seq(T)
      BY <3>1, <3>2, <3>3
    <3>5. (x \o y) \o z = x \o (y \o z)
      BY <3>4, ConcatAssociative, SMTT(30)
    <3> QED BY <3>3, <3>5
  <2>7. b[j + 1] = f[e] \o a[j]
    BY <2>3, <2>4, <2>5, <2>6
  <2> QED BY <2>1, <2>2, <2>7
<1> HIDE DEF Good
<1>15. Inductive(Good, n)
  BY <1>13, <1>14 DEF Inductive
<1>16. n \in Good
  <2>1. 0..n \subseteq Good
    BY <1>2, <1>15, InductionTo
  <2> QED BY <1>2, <2>1
<1>17. b[n + 1] = f[e] \o a[n]
  BY <1>16 DEF Good
<1> QED BY <1>1, <1>4, <1>10, <1>11, <1>17 DEF Joined

\* Of lists that are not empty there are no more than elements in all.
LEMMA JoinedLength ==
  ASSUME NEW S, NEW T, NEW f, Takes(f, S, Seq(T)), \A e \in S : Len(f[e]) > 0,
         NEW list \in Seq(S)
  PROVE  Joined(f, list) \in Seq(T) /\ Len(list) <= Len(Joined(f, list))
<1>1. PICK n, one : n = Len(list) /\ one = Mapped(f, list)
  OBVIOUS
<1>2. n \in Nat
  BY <1>1, LenProperties
<1>3. one \in Seq(Seq(T)) /\ Len(one) = n /\ \A i \in 1..n : one[i] = f[list[i]]
  <2>1. /\ Mapped(f, list) \in Seq(Seq(T)) /\ Len(Mapped(f, list)) = Len(list)
        /\ \A i \in 1..Len(list) : Mapped(f, list)[i] = f[list[i]]
    BY MappedShape
  <2> QED BY <1>1, <2>1
<1>4. PICK a : Flattens(a, T, one)
  BY <1>3, FlattenSteps
<1>5. /\ \A i \in 0..n : a[i] \in Seq(T)
      /\ a[0] = <<>> /\ (\A i \in 1..n : a[i] = a[i - 1] \o one[i]) /\ FlattenSeq(one) = a[n]
  BY <1>3, <1>4 DEF Flattens
<1>6. \A i \in 1..n : one[i] \in Seq(T) /\ Len(one[i]) > 0
  <2>1. \A i \in 1..n : list[i] \in S
    BY <1>1, ElementOfSeq
  <2>2. \A i \in 1..n : f[list[i]] \in Seq(T)
    BY <2>1 DEF Takes
  <2> QED BY <1>3, <2>1, <2>2
<1> DEFINE Good == {i \in 0..n : i <= Len(a[i])}
<1>7. 0 \in Good
  <2>1. Len(a[0]) = 0
    BY <1>5, EmptySeq
  <2> QED BY <1>2, <2>1
<1>8. ASSUME NEW i \in 0..(n - 1), i \in Good PROVE i + 1 \in Good
  <2>1. PICK j : j = i + 1
    OBVIOUS
  <2>2. j \in 1..n /\ j \in 0..n /\ j - 1 = i /\ i \in 0..n /\ i \in Nat
    BY <1>2, <2>1
  <2>3. a[j] = a[i] \o one[j] /\ a[i] \in Seq(T) /\ one[j] \in Seq(T) /\ Len(one[j]) > 0
    BY <1>5, <1>6, <2>2
  <2>4. Len(a[j]) = Len(a[i]) + Len(one[j]) /\ Len(a[i]) \in Nat /\ Len(one[j]) \in Nat
    <3>1. PICK x, y : x = a[i] /\ y = one[j]
      OBVIOUS
    <3>2. x \in Seq(T) /\ y \in Seq(T)
      BY <2>3, <3>1
    <3>3. Len(x \o y) = Len(x) + Len(y) /\ Len(x) \in Nat /\ Len(y) \in Nat
      BY <3>2, ConcatProperties, LenProperties
    <3> QED BY <2>3, <3>1, <3>3
  <2>5. i <= Len(a[i])
    BY <1>8
  <2>6. j <= Len(a[j])
    <3>1. PICK p, q, r : p = Len(a[i]) /\ q = Len(one[j]) /\ r = Len(a[j])
      OBVIOUS
    <3>2. p \in Nat /\ q \in Nat /\ q > 0 /\ r = p + q /\ i <= p /\ i \in Nat
      BY <2>2, <2>3, <2>4, <2>5, <3>1
    <3>3. j <= r
      BY <2>1, <3>2
    <3> QED BY <3>1, <3>3
  <2> QED BY <2>1, <2>2, <2>6
<1> HIDE DEF Good
<1>9. Inductive(Good, n)
  BY <1>7, <1>8 DEF Inductive
<1>10. n \in Good /\ n \in 0..n
  <2>1. 0..n \subseteq Good
    BY <1>2, <1>9, InductionTo
  <2> QED BY <1>2, <2>1
<1>11. n <= Len(a[n]) /\ a[n] \in Seq(T)
  BY <1>5, <1>10 DEF Good
<1> QED BY <1>1, <1>5, <1>11 DEF Joined

\* A list in front of another one has its elements.
LEMMA SameInFront ==
  ASSUME NEW S, NEW s \in Seq(S), NEW t \in Seq(S), IsPrefix(s, t)
  PROVE  /\ Len(s) <= Len(t) /\ \A i \in 1..Len(s) : s[i] = t[i]
         /\ s # t => Len(s) < Len(t)
<1>1. PICK m, n : m = Len(s) /\ n = Len(t)
  OBVIOUS
<1>2. m \in Nat /\ n \in Nat /\ m <= n /\ SubSeq(s, 1, m) = SubSeq(t, 1, m)
  BY <1>1, LenProperties DEF IsPrefix
<1>3. 1 \in Int /\ m \in Int
  BY <1>2
<1>4. \A i \in 1..m : s[i] \in S /\ t[i] \in S
  BY <1>1, <1>2, ElementOfSeq
<1>5. \A i \in 1..(m - 1 + 1) : SubSeq(s, 1, m)[i] = s[1 + i - 1]
  BY <1>3, <1>4, SubSeqProperties
<1>6. \A i \in 1..(m - 1 + 1) : SubSeq(t, 1, m)[i] = t[1 + i - 1]
  BY <1>3, <1>4, SubSeqProperties
<1>7. \A i \in 1..m : s[i] = t[i]
  <2>1. m - 1 + 1 = m /\ \A i \in 1..m : 1 + i - 1 = i
    BY <1>2
  <2> QED BY <1>2, <1>5, <1>6, <2>1
<1>8. m = n => s = t
  BY <1>1, <1>2, <1>7, SeqEqual
<1> QED BY <1>1, <1>2, <1>7, <1>8

\* Two functions of subsets that begin alike and agree on a set whenever they
\* agree on it without one of its elements agree on all of it.
LEMMA SubsetsAgree ==
  ASSUME NEW D, IsFiniteSet(D), NEW one, NEW other, one[{}] = other[{}],
         \A s \in SUBSET D : s # {} =>
           \E x \in s : one[s \ {x}] = other[s \ {x}] => one[s] = other[s]
  PROVE  one[D] = other[D]
<1> DEFINE Good == {s \in SUBSET D : one[s] = other[s]}
<1>1. ASSUME NEW s \in SUBSET D, \A x \in s : s \ {x} \in Good PROVE s \in Good
  <2>1. CASE s = {}
    BY <2>1
  <2>2. CASE s # {}
    <3>1. PICK x \in s : one[s \ {x}] = other[s \ {x}] => one[s] = other[s]
      BY <2>2
    <3> QED BY <1>1, <3>1
  <2> QED BY <2>1, <2>2
<1> HIDE DEF Good
<1>2. GrowsOver(Good, D)
  BY <1>1 DEF GrowsOver
<1>3. SUBSET D \subseteq Good
  BY <1>2, InductionOver
<1> QED BY <1>3 DEF Good

\* The position that the fold takes first is one of those there are.
LEMMA LastPosition ==
  ASSUME NEW n \in Nat
  PROVE  /\ IsFiniteSet(1..n)
         /\ \A s \in SUBSET (1..n) : s # {} => Max(s) \in s
<1>1. IsFiniteSet(1..n)
  BY FS_Interval
<1>2. ASSUME NEW s \in SUBSET (1..n), s # {} PROVE Max(s) \in s
  <2>1. IsFiniteSet(s)
    BY <1>1, FS_Subset
  <2>2. s \subseteq Nat
    OBVIOUS
  <2> QED BY <1>2, <2>1, <2>2, MaxOfFinite
<1> QED BY <1>1, <1>2
=============================================================================
