--------------------------- MODULE MatchingProofs ---------------------------
(***************************************************************************)
(* Proofs about the match state and the final pass, for any two exports,   *)
(* any names and ratios and any number of rows.                            *)
(***************************************************************************)
EXTENDS Matching, FiniteSetTheorems, SequenceTheorems, NaturalsInduction, WellFoundedInduction, TLAPS

-----------------------------------------------------------------------------
(* Natural numbers. *)

\* Every non-empty set of natural numbers has a least element, and induction with a set for the predicate.
LEMMA LeastNatural == ASSUME NEW S \in SUBSET Nat, S # {}
                      PROVE  \E m \in S : \A x \in S : m <= x
<1> DEFINE Less == {p \in Nat \X Nat : p[1] < p[2]}
<1>1. IsWellFoundedOn(Less, Nat)
  BY NatLessThanWellFounded DEF OpToRel
<1> HIDE DEF Less
<1>2. PICK m \in S : \A y \in S : ~ (<<y, m>> \in Less)
  BY <1>1, WFMin
<1>3. ASSUME NEW x \in S PROVE m <= x
  <2>1. ~(<<x, m>> \in Less) /\ x \in Nat /\ m \in Nat
    BY <1>2
  <2> QED
    BY <2>1 DEF Less
<1> QED
  BY <1>2, <1>3

LEMMA SetInduction == ASSUME NEW S \in SUBSET Nat, 0 \in S, \A n \in S : n + 1 \in S
                      PROVE  \A n \in Nat : n \in S
<1>1. SUFFICES ASSUME Nat \ S # {} PROVE FALSE
  OBVIOUS
<1>2. PICK m \in Nat \ S : \A x \in Nat \ S : m <= x
  BY <1>1, LeastNatural
<1>3. m # 0 /\ m - 1 \in Nat /\ m - 1 + 1 = m
  BY <1>2
<1>4. m - 1 \in S
  BY <1>2, <1>3
<1> QED
  BY <1>2, <1>3, <1>4

LEMMA GreatestNatural == ASSUME NEW n \in Nat, NEW S \in SUBSET 1..n, S # {}
                         PROVE  \E m \in S : \A x \in S : x <= m
<1> DEFINE T == {n - x : x \in S}
<1>1. T \in SUBSET Nat /\ T # {}
  <2>1. \A x \in S : n - x \in Nat
    OBVIOUS
  <2> QED
    BY <2>1
<1>2. PICK t \in T : \A x \in T : t <= x
  BY <1>1, LeastNatural
<1>3. PICK m \in S : t = n - m
  OBVIOUS
<1>4. ASSUME NEW x \in S PROVE x <= m
  <2>1. n - m <= n - x
    BY <1>2, <1>3
  <2>2. m \in Nat /\ x \in Nat
    OBVIOUS
  <2> QED
    BY <2>1, <2>2
<1> QED
  BY <1>3, <1>4

LEMMA UptoNatural == ASSUME NEW n \in Nat PROVE IsFiniteSet(1..n) /\ Cardinality(1..n) = n
<1>1. IsFiniteSet(1..n) /\ Cardinality(1..n) = IF 1 > n THEN 0 ELSE n - 1 + 1
  BY FS_Interval
<1> QED
  BY <1>1

-----------------------------------------------------------------------------
(* The sort. *)

Stages == {"equal", "stripped", "sameName", "remaining", "best", "bestQuery", "bestRatio", "partial", "partialRatio",
           "small", "loopTop", "diffing", "callees", "related", "constants", "unit", "unitRows", "gaps", "affine",
           "loopBottom", "final", "unmatched", "done", "raised"}

Items == [ea1 : Main, n1 : Names, ea2 : Diff, n2 : Names, desc : Stages, ratio : Ratios]

Descending(s) == \A i, j \in 1..Len(s) : i < j => s[i].ratio >= s[j].ratio

\* Item j comes before item i or is it.
Before(s, j, i) == s[j].ratio > s[i].ratio \/ (s[j].ratio = s[i].ratio /\ j <= i)

LEMMA ItemRatios == ASSUME NEW s \in Seq(Items)
                    PROVE  /\ Len(s) \in Nat /\ DOMAIN s = 1..Len(s)
                           /\ \A i \in 1..Len(s) : s[i] \in Items /\ s[i].ratio \in Nat
<1>1. \A it \in Items : it.ratio \in Nat
  BY DEF Items, Ratios, One
<1> QED
  BY <1>1

LEMMA RankOrder ==
  ASSUME NEW s \in Seq(Items), NEW i \in 1..Len(s), NEW j \in 1..Len(s)
  PROVE  /\ Rank(s, i) \in 1..Len(s)
         /\ i # j /\ Before(s, j, i) => Rank(s, j) < Rank(s, i)
<1> DEFINE n == Len(s)
           Upto(k) == {l \in DOMAIN s : Before(s, l, k)}
<1>1. n \in Nat /\ DOMAIN s = 1..n /\ \A k \in 1..n : s[k].ratio \in Nat
  BY ItemRatios
<1>2. \A k : Rank(s, k) = Cardinality(Upto(k))
  BY DEF Rank, Before
<1>3. IsFiniteSet(1..n) /\ Cardinality(1..n) = n
  BY <1>1, UptoNatural
<1> HIDE DEF n
<1>4. ASSUME NEW k \in 1..n PROVE k \in Upto(k) /\ Upto(k) \in SUBSET (1..n)
  BY <1>1 DEF Before
<1>5. ASSUME NEW k \in 1..n
      PROVE  IsFiniteSet(Upto(k)) /\ Cardinality(Upto(k)) \in Nat /\ Cardinality(Upto(k)) <= n /\ Cardinality(Upto(k)) # 0
  <2> HIDE DEF Upto
  <2>1. IsFiniteSet(Upto(k)) /\ Cardinality(Upto(k)) <= n
    BY <1>3, <1>4, FS_Subset
  <2>2. Upto(k) # {}
    BY <1>4
  <2> QED
    BY <2>1, <2>2, FS_CardinalityType, FS_EmptySet
<1>6. i \in 1..n /\ j \in 1..n
  BY DEF n
<1>7. Rank(s, i) \in 1..n
  <2>1. Rank(s, i) \in Nat /\ Rank(s, i) <= n /\ Rank(s, i) # 0
    BY <1>2, <1>5, <1>6
  <2> QED
    BY <2>1, <1>1
<1>8. ASSUME i # j, Before(s, j, i) PROVE Rank(s, j) < Rank(s, i)
  <2>1. Upto(j) \subseteq Upto(i)
    BY <1>1, <1>6, <1>8 DEF Before
  <2>2. i \notin Upto(j)
    BY <1>1, <1>6, <1>8 DEF Before
  <2> HIDE DEF Upto
  <2>3. Upto(j) # Upto(i)
    BY <1>4, <1>6, <2>2
  <2>4. Cardinality(Upto(j)) <= Cardinality(Upto(i)) /\ Cardinality(Upto(j)) # Cardinality(Upto(i))
    BY <1>5, <1>6, <2>1, <2>3, FS_Subset
  <2>5. Cardinality(Upto(j)) \in Nat /\ Cardinality(Upto(i)) \in Nat
    BY <1>5, <1>6
  <2> QED
    BY <1>2, <2>4, <2>5
<1> QED
  BY <1>7, <1>8 DEF n

\* SortDescending permutes a list into descending order.
LEMMA SortFacts ==
  ASSUME NEW s \in Seq(Items)
  PROVE  /\ SortDescending(s) \in Seq(Items) /\ Len(SortDescending(s)) = Len(s)
         /\ ToSet(SortDescending(s)) = ToSet(s)
         /\ Descending(SortDescending(s))
<1> DEFINE n == Len(s)
           f == [i \in 1..n |-> Rank(s, i)]
           From(k) == CHOOSE i \in DOMAIN s : Rank(s, i) = k
           r == SortDescending(s)
<1>1. n \in Nat /\ DOMAIN s = 1..n /\ \A k \in 1..n : s[k] \in Items /\ s[k].ratio \in Nat
  BY ItemRatios
<1>2. r = [k \in 1..n |-> s[From(k)]]
  BY <1>1 DEF SortDescending
<1>3. IsFiniteSet(1..n) /\ Cardinality(1..n) = n
  BY <1>1, UptoNatural
<1>4. \A i \in 1..n : Rank(s, i) \in 1..n
  BY RankOrder
<1>5. ASSUME NEW i \in 1..n, NEW j \in 1..n, i # j PROVE Rank(s, i) # Rank(s, j)
  <2>1. Before(s, i, j) \/ Before(s, j, i)
    BY <1>1, <1>5 DEF Before
  <2>2. Rank(s, i) < Rank(s, j) \/ Rank(s, j) < Rank(s, i)
    BY <1>5, <2>1, RankOrder
  <2> HIDE DEF n
  <2>3. Rank(s, i) \in Nat /\ Rank(s, j) \in Nat
    BY <1>4
  <2> QED
    BY <2>2, <2>3
<1> HIDE DEF n
<1>6. f \in Injection(1..n, 1..n)
  BY <1>4, <1>5 DEF Injection, IsInjective
<1>7. f \in Surjection(1..n, 1..n)
  <2> HIDE DEF f
  <2> QED
    BY <1>3, <1>6, FS_Injection
<1>8. ASSUME NEW k \in 1..n PROVE From(k) \in 1..n /\ Rank(s, From(k)) = k
  <2>1. \E i \in 1..n : Rank(s, i) = k
    BY <1>7 DEF Surjection
  <2> QED
    BY <1>1, <2>1
<1>9. \A i \in 1..n : From(Rank(s, i)) = i
  <2>1. SUFFICES ASSUME NEW i \in 1..n PROVE From(Rank(s, i)) = i
    OBVIOUS
  <2>2. From(Rank(s, i)) \in 1..n /\ Rank(s, From(Rank(s, i))) = Rank(s, i)
    BY <1>4, <1>8
  <2> HIDE DEF From
  <2> QED
    BY <1>5, <2>2
<1> HIDE DEF From, r
<1>10. r \in [1..n -> Items]
  BY <1>1, <1>2, <1>8
<1>11. r \in Seq(Items) /\ Len(r) = n /\ DOMAIN r = 1..n
  BY <1>1, <1>10
<1>12. ToSet(r) = ToSet(s)
  <2>1. \A k \in 1..n : r[k] = s[From(k)]
    BY <1>2
  <2>2. \A i \in 1..n : s[i] = r[Rank(s, i)]
    BY <1>4, <1>9, <2>1
  <2> QED
    BY <1>1, <1>4, <1>8, <1>11, <2>1, <2>2 DEF ToSet
<1>13. ASSUME NEW k \in 1..n, NEW l \in 1..n, k < l PROVE r[k].ratio >= r[l].ratio
  <2> DEFINE i == From(k)
             j == From(l)
  <2>1. i \in 1..n /\ j \in 1..n /\ Rank(s, i) = k /\ Rank(s, j) = l /\ r[k] = s[i] /\ r[l] = s[j]
    BY <1>2, <1>8
  <2> HIDE DEF i, j
  <2>2. i # j
    BY <2>1, <1>13
  <2>3. ~Before(s, j, i)
    <3>1. Before(s, j, i) => l < k
      BY <2>1, <2>2, RankOrder DEF n
    <3>2. k \in Nat /\ l \in Nat
      OBVIOUS
    <3> QED
      BY <1>13, <3>1, <3>2
  <2>4. s[i].ratio \in Nat /\ s[j].ratio \in Nat
    BY <1>1, <2>1
  <2>5. s[i].ratio >= s[j].ratio
    BY <2>3, <2>4 DEF Before
  <2> QED
    BY <2>1, <2>5
<1> QED
  BY <1>11, <1>12, <1>13 DEF Descending, r, n

\* A list in descending order stays as it is.
LEMMA SortedStays ==
  ASSUME NEW s \in Seq(Items), Descending(s) PROVE SortDescending(s) = s
<1> DEFINE n == Len(s)
<1>1. n \in Nat /\ DOMAIN s = 1..n /\ \A k \in 1..n : s[k] \in Items /\ s[k].ratio \in Nat
  BY ItemRatios
<1>2. \A i, j \in 1..n : i < j => s[i].ratio >= s[j].ratio
  BY DEF Descending
<1> HIDE DEF n
<1>3. ASSUME NEW i \in 1..n PROVE Rank(s, i) = i
  <2> DEFINE Upto == {j \in DOMAIN s : s[j].ratio > s[i].ratio \/ (s[j].ratio = s[i].ratio /\ j <= i)}
  <2>1. i \in Nat /\ i >= 1 /\ i <= n
    BY <1>1
  <2>2. ASSUME NEW j \in Upto PROVE j \in 1..i
    <3>1. j \in 1..n /\ (i < j => s[i].ratio >= s[j].ratio)
      BY <1>1, <1>2
    <3> QED
      BY <1>1, <2>1, <3>1
  <2>3. ASSUME NEW j \in 1..i PROVE j \in Upto
    <3>1. j \in 1..n /\ (j < i => s[j].ratio >= s[i].ratio)
      BY <1>1, <1>2, <2>1
    <3> QED
      BY <1>1, <2>1, <3>1
  <2>4. Upto = 1..i
    BY <2>2, <2>3
  <2>5. Cardinality(1..i) = i
    BY <2>1, FS_Interval
  <2> QED
    BY <2>4, <2>5 DEF Rank
<1>4. ASSUME NEW k \in 1..n PROVE s[CHOOSE i \in DOMAIN s : Rank(s, i) = k] = s[k]
  <2>1. \E i \in DOMAIN s : Rank(s, i) = k
    BY <1>1, <1>3
  <2> DEFINE c == CHOOSE i \in DOMAIN s : Rank(s, i) = k
  <2>2. c \in DOMAIN s /\ Rank(s, c) = k
    BY <2>1
  <2> HIDE DEF c
  <2>3. c = k
    BY <1>1, <1>3, <2>2
  <2> QED
    BY <2>3 DEF c
<1>5. s = [k \in 1..n |-> s[k]]
  BY <1>1
<1> QED
  BY <1>1, <1>4, <1>5 DEF SortDescending

-----------------------------------------------------------------------------
(* Cleanup's walk. *)

Start(acc) == [dones |-> acc.dones, eaRatios |-> acc.eaRatios, out |-> <<>>]

Walking(g, acc, s, n) == g = [k \in 0..n |-> IF k = 0 THEN Start(acc) ELSE Prune(g[k - 1], s[k])]

LEMMA WalkingExists == ASSUME NEW acc, NEW s, NEW n \in Nat PROVE \E g : Walking(g, acc, s, n)
<1> DEFINE S == {k \in Nat : \E g : Walking(g, acc, s, k)}
<1>1. 0 \in S
  <2> DEFINE g == [k \in 0..0 |-> Start(acc)]
  <2>1. Walking(g, acc, s, 0)
    BY DEF Walking
  <2> QED
    BY <2>1
<1>2. ASSUME NEW m \in S PROVE m + 1 \in S
  <2>1. PICK g : Walking(g, acc, s, m)
    OBVIOUS
  <2> DEFINE h == [k \in 0..(m + 1) |-> IF k <= m THEN g[k] ELSE Prune(g[m], s[m + 1])]
  <2>2. m \in Nat /\ m + 1 \in Nat
    OBVIOUS
  <2> HIDE DEF S
  <2>3. \A k \in 0..m : h[k] = g[k]
    BY <2>2
  <2>4. ASSUME NEW k \in 0..(m + 1) PROVE h[k] = IF k = 0 THEN Start(acc) ELSE Prune(h[k - 1], s[k])
    <3>1. CASE k \in 0..m
      <4>1. g[k] = IF k = 0 THEN Start(acc) ELSE Prune(g[k - 1], s[k])
        BY <2>1, <3>1 DEF Walking
      <4>2. k # 0 => k - 1 \in 0..m
        BY <2>2, <3>1
      <4> HIDE DEF h
      <4>3. k # 0 => h[k - 1] = g[k - 1]
        BY <2>3, <4>2
      <4> QED
        BY <2>3, <3>1, <4>1, <4>3
    <3>2. CASE k = m + 1
      <4>1. k # 0 /\ k - 1 = m /\ m \in 0..m /\ ~(k <= m)
        BY <2>2, <3>2
      <4>2. h[k] = Prune(g[m], s[m + 1])
        BY <4>1
      <4>3. h[k - 1] = g[m]
        BY <2>3, <4>1
      <4> HIDE DEF h
      <4> QED
        BY <3>2, <4>1, <4>2, <4>3
    <3> QED
      BY <2>2, <3>1, <3>2
  <2>5. h = [k \in 0..(m + 1) |-> h[k]]
    OBVIOUS
  <2> HIDE DEF h
  <2>6. Walking(h, acc, s, m + 1)
    BY <2>4, <2>5 DEF Walking
  <2> QED
    BY <2>2, <2>6 DEF S
<1>3. S \in SUBSET Nat
  OBVIOUS
<1> HIDE DEF S
<1>4. n \in S
  BY <1>1, <1>2, <1>3, SetInduction
<1> QED
  BY <1>4 DEF S

\* The accumulators after each item of a category, the last ones being PruneList.
LEMMA WalkOf == ASSUME NEW acc, NEW s, Len(s) \in Nat
                PROVE  \E g : /\ g[0] = Start(acc) /\ g[Len(s)] = PruneList(acc, s)
                              /\ \A k \in 0..Len(s) : k # Len(s) => g[k + 1] = Prune(g[k], SortDescending(s)[k + 1])
<1> DEFINE sorted == SortDescending(s)
           g == CHOOSE g : Walking(g, acc, sorted, Len(s))
<1>1. Walking(g, acc, sorted, Len(s))
  BY WalkingExists
<1>2. PruneList(acc, s) = g[Len(s)]
  BY DEF PruneList, Walking, Start
<1> HIDE DEF g, sorted
<1>3. g[0] = Start(acc)
  BY <1>1 DEF Walking
<1>4. ASSUME NEW k \in 0..Len(s), k # Len(s) PROVE g[k + 1] = Prune(g[k], sorted[k + 1])
  <2>1. k + 1 \in 0..Len(s) /\ k + 1 # 0 /\ k + 1 - 1 = k
    BY <1>4
  <2> QED
    BY <1>1, <2>1 DEF Walking
<1> QED
  BY <1>2, <1>3, <1>4 DEF sorted

LEMMA AppendItem ==
  ASSUME NEW s \in Seq(Items), NEW it \in Items
  PROVE  /\ Append(s, it) \in Seq(Items) /\ Len(Append(s, it)) = Len(s) + 1
         /\ \A i \in 1..Len(s) : Append(s, it)[i] = s[i]
         /\ Append(s, it)[Len(s) + 1] = it
         /\ ToSet(Append(s, it)) = ToSet(s) \cup {it}
<1>1. Append(s, it) \in Seq(Items) /\ Len(Append(s, it)) = Len(s) + 1
  OBVIOUS
<1>2. /\ \A i \in 1..Len(s) : Append(s, it)[i] = s[i]
      /\ Append(s, it)[Len(s) + 1] = it
  OBVIOUS
<1>3. /\ DOMAIN s = 1..Len(s) /\ DOMAIN Append(s, it) = 1..(Len(s) + 1) /\ Len(s) \in Nat
      /\ 1..(Len(s) + 1) = 1..Len(s) \cup {Len(s) + 1}
  OBVIOUS
<1>4. ToSet(Append(s, it)) = ToSet(s) \cup {it}
  <2> DEFINE t == Append(s, it)
  <2> HIDE DEF t
  <2>1. /\ DOMAIN t = 1..Len(s) \cup {Len(s) + 1} /\ t[Len(s) + 1] = it
        /\ \A i \in 1..Len(s) : t[i] = s[i]
    BY <1>2, <1>3 DEF t
  <2>2. ToSet(t) = ToSet(s) \cup {it}
    BY <1>3, <2>1 DEF ToSet
  <2> QED
    BY <2>2 DEF t
<1> QED
  BY <1>1, <1>2, <1>4

Key(it) == PairKey[<<it.n1, it.n2>>]

\* x may stand before y in lists that were cleaned up.
Apart(x, y) == Key(x) # Key(y) /\ (x.ea1 = y.ea1 => FakeRatio(x) <= FakeRatio(y))

Ordered(s) == Descending(s) /\ \A i, j \in 1..Len(s) : i < j => Apart(s[i], s[j])

After(prev, s) == \A x \in prev, y \in ToSet(s) : Apart(x, y)

\* What dones and eaRatios know of the kept items.
Remembers(acc, kept) ==
  /\ \A m \in DOMAIN acc.eaRatios : acc.eaRatios[m] \in Nat
  /\ \A x \in kept : /\ x \in Items /\ Key(x) \in acc.dones
                     /\ x.ea1 \in DOMAIN acc.eaRatios /\ FakeRatio(x) <= acc.eaRatios[x.ea1]

\* prev are the items kept in earlier categories, walked the items of this one so far.
Keeping(acc, prev, walked) ==
  /\ acc.out \in Seq(Items) /\ ToSet(acc.out) \subseteq walked
  /\ Remembers(acc, prev \cup ToSet(acc.out))
  /\ Ordered(acc.out) /\ After(prev, acc.out)

LEMMA FakeIsRatio == ASSUME NEW it \in Items PROVE FakeRatio(it) \in Nat /\ it.ratio \in Nat
  BY DEF Items, FakeRatio, Ratios, One

LEMMA PruneCases ==
  ASSUME NEW acc, NEW it
  PROVE  \/ Key(it) \in acc.dones /\ Prune(acc, it) = acc
         \/ /\ Key(it) \notin acc.dones /\ Prune(acc, it).dones = acc.dones \cup {Key(it)}
            /\ it.ea1 \in DOMAIN acc.eaRatios /\ acc.eaRatios[it.ea1] > FakeRatio(it)
            /\ Prune(acc, it).eaRatios = acc.eaRatios /\ Prune(acc, it).out = acc.out
         \/ /\ Key(it) \notin acc.dones /\ Prune(acc, it).dones = acc.dones \cup {Key(it)}
            /\ ~(it.ea1 \in DOMAIN acc.eaRatios /\ acc.eaRatios[it.ea1] > FakeRatio(it))
            /\ Prune(acc, it).eaRatios = Put(acc.eaRatios, it.ea1, FakeRatio(it))
            /\ Prune(acc, it).out = Append(acc.out, it)
<1>1. CASE Key(it) \in acc.dones
  BY <1>1 DEF Prune, Key
<1>2. CASE Key(it) \notin acc.dones /\ it.ea1 \in DOMAIN acc.eaRatios /\ acc.eaRatios[it.ea1] > FakeRatio(it)
  <2>1. Prune(acc, it) = [dones |-> acc.dones \cup {Key(it)}, eaRatios |-> acc.eaRatios, out |-> acc.out]
    BY <1>2 DEF Prune, Key
  <2> QED
    BY <1>2, <2>1
<1>3. CASE /\ Key(it) \notin acc.dones
           /\ ~(it.ea1 \in DOMAIN acc.eaRatios /\ acc.eaRatios[it.ea1] > FakeRatio(it))
  <2>1. Prune(acc, it) = [dones |-> acc.dones \cup {Key(it)}, eaRatios |-> Put(acc.eaRatios, it.ea1, FakeRatio(it)),
                          out |-> Append(acc.out, it)]
    BY <1>3 DEF Prune, Key
  <2> QED
    BY <1>3, <2>1
<1> QED
  BY <1>1, <1>2, <1>3

LEMMA PruneKeeps ==
  ASSUME NEW acc, NEW prev, NEW walked, NEW it \in Items, Keeping(acc, prev, walked),
         \A x \in walked : x.ratio >= it.ratio
  PROVE  Keeping(Prune(acc, it), prev, walked \cup {it})
<1> DEFINE new == Prune(acc, it)
<1>1. CASE Key(it) \in acc.dones /\ Prune(acc, it) = acc
  BY <1>1 DEF Keeping
<1>2. CASE /\ Key(it) \notin acc.dones /\ new.dones = acc.dones \cup {Key(it)}
           /\ new.eaRatios = acc.eaRatios /\ new.out = acc.out
  <2> HIDE DEF new
  <2>1. Keeping(new, prev, walked \cup {it})
    BY <1>2 DEF Keeping, Remembers
  <2> QED
    BY <2>1 DEF new
<1>3. CASE /\ Key(it) \notin acc.dones /\ new.dones = acc.dones \cup {Key(it)}
           /\ ~(it.ea1 \in DOMAIN acc.eaRatios /\ acc.eaRatios[it.ea1] > FakeRatio(it))
           /\ new.eaRatios = Put(acc.eaRatios, it.ea1, FakeRatio(it))
           /\ new.out = Append(acc.out, it)
  <2> HIDE DEF new
  <2>1. acc.out \in Seq(Items) /\ ToSet(acc.out) \subseteq walked
    BY DEF Keeping
  <2>2. /\ new.out \in Seq(Items) /\ Len(new.out) = Len(acc.out) + 1 /\ Len(acc.out) \in Nat
        /\ \A i \in 1..Len(acc.out) : new.out[i] = acc.out[i]
        /\ new.out[Len(acc.out) + 1] = it
        /\ ToSet(new.out) = ToSet(acc.out) \cup {it}
    BY <1>3, <2>1, AppendItem
  <2>3. /\ DOMAIN new.eaRatios = DOMAIN acc.eaRatios \cup {it.ea1}
        /\ new.eaRatios[it.ea1] = FakeRatio(it)
        /\ \A m \in DOMAIN acc.eaRatios : m # it.ea1 => new.eaRatios[m] = acc.eaRatios[m]
    <3> DEFINE dict == Put(acc.eaRatios, it.ea1, FakeRatio(it))
    <3>1. /\ DOMAIN dict = DOMAIN acc.eaRatios \cup {it.ea1}
          /\ dict[it.ea1] = FakeRatio(it)
          /\ \A m \in DOMAIN acc.eaRatios : m # it.ea1 => dict[m] = acc.eaRatios[m]
      BY DEF Put
    <3>2. new.eaRatios = dict
      BY <1>3
    <3> HIDE DEF dict
    <3> QED
      BY <3>1, <3>2
  <2> DEFINE kept == prev \cup ToSet(acc.out)
  <2>4. Remembers(acc, kept)
    BY DEF Keeping
  <2>5. ASSUME NEW x \in kept PROVE Apart(x, it)
    <3>1. /\ Key(x) # Key(it)
          /\ x.ea1 \in DOMAIN acc.eaRatios /\ FakeRatio(x) <= acc.eaRatios[x.ea1]
          /\ x \in Items /\ acc.eaRatios[x.ea1] \in Nat
      BY <1>3, <2>4 DEF Remembers
    <3>2. FakeRatio(x) \in Nat /\ FakeRatio(it) \in Nat
      BY <3>1, FakeIsRatio
    <3>3. ASSUME x.ea1 = it.ea1 PROVE FakeRatio(x) <= FakeRatio(it)
      <4>1. ~(acc.eaRatios[x.ea1] > FakeRatio(it))
        BY <1>3, <3>1, <3>3
      <4> QED
        BY <3>1, <3>2, <4>1
    <3> QED
      BY <3>1, <3>3 DEF Apart
  <2>6. Remembers(new, prev \cup ToSet(new.out))
    <3>1. prev \cup ToSet(new.out) = kept \cup {it}
      BY <2>2
    <3>2. FakeRatio(it) \in Nat
      BY FakeIsRatio
    <3>3. \A m \in DOMAIN new.eaRatios : new.eaRatios[m] \in Nat
      BY <2>3, <2>4, <3>2 DEF Remembers
    <3>4. ASSUME NEW x \in kept
          PROVE  /\ x \in Items /\ Key(x) \in new.dones
                 /\ x.ea1 \in DOMAIN new.eaRatios /\ FakeRatio(x) <= new.eaRatios[x.ea1]
      <4>1. /\ x \in Items /\ Key(x) \in acc.dones
            /\ x.ea1 \in DOMAIN acc.eaRatios /\ FakeRatio(x) <= acc.eaRatios[x.ea1]
        BY <2>4 DEF Remembers
      <4>2. x.ea1 = it.ea1 => FakeRatio(x) <= FakeRatio(it)
        BY <2>5 DEF Apart
      <4> QED
        BY <1>3, <2>3, <4>1, <4>2
    <3>5. /\ it \in Items /\ Key(it) \in new.dones
          /\ it.ea1 \in DOMAIN new.eaRatios /\ FakeRatio(it) <= new.eaRatios[it.ea1]
      BY <1>3, <2>3, <3>2
    <3> HIDE DEF kept
    <3> QED
      BY <3>1, <3>3, <3>4, <3>5 DEF Remembers
  <2>7. \A i \in 1..Len(acc.out) : acc.out[i] \in ToSet(acc.out) /\ acc.out[i] \in walked
    BY <2>1 DEF ToSet
  <2>8. Descending(new.out)
    <3>1. SUFFICES ASSUME NEW i \in 1..Len(new.out), NEW j \in 1..Len(new.out), i < j
                   PROVE  new.out[i].ratio >= new.out[j].ratio
      BY DEF Descending
    <3>2. i \in 1..Len(acc.out)
      BY <2>2, <3>1
    <3>3. CASE j \in 1..Len(acc.out)
      BY <2>2, <3>1, <3>2, <3>3 DEF Keeping, Ordered, Descending
    <3>4. CASE j = Len(acc.out) + 1
      BY <2>2, <2>7, <3>2, <3>4
    <3> QED
      BY <2>2, <3>3, <3>4
  <2>9. ASSUME NEW i \in 1..Len(new.out), NEW j \in 1..Len(new.out), i < j
        PROVE  Apart(new.out[i], new.out[j])
    <3>2. i \in 1..Len(acc.out)
      BY <2>2, <2>9
    <3>3. CASE j \in 1..Len(acc.out)
      BY <2>2, <2>9, <3>2, <3>3 DEF Keeping, Ordered
    <3>4. CASE j = Len(acc.out) + 1
      BY <2>2, <2>5, <2>7, <3>2, <3>4
    <3> QED
      BY <2>2, <3>3, <3>4
  <2>10. After(prev, new.out)
    BY <2>2, <2>5 DEF Keeping, After
  <2>11. Keeping(new, prev, walked \cup {it})
    BY <2>1, <2>2, <2>6, <2>8, <2>9, <2>10 DEF Keeping, Ordered
  <2> QED
    BY <2>11 DEF new
<1> QED
  BY <1>1, <1>2, <1>3, PruneCases

\* The first k items of s.
Prefix(s, k) == {s[i] : i \in 1..k}

LEMMA PrefixGrows == ASSUME NEW s, NEW k \in Nat PROVE Prefix(s, k + 1) = Prefix(s, k) \cup {s[k + 1]}
<1>1. 1..(k + 1) = 1..k \cup {k + 1}
  OBVIOUS
<1> QED
  BY <1>1 DEF Prefix

LEMMA EmptyList == /\ <<>> \in Seq(Items) /\ Len(<<>>) = 0 /\ ToSet(<<>>) = {}
                   /\ Descending(<<>>) /\ Ordered(<<>>) /\ \A prev : After(prev, <<>>)
<1>1. <<>> \in Seq(Items) /\ Len(<<>>) = 0 /\ ToSet(<<>>) = {}
  BY DEF ToSet
<1>2. 1..0 = {}
  OBVIOUS
<1> QED
  BY <1>1, <1>2 DEF Descending, Ordered, After

LEMMA PruneListKeeps ==
  ASSUME NEW acc, NEW prev, NEW s \in Seq(Items), Remembers(acc, prev)
  PROVE  Keeping(PruneList(acc, s), prev, ToSet(s))
<1> DEFINE t == SortDescending(s)
           n == Len(s)
<1>1. n \in Nat /\ t \in Seq(Items) /\ Len(t) = n /\ DOMAIN t = 1..n /\ ToSet(t) = ToSet(s) /\ Descending(t)
  <2>1. t \in Seq(Items) /\ Len(t) = n /\ ToSet(t) = ToSet(s) /\ Descending(t)
    BY SortFacts
  <2> QED
    BY <2>1
<1>2. PICK g : /\ g[0] = Start(acc) /\ g[n] = PruneList(acc, s)
               /\ \A k \in 0..n : k # n => g[k + 1] = Prune(g[k], t[k + 1])
  BY <1>1, WalkOf
<1> HIDE DEF t, n
<1> DEFINE S == {k \in Nat : k <= n => Keeping(g[k], prev, Prefix(t, k))}
<1>3. 0 \in S
  <2>1. g[0].dones = acc.dones /\ g[0].eaRatios = acc.eaRatios /\ g[0].out = <<>>
    BY <1>2 DEF Start
  <2>2. Keeping(g[0], prev, Prefix(t, 0))
    BY <2>1, EmptyList DEF Keeping, Remembers
  <2> QED
    BY <2>2
<1>4. ASSUME NEW k \in S PROVE k + 1 \in S
  <2>1. SUFFICES ASSUME k + 1 <= n PROVE Keeping(g[k + 1], prev, Prefix(t, k + 1))
    OBVIOUS
  <2>2. k \in Nat /\ k \in 0..n /\ k # n /\ k <= n /\ k + 1 \in 1..n
    BY <1>1, <2>1
  <2>3. Keeping(g[k], prev, Prefix(t, k))
    BY <2>2
  <2> HIDE DEF S
  <2>4. g[k + 1] = Prune(g[k], t[k + 1])
    BY <1>2, <2>2
  <2>5. t[k + 1] \in Items
    BY <1>1, <2>2
  <2>6. \A x \in Prefix(t, k) : x.ratio >= t[k + 1].ratio
    <3>1. ASSUME NEW i \in 1..k PROVE t[i].ratio >= t[k + 1].ratio
      <4>1. i \in 1..n /\ i < k + 1
        BY <1>1, <2>2
      <4> QED
        BY <1>1, <2>2, <4>1 DEF Descending
    <3> QED
      BY <3>1 DEF Prefix
  <2>7. Keeping(Prune(g[k], t[k + 1]), prev, Prefix(t, k) \cup {t[k + 1]})
    BY <2>3, <2>5, <2>6, PruneKeeps
  <2> QED
    BY <2>2, <2>4, <2>7, PrefixGrows
<1>5. S \in SUBSET Nat
  OBVIOUS
<1> HIDE DEF S
<1>6. n \in S
  BY <1>1, <1>3, <1>4, <1>5, SetInduction
<1>7. Keeping(g[n], prev, Prefix(t, n))
  BY <1>1, <1>6 DEF S
<1>8. Prefix(t, n) = ToSet(s)
  <2>1. Prefix(t, n) = ToSet(t)
    BY <1>1 DEF Prefix, ToSet
  <2> QED
    BY <1>1, <2>1
<1> QED
  BY <1>2, <1>7, <1>8

IsLists(l) == /\ l = [best |-> l["best"], partial |-> l["partial"], unreliable |-> l["unreliable"]]
              /\ l["best"] \in Seq(Items) /\ l["partial"] \in Seq(Items) /\ l["unreliable"] \in Seq(Items)

\* Lists that Cleanup leaves as they are.
Settled(l) == /\ IsLists(l)
              /\ Ordered(l["best"]) /\ Ordered(l["partial"]) /\ Ordered(l["unreliable"])
              /\ After(ToSet(l["best"]), l["partial"])
              /\ After(ToSet(l["best"]) \cup ToSet(l["partial"]), l["unreliable"])

LEMMA PrunedSettles ==
  ASSUME NEW l, IsLists(l)
  PROVE  /\ Settled(Pruned(l))
         /\ \A c \in Categories : ToSet(Pruned(l)[c]) \subseteq ToSet(l[c])
<1> DEFINE none == [dones |-> {}, eaRatios |-> <<>>, out |-> <<>>]
           b == PruneList(none, l["best"])
           p == PruneList(b, l["partial"])
           u == PruneList(p, l["unreliable"])
<1>1. Pruned(l) = [best |-> b.out, partial |-> p.out, unreliable |-> u.out]
  BY DEF Pruned
<1>2. Remembers(none, {})
  <2>1. DOMAIN none.eaRatios = {}
    OBVIOUS
  <2> QED
    BY <2>1 DEF Remembers
<1>3. Keeping(b, {}, ToSet(l["best"]))
  <2> HIDE DEF none
  <2> QED
    BY <1>2, PruneListKeeps DEF IsLists
<1> HIDE DEF b
<1>4. Remembers(b, ToSet(b.out))
  <2>1. {} \cup ToSet(b.out) = ToSet(b.out)
    OBVIOUS
  <2> QED
    BY <1>3, <2>1 DEF Keeping
<1>5. Keeping(p, ToSet(b.out), ToSet(l["partial"]))
  BY <1>4, PruneListKeeps DEF IsLists
<1> HIDE DEF p
<1>6. Remembers(p, ToSet(b.out) \cup ToSet(p.out))
  BY <1>5 DEF Keeping
<1>7. Keeping(u, ToSet(b.out) \cup ToSet(p.out), ToSet(l["unreliable"]))
  BY <1>6, PruneListKeeps DEF IsLists
<1> HIDE DEF u
<1> DEFINE r == [best |-> b.out, partial |-> p.out, unreliable |-> u.out]
<1>8. r["best"] = b.out /\ r["partial"] = p.out /\ r["unreliable"] = u.out
  OBVIOUS
<1>9. r = [best |-> r["best"], partial |-> r["partial"], unreliable |-> r["unreliable"]]
  BY <1>8
<1> HIDE DEF r
<1>10. Settled(r)
  BY <1>3, <1>5, <1>7, <1>8, <1>9 DEF Settled, IsLists, Keeping
<1>11. \A c \in Categories : ToSet(r[c]) \subseteq ToSet(l[c])
  BY <1>3, <1>5, <1>7, <1>8 DEF Keeping, Categories
<1> QED
  BY <1>1, <1>10, <1>11 DEF r

\* dones and eaRatios know nothing but the items K.
Exactly(acc, K) == /\ acc.dones \subseteq {Key(x) : x \in K}
                   /\ \A m \in DOMAIN acc.eaRatios : \E x \in K : x.ea1 = m /\ acc.eaRatios[m] = FakeRatio(x)

\* The walk over settled lists keeps every item.
Same(acc, prev, s, k) == /\ acc.out \in Seq(Items) /\ Len(acc.out) = k
                         /\ \A i \in 1..k : acc.out[i] = s[i]
                         /\ Exactly(acc, prev \cup Prefix(s, k))

LEMMA PruneSame ==
  ASSUME NEW acc, NEW prev, NEW s \in Seq(Items), NEW k \in Nat, k + 1 <= Len(s), Ordered(s), After(prev, s),
         \A x \in prev : x \in Items, Same(acc, prev, s, k)
  PROVE  Same(Prune(acc, s[k + 1]), prev, s, k + 1)
<1> DEFINE it == s[k + 1]
           K == prev \cup Prefix(s, k)
           new == Prune(acc, it)
<1>1. Len(s) \in Nat /\ DOMAIN s = 1..Len(s) /\ k + 1 \in 1..Len(s) /\ it \in Items /\ it \in ToSet(s)
  <2>1. Len(s) \in Nat /\ DOMAIN s = 1..Len(s) /\ k + 1 \in 1..Len(s)
    OBVIOUS
  <2> QED
    BY <2>1 DEF ToSet
<1>2. ASSUME NEW x \in K PROVE x \in Items /\ Apart(x, it)
  <2>1. CASE x \in prev
    BY <1>1, <2>1 DEF After
  <2>2. ASSUME NEW i \in 1..k PROVE s[i] \in Items /\ Apart(s[i], s[k + 1])
    <3>1. i \in 1..Len(s) /\ i < k + 1
      BY <1>1
    <3> QED
      BY <1>1, <3>1 DEF Ordered
  <2> QED
    BY <2>1, <2>2 DEF Prefix
<1>3. Exactly(acc, K) /\ acc.out \in Seq(Items) /\ Len(acc.out) = k /\ \A i \in 1..k : acc.out[i] = s[i]
  BY DEF Same
<1> HIDE DEF it, K
<1>4. Key(it) \notin acc.dones
  BY <1>2, <1>3 DEF Exactly, Apart
<1>5. ~(it.ea1 \in DOMAIN acc.eaRatios /\ acc.eaRatios[it.ea1] > FakeRatio(it))
  <2>1. SUFFICES ASSUME it.ea1 \in DOMAIN acc.eaRatios PROVE ~(acc.eaRatios[it.ea1] > FakeRatio(it))
    OBVIOUS
  <2>2. PICK x \in K : x.ea1 = it.ea1 /\ acc.eaRatios[it.ea1] = FakeRatio(x)
    BY <1>3, <2>1 DEF Exactly
  <2>3. FakeRatio(x) <= FakeRatio(it)
    BY <1>2, <2>2 DEF Apart
  <2>4. FakeRatio(x) \in Nat /\ FakeRatio(it) \in Nat
    BY <1>1, <1>2, FakeIsRatio
  <2> QED
    BY <2>2, <2>3, <2>4
<1>6. /\ new.dones = acc.dones \cup {Key(it)} /\ new.out = Append(acc.out, it)
      /\ new.eaRatios = Put(acc.eaRatios, it.ea1, FakeRatio(it))
  BY <1>4, <1>5, PruneCases
<1> HIDE DEF new
<1>7. /\ new.out \in Seq(Items) /\ Len(new.out) = k + 1
      /\ \A i \in 1..k : new.out[i] = acc.out[i]
      /\ new.out[k + 1] = it
  BY <1>1, <1>3, <1>6, AppendItem
<1>8. \A i \in 1..(k + 1) : new.out[i] = s[i]
  <2>1. \A i \in 1..(k + 1) : i \in 1..k \/ i = k + 1
    OBVIOUS
  <2> QED
    BY <1>3, <1>7, <2>1 DEF it
<1>9. Exactly(new, K \cup {it})
  <2> DEFINE dict == Put(acc.eaRatios, it.ea1, FakeRatio(it))
  <2>1. /\ DOMAIN dict = DOMAIN acc.eaRatios \cup {it.ea1}
        /\ dict[it.ea1] = FakeRatio(it)
        /\ \A m \in DOMAIN acc.eaRatios : m # it.ea1 => dict[m] = acc.eaRatios[m]
    BY DEF Put
  <2>2. new.eaRatios = dict
    BY <1>6
  <2> HIDE DEF dict
  <2>3. ASSUME NEW m \in DOMAIN new.eaRatios
        PROVE  \E x \in K \cup {it} : x.ea1 = m /\ new.eaRatios[m] = FakeRatio(x)
    <3>1. CASE m = it.ea1
      BY <2>1, <2>2, <3>1
    <3>2. CASE m # it.ea1
      BY <1>3, <2>1, <2>2, <3>2 DEF Exactly
    <3> QED
      BY <3>1, <3>2
  <2>4. new.dones \subseteq {Key(x) : x \in K \cup {it}}
    BY <1>3, <1>6 DEF Exactly
  <2> QED
    BY <2>3, <2>4 DEF Exactly
<1>10. K \cup {it} = prev \cup Prefix(s, k + 1)
  BY PrefixGrows DEF K, it
<1> QED
  BY <1>7, <1>8, <1>9, <1>10 DEF Same, new, it

LEMMA PruneListSame ==
  ASSUME NEW acc, NEW prev, NEW s \in Seq(Items), Ordered(s), After(prev, s), \A x \in prev : x \in Items,
         Exactly(acc, prev)
  PROVE  PruneList(acc, s).out = s /\ Exactly(PruneList(acc, s), prev \cup ToSet(s))
<1> DEFINE n == Len(s)
<1>1. n \in Nat /\ DOMAIN s = 1..n
  OBVIOUS
<1>2. SortDescending(s) = s
  BY SortedStays DEF Ordered
<1>3. PICK g : /\ g[0] = Start(acc) /\ g[n] = PruneList(acc, s)
               /\ \A k \in 0..n : k # n => g[k + 1] = Prune(g[k], s[k + 1])
  <2>1. PICK g : /\ g[0] = Start(acc) /\ g[Len(s)] = PruneList(acc, s)
                 /\ \A k \in 0..Len(s) : k # Len(s) => g[k + 1] = Prune(g[k], SortDescending(s)[k + 1])
    BY <1>1, WalkOf
  <2> QED
    BY <1>2, <2>1
<1> HIDE DEF n
<1> DEFINE S == {k \in Nat : k <= n => Same(g[k], prev, s, k)}
<1>4. 0 \in S
  <2>1. g[0].dones = acc.dones /\ g[0].eaRatios = acc.eaRatios /\ g[0].out = <<>>
    BY <1>3 DEF Start
  <2>2. prev \subseteq prev \cup Prefix(s, 0) /\ 1..0 = {}
    OBVIOUS
  <2>3. Same(g[0], prev, s, 0)
    BY <2>1, <2>2, EmptyList DEF Same, Exactly
  <2> QED
    BY <2>3
<1>5. ASSUME NEW k \in S PROVE k + 1 \in S
  <2>1. SUFFICES ASSUME k + 1 <= n PROVE Same(g[k + 1], prev, s, k + 1)
    OBVIOUS
  <2>2. k \in Nat /\ k \in 0..n /\ k # n /\ k <= n
    BY <1>1, <2>1
  <2>3. Same(g[k], prev, s, k)
    BY <2>2
  <2> HIDE DEF S
  <2>4. g[k + 1] = Prune(g[k], s[k + 1])
    BY <1>3, <2>2
  <2>5. Same(Prune(g[k], s[k + 1]), prev, s, k + 1)
    BY <2>1, <2>2, <2>3, PruneSame DEF n
  <2> QED
    BY <2>4, <2>5
<1>6. S \in SUBSET Nat
  OBVIOUS
<1> HIDE DEF S
<1>7. n \in S
  BY <1>1, <1>4, <1>5, <1>6, SetInduction
<1>8. Same(g[n], prev, s, n)
  BY <1>1, <1>7 DEF S
<1> DEFINE r == g[n].out
<1>9. r \in Seq(Items) /\ Len(r) = n /\ \A i \in 1..n : r[i] = s[i]
  BY <1>8 DEF Same
<1>10. Prefix(s, n) = ToSet(s)
  BY <1>1 DEF Prefix, ToSet
<1> HIDE DEF r
<1>11. r = s
  BY <1>9, SeqEqual DEF n
<1> QED
  BY <1>3, <1>8, <1>10, <1>11 DEF Same, r

LEMMA SettledStays == ASSUME NEW l, Settled(l) PROVE Pruned(l) = l
<1> DEFINE none == [dones |-> {}, eaRatios |-> <<>>, out |-> <<>>]
           b == PruneList(none, l["best"])
           p == PruneList(b, l["partial"])
           u == PruneList(p, l["unreliable"])
           B == ToSet(l["best"])
           P == ToSet(l["partial"])
<1>1. Pruned(l) = [best |-> b.out, partial |-> p.out, unreliable |-> u.out]
  BY DEF Pruned
<1>2. Exactly(none, {})
  <2>1. DOMAIN none.eaRatios = {} /\ none.dones = {}
    OBVIOUS
  <2> QED
    BY <2>1 DEF Exactly
<1>3. /\ l["best"] \in Seq(Items) /\ l["partial"] \in Seq(Items) /\ l["unreliable"] \in Seq(Items)
      /\ l = [best |-> l["best"], partial |-> l["partial"], unreliable |-> l["unreliable"]]
  BY DEF Settled, IsLists
<1>4. B \subseteq Items /\ P \subseteq Items
  BY <1>3 DEF ToSet
<1>5. b.out = l["best"] /\ Exactly(b, {} \cup B)
  <2> HIDE DEF none
  <2>1. After({}, l["best"])
    BY DEF After
  <2> QED
    BY <1>2, <1>3, <2>1, PruneListSame DEF Settled
<1> HIDE DEF b, B, P
<1>6. Exactly(b, B)
  <2>1. {} \cup B = B
    OBVIOUS
  <2> QED
    BY <1>5, <2>1
<1>7. p.out = l["partial"] /\ Exactly(p, B \cup P)
  BY <1>3, <1>4, <1>6, PruneListSame DEF Settled, B, P
<1> HIDE DEF p
<1>8. u.out = l["unreliable"]
  <2>1. \A x \in B \cup P : x \in Items
    BY <1>4
  <2>2. After(B \cup P, l["unreliable"]) /\ Ordered(l["unreliable"])
    BY DEF Settled, B, P
  <2> QED
    BY <1>3, <1>7, <2>1, <2>2, PruneListSame
<1> QED
  BY <1>1, <1>3, <1>5, <1>7, <1>8

-----------------------------------------------------------------------------
(* The lists and the steps. *)

ItemsOf(l) == ToSet(l["best"]) \cup ToSet(l["partial"]) \cup ToSet(l["unreliable"])

LEMMA JoinedItems == ASSUME NEW s \in Seq(Items), NEW t \in Seq(Items)
                     PROVE  s \o t \in Seq(Items) /\ ToSet(s \o t) = ToSet(s) \cup ToSet(t)
<1> DEFINE r == s \o t
           n == Len(s)
           p == Len(t)
<1>1. r \in Seq(Items) /\ Len(r) = n + p /\ n \in Nat /\ p \in Nat
      /\ \A i \in 1..(n + p) : r[i] = IF i <= n THEN s[i] ELSE t[i - n]
  BY ConcatProperties
<1>2. DOMAIN r = 1..(n + p) /\ DOMAIN s = 1..n /\ DOMAIN t = 1..p
  BY <1>1
<1> HIDE DEF r, n, p
<1>3. ASSUME NEW x \in ToSet(r) PROVE x \in ToSet(s) \cup ToSet(t)
  <2>1. PICK i \in 1..(n + p) : x = r[i]
    BY <1>2 DEF ToSet
  <2>2. CASE i <= n
    <3>1. i \in 1..n /\ x = s[i]
      BY <1>1, <2>1, <2>2
    <3> QED
      BY <1>2, <3>1 DEF ToSet
  <2>3. CASE ~(i <= n)
    <3>1. i - n \in 1..p /\ x = t[i - n]
      BY <1>1, <2>1, <2>3
    <3> QED
      BY <1>2, <3>1 DEF ToSet
  <2> QED
    BY <2>2, <2>3
<1>4. ASSUME NEW x \in ToSet(s) PROVE x \in ToSet(r)
  <2>1. PICK i \in 1..n : x = s[i]
    BY <1>2 DEF ToSet
  <2>2. i \in 1..(n + p) /\ r[i] = x
    BY <1>1, <2>1
  <2> QED
    BY <1>2, <2>2 DEF ToSet
<1>5. ASSUME NEW x \in ToSet(t) PROVE x \in ToSet(r)
  <2>1. PICK i \in 1..p : x = t[i]
    BY <1>2 DEF ToSet
  <2>2. n + i \in 1..(n + p) /\ ~(n + i <= n) /\ n + i - n = i
    BY <1>1, <2>1
  <2>3. r[n + i] = x
    BY <1>1, <2>1, <2>2
  <2> QED
    BY <1>2, <2>2, <2>3 DEF ToSet
<1>6. r \in Seq(Items) /\ ToSet(r) = ToSet(s) \cup ToSet(t)
  BY <1>1, <1>3, <1>4, <1>5
<1> QED
  BY <1>6 DEF r

LEMMA AllItemsSet == ASSUME NEW l, IsLists(l)
                     PROVE  /\ AllItems(l) \in Seq(Items) /\ ToSet(AllItems(l)) = ItemsOf(l)
                            /\ \A it \in ItemsOf(l) : it \in Items
<1> DEFINE s == l["best"] \o l["partial"]
<1>1. s \in Seq(Items) /\ ToSet(s) = ToSet(l["best"]) \cup ToSet(l["partial"])
  BY JoinedItems DEF IsLists
<1> HIDE DEF s
<1>2. s \o l["unreliable"] \in Seq(Items) /\ ToSet(s \o l["unreliable"]) = ToSet(s) \cup ToSet(l["unreliable"])
  BY <1>1, JoinedItems DEF IsLists
<1>3. AllItems(l) = s \o l["unreliable"]
  BY DEF AllItems, s
<1>4. \A it \in ItemsOf(l) : it \in Items
  BY DEF ItemsOf, ToSet, IsLists
<1> QED
  BY <1>1, <1>2, <1>3, <1>4 DEF ItemsOf

\* Best items have a ratio of 1.0, partial items less, and the unreliable list is empty.
Filed(l) == /\ \A it \in ToSet(l["best"]) : it.ratio = One
            /\ \A it \in ToSet(l["partial"]) : it.ratio < One
            /\ ToSet(l["unreliable"]) = {}

\* An item bears names of its two functions.
Named(it) == it.n1 \in {Name[it.ea1], Mangled[it.ea1]} /\ it.n2 \in {Name[it.ea2], Mangled[it.ea2]}

Fits(it, c) == /\ it \in Items /\ Named(it)
               /\ \/ c = "best" /\ it.ratio = One
                  \/ c = "partial" /\ it.ratio < One

GoodLists(l) == IsLists(l) /\ Filed(l) /\ \A it \in ItemsOf(l) : Named(it)

LEMMA ListGrows ==
  ASSUME NEW l, NEW it, NEW c, GoodLists(l), Fits(it, c),
         NEW new, new = IF it \in ToSet(l[c]) THEN l ELSE [l EXCEPT ![c] = Append(@, it)]
  PROVE  GoodLists(new) /\ ItemsOf(new) = ItemsOf(l) \cup {it}
<1>1. IsLists(l) /\ it \in Items
  BY DEF GoodLists, Fits
<1> DEFINE b == l["best"]
           p == l["partial"]
           u == l["unreliable"]
<1>2. b \in Seq(Items) /\ p \in Seq(Items) /\ u \in Seq(Items) /\ l = [best |-> b, partial |-> p, unreliable |-> u]
  BY <1>1 DEF IsLists
<1>3. ItemsOf(l) = ToSet(b) \cup ToSet(p) \cup ToSet(u)
  BY DEF ItemsOf
<1>4. \E b2, p2 : /\ new = [best |-> b2, partial |-> p2, unreliable |-> u]
                  /\ b2 \in Seq(Items) /\ p2 \in Seq(Items)
                  /\ \/ c = "best" /\ ToSet(b2) = ToSet(b) \cup {it} /\ p2 = p
                     \/ c = "partial" /\ ToSet(p2) = ToSet(p) \cup {it} /\ b2 = b
  <2>1. CASE c = "best" /\ it \in ToSet(b)
    BY <1>2, <2>1
  <2>2. CASE c = "partial" /\ it \in ToSet(p)
    BY <1>2, <2>2
  <2>3. CASE c = "best" /\ it \notin ToSet(b)
    <3> DEFINE b2 == Append(b, it)
    <3>1. b2 \in Seq(Items) /\ ToSet(b2) = ToSet(b) \cup {it}
      BY <1>1, <1>2, AppendItem
    <3>2. new = [l EXCEPT !["best"] = b2]
      BY <2>3
    <3> HIDE DEF b2, b, p, u
    <3>3. new = [best |-> b2, partial |-> p, unreliable |-> u]
      BY <1>2, <3>2
    <3> QED
      BY <1>2, <2>3, <3>1, <3>3
  <2>4. CASE c = "partial" /\ it \notin ToSet(p)
    <3> DEFINE p2 == Append(p, it)
    <3>1. p2 \in Seq(Items) /\ ToSet(p2) = ToSet(p) \cup {it}
      BY <1>1, <1>2, AppendItem
    <3>2. new = [l EXCEPT !["partial"] = p2]
      BY <2>4
    <3> HIDE DEF p2, b, p, u
    <3>3. new = [best |-> b, partial |-> p2, unreliable |-> u]
      BY <1>2, <3>2
    <3> QED
      BY <1>2, <2>4, <3>1, <3>3
  <2> QED
    BY <2>1, <2>2, <2>3, <2>4 DEF Fits
<1>5. PICK b2, p2 : /\ new = [best |-> b2, partial |-> p2, unreliable |-> u]
                    /\ b2 \in Seq(Items) /\ p2 \in Seq(Items)
                    /\ \/ c = "best" /\ ToSet(b2) = ToSet(b) \cup {it} /\ p2 = p
                       \/ c = "partial" /\ ToSet(p2) = ToSet(p) \cup {it} /\ b2 = b
  BY <1>4
<1> HIDE DEF b, p, u
<1>6. /\ new["best"] = b2 /\ new["partial"] = p2 /\ new["unreliable"] = u
      /\ new = [best |-> new["best"], partial |-> new["partial"], unreliable |-> new["unreliable"]]
  <2>1. new = [best |-> b2, partial |-> p2, unreliable |-> u]
    BY <1>5
  <2>2. new["best"] = b2 /\ new["partial"] = p2 /\ new["unreliable"] = u
    BY <2>1
  <2> QED
    BY <2>1, <2>2
<1>7. IsLists(new)
  BY <1>2, <1>5, <1>6 DEF IsLists
<1>8. ItemsOf(new) = ItemsOf(l) \cup {it}
  BY <1>3, <1>5, <1>6 DEF ItemsOf
<1>9. Filed(new)
  BY <1>5, <1>6 DEF GoodLists, Filed, Fits, b, p, u
<1> QED
  BY <1>7, <1>8, <1>9 DEF GoodLists, Fits

LEMMA PrunedGood == ASSUME NEW l, GoodLists(l)
                    PROVE  /\ GoodLists(Pruned(l)) /\ Settled(Pruned(l))
                           /\ ItemsOf(Pruned(l)) \subseteq ItemsOf(l)
<1> DEFINE r == Pruned(l)
<1>1. Settled(r) /\ \A c \in Categories : ToSet(r[c]) \subseteq ToSet(l[c])
  BY PrunedSettles DEF GoodLists
<1> HIDE DEF r
<1>2. ItemsOf(r) \subseteq ItemsOf(l)
  BY <1>1 DEF ItemsOf, Categories
<1>3. Filed(r)
  BY <1>1 DEF Filed, GoodLists, Categories
<1>4. IsLists(r)
  BY <1>1 DEF Settled
<1>5. GoodLists(r)
  BY <1>2, <1>3, <1>4 DEF GoodLists
<1> QED
  BY <1>1, <1>2, <1>5 DEF r

\* The entries that Cleanup makes stand for items.
LEMMA EntriesStand ==
  ASSUME NEW s \in Seq(Items), NEW name, NEW other
  PROVE  /\ \A it \in ToSet(s) : it[name] \in DOMAIN Entries(s, name, other)
         /\ \A n \in DOMAIN Entries(s, name, other) : \E it \in ToSet(s) :
              /\ it[name] = n /\ Entries(s, name, other)[n].other = it[other]
              /\ Entries(s, name, other)[n].ratio = it.ratio
<1> DEFINE names == {it[name] : it \in ToSet(s)}
           At(n) == CHOOSE k \in DOMAIN s : s[k][name] = n /\ \A j \in DOMAIN s : s[j][name] = n => j <= k
<1>1. Entries(s, name, other) = [n \in names |-> [other |-> s[At(n)][other], ratio |-> s[At(n)].ratio]]
  BY DEF Entries
<1>2. Len(s) \in Nat /\ DOMAIN s = 1..Len(s)
  OBVIOUS
<1>3. ASSUME NEW n \in names PROVE At(n) \in DOMAIN s /\ s[At(n)][name] = n
  <2> DEFINE S == {k \in 1..Len(s) : s[k][name] = n}
  <2>1. S # {}
    BY <1>2 DEF ToSet
  <2>2. S \in SUBSET (1..Len(s))
    OBVIOUS
  <2> HIDE DEF S
  <2>3. PICK m \in S : \A x \in S : x <= m
    BY <1>2, <2>1, <2>2, GreatestNatural
  <2>4. \E k \in DOMAIN s : s[k][name] = n /\ \A j \in DOMAIN s : s[j][name] = n => j <= k
    BY <1>2, <2>3 DEF S
  <2> QED
    BY <2>4
<1> HIDE DEF At, names
<1>4. ASSUME NEW n \in names
      PROVE  \E it \in ToSet(s) : /\ it[name] = n /\ Entries(s, name, other)[n].other = it[other]
                                  /\ Entries(s, name, other)[n].ratio = it.ratio
  <2>1. s[At(n)] \in ToSet(s)
    BY <1>3 DEF ToSet
  <2> QED
    BY <1>1, <1>3, <2>1
<1>5. DOMAIN Entries(s, name, other) = names
  BY <1>1
<1> QED
  BY <1>4, <1>5 DEF names

Stands(it, entry) == entry.ratio = it.ratio \/ (it.n1 = it.n2 /\ entry.ratio = One)

\* EntriesBacked for given items and dictionaries.
BackedBy(items, pri, sec) ==
  /\ \A n \in DOMAIN pri : \E it \in items : it.n1 = n /\ it.n2 = pri[n].other /\ Stands(it, pri[n])
  /\ \A n \in DOMAIN sec : \E it \in items : it.n2 = n /\ it.n1 = sec[n].other /\ Stands(it, sec[n])
  /\ \A it \in items : it.n1 \in DOMAIN pri /\ it.n2 \in DOMAIN sec

LEMMA CleanupBacks ==
  ASSUME NEW l, IsLists(l)
  PROVE  BackedBy(ItemsOf(l), Entries(AllItems(l), "n1", "n2"), Entries(AllItems(l), "n2", "n1"))
<1> DEFINE s == AllItems(l)
           pri == Entries(s, "n1", "n2")
           sec == Entries(s, "n2", "n1")
<1>1. s \in Seq(Items) /\ ToSet(s) = ItemsOf(l)
  BY AllItemsSet
<1> HIDE DEF s
<1>2. /\ \A it \in ItemsOf(l) : it["n1"] \in DOMAIN pri
      /\ \A n \in DOMAIN pri : \E it \in ItemsOf(l) : it["n1"] = n /\ pri[n].other = it["n2"] /\ pri[n].ratio = it.ratio
  BY <1>1, EntriesStand
<1>3. /\ \A it \in ItemsOf(l) : it["n2"] \in DOMAIN sec
      /\ \A n \in DOMAIN sec : \E it \in ItemsOf(l) : it["n2"] = n /\ sec[n].other = it["n1"] /\ sec[n].ratio = it.ratio
  BY <1>1, EntriesStand
<1> HIDE DEF pri, sec
<1>4. BackedBy(ItemsOf(l), pri, sec)
  BY <1>2, <1>3 DEF BackedBy, Stands
<1> QED
  BY <1>4 DEF pri, sec, s

LEMMA AddBacks ==
  ASSUME NEW items, NEW pri, NEW sec, NEW it, BackedBy(items, pri, sec)
  PROVE  BackedBy(items \cup {it}, Put(pri, it.n1, [other |-> it.n2, ratio |-> FakeRatio(it)]),
                  Put(sec, it.n2, [other |-> it.n1, ratio |-> FakeRatio(it)]))
<1> DEFINE e1 == [other |-> it.n2, ratio |-> FakeRatio(it)]
           e2 == [other |-> it.n1, ratio |-> FakeRatio(it)]
           p == Put(pri, it.n1, e1)
           q == Put(sec, it.n2, e2)
<1>1. e1.other = it.n2 /\ e2.other = it.n1 /\ Stands(it, e1) /\ Stands(it, e2)
  BY DEF Stands, FakeRatio
<1> HIDE DEF e1, e2
<1>2. /\ DOMAIN p = DOMAIN pri \cup {it.n1} /\ p[it.n1] = e1
      /\ \A n \in DOMAIN pri : n # it.n1 => p[n] = pri[n]
  BY DEF Put
<1>3. /\ DOMAIN q = DOMAIN sec \cup {it.n2} /\ q[it.n2] = e2
      /\ \A n \in DOMAIN sec : n # it.n2 => q[n] = sec[n]
  BY DEF Put
<1> HIDE DEF p, q
<1>4. ASSUME NEW n \in DOMAIN p
      PROVE  \E x \in items \cup {it} : x.n1 = n /\ x.n2 = p[n].other /\ Stands(x, p[n])
  <2>1. CASE n = it.n1
    BY <1>1, <1>2, <2>1
  <2>2. CASE n # it.n1
    BY <1>2, <2>2 DEF BackedBy
  <2> QED
    BY <2>1, <2>2
<1>5. ASSUME NEW n \in DOMAIN q
      PROVE  \E x \in items \cup {it} : x.n2 = n /\ x.n1 = q[n].other /\ Stands(x, q[n])
  <2>1. CASE n = it.n2
    BY <1>1, <1>3, <2>1
  <2>2. CASE n # it.n2
    BY <1>3, <2>2 DEF BackedBy
  <2> QED
    BY <2>1, <2>2
<1>6. \A x \in items \cup {it} : x.n1 \in DOMAIN p /\ x.n2 \in DOMAIN q
  BY <1>2, <1>3 DEF BackedBy
<1>7. BackedBy(items \cup {it}, p, q)
  BY <1>4, <1>5, <1>6 DEF BackedBy
<1> QED
  BY <1>7 DEF p, q, e1, e2

Working == Stages \ {"unmatched", "done", "raised"}

Typed == stage \in Stages /\ ratio \in [Pairs -> Ratios]

\* The kinds of steps.
Adding == /\ \E it, c : Fits(it, c) /\ AddMatch(it, c)
          /\ stage \in Working /\ UNCHANGED <<stage, ratio, results, unmatched>>
Cleaning == /\ Cleanup /\ stage \in Working /\ stage' \in Working /\ UNCHANGED <<ratio, results, unmatched>>
Moving == /\ stage \in Working /\ stage' \in Working
          /\ UNCHANGED <<lists, primary, secondary, ratio, results, unmatched>>

LEMMA BonusKeeps == ASSUME NEW r \in Ratios, r # One PROVE WithBonus(r) \in Ratios /\ WithBonus(r) < One
  BY DEF WithBonus, Ratios, One

LEMMA NewItem ==
  ASSUME NEW m \in Main, NEW d \in Diff, stage \in Stages, NEW r \in Ratios, NEW c,
         \/ c = "best" /\ r = One
         \/ c = "partial" /\ r < One
  PROVE  Fits(ItemOf(m, d, Name[m], Name[d], stage, r), c)
<1>1. Name[m] \in Names /\ Name[d] \in Names
  BY DEF Names
<1> QED
  BY <1>1 DEF Fits, Items, ItemOf, Named

LEMMA RoutedAdds ==
  ASSUME Typed, NEW m \in Main, NEW d \in Diff, NEW r \in Ratios, NEW val, Routed(m, d, stage, r, val)
  PROVE  \E it, c : Fits(it, c) /\ AddMatch(it, c)
<1> DEFINE it == ItemOf(m, d, Name[m], Name[d], stage, r)
<1>1. CASE r = One
  <2>1. AddMatch(it, "best")
    BY <1>1 DEF Routed
  <2>2. Fits(it, "best")
    <3>1. One \in Ratios
      BY DEF One, Ratios
    <3>2. Fits(ItemOf(m, d, Name[m], Name[d], stage, One), "best")
      BY <3>1, NewItem DEF Typed
    <3> QED
      BY <1>1, <3>2
  <2> QED
    BY <2>1, <2>2
<1>2. CASE r # One
  <2>1. AddMatch(it, "partial")
    BY <1>2 DEF Routed
  <2>2. r < One
    BY <1>2 DEF Ratios, One
  <2>3. Fits(it, "partial")
    BY <2>2, NewItem DEF Typed
  <2> QED
    BY <2>1, <2>3
<1> QED
  BY <1>1, <1>2

LEMMA RowAdds == ASSUME Typed, NEW m \in Main, NEW d \in Diff, Row(m, d) PROVE Adding
<1>1. ratio[<<m, d>>] \in Ratios /\ One \in Ratios
  BY DEF Typed, Pairs, Ratios, One
<1>2. ASSUME NEW s \in Working, RowOf(s) PROVE stage \in Working /\ UNCHANGED <<stage, ratio, results, unmatched>>
  BY <1>2 DEF RowOf
<1>3. ASSUME NEW s \in Working, RowOf(s), NEW val, AddMatchesInternal(m, d, val) PROVE Adding
  BY <1>1, <1>2, <1>3, RoutedAdds DEF AddMatchesInternal, Adding
<1>4. CASE EqualRow(m, d)
  <2> DEFINE it == ItemOf(m, d, Mangled[m], Mangled[d], stage, One)
  <2>1. Mangled[m] \in Names /\ Mangled[d] \in Names
    BY DEF Names
  <2>2. Fits(it, "best")
    <3>1. it \in Items
      BY <1>1, <2>1 DEF Items, ItemOf, Typed
    <3>2. Named(it)
      BY DEF Named, ItemOf
    <3>3. it.ratio = One
      BY DEF ItemOf
    <3> QED
      BY <3>1, <3>2, <3>3 DEF Fits
  <2>3. AddMatch(it, "best") /\ RowOf("equal") /\ "equal" \in Working
    BY <1>4 DEF EqualRow, Working, Stages
  <2> QED
    BY <1>2, <2>2, <2>3 DEF Adding
<1>5. CASE StrippedRow(m, d)
  <2>1. "stripped" \in Working
    BY DEF Working, Stages
  <2> QED
    BY <1>3, <1>5, <2>1 DEF StrippedRow
<1>6. CASE SameNameRow(m, d)
  <2> DEFINE r == IF ratio[<<m, d>>] = One THEN One ELSE WithBonus(ratio[<<m, d>>])
  <2>1. r \in Ratios
    BY <1>1, BonusKeeps
  <2>2. RowOf("sameName") /\ Routed(m, d, stage, r, 0) /\ "sameName" \in Working
    BY <1>6 DEF SameNameRow, Working, Stages
  <2> HIDE DEF r
  <2> QED
    BY <1>2, <2>1, <2>2, RoutedAdds DEF Adding
<1>7. CASE RemainingRow(m, d)
  <2>1. "remaining" \in Working
    BY DEF Working, Stages
  <2> QED
    BY <1>3, <1>7, <2>1 DEF RemainingRow
<1>8. CASE QueryRow(m, d)
  <2>1. RowOf("bestQuery") /\ Routed(m, d, stage, One, One) /\ "bestQuery" \in Working
    BY <1>8 DEF QueryRow, AddMatchesFromQuery, Working, Stages
  <2> QED
    BY <1>1, <1>2, <2>1, RoutedAdds DEF Adding
<1>9. ASSUME NEW kind \in {"bestRatio", "partialRatio"}, NEW min, RatioRow(m, d, kind, min) PROVE Adding
  <2>1. kind \in Working
    BY DEF Working, Stages
  <2> QED
    BY <1>3, <1>9, <2>1 DEF RatioRow
<1>10. CASE SmallDifferencesRow(m, d)
  <2>1. "small" \in Working
    BY DEF Working, Stages
  <2> QED
    BY <1>3, <1>10, <2>1 DEF SmallDifferencesRow
<1>11. CASE CalleeCandidate(m, d)
  <2> DEFINE r == IF ratio[<<m, d>>] = One THEN One ELSE WithBonus(ratio[<<m, d>>])
             c == IF ratio[<<m, d>>] = One THEN "best" ELSE "partial"
             it == ItemOf(m, d, Name[m], Name[d], stage, r)
  <2>1. RowOf("callees") /\ AddMatch(it, c) /\ "callees" \in Working
    BY <1>11 DEF CalleeCandidate, Working, Stages
  <2>2. r \in Ratios /\ ((c = "best" /\ r = One) \/ (c = "partial" /\ r < One))
    <3>1. CASE ratio[<<m, d>>] = One
      BY <1>1, <3>1
    <3>2. CASE ratio[<<m, d>>] # One
      BY <1>1, <3>2, BonusKeeps
    <3> QED
      BY <3>1, <3>2
  <2> HIDE DEF r, c
  <2>3. Fits(it, c)
    BY <2>2, NewItem DEF Typed
  <2> HIDE DEF it
  <2> QED
    BY <1>2, <2>1, <2>3 DEF Adding
<1>12. CASE ConstantsRow(m, d)
  <2>1. "constants" \in Working
    BY DEF Working, Stages
  <2> QED
    BY <1>3, <1>12, <2>1 DEF ConstantsRow
<1>13. CASE UnitRow(m, d)
  <2>1. "unitRows" \in Working
    BY DEF Working, Stages
  <2> QED
    BY <1>3, <1>13, <2>1 DEF UnitRow
<1>14. CASE LocallyAffine(m, d)
  <2>1. RowOf("affine") /\ Routed(m, d, stage, ratio[<<m, d>>], DefaultPartial) /\ "affine" \in Working
    BY <1>14 DEF LocallyAffine, Working, Stages
  <2> QED
    BY <1>1, <1>2, <2>1, RoutedAdds DEF Adding
<1> QED
  BY <1>4, <1>5, <1>6, <1>7, <1>8, <1>9, <1>10, <1>11, <1>12, <1>13, <1>14 DEF Row

LEMMA StepKinds == ASSUME Typed, Next PROVE Adding \/ Cleaning \/ Moving \/ FinalPass \/ FindUnmatched
<1>1. ASSUME NEW m \in Main, NEW d \in Diff, Row(m, d) PROVE Adding
  BY <1>1, RowAdds
<1>2. ASSUME NEW found \in {"none", "stripped", "patch"}, ApplyDirtyHeuristics(found) PROVE Moving
  BY <1>2 DEF ApplyDirtyHeuristics, GoTo, BeforeSameName, AfterSameName, state, Moving, Working, Stages
<1>3. CASE StrippedEnds
  BY <1>3 DEF StrippedEnds, GoTo, BeforeSameName, AfterSameName, state, Moving, Working, Stages
<1>4. CASE SameNameEnds
  BY <1>4 DEF SameNameEnds, GoTo, AfterSameName, state, Moving, Working, Stages
<1>5. ASSUME NEW kind \in {"bestQuery", "bestRatio", "partialRatio"}, StartHeuristic(kind) PROVE Moving
  BY <1>5 DEF StartHeuristic, GoTo, state, Moving, Working, Stages
<1>6. CASE HeuristicEnds
  BY <1>6 DEF HeuristicEnds, GoTo, state, Moving, Working, Stages
<1>7. CASE CategoryEnds
  BY <1>7 DEF CategoryEnds, GoTo, Cleaning, Working, Stages
<1>8. CASE SmallDifferencesEnds
  BY <1>8 DEF SmallDifferencesEnds, GoTo, state, Moving, Working, Stages
<1>9. CASE LoopCleanupTop
  BY <1>9 DEF LoopCleanupTop, GoTo, Cleaning, Working, Stages
<1>10. CASE CalleeRoundEnds
  BY <1>10 DEF CalleeRoundEnds, GoTo, Cleaning, Working, Stages
<1>11. CASE LoopCleanupBottom
  BY <1>11 DEF LoopCleanupBottom, GoTo, Cleaning, Working, Stages
<1>12. ASSUME NEW s \in {"diffing", "related", "unit", "gaps"}, StartLoopStage(s) PROVE Cleaning
  <2>1. s \in Working /\ LoopStages[s] \in Working
    BY DEF LoopStages, Working, Stages
  <2> QED
    BY <1>12, <2>1 DEF StartLoopStage, GoTo, Cleaning
<1>13. ASSUME NEW s \in {"constants", "unitRows", "affine"}, LoopStageEnds(s) PROVE Moving
  <2>1. s \in Working /\ LoopStageAfter[s] \in Working
    BY DEF LoopStageAfter, Working, Stages
  <2> QED
    BY <1>13, <2>1 DEF LoopStageEnds, GoTo, state, Moving
<1> QED
  BY <1>1, <1>2, <1>3, <1>4, <1>5, <1>6, <1>7, <1>8, <1>9, <1>10, <1>11, <1>12, <1>13 DEF Next

\* The lists and the dictionaries.
IInv == Typed /\ GoodLists(lists) /\ BackedBy(ItemsOf(lists), primary, secondary)

LEMMA AddingKeeps ==
  ASSUME GoodLists(lists), BackedBy(ItemsOf(lists), primary, secondary), NEW it, NEW c, Fits(it, c), AddMatch(it, c)
  PROVE  /\ GoodLists(lists') /\ ItemsOf(lists') = ItemsOf(lists) \cup {it}
         /\ BackedBy(ItemsOf(lists'), primary', secondary')
<1>1. lists' = IF it \in ToSet(lists[c]) THEN lists ELSE [lists EXCEPT ![c] = Append(@, it)]
  BY DEF AddMatch
<1>2. GoodLists(lists') /\ ItemsOf(lists') = ItemsOf(lists) \cup {it}
  BY <1>1, ListGrows
<1>3. /\ primary' = Put(primary, it.n1, [other |-> it.n2, ratio |-> FakeRatio(it)])
      /\ secondary' = Put(secondary, it.n2, [other |-> it.n1, ratio |-> FakeRatio(it)])
  BY DEF AddMatch
<1>4. BackedBy(ItemsOf(lists) \cup {it}, primary', secondary')
  BY <1>3, AddBacks
<1> QED
  BY <1>2, <1>4

LEMMA CleanupKeeps ==
  ASSUME GoodLists(lists), Cleanup
  PROVE  /\ GoodLists(lists') /\ Settled(lists') /\ lists' = Pruned(lists) /\ ItemsOf(lists') \subseteq ItemsOf(lists)
         /\ BackedBy(ItemsOf(lists'), primary', secondary')
<1> DEFINE kept == Pruned(lists)
<1>1. GoodLists(kept) /\ Settled(kept) /\ ItemsOf(kept) \subseteq ItemsOf(lists)
  BY PrunedGood
<1>2. /\ lists' = kept
      /\ primary' = Entries(AllItems(kept), "n1", "n2") /\ secondary' = Entries(AllItems(kept), "n2", "n1")
  BY DEF Cleanup
<1> HIDE DEF kept
<1>3. BackedBy(ItemsOf(kept), Entries(AllItems(kept), "n1", "n2"), Entries(AllItems(kept), "n2", "n1"))
  BY <1>1, CleanupBacks DEF GoodLists
<1>4. BackedBy(ItemsOf(lists'), primary', secondary')
  BY <1>2, <1>3
<1> QED
  BY <1>1, <1>2, <1>4 DEF kept

LEMMA InitIInv == Init => IInv
<1>1. SUFFICES ASSUME Init PROVE IInv
  OBVIOUS
<1>2. Typed
  <2>1. ratio \in [Pairs -> Ratios]
    BY <1>1, MatchingConstants DEF Init
  <2> QED
    BY <1>1, <2>1 DEF Init, Typed, Stages
<1>3. lists["best"] = <<>> /\ lists["partial"] = <<>> /\ lists["unreliable"] = <<>>
  BY <1>1 DEF Init
<1>4. IsLists(lists)
  BY <1>1, <1>3, EmptyList DEF Init, IsLists
<1>5. ItemsOf(lists) = {}
  BY <1>3, EmptyList DEF ItemsOf
<1>6. GoodLists(lists)
  BY <1>3, <1>4, <1>5, EmptyList DEF GoodLists, Filed
<1>7. DOMAIN primary = {} /\ DOMAIN secondary = {}
  BY <1>1 DEF Init
<1>8. BackedBy(ItemsOf(lists), primary, secondary)
  BY <1>5, <1>7 DEF BackedBy
<1> QED
  BY <1>2, <1>6, <1>8 DEF IInv

LEMMA NextIInv == IInv /\ [Next]_vars => IInv'
<1>1. SUFFICES ASSUME IInv, [Next]_vars PROVE IInv'
  OBVIOUS
<1>2. CASE UNCHANGED vars
  BY <1>1, <1>2 DEF vars, IInv, Typed
<1>3. CASE Adding
  <2>1. PICK it, c : Fits(it, c) /\ AddMatch(it, c)
    BY <1>3 DEF Adding
  <2>2. GoodLists(lists') /\ BackedBy(ItemsOf(lists'), primary', secondary')
    BY <1>1, <2>1, AddingKeeps DEF IInv
  <2> QED
    BY <1>1, <1>3, <2>2 DEF Adding, IInv, Typed
<1>4. CASE Cleaning
  <2>1. GoodLists(lists') /\ BackedBy(ItemsOf(lists'), primary', secondary')
    BY <1>1, <1>4, CleanupKeeps DEF IInv, Cleaning
  <2>2. Typed'
    BY <1>1, <1>4 DEF Cleaning, IInv, Typed, Working
  <2> QED
    BY <2>1, <2>2 DEF IInv
<1>5. CASE Moving
  <2>1. Typed'
    BY <1>1, <1>5 DEF Moving, IInv, Typed, Working
  <2> QED
    BY <1>1, <1>5, <2>1 DEF Moving, IInv
<1>6. CASE FinalPass
  <2>1. GoodLists(lists') /\ BackedBy(ItemsOf(lists'), primary', secondary')
    BY <1>1, <1>6, CleanupKeeps DEF IInv, FinalPass
  <2>2. stage' \in {"raised", "unmatched"} /\ ratio' = ratio
    BY <1>6 DEF FinalPass
  <2>3. Typed'
    BY <1>1, <2>2 DEF IInv, Typed, Stages
  <2> QED
    BY <2>1, <2>3 DEF IInv
<1>7. CASE FindUnmatched
  <2>1. stage' = "done" /\ UNCHANGED <<lists, primary, secondary, ratio>>
    BY <1>7 DEF FindUnmatched, state
  <2>2. Typed'
    BY <1>1, <2>1 DEF IInv, Typed, Stages
  <2> QED
    BY <1>1, <2>1, <2>2 DEF IInv
<1> QED
  BY <1>1, <1>2, <1>3, <1>4, <1>5, <1>6, <1>7, StepKinds DEF IInv

\* The invariant of MatchState, for any exports, names and ratios: best items have a ratio of 1.0, partial
\* items less, every item bears names of its functions, and the dictionaries agree with the lists.
THEOREM Invariance == Spec => []IInv
<1>1. Init => IInv
  BY InitIInv
<1>2. IInv /\ [Next]_vars => IInv'
  BY NextIInv
<1> QED
  BY <1>1, <1>2, PTL DEF Spec

\* EntriesBacked, for any exports, names and ratios: AddMatch and Cleanup keep the dictionaries and the
\* lists in step.
THEOREM DictionariesBacked == Spec => []EntriesBacked
<1>1. IInv => EntriesBacked
  <2>1. SUFFICES ASSUME IInv PROVE EntriesBacked
    OBVIOUS
  <2>2. Listed = ItemsOf(lists)
    BY <2>1, AllItemsSet DEF IInv, GoodLists, Listed
  <2>3. BackedBy(Listed, primary, secondary)
    BY <2>1, <2>2 DEF IInv
  <2> QED
    BY <2>3 DEF BackedBy, Stands, EntriesBacked
<1> QED
  BY <1>1, Invariance, PTL

\* CleanupIdempotent, for any exports, names and ratios: what MatchState::Cleanup leaves is sorted, has no
\* pair of names twice and no main function whose fake ratio falls, so a second walk keeps every item.
THEOREM SecondCleanupIdle == Spec => []CleanupIdempotent
<1>1. IInv => CleanupIdempotent
  <2>1. SUFFICES ASSUME IInv PROVE Pruned(Pruned(lists)) = Pruned(lists)
    BY DEF CleanupIdempotent
  <2>2. Settled(Pruned(lists))
    BY <2>1, PrunedGood DEF IInv
  <2> QED
    BY <2>2, SettledStays
<1> QED
  BY <1>1, Invariance, PTL

-----------------------------------------------------------------------------
(* No main function loses its last match. *)

\* walked are the items of all categories so far, prev the kept ones of earlier categories.
Covering(acc, walked, prev) ==
  /\ acc.out \in Seq(Items) /\ acc.dones \subseteq {Key(x) : x \in walked}
  /\ \A x \in walked : x \in Items /\ Named(x) /\ x.ea1 \in DOMAIN acc.eaRatios
  /\ \A m \in DOMAIN acc.eaRatios : \E x \in prev \cup ToSet(acc.out) : x.ea1 = m

LEMMA SameKeySameMain ==
  ASSUME KeysTellMainsApart, NEW x \in Items, NEW y \in Items, Named(x), Named(y), Key(x) = Key(y)
  PROVE  x.ea1 = y.ea1
<1>1. x.ea1 \in Main /\ y.ea1 \in Main /\ x.ea2 \in Diff /\ y.ea2 \in Diff
  BY DEF Items
<1>3. /\ x.n1 \in {Name[x.ea1], Mangled[x.ea1]} /\ x.n2 \in {Name[x.ea2], Mangled[x.ea2]}
      /\ y.n1 \in {Name[y.ea1], Mangled[y.ea1]} /\ y.n2 \in {Name[y.ea2], Mangled[y.ea2]}
  BY DEF Named
<1>4. Key(x) \in KeysOf(x.ea1, x.ea2) /\ Key(y) \in KeysOf(y.ea1, y.ea2)
  BY <1>3 DEF Key, KeysOf
<1> QED
  BY <1>1, <1>4 DEF KeysTellMainsApart

LEMMA PruneCovers ==
  ASSUME KeysTellMainsApart, NEW acc, NEW walked, NEW prev, NEW it \in Items, Named(it), Covering(acc, walked, prev)
  PROVE  Covering(Prune(acc, it), walked \cup {it}, prev)
<1> DEFINE new == Prune(acc, it)
<1>1. CASE Key(it) \in acc.dones /\ new = acc
  <2>1. PICK x \in walked : Key(x) = Key(it)
    BY <1>1 DEF Covering
  <2>2. x.ea1 = it.ea1
    BY <2>1, SameKeySameMain DEF Covering
  <2>3. it.ea1 \in DOMAIN acc.eaRatios
    BY <2>2 DEF Covering
  <2> QED
    BY <1>1, <2>3 DEF Covering
<1>2. CASE /\ new.dones = acc.dones \cup {Key(it)} /\ it.ea1 \in DOMAIN acc.eaRatios
           /\ new.eaRatios = acc.eaRatios /\ new.out = acc.out
  <2> HIDE DEF new
  <2>1. Covering(new, walked \cup {it}, prev)
    BY <1>2 DEF Covering
  <2> QED
    BY <2>1 DEF new
<1>3. CASE /\ new.dones = acc.dones \cup {Key(it)}
           /\ new.eaRatios = Put(acc.eaRatios, it.ea1, FakeRatio(it))
           /\ new.out = Append(acc.out, it)
  <2> HIDE DEF new
  <2>1. DOMAIN new.eaRatios = DOMAIN acc.eaRatios \cup {it.ea1}
    BY <1>3 DEF Put
  <2>2. new.out \in Seq(Items) /\ ToSet(new.out) = ToSet(acc.out) \cup {it}
    BY <1>3, AppendItem DEF Covering
  <2>3. Covering(new, walked \cup {it}, prev)
    BY <1>3, <2>1, <2>2 DEF Covering
  <2> QED
    BY <2>3 DEF new
<1> QED
  BY <1>1, <1>2, <1>3, PruneCases

LEMMA PruneListCovers ==
  ASSUME KeysTellMainsApart, NEW acc, NEW walked, NEW prev, NEW s \in Seq(Items), \A x \in ToSet(s) : Named(x),
         Covering(Start(acc), walked, prev)
  PROVE  Covering(PruneList(acc, s), walked \cup ToSet(s), prev)
<1> DEFINE t == SortDescending(s)
           n == Len(s)
<1>1. n \in Nat /\ t \in Seq(Items) /\ Len(t) = n /\ DOMAIN t = 1..n /\ ToSet(t) = ToSet(s)
  <2>1. t \in Seq(Items) /\ Len(t) = n /\ ToSet(t) = ToSet(s)
    BY SortFacts
  <2> QED
    BY <2>1
<1>2. PICK g : /\ g[0] = Start(acc) /\ g[n] = PruneList(acc, s)
               /\ \A k \in 0..n : k # n => g[k + 1] = Prune(g[k], t[k + 1])
  BY <1>1, WalkOf
<1> HIDE DEF t, n
<1> DEFINE S == {k \in Nat : k <= n => Covering(g[k], walked \cup Prefix(t, k), prev)}
<1>3. 0 \in S
  <2>1. Prefix(t, 0) = {}
    BY DEF Prefix
  <2>2. walked \cup Prefix(t, 0) = walked
    BY <2>1
  <2> QED
    BY <1>2, <2>2
<1>4. ASSUME NEW k \in S PROVE k + 1 \in S
  <2>1. SUFFICES ASSUME k + 1 <= n PROVE Covering(g[k + 1], walked \cup Prefix(t, k + 1), prev)
    OBVIOUS
  <2>2. k \in Nat /\ k \in 0..n /\ k # n /\ k <= n /\ k + 1 \in 1..n
    BY <1>1, <2>1
  <2>3. Covering(g[k], walked \cup Prefix(t, k), prev)
    BY <2>2
  <2> HIDE DEF S
  <2>4. g[k + 1] = Prune(g[k], t[k + 1])
    BY <1>2, <2>2
  <2>5. t[k + 1] \in Items /\ Named(t[k + 1])
    <3>1. t[k + 1] \in Items /\ t[k + 1] \in ToSet(t)
      BY <1>1, <2>2 DEF ToSet
    <3> QED
      BY <1>1, <3>1
  <2>6. Covering(Prune(g[k], t[k + 1]), (walked \cup Prefix(t, k)) \cup {t[k + 1]}, prev)
    BY <2>3, <2>5, PruneCovers
  <2>7. (walked \cup Prefix(t, k)) \cup {t[k + 1]} = walked \cup Prefix(t, k + 1)
    BY <2>2, PrefixGrows
  <2> QED
    BY <2>4, <2>6, <2>7
<1>5. S \in SUBSET Nat
  OBVIOUS
<1> HIDE DEF S
<1>6. n \in S
  BY <1>1, <1>3, <1>4, <1>5, SetInduction
<1>7. Covering(g[n], walked \cup Prefix(t, n), prev)
  BY <1>1, <1>6 DEF S
<1>8. Prefix(t, n) = ToSet(s)
  <2>1. Prefix(t, n) = ToSet(t)
    BY <1>1 DEF Prefix, ToSet
  <2> QED
    BY <1>1, <2>1
<1> QED
  BY <1>2, <1>7, <1>8

LEMMA Restarted ==
  ASSUME NEW acc, NEW walked, NEW prev, Covering(acc, walked, prev)
  PROVE  Covering(Start(acc), walked, prev \cup ToSet(acc.out))
<1> DEFINE s == Start(acc)
<1>1. s.dones = acc.dones /\ s.eaRatios = acc.eaRatios /\ s.out = <<>>
  BY DEF Start
<1> HIDE DEF s
<1>2. Covering(s, walked, prev \cup ToSet(acc.out))
  BY <1>1, EmptyList DEF Covering
<1> QED
  BY <1>2 DEF s

LEMMA PrunedCovers ==
  ASSUME KeysTellMainsApart, NEW l, GoodLists(l), NEW it \in ItemsOf(l)
  PROVE  \E x \in ItemsOf(Pruned(l)) : x.ea1 = it.ea1
<1> DEFINE none == [dones |-> {}, eaRatios |-> <<>>, out |-> <<>>]
           b == PruneList(none, l["best"])
           p == PruneList(b, l["partial"])
           u == PruneList(p, l["unreliable"])
           B == ToSet(l["best"])
           P == ToSet(l["partial"])
           U == ToSet(l["unreliable"])
<1>1. Pruned(l) = [best |-> b.out, partial |-> p.out, unreliable |-> u.out]
  BY DEF Pruned
<1>2. l["best"] \in Seq(Items) /\ l["partial"] \in Seq(Items) /\ l["unreliable"] \in Seq(Items)
  BY DEF GoodLists, IsLists
<1>3. \A x \in B \cup P \cup U : Named(x)
  BY DEF GoodLists, ItemsOf
<1>4. Covering(Start(none), {}, {})
  <2> DEFINE s == Start(none)
  <2>1. s.dones = {} /\ s.out = <<>> /\ DOMAIN s.eaRatios = {}
    BY DEF Start
  <2> HIDE DEF s
  <2>2. Covering(s, {}, {})
    BY <2>1, EmptyList DEF Covering
  <2> QED
    BY <2>2 DEF s
<1> HIDE DEF none
<1>5. Covering(b, {} \cup B, {})
  BY <1>2, <1>3, <1>4, PruneListCovers
<1> HIDE DEF b
<1>6. Covering(Start(b), {} \cup B, {} \cup ToSet(b.out))
  BY <1>5, Restarted
<1>7. Covering(p, ({} \cup B) \cup P, {} \cup ToSet(b.out))
  BY <1>2, <1>3, <1>6, PruneListCovers
<1> HIDE DEF p
<1>8. Covering(Start(p), ({} \cup B) \cup P, ({} \cup ToSet(b.out)) \cup ToSet(p.out))
  BY <1>7, Restarted
<1>9. Covering(u, (({} \cup B) \cup P) \cup U, ({} \cup ToSet(b.out)) \cup ToSet(p.out))
  BY <1>2, <1>3, <1>8, PruneListCovers
<1> HIDE DEF u
<1>10. it \in (({} \cup B) \cup P) \cup U
  BY DEF ItemsOf
<1> HIDE DEF B, P, U
<1>11. it.ea1 \in DOMAIN u.eaRatios
  BY <1>9, <1>10 DEF Covering
<1>12. PICK x \in (({} \cup ToSet(b.out)) \cup ToSet(p.out)) \cup ToSet(u.out) : x.ea1 = it.ea1
  BY <1>9, <1>11 DEF Covering
<1>13. x \in ItemsOf(Pruned(l))
  BY <1>1, <1>12 DEF ItemsOf
<1> QED
  BY <1>12, <1>13

\* MainStaysMatched, for any exports whose names tell the main functions apart: the first item of a main
\* function in the walk of MatchState::Cleanup is kept.
THEOREM MainKeepsMatch == ASSUME KeysTellMainsApart PROVE Spec => MainStaysMatched
<1>1. ASSUME IInv, [Next]_vars
      PROVE  [\A m \in Main : (\E it \in Listed : it.ea1 = m) => \E it \in Listed' : it.ea1 = m]_vars
  <2>1. SUFFICES ASSUME Next, IInv', NEW it \in Listed PROVE \E x \in Listed' : x.ea1 = it.ea1
    <3>1. IInv'
      BY <1>1, NextIInv
    <3> QED
      BY <1>1, <3>1
  <2>2. Listed = ItemsOf(lists)
    BY <1>1, AllItemsSet DEF IInv, GoodLists, Listed
  <2>3. Listed' = ItemsOf(lists')
    BY <2>1, AllItemsSet DEF IInv, GoodLists, Listed
  <2>4. CASE Adding
    <3>1. PICK new, c : Fits(new, c) /\ AddMatch(new, c)
      BY <2>4 DEF Adding
    <3>2. ItemsOf(lists') = ItemsOf(lists) \cup {new}
      BY <1>1, <3>1, AddingKeeps DEF IInv
    <3> QED
      BY <2>1, <2>2, <2>3, <3>2
  <2>5. CASE Cleanup
    <3>1. lists' = Pruned(lists)
      BY <2>5 DEF Cleanup
    <3> QED
      BY <1>1, <2>1, <2>2, <2>3, <3>1, PrunedCovers DEF IInv
  <2>6. CASE lists' = lists
    BY <2>1, <2>2, <2>3, <2>6
  <2> QED
    BY <1>1, <2>1, <2>4, <2>5, <2>6, StepKinds DEF IInv, Cleaning, Moving, FinalPass, FindUnmatched, state
<1> QED
  BY <1>1, Invariance, PTL DEF Spec, MainStaysMatched

-----------------------------------------------------------------------------
(* The walk of the final pass. *)

\* The order of the walk: descending ratios, and no pair of names twice.
Chained(s) == Descending(s) /\ \A i, j \in 1..Len(s) : i < j => Key(s[i]) # Key(s[j])

LEMMA JoinedChained ==
  ASSUME NEW s \in Seq(Items), NEW t \in Seq(Items), Chained(s), Chained(t),
         \A x \in ToSet(s), y \in ToSet(t) : x.ratio >= y.ratio /\ Key(x) # Key(y)
  PROVE  Chained(s \o t)
<1> DEFINE r == s \o t
           n == Len(s)
           p == Len(t)
<1>1. r \in Seq(Items) /\ Len(r) = n + p /\ n \in Nat /\ p \in Nat
      /\ \A i \in 1..(n + p) : r[i] = IF i <= n THEN s[i] ELSE t[i - n]
  BY ConcatProperties
<1>2. DOMAIN s = 1..n /\ DOMAIN t = 1..p
  OBVIOUS
<1>3. /\ \A i, j \in 1..n : i < j => s[i].ratio >= s[j].ratio /\ Key(s[i]) # Key(s[j])
      /\ \A i, j \in 1..p : i < j => t[i].ratio >= t[j].ratio /\ Key(t[i]) # Key(t[j])
  BY DEF Chained, Descending
<1> HIDE DEF r, n, p
<1>4. ASSUME NEW i \in 1..(n + p), NEW j \in 1..(n + p), i < j
      PROVE  r[i].ratio >= r[j].ratio /\ Key(r[i]) # Key(r[j])
  <2>1. CASE j <= n
    <3>1. i \in 1..n /\ j \in 1..n /\ r[i] = s[i] /\ r[j] = s[j]
      BY <1>1, <1>4, <2>1
    <3> QED
      BY <1>3, <1>4, <3>1
  <2>2. CASE i <= n /\ ~(j <= n)
    <3>1. i \in 1..n /\ j - n \in 1..p /\ r[i] = s[i] /\ r[j] = t[j - n]
      BY <1>1, <1>4, <2>2
    <3>2. r[i] \in ToSet(s) /\ r[j] \in ToSet(t)
      BY <1>2, <3>1 DEF ToSet
    <3> QED
      BY <3>2
  <2>3. CASE ~(i <= n)
    <3>1. i - n \in 1..p /\ j - n \in 1..p /\ i - n < j - n /\ r[i] = t[i - n] /\ r[j] = t[j - n]
      BY <1>1, <1>4, <2>3
    <3> QED
      BY <1>3, <3>1
  <2> QED
    BY <1>1, <1>4, <2>1, <2>2, <2>3
<1>5. Chained(r)
  BY <1>1, <1>4 DEF Chained, Descending
<1> QED
  BY <1>5 DEF r

\* What find_unresolved_multimatches walks.
Sequence(l) == SortDescending(l["best"]) \o SortDescending(l["partial"]) \o SortDescending(l["unreliable"])

LEMMA SequenceChained ==
  ASSUME NEW l, GoodLists(l), Settled(l)
  PROVE  Sequence(l) \in Seq(Items) /\ ToSet(Sequence(l)) = ItemsOf(l) /\ Chained(Sequence(l))
<1> DEFINE b == l["best"]
           p == l["partial"]
           u == l["unreliable"]
<1>1. b \in Seq(Items) /\ p \in Seq(Items) /\ u \in Seq(Items)
  BY DEF GoodLists, IsLists
<1>2. Chained(b) /\ Chained(p) /\ Chained(u)
  BY DEF Settled, Ordered, Chained, Apart
<1>3. SortDescending(b) = b /\ SortDescending(p) = p /\ SortDescending(u) = u
  BY <1>1, <1>2, SortedStays DEF Chained
<1>4. (\A x \in ToSet(b) : x.ratio = One) /\ (\A x \in ToSet(p) : x.ratio < One) /\ ToSet(u) = {}
  BY DEF GoodLists, Filed
<1>5. \A x \in ToSet(b), y \in ToSet(p) : Key(x) # Key(y)
  BY DEF Settled, After, Apart
<1>6. \A x \in ToSet(p) : x.ratio \in Nat
  BY <1>1, FakeIsRatio DEF ToSet
<1> HIDE DEF b, p, u
<1>7. \A x \in ToSet(b), y \in ToSet(p) : x.ratio >= y.ratio /\ Key(x) # Key(y)
  BY <1>4, <1>5, <1>6 DEF One
<1> DEFINE q == b \o p
<1>8. q \in Seq(Items) /\ ToSet(q) = ToSet(b) \cup ToSet(p)
  BY <1>1, JoinedItems
<1>9. Chained(q)
  BY <1>1, <1>2, <1>7, JoinedChained
<1> HIDE DEF q
<1>10. \A x \in ToSet(q), y \in ToSet(u) : x.ratio >= y.ratio /\ Key(x) # Key(y)
  BY <1>4
<1>11. q \o u \in Seq(Items) /\ ToSet(q \o u) = ToSet(q) \cup ToSet(u)
  BY <1>1, <1>8, JoinedItems
<1>12. Chained(q \o u)
  BY <1>1, <1>2, <1>8, <1>9, <1>10, JoinedChained
<1>13. Sequence(l) = q \o u
  BY <1>3 DEF Sequence, q, b, p, u
<1>14. ItemsOf(l) = ToSet(q) \cup ToSet(u)
  BY <1>8 DEF ItemsOf, b, p, u
<1> QED
  BY <1>11, <1>12, <1>13, <1>14

NoMaxima == [dones |-> {}, maxMain |-> <<>>, multiMain |-> [m \in Main |-> {}],
             maxDiff |-> <<>>, multiDiff |-> [d \in Diff |-> {}]]

Resolving(g, s, n) == g = [k \in 0..n |-> IF k = 0 THEN NoMaxima ELSE Resolve(g[k - 1], s[k])]

LEMMA ResolvingExists == ASSUME NEW s, NEW n \in Nat PROVE \E g : Resolving(g, s, n)
<1> DEFINE S == {k \in Nat : \E g : Resolving(g, s, k)}
<1>1. 0 \in S
  <2> DEFINE g == [k \in 0..0 |-> NoMaxima]
  <2>1. Resolving(g, s, 0)
    BY DEF Resolving
  <2> QED
    BY <2>1
<1>2. ASSUME NEW m \in S PROVE m + 1 \in S
  <2>1. PICK g : Resolving(g, s, m)
    OBVIOUS
  <2> DEFINE h == [k \in 0..(m + 1) |-> IF k <= m THEN g[k] ELSE Resolve(g[m], s[m + 1])]
  <2>2. m \in Nat /\ m + 1 \in Nat
    OBVIOUS
  <2> HIDE DEF S
  <2>3. \A k \in 0..m : h[k] = g[k]
    BY <2>2
  <2>4. ASSUME NEW k \in 0..(m + 1) PROVE h[k] = IF k = 0 THEN NoMaxima ELSE Resolve(h[k - 1], s[k])
    <3>1. CASE k \in 0..m
      <4>1. g[k] = IF k = 0 THEN NoMaxima ELSE Resolve(g[k - 1], s[k])
        BY <2>1, <3>1 DEF Resolving
      <4>2. k # 0 => k - 1 \in 0..m
        BY <2>2, <3>1
      <4> HIDE DEF h
      <4>3. k # 0 => h[k - 1] = g[k - 1]
        BY <2>3, <4>2
      <4> QED
        BY <2>3, <3>1, <4>1, <4>3
    <3>2. CASE k = m + 1
      <4>1. k # 0 /\ k - 1 = m /\ m \in 0..m /\ ~(k <= m)
        BY <2>2, <3>2
      <4>2. h[k] = Resolve(g[m], s[m + 1])
        BY <4>1
      <4>3. h[k - 1] = g[m]
        BY <2>3, <4>1
      <4> HIDE DEF h
      <4> QED
        BY <3>2, <4>1, <4>2, <4>3
    <3> QED
      BY <2>2, <3>1, <3>2
  <2>5. h = [k \in 0..(m + 1) |-> h[k]]
    OBVIOUS
  <2> HIDE DEF h
  <2>6. Resolving(h, s, m + 1)
    BY <2>4, <2>5 DEF Resolving
  <2> QED
    BY <2>2, <2>6 DEF S
<1>3. S \in SUBSET Nat
  OBVIOUS
<1> HIDE DEF S
<1>4. n \in S
  BY <1>1, <1>2, <1>3, SetInduction
<1> QED
  BY <1>4 DEF S

\* The accumulators after each item, the last ones being Unresolved.
LEMMA ResolveWalk ==
  ASSUME NEW l, Len(Sequence(l)) \in Nat
  PROVE  \E g : /\ g[0] = NoMaxima /\ g[Len(Sequence(l))] = Unresolved(l)
                /\ \A k \in 0..Len(Sequence(l)) : k # Len(Sequence(l)) => g[k + 1] = Resolve(g[k], Sequence(l)[k + 1])
<1> DEFINE s == Sequence(l)
           g == CHOOSE g : Resolving(g, s, Len(s))
<1>1. Resolving(g, s, Len(s))
  BY ResolvingExists
<1>2. Unresolved(l) = g[Len(s)]
  BY DEF Unresolved, Resolving, NoMaxima, Sequence
<1> HIDE DEF g, s
<1>3. g[0] = NoMaxima
  BY <1>1 DEF Resolving, s
<1>4. ASSUME NEW k \in 0..Len(s), k # Len(s) PROVE g[k + 1] = Resolve(g[k], s[k + 1])
  <2>1. k + 1 \in 0..Len(s) /\ k + 1 # 0 /\ k + 1 - 1 = k
    BY <1>4 DEF s
  <2> QED
    BY <1>1, <2>1 DEF Resolving
<1> QED
  BY <1>2, <1>3, <1>4 DEF s

\* x has the best ratio of its main function.
Top(u, x) == x.ratio = u.maxMain[x.ea1]

\* What the accumulators say of the walked items W.
MainMaxima(u, W) ==
  /\ \A x \in W : x.ea1 \in DOMAIN u.maxMain /\ x.ratio <= u.maxMain[x.ea1]
  /\ \A m \in DOMAIN u.maxMain : \E x \in W : x.ea1 = m /\ x.ratio = u.maxMain[m]
  /\ DOMAIN u.multiMain = Main
  /\ \A m \in Main : \A x : x \in u.multiMain[m] <=> x \in W /\ x.ea1 = m /\ Top(u, x)

DiffMaxima(u, W) ==
  /\ \A x \in W : Top(u, x) => x.ea2 \in DOMAIN u.maxDiff /\ x.ratio <= u.maxDiff[x.ea2]
  /\ \A d \in DOMAIN u.maxDiff : \E x \in W : Top(u, x) /\ x.ea2 = d /\ x.ratio = u.maxDiff[d]
  /\ DOMAIN u.multiDiff = Diff
  /\ \A d \in Diff : \A x : x \in u.multiDiff[d] <=> x \in W /\ Top(u, x) /\ x.ea2 = d /\ x.ratio = u.maxDiff[d]

Maxima(u, W) == /\ \A x \in W : x \in Items
                /\ u.dones \subseteq {Pair(x) : x \in W}
                /\ MainMaxima(u, W) /\ DiffMaxima(u, W)

Beaten(max, k, r) == k \in DOMAIN max /\ max[k] > r

LEMMA ResolveCases ==
  ASSUME NEW acc, NEW it, Pair(it) \notin acc.dones
  PROVE  /\ Resolve(acc, it).dones = acc.dones \cup {Pair(it)}
         /\ \/ /\ Beaten(acc.maxMain, it.ea1, it.ratio)
               /\ Resolve(acc, it).maxMain = acc.maxMain /\ Resolve(acc, it).multiMain = acc.multiMain
               /\ Resolve(acc, it).maxDiff = acc.maxDiff /\ Resolve(acc, it).multiDiff = acc.multiDiff
            \/ /\ ~Beaten(acc.maxMain, it.ea1, it.ratio)
               /\ Resolve(acc, it).maxMain = Put(acc.maxMain, it.ea1, it.ratio)
               /\ Resolve(acc, it).multiMain = [acc.multiMain EXCEPT ![it.ea1] = @ \cup {it}]
               /\ \/ /\ Beaten(acc.maxDiff, it.ea2, it.ratio)
                     /\ Resolve(acc, it).maxDiff = acc.maxDiff /\ Resolve(acc, it).multiDiff = acc.multiDiff
                  \/ /\ ~Beaten(acc.maxDiff, it.ea2, it.ratio)
                     /\ Resolve(acc, it).maxDiff = Put(acc.maxDiff, it.ea2, it.ratio)
                     /\ Resolve(acc, it).multiDiff = [acc.multiDiff EXCEPT ![it.ea2] = @ \cup {it}]
<1> DEFINE new == Resolve(acc, it)
<1>1. CASE Beaten(acc.maxMain, it.ea1, it.ratio)
  <2>1. new = [dones |-> acc.dones \cup {Pair(it)}, maxMain |-> acc.maxMain, multiMain |-> acc.multiMain,
               maxDiff |-> acc.maxDiff, multiDiff |-> acc.multiDiff]
    BY <1>1 DEF Resolve, Beaten
  <2> HIDE DEF new
  <2>2. /\ new.dones = acc.dones \cup {Pair(it)} /\ new.maxMain = acc.maxMain /\ new.multiMain = acc.multiMain
        /\ new.maxDiff = acc.maxDiff /\ new.multiDiff = acc.multiDiff
    BY <2>1
  <2> QED
    BY <1>1, <2>2 DEF new
<1>2. CASE ~Beaten(acc.maxMain, it.ea1, it.ratio) /\ Beaten(acc.maxDiff, it.ea2, it.ratio)
  <2> DEFINE mm == Put(acc.maxMain, it.ea1, it.ratio)
             multi == [acc.multiMain EXCEPT ![it.ea1] = @ \cup {it}]
  <2>1. new = [dones |-> acc.dones \cup {Pair(it)}, maxMain |-> mm, multiMain |-> multi,
               maxDiff |-> acc.maxDiff, multiDiff |-> acc.multiDiff]
    BY <1>2 DEF Resolve, Beaten
  <2> HIDE DEF new, mm, multi
  <2>2. /\ new.dones = acc.dones \cup {Pair(it)} /\ new.maxMain = mm /\ new.multiMain = multi
        /\ new.maxDiff = acc.maxDiff /\ new.multiDiff = acc.multiDiff
    BY <2>1
  <2> QED
    BY <1>2, <2>2 DEF new, mm, multi
<1>3. CASE ~Beaten(acc.maxMain, it.ea1, it.ratio) /\ ~Beaten(acc.maxDiff, it.ea2, it.ratio)
  <2> DEFINE mm == Put(acc.maxMain, it.ea1, it.ratio)
             multi == [acc.multiMain EXCEPT ![it.ea1] = @ \cup {it}]
             md == Put(acc.maxDiff, it.ea2, it.ratio)
             multiD == [acc.multiDiff EXCEPT ![it.ea2] = @ \cup {it}]
  <2>1. new = [dones |-> acc.dones \cup {Pair(it)}, maxMain |-> mm, multiMain |-> multi,
               maxDiff |-> md, multiDiff |-> multiD]
    BY <1>3 DEF Resolve, Beaten
  <2> HIDE DEF new, mm, multi, md, multiD
  <2>2. /\ new.dones = acc.dones \cup {Pair(it)} /\ new.maxMain = mm /\ new.multiMain = multi
        /\ new.maxDiff = md /\ new.multiDiff = multiD
    BY <2>1
  <2> QED
    BY <1>3, <2>2 DEF new, mm, multi, md, multiD
<1> QED
  BY <1>1, <1>2, <1>3

\* A ratio that is not beaten equals the maximum, because the walk descends.
LEMMA MainPasses ==
  ASSUME NEW acc, NEW W, NEW it \in Items, MainMaxima(acc, W), \A x \in W : x \in Items /\ x.ratio >= it.ratio,
         it \notin W, ~Beaten(acc.maxMain, it.ea1, it.ratio),
         NEW new, new.maxMain = Put(acc.maxMain, it.ea1, it.ratio),
         new.multiMain = [acc.multiMain EXCEPT ![it.ea1] = @ \cup {it}]
  PROVE  /\ MainMaxima(new, W \cup {it}) /\ Top(new, it) /\ \A x \in W : Top(new, x) <=> Top(acc, x)
<1>1. /\ DOMAIN new.maxMain = DOMAIN acc.maxMain \cup {it.ea1}
      /\ new.maxMain[it.ea1] = it.ratio
      /\ \A m \in DOMAIN acc.maxMain : m # it.ea1 => new.maxMain[m] = acc.maxMain[m]
  <2> DEFINE dict == Put(acc.maxMain, it.ea1, it.ratio)
  <2>1. /\ DOMAIN dict = DOMAIN acc.maxMain \cup {it.ea1}
        /\ dict[it.ea1] = it.ratio
        /\ \A m \in DOMAIN acc.maxMain : m # it.ea1 => dict[m] = acc.maxMain[m]
    BY DEF Put
  <2> HIDE DEF dict
  <2>2. new.maxMain = dict
    BY DEF dict
  <2> QED
    BY <2>1, <2>2
<1>2. ASSUME it.ea1 \in DOMAIN acc.maxMain PROVE acc.maxMain[it.ea1] = it.ratio
  <2>1. PICK x \in W : x.ea1 = it.ea1 /\ x.ratio = acc.maxMain[it.ea1]
    BY <1>2 DEF MainMaxima
  <2>2. x.ratio >= it.ratio /\ ~(x.ratio > it.ratio) /\ x.ratio \in Nat /\ it.ratio \in Nat
    BY <1>2, <2>1, FakeIsRatio DEF Beaten
  <2> QED
    BY <2>1, <2>2
<1>3. \A m \in DOMAIN acc.maxMain : new.maxMain[m] = acc.maxMain[m]
  BY <1>1, <1>2
<1>4. \A x \in W : x.ea1 \in DOMAIN acc.maxMain /\ new.maxMain[x.ea1] = acc.maxMain[x.ea1]
  BY <1>3 DEF MainMaxima
<1>5. Top(new, it)
  BY <1>1 DEF Top
<1>6. \A x \in W : Top(new, x) <=> Top(acc, x)
  BY <1>4 DEF Top
<1>7. it.ea1 \in Main /\ it.ratio \in Nat
  BY DEF Items, Ratios, One
<1>8. DOMAIN new.multiMain = Main /\ new.multiMain[it.ea1] = acc.multiMain[it.ea1] \cup {it}
      /\ \A m \in Main : m # it.ea1 => new.multiMain[m] = acc.multiMain[m]
  BY <1>7 DEF MainMaxima
<1>9. \A x \in W \cup {it} : x.ea1 \in DOMAIN new.maxMain /\ x.ratio <= new.maxMain[x.ea1]
  <2>1. \A x \in W : x.ratio <= acc.maxMain[x.ea1]
    BY DEF MainMaxima
  <2> QED
    BY <1>1, <1>4, <1>7, <2>1
<1>10. \A m \in DOMAIN new.maxMain : \E x \in W \cup {it} : x.ea1 = m /\ x.ratio = new.maxMain[m]
  <2>1. \A m \in DOMAIN acc.maxMain : \E x \in W : x.ea1 = m /\ x.ratio = acc.maxMain[m]
    BY DEF MainMaxima
  <2> QED
    BY <1>1, <1>3, <2>1
<1>11. ASSUME NEW m \in Main, NEW x
       PROVE  x \in new.multiMain[m] <=> x \in W \cup {it} /\ x.ea1 = m /\ Top(new, x)
  <2>1. x \in acc.multiMain[m] <=> x \in W /\ x.ea1 = m /\ Top(acc, x)
    BY DEF MainMaxima
  <2>2. CASE x = it
    BY <1>5, <1>8, <2>1, <2>2
  <2>3. CASE x # it
    <3>1. x \in new.multiMain[m] <=> x \in acc.multiMain[m]
      BY <1>8, <2>3
    <3> QED
      BY <1>6, <2>1, <2>3, <3>1
  <2> QED
    BY <2>2, <2>3
<1>12. MainMaxima(new, W \cup {it})
  BY <1>8, <1>9, <1>10, <1>11 DEF MainMaxima
<1> QED
  BY <1>5, <1>6, <1>12

LEMMA DiffPasses ==
  ASSUME NEW acc, NEW W, NEW it \in Items, DiffMaxima(acc, W), \A x \in W : x \in Items /\ x.ratio >= it.ratio,
         it \notin W, ~Beaten(acc.maxDiff, it.ea2, it.ratio),
         NEW new, new.maxDiff = Put(acc.maxDiff, it.ea2, it.ratio),
         new.multiDiff = [acc.multiDiff EXCEPT ![it.ea2] = @ \cup {it}],
         Top(new, it), \A x \in W : Top(new, x) <=> Top(acc, x)
  PROVE  DiffMaxima(new, W \cup {it})
<1>1. /\ DOMAIN new.maxDiff = DOMAIN acc.maxDiff \cup {it.ea2}
      /\ new.maxDiff[it.ea2] = it.ratio
      /\ \A d \in DOMAIN acc.maxDiff : d # it.ea2 => new.maxDiff[d] = acc.maxDiff[d]
  <2> DEFINE dict == Put(acc.maxDiff, it.ea2, it.ratio)
  <2>1. /\ DOMAIN dict = DOMAIN acc.maxDiff \cup {it.ea2}
        /\ dict[it.ea2] = it.ratio
        /\ \A d \in DOMAIN acc.maxDiff : d # it.ea2 => dict[d] = acc.maxDiff[d]
    BY DEF Put
  <2> HIDE DEF dict
  <2>2. new.maxDiff = dict
    BY DEF dict
  <2> QED
    BY <2>1, <2>2
<1>2. ASSUME it.ea2 \in DOMAIN acc.maxDiff PROVE acc.maxDiff[it.ea2] = it.ratio
  <2>1. PICK x \in W : x.ea2 = it.ea2 /\ x.ratio = acc.maxDiff[it.ea2]
    BY <1>2 DEF DiffMaxima
  <2>2. x.ratio >= it.ratio /\ ~(x.ratio > it.ratio) /\ x.ratio \in Nat /\ it.ratio \in Nat
    BY <1>2, <2>1, FakeIsRatio DEF Beaten
  <2> QED
    BY <2>1, <2>2
<1>3. \A d \in DOMAIN acc.maxDiff : new.maxDiff[d] = acc.maxDiff[d]
  BY <1>1, <1>2
<1>7. it.ea2 \in Diff /\ it.ratio \in Nat
  BY DEF Items, Ratios, One
<1>8. DOMAIN new.multiDiff = Diff /\ new.multiDiff[it.ea2] = acc.multiDiff[it.ea2] \cup {it}
      /\ \A d \in Diff : d # it.ea2 => new.multiDiff[d] = acc.multiDiff[d]
  BY <1>7 DEF DiffMaxima
<1>9. \A x \in W \cup {it} : Top(new, x) => x.ea2 \in DOMAIN new.maxDiff /\ x.ratio <= new.maxDiff[x.ea2]
  <2>1. \A x \in W : Top(acc, x) => x.ea2 \in DOMAIN acc.maxDiff /\ x.ratio <= acc.maxDiff[x.ea2]
    BY DEF DiffMaxima
  <2> QED
    BY <1>1, <1>3, <1>7, <2>1
<1>10. \A d \in DOMAIN new.maxDiff : \E x \in W \cup {it} : Top(new, x) /\ x.ea2 = d /\ x.ratio = new.maxDiff[d]
  <2>1. \A d \in DOMAIN acc.maxDiff : \E x \in W : Top(acc, x) /\ x.ea2 = d /\ x.ratio = acc.maxDiff[d]
    BY DEF DiffMaxima
  <2> QED
    BY <1>1, <1>3, <2>1
<1>11. ASSUME NEW d \in Diff, NEW x
       PROVE  x \in new.multiDiff[d] <=> x \in W \cup {it} /\ Top(new, x) /\ x.ea2 = d /\ x.ratio = new.maxDiff[d]
  <2>1. x \in acc.multiDiff[d] <=> x \in W /\ Top(acc, x) /\ x.ea2 = d /\ x.ratio = acc.maxDiff[d]
    BY DEF DiffMaxima
  <2>2. CASE x = it
    BY <1>1, <1>8, <2>1, <2>2
  <2>3. CASE x # it
    <3>1. x \in new.multiDiff[d] <=> x \in acc.multiDiff[d]
      BY <1>8, <2>3
    <3>2. x \in W /\ Top(acc, x) /\ x.ea2 = d => d \in DOMAIN acc.maxDiff
      BY DEF DiffMaxima
    <3> QED
      BY <1>3, <2>1, <2>3, <3>1, <3>2
  <2> QED
    BY <2>2, <2>3
<1> QED
  BY <1>8, <1>9, <1>10, <1>11 DEF DiffMaxima

LEMMA ResolveKeeps ==
  ASSUME NEW acc, NEW W, NEW it \in Items, Maxima(acc, W), \A x \in W : x.ratio >= it.ratio /\ Pair(x) # Pair(it)
  PROVE  Maxima(Resolve(acc, it), W \cup {it})
<1> DEFINE new == Resolve(acc, it)
<1>1. MainMaxima(acc, W) /\ DiffMaxima(acc, W) /\ acc.dones \subseteq {Pair(x) : x \in W} /\ \A x \in W : x \in Items
  BY DEF Maxima
<1>2. Pair(it) \notin acc.dones /\ it \notin W
  BY <1>1
<1>3. new.dones = acc.dones \cup {Pair(it)}
  BY <1>2, ResolveCases
<1>4. it.ratio \in Nat /\ it.ea1 \in Main /\ it.ea2 \in Diff
  BY DEF Items, Ratios, One
<1>5. CASE /\ Beaten(acc.maxMain, it.ea1, it.ratio)
           /\ new.maxMain = acc.maxMain /\ new.multiMain = acc.multiMain
           /\ new.maxDiff = acc.maxDiff /\ new.multiDiff = acc.multiDiff
  <2> HIDE DEF new
  <2>1. it.ea1 \in DOMAIN acc.maxMain /\ acc.maxMain[it.ea1] > it.ratio
    BY <1>5 DEF Beaten
  <2>2. acc.maxMain[it.ea1] \in Nat
    <3>1. PICK x \in W : x.ratio = acc.maxMain[it.ea1]
      BY <1>1, <2>1 DEF MainMaxima
    <3> QED
      BY <1>1, <3>1, FakeIsRatio
  <2>3. ~Top(new, it) /\ it.ratio <= new.maxMain[it.ea1] /\ it.ea1 \in DOMAIN new.maxMain
    BY <1>4, <1>5, <2>1, <2>2 DEF Top
  <2>4. \A x : Top(new, x) <=> Top(acc, x)
    BY <1>5 DEF Top
  <2>5. MainMaxima(new, W \cup {it})
    BY <1>1, <1>5, <2>3, <2>4 DEF MainMaxima
  <2>6. DiffMaxima(new, W \cup {it})
    BY <1>1, <1>5, <2>3, <2>4 DEF DiffMaxima
  <2>7. Maxima(new, W \cup {it})
    BY <1>1, <1>3, <2>5, <2>6 DEF Maxima
  <2> QED
    BY <2>7 DEF new
<1>6. CASE /\ ~Beaten(acc.maxMain, it.ea1, it.ratio)
           /\ new.maxMain = Put(acc.maxMain, it.ea1, it.ratio)
           /\ new.multiMain = [acc.multiMain EXCEPT ![it.ea1] = @ \cup {it}]
           /\ \/ /\ Beaten(acc.maxDiff, it.ea2, it.ratio)
                 /\ new.maxDiff = acc.maxDiff /\ new.multiDiff = acc.multiDiff
              \/ /\ ~Beaten(acc.maxDiff, it.ea2, it.ratio)
                 /\ new.maxDiff = Put(acc.maxDiff, it.ea2, it.ratio)
                 /\ new.multiDiff = [acc.multiDiff EXCEPT ![it.ea2] = @ \cup {it}]
  <2> HIDE DEF new
  <2>1. MainMaxima(new, W \cup {it}) /\ Top(new, it) /\ \A x \in W : Top(new, x) <=> Top(acc, x)
    BY <1>1, <1>2, <1>6, MainPasses
  <2>2. DiffMaxima(new, W \cup {it})
    <3>1. CASE /\ Beaten(acc.maxDiff, it.ea2, it.ratio)
               /\ new.maxDiff = acc.maxDiff /\ new.multiDiff = acc.multiDiff
      <4>1. it.ea2 \in DOMAIN acc.maxDiff /\ acc.maxDiff[it.ea2] > it.ratio
        BY <3>1 DEF Beaten
      <4>2. acc.maxDiff[it.ea2] \in Nat
        <5>1. PICK x \in W : x.ratio = acc.maxDiff[it.ea2]
          BY <1>1, <4>1 DEF DiffMaxima
        <5> QED
          BY <1>1, <5>1, FakeIsRatio
      <4>3. it.ratio <= new.maxDiff[it.ea2] /\ it.ratio # new.maxDiff[it.ea2]
        BY <1>4, <3>1, <4>1, <4>2
      <4>4. ASSUME NEW d \in Diff, NEW x
            PROVE  x \in new.multiDiff[d] <=> x \in W \cup {it} /\ Top(new, x) /\ x.ea2 = d /\ x.ratio = new.maxDiff[d]
        <5>1. x \in acc.multiDiff[d] <=> x \in W /\ Top(acc, x) /\ x.ea2 = d /\ x.ratio = acc.maxDiff[d]
          BY <1>1 DEF DiffMaxima
        <5>2. CASE x = it
          BY <1>2, <3>1, <4>3, <5>1, <5>2
        <5>3. CASE x # it
          BY <2>1, <3>1, <5>1, <5>3
        <5> QED
          BY <5>2, <5>3
      <4>5. \A x \in W \cup {it} : Top(new, x) => x.ea2 \in DOMAIN new.maxDiff /\ x.ratio <= new.maxDiff[x.ea2]
        BY <1>1, <2>1, <3>1, <4>1, <4>3 DEF DiffMaxima
      <4>6. \A d \in DOMAIN new.maxDiff : \E x \in W \cup {it} : Top(new, x) /\ x.ea2 = d /\ x.ratio = new.maxDiff[d]
        BY <1>1, <2>1, <3>1 DEF DiffMaxima
      <4>7. DOMAIN new.multiDiff = Diff
        BY <1>1, <3>1 DEF DiffMaxima
      <4> QED
        BY <4>4, <4>5, <4>6, <4>7 DEF DiffMaxima
    <3>2. CASE /\ ~Beaten(acc.maxDiff, it.ea2, it.ratio)
               /\ new.maxDiff = Put(acc.maxDiff, it.ea2, it.ratio)
               /\ new.multiDiff = [acc.multiDiff EXCEPT ![it.ea2] = @ \cup {it}]
      BY <1>1, <1>2, <2>1, <3>2, DiffPasses
    <3> QED
      BY <1>6, <3>1, <3>2
  <2>3. Maxima(new, W \cup {it})
    BY <1>1, <1>3, <2>1, <2>2 DEF Maxima
  <2> QED
    BY <2>3 DEF new
<1> QED
  BY <1>2, <1>5, <1>6, ResolveCases

\* W are the items of V that count in the walk, the first one of each pair of functions.
Walked(u, W, V) ==
  /\ Maxima(u, W) /\ W \subseteq V
  /\ \A x \in W : Pair(x) \in u.dones
  /\ \A x, y \in W : Pair(x) = Pair(y) => x = y
  /\ \A x \in V : x \in Items /\ \E w \in W : Pair(w) = Pair(x) /\ w.ratio >= x.ratio

LEMMA WalksOn ==
  ASSUME NEW acc, NEW W, NEW V, NEW it \in Items, Walked(acc, W, V), \A x \in V : x.ratio >= it.ratio
  PROVE  \E X : Walked(Resolve(acc, it), X, V \cup {it})
<1>1. it.ratio \in Nat
  BY FakeIsRatio
<1>2. CASE Pair(it) \in acc.dones
  <2>1. Resolve(acc, it) = acc
    BY <1>2 DEF Resolve
  <2>2. PICK w \in W : Pair(w) = Pair(it)
    BY <1>2 DEF Walked, Maxima
  <2>3. w.ratio >= it.ratio
    BY DEF Walked
  <2>4. Walked(acc, W, V \cup {it})
    BY <2>2, <2>3 DEF Walked
  <2> QED
    BY <2>1, <2>4
<1>3. CASE Pair(it) \notin acc.dones
  <2> DEFINE new == Resolve(acc, it)
             X == W \cup {it}
  <2>1. \A x \in W : x.ratio >= it.ratio /\ Pair(x) # Pair(it)
    BY <1>3 DEF Walked
  <2>2. Maxima(new, X)
    BY <2>1, ResolveKeeps DEF Walked
  <2>3. new.dones = acc.dones \cup {Pair(it)}
    BY <1>3, ResolveCases
  <2> HIDE DEF new
  <2>4. \A x, y \in X : Pair(x) = Pair(y) => x = y
    BY <2>1 DEF Walked
  <2>5. \A x \in V \cup {it} : x \in Items /\ \E w \in X : Pair(w) = Pair(x) /\ w.ratio >= x.ratio
    BY <1>1 DEF Walked
  <2>6. Walked(new, X, V \cup {it})
    BY <2>2, <2>3, <2>4, <2>5 DEF Walked
  <2> QED
    BY <2>6 DEF new
<1> QED
  BY <1>2, <1>3

LEMMA UnresolvedMaxima ==
  ASSUME NEW l, GoodLists(l), Settled(l)
  PROVE  \E W : Walked(Unresolved(l), W, ItemsOf(l))
<1> DEFINE s == Sequence(l)
           n == Len(s)
<1>1. s \in Seq(Items) /\ ToSet(s) = ItemsOf(l) /\ Chained(s)
  BY SequenceChained
<1>2. n \in Nat /\ DOMAIN s = 1..n
  BY <1>1
<1>3. PICK g : /\ g[0] = NoMaxima /\ g[n] = Unresolved(l)
               /\ \A k \in 0..n : k # n => g[k + 1] = Resolve(g[k], s[k + 1])
  BY <1>2, ResolveWalk
<1>4. \A i, j \in 1..n : i < j => s[i].ratio >= s[j].ratio
  BY <1>1 DEF Chained, Descending
<1> HIDE DEF n, s
<1>5. \A i \in 1..n : s[i] \in Items
  BY <1>1, <1>2
<1> DEFINE S == {k \in Nat : k <= n => \E W : Walked(g[k], W, Prefix(s, k))}
<1>6. 0 \in S
  <2> DEFINE u == g[0]
  <2>1. /\ u.dones = {} /\ DOMAIN u.maxMain = {} /\ DOMAIN u.maxDiff = {}
        /\ DOMAIN u.multiMain = Main /\ DOMAIN u.multiDiff = Diff
        /\ \A m \in Main : u.multiMain[m] = {}
        /\ \A d \in Diff : u.multiDiff[d] = {}
    BY <1>3 DEF NoMaxima
  <2>2. Prefix(s, 0) = {}
    BY DEF Prefix
  <2> HIDE DEF u
  <2>3. MainMaxima(u, {}) /\ DiffMaxima(u, {})
    BY <2>1 DEF MainMaxima, DiffMaxima
  <2>4. Maxima(u, {})
    BY <2>1, <2>3 DEF Maxima
  <2>5. Walked(u, {}, {})
    BY <2>1, <2>4 DEF Walked
  <2> QED
    BY <2>2, <2>5 DEF u
<1>7. ASSUME NEW k \in S PROVE k + 1 \in S
  <2>1. SUFFICES ASSUME k + 1 <= n PROVE \E W : Walked(g[k + 1], W, Prefix(s, k + 1))
    OBVIOUS
  <2>2. k \in Nat /\ k \in 0..n /\ k # n /\ k <= n /\ k + 1 \in 1..n
    BY <1>2, <2>1
  <2>3. PICK W : Walked(g[k], W, Prefix(s, k))
    BY <2>2
  <2> HIDE DEF S
  <2>4. g[k + 1] = Resolve(g[k], s[k + 1])
    BY <1>3, <2>2
  <2>5. s[k + 1] \in Items
    BY <1>5, <2>2
  <2>6. \A x \in Prefix(s, k) : x.ratio >= s[k + 1].ratio
    <3>1. ASSUME NEW i \in 1..k PROVE s[i].ratio >= s[k + 1].ratio
      <4>1. i \in 1..n /\ i < k + 1
        BY <1>2, <2>2
      <4> QED
        BY <1>4, <2>2, <4>1
    <3> QED
      BY <3>1 DEF Prefix
  <2>7. \E X : Walked(Resolve(g[k], s[k + 1]), X, Prefix(s, k) \cup {s[k + 1]})
    BY <2>3, <2>5, <2>6, WalksOn
  <2> QED
    BY <2>2, <2>4, <2>7, PrefixGrows
<1>8. S \in SUBSET Nat
  OBVIOUS
<1> HIDE DEF S
<1>9. n \in S
  BY <1>2, <1>6, <1>7, <1>8, SetInduction
<1>10. \E W : Walked(g[n], W, Prefix(s, n))
  BY <1>2, <1>9 DEF S
<1>11. Prefix(s, n) = ItemsOf(l)
  <2>1. Prefix(s, n) = ToSet(s)
    BY <1>2 DEF Prefix, ToSet
  <2> QED
    BY <1>1, <2>1
<1> QED
  BY <1>3, <1>10, <1>11

\* The maxima bound all items, those included that the walk passed over.
Bounds(u, V) ==
  /\ \A x \in V : x \in Items /\ x.ea1 \in DOMAIN u.maxMain /\ x.ratio <= u.maxMain[x.ea1]
  /\ \A m \in DOMAIN u.maxMain : \E x \in V : x.ea1 = m /\ x.ratio = u.maxMain[m]
  /\ \A x \in V : Top(u, x) => x.ea2 \in DOMAIN u.maxDiff /\ x.ratio <= u.maxDiff[x.ea2]
  /\ \A d \in DOMAIN u.maxDiff : \E x \in V : x.ea2 = d /\ x.ratio = u.maxDiff[d]

LEMMA WalkedBounds == ASSUME NEW u, NEW W, NEW V, Walked(u, W, V) PROVE Bounds(u, V)
<1>1. /\ MainMaxima(u, W) /\ DiffMaxima(u, W) /\ W \subseteq V
      /\ \A x \in V : x \in Items /\ \E w \in W : Pair(w) = Pair(x) /\ w.ratio >= x.ratio
  BY DEF Walked, Maxima
<1>2. \A x \in V : x.ratio \in Nat
  BY <1>1, FakeIsRatio
<1>3. /\ \A m \in DOMAIN u.maxMain : \E x \in V : x.ea1 = m /\ x.ratio = u.maxMain[m]
      /\ \A d \in DOMAIN u.maxDiff : \E x \in V : x.ea2 = d /\ x.ratio = u.maxDiff[d]
  BY <1>1 DEF MainMaxima, DiffMaxima
<1>4. ASSUME NEW x \in V
      PROVE  /\ x.ea1 \in DOMAIN u.maxMain /\ x.ratio <= u.maxMain[x.ea1]
             /\ Top(u, x) => x.ea2 \in DOMAIN u.maxDiff /\ x.ratio <= u.maxDiff[x.ea2]
  <2>1. PICK w \in W : Pair(w) = Pair(x) /\ w.ratio >= x.ratio
    BY <1>1
  <2>2. w.ea1 = x.ea1 /\ w.ea2 = x.ea2 /\ w \in V
    BY <1>1, <2>1 DEF Pair
  <2>3. w.ea1 \in DOMAIN u.maxMain /\ w.ratio <= u.maxMain[w.ea1] /\ u.maxMain[w.ea1] \in Nat
    BY <1>1, <1>2, <1>3 DEF MainMaxima
  <2>4. x.ratio \in Nat /\ w.ratio \in Nat
    BY <1>2, <2>2
  <2>5. Top(u, x) => w.ratio = x.ratio /\ Top(u, w)
    BY <2>1, <2>2, <2>3, <2>4 DEF Top
  <2>6. Top(u, w) => w.ea2 \in DOMAIN u.maxDiff /\ w.ratio <= u.maxDiff[w.ea2]
    BY <1>1 DEF DiffMaxima
  <2>7. x.ea1 \in DOMAIN u.maxMain /\ x.ratio <= u.maxMain[x.ea1]
    BY <2>1, <2>2, <2>3, <2>4
  <2> QED
    BY <2>2, <2>5, <2>6, <2>7
<1> QED
  BY <1>1, <1>3, <1>4 DEF Bounds

-----------------------------------------------------------------------------
(* The choosers. *)

LEMMA ItemsFinite == ASSUME NEW l, IsLists(l) PROVE IsFiniteSet(ItemsOf(l))
<1> DEFINE s == AllItems(l)
           n == Len(s)
<1>1. s \in Seq(Items) /\ ToSet(s) = ItemsOf(l)
  BY AllItemsSet
<1> HIDE DEF s
<1>2. n \in Nat /\ DOMAIN s = 1..n /\ s \in [1..n -> Items]
  BY <1>1
<1> HIDE DEF n
<1>3. s \in Surjection(1..n, ToSet(s))
  BY <1>2 DEF Surjection, ToSet
<1>4. IsFiniteSet(1..n)
  BY <1>2, UptoNatural
<1> QED
  BY <1>1, <1>3, <1>4, FS_Surjection

LEMMA MoreThanOne == ASSUME NEW S, IsFiniteSet(S) PROVE Cardinality(S) > 1 <=> \E x, y \in S : x # y
<1>1. Cardinality(S) \in Nat
  BY FS_CardinalityType
<1>2. ASSUME NEW x \in S, NEW y \in S, x # y PROVE Cardinality(S) > 1
  <2>1. IsFiniteSet({x}) /\ Cardinality({x}) = 1 /\ {x} \in SUBSET S
    BY FS_Singleton
  <2>2. Cardinality({x}) <= Cardinality(S) /\ (Cardinality(S) = Cardinality({x}) => S = {x})
    BY <2>1, FS_Subset
  <2>3. S # {x}
    BY <1>2
  <2> QED
    BY <1>1, <2>1, <2>2, <2>3
<1>3. ASSUME Cardinality(S) > 1 PROVE \E x, y \in S : x # y
  <2>1. S # {} /\ \A x : S # {x}
    BY <1>1, <1>3, FS_EmptySet, FS_Singleton
  <2> QED
    BY <2>1
<1> QED
  BY <1>2, <1>3

\* x has the best ratio of its main function, and of the items of its diff function that have.
BestOf(u, x) == Top(u, x) /\ x.ratio = u.maxDiff[x.ea2]

\* What the final pass makes of the items U, W of which count: im and id are the functions it ignores.
Decided(u, W, U, im, id, chosen, multi) ==
  /\ \A x : x \in chosen <=> x \in U /\ x.ea1 \notin im /\ x.ea2 \notin id /\ BestOf(u, x)
  /\ \A x \in multi : x \in W /\ Top(u, x) /\ (x.ea1 \in im \/ (BestOf(u, x) /\ x.ea2 \in id))
  /\ \A x \in W : Top(u, x) /\ x.ea1 \in im => x \in multi
  /\ \A d \in id : \E x \in multi : x.ea2 = d
  /\ \A x, y \in W : x # y /\ x.ea1 = y.ea1 /\ Top(u, x) /\ Top(u, y) => x.ea1 \in im
  /\ \A x, y \in W : x # y /\ x.ea2 = y.ea2 /\ BestOf(u, x) /\ BestOf(u, y) /\ x.ea1 \notin im => x.ea2 \in id

LEMMA MultimatchFacts ==
  ASSUME NEW multi, NEW dones, NEW U, IsFiniteSet(U), \A ea \in DOMAIN multi : multi[ea] \subseteq U
  PROVE  /\ \A ea : ea \in AddMultimatchesToChooser(multi, dones).ignore <=>
              /\ ea \in DOMAIN multi /\ \E x, y \in multi[ea] : x # y
              /\ \E x \in multi[ea] : Pair(x) \notin dones
         /\ \A x : x \in AddMultimatchesToChooser(multi, dones).items <=>
              \E ea \in DOMAIN multi : (\E y, z \in multi[ea] : y # z) /\ x \in multi[ea] /\ Pair(x) \notin dones
<1> DEFINE crowded == {ea \in DOMAIN multi : Cardinality(multi[ea]) > 1}
           fresh(ea) == {it \in multi[ea] : Pair(it) \notin dones}
           r == AddMultimatchesToChooser(multi, dones)
<1>1. r = [items |-> UNION {fresh(ea) : ea \in crowded}, ignore |-> {ea \in crowded : fresh(ea) # {}}]
  BY DEF AddMultimatchesToChooser
<1>2. \A ea : ea \in crowded <=> ea \in DOMAIN multi /\ \E x, y \in multi[ea] : x # y
  <2>1. ASSUME NEW ea \in DOMAIN multi PROVE Cardinality(multi[ea]) > 1 <=> \E x, y \in multi[ea] : x # y
    <3>1. IsFiniteSet(multi[ea])
      BY FS_Subset
    <3> QED
      BY <3>1, MoreThanOne
  <2> QED
    BY <2>1
<1> HIDE DEF crowded, r
<1>3. r.ignore = {ea \in crowded : fresh(ea) # {}} /\ r.items = UNION {fresh(ea) : ea \in crowded}
  BY <1>1
<1>4. \A ea : ea \in r.ignore <=> /\ ea \in DOMAIN multi /\ \E x, y \in multi[ea] : x # y
                                  /\ \E x \in multi[ea] : Pair(x) \notin dones
  BY <1>2, <1>3
<1>5. \A x : x \in r.items <=> \E ea \in crowded : x \in multi[ea] /\ Pair(x) \notin dones
  BY <1>3
<1>6. \A x : x \in r.items <=>
        \E ea \in DOMAIN multi : (\E y, z \in multi[ea] : y # z) /\ x \in multi[ea] /\ Pair(x) \notin dones
  BY <1>2, <1>5
<1> QED
  BY <1>4, <1>6 DEF r

\* The choosers of maxima over items whose pairs differ.
LEMMA MaximaDecide ==
  ASSUME NEW u, NEW U, NEW W, IsFiniteSet(W), Maxima(u, W), \A x, y \in W : Pair(x) = Pair(y) => x = y,
         NEW main, main = AddMultimatchesToChooser(u.multiMain, {}),
         NEW diff, diff = AddMultimatchesToChooser(u.multiDiff, {Pair(it) : it \in main.items})
  PROVE  Decided(u, W, U, main.ignore, diff.ignore,
                 {x \in U : x.ea1 \notin main.ignore /\ x.ea2 \notin diff.ignore /\ BestOf(u, x)},
                 main.items \cup diff.items)
<1>1. \A x \in W : x \in Items /\ x.ea1 \in Main /\ x.ea2 \in Diff
  BY DEF Maxima, Items
<1>2. DOMAIN u.multiMain = Main /\ \A m \in Main : \A x : x \in u.multiMain[m] <=> x \in W /\ x.ea1 = m /\ Top(u, x)
  BY DEF Maxima, MainMaxima
<1>3. /\ DOMAIN u.multiDiff = Diff
      /\ \A d \in Diff : \A x : x \in u.multiDiff[d] <=> x \in W /\ BestOf(u, x) /\ x.ea2 = d
  BY DEF Maxima, DiffMaxima, BestOf
<1>4. \A m \in DOMAIN u.multiMain : u.multiMain[m] \subseteq W
  BY <1>2
<1>5. \A d \in DOMAIN u.multiDiff : u.multiDiff[d] \subseteq W
  BY <1>3
<1> DEFINE dones == {Pair(it) : it \in main.items}
<1>6. /\ \A m : m \in main.ignore <=> /\ m \in DOMAIN u.multiMain /\ \E x, y \in u.multiMain[m] : x # y
                                      /\ \E x \in u.multiMain[m] : Pair(x) \notin {}
      /\ \A x : x \in main.items <=>
           \E m \in DOMAIN u.multiMain : (\E y, z \in u.multiMain[m] : y # z) /\ x \in u.multiMain[m] /\ Pair(x) \notin {}
  BY <1>4, MultimatchFacts
<1>7. /\ \A d : d \in diff.ignore <=> /\ d \in DOMAIN u.multiDiff /\ \E x, y \in u.multiDiff[d] : x # y
                                      /\ \E x \in u.multiDiff[d] : Pair(x) \notin dones
      /\ \A x : x \in diff.items <=>
           \E d \in DOMAIN u.multiDiff : (\E y, z \in u.multiDiff[d] : y # z) /\ x \in u.multiDiff[d] /\ Pair(x) \notin dones
  BY <1>5, MultimatchFacts
<1>8. \A x, y \in W : x # y /\ x.ea1 = y.ea1 /\ Top(u, x) /\ Top(u, y) => x.ea1 \in main.ignore
  BY <1>1, <1>2, <1>6
<1>9. \A x : x \in main.items <=> x \in W /\ Top(u, x) /\ x.ea1 \in main.ignore
  <2>1. ASSUME NEW x \in main.items PROVE x \in W /\ Top(u, x) /\ x.ea1 \in main.ignore
    <3>1. PICK m \in Main : (\E y, z \in u.multiMain[m] : y # z) /\ x \in u.multiMain[m]
      BY <1>2, <1>6
    <3> QED
      BY <1>2, <1>6, <3>1
  <2>2. ASSUME NEW x \in W, Top(u, x), x.ea1 \in main.ignore PROVE x \in main.items
    <3>1. x.ea1 \in DOMAIN u.multiMain /\ x \in u.multiMain[x.ea1]
      BY <1>1, <1>2, <2>2
    <3>2. \E y, z \in u.multiMain[x.ea1] : y # z
      BY <1>6, <2>2
    <3> QED
      BY <1>6, <3>1, <3>2
  <2> QED
    BY <2>1, <2>2
<1>10. \A x \in W : Pair(x) \in dones <=> x \in main.items
  BY <1>9
<1> HIDE DEF dones
<1>11. \A x : x \in diff.items => x \in W /\ BestOf(u, x) /\ x.ea2 \in diff.ignore
  <2>1. ASSUME NEW x \in diff.items PROVE x \in W /\ BestOf(u, x) /\ x.ea2 \in diff.ignore
    <3>1. PICK d \in Diff : (\E y, z \in u.multiDiff[d] : y # z) /\ x \in u.multiDiff[d] /\ Pair(x) \notin dones
      BY <1>3, <1>7
    <3>2. x \in W /\ BestOf(u, x) /\ x.ea2 = d
      BY <1>3, <3>1
    <3>3. d \in diff.ignore
      BY <1>3, <1>7, <3>1
    <3> QED
      BY <3>2, <3>3
  <2> QED
    BY <2>1
<1>12. \A d \in diff.ignore : \E x \in diff.items : x.ea2 = d
  <2>1. ASSUME NEW d \in diff.ignore PROVE \E x \in diff.items : x.ea2 = d
    <3>1. d \in Diff /\ (\E y, z \in u.multiDiff[d] : y # z) /\ \E x \in u.multiDiff[d] : Pair(x) \notin dones
      BY <1>3, <1>7
    <3>2. PICK x \in u.multiDiff[d] : Pair(x) \notin dones
      BY <3>1
    <3>3. x \in diff.items
      BY <1>3, <1>7, <3>1, <3>2
    <3>4. x.ea2 = d
      BY <1>3, <3>1
    <3> QED
      BY <3>3, <3>4
  <2> QED
    BY <2>1
<1>13. \A x, y \in W : x # y /\ x.ea2 = y.ea2 /\ BestOf(u, x) /\ BestOf(u, y) /\ x.ea1 \notin main.ignore => x.ea2 \in diff.ignore
  <2>1. SUFFICES ASSUME NEW x \in W, NEW y \in W, x # y, x.ea2 = y.ea2, BestOf(u, x), BestOf(u, y), x.ea1 \notin main.ignore
                 PROVE  x.ea2 \in diff.ignore
    OBVIOUS
  <2>2. x \in u.multiDiff[x.ea2] /\ y \in u.multiDiff[x.ea2] /\ x.ea2 \in DOMAIN u.multiDiff
    BY <1>1, <1>3, <2>1
  <2>3. Pair(x) \notin dones
    BY <1>9, <1>10, <2>1
  <2> QED
    BY <1>7, <2>1, <2>2, <2>3
<1>14. \A x : BestOf(u, x) => Top(u, x)
  BY DEF BestOf
<1> QED
  BY <1>8, <1>9, <1>11, <1>12, <1>13, <1>14 DEF Decided

\* With one name per function, a pair of functions has one key.
LEMMA PairHasKey ==
  ASSUME Mangled = Name, NEW x, NEW y, Named(x), Named(y), Pair(x) = Pair(y) PROVE Key(x) = Key(y)
  BY DEF Named, Pair, Key

LEMMA PairsDiffer ==
  ASSUME Mangled = Name, NEW l, GoodLists(l), Settled(l)
  PROVE  \A x, y \in ItemsOf(l) : Pair(x) = Pair(y) => x = y
<1> DEFINE s == Sequence(l)
           n == Len(s)
<1>1. s \in Seq(Items) /\ ToSet(s) = ItemsOf(l) /\ Chained(s)
  BY SequenceChained
<1>2. n \in Nat /\ DOMAIN s = 1..n
  BY <1>1
<1>3. \A i, j \in 1..n : i < j => Key(s[i]) # Key(s[j])
  BY <1>1 DEF Chained
<1> HIDE DEF n, s
<1>4. ASSUME NEW x \in ItemsOf(l), NEW y \in ItemsOf(l), Pair(x) = Pair(y) PROVE x = y
  <2>1. PICK i \in 1..n : x = s[i]
    BY <1>1, <1>2 DEF ToSet
  <2>2. PICK j \in 1..n : y = s[j]
    BY <1>1, <1>2 DEF ToSet
  <2>3. Key(x) = Key(y)
    BY <1>4, PairHasKey DEF GoodLists
  <2>4. ~(i < j) /\ ~(j < i)
    BY <1>3, <2>1, <2>2, <2>3
  <2>5. i = j
    BY <1>2, <2>4
  <2> QED
    BY <2>1, <2>2, <2>5
<1> QED
  BY <1>4

\* With one name per function every item counts in the walk.
LEMMA AllCount ==
  ASSUME Mangled = Name, NEW l, GoodLists(l), Settled(l), NEW u, NEW W, Walked(u, W, ItemsOf(l))
  PROVE  W = ItemsOf(l) /\ Maxima(u, ItemsOf(l))
<1>1. W \subseteq ItemsOf(l) /\ Maxima(u, W) /\ \A x \in ItemsOf(l) : \E w \in W : Pair(w) = Pair(x)
  BY DEF Walked
<1>2. W = ItemsOf(l)
  BY <1>1, PairsDiffer
<1> QED
  BY <1>1, <1>2

\* The comparisons of the final pass single out the items with both maxima.
LEMMA LookedUp ==
  ASSUME NEW u, NEW U, Bounds(u, U), NEW x \in U
  PROVE  /\ x.ratio >= u.maxMain[x.ea1] <=> Top(u, x)
         /\ Top(u, x) => x.ea2 \in DOMAIN u.maxDiff /\ (x.ratio >= u.maxDiff[x.ea2] <=> BestOf(u, x))
<1>1. \A y \in U : y.ratio \in Nat
  BY FakeIsRatio DEF Bounds
<1>2. x.ea1 \in DOMAIN u.maxMain /\ x.ratio <= u.maxMain[x.ea1] /\ u.maxMain[x.ea1] \in Nat
  BY <1>1 DEF Bounds
<1>3. Top(u, x) => x.ea2 \in DOMAIN u.maxDiff /\ x.ratio <= u.maxDiff[x.ea2] /\ u.maxDiff[x.ea2] \in Nat
  BY <1>1 DEF Bounds
<1>4. x.ratio \in Nat
  BY <1>1
<1>5. x.ratio >= u.maxMain[x.ea1] <=> Top(u, x)
  BY <1>2, <1>4 DEF Top
<1>6. Top(u, x) => (x.ratio >= u.maxDiff[x.ea2] <=> BestOf(u, x))
  BY <1>3, <1>4 DEF BestOf
<1> QED
  BY <1>3, <1>5, <1>6

\* The choosers that FinalPass fills from settled lists; no lookup of it fails.
LEMMA ResolvedDecides ==
  ASSUME NEW l, GoodLists(l), Settled(l), NEW r, r = Resolved(l)
  PROVE  /\ r.missing = {}
         /\ \E W, im, id :
              /\ Walked(Unresolved(l), W, ItemsOf(l))
              /\ Decided(Unresolved(l), W, ItemsOf(l), im, id, r.best \cup r.partial \cup r.unreliable, r.multimatch)
<1> DEFINE u == Unresolved(l)
           U == ItemsOf(l)
           main == AddMultimatchesToChooser(u.multiMain, {})
           diff == AddMultimatchesToChooser(u.multiDiff, {Pair(it) : it \in main.items})
           Looked(c) == {it \in ToSet(l[c]) : /\ it.ea1 \notin main.ignore /\ it.ea2 \notin diff.ignore
                                              /\ it.ratio >= u.maxMain[it.ea1]}
           Final(c) == {it \in Looked(c) : it.ea2 \in DOMAIN u.maxDiff /\ it.ratio >= u.maxDiff[it.ea2]}
           miss == {it \in Looked("best") \cup Looked("partial") \cup Looked("unreliable") : it.ea2 \notin DOMAIN u.maxDiff}
<1>1. r = [missing |-> miss, best |-> Final("best"), partial |-> Final("partial"), unreliable |-> Final("unreliable"),
           multimatch |-> main.items \cup diff.items]
  BY DEF Resolved
<1>2. PICK W : Walked(u, W, U)
  BY UnresolvedMaxima
<1>3. IsFiniteSet(W) /\ Maxima(u, W) /\ \A x, y \in W : Pair(x) = Pair(y) => x = y
  <2>1. IsFiniteSet(U)
    BY ItemsFinite DEF GoodLists
  <2> HIDE DEF u, U, main, diff, Looked, Final, miss
  <2>2. W \subseteq U
    BY <1>2 DEF Walked
  <2> QED
    BY <1>2, <2>1, <2>2, FS_Subset DEF Walked
<1>4. Decided(u, W, U, main.ignore, diff.ignore,
              {x \in U : x.ea1 \notin main.ignore /\ x.ea2 \notin diff.ignore /\ BestOf(u, x)},
              main.items \cup diff.items)
  <2> HIDE DEF u, U, main, diff, Looked, Final, miss
  <2>1. main = AddMultimatchesToChooser(u.multiMain, {})
    BY DEF main
  <2>2. diff = AddMultimatchesToChooser(u.multiDiff, {Pair(it) : it \in main.items})
    BY DEF diff
  <2> QED
    BY <1>3, <2>1, <2>2, MaximaDecide
<1>5. \A x : x \in U <=> x \in ToSet(l["best"]) \/ x \in ToSet(l["partial"]) \/ x \in ToSet(l["unreliable"])
  BY DEF ItemsOf
<1> HIDE DEF u, U, main, diff
<1>6. ASSUME NEW x \in U
      PROVE  /\ x.ratio >= u.maxMain[x.ea1] <=> Top(u, x)
             /\ Top(u, x) => x.ea2 \in DOMAIN u.maxDiff /\ (x.ratio >= u.maxDiff[x.ea2] <=> BestOf(u, x))
  BY <1>2, WalkedBounds, LookedUp
<1>7. miss = {}
  BY <1>5, <1>6
<1>8. Final("best") \cup Final("partial") \cup Final("unreliable")
        = {x \in U : x.ea1 \notin main.ignore /\ x.ea2 \notin diff.ignore /\ BestOf(u, x)}
  BY <1>5, <1>6 DEF BestOf
<1> HIDE DEF Looked, Final, miss
<1>9. r.missing = {} /\ r.multimatch = main.items \cup diff.items
      /\ r.best \cup r.partial \cup r.unreliable = Final("best") \cup Final("partial") \cup Final("unreliable")
  BY <1>1, <1>7
<1>10. Decided(u, W, U, main.ignore, diff.ignore, r.best \cup r.partial \cup r.unreliable, r.multimatch)
  BY <1>4, <1>8, <1>9
<1> QED
  BY <1>2, <1>9, <1>10 DEF u, U

\* OneToOne, ChosenAreBest and DroppedForAReason for given items and choosers.
LEMMA DecidedApart ==
  ASSUME NEW u, NEW U, NEW im, NEW id, NEW chosen, NEW multi, Maxima(u, U), Decided(u, U, U, im, id, chosen, multi)
  PROVE  /\ \A a, b \in chosen : a # b => a.ea1 # b.ea1 /\ a.ea2 # b.ea2
         /\ \A a \in chosen, b \in multi : a.ea1 # b.ea1 /\ (a.ea2 = b.ea2 => b.ratio < a.ratio)
         /\ \A x \in chosen \cup multi : x \in U
<1>1. \A x \in chosen : x \in U /\ x.ea1 \notin im /\ x.ea2 \notin id /\ BestOf(u, x) /\ Top(u, x)
  BY DEF Decided, BestOf
<1>2. \A x \in multi : x \in U /\ Top(u, x) /\ (x.ea1 \in im \/ (BestOf(u, x) /\ x.ea2 \in id))
  BY DEF Decided
<1>3. \A x, y \in U : x # y /\ x.ea1 = y.ea1 /\ Top(u, x) /\ Top(u, y) => x.ea1 \in im
  BY DEF Decided
<1>4. \A x, y \in U : x # y /\ x.ea2 = y.ea2 /\ BestOf(u, x) /\ BestOf(u, y) /\ x.ea1 \notin im => x.ea2 \in id
  BY DEF Decided
<1>5. ASSUME NEW a \in chosen, NEW b \in chosen, a # b PROVE a.ea1 # b.ea1 /\ a.ea2 # b.ea2
  BY <1>1, <1>3, <1>4, <1>5
<1>6. ASSUME NEW a \in chosen, NEW b \in multi PROVE a.ea1 # b.ea1
  <2>1. a # b
    BY <1>1, <1>2
  <2> QED
    BY <1>1, <1>2, <1>3, <2>1
<1>7. ASSUME NEW a \in chosen, NEW b \in multi, a.ea2 = b.ea2 PROVE b.ratio < a.ratio
  <2>1. a # b /\ a \in U /\ b \in U
    BY <1>1, <1>2
  <2>2. ~BestOf(u, b)
    BY <1>1, <1>4, <1>7, <2>1
  <2>3. a.ratio = u.maxDiff[a.ea2] /\ b.ratio # u.maxDiff[a.ea2] /\ b.ratio <= u.maxDiff[a.ea2]
    BY <1>1, <1>2, <1>7, <2>1, <2>2 DEF BestOf, Maxima, DiffMaxima
  <2>4. a.ratio \in Nat /\ b.ratio \in Nat
    BY <2>1, FakeIsRatio DEF Maxima
  <2> QED
    BY <2>3, <2>4
<1> QED
  BY <1>1, <1>2, <1>5, <1>6, <1>7

LEMMA DecidedBest ==
  ASSUME NEW u, NEW W, NEW U, NEW im, NEW id, NEW chosen, NEW multi, Bounds(u, U),
         Decided(u, W, U, im, id, chosen, multi),
         NEW it \in chosen, NEW o \in U
  PROVE  /\ o.ea1 = it.ea1 => o.ratio <= it.ratio
         /\ o.ea2 = it.ea2 /\ o.ratio > it.ratio => \E b \in U : b.ea1 = o.ea1 /\ b.ratio > o.ratio
<1>1. it \in U /\ Top(u, it) /\ it.ratio = u.maxDiff[it.ea2]
  BY DEF Decided, BestOf
<1>2. \A x \in U : x.ratio \in Nat
  BY FakeIsRatio DEF Bounds
<1>3. o.ea1 \in DOMAIN u.maxMain /\ o.ratio <= u.maxMain[o.ea1]
  BY DEF Bounds
<1>4. o.ea1 = it.ea1 => o.ratio <= it.ratio
  BY <1>1, <1>3 DEF Top
<1>5. ASSUME o.ea2 = it.ea2, o.ratio > it.ratio PROVE \E b \in U : b.ea1 = o.ea1 /\ b.ratio > o.ratio
  <2>1. ~Top(u, o)
    <3>1. Top(u, o) => o.ratio <= it.ratio
      BY <1>1, <1>5 DEF Bounds
    <3> QED
      BY <1>1, <1>2, <1>5, <3>1
  <2>2. PICK b \in U : b.ea1 = o.ea1 /\ b.ratio = u.maxMain[o.ea1]
    BY <1>3 DEF Bounds
  <2>3. o.ratio # b.ratio /\ o.ratio <= b.ratio
    BY <1>3, <2>1, <2>2 DEF Top
  <2> QED
    BY <1>2, <2>2, <2>3
<1> QED
  BY <1>4, <1>5

LEMMA DecidedReason ==
  ASSUME NEW u, NEW W, NEW U, NEW im, NEW id, NEW chosen, NEW multi, Bounds(u, U), Maxima(u, W),
         Decided(u, W, U, im, id, chosen, multi),
         NEW it \in U, it \notin chosen \cup multi
  PROVE  \/ \E o \in U : (o.ea1 = it.ea1 \/ o.ea2 = it.ea2) /\ o.ratio > it.ratio
         \/ \E o \in multi : o.ea1 = it.ea1 \/ o.ea2 = it.ea2
<1>1. \A x \in U : x.ratio \in Nat
  BY FakeIsRatio DEF Bounds
<1>2. CASE ~Top(u, it)
  <2>1. it.ea1 \in DOMAIN u.maxMain /\ it.ratio <= u.maxMain[it.ea1]
    BY DEF Bounds
  <2>2. PICK o \in U : o.ea1 = it.ea1 /\ o.ratio = u.maxMain[it.ea1]
    BY <2>1 DEF Bounds
  <2>3. it.ratio # o.ratio /\ it.ratio <= o.ratio
    BY <1>2, <2>1, <2>2 DEF Top
  <2>4. o.ratio > it.ratio
    BY <1>1, <2>3
  <2> QED
    BY <2>2, <2>4
<1>3. CASE Top(u, it) /\ ~BestOf(u, it)
  <2>1. it.ea2 \in DOMAIN u.maxDiff /\ it.ratio <= u.maxDiff[it.ea2]
    BY <1>3 DEF Bounds
  <2>2. PICK o \in U : o.ea2 = it.ea2 /\ o.ratio = u.maxDiff[it.ea2]
    BY <2>1 DEF Bounds
  <2>3. it.ratio # o.ratio /\ it.ratio <= o.ratio
    BY <1>3, <2>1, <2>2 DEF BestOf
  <2>4. o.ratio > it.ratio
    BY <1>1, <2>3
  <2> QED
    BY <2>2, <2>4
<1>4. CASE BestOf(u, it)
  <2>1. it.ea1 \in im \/ it.ea2 \in id
    BY <1>4 DEF Decided
  <2>2. CASE it.ea1 \in im
    <3>1. PICK o \in W : o.ea1 = it.ea1 /\ o.ratio = u.maxMain[it.ea1]
      BY DEF Bounds, Maxima, MainMaxima
    <3>2. o \in multi
      BY <2>2, <3>1 DEF Decided, Top
    <3> QED
      BY <3>1, <3>2
  <2>3. CASE it.ea2 \in id
    BY <2>3 DEF Decided
  <2> QED
    BY <2>1, <2>2, <2>3
<1> QED
  BY <1>2, <1>3, <1>4

-----------------------------------------------------------------------------
(* The results. *)

Choosers(r) == [best |-> r.best, partial |-> r.partial, unreliable |-> r.unreliable, multimatch |-> r.multimatch]

Unnamed == {m \in Main : Name[m] \notin DOMAIN primary} \cup {d \in Diff : Name[d] \notin DOMAIN secondary}

\* The results are empty until the final pass, and after it those of the lists that it cleaned.
RInv == /\ stage # "raised"
        /\ stage \in Working => results = NoResults
        /\ stage \in {"unmatched", "done"} => Settled(lists) /\ results = Choosers(Resolved(lists))
        /\ stage # "done" => unmatched = {}
        /\ stage = "done" => unmatched = Unnamed

LEMMA NextRInv == IInv /\ RInv /\ [Next]_vars => RInv'
<1>1. SUFFICES ASSUME IInv, RInv, [Next]_vars PROVE RInv'
  OBVIOUS
<1>2. CASE UNCHANGED vars
  BY <1>1, <1>2 DEF vars, RInv, Unnamed
<1>3. ASSUME stage \in Working, stage' \in Working, UNCHANGED <<results, unmatched>> PROVE RInv'
  <2>1. results = NoResults /\ unmatched = {}
    BY <1>1, <1>3 DEF RInv, Working
  <2>2. stage' \notin {"unmatched", "done", "raised"}
    BY <1>3 DEF Working
  <2> QED
    BY <1>3, <2>1, <2>2 DEF RInv
<1>4. CASE Adding \/ Cleaning \/ Moving
  BY <1>3, <1>4 DEF Adding, Cleaning, Moving
<1>5. CASE FinalPass
  <2>1. GoodLists(lists') /\ Settled(lists')
    BY <1>1, <1>5, CleanupKeeps DEF IInv, FinalPass
  <2>2. Resolved(lists').missing = {}
    BY <2>1, ResolvedDecides
  <2>3. stage' = "unmatched" /\ results' = Choosers(Resolved(lists')) /\ unmatched' = unmatched
    BY <1>5, <2>2 DEF FinalPass, Choosers
  <2>4. unmatched = {}
    BY <1>1, <1>5 DEF RInv, FinalPass
  <2>5. "unmatched" \notin Working
    BY DEF Working
  <2> QED
    BY <2>1, <2>3, <2>4, <2>5 DEF RInv
<1>6. CASE FindUnmatched
  <2>1. /\ stage = "unmatched" /\ stage' = "done" /\ unmatched' = Unnamed
        /\ UNCHANGED <<lists, primary, secondary, results>>
    BY <1>6 DEF FindUnmatched, Unnamed, state
  <2>2. "done" \notin Working /\ Unnamed' = Unnamed
    BY <2>1 DEF Working, Unnamed
  <2> QED
    BY <1>1, <2>1, <2>2 DEF RInv
<1> QED
  BY <1>1, <1>2, <1>4, <1>5, <1>6, StepKinds DEF IInv

LEMMA Chooser ==
  ASSUME NEW b, NEW p, NEW n, NEW m, results = [best |-> b, partial |-> p, unreliable |-> n, multimatch |-> m]
  PROVE  Chosen = b \cup p \cup n /\ results["multimatch"] = m
<1>1. results["best"] = b /\ results["partial"] = p /\ results["unreliable"] = n /\ results["multimatch"] = m
  OBVIOUS
<1>2. \A x : x \in Chosen <=> x \in results["best"] \/ x \in results["partial"] \/ x \in results["unreliable"]
  BY DEF Chosen, Categories
<1> QED
  BY <1>1, <1>2

\* Either there are no results yet or they are decided from the maxima over the lists.
LEMMA ResultsDecided ==
  ASSUME IInv, RInv
  PROVE  /\ Listed = ItemsOf(lists)
         /\ \/ stage \notin {"unmatched", "done"} /\ Chosen = {} /\ results["multimatch"] = {}
            \/ /\ stage \in {"unmatched", "done"} /\ Settled(lists)
               /\ \E u, W, im, id : Walked(u, W, Listed) /\ Decided(u, W, Listed, im, id, Chosen, results["multimatch"])
<1>1. Listed = ItemsOf(lists)
  BY AllItemsSet DEF IInv, GoodLists, Listed
<1>2. CASE stage \in {"unmatched", "done"}
  <2> DEFINE r == Resolved(lists)
  <2>1. GoodLists(lists) /\ Settled(lists) /\ results = Choosers(r)
    BY <1>2 DEF IInv, RInv
  <2>2. PICK W, im, id :
          /\ Walked(Unresolved(lists), W, ItemsOf(lists))
          /\ Decided(Unresolved(lists), W, ItemsOf(lists), im, id, r.best \cup r.partial \cup r.unreliable, r.multimatch)
    BY <2>1, ResolvedDecides
  <2> HIDE DEF r
  <2>3. Chosen = r.best \cup r.partial \cup r.unreliable /\ results["multimatch"] = r.multimatch
    BY <2>1, Chooser DEF Choosers
  <2> QED
    BY <1>1, <1>2, <2>1, <2>2, <2>3
<1>3. CASE stage \notin {"unmatched", "done"}
  <2>1. results = NoResults
    BY <1>3 DEF RInv, IInv, Typed, Working
  <2>2. Chosen = {} \cup {} \cup {} /\ results["multimatch"] = {}
    BY <2>1, Chooser DEF NoResults
  <2> QED
    BY <1>1, <1>3, <2>2
<1> QED
  BY <1>2, <1>3

\* The invariant of the results, for any exports, names and ratios: FinalPass never stops with a KeyError,
\* and what it chooses comes from settled lists.
THEOREM ResultsInvariance == Spec => [](IInv /\ RInv)
<1>1. Init => RInv
  <2>1. SUFFICES ASSUME Init PROVE RInv
    OBVIOUS
  <2>2. stage = "equal" /\ results = NoResults /\ unmatched = {}
    BY <2>1 DEF Init
  <2> QED
    BY <2>2 DEF RInv
<1>2. IInv /\ RInv /\ [Next]_vars => RInv'
  BY NextRInv
<1> QED
  BY <1>1, <1>2, Invariance, PTL DEF Spec

\* OneToOne, for any exports whose functions have one name each (mangled_function is name): the maxima of
\* find_unresolved_multimatches and the ignored functions of add_multimatches_to_chooser leave a partial
\* matching, and find_unmatched lists no function that has a row.
THEOREM ResultsOneToOne == ASSUME Mangled = Name PROVE Spec => []OneToOne
<1>1. IInv /\ RInv => OneToOne
  <2>1. SUFFICES ASSUME IInv, RInv PROVE OneToOne
    OBVIOUS
  <2>2. Listed = ItemsOf(lists)
    BY <2>1, ResultsDecided
  <2>3. CASE Chosen = {} /\ results["multimatch"] = {}
    BY <2>3 DEF OneToOne
  <2>4. ASSUME NEW u, NEW W, NEW im, NEW id, Settled(lists),
               Walked(u, W, Listed), Decided(u, W, Listed, im, id, Chosen, results["multimatch"])
        PROVE  OneToOne
    <3>0. W = Listed /\ Maxima(u, Listed)
      BY <2>1, <2>2, <2>4, AllCount DEF IInv
    <3>1. /\ \A a, b \in Chosen : a # b => a.ea1 # b.ea1 /\ a.ea2 # b.ea2
          /\ \A a \in Chosen, b \in results["multimatch"] : a.ea1 # b.ea1 /\ (a.ea2 = b.ea2 => b.ratio < a.ratio)
          /\ \A x \in Chosen \cup results["multimatch"] : x \in Listed
      BY <2>4, <3>0, DecidedApart
    <3>2. ASSUME NEW it \in Listed PROVE it.ea1 \notin unmatched /\ it.ea2 \notin unmatched
      <4>1. it.ea1 \in Main /\ it.ea2 \in Diff /\ Main \cap Diff = {}
        BY <3>0, <3>2, MatchingConstants DEF Maxima, Items
      <4>2. it.n1 = Name[it.ea1] /\ it.n2 = Name[it.ea2]
        BY <2>1, <2>2, <3>2 DEF IInv, GoodLists, Named
      <4>3. Name[it.ea1] \in DOMAIN primary /\ Name[it.ea2] \in DOMAIN secondary
        BY <2>1, <2>2, <3>2, <4>2 DEF IInv, BackedBy
      <4>4. it.ea1 \notin Unnamed /\ it.ea2 \notin Unnamed
        BY <4>1, <4>3 DEF Unnamed
      <4> QED
        BY <2>1, <4>4 DEF RInv
    <3> QED
      BY <3>1, <3>2 DEF OneToOne
  <2> QED
    BY <2>1, <2>3, <2>4, ResultsDecided
<1> QED
  BY <1>1, ResultsInvariance, PTL

\* ChosenAreBest, for any exports, names and ratios: FinalPass asks the maximum of the main function
\* before that of the diff function.
THEOREM ResultsAreBest == Spec => []ChosenAreBest
<1>1. IInv /\ RInv => ChosenAreBest
  <2>1. SUFFICES ASSUME IInv, RInv PROVE ChosenAreBest
    OBVIOUS
  <2>2. CASE Chosen = {}
    BY <2>2 DEF ChosenAreBest
  <2>3. ASSUME NEW u, NEW W, NEW im, NEW id,
               Walked(u, W, Listed), Decided(u, W, Listed, im, id, Chosen, results["multimatch"])
        PROVE  ChosenAreBest
    <3>1. ASSUME NEW it \in Chosen, NEW o \in Listed
          PROVE  /\ o.ea1 = it.ea1 => o.ratio <= it.ratio
                 /\ o.ea2 = it.ea2 /\ o.ratio > it.ratio => \E b \in Listed : b.ea1 = o.ea1 /\ b.ratio > o.ratio
      BY <2>3, WalkedBounds, DecidedBest
    <3> QED
      BY <3>1 DEF ChosenAreBest
  <2> QED
    BY <2>1, <2>2, <2>3, ResultsDecided
<1> QED
  BY <1>1, ResultsInvariance, PTL

\* DroppedForAReason, for any exports, names and ratios: no lookup of FinalPass fails and every item of
\* the lists that it drops has a better rival or a function in the multimatch chooser.
THEOREM NothingLostForNothing == Spec => []DroppedForAReason
<1>1. IInv /\ RInv => DroppedForAReason
  <2>1. SUFFICES ASSUME IInv, RInv PROVE DroppedForAReason
    OBVIOUS
  <2>2. NoKeyError
    BY <2>1 DEF RInv, NoKeyError
  <2>3. CASE stage \notin {"unmatched", "done"}
    BY <2>2, <2>3 DEF DroppedForAReason
  <2>4. ASSUME NEW u, NEW W, NEW im, NEW id,
               Walked(u, W, Listed), Decided(u, W, Listed, im, id, Chosen, results["multimatch"])
        PROVE  DroppedForAReason
    <3>1. ASSUME NEW it \in Listed \ (Chosen \cup results["multimatch"])
          PROVE  \/ \E o \in Listed : (o.ea1 = it.ea1 \/ o.ea2 = it.ea2) /\ o.ratio > it.ratio
                 \/ \E o \in results["multimatch"] : o.ea1 = it.ea1 \/ o.ea2 = it.ea2
      BY <2>4, WalkedBounds, DecidedReason DEF Walked
    <3> QED
      BY <2>2, <3>1 DEF DroppedForAReason
  <2> QED
    BY <2>1, <2>3, <2>4, ResultsDecided
<1> QED
  BY <1>1, ResultsInvariance, PTL

\* PairOnce, which fails for decorated functions, for any exports whose functions have one name each: the
\* second item of a pair of functions has the key of the first, and Cleanup drops it.
THEOREM PairsOnceUndecorated == ASSUME Mangled = Name PROVE Spec => []PairOnce
<1>1. IInv /\ RInv => PairOnce
  <2>1. SUFFICES ASSUME IInv, RInv PROVE PairOnce
    OBVIOUS
  <2>2. CASE Chosen = {} /\ results["multimatch"] = {}
    BY <2>2 DEF PairOnce
  <2>3. ASSUME NEW u, NEW W, NEW im, NEW id, Settled(lists),
               Walked(u, W, Listed), Decided(u, W, Listed, im, id, Chosen, results["multimatch"])
        PROVE  PairOnce
    <3>1. \A x, y \in Listed : Pair(x) = Pair(y) => x = y
      BY <2>1, <2>3, PairsDiffer, ResultsDecided DEF IInv
    <3>2. \A x \in Chosen \cup results["multimatch"] : x \in Listed
      BY <2>3 DEF Walked, Decided
    <3> QED
      BY <3>1, <3>2 DEF PairOnce
  <2> QED
    BY <2>1, <2>2, <2>3, ResultsDecided
<1> QED
  BY <1>1, ResultsInvariance, PTL
=============================================================================
