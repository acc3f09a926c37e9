--------------------------- MODULE SimilarityProofs ---------------------------
(***************************************************************************)
(* Proofs about the line differ and the ratio engine: the blocks, opcodes  *)
(* and ratios of SequenceMatcher, for any two sequences; the cache and the *)
(* hook of the engine, for any two function tables and any number of       *)
(* calls, checkpoints and snapshots.                                       *)
(***************************************************************************)
EXTENDS SequenceMatcher, RatioEngine, FiniteSetTheorems, SequenceTheorems, NaturalsInduction,
        WellFoundedInduction, TLAPS

-----------------------------------------------------------------------------
(* Natural numbers. *)

\* Every non-empty set of natural numbers has a least element, and induction with a set for the predicate.
LEMMA LeastNatural == ASSUME NEW S \in SUBSET Nat, S # {}
                      PROVE  \E m \in S : \A x \in S : m <= x
<1> DEFINE Less == {p \in Nat \X Nat : p[1] < p[2]}
<1>1. IsWellFoundedOn(Less, Nat)
  BY NatLessThanWellFounded DEF OpToRel
<1> HIDE DEF Less
<1>2. PICK m \in S : \A y \in S : ~ (<<y, m>> \in Less)
  BY <1>1, WFMin
<1>3. ASSUME NEW x \in S PROVE m <= x
  <2>1. ~(<<x, m>> \in Less) /\ x \in Nat /\ m \in Nat
    BY <1>2
  <2> QED
    BY <2>1 DEF Less
<1> QED
  BY <1>2, <1>3

LEMMA SetInduction == ASSUME NEW S \in SUBSET Nat, 0 \in S, \A n \in S : n + 1 \in S
                      PROVE  \A n \in Nat : n \in S
<1>1. SUFFICES ASSUME Nat \ S # {} PROVE FALSE
  OBVIOUS
<1>2. PICK m \in Nat \ S : \A x \in Nat \ S : m <= x
  BY <1>1, LeastNatural
<1>3. m # 0 /\ m - 1 \in Nat /\ m - 1 + 1 = m
  BY <1>2
<1>4. m - 1 \in S
  BY <1>2, <1>3
<1> QED
  BY <1>2, <1>3, <1>4

LEMMA GreatestNatural == ASSUME NEW n \in Nat, NEW S \in SUBSET 1..n, S # {}
                         PROVE  \E m \in S : \A x \in S : x <= m
<1> DEFINE T == {n - x : x \in S}
<1>1. T \in SUBSET Nat /\ T # {}
  <2>1. \A x \in S : n - x \in Nat
    OBVIOUS
  <2> QED
    BY <2>1
<1>2. PICK t \in T : \A x \in T : t <= x
  BY <1>1, LeastNatural
<1>3. PICK m \in S : t = n - m
  OBVIOUS
<1>4. ASSUME NEW x \in S PROVE x <= m
  <2>1. n - m <= n - x
    BY <1>2, <1>3
  <2>2. m \in Nat /\ x \in Nat
    OBVIOUS
  <2> QED
    BY <2>1, <2>2
<1> QED
  BY <1>3, <1>4

LEMMA UptoNatural == ASSUME NEW n \in Nat PROVE IsFiniteSet(1..n) /\ Cardinality(1..n) = n
<1>1. IsFiniteSet(1..n) /\ Cardinality(1..n) = IF 1 > n THEN 0 ELSE n - 1 + 1
  BY FS_Interval
<1> QED
  BY <1>1

-----------------------------------------------------------------------------
(* Counting steps. *)

\* How many steps from n on are in C, up to the first that is not.
Steps(C, lo, N, K) == K = [n \in lo .. N |-> IF n \in C THEN 1 + K[n + 1] ELSE 0]

LEMMA StepsFacts ==
  ASSUME NEW C, NEW lo \in Nat, NEW N \in Nat, N \notin C, NEW K, Steps(C, lo, N, K)
  PROVE  \A n \in lo..N : /\ K[n] \in Nat /\ n + K[n] <= N /\ n + K[n] \notin C
                         /\ \A q \in n..(n + K[n] - 1) : q \in C
<1> DEFINE Counts(n) == /\ K[n] \in Nat /\ n + K[n] <= N /\ n + K[n] \notin C
                       /\ \A q \in n..(n + K[n] - 1) : q \in C
           S == {x \in Nat : N - x >= lo => Counts(N - x)}
<1>1. \A n \in lo..N : K[n] = IF n \in C THEN 1 + K[n + 1] ELSE 0
  BY DEF Steps
<1> HIDE DEF Counts
<1>2. 0 \in S
  <2>1. ASSUME N >= lo PROVE Counts(N)
    <3>1. K[N] = 0
      BY <1>1, <2>1
    <3> QED
      BY <3>1 DEF Counts
  <2> QED
    BY <2>1
<1>3. ASSUME NEW x \in S PROVE x + 1 \in S
  <2>1. x \in Nat /\ x + 1 \in Nat
    OBVIOUS
  <2>2. ASSUME N - (x + 1) >= lo PROVE Counts(N - (x + 1))
    <3> DEFINE n == N - (x + 1)
    <3>1. n \in lo..N /\ n + 1 = N - x /\ N - x >= lo /\ n \in Nat
      BY <2>1, <2>2
    <3>2. Counts(n + 1)
      BY <3>1
    <3> HIDE DEF n
    <3>3. ASSUME n \notin C PROVE Counts(n)
      <4>1. K[n] = 0
        BY <1>1, <3>1, <3>3
      <4> QED
        BY <3>1, <3>3, <4>1 DEF Counts
    <3>4. ASSUME n \in C PROVE Counts(n)
      <4>1. K[n] = 1 + K[n + 1]
        BY <1>1, <3>1, <3>4
      <4>2. K[n + 1] \in Nat /\ n + 1 + K[n + 1] <= N /\ n + 1 + K[n + 1] \notin C
        BY <3>2 DEF Counts
      <4>3. n + K[n] = n + 1 + K[n + 1] /\ K[n] \in Nat
        BY <3>1, <4>1, <4>2
      <4>4. ASSUME NEW q \in n..(n + K[n] - 1) PROVE q \in C
        <5>1. q = n \/ q \in (n + 1)..(n + 1 + K[n + 1] - 1)
          BY <3>1, <4>2, <4>3
        <5> QED
          BY <3>2, <3>4, <5>1 DEF Counts
      <4>5. n + K[n] <= N /\ n + K[n] \notin C
        BY <4>2, <4>3
      <4> QED
        BY <4>3, <4>4, <4>5 DEF Counts
    <3> QED
      BY <3>3, <3>4 DEF n
  <2> QED
    BY <2>1, <2>2
<1>4. S \in SUBSET Nat
  OBVIOUS
<1> HIDE DEF S
<1>5. \A x \in Nat : x \in S
  BY <1>2, <1>3, <1>4, SetInduction
<1>6. ASSUME NEW n \in lo..N PROVE Counts(n)
  <2>1. N - n \in Nat /\ N - (N - n) = n /\ n >= lo
    OBVIOUS
  <2> QED
    BY <1>5, <2>1 DEF S
<1> QED
  BY <1>6 DEF Counts

LEMMA StepsExist ==
  ASSUME NEW C, NEW lo \in Nat, NEW N \in Nat, N \notin C
  PROVE  \E K : Steps(C, lo, N, K)
<1> DEFINE LeftEnd(n) == {q \in Nat : q >= n /\ q \notin C}
           First(n) == CHOOSE m \in LeftEnd(n) : \A x \in LeftEnd(n) : m <= x
           K == [n \in lo..N |-> First(n) - n]
<1>1. ASSUME NEW n \in lo..N PROVE First(n) \in LeftEnd(n) /\ \A x \in LeftEnd(n) : First(n) <= x
  <2>1. N \in LeftEnd(n) /\ LeftEnd(n) \in SUBSET Nat
    OBVIOUS
  <2> HIDE DEF LeftEnd
  <2> QED
    BY <2>1, LeastNatural
<1>2. ASSUME NEW n \in lo..N PROVE K[n] = IF n \in C THEN 1 + K[n + 1] ELSE 0
  <2> HIDE DEF First
  <2>0. n \in Nat /\ K[n] = First(n) - n
    OBVIOUS
  <2>1. CASE n \notin C
    <3>1. n \in LeftEnd(n)
      BY <2>0, <2>1
    <3>2. First(n) = n
      BY <1>1, <2>0, <3>1
    <3> QED
      BY <2>0, <2>1, <3>2
  <2>2. CASE n \in C
    <3>1. n # N /\ n + 1 \in lo..N
      BY <2>0, <2>2
    <3>2. LeftEnd(n) = LeftEnd(n + 1)
      BY <2>0, <2>2
    <3>3. First(n) = First(n + 1)
      BY <3>2 DEF First
    <3>4. First(n) \in Nat
      BY <1>1
    <3>5. K[n + 1] = First(n) - (n + 1)
      BY <3>1, <3>3
    <3> QED
      BY <2>0, <2>2, <3>4, <3>5
  <2> QED
    BY <2>1, <2>2
<1>3. K = [n \in lo..N |-> K[n]]
  OBVIOUS
<1> HIDE DEF K
<1>4. Steps(C, lo, N, K)
  BY <1>2, <1>3 DEF Steps
<1> QED
  BY <1>4

-----------------------------------------------------------------------------
(* FindLongestMatch. *)

Texts == \E T : a \in Seq(T) /\ b \in Seq(T)

LEMMA TextsFacts == ASSUME Texts PROVE /\ Len(a) \in Nat /\ DOMAIN a = 1..Len(a)
                                       /\ Len(b) \in Nat /\ DOMAIN b = 1..Len(b)
BY DEF Texts

\* A range of the two texts, and a block in it.
InTexts(r) == /\ r.alo \in Nat /\ r.ahi \in Nat /\ r.alo <= r.ahi /\ r.ahi <= Len(a)
              /\ r.blo \in Nat /\ r.bhi \in Nat /\ r.blo <= r.bhi /\ r.bhi <= Len(b)
Block(m) == m \in [a : Nat, b : Nat, size : Nat]

\* The steps back from i and j that stay in the range and on equal lines that count.
BackIn(r, popular, i, j) ==
    {n \in Nat : /\ i - n >= r.alo /\ j - n >= r.blo
                 /\ LineAt(a, i - n) = LineAt(b, j - n) /\ LineAt(b, j - n) \notin popular}

LEMMA BackEnds ==
  ASSUME Texts, NEW r, InTexts(r), NEW popular, NEW i \in r.alo .. r.ahi - 1, NEW j \in r.blo .. r.bhi - 1
  PROVE  Len(a) \in Nat /\ Len(a) \notin BackIn(r, popular, i, j)
<1>1. Len(a) \in Nat
  BY TextsFacts
<1>2. ASSUME Len(a) \in BackIn(r, popular, i, j) PROVE FALSE
  <2>1. i - Len(a) >= r.alo
    BY <1>2 DEF BackIn
  <2>2. r.alo \in Nat /\ r.ahi \in Nat /\ r.ahi <= Len(a)
    BY DEF InTexts
  <2> QED
    BY <1>1, <2>1, <2>2
<1> QED
  BY <1>1, <1>2

LEMMA RunLengthIs ==
  ASSUME Texts, NEW r, InTexts(r), NEW popular, NEW i \in r.alo .. r.ahi - 1, NEW j \in r.blo .. r.bhi - 1
  PROVE  \E K : Steps(BackIn(r, popular, i, j), 0, Len(a), K) /\ RunLength(r, popular, i, j) = K[0]
<1> DEFINE C == BackIn(r, popular, i, j)
           K == CHOOSE K : Steps(C, 0, Len(a), K)
<1>1. Len(a) \in Nat /\ Len(a) \notin C
  BY BackEnds
<1>2. Steps(C, 0, Len(a), K)
  <2> HIDE DEF C
  <2> QED
    BY <1>1, StepsExist
<1>3. RunLength(r, popular, i, j) = K[0]
  <2> DEFINE cond(n) == /\ i - n >= r.alo /\ j - n >= r.blo
                        /\ LineAt(a, i - n) = LineAt(b, j - n) /\ LineAt(b, j - n) \notin popular
  <2>1. \A n \in 0..Len(a) : n \in C <=> cond(n)
    BY <1>1 DEF BackIn
  <2> HIDE DEF C
  <2>2. \A L : [n \in 0..Len(a) |-> IF n \in C THEN 1 + L[n + 1] ELSE 0]
             = [n \in 0..Len(a) |-> IF cond(n) THEN 1 + L[n + 1] ELSE 0]
    BY <2>1, Zenon
  <2> QED
    BY <2>2 DEF RunLength, Steps
<1> QED
  BY <1>2, <1>3

\* The run that ends at i and j: all its lines are equal, and it is the longest.
RunsBack(r, popular, i, j, k) ==
    /\ k \in Nat /\ k <= Len(a)
    /\ k > 0 => i - k + 1 >= r.alo /\ j - k + 1 >= r.blo
    /\ \A n \in 0..(k - 1) : LineAt(a, i - n) = LineAt(b, j - n)
    /\ k \notin BackIn(r, popular, i, j)

LEMMA StepsRunBack ==
  ASSUME Texts, NEW r, InTexts(r), NEW popular, NEW i \in r.alo .. r.ahi - 1, NEW j \in r.blo .. r.bhi - 1,
         NEW K, Steps(BackIn(r, popular, i, j), 0, Len(a), K)
  PROVE  RunsBack(r, popular, i, j, K[0])
<1> DEFINE C == BackIn(r, popular, i, j)
           k == K[0]
<1>1. Len(a) \in Nat /\ Len(a) \notin C
  BY BackEnds
<1>2. Steps(C, 0, Len(a), K)
  OBVIOUS
<1>3. k \in Nat /\ 0 + k <= Len(a) /\ 0 + k \notin C /\ \A q \in 0..(0 + k - 1) : q \in C
  <2> HIDE DEF C
  <2>1. 0 \in 0..Len(a) /\ 0 \in Nat
    BY <1>1
  <2> QED
    BY ONLY <1>1, <1>2, <2>1, StepsFacts
<1> HIDE DEF k
<1>4. k <= Len(a) /\ k \notin C /\ \A q \in 0..(k - 1) : q \in C
  <2> HIDE DEF C
  <2> QED
    BY <1>3
<1>5. \A n \in 0..(k - 1) : LineAt(a, i - n) = LineAt(b, j - n) /\ i - n >= r.alo /\ j - n >= r.blo
  BY <1>4 DEF BackIn
<1>6. ASSUME k > 0 PROVE i - k + 1 >= r.alo /\ j - k + 1 >= r.blo
  <2>1. i - (k - 1) >= r.alo /\ j - (k - 1) >= r.blo
    <3>1. k - 1 \in 0..(k - 1)
      BY <1>3, <1>6
    <3> QED
      BY ONLY <1>5, <3>1
  <2>2. i \in Int /\ j \in Int /\ r.alo \in Int /\ r.blo \in Int
    BY DEF InTexts
  <2> QED
    BY ONLY <1>3, <2>1, <2>2
<1> QED
  BY <1>3, <1>4, <1>5, <1>6 DEF RunsBack, k

LEMMA RunLengthFacts ==
  ASSUME Texts, NEW r, InTexts(r), NEW popular, NEW i \in r.alo .. r.ahi - 1, NEW j \in r.blo .. r.bhi - 1
  PROVE  RunsBack(r, popular, i, j, RunLength(r, popular, i, j))
<1>1. PICK K : Steps(BackIn(r, popular, i, j), 0, Len(a), K) /\ RunLength(r, popular, i, j) = K[0]
  BY RunLengthIs
<1>2. RunsBack(r, popular, i, j, K[0])
  BY <1>1, StepsRunBack
<1> QED
  BY ONLY <1>1, <1>2

\* There is a first run among those of a range.
LEMMA FirstRun ==
  ASSUME NEW R \in SUBSET (Nat \X Nat \X Nat), R # {}, NEW N \in Nat, \A e \in R : e[1] <= N
  PROVE  \E e \in R : \A f \in R : e = f \/ Before(e, f)
<1> DEFINE A == {N - e[1] : e \in R}
<1>0. \A e \in R : e[1] \in Nat /\ e[2] \in Nat /\ e[3] \in Nat /\ e = <<e[1], e[2], e[3]>>
  OBVIOUS
<1>1. PICK x \in R : \A f \in R : f[1] <= x[1]
  <2>1. A \in SUBSET Nat /\ A # {}
    <3>1. \A e \in R : N - e[1] \in Nat
      BY <1>0
    <3> QED
      BY <3>1
  <2>2. PICK m \in A : \A y \in A : m <= y
    BY <2>1, LeastNatural
  <2>3. PICK x \in R : m = N - x[1]
    OBVIOUS
  <2>4. ASSUME NEW f \in R PROVE f[1] <= x[1]
    <3>1. N - x[1] <= N - f[1]
      BY <2>2, <2>3
    <3> QED
      BY <1>0, <3>1
  <2> QED
    BY <2>4
<1> DEFINE B == {e \in R : e[1] = x[1]}
           BI == {e[2] : e \in B}
<1>2. PICK y \in B : \A f \in B : y[2] <= f[2]
  <2>1. BI \in SUBSET Nat /\ BI # {}
    BY <1>0
  <2>2. PICK m \in BI : \A z \in BI : m <= z
    BY <2>1, LeastNatural
  <2> QED
    BY <2>2
<1> DEFINE C == {e \in B : e[2] = y[2]}
           CJ == {e[3] : e \in C}
<1>3. PICK z \in C : \A f \in C : z[3] <= f[3]
  <2>1. CJ \in SUBSET Nat /\ CJ # {}
    BY <1>0
  <2>2. PICK m \in CJ : \A w \in CJ : m <= w
    BY <2>1, LeastNatural
  <2> QED
    BY <2>2
<1>4. z \in R /\ z[1] = x[1] /\ z[2] = y[2]
  OBVIOUS
<1>5. ASSUME NEW f \in R PROVE z = f \/ Before(z, f)
  <2>1. CASE f[1] # x[1]
    BY <1>0, <1>1, <1>4, <2>1 DEF Before
  <2>2. CASE f[1] = x[1] /\ f[2] # y[2]
    <3>1. y[2] <= f[2]
      BY <1>2, <2>2
    <3> QED
      BY <1>0, <1>4, <2>2, <3>1 DEF Before
  <2>3. CASE f[1] = x[1] /\ f[2] = y[2]
    <3>1. z[3] <= f[3]
      BY <1>3, <2>3
    <3>2. CASE z[3] = f[3]
      BY <1>0, <1>4, <2>3, <3>2
    <3>3. CASE z[3] # f[3]
      BY <1>0, <1>4, <2>3, <3>1, <3>3 DEF Before
    <3> QED
      BY <3>2, <3>3
  <2> QED
    BY <2>1, <2>2, <2>3
<1> QED
  BY <1>4, <1>5

LEMMA RunsInFacts ==
  ASSUME Texts, NEW r, InTexts(r), NEW popular
  PROVE  /\ RunsIn(r, popular) \in SUBSET (Nat \X Nat \X Nat)
         /\ \A e \in RunsIn(r, popular) :
               /\ e[1] \in Nat /\ e[1] > 0 /\ e[1] <= Len(a)
               /\ e[2] \in r.alo .. r.ahi - 1 /\ e[3] \in r.blo .. r.bhi - 1
               /\ e[1] = RunLength(r, popular, e[2], e[3])
<1>1. ASSUME NEW e \in RunsIn(r, popular)
      PROVE  \E i \in r.alo .. r.ahi - 1, j \in r.blo .. r.bhi - 1 :
                e = <<RunLength(r, popular, i, j), i, j>> /\ RunLength(r, popular, i, j) > 0
  BY DEF RunsIn
<1>2. ASSUME NEW i \in r.alo .. r.ahi - 1, NEW j \in r.blo .. r.bhi - 1
      PROVE  RunLength(r, popular, i, j) \in Nat /\ RunLength(r, popular, i, j) <= Len(a) /\ i \in Nat /\ j \in Nat
  <2>1. RunsBack(r, popular, i, j, RunLength(r, popular, i, j))
    BY RunLengthFacts
  <2>2. r.alo \in Nat /\ r.blo \in Nat /\ r.ahi \in Nat /\ r.bhi \in Nat
    BY DEF InTexts
  <2>3. RunLength(r, popular, i, j) \in Nat /\ RunLength(r, popular, i, j) <= Len(a)
    BY ONLY <2>1, Zenon DEF RunsBack
  <2>4. i \in Nat /\ j \in Nat
    BY <2>2
  <2> QED
    BY ONLY <2>3, <2>4
<1>3. ASSUME NEW e \in RunsIn(r, popular)
      PROVE  /\ e \in Nat \X Nat \X Nat
             /\ e[1] \in Nat /\ e[1] > 0 /\ e[1] <= Len(a)
             /\ e[2] \in r.alo .. r.ahi - 1 /\ e[3] \in r.blo .. r.bhi - 1
             /\ e[1] = RunLength(r, popular, e[2], e[3])
  <2>1. PICK i \in r.alo .. r.ahi - 1, j \in r.blo .. r.bhi - 1 :
                e = <<RunLength(r, popular, i, j), i, j>> /\ RunLength(r, popular, i, j) > 0
    BY <1>1
  <2>2. RunLength(r, popular, i, j) \in Nat /\ RunLength(r, popular, i, j) <= Len(a) /\ i \in Nat /\ j \in Nat
    BY <1>2
  <2> QED
    BY ONLY <2>1, <2>2
<1> QED
  BY <1>3

\* A run, named by its last lines, is a common run of the range.
LEMMA RunIsCommon ==
  ASSUME Texts, NEW r, InTexts(r), NEW popular, NEW i \in r.alo .. r.ahi - 1, NEW j \in r.blo .. r.bhi - 1,
         NEW k \in Nat, k > 0, RunsBack(r, popular, i, j, k)
  PROVE  /\ CommonRun(r, i - k + 1, j - k + 1, k)
         /\ i - k + 1 \in Nat /\ j - k + 1 \in Nat
<1>1. r.alo \in Nat /\ r.blo \in Nat /\ r.ahi \in Nat /\ r.bhi \in Nat
  BY DEF InTexts
<1>2. i - k + 1 >= r.alo /\ j - k + 1 >= r.blo /\ \A n \in 0..(k - 1) : LineAt(a, i - n) = LineAt(b, j - n)
  BY DEF RunsBack
<1>3. ASSUME NEW n \in 0..(k - 1) PROVE LineAt(a, i - k + 1 + n) = LineAt(b, j - k + 1 + n)
  <2>1. k - 1 - n \in 0..(k - 1) /\ i - (k - 1 - n) = i - k + 1 + n /\ j - (k - 1 - n) = j - k + 1 + n
    BY <1>1
  <2>2. LineAt(a, i - (k - 1 - n)) = LineAt(b, j - (k - 1 - n))
    BY <1>2, <2>1
  <2> QED
    BY ONLY <2>1, <2>2
<1>4. i - k + 1 + k <= r.ahi /\ j - k + 1 + k <= r.bhi /\ i - k + 1 \in Nat /\ j - k + 1 \in Nat
  BY <1>1, <1>2
<1> QED
  BY <1>2, <1>3, <1>4 DEF CommonRun

\* The run BestRun takes: the longest one, and the first of those.
Best(r, popular, m) ==
    /\ Block(m) /\ CommonRun(r, m.a, m.b, m.size)
    /\ m.size = 0 => m.a = r.alo /\ m.b = r.blo
    /\ \A e \in RunsIn(r, popular) :
          /\ e[1] <= m.size
          /\ e[1] = m.size => \/ m.a + m.size - 1 < e[2]
                              \/ m.a + m.size - 1 = e[2] /\ m.b + m.size - 1 <= e[3]

LEMMA BestRunIs ==
  ASSUME Texts, NEW r, InTexts(r), NEW popular
  PROVE  Best(r, popular, BestRun(r, RunsIn(r, popular)))
<1> DEFINE R == RunsIn(r, popular)
<1>1. r.alo \in Nat /\ r.blo \in Nat /\ r.ahi \in Nat /\ r.bhi \in Nat /\ r.alo <= r.ahi /\ r.blo <= r.bhi
  BY DEF InTexts
<1>2. /\ R \in SUBSET (Nat \X Nat \X Nat)
      /\ \A e \in R : /\ e[1] \in Nat /\ e[1] > 0 /\ e[1] <= Len(a)
                      /\ e[2] \in r.alo .. r.ahi - 1 /\ e[3] \in r.blo .. r.bhi - 1
                      /\ e[1] = RunLength(r, popular, e[2], e[3])
  BY RunsInFacts
<1> HIDE DEF R
<1>3. CASE R = {}
  <2> DEFINE m == [a |-> r.alo, b |-> r.blo, size |-> 0]
  <2>1. BestRun(r, R) = m
    BY <1>3 DEF BestRun
  <2>2. Block(m) /\ m.size = 0 /\ m.a = r.alo /\ m.b = r.blo
    BY <1>1 DEF Block
  <2>3. CommonRun(r, m.a, m.b, m.size)
    BY <1>1, <2>2 DEF CommonRun
  <2> HIDE DEF m
  <2>4. Best(r, popular, m)
    BY <1>3, <2>2, <2>3 DEF Best, R
  <2> QED
    BY ONLY <2>1, <2>4 DEF R
<1>4. CASE R # {}
  <2> DEFINE e == CHOOSE e \in R : \A f \in R : e = f \/ Before(e, f)
             m == [a |-> e[2] - e[1] + 1, b |-> e[3] - e[1] + 1, size |-> e[1]]
  <2>1. e \in R /\ \A f \in R : e = f \/ Before(e, f)
    <3>1. Len(a) \in Nat
      BY TextsFacts
    <3>2. \E x \in R : \A f \in R : x = f \/ Before(x, f)
      BY <1>2, <1>4, <3>1, FirstRun
    <3> QED
      BY <3>2
  <2>2. BestRun(r, R) = m
    BY <1>4 DEF BestRun
  <2> HIDE DEF e
  <2>3. /\ m.a = e[2] - e[1] + 1 /\ m.b = e[3] - e[1] + 1 /\ m.size = e[1]
        /\ m.a \in Nat /\ m.b \in Nat /\ m.size \in Nat => Block(m)
    BY DEF Block
  <2> HIDE DEF m
  <2>4. /\ e[1] \in Nat /\ e[1] > 0 /\ e[2] \in r.alo .. r.ahi - 1 /\ e[3] \in r.blo .. r.bhi - 1
        /\ e[2] \in Nat /\ e[3] \in Nat
    BY <1>1, <1>2, <2>1
  <2>5. RunsBack(r, popular, e[2], e[3], e[1])
    BY <1>2, <2>1, <2>4, RunLengthFacts
  <2>6. CommonRun(r, m.a, m.b, m.size) /\ m.a \in Nat /\ m.b \in Nat
    BY <2>3, <2>4, <2>5, RunIsCommon
  <2>7. ASSUME NEW f \in R
        PROVE  /\ f[1] <= m.size
               /\ f[1] = m.size => \/ m.a + m.size - 1 < f[2]
                                   \/ m.a + m.size - 1 = f[2] /\ m.b + m.size - 1 <= f[3]
    <3>1. f[1] \in Nat /\ f[2] \in Nat /\ f[3] \in Nat
      BY <1>1, <1>2
    <3>2. m.a + m.size - 1 = e[2] /\ m.b + m.size - 1 = e[3] /\ m.size = e[1]
      BY <2>3, <2>4
    <3>3. e = f \/ Before(e, f)
      BY <2>1
    <3> QED
      BY <2>4, <3>1, <3>2, <3>3 DEF Before
  <2>8. m.size # 0 /\ Block(m)
    BY <2>3, <2>4, <2>6
  <2>9. Best(r, popular, m)
    BY <2>6, <2>7, <2>8 DEF Best, R
  <2> QED
    BY ONLY <2>2, <2>9 DEF R
<1> QED
  BY <1>3, <1>4

-----------------------------------------------------------------------------
(* Extended. *)

LeftSteps(r, m) == {n \in Nat : m.a - n > r.alo /\ m.b - n > r.blo /\ LineAt(a, m.a - n - 1) = LineAt(b, m.b - n - 1)}
RightSteps(r, m) == {n \in Nat : m.a + n < r.ahi /\ m.b + n < r.bhi /\ LineAt(a, m.a + n) = LineAt(b, m.b + n)}

\* How far a block goes to both sides: over equal lines, and no further.
LeftEnd(r, m, l) ==
    /\ l \in Nat /\ l \notin LeftSteps(r, m) /\ \A n \in 0..(l - 1) : n \in LeftSteps(r, m)
RightEnd(r, m, k) ==
    /\ k \in Nat /\ m.size + k \notin RightSteps(r, m) /\ \A n \in m.size..(m.size + k - 1) : n \in RightSteps(r, m)

LEMMA LeftOfIs ==
  ASSUME Texts, NEW r, InTexts(r), NEW m, Block(m), m.a <= r.ahi
  PROVE  LeftEnd(r, m, LeftOf(r, m))
<1> DEFINE C == LeftSteps(r, m)
           K == CHOOSE K : Steps(C, 0, Len(a), K)
<1>1. Len(a) \in Nat
  BY TextsFacts
<1>2. Len(a) \notin C
  <2>1. ASSUME Len(a) \in C PROVE FALSE
    <3>1. m.a - Len(a) > r.alo
      BY <2>1 DEF LeftSteps
    <3>2. m.a \in Nat /\ r.alo \in Nat /\ r.ahi \in Nat /\ r.ahi <= Len(a)
      BY DEF InTexts, Block
    <3> QED
      BY <1>1, <3>1, <3>2
  <2> QED
    BY <2>1
<1>3. Steps(C, 0, Len(a), K)
  <2> HIDE DEF C
  <2> QED
    BY <1>1, <1>2, StepsExist
<1>4. LeftOf(r, m) = K[0]
  <2> DEFINE cond(n) == m.a - n > r.alo /\ m.b - n > r.blo /\ LineAt(a, m.a - n - 1) = LineAt(b, m.b - n - 1)
  <2>1. \A n \in 0..Len(a) : n \in C <=> cond(n)
    BY <1>1 DEF LeftSteps
  <2> HIDE DEF C
  <2>2. \A L : [n \in 0..Len(a) |-> IF n \in C THEN 1 + L[n + 1] ELSE 0]
             = [n \in 0..Len(a) |-> IF cond(n) THEN 1 + L[n + 1] ELSE 0]
    BY <2>1, Zenon
  <2> QED
    BY <2>2 DEF LeftOf, Steps
<1>5. K[0] \in Nat /\ 0 + K[0] \notin C /\ \A q \in 0..(0 + K[0] - 1) : q \in C
  <2> HIDE DEF C, K
  <2>1. 0 \in 0..Len(a) /\ 0 \in Nat
    BY <1>1
  <2> QED
    BY ONLY <1>1, <1>2, <1>3, <2>1, StepsFacts
<1>6. LeftEnd(r, m, K[0])
  <2> HIDE DEF K
  <2>1. 0 + K[0] = K[0]
    BY <1>5
  <2> QED
    BY <1>5, <2>1 DEF LeftEnd
<1> QED
  BY ONLY <1>4, <1>6

LEMMA RightOfIs ==
  ASSUME Texts, NEW r, InTexts(r), NEW m, Block(m), m.a + m.size <= r.ahi
  PROVE  RightEnd(r, m, RightOf(r, m))
<1> DEFINE C == RightSteps(r, m)
           N == Len(a) + 1
           K == CHOOSE K : Steps(C, m.size, N, K)
<1>0. m.a \in Nat /\ m.size \in Nat /\ r.ahi \in Nat /\ r.ahi <= Len(a)
  BY DEF InTexts, Block
<1>1. Len(a) \in Nat /\ N \in Nat /\ m.size \in m.size..N
  <2>1. Len(a) \in Nat
    BY TextsFacts
  <2>2. m.size <= Len(a)
    BY <1>0, <2>1
  <2> QED
    BY ONLY <1>0, <2>1, <2>2
<1>2. N \notin C
  <2>1. ASSUME N \in C PROVE FALSE
    <3>1. m.a + N < r.ahi
      BY <2>1 DEF RightSteps
    <3> QED
      BY <1>0, <1>1, <3>1
  <2> QED
    BY <2>1
<1>3. Steps(C, m.size, N, K)
  <2> HIDE DEF C, N
  <2> QED
    BY <1>0, <1>1, <1>2, StepsExist
<1>4. RightOf(r, m) = K[m.size]
  <2> DEFINE cond(n) == m.a + n < r.ahi /\ m.b + n < r.bhi /\ LineAt(a, m.a + n) = LineAt(b, m.b + n)
  <2>1. \A n \in m.size..N : n \in C <=> cond(n)
    BY <1>0, <1>1 DEF RightSteps
  <2> HIDE DEF C
  <2>2. \A L : [n \in m.size..N |-> IF n \in C THEN 1 + L[n + 1] ELSE 0]
             = [n \in m.size..N |-> IF cond(n) THEN 1 + L[n + 1] ELSE 0]
    BY <2>1, Zenon
  <2> QED
    BY <2>2 DEF RightOf, Steps
<1>5. K[m.size] \in Nat /\ m.size + K[m.size] \notin C /\ \A q \in m.size..(m.size + K[m.size] - 1) : q \in C
  <2> HIDE DEF C, K, N
  <2> QED
    BY ONLY <1>0, <1>1, <1>2, <1>3, StepsFacts
<1>6. RightEnd(r, m, K[m.size])
  <2> HIDE DEF K
  <2> QED
    BY <1>5 DEF RightEnd
<1> QED
  BY ONLY <1>4, <1>6

LEMMA ExtendedIs ==
  ASSUME Texts, NEW r, InTexts(r), NEW popular, NEW m, Best(r, popular, m), NEW x, x = Extended(r, m)
  PROVE  /\ Block(x) /\ CommonRun(r, x.a, x.b, x.size)
         /\ m.size <= x.size /\ (m.size = x.size => x.a = m.a /\ x.b = m.b)
         /\ x.size = 0 /\ r.alo < r.ahi /\ r.blo < r.bhi => LineAt(a, r.alo) # LineAt(b, r.blo)
<1> DEFINE l == LeftOf(r, m)
           k == RightOf(r, m)
<1>0. /\ r.alo \in Nat /\ r.blo \in Nat /\ r.ahi \in Nat /\ r.bhi \in Nat
      /\ m.a \in Nat /\ m.b \in Nat /\ m.size \in Nat /\ Block(m)
  BY DEF InTexts, Best, Block
<1>1. /\ m.a >= r.alo /\ m.b >= r.blo /\ m.a + m.size <= r.ahi /\ m.b + m.size <= r.bhi
      /\ \A n \in 0 .. m.size - 1 : LineAt(a, m.a + n) = LineAt(b, m.b + n)
  BY DEF Best, CommonRun
<1>2. LeftEnd(r, m, l) /\ RightEnd(r, m, k)
  <2>1. m.a <= r.ahi
    BY <1>0, <1>1
  <2> QED
    BY <1>0, <1>1, <2>1, LeftOfIs, RightOfIs
<1>3. x.a = m.a - l /\ x.b = m.b - l /\ x.size = m.size + l + k
  BY DEF Extended
<1>13. x.a \in Nat /\ x.b \in Nat /\ x.size \in Nat => Block(x)
  BY DEF Extended, Block
<1> HIDE DEF l, k
<1>4. l \in Nat /\ \A n \in 0..(l - 1) : m.a - n > r.alo /\ m.b - n > r.blo /\ LineAt(a, m.a - n - 1) = LineAt(b, m.b - n - 1)
  BY <1>2 DEF LeftEnd, LeftSteps
<1>5. k \in Nat /\ \A n \in m.size..(m.size + k - 1) : m.a + n < r.ahi /\ m.b + n < r.bhi /\ LineAt(a, m.a + n) = LineAt(b, m.b + n)
  BY <1>2 DEF RightEnd, RightSteps
<1>6. m.a - l >= r.alo /\ m.b - l >= r.blo
  <2>1. CASE l = 0
    BY <1>0, <1>1, <2>1
  <2>2. CASE l # 0
    <3>1. l - 1 \in 0..(l - 1)
      BY <1>4, <2>2
    <3>2. m.a - (l - 1) > r.alo /\ m.b - (l - 1) > r.blo
      BY <1>4, <3>1
    <3> QED
      BY <1>0, <1>4, <3>2
  <2> QED
    BY <2>1, <2>2
<1>7. m.a + m.size + k <= r.ahi /\ m.b + m.size + k <= r.bhi
  <2>1. CASE k = 0
    BY <1>0, <1>1, <2>1
  <2>2. CASE k # 0
    <3>1. m.size + k - 1 \in m.size..(m.size + k - 1)
      BY <1>0, <1>5, <2>2
    <3>2. m.a + (m.size + k - 1) < r.ahi /\ m.b + (m.size + k - 1) < r.bhi
      BY <1>5, <3>1
    <3> QED
      BY <1>0, <1>5, <3>2
  <2> QED
    BY <2>1, <2>2
<1>8. Block(x) /\ x.a >= r.alo /\ x.b >= r.blo /\ x.a + x.size <= r.ahi /\ x.b + x.size <= r.bhi
  <2>1. x.a \in Nat /\ x.b \in Nat /\ x.size \in Nat
    BY <1>0, <1>3, <1>4, <1>5, <1>6
  <2>2. x.a >= r.alo /\ x.b >= r.blo
    BY <1>3, <1>6
  <2>3. x.a + x.size = m.a + m.size + k /\ x.b + x.size = m.b + m.size + k
    BY <1>0, <1>3, <1>4, <1>5
  <2> QED
    BY <1>7, <1>13, <2>1, <2>2, <2>3
<1>9. ASSUME NEW n \in 0 .. x.size - 1 PROVE LineAt(a, x.a + n) = LineAt(b, x.b + n)
  <2>0. n \in Nat /\ n < m.size + l + k
    BY <1>0, <1>3, <1>4, <1>5
  <2>1. CASE n < l
    <3>1. l - 1 - n \in 0..(l - 1) /\ m.a - (l - 1 - n) - 1 = x.a + n /\ m.b - (l - 1 - n) - 1 = x.b + n
      BY <1>0, <1>3, <1>4, <2>0, <2>1
    <3>2. LineAt(a, m.a - (l - 1 - n) - 1) = LineAt(b, m.b - (l - 1 - n) - 1)
      BY <1>4, <3>1
    <3> QED
      BY ONLY <3>1, <3>2
  <2>2. CASE l <= n /\ n < l + m.size
    <3>1. n - l \in 0 .. m.size - 1 /\ m.a + (n - l) = x.a + n /\ m.b + (n - l) = x.b + n
      BY <1>0, <1>3, <1>4, <2>0, <2>2
    <3>2. LineAt(a, m.a + (n - l)) = LineAt(b, m.b + (n - l))
      BY <1>1, <3>1
    <3> QED
      BY ONLY <3>1, <3>2
  <2>3. CASE l + m.size <= n
    <3>1. n - l \in m.size..(m.size + k - 1) /\ m.a + (n - l) = x.a + n /\ m.b + (n - l) = x.b + n
      BY <1>0, <1>3, <1>4, <1>5, <2>0, <2>3
    <3>2. LineAt(a, m.a + (n - l)) = LineAt(b, m.b + (n - l))
      BY <1>5, <3>1
    <3> QED
      BY ONLY <3>1, <3>2
  <2> QED
    BY <1>0, <1>4, <2>0, <2>1, <2>2, <2>3
<1>10. CommonRun(r, x.a, x.b, x.size)
  BY <1>8, <1>9 DEF CommonRun
<1>11. m.size <= x.size /\ (m.size = x.size => x.a = m.a /\ x.b = m.b)
  BY <1>0, <1>3, <1>4, <1>5
<1>12. ASSUME x.size = 0, r.alo < r.ahi, r.blo < r.bhi PROVE LineAt(a, r.alo) # LineAt(b, r.blo)
  <2>1. m.size = 0 /\ k = 0
    BY <1>0, <1>3, <1>4, <1>5, <1>12
  <2>2. m.a = r.alo /\ m.b = r.blo
    BY <2>1 DEF Best
  <2>3. 0 \notin RightSteps(r, m)
    BY <1>2, <2>1 DEF RightEnd
  <2>4. m.a + 0 = r.alo /\ m.b + 0 = r.blo
    BY <1>0, <2>2
  <2> QED
    BY <1>12, <2>3, <2>4 DEF RightSteps
<1> QED
  BY <1>8, <1>10, <1>11, <1>12

\* Without popular elements the runs know every common run.
LEMMA CommonIsRun ==
  ASSUME Texts, NEW r, InTexts(r), NEW i \in Nat, NEW j \in Nat, NEW k \in Nat, k > 0, CommonRun(r, i, j, k)
  PROVE  \E e \in RunsIn(r, {}) : e[1] >= k /\ e[2] = i + k - 1 /\ e[3] = j + k - 1
<1> DEFINE p == i + k - 1
           q == j + k - 1
           L == RunLength(r, {}, p, q)
<1>0. /\ r.alo \in Nat /\ r.blo \in Nat /\ r.ahi \in Nat /\ r.bhi \in Nat
      /\ i >= r.alo /\ j >= r.blo /\ i + k <= r.ahi /\ j + k <= r.bhi
      /\ \A n \in 0 .. k - 1 : LineAt(a, i + n) = LineAt(b, j + n)
  BY DEF InTexts, CommonRun
<1>1. p \in r.alo .. r.ahi - 1 /\ q \in r.blo .. r.bhi - 1 /\ p \in Nat /\ q \in Nat
  BY <1>0
<1>2. RunsBack(r, {}, p, q, L)
  <2> HIDE DEF p, q
  <2> QED
    BY <1>1, RunLengthFacts
<1>3. L \in Nat /\ L \notin BackIn(r, {}, p, q)
  <2> HIDE DEF L, p, q
  <2> QED
    BY <1>2 DEF RunsBack
<1>4. L >= k
  <2> HIDE DEF L
  <2>1. ASSUME ~(L >= k) PROVE FALSE
    <3>1. k - 1 - L \in 0 .. k - 1 /\ i + (k - 1 - L) = p - L /\ j + (k - 1 - L) = q - L
      BY <1>3, <2>1
    <3>2. LineAt(a, i + (k - 1 - L)) = LineAt(b, j + (k - 1 - L))
      BY <1>0, <3>1
    <3>3. LineAt(a, p - L) = LineAt(b, q - L)
      BY ONLY <3>1, <3>2
    <3>4. p - L >= r.alo /\ q - L >= r.blo
      BY <1>0, <1>3, <2>1
    <3> HIDE DEF p, q
    <3> QED
      BY ONLY <1>3, <3>3, <3>4 DEF BackIn
  <2> QED
    BY <2>1
<1>5. <<L, p, q>> \in RunsIn(r, {})
  <2>1. <<L, p, q>>[1] > 0
    BY <1>3, <1>4
  <2> HIDE DEF p, q
  <2> QED
    BY <1>1, <2>1 DEF RunsIn, L
<1> HIDE DEF L
<1> QED
  BY <1>4, <1>5

\* What a search of a range gives.
Longest(r, m) ==
    /\ Block(m) /\ CommonRun(r, m.a, m.b, m.size)
    /\ m.size = 0 /\ r.alo < r.ahi /\ r.blo < r.bhi => LineAt(a, r.alo) # LineAt(b, r.blo)
    /\ Popular(b) = {} =>
         /\ \A i \in r.alo .. r.ahi, j \in r.blo .. r.bhi : ~CommonRun(r, i, j, m.size + 1)
         /\ m.size > 0 => \A i \in r.alo .. m.a, j \in r.blo .. r.bhi :
                CommonRun(r, i, j, m.size) => (i = m.a /\ j >= m.b)

LEMMA LongestFacts ==
  ASSUME Texts, NEW r, InTexts(r), NEW x \in FindLongestMatch(r)
  PROVE  Longest(r, x)
<1> DEFINE popular == Popular(b)
           m == BestRun(r, RunsIn(r, popular))
<1>1. x = Extended(r, m)
  BY DEF FindLongestMatch
<1>2. Best(r, popular, m)
  BY BestRunIs
<1> HIDE DEF m, popular
<1>3. /\ Block(x) /\ CommonRun(r, x.a, x.b, x.size)
      /\ m.size <= x.size /\ (m.size = x.size => x.a = m.a /\ x.b = m.b)
      /\ x.size = 0 /\ r.alo < r.ahi /\ r.blo < r.bhi => LineAt(a, r.alo) # LineAt(b, r.blo)
  BY <1>1, <1>2, ExtendedIs
<1>4. /\ r.alo \in Nat /\ r.blo \in Nat /\ r.ahi \in Nat /\ r.bhi \in Nat
      /\ m.a \in Nat /\ m.b \in Nat /\ m.size \in Nat
      /\ x.a \in Nat /\ x.b \in Nat /\ x.size \in Nat
  BY <1>2, <1>3 DEF InTexts, Best, Block
<1>5. ASSUME popular = {}, NEW i \in Nat, NEW j \in Nat, NEW k \in Nat, k > 0, CommonRun(r, i, j, k)
      PROVE  /\ k <= m.size
             /\ k = m.size => m.a < i \/ (m.a = i /\ m.b <= j)
  <2>1. PICK e \in RunsIn(r, {}) : e[1] >= k /\ e[2] = i + k - 1 /\ e[3] = j + k - 1
    BY <1>5, CommonIsRun
  <2>2. /\ e[1] <= m.size
        /\ e[1] = m.size => \/ m.a + m.size - 1 < e[2]
                            \/ m.a + m.size - 1 = e[2] /\ m.b + m.size - 1 <= e[3]
    BY <1>2, <1>5 DEF Best
  <2>3. e[1] \in Nat
    BY RunsInFacts
  <2>4. k <= m.size
    BY <1>4, <2>1, <2>2, <2>3
  <2>5. ASSUME k = m.size PROVE m.a < i \/ (m.a = i /\ m.b <= j)
    <3>1. e[1] = m.size
      BY <1>4, <2>1, <2>2, <2>3, <2>5
    <3>2. \/ m.a + k - 1 < i + k - 1
          \/ m.a + k - 1 = i + k - 1 /\ m.b + k - 1 <= j + k - 1
      BY ONLY <2>1, <2>2, <2>5, <3>1
    <3> QED
      BY <1>4, <3>2
  <2> QED
    BY <2>4, <2>5
<1>6. ASSUME popular = {}
      PROVE  /\ \A i \in r.alo .. r.ahi, j \in r.blo .. r.bhi : ~CommonRun(r, i, j, x.size + 1)
             /\ x.size > 0 => \A i \in r.alo .. x.a, j \in r.blo .. r.bhi :
                    CommonRun(r, i, j, x.size) => (i = x.a /\ j >= x.b)
  <2>1. ASSUME NEW i \in r.alo .. r.ahi, NEW j \in r.blo .. r.bhi, CommonRun(r, i, j, x.size + 1) PROVE FALSE
    <3>1. i \in Nat /\ j \in Nat /\ x.size + 1 \in Nat /\ x.size + 1 > 0
      BY <1>4
    <3>2. x.size + 1 <= m.size
      BY ONLY <1>5, <1>6, <2>1, <3>1
    <3> QED
      BY <1>3, <1>4, <3>2
  <2>2. ASSUME x.size > 0, NEW i \in r.alo .. x.a, NEW j \in r.blo .. r.bhi, CommonRun(r, i, j, x.size)
        PROVE  i = x.a /\ j >= x.b
    <3>1. x.size <= m.size
      BY ONLY <1>3, <1>4, <1>5, <1>6, <2>2
    <3>2. x.size = m.size /\ x.a = m.a /\ x.b = m.b
      BY <1>3, <1>4, <3>1
    <3>3. i \in Nat /\ j \in Nat /\ i <= x.a
      BY <1>4
    <3>4. m.a < i \/ (m.a = i /\ m.b <= j)
      BY ONLY <1>4, <1>5, <1>6, <2>2, <3>2, <3>3
    <3> QED
      BY <1>4, <3>2, <3>3, <3>4
  <2> QED
    BY <2>1, <2>2
<1> QED
  BY <1>3, <1>6 DEF Longest, popular

-----------------------------------------------------------------------------
(* GetMatchingBlocks: the blocks found and the ranges that are left. *)

Sound(x) == Block(x) /\ x.size > 0 /\ CommonRun(WholeRange, x.a, x.b, x.size)
Precedes(x, y) == x.a + x.size <= y.a /\ x.b + x.size <= y.b
Apart(S) == \A x, y \in S : x = y \/ Precedes(x, y) \/ Precedes(y, x)
Blocks(S) == IsFiniteSet(S) /\ (\A x \in S : Sound(x)) /\ Apart(S)

Elems(q) == {q[k] : k \in 1..Len(q)}
RangeBefore(r, s) == r.ahi <= s.alo /\ r.bhi <= s.blo
\* The stack holds the ranges in the order of the texts.
Lined(q) == (\E X : q \in Seq(X)) /\ \A k, l \in 1..Len(q) : k < l => RangeBefore(q[k], q[l])

\* A range that is left lies between the blocks and ends at one or at the end.
Open(S, r) ==
    /\ InTexts(r)
    /\ r.alo = r.ahi => r.ahi = Len(a)
    /\ r.blo = r.bhi => r.bhi = Len(b)
    /\ (r.ahi = Len(a) /\ r.bhi = Len(b)) \/ \E y \in S : y.a = r.ahi /\ y.b = r.bhi
    /\ \A x \in S : \/ x.a + x.size <= r.alo /\ x.b + x.size <= r.blo
                    \/ r.ahi <= x.a /\ r.bhi <= x.b

\* Where a block ends no other line of both texts can be matched.
Corner(S, i, j) == (i = 0 /\ j = 0) \/ \E x \in S : i = x.a + x.size /\ j = x.b + x.size
Closed(S, i, j) ==
    \/ i = Len(a) \/ j = Len(b)
    \/ \E y \in S : i <= y.a /\ j <= y.b /\ (i = y.a \/ j = y.b)
    \/ LineAt(a, i) # LineAt(b, j)

Searched(S, q) ==
    /\ Blocks(S) /\ Lined(q)
    /\ \A r \in Elems(q) : Open(S, r)
    /\ \A i, j : Corner(S, i, j) => Closed(S, i, j) \/ \E r \in Elems(q) : r.alo = i /\ r.blo = j

LEMMA JoinedRanges ==
  ASSUME NEW q, NEW p, Lined(q), Lined(p), \A r \in Elems(q), s \in Elems(p) : RangeBefore(r, s)
  PROVE  Lined(q \o p) /\ Elems(q \o p) = Elems(q) \cup Elems(p)
<1>1. PICK X : q \in Seq(X)
  BY DEF Lined
<1>2. PICK Y : p \in Seq(Y)
  BY DEF Lined
<1> DEFINE Z == X \cup Y
           w == q \o p
<1>3. q \in Seq(Z) /\ p \in Seq(Z)
  BY <1>1, <1>2
<1> HIDE DEF Z
<1>4. /\ w \in Seq(Z) /\ Len(w) = Len(q) + Len(p) /\ Len(q) \in Nat /\ Len(p) \in Nat
      /\ \A i \in 1..Len(w) : w[i] = IF i <= Len(q) THEN q[i] ELSE p[i - Len(q)]
  BY <1>3, ConcatProperties
<1> HIDE DEF w
<1>5. ASSUME NEW k \in 1..Len(w)
      PROVE  \/ k \in 1..Len(q) /\ w[k] = q[k]
             \/ k > Len(q) /\ k - Len(q) \in 1..Len(p) /\ w[k] = p[k - Len(q)]
  BY <1>4
<1>6. Elems(w) = Elems(q) \cup Elems(p)
  <2>1. ASSUME NEW r \in Elems(w) PROVE r \in Elems(q) \cup Elems(p)
    <3>1. PICK k \in 1..Len(w) : r = w[k]
      BY DEF Elems
    <3> QED
      BY <1>5, <3>1 DEF Elems
  <2>2. ASSUME NEW r \in Elems(q) PROVE r \in Elems(w)
    <3>1. PICK k \in 1..Len(q) : r = q[k]
      BY DEF Elems
    <3>2. k \in 1..Len(w) /\ w[k] = q[k]
      BY <1>4
    <3> QED
      BY <3>1, <3>2 DEF Elems
  <2>3. ASSUME NEW r \in Elems(p) PROVE r \in Elems(w)
    <3>1. PICK k \in 1..Len(p) : r = p[k]
      BY DEF Elems
    <3>2. Len(q) + k \in 1..Len(w) /\ ~(Len(q) + k <= Len(q)) /\ Len(q) + k - Len(q) = k
      BY <1>4
    <3>3. w[Len(q) + k] = p[k]
      BY <1>4, <3>2
    <3> QED
      BY <3>1, <3>2, <3>3 DEF Elems
  <2> QED
    BY <2>1, <2>2, <2>3
<1>7. ASSUME NEW k \in 1..Len(w), NEW l \in 1..Len(w), k < l PROVE RangeBefore(w[k], w[l])
  <2>1. CASE k \in 1..Len(q) /\ w[k] = q[k]
    <3>1. CASE l \in 1..Len(q) /\ w[l] = q[l]
      BY <1>7, <2>1, <3>1 DEF Lined
    <3>2. CASE l > Len(q) /\ l - Len(q) \in 1..Len(p) /\ w[l] = p[l - Len(q)]
      <4>1. q[k] \in Elems(q) /\ p[l - Len(q)] \in Elems(p)
        BY <2>1, <3>2 DEF Elems
      <4> QED
        BY <2>1, <3>2, <4>1
    <3> QED
      BY <1>5, <3>1, <3>2
  <2>2. CASE k > Len(q) /\ k - Len(q) \in 1..Len(p) /\ w[k] = p[k - Len(q)]
    <3>1. l > Len(q) /\ k - Len(q) < l - Len(q)
      BY <1>4, <1>7, <2>2
    <3>2. l - Len(q) \in 1..Len(p) /\ w[l] = p[l - Len(q)]
      BY <1>4, <1>5, <3>1
    <3>3. RangeBefore(p[k - Len(q)], p[l - Len(q)])
      BY <2>2, <3>1, <3>2 DEF Lined
    <3> QED
      BY ONLY <2>2, <3>2, <3>3
  <2> QED
    BY <1>5, <2>1, <2>2
<1>8. Lined(w)
  BY <1>4, <1>7 DEF Lined
<1> QED
  BY <1>6, <1>8 DEF w

LEMMA PrefixFacts ==
  ASSUME NEW T, NEW s \in Seq(T), NEW n \in 0..Len(s)
  PROVE  /\ SubSeq(s, 1, n) \in Seq(T) /\ Len(SubSeq(s, 1, n)) = n
         /\ \A i \in 1..n : SubSeq(s, 1, n)[i] = s[i]
<1>1. n \in Nat /\ Len(s) \in Nat /\ n <= Len(s)
  OBVIOUS
<1>2. \A i \in 1..n : s[i] \in T
  OBVIOUS
<1>3. SubSeq(s, 1, n) = [i \in 1..n |-> s[i]]
  BY <1>1
<1>4. [i \in 1..n |-> s[i]] \in Seq(T)
  BY <1>1, <1>2
<1> QED
  BY <1>1, <1>3, <1>4

\* The stack without its last range.
Popped(q, rest, r) == /\ Lined(rest) /\ Elems(q) = Elems(rest) \cup {r}
                      /\ \A s \in Elems(rest) : RangeBefore(s, r)

LEMMA LastRange ==
  ASSUME NEW q, Lined(q), q # <<>>
  PROVE  Popped(q, SubSeq(q, 1, Len(q) - 1), q[Len(q)])
<1> DEFINE rest == SubSeq(q, 1, Len(q) - 1)
           r == q[Len(q)]
<1>1. PICK X : q \in Seq(X)
  BY DEF Lined
<1>2. Len(q) \in Nat /\ Len(q) # 0
  BY <1>1
<1>3. rest \in Seq(X) /\ Len(rest) = Len(q) - 1 /\ \A k \in 1..Len(rest) : rest[k] = q[k]
  <2>1. Len(q) - 1 \in 0..Len(q)
    BY <1>2
  <2> QED
    BY <1>1, <2>1, PrefixFacts
<1> HIDE DEF rest
<1>4. \A k \in 1..Len(q) : k = Len(q) \/ k \in 1..Len(rest)
  BY <1>2, <1>3
<1>5. \A k \in 1..Len(rest) : k \in 1..Len(q) /\ k < Len(q)
  BY <1>2, <1>3
<1>6. Len(q) \in 1..Len(q)
  BY <1>2
<1>7. Lined(rest)
  BY <1>3, <1>5 DEF Lined
<1>8. Elems(q) = Elems(rest) \cup {r}
  BY <1>3, <1>4, <1>5, <1>6 DEF Elems
<1>9. ASSUME NEW s \in Elems(rest) PROVE RangeBefore(s, r)
  <2>1. PICK k \in 1..Len(rest) : s = rest[k]
    BY DEF Elems
  <2>2. RangeBefore(q[k], q[Len(q)])
    BY <1>5, <1>6 DEF Lined
  <2> QED
    BY <1>3, <2>1, <2>2
<1> QED
  BY <1>7, <1>8, <1>9 DEF Popped, rest

LEMMA NoRanges == Lined(<<>>) /\ Elems(<<>>) = {}
<1>1. <<>> \in Seq({}) /\ Len(<<>>) = 0
  OBVIOUS
<1> QED
  BY <1>1 DEF Lined, Elems

LEMMA OneRange == ASSUME NEW r PROVE Lined(<<r>>) /\ Elems(<<r>>) = {r}
<1>1. <<r>> \in Seq({r}) /\ Len(<<r>>) = 1 /\ <<r>>[1] = r
  OBVIOUS
<1>2. \A k, l \in 1..1 : ~(k < l)
  OBVIOUS
<1>3. Lined(<<r>>)
  BY <1>1, <1>2 DEF Lined
<1>4. \A k : k \in 1..1 <=> k = 1
  OBVIOUS
<1>5. Elems(<<r>>) = {r}
  BY <1>1, <1>4, Zenon DEF Elems
<1> QED
  BY <1>3, <1>5

LeftRange(r, m) == [alo |-> r.alo, ahi |-> m.a, blo |-> r.blo, bhi |-> m.b]
RightRange(r, m) == [alo |-> m.a + m.size, ahi |-> r.ahi, blo |-> m.b + m.size, bhi |-> r.bhi]
Parts(r, m) == {s \in {LeftRange(r, m), RightRange(r, m)} : s.alo < s.ahi /\ s.blo < s.bhi}

LEMMA PartsFacts ==
  ASSUME NEW r, NEW m, Block(m)
  PROVE  /\ Lined(LeftPart(r, m)) /\ Lined(RightPart(r, m))
         /\ Elems(LeftPart(r, m)) \cup Elems(RightPart(r, m)) = Parts(r, m)
         /\ \A s \in Elems(LeftPart(r, m)), t \in Elems(RightPart(r, m)) : RangeBefore(s, t)
<1> DEFINE L == LeftPart(r, m)
           R == RightPart(r, m)
           l == LeftRange(r, m)
           g == RightRange(r, m)
<1>1. /\ Lined(L) /\ Elems(L) = {s \in {l} : s.alo < s.ahi /\ s.blo < s.bhi}
      /\ Lined(R) /\ Elems(R) = {s \in {g} : s.alo < s.ahi /\ s.blo < s.bhi}
  <2>1. L = IF l.alo < l.ahi /\ l.blo < l.bhi THEN <<l>> ELSE <<>>
    BY DEF LeftPart, LeftRange
  <2>2. R = IF g.alo < g.ahi /\ g.blo < g.bhi THEN <<g>> ELSE <<>>
    BY DEF RightPart, RightRange
  <2> HIDE DEF L, R, l, g
  <2>3. \A s : Lined(<<s>>) /\ Elems(<<s>>) = {s}
    BY OneRange, Zenon
  <2>4. Lined(L) /\ Elems(L) = {s \in {l} : s.alo < s.ahi /\ s.blo < s.bhi}
    BY <2>1, <2>3, NoRanges
  <2>5. Lined(R) /\ Elems(R) = {s \in {g} : s.alo < s.ahi /\ s.blo < s.bhi}
    BY <2>2, <2>3, NoRanges
  <2> QED
    BY <2>4, <2>5
<1>2. RangeBefore(l, g)
  BY DEF RangeBefore, LeftRange, RightRange, Block
<1>3. Parts(r, m) = {s \in {l} : s.alo < s.ahi /\ s.blo < s.bhi} \cup {s \in {g} : s.alo < s.ahi /\ s.blo < s.bhi}
  BY Zenon DEF Parts
<1> HIDE DEF L, R, l, g
<1>4. \A s \in Elems(L), t \in Elems(R) : RangeBefore(s, t)
  BY <1>1, <1>2
<1>5. Elems(L) \cup Elems(R) = Parts(r, m)
  BY <1>1, <1>3
<1> QED
  BY <1>1, <1>4, <1>5 DEF L, R

LEMMA SearchBegins == ASSUME Texts PROVE Searched({}, <<WholeRange>>)
<1>1. Len(a) \in Nat /\ Len(b) \in Nat
  BY TextsFacts
<1>2. Lined(<<WholeRange>>) /\ Elems(<<WholeRange>>) = {WholeRange}
  BY OneRange
<1>3. Blocks({})
  BY FS_EmptySet DEF Blocks, Apart
<1>4. Open({}, WholeRange)
  BY <1>1 DEF Open, InTexts, WholeRange
<1>5. ASSUME NEW i, NEW j, Corner({}, i, j) PROVE WholeRange.alo = i /\ WholeRange.blo = j
  BY <1>5 DEF Corner, WholeRange
<1> QED
  BY <1>2, <1>3, <1>4, <1>5 DEF Searched

\* A range in which nothing is common.
LEMMA EmptySearch ==
  ASSUME Texts, NEW S, NEW q, Searched(S, q), q # <<>>, NEW rest, rest = SubSeq(q, 1, Len(q) - 1),
         NEW m, Longest(q[Len(q)], m), m.size = 0
  PROVE  Searched(S, rest)
<1> DEFINE r == q[Len(q)]
<1>1. Lined(rest) /\ Elems(q) = Elems(rest) \cup {r}
  <2>1. Lined(q)
    BY DEF Searched
  <2>2. Popped(q, SubSeq(q, 1, Len(q) - 1), r)
    BY <2>1, LastRange, Zenon
  <2> QED
    BY <2>2 DEF Popped
<1> HIDE DEF r
<1>2. Open(S, r)
  BY <1>1 DEF Searched
<1>3. Closed(S, r.alo, r.blo)
  <2>1. r.alo < r.ahi /\ r.blo < r.bhi => LineAt(a, r.alo) # LineAt(b, r.blo)
    BY DEF Longest, r
  <2>2. r.alo = r.ahi \/ r.blo = r.bhi \/ (r.alo < r.ahi /\ r.blo < r.bhi)
    BY <1>2 DEF Open, InTexts
  <2>3. (r.alo = r.ahi => r.alo = Len(a)) /\ (r.blo = r.bhi => r.blo = Len(b))
    BY <1>2 DEF Open
  <2> QED
    BY ONLY <2>1, <2>2, <2>3 DEF Closed
<1>4. ASSUME NEW i, NEW j, Corner(S, i, j)
      PROVE  Closed(S, i, j) \/ \E s \in Elems(rest) : s.alo = i /\ s.blo = j
  <2>1. Closed(S, i, j) \/ \E s \in Elems(q) : s.alo = i /\ s.blo = j
    BY <1>4 DEF Searched
  <2> QED
    BY <1>1, <1>3, <2>1
<1>5. Blocks(S) /\ \A s \in Elems(rest) : Open(S, s)
  BY <1>1 DEF Searched
<1> QED
  BY <1>1, <1>4, <1>5 DEF Searched

\* A block is found: it lies between the blocks before and behind the range.
LEMMA BlockAdded ==
  ASSUME Texts, NEW S, NEW r, Blocks(S), Open(S, r), NEW m, Longest(r, m), m.size > 0
  PROVE  Blocks(S \cup {m})
<1>1. Block(m) /\ CommonRun(r, m.a, m.b, m.size)
  BY DEF Longest
<1>2. InTexts(r) /\ Len(a) \in Nat /\ Len(b) \in Nat
  BY TextsFacts DEF Open
<1>3. r.alo <= m.a /\ r.blo <= m.b /\ m.a + m.size <= r.ahi /\ m.b + m.size <= r.bhi
  BY <1>1 DEF CommonRun
<1>4. Sound(m)
  <2>1. /\ m.a >= WholeRange.alo /\ m.b >= WholeRange.blo
        /\ m.a + m.size <= WholeRange.ahi /\ m.b + m.size <= WholeRange.bhi
    BY <1>1, <1>2, <1>3 DEF WholeRange, Block, InTexts
  <2> QED
    BY <1>1, <2>1 DEF Sound, CommonRun
<1>5. ASSUME NEW x \in S PROVE Precedes(x, m) \/ Precedes(m, x)
  <2>1. Block(x)
    BY DEF Blocks, Sound
  <2>2. \/ x.a + x.size <= r.alo /\ x.b + x.size <= r.blo
        \/ r.ahi <= x.a /\ r.bhi <= x.b
    BY DEF Open
  <2>3. /\ x.a \in Nat /\ x.b \in Nat /\ x.size \in Nat /\ m.a \in Nat /\ m.b \in Nat /\ m.size \in Nat
        /\ r.alo \in Nat /\ r.blo \in Nat /\ r.ahi \in Nat /\ r.bhi \in Nat
    BY <1>1, <1>2, <2>1 DEF Block, InTexts
  <2>4. CASE x.a + x.size <= r.alo /\ x.b + x.size <= r.blo
    <3>1. x.a + x.size <= m.a /\ x.b + x.size <= m.b
      BY ONLY <1>3, <2>3, <2>4
    <3> QED
      BY <3>1 DEF Precedes
  <2>5. CASE r.ahi <= x.a /\ r.bhi <= x.b
    <3>1. m.a + m.size <= x.a /\ m.b + m.size <= x.b
      BY ONLY <1>3, <2>3, <2>5
    <3> QED
      BY <3>1 DEF Precedes
  <2> QED
    BY <2>2, <2>4, <2>5
<1>6. Apart(S \cup {m})
  BY <1>5 DEF Blocks, Apart
<1>7. IsFiniteSet(S \cup {m})
  BY FS_AddElement DEF Blocks
<1> QED
  BY <1>4, <1>6, <1>7 DEF Blocks

LEMMA OpenStays ==
  ASSUME NEW S, NEW r, Open(S, r), NEW m, Longest(r, m), NEW s, Open(S, s), RangeBefore(s, r)
  PROVE  Open(S \cup {m}, s)
<1>1. /\ m.a \in Nat /\ m.b \in Nat /\ r.alo \in Nat /\ r.blo \in Nat /\ s.ahi \in Nat /\ s.bhi \in Nat
      /\ r.alo <= m.a /\ r.blo <= m.b
  BY DEF Open, InTexts, Longest, Block, CommonRun
<1>2. s.ahi <= m.a /\ s.bhi <= m.b
  BY <1>1 DEF RangeBefore
<1>3. /\ InTexts(s) /\ (s.alo = s.ahi => s.ahi = Len(a)) /\ (s.blo = s.bhi => s.bhi = Len(b))
      /\ (s.ahi = Len(a) /\ s.bhi = Len(b)) \/ \E y \in S : y.a = s.ahi /\ y.b = s.bhi
      /\ \A x \in S : \/ x.a + x.size <= s.alo /\ x.b + x.size <= s.blo
                      \/ s.ahi <= x.a /\ s.bhi <= x.b
  BY Zenon DEF Open
<1> QED
  BY ONLY <1>2, <1>3 DEF Open

LEMMA PartsOpen ==
  ASSUME NEW S, Blocks(S), NEW r, Open(S, r), NEW m, Longest(r, m), m.size > 0, NEW s \in Parts(r, m)
  PROVE  Open(S \cup {m}, s) /\ r.alo <= s.alo /\ r.blo <= s.blo
<1>0. /\ InTexts(r)
      /\ (r.ahi = Len(a) /\ r.bhi = Len(b)) \/ \E y \in S : y.a = r.ahi /\ y.b = r.bhi
      /\ \A x \in S : \/ x.a + x.size <= r.alo /\ x.b + x.size <= r.blo
                      \/ r.ahi <= x.a /\ r.bhi <= x.b
  BY Zenon DEF Open
<1>1. /\ r.alo \in Nat /\ r.blo \in Nat /\ r.ahi \in Nat /\ r.bhi \in Nat
      /\ m.a \in Nat /\ m.b \in Nat /\ m.size \in Nat
      /\ r.ahi <= Len(a) /\ r.bhi <= Len(b)
  BY <1>0 DEF InTexts, Longest, Block
<1>2. r.alo <= m.a /\ r.blo <= m.b /\ m.a + m.size <= r.ahi /\ m.b + m.size <= r.bhi
  BY DEF Longest, CommonRun
<1>3. \A x \in S : x.a \in Nat /\ x.b \in Nat /\ x.size \in Nat
  BY DEF Blocks, Sound, Block
<1>4. s.alo < s.ahi /\ s.blo < s.bhi /\ s \in {LeftRange(r, m), RightRange(r, m)}
  BY DEF Parts
<1>5. CASE s = LeftRange(r, m)
  <2>1. s.alo = r.alo /\ s.blo = r.blo /\ s.ahi = m.a /\ s.bhi = m.b
    BY <1>5 DEF LeftRange
  <2>2. InTexts(s)
    <3>2. m.a <= r.ahi /\ m.b <= r.bhi
      BY <1>1, <1>2
    <3> QED
      BY <1>0, <1>1, <1>4, <2>1, <3>2 DEF InTexts
  <2>3. \A x \in S \cup {m} : \/ x.a + x.size <= s.alo /\ x.b + x.size <= s.blo
                              \/ s.ahi <= x.a /\ s.bhi <= x.b
    <3>1. ASSUME NEW x \in S PROVE \/ x.a + x.size <= s.alo /\ x.b + x.size <= s.blo
                                   \/ s.ahi <= x.a /\ s.bhi <= x.b
      <4>1. x.a \in Nat /\ x.b \in Nat /\ x.size \in Nat
        BY <1>3
      <4>2. CASE x.a + x.size <= r.alo /\ x.b + x.size <= r.blo
        BY ONLY <1>1, <1>2, <2>1, <4>1, <4>2
      <4>3. CASE r.ahi <= x.a /\ r.bhi <= x.b
        <5>1. m.a <= x.a /\ m.b <= x.b
          BY ONLY <1>1, <1>2, <4>1, <4>3
        <5> QED
          BY ONLY <2>1, <5>1
      <4> QED
        BY <1>0, <4>2, <4>3
    <3> QED
      BY <1>1, <2>1, <3>1
  <2>4. s.alo # s.ahi /\ s.blo # s.bhi
    BY <1>1, <1>4, <2>1
  <2>5. \E y \in S \cup {m} : y.a = s.ahi /\ y.b = s.bhi
    BY <2>1
  <2>6. r.alo <= s.alo /\ r.blo <= s.blo
    BY <1>1, <2>1
  <2> QED
    BY ONLY <2>2, <2>3, <2>4, <2>5, <2>6 DEF Open
<1>6. CASE s = RightRange(r, m)
  <2>1. s.alo = m.a + m.size /\ s.blo = m.b + m.size /\ s.ahi = r.ahi /\ s.bhi = r.bhi
    BY <1>6 DEF RightRange
  <2>2. InTexts(s)
    BY <1>0, <1>1, <1>2, <2>1 DEF InTexts
  <2>3. \A x \in S \cup {m} : \/ x.a + x.size <= s.alo /\ x.b + x.size <= s.blo
                              \/ s.ahi <= x.a /\ s.bhi <= x.b
    <3>1. ASSUME NEW x \in S PROVE \/ x.a + x.size <= s.alo /\ x.b + x.size <= s.blo
                                   \/ s.ahi <= x.a /\ s.bhi <= x.b
      <4>1. x.a \in Nat /\ x.b \in Nat /\ x.size \in Nat
        BY <1>3
      <4>2. CASE x.a + x.size <= r.alo /\ x.b + x.size <= r.blo
        <5>1. x.a + x.size <= m.a + m.size
          <6>1. x.a + x.size <= r.alo /\ r.alo <= m.a
            BY <1>2, <4>2
          <6>2. x.a \in Nat /\ x.size \in Nat /\ r.alo \in Nat /\ m.a \in Nat /\ m.size \in Nat
            BY <1>1, <4>1
          <6> QED
            BY ONLY <6>1, <6>2
        <5>2. x.b + x.size <= m.b + m.size
          <6>1. x.b + x.size <= r.blo /\ r.blo <= m.b
            BY <1>2, <4>2
          <6>2. x.b \in Nat /\ x.size \in Nat /\ r.blo \in Nat /\ m.b \in Nat /\ m.size \in Nat
            BY <1>1, <4>1
          <6> QED
            BY ONLY <6>1, <6>2
        <5> QED
          BY ONLY <2>1, <5>1, <5>2
      <4>3. CASE r.ahi <= x.a /\ r.bhi <= x.b
        BY ONLY <1>1, <1>2, <2>1, <4>1, <4>3
      <4> QED
        BY <1>0, <4>2, <4>3
    <3> QED
      BY <1>1, <2>1, <3>1
  <2>4. s.alo # s.ahi /\ s.blo # s.bhi
    BY <1>1, <1>4, <2>1
  <2>5. (s.ahi = Len(a) /\ s.bhi = Len(b)) \/ \E y \in S \cup {m} : y.a = s.ahi /\ y.b = s.bhi
    BY <1>0, <2>1
  <2>6. r.alo <= s.alo /\ r.blo <= s.blo
    BY <1>1, <1>2, <2>1
  <2> QED
    BY ONLY <2>2, <2>3, <2>4, <2>5, <2>6 DEF Open
<1> QED
  BY <1>4, <1>5, <1>6

\* A corner is closed, or a range that is left begins there.
Awaited(S, R, i, j) == Closed(S, i, j) \/ \E s \in R : s.alo = i /\ s.blo = j

LEMMA CornersStay ==
  ASSUME NEW S, NEW r, NEW R, NEW m, Open(S, r), Longest(r, m), m.size > 0, NEW i, NEW j, Corner(S \cup {m}, i, j),
         Corner(S, i, j) => Awaited(S, R \cup {r}, i, j)
  PROVE  Awaited(S \cup {m}, R \cup Parts(r, m), i, j)
<1>1. /\ r.alo \in Nat /\ r.blo \in Nat /\ r.ahi \in Nat /\ r.bhi \in Nat
      /\ m.a \in Nat /\ m.b \in Nat /\ m.size \in Nat
  BY DEF Open, InTexts, Longest, Block
<1>2. r.alo <= m.a /\ r.blo <= m.b /\ m.a + m.size <= r.ahi /\ m.b + m.size <= r.bhi
  BY DEF Longest, CommonRun
<1>3. CASE i = m.a + m.size /\ j = m.b + m.size
  <2>1. CASE i < r.ahi /\ j < r.bhi
    <3> DEFINE g == RightRange(r, m)
    <3>1. g.alo = i /\ g.blo = j /\ g.ahi = r.ahi /\ g.bhi = r.bhi
      BY <1>3 DEF RightRange
    <3>2. g \in {LeftRange(r, m), RightRange(r, m)}
      OBVIOUS
    <3> HIDE DEF g
    <3>3. g \in Parts(r, m)
      BY <2>1, <3>1, <3>2, Zenon DEF Parts
    <3> QED
      BY <3>1, <3>3 DEF Awaited
  <2>2. CASE ~(i < r.ahi /\ j < r.bhi)
    <3>1. i \in Nat /\ j \in Nat
      BY <1>1, <1>3
    <3>2. i <= r.ahi /\ j <= r.bhi
      BY <1>2, <1>3
    <3>3. i = r.ahi \/ j = r.bhi
      BY ONLY <1>1, <2>2, <3>1, <3>2
    <3>4. (r.ahi = Len(a) /\ r.bhi = Len(b)) \/ \E y \in S : y.a = r.ahi /\ y.b = r.bhi
      BY Zenon DEF Open
    <3>5. (i = Len(a) \/ j = Len(b)) \/ \E y \in S \cup {m} : i <= y.a /\ j <= y.b /\ (i = y.a \/ j = y.b)
      BY ONLY <3>2, <3>3, <3>4
    <3> QED
      BY ONLY <3>5 DEF Closed, Awaited
  <2> QED
    BY <2>1, <2>2
<1>4. CASE Corner(S, i, j)
  <2>1. CASE Closed(S, i, j)
    BY <2>1 DEF Closed, Awaited
  <2>2. ASSUME NEW s \in R, s.alo = i, s.blo = j PROVE \E x \in R \cup Parts(r, m) : x.alo = i /\ x.blo = j
    BY <2>2
  <2>3. CASE r.alo = i /\ r.blo = j
    <3>1. CASE i < m.a /\ j < m.b
      <4> DEFINE l == LeftRange(r, m)
      <4>1. l.alo = i /\ l.blo = j /\ l.ahi = m.a /\ l.bhi = m.b
        BY <2>3 DEF LeftRange
      <4>2. l \in {LeftRange(r, m), RightRange(r, m)}
        OBVIOUS
      <4> HIDE DEF l
      <4>3. l \in Parts(r, m)
        BY <3>1, <4>1, <4>2, Zenon DEF Parts
      <4> QED
        BY <4>1, <4>3 DEF Awaited
    <3>2. CASE ~(i < m.a /\ j < m.b)
      <4>1. i \in Nat /\ j \in Nat /\ i <= m.a /\ j <= m.b
        BY <1>1, <1>2, <2>3
      <4>2. i = m.a \/ j = m.b
        BY ONLY <1>1, <3>2, <4>1
      <4>3. \E y \in S \cup {m} : i <= y.a /\ j <= y.b /\ (i = y.a \/ j = y.b)
        BY ONLY <4>1, <4>2
      <4> QED
        BY ONLY <4>3 DEF Closed, Awaited
    <3> QED
      BY <3>1, <3>2
  <2> QED
    BY <1>4, <2>1, <2>2, <2>3 DEF Awaited
<1> QED
  BY <1>3, <1>4 DEF Corner, Awaited

LEMMA RestBefore ==
  ASSUME NEW S, NEW r, Open(S, r), NEW m, Longest(r, m), NEW s, RangeBefore(s, r), InTexts(s),
         NEW g, r.alo <= g.alo, r.blo <= g.blo, InTexts(g)
  PROVE  RangeBefore(s, g)
<1>1. /\ r.alo \in Nat /\ r.blo \in Nat /\ s.ahi \in Nat /\ s.bhi \in Nat /\ g.alo \in Nat /\ g.blo \in Nat
      /\ s.ahi <= r.alo /\ s.bhi <= r.blo /\ r.alo <= g.alo /\ r.blo <= g.blo
  BY DEF Open, InTexts, RangeBefore
<1> QED
  BY ONLY <1>1 DEF RangeBefore

\* A range in which a block is found: its two sides are left.
LEMMA BlockSearch ==
  ASSUME Texts, NEW S, NEW q, Searched(S, q), q # <<>>, NEW r, r = q[Len(q)],
         NEW rest, rest = SubSeq(q, 1, Len(q) - 1), NEW m, Longest(r, m), m.size > 0
  PROVE  Searched(S \cup {m}, rest \o LeftPart(r, m) \o RightPart(r, m))
<1> DEFINE L == LeftPart(r, m)
           R == RightPart(r, m)
           w == rest \o L
<1>1. Lined(rest) /\ Elems(q) = Elems(rest) \cup {r} /\ \A s \in Elems(rest) : RangeBefore(s, r)
  <2>1. Lined(q)
    BY DEF Searched
  <2>2. Popped(q, SubSeq(q, 1, Len(q) - 1), q[Len(q)])
    BY <2>1, LastRange, Zenon
  <2> QED
    BY <2>2 DEF Popped
<1>2. /\ Lined(L) /\ Lined(R) /\ Elems(L) \cup Elems(R) = Parts(r, m)
      /\ \A s \in Elems(L), t \in Elems(R) : RangeBefore(s, t)
  <2>1. Block(m)
    BY DEF Longest
  <2> QED
    BY <2>1, PartsFacts, Zenon
<1> HIDE DEF L, R
<1>3. Blocks(S) /\ \A s \in Elems(rest) \cup {r} : Open(S, s)
  BY <1>1 DEF Searched
<1>4. Blocks(S \cup {m})
  BY <1>3, BlockAdded
<1>5. \A s \in Parts(r, m) : Open(S \cup {m}, s) /\ r.alo <= s.alo /\ r.blo <= s.blo
  BY <1>3, PartsOpen
<1>6. \A s \in Elems(rest) : Open(S \cup {m}, s)
  BY <1>1, <1>3, OpenStays
<1>7. ASSUME NEW s \in Elems(rest), NEW g \in Parts(r, m) PROVE RangeBefore(s, g)
  <2>1. InTexts(s) /\ InTexts(g) /\ r.alo <= g.alo /\ r.blo <= g.blo /\ RangeBefore(s, r) /\ Open(S, r)
    BY <1>1, <1>3, <1>5 DEF Open
  <2> QED
    BY <2>1, RestBefore
<1>8. Lined(w) /\ Elems(w) = Elems(rest) \cup Elems(L)
  <2>1. \A s \in Elems(rest), g \in Elems(L) : RangeBefore(s, g)
    BY <1>2, <1>7
  <2> QED
    BY <1>1, <1>2, <2>1, JoinedRanges
<1> HIDE DEF w
<1>9. Lined(w \o R) /\ Elems(w \o R) = Elems(rest) \cup Parts(r, m)
  <2>1. \A s \in Elems(w), g \in Elems(R) : RangeBefore(s, g)
    BY <1>2, <1>7, <1>8
  <2>2. Lined(w \o R) /\ Elems(w \o R) = Elems(w) \cup Elems(R)
    BY <1>2, <1>8, <2>1, JoinedRanges
  <2> QED
    BY <1>2, <1>8, <2>2
<1>10. ASSUME NEW i, NEW j, Corner(S \cup {m}, i, j)
       PROVE  Closed(S \cup {m}, i, j) \/ \E s \in Elems(w \o R) : s.alo = i /\ s.blo = j
  <2>1. Corner(S, i, j) => Awaited(S, Elems(rest) \cup {r}, i, j)
    BY <1>1 DEF Searched, Awaited
  <2>2. Open(S, r)
    BY <1>3
  <2>3. Awaited(S \cup {m}, Elems(rest) \cup Parts(r, m), i, j)
    BY <1>10, <2>1, <2>2, CornersStay, Zenon
  <2> QED
    BY <1>9, <2>3 DEF Awaited
<1>11. \A s \in Elems(w \o R) : Open(S \cup {m}, s)
  BY <1>5, <1>6, <1>9
<1>12. Searched(S \cup {m}, w \o R)
  BY <1>4, <1>9, <1>10, <1>11 DEF Searched
<1> QED
  BY <1>12 DEF w, L, R

-----------------------------------------------------------------------------
(* Collapsed: adjacent blocks joined. *)

Follows(x, y) == x.a + x.size = y.a /\ x.b + x.size = y.b
HasNext(S, x) == \E y \in S : Follows(x, y)
NextOf(S, x) == CHOOSE y \in S : Follows(x, y)
GrowBody(S, G, x) == IF HasNext(S, x) THEN x.size + G[NextOf(S, x)] ELSE x.size
Grown(S, G) == G = [x \in S |-> GrowBody(S, G, x)]

\* The blocks with a bounded number of lines behind them.
Behind(S, n) == {x \in S : Len(a) - x.a <= n}
GrownUpto(S, n, G) == \A x \in Behind(S, n) : G[x] = GrowBody(S, G, x)

LEMMA NextOfIs ==
  ASSUME Texts, NEW S, Blocks(S), NEW x \in S, HasNext(S, x)
  PROVE  NextOf(S, x) \in S /\ Follows(x, NextOf(S, x)) /\ NextOf(S, x).a > x.a
<1>1. NextOf(S, x) \in S /\ Follows(x, NextOf(S, x))
  BY DEF HasNext, NextOf
<1> HIDE DEF NextOf
<1>2. x.a \in Nat /\ x.size \in Nat /\ x.size > 0
  BY DEF Blocks, Sound, Block
<1> QED
  BY <1>1, <1>2 DEF Follows

LEMMA SoundFacts ==
  ASSUME Texts, NEW x, Sound(x)
  PROVE  /\ x.a \in Nat /\ x.b \in Nat /\ x.size \in Nat /\ x.size > 0
         /\ x.a + x.size <= Len(a) /\ x.b + x.size <= Len(b)
BY DEF Sound, Block, CommonRun, WholeRange

LEMMA GrowStep ==
  ASSUME Texts, NEW S, Blocks(S), NEW n \in Nat, NEW G, GrownUpto(S, n, G)
  PROVE  \E H : GrownUpto(S, n + 1, H)
<1> DEFINE H == [x \in S |-> IF x \in Behind(S, n) THEN G[x] ELSE GrowBody(S, G, x)]
<1>0. Len(a) \in Nat
  BY TextsFacts
<1>1. ASSUME NEW x \in Behind(S, n + 1) PROVE H[x] = GrowBody(S, G, x) /\ x \in S
  BY <1>1 DEF GrownUpto, Behind
<1>2. ASSUME NEW x \in Behind(S, n + 1), HasNext(S, x) PROVE H[NextOf(S, x)] = G[NextOf(S, x)]
  <2>1. x \in S /\ Len(a) - x.a <= n + 1
    BY DEF Behind
  <2>2. NextOf(S, x) \in S /\ NextOf(S, x).a > x.a
    BY <1>2, <2>1, NextOfIs
  <2> DEFINE y == NextOf(S, x)
  <2> HIDE DEF y
  <2>3. y \in S /\ y.a > x.a
    BY <2>2 DEF y
  <2>4. x.a \in Nat /\ y.a \in Nat
    BY <2>1, <2>3, SoundFacts DEF Blocks
  <2>5. Len(a) - y.a <= n
    BY <1>0, <2>1, <2>3, <2>4
  <2>6. y \in Behind(S, n)
    BY <2>3, <2>5 DEF Behind
  <2>7. H[y] = G[y]
    BY <2>3, <2>6
  <2> QED
    BY <2>7 DEF y
<1> HIDE DEF H
<1>3. ASSUME NEW x \in Behind(S, n + 1) PROVE H[x] = GrowBody(S, H, x)
  BY <1>1, <1>2, Zenon DEF GrowBody
<1> QED
  BY <1>3 DEF GrownUpto

LEMMA GrowExists == ASSUME Texts, NEW S, Blocks(S) PROVE \E G : Grown(S, G)
<1> DEFINE N == {n \in Nat : \E G : GrownUpto(S, n, G)}
<1>0. Len(a) \in Nat
  BY TextsFacts
<1>1. 0 \in N
  <2>1. ASSUME NEW x \in Behind(S, 0) PROVE FALSE
    <3>1. x \in S /\ Len(a) - x.a <= 0
      BY DEF Behind
    <3>2. Sound(x)
      BY <3>1 DEF Blocks
    <3>3. x.a \in Nat /\ x.size \in Nat /\ x.size > 0 /\ x.a + x.size <= Len(a)
      BY <3>2, SoundFacts
    <3> QED
      BY <1>0, <3>1, <3>3
  <2>2. GrownUpto(S, 0, {})
    BY <2>1 DEF GrownUpto
  <2> QED
    BY <2>2
<1>2. \A n \in N : n + 1 \in N
  BY GrowStep
<1>3. Len(a) \in N
  <2>1. N \in SUBSET Nat
    OBVIOUS
  <2> HIDE DEF N
  <2> QED
    BY <1>0, <1>1, <1>2, <2>1, SetInduction
<1>4. PICK G : GrownUpto(S, Len(a), G)
  BY <1>3
<1>5. Behind(S, Len(a)) = S
  <2>1. ASSUME NEW x \in S PROVE Len(a) - x.a <= Len(a)
    <3>1. x.a \in Nat
      BY SoundFacts DEF Blocks
    <3> QED
      BY <1>0, <3>1
  <2> QED
    BY <2>1 DEF Behind
<1> DEFINE H == [x \in S |-> G[x]]
<1>6. ASSUME NEW x \in S PROVE H[x] = GrowBody(S, H, x)
  <2>1. H[x] = GrowBody(S, G, x)
    BY <1>4, <1>5 DEF GrownUpto
  <2>2. HasNext(S, x) => H[NextOf(S, x)] = G[NextOf(S, x)]
    BY NextOfIs
  <2> HIDE DEF H
  <2> QED
    BY <2>1, <2>2, Zenon DEF GrowBody
<1>7. H = [x \in S |-> H[x]]
  OBVIOUS
<1> HIDE DEF H
<1>8. Grown(S, H)
  BY <1>6, <1>7, Zenon DEF Grown
<1> QED
  BY <1>8

HasPrev(S, x) == \E w \in S : Follows(w, x)

\* What joining gives: a common run that ends where a block ends and none begins;
\* another block lies in front of it, behind it, or in it and is joined itself.
Place(S, z, x, g) ==
    \/ z = x
    \/ Precedes(z, x)
    \/ HasPrev(S, z) /\ z.a >= x.a /\ z.b >= x.b /\ z.a + z.size <= x.a + g /\ z.b + z.size <= x.b + g
    \/ x.a + g <= z.a /\ x.b + g <= z.b
GrowOk(S, x, g) ==
    /\ g \in Nat /\ x.size <= g
    /\ CommonRun(WholeRange, x.a, x.b, g)
    /\ Corner(S, x.a + g, x.b + g)
    /\ \A y \in S : ~(y.a = x.a + g /\ y.b = x.b + g)
    /\ \A z \in S : Place(S, z, x, g)

LEMMA GrowEnds ==
  ASSUME Texts, NEW S, Blocks(S), NEW x \in S, ~HasNext(S, x)
  PROVE  GrowOk(S, x, x.size)
<1>1. /\ x.a \in Nat /\ x.b \in Nat /\ x.size \in Nat
      /\ CommonRun(WholeRange, x.a, x.b, x.size)
  BY DEF Blocks, Sound, Block
<1>2. ASSUME NEW z \in S PROVE Place(S, z, x, x.size)
  BY DEF Blocks, Apart, Precedes, Place
<1>3. \A y \in S : ~(y.a = x.a + x.size /\ y.b = x.b + x.size)
  BY DEF HasNext, Follows
<1>4. Corner(S, x.a + x.size, x.b + x.size)
  BY DEF Corner
<1> QED
  BY <1>1, <1>2, <1>3, <1>4 DEF GrowOk

LEMMA GrowPlace ==
  ASSUME Texts, NEW S, Blocks(S), NEW x \in S, NEW y \in S, Follows(x, y), NEW g \in Nat, y.size <= g,
         NEW z \in S, Place(S, z, y, g)
  PROVE  Place(S, z, x, x.size + g)
<1>1. /\ x.a \in Nat /\ x.b \in Nat /\ x.size \in Nat /\ x.size > 0
      /\ y.a \in Nat /\ y.b \in Nat /\ y.size \in Nat /\ y.size > 0
      /\ z.a \in Nat /\ z.b \in Nat /\ z.size \in Nat /\ z.size > 0
  BY SoundFacts DEF Blocks
<1>2. y.a = x.a + x.size /\ y.b = x.b + x.size
  BY DEF Follows
<1>3. z = x \/ Precedes(z, x) \/ (x.a + x.size <= z.a /\ x.b + x.size <= z.b)
  BY DEF Blocks, Apart, Precedes
<1>4. CASE x.a + x.size <= z.a /\ x.b + x.size <= z.b
  <2>0. x.a <= z.a /\ x.b <= z.b
    BY ONLY <1>1, <1>4
  <2>1. CASE z = y
    <3>1. HasPrev(S, z)
      BY <2>1 DEF HasPrev
    <3>2. z.a + z.size <= x.a + (x.size + g) /\ z.b + z.size <= x.b + (x.size + g)
      BY <1>1, <1>2, <2>1
    <3> QED
      BY <2>0, <3>1, <3>2 DEF Place
  <2>2. CASE Precedes(z, y)
    <3>1. z.a + z.size <= y.a
      BY <2>2 DEF Precedes
    <3> QED
      BY ONLY <1>1, <1>2, <1>4, <3>1
  <2>3. CASE HasPrev(S, z) /\ z.a + z.size <= y.a + g /\ z.b + z.size <= y.b + g
    <3>1. z.a + z.size <= x.a + (x.size + g) /\ z.b + z.size <= x.b + (x.size + g)
      BY <1>1, <1>2, <2>3
    <3> QED
      BY <2>0, <2>3, <3>1 DEF Place
  <2>4. CASE y.a + g <= z.a /\ y.b + g <= z.b
    <3>1. x.a + (x.size + g) <= z.a /\ x.b + (x.size + g) <= z.b
      BY <1>1, <1>2, <2>4
    <3> QED
      BY <3>1 DEF Place
  <2> QED
    BY <2>1, <2>2, <2>3, <2>4 DEF Place
<1> QED
  BY <1>3, <1>4 DEF Place

LEMMA GrowJoins ==
  ASSUME Texts, NEW S, Blocks(S), NEW x \in S, NEW y \in S, Follows(x, y), NEW g, GrowOk(S, y, g)
  PROVE  GrowOk(S, x, x.size + g)
<1>1. /\ x.a \in Nat /\ x.b \in Nat /\ x.size \in Nat /\ x.size > 0
      /\ y.a \in Nat /\ y.b \in Nat /\ y.size \in Nat /\ y.size > 0
      /\ x.a + x.size <= Len(a) /\ x.b + x.size <= Len(b)
  BY SoundFacts DEF Blocks
<1>2. y.a = x.a + x.size /\ y.b = x.b + x.size /\ Len(a) \in Nat /\ Len(b) \in Nat
  BY TextsFacts DEF Follows
<1>3. /\ g \in Nat /\ y.size <= g
      /\ CommonRun(WholeRange, y.a, y.b, g)
      /\ Corner(S, y.a + g, y.b + g)
      /\ \A w \in S : ~(w.a = y.a + g /\ w.b = y.b + g)
      /\ \A z \in S : Place(S, z, y, g)
  BY DEF GrowOk
<1>0. /\ x.a \in Nat /\ x.b \in Nat /\ x.size \in Nat /\ g \in Nat
      /\ y.a = x.a + x.size /\ y.b = x.b + x.size
  BY <1>1, <1>2, <1>3
<1>4. x.a + (x.size + g) = y.a + g /\ x.b + (x.size + g) = y.b + g /\ x.size + g \in Nat /\ x.size <= x.size + g
  BY ONLY <1>0
<1>5. \A z \in S : Place(S, z, x, x.size + g)
  BY <1>3, GrowPlace
<1>6. CommonRun(WholeRange, x.a, x.b, x.size + g)
  <2>1. CommonRun(WholeRange, x.a, x.b, x.size)
    BY DEF Blocks, Sound
  <2>2. /\ x.a >= WholeRange.alo /\ x.b >= WholeRange.blo
        /\ y.a + g <= WholeRange.ahi /\ y.b + g <= WholeRange.bhi
    BY <1>3, <2>1 DEF CommonRun
  <2>3. ASSUME NEW n \in 0 .. (x.size + g) - 1 PROVE LineAt(a, x.a + n) = LineAt(b, x.b + n)
    <3>1. CASE n < x.size
      <4>1. n \in 0 .. x.size - 1
        BY <1>1, <1>3, <3>1
      <4> QED
        BY <2>1, <4>1 DEF CommonRun
    <3>2. CASE n >= x.size
      <4>1. n - x.size \in 0 .. g - 1 /\ y.a + (n - x.size) = x.a + n /\ y.b + (n - x.size) = x.b + n
        BY ONLY <1>0, <3>2, n \in 0 .. (x.size + g) - 1
      <4>2. LineAt(a, y.a + (n - x.size)) = LineAt(b, y.b + (n - x.size))
        BY <1>3, <4>1 DEF CommonRun
      <4> QED
        BY ONLY <4>1, <4>2
    <3> QED
      BY <1>1, <1>3, <3>1, <3>2
  <2>4. x.a + (x.size + g) <= WholeRange.ahi /\ x.b + (x.size + g) <= WholeRange.bhi
    BY ONLY <1>4, <2>2
  <2> QED
    BY ONLY <2>2, <2>3, <2>4 DEF CommonRun
<1>7. Corner(S, x.a + (x.size + g), x.b + (x.size + g))
  BY ONLY <1>3, <1>4
<1>8. \A w \in S : ~(w.a = x.a + (x.size + g) /\ w.b = x.b + (x.size + g))
  BY ONLY <1>3, <1>4
<1> QED
  BY <1>4, <1>5, <1>6, <1>7, <1>8 DEF GrowOk

LEMMA GrowFacts ==
  ASSUME Texts, NEW S, Blocks(S), NEW G, Grown(S, G)
  PROVE  \A x \in S : GrowOk(S, x, G[x])
<1> DEFINE N == {n \in Nat : \A x \in Behind(S, n) : GrowOk(S, x, G[x])}
<1>0. Len(a) \in Nat
  BY TextsFacts
<1>1. \A x \in S : G[x] = GrowBody(S, G, x)
  BY DEF Grown
<1>2. ASSUME NEW x \in S PROVE x.a \in Nat /\ Len(a) - x.a > 0
  <2>1. x.a \in Nat /\ x.size \in Nat /\ x.size > 0 /\ x.a + x.size <= Len(a)
    BY SoundFacts DEF Blocks
  <2> QED
    BY <1>0, <2>1
<1>3. 0 \in N
  BY <1>0, <1>2 DEF Behind
<1>4. ASSUME NEW n \in N PROVE n + 1 \in N
  <2>0. n \in Nat /\ n + 1 \in Nat
    OBVIOUS
  <2>1. ASSUME NEW x \in Behind(S, n + 1) PROVE GrowOk(S, x, G[x])
    <3>1. x \in S /\ Len(a) - x.a <= n + 1
      BY DEF Behind
    <3>2. CASE ~HasNext(S, x)
      <4>1. G[x] = x.size
        BY <1>1, <3>1, <3>2 DEF GrowBody
      <4> QED
        BY <3>1, <3>2, <4>1, GrowEnds
    <3>3. CASE HasNext(S, x)
      <4>1. G[x] = x.size + G[NextOf(S, x)]
        BY <1>1, <3>1, <3>3 DEF GrowBody
      <4>2. NextOf(S, x) \in S /\ Follows(x, NextOf(S, x)) /\ NextOf(S, x).a > x.a
        BY <3>1, <3>3, NextOfIs
      <4> DEFINE y == NextOf(S, x)
      <4> HIDE DEF y
      <4>3. y \in S /\ Follows(x, y) /\ y.a > x.a /\ G[x] = x.size + G[y]
        BY <4>1, <4>2 DEF y
      <4>4. Len(a) - y.a <= n
        BY <1>0, <1>2, <2>0, <3>1, <4>3
      <4>5. GrowOk(S, y, G[y])
        BY <4>3, <4>4 DEF Behind
      <4>6. GrowOk(S, x, x.size + G[y])
        BY <3>1, <4>3, <4>5, GrowJoins
      <4> QED
        BY <4>3, <4>6
    <3> QED
      BY <3>2, <3>3
  <2> QED
    BY <2>0, <2>1
<1>5. Len(a) \in N
  <2>1. N \in SUBSET Nat
    OBVIOUS
  <2> HIDE DEF N
  <2> QED
    BY <1>0, <1>3, <1>4, <2>1, SetInduction
<1>6. ASSUME NEW x \in S PROVE x \in Behind(S, Len(a))
  BY <1>0, <1>2 DEF Behind
<1> QED
  BY <1>5, <1>6

Heads(S) == {x \in S : ~HasPrev(S, x)}
Merged(S, G) == {[x EXCEPT !.size = G[x]] : x \in Heads(S)}
Covers(x, g, y) == /\ x.a <= y.a /\ y.a + y.size <= x.a + g
                   /\ x.b <= y.b /\ y.b + y.size <= x.b + g

LEMMA CoverStep ==
  ASSUME Texts, NEW S, Blocks(S), NEW x \in Heads(S), NEW g, GrowOk(S, x, g),
         NEW w \in S, Covers(x, g, w), NEW y \in S, Follows(w, y)
  PROVE  Covers(x, g, y)
<1>1. /\ x.a \in Nat /\ x.b \in Nat /\ x.size \in Nat /\ g \in Nat
      /\ w.a \in Nat /\ w.b \in Nat /\ w.size \in Nat /\ w.size > 0
      /\ y.a \in Nat /\ y.b \in Nat /\ y.size \in Nat /\ y.size > 0
  BY SoundFacts DEF Blocks, Heads, GrowOk
<1>2. y.a = w.a + w.size /\ y.b = w.b + w.size
  BY DEF Follows
<1>3. /\ x.a <= w.a /\ w.a + w.size <= x.a + g
      /\ x.b <= w.b /\ w.b + w.size <= x.b + g
  BY DEF Covers
<1>4. x.a <= y.a /\ x.b <= y.b
  BY ONLY <1>1, <1>2, <1>3
<1>5. y # x
  BY DEF Heads, HasPrev
<1>6. ~Precedes(y, x)
  BY <1>1, <1>4 DEF Precedes
<1>7. ~(x.a + g <= y.a /\ x.b + g <= y.b)
  <2>1. ~(y.a = x.a + g /\ y.b = x.b + g)
    BY DEF GrowOk
  <2>2. y.a <= x.a + g /\ y.b <= x.b + g
    BY ONLY <1>2, <1>3
  <2> QED
    BY ONLY <1>1, <2>1, <2>2
<1>8. Place(S, y, x, g)
  BY DEF GrowOk
<1> QED
  BY ONLY <1>4, <1>5, <1>6, <1>7, <1>8 DEF Place, Covers

LEMMA AllCovered ==
  ASSUME Texts, NEW S, Blocks(S), NEW G, \A x \in S : GrowOk(S, x, G[x])
  PROVE  \A y \in S : \E x \in Heads(S) : Covers(x, G[x], y)
<1> DEFINE N == {n \in Nat : \A y \in S : y.a < n => \E x \in Heads(S) : Covers(x, G[x], y)}
<1>0. \A y \in S : y.a \in Nat /\ y.b \in Nat /\ y.size \in Nat /\ y.size > 0
  BY SoundFacts DEF Blocks
<1>1. 0 \in N
  BY <1>0
<1>2. ASSUME NEW n \in N PROVE n + 1 \in N
  <2>0. n \in Nat
    OBVIOUS
  <2>1. ASSUME NEW y \in S, y.a < n + 1 PROVE \E x \in Heads(S) : Covers(x, G[x], y)
    <3>1. CASE ~HasPrev(S, y)
      <4>1. y \in Heads(S)
        BY <3>1 DEF Heads
      <4>2. G[y] \in Nat /\ y.size <= G[y]
        BY DEF GrowOk
      <4>3. Covers(y, G[y], y)
        BY <1>0, <4>2 DEF Covers
      <4> QED
        BY <4>1, <4>3
    <3>2. CASE HasPrev(S, y)
      <4>1. PICK w \in S : Follows(w, y)
        BY <3>2 DEF HasPrev
      <4>2. w.a < n
        BY <1>0, <2>0, <2>1, <4>1 DEF Follows
      <4>3. PICK x \in Heads(S) : Covers(x, G[x], w)
        BY <4>2
      <4>4. GrowOk(S, x, G[x])
        BY DEF Heads
      <4>5. Covers(x, G[x], y)
        BY <4>1, <4>3, <4>4, CoverStep
      <4> QED
        BY <4>5
    <3> QED
      BY <3>1, <3>2
  <2> QED
    BY <2>0, <2>1
<1>3. N \in SUBSET Nat
  OBVIOUS
<1>4. ASSUME NEW y \in S PROVE \E x \in Heads(S) : Covers(x, G[x], y)
  <2>1. y.a + 1 \in Nat /\ y.a < y.a + 1
    BY <1>0
  <2>2. y.a + 1 \in N
    <3> HIDE DEF N
    <3> QED
      BY <1>1, <1>2, <1>3, <2>1, SetInduction
  <2> QED
    BY <2>1, <2>2
<1> QED
  BY <1>4

\* The joined blocks: apart, none touching another in both texts, each ending at a corner, and
\* every block found lies in one of them.
Joint(S, M) ==
    /\ IsFiniteSet(M)
    /\ \A x \in M : Sound(x) /\ Corner(S, x.a + x.size, x.b + x.size)
    /\ Apart(M)
    /\ \A x, y \in M : ~Follows(x, y)
    /\ \A y \in S : \E x \in M : Covers(x, x.size, y)

LEMMA SizeSet ==
  ASSUME NEW x, Block(x), NEW g \in Nat
  PROVE  LET X == [x EXCEPT !.size = g] IN Block(X) /\ X.a = x.a /\ X.b = x.b /\ X.size = g
BY DEF Block

LEMMA HeadsApart ==
  ASSUME Texts, NEW S, Blocks(S), NEW x \in Heads(S), NEW y \in Heads(S), x # y, NEW g, GrowOk(S, x, g),
         NEW h, GrowOk(S, y, h)
  PROVE  (x.a + g <= y.a /\ x.b + g <= y.b) \/ (y.a + h <= x.a /\ y.b + h <= x.b)
<1>1. x \in S /\ y \in S /\ ~HasPrev(S, x) /\ ~HasPrev(S, y)
  BY DEF Heads
<1>2. Place(S, y, x, g) /\ Place(S, x, y, h)
  BY <1>1 DEF GrowOk
<1>3. (x.a + g <= y.a /\ x.b + g <= y.b) \/ Precedes(y, x)
  BY <1>1, <1>2 DEF Place
<1>4. (y.a + h <= x.a /\ y.b + h <= x.b) \/ Precedes(x, y)
  BY <1>1, <1>2 DEF Place
<1>5. ~(Precedes(x, y) /\ Precedes(y, x))
  <2>1. /\ x.a \in Nat /\ x.size \in Nat /\ x.size > 0
        /\ y.a \in Nat /\ y.size \in Nat /\ y.size > 0
    BY <1>1, SoundFacts DEF Blocks
  <2> QED
    BY <2>1 DEF Precedes
<1> QED
  BY <1>3, <1>4, <1>5

LEMMA MergedFacts ==
  ASSUME Texts, NEW S, Blocks(S), NEW G, Grown(S, G)
  PROVE  Joint(S, Merged(S, G))
<1> DEFINE M == Merged(S, G)
           X(x) == [x EXCEPT !.size = G[x]]
<1>1. \A x \in S : GrowOk(S, x, G[x])
  BY GrowFacts
<1>2. ASSUME NEW x \in S
      PROVE  Block(X(x)) /\ X(x).a = x.a /\ X(x).b = x.b /\ X(x).size = G[x] /\ Block(x) /\ G[x] \in Nat
  <2>1. Block(x) /\ G[x] \in Nat
    BY <1>1 DEF Blocks, Sound, GrowOk
  <2> QED
    BY <2>1, SizeSet
<1>3. M = {X(x) : x \in Heads(S)} /\ Heads(S) \subseteq S
  BY DEF Merged, Heads
<1> HIDE DEF M, X
<1>4. IsFiniteSet(M)
  <2>1. IsFiniteSet(Heads(S))
    BY <1>3, FS_Subset DEF Blocks
  <2> DEFINE f == [x \in Heads(S) |-> X(x)]
  <2>2. f \in Surjection(Heads(S), M)
    BY <1>3 DEF Surjection
  <2> QED
    BY <2>1, <2>2, FS_Surjection
<1>5. ASSUME NEW x \in Heads(S) PROVE Sound(X(x)) /\ Corner(S, X(x).a + X(x).size, X(x).b + X(x).size)
  <2>1. x \in S /\ GrowOk(S, x, G[x])
    BY <1>1, <1>3
  <2>2. Block(X(x)) /\ X(x).a = x.a /\ X(x).b = x.b /\ X(x).size = G[x] /\ G[x] \in Nat
    BY <1>2, <2>1
  <2>3. x.size \in Nat /\ x.size > 0
    BY <2>1, SoundFacts DEF Blocks
  <2>4. x.size <= G[x] /\ CommonRun(WholeRange, x.a, x.b, G[x]) /\ Corner(S, x.a + G[x], x.b + G[x])
    BY <2>1 DEF GrowOk
  <2>5. G[x] > 0
    BY <2>2, <2>3, <2>4
  <2> QED
    BY <2>2, <2>4, <2>5 DEF Sound
<1>6. Apart(M)
  <2>1. ASSUME NEW x \in Heads(S), NEW y \in Heads(S), x # y
        PROVE  Precedes(X(x), X(y)) \/ Precedes(X(y), X(x))
    <3>1. (x.a + G[x] <= y.a /\ x.b + G[x] <= y.b) \/ (y.a + G[y] <= x.a /\ y.b + G[y] <= x.b)
      BY <1>1, <1>3, <2>1, HeadsApart
    <3>2. X(x).a = x.a /\ X(x).b = x.b /\ X(x).size = G[x] /\ X(y).a = y.a /\ X(y).b = y.b /\ X(y).size = G[y]
      BY <1>2, <1>3
    <3> QED
      BY <3>1, <3>2 DEF Precedes
  <2> QED
    BY <1>3, <2>1 DEF Apart
<1>7. ASSUME NEW x \in Heads(S), NEW y \in Heads(S) PROVE ~Follows(X(x), X(y))
  <2>1. X(x).a = x.a /\ X(x).b = x.b /\ X(x).size = G[x] /\ X(y).a = y.a /\ X(y).b = y.b
    BY <1>2, <1>3
  <2>2. ~(y.a = x.a + G[x] /\ y.b = x.b + G[x])
    BY <1>1, <1>3 DEF GrowOk
  <2> QED
    BY <2>1, <2>2 DEF Follows
<1>8. ASSUME NEW y \in S PROVE \E x \in M : Covers(x, x.size, y)
  <2>1. PICK x \in Heads(S) : Covers(x, G[x], y)
    BY <1>1, AllCovered
  <2>2. X(x).a = x.a /\ X(x).b = x.b /\ X(x).size = G[x]
    BY <1>2, <1>3
  <2>3. Covers(X(x), X(x).size, y)
    BY <2>1, <2>2 DEF Covers
  <2> QED
    BY <1>3, <2>3
<1>9. \A x \in M : Sound(x) /\ Corner(S, x.a + x.size, x.b + x.size)
  BY <1>3, <1>5
<1>10. \A x, y \in M : ~Follows(x, y)
  BY <1>3, <1>7
<1> QED
  BY <1>4, <1>6, <1>8, <1>9, <1>10 DEF Joint, M

-----------------------------------------------------------------------------
(* Collapsed: the joined blocks in the order of the texts. *)

First(T) == CHOOSE x \in T : \A y \in T : x.a <= y.a
SortBody(F, T) == IF T = {} THEN <<>> ELSE <<First(T)>> \o F[T \ {First(T)}]
Sorting(M, F) == F = [T \in SUBSET M |-> SortBody(F, T)]

\* The sets of a bounded number of blocks.
Small(M, n) == {T \in SUBSET M : Cardinality(T) <= n}
SortUpto(M, n, F) == \A T \in Small(M, n) : F[T] = SortBody(F, T)

\* A finite set of blocks that lie apart.
Line(M) == IsFiniteSet(M) /\ (\A x \in M : Sound(x)) /\ Apart(M)

LEMMA FirstIs ==
  ASSUME Texts, NEW M, Line(M), NEW T \in SUBSET M, T # {}
  PROVE  First(T) \in T /\ \A y \in T : y = First(T) \/ Precedes(First(T), y)
<1> DEFINE A == {y.a : y \in T}
<1>0. \A y \in T : y.a \in Nat /\ y.size \in Nat /\ y.size > 0
  BY SoundFacts DEF Line
<1>1. A \in SUBSET Nat /\ A # {}
  BY <1>0
<1>2. PICK n \in A : \A k \in A : n <= k
  <2> HIDE DEF A
  <2> QED
    BY <1>1, LeastNatural
<1>3. \E x \in T : \A y \in T : x.a <= y.a
  BY <1>2
<1>4. First(T) \in T /\ \A y \in T : First(T).a <= y.a
  BY <1>3 DEF First
<1> HIDE DEF First
<1>5. ASSUME NEW y \in T, y # First(T) PROVE Precedes(First(T), y)
  <2>1. Precedes(First(T), y) \/ Precedes(y, First(T))
    BY <1>4, <1>5 DEF Line, Apart
  <2> DEFINE x == First(T)
  <2>2. x \in T /\ x.a <= y.a
    BY <1>4
  <2> HIDE DEF x
  <2>3. ~Precedes(y, x)
    BY <1>0, <2>2 DEF Precedes
  <2> QED
    BY <2>1, <2>3 DEF x
<1> QED
  BY <1>4, <1>5

LEMMA WithoutFirst ==
  ASSUME Texts, NEW M, Line(M), NEW n \in Nat, NEW T \in Small(M, n + 1), T # {}
  PROVE  T \ {First(T)} \in Small(M, n) /\ Cardinality(T \ {First(T)}) = Cardinality(T) - 1
<1>1. T \in SUBSET M /\ Cardinality(T) <= n + 1
  BY DEF Small
<1>2. IsFiniteSet(T) /\ First(T) \in T
  BY <1>1, FirstIs, FS_Subset DEF Line
<1>3. Cardinality(T \ {First(T)}) = Cardinality(T) - 1 /\ Cardinality(T) \in Nat
  BY <1>2, FS_RemoveElement, FS_CardinalityType
<1> DEFINE U == T \ {First(T)}
<1>4. U \in SUBSET M
  BY <1>1
<1>5. Cardinality(U) <= n
  <2> HIDE DEF U
  <2>1. Cardinality(U) = Cardinality(T) - 1
    BY <1>3 DEF U
  <2> QED
    BY <1>1, <1>3, <2>1
<1> HIDE DEF U
<1>6. U \in Small(M, n)
  BY <1>4, <1>5 DEF Small
<1> QED
  BY <1>3, <1>6 DEF U

LEMMA SortStep ==
  ASSUME Texts, NEW M, Line(M), NEW n \in Nat, NEW F, SortUpto(M, n, F)
  PROVE  \E H : SortUpto(M, n + 1, H)
<1> DEFINE H == [T \in SUBSET M |-> IF T \in Small(M, n) THEN F[T] ELSE SortBody(F, T)]
<1>1. ASSUME NEW T \in Small(M, n + 1) PROVE H[T] = SortBody(F, T)
  BY DEF SortUpto, Small
<1>2. ASSUME NEW T \in Small(M, n + 1), T # {} PROVE H[T \ {First(T)}] = F[T \ {First(T)}]
  <2>1. T \ {First(T)} \in Small(M, n)
    BY <1>2, WithoutFirst
  <2> DEFINE U == T \ {First(T)}
  <2> HIDE DEF U
  <2>2. U \in Small(M, n) /\ U \in SUBSET M
    BY <2>1 DEF U, Small
  <2>3. H[U] = F[U]
    BY <2>2
  <2> QED
    BY <2>3 DEF U
<1> HIDE DEF H
<1>3. ASSUME NEW T \in Small(M, n + 1) PROVE H[T] = SortBody(H, T)
  BY <1>1, <1>2, Zenon DEF SortBody
<1> QED
  BY <1>3 DEF SortUpto

LEMMA SortExists == ASSUME Texts, NEW M, Line(M) PROVE \E F : Sorting(M, F)
<1> DEFINE N == {n \in Nat : \E F : SortUpto(M, n, F)}
<1>1. 0 \in N
  <2> DEFINE F == [T \in SUBSET M |-> <<>>]
  <2>1. ASSUME NEW T \in Small(M, 0) PROVE T = {} /\ T \in SUBSET M
    <3>1. T \in SUBSET M /\ Cardinality(T) <= 0
      BY DEF Small
    <3>2. IsFiniteSet(T)
      BY <3>1, FS_Subset DEF Line
    <3>3. Cardinality(T) \in Nat /\ (Cardinality(T) = 0 <=> T = {})
      BY <3>2, FS_CardinalityType, FS_EmptySet
    <3>4. Cardinality(T) = 0
      BY <3>1, <3>3
    <3> QED
      BY <3>1, <3>3, <3>4
  <2>2. SortUpto(M, 0, F)
    BY <2>1 DEF SortUpto, SortBody
  <2> QED
    BY <2>2
<1>2. \A n \in N : n + 1 \in N
  BY SortStep
<1>3. IsFiniteSet(M) /\ Cardinality(M) \in Nat
  BY FS_CardinalityType DEF Line
<1>4. Cardinality(M) \in N
  <2>1. N \in SUBSET Nat
    OBVIOUS
  <2> HIDE DEF N
  <2> QED
    BY <1>1, <1>2, <1>3, <2>1, SetInduction
<1>5. PICK F : SortUpto(M, Cardinality(M), F)
  BY <1>4
<1>6. \A T \in SUBSET M : T \in Small(M, Cardinality(M))
  BY <1>3, FS_Subset DEF Small
<1> DEFINE H == [T \in SUBSET M |-> F[T]]
<1>7. ASSUME NEW T \in SUBSET M PROVE H[T] = SortBody(H, T)
  <2>1. H[T] = SortBody(F, T)
    BY <1>5, <1>6 DEF SortUpto
  <2>2. H[T \ {First(T)}] = F[T \ {First(T)}]
    OBVIOUS
  <2> HIDE DEF H
  <2> QED
    BY <2>1, <2>2, Zenon DEF SortBody
<1>8. H = [T \in SUBSET M |-> H[T]]
  OBVIOUS
<1> HIDE DEF H
<1>9. Sorting(M, H)
  BY <1>7, <1>8, Zenon DEF Sorting
<1> QED
  BY <1>9

\* The blocks of a set in the order of the texts.
Ordered(w, T) ==
    /\ w \in Seq(T)
    /\ \A k, l \in 1..Len(w) : k < l => Precedes(w[k], w[l])
    /\ \A x \in T : \E k \in 1..Len(w) : w[k] = x

LEMMA OrderStep ==
  ASSUME NEW T, NEW x \in T, \A y \in T : y = x \/ Precedes(x, y), NEW v, Ordered(v, T \ {x})
  PROVE  Ordered(<<x>> \o v, T)
<1> DEFINE w == <<x>> \o v
<1>1. v \in Seq(T) /\ <<x>> \in Seq(T) /\ Len(<<x>>) = 1 /\ <<x>>[1] = x
  BY DEF Ordered
<1>2. /\ w \in Seq(T) /\ Len(w) = 1 + Len(v) /\ Len(v) \in Nat
      /\ \A i \in 1..Len(w) : w[i] = IF i <= 1 THEN <<x>>[i] ELSE v[i - 1]
  BY <1>1, ConcatProperties
<1> HIDE DEF w
<1>3. w[1] = x /\ 1 \in 1..Len(w)
  BY <1>1, <1>2
<1>4. ASSUME NEW k \in 1..Len(w), k # 1 PROVE k - 1 \in 1..Len(v) /\ w[k] = v[k - 1]
  BY <1>2, <1>4
<1>5. \A k \in 1..Len(v) : v[k] \in T \ {x}
  BY DEF Ordered
<1>6. ASSUME NEW k \in 1..Len(w), NEW l \in 1..Len(w), k < l PROVE Precedes(w[k], w[l])
  <2>1. l # 1 /\ l - 1 \in 1..Len(v) /\ w[l] = v[l - 1]
    BY <1>4, <1>6
  <2>2. CASE k = 1
    <3>1. w[l] \in T /\ w[l] # x
      BY <1>5, <2>1
    <3> QED
      BY <1>3, <2>2, <3>1
  <2>3. CASE k # 1
    <3>1. k - 1 \in 1..Len(v) /\ w[k] = v[k - 1]
      BY <1>4, <2>3
    <3>2. k - 1 < l - 1
      BY <1>6
    <3>3. Precedes(v[k - 1], v[l - 1])
      BY <2>1, <3>1, <3>2 DEF Ordered
    <3> QED
      BY ONLY <2>1, <3>1, <3>3
  <2> QED
    BY <2>2, <2>3
<1>7. ASSUME NEW y \in T PROVE \E k \in 1..Len(w) : w[k] = y
  <2>1. CASE y = x
    BY <1>3, <2>1
  <2>2. CASE y # x
    <3>1. PICK k \in 1..Len(v) : v[k] = y
      BY <2>2 DEF Ordered
    <3>2. k + 1 \in 1..Len(w) /\ k + 1 # 1 /\ k + 1 - 1 = k
      BY <1>2
    <3>3. w[k + 1] = v[k]
      BY <1>4, <3>2
    <3> QED
      BY <3>1, <3>2, <3>3
  <2> QED
    BY <2>1, <2>2
<1>8. Ordered(w, T)
  BY <1>2, <1>6, <1>7 DEF Ordered
<1> QED
  BY <1>8 DEF w

LEMMA SortFacts ==
  ASSUME Texts, NEW M, Line(M), NEW F, Sorting(M, F)
  PROVE  Ordered(F[M], M)
<1> DEFINE N == {n \in Nat : \A T \in Small(M, n) : Ordered(F[T], T)}
<1>1. \A T \in SUBSET M : F[T] = SortBody(F, T)
  BY DEF Sorting
<1>2. Ordered(F[{}], {})
  <2>1. F[{}] = <<>>
    BY <1>1 DEF SortBody
  <2>2. <<>> \in Seq({}) /\ Len(<<>>) = 0
    OBVIOUS
  <2> QED
    BY <2>1, <2>2 DEF Ordered
<1>3. 0 \in N
  <2>1. ASSUME NEW T \in Small(M, 0) PROVE T = {}
    <3>1. T \in SUBSET M /\ Cardinality(T) <= 0
      BY DEF Small
    <3>2. IsFiniteSet(T)
      BY <3>1, FS_Subset DEF Line
    <3>3. Cardinality(T) \in Nat /\ (Cardinality(T) = 0 <=> T = {})
      BY <3>2, FS_CardinalityType, FS_EmptySet
    <3> QED
      BY <3>1, <3>3
  <2> QED
    BY <1>2, <2>1
<1>4. ASSUME NEW n \in N PROVE n + 1 \in N
  <2>0. n \in Nat /\ n + 1 \in Nat
    OBVIOUS
  <2>1. ASSUME NEW T \in Small(M, n + 1) PROVE Ordered(F[T], T)
    <3>1. CASE T = {}
      BY <1>2, <3>1
    <3>2. CASE T # {}
      <4>1. T \in SUBSET M
        BY DEF Small
      <4>2. F[T] = <<First(T)>> \o F[T \ {First(T)}]
        BY <1>1, <3>2, <4>1 DEF SortBody
      <4>3. First(T) \in T /\ \A y \in T : y = First(T) \/ Precedes(First(T), y)
        BY <3>2, <4>1, FirstIs
      <4>4. T \ {First(T)} \in Small(M, n)
        BY <2>0, <3>2, WithoutFirst
      <4>5. Ordered(F[T \ {First(T)}], T \ {First(T)})
        BY <4>4
      <4>6. Ordered(<<First(T)>> \o F[T \ {First(T)}], T)
        BY <4>3, <4>5, OrderStep
      <4> QED
        BY <4>2, <4>6
    <3> QED
      BY <3>1, <3>2
  <2> QED
    BY <2>0, <2>1
<1>5. IsFiniteSet(M) /\ Cardinality(M) \in Nat
  BY FS_CardinalityType DEF Line
<1>6. Cardinality(M) \in N
  <2>1. N \in SUBSET Nat
    OBVIOUS
  <2> HIDE DEF N
  <2> QED
    BY <1>3, <1>4, <1>5, <2>1, SetInduction
<1>7. M \in Small(M, Cardinality(M))
  BY <1>5 DEF Small
<1> QED
  BY <1>6, <1>7

Sentinel == [a |-> Len(a), b |-> Len(b), size |-> 0]

LEMMA CollapsedIs ==
  ASSUME Texts, NEW S, Blocks(S)
  PROVE  \E M, w : Joint(S, M) /\ Ordered(w, M) /\ Collapsed(S) = Append(w, Sentinel)
<1> DEFINE G == CHOOSE G : Grown(S, G)
           M == Merged(S, G)
           F == CHOOSE F : Sorting(M, F)
<1>1. Grown(S, G)
  BY GrowExists
<1> HIDE DEF G
<1>2. Joint(S, M)
  BY <1>1, MergedFacts
<1> HIDE DEF M
<1>3. Line(M)
  BY <1>2 DEF Joint, Line
<1>4. Sorting(M, F)
  BY <1>3, SortExists
<1> HIDE DEF F
<1>5. Ordered(F[M], M)
  BY <1>3, <1>4, SortFacts
<1>6. Collapsed(S) = Append(F[M], Sentinel)
  BY Zenon DEF Collapsed, G, M, F, Grown, GrowBody, HasNext, NextOf, Follows, Merged, Heads, HasPrev, Sorting,
               SortBody, First, Sentinel
<1> QED
  BY <1>2, <1>5, <1>6

\* What GetMatchingBlocks gives: what lies between two blocks does not begin with a common line.
EndA(ms, n) == IF n = 0 THEN 0 ELSE ms[n].a + ms[n].size
EndB(ms, n) == IF n = 0 THEN 0 ELSE ms[n].b + ms[n].size
GapDiffers(ms, k) ==
    EndA(ms, k - 1) < ms[k].a /\ EndB(ms, k - 1) < ms[k].b => LineAt(a, EndA(ms, k - 1)) # LineAt(b, EndB(ms, k - 1))
MatchingOk(ms) ==
    /\ \E X : ms \in Seq(X)
    /\ Len(ms) > 0 /\ ms[Len(ms)] = Sentinel
    /\ \A k \in 1 .. Len(ms) - 1 : Sound(ms[k])
    /\ \A k, l \in 1..Len(ms) : k < l => Precedes(ms[k], ms[l])
    /\ \A k \in 1 .. Len(ms) - 1 : k + 1 < Len(ms) => ~Follows(ms[k], ms[k + 1])
    /\ \A k \in 1..Len(ms) : GapDiffers(ms, k)

LEMMA SumGrows == ASSUME NEW x \in Nat, NEW y \in Nat, NEW z \in Nat, NEW k \in Nat, x + y <= z PROVE x + y <= z + k
OBVIOUS

LEMMA SumIsNatural == ASSUME NEW x \in Nat, NEW y \in Nat PROVE x + y \in Nat
OBVIOUS

LEMMA SumBounds == ASSUME NEW x \in Nat, NEW y \in Nat, NEW z \in Nat, x + y <= z PROVE x <= z
OBVIOUS

\* The corner in front of a block: nothing found lies beside it.
LEMMA GapBegins ==
  ASSUME Texts, NEW S, NEW M, Joint(S, M), NEW i \in Nat, NEW j \in Nat, Closed(S, i, j),
         NEW p, NEW q, i < p, j < q, p \in Nat, q \in Nat, p <= Len(a), q <= Len(b),
         \A x \in M : (x.a + x.size <= i /\ x.b + x.size <= j) \/ (p <= x.a /\ q <= x.b),
         \A y \in S : Sound(y)
  PROVE  LineAt(a, i) # LineAt(b, j)
<1>1. i # Len(a) /\ j # Len(b)
  <2>1. Len(a) \in Nat /\ Len(b) \in Nat
    BY TextsFacts
  <2>2. i < Len(a) /\ j < Len(b)
    BY <2>1
  <2> QED
    BY <2>1, <2>2
<1>2. ASSUME NEW y \in S, i <= y.a, j <= y.b, i = y.a \/ j = y.b PROVE FALSE
  <2>1. PICK x \in M : Covers(x, x.size, y)
    BY DEF Joint
  <2>2. /\ x.a \in Nat /\ x.b \in Nat /\ x.size \in Nat
        /\ y.a \in Nat /\ y.b \in Nat /\ y.size \in Nat /\ y.size > 0
    BY SoundFacts DEF Joint
  <2>3. /\ x.a <= y.a /\ y.a + y.size <= x.a + x.size
        /\ x.b <= y.b /\ y.b + y.size <= x.b + x.size
    BY <2>1 DEF Covers
  <2>4. CASE x.a + x.size <= i
    BY ONLY <1>2, <2>2, <2>3, <2>4, i \in Nat
  <2>5. CASE p <= x.a /\ q <= x.b
    <3>1. p <= y.a /\ q <= y.b
      BY ONLY <2>2, <2>3, <2>5, p \in Nat, q \in Nat
    <3> QED
      BY <1>2, <2>2, <3>1
  <2> QED
    BY <2>4, <2>5
<1> QED
  BY <1>1, <1>2 DEF Closed

LEMMA CollapsedFacts ==
  ASSUME Texts, NEW S, Blocks(S), \A i, j : Corner(S, i, j) => Closed(S, i, j)
  PROVE  MatchingOk(Collapsed(S))
<1>1. PICK M, w : Joint(S, M) /\ Ordered(w, M) /\ Collapsed(S) = Append(w, Sentinel)
  BY CollapsedIs
<1> DEFINE ms == Append(w, Sentinel)
           X == M \cup {Sentinel}
<1>0. Len(a) \in Nat /\ Len(b) \in Nat /\ Sentinel.a = Len(a) /\ Sentinel.b = Len(b)
  BY TextsFacts DEF Sentinel
<1>2. w \in Seq(X) /\ Sentinel \in X
  BY <1>1 DEF Ordered
<1>3. /\ ms \in Seq(X) /\ Len(ms) = Len(w) + 1 /\ Len(w) \in Nat
      /\ \A k \in 1..Len(w) : ms[k] = w[k]
      /\ ms[Len(w) + 1] = Sentinel
  <2> HIDE DEF X
  <2> QED
    BY <1>2, AppendProperties
<1> HIDE DEF ms, X
<1>4. ASSUME NEW k \in 1 .. Len(ms) - 1 PROVE k \in 1..Len(w) /\ ms[k] = w[k] /\ ms[k] \in M /\ Sound(ms[k])
  <2>1. k \in 1..Len(w)
    BY <1>3
  <2>2. w[k] \in M
    BY <1>1, <2>1 DEF Ordered
  <2> QED
    BY <1>1, <1>3, <2>1, <2>2 DEF Joint
<1>5. ASSUME NEW k \in 1..Len(ms) PROVE k \in 1 .. Len(ms) - 1 \/ (k = Len(ms) /\ ms[k] = Sentinel)
  BY <1>3
<1>6. ASSUME NEW k \in 1..Len(ms), NEW l \in 1..Len(ms), k < l PROVE Precedes(ms[k], ms[l])
  <2>1. k \in 1 .. Len(ms) - 1
    BY <1>3, <1>6
  <2>2. k \in 1..Len(w) /\ ms[k] = w[k] /\ Sound(ms[k])
    BY <1>4, <2>1
  <2>3. CASE l \in 1 .. Len(ms) - 1
    <3>1. l \in 1..Len(w) /\ ms[l] = w[l]
      BY <1>4, <2>3
    <3>2. Precedes(w[k], w[l])
      BY <1>1, <1>6, <2>2, <3>1 DEF Ordered
    <3> QED
      BY <2>2, <3>1, <3>2
  <2>4. CASE ms[l] = Sentinel
    <3>1. ms[k].a + ms[k].size <= Len(a) /\ ms[k].b + ms[k].size <= Len(b)
      BY <2>2, SoundFacts
    <3> QED
      BY <1>0, <2>4, <3>1 DEF Precedes
  <2> QED
    BY <1>5, <2>3, <2>4
<1>7. ASSUME NEW k \in 1 .. Len(ms) - 1, k + 1 < Len(ms) PROVE ~Follows(ms[k], ms[k + 1])
  <2>1. k + 1 \in 1 .. Len(ms) - 1
    BY <1>3, <1>7
  <2>2. ms[k] \in M /\ ms[k + 1] \in M
    BY <1>4, <2>1
  <2> QED
    BY <1>1, <2>2 DEF Joint
<1>8. ASSUME NEW k \in 1..Len(ms) PROVE GapDiffers(ms, k)
  <2> DEFINE i == EndA(ms, k - 1)
             j == EndB(ms, k - 1)
             p == ms[k].a
             q == ms[k].b
  <2>1. Corner(S, i, j) /\ i \in Nat /\ j \in Nat
    <3>1. CASE k = 1
      <4>1. i = 0 /\ j = 0
        BY <3>1 DEF EndA, EndB
      <4> QED
        BY <4>1 DEF Corner
    <3>2. CASE k # 1
      <4>1. k - 1 \in 1 .. Len(ms) - 1 /\ k - 1 # 0
        BY <1>3, <3>2
      <4>2. i = ms[k - 1].a + ms[k - 1].size /\ j = ms[k - 1].b + ms[k - 1].size
        BY <4>1 DEF EndA, EndB
      <4>3. ms[k - 1] \in M /\ Sound(ms[k - 1])
        BY <1>4, <4>1
      <4>4. Corner(S, ms[k - 1].a + ms[k - 1].size, ms[k - 1].b + ms[k - 1].size)
        BY <1>1, <4>3 DEF Joint
      <4>5. i \in Nat /\ j \in Nat
        <5>1. ms[k - 1].a \in Nat /\ ms[k - 1].b \in Nat /\ ms[k - 1].size \in Nat
          BY <4>3, SoundFacts
        <5> QED
          BY ONLY <4>2, <5>1
      <4> QED
        BY ONLY <4>2, <4>4, <4>5
    <3> QED
      BY <3>1, <3>2
  <2>2. p \in Nat /\ q \in Nat /\ p <= Len(a) /\ q <= Len(b)
    <3>1. CASE k \in 1 .. Len(ms) - 1
      <4>1. Sound(ms[k])
        BY <1>4, <3>1
      <4>2. /\ ms[k].a \in Nat /\ ms[k].b \in Nat /\ ms[k].size \in Nat
            /\ ms[k].a + ms[k].size <= Len(a) /\ ms[k].b + ms[k].size <= Len(b)
        BY <4>1, SoundFacts
      <4> QED
        BY ONLY <1>0, <4>2
    <3>2. CASE ms[k] = Sentinel
      BY <1>0, <3>2
    <3> QED
      BY <1>5, <3>1, <3>2
  <2>3. ASSUME NEW x \in M PROVE (x.a + x.size <= i /\ x.b + x.size <= j) \/ (p <= x.a /\ q <= x.b)
    <3>1. PICK l \in 1..Len(w) : w[l] = x
      BY <1>1 DEF Ordered
    <3>2. l \in 1..Len(ms) /\ ms[l] = x
      BY <1>3, <3>1
    <3>3. CASE k <= l
      <4>1. CASE k = l
        BY <1>0, <2>2, <3>2, <4>1
      <4>2. CASE k < l
        <5>1. Precedes(ms[k], ms[l])
          BY <1>6, <3>2, <4>2
        <5>2. k \in 1 .. Len(ms) - 1
          BY <1>3, <3>2, <4>2
        <5>3. ms[k].size \in Nat
          BY <1>4, <5>2, SoundFacts
        <5>4. x.a \in Nat /\ x.b \in Nat
          BY <1>1, SoundFacts DEF Joint
        <5>5. p + ms[k].size <= x.a /\ q + ms[k].size <= x.b
          BY ONLY <3>2, <5>1 DEF Precedes
        <5>6. p <= x.a /\ q <= x.b
          BY ONLY <2>2, <5>3, <5>4, <5>5, SumBounds
        <5> QED
          BY ONLY <5>6
      <4> QED
        BY <3>3, <4>1, <4>2
    <3>4. CASE l < k
      <4>1. k # 1 /\ k - 1 \in 1 .. Len(ms) - 1 /\ k - 1 # 0 /\ k - 1 \in 1..Len(ms)
        BY <1>3, <3>2, <3>4
      <4>2. i = ms[k - 1].a + ms[k - 1].size /\ j = ms[k - 1].b + ms[k - 1].size
        BY <4>1 DEF EndA, EndB
      <4>3. CASE l = k - 1
        BY <3>2, <4>2, <4>3, <2>1
      <4>4. CASE l < k - 1
        <5>1. Precedes(ms[l], ms[k - 1])
          BY <1>6, <3>2, <4>1, <4>4
        <5>2. Sound(ms[k - 1]) /\ Sound(x)
          BY <1>1, <1>4, <4>1 DEF Joint
        <5>3. /\ ms[k - 1].a \in Nat /\ ms[k - 1].b \in Nat /\ ms[k - 1].size \in Nat
              /\ x.a \in Nat /\ x.b \in Nat /\ x.size \in Nat
          BY <5>2, SoundFacts
        <5>4. x.a + x.size <= ms[k - 1].a /\ x.b + x.size <= ms[k - 1].b
          BY <3>2, <5>1 DEF Precedes
        <5>5. x.a + x.size <= ms[k - 1].a + ms[k - 1].size
          BY <5>3, <5>4, SumGrows
        <5>6. x.b + x.size <= ms[k - 1].b + ms[k - 1].size
          BY <5>3, <5>4, SumGrows
        <5> QED
          BY ONLY <4>2, <5>5, <5>6
      <4> QED
        BY <3>4, <4>3, <4>4
    <3> QED
      BY <3>3, <3>4
  <2>4. Closed(S, i, j) /\ \A y \in S : Sound(y)
    BY <2>1 DEF Blocks
  <2> HIDE DEF i, j, p, q
  <2>5. ASSUME i < p, j < q PROVE LineAt(a, i) # LineAt(b, j)
    BY <1>1, <2>1, <2>2, <2>3, <2>4, <2>5, GapBegins
  <2> QED
    BY <2>5 DEF GapDiffers, i, j, p, q
<1>9. MatchingOk(ms)
  <2>1. Len(ms) > 0 /\ ms[Len(ms)] = Sentinel
    BY <1>3
  <2> QED
    BY <1>3, <1>4, <1>6, <1>7, <1>8, <2>1 DEF MatchingOk
<1> QED
  BY <1>1, <1>9 DEF ms

-----------------------------------------------------------------------------
(* GetOpcodes. *)

TagRight(c) ==
    (c.tag = "equal") <=> (c.i2 > c.i1 /\ c.j2 > c.j1 /\ SubSeq(a, c.i1 + 1, c.i2) = SubSeq(b, c.j1 + 1, c.j2))
OpcodeRight(c) ==
    /\ c.i1 \in Nat /\ c.i2 \in Nat /\ c.j1 \in Nat /\ c.j2 \in Nat
    /\ c.i1 <= c.i2 /\ c.j1 <= c.j2 /\ c.i2 <= Len(a) /\ c.j2 <= Len(b)
    /\ c.i1 < c.i2 \/ c.j1 < c.j2
    /\ TagRight(c)

\* Opcodes that lead from the start of both texts to i and j.
Leads(w, i, j) ==
    /\ \E X : w \in Seq(X)
    /\ \A k \in 1..Len(w) : /\ OpcodeRight(w[k])
                            /\ w[k].i1 = (IF k = 1 THEN 0 ELSE w[k - 1].i2)
                            /\ w[k].j1 = (IF k = 1 THEN 0 ELSE w[k - 1].j2)
    /\ Len(w) = 0 => i = 0 /\ j = 0
    /\ Len(w) > 0 => i = w[Len(w)].i2 /\ j = w[Len(w)].j2

LEMMA NoOpcodes == Leads(<<>>, 0, 0)
<1>1. <<>> \in Seq({}) /\ Len(<<>>) = 0
  OBVIOUS
<1> QED
  BY <1>1 DEF Leads

LEMMA NothingAdded == ASSUME NEW w, NEW i, NEW j, Leads(w, i, j) PROVE Leads(w \o <<>>, i, j)
<1>1. PICK X : w \in Seq(X)
  BY DEF Leads
<1>2. w \o <<>> = w
  BY <1>1
<1> QED
  BY <1>2

LEMMA OpcodeAdded ==
  ASSUME NEW w, NEW c, OpcodeRight(c), Leads(w, c.i1, c.j1)
  PROVE  Leads(w \o <<c>>, c.i2, c.j2)
<1> DEFINE v == w \o <<c>>
<1>1. PICK X : w \in Seq(X)
  BY DEF Leads
<1> DEFINE Y == X \cup {c}
<1>2. w \in Seq(Y) /\ <<c>> \in Seq(Y) /\ Len(<<c>>) = 1 /\ <<c>>[1] = c
  BY <1>1
<1> HIDE DEF Y
<1>3. /\ v \in Seq(Y) /\ Len(v) = Len(w) + 1 /\ Len(w) \in Nat
      /\ \A i \in 1..Len(v) : v[i] = IF i <= Len(w) THEN w[i] ELSE <<c>>[i - Len(w)]
  BY <1>2, ConcatProperties
<1> HIDE DEF v
<1>4. \A k \in 1..Len(w) : k \in 1..Len(v) /\ v[k] = w[k]
  BY <1>3
<1>5. v[Len(w) + 1] = c
  <2>1. Len(w) + 1 \in 1..Len(v) /\ ~(Len(w) + 1 <= Len(w)) /\ Len(w) + 1 - Len(w) = 1
    BY <1>3
  <2> QED
    BY <1>2, <1>3, <2>1
<1>6. ASSUME NEW k \in 1..Len(v)
      PROVE  /\ OpcodeRight(v[k])
             /\ v[k].i1 = (IF k = 1 THEN 0 ELSE v[k - 1].i2)
             /\ v[k].j1 = (IF k = 1 THEN 0 ELSE v[k - 1].j2)
  <2>1. CASE k \in 1..Len(w)
    <3>1. /\ OpcodeRight(w[k])
          /\ w[k].i1 = (IF k = 1 THEN 0 ELSE w[k - 1].i2)
          /\ w[k].j1 = (IF k = 1 THEN 0 ELSE w[k - 1].j2)
      BY <2>1 DEF Leads
    <3>2. k # 1 => k - 1 \in 1..Len(w)
      BY <1>3, <2>1
    <3>3. v[k] = w[k] /\ (k # 1 => v[k - 1] = w[k - 1])
      BY <1>4, <2>1, <3>2
    <3> QED
      BY ONLY <3>1, <3>3
  <2>2. CASE k = Len(w) + 1
    <3>1. CASE Len(w) = 0
      <4>1. c.i1 = 0 /\ c.j1 = 0
        BY <3>1 DEF Leads
      <4>2. k = 1 /\ v[k] = c
        BY <1>5, <2>2, <3>1
      <4> QED
        BY <4>1, <4>2
    <3>2. CASE Len(w) > 0
      <4>1. c.i1 = w[Len(w)].i2 /\ c.j1 = w[Len(w)].j2
        BY <3>2 DEF Leads
      <4>2. k # 1 /\ k - 1 = Len(w) /\ Len(w) \in 1..Len(w)
        BY <1>3, <2>2, <3>2
      <4>3. v[k] = c /\ v[k - 1] = w[Len(w)]
        BY <1>4, <1>5, <2>2, <4>2
      <4> QED
        BY <4>1, <4>2, <4>3
    <3> QED
      BY <1>3, <3>1, <3>2
  <2> QED
    BY <1>3, <2>1, <2>2
<1>7. Len(v) # 0 /\ c.i2 = v[Len(v)].i2 /\ c.j2 = v[Len(v)].j2
  BY <1>3, <1>5
<1>8. Leads(v, c.i2, c.j2)
  BY <1>3, <1>6, <1>7 DEF Leads
<1> QED
  BY <1>8 DEF v

Lines(s, m, n) == SubSeq(s, m + 1, n) = [i \in 1 .. n - m |-> LineAt(s, m + (i - 1))]

LEMMA Slice ==
  ASSUME NEW T, NEW s \in Seq(T), NEW m \in Nat, NEW n \in Nat, m <= n, n <= Len(s)
  PROVE  Lines(s, m, n)
<1>1. SubSeq(s, m + 1, n) = [i \in 1 .. n - m |-> s[m + i]]
  <2>1. SubSeq(s, m + 1, n) = [i \in 1 .. (1 + n) - (m + 1) |-> s[(i + (m + 1)) - 1]]
    OBVIOUS
  <2>2. (1 + n) - (m + 1) = n - m /\ \A i \in 1 .. n - m : (i + (m + 1)) - 1 = m + i
    OBVIOUS
  <2> QED
    BY <2>1, <2>2
<1>2. \A i \in 1 .. n - m : s[m + i] = LineAt(s, m + (i - 1))
  <2>1. \A i \in 1 .. n - m : m + i = (m + (i - 1)) + 1
    OBVIOUS
  <2> QED
    BY <2>1 DEF LineAt
<1> QED
  BY <1>1, <1>2 DEF Lines

LEMMA EqualTag ==
  ASSUME Texts, NEW m, Sound(m), NEW c, c = Opcode("equal", m.a, m.a + m.size, m.b, m.b + m.size)
  PROVE  OpcodeRight(c) /\ c.i1 = m.a /\ c.j1 = m.b /\ c.i2 = m.a + m.size /\ c.j2 = m.b + m.size
<1>1. /\ m.a \in Nat /\ m.b \in Nat /\ m.size \in Nat /\ m.size > 0
      /\ m.a + m.size <= Len(a) /\ m.b + m.size <= Len(b)
  BY SoundFacts
<1>2. c.tag = "equal" /\ c.i1 = m.a /\ c.j1 = m.b /\ c.i2 = m.a + m.size /\ c.j2 = m.b + m.size
  BY DEF Opcode
<1>3. PICK T : a \in Seq(T) /\ b \in Seq(T)
  BY DEF Texts
<1>4. \A n \in 0 .. m.size - 1 : LineAt(a, m.a + n) = LineAt(b, m.b + n)
  BY DEF Sound, CommonRun
<1>5. /\ m.a + m.size \in Nat /\ m.a <= m.a + m.size /\ (m.a + m.size) - m.a = m.size
      /\ m.b + m.size \in Nat /\ m.b <= m.b + m.size /\ (m.b + m.size) - m.b = m.size
  BY <1>1
<1>6. /\ SubSeq(a, m.a + 1, m.a + m.size) = [i \in 1 .. (m.a + m.size) - m.a |-> LineAt(a, m.a + (i - 1))]
      /\ SubSeq(b, m.b + 1, m.b + m.size) = [i \in 1 .. (m.b + m.size) - m.b |-> LineAt(b, m.b + (i - 1))]
  <2>1. Lines(a, m.a, m.a + m.size) /\ Lines(b, m.b, m.b + m.size)
    BY <1>1, <1>3, <1>5, Slice
  <2> QED
    BY <2>1, Zenon DEF Lines
<1>7. \A i \in 1..m.size : LineAt(a, m.a + (i - 1)) = LineAt(b, m.b + (i - 1))
  <2>1. \A i \in 1..m.size : i - 1 \in 0 .. m.size - 1
    BY <1>1
  <2> QED
    BY <1>4, <2>1
<1>8. SubSeq(a, m.a + 1, m.a + m.size) = SubSeq(b, m.b + 1, m.b + m.size)
  BY <1>5, <1>6, <1>7
<1>9. m.a + m.size > m.a /\ m.b + m.size > m.b
  BY <1>1
<1>10. TagRight(c)
  BY <1>2, <1>8, <1>9 DEF TagRight
<1> QED
  BY <1>1, <1>2, <1>5, <1>9, <1>10 DEF OpcodeRight

LEMMA OtherTag ==
  ASSUME Texts, NEW t, t # "equal", NEW i \in Nat, NEW j \in Nat, NEW p \in Nat, NEW q \in Nat,
         i <= p, j <= q, p <= Len(a), q <= Len(b), i < p \/ j < q,
         i < p /\ j < q => LineAt(a, i) # LineAt(b, j), NEW c, c = Opcode(t, i, p, j, q)
  PROVE  OpcodeRight(c) /\ c.i1 = i /\ c.j1 = j /\ c.i2 = p /\ c.j2 = q
<1>1. c.tag = t /\ c.i1 = i /\ c.j1 = j /\ c.i2 = p /\ c.j2 = q
  BY DEF Opcode
<1>2. ASSUME p > i, q > j PROVE SubSeq(a, i + 1, p) # SubSeq(b, j + 1, q)
  <2>1. PICK T : a \in Seq(T) /\ b \in Seq(T)
    BY DEF Texts
  <2>2. /\ SubSeq(a, i + 1, p) = [n \in 1 .. p - i |-> LineAt(a, i + (n - 1))]
        /\ SubSeq(b, j + 1, q) = [n \in 1 .. q - j |-> LineAt(b, j + (n - 1))]
    <3>1. Lines(a, i, p) /\ Lines(b, j, q)
      BY <2>1, Slice
    <3> QED
      BY <3>1, Zenon DEF Lines
  <2>3. 1 \in 1 .. p - i /\ 1 \in 1 .. q - j /\ i + (1 - 1) = i /\ j + (1 - 1) = j
    BY <1>2
  <2>4. SubSeq(a, i + 1, p)[1] = LineAt(a, i) /\ SubSeq(b, j + 1, q)[1] = LineAt(b, j)
    BY <2>2, <2>3
  <2>5. LineAt(a, i) # LineAt(b, j)
    BY <1>2
  <2> QED
    BY <2>4, <2>5
<1>3. TagRight(c)
  BY <1>1, <1>2 DEF TagRight
<1> QED
  BY <1>1, <1>3 DEF OpcodeRight

\* What lies in front of a block.
LEMMA GapAdded ==
  ASSUME Texts, NEW w, NEW i \in Nat, NEW j \in Nat, Leads(w, i, j), NEW m, m.a \in Nat, m.b \in Nat,
         i <= m.a, j <= m.b, m.a <= Len(a), m.b <= Len(b), i < m.a /\ j < m.b => LineAt(a, i) # LineAt(b, j)
  PROVE  Leads(w \o Gap(i, j, m), m.a, m.b)
<1>1. ASSUME NEW t, t # "equal", i < m.a \/ j < m.b PROVE Leads(w \o <<Opcode(t, i, m.a, j, m.b)>>, m.a, m.b)
  <2> DEFINE c == Opcode(t, i, m.a, j, m.b)
  <2>1. OpcodeRight(c) /\ c.i1 = i /\ c.j1 = j /\ c.i2 = m.a /\ c.j2 = m.b
    BY <1>1, OtherTag
  <2> HIDE DEF c
  <2>2. Leads(w, c.i1, c.j1)
    BY <2>1
  <2>3. Leads(w \o <<c>>, c.i2, c.j2)
    BY <2>1, <2>2, OpcodeAdded
  <2> QED
    BY <2>1, <2>3 DEF c
<1>2. CASE i < m.a /\ j < m.b
  <2>1. Gap(i, j, m) = <<Opcode("replace", i, m.a, j, m.b)>>
    BY <1>2 DEF Gap
  <2> QED
    BY <1>1, <1>2, <2>1
<1>3. CASE i < m.a /\ ~(j < m.b)
  <2>1. Gap(i, j, m) = <<Opcode("delete", i, m.a, j, m.b)>>
    BY <1>3 DEF Gap
  <2> QED
    BY <1>1, <1>3, <2>1
<1>4. CASE ~(i < m.a) /\ j < m.b
  <2>1. Gap(i, j, m) = <<Opcode("insert", i, m.a, j, m.b)>>
    BY <1>4 DEF Gap
  <2> QED
    BY <1>1, <1>4, <2>1
<1>5. CASE ~(i < m.a) /\ ~(j < m.b)
  <2>1. Gap(i, j, m) = <<>>
    BY <1>5 DEF Gap
  <2>2. i = m.a /\ j = m.b
    BY <1>5
  <2>3. Leads(w \o <<>>, i, j)
    BY NothingAdded
  <2> QED
    BY <2>1, <2>2, <2>3
<1> QED
  BY <1>2, <1>3, <1>4, <1>5

LEMMA EqualAdded ==
  ASSUME Texts, NEW w, NEW m, Sound(m), Leads(w, m.a, m.b)
  PROVE  Leads(w \o <<Opcode("equal", m.a, m.a + m.size, m.b, m.b + m.size)>>, m.a + m.size, m.b + m.size)
<1> DEFINE c == Opcode("equal", m.a, m.a + m.size, m.b, m.b + m.size)
<1>1. OpcodeRight(c) /\ c.i1 = m.a /\ c.j1 = m.b /\ c.i2 = m.a + m.size /\ c.j2 = m.b + m.size
  BY EqualTag
<1> HIDE DEF c
<1>2. Leads(w, c.i1, c.j1)
  BY <1>1
<1>3. Leads(w \o <<c>>, c.i2, c.j2)
  BY <1>1, <1>2, OpcodeAdded
<1> QED
  BY <1>1, <1>3 DEF c

OpsBody(ms, F, n) ==
    IF n = 0 THEN <<>>
    ELSE F[n - 1] \o Gap(EndA(ms, n - 1), EndB(ms, n - 1), ms[n])
         \o (IF ms[n].size = 0 THEN <<>> ELSE <<Opcode("equal", ms[n].a, EndA(ms, n), ms[n].b, EndB(ms, n))>>)
OpsUpto(ms, F) == F = [n \in 0 .. Len(ms) |-> OpsBody(ms, F, n)]

LEMMA OpsExist == ASSUME NEW ms, Len(ms) \in Nat PROVE \E F : OpsUpto(ms, F)
<1> DEFINE N == {n \in Nat : \E F : F = [k \in 0..n |-> OpsBody(ms, F, k)]}
<1>1. 0 \in N
  <2> DEFINE F == [k \in 0..0 |-> <<>>]
  <2>1. F = [k \in 0..0 |-> OpsBody(ms, F, k)]
    <3>1. \A k \in 0..0 : OpsBody(ms, F, k) = <<>>
      BY DEF OpsBody
    <3> QED
      BY <3>1
  <2> QED
    BY <2>1
<1>2. ASSUME NEW n \in N PROVE n + 1 \in N
  <2>1. PICK F : F = [k \in 0..n |-> OpsBody(ms, F, k)]
    OBVIOUS
  <2>2. n \in Nat
    OBVIOUS
  <2> DEFINE H == [k \in 0 .. n + 1 |-> IF k <= n THEN F[k] ELSE OpsBody(ms, F, k)]
  <2>3. ASSUME NEW k \in 0 .. n + 1 PROVE H[k] = OpsBody(ms, F, k)
    <3>1. k <= n => k \in 0..n
      BY <2>2
    <3>2. \A i \in 0..n : F[i] = OpsBody(ms, F, i)
      <4> DEFINE Body(i) == OpsBody(ms, F, i)
      <4>1. F = [i \in 0..n |-> Body(i)]
        BY <2>1
      <4> HIDE DEF Body
      <4>2. \A i \in 0..n : F[i] = Body(i)
        BY <4>1
      <4> QED
        BY <4>2 DEF Body
    <3>3. H[k] = IF k <= n THEN F[k] ELSE OpsBody(ms, F, k)
      OBVIOUS
    <3> HIDE DEF H
    <3> QED
      BY <3>1, <3>2, <3>3
  <2>4. ASSUME NEW k \in 0 .. n + 1, k # 0 PROVE H[k - 1] = F[k - 1]
    BY <2>2, <2>4
  <2>5. H = [k \in 0 .. n + 1 |-> H[k]]
    OBVIOUS
  <2> HIDE DEF H
  <2>6. \A k \in 0 .. n + 1 : H[k] = OpsBody(ms, H, k)
    BY <2>3, <2>4, Zenon DEF OpsBody
  <2>7. H = [k \in 0 .. n + 1 |-> OpsBody(ms, H, k)]
    BY <2>5, <2>6, Zenon
  <2> QED
    BY <2>2, <2>7
<1>3. N \in SUBSET Nat
  OBVIOUS
<1>4. Len(ms) \in N
  <2> HIDE DEF N
  <2> QED
    BY <1>1, <1>2, <1>3, SetInduction
<1> QED
  BY <1>4 DEF OpsUpto

LEMMA OpcodesOfIs ==
  ASSUME NEW ms, Len(ms) \in Nat
  PROVE  \E F : OpsUpto(ms, F) /\ OpcodesOf(ms) = F[Len(ms)]
<1> DEFINE F == CHOOSE F : OpsUpto(ms, F)
<1>1. OpsUpto(ms, F)
  BY OpsExist
<1>2. OpcodesOf(ms) = F[Len(ms)]
  BY Zenon DEF OpcodesOf, OpsUpto, OpsBody, EndA, EndB
<1> QED
  BY <1>1, <1>2

\* The ends of the blocks, and a step of OpcodesOf.
LEMMA EndsIn ==
  ASSUME Texts, NEW ms, MatchingOk(ms), NEW n \in 0 .. Len(ms)
  PROVE  EndA(ms, n) \in Nat /\ EndB(ms, n) \in Nat /\ EndA(ms, n) <= Len(a) /\ EndB(ms, n) <= Len(b)
<1>0. Len(a) \in Nat /\ Len(b) \in Nat /\ Len(ms) \in Nat
  BY TextsFacts DEF MatchingOk
<1>1. CASE n = 0
  BY <1>0, <1>1 DEF EndA, EndB
<1>2. CASE n # 0 /\ n # Len(ms)
  <2>1. Sound(ms[n])
    BY <1>0, <1>2 DEF MatchingOk
  <2>2. /\ ms[n].a \in Nat /\ ms[n].b \in Nat /\ ms[n].size \in Nat
        /\ ms[n].a + ms[n].size <= Len(a) /\ ms[n].b + ms[n].size <= Len(b)
    BY <2>1, SoundFacts
  <2>3. EndA(ms, n) = ms[n].a + ms[n].size /\ EndB(ms, n) = ms[n].b + ms[n].size
    BY ONLY <1>2 DEF EndA, EndB
  <2>4. ms[n].a + ms[n].size \in Nat /\ ms[n].b + ms[n].size \in Nat
    BY ONLY <2>2, SumIsNatural, Zenon
  <2> QED
    BY ONLY <2>2, <2>3, <2>4
<1>3. CASE n # 0 /\ n = Len(ms)
  <2>1. ms[n].a = Len(a) /\ ms[n].b = Len(b) /\ ms[n].size = 0
    BY <1>3 DEF MatchingOk, Sentinel
  <2> QED
    BY <1>0, <1>3, <2>1 DEF EndA, EndB
<1> QED
  BY <1>1, <1>2, <1>3

LEMMA BlockBehind ==
  ASSUME Texts, NEW ms, MatchingOk(ms), NEW n \in 1 .. Len(ms)
  PROVE  /\ ms[n].a \in Nat /\ ms[n].b \in Nat /\ ms[n].a <= Len(a) /\ ms[n].b <= Len(b)
         /\ EndA(ms, n - 1) <= ms[n].a /\ EndB(ms, n - 1) <= ms[n].b
         /\ n = Len(ms) => ms[n] = Sentinel
         /\ n # Len(ms) => Sound(ms[n])
<1>0. Len(a) \in Nat /\ Len(b) \in Nat /\ Len(ms) \in Nat
  BY TextsFacts DEF MatchingOk
<1>1. n = Len(ms) => ms[n] = Sentinel
  BY DEF MatchingOk
<1>2. n # Len(ms) => Sound(ms[n])
  BY <1>0 DEF MatchingOk
<1>3. ms[n].a \in Nat /\ ms[n].b \in Nat /\ ms[n].a <= Len(a) /\ ms[n].b <= Len(b)
  <2>1. CASE n = Len(ms)
    BY <1>0, <1>1, <2>1 DEF Sentinel
  <2>2. CASE n # Len(ms)
    <3>1. /\ ms[n].a \in Nat /\ ms[n].b \in Nat /\ ms[n].size \in Nat
          /\ ms[n].a + ms[n].size <= Len(a) /\ ms[n].b + ms[n].size <= Len(b)
      BY <1>2, <2>2, SoundFacts
    <3> QED
      BY ONLY <1>0, <3>1
  <2> QED
    BY <2>1, <2>2
<1>4. EndA(ms, n - 1) <= ms[n].a /\ EndB(ms, n - 1) <= ms[n].b
  <2>1. CASE n = 1
    BY <1>3, <2>1 DEF EndA, EndB
  <2>2. CASE n # 1
    <3>1. n - 1 \in 1 .. Len(ms) /\ n - 1 < n /\ n - 1 # 0
      BY <1>0, <2>2
    <3>2. Precedes(ms[n - 1], ms[n])
      BY <3>1 DEF MatchingOk
    <3> QED
      BY <3>1, <3>2 DEF Precedes, EndA, EndB
  <2> QED
    BY <2>1, <2>2
<1> QED
  BY <1>1, <1>2, <1>3, <1>4

LEMMA OpsStep ==
  ASSUME Texts, NEW ms, MatchingOk(ms), NEW F, OpsUpto(ms, F), NEW n \in 1 .. Len(ms),
         Leads(F[n - 1], EndA(ms, n - 1), EndB(ms, n - 1))
  PROVE  Leads(F[n], EndA(ms, n), EndB(ms, n))
<1> DEFINE i == EndA(ms, n - 1)
           j == EndB(ms, n - 1)
           m == ms[n]
           w == F[n - 1] \o Gap(i, j, m)
<1>0. Len(ms) \in Nat
  BY DEF MatchingOk
<1>1. F[n] = w \o (IF m.size = 0 THEN <<>> ELSE <<Opcode("equal", m.a, EndA(ms, n), m.b, EndB(ms, n))>>)
  <2>1. n \in 0 .. Len(ms) /\ n # 0
    BY <1>0
  <2>2. F[n] = OpsBody(ms, F, n)
    <3> DEFINE Body(k) == OpsBody(ms, F, k)
    <3>1. F = [k \in 0 .. Len(ms) |-> Body(k)]
      BY DEF OpsUpto
    <3> HIDE DEF Body
    <3>2. F[n] = Body(n)
      BY <2>1, <3>1
    <3> QED
      BY <3>2 DEF Body
  <2> QED
    BY <2>1, <2>2, Zenon DEF OpsBody
<1>2. Leads(w, m.a, m.b)
  <2>1. i \in Nat /\ j \in Nat
    <3>1. n - 1 \in 0 .. Len(ms)
      BY <1>0
    <3> QED
      BY <3>1, EndsIn
  <2>2. m.a \in Nat /\ m.b \in Nat /\ m.a <= Len(a) /\ m.b <= Len(b) /\ i <= m.a /\ j <= m.b
    BY BlockBehind
  <2>3. i < m.a /\ j < m.b => LineAt(a, i) # LineAt(b, j)
    BY DEF MatchingOk, GapDiffers
  <2>4. Leads(F[n - 1], i, j)
    OBVIOUS
  <2> HIDE DEF i, j, m
  <2> QED
    BY <2>1, <2>2, <2>3, <2>4, GapAdded
<1>3. EndA(ms, n) = m.a + m.size /\ EndB(ms, n) = m.b + m.size
  BY DEF EndA, EndB
<1>4. (n = Len(ms) => m = Sentinel) /\ (n # Len(ms) => Sound(m))
  BY BlockBehind
<1> HIDE DEF w, m
<1>5. CASE n = Len(ms)
  <2>1. m.size = 0 /\ m.a + m.size = m.a /\ m.b + m.size = m.b
    BY <1>4, <1>5, TextsFacts DEF Sentinel
  <2>2. F[n] = w \o <<>>
    BY <1>1, <2>1
  <2>3. Leads(w \o <<>>, m.a, m.b)
    BY <1>2, NothingAdded
  <2> QED
    BY <1>3, <2>1, <2>2, <2>3
<1>6. CASE n # Len(ms)
  <2>1. Sound(m) /\ m.size # 0
    BY <1>4, <1>6 DEF Sound
  <2>2. F[n] = w \o <<Opcode("equal", m.a, m.a + m.size, m.b, m.b + m.size)>>
    BY <1>1, <1>3, <2>1
  <2>3. Leads(w \o <<Opcode("equal", m.a, m.a + m.size, m.b, m.b + m.size)>>, m.a + m.size, m.b + m.size)
    BY <1>2, <2>1, EqualAdded
  <2> QED
    BY <1>3, <2>2, <2>3
<1> QED
  BY <1>5, <1>6

\* The opcodes lead through both texts.
LEMMA OpcodesLead ==
  ASSUME Texts, NEW ms, MatchingOk(ms)
  PROVE  Leads(OpcodesOf(ms), Len(a), Len(b))
<1>0. Len(ms) \in Nat /\ Len(ms) > 0 /\ Len(a) \in Nat /\ Len(b) \in Nat
  BY TextsFacts DEF MatchingOk
<1>1. PICK F : OpsUpto(ms, F) /\ OpcodesOf(ms) = F[Len(ms)]
  BY <1>0, OpcodesOfIs
<1> DEFINE N == {n \in Nat : n <= Len(ms) => Leads(F[n], EndA(ms, n), EndB(ms, n))}
<1>2. 0 \in N
  <2>1. F[0] = OpsBody(ms, F, 0)
    <3> DEFINE Body(k) == OpsBody(ms, F, k)
    <3>1. F = [k \in 0 .. Len(ms) |-> Body(k)] /\ 0 \in 0 .. Len(ms)
      BY <1>0, <1>1 DEF OpsUpto
    <3> HIDE DEF Body
    <3>2. F[0] = Body(0)
      BY <3>1
    <3> QED
      BY <3>2 DEF Body
  <2>2. F[0] = <<>> /\ EndA(ms, 0) = 0 /\ EndB(ms, 0) = 0
    BY <2>1 DEF OpsBody, EndA, EndB
  <2> QED
    BY <2>2, NoOpcodes
<1>3. ASSUME NEW n \in N PROVE n + 1 \in N
  <2>1. n \in Nat /\ n + 1 - 1 = n /\ (n + 1 <= Len(ms) => n <= Len(ms) /\ n + 1 \in 1 .. Len(ms))
    BY <1>0
  <2>2. ASSUME n + 1 <= Len(ms) PROVE Leads(F[n + 1], EndA(ms, n + 1), EndB(ms, n + 1))
    <3>1. Leads(F[n + 1 - 1], EndA(ms, n + 1 - 1), EndB(ms, n + 1 - 1))
      BY <2>1, <2>2
    <3> QED
      BY <1>1, <2>1, <2>2, <3>1, OpsStep
  <2> QED
    BY <2>1, <2>2
<1>4. N \in SUBSET Nat
  OBVIOUS
<1>5. Len(ms) \in N
  <2> HIDE DEF N
  <2> QED
    BY <1>0, <1>2, <1>3, <1>4, SetInduction
<1>6. EndA(ms, Len(ms)) = Len(a) /\ EndB(ms, Len(ms)) = Len(b)
  BY <1>0 DEF MatchingOk, EndA, EndB, Sentinel
<1> QED
  BY <1>0, <1>1, <1>5, <1>6

LEMMA LeadsCover ==
  ASSUME Texts, opcodes # None => Leads(opcodes, Len(a), Len(b)) \/ trimmed
  PROVE  OpcodesCover
<1> DEFINE w == opcodes
<1>0. Len(a) \in Nat /\ Len(b) \in Nat /\ (Len(a) = 0 <=> a = <<>>) /\ (Len(b) = 0 <=> b = <<>>)
  BY DEF Texts
<1>1. SUFFICES ASSUME Leads(w, Len(a), Len(b))
               PROVE  /\ w = <<>> <=> (a = <<>> /\ b = <<>>)
                      /\ \A k \in DOMAIN w :
                           /\ w[k].i1 = (IF k = 1 THEN 0 ELSE w[k - 1].i2)
                           /\ w[k].j1 = (IF k = 1 THEN 0 ELSE w[k - 1].j2)
                           /\ k = Len(w) => w[k].i2 = Len(a) /\ w[k].j2 = Len(b)
                           /\ TagRight(w[k])
  BY Zenon DEF OpcodesCover, TagRight
<1> HIDE DEF w
<1>2. PICK X : w \in Seq(X)
  BY <1>1 DEF Leads
<1>3. Len(w) \in Nat /\ DOMAIN w = 1..Len(w) /\ (Len(w) = 0 <=> w = <<>>)
  BY <1>2
<1>4. ASSUME NEW k \in DOMAIN w
      PROVE  /\ w[k].i1 = (IF k = 1 THEN 0 ELSE w[k - 1].i2)
             /\ w[k].j1 = (IF k = 1 THEN 0 ELSE w[k - 1].j2)
             /\ k = Len(w) => w[k].i2 = Len(a) /\ w[k].j2 = Len(b)
             /\ TagRight(w[k])
  <2>1. k \in 1..Len(w) /\ Len(w) > 0
    BY <1>3
  <2>2. OpcodeRight(w[k])
    BY <1>1, <2>1 DEF Leads
  <2>3. w[k].i1 = (IF k = 1 THEN 0 ELSE w[k - 1].i2) /\ w[k].j1 = (IF k = 1 THEN 0 ELSE w[k - 1].j2)
    BY <1>1, <2>1 DEF Leads
  <2>4. k = Len(w) => w[k].i2 = Len(a) /\ w[k].j2 = Len(b)
    BY <1>1, <2>1 DEF Leads
  <2> QED
    BY <2>2, <2>3, <2>4 DEF OpcodeRight
<1>5. w = <<>> <=> (a = <<>> /\ b = <<>>)
  <2>1. ASSUME Len(w) = 0 PROVE Len(a) = 0 /\ Len(b) = 0
    BY <1>1, <2>1 DEF Leads
  <2>2. ASSUME Len(w) # 0, Len(a) = 0, Len(b) = 0 PROVE FALSE
    <3>1. 1 \in 1..Len(w)
      BY <1>3, <2>2
    <3>2. OpcodeRight(w[1])
      BY <1>1, <3>1 DEF Leads
    <3> QED
      BY <2>2, <3>2 DEF OpcodeRight
  <2> QED
    BY <1>0, <1>3, <2>1, <2>2
<1> QED
  BY <1>4, <1>5

LEMMA MatchingAdvances ==
  ASSUME Texts, matching # None => MatchingOk(matching)
  PROVE  BlocksAdvance
<1> DEFINE ms == matching
<1>0. SUFFICES ASSUME MatchingOk(ms)
               PROVE  /\ ms[Len(ms)] = Sentinel
                      /\ \A k \in 1 .. Len(ms) - 1 :
                           /\ ms[k].size > 0 /\ CommonRun(WholeRange, ms[k].a, ms[k].b, ms[k].size)
                           /\ ms[k].a + ms[k].size <= ms[k + 1].a /\ ms[k].b + ms[k].size <= ms[k + 1].b
                           /\ ms[k + 1].size > 0 => (ms[k].a + ms[k].size < ms[k + 1].a \/ ms[k].b + ms[k].size < ms[k + 1].b)
  BY Zenon DEF BlocksAdvance, Sentinel
<1> HIDE DEF ms
<1>1. Len(ms) \in Nat /\ ms[Len(ms)] = Sentinel
  BY <1>0 DEF MatchingOk
<1>2. ASSUME NEW k \in 1 .. Len(ms) - 1
      PROVE  /\ ms[k].size > 0 /\ CommonRun(WholeRange, ms[k].a, ms[k].b, ms[k].size)
             /\ ms[k].a + ms[k].size <= ms[k + 1].a /\ ms[k].b + ms[k].size <= ms[k + 1].b
             /\ ms[k + 1].size > 0 => (ms[k].a + ms[k].size < ms[k + 1].a \/ ms[k].b + ms[k].size < ms[k + 1].b)
  <2>1. Sound(ms[k])
    BY <1>0 DEF MatchingOk
  <2>2. k \in 1..Len(ms) /\ k + 1 \in 1..Len(ms) /\ k < k + 1
    BY <1>1
  <2>3. Precedes(ms[k], ms[k + 1])
    BY <1>0, <2>2 DEF MatchingOk
  <2>4. ASSUME ms[k + 1].size > 0 PROVE ms[k].a + ms[k].size < ms[k + 1].a \/ ms[k].b + ms[k].size < ms[k + 1].b
    <3>1. k + 1 # Len(ms)
      BY <1>1, <2>4 DEF Sentinel
    <3>2. k + 1 < Len(ms)
      BY <1>1, <2>2, <3>1
    <3>3. ~Follows(ms[k], ms[k + 1])
      BY <1>0, <3>2 DEF MatchingOk
    <3>4. k + 1 \in 1 .. Len(ms) - 1
      BY <1>1, <3>2
    <3>5. Sound(ms[k + 1])
      BY <1>0, <3>4 DEF MatchingOk
    <3>6. /\ ms[k].a \in Nat /\ ms[k].b \in Nat /\ ms[k].size \in Nat
          /\ ms[k + 1].a \in Nat /\ ms[k + 1].b \in Nat
      BY <2>1, <3>5, SoundFacts
    <3> QED
      BY <2>3, <3>3, <3>6 DEF Precedes, Follows
  <2> QED
    BY <2>1, <2>3, <2>4 DEF Sound, Precedes
<1> QED
  BY <1>1, <1>2

-----------------------------------------------------------------------------
(* The ratios: counting. *)

SumBody(G, F, k) == IF k = 0 THEN 0 ELSE F[k - 1] + G[k]
Sums(G, N, F) == F = [k \in 0..N |-> SumBody(G, F, k)]

LEMMA SumsExist == ASSUME NEW G, NEW n \in Nat PROVE \E F : Sums(G, n, F)
<1> DEFINE N == {k \in Nat : \E F : Sums(G, k, F)}
<1>1. 0 \in N
  <2> DEFINE F == [k \in 0..0 |-> 0]
  <2>1. \A k \in 0..0 : SumBody(G, F, k) = 0
    BY DEF SumBody
  <2>2. Sums(G, 0, F)
    BY <2>1 DEF Sums
  <2> QED
    BY <2>2
<1>2. ASSUME NEW m \in N PROVE m + 1 \in N
  <2>1. PICK F : Sums(G, m, F)
    OBVIOUS
  <2>2. m \in Nat
    OBVIOUS
  <2> DEFINE H == [k \in 0 .. m + 1 |-> IF k <= m THEN F[k] ELSE SumBody(G, F, k)]
  <2>3. ASSUME NEW k \in 0 .. m + 1 PROVE H[k] = SumBody(G, F, k)
    <3>1. k <= m => k \in 0..m
      BY <2>2
    <3>2. \A i \in 0..m : F[i] = SumBody(G, F, i)
      <4> DEFINE Body(i) == SumBody(G, F, i)
      <4>1. F = [i \in 0..m |-> Body(i)]
        BY <2>1 DEF Sums
      <4> HIDE DEF Body
      <4>2. \A i \in 0..m : F[i] = Body(i)
        BY <4>1
      <4> QED
        BY <4>2 DEF Body
    <3>3. H[k] = IF k <= m THEN F[k] ELSE SumBody(G, F, k)
      OBVIOUS
    <3> HIDE DEF H
    <3> QED
      BY <3>1, <3>2, <3>3
  <2>4. ASSUME NEW k \in 0 .. m + 1, k # 0 PROVE H[k - 1] = F[k - 1]
    BY <2>2, <2>4
  <2>5. H = [k \in 0 .. m + 1 |-> H[k]]
    OBVIOUS
  <2> HIDE DEF H
  <2>6. \A k \in 0 .. m + 1 : H[k] = SumBody(G, H, k)
    BY <2>3, <2>4, Zenon DEF SumBody
  <2>7. Sums(G, m + 1, H)
    BY <2>5, <2>6, Zenon DEF Sums
  <2> QED
    BY <2>2, <2>7
<1>3. N \in SUBSET Nat
  OBVIOUS
<1> HIDE DEF N
<1>4. n \in N
  BY <1>1, <1>2, <1>3, SetInduction
<1> QED
  BY <1>4 DEF N

LEMMA SumsFacts ==
  ASSUME NEW G, NEW n \in Nat, NEW F, Sums(G, n, F)
  PROVE  F[0] = 0 /\ \A k \in 1..n : F[k] = F[k - 1] + G[k]
<1> DEFINE Body(k) == SumBody(G, F, k)
<1>1. F = [k \in 0..n |-> Body(k)]
  BY DEF Sums
<1> HIDE DEF Body
<1>2. \A k \in 0..n : F[k] = Body(k)
  BY <1>1
<1>3. 0 \in 0..n /\ \A k \in 1..n : k \in 0..n /\ k # 0
  OBVIOUS
<1> QED
  BY <1>2, <1>3 DEF Body, SumBody

\* How many of the first numbers are in a set.
LEMMA SumCounts ==
  ASSUME NEW n \in Nat, NEW B, NEW G, \A k \in 1..n : G[k] = IF k \in B THEN 1 ELSE 0, NEW F, Sums(G, n, F)
  PROVE  F[n] = Cardinality({k \in 1..n : k \in B})
<1> DEFINE U(m) == {k \in 1..m : k \in B}
           N == {m \in Nat : m <= n => IsFiniteSet(U(m)) /\ F[m] = Cardinality(U(m))}
<1>0. F[0] = 0 /\ \A k \in 1..n : F[k] = F[k - 1] + G[k]
  BY SumsFacts
<1>1. 0 \in N
  <2>1. U(0) = {}
    OBVIOUS
  <2> HIDE DEF U
  <2> QED
    BY <1>0, <2>1, FS_EmptySet
<1>2. ASSUME NEW m \in N PROVE m + 1 \in N
  <2>1. m \in Nat /\ m + 1 \in Nat
    OBVIOUS
  <2>2. ASSUME m + 1 <= n PROVE IsFiniteSet(U(m + 1)) /\ F[m + 1] = Cardinality(U(m + 1))
    <3>1. m <= n /\ m + 1 \in 1..n /\ m + 1 - 1 = m
      BY <2>1, <2>2
    <3>2. IsFiniteSet(U(m)) /\ F[m] = Cardinality(U(m))
      BY <3>1
    <3>3. F[m + 1] = F[m] + G[m + 1]
      BY <1>0, <3>1
    <3>4. CASE m + 1 \in B
      <4>1. U(m + 1) = U(m) \cup {m + 1} /\ m + 1 \notin U(m)
        BY <2>1, <3>4
      <4> HIDE DEF U
      <4>2. G[m + 1] = 1
        BY <3>1, <3>4
      <4> QED
        BY <3>2, <3>3, <4>1, <4>2, FS_AddElement
    <3>5. CASE m + 1 \notin B
      <4>1. U(m + 1) = U(m)
        BY <2>1, <3>5
      <4> HIDE DEF U
      <4>2. G[m + 1] = 0
        BY <3>1, <3>5
      <4>3. Cardinality(U(m)) \in Nat
        BY <3>2, FS_CardinalityType
      <4> QED
        BY <3>2, <3>3, <4>1, <4>2, <4>3
    <3> QED
      BY <3>4, <3>5
  <2> HIDE DEF U
  <2> QED
    BY <2>1, <2>2
<1>3. N \in SUBSET Nat
  OBVIOUS
<1>4. n \in N
  <2> HIDE DEF N
  <2> QED
    BY <1>1, <1>2, <1>3, SetInduction
<1> QED
  BY <1>4

\* The lines of s that QuickRatio counts.
Rank(s, i) == Cardinality({k \in 1 .. i - 1 : s[k] = s[i]})
Quick(s, t) == {i \in 1..Len(s) : Rank(s, i) < Count(t, s[i])}

LEMMA QuickIs ==
  ASSUME NEW s, NEW t, Len(s) \in Nat
  PROVE  QuickMatches(s, t) = Cardinality(Quick(s, t))
<1> DEFINE one(k) == IF Rank(s, k) < Count(t, s[k]) THEN 1 ELSE 0
           G == [k \in 1..Len(s) |-> one(k)]
           F == CHOOSE F : Sums(G, Len(s), F)
<1>1. Sums(G, Len(s), F)
  <2> HIDE DEF G
  <2> QED
    BY SumsExist
<1>2. QuickMatches(s, t) = F[Len(s)]
  <2>1. \A k \in 0..Len(s) : k # 0 => G[k] = one(k)
    <3> HIDE DEF one
    <3> QED
      OBVIOUS
  <2> HIDE DEF G, one
  <2>2. \A L : [k \in 0..Len(s) |-> SumBody(G, L, k)]
             = [k \in 0..Len(s) |-> IF k = 0 THEN 0 ELSE L[k - 1] + one(k)]
    BY <2>1, Zenon DEF SumBody
  <2>3. F = CHOOSE L : L = [k \in 0..Len(s) |-> IF k = 0 THEN 0 ELSE L[k - 1] + one(k)]
    BY <2>2, Zenon DEF Sums
  <2> HIDE DEF F
  <2> QED
    BY <2>3, Zenon DEF QuickMatches, one, Rank
<1>3. \A k \in 1..Len(s) : G[k] = IF k \in Quick(s, t) THEN 1 ELSE 0
  <2>1. \A k \in 1..Len(s) : k \in Quick(s, t) <=> Rank(s, k) < Count(t, s[k])
    BY DEF Quick
  <2> QED
    BY <2>1
<1> HIDE DEF F, G
<1>4. F[Len(s)] = Cardinality({k \in 1..Len(s) : k \in Quick(s, t)})
  BY <1>1, <1>3, SumCounts
<1>5. {k \in 1..Len(s) : k \in Quick(s, t)} = Quick(s, t)
  BY DEF Quick
<1> QED
  BY <1>2, <1>4, <1>5

\* A set has no more elements than another when it has no more of any colour.
Coloured(C, f, e) == {c \in C : f[c] = e}
Fewer(C, Q, f, g) ==
    /\ IsFiniteSet(C) /\ IsFiniteSet(Q)
    /\ \A e : Cardinality(Coloured(C, f, e)) <= Cardinality(Coloured(Q, g, e))

LEMMA ColouredFinite ==
  ASSUME NEW C, IsFiniteSet(C), NEW f, NEW e
  PROVE  IsFiniteSet(Coloured(C, f, e)) /\ Cardinality(Coloured(C, f, e)) \in Nat
<1>1. Coloured(C, f, e) \in SUBSET C
  BY DEF Coloured
<1> QED
  BY <1>1, FS_Subset, FS_CardinalityType

LEMMA ColouredLess ==
  ASSUME NEW C, IsFiniteSet(C), NEW f, NEW e, NEW c \in C
  PROVE  Cardinality(Coloured(C \ {c}, f, e))
           = IF f[c] = e THEN Cardinality(Coloured(C, f, e)) - 1 ELSE Cardinality(Coloured(C, f, e))
<1>1. IsFiniteSet(Coloured(C, f, e))
  BY ColouredFinite
<1>2. Coloured(C \ {c}, f, e) = Coloured(C, f, e) \ {c} /\ (c \in Coloured(C, f, e) <=> f[c] = e)
  BY DEF Coloured
<1> QED
  BY <1>1, <1>2, FS_RemoveElement

LEMMA FewerStep ==
  ASSUME NEW C, NEW Q, NEW f, NEW g, Fewer(C, Q, f, g), NEW c \in C
  PROVE  \E q \in Q : Fewer(C \ {c}, Q \ {q}, f, g)
<1>1. IsFiniteSet(C) /\ IsFiniteSet(Q)
  BY DEF Fewer
<1>2. \A e : /\ Cardinality(Coloured(C, f, e)) \in Nat /\ Cardinality(Coloured(Q, g, e)) \in Nat
             /\ Cardinality(Coloured(C, f, e)) <= Cardinality(Coloured(Q, g, e))
  BY <1>1, ColouredFinite DEF Fewer
<1> DEFINE e0 == f[c]
<1>3. \E q \in Q : g[q] = e0
  <2>1. c \in Coloured(C, f, e0)
    BY DEF Coloured
  <2>2. Cardinality(Coloured(C, f, e0)) # 0
    BY <1>1, <2>1, ColouredFinite, FS_EmptySet
  <2>3. Cardinality(Coloured(Q, g, e0)) # 0
    <3> HIDE DEF e0
    <3> QED
      BY <1>2, <2>2
  <2>4. Coloured(Q, g, e0) # {}
    BY <2>3, FS_EmptySet
  <2> QED
    BY <2>4 DEF Coloured
<1>4. PICK q \in Q : g[q] = e0
  BY <1>3
<1>5. ASSUME NEW e PROVE Cardinality(Coloured(C \ {c}, f, e)) <= Cardinality(Coloured(Q \ {q}, g, e))
  <2>1. Cardinality(Coloured(C \ {c}, f, e))
          = IF f[c] = e THEN Cardinality(Coloured(C, f, e)) - 1 ELSE Cardinality(Coloured(C, f, e))
    BY <1>1, ColouredLess
  <2>2. Cardinality(Coloured(Q \ {q}, g, e))
          = IF g[q] = e THEN Cardinality(Coloured(Q, g, e)) - 1 ELSE Cardinality(Coloured(Q, g, e))
    BY <1>1, ColouredLess
  <2>3. f[c] = g[q]
    BY <1>4
  <2> QED
    BY <1>2, <2>1, <2>2, <2>3
<1>6. IsFiniteSet(C \ {c}) /\ IsFiniteSet(Q \ {q})
  BY <1>1, FS_RemoveElement
<1> QED
  BY <1>5, <1>6 DEF Fewer

LEMMA FewerColours ==
  ASSUME NEW C, NEW Q, NEW f, NEW g, Fewer(C, Q, f, g)
  PROVE  Cardinality(C) <= Cardinality(Q)
<1> DEFINE N == {n \in Nat : \A D \in SUBSET C, P \in SUBSET Q :
                    Cardinality(D) = n /\ Fewer(D, P, f, g) => Cardinality(D) <= Cardinality(P)}
<1>1. 0 \in N
  <2>1. ASSUME NEW P, NEW D, Fewer(D, P, f, g), Cardinality(D) = 0 PROVE Cardinality(D) <= Cardinality(P)
    <3>1. Cardinality(P) \in Nat
      BY <2>1, FS_CardinalityType DEF Fewer
    <3> QED
      BY <2>1, <3>1
  <2> QED
    BY <2>1
<1>2. ASSUME NEW n \in N PROVE n + 1 \in N
  <2>1. n \in Nat
    OBVIOUS
  <2>2. ASSUME NEW D \in SUBSET C, NEW P \in SUBSET Q, Cardinality(D) = n + 1, Fewer(D, P, f, g)
        PROVE  Cardinality(D) <= Cardinality(P)
    <3>1. IsFiniteSet(D) /\ IsFiniteSet(P) /\ D # {}
      <4>1. IsFiniteSet(D) /\ IsFiniteSet(P)
        BY <2>2 DEF Fewer
      <4>2. Cardinality(D) # 0
        BY <2>1, <2>2
      <4> QED
        BY <4>1, <4>2, FS_EmptySet
    <3>2. PICK c \in D : TRUE
      BY <3>1
    <3>3. PICK q \in P : Fewer(D \ {c}, P \ {q}, f, g)
      BY <2>2, FewerStep
    <3>4. Cardinality(D \ {c}) = Cardinality(D) - 1 /\ Cardinality(P \ {q}) = Cardinality(P) - 1
      BY <3>1, FS_RemoveElement
    <3>5. Cardinality(D \ {c}) = n
      BY <2>1, <2>2, <3>4
    <3>6. D \ {c} \in SUBSET C /\ P \ {q} \in SUBSET Q
      OBVIOUS
    <3>7. Cardinality(D \ {c}) <= Cardinality(P \ {q})
      BY <3>3, <3>5, <3>6
    <3>8. Cardinality(P) \in Nat
      BY <3>1, FS_CardinalityType
    <3> QED
      BY <2>1, <2>2, <3>4, <3>5, <3>7, <3>8
  <2> QED
    BY <2>1, <2>2
<1>3. N \in SUBSET Nat
  OBVIOUS
<1>4. Cardinality(C) \in Nat
  BY FS_CardinalityType DEF Fewer
<1>5. Cardinality(C) \in N
  <2> HIDE DEF N
  <2> QED
    BY <1>1, <1>2, <1>3, <1>4, SetInduction
<1> QED
  BY <1>5

\* Of one text, QuickRatio counts as many lines as there are, up to the number of them in the other.
Places(s, e) == {i \in 1..Len(s) : s[i] = e}

LEMMA OccursFinite ==
  ASSUME NEW T, NEW s \in Seq(T), NEW e
  PROVE  /\ IsFiniteSet(Places(s, e)) /\ Cardinality(Places(s, e)) \in Nat
         /\ Count(s, e) = Cardinality(Places(s, e))
<1>1. Len(s) \in Nat /\ DOMAIN s = 1..Len(s)
  OBVIOUS
<1>2. IsFiniteSet(1..Len(s)) /\ Places(s, e) \in SUBSET 1..Len(s)
  BY <1>1, UptoNatural DEF Places
<1>3. IsFiniteSet(Places(s, e)) /\ Cardinality(Places(s, e)) \in Nat
  BY <1>2, FS_Subset, FS_CardinalityType
<1>4. Count(s, e) = Cardinality(Places(s, e))
  BY <1>1 DEF Count, Places
<1> QED
  BY <1>3, <1>4

\* Those of them that QuickRatio counts.
Taken(s, e, m) == {i \in Places(s, e) : Rank(s, i) < m}

LEMMA RankIs ==
  ASSUME NEW T, NEW s \in Seq(T), NEW e, NEW i \in Places(s, e)
  PROVE  /\ Rank(s, i) = Cardinality({k \in Places(s, e) : k < i})
         /\ IsFiniteSet({k \in Places(s, e) : k < i}) /\ Rank(s, i) \in Nat
<1>1. s[i] = e /\ i \in 1..Len(s) /\ Len(s) \in Nat
  BY DEF Places
<1>2. {k \in 1 .. i - 1 : s[k] = s[i]} = {k \in Places(s, e) : k < i}
  <2>1. \A k : k \in 1 .. i - 1 <=> k \in 1..Len(s) /\ k < i
    BY <1>1
  <2> QED
    BY <1>1, <2>1 DEF Places
<1>3. IsFiniteSet({k \in Places(s, e) : k < i})
  <2>1. {k \in Places(s, e) : k < i} \in SUBSET Places(s, e)
    OBVIOUS
  <2> QED
    BY <2>1, OccursFinite, FS_Subset
<1> QED
  BY <1>2, <1>3, FS_CardinalityType DEF Rank

LEMMA TakenLeast ==
  ASSUME NEW T, NEW s \in Seq(T), NEW e, NEW m \in Nat, NEW n \in Nat, n <= m, n <= Cardinality(Places(s, e))
  PROVE  n <= Cardinality(Taken(s, e, m))
<1>0. IsFiniteSet(Taken(s, e, m)) /\ Cardinality(Taken(s, e, m)) \in Nat /\ Cardinality(Places(s, e)) \in Nat
  <2>1. Taken(s, e, m) \in SUBSET Places(s, e)
    BY DEF Taken
  <2> QED
    BY <2>1, OccursFinite, FS_Subset, FS_CardinalityType
<1>1. CASE Taken(s, e, m) = Places(s, e)
  BY <1>1
<1>2. CASE Taken(s, e, m) # Places(s, e)
  <2> DEFINE L == Places(s, e) \ Taken(s, e, m)
  <2>1. L \in SUBSET Nat /\ L # {}
    <3>1. Places(s, e) \subseteq Nat
      BY DEF Places
    <3>2. Taken(s, e, m) \subseteq Places(s, e)
      BY DEF Taken
    <3> QED
      BY <1>2, <3>1, <3>2
  <2>2. PICK i \in L : \A k \in L : i <= k
    <3> HIDE DEF L
    <3> QED
      BY <2>1, LeastNatural
  <2> DEFINE U == {k \in Places(s, e) : k < i}
  <2>3. i \in Places(s, e) /\ i \in Nat /\ ~(Rank(s, i) < m)
    BY <2>1, <2>2 DEF Taken
  <2>4. Rank(s, i) = Cardinality(U) /\ Rank(s, i) \in Nat
    BY <2>3, RankIs
  <2>5. U \in SUBSET Taken(s, e, m)
    <3>1. ASSUME NEW k \in U PROVE k \in Taken(s, e, m)
      <4>1. k \in Places(s, e) /\ k < i /\ k \in Nat
        BY DEF Places
      <4>2. k \notin L
        BY <2>2, <2>3, <4>1
      <4> QED
        BY <4>1, <4>2
    <3> QED
      BY <3>1
  <2> HIDE DEF U
  <2>6. Cardinality(U) <= Cardinality(Taken(s, e, m))
    BY <1>0, <2>5, FS_Subset
  <2>7. m <= Cardinality(U)
    BY <2>3, <2>4
  <2> QED
    BY <1>0, <2>4, <2>6, <2>7
<1> QED
  BY <1>1, <1>2

LEMMA TakenMost ==
  ASSUME NEW T, NEW s \in Seq(T), NEW e, NEW m \in Nat
  PROVE  Cardinality(Taken(s, e, m)) <= m
<1> DEFINE U == Taken(s, e, m)
<1>0. IsFiniteSet(U) /\ Cardinality(U) \in Nat /\ U \in SUBSET 1..Len(s) /\ Len(s) \in Nat /\ U \subseteq Places(s, e)
  <2>1. Taken(s, e, m) \in SUBSET Places(s, e) /\ Places(s, e) \subseteq 1..Len(s)
    BY DEF Taken, Places
  <2> QED
    BY <2>1, OccursFinite, FS_Subset, FS_CardinalityType
<1>1. CASE U = {}
  <2>1. Cardinality(U) = 0
    BY <1>1, FS_EmptySet
  <2> QED
    BY <2>1
<1>2. CASE U # {}
  <2>1. PICK i \in U : \A k \in U : k <= i
    <3> HIDE DEF U
    <3> QED
      BY <1>0, <1>2, GreatestNatural
  <2> DEFINE V == {k \in Places(s, e) : k < i}
  <2>2. i \in Places(s, e) /\ Rank(s, i) < m
    BY <2>1 DEF Taken
  <2>3. Rank(s, i) = Cardinality(V) /\ IsFiniteSet(V) /\ Rank(s, i) \in Nat
    BY <2>2, RankIs
  <2>4. U \in SUBSET (V \cup {i})
    <3>1. ASSUME NEW k \in U PROVE k \in V \cup {i}
      <4>1. k \in Nat /\ i \in Nat /\ k <= i /\ k \in Places(s, e)
        <5> HIDE DEF U
        <5> QED
          BY <1>0, <2>1
      <4> QED
        BY <4>1
    <3> QED
      BY <3>1
  <2>5. i \notin V
    <3>1. i \in Nat
      <4> HIDE DEF U
      <4> QED
        BY <1>0
    <3> QED
      BY <3>1
  <2> HIDE DEF U, V
  <2>6. IsFiniteSet(V \cup {i}) /\ Cardinality(V \cup {i}) = Cardinality(V) + 1
    BY <2>3, <2>5, FS_AddElement
  <2>7. Cardinality(U) <= Cardinality(V \cup {i})
    BY <2>4, <2>6, FS_Subset
  <2>8. Cardinality(U) <= Rank(s, i) + 1
    BY <2>3, <2>6, <2>7
  <2>9. Cardinality(U) <= m
    BY <1>0, <2>2, <2>3, <2>8
  <2> QED
    BY <2>9 DEF U
<1> QED
  BY <1>1, <1>2

LEMMA QuickColours ==
  ASSUME NEW s, NEW t, NEW e
  PROVE  Coloured(Quick(s, t), s, e) = Taken(s, e, Count(t, e))
BY DEF Coloured, Quick, Taken, Places

LEMMA QuickFinite ==
  ASSUME NEW T, NEW s \in Seq(T), NEW t
  PROVE  IsFiniteSet(Quick(s, t)) /\ Cardinality(Quick(s, t)) \in Nat /\ Cardinality(Quick(s, t)) <= Len(s)
<1>1. Len(s) \in Nat /\ Quick(s, t) \in SUBSET 1..Len(s)
  BY DEF Quick
<1> QED
  BY <1>1, UptoNatural, FS_Subset, FS_CardinalityType

LEMMA QuickMost ==
  ASSUME NEW T, NEW s \in Seq(T), NEW t \in Seq(T)
  PROVE  QuickMatches(s, t) <= RealQuickMatches(s, t)
<1>0. Len(s) \in Nat /\ Len(t) \in Nat
  OBVIOUS
<1>1. QuickMatches(s, t) = Cardinality(Quick(s, t))
  BY <1>0, QuickIs
<1>2. IsFiniteSet(Quick(s, t)) /\ Cardinality(Quick(s, t)) \in Nat /\ Cardinality(Quick(s, t)) <= Len(s)
  BY QuickFinite
<1>3. Cardinality(Quick(s, t)) <= Len(t)
  <2>1. IsFiniteSet(1..Len(t)) /\ Cardinality(1..Len(t)) = Len(t)
    BY <1>0, UptoNatural
  <2>2. ASSUME NEW e PROVE Cardinality(Coloured(Quick(s, t), s, e)) <= Cardinality(Coloured(1..Len(t), t, e))
    <3>1. Coloured(1..Len(t), t, e) = Places(t, e)
      BY DEF Coloured, Places
    <3>2. Count(t, e) \in Nat /\ Count(t, e) = Cardinality(Places(t, e))
      BY OccursFinite
    <3>3. Cardinality(Taken(s, e, Count(t, e))) <= Count(t, e)
      BY <3>2, TakenMost
    <3> QED
      BY <3>1, <3>2, <3>3, QuickColours
  <2>3. Fewer(Quick(s, t), 1..Len(t), s, t)
    BY <1>2, <2>1, <2>2 DEF Fewer
  <2> QED
    BY <2>1, <2>3, FewerColours
<1> QED
  BY <1>0, <1>1, <1>2, <1>3 DEF RealQuickMatches, Least

\* The pairs of lines a block says are equal.
Cells(m) == {<<m.a + i, m.b + i>> : i \in 1..m.size}
CellsUpto(ms, n) == UNION {Cells(ms[k]) : k \in 1..n}

LEMMA CellsCount ==
  ASSUME NEW m, Block(m)
  PROVE  IsFiniteSet(Cells(m)) /\ Cardinality(Cells(m)) = m.size
<1>0. m.a \in Nat /\ m.b \in Nat /\ m.size \in Nat
  BY DEF Block
<1> DEFINE f == [i \in 1..m.size |-> <<m.a + i, m.b + i>>]
<1>1. f \in [1..m.size -> Cells(m)]
  BY DEF Cells
<1>2. ASSUME NEW i \in 1..m.size, NEW j \in 1..m.size, f[i] = f[j] PROVE i = j
  <2>1. <<m.a + i, m.b + i>>[1] = <<m.a + j, m.b + j>>[1]
    BY <1>2
  <2>2. m.a + i = m.a + j
    BY <2>1
  <2> QED
    BY ONLY <1>0, <2>2, i \in 1..m.size, j \in 1..m.size
<1>3. \A p \in Cells(m) : \E i \in 1..m.size : f[i] = p
  BY DEF Cells
<1> HIDE DEF f
<1>4. f \in Bijection(1..m.size, Cells(m))
  BY <1>1, <1>2, <1>3 DEF Bijection, Injection, Surjection, IsInjective
<1>5. ExistsBijection(1..m.size, Cells(m))
  BY <1>4 DEF ExistsBijection
<1> QED
  BY <1>0, <1>5, UptoNatural, FS_Bijection

\* What is known of a pair.
LEMMA CellsFacts ==
  ASSUME NEW m, Block(m), NEW p \in Cells(m)
  PROVE  /\ p \in Nat \X Nat
         /\ m.a < p[1] /\ p[1] <= m.a + m.size /\ m.b < p[2] /\ p[2] <= m.b + m.size
         /\ \E i \in 1..m.size : p = <<m.a + i, m.b + i>>
<1>0. m.a \in Nat /\ m.b \in Nat /\ m.size \in Nat
  BY DEF Block
<1>1. PICK i \in 1..m.size : p = <<m.a + i, m.b + i>>
  BY DEF Cells
<1>2. p[1] = m.a + i /\ p[2] = m.b + i
  BY <1>1
<1> QED
  BY <1>0, <1>1, <1>2

LEMMA BlocksOf ==
  ASSUME Texts, NEW ms, MatchingOk(ms), NEW n \in 1..Len(ms)
  PROVE  Block(ms[n]) /\ (n # Len(ms) => Sound(ms[n])) /\ (n = Len(ms) => ms[n].size = 0)
<1>1. (n = Len(ms) => ms[n] = Sentinel) /\ (n # Len(ms) => Sound(ms[n]))
  BY BlockBehind
<1>2. Block(Sentinel) /\ Sentinel.size = 0
  BY TextsFacts DEF Sentinel, Block
<1> QED
  BY <1>1, <1>2 DEF Sound

LEMMA BelowDiffers ==
  ASSUME NEW x \in Nat, NEW y \in Nat, NEW z \in Nat, NEW u \in Nat, x <= y, y <= z, z < u
  PROVE  x # u
OBVIOUS

LEMMA CellsApart ==
  ASSUME Texts, NEW ms, MatchingOk(ms), NEW k \in 1..Len(ms), NEW l \in 1..Len(ms), k < l,
         NEW p \in Cells(ms[k]), NEW q \in Cells(ms[l])
  PROVE  p[1] # q[1] /\ p[2] # q[2]
<1>1. Block(ms[k]) /\ Block(ms[l])
  BY BlocksOf
<1>2. p[1] \in Nat /\ p[2] \in Nat /\ p[1] <= ms[k].a + ms[k].size /\ p[2] <= ms[k].b + ms[k].size
  BY <1>1, CellsFacts
<1>3. q[1] \in Nat /\ q[2] \in Nat /\ ms[l].a < q[1] /\ ms[l].b < q[2]
  BY <1>1, CellsFacts
<1>4. ms[k].a + ms[k].size <= ms[l].a /\ ms[k].b + ms[k].size <= ms[l].b
  BY DEF MatchingOk, Precedes
<1>5. /\ ms[k].a \in Nat /\ ms[k].b \in Nat /\ ms[k].size \in Nat
      /\ ms[l].a \in Nat /\ ms[l].b \in Nat
  BY <1>1 DEF Block
<1>6. ms[k].a + ms[k].size \in Nat /\ ms[k].b + ms[k].size \in Nat
  BY <1>5
<1>7. p[1] # q[1]
  BY <1>2, <1>3, <1>4, <1>5, <1>6, BelowDiffers
<1>8. p[2] # q[2]
  BY <1>2, <1>3, <1>4, <1>5, <1>6, BelowDiffers
<1> QED
  BY <1>7, <1>8

LEMMA CellsUnique ==
  ASSUME Texts, NEW ms, MatchingOk(ms), NEW p \in CellsUpto(ms, Len(ms)), NEW q \in CellsUpto(ms, Len(ms)),
         p[1] = q[1] \/ p[2] = q[2]
  PROVE  p = q
<1>0. Len(ms) \in Nat
  BY DEF MatchingOk
<1>1. PICK k \in 1..Len(ms) : p \in Cells(ms[k])
  BY DEF CellsUpto
<1>2. PICK l \in 1..Len(ms) : q \in Cells(ms[l])
  BY DEF CellsUpto
<1>3. ~(k < l) /\ ~(l < k)
  BY <1>1, <1>2, CellsApart
<1>4. k = l
  BY <1>0, <1>3
<1> DEFINE m == ms[k]
<1>5. m.a \in Nat /\ m.b \in Nat /\ m.size \in Nat
  BY BlocksOf DEF Block
<1>6. PICK i \in 1..m.size : p = <<m.a + i, m.b + i>>
  BY <1>1 DEF Cells
<1>7. PICK j \in 1..m.size : q = <<m.a + j, m.b + j>>
  BY <1>2, <1>4 DEF Cells
<1> HIDE DEF m
<1>8. p[1] = m.a + i /\ p[2] = m.b + i /\ q[1] = m.a + j /\ q[2] = m.b + j
  BY <1>6, <1>7
<1>9. i = j
  BY <1>5, <1>8
<1> QED
  BY <1>6, <1>7, <1>9

LEMMA CellsEqual ==
  ASSUME Texts, NEW ms, MatchingOk(ms), NEW p \in CellsUpto(ms, Len(ms))
  PROVE  p[1] \in 1..Len(a) /\ p[2] \in 1..Len(b) /\ a[p[1]] = b[p[2]]
<1>0. Len(ms) \in Nat /\ Len(a) \in Nat /\ Len(b) \in Nat
  BY TextsFacts DEF MatchingOk
<1>1. PICK k \in 1..Len(ms) : p \in Cells(ms[k])
  BY DEF CellsUpto
<1> DEFINE m == ms[k]
<1>2. PICK i \in 1..m.size : p = <<m.a + i, m.b + i>>
  BY <1>1 DEF Cells
<1>3. Block(m) /\ Sound(m)
  <2>1. m.size # 0
    BY BlocksOf DEF Block
  <2> QED
    BY <2>1, BlocksOf
<1> HIDE DEF m
<1>4. /\ m.a \in Nat /\ m.b \in Nat /\ m.size \in Nat
      /\ m.a + m.size <= Len(a) /\ m.b + m.size <= Len(b)
  BY <1>3, SoundFacts
<1>5. p[1] = m.a + i /\ p[2] = m.b + i
  BY <1>2
<1>6. i - 1 \in 0 .. m.size - 1 /\ m.a + (i - 1) + 1 = m.a + i /\ m.b + (i - 1) + 1 = m.b + i
  BY <1>4
<1>7. LineAt(a, m.a + (i - 1)) = LineAt(b, m.b + (i - 1))
  BY <1>3, <1>6 DEF Sound, CommonRun
<1>8. a[m.a + i] = b[m.b + i]
  BY <1>6, <1>7 DEF LineAt
<1>9. m.a + i \in 1..Len(a)
  BY <1>0, <1>4
<1>10. m.b + i \in 1..Len(b)
  BY <1>0, <1>4
<1> QED
  BY ONLY <1>5, <1>8, <1>9, <1>10

LEMMA CellsSum ==
  ASSUME Texts, NEW ms, MatchingOk(ms), NEW G, \A k \in 1..Len(ms) : G[k] = ms[k].size, NEW F, Sums(G, Len(ms), F)
  PROVE  IsFiniteSet(CellsUpto(ms, Len(ms))) /\ Cardinality(CellsUpto(ms, Len(ms))) = F[Len(ms)]
<1>0. Len(ms) \in Nat
  BY DEF MatchingOk
<1> DEFINE U(n) == CellsUpto(ms, n)
           N == {n \in Nat : n <= Len(ms) => IsFiniteSet(U(n)) /\ Cardinality(U(n)) = F[n]}
<1>1. F[0] = 0 /\ \A k \in 1..Len(ms) : F[k] = F[k - 1] + G[k]
  BY <1>0, SumsFacts
<1>2. 0 \in N
  <2>1. U(0) = {}
    BY DEF CellsUpto
  <2> HIDE DEF U
  <2> QED
    BY <1>1, <2>1, FS_EmptySet
<1>3. ASSUME NEW n \in N PROVE n + 1 \in N
  <2>1. n \in Nat /\ n + 1 \in Nat
    OBVIOUS
  <2>2. ASSUME n + 1 <= Len(ms) PROVE IsFiniteSet(U(n + 1)) /\ Cardinality(U(n + 1)) = F[n + 1]
    <3>1. n <= Len(ms) /\ n + 1 \in 1..Len(ms) /\ n + 1 - 1 = n
      BY <1>0, <2>1, <2>2
    <3>2. IsFiniteSet(U(n)) /\ Cardinality(U(n)) = F[n]
      BY <3>1
    <3> DEFINE V == Cells(ms[n + 1])
    <3>3. IsFiniteSet(V) /\ Cardinality(V) = ms[n + 1].size
      BY <3>1, BlocksOf, CellsCount
    <3>4. U(n + 1) = U(n) \cup V
      <4>1. \A k : k \in 1 .. n + 1 <=> k \in 1..n \/ k = n + 1
        BY <2>1
      <4> QED
        BY <4>1, Zenon DEF CellsUpto
    <3>5. U(n) \cap V = {}
      <4>1. ASSUME NEW p \in U(n), p \in V PROVE FALSE
        <5>1. PICK k \in 1..n : p \in Cells(ms[k])
          BY DEF CellsUpto
        <5>2. k \in 1..Len(ms) /\ k < n + 1
          BY <1>0, <2>1, <3>1
        <5>3. p[1] # p[1]
          BY <3>1, <4>1, <5>1, <5>2, CellsApart
        <5> QED
          BY <5>3
      <4> QED
        BY <4>1
    <3> HIDE DEF U, V
    <3>6. /\ IsFiniteSet(U(n) \cup V)
          /\ Cardinality(U(n) \cup V) = Cardinality(U(n)) + Cardinality(V) - Cardinality(U(n) \cap V)
      BY <3>2, <3>3, FS_Union
    <3>7. Cardinality(U(n) \cap V) = 0
      BY <3>5, FS_EmptySet
    <3>8. Cardinality(U(n)) \in Nat /\ Cardinality(V) \in Nat
      BY <3>2, <3>3, FS_CardinalityType
    <3>9. Cardinality(U(n + 1)) = Cardinality(U(n)) + Cardinality(V)
      <4>1. Cardinality(U(n + 1)) = Cardinality(U(n)) + Cardinality(V) - 0
        BY ONLY <3>4, <3>6, <3>7
      <4> QED
        BY ONLY <3>8, <4>1
    <3>10. F[n + 1] = F[n] + G[n + 1] /\ G[n + 1] = ms[n + 1].size
      BY <1>1, <3>1
    <3> QED
      BY <3>2, <3>3, <3>4, <3>6, <3>9, <3>10
  <2> HIDE DEF U
  <2> QED
    BY <2>1, <2>2
<1>4. N \in SUBSET Nat
  OBVIOUS
<1>5. Len(ms) \in N
  <2> HIDE DEF N
  <2> QED
    BY <1>0, <1>2, <1>3, <1>4, SetInduction
<1> QED
  BY <1>0, <1>5

LEMMA TotalSizeIs ==
  ASSUME Texts, NEW ms, MatchingOk(ms)
  PROVE  IsFiniteSet(CellsUpto(ms, Len(ms))) /\ TotalSize(ms) = Cardinality(CellsUpto(ms, Len(ms)))
<1>0. Len(ms) \in Nat
  BY DEF MatchingOk
<1> DEFINE G == [k \in 1..Len(ms) |-> ms[k].size]
           F == CHOOSE F : Sums(G, Len(ms), F)
<1>1. Sums(G, Len(ms), F)
  <2> HIDE DEF G
  <2> QED
    BY <1>0, SumsExist
<1>2. \A k \in 1..Len(ms) : G[k] = ms[k].size
  OBVIOUS
<1>3. TotalSize(ms) = F[Len(ms)]
  <2>1. \A k \in 0..Len(ms) : k # 0 => G[k] = ms[k].size
    BY <1>0
  <2> HIDE DEF G
  <2>2. \A L : [k \in 0..Len(ms) |-> SumBody(G, L, k)]
             = [k \in 0..Len(ms) |-> IF k = 0 THEN 0 ELSE L[k - 1] + ms[k].size]
    BY <2>1, Zenon DEF SumBody
  <2>3. F = CHOOSE L : L = [k \in 0..Len(ms) |-> IF k = 0 THEN 0 ELSE L[k - 1] + ms[k].size]
    BY <2>2, Zenon DEF Sums
  <2> HIDE DEF F
  <2> QED
    BY <2>3, Zenon DEF TotalSize
<1> HIDE DEF F, G
<1> QED
  BY <1>1, <1>2, <1>3, CellsSum

LEMMA QuickLeast ==
  ASSUME Texts, NEW ms, MatchingOk(ms)
  PROVE  TotalSize(ms) <= QuickMatches(a, b)
<1> DEFINE P == CellsUpto(ms, Len(ms))
           f == [p \in P |-> a[p[1]]]
<1>0. PICK T : a \in Seq(T) /\ b \in Seq(T)
  BY DEF Texts
<1>1. IsFiniteSet(P) /\ TotalSize(ms) = Cardinality(P)
  BY TotalSizeIs
<1>2. QuickMatches(a, b) = Cardinality(Quick(a, b)) /\ IsFiniteSet(Quick(a, b))
  BY <1>0, QuickIs, QuickFinite
<1>3. \A p \in P : p[1] \in 1..Len(a) /\ p[2] \in 1..Len(b) /\ a[p[1]] = b[p[2]]
  BY CellsEqual
<1>4. \A p, q \in P : p[1] = q[1] \/ p[2] = q[2] => p = q
  BY CellsUnique
<1> HIDE DEF P
<1>5. ASSUME NEW e PROVE Cardinality(Coloured(P, f, e)) <= Cardinality(Coloured(Quick(a, b), a, e))
  <2> DEFINE C == Coloured(P, f, e)
             g == [p \in C |-> p[1]]
             h == [p \in C |-> p[2]]
  <2>1. \A p \in C : p \in P /\ a[p[1]] = e
    BY DEF Coloured
  <2>2. Cardinality(C) \in Nat
    BY <1>1, ColouredFinite
  <2> HIDE DEF C
  <2>3. \A p \in C : p[1] \in Places(a, e) /\ p[2] \in Places(b, e)
    BY <1>3, <2>1 DEF Places
  <2>4. g \in Injection(C, Places(a, e))
    BY <1>4, <2>1, <2>3 DEF Injection, IsInjective
  <2>5. h \in Injection(C, Places(b, e))
    BY <1>4, <2>1, <2>3 DEF Injection, IsInjective
  <2>6. /\ IsFiniteSet(Places(a, e)) /\ IsFiniteSet(Places(b, e))
        /\ Count(b, e) \in Nat /\ Count(b, e) = Cardinality(Places(b, e))
    BY <1>0, OccursFinite
  <2> HIDE DEF g, h
  <2>7. Cardinality(C) <= Cardinality(Places(a, e)) /\ Cardinality(C) <= Count(b, e)
    BY <2>4, <2>5, <2>6, FS_Injection
  <2>8. Cardinality(C) <= Cardinality(Taken(a, e, Count(b, e)))
    BY <1>0, <2>2, <2>6, <2>7, TakenLeast
  <2> QED
    BY <2>8, QuickColours DEF C
<1> HIDE DEF f
<1>6. Fewer(P, Quick(a, b), f, a)
  BY <1>1, <1>2, <1>5 DEF Fewer
<1>7. Cardinality(P) <= Cardinality(Quick(a, b))
  BY <1>6, FewerColours
<1> QED
  BY <1>1, <1>2, <1>7

LEMMA QuickBounds ==
  ASSUME Texts, matching # None => MatchingOk(matching)
  PROVE  QuickIsUpperBound
<1>1. QuickMatches(a, b) <= RealQuickMatches(a, b)
  BY QuickMost DEF Texts
<1> QED
  BY <1>1, QuickLeast DEF QuickIsUpperBound

-----------------------------------------------------------------------------
(* The calls, in any order. *)

\* What is known of each cache between two calls, and of a search that is going on.
MatcherInv ==
    /\ Texts
    /\ last # None => Longest(last.range, last.block)
    /\ queue # None => Searched(found, queue)
    /\ matching # None => MatchingOk(matching)
    /\ opcodes # None => Leads(opcodes, Len(a), Len(b)) \/ trimmed

LEMMA MatcherInvSound == ASSUME MatcherInv PROVE BlocksAreSound
<1>1. LongestIsFound
  BY DEF MatcherInv, Longest, LongestIsFound
<1>2. BlocksAdvance /\ OpcodesCover /\ QuickIsUpperBound
  BY MatchingAdvances, LeadsCover, QuickBounds DEF MatcherInv
<1> QED
  BY <1>1, <1>2 DEF BlocksAreSound

\* The texts never change, and nothing else in these facts depends on the state.
LEMMA LongestSame == ASSUME a' = a, b' = b, NEW r, NEW m, Longest(r, m) PROVE Longest(r, m)'
<1>1. (Popular(b) = {})' <=> Popular(b) = {}
  OBVIOUS
<1> QED
  BY <1>1 DEF Longest, Block, CommonRun, LineAt

LEMMA SearchedSame == ASSUME a' = a, b' = b, NEW S, NEW q, Searched(S, q) PROVE Searched(S, q)'
BY DEF Searched, Blocks, Sound, Block, CommonRun, WholeRange, LineAt, Apart, Precedes, Lined, RangeBefore, Elems,
       Open, InTexts, Corner, Closed

LEMMA MatchingSame == ASSUME a' = a, b' = b, NEW ms, MatchingOk(ms) PROVE MatchingOk(ms)'
BY DEF MatchingOk, Sentinel, Sound, Block, CommonRun, WholeRange, LineAt, Precedes, Follows, GapDiffers, EndA, EndB

LEMMA LeadsSame ==
  ASSUME a' = a, b' = b, NEW w, Leads(w, Len(a), Len(b)) PROVE Leads(w, Len(a), Len(b))'
BY DEF Leads, OpcodeRight, TagRight

LEMMA ListsStay ==
  ASSUME a' = a, b' = b
  PROVE  /\ (matching # None => MatchingOk(matching)) /\ matching' = matching => (matching # None => MatchingOk(matching))'
         /\ /\ opcodes # None => Leads(opcodes, Len(a), Len(b)) \/ trimmed
            /\ opcodes' = opcodes /\ trimmed' = trimmed
            => (opcodes # None => Leads(opcodes, Len(a), Len(b)) \/ trimmed)'
<1>1. ASSUME NEW ms, MatchingOk(ms) PROVE MatchingOk(ms)'
  BY <1>1, MatchingSame
<1>2. ASSUME NEW w, Leads(w, Len(a), Len(b)) PROVE Leads(w, Len(a), Len(b))'
  BY <1>2, LeadsSame
<1>3. ASSUME matching # None => MatchingOk(matching), matching' = matching PROVE (matching # None => MatchingOk(matching))'
  BY <1>1, <1>3
<1>4. ASSUME opcodes # None => Leads(opcodes, Len(a), Len(b)) \/ trimmed, opcodes' = opcodes, trimmed' = trimmed
      PROVE  (opcodes # None => Leads(opcodes, Len(a), Len(b)) \/ trimmed)'
  BY <1>2, <1>4
<1> QED
  BY <1>3, <1>4

LEMMA SearchKeepsInv == ASSUME MatcherInv, SearchRange PROVE MatcherInv'
<1> DEFINE r == queue[Len(queue)]
           rest == SubSeq(queue, 1, Len(queue) - 1)
<1>1. queue # None /\ queue # <<>> /\ UNCHANGED <<a, b, matching, opcodes, trimmed>>
  BY DEF SearchRange
<1>2. PICK m \in FindLongestMatch(r) :
         /\ last' = [range |-> r, block |-> m]
         /\ queue' = IF m.size = 0 THEN rest ELSE rest \o LeftPart(r, m) \o RightPart(r, m)
         /\ found' = IF m.size = 0 THEN found ELSE found \cup {m}
  BY Zenon DEF SearchRange
<1>3. Texts /\ Searched(found, queue)
  BY <1>1 DEF MatcherInv
<1>4. InTexts(r)
  <2>1. Lined(queue)
    BY <1>3 DEF Searched
  <2>2. Popped(queue, SubSeq(queue, 1, Len(queue) - 1), queue[Len(queue)])
    BY <1>1, <2>1, LastRange, Zenon
  <2>3. r \in Elems(queue)
    BY <2>2 DEF Popped
  <2> HIDE DEF r
  <2> QED
    BY <1>3, <2>3 DEF Searched, Open
<1>5. Longest(r, m)
  <2> HIDE DEF r
  <2> QED
    BY <1>3, <1>4, LongestFacts
<1>6. Searched(found', queue')
  <2>1. CASE m.size = 0
    <3>1. ASSUME NEW y, y = rest PROVE Searched(found, y)
      BY <1>1, <1>3, <1>5, <2>1, <3>1, EmptySearch
    <3>2. Searched(found, rest)
      BY <3>1
    <3> HIDE DEF r, rest
    <3> QED
      BY <1>2, <2>1, <3>2
  <2>2. CASE m.size # 0
    <3>1. m.size > 0
      BY <1>5, <2>2 DEF Longest, Block
    <3>2. ASSUME NEW x, x = r, NEW y, y = rest PROVE Searched(found \cup {m}, y \o LeftPart(x, m) \o RightPart(x, m))
      <4>1. Longest(x, m)
        BY <1>5, <3>2
      <4> QED
        BY <1>1, <1>3, <3>1, <3>2, <4>1, BlockSearch
    <3>3. Searched(found \cup {m}, rest \o LeftPart(r, m) \o RightPart(r, m))
      BY <3>2
    <3> HIDE DEF r, rest
    <3> QED
      BY <1>2, <2>2, <3>3
  <2> QED
    BY <2>1, <2>2
<1> HIDE DEF r, rest
<1>7. last'.range = r /\ last'.block = m
  BY <1>2
<1>8. Longest(last.range, last.block)'
  <2>1. ASSUME NEW x, NEW y, Longest(x, y) PROVE Longest(x, y)'
    BY <1>1, <2>1, LongestSame
  <2> QED
    BY <1>5, <1>7, <2>1
<1>9. Searched(found, queue)'
  <2>1. ASSUME NEW S, NEW q, Searched(S, q) PROVE Searched(S, q)'
    BY <1>1, <2>1, SearchedSame
  <2> QED
    BY <1>6, <2>1
<1>10. (matching # None => MatchingOk(matching))' /\ (opcodes # None => Leads(opcodes, Len(a), Len(b)) \/ trimmed)'
  BY <1>1, ListsStay DEF MatcherInv
<1>11. Texts'
  BY <1>1, <1>3 DEF Texts
<1> QED
  BY <1>8, <1>9, <1>10, <1>11 DEF MatcherInv

LEMMA MatcherSteps == MatcherInv /\ [MatcherNext]_mvars => MatcherInv'
<1>1. SUFFICES ASSUME MatcherInv, [MatcherNext]_mvars PROVE MatcherInv'
  OBVIOUS
<1>2. Texts
  BY <1>1 DEF MatcherInv
<1>3. ASSUME a' = a, b' = b, last' = last PROVE (last # None => Longest(last.range, last.block))' /\ Texts'
  <2>1. ASSUME NEW x, NEW y, Longest(x, y) PROVE Longest(x, y)'
    BY <1>3, <2>1, LongestSame
  <2>2. last # None => Longest(last.range, last.block)
    BY <1>1 DEF MatcherInv
  <2>3. Texts'
    BY <1>2, <1>3 DEF Texts
  <2> QED
    BY <1>3, <2>1, <2>2, <2>3
<1>4. ASSUME a' = a, b' = b, queue' = queue, found' = found PROVE (queue # None => Searched(found, queue))'
  <2>1. ASSUME NEW S, NEW q, Searched(S, q) PROVE Searched(S, q)'
    BY <1>4, <2>1, SearchedSame
  <2>2. queue # None => Searched(found, queue)
    BY <1>1 DEF MatcherInv
  <2> QED
    BY <1>4, <2>1, <2>2
<1>5. ASSUME a' = a, b' = b, matching' = matching PROVE (matching # None => MatchingOk(matching))'
  BY <1>1, <1>5, ListsStay DEF MatcherInv
<1>6. ASSUME a' = a, b' = b, opcodes' = opcodes, trimmed' = trimmed
      PROVE  (opcodes # None => Leads(opcodes, Len(a), Len(b)) \/ trimmed)'
  BY <1>1, <1>6, ListsStay DEF MatcherInv
<1>7. CASE UNCHANGED mvars
  BY <1>3, <1>4, <1>5, <1>6, <1>7 DEF mvars, MatcherInv
<1>8. CASE AskBlocks
  <2>1. /\ queue' = <<WholeRange>> /\ found' = {}
        /\ UNCHANGED <<a, b, last, matching, opcodes, trimmed>>
    BY <1>8 DEF AskBlocks
  <2>2. Searched({}, <<WholeRange>>)
    BY <1>2, SearchBegins
  <2>3. ASSUME NEW S, NEW q, Searched(S, q) PROVE Searched(S, q)'
    BY <2>1, <2>3, SearchedSame
  <2>4. Searched(found, queue)'
    BY <2>1, <2>2, <2>3
  <2> QED
    BY <1>3, <1>5, <1>6, <2>1, <2>4 DEF MatcherInv
<1>9. CASE SearchRange
  BY <1>1, <1>9, SearchKeepsInv
<1>10. CASE BlocksDone
  <2>1. /\ queue = <<>> /\ matching' = Collapsed(found) /\ queue' = None
        /\ UNCHANGED <<a, b, found, last, opcodes, trimmed>>
    BY <1>10 DEF BlocksDone
  <2>2. Searched(found, <<>>)
    BY <1>1, <2>1, NoListAssumption DEF MatcherInv
  <2>3. Blocks(found) /\ \A i, j : Corner(found, i, j) => Closed(found, i, j)
    BY <2>2, NoRanges DEF Searched
  <2>4. MatchingOk(Collapsed(found))
    BY <1>2, <2>3, CollapsedFacts
  <2>5. ASSUME NEW ms, MatchingOk(ms) PROVE MatchingOk(ms)'
    BY <2>1, <2>5, MatchingSame
  <2>6. MatchingOk(matching)'
    BY <2>1, <2>4, <2>5
  <2> QED
    BY <1>3, <1>6, <2>1, <2>6 DEF MatcherInv
<1>11. CASE GetOpcodes
  <2>1. /\ matching # None /\ opcodes' = OpcodesOf(matching)
        /\ UNCHANGED <<a, b, queue, found, last, matching, trimmed>>
    BY <1>11 DEF GetOpcodes
  <2>2. MatchingOk(matching)
    BY <1>1, <2>1 DEF MatcherInv
  <2>3. Leads(OpcodesOf(matching), Len(a), Len(b))
    BY <1>2, <2>2, OpcodesLead
  <2>4. ASSUME NEW w, Leads(w, Len(a), Len(b)) PROVE Leads(w, Len(a), Len(b))'
    BY <2>1, <2>4, LeadsSame
  <2>5. Leads(opcodes, Len(a), Len(b))'
    BY <2>1, <2>3, <2>4
  <2> QED
    BY <1>3, <1>4, <1>5, <2>1, <2>5 DEF MatcherInv
<1>12. ASSUME NEW n \in Contexts, GetGroupedOpcodes(n) PROVE MatcherInv'
  <2>1. trimmed' = TRUE /\ UNCHANGED <<a, b, queue, found, last, matching>>
    BY <1>12 DEF GetGroupedOpcodes
  <2> QED
    BY <1>3, <1>4, <1>5, <2>1 DEF MatcherInv
<1> QED
  BY <1>1, <1>7, <1>8, <1>9, <1>10, <1>11, <1>12 DEF MatcherNext

\* BlocksAreSound, for any two sequences, any junk limits and any order of calls: FindLongestMatch gives the
\* first longest common run, the joined blocks of GetMatchingBlocks advance and do not touch, the opcodes
\* lead through both sequences and call equal what is, and QuickRatio and RealQuickRatio bound the ratio.
THEOREM BlocksSound ==
  ASSUME NEW T, NEW s \in Seq(T), NEW t \in Seq(T) PROVE MatcherSpec(s, t) => []BlocksAreSound
<1>1. MatcherInit(s, t) => MatcherInv
  BY DEF MatcherInit, MatcherInv, Texts
<1>2. MatcherInv => BlocksAreSound
  BY MatcherInvSound
<1> QED
  BY <1>1, <1>2, MatcherSteps, PTL DEF MatcherSpec

-----------------------------------------------------------------------------
(* The hook. *)

\* A pair that was analysed is marked, and was analysed once.
OnceEach(runs, done) == DOMAIN runs \subseteq done /\ \A key \in DOMAIN runs : runs[key] = 1

HookInv == /\ OnceEach(analysed, dones)
           /\ file # None => OnceEach(file.analysed, file.dones)

LEMMA MarkedOnce == ASSUME NEW runs, NEW done, NEW key, OnceEach(runs, done), key \notin done
                    PROVE  OnceEach(With(runs, key, 1 + (IF key \in DOMAIN runs THEN runs[key] ELSE 0)), done \cup {key})
<1>1. key \notin DOMAIN runs
  BY DEF OnceEach
<1>2. 1 + (IF key \in DOMAIN runs THEN runs[key] ELSE 0) = 1
  BY <1>1
<1> QED
  BY <1>2 DEF OnceEach, With

LEMMA CallKeepsHook == ASSUME HookInv, NEW i, NEW j, NEW src, Call(i, j, src) PROVE HookInv'
<1>1. UNCHANGED file
  BY DEF Call
<1>2. \/ UNCHANGED <<dones, analysed>>
      \/ \E ratio : OnMatch(i, j, src, ratio)
  BY DEF Call, NoHook
<1>3. OnceEach(analysed', dones')
  <2>1. CASE UNCHANGED <<dones, analysed>>
    BY <2>1 DEF HookInv
  <2>2. ASSUME NEW ratio, OnMatch(i, j, src, ratio), ~UNCHANGED <<dones, analysed>> PROVE OnceEach(analysed', dones')
    <3> DEFINE key == HookKey(Main(i), Diff(j), src)
    <3>1. /\ key \notin dones /\ dones' = dones \cup {key}
          /\ analysed' = With(analysed, key, 1 + (IF key \in DOMAIN analysed THEN analysed[key] ELSE 0))
      BY <2>2 DEF OnMatch
    <3> HIDE DEF key
    <3> QED
      BY <3>1, MarkedOnce DEF HookInv
  <2> QED
    BY <1>2, <2>1, <2>2
<1> QED
  BY <1>1, <1>3 DEF HookInv

\* HookOncePerPair, for any tables and any number of calls and resumes: PatchDiffHookOnMatch analyses a
\* pair of names at most once, because a checkpoint carries the marks with the cache.
THEOREM HookOnce == ASSUME NEW t PROVE RatioSpec(t) => []HookOncePerPair
<1>1. RatioInit(t) => HookInv
  BY DEF RatioInit, HookInv, OnceEach
<1>2. HookInv /\ [RatioNext]_rvars => HookInv'
  <2>1. SUFFICES ASSUME HookInv, [RatioNext]_rvars PROVE HookInv'
    OBVIOUS
  <2>2. CASE UNCHANGED rvars
    BY <2>1, <2>2 DEF rvars, HookInv
  <2>3. ASSUME NEW i, NEW j, CheckRatio(i, j) PROVE HookInv'
    BY <2>1, <2>3, CallKeepsHook DEF CheckRatio
  <2>4. ASSUME NEW i, NEW j, CompareFunctionRows(i, j) PROVE HookInv'
    <3>1. CASE Main(i).eaBlob \/ Diff(j).eaBlob
      BY <2>1, <2>4, <3>1 DEF CompareFunctionRows, HookInv
    <3>2. CASE ~(Main(i).eaBlob \/ Diff(j).eaBlob)
      BY <2>1, <2>4, <3>2, CallKeepsHook DEF CompareFunctionRows
    <3> QED
      BY <3>1, <3>2
  <2>5. CASE CaptureCheckpoint
    BY <2>1, <2>5 DEF CaptureCheckpoint, HookInv
  <2>6. CASE Snapshot
    BY <2>1, <2>6 DEF Snapshot, HookInv, OnceEach
  <2>7. CASE RestoreCheckpoint
    BY <2>1, <2>7 DEF RestoreCheckpoint, HookInv
  <2>8. CASE RestoreSnapshot
    BY <2>1, <2>8 DEF RestoreSnapshot, HookInv
  <2> QED
    BY <2>1, <2>2, <2>3, <2>4, <2>5, <2>6, <2>7, <2>8 DEF RatioNext
<1>3. HookInv => HookOncePerPair
  BY DEF HookInv, OnceEach, HookOncePerPair
<1> QED
  BY <1>1, <1>2, <1>3, PTL DEF RatioSpec

-----------------------------------------------------------------------------
(* The texts of the keys. *)

LEMMA NoneTextIsText == NoneText \in Seq(Characters) /\ <<"-">> \in Seq(Characters)
  BY RatioConstants DEF NoneText

LEMMA KeyTexts == ASSUME NEW ea \in Addrs PROVE AddrKeyText(ea) \in Seq(Characters)
  BY NoneTextIsText DEF AddrKeyText, Addrs

\* The characters of s, two texts joined by a dash.
JoinedBy(s, x, y) == /\ s \in Seq(Characters) /\ Len(s) = Len(x) + 1 + Len(y)
                     /\ \A i \in 1..Len(x) : s[i] = x[i]
                     /\ s[Len(x) + 1] = "-"
                     /\ \A i \in 1..Len(y) : s[Len(x) + 1 + i] = y[i]

LEMMA Joined == ASSUME NEW x \in Seq(Characters), NEW y \in Seq(Characters)
                PROVE  JoinedBy(x \o <<"-">> \o y, x, y)
<1> DEFINE s == x \o <<"-">>
<1>1. <<"-">> \in Seq(Characters) /\ Len(<<"-">>) = 1 /\ <<"-">>[1] = "-"
  BY NoneTextIsText
<1> HIDE DEF s
<1>2. s \in Seq(Characters) /\ Len(s) = Len(x) + 1 /\ \A i \in 1..Len(s) : s[i] = IF i <= Len(x) THEN x[i] ELSE <<"-">>[i - Len(x)]
  BY <1>1, ConcatProperties DEF s
<1>3. s \o y \in Seq(Characters) /\ Len(s \o y) = Len(s) + Len(y)
      /\ \A i \in 1..(Len(s) + Len(y)) : (s \o y)[i] = IF i <= Len(s) THEN s[i] ELSE y[i - Len(s)]
  <2>1. s \in Seq(Characters)
    BY <1>2
  <2> QED
    BY <2>1, ConcatProperties, Zenon
<1>4. Len(x) \in Nat /\ Len(y) \in Nat
  OBVIOUS
<1>5. \A i \in 1..Len(x) : (s \o y)[i] = x[i]
  BY <1>2, <1>3, <1>4
<1>6. (s \o y)[Len(x) + 1] = "-"
  BY <1>1, <1>2, <1>3, <1>4
<1>7. \A i \in 1..Len(y) : (s \o y)[Len(x) + 1 + i] = y[i]
  BY <1>2, <1>3, <1>4
<1> QED
  BY <1>2, <1>3, <1>4, <1>5, <1>6, <1>7 DEF s, JoinedBy

\* A key that ids stand for is the key of one pair of addresses only.
LEMMA SimpleKeyUnique ==
  ASSUME NEW a1 \in Addrs, NEW a2 \in Addrs, NEW b1 \in Addrs, NEW b2 \in Addrs,
         ByIds(a1, a2), TextKey(a1, a2) = TextKey(b1, b2)
  PROVE  b1 = a1 /\ b2 = a2
<1> DEFINE x == AddrKeyText(b1)
           y == AddrKeyText(b2)
           K == TextKey(a1, a2)
<1>1. /\ a1 \in Seq(Characters) /\ a2 \in Seq(Characters) /\ x \in Seq(Characters) /\ y \in Seq(Characters)
      /\ K = a1 \o <<"-">> \o a2 /\ K = x \o <<"-">> \o y
  BY KeyTexts DEF ByIds, SimpleAddr, Addrs, TextKey, AddrKeyText
<1>2. /\ \A i \in 1..Len(a1) : a1[i] # "-"
      /\ \A i \in 1..Len(a2) : a2[i] # "-"
      /\ a1 # NoneText /\ a2 # NoneText
  BY <1>1 DEF ByIds, SimpleAddr
<1> HIDE DEF x, y, K
<1>3. Len(a1) \in Nat /\ Len(a2) \in Nat /\ Len(x) \in Nat /\ Len(y) \in Nat
  BY <1>1
<1>4. /\ Len(K) = Len(a1) + 1 + Len(a2)
      /\ \A i \in 1..Len(a1) : K[i] = a1[i]
      /\ \A i \in 1..Len(a2) : K[Len(a1) + 1 + i] = a2[i]
  <2>1. JoinedBy(K, a1, a2)
    BY <1>1, Joined, Zenon
  <2> QED
    BY <2>1 DEF JoinedBy
<1>5. /\ Len(K) = Len(x) + 1 + Len(y)
      /\ \A i \in 1..Len(x) : K[i] = x[i]
      /\ K[Len(x) + 1] = "-"
      /\ \A i \in 1..Len(y) : K[Len(x) + 1 + i] = y[i]
  <2>1. JoinedBy(K, x, y)
    BY <1>1, Joined, Zenon
  <2> QED
    BY <2>1 DEF JoinedBy
<1>6. Len(x) = Len(a1)
  <2>1. ASSUME Len(x) < Len(a1) PROVE FALSE
    <3>1. Len(x) + 1 \in 1..Len(a1)
      BY <1>3, <2>1
    <3>2. K[Len(x) + 1] = a1[Len(x) + 1] /\ a1[Len(x) + 1] # "-"
      BY <3>1, <1>2, <1>4
    <3> QED
      BY <3>2, <1>5
  <2>2. ASSUME Len(x) > Len(a1) PROVE FALSE
    <3>1. Len(x) - Len(a1) \in 1..Len(a2) /\ Len(a1) + 1 + (Len(x) - Len(a1)) = Len(x) + 1
      BY <1>3, <1>4, <1>5, <2>2
    <3>2. \A j \in 1..Len(a2) : K[Len(a1) + 1 + j] # "-"
      BY <1>2, <1>4
    <3> QED
      BY <3>1, <3>2, <1>5
  <2> QED
    BY <1>3, <2>1, <2>2
<1>7. x = a1
  BY <1>1, <1>3, <1>4, <1>5, <1>6, SeqEqual
<1>8. y = a2
  <2>1. Len(y) = Len(a2)
    BY <1>3, <1>4, <1>5, <1>6
  <2>2. \A i \in 1..Len(a2) : y[i] = a2[i]
    BY <2>1, <1>4, <1>5, <1>6
  <2> QED
    BY <1>1, <2>1, <2>2, SeqEqual
<1> QED
  BY <1>2, <1>7, <1>8 DEF x, y, AddrKeyText

-----------------------------------------------------------------------------
(* The cache and the dictionary. *)

\* The cache c = [id, text, all] has for every pair of addresses what the dictionary d has for its key.
SameAnswer(c, d, a1, a2) ==
    IF ByIds(a1, a2)
    THEN /\ <<a1, a2>> \in DOMAIN c.id <=> TextKey(a1, a2) \in DOMAIN d
         /\ <<a1, a2>> \in DOMAIN c.id => c.id[<<a1, a2>>] = d[TextKey(a1, a2)]
    ELSE /\ TextKey(a1, a2) \in DOMAIN c.text <=> TextKey(a1, a2) \in DOMAIN d
         /\ TextKey(a1, a2) \in DOMAIN c.text => c.text[TextKey(a1, a2)] = d[TextKey(a1, a2)]

Agrees(c, d) == \A a1, a2 \in Addrs : SameAnswer(c, d, a1, a2)

\* The entries es name every key of d with its value, and no other.
EntryKey(e) == TextKey(e.ea1, e.ea2)
IsList(es) == es \in Seq({es[k] : k \in DOMAIN es})
Lists(es, d) == /\ IsList(es)
                /\ \A k \in DOMAIN es : /\ es[k].ea1 \in Addrs /\ es[k].ea2 \in Addrs
                                        /\ EntryKey(es[k]) \in DOMAIN d /\ d[EntryKey(es[k])] = es[k].ratio
                /\ \A key \in DOMAIN d : \E k \in DOMAIN es : key = EntryKey(es[k])

\* The dictionary after a ratio was computed.
DictStore(d, key, ratio) == IF key \in DOMAIN d THEN d ELSE With(d, key, ratio)

InStep(c, d) == Agrees(c, d) /\ Lists(c.all, d)

LEMMA EmptyInStep == ASSUME NEW d, DOMAIN d = {} PROVE InStep(NoCache, d)
<1>1. Agrees(NoCache, d)
  BY DEF Agrees, SameAnswer, NoCache
<1>2. Lists(<<>>, d)
  BY DEF Lists, IsList
<1> QED
  BY <1>1, <1>2 DEF InStep, NoCache

LEMMA ListGrows == ASSUME NEW es, NEW e, IsList(es)
                   PROVE  /\ IsList(Append(es, e)) /\ Len(es) \in Nat /\ DOMAIN es = 1..Len(es)
                          /\ DOMAIN Append(es, e) = 1..(Len(es) + 1)
                          /\ \A k \in DOMAIN es : Append(es, e)[k] = es[k]
                          /\ Append(es, e)[Len(es) + 1] = e
<1> DEFINE S == {es[k] : k \in DOMAIN es} \cup {e}
           T == Append(es, e)
<1>1. es \in Seq({es[k] : k \in DOMAIN es})
  BY DEF IsList
<1>2. Len(es) \in Nat /\ DOMAIN es = 1..Len(es) /\ \A k \in 1..Len(es) : es[k] \in S
  BY <1>1
<1>3. es \in Seq(S)
  BY <1>1
<1> HIDE DEF S
<1>4. e \in S
  BY DEF S
<1>5. /\ T \in Seq(S) /\ Len(T) = Len(es) + 1 /\ \A i \in 1..Len(es) : T[i] = es[i]
      /\ T[Len(es) + 1] = e
  BY <1>3, <1>4
<1>6. DOMAIN T = 1..(Len(es) + 1)
  BY <1>5
<1> HIDE DEF T
<1>7. IsList(T)
  <2>1. T = [k \in 1..(Len(es) + 1) |-> T[k]]
    BY <1>5, <1>6
  <2>2. T \in Seq({T[k] : k \in DOMAIN T})
    <3> DEFINE R == {T[k] : k \in DOMAIN T}
    <3>1. Len(es) + 1 \in Nat /\ T \in [1..(Len(es) + 1) -> R]
      BY <1>2, <1>6, <2>1
    <3> HIDE DEF R
    <3>2. T \in Seq(R)
      BY <3>1
    <3> QED
      BY <3>2 DEF R
  <2> QED
    BY <2>2 DEF IsList
<1> QED
  BY <1>2, <1>5, <1>6, <1>7 DEF T

\* Store and the dictionary stay in step, whether the pair was known or not.
LEMMA StoreInStep ==
  ASSUME NEW c, NEW d, NEW a1 \in Addrs, NEW a2 \in Addrs, NEW ratio, InStep(c, d)
  PROVE  InStep(Store(c, a1, a2, ratio), DictStore(d, TextKey(a1, a2), ratio))
<1> DEFINE key == TextKey(a1, a2)
           new == IF ByIds(a1, a2) THEN <<a1, a2>> \notin DOMAIN c.id ELSE key \notin DOMAIN c.text
           s == Store(c, a1, a2, ratio)
           e == [ea1 |-> a1, ea2 |-> a2, ratio |-> ratio]
<1>1. SameAnswer(c, d, a1, a2)
  BY DEF InStep, Agrees
<1>2. new <=> key \notin DOMAIN d
  BY <1>1 DEF SameAnswer
<1>3. CASE key \in DOMAIN d
  <2>1. s = c
    BY <1>2, <1>3 DEF Store
  <2> QED
    BY <1>3, <2>1 DEF DictStore
<1>4. CASE key \notin DOMAIN d
  <2> DEFINE d2 == With(d, key, ratio)
  <2>1. /\ s.id = IF ByIds(a1, a2) THEN With(c.id, <<a1, a2>>, ratio) ELSE c.id
        /\ s.text = IF ByIds(a1, a2) THEN c.text ELSE With(c.text, key, ratio)
        /\ s.all = Append(c.all, e)
    BY <1>2, <1>4 DEF Store
  <2>2. DOMAIN d2 = DOMAIN d \cup {key} /\ d2[key] = ratio /\ \A x \in DOMAIN d : d2[x] = d[x]
    BY <1>4 DEF With
  <2> HIDE DEF s, e, d2
  <2>3. ASSUME NEW b1 \in Addrs, NEW b2 \in Addrs PROVE SameAnswer(s, d2, b1, b2)
    <3> DEFINE bk == TextKey(b1, b2)
    <3>1. SameAnswer(c, d, b1, b2)
      BY DEF InStep, Agrees
    <3>2. CASE bk = key /\ ByIds(a1, a2)
      <4>1. b1 = a1 /\ b2 = a2
        BY <3>2, SimpleKeyUnique
      <4>2. <<a1, a2>> \in DOMAIN s.id /\ s.id[<<a1, a2>>] = ratio
        BY <2>1, <3>2 DEF With
      <4> QED
        BY <2>2, <3>2, <4>1, <4>2 DEF SameAnswer
    <3>3. CASE bk = key /\ ~ByIds(a1, a2)
      <4>1. ~ByIds(b1, b2)
        BY <3>3, SimpleKeyUnique
      <4>2. key \in DOMAIN s.text /\ s.text[key] = ratio
        BY <2>1, <3>3 DEF With
      <4> QED
        BY <2>2, <3>3, <4>1, <4>2 DEF SameAnswer
    <3>4. CASE bk # key
      <4>1. <<b1, b2>> # <<a1, a2>>
        BY <3>4
      <4>2. bk \in DOMAIN d2 <=> bk \in DOMAIN d
        BY <2>2, <3>4
      <4>3. CASE ByIds(b1, b2)
        <5>1. /\ <<b1, b2>> \in DOMAIN s.id <=> <<b1, b2>> \in DOMAIN c.id
              /\ <<b1, b2>> \in DOMAIN s.id => s.id[<<b1, b2>>] = c.id[<<b1, b2>>]
          BY <2>1, <4>1 DEF With
        <5> QED
          BY <2>2, <3>1, <4>2, <4>3, <5>1 DEF SameAnswer
      <4>4. CASE ~ByIds(b1, b2)
        <5>1. /\ bk \in DOMAIN s.text <=> bk \in DOMAIN c.text
              /\ bk \in DOMAIN s.text => s.text[bk] = c.text[bk]
          BY <2>1, <3>4 DEF With
        <5> QED
          BY <2>2, <3>1, <4>2, <4>4, <5>1 DEF SameAnswer
      <4> QED
        BY <4>3, <4>4
    <3> QED
      BY <3>2, <3>3, <3>4
  <2>4. Lists(s.all, d2)
    <3> DEFINE es == c.all
               fs == s.all
    <3>1. Lists(es, d) /\ IsList(es)
      BY DEF InStep, Lists
    <3>2. fs = Append(es, e)
      BY <2>1
    <3> HIDE DEF es, fs
    <3>3. /\ IsList(fs) /\ DOMAIN fs = DOMAIN es \cup {Len(es) + 1}
          /\ fs[Len(es) + 1] = e /\ \A k \in DOMAIN es : fs[k] = es[k]
      BY <3>1, <3>2, ListGrows
    <3>4. e.ea1 = a1 /\ e.ea2 = a2 /\ e.ratio = ratio /\ EntryKey(e) = key
      BY DEF e, EntryKey
    <3>5. ASSUME NEW k \in DOMAIN fs
          PROVE  /\ fs[k].ea1 \in Addrs /\ fs[k].ea2 \in Addrs
                 /\ EntryKey(fs[k]) \in DOMAIN d2 /\ d2[EntryKey(fs[k])] = fs[k].ratio
      <4>1. CASE k \in DOMAIN es
        BY <2>2, <3>1, <3>3, <4>1 DEF Lists
      <4>2. CASE k = Len(es) + 1
        BY <2>2, <3>3, <3>4, <4>2
      <4> QED
        BY <3>3, <4>1, <4>2
    <3>6. ASSUME NEW x \in DOMAIN d2 PROVE \E k \in DOMAIN fs : x = EntryKey(fs[k])
      <4>1. CASE x = key
        BY <3>3, <3>4, <4>1
      <4>2. CASE x \in DOMAIN d
        BY <3>1, <3>3, <4>2 DEF Lists
      <4> QED
        BY <2>2, <4>1, <4>2
    <3>7. Lists(fs, d2)
      BY <3>3, <3>5, <3>6 DEF Lists
    <3> QED
      BY <3>7 DEF fs
  <2>5. InStep(s, d2)
    BY <2>3, <2>4 DEF InStep, Agrees
  <2> QED
    BY <1>4, <2>5 DEF DictStore, s, d2
<1> QED
  BY <1>3, <1>4

-----------------------------------------------------------------------------
(* Seeding a cache. *)

Seeding(g, es, n) == g = [k \in 0..n |-> IF k = 0 THEN NoCache
                                         ELSE Store(g[k - 1], es[k].ea1, es[k].ea2, es[k].ratio)]

LEMMA SeedingExists == ASSUME NEW es, NEW n \in Nat PROVE \E g : Seeding(g, es, n)
<1> DEFINE S == {k \in Nat : \E g : Seeding(g, es, k)}
<1>1. 0 \in S
  <2> DEFINE g == [k \in 0..0 |-> NoCache]
  <2>1. Seeding(g, es, 0)
    BY DEF Seeding
  <2> QED
    BY <2>1
<1>2. ASSUME NEW m \in S PROVE m + 1 \in S
  <2>1. PICK g : Seeding(g, es, m)
    OBVIOUS
  <2> DEFINE h == [k \in 0..(m + 1) |-> IF k <= m THEN g[k]
                                        ELSE Store(g[m], es[m + 1].ea1, es[m + 1].ea2, es[m + 1].ratio)]
  <2>2. m \in Nat /\ m + 1 \in Nat
    OBVIOUS
  <2> HIDE DEF S
  <2>3. \A k \in 0..m : h[k] = g[k]
    BY <2>2
  <2>4. ASSUME NEW k \in 0..(m + 1)
        PROVE  h[k] = IF k = 0 THEN NoCache ELSE Store(h[k - 1], es[k].ea1, es[k].ea2, es[k].ratio)
    <3>1. CASE k \in 0..m
      <4>1. g[k] = IF k = 0 THEN NoCache ELSE Store(g[k - 1], es[k].ea1, es[k].ea2, es[k].ratio)
        BY <2>1, <3>1 DEF Seeding
      <4>2. k # 0 => k - 1 \in 0..m
        BY <2>2, <3>1
      <4> HIDE DEF h
      <4>3. k # 0 => h[k - 1] = g[k - 1]
        BY <2>3, <4>2
      <4> QED
        BY <2>3, <3>1, <4>1, <4>3
    <3>2. CASE k = m + 1
      <4>1. k # 0 /\ k - 1 = m /\ m \in 0..m /\ ~(k <= m)
        BY <2>2, <3>2
      <4>2. h[k] = Store(g[m], es[m + 1].ea1, es[m + 1].ea2, es[m + 1].ratio)
        BY <4>1
      <4>3. h[k - 1] = g[m]
        BY <2>3, <4>1
      <4> HIDE DEF h
      <4> QED
        BY <3>2, <4>1, <4>2, <4>3
    <3> QED
      BY <2>2, <3>1, <3>2
  <2>5. h = [k \in 0..(m + 1) |-> h[k]]
    OBVIOUS
  <2> HIDE DEF h
  <2>6. Seeding(h, es, m + 1)
    BY <2>4, <2>5 DEF Seeding
  <2> QED
    BY <2>2, <2>6 DEF S
<1>3. S \in SUBSET Nat
  OBVIOUS
<1> HIDE DEF S
<1>4. n \in S
  BY <1>1, <1>2, <1>3, SetInduction
<1> QED
  BY <1>4 DEF S

LEMMA SeedingOf == ASSUME NEW es, Len(es) \in Nat PROVE \E g : Seeding(g, es, Len(es)) /\ Seeded(es) = g[Len(es)]
<1> DEFINE g == CHOOSE g : Seeding(g, es, Len(es))
<1>1. Seeding(g, es, Len(es))
  BY SeedingExists
<1>2. Seeded(es) = g[Len(es)]
  BY DEF Seeded, Seeding
<1> QED
  BY <1>1, <1>2

\* The part of the dictionary d that the first k entries name.
PartOf(es, d, k) == [x \in {EntryKey(es[j]) : j \in 1..k} |-> d[x]]

LEMMA PartGrows ==
  ASSUME NEW es, NEW d, Lists(es, d), NEW k \in Nat, k + 1 \in DOMAIN es
  PROVE  PartOf(es, d, k + 1) = DictStore(PartOf(es, d, k), EntryKey(es[k + 1]), es[k + 1].ratio)
<1> DEFINE key == EntryKey(es[k + 1])
           old == {EntryKey(es[j]) : j \in 1..k}
           all == {EntryKey(es[j]) : j \in 1..(k + 1)}
<1>1. all = old \cup {key}
  <2>1. 1..(k + 1) = 1..k \cup {k + 1}
    OBVIOUS
  <2> QED
    BY <2>1
<1>2. d[key] = es[k + 1].ratio
  BY DEF Lists
<1>3. PartOf(es, d, k + 1) = [x \in all |-> d[x]] /\ PartOf(es, d, k) = [x \in old |-> d[x]]
  BY DEF PartOf
<1> HIDE DEF old, all, key
<1>4. CASE key \in old
  <2>1. all = old
    BY <1>1, <1>4
  <2>2. DictStore([x \in old |-> d[x]], key, es[k + 1].ratio) = [x \in old |-> d[x]]
    BY <1>4 DEF DictStore
  <2> QED
    BY <1>3, <2>1, <2>2 DEF key
<1>5. CASE key \notin old
  <2>1. DictStore([x \in old |-> d[x]], key, es[k + 1].ratio)
          = [x \in old \cup {key} |-> IF x = key THEN es[k + 1].ratio ELSE [y \in old |-> d[y]][x]]
    BY <1>5 DEF DictStore, With
  <2>2. \A x \in old \cup {key} : (IF x = key THEN es[k + 1].ratio ELSE [y \in old |-> d[y]][x]) = d[x]
    BY <1>2
  <2>3. DictStore([x \in old |-> d[x]], key, es[k + 1].ratio) = [x \in all |-> d[x]]
    BY <1>1, <2>1, <2>2
  <2> QED
    BY <1>3, <2>3 DEF key
<1> QED
  BY <1>4, <1>5

\* A cache seeded with the entries of a dictionary answers as the dictionary.
LEMMA SeededInStep == ASSUME NEW es, NEW d, Lists(es, d) PROVE InStep(Seeded(es), d)
<1>1. Len(es) \in Nat /\ DOMAIN es = 1..Len(es)
  BY ListGrows DEF Lists
<1>2. PICK g : Seeding(g, es, Len(es)) /\ Seeded(es) = g[Len(es)]
  BY <1>1, SeedingOf
<1> DEFINE S == {k \in Nat : k <= Len(es) => InStep(g[k], PartOf(es, d, k))}
<1>3. 0 \in S
  <2>1. g[0] = NoCache
    BY <1>1, <1>2 DEF Seeding
  <2>2. DOMAIN PartOf(es, d, 0) = {}
    BY DEF PartOf
  <2> QED
    BY <2>1, <2>2, EmptyInStep
<1>4. ASSUME NEW k \in S PROVE k + 1 \in S
  <2>1. SUFFICES ASSUME k + 1 <= Len(es) PROVE InStep(g[k + 1], PartOf(es, d, k + 1))
    OBVIOUS
  <2>2. k \in Nat /\ k + 1 \in DOMAIN es /\ k + 1 \in 0..Len(es) /\ k + 1 # 0 /\ k + 1 - 1 = k
    BY <1>1, <2>1
  <2>3. InStep(g[k], PartOf(es, d, k))
    BY <1>1, <2>1, <2>2
  <2> HIDE DEF S
  <2> DEFINE e == es[k + 1]
  <2>4. g[k + 1] = Store(g[k], e.ea1, e.ea2, e.ratio)
    BY <1>2, <2>2 DEF Seeding
  <2>5. e.ea1 \in Addrs /\ e.ea2 \in Addrs
    BY <2>2 DEF Lists
  <2>6. PartOf(es, d, k + 1) = DictStore(PartOf(es, d, k), TextKey(e.ea1, e.ea2), e.ratio)
    BY <2>2, PartGrows DEF EntryKey
  <2> HIDE DEF e
  <2> QED
    BY <2>3, <2>4, <2>5, <2>6, StoreInStep
<1>5. S \in SUBSET Nat
  OBVIOUS
<1> HIDE DEF S
<1>6. Len(es) \in S
  BY <1>1, <1>3, <1>4, <1>5, SetInduction
<1>7. InStep(g[Len(es)], PartOf(es, d, Len(es)))
  BY <1>1, <1>6 DEF S
<1> DEFINE p == PartOf(es, d, Len(es))
<1>8. DOMAIN p = DOMAIN d /\ \A x \in DOMAIN d : p[x] = d[x]
  <2>1. {EntryKey(es[j]) : j \in 1..Len(es)} = DOMAIN d
    BY <1>1 DEF Lists
  <2> QED
    BY <2>1 DEF PartOf
<1> HIDE DEF p
<1>9. ASSUME NEW c, InStep(c, p) PROVE InStep(c, d)
  <2>1. Agrees(c, d)
    <3>1. ASSUME NEW a1 \in Addrs, NEW a2 \in Addrs PROVE SameAnswer(c, d, a1, a2)
      <4>1. SameAnswer(c, p, a1, a2)
        BY <1>9 DEF InStep, Agrees
      <4> QED
        BY <1>8, <4>1 DEF SameAnswer
    <3> QED
      BY <3>1 DEF Agrees
  <2>2. Lists(c.all, d)
    BY <1>8, <1>9 DEF InStep, Lists
  <2> QED
    BY <2>1, <2>2 DEF InStep
<1> QED
  BY <1>2, <1>7, <1>9 DEF p

-----------------------------------------------------------------------------
(* The keys of a snapshot. *)

\* Wherever SplitKey cuts a key, the halves join to the key again.
LEMMA SplitJoins ==
  ASSUME NEW key \in Seq(Characters), \E d \in DOMAIN key : key[d] = "-"
  PROVE  /\ SplitKey(key).ea1 \in Addrs /\ SplitKey(key).ea2 \in Addrs
         /\ TextKey(SplitKey(key).ea1, SplitKey(key).ea2) = key
<1> DEFINE dashes == {d \in DOMAIN key : key[d] = "-"}
           Left(d) == SubSeq(key, 1, d - 1)
           Right(d) == SubSeq(key, d + 1, Len(key))
           fitting == {d \in dashes : Known(tables.main, Left(d)) /\ Known(tables.diff, Right(d))}
           from == IF fitting # {} THEN fitting ELSE dashes
           cut == CHOOSE d \in from : \A e \in from : d <= e
<1>1. from # {} /\ from \subseteq dashes /\ from \in SUBSET Nat
  OBVIOUS
<1> DEFINE x == Left(cut)
           y == Right(cut)
<1>2. SplitKey(key).ea1 = x /\ SplitKey(key).ea2 = y
  BY DEF SplitKey
<1> HIDE DEF from, fitting
<1>3. cut \in from
  BY <1>1, LeastNatural
<1> HIDE DEF cut
<1>4. cut \in 1..Len(key) /\ key[cut] = "-" /\ Len(key) \in Nat
  BY <1>1, <1>3
<1>5. /\ x \in Seq(Characters) /\ Len(x) = cut - 1
      /\ \A i \in 1..(cut - 1) : x[i] = key[i]
  <2>1. 1 \in 1..(Len(key) + 1) /\ cut - 1 \in 0..Len(key)
    BY <1>4
  <2> QED
    BY <1>4, <2>1
<1>6. /\ y \in Seq(Characters) /\ Len(y) = Len(key) - cut
      /\ \A i \in 1..(Len(key) - cut) : y[i] = key[cut + i]
  BY <1>4
<1> HIDE DEF x, y
<1> DEFINE s == x \o <<"-">> \o y
<1>7. JoinedBy(s, x, y)
  BY <1>5, <1>6, Joined, Zenon
<1> HIDE DEF s
<1>8. s \in Seq(Characters) /\ Len(s) = Len(key)
  BY <1>4, <1>5, <1>6, <1>7 DEF JoinedBy
<1>9. ASSUME NEW i \in 1..Len(key) PROVE s[i] = key[i]
  <2>1. CASE i < cut
    <3>1. i \in 1..Len(x) /\ i \in 1..(cut - 1)
      BY <1>4, <1>5, <2>1
    <3> QED
      BY <3>1, <1>5, <1>7 DEF JoinedBy
  <2>2. CASE i = cut
    <3>1. Len(x) + 1 = i
      BY <1>4, <1>5, <2>2
    <3> QED
      BY <3>1, <1>4, <1>7, <2>2 DEF JoinedBy
  <2>3. CASE i > cut
    <3>1. /\ i - cut \in 1..Len(y) /\ i - cut \in 1..(Len(key) - cut)
          /\ Len(x) + 1 + (i - cut) = i /\ cut + (i - cut) = i
      BY <1>4, <1>5, <1>6, <2>3
    <3>2. s[Len(x) + 1 + (i - cut)] = y[i - cut]
      BY <3>1, <1>7 DEF JoinedBy
    <3>3. y[i - cut] = key[cut + (i - cut)]
      BY <3>1, <1>6
    <3> QED
      BY <3>1, <3>2, <3>3
  <2> QED
    BY <1>4, <2>1, <2>2, <2>3
<1>10. s = key
  BY <1>8, <1>9, SeqEqual
<1>11. x \in Addrs /\ y \in Addrs /\ x # None /\ y # None
  BY <1>5, <1>6, RatioConstants DEF Addrs
<1>12. TextKey(x, y) = key
  BY <1>10, <1>11 DEF TextKey, AddrKeyText, s
<1> QED
  BY <1>2, <1>11, <1>12

\* The entries of a snapshot, each a key with its ratio.
SnapLists(cs, d) == /\ IsList(cs)
                    /\ \A k \in DOMAIN cs : /\ \E a1, a2 \in Addrs : cs[k].key = TextKey(a1, a2)
                                            /\ cs[k].key \in DOMAIN d /\ d[cs[k].key] = cs[k].ratio
                    /\ \A key \in DOMAIN d : \E k \in DOMAIN cs : key = cs[k].key

LEMMA SplitLists == ASSUME NEW cs, NEW d, SnapLists(cs, d)
                    PROVE  Lists([k \in DOMAIN cs |-> SplitEntry(cs[k])], d)
<1> DEFINE es == [k \in DOMAIN cs |-> SplitEntry(cs[k])]
<1>1. ASSUME NEW k \in DOMAIN cs
      PROVE  /\ SplitEntry(cs[k]).ea1 \in Addrs /\ SplitEntry(cs[k]).ea2 \in Addrs
             /\ EntryKey(SplitEntry(cs[k])) = cs[k].key /\ SplitEntry(cs[k]).ratio = cs[k].ratio
  <2> DEFINE key == cs[k].key
  <2>1. PICK a1 \in Addrs, a2 \in Addrs : key = TextKey(a1, a2)
    BY DEF SnapLists
  <2> HIDE DEF key
  <2>2. key = AddrKeyText(a1) \o <<"-">> \o AddrKeyText(a2)
    BY <2>1 DEF TextKey
  <2>3. JoinedBy(key, AddrKeyText(a1), AddrKeyText(a2)) /\ AddrKeyText(a1) \in Seq(Characters) /\ AddrKeyText(a2) \in Seq(Characters)
    BY <2>2, KeyTexts, Joined
  <2> DEFINE n == Len(AddrKeyText(a1))
             m == Len(AddrKeyText(a2))
  <2>4. n \in Nat /\ m \in Nat
    BY <2>3
  <2> HIDE DEF n, m
  <2>5. key \in Seq(Characters) /\ Len(key) = n + 1 + m /\ key[n + 1] = "-"
    BY <2>3 DEF JoinedBy, n, m
  <2>6. n + 1 \in DOMAIN key
    BY <2>4, <2>5
  <2>7. /\ SplitKey(key).ea1 \in Addrs /\ SplitKey(key).ea2 \in Addrs
        /\ TextKey(SplitKey(key).ea1, SplitKey(key).ea2) = key
    BY <2>5, <2>6, SplitJoins
  <2>8. /\ SplitEntry(cs[k]).ea1 = SplitKey(key).ea1 /\ SplitEntry(cs[k]).ea2 = SplitKey(key).ea2
        /\ SplitEntry(cs[k]).ratio = cs[k].ratio
    BY DEF SplitEntry, key
  <2> QED
    BY <2>7, <2>8 DEF EntryKey, key
<1>2. DOMAIN es = DOMAIN cs /\ \A k \in DOMAIN cs : es[k] = SplitEntry(cs[k])
  OBVIOUS
<1>3. IsList(es)
  <2>1. Len(cs) \in Nat /\ DOMAIN cs = 1..Len(cs)
    BY ListGrows DEF SnapLists
  <2> DEFINE R == {es[k] : k \in DOMAIN es}
  <2>2. es \in [1..Len(cs) -> R]
    BY <2>1
  <2> HIDE DEF R, es
  <2>3. es \in Seq(R)
    BY <2>1, <2>2
  <2> QED
    BY <2>3 DEF R, IsList
<1> HIDE DEF es
<1>4. ASSUME NEW k \in DOMAIN es
      PROVE  /\ es[k].ea1 \in Addrs /\ es[k].ea2 \in Addrs
             /\ EntryKey(es[k]) \in DOMAIN d /\ d[EntryKey(es[k])] = es[k].ratio
  BY <1>1, <1>2 DEF SnapLists
<1>5. ASSUME NEW x \in DOMAIN d PROVE \E k \in DOMAIN es : x = EntryKey(es[k])
  <2>1. PICK k \in DOMAIN cs : x = cs[k].key
    BY DEF SnapLists
  <2> QED
    BY <1>1, <1>2, <2>1
<1>6. Lists(es, d)
  BY <1>3, <1>4, <1>5 DEF Lists
<1> QED
  BY <1>6 DEF es

LEMMA SnapshotLists == ASSUME NEW es, NEW d, Lists(es, d)
                       PROVE  SnapLists([k \in DOMAIN es |-> [key |-> TextKey(es[k].ea1, es[k].ea2), ratio |-> es[k].ratio]], d)
<1> DEFINE cs == [k \in DOMAIN es |-> [key |-> TextKey(es[k].ea1, es[k].ea2), ratio |-> es[k].ratio]]
<1>1. DOMAIN cs = DOMAIN es /\ \A k \in DOMAIN es : cs[k].key = EntryKey(es[k]) /\ cs[k].ratio = es[k].ratio
  BY DEF EntryKey
<1>2. IsList(cs)
  <2>1. Len(es) \in Nat /\ DOMAIN es = 1..Len(es)
    BY ListGrows DEF Lists
  <2> DEFINE R == {cs[k] : k \in DOMAIN cs}
  <2>2. cs \in [1..Len(es) -> R]
    BY <2>1
  <2> HIDE DEF R, cs
  <2>3. cs \in Seq(R)
    BY <2>1, <2>2
  <2> QED
    BY <2>3 DEF R, IsList
<1> HIDE DEF cs
<1>3. SnapLists(cs, d)
  BY <1>1, <1>2 DEF SnapLists, Lists, EntryKey
<1> QED
  BY <1>3 DEF cs

-----------------------------------------------------------------------------
(* The engine. *)

FileInStep(f) == /\ f.kind \in {"checkpoint", "snapshot"}
                 /\ f.kind = "checkpoint" => Lists(f.cache, f.dict)
                 /\ f.kind = "snapshot" => SnapLists(f.cache, f.dict)

\* The cache and its list of entries agree with the dictionary, in the process and on disk.
CacheInv == /\ AddressesAreTexts(tables)
            /\ InStep(Cache, pydict)
            /\ file # None => FileInStep(file)

LEMMA CallKeepsCache ==
  ASSUME CacheInv, NEW i \in DOMAIN tables.main, NEW j \in DOMAIN tables.diff, NEW src, Call(i, j, src)
  PROVE  CacheInv'
<1> DEFINE f == Main(i)
           g == Diff(j)
           key == DictKey(f, g)
<1>1. f.ea \in Addrs /\ g.ea \in Addrs /\ key = TextKey(f.ea, g.ea)
  BY DEF CacheInv, AddressesAreTexts, Main, Diff, DictKey, AddrStr, TextKey
<1>2. UNCHANGED <<tables, file>>
  BY DEF Call
<1>3. PICK hit \in {Find(f.ea, g.ea)} : \E ratio \in {IF hit # None THEN hit ELSE Compute(f, g, src)} :
              /\ IF hit # None \/ IsError(ratio)
                 THEN UNCHANGED <<byId, byText, entries>>
                 ELSE SetCache(Store(Cache, f.ea, g.ea, ratio))
              /\ pydict' = IF IsError(ratio) \/ key \in DOMAIN pydict THEN pydict ELSE With(pydict, key, ratio)
  BY DEF Call
<1>4. PICK ratio :
              /\ IF hit # None \/ IsError(ratio)
                 THEN UNCHANGED <<byId, byText, entries>>
                 ELSE SetCache(Store(Cache, f.ea, g.ea, ratio))
              /\ pydict' = IF IsError(ratio) \/ key \in DOMAIN pydict THEN pydict ELSE With(pydict, key, ratio)
  BY <1>3
<1>5. hit # None => key \in DOMAIN pydict
  <2>1. SameAnswer(Cache, pydict, f.ea, g.ea)
    BY <1>1 DEF CacheInv, InStep, Agrees
  <2> QED
    BY <1>1, <1>3, <2>1 DEF Find, Lookup, SameAnswer, Cache
<1>6. InStep(Cache', pydict')
  <2>1. CASE hit # None \/ IsError(ratio)
    <3>1. UNCHANGED <<byId, byText, entries, pydict>>
      BY <1>4, <1>5, <2>1
    <3>2. Cache' = Cache
      BY <3>1 DEF Cache
    <3> QED
      BY <3>1, <3>2 DEF CacheInv
  <2>2. CASE ~(hit # None \/ IsError(ratio))
    <3> DEFINE s == Store(Cache, f.ea, g.ea, ratio)
    <3>1. byId' = s.id /\ byText' = s.text /\ entries' = s.all /\ pydict' = DictStore(pydict, key, ratio)
      BY <1>4, <2>2 DEF SetCache, DictStore
    <3>2. InStep(s, DictStore(pydict, key, ratio))
      BY <1>1, StoreInStep DEF CacheInv
    <3> HIDE DEF s, key
    <3>3. Cache'.id = s.id /\ Cache'.text = s.text /\ Cache'.all = s.all
      BY <3>1 DEF Cache
    <3> QED
      BY <3>1, <3>2, <3>3 DEF InStep, Agrees, SameAnswer
  <2> QED
    BY <2>1, <2>2
<1> QED
  BY <1>2, <1>6 DEF CacheInv

LEMMA RestoreKeepsCache ==
  ASSUME NEW es, NEW d, Lists(es, d), SetCache(Seeded(es)), pydict' = d
  PROVE  InStep(Cache', pydict')
<1> DEFINE s == Seeded(es)
<1>1. InStep(s, d)
  BY SeededInStep
<1>2. byId' = s.id /\ byText' = s.text /\ entries' = s.all
  BY DEF SetCache
<1> HIDE DEF s
<1>3. Cache'.id = s.id /\ Cache'.text = s.text /\ Cache'.all = s.all
  BY <1>2 DEF Cache
<1> QED
  BY <1>1, <1>3 DEF InStep, Agrees, SameAnswer

LEMMA CacheSteps == CacheInv /\ [RatioNext]_rvars => CacheInv'
<1>1. SUFFICES ASSUME CacheInv, [RatioNext]_rvars PROVE CacheInv'
  OBVIOUS
<1>2. CASE UNCHANGED rvars
  BY <1>1, <1>2 DEF rvars, CacheInv, Cache
<1>3. ASSUME NEW i \in DOMAIN tables.main, NEW j \in DOMAIN tables.diff, CheckRatio(i, j) PROVE CacheInv'
  BY <1>1, <1>3, CallKeepsCache DEF CheckRatio
<1>4. ASSUME NEW i \in DOMAIN tables.main, NEW j \in DOMAIN tables.diff, CompareFunctionRows(i, j) PROVE CacheInv'
  <2>1. CASE Main(i).eaBlob \/ Diff(j).eaBlob
    BY <1>1, <1>4, <2>1 DEF CompareFunctionRows, CacheInv, Cache
  <2>2. CASE ~(Main(i).eaBlob \/ Diff(j).eaBlob)
    BY <1>1, <1>4, <2>2, CallKeepsCache DEF CompareFunctionRows
  <2> QED
    BY <2>1, <2>2
<1>5. CASE CaptureCheckpoint
  <2>1. /\ file'.kind = "checkpoint" /\ file'.cache = entries /\ file'.dict = pydict
        /\ UNCHANGED <<tables, byId, byText, entries, pydict>>
    BY <1>5 DEF CaptureCheckpoint
  <2>2. Lists(entries, pydict)
    BY <1>1 DEF CacheInv, InStep, Cache
  <2>3. FileInStep(file')
    BY <2>1, <2>2 DEF FileInStep
  <2> QED
    BY <1>1, <2>1, <2>3 DEF CacheInv, Cache
<1>6. CASE Snapshot
  <2> DEFINE cs == [k \in DOMAIN entries |-> [key |-> TextKey(entries[k].ea1, entries[k].ea2),
                                             ratio |-> entries[k].ratio]]
  <2>1. /\ file'.kind = "snapshot" /\ file'.cache = cs /\ file'.dict = pydict
        /\ UNCHANGED <<tables, byId, byText, entries, pydict>>
    BY <1>6 DEF Snapshot
  <2>2. Lists(entries, pydict)
    BY <1>1 DEF CacheInv, InStep, Cache
  <2>3. SnapLists(cs, pydict)
    BY <2>2, SnapshotLists
  <2> HIDE DEF cs
  <2>4. FileInStep(file')
    BY <2>1, <2>3 DEF FileInStep
  <2> QED
    BY <1>1, <2>1, <2>4 DEF CacheInv, Cache
<1>7. CASE RestoreCheckpoint
  <2>1. Lists(file.cache, file.dict)
    BY <1>1, <1>7 DEF RestoreCheckpoint, CacheInv, FileInStep
  <2>2. SetCache(Seeded(file.cache)) /\ pydict' = file.dict /\ UNCHANGED <<tables, file>>
    BY <1>7 DEF RestoreCheckpoint
  <2>3. InStep(Cache', pydict')
    BY <2>1, <2>2, RestoreKeepsCache
  <2> QED
    BY <1>1, <2>2, <2>3 DEF CacheInv
<1>8. CASE RestoreSnapshot
  <2> DEFINE es == [k \in DOMAIN file.cache |-> SplitEntry(file.cache[k])]
  <2>1. Lists(es, file.dict)
    BY <1>1, <1>8, SplitLists DEF RestoreSnapshot, CacheInv, FileInStep
  <2>2. SetCache(Seeded(es)) /\ pydict' = file.dict /\ UNCHANGED <<tables, file>>
    BY <1>8 DEF RestoreSnapshot
  <2> HIDE DEF es
  <2>3. InStep(Cache', pydict')
    BY <2>1, <2>2, RestoreKeepsCache
  <2> QED
    BY <1>1, <2>2, <2>3 DEF CacheInv
<1> QED
  BY <1>1, <1>2, <1>3, <1>4, <1>5, <1>6, <1>7, <1>8 DEF RatioNext

\* CacheIsPythonDict, for any two tables whose addresses are texts or NULL and any number of calls,
\* checkpoints, snapshots and restores: the cache keyed by ids and by texts (Impl::Find, Impl::Store,
\* SeedCache) answers as Diaphora's dictionary of joined texts.
THEOREM CacheAsDict == ASSUME NEW t, AddressesAreTexts(t) PROVE RatioSpec(t) => []CacheIsPythonDict
<1>1. RatioInit(t) => CacheInv
  <2>1. SUFFICES ASSUME RatioInit(t) PROVE CacheInv
    OBVIOUS
  <2>2. Cache = NoCache /\ DOMAIN pydict = {} /\ file = None /\ tables = t
    BY <2>1 DEF RatioInit, Cache, NoCache
  <2> QED
    BY <2>2, EmptyInStep DEF CacheInv
<1>2. CacheInv /\ [RatioNext]_rvars => CacheInv'
  BY CacheSteps
<1>3. CacheInv => CacheIsPythonDict
  <2>1. SUFFICES ASSUME CacheInv, NEW i \in DOMAIN tables.main, NEW j \in DOMAIN tables.diff
                 PROVE  Find(Main(i).ea, Diff(j).ea) = Lookup(pydict, DictKey(Main(i), Diff(j)))
    BY DEF CacheIsPythonDict
  <2> DEFINE ea1 == Main(i).ea
             ea2 == Diff(j).ea
  <2>2. ea1 \in Addrs /\ ea2 \in Addrs /\ DictKey(Main(i), Diff(j)) = TextKey(ea1, ea2)
    BY <2>1 DEF CacheInv, AddressesAreTexts, Main, Diff, DictKey, AddrStr, TextKey
  <2>3. SameAnswer(Cache, pydict, ea1, ea2)
    BY <2>1, <2>2 DEF CacheInv, InStep, Agrees
  <2> QED
    BY <2>2, <2>3 DEF SameAnswer, Find, Lookup, Cache
<1> QED
  BY <1>1, <1>2, <1>3, PTL DEF RatioSpec
=============================================================================
