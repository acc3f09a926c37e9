------------------------ MODULE ControlFlowGraphProofs ------------------------
(***************************************************************************)
(* Proofs about the control flow graph, for any code range, any limits and *)
(* any number of blocks: the two partitions of the blocks into components  *)
(* and the graph itself are what the code says.                            *)
(***************************************************************************)
EXTENDS ControlFlowGraph, FiniteSetTheorems, SequenceTheorems, NaturalsInduction, WellFoundedInduction, TLAPS

-----------------------------------------------------------------------------
(* Natural numbers and finite sets. *)

\* Every non-empty set of natural numbers has a least element, and induction with a set for the predicate.
LEMMA LeastNatural == ASSUME NEW S \in SUBSET Nat, S # {}
                      PROVE  \E m \in S : \A x \in S : m <= x
<1> DEFINE Less == {p \in Nat \X Nat : p[1] < p[2]}
<1>1. IsWellFoundedOn(Less, Nat)
  BY NatLessThanWellFounded DEF OpToRel
<1> HIDE DEF Less
<1>2. PICK m \in S : \A y \in S : ~ (<<y, m>> \in Less)
  BY <1>1, WFMin
<1>3. ASSUME NEW x \in S PROVE m <= x
  <2>1. ~(<<x, m>> \in Less) /\ x \in Nat /\ m \in Nat
    BY <1>2
  <2> QED
    BY <2>1 DEF Less
<1> QED
  BY <1>2, <1>3

LEMMA SetInduction == ASSUME NEW S \in SUBSET Nat, 0 \in S, \A n \in S : n + 1 \in S
                      PROVE  \A n \in Nat : n \in S
<1>1. SUFFICES ASSUME Nat \ S # {} PROVE FALSE
  OBVIOUS
<1>2. PICK m \in Nat \ S : \A x \in Nat \ S : m <= x
  BY <1>1, LeastNatural
<1>3. m # 0 /\ m - 1 \in Nat /\ m - 1 + 1 = m
  BY <1>2
<1>4. m - 1 \in S
  BY <1>2, <1>3
<1> QED
  BY <1>2, <1>3, <1>4

LEMMA GreatestNatural == ASSUME NEW n \in Nat, NEW S \in SUBSET 1..n, S # {}
                         PROVE  \E m \in S : \A x \in S : x <= m
<1> DEFINE T == {n - x : x \in S}
<1>1. T \in SUBSET Nat /\ T # {}
  <2>1. \A x \in S : n - x \in Nat
    OBVIOUS
  <2> QED
    BY <2>1
<1>2. PICK t \in T : \A x \in T : t <= x
  BY <1>1, LeastNatural
<1>3. PICK m \in S : t = n - m
  OBVIOUS
<1>4. ASSUME NEW x \in S PROVE x <= m
  <2>1. n - m <= n - x
    BY <1>2, <1>3
  <2>2. m \in Nat /\ x \in Nat
    OBVIOUS
  <2> QED
    BY <2>1, <2>2
<1> QED
  BY <1>3, <1>4

LEMMA UptoNatural == ASSUME NEW n \in Nat PROVE IsFiniteSet(1..n) /\ Cardinality(1..n) = n
<1>1. IsFiniteSet(1..n) /\ Cardinality(1..n) = IF 1 > n THEN 0 ELSE n - 1 + 1
  BY FS_Interval
<1> QED
  BY <1>1

-----------------------------------------------------------------------------
(* What Closure computes: the least set that contains S and that next does *)
(* not leave.                                                              *)

Onward(T, next) == T \cup UNION {next[x] : x \in T}

Closing(g, S, next, n) == g = [k \in 0..n |-> IF k = 0 THEN S ELSE Onward(g[k - 1], next)]

LEMMA ClosingExists == ASSUME NEW S, NEW next, NEW n \in Nat PROVE \E g : Closing(g, S, next, n)
<1> DEFINE N == {k \in Nat : \E g : Closing(g, S, next, k)}
<1>1. 0 \in N
  <2> DEFINE g == [k \in 0..0 |-> S]
  <2>1. Closing(g, S, next, 0)
    BY DEF Closing
  <2> QED
    BY <2>1
<1>2. ASSUME NEW m \in N PROVE m + 1 \in N
  <2>1. PICK g : Closing(g, S, next, m)
    OBVIOUS
  <2> DEFINE h == [k \in 0..(m + 1) |-> IF k <= m THEN g[k] ELSE Onward(g[m], next)]
  <2>2. m \in Nat /\ m + 1 \in Nat
    OBVIOUS
  <2> HIDE DEF N
  <2>3. \A k \in 0..m : h[k] = g[k]
    BY <2>2
  <2>4. ASSUME NEW k \in 0..(m + 1) PROVE h[k] = IF k = 0 THEN S ELSE Onward(h[k - 1], next)
    <3>1. CASE k \in 0..m
      <4>1. g[k] = IF k = 0 THEN S ELSE Onward(g[k - 1], next)
        BY <2>1, <3>1 DEF Closing
      <4>2. k # 0 => k - 1 \in 0..m
        BY <2>2, <3>1
      <4> HIDE DEF h
      <4>3. k # 0 => h[k - 1] = g[k - 1]
        BY <2>3, <4>2
      <4> QED
        BY <2>3, <3>1, <4>1, <4>3
    <3>2. CASE k = m + 1
      <4>1. k # 0 /\ k - 1 = m /\ m \in 0..m /\ ~(k <= m)
        BY <2>2, <3>2
      <4>2. h[k] = Onward(g[m], next)
        BY <4>1
      <4>3. h[k - 1] = g[m]
        BY <2>3, <4>1
      <4> HIDE DEF h
      <4> QED
        BY <3>2, <4>1, <4>2, <4>3
    <3> QED
      BY <2>2, <3>1, <3>2
  <2>5. h = [k \in 0..(m + 1) |-> h[k]]
    OBVIOUS
  <2> HIDE DEF h
  <2>6. Closing(h, S, next, m + 1)
    BY <2>4, <2>5 DEF Closing
  <2> QED
    BY <2>2, <2>6 DEF N
<1>3. N \in SUBSET Nat
  OBVIOUS
<1> HIDE DEF N
<1>4. n \in N
  BY <1>1, <1>2, <1>3, SetInduction
<1> QED
  BY <1>4 DEF N

LEMMA ClosureRounds ==
  ASSUME NEW S, NEW next, NEW bound \in Nat
  PROVE  \E g : /\ g[0] = S /\ g[bound] = Closure(S, next, bound)
                /\ \A k \in 0..bound : k # bound => g[k + 1] = Onward(g[k], next)
<1> DEFINE g == CHOOSE g : Closing(g, S, next, bound)
<1>1. Closing(g, S, next, bound)
  BY ClosingExists
<1>2. Closure(S, next, bound) = g[bound]
  BY DEF Closure, Closing, Onward
<1> HIDE DEF g
<1>3. g[0] = S
  BY <1>1 DEF Closing
<1>4. ASSUME NEW k \in 0..bound, k # bound PROVE g[k + 1] = Onward(g[k], next)
  <2>1. k + 1 \in 0..bound /\ k + 1 # 0 /\ k + 1 - 1 = k
    BY <1>4
  <2> QED
    BY <1>1, <2>1 DEF Closing
<1> QED
  BY <1>2, <1>3, <1>4

\* It contains S, and no set that contains S and is not left by next is smaller.
LEMMA ClosureContains ==
  ASSUME NEW S, NEW next, NEW bound \in Nat
  PROVE  S \subseteq Closure(S, next, bound)
<1>1. PICK g : /\ g[0] = S /\ g[bound] = Closure(S, next, bound)
               /\ \A k \in 0..bound : k # bound => g[k + 1] = Onward(g[k], next)
  BY ClosureRounds
<1> DEFINE N == {k \in Nat : k <= bound => S \subseteq g[k]}
<1>2. 0 \in N
  BY <1>1
<1>3. ASSUME NEW k \in N PROVE k + 1 \in N
  <2>1. k \in Nat /\ k + 1 \in Nat
    OBVIOUS
  <2>2. SUFFICES ASSUME k + 1 <= bound PROVE S \subseteq g[k + 1]
    OBVIOUS
  <2>3. k \in 0..bound /\ k # bound /\ k <= bound
    BY <2>1, <2>2
  <2> QED
    BY <1>1, <2>3 DEF Onward
<1>4. N \in SUBSET Nat
  OBVIOUS
<1>5. bound \in N
  <2> HIDE DEF N
  <2> QED
    BY <1>2, <1>3, <1>4, SetInduction
<1> QED
  BY <1>1, <1>5

LEMMA ClosureMinimal ==
  ASSUME NEW S, NEW next, NEW bound \in Nat, NEW Z, S \subseteq Z, \A x \in Z : next[x] \subseteq Z
  PROVE  Closure(S, next, bound) \subseteq Z
<1>1. PICK g : /\ g[0] = S /\ g[bound] = Closure(S, next, bound)
               /\ \A k \in 0..bound : k # bound => g[k + 1] = Onward(g[k], next)
  BY ClosureRounds
<1> DEFINE N == {k \in Nat : k <= bound => g[k] \subseteq Z}
<1>2. 0 \in N
  BY <1>1
<1>3. ASSUME NEW k \in N PROVE k + 1 \in N
  <2>1. k \in Nat /\ k + 1 \in Nat
    OBVIOUS
  <2>2. SUFFICES ASSUME k + 1 <= bound PROVE g[k + 1] \subseteq Z
    OBVIOUS
  <2>3. k \in 0..bound /\ k # bound /\ k <= bound
    BY <2>1, <2>2
  <2>4. g[k + 1] = Onward(g[k], next) /\ g[k] \subseteq Z
    BY <1>1, <2>3
  <2>5. \A x \in g[k] : next[x] \subseteq Z
    BY <2>4
  <2> HIDE DEF N
  <2> QED
    BY <2>4, <2>5 DEF Onward
<1>4. N \in SUBSET Nat
  OBVIOUS
<1>5. bound \in N
  <2> HIDE DEF N
  <2> QED
    BY <1>2, <1>3, <1>4, SetInduction
<1> QED
  BY <1>1, <1>5

\* The bound suffices: inside a set D of at most bound elements, next does not leave the result.
LEMMA ClosureClosed ==
  ASSUME NEW S, NEW next, NEW bound \in Nat, NEW D, IsFiniteSet(D), Cardinality(D) <= bound,
         S \subseteq D, S # {}, \A x \in D : next[x] \subseteq D
  PROVE  /\ Closure(S, next, bound) \subseteq D
         /\ \A x \in Closure(S, next, bound) : next[x] \subseteq Closure(S, next, bound)
<1>1. PICK g : /\ g[0] = S /\ g[bound] = Closure(S, next, bound)
               /\ \A k \in 0..bound : k # bound => g[k + 1] = Onward(g[k], next)
  BY ClosureRounds
<1> DEFINE Closed(T) == \A x \in T : next[x] \subseteq T
           N == {k \in Nat : k <= bound => /\ g[k] \subseteq D
                                           /\ Closed(g[k]) \/ Cardinality(g[k]) >= k + 1}
<1>2. 0 \in N
  <2>1. IsFiniteSet(S)
    BY FS_Subset
  <2>2. Cardinality(S) \in Nat /\ Cardinality(S) # 0
    BY <2>1, FS_CardinalityType, FS_EmptySet
  <2>3. Cardinality(S) >= 0 + 1
    BY <2>2
  <2> HIDE DEF Closed
  <2> QED
    BY <1>1, <2>3
<1>3. ASSUME NEW k \in N PROVE k + 1 \in N
  <2>1. k \in Nat /\ k + 1 \in Nat
    OBVIOUS
  <2>2. SUFFICES ASSUME k + 1 <= bound
                 PROVE  g[k + 1] \subseteq D /\ (Closed(g[k + 1]) \/ Cardinality(g[k + 1]) >= k + 1 + 1)
    BY <2>1
  <2>3. k \in 0..bound /\ k # bound /\ k <= bound
    BY <2>1, <2>2
  <2>4. g[k + 1] = Onward(g[k], next) /\ g[k] \subseteq D /\ (Closed(g[k]) \/ Cardinality(g[k]) >= k + 1)
    BY <1>1, <2>3
  <2> HIDE DEF N
  <2>5. g[k + 1] \subseteq D
    BY <2>4 DEF Onward
  <2>6. CASE Closed(g[k])
    <3>1. g[k + 1] = g[k]
      BY <2>4, <2>6 DEF Onward
    <3> QED
      BY <2>5, <2>6, <3>1
  <2>7. CASE ~Closed(g[k])
    <3>1. PICK x \in g[k] : ~(next[x] \subseteq g[k])
      BY <2>7
    <3>2. PICK y \in next[x] : y \notin g[k]
      BY <3>1
    <3>3. g[k] \cup {y} \subseteq g[k + 1]
      BY <2>4, <3>1, <3>2 DEF Onward
    <3>4. IsFiniteSet(g[k]) /\ IsFiniteSet(g[k + 1])
      BY <2>4, <2>5, FS_Subset
    <3>5. IsFiniteSet(g[k] \cup {y}) /\ Cardinality(g[k] \cup {y}) = Cardinality(g[k]) + 1
      BY <3>2, <3>4, FS_AddElement
    <3>6. Cardinality(g[k] \cup {y}) <= Cardinality(g[k + 1])
      BY <3>3, <3>4, FS_Subset
    <3>7. Cardinality(g[k]) \in Nat /\ Cardinality(g[k + 1]) \in Nat
      BY <3>4, FS_CardinalityType
    <3>8. Cardinality(g[k]) >= k + 1
      BY <2>4, <2>7
    <3> HIDE DEF Closed
    <3> QED
      BY <2>1, <2>5, <3>5, <3>6, <3>7, <3>8
  <2> QED
    BY <2>6, <2>7
<1>4. N \in SUBSET Nat
  OBVIOUS
<1>5. bound \in N
  <2> HIDE DEF N
  <2> QED
    BY <1>2, <1>3, <1>4, SetInduction
<1> DEFINE C == g[bound]
<1>6. C \subseteq D /\ (Closed(C) \/ Cardinality(C) >= bound + 1)
  BY <1>5
<1> HIDE DEF C
<1>7. Cardinality(C) \in Nat /\ Cardinality(C) <= Cardinality(D) /\ Cardinality(D) \in Nat
  BY <1>6, FS_Subset, FS_CardinalityType
<1>8. ~(Cardinality(C) >= bound + 1)
  BY <1>7
<1> QED
  BY <1>1, <1>6, <1>8 DEF C

\* Reachability inside a finite set D.
Flow(D, next, n) == /\ n \in Nat /\ IsFiniteSet(D) /\ Cardinality(D) <= n
                    /\ \A x \in D : next[x] \subseteq D

LEMMA FlowFacts ==
  ASSUME NEW D, NEW next, NEW n, Flow(D, next, n), NEW x \in D
  PROVE  /\ x \in Closure({x}, next, n)
         /\ Closure({x}, next, n) \subseteq D
         /\ \A y \in Closure({x}, next, n) : next[y] \subseteq Closure({x}, next, n)
<1>1. {x} \subseteq D /\ {x} # {}
  OBVIOUS
<1>2. {x} \subseteq Closure({x}, next, n)
  BY ClosureContains DEF Flow
<1>3. /\ Closure({x}, next, n) \subseteq D
      /\ \A y \in Closure({x}, next, n) : next[y] \subseteq Closure({x}, next, n)
  BY <1>1, ClosureClosed DEF Flow
<1> QED
  BY <1>2, <1>3

LEMMA FlowTransitive ==
  ASSUME NEW D, NEW next, NEW n, Flow(D, next, n), NEW x \in D, NEW y \in Closure({x}, next, n)
  PROVE  Closure({y}, next, n) \subseteq Closure({x}, next, n)
<1>1. \A z \in Closure({x}, next, n) : next[z] \subseteq Closure({x}, next, n)
  BY FlowFacts
<1>2. {y} \subseteq Closure({x}, next, n)
  OBVIOUS
<1> QED
  BY <1>1, <1>2, ClosureMinimal DEF Flow

LEMMA FlowLeaves ==
  ASSUME NEW D, NEW next, NEW n, Flow(D, next, n), NEW x \in D, NEW y \in Closure({x}, next, n), y # x
  PROVE  \E s \in next[x] : y \in Closure({s}, next, n)
<1> DEFINE Z == {x} \cup UNION {Closure({s}, next, n) : s \in next[x]}
<1>1. next[x] \subseteq D
  BY DEF Flow
<1>2. ASSUME NEW z \in Z PROVE next[z] \subseteq Z
  <2>1. CASE z = x
    <3>1. \A s \in next[x] : s \in Closure({s}, next, n)
      BY <1>1, FlowFacts
    <3> QED
      BY <2>1, <3>1
  <2>2. CASE z # x
    <3>1. PICK s \in next[x] : z \in Closure({s}, next, n)
      BY <2>2
    <3>2. next[z] \subseteq Closure({s}, next, n)
      BY <1>1, <3>1, FlowFacts
    <3> QED
      BY <3>2
  <2> QED
    BY <2>1, <2>2
<1>3. {x} \subseteq Z
  OBVIOUS
<1>4. y \in Z
  <2> HIDE DEF Z
  <2>1. Closure({x}, next, n) \subseteq Z
    BY <1>2, <1>3, ClosureMinimal DEF Flow
  <2> QED
    BY <2>1
<1> QED
  BY <1>4

-----------------------------------------------------------------------------
(* The graph of the blocks. *)

\* A graph by its lists of successors, sc; the definitions of the properties are compared with it further down.
Graph(sc) == /\ Len(sc) \in Nat /\ DOMAIN sc = 1..Len(sc)
             /\ sc \in [DOMAIN sc -> Seq(DOMAIN sc)]

SetOfSuccessors(sc, x) == {sc[x][k] : k \in DOMAIN sc[x]}

Onto(sc) == [x \in DOMAIN sc |-> SetOfSuccessors(sc, x)]

From(sc, x) == Closure({x}, Onto(sc), Len(sc))

LEMMA SuccessorMember ==
  ASSUME NEW sc, Graph(sc), NEW x \in DOMAIN sc
  PROVE  /\ SetOfSuccessors(sc, x) \subseteq DOMAIN sc
         /\ Len(sc[x]) \in Nat /\ DOMAIN sc[x] = 1..Len(sc[x])
         /\ \A k \in 1..Len(sc[x]) : sc[x][k] \in SetOfSuccessors(sc, x) /\ sc[x][k] \in DOMAIN sc
         /\ \A y \in SetOfSuccessors(sc, x) : \E k \in 1..Len(sc[x]) : y = sc[x][k]
<1>1. sc[x] \in Seq(DOMAIN sc)
  BY DEF Graph
<1>2. Len(sc[x]) \in Nat /\ DOMAIN sc[x] = 1..Len(sc[x]) /\ \A k \in 1..Len(sc[x]) : sc[x][k] \in DOMAIN sc
  BY <1>1
<1> QED
  BY <1>2 DEF SetOfSuccessors

LEMMA NodesFinite == ASSUME NEW sc, Graph(sc) PROVE IsFiniteSet(DOMAIN sc) /\ Cardinality(DOMAIN sc) = Len(sc)
BY UptoNatural DEF Graph

LEMMA BlocksFlow == ASSUME NEW sc, Graph(sc) PROVE Flow(DOMAIN sc, Onto(sc), Len(sc))
<1>1. \A x \in DOMAIN sc : Onto(sc)[x] \subseteq DOMAIN sc
  BY SuccessorMember DEF Onto
<1>2. Len(sc) \in Nat /\ IsFiniteSet(DOMAIN sc) /\ Cardinality(DOMAIN sc) <= Len(sc)
  BY NodesFinite DEF Graph
<1> QED
  BY <1>1, <1>2 DEF Flow

LEMMA BlockReach ==
  ASSUME NEW sc, Graph(sc), NEW x \in DOMAIN sc
  PROVE  /\ x \in From(sc, x) /\ From(sc, x) \subseteq DOMAIN sc
         /\ \A y \in From(sc, x) : From(sc, y) \subseteq From(sc, x)
         /\ \A k \in 1..Len(sc[x]) : sc[x][k] \in From(sc, x)
         /\ \A y \in From(sc, x) : y # x =>
               \E k \in 1..Len(sc[x]) : y \in From(sc, sc[x][k])
<1>1. \A y \in DOMAIN sc : From(sc, y) = Closure({y}, Onto(sc), Len(sc))
  BY DEF From
<1>2. /\ x \in From(sc, x) /\ From(sc, x) \subseteq DOMAIN sc
      /\ \A y \in From(sc, x) : Onto(sc)[y] \subseteq From(sc, x)
  <2> DEFINE C == Closure({x}, Onto(sc), Len(sc))
  <2>1. x \in C /\ C \subseteq DOMAIN sc /\ \A y \in C : Onto(sc)[y] \subseteq C
    BY BlocksFlow, FlowFacts
  <2>2. C = From(sc, x)
    BY <1>1
  <2> QED
    BY <2>1, <2>2
<1>3. ASSUME NEW y \in From(sc, x) PROVE From(sc, y) \subseteq From(sc, x)
  <2>1. y \in DOMAIN sc
    BY <1>2
  <2>2. y \in Closure({x}, Onto(sc), Len(sc))
    BY <1>1
  <2>3. Closure({y}, Onto(sc), Len(sc)) \subseteq Closure({x}, Onto(sc), Len(sc))
    BY <2>2, BlocksFlow, FlowTransitive
  <2> QED
    BY <1>1, <2>1, <2>3
<1>4. \A k \in 1..Len(sc[x]) : sc[x][k] \in From(sc, x)
  BY <1>2, SuccessorMember DEF Onto
<1>5. ASSUME NEW y \in From(sc, x), y # x PROVE \E k \in 1..Len(sc[x]) : y \in From(sc, sc[x][k])
  <2>1. PICK s \in Onto(sc)[x] : y \in Closure({s}, Onto(sc), Len(sc))
    BY <1>1, <1>5, BlocksFlow, FlowLeaves
  <2>2. s \in SetOfSuccessors(sc, x)
    BY <2>1 DEF Onto
  <2>3. PICK k \in 1..Len(sc[x]) : s = sc[x][k]
    BY <2>2, SuccessorMember
  <2>4. s \in DOMAIN sc
    BY <2>3, SuccessorMember
  <2> QED
    BY <1>1, <2>1, <2>3, <2>4
<1> QED
  BY <1>2, <1>3, <1>4, <1>5

\* What is reachable from a member of a set that no edge leaves is in the set.
LEMMA BlockStays ==
  ASSUME NEW sc, Graph(sc), NEW Z, Z \subseteq DOMAIN sc, NEW x \in Z,
         \A y \in Z : \A k \in 1..Len(sc[y]) : sc[y][k] \in Z
  PROVE  From(sc, x) \subseteq Z
<1>1. ASSUME NEW y \in Z PROVE Onto(sc)[y] \subseteq Z
  BY SuccessorMember DEF Onto
<1>2. Closure({x}, Onto(sc), Len(sc)) \subseteq Z
  <2>1. {x} \subseteq Z /\ Len(sc) \in Nat
    BY DEF Graph
  <2> QED
    BY <1>1, <2>1, ClosureMinimal
<1> QED
  BY <1>2 DEF From

-----------------------------------------------------------------------------
(* ComputeStronglyConnected: the invariant of Tarjan's algorithm, over the *)
(* fields of dfs.  On the stack are the blocks that are visited and have   *)
(* no component yet.                                                       *)

Frames(sc) == [node : DOMAIN sc, cursor : Nat]

SearchTyped(sc, idx, low, nxt, stk, frm, cmp) ==
    /\ idx \in [DOMAIN sc -> Nat] /\ low \in [DOMAIN sc -> Nat] /\ nxt \in Nat \ {0}
    /\ stk \in Seq(DOMAIN sc) /\ frm \in Seq(Frames(sc)) /\ cmp \in [DOMAIN sc -> Nat]

Open(idx, cmp, x) == idx[x] # 0 /\ cmp[x] = 0

Numbered(sc, idx, nxt, cmp) ==
    /\ \A x \in DOMAIN sc : idx[x] < nxt /\ (cmp[x] # 0 => idx[x] # 0)
    /\ \A x, y \in DOMAIN sc : idx[x] = idx[y] /\ idx[x] # 0 => x = y

Stacked(sc, idx, stk, cmp) ==
    /\ \A i \in 1..Len(stk) : Open(idx, cmp, stk[i])
    /\ \A x \in DOMAIN sc : Open(idx, cmp, x) => \E i \in 1..Len(stk) : stk[i] = x
    /\ \A i, j \in 1..Len(stk) : i < j => idx[stk[i]] < idx[stk[j]]

Framed(sc, idx, frm, cmp) ==
    /\ \A i \in 1..Len(frm) : Open(idx, cmp, frm[i].node) /\ frm[i].cursor <= Len(sc[frm[i].node])
    /\ \A i, j \in 1..Len(frm) : i < j => idx[frm[i].node] < idx[frm[j].node]

\* A frame's block reaches what is above it on the stack.
Downward(sc, idx, frm, cmp) ==
    \A i \in 1..Len(frm) : \A x \in DOMAIN sc :
        Open(idx, cmp, x) /\ idx[frm[i].node] <= idx[x] => x \in From(sc, frm[i].node)

\* Every block on the stack reaches a frame's block below it.
Upward(sc, idx, frm, cmp) ==
    \A x \in DOMAIN sc : Open(idx, cmp, x) =>
        \E i \in 1..Len(frm) : idx[frm[i].node] <= idx[x] /\ frm[i].node \in From(sc, x)

\* A link is the number of a block on the stack that is reached.
LinkReached(sc, idx, low, frm, cmp) ==
    \A i \in 1..Len(frm) :
        /\ low[frm[i].node] <= idx[frm[i].node]
        /\ \E y \in DOMAIN sc : /\ Open(idx, cmp, y) /\ idx[y] = low[frm[i].node]
                            /\ y \in From(sc, frm[i].node)

\* The blocks on the stack from a frame's block up to the next frame's.
Segment(idx, frm, cmp, i, x) ==
    /\ Open(idx, cmp, x) /\ idx[frm[i].node] <= idx[x]
    /\ i + 1 \in 1..Len(frm) => idx[x] < idx[frm[i + 1].node]

\* The edges already followed from a frame's segment lead to visited blocks,
\* and to none on the stack below the frame's link.
LinkBounds(sc, idx, low, frm, cmp) ==
    \A i \in 1..Len(frm) : \A x \in DOMAIN sc : Segment(idx, frm, cmp, i, x) =>
        \A k \in 1..Len(sc[x]) : (x = frm[i].node => k <= frm[i].cursor) =>
            /\ idx[sc[x][k]] # 0
            /\ cmp[sc[x][k]] = 0 => low[frm[i].node] <= idx[sc[x][k]]

\* The components are complete: no edge leaves them for a block without one,
\* and they are the classes of mutual reachability.
Finished(sc, cmp) ==
    /\ \A x \in DOMAIN sc : cmp[x] # 0 => \A k \in 1..Len(sc[x]) : cmp[sc[x][k]] # 0
    /\ \A x, y \in DOMAIN sc : cmp[x] # 0 /\ cmp[y] # 0 =>
          (cmp[x] = cmp[y] <=> (y \in From(sc, x) /\ x \in From(sc, y)))

Search(sc, idx, low, nxt, stk, frm, cmp) ==
    /\ SearchTyped(sc, idx, low, nxt, stk, frm, cmp)
    /\ Numbered(sc, idx, nxt, cmp)
    /\ Stacked(sc, idx, stk, cmp)
    /\ Framed(sc, idx, frm, cmp)
    /\ Downward(sc, idx, frm, cmp)
    /\ Upward(sc, idx, frm, cmp)
    /\ LinkReached(sc, idx, low, frm, cmp)
    /\ LinkBounds(sc, idx, low, frm, cmp)
    /\ Finished(sc, cmp)

LEMMA NonEmptyLength ==
  ASSUME NEW T, NEW s \in Seq(T), s # <<>>
  PROVE  /\ Len(s) \in Nat /\ Len(s) # 0 /\ Len(s) \in 1..Len(s)
         /\ Len(s) - 1 \in Nat /\ Len(s) - 1 \in 0..Len(s)
OBVIOUS

LEMMA NatOrder ==
  \A a, b, c \in Nat : /\ a < b => a <= b
                       /\ a <= b /\ b < c => a <= c /\ a < c
                       /\ ~ (a < b /\ b <= a)
OBVIOUS

LEMMA FrameTyped ==
  ASSUME NEW sc, NEW frm \in Seq(Frames(sc))
  PROVE  Len(frm) \in Nat /\ \A i \in 1..Len(frm) : frm[i].node \in DOMAIN sc /\ frm[i].cursor \in Nat
<1>1. Len(frm) \in Nat /\ \A i \in 1..Len(frm) : frm[i] \in Frames(sc)
  OBVIOUS
<1> QED
  BY <1>1 DEF Frames

\* A block v is entered: a root, or a successor of the block on top.
Entering(sc, frm, adv, v) ==
    /\ adv \in Seq(Frames(sc)) /\ Len(adv) = Len(frm)
    /\ \A i \in 1..Len(frm) : /\ adv[i].node = frm[i].node /\ adv[i].cursor <= Len(sc[frm[i].node])
                              /\ \A k \in 1..adv[i].cursor : k <= frm[i].cursor \/ sc[frm[i].node][k] = v
                              /\ v \in From(sc, frm[i].node)

LEMMA EnterPreserves ==
  ASSUME NEW sc, Graph(sc), NEW idx, NEW low, NEW nxt, NEW stk, NEW frm, NEW cmp,
         Search(sc, idx, low, nxt, stk, frm, cmp),
         NEW v \in DOMAIN sc, idx[v] = 0,
         NEW adv \in Seq(Frames(sc)), Len(adv) = Len(frm),
         \A i \in 1..Len(frm) : /\ adv[i].node = frm[i].node /\ adv[i].cursor <= Len(sc[frm[i].node])
                                /\ \A k \in 1..adv[i].cursor : k <= frm[i].cursor \/ sc[frm[i].node][k] = v
                                /\ v \in From(sc, frm[i].node)
  PROVE  Search(sc, [idx EXCEPT ![v] = nxt], [low EXCEPT ![v] = nxt], nxt + 1, Append(stk, v),
                Append(adv, [node |-> v, cursor |-> 0]), cmp)
<1> DEFINE idx2 == [idx EXCEPT ![v] = nxt]
           low2 == [low EXCEPT ![v] = nxt]
           stk2 == Append(stk, v)
           frm2 == Append(adv, [node |-> v, cursor |-> 0])
           n == Len(stk)
           m == Len(frm)
<1>1. /\ idx \in [DOMAIN sc -> Nat] /\ low \in [DOMAIN sc -> Nat] /\ nxt \in Nat /\ nxt # 0 /\ cmp \in [DOMAIN sc -> Nat]
      /\ stk \in Seq(DOMAIN sc) /\ frm \in Seq(Frames(sc))
  BY DEF Search, SearchTyped
<1>2. n \in Nat /\ \A i \in 1..n : stk[i] \in DOMAIN sc
  BY <1>1
<1>3. m \in Nat /\ \A i \in 1..m : frm[i].node \in DOMAIN sc /\ frm[i].cursor \in Nat /\ adv[i].cursor \in Nat
  BY <1>1, FrameTyped
<1>4. /\ stk2 \in Seq(DOMAIN sc) /\ Len(stk2) = n + 1 /\ stk2[n + 1] = v
      /\ \A i \in 1..n : stk2[i] = stk[i]
  BY <1>1
<1>5. /\ frm2 \in Seq(Frames(sc)) /\ Len(frm2) = m + 1 /\ frm2[m + 1].node = v /\ frm2[m + 1].cursor = 0
      /\ \A i \in 1..m : frm2[i].node = frm[i].node /\ frm2[i].cursor = adv[i].cursor
  <2>1. [node |-> v, cursor |-> 0] \in Frames(sc)
    BY DEF Frames
  <2>2. frm2 \in Seq(Frames(sc)) /\ Len(frm2) = m + 1 /\ frm2[m + 1] = [node |-> v, cursor |-> 0]
        /\ \A i \in 1..m : frm2[i] = adv[i]
    BY <2>1
  <2> HIDE DEF frm2
  <2> QED
    BY <2>2
<1>6. /\ idx2 \in [DOMAIN sc -> Nat] /\ idx2[v] = nxt /\ \A x \in DOMAIN sc : x # v => idx2[x] = idx[x]
      /\ low2 \in [DOMAIN sc -> Nat] /\ low2[v] = nxt /\ \A x \in DOMAIN sc : x # v => low2[x] = low[x]
  BY <1>1
<1>7. cmp[v] = 0 /\ \A x \in DOMAIN sc : idx[x] < nxt
  BY <1>1 DEF Search, Numbered
<1>8. \A x \in DOMAIN sc : Open(idx2, cmp, x) <=> x = v \/ Open(idx, cmp, x)
  BY <1>1, <1>6, <1>7 DEF Open
<1>9. \A x \in DOMAIN sc : Open(idx, cmp, x) => x # v
  BY DEF Open
<1>10. \A i \in 1..m : Open(idx, cmp, frm[i].node) /\ frm[i].node # v
  BY <1>3, <1>9 DEF Search, Framed
<1>11. \A i \in 1..n : Open(idx, cmp, stk[i]) /\ stk[i] # v
  BY <1>2, <1>9 DEF Search, Stacked
<1>12. \A i \in 1..(m + 1) : i = m + 1 \/ i \in 1..m
  BY <1>3
<1>13. \A i \in 1..(n + 1) : i = n + 1 \/ i \in 1..n
  BY <1>2
<1>14. v \in From(sc, v)
  BY BlockReach
<1> HIDE DEF idx2, low2, stk2, frm2, n, m
<1>0. nxt \in Nat
  BY <1>1
<1>01. ASSUME NEW x \in DOMAIN sc, nxt <= idx2[x] PROVE x = v
  <2>1. idx[x] \in Nat /\ idx[x] < nxt
    BY <1>1, <1>7
  <2> QED
    BY ONLY <1>0, <1>01, <1>6, <2>1, NatOrder, Zenon
<1>15. SearchTyped(sc, idx2, low2, nxt + 1, stk2, frm2, cmp)
  BY ONLY <1>1, <1>4, <1>5, <1>6 DEF SearchTyped
<1>16. Numbered(sc, idx2, nxt + 1, cmp)
  <2>1. Numbered(sc, idx, nxt, cmp)
    BY DEF Search
  <2>2. \A x \in DOMAIN sc : idx[x] \in Nat /\ idx[x] < nxt /\ (cmp[x] # 0 => idx[x] # 0)
    BY <1>1, <2>1 DEF Numbered
  <2>3. ASSUME NEW x \in DOMAIN sc PROVE idx2[x] < nxt + 1 /\ (cmp[x] # 0 => idx2[x] # 0)
    BY <1>1, <1>6, <1>7, <2>2
  <2>4. ASSUME NEW x \in DOMAIN sc, NEW y \in DOMAIN sc, idx2[x] = idx2[y], idx2[x] # 0 PROVE x = y
    <3>1. CASE x = v \/ y = v
      BY <1>1, <1>6, <2>2, <2>4, <3>1
    <3>2. CASE x # v /\ y # v
      <4>1. idx[x] = idx[y] /\ idx[x] # 0
        BY <1>6, <2>4, <3>2
      <4> QED
        BY <2>1, <4>1 DEF Numbered
    <3> QED
      BY <3>1, <3>2
  <2> QED
    BY <2>3, <2>4 DEF Numbered
<1>17. Stacked(sc, idx2, stk2, cmp)
  <2>1. \A i \in 1..Len(stk2) : Open(idx2, cmp, stk2[i])
    BY <1>2, <1>4, <1>8, <1>11, <1>13
  <2>2. ASSUME NEW x \in DOMAIN sc, Open(idx2, cmp, x) PROVE \E i \in 1..Len(stk2) : stk2[i] = x
    <3>1. CASE x = v
      BY <1>2, <1>4, <3>1
    <3>2. CASE x # v
      <4>1. PICK i \in 1..n : stk[i] = x
        BY <1>8, <2>2, <3>2 DEF Search, Stacked, n
      <4> QED
        BY <1>2, <1>4, <4>1
    <3> QED
      BY <3>1, <3>2
  <2>3. ASSUME NEW i \in 1..Len(stk2), NEW j \in 1..Len(stk2), i < j PROVE idx2[stk2[i]] < idx2[stk2[j]]
    <3>1. i \in 1..n
      BY <1>2, <1>4, <2>3
    <3>2. stk2[i] = stk[i] /\ stk[i] \in DOMAIN sc /\ idx2[stk[i]] = idx[stk[i]]
      BY <1>2, <1>4, <1>6, <1>11, <3>1
    <3>3. CASE j = n + 1
      BY <1>4, <1>6, <1>7, <3>2, <3>3
    <3>4. CASE j \in 1..n
      <4>1. stk2[j] = stk[j] /\ idx2[stk[j]] = idx[stk[j]]
        BY <1>2, <1>4, <1>6, <1>11, <3>4
      <4>2. idx[stk[i]] < idx[stk[j]]
        BY <2>3, <3>1, <3>4 DEF Search, Stacked, n
      <4> QED
        BY <3>2, <4>1, <4>2
    <3> QED
      BY <1>4, <1>13, <3>3, <3>4
  <2> QED
    BY <2>1, <2>2, <2>3 DEF Stacked
<1>18. Framed(sc, idx2, frm2, cmp)
  <2>1. ASSUME NEW i \in 1..Len(frm2)
        PROVE  Open(idx2, cmp, frm2[i].node) /\ frm2[i].cursor <= Len(sc[frm2[i].node])
    <3>1. CASE i = m + 1
      <4>1. Len(sc[v]) \in Nat
        BY SuccessorMember
      <4> QED
        BY <1>5, <1>8, <3>1, <4>1
    <3>2. CASE i \in 1..m
      BY <1>3, <1>5, <1>8, <1>10, <3>2 DEF m
    <3> QED
      BY <1>5, <1>12, <3>1, <3>2
  <2>2. ASSUME NEW i \in 1..Len(frm2), NEW j \in 1..Len(frm2), i < j
        PROVE  idx2[frm2[i].node] < idx2[frm2[j].node]
    <3>1. i \in 1..m
      BY <1>3, <1>5, <2>2
    <3>2. frm2[i].node = frm[i].node /\ frm[i].node \in DOMAIN sc /\ idx2[frm[i].node] = idx[frm[i].node]
      BY <1>3, <1>5, <1>6, <1>10, <3>1
    <3>3. CASE j = m + 1
      BY <1>5, <1>6, <1>7, <3>2, <3>3
    <3>4. CASE j \in 1..m
      <4>1. frm2[j].node = frm[j].node /\ idx2[frm[j].node] = idx[frm[j].node]
        BY <1>3, <1>5, <1>6, <1>10, <3>4
      <4>2. idx[frm[i].node] < idx[frm[j].node]
        BY <2>2, <3>1, <3>4 DEF Search, Framed, m
      <4> QED
        BY <3>2, <4>1, <4>2
    <3> QED
      BY <1>5, <1>12, <3>3, <3>4
  <2> QED
    BY <2>1, <2>2 DEF Framed
<1>19. Downward(sc, idx2, frm2, cmp)
  <2>1. ASSUME NEW i \in 1..Len(frm2), NEW x \in DOMAIN sc, Open(idx2, cmp, x), idx2[frm2[i].node] <= idx2[x]
        PROVE  x \in From(sc, frm2[i].node)
    <3>1. CASE i = m + 1
      <4>1. x = v
        BY ONLY <1>01, <1>5, <1>6, <2>1, <3>1, Zenon
      <4> QED
        BY <1>5, <1>14, <3>1, <4>1
    <3>2. CASE i \in 1..m /\ x = v
      BY <1>5, <3>2 DEF m
    <3>3. CASE i \in 1..m /\ x # v
      <4>1. Open(idx, cmp, x) /\ idx[frm[i].node] <= idx[x]
        BY <1>3, <1>5, <1>6, <1>8, <1>10, <2>1, <3>3
      <4>2. x \in From(sc, frm[i].node)
        BY <3>3, <4>1 DEF Search, Downward, m
      <4> QED
        BY <1>5, <3>3, <4>2
    <3> QED
      BY <1>5, <1>12, <3>1, <3>2, <3>3
  <2> QED
    BY <2>1 DEF Downward
<1>20. Upward(sc, idx2, frm2, cmp)
  <2>1. ASSUME NEW x \in DOMAIN sc, Open(idx2, cmp, x)
        PROVE  \E i \in 1..Len(frm2) : idx2[frm2[i].node] <= idx2[x] /\ frm2[i].node \in From(sc, x)
    <3>1. CASE x = v
      <4>1. m + 1 \in 1..Len(frm2) /\ idx2[frm2[m + 1].node] <= idx2[x] /\ frm2[m + 1].node \in From(sc, x)
        BY <1>1, <1>3, <1>5, <1>6, <1>14, <3>1
      <4> QED
        BY <4>1
    <3>2. CASE x # v
      <4>1. PICK i \in 1..m : idx[frm[i].node] <= idx[x] /\ frm[i].node \in From(sc, x)
        BY <1>8, <2>1, <3>2 DEF Search, Upward, m
      <4>2. i \in 1..Len(frm2) /\ idx2[frm2[i].node] <= idx2[x] /\ frm2[i].node \in From(sc, x)
        BY <1>3, <1>5, <1>6, <1>10, <3>2, <4>1
      <4> QED
        BY <4>2
    <3> QED
      BY <3>1, <3>2
  <2> QED
    BY <2>1 DEF Upward
<1>21. LinkReached(sc, idx2, low2, frm2, cmp)
  <2>1. ASSUME NEW i \in 1..Len(frm2)
        PROVE  /\ low2[frm2[i].node] <= idx2[frm2[i].node]
               /\ \E y \in DOMAIN sc : /\ Open(idx2, cmp, y) /\ idx2[y] = low2[frm2[i].node]
                                   /\ y \in From(sc, frm2[i].node)
    <3>1. CASE i = m + 1
      <4>1. frm2[i].node = v /\ idx2[v] = nxt /\ low2[v] = nxt /\ Open(idx2, cmp, v) /\ nxt <= nxt
        BY <1>1, <1>5, <1>6, <1>8, <3>1
      <4> QED
        BY <1>14, <4>1
    <3>2. CASE i \in 1..m
      <4>1. /\ low[frm[i].node] <= idx[frm[i].node]
            /\ \E y \in DOMAIN sc : /\ Open(idx, cmp, y) /\ idx[y] = low[frm[i].node]
                                /\ y \in From(sc, frm[i].node)
        BY <3>2 DEF Search, LinkReached, m
      <4>2. PICK y \in DOMAIN sc : Open(idx, cmp, y) /\ idx[y] = low[frm[i].node] /\ y \in From(sc, frm[i].node)
        BY <4>1
      <4>3. /\ frm2[i].node = frm[i].node /\ low2[frm[i].node] = low[frm[i].node]
            /\ idx2[frm[i].node] = idx[frm[i].node]
        BY <1>3, <1>5, <1>6, <1>10, <3>2
      <4>4. Open(idx2, cmp, y) /\ idx2[y] = idx[y]
        BY <1>6, <1>8, <1>9, <4>2
      <4> QED
        BY <4>1, <4>2, <4>3, <4>4
    <3> QED
      BY <1>5, <1>12, <3>1, <3>2
  <2> QED
    BY <2>1 DEF LinkReached
<1>22. LinkBounds(sc, idx2, low2, frm2, cmp)
  <2>1. ASSUME NEW i \in 1..Len(frm2), NEW x \in DOMAIN sc, Segment(idx2, frm2, cmp, i, x),
               NEW k \in 1..Len(sc[x]), x = frm2[i].node => k <= frm2[i].cursor
        PROVE  /\ idx2[sc[x][k]] # 0
               /\ cmp[sc[x][k]] = 0 => low2[frm2[i].node] <= idx2[sc[x][k]]
    <3>1. i \in 1..m
      <4>1. SUFFICES ASSUME i = m + 1 PROVE FALSE
        BY <1>5, <1>12
      <4>2. x = v
        BY ONLY <1>01, <1>5, <1>6, <2>1, <4>1, Zenon DEF Segment
      <4> QED
        BY <1>5, <2>1, <4>1, <4>2
    <3>2. sc[x][k] \in DOMAIN sc /\ frm[i].node \in DOMAIN sc /\ frm[i].node # v
      BY <1>3, <1>10, <3>1, SuccessorMember
    <3>3. x # v
      <4>1. SUFFICES ASSUME x = v PROVE FALSE
        OBVIOUS
      <4>2. i + 1 \in 1..Len(frm2)
        BY <1>3, <1>5, <3>1
      <4>3. idx2[x] < idx2[frm2[i + 1].node]
        BY <2>1, <4>2 DEF Segment
      <4>4. idx2[frm2[i + 1].node] <= nxt
        <5>1. CASE i + 1 = m + 1
          <6>1. idx2[frm2[i + 1].node] = nxt
            BY ONLY <1>5, <1>6, <5>1, Zenon
          <6> QED
            BY ONLY <1>0, <6>1
        <5>2. CASE i + 1 \in 1..m
          <6>1. /\ frm2[i + 1].node = frm[i + 1].node /\ frm[i + 1].node \in DOMAIN sc
                /\ idx2[frm[i + 1].node] = idx[frm[i + 1].node]
            BY <1>3, <1>5, <1>6, <1>10, <5>2
          <6>2. idx[frm[i + 1].node] < nxt /\ idx[frm[i + 1].node] \in Nat
            BY <1>1, <1>7, <6>1
          <6> QED
            BY ONLY <1>0, <6>1, <6>2, NatOrder, Zenon
        <5> QED
          BY <1>5, <1>12, <4>2, <5>1, <5>2
      <4> QED
        <5>1. frm2[i + 1].node \in DOMAIN sc
          BY <1>3, <1>5, <1>12, <4>2
        <5>2. idx2[frm2[i + 1].node] \in Nat /\ idx2[x] = nxt
          BY <1>6, <4>1, <5>1
        <5> QED
          BY ONLY <1>0, <4>3, <4>4, <5>2, NatOrder, Zenon
    <3>4. Segment(idx, frm, cmp, i, x)
      <4>1. Open(idx, cmp, x) /\ idx[frm[i].node] <= idx[x]
        BY ONLY <1>5, <1>6, <1>8, <2>1, <3>1, <3>2, <3>3 DEF Segment
      <4>2. ASSUME i + 1 \in 1..m PROVE idx[x] < idx[frm[i + 1].node]
        <5>1. i + 1 \in 1..Len(frm2)
          BY <1>3, <1>5, <4>2
        <5>2. idx2[x] < idx2[frm2[i + 1].node]
          BY <2>1, <5>1 DEF Segment
        <5> QED
          BY ONLY <1>3, <1>5, <1>6, <1>10, <3>3, <4>2, <5>2
      <4> QED
        BY <4>1, <4>2 DEF Segment, m
    <3>5. CASE x = frm[i].node => k <= frm[i].cursor
      <4>1. /\ idx[sc[x][k]] # 0
            /\ cmp[sc[x][k]] = 0 => low[frm[i].node] <= idx[sc[x][k]]
        BY <3>1, <3>4, <3>5 DEF Search, LinkBounds, m
      <4>2. sc[x][k] # v
        BY <4>1
      <4> QED
        BY <1>5, <1>6, <3>1, <3>2, <4>1, <4>2
    <3>6. CASE x = frm[i].node /\ ~(k <= frm[i].cursor)
      <4>1. k \in 1..adv[i].cursor
        BY <1>3, <1>5, <2>1, <3>1, <3>6
      <4>2. sc[x][k] = v
        BY <3>1, <3>6, <4>1 DEF m
      <4>3. low[frm[i].node] <= idx[frm[i].node]
        BY <3>1 DEF Search, LinkReached, m
      <4>4. low[frm[i].node] <= nxt
        <5>1. idx[frm[i].node] < nxt /\ idx[frm[i].node] \in Nat /\ low[frm[i].node] \in Nat
          BY <1>1, <1>7, <3>2
        <5> QED
          BY ONLY <1>0, <4>3, <5>1, NatOrder, Zenon
      <4>5. idx2[sc[x][k]] = nxt /\ low2[frm2[i].node] = low[frm[i].node]
        BY ONLY <1>5, <1>6, <3>1, <3>2, <4>2
      <4> QED
        BY <1>1, <4>4, <4>5
    <3> QED
      BY <3>5, <3>6
  <2> QED
    BY <2>1 DEF LinkBounds
<1> QED
  BY <1>15, <1>16, <1>17, <1>18, <1>19, <1>20, <1>21, <1>22 DEF Search, idx2, low2, stk2, frm2

LEMMA EnterKeeps ==
  ASSUME NEW sc, Graph(sc), NEW idx, NEW low, NEW nxt, NEW stk, NEW frm, NEW cmp,
         Search(sc, idx, low, nxt, stk, frm, cmp),
         NEW v \in DOMAIN sc, idx[v] = 0, NEW adv, Entering(sc, frm, adv, v)
  PROVE  Search(sc, [idx EXCEPT ![v] = nxt], [low EXCEPT ![v] = nxt], nxt + 1, Append(stk, v),
                Append(adv, [node |-> v, cursor |-> 0]), cmp)
<1>1. /\ adv \in Seq(Frames(sc)) /\ Len(adv) = Len(frm)
      /\ \A i \in 1..Len(frm) : /\ adv[i].node = frm[i].node /\ adv[i].cursor <= Len(sc[frm[i].node])
                                /\ \A k \in 1..adv[i].cursor : k <= frm[i].cursor \/ sc[frm[i].node][k] = v
                                /\ v \in From(sc, frm[i].node)
  BY DEF Entering
<1>2. adv \in Seq(Frames(sc))
  BY <1>1
<1>3. Len(adv) = Len(frm)
  BY <1>1
<1>4. \A i \in 1..Len(frm) : /\ adv[i].node = frm[i].node /\ adv[i].cursor <= Len(sc[frm[i].node])
                             /\ \A k \in 1..adv[i].cursor : k <= frm[i].cursor \/ sc[frm[i].node][k] = v
                             /\ v \in From(sc, frm[i].node)
  BY ONLY <1>1, Zenon
<1> QED
  BY <1>2, <1>3, <1>4, EnterPreserves, Zenon

\* A successor that is visited already: the link of the block on top takes its number if it is on the stack.
Lowering(sc, idx, low, frm, cmp, adv, u, c, low2) ==
    /\ u = frm[Len(frm)].node /\ c = frm[Len(frm)].cursor + 1 /\ c <= Len(sc[u]) /\ idx[sc[u][c]] # 0
    /\ adv \in Seq(Frames(sc)) /\ Len(adv) = Len(frm) /\ adv[Len(frm)].cursor = c
    /\ \A i \in 1..Len(frm) : adv[i].node = frm[i].node /\ (i # Len(frm) => adv[i].cursor = frm[i].cursor)
    /\ low2 = [low EXCEPT ![u] = IF cmp[sc[u][c]] = 0 THEN Smaller(low[u], idx[sc[u][c]]) ELSE low[u]]

LEMMA LowerKeeps ==
  ASSUME NEW sc, Graph(sc), NEW idx, NEW low, NEW nxt, NEW stk, NEW frm, NEW cmp,
         Search(sc, idx, low, nxt, stk, frm, cmp), frm # <<>>,
         NEW adv, NEW u, NEW c, NEW low2, Lowering(sc, idx, low, frm, cmp, adv, u, c, low2)
  PROVE  Search(sc, idx, low2, nxt, stk, adv, cmp)
<1> DEFINE m == Len(frm)
           w == sc[u][c]
           e == IF cmp[w] = 0 THEN Smaller(low[u], idx[w]) ELSE low[u]
<1>01. frm[m].node = u /\ frm[m].cursor + 1 = c /\ c <= Len(sc[u]) /\ idx[w] # 0
  BY Zenon DEF Lowering
<1>02. adv \in Seq(Frames(sc)) /\ Len(adv) = m /\ adv[m].cursor = c
  BY Zenon DEF Lowering
<1>03. \A i \in 1..m : adv[i].node = frm[i].node /\ (i # m => adv[i].cursor = frm[i].cursor)
  BY Zenon DEF Lowering
<1>04. low2 = [low EXCEPT ![u] = e]
  BY Zenon DEF Lowering
<1> HIDE DEF m, w, e
<1>1. /\ idx \in [DOMAIN sc -> Nat] /\ low \in [DOMAIN sc -> Nat] /\ nxt \in Nat /\ nxt # 0 /\ cmp \in [DOMAIN sc -> Nat]
      /\ stk \in Seq(DOMAIN sc) /\ frm \in Seq(Frames(sc))
  BY DEF Search, SearchTyped
<1>2. m \in Nat /\ m # 0 /\ m \in 1..m
  BY <1>1, NonEmptyLength DEF m
<1>3. \A i \in 1..m : frm[i].node \in DOMAIN sc /\ frm[i].cursor \in Nat
  BY <1>1, FrameTyped DEF m
<1>4. u \in DOMAIN sc /\ c \in Nat /\ c \in 1..Len(sc[u])
  <2>1. u \in DOMAIN sc /\ frm[m].cursor \in Nat
    BY <1>01, <1>2, <1>3
  <2>2. Len(sc[u]) \in Nat
    BY <2>1, SuccessorMember
  <2> QED
    BY <1>01, <2>1, <2>2
<1>5. w \in DOMAIN sc /\ w \in From(sc, u)
  BY <1>4, SuccessorMember, BlockReach DEF w
<1>6. /\ low2 \in [DOMAIN sc -> Nat] /\ \A x \in DOMAIN sc : x # u => low2[x] = low[x]
      /\ low2[u] <= low[u] /\ (cmp[w] = 0 => low2[u] <= idx[w])
      /\ low2[u] = low[u] \/ (cmp[w] = 0 /\ low2[u] = idx[w])
  <2>2. low[u] \in Nat /\ idx[w] \in Nat
    BY <1>1, <1>4, <1>5
  <2>3. e \in Nat /\ e <= low[u] /\ (cmp[w] = 0 => e <= idx[w]) /\ (e = low[u] \/ (cmp[w] = 0 /\ e = idx[w]))
    BY ONLY <2>2 DEF e, Smaller
  <2>4. low2 \in [DOMAIN sc -> Nat] /\ low2[u] = e /\ \A x \in DOMAIN sc : x # u => low2[x] = low[x]
    BY <1>04, <1>1, <1>4, <2>3
  <2> QED
    BY <2>3, <2>4
<1>7. ASSUME NEW x \in DOMAIN sc PROVE low2[x] <= low[x] /\ low[x] \in Nat /\ low2[x] \in Nat /\ idx[x] \in Nat
  <2>1. low[x] \in Nat /\ low2[x] \in Nat /\ idx[x] \in Nat
    BY <1>1, <1>6
  <2>2. CASE x = u
    BY <1>6, <2>1, <2>2
  <2>3. CASE x # u
    BY <1>6, <2>1, <2>3
  <2> QED
    BY <2>2, <2>3
<1>9. SearchTyped(sc, idx, low2, nxt, stk, adv, cmp)
  BY <1>02, <1>1, <1>6 DEF SearchTyped
<1>10. Framed(sc, idx, adv, cmp)
  <2>1. Framed(sc, idx, frm, cmp)
    BY DEF Search
  <2>2. ASSUME NEW i \in 1..m PROVE Open(idx, cmp, adv[i].node) /\ adv[i].cursor <= Len(sc[adv[i].node])
    <3>1. adv[i].node = frm[i].node /\ Open(idx, cmp, frm[i].node) /\ frm[i].cursor <= Len(sc[frm[i].node])
      BY <1>03, <2>1 DEF Framed, m
    <3>2. CASE i = m
      BY <1>01, <1>02, <3>1, <3>2
    <3>3. CASE i # m
      BY <1>03, <3>1, <3>3
    <3> QED
      BY <3>2, <3>3
  <2>3. \A i, j \in 1..m : i < j => idx[adv[i].node] < idx[adv[j].node]
    BY <1>03, <2>1 DEF Framed, m
  <2> QED
    BY <1>02, <2>2, <2>3 DEF Framed
<1>11. Downward(sc, idx, adv, cmp)
  BY <1>02, <1>03 DEF Search, Downward, m
<1>12. Upward(sc, idx, adv, cmp)
  BY <1>02, <1>03 DEF Search, Upward, m
<1>13. LinkReached(sc, idx, low2, adv, cmp)
  <2>1. ASSUME NEW i \in 1..m
        PROVE  /\ low2[adv[i].node] <= idx[adv[i].node]
               /\ \E y \in DOMAIN sc : /\ Open(idx, cmp, y) /\ idx[y] = low2[adv[i].node]
                                       /\ y \in From(sc, adv[i].node)
    <3> DEFINE v == frm[i].node
    <3>1. adv[i].node = v /\ v \in DOMAIN sc
      BY <1>03, <1>3
    <3>2. low[v] <= idx[v] /\ \E y \in DOMAIN sc : Open(idx, cmp, y) /\ idx[y] = low[v] /\ y \in From(sc, v)
      BY DEF Search, LinkReached, m
    <3> HIDE DEF v
    <3>3. low2[v] <= idx[v]
      <4>1. low2[v] <= low[v] /\ low[v] \in Nat /\ low2[v] \in Nat /\ idx[v] \in Nat
        BY <1>7, <3>1
      <4> QED
        BY ONLY <3>2, <4>1
    <3>4. CASE low2[v] = low[v]
      BY <3>1, <3>2, <3>3, <3>4
    <3>5. CASE low2[v] # low[v]
      <4>1. v = u /\ cmp[w] = 0 /\ low2[u] = idx[w]
        BY <1>6, <3>1, <3>5
      <4>2. Open(idx, cmp, w)
        BY <1>01, <4>1 DEF Open
      <4> QED
        BY <1>5, <3>1, <3>3, <4>1, <4>2
    <3> QED
      BY <3>4, <3>5
  <2> QED
    BY <1>02, <2>1 DEF LinkReached
<1>14. LinkBounds(sc, idx, low2, adv, cmp)
  <2>1. ASSUME NEW i \in 1..m, NEW x \in DOMAIN sc, Segment(idx, adv, cmp, i, x),
               NEW k \in 1..Len(sc[x]), x = adv[i].node => k <= adv[i].cursor
        PROVE  /\ idx[sc[x][k]] # 0
               /\ cmp[sc[x][k]] = 0 => low2[adv[i].node] <= idx[sc[x][k]]
    <3>1. adv[i].node = frm[i].node /\ frm[i].node \in DOMAIN sc /\ frm[i].cursor \in Nat
      BY <1>03, <1>3
    <3>2. Segment(idx, frm, cmp, i, x)
      <4>1. i + 1 \in 1..m => adv[i + 1].node = frm[i + 1].node
        BY <1>03
      <4> QED
        BY <1>02, <2>1, <3>1, <4>1 DEF Segment, m
    <3>3. sc[x][k] \in DOMAIN sc /\ k \in Nat
      BY SuccessorMember
    <3>4. CASE x = frm[i].node => k <= frm[i].cursor
      <4>1. /\ idx[sc[x][k]] # 0
            /\ cmp[sc[x][k]] = 0 => low[frm[i].node] <= idx[sc[x][k]]
        BY <3>2, <3>4 DEF Search, LinkBounds, m
      <4>2. /\ low2[frm[i].node] <= low[frm[i].node] /\ low[frm[i].node] \in Nat
            /\ low2[frm[i].node] \in Nat /\ idx[sc[x][k]] \in Nat
        BY <1>7, <3>1, <3>3
      <4> QED
        BY ONLY <3>1, <4>1, <4>2
    <3>5. CASE x = frm[i].node /\ ~(k <= frm[i].cursor)
      <4>1. k <= adv[i].cursor
        BY <2>1, <3>1, <3>5
      <4>2. i = m
        BY <1>03, <3>5, <4>1
      <4>3. x = u /\ k = c
        <5>1. x = frm[m].node /\ k <= adv[m].cursor /\ ~(k <= frm[m].cursor) /\ frm[m].cursor \in Nat
          BY <3>1, <3>5, <4>1, <4>2
        <5>2. x = u /\ k <= frm[m].cursor + 1
          BY <1>01, <1>02, <5>1
        <5> QED
          BY <1>01, <3>3, <5>1, <5>2
      <4>4. sc[x][k] = w
        BY <4>3 DEF w
      <4> QED
        BY <1>01, <1>6, <3>1, <3>5, <4>3, <4>4
    <3> QED
      BY <3>4, <3>5
  <2> QED
    BY <1>02, <2>1 DEF LinkBounds
<1> QED
  BY <1>9, <1>10, <1>11, <1>12, <1>13, <1>14 DEF Search

LEMMA PrefixFacts ==
  ASSUME NEW T, NEW s \in Seq(T), NEW n \in 0..Len(s)
  PROVE  /\ SubSeq(s, 1, n) \in Seq(T) /\ Len(SubSeq(s, 1, n)) = n
         /\ \A i \in 1..n : SubSeq(s, 1, n)[i] = s[i]
<1>1. n \in Nat /\ Len(s) \in Nat /\ n <= Len(s)
  OBVIOUS
<1>2. \A i \in 1..n : s[i] \in T
  OBVIOUS
<1>3. SubSeq(s, 1, n) = [i \in 1..n |-> s[i]]
  BY <1>1
<1>4. [i \in 1..n |-> s[i]] \in Seq(T)
  BY <1>1, <1>2
<1> QED
  BY <1>1, <1>3, <1>4

\* The last frame and its block.
Topmost(frm, m, u) == m = Len(frm) /\ u = frm[m].node

\* The links after p's has taken u's.
Linked(low, p, u) == [low EXCEPT ![p] = Smaller(low[p], low[u])]

\* A block that is no root is left: its link goes to the block that entered it.
LEMMA LeaveKeeps ==
  ASSUME NEW sc, Graph(sc), NEW idx, NEW low, NEW nxt, NEW stk, NEW frm, NEW cmp,
         Search(sc, idx, low, nxt, stk, frm, cmp), frm # <<>>,
         NEW m, m = Len(frm), NEW u, u = frm[m].node, Topmost(frm, m, u), frm[m].cursor >= Len(sc[u]), low[u] # idx[u]
  PROVE  /\ m - 1 \in 1..m
         /\ \A p : p = frm[m - 1].node =>
               Search(sc, idx, Linked(low, p, u), nxt, stk, SubSeq(frm, 1, m - 1), cmp)
<1>1. /\ idx \in [DOMAIN sc -> Nat] /\ low \in [DOMAIN sc -> Nat] /\ nxt \in Nat /\ nxt # 0 /\ cmp \in [DOMAIN sc -> Nat]
      /\ stk \in Seq(DOMAIN sc) /\ frm \in Seq(Frames(sc))
  BY DEF Search, SearchTyped
<1>2. m \in Nat /\ m # 0 /\ m \in 1..m
  BY <1>1
<1>3. \A i \in 1..m : frm[i].node \in DOMAIN sc /\ frm[i].cursor \in Nat
  BY <1>1, FrameTyped
<1>4. u \in DOMAIN sc /\ idx[u] \in Nat /\ low[u] \in Nat
  BY <1>1, <1>2, <1>3
<1>5. PICK y \in DOMAIN sc : Open(idx, cmp, y) /\ idx[y] = low[u] /\ y \in From(sc, u)
  BY <1>2 DEF Search, LinkReached
<1>6. low[u] < idx[u]
  <2>1. low[u] <= idx[u]
    BY <1>2 DEF Search, LinkReached
  <2> QED
    BY <1>4, <2>1
<1>7. PICK j \in 1..m : idx[frm[j].node] <= idx[y] /\ frm[j].node \in From(sc, y)
  BY <1>5 DEF Search, Upward
<1>8. j # m
  <2>1. idx[frm[j].node] <= low[u] /\ idx[frm[j].node] \in Nat
    BY <1>1, <1>3, <1>5, <1>7
  <2> QED
    BY <1>4, <1>6, <2>1
<1>9. m - 1 \in 1..m /\ m - 1 \in Nat /\ m - 1 \in 0..Len(frm) /\ \A i \in 1..m : i # m => i \in 1..(m - 1)
  BY <1>2, <1>8
<1>10. frm[j].node \in From(sc, u)
  BY <1>4, <1>5, <1>7, BlockReach
<1>11. SUFFICES ASSUME NEW p, p = frm[m - 1].node
                PROVE  Search(sc, idx, Linked(low, p, u), nxt, stk, SubSeq(frm, 1, m - 1), cmp)
  BY <1>9
<1> DEFINE frm2 == SubSeq(frm, 1, m - 1)
           low2 == [low EXCEPT ![p] = Smaller(low[p], low[u])]
<1>12. frm2 \in Seq(Frames(sc)) /\ Len(frm2) = m - 1 /\ \A i \in 1..(m - 1) : i \in 1..m /\ frm2[i] = frm[i]
  BY <1>1, <1>9, PrefixFacts
<1>13. p \in DOMAIN sc /\ low[p] \in Nat
  BY <1>1, <1>3, <1>9, <1>11
<1>14. /\ low2 \in [DOMAIN sc -> Nat] /\ \A x \in DOMAIN sc : x # p => low2[x] = low[x]
       /\ low2[p] <= low[p] /\ low2[p] <= low[u] /\ (low2[p] = low[p] \/ low2[p] = low[u])
  <2> DEFINE e == Smaller(low[p], low[u])
  <2>1. e \in Nat /\ e <= low[p] /\ e <= low[u] /\ (e = low[p] \/ e = low[u])
    BY <1>4, <1>13 DEF Smaller
  <2>2. low2 = [low EXCEPT ![p] = e]
    OBVIOUS
  <2> HIDE DEF e
  <2>3. low2 \in [DOMAIN sc -> Nat] /\ low2[p] = e /\ \A x \in DOMAIN sc : x # p => low2[x] = low[x]
    BY <1>1, <1>13, <2>1, <2>2
  <2> HIDE DEF low2
  <2> QED
    BY <2>1, <2>3
<1>15. \A x \in DOMAIN sc : low[x] \in Nat /\ low2[x] \in Nat /\ idx[x] \in Nat
  BY <1>1, <1>14
<1>16. ASSUME NEW x \in DOMAIN sc PROVE low2[x] <= low[x]
  <2>1. CASE x = p
    BY <1>14, <2>1
  <2>2. CASE x # p
    <3>1. low2[x] = low[x]
      BY <1>14, <2>2
    <3> QED
      BY <1>15, <3>1
  <2> QED
    BY <2>1, <2>2
<1> HIDE DEF frm2, low2
<1>17. SearchTyped(sc, idx, low2, nxt, stk, frm2, cmp)
  BY <1>1, <1>12, <1>14 DEF SearchTyped
<1>18. Framed(sc, idx, frm2, cmp)
  BY <1>12 DEF Search, Framed
<1>19. Downward(sc, idx, frm2, cmp)
  BY <1>12 DEF Search, Downward
<1>20. Upward(sc, idx, frm2, cmp)
  <2>1. ASSUME NEW x \in DOMAIN sc, Open(idx, cmp, x)
        PROVE  \E i \in 1..Len(frm2) : idx[frm2[i].node] <= idx[x] /\ frm2[i].node \in From(sc, x)
    <3>1. PICK i \in 1..m : idx[frm[i].node] <= idx[x] /\ frm[i].node \in From(sc, x)
      BY <2>1 DEF Search, Upward
    <3>2. CASE i # m
      BY <1>9, <1>12, <3>1, <3>2
    <3>3. CASE i = m
      <4>1. j \in 1..(m - 1) /\ frm2[j] = frm[j]
        BY <1>8, <1>9, <1>12
      <4>2. frm[j].node \in From(sc, x)
        BY <1>10, <3>1, <3>3, BlockReach
      <4>3. idx[frm[j].node] <= idx[x]
        <5>1. idx[frm[j].node] \in Nat /\ idx[x] \in Nat /\ idx[y] \in Nat
          BY <1>3, <1>15
        <5>2. idx[u] <= idx[x]
          BY <3>1, <3>3
        <5> QED
          BY <1>4, <1>5, <1>6, <1>7, <5>1, <5>2
      <4> QED
        BY <1>12, <4>1, <4>2, <4>3
    <3> QED
      BY <3>2, <3>3
  <2> QED
    BY <2>1 DEF Upward
<1>21. p \in DOMAIN sc /\ idx[p] < idx[u] /\ Open(idx, cmp, u) /\ u \in From(sc, p)
  <2>1. idx[p] < idx[u] /\ Open(idx, cmp, u)
    <3>1. Framed(sc, idx, frm, cmp)
      BY DEF Search
    <3>2. m - 1 < m
      BY <1>2
    <3> QED
      BY ONLY <1>2, <1>9, <1>11, <3>1, <3>2, m = Len(frm), u = frm[m].node DEF Framed
  <2>2. idx[p] <= idx[u]
    BY <1>4, <1>13, <1>15, <2>1
  <2>3. u \in From(sc, p)
    BY <1>4, <1>9, <1>11, <2>1, <2>2 DEF Search, Downward
  <2> QED
    BY <1>13, <2>1, <2>3
<1>22. LinkReached(sc, idx, low2, frm2, cmp)
  <2>1. ASSUME NEW i \in 1..(m - 1)
        PROVE  /\ low2[frm2[i].node] <= idx[frm2[i].node]
               /\ \E z \in DOMAIN sc : /\ Open(idx, cmp, z) /\ idx[z] = low2[frm2[i].node]
                                   /\ z \in From(sc, frm2[i].node)
    <3>1. i \in 1..m /\ frm2[i].node = frm[i].node /\ frm[i].node \in DOMAIN sc
      BY <1>3, <1>12
    <3>2. /\ low[frm[i].node] <= idx[frm[i].node]
          /\ \E z \in DOMAIN sc : /\ Open(idx, cmp, z) /\ idx[z] = low[frm[i].node]
                              /\ z \in From(sc, frm[i].node)
      BY <3>1 DEF Search, LinkReached
    <3>3. low2[frm[i].node] <= idx[frm[i].node]
      <4>1. /\ low2[frm[i].node] <= low[frm[i].node] /\ low[frm[i].node] \in Nat
            /\ low2[frm[i].node] \in Nat /\ idx[frm[i].node] \in Nat
        BY <1>15, <1>16, <3>1
      <4> QED
        BY <3>2, <4>1
    <3>4. CASE low2[frm[i].node] = low[frm[i].node]
      BY <3>1, <3>2, <3>3, <3>4
    <3>5. CASE low2[frm[i].node] # low[frm[i].node]
      <4>1. frm[i].node = p /\ low2[p] = low[u]
        BY <1>14, <3>1, <3>5
      <4>2. y \in From(sc, p)
        BY <1>5, <1>21, BlockReach
      <4> QED
        BY <1>5, <3>1, <3>3, <4>1, <4>2
    <3> QED
      BY <3>4, <3>5
  <2> QED
    BY <1>12, <2>1 DEF LinkReached
<1>23. LinkBounds(sc, idx, low2, frm2, cmp)
  <2>1. ASSUME NEW i \in 1..(m - 1), NEW x \in DOMAIN sc, Segment(idx, frm2, cmp, i, x),
               NEW k \in 1..Len(sc[x]), x = frm2[i].node => k <= frm2[i].cursor
        PROVE  /\ idx[sc[x][k]] # 0
               /\ cmp[sc[x][k]] = 0 => low2[frm2[i].node] <= idx[sc[x][k]]
    <3>1. i \in 1..m /\ frm2[i] = frm[i] /\ frm[i].node \in DOMAIN sc
      BY <1>3, <1>12
    <3>2. sc[x][k] \in DOMAIN sc /\ idx[x] \in Nat
      BY <1>15, SuccessorMember
    <3>3. /\ low2[frm[i].node] <= low[frm[i].node] /\ low[frm[i].node] \in Nat
          /\ low2[frm[i].node] \in Nat /\ idx[sc[x][k]] \in Nat
      BY <1>15, <1>16, <3>1, <3>2
    <3>4. CASE Segment(idx, frm, cmp, i, x)
      <4>1. /\ idx[sc[x][k]] # 0
            /\ cmp[sc[x][k]] = 0 => low[frm[i].node] <= idx[sc[x][k]]
        BY <2>1, <3>1, <3>4 DEF Search, LinkBounds
      <4> QED
        BY <3>1, <3>3, <4>1
    <3>5. CASE ~Segment(idx, frm, cmp, i, x)
      <4>1. Open(idx, cmp, x) /\ idx[frm[i].node] <= idx[x]
        BY <2>1, <3>1 DEF Segment
      <4>2. i + 1 \in 1..m /\ ~(idx[x] < idx[frm[i + 1].node])
        BY <3>5, <4>1 DEF Segment
      <4>3. i = m - 1
        <5>1. SUFFICES ASSUME i # m - 1 PROVE FALSE
          OBVIOUS
        <5>2. i + 1 \in 1..(m - 1)
          BY <1>9, <4>2, <5>1
        <5>3. idx[x] < idx[frm2[i + 1].node] /\ frm2[i + 1] = frm[i + 1]
          BY <1>12, <2>1, <5>2 DEF Segment
        <5> QED
          BY <4>2, <5>3
      <4>4. i + 1 = m /\ frm[i].node = p
        BY <1>2, <1>11, <4>3
      <4>5. idx[u] <= idx[x]
        BY <1>4, <3>2, <4>2, <4>4
      <4>6. Segment(idx, frm, cmp, m, x)
        BY <1>2, <4>1, <4>5 DEF Segment
      <4>7. x = u => k <= frm[m].cursor
        <5>1. frm[m].cursor \in Nat /\ Len(sc[u]) \in Nat
          BY <1>2, <1>3, <1>4, SuccessorMember
        <5> QED
          BY <5>1
      <4>8. /\ idx[sc[x][k]] # 0
            /\ cmp[sc[x][k]] = 0 => low[u] <= idx[sc[x][k]]
        BY <1>2, <4>6, <4>7 DEF Search, LinkBounds
      <4>9. low2[p] <= low[u] /\ low2[p] \in Nat
        BY <1>14, <1>15, <1>21
      <4> QED
        BY ONLY <1>4, <3>1, <3>3, <4>4, <4>8, <4>9
    <3> QED
      BY <3>4, <3>5
  <2> QED
    BY <1>12, <2>1 DEF LinkBounds
<1> QED
  BY <1>17, <1>18, <1>19, <1>20, <1>22, <1>23 DEF Search, frm2, low2, Linked

\* What a root takes from the stack: everything from itself upward.
Parted(sc, idx, cmp, stk, u, pos) ==
    /\ \A x \in DOMAIN sc : (\E i \in pos..Len(stk) : stk[i] = x) <=> (Open(idx, cmp, x) /\ idx[u] <= idx[x])
    /\ \A x \in DOMAIN sc : (\E i \in 1..(pos - 1) : stk[i] = x) <=> (Open(idx, cmp, x) /\ idx[x] < idx[u])
    /\ \A i \in 1..Len(stk) : stk[i] \in DOMAIN sc

LEMMA TakenFromRoot ==
  ASSUME NEW sc, Graph(sc), NEW idx, NEW low, NEW nxt, NEW stk, NEW frm, NEW cmp,
         Search(sc, idx, low, nxt, stk, frm, cmp),
         NEW u \in DOMAIN sc, NEW pos \in 1..Len(stk), stk[pos] = u
  PROVE  Parted(sc, idx, cmp, stk, u, pos)
<1>1. stk \in Seq(DOMAIN sc) /\ idx \in [DOMAIN sc -> Nat]
  BY DEF Search, SearchTyped
<1>2. Len(stk) \in Nat /\ pos \in Nat /\ \A i \in 1..Len(stk) : stk[i] \in DOMAIN sc
  BY <1>1
<1>3. \A x \in DOMAIN sc : idx[x] \in Nat
  BY <1>1
<1>4. Stacked(sc, idx, stk, cmp)
  BY DEF Search
<1>5. ASSUME NEW i \in 1..Len(stk) PROVE (i >= pos <=> idx[u] <= idx[stk[i]]) /\ (i < pos <=> idx[stk[i]] < idx[u])
  <2>1. idx[u] \in Nat /\ idx[stk[i]] \in Nat /\ i \in Nat
    BY <1>2, <1>3
  <2>2. CASE i < pos
    <3>1. idx[stk[i]] < idx[u]
      BY <1>4, <2>2 DEF Stacked
    <3> QED
      BY <1>2, <2>1, <2>2, <3>1
  <2>3. CASE i = pos
    BY <1>2, <2>1, <2>3
  <2>4. CASE i > pos
    <3>1. idx[u] < idx[stk[i]]
      BY <1>2, <1>4, <2>1, <2>4 DEF Stacked
    <3> QED
      BY <1>2, <2>1, <2>4, <3>1
  <2> QED
    BY <1>2, <2>1, <2>2, <2>3, <2>4
<1>6. /\ \A i \in 1..Len(stk) : Open(idx, cmp, stk[i])
      /\ \A x \in DOMAIN sc : Open(idx, cmp, x) => \E i \in 1..Len(stk) : stk[i] = x
  BY <1>4 DEF Stacked
<1>7. ASSUME NEW x \in DOMAIN sc
      PROVE  (\E i \in pos..Len(stk) : stk[i] = x) <=> (Open(idx, cmp, x) /\ idx[u] <= idx[x])
  <2>1. ASSUME NEW i \in pos..Len(stk), stk[i] = x PROVE Open(idx, cmp, x) /\ idx[u] <= idx[x]
    <3>1. i \in 1..Len(stk) /\ i >= pos
      BY <1>2
    <3> QED
      BY <1>5, <1>6, <2>1, <3>1
  <2>2. ASSUME Open(idx, cmp, x), idx[u] <= idx[x] PROVE \E i \in pos..Len(stk) : stk[i] = x
    <3>1. PICK i \in 1..Len(stk) : stk[i] = x
      BY <1>6, <2>2
    <3>2. i >= pos
      BY <1>5, <2>2, <3>1
    <3> QED
      BY <1>2, <3>1, <3>2
  <2> QED
    BY <2>1, <2>2
<1>8. ASSUME NEW x \in DOMAIN sc
      PROVE  (\E i \in 1..(pos - 1) : stk[i] = x) <=> (Open(idx, cmp, x) /\ idx[x] < idx[u])
  <2>1. ASSUME NEW i \in 1..(pos - 1), stk[i] = x PROVE Open(idx, cmp, x) /\ idx[x] < idx[u]
    <3>1. i \in 1..Len(stk) /\ i < pos
      BY <1>2
    <3> QED
      BY <1>5, <1>6, <2>1, <3>1
  <2>2. ASSUME Open(idx, cmp, x), idx[x] < idx[u] PROVE \E i \in 1..(pos - 1) : stk[i] = x
    <3>1. PICK i \in 1..Len(stk) : stk[i] = x
      BY <1>6, <2>2
    <3>2. i < pos
      BY <1>5, <2>2, <3>1
    <3> QED
      BY <1>2, <3>1, <3>2
  <2> QED
    BY <2>1, <2>2
<1> QED
  BY ONLY <1>2, <1>7, <1>8, Zenon DEF Parted

LEMMA PositionBefore ==
  ASSUME NEW T, NEW s \in Seq(T), NEW n \in 1..Len(s)
  PROVE  n \in Nat /\ n - 1 \in 0..Len(s) /\ Len(s) \in Nat
OBVIOUS

LEMMA FrontFacts ==
  ASSUME NEW T, NEW s \in Seq(T), NEW n \in 1..Len(s)
  PROVE  /\ SubSeq(s, 1, n - 1) \in Seq(T) /\ Len(SubSeq(s, 1, n - 1)) = n - 1
         /\ \A i \in 1..(n - 1) : i \in 1..Len(s) /\ SubSeq(s, 1, n - 1)[i] = s[i]
<1>1. n - 1 \in 0..Len(s) /\ n \in Nat /\ Len(s) \in Nat
  BY PositionBefore
<1>2. \A i \in 1..(n - 1) : i \in 1..Len(s)
  BY <1>1
<1> QED
  BY <1>1, <1>2, PrefixFacts

Renumbered(sc, cmp2, cmp, stk, pos, K) ==
    \A b \in DOMAIN sc : cmp2[b] = IF \E i \in pos..Len(stk) : stk[i] = b THEN K ELSE cmp[b]

\* A root is left: the blocks above it are one component.
LEMMA RootKeeps ==
  ASSUME NEW sc, Graph(sc), NEW idx, NEW low, NEW nxt, NEW stk, NEW frm, NEW cmp,
         Search(sc, idx, low, nxt, stk, frm, cmp), frm # <<>>,
         NEW m, m = Len(frm), NEW u, u = frm[m].node, Topmost(frm, m, u), frm[m].cursor >= Len(sc[u]), low[u] = idx[u],
         NEW pos \in 1..Len(stk), stk[pos] = u,
         NEW K \in Nat, \A x \in DOMAIN sc : cmp[x] < K,
         NEW cmp2 \in [DOMAIN sc -> Nat], Renumbered(sc, cmp2, cmp, stk, pos, K)
  PROVE  Search(sc, idx, low, nxt, SubSeq(stk, 1, pos - 1), SubSeq(frm, 1, m - 1), cmp2)
<1>1. /\ idx \in [DOMAIN sc -> Nat] /\ low \in [DOMAIN sc -> Nat] /\ nxt \in Nat /\ nxt # 0 /\ cmp \in [DOMAIN sc -> Nat]
      /\ stk \in Seq(DOMAIN sc) /\ frm \in Seq(Frames(sc)) /\ nxt \in Nat \ {0}
  BY DEF Search, SearchTyped
<1>2. m \in Nat /\ m # 0 /\ m \in 1..m /\ m - 1 \in Nat /\ m - 1 \in 0..Len(frm)
  BY <1>1, NonEmptyLength
<1>3. \A i \in 1..m : frm[i].node \in DOMAIN sc /\ frm[i].cursor \in Nat
  BY <1>1, FrameTyped
<1>4. \A x \in DOMAIN sc : low[x] \in Nat /\ idx[x] \in Nat /\ cmp[x] \in Nat
  BY <1>1
<1>5. u \in DOMAIN sc /\ idx[u] \in Nat /\ low[u] \in Nat /\ Open(idx, cmp, u)
  BY <1>2, <1>3, <1>4 DEF Search, Framed
<1>6. pos \in Nat /\ pos - 1 \in 0..Len(stk) /\ Len(stk) \in Nat
  BY <1>1, PositionBefore
<1> DEFINE Taken(x) == Open(idx, cmp, x) /\ idx[u] <= idx[x]
           stk2 == SubSeq(stk, 1, pos - 1)
           frm2 == SubSeq(frm, 1, m - 1)
<1>7. /\ \A x \in DOMAIN sc : (\E i \in pos..Len(stk) : stk[i] = x) <=> Taken(x)
      /\ \A x \in DOMAIN sc : (\E i \in 1..(pos - 1) : stk[i] = x) <=> (Open(idx, cmp, x) /\ idx[x] < idx[u])
      /\ \A i \in 1..Len(stk) : stk[i] \in DOMAIN sc
  <2>1. u \in DOMAIN sc
    BY <1>5
  <2>2. /\ Graph(sc) /\ Search(sc, idx, low, nxt, stk, frm, cmp)
        /\ pos \in 1..Len(stk) /\ stk[pos] = u
    OBVIOUS
  <2>3. Parted(sc, idx, cmp, stk, u, pos)
    BY ONLY <2>1, <2>2, TakenFromRoot, Zenon
  <2> QED
    BY ONLY <2>3, Zenon DEF Parted
<1>8. frm2 \in Seq(Frames(sc)) /\ Len(frm2) = m - 1 /\ \A i \in 1..(m - 1) : i \in 1..m /\ frm2[i] = frm[i]
  <2>1. frm \in Seq(Frames(sc)) /\ m \in 1..Len(frm)
    BY <1>1, <1>2
  <2>2. /\ SubSeq(frm, 1, m - 1) \in Seq(Frames(sc)) /\ Len(SubSeq(frm, 1, m - 1)) = m - 1
        /\ \A i \in 1..(m - 1) : i \in 1..Len(frm) /\ SubSeq(frm, 1, m - 1)[i] = frm[i]
    BY ONLY <2>1, FrontFacts
  <2> QED
    BY <2>2
<1>9. stk2 \in Seq(DOMAIN sc) /\ Len(stk2) = pos - 1 /\ \A i \in 1..(pos - 1) : i \in 1..Len(stk) /\ stk2[i] = stk[i]
  <2>1. stk \in Seq(DOMAIN sc) /\ pos \in 1..Len(stk)
    BY <1>1
  <2>2. /\ SubSeq(stk, 1, pos - 1) \in Seq(DOMAIN sc) /\ Len(SubSeq(stk, 1, pos - 1)) = pos - 1
        /\ \A i \in 1..(pos - 1) : i \in 1..Len(stk) /\ SubSeq(stk, 1, pos - 1)[i] = stk[i]
    BY ONLY <2>1, FrontFacts
  <2> QED
    BY <2>2
<1>10. K # 0
  BY <1>4, <1>5
<1>11. \A x \in DOMAIN sc : cmp2[x] = IF Taken(x) THEN K ELSE cmp[x]
  <2> HIDE DEF Taken
  <2> QED
    BY <1>7 DEF Renumbered
<1>12. cmp2 \in [DOMAIN sc -> Nat]
  BY <1>1
<1>13. \A i \in 1..(m - 1) : /\ frm[i].node \in DOMAIN sc /\ Open(idx, cmp, frm[i].node)
                             /\ idx[frm[i].node] < idx[u] /\ ~Taken(frm[i].node)
  <2>1. ASSUME NEW i \in 1..(m - 1)
        PROVE  /\ frm[i].node \in DOMAIN sc /\ Open(idx, cmp, frm[i].node) /\ idx[frm[i].node] < idx[u]
    <3>1. i \in 1..m /\ i < m
      BY <1>2
    <3> QED
      BY <1>2, <1>3, <3>1 DEF Search, Framed
  <2> QED
    BY ONLY <1>4, <1>5, <2>1, NatOrder, Zenon
<1>14. ASSUME NEW x \in DOMAIN sc PROVE Open(idx, cmp2, x) <=> (Open(idx, cmp, x) /\ idx[x] < idx[u])
  BY <1>4, <1>5, <1>10, <1>11 DEF Open
<1>15. \A x \in DOMAIN sc : Open(idx, cmp2, x) => Open(idx, cmp, x) /\ cmp2[x] = cmp[x]
  BY <1>4, <1>5, <1>11, <1>14
<1> HIDE DEF Taken, stk2, frm2
<1>16. SearchTyped(sc, idx, low, nxt, stk2, frm2, cmp2)
  BY <1>1, <1>8, <1>9, <1>12 DEF SearchTyped
<1>17. Numbered(sc, idx, nxt, cmp2)
  <2>1. Numbered(sc, idx, nxt, cmp)
    BY DEF Search
  <2>2. ASSUME NEW x \in DOMAIN sc, cmp2[x] # 0 PROVE idx[x] # 0
    <3>1. CASE Taken(x)
      BY <3>1 DEF Taken, Open
    <3>2. CASE ~Taken(x)
      BY <1>11, <2>1, <2>2, <3>2 DEF Numbered
    <3> QED
      BY <3>1, <3>2
  <2> QED
    BY <2>1, <2>2 DEF Numbered
<1>18. Stacked(sc, idx, stk2, cmp2)
  <2>1. \A i \in 1..Len(stk2) : stk2[i] = stk[i] /\ stk[i] \in DOMAIN sc /\ i \in 1..Len(stk)
    BY <1>7, <1>9
  <2>2. \A i \in 1..Len(stk2) : Open(idx, cmp2, stk2[i])
    BY <1>7, <1>9, <1>14, <2>1
  <2>3. \A x \in DOMAIN sc : Open(idx, cmp2, x) => \E i \in 1..Len(stk2) : stk2[i] = x
    BY <1>7, <1>9, <1>14, <2>1
  <2>4. \A i, j \in 1..Len(stk2) : i < j => idx[stk2[i]] < idx[stk2[j]]
    BY <2>1 DEF Search, Stacked
  <2> QED
    BY <2>2, <2>3, <2>4 DEF Stacked
<1>19. Framed(sc, idx, frm2, cmp2)
  <2>1. Framed(sc, idx, frm, cmp)
    BY DEF Search
  <2>2. ASSUME NEW i \in 1..Len(frm2)
        PROVE  Open(idx, cmp2, frm2[i].node) /\ frm2[i].cursor <= Len(sc[frm2[i].node])
    <3>1. i \in 1..(m - 1) /\ i \in 1..m /\ frm2[i] = frm[i]
      BY <1>8
    <3>2. Open(idx, cmp2, frm[i].node)
      BY <1>13, <1>14, <3>1
    <3> QED
      BY <2>1, <3>1, <3>2 DEF Framed
  <2>3. ASSUME NEW i \in 1..Len(frm2), NEW j \in 1..Len(frm2), i < j PROVE idx[frm2[i].node] < idx[frm2[j].node]
    BY <1>8, <2>1, <2>3 DEF Framed
  <2> QED
    BY <2>2, <2>3 DEF Framed
<1>20. Downward(sc, idx, frm2, cmp2)
  <2>1. Downward(sc, idx, frm, cmp)
    BY DEF Search
  <2> QED
    BY <1>8, <1>15, <2>1 DEF Downward
<1>21. Upward(sc, idx, frm2, cmp2)
  <2>1. ASSUME NEW x \in DOMAIN sc, Open(idx, cmp2, x)
        PROVE  \E i \in 1..Len(frm2) : idx[frm2[i].node] <= idx[x] /\ frm2[i].node \in From(sc, x)
    <3>1. Open(idx, cmp, x) /\ idx[x] < idx[u]
      BY <1>14, <2>1
    <3>2. PICK i \in 1..m : idx[frm[i].node] <= idx[x] /\ frm[i].node \in From(sc, x)
      BY <3>1 DEF Search, Upward
    <3>3. i # m
      BY <1>4, <1>5, <3>1, <3>2
    <3>4. i \in 1..(m - 1)
      BY <1>2, <3>3
    <3> QED
      BY <1>8, <3>2, <3>4
  <2> QED
    BY <2>1 DEF Upward
<1>22. LinkReached(sc, idx, low, frm2, cmp2)
  <2>1. ASSUME NEW i \in 1..Len(frm2)
        PROVE  /\ low[frm2[i].node] <= idx[frm2[i].node]
               /\ \E y \in DOMAIN sc : /\ Open(idx, cmp2, y) /\ idx[y] = low[frm2[i].node]
                                   /\ y \in From(sc, frm2[i].node)
    <3>1. i \in 1..(m - 1) /\ i \in 1..m /\ frm2[i] = frm[i]
      BY <1>8
    <3>2. low[frm[i].node] <= idx[frm[i].node]
      BY <3>1 DEF Search, LinkReached
    <3>3. PICK y \in DOMAIN sc : /\ Open(idx, cmp, y) /\ idx[y] = low[frm[i].node]
                             /\ y \in From(sc, frm[i].node)
      BY <3>1 DEF Search, LinkReached
    <3>4. idx[y] < idx[u]
      <4>1. idx[frm[i].node] < idx[u] /\ idx[frm[i].node] \in Nat /\ low[frm[i].node] \in Nat
        BY <1>4, <1>13, <3>1
      <4> QED
        BY ONLY <1>5, <3>2, <3>3, <4>1, NatOrder, Zenon
    <3>5. Open(idx, cmp2, y)
      BY <1>14, <3>3, <3>4
    <3> QED
      BY <3>1, <3>2, <3>3, <3>5
  <2> QED
    BY <2>1 DEF LinkReached
<1>23. LinkBounds(sc, idx, low, frm2, cmp2)
  <2>1. ASSUME NEW i \in 1..(m - 1), NEW x \in DOMAIN sc, Segment(idx, frm2, cmp2, i, x),
               NEW k \in 1..Len(sc[x]), x = frm2[i].node => k <= frm2[i].cursor
        PROVE  /\ idx[sc[x][k]] # 0
               /\ cmp2[sc[x][k]] = 0 => low[frm2[i].node] <= idx[sc[x][k]]
    <3>1. i \in 1..m /\ frm2[i] = frm[i] /\ frm[i].node \in DOMAIN sc
      BY <1>8, <1>13
    <3>2. sc[x][k] \in DOMAIN sc
      BY SuccessorMember
    <3>3. Open(idx, cmp, x) /\ idx[x] < idx[u] /\ idx[frm[i].node] <= idx[x]
      BY <1>14, <2>1, <3>1 DEF Segment
    <3>4. ASSUME i + 1 \in 1..m PROVE idx[x] < idx[frm[i + 1].node]
      <4>1. CASE i + 1 = m
        BY <3>3, <4>1
      <4>2. CASE i + 1 # m
        <5>1. i + 1 \in 1..(m - 1)
          BY <1>2, <3>4, <4>2
        <5>2. frm2[i + 1] = frm[i + 1] /\ i + 1 \in 1..Len(frm2)
          BY <1>8, <5>1
        <5> QED
          BY <2>1, <5>2 DEF Segment
      <4> QED
        BY <4>1, <4>2
    <3>5. Segment(idx, frm, cmp, i, x)
      BY <3>3, <3>4 DEF Segment
    <3>6. /\ idx[sc[x][k]] # 0
          /\ cmp[sc[x][k]] = 0 => low[frm[i].node] <= idx[sc[x][k]]
      BY <2>1, <3>1, <3>5 DEF Search, LinkBounds
    <3>7. cmp2[sc[x][k]] = 0 => cmp[sc[x][k]] = 0
      BY <1>10, <1>11, <3>2
    <3> QED
      BY <3>1, <3>6, <3>7
  <2> QED
    BY <1>8, <2>1 DEF LinkBounds
<1>24. ASSUME NEW x \in DOMAIN sc, Taken(x) PROVE x \in From(sc, u) /\ u \in From(sc, x)
  <2>1. Open(idx, cmp, x) /\ idx[u] <= idx[x]
    BY <1>24 DEF Taken
  <2>2. x \in From(sc, u)
    BY <1>2, <2>1 DEF Search, Downward
  <2>3. PICK i \in 1..m : idx[frm[i].node] <= idx[x] /\ frm[i].node \in From(sc, x)
    BY <2>1 DEF Search, Upward
  <2>4. idx[frm[i].node] <= idx[u]
    <3>1. CASE i = m
      BY <1>5, <3>1
    <3>2. CASE i # m
      <4>1. i \in 1..(m - 1)
        BY <1>2, <3>2
      <4>2. idx[frm[i].node] < idx[u] /\ idx[frm[i].node] \in Nat
        BY <1>4, <1>13, <4>1
      <4> QED
        BY <1>5, <4>2
    <3> QED
      BY <3>1, <3>2
  <2>5. u \in From(sc, frm[i].node)
    BY <1>5, <2>4 DEF Search, Downward
  <2>6. u \in From(sc, x)
    BY <2>3, <2>5, BlockReach
  <2> QED
    BY <2>2, <2>6
<1>25. ASSUME NEW x \in DOMAIN sc, cmp2[x] # 0, NEW k \in 1..Len(sc[x]) PROVE cmp2[sc[x][k]] # 0
  <2>1. sc[x][k] \in DOMAIN sc
    BY SuccessorMember
  <2>2. CASE ~Taken(x)
    <3>1. cmp[x] # 0
      BY <1>11, <1>25, <2>2
    <3>2. cmp[sc[x][k]] # 0
      BY <3>1 DEF Search, Finished
    <3> QED
      BY <1>10, <1>11, <2>1, <3>2
  <2>3. CASE Taken(x)
    <3>1. Segment(idx, frm, cmp, m, x)
      BY <1>2, <2>3 DEF Segment, Taken
    <3>2. x = u => k <= frm[m].cursor
      <4>1. frm[m].cursor \in Nat /\ Len(sc[u]) \in Nat
        BY <1>2, <1>3, <1>5, SuccessorMember
      <4> QED
        BY <4>1
    <3>3. /\ idx[sc[x][k]] # 0
          /\ cmp[sc[x][k]] = 0 => low[u] <= idx[sc[x][k]]
      BY <1>2, <3>1, <3>2 DEF Search, LinkBounds
    <3>4. CASE cmp[sc[x][k]] = 0
      <4>1. Taken(sc[x][k])
        BY <3>3, <3>4 DEF Taken, Open
      <4> QED
        BY <1>10, <1>11, <2>1, <4>1
    <3>5. CASE cmp[sc[x][k]] # 0
      BY <1>10, <1>11, <2>1, <3>5
    <3> QED
      BY <3>4, <3>5
  <2> QED
    BY <2>2, <2>3
<1>26. ASSUME NEW x \in DOMAIN sc, NEW y \in DOMAIN sc, cmp[y] # 0, Taken(x)
       PROVE  x \notin From(sc, y) /\ cmp2[x] # cmp2[y]
  <2> DEFINE Z == {z \in DOMAIN sc : cmp[z] # 0}
  <2>1. \A z \in Z : \A k \in 1..Len(sc[z]) : sc[z][k] \in Z
    <3>1. \A z \in DOMAIN sc : \A k \in 1..Len(sc[z]) : sc[z][k] \in DOMAIN sc
      BY SuccessorMember
    <3> QED
      BY <3>1 DEF Search, Finished
  <2>2. y \in Z /\ Z \subseteq DOMAIN sc
    BY <1>26
  <2>3. x \notin Z
    BY <1>26 DEF Taken, Open
  <2> HIDE DEF Z
  <2>4. From(sc, y) \subseteq Z
    BY <2>1, <2>2, BlockStays
  <2>5. ~Taken(y)
    BY <1>26 DEF Taken, Open
  <2>6. cmp2[x] = K /\ cmp2[y] = cmp[y] /\ cmp[y] < K /\ cmp[y] \in Nat
    BY <1>4, <1>11, <1>26, <2>5
  <2> QED
    BY <2>3, <2>4, <2>6
<1>27. ASSUME NEW x \in DOMAIN sc, NEW y \in DOMAIN sc, cmp2[x] # 0, cmp2[y] # 0
       PROVE  cmp2[x] = cmp2[y] <=> (y \in From(sc, x) /\ x \in From(sc, y))
  <2>1. CASE Taken(x) /\ Taken(y)
    <3>1. x \in From(sc, u) /\ u \in From(sc, x) /\ y \in From(sc, u) /\ u \in From(sc, y)
      BY <1>24, <2>1
    <3>2. y \in From(sc, x) /\ x \in From(sc, y)
      BY <3>1, BlockReach
    <3> QED
      BY <1>11, <2>1, <3>2
  <2>2. CASE Taken(x) /\ ~Taken(y)
    <3>1. cmp[y] # 0
      BY <1>11, <1>27, <2>2
    <3> QED
      BY <1>26, <2>2, <3>1
  <2>3. CASE ~Taken(x) /\ Taken(y)
    <3>1. cmp[x] # 0
      BY <1>11, <1>27, <2>3
    <3> QED
      BY <1>26, <2>3, <3>1
  <2>4. CASE ~Taken(x) /\ ~Taken(y)
    <3>1. cmp2[x] = cmp[x] /\ cmp2[y] = cmp[y]
      BY <1>11, <2>4
    <3> QED
      BY <1>27, <3>1 DEF Search, Finished
  <2> QED
    BY <2>1, <2>2, <2>3, <2>4
<1>28. Finished(sc, cmp2)
  BY <1>25, <1>27 DEF Finished
<1>30. Search(sc, idx, low, nxt, stk2, frm2, cmp2)
  BY <1>16, <1>17, <1>18, <1>19, <1>20, <1>21, <1>22, <1>23, <1>28 DEF Search
<1> QED
  BY <1>30 DEF stk2, frm2

\* The link of a root changes nothing in the block that entered it.
LEMMA RootLinks ==
  ASSUME NEW sc, NEW idx, NEW low, NEW nxt, NEW stk, NEW frm, NEW cmp,
         Search(sc, idx, low, nxt, stk, frm, cmp), NEW i \in 1..Len(frm), NEW j \in 1..Len(frm), i < j,
         low[frm[j].node] = idx[frm[j].node]
  PROVE  Linked(low, frm[i].node, frm[j].node) = low
<1> DEFINE p == frm[i].node
           u == frm[j].node
<1>1. idx \in [DOMAIN sc -> Nat] /\ low \in [DOMAIN sc -> Nat] /\ frm \in Seq(Frames(sc))
  BY DEF Search, SearchTyped
<1>2. p \in DOMAIN sc /\ u \in DOMAIN sc
  BY <1>1, FrameTyped
<1>3. idx[p] < idx[u]
  BY DEF Search, Framed
<1>4. low[p] <= idx[p]
  BY DEF Search, LinkReached
<1>5. low[u] = idx[u]
  OBVIOUS
<1> HIDE DEF p, u
<1>6. low[p] \in Nat /\ idx[p] \in Nat /\ idx[u] \in Nat
  BY <1>1, <1>2
<1>7. low[p] < low[u]
  BY ONLY <1>3, <1>4, <1>5, <1>6
<1>8. Smaller(low[p], low[u]) = low[p]
  BY ONLY <1>7 DEF Smaller
<1>9. [low EXCEPT ![p] = low[p]] = low
  BY <1>1
<1> QED
  BY <1>8, <1>9 DEF Linked, p, u

-----------------------------------------------------------------------------
(* The search over the steps of the program. *)

SearchFields(sc) == [index : [DOMAIN sc -> Nat], low : [DOMAIN sc -> Nat], next : Nat, stack : Seq(DOMAIN sc), frames : Seq(Frames(sc)),
                 component : [DOMAIN sc -> Nat], members : Seq(Nat), loop : Seq(BOOLEAN)]

Counted(sc, cmp, members) ==
    /\ \A x \in DOMAIN sc : cmp[x] <= Len(members)
    /\ \A c \in 1..Len(members) : members[c] = Cardinality({x \in DOMAIN sc : cmp[x] = c})

Looped(members, loop) == Len(loop) = Len(members) /\ \A c \in 1..Len(members) : loop[c] <=> members[c] > 1

Searching(sc, d) ==
    /\ d \in SearchFields(sc)
    /\ Search(sc, d.index, d.low, d.next, d.stack, d.frames, d.component)
    /\ Counted(sc, d.component, d.members)
    /\ Looped(d.members, d.loop)

State(i, l, n, t, f, c, k, o) ==
    [index |-> i, low |-> l, next |-> n, stack |-> t, frames |-> f, component |-> c, members |-> k, loop |-> o]

LEMMA StateFields ==
  ASSUME NEW i, NEW l, NEW n, NEW t, NEW f, NEW c, NEW k, NEW o
  PROVE  /\ State(i, l, n, t, f, c, k, o).index = i /\ State(i, l, n, t, f, c, k, o).low = l
         /\ State(i, l, n, t, f, c, k, o).next = n /\ State(i, l, n, t, f, c, k, o).stack = t
         /\ State(i, l, n, t, f, c, k, o).frames = f /\ State(i, l, n, t, f, c, k, o).component = c
         /\ State(i, l, n, t, f, c, k, o).members = k /\ State(i, l, n, t, f, c, k, o).loop = o
BY DEF State

LEMMA StateTyped ==
  ASSUME NEW sc, NEW i \in [DOMAIN sc -> Nat], NEW l \in [DOMAIN sc -> Nat], NEW n \in Nat, NEW t \in Seq(DOMAIN sc),
         NEW f \in Seq(Frames(sc)), NEW c \in [DOMAIN sc -> Nat], NEW k \in Seq(Nat), NEW o \in Seq(BOOLEAN)
  PROVE  State(i, l, n, t, f, c, k, o) \in SearchFields(sc)
BY DEF SearchFields, State

\* The state of a search is kept when its six first fields are.
LEMMA SearchingState ==
  ASSUME NEW sc, NEW i, NEW l, NEW n, NEW t, NEW f, NEW c, NEW k \in Seq(Nat), NEW o \in Seq(BOOLEAN),
         Search(sc, i, l, n, t, f, c), Counted(sc, c, k), Looped(k, o)
  PROVE  Searching(sc, State(i, l, n, t, f, c, k, o))
<1> DEFINE d == State(i, l, n, t, f, c, k, o)
<1>1. d \in SearchFields(sc)
  <2>1. /\ i \in [DOMAIN sc -> Nat] /\ l \in [DOMAIN sc -> Nat] /\ n \in Nat /\ t \in Seq(DOMAIN sc)
        /\ f \in Seq(Frames(sc)) /\ c \in [DOMAIN sc -> Nat]
    BY DEF Search, SearchTyped
  <2> QED
    BY <2>1, StateTyped
<1>2. /\ d.index = i /\ d.low = l /\ d.next = n /\ d.stack = t /\ d.frames = f
      /\ d.component = c /\ d.members = k /\ d.loop = o
  BY StateFields
<1> HIDE DEF d
<1>3. Searching(sc, d)
  BY <1>1, <1>2 DEF Searching
<1> QED
  BY <1>3 DEF d

LEMMA StateFrames ==
  ASSUME NEW i, NEW l, NEW n, NEW t, NEW f, NEW c, NEW k, NEW o, NEW g
  PROVE  [State(i, l, n, t, f, c, k, o) EXCEPT !.frames = g] = State(i, l, n, t, g, c, k, o)
BY DEF State

LEMMA EnterFields ==
  ASSUME NEW sc, dfs \in SearchFields(sc), NEW b \in DOMAIN sc, NEW f
  PROVE  [Push(b) EXCEPT !.frames = f] =
            State([dfs.index EXCEPT ![b] = dfs.next], [dfs.low EXCEPT ![b] = dfs.next], dfs.next + 1,
                  Append(dfs.stack, b), f, dfs.component, dfs.members, dfs.loop)
<1> DEFINE X == [dfs.index EXCEPT ![b] = dfs.next]
           Y == [dfs.low EXCEPT ![b] = dfs.next]
<1>1. dfs = [index |-> dfs.index, low |-> dfs.low, next |-> dfs.next, stack |-> dfs.stack, frames |-> dfs.frames,
             component |-> dfs.component, members |-> dfs.members, loop |-> dfs.loop]
  BY DEF SearchFields
<1>2. Push(b) = [dfs EXCEPT !.index = X, !.low = Y, !.next = dfs.next + 1, !.stack = Append(dfs.stack, b)]
  BY DEF Push
<1> HIDE DEF X, Y
<1>3. Push(b) = [index |-> X, low |-> Y, next |-> dfs.next + 1, stack |-> Append(dfs.stack, b), frames |-> dfs.frames,
                 component |-> dfs.component, members |-> dfs.members, loop |-> dfs.loop]
  BY ONLY <1>1, <1>2
<1>4. [Push(b) EXCEPT !.frames = f] = State(X, Y, dfs.next + 1, Append(dfs.stack, b), f, dfs.component, dfs.members, dfs.loop)
  <2>1. Push(b) = State(X, Y, dfs.next + 1, Append(dfs.stack, b), dfs.frames, dfs.component, dfs.members, dfs.loop)
    BY ONLY <1>3 DEF State
  <2> QED
    BY ONLY <2>1, StateFrames
<1> QED
  BY <1>4 DEF X, Y

LEMMA SearchingFields ==
  ASSUME NEW sc, NEW d, Searching(sc, d)
  PROVE  /\ d.index \in [DOMAIN sc -> Nat] /\ d.low \in [DOMAIN sc -> Nat] /\ d.next \in Nat
         /\ d.stack \in Seq(DOMAIN sc) /\ d.frames \in Seq(Frames(sc)) /\ d.component \in [DOMAIN sc -> Nat]
         /\ d.members \in Seq(Nat) /\ d.loop \in Seq(BOOLEAN)
BY DEF Searching, SearchFields

LEMMA VisitRootKeeps ==
  ASSUME Graph(succ), Nodes = DOMAIN succ, Searching(succ, dfs), VisitRoot
  PROVE  Searching(succ, dfs')
<1>1. PICK b \in DOMAIN succ : dfs.index[b] = 0 /\ dfs' = [Push(b) EXCEPT !.frames = <<[node |-> b, cursor |-> 0]>>]
  BY DEF VisitRoot
<1>2. dfs.frames = <<>>
  BY DEF VisitRoot
<1> DEFINE f == Append(<<>>, [node |-> b, cursor |-> 0])
<1>3. f = <<[node |-> b, cursor |-> 0]>>
  OBVIOUS
<1>4. <<>> \in Seq(Frames(succ)) /\ Len(<<>>) = 0 /\ 1..0 = {}
  OBVIOUS
<1>5. Search(succ, dfs.index, dfs.low, dfs.next, dfs.stack, <<>>, dfs.component)
  BY <1>2 DEF Searching
<1> HIDE DEF f
<1>6. Search(succ, [dfs.index EXCEPT ![b] = dfs.next], [dfs.low EXCEPT ![b] = dfs.next], dfs.next + 1,
             Append(dfs.stack, b), f, dfs.component)
  <2>1. Entering(succ, <<>>, <<>>, b)
    BY <1>4 DEF Entering
  <2> QED
    BY <1>1, <1>5, <2>1, EnterKeeps DEF f
<1>7. dfs' = State([dfs.index EXCEPT ![b] = dfs.next], [dfs.low EXCEPT ![b] = dfs.next], dfs.next + 1,
                   Append(dfs.stack, b), f, dfs.component, dfs.members, dfs.loop)
  <2>1. dfs' = [Push(b) EXCEPT !.frames = f]
    BY <1>1, <1>3
  <2>2. dfs \in SearchFields(succ)
    BY DEF Searching
  <2> QED
    BY <1>1, <2>1, <2>2, EnterFields
<1>8. /\ Counted(succ, dfs.component, dfs.members) /\ Looped(dfs.members, dfs.loop)
      /\ dfs.members \in Seq(Nat) /\ dfs.loop \in Seq(BOOLEAN)
  BY SearchingFields DEF Searching
<1> QED
  BY <1>6, <1>7, <1>8, SearchingState

\* The frames after the cursor of the one on top has moved.
Advanced(frm) == [frm EXCEPT ![Len(frm)].cursor = @ + 1]

LEMMA LastReplaced ==
  ASSUME NEW T, NEW s \in Seq(T), s # <<>>, NEW t \in T
  PROVE  /\ [s EXCEPT ![Len(s)] = t] \in Seq(T) /\ Len([s EXCEPT ![Len(s)] = t]) = Len(s)
         /\ [s EXCEPT ![Len(s)] = t][Len(s)] = t
         /\ \A i \in 1..Len(s) : i # Len(s) => [s EXCEPT ![Len(s)] = t][i] = s[i]
OBVIOUS

LEMMA AdvancedFrames ==
  ASSUME NEW sc, NEW frm \in Seq(Frames(sc)), frm # <<>>
  PROVE  /\ Advanced(frm) \in Seq(Frames(sc)) /\ Len(Advanced(frm)) = Len(frm)
         /\ \A i \in 1..Len(frm) :
               /\ Advanced(frm)[i].node = frm[i].node
               /\ Advanced(frm)[i].cursor = IF i = Len(frm) THEN frm[i].cursor + 1 ELSE frm[i].cursor
<1> DEFINE adv == Advanced(frm)
           m == Len(frm)
           t == [frm[m] EXCEPT !.cursor = @ + 1]
<1>1. m \in Nat /\ m \in 1..m /\ DOMAIN frm = 1..m /\ \A i \in 1..m : frm[i] \in Frames(sc)
  BY NonEmptyLength
<1>2. adv = [frm EXCEPT ![m] = t]
  BY DEF Advanced
<1>3. t \in Frames(sc) /\ t.node = frm[m].node /\ t.cursor = frm[m].cursor + 1
  <2>1. frm[m] \in Frames(sc)
    BY <1>1
  <2> HIDE DEF m
  <2> QED
    BY <2>1 DEF Frames
<1> HIDE DEF t, m, adv
<1>4. adv \in Seq(Frames(sc)) /\ Len(adv) = m /\ adv[m] = t /\ \A i \in 1..m : i # m => adv[i] = frm[i]
  BY <1>2, <1>3, LastReplaced DEF m
<1>5. ASSUME NEW i \in 1..m
      PROVE  /\ adv[i].node = frm[i].node
             /\ adv[i].cursor = IF i = m THEN frm[i].cursor + 1 ELSE frm[i].cursor
  <2>1. CASE i = m
    BY <1>3, <1>4, <2>1
  <2>2. CASE i # m
    BY <1>4, <2>2
  <2> QED
    BY <2>1, <2>2
<1> QED
  BY <1>4, <1>5 DEF m, adv

LEMMA SearchingIsState ==
  ASSUME NEW sc, Searching(sc, dfs)
  PROVE  dfs = State(dfs.index, dfs.low, dfs.next, dfs.stack, dfs.frames, dfs.component, dfs.members, dfs.loop)
BY DEF Searching, SearchFields, State

Relinked(d, g, l2) == [d EXCEPT !.frames = g, !.low = l2]

LEMMA StateLow ==
  ASSUME NEW i, NEW l, NEW n, NEW t, NEW f, NEW c, NEW k, NEW o, NEW g, NEW l2
  PROVE  Relinked(State(i, l, n, t, f, c, k, o), g, l2) = State(i, l2, n, t, g, c, k, o)
<1> DEFINE p == State(i, l, n, t, f, c, k, o)
           q == Relinked(p, g, l2)
<1>1. p = [index |-> i, low |-> l, next |-> n, stack |-> t, frames |-> f, component |-> c, members |-> k, loop |-> o]
  BY DEF State
<1> HIDE DEF p
<1>2. q = [p EXCEPT !.frames = g, !.low = l2]
  BY DEF Relinked
<1> HIDE DEF q
<1>3. q = [index |-> i, low |-> l2, next |-> n, stack |-> t, frames |-> g, component |-> c, members |-> k, loop |-> o]
  BY ONLY <1>1, <1>2
<1> QED
  BY <1>3 DEF State, p, q

LEMMA TopFrame ==
  ASSUME Graph(succ), Searching(succ, dfs), dfs.frames # <<>>
  PROVE  /\ Len(dfs.frames) \in 1..Len(dfs.frames) /\ Len(dfs.frames) \in Nat
         /\ Top.node \in DOMAIN succ /\ Top.cursor \in Nat
         /\ Top.cursor < Len(succ[Top.node]) =>
               /\ Top.cursor + 1 \in 1..Len(succ[Top.node])
               /\ succ[Top.node][Top.cursor + 1] \in DOMAIN succ
<1>1. dfs.frames \in Seq(Frames(succ))
  BY SearchingFields
<1>2. Len(dfs.frames) \in 1..Len(dfs.frames) /\ Len(dfs.frames) \in Nat
  BY <1>1, NonEmptyLength
<1>3. Top.node \in DOMAIN succ /\ Top.cursor \in Nat
  BY <1>1, <1>2, FrameTyped DEF Top
<1>4. Len(succ[Top.node]) \in Nat /\ \A k \in 1..Len(succ[Top.node]) : succ[Top.node][k] \in DOMAIN succ
  BY <1>3, SuccessorMember
<1> QED
  BY <1>2, <1>3, <1>4

LEMMA VisitNewKeeps ==
  ASSUME Graph(succ), Nodes = DOMAIN succ, Searching(succ, dfs), VisitChild,
         NEW child, child = succ[Top.node][Top.cursor + 1], dfs.index[child] = 0
  PROVE  Searching(succ, dfs')
<1> DEFINE adv == Advanced(dfs.frames)
           f == Append(adv, [node |-> child, cursor |-> 0])
<1>1. dfs.frames # <<>> /\ Top.cursor < Len(succ[Top.node]) /\ dfs' = [Push(child) EXCEPT !.frames = f]
  BY DEF VisitChild, Advanced
<1>2. /\ Len(dfs.frames) \in 1..Len(dfs.frames) /\ Len(dfs.frames) \in Nat
      /\ Top.node \in DOMAIN succ /\ Top.cursor \in Nat
      /\ Top.cursor + 1 \in 1..Len(succ[Top.node]) /\ child \in DOMAIN succ
  BY <1>1, TopFrame
<1>3. dfs.frames \in Seq(Frames(succ)) /\ dfs.index \in [DOMAIN succ -> Nat]
  BY SearchingFields
<1>4. /\ adv \in Seq(Frames(succ)) /\ Len(adv) = Len(dfs.frames)
      /\ \A i \in 1..Len(dfs.frames) :
            /\ adv[i].node = dfs.frames[i].node
            /\ adv[i].cursor = IF i = Len(dfs.frames) THEN dfs.frames[i].cursor + 1 ELSE dfs.frames[i].cursor
  BY <1>1, <1>3, AdvancedFrames
<1> HIDE DEF adv
<1>5. Search(succ, dfs.index, dfs.low, dfs.next, dfs.stack, dfs.frames, dfs.component)
  BY DEF Searching
<1>6. child \in From(succ, Top.node)
  BY <1>2, BlockReach
<1>7. ASSUME NEW i \in 1..Len(dfs.frames)
      PROVE  /\ adv[i].node = dfs.frames[i].node /\ adv[i].cursor <= Len(succ[dfs.frames[i].node])
             /\ \A k \in 1..adv[i].cursor : k <= dfs.frames[i].cursor \/ succ[dfs.frames[i].node][k] = child
             /\ child \in From(succ, dfs.frames[i].node)
  <2>1. dfs.frames[i].node \in DOMAIN succ /\ dfs.frames[i].cursor \in Nat
    BY <1>3, FrameTyped
  <2>2. dfs.frames[i].cursor <= Len(succ[dfs.frames[i].node]) /\ Open(dfs.index, dfs.component, Top.node)
    BY <1>2, <1>5 DEF Search, Framed, Top
  <2>3. dfs.index[dfs.frames[i].node] <= dfs.index[Top.node]
    <3>1. dfs.index[dfs.frames[i].node] \in Nat /\ dfs.index[Top.node] \in Nat
      BY <1>2, <1>3, <2>1
    <3>2. CASE i = Len(dfs.frames)
      BY <3>1, <3>2 DEF Top
    <3>3. CASE i # Len(dfs.frames)
      <4>1. i < Len(dfs.frames)
        BY <1>2, <3>3
      <4>2. dfs.index[dfs.frames[i].node] < dfs.index[Top.node]
        BY <1>2, <1>5, <4>1 DEF Search, Framed, Top
      <4> QED
        BY <3>1, <4>2
    <3> QED
      BY <3>2, <3>3
  <2>4. Top.node \in From(succ, dfs.frames[i].node)
    BY <1>2, <1>5, <2>2, <2>3 DEF Search, Downward
  <2>5. child \in From(succ, dfs.frames[i].node)
    BY <1>6, <2>1, <2>4, BlockReach
  <2>6. CASE i # Len(dfs.frames)
    BY <1>4, <2>1, <2>2, <2>5, <2>6
  <2>7. CASE i = Len(dfs.frames)
    <3>1. dfs.frames[i] = Top /\ adv[i].cursor = Top.cursor + 1
      BY <1>4, <2>7 DEF Top
    <3>2. Len(succ[Top.node]) \in Nat
      BY <1>2, SuccessorMember
    <3>3. ASSUME NEW k \in 1..(Top.cursor + 1) PROVE k <= Top.cursor \/ succ[Top.node][k] = child
      <4>1. k <= Top.cursor \/ k = Top.cursor + 1
        BY <1>2
      <4> QED
        BY <4>1
    <3> QED
      BY <1>1, <1>2, <1>4, <2>5, <3>1, <3>2, <3>3
  <2> QED
    BY <2>6, <2>7
<1> HIDE DEF f
<1>8. Search(succ, [dfs.index EXCEPT ![child] = dfs.next], [dfs.low EXCEPT ![child] = dfs.next], dfs.next + 1,
             Append(dfs.stack, child), f, dfs.component)
  <2>1. Entering(succ, dfs.frames, adv, child)
    BY <1>4, <1>7 DEF Entering
  <2> QED
    BY <1>2, <1>5, <2>1, EnterKeeps DEF f
<1>9. dfs' = State([dfs.index EXCEPT ![child] = dfs.next], [dfs.low EXCEPT ![child] = dfs.next], dfs.next + 1,
                   Append(dfs.stack, child), f, dfs.component, dfs.members, dfs.loop)
  <2>1. dfs \in SearchFields(succ)
    BY DEF Searching
  <2> QED
    BY <1>1, <1>2, <2>1, EnterFields
<1>10. /\ Counted(succ, dfs.component, dfs.members) /\ Looped(dfs.members, dfs.loop)
       /\ dfs.members \in Seq(Nat) /\ dfs.loop \in Seq(BOOLEAN)
  BY SearchingFields DEF Searching
<1> QED
  BY <1>8, <1>9, <1>10, SearchingState

LEMMA VisitOldKeeps ==
  ASSUME Graph(succ), Nodes = DOMAIN succ, Searching(succ, dfs), VisitChild,
         NEW child, child = succ[Top.node][Top.cursor + 1], dfs.index[child] # 0
  PROVE  Searching(succ, dfs')
<1> DEFINE adv == Advanced(dfs.frames)
           e == IF OnStack(child) THEN Smaller(dfs.low[Top.node], dfs.index[child]) ELSE dfs.low[Top.node]
           e2 == IF dfs.component[child] = 0 THEN Smaller(dfs.low[Top.node], dfs.index[child]) ELSE dfs.low[Top.node]
<1>1. dfs.frames # <<>> /\ Top.cursor < Len(succ[Top.node])
  BY DEF VisitChild
<1>2. dfs' = [dfs EXCEPT !.frames = adv, !.low[Top.node] = IF OnStack(child) THEN Smaller(@, dfs.index[child]) ELSE @]
  BY DEF VisitChild, Advanced
<1>3. dfs' = [dfs EXCEPT !.frames = adv, !.low = [dfs.low EXCEPT ![Top.node] = e]]
  BY <1>2
<1>4. /\ Len(dfs.frames) \in 1..Len(dfs.frames) /\ Len(dfs.frames) \in Nat
      /\ Top.node \in DOMAIN succ /\ Top.cursor \in Nat
      /\ Top.cursor + 1 \in 1..Len(succ[Top.node]) /\ child \in DOMAIN succ
  BY <1>1, TopFrame
<1>5. dfs.frames \in Seq(Frames(succ)) /\ dfs.index \in [DOMAIN succ -> Nat] /\ dfs.stack \in Seq(DOMAIN succ)
  BY SearchingFields
<1>6. /\ adv \in Seq(Frames(succ)) /\ Len(adv) = Len(dfs.frames)
      /\ \A i \in 1..Len(dfs.frames) :
            /\ adv[i].node = dfs.frames[i].node
            /\ adv[i].cursor = IF i = Len(dfs.frames) THEN dfs.frames[i].cursor + 1 ELSE dfs.frames[i].cursor
  BY <1>1, <1>5, AdvancedFrames
<1>7. Search(succ, dfs.index, dfs.low, dfs.next, dfs.stack, dfs.frames, dfs.component)
  BY DEF Searching
<1>8. OnStack(child) <=> dfs.component[child] = 0
  <2>1. DOMAIN dfs.stack = 1..Len(dfs.stack)
    BY <1>5
  <2>2. Open(dfs.index, dfs.component, child) <=> \E i \in 1..Len(dfs.stack) : dfs.stack[i] = child
    BY <1>4, <1>7 DEF Search, Stacked
  <2> QED
    BY <2>1, <2>2 DEF OnStack, Open
<1>9. e = e2
  BY <1>8
<1> HIDE DEF adv, e, e2
<1> DEFINE low2 == [dfs.low EXCEPT ![Top.node] = e2]
<1>13. low2 = [dfs.low EXCEPT ![Top.node] = e]
  BY <1>9
<1> HIDE DEF low2
<1>10. dfs' = State(dfs.index, low2, dfs.next, dfs.stack, adv, dfs.component, dfs.members, dfs.loop)
  <2>1. dfs = State(dfs.index, dfs.low, dfs.next, dfs.stack, dfs.frames, dfs.component, dfs.members, dfs.loop)
    BY SearchingIsState
  <2>2. dfs' = Relinked(dfs, adv, low2)
    BY ONLY <1>3, <1>13 DEF Relinked
  <2> QED
    BY ONLY <2>1, <2>2, StateLow
<1>11. Search(succ, dfs.index, low2, dfs.next, dfs.stack, adv, dfs.component)
  <2>1. low2 = [dfs.low EXCEPT ![Top.node] = IF dfs.component[child] = 0 THEN Smaller(dfs.low[Top.node], dfs.index[child])
                                                                           ELSE dfs.low[Top.node]]
    BY DEF low2, e2
  <2>2. Top.cursor + 1 <= Len(succ[Top.node])
    BY <1>4
  <2>3. Top = dfs.frames[Len(dfs.frames)]
    BY DEF Top
  <2>4. adv[Len(dfs.frames)].cursor = Top.cursor + 1
    BY ONLY <1>4, <1>6, <2>3, Zenon
  <2>5. \A i \in 1..Len(dfs.frames) : adv[i].node = dfs.frames[i].node
                                      /\ (i # Len(dfs.frames) => adv[i].cursor = dfs.frames[i].cursor)
    BY ONLY <1>6
  <2>6. Lowering(succ, dfs.index, dfs.low, dfs.frames, dfs.component, adv, Top.node, Top.cursor + 1, low2)
    BY <1>6, <2>1, <2>2, <2>3, <2>4, <2>5 DEF Lowering
  <2> QED
    BY <1>1, <1>7, <2>6, LowerKeeps
<1>12. /\ Counted(succ, dfs.component, dfs.members) /\ Looped(dfs.members, dfs.loop)
       /\ dfs.members \in Seq(Nat) /\ dfs.loop \in Seq(BOOLEAN)
  BY SearchingFields DEF Searching
<1> QED
  BY <1>10, <1>11, <1>12, SearchingState

LEMMA LeaveInnerKeeps ==
  ASSUME Graph(succ), Nodes = DOMAIN succ, Searching(succ, dfs), LeaveNode, dfs.low[Top.node] # dfs.index[Top.node]
  PROVE  Searching(succ, dfs')
<1> DEFINE m == Len(dfs.frames)
           u == Top.node
           g == SubSeq(dfs.frames, 1, m - 1)
           p == dfs.frames[m - 1].node
           low2 == Linked(dfs.low, p, u)
<1>1. dfs.frames # <<>> /\ dfs.frames[m].cursor >= Len(succ[u]) /\ u = dfs.frames[m].node
  BY DEF LeaveNode, Top
<1>2. dfs.frames \in Seq(Frames(succ))
  BY SearchingFields
<1>3. Search(succ, dfs.index, dfs.low, dfs.next, dfs.stack, dfs.frames, dfs.component)
  BY DEF Searching
<1>4. m - 1 \in 1..m /\ Search(succ, dfs.index, low2, dfs.next, dfs.stack, g, dfs.component)
  <2>1. m = Len(dfs.frames) /\ dfs.low[u] # dfs.index[u]
    OBVIOUS
  <2> HIDE DEF m, u
  <2>2. /\ m - 1 \in 1..m
        /\ \A q : q = dfs.frames[m - 1].node =>
              Search(succ, dfs.index, Linked(dfs.low, q, u), dfs.next, dfs.stack,
                     SubSeq(dfs.frames, 1, m - 1), dfs.component)
    <3>1. Topmost(dfs.frames, m, u)
      BY <1>1, <2>1 DEF Topmost
    <3> QED
      BY ONLY Graph(succ), <1>1, <1>3, <2>1, <3>1, LeaveKeeps
  <2> QED
    BY ONLY <2>2
<1>5. g \in Seq(Frames(succ)) /\ Len(g) = m - 1 /\ \A i \in 1..(m - 1) : g[i] = dfs.frames[i]
  <2>1. m \in 1..Len(dfs.frames)
    BY <1>1, <1>2, NonEmptyLength
  <2> QED
    BY <1>2, <2>1, FrontFacts
<1>6. g # <<>> /\ g[Len(g)].node = p
  <2>1. m - 1 \in 1..(m - 1) /\ m - 1 # 0
    <3>1. m \in Nat
      BY <1>2
    <3>2. m - 1 \in 1..m
      BY <1>4
    <3> HIDE DEF m
    <3> QED
      BY <3>1, <3>2
  <2>2. g[m - 1] = dfs.frames[m - 1]
    BY <1>5, <2>1
  <2> HIDE DEF g, m
  <2> QED
    BY <1>5, <2>1, <2>2
<1>7. dfs' = Relinked(dfs, g, low2)
  <2>1. dfs' = [dfs EXCEPT !.frames = g, !.low[g[Len(g)].node] = Smaller(@, dfs.low[u])]
    BY <1>6 DEF LeaveNode
  <2> HIDE DEF g, m
  <2>2. dfs' = [dfs EXCEPT !.frames = g, !.low[p] = Smaller(@, dfs.low[u])]
    BY ONLY <1>6, <2>1
  <2> HIDE DEF p
  <2> QED
    BY ONLY <2>2 DEF Relinked, Linked
<1> HIDE DEF low2, g
<1>8. dfs' = State(dfs.index, low2, dfs.next, dfs.stack, g, dfs.component, dfs.members, dfs.loop)
  <2>1. dfs = State(dfs.index, dfs.low, dfs.next, dfs.stack, dfs.frames, dfs.component, dfs.members, dfs.loop)
    BY SearchingIsState
  <2> QED
    BY ONLY <1>7, <2>1, StateLow
<1>9. /\ Counted(succ, dfs.component, dfs.members) /\ Looped(dfs.members, dfs.loop)
      /\ dfs.members \in Seq(Nat) /\ dfs.loop \in Seq(BOOLEAN)
  BY SearchingFields DEF Searching
<1> QED
  BY <1>4, <1>8, <1>9, SearchingState

\* The record after a root has taken its component.
Popped(d, s, c, k, o) == [d EXCEPT !.stack = s, !.component = c, !.members = k, !.loop = o]

LEMMA StatePopped ==
  ASSUME NEW i, NEW l, NEW n, NEW t, NEW f, NEW c, NEW k, NEW o, NEW t2, NEW c2, NEW k2, NEW o2
  PROVE  Popped(State(i, l, n, t, f, c, k, o), t2, c2, k2, o2) = State(i, l, n, t2, f, c2, k2, o2)
<1> DEFINE p == State(i, l, n, t, f, c, k, o)
           q == Popped(p, t2, c2, k2, o2)
<1>1. p = [index |-> i, low |-> l, next |-> n, stack |-> t, frames |-> f, component |-> c, members |-> k, loop |-> o]
  BY DEF State
<1> HIDE DEF p
<1>2. q = [p EXCEPT !.stack = t2, !.component = c2, !.members = k2, !.loop = o2]
  BY DEF Popped
<1> HIDE DEF q
<1>3. q = [index |-> i, low |-> l, next |-> n, stack |-> t2, frames |-> f, component |-> c2, members |-> k2, loop |-> o2]
  BY ONLY <1>1, <1>2
<1> QED
  BY <1>3 DEF State, p, q

LEMMA AppendedCount ==
  ASSUME NEW sc, Graph(sc), NEW cmp \in [DOMAIN sc -> Nat], NEW members \in Seq(Nat), Counted(sc, cmp, members),
         NEW cmp2 \in [DOMAIN sc -> Nat], NEW taken \in SUBSET DOMAIN sc, \A x \in taken : cmp[x] = 0,
         \A x \in DOMAIN sc : cmp2[x] = IF x \in taken THEN Len(members) + 1 ELSE cmp[x]
  PROVE  /\ Append(members, Cardinality(taken)) \in Seq(Nat)
         /\ Counted(sc, cmp2, Append(members, Cardinality(taken)))
<1> DEFINE k == Len(members)
           more == Append(members, Cardinality(taken))
<1>1. IsFiniteSet(taken) /\ Cardinality(taken) \in Nat
  BY NodesFinite, FS_Subset, FS_CardinalityType
<1>2. /\ k \in Nat /\ more \in Seq(Nat) /\ Len(more) = k + 1 /\ more[k + 1] = Cardinality(taken)
      /\ \A i \in 1..k : more[i] = members[i]
  BY <1>1
<1> HIDE DEF k, more
<1>3. /\ \A x \in DOMAIN sc : cmp[x] <= k /\ cmp[x] \in Nat
      /\ \A c \in 1..k : members[c] = Cardinality({x \in DOMAIN sc : cmp[x] = c})
  BY DEF Counted, k
<1>4. \A x \in DOMAIN sc : cmp2[x] = IF x \in taken THEN k + 1 ELSE cmp[x]
  BY DEF k
<1>5. ASSUME NEW x \in DOMAIN sc PROVE cmp2[x] <= k + 1
  <2>1. cmp[x] <= k /\ cmp[x] \in Nat
    BY <1>3
  <2>2. cmp2[x] = k + 1 \/ cmp2[x] = cmp[x]
    BY <1>4
  <2> QED
    BY ONLY <1>2, <2>1, <2>2
<1>6. ASSUME NEW c \in 1..(k + 1) PROVE more[c] = Cardinality({x \in DOMAIN sc : cmp2[x] = c})
  <2>1. CASE c = k + 1
    <3>1. ASSUME NEW x \in DOMAIN sc PROVE cmp2[x] = k + 1 <=> x \in taken
      BY <1>2, <1>3, <1>4
    <3>2. {x \in DOMAIN sc : cmp2[x] = c} = taken
      BY <2>1, <3>1
    <3> QED
      BY <1>2, <2>1, <3>2
  <2>2. CASE c \in 1..k
    <3>1. ASSUME NEW x \in DOMAIN sc PROVE cmp2[x] = c <=> cmp[x] = c
      BY <1>2, <1>4, <2>2
    <3>2. {x \in DOMAIN sc : cmp2[x] = c} = {x \in DOMAIN sc : cmp[x] = c}
      BY <3>1
    <3> QED
      BY <1>2, <1>3, <2>2, <3>2
  <2> QED
    BY <1>2, <2>1, <2>2
<1>7. Counted(sc, cmp2, more)
  BY <1>2, <1>5, <1>6 DEF Counted
<1> QED
  BY <1>2, <1>7 DEF more

LEMMA AppendedLoop ==
  ASSUME NEW members \in Seq(Nat), NEW loop \in Seq(BOOLEAN), Looped(members, loop), NEW n \in Nat
  PROVE  Append(loop, n > 1) \in Seq(BOOLEAN) /\ Looped(Append(members, n), Append(loop, n > 1))
<1> DEFINE big == n > 1
           k == Len(members)
<1>1. big \in BOOLEAN /\ k \in Nat /\ Len(loop) = k /\ \A c \in 1..k : loop[c] <=> members[c] > 1
  BY DEF Looped
<1>2. /\ Len(Append(members, n)) = k + 1 /\ Append(members, n)[k + 1] = n
      /\ \A i \in 1..k : Append(members, n)[i] = members[i]
  OBVIOUS
<1> HIDE DEF big
<1>3. /\ Append(loop, big) \in Seq(BOOLEAN) /\ Len(Append(loop, big)) = k + 1 /\ Append(loop, big)[k + 1] = big
      /\ \A i \in 1..k : Append(loop, big)[i] = loop[i]
  BY <1>1
<1> HIDE DEF k
<1> DEFINE a == Append(members, n)
           b == Append(loop, big)
<1> HIDE DEF a, b
<1>4. ASSUME NEW c \in 1..(k + 1) PROVE b[c] <=> a[c] > 1
  <2>1. CASE c = k + 1
    BY <1>2, <1>3, <2>1, Zenon DEF a, b, big
  <2>2. CASE c \in 1..k
    <3>1. b[c] = loop[c] /\ a[c] = members[c] /\ (loop[c] <=> members[c] > 1)
      BY <1>1, <1>2, <1>3, <2>2 DEF a, b
    <3> QED
      BY <3>1, Zenon
  <2> QED
    BY <1>1, <2>1, <2>2
<1>5. Looped(a, b)
  BY <1>2, <1>3, <1>4 DEF Looped, a, b
<1> QED
  BY <1>3, <1>5 DEF a, b, big

LEMMA LeaveRootKeeps ==
  ASSUME Graph(succ), Nodes = DOMAIN succ, Searching(succ, dfs), LeaveNode, dfs.low[Top.node] = dfs.index[Top.node]
  PROVE  Searching(succ, dfs')
<1> DEFINE m == Len(dfs.frames)
           u == Top.node
           g == SubSeq(dfs.frames, 1, m - 1)
           pos == CHOOSE i \in DOMAIN dfs.stack : dfs.stack[i] = u
           taken == {dfs.stack[i] : i \in pos .. Len(dfs.stack)}
           stk2 == SubSeq(dfs.stack, 1, pos - 1)
           K == Len(dfs.members) + 1
           cmp2 == [b \in Nodes |-> IF b \in taken THEN K ELSE dfs.component[b]]
           mem2 == Append(dfs.members, Cardinality(taken))
           loop2 == Append(dfs.loop, Cardinality(taken) > 1)
<1>1. dfs.frames # <<>> /\ dfs.frames[m].cursor >= Len(succ[u]) /\ u = dfs.frames[m].node
  BY DEF LeaveNode, Top
<1>2. /\ dfs.frames \in Seq(Frames(succ)) /\ dfs.stack \in Seq(DOMAIN succ) /\ dfs.low \in [DOMAIN succ -> Nat]
      /\ dfs.component \in [DOMAIN succ -> Nat] /\ dfs.members \in Seq(Nat) /\ dfs.loop \in Seq(BOOLEAN)
  BY SearchingFields
<1>3. /\ Search(succ, dfs.index, dfs.low, dfs.next, dfs.stack, dfs.frames, dfs.component)
      /\ Counted(succ, dfs.component, dfs.members) /\ Looped(dfs.members, dfs.loop)
  BY DEF Searching
<1>4. m \in 1..m /\ m \in Nat /\ u \in DOMAIN succ
  BY <1>1, <1>2, NonEmptyLength, FrameTyped
<1>5. pos \in 1..Len(dfs.stack) /\ dfs.stack[pos] = u
  <2>1. Open(dfs.index, dfs.component, u)
    BY <1>1, <1>3, <1>4 DEF Search, Framed
  <2>2. \E i \in 1..Len(dfs.stack) : dfs.stack[i] = u
    BY <1>3, <1>4, <2>1 DEF Search, Stacked
  <2>3. DOMAIN dfs.stack = 1..Len(dfs.stack)
    BY <1>2
  <2> QED
    BY <2>2, <2>3
<1>6. g \in Seq(Frames(succ)) /\ Len(g) = m - 1 /\ \A i \in 1..(m - 1) : g[i] = dfs.frames[i]
  BY <1>2, <1>4, FrontFacts
<1> DEFINE popped == Popped(dfs, stk2, cmp2, mem2, loop2)
<1>7. dfs' = IF g = <<>> THEN [popped EXCEPT !.frames = g]
             ELSE [popped EXCEPT !.frames = g, !.low[g[Len(g)].node] = Smaller(@, dfs.low[u])]
  BY DEF LeaveNode, Popped
<1>8. taken \in SUBSET DOMAIN succ /\ \A x \in taken : dfs.component[x] = 0
  <2>1. ASSUME NEW i \in pos..Len(dfs.stack) PROVE dfs.stack[i] \in DOMAIN succ /\ dfs.component[dfs.stack[i]] = 0
    <3> HIDE DEF pos
    <3>1. Len(dfs.stack) \in Nat /\ i \in 1..Len(dfs.stack)
      BY <1>2, <1>5
    <3>2. Open(dfs.index, dfs.component, dfs.stack[i])
      BY <1>3, <3>1 DEF Search, Stacked
    <3> QED
      BY <1>2, <3>1, <3>2 DEF Open
  <2> QED
    BY <2>1
<1>9. K \in Nat /\ Len(dfs.members) \in Nat /\ \A x \in DOMAIN succ : dfs.component[x] < K
  <2>1. Len(dfs.members) \in Nat /\ \A x \in DOMAIN succ : dfs.component[x] \in Nat /\ dfs.component[x] <= Len(dfs.members)
    BY <1>2, <1>3 DEF Counted
  <2> QED
    BY ONLY <2>1
<1>10. cmp2 \in [DOMAIN succ -> Nat] /\ \A b \in DOMAIN succ : cmp2[b] = IF b \in taken THEN K ELSE dfs.component[b]
  <2> HIDE DEF taken, K
  <2> QED
    BY <1>2, <1>9
<1>11. Renumbered(succ, cmp2, dfs.component, dfs.stack, pos, K)
  <2>1. \A b : b \in taken <=> \E i \in pos..Len(dfs.stack) : dfs.stack[i] = b
    OBVIOUS
  <2> HIDE DEF cmp2, taken, K, pos
  <2> QED
    BY ONLY <1>10, <2>1 DEF Renumbered
<1>12. mem2 \in Seq(Nat) /\ Counted(succ, cmp2, mem2) /\ Cardinality(taken) \in Nat
  <2>1. Cardinality(taken) \in Nat
    <3> HIDE DEF taken
    <3> QED
      BY <1>8, NodesFinite, FS_Subset, FS_CardinalityType
  <2>2. \A x \in DOMAIN succ : cmp2[x] = IF x \in taken THEN Len(dfs.members) + 1 ELSE dfs.component[x]
    BY <1>10
  <2> HIDE DEF cmp2, taken
  <2>3. dfs.component \in [DOMAIN succ -> Nat] /\ dfs.members \in Seq(Nat) /\ Counted(succ, dfs.component, dfs.members)
    BY <1>2, <1>3
  <2>4. cmp2 \in [DOMAIN succ -> Nat]
    BY <1>10
  <2> QED
    BY ONLY Graph(succ), <1>8, <2>1, <2>2, <2>3, <2>4, AppendedCount
<1>13. loop2 \in Seq(BOOLEAN) /\ Looped(mem2, loop2)
  <2> HIDE DEF taken
  <2> QED
    BY ONLY <1>2, <1>3, <1>12, AppendedLoop
<1>14. Search(succ, dfs.index, dfs.low, dfs.next, stk2, g, cmp2)
  <2>1. m = Len(dfs.frames) /\ dfs.low[u] = dfs.index[u]
    OBVIOUS
  <2> HIDE DEF m, u, pos, K, cmp2
  <2>2. Topmost(dfs.frames, m, u)
    BY <1>1, <2>1 DEF Topmost
  <2> QED
    <3>1. dfs.frames # <<>> /\ u = dfs.frames[m].node /\ dfs.frames[m].cursor >= Len(succ[u])
      BY <1>1
    <3>2. pos \in 1..Len(dfs.stack) /\ dfs.stack[pos] = u
      BY <1>5
    <3>3. K \in Nat /\ \A x \in DOMAIN succ : dfs.component[x] < K
      BY <1>9
    <3>4. cmp2 \in [DOMAIN succ -> Nat]
      BY <1>10
    <3>5. Search(succ, dfs.index, dfs.low, dfs.next, dfs.stack, dfs.frames, dfs.component)
      BY <1>3
    <3> HIDE DEF stk2, g
    <3>6. stk2 = SubSeq(dfs.stack, 1, pos - 1) /\ g = SubSeq(dfs.frames, 1, m - 1)
      BY DEF stk2, g
    <3>7. Search(succ, dfs.index, dfs.low, dfs.next, SubSeq(dfs.stack, 1, pos - 1), SubSeq(dfs.frames, 1, m - 1), cmp2)
      BY ONLY Graph(succ), <1>11, <2>1, <2>2, <3>1, <3>2, <3>3, <3>4, <3>5, RootKeeps, ZenonT(30)
    <3> QED
      BY ONLY <3>6, <3>7
<1> HIDE DEF stk2, cmp2, mem2, loop2, pos, taken, K
<1>15. popped = State(dfs.index, dfs.low, dfs.next, stk2, dfs.frames, cmp2, mem2, loop2)
  <2>1. dfs = State(dfs.index, dfs.low, dfs.next, dfs.stack, dfs.frames, dfs.component, dfs.members, dfs.loop)
    BY SearchingIsState
  <2> QED
    BY ONLY <2>1, StatePopped
<1>16. dfs' = State(dfs.index, dfs.low, dfs.next, stk2, g, cmp2, mem2, loop2)
  <2> HIDE DEF popped
  <2>1. CASE g = <<>>
    <3>1. dfs' = [popped EXCEPT !.frames = g]
      BY ONLY <1>7, <2>1
    <3> HIDE DEF g
    <3> QED
      BY ONLY <1>15, <3>1, StateFrames
  <2>2. CASE g # <<>>
    <3> DEFINE p == dfs.frames[m - 1].node
    <3>1. m - 1 \in Nat /\ m - 1 # 0
      <4> HIDE DEF m, g
      <4>1. m - 1 \in Nat
        BY <1>4
      <4> QED
        BY <1>6, <2>2, <4>1
    <3>2. m - 1 \in 1..(m - 1) /\ m # 1
      <4> HIDE DEF m
      <4> QED
        BY <1>4, <3>1
    <3>3. g[Len(g)].node = p
      <4> HIDE DEF m, g
      <4> QED
        BY <1>6, <3>2
    <3>4. dfs' = [popped EXCEPT !.frames = g, !.low[p] = Smaller(@, dfs.low[u])]
      <4> HIDE DEF g, m, p, u
      <4> QED
        BY ONLY <1>7, <2>2, <3>3
    <3>5. popped.low = dfs.low
      BY ONLY <1>15, StateFields
    <3>6. dfs' = Relinked(popped, g, Linked(dfs.low, p, u))
      <4> HIDE DEF g, m, p, u
      <4> QED
        BY ONLY <3>4, <3>5 DEF Relinked, Linked
    <3>7. Linked(dfs.low, p, u) = dfs.low
      <4>1. m - 1 \in 1..m /\ m - 1 < m
        <5> HIDE DEF m
        <5> QED
          BY <1>4, <3>2
      <4>2. dfs.low[dfs.frames[m].node] = dfs.index[dfs.frames[m].node]
        BY <1>1
      <4> HIDE DEF u
      <4>3. Linked(dfs.low, dfs.frames[m - 1].node, dfs.frames[m].node) = dfs.low
        BY <1>3, <1>4, <4>1, <4>2, RootLinks
      <4> QED
        BY <1>1, <4>3
    <3> HIDE DEF g, m, p, u
    <3> QED
      BY ONLY <1>15, <3>6, <3>7, StateLow
  <2> QED
    BY <2>1, <2>2
<1> HIDE DEF g
<1> QED
  BY <1>12, <1>13, <1>14, <1>16, SearchingState

LEMMA MoreThanOne ==
  ASSUME NEW S, IsFiniteSet(S)
  PROVE  Cardinality(S) > 1 <=> \E a, b \in S : a # b
<1>1. Cardinality(S) \in Nat
  BY FS_CardinalityType
<1>2. ASSUME Cardinality(S) > 1 PROVE \E a, b \in S : a # b
  <2>1. S # {}
    BY <1>1, <1>2, FS_EmptySet
  <2>2. PICK a \in S : TRUE
    BY <2>1
  <2>3. S # {a}
    BY <1>2, FS_Singleton
  <2> QED
    BY <2>2, <2>3
<1>3. ASSUME NEW a \in S, NEW b \in S, a # b PROVE Cardinality(S) > 1
  <2>1. {a, b} \subseteq S /\ IsFiniteSet({a})
    BY FS_Singleton
  <2>2. {a, b} = {a} \cup {b} /\ b \notin {a}
    BY <1>3
  <2>3. Cardinality({a, b}) = 2
    <3>1. Cardinality({a}) = 1
      BY FS_Singleton
    <3>2. Cardinality({a} \cup {b}) = Cardinality({a}) + 1
      BY <2>1, <2>2, FS_AddElement
    <3> QED
      BY <2>2, <3>1, <3>2
  <2>4. Cardinality({a, b}) <= Cardinality(S)
    BY <2>1, FS_Subset
  <2> QED
    BY <1>1, <2>3, <2>4
<1> QED
  BY <1>2, <1>3

\* A cycle leads through a component exactly when it has two blocks or a block with an edge to itself.
Cyclic(sc, d, c) == \E b \in DOMAIN sc : d.component[b] = c /\ \E s \in SetOfSuccessors(sc, b) : b \in From(sc, s)

StrongResult(sc, d) ==
    /\ \A a, b \in DOMAIN sc : (d.component[a] = d.component[b]) <=> (b \in From(sc, a) /\ a \in From(sc, b))
    /\ \A c \in DOMAIN d.members :
          /\ d.members[c] = Cardinality({b \in DOMAIN sc : d.component[b] = c})
          /\ d.loop[c] <=> Cyclic(sc, d, c)

LEMMA AllFinished ==
  ASSUME NEW sc, Graph(sc), NEW d, Searching(sc, d), d.frames = <<>>, \A b \in DOMAIN sc : d.index[b] # 0
  PROVE  /\ \A x \in DOMAIN sc : d.component[x] # 0
         /\ \A a, b \in DOMAIN sc : (d.component[a] = d.component[b]) <=> (b \in From(sc, a) /\ a \in From(sc, b))
<1>1. Search(sc, d.index, d.low, d.next, d.stack, <<>>, d.component)
  BY DEF Searching
<1>2. Len(<<>>) = 0 /\ 1..0 = {}
  OBVIOUS
<1>3. \A x \in DOMAIN sc : ~Open(d.index, d.component, x)
  BY <1>1, <1>2 DEF Search, Upward
<1>4. \A x \in DOMAIN sc : d.component[x] # 0
  BY <1>3 DEF Open
<1> QED
  BY <1>1, <1>4 DEF Search, Finished

LEMMA LoopsAreCycles ==
  ASSUME NEW sc, Graph(sc), NEW d, Searching(sc, d), d.frames = <<>>, \A b \in DOMAIN sc : d.index[b] # 0,
         NEW c \in 1..Len(d.members)
  PROVE  Cyclic(sc, d, c) <=>
            \/ d.members[c] > 1
            \/ \E b \in DOMAIN sc : d.component[b] = c /\ b \in SetOfSuccessors(sc, b)
<1> DEFINE S == {x \in DOMAIN sc : d.component[x] = c}
<1>1. \A a, b \in DOMAIN sc : (d.component[a] = d.component[b]) <=> (b \in From(sc, a) /\ a \in From(sc, b))
  BY AllFinished
<1>2. IsFiniteSet(S) /\ d.members[c] = Cardinality(S)
  BY NodesFinite, FS_Subset DEF Searching, Counted
<1>3. d.members[c] > 1 <=> \E a, b \in S : a # b
  <2> HIDE DEF S
  <2> QED
    BY <1>2, MoreThanOne
<1>4. ASSUME NEW b \in DOMAIN sc, d.component[b] = c, NEW s \in SetOfSuccessors(sc, b), b \in From(sc, s), b # s
      PROVE  d.members[c] > 1
  <2>1. s \in DOMAIN sc /\ s \in From(sc, b)
    BY SuccessorMember, BlockReach
  <2>2. d.component[s] = c
    BY <1>1, <1>4, <2>1
  <2>3. b \in S /\ s \in S
    BY <1>4, <2>1, <2>2
  <2> HIDE DEF S
  <2> QED
    BY <1>3, <1>4, <2>3
<1>5. ASSUME d.members[c] > 1 PROVE Cyclic(sc, d, c)
  <2>1. PICK a \in S, b \in S : a # b
    BY <1>3, <1>5
  <2>2. b \in From(sc, a) /\ a \in From(sc, b)
    BY <1>1
  <2>3. PICK k \in 1..Len(sc[a]) : b \in From(sc, sc[a][k])
    BY <2>1, <2>2, BlockReach
  <2>4. sc[a][k] \in SetOfSuccessors(sc, a) /\ sc[a][k] \in DOMAIN sc
    BY <2>3, SuccessorMember
  <2>5. a \in From(sc, sc[a][k])
    BY <2>2, <2>3, <2>4, BlockReach
  <2> QED
    BY <2>1, <2>4, <2>5 DEF Cyclic
<1>6. ASSUME NEW b \in DOMAIN sc, d.component[b] = c, b \in SetOfSuccessors(sc, b) PROVE Cyclic(sc, d, c)
  <2>1. b \in From(sc, b)
    BY BlockReach
  <2> QED
    BY <1>6, <2>1 DEF Cyclic
<1> HIDE DEF S
<1> QED
  BY <1>4, <1>5, <1>6 DEF Cyclic

LEMMA StateLoop ==
  ASSUME NEW i, NEW l, NEW n, NEW t, NEW f, NEW c, NEW k, NEW o, NEW g
  PROVE  [State(i, l, n, t, f, c, k, o) EXCEPT !.loop = g] = State(i, l, n, t, f, c, k, g)
BY DEF State

LEMMA StrongDoneResult ==
  ASSUME Graph(succ), Nodes = DOMAIN succ, Searching(succ, dfs), StrongDone
  PROVE  StrongResult(succ, dfs')
<1> DEFINE self(c) == \E b \in Nodes : dfs.component[b] = c /\ HasSelfEdge(b)
           loop2 == [c \in DOMAIN dfs.loop |-> dfs.loop[c] \/ self(c)]
<1>1. dfs.frames = <<>> /\ (\A b \in DOMAIN succ : dfs.index[b] # 0) /\ dfs' = [dfs EXCEPT !.loop = loop2]
  BY DEF StrongDone
<1>2. dfs.members \in Seq(Nat) /\ dfs.loop \in Seq(BOOLEAN) /\ Len(dfs.loop) = Len(dfs.members)
  BY SearchingFields DEF Searching, Looped
<1>3. DOMAIN dfs.members = 1..Len(dfs.members) /\ DOMAIN dfs.loop = 1..Len(dfs.members)
  BY <1>2
<1>4. ASSUME NEW c \in 1..Len(dfs.members) PROVE self(c) <=> \E b \in DOMAIN succ : dfs.component[b] = c /\ b \in SetOfSuccessors(succ, b)
  BY DEF HasSelfEdge, SetOfSuccessors
<1>5. ASSUME NEW c \in 1..Len(dfs.members) PROVE loop2[c] <=> dfs.members[c] > 1 \/ self(c)
  <2>1. dfs.loop[c] <=> dfs.members[c] > 1
    BY DEF Searching, Looped
  <2>2. loop2[c] <=> dfs.loop[c] \/ self(c)
    BY <1>3
  <2> HIDE DEF self, loop2
  <2> QED
    BY <2>1, <2>2
<1> HIDE DEF loop2, self
<1>6. /\ dfs'.component = dfs.component /\ dfs'.members = dfs.members /\ dfs'.loop = loop2
  <2>1. dfs = State(dfs.index, dfs.low, dfs.next, dfs.stack, dfs.frames, dfs.component, dfs.members, dfs.loop)
    BY SearchingIsState
  <2>2. dfs' = State(dfs.index, dfs.low, dfs.next, dfs.stack, dfs.frames, dfs.component, dfs.members, loop2)
    BY ONLY <1>1, <2>1, StateLoop
  <2> QED
    BY ONLY <2>2, StateFields
<1>7. \A c : Cyclic(succ, dfs', c) <=> Cyclic(succ, dfs, c)
  BY <1>6 DEF Cyclic
<1>8. ASSUME NEW c \in 1..Len(dfs.members)
      PROVE  /\ dfs.members[c] = Cardinality({b \in DOMAIN succ : dfs.component[b] = c})
             /\ loop2[c] <=> Cyclic(succ, dfs, c)
  <2>1. dfs.members[c] = Cardinality({b \in DOMAIN succ : dfs.component[b] = c})
    BY DEF Searching, Counted
  <2>2. Cyclic(succ, dfs, c) <=> dfs.members[c] > 1 \/ self(c)
    BY <1>1, <1>4, LoopsAreCycles
  <2> QED
    BY <1>5, <2>1, <2>2, Zenon
<1>9. \A a, b \in DOMAIN succ : (dfs.component[a] = dfs.component[b]) <=> (b \in From(succ, a) /\ a \in From(succ, b))
  BY <1>1, AllFinished
<1>10. \A a, b \in DOMAIN succ : (dfs'.component[a] = dfs'.component[b]) <=> (b \in From(succ, a) /\ a \in From(succ, b))
  BY ONLY <1>6, <1>9
<1>11. ASSUME NEW c \in DOMAIN dfs'.members
       PROVE  /\ dfs'.members[c] = Cardinality({b \in DOMAIN succ : dfs'.component[b] = c})
              /\ dfs'.loop[c] <=> Cyclic(succ, dfs', c)
  <2>1. c \in 1..Len(dfs.members)
    BY <1>3, <1>6
  <2>2. {b \in DOMAIN succ : dfs'.component[b] = c} = {b \in DOMAIN succ : dfs.component[b] = c}
    BY <1>6
  <2>3. dfs'.members[c] = Cardinality({b \in DOMAIN succ : dfs'.component[b] = c})
    BY <1>6, <1>8, <2>1, <2>2
  <2>4. dfs'.loop[c] = loop2[c] /\ (loop2[c] <=> Cyclic(succ, dfs, c))
    BY <1>6, <1>8, <2>1
  <2>5. dfs'.loop[c] <=> Cyclic(succ, dfs', c)
    BY ONLY <1>7, <2>4, Zenon
  <2> QED
    BY ONLY <2>3, <2>5
<1> QED
  BY ONLY <1>10, <1>11, Zenon DEF StrongResult

-----------------------------------------------------------------------------
(* ComputeConnectedComponents: the invariant of the union-find.  r names   *)
(* the root of every block.                                                *)

Following(g, parent, b, n) == g = [k \in 0..n |-> IF k = 0 THEN b ELSE parent[g[k - 1]]]

LEMMA FollowingExists == ASSUME NEW parent, NEW b, NEW n \in Nat PROVE \E g : Following(g, parent, b, n)
<1> DEFINE N == {k \in Nat : \E g : Following(g, parent, b, k)}
<1>1. 0 \in N
  <2> DEFINE g == [k \in 0..0 |-> b]
  <2>1. Following(g, parent, b, 0)
    BY DEF Following
  <2> QED
    BY <2>1
<1>2. ASSUME NEW m \in N PROVE m + 1 \in N
  <2>1. PICK g : Following(g, parent, b, m)
    OBVIOUS
  <2> DEFINE h == [k \in 0..(m + 1) |-> IF k <= m THEN g[k] ELSE parent[g[m]]]
  <2>2. m \in Nat /\ m + 1 \in Nat
    OBVIOUS
  <2> HIDE DEF N
  <2>3. \A k \in 0..m : h[k] = g[k]
    BY <2>2
  <2>4. ASSUME NEW k \in 0..(m + 1) PROVE h[k] = IF k = 0 THEN b ELSE parent[h[k - 1]]
    <3>1. CASE k \in 0..m
      <4>1. g[k] = IF k = 0 THEN b ELSE parent[g[k - 1]]
        BY <2>1, <3>1 DEF Following
      <4>2. k # 0 => k - 1 \in 0..m
        BY <2>2, <3>1
      <4> HIDE DEF h
      <4>3. k # 0 => h[k - 1] = g[k - 1]
        BY <2>3, <4>2
      <4> QED
        BY <2>3, <3>1, <4>1, <4>3
    <3>2. CASE k = m + 1
      <4>1. k # 0 /\ k - 1 = m /\ m \in 0..m /\ ~(k <= m)
        BY <2>2, <3>2
      <4>2. h[k] = parent[g[m]]
        BY <4>1
      <4>3. h[k - 1] = g[m]
        BY <2>3, <4>1
      <4> HIDE DEF h
      <4> QED
        BY <3>2, <4>1, <4>2, <4>3
    <3> QED
      BY <2>2, <3>1, <3>2
  <2>5. h = [k \in 0..(m + 1) |-> h[k]]
    OBVIOUS
  <2> HIDE DEF h
  <2>6. Following(h, parent, b, m + 1)
    BY <2>4, <2>5 DEF Following
  <2> QED
    BY <2>2, <2>6 DEF N
<1>3. N \in SUBSET Nat
  OBVIOUS
<1> HIDE DEF N
<1>4. n \in N
  BY <1>1, <1>2, <1>3, SetInduction
<1> QED
  BY <1>4 DEF N

\* Parents lead to the roots, and ranks grow on the way.
Rooted(D, parent, rank, r) ==
    /\ parent \in [D -> D] /\ rank \in [D -> Nat] /\ r \in [D -> D]
    /\ \A x \in D : /\ r[parent[x]] = r[x] /\ parent[r[x]] = r[x]
                    /\ parent[x] = x => r[x] = x
                    /\ parent[x] # x => rank[x] < rank[parent[x]]
                    /\ r[x] # x => rank[x] < rank[r[x]]

\* The path from b, as long as there are blocks, ends at the root of b.
LEMMA PathEnds ==
  ASSUME NEW n \in Nat, NEW D, IsFiniteSet(D), Cardinality(D) = n, NEW parent, NEW rank, NEW r,
         Rooted(D, parent, rank, r), NEW b \in D, NEW g, Following(g, parent, b, n)
  PROVE  g[n] = r[b] /\ \A k \in 0..n : g[k] \in D /\ r[g[k]] = r[b]
<1>1. /\ parent \in [D -> D] /\ rank \in [D -> Nat] /\ r \in [D -> D]
      /\ \A x \in D : /\ r[parent[x]] = r[x] /\ parent[r[x]] = r[x]
                      /\ parent[x] = x => r[x] = x
                      /\ parent[x] # x => rank[x] < rank[parent[x]]
  BY DEF Rooted
<1> DEFINE Lower(k, m) == g[k] \in D /\ rank[g[k]] < rank[g[m]] /\ g[k] # r[b]
           N == {m \in Nat : m <= n =>
                    /\ g[m] \in D /\ r[g[m]] = r[b]
                    /\ g[m] = r[b] \/ \A k \in 0..m : k # m => Lower(k, m)}
<1>2. g[0] = b /\ \A k \in 0..n : k # 0 => g[k] = parent[g[k - 1]]
  BY DEF Following
<1>3. 0 \in N
  BY <1>2
<1>4. ASSUME NEW m \in N PROVE m + 1 \in N
  <2>1. SUFFICES ASSUME m + 1 <= n
                 PROVE  /\ g[m + 1] \in D /\ r[g[m + 1]] = r[b]
                        /\ g[m + 1] = r[b] \/ \A k \in 0..(m + 1) : k # m + 1 => Lower(k, m + 1)
    OBVIOUS
  <2>2. m \in Nat /\ m <= n /\ m + 1 \in 0..n /\ m + 1 # 0 /\ m + 1 - 1 = m
    BY <2>1
  <2>3. g[m] \in D /\ r[g[m]] = r[b] /\ (g[m] = r[b] \/ \A k \in 0..m : k # m => Lower(k, m))
    BY <2>2
  <2>4. g[m + 1] = parent[g[m]]
    BY <1>2, <2>2
  <2> HIDE DEF N, Lower
  <2>5. g[m + 1] \in D /\ r[g[m + 1]] = r[b]
    BY <1>1, <2>3, <2>4
  <2>6. CASE g[m] = r[b]
    BY <1>1, <2>4, <2>5, <2>6
  <2>7. CASE g[m] # r[b]
    <3>1. parent[g[m]] # g[m]
      BY <1>1, <2>3, <2>7
    <3>2. rank[g[m]] < rank[g[m + 1]]
      BY <1>1, <2>3, <2>4, <3>1
    <3>3. rank[g[m]] \in Nat /\ rank[g[m + 1]] \in Nat
      BY <1>1, <2>3, <2>5
    <3>4. ASSUME NEW k \in 0..(m + 1), k # m + 1 PROVE Lower(k, m + 1)
      <4>1. CASE k = m
        BY <2>3, <2>7, <3>2, <4>1 DEF Lower
      <4>2. CASE k # m
        <5>1. k \in 0..m
          BY <2>2, <3>4
        <5>2. Lower(k, m)
          BY <2>3, <2>7, <4>2, <5>1
        <5>3. rank[g[k]] \in Nat
          BY <1>1, <5>2 DEF Lower
        <5> QED
          BY <3>2, <3>3, <5>2, <5>3 DEF Lower
      <4> QED
        BY <4>1, <4>2
    <3> QED
      BY <2>5, <3>4
  <2> QED
    BY <2>6, <2>7
<1>5. N \in SUBSET Nat
  OBVIOUS
<1>6. \A m \in Nat : m \in N
  <2> HIDE DEF N
  <2> QED
    BY <1>3, <1>4, <1>5, SetInduction
<1>7. ASSUME NEW m \in 0..n
      PROVE  /\ g[m] \in D /\ r[g[m]] = r[b]
             /\ g[m] = r[b] \/ \A k \in 0..m : k # m => Lower(k, m)
  <2>1. m \in Nat /\ m <= n /\ m \in N
    BY <1>6
  <2> QED
    BY <2>1
<1> HIDE DEF N, Lower
<1>8. ASSUME g[n] # r[b], NEW i \in 0..n, NEW j \in 0..n, i < j PROVE g[i] # g[j]
  <2>1. n \in 0..n
    OBVIOUS
  <2>2. g[j] # r[b]
    <3>1. CASE j = n
      BY <1>8, <3>1
    <3>2. CASE j # n
      <4>1. Lower(j, n)
        BY <1>7, <1>8, <2>1, <3>2
      <4> QED
        BY <4>1 DEF Lower
    <3> QED
      BY <3>1, <3>2
  <2>3. i \in 0..j /\ i # j
    BY <1>8
  <2>4. Lower(i, j)
    BY <1>7, <2>2, <2>3
  <2>5. rank[g[i]] < rank[g[j]] /\ rank[g[j]] \in Nat
    BY <1>1, <1>7, <2>4 DEF Lower
  <2> QED
    BY <2>5
<1>9. g[n] = r[b]
  <2>1. SUFFICES ASSUME g[n] # r[b] PROVE FALSE
    OBVIOUS
  <2> DEFINE f == [k \in 0..n |-> g[k]]
  <2>2. f \in [0..n -> D]
    BY <1>7
  <2>3. IsFiniteSet(0..n) /\ Cardinality(0..n) = n + 1
    <3>1. 0 \in Int /\ n \in Int /\ ~(0 > n) /\ n - 0 + 1 = n + 1
      OBVIOUS
    <3> QED
      BY <3>1, FS_Interval
  <2>4. Cardinality(D) < Cardinality(0..n)
    BY <2>3
  <2> HIDE DEF f
  <2>5. PICK x \in 0..n, y \in 0..n : x # y /\ f[x] = f[y]
    BY <2>2, <2>3, <2>4, FS_PigeonHole
  <2>6. g[x] = g[y]
    BY <2>5 DEF f
  <2>7. x < y \/ y < x
    BY <2>5
  <2> QED
    BY <1>8, <2>1, <2>6, <2>7
<1> QED
  BY <1>7, <1>9

\* The parents after the members of P have been given the parent q.
Compressed(D, P, q, parent) == [x \in D |-> IF x \in P THEN q ELSE parent[x]]

\* CfgFindRoot returns the root, and the compressed parents lead to the same roots.
LEMMA CompressedRooted ==
  ASSUME NEW D, NEW parent, NEW rank, NEW r, Rooted(D, parent, rank, r), NEW b \in D,
         NEW P, \A x \in P : x \in D /\ r[x] = r[b]
  PROVE  Rooted(D, Compressed(D, P, r[b], parent), rank, r)
<1> DEFINE p2 == Compressed(D, P, r[b], parent)
<1>1. /\ parent \in [D -> D] /\ rank \in [D -> Nat] /\ r \in [D -> D]
      /\ \A x \in D : /\ r[parent[x]] = r[x] /\ parent[r[x]] = r[x]
                      /\ parent[x] = x => r[x] = x
                      /\ parent[x] # x => rank[x] < rank[parent[x]]
                      /\ r[x] # x => rank[x] < rank[r[x]]
  BY DEF Rooted
<1>2. r[b] \in D /\ r[r[b]] = r[b]
  BY <1>1
<1>3. p2 \in [D -> D] /\ \A x \in D : p2[x] = IF x \in P THEN r[b] ELSE parent[x]
  BY <1>1, <1>2 DEF Compressed
<1> HIDE DEF p2
<1>4. ASSUME NEW x \in D
      PROVE  /\ r[p2[x]] = r[x] /\ p2[r[x]] = r[x]
             /\ p2[x] = x => r[x] = x
             /\ p2[x] # x => rank[x] < rank[p2[x]]
             /\ r[x] # x => rank[x] < rank[r[x]]
  <2>1. r[x] \in D /\ r[r[x]] = r[x]
    BY <1>1
  <2>2. p2[r[x]] = r[x]
    BY <1>1, <1>3, <2>1
  <2>3. CASE x \in P
    <3>1. p2[x] = r[b] /\ r[x] = r[b]
      BY <1>3, <2>3
    <3> QED
      BY <1>1, <1>2, <2>2, <3>1
  <2>4. CASE x \notin P
    <3>1. p2[x] = parent[x]
      BY <1>3, <2>4
    <3> QED
      BY <1>1, <2>2, <3>1
  <2> QED
    BY <2>3, <2>4
<1>5. Rooted(D, p2, rank, r)
  BY ONLY <1>1, <1>3, <1>4 DEF Rooted
<1> QED
  BY <1>5 DEF p2

LEMMA FindRootFacts ==
  ASSUME Len(blocks) \in Nat, Nodes = 1..Len(blocks), NEW parent, NEW rank, NEW r, Rooted(Nodes, parent, rank, r),
         NEW b \in Nodes
  PROVE  FindRoot(parent, b).root = r[b] /\ Rooted(Nodes, FindRoot(parent, b).parent, rank, r)
<1> DEFINE n == Len(blocks)
           g == CHOOSE g : Following(g, parent, b, n)
           P == {x \in Nodes : \E k \in 0..n : g[k] = x}
           p2 == [x \in Nodes |-> IF \E k \in 0..n : g[k] = x THEN g[n] ELSE parent[x]]
<1>1. Following(g, parent, b, n)
  BY FollowingExists
<1>2. FindRoot(parent, b) = [root |-> g[n], parent |-> p2]
  BY DEF FindRoot, Following
<1>3. IsFiniteSet(Nodes) /\ Cardinality(Nodes) = n
  BY UptoNatural
<1> HIDE DEF g
<1>4. g[n] = r[b] /\ \A k \in 0..n : g[k] \in Nodes /\ r[g[k]] = r[b]
  <2> HIDE DEF n
  <2>1. n \in Nat
    BY DEF n
  <2> QED
    BY <1>1, <1>3, <2>1, PathEnds
<1>5. \A x \in P : x \in Nodes /\ r[x] = r[b]
  BY <1>4
<1>6. p2 = Compressed(Nodes, P, r[b], parent)
  <2>1. ASSUME NEW x \in Nodes PROVE x \in P <=> \E k \in 0..n : g[k] = x
    OBVIOUS
  <2> HIDE DEF P, n
  <2> QED
    BY <1>4, <2>1 DEF Compressed
<1>7. Rooted(Nodes, p2, rank, r)
  <2> HIDE DEF p2, P
  <2> QED
    BY <1>5, <1>6, CompressedRooted
<1> HIDE DEF p2, n
<1>8. FindRoot(parent, b).root = g[n] /\ FindRoot(parent, b).parent = p2
  BY <1>2
<1> QED
  BY <1>4, <1>7, <1>8

\* One root becomes the child of another of higher rank.
Moved(D, r, z, w) == [x \in D |-> IF r[x] = z THEN w ELSE r[x]]

LEMMA MovedRooted ==
  ASSUME NEW D, NEW parent, NEW rank, NEW r, Rooted(D, parent, rank, r), NEW w \in D, NEW z \in D, w # z,
         parent[w] = w, parent[z] = z, NEW rank2 \in [D -> Nat], \A x \in D : x # w => rank2[x] = rank[x],
         rank2[w] >= rank[w], rank[z] < rank2[w]
  PROVE  Rooted(D, [parent EXCEPT ![z] = w], rank2, Moved(D, r, z, w))
<1> DEFINE p2 == [parent EXCEPT ![z] = w]
           r2 == Moved(D, r, z, w)
<1>1. /\ parent \in [D -> D] /\ rank \in [D -> Nat] /\ r \in [D -> D]
      /\ \A x \in D : /\ r[parent[x]] = r[x] /\ parent[r[x]] = r[x]
                      /\ parent[x] = x => r[x] = x
                      /\ parent[x] # x => rank[x] < rank[parent[x]]
                      /\ r[x] # x => rank[x] < rank[r[x]]
  BY DEF Rooted
<1>2. p2 \in [D -> D] /\ p2[z] = w /\ \A x \in D : x # z => p2[x] = parent[x]
  BY <1>1
<1>3. r2 \in [D -> D] /\ \A x \in D : r2[x] = IF r[x] = z THEN w ELSE r[x]
  BY <1>1 DEF Moved
<1>4. r[w] = w /\ r[z] = z /\ r2[w] = w
  BY <1>1, <1>3
<1>5. \A x \in D : rank[x] \in Nat /\ rank2[x] \in Nat /\ rank[x] <= rank2[x] /\ (x # w => rank2[x] = rank[x])
  <2>1. \A x \in D : rank[x] \in Nat /\ rank2[x] \in Nat
    BY <1>1
  <2>2. ASSUME NEW x \in D PROVE rank[x] <= rank2[x]
    <3>1. CASE x = w
      BY <2>1, <3>1
    <3>2. CASE x # w
      BY <2>1, <3>2
    <3> QED
      BY <3>1, <3>2
  <2> QED
    BY <2>1, <2>2
<1> HIDE DEF p2, r2
<1>6. ASSUME NEW x \in D
      PROVE  /\ r2[p2[x]] = r2[x] /\ p2[r2[x]] = r2[x]
             /\ p2[x] = x => r2[x] = x
             /\ p2[x] # x => rank2[x] < rank2[p2[x]]
             /\ r2[x] # x => rank2[x] < rank2[r2[x]]
  <2>1. r[x] \in D /\ parent[x] \in D
    BY <1>1
  <2>2. r2[p2[x]] = r2[x]
    <3>1. CASE x = z
      BY <1>2, <1>3, <1>4, <3>1
    <3>2. CASE x # z
      BY <1>1, <1>2, <1>3, <2>1, <3>2
    <3> QED
      BY <3>1, <3>2
  <2>3. p2[r2[x]] = r2[x]
    <3>1. CASE r[x] = z
      BY <1>2, <1>3, <3>1
    <3>2. CASE r[x] # z
      BY <1>1, <1>2, <1>3, <2>1, <3>2
    <3> QED
      BY <3>1, <3>2
  <2>4. p2[x] = x => r2[x] = x
    <3>1. CASE x = z
      BY <1>2, <3>1
    <3>2. CASE x # z
      BY <1>1, <1>2, <1>3, <3>2
    <3> QED
      BY <3>1, <3>2
  <2>5. ASSUME p2[x] # x PROVE rank2[x] < rank2[p2[x]]
    <3>1. CASE x = z
      BY <1>2, <3>1
    <3>2. CASE x # z
      <4>1. p2[x] = parent[x] /\ parent[x] # x /\ x # w
        BY <1>2, <2>5, <3>2
      <4>2. rank[x] < rank[parent[x]]
        BY <1>1, <4>1
      <4>3. rank2[x] = rank[x] /\ rank[parent[x]] <= rank2[parent[x]] /\ rank[parent[x]] \in Nat /\ rank2[parent[x]] \in Nat /\ rank[x] \in Nat
        BY <1>5, <2>1, <4>1
      <4> QED
        BY ONLY <4>1, <4>2, <4>3
    <3> QED
      BY <3>1, <3>2
  <2>6. ASSUME r2[x] # x PROVE rank2[x] < rank2[r2[x]]
    <3>1. x # w
      BY <1>4, <2>6
    <3>2. rank2[x] = rank[x] /\ rank[x] \in Nat
      BY <1>5, <3>1
    <3>3. CASE r[x] = z
      <4>1. r2[x] = w
        BY <1>3, <3>3
      <4>2. x = z \/ rank[x] < rank[z]
        BY <1>1, <3>3
      <4>3. rank[z] \in Nat /\ rank2[w] \in Nat
        BY <1>5
      <4>4. rank[z] < rank2[w]
        OBVIOUS
      <4> QED
        BY ONLY <3>2, <4>1, <4>2, <4>3, <4>4
    <3>4. CASE r[x] # z
      <4>1. r2[x] = r[x]
        BY <1>3, <3>4
      <4>2. rank[x] < rank[r[x]]
        BY <1>1, <2>6, <4>1
      <4>3. rank[r[x]] <= rank2[r[x]] /\ rank[r[x]] \in Nat /\ rank2[r[x]] \in Nat
        BY <1>5, <2>1
      <4> QED
        BY ONLY <3>2, <4>1, <4>2, <4>3
    <3> QED
      BY <3>3, <3>4
  <2> QED
    BY <2>2, <2>3, <2>4, <2>5, <2>6
<1>7. Rooted(D, p2, rank2, r2)
  BY ONLY <1>2, <1>3, <1>6, rank2 \in [D -> Nat] DEF Rooted
<1> QED
  BY <1>7 DEF p2, r2

\* CfgUnion: two roots become one, and every other root stays.
Unites(D, r, r2, l, q) ==
    /\ \A x, y \in D : r[x] = r[y] => r2[x] = r2[y]
    /\ r2[l] = r2[q]
    /\ \A x \in D : r2[x] = r[x] \/ (r[x] \in {l, q} /\ r2[x] \in {l, q})

LEMMA MovedUnites ==
  ASSUME NEW D, NEW r \in [D -> D], NEW w \in D, NEW z \in D, r[w] = w, r[z] = z, NEW l, NEW q,
         (l = w /\ q = z) \/ (l = z /\ q = w)
  PROVE  Unites(D, r, Moved(D, r, z, w), l, q)
<1> DEFINE r2 == Moved(D, r, z, w)
<1>1. \A x \in D : r2[x] = IF r[x] = z THEN w ELSE r[x]
  BY DEF Moved
<1> HIDE DEF r2
<1>2. \A x, y \in D : r[x] = r[y] => r2[x] = r2[y]
  BY <1>1
<1>3. r2[w] = w /\ r2[z] = w
  BY <1>1
<1>4. \A x \in D : r2[x] = r[x] \/ (r[x] \in {l, q} /\ r2[x] \in {l, q})
  BY <1>1
<1> QED
  BY <1>2, <1>3, <1>4 DEF Unites, r2

LEMMA UnionFacts ==
  ASSUME NEW D, NEW parent, NEW rank, NEW r, Rooted(D, parent, rank, r), NEW l \in D, NEW q \in D,
         parent[l] = l, parent[q] = q
  PROVE  \E r2 : /\ Rooted(D, CfgUnion(parent, rank, l, q).parent, CfgUnion(parent, rank, l, q).rank, r2)
                 /\ Unites(D, r, r2, l, q)
<1>1. /\ parent \in [D -> D] /\ rank \in [D -> Nat] /\ r \in [D -> D] /\ r[l] = l /\ r[q] = q
      /\ rank[l] \in Nat /\ rank[q] \in Nat
  BY DEF Rooted
<1> DEFINE u == CfgUnion(parent, rank, l, q)
<1>2. CASE l = q
  <2>1. u = [parent |-> parent, rank |-> rank]
    BY <1>2 DEF CfgUnion
  <2> HIDE DEF u
  <2>2. u.parent = parent /\ u.rank = rank
    BY <2>1
  <2>3. Unites(D, r, r, l, q)
    BY <1>2 DEF Unites
  <2> QED
    BY <2>2, <2>3 DEF u
<1>3. CASE l # q /\ rank[l] < rank[q]
  <2>1. u = [parent |-> [parent EXCEPT ![l] = q], rank |-> rank]
    BY <1>3 DEF CfgUnion
  <2> HIDE DEF u
  <2>2. u.parent = [parent EXCEPT ![l] = q] /\ u.rank = rank
    BY <2>1
  <2>3. rank[q] >= rank[q]
    BY <1>1
  <2>4. Rooted(D, [parent EXCEPT ![l] = q], rank, Moved(D, r, l, q))
    BY <1>1, <1>3, <2>3, MovedRooted
  <2>5. Unites(D, r, Moved(D, r, l, q), l, q)
    BY <1>1, MovedUnites
  <2> QED
    BY <2>2, <2>4, <2>5 DEF u
<1>4. CASE l # q /\ ~(rank[l] < rank[q])
  <2> DEFINE rank2 == IF rank[l] > rank[q] THEN rank ELSE [rank EXCEPT ![l] = @ + 1]
  <2>1. u = [parent |-> [parent EXCEPT ![q] = l], rank |-> rank2]
    BY <1>4 DEF CfgUnion
  <2>2. /\ rank2 \in [D -> Nat] /\ rank2[l] >= rank[l] /\ rank[q] < rank2[l]
        /\ \A x \in D : x # l => rank2[x] = rank[x]
    <3>1. CASE rank[l] > rank[q]
      BY <1>1, <3>1
    <3>2. CASE ~(rank[l] > rank[q])
      <4>1. rank2 = [rank EXCEPT ![l] = rank[l] + 1]
        BY <3>2
      <4>2. rank2 \in [D -> Nat] /\ rank2[l] = rank[l] + 1 /\ \A x \in D : x # l => rank2[x] = rank[x]
        BY <1>1, <4>1
      <4> HIDE DEF rank2
      <4> QED
        BY <1>1, <3>2, <4>2, <1>4
    <3> QED
      BY <3>1, <3>2
  <2> HIDE DEF u, rank2
  <2>3. u.parent = [parent EXCEPT ![q] = l] /\ u.rank = rank2
    BY <2>1
  <2>4. Rooted(D, [parent EXCEPT ![q] = l], rank2, Moved(D, r, q, l))
    BY <1>1, <1>4, <2>2, MovedRooted
  <2>5. Unites(D, r, Moved(D, r, q, l), l, q)
    BY <1>1, MovedUnites
  <2> QED
    BY <2>3, <2>4, <2>5 DEF u
<1> QED
  BY <1>2, <1>3, <1>4

-----------------------------------------------------------------------------
(* Edges in either direction. *)

NextTo(sc) == [x \in DOMAIN sc |-> SetOfSuccessors(sc, x) \cup {a \in DOMAIN sc : x \in SetOfSuccessors(sc, a)}]

Around(sc, x) == Closure({x}, NextTo(sc), Len(sc))

LEMMA AroundFlow == ASSUME NEW sc, Graph(sc) PROVE Flow(DOMAIN sc, NextTo(sc), Len(sc))
<1>1. \A x \in DOMAIN sc : NextTo(sc)[x] \subseteq DOMAIN sc
  BY SuccessorMember DEF NextTo
<1>2. Len(sc) \in Nat /\ IsFiniteSet(DOMAIN sc) /\ Cardinality(DOMAIN sc) <= Len(sc)
  BY NodesFinite DEF Graph
<1> QED
  BY <1>1, <1>2 DEF Flow

LEMMA AroundFacts ==
  ASSUME NEW sc, Graph(sc), NEW x \in DOMAIN sc
  PROVE  /\ x \in Around(sc, x) /\ Around(sc, x) \subseteq DOMAIN sc
         /\ \A y \in Around(sc, x) : NextTo(sc)[y] \subseteq Around(sc, x)
         /\ \A y \in Around(sc, x) : Around(sc, y) \subseteq Around(sc, x)
<1> DEFINE C == Closure({x}, NextTo(sc), Len(sc))
<1>1. x \in C /\ C \subseteq DOMAIN sc /\ \A y \in C : NextTo(sc)[y] \subseteq C
  BY AroundFlow, FlowFacts
<1>2. ASSUME NEW y \in C PROVE Closure({y}, NextTo(sc), Len(sc)) \subseteq C
  BY AroundFlow, FlowTransitive
<1> HIDE DEF C
<1>3. C = Around(sc, x)
  BY DEF C, Around
<1> QED
  BY <1>1, <1>2, <1>3 DEF Around

LEMMA AroundStays ==
  ASSUME NEW sc, Graph(sc), NEW Z, NEW x \in Z, \A y \in Z : NextTo(sc)[y] \subseteq Z
  PROVE  Around(sc, x) \subseteq Z
<1>1. {x} \subseteq Z /\ Len(sc) \in Nat
  BY DEF Graph
<1> QED
  BY <1>1, ClosureMinimal DEF Around

LEMMA AroundSymmetric ==
  ASSUME NEW sc, Graph(sc), NEW x \in DOMAIN sc, NEW y \in Around(sc, x)
  PROVE  Around(sc, y) = Around(sc, x)
<1> DEFINE Z == {z \in DOMAIN sc : x \in Around(sc, z)}
<1>1. ASSUME NEW z \in Z, NEW w \in NextTo(sc)[z] PROVE w \in Z
  <2>1. z \in DOMAIN sc /\ w \in DOMAIN sc
    BY SuccessorMember DEF NextTo
  <2>2. z \in NextTo(sc)[w]
    BY <2>1 DEF NextTo
  <2>3. z \in Around(sc, w)
    BY <2>1, <2>2, AroundFacts
  <2>4. x \in Around(sc, w)
    BY <2>1, <2>3, AroundFacts
  <2> QED
    BY <2>1, <2>4
<1>2. x \in Z
  BY AroundFacts
<1>3. Around(sc, x) \subseteq Z
  <2> HIDE DEF Z
  <2>1. \A z \in Z : NextTo(sc)[z] \subseteq Z
    BY <1>1
  <2> QED
    BY <1>2, <2>1, AroundStays
<1>4. y \in DOMAIN sc /\ x \in Around(sc, y)
  BY <1>3
<1>5. Around(sc, x) \subseteq Around(sc, y) /\ Around(sc, y) \subseteq Around(sc, x)
  BY <1>4, AroundFacts
<1> QED
  BY <1>5

-----------------------------------------------------------------------------
(* The union-find over the steps of the program. *)

Forest(p, k, n, c) == [parent |-> p, rank |-> k, node |-> n, cursor |-> c]

\* Every block has a root among the blocks it is connected with, and the ends
\* of an edge that has been joined have one root.
Inside(sc, r) == \A x \in DOMAIN sc : r[x] \in Around(sc, x)
Handled(sc, r, n, c) ==
    \A a \in DOMAIN sc : \A k \in 1..Len(sc[a]) : (a < n \/ (a = n /\ k <= c)) => r[a] = r[sc[a][k]]

Uniting(sc, u) ==
    /\ u = Forest(u.parent, u.rank, u.node, u.cursor)
    /\ u.node \in Nat \ {0} /\ u.cursor \in Nat /\ (u.node \in DOMAIN sc => u.cursor <= Len(sc[u.node]))
    /\ \E r : Rooted(DOMAIN sc, u.parent, u.rank, r) /\ Inside(sc, r) /\ Handled(sc, r, u.node, u.cursor)

LEMMA ForestFields ==
  ASSUME NEW p, NEW k, NEW n, NEW c
  PROVE  /\ Forest(p, k, n, c).parent = p /\ Forest(p, k, n, c).rank = k
         /\ Forest(p, k, n, c).node = n /\ Forest(p, k, n, c).cursor = c
BY DEF Forest

LEMMA UnitingForest ==
  ASSUME NEW sc, NEW p, NEW k, NEW n \in Nat \ {0}, NEW c \in Nat, n \in DOMAIN sc => c <= Len(sc[n]),
         NEW r, Rooted(DOMAIN sc, p, k, r), Inside(sc, r), Handled(sc, r, n, c)
  PROVE  Uniting(sc, Forest(p, k, n, c))
<1> DEFINE u == Forest(p, k, n, c)
<1>1. u.parent = p /\ u.rank = k /\ u.node = n /\ u.cursor = c
  BY ForestFields
<1>2. u = Forest(u.parent, u.rank, u.node, u.cursor)
  <2>1. u = Forest(p, k, n, c)
    OBVIOUS
  <2> HIDE DEF u
  <2> QED
    BY ONLY <1>1, <2>1
<1> HIDE DEF u
<1>3. Uniting(sc, u)
  BY <1>1, <1>2 DEF Uniting
<1> QED
  BY <1>3 DEF u

LEMMA UnitingBegins ==
  ASSUME NEW sc, Graph(sc)
  PROVE  Uniting(sc, Forest([b \in DOMAIN sc |-> b], [b \in DOMAIN sc |-> 0], 1, 0))
<1> DEFINE p == [b \in DOMAIN sc |-> b]
           k == [b \in DOMAIN sc |-> 0]
<1>1. Rooted(DOMAIN sc, p, k, p)
  BY DEF Rooted
<1>2. Inside(sc, p)
  BY AroundFacts DEF Inside
<1>3. Handled(sc, p, 1, 0)
  <2>1. \A a \in DOMAIN sc : ~(a < 1)
    BY DEF Graph
  <2>2. ASSUME NEW a \in DOMAIN sc, NEW j \in 1..Len(sc[a]) PROVE ~(j <= 0)
    BY SuccessorMember
  <2> QED
    BY <2>1, <2>2 DEF Handled
<1>4. 1 \in DOMAIN sc => 0 <= Len(sc[1])
  BY SuccessorMember
<1> HIDE DEF p, k
<1>5. Uniting(sc, Forest(p, k, 1, 0))
  BY <1>1, <1>2, <1>3, <1>4, UnitingForest
<1> QED
  BY <1>5 DEF p, k

\* The next block.
LEMMA NextNodeKeeps ==
  ASSUME Graph(succ), Uniting(succ, uf), uf.node \in DOMAIN succ, uf.cursor = Len(succ[uf.node]),
         uf' = [uf EXCEPT !.node = @ + 1, !.cursor = 0]
  PROVE  Uniting(succ, uf')
<1>1. uf = Forest(uf.parent, uf.rank, uf.node, uf.cursor) /\ uf.node \in Nat /\ uf.node # 0
  BY DEF Uniting
<1>2. PICK r : Rooted(DOMAIN succ, uf.parent, uf.rank, r) /\ Inside(succ, r) /\ Handled(succ, r, uf.node, uf.cursor)
  BY DEF Uniting
<1>3. uf' = Forest(uf.parent, uf.rank, uf.node + 1, 0)
  <2>1. uf = [parent |-> uf.parent, rank |-> uf.rank, node |-> uf.node, cursor |-> uf.cursor]
    BY <1>1 DEF Forest
  <2>2. uf' = [uf EXCEPT !.node = uf.node + 1, !.cursor = 0]
    OBVIOUS
  <2>3. uf' = [parent |-> uf.parent, rank |-> uf.rank, node |-> uf.node + 1, cursor |-> 0]
    BY ONLY <2>1, <2>2
  <2> QED
    BY ONLY <2>3 DEF Forest
<1>4. Handled(succ, r, uf.node + 1, 0)
  <2>1. ASSUME NEW a \in DOMAIN succ, NEW k \in 1..Len(succ[a]), a < uf.node + 1 \/ (a = uf.node + 1 /\ k <= 0)
        PROVE  r[a] = r[succ[a][k]]
    <3>1. a \in Nat /\ k \in Nat /\ Len(succ[a]) \in Nat /\ 1 <= k /\ k <= Len(succ[a])
      BY SuccessorMember DEF Graph
    <3>2. a < uf.node \/ (a = uf.node /\ k <= uf.cursor)
      BY <1>1, <2>1, <3>1
    <3> QED
      BY <1>2, <3>2 DEF Handled
  <2> QED
    BY <2>1 DEF Handled
<1>5. uf.node + 1 \in Nat \ {0} /\ 0 \in Nat
  BY <1>1
<1>6. uf.node + 1 \in DOMAIN succ => 0 <= Len(succ[uf.node + 1])
  BY SuccessorMember
<1> QED
  BY <1>2, <1>3, <1>4, <1>5, <1>6, UnitingForest

\* One edge is joined.
LEMMA UnionKeeps ==
  ASSUME NEW sc, Graph(sc), NEW r \in [DOMAIN sc -> DOMAIN sc], Inside(sc, r), NEW n \in DOMAIN sc, NEW c \in Nat, Handled(sc, r, n, c),
         c < Len(sc[n]), NEW r2, Unites(DOMAIN sc, r, r2, r[n], r[sc[n][c + 1]]),
         r[r[n]] = r[n], r[r[sc[n][c + 1]]] = r[sc[n][c + 1]]
  PROVE  Inside(sc, r2) /\ Handled(sc, r2, n, c + 1)
<1> DEFINE w == sc[n][c + 1]
<1>1. c + 1 \in 1..Len(sc[n]) /\ w \in DOMAIN sc /\ w \in SetOfSuccessors(sc, n)
  <2>1. c + 1 \in 1..Len(sc[n])
    BY SuccessorMember
  <2> QED
    BY <2>1, SuccessorMember
<1>2. w \in Around(sc, n)
  <2>1. w \in NextTo(sc)[n]
    BY <1>1 DEF NextTo
  <2> QED
    BY <2>1, AroundFacts
<1>3. w = sc[n][c + 1]
  OBVIOUS
<1> HIDE DEF w
<1>4. Around(sc, w) = Around(sc, n)
  BY <1>2, AroundSymmetric
<1>5. r[n] \in Around(sc, n) /\ r[w] \in Around(sc, n)
  BY <1>1, <1>4 DEF Inside
<1>6. ASSUME NEW x \in DOMAIN sc PROVE r2[x] \in Around(sc, x)
  <2>1. CASE r2[x] = r[x]
    BY <2>1 DEF Inside
  <2>2. CASE r2[x] # r[x]
    <3>1. r[x] \in {r[n], r[w]} /\ r2[x] \in {r[n], r[w]}
      BY <1>3, <2>2 DEF Unites
    <3>2. r[x] \in Around(sc, x) /\ r[x] \in Around(sc, n)
      BY <1>5, <3>1 DEF Inside
    <3>3. Around(sc, r[x]) = Around(sc, x) /\ Around(sc, r[x]) = Around(sc, n)
      BY <3>2, AroundSymmetric
    <3> QED
      BY <1>5, <3>1, <3>3
  <2> QED
    BY <2>1, <2>2
<1>7. r2[n] = r2[w]
  <2>1. r[n] \in DOMAIN sc /\ r[w] \in DOMAIN sc
    BY <1>1
  <2>2. r2[r[n]] = r2[r[w]]
    BY <1>3 DEF Unites
  <2>3. r2[n] = r2[r[n]] /\ r2[w] = r2[r[w]]
    BY <1>1, <1>3, <2>1 DEF Unites
  <2> QED
    BY <2>2, <2>3
<1>8. ASSUME NEW a \in DOMAIN sc, NEW k \in 1..Len(sc[a]), a < n \/ (a = n /\ k <= c + 1)
      PROVE  r2[a] = r2[sc[a][k]]
  <2>1. sc[a][k] \in DOMAIN sc /\ k \in Nat
    BY SuccessorMember
  <2>2. CASE a = n /\ k = c + 1
    BY <1>3, <1>7, <2>2
  <2>3. CASE ~(a = n /\ k = c + 1)
    <3>1. a < n \/ (a = n /\ k <= c)
      BY <1>8, <2>1, <2>3
    <3>2. r[a] = r[sc[a][k]]
      BY <3>1 DEF Handled
    <3> QED
      BY <2>1, <3>2 DEF Unites
  <2> QED
    BY <2>2, <2>3
<1> QED
  BY <1>6, <1>8 DEF Inside, Handled

Rejoined(u, p, k, c) == [u EXCEPT !.parent = p, !.rank = k, !.cursor = c]

LEMMA ForestJoined ==
  ASSUME NEW p, NEW k, NEW n, NEW c, NEW p2, NEW k2, NEW c2
  PROVE  Rejoined(Forest(p, k, n, c), p2, k2, c2) = Forest(p2, k2, n, c2)
<1> DEFINE u == Forest(p, k, n, c)
           v == Rejoined(u, p2, k2, c2)
<1>1. u = [parent |-> p, rank |-> k, node |-> n, cursor |-> c]
  BY DEF Forest
<1> HIDE DEF u
<1>2. v = [u EXCEPT !.parent = p2, !.rank = k2, !.cursor = c2]
  BY DEF Rejoined
<1> HIDE DEF v
<1>3. v = [parent |-> p2, rank |-> k2, node |-> n, cursor |-> c2]
  BY ONLY <1>1, <1>2
<1> QED
  BY <1>3 DEF Forest, u, v

LEMMA NextEdgeKeeps ==
  ASSUME Graph(succ), Len(blocks) = Len(succ), Nodes = DOMAIN succ, Uniting(succ, uf),
         uf.node \in DOMAIN succ, uf.cursor # Len(succ[uf.node]), UniteEdge
  PROVE  Uniting(succ, uf')
<1> DEFINE n == uf.node
           c == uf.cursor
           w == succ[n][c + 1]
           left == FindRoot(uf.parent, n)
           right == FindRoot(left.parent, w)
           joined == CfgUnion(right.parent, uf.rank, left.root, right.root)
<1>1. uf = Forest(uf.parent, uf.rank, n, c) /\ n \in Nat \ {0} /\ c \in Nat /\ c <= Len(succ[n])
  BY DEF Uniting
<1>2. PICK r : Rooted(DOMAIN succ, uf.parent, uf.rank, r) /\ Inside(succ, r) /\ Handled(succ, r, n, c)
  BY DEF Uniting
<1>3. c < Len(succ[n]) /\ w \in DOMAIN succ
  <2>1. Len(succ[n]) \in Nat
    BY SuccessorMember
  <2>2. c < Len(succ[n]) /\ c + 1 \in 1..Len(succ[n])
    BY <1>1, <2>1
  <2> QED
    BY <2>2, SuccessorMember
<1>4. Len(blocks) \in Nat /\ Nodes = 1..Len(blocks)
  BY DEF Graph
<1>5. left.root = r[n] /\ Rooted(DOMAIN succ, left.parent, uf.rank, r)
  BY <1>2, <1>4, FindRootFacts
<1>6. right.root = r[w] /\ Rooted(DOMAIN succ, right.parent, uf.rank, r)
  <2> HIDE DEF left, w
  <2> QED
    BY ONLY <1>3, <1>4, <1>5, Nodes = DOMAIN succ, FindRootFacts
<1>7. uf' = [uf EXCEPT !.parent = joined.parent, !.rank = joined.rank, !.cursor = @ + 1]
  BY DEF UniteEdge
<1> HIDE DEF left, right, w
<1>8. /\ r \in [DOMAIN succ -> DOMAIN succ] /\ r[n] \in DOMAIN succ /\ r[w] \in DOMAIN succ
      /\ right.parent[r[n]] = r[n] /\ right.parent[r[w]] = r[w] /\ r[r[n]] = r[n] /\ r[r[w]] = r[w]
  BY <1>3, <1>6 DEF Rooted
<1>9. PICK r2 : Rooted(DOMAIN succ, joined.parent, joined.rank, r2) /\ Unites(DOMAIN succ, r, r2, r[n], r[w])
  BY <1>5, <1>6, <1>8, UnionFacts
<1>10. Inside(succ, r2) /\ Handled(succ, r2, n, c + 1)
  BY <1>1, <1>2, <1>3, <1>8, <1>9, UnionKeeps DEF w
<1> HIDE DEF joined
<1>11. uf' = Forest(joined.parent, joined.rank, n, c + 1)
  <2>2. uf' = Rejoined(uf, joined.parent, joined.rank, c + 1)
    BY <1>7 DEF Rejoined
  <2> HIDE DEF n, c
  <2> QED
    BY ONLY <1>1, <2>2, ForestJoined
<1>12. c + 1 \in Nat /\ c + 1 <= Len(succ[n])
  <2>1. Len(succ[n]) \in Nat
    BY SuccessorMember
  <2> QED
    BY <1>1, <1>3, <2>1
<1> HIDE DEF n, c
<1> QED
  BY <1>1, <1>9, <1>10, <1>11, <1>12, UnitingForest

\* When every edge is joined, the roots are as many as the classes of connected blocks.
LEMMA ClassesCounted ==
  ASSUME NEW sc, Graph(sc), NEW u, Uniting(sc, u), u.node > Len(sc)
  PROVE  Cardinality({b \in DOMAIN sc : u.parent[b] = b}) = Cardinality({Around(sc, b) : b \in DOMAIN sc})
<1> DEFINE R == {b \in DOMAIN sc : u.parent[b] = b}
           C == {Around(sc, b) : b \in DOMAIN sc}
<1>1. PICK r : Rooted(DOMAIN sc, u.parent, u.rank, r) /\ Inside(sc, r) /\ Handled(sc, r, u.node, u.cursor)
  BY DEF Uniting
<1>2. /\ r \in [DOMAIN sc -> DOMAIN sc]
      /\ \A x \in DOMAIN sc : u.parent[r[x]] = r[x] /\ (u.parent[x] = x => r[x] = x)
  BY <1>1 DEF Rooted
<1>3. \A a \in DOMAIN sc : \A k \in 1..Len(sc[a]) : r[a] = r[sc[a][k]]
  <2>1. u.node \in Nat /\ Len(sc) \in Nat /\ DOMAIN sc = 1..Len(sc)
    BY DEF Uniting, Graph
  <2>2. \A a \in DOMAIN sc : a < u.node
    BY <2>1
  <2> QED
    BY <1>1, <2>2 DEF Handled
<1>4. ASSUME NEW x \in DOMAIN sc, NEW y \in Around(sc, x) PROVE r[y] = r[x]
  <2> DEFINE Z == {z \in DOMAIN sc : r[z] = r[x]}
  <2>1. ASSUME NEW z \in Z, NEW v \in NextTo(sc)[z] PROVE v \in Z
    <3>1. z \in DOMAIN sc /\ v \in DOMAIN sc
      BY SuccessorMember DEF NextTo
    <3>2. v \in SetOfSuccessors(sc, z) \/ z \in SetOfSuccessors(sc, v)
      BY <3>1 DEF NextTo
    <3>3. ASSUME NEW a \in DOMAIN sc, NEW b \in SetOfSuccessors(sc, a) PROVE r[a] = r[b]
      <4>1. PICK k \in 1..Len(sc[a]) : b = sc[a][k]
        BY SuccessorMember
      <4> QED
        BY ONLY <1>3, <4>1, a \in DOMAIN sc
    <3>4. r[v] = r[z]
      BY ONLY <3>1, <3>2, <3>3
    <3> QED
      BY <3>1, <3>4
  <2>2. x \in Z
    OBVIOUS
  <2> HIDE DEF Z
  <2>3. \A z \in Z : NextTo(sc)[z] \subseteq Z
    BY <2>1
  <2>4. y \in Z
    BY <2>2, <2>3, AroundStays
  <2> QED
    BY <2>4 DEF Z
<1> DEFINE f == [b \in R |-> Around(sc, b)]
<1>5. f \in [R -> C]
  OBVIOUS
<1>6. ASSUME NEW a \in R, NEW b \in R, f[a] = f[b] PROVE a = b
  <2>1. a \in DOMAIN sc /\ b \in DOMAIN sc /\ r[a] = a /\ r[b] = b
    BY <1>2
  <2>2. Around(sc, a) = Around(sc, b)
    BY <1>6
  <2>3. b \in Around(sc, a)
    BY <2>1, <2>2, AroundFacts
  <2> QED
    BY <1>4, <2>1, <2>3
<1>7. ASSUME NEW t \in C PROVE \E b \in R : f[b] = t
  <2>1. PICK x \in DOMAIN sc : t = Around(sc, x)
    OBVIOUS
  <2>2. r[x] \in R /\ r[x] \in Around(sc, x)
    BY <1>1, <1>2 DEF Inside
  <2>3. Around(sc, r[x]) = t
    BY <2>1, <2>2, AroundSymmetric
  <2>4. f[r[x]] = t
    BY <2>2, <2>3
  <2> QED
    BY <2>2, <2>4
<1>8. IsFiniteSet(R)
  BY NodesFinite, FS_Subset
<1> HIDE DEF f, R, C
<1>9. f \in Bijection(R, C)
  BY <1>5, <1>6, <1>7 DEF Bijection, Injection, Surjection, IsInjective
<1>10. Cardinality(C) = Cardinality(R)
  BY <1>8, <1>9, FS_Bijection DEF ExistsBijection
<1> QED
  BY <1>10 DEF R, C

-----------------------------------------------------------------------------
(* BuildSuccessors and BuildPredecessors. *)

\* What the recursive function of Selected computes, step by step.
Keeping(g, s, S, n) ==
    g = [k \in 0..n |-> IF k = 0 THEN <<>> ELSE IF s[k] \in S THEN Append(g[k - 1], s[k]) ELSE g[k - 1]]

LEMMA KeepingExists == ASSUME NEW s, NEW S, NEW n \in Nat PROVE \E g : Keeping(g, s, S, n)
<1> DEFINE N == {k \in Nat : \E g : Keeping(g, s, S, k)}
           Step(t, k) == IF s[k] \in S THEN Append(t, s[k]) ELSE t
<1>1. 0 \in N
  <2> DEFINE g == [k \in 0..0 |-> <<>>]
  <2>1. g[0] = <<>> /\ g = [k \in 0..0 |-> IF k = 0 THEN <<>> ELSE Step(g[k - 1], k)]
    <3> HIDE DEF Step
    <3> QED
      OBVIOUS
  <2>2. Keeping(g, s, S, 0)
    BY <2>1 DEF Keeping
  <2> QED
    BY <2>2
<1>2. ASSUME NEW m \in N PROVE m + 1 \in N
  <2>1. PICK g : Keeping(g, s, S, m)
    OBVIOUS
  <2> DEFINE h == [k \in 0..(m + 1) |-> IF k <= m THEN g[k] ELSE Step(g[m], k)]
  <2>2. m \in Nat /\ m + 1 \in Nat
    OBVIOUS
  <2>0. g = [k \in 0..m |-> IF k = 0 THEN <<>> ELSE Step(g[k - 1], k)]
    BY <2>1 DEF Keeping
  <2> HIDE DEF N, Step
  <2>3. \A k \in 0..m : h[k] = g[k]
    BY <2>2
  <2>4. ASSUME NEW k \in 0..(m + 1) PROVE h[k] = IF k = 0 THEN <<>> ELSE Step(h[k - 1], k)
    <3>1. CASE k \in 0..m
      <4>1. g[k] = IF k = 0 THEN <<>> ELSE Step(g[k - 1], k)
        BY <2>0, <3>1
      <4>2. k # 0 => k - 1 \in 0..m
        BY <2>2, <3>1
      <4> HIDE DEF h
      <4>3. k # 0 => h[k - 1] = g[k - 1]
        BY <2>3, <4>2
      <4> QED
        BY <2>3, <3>1, <4>1, <4>3
    <3>2. CASE k = m + 1
      <4>1. k # 0 /\ k - 1 = m /\ m \in 0..m /\ ~(k <= m)
        BY <2>2, <3>2
      <4>2. h[k] = Step(g[m], k)
        BY <4>1
      <4>3. h[k - 1] = g[m]
        BY <2>3, <4>1
      <4> HIDE DEF h
      <4> QED
        BY <3>2, <4>1, <4>2, <4>3
    <3> QED
      BY <2>2, <3>1, <3>2
  <2>5. h = [k \in 0..(m + 1) |-> h[k]]
    OBVIOUS
  <2> HIDE DEF h
  <2>6. h = [k \in 0..(m + 1) |-> IF k = 0 THEN <<>> ELSE Step(h[k - 1], k)]
    BY <2>4, <2>5
  <2>7. Keeping(h, s, S, m + 1)
    BY <2>6 DEF Keeping, Step
  <2> QED
    BY <2>2, <2>7 DEF N
<1>3. N \in SUBSET Nat
  OBVIOUS
<1> HIDE DEF N
<1>4. n \in N
  BY <1>1, <1>2, <1>3, SetInduction
<1> QED
  BY <1>4 DEF N

\* The members of a list.
Members(s) == {s[i] : i \in DOMAIN s}

LEMMA AppendMembers ==
  ASSUME NEW T, NEW t \in Seq(T), NEW x \in T
  PROVE  Append(t, x) \in Seq(T) /\ Members(Append(t, x)) = Members(t) \cup {x}
<1>1. /\ Append(t, x) \in Seq(T) /\ Len(t) \in Nat /\ Len(Append(t, x)) = Len(t) + 1
      /\ DOMAIN t = 1..Len(t) /\ DOMAIN Append(t, x) = 1..(Len(t) + 1)
      /\ Append(t, x)[Len(t) + 1] = x /\ \A i \in 1..Len(t) : Append(t, x)[i] = t[i]
  OBVIOUS
<1> DEFINE a == Append(t, x)
           n == Len(t)
<1> HIDE DEF a, n
<1>2. n \in Nat /\ DOMAIN t = 1..n /\ DOMAIN a = 1..(n + 1) /\ a[n + 1] = x /\ \A i \in 1..n : a[i] = t[i]
  BY <1>1 DEF a, n
<1>3. ASSUME NEW y \in Members(a) PROVE y \in Members(t) \cup {x}
  <2>1. PICK i \in 1..(n + 1) : y = a[i]
    BY <1>2 DEF Members
  <2>2. i \in 1..n \/ i = n + 1
    BY <1>2, <2>1
  <2> QED
    BY <1>2, <2>1, <2>2 DEF Members
<1>4. ASSUME NEW y \in Members(t) \cup {x} PROVE y \in Members(a)
  <2>1. CASE y = x
    <3>1. n + 1 \in 1..(n + 1)
      BY <1>2
    <3> QED
      BY <1>2, <2>1, <3>1 DEF Members
  <2>2. CASE y \in Members(t)
    <3>1. PICK i \in 1..n : y = t[i]
      BY <1>2, <2>2 DEF Members
    <3>2. i \in 1..(n + 1) /\ y = a[i]
      BY <1>2, <3>1
    <3> QED
      BY <1>2, <3>2 DEF Members
  <2> QED
    BY <2>1, <2>2
<1> QED
  BY <1>1, <1>3, <1>4 DEF a

LEMMA SelectedFacts ==
  ASSUME NEW s, NEW S, Len(s) \in Nat, DOMAIN s = 1..Len(s)
  PROVE  Selected(s, S) \in Seq(S) /\ Members(Selected(s, S)) = Members(s) \cap S
<1> DEFINE n == Len(s)
           g == CHOOSE g : Keeping(g, s, S, n)
<1>1. Keeping(g, s, S, n)
  BY KeepingExists
<1>2. Selected(s, S) = g[n]
  BY DEF Selected, Keeping
<1> HIDE DEF g
<1>3. n \in Nat /\ DOMAIN s = 1..n
  OBVIOUS
<1> HIDE DEF n
<1>4. g[0] = <<>> /\ \A k \in 0..n : k # 0 => g[k] = IF s[k] \in S THEN Append(g[k - 1], s[k]) ELSE g[k - 1]
  <2> DEFINE Step(a, k) == IF s[k] \in S THEN Append(a, s[k]) ELSE a
  <2>1. g = [k \in 0..n |-> IF k = 0 THEN <<>> ELSE Step(g[k - 1], k)]
    BY <1>1 DEF Keeping
  <2>2. 0 \in 0..n
    BY <1>3
  <2>3. \A k \in 0..n : k # 0 => g[k] = Step(g[k - 1], k)
    <3> HIDE DEF Step
    <3> QED
      BY <2>1
  <2>4. g[0] = <<>>
    <3> HIDE DEF Step
    <3> QED
      BY <2>1, <2>2
  <2> QED
    BY <2>3, <2>4
<1> DEFINE First(k) == {s[i] : i \in 1..k}
           N == {k \in Nat : k <= n => g[k] \in Seq(S) /\ Members(g[k]) = First(k) \cap S}
<1>5. 0 \in N
  <2>1. <<>> \in Seq(S) /\ Members(<<>>) = {} /\ First(0) = {}
    BY DEF Members
  <2> QED
    BY <1>4, <2>1
<1>6. ASSUME NEW k \in N PROVE k + 1 \in N
  <2>1. k \in Nat /\ k + 1 \in Nat
    OBVIOUS
  <2>2. SUFFICES ASSUME k + 1 <= n PROVE g[k + 1] \in Seq(S) /\ Members(g[k + 1]) = First(k + 1) \cap S
    OBVIOUS
  <2>3. k <= n /\ k + 1 \in 0..n /\ k + 1 # 0 /\ k + 1 - 1 = k
    BY <1>3, <2>1, <2>2
  <2>4. g[k] \in Seq(S) /\ Members(g[k]) = First(k) \cap S
    BY <2>3
  <2>5. First(k + 1) = First(k) \cup {s[k + 1]}
    <3>1. \A i \in 1..(k + 1) : i \in 1..k \/ i = k + 1
      BY <2>1
    <3>2. \A i \in 1..k : i \in 1..(k + 1)
      BY <2>1
    <3>3. k + 1 \in 1..(k + 1)
      BY <2>1
    <3> QED
      BY <3>1, <3>2, <3>3
  <2>6. g[k + 1] = IF s[k + 1] \in S THEN Append(g[k], s[k + 1]) ELSE g[k]
    BY <1>4, <2>3
  <2> HIDE DEF N, First
  <2>7. CASE s[k + 1] \in S
    <3>1. g[k + 1] \in Seq(S) /\ Members(g[k + 1]) = Members(g[k]) \cup {s[k + 1]}
      BY <2>4, <2>6, <2>7, AppendMembers
    <3> QED
      BY <2>4, <2>5, <2>7, <3>1
  <2>8. CASE s[k + 1] \notin S
    BY <2>4, <2>5, <2>6, <2>8
  <2> QED
    BY <2>7, <2>8
<1>7. N \in SUBSET Nat
  OBVIOUS
<1>8. n \in N
  <2> HIDE DEF N
  <2> QED
    BY <1>3, <1>5, <1>6, <1>7, SetInduction
<1>9. g[n] \in Seq(S) /\ Members(g[n]) = First(n) \cap S
  BY <1>3, <1>8
<1> QED
  BY <1>2, <1>3, <1>9 DEF Members

-----------------------------------------------------------------------------
(* BuildSuccessors and BuildPredecessors. *)

LEMMA ListOf == ASSUME NEW X, NEW n \in Nat, NEW f \in [1..n -> X] PROVE f \in Seq(X) /\ Len(f) = n
OBVIOUS

\* The offsets a block continues at are a list.
LEMMA OffsetList ==
  ASSUME NEW b
  PROVE  Len(SuccessorOffsets(b)) \in Nat /\ DOMAIN SuccessorOffsets(b) = 1..Len(SuccessorOffsets(b))
<1> DEFINE t == blocks[b].target
           o == blocks[b].offset + blocks[b].size
           X == {t, o}
<1>1. <<>> \in Seq(X) /\ <<t>> \in Seq(X) /\ <<o>> \in Seq(X) /\ <<>> \o <<o>> \in Seq(X) /\ <<t>> \o <<o>> \in Seq(X)
  OBVIOUS
<1>2. SuccessorOffsets(b) \in {<<>>, <<t>>, <<o>>, <<>> \o <<o>>, <<t>> \o <<o>>}
  BY DEF SuccessorOffsets
<1> HIDE DEF X
<1>3. SuccessorOffsets(b) \in Seq(X)
  BY <1>1, <1>2
<1> QED
  BY <1>3

Resolved(b) == {ResolveSuccessor(SuccessorOffsets(b)[i]) : i \in DOMAIN SuccessorOffsets(b)}

\* The successors of a block are the blocks its offsets resolve to.
LEMMA SuccessorList ==
  ASSUME NEW b
  PROVE  SuccessorsOf(b) \in Seq(Nodes) /\ Members(SuccessorsOf(b)) = Resolved(b) \cap Nodes
<1> DEFINE off == SuccessorOffsets(b)
           n == Len(off)
           resolved == [i \in DOMAIN off |-> ResolveSuccessor(off[i])]
           kept == Selected(resolved, Nodes)
<1>1. n \in Nat /\ DOMAIN off = 1..n
  BY OffsetList
<1>2. resolved \in [1..n -> Resolved(b)]
  BY <1>1 DEF Resolved
<1>3. resolved \in Seq(Resolved(b)) /\ Len(resolved) = n /\ DOMAIN resolved = 1..n
  <2> HIDE DEF n, resolved
  <2> QED
    BY <1>1, <1>2, ListOf
<1>4. Members(resolved) = Resolved(b)
  BY DEF Members, Resolved
<1>5. kept \in Seq(Nodes) /\ Members(kept) = Resolved(b) \cap Nodes
  <2> HIDE DEF n, resolved
  <2> QED
    BY <1>1, <1>3, <1>4, SelectedFacts
<1>6. SuccessorsOf(b) = IF Len(kept) = 2 /\ kept[1] = kept[2] THEN <<kept[1]>> ELSE kept
  BY DEF SuccessorsOf
<1> HIDE DEF kept, resolved, off
<1>7. CASE Len(kept) = 2 /\ kept[1] = kept[2]
  <2>1. DOMAIN kept = {1, 2} /\ kept[1] \in Nodes
    BY <1>5, <1>7
  <2>2. <<kept[1]>> \in Seq(Nodes) /\ DOMAIN <<kept[1]>> = {1} /\ <<kept[1]>>[1] = kept[1]
    BY <2>1
  <2>3. Members(<<kept[1]>>) = {kept[1]} /\ Members(kept) = {kept[1]}
    BY <1>7, <2>1, <2>2 DEF Members
  <2> QED
    BY <1>5, <1>6, <1>7, <2>2, <2>3
<1> QED
  BY <1>5, <1>6, <1>7

\* What BuildEdges leaves: a graph over the blocks, with the edges the blocks
\* name, and the same edges turned round.
LEMMA EdgesMakeGraph ==
  ASSUME NEW n \in Nat, Len(blocks) = n, DOMAIN blocks = 1..n, BuildEdges
  PROVE  /\ Graph(succ') /\ Len(succ') = n /\ DOMAIN succ' = Nodes /\ blocks' = blocks
         /\ \A b \in Nodes : SetOfSuccessors(succ', b) = Resolved(b) \cap Nodes
         /\ \A b \in Nodes : Members(pred'[b]) = {a \in Nodes : b \in SetOfSuccessors(succ', a)}
<1>1. Nodes = 1..n /\ succ' = [b \in Nodes |-> SuccessorsOf(b)] /\ blocks' = blocks
      /\ pred' = [b \in Nodes |-> PredecessorsOf(b, succ')]
  BY DEF BuildEdges, Nodes
<1>2. succ' \in [1..n -> Seq(1..n)]
  BY <1>1, SuccessorList
<1>3. succ' \in Seq(Seq(1..n)) /\ Len(succ') = n /\ DOMAIN succ' = 1..n
  BY <1>2, ListOf
<1>4. Graph(succ')
  BY <1>2, <1>3 DEF Graph
<1>5. ASSUME NEW b \in Nodes PROVE SetOfSuccessors(succ', b) = Resolved(b) \cap Nodes
  <2>1. succ'[b] = SuccessorsOf(b)
    BY <1>1
  <2> QED
    BY <2>1, SuccessorList DEF SetOfSuccessors, Members
<1>6. ASSUME NEW b \in Nodes PROVE Members(pred'[b]) = {a \in Nodes : b \in SetOfSuccessors(succ', a)}
  <2> DEFINE id == [i \in Nodes |-> i]
             S == {a \in Nodes : \E k \in DOMAIN succ'[a] : succ'[a][k] = b}
  <2>1. pred'[b] = Selected(id, S)
    BY <1>1 DEF PredecessorsOf
  <2>2. id \in [1..n -> 1..n]
    BY <1>1
  <2>3. DOMAIN id = 1..n /\ Len(id) = n
    BY <2>2, ListOf
  <2>4. Members(id) = Nodes
    BY DEF Members
  <2>5. S = {a \in Nodes : b \in SetOfSuccessors(succ', a)}
    BY DEF SetOfSuccessors
  <2> HIDE DEF id, S
  <2>6. Members(Selected(id, S)) = Members(id) \cap S
    BY <2>3, SelectedFacts
  <2> QED
    BY <2>1, <2>4, <2>5, <2>6
<1> QED
  BY <1>1, <1>3, <1>4, <1>5, <1>6

\* The search begins with no block visited.
LEMMA SearchingBegins ==
  ASSUME NEW sc, Graph(sc), NEW z, z = [b \in DOMAIN sc |-> 0]
  PROVE  Searching(sc, State(z, z, 1, <<>>, <<>>, z, <<>>, <<>>))
<1>1. z \in [DOMAIN sc -> Nat] /\ \A x \in DOMAIN sc : z[x] = 0
  OBVIOUS
<1> HIDE DEF State
<1>2. /\ <<>> \in Seq(DOMAIN sc) /\ <<>> \in Seq(Frames(sc)) /\ <<>> \in Seq(Nat) /\ <<>> \in Seq(BOOLEAN)
      /\ Len(<<>>) = 0 /\ 1..0 = {} /\ DOMAIN <<>> = {}
  OBVIOUS
<1>3. SearchTyped(sc, z, z, 1, <<>>, <<>>, z)
  BY <1>1, <1>2 DEF SearchTyped
<1>4. Numbered(sc, z, 1, z)
  BY <1>1 DEF Numbered, Open
<1>5. Stacked(sc, z, <<>>, z)
  BY <1>1, <1>2 DEF Stacked, Open
<1>6. Framed(sc, z, <<>>, z)
  BY <1>1, <1>2 DEF Framed, Open
<1>7. Downward(sc, z, <<>>, z) /\ Upward(sc, z, <<>>, z)
  BY <1>1, <1>2 DEF Downward, Upward, Open
<1>8. LinkReached(sc, z, z, <<>>, z)
  BY <1>1, <1>2 DEF LinkReached, Open
<1>9. LinkBounds(sc, z, z, <<>>, z)
  BY <1>1, <1>2 DEF LinkBounds, Open
<1>10. Finished(sc, z)
  BY <1>1 DEF Finished
<1>11. Search(sc, z, z, 1, <<>>, <<>>, z)
  BY <1>3, <1>4, <1>5, <1>6, <1>7, <1>8, <1>9, <1>10 DEF Search
<1>12. Counted(sc, z, <<>>) /\ Looped(<<>>, <<>>)
  BY <1>1, <1>2 DEF Counted, Looped
<1> QED
  BY <1>2, <1>11, <1>12, SearchingState

-----------------------------------------------------------------------------
(* ComponentsAreExact. *)

\* The phases before the graph of the blocks is there.
Early == {"start", "discover", "blocks", "successors"}

\* The successor lists are a graph over the blocks.
Made == Graph(succ) /\ Len(blocks) = Len(succ) /\ Nodes = DOMAIN succ

CountNames == {"overlapping", "calls", "errors", "indirect", "outside",
               "dropped", "exits", "edges", "components", "complexity"}

ComponentInv ==
    /\ \E X : blocks \in Seq(X)
    /\ DOMAIN count = CountNames
    /\ phase \in Early \cup {"strong", "connected", "done"}
    /\ phase \in Early => dfs = <<>> /\ uf = <<>>
    /\ phase = "strong" => Made /\ Searching(succ, dfs) /\ uf = <<>>
    /\ phase = "connected" => Made /\ StrongResult(succ, dfs) /\ Uniting(succ, uf)
    /\ phase = "done" /\ (status = "Ok" \/ dfs # <<>> \/ uf # <<>>) =>
          /\ Made /\ StrongResult(succ, dfs)
          /\ count.components = Cardinality({Around(succ, b) : b \in DOMAIN succ})

\* A step of the scan or of BuildBlocks leaves the graph of the blocks alone.
LEMMA EarlyKeeps ==
  ASSUME ComponentInv, phase \in Early, phase' \in Early, UNCHANGED <<dfs, uf>>,
         DOMAIN count' = CountNames, \E X : blocks' \in Seq(X)
  PROVE  ComponentInv'
<1>1. phase' \notin {"strong", "connected", "done"}
  BY DEF Early
<1> QED
  BY <1>1 DEF ComponentInv

LEMMA LonerGrows == ASSUME NEW s, NEW e, \E X : s \in Seq(X) PROVE \E X : Append(s, e) \in Seq(X)
<1>1. PICK X : s \in Seq(X)
  OBVIOUS
<1>2. s \in Seq(X \cup {e})
  BY <1>1
<1>3. Append(s, e) \in Seq(X \cup {e})
  BY <1>2
<1> QED
  BY <1>3

LEMMA CloseLists == ASSUME NEW end, NEW n, NEW kind, NEW target, Close(end, n, kind, target), \E X : blocks \in Seq(X)
                    PROVE  \E X : blocks' \in Seq(X)
<1> DEFINE e == [offset |-> start, size |-> end - start, instructions |-> n, end |-> kind, target |-> target]
<1>1. blocks' = blocks \/ blocks' = Append(blocks, e)
  BY DEF Close
<1> QED
  BY <1>1, LonerGrows

LEMMA ScanKeepsComponents ==
  ASSUME ComponentInv,
         \/ Begin \/ NextLeader \/ LeadersFound \/ DecodeForScan \/ ScanInstruction \/ ScanStops
         \/ NextBlock \/ DecodeForBlock \/ ExtendBlock \/ FallThrough
  PROVE  ComponentInv'
<1>0. (\E X : blocks \in Seq(X)) /\ DOMAIN count = CountNames
  BY DEF ComponentInv
<1>1. CASE Begin
  BY <1>0, <1>1, EarlyKeeps DEF Begin, Early
<1>2. CASE NextLeader
  BY <1>0, <1>2, EarlyKeeps DEF NextLeader, Early
<1>3. CASE LeadersFound
  BY <1>0, <1>3, EarlyKeeps DEF LeadersFound, Early
<1>4. CASE DecodeForScan
  BY <1>0, <1>4, EarlyKeeps DEF DecodeForScan, Early
<1>5. CASE ScanInstruction
  BY <1>0, <1>5, EarlyKeeps DEF ScanInstruction, Early
<1>6. CASE ScanStops
  BY <1>0, <1>6, EarlyKeeps DEF ScanStops, Early
<1>7. CASE NextBlock
  <2>1. DOMAIN count' = CountNames
    BY <1>0, <1>7 DEF NextBlock
  <2> QED
    BY <1>0, <1>7, <2>1, EarlyKeeps DEF NextBlock, Early
<1>8. CASE DecodeForBlock
  <2>1. \E X : blocks' \in Seq(X)
    BY <1>0, <1>8, CloseLists DEF DecodeForBlock
  <2> QED
    BY <1>0, <1>8, <2>1, EarlyKeeps DEF DecodeForBlock, Early
<1>9. CASE ExtendBlock
  <2>1. \E X : blocks' \in Seq(X)
    BY <1>0, <1>9, CloseLists DEF ExtendBlock
  <2>2. DOMAIN count' = CountNames
    BY <1>0, <1>9 DEF ExtendBlock, CountOf
  <2> QED
    BY <1>0, <1>9, <2>1, <2>2, EarlyKeeps DEF ExtendBlock, Early
<1>10. CASE FallThrough
  <2>1. \E X : blocks' \in Seq(X)
    BY <1>0, <1>10, CloseLists DEF FallThrough
  <2> QED
    BY <1>0, <1>10, <2>1, EarlyKeeps DEF FallThrough, Early
<1> QED
  BY <1>1, <1>2, <1>3, <1>4, <1>5, <1>6, <1>7, <1>8, <1>9, <1>10

LEMMA ComponentStep == ASSUME ComponentInv, [Next]_vars PROVE ComponentInv'
<1>0. (\E X : blocks \in Seq(X)) /\ DOMAIN count = CountNames
  BY DEF ComponentInv
<1>1. CASE UNCHANGED vars
  BY <1>1 DEF ComponentInv, vars, Made, Nodes
<1>2. CASE Refuse
  <2>1. phase = "start" /\ phase' = "done" /\ status' # "Ok" /\ UNCHANGED <<blocks, count, dfs, uf>>
    BY <1>2 DEF Refuse
  <2> QED
    BY <2>1 DEF ComponentInv, Early
<1>3. CASE \/ Begin \/ NextLeader \/ LeadersFound \/ DecodeForScan \/ ScanInstruction \/ ScanStops
           \/ NextBlock \/ DecodeForBlock \/ ExtendBlock \/ FallThrough
  BY <1>3, ScanKeepsComponents
<1>4. CASE BlocksBuilt
  <2>1. phase = "blocks" /\ phase' \in {"done", "successors"} /\ UNCHANGED <<succ, dfs, uf>>
        /\ (phase' = "done" => status' # "Ok")
    BY <1>4 DEF BlocksBuilt
  <2>2. dfs = <<>> /\ uf = <<>>
    BY <2>1 DEF ComponentInv, Early
  <2>3. DOMAIN count' = CountNames
    BY <1>0, <1>4 DEF BlocksBuilt
  <2>4. \E X : blocks' \in Seq(X)
    <3>1. <<>> \in Seq({})
      OBVIOUS
    <3> QED
      BY <1>0, <1>4, <3>1 DEF BlocksBuilt
  <2> QED
    BY <2>1, <2>2, <2>3, <2>4 DEF ComponentInv, Early
<1>5. CASE BuildEdges
  <2>1. phase = "successors" /\ phase' = "strong" /\ blocks' = blocks /\ uf' = uf
    BY <1>5 DEF BuildEdges
  <2>2. uf = <<>>
    BY <2>1 DEF ComponentInv, Early
  <2>3. Len(blocks) \in Nat /\ DOMAIN blocks = 1..Len(blocks)
    <3>1. PICK X : blocks \in Seq(X)
      BY ONLY <1>0, Zenon
    <3> QED
      BY ONLY <3>1
  <2>4. Graph(succ') /\ Len(succ') = Len(blocks) /\ DOMAIN succ' = Nodes
    BY <1>5, <2>3, EdgesMakeGraph
  <2>5. Made'
    BY <2>1, <2>4 DEF Made, Nodes
  <2>6. DOMAIN count' = CountNames
    BY <1>0, <1>5 DEF BuildEdges
  <2> DEFINE z == [b \in DOMAIN succ' |-> 0]
  <2>7. dfs' = State(z, z, 1, <<>>, <<>>, z, <<>>, <<>>)
    BY <1>5, <2>4 DEF BuildEdges, State
  <2> HIDE DEF z
  <2>8. Searching(succ', State(z, z, 1, <<>>, <<>>, z, <<>>, <<>>))
    <3>1. z = [b \in DOMAIN succ' |-> 0]
      BY DEF z
    <3> QED
      BY <2>4, <3>1, SearchingBegins
  <2>9. Searching(succ', dfs')
    BY <2>7, <2>8
  <2> QED
    BY <1>0, <2>1, <2>2, <2>5, <2>6, <2>9 DEF ComponentInv, Early
<1>6. CASE VisitRoot \/ VisitChild \/ LeaveNode
  <2>1. phase = "strong" /\ UNCHANGED <<phase, blocks, succ, uf, count>>
    BY <1>6 DEF VisitRoot, VisitChild, LeaveNode
  <2>2. Graph(succ) /\ Nodes = DOMAIN succ /\ Searching(succ, dfs) /\ uf = <<>> /\ Made
    BY <2>1 DEF ComponentInv, Made
  <2>3. Searching(succ, dfs')
    <3>1. CASE VisitRoot
      BY <2>2, <3>1, VisitRootKeeps
    <3>2. CASE VisitChild
      <4> DEFINE child == succ[Top.node][Top.cursor + 1]
      <4>1. child = succ[Top.node][Top.cursor + 1]
        OBVIOUS
      <4>2. CASE dfs.index[child] = 0
        BY <2>2, <3>2, <4>1, <4>2, VisitNewKeeps
      <4>3. CASE dfs.index[child] # 0
        BY <2>2, <3>2, <4>1, <4>3, VisitOldKeeps
      <4> QED
        BY <4>2, <4>3
    <3>3. CASE LeaveNode
      BY <2>2, <3>3, LeaveInnerKeeps, LeaveRootKeeps
    <3> QED
      BY <1>6, <3>1, <3>2, <3>3
  <2>4. Made' /\ Searching(succ', dfs')
    BY <2>1, <2>2, <2>3 DEF Made, Nodes
  <2> QED
    BY ONLY <1>0, <2>1, <2>2, <2>4 DEF ComponentInv, Early
<1>7. CASE StrongDone
  <2>1. phase = "strong" /\ phase' = "connected" /\ UNCHANGED <<blocks, succ, count>>
    BY <1>7 DEF StrongDone
  <2>2. Graph(succ) /\ Nodes = DOMAIN succ /\ Searching(succ, dfs) /\ Made
    BY <2>1 DEF ComponentInv, Made
  <2>3. StrongResult(succ, dfs')
    BY <1>7, <2>2, StrongDoneResult
  <2>4. Uniting(succ, Forest([b \in DOMAIN succ |-> b], [b \in DOMAIN succ |-> 0], 1, 0))
    BY <2>2, UnitingBegins
  <2>5. uf' = Forest([b \in DOMAIN succ |-> b], [b \in DOMAIN succ |-> 0], 1, 0)
    BY <1>7, <2>2 DEF StrongDone, Forest
  <2>6. Uniting(succ, uf')
    BY <2>4, <2>5
  <2>7. Made' /\ StrongResult(succ', dfs') /\ Uniting(succ', uf')
    BY <2>1, <2>2, <2>3, <2>6 DEF Made, Nodes
  <2> QED
    BY <1>0, <2>1, <2>7 DEF ComponentInv, Early
<1>8. CASE UniteEdge
  <2>1. phase = "connected" /\ UNCHANGED <<phase, blocks, succ, dfs, count>> /\ uf.node <= Len(blocks)
    BY <1>8 DEF UniteEdge
  <2>2. Graph(succ) /\ Len(blocks) = Len(succ) /\ Nodes = DOMAIN succ /\ StrongResult(succ, dfs) /\ Uniting(succ, uf) /\ Made
    BY <2>1 DEF ComponentInv, Made
  <2>3. uf.node \in DOMAIN succ
    BY <2>1, <2>2 DEF Uniting, Graph
  <2>4. Uniting(succ, uf')
    <3>1. CASE uf.cursor = Len(succ[uf.node])
      BY <1>8, <2>2, <2>3, <3>1, NextNodeKeeps DEF UniteEdge
    <3>2. CASE uf.cursor # Len(succ[uf.node])
      BY <1>8, <2>2, <2>3, <3>2, NextEdgeKeeps
    <3> QED
      BY <3>1, <3>2
  <2>5. Made' /\ StrongResult(succ', dfs') /\ Uniting(succ', uf')
    BY <2>1, <2>2, <2>4 DEF Made, Nodes
  <2> QED
    BY <1>0, <2>1, <2>5 DEF ComponentInv, Early
<1>9. CASE ComputeStatistics
  <2>1. phase = "connected" /\ phase' = "done" /\ UNCHANGED <<blocks, succ, dfs, uf>> /\ uf.node > Len(blocks)
    BY <1>9 DEF ComputeStatistics
  <2>2. Graph(succ) /\ Len(blocks) = Len(succ) /\ Nodes = DOMAIN succ /\ StrongResult(succ, dfs) /\ Uniting(succ, uf) /\ Made
    BY <2>1 DEF ComponentInv, Made
  <2>3. DOMAIN count' = CountNames /\ count'.components = ConnectedComponentCount
    BY <1>0, <1>9 DEF ComputeStatistics, CountNames
  <2>4. ConnectedComponentCount = Cardinality({Around(succ, b) : b \in DOMAIN succ})
    <3>1. Cardinality({b \in DOMAIN succ : uf.parent[b] = b}) = Cardinality({Around(succ, b) : b \in DOMAIN succ})
      BY <2>1, <2>2, ClassesCounted
    <3> QED
      BY <2>2, <3>1 DEF ConnectedComponentCount
  <2>5. count'.components = Cardinality({Around(succ', b) : b \in DOMAIN succ'})
    BY <2>1, <2>3, <2>4
  <2>6. Made' /\ StrongResult(succ', dfs')
    BY <2>1, <2>2 DEF Made, Nodes
  <2> QED
    BY <1>0, <2>1, <2>3, <2>5, <2>6 DEF ComponentInv, Early
<1> QED
  BY <1>1, <1>2, <1>3, <1>4, <1>5, <1>6, <1>7, <1>8, <1>9 DEF Next

LEMMA MadeReachable ==
  ASSUME Made
  PROVE  /\ \A b \in Nodes : SuccessorSet(b) = SetOfSuccessors(succ, b)
         /\ \A b : ReachableFrom(b) = From(succ, b)
         /\ \A b : Closure({b}, [x \in Nodes |-> Neighbours(x)], Len(blocks)) = Around(succ, b)
<1>1. Nodes = DOMAIN succ /\ Len(blocks) = Len(succ)
  BY DEF Made
<1>2. \A b : SuccessorSet(b) = SetOfSuccessors(succ, b)
  BY DEF SuccessorSet, SetOfSuccessors
<1>3. [x \in Nodes |-> SuccessorSet(x)] = Onto(succ)
  BY <1>1, <1>2 DEF Onto
<1>4. \A x \in Nodes : Neighbours(x) = SetOfSuccessors(succ, x) \cup {a \in DOMAIN succ : x \in SetOfSuccessors(succ, a)}
  BY <1>1, <1>2 DEF Neighbours
<1>5. [x \in Nodes |-> Neighbours(x)] = NextTo(succ)
  BY <1>1, <1>4 DEF NextTo
<1> QED
  BY <1>1, <1>2, <1>3, <1>5 DEF ReachableFrom, From, Around

LEMMA ComponentResult == ASSUME ComponentInv PROVE ComponentsAreExact
<1>1. ASSUME phase = "done", dfs # <<>> \/ uf # <<>>
      PROVE  /\ Made /\ StrongResult(succ, dfs)
             /\ count.components = Cardinality({Around(succ, b) : b \in DOMAIN succ})
  BY <1>1 DEF ComponentInv
<1>2. ASSUME phase = "done", dfs # <<>> PROVE ComponentsAreStrong
  <2>1. /\ Made /\ StrongResult(succ, dfs)
    BY <1>1, <1>2
  <2>2. Nodes = DOMAIN succ
    BY <2>1 DEF Made
  <2>3. \A a, b \in Nodes : (dfs.component[a] = dfs.component[b]) <=> (b \in ReachableFrom(a) /\ a \in ReachableFrom(b))
    BY <2>1, <2>2, MadeReachable DEF StrongResult
  <2>4. ASSUME NEW c \in DOMAIN dfs.members
        PROVE  /\ dfs.members[c] = Cardinality({b \in Nodes : dfs.component[b] = c})
               /\ dfs.loop[c] <=> \E b \in Nodes : dfs.component[b] = c /\ \E s \in SuccessorSet(b) : b \in ReachableFrom(s)
    <3>1. dfs.members[c] = Cardinality({b \in Nodes : dfs.component[b] = c}) /\ (dfs.loop[c] <=> Cyclic(succ, dfs, c))
      BY <2>1, <2>2 DEF StrongResult
    <3>2. Cyclic(succ, dfs, c) <=> \E b \in Nodes : dfs.component[b] = c /\ \E s \in SuccessorSet(b) : b \in ReachableFrom(s)
      BY <2>1, <2>2, MadeReachable DEF Cyclic
    <3> QED
      BY <3>1, <3>2
  <2> QED
    BY <2>3, <2>4 DEF ComponentsAreStrong
<1>3. ASSUME phase = "done", uf # <<>> PROVE ComponentsAreConnected
  <2>1. Made /\ count.components = Cardinality({Around(succ, b) : b \in DOMAIN succ})
    BY <1>1, <1>3
  <2>2. {Closure({b}, [x \in Nodes |-> Neighbours(x)], Len(blocks)) : b \in Nodes} = {Around(succ, b) : b \in DOMAIN succ}
    BY <2>1, MadeReachable DEF Made
  <2> QED
    BY <2>1, <2>2 DEF ComponentsAreConnected
<1> QED
  BY <1>2, <1>3 DEF ComponentsAreExact, ComponentsAreStrong, ComponentsAreConnected

LEMMA ComponentBegins == Init => ComponentInv
<1> SUFFICES ASSUME Init PROVE ComponentInv
  OBVIOUS
<1>1. <<>> \in Seq({})
  OBVIOUS
<1>2. DOMAIN NoCounts = CountNames
  BY DEF NoCounts, CountNames
<1> QED
  BY <1>1, <1>2 DEF Init, ComponentInv, Early

\* Both partitions of the blocks are right in every finished scan, whatever the
\* graph: the component numbers, sizes and loop marks that
\* ComputeStronglyConnected assigns (Tarjan's search over an explicit stack of
\* frames) are those of mutual reachability, and the number of components that
\* the union-find of ComputeConnectedComponents counts is the number of classes
\* of blocks joined by edges in either direction.
THEOREM ComponentsExact == Spec => []ComponentsAreExact
<1>1. Init => ComponentInv
  BY ComponentBegins
<1>2. ComponentInv /\ [Next]_vars => ComponentInv'
  BY ComponentStep
<1>3. ComponentInv => ComponentsAreExact
  BY ComponentResult
<1> QED
  BY <1>1, <1>2, <1>3, PTL DEF Spec

-----------------------------------------------------------------------------
(* The code range c by itself: what decodes at an offset, where it passes  *)
(* control to, and what the entry reaches.                                 *)

Extent(c) == Cardinality(DOMAIN c)
Places(c) == 0 .. Extent(c) - 1

SlotAt(c, o) ==
    [len |-> c[o].len, role |-> Role(c[o].kind, c[o].disp),
     target |-> IF Role(c[o].kind, c[o].disp) \in {"DirectBranch", "ConditionalBranch"}
                THEN RelativeTargetOf(o, c[o].len, c[o].disp) ELSE NoTarget]

Fit(c, o) == c[o].len # 0 /\ o + c[o].len <= Extent(c)

\* A target that lies in the range.
Into(c, t) == IF t \notin {NoTarget, Outside} /\ t >= 0 /\ t < Extent(c) THEN {t} ELSE {}

Goes(c, o) ==
    IF ~Fit(c, o) THEN {}
    ELSE CASE SlotAt(c, o).role \in {"Normal", "Call"} -> {o + c[o].len} \cap Places(c)
           [] SlotAt(c, o).role = "ConditionalBranch" -> ({o + c[o].len} \cap Places(c)) \cup Into(c, SlotAt(c, o).target)
           [] SlotAt(c, o).role = "DirectBranch" -> Into(c, SlotAt(c, o).target)
           [] OTHER -> {}

GoesMap(c) == [o \in Places(c) |-> Goes(c, o)]
Live(c) == Closure({0}, GoesMap(c), Extent(c))

\* An instruction that only passes control on to the next one.
Plain(c, o) == Fit(c, o) /\ SlotAt(c, o).role \in {"Normal", "Call"}

Ranged(c) == /\ c # NullCode /\ Extent(c) \in Nat \ {0} /\ DOMAIN c = Places(c)
             /\ \A o \in Places(c) : /\ c[o].len \in 0 .. CfgDecodeWindowBytes
                                     /\ c[o].disp = NoTarget \/ c[o].disp \in Int

SlotRecords == [len : Nat, role : Roles, target : Int \cup {NoTarget, Outside}]

LEMMA CodeIsRange == ASSUME NEW c \in Codes, c # NullCode, Extent(c) # 0 PROVE Ranged(c)
BY CodesAssumption DEF Ranged, Extent, Places

LEMMA RangeNames ==
  ASSUME Ranged(code)
  PROVE  /\ Length = Extent(code) /\ Offsets = Places(code) /\ \A o : MakeSlot(o) = SlotAt(code, o)
         /\ \A o : Fits(o) <=> Fit(code, o)
         /\ \A t : TargetInsideRange(t) <=> Into(code, t) # {}
         /\ \A t : TargetInsideRange(t) => Into(code, t) = {t}
<1>1. Length = Extent(code)
  BY DEF Ranged, Length, Extent
<1>2. Offsets = Places(code)
  BY <1>1 DEF Offsets, Places
<1>3. \A o : MakeSlot(o) = SlotAt(code, o)
  BY DEF MakeSlot, SlotAt
<1>4. \A o : Fits(o) <=> Fit(code, o)
  BY <1>1 DEF Fits, Fit
<1>5. \A t : (TargetInsideRange(t) <=> Into(code, t) # {}) /\ (TargetInsideRange(t) => Into(code, t) = {t})
  BY <1>1 DEF TargetInsideRange, Into
<1> QED
  BY <1>1, <1>2, <1>3, <1>4, <1>5

LEMMA RoleIsRole == ASSUME NEW k, NEW d PROVE Role(k, d) \in Roles /\ Role(k, d) # "Invalid"
BY DEF Role, Roles

LEMMA RangeSlots ==
  ASSUME NEW c, Ranged(c), NEW o \in Places(c)
  PROVE  /\ o \in Nat /\ o < Extent(c) /\ c[o].len \in Nat /\ SlotAt(c, o) \in SlotRecords /\ SlotAt(c, o) # Unknown
         /\ SlotAt(c, o).len = c[o].len
         /\ SlotAt(c, o).target \notin {NoTarget, Outside} => SlotAt(c, o).target \in Int
                                                              /\ SlotAt(c, o).role \in {"DirectBranch", "ConditionalBranch"}
<1> DEFINE r == Role(c[o].kind, c[o].disp)
           t == IF r \in {"DirectBranch", "ConditionalBranch"} THEN RelativeTargetOf(o, c[o].len, c[o].disp) ELSE NoTarget
<1>1. o \in Nat /\ o < Extent(c) /\ c[o].len \in Nat /\ (c[o].disp = NoTarget \/ c[o].disp \in Int)
  BY DEF Ranged, Places
<1>2. r \in Roles
  BY RoleIsRole
<1>3. r \in {"DirectBranch", "ConditionalBranch"} => c[o].disp \in Int
  BY <1>1 DEF Role
<1>4. ASSUME c[o].disp \in Int PROVE RelativeTargetOf(o, c[o].len, c[o].disp) \in Int \cup {Outside}
  BY <1>1, <1>4, Limits DEF RelativeTargetOf
<1>5. SlotAt(c, o) = [len |-> c[o].len, role |-> r, target |-> t]
  BY DEF SlotAt
<1>6. t \in Int \cup {NoTarget, Outside} /\ (t \notin {NoTarget, Outside} => t \in Int /\ r \in {"DirectBranch", "ConditionalBranch"})
  BY <1>3, <1>4
<1> HIDE DEF r, t
<1>7. SlotAt(c, o) \in SlotRecords
  BY <1>1, <1>2, <1>5, <1>6 DEF SlotRecords
<1>8. SlotAt(c, o).len = c[o].len /\ SlotAt(c, o).role = r /\ SlotAt(c, o).target = t
  BY <1>5
<1> QED
  BY <1>1, <1>6, <1>7, <1>8, NoneAssumption DEF SlotRecords

\* The instruction at o passes control on to places of the range.
LEMMA GoesFacts ==
  ASSUME NEW c, Ranged(c), NEW o \in Places(c)
  PROVE  /\ Goes(c, o) \subseteq Places(c)
         /\ Plain(c, o) => Goes(c, o) = {o + c[o].len} \cap Places(c)
         /\ Fit(c, o) => o + c[o].len \in Nat /\ o < o + c[o].len /\ o + c[o].len <= Extent(c)
<1>1. o \in Nat /\ c[o].len \in Nat /\ Extent(c) \in Nat
  BY RangeSlots DEF Ranged
<1>2. \A t \in Int \cup {NoTarget, Outside} : Into(c, t) \subseteq Places(c)
  BY <1>1 DEF Into, Places
<1>3. SlotAt(c, o).target \in Int \cup {NoTarget, Outside}
  BY RangeSlots DEF SlotRecords
<1>4. Into(c, SlotAt(c, o).target) \subseteq Places(c)
  BY <1>2, <1>3
<1>5. Goes(c, o) \subseteq Places(c)
  BY <1>4 DEF Goes
<1>6. Plain(c, o) => Goes(c, o) = {o + c[o].len} \cap Places(c)
  BY DEF Plain, Goes
<1>7. Fit(c, o) => o + c[o].len \in Nat /\ o < o + c[o].len /\ o + c[o].len <= Extent(c)
  BY <1>1 DEF Fit
<1> QED
  BY <1>5, <1>6, <1>7

LEMMA PlacesFinite == ASSUME NEW c, Ranged(c) PROVE IsFiniteSet(Places(c)) /\ Cardinality(Places(c)) = Extent(c) /\ 0 \in Places(c)
<1>1. Extent(c) \in Nat /\ Extent(c) # 0 /\ 0 \in Int /\ Extent(c) - 1 \in Int
  BY DEF Ranged
<1>2. IsFiniteSet(Places(c)) /\ Cardinality(Places(c)) = IF 0 > Extent(c) - 1 THEN 0 ELSE (Extent(c) - 1) - 0 + 1
  BY <1>1, FS_Interval DEF Places
<1> QED
  BY <1>1, <1>2 DEF Places

LEMMA RangeFlow == ASSUME NEW c, Ranged(c) PROVE Flow(Places(c), GoesMap(c), Extent(c))
<1>1. \A o \in Places(c) : GoesMap(c)[o] \subseteq Places(c)
  BY GoesFacts DEF GoesMap
<1> QED
  BY <1>1, PlacesFinite DEF Flow, Ranged

LEMMA LiveFacts ==
  ASSUME NEW c, Ranged(c)
  PROVE  /\ 0 \in Live(c) /\ Live(c) \subseteq Places(c)
         /\ \A o \in Live(c) : Goes(c, o) \subseteq Live(c)
<1> DEFINE C == Closure({0}, GoesMap(c), Extent(c))
<1>1. 0 \in C /\ C \subseteq Places(c) /\ \A o \in C : GoesMap(c)[o] \subseteq C
  BY PlacesFinite, RangeFlow, FlowFacts
<1>2. \A o \in Places(c) : GoesMap(c)[o] = Goes(c, o)
  BY DEF GoesMap
<1>3. C = Live(c)
  BY DEF Live
<1> HIDE DEF C
<1> QED
  BY <1>1, <1>2, <1>3

LEMMA LiveLeast ==
  ASSUME NEW c, Ranged(c), NEW Z, 0 \in Z, Z \subseteq Places(c), \A o \in Z : Goes(c, o) \subseteq Z
  PROVE  Live(c) \subseteq Z
<1>1. \A o \in Z : GoesMap(c)[o] \subseteq Z
  BY DEF GoesMap
<1>2. {0} \subseteq Z /\ Extent(c) \in Nat
  BY DEF Ranged
<1> QED
  BY <1>1, <1>2, ClosureMinimal DEF Live

LEMMA RangeReach ==
  ASSUME Ranged(code)
  PROVE  Reachable = Live(code) /\ \A o : TransfersTo(o) = Goes(code, o)
<1>1. \A o : TransfersTo(o) = Goes(code, o)
  <2> TAKE o
  <2>1. MakeSlot(o) = SlotAt(code, o) /\ SlotAt(code, o).len = code[o].len
    BY RangeNames DEF SlotAt
  <2>2. (IF TargetInsideRange(SlotAt(code, o).target) THEN {SlotAt(code, o).target} ELSE {}) = Into(code, SlotAt(code, o).target)
    BY RangeNames
  <2>3. Offsets = Places(code) /\ (Fits(o) <=> Fit(code, o))
    BY RangeNames
  <2> QED
    BY <2>1, <2>2, <2>3 DEF TransfersTo, Goes
<1>2. [o \in Offsets |-> TransfersTo(o)] = GoesMap(code)
  BY <1>1, RangeNames DEF GoesMap
<1> QED
  BY <1>1, <1>2, RangeNames DEF Reachable, Live

-----------------------------------------------------------------------------
(* DecodeRange and DecodeWindowAt. *)

\* An instruction at x that is whole in front of hi.
Whole(c, hi, x) == x < hi /\ c[x].len # 0 /\ x + c[x].len <= hi

Streaming(g, c, lo, hi) == g = [x \in lo..hi |-> IF Whole(c, hi, x) THEN {x} \cup g[x + c[x].len] ELSE {}]

LEMMA StreamingExists ==
  ASSUME NEW c, NEW hi \in Nat, NEW lo \in 0..hi, \A x \in lo..hi : x < hi => c[x].len \in Nat
  PROVE  \E g : Streaming(g, c, lo, hi)
<1> DEFINE N == {m \in Nat : m <= hi - lo => \E g : Streaming(g, c, hi - m, hi)}
<1>1. 0 \in N
  <2> DEFINE g == [x \in hi..hi |-> {}]
  <2>1. hi - 0 = hi
    OBVIOUS
  <2>2. \A x \in hi..hi : ~Whole(c, hi, x)
    BY DEF Whole
  <2>3. g = [x \in hi..hi |-> IF Whole(c, hi, x) THEN {x} \cup g[x + c[x].len] ELSE {}]
    BY <2>2
  <2>4. Streaming(g, c, hi - 0, hi)
    BY <2>1, <2>3 DEF Streaming
  <2> QED
    BY <2>4
<1>2. ASSUME NEW m \in N PROVE m + 1 \in N
  <2>1. m \in Nat /\ m + 1 \in Nat
    OBVIOUS
  <2> SUFFICES ASSUME m + 1 <= hi - lo PROVE \E g : Streaming(g, c, hi - (m + 1), hi)
    BY <2>1
  <2>2. m <= hi - lo
    BY <2>1
  <2>3. PICK g : Streaming(g, c, hi - m, hi)
    BY <2>2
  <2> HIDE DEF N
  <2> DEFINE l == hi - (m + 1)
             h == [x \in l..hi |-> IF x = l THEN (IF Whole(c, hi, l) THEN {l} \cup g[l + c[l].len] ELSE {}) ELSE g[x]]
  <2>4. l \in Nat /\ l < hi /\ hi - m = l + 1 /\ l \in lo..hi
    BY <2>1
  <2> HIDE DEF l
  <2>5. \A x \in (l + 1)..hi : g[x] = IF Whole(c, hi, x) THEN {x} \cup g[x + c[x].len] ELSE {}
    BY <2>3, <2>4 DEF Streaming
  <2>6. \A x \in l..hi : Whole(c, hi, x) => x + c[x].len \in (l + 1)..hi
    <3> SUFFICES ASSUME NEW x \in l..hi, Whole(c, hi, x) PROVE x + c[x].len \in (l + 1)..hi
      OBVIOUS
    <3>1. x \in Nat /\ x \in lo..hi /\ x < hi
      BY <2>4 DEF Whole
    <3>2. c[x].len \in Nat /\ c[x].len # 0 /\ x + c[x].len <= hi
      BY <3>1 DEF Whole
    <3> QED
      BY <2>4, <3>1, <3>2
  <2>7. \A x \in (l + 1)..hi : x \in l..hi /\ x # l /\ h[x] = g[x]
    BY <2>4
  <2>8. ASSUME NEW x \in l..hi PROVE h[x] = IF Whole(c, hi, x) THEN {x} \cup h[x + c[x].len] ELSE {}
    <3>1. CASE x = l
      <4>1. h[l] = IF Whole(c, hi, l) THEN {l} \cup g[l + c[l].len] ELSE {}
        BY <2>4
      <4> HIDE DEF h
      <4>2. Whole(c, hi, l) => h[l + c[l].len] = g[l + c[l].len]
        BY <2>6, <2>7, <3>1
      <4> QED
        BY <3>1, <4>1, <4>2
    <3>2. CASE x # l
      <4>1. x \in (l + 1)..hi
        BY <2>4, <3>2
      <4> HIDE DEF h
      <4>2. h[x] = g[x] /\ (Whole(c, hi, x) => h[x + c[x].len] = g[x + c[x].len])
        BY <2>6, <2>7, <4>1
      <4>3. g[x] = IF Whole(c, hi, x) THEN {x} \cup g[x + c[x].len] ELSE {}
        BY <2>5, <4>1
      <4> QED
        BY <4>2, <4>3
    <3> QED
      BY <3>1, <3>2
  <2>9. h = [x \in l..hi |-> h[x]]
    OBVIOUS
  <2> HIDE DEF h
  <2>10. h = [x \in l..hi |-> IF Whole(c, hi, x) THEN {x} \cup h[x + c[x].len] ELSE {}]
    BY <2>8, <2>9
  <2>11. Streaming(h, c, l, hi)
    BY <2>10 DEF Streaming
  <2> QED
    BY <2>11 DEF l
<1>3. N \in SUBSET Nat
  OBVIOUS
<1> HIDE DEF N
<1>4. \A m \in Nat : m \in N
  BY <1>1, <1>2, <1>3, SetInduction
<1>5. hi - lo \in Nat /\ hi - (hi - lo) = lo
  OBVIOUS
<1>6. hi - lo \in N
  BY <1>4, <1>5
<1> QED
  BY <1>5, <1>6 DEF N

LEMMA StreamingFacts ==
  ASSUME NEW c, NEW hi \in Nat, NEW lo \in 0..hi, \A x \in lo..hi : x < hi => c[x].len \in Nat,
         NEW g, Streaming(g, c, lo, hi)
  PROVE  /\ \A y \in g[lo] : y \in lo..hi /\ Whole(c, hi, y)
         /\ Whole(c, hi, lo) => lo \in g[lo]
<1>1. \A x \in lo..hi : g[x] = IF Whole(c, hi, x) THEN {x} \cup g[x + c[x].len] ELSE {}
  BY DEF Streaming
<1> DEFINE N == {k \in Nat : \A x \in lo..hi : hi - x <= k => \A y \in g[x] : y \in lo..hi /\ Whole(c, hi, y)}
<1>2. 0 \in N
  <2> SUFFICES ASSUME NEW x \in lo..hi, hi - x <= 0 PROVE g[x] = {}
    OBVIOUS
  <2>1. ~Whole(c, hi, x)
    BY DEF Whole
  <2> QED
    BY <1>1, <2>1
<1>3. ASSUME NEW k \in N PROVE k + 1 \in N
  <2>1. k \in Nat /\ k + 1 \in Nat
    OBVIOUS
  <2>2. SUFFICES ASSUME NEW x \in lo..hi, hi - x <= k + 1, NEW y \in g[x] PROVE y \in lo..hi /\ Whole(c, hi, y)
    BY <2>1
  <2>3. Whole(c, hi, x) /\ (y = x \/ y \in g[x + c[x].len])
    BY <1>1
  <2>4. c[x].len \in Nat /\ c[x].len # 0 /\ x + c[x].len <= hi /\ x \in Nat
    BY <2>3 DEF Whole
  <2>5. x + c[x].len \in lo..hi /\ hi - (x + c[x].len) <= k
    BY <2>1, <2>2, <2>4
  <2>6. \A z \in g[x + c[x].len] : z \in lo..hi /\ Whole(c, hi, z)
    BY <2>5
  <2> QED
    BY <2>3, <2>6
<1>4. N \in SUBSET Nat
  OBVIOUS
<1>5. hi - lo \in N
  <2>1. hi - lo \in Nat
    OBVIOUS
  <2> HIDE DEF N
  <2> QED
    BY <1>2, <1>3, <1>4, <2>1, SetInduction
<1>6. lo \in lo..hi /\ hi - lo <= hi - lo
  OBVIOUS
<1> QED
  BY <1>1, <1>5, <1>6

\* A window decodes whole instructions only, and the first one if there is one.
LEMMA WindowFacts ==
  ASSUME Ranged(code), NEW o \in Places(code)
  PROVE  /\ DecodeRange(o) \subseteq Places(code)
         /\ \A y \in DecodeRange(o) : Fit(code, y)
         /\ Fit(code, o) => o \in DecodeRange(o)
<1> DEFINE hi == o + Smaller(Length - o, CfgDecodeWindowBytes)
           g == CHOOSE g : Streaming(g, code, o, hi)
<1>1. o \in Nat /\ o < Extent(code) /\ Extent(code) \in Nat /\ Length = Extent(code) /\ CfgDecodeWindowBytes \in Nat \ {0}
  BY RangeSlots, RangeNames, Limits DEF Ranged
<1>2. hi \in Nat /\ o < hi /\ hi <= Extent(code) /\ (hi = Extent(code) \/ hi = o + CfgDecodeWindowBytes)
  BY <1>1 DEF Smaller
<1>3. DecodeRange(o) = g[o]
  BY DEF DecodeRange, Streaming, Whole
<1> HIDE DEF hi
<1>4. \A x \in o..hi : x < hi => x \in Places(code)
  BY <1>1, <1>2 DEF Places
<1>5. \A x \in Places(code) : x \in Nat /\ code[x].len \in Nat /\ code[x].len <= CfgDecodeWindowBytes
  BY <1>1 DEF Ranged, Places
<1>6. o \in 0..hi /\ \A x \in o..hi : x < hi => code[x].len \in Nat
  BY <1>1, <1>2, <1>4, <1>5
<1>7. Streaming(g, code, o, hi)
  BY <1>2, <1>6, StreamingExists
<1> HIDE DEF g
<1>8. /\ \A y \in g[o] : y \in o..hi /\ Whole(code, hi, y)
      /\ Whole(code, hi, o) => o \in g[o]
  BY <1>2, <1>6, <1>7, StreamingFacts
<1>9. ASSUME NEW y \in g[o] PROVE y \in Places(code) /\ Fit(code, y)
  <2>1. y \in o..hi /\ y < hi /\ code[y].len # 0 /\ y + code[y].len <= hi
    BY <1>8 DEF Whole
  <2>2. y \in Places(code)
    BY <1>4, <2>1
  <2>3. y + code[y].len <= Extent(code)
    BY <1>1, <1>2, <1>5, <2>1, <2>2
  <2> QED
    BY <2>1, <2>2, <2>3 DEF Fit
<1>10. ASSUME Fit(code, o) PROVE o \in g[o]
  <2>1. code[o].len # 0 /\ o + code[o].len <= Extent(code)
    BY <1>10 DEF Fit
  <2>2. o + code[o].len <= hi
    BY <1>1, <1>2, <1>5, <2>1
  <2> QED
    BY <1>2, <1>8, <2>1, <2>2 DEF Whole
<1> QED
  BY <1>3, <1>9, <1>10

\* What a slot holds when the offset was decoded.
Right(c, o, s) == IF Fit(c, o) THEN s = SlotAt(c, o) ELSE s = InvalidSlot
SlotsRight(c, sl) == DOMAIN sl = Places(c) /\ \A o \in Places(c) : sl[o] = Unknown \/ Right(c, o, sl[o])

\* A window leaves right slots; what was known stays, and an offset stays
\* unknown only when the scan has failed.
LEMMA DecodeKeeps ==
  ASSUME Ranged(code), SlotsRight(code, slots), NEW o \in Places(code), slots[o] = Unknown, DecodeWindowAt(o)
  PROVE  /\ SlotsRight(code, slots')
         /\ \A x \in Places(code) : slots[x] # Unknown => slots'[x] = slots[x]
         /\ status' = "Ok" => status = "Ok"
<1> DEFINE new == NewInstructions(o)
           kept == Admitted(new)
<1>1. slots' = Filled(o, new, kept) /\ status' = IF LimitReached(o, new, kept) /\ ~Halted THEN "InstructionLimitReached" ELSE status
  BY DEF DecodeWindowAt
<1>2. kept \subseteq new /\ new = DecodeRange(o) \ Known
  BY DEF Admitted, NewInstructions
<1>3. LimitReached(o, new, kept) \/ kept = new
  BY DEF LimitReached
<1>4. status' = "Ok" => status = "Ok"
  BY <1>1 DEF Halted
<1> HIDE DEF new, kept
<1>5. Offsets = Places(code) /\ \A x : MakeSlot(x) = SlotAt(code, x)
  BY RangeNames
<1>6. slots' = [x \in Places(code) |-> IF x \in kept THEN SlotAt(code, x)
                       ELSE IF x = o /\ ~Halted /\ ~LimitReached(o, new, kept) THEN InvalidSlot
                       ELSE slots[x]]
  BY <1>1, <1>5 DEF Filled
<1>7. ASSUME NEW x \in Places(code) PROVE slots'[x] = Unknown \/ Right(code, x, slots'[x])
  <2>1. CASE x \in kept
    <3>1. Fit(code, x)
      BY <1>2, <2>1, WindowFacts
    <3> QED
      BY <1>6, <2>1, <3>1 DEF Right
  <2>2. CASE x \notin kept /\ x = o /\ ~Halted /\ ~LimitReached(o, new, kept)
    <3>1. o \notin new
      BY <1>3, <2>2
    <3>2. o \notin Known
      BY DEF Known
    <3>3. ~Fit(code, o)
      BY <1>2, <3>1, <3>2, WindowFacts
    <3>4. slots'[x] = InvalidSlot
      BY <1>6, <2>2
    <3> QED
      BY <2>2, <3>3, <3>4 DEF Right
  <2>3. CASE x \notin kept /\ ~(x = o /\ ~Halted /\ ~LimitReached(o, new, kept))
    <3>1. slots'[x] = slots[x]
      BY <1>6, <2>3
    <3> QED
      BY <3>1 DEF SlotsRight
  <2> QED
    BY <2>1, <2>2, <2>3
<1>8. ASSUME NEW x \in Places(code), slots[x] # Unknown PROVE slots'[x] = slots[x]
  <2>1. x \in Known
    BY <1>5, <1>8 DEF Known
  <2>2. x \notin kept /\ x # o
    BY <1>2, <1>8, <2>1
  <2> QED
    BY <1>6, <2>2
<1> QED
  BY <1>4, <1>6, <1>7, <1>8 DEF SlotsRight

-----------------------------------------------------------------------------
(* DiscoverLeaders. *)

Pair(l, t) == [leaders |-> l, status |-> t]

\* A list of leaders that was appended to; a failure is not forgotten.
Grown(c, l, t, l2, t2) ==
    /\ l2 \in Seq(Live(c)) /\ Len(l) <= Len(l2) /\ \A i \in 1..Len(l) : l2[i] = l[i]
    /\ Members(l) \subseteq Members(l2)
    /\ t2 = "Ok" => t = "Ok"

LEMMA GrownAgain ==
  ASSUME NEW c, NEW l \in Seq(Live(c)), NEW t, NEW l2, NEW t2, NEW l3, NEW t3, Grown(c, l, t, l2, t2), Grown(c, l2, t2, l3, t3)
  PROVE  Grown(c, l, t, l3, t3)
<1>1. Len(l) \in Nat /\ Len(l2) \in Nat /\ Len(l3) \in Nat
  BY DEF Grown
<1>2. \A i \in 1..Len(l) : i \in 1..Len(l2)
  BY <1>1 DEF Grown
<1> QED
  BY <1>1, <1>2 DEF Grown

LEMMA AddLeaderFacts ==
  ASSUME Ranged(code), NEW l \in Seq(Live(code)), NEW t, NEW o \in Nat, o \in Places(code) => o \in Live(code)
  PROVE  \E l2, t2 : /\ AddLeader(Pair(l, t), o) = Pair(l2, t2) /\ Grown(code, l, t, l2, t2)
                     /\ t2 = "Ok" /\ o \in Places(code) => o \in Members(l2)
<1> DEFINE s == Pair(l, t)
<1>1. s.leaders = l /\ s.status = t /\ s = [leaders |-> l, status |-> t]
  BY DEF Pair
<1>2. Length = Extent(code) /\ Extent(code) \in Nat
  BY RangeNames DEF Ranged
<1>3. o \in Places(code) <=> o < Length
  BY <1>2 DEF Places
<1>4. Grown(code, l, t, l, t)
  BY DEF Grown
<1>5. CASE o >= Length
  <2>1. AddLeader(s, o) = s
    BY <1>5 DEF AddLeader
  <2> QED
    BY <1>2, <1>3, <1>4, <1>5, <2>1
<1>6. CASE o < Length /\ o \in Members(l)
  <2>1. AddLeader(s, o) = s
    BY <1>1, <1>6 DEF AddLeader, Members
  <2> QED
    BY <1>4, <1>6, <2>1
<1>7. CASE o < Length /\ o \notin Members(l) /\ Len(l) >= CfgMaxBlocks
  <2> DEFINE t2 == IF t = "Ok" THEN "BlockLimitReached" ELSE t
  <2>1. AddLeader(s, o) = [s EXCEPT !.status = t2]
    <3>1. ~(o >= Length \/ o \in {s.leaders[i] : i \in DOMAIN s.leaders}) /\ Len(s.leaders) >= CfgMaxBlocks
      BY <1>1, <1>2, <1>7 DEF Members
    <3> QED
      BY <1>1, <3>1 DEF AddLeader
  <2>2. t2 # "Ok"
    OBVIOUS
  <2> HIDE DEF t2
  <2>3. AddLeader(s, o) = Pair(l, t2)
    BY <1>1, <2>1 DEF Pair
  <2>4. Grown(code, l, t, l, t2)
    BY <1>4, <2>2 DEF Grown
  <2> QED
    BY <2>2, <2>3, <2>4
<1>8. CASE o < Length /\ o \notin Members(l) /\ ~(Len(l) >= CfgMaxBlocks)
  <2>1. AddLeader(s, o) = [s EXCEPT !.leaders = Append(l, o)]
    <3>1. ~(o >= Length \/ o \in {s.leaders[i] : i \in DOMAIN s.leaders}) /\ ~(Len(s.leaders) >= CfgMaxBlocks)
      BY <1>1, <1>2, <1>8 DEF Members
    <3> QED
      BY <1>1, <3>1 DEF AddLeader
  <2>2. AddLeader(s, o) = Pair(Append(l, o), t)
    BY <1>1, <2>1 DEF Pair
  <2>3. o \in Live(code)
    BY <1>3, <1>8
  <2>4. Append(l, o) \in Seq(Live(code)) /\ Members(Append(l, o)) = Members(l) \cup {o}
    BY <2>3, AppendMembers
  <2>5. Len(l) <= Len(Append(l, o)) /\ \A i \in 1..Len(l) : Append(l, o)[i] = l[i]
    OBVIOUS
  <2>6. Grown(code, l, t, Append(l, o), t)
    BY <2>4, <2>5 DEF Grown
  <2> QED
    BY <2>2, <2>4, <2>6
<1> QED
  BY <1>2, <1>5, <1>6, <1>7, <1>8

ScanTyped(c, sl, ld, cur) ==
    /\ Ranged(c) /\ SlotsRight(c, sl) /\ ld \in Seq(Live(c)) /\ 0 \in Members(ld) /\ cur \in 0..Len(ld)

Walking(c, st, a) == st # NoBlock => st \in Live(c) /\ a \in Nat /\ (a < Extent(c) => a \in Live(c))

\* What has been walked, W, is decoded, and leads to what has been walked, to
\* leaders, or to where the walk is now; only an instruction in the middle of a
\* block leads elsewhere than to a leader.
Walked(c, sl, ld, cur, st, a, W) ==
    /\ W \subseteq Places(c)
    /\ \A o \in W : /\ sl[o] # Unknown
                    /\ \A u \in Goes(c, o) : \/ u \in Members(ld)
                                             \/ Plain(c, o) /\ (u \in W \/ (st # NoBlock /\ u = a))
    /\ \A i \in 1..cur : ld[i] \in W \/ (st # NoBlock /\ ld[i] = st /\ a = st)

Explored(c, sl, ld, cur, st, a) == \E W : Walked(c, sl, ld, cur, st, a, W)

Discovering ==
    /\ ScanTyped(code, slots, leaders, cursor) /\ Walking(code, start, at)
    /\ status = "Ok" => Explored(code, slots, leaders, cursor, start, at)

LEMMA LeadersAreMembers == Leaders = Members(leaders)
BY DEF Leaders, Members

LEMMA LiveIsPlace ==
  ASSUME NEW c, Ranged(c), NEW o \in Live(c)
  PROVE  o \in Places(c) /\ o \in Nat /\ o < Extent(c) /\ o # NoBlock
<1>1. o \in Places(c) /\ o \in Nat /\ o < Extent(c)
  BY LiveFacts, RangeSlots
<1> QED
  BY <1>1, NoneAssumption

LEMMA NextLeaderKeeps == ASSUME Discovering, NextLeader PROVE Discovering'
<1> DEFINE k == cursor + 1
<1>1. /\ cursor' = k /\ start' = leaders[k] /\ at' = leaders[k] /\ cursor < Len(leaders) /\ start = NoBlock
      /\ UNCHANGED <<code, slots, leaders, status>>
  BY DEF NextLeader
<1>2. Ranged(code) /\ SlotsRight(code, slots) /\ leaders \in Seq(Live(code)) /\ 0 \in Members(leaders) /\ cursor \in 0..Len(leaders)
  BY DEF Discovering, ScanTyped
<1>3. Len(leaders) \in Nat /\ cursor \in Nat /\ k \in 1..Len(leaders) /\ k \in 0..Len(leaders) /\ k \in Nat
  BY <1>1, <1>2
<1>4. leaders[k] \in Live(code)
  BY <1>2, <1>3
<1> DEFINE l == leaders[k]
<1>5. l \in Nat /\ l \in Live(code) /\ l # NoBlock
  BY <1>2, <1>4, LiveIsPlace
<1>6. ScanTyped(code, slots, leaders, k)
  BY <1>2, <1>3 DEF ScanTyped
<1>7. Walking(code, l, l)
  BY <1>5 DEF Walking
<1>8. ASSUME status = "Ok" PROVE Explored(code, slots, leaders, k, l, l)
  <2>1. PICK W : Walked(code, slots, leaders, cursor, NoBlock, at, W)
    BY <1>1, <1>8 DEF Discovering, Explored
  <2>2. \A i \in 1..k : i \in 1..cursor \/ i = k
    BY <1>3
  <2> HIDE DEF k, l
  <2>3. l = leaders[k]
    BY DEF l
  <2>4. \A i \in 1..k : leaders[i] \in W \/ leaders[i] = l
    BY <2>1, <2>2, <2>3 DEF Walked
  <2>5. Walked(code, slots, leaders, k, l, l, W)
    BY <1>5, <2>1, <2>4 DEF Walked
  <2> QED
    BY <2>5 DEF Explored
<1> QED
  BY <1>1, <1>6, <1>7, <1>8 DEF Discovering

LEMMA DecodeForScanKeeps == ASSUME Discovering, DecodeForScan PROVE Discovering'
<1>1. /\ start # NoBlock /\ at < Length /\ slots[at] = Unknown /\ DecodeWindowAt(at)
      /\ start' = (IF status' = "Ok" THEN start ELSE NoBlock) /\ UNCHANGED <<code, leaders, cursor, at>>
  BY DEF DecodeForScan
<1>2. Ranged(code) /\ SlotsRight(code, slots) /\ leaders \in Seq(Live(code)) /\ 0 \in Members(leaders) /\ cursor \in 0..Len(leaders)
  BY DEF Discovering, ScanTyped
<1>3. at \in Live(code) /\ start \in Live(code) /\ Length = Extent(code)
  BY <1>1, <1>2, RangeNames DEF Discovering, Walking
<1>4. at \in Places(code)
  BY <1>2, <1>3, LiveIsPlace
<1>5. /\ SlotsRight(code, slots')
      /\ \A x \in Places(code) : slots[x] # Unknown => slots'[x] = slots[x]
      /\ status' = "Ok" => status = "Ok"
  BY <1>1, <1>2, <1>4, DecodeKeeps
<1>6. ScanTyped(code, slots', leaders, cursor)
  BY <1>2, <1>5 DEF ScanTyped
<1>7. Walking(code, start', at)
  BY <1>1 DEF Discovering, Walking
<1>8. ASSUME status' = "Ok" PROVE Explored(code, slots', leaders, cursor, start, at)
  <2>1. PICK W : Walked(code, slots, leaders, cursor, start, at, W)
    BY <1>5, <1>8 DEF Discovering, Explored
  <2>2. \A o \in W : slots'[o] # Unknown
    BY <1>5, <2>1 DEF Walked
  <2>3. Walked(code, slots', leaders, cursor, start, at, W)
    BY <2>1, <2>2 DEF Walked
  <2> QED
    BY <2>3 DEF Explored
<1> QED
  BY <1>1, <1>6, <1>7, <1>8 DEF Discovering

LEMMA ScanStopsKeeps == ASSUME Discovering, ScanStops PROVE Discovering'
<1>1. /\ start # NoBlock /\ (at >= Length \/ (at # start /\ at \in Leaders)) /\ start' = NoBlock
      /\ UNCHANGED <<code, slots, leaders, cursor, at, status>>
  BY DEF ScanStops
<1>2. ScanTyped(code, slots, leaders, cursor) /\ Ranged(code) /\ Length = Extent(code)
  BY RangeNames DEF Discovering, ScanTyped
<1>3. start \in Live(code) /\ at \in Nat /\ Extent(code) \in Nat
  BY <1>1, <1>2 DEF Discovering, Walking, Ranged
<1>4. start \in Nat /\ start < Extent(code)
  BY <1>2, <1>3, LiveIsPlace
<1>5. at # start
  BY <1>1, <1>2, <1>3, <1>4
<1>6. at \in Places(code) => at \in Members(leaders)
  BY <1>1, <1>2, <1>3, LeadersAreMembers DEF Places
<1>7. ASSUME status = "Ok" PROVE Explored(code, slots, leaders, cursor, NoBlock, at)
  <2>1. PICK W : Walked(code, slots, leaders, cursor, start, at, W)
    BY <1>7 DEF Discovering, Explored
  <2>2. \A o \in W : Goes(code, o) \subseteq Places(code)
    BY <1>2, <2>1, GoesFacts DEF Walked
  <2>3. Walked(code, slots, leaders, cursor, NoBlock, at, W)
    BY <1>5, <1>6, <2>1, <2>2 DEF Walked
  <2> QED
    BY <2>3 DEF Explored
<1> QED
  BY <1>1, <1>2, <1>7 DEF Discovering, Walking

\* When the discovery ends well, everything reachable is decoded, and every
\* branch leads to leaders.
Complete(c, sl, ld) ==
    \A o \in Live(c) : sl[o] # Unknown /\ (~Plain(c, o) => Goes(c, o) \subseteq Members(ld))

LEMMA LeadersFoundCompletes ==
  ASSUME Discovering, LeadersFound, status = "Ok"
  PROVE  Complete(code, slots, leaders)
<1>1. start = NoBlock /\ cursor >= Len(leaders)
  BY DEF LeadersFound, Halted
<1>2. Ranged(code) /\ leaders \in Seq(Live(code)) /\ 0 \in Members(leaders) /\ cursor \in 0..Len(leaders)
  BY DEF Discovering, ScanTyped
<1>3. PICK W : Walked(code, slots, leaders, cursor, NoBlock, at, W)
  BY <1>1 DEF Discovering, Explored
<1>4. \A i \in 1..Len(leaders) : i \in 1..cursor
  BY <1>1, <1>2
<1>5. DOMAIN leaders = 1..Len(leaders)
  BY <1>2
<1>6. Members(leaders) \subseteq W
  BY <1>3, <1>4, <1>5 DEF Walked, Members
<1>7. \A o \in W : Goes(code, o) \subseteq W
  BY <1>3, <1>6 DEF Walked
<1>8. 0 \in W /\ W \subseteq Places(code)
  BY <1>2, <1>3, <1>6 DEF Walked
<1>9. Live(code) \subseteq W
  BY <1>2, <1>7, <1>8, LiveLeast
<1> QED
  BY <1>3, <1>9 DEF Complete, Walked

\* What the scanner reads off a right slot is what the code does.
LEMMA RightSlot ==
  ASSUME NEW c, Ranged(c), NEW o \in Places(c), NEW s, Right(c, o, s)
  PROVE  /\ s \in SlotRecords /\ s # Unknown
         /\ s.role \in {"Normal", "Call"} <=> Plain(c, o)
         /\ Plain(c, o) => Into(c, s.target) = {}
         /\ Fit(c, o) => s.len = c[o].len
         /\ ~Fit(c, o) => s.len = 1 /\ s.role = "Invalid"
         /\ s.role = "ConditionalBranch" => Fit(c, o) /\ Goes(c, o) = ({o + c[o].len} \cap Places(c)) \cup Into(c, s.target)
         /\ s.role = "DirectBranch" => Fit(c, o) /\ Goes(c, o) = Into(c, s.target)
         /\ s.role \notin {"Normal", "Call", "ConditionalBranch", "DirectBranch"} => Goes(c, o) = {} /\ Into(c, s.target) = {}
<1>1. CASE ~Fit(c, o)
  <2>1. s = [len |-> 1, role |-> "Invalid", target |-> NoTarget]
    BY <1>1 DEF Right, InvalidSlot
  <2>2. s.len = 1 /\ s.role = "Invalid" /\ s.target = NoTarget
    BY <2>1
  <2>3. s \in SlotRecords
    BY <2>1 DEF SlotRecords, Roles
  <2>4. s # Unknown
    BY <2>3, NoneAssumption DEF SlotRecords
  <2>5. Goes(c, o) = {} /\ Into(c, s.target) = {} /\ ~Plain(c, o)
    BY <1>1, <2>2 DEF Goes, Into, Plain
  <2> QED
    BY <1>1, <2>2, <2>3, <2>4, <2>5
<1>2. CASE Fit(c, o)
  <2>1. s = SlotAt(c, o)
    BY <1>2 DEF Right
  <2>2. /\ s \in SlotRecords /\ s # Unknown /\ s.len = c[o].len
        /\ s.target \notin {NoTarget, Outside} => s.role \in {"DirectBranch", "ConditionalBranch"}
    BY <2>1, RangeSlots
  <2>3. s.role \notin {"DirectBranch", "ConditionalBranch"} => Into(c, s.target) = {}
    BY <2>2 DEF Into
  <2>4. s.role \in {"Normal", "Call"} <=> Plain(c, o)
    BY <1>2, <2>1 DEF Plain
  <2>5. Plain(c, o) => Into(c, s.target) = {}
    BY <2>3, <2>4
  <2>6. s.role = "ConditionalBranch" => Goes(c, o) = ({o + c[o].len} \cap Places(c)) \cup Into(c, s.target)
    BY <1>2, <2>1 DEF Goes
  <2>7. s.role = "DirectBranch" => Goes(c, o) = Into(c, s.target)
    BY <1>2, <2>1 DEF Goes
  <2>8. s.role \notin {"Normal", "Call", "ConditionalBranch", "DirectBranch"} => Goes(c, o) = {}
    BY <1>2, <2>1 DEF Goes
  <2> QED
    BY <1>2, <2>2, <2>3, <2>4, <2>5, <2>6, <2>7, <2>8
<1> QED
  BY <1>1, <1>2

\* The offset after an instruction.
LEMMA NextOffsetFacts ==
  ASSUME Ranged(code), at \in Places(code), NEW s, Right(code, at, s)
  PROVE  /\ NextOffset(s) \in Nat /\ at < NextOffset(s) /\ NextOffset(s) <= Extent(code)
         /\ Fit(code, at) => NextOffset(s) = at + code[at].len
<1>1. Length = Extent(code) /\ Extent(code) \in Nat /\ at \in Nat /\ at < Extent(code) /\ code[at].len \in Nat
  BY RangeNames, RangeSlots DEF Ranged
<1>2. CASE Fit(code, at)
  <2>1. s.len = code[at].len /\ code[at].len # 0 /\ at + code[at].len <= Extent(code)
    BY <1>2, RightSlot DEF Fit
  <2> QED
    BY <1>1, <1>2, <2>1 DEF NextOffset
<1>3. CASE ~Fit(code, at)
  <2>1. s.len = 1
    BY <1>3, RightSlot
  <2> QED
    BY <1>1, <1>3, <2>1 DEF NextOffset
<1> QED
  BY <1>2, <1>3

LEMMA BranchLeaderFacts ==
  ASSUME Ranged(code), NEW l \in Seq(Live(code)), NEW t, NEW s, Into(code, s.target) \subseteq Live(code)
  PROVE  \E l2, t2 : /\ AddBranchLeader(Pair(l, t), s) = Pair(l2, t2) /\ Grown(code, l, t, l2, t2)
                     /\ t2 = "Ok" => Into(code, s.target) \subseteq Members(l2)
<1>1. CASE TargetInsideRange(s.target)
  <2>1. Into(code, s.target) = {s.target}
    BY <1>1, RangeNames
  <2>2. s.target \in Live(code) /\ s.target \in Nat /\ s.target \in Places(code)
    BY <2>1, LiveIsPlace
  <2>3. AddBranchLeader(Pair(l, t), s) = AddLeader(Pair(l, t), s.target)
    BY <1>1 DEF AddBranchLeader
  <2>4. PICK l2, t2 : /\ AddLeader(Pair(l, t), s.target) = Pair(l2, t2) /\ Grown(code, l, t, l2, t2)
                      /\ t2 = "Ok" /\ s.target \in Places(code) => s.target \in Members(l2)
    BY <2>2, AddLeaderFacts
  <2> QED
    BY <2>1, <2>2, <2>3, <2>4
<1>2. CASE ~TargetInsideRange(s.target)
  <2>1. Into(code, s.target) = {}
    BY <1>2, RangeNames
  <2>2. AddBranchLeader(Pair(l, t), s) = Pair(l, t)
    BY <1>2 DEF AddBranchLeader
  <2>3. Grown(code, l, t, l, t)
    BY DEF Grown
  <2> QED
    BY <2>1, <2>2, <2>3
<1> QED
  BY <1>1, <1>2

\* One instruction adds the leaders it leads to, unless a limit is reached.
LEMMA ScanAdds ==
  ASSUME Discovering, ScanInstruction
  PROVE  /\ at \in Live(code) /\ slots[at] # Unknown /\ Grown(code, leaders, status, leaders', status')
         /\ Plain(code, at) <=> slots[at].role \in {"Normal", "Call"}
         /\ status' = "Ok" /\ ~Plain(code, at) => Goes(code, at) \subseteq Members(leaders')
<1> DEFINE slot == slots[at]
           one == AddBranchLeader([leaders |-> leaders, status |-> status], slot)
           two == IF slot.role = "ConditionalBranch" THEN AddLeader(one, NextOffset(slot)) ELSE one
<1>1. start # NoBlock /\ at < Length /\ slot # Unknown /\ leaders' = two.leaders /\ status' = two.status
  BY DEF ScanInstruction
<1>2. Ranged(code) /\ SlotsRight(code, slots) /\ leaders \in Seq(Live(code)) /\ Length = Extent(code)
  BY RangeNames DEF Discovering, ScanTyped
<1>3. at \in Live(code)
  BY <1>1, <1>2 DEF Discovering, Walking
<1>4. at \in Places(code) /\ Right(code, at, slot)
  BY <1>1, <1>2, <1>3, LiveIsPlace DEF SlotsRight
<1>5. Goes(code, at) \subseteq Live(code)
  BY <1>2, <1>3, LiveFacts
<1>6. /\ slot.role \in {"Normal", "Call"} <=> Plain(code, at)
      /\ slot.role = "ConditionalBranch" => Fit(code, at) /\ Goes(code, at) = ({at + code[at].len} \cap Places(code)) \cup Into(code, slot.target)
      /\ slot.role = "DirectBranch" => Goes(code, at) = Into(code, slot.target)
      /\ slot.role \notin {"Normal", "Call", "ConditionalBranch", "DirectBranch"} => Goes(code, at) = {} /\ Into(code, slot.target) = {}
      /\ Plain(code, at) => Into(code, slot.target) = {}
  BY <1>2, <1>4, RightSlot
<1>7. NextOffset(slot) \in Nat /\ (Fit(code, at) => NextOffset(slot) = at + code[at].len)
  BY <1>2, <1>4, NextOffsetFacts
<1> HIDE DEF slot
<1>8. Into(code, slot.target) \subseteq Live(code)
  BY <1>5, <1>6
<1>9. PICK l2, t2 : /\ AddBranchLeader(Pair(leaders, status), slot) = Pair(l2, t2) /\ Grown(code, leaders, status, l2, t2)
                    /\ t2 = "Ok" => Into(code, slot.target) \subseteq Members(l2)
  BY <1>2, <1>8, BranchLeaderFacts
<1>10. one = Pair(l2, t2)
  BY <1>9 DEF Pair
<1> HIDE DEF one
<1>11. CASE slot.role = "ConditionalBranch"
  <2> DEFINE n == NextOffset(slot)
  <2>1. two = AddLeader(Pair(l2, t2), n)
    BY <1>10, <1>11
  <2>2. Fit(code, at) /\ n = at + code[at].len /\ Goes(code, at) = ({n} \cap Places(code)) \cup Into(code, slot.target) /\ n \in Nat
    BY <1>6, <1>7, <1>11
  <2> HIDE DEF n, two
  <2>3. n \in Places(code) => n \in Live(code)
    BY <1>5, <2>2
  <2>4. l2 \in Seq(Live(code))
    BY <1>9 DEF Grown
  <2>5. PICK l3, t3 : /\ AddLeader(Pair(l2, t2), n) = Pair(l3, t3) /\ Grown(code, l2, t2, l3, t3)
                      /\ t3 = "Ok" /\ n \in Places(code) => n \in Members(l3)
    BY <1>2, <2>2, <2>3, <2>4, AddLeaderFacts
  <2>6. leaders' = l3 /\ status' = t3
    BY <1>1, <2>1, <2>5 DEF Pair
  <2>7. Grown(code, leaders, status, l3, t3)
    BY <1>2, <1>9, <2>5, GrownAgain
  <2>8. t3 = "Ok" => Goes(code, at) \subseteq Members(l3)
    BY <1>9, <2>2, <2>5 DEF Grown
  <2> QED
    BY <1>1, <1>3, <1>6, <2>6, <2>7, <2>8 DEF slot
<1>12. CASE slot.role # "ConditionalBranch"
  <2>1. two = Pair(l2, t2)
    BY <1>10, <1>12
  <2>2. leaders' = l2 /\ status' = t2
    BY <1>1, <2>1 DEF Pair
  <2>3. t2 = "Ok" /\ ~Plain(code, at) => Goes(code, at) \subseteq Members(l2)
    BY <1>6, <1>9, <1>12
  <2> QED
    BY <1>1, <1>3, <1>6, <1>9, <2>2, <2>3 DEF slot
<1> QED
  BY <1>11, <1>12

LEMMA ScanInstructionKeeps == ASSUME Discovering, ScanInstruction PROVE Discovering'
<1>1. /\ start # NoBlock /\ UNCHANGED <<code, slots, cursor>>
      /\ IF slots[at].role \in {"Normal", "Call"} THEN at' = NextOffset(slots[at]) /\ UNCHANGED start
                                                   ELSE start' = NoBlock /\ UNCHANGED at
  BY DEF ScanInstruction
<1>2. Ranged(code) /\ SlotsRight(code, slots) /\ leaders \in Seq(Live(code)) /\ 0 \in Members(leaders) /\ cursor \in 0..Len(leaders)
  BY DEF Discovering, ScanTyped
<1>3. /\ at \in Live(code) /\ slots[at] # Unknown /\ Grown(code, leaders, status, leaders', status')
      /\ Plain(code, at) <=> slots[at].role \in {"Normal", "Call"}
      /\ status' = "Ok" /\ ~Plain(code, at) => Goes(code, at) \subseteq Members(leaders')
  BY ScanAdds
<1>4. at \in Places(code) /\ Right(code, at, slots[at]) /\ start \in Live(code)
  BY <1>1, <1>2, <1>3, LiveIsPlace DEF SlotsRight, Discovering, Walking
<1>5. leaders' \in Seq(Live(code)) /\ Members(leaders) \subseteq Members(leaders') /\ Len(leaders) <= Len(leaders')
      /\ (\A i \in 1..Len(leaders) : leaders'[i] = leaders[i]) /\ (status' = "Ok" => status = "Ok")
  BY <1>3 DEF Grown
<1>6. ScanTyped(code, slots, leaders', cursor)
  <2>1. cursor \in 0..Len(leaders')
    BY <1>2, <1>5
  <2> QED
    BY <1>2, <1>5, <2>1 DEF ScanTyped
<1>7. ASSUME Plain(code, at)
      PROVE  start' = start /\ at' \in Nat /\ Goes(code, at) = {at'} \cap Places(code) /\ (at' < Extent(code) => at' \in Live(code))
  <2>1. at' = NextOffset(slots[at]) /\ start' = start
    BY <1>1, <1>3, <1>7
  <2>2. at' = at + code[at].len /\ at' \in Nat
    BY <1>2, <1>4, <1>7, <2>1, NextOffsetFacts DEF Plain
  <2>3. Goes(code, at) = {at'} \cap Places(code)
    BY <1>2, <1>4, <1>7, <2>2, GoesFacts
  <2>4. Goes(code, at) \subseteq Live(code)
    BY <1>2, <1>3, LiveFacts
  <2>5. at' < Extent(code) => at' \in Places(code)
    BY <1>2, <2>2 DEF Places, Ranged
  <2> QED
    BY <2>1, <2>2, <2>3, <2>4, <2>5
<1>8. ~Plain(code, at) => start' = NoBlock
  BY <1>1, <1>3
<1>9. Walking(code, start', at')
  BY <1>4, <1>7, <1>8 DEF Walking
<1>10. ASSUME status' = "Ok" PROVE Explored(code, slots, leaders', cursor, start', at')
  <2>1. PICK W : Walked(code, slots, leaders, cursor, start, at, W)
    BY <1>5, <1>10 DEF Discovering, Explored
  <2> DEFINE V == W \cup {at}
  <2>2. V \subseteq Places(code)
    BY <1>4, <2>1 DEF Walked
  <2>3. \A i \in 1..cursor : leaders'[i] \in V
    <3>1. \A i \in 1..cursor : i \in 1..Len(leaders)
      BY <1>2
    <3> QED
      BY <1>5, <2>1, <3>1 DEF Walked
  <2>4. ASSUME NEW o \in V, NEW u \in Goes(code, o)
        PROVE  u \in Members(leaders') \/ (Plain(code, o) /\ (u \in V \/ (start' # NoBlock /\ u = at')))
    <3>1. CASE o = at
      <4>1. CASE Plain(code, at)
        BY <1>1, <1>7, <2>4, <3>1, <4>1
      <4>2. CASE ~Plain(code, at)
        BY <1>3, <1>10, <2>4, <3>1, <4>2
      <4> QED
        BY <4>1, <4>2
    <3>2. CASE o \in W
      BY <1>5, <2>1, <2>4, <3>2 DEF Walked
    <3> QED
      BY <3>1, <3>2
  <2>5. \A o \in V : slots[o] # Unknown
    BY <1>3, <2>1 DEF Walked
  <2> HIDE DEF V
  <2>6. Walked(code, slots, leaders', cursor, start', at', V)
    BY <2>2, <2>3, <2>4, <2>5 DEF Walked
  <2> QED
    BY <2>6 DEF Explored
<1> QED
  BY <1>1, <1>6, <1>9, <1>10 DEF Discovering

-----------------------------------------------------------------------------
(* BuildBlocks: the blocks and what is in them. *)

\* C is what is executed from s on up to last, one instruction after another,
\* n of them, all in front of a.
Chain(c, s, a, n, C, last) ==
    /\ s \in C /\ last \in C /\ C \subseteq Live(c) /\ IsFiniteSet(C) /\ Cardinality(C) = n
    /\ \A o \in C : s <= o /\ o < a /\ o <= last
    /\ \A o \in C : o # last => Plain(c, o) /\ o + c[o].len \in C
    /\ Fit(c, last) => last + c[last].len = a
    /\ \A o \in C : o # s => \E p \in C : Plain(c, p) /\ p + c[p].len = o

LEMMA ChainBegins ==
  ASSUME NEW c, Ranged(c), NEW s \in Live(c), NEW e \in Nat, s < e, Fit(c, s) => s + c[s].len = e
  PROVE  Chain(c, s, e, 1, {s}, s)
<1>1. s \in Nat
  BY LiveIsPlace
<1>2. IsFiniteSet({s}) /\ Cardinality({s}) = 1
  BY FS_Singleton
<1> QED
  BY <1>1, <1>2 DEF Chain

LEMMA ChainGrows ==
  ASSUME NEW c, Ranged(c), NEW s, NEW a \in Live(c), NEW n \in Nat, NEW C, NEW last, Chain(c, s, a, n, C, last), Plain(c, last),
         NEW e \in Nat, a < e, Fit(c, a) => a + c[a].len = e
  PROVE  Chain(c, s, e, n + 1, C \cup {a}, a)
<1>1. \A o \in C : o \in Nat
  BY LiveIsPlace DEF Chain
<1>2. a \in Nat /\ a \notin C
  <2>1. a \in Nat
    BY LiveIsPlace
  <2>2. \A o \in C : o < a
    BY DEF Chain
  <2> QED
    BY <2>1, <2>2
<1> DEFINE D == C \cup {a}
<1>3. IsFiniteSet(D) /\ Cardinality(D) = n + 1
  BY <1>2, FS_AddElement DEF Chain
<1>4. last + c[last].len = a
  BY DEF Chain, Plain
<1>5. s \in D /\ a \in D /\ D \subseteq Live(c)
  BY DEF Chain
<1>6. ASSUME NEW o \in D PROVE s <= o /\ o < e /\ o <= a
  <2>1. CASE o \in C
    BY <1>1, <1>2, <2>1 DEF Chain
  <2>2. CASE o = a
    <3>1. s \in Nat /\ s < a
      BY <1>1 DEF Chain
    <3> QED
      BY <1>2, <2>2, <3>1
  <2> QED
    BY <2>1, <2>2
<1>7. ASSUME NEW o \in D, o # a PROVE Plain(c, o) /\ o + c[o].len \in D
  <2>1. CASE o = last
    BY <1>4, <2>1
  <2>2. CASE o # last
    BY <1>7, <2>2 DEF Chain
  <2> QED
    BY <2>1, <2>2
<1>8. ASSUME NEW o \in D, o # s PROVE \E p \in D : Plain(c, p) /\ p + c[p].len = o
  <2>1. CASE o = a
    BY <1>4, <2>1 DEF Chain
  <2>2. CASE o \in C
    BY <1>8, <2>2 DEF Chain
  <2> QED
    BY <2>1, <2>2
<1> HIDE DEF D
<1>9. Chain(c, s, e, n + 1, D, a)
  BY <1>3, <1>5, <1>6, <1>7, <1>8 DEF Chain
<1> QED
  BY <1>9 DEF D

\* The offsets a block continues at.
Conts(r) ==
    CASE r.end = "ConditionalBranch" -> (IF r.target = NoTarget THEN {} ELSE {r.target}) \cup {r.offset + r.size}
      [] r.end = "DirectBranch" -> IF r.target = NoTarget THEN {} ELSE {r.target}
      [] r.end \in {"Fallthrough", "RangeEnd"} -> {r.offset + r.size}
      [] OTHER -> {}

\* A block of c: its instructions are a chain, and it continues where its last instruction does.
BlockOf(c, r) ==
    /\ r.offset \in Nat /\ r.size \in Nat /\ r.offset + r.size <= Extent(c)
    /\ r.target = NoTarget \/ r.target \in Nat
    /\ \E C, last : /\ Chain(c, r.offset, r.offset + r.size, r.instructions, C, last)
                    /\ Goes(c, last) = Conts(r) \cap Places(c)

InOrder(bl) == \A a, b \in 1..Len(bl) : a < b => bl[a].offset + bl[a].size <= bl[b].offset

BlocksFor(c, bl) == (\E X : bl \in Seq(X)) /\ (\A b \in 1..Len(bl) : BlockOf(c, bl[b])) /\ InOrder(bl)

Upto(bl) == IF bl = <<>> THEN 0 ELSE bl[Len(bl)].offset + bl[Len(bl)].size

LEMMA UptoFacts ==
  ASSUME NEW c, NEW bl, BlocksFor(c, bl)
  PROVE  /\ Len(bl) \in Nat /\ DOMAIN bl = 1..Len(bl) /\ Upto(bl) \in Nat
         /\ \A b \in 1..Len(bl) : bl[b].offset \in Nat /\ bl[b].size \in Nat /\ bl[b].offset + bl[b].size <= Upto(bl)
<1>1. PICK X : bl \in Seq(X)
  BY DEF BlocksFor
<1>2. Len(bl) \in Nat /\ DOMAIN bl = 1..Len(bl) /\ (bl # <<>> <=> Len(bl) # 0)
  BY <1>1
<1>3. \A b \in 1..Len(bl) : bl[b].offset \in Nat /\ bl[b].size \in Nat
  BY DEF BlocksFor, BlockOf
<1>4. CASE bl = <<>>
  BY <1>2, <1>4 DEF Upto
<1>5. CASE bl # <<>>
  <2> DEFINE n == Len(bl)
  <2>1. n \in 1..n /\ n \in Nat
    BY <1>2, <1>5
  <2>2. Upto(bl) = bl[n].offset + bl[n].size
    BY <1>5 DEF Upto
  <2> HIDE DEF n
  <2>3. bl[n].offset \in Nat /\ bl[n].size \in Nat
    BY <1>3, <2>1 DEF n
  <2>4. ASSUME NEW b \in 1..n PROVE bl[b].offset + bl[b].size <= Upto(bl)
    <3>1. bl[b].offset \in Nat /\ bl[b].size \in Nat
      BY <1>3 DEF n
    <3>2. b = n \/ b < n
      BY <2>1
    <3>3. b < n => bl[b].offset + bl[b].size <= bl[n].offset
      BY <2>1 DEF BlocksFor, InOrder, n
    <3> QED
      BY <2>2, <2>3, <3>1, <3>2, <3>3
  <2> QED
    BY <1>2, <1>3, <2>2, <2>3, <2>4 DEF n
<1> QED
  BY <1>4, <1>5

LEMMA AppendedList ==
  ASSUME NEW s, NEW e, \E X : s \in Seq(X)
  PROVE  /\ Len(Append(s, e)) = Len(s) + 1 /\ Append(s, e)[Len(s) + 1] = e
         /\ \A i \in 1..Len(s) : Append(s, e)[i] = s[i]
<1>1. PICK X : s \in Seq(X)
  OBVIOUS
<1>2. s \in Seq(X \cup {e})
  BY <1>1
<1> QED
  BY <1>2

LEMMA BlockAppended ==
  ASSUME NEW c, NEW bl, BlocksFor(c, bl), NEW r, BlockOf(c, r), Upto(bl) <= r.offset
  PROVE  BlocksFor(c, Append(bl, r))
<1> DEFINE n == Len(bl)
           B == Append(bl, r)
<1>1. n \in Nat /\ Upto(bl) \in Nat /\ r.offset \in Nat
      /\ \A b \in 1..n : bl[b].offset \in Nat /\ bl[b].size \in Nat /\ bl[b].offset + bl[b].size <= Upto(bl)
  BY UptoFacts DEF BlockOf
<1>2. Len(B) = n + 1 /\ B[n + 1] = r /\ \A i \in 1..n : B[i] = bl[i]
  BY AppendedList DEF BlocksFor
<1>3. \E X : B \in Seq(X)
  BY LonerGrows DEF BlocksFor
<1>4. (\A b \in 1..n : BlockOf(c, bl[b])) /\ \A a, b \in 1..n : a < b => bl[a].offset + bl[a].size <= bl[b].offset
  BY DEF BlocksFor, InOrder
<1> HIDE DEF n, B
<1>5. \A b \in 1..(n + 1) : b \in 1..n \/ b = n + 1
  BY <1>1
<1>6. \A b \in 1..(n + 1) : BlockOf(c, B[b])
  BY <1>2, <1>4, <1>5
<1>7. ASSUME NEW a \in 1..(n + 1), NEW b \in 1..(n + 1), a < b PROVE B[a].offset + B[a].size <= B[b].offset
  <2>1. a \in 1..n
    BY <1>1, <1>7
  <2>2. CASE b \in 1..n
    BY <1>2, <1>4, <1>7, <2>1, <2>2
  <2>3. CASE b = n + 1
    <3>1. bl[a].offset + bl[a].size <= r.offset
      BY <1>1, <2>1
    <3> QED
      BY <1>2, <2>1, <2>3, <3>1
  <2> QED
    BY <1>5, <2>2, <2>3
<1>8. BlocksFor(c, B)
  BY <1>2, <1>3, <1>6, <1>7 DEF BlocksFor, InOrder
<1> QED
  BY <1>8 DEF B

\* The record Close makes.
Rec(s, e, n, k, t) == [offset |-> s, size |-> e - s, instructions |-> n, end |-> k, target |-> t]

LEMMA RecFields ==
  ASSUME NEW s \in Nat, NEW e \in Nat, s <= e, NEW n, NEW k, NEW t
  PROVE  /\ Rec(s, e, n, k, t).offset = s /\ Rec(s, e, n, k, t).size = e - s /\ e - s \in Nat
         /\ Rec(s, e, n, k, t).offset + Rec(s, e, n, k, t).size = e
         /\ Rec(s, e, n, k, t).instructions = n /\ Rec(s, e, n, k, t).end = k /\ Rec(s, e, n, k, t).target = t
BY DEF Rec

LEMMA RecBlock ==
  ASSUME NEW c, Ranged(c), NEW s \in Live(c), NEW e \in Nat, s <= e, e <= Extent(c), NEW n, NEW k, NEW t, NEW C, NEW last,
         t = NoTarget \/ t \in Nat, Chain(c, s, e, n, C, last), Goes(c, last) = Conts(Rec(s, e, n, k, t)) \cap Places(c)
  PROVE  BlockOf(c, Rec(s, e, n, k, t))
<1> DEFINE r == Rec(s, e, n, k, t)
<1>1. s \in Nat
  BY LiveIsPlace
<1>2. r.offset = s /\ r.size = e - s /\ e - s \in Nat /\ r.offset + r.size = e /\ r.instructions = n /\ r.target = t
  BY <1>1, RecFields
<1> HIDE DEF r
<1>3. Goes(c, last) = Conts(r) \cap Places(c)
  BY DEF r
<1>4. Chain(c, r.offset, r.offset + r.size, r.instructions, C, last)
  BY <1>2
<1>5. BlockOf(c, r)
  BY <1>1, <1>2, <1>3, <1>4 DEF BlockOf
<1> QED
  BY <1>5 DEF r

\* Where a block has been followed to.
Running(c, s, a, n) == (n = 0 /\ a = s) \/ (n # 0 /\ \E C, last : Chain(c, s, a, n, C, last) /\ Plain(c, last))

Reached(c, bl, st, a, n) ==
    st # NoBlock => /\ st \in Live(c) /\ a \in Live(c) /\ Upto(bl) <= st /\ st <= a
                    /\ n \in Nat /\ Running(c, st, a, n)

\* Blocks continue at leaders.
Lead(c, ld, bl) == \A b \in 1..Len(bl) : Conts(bl[b]) \cap Places(c) \subseteq Members(ld)

\* Every leader is still to come, is the one in work, or has a block.
NoneLost(ld, pn, st, bl) ==
    \A l \in Members(ld) : l \in pn \/ l = st \/ \E b \in 1..Len(bl) : bl[b].offset = l

Building ==
    /\ ScanTyped(code, slots, leaders, cursor) /\ BlocksFor(code, blocks) /\ pending \subseteq Members(leaders)
    /\ Reached(code, blocks, start, at, size)
    /\ DOMAIN count = CountNames /\ count.overlapping \in Nat
    /\ status = "Ok" => Complete(code, slots, leaders) /\ Lead(code, leaders, blocks)
    /\ status = "Ok" /\ count.overlapping = 0 => NoneLost(leaders, pending, start, blocks)

LEMMA CoveredIsUpto == CoveredUntil = Upto(blocks)
BY DEF CoveredUntil, Upto

LEMMA MembersLive ==
  ASSUME NEW c, NEW l \in Seq(Live(c))
  PROVE  Members(l) \subseteq Live(c)
BY DEF Members

LEMMA NextBlockKeeps == ASSUME Building, NextBlock PROVE Building'
<1> DEFINE s == CHOOSE o \in pending : \A p \in pending : o <= p
<1>1. /\ start = NoBlock /\ pending # {} /\ pending' = pending \ {s}
      /\ IF s < CoveredUntil THEN count' = [count EXCEPT !.overlapping = @ + 1] /\ UNCHANGED <<start, at, size>>
                             ELSE start' = s /\ at' = s /\ size' = 0 /\ UNCHANGED count
      /\ UNCHANGED <<code, status, slots, leaders, cursor, blocks>>
  BY DEF NextBlock
<1>2. ScanTyped(code, slots, leaders, cursor) /\ BlocksFor(code, blocks) /\ pending \subseteq Members(leaders)
  BY DEF Building
<1>3. Ranged(code) /\ leaders \in Seq(Live(code))
  BY <1>2 DEF ScanTyped
<1>4. pending \subseteq Live(code) /\ pending \in SUBSET Nat
  BY <1>2, <1>3, MembersLive, LiveIsPlace
<1>5. s \in pending
  <2>1. \E o \in pending : \A p \in pending : o <= p
    BY <1>1, <1>4, LeastNatural
  <2> QED
    BY <2>1
<1> HIDE DEF s
<1>6. s \in Live(code) /\ s \in Nat /\ s # NoBlock
  BY <1>3, <1>4, <1>5, LiveIsPlace
<1>7. Upto(blocks) \in Nat /\ CoveredUntil = Upto(blocks)
  BY <1>2, UptoFacts, CoveredIsUpto
<1>8. pending' \subseteq Members(leaders)
  BY <1>1, <1>2
<1>9. DOMAIN count = CountNames /\ count.overlapping \in Nat
  BY DEF Building
<1>10. CASE s < CoveredUntil
  <2>1. count' = [count EXCEPT !.overlapping = @ + 1] /\ UNCHANGED <<start, at, size>>
    BY <1>1, <1>10
  <2>2. DOMAIN count' = CountNames /\ count'.overlapping = count.overlapping + 1
    BY <1>9, <2>1 DEF CountNames
  <2>3. count'.overlapping \in Nat /\ count'.overlapping # 0
    BY <1>9, <2>2
  <2> QED
    BY <1>1, <1>2, <1>8, <2>1, <2>2, <2>3 DEF Building
<1>11. CASE ~(s < CoveredUntil)
  <2>1. start' = s /\ at' = s /\ size' = 0 /\ UNCHANGED count
    BY <1>1, <1>11
  <2>2. Reached(code, blocks, s, s, 0)
    BY <1>6, <1>7, <1>11 DEF Reached, Running
  <2>3. NoneLost(leaders, pending, start, blocks) => NoneLost(leaders, pending', s, blocks)
    <3>1. \A l \in Members(leaders) : l # NoBlock
      BY <1>3, MembersLive, LiveIsPlace
    <3> QED
      BY <1>1, <3>1 DEF NoneLost
  <2> QED
    BY <1>1, <1>2, <1>8, <1>9, <2>1, <2>2, <2>3 DEF Building
<1> QED
  BY <1>10, <1>11

\* A block is closed.
LEMMA CloseKeeps ==
  ASSUME Building, start # NoBlock, NEW e \in Nat, NEW n, NEW k, NEW t, Close(e, n, k, t), start <= e,
         UNCHANGED <<code, leaders, cursor, pending>>, SlotsRight(code, slots'),
         DOMAIN count' = CountNames, count'.overlapping = count.overlapping,
         n # 0 => BlockOf(code, Rec(start, e, n, k, t)),
         status' = "Ok" => /\ status = "Ok" /\ n # 0 /\ Complete(code, slots', leaders)
                           /\ Conts(Rec(start, e, n, k, t)) \cap Places(code) \subseteq Members(leaders)
  PROVE  Building'
<1> DEFINE r == Rec(start, e, n, k, t)
           m == Len(blocks)
<1>1. blocks' = (IF n = 0 THEN blocks ELSE Append(blocks, r)) /\ start' = NoBlock /\ size' = 0
  BY DEF Close, Rec
<1>2. ScanTyped(code, slots, leaders, cursor) /\ BlocksFor(code, blocks) /\ pending \subseteq Members(leaders)
  BY DEF Building
<1>3. start \in Live(code) /\ Upto(blocks) <= start /\ Ranged(code) /\ count.overlapping \in Nat
  BY DEF Building, Reached, ScanTyped
<1>4. start \in Nat
  BY <1>3, LiveIsPlace
<1>5. r.offset = start
  BY <1>4, RecFields
<1> HIDE DEF r
<1>6. n # 0 => BlockOf(code, r)
  BY DEF r
<1>7. BlocksFor(code, blocks')
  <2>1. CASE n = 0
    BY <1>1, <1>2, <2>1
  <2>2. CASE n # 0
    BY <1>1, <1>2, <1>3, <1>5, <1>6, <2>2, BlockAppended
  <2> QED
    BY <2>1, <2>2
<1>8. ScanTyped(code, slots', leaders, cursor)
  BY <1>2 DEF ScanTyped
<1>9. Reached(code, blocks', start', at', size')
  BY <1>1 DEF Reached
<1>10. ASSUME status' = "Ok"
       PROVE  /\ Complete(code, slots', leaders) /\ Lead(code, leaders, blocks')
              /\ count.overlapping = 0 => NoneLost(leaders, pending, start', blocks')
  <2>1. status = "Ok" /\ n # 0 /\ Conts(r) \cap Places(code) \subseteq Members(leaders) /\ Complete(code, slots', leaders)
    BY <1>10 DEF r
  <2>2. Lead(code, leaders, blocks) /\ (count.overlapping = 0 => NoneLost(leaders, pending, start, blocks))
    BY <2>1 DEF Building
  <2>3. m \in Nat /\ blocks' = Append(blocks, r)
    BY <1>1, <1>2, <2>1, UptoFacts
  <2>4. Len(blocks') = m + 1 /\ blocks'[m + 1] = r /\ \A i \in 1..m : blocks'[i] = blocks[i]
    BY <1>2, <2>3, AppendedList DEF BlocksFor
  <2> HIDE DEF m
  <2>5. \A b \in 1..(m + 1) : b \in 1..m \/ b = m + 1
    BY <2>3
  <2>6. m + 1 \in 1..(m + 1) /\ \A b \in 1..m : b \in 1..(m + 1)
    BY <2>3
  <2>7. \A b \in 1..m : Conts(blocks[b]) \cap Places(code) \subseteq Members(leaders)
    BY <2>2 DEF Lead, m
  <2>8. Lead(code, leaders, blocks')
    <3> SUFFICES ASSUME NEW b \in 1..(m + 1) PROVE Conts(blocks'[b]) \cap Places(code) \subseteq Members(leaders)
      BY <2>4 DEF Lead
    <3>1. CASE b \in 1..m
      <4>1. blocks'[b] = blocks[b]
        BY <2>4, <3>1
      <4> QED
        BY <2>7, <3>1, <4>1
    <3>2. CASE b = m + 1
      <4>1. blocks'[b] = r
        BY <2>4, <3>2
      <4> QED
        BY <2>1, <4>1
    <3> QED
      BY <2>5, <3>1, <3>2
  <2>9. ASSUME count.overlapping = 0, NEW l \in Members(leaders)
        PROVE  l \in pending \/ \E b \in 1..(m + 1) : blocks'[b].offset = l
    <3>1. l \in pending \/ l = start \/ \E b \in 1..m : blocks[b].offset = l
      BY <2>2, <2>9 DEF NoneLost, m
    <3>2. CASE l = start
      BY <1>5, <2>4, <2>6, <3>2
    <3>3. CASE \E b \in 1..m : blocks[b].offset = l
      BY <2>4, <2>6, <3>3
    <3> QED
      BY <3>1, <3>2, <3>3
  <2>10. count.overlapping = 0 => NoneLost(leaders, pending, start', blocks')
    BY <2>4, <2>9 DEF NoneLost
  <2> QED
    BY <2>1, <2>8, <2>10
<1> QED
  BY <1>2, <1>3, <1>7, <1>8, <1>9, <1>10 DEF Building

\* The last instruction of a block that is being followed.
RunsInto(c, s, a, n, C, last) == Chain(c, s, a, n, C, last) /\ Plain(c, last) /\ Goes(c, last) = {a}

LEMMA RunningLast ==
  ASSUME NEW c, Ranged(c), NEW s, NEW a \in Live(c), NEW n, Running(c, s, a, n), n # 0
  PROVE  \E C, last : RunsInto(c, s, a, n, C, last)
<1>1. PICK C, last : Chain(c, s, a, n, C, last) /\ Plain(c, last)
  BY DEF Running
<1>2. last \in Places(c) /\ last + c[last].len = a /\ a \in Places(c)
  BY <1>1, LiveIsPlace DEF Chain, Plain
<1>3. Goes(c, last) = {a}
  BY <1>1, <1>2, GoesFacts
<1> QED
  BY <1>1, <1>3 DEF RunsInto

\* A block that ends in front of an offset continues there.
LEMMA FrontBlock ==
  ASSUME NEW c, Ranged(c), NEW s \in Live(c), NEW a \in Live(c), NEW n, Running(c, s, a, n), n # 0, s <= a,
         NEW k \in {"Fallthrough", "RangeEnd"}, NEW t, t = NoTarget \/ t \in Nat
  PROVE  BlockOf(c, Rec(s, a, n, k, t)) /\ Conts(Rec(s, a, n, k, t)) = {a}
<1> DEFINE r == Rec(s, a, n, k, t)
<1>1. PICK C, last : Chain(c, s, a, n, C, last) /\ Plain(c, last) /\ Goes(c, last) = {a}
  <2>1. Ranged(c) /\ a \in Live(c) /\ Running(c, s, a, n) /\ n # 0
    OBVIOUS
  <2>2. \E C, last : RunsInto(c, s, a, n, C, last)
    BY ONLY <2>1, RunningLast, Zenon
  <2> QED
    BY ONLY <2>2, Zenon DEF RunsInto
<1>2. s \in Nat /\ a \in Nat /\ a < Extent(c) /\ a \in Places(c) /\ Extent(c) \in Nat
  BY LiveIsPlace DEF Ranged
<1>3. r.end = k /\ r.offset + r.size = a
  BY <1>2, RecFields
<1> HIDE DEF r
<1>4. Conts(r) = {a}
  BY <1>3 DEF Conts
<1>5. Goes(c, last) = Conts(r) \cap Places(c)
  BY <1>1, <1>2, <1>4
<1>6. BlockOf(c, r)
  BY <1>1, <1>2, <1>5, RecBlock DEF r
<1> QED
  BY <1>4, <1>6 DEF r

LEMMA FallThroughKeeps == ASSUME Building, FallThrough PROVE Building'
<1>1. /\ start # NoBlock /\ at # start /\ at \in Leaders /\ Close(at, size, "Fallthrough", NoTarget)
      /\ UNCHANGED <<code, status, slots, leaders, cursor, pending, count>>
  BY DEF FallThrough
<1>2. /\ Ranged(code) /\ SlotsRight(code, slots) /\ start \in Live(code) /\ at \in Live(code) /\ start <= at
      /\ Running(code, start, at, size) /\ size \in Nat /\ DOMAIN count = CountNames
      /\ status = "Ok" => Complete(code, slots, leaders)
  BY <1>1 DEF Building, Reached, ScanTyped
<1>3. size # 0
  BY <1>1, <1>2 DEF Running
<1>4. at \in Nat
  BY <1>2, LiveIsPlace
<1>5. BlockOf(code, Rec(start, at, size, "Fallthrough", NoTarget)) /\ Conts(Rec(start, at, size, "Fallthrough", NoTarget)) = {at}
  BY <1>2, <1>3, FrontBlock
<1>6. at \in Members(leaders)
  BY <1>1, LeadersAreMembers
<1>7. Conts(Rec(start, at, size, "Fallthrough", NoTarget)) \cap Places(code) \subseteq Members(leaders)
  BY <1>5, <1>6
<1>8. SlotsRight(code, slots') /\ DOMAIN count' = CountNames /\ count'.overlapping = count.overlapping
      /\ (status' = "Ok" => status = "Ok" /\ Complete(code, slots', leaders))
  BY <1>1, <1>2
<1> QED
  BY <1>1, <1>2, <1>3, <1>4, <1>5, <1>7, <1>8, CloseKeeps

LEMMA DecodeForBlockKeeps == ASSUME Building, DecodeForBlock PROVE Building'
<1>1. /\ start # NoBlock /\ slots[at] = Unknown
      /\ IF status = "InstructionLimitReached" THEN UNCHANGED <<slots, status>> ELSE DecodeWindowAt(at)
      /\ IF slots'[at] = Unknown THEN Close(at, size, "RangeEnd", NoTarget) ELSE UNCHANGED <<start, size, blocks>>
      /\ UNCHANGED <<code, leaders, cursor, at, pending, count>>
  BY DEF DecodeForBlock
<1>2. /\ Ranged(code) /\ SlotsRight(code, slots) /\ start \in Live(code) /\ at \in Live(code) /\ start <= at
      /\ Running(code, start, at, size) /\ size \in Nat /\ DOMAIN count = CountNames
      /\ status = "Ok" => Complete(code, slots, leaders)
  BY <1>1 DEF Building, Reached, ScanTyped
<1>3. status # "Ok"
  BY <1>1, <1>2 DEF Complete
<1>4. at \in Places(code) /\ at \in Nat
  BY <1>2, LiveIsPlace
<1>5. SlotsRight(code, slots') /\ status' # "Ok"
  <2>1. CASE status = "InstructionLimitReached"
    BY <1>1, <1>2, <1>3, <2>1
  <2>2. CASE status # "InstructionLimitReached"
    BY <1>1, <1>2, <1>3, <1>4, <2>2, DecodeKeeps
  <2> QED
    BY <2>1, <2>2
<1>6. CASE slots'[at] = Unknown
  <2>1. Close(at, size, "RangeEnd", NoTarget)
    BY <1>1, <1>6
  <2>2. size # 0 => BlockOf(code, Rec(start, at, size, "RangeEnd", NoTarget))
    BY <1>2, FrontBlock
  <2> QED
    BY <1>1, <1>2, <1>4, <1>5, <2>1, <2>2, CloseKeeps
<1>7. CASE slots'[at] # Unknown
  <2>1. UNCHANGED <<start, size, blocks>>
    BY <1>1, <1>7
  <2>2. ScanTyped(code, slots', leaders, cursor)
    BY <1>5 DEF Building, ScanTyped
  <2> QED
    BY <1>1, <1>5, <2>1, <2>2 DEF Building
<1> QED
  BY <1>6, <1>7

\* One instruction more of a block, or its last one.
LEMMA ChainTo ==
  ASSUME NEW c, Ranged(c), NEW s \in Live(c), NEW a \in Live(c), NEW n \in Nat, Running(c, s, a, n),
         NEW e \in Nat, a < e, Fit(c, a) => a + c[a].len = e
  PROVE  \E C : Chain(c, s, e, n + 1, C, a)
<1>1. CASE n = 0
  <2>1. a = s /\ n + 1 = 1
    BY <1>1 DEF Running
  <2>2. Chain(c, s, e, 1, {s}, s)
    BY <2>1, ChainBegins
  <2> QED
    BY <2>1, <2>2
<1>2. CASE n # 0
  <2>1. PICK C, last : Chain(c, s, a, n, C, last) /\ Plain(c, last)
    BY <1>2 DEF Running
  <2>2. Chain(c, s, e, n + 1, C \cup {a}, a)
    BY <2>1, ChainGrows
  <2> QED
    BY <2>2
<1> QED
  BY <1>1, <1>2

LEMMA CountOfFacts ==
  ASSUME NEW slot, DOMAIN count = CountNames
  PROVE  DOMAIN CountOf(slot) = CountNames /\ CountOf(slot).overlapping = count.overlapping
BY DEF CountOf, CountNames

\* The instruction that ends a block says where it continues.
Ending(c, a, slot, s, e, t) ==
    /\ Ranged(c) /\ a \in Places(c) /\ Right(c, a, slot) /\ ~Plain(c, a) /\ s \in Nat /\ e \in Nat /\ s <= e
    /\ Fit(c, a) => a + c[a].len = e
    /\ t = IF Into(c, slot.target) # {} THEN slot.target ELSE NoTarget

Continues(c, a, r) == Conts(r) \cap Places(c) = Goes(c, a)

LEMMA EndConts ==
  ASSUME NEW c, NEW a, NEW slot, NEW s, NEW e, NEW n, NEW t, Ending(c, a, slot, s, e, t)
  PROVE  Continues(c, a, Rec(s, e, n, BlockEnd(slot.role), t))
<1> DEFINE r == Rec(s, e, n, BlockEnd(slot.role), t)
<1>0. /\ Ranged(c) /\ a \in Places(c) /\ Right(c, a, slot) /\ ~Plain(c, a) /\ s \in Nat /\ e \in Nat /\ s <= e
      /\ Fit(c, a) => a + c[a].len = e
      /\ t = IF Into(c, slot.target) # {} THEN slot.target ELSE NoTarget
  BY DEF Ending
<1>1. r.end = BlockEnd(slot.role) /\ r.target = t /\ r.offset + r.size = e
  BY <1>0, RecFields
<1>2. /\ slot \in SlotRecords
      /\ slot.role \in {"Normal", "Call"} <=> Plain(c, a)
      /\ ~Fit(c, a) => slot.role = "Invalid"
      /\ slot.role = "ConditionalBranch" => Fit(c, a) /\ Goes(c, a) = ({a + c[a].len} \cap Places(c)) \cup Into(c, slot.target)
      /\ slot.role = "DirectBranch" => Fit(c, a) /\ Goes(c, a) = Into(c, slot.target)
      /\ slot.role \notin {"Normal", "Call", "ConditionalBranch", "DirectBranch"} => Goes(c, a) = {}
  BY <1>0, RightSlot
<1>3. slot.role \in Roles \ {"Normal", "Call"}
  BY <1>0, <1>2 DEF SlotRecords
<1>4. Into(c, slot.target) \in {{}, {slot.target}} /\ (Into(c, slot.target) # {} => slot.target # NoTarget)
  BY DEF Into
<1>5. Into(c, slot.target) \subseteq Places(c)
  <2>1. Extent(c) \in Nat /\ slot.target \in Int \cup {NoTarget, Outside}
    BY <1>0, <1>2 DEF Ranged, SlotRecords
  <2> QED
    BY <2>1 DEF Into, Places
<1>6. (IF t = NoTarget THEN {} ELSE {t}) = Into(c, slot.target)
  BY <1>0, <1>4
<1> HIDE DEF r
<1>7. ASSUME slot.role = "ConditionalBranch" PROVE Conts(r) \cap Places(c) = Goes(c, a)
  <2>1. r.end = "ConditionalBranch"
    BY <1>1, <1>7 DEF BlockEnd
  <2>2. Conts(r) = Into(c, slot.target) \cup {e}
    BY <1>1, <1>6, <2>1 DEF Conts
  <2> QED
    BY <1>0, <1>2, <1>5, <1>7, <2>2
<1>8. ASSUME slot.role = "DirectBranch" PROVE Conts(r) \cap Places(c) = Goes(c, a)
  <2>1. r.end = "DirectBranch"
    BY <1>1, <1>8 DEF BlockEnd
  <2>2. Conts(r) = Into(c, slot.target)
    BY <1>1, <1>6, <2>1 DEF Conts
  <2> QED
    BY <1>0, <1>2, <1>5, <1>8, <2>2
<1>9. ASSUME slot.role \notin {"ConditionalBranch", "DirectBranch"} PROVE Conts(r) \cap Places(c) = Goes(c, a)
  <2>1. r.end \in {"DecodeError", "IndirectBranch", "Return", "NoReturn"}
    BY <1>1, <1>3, <1>9 DEF BlockEnd, Roles
  <2>2. Conts(r) = {}
    BY <2>1 DEF Conts
  <2>3. Goes(c, a) = {}
    BY <1>2, <1>3, <1>9
  <2> QED
    BY <2>2, <2>3
<1> QED
  BY <1>7, <1>8, <1>9 DEF Continues, r

LEMMA ExtendBlockKeeps == ASSUME Building, ExtendBlock PROVE Building'
<1> DEFINE slot == slots[at]
           next == NextOffset(slot)
           t == IF TargetInsideRange(slot.target) THEN slot.target ELSE NoTarget
<1>1. /\ start # NoBlock /\ slot # Unknown /\ count' = CountOf(slot) /\ at' = next
      /\ IF slot.role \notin {"Normal", "Call"} THEN Close(next, size + 1, BlockEnd(slot.role), t)
         ELSE IF next >= Length THEN Close(next, size + 1, "RangeEnd", NoTarget)
         ELSE size' = size + 1 /\ UNCHANGED <<start, blocks>>
      /\ UNCHANGED <<code, status, slots, leaders, cursor, pending>>
  BY DEF ExtendBlock
<1>2. /\ Ranged(code) /\ SlotsRight(code, slots) /\ start \in Live(code) /\ at \in Live(code) /\ start <= at
      /\ Running(code, start, at, size) /\ size \in Nat /\ DOMAIN count = CountNames /\ Upto(blocks) <= start
      /\ status = "Ok" => Complete(code, slots, leaders)
  BY <1>1 DEF Building, Reached, ScanTyped
<1>3. at \in Places(code) /\ at \in Nat /\ start \in Nat /\ Extent(code) \in Nat /\ Length = Extent(code)
  BY <1>2, LiveIsPlace, RangeNames DEF Ranged
<1>4. Right(code, at, slot)
  BY <1>1, <1>2, <1>3 DEF SlotsRight
<1>5. next \in Nat /\ at < next /\ next <= Extent(code) /\ (Fit(code, at) => at + code[at].len = next)
  BY <1>2, <1>3, <1>4, NextOffsetFacts
<1>6. t = IF Into(code, slot.target) # {} THEN slot.target ELSE NoTarget
  BY <1>2, RangeNames
<1>14. t = NoTarget \/ t \in Nat
  <2>1. slot.target \in Int \cup {NoTarget, Outside}
    BY <1>2, <1>3, <1>4, RightSlot DEF SlotRecords
  <2> QED
    BY <2>1 DEF TargetInsideRange
<1>7. slot.role \in {"Normal", "Call"} <=> Plain(code, at)
  BY <1>2, <1>3, <1>4, RightSlot
<1>8. DOMAIN count' = CountNames /\ count'.overlapping = count.overlapping
  BY <1>1, <1>2, CountOfFacts
<1> HIDE DEF slot, next, t
<1>9. PICK C : Chain(code, start, next, size + 1, C, at)
  BY <1>2, <1>5, ChainTo
<1>10. start <= next /\ size + 1 # 0 /\ size + 1 \in Nat
  BY <1>2, <1>3, <1>5
<1>11. CASE ~Plain(code, at)
  <2> DEFINE k == BlockEnd(slot.role)
             r == Rec(start, next, size + 1, k, t)
  <2>1. Close(next, size + 1, k, t)
    BY <1>1, <1>7, <1>11
  <2>2. Conts(r) \cap Places(code) = Goes(code, at)
    <3>1. t = (IF Into(code, slot.target) # {} THEN slot.target ELSE NoTarget)
      BY <1>6
    <3>2. next \in Nat /\ start <= next /\ (Fit(code, at) => at + code[at].len = next)
      BY <1>5, <1>10
    <3>3. /\ Ranged(code) /\ at \in Places(code) /\ Right(code, at, slot) /\ ~Plain(code, at) /\ start \in Nat
      BY <1>2, <1>3, <1>4, <1>11
    <3>4. Ending(code, at, slot, start, next, t)
      BY ONLY <3>1, <3>2, <3>3 DEF Ending
    <3>5. Continues(code, at, r)
      BY ONLY <3>4, EndConts
    <3> QED
      BY ONLY <3>5 DEF Continues
  <2>3. BlockOf(code, r)
    <3>1. Goes(code, at) = Conts(r) \cap Places(code)
      BY <2>2
    <3> QED
      BY <1>2, <1>5, <1>9, <1>10, <1>14, <3>1, RecBlock
  <2>4. status = "Ok" => Goes(code, at) \subseteq Members(leaders)
    BY <1>2, <1>11 DEF Complete
  <2>5. status = "Ok" => Conts(r) \cap Places(code) \subseteq Members(leaders)
    BY <2>2, <2>4
  <2>6. SlotsRight(code, slots') /\ (status' = "Ok" => status = "Ok" /\ Complete(code, slots', leaders))
    BY <1>1, <1>2
  <2> HIDE DEF k
  <2> QED
    BY <1>1, <1>5, <1>8, <1>10, <2>1, <2>3, <2>5, <2>6, CloseKeeps
<1>12. CASE Plain(code, at) /\ next >= Length
  <2> DEFINE r == Rec(start, next, size + 1, "RangeEnd", NoTarget)
  <2>1. Close(next, size + 1, "RangeEnd", NoTarget)
    BY <1>1, <1>7, <1>12
  <2>2. r.end = "RangeEnd" /\ r.offset + r.size = next
    BY <1>3, <1>5, <1>10, RecFields
  <2>3. next \notin Places(code)
    BY <1>3, <1>5, <1>12 DEF Places
  <2>4. Goes(code, at) = {}
    <3>1. Goes(code, at) = {at + code[at].len} \cap Places(code) /\ at + code[at].len = next
      BY <1>2, <1>3, <1>5, <1>12, GoesFacts DEF Plain
    <3> QED
      BY <2>3, <3>1
  <2>5. Conts(r) = {next}
    <3> HIDE DEF r
    <3> QED
      BY <2>2 DEF Conts
  <2>6. Conts(r) \cap Places(code) = {}
    BY <2>3, <2>5
  <2>7. BlockOf(code, r)
    <3>1. Goes(code, at) = Conts(r) \cap Places(code)
      BY <2>4, <2>6
    <3> QED
      BY <1>2, <1>5, <1>9, <1>10, <3>1, RecBlock
  <2>8. SlotsRight(code, slots') /\ (status' = "Ok" => status = "Ok" /\ Complete(code, slots', leaders))
    BY <1>1, <1>2
  <2>9. Conts(r) \cap Places(code) \subseteq Members(leaders)
    BY <2>6
  <2> QED
    BY <1>1, <1>5, <1>8, <1>10, <2>1, <2>7, <2>8, <2>9, CloseKeeps
<1>13. CASE Plain(code, at) /\ ~(next >= Length)
  <2>1. size' = size + 1 /\ UNCHANGED <<start, blocks>> /\ at' = next
    BY <1>1, <1>7, <1>13
  <2>2. Goes(code, at) = {next} /\ Goes(code, at) \subseteq Live(code)
    <3>1. Goes(code, at) = {at + code[at].len} \cap Places(code) /\ at + code[at].len = next
      BY <1>2, <1>3, <1>5, <1>13, GoesFacts DEF Plain
    <3>2. next \in Places(code)
      BY <1>3, <1>5, <1>13 DEF Places
    <3> QED
      BY <1>2, <3>1, <3>2, LiveFacts
  <2>3. Running(code, start, next, size + 1)
    BY <1>9, <1>10, <1>13 DEF Running
  <2>4. Reached(code, blocks, start, next, size + 1)
    BY <1>2, <1>10, <2>2, <2>3 DEF Reached
  <2>5. ScanTyped(code, slots, leaders, cursor) /\ BlocksFor(code, blocks) /\ pending \subseteq Members(leaders) /\ count.overlapping \in Nat
    BY DEF Building
  <2>6. /\ status = "Ok" => Complete(code, slots, leaders) /\ Lead(code, leaders, blocks)
        /\ status = "Ok" /\ count.overlapping = 0 => NoneLost(leaders, pending, start, blocks)
    BY DEF Building
  <2> QED
    BY <1>1, <1>8, <2>1, <2>4, <2>5, <2>6 DEF Building
<1> QED
  BY <1>11, <1>12, <1>13

LEMMA LeadersFoundBuilds ==
  ASSUME Discovering, LeadersFound, blocks = <<>>, DOMAIN count = CountNames, count.overlapping \in Nat
  PROVE  Building'
<1>1. start = NoBlock /\ pending' = Leaders /\ UNCHANGED <<code, status, slots, leaders, cursor, start, at, size, blocks, count>>
  BY DEF LeadersFound
<1>2. ScanTyped(code, slots, leaders, cursor)
  BY DEF Discovering
<1>3. <<>> \in Seq({}) /\ Len(<<>>) = 0 /\ 1..0 = {}
  OBVIOUS
<1>4. BlocksFor(code, <<>>)
  BY <1>3 DEF BlocksFor, InOrder
<1>5. Reached(code, <<>>, NoBlock, at, size)
  BY DEF Reached
<1>6. status = "Ok" => Complete(code, slots, leaders) /\ Lead(code, leaders, <<>>)
  BY <1>3, LeadersFoundCompletes DEF Lead
<1>7. pending' = Members(leaders)
  BY <1>1, LeadersAreMembers
<1>8. NoneLost(leaders, pending', NoBlock, <<>>)
  BY <1>7 DEF NoneLost
<1> QED
  BY <1>1, <1>2, <1>4, <1>5, <1>6, <1>7, <1>8 DEF Building

-----------------------------------------------------------------------------
(* What BuildBlocks leaves. *)

\* A block begins at the entry, and one at every offset a block continues at.
Covers(c, bl) ==
    /\ \E b \in 1..Len(bl) : bl[b].offset = 0
    /\ \A b \in 1..Len(bl) : \A u \in Conts(bl[b]) \cap Places(c) : \E d \in 1..Len(bl) : bl[d].offset = u

Built ==
    /\ Ranged(code) /\ BlocksFor(code, blocks) /\ DOMAIN count = CountNames
    /\ status = "Ok" /\ count.overlapping = 0 => Covers(code, blocks)

LEMMA BlocksBuiltBuilds ==
  ASSUME Building, BlocksBuilt
  PROVE  Built' /\ (OnlyDecodeError => blocks' = <<>> /\ status' # "Ok") /\ (~OnlyDecodeError => status' = status)
<1>1. /\ start = NoBlock /\ pending = {} /\ code' = code
      /\ blocks' = IF OnlyDecodeError THEN <<>> ELSE blocks
      /\ count' = IF OnlyDecodeError THEN [count EXCEPT !.errors = 0] ELSE count
      /\ status' = IF OnlyDecodeError /\ ~Halted THEN "EntryUndecodable" ELSE status
  BY DEF BlocksBuilt
<1>2. /\ Ranged(code) /\ BlocksFor(code, blocks) /\ DOMAIN count = CountNames /\ 0 \in Members(leaders) /\ leaders \in Seq(Live(code))
  BY DEF Building, ScanTyped
<1>3. CASE OnlyDecodeError
  <2>1. status' # "Ok" /\ blocks' = <<>> /\ DOMAIN count' = CountNames
    BY <1>1, <1>2, <1>3 DEF Halted
  <2>2. <<>> \in Seq({}) /\ Len(<<>>) = 0 /\ 1..0 = {}
    OBVIOUS
  <2>3. BlocksFor(code, <<>>)
    BY <2>2 DEF BlocksFor, InOrder
  <2> QED
    BY <1>1, <1>2, <1>3, <2>1, <2>3 DEF Built
<1>4. CASE ~OnlyDecodeError
  <2>1. blocks' = blocks /\ count' = count /\ status' = status
    BY <1>1, <1>4
  <2>2. ASSUME status = "Ok", count.overlapping = 0 PROVE Covers(code, blocks)
    <3>1. \A b \in 1..Len(blocks) : Conts(blocks[b]) \cap Places(code) \subseteq Members(leaders)
      BY <2>2 DEF Building, Lead
    <3>2. \A l \in Members(leaders) : l = NoBlock \/ \E b \in 1..Len(blocks) : blocks[b].offset = l
      BY <1>1, <2>2 DEF Building, NoneLost
    <3>3. \A l \in Members(leaders) : l \in Live(code)
      BY <1>2 DEF Members
    <3>4. \A l \in Members(leaders) : l # NoBlock
      BY <1>2, <3>3, LiveIsPlace
    <3> QED
      BY <1>2, <3>1, <3>2, <3>4 DEF Covers
  <2> QED
    BY <1>1, <1>2, <1>4, <2>1, <2>2 DEF Built
<1> QED
  BY <1>3, <1>4

\* Where a block begins.
LEMMA BlockBegins ==
  ASSUME NEW c, Ranged(c), NEW r, BlockOf(c, r)
  PROVE  r.offset \in Places(c) /\ r.offset \in Nat /\ r.offset < Extent(c) /\ r.size \in Nat /\ r.size # 0
<1>1. PICK C, last : Chain(c, r.offset, r.offset + r.size, r.instructions, C, last)
  BY DEF BlockOf
<1>2. r.offset \in Live(c) /\ r.offset < r.offset + r.size /\ r.size \in Nat
  BY <1>1 DEF Chain, BlockOf
<1> QED
  BY <1>2, LiveIsPlace

\* No two blocks begin at one offset.
LEMMA OffsetsDiffer ==
  ASSUME NEW c, Ranged(c), NEW bl, BlocksFor(c, bl), NEW a \in 1..Len(bl), NEW b \in 1..Len(bl), bl[a].offset = bl[b].offset
  PROVE  a = b
<1>1. /\ bl[a].offset \in Nat /\ bl[b].offset \in Nat /\ bl[a].size \in Nat \ {0} /\ bl[b].size \in Nat \ {0}
  BY BlockBegins DEF BlocksFor
<1>2. /\ a < b => bl[a].offset + bl[a].size <= bl[b].offset
      /\ b < a => bl[b].offset + bl[b].size <= bl[a].offset
  BY DEF BlocksFor, InOrder
<1>3. Len(bl) \in Nat /\ a \in Nat /\ b \in Nat
  BY UptoFacts
<1> QED
  BY <1>1, <1>2, <1>3

-----------------------------------------------------------------------------
(* BuildSuccessors. *)

LEMMA PairMembers ==
  ASSUME NEW x, NEW y
  PROVE  Members(<<>>) = {} /\ Members(<<x>>) = {x} /\ Members(<<>> \o <<y>>) = {y} /\ Members(<<x>> \o <<y>>) = {x, y}
<1>1. DOMAIN <<>> = {} /\ DOMAIN <<x>> = {1} /\ <<x>>[1] = x
  OBVIOUS
<1>2. <<>> \o <<y>> = <<y>> /\ DOMAIN <<y>> = {1} /\ <<y>>[1] = y
  OBVIOUS
<1> DEFINE X == {x, y}
           s == <<x>>
           q == <<y>>
           z == s \o q
<1>3. s \in Seq(X) /\ q \in Seq(X) /\ Len(s) = 1 /\ Len(q) = 1 /\ s[1] = x /\ q[1] = y
  OBVIOUS
<1> HIDE DEF X, s, q
<1>4. z \in Seq(X) /\ Len(z) = 2 /\ z[1] = x /\ z[2] = y
  <2>1. /\ z \in Seq(X) /\ Len(z) = Len(s) + Len(q)
        /\ \A i \in 1 .. Len(s) + Len(q) : z[i] = IF i <= Len(s) THEN s[i] ELSE q[i - Len(s)]
    BY <1>3, ConcatProperties
  <2> HIDE DEF z
  <2> QED
    BY <1>3, <2>1
<1> HIDE DEF z
<1>5. DOMAIN z = {1, 2}
  BY <1>4
<1>6. Members(z) = {x, y}
  BY <1>4, <1>5 DEF Members
<1>7. Members(<<x>> \o <<y>>) = {x, y}
  BY <1>6 DEF z, s, q
<1> QED
  BY <1>1, <1>2, <1>7 DEF Members

LEMMA OffsetMembers == ASSUME NEW b PROVE Members(SuccessorOffsets(b)) = Conts(blocks[b])
<1> DEFINE r == blocks[b]
           t == IF r.target = NoTarget THEN <<>> ELSE <<r.target>>
           e == r.offset + r.size
<1>1. SuccessorOffsets(b) = CASE r.end = "ConditionalBranch" -> t \o <<e>>
                              [] r.end = "DirectBranch" -> t
                              [] r.end \in {"Fallthrough", "RangeEnd"} -> <<e>>
                              [] OTHER -> <<>>
  BY DEF SuccessorOffsets
<1>2. Conts(r) = CASE r.end = "ConditionalBranch" -> (IF r.target = NoTarget THEN {} ELSE {r.target}) \cup {e}
                   [] r.end = "DirectBranch" -> IF r.target = NoTarget THEN {} ELSE {r.target}
                   [] r.end \in {"Fallthrough", "RangeEnd"} -> {e}
                   [] OTHER -> {}
  BY DEF Conts
<1>3. /\ Members(t) = IF r.target = NoTarget THEN {} ELSE {r.target}
      /\ Members(t \o <<e>>) = (IF r.target = NoTarget THEN {} ELSE {r.target}) \cup {e}
      /\ Members(<<e>>) = {e} /\ Members(<<>>) = {}
  <2>1. CASE r.target = NoTarget
    BY <2>1, PairMembers
  <2>2. CASE r.target # NoTarget
    <3>1. t = <<r.target>>
      BY <2>2
    <3> HIDE DEF t, e
    <3>2. {r.target, e} = {r.target} \cup {e}
      OBVIOUS
    <3> QED
      BY <2>2, <3>1, <3>2, PairMembers
  <2> QED
    BY <2>1, <2>2
<1> HIDE DEF t, e, r
<1>4. Members(SuccessorOffsets(b)) = Conts(r)
  <2>1. CASE r.end = "ConditionalBranch"
    BY <1>1, <1>2, <1>3, <2>1
  <2>2. CASE r.end = "DirectBranch"
    BY <1>1, <1>2, <1>3, <2>2
  <2>3. CASE r.end \in {"Fallthrough", "RangeEnd"}
    BY <1>1, <1>2, <1>3, <2>3
  <2>4. CASE r.end \notin {"ConditionalBranch", "DirectBranch", "Fallthrough", "RangeEnd"}
    BY <1>1, <1>2, <1>3, <2>4
  <2> QED
    BY <2>1, <2>2, <2>3, <2>4
<1> QED
  BY <1>4 DEF r

\* An offset resolves to the block that begins there.
LEMMA Resolves ==
  ASSUME Ranged(code), BlocksFor(code, blocks)
  PROVE  /\ Nodes = 1..Len(blocks) /\ Len(blocks) \in Nat
         /\ \A d \in Nodes : \A o : ResolveSuccessor(o) = d <=> o = blocks[d].offset
         /\ \A d \in Nodes : BlockAtOffset(blocks[d].offset) # NoBlock
<1>1. Nodes = 1..Len(blocks) /\ Len(blocks) \in Nat
  BY UptoFacts DEF Nodes
<1>2. \A d \in Nodes : d # NoBlock
  BY <1>1, NoneAssumption
<1>3. ASSUME NEW d \in Nodes PROVE ResolveSuccessor(blocks[d].offset) = d /\ BlockAtOffset(blocks[d].offset) # NoBlock
  <2> DEFINE B == {b \in Nodes : blocks[b].offset = blocks[d].offset}
  <2>1. B = {d}
    BY <1>1, OffsetsDiffer
  <2>2. BlockAtOffset(blocks[d].offset) = d
    BY <2>1 DEF BlockAtOffset
  <2>3. blocks[d].offset < Length /\ blocks[d].offset \in Nat /\ Length \in Nat
    BY <1>1, BlockBegins, RangeNames DEF BlocksFor, Ranged
  <2>4. ~(blocks[d].offset >= Length)
    BY <2>3
  <2> QED
    BY <1>2, <2>2, <2>4 DEF ResolveSuccessor
<1>4. ASSUME NEW d \in Nodes, NEW o, ResolveSuccessor(o) = d PROVE o = blocks[d].offset
  <2> DEFINE B == {b \in Nodes : blocks[b].offset = o}
  <2>1. BlockAtOffset(o) = d
    BY <1>2, <1>4 DEF ResolveSuccessor
  <2>2. BlockAtOffset(o) = IF B = {} THEN NoBlock ELSE CHOOSE b \in B : TRUE
    BY DEF BlockAtOffset
  <2>3. d \in B
    <3> HIDE DEF B
    <3> QED
      BY <1>2, <2>1, <2>2
  <2> QED
    BY <2>3
<1> QED
  BY <1>1, <1>3, <1>4

Joined(bl, sc) == \A b, d \in DOMAIN bl : d \in SetOfSuccessors(sc, b) <=> bl[d].offset \in Conts(bl[b])
Turned(sc, pr) == \A b \in DOMAIN sc : Members(pr[b]) = {a \in DOMAIN sc : b \in SetOfSuccessors(sc, a)}

LEMMA EdgesJoin ==
  ASSUME Ranged(code), BlocksFor(code, blocks), BuildEdges
  PROVE  Graph(succ') /\ Len(succ') = Len(blocks) /\ DOMAIN succ' = DOMAIN blocks /\ Joined(blocks, succ') /\ Turned(succ', pred')
<1>1. Nodes = 1..Len(blocks) /\ Len(blocks) \in Nat /\ DOMAIN blocks = 1..Len(blocks)
  <2>1. Nodes = 1..Len(blocks) /\ Len(blocks) \in Nat
    <3>1. PICK X : blocks \in Seq(X)
      BY Zenon DEF BlocksFor
    <3> QED
      BY ONLY <3>1 DEF Nodes
  <2> QED
    BY ONLY <2>1 DEF Nodes
<1>2. /\ Graph(succ') /\ Len(succ') = Len(blocks) /\ DOMAIN succ' = Nodes
      /\ \A b \in Nodes : SetOfSuccessors(succ', b) = Resolved(b) \cap Nodes
      /\ \A b \in Nodes : Members(pred'[b]) = {a \in Nodes : b \in SetOfSuccessors(succ', a)}
  BY <1>1, EdgesMakeGraph
<1>3. ASSUME NEW b \in Nodes, NEW d \in Nodes PROVE d \in Resolved(b) <=> blocks[d].offset \in Conts(blocks[b])
  <2>1. d \in Resolved(b) <=> \E o \in Members(SuccessorOffsets(b)) : ResolveSuccessor(o) = d
    BY DEF Resolved, Members
  <2>2. \A o : ResolveSuccessor(o) = d <=> o = blocks[d].offset
    BY Resolves
  <2> QED
    BY <2>1, <2>2, OffsetMembers
<1>4. Joined(blocks, succ')
  BY <1>1, <1>2, <1>3 DEF Joined
<1>5. Turned(succ', pred')
  BY <1>2 DEF Turned
<1> QED
  BY <1>1, <1>2, <1>4, <1>5

\* A sum of zeros is zero.
Summing(g, f, n) == g = [i \in 0..n |-> IF i = 0 THEN 0 ELSE g[i - 1] + f[i]]

LEMMA TotalOfNothing ==
  ASSUME NEW f, Len(f) \in Nat, \A i \in 1..Len(f) : f[i] = 0
  PROVE  Total(f) = 0
<1> DEFINE n == Len(f)
           z == [i \in 0..n |-> 0]
           g == CHOOSE h : Summing(h, f, n)
<1>1. Summing(z, f, n)
  <2>1. ASSUME NEW i \in 0..n PROVE z[i] = IF i = 0 THEN 0 ELSE z[i - 1] + f[i]
    <3>1. CASE i = 0
      BY <3>1
    <3>2. CASE i # 0
      <4>1. i \in 1..n /\ i - 1 \in 0..n
        BY <3>2
      <4>2. z[i] = 0 /\ z[i - 1] = 0 /\ f[i] = 0
        BY <4>1
      <4> HIDE DEF z
      <4> QED
        BY <3>2, <4>2
    <3> QED
      BY <3>1, <3>2
  <2>2. z = [i \in 0..n |-> z[i]]
    OBVIOUS
  <2> HIDE DEF z, n
  <2>3. z = [i \in 0..n |-> IF i = 0 THEN 0 ELSE z[i - 1] + f[i]]
    BY <2>1, <2>2
  <2> QED
    BY <2>3 DEF Summing
<1>2. Summing(g, f, n)
  <2> HIDE DEF z
  <2> QED
    BY <1>1
<1>3. Total(f) = g[n]
  BY DEF Total, Summing
<1> HIDE DEF g, z
<1>8. \A m \in 0..n : m # 0 => g[m] = g[m - 1] + f[m]
  <2> HIDE DEF n
  <2> QED
    BY <1>2 DEF Summing
<1> DEFINE N == {k \in Nat : k <= n => g[k] = 0}
<1>4. 0 \in N
  BY <1>2 DEF Summing
<1>5. ASSUME NEW k \in N PROVE k + 1 \in N
  <2>1. k \in Nat /\ k + 1 \in Nat
    OBVIOUS
  <2>2. SUFFICES ASSUME k + 1 <= n PROVE g[k + 1] = 0
    BY <2>1
  <2>3. k + 1 \in 0..n /\ k + 1 # 0 /\ k + 1 - 1 = k /\ k + 1 \in 1..n /\ k <= n
    BY <2>1, <2>2
  <2>4. g[k] = 0 /\ f[k + 1] = 0
    BY <2>3
  <2> HIDE DEF N, n
  <2>5. g[k + 1] = g[k] + f[k + 1]
    BY <1>8, <2>1, <2>3
  <2> QED
    BY <2>4, <2>5
<1>6. N \in SUBSET Nat
  OBVIOUS
<1>7. n \in N
  <2> HIDE DEF N
  <2> QED
    BY <1>4, <1>5, <1>6, SetInduction
<1> QED
  BY <1>3, <1>7

LEMMA EdgeCounts ==
  ASSUME BuildEdges, DOMAIN count = CountNames
  PROVE  /\ DOMAIN count' = CountNames /\ count'.overlapping = count.overlapping
         /\ count'.dropped = Total([b \in Nodes |-> DroppedOf(b)])
<1> DEFINE next == [b \in Nodes |-> SuccessorsOf(b)]
           t == Total([b \in Nodes |-> DroppedOf(b)])
           x == Cardinality({b \in Nodes : next[b] = <<>>})
           e == Total([b \in Nodes |-> Len(next[b])])
<1>1. count' = [count EXCEPT !.dropped = t, !.exits = x, !.edges = e]
  BY DEF BuildEdges
<1> HIDE DEF t, x, e
<1>2. DOMAIN count' = CountNames /\ count'.overlapping = count.overlapping /\ count'.dropped = t
  BY <1>1 DEF CountNames
<1> QED
  BY <1>2 DEF t

\* Where a block begins at every offset a block continues at, no edge is dropped.
LEMMA NothingDropped ==
  ASSUME Ranged(code), BlocksFor(code, blocks), Covers(code, blocks), DOMAIN count = CountNames, BuildEdges
  PROVE  count'.dropped = 0
<1> DEFINE f == [b \in Nodes |-> DroppedOf(b)]
<1>1. Nodes = 1..Len(blocks) /\ Len(blocks) \in Nat
  BY Resolves
<1>2. ASSUME NEW b \in Nodes PROVE DroppedOf(b) = 0
  <2> DEFINE off == SuccessorOffsets(b)
             D == {i \in DOMAIN off : off[i] < Length /\ BlockAtOffset(off[i]) = NoBlock}
  <2>1. ASSUME NEW i \in D PROVE FALSE
    <3>1. off[i] \in Conts(blocks[b])
      BY OffsetMembers DEF Members
    <3>2. off[i] < Length /\ BlockAtOffset(off[i]) = NoBlock
      OBVIOUS
    <3> HIDE DEF off, D
    <3>3. BlockOf(code, blocks[b])
      BY <1>1 DEF BlocksFor
    <3>4. off[i] \in Nat
      <4>1. blocks[b].offset + blocks[b].size \in Nat /\ (blocks[b].target # NoTarget => blocks[b].target \in Nat)
        BY <3>3 DEF BlockOf
      <4> QED
        BY <3>1, <4>1 DEF Conts
    <3>5. off[i] \in Places(code)
      BY <3>2, <3>4, RangeNames DEF Places, Ranged
    <3>6. PICK d \in 1..Len(blocks) : blocks[d].offset = off[i]
      BY <1>1, <3>1, <3>5 DEF Covers
    <3> QED
      BY <1>1, <3>2, <3>6, Resolves
  <2>2. D = {}
    BY <2>1
  <2>3. DroppedOf(b) = Cardinality(D)
    BY DEF DroppedOf
  <2> QED
    BY <2>2, <2>3, FS_EmptySet
<1>3. f \in [1..Len(blocks) -> {0}]
  BY <1>1, <1>2
<1>4. Len(f) = Len(blocks) /\ \A i \in 1..Len(blocks) : f[i] = 0
  <2> HIDE DEF f
  <2> QED
    BY <1>1, <1>3, ListOf
<1>5. Total(f) = 0
  <2> HIDE DEF f
  <2> QED
    BY <1>1, <1>4, TotalOfNothing
<1>6. count'.dropped = Total(f)
  BY EdgeCounts
<1> QED
  BY <1>5, <1>6

-----------------------------------------------------------------------------
(* The graph over the steps of the program. *)

Edged ==
    /\ Graph(succ) /\ Len(succ) = Len(blocks) /\ DOMAIN succ = DOMAIN blocks
    /\ Joined(blocks, succ) /\ Turned(succ, pred)
    /\ status = "Ok" /\ count.overlapping = 0 => count.dropped = 0

GraphInv ==
    /\ phase \in Early => succ = <<>> /\ status \in {"Ok", "InstructionLimitReached", "BlockLimitReached"}
    /\ phase \in {"start", "discover"} => blocks = <<>> /\ count = NoCounts
    /\ phase = "start" => code \in Codes /\ start = NoBlock /\ cursor = 0
    /\ phase = "discover" => Discovering
    /\ phase = "blocks" => Building
    /\ phase = "successors" => Built
    /\ phase \in {"strong", "connected"} => Built /\ Edged
    /\ phase = "done" => (Built /\ Edged) \/ (status # "Ok" /\ blocks = <<>> /\ succ = <<>>)

LEMMA GraphBegins == Init => GraphInv
BY DEF Init, GraphInv, Early

LEMMA EdgesAreBuilt ==
  ASSUME Built, BuildEdges
  PROVE  Built' /\ Edged'
<1>1. UNCHANGED <<code, status, blocks>>
  BY DEF BuildEdges
<1>2. DOMAIN count' = CountNames /\ count'.overlapping = count.overlapping
  BY EdgeCounts DEF Built
<1>3. Ranged(code) /\ BlocksFor(code, blocks) /\ DOMAIN count = CountNames
      /\ (status = "Ok" /\ count.overlapping = 0 => Covers(code, blocks))
  BY DEF Built
<1>4. Graph(succ') /\ Len(succ') = Len(blocks) /\ DOMAIN succ' = DOMAIN blocks /\ Joined(blocks, succ') /\ Turned(succ', pred')
  BY <1>3, EdgesJoin
<1>5. status = "Ok" /\ count.overlapping = 0 => count'.dropped = 0
  BY <1>3, NothingDropped
<1>6. Built'
  BY <1>1, <1>2, <1>3 DEF Built
<1>7. Edged'
  BY <1>1, <1>2, <1>4, <1>5 DEF Edged
<1> QED
  BY <1>6, <1>7

\* A step that leaves the blocks and the edges alone.
LEMMA EdgesKept ==
  ASSUME Built, Edged, UNCHANGED <<code, status, blocks, succ, pred>>,
         DOMAIN count' = CountNames, count'.overlapping = count.overlapping, count'.dropped = count.dropped
  PROVE  Built' /\ Edged'
BY DEF Built, Edged

\* What the scan may report.
Statuses == {"Ok", "InstructionLimitReached", "BlockLimitReached"}

LEMMA AddLeaderStatus ==
  ASSUME NEW l, NEW t \in Statuses, NEW o
  PROVE  \E l2 : \E t2 \in Statuses : AddLeader(Pair(l, t), o) = Pair(l2, t2)
<1> DEFINE s == Pair(l, t)
           t2 == IF t = "Ok" THEN "BlockLimitReached" ELSE t
<1>1. s.leaders = l /\ s.status = t /\ s = [leaders |-> l, status |-> t]
  BY DEF Pair
<1>2. t2 \in Statuses
  BY DEF Statuses
<1>3. [s EXCEPT !.status = IF @ = "Ok" THEN "BlockLimitReached" ELSE @] = Pair(l, t2)
  <2>1. [s EXCEPT !.status = IF @ = "Ok" THEN "BlockLimitReached" ELSE @] = [s EXCEPT !.status = t2]
    BY <1>1
  <2> HIDE DEF t2
  <2>2. [s EXCEPT !.status = t2] = Pair(l, t2)
    BY <1>1 DEF Pair
  <2> QED
    BY <2>1, <2>2
<1>4. [s EXCEPT !.leaders = Append(@, o)] = Pair(Append(l, o), t)
  BY <1>1 DEF Pair
<1> HIDE DEF t2
<1>5. AddLeader(s, o) \in {s, Pair(l, t2), Pair(Append(l, o), t)}
  BY <1>3, <1>4 DEF AddLeader
<1> QED
  BY <1>2, <1>5

\* The steps of the scan leave the edges alone and report one of these.
LEMMA ScanStatus ==
  ASSUME status \in Statuses, succ = <<>>,
         \/ Begin \/ NextLeader \/ LeadersFound \/ DecodeForScan \/ ScanInstruction \/ ScanStops
         \/ NextBlock \/ DecodeForBlock \/ ExtendBlock \/ FallThrough
  PROVE  status' \in Statuses /\ succ' = <<>>
<1>1. CASE Begin \/ NextLeader \/ LeadersFound \/ ScanStops \/ NextBlock \/ ExtendBlock \/ FallThrough
  BY <1>1 DEF Begin, NextLeader, LeadersFound, ScanStops, NextBlock, ExtendBlock, FallThrough
<1>2. CASE DecodeForScan \/ DecodeForBlock
  BY <1>2 DEF DecodeForScan, DecodeForBlock, DecodeWindowAt, Statuses
<1>3. CASE ScanInstruction
  <2> DEFINE slot == slots[at]
             one == AddBranchLeader(Pair(leaders, status), slot)
             two == IF slot.role = "ConditionalBranch" THEN AddLeader(one, NextOffset(slot)) ELSE one
  <2>1. status' = two.status /\ succ' = succ
    BY <1>3 DEF ScanInstruction, Pair
  <2>2. \E l2 : \E t2 \in Statuses : one = Pair(l2, t2)
    BY AddLeaderStatus DEF AddBranchLeader
  <2> HIDE DEF one, slot
  <2>3. \E l2 : \E t2 \in Statuses : two = Pair(l2, t2)
    BY <2>2, AddLeaderStatus
  <2> HIDE DEF two
  <2>4. two.status \in Statuses
    BY <2>3 DEF Pair
  <2> QED
    BY <2>1, <2>4
<1> QED
  BY <1>1, <1>2, <1>3

LEMMA BeginDiscovers ==
  ASSUME Begin, code \in Codes, start = NoBlock, cursor = 0
  PROVE  Discovering'
<1>1. /\ code # NullCode /\ Length \in 1 .. CfgMaxRangeBytes /\ slots' = [o \in Offsets |-> Unknown] /\ leaders' = <<0>>
      /\ UNCHANGED <<code, status, cursor, start, at>>
  BY DEF Begin
<1>2. Length = Extent(code)
  BY <1>1 DEF Length, Extent
<1>3. Extent(code) # 0
  BY <1>1, <1>2
<1>4. Ranged(code)
  BY <1>1, <1>3, CodeIsRange
<1>5. Offsets = Places(code)
  BY <1>4, RangeNames
<1>6. SlotsRight(code, slots')
  BY <1>1, <1>5 DEF SlotsRight
<1>7. 0 \in Live(code)
  BY <1>4, LiveFacts
<1>8. leaders' \in Seq(Live(code)) /\ Len(leaders') = 1 /\ Members(leaders') = {0}
  <2>1. <<0>> \in Seq(Live(code)) /\ Len(<<0>>) = 1
    BY <1>7
  <2>2. Members(<<0>>) = {0}
    BY PairMembers
  <2> QED
    BY <1>1, <2>1, <2>2
<1>9. cursor \in 0..Len(leaders')
  BY <1>8
<1>10. ScanTyped(code, slots', leaders', cursor)
  BY <1>4, <1>6, <1>8, <1>9 DEF ScanTyped
<1>11. Walked(code, slots', leaders', cursor, start, at, {})
  BY DEF Walked
<1>12. Explored(code, slots', leaders', cursor, start, at)
  BY <1>11 DEF Explored
<1> QED
  BY <1>1, <1>10, <1>12 DEF Discovering, Walking

LEMMA GraphStep == ASSUME GraphInv, [Next]_vars PROVE GraphInv'
<1>1. CASE UNCHANGED vars
  <2>1. UNCHANGED <<phase, succ, status, blocks, count, code, start, cursor>>
    BY <1>1 DEF vars
  <2>2. (Discovering' <=> Discovering) /\ (Building' <=> Building) /\ (Built' <=> Built) /\ (Edged' <=> Edged)
    BY <1>1 DEF vars, Discovering, Building, Built, Edged
  <2> QED
    BY <2>1, <2>2 DEF GraphInv
<1>2. CASE Refuse
  <2>1. phase = "start" /\ phase' = "done" /\ status' # "Ok" /\ UNCHANGED <<blocks, succ>>
    BY <1>2 DEF Refuse
  <2> QED
    BY <2>1 DEF GraphInv, Early
<1>3. CASE \/ Begin \/ NextLeader \/ LeadersFound \/ DecodeForScan \/ ScanInstruction \/ ScanStops
           \/ NextBlock \/ DecodeForBlock \/ ExtendBlock \/ FallThrough
  <2>1. phase \in Early
    BY <1>3 DEF Early, Begin, NextLeader, LeadersFound, DecodeForScan, ScanInstruction, ScanStops, NextBlock, DecodeForBlock, ExtendBlock, FallThrough
  <2>2. status' \in Statuses /\ succ' = <<>>
    BY <1>3, <2>1, ScanStatus DEF GraphInv, Statuses
  <2>3. CASE Begin
    <3>1. phase = "start" /\ phase' = "discover" /\ UNCHANGED <<blocks, count>>
      BY <2>3 DEF Begin
    <3>2. Discovering'
      BY <2>3, <3>1, BeginDiscovers DEF GraphInv
    <3> QED
      BY <2>2, <3>1, <3>2 DEF GraphInv, Statuses
  <2>4. CASE NextLeader \/ DecodeForScan \/ ScanInstruction \/ ScanStops
    <3>1. phase = "discover" /\ phase' = "discover" /\ UNCHANGED <<blocks, count>>
      BY <2>4 DEF NextLeader, DecodeForScan, ScanInstruction, ScanStops
    <3>2. Discovering
      BY <3>1 DEF GraphInv
    <3>3. Discovering'
      BY <2>4, <3>2, NextLeaderKeeps, DecodeForScanKeeps, ScanInstructionKeeps, ScanStopsKeeps
    <3> QED
      BY <2>2, <3>1, <3>3 DEF GraphInv, Statuses
  <2>5. CASE LeadersFound
    <3>1. phase = "discover" /\ phase' = "blocks"
      BY <2>5 DEF LeadersFound
    <3>2. Discovering /\ blocks = <<>> /\ DOMAIN count = CountNames /\ count.overlapping \in Nat
      BY <3>1 DEF GraphInv, NoCounts, CountNames
    <3>3. Building'
      BY <2>5, <3>2, LeadersFoundBuilds
    <3> QED
      BY <2>2, <3>1, <3>3 DEF GraphInv, Statuses
  <2>6. CASE NextBlock \/ DecodeForBlock \/ ExtendBlock \/ FallThrough
    <3>1. phase = "blocks" /\ phase' = "blocks"
      BY <2>6 DEF NextBlock, DecodeForBlock, ExtendBlock, FallThrough
    <3>2. Building
      BY <3>1 DEF GraphInv
    <3>3. Building'
      BY <2>6, <3>2, NextBlockKeeps, DecodeForBlockKeeps, ExtendBlockKeeps, FallThroughKeeps
    <3> QED
      BY <2>2, <3>1, <3>3 DEF GraphInv, Statuses
  <2> QED
    BY <1>3, <2>3, <2>4, <2>5, <2>6
<1>4. CASE BlocksBuilt
  <2>1. phase = "blocks" /\ phase' = (IF status' = "EntryUndecodable" THEN "done" ELSE "successors") /\ UNCHANGED succ
    BY <1>4 DEF BlocksBuilt
  <2>2. Building /\ status \in Statuses /\ succ = <<>>
    BY <2>1 DEF GraphInv, Early, Statuses
  <2>3. Built' /\ (OnlyDecodeError => blocks' = <<>> /\ status' # "Ok") /\ (~OnlyDecodeError => status' = status)
    BY <1>4, <2>2, BlocksBuiltBuilds
  <2>4. status' \in Statuses \cup {"EntryUndecodable"}
    BY <1>4, <2>2 DEF BlocksBuilt
  <2>5. CASE status' = "EntryUndecodable"
    <3>1. OnlyDecodeError
      BY <2>2, <2>3, <2>5 DEF Statuses
    <3> QED
      BY <2>1, <2>2, <2>3, <2>5, <3>1 DEF GraphInv, Early
  <2>6. CASE status' # "EntryUndecodable"
    BY <2>1, <2>2, <2>3, <2>4, <2>6 DEF GraphInv, Statuses
  <2> QED
    BY <2>5, <2>6
<1>5. CASE BuildEdges
  <2>1. phase = "successors" /\ phase' = "strong"
    BY <1>5 DEF BuildEdges
  <2>2. Built' /\ Edged'
    BY <1>5, <2>1, EdgesAreBuilt DEF GraphInv
  <2> QED
    BY <2>1, <2>2 DEF GraphInv, Early
<1>6. CASE VisitRoot \/ VisitChild \/ LeaveNode \/ StrongDone \/ UniteEdge \/ ComputeStatistics
  <2>1. phase \in {"strong", "connected"} /\ phase' \in {"strong", "connected", "done"}
        /\ UNCHANGED <<code, status, blocks, succ, pred>>
    <3>0. CASE LeaveNode
      <4>1. phase = "strong" /\ UNCHANGED <<code, phase, status, scan, blocks, count, succ, pred, uf>>
        BY ONLY <3>0, Zenon DEF LeaveNode
      <4> QED
        BY <4>1
    <3>1. CASE VisitRoot \/ VisitChild
      BY <3>1 DEF VisitRoot, VisitChild
    <3>2. CASE StrongDone \/ UniteEdge \/ ComputeStatistics
      BY <3>2 DEF StrongDone, UniteEdge, ComputeStatistics
    <3> QED
      BY <1>6, <3>0, <3>1, <3>2
  <2>2. Built /\ Edged
    BY <2>1 DEF GraphInv
  <2>3. DOMAIN count = CountNames
    BY <2>2 DEF Built
  <2>4. DOMAIN count' = CountNames /\ count'.overlapping = count.overlapping /\ count'.dropped = count.dropped
    <3>1. CASE ComputeStatistics
      <4>1. count' = [count EXCEPT !.components = ConnectedComponentCount, !.complexity = CyclomaticComplexity]
        BY <3>1 DEF ComputeStatistics
      <4> QED
        BY <2>3, <4>1 DEF CountNames
    <3>2. CASE ~ComputeStatistics
      <4>1. count' = count
        <5>0. CASE LeaveNode
          <6>1. UNCHANGED <<code, phase, status, scan, blocks, count, succ, pred, uf>>
            BY ONLY <5>0, Zenon DEF LeaveNode
          <6> QED
            BY <6>1
        <5>1. CASE VisitRoot \/ VisitChild
          BY <5>1 DEF VisitRoot, VisitChild
        <5>2. CASE StrongDone \/ UniteEdge
          BY <5>2 DEF StrongDone, UniteEdge
        <5> QED
          BY <1>6, <3>2, <5>0, <5>1, <5>2
      <4> QED
        BY <2>3, <4>1
    <3> QED
      BY <3>1, <3>2
  <2>5. Built' /\ Edged'
    BY <2>1, <2>2, <2>4, EdgesKept
  <2> QED
    BY <2>1, <2>5 DEF GraphInv, Early
<1> QED
  BY <1>1, <1>2, <1>3, <1>4, <1>5, <1>6 DEF Next

-----------------------------------------------------------------------------
(* GraphIsExact. *)

\* What follows an instruction in front of e.
Inner(c, e) == [o \in Places(c) |-> IF Fit(c, o) THEN {o + c[o].len} \cap (0 .. e - 1) ELSE {}]

LEMMA InnerFlow ==
  ASSUME NEW c, Ranged(c), NEW e \in Nat, e <= Extent(c)
  PROVE  Flow(Places(c), Inner(c, e), Extent(c))
<1>1. Extent(c) \in Nat
  BY DEF Ranged
<1>2. 0 .. e - 1 \subseteq Places(c)
  BY <1>1 DEF Places
<1>3. \A o \in Places(c) : Inner(c, e)[o] \subseteq Places(c)
  BY <1>2 DEF Inner
<1> QED
  BY <1>1, <1>3, PlacesFinite DEF Flow

\* The instructions of a block are the chain it was built from.
LEMMA ChainIsClosure ==
  ASSUME NEW c, Ranged(c), NEW s, NEW e \in Nat, e <= Extent(c), NEW n, NEW C, NEW last, Chain(c, s, e, n, C, last)
  PROVE  Closure({s}, Inner(c, e), Extent(c)) = C
<1> DEFINE K == Closure({s}, Inner(c, e), Extent(c))
<1>1. /\ s \in C /\ last \in C /\ C \subseteq Live(c)
      /\ \A o \in C : s <= o /\ o < e
      /\ \A o \in C : o # last => Plain(c, o) /\ o + c[o].len \in C
      /\ Fit(c, last) => last + c[last].len = e
      /\ \A o \in C : o # s => \E p \in C : Plain(c, p) /\ p + c[p].len = o
  BY DEF Chain
<1>2. \A o \in C : o \in Places(c) /\ o \in Nat
  BY <1>1, LiveIsPlace
<1>3. ASSUME NEW o \in C PROVE Inner(c, e)[o] \subseteq C
  <2>1. Inner(c, e)[o] = IF Fit(c, o) THEN {o + c[o].len} \cap (0 .. e - 1) ELSE {}
    BY <1>2 DEF Inner
  <2>2. CASE o # last
    BY <1>1, <2>1, <2>2
  <2>3. CASE o = last
    <3>1. Fit(c, o) => o + c[o].len \notin 0 .. e - 1
      BY <1>1, <2>3
    <3> QED
      BY <2>1, <3>1
  <2> QED
    BY <2>2, <2>3
<1>4. K \subseteq C
  <2>1. {s} \subseteq C /\ Extent(c) \in Nat
    BY <1>1 DEF Ranged
  <2> QED
    BY <1>3, <2>1, ClosureMinimal
<1>5. s \in K /\ \A o \in K : Inner(c, e)[o] \subseteq K
  BY <1>1, <1>2, InnerFlow, FlowFacts
<1> HIDE DEF K
<1>6. ASSUME C \ K # {} PROVE FALSE
  <2>1. C \ K \in SUBSET Nat
    BY <1>2
  <2>2. PICK o \in C \ K : \A q \in C \ K : o <= q
    BY <1>6, <2>1, LeastNatural
  <2>3. o # s /\ o \in C /\ o \notin K
    BY <1>5
  <2>4. PICK p \in C : Plain(c, p) /\ p + c[p].len = o
    BY <1>1, <2>3
  <2>5. p \in Places(c) /\ p \in Nat /\ o \in Nat /\ o < e
    BY <1>1, <1>2, <2>3
  <2>6. Fit(c, p) /\ p < o
    BY <2>4, <2>5, GoesFacts DEF Plain
  <2>7. p \in K
    BY <2>2, <2>5, <2>6
  <2>8. o \in Inner(c, e)[p]
    BY <2>4, <2>5, <2>6 DEF Inner
  <2> QED
    BY <1>5, <2>3, <2>7, <2>8
<1>7. C = K
  BY <1>4, <1>6
<1> QED
  BY <1>7 DEF K

LEMMA BlockInstructions ==
  ASSUME Ranged(code), NEW b, BlockOf(code, blocks[b])
  PROVE  \E n, C, last : /\ Chain(code, blocks[b].offset, blocks[b].offset + blocks[b].size, n, C, last)
                         /\ n = blocks[b].instructions /\ InstructionsOf(b) = C /\ LastOf(b) = last
                         /\ Goes(code, last) = Conts(blocks[b]) \cap Places(code)
<1> DEFINE s == blocks[b].offset
           e == blocks[b].offset + blocks[b].size
           n == blocks[b].instructions
<1>1. s \in Nat /\ e \in Nat /\ e <= Extent(code)
  BY DEF BlockOf
<1>2. PICK C, last : Chain(code, s, e, n, C, last) /\ Goes(code, last) = Conts(blocks[b]) \cap Places(code)
  BY DEF BlockOf
<1> DEFINE f == blocks[b].offset + blocks[b].size - 1
           M == [o \in Offsets |-> IF Fits(o) THEN {o + code[o].len} \cap (0 .. f) ELSE {}]
<1>3. M = Inner(code, e)
  <2>1. f = e - 1
    BY DEF BlockOf
  <2> HIDE DEF f, e
  <2> QED
    BY <2>1, RangeNames DEF Inner
<1>4. InstructionsOf(b) = Closure({s}, Inner(code, e), Extent(code))
  <2>1. InstructionsOf(b) = Closure({s}, M, Length)
    BY Zenon DEF InstructionsOf
  <2> HIDE DEF M, e
  <2> QED
    BY <1>3, <2>1, RangeNames
<1> HIDE DEF e
<1>5. InstructionsOf(b) = C
  BY <1>1, <1>2, <1>4, ChainIsClosure
<1>6. LastOf(b) = last
  <2>1. last \in C /\ \A o \in C : o <= last /\ o \in Nat
    BY <1>2, LiveIsPlace DEF Chain
  <2>2. \A o \in C : (\A p \in C : p <= o) <=> o = last
    BY <2>1
  <2>3. LastOf(b) = CHOOSE o \in C : \A p \in C : p <= o
    BY <1>5 DEF LastOf
  <2> QED
    BY <2>1, <2>2, <2>3
<1> QED
  BY <1>2, <1>5, <1>6 DEF e

LEMMA BlockTransfers ==
  ASSUME Built, Edged, NEW b \in Nodes
  PROVE  /\ InstructionsOf(b) \subseteq Reachable
         /\ Cardinality(InstructionsOf(b)) = blocks[b].instructions
         /\ TransfersTo(LastOf(b)) = Conts(blocks[b]) \cap Places(code)
         /\ \A d \in Nodes : d \in SuccessorSet(b) <=> blocks[d].offset \in TransfersTo(LastOf(b))
         /\ SuccessorSet(b) \subseteq Nodes
         /\ blocks[b].offset \in InstructionsOf(b)
         /\ \A o \in InstructionsOf(b) : TransfersTo(o) \subseteq InstructionsOf(b) \cup TransfersTo(LastOf(b))
<1>1. Ranged(code) /\ BlocksFor(code, blocks) /\ Graph(succ) /\ DOMAIN succ = Nodes /\ Joined(blocks, succ)
  BY DEF Built, Edged, Nodes
<1>2. Nodes = 1..Len(blocks) /\ \A d \in Nodes : BlockOf(code, blocks[d])
  BY <1>1, Resolves DEF BlocksFor
<1>3. PICK n, C, last : /\ Chain(code, blocks[b].offset, blocks[b].offset + blocks[b].size, n, C, last)
                        /\ n = blocks[b].instructions /\ InstructionsOf(b) = C /\ LastOf(b) = last
                        /\ Goes(code, last) = Conts(blocks[b]) \cap Places(code)
  BY <1>1, <1>2, BlockInstructions
<1>4. Reachable = Live(code) /\ \A o : TransfersTo(o) = Goes(code, o)
  BY <1>1, RangeReach
<1>5. C \subseteq Live(code) /\ Cardinality(C) = n /\ blocks[b].offset \in C
      /\ \A o \in C : o # last => Plain(code, o) /\ o + code[o].len \in C
  BY <1>3 DEF Chain
<1>6. TransfersTo(LastOf(b)) = Conts(blocks[b]) \cap Places(code)
  BY <1>3, <1>4
<1>7. SuccessorSet(b) = SetOfSuccessors(succ, b)
  BY DEF SuccessorSet, SetOfSuccessors
<1>8. SuccessorSet(b) \subseteq Nodes
  BY <1>1, <1>7, SuccessorMember
<1>9. ASSUME NEW d \in Nodes PROVE d \in SuccessorSet(b) <=> blocks[d].offset \in TransfersTo(LastOf(b))
  <2>1. blocks[d].offset \in Places(code)
    BY <1>1, <1>2, BlockBegins
  <2>2. d \in SetOfSuccessors(succ, b) <=> blocks[d].offset \in Conts(blocks[b])
    BY <1>1 DEF Joined, Nodes
  <2> QED
    BY <1>6, <1>7, <2>1, <2>2
<1>10. ASSUME NEW o \in C PROVE Goes(code, o) \subseteq C \cup Goes(code, last)
  <2>1. CASE o = last
    BY <2>1
  <2>2. CASE o # last
    <3>1. Plain(code, o) /\ o + code[o].len \in C /\ o \in Places(code)
      BY <1>1, <1>5, <2>2, LiveIsPlace
    <3>2. Goes(code, o) = {o + code[o].len} \cap Places(code)
      BY <1>1, <3>1, GoesFacts
    <3> QED
      BY <3>1, <3>2
  <2> QED
    BY <2>1, <2>2
<1> QED
  BY <1>3, <1>4, <1>5, <1>6, <1>8, <1>9, <1>10

\* A set of blocks with one at the entry that no transfer leaves holds every
\* reachable instruction.
LEMMA BlocksReach ==
  ASSUME Built, Edged, NEW S, S \subseteq Nodes, \E b \in S : blocks[b].offset = 0,
         \A b \in S : \A u \in TransfersTo(LastOf(b)) : \E d \in S : blocks[d].offset = u
  PROVE  Reachable \subseteq UNION {InstructionsOf(b) : b \in S}
<1> DEFINE Z == UNION {InstructionsOf(b) : b \in S}
<1>1. Ranged(code)
  BY DEF Built
<1>2. Reachable = Live(code) /\ \A o : TransfersTo(o) = Goes(code, o)
  BY <1>1, RangeReach
<1>3. ASSUME NEW b \in S PROVE blocks[b].offset \in Z
  BY BlockTransfers
<1>4. 0 \in Z
  BY <1>3
<1>5. Z \subseteq Places(code)
  <2>1. \A b \in S : InstructionsOf(b) \subseteq Live(code)
    BY <1>2, BlockTransfers
  <2>2. Live(code) \subseteq Places(code)
    BY <1>1, LiveFacts
  <2> QED
    BY <2>1, <2>2
<1>6. ASSUME NEW o \in Z PROVE Goes(code, o) \subseteq Z
  <2>1. PICK b \in S : o \in InstructionsOf(b)
    OBVIOUS
  <2>2. Goes(code, o) \subseteq InstructionsOf(b) \cup TransfersTo(LastOf(b))
    BY <1>2, <2>1, BlockTransfers
  <2>3. ASSUME NEW u \in TransfersTo(LastOf(b)) PROVE u \in Z
    <3>1. PICK d \in S : blocks[d].offset = u
      BY <2>1
    <3> QED
      BY <1>3, <3>1
  <2>4. InstructionsOf(b) \subseteq Z
    OBVIOUS
  <2> HIDE DEF Z
  <2> QED
    BY <2>2, <2>3, <2>4
<1> HIDE DEF Z
<1>7. Live(code) \subseteq Z
  BY <1>1, <1>4, <1>5, <1>6, LiveLeast
<1> QED
  BY <1>2, <1>7 DEF Z

\* Blocks that share an instruction are one block.
LEMMA BlocksApart ==
  ASSUME Built, NEW a \in Nodes, NEW b \in Nodes, NEW o \in InstructionsOf(a), o \in InstructionsOf(b)
  PROVE  a = b
<1>1. Ranged(code) /\ BlocksFor(code, blocks)
  BY DEF Built
<1>2. Nodes = 1..Len(blocks) /\ Len(blocks) \in Nat /\ \A d \in Nodes : BlockOf(code, blocks[d])
  BY <1>1, Resolves DEF BlocksFor
<1>3. ASSUME NEW d \in Nodes, o \in InstructionsOf(d)
      PROVE  o \in Nat /\ blocks[d].offset \in Nat /\ blocks[d].size \in Nat /\ blocks[d].offset <= o /\ o < blocks[d].offset + blocks[d].size
  <2>1. PICK n, C, last : /\ Chain(code, blocks[d].offset, blocks[d].offset + blocks[d].size, n, C, last) /\ InstructionsOf(d) = C
    BY <1>1, <1>2, BlockInstructions
  <2>2. blocks[d].offset <= o /\ o < blocks[d].offset + blocks[d].size /\ o \in Live(code)
    BY <1>3, <2>1 DEF Chain
  <2> QED
    BY <1>1, <1>2, <2>2, LiveIsPlace DEF BlockOf
<1>4. /\ a < b => blocks[a].offset + blocks[a].size <= blocks[b].offset
      /\ b < a => blocks[b].offset + blocks[b].size <= blocks[a].offset
  BY <1>1, <1>2 DEF BlocksFor, InOrder
<1>5. a \in Nat /\ b \in Nat
  BY <1>2
<1> QED
  BY <1>3, <1>4, <1>5

\* A scan that reports Ok and no overlapping leader.
LEMMA OkResult ==
  ASSUME Built, Edged, status = "Ok", count.overlapping = 0
  PROVE  /\ UNION {InstructionsOf(b) : b \in Nodes} = Reachable
         /\ count.dropped = 0
         /\ \A b \in Nodes : TransfersTo(LastOf(b)) = {blocks[d].offset : d \in SuccessorSet(b)}
         /\ Cardinality({Around(succ, b) : b \in DOMAIN succ}) = 1
<1>1. Ranged(code) /\ BlocksFor(code, blocks) /\ Covers(code, blocks) /\ Graph(succ) /\ DOMAIN succ = Nodes /\ count.dropped = 0
  BY DEF Built, Edged, Nodes
<1>2. Nodes = 1..Len(blocks)
  BY <1>1, Resolves
<1>3. PICK e \in Nodes : blocks[e].offset = 0
  BY <1>1, <1>2 DEF Covers
<1>4. ASSUME NEW b \in Nodes, NEW u \in TransfersTo(LastOf(b)) PROVE \E d \in SuccessorSet(b) : blocks[d].offset = u
  <2>1. u \in Conts(blocks[b]) \cap Places(code)
    BY BlockTransfers
  <2>2. PICK d \in Nodes : blocks[d].offset = u
    BY <1>1, <1>2, <2>1 DEF Covers
  <2> QED
    BY <2>2, BlockTransfers
<1>5. ASSUME NEW b \in Nodes PROVE TransfersTo(LastOf(b)) = {blocks[d].offset : d \in SuccessorSet(b)}
  <2>1. \A d \in SuccessorSet(b) : blocks[d].offset \in TransfersTo(LastOf(b))
    BY BlockTransfers
  <2> QED
    BY <1>4, <2>1
<1>6. \A b \in Nodes : SuccessorSet(b) \subseteq Nodes /\ InstructionsOf(b) \subseteq Reachable
  BY BlockTransfers
<1>7. Reachable \subseteq UNION {InstructionsOf(b) : b \in Nodes}
  <2>1. \A b \in Nodes : \A u \in TransfersTo(LastOf(b)) : \E d \in Nodes : blocks[d].offset = u
    BY <1>4, <1>6
  <2> QED
    BY <1>3, <2>1, BlocksReach
<1>8. UNION {InstructionsOf(b) : b \in Nodes} = Reachable
  BY <1>6, <1>7
<1> DEFINE K == Around(succ, e)
<1>9. e \in K /\ K \subseteq Nodes /\ \A b \in K : NextTo(succ)[b] \subseteq K
  BY <1>1, AroundFacts
<1> HIDE DEF K
<1>10. \A b \in K : SuccessorSet(b) \subseteq K
  <2>1. \A b \in Nodes : SuccessorSet(b) \subseteq NextTo(succ)[b]
    BY <1>1 DEF NextTo, SuccessorSet, SetOfSuccessors
  <2> QED
    BY <1>9, <2>1
<1>11. Reachable \subseteq UNION {InstructionsOf(b) : b \in K}
  <2>1. \A b \in K : \A u \in TransfersTo(LastOf(b)) : \E d \in K : blocks[d].offset = u
    BY <1>4, <1>9, <1>10
  <2> QED
    BY <1>3, <1>9, <2>1, BlocksReach
<1>12. ASSUME NEW b \in Nodes PROVE b \in K
  <2>1. blocks[b].offset \in InstructionsOf(b)
    BY BlockTransfers
  <2>2. PICK d \in K : blocks[b].offset \in InstructionsOf(d)
    BY <1>6, <1>11, <2>1
  <2>3. b = d
    BY <1>9, <2>1, <2>2, BlocksApart
  <2> QED
    BY <2>3
<1>13. \A b \in Nodes : Around(succ, b) = K
  BY <1>1, <1>12, AroundSymmetric DEF K
<1>14. {Around(succ, b) : b \in DOMAIN succ} = {K}
  BY <1>1, <1>3, <1>13
<1>15. Cardinality({Around(succ, b) : b \in DOMAIN succ}) = 1
  BY <1>14, FS_Singleton
<1> QED
  BY <1>1, <1>5, <1>8, <1>15

LEMMA GraphResult == ASSUME GraphInv, ComponentInv PROVE GraphIsExact
<1>1. BlocksInOrder
  <2>1. blocks = <<>> \/ (BlocksFor(code, blocks))
    BY DEF GraphInv, Building, Built, ComponentInv, Early
  <2>2. CASE blocks = <<>>
    <3>1. Nodes = {}
      BY <2>2 DEF Nodes
    <3> QED
      BY <3>1 DEF BlocksInOrder
  <2>3. CASE BlocksFor(code, blocks)
    <3>1. Nodes = 1..Len(blocks)
      BY <2>3, UptoFacts DEF Nodes
    <3> QED
      BY <2>3, <3>1 DEF BlocksInOrder, BlocksFor, InOrder
  <2> QED
    BY <2>1, <2>2, <2>3
<1>2. SUFFICES ASSUME phase = "done" PROVE EdgesAreTransfers /\ OkIsExact /\ PredecessorsInvert
  BY <1>1 DEF GraphIsExact, EdgesAreTransfers, OkIsExact, PredecessorsInvert
<1>3. CASE status # "Ok" /\ blocks = <<>> /\ succ = <<>>
  <2>1. Nodes = {} /\ DOMAIN succ = {}
    BY <1>3 DEF Nodes
  <2> QED
    BY <1>3, <2>1 DEF EdgesAreTransfers, OkIsExact, PredecessorsInvert
<1>4. CASE Built /\ Edged
  <2>1. ASSUME NEW b \in Nodes
        PROVE  /\ InstructionsOf(b) \subseteq Reachable
               /\ Cardinality(InstructionsOf(b)) = blocks[b].instructions
               /\ \A d \in SuccessorSet(b) : blocks[d].offset \in TransfersTo(LastOf(b))
    BY <1>4, BlockTransfers
  <2>2. EdgesAreTransfers
    BY <2>1 DEF EdgesAreTransfers
  <2>3. ASSUME status = "Ok", count.overlapping = 0
        PROVE  /\ UNION {InstructionsOf(b) : b \in Nodes} = Reachable
               /\ count.dropped = 0
               /\ \A b \in Nodes : TransfersTo(LastOf(b)) = {blocks[d].offset : d \in SuccessorSet(b)}
               /\ count.components = 1
    <3>1. count.components = Cardinality({Around(succ, b) : b \in DOMAIN succ})
      BY <1>2, <2>3 DEF ComponentInv
    <3> QED
      BY <1>4, <2>3, <3>1, OkResult
  <2>4. OkIsExact
    BY <2>3 DEF OkIsExact
  <2>5. ASSUME NEW a \in DOMAIN succ, NEW b \in DOMAIN succ
        PROVE  b \in SuccessorSet(a) <=> \E k \in DOMAIN pred[b] : pred[b][k] = a
    <3>1. Members(pred[b]) = {x \in DOMAIN succ : b \in SetOfSuccessors(succ, x)}
      BY <1>4 DEF Edged, Turned
    <3>2. a \in Members(pred[b]) <=> \E k \in DOMAIN pred[b] : pred[b][k] = a
      BY DEF Members
    <3>3. SuccessorSet(a) = SetOfSuccessors(succ, a)
      BY DEF SuccessorSet, SetOfSuccessors
    <3> QED
      BY <3>1, <3>2, <3>3
  <2>6. PredecessorsInvert
    BY <2>5 DEF PredecessorsInvert
  <2> QED
    BY <2>2, <2>4, <2>6
<1> QED
  BY <1>2, <1>3, <1>4 DEF GraphInv

\* The graph is what the code says, for every code range and every limit: the
\* blocks are in order and share no byte; they hold reachable instructions only,
\* as many as InstructionCount says, and every edge is a transfer of control the
\* last instruction of its block makes, also when leaders overlap, a decode
\* window cut an instruction or a limit stopped the scan; the predecessors are
\* the successors turned round; and a scan that reports Ok and no overlapping
\* leader has every reachable instruction in a block, no dropped edge, every
\* transfer between blocks as an edge, and one connected component.
THEOREM GraphExact == Spec => []GraphIsExact
<1>1. Init => GraphInv /\ ComponentInv
  BY GraphBegins, ComponentBegins
<1>2. GraphInv /\ ComponentInv /\ [Next]_vars => GraphInv' /\ ComponentInv'
  BY GraphStep, ComponentStep
<1>3. GraphInv /\ ComponentInv => GraphIsExact
  BY GraphResult
<1> QED
  BY <1>1, <1>2, <1>3, PTL DEF Spec
=============================================================================
