---------------------------- MODULE PipelineProofs ----------------------------
(***************************************************************************)
(* A diff that is killed and resumed any number of times writes what an    *)
(* uninterrupted one writes, for every set of inputs and every course the  *)
(* convergence loop takes: proofs of the invariants of Pipeline and of the *)
(* refinement of UninterruptedDiff.                                        *)
(*                                                                         *)
(* The argument: a run is at all times at one position of the course of    *)
(* diff() for its inputs.  The cursor determines this position (Pos), and  *)
(* the position determines the whole engine (EngineAt) and the rest of the *)
(* cursor (CursorAt).  A resumed run first walks through the code without  *)
(* moving (Skipping), until the next step of the code is the one that      *)
(* follows its position (Live); from there on code and position move       *)
(* together.                                                               *)
(***************************************************************************)
EXTENDS Pipeline, TLAPS, WellFoundedInduction, SequenceTheorems

R(i) == Uninterrupted!Rounds(i)

\* Step s of iteration k is one that diff() of the inputs i comes to.
StepOf(i, s, k) == \/ s \in 1..3 /\ k = 0
                   \/ s = 4 /\ k = 0 /\ i \in Skips
                   \/ s \in 5..7 /\ k = 0 /\ i \notin Skips
                   \/ s \in 8..13 /\ k \in 0..(R(i) - 1) /\ i \notin Skips
                   \/ s \in 14..15 /\ k = 0

\* Its position in the course.
Pos(i, s, k) == IF i \in Skips THEN (IF s <= 4 THEN s ELSE s - 9)
                ELSE IF s <= 3 THEN s
                ELSE IF s <= 7 THEN s - 1
                ELSE IF s <= 13 THEN 6 * k + s - 1
                ELSE 6 * R(i) + s - 7

Last(i) == Pos(i, FindUnmatched, 0)

\* Step t of iteration l comes next after step s of iteration k.
Follows(i, s, k, t, l) == StepOf(i, s, k) /\ StepOf(i, t, l) /\ Pos(i, t, l) = Pos(i, s, k) + 1

\* The cleanups of the loop that have run after step s of iteration k, and the total at the top of the
\* iteration that began last.
CleanupsAt(i, s, k) == IF s <= 7 \/ i \in Skips THEN 0
                       ELSE IF s <= 12 THEN 2 * k + 1
                       ELSE IF s = 13 THEN 2 * k + 2 ELSE 2 * R(i)

OldTotalAt(i, s, k) == IF s <= 7 \/ i \in Skips THEN 0
                       ELSE IF s <= 13 THEN Uninterrupted!TotalAfter(i, 2 * k + 1)
                       ELSE Uninterrupted!TotalAfter(i, 2 * R(i) - 1)

\* The first n steps of the course.
Path(i, n) == SubSeq(Uninterrupted!Work(i), 1, n)

EngineAt(i, s, k, prepared) ==
  [work |-> Path(i, Pos(i, s, k)),
   cleanups |-> CleanupsAt(i, s, k),
   cache |-> Pos(i, s, k),
   choosers |-> IF s >= FinalPass THEN Path(i, Last(i) - 1) ELSE <<>>,
   unmatched |-> IF s >= FindUnmatched THEN Path(i, Last(i)) ELSE <<>>,
   prepared |-> prepared]

\* The engine before Prepare has run, which is also what a checkpoint holds of it, and after.
SavedAt(i, s, k) == EngineAt(i, s, k, FALSE)
ReadyAt(i, s, k) == EngineAt(i, s, k, TRUE)

SkipAt(i, s) == s >= DirtyHeuristics /\ i \in Skips

CursorAt(i, s, k) == [done |-> s, iteration |-> k, skip |-> SkipAt(i, s), oldTotal |-> OldTotalAt(i, s, k)]

\* A checkpoint is the engine at the position of its cursor.
Sound(c) == \/ c \in {NoCheckpoint, Damaged}
            \/ LET s == c.cursor.done
                   k == c.cursor.iteration
               IN  /\ c.binding \in Usable /\ StepOf(c.binding, s, k)
                   /\ c = [binding |-> c.binding, cursor |-> CursorAt(c.binding, s, k),
                           saved |-> SavedAt(c.binding, s, k)]

-----------------------------------------------------------------------------
(* The inductive invariant *)

StoreInv == Sound(cell) /\ Sound(safe)

\* The cursor is at a step of the course, and the engine is what this step leaves.
Positioned == /\ StepOf(inputs, cursor.done, cursor.iteration)
              /\ cursor = CursorAt(inputs, cursor.done, cursor.iteration)
              /\ IF pc > DirtyHeuristics THEN eng = ReadyAt(inputs, cursor.done, cursor.iteration)
                 ELSE eng = SavedAt(inputs, cursor.done, cursor.iteration)

Here == Pos(inputs, cursor.done, cursor.iteration)

\* Where the run started, if it was resumed.
Behind == resume # NoCursor => /\ StepOf(inputs, resume.done, resume.iteration)
                               /\ Pos(inputs, resume.done, resume.iteration) <= Here

\* The code has not reached the position of the checkpoint yet: it leaves out this step.
Skipping == /\ resume = cursor
            /\ pc <= cursor.done
            /\ pc \in LoopCleanupTop..LoopCleanupBottom =>
                 /\ cursor.done <= LoopCleanupBottom
                 /\ loopDone = cursor.done /\ iteration = cursor.iteration
                 /\ oldTotal = cursor.oldTotal

\* The next step of the code is the one that follows the position.
Live == /\ resume # NoCursor => resume.done < pc \/ pc \in LoopCleanupTop..LoopCleanupBottom
        /\ LET k == IF pc = FinalPass THEN 0 ELSE iteration
           IN  StepOf(inputs, pc, k) /\ Pos(inputs, pc, k) = Here + 1
        /\ pc \in LoopCleanupTop..LoopCleanupBottom => loopDone < pc
        /\ pc \in MatchesDiffing..LoopCleanupBottom => oldTotal = cursor.oldTotal

\* What holds of a run between two steps of diff().
AtStep == /\ inputs \in Usable
          /\ Positioned
          /\ Behind
          /\ Skipping \/ Live
          /\ pc = DirtyHeuristics => skipOthers = cursor.skip
          /\ pc > DirtyHeuristics => skipOthers = (inputs \in Skips)
          /\ pc = RemainingFunctions => inputs \in Skips
          /\ pc \in BestCategory..LoopCleanupBottom => inputs \notin Skips
          /\ pc \notin LoopCleanupTop..FinalPass => iteration = 0

RunInv == /\ pc = Down => iteration = 0 /\ resume = NoCursor
          /\ pc = EqualMatches => /\ inputs \in Usable
                                  /\ resume = NoCursor /\ cursor = StartCursor /\ eng = FreshEngine
                                  /\ iteration = 0
          /\ pc \in DirtyHeuristics..FindUnmatched => AtStep
          /\ pc \in {WritingResults, RemovingCheckpoint} => /\ Results(eng) = Uninterrupted!ResultOf(inputs)
                                                            /\ Len(eng.work) \in Nat

IInv == /\ inputs \in Inputs
        /\ pc \in EqualMatches..Down
        /\ iteration \in Nat
        /\ loopDone \in None..FindUnmatched
        /\ StoreInv
        /\ RunInv

-----------------------------------------------------------------------------
(* The course of diff() *)

\* Every non-empty set of natural numbers has a least element.
LEMMA LeastNatural == ASSUME NEW S \in SUBSET Nat, S # {}
                      PROVE  \E m \in S : \A x \in S : m <= x
<1> DEFINE Less == {p \in Nat \X Nat : p[1] < p[2]}
<1>1. IsWellFoundedOn(Less, Nat)
  BY NatLessThanWellFounded DEF OpToRel
<1> HIDE DEF Less
<1>2. PICK m \in S : \A y \in S : ~ (<<y, m>> \in Less)
  BY <1>1, WFMin
<1>3. ASSUME NEW x \in S PROVE m <= x
  <2>1. ~(<<x, m>> \in Less)
    BY <1>2
  <2>2. x \in Nat /\ m \in Nat
    OBVIOUS
  <2> QED
    BY <2>1, <2>2 DEF Less
<1> QED
  BY <1>3

\* The loop of diff() ends: Rounds chooses the first iteration that matches no more than it began with,
\* and there is one, since the totals settle.
LEMMA RoundsAre == ASSUME NEW i \in Inputs
                   PROVE  /\ R(i) \in Nat /\ R(i) >= 1
                          /\ Uninterrupted!TotalAfter(i, 2 * R(i)) <= Uninterrupted!TotalAfter(i, 2 * R(i) - 1)
                          /\ \A k \in 1..(R(i) - 1) :
                               Uninterrupted!TotalAfter(i, 2 * k) > Uninterrupted!TotalAfter(i, 2 * k - 1)
<1> DEFINE T(n) == Uninterrupted!TotalAfter(i, n)
           L == Len(Totals[i])
           S == {r \in Nat : r >= 1 /\ T(2 * r) <= T(2 * r - 1)}
           Good(r) == T(2 * r) <= T(2 * r - 1) /\ \A k \in 1..(r - 1) : T(2 * k) > T(2 * k - 1)
<1>1. L \in Nat /\ L >= 1
  BY EmptySeq, LenProperties, PipelineConstants
<1>2. ASSUME NEW n \in Nat, n >= 1 PROVE T(n) \in Nat
  BY <1>1, <1>2, ElementOfSeq, PipelineConstants DEF Uninterrupted!TotalAfter
<1>3. T(2 * L) = T(2 * L - 1)
  BY <1>1 DEF Uninterrupted!TotalAfter
<1>4. L \in S
  BY <1>1, <1>2, <1>3
<1> HIDE DEF T, L
<1>5. PICK m \in S : \A x \in S : m <= x
  BY <1>4, LeastNatural
<1>6. m \in 1..L /\ Good(m)
  <2>1. m \in 1..L
    BY <1>1, <1>4, <1>5
  <2>2. ASSUME NEW k \in 1..(m - 1) PROVE T(2 * k) > T(2 * k - 1)
    <3>1. k \notin S /\ k \in Nat /\ k >= 1
      BY <1>5
    <3>2. T(2 * k) \in Nat /\ T(2 * k - 1) \in Nat
      BY <3>1, <1>2
    <3> QED
      BY <3>1, <3>2
  <2> QED
    BY <2>1, <2>2, <1>5
<1>7. R(i) = CHOOSE r \in 1..L : Good(r)
  BY DEF R, Uninterrupted!Rounds, T, L
<1>8. R(i) \in 1..L /\ Good(R(i))
  BY <1>6, <1>7
<1> QED
  BY <1>1, <1>8 DEF T

\* A function on an initial segment of the numbers is a sequence.
LEMMA FunctionSeq == ASSUME NEW V, NEW m \in Nat, NEW f \in [1..m -> V]
                     PROVE  f \in Seq(V) /\ Len(f) = m
<1>1. f \in Seq(V)
  BY SeqDef
<1>2. Len(f) \in Nat /\ DOMAIN f = 1..Len(f)
  BY <1>1, LenProperties
<1> QED
  BY <1>1, <1>2

\* The course of diff(), step by step: each step is where Pos says.
LEMMA CourseAt == ASSUME NEW i \in Inputs
                  PROVE  /\ Len(Uninterrupted!Course(i)) = Last(i)
                         /\ \A s, k : StepOf(i, s, k) => /\ Pos(i, s, k) \in 1..Last(i)
                                                         /\ Uninterrupted!Course(i)[Pos(i, s, k)] = <<s, k>>
<1> DEFINE B == Uninterrupted!BeforeLoop(i)
           F == [n \in 1..Len(B) |-> <<B[n], 0>>]
           P == Uninterrupted!Loop(i)
           E == <<<<14, 0>>, <<15, 0>>>>
           V == Nat \X Nat
           FP == F \o P
           C == FP \o E
<1>1. R(i) \in Nat /\ R(i) >= 1
  BY RoundsAre
<1>2. Uninterrupted!Course(i) = C
  BY DEF Uninterrupted!Course
<1>3. E \in Seq(V)
  OBVIOUS
<1>a. Len(E) = 2 /\ E[1] = <<14, 0>> /\ E[2] = <<15, 0>>
  OBVIOUS
<1>b. FP = F \o P /\ C = FP \o E
  OBVIOUS
<1>c. \A x, y \in Nat : <<x, y>> \in V
  OBVIOUS
<1> HIDE DEF V, E, C, FP
<1>5. CASE i \in Skips
  <2>1. B = <<1, 2, 3, 4>> /\ P = <<>>
    BY <1>5 DEF Uninterrupted!BeforeLoop, Uninterrupted!Loop
  <2>2. Len(B) = 4 /\ B[1] = 1 /\ B[2] = 2 /\ B[3] = 3 /\ B[4] = 4
    BY <2>1
  <2> HIDE DEF B
  <2>3. F = [n \in 1..4 |-> <<n, 0>>]
    BY <2>2
  <2>4. F \in [1..4 -> V]
    BY <1>c, <2>3
  <2> HIDE DEF F, P
  <2>5. F \in Seq(V) /\ Len(F) = 4
    BY <2>4, FunctionSeq
  <2>a. F \in Seq(V)
    BY <2>5
  <2>6. FP = F
    BY <1>b, <2>1, <2>a, ConcatEmptySeq
  <2>7. Len(C) = 6 /\ \A n \in 1..6 : C[n] = IF n <= 4 THEN F[n] ELSE E[n - 4]
    <3>0. C = F \o E
      BY <1>b, <2>6
    <3>1. Len(C) = Len(F) + Len(E)
          /\ \A n \in 1..(Len(F) + Len(E)) : C[n] = IF n <= Len(F) THEN F[n] ELSE E[n - Len(F)]
      BY <1>3, <2>a, <3>0, ConcatProperties, Zenon
    <3> QED
      BY <1>a, <2>5, <3>1
  <2>8. Last(i) = 6
    BY <1>5 DEF Last, Pos, FindUnmatched
  <2>9. ASSUME NEW s, NEW k, StepOf(i, s, k)
        PROVE  Pos(i, s, k) \in 1..6 /\ C[Pos(i, s, k)] = <<s, k>>
    <3>1. CASE s \in 1..4 /\ k = 0
      BY <1>5, <2>3, <2>7, <3>1 DEF Pos
    <3>2. CASE s \in 14..15 /\ k = 0
      BY <1>a, <1>5, <2>7, <3>2 DEF Pos
    <3> QED
      BY <1>5, <2>9, <3>1, <3>2 DEF StepOf
  <2> QED
    BY <1>2, <2>7, <2>8, <2>9
<1>6. CASE i \notin Skips
  <2>1. B = <<1, 2, 3, 5, 6, 7>> /\ P = [n \in 1..(6 * R(i)) |-> <<8 + ((n - 1) % 6), (n - 1) \div 6>>]
    BY <1>6 DEF Uninterrupted!BeforeLoop, Uninterrupted!Loop, R
  <2>2. Len(B) = 6 /\ \A n \in 1..6 : B[n] = IF n <= 3 THEN n ELSE n + 1
    BY <2>1
  <2> HIDE DEF B
  <2>3. F = [n \in 1..6 |-> <<IF n <= 3 THEN n ELSE n + 1, 0>>]
    BY <2>2
  <2>4. F \in [1..6 -> V]
    BY <1>c, <2>3
  <2> HIDE DEF F, P
  <2>5. F \in Seq(V) /\ Len(F) = 6
    BY <2>4, FunctionSeq
  <2>6. P \in Seq(V) /\ Len(P) = 6 * R(i)
    <3>1. \A n \in 1..(6 * R(i)) : <<8 + ((n - 1) % 6), (n - 1) \div 6>> \in V
      BY <1>1, <1>c
    <3>2. P \in [1..(6 * R(i)) -> V] /\ 6 * R(i) \in Nat
      BY <1>1, <2>1, <3>1
    <3> QED
      BY <3>2, FunctionSeq
  <2>a. F \in Seq(V) /\ P \in Seq(V)
    BY <2>5, <2>6
  <2>7. ASSUME NEW s \in 8..13, NEW k \in 0..(R(i) - 1)
        PROVE  6 * k + s - 7 \in 1..(6 * R(i)) /\ P[6 * k + s - 7] = <<s, k>>
    <3> DEFINE n == 6 * k + s - 7
    <3>1. n \in 1..(6 * R(i))
      BY <1>1
    <3>2. (n - 1) % 6 = s - 8 /\ (n - 1) \div 6 = k
      BY <1>1
    <3>3. 8 + (s - 8) = s
      OBVIOUS
    <3> HIDE DEF n
    <3>4. P[n] = <<8 + (s - 8), k>>
      BY <2>1, <3>1, <3>2
    <3> QED
      BY <3>1, <3>3, <3>4 DEF n
  <2>8. /\ FP \in Seq(V) /\ Len(FP) = 6 + 6 * R(i)
        /\ \A n \in 1..(6 + 6 * R(i)) : FP[n] = IF n <= 6 THEN F[n] ELSE P[n - 6]
    <3>1. /\ FP \in Seq(V) /\ Len(FP) = Len(F) + Len(P)
          /\ \A n \in 1..(Len(F) + Len(P)) : FP[n] = IF n <= Len(F) THEN F[n] ELSE P[n - Len(F)]
      BY <1>b, <2>a, ConcatProperties, Zenon
    <3> QED
      BY <1>1, <2>5, <2>6, <3>1
  <2>9. /\ Len(C) = 6 + 6 * R(i) + 2
        /\ \A n \in 1..(6 + 6 * R(i) + 2) :
             C[n] = IF n <= 6 + 6 * R(i) THEN FP[n] ELSE E[n - (6 + 6 * R(i))]
    <3>0. C = FP \o E
      BY <1>b
    <3>1. FP \in Seq(V)
      BY <2>8
    <3>2. /\ Len(C) = Len(FP) + Len(E)
          /\ \A n \in 1..(Len(FP) + Len(E)) : C[n] = IF n <= Len(FP) THEN FP[n] ELSE E[n - Len(FP)]
      BY <1>3, <3>0, <3>1, ConcatProperties, Zenon
    <3> QED
      BY <1>1, <1>a, <2>8, <3>2
  <2>10. Last(i) = 6 + 6 * R(i) + 2
    BY <1>1, <1>6 DEF Last, Pos, FindUnmatched
  <2>11. ASSUME NEW s, NEW k, StepOf(i, s, k)
         PROVE  Pos(i, s, k) \in 1..Last(i) /\ C[Pos(i, s, k)] = <<s, k>>
    <3>1. CASE s \in 8..13 /\ k \in 0..(R(i) - 1)
      <4> DEFINE n == 6 * k + s - 1
      <4>1. Pos(i, s, k) = n
        BY <1>6, <3>1 DEF Pos
      <4>2. 6 * k + s - 7 \in 1..(6 * R(i)) /\ P[6 * k + s - 7] = <<s, k>>
        BY <2>7, <3>1
      <4>3. /\ n \in 1..(6 + 6 * R(i)) /\ ~(n <= 6) /\ n - 6 = 6 * k + s - 7
            /\ n \in 1..(6 + 6 * R(i) + 2) /\ n <= 6 + 6 * R(i)
        BY <1>1, <3>1
      <4> HIDE DEF n
      <4>4. FP[n] = P[n - 6]
        BY <2>8, <4>3
      <4>5. C[n] = FP[n]
        BY <2>9, <4>3
      <4> QED
        BY <2>10, <4>1, <4>2, <4>3, <4>4, <4>5
    <3>2. CASE s \in (1..3) \cup (5..7) /\ k = 0
      <4>1. Pos(i, s, k) = IF s <= 3 THEN s ELSE s - 1
        BY <1>6, <3>2 DEF Pos
      <4>2. Pos(i, s, k) \in 1..6 /\ F[Pos(i, s, k)] = <<s, k>>
        BY <2>3, <3>2, <4>1
      <4>3. ASSUME NEW n \in 1..6 PROVE n \in 1..Last(i) /\ C[n] = F[n]
        <5>1. n \in 1..(6 + 6 * R(i)) /\ n \in 1..(6 + 6 * R(i) + 2) /\ n <= 6 + 6 * R(i)
          BY <1>1
        <5>2. C[n] = FP[n] /\ FP[n] = F[n]
          BY <2>8, <2>9, <5>1
        <5> QED
          BY <2>10, <5>1, <5>2
      <4> QED
        BY <4>2, <4>3
    <3>3. CASE s \in 14..15 /\ k = 0
      <4>1. Pos(i, s, k) = 6 * R(i) + s - 7
        BY <1>6, <3>3 DEF Pos
      <4>2. 6 * R(i) + s - 7 \in 1..(6 + 6 * R(i) + 2) /\ 6 * R(i) + s - 7 - (6 + 6 * R(i)) = s - 13
            /\ ~(6 * R(i) + s - 7 <= 6 + 6 * R(i))
        BY <1>1, <3>3
      <4>3. E[s - 13] = <<s, k>>
        BY <1>a, <3>3
      <4> QED
        BY <1>1, <2>9, <2>10, <3>3, <4>1, <4>2, <4>3
    <3> QED
      BY <1>6, <2>11, <3>1, <3>2, <3>3 DEF StepOf
  <2> QED
    BY <1>2, <2>9, <2>10, <2>11
<1> QED
  BY <1>5, <1>6

\* What each step of the course finds.
LEMMA WorkAt == ASSUME NEW i \in Inputs
                PROVE  /\ Last(i) \in Nat
                       /\ \E V : Uninterrupted!Work(i) \in Seq(V)
                       /\ Len(Uninterrupted!Work(i)) = Last(i)
                       /\ \A s, k : StepOf(i, s, k) =>
                            Uninterrupted!Work(i)[Pos(i, s, k)] = <<s, k, Pos(i, s, k) - 1, Pos(i, s, k) > 1>>
<1> DEFINE W == Uninterrupted!Work(i)
           C == Uninterrupted!Course(i)
           L == Last(i)
           V == {W[n] : n \in 1..L}
<1>1. L \in Nat
  BY RoundsAre DEF Last, Pos, FindUnmatched
<1>2. W = [n \in 1..L |-> <<C[n][1], C[n][2], n - 1, n > 1>>]
  BY CourseAt DEF Uninterrupted!Work
<1> HIDE DEF W, C, L
<1>3. W \in [1..L -> V]
  BY <1>2
<1> HIDE DEF V
<1>4. W \in Seq(V) /\ Len(W) = L
  BY <1>1, <1>3, FunctionSeq
<1>5. ASSUME NEW s, NEW k, StepOf(i, s, k)
      PROVE  W[Pos(i, s, k)] = <<s, k, Pos(i, s, k) - 1, Pos(i, s, k) > 1>>
  <2> DEFINE n == Pos(i, s, k)
  <2>1. n \in 1..L /\ C[n] = <<s, k>>
    BY <1>5, CourseAt DEF C, L
  <2> HIDE DEF n
  <2>2. W[n] = <<C[n][1], C[n][2], n - 1, n > 1>>
    BY <1>2, <2>1
  <2> QED
    BY <2>1, <2>2 DEF n
<1> QED
  BY <1>1, <1>4, <1>5 DEF W, L

\* A path grows by one step at a time.
LEMMA PathStep == ASSUME NEW i \in Inputs, NEW n \in Nat, n < Last(i)
                  PROVE  Append(Path(i, n), Uninterrupted!Work(i)[n + 1]) = Path(i, n + 1)
<1> DEFINE W == Uninterrupted!Work(i)
<1>1. PICK V : W \in Seq(V)
  BY WorkAt
<1>2. Last(i) \in Nat /\ Len(W) = Last(i)
  BY WorkAt
<1> HIDE DEF W
<1>3. n + 1 \in 1..Len(W) /\ 1 \in 1..Len(W) /\ n + 1 - 1 = n
  BY <1>2
<1>4. SubSeq(W, 1, n + 1) = SubSeq(W, 1, n) \o <<W[n + 1]>>
  <2>1. SubSeq(W, 1, n + 1) = SubSeq(W, 1, n + 1 - 1) \o <<W[n + 1]>>
    BY <1>1, <1>3, SubSeqRecursiveSecond
  <2> QED
    BY <1>3, <2>1
<1>5. SubSeq(W, 1, n) \in Seq(V)
  <2>1. \A j \in 1..n : W[j] \in V
    BY <1>1, <1>2, ElementOfSeq
  <2> QED
    BY <2>1, SubSeqProperties
<1>6. Append(SubSeq(W, 1, n), W[n + 1]) = SubSeq(W, 1, n) \o <<W[n + 1]>>
  <2>1. W[n + 1] \in V
    BY <1>1, <1>3, ElementOfSeq
  <2> QED
    BY <1>5, <2>1, AppendIsConcat
<1> QED
  BY <1>4, <1>6 DEF Path, W

\* The length of a path, and the path of no steps.
LEMMA PathLen == ASSUME NEW i \in Inputs, NEW n \in Nat, n <= Last(i)
                 PROVE  Len(Path(i, n)) = n /\ Path(i, 0) = <<>>
<1> DEFINE W == Uninterrupted!Work(i)
<1>1. PICK V : W \in Seq(V)
  BY WorkAt
<1>2. Last(i) \in Nat /\ Len(W) = Last(i)
  BY WorkAt
<1> HIDE DEF W
<1>3. \A j \in 1..n : W[j] \in V
  BY <1>1, <1>2, ElementOfSeq
<1>4. Len(SubSeq(W, 1, n)) = IF 1 <= n THEN n - 1 + 1 ELSE 0
  BY <1>3, SubSeqProperties
<1>5. SubSeq(W, 1, 0) = <<>>
  BY SubSeqEmpty
<1> QED
  BY <1>4, <1>5 DEF Path, W

-----------------------------------------------------------------------------
(* The engine along the course *)

\* Positions are where the steps are, and steps are ordered as their positions are.
LEMMA PosOf == ASSUME NEW i \in Inputs, NEW s, NEW k, StepOf(i, s, k)
               PROVE  /\ s \in 1..15 /\ k \in Nat
                      /\ Pos(i, s, k) \in 1..Last(i) /\ Last(i) \in Nat
                      /\ s >= 14 <=> Pos(i, s, k) >= Last(i) - 1
                      /\ s = 15 <=> Pos(i, s, k) = Last(i)
                      /\ Last(i) - 1 = Pos(i, 14, 0)
<1>1. R(i) \in Nat /\ R(i) >= 1
  BY RoundsAre
<1>2. s \in 1..15 /\ k \in Nat
  BY <1>1 DEF StepOf
<1>3. Pos(i, s, k) \in 1..Last(i) /\ Last(i) \in Nat
  BY CourseAt, WorkAt
<1> QED
  BY <1>1, <1>2, <1>3 DEF StepOf, Pos, Last, FindUnmatched

\* The engine after the first step.
LEMMA FirstStep == ASSUME NEW i \in Inputs
                   PROVE  Ran(FreshEngine, EqualMatches, 0) = SavedAt(i, EqualMatches, 0)
<1>1. StepOf(i, 1, 0) /\ Pos(i, 1, 0) = 1
  BY DEF StepOf, Pos
<1>2. 1 < Last(i) /\ Last(i) \in Nat
  BY <1>1, PosOf
<1>3. Uninterrupted!Work(i)[1] = <<1, 0, 0, FALSE>>
  <2>1. Uninterrupted!Work(i)[1] = <<1, 0, 1 - 1, 1 > 1>>
    BY <1>1, WorkAt
  <2>2. 1 - 1 = 0 /\ (1 > 1) = FALSE
    OBVIOUS
  <2> QED
    BY <2>1, <2>2
<1>4. Append(<<>>, <<1, 0, 0, FALSE>>) = Path(i, 1)
  <2>0. 0 + 1 = 1
    OBVIOUS
  <2>1. Append(Path(i, 0), Uninterrupted!Work(i)[1]) = Path(i, 1)
    BY <1>2, <2>0, PathStep
  <2>2. Path(i, 0) = <<>>
    BY <1>2, PathLen
  <2> QED
    BY <1>3, <2>1, <2>2
<1> DEFINE w == Append(<<>>, <<1, 0, 0, FALSE>>)
<1>5. Ran(FreshEngine, EqualMatches, 0) =
        [work |-> w, cleanups |-> 0, cache |-> 1, choosers |-> <<>>, unmatched |-> <<>>, prepared |-> FALSE]
  BY DEF Ran, FreshEngine, EqualMatches, LoopCleanupTop, LoopCleanupBottom, FinalPass, FindUnmatched
<1> HIDE DEF w
<1>6. w = Path(i, 1)
  BY <1>4 DEF w
<1>7. SavedAt(i, EqualMatches, 0) =
        [work |-> Path(i, 1), cleanups |-> 0, cache |-> 1, choosers |-> <<>>, unmatched |-> <<>>,
         prepared |-> FALSE]
  <2>1. CleanupsAt(i, 1, 0) = 0 /\ ~(1 >= 14) /\ ~(1 >= 15)
    BY DEF CleanupsAt
  <2> QED
    BY <1>1, <2>1, Zenon DEF SavedAt, ReadyAt, EngineAt, EqualMatches, FinalPass, FindUnmatched
<1> QED
  BY <1>5, <1>6, <1>7

\* The engine after every other step, from the engine after the step before it.
LEMMA NextStep == ASSUME NEW i \in Inputs, NEW s, NEW k, NEW t, NEW l, Follows(i, s, k, t, l)
                  PROVE  Ran(ReadyAt(i, s, k), t, l) = ReadyAt(i, t, l)
<1>0. StepOf(i, s, k) /\ StepOf(i, t, l) /\ Pos(i, t, l) = Pos(i, s, k) + 1
  BY DEF Follows
<1> DEFINE n == Pos(i, s, k)
           e == ReadyAt(i, s, k)
           w == Append(e.work, <<t, l, e.cache, e.prepared>>)
<1>1. n \in Nat /\ n >= 1 /\ n < Last(i) /\ Last(i) \in Nat /\ s \in 1..15 /\ t \in 1..15 /\ k \in Nat /\ l \in Nat
  BY <1>0, PosOf
<1>2. Uninterrupted!Work(i)[n + 1] = <<t, l, n, TRUE>>
  <2>0. Uninterrupted!Work(i)[Pos(i, t, l)] = <<t, l, Pos(i, t, l) - 1, Pos(i, t, l) > 1>>
    BY <1>0, WorkAt
  <2>1. Pos(i, t, l) = n + 1 /\ Pos(i, t, l) - 1 = n /\ (Pos(i, t, l) > 1) = TRUE
    BY <1>0, <1>1
  <2> QED
    BY <2>0, <2>1
<1>3. e.work = Path(i, n) /\ e.cache = n /\ e.prepared = TRUE
  BY DEF SavedAt, ReadyAt, EngineAt
<1>4. w = Path(i, n + 1)
  BY <1>1, <1>2, <1>3, PathStep
<1>5. t = 14 => n + 1 = Last(i) - 1 /\ s < 14
  BY <1>0, <1>1, PosOf, RoundsAre DEF StepOf, Pos, Last, FindUnmatched
<1>6. t = 15 => n + 1 = Last(i) /\ s = 14
  BY <1>0, <1>1, PosOf, RoundsAre DEF StepOf, Pos, Last, FindUnmatched
<1>7. t < 14 => s < 14
  BY <1>0, <1>1, PosOf, RoundsAre DEF StepOf, Pos, Last, FindUnmatched
<1>8. CleanupsAt(i, t, l) = IF t \in {8, 13} THEN CleanupsAt(i, s, k) + 1 ELSE CleanupsAt(i, s, k)
  BY <1>0, <1>1, RoundsAre DEF StepOf, Pos, CleanupsAt
<1>9. Ran(e, t, l) = [work |-> w,
                      cleanups |-> IF t \in {8, 13} THEN CleanupsAt(i, s, k) + 1 ELSE CleanupsAt(i, s, k),
                      cache |-> n + 1,
                      choosers |-> IF t = 14 THEN w ELSE e.choosers,
                      unmatched |-> IF t = 15 THEN w ELSE e.unmatched,
                      prepared |-> TRUE]
  BY DEF Ran, ReadyAt, EngineAt, LoopCleanupTop, LoopCleanupBottom, FinalPass, FindUnmatched
<1>10. e.choosers = (IF s >= 14 THEN Path(i, Last(i) - 1) ELSE <<>>)
       /\ e.unmatched = (IF s >= 15 THEN Path(i, Last(i)) ELSE <<>>)
  BY DEF SavedAt, ReadyAt, EngineAt, FinalPass, FindUnmatched
<1> HIDE DEF n, w, e
<1>11. (IF t = 14 THEN w ELSE e.choosers) = IF t >= 14 THEN Path(i, Last(i) - 1) ELSE <<>>
  BY <1>0, <1>1, <1>4, <1>5, <1>6, <1>7, <1>10
<1>12. (IF t = 15 THEN w ELSE e.unmatched) = IF t >= 15 THEN Path(i, Last(i)) ELSE <<>>
  BY <1>0, <1>1, <1>4, <1>5, <1>6, <1>7, <1>10
<1>13. ReadyAt(i, t, l) =
         [work |-> Path(i, n + 1), cleanups |-> CleanupsAt(i, t, l), cache |-> n + 1,
          choosers |-> IF t >= 14 THEN Path(i, Last(i) - 1) ELSE <<>>,
          unmatched |-> IF t >= 15 THEN Path(i, Last(i)) ELSE <<>>,
          prepared |-> TRUE]
  BY <1>0 DEF ReadyAt, EngineAt, n, FinalPass, FindUnmatched
<1> QED
  BY <1>4, <1>8, <1>9, <1>11, <1>12, <1>13 DEF e

\* Prepare changes nothing that a checkpoint holds, and a checkpoint holds everything else.
LEMMA SavedEngine == ASSUME NEW i \in Inputs, NEW s, NEW k, StepOf(i, s, k),
                            NEW e, e = SavedAt(i, s, k) \/ e = ReadyAt(i, s, k)
                     PROVE  /\ Prepared(e) = ReadyAt(i, s, k)
                            /\ Captured(e, CursorAt(i, s, k)) = SavedAt(i, s, k)
<1>1. s \in 1..15
  BY PosOf
<1>2. PICK p \in BOOLEAN : e = EngineAt(i, s, k, p)
  BY DEF SavedAt, ReadyAt
<1>3. Prepared(e) = ReadyAt(i, s, k)
  BY <1>2 DEF Prepared, ReadyAt, EngineAt
<1>4. Captured(e, CursorAt(i, s, k)) = SavedAt(i, s, k)
  BY <1>1, <1>2 DEF Captured, SavedAt, EngineAt, CursorAt, FinalPass, FindUnmatched
<1> QED
  BY <1>3, <1>4

-----------------------------------------------------------------------------
(* The steps of RunPipeline *)

USE DEF None, EqualMatches, DirtyHeuristics, SameName, RemainingFunctions, BestCategory, PartialCategory,
        SmallDifferences, LoopCleanupTop, MatchesDiffing, RelatedMatches, RelatedCompilationUnit,
        LocallyAffine, LoopCleanupBottom, FinalPass, FindUnmatched, WritingResults, RemovingCheckpoint, Down

\* Which step comes before a step.
LEMMA Predecessor == ASSUME NEW i \in Inputs, NEW s, NEW k, NEW t, NEW l, Follows(i, s, k, t, l)
                     PROVE  /\ t \in 2..4 => s = t - 1 /\ k = 0
                            /\ t = 5 => s = 3 /\ k = 0
                            /\ t \in 6..7 => s = t - 1 /\ k = 0
                            /\ t = 8 => (l = 0 /\ s = 7 /\ k = 0) \/ (l > 0 /\ s = 13 /\ k = l - 1)
                            /\ t \in 9..13 => s = t - 1 /\ k = l
                            /\ t = 14 => IF i \in Skips THEN s = 4 /\ k = 0 ELSE s = 13 /\ k = R(i) - 1
                            /\ t = 15 => s = 14 /\ k = 0
                            /\ t > 1
<1>1. R(i) \in Nat /\ R(i) >= 1
  BY RoundsAre
<1> QED
  BY <1>1 DEF Follows, StepOf, Pos

\* A cursor in which only the step changes.
LEMMA CursorMoves == ASSUME NEW i, NEW s, NEW k, NEW t, SkipAt(i, s) = SkipAt(i, t),
                            OldTotalAt(i, s, k) = OldTotalAt(i, t, k)
                     PROVE  [CursorAt(i, s, k) EXCEPT !.done = t] = CursorAt(i, t, k)
  BY DEF CursorAt

\* Save leaves a sound checkpoint.
LEMMA SaveSound == ASSUME NEW s, NEW k, inputs \in Usable, StepOf(inputs, s, k), StoreInv,
                          NEW e, e = SavedAt(inputs, s, k) \/ e = ReadyAt(inputs, s, k),
                          Save(CursorAt(inputs, s, k), e)
                   PROVE  /\ cursor' = CursorAt(inputs, s, k) /\ eng' = e
                          /\ StoreInv'
<1> DEFINE c == [binding |-> inputs, cursor |-> CursorAt(inputs, s, k), saved |-> SavedAt(inputs, s, k)]
<1>1. inputs \in Inputs
  BY PipelineConstants
<1>2. Captured(e, CursorAt(inputs, s, k)) = SavedAt(inputs, s, k)
  BY <1>1, SavedEngine
<1>3. (cell' = cell /\ safe' = safe) \/ (cell' = c /\ safe' = c)
  BY <1>2 DEF Save, store
<1>4. Sound(c)
  <2>1. c.binding = inputs /\ c.cursor = CursorAt(inputs, s, k)
    OBVIOUS
  <2>2. c.cursor.done = s /\ c.cursor.iteration = k
    BY <2>1 DEF CursorAt
  <2>3. c = [binding |-> c.binding, cursor |-> CursorAt(c.binding, c.cursor.done, c.cursor.iteration),
             saved |-> SavedAt(c.binding, c.cursor.done, c.cursor.iteration)]
    BY <2>1, <2>2
  <2> HIDE DEF c
  <2> QED
    BY <2>1, <2>2, <2>3 DEF Sound
<1> HIDE DEF c
<1>5. StoreInv'
  BY <1>3, <1>4 DEF StoreInv
<1> QED
  BY <1>5 DEF Save

\* A live run makes one step: cursor, engine and checkpoint move to it.
LEMMA Moves == ASSUME NEW t, NEW l, inputs \in Usable, StoreInv, Positioned, Behind, pc > 2,
                      StepOf(inputs, t, l), Pos(inputs, t, l) = Here + 1, inputs' = inputs, resume' = resume, pc' > 2,
                      Save(CursorAt(inputs, t, l), Ran(eng, t, l))
               PROVE  /\ cursor' = CursorAt(inputs, t, l) /\ cursor'.done = t /\ cursor'.iteration = l
                      /\ eng' = ReadyAt(inputs, t, l)
                      /\ Positioned' /\ Behind' /\ StoreInv' /\ Here' = Here + 1
<1>1. inputs \in Inputs
  BY PipelineConstants
<1>2. Ran(eng, t, l) = ReadyAt(inputs, t, l)
  <2> DEFINE s == cursor.done
             k == cursor.iteration
  <2>1. Follows(inputs, s, k, t, l) /\ eng = ReadyAt(inputs, s, k)
    BY DEF Positioned, Here, Follows
  <2> HIDE DEF s, k
  <2>2. Ran(ReadyAt(inputs, s, k), t, l) = ReadyAt(inputs, t, l)
    BY <1>1, <2>1, NextStep
  <2> QED
    BY <2>1, <2>2
<1>3. cursor' = CursorAt(inputs, t, l) /\ eng' = ReadyAt(inputs, t, l) /\ StoreInv'
  BY <1>2, SaveSound
<1>4. cursor'.done = t /\ cursor'.iteration = l
  BY <1>3 DEF CursorAt
<1>5. Positioned' /\ Here' = Here + 1
  BY <1>3, <1>4 DEF Positioned, Here
<1>6. Behind'
  <2>1. Here \in Nat /\ \A s, k : StepOf(inputs, s, k) => Pos(inputs, s, k) \in Nat
    BY <1>1, PosOf DEF Positioned, Here
  <2> QED
    BY <1>5, <2>1 DEF Behind
<1> QED
  BY <1>3, <1>4, <1>5, <1>6

\* A step that is left out changes nothing of this.
LEMMA Stays == ASSUME Positioned, Behind, StoreInv, pc > 2, pc' > 2, NotRun, inputs' = inputs, resume' = resume
               PROVE  Positioned' /\ Behind' /\ StoreInv' /\ cursor' = cursor /\ Here' = Here
  BY DEF Positioned, Behind, StoreInv, NotRun, Here, store

\* The totals are numbers, so that a cursor of the course is one, and not the absence of one.
LEMMA CursorIs == ASSUME NEW i \in Inputs, NEW s, NEW k, StepOf(i, s, k)
                  PROVE  /\ CursorAt(i, s, k) # NoCursor /\ OldTotalAt(i, s, k) \in Nat
                         /\ CursorAt(i, s, k).done = s /\ CursorAt(i, s, k).iteration = k
                         /\ CursorAt(i, s, k).skip = SkipAt(i, s)
                         /\ CursorAt(i, s, k).oldTotal = OldTotalAt(i, s, k)
<1>1. R(i) \in Nat /\ R(i) >= 1 /\ s \in 1..15 /\ k \in Nat
  BY RoundsAre, PosOf
<1>2. ASSUME NEW n \in Nat, n >= 1 PROVE Uninterrupted!TotalAfter(i, n) \in Nat
  <2>1. Len(Totals[i]) \in Nat /\ Len(Totals[i]) >= 1
    BY EmptySeq, LenProperties, PipelineConstants
  <2> QED
    BY <1>2, <2>1, ElementOfSeq, PipelineConstants DEF Uninterrupted!TotalAfter
<1>3. OldTotalAt(i, s, k) \in Nat
  <2>1. 2 * k + 1 \in Nat /\ 2 * k + 1 >= 1 /\ 2 * R(i) - 1 \in Nat /\ 2 * R(i) - 1 >= 1
    BY <1>1
  <2>2. Uninterrupted!TotalAfter(i, 2 * k + 1) \in Nat /\ Uninterrupted!TotalAfter(i, 2 * R(i) - 1) \in Nat
    BY <1>2, <2>1
  <2> QED
    BY <2>2 DEF OldTotalAt
<1>4. SkipAt(i, s) \in BOOLEAN
  BY DEF SkipAt
<1>5. CursorAt(i, s, k) \in Cursors
  BY <1>1, <1>3, <1>4 DEF CursorAt, Cursors
<1>6. CursorAt(i, s, k) # NoCursor
  BY <1>5, NoCursorAssumption
<1>7. CursorAt(i, s, k).done = s /\ CursorAt(i, s, k).iteration = k
      /\ CursorAt(i, s, k).oldTotal = OldTotalAt(i, s, k)
  BY DEF CursorAt
<1>8. CursorAt(i, s, k).skip = SkipAt(i, s)
  BY DEF CursorAt
<1> QED
  BY <1>3, <1>6, <1>7, <1>8

\* The cursor of the next step, from the cursor of the step before it.
LEMMA NextCursor == ASSUME NEW i \in Inputs, NEW s, NEW k, NEW t, NEW l, Follows(i, s, k, t, l), t \notin {2, 8, 14}
                    PROVE  k = l /\ [CursorAt(i, s, k) EXCEPT !.done = t] = CursorAt(i, t, l)
<1>1. s \in 1..15 /\ t \in 1..15 /\ k \in Nat /\ l \in Nat
  BY PosOf DEF Follows
<1>2. k = l
  BY <1>1, Predecessor DEF Follows, StepOf
<1>3. OldTotalAt(i, s, k) = OldTotalAt(i, t, k)
  BY <1>1, Predecessor DEF OldTotalAt
<1>4. s >= 2 /\ t >= 2
  BY <1>1, Predecessor
<1>5. SkipAt(i, s) = SkipAt(i, t)
  BY <1>4 DEF SkipAt
<1> QED
  BY <1>2, <1>3, <1>5, CursorMoves

\* Where a run is, in the terms of the lemmas above.
LEMMA Place == ASSUME IInv, pc \in 2..15
               PROVE  /\ inputs \in Inputs /\ inputs \in Usable /\ AtStep /\ StoreInv
                      /\ StepOf(inputs, cursor.done, cursor.iteration)
                      /\ cursor = CursorAt(inputs, cursor.done, cursor.iteration)
                      /\ cursor # NoCursor
                      /\ cursor.done \in 1..15 /\ cursor.iteration \in Nat /\ Here \in Nat
                      /\ resume # NoCursor => resume.done \in 1..15 /\ resume.iteration \in Nat
<1>1. AtStep /\ StoreInv /\ inputs \in Inputs
  BY DEF IInv, RunInv
<1>2. /\ inputs \in Usable /\ StepOf(inputs, cursor.done, cursor.iteration)
      /\ cursor = CursorAt(inputs, cursor.done, cursor.iteration)
  BY <1>1 DEF AtStep, Positioned
<1>3. cursor # NoCursor
  BY <1>1, <1>2, CursorIs
<1>4. cursor.done \in 1..15 /\ cursor.iteration \in Nat /\ Here \in Nat
  BY <1>1, <1>2, PosOf DEF Here
<1>5. resume # NoCursor => resume.done \in 1..15 /\ resume.iteration \in Nat
  BY <1>1, PosOf DEF AtStep, Behind
<1> QED
  BY <1>1, <1>2, <1>3, <1>4, <1>5

\* The tests of the code, Done before and after the loop and Pending in it, tell whether the run is live.
LEMMA Dispatch == ASSUME IInv, pc \in 2..15
                  PROVE  /\ pc \notin 8..13 /\ Done(pc) => Skipping
                         /\ pc \notin 8..13 /\ ~Done(pc) => Live
                         /\ pc \in 8..13 /\ Pending(pc) => Live
                         /\ pc \in 8..13 /\ ~Pending(pc) => Skipping
<1>1. Skipping \/ Live
  BY Place DEF AtStep
<1>2. loopDone \in 0..15
  BY DEF IInv
<1>3. cursor.done \in 1..15 /\ cursor # NoCursor /\ (resume # NoCursor => resume.done \in 1..15)
  BY Place
<1>4. Skipping => IF pc \in 8..13 THEN ~Pending(pc) ELSE Done(pc)
  BY <1>2, <1>3 DEF Skipping, Done, Pending
<1>5. Live => IF pc \in 8..13 THEN Pending(pc) ELSE ~Done(pc)
  BY <1>2, <1>3 DEF Live, Done, Pending
<1> QED
  BY <1>1, <1>4, <1>5

\* A live run that runs the step it is at, where only the step changes in the cursor.
LEMMA RunsMoves == ASSUME IInv, Live, pc \in 3..15, pc \notin {8, 14}, Runs(pc),
                          inputs' = inputs, resume' = resume, pc' > 2
                   PROVE  /\ cursor' = CursorAt(inputs, pc, iteration)
                          /\ cursor'.done = pc /\ cursor'.iteration = iteration
                          /\ cursor'.oldTotal = cursor.oldTotal
                          /\ eng' = ReadyAt(inputs, pc, iteration)
                          /\ StepOf(inputs, pc, iteration)
                          /\ Positioned' /\ Behind' /\ StoreInv'
                          /\ Here' = Here + 1 /\ Here' = Pos(inputs, pc, iteration)
<1>1. Follows(inputs, cursor.done, cursor.iteration, pc, iteration)
  BY Place DEF Live, Follows, Here
<1>2. [cursor EXCEPT !.done = pc] = CursorAt(inputs, pc, iteration)
  BY <1>1, Place, NextCursor
<1>3. Save(CursorAt(inputs, pc, iteration), Ran(eng, pc, iteration))
  BY <1>2 DEF Runs
<1>4. /\ inputs \in Usable /\ StoreInv /\ Positioned /\ Behind
      /\ StepOf(inputs, pc, iteration) /\ Pos(inputs, pc, iteration) = Here + 1 /\ pc > 2
  BY <1>1, Place DEF AtStep, Follows, Here
<1>5. /\ cursor' = CursorAt(inputs, pc, iteration) /\ cursor'.done = pc /\ cursor'.iteration = iteration
      /\ eng' = ReadyAt(inputs, pc, iteration)
      /\ Positioned' /\ Behind' /\ StoreInv' /\ Here' = Here + 1
  BY <1>3, <1>4, Moves
<1>6. cursor'.oldTotal = cursor.oldTotal
  BY <1>2, <1>5, Place DEF CursorAt
<1> QED
  BY <1>4, <1>5, <1>6

\* What is left to show of a step that stays within RunPipeline.
LEMMA Arrives == ASSUME IInv, inputs' = inputs, inputs \in Usable, pc' \in 3..15, iteration' \in Nat, loopDone' \in 0..15,
                        StoreInv', Positioned', Behind', Skipping' \/ Live',
                        skipOthers' = (inputs \in Skips),
                        pc' = 4 => inputs \in Skips,
                        pc' \in 5..13 => inputs \notin Skips,
                        pc' \notin 8..14 => iteration' = 0
                 PROVE  IInv'
<1>1. inputs' \in Inputs
  BY DEF IInv
<1>2. AtStep'
  BY DEF AtStep
<1> QED
  BY <1>1, <1>2 DEF IInv, RunInv

\* The pre-loop steps after the dirty heuristics, but the last.
LEMMA StageKeeps == ASSUME IInv, NEW s, NEW next, Stage(s, next),
                           \/ s = 3 /\ next = (IF inputs \in Skips THEN 4 ELSE 5)
                           \/ s = 4 /\ next = 14
                           \/ s \in 5..6 /\ next = s + 1
                    PROVE  IInv'
<1>1. /\ pc = s /\ pc' = next /\ pc \in 3..6 /\ pc' \in 4..14 /\ pc' \notin 8..13 /\ pc < pc'
      /\ inputs' = inputs /\ resume' = resume /\ skipOthers' = skipOthers
      /\ iteration' = iteration /\ loopDone' = loopDone /\ oldTotal' = oldTotal
  BY DEF Stage, locals
<1>2. /\ AtStep /\ iteration = 0 /\ inputs \in Inputs /\ inputs \in Usable /\ Positioned /\ Behind /\ StoreInv
      /\ skipOthers = (inputs \in Skips)
      /\ (s = 4 => inputs \in Skips) /\ (s \in 5..6 => inputs \notin Skips)
  BY <1>1, Place DEF AtStep
<1>3. Positioned' /\ Behind' /\ StoreInv' /\ (Skipping' \/ Live')
  <2>1. CASE Done(s)
    <3>1. Skipping
      BY <1>1, <2>1, Dispatch
    <3>2. Positioned' /\ Behind' /\ StoreInv' /\ cursor' = cursor /\ Here' = Here
      BY <1>1, <1>2, <2>1, Stays DEF Stage
    <3>3. StepOf(inputs, cursor.done, cursor.iteration) /\ cursor.done \in 1..15
      BY <1>1, Place
    <3>4. CASE pc' <= cursor.done
      BY <1>1, <3>1, <3>2, <3>4 DEF Skipping
    <3>5. CASE ~(pc' <= cursor.done)
      <4>1. cursor.done = s /\ cursor.iteration = 0
        BY <1>1, <1>2, <3>1, <3>3, <3>5 DEF Skipping, StepOf
      <4>2. StepOf(inputs, pc', 0) /\ Pos(inputs, pc', 0) = Pos(inputs, s, 0) + 1
        BY <1>1, <1>2, <4>1, RoundsAre DEF StepOf, Pos
      <4> QED
        BY <1>1, <1>2, <3>1, <3>2, <4>1, <4>2 DEF Live, Skipping, Here
    <3> QED
      BY <3>2, <3>4, <3>5
  <2>2. CASE ~Done(s)
    <3>1. Live /\ Runs(pc)
      BY <1>1, <2>2, Dispatch DEF Stage
    <3>2. /\ StepOf(inputs, pc, iteration) /\ cursor'.done = pc /\ cursor'.iteration = iteration
          /\ Positioned' /\ Behind' /\ StoreInv' /\ Here' = Pos(inputs, pc, iteration)
      BY <1>1, <3>1, RunsMoves
    <3>3. StepOf(inputs, pc', 0) /\ Pos(inputs, pc', 0) = Pos(inputs, pc, 0) + 1
      BY <1>1, <1>2, <3>2, RoundsAre DEF StepOf, Pos
    <3>4. resume # NoCursor => resume.done < pc'
      BY <1>1, <3>1, Place DEF Live
    <3>5. Live'
      BY <1>1, <1>2, <3>2, <3>3, <3>4 DEF Live
    <3> QED
      BY <3>2, <3>5
  <2> QED
    BY <2>1, <2>2
<1> QED
  BY <1>1, <1>2, <1>3, Arrives DEF IInv

\* The last step before the loop.
LEMMA SmallDifferencesKeeps == ASSUME IInv, StageSmallDifferences PROVE IInv'
<1>1. pc = 7 /\ inputs' = inputs /\ resume' = resume /\ skipOthers' = skipOthers /\ pc' \in {8, 14}
  BY DEF StageSmallDifferences
<1>2. /\ AtStep /\ iteration = 0 /\ inputs \in Inputs /\ inputs \in Usable /\ Positioned /\ Behind /\ StoreInv
      /\ skipOthers = (inputs \in Skips) /\ inputs \notin Skips
      /\ cursor.done \in 1..15 /\ cursor.iteration \in Nat /\ cursor # NoCursor
      /\ (resume # NoCursor => resume.done \in 1..15)
      /\ StepOf(inputs, cursor.done, cursor.iteration)
  BY <1>1, Place DEF AtStep
<1>3. StepOf(inputs, 8, 0) /\ Pos(inputs, 8, 0) = Pos(inputs, 7, 0) + 1
  BY <1>2, RoundsAre DEF StepOf, Pos
<1>4. CASE Done(7)
  <2>1. Skipping /\ resume = cursor /\ cursor.done >= 7
    BY <1>1, <1>4, Dispatch DEF Skipping
  <2>2. Positioned' /\ Behind' /\ StoreInv' /\ cursor' = cursor /\ Here' = Here
    BY <1>1, <1>2, <1>4, Stays DEF StageSmallDifferences
  <2>3. CASE cursor.done >= 14
    <3>1. pc' = 14 /\ iteration' = iteration /\ loopDone' = loopDone
      BY <1>2, <2>1, <2>3 DEF StageSmallDifferences, Done
    <3>2. Skipping'
      BY <1>1, <2>1, <2>2, <2>3, <3>1 DEF Skipping
    <3> QED
      BY <1>1, <1>2, <2>2, <3>1, <3>2, Arrives DEF IInv
  <2>4. CASE cursor.done \in 8..13
    <3>1. pc' = 8 /\ iteration' = cursor.iteration /\ loopDone' = cursor.done /\ oldTotal' = cursor.oldTotal
      BY <1>2, <2>1, <2>4 DEF StageSmallDifferences, Done, IsLoopStep
    <3>2. Skipping'
      BY <1>1, <2>1, <2>2, <2>4, <3>1 DEF Skipping
    <3> QED
      BY <1>1, <1>2, <2>2, <3>1, <3>2, Arrives DEF IInv
  <2>5. CASE cursor.done = 7
    <3>1. pc' = 8 /\ iteration' = 0 /\ loopDone' = 0
      BY <1>2, <2>1, <2>5 DEF StageSmallDifferences, Done, IsLoopStep
    <3>2. cursor.iteration = 0
      BY <1>2, <2>5 DEF StepOf
    <3>3. Live'
      BY <1>1, <1>3, <2>1, <2>2, <2>5, <3>1, <3>2 DEF Live, Here
    <3> QED
      BY <1>1, <1>2, <2>2, <3>1, <3>3, Arrives DEF IInv
  <2> QED
    BY <1>2, <2>1, <2>3, <2>4, <2>5
<1>5. CASE ~Done(7)
  <2>1. Live /\ Runs(pc)
    BY <1>1, <1>5, Dispatch DEF StageSmallDifferences
  <2>2. Positioned' /\ Behind' /\ StoreInv' /\ Here' = Pos(inputs, 7, 0)
    BY <1>1, <1>2, <2>1, RunsMoves
  <2>3. pc' = 8 /\ iteration' = 0 /\ loopDone' = 0
    BY <1>2, <1>5 DEF StageSmallDifferences, Done, IsLoopStep
  <2>4. Live'
    BY <1>1, <1>3, <2>2, <2>3 DEF Live
  <2> QED
    BY <1>1, <1>2, <2>2, <2>3, <2>4, Arrives DEF IInv
<1> QED
  BY <1>4, <1>5

\* The total that the loop compares, at its top and at its bottom.
LEMMA LoopTotals == ASSUME inputs \in Inputs, NEW s \in 8..13, NEW k, StepOf(inputs, s, k),
                           NEW e, e = ReadyAt(inputs, s, k)
                    PROVE  TotalMatchedFunctions(e) =
                             Uninterrupted!TotalAfter(inputs, IF s = 13 THEN 2 * k + 2 ELSE 2 * k + 1)
<1>1. inputs \notin Skips /\ k \in Nat
  BY PosOf DEF StepOf
<1>2. e.cleanups = IF s = 13 THEN 2 * k + 2 ELSE 2 * k + 1
  BY <1>1 DEF ReadyAt, EngineAt, CleanupsAt
<1>3. e.cleanups # 0
  BY <1>1, <1>2
<1> QED
  BY <1>2, <1>3 DEF TotalMatchedFunctions, Uninterrupted!TotalAfter

\* What holds of a run in the loop.
LEMMA InLoop == ASSUME IInv, pc \in 8..13
                PROVE  /\ inputs \in Inputs /\ inputs \in Usable /\ inputs \notin Skips
                       /\ AtStep /\ Positioned /\ Behind /\ StoreInv /\ skipOthers = (inputs \in Skips)
                       /\ iteration \in 0..(R(inputs) - 1) /\ R(inputs) \in Nat
                       /\ cursor.done \in 1..15 /\ cursor.iteration \in Nat
                       /\ loopDone \in 0..15
                       /\ Skipping => cursor.done \in pc..13 /\ cursor.iteration = iteration
                                      /\ cursor.oldTotal = oldTotal /\ loopDone = cursor.done
<1>1. /\ inputs \in Inputs /\ inputs \in Usable /\ inputs \notin Skips
      /\ AtStep /\ Positioned /\ Behind /\ StoreInv /\ skipOthers = (inputs \in Skips)
      /\ cursor.done \in 1..15 /\ cursor.iteration \in Nat
      /\ StepOf(inputs, cursor.done, cursor.iteration)
  BY Place DEF AtStep
<1>2. R(inputs) \in Nat /\ R(inputs) >= 1
  BY <1>1, RoundsAre
<1>3. Skipping => cursor.done \in pc..13 /\ cursor.iteration = iteration
                  /\ cursor.oldTotal = oldTotal /\ loopDone = cursor.done
  BY <1>1 DEF Skipping
<1>4. Skipping => iteration \in 0..(R(inputs) - 1)
  BY <1>1, <1>3 DEF StepOf
<1>5. Live => iteration \in 0..(R(inputs) - 1)
  BY <1>1 DEF Live, StepOf
<1>6. Skipping \/ Live
  BY <1>1 DEF AtStep
<1>7. loopDone \in 0..15
  BY DEF IInv
<1> QED
  BY <1>1, <1>2, <1>3, <1>4, <1>5, <1>6, <1>7

\* From one step of the loop to the next one of the same iteration, for a run that leaves out the step.
LEMMA LoopSkips == ASSUME IInv, pc \in 8..12, Skipping, pc' = pc + 1, inputs' = inputs, resume' = resume,
                          skipOthers' = skipOthers, iteration' = iteration, loopDone' = loopDone, oldTotal' = oldTotal,
                          NotRun
                   PROVE  IInv'
<1>1. /\ inputs \in Inputs /\ inputs \in Usable /\ inputs \notin Skips
      /\ Positioned /\ Behind /\ StoreInv /\ skipOthers = (inputs \in Skips)
      /\ iteration \in 0..(R(inputs) - 1) /\ R(inputs) \in Nat /\ loopDone \in 0..15
      /\ cursor.done \in pc..13 /\ cursor.iteration = iteration
      /\ cursor.oldTotal = oldTotal /\ loopDone = cursor.done
  BY InLoop
<1>2. Positioned' /\ Behind' /\ StoreInv' /\ cursor' = cursor /\ Here' = Here
  BY <1>1, Stays
<1>3. CASE cursor.done = pc
  <2>1. StepOf(inputs, pc + 1, iteration) /\ Pos(inputs, pc + 1, iteration) = Pos(inputs, pc, iteration) + 1
    BY <1>1 DEF StepOf, Pos
  <2>2. Live'
    BY <1>1, <1>2, <1>3, <2>1 DEF Live, Here
  <2> QED
    BY <1>1, <1>2, <2>2, Arrives DEF IInv
<1>4. CASE cursor.done > pc
  <2>1. Skipping'
    BY <1>1, <1>2, <1>4 DEF Skipping
  <2> QED
    BY <1>1, <1>2, <2>1, Arrives DEF IInv
<1> QED
  BY <1>1, <1>3, <1>4

\* cleanup_matches at the top of an iteration.
LEMMA LoopCleanupTopKeeps == ASSUME IInv, StageLoopCleanupTop PROVE IInv'
<1>1. /\ pc = 8 /\ pc' = 9 /\ inputs' = inputs /\ resume' = resume /\ skipOthers' = skipOthers
      /\ iteration' = iteration /\ loopDone' = loopDone
  BY DEF StageLoopCleanupTop
<1>2. /\ inputs \in Inputs /\ inputs \in Usable /\ inputs \notin Skips
      /\ Positioned /\ Behind /\ StoreInv /\ skipOthers = (inputs \in Skips)
      /\ iteration \in 0..(R(inputs) - 1) /\ R(inputs) \in Nat /\ loopDone \in 0..15
  BY <1>1, InLoop
<1>3. CASE ~Pending(8)
  <2>1. Skipping
    BY <1>1, <1>3, Dispatch
  <2>2. cursor.iteration = iteration
    BY <1>1, <2>1, InLoop
  <2>3. cursor = CursorAt(inputs, cursor.done, cursor.iteration)
    BY <1>1, Place
  <2>4. [cursor EXCEPT !.iteration = iteration] = cursor
    BY <2>2, <2>3 DEF CursorAt
  <2>5. NotRun /\ oldTotal' = oldTotal
    BY <1>3, <2>4 DEF StageLoopCleanupTop, NotRun
  <2> QED
    BY <1>1, <2>1, <2>5, LoopSkips
<1>4. CASE Pending(8)
  <2>1. Live
    BY <1>1, <1>4, Dispatch
  <2>2. Follows(inputs, cursor.done, cursor.iteration, 8, iteration)
    BY <1>1, <2>1, Place DEF Live, Follows, Here
  <2>3. eng = ReadyAt(inputs, cursor.done, cursor.iteration)
    BY <1>1, <1>2 DEF Positioned
  <2>4. StepOf(inputs, 8, iteration) /\ Pos(inputs, 8, iteration) = Here + 1
    BY <2>2 DEF Follows, Here
  <2>5. Ran(eng, 8, iteration) = ReadyAt(inputs, 8, iteration)
    BY <1>2, <2>2, <2>3, NextStep
  <2>6. TotalMatchedFunctions(Ran(eng, 8, iteration)) = OldTotalAt(inputs, 8, iteration)
    BY <1>2, <2>4, <2>5, LoopTotals DEF OldTotalAt
  <2>7. cursor.skip = SkipAt(inputs, 8)
    <3>1. SkipAt(inputs, cursor.done) = FALSE /\ SkipAt(inputs, 8) = FALSE
      BY <1>2 DEF SkipAt
    <3>2. cursor.skip = SkipAt(inputs, cursor.done)
      BY <1>1, Place DEF CursorAt
    <3> QED
      BY <3>1, <3>2
  <2> DEFINE e == Ran(eng, 8, iteration)
             c == [done |-> 8, iteration |-> iteration, skip |-> cursor.skip, oldTotal |-> TotalMatchedFunctions(e)]
  <2>8. Save(c, e) /\ oldTotal' = TotalMatchedFunctions(e)
    BY <1>4 DEF StageLoopCleanupTop
  <2>9. c = CursorAt(inputs, 8, iteration)
    BY <2>6, <2>7 DEF CursorAt
  <2> HIDE DEF c, e
  <2>10. Save(CursorAt(inputs, 8, iteration), Ran(eng, 8, iteration))
    BY <2>8, <2>9 DEF e
  <2>11. /\ cursor' = CursorAt(inputs, 8, iteration) /\ cursor'.done = 8 /\ cursor'.iteration = iteration
         /\ Positioned' /\ Behind' /\ StoreInv' /\ Here' = Here + 1
    BY <1>1, <1>2, <2>4, <2>10, Moves
  <2>12. oldTotal' = cursor'.oldTotal
    BY <2>6, <2>8, <2>11 DEF CursorAt, e
  <2>13. StepOf(inputs, 9, iteration) /\ Pos(inputs, 9, iteration) = Pos(inputs, 8, iteration) + 1
    BY <1>2 DEF StepOf, Pos
  <2>14. loopDone < 9
    BY <1>1, <1>2, <1>4 DEF Pending
  <2>15. Live'
    BY <1>1, <2>4, <2>11, <2>12, <2>13, <2>14 DEF Live
  <2> QED
    BY <1>1, <1>2, <2>11, <2>15, Arrives DEF IInv
<1> QED
  BY <1>3, <1>4

\* The four stages of the loop.
LEMMA LoopStageKeeps == ASSUME IInv, NEW s \in 9..12, LoopStage(s) PROVE IInv'
<1>1. /\ pc = s /\ pc' = s + 1 /\ inputs' = inputs /\ resume' = resume /\ skipOthers' = skipOthers
      /\ iteration' = iteration /\ loopDone' = loopDone /\ oldTotal' = oldTotal
  BY DEF LoopStage, locals
<1>2. /\ inputs \in Inputs /\ inputs \in Usable /\ inputs \notin Skips
      /\ Positioned /\ Behind /\ StoreInv /\ skipOthers = (inputs \in Skips)
      /\ iteration \in 0..(R(inputs) - 1) /\ R(inputs) \in Nat /\ loopDone \in 0..15
  BY <1>1, InLoop
<1>3. CASE ~Pending(s)
  <2>1. Skipping
    BY <1>1, <1>3, Dispatch
  <2> QED
    BY <1>1, <1>3, <2>1, LoopSkips DEF LoopStage
<1>4. CASE Pending(s)
  <2>1. Live /\ Runs(pc)
    BY <1>1, <1>4, Dispatch DEF LoopStage
  <2>2. /\ cursor'.oldTotal = cursor.oldTotal
        /\ Positioned' /\ Behind' /\ StoreInv' /\ Here' = Pos(inputs, pc, iteration)
    BY <1>1, <2>1, RunsMoves
  <2>3. StepOf(inputs, s + 1, iteration) /\ Pos(inputs, s + 1, iteration) = Pos(inputs, s, iteration) + 1
    BY <1>2 DEF StepOf, Pos
  <2>4. oldTotal = cursor.oldTotal /\ loopDone < s + 1
    BY <1>1, <1>2, <1>4, <2>1 DEF Live, Pending
  <2>5. Live'
    BY <1>1, <2>2, <2>3, <2>4 DEF Live
  <2> QED
    BY <1>1, <1>2, <2>2, <2>5, Arrives DEF IInv
<1> QED
  BY <1>3, <1>4

\* cleanup_matches at the bottom: the loop goes on exactly as often as Rounds says.
LEMMA LoopCleanupBottomKeeps == ASSUME IInv, StageLoopCleanupBottom PROVE IInv'
<1> DEFINE k == iteration
<1>1. /\ pc = 13 /\ inputs' = inputs /\ resume' = resume /\ skipOthers' = skipOthers
      /\ loopDone' = 0 /\ oldTotal' = oldTotal /\ pc' \in {8, 14}
  BY DEF StageLoopCleanupBottom
<1>2. /\ inputs \in Inputs /\ inputs \in Usable /\ inputs \notin Skips
      /\ Positioned /\ Behind /\ StoreInv /\ skipOthers = (inputs \in Skips)
      /\ iteration \in 0..(R(inputs) - 1) /\ R(inputs) \in Nat /\ loopDone \in 0..15
  BY <1>1, InLoop
<1>3. /\ StepOf(inputs, 13, k) /\ eng' = ReadyAt(inputs, 13, k)
      /\ cursor.oldTotal = oldTotal /\ cursor.oldTotal = Uninterrupted!TotalAfter(inputs, 2 * k + 1)
      /\ Positioned' /\ Behind' /\ StoreInv' /\ Here' = Pos(inputs, 13, k)
  <2>1. CASE ~Pending(13)
    <3>1. Skipping
      BY <1>1, <2>1, Dispatch
    <3>2. cursor.done = 13 /\ cursor.iteration = k /\ cursor.oldTotal = oldTotal
      BY <1>1, <3>1, InLoop
    <3>3. NotRun
      BY <2>1 DEF StageLoopCleanupBottom
    <3>4. Positioned' /\ Behind' /\ StoreInv' /\ cursor' = cursor /\ Here' = Here
      BY <1>1, <1>2, <3>3, Stays
    <3>5. StepOf(inputs, 13, k) /\ eng = ReadyAt(inputs, 13, k) /\ cursor = CursorAt(inputs, 13, k)
      BY <1>1, <1>2, <3>2 DEF Positioned
    <3>6. cursor.oldTotal = Uninterrupted!TotalAfter(inputs, 2 * k + 1)
      BY <1>2, <3>5 DEF CursorAt, OldTotalAt
    <3> QED
      BY <3>2, <3>3, <3>4, <3>5, <3>6 DEF NotRun, Here
  <2>2. CASE Pending(13)
    <3>1. Live /\ Runs(pc)
      BY <1>1, <2>2, Dispatch DEF StageLoopCleanupBottom
    <3>2. /\ cursor' = CursorAt(inputs, pc, iteration) /\ cursor'.oldTotal = cursor.oldTotal
          /\ StepOf(inputs, pc, iteration) /\ eng' = ReadyAt(inputs, pc, iteration)
          /\ Positioned' /\ Behind' /\ StoreInv' /\ Here' = Pos(inputs, pc, iteration)
      BY <1>1, <3>1, RunsMoves
    <3>3. oldTotal = cursor.oldTotal
      BY <1>1, <3>1 DEF Live
    <3>4. cursor'.oldTotal = Uninterrupted!TotalAfter(inputs, 2 * k + 1)
      BY <1>1, <1>2, <3>2 DEF CursorAt, OldTotalAt
    <3> QED
      BY <1>1, <3>2, <3>3, <3>4
  <2> QED
    BY <2>1, <2>2
<1>4. TotalMatchedFunctions(eng') = Uninterrupted!TotalAfter(inputs, 2 * k + 2)
  BY <1>2, <1>3, LoopTotals
<1>5. TotalMatchedFunctions(eng') <= oldTotal <=> k = R(inputs) - 1
  <2> DEFINE T(n) == Uninterrupted!TotalAfter(inputs, n)
  <2>1. T(2 * R(inputs)) <= T(2 * R(inputs) - 1)
        /\ \A j \in 1..(R(inputs) - 1) : T(2 * j) > T(2 * j - 1)
    BY <1>2, RoundsAre
  <2>2. ASSUME NEW n \in Nat, n >= 1 PROVE T(n) \in Nat
    <3>1. Len(Totals[inputs]) \in Nat /\ Len(Totals[inputs]) >= 1
      BY <1>2, EmptySeq, LenProperties, PipelineConstants
    <3> QED
      BY <1>2, <2>2, <3>1, ElementOfSeq, PipelineConstants DEF Uninterrupted!TotalAfter
  <2> HIDE DEF T
  <2>3. CASE k = R(inputs) - 1
    <3>1. 2 * k + 2 = 2 * R(inputs) /\ 2 * k + 1 = 2 * R(inputs) - 1
      BY <1>2, <2>3
    <3> QED
      BY <1>3, <1>4, <2>1, <2>3, <3>1 DEF T
  <2>4. CASE k # R(inputs) - 1
    <3>1. k + 1 \in 1..(R(inputs) - 1) /\ 2 * (k + 1) = 2 * k + 2 /\ 2 * (k + 1) - 1 = 2 * k + 1
      BY <1>2, <2>4
    <3>2. T(2 * k + 2) > T(2 * k + 1)
      BY <2>1, <3>1
    <3>3. T(2 * k + 2) \in Nat /\ T(2 * k + 1) \in Nat
      BY <1>2, <2>2
    <3> QED
      BY <1>3, <1>4, <2>4, <3>2, <3>3 DEF T
  <2> QED
    BY <2>3, <2>4
<1>6. CASE k = R(inputs) - 1
  <2>1. pc' = 14 /\ iteration' = iteration
    BY <1>5, <1>6 DEF StageLoopCleanupBottom
  <2>2. StepOf(inputs, 14, 0) /\ Pos(inputs, 14, 0) = Pos(inputs, 13, k) + 1
    BY <1>2, <1>6 DEF StepOf, Pos
  <2>3. resume # NoCursor => resume.done < 14
    <3>1. SUFFICES ASSUME resume # NoCursor PROVE resume.done < 14
      OBVIOUS
    <3>2. /\ StepOf(inputs, resume.done, resume.iteration)
          /\ Pos(inputs, resume.done, resume.iteration) <= Pos(inputs, 13, k)
      BY <1>1, <1>3, <3>1 DEF Behind
    <3>3. Pos(inputs, 13, k) \in Nat /\ Last(inputs) - 1 = Pos(inputs, 14, 0) /\ Last(inputs) \in Nat
      BY <1>2, <1>3, PosOf
    <3>4. /\ resume.done \in 1..15 /\ Pos(inputs, resume.done, resume.iteration) \in Nat
          /\ resume.done >= 14 <=> Pos(inputs, resume.done, resume.iteration) >= Last(inputs) - 1
      BY <1>2, <3>2, PosOf
    <3> QED
      BY <2>2, <3>2, <3>3, <3>4
  <2>4. Live'
    BY <1>1, <1>3, <2>1, <2>2, <2>3 DEF Live
  <2> QED
    BY <1>1, <1>2, <1>3, <2>1, <2>4, Arrives DEF IInv
<1>7. CASE k # R(inputs) - 1
  <2>1. pc' = 8 /\ iteration' = iteration + 1
    BY <1>5, <1>7 DEF StageLoopCleanupBottom
  <2>2. StepOf(inputs, 8, k + 1) /\ Pos(inputs, 8, k + 1) = Pos(inputs, 13, k) + 1
    BY <1>2, <1>7 DEF StepOf, Pos
  <2>3. Live'
    BY <1>1, <1>3, <2>1, <2>2 DEF Live
  <2> QED
    BY <1>1, <1>2, <1>3, <2>1, <2>3, Arrives DEF IInv
<1> QED
  BY <1>6, <1>7

\* final_pass, from the loop, after the remaining functions, or left out.
LEMMA FinalPassKeeps == ASSUME IInv, StageFinalPass PROVE IInv'
<1>1. /\ pc = 14 /\ pc' = 15 /\ inputs' = inputs /\ resume' = resume /\ skipOthers' = skipOthers
      /\ iteration' = 0 /\ loopDone' = loopDone
  BY DEF StageFinalPass
<1>2. /\ AtStep /\ inputs \in Inputs /\ inputs \in Usable /\ Positioned /\ Behind /\ StoreInv
      /\ skipOthers = (inputs \in Skips) /\ loopDone \in 0..15
      /\ StepOf(inputs, cursor.done, cursor.iteration) /\ cursor.done \in 1..15
      /\ cursor = CursorAt(inputs, cursor.done, cursor.iteration)
      /\ (resume # NoCursor => resume.done \in 1..15)
  BY <1>1, Place DEF AtStep, IInv
<1>3. StepOf(inputs, 14, 0) /\ StepOf(inputs, 15, 0) /\ Pos(inputs, 15, 0) = Pos(inputs, 14, 0) + 1
  BY <1>2, RoundsAre DEF StepOf, Pos
<1>4. CASE Done(14)
  <2>1. Skipping /\ cursor.done \in 14..15 /\ resume = cursor
    BY <1>1, <1>2, <1>4, Dispatch DEF Skipping
  <2>2. cursor.iteration = 0
    BY <1>2, <2>1 DEF StepOf
  <2>3. [cursor EXCEPT !.iteration = 0] = cursor
    BY <1>2, <2>2 DEF CursorAt
  <2>4. NotRun
    BY <1>4, <2>3 DEF StageFinalPass, NotRun
  <2>5. Positioned' /\ Behind' /\ StoreInv' /\ cursor' = cursor /\ Here' = Here
    BY <1>1, <1>2, <2>4, Stays
  <2>6. CASE cursor.done = 14
    <3>1. Live'
      BY <1>1, <1>3, <2>1, <2>2, <2>5, <2>6 DEF Live, Here
    <3> QED
      BY <1>1, <1>2, <2>5, <3>1, Arrives
  <2>7. CASE cursor.done = 15
    <3>1. Skipping'
      BY <1>1, <2>1, <2>5, <2>7 DEF Skipping
    <3> QED
      BY <1>1, <1>2, <2>5, <3>1, Arrives
  <2> QED
    BY <2>1, <2>6, <2>7
<1>5. CASE ~Done(14)
  <2>1. Live
    BY <1>1, <1>5, Dispatch
  <2>2. Follows(inputs, cursor.done, cursor.iteration, 14, 0)
    BY <1>1, <1>2, <2>1 DEF Live, Follows, Here
  <2>3. [done |-> 14, iteration |-> 0, skip |-> cursor.skip, oldTotal |-> cursor.oldTotal] = CursorAt(inputs, 14, 0)
    <3> DEFINE s == cursor.done
               k == cursor.iteration
    <3>1. s \in 1..13 /\ s >= 2 /\ k \in Nat
      BY <1>2, <2>2, Predecessor, PosOf
    <3>2. SkipAt(inputs, s) = SkipAt(inputs, 14)
      BY <3>1 DEF SkipAt
    <3>3. R(inputs) \in Nat /\ R(inputs) >= 1
      BY <1>2, RoundsAre
    <3>4. OldTotalAt(inputs, s, k) = OldTotalAt(inputs, 14, 0)
      <4>1. CASE inputs \in Skips
        BY <4>1 DEF OldTotalAt
      <4>2. CASE inputs \notin Skips
        <5>1. s = 13 /\ k = R(inputs) - 1
          BY <1>2, <2>2, <4>2, Predecessor
        <5>2. 2 * k + 1 = 2 * R(inputs) - 1
          BY <3>3, <5>1
        <5> QED
          BY <4>2, <5>1, <5>2 DEF OldTotalAt
      <4> QED
        BY <4>1, <4>2
    <3>5. cursor.skip = SkipAt(inputs, s) /\ cursor.oldTotal = OldTotalAt(inputs, s, k)
      BY <1>2, CursorIs
    <3> HIDE DEF s, k
    <3> QED
      BY <3>2, <3>4, <3>5 DEF CursorAt
  <2>4. Save(CursorAt(inputs, 14, 0), Ran(eng, 14, 0))
    BY <1>5, <2>3 DEF StageFinalPass
  <2>5. StepOf(inputs, 14, 0) /\ Pos(inputs, 14, 0) = Here + 1
    BY <2>2 DEF Follows, Here
  <2>6. Positioned' /\ Behind' /\ StoreInv' /\ Here' = Here + 1
    BY <1>1, <1>2, <2>4, <2>5, Moves
  <2>7. Live'
    BY <1>1, <1>2, <1>3, <2>1, <2>5, <2>6 DEF Live
  <2> QED
    BY <1>1, <1>2, <2>6, <2>7, Arrives
<1> QED
  BY <1>4, <1>5

\* How many steps an engine of the course has behind it.
LEMMA WorkLen == ASSUME NEW i \in Inputs, NEW s, NEW k, StepOf(i, s, k), NEW e,
                        e = SavedAt(i, s, k) \/ e = ReadyAt(i, s, k)
                 PROVE  e.work = Path(i, Pos(i, s, k)) /\ Len(e.work) = Pos(i, s, k) /\ Len(e.work) \in Nat
<1>1. Pos(i, s, k) \in 1..Last(i) /\ Last(i) \in Nat
  BY PosOf
<1>2. PICK p \in BOOLEAN : e = EngineAt(i, s, k, p)
  BY DEF SavedAt, ReadyAt
<1>3. e.work = Path(i, Pos(i, s, k))
  BY <1>2 DEF EngineAt
<1> QED
  BY <1>1, <1>3, PathLen

\* The engine at the end has the results of the uninterrupted diff.
LEMMA EndResults == ASSUME NEW i \in Usable
                    PROVE  Results(ReadyAt(i, 15, 0)) = Uninterrupted!ResultOf(i)
<1>1. i \in Inputs
  BY PipelineConstants
<1>2. Last(i) \in Nat /\ Len(Uninterrupted!Work(i)) = Last(i)
  BY <1>1, WorkAt
<1>3. PICK V : Uninterrupted!Work(i) \in Seq(V)
  BY <1>1, WorkAt
<1>4. Path(i, Last(i)) = Uninterrupted!Work(i)
  BY <1>2, <1>3, SubSeqFull DEF Path
<1>5. Results(ReadyAt(i, 15, 0)) = [choosers |-> Path(i, Last(i) - 1), unmatched |-> Path(i, Last(i))]
  BY DEF Results, ReadyAt, EngineAt
<1> QED
  BY <1>2, <1>4, <1>5 DEF Uninterrupted!ResultOf, Path

\* find_unmatched, the last step.
LEMMA FindUnmatchedKeeps == ASSUME IInv, StageFindUnmatched PROVE IInv'
<1>1. /\ pc = 15 /\ pc' = 16 /\ inputs' = inputs /\ resume' = resume
      /\ iteration' = iteration /\ loopDone' = loopDone
  BY DEF StageFindUnmatched, Stage, locals
<1>2. /\ AtStep /\ inputs \in Inputs /\ inputs \in Usable /\ Positioned /\ Behind /\ StoreInv /\ iteration = 0
      /\ StepOf(inputs, cursor.done, cursor.iteration) /\ cursor.done \in 1..15
  BY <1>1, Place DEF AtStep
<1>3. eng' = ReadyAt(inputs, 15, 0) /\ StoreInv'
  <2>1. CASE Done(15)
    <3>1. Skipping /\ cursor.done = 15
      BY <1>1, <1>2, <2>1, Dispatch DEF Skipping
    <3>2. cursor.iteration = 0
      BY <1>2, <3>1 DEF StepOf
    <3>3. NotRun
      BY <2>1 DEF StageFindUnmatched, Stage
    <3>4. StoreInv' /\ eng' = eng
      BY <1>2, <3>3 DEF NotRun, StoreInv, store
    <3> QED
      BY <1>1, <1>2, <3>1, <3>2, <3>4 DEF Positioned
  <2>2. CASE ~Done(15)
    <3>1. Live /\ Runs(pc)
      BY <1>1, <2>2, Dispatch DEF StageFindUnmatched, Stage
    <3> QED
      BY <1>1, <1>2, <3>1, RunsMoves
  <2> QED
    BY <2>1, <2>2
<1>4. Results(eng') = Uninterrupted!ResultOf(inputs)
  BY <1>2, <1>3, EndResults
<1>5. Len(eng'.work) \in Nat
  BY <1>2, <1>3, WorkLen DEF StepOf
<1>6. RunInv'
  BY <1>1, <1>4, <1>5 DEF RunInv
<1> QED
  BY <1>1, <1>2, <1>3, <1>6 DEF IInv

\* The first step, of a run that was not resumed.
LEMMA EqualMatchesKeeps == ASSUME IInv, StageEqualMatches PROVE IInv'
<1>1. /\ pc = 1 /\ pc' = 2 /\ inputs' = inputs /\ resume' = resume /\ skipOthers' = cursor'.skip
      /\ iteration' = iteration /\ loopDone' = loopDone /\ Runs(1)
  BY DEF StageEqualMatches
<1>2. /\ inputs \in Usable /\ resume = NoCursor /\ cursor = StartCursor /\ eng = FreshEngine /\ iteration = 0
      /\ StoreInv /\ inputs \in Inputs /\ loopDone \in 0..15
  BY <1>1 DEF IInv, RunInv
<1>3. /\ StepOf(inputs, 1, 0) /\ StepOf(inputs, 2, 0)
      /\ Pos(inputs, 1, 0) = 1 /\ Pos(inputs, 2, 0) = 2
  BY DEF StepOf, Pos
<1>4. [cursor EXCEPT !.done = 1] = CursorAt(inputs, 1, 0)
  <2>1. SkipAt(inputs, 1) = FALSE /\ OldTotalAt(inputs, 1, 0) = 0
    BY DEF SkipAt, OldTotalAt
  <2>2. cursor = [done |-> 0, iteration |-> 0, skip |-> SkipAt(inputs, 1), oldTotal |-> OldTotalAt(inputs, 1, 0)]
    BY <1>2, <2>1 DEF StartCursor
  <2> QED
    BY <2>2 DEF CursorAt
<1>5. Ran(eng, 1, 0) = SavedAt(inputs, 1, 0)
  BY <1>2, FirstStep
<1>6. Save(CursorAt(inputs, 1, 0), Ran(eng, 1, 0))
  BY <1>1, <1>2, <1>4 DEF Runs
<1>7. cursor' = CursorAt(inputs, 1, 0) /\ eng' = SavedAt(inputs, 1, 0) /\ StoreInv'
  BY <1>2, <1>3, <1>5, <1>6, SaveSound
<1>8. cursor'.done = 1 /\ cursor'.iteration = 0
  BY <1>7 DEF CursorAt
<1>9. Positioned' /\ Behind' /\ Live'
  BY <1>1, <1>2, <1>3, <1>7, <1>8 DEF Positioned, Behind, Live, Here
<1>10. AtStep'
  BY <1>1, <1>2, <1>9 DEF AtStep
<1>11. RunInv'
  BY <1>1, <1>10 DEF RunInv
<1> QED
  BY <1>1, <1>2, <1>7, <1>11 DEF IInv

\* Prepare and the dirty heuristics.
LEMMA DirtyHeuristicsKeeps == ASSUME IInv, StageDirtyHeuristics PROVE IInv'
<1>1. /\ pc = 2 /\ pc' = 3 /\ inputs' = inputs /\ resume' = resume
      /\ iteration' = iteration /\ loopDone' = loopDone
  BY DEF StageDirtyHeuristics
<1>2. /\ AtStep /\ inputs \in Inputs /\ inputs \in Usable /\ Positioned /\ Behind /\ StoreInv /\ iteration = 0
      /\ StepOf(inputs, cursor.done, cursor.iteration) /\ cursor.done \in 1..15 /\ cursor.iteration \in Nat
      /\ cursor = CursorAt(inputs, cursor.done, cursor.iteration) /\ skipOthers = cursor.skip
      /\ eng = SavedAt(inputs, cursor.done, cursor.iteration) /\ loopDone \in 0..15
  BY <1>1, Place DEF AtStep, Positioned, IInv
<1>3. StepOf(inputs, 3, 0) /\ StepOf(inputs, 2, 0) /\ Pos(inputs, 3, 0) = Pos(inputs, 2, 0) + 1
  BY DEF StepOf, Pos
<1>4. Prepared(eng) = ReadyAt(inputs, cursor.done, cursor.iteration)
  BY <1>2, SavedEngine
<1>5. CASE Done(2)
  <2>1. Skipping /\ resume = cursor /\ cursor.done >= 2
    BY <1>1, <1>5, Dispatch DEF Skipping
  <2>2. eng' = Prepared(eng) /\ skipOthers' = skipOthers /\ cursor' = cursor /\ cell' = cell /\ safe' = safe
    BY <1>5 DEF StageDirtyHeuristics, store
  <2>3. Positioned' /\ Behind' /\ StoreInv' /\ Here' = Here
    BY <1>1, <1>2, <1>4, <2>2 DEF Positioned, Behind, StoreInv, Here
  <2>4. skipOthers' = (inputs \in Skips)
    <3>1. cursor.skip = SkipAt(inputs, cursor.done)
      BY <1>2, CursorIs
    <3>2. SkipAt(inputs, cursor.done) = (inputs \in Skips)
      BY <2>1 DEF SkipAt
    <3> QED
      BY <1>2, <2>2, <3>1, <3>2
  <2>5. CASE cursor.done = 2
    <3>1. cursor.iteration = 0
      BY <1>2, <2>5 DEF StepOf
    <3>2. Live'
      BY <1>1, <1>2, <1>3, <2>1, <2>2, <2>3, <2>5, <3>1 DEF Live, Here
    <3> QED
      BY <1>1, <1>2, <2>3, <2>4, <3>2, Arrives
  <2>6. CASE cursor.done > 2
    <3>1. Skipping'
      BY <1>1, <1>2, <2>1, <2>2, <2>6 DEF Skipping
    <3> QED
      BY <1>1, <1>2, <2>3, <2>4, <3>1, Arrives
  <2> QED
    BY <1>2, <2>1, <2>5, <2>6
<1>6. CASE ~Done(2)
  <2>1. Live
    BY <1>1, <1>6, Dispatch
  <2>2. Follows(inputs, cursor.done, cursor.iteration, 2, 0)
    BY <1>1, <1>2, <2>1 DEF Live, Follows, Here
  <2>3. cursor.done = 1 /\ cursor.iteration = 0
    BY <1>2, <2>2, Predecessor
  <2>4. Ran(Prepared(eng), 2, 0) = ReadyAt(inputs, 2, 0)
    BY <1>2, <1>4, <2>2, NextStep
  <2> DEFINE c == [done |-> 2, iteration |-> cursor.iteration, skip |-> (inputs \in Skips),
                   oldTotal |-> cursor.oldTotal]
  <2>5. Save(c, Ran(Prepared(eng), 2, 0)) /\ skipOthers' = (inputs \in Skips)
    BY <1>2, <1>6 DEF StageDirtyHeuristics
  <2>6. c = CursorAt(inputs, 2, 0)
    <3>1. cursor.oldTotal = OldTotalAt(inputs, 1, 0)
      BY <1>2, <2>3, CursorIs
    <3>2. OldTotalAt(inputs, 2, 0) = OldTotalAt(inputs, 1, 0)
      BY DEF OldTotalAt
    <3>3. SkipAt(inputs, 2) = (inputs \in Skips)
      BY DEF SkipAt
    <3> QED
      BY <2>3, <3>1, <3>2, <3>3 DEF CursorAt
  <2> HIDE DEF c
  <2>7. cursor' = CursorAt(inputs, 2, 0) /\ eng' = ReadyAt(inputs, 2, 0) /\ StoreInv'
    BY <1>2, <1>3, <2>4, <2>5, <2>6, SaveSound
  <2>8. cursor'.done = 2 /\ cursor'.iteration = 0
    BY <2>7 DEF CursorAt
  <2>9. Positioned' /\ Here' = Pos(inputs, 2, 0)
    BY <1>1, <1>3, <2>7, <2>8 DEF Positioned, Here
  <2>10. Pos(inputs, 2, 0) = Here + 1
    BY <2>2 DEF Follows, Here
  <2>11. Behind'
    <3>1. Here \in Nat /\ \A s, k : StepOf(inputs, s, k) => Pos(inputs, s, k) \in Nat
      BY <1>2, PosOf DEF Here
    <3> QED
      BY <1>1, <1>2, <2>9, <2>10, <3>1 DEF Behind
  <2>12. Live'
    BY <1>1, <1>2, <1>3, <2>1, <2>9, Place DEF Live
  <2> QED
    BY <1>1, <1>2, <2>5, <2>7, <2>9, <2>11, <2>12, Arrives
<1> QED
  BY <1>5, <1>6

\* The start of a run, and its end.
LEMMA StartFreshKeeps == ASSUME IInv, NEW b, StartFresh(b) PROVE IInv'
<1>1. /\ pc = 18 /\ pc' = (IF inputs \in Usable THEN 1 ELSE 16) /\ resume' = NoCursor /\ cursor' = StartCursor
      /\ eng' = FreshEngine /\ inputs' = inputs /\ cell' = cell /\ safe' = safe
      /\ iteration' = iteration /\ loopDone' = loopDone
  BY DEF StartFresh, store, locals
<1>2. iteration = 0 /\ StoreInv /\ inputs \in Inputs /\ loopDone \in 0..15
  BY <1>1 DEF IInv, RunInv
<1>3. StoreInv'
  BY <1>1, <1>2 DEF StoreInv
<1>4. inputs \notin Usable => Results(FreshEngine) = Uninterrupted!ResultOf(inputs)
  BY DEF Results, FreshEngine, Uninterrupted!ResultOf, Uninterrupted!Empty
<1>5. Len(FreshEngine.work) = 0
  BY DEF FreshEngine
<1>6. RunInv'
  BY <1>1, <1>2, <1>4, <1>5 DEF RunInv
<1> QED
  BY <1>1, <1>2, <1>3, <1>6 DEF IInv

LEMMA StartResumeKeeps == ASSUME IInv, StartResume PROVE IInv'
<1> DEFINE s == cell.cursor.done
           k == cell.cursor.iteration
<1>1. /\ pc = 18 /\ pc' = 2 /\ resume' = cell.cursor /\ cursor' = cell.cursor /\ skipOthers' = cell.cursor.skip
      /\ eng' = cell.saved /\ inputs' = inputs /\ cell' = cell /\ safe' = safe
      /\ iteration' = iteration /\ loopDone' = loopDone
      /\ cell \notin {NoCheckpoint, Damaged} /\ cell.binding = inputs
  BY DEF StartResume, store
<1>2. iteration = 0 /\ StoreInv /\ inputs \in Inputs /\ loopDone \in 0..15 /\ Sound(cell)
  BY <1>1 DEF IInv, RunInv, StoreInv
<1>3. /\ inputs \in Usable /\ StepOf(inputs, s, k)
      /\ cell = [binding |-> inputs, cursor |-> CursorAt(inputs, s, k), saved |-> SavedAt(inputs, s, k)]
  BY <1>1, <1>2 DEF Sound
<1>4. cell.cursor = CursorAt(inputs, s, k) /\ cell.saved = SavedAt(inputs, s, k)
  BY <1>3
<1> HIDE DEF s, k
<1>5. cursor'.done = s /\ cursor'.iteration = k
  BY <1>1 DEF s, k
<1>6. Positioned' /\ Here' = Pos(inputs, s, k)
  BY <1>1, <1>3, <1>4, <1>5 DEF Positioned, Here
<1>7. s \in 1..15 /\ k \in Nat /\ Pos(inputs, s, k) \in Nat
  BY <1>2, <1>3, PosOf
<1>8. Behind'
  BY <1>1, <1>3, <1>5, <1>6, <1>7 DEF Behind
<1>9. Skipping' \/ Live'
  <2>1. CASE s = 1
    <3>1. k = 0 /\ StepOf(inputs, 2, 0) /\ Pos(inputs, 2, 0) = Pos(inputs, 1, 0) + 1
      BY <1>3, <2>1 DEF StepOf, Pos
    <3> QED
      BY <1>1, <1>2, <1>5, <1>6, <2>1, <3>1 DEF Live
  <2>2. CASE s >= 2
    BY <1>1, <1>5, <2>2 DEF Skipping
  <2> QED
    BY <1>7, <2>1, <2>2
<1>10. AtStep'
  BY <1>1, <1>2, <1>3, <1>6, <1>8, <1>9 DEF AtStep
<1>11. RunInv'
  BY <1>1, <1>10 DEF RunInv
<1>12. StoreInv'
  BY <1>1, <1>2 DEF StoreInv
<1> QED
  BY <1>1, <1>2, <1>11, <1>12 DEF IInv

LEMMA EndedKeeps == ASSUME IInv, Ended, inputs' \in Inputs, StoreInv' PROVE IInv'
<1>1. RunInv'
  BY DEF Ended, RunInv
<1> QED
  BY <1>1 DEF Ended, IInv

LEMMA WriteResultsKeeps == ASSUME IInv, WriteResults PROVE IInv'
<1>1. StoreInv' /\ inputs' = inputs /\ inputs \in Inputs /\ pc = 16
  BY DEF IInv, StoreInv, WriteResults, store
<1>2. CASE saving
  <2>1. pc' = 17 /\ eng' = eng /\ resume' = resume /\ iteration' = iteration /\ loopDone' = loopDone
    BY <1>2 DEF WriteResults, locals
  <2>2. RunInv'
    BY <1>1, <2>1 DEF IInv, RunInv
  <2> QED
    BY <1>1, <2>1, <2>2 DEF IInv
<1>3. CASE ~saving
  BY <1>1, <1>3, EndedKeeps DEF WriteResults
<1> QED
  BY <1>2, <1>3

-----------------------------------------------------------------------------
(* The theorems *)

\* The inductive invariant holds in every state.
THEOREM Invariance == Spec => []IInv
<1>1. Init => IInv
  <2>1. SUFFICES ASSUME Init PROVE IInv
    OBVIOUS
  <2>2. StoreInv
    BY <2>1 DEF Init, StoreInv, Sound
  <2>3. RunInv
    BY <2>1 DEF Init, RunInv
  <2> QED
    BY <2>1, <2>2, <2>3 DEF Init, IInv
<1>2. IInv /\ [Next]_vars => IInv'
  <2>1. SUFFICES ASSUME IInv, [Next]_vars PROVE IInv'
    OBVIOUS
  <2>2. StoreInv /\ inputs \in Inputs
    BY <2>1 DEF IInv
  <2>3. CASE \E withStore \in BOOLEAN : StartFresh(withStore)
    BY <2>1, <2>3, StartFreshKeeps
  <2>4. CASE StartResume
    BY <2>1, <2>4, StartResumeKeeps
  <2>5. CASE StageEqualMatches
    BY <2>1, <2>5, EqualMatchesKeeps
  <2>6. CASE StageDirtyHeuristics
    BY <2>1, <2>6, DirtyHeuristicsKeeps
  <2>7. CASE StageSameName
    <3>1. Stage(3, IF skipOthers THEN 4 ELSE 5)
      BY <2>7 DEF StageSameName
    <3>2. skipOthers = (inputs \in Skips)
      BY <2>1, <3>1, Place DEF Stage, AtStep
    <3> QED
      BY <2>1, <3>1, <3>2, StageKeeps
  <2>8. CASE StageRemainingFunctions
    BY <2>1, <2>8, StageKeeps DEF StageRemainingFunctions
  <2>9. CASE StageBestCategory
    BY <2>1, <2>9, StageKeeps DEF StageBestCategory
  <2>10. CASE StagePartialCategory
    BY <2>1, <2>10, StageKeeps DEF StagePartialCategory
  <2>11. CASE StageSmallDifferences
    BY <2>1, <2>11, SmallDifferencesKeeps
  <2>12. CASE StageLoopCleanupTop
    BY <2>1, <2>12, LoopCleanupTopKeeps
  <2>13. CASE StageMatchesDiffing \/ StageRelatedMatches \/ StageRelatedCompilationUnit \/ StageLocallyAffine
    <3>1. \E s \in 9..12 : LoopStage(s)
      BY <2>13 DEF StageMatchesDiffing, StageRelatedMatches, StageRelatedCompilationUnit, StageLocallyAffine
    <3> QED
      BY <2>1, <3>1, LoopStageKeeps
  <2>14. CASE StageLoopCleanupBottom
    BY <2>1, <2>14, LoopCleanupBottomKeeps
  <2>15. CASE StageFinalPass
    BY <2>1, <2>15, FinalPassKeeps
  <2>16. CASE StageFindUnmatched
    BY <2>1, <2>16, FindUnmatchedKeeps
  <2>17. CASE WriteResults
    BY <2>1, <2>17, WriteResultsKeeps
  <2>18. CASE RemoveCheckpoint
    <3>1. StoreInv' /\ Ended /\ inputs' = inputs
      BY <2>2, <2>18 DEF RemoveCheckpoint, StoreInv, Sound
    <3> QED
      BY <2>1, <2>2, <3>1, EndedKeeps
  <2>19. CASE Stop
    <3>1. StoreInv' /\ Ended /\ inputs' = inputs
      BY <2>2, <2>19 DEF Stop, StoreInv, store
    <3> QED
      BY <2>1, <2>2, <3>1, EndedKeeps
  <2>20. CASE PowerLoss
    <3>1. Ended /\ inputs' = inputs /\ safe' = cell' /\ cell' \in {cell, safe, Damaged}
      BY <2>20 DEF PowerLoss
    <3>2. Sound(Damaged) /\ Sound(cell) /\ Sound(safe)
      BY <2>2 DEF StoreInv, Sound
    <3>3. StoreInv'
      BY <3>1, <3>2 DEF StoreInv
    <3> QED
      BY <2>1, <2>2, <3>1, <3>3, EndedKeeps
  <2>21. CASE InputsChange \/ UserDiscards
    <3>1. /\ pc = 18 /\ pc' = pc /\ iteration' = iteration /\ resume' = resume /\ loopDone' = loopDone
          /\ inputs' \in Inputs
      BY <2>2, <2>21 DEF InputsChange, UserDiscards, run, locals
    <3>2. StoreInv'
      BY <2>2, <2>21 DEF InputsChange, UserDiscards, store, StoreInv, Sound
    <3>3. RunInv'
      BY <2>1, <3>1 DEF IInv, RunInv
    <3> QED
      BY <2>1, <3>1, <3>2, <3>3 DEF IInv
  <2>22. CASE UNCHANGED vars
    BY <2>1, <2>22 DEF vars, store, run, locals, IInv, StoreInv, RunInv, AtStep, Positioned, Behind, Skipping, Live,
                       Here
  <2> QED
    BY <2>1, <2>3, <2>4, <2>5, <2>6, <2>7, <2>8, <2>9, <2>10, <2>11, <2>12, <2>13, <2>14, <2>15, <2>16, <2>17,
       <2>18, <2>19, <2>20, <2>21, <2>22 DEF Next, RunStep
<1> QED
  BY <1>1, <1>2, PTL DEF Spec

\* Every iteration but the last matches one function more, and the cleanup at the top of the next one loses
\* none of them.
LEMMA IterationsMatch == ASSUME NEW i \in Inputs, NEW k \in 0..(R(i) - 1)
                         PROVE  k <= Uninterrupted!TotalAfter(i, 2 * k + 1)
<1> DEFINE T(n) == Uninterrupted!TotalAfter(i, n)
           L == Len(Totals[i])
           S == {l \in Nat : l < R(i) /\ T(2 * l + 1) < l}
<1>1. R(i) \in Nat /\ \A l \in 1..(R(i) - 1) : T(2 * l) > T(2 * l - 1)
  BY RoundsAre
<1>2. L \in Nat /\ L >= 1
  BY EmptySeq, LenProperties, PipelineConstants
<1>3. ASSUME NEW n \in Nat, n >= 1 PROVE T(n) \in Nat
  BY <1>2, <1>3, ElementOfSeq, PipelineConstants DEF Uninterrupted!TotalAfter
<1>4. ASSUME NEW l \in Nat, l >= 1 PROVE T(2 * l + 1) = T(2 * l)
  <2>1. CASE 2 * l + 1 <= L
    <3>1. l \in 1..Len(Totals[i]) /\ 2 * l <= Len(Totals[i])
      BY <1>2, <1>4, <2>1
    <3>2. Totals[i][2 * l + 1] = Totals[i][2 * l]
      BY <2>1, <3>1, CleanupsIdle
    <3> QED
      BY <2>1, <3>1, <3>2 DEF Uninterrupted!TotalAfter
  <2>2. CASE ~(2 * l + 1 <= L)
    BY <1>2, <1>4, <2>2 DEF Uninterrupted!TotalAfter
  <2> QED
    BY <2>1, <2>2
<1> HIDE DEF T, L
<1>5. ASSUME S # {} PROVE FALSE
  <2>1. PICK m \in S : \A l \in S : m <= l
    BY <1>5, LeastNatural
  <2>2. m \in Nat /\ m < R(i) /\ T(2 * m + 1) < m
    OBVIOUS
  <2>3. m >= 1
    <3>1. 2 * m + 1 \in Nat /\ 2 * m + 1 >= 1
      BY <2>2
    <3> QED
      BY <2>2, <3>1, <1>3
  <2>4. m - 1 \in Nat /\ m - 1 < R(i) /\ m - 1 \notin S
    BY <1>1, <2>1, <2>2, <2>3
  <2>5. 2 * (m - 1) + 1 = 2 * m - 1 /\ 2 * m - 1 \in Nat /\ 2 * m - 1 >= 1 /\ 2 * m \in Nat /\ 2 * m >= 1
    BY <2>2, <2>3
  <2>6. T(2 * m - 1) \in Nat /\ T(2 * m) \in Nat
    BY <1>3, <2>5
  <2>7. ~(T(2 * m - 1) < m - 1)
    BY <2>4, <2>5
  <2>8. T(2 * m) > T(2 * m - 1)
    BY <1>1, <2>2, <2>3
  <2>9. T(2 * m + 1) = T(2 * m)
    BY <1>4, <2>2, <2>3
  <2> QED
    BY <2>2, <2>6, <2>7, <2>8, <2>9
<1>6. k \in Nat /\ k < R(i) /\ 2 * k + 1 \in Nat /\ 2 * k + 1 >= 1
  BY <1>1
<1>7. ~(T(2 * k + 1) < k)
  BY <1>5, <1>6
<1>8. k <= T(2 * k + 1)
  BY <1>3, <1>6, <1>7
<1> QED
  BY <1>8 DEF T

\* SavedCursorsAccepted, for all inputs, any cap and any number of faults: --resume refuses a checkpoint
\* of a run for its cursor only past MaxIteration iterations, and each of these had matched one function
\* more.
THEOREM CursorsAccepted == Spec => []SavedCursorsAccepted
<1>1. IInv => SavedCursorsAccepted
  <2>1. SUFFICES ASSUME IInv, cell \notin {NoCheckpoint, Damaged}
                 PROVE  /\ \/ ValidCursor(cell.cursor)
                           \/ Consistent(cell.cursor) /\ cell.cursor.iteration > MaxIteration
                        /\ cell.cursor.iteration <= cell.cursor.oldTotal
    BY DEF SavedCursorsAccepted
  <2> DEFINE i == cell.binding
             s == cell.cursor.done
             k == cell.cursor.iteration
  <2>2. /\ i \in Usable /\ StepOf(i, s, k)
        /\ cell = [binding |-> i, cursor |-> CursorAt(i, s, k), saved |-> SavedAt(i, s, k)]
    BY <2>1 DEF IInv, StoreInv, Sound
  <2>3. cell.cursor = CursorAt(i, s, k)
    BY <2>2
  <2>4. i \in Inputs
    BY <2>2, PipelineConstants
  <2> HIDE DEF i
  <2>5. s \in 1..15 /\ k \in Nat
    BY <2>2, <2>4, PosOf
  <2>6. cell.cursor.skip = SkipAt(i, s)
    BY <2>2, <2>3, <2>4, CursorIs
  <2> DEFINE skip == cell.cursor.skip
  <2> HIDE DEF skip
  <2>7. skip <=> s >= 2 /\ i \in Skips
    BY <2>6 DEF SkipAt, skip
  <2>8. ~(skip /\ (s < 2 \/ s \in 5..13)) /\ ~(~skip /\ s = 4) /\ s # 0 /\ (IsLoopStep(s) \/ k = 0)
    BY <2>2, <2>5, <2>7 DEF StepOf, IsLoopStep
  <2>9. k <= MaxIteration \/ k > MaxIteration
    BY <2>5, PipelineConstants
  <2>10. k <= OldTotalAt(i, s, k)
    <3>1. k = 0 \/ (s \in 8..13 /\ k \in 0..(R(i) - 1) /\ i \notin Skips)
      BY <2>2 DEF StepOf
    <3>2. OldTotalAt(i, s, k) \in Nat
      BY <2>2, <2>4, CursorIs
    <3>3. CASE k = 0
      BY <3>2, <3>3
    <3>4. CASE s \in 8..13 /\ k \in 0..(R(i) - 1) /\ i \notin Skips
      <4>1. OldTotalAt(i, s, k) = Uninterrupted!TotalAfter(i, 2 * k + 1)
        BY <3>4 DEF OldTotalAt
      <4> QED
        BY <2>4, <3>4, <4>1, IterationsMatch
    <3> QED
      BY <3>1, <3>3, <3>4
  <2>11. k <= cell.cursor.oldTotal
    BY <2>2, <2>3, <2>4, <2>10, CursorIs
  <2> QED
    BY <2>8, <2>9, <2>11 DEF ValidCursor, Consistent, skip
<1> QED
  BY <1>1, Invariance, PTL

\* CheckpointOnPath, for all inputs and any number of faults: a checkpoint is the state of the
\* uninterrupted diff after the step that its cursor names.
THEOREM OnPath == Spec => []CheckpointOnPath
<1>1. IInv => CheckpointOnPath
  <2>1. SUFFICES ASSUME IInv, cell \notin {NoCheckpoint, Damaged} PROVE CheckpointOnPath
    BY DEF CheckpointOnPath
  <2> DEFINE i == cell.binding
             s == cell.cursor.done
             k == cell.cursor.iteration
             n == Pos(i, s, k)
             path == Uninterrupted!Work(i)
  <2>2. /\ i \in Usable /\ StepOf(i, s, k)
        /\ cell = [binding |-> i, cursor |-> CursorAt(i, s, k), saved |-> SavedAt(i, s, k)]
    BY <2>1 DEF IInv, StoreInv, Sound
  <2>3. cell.saved = SavedAt(i, s, k)
    BY <2>2
  <2>4. i \in Inputs
    BY <2>2, PipelineConstants
  <2>5. Len(cell.saved.work) = n /\ cell.saved.work = SubSeq(path, 1, n) /\ n > 0
    <3>1. cell.saved.work = Path(i, n) /\ Len(cell.saved.work) = n
      BY <2>2, <2>3, <2>4, WorkLen
    <3>2. n > 0
      BY <2>2, <2>4, PosOf
    <3> QED
      BY <3>1, <3>2 DEF Path
  <2>6. path[n][1] = s /\ path[n][2] = k
    <3>1. path[n] = <<s, k, n - 1, n > 1>>
      BY <2>2, <2>4, WorkAt
    <3> QED
      BY <3>1
  <2> QED
    BY <2>1, <2>5, <2>6 DEF CheckpointOnPath
<1> QED
  BY <1>1, Invariance, PTL

\* Only a live run adds to the work of a resumed run: the step that follows its position.
LEMMA Grows == ASSUME IInv, [Next]_vars, resume # NoCursor, Len(eng'.work) > Len(eng.work)
               PROVE  \E t, l : Follows(inputs, cursor.done, cursor.iteration, t, l) /\ eng' = ReadyAt(inputs, t, l)
                                /\ pc \in 2..15
<1>1. pc \in 1..18 /\ pc # 18 /\ pc # 1
  BY DEF IInv, RunInv
<1>2. Len(eng.work) \in Nat
  <2>1. CASE pc \in 2..15
    <3>1. /\ inputs \in Inputs /\ StepOf(inputs, cursor.done, cursor.iteration)
          /\ \/ eng = SavedAt(inputs, cursor.done, cursor.iteration)
             \/ eng = ReadyAt(inputs, cursor.done, cursor.iteration)
      BY <2>1, Place DEF AtStep, Positioned
    <3> QED
      BY <3>1, WorkLen
  <2>2. CASE pc \in 16..17
    BY <2>2 DEF IInv, RunInv
  <2> QED
    BY <1>1, <2>1, <2>2
<1>3. eng'.work # eng.work /\ ~Ended
  <2>1. eng'.work # eng.work
    BY <1>2
  <2>2. Len(FreshEngine.work) = 0
    BY DEF FreshEngine
  <2> QED
    BY <1>2, <2>1, <2>2 DEF Ended
<1>4. eng' # eng
  BY <1>3
<1>5. CASE StageDirtyHeuristics
  <2>1. pc = 2 /\ ~Done(2)
    <3>1. Prepared(eng).work = eng.work
      BY DEF Prepared
    <3> QED
      BY <1>3, <1>5, <3>1 DEF StageDirtyHeuristics
  <2>2. Live
    BY <2>1, Dispatch
  <2>3. iteration = 0 /\ inputs \in Inputs /\ Positioned
    BY <2>1, Place DEF AtStep
  <2>4. Follows(inputs, cursor.done, cursor.iteration, 2, 0)
    BY <2>1, <2>2, <2>3, Place DEF Live, Follows, Here
  <2>5. eng' = Ran(Prepared(eng), 2, 0)
    BY <1>5, <2>1, <2>3 DEF StageDirtyHeuristics, Save
  <2>6. Prepared(eng) = ReadyAt(inputs, cursor.done, cursor.iteration)
    BY <2>1, <2>3, <2>4, SavedEngine DEF Positioned, Follows
  <2>7. eng' = ReadyAt(inputs, 2, 0)
    BY <2>3, <2>4, <2>5, <2>6, NextStep
  <2> QED
    BY <2>1, <2>4, <2>7
<1>6. CASE /\ pc \in 3..15 /\ Live
           /\ eng' = Ran(eng, pc, IF pc = 14 THEN 0 ELSE iteration)
  <2> DEFINE l == IF pc = 14 THEN 0 ELSE iteration
  <2>1. inputs \in Inputs /\ eng = ReadyAt(inputs, cursor.done, cursor.iteration)
    BY <1>6, Place DEF AtStep, Positioned
  <2>2. Follows(inputs, cursor.done, cursor.iteration, pc, l)
    BY <1>6, Place DEF Live, Follows, Here
  <2>3. eng' = Ran(eng, pc, l)
    BY <1>6
  <2> HIDE DEF l
  <2>4. eng' = ReadyAt(inputs, pc, l)
    BY <2>1, <2>2, <2>3, NextStep
  <2> QED
    BY <1>6, <2>2, <2>4
<1>7. CASE StageSameName \/ StageRemainingFunctions \/ StageBestCategory \/ StagePartialCategory
           \/ StageFindUnmatched \/ StageSmallDifferences
  <2>1. pc \in {3, 4, 5, 6, 7, 15} /\ ~Done(pc) /\ Runs(pc)
    BY <1>4, <1>7 DEF StageSameName, StageRemainingFunctions, StageBestCategory, StagePartialCategory,
                      StageFindUnmatched, StageSmallDifferences, Stage, NotRun
  <2>2. Live
    BY <2>1, Dispatch
  <2>3. eng' = Ran(eng, pc, iteration)
    BY <2>1 DEF Runs, Save
  <2> QED
    BY <1>6, <2>1, <2>2, <2>3
<1>8. CASE StageMatchesDiffing \/ StageRelatedMatches \/ StageRelatedCompilationUnit \/ StageLocallyAffine
           \/ StageLoopCleanupBottom
  <2>1. pc \in 9..13 /\ Pending(pc) /\ Runs(pc)
    BY <1>4, <1>8 DEF StageMatchesDiffing, StageRelatedMatches, StageRelatedCompilationUnit, StageLocallyAffine,
                      StageLoopCleanupBottom, LoopStage, NotRun
  <2>2. Live
    BY <2>1, Dispatch
  <2>3. eng' = Ran(eng, pc, iteration)
    BY <2>1 DEF Runs, Save
  <2> QED
    BY <1>6, <2>1, <2>2, <2>3
<1>9. CASE StageLoopCleanupTop
  <2>1. pc = 8 /\ Pending(8) /\ eng' = Ran(eng, 8, iteration)
    BY <1>4, <1>9 DEF StageLoopCleanupTop, Save
  <2>2. Live
    BY <2>1, Dispatch
  <2> QED
    BY <1>6, <2>1, <2>2
<1>10. CASE StageFinalPass
  <2>1. pc = 14 /\ ~Done(14) /\ eng' = Ran(eng, 14, 0)
    BY <1>4, <1>10 DEF StageFinalPass, Save
  <2>2. Live
    BY <2>1, Dispatch
  <2> QED
    BY <1>6, <2>1, <2>2
<1>11. ~(\E b \in BOOLEAN : StartFresh(b)) /\ ~StartResume /\ ~StageEqualMatches /\ ~InputsChange /\ ~UserDiscards
  BY <1>1 DEF StartFresh, StartResume, StageEqualMatches, InputsChange, UserDiscards
<1>12. ~WriteResults /\ ~RemoveCheckpoint /\ ~Stop /\ ~PowerLoss /\ ~(UNCHANGED vars)
  BY <1>3, <1>4 DEF WriteResults, RemoveCheckpoint, Stop, PowerLoss, vars, run
<1> QED
  BY <1>5, <1>7, <1>8, <1>9, <1>10, <1>11, <1>12 DEF Next, RunStep

\* SavedStagesNotRepeated, for all inputs and any number of faults: whatever a resumed run does, it does
\* after the step its checkpoint was saved at.
THEOREM NotRepeated == Spec => SavedStagesNotRepeated
<1>1. IInv /\ [Next]_vars =>
        [resume # NoCursor /\ Len(eng'.work) > Len(eng.work)
           => LET last == eng'.work[Len(eng'.work)] IN Beyond(last[1], last[2], resume)]_vars
  <2>1. SUFFICES ASSUME IInv, [Next]_vars, resume # NoCursor, Len(eng'.work) > Len(eng.work)
                 PROVE  LET last == eng'.work[Len(eng'.work)] IN Beyond(last[1], last[2], resume)
    OBVIOUS
  <2>2. PICK t, l : /\ Follows(inputs, cursor.done, cursor.iteration, t, l) /\ eng' = ReadyAt(inputs, t, l)
                    /\ pc \in 2..15
    BY <2>1, Grows
  <2> DEFINE n == Pos(inputs, t, l)
             s == resume.done
             k == resume.iteration
  <2>3. inputs \in Inputs /\ StepOf(inputs, t, l) /\ n = Here + 1 /\ Here \in Nat
    BY <2>1, <2>2, Place DEF Follows, Here
  <2>4. StepOf(inputs, s, k) /\ Pos(inputs, s, k) <= Here
    BY <2>1, <2>2, Place DEF AtStep, Behind
  <2>5. Len(eng'.work) = n /\ eng'.work = Path(inputs, n)
    BY <2>2, <2>3, WorkLen
  <2>6. n \in 1..Last(inputs) /\ Last(inputs) \in Nat /\ t \in 1..15 /\ l \in Nat
        /\ s \in 1..15 /\ k \in Nat /\ Pos(inputs, s, k) \in Nat
    BY <2>3, <2>4, PosOf
  <2>7. Path(inputs, n)[n] = Uninterrupted!Work(inputs)[n]
    <3> DEFINE W == Uninterrupted!Work(inputs)
    <3>1. PICK V : W \in Seq(V)
      BY <2>3, WorkAt
    <3>2. Len(W) = Last(inputs)
      BY <2>3, WorkAt
    <3> HIDE DEF W, n
    <3>3. \A j \in 1..n : W[j] \in V
      BY <2>6, <3>1, <3>2, ElementOfSeq
    <3>4. \A j \in 1..(n - 1 + 1) : SubSeq(W, 1, n)[j] = W[1 + j - 1]
      BY <2>6, <3>3, SubSeqProperties
    <3> QED
      BY <2>6, <3>4 DEF Path, W
  <2>8. Uninterrupted!Work(inputs)[n] = <<t, l, n - 1, n > 1>>
    BY <2>3, WorkAt
  <2>9. eng'.work[Len(eng'.work)][1] = t /\ eng'.work[Len(eng'.work)][2] = l
    BY <2>5, <2>7, <2>8
  <2>10. Beyond(t, l, resume)
    <3>1. R(inputs) \in Nat /\ R(inputs) >= 1
      BY <2>3, RoundsAre
    <3>2. Pos(inputs, s, k) < n
      BY <2>3, <2>4, <2>6
    <3> QED
      BY <2>3, <2>4, <2>6, <3>1, <3>2 DEF Beyond, StepOf, Pos, IsLoopStep
  <2> QED
    BY <2>9, <2>10
<1> QED
  BY <1>1, Invariance, PTL DEF Spec, SavedStagesNotRepeated

\* Pipeline implements UninterruptedDiff: for all inputs, and any number of kills, failed saves, power
\* losses, resumes and changes of the inputs in between, the output is only ever replaced by the results
\* that the uninterrupted diff of the inputs has.
THEOREM Refinement == Spec => SameAsUninterrupted
<1>1. Init => Uninterrupted!DiffInit
  BY DEF Init, Uninterrupted!DiffInit
<1>2. IInv /\ [Next]_vars => [Uninterrupted!Finish \/ Uninterrupted!InputsChange]_<<inputs, out>>
  <2>1. SUFFICES ASSUME IInv, [Next]_vars
                 PROVE  \/ Uninterrupted!Finish \/ Uninterrupted!InputsChange
                        \/ inputs' = inputs /\ out' = out
    OBVIOUS
  <2>2. CASE WriteResults
    <3>1. Results(eng) = Uninterrupted!ResultOf(inputs)
      BY <2>1, <2>2 DEF IInv, RunInv, WriteResults
    <3> QED
      BY <2>2, <3>1 DEF WriteResults, Uninterrupted!Finish
  <2>3. CASE InputsChange
    BY <2>3 DEF InputsChange, Uninterrupted!InputsChange
  <2>4. ASSUME NEW b \in BOOLEAN, StartFresh(b) PROVE inputs' = inputs /\ out' = out
    BY <2>4 DEF StartFresh
  <2>5. CASE StartResume \/ StageEqualMatches \/ StageDirtyHeuristics \/ StageSmallDifferences
             \/ StageLoopCleanupTop \/ StageLoopCleanupBottom \/ StageFinalPass
    BY <2>5 DEF StartResume, StageEqualMatches, StageDirtyHeuristics, StageSmallDifferences,
                StageLoopCleanupTop, StageLoopCleanupBottom, StageFinalPass
  <2>6. CASE StageSameName \/ StageRemainingFunctions \/ StageBestCategory \/ StagePartialCategory
             \/ StageFindUnmatched
    BY <2>6 DEF StageSameName, StageRemainingFunctions, StageBestCategory, StagePartialCategory,
                StageFindUnmatched, Stage
  <2>7. CASE StageMatchesDiffing \/ StageRelatedMatches \/ StageRelatedCompilationUnit \/ StageLocallyAffine
    BY <2>7 DEF StageMatchesDiffing, StageRelatedMatches, StageRelatedCompilationUnit, StageLocallyAffine, LoopStage
  <2>8. CASE RemoveCheckpoint \/ Stop \/ PowerLoss \/ UserDiscards \/ UNCHANGED vars
    BY <2>8 DEF RemoveCheckpoint, Stop, PowerLoss, UserDiscards, vars
  <2> QED
    BY <2>1, <2>2, <2>3, <2>4, <2>5, <2>6, <2>7, <2>8 DEF Next, RunStep
<1> QED
  BY <1>1, <1>2, Invariance, PTL DEF Spec, SameAsUninterrupted, Uninterrupted!DiffSpec
=============================================================================
