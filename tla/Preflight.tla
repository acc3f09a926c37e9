------------------------------ MODULE Preflight ------------------------------
(***************************************************************************)
(* The checks a diff makes before any matching (Preflight.cpp): version,   *)
(* equal databases, call graph difference and same processor.  The call    *)
(* graph check computes with integers of any size as digit sequences, the  *)
(* most significant digit first and <<>> for zero, and must raise exactly  *)
(* where Python would.                                                     *)
(***************************************************************************)
EXTENDS Integers, Sequences, FiniteSets, SequencesExt, PyOutcomes

CONSTANTS DoubleBits,     \* 53
          DoubleMaxExp    \* 1023

\* 100.0 is a double, and an even one.
ASSUME DoubleAssumption == DoubleBits \in Nat /\ DoubleBits >= 6 /\ DoubleMaxExp \in Nat /\ DoubleMaxExp >= DoubleBits

VARIABLES program,        \* the two inputs: [version, md5s, rowsOnlyInMain, rows, processors]
          pstage,
          equalDb,        \* EarlyFacts::EqualDb
          outcome,        \* CallgraphOutcome: [equal, diff, total, percent], or an error, or None
          callgraphLog,   \* EarlyFacts::CallgraphLog
          sameProcessor

pvars == <<program, pstage, equalDb, outcome, callgraphLog, sameProcessor>>

-----------------------------------------------------------------------------
(* Magnitudes *)

\* The k-th digit from the right.
Digit(m, k) == IF k \in 1 .. Len(m) THEN m[Len(m) - k + 1] ELSE 0

StrippedMag(m) ==
    LET significant == {i \in DOMAIN m : m[i] # 0}
    IN  IF significant = {} THEN <<>>
        ELSE SubSeq(m, CHOOSE i \in significant : \A j \in significant : i <= j, Len(m))

CompareMag(a, b) ==
    IF Len(a) # Len(b) THEN (IF Len(a) < Len(b) THEN -1 ELSE 1)
    ELSE LET differing == {i \in DOMAIN a : a[i] # b[i]}
         IN  IF differing = {} THEN 0
             ELSE LET i == CHOOSE i \in differing : \A j \in differing : i <= j
                  IN  IF a[i] < b[i] THEN -1 ELSE 1

ValueOf(mag) == FoldLeft(LAMBDA n, d : 10 * n + d, 0, mag)

\* The digits after every sum, counted from the right, has passed on what goes over.
Carried(sums) ==
    LET n == Len(sums)
        carry[k \in 0 .. n] == IF k = 0 THEN 0 ELSE (sums[k] + carry[k - 1]) \div 10
    IN  StrippedMag([i \in 1 .. n |-> (sums[n - i + 1] + carry[n - i]) % 10])

Longer(a, b) == IF Len(a) < Len(b) THEN Len(b) ELSE Len(a)

AddMag(a, b) == Carried([k \in 1 .. Longer(a, b) + 1 |-> Digit(a, k) + Digit(b, k)])
SubMag(a, b) == Carried([k \in DOMAIN a |-> Digit(a, k) - Digit(b, k)])   \* a borrow is a carry of -1
MulMagSmall(a, factor) == IF a = <<>> \/ factor = 0 THEN <<>>
                          ELSE Carried([k \in 1 .. Len(a) + 3 |-> Digit(a, k) * factor])

Big(neg, mag) == [neg |-> neg, mag |-> mag]
BigAdd(x, y) ==
    IF x.neg = y.neg THEN Big(x.neg, AddMag(x.mag, y.mag))
    ELSE LET cmp == CompareMag(x.mag, y.mag)
         IN  IF cmp = 0 THEN Big(FALSE, <<>>)
             ELSE IF cmp > 0 THEN Big(x.neg, SubMag(x.mag, y.mag)) ELSE Big(y.neg, SubMag(y.mag, x.mag))
BigAbsDiff(x, y) == Big(FALSE, BigAdd(x, Big(~y.neg /\ y.mag # <<>>, y.mag)).mag)

Doubled(m, n, factor) == FoldLeft(LAMBDA acc, k : MulMagSmall(acc, factor), m, [k \in 1 .. n |-> k])

\* The least magnitude that float() rejects: 2^1024 - 2^970.
FloatOverflowMag == SubMag(Doubled(<<1>>, DoubleMaxExp + 1, 2), Doubled(<<1>>, DoubleMaxExp - DoubleBits, 2))
FloatOverflows(x) == CompareMag(x.mag, FloatOverflowMag) >= 0

-----------------------------------------------------------------------------
(* Decimal(callgraph_primes) *)

\* A decimal is [type, neg, coefficient, exponent].  Zeros at both ends are dropped.
Normalise(d) ==
    LET c == StrippedMag(d.coefficient)
        last == CHOOSE i \in 0 .. Len(c) : (i = 0 \/ c[i] # 0) /\ \A j \in i + 1 .. Len(c) : c[j] = 0
    IN  [d EXCEPT !.coefficient = SubSeq(c, 1, last), !.exponent = IF c = <<>> THEN 0 ELSE @ + Len(c) - last]

Decimal(type, neg, c, e) == [type |-> type, neg |-> neg, coefficient |-> c, exponent |-> e]

\* A double is m * 2^shift: below 2^0 it is m * 5^k / 10^k.
DecimalOfDouble(x) ==
    Normalise(IF x.shift >= 0 THEN Decimal("finite", x.neg, Doubled(x.m, x.shift, 2), 0)
              ELSE Decimal("finite", x.neg, Doubled(x.m, -x.shift, 5), x.shift))

\* The text of a number is given by its parts: sign, digits before and after the point, exponent.
DecimalOfCell(cell) ==
    CASE cell.type \in {"null", "blob", "badText"} -> Raise
      [] cell.type = "unported" -> Refuse    \* not ASCII, or an exponent of 16 digits
      [] cell.type = "integer" -> Normalise(Decimal("finite", cell.neg, cell.mag, 0))
      [] cell.type = "real" -> DecimalOfDouble(cell)
      [] cell.type = "text" -> Normalise(Decimal("finite", cell.neg, cell.whole \o cell.fraction,
                                                 cell.exponent - Len(cell.fraction)))
      [] cell.type \in {"infinity", "quietNaN", "signalingNaN"} -> Decimal(cell.type, cell.neg, <<>>, 0)

DecimalEquals(x, y) ==
    CASE "signalingNaN" \in {x.type, y.type} -> Raise
      [] "quietNaN" \in {x.type, y.type} /\ "signalingNaN" \notin {x.type, y.type} -> FALSE
      [] "infinity" \in {x.type, y.type} /\ {x.type, y.type} \subseteq {"infinity", "finite"} ->
            x.type = y.type /\ x.neg = y.neg
      [] OTHER -> IF <<>> \in {x.coefficient, y.coefficient} THEN x.coefficient = y.coefficient
                  ELSE x.neg = y.neg /\ x.coefficient = y.coefficient /\ x.exponent = y.exponent

-----------------------------------------------------------------------------
(* The numbers of callgraph_all_primes.  A JSON value is [kind: int, bool,   *)
(* float, nan or other, ...]; a number is [float, neg, mag], and of a float  *)
(* sum only that it is one is kept.                                          *)

IsNumber(v) == v.kind \in {"int", "bool", "float", "nan"}
IsFloat(v) == v.kind \in {"float", "nan"}
AsNumber(v) == IF IsFloat(v) THEN [float |-> TRUE, neg |-> FALSE, mag |-> <<>>]
               ELSE [float |-> FALSE, neg |-> v.neg /\ v.mag # <<>>, mag |-> v.mag]
AsBig(n) == Big(n.neg, n.mag)

\* Exactly, as Python compares them: the digits of the float's value against the integer's.
IntEqualsFloat(i, f) ==
    LET d == DecimalOfDouble(f)
    IN  /\ f.kind = "float" /\ d.exponent >= 0
        /\ IF d.coefficient = <<>> THEN i.mag = <<>>
           ELSE i.neg = d.neg /\ i.mag = d.coefficient \o [k \in 1 .. d.exponent |-> 0]

PyNotEqual(a, b) ==
    IF ~(IsNumber(a) /\ IsNumber(b)) THEN a # b
    ELSE IF IsFloat(a) /\ IsFloat(b) THEN "nan" \in {a.kind, b.kind} \/ DecimalOfDouble(a) # DecimalOfDouble(b)
    ELSE IF IsFloat(a) THEN a.kind = "nan" \/ ~IntEqualsFloat(AsNumber(b), a)
    ELSE IF IsFloat(b) THEN b.kind = "nan" \/ ~IntEqualsFloat(AsNumber(a), b)
    ELSE AsNumber(a) # AsNumber(b)

MaxMinusMin(a, b) ==
    IF ~(IsNumber(a) /\ IsNumber(b)) THEN Raise
    ELSE LET x == AsNumber(a)
             y == AsNumber(b)
             d == BigAbsDiff(AsBig(x), AsBig(y))
         IN  IF ~x.float /\ ~y.float THEN [float |-> FALSE, neg |-> d.neg, mag |-> d.mag]
             ELSE IF (~x.float /\ FloatOverflows(x)) \/ (~y.float /\ FloatOverflows(y)) THEN Raise
             ELSE AsNumber([kind |-> "float"])

\* sum(): one addition after the other; a float converts the integers it meets.
Plus(acc, n) ==
    IF IsError(acc) THEN acc
    ELSE IF ~acc.float /\ ~n.float
    THEN LET s == BigAdd(AsBig(acc), AsBig(n)) IN [float |-> FALSE, neg |-> s.neg, mag |-> s.mag]
    ELSE IF (~acc.float /\ FloatOverflows(acc)) \/ (acc.float /\ ~n.float /\ FloatOverflows(n)) THEN Raise
    ELSE AsNumber([kind |-> "float"])
SumValues(ns) == IF \E i \in DOMAIN ns : IsError(ns[i]) THEN ns[CHOOSE i \in DOMAIN ns : IsError(ns[i])]
                 ELSE FoldLeft(Plus, [float |-> FALSE, neg |-> FALSE, mag |-> <<>>], ns)
NumbersOf(vs) == [i \in DOMAIN vs |-> IF IsNumber(vs[i]) THEN AsNumber(vs[i]) ELSE Raise]

-----------------------------------------------------------------------------
(* CallgraphDifference.  A factor dictionary is a sequence of [key, value]   *)
(* with different keys, in insertion order.                                  *)

At(d, key) == {i \in DOMAIN d : d[i].key = key}
ValueAt(d, key) == d[CHOOSE i \in At(d, key) : TRUE].value

\* What one key adds to diffs, None when nothing.
Entry(f1, f2, key) ==
    IF At(f1, key) # {} /\ At(f2, key) # {}
    THEN IF PyNotEqual(ValueAt(f1, key), ValueAt(f2, key)) THEN MaxMinusMin(ValueAt(f1, key), ValueAt(f2, key))
         ELSE None
    ELSE LET v == ValueAt(IF At(f1, key) # {} THEN f1 ELSE f2, key) IN IF IsNumber(v) THEN AsNumber(v) ELSE Raise

\* diffs in dictionary order: the keys of the main factors, then those only the other has.
Diffs(f1, f2) ==
    LET keys == [i \in DOMAIN f1 |-> f1[i].key]
                \o SelectSeq([i \in DOMAIN f2 |-> f2[i].key], LAMBDA k : At(f1, k) = {})
    IN  SelectSeq([i \in DOMAIN keys |-> Entry(f1, f2, keys[i])], LAMBDA n : n # None)

\* percent is None where a float took part: it is not reproduced.
Outcome(equal, diff, total, percent) == [equal |-> equal, diff |-> diff, total |-> total, percent |-> percent]
ZeroSum == [float |-> FALSE, neg |-> FALSE, mag |-> <<>>]
IsZero(n) == ~n.float /\ n.mag = <<>>
IsBig(n) == ~n.float /\ FloatOverflows(n)

\* A positive double is a fraction <<numerator, denominator>>, or infinite.
Infinite == "infinite"
Log(n) == CHOOSE k \in 0 .. 29 : 2^k <= n /\ n < 2^(k + 1)

\* The double nearest to n / d, a tie to the even one.
Nearest(n, d) ==
    LET Scaled(e) == IF e < 0 THEN <<n * 2^(-e), d>> ELSE <<n, d * 2^e>>
        low == Log(n) - Log(d) - DoubleBits
        e == CHOOSE e \in low .. low + 1 : Scaled(e)[1] \div Scaled(e)[2] \in 2^(DoubleBits - 1) .. 2^DoubleBits - 1
        q == Scaled(e)[1] \div Scaled(e)[2]
        r == Scaled(e)[1] % Scaled(e)[2]
        m == IF 2 * r > Scaled(e)[2] \/ (2 * r = Scaled(e)[2] /\ q % 2 = 1) THEN q + 1 ELSE q
    IN  IF Log(m) + e > DoubleMaxExp THEN Infinite
        ELSE IF e < 0 THEN <<m, 2^(-e)>> ELSE <<m * 2^e, 1>>

BigToDouble(n) == Nearest(ValueOf(n.mag), 1)

\* BigToDouble(diff) * 100.0 / BigToDouble(total) for two integers that are not zero, against 0 and 100: the
\* conversions, the product and the quotient are rounded, and the product may be infinite.
PercentOfInts(diff, total) ==
    LET hundredfold == LET x == BigToDouble(diff) IN Nearest(100 * x[1], x[2])
        percent == IF hundredfold = Infinite THEN Infinite
                   ELSE LET y == BigToDouble(total) IN Nearest(hundredfold[1] * y[2], hundredfold[2] * y[1])
    IN  IF diff.neg = total.neg /\ (percent = Infinite \/ percent[1] >= 100 * percent[2])
        THEN "different" ELSE "between"

PercentOf(diff, total) ==
    CASE IsZero(total) -> Outcome(FALSE, diff, total, "zero")
      [] total.float -> IF IsZero(diff) THEN Outcome(FALSE, diff, total, "zero")
                        ELSE IF IsBig(diff) THEN Refuse
                        ELSE Outcome(FALSE, diff, total, None)
      [] ~total.float /\ ~IsZero(total) ->
            IF IsZero(diff) THEN Outcome(FALSE, diff, total, "zero")
            ELSE IF diff.float THEN (IF IsBig(total) THEN Refuse ELSE Outcome(FALSE, diff, total, None))
            ELSE IF IsBig(diff) \/ IsBig(total) THEN Raise
            ELSE Outcome(FALSE, diff, total, PercentOfInts(diff, total))

CallgraphDifference(cg1, f1, cg2, f2) ==
    LET equal == DecimalEquals(cg1, cg2)
        diff == SumValues(Diffs(f1.items, f2.items))
        total == SumValues(NumbersOf([i \in DOMAIN f1.items |-> f1.items[i].value]))
    IN  IF equal = Raise THEN Raise
        ELSE IF equal THEN Outcome(TRUE, ZeroSum, ZeroSum, "zero")
        ELSE IF ~f1.dict \/ ~f2.dict THEN Raise
        ELSE IF IsError(diff) THEN diff
        ELSE IF IsError(total) THEN total
        ELSE PercentOf(diff, total)

-----------------------------------------------------------------------------
(* The stages *)

Fail(e) == pstage' = e

\* An error of the query, or no row, ends the diff without matching; another version only warns.
StageCheckVersion ==
    /\ pstage = "version"
    /\ \/ program.version \in {"error", "noRow"} /\ pstage' = "notDiffed"
       \/ program.version = "undecodable" /\ Fail(Raise)
       \/ program.version \in {"current", "other"} /\ pstage' = "equalDb"
    /\ UNCHANGED <<program, equalDb, outcome, callgraphLog, sameProcessor>>

\* The same MD5, or no row that only main has.
StageEqualDb ==
    /\ pstage = "equalDb"
    /\ equalDb' = (program.md5s = 1 \/ program.rowsOnlyInMain = 0)
    /\ pstage' = "callgraph"
    /\ UNCHANGED <<program, outcome, callgraphLog, sameProcessor>>

LogLine(o) == CASE o.percent = "zero" -> "100% equal" [] o.percent = "different" -> "absolutely different"
             [] o.percent = "between" -> "differ" [] OTHER -> None

\* Every row is read before any is used; the four cells are converted in this order.
RowOutcome(rows) ==
    IF (\E i \in DOMAIN rows : ~rows[i].decodable) \/ Len(rows) # 2 THEN Raise
    ELSE LET cells == <<DecimalOfCell(rows[1].primes), rows[1].factors.json,
                        DecimalOfCell(rows[2].primes), rows[2].factors.json>>
             bad == {i \in DOMAIN cells : IsError(cells[i])}
         IN  IF bad # {} THEN cells[CHOOSE i \in bad : \A j \in bad : i <= j]
             ELSE CallgraphDifference(cells[1], rows[1].factors, cells[3], rows[2].factors)

StageCheckCallgraph ==
    /\ pstage = "callgraph"
    /\ \E o \in {RowOutcome(program.rows)} :
         /\ outcome' = o
         /\ IF IsError(o) THEN Fail(o) /\ UNCHANGED callgraphLog
            ELSE callgraphLog' = LogLine(o) /\ pstage' = "processor"
    /\ UNCHANGED <<program, equalDb, sameProcessor>>

\* SQL equality: a NULL equals nothing.
StageSameProcessor ==
    /\ pstage = "processor"
    /\ sameProcessor' = ((program.processors[1] \cap program.processors[2]) \ {None} # {})
    /\ pstage' = "matching"
    /\ UNCHANGED <<program, equalDb, outcome, callgraphLog>>

PreflightInit(p) ==
    /\ program = p
    /\ pstage = "version" /\ equalDb = None /\ outcome = None /\ callgraphLog = None /\ sameProcessor = None

PreflightNext == StageCheckVersion \/ StageEqualDb \/ StageCheckCallgraph \/ StageSameProcessor

-----------------------------------------------------------------------------
(* Properties *)

IntOf(n) == IF n.neg THEN -ValueOf(n.mag) ELSE ValueOf(n.mag)
Abs(n) == IF n < 0 THEN -n ELSE n
Pow(b, n) == FoldLeft(LAMBDA acc, k : acc * b, 1, [k \in 1 .. n |-> k])
SumOver(S, F(_)) == FoldLeft(LAMBDA n, k : n + F(k), 0, SetToSeq(S))

F1 == program.rows[1].factors
F2 == program.rows[2].factors
Keys(d) == {d[i].key : i \in DOMAIN d}
OnlyInts == \A f \in {F1.items, F2.items} : \A i \in DOMAIN f : f[i].value.kind \in {"int", "bool"}

\* Where only integers take part, of whatever size, the digit arithmetic gives the
\* exact sums: the distance of both values of a common key and the value itself of
\* a key one side has.  The line logged follows the doubles of both sums: "100%
\* equal" exactly where one of them is 0, "absolutely different" wherever the
\* difference reaches the total, and also where it comes so close that the
\* rounding makes 100 of the percentage, or is so large that a hundred times it is
\* infinite; everywhere else "differ".
PercentIsExact ==
    (outcome \notin {None, Raise, Refuse} /\ ~outcome.equal /\ OnlyInts) =>
        LET v1(k) == IntOf(ValueAt(F1.items, k))
            v2(k) == IntOf(ValueAt(F2.items, k))
            common == Keys(F1.items) \cap Keys(F2.items)
            diff == SumOver(common, LAMBDA k : Abs(v1(k) - v2(k)))
                    + SumOver(Keys(F1.items) \ common, v1) + SumOver(Keys(F2.items) \ common, v2)
            total == SumOver(Keys(F1.items), v1)
            sameSign == diff < 0 <=> total < 0
            reached == sameSign /\ Abs(diff) >= Abs(total)
            close == sameSign /\ 4 * Abs(diff) > (Abs(total) - Abs(diff)) * 2^DoubleBits
            large == sameSign /\ 100 * Abs(diff) >= 2^(DoubleMaxExp + 1) - 2^(DoubleMaxExp - DoubleBits + 2)
        IN  /\ IntOf(outcome.diff) = diff /\ IntOf(outcome.total) = total
            /\ callgraphLog = "100% equal" <=> total = 0 \/ diff = 0
            /\ callgraphLog # "100% equal" /\ reached => callgraphLog = "absolutely different"
            /\ callgraphLog = "absolutely different" => reached \/ close \/ large
            /\ callgraphLog \in {"100% equal", "absolutely different", "differ"}

\* A cell as the fraction of two integers.
Numerator(c) ==
    LET n == CASE c.type = "integer" -> ValueOf(c.mag)
               [] c.type = "real" -> ValueOf(c.m) * (IF c.shift > 0 THEN Pow(2, c.shift) ELSE 1)
               [] c.type = "text" -> ValueOf(c.whole \o c.fraction) * (IF c.exponent > 0 THEN Pow(10, c.exponent) ELSE 1)
    IN  IF c.neg THEN -n ELSE n
Denominator(c) ==
    CASE c.type = "integer" -> 1
      [] c.type = "real" -> IF c.shift < 0 THEN Pow(2, -c.shift) ELSE 1
      [] c.type = "text" -> Pow(10, Len(c.fraction)) * (IF c.exponent < 0 THEN Pow(10, -c.exponent) ELSE 1)

\* The two call graph signatures are found equal exactly when their values are,
\* whichever types and spellings the two databases store them in.
DecimalsCompareByValue ==
    (outcome \notin {None, Raise, Refuse}) =>
        LET c1 == program.rows[1].primes
            c2 == program.rows[2].primes
        IN  {c1.type, c2.type} \subseteq {"integer", "real", "text"} =>
                (outcome.equal <=> Numerator(c1) * Denominator(c2) = Numerator(c2) * Denominator(c1))

\* Python's last lines, with the zero tests of float sums, which the port does not
\* know, decided by zeroTotal and zeroDiff.
PythonRaises(diff, total, zeroTotal, zeroDiff) ==
    /\ ~(IF total.float THEN zeroTotal ELSE total.mag = <<>>)
    /\ ~(IF diff.float THEN zeroDiff ELSE diff.mag = <<>>)
    /\ IsBig(diff) \/ IsBig(total)

\* Given both sums, the check raises only where Python raises whatever a float sum
\* came to, goes on only where Python does, and refuses exactly the inputs where
\* that depends on the unknown value.
UndecidedIsRefused ==
    (outcome # None /\ Len(program.rows) = 2 /\ program.rows[1].decodable /\ program.rows[2].decodable
        /\ F1.json = "ok" /\ F2.json = "ok" /\ F1.dict /\ F2.dict
        /\ {program.rows[1].primes.type, program.rows[2].primes.type} \subseteq {"integer", "real", "text"}) =>
        LET diff == SumValues(Diffs(F1.items, F2.items))
            total == SumValues(NumbersOf([i \in DOMAIN F1.items |-> F1.items[i].value]))
            raises == {PythonRaises(diff, total, z1, z2) : z1 \in BOOLEAN, z2 \in BOOLEAN}
        IN  IF ~IsError(outcome) THEN outcome.equal \/ (~IsError(diff) /\ ~IsError(total) /\ raises = {FALSE})
            ELSE IF IsError(diff) \/ IsError(total) THEN outcome = Raise
            ELSE (outcome = Refuse <=> raises = BOOLEAN) /\ (outcome = Raise <=> raises = {TRUE})


=============================================================================
