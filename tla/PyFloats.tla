------------------------------ MODULE PyFloats ------------------------------
(***************************************************************************)
(* float(str) and repr(float) as PyValue.cpp ports them: exact conversion  *)
(* between decimal digits and binary floats on integers of any size.       *)
(*                                                                         *)
(* The float format and the word sizes are constants, 53-bit mantissas     *)
(* and 32-bit limbs in the source.  A decimal is a sequence of digits, the *)
(* most significant first; a BigUInt a sequence of limbs, the least        *)
(* significant first, without zero limbs on top.  A finite float is        *)
(* [kind |-> "finite", neg, m, e], m * 2^e with m odd, or m = 0 and e = 0. *)
(***************************************************************************)
EXTENDS Integers, Sequences, FiniteSets, SequencesExt, PyOutcomes

CONSTANTS LimbBits,        \* 32
          PowDigits,       \* 9: 10^9 fits into a limb
          PowFives,        \* 13: 5^13 fits into a limb
          Precision,       \* 53
          MaxExp,          \* 1023
          MinExp,          \* -1022
          QuotientBits,    \* 64
          MaxSignificant,  \* kMaxSignificantDigits, 800
          MaxMagnitude,    \* 310: from 10^310 on everything is infinite
          MinMagnitude,    \* -324: below 10^-324 everything is zero
          MaxExpDigits,    \* 8: longer exponents count as the next constant
          MaxAbsExp,       \* kMaxAbsExp, 1100000000
          ReprDigits,      \* 17
          ReprLow,         \* -4
          ReprHigh         \* 16

Base == 2^LimbBits
ASSUME FormatAssumption ==
    /\ LimbBits \in Nat \ {0} /\ 10^PowDigits < Base /\ 5^PowFives < Base
    /\ QuotientBits >= Precision + 2 /\ MinExp < MaxExp

-----------------------------------------------------------------------------
(* BigUInt *)

Top(S) == CHOOSE n \in S : \A k \in S : k <= n
Trim(x) == SubSeq(x, 1, Top({0} \cup {i \in DOMAIN x : x[i] # 0}))

Bits(n) == Top({0} \cup {k \in 1 .. 30 : n >= 2^(k - 1)})
BitLength(x) == IF x = <<>> THEN 0 ELSE (Len(x) - 1) * LimbBits + Bits(x[Len(x)])

MulAdd(x, factor, addend) ==
    LET carry[i \in 0 .. Len(x)] == IF i = 0 THEN addend ELSE (x[i] * factor + carry[i - 1]) \div Base
        low == [i \in DOMAIN x |-> (x[i] * factor + carry[i - 1]) % Base]
    IN  IF carry[Len(x)] = 0 THEN low ELSE Append(low, carry[Len(x)])

\* Powers of ten and of five go in by as much as fits into a limb.
MulPow(x, base, chunk, count) ==
    LET whole == FoldLeft(LAMBDA acc, k : MulAdd(acc, base^chunk, 0), x, [k \in 1 .. count \div chunk |-> k])
    IN  IF count % chunk = 0 THEN whole ELSE MulAdd(whole, base^(count % chunk), 0)
MulPow10(x, count) == MulPow(x, 10, PowDigits, count)
MulPow5(x, count) == MulPow(x, 5, PowFives, count)

ShiftLeft(x, bits) ==
    LET rest == bits % LimbBits
        Part(i) == (IF i \in DOMAIN x THEN (x[i] * 2^rest) % Base ELSE 0)
                   + (IF i > 1 THEN x[i - 1] \div 2^(LimbBits - rest) ELSE 0)
    IN  IF x = <<>> \/ bits = 0 THEN x
        ELSE [i \in 1 .. bits \div LimbBits |-> 0] \o Trim([i \in 1 .. Len(x) + 1 |-> Part(i)])

ShiftRightOne(x) ==
    Trim([i \in DOMAIN x |-> x[i] \div 2 + (IF i < Len(x) THEN (x[i + 1] % 2) * 2^(LimbBits - 1) ELSE 0)])

Compare(x, y) ==
    IF Len(x) # Len(y) THEN (IF Len(x) < Len(y) THEN -1 ELSE 1)
    ELSE LET i == Top({0} \cup {i \in DOMAIN x : x[i] # y[i]})
         IN  IF i = 0 THEN 0 ELSE IF x[i] < y[i] THEN -1 ELSE 1

Subtract(x, y) ==
    LET Limb(i) == IF i \in DOMAIN y THEN y[i] ELSE 0
        borrow[i \in 0 .. Len(x)] == IF i = 0 THEN 0 ELSE IF x[i] - borrow[i - 1] - Limb(i) < 0 THEN 1 ELSE 0
    IN  Trim([i \in DOMAIN x |-> (x[i] - borrow[i - 1] - Limb(i)) % Base])

\* [quotient, remainder], from the top limb down.
DivSmall(x, divisor) ==
    LET over[i \in 1 .. Len(x) + 1] == IF i > Len(x) THEN 0 ELSE (over[i + 1] * Base + x[i]) % divisor
    IN  [quotient |-> Trim([i \in DOMAIN x |-> (over[i + 1] * Base + x[i]) \div divisor]),
         remainder |-> over[1]]

\* The n decimal digits of a number below 10^n.
PaddedDigits(k, n) == [i \in 1 .. n |-> (k \div 10^(n - i)) % 10]
NumberOf(digits) == FoldLeft(LAMBDA n, d : 10 * n + d, 0, digits)

Significant(digits) == LET S == {i \in DOMAIN digits : digits[i] # 0}
                       IN  IF S = {} THEN <<>> ELSE SubSeq(digits, CHOOSE i \in S : \A k \in S : i <= k, Len(digits))
WithoutTail(digits) == SubSeq(digits, 1, Top({0} \cup {i \in DOMAIN digits : digits[i] # 0}))

\* By chunks of as many digits as fit into a limb, only the first one unpadded.
ToDecimal(x) ==
    LET chunks[n \in 0 .. 2 * Len(x)] ==    \* [left, out] after n divisions
            IF n = 0 THEN [left |-> x, out |-> <<>>]
            ELSE LET was == chunks[n - 1]
                 IN  IF was.left = <<>> THEN was
                     ELSE LET d == DivSmall(was.left, 10^PowDigits)
                          IN  [left |-> d.quotient, out |-> PaddedDigits(d.remainder, PowDigits) \o was.out]
    IN  IF x = <<>> THEN <<0>> ELSE Significant(chunks[2 * Len(x)].out)

FromDecimal(digits) ==
    LET head == Len(digits) % PowDigits
        first == SubSeq(digits, 1, head)
        Chunk(k) == SubSeq(digits, head + (k - 1) * PowDigits + 1, head + k * PowDigits)
        start == IF head = 0 THEN <<>> ELSE MulAdd(<<>>, 10^head, NumberOf(first))
    IN  FoldLeft(LAMBDA acc, k : MulAdd(acc, 10^PowDigits, NumberOf(Chunk(k))), start,
                 [k \in 1 .. Len(digits) \div PowDigits |-> k])

-----------------------------------------------------------------------------
(* DecimalToDouble *)

Zero(neg) == [kind |-> "finite", neg |-> neg, m |-> 0, e |-> 0]
Infinity(neg) == [kind |-> "inf", neg |-> neg]
NotANumber == [kind |-> "nan"]

\* ldexp: m * 2^e in its one form, infinite when it is too large.
Ldexp(neg, m, e) ==
    LET twos == Top({k \in 0 .. Bits(m) : m % 2^k = 0})
    IN  IF m = 0 THEN Zero(neg)
        ELSE IF Bits(m) - 1 + e > MaxExp THEN Infinity(neg)
        ELSE [kind |-> "finite", neg |-> neg, m |-> m \div 2^twos, e |-> e + twos]

\* The quotient of QuotientBits bits and whether a remainder is left: long division.
LongDivision(numerator, denominator) ==
    LET Step(w, bit) ==
            IF Compare(w.num, w.step) >= 0
            THEN [num |-> Subtract(w.num, w.step), step |-> ShiftRightOne(w.step), q |-> w.q + 2^bit]
            ELSE [w EXCEPT !.step = ShiftRightOne(@)]
        end == FoldLeft(Step, [num |-> numerator, step |-> ShiftLeft(denominator, QuotientBits - 1), q |-> 0],
                        [i \in 1 .. QuotientBits |-> QuotientBits - i])
    IN  [q |-> end.q, sticky |-> end.num # <<>>]

\* quotient * 2^-k to the nearest float, a tie to the even one; a subnormal keeps fewer bits.
Rounded(neg, division, k) ==
    LET quotient == division.q
        sticky == division.sticky
        bits == Bits(quotient)
        exp2 == bits - 1 - k
        keep == IF exp2 >= MinExp THEN Precision ELSE exp2 + Precision - MinExp
        shift == bits - keep
        kept == IF shift < QuotientBits THEN quotient \div 2^shift ELSE 0
        dropped == quotient % 2^shift
        half == 2^(shift - 1)
        up == CASE shift < QuotientBits -> dropped > half \/ (dropped = half /\ (sticky \/ kept % 2 = 1))
                [] shift = QuotientBits -> quotient > half \/ (quotient = half /\ sticky)
                [] OTHER -> FALSE
    IN  IF exp2 > MaxExp THEN Infinity(neg)
        ELSE Ldexp(neg, IF up THEN kept + 1 ELSE kept, shift - k)

\* Mutant: the digits past the cut are forgotten.
CutOff(digits) == IF Len(digits) > MaxSignificant THEN Append(SubSeq(digits, 1, MaxSignificant), 0) ELSE digits

\* A longer input keeps MaxSignificant digits and a 1 for the rest, which is not zero.
Shortened(digits) == IF Len(digits) > MaxSignificant THEN Append(SubSeq(digits, 1, MaxSignificant), 1) ELSE digits

\* The division is shifted so that the quotient has QuotientBits bits, or one less.
Quotient(neg, numerator, denominator) ==
    LET k == QuotientBits - 1 - (BitLength(numerator) - BitLength(denominator))
    IN  Rounded(neg, LongDivision(IF k > 0 THEN ShiftLeft(numerator, k) ELSE numerator,
                                  IF k < 0 THEN ShiftLeft(denominator, -k) ELSE denominator), k)

\* 0.digits * 10^magnitude.
FractionToDouble(neg, digits, magnitude) ==
    LET exp10 == magnitude - Len(digits)
    IN  IF digits = <<>> \/ magnitude <= MinMagnitude THEN Zero(neg)
        ELSE IF magnitude > MaxMagnitude THEN Infinity(neg)
        ELSE Quotient(neg, MulPow10(FromDecimal(digits), IF exp10 >= 0 THEN exp10 ELSE 0),
                           MulPow10(<<1>>, IF exp10 < 0 THEN -exp10 ELSE 0))

DecimalToDouble(neg, digits, exponent) ==
    FractionToDouble(neg, Shortened(WithoutTail(Significant(digits))), exponent + Len(Significant(digits)))

-----------------------------------------------------------------------------
(* PyFloat.  A text is a sequence of characters; "inf", "inity" and "nan"    *)
(* stand for these letters in either case.                                   *)

DigitChars == <<"0", "1", "2", "3", "4", "5", "6", "7", "8", "9">>
IsAsciiDigit(c) == c \in Range(DigitChars)
DigitOf(c) == (CHOOSE i \in DOMAIN DigitChars : DigitChars[i] = c) - 1
CharOf(d) == DigitChars[d + 1]
DigitsOf(text) == [i \in DOMAIN text |-> DigitOf(text[i])]
PySpaces == {" "}

\* How many characters of a set follow each other from a place on.
Span(text, from, S) ==
    LET stops == {i \in from .. Len(text) : text[i] \notin S}
    IN  IF stops = {} THEN Len(text) + 1 - from ELSE (CHOOSE i \in stops : \A k \in stops : i <= k) - from
From(text, i) == IF i \in DOMAIN text THEN text[i] ELSE ""

\* An underscore stands between two digits, as the loop with Prev sees it.
UnderscoresFit(text) ==
    \A i \in DOMAIN text : text[i] = "_" => i > 1 /\ IsAsciiDigit(text[i - 1]) /\ IsAsciiDigit(From(text, i + 1))

Stripped(text) ==
    LET inner == {i \in DOMAIN text : text[i] \notin PySpaces}
    IN  IF inner = {} THEN <<>>
        ELSE SubSeq(text, CHOOSE i \in inner : \A k \in inner : i <= k, Top(inner))

ClampedExponent(digits) ==
    LET value == NumberOf(digits)
    IN  IF Len(Significant(digits)) > MaxExpDigits \/ value > MaxAbsExp THEN MaxAbsExp ELSE value

\* [end, value]: the exponent that starts at i, with its own end; none there leaves i.
ExponentAt(text, i) ==
    LET sign == IF From(text, i + 1) \in {"+", "-"} THEN 1 ELSE 0
        count == Span(text, i + 1 + sign, Range(DigitChars))
        digits == DigitsOf(SubSeq(text, i + 1 + sign, i + sign + count))
    IN  IF From(text, i) # "e" \/ count = 0 THEN [end |-> i, value |-> 0]
        ELSE [end |-> i + 1 + sign + count,
              value |-> IF From(text, i + 1) = "-" THEN -ClampedExponent(digits) ELSE ClampedExponent(digits)]

\* _Py_parse_inf_or_nan, after the sign.
InfOrNan(body, neg) ==
    IF body \in {<<"inf">>, <<"inf", "inity">>} THEN Infinity(neg)
    ELSE IF body = <<"nan">> THEN NotANumber ELSE Raise

PyFloatAscii(input) ==
    LET text == IF UnderscoresFit(input) THEN SelectSeq(input, LAMBDA c : c # "_") ELSE <<>>
        body == Stripped(text)
        sign == IF From(body, 1) \in {"+", "-"} THEN 1 ELSE 0
        neg == From(body, 1) = "-"
        whole == Span(body, sign + 1, Range(DigitChars))
        point == sign + 1 + whole
        fraction == IF From(body, point) = "." THEN Span(body, point + 1, Range(DigitChars)) ELSE 0
        exponent == ExponentAt(body, IF From(body, point) = "." THEN point + 1 + fraction ELSE point)
        digits == DigitsOf(SubSeq(body, sign + 1, sign + whole) \o SubSeq(body, point + 1, point + fraction))
    IN  IF "NUL" \in Range(input) \/ body = <<>> THEN Raise
        ELSE IF whole + fraction = 0 THEN InfOrNan(SubSeq(body, sign + 1, Len(body)), neg)
        ELSE IF exponent.end # Len(body) + 1 THEN Raise
        ELSE DecimalToDouble(neg, digits, exponent.value - fraction)

PyFloat(text) == IF "non-ASCII" \in Range(text) THEN Refuse ELSE PyFloatAscii(text)

-----------------------------------------------------------------------------
(* PyReprFloat.  [digits, point] is 0.digits * 10^point. *)

ToLimbs(n) == FromDecimal(PaddedDigits(n, 9))
PointedAt(digits, e) == [digits |-> WithoutTail(digits), point |-> Len(digits) + (IF e < 0 THEN e ELSE 0)]
ExactDecimal(v) ==
    PointedAt(ToDecimal(IF v.e >= 0 THEN ShiftLeft(ToLimbs(v.m), v.e) ELSE MulPow5(ToLimbs(v.m), -v.e)), v.e)

\* The next number of as many digits: 99 gives 10 with the point one further.
Incremented(d) ==
    LET nines == {i \in DOMAIN d.digits : \A k \in i .. Len(d.digits) : d.digits[k] = 9}
        n == Len(d.digits) - Cardinality(nines)
    IN  IF n = 0 THEN [digits |-> [i \in DOMAIN d.digits |-> IF i = 1 THEN 1 ELSE 0], point |-> d.point + 1]
        ELSE [d EXCEPT !.digits = [i \in DOMAIN @ |-> IF i = n THEN @[i] + 1 ELSE IF i > n THEN 0 ELSE @[i]]]

RoundTrips(d, v) == DecimalToDouble(FALSE, d.digits, d.point - Len(d.digits)) = v

\* Of the candidates that read as v again the closer one, without trailing zeros.
Chosen(fits, closer) ==
    IF fits = {} THEN None
    ELSE [(IF closer \in fits THEN closer ELSE CHOOSE d \in fits : TRUE) EXCEPT !.digits = WithoutTail(@)]

\* The two decimals of precision digits around v; a tie goes to the even digit.
AtPrecision(v, exact, precision) ==
    LET down == [exact EXCEPT !.digits = SubSeq(@, 1, precision)]
        up == Incremented(down)
        rest == SubSeq(exact.digits, precision + 1, Len(exact.digits))
        nearer == rest[1] > 5 \/ (rest[1] = 5 /\ (Len(rest) > 1 \/ down.digits[precision] % 2 = 1))
    IN  Chosen({d \in {down, up} : RoundTrips(d, v)}, IF nearer THEN up ELSE down)

OrElse(d, next) == IF d # None THEN d ELSE next

\* The least precision that has one; the exact decimal itself when it is no longer.
ShortestOf(v, exact) ==
    LET precisions == {p \in 1 .. ReprDigits : p < Len(exact.digits)}
        At[p \in 1 .. ReprDigits + 1] ==
            IF p \notin precisions THEN exact ELSE OrElse(AtPrecision(v, exact, p), At[p + 1])
    IN  At[1]
ShortestDigits(v) == ShortestOf(v, ExactDecimal(v))

Chars(digits) == [i \in DOMAIN digits |-> CharOf(digits[i])]
Zeros(n) == [i \in 1 .. n |-> "0"]

\* The decimal written with an exponent, with leading zeros, with trailing zeros, or with the point inside.
Written(d) ==
    LET n == Len(d.digits)
        exp == d.point - 1
        size == IF exp < 0 THEN -exp ELSE exp
    IN  CASE d.point <= ReprLow \/ d.point > ReprHigh ->
                  Chars(SubSeq(d.digits, 1, 1))
                  \o (IF n > 1 THEN <<".">> \o Chars(SubSeq(d.digits, 2, n)) ELSE <<>>)
                  \o <<"e", IF exp < 0 THEN "-" ELSE "+">> \o Chars(PaddedDigits(size, 2))
          [] d.point > ReprLow /\ d.point <= 0 -> <<"0", ".">> \o Zeros(-d.point) \o Chars(d.digits)
          [] d.point <= ReprHigh /\ d.point >= n /\ d.point > 0 ->
                  Chars(d.digits) \o Zeros(d.point - n) \o <<".", "0">>
          [] OTHER -> Chars(SubSeq(d.digits, 1, d.point)) \o <<".">> \o Chars(SubSeq(d.digits, d.point + 1, n))

PyReprFloat(v) ==
    CASE v.kind = "nan" -> <<"nan">>
      [] v.kind = "inf" -> IF v.neg THEN <<"-", "inf">> ELSE <<"inf">>
      [] v.kind = "finite" -> (IF v.neg THEN <<"-">> ELSE <<>>)
                              \o (IF v.m = 0 THEN <<"0", ".", "0">>
                                  ELSE Written(ShortestDigits([v EXCEPT !.neg = FALSE])))

=============================================================================
