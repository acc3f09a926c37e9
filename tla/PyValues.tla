------------------------------ MODULE PyValues ------------------------------
(***************************************************************************)
(* json.loads, Python's equality and Python's sets as PyValue.cpp ports    *)
(* them, and float() and repr() of PyFloats.                               *)
(*                                                                         *)
(* A text is a sequence of characters.  The words of JSON and the four hex *)
(* digits after \u are one character each, "e" is the exponent letter in   *)
(* either case, and "x" any other.  A str value is a sequence of code      *)
(* points.                                                                 *)
(***************************************************************************)
EXTENDS PyFloats

CONSTANTS MaxJsonDepth,    \* kMaxJsonDepth
          TooDeep          \* JsonDepthExceeded

VARIABLES work,     \* the call: [op, ...], see PyInit
          result,   \* what it came to, or None
          lists,    \* set(json.loads(text)) of both sides: the elements not yet inserted, or None
          sets      \* the sets so far

yvars == <<work, result, lists, sets>>

-----------------------------------------------------------------------------
(* PyJsonParser.  A part of the grammar read from i on is [value, end].      *)

Whitespace == {" ", "newline"}
Controls == {"newline"}
SkipWs(text, i) == i + Span(text, i, Whitespace)
Read(value, end) == [value |-> value, end |-> end]
Failed(r) == r \in {Raise, TooDeep}

NoneValue == [kind |-> "none"]
BoolValue(b) == [kind |-> "bool", b |-> b]
IntValue(neg, digits) == [kind |-> "int", neg |-> neg, digits |-> digits]
FloatValue(v) == [kind |-> "float", v |-> v]
StrValue(s) == [kind |-> "str", s |-> s]
ListValue(items) == [kind |-> "list", items |-> items]
DictValue(keys, values) == [kind |-> "dict", keys |-> keys, values |-> values]

ParseNumber(text, i) ==
    LET neg == From(text, i) = "-"
        start == IF neg THEN i + 1 ELSE i
        whole == IF From(text, start) = "0" THEN 1 ELSE Span(text, start, Range(DigitChars))
        point == start + whole
        fraction == IF From(text, point) = "." THEN Span(text, point + 1, Range(DigitChars)) ELSE 0
        end == IF fraction > 0 THEN point + 1 + fraction ELSE point
        exponent == ExponentAt(text, end)
        integer == DigitsOf(SubSeq(text, start, point - 1))
        digits == integer \o DigitsOf(SubSeq(text, point + 1, point + fraction))
    IN  IF whole = 0 THEN Raise
        ELSE IF exponent.end = end /\ fraction = 0 THEN Read(IntValue(neg /\ integer # <<0>>, integer), point)
        ELSE Read(FloatValue(DecimalToDouble(neg, digits, exponent.value - fraction)), exponent.end)

\* A \u escape: its code and, of a high surrogate, the low one of a next escape.
CodePoint == [d800 |-> "U+D800", dc00 |-> "U+DC00", e9 |-> "U+E9"]
Hex4(text, i) == IF From(text, i) \in DOMAIN CodePoint THEN CodePoint[text[i]] ELSE Raise
UnicodeEscape(text, i) ==
    LET code == Hex4(text, i)
        paired == code = "U+D800" /\ i + 4 <= Len(text) /\ text[i + 1] = "\\" /\ text[i + 2] = "u"
        low == Hex4(text, i + 3)
    IN  IF code = Raise \/ (paired /\ low = Raise) THEN Raise
        ELSE IF paired /\ low = "U+DC00" THEN Read("U+10000", i + 4) ELSE Read(code, i + 1)

Escapes == [n |-> "newline"]
Escaped(text, i) ==
    CASE From(text, i) \in {"\"", "\\", "/"} -> Read(text[i], i + 1)
      [] From(text, i) \in DOMAIN Escapes -> Read(Escapes[text[i]], i + 1)
      [] From(text, i) = "u" -> UnicodeEscape(text, i + 1)
      [] OTHER -> Raise

RECURSIVE StringFrom(_, _, _)
StringFrom(text, i, out) ==
    LET c == From(text, i)
        escape == Escaped(text, i + 1)
    IN  IF i > Len(text) \/ c \in Controls THEN Raise
        ELSE IF c = "\"" THEN Read(out, i + 1)
        ELSE IF c # "\\" THEN StringFrom(text, i + 1, Append(out, c))
        ELSE IF escape = Raise THEN Raise ELSE StringFrom(text, escape.end, Append(out, escape.value))
ParseString(text, i) == StringFrom(text, i + 1, <<>>)

\* dict assignment: a key that is there keeps its place, its value is replaced.
Assign(d, key, value) ==
    LET at == {k \in DOMAIN d.keys : d.keys[k] = key}
    IN  IF at = {} THEN DictValue(Append(d.keys, key), Append(d.values, value))
        ELSE [d EXCEPT !.values = [k \in DOMAIN @ |-> IF k \in at THEN value ELSE @[k]]]

RECURSIVE ParseValue(_, _, _), ArrayFrom(_, _, _, _), ObjectFrom(_, _, _, _)

\* After a comma another element follows, never the end.
AfterElement(text, element, depth, items) ==
    LET next == SkipWs(text, element.end)
        after == SkipWs(text, next + 1)
    IN  IF From(text, next) = "]" THEN Read(ListValue(Append(items, element.value)), next + 1)
        ELSE IF From(text, next) # "," \/ From(text, after) = "]" THEN Raise
        ELSE ArrayFrom(text, after, depth, Append(items, element.value))
OrFailed(r, rest) == IF Failed(r) THEN r ELSE rest
ArrayFrom(text, i, depth, items) ==
    LET element == ParseValue(text, i, depth)
    IN  OrFailed(element, AfterElement(text, element, depth, items))

AfterMember(text, member, depth, dict) ==
    LET next == SkipWs(text, member.end)
        after == SkipWs(text, next + 1)
    IN  IF From(text, next) = "}" THEN Read(dict, next + 1)
        ELSE IF From(text, next) # "," \/ From(text, after) = "}" THEN Raise
        ELSE ObjectFrom(text, after, depth, dict)
AfterKey(text, key, depth, dict) ==
    LET colon == SkipWs(text, key.end)
        member == ParseValue(text, SkipWs(text, colon + 1), depth)
    IN  IF From(text, colon) # ":" THEN Raise
        ELSE OrFailed(member, AfterMember(text, member, depth, Assign(dict, key.value, member.value)))
ObjectFrom(text, i, depth, dict) ==
    LET key == ParseString(text, i)
    IN  IF From(text, i) # "\"" THEN Raise ELSE OrFailed(key, AfterKey(text, key, depth, dict))

ParseArray(text, i, depth) ==
    LET first == SkipWs(text, i + 1)
    IN  IF depth > MaxJsonDepth THEN TooDeep
        ELSE IF From(text, first) = "]" THEN Read(ListValue(<<>>), first + 1)
        ELSE ArrayFrom(text, first, depth, <<>>)

ParseObject(text, i, depth) ==
    LET first == SkipWs(text, i + 1)
    IN  IF depth > MaxJsonDepth THEN TooDeep
        ELSE IF From(text, first) = "}" THEN Read(DictValue(<<>>, <<>>), first + 1)
        ELSE ObjectFrom(text, first, depth, DictValue(<<>>, <<>>))

ParseValue(text, i, depth) ==
    LET c == From(text, i)
        string == ParseString(text, i)
    IN  CASE c = "\"" -> OrFailed(string, Read(StrValue(string.value), string.end))
          [] c = "{" -> ParseObject(text, i, depth + 1)
          [] c = "[" -> ParseArray(text, i, depth + 1)
          [] c = "null" -> Read(NoneValue, i + 1)
          [] c \in {"true", "false"} -> Read(BoolValue(c = "true"), i + 1)
          [] c = "NaN" -> Read(FloatValue(NotANumber), i + 1)
          [] c = "Infinity" -> Read(FloatValue(Infinity(FALSE)), i + 1)
          [] c = "-" /\ From(text, i + 1) = "Infinity" -> Read(FloatValue(Infinity(TRUE)), i + 2)
          [] IsAsciiDigit(c) \/ (c = "-" /\ From(text, i + 1) # "Infinity") -> ParseNumber(text, i)
          [] OTHER -> Raise

\* Nothing but whitespace follows the value.
WholeText(text, r) == IF SkipWs(text, r.end) # Len(text) + 1 THEN Raise ELSE r.value
Document(text) == LET r == ParseValue(text, SkipWs(text, 1), 0) IN OrFailed(r, WholeText(text, r))

Declined(v) == IF v = TooDeep THEN Refuse ELSE v
PyJsonLoads(text) == Declined(Document(text))

\* What set() iterates over: a list, the keys of a dict, the characters of a str.
\* A list that is too deep has an element that is one, so Python raises anyway.
Iterated(text, v) ==
    IF v = TooDeep THEN (IF From(text, SkipWs(text, 1)) = "[" THEN Raise ELSE Refuse)
    ELSE IF v = Raise THEN Raise
    ELSE CASE v.kind = "list" -> v.items
           [] v.kind = "dict" -> [i \in DOMAIN v.keys |-> StrValue(v.keys[i])]
           [] v.kind = "str" -> [i \in DOMAIN v.s |-> StrValue(<<v.s[i]>>)]
           [] OTHER -> Raise
PyJsonLoadsList(text) == Iterated(text, Document(text))

-----------------------------------------------------------------------------
(* PyEquals, PyHash and PySet *)

IsNumeric(x) == x.kind \in {"bool", "int", "float"}

\* The digits of an integral float, directly while the float holds every integer.
WithZeros(exact) == exact.digits \o [i \in 1 .. exact.point - Len(exact.digits) |-> 0]
IntegralDoubleDigits(v) ==
    IF v.m * 2^v.e < 2^Precision THEN Significant(PaddedDigits(v.m * 2^v.e, 9)) ELSE WithZeros(ExactDecimal(v))

\* [neg, digits] of an integral number, None of another value.
IntegralDigits(x) ==
    CASE x.kind = "bool" -> IntValue(FALSE, IF x.b THEN <<1>> ELSE <<0>>)
      [] x.kind = "int" -> x
      [] x.kind = "float" -> IF x.v.kind # "finite" THEN None
                             ELSE IF x.v.m = 0 THEN IntValue(FALSE, <<0>>)
                             ELSE IF x.v.e < 0 THEN None ELSE IntValue(x.v.neg, IntegralDoubleDigits(x.v))
      [] OTHER -> None

\* == of two doubles, and the one NaN object of the json module is itself.
FloatEquals(v, w) == v = w \/ (v.kind = "finite" /\ w.kind = "finite" /\ v.m = 0 /\ w.m = 0)

SameInteger(i, k) == i # None /\ i = k

RECURSIVE PyEquals(_, _)
PyEquals(x, y) ==
    IF IsNumeric(x) /\ IsNumeric(y)
    THEN IF x.kind = "float" /\ y.kind = "float" THEN FloatEquals(x.v, y.v)
         ELSE SameInteger(IntegralDigits(x), IntegralDigits(y))
    ELSE /\ x.kind = y.kind
         /\ CASE x.kind = "none" -> TRUE
              [] x.kind = "str" -> x.s = y.s
              [] x.kind = "list" -> /\ Len(x.items) = Len(y.items)
                                    /\ \A i \in DOMAIN x.items : PyEquals(x.items[i], y.items[i])
              [] x.kind = "dict" -> /\ Len(x.keys) = Len(y.keys)
                                    /\ \A i \in DOMAIN x.keys : \E k \in DOMAIN y.keys :
                                          x.keys[i] = y.keys[k] /\ PyEquals(x.values[i], y.values[k])

Hashable(x) == x.kind \notin {"list", "dict"}
HashBytes(bytes, seed) == (Len(bytes) + seed) % 3     \* any hash will do, and values collide

\* Mutant: a float is hashed by its bits, an integral one too.
PyHashOfBits(x) == CASE x.kind = "none" -> 0
                     [] x.kind = "str" -> HashBytes(x.s, 1)
                     [] x.kind \in {"int", "bool"} -> HashBytes(IntegralDigits(x).digits, 2)
                     [] OTHER -> IF x.v.kind = "finite" THEN HashBytes(<<x.v.neg, x.v.m, x.v.e>>, x.v.m) ELSE 1

NumberHash(x, integral) ==
    IF integral # None THEN HashBytes(integral.digits, 2)
    ELSE IF x.v.kind = "finite" THEN HashBytes(<<x.v.neg, x.v.m, x.v.e>>, x.v.m) ELSE 1
PyHash(x) == CASE x.kind = "none" -> 0
               [] x.kind = "str" -> HashBytes(x.s, 1)
               [] OTHER -> NumberHash(x, IntegralDigits(x))

\* A set is [items, index]: the elements in the order of their insertion, and
\* pairs <<hash, position>>.
EmptySet == [items |-> <<>>, index |-> {}]
PySetContains(s, x) == \E h \in s.index : h[1] = PyHash(x) /\ PyEquals(s.items[h[2]], x)
PySetInsert(s, x) ==
    IF PySetContains(s, x) THEN s
    ELSE [items |-> Append(s.items, x), index |-> s.index \cup {<<PyHash(x), Len(s.items) + 1>>}]

\* In the order of main; the keys are those of diff unless diff is the larger set.
PySetIntersection(main, diff) ==
    LET Key(x) == diff.items[CHOOSE i \in DOMAIN diff.items :
                      \A k \in 1 .. i : PyEquals(diff.items[k], x) <=> k = i]
        Keys(common) == IF Len(diff.items) <= Len(main.items) THEN [i \in DOMAIN common |-> Key(common[i])] ELSE common
    IN  Keys(SelectSeq(main.items, LAMBDA x : PySetContains(diff, x)))

PySetIntersectionSize(s, t) ==
    LET small == IF Len(s.items) <= Len(t.items) THEN s ELSE t
        large == IF Len(s.items) <= Len(t.items) THEN t ELSE s
    IN  Len(SelectSeq(small.items, LAMBDA x : PySetContains(large, x)))

\* str() of a set element.
IntChars(x) == (IF x.neg THEN <<"-">> ELSE <<>>) \o Chars(x.digits)
PyStr(x) == CASE x.kind = "none" -> <<"None">>
              [] x.kind = "bool" -> IF x.b THEN <<"True">> ELSE <<"False">>
              [] x.kind = "int" -> IntChars(x)
              [] x.kind = "float" -> PyReprFloat(x.v)
              [] x.kind = "str" -> x.s
              [] OTHER -> Refuse

-----------------------------------------------------------------------------
Convert ==
    /\ work.op # "sets" /\ result = None
    /\ result' = CASE work.op = "float" -> PyFloat(work.text)
                   [] work.op = "decimal" -> DecimalToDouble(work.neg, work.digits, work.exponent)
                   [] work.op = "repr" -> PyReprFloat(work.value)
                   [] work.op = "loads" -> PyJsonLoads(work.text)
    /\ UNCHANGED <<work, lists, sets>>

\* set(json.loads(text)) of one side after the other.
Load(side) ==
    /\ work.op = "sets" /\ result = None /\ lists[side] = None
    /\ side = 2 => lists[1] = <<>>
    /\ \E items \in {PyJsonLoadsList(work.texts[side])} :
          IF IsError(items) THEN result' = items /\ UNCHANGED lists
          ELSE lists' = [lists EXCEPT ![side] = items] /\ UNCHANGED result
    /\ UNCHANGED <<work, sets>>

Insert(side) ==
    /\ work.op = "sets" /\ result = None /\ lists[side] \notin {None, <<>>}
    /\ IF Hashable(Head(lists[side]))
       THEN /\ sets' = [sets EXCEPT ![side] = PySetInsert(@, Head(lists[side]))]
            /\ lists' = [lists EXCEPT ![side] = Tail(@)]
            /\ UNCHANGED result
       ELSE result' = Raise /\ UNCHANGED <<lists, sets>>
    /\ UNCHANGED work

InCommon(common, size) == [common |-> common, texts |-> [i \in DOMAIN common |-> PyStr(common[i])], size |-> size]

\* The texts of the common constants, as the related-constants stage asks for them.
Intersect ==
    /\ work.op = "sets" /\ result = None /\ lists = <<<<>>, <<>>>>
    /\ result' = InCommon(PySetIntersection(sets[1], sets[2]), PySetIntersectionSize(sets[1], sets[2]))
    /\ UNCHANGED <<work, lists, sets>>

PyInit(w) == work = w /\ result = None /\ lists = <<None, None>> /\ sets = <<EmptySet, EmptySet>>
PyNext == Convert \/ Intersect \/ \E side \in {1, 2} : Load(side) \/ Insert(side)

-----------------------------------------------------------------------------
(* What the answers should be *)

\* Every finite float of the format that is not negative.
Floats == {Zero(FALSE)} \cup {Ldexp(FALSE, m, e) : m \in 1 .. 2^Precision - 1,
                                                   e \in MinExp - Precision + 1 .. MaxExp - Precision + 1}
\* In units of half the least float; infinity stands where the next float would.
Unit == Precision - MinExp
Scaled(v) == IF v.kind = "inf" THEN 2^(MaxExp + 1 + Unit) ELSE v.m * 2^(v.e + Unit)
MantissaIsEven(v) == v.kind = "inf" \/ Bits(v.m) < (IF v.e + Bits(v.m) > MinExp THEN Precision
                                                    ELSE v.e + Bits(v.m) + Precision - 1 - MinExp)

\* v is the nearest float to n * 10^exponent, and of two the even one.
IsNearest(v, neg, n, exponent) ==
    LET Off(w) == LET d == IF exponent >= 0 THEN n * 2^Unit * 10^exponent - Scaled(w)
                           ELSE n * 2^Unit - Scaled(w) * 10^(-exponent)
                  IN  IF d < 0 THEN -d ELSE d
    IN  /\ v.kind # "nan" /\ v.neg = neg
        /\ \A w \in (Floats \cup {Infinity(FALSE)}) \ {[v EXCEPT !.neg = FALSE]} :
              Off(v) < Off(w) \/ (Off(v) = Off(w) /\ MantissaIsEven(v))

\* repr() gives a text that float() reads as the same value, and no decimal of
\* fewer digits does.
ReprIsShortest ==
    (work.op = "repr" /\ result # None) =>
        /\ PyFloat(result) = work.value
        /\ (work.value.kind = "finite" /\ work.value.m # 0) =>
              LET d == ShortestDigits([work.value EXCEPT !.neg = FALSE])
              IN  \A n \in 1 .. 10^(Len(d.digits) - 1) - 1, e \in -6 .. 2 :
                      ~IsNearest([work.value EXCEPT !.neg = FALSE], FALSE, n, e)

\* The grammar of JSON, by splitting a text instead of scanning it.
IsDigits(t) == t # <<>> /\ \A i \in DOMAIN t : IsAsciiDigit(t[i])
Part(t, i, k) == SubSeq(t, i, IF k < Len(t) THEN k ELSE Len(t))
Rest(t, i) == SubSeq(t, i, Len(t))
Unsigned(t) == IF From(t, 1) \in {"+", "-"} THEN Tail(t) ELSE t
Inner(t) == Part(t, 2, Len(t) - 1)

\* The decimals a text denotes, [neg, whole, point, fraction, exponent], as Python's
\* float() takes them: digits on one side of the point at least.
RefDecimals(t) ==
    LET u == Unsigned(t)
        splits == {<<Part(u, 1, i), Part(u, i + 1, j), Part(u, j + 1, k), Rest(u, k + 1)>> :
                      <<i, j, k>> \in {x \in (0 .. Len(u)) \X (0 .. Len(u)) \X (0 .. Len(u)) :
                                          x[1] <= x[2] /\ x[2] <= x[1] + 1 /\ x[2] <= x[3]}}
        valid == {c \in splits :
                    /\ IsDigits(c[1] \o c[3]) /\ c[2] \in {<<>>, <<".">>} /\ (c[2] = <<>> => c[3] = <<>>)
                    /\ c[4] # <<>> => c[4][1] = "e" /\ IsDigits(Unsigned(Tail(c[4])))}
        exponentOf(x) == IF x = <<>> THEN 0
                         ELSE LET n == NumberOf(DigitsOf(Unsigned(Tail(x)))) IN IF x[2] = "-" THEN -n ELSE n
    IN  {[neg |-> From(t, 1) = "-", whole |-> c[1], point |-> c[2], fraction |-> c[3],
          exponent |-> exponentOf(c[4]), plain |-> c[2] = <<>> /\ c[4] = <<>>] : c \in valid}

\* JSON has no plus, no leading zero, and digits on both sides of a point.
RefNumbers(t) ==
    {IF d.plain THEN IntValue(d.neg /\ d.whole # <<"0">>, DigitsOf(d.whole))
     ELSE FloatValue(DecimalToDouble(d.neg, DigitsOf(d.whole \o d.fraction), d.exponent - Len(d.fraction))) :
        d \in {d \in RefDecimals(t) : /\ From(t, 1) # "+" /\ d.whole # <<>> /\ (Len(d.whole) > 1 => d.whole[1] # "0")
                                      /\ d.point # <<>> => d.fraction # <<>>}}

\* The code points of the inside of a string: pieces of one, two, three or six characters.
RECURSIVE RefStrings(_)
RefStrings(t) ==
    LET Then(c, k) == {<<c>> \o s : s \in RefStrings(Rest(t, k))}
        code == From(t, 3)
        escape == From(t, 1) = "\\" /\ From(t, 2) = "u" /\ code \in DOMAIN CodePoint
        pair == escape /\ code = "d800" /\ Part(t, 4, 6) = <<"\\", "u", "dc00">>
    IN  IF t = <<>> THEN {<<>>}
        ELSE CASE t[1] = "\\" /\ From(t, 2) \in {"\"", "\\", "/"} -> Then(t[2], 3)
               [] t[1] = "\\" /\ From(t, 2) = "n" -> Then("newline", 3)
               [] pair -> Then("U+10000", 7)
               [] escape /\ ~pair -> Then(CodePoint[code], 4)
               [] t[1] \notin {"\\", "\"", "newline"} -> Then(t[1], 2)
               [] OTHER -> {}

Trimmed(t) == LET inner == {i \in DOMAIN t : t[i] \notin Whitespace}
              IN  IF inner = {} THEN <<>> ELSE Part(t, CHOOSE i \in inner : \A k \in inner : i <= k, Top(inner))

\* The few digits of a text are zero or infinite at these exponents, as they are beyond.
InReach(exponent) == IF exponent > 4 THEN 4 ELSE IF exponent < -6 THEN -6 ELSE exponent

\* float() reads exactly Python's float literals, underscores between digits and
\* spaces around included, and of every decimal it gives the nearest float of the
\* format: subnormals, ties, overflow, and digits past the cut.
FloatsAreNearest ==
    /\ (work.op = "decimal" /\ result # None) =>
          IsNearest(result, work.neg, NumberOf(work.digits), work.exponent)
    /\ (work.op = "float" /\ result # None /\ "non-ASCII" \notin Range(work.text)) =>
          LET t == work.text
              bare == SelectSeq(t, LAMBDA c : c # "_")
              inside == \A i \in DOMAIN t : t[i] = "_" => IsAsciiDigit(From(t, i - 1)) /\ IsAsciiDigit(From(t, i + 1))
              ds == IF inside THEN RefDecimals(Trimmed(bare)) ELSE {}
              special == inside /\ Unsigned(Trimmed(bare)) \in {<<"inf">>, <<"inf", "inity">>, <<"nan">>}
          IN  IF result = Raise THEN ds = {} /\ ~special
              ELSE special \/ \E d \in ds : IsNearest(result, d.neg, NumberOf(DigitsOf(d.whole \o d.fraction)),
                                                     InReach(d.exponent - Len(d.fraction)))

IsString(t) == Len(t) >= 2 /\ t[1] = "\"" /\ t[Len(t)] = "\""
Literals == [null |-> NoneValue, true |-> BoolValue(TRUE), false |-> BoolValue(FALSE), NaN |-> FloatValue(NotANumber),
             Infinity |-> FloatValue(Infinity(FALSE))]

\* The values a text denotes: none or one.
RECURSIVE RefValues(_), RefItems(_), RefMembers(_, _)
RefItems(t) ==
    {<<v>> : v \in RefValues(t)}
    \cup UNION {{<<v>> \o vs : v \in RefValues(Part(t, 1, k - 1)), vs \in RefItems(Rest(t, k + 1))} :
                   k \in {k \in DOMAIN t : t[k] = ","}}
RefMembers(t, d) ==
    LET One(u) == UNION {{Assign(d, key, v) : key \in RefStrings(Inner(Trimmed(Part(u, 1, k - 1)))),
                                              v \in RefValues(Rest(u, k + 1))} :
                            k \in {k \in DOMAIN u : u[k] = ":" /\ IsString(Trimmed(Part(u, 1, k - 1)))}}
    IN  One(t) \cup UNION {UNION {RefMembers(Rest(t, k + 1), e) : e \in One(Part(t, 1, k - 1))} :
                              k \in {k \in DOMAIN t : t[k] = ","}}
RefValues(t0) ==
    LET t == Trimmed(t0)
        last == From(t, Len(t))
        empty == \A i \in 2 .. Len(t) - 1 : t[i] \in Whitespace
    IN  CASE From(t, 1) = "[" /\ Len(t) >= 2 /\ last = "]" ->
                IF empty THEN {ListValue(<<>>)} ELSE {ListValue(vs) : vs \in RefItems(Inner(t))}
          [] From(t, 1) = "{" /\ Len(t) >= 2 /\ last = "}" ->
                IF empty THEN {DictValue(<<>>, <<>>)} ELSE RefMembers(Inner(t), DictValue(<<>>, <<>>))
          [] IsString(t) -> {StrValue(s) : s \in RefStrings(Inner(t))}
          [] Len(t) = 1 /\ From(t, 1) \in DOMAIN Literals -> {Literals[t[1]]}
          [] t = <<"-", "Infinity">> -> {FloatValue(Infinity(TRUE))}
          [] OTHER -> RefNumbers(t)

\* Nesting the scanner has seen when it reaches i, strings left out of account.
Opened(t) == Cardinality({i \in DOMAIN t : t[i] \in {"[", "{"}})

\* The scanner reads exactly the JSON texts, as Python's decoder reads them (the
\* last value of a repeated key at the place of the first, surrogates paired); it
\* declines a text only when that nests deeper than the port goes.
ParserIsExact ==
    (work.op = "loads" /\ result # None) =>
        IF result = Refuse THEN Opened(work.text) > MaxJsonDepth
        ELSE RefValues(work.text) = IF result = Raise THEN {} ELSE {result}

\* Numbers by their value, in units of the least float; others by themselves.
Canonical(x) ==
    CASE x.kind = "bool" -> <<"number", IF x.b THEN 2^Unit ELSE 0>>
      [] x.kind = "int" -> <<"number", (IF x.neg THEN -1 ELSE 1) * NumberOf(x.digits) * 2^Unit>>
      [] x.kind = "float" -> IF x.v.kind = "finite" THEN <<"number", (IF x.v.neg THEN -1 ELSE 1) * Scaled(x.v)>>
                             ELSE <<"other", x>>
      [] OTHER -> <<"other", x>>
Classes(items) == {Canonical(items[i]) : i \in DOMAIN items}
RefIterated(v) == CASE v.kind = "list" -> v.items
                    [] v.kind = "dict" -> [i \in DOMAIN v.keys |-> StrValue(v.keys[i])]
                    [] v.kind = "str" -> [i \in DOMAIN v.s |-> StrValue(<<v.s[i]>>)]
                    [] OTHER -> <<ListValue(<<>>)>>     \* not iterable: as good as not hashable
RefSetRaises(t) == \A v \in RefValues(t) : \E i \in DOMAIN RefIterated(v) : ~Hashable(RefIterated(v)[i])

\* Two constant lists become sets by numeric value whatever the hash (1, 1.0 and
\* True are one element), their intersection has one key of each common value and
\* the size says how many; and set() raises exactly where Python's would, also
\* for the lists that are nested too deep to be parsed.
SetsAreByValue ==
    (work.op = "sets") =>
        /\ \A side \in {1, 2} :
              Cardinality(Classes(sets[side].items)) = Len(sets[side].items)
        /\ result = Raise => \E side \in {1, 2} : RefSetRaises(work.texts[side])
        /\ (result # None /\ ~IsError(result)) =>
              LET Side(k) == UNION {Classes(RefIterated(v)) : v \in RefValues(work.texts[k])}
              IN  /\ \A k \in {1, 2} : ~RefSetRaises(work.texts[k]) /\ Classes(sets[k].items) = Side(k)
                  /\ Classes(result.common) = Side(1) \cap Side(2)
                  /\ Len(result.common) = Cardinality(Side(1) \cap Side(2))
                  /\ result.size = Len(result.common)

\* float() and repr() are exact, and inverse to each other.
FloatsAreExact == FloatsAreNearest /\ ReprIsShortest

\* json.loads and the sets made of it behave as Python's.
JsonIsPython == ParserIsExact /\ SetsAreByValue

=============================================================================
