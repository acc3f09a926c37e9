---------------------------- MODULE MCSimilarity ----------------------------
(***************************************************************************)
(* The calculations a diff rests on, each on all inputs of a small size:   *)
(* the line differ, the ratio engine, the call graph check and the Python  *)
(* values.  One of them works, the others rest in their initial states.    *)
(***************************************************************************)
EXTENDS SequenceMatcher, RatioEngine, Preflight, PyValues, TLC

AllUpto(S, n) == UNION {[1 .. k -> S] : k \in 0 .. n}
Joined(ss) == FoldLeft(LAMBDA x, y : x \o y, <<>>, ss)

-----------------------------------------------------------------------------
(* The line differ: lines without meaning, long common ends, and jumps. *)

MCContexts == {0, 1}
ShortTexts == AllUpto({"x", "y"}, 4)
LongTexts == {<<"x">> \o s \o <<"x", "x", "x">> \o t : s \in AllUpto({"x", "y"}, 1), t \in AllUpto({"x", "y"}, 1)}
Listings == AllUpto({"x", "jl", "jb", "b", "bs", "", "label:"}, 2)

TextPairs == (ShortTexts \X ShortTexts) \cup (LongTexts \X AllUpto({"x", "y"}, 5)) \cup (Listings \X Listings)

-----------------------------------------------------------------------------
(* The ratio engine: two rows with every combination of the columns it      *)
(* reads, and a few rows with addresses that are hard to tell apart.        *)

Text(ls) == [blob |-> FALSE, lines |-> ls]
Blob == [blob |-> TRUE, lines |-> <<7>>]
NoConstants == [kind |-> "[]", set |-> {}]
Md(py, sql) == [py |-> py, sql |-> sql]

FunctionRow(ea, hash, assembly, name) ==
    [ea |-> ea, eaBlob |-> FALSE, badUtf8 |-> FALSE, name |-> name, nodes |-> 3, hash |-> hash,
     md |-> Md(5, 5), pseudo |-> None, cleanPseudo |-> None, assembly |-> assembly,
     micro |-> None, source |-> None, primes |-> None, indegree |-> 0, outdegree |-> 0,
     switches |-> "[]", complexity |-> 0, constants |-> NoConstants]

Hashes == {<<"h", "h">>, <<"h", "i">>, <<None, None>>}
Mds == {<<Md(5, 5), Md(5, 5)>>, <<Md(5, 5), Md(6, 6)>>, <<Md(0, 0), Md(0, 0)>>,
        <<Md(Raise, 0), Md(5, 5)>>, <<Md(5, 5), Md(5, 6)>>}
Pseudos == {<<None, None>>, <<Text(<<1, 2>>), Text(<<2, 1>>)>>, <<Text(<<1, 2>>), Text(<<1, 3>>)>>,
            <<EmptyText, Text(<<1>>)>>}
Assemblies == {<<Text(<<1, 2, 2>>), Text(<<2, 1, 2>>)>>, <<Text(<<1, 2, 2>>), Text(<<1, 2, 3>>)>>,
               <<Blob, Text(<<1>>)>>, <<None, Blob>>}
Micros == {<<None, Text(<<1>>)>>, <<Text(<<1, 2>>), Text(<<2, 1>>)>>, <<Text(<<1, 2>>), Text(<<1, 1>>)>>}
Deeps == {[n |-> 0, c |-> NoConstants], [n |-> 2, c |-> [kind |-> "set", set |-> 1 .. 30]],
          [n |-> NotInteger, c |-> NoConstants], [n |-> None, c |-> [kind |-> Raise, set |-> {}]]}

Filled(ea, hash, md, pseudo, assembly, micro, deep) ==
    [FunctionRow(ea, hash, assembly, "f") EXCEPT
        !.md = md, !.pseudo = Text(<<9>>), !.cleanPseudo = pseudo, !.micro = micro,
        !.indegree = deep.n, !.switches = IF deep.n = None THEN None ELSE "[]", !.constants = deep.c,
        !.source = Text(<<4>>)]

ContentTables ==
    {[main |-> <<Filled(<<"1">>, h[1], m[1], p[1], s[1], c[1], d)>>,
      diff |-> <<Filled(<<"2">>, h[2], m[2], p[2], s[2], c[2], d)>>,
      hook |-> (<<1, 1>> :> "nothing")] :
        h \in Hashes, m \in Mds, p \in Pseudos, s \in Assemblies, c \in Micros, d \in Deeps}

\* Texts that join to the same key, a NULL address, and one that int() reads as another's.
AddressTables ==
    {[main |-> <<FunctionRow(<<"1">>, "c", Text(<<1, 2, 3>>), "f"), FunctionRow(<<"1", "-", "2">>, "b", Text(<<1, 2>>), "f"),
                 FunctionRow(None, "c", Text(<<1>>), "g"), FunctionRow(NoneText, "e", Text(<<4>>), "h")>>,
      diff |-> <<FunctionRow(<<"2", "-", "3">>, "c", Text(<<1, 2, 3, 3>>), "f"), FunctionRow(<<"3">>, "z", Text(<<1>>), "f")>>,
      hook |-> hook] : hook \in {[p \in (1 .. 4) \X (1 .. 2) |-> o] : o \in {"nothing", "found", "raise"}}}
    \cup
    {[main |-> <<FunctionRow(<<"0", "1">>, "a", Text(<<1, 2, 3>>), "f"), FunctionRow(<<"1">>, "b", Text(<<1, 2>>), "f")>>,
      diff |-> <<[FunctionRow(<<"_", "3">>, "c", Text(<<1, 2, 3, 3>>), "f") EXCEPT !.nodes = None],
                 [FunctionRow(<<" ", "3">>, "z", Text(<<1>>), "f") EXCEPT !.nodes = None],
                 [FunctionRow(<<"3">>, "z", Text(<<1>>), "f") EXCEPT !.badUtf8 = bad]>>,
      hook |-> [p \in (1 .. 2) \X (1 .. 3) |-> "found"]] : bad \in BOOLEAN}
BlobTables == {[t EXCEPT !.diff[1].eaBlob = TRUE] : t \in {u \in AddressTables : Len(u.diff) = 3}}

\* Lengths at which rounding hides one line, or two, and just does not, for MCScale = 200.
MCScale == 200
Ones(n) == Text([k \in 1 .. n |-> 1])
LongTables ==
    {[main |-> <<[FunctionRow(<<"1">>, "c", Ones(n[1]), "f") EXCEPT !.micro = micro[1], !.md = md]>>,
      diff |-> <<[FunctionRow(<<"2">>, "z", Ones(n[2]), "f") EXCEPT !.micro = micro[2]]>>,
      hook |-> (<<1, 1>> :> "nothing")] :
        n \in {<<199, 200>>, <<200, 201>>, <<398, 400>>, <<399, 401>>},
        micro \in {<<None, None>>, <<Ones(200), Ones(199)>>, <<Ones(201), Ones(200)>>}, md \in {Md(5, 5), Md(6, 6)}}

MCCharacters == {"0", "1", "2", "3", "-", "_", " ", "N", "o", "n", "e"}
ASSUME TextAddresses == \A t \in ContentTables \cup AddressTables \cup LongTables : AddressesAreTexts(t)

NoTables == [main |-> <<>>, diff |-> <<>>, hook |-> <<>>]

-----------------------------------------------------------------------------
(* The checks before the matching: factor dictionaries of up to two keys,    *)
(* every spelling of a signature, and the other cells.                       *)

Integer(neg, mag) == [kind |-> "int", neg |-> neg, mag |-> mag]
Double(m, shift) == [kind |-> "float", neg |-> FALSE, m |-> m, shift |-> shift]
\* Of doubles of six bits below 2^14: 65 is none, a hundred times 200 is infinite, and 16256 is rejected.
FactorValues == {Integer(FALSE, <<6, 5>>), Integer(TRUE, <<9>>), Integer(FALSE, <<2, 0, 0>>), Integer(FALSE, <<1, 0>>),
                 Integer(FALSE, <<1, 6, 2, 5, 6>>), Double(<<5>>, 1), Double(<<1>>, -1), [kind |-> "other"]}
OneFactor(key, v) == <<[key |-> key, value |-> v]>>
Items == {<<>>} \cup {OneFactor("p", v) : v \in FactorValues \cup {[kind |-> "nan"], [kind |-> "bool", neg |-> FALSE, mag |-> <<>>]}}
         \cup {OneFactor("p", v) \o OneFactor("q", w) : v \in FactorValues, w \in FactorValues}
OtherItems == Items \cup {OneFactor("q", v) : v \in FactorValues}
              \cup {OneFactor("p", [kind |-> "bool", neg |-> FALSE, mag |-> <<1>>])}
Json(items) == [json |-> "ok", dict |-> TRUE, items |-> items]

Cell(neg, n) == [type |-> "integer", neg |-> neg, mag |-> n]
RealCell(neg, m, shift) == [type |-> "real", neg |-> neg, m |-> m, shift |-> shift]
TextCell(neg, whole, fraction, e) ==
    [type |-> "text", neg |-> neg, whole |-> whole, fraction |-> fraction, exponent |-> e]
Cells == {Cell(FALSE, <<1, 5, 0>>), Cell(FALSE, <<>>), Cell(TRUE, <<1, 5, 0>>),
          RealCell(FALSE, <<7, 5>>, 1), RealCell(FALSE, <<3>>, -1), RealCell(TRUE, <<>>, 0),
          TextCell(FALSE, <<0, 1, 5>>, <<>>, 1), TextCell(FALSE, <<1>>, <<5, 0>>, 0), TextCell(FALSE, <<0>>, <<1, 5>>, 3),
          TextCell(TRUE, <<1, 5, 0, 0>>, <<>>, -1), TextCell(FALSE, <<>>, <<0, 0>>, 2)}
OddCells == {[type |-> t, neg |-> n] : t \in {"infinity", "quietNaN", "signalingNaN"}, n \in BOOLEAN}
            \cup {[type |-> t] : t \in {"null", "blob", "badText", "unported"}}

ProgramRow(cell, factors) == [decodable |-> TRUE, primes |-> cell, factors |-> factors]
Usual == [version |-> "current", md5s |-> 0, rowsOnlyInMain |-> 1, processors |-> <<{"pc"}, {"pc"}>>,
          rows |-> <<ProgramRow(Cell(FALSE, <<2>>), Json(<<>>)), ProgramRow(Cell(FALSE, <<3>>), Json(<<>>))>>]

FactorProgram(s, t) ==
    [Usual EXCEPT !.rows = <<ProgramRow(Cell(FALSE, <<2>>), Json(s)), ProgramRow(Cell(FALSE, <<3>>), Json(t))>>]
BadJson == {[json |-> j, dict |-> FALSE, items |-> <<>>] : j \in {"ok", Raise, Refuse}}
CellPrograms ==
    {[Usual EXCEPT !.rows = <<ProgramRow(c, f), ProgramRow(d, Json(<<>>))>>] :
        c \in Cells \cup OddCells, d \in Cells \cup OddCells, f \in BadJson \cup {Json(<<>>)}}
OtherPrograms ==
    {[Usual EXCEPT !.version = v, !.md5s = m, !.rowsOnlyInMain = r, !.processors = p] :
        v \in {"error", "noRow", "undecodable", "current", "other"}, m \in {0, 1}, r \in {0, 1},
        p \in {<<{"pc"}, {"pc"}>>, <<{None}, {None}>>, <<{"pc"}, {"arm", None}>>}}
    \cup {[Usual EXCEPT !.rows = SubSeq(@ \o @, 1, n)] : n \in {0, 1, 3}}
    \cup {[Usual EXCEPT !.rows[2].decodable = FALSE]}

-----------------------------------------------------------------------------
(* The Python values: floats of three bits between 2^-2 and 2^3.            *)

MCMinExp == -2
MCMinMagnitude == -2
MCReprLow == -1

DecimalOf(neg, n, places, e) == [op |-> "decimal", neg |-> neg, digits |-> PaddedDigits(n, places), exponent |-> e]
\* Beside a tie in the last place that is kept, and beyond it.
LongDigits == {1124999, 1125000, 1125001, 3125000, 3125001, 9375001, 9374999, 4687500, 4687501, 1499999, 1500000}
Decimals == {DecimalOf(FALSE, n, 3, e) : n \in 0 .. 160, e \in -4 .. 2}
            \cup {DecimalOf(TRUE, n, 8, e) : n \in LongDigits, e \in {-6, -5}}
FloatTexts == AllUpto({"1", "0", ".", "e", "-", "_", " "}, 4) \cup AllUpto({"inf", "inity", "nan", "+", "NUL", "non-ASCII"}, 2)
Values == Floats \cup {[x EXCEPT !.neg = TRUE] : x \in Floats} \cup {NotANumber, Infinity(TRUE), Infinity(FALSE)}

Quoted(s) == <<"\"">> \o s \o <<"\"">>
NumberTexts == AllUpto({"-", "0", "1", ".", "e"}, 4)
StructurePieces == {<<c>> : c \in {"[", "]", "{", "}", ",", ":", "1", " "}} \cup {Quoted(<<"a">>)}
StringPieces == {<<"\\", "u", "d800">>, <<"\\", "u", "dc00">>, <<"\\", "u">>, <<"\\", "n">>, <<"\\">>, <<"\"">>,
                 <<"newline">>, <<"d800">>}
Documents == {<<"{">> \o Quoted(<<"a">>) \o <<":", "1", ",">> \o Quoted(<<"b">>) \o <<":", "[", "]", ",", " ">>
                  \o Quoted(<<"a">>) \o <<":", "null", "}">>,
              <<"[", "[", "1", ",", " ", "{", "}", "]", " ", ",", "-", "Infinity", "]">>,
              <<"[", "[", "[", "1", "]", "]", "]">>,
              <<"{">> \o Quoted(<<"a">>) \o <<":", "[", "[", "]", "]", "}">>,
              <<"[", "1", ",", "{">> \o Quoted(<<"a">>) \o <<":", "{", "}", "}", "]">>}
Without(t, i) == SubSeq(t, 1, i - 1) \o SubSeq(t, i + 1, Len(t))
JsonTexts == NumberTexts \cup {Joined(s) : s \in AllUpto(StructurePieces, 4)}
             \cup {Quoted(Joined(s)) : s \in AllUpto(StringPieces, 3)}
             \cup Documents \cup UNION {{Without(t, i) : i \in DOMAIN t} : t \in Documents}

Elements == {<<"1">>, <<"1", ".", "0">>, <<"true">>, <<"-", "0">>, <<"-", "0", ".", "0">>, <<"1", "0">>,
             <<"1", "e", "1">>, <<"0", ".", "5">>, <<"NaN">>, Quoted(<<"1">>), <<"null">>}
ListText(es) == <<"[">> \o Joined([i \in DOMAIN es |-> (IF i = 1 THEN <<>> ELSE <<",">>) \o es[i]]) \o <<"]">>
LongLists == {ListText(es) : es \in AllUpto(Elements, 2)} \cup {Quoted(<<"a", "b", "a">>), <<"1">>} \cup Documents
ShortLists == {ListText(es) : es \in AllUpto(Elements, 1)} \cup Documents

-----------------------------------------------------------------------------
VARIABLE working

InitMatcher == /\ working = "matcher"
               /\ \E pair \in TextPairs : MatcherInit(pair[1], pair[2])
               /\ RatioInit(NoTables) /\ PreflightInit(Usual) /\ PyInit([op |-> "idle"])
InitRatio == /\ working = "ratio"
             /\ \E t \in ContentTables \cup AddressTables \cup BlobTables \cup LongTables : RatioInit(t)
             /\ MatcherInit(<<>>, <<>>) /\ PreflightInit(Usual) /\ PyInit([op |-> "idle"])
InitPreflight == /\ working = "preflight"
                 /\ \/ \E s \in Items, t \in OtherItems : PreflightInit(FactorProgram(s, t))
                    \/ \E p \in CellPrograms \cup OtherPrograms : PreflightInit(p)
                 /\ MatcherInit(<<>>, <<>>) /\ RatioInit(NoTables) /\ PyInit([op |-> "idle"])
InitValues == /\ working = "values"
              /\ \/ \E w \in Decimals : PyInit(w)
                 \/ \E t \in FloatTexts : PyInit([op |-> "float", text |-> t])
                 \/ \E v \in Values : PyInit([op |-> "repr", value |-> v])
                 \/ \E t \in JsonTexts : PyInit([op |-> "loads", text |-> t])
                 \/ \E s \in LongLists, t \in ShortLists : PyInit([op |-> "sets", texts |-> <<s, t>>])
                 \/ \E s \in ShortLists, t \in LongLists : PyInit([op |-> "sets", texts |-> <<s, t>>])
              /\ MatcherInit(<<>>, <<>>) /\ RatioInit(NoTables) /\ PreflightInit(Usual)

Init == InitMatcher \/ InitRatio \/ InitPreflight \/ InitValues

Next == \/ working = "matcher" /\ MatcherNext /\ UNCHANGED <<rvars, pvars, yvars, working>>
        \/ working = "ratio" /\ RatioNext /\ UNCHANGED <<mvars, pvars, yvars, working>>
        \/ working = "preflight" /\ PreflightNext /\ UNCHANGED <<mvars, rvars, yvars, working>>
        \/ working = "values" /\ PyNext /\ UNCHANGED <<mvars, rvars, pvars, working>>

Spec == Init /\ [][Next]_<<mvars, rvars, pvars, yvars, working>>

=============================================================================
