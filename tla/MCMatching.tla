---------------------------- MODULE MCMatching ----------------------------
(* Matching for TLC: two functions per export, one name that both have, one real name that only the     *)
(* second export has and one function without a real name.                                              *)
EXTENDS Matching

CONSTANTS m1, m2, d1, d2

MCMain == {m1, m2}
MCDiff == {d1, d2}
MCName == (m1 :> "open") @@ (m2 :> "sub_2") @@ (d1 :> "open") @@ (d2 :> "close")

\* C++ symbols: the shared name is demangled in functions.name.
MCDecorated == [MCName EXCEPT ![m1] = "?open@@YAXXZ", ![d1] = "?open@@YAXXZ"]

\* None of these names has a dash, so the joined text tells the pairs apart.
MCPairKey == [p \in Names \X Names |-> p]
ASSUME MainsApart == KeysTellMainsApart

MCSubNames == {"sub_2"}
MCSameAddress == {<<m1, d1>>, <<m2, d2>>}
MCEqual == {<<m1, d1>>}

\* Ties and identical functions, and main functions that prefer the same or different functions.
MCTables == LET Over(ratios) == [MCMain \X MCDiff -> ratios]
            IN  {t \in Over({2, One}) : t[m1, d2] = t[m2, d1]}
                  \cup {t \in Over({1, 2}) : \A m \in MCMain : t[m, d1] # t[m, d2]}
=============================================================================
