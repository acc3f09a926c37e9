--------------------------- MODULE SequenceMatcher ---------------------------
(***************************************************************************)
(* The line differ of TextDiff.cpp: a SequenceMatcher object over two      *)
(* sequences, whose methods are called in any order and share two caches,  *)
(* the unified diff made from it, and the verdict of the patch-diff hook   *)
(* (PatchDiffHook.cpp) over that diff.  Positions are the source's: they   *)
(* count from 0, ranges exclude their end, and LineAt(s, i) is s[i].         *)
(***************************************************************************)
EXTENDS Integers, Sequences, FiniteSets, PyOutcomes

CONSTANTS Contexts,         \* the context sizes asked for
          AutoJunkLength,   \* 200: from this length on frequent elements of b are popular
          AutoJunkShare     \* 100: more than a hundredth of b, plus one

ASSUME JunkAssumption == AutoJunkLength \in Nat /\ AutoJunkShare \in Nat \ {0}

\* "Not called" is told apart from a list with nothing in it.
ASSUME NoListAssumption == None # <<>>

VARIABLES a, b,     \* the two sequences
          queue,    \* GetMatchingBlocks: the ranges to search, a stack; None outside of it
          found,    \* GetMatchingBlocks: the blocks found so far
          last,     \* the range searched last and the block it gave
          matching, \* MatchingBlocks, or None (HaveMatchingBlocks)
          opcodes,  \* Opcodes, or None (HaveOpcodes)
          trimmed,  \* whether GetGroupedOpcodes has rewritten the cached opcodes
          hunks     \* the unified diff of the last GetGroupedOpcodes, or None

mvars == <<a, b, queue, found, last, matching, opcodes, trimmed, hunks>>

LineAt(s, i) == s[i + 1]
Least(x, y) == IF x < y THEN x ELSE y
Greatest(x, y) == IF x > y THEN x ELSE y

-----------------------------------------------------------------------------
(* ChainB and FindLongestMatch *)

Count(s, e) == Cardinality({i \in DOMAIN s : s[i] = e})

\* The elements of b that are left out of b2j.
Popular(s) == {e \in {s[i] : i \in DOMAIN s} :
                  Len(s) >= AutoJunkLength /\ Count(s, e) > Len(s) \div AutoJunkShare + 1}

\* k of j2len: the length of the common run that ends at i and j, inside the range
\* and without popular elements.
RunLength(r, popular, i, j) ==
    LET K[n \in 0 .. Len(a)] ==     \* n steps back from i and j
            IF /\ i - n >= r.alo /\ j - n >= r.blo
               /\ LineAt(a, i - n) = LineAt(b, j - n) /\ LineAt(b, j - n) \notin popular
            THEN 1 + K[n + 1] ELSE 0
    IN  K[0]

\* Mutant: of equally long runs the last one is taken (>= for >).
LastBefore(x, y) == x[1] > y[1] \/ (x[1] = y[1] /\ (x[2] > y[2] \/ (x[2] = y[2] /\ x[3] > y[3])))

\* The order in which the rows of j2len replace the best run: a longer one, and of
\* equally long ones the one met first.
Before(x, y) == x[1] > y[1] \/ (x[1] = y[1] /\ (x[2] < y[2] \/ (x[2] = y[2] /\ x[3] < y[3])))

RunsIn(r, popular) ==
    {e \in {<<RunLength(r, popular, i, j), i, j>> : i \in r.alo .. r.ahi - 1, j \in r.blo .. r.bhi - 1} :
        e[1] > 0}

BestRun(r, runs) ==
    IF runs = {} THEN [a |-> r.alo, b |-> r.blo, size |-> 0]
    ELSE LET best == CHOOSE e \in runs : \A f \in runs : e = f \/ Before(e, f)
         IN  [a |-> best[2] - best[1] + 1, b |-> best[3] - best[1] + 1, size |-> best[1]]

\* How far a run can be extended to the left and to the right over equal elements.
LeftOf(r, m) ==
    LET N[n \in 0 .. Len(a)] ==
            IF m.a - n > r.alo /\ m.b - n > r.blo /\ LineAt(a, m.a - n - 1) = LineAt(b, m.b - n - 1)
            THEN 1 + N[n + 1] ELSE 0
    IN  N[0]
RightOf(r, m) ==
    LET N[n \in m.size .. Len(a) + 1] ==
            IF m.a + n < r.ahi /\ m.b + n < r.bhi /\ LineAt(a, m.a + n) = LineAt(b, m.b + n)
            THEN 1 + N[n + 1] ELSE 0
    IN  N[m.size]

Extended(r, m) ==
    LET l == LeftOf(r, m)
    IN  [a |-> m.a - l, b |-> m.b - l, size |-> m.size + l + RightOf(r, m)]

\* The one element is the block found in the range.
FindLongestMatch(r) ==
    {Extended(r, m) : m \in {BestRun(r, runs) : runs \in {RunsIn(r, popular) : popular \in {Popular(b)}}}}

-----------------------------------------------------------------------------
(* GetMatchingBlocks *)

WholeRange == [alo |-> 0, ahi |-> Len(a), blo |-> 0, bhi |-> Len(b)]

\* The parts of a range to the left and to the right of a block.
LeftPart(r, m) == IF r.alo < m.a /\ r.blo < m.b
                  THEN <<[alo |-> r.alo, ahi |-> m.a, blo |-> r.blo, bhi |-> m.b]>> ELSE <<>>
RightPart(r, m) == IF m.a + m.size < r.ahi /\ m.b + m.size < r.bhi
                   THEN <<[alo |-> m.a + m.size, ahi |-> r.ahi, blo |-> m.b + m.size, bhi |-> r.bhi]>>
                   ELSE <<>>

\* The call: nothing to do when the blocks are cached.
AskBlocks ==
    /\ queue = None /\ matching = None
    /\ queue' = <<WholeRange>>
    /\ found' = {}
    /\ UNCHANGED <<a, b, last, matching, opcodes, trimmed, hunks>>

SearchRange ==
    /\ queue \notin {None, <<>>}
    /\ LET r == queue[Len(queue)]
           rest == SubSeq(queue, 1, Len(queue) - 1)
       IN  \E m \in FindLongestMatch(r) :
              /\ last' = [range |-> r, block |-> m]
              /\ queue' = IF m.size = 0 THEN rest ELSE rest \o LeftPart(r, m) \o RightPart(r, m)
              /\ found' = IF m.size = 0 THEN found ELSE found \cup {m}
    /\ UNCHANGED <<a, b, matching, opcodes, trimmed, hunks>>

\* The sorted blocks, adjacent ones joined, and the sentinel.
Collapsed(S) ==
    LET joined(x, y) == x.a + x.size = y.a /\ x.b + x.size = y.b
        heads == {x \in S : ~\E w \in S : joined(w, x)}
        Grow[x \in S] == IF \E y \in S : joined(x, y)
                         THEN x.size + Grow[CHOOSE y \in S : joined(x, y)] ELSE x.size
        merged == {[x EXCEPT !.size = Grow[x]] : x \in heads}
        Sorted[T \in SUBSET merged] ==
            IF T = {} THEN <<>>
            ELSE LET x == CHOOSE x \in T : \A y \in T : x.a <= y.a IN <<x>> \o Sorted[T \ {x}]
    IN  Append(Sorted[merged], [a |-> Len(a), b |-> Len(b), size |-> 0])

BlocksDone ==
    /\ queue = <<>>
    /\ matching' = Collapsed(found)
    /\ queue' = None
    /\ UNCHANGED <<a, b, found, last, opcodes, trimmed, hunks>>

-----------------------------------------------------------------------------
(* GetOpcodes *)

Opcode(t, i1, i2, j1, j2) == [tag |-> t, i1 |-> i1, i2 |-> i2, j1 |-> j1, j2 |-> j2]

\* What lies between the end of the block before (or the start) and a block.
Gap(i, j, m) ==
    CASE i < m.a /\ j < m.b -> <<Opcode("replace", i, m.a, j, m.b)>>
      [] i < m.a /\ j >= m.b -> <<Opcode("delete", i, m.a, j, m.b)>>
      [] i >= m.a /\ j < m.b -> <<Opcode("insert", i, m.a, j, m.b)>>
      [] OTHER -> <<>>

OpcodesOf(ms) ==
    LET EndA(n) == IF n = 0 THEN 0 ELSE ms[n].a + ms[n].size
        EndB(n) == IF n = 0 THEN 0 ELSE ms[n].b + ms[n].size
        Upto[n \in 0 .. Len(ms)] ==
            IF n = 0 THEN <<>>
            ELSE Upto[n - 1] \o Gap(EndA(n - 1), EndB(n - 1), ms[n])
                 \o (IF ms[n].size = 0 THEN <<>>
                     ELSE <<Opcode("equal", ms[n].a, EndA(n), ms[n].b, EndB(n))>>)
    IN  Upto[Len(ms)]

GetOpcodes ==
    /\ queue = None /\ matching # None /\ opcodes = None
    /\ opcodes' = OpcodesOf(matching)
    /\ UNCHANGED <<a, b, queue, found, last, matching, trimmed, hunks>>

-----------------------------------------------------------------------------
(* GetGroupedOpcodes and UnifiedDiff *)

\* Only the last n lines of an equal range, or only the first n.
LastLines(c, n) == [c EXCEPT !.i1 = Greatest(@, c.i2 - n), !.j1 = Greatest(@, c.j2 - n)]
FirstLines(c, n) == [c EXCEPT !.i2 = Least(@, c.i1 + n), !.j2 = Least(@, c.j1 + n)]

\* Leading and trailing equal ranges are cut in the cached list itself.  An empty
\* list is replaced by one equal line, outside of the cache.
TrimEnds(codes, n) ==
    LET front == IF codes[1].tag = "equal" THEN [codes EXCEPT ![1] = LastLines(@, n)] ELSE codes
        end == Len(codes)
    IN  IF front[end].tag = "equal" THEN [front EXCEPT ![end] = FirstLines(@, n)] ELSE front

\* A long equal range ends a group and begins the next one.
Splits(c, n) == c.tag = "equal" /\ c.i2 - c.i1 > 2 * n

Groups(codes, n) ==
    LET Step(g, c) == IF Splits(c, n) THEN Append(SubSeq(g, 1, Len(g) - 1), Append(g[Len(g)], FirstLines(c, n)))
                                           \o << <<LastLines(c, n)>> >>
                      ELSE Append(SubSeq(g, 1, Len(g) - 1), Append(g[Len(g)], c))
        Upto[k \in 0 .. Len(codes)] == IF k = 0 THEN << <<>> >> ELSE Step(Upto[k - 1], codes[k])
        all == Upto[Len(codes)]
        rest == all[Len(all)]
    IN  IF rest = <<>> \/ (Len(rest) = 1 /\ rest[1].tag = "equal")
        THEN SubSeq(all, 1, Len(all) - 1) ELSE all

\* Mutant: an empty range is numbered like another.
FormatRangeFromOne(start, stop) == [first |-> start + 1, lines |-> stop - start]

\* FormatRangeUnified: lines are numbered from 1; an empty range is named by the
\* line in front of it.
FormatRange(start, stop) == [first |-> IF stop = start THEN start ELSE start + 1, lines |-> stop - start]

RowsOf(c) ==
    LET old == [i \in 1 .. c.i2 - c.i1 |-> [mark |-> "-", text |-> LineAt(a, c.i1 + i - 1)]]
        new == [j \in 1 .. c.j2 - c.j1 |-> [mark |-> "+", text |-> LineAt(b, c.j1 + j - 1)]]
    IN  IF c.tag = "equal" THEN [i \in DOMAIN old |-> [old[i] EXCEPT !.mark = " "]]
        ELSE (IF c.tag \in {"replace", "delete"} THEN old ELSE <<>>)
             \o (IF c.tag \in {"replace", "insert"} THEN new ELSE <<>>)

Hunk(g) ==
    LET All[k \in 0 .. Len(g)] == IF k = 0 THEN <<>> ELSE All[k - 1] \o RowsOf(g[k])
    IN  [from |-> FormatRange(g[1].i1, g[Len(g)].i2),
         to |-> FormatRange(g[1].j1, g[Len(g)].j2),
         rows |-> All[Len(g)]]

GetGroupedOpcodes(n) ==
    /\ queue = None /\ opcodes # None
    /\ LET codes == TrimEnds(IF opcodes = <<>> THEN <<Opcode("equal", 0, 1, 0, 1)>> ELSE opcodes, n)
           groups == Groups(codes, n)
       IN  /\ opcodes' = IF opcodes = <<>> THEN opcodes ELSE codes
           /\ trimmed' = TRUE
           /\ hunks' = [k \in DOMAIN groups |-> Hunk(groups[k])]
    /\ UNCHANGED <<a, b, queue, found, last, matching>>

-----------------------------------------------------------------------------
(* The ratios, as the pair <<matches, length>> of CalculateRatio *)

TotalSize(ms) == LET S[k \in 0 .. Len(ms)] == IF k = 0 THEN 0 ELSE S[k - 1] + ms[k].size IN S[Len(ms)]

\* QuickRatio: every line of a takes one of the equal lines of b, while there are any.
QuickMatches(s, t) ==
    LET Taken[i \in 0 .. Len(s)] ==
            IF i = 0 THEN 0
            ELSE Taken[i - 1] +
                 (IF Cardinality({k \in 1 .. i - 1 : s[k] = s[i]}) < Count(t, s[i]) THEN 1 ELSE 0)
    IN  Taken[Len(s)]

RealQuickMatches(s, t) == Least(Len(s), Len(t))

-----------------------------------------------------------------------------
(* The walks of the patch-diff hook over the diff of two assembly listings  *)
(* and of two pseudocodes.  A line is known by its mnemonic; four jumps     *)
(* stand for the eight of SignedUnsignedPartner.                            *)

SignedUnsignedPartner == [jl |-> "jb", jb |-> "jl", jg |-> "ja", ja |-> "jg"]
StartsWithB == {"b", "bs"}
EndsWithS == {"bs"}
Labels == {"label:"}
NoMnemonic == {""}

\* What the pair of the last added and the last removed line shows.
Compared(added, removed) ==
    IF added \in DOMAIN SignedUnsignedPartner
    THEN IF SignedUnsignedPartner[added] = removed THEN "found" ELSE "going"
    ELSE IF added \in NoMnemonic THEN "raise"
    ELSE IF added \notin StartsWithB THEN "going"
    ELSE IF removed \in NoMnemonic THEN "raise"
    ELSE IF removed \in StartsWithB /\ (added \in EndsWithS) # (removed \in EndsWithS) THEN "found"
    ELSE "going"

DiffRows(hs) == LET All[k \in 0 .. Len(hs)] == IF k = 0 THEN <<>> ELSE All[k - 1] \o hs[k].rows IN All[Len(hs)]

\* The two header rows come first and are taken for lines.
FindVulnsUsingAssembly(hs) ==
    LET rows == DiffRows(hs)
        Walk[k \in 0 .. Len(rows)] ==
            IF k = 0 THEN [added |-> "++", removed |-> "--", verdict |-> "going"]
            ELSE LET w == Walk[k - 1]
                     row == rows[k]
                     added == IF row.mark = "+" THEN row.text ELSE w.added
                     removed == IF row.mark = "-" THEN row.text ELSE w.removed
                 IN  IF w.verdict # "going" \/ row.mark = " " \/ (row.mark = "-" /\ row.text \in Labels) THEN w
                     ELSE [added |-> added, removed |-> removed, verdict |-> Compared(added, removed)]
    IN  Walk[Len(rows)].verdict

\* A changed line with a risky call, or an added comparison.
Calls == {"memcpy"}
SizeChecks == {"if <"}
FindVulnsUsingPseudocode(hs) ==
    LET rows == DiffRows(hs)
    IN  \E k \in DOMAIN rows : \/ rows[k].mark # " " /\ rows[k].text \in Calls
                               \/ rows[k].mark = "+" /\ rows[k].text \in SizeChecks

-----------------------------------------------------------------------------
MatcherInit(s, t) ==
    /\ a = s /\ b = t
    /\ queue = None /\ found = {} /\ last = None
    /\ matching = None /\ opcodes = None /\ trimmed = FALSE /\ hunks = None

MatcherNext ==
    \/ AskBlocks \/ SearchRange \/ BlocksDone
    \/ GetOpcodes
    \/ \E n \in Contexts : GetGroupedOpcodes(n)

MatcherSpec(s, t) == MatcherInit(s, t) /\ [][MatcherNext]_mvars

-----------------------------------------------------------------------------
(* Properties *)

CommonRun(r, i, j, k) ==
    /\ i >= r.alo /\ j >= r.blo /\ i + k <= r.ahi /\ j + k <= r.bhi
    /\ \A n \in 0 .. k - 1 : LineAt(a, i + n) = LineAt(b, j + n)

\* FindLongestMatch gives a common run that nothing extends; without popular
\* elements no common run of the range is longer, and none of that length begins
\* earlier in a, or as early in a and earlier in b.
LongestIsFound ==
    last # None =>
        LET r == last.range
            m == last.block
        IN  /\ CommonRun(r, m.a, m.b, m.size)
            /\ Popular(b) = {} =>
                 /\ \A i \in r.alo .. r.ahi, j \in r.blo .. r.bhi : ~CommonRun(r, i, j, m.size + 1)
                 /\ m.size > 0 => \A i \in r.alo .. m.a, j \in r.blo .. r.bhi :
                        CommonRun(r, i, j, m.size) => (i = m.a /\ j >= m.b)

\* The matching blocks are equal runs that advance in both sequences, no two of
\* them touch in both, and the sentinel comes last.
BlocksAdvance ==
    matching # None =>
        /\ matching[Len(matching)] = [a |-> Len(a), b |-> Len(b), size |-> 0]
        /\ \A k \in 1 .. Len(matching) - 1 :
             /\ matching[k].size > 0 /\ CommonRun(WholeRange, matching[k].a, matching[k].b, matching[k].size)
             /\ LET m == matching[k]
                    n == matching[k + 1]
                IN  /\ m.a + m.size <= n.a /\ m.b + m.size <= n.b
                    /\ n.size > 0 => (m.a + m.size < n.a \/ m.b + m.size < n.b)

\* The opcodes, until a grouping cuts them, lead from one end of both sequences
\* to the other without a gap, and "equal" is said of equal lines only.
OpcodesCover ==
    (opcodes # None /\ ~trimmed) =>
        /\ opcodes = <<>> <=> (a = <<>> /\ b = <<>>)
        /\ \A k \in DOMAIN opcodes :
             /\ opcodes[k].i1 = (IF k = 1 THEN 0 ELSE opcodes[k - 1].i2)
             /\ opcodes[k].j1 = (IF k = 1 THEN 0 ELSE opcodes[k - 1].j2)
             /\ k = Len(opcodes) => opcodes[k].i2 = Len(a) /\ opcodes[k].j2 = Len(b)
             /\ (opcodes[k].tag = "equal") <=> (opcodes[k].i2 > opcodes[k].i1 /\ opcodes[k].j2 > opcodes[k].j1
                    /\ SubSeq(a, opcodes[k].i1 + 1, opcodes[k].i2) = SubSeq(b, opcodes[k].j1 + 1, opcodes[k].j2))

\* Reading a diff back: the lines of a that a hunk names are replaced by its
\* context and added lines.
Kept(rows, mark) == LET R == SelectSeq(rows, LAMBDA r : r.mark # mark) IN [i \in DOMAIN R |-> R[i].text]
LineBefore(h) == IF h.lines = 0 THEN h.first ELSE h.first - 1
Patched(hs) ==
    LET Upto[k \in 0 .. Len(hs)] ==
            IF k = 0 THEN [done |-> 0, out |-> <<>>]
            ELSE LET p == Upto[k - 1]
                     h == hs[k]
                 IN  [done |-> LineBefore(h.from) + h.from.lines,
                      out |-> p.out \o SubSeq(a, p.done + 1, LineBefore(h.from)) \o Kept(h.rows, "-")]
        end == Upto[Len(hs)]
    IN  end.out \o SubSeq(a, end.done + 1, Len(a))

\* Whatever was asked of the matcher before, and with whatever context, the diff
\* it makes applies: its removed and context lines are the lines of a that the
\* headers name, and putting its lines in their place gives b.
DiffApplies ==
    hunks # None =>
        /\ \A k \in DOMAIN hunks : LineBefore(hunks[k].from) + hunks[k].from.lines <= Len(a)
        /\ Patched(hunks) = b
        /\ \A k \in DOMAIN hunks : Kept(hunks[k].rows, "+") =
               SubSeq(a, LineBefore(hunks[k].from) + 1, LineBefore(hunks[k].from) + hunks[k].from.lines)
        /\ hunks = <<>> <=> a = b

\* The two quick ratios bound the ratio from above.
QuickIsUpperBound ==
    matching # None => /\ TotalSize(matching) <= QuickMatches(a, b)
                       /\ QuickMatches(a, b) <= RealQuickMatches(a, b)

\* What the matcher finds is sound in every call order: longest matches, blocks,
\* opcodes and the ratios taken from them.
BlocksAreSound == LongestIsFound /\ BlocksAdvance /\ OpcodesCover /\ QuickIsUpperBound

TextsMarked(mark) == LET rows == DiffRows(hunks) IN {rows[i].text : i \in {i \in DOMAIN rows : rows[i].mark = mark}}

\* The hook finds something in, and raises over, really changed lines only: a
\* signedness change is a removed jump and its added partner, or a branch that
\* has won or lost its s; it raises over an added line without a mnemonic, or
\* over a removed one next to an added branch.  The header rows decide nothing.
VerdictIsReal ==
    hunks # None =>
        LET verdict == FindVulnsUsingAssembly(hunks)
        IN  /\ verdict = "found" =>
                 \E x \in TextsMarked("+"), y \in TextsMarked("-") :
                     \/ x \in DOMAIN SignedUnsignedPartner /\ SignedUnsignedPartner[x] = y
                     \/ {x, y} = StartsWithB
            /\ verdict = "raise" => \/ TextsMarked("+") \cap NoMnemonic # {}
                                    \/ TextsMarked("+") \cap StartsWithB # {} /\ TextsMarked("-") \cap NoMnemonic # {}
            /\ FindVulnsUsingPseudocode(hunks) => a # b

\* The diff applies, and what the hook concludes from it is in it.
DiffIsRight == DiffApplies /\ VerdictIsReal

=============================================================================
