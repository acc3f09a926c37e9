---------------------------- MODULE RatioEngine ----------------------------
(***************************************************************************)
(* The similarity ratio of two function rows (Ratio.cpp), its cache, the   *)
(* patch-diff hook that follows it, and how both outlive the process: in   *)
(* a checkpoint and in a snapshot.                                         *)
(*                                                                         *)
(* Ratios are counted in units of 1/One.  A text ratio is rounded to       *)
(* multiples of 1/Scale (the source: to 7 decimals) and the weighted mean  *)
(* of the MD-Index divides by 5, so One = 5 * Scale makes every sum exact. *)
(* A text cell is None or [blob, lines]; the empty text has no lines.  An  *)
(* address is None or a text, a sequence of characters.                    *)
(***************************************************************************)
EXTENDS Integers, Sequences, FiniteSets, SequencesExt, PyOutcomes

CONSTANTS Characters,  \* what the text of an address is made of
          NotInteger,  \* a cell of an integer column that holds something else
          HooksLoaded, \* patch-diff mode
          SameProcessor,
          Scale,       \* 10^7
          MaxCalls     \* bound: ratio calls of one session

ASSUME RatioConstants == /\ {"N", "o", "n", "e", "-"} \subseteq Characters
                         /\ None \notin Seq(Characters)
                         /\ Scale \in Nat /\ Scale > 0 /\ Scale % 200 = 0

VARIABLES tables,    \* the two function tables and what the hook finds: [main, diff, hook]
          byId, byText, entries, \* ById, ByText and Entries of the engine
          dones,     \* PatchDiffHookState: the pairs of names the hook has analysed
          alive,     \* no exception has ended this session
          calls,
          answer,    \* the last ratio computed: [row1, row2, src, ratio], or None
          file,      \* the checkpoint or snapshot on disk, or None
          pydict,    \* ghost: ratios_cache of Diaphora, by key text
          analysed   \* ghost: how often the hook has analysed a pair of names

rvars == <<tables, byId, byText, entries, dones, alive, calls, answer, file, pydict, analysed>>

One == 5 * Scale
Milli == One \div 1000
Clamp == 990 * Milli
EmptyText == [blob |-> FALSE, lines |-> <<>>]
Main(i) == tables.main[i]
Diff(j) == tables.diff[j]

-----------------------------------------------------------------------------
(* The cache *)

Addrs == Seq(Characters) \cup {None}
NoneText == <<"N", "o", "n", "e">>
AddrKeyText(ea) == IF ea = None THEN NoneText ELSE ea
TextKey(ea1, ea2) == AddrKeyText(ea1) \o <<"-">> \o AddrKeyText(ea2)

\* The key of Diaphora's dictionary for two rows: a BLOB address is bytes, and shown as such.
AddrStr(row) == IF row.eaBlob THEN <<"b'">> \o row.ea \o <<"'">> ELSE AddrKeyText(row.ea)
DictKey(f, g) == AddrStr(f) \o <<"-">> \o AddrStr(g)

\* Mutant: an address with a dash is taken for a simple one.
AnyAddr(ea) == ea # None /\ ea # NoneText

\* A pair of such addresses has a key text no other pair has, and is keyed by its ids.
SimpleAddr(ea) == ea # None /\ ea # NoneText /\ \A i \in DOMAIN ea : ea[i] # "-"
ByIds(ea1, ea2) == SimpleAddr(ea1) /\ SimpleAddr(ea2)

With(f, k, v) == [x \in DOMAIN f \cup {k} |-> IF x = k THEN v ELSE f[x]]
Lookup(f, k) == IF k \in DOMAIN f THEN f[k] ELSE None

Find(ea1, ea2) ==
    IF ByIds(ea1, ea2) THEN Lookup(byId, <<ea1, ea2>>) ELSE Lookup(byText, TextKey(ea1, ea2))

\* The cache [id, text, all] after a store: only the first one of a key counts.
Store(c, ea1, ea2, ratio) ==
    LET ids == ByIds(ea1, ea2)
        new == IF ids THEN <<ea1, ea2>> \notin DOMAIN c.id ELSE TextKey(ea1, ea2) \notin DOMAIN c.text
    IN  IF ~new THEN c
        ELSE [id |-> IF ids THEN With(c.id, <<ea1, ea2>>, ratio) ELSE c.id,
              text |-> IF ids THEN c.text ELSE With(c.text, TextKey(ea1, ea2), ratio),
              all |-> Append(c.all, [ea1 |-> ea1, ea2 |-> ea2, ratio |-> ratio])]

Cache == [id |-> byId, text |-> byText, all |-> entries]
NoCache == [id |-> <<>>, text |-> <<>>, all |-> <<>>]

\* SeedCache of one entry after the other, into an empty cache.
Seeded(es) ==
    LET cache[k \in 0 .. Len(es)] ==
            IF k = 0 THEN NoCache ELSE Store(cache[k - 1], es[k].ea1, es[k].ea2, es[k].ratio)
    IN  cache[Len(es)]

SetCache(c) == byId' = c.id /\ byText' = c.text /\ entries' = c.all

-----------------------------------------------------------------------------
(* The parts of the ratio *)

\* RoundDecimal7: to the nearest, a tie to the even one; n / d in units of 1/Scale.
Round(n, d) ==
    LET q == (n * Scale) \div d
        r == (n * Scale) % d
    IN  IF 2 * r > d \/ (2 * r = d /\ q % 2 = 1) THEN q + 1 ELSE q

Occurs(e, s) == Cardinality({i \in DOMAIN s : s[i] = e})

\* Both line multisets are counted by line; a line matches as often as both have it.
CommonLines(s, t) ==
    FoldLeft(LAMBDA n, e : n + (IF Occurs(e, s) < Occurs(e, t) THEN Occurs(e, s) ELSE Occurs(e, t)),
             0, SetToSeq(ToSet(s)))

\* QuickPrepared, rounded.
QuickRatio(x, y) ==
    IF None \in {x, y} \/ EmptyText \in {x, y} THEN 0
    ELSE IF x.blob \/ y.blob THEN Raise
    ELSE 5 * Round(2 * CommonLines(x.lines, y.lines), Len(x.lines) + Len(y.lines))

\* V1: both functions have pseudocode, and cleaning it left something.
PseudoRatio(f, g) ==
    IF \/ None \in {f.pseudo, g.pseudo} \/ EmptyText \in {f.pseudo, g.pseudo}
       \/ EmptyText \in {f.cleanPseudo, g.cleanPseudo}
    THEN 0 ELSE QuickRatio(f.cleanPseudo, g.cleanPseudo)

\* V4 is the mean of both texts and three points, where the MD-Indices agree.
MdRatio(md1, md2, v1, v2) ==
    IF md1 = md2 /\ md1 > 0
    THEN LET x == (v1 + v2 + 3 * One) \div 5 IN IF One < x THEN One ELSE x
    ELSE 0

\* PyIntCanonical: str(int(text)).
IntDigits == {"0", "1", "2", "3"}
PyInt(text) ==
    LET inner == {i \in DOMAIN text : text[i] # " "}
        body == IF inner = {} THEN <<>>
                ELSE SubSeq(text, CHOOSE i \in inner : \A k \in inner : i <= k,
                                  CHOOSE i \in inner : \A k \in inner : i >= k)
        signed == body # <<>> /\ Head(body) \in {"+", "-"}
        number == IF signed THEN Tail(body) ELSE body
        valid == /\ number # <<>>
                 /\ \A i \in DOMAIN number :
                      \/ number[i] \in IntDigits
                      \/ /\ number[i] = "_"
                         /\ i \in 2 .. Len(number) - 1 /\ number[i - 1] \in IntDigits /\ number[i + 1] \in IntDigits
        digits == SelectSeq(number, LAMBDA c : c \in IntDigits)
        significant == {i \in DOMAIN digits : digits[i] # "0"}
    IN  IF ~valid THEN Raise
        ELSE IF significant = {} THEN <<"0">>
        ELSE (IF signed /\ Head(body) = "-" THEN <<"-">> ELSE <<>>)
             \o SubSeq(digits, CHOOSE i \in significant : \A k \in significant : i <= k, Len(digits))

CanonicalAddress(ea) == IF ea = None THEN Raise ELSE PyInt(ea)

\* FetchRowByAddress: the row of that text address, which need not be the row compared.
FetchRow(rows, address) ==
    LET found == {i \in DOMAIN rows : rows[i].ea = address /\ ~rows[i].eaBlob}
    IN  IF found = {} THEN Raise
        ELSE LET i == CHOOSE i \in found : TRUE IN IF rows[i].badUtf8 THEN Raise ELSE i

TextPoint(x, y) == IF x # None /\ x = y /\ x # EmptyText THEN Milli ELSE 0
IntPoint(x, y) == IF NotInteger \in {x, y} THEN Refuse
                  ELSE IF x = y /\ x # 0 THEN Milli ELSE 0    \* None = None counts
SwitchPoints(x, y) == IF x = y /\ x # "[]" THEN 3 * Milli ELSE 0
ConstantPoints(x, y) ==
    IF x.kind = "[]" THEN 0
    ELSE IF IsError(x.kind) THEN x.kind
    ELSE IF IsError(y.kind) THEN y.kind
    ELSE Cardinality(x.set \cap y.set) * (IF SameProcessor THEN 6 ELSE 8) * Milli

AddedUp(points) == IF FirstError(points) # None THEN FirstError(points)
                   ELSE FoldLeft(LAMBDA n, p : n + p, 0, points)

DeepScore(f, g) ==
    AddedUp(<<TextPoint(f.source, g.source), TextPoint(f.primes, g.primes),
              IntPoint(f.indegree, g.indegree), IntPoint(f.outdegree, g.outdegree),
              SwitchPoints(f.switches, g.switches), IntPoint(f.complexity, g.complexity),
              ConstantPoints(f.constants, g.constants)>>)

RowsScore(rows) == IF FirstError(rows) # None THEN FirstError(rows) ELSE DeepScore(Main(rows[1]), Diff(rows[2]))
AddressScore(a1, a2) ==
    IF FirstError(<<a1, a2>>) # None THEN FirstError(<<a1, a2>>)
    ELSE RowsScore(<<FetchRow(tables.main, a1), FetchRow(tables.diff, a2)>>)
DeepRatioByAddress(ea1, ea2) == AddressScore(CanonicalAddress(ea1), CanonicalAddress(ea2))

-----------------------------------------------------------------------------
(* Compute and CheckRatio *)

\* Mutant: the MD-Indices are not looked at.
StrongestOfAll(values, md1, md2) == CHOOSE v \in values : \A w \in values : w <= v

\* A ratio of 1 that the MD-Indices contradict gives way to the best other value.
Strongest(values, md1, md2) ==
    LET Top(S) == CHOOSE v \in S : \A w \in S : w <= v
        r == Top(values)
    IN  IF r = One /\ md1 # md2 THEN Top({v \in values : v # One} \cup {0}) ELSE r

WithScore(r, score) == IF IsError(score) THEN score ELSE IF r + score < One THEN r + score ELSE Clamp
Deepened(r, ea1, ea2) == IF r >= One THEN r ELSE WithScore(r, DeepRatioByAddress(ea1, ea2))

\* The MD-Index as the caller got it: float() of the text, or SQLite's cast.
MdOf(f, src) == IF src = "Python" THEN f.md.py ELSE f.md.sql

\* From the ratios of the pseudocode, the assembly and the microcode.
FromTexts(f, g, md1, md2, v) ==
    IF FirstError(v) # None THEN FirstError(v)
    ELSE IF v[3] = One THEN One
    ELSE Deepened(Strongest({v[1], v[2], 0, MdRatio(md1, md2, v[1], v[2]), v[3]}, md1, md2), f.ea, g.ea)

Compute(f, g, src) ==
    LET md1 == MdOf(f, src)
        md2 == MdOf(g, src)
    IN  IF FirstError(<<md1, md2>>) # None THEN FirstError(<<md1, md2>>)
        ELSE IF f.hash = g.hash THEN One
        ELSE FromTexts(f, g, md1, md2, <<PseudoRatio(f, g), QuickRatio(f.assembly, g.assembly),
                                         QuickRatio(f.micro, g.micro)>>)

\* PatchDiffHookOnMatch after the walk over the diff has ended in outcome: what
\* it leaves of the session.  A pair is marked before it is analysed.
HookRaises(f, g, outcome) ==
    outcome = "raise" \/ (outcome = "found" /\ (\/ None \in {f.nodes, g.nodes}
                                                \/ IsError(CanonicalAddress(f.ea))
                                                \/ IsError(CanonicalAddress(g.ea))))
\* check_match hands both names to the hook, the row paths the main name twice.
HookKey(f, g, src) == IF src = "Python" THEN <<f.name, f.name>> ELSE <<f.name, g.name>>

OnMatch(i, j, src, ratio) ==
    LET key == HookKey(Main(i), Diff(j), src)
    IN  IF ~HooksLoaded \/ ratio >= One \/ key \in dones
        THEN UNCHANGED <<dones, analysed, alive>>
        ELSE /\ dones' = dones \cup {key}
             /\ analysed' = With(analysed, key, 1 + (IF key \in DOMAIN analysed THEN analysed[key] ELSE 0))
             /\ alive' = ~HookRaises(Main(i), Diff(j), tables.hook[<<i, j>>])

NoHook == UNCHANGED <<dones, analysed, alive>>

\* One call of a consumer: the ratio of rows i and j, from the cache when it is
\* there, and the hook when the match state lets the pair through.  An
\* exception leaves the engine as it is and ends the diff.
Call(i, j, src) ==
    /\ alive /\ calls < MaxCalls
    /\ calls' = calls + 1
    /\ LET f == Main(i)
           g == Diff(j)
           key == DictKey(f, g)
       IN  \E hit \in {Find(f.ea, g.ea)} : \E ratio \in {IF hit # None THEN hit ELSE Compute(f, g, src)} :
              /\ IF hit # None \/ IsError(ratio)
                 THEN UNCHANGED <<byId, byText, entries>>
                 ELSE SetCache(Store(Cache, f.ea, g.ea, ratio))
              /\ answer' = [row1 |-> i, row2 |-> j, src |-> src, ratio |-> ratio, hit |-> hit # None]
              /\ pydict' = IF IsError(ratio) \/ key \in DOMAIN pydict THEN pydict ELSE With(pydict, key, ratio)
              /\ IF IsError(ratio) THEN alive' = FALSE /\ UNCHANGED <<dones, analysed>>
                 ELSE NoHook \/ OnMatch(i, j, src, ratio)
    /\ UNCHANGED <<tables, file>>

CheckRatio(i, j) == Call(i, j, "Sql")

CompareFunctionRows(i, j) ==
    IF Main(i).eaBlob \/ Diff(j).eaBlob
    THEN /\ alive /\ alive' = FALSE
         /\ UNCHANGED <<tables, byId, byText, entries, dones, calls, answer, file, pydict, analysed>>
    ELSE Call(i, j, "Python")

-----------------------------------------------------------------------------
(* Checkpoints and snapshots *)

CaptureCheckpoint ==
    /\ alive
    /\ file' = [kind |-> "checkpoint", cache |-> entries, dones |-> dones,
                dict |-> pydict, analysed |-> analysed]
    /\ UNCHANGED <<tables, byId, byText, entries, dones, alive, calls, answer, pydict, analysed>>

\* A snapshot holds the cache by key text, and no hook state.
Snapshot ==
    /\ alive
    /\ file' = [kind |-> "snapshot",
                cache |-> [k \in DOMAIN entries |-> [key |-> TextKey(entries[k].ea1, entries[k].ea2),
                                                     ratio |-> entries[k].ratio]],
                dones |-> {}, dict |-> pydict, analysed |-> <<>>]
    /\ UNCHANGED <<tables, byId, byText, entries, dones, alive, calls, answer, pydict, analysed>>

\* A key is split at the first dash between two addresses of their sides, else at its first dash.
Known(rows, ea) == \E i \in DOMAIN rows : rows[i].ea = ea
SplitKey(key) ==
    LET dashes == {d \in DOMAIN key : key[d] = "-"}
        Left(d) == SubSeq(key, 1, d - 1)
        Right(d) == SubSeq(key, d + 1, Len(key))
        fitting == {d \in dashes : Known(tables.main, Left(d)) /\ Known(tables.diff, Right(d))}
        from == IF fitting # {} THEN fitting ELSE dashes
        d == CHOOSE d \in from : \A e \in from : d <= e
    IN  [ea1 |-> Left(d), ea2 |-> Right(d)]
SplitEntry(e) == [ea1 |-> SplitKey(e.key).ea1, ea2 |-> SplitKey(e.key).ea2, ratio |-> e.ratio]

\* Mutant: the pairs the hook has analysed are not restored.
RestoreWithoutHook ==
    /\ file # None /\ file.kind = "checkpoint"
    /\ SetCache(Seeded(file.cache))
    /\ dones' = {} /\ analysed' = file.analysed
    /\ pydict' = file.dict
    /\ alive' = TRUE /\ calls' = 0 /\ answer' = None
    /\ UNCHANGED <<tables, file>>

\* RestoreCheckpoint in a new process: the cache is seeded entry by entry.
RestoreCheckpoint ==
    /\ file # None /\ file.kind = "checkpoint"
    /\ SetCache(Seeded(file.cache))
    /\ dones' = file.dones /\ analysed' = file.analysed
    /\ pydict' = file.dict
    /\ alive' = TRUE /\ calls' = 0 /\ answer' = None
    /\ UNCHANGED <<tables, file>>

\* DiffSession::Restore of a replay.
RestoreSnapshot ==
    /\ file # None /\ file.kind = "snapshot"
    /\ SetCache(Seeded([k \in DOMAIN file.cache |-> SplitEntry(file.cache[k])]))
    /\ dones' = file.dones /\ analysed' = file.analysed
    /\ pydict' = file.dict
    /\ alive' = TRUE /\ calls' = 0 /\ answer' = None
    /\ UNCHANGED <<tables, file>>

RatioInit(t) ==
    /\ tables = t
    /\ byId = <<>> /\ byText = <<>> /\ entries = <<>>     \* ClearCache
    /\ dones = {} /\ alive = TRUE /\ calls = 0 /\ answer = None /\ file = None
    /\ pydict = <<>> /\ analysed = <<>>

RatioNext ==
    \/ \E i \in DOMAIN tables.main, j \in DOMAIN tables.diff : CheckRatio(i, j) \/ CompareFunctionRows(i, j)
    \/ CaptureCheckpoint \/ Snapshot
    \/ RestoreCheckpoint \/ RestoreSnapshot

\* A diff of two tables whose addresses are NULL or texts.
AddressesAreTexts(t) ==
    \A rows \in {t.main, t.diff} : \A i \in DOMAIN rows : rows[i].ea \in Addrs /\ ~rows[i].eaBlob
RatioSpec(t) == RatioInit(t) /\ [][RatioNext]_rvars

-----------------------------------------------------------------------------
(* Properties *)

\* The split cache answers every pair of rows as Diaphora's one dictionary,
\* keyed by the joined text, would: also for the pairs whose texts join to the
\* same key, and also when it was rebuilt from a checkpoint or a snapshot.
CacheIsPythonDict ==
    \A i \in DOMAIN tables.main, j \in DOMAIN tables.diff :
        Find(Main(i).ea, Diff(j).ea) = Lookup(pydict, DictKey(Main(i), Diff(j)))

\* The lines that one of two texts has more often than the other, each as often.
Unpaired(x, y) ==
    LET More(s, t, e) == IF Occurs(e, s) > Occurs(e, t) THEN Occurs(e, s) - Occurs(e, t) ELSE 0
    IN  FoldLeft(LAMBDA n, e : n + More(x.lines, y.lines, e) + More(y.lines, x.lines, e),
                 0, SetToSeq(ToSet(x.lines) \cup ToSet(y.lines)))

\* As many lines without a partner as rounding hides: none, up to 2 * Scale lines in the two texts together.
Alike(x, y) == /\ None \notin {x, y} /\ x.lines # <<>> /\ y.lines # <<>>
               /\ 2 * Scale * Unpaired(x, y) <= Len(x.lines) + Len(y.lines)

\* A computed ratio is 1, which makes a best match, only for rows of the same
\* bytes hash, of alike microcode, or of the same MD-Index and alike cleaned
\* pseudocode or assembly: no deep score and no mean reaches it.  Alike texts
\* have the same lines, or are so long that at most one line in 2 * Scale is
\* without a partner: from there on the rounding to 7 decimals makes 1 of their
\* ratio, and the engine calls them identical.
PerfectMeansAlike ==
    (answer # None /\ answer.ratio = One /\ ~answer.hit) =>
        LET f == Main(answer.row1)
            g == Diff(answer.row2)
        IN  \/ f.hash = g.hash
            \/ Alike(f.micro, g.micro)
            \/ /\ MdOf(f, answer.src) = MdOf(g, answer.src)
               /\ Alike(f.cleanPseudo, g.cleanPseudo) \/ Alike(f.assembly, g.assembly)

\* The hook analyses a pair of names at most once in a diff, resumed from a
\* checkpoint or not.
HookOncePerPair == \A key \in DOMAIN analysed : analysed[key] = 1

=============================================================================
