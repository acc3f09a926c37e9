------------------------------- MODULE Matching -------------------------------
(***************************************************************************)
(* The matching engine of one diff: class MatchState (MatchState.cpp), the *)
(* row consumers (Consumer.cpp), the stages that feed it and the final     *)
(* pass (FinalPass.cpp, Unmatched.cpp).                                    *)
(*                                                                         *)
(* A stage offers pairs of functions, row by row.  A row that passes the   *)
(* tests of its stage becomes an item of the best or the partial list and  *)
(* overwrites the entries of its two NAMES in the dictionaries Primary and *)
(* Secondary, which the tests for later rows read.  Cleanup sorts and      *)
(* prunes the lists and rebuilds the dictionaries.  The final pass turns   *)
(* the lists into the results.                                             *)
(*                                                                         *)
(* Which rows a query returns depends on the exports: any pair may come    *)
(* up, any number of times.  A row that is rejected changes nothing, so it *)
(* has no step of its own.                                                 *)
(***************************************************************************)
EXTENDS Naturals, FiniteSets, SequencesExt

CONSTANTS Main, Diff,     \* the functions of the two exports, identified by their addresses
          Name, Mangled,  \* functions.name and functions.mangled_function
          PairKey,        \* the text of Cleanup for a pair of names, joined by a dash
          SubNames,       \* the names that begin with "sub_"
          NullSubs,       \* the names that begin with "nullsub_"
          SameAddress,    \* the pairs with equal addresses
          Equal,          \* the pairs that the INTERSECT of find_equal_matches returns
          Tables,         \* the possible ratio tables: CheckRatio and CompareFunctionRows per pair
          MaxItems        \* bound on the items in the lists

\* Ratios are five representative values in their order: up to 0.3, 0.4, 0.5, 0.6 and 1.0.  The bonus of
\* 0.01 is one step, which never reaches 1.0.
One == 4
Ratios == 0..One
DefaultPartial == 2                  \* kDefaultPartialRatio, >=
TrustedPartial == 0                  \* kDefaultTrustedPartialRatio, >
RenamedMin == 3                      \* kSpeedupPatchDiffRenamedFunctionMinRatio, >=
Mins == Ratios \ {One}               \* "min" of the heuristics; 0.5 where a heuristic has none
WithBonus(r) == IF r + 1 < One THEN r + 1 ELSE r

Pairs == Main \X Diff

Names == {Name[f] : f \in Main \cup Diff} \cup {Mangled[f] : f \in Main \cup Diff}

ASSUME MatchingConstants ==
  /\ Main \cap Diff = {}
  /\ Equal \subseteq SameAddress /\ SameAddress \subseteq Pairs
  /\ \A p, q \in SameAddress : p[1] = q[1] <=> p[2] = q[2]
  /\ \A p \in Equal : Mangled[p[1]] = Mangled[p[2]]
  /\ Tables \subseteq [Pairs -> Ratios]
  /\ MaxItems \in Nat

Categories == {"best", "partial", "unreliable"}

VARIABLES stage,      \* the running stage
          mode,       \* what apply_dirty_heuristics found: "none", "stripped" or "patch"
          ratio,      \* the ratio of every pair, fixed
          lists,      \* all_matches: the items of each category in order
          primary,    \* matched_primary: name |-> [other, ratio]
          secondary,  \* matched_secondary
          oldTotal,   \* old_total: the items after the cleanup at the top of the loop
          leftover,   \* the pairs that find_remaining_functions walks
          results,    \* the choosers after the final pass
          unmatched   \* the functions listed as unmatched

vars == <<stage, mode, ratio, lists, primary, secondary, oldTotal, leftover, results, unmatched>>
state == <<lists, primary, secondary>>

NoResults == [best |-> {}, partial |-> {}, unreliable |-> {}, multimatch |-> {}]

Init == /\ stage = "equal"
        /\ mode = "none"
        /\ ratio \in Tables
        /\ lists = [best |-> <<>>, partial |-> <<>>, unreliable |-> <<>>]
        /\ primary = <<>> /\ secondary = <<>>
        /\ oldTotal = 0
        /\ leftover = {}
        /\ results = NoResults
        /\ unmatched = {}

-----------------------------------------------------------------------------
(* MatchState *)

Put(dict, key, entry) == [k \in DOMAIN dict \cup {key} |-> IF k = key THEN entry ELSE dict[k]]

ItemOf(m, d, n1, n2, desc, r) == [ea1 |-> m, n1 |-> n1, ea2 |-> d, n2 |-> n2, desc |-> desc, ratio |-> r]

\* For two real names only the question whether the first one is matched to itself counts.
HasBetterMatch(n1, n2, r) ==
  IF n1 \notin SubNames /\ n2 \notin SubNames /\ n1 \in DOMAIN primary
    THEN primary[n1].other = n1
    ELSE \/ n1 \in DOMAIN primary /\ primary[n1].ratio > r
         \/ n2 \in DOMAIN secondary /\ secondary[n2].ratio > r

HasBestMatch(n1, n2) == \/ n1 \in DOMAIN primary /\ primary[n1].ratio = One
                        \/ n2 \in DOMAIN secondary /\ secondary[n2].ratio = One

\* Two functions of one name count with a ratio of 1.0; the item keeps its own.
FakeRatio(it) == IF it.n1 = it.n2 THEN One ELSE it.ratio

AddMatch(it, c) ==
  LET stored == FakeRatio(it)
  IN  /\ stored = One \/ ~HasBetterMatch(it.n1, it.n2, stored)
      /\ lists' = IF it \in ToSet(lists[c]) THEN lists ELSE [lists EXCEPT ![c] = Append(@, it)]
      /\ primary' = Put(primary, it.n1, [other |-> it.n2, ratio |-> stored])
      /\ secondary' = Put(secondary, it.n2, [other |-> it.n1, ratio |-> stored])

\* Counts names, and compares with =.
AllFunctionsMatched == \/ Cardinality(DOMAIN primary) = Cardinality(Main)
                       \/ Cardinality(DOMAIN secondary) = Cardinality(Diff)

\* Mutant: equal ratios come out in the opposite order.
RankUnstable(s, i) == Cardinality({j \in DOMAIN s : s[j].ratio > s[i].ratio \/ (s[j].ratio = s[i].ratio /\ j >= i)})

\* The place of item i in the stable order by descending ratio.
Rank(s, i) == Cardinality({j \in DOMAIN s : s[j].ratio > s[i].ratio \/ (s[j].ratio = s[i].ratio /\ j <= i)})

SortDescending(s) == [k \in DOMAIN s |-> s[CHOOSE i \in DOMAIN s : Rank(s, i) = k]]

\* Mutant: a pair of names is recognised by its second name.
PruneBySecond(acc, it) ==
  LET beaten == it.ea1 \in DOMAIN acc.eaRatios /\ acc.eaRatios[it.ea1] > FakeRatio(it)
  IN  IF it.n2 \in acc.dones THEN acc
      ELSE [dones    |-> acc.dones \cup {it.n2},
            eaRatios |-> IF beaten THEN acc.eaRatios ELSE Put(acc.eaRatios, it.ea1, FakeRatio(it)),
            out      |-> IF beaten THEN acc.out ELSE Append(acc.out, it)]

\* One item of Cleanup's walk.  The pair of names is marked before the test of the main function.
Prune(acc, it) ==
  LET key == PairKey[<<it.n1, it.n2>>]
      beaten == it.ea1 \in DOMAIN acc.eaRatios /\ acc.eaRatios[it.ea1] > FakeRatio(it)
  IN  IF key \in acc.dones THEN acc
      ELSE [dones    |-> acc.dones \cup {key},
            eaRatios |-> IF beaten THEN acc.eaRatios ELSE Put(acc.eaRatios, it.ea1, FakeRatio(it)),
            out      |-> IF beaten THEN acc.out ELSE Append(acc.out, it)]

\* One category; dones and eaRatios go on from category to category.
PruneList(acc, s) ==
  LET sorted == SortDescending(s)
      walk[k \in 0..Len(s)] == IF k = 0 THEN [dones |-> acc.dones, eaRatios |-> acc.eaRatios, out |-> <<>>]
                               ELSE Prune(walk[k - 1], sorted[k])
  IN  walk[Len(s)]

Pruned(l) ==
  LET best == PruneList([dones |-> {}, eaRatios |-> <<>>, out |-> <<>>], l["best"])
      partial == PruneList(best, l["partial"])
      unreliable == PruneList(partial, l["unreliable"])
  IN  [best |-> best.out, partial |-> partial.out, unreliable |-> unreliable.out]

AllItems(l) == l["best"] \o l["partial"] \o l["unreliable"]

\* Mutant: the dictionaries are not rebuilt.
CleanupListsOnly == lists' = Pruned(lists) /\ UNCHANGED <<primary, secondary>>

\* One entry per name in the field "name", for the last item that has it.
Entries(s, name, other) ==
  [n \in {it[name] : it \in ToSet(s)} |->
     LET k == CHOOSE k \in DOMAIN s : s[k][name] = n /\ \A j \in DOMAIN s : s[j][name] = n => j <= k
     IN  [other |-> s[k][other], ratio |-> s[k].ratio]]

\* The dictionaries are rebuilt from the kept items with their own ratios.
Cleanup ==
  LET kept == Pruned(lists)
  IN  /\ lists' = kept
      /\ primary' = Entries(AllItems(kept), "n1", "n2")
      /\ secondary' = Entries(AllItems(kept), "n2", "n1")

-----------------------------------------------------------------------------
(* The consumers *)

\* check_match.
CheckMatch(m, d) == /\ Name[m] \notin NullSubs /\ Name[d] \notin NullSubs
                    /\ ~HasBestMatch(Name[m], Name[d])
                    /\ ~HasBetterMatch(Name[m], Name[d], ratio[<<m, d>>])

\* 1.0 goes to the best list, anything from val on to the partial list, the rest is dropped.
Routed(m, d, desc, r, val) ==
  LET it == ItemOf(m, d, Name[m], Name[d], desc, r)
  IN  IF r = One THEN AddMatch(it, "best") ELSE r >= val /\ AddMatch(it, "partial")

\* A row of add_matches_internal.
AddMatchesInternal(m, d, val) == CheckMatch(m, d) /\ Routed(m, d, stage, ratio[<<m, d>>], val)

\* A row of add_matches_from_query: 1.0, whatever the ratio is.
AddMatchesFromQuery(m, d) == CheckMatch(m, d) /\ Routed(m, d, stage, One, One)

\* Room for one more item.
Room == Len(AllItems(lists)) < MaxItems

\* A row changes the match state and nothing else.
RowOf(s) == /\ stage = s
            /\ Room
            /\ UNCHANGED <<stage, mode, ratio, oldTotal, leftover, results, unmatched>>

GoTo(s) == stage' = s /\ UNCHANGED <<ratio, results, unmatched>>

-----------------------------------------------------------------------------
(* The stages before the heuristics *)

\* find_equal_matches keys its items by the mangled name.
EqualRow(m, d) == /\ RowOf("equal")
                  /\ <<m, d>> \in Equal
                  /\ AddMatch(ItemOf(m, d, Mangled[m], Mangled[d], stage, One), "best")

\* find_same_name looks at all_functions_matched once, before its rows; then come the heuristics, or the
\* remaining functions when a dirty heuristic fired.
AfterSameName(skip) == IF skip = "none" THEN "best" ELSE "remaining"
BeforeSameName(skip) == IF AllFunctionsMatched THEN AfterSameName(skip) ELSE "sameName"

\* get_unmatched_functions: the names that have no entry when find_remaining_functions begins.  Only a
\* patch diff walks them, and only from main functions without a real name.
Leftover(skip) == {p \in Pairs : /\ skip = "patch"
                                 /\ Name[p[1]] \in SubNames
                                 /\ Name[p[1]] \notin DOMAIN primary
                                 /\ Name[p[2]] \notin DOMAIN secondary}

\* apply_dirty_heuristics decides by percentages of the exports; the rows of a stripped binary need the
\* all_functions_matched test of add_matches_from_query_ratio.
ApplyDirtyHeuristics(found) ==
  /\ stage = "equal"
  /\ mode' = found
  /\ GoTo(IF found = "stripped" /\ ~AllFunctionsMatched THEN "stripped" ELSE BeforeSameName(found))
  /\ leftover' = IF stage' = "remaining" THEN Leftover(found) ELSE {}
  /\ UNCHANGED <<state, oldTotal>>

StrippedRow(m, d) == /\ RowOf("stripped")
                     /\ <<m, d>> \in SameAddress
                     /\ AddMatchesInternal(m, d, DefaultPartial)

StrippedEnds == /\ stage = "stripped"
                /\ GoTo(BeforeSameName(mode))
                /\ UNCHANGED <<mode, state, oldTotal, leftover>>

\* The bonus applies below 1.0; there is no lower bound.
SameNameRow(m, d) ==
  /\ RowOf("sameName")
  /\ Name[m] = Name[d] \/ Mangled[m] = Mangled[d]
  /\ Mangled[m] \notin SubNames
  /\ CheckMatch(m, d)
  /\ Routed(m, d, stage, IF ratio[<<m, d>>] = One THEN One ELSE WithBonus(ratio[<<m, d>>]), 0)

SameNameEnds == /\ stage = "sameName"
                /\ GoTo(AfterSameName(mode))
                /\ leftover' = IF stage' = "remaining" THEN Leftover(mode) ELSE {}
                /\ UNCHANGED <<mode, state, oldTotal>>

RemainingRow(m, d) == /\ RowOf("remaining")
                      /\ <<m, d>> \in leftover
                      /\ AddMatchesInternal(m, d, RenamedMin)

-----------------------------------------------------------------------------
(* The heuristics of the categories Best and Partial *)

\* The wrapper of a heuristic returns at once when all functions are matched; it does not look again
\* while it reads rows.
StartHeuristic(kind) == /\ \/ stage = "best" /\ kind \in {"bestQuery", "bestRatio"}
                           \/ stage = "partial" /\ kind = "partialRatio"
                        /\ ~AllFunctionsMatched
                        /\ GoTo(kind)
                        /\ UNCHANGED <<mode, state, oldTotal, leftover>>

QueryRow(m, d) == RowOf("bestQuery") /\ AddMatchesFromQuery(m, d)

RatioRow(m, d, kind, min) == RowOf(kind) /\ AddMatchesInternal(m, d, min)

HeuristicEnds == /\ stage \in {"bestQuery", "bestRatio", "partialRatio"}
                 /\ GoTo(IF stage = "partialRatio" THEN "partial" ELSE "best")
                 /\ UNCHANGED <<mode, state, oldTotal, leftover>>

\* run_heuristics_for_category ends with a cleanup.
CategoryEnds == /\ stage \in {"best", "partial"}
                /\ Cleanup
                /\ GoTo(IF stage = "best" THEN "partial" ELSE "small")
                /\ UNCHANGED <<mode, oldTotal, leftover>>

\* search_small_differences: also tests with the ratio of the names, and has no lower bound.
SmallDifferencesRow(m, d) ==
  /\ RowOf("small")
  /\ \E namesRatio \in DefaultPartial..One : ~HasBetterMatch(Name[m], Name[d], namesRatio)
  /\ AddMatchesInternal(m, d, 0)

SmallDifferencesEnds == stage = "small" /\ GoTo("loopTop") /\ UNCHANGED <<mode, state, oldTotal, leftover>>

-----------------------------------------------------------------------------
(* The convergence loop *)

\* The items of the best and the partial list.
TotalMatchedFunctions(l) == Len(l["best"]) + Len(l["partial"])

LoopCleanupTop == /\ stage = "loopTop"
                  /\ Cleanup
                  /\ oldTotal' = TotalMatchedFunctions(lists')
                  /\ GoTo("diffing")
                  /\ UNCHANGED <<mode, leftover>>

\* What follows a stage of the loop; "diffing", "related", "unit" and "gaps" are its stages before their
\* first statement, a cleanup.
LoopStages == [diffing |-> "callees", related |-> "constants", unit |-> "unitRows", gaps |-> "affine"]
LoopStageAfter == [constants |-> "unit", unitRows |-> "gaps", affine |-> "loopBottom"]

StartLoopStage(s) == /\ stage = s
                     /\ Cleanup
                     /\ GoTo(LoopStages[s])
                     /\ UNCHANGED <<mode, oldTotal, leftover>>

\* A pair of callees: the names must be unique; has_best_match is not asked, and the bonus is added after
\* the category is chosen.
CalleeCandidate(m, d) ==
  /\ RowOf("callees")
  /\ Name[m] \notin NullSubs /\ Name[d] \notin NullSubs
  /\ \A f \in Main : Name[f] = Name[m] => f = m
  /\ \A f \in Diff : Name[f] = Name[d] => f = d
  /\ ratio[<<m, d>>] > TrustedPartial
  /\ AddMatch(ItemOf(m, d, Name[m], Name[d], stage, IF ratio[<<m, d>>] = One THEN One ELSE WithBonus(ratio[<<m, d>>])),
              IF ratio[<<m, d>>] = One THEN "best" ELSE "partial")

\* A round over the matches ends with a cleanup.  There are up to three rounds for the assembly and three
\* for the pseudo-code.
CalleeRoundEnds == /\ stage = "callees"
                   /\ Cleanup
                   /\ \E next \in {"callees", "related"} : GoTo(next)
                   /\ UNCHANGED <<mode, oldTotal, leftover>>

\* Functions that use a constant which two matched functions share.
ConstantsRow(m, d) == RowOf("constants") /\ AddMatchesInternal(m, d, DefaultPartial)

\* Functions of the compilation units of two matched functions.
UnitRow(m, d) == RowOf("unitRows") /\ AddMatchesInternal(m, d, DefaultPartial)

\* Two functions in the gap between two matches, one of them without a real name.
LocallyAffine(m, d) ==
  /\ RowOf("affine")
  /\ Name[m] \notin NullSubs /\ Name[d] \notin NullSubs
  /\ Name[m] \in SubNames \/ Name[d] \in SubNames
  /\ Routed(m, d, stage, ratio[<<m, d>>], DefaultPartial)

LoopStageEnds(s) == /\ stage = s
                    /\ GoTo(LoopStageAfter[s])
                    /\ UNCHANGED <<mode, state, oldTotal, leftover>>

\* Another iteration when this one has brought more items.
LoopCleanupBottom == /\ stage = "loopBottom"
                     /\ Cleanup
                     /\ GoTo(IF TotalMatchedFunctions(lists') <= oldTotal THEN "final" ELSE "loopTop")
                     /\ UNCHANGED <<mode, oldTotal, leftover>>

-----------------------------------------------------------------------------
(* final_pass and find_unmatched *)

Pair(it) == <<it.ea1, it.ea2>>

\* One item of find_unresolved_multimatches.  max_diff is only looked at when max_main lets the item pass.
Resolve(acc, it) ==
  LET passes == ~(it.ea1 \in DOMAIN acc.maxMain /\ acc.maxMain[it.ea1] > it.ratio)
      both == passes /\ ~(it.ea2 \in DOMAIN acc.maxDiff /\ acc.maxDiff[it.ea2] > it.ratio)
  IN  IF Pair(it) \in acc.dones THEN acc
      ELSE [dones     |-> acc.dones \cup {Pair(it)},
            maxMain   |-> IF passes THEN Put(acc.maxMain, it.ea1, it.ratio) ELSE acc.maxMain,
            multiMain |-> IF passes THEN [acc.multiMain EXCEPT ![it.ea1] = @ \cup {it}] ELSE acc.multiMain,
            maxDiff   |-> IF both THEN Put(acc.maxDiff, it.ea2, it.ratio) ELSE acc.maxDiff,
            multiDiff |-> IF both THEN [acc.multiDiff EXCEPT ![it.ea2] = @ \cup {it}] ELSE acc.multiDiff]

Unresolved(l) ==
  LET s == SortDescending(l["best"]) \o SortDescending(l["partial"]) \o SortDescending(l["unreliable"])
      walk[k \in 0..Len(s)] ==
        IF k = 0 THEN [dones |-> {}, maxMain |-> <<>>, multiMain |-> [m \in Main |-> {}],
                       maxDiff |-> <<>>, multiDiff |-> [d \in Diff |-> {}]]
        ELSE Resolve(walk[k - 1], s[k])
  IN  walk[Len(s)]

\* Mutant: nothing is ignored.
AddMultimatchesOnly(multi, dones) ==
  LET crowded == {ea \in DOMAIN multi : Cardinality(multi[ea]) > 1}
  IN  [items |-> UNION {multi[ea] : ea \in crowded}, ignore |-> {}]

\* Mutant: the crowded functions are ignored and their items forgotten.
IgnoreMultimatches(multi, dones) ==
  [items |-> {}, ignore |-> {ea \in DOMAIN multi : Cardinality(multi[ea]) > 1}]

\* add_multimatches_to_chooser.  A function is only ignored when one of its items is new to the chooser.
AddMultimatchesToChooser(multi, dones) ==
  LET crowded == {ea \in DOMAIN multi : Cardinality(multi[ea]) > 1}
      fresh(ea) == {it \in multi[ea] : Pair(it) \notin dones}
  IN  [items |-> UNION {fresh(ea) : ea \in crowded}, ignore |-> {ea \in crowded : fresh(ea) # {}}]

\* Mutant: the maxima are not asked.
ResolvedAnyRatio(l) ==
  LET u == Unresolved(l)
      main == AddMultimatchesToChooser(u.multiMain, {})
      diff == AddMultimatchesToChooser(u.multiDiff, {Pair(it) : it \in main.items})
      Final(c) == {it \in ToSet(l[c]) : it.ea1 \notin main.ignore /\ it.ea2 \notin diff.ignore}
  IN  [missing |-> {}, best |-> Final("best"), partial |-> Final("partial"), unreliable |-> Final("unreliable"),
       multimatch |-> main.items \cup diff.items]

\* The choosers for the lists l, and the items whose lookup max_diff[ea2] finds nothing.
Resolved(l) ==
  LET u == Unresolved(l)
      main == AddMultimatchesToChooser(u.multiMain, {})
      diff == AddMultimatchesToChooser(u.multiDiff, {Pair(it) : it \in main.items})
      Looked(c) == {it \in ToSet(l[c]) : /\ it.ea1 \notin main.ignore /\ it.ea2 \notin diff.ignore
                                         /\ it.ratio >= u.maxMain[it.ea1]}
      Final(c) == {it \in Looked(c) : it.ea2 \in DOMAIN u.maxDiff /\ it.ratio >= u.maxDiff[it.ea2]}
  IN  [missing |-> {it \in Looked("best") \cup Looked("partial") \cup Looked("unreliable") : it.ea2 \notin DOMAIN u.maxDiff},
       best |-> Final("best"), partial |-> Final("partial"), unreliable |-> Final("unreliable"),
       multimatch |-> main.items \cup diff.items]

\* max_diff[ea2] of an item that was never entered there is a KeyError and ends the run.
FinalPass ==
  /\ stage \in {"final", "remaining"}
  /\ Cleanup
  /\ LET r == Resolved(lists')
     IN  IF r.missing # {}
           THEN stage' = "raised" /\ UNCHANGED results
           ELSE /\ stage' = "unmatched"
                /\ results' = [best |-> r.best, partial |-> r.partial, unreliable |-> r.unreliable,
                               multimatch |-> r.multimatch]
  /\ leftover' = {}
  /\ UNCHANGED <<mode, ratio, oldTotal, unmatched>>

\* A function is unmatched when its name has no entry.
FindUnmatched ==
  /\ stage = "unmatched"
  /\ unmatched' = {m \in Main : Name[m] \notin DOMAIN primary} \cup {d \in Diff : Name[d] \notin DOMAIN secondary}
  /\ stage' = "done"
  /\ UNCHANGED <<mode, ratio, state, oldTotal, leftover, results>>

Row(m, d) == \/ EqualRow(m, d) \/ StrippedRow(m, d) \/ SameNameRow(m, d) \/ RemainingRow(m, d)
             \/ QueryRow(m, d)
             \/ \E min \in {2, 3} : RatioRow(m, d, "bestRatio", min)
             \/ \E min \in Mins : RatioRow(m, d, "partialRatio", min)
             \/ SmallDifferencesRow(m, d)
             \/ CalleeCandidate(m, d) \/ ConstantsRow(m, d) \/ UnitRow(m, d) \/ LocallyAffine(m, d)

Next == \/ \E m \in Main, d \in Diff : Row(m, d)
        \/ \E found \in {"none", "stripped", "patch"} : ApplyDirtyHeuristics(found)
        \/ StrippedEnds \/ SameNameEnds
        \/ \E kind \in {"bestQuery", "bestRatio", "partialRatio"} : StartHeuristic(kind)
        \/ HeuristicEnds \/ CategoryEnds \/ SmallDifferencesEnds
        \/ LoopCleanupTop \/ CalleeRoundEnds \/ LoopCleanupBottom
        \/ \E s \in {"diffing", "related", "unit", "gaps"} : StartLoopStage(s)
        \/ \E s \in {"constants", "unitRows", "affine"} : LoopStageEnds(s)
        \/ FinalPass \/ FindUnmatched

Spec == Init /\ [][Next]_vars

-----------------------------------------------------------------------------
(* Properties *)

Listed == ToSet(AllItems(lists))

\* The dictionaries, which decide about every later row, and the lists, which become the output, never
\* drift apart: an entry stands for an item with these names and its ratio (or the 1.0 of equal names),
\* and the names of every item have entries.
EntriesBacked ==
  LET Stands(it, entry) == entry.ratio = it.ratio \/ (it.n1 = it.n2 /\ entry.ratio = One)
  IN  /\ \A n \in DOMAIN primary : \E it \in Listed :
           it.n1 = n /\ it.n2 = primary[n].other /\ Stands(it, primary[n])
      /\ \A n \in DOMAIN secondary : \E it \in Listed :
           it.n2 = n /\ it.n1 = secondary[n].other /\ Stands(it, secondary[n])
      /\ \A it \in Listed : it.n1 \in DOMAIN primary /\ it.n2 \in DOMAIN secondary

\* A second cleanup changes nothing (docs/parity/06-iterative-final.md).  The convergence loop relies on
\* it: the total at the top of an iteration is the one at the bottom of the iteration before.
CleanupIdempotent == Pruned(Pruned(lists)) = Pruned(lists)

\* The keys that an item of these two functions can have.
KeysOf(m, d) == {PairKey[<<n1, n2>>] : n1 \in {Name[m], Mangled[m]}, n2 \in {Name[d], Mangled[d]}}

\* The keys of items of two main functions differ, as they do when the names do and have no dash.
KeysTellMainsApart == \A f, g \in Main, h, k \in Diff : f # g => KeysOf(f, h) \cap KeysOf(g, k) = {}

\* No cleanup leaves a main function without a match that it had.
MainStaysMatched ==
  [][\A m \in Main : (\E it \in Listed : it.ea1 = m) => \E it \in Listed' : it.ea1 = m]_vars

\* The lookup max_diff[ea2] of the final pass never fails (FinalPass.cpp calls that unreachable, since
\* best items are 1.0, partial items are below and the unreliable list is empty).
NoKeyError == stage # "raised"

Chosen == UNION {results[c] : c \in Categories}

\* A function of either export has at most one row outside the multimatch chooser.  A main function with
\* such a row has none there; a diff function has only worse ones there.  No function of a row is in the
\* list of unmatched functions too.
OneToOne ==
  /\ \A a, b \in Chosen : a # b => a.ea1 # b.ea1 /\ a.ea2 # b.ea2
  /\ \A a \in Chosen, b \in results["multimatch"] : a.ea1 # b.ea1 /\ (a.ea2 = b.ea2 => b.ratio < a.ratio)
  /\ \A it \in Chosen \cup results["multimatch"] : {it.ea1, it.ea2} \cap unmatched = {}

\* No match is chosen over a better one of its main function; a better one of its diff function was
\* passed over only because its own main function had a better match still (no two functions would
\* both rather have each other).
ChosenAreBest ==
  \A it \in Chosen, o \in Listed :
    /\ o.ea1 = it.ea1 => o.ratio <= it.ratio
    /\ o.ea2 = it.ea2 /\ o.ratio > it.ratio => \E b \in Listed : b.ea1 = o.ea1 /\ b.ratio > o.ratio

\* The final pass loses nothing for no reason: its lookups succeed, and an item of the lists that
\* reaches no chooser had a better rival, or a function of it is in the multimatch chooser.
DroppedForAReason ==
  /\ NoKeyError
  /\ stage \in {"unmatched", "done"} =>
       \A it \in Listed \ (Chosen \cup results["multimatch"]) :
         \/ \E o \in Listed : (o.ea1 = it.ea1 \/ o.ea2 = it.ea2) /\ o.ratio > it.ratio
         \/ \E o \in results["multimatch"] : o.ea1 = it.ea1 \/ o.ea2 = it.ea2

\* docs/parity/06-iterative-final.md: the final pass never produces the same address pair twice when
\* names are unique.
PairOnce == \A a, b \in Chosen \cup results["multimatch"] : Pair(a) = Pair(b) => a = b
=============================================================================
