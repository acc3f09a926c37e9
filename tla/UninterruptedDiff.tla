-------------------------- MODULE UninterruptedDiff --------------------------
(***************************************************************************)
(* What a series of diffs with kills and resumes promises: the output is   *)
(* replaced in one step by the results that diff(), run from beginning to  *)
(* end without a checkpoint, has for the inputs.  Pipeline implements this *)
(* specification.  Here the course of diff() is written down as a whole,   *)
(* with no cursor and no step left out.                                    *)
(***************************************************************************)
EXTENDS Naturals, Sequences

CONSTANTS Inputs, Usable, Skips, Totals, NoOutput

VARIABLES inputs, out

\* The total after the n-th cleanup of the loop.
TotalAfter(i, n) == Totals[i][IF n <= Len(Totals[i]) THEN n ELSE Len(Totals[i])]

\* How often the loop body runs: up to the first iteration that matches no more than it started with.
Rounds(i) == CHOOSE r \in 1..Len(Totals[i]) :
               /\ TotalAfter(i, 2 * r) <= TotalAfter(i, 2 * r - 1)
               /\ \A k \in 1..(r - 1) : TotalAfter(i, 2 * k) > TotalAfter(i, 2 * k - 1)

BeforeLoop(i) == IF i \in Skips THEN <<1, 2, 3, 4>> ELSE <<1, 2, 3, 5, 6, 7>>

\* The six steps of every iteration.
Loop(i) == IF i \in Skips THEN <<>>
           ELSE [n \in 1..(6 * Rounds(i)) |-> <<8 + ((n - 1) % 6), (n - 1) \div 6>>]

\* The steps of diff() with their iteration.
Course(i) == [n \in 1..Len(BeforeLoop(i)) |-> <<BeforeLoop(i)[n], 0>>] \o Loop(i) \o <<<<14, 0>>, <<15, 0>>>>

\* Every step finds the ratios cache of all steps before it, and from the second one on the prepared
\* ratio engine.
Work(i) == LET course == Course(i)
           IN  [n \in 1..Len(course) |-> <<course[n][1], course[n][2], n - 1, n > 1>>]

\* The empty file that Diaphora writes when diff.version is missing.
Empty == [choosers |-> <<>>, unmatched |-> <<>>]

ResultOf(i) == IF i \in Usable
                 THEN LET work == Work(i)
                      IN  [choosers |-> SubSeq(work, 1, Len(work) - 1), unmatched |-> work]
                 ELSE Empty

DiffInit == inputs \in Inputs /\ out = NoOutput

Finish == out' = [inputs |-> inputs, results |-> ResultOf(inputs)] /\ UNCHANGED inputs

InputsChange == inputs' \in Inputs /\ UNCHANGED out

DiffSpec == DiffInit /\ [][Finish \/ InputsChange]_<<inputs, out>>
=============================================================================
