----------------------------- MODULE MCLabelPort -----------------------------
(* Three builds of up to three functions and two output paths. *)
EXTENDS LabelPort, TLC

CONSTANTS b1, b2, b3,   \* the builds
          f1, f2, f3,   \* the functions
          o1, o2,       \* the outputs
          a, b, c, m    \* the real names; m is the mangled form of a

Row(n, k) == [name |-> n, mangled |-> k]
Pair(r, t, q, g, k) == [ref |-> r, tgt |-> t, ratio |-> q, category |-> g, kind |-> k]
Option(h, q, o, s, i) == [maxHops |-> h, minRatio |-> q, overwrite |-> o, overwriteStripped |-> s, include |-> i]

\* b1 is labelled, b2 in part, b3 not at all.
MCTable == (b1 :> (f1 :> Row(a, m) @@ f2 :> Row(b, b) @@ f3 :> Row(c, Null)))
        @@ (b2 :> (f1 :> Row(a, m) @@ f2 :> Row(Placeholder, Placeholder) @@ f3 :> Row(b, b)))
        @@ (b3 :> (f1 :> Row(Placeholder, Null) @@ f2 :> Row(Placeholder, Placeholder) @@ f3 :> NoRow))

\* In turn: an equal pair and a new label; a label whose withdrawal exposes another duplicate, with a
\* multimatch; two rows for one target.
MCDiffs == {<<Pair(f1, f1, 2, "best", "equal"), Pair(f3, f2, 1, "partial", "other")>>,
            <<Pair(f2, f1, 1, "best", "other"), Pair(f1, f2, 1, "multimatch", "other")>>,
            <<Pair(f3, f1, 2, "best", "stripped"), Pair(f1, f1, 1, "partial", "other")>>}

\* A label goes from b1 to o1, from there to o2 and on.  An output is a target as well, also of a build
\* that has no labels; what it keeps travels on from there.
MCJobs == {<<b1, b2, o1>>, <<o1, b3, o2>>, <<b1, o1, o2>>, <<b3, o1, o2>>, <<o2, b3, o1>>}

MCSettings == {Option(-1, 0, FALSE, FALSE, {}), Option(-1, 1, TRUE, FALSE, {"multimatch"}),
               Option(1, 0, TRUE, TRUE, {"unreliable"})}
=============================================================================
