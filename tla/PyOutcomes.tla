----------------------------- MODULE PyOutcomes -----------------------------
(***************************************************************************)
(* What a call of the ported Python code can come to besides a value       *)
(* (Errors.h): NULL or Python's None, an exception that Diaphora would     *)
(* have raised too, and an input the port declines.                        *)
(***************************************************************************)
EXTENDS Integers, Sequences

CONSTANTS None,
          Raise,       \* DiaphoraWouldRaise
          Refuse       \* UnsupportedInput

IsError(v) == v \in {Raise, Refuse}

\* The error that is met first, or None.
FirstError(vs) == IF \E i \in DOMAIN vs : IsError(vs[i])
                  THEN vs[CHOOSE i \in DOMAIN vs : IsError(vs[i]) /\ \A j \in 1 .. i - 1 : ~IsError(vs[j])]
                  ELSE None

=============================================================================
