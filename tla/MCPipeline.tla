----------------------------- MODULE MCPipeline -----------------------------
(* Pipeline for TLC: four inputs that take the four courses diff() has; the loop of one goes on past
   MaxIteration. *)
EXTENDS Pipeline, TLC

CONSTANTS unusable,   \* db2 has no version row
          stripped,   \* a dirty heuristic fires
          settled,    \* the first iteration of the loop matches nothing
          growing     \* the first two iterations match one function more each, the third one drops one

MCInputs == {unusable, stripped, settled, growing}
MCUsable == MCInputs \ {unusable}
MCSkips == {stripped}
MCTotals == (unusable :> <<0>>) @@ (stripped :> <<0>>) @@ (settled :> <<3, 3>>)
              @@ (growing :> <<0, 1, 1, 2, 2, 1>>)
=============================================================================
