--------------------------- MODULE CheckpointCell ---------------------------
(***************************************************************************)
(* What a checkpoint directory promises to the diff that writes into it    *)
(* and to a later --resume: one cell that holds at most one complete       *)
(* checkpoint.  A write replaces the content in one step, wherever the     *)
(* process is killed; a power loss may undo only what was not yet synced,  *)
(* and it may leave the cell damaged only while an unsynced removal is     *)
(* outstanding.  CheckpointStore implements this specification with files. *)
(***************************************************************************)
CONSTANTS Checkpoints,   \* the values a checkpoint may have
          NoCheckpoint,  \* --resume reports "holds no checkpoint"
          Damaged        \* --resume reports "is damaged"

VARIABLES cell,          \* what Load would find now
          safe           \* what Load would find if a power loss undid every unsynced change

cellVars == <<cell, safe>>

CellInit == /\ cell = NoCheckpoint
            /\ safe = NoCheckpoint

\* CheckpointStore::Write replaced the manifest.  Only over a cell that is not damaged: a damaged
\* checkpoint stops both a fresh run and --resume.
Commit == /\ cell # Damaged
          /\ cell' \in Checkpoints
          /\ UNCHANGED safe

\* CheckpointStore::Remove deleted the manifest; the deletion is not synced.
Clear == /\ cell' = NoCheckpoint
         /\ UNCHANGED safe

\* A sync of the directory: what is there now survives a power loss.
Settle == /\ safe' = cell
          /\ UNCHANGED cell

\* A power loss keeps the content or falls back to the synced one.  The files of the two may mix only
\* after Clear, when the manifest and the state files were deleted without a sync between them.
PowerLoss == /\ \/ cell' \in {cell, safe}
                \/ cell = NoCheckpoint /\ safe # NoCheckpoint /\ cell' = Damaged
             /\ safe' = cell'

\* The user deletes the checkpoint for good.
Discard == cell' = NoCheckpoint /\ safe' = NoCheckpoint

CellNext == Commit \/ Clear \/ Settle \/ PowerLoss \/ Discard

CellSpec == CellInit /\ [][CellNext]_cellVars
=============================================================================
