----------------------------- MODULE OutputFile -----------------------------
(***************************************************************************)
(* How an output comes to its path.  The results file of "diff" is a       *)
(* SQLite database: WriteDiaphoraResults (ResultsWriter.cpp) builds it     *)
(* under <out>.tmp-<pid>, removes the sidecars (-journal, -wal, -shm) of   *)
(* <out> and renames.  Snapshots and the snapshot index are plain bytes:   *)
(* ReplaceFileBytes (FileIo.cpp) writes <out>.tmp and renames.             *)
(*                                                                         *)
(* Several processes may write one results file.  Any step may fail, a     *)
(* process may be killed, and the power may fail: nothing here syncs a     *)
(* directory, and only the commit of a database flushes a file.            *)
(***************************************************************************)
EXTENDS Naturals

CONSTANTS Processes,   \* the processes, by their id; an id may be used again
          Writer,      \* "results" or "bytes"
          Hot,         \* TRUE: the path may hold a database whose last transaction its sidecar has to undo
          PowerFails,  \* TRUE: the power may fail
          Old,         \* the file that was there before the first run
          Nothing      \* no file, no sidecar

ASSUME OutputConstants == /\ Old \notin Processes /\ Nothing \notin Processes /\ Old # Nothing
                          /\ Writer \in {"results", "bytes"}
                          /\ Hot \in BOOLEAN /\ PowerFails \in BOOLEAN
                          /\ Writer = "bytes" => ~Hot /\ \E p \in Processes : Processes = {p}

Owners == Processes \cup {Old}

\* A file: who wrote it, whether all of its bytes are there, whether they are flushed to the disk.
Files == [by : Owners, whole : BOOLEAN, flushed : BOOLEAN]

VARIABLES out,    \* the file at the path
          side,   \* the owner of the database that the sidecars at <out>-journal and <out>-wal belong to
          tmp,    \* per process, the file under its temporary name
          sOut,   \* the file and the sidecars that the path has on the disk for certain
          sSide,
          step      \* per process, where it is

outputVars == <<out, side, tmp, sOut, sSide, step>>

Partial(p) == [by |-> p, whole |-> FALSE, flushed |-> FALSE]
Complete(p) == [by |-> p, whole |-> TRUE, flushed |-> Writer = "results"]
OldFile(whole) == [by |-> Old, whole |-> whole, flushed |-> TRUE]

OutputInit == /\ \/ out = Nothing /\ side = Nothing
                 \/ out = OldFile(TRUE) /\ side = Nothing
                 \/ Hot /\ out = OldFile(FALSE) /\ side = Old
              /\ tmp = [p \in Processes |-> Nothing]
              /\ sOut = out /\ sSide = side
              /\ step = [p \in Processes |-> "idle"]

At(p, here, next) == step[p] = here /\ step' = [step EXCEPT ![p] = next]

\* What a killed process with the same id left is removed or truncated, and the file is begun.
Begin(p) == /\ At(p, "idle", "writing")
            /\ tmp' = [tmp EXCEPT ![p] = Partial(p)]
            /\ UNCHANGED <<out, side, sOut, sSide>>

\* The commit of the database, which flushes it, or the last byte.
Finish(p) == /\ At(p, "writing", "committed")
             /\ tmp' = [tmp EXCEPT ![p] = Complete(p)]
             /\ UNCHANGED <<out, side, sOut, sSide>>

\* RemoveDatabaseSidecars of <out>; ReplaceFileBytes has no such step.
RemoveDatabaseSidecars(p) == /\ At(p, "committed", "bare")
                             /\ side' = IF Writer = "results" THEN Nothing ELSE side
                             /\ UNCHANGED <<out, tmp, sOut, sSide>>

\* Mutant: the file is renamed before it is complete.
RenameEarly(p) == /\ At(p, "writing", "idle")
                  /\ out' = tmp[p]
                  /\ tmp' = [tmp EXCEPT ![p] = Nothing]
                  /\ UNCHANGED <<side, sOut, sSide>>

RenameReplacing(p) == /\ At(p, "bare", "idle")
                      /\ out' = tmp[p]
                      /\ tmp' = [tmp EXCEPT ![p] = Nothing]
                      /\ UNCHANGED <<side, sOut, sSide>>

\* A step raises.  The temporary file is removed, if that succeeds; ReplaceFileBytes does not even try
\* when it was the write that failed.
Fails(p) == /\ step[p] # "idle"
            /\ step' = [step EXCEPT ![p] = "idle"]
            /\ \E left \in {tmp[p], Nothing} : tmp' = [tmp EXCEPT ![p] = left]
            /\ Writer = "bytes" /\ step[p] = "writing" => UNCHANGED tmp
            /\ UNCHANGED <<out, side, sOut, sSide>>

Kill(p) == /\ step[p] # "idle"
           /\ step' = [step EXCEPT ![p] = "idle"]
           /\ UNCHANGED <<out, side, tmp, sOut, sSide>>

\* What is left of a file: bytes that were not flushed may be missing.
Remains(f) == IF f = Nothing \/ f.flushed THEN {f} ELSE {f, Partial(f.by)}

\* Each name keeps what it has or falls back, on its own.
LosePower == /\ PowerFails
             /\ out' \in Remains(out) \cup Remains(sOut)
             /\ side' \in {side, sSide}
             /\ tmp' \in [Processes -> {Nothing} \cup UNION {Remains(tmp[p]) : p \in Processes}]
             /\ \A p \in Processes : tmp'[p] \in {Nothing} \cup Remains(tmp[p])
             /\ sOut' = out' /\ sSide' = side'
             /\ step' = [p \in Processes |-> "idle"]

\* The operating system writes back what is in memory.
WriteBack == /\ PowerFails
             /\ out' = IF out = Nothing THEN Nothing ELSE [by |-> out.by, whole |-> out.whole, flushed |-> TRUE]
             /\ sOut' = out' /\ sSide' = side
             /\ UNCHANGED <<side, tmp, step>>

OutputNext == \/ \E p \in Processes : \/ Begin(p) \/ Finish(p) \/ RemoveDatabaseSidecars(p) \/ RenameReplacing(p)
                                      \/ Fails(p) \/ Kill(p)
              \/ LosePower \/ WriteBack

OutputSpec == OutputInit /\ [][OutputNext]_outputVars

-----------------------------------------------------------------------------
(* Properties *)

\* The type invariant.
OutputTypeOK == /\ out \in Files \cup {Nothing} /\ sOut \in Files \cup {Nothing}
                /\ side \in {Old, Nothing} /\ sSide \in {Old, Nothing}
                /\ tmp \in [Processes -> Files \cup {Nothing}]
                /\ step \in [Processes -> {"idle", "writing", "committed", "bare"}]

\* What a reader finds at the path is complete: all bytes are there, or the sidecar undoes the
\* transaction that was not finished.
NeverPartial == out # Nothing => out.whole \/ side = out.by

\* SQLite never takes the journal of the file that was replaced for one of the new file, and rolls it
\* back into it (ResultsWriter.cpp, before the rename).
NoForeignSidecar == out # Nothing => side \in {Nothing, out.by}
=============================================================================
