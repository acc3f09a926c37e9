------------------------------- MODULE Commands -------------------------------
(***************************************************************************)
(* The files of the commands that write: "diff" with its trace, snapshots  *)
(* and checkpoints, "diff --replay" (RunDiff, Pipeline.cpp), "port"        *)
(* (RunPortFromResults, PortResults.cpp; PortLabels, Provenance.cpp) and   *)
(* "update" (RunUpdate, Update.cpp), which is an ingest, a diff and a      *)
(* port.                                                                   *)
(*                                                                         *)
(* Every command first compares the paths it will write with its inputs,   *)
(* and refuses when one is the other.  "touched" is what it then really    *)
(* creates, replaces or removes.  Of the output of a port the contents are *)
(* modelled too: PublishOutput moves the sidecars of the previous output   *)
(* aside, renames the new database over it and moves the new -wal.  A step *)
(* may fail, and the process may be killed.                                *)
(*                                                                         *)
(* A path is a sequence of pieces, <<"x", ".sqlite", "-wal">>: the         *)
(* canonical name that SameFilePath compares.                              *)
(***************************************************************************)
EXTENDS Naturals, Sequences, SequencesExt

CONSTANTS CommandLines,  \* the commands that may be given
          Pieces,        \* what a path is put together from
          Dotted,        \* the pieces that begin with a dot
          MaxFaults,     \* bound on the steps that fail in one command
          None           \* an option that is not given, a file that is not there

Paths == Seq(Pieces)

\* The pieces that the program itself puts into a path.
OwnPieces == {"-wal", "-shm", "-journal", ".dsig-tmp", ".dsig-old", ".dsig-results-tmp", ".tmp", ".tmp-pid",
              ".diaphora", ".ingest", ".sqlite", ".export", ".json", "/", "snapshots", "index.json",
              "00001_point.json", "manifest.json", "state-000001.json", ".dsig-checkpoint-probe"}

\* The options hold paths.  "third" is the snapshot of a replay, the results of a port or the PDB of an
\* update; a diff has none.  Only a diff or a replay has a trace, snapshots and checkpoints.
ASSUME CommandsAssumption ==
    /\ None \notin Paths /\ None \notin {"old", "new"}
    /\ \A c \in CommandLines :
         /\ c.kind \in {"diff", "replay", "port", "update"}
         /\ {c.first, c.second, c.out} \subseteq Paths
         /\ {c.third, c.trace, c.snap, c.ckpt} \subseteq Paths \cup {None}
         /\ c.kind = "diff" => c.third = None
         /\ c.kind \in {"port", "update"} => {c.trace, c.snap, c.ckpt} = {None}
    /\ OwnPieces \subseteq Pieces /\ ".tmp-pid" \in Dotted

VARIABLES cmd,      \* the command
          pc,       \* the step that comes next; "end"
          outcome,  \* "", "ok", "usage" (refused), "failed" or "killed"
          touched,  \* what was written or removed: pairs of an owner and a path
          faults,   \* how many steps failed
          out,      \* the output of a port: None, "old" or "new"
          wal,      \* the database that <output>-wal belongs to
          aside,    \* the database that <output>-wal.dsig-old belongs to
          tmp,      \* <output>.dsig-tmp: None, "partial" or "new"
          tmpWal,   \* <output>.dsig-tmp-wal holds committed frames of the new database
          res,      \* the results file of an in-process diff lies at its path
          before    \* the output and its -wal when the command began

output == <<out, wal, aside, tmp, tmpWal, res>>
vars == <<cmd, pc, outcome, touched, faults, output, before>>

-----------------------------------------------------------------------------
(* Paths *)

Given(p) == IF p = None THEN {} ELSE {p}

Under(dir, name) == dir \o <<"/", name>>

\* DatabaseFileSet, AddDatabaseFiles: a database and the sidecars SQLite may create beside it.
DatabaseFileSet(p) == IF p = None THEN {}
                      ELSE {p} \cup {Append(p, s) : s \in {"-wal", "-shm", "-journal"}}

\* FindPathAlias: a path that is in both sets.
FindPathAlias(written, inputs) == written \cap inputs # {}

\* PathStem of the file name, with its directory: the last dotted piece and what follows is cut off,
\* unless nothing would be left.
PathStem(p) == LET slash == SelectLastInSeq(p, LAMBDA piece : piece = "/")
                   dot == SelectLastInSeq(p, LAMBDA piece : piece \in Dotted)
               IN  IF dot > slash + 1 THEN SubSeq(p, 1, dot - 1) ELSE p

DefaultResultsPath(p) == Append(PathStem(p), ".diaphora")
UpdateExportPath(p) == PathStem(p) \o <<".ingest", ".sqlite">>
UpdateSidecarPath(p) == PathStem(p) \o <<".ingest", ".export", ".json">>

TemporaryOutputPath(p) == Append(p, ".dsig-tmp")
AsidePaths(p) == {p \o <<s, ".dsig-old">> : s \in {"-wal", "-shm", "-journal"}}

\* The writer's <out>.tmp-<pid> and its sidecars.
ResultsWriterScratchPaths(p) == DatabaseFileSet(Append(p, ".tmp-pid"))

ResultsFiles(p) == DatabaseFileSet(p) \cup ResultsWriterScratchPaths(p)

SnapshotFilesDir(dir) == Under(dir, "snapshots")
SnapshotIndexPath(dir) == Under(dir, "index.json")
SnapshotIndex(dir) == {SnapshotIndexPath(dir), Append(SnapshotIndexPath(dir), ".tmp")}
SnapshotFile(dir) == Under(SnapshotFilesDir(dir), "00001_point.json")

PathIsInside(p, dir) == \E n \in 1..(Len(p) - 1) : SubSeq(p, 1, n) = dir /\ p[n + 1] = "/"

\* IsStoreFileName in the checkpoint directory.
StoreFiles(dir) == {Under(dir, n) : n \in {"manifest.json", "state-000001.json", ".dsig-checkpoint-probe"}}
                   \cup {Append(Under(dir, n), ".tmp") : n \in {"manifest.json", "state-000001.json"}}

-----------------------------------------------------------------------------
(* The refusals *)

\* A replay writes one snapshot, a diff a results database.
OutFiles(c) == IF c.kind = "replay" THEN {c.out, Append(c.out, ".tmp")} ELSE ResultsFiles(c.out)

DiffInputs(c) == DatabaseFileSet(c.first) \cup DatabaseFileSet(c.second) \cup Given(c.third)

HarnessFiles(c) == Given(c.trace) \cup (IF c.snap = None THEN {} ELSE SnapshotIndex(c.snap))

\* Mutant: the sidecars of the inputs are not compared.
BareAliases(c) == FindPathAlias(OutFiles(c) \cup HarnessFiles(c), {c.first, c.second} \cup Given(c.third))

RefusePathAliases(c) ==
    \/ FindPathAlias(OutFiles(c) \cup HarnessFiles(c), DiffInputs(c))
    \/ FindPathAlias(HarnessFiles(c), OutFiles(c))
    \/ c.snap # None /\ FindPathAlias(Given(c.trace), SnapshotIndex(c.snap))
    \/ c.snap # None /\ \E p \in DiffInputs(c) \cup OutFiles(c) \cup Given(c.trace) :
                           PathIsInside(p, SnapshotFilesDir(c.snap)) \/ p = SnapshotFilesDir(c.snap)

RefuseCheckpointAliases(c) ==
    c.ckpt # None /\ FindPathAlias(DatabaseFileSet(c.first) \cup DatabaseFileSet(c.second) \cup ResultsFiles(c.out)
                                   \cup Given(c.trace) \cup {SnapshotIndexPath(d) : d \in Given(c.snap)},
                                   StoreFiles(c.ckpt))

\* The snapshot directory holds an index.json that is not one of a capture.
RefuseForeignSnapshotDir(c) == c.snap # None /\ c.foreign

DiffRefused(c) == \/ c.kind = "replay" /\ c.ckpt # None
                  \/ RefusePathAliases(c)
                  \/ RefuseCheckpointAliases(c)
                  \/ RefuseForeignSnapshotDir(c)

\* Where the results come from, and where an in-process diff puts them.
InProcess(c) == c.kind = "update" \/ c.third = None
ResultsPath(c) == IF c.kind = "port" /\ ~InProcess(c) THEN c.third
                  ELSE IF c.keep THEN DefaultResultsPath(c.out) ELSE Append(c.out, ".dsig-results-tmp")

PortTarget(c) == IF c.kind = "update" THEN UpdateExportPath(c.out) ELSE c.second
PortWrites(c) == DatabaseFileSet(c.out) \cup DatabaseFileSet(TemporaryOutputPath(c.out))

\* RunPortFromResults, before the diff runs; PortLabels repeats the last of these.
PortRefused(c) == LET inputs == DatabaseFileSet(c.first) \cup DatabaseFileSet(PortTarget(c))
                      results == DatabaseFileSet(ResultsPath(c))
                  IN  \/ ~InProcess(c) /\ ~c.keep
                      \/ InProcess(c) /\ FindPathAlias(results, inputs)
                      \/ FindPathAlias(PortWrites(c), results)
                      \/ FindPathAlias(PortWrites(c), inputs)

UpdateRefused(c) == LET inputs == DatabaseFileSet(c.first) \cup {c.second} \cup Given(c.third)
                        between == DatabaseFileSet(UpdateExportPath(c.out)) \cup {UpdateSidecarPath(c.out)}
                                   \cup DatabaseFileSet(ResultsPath(c))
                    IN  \/ ~c.keep
                        \/ FindPathAlias(between \cup PortWrites(c), inputs)
                        \/ FindPathAlias(PortWrites(c), between)

Refused(c) == CASE c.kind \in {"diff", "replay"} -> DiffRefused(c)
                [] c.kind = "port" -> PortRefused(c)
                [] c.kind = "update" -> UpdateRefused(c)

\* The diff that a port or an update runs in its own process.
InnerDiffCommand(c) == [kind |-> "diff", first |-> c.first, second |-> PortTarget(c), third |-> None,
                        out |-> ResultsPath(c), trace |-> c.trace, snap |-> c.snap, ckpt |-> c.ckpt,
                        keep |-> c.keep, foreign |-> c.foreign]

\* The inputs whose contents a command must not change, with the sidecars of the databases.
Inputs(c) == CASE c.kind \in {"diff", "replay"} -> DiffInputs(c)
               [] c.kind = "port" -> UNION {DatabaseFileSet(p) : p \in {c.first, c.second} \cup Given(c.third)}
               [] c.kind = "update" -> DatabaseFileSet(c.first) \cup {c.second} \cup Given(c.third)

\* The names a command writes that no refusal compares with its inputs: where PublishOutput moves the old
\* sidecars and, with the number of the process, the scratch files of the results of an update.
Uncompared(c) == CASE c.kind \in {"diff", "replay"} -> {}
                   [] c.kind = "port" -> AsidePaths(c.out)
                   [] c.kind = "update" -> AsidePaths(c.out) \cup ResultsWriterScratchPaths(ResultsPath(c))

\* A file of somebody else in the snapshot directory.
Foreign(c) == IF c.foreign /\ c.snap # None THEN {Under(c.snap, "index.json")} ELSE {}

-----------------------------------------------------------------------------

Init == /\ cmd \in CommandLines
        /\ pc = "check"
        /\ outcome = ""
        /\ touched = {}
        /\ faults = 0
        /\ out \in {None, "old"}
        /\ wal \in {None} \cup Given(out)
        /\ aside \in {None, "older"}          \* a port that was killed may have left one,
        /\ tmp \in {None, "partial"}          \* and this as well
        /\ cmd.kind \in {"diff", "replay"} => out = None /\ aside = None /\ tmp = None
        /\ tmpWal = FALSE
        /\ res = FALSE
        /\ before = <<out, wal>>

Touch(owner, paths) == touched' = touched \cup ({owner} \X paths)

At(here, next) == pc = here /\ pc' = next
Stay == UNCHANGED <<cmd, before>>

Ends(how) == pc' = "end" /\ outcome' = how

Refuse == /\ pc = "check" /\ Refused(cmd)
          /\ Ends("usage")
          /\ UNCHANGED <<touched, faults, output>> /\ Stay

Accept == /\ pc = "check" /\ ~Refused(cmd)
          /\ pc' = CASE cmd.kind \in {"diff", "replay"} -> "prepare"
                     [] cmd.kind = "update" -> "ingest"
                     [] cmd.kind = "port" -> IF InProcess(cmd) THEN "innerDiff" ELSE "readResults"
          /\ UNCHANGED <<outcome, touched, faults, output>> /\ Stay

-----------------------------------------------------------------------------
(* diff and diff --replay *)

\* CheckpointStore::Prepare writes and removes its probe file.
PrepareCheckpoint == /\ At("prepare", "snapshots")
                     /\ Touch("checkpoint", IF cmd.ckpt = None THEN {}
                                            ELSE {Under(cmd.ckpt, ".dsig-checkpoint-probe")})
                     /\ UNCHANGED <<outcome, faults, output>> /\ Stay

\* The snapshots and the index of an earlier capture are removed.
EnableSnapshots == /\ At("snapshots", "trace")
                   /\ Touch("snapshots", IF cmd.snap = None THEN {}
                                         ELSE {SnapshotFile(cmd.snap), Under(cmd.snap, "index.json")})
                   /\ UNCHANGED <<outcome, faults, output>> /\ Stay

\* The trace is opened, and truncated.
EnableTrace == /\ At("trace", "points")
               /\ Touch("trace", Given(cmd.trace))
               /\ UNCHANGED <<outcome, faults, output>> /\ Stay

\* The stages run: a point writes its snapshot and the index, a finished stage a checkpoint.
RunStages == /\ At("points", "write")
             /\ touched' = touched
                  \cup ({"snapshots"} \X (IF cmd.snap = None THEN {}
                                          ELSE SnapshotIndex(cmd.snap)
                                               \cup {SnapshotFile(cmd.snap), Append(SnapshotFile(cmd.snap), ".tmp")}))
                  \cup ({"checkpoint"} \X (IF cmd.ckpt = None THEN {} ELSE StoreFiles(cmd.ckpt)))
             /\ UNCHANGED <<outcome, faults, output>> /\ Stay

WriteOut == /\ pc = "write"
            /\ Touch("results", OutFiles(cmd))
            /\ Ends("ok")
            /\ UNCHANGED <<faults, output>> /\ Stay

-----------------------------------------------------------------------------
(* port and update *)

\* The ingest of an update writes its export and the sidecar of the export.
Ingest == /\ At("ingest", "innerDiff")
          /\ Touch("export", DatabaseFileSet(UpdateExportPath(cmd.out)) \cup {UpdateSidecarPath(cmd.out)})
          /\ UNCHANGED <<outcome, faults, output>> /\ Stay

\* The diff in the same process: RunDiff writes the results file.
InnerDiff == /\ At("innerDiff", "readResults")
             /\ ~DiffRefused(InnerDiffCommand(cmd))
             /\ Touch("results", ResultsFiles(ResultsPath(cmd)))
             /\ res' = TRUE
             /\ UNCHANGED <<outcome, faults, out, wal, aside, tmp, tmpWal>> /\ Stay

ReadResults == /\ At("readResults", "copy")
               /\ UNCHANGED <<outcome, touched, faults, output>> /\ Stay

\* CopyDatabase: what an earlier port left under the temporary name is removed; the target is copied.
CopyDatabase == /\ At("copy", "label")
                /\ Touch("output", DatabaseFileSet(TemporaryOutputPath(cmd.out)))
                /\ tmp' = "partial" /\ tmpWal' = FALSE
                /\ UNCHANGED <<outcome, faults, out, wal, aside, res>> /\ Stay

\* The transaction is committed and the database closed, which usually folds its -wal into it.
WriteLabels == /\ At("label", "aside")
               /\ tmp' = "new"
               /\ tmpWal' \in BOOLEAN
               /\ UNCHANGED <<outcome, touched, faults, out, wal, aside, res>> /\ Stay

\* Mutant: the sidecars of the previous output stay where they are.
KeepSidecars == /\ At("aside", "rename")
                /\ UNCHANGED <<outcome, touched, faults, output>> /\ Stay

MoveAside == /\ At("aside", "rename")
             /\ IF wal = None THEN UNCHANGED <<wal, aside, touched>>
                ELSE /\ aside' = wal /\ wal' = None
                     /\ Touch("output", AsidePaths(cmd.out) \cup (DatabaseFileSet(cmd.out) \ {cmd.out}))
             /\ UNCHANGED <<outcome, faults, out, tmp, tmpWal, res>> /\ Stay

RenameOver == /\ At("rename", "moveWal")
              /\ Touch("output", {cmd.out})
              /\ out' = tmp /\ tmp' = None
              /\ UNCHANGED <<outcome, faults, wal, aside, tmpWal, res>> /\ Stay

MoveWal == /\ At("moveWal", "dropAside")
           /\ wal' = IF tmpWal THEN "new" ELSE wal
           /\ tmpWal' = FALSE
           /\ Touch("output", IF tmpWal THEN {Append(cmd.out, "-wal")} ELSE {})
           /\ UNCHANGED <<outcome, faults, out, aside, tmp, res>> /\ Stay

\* Mutant: the temporary results file stays.
KeepResultsFile == UNCHANGED res

\* RemoveResultsFile, on success and on failure: only the one that the command itself made.
DropResultsFile == res' = IF InProcess(cmd) /\ ~cmd.keep THEN FALSE ELSE res

\* What was moved aside is deleted, and so is everything under the temporary name.
DropAside == /\ pc = "dropAside"
             /\ aside' = IF before[2] # None THEN None ELSE aside
             /\ tmp' = None /\ tmpWal' = FALSE
             /\ DropResultsFile
             /\ Ends("ok")
             /\ UNCHANGED <<touched, faults, out, wal>> /\ Stay

-----------------------------------------------------------------------------
(* Failures *)

FailsAt(step) == pc = step /\ faults < MaxFaults /\ faults' = faults + 1

\* A step before the port: nothing of the output was touched.
EarlyFailure == /\ \E s \in {"prepare", "snapshots", "trace", "points", "write", "ingest"} : FailsAt(s)
                /\ Ends("failed")
                /\ UNCHANGED <<touched, output>> /\ Stay

\* RemoveResultsFile also runs when the diff itself did not come to write that file.
RemovesResults == Touch("results", IF InProcess(cmd) /\ ~cmd.keep THEN DatabaseFileSet(ResultsPath(cmd)) ELSE {})

\* RunDiff compares the paths once more, its temporary files included.
InnerRefuse == /\ pc = "innerDiff" /\ DiffRefused(InnerDiffCommand(cmd))
               /\ DropResultsFile
               /\ Ends("usage")
               /\ RemovesResults
               /\ UNCHANGED <<faults, out, wal, aside, tmp, tmpWal>> /\ Stay

\* The diff of a port, or the reading of its results.
ResultsFailure == /\ FailsAt("innerDiff") \/ FailsAt("readResults")
                  /\ DropResultsFile
                  /\ Ends("failed")
                  /\ RemovesResults
                  /\ UNCHANGED <<out, wal, aside, tmp, tmpWal>> /\ Stay

\* The copy or the transaction: the temporary files are removed.
WriteFailure == /\ FailsAt("copy") \/ FailsAt("label")
                /\ tmp' = None /\ tmpWal' = FALSE
                /\ DropResultsFile
                /\ Ends("failed")
                /\ UNCHANGED <<touched, out, wal, aside>> /\ Stay

\* Mutant: the sidecars that were moved aside stay there.
NoRestore == UNCHANGED <<wal, aside>>

\* PublishOutput's Restore: what was moved aside is moved back.
Restore == IF pc = "rename" /\ before[2] # None THEN wal' = aside /\ aside' = None
           ELSE UNCHANGED <<wal, aside>>

\* A sidecar cannot be moved, or the rename fails.
PublishFailure == /\ FailsAt("aside") \/ FailsAt("rename")
                  /\ Restore
                  /\ tmp' = None /\ tmpWal' = FALSE
                  /\ DropResultsFile
                  /\ Ends("failed")
                  /\ UNCHANGED <<touched, out>> /\ Stay

\* The new -wal cannot be moved: the port fails although the output was replaced, what was moved aside
\* stays, and the -wal goes with the temporary files.
WalFailure == /\ FailsAt("moveWal") /\ tmpWal
              /\ tmp' = None /\ tmpWal' = FALSE
              /\ DropResultsFile
              /\ Ends("failed")
              /\ UNCHANGED <<touched, out, wal, aside>> /\ Stay

Kill == /\ pc \notin {"check", "end"}
        /\ Ends("killed")
        /\ UNCHANGED <<touched, faults, output>> /\ Stay

Next == \/ Refuse \/ Accept
        \/ PrepareCheckpoint \/ EnableSnapshots \/ EnableTrace \/ RunStages \/ WriteOut
        \/ Ingest \/ InnerDiff \/ ReadResults \/ CopyDatabase \/ WriteLabels
        \/ MoveAside \/ RenameOver \/ MoveWal \/ DropAside
        \/ EarlyFailure \/ InnerRefuse \/ ResultsFailure \/ WriteFailure \/ PublishFailure \/ WalFailure
        \/ Kill

Spec == Init /\ [][Next]_vars

-----------------------------------------------------------------------------
(* Properties *)

\* A command writes, replaces or removes no input of its own, no sidecar of one and no foreign
\* index.json, unless it has one of the few names that are Uncompared: the refusals cover every other file
\* that the later steps touch.
InputsUntouched == \A t \in touched : t[2] \in Inputs(cmd) \cup Foreign(cmd) => t[2] \in Uncompared(cmd)

\* No two parts of a command (results, trace, snapshots, checkpoint, export, output) write one file.
PartsApart == \A s, t \in touched : s[2] = t[2] => s[1] = t[1]

\* What a command writes keeps clear of what it reads, but for the Uncompared names, and of its other
\* parts, whatever paths it is given (RefusePathAliases, RefuseCheckpointAliases, PortLabels, RunUpdate).
FilesApart == InputsUntouched /\ PartsApart

\* README.md:296 of "port": "The inputs are never modified."  Not so for an input that has an Uncompared
\* name: PublishOutput deletes <output>-wal.dsig-old before it moves the old -wal there.
InputsNeverModified == cmd.kind = "port" => \A t \in touched : t[2] \notin Inputs(cmd)

\* SQLite never finds the -wal of another database beside the output, at whatever step the port fails
\* or is killed.
NoForeignWal == wal # None => wal = out

\* A port that fails before the new database is in place leaves the previous output exactly as it was,
\* its -wal included ("the previous output was left as it was").
FailureKeepsOutput == outcome = "failed" /\ out # "new" => <<out, wal>> = before

\* A port that ends by itself leaves nothing under its temporary names, frames that were committed
\* included, and a results file only if it is to be kept; one that succeeds has put the new database
\* into place.
NothingLeftBehind == /\ outcome = "ok" /\ cmd.kind \in {"port", "update"} => out = "new"
                     /\ outcome \in {"ok", "failed"} /\ cmd.kind = "port" /\ touched # {} =>
                          /\ tmpWal = FALSE
                          /\ ("output" \in {t[1] : t \in touched} => tmp = None)
                          /\ (InProcess(cmd) /\ ~cmd.keep /\ "results" \in {t[1] : t \in touched} => ~res)
=============================================================================
