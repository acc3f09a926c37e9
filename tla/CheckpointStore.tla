--------------------------- MODULE CheckpointStore ---------------------------
(***************************************************************************)
(* The checkpoint directory of "dsigmatcher diff --checkpoint-dir" and     *)
(* "--resume": class CheckpointStore (Snapshot.cpp) over                   *)
(* ReplaceFileBytesDurable (FileIo.cpp).                                   *)
(*                                                                         *)
(* The directory holds manifest.json and state-<generation>.json.  A write *)
(* puts the next generation's state file in place, then the manifest that  *)
(* names it, then deletes what the manifest no longer names.  Every file   *)
(* goes through <name>.tmp, a flush, a rename and a sync of the directory. *)
(* The process may be killed between any two of these steps, any of them   *)
(* may fail, and the power may fail: then every name falls back, on its    *)
(* own, to what the last sync of the directory had or stays as it is.      *)
(*                                                                         *)
(* One process works on the directory at a time.                           *)
(***************************************************************************)
EXTENDS Naturals

CONSTANTS Checkpoints,     \* the engine checkpoints that may be written
          MaxGeneration,   \* bound on Generation_
          DirectorySyncs,  \* TRUE: fsync of a directory works.  FALSE: the file system refuses it
                           \* (SyncDirectoryOf ignores that); then power losses are left out
          Absent,          \* no such file
          Torn             \* a file whose bytes are not all written

ASSUME StoreConstants == /\ MaxGeneration \in Nat
                         /\ DirectorySyncs \in BOOLEAN
                         /\ Absent \notin Checkpoints
                         /\ Torn \notin Checkpoints
                         /\ Absent # Torn

Generations == 1..MaxGeneration

\* manifest.json.  "payload" stands for what Load compares with the state file: its size, its sha256,
\* the binding and the cursor.
Manifests == [gen : Generations, payload : Checkpoints, created : BOOLEAN]

\* The contents of an optional file are distinct from every manifest.
ASSUME NotAManifest == Absent \notin Manifests /\ Torn \notin Manifests

VARIABLES dir,          \* "none", "user" (it was there before the first run) or "run" (Prepare created it)
          foreign,      \* a file that is not the store's lies in the directory
          probe,        \* the file by which Prepare tests that the directory is writable
          manifest,     \* manifest.json
          manifestTmp,  \* manifest.json.tmp
          state,        \* state-<g>.json, per generation g
          stateTmp,     \* state-<g>.json.tmp
          sDir,         \* the directory, its manifest and its state files as of the last sync
          sManifest,
          sState,
          pc,           \* where the process is; "down": no process works on the directory
          gen,          \* Generation_
          created,      \* CreatedDir_
          pending       \* the checkpoint that Write was called with

disk == <<dir, foreign, probe, manifest, manifestTmp, state, stateTmp>>
synced == <<sDir, sManifest, sState>>
process == <<pc, gen, created, pending>>
vars == <<disk, synced, process>>

NoFiles == [g \in Generations |-> Absent]

Init == /\ dir \in {"none", "user"}
        /\ foreign = FALSE
        /\ probe = FALSE
        /\ manifest = Absent /\ manifestTmp = Absent
        /\ state = NoFiles /\ stateTmp = NoFiles
        /\ sDir = dir /\ sManifest = Absent /\ sState = NoFiles
        /\ pc = "down"
        /\ gen = 0 /\ created = FALSE
        /\ pending = Absent

Existing(files) == {g \in Generations : files[g] # Absent}

Without(files, gone) == [g \in Generations |-> IF g \in gone THEN Absent ELSE files[g]]

\* The process is gone, and its memory with it.
Exit == pc' = "down" /\ gen' = 0 /\ created' = FALSE /\ pending' = Absent

-----------------------------------------------------------------------------
(* Opening the store *)

\* Load accepts: the manifest parses and the state file it names matches it.
Loads(m, s) == m \in Manifests /\ s[m.gen] = m.payload

\* Prepare up to the probe file.
Prepare == /\ dir' = IF dir = "none" THEN "run" ELSE dir
           /\ probe' = TRUE
           /\ pc' = "probing"
           /\ UNCHANGED <<foreign, manifest, manifestTmp, state, stateTmp, synced, pending>>

\* Mutant: a fresh run does not look for a manifest.
StartFreshAnyway == /\ pc = "down"
                    /\ Prepare
                    /\ gen' = 0
                    /\ created' = (dir = "none")

\* --checkpoint-dir: refused when there is a manifest.
StartFresh == /\ pc = "down"
              /\ manifest = Absent
              /\ Prepare
              /\ gen' = 0
              /\ created' = (dir = "none")

\* Mutant: the resumed run takes the directory for its own.
StartResumeOwning == /\ pc = "down"
                     /\ dir # "none"
                     /\ Loads(manifest, state)
                     /\ Prepare
                     /\ gen' = manifest.gen
                     /\ created' = TRUE

\* --resume: refused unless Load accepts the checkpoint.
StartResume == /\ pc = "down"
               /\ dir # "none"
               /\ Loads(manifest, state)
               /\ Prepare
               /\ gen' = manifest.gen
               /\ created' = manifest.created

\* The end of Prepare.
RemoveProbe == /\ pc = "probing"
               /\ probe' = FALSE
               /\ pc' = "idle"
               /\ UNCHANGED <<dir, foreign, manifest, manifestTmp, state, stateTmp, synced,
                              gen, created, pending>>

-----------------------------------------------------------------------------
(* CheckpointStore::Write *)

\* Mutant: the generation is used again.
SameGen == IF gen = 0 THEN 1 ELSE gen

NextGen == gen + 1

NewManifest == [gen |-> NextGen, payload |-> pending, created |-> created]

\* SyncDirectoryOf: renames and deletions done so far survive a power loss from here on.
SyncDirectoryOf == IF DirectorySyncs
                     THEN sDir' = dir /\ sManifest' = manifest /\ sState' = state
                     ELSE UNCHANGED synced

\* WriteFileBytesSynced truncates the temporary file, writes it ...
OpenStateTmp(c) == /\ pc = "idle"
                   /\ NextGen \in Generations
                   /\ pending' = c
                   /\ stateTmp' = [stateTmp EXCEPT ![NextGen] = Torn]
                   /\ pc' = "stateTmp"
                   /\ UNCHANGED <<dir, foreign, probe, manifest, manifestTmp, state, synced, gen, created>>

\* ... and flushes it.
FlushStateTmp == /\ pc = "stateTmp"
                 /\ stateTmp' = [stateTmp EXCEPT ![NextGen] = pending]
                 /\ pc' = "stateReady"
                 /\ UNCHANGED <<dir, foreign, probe, manifest, manifestTmp, state, synced, gen, created, pending>>

RenameState == /\ pc = "stateReady"
               /\ state' = [state EXCEPT ![NextGen] = stateTmp[NextGen]]
               /\ stateTmp' = [stateTmp EXCEPT ![NextGen] = Absent]
               /\ pc' = "stateRenamed"
               /\ UNCHANGED <<dir, foreign, probe, manifest, manifestTmp, synced, gen, created, pending>>

SyncState == /\ pc = "stateRenamed"
             /\ SyncDirectoryOf
             /\ pc' = "stateSynced"
             /\ UNCHANGED <<disk, gen, created, pending>>

\* ReplaceFileBytesDurable of the state throws; the temporary file is removed if that succeeds.  Save
\* turns the IoFailure into a warning and the run goes on.
StateWriteFails == /\ pc \in {"stateTmp", "stateReady"}
                   /\ \E left \in {stateTmp[NextGen], Absent} : stateTmp' = [stateTmp EXCEPT ![NextGen] = left]
                   /\ pc' = "idle" /\ pending' = Absent
                   /\ UNCHANGED <<dir, foreign, probe, manifest, manifestTmp, state, synced, gen, created>>

OpenManifestTmp == /\ pc = "stateSynced"
                   /\ manifestTmp' = Torn
                   /\ pc' = "manifestTmp"
                   /\ UNCHANGED <<dir, foreign, probe, manifest, state, stateTmp, synced, gen, created, pending>>

FlushManifestTmp == /\ pc = "manifestTmp"
                    /\ manifestTmp' = NewManifest
                    /\ pc' = "manifestReady"
                    /\ UNCHANGED <<dir, foreign, probe, manifest, state, stateTmp, synced, gen, created, pending>>

RenameManifest == /\ pc = "manifestReady"
                  /\ manifest' = manifestTmp
                  /\ manifestTmp' = Absent
                  /\ pc' = "manifestRenamed"
                  /\ UNCHANGED <<dir, foreign, probe, state, stateTmp, synced, gen, created, pending>>

\* Mutant: the sweep follows the rename with no sync between them.
CommitUnsynced == /\ pc = "manifestRenamed"
                  /\ gen' = NextGen
                  /\ pc' = "committed"
                  /\ UNCHANGED <<disk, synced, created, pending>>

SyncManifest == /\ pc = "manifestRenamed"
                /\ SyncDirectoryOf
                /\ gen' = NextGen
                /\ pc' = "committed"
                /\ UNCHANGED <<disk, created, pending>>

\* ReplaceFileBytesDurable of the manifest throws; Write then deletes the new state file, because the
\* manifest still names the previous one.  Both deletions are best effort.
ManifestWriteFails == /\ pc \in {"manifestTmp", "manifestReady"}
                      /\ manifestTmp' \in {manifestTmp, Absent}
                      /\ \E left \in {state[NextGen], Absent} : state' = [state EXCEPT ![NextGen] = left]
                      /\ pc' = "idle" /\ pending' = Absent
                      /\ UNCHANGED <<dir, foreign, probe, manifest, stateTmp, synced, gen, created>>

\* Mutant: the sweep does not spare the state file of the new manifest.
RemoveAllStates == /\ pc = "committed"
                   /\ \E gone \in SUBSET Existing(state) : state' = Without(state, gone)
                   /\ pc' = "idle" /\ pending' = Absent
                   /\ UNCHANGED <<dir, foreign, probe, manifest, manifestTmp, stateTmp, synced, gen, created>>

\* The sweep at the end of Write: every store file but the manifest and its state file, best effort,
\* so any of them may stay.
RemoveStale == /\ pc = "committed"
               /\ \E gone \in SUBSET (Existing(state) \ {gen}) : state' = Without(state, gone)
               /\ \E gone \in SUBSET Existing(stateTmp) : stateTmp' = Without(stateTmp, gone)
               /\ manifestTmp' \in {manifestTmp, Absent}
               /\ probe' \in {probe, FALSE}
               /\ pc' = "idle" /\ pending' = Absent
               /\ UNCHANGED <<dir, foreign, manifest, synced, gen, created>>

-----------------------------------------------------------------------------
(* CheckpointStore::Remove, after the results file is written.  It syncs nothing. *)

RemoveManifest == /\ pc = "idle"
                  /\ manifest' = Absent
                  /\ pc' = "removing"
                  /\ UNCHANGED <<dir, foreign, probe, manifestTmp, state, stateTmp, synced, gen, created, pending>>

\* All store files go, and then the directory, if a run created it and it is empty.
RemoveFiles == /\ pc = "removing"
               /\ probe' = FALSE
               /\ manifestTmp' = Absent
               /\ state' = NoFiles /\ stateTmp' = NoFiles
               /\ dir' = IF created /\ ~foreign THEN "none" ELSE dir
               /\ Exit
               /\ UNCHANGED <<foreign, manifest, synced>>

\* A file cannot be removed (RunDiff only warns), or the process is killed on the way.
RemoveFilesStops == /\ pc = "removing"
                    /\ probe' \in {probe, FALSE}
                    /\ manifestTmp' \in {manifestTmp, Absent}
                    /\ \E gone \in SUBSET Existing(state) : state' = Without(state, gone)
                    /\ \E gone \in SUBSET Existing(stateTmp) : stateTmp' = Without(stateTmp, gone)
                    /\ Exit
                    /\ UNCHANGED <<dir, foreign, manifest, synced>>

-----------------------------------------------------------------------------
(* What else happens to the process and the directory *)

\* The process is killed, or the run ends with an error and leaves the directory as it is.
Stop == /\ pc # "down"
        /\ Exit
        /\ UNCHANGED <<disk, synced>>

\* Every name keeps what it has or falls back to the last sync, independently of the others.
PowerLoss == /\ DirectorySyncs
             /\ dir' \in {dir, sDir}
             /\ IF dir' = "none"
                  THEN /\ manifest' = Absent /\ manifestTmp' = Absent
                       /\ state' = NoFiles /\ stateTmp' = NoFiles
                       /\ probe' = FALSE
                  ELSE /\ manifest' \in {manifest, sManifest}
                       /\ \E back \in SUBSET {g \in Generations : state[g] # sState[g]} :
                            state' = [g \in Generations |-> IF g \in back THEN sState[g] ELSE state[g]]
                       /\ manifestTmp' \in {manifestTmp, Absent}
                       /\ \E lost \in SUBSET Existing(stateTmp) : stateTmp' = Without(stateTmp, lost)
                       /\ probe' \in {probe, FALSE}
             /\ sDir' = dir' /\ sManifest' = manifest' /\ sState' = state'
             /\ Exit
             /\ UNCHANGED foreign

\* The user deletes the checkpoint's files, as the refusal of a fresh run suggests.  Nobody starts a run
\* before that reached the disk.
UserDiscards == /\ pc = "down"
                /\ manifest # Absent
                /\ manifest' = Absent /\ sManifest' = Absent
                /\ state' = NoFiles /\ sState' = NoFiles
                /\ UNCHANGED <<dir, sDir, foreign, probe, manifestTmp, stateTmp, process>>

\* The user puts a file of their own into the directory.
UserAddsFile == /\ dir # "none"
                /\ foreign' = TRUE
                /\ sDir' = dir
                /\ UNCHANGED <<dir, probe, manifest, manifestTmp, state, stateTmp, sManifest, sState, process>>

Next == \/ StartFresh \/ StartResume \/ RemoveProbe
        \/ \E c \in Checkpoints : OpenStateTmp(c)
        \/ FlushStateTmp \/ RenameState \/ SyncState \/ StateWriteFails
        \/ OpenManifestTmp \/ FlushManifestTmp \/ RenameManifest \/ SyncManifest \/ ManifestWriteFails
        \/ RemoveStale
        \/ RemoveManifest \/ RemoveFiles \/ RemoveFilesStops
        \/ Stop \/ PowerLoss \/ UserDiscards \/ UserAddsFile

Spec == Init /\ [][Next]_vars

-----------------------------------------------------------------------------
(* Properties *)

Contents == Checkpoints \cup {Absent, Torn}

Steps == {"down", "probing", "idle", "stateTmp", "stateReady", "stateRenamed", "stateSynced",
          "manifestTmp", "manifestReady", "manifestRenamed", "committed", "removing"}

\* The type invariant.
TypeOK == /\ dir \in {"none", "user", "run"} /\ sDir \in {"none", "user", "run"}
          /\ foreign \in BOOLEAN /\ probe \in BOOLEAN /\ created \in BOOLEAN
          /\ manifest \in Manifests \cup {Absent, Torn} /\ manifestTmp \in Manifests \cup {Absent, Torn}
          /\ sManifest \in Manifests \cup {Absent, Torn}
          /\ state \in [Generations -> Contents] /\ stateTmp \in [Generations -> Contents]
          /\ sState \in [Generations -> Contents]
          /\ pc \in Steps
          /\ gen \in 0..MaxGeneration
          /\ pending \in Checkpoints \cup {Absent}

\* While a run works on the directory, a manifest that is there names a complete state file that
\* matches it: whatever step the run is killed at, --resume finds a checkpoint (Snapshot.cpp, Write).
ManifestVouches == pc # "down" /\ manifest # Absent => Loads(manifest, state)

\* Without power losses --resume never reports a damaged checkpoint, whatever was killed or failed.
KillsNeverDamage == ~DirectorySyncs /\ manifest # Absent => Loads(manifest, state)

\* When Write begins to delete older files, a power loss can no longer bring back a manifest that
\* names one of them (the order of SyncDirectoryOf and the sweep).
SweepIsSafe == pc = "committed" /\ DirectorySyncs =>
                 sManifest = manifest /\ Loads(sManifest, sState)

\* No step of a run, no failed write and no kill takes away a checkpoint that could be resumed; only
\* Remove's first step does, and the user.
ProgressKept == [][Loads(manifest, state) /\ ~RemoveManifest /\ ~UserDiscards /\ ~PowerLoss
                     => Loads(manifest', state')]_vars

\* Remove deletes a directory only if a run created it, through any number of resumed runs
\* (CreatedDirectory in the manifest), and never one that holds somebody else's file.
OnlyOwnDirectoryRemoved == [][dir' = "none" /\ dir # "none" => dir = "run" /\ ~foreign]_vars

NoCheckpoint == Absent
Damaged == Torn

\* What Load finds, given a manifest and the state files.
View(m, s) == IF m = Absent THEN NoCheckpoint ELSE IF Loads(m, s) THEN m.payload ELSE Damaged

Cell == INSTANCE CheckpointCell WITH cell <- View(manifest, state), safe <- View(sManifest, sState)

\* The files implement the one-cell store of CheckpointCell.
ImplementsCell == Cell!CellSpec
=============================================================================
