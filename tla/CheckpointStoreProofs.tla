------------------------ MODULE CheckpointStoreProofs ------------------------
(***************************************************************************)
(* The checkpoint directory is crash safe for any number of generations    *)
(* and any set of checkpoints: proofs of the invariants of CheckpointStore *)
(* and of the refinement of CheckpointCell.  At the end, proofs about the  *)
(* other crash-safe file, the results file of OutputFile.                  *)
(***************************************************************************)
EXTENDS CheckpointStore, OutputFile, TLAPS

(***************************************************************************)
(* The inductive invariant.  The manifest alone is not inductive: that the *)
(* next state file never overwrites the one the manifest names follows     *)
(* from Generation_ being the manifest's generation (Numbered), that the   *)
(* new manifest names a complete file from what each step of Write has     *)
(* already put on the disk (Written), and that a power loss cannot pair a  *)
(* manifest with another state file from what the last sync covered        *)
(* (Backed).                                                               *)
(***************************************************************************)

Types == TypeOK /\ manifest # Torn /\ sManifest # Torn

\* Between the steps of Write the manifest has the number of Generation_.
Numbered == /\ pc \in Steps \ {"down", "manifestRenamed", "removing"} =>
                 IF manifest = Absent THEN gen = 0 ELSE manifest.gen = gen
            /\ pc = "removing" => manifest = Absent

Writing == {"stateTmp", "stateReady", "stateRenamed", "stateSynced",
            "manifestTmp", "manifestReady", "manifestRenamed"}

\* What Write has put in place when it is at a given step.
Written == /\ pc \in Writing => gen + 1 \in Generations /\ pending \in Checkpoints
           /\ pc = "stateReady" => stateTmp[gen + 1] = pending
           /\ pc \in Writing \ {"stateTmp", "stateReady"} => state[gen + 1] = pending
           /\ pc = "manifestReady" => manifestTmp = NewManifest
           /\ pc = "manifestRenamed" => manifest = NewManifest
           /\ pc = "committed" => manifest # Absent

\* A manifest is complete, unless a power loss struck after Remove; then nothing has touched the
\* directory since.
Intact == manifest # Absent =>
              \/ Loads(manifest, state)
              \/ /\ DirectorySyncs /\ pc = "down"
                 /\ sManifest = manifest /\ sState = state

\* What the last sync of the directory covers.
Backed == DirectorySyncs =>
            /\ manifest # Absent => state[manifest.gen] = sState[manifest.gen]
            /\ manifest # Absent /\ sManifest # Absent =>
                 sManifest.gen <= manifest.gen /\ state[sManifest.gen] = sState[sManifest.gen]
            /\ sManifest # Absent =>
                 Loads(sManifest, sState) \/ (sManifest = manifest /\ sState = state /\ pc = "down")
            /\ pc \in {"stateSynced", "manifestTmp", "manifestReady"} => sManifest = manifest /\ sState = state
            /\ pc = "manifestRenamed" => sState = state
            /\ pc = "committed" => sManifest = manifest /\ sState = state

\* Who made the directory, and what it holds while it does not exist.
Owned == /\ dir = "user" <=> sDir = "user"
         /\ dir = "user" => /\ ~created
                            /\ manifest # Absent => ~manifest.created
                            /\ sManifest # Absent => ~sManifest.created
         /\ dir = "none" => pc = "down" /\ manifest = Absent /\ ~foreign
         /\ sDir = "none" => sManifest = Absent /\ ~foreign

IInv == Types /\ Numbered /\ Written /\ Intact /\ Backed /\ Owned

-----------------------------------------------------------------------------
(* Init, and every step, preserve the inductive invariant. *)

USE StoreConstants, NotAManifest

\* The initial states satisfy the inductive invariant.
LEMMA InitIInv == Init => IInv
<1> SUFFICES ASSUME Init PROVE IInv
  OBVIOUS
<1>1. gen \in 0..MaxGeneration
  BY DEF Init
<1>2. Types
  BY <1>1 DEF Init, Types, TypeOK, NoFiles, Contents, Steps
<1>3. Numbered /\ Written /\ Intact /\ Backed /\ Owned
  BY DEF Init, Numbered, Written, Writing, Intact, Backed, Owned
<1> QED
  BY <1>2, <1>3 DEF IInv

\* A process that is gone leaves well-typed variables behind.
LEMMA ExitTypes == ASSUME Exit
                   PROVE  gen' \in 0..MaxGeneration /\ created' \in BOOLEAN /\ pc' \in Steps
                          /\ pending' \in Checkpoints \cup {Absent}
<1>1. gen' \in 0..MaxGeneration
  BY DEF Exit
<1>2. created' \in BOOLEAN
  BY DEF Exit
<1>3. pc' \in Steps /\ pending' \in Checkpoints \cup {Absent}
  BY DEF Exit, Steps
<1> QED
  BY <1>1, <1>2, <1>3

\* Every action preserves the inductive invariant, conjunct by conjunct.
LEMMA StartFreshIInv == ASSUME IInv, StartFresh PROVE IInv'
<1>1. Types'
  BY DEF IInv, Types, TypeOK, StartFresh, Prepare, Steps, synced
<1>2. Numbered'
  BY DEF Numbered, StartFresh, Prepare
<1>3. Written'
  BY DEF Written, Writing, StartFresh, Prepare
<1>4. Intact'
  BY DEF Intact, StartFresh, Prepare
<1>5. Backed'
  BY DEF IInv, Backed, StartFresh, Prepare, synced
<1>6. Owned'
  BY DEF IInv, Types, TypeOK, Owned, StartFresh, Prepare, synced
<1> QED
  BY <1>1, <1>2, <1>3, <1>4, <1>5, <1>6 DEF IInv

LEMMA StartResumeIInv == ASSUME IInv, StartResume PROVE IInv'
<1>1. Types'
  BY DEF IInv, Types, TypeOK, StartResume, Prepare, Loads, Manifests, Generations, Steps, synced
<1>2. Numbered'
  BY DEF Numbered, StartResume, Prepare, Loads
<1>3. Written'
  BY DEF Written, Writing, StartResume, Prepare
<1>4. Intact'
  BY DEF Intact, StartResume, Prepare
<1>5. Backed'
  BY DEF IInv, Backed, StartResume, Prepare, synced
<1>6. Owned'
  BY DEF IInv, Owned, StartResume, Prepare, Loads, synced
<1> QED
  BY <1>1, <1>2, <1>3, <1>4, <1>5, <1>6 DEF IInv

LEMMA RemoveProbeIInv == ASSUME IInv, RemoveProbe PROVE IInv'
<1>1. Types'
  BY DEF IInv, Types, TypeOK, RemoveProbe, synced, Steps
<1>2. Numbered'
  BY DEF IInv, Types, TypeOK, Numbered, RemoveProbe
<1>3. Written'
  BY DEF Written, Writing, RemoveProbe
<1>4. Intact'
  BY DEF IInv, Intact, RemoveProbe
<1>5. Backed'
  BY DEF IInv, Backed, RemoveProbe, synced
<1>6. Owned'
  BY DEF IInv, Owned, RemoveProbe, synced
<1> QED
  BY <1>1, <1>2, <1>3, <1>4, <1>5, <1>6 DEF IInv

LEMMA OpenStateTmpIInv == ASSUME NEW c \in Checkpoints, IInv, OpenStateTmp(c) PROVE IInv'
<1>1. Types'
  BY DEF IInv, Types, TypeOK, OpenStateTmp, Contents, Steps, synced
<1>2. Numbered'
  BY DEF IInv, Types, TypeOK, Numbered, OpenStateTmp
<1>3. Written'
  BY DEF Written, OpenStateTmp, NextGen
<1>4. Intact'
  BY DEF IInv, Intact, OpenStateTmp
<1>5. Backed'
  BY DEF IInv, Backed, OpenStateTmp, synced
<1>6. Owned'
  BY DEF IInv, Owned, OpenStateTmp, synced
<1> QED
  BY <1>1, <1>2, <1>3, <1>4, <1>5, <1>6 DEF IInv

LEMMA FlushStateTmpIInv == ASSUME IInv, FlushStateTmp PROVE IInv'
<1>1. Types'
  BY DEF IInv, Types, TypeOK, Written, Writing, FlushStateTmp, Contents, NextGen, Steps, synced
<1>2. Numbered'
  BY DEF IInv, Types, TypeOK, Numbered, FlushStateTmp
<1>3. Written'
  BY DEF IInv, Types, TypeOK, Written, Writing, FlushStateTmp, NextGen
<1>4. Intact'
  BY DEF IInv, Intact, FlushStateTmp
<1>5. Backed'
  BY DEF IInv, Backed, FlushStateTmp, synced
<1>6. Owned'
  BY DEF IInv, Owned, FlushStateTmp, synced
<1> QED
  BY <1>1, <1>2, <1>3, <1>4, <1>5, <1>6 DEF IInv

LEMMA RenameStateIInv == ASSUME IInv, RenameState PROVE IInv'
<1>1. Types'
  BY DEF IInv, Types, TypeOK, Written, Writing, RenameState, Contents, NextGen, Steps, synced
<1>2. Numbered'
  BY DEF IInv, Types, TypeOK, Numbered, RenameState
<1>3. Written'
  BY DEF IInv, Types, TypeOK, Written, Writing, RenameState, NextGen
<1>4. Intact'
  BY DEF IInv, Types, TypeOK, Numbered, Intact, RenameState, Loads, NextGen
<1>5. Backed'
  BY DEF IInv, Types, TypeOK, Numbered, Backed, RenameState, NextGen, synced
<1>6. Owned'
  BY DEF IInv, Owned, RenameState, synced
<1> QED
  BY <1>1, <1>2, <1>3, <1>4, <1>5, <1>6 DEF IInv

LEMMA SyncStateIInv == ASSUME IInv, SyncState PROVE IInv'
<1>1. Types'
  BY DEF IInv, Types, TypeOK, SyncState, SyncDirectoryOf, Steps, disk, synced
<1>2. Numbered'
  BY DEF IInv, Numbered, SyncState, Steps, disk
<1>3. Written'
  BY DEF IInv, Written, Writing, SyncState, disk
<1>4. Intact'
  BY DEF IInv, Intact, SyncState, disk
<1>5. Backed'
  BY DEF IInv, Types, TypeOK, Numbered, Intact, Backed, SyncState, SyncDirectoryOf, disk
<1>6. Owned'
  BY DEF IInv, Owned, SyncState, SyncDirectoryOf, disk, synced
<1> QED
  BY <1>1, <1>2, <1>3, <1>4, <1>5, <1>6 DEF IInv

LEMMA StateWriteFailsIInv == ASSUME IInv, StateWriteFails PROVE IInv'
<1>1. Types'
  BY DEF IInv, Types, TypeOK, Written, Writing, StateWriteFails, Contents, NextGen, Steps, synced
<1>2. Numbered'
  BY DEF IInv, Types, TypeOK, Numbered, StateWriteFails
<1>3. Written'
  BY DEF Written, Writing, StateWriteFails
<1>4. Intact'
  BY DEF IInv, Intact, StateWriteFails
<1>5. Backed'
  BY DEF IInv, Backed, StateWriteFails, synced
<1>6. Owned'
  BY DEF IInv, Owned, StateWriteFails, synced
<1> QED
  BY <1>1, <1>2, <1>3, <1>4, <1>5, <1>6 DEF IInv

LEMMA OpenManifestTmpIInv == ASSUME IInv, OpenManifestTmp PROVE IInv'
<1>1. Types'
  BY DEF IInv, Types, TypeOK, OpenManifestTmp, Steps, synced
<1>2. Numbered'
  BY DEF IInv, Types, TypeOK, Numbered, OpenManifestTmp
<1>3. Written'
  BY DEF IInv, Written, Writing, OpenManifestTmp
<1>4. Intact'
  BY DEF IInv, Intact, OpenManifestTmp
<1>5. Backed'
  BY DEF IInv, Backed, OpenManifestTmp, synced
<1>6. Owned'
  BY DEF IInv, Owned, OpenManifestTmp, synced
<1> QED
  BY <1>1, <1>2, <1>3, <1>4, <1>5, <1>6 DEF IInv

LEMMA FlushManifestTmpIInv == ASSUME IInv, FlushManifestTmp PROVE IInv'
<1>1. Types'
  BY DEF IInv, Types, TypeOK, Written, Writing, FlushManifestTmp, Manifests, NewManifest, NextGen, Steps,
     synced
<1>2. Numbered'
  BY DEF IInv, Types, TypeOK, Numbered, FlushManifestTmp
<1>3. Written'
  BY DEF IInv, Written, Writing, FlushManifestTmp, NewManifest, NextGen
<1>4. Intact'
  BY DEF IInv, Intact, FlushManifestTmp
<1>5. Backed'
  BY DEF IInv, Backed, FlushManifestTmp, synced
<1>6. Owned'
  BY DEF IInv, Owned, FlushManifestTmp, synced
<1> QED
  BY <1>1, <1>2, <1>3, <1>4, <1>5, <1>6 DEF IInv

LEMMA RenameManifestIInv == ASSUME IInv, RenameManifest PROVE IInv'
<1>1. Types'
  BY DEF IInv, Types, TypeOK, Written, Writing, RenameManifest, Manifests, NewManifest, NextGen, Steps,
     synced
<1>2. Numbered'
  BY DEF Numbered, RenameManifest
<1>3. Written'
  BY DEF IInv, Written, Writing, RenameManifest, NewManifest, NextGen
<1>4. Intact'
  BY DEF IInv, Types, TypeOK, Written, Writing, Intact, RenameManifest, Loads, Manifests, NewManifest,
     NextGen
<1>5. Backed'
  BY DEF IInv, Types, TypeOK, Numbered, Written, Backed, RenameManifest, NewManifest, NextGen, synced
<1>6. Owned'
  BY DEF IInv, Owned, Written, RenameManifest, NewManifest, synced
<1> QED
  BY <1>1, <1>2, <1>3, <1>4, <1>5, <1>6 DEF IInv

LEMMA SyncManifestIInv == ASSUME IInv, SyncManifest PROVE IInv'
<1>1. Types'
  BY DEF IInv, Types, TypeOK, Written, Writing, SyncManifest, SyncDirectoryOf, Generations, NextGen, Steps,
     disk, synced
<1>2. Numbered'
  BY DEF IInv, Types, TypeOK, Numbered, Written, Writing, SyncManifest, Manifests, NewManifest, NextGen,
     disk
<1>3. Written'
  BY DEF IInv, Types, TypeOK, Written, Writing, SyncManifest, Manifests, NewManifest, NextGen, disk
<1>4. Intact'
  BY DEF IInv, Intact, SyncManifest, disk
<1>5. Backed'
  BY DEF IInv, Intact, Backed, SyncManifest, SyncDirectoryOf, Loads, Manifests, Generations, disk
<1>6. Owned'
  BY DEF IInv, Owned, SyncManifest, SyncDirectoryOf, disk, synced
<1> QED
  BY <1>1, <1>2, <1>3, <1>4, <1>5, <1>6 DEF IInv

LEMMA ManifestWriteFailsIInv == ASSUME IInv, ManifestWriteFails PROVE IInv'
<1>1. Types'
  BY DEF IInv, Types, TypeOK, Written, Writing, ManifestWriteFails, Contents, NextGen, Steps, synced
<1>2. Numbered'
  BY DEF IInv, Types, TypeOK, Numbered, ManifestWriteFails
<1>3. Written'
  BY DEF Written, Writing, ManifestWriteFails
<1>4. Intact'
  BY DEF IInv, Types, TypeOK, Numbered, Intact, ManifestWriteFails, Loads, NextGen
<1>5. Backed'
  BY DEF IInv, Types, TypeOK, Numbered, Backed, ManifestWriteFails, NextGen, synced
<1>6. Owned'
  BY DEF IInv, Owned, ManifestWriteFails, synced
<1> QED
  BY <1>1, <1>2, <1>3, <1>4, <1>5, <1>6 DEF IInv

LEMMA RemoveStaleIInv == ASSUME IInv, RemoveStale PROVE IInv'
<1>1. Types'
  BY DEF IInv, Types, TypeOK, RemoveStale, Without, synced, Contents, Steps
<1>2. Numbered'
  BY DEF IInv, Types, TypeOK, Numbered, RemoveStale
<1>3. Written'
  BY DEF Written, Writing, RemoveStale
<1>4. Intact'
  BY DEF IInv, Types, TypeOK, Numbered, Intact, RemoveStale, Without, Loads, Manifests
<1>5. Backed'
  BY DEF IInv, Types, TypeOK, Numbered, Backed, RemoveStale, Without, Manifests, synced
<1>6. Owned'
  BY DEF IInv, Owned, RemoveStale, synced
<1> QED
  BY <1>1, <1>2, <1>3, <1>4, <1>5, <1>6 DEF IInv

LEMMA RemoveManifestIInv == ASSUME IInv, RemoveManifest PROVE IInv'
<1>1. Types'
  BY DEF IInv, Types, TypeOK, RemoveManifest, Steps, synced
<1>2. Numbered'
  BY DEF Numbered, RemoveManifest
<1>3. Written'
  BY DEF Written, Writing, RemoveManifest
<1>4. Intact'
  BY DEF Intact, RemoveManifest
<1>5. Backed'
  BY DEF IInv, Backed, RemoveManifest, synced
<1>6. Owned'
  BY DEF IInv, Owned, RemoveManifest, synced
<1> QED
  BY <1>1, <1>2, <1>3, <1>4, <1>5, <1>6 DEF IInv

LEMMA RemoveFilesIInv == ASSUME IInv, RemoveFiles PROVE IInv'
<1>1. Types'
  BY ExitTypes DEF IInv, Types, TypeOK, Numbered, Written, Writing, RemoveFiles, Exit, NoFiles, Loads, Manifests, Contents, Generations, NewManifest, NextGen, Steps, disk, synced, process
<1>2. Numbered'
  BY DEF Numbered, RemoveFiles, Exit
<1>3. Written'
  BY DEF Written, Writing, RemoveFiles, Exit
<1>4. Intact'
  BY DEF IInv, Numbered, Intact, RemoveFiles
<1>5. Backed'
  BY DEF IInv, Numbered, Backed, RemoveFiles, Exit, synced
<1>6. Owned'
  BY DEF IInv, Owned, Numbered, RemoveFiles, Exit, synced
<1> QED
  BY <1>1, <1>2, <1>3, <1>4, <1>5, <1>6 DEF IInv

LEMMA RemoveFilesStopsIInv == ASSUME IInv, RemoveFilesStops PROVE IInv'
<1>1. Types'
  BY ExitTypes DEF IInv, Types, TypeOK, Numbered, Written, Writing, RemoveFilesStops, Exit, Without, Existing, Loads, Manifests, Contents, Generations, NewManifest, NextGen, Steps, disk, synced, process
<1>2. Numbered'
  BY DEF Numbered, RemoveFilesStops, Exit
<1>3. Written'
  BY DEF Written, Writing, RemoveFilesStops, Exit
<1>4. Intact'
  BY DEF IInv, Numbered, Intact, RemoveFilesStops
<1>5. Backed'
  BY DEF IInv, Numbered, Backed, RemoveFilesStops, Exit, synced
<1>6. Owned'
  BY DEF IInv, Owned, RemoveFilesStops, Exit, synced
<1> QED
  BY <1>1, <1>2, <1>3, <1>4, <1>5, <1>6 DEF IInv

LEMMA StopIInv == ASSUME IInv, Stop PROVE IInv'
<1>1. Types'
  BY ExitTypes DEF IInv, Types, TypeOK, Stop, disk, synced
<1>2. Numbered'
  BY DEF Numbered, Stop, Exit
<1>3. Written'
  BY DEF Written, Writing, Stop, Exit
<1>4. Intact'
  BY DEF IInv, Intact, Stop, disk
<1>5. Backed'
  BY DEF IInv, Backed, Stop, Exit, disk, synced
<1>6. Owned'
  BY DEF IInv, Owned, Stop, Exit, disk, synced
<1> QED
  BY <1>1, <1>2, <1>3, <1>4, <1>5, <1>6 DEF IInv

LEMMA PowerLossIInv == ASSUME IInv, PowerLoss PROVE IInv'
<1>1. Types'
  BY ExitTypes DEF IInv, Types, TypeOK, Numbered, Written, Writing, PowerLoss, Exit, Without, Existing, NoFiles, Loads, Manifests, Contents, Generations, NewManifest, NextGen, Steps, disk, synced, process
<1>2. Numbered'
  BY DEF Numbered, PowerLoss, Exit
<1>3. Written'
  BY DEF Written, Writing, PowerLoss, Exit
<1>4. Intact'
  BY DEF Intact, PowerLoss, Exit
<1>5. Backed'
  <2>1. pc' = "down" /\ sManifest' = manifest' /\ sState' = state'
    BY DEF PowerLoss, Exit
  <2> QED
    BY <1>1, <2>1 DEF Backed, Types, TypeOK, Manifests, Generations
<1>6. Owned'
  BY DEF IInv, Types, TypeOK, Owned, Numbered, Written, Writing, PowerLoss, Exit, Without, Existing, NoFiles, Loads, Manifests, Contents, Generations, NewManifest, NextGen, Steps, disk, synced, process
<1> QED
  BY <1>1, <1>2, <1>3, <1>4, <1>5, <1>6 DEF IInv

LEMMA UserDiscardsIInv == ASSUME IInv, UserDiscards PROVE IInv'
<1>1. Types'
  BY DEF IInv, Types, TypeOK, UserDiscards, NoFiles, Contents, process
<1>2. Numbered'
  BY DEF Numbered, UserDiscards, process
<1>3. Written'
  BY DEF Written, Writing, UserDiscards, process
<1>4. Intact'
  BY DEF Intact, UserDiscards
<1>5. Backed'
  BY DEF Backed, UserDiscards
<1>6. Owned'
  BY DEF IInv, Owned, UserDiscards, process
<1> QED
  BY <1>1, <1>2, <1>3, <1>4, <1>5, <1>6 DEF IInv

LEMMA UserAddsFileIInv == ASSUME IInv, UserAddsFile PROVE IInv'
<1>1. Types'
  BY DEF IInv, Types, TypeOK, UserAddsFile, process
<1>2. Numbered'
  BY DEF IInv, Numbered, UserAddsFile, process
<1>3. Written'
  BY DEF IInv, Written, UserAddsFile, NewManifest, NextGen, process
<1>4. Intact'
  BY DEF IInv, Intact, UserAddsFile, process
<1>5. Backed'
  BY DEF IInv, Backed, UserAddsFile, process
<1>6. Owned'
  BY DEF IInv, Owned, UserAddsFile, process
<1> QED
  BY <1>1, <1>2, <1>3, <1>4, <1>5, <1>6 DEF IInv

\* So does every step of the specification.
LEMMA NextIInv == ASSUME IInv, [Next]_vars PROVE IInv'
<1>1. CASE UNCHANGED vars
  BY <1>1 DEF IInv, Types, TypeOK, Numbered, Written, Intact, Backed, Owned, NewManifest, NextGen, vars,
     disk, synced, process
<1>2. CASE Next
  BY <1>2, StartFreshIInv, StartResumeIInv, RemoveProbeIInv, OpenStateTmpIInv, FlushStateTmpIInv,
     RenameStateIInv, SyncStateIInv, StateWriteFailsIInv, OpenManifestTmpIInv, FlushManifestTmpIInv,
     RenameManifestIInv, SyncManifestIInv, ManifestWriteFailsIInv, RemoveStaleIInv, RemoveManifestIInv,
     RemoveFilesIInv, RemoveFilesStopsIInv, StopIInv, PowerLossIInv, UserDiscardsIInv,
     UserAddsFileIInv
     DEF Next
<1> QED
  BY <1>1, <1>2

\* The inductive invariant holds throughout.
THEOREM Invariance == Spec => []IInv
<1> QED
  BY InitIInv, NextIInv, PTL DEF Spec

-----------------------------------------------------------------------------
(* The invariants of the runs *)

\* Every variable of the store has its type, at every step of Write, Remove and Load.
THEOREM TypeCorrect == Spec => []TypeOK
<1>1. IInv => TypeOK
  BY DEF IInv, Types
<1> QED
  BY <1>1, Invariance, PTL

\* At whatever step of Prepare, Write or Remove a run is killed, the manifest names a complete state file.
THEOREM Vouches == Spec => []ManifestVouches
<1>1. IInv => ManifestVouches
  BY DEF IInv, Intact, ManifestVouches
<1> QED
  BY <1>1, Invariance, PTL

\* Kills and failing writes alone never leave a damaged checkpoint.
THEOREM KillSafe == Spec => []KillsNeverDamage
<1>1. IInv => KillsNeverDamage
  BY DEF IInv, Intact, KillsNeverDamage
<1> QED
  BY <1>1, Invariance, PTL

\* The sweep of older files begins only when the new checkpoint survives a power loss.
THEOREM SweepSafe == Spec => []SweepIsSafe
<1>1. IInv => SweepIsSafe
  BY DEF IInv, Written, Backed, SweepIsSafe
<1> QED
  BY <1>1, Invariance, PTL

-----------------------------------------------------------------------------
(* The action properties of the runs *)

\* No step but Remove's first, the user's deletion or a power loss takes a resumable checkpoint away.
THEOREM ProgressSurvives == Spec => ProgressKept
<1>1. ASSUME IInv, [Next]_vars
      PROVE  [Loads(manifest, state) /\ ~RemoveManifest /\ ~UserDiscards /\ ~PowerLoss
                => Loads(manifest', state')]_vars
  <2> SUFFICES ASSUME Loads(manifest, state), ~RemoveManifest, ~UserDiscards, ~PowerLoss, Next
               PROVE  Loads(manifest', state')
    BY <1>1
  <2>1. IInv'
    BY <1>1, NextIInv
  <2>2. CASE pc' # "down"
    <3>1. manifest' # Absent
      <4>1. CASE RenameManifest
        BY <2>1, <4>1 DEF RenameManifest, IInv, Written, Types, TypeOK, NewManifest, NextGen, Manifests,
           Writing
      <4>2. CASE ~RenameManifest
        <5>1. manifest' = manifest
          BY <4>2 DEF Next, StartFresh, StartResume, Prepare, RemoveProbe, OpenStateTmp, FlushStateTmp,
                      RenameState, SyncState, StateWriteFails, OpenManifestTmp, FlushManifestTmp, SyncManifest,
                      ManifestWriteFails, RemoveStale, RemoveFiles, RemoveFilesStops, Stop, UserAddsFile, disk
        <5> QED
          BY <5>1 DEF Loads
      <4> QED
        BY <4>1, <4>2
    <3> QED
      BY <2>1, <2>2, <3>1 DEF IInv, Intact
  <2>3. CASE pc' = "down"
    BY <1>1, <2>3 DEF Next, StartFresh, StartResume, Prepare, RemoveProbe, OpenStateTmp, FlushStateTmp, RenameState,
                SyncState, StateWriteFails, OpenManifestTmp, FlushManifestTmp, RenameManifest, SyncManifest,
                ManifestWriteFails, RemoveStale, RemoveFiles, RemoveFilesStops, Stop, Exit, UserAddsFile,
                Loads, IInv, Numbered, disk, process
  <2> QED
    BY <2>2, <2>3
<1> QED
  BY <1>1, Invariance, PTL DEF Spec, ProgressKept

\* A directory disappears only if a run created it and nobody else's file lies in it.
THEOREM OwnDirectoryOnly == Spec => OnlyOwnDirectoryRemoved
<1>1. ASSUME IInv, [Next]_vars
      PROVE  [dir' = "none" /\ dir # "none" => dir = "run" /\ ~foreign]_vars
  <2> SUFFICES ASSUME dir' = "none", dir # "none", Next PROVE dir = "run" /\ ~foreign
    BY <1>1
  <2>1. CASE RemoveFiles
    BY <1>1, <2>1 DEF RemoveFiles, IInv, Types, TypeOK, Owned
  <2>2. CASE PowerLoss
    BY <1>1, <2>2 DEF PowerLoss, IInv, Types, TypeOK, Owned
  <2>3. CASE ~RemoveFiles /\ ~PowerLoss
    BY <2>3 DEF Next, StartFresh, StartResume, Prepare, RemoveProbe, OpenStateTmp, FlushStateTmp, RenameState,
                SyncState, StateWriteFails, OpenManifestTmp, FlushManifestTmp, RenameManifest, SyncManifest,
                ManifestWriteFails, RemoveStale, RemoveManifest, RemoveFilesStops, Stop, UserDiscards,
                UserAddsFile, disk
  <2> QED
    BY <2>1, <2>2, <2>3
<1> QED
  BY <1>1, Invariance, PTL DEF Spec, OnlyOwnDirectoryRemoved

-----------------------------------------------------------------------------
(* The files implement CheckpointCell. *)

\* The steps that change neither what Load finds nor what it would find after a power loss.
Silent == \/ StartFresh \/ StartResume \/ RemoveProbe
          \/ (\E c \in Checkpoints : OpenStateTmp(c))
          \/ FlushStateTmp \/ RenameState \/ StateWriteFails
          \/ OpenManifestTmp \/ FlushManifestTmp \/ ManifestWriteFails
          \/ RemoveStale \/ RemoveFiles \/ RemoveFilesStops \/ Stop \/ UserAddsFile

\* A silent step leaves both views alone: whatever it does to the state files, it keeps the file that
\* the manifest names.
LEMMA SilentStutters == ASSUME IInv, Silent
                        PROVE  View(manifest', state') = View(manifest, state)
                               /\ View(sManifest', sState') = View(sManifest, sState)
<1>1. manifest' = manifest /\ sManifest' = sManifest /\ sState' = sState
  BY DEF Silent, StartFresh, StartResume, Prepare, RemoveProbe, OpenStateTmp, FlushStateTmp, RenameState,
         StateWriteFails, OpenManifestTmp, FlushManifestTmp, ManifestWriteFails, RemoveStale, RemoveFiles,
         RemoveFilesStops, Stop, UserAddsFile, disk, synced
<1>2. manifest # Absent => state'[manifest.gen] = state[manifest.gen]
  <2> SUFFICES ASSUME manifest # Absent PROVE state'[manifest.gen] = state[manifest.gen]
    OBVIOUS
  <2>0. manifest.gen \in Generations /\ state \in [Generations -> Contents]
    BY DEF IInv, Types, TypeOK, Manifests
  <2>1. CASE RenameState
    BY <2>1 DEF RenameState, NextGen, IInv, Types, TypeOK, Numbered
  <2>2. CASE ManifestWriteFails
    BY <2>2 DEF ManifestWriteFails, NextGen, IInv, Types, TypeOK, Numbered
  <2>3. CASE RemoveStale
    BY <2>0, <2>3 DEF RemoveStale, Without, IInv, Numbered, Steps
  <2>4. CASE RemoveFiles \/ RemoveFilesStops
    BY <2>4 DEF RemoveFiles, RemoveFilesStops, IInv, Numbered
  <2>5. CASE state' = state
    BY <2>5
  <2> QED
    BY <2>1, <2>2, <2>3, <2>4 DEF Silent, StartFresh, StartResume, Prepare, RemoveProbe, OpenStateTmp,
       FlushStateTmp, StateWriteFails, OpenManifestTmp, FlushManifestTmp, Stop, UserAddsFile, disk
<1> QED
  BY <1>1, <1>2 DEF View, Loads

\* A sync settles the cell, or does nothing where directories cannot be synced.
LEMMA SyncSettles == ASSUME IInv, SyncState \/ SyncManifest PROVE [Cell!Settle]_(Cell!cellVars)
<1>1. manifest' = manifest /\ state' = state
  BY DEF SyncState, SyncManifest, disk
<1>2. CASE DirectorySyncs
  BY <1>1, <1>2 DEF SyncState, SyncManifest, SyncDirectoryOf, Cell!Settle
<1>3. CASE ~DirectorySyncs
  BY <1>1, <1>3 DEF SyncState, SyncManifest, SyncDirectoryOf, synced, Cell!cellVars
<1> QED
  BY <1>2, <1>3

\* Renaming the manifest commits the checkpoint of this Write.
LEMMA RenameCommits == ASSUME IInv, RenameManifest PROVE Cell!Commit
<1>1. View(manifest', state') = pending /\ pending \in Checkpoints
  <2>1. manifest' = NewManifest /\ state' = state
    BY DEF RenameManifest, IInv, Written
  <2>2. NewManifest \in Manifests /\ state[NewManifest.gen] = NewManifest.payload
    BY DEF RenameManifest, IInv, Types, TypeOK, Written, Writing, NewManifest, NextGen, Manifests
  <2> QED
    BY <2>2 DEF RenameManifest, IInv, Written, Writing, NewManifest, View, Loads
<1>2. View(manifest, state) # Damaged
  BY DEF RenameManifest, IInv, Intact, View, Loads, Damaged, NoCheckpoint, Manifests
<1>3. sManifest' = sManifest /\ sState' = sState
  BY DEF RenameManifest, synced
<1> QED
  BY <1>1, <1>2, <1>3 DEF Cell!Commit

\* Deleting the manifest clears the cell.
LEMMA RemoveClears == ASSUME RemoveManifest PROVE Cell!Clear
  BY DEF RemoveManifest, synced, View, Cell!Clear

\* So does the user, for good.
LEMMA UserClears == ASSUME UserDiscards PROVE Cell!Discard
  BY DEF UserDiscards, View, Cell!Discard

\* A power loss that mixes synced and unsynced names yields the cell's content or its synced content,
\* or damages a cell that is being cleared.
LEMMA PowerLossMixes == ASSUME IInv, PowerLoss PROVE Cell!PowerLoss
<1>1. View(sManifest', sState') = View(manifest', state')
  BY DEF PowerLoss
<1>2. \/ View(manifest', state') \in {View(manifest, state), View(sManifest, sState)}
      \/ /\ View(manifest, state) = NoCheckpoint /\ View(sManifest, sState) # NoCheckpoint
         /\ View(manifest', state') = Damaged
  <2>1. CASE manifest' = Absent
    BY <2>1 DEF PowerLoss, View, IInv, Owned
  <2>2. CASE manifest' # Absent
    <3>1. /\ manifest' \in {manifest, sManifest}
          /\ \A g \in Generations : state'[g] \in {state[g], sState[g]}
      BY <2>2 DEF PowerLoss, IInv, Types, TypeOK
    <3>2. manifest' \in Manifests /\ manifest'.gen \in Generations
      BY <2>2, <3>1 DEF IInv, Types, TypeOK, Manifests
    <3>3. CASE manifest # Absent
      BY <3>1, <3>2, <3>3 DEF PowerLoss, IInv, Backed, View, Loads
    <3>4. CASE manifest = Absent
      <4>1. manifest' = sManifest /\ Loads(sManifest, sState)
        BY <2>2, <3>1, <3>4 DEF PowerLoss, IInv, Backed
      <4>2. View(manifest, state) = NoCheckpoint /\ View(sManifest, sState) = sManifest.payload
        BY <2>2, <3>4, <4>1 DEF View
      <4>3. sManifest.payload # NoCheckpoint
        BY <4>1 DEF Loads, Manifests, NoCheckpoint
      <4>4. View(manifest', state') \in {sManifest.payload, Damaged}
        BY <2>2, <4>1 DEF View
      <4> QED
        BY <4>2, <4>3, <4>4
    <3> QED
      BY <3>3, <3>4
  <2> QED
    BY <2>1, <2>2
<1> QED
  BY <1>1, <1>2 DEF Cell!PowerLoss

\* The store of files implements the one-cell store, for every number of generations.
THEOREM Refinement == Spec => ImplementsCell
<1>1. Init => Cell!CellInit
  BY DEF Init, View, NoCheckpoint, Cell!CellInit
<1>2. ASSUME IInv, [Next]_vars PROVE [Cell!CellNext]_(Cell!cellVars)
  <2>1. CASE UNCHANGED vars
    BY <2>1 DEF vars, disk, synced, Cell!cellVars
  <2>2. CASE Silent
    BY <1>2, <2>2, SilentStutters DEF Cell!cellVars
  <2>3. CASE SyncState \/ SyncManifest
    BY <1>2, <2>3, SyncSettles DEF Cell!CellNext
  <2>4. CASE RenameManifest \/ RemoveManifest \/ UserDiscards \/ PowerLoss
    BY <1>2, <2>4, RenameCommits, RemoveClears, UserClears, PowerLossMixes DEF Cell!CellNext
  <2> QED
    BY <1>2, <2>1, <2>2, <2>3, <2>4 DEF Next, Silent
<1> QED
  BY <1>1, <1>2, Invariance, PTL DEF Spec, ImplementsCell, Cell!CellSpec

-----------------------------------------------------------------------------
(* The other file that has to survive a crash: the results file, as        *)
(* OutputFile models it, for any number of processes that write it.  It is *)
(* always complete at its path, and never beside the sidecar of another.   *)

Ready == {"committed", "bare"}

\* A complete file that a power loss cannot harm.
Sound(f) == f \in Files /\ f.whole /\ f.flushed

\* Why a database at the path stays complete: everything that is at the path, may come back to it after a
\* power loss or is about to be renamed to it is complete and flushed.
ResultsInv == /\ step \in [Processes -> {"idle", "writing", "committed", "bare"}]
              /\ tmp \in [Processes -> Files \cup {Nothing}]
              /\ out # Nothing => Sound(out)
              /\ sOut # Nothing => Sound(sOut)
              /\ \A p \in Processes : step[p] \in Ready => Sound(tmp[p])

\* The files that a process makes.
LEMMA FilesMade == ASSUME NEW p \in Processes
                   PROVE  /\ Partial(p) \in Files /\ Complete(p) \in Files
                          /\ Writer = "results" => Sound(Complete(p))
  BY DEF Partial, Complete, Sound, Files, Owners

\* A power loss leaves a sound file as it is.
LEMMA SoundRemains == ASSUME NEW f, f # Nothing => Sound(f), NEW g \in Remains(f)
                      PROVE  g # Nothing => Sound(g)
  BY DEF Remains, Sound

\* It leaves files.
LEMMA RemainsFiles == ASSUME NEW f \in Files \cup {Nothing}, NEW g \in Remains(f)
                      PROVE  g \in Files \cup {Nothing}
<1>1. CASE f = Nothing
  BY <1>1 DEF Remains
<1>2. CASE f # Nothing
  <2>1. f.by \in Owners
    BY <1>2 DEF Files
  <2>2. Partial(f.by) \in Files
    BY <2>1 DEF Partial, Files
  <2> QED
    BY <1>2, <2>2 DEF Remains
<1> QED
  BY <1>1, <1>2

\* Every step of a results writer keeps what is at its path complete (ResultsWriter.cpp).
LEMMA ResultsStep == ASSUME Writer = "results", ResultsInv, [OutputNext]_outputVars
                     PROVE  ResultsInv'
<1>1. ASSUME NEW p \in Processes, Begin(p) PROVE ResultsInv'
  BY <1>1, FilesMade DEF ResultsInv, Begin, At, Ready
<1>2. ASSUME NEW p \in Processes, Finish(p) PROVE ResultsInv'
  BY <1>2, FilesMade DEF ResultsInv, Finish, At, Ready
<1>3. ASSUME NEW p \in Processes, RemoveDatabaseSidecars(p) PROVE ResultsInv'
  BY <1>3 DEF ResultsInv, RemoveDatabaseSidecars, At, Ready
<1>4. ASSUME NEW p \in Processes, RenameReplacing(p) PROVE ResultsInv'
  BY <1>4 DEF ResultsInv, RenameReplacing, At, Ready
<1>5. ASSUME NEW p \in Processes, Fails(p) PROVE ResultsInv'
  <2>1. /\ step' = [step EXCEPT ![p] = "idle"]
        /\ \A q \in Processes \ {p} : tmp'[q] = tmp[q]
        /\ tmp' \in [Processes -> Files \cup {Nothing}]
    BY <1>5 DEF ResultsInv, Fails
  <2> QED
    BY <1>5, <2>1 DEF ResultsInv, Fails, Ready
<1>6. ASSUME NEW p \in Processes, Kill(p) PROVE ResultsInv'
  BY <1>6 DEF ResultsInv, Kill, Ready
<1>7. CASE LosePower
  <2>1. /\ out' # Nothing => Sound(out')
        /\ sOut' # Nothing => Sound(sOut')
    BY <1>7, SoundRemains DEF ResultsInv, LosePower
  <2>2. tmp' \in [Processes -> Files \cup {Nothing}]
    <3>1. \A p \in Processes : tmp'[p] \in Files \cup {Nothing}
      BY <1>7, RemainsFiles DEF ResultsInv, LosePower
    <3> QED
      BY <1>7, <3>1 DEF LosePower
  <2> QED
    BY <1>7, <2>1, <2>2 DEF ResultsInv, LosePower, Ready
<1>8. CASE WriteBack
  <2>1. out' # Nothing => Sound(out')
    BY <1>8 DEF ResultsInv, WriteBack, Sound, Files
  <2> QED
    BY <1>8, <2>1 DEF ResultsInv, WriteBack, Ready
<1>9. CASE UNCHANGED outputVars
  BY <1>9 DEF ResultsInv, outputVars
<1> QED
  BY <1>1, <1>2, <1>3, <1>4, <1>5, <1>6, <1>7, <1>8, <1>9 DEF OutputNext

\* README, "No output is ever half-written", for the results file: with any number of processes that
\* write it, over failures, kills, reused process ids and power losses, the path holds no partial file,
\* unless it held one with a hot journal before.
THEOREM ResultsNeverPartial == ASSUME Writer = "results", ~Hot
                               PROVE  OutputSpec => []NeverPartial
<1>1. OutputInit => ResultsInv
  <2>1. Sound(OldFile(TRUE))
    BY DEF Sound, OldFile, Files, Owners
  <2> QED
    BY <2>1 DEF OutputInit, ResultsInv, Ready
<1>2. ResultsInv /\ [OutputNext]_outputVars => ResultsInv'
  BY ResultsStep
<1>3. ResultsInv => NeverPartial
  BY DEF ResultsInv, NeverPartial, Sound
<1> QED
  BY <1>1, <1>2, <1>3, PTL DEF OutputSpec

\* Why the journal of the old file never meets a new one: it is gone once a process is about to rename.
SidecarInv == /\ step \in [Processes -> {"idle", "writing", "committed", "bare"}]
              /\ tmp \in [Processes -> Files \cup {Nothing}]
              /\ side \in {Old, Nothing}
              /\ \A p \in Processes : step[p] = "bare" => side = Nothing
              /\ out # Nothing => side \in {Nothing, out.by}

\* No step of a results writer brings the journal back, without power losses.
LEMMA SidecarStep == ASSUME Writer = "results", ~PowerFails, SidecarInv, [OutputNext]_outputVars
                     PROVE  SidecarInv'
<1>1. ASSUME NEW p \in Processes, Begin(p) PROVE SidecarInv'
  BY <1>1, FilesMade DEF SidecarInv, Begin, At
<1>2. ASSUME NEW p \in Processes, Finish(p) PROVE SidecarInv'
  BY <1>2, FilesMade DEF SidecarInv, Finish, At
<1>3. ASSUME NEW p \in Processes, RemoveDatabaseSidecars(p) PROVE SidecarInv'
  BY <1>3 DEF SidecarInv, RemoveDatabaseSidecars, At
<1>4. ASSUME NEW p \in Processes, RenameReplacing(p) PROVE SidecarInv'
  BY <1>4 DEF SidecarInv, RenameReplacing, At
<1>5. ASSUME NEW p \in Processes, Fails(p) PROVE SidecarInv'
  BY <1>5 DEF SidecarInv, Fails
<1>6. ASSUME NEW p \in Processes, Kill(p) PROVE SidecarInv'
  BY <1>6 DEF SidecarInv, Kill
<1>7. CASE UNCHANGED outputVars
  BY <1>7 DEF SidecarInv, outputVars
<1> QED
  BY <1>1, <1>2, <1>3, <1>4, <1>5, <1>6, <1>7 DEF OutputNext, LosePower, WriteBack

\* A new results file is never rolled back with the journal of the file it replaced, wherever its writers
\* fail or are killed.
THEOREM NewFileNotRolledBack == ASSUME Writer = "results", ~PowerFails
                                PROVE  OutputSpec => []NoForeignSidecar
<1>1. OutputInit => SidecarInv
  BY DEF OutputInit, SidecarInv, OldFile
<1>2. SidecarInv /\ [OutputNext]_outputVars => SidecarInv'
  BY SidecarStep
<1>3. SidecarInv => NoForeignSidecar
  BY DEF SidecarInv, NoForeignSidecar
<1> QED
  BY <1>1, <1>2, <1>3, PTL DEF OutputSpec
=============================================================================
