------------------------------ MODULE Pipeline ------------------------------
(***************************************************************************)
(* "dsigmatcher diff" as a series of runs over one output and one          *)
(* checkpoint directory: RunDiff, RunPipeline, CaptureCheckpoint and       *)
(* RestoreCheckpoint (Pipeline.cpp), the cursor of Checkpoint.h and its    *)
(* check when it is read back (Snapshot.cpp).                              *)
(*                                                                         *)
(* A run walks through the top-level steps of diff().  Each step changes   *)
(* the engine and is then offered to Save.  A run may be killed or fail    *)
(* anywhere; a later run may resume from the checkpoint, and walks through *)
(* the same code, which leaves out the steps the checkpoint covers.        *)
(*                                                                         *)
(* What a step computes is not modelled: the engine records which steps    *)
(* ran and what each of them could read.  The checkpoint directory is the  *)
(* one-cell store that CheckpointStore implements.                         *)
(***************************************************************************)
EXTENDS Naturals, Sequences

CONSTANTS Inputs,         \* what a checkpoint binds: the two databases, the options, the tool and SQLite versions
          Usable,         \* the inputs whose diff.version is there (StageCheckVersion)
          Skips,          \* the inputs for which apply_dirty_heuristics returns true
          Totals,         \* TotalMatchedFunctions after each cleanup of the loop, until it settles
          MaxIteration,   \* 1000000
          MaxFaults,      \* bound on kills, power losses and failures
          NoCheckpoint, Damaged, NoCursor, NoOutput

ASSUME PipelineConstants == /\ MaxFaults \in Nat /\ MaxIteration \in Nat
                            /\ Usable \subseteq Inputs /\ Skips \subseteq Inputs
                            /\ DOMAIN Totals = Inputs
                            /\ \A i \in Inputs : Totals[i] \in Seq(Nat) /\ Totals[i] # <<>>

\* Nothing runs between the cleanup at the bottom of an iteration and the one at the top of the next, and
\* a second cleanup changes nothing (CleanupIdempotent of Matching), so it leaves the total alone.
ASSUME CleanupsIdle ==
  \A i \in Inputs : \A k \in 1..Len(Totals[i]) :
    2 * k + 1 <= Len(Totals[i]) => Totals[i][2 * k + 1] = Totals[i][2 * k]

-----------------------------------------------------------------------------
(* enum class PipelineStep, in execution order *)

None                   == 0
EqualMatches           == 1
DirtyHeuristics        == 2
SameName               == 3
RemainingFunctions     == 4
BestCategory           == 5
PartialCategory        == 6
SmallDifferences       == 7
LoopCleanupTop         == 8
MatchesDiffing         == 9
RelatedMatches         == 10
RelatedCompilationUnit == 11
LocallyAffine          == 12
LoopCleanupBottom      == 13
FinalPass              == 14
FindUnmatched          == 15

\* Two more places of RunDiff, after RunPipeline, and no run at all.
WritingResults     == 16
RemovingCheckpoint == 17
Down               == 18

PipelineSteps == EqualMatches..FindUnmatched

IsLoopStep(s) == s \in LoopCleanupTop..LoopCleanupBottom

\* struct PipelineCursor
Cursors == [done : None..FindUnmatched, iteration : Nat, skip : BOOLEAN, oldTotal : Nat]

ASSUME NoCursorAssumption == NoCursor \notin Cursors

StartCursor == [done |-> None, iteration |-> 0, skip |-> FALSE, oldTotal |-> 0]

\* A place that diff() reaches.
Consistent(c) ==
  /\ c.done # None
  /\ ~(c.skip /\ (c.done < DirtyHeuristics \/ c.done \in BestCategory..LoopCleanupBottom))
  /\ ~(~c.skip /\ c.done = RemainingFunctions)
  /\ IsLoopStep(c.done) \/ c.iteration = 0

\* CursorFromJson refuses every other cursor, and with it the checkpoint.
ValidCursor(c) == Consistent(c) /\ c.iteration <= MaxIteration

-----------------------------------------------------------------------------
(* The engine state of a session *)

\* work: the matches, their indexes, the flags and totals, and the hook's dones, as the sequence of
\* steps that produced them, each with what it could read; cleanups: how many cleanups of the loop are
\* among them, which decides the total; cache: the ratios cache; choosers, unmatched: what final_pass
\* and find_unmatched left for the results file; prepared: RatioEngine::Prepare has run.
FreshEngine == [work |-> <<>>, cleanups |-> 0, cache |-> 0, choosers |-> <<>>, unmatched |-> <<>>,
                prepared |-> FALSE]

\* Step s, in loop iteration k, runs on engine e.
Ran(e, s, k) == LET w == Append(e.work, <<s, k, e.cache, e.prepared>>)
                IN  [work      |-> w,
                     cleanups  |-> IF s \in {LoopCleanupTop, LoopCleanupBottom} THEN e.cleanups + 1 ELSE e.cleanups,
                     cache     |-> e.cache + 1,
                     choosers  |-> IF s = FinalPass THEN w ELSE e.choosers,
                     unmatched |-> IF s = FindUnmatched THEN w ELSE e.unmatched,
                     prepared  |-> e.prepared]

Prepared(e) == [work |-> e.work, cleanups |-> e.cleanups, cache |-> e.cache, choosers |-> e.choosers,
                unmatched |-> e.unmatched, prepared |-> TRUE]

\* CaptureCheckpoint: the choosers and the unmatched lists only once their step is done.  What Prepare
\* computed is not saved.
Captured(e, c) == [work |-> e.work, cleanups |-> e.cleanups, cache |-> e.cache,
                   choosers  |-> IF c.done >= FinalPass THEN e.choosers ELSE <<>>,
                   unmatched |-> IF c.done >= FindUnmatched THEN e.unmatched ELSE <<>>,
                   prepared  |-> FALSE]

\* What WriteDiaphoraResults takes from the session.
Results(e) == [choosers |-> e.choosers, unmatched |-> e.unmatched]

-----------------------------------------------------------------------------
VARIABLES inputs,     \* the inputs as they are now
          cell,       \* the checkpoint directory, and what a power loss would leave of it
          safe,
          out,        \* the results file, with the inputs it was made from
          pc,         \* the step that comes next in RunDiff
          saving,     \* the run has a checkpoint directory
          resume,     \* Checkpointing->ResumeFrom
          cursor,     \* Cursor of RunPipeline
          skipOthers, iteration, loopDone, oldTotal,   \* its locals
          eng,        \* the session
          faults      \* kills, power losses and failures so far

store == <<cell, safe>>
locals == <<skipOthers, iteration, loopDone, oldTotal>>
run == <<pc, saving, resume, cursor, locals, eng>>
vars == <<inputs, store, out, run, faults>>

\* No run: what its memory held is gone.
Ended == /\ pc' = Down
         /\ saving' = FALSE /\ resume' = NoCursor /\ cursor' = StartCursor
         /\ skipOthers' = FALSE /\ iteration' = 0 /\ loopDone' = None /\ oldTotal' = 0
         /\ eng' = FreshEngine

Init == /\ inputs \in Inputs
        /\ cell = NoCheckpoint /\ safe = NoCheckpoint
        /\ out = NoOutput
        /\ pc = Down
        /\ saving = FALSE /\ resume = NoCursor /\ cursor = StartCursor
        /\ skipOthers = FALSE /\ iteration = 0 /\ loopDone = None /\ oldTotal = 0
        /\ eng = FreshEngine
        /\ faults = 0

-----------------------------------------------------------------------------
(* The start of RunDiff *)

\* A run without --resume.  With a checkpoint directory it is refused when that holds a checkpoint.
StartFresh(withStore) ==
  /\ pc = Down
  /\ withStore => cell = NoCheckpoint
  /\ pc' = IF inputs \in Usable THEN EqualMatches ELSE WritingResults
  /\ saving' = withStore
  /\ resume' = NoCursor /\ cursor' = StartCursor /\ eng' = FreshEngine
  /\ UNCHANGED <<inputs, store, out, locals, faults>>

\* Mutant: the binding of the checkpoint is not compared.
StartResumeUnbound ==
  /\ pc = Down
  /\ cell \notin {NoCheckpoint, Damaged}
  /\ ValidCursor(cell.cursor)
  /\ pc' = DirtyHeuristics
  /\ saving' = TRUE
  /\ resume' = cell.cursor /\ cursor' = cell.cursor
  /\ skipOthers' = cell.cursor.skip
  /\ eng' = cell.saved
  /\ UNCHANGED <<inputs, store, out, iteration, loopDone, oldTotal, faults>>

\* A run with --resume: RestoreCheckpoint, then RunPipeline past its first block.  Refused when there is
\* no checkpoint, when it is damaged, when its cursor is not one diff() can reach, or when it was made
\* for other inputs.
StartResume ==
  /\ pc = Down
  /\ cell \notin {NoCheckpoint, Damaged}
  /\ ValidCursor(cell.cursor)
  /\ cell.binding = inputs
  /\ pc' = DirtyHeuristics
  /\ saving' = TRUE
  /\ resume' = cell.cursor /\ cursor' = cell.cursor
  /\ skipOthers' = cell.cursor.skip
  /\ eng' = cell.saved
  /\ UNCHANGED <<inputs, store, out, iteration, loopDone, oldTotal, faults>>

-----------------------------------------------------------------------------
(* RunPipeline *)

Done(s) == resume # NoCursor /\ resume.done >= s

\* Mutant: the step the checkpoint was made after runs again.
PendingAgain(s) == loopDone <= s

Pending(s) == loopDone < s

\* Save, after Cursor.Done = s: the checkpoint replaces the previous one, or cannot be written and the
\* previous one stays.
Save(c, e) ==
  /\ cursor' = c
  /\ eng' = e
  /\ \/ UNCHANGED <<store, faults>> /\ ~saving
     \/ saving /\ faults < MaxFaults /\ faults' = faults + 1 /\ UNCHANGED store
     \/ /\ saving
        /\ cell' = [binding |-> inputs, cursor |-> c, saved |-> Captured(e, c)]
        /\ safe' = cell'
        /\ UNCHANGED faults

\* Step s runs and is saved.
Runs(s) == Save([cursor EXCEPT !.done = s], Ran(eng, s, iteration))

NotRun == UNCHANGED <<cursor, eng, store, faults>>

StageEqualMatches ==
  /\ pc = EqualMatches
  /\ Runs(EqualMatches)
  /\ skipOthers' = cursor'.skip
  /\ pc' = DirtyHeuristics
  /\ UNCHANGED <<inputs, out, saving, resume, iteration, loopDone, oldTotal>>

\* IsSameProcessor, Prepare and the dirty heuristics; a run that has them behind it only prepares.
StageDirtyHeuristics ==
  /\ pc = DirtyHeuristics
  /\ IF Done(DirtyHeuristics)
       THEN /\ eng' = Prepared(eng)
            /\ UNCHANGED <<skipOthers, cursor, store, faults>>
       ELSE /\ skipOthers' = (inputs \in Skips)
            /\ Save([done |-> DirtyHeuristics, iteration |-> cursor.iteration, skip |-> (inputs \in Skips),
                     oldTotal |-> cursor.oldTotal],
                    Ran(Prepared(eng), DirtyHeuristics, iteration))
  /\ pc' = SameName
  /\ UNCHANGED <<inputs, out, saving, resume, iteration, loopDone, oldTotal>>

\* A pre-loop step that comes after the dirty heuristics.
Stage(s, next) ==
  /\ pc = s
  /\ IF Done(s) THEN NotRun ELSE Runs(s)
  /\ pc' = next
  /\ UNCHANGED <<inputs, out, saving, resume, locals>>

StageSameName == Stage(SameName, IF skipOthers THEN RemainingFunctions ELSE BestCategory)
StageRemainingFunctions == Stage(RemainingFunctions, FinalPass)
StageBestCategory == Stage(BestCategory, PartialCategory)
StagePartialCategory == Stage(PartialCategory, SmallDifferences)

\* The last step before the loop, and the entry of the loop, unless the final pass is already done.
StageSmallDifferences ==
  /\ pc = SmallDifferences
  /\ IF Done(SmallDifferences) THEN NotRun ELSE Runs(SmallDifferences)
  /\ LET inLoop == resume # NoCursor /\ IsLoopStep(resume.done)
     IN  IF Done(FinalPass)
           THEN pc' = FinalPass /\ UNCHANGED <<iteration, loopDone, oldTotal>>
           ELSE /\ pc' = LoopCleanupTop
                /\ iteration' = IF inLoop THEN resume.iteration ELSE 0
                /\ loopDone' = IF inLoop THEN resume.done ELSE None
                /\ oldTotal' = cursor.oldTotal
  /\ UNCHANGED <<inputs, out, saving, resume, skipOthers>>

\* The total after the cleanups of the loop that have run on engine e.
TotalMatchedFunctions(e) ==
  LET totals == Totals[inputs]
  IN  IF e.cleanups = 0 THEN 0 ELSE totals[IF e.cleanups <= Len(totals) THEN e.cleanups ELSE Len(totals)]

\* cleanup_matches at the top of iteration `iteration`.
StageLoopCleanupTop ==
  /\ pc = LoopCleanupTop
  /\ IF Pending(LoopCleanupTop)
       THEN LET e == Ran(eng, LoopCleanupTop, iteration)
            IN  /\ oldTotal' = TotalMatchedFunctions(e)
                /\ Save([done |-> LoopCleanupTop, iteration |-> iteration, skip |-> cursor.skip,
                         oldTotal |-> TotalMatchedFunctions(e)], e)
       ELSE /\ cursor' = [cursor EXCEPT !.iteration = iteration]
            /\ UNCHANGED <<oldTotal, eng, store, faults>>
  /\ pc' = MatchesDiffing
  /\ UNCHANGED <<inputs, out, saving, resume, skipOthers, iteration, loopDone>>

\* Mutant: a stage that is left out does not hand on to the next one.
LoopStageWaits(s) ==
  /\ pc = s
  /\ IF Pending(s) THEN Runs(s) ELSE NotRun
  /\ pc' = IF Pending(s) THEN s + 1 ELSE s
  /\ UNCHANGED <<inputs, out, saving, resume, locals>>

\* A stage of the convergence loop.
LoopStage(s) ==
  /\ pc = s
  /\ IF Pending(s) THEN Runs(s) ELSE NotRun
  /\ pc' = s + 1
  /\ UNCHANGED <<inputs, out, saving, resume, locals>>

StageMatchesDiffing == LoopStage(MatchesDiffing)
StageRelatedMatches == LoopStage(RelatedMatches)
StageRelatedCompilationUnit == LoopStage(RelatedCompilationUnit)
StageLocallyAffine == LoopStage(LocallyAffine)

\* Mutant: the next iteration still leaves out what the checkpoint covered.
LoopCleanupBottomSticky ==
  /\ pc = LoopCleanupBottom
  /\ IF Pending(LoopCleanupBottom) THEN Runs(LoopCleanupBottom) ELSE NotRun
  /\ IF TotalMatchedFunctions(eng') <= oldTotal
       THEN pc' = FinalPass /\ UNCHANGED iteration
       ELSE pc' = LoopCleanupTop /\ iteration' = iteration + 1
  /\ UNCHANGED <<inputs, out, saving, resume, skipOthers, loopDone, oldTotal>>

\* cleanup_matches at the bottom, and the test whether this iteration matched more functions.
StageLoopCleanupBottom ==
  /\ pc = LoopCleanupBottom
  /\ IF Pending(LoopCleanupBottom) THEN Runs(LoopCleanupBottom) ELSE NotRun
  /\ loopDone' = None
  /\ IF TotalMatchedFunctions(eng') <= oldTotal
       THEN pc' = FinalPass /\ UNCHANGED iteration
       ELSE pc' = LoopCleanupTop /\ iteration' = iteration + 1
  /\ UNCHANGED <<inputs, out, saving, resume, skipOthers, oldTotal>>

\* Mutant: the cursor keeps the iteration of the loop.
FinalPassInLoop ==
  /\ pc = FinalPass
  /\ IF Done(FinalPass) THEN NotRun
     ELSE Save([cursor EXCEPT !.done = FinalPass], Ran(eng, FinalPass, 0))
  /\ iteration' = 0
  /\ pc' = FindUnmatched
  /\ UNCHANGED <<inputs, out, saving, resume, skipOthers, loopDone, oldTotal>>

\* Cursor.Iteration is 0 again from here on.
StageFinalPass ==
  /\ pc = FinalPass
  /\ IF Done(FinalPass)
       THEN /\ cursor' = [cursor EXCEPT !.iteration = 0]
            /\ UNCHANGED <<eng, store, faults>>
       ELSE Save([done |-> FinalPass, iteration |-> 0, skip |-> cursor.skip, oldTotal |-> cursor.oldTotal],
                 Ran(eng, FinalPass, 0))
  /\ iteration' = 0
  /\ pc' = FindUnmatched
  /\ UNCHANGED <<inputs, out, saving, resume, skipOthers, loopDone, oldTotal>>

StageFindUnmatched == Stage(FindUnmatched, WritingResults)

-----------------------------------------------------------------------------
(* The end of RunDiff *)

\* WriteDiaphoraResults renames the complete file over the output.
WriteResults ==
  /\ pc = WritingResults
  /\ out' = [inputs |-> inputs, results |-> Results(eng)]
  /\ IF saving
       THEN pc' = RemovingCheckpoint /\ UNCHANGED <<saving, resume, cursor, locals, eng>>
       ELSE Ended
  /\ UNCHANGED <<inputs, store, faults>>

\* CheckpointStore::Remove, unsynced.
RemoveCheckpoint ==
  /\ pc = RemovingCheckpoint
  /\ cell' = NoCheckpoint
  /\ Ended
  /\ UNCHANGED <<inputs, safe, out, faults>>

\* The run is killed, a step raises, the results cannot be written, or Remove fails.
Stop ==
  /\ pc # Down
  /\ faults < MaxFaults
  /\ faults' = faults + 1
  /\ Ended
  /\ UNCHANGED <<inputs, store, out>>

\* The directory's content as CheckpointCell allows it after a power loss.
PowerLoss ==
  /\ faults < MaxFaults
  /\ faults' = faults + 1
  /\ \/ cell' \in {cell, safe}
     \/ cell = NoCheckpoint /\ safe # NoCheckpoint /\ cell' = Damaged
  /\ safe' = cell'
  /\ Ended
  /\ UNCHANGED <<inputs, out>>

\* Between two runs an input is exported again, or the next command line has other options.
InputsChange ==
  /\ pc = Down
  /\ inputs' \in Inputs \ {inputs}
  /\ UNCHANGED <<store, out, run, faults>>

\* The user deletes the checkpoint.
UserDiscards ==
  /\ pc = Down
  /\ cell # NoCheckpoint
  /\ cell' = NoCheckpoint /\ safe' = NoCheckpoint
  /\ UNCHANGED <<inputs, out, run, faults>>

\* What the running process does.
RunStep == \/ StageEqualMatches \/ StageDirtyHeuristics \/ StageSameName \/ StageRemainingFunctions
           \/ StageBestCategory \/ StagePartialCategory \/ StageSmallDifferences
           \/ StageLoopCleanupTop \/ StageMatchesDiffing \/ StageRelatedMatches
           \/ StageRelatedCompilationUnit \/ StageLocallyAffine \/ StageLoopCleanupBottom
           \/ StageFinalPass \/ StageFindUnmatched
           \/ WriteResults \/ RemoveCheckpoint

Next == \/ \E withStore \in BOOLEAN : StartFresh(withStore)
        \/ StartResume
        \/ RunStep
        \/ Stop \/ PowerLoss \/ InputsChange \/ UserDiscards

\* A process that is not killed goes on: RunPipeline is one thread that waits for nobody.
Spec == Init /\ [][Next]_vars /\ WF_vars(RunStep)

-----------------------------------------------------------------------------
(* Properties *)

Entries == PipelineSteps \X Nat \X Nat \X BOOLEAN

Engines == [work : Seq(Entries), cleanups : Nat, cache : Nat, choosers : Seq(Entries), unmatched : Seq(Entries),
            prepared : BOOLEAN]

Checkpoints == [binding : Inputs, cursor : Cursors, saved : Engines]

\* The type invariant.
TypeOK == /\ inputs \in Inputs
          /\ cell \in {NoCheckpoint, Damaged} \/ cell \in Checkpoints
          /\ safe \in {NoCheckpoint, Damaged} \/ safe \in Checkpoints
          /\ pc \in EqualMatches..Down
          /\ saving \in BOOLEAN /\ skipOthers \in BOOLEAN
          /\ resume = NoCursor \/ resume \in Cursors
          /\ cursor \in Cursors /\ eng \in Engines
          /\ iteration \in Nat /\ loopDone \in None..FindUnmatched /\ oldTotal \in Nat
          /\ faults \in 0..MaxFaults

Uninterrupted == INSTANCE UninterruptedDiff

\* CursorFromJson refuses a checkpoint that RunPipeline saved for one reason only, over any chain of
\* resumed runs: its iteration is past MaxIteration.  RunPipeline has no such cap; what keeps a real diff
\* below it is that every iteration but the last matches at least one function more, so that the
\* iteration never passes the total the cursor holds.
SavedCursorsAccepted == cell \notin {NoCheckpoint, Damaged} =>
                          /\ \/ ValidCursor(cell.cursor)
                             \/ Consistent(cell.cursor) /\ cell.cursor.iteration > MaxIteration
                          /\ cell.cursor.iteration <= cell.cursor.oldTotal

\* A checkpoint is a state of the uninterrupted diff of the inputs it is bound to, and its cursor says
\* which one, however many kills, resumes, lost saves and power losses led to it (Checkpoint.h: "the
\* engine state after that stage").
CheckpointOnPath ==
  cell \notin {NoCheckpoint, Damaged} =>
    LET n == Len(cell.saved.work)
        path == Uninterrupted!Work(cell.binding)
    IN  /\ n > 0 /\ cell.saved.work = SubSeq(path, 1, n)
        /\ cell.cursor.done = path[n][1] /\ cell.cursor.iteration = path[n][2]

\* Does step s of iteration k come after what cursor c covers?
Beyond(s, k, c) == IF IsLoopStep(s) /\ IsLoopStep(c.done)
                     THEN k > c.iteration \/ (k = c.iteration /\ s > c.done)
                     ELSE s > c.done

\* README "The stages that were saved are not run again": a resumed run only runs steps beyond the
\* checkpoint it started from.
SavedStagesNotRepeated ==
  [][resume # NoCursor /\ Len(eng'.work) > Len(eng.work)
       => LET last == eng'.work[Len(eng'.work)] IN Beyond(last[1], last[2], resume)]_vars

\* README "it holds the same rows as an uninterrupted run would write": at the output there is nothing,
\* or the complete results of the uninterrupted diff of some inputs.
SameAsUninterrupted == Uninterrupted!DiffSpec

\* A run that is not killed comes to an end: the convergence loop is left, also when it is entered in
\* the middle, from a checkpoint.
RunEnds == (pc # Down) ~> (pc = Down)
=============================================================================
