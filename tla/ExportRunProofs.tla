--------------------------- MODULE ExportRunProofs ---------------------------
(***************************************************************************)
(* Proofs about ExportRun, for any contents of the input and any number of *)
(* signals and edits: the types, what is left running, which process group *)
(* is signalled, what a success means and what becomes of the sidecars.    *)
(***************************************************************************)
EXTENDS ExportRun, TLAPS

\* A step keeps the types.
LEMMA TypeStep == TypeOK /\ [Next]_vars => TypeOK'
<1> SUFFICES ASSUME TypeOK, [Next]_vars PROVE TypeOK'
  OBVIOUS
<1> USE DEF TypeOK, Handled, Live, Dead
<1>1. CASE Spawn
  BY <1>1 DEF Spawn, At, loop, world, files, group
<1>2. CASE SpawnFails
  BY <1>2 DEF SpawnFails, At, loop, world, files, group
<1>3. CASE SeesExit
  BY <1>3 DEF SeesExit, At, loop, world, files, group
<1>4. CASE ReadPending
  BY <1>4 DEF ReadPending, At, loop, world, files, group
<1>5. CASE ClearPending
  BY <1>5 DEF ClearPending, At, loop, world, files, group
<1>6. CASE SendPending
  BY <1>6 DEF SendPending, At, SignalGroup, loop, world, files, group
<1>7. CASE Sleep
  BY <1>7 DEF Sleep, At, loop, world, files, group
<1>8. CASE Deadline
  BY <1>8 DEF Deadline, At, SignalGroup, loop, world, files, group
<1>9. CASE GraceEnds
  BY <1>9 DEF GraceEnds, At, loop, world, files, group
<1>10. CASE KillGroup
  BY <1>10 DEF KillGroup, At, SignalGroup, loop, world, files, group
<1>11. CASE Reap
  BY <1>11 DEF Reap, At, loop, world, files, group
<1>12. CASE Finish
  BY <1>12 DEF Finish, At, Verdict, loop, world, files, group
<1>13. CASE InstallHandler
  BY <1>13 DEF InstallHandler, Script, ScriptRest, loop, world, files
<1>14. CASE Refuses
  BY <1>14 DEF Refuses, Script, ScriptRest, loop, world, files
<1>15. CASE MakeWorkDirectory
  BY <1>15 DEF MakeWorkDirectory, Script, ScriptRest, loop, world, files
<1>16. CASE StartWatch
  BY <1>16 DEF StartWatch, Script, ScriptRest, loop, world, files
<1>17. CASE HashInput
  BY <1>17 DEF HashInput, Script, ScriptRest, loop, world, files
<1>18. CASE CopyInput
  BY <1>18 DEF CopyInput, Leaves, ScriptRest, loop, world, files
<1>19. CASE StartWorker
  BY <1>19 DEF StartWorker, Script, ScriptRest, loop, world, files
<1>20. CASE SetWatchWorker
  BY <1>20 DEF SetWatchWorker, Leaves, ScriptRest, loop, world, files
<1>21. CASE WorkerEnded
  BY <1>21 DEF WorkerEnded, Script, ScriptRest, loop, world, files
<1>22. CASE WaitTimesOut
  BY <1>22 DEF WaitTimesOut, Leaves, ScriptRest, loop, world, files
<1>23. CASE CheckExport
  BY <1>23 DEF CheckExport, Leaves, LauncherGone, ScriptRest, loop, world, files
<1>24. CASE CheckLauncher
  BY <1>24 DEF CheckLauncher, Leaves, LauncherGone, ScriptRest, loop, world, files
<1>25. CASE Stage
  BY <1>25 DEF Stage, Script, ScriptRest, loop, world, files
<1>26. CASE MoveAside
  BY <1>26 DEF MoveAside, Script, ScriptRest, loop, world, files
<1>27. CASE Replace
  BY <1>27 DEF Replace, Script, ScriptRest, loop, world, files
<1>28. CASE PublishFails
  BY <1>28 DEF PublishFails, Leaves, ScriptRest, loop, world, files
<1>29. CASE DropAside
  BY <1>29 DEF DropAside, Script, ScriptRest, loop, world, files
<1>30. CASE WriteRecord
  BY <1>30 DEF WriteRecord, Leaves, ScriptRest, loop, world, files
<1>31. CASE Raises
  BY <1>31 DEF Raises, Leaves, ScriptRest, loop, world, files
<1>32. CASE Interrupted
  <2>1. script' \in {"finally", "exited"} /\ interrupt' \in BOOLEAN /\ code' = "interrupted"
    BY <1>32 DEF Interrupted
  <2> QED
    BY <1>32, <2>1 DEF Interrupted, ScriptRest, loop, world, files
<1>33. CASE KillWorker
  BY <1>33 DEF KillWorker, Script, ScriptRest, loop, world, files
<1>34. CASE RemoveTree
  BY <1>34 DEF RemoveTree, Script, ScriptRest, loop, world, files
<1>35. CASE WatchNotices
  BY <1>35 DEF WatchNotices, ScriptRest, loop, world, files
<1>36. CASE WorkerEnds
  BY <1>36 DEF WorkerEnds, ScriptRest, loop, world, files
<1>37. CASE ScriptDies
  BY <1>37 DEF ScriptDies, ScriptRest, loop, world, files
<1>38. CASE LauncherDies
  BY <1>38 DEF LauncherDies, loop, world, files, group
<1>39. CASE TimePasses
  BY <1>39 DEF TimePasses, loop, world, files, group
<1>40. CASE IdReused
  BY <1>40 DEF IdReused, loop, world, files, group
<1>41. CASE InputEdited
  BY <1>41, ExportConstants DEF InputEdited, loop, world, files, group
<1>42. CASE \E sig \in {"INT", "TERM", "HUP"} : UserSignals(sig)
  BY <1>42, ExportConstants DEF UserSignals, group, files
<1>43. CASE UNCHANGED vars
  BY <1>43 DEF vars, loop, group, world, files
<1> QED
  BY <1>1, <1>2, <1>3, <1>4, <1>5, <1>6, <1>7, <1>8, <1>9, <1>10, <1>11, <1>12, <1>13, <1>14, <1>15, <1>16, <1>17,
     <1>18, <1>19, <1>20, <1>21, <1>22, <1>23, <1>24, <1>25, <1>26, <1>27, <1>28, <1>29, <1>30, <1>31, <1>32,
     <1>33, <1>34, <1>35, <1>36, <1>37, <1>38, <1>39, <1>40, <1>41, <1>42, <1>43
     DEF Next, LauncherStep, ScriptStep

\* RunExport and dsig_export.py keep to the types.
THEOREM TypeCorrect == Spec => []TypeOK
<1>1. Init => TypeOK
  <2>1. 0 \in 0..MaxEdits /\ 0 \in 0..MaxSignals
    BY ExportConstants
  <2>2. Init => before \in (Contents \cup {Old}) \X (0..MaxEdits)
    BY <2>1 DEF Init
  <2>3. Init => /\ late \in BOOLEAN /\ timedOut \in BOOLEAN /\ reaped \in BOOLEAN /\ stranger \in BOOLEAN
                /\ hit \in BOOLEAN /\ interrupt \in BOOLEAN /\ known \in BOOLEAN /\ told \in BOOLEAN /\ work \in BOOLEAN
    BY DEF Init
  <2> QED
    BY <2>1, <2>2, <2>3 DEF Init, TypeOK, Handled, Live, Dead
<1> QED
  BY <1>1, TypeStep, PTL DEF Spec

-----------------------------------------------------------------------------
(* The processes *)

\* Before the spawn there is nothing.
NothingYet == launcher = "start" => script = "none" /\ worker = "none"

\* From the final kill on nothing of the group runs, and there is no script that could start a worker.
GroupEnded == launcher \in {"reaping", "checking", "done"} => script \notin Live /\ worker # "running"

\* The id can only change hands once no signal is sent any more.
IdKept == /\ reaped => launcher \in {"checking", "done", "dead"}
          /\ stranger => reaped
          /\ ~hit

Processes == NothingYet /\ GroupEnded /\ IdKept

\* A step keeps the processes in order.
LEMMA ProcessesStep == TypeOK /\ Processes /\ [Next]_vars => Processes'
<1> SUFFICES ASSUME TypeOK /\ Processes, [Next]_vars PROVE Processes'
  OBVIOUS
<1> USE DEF Processes, NothingYet, GroupEnded, IdKept, Live, Dead, Handled, TypeOK
<1>1. CASE Spawn
  BY <1>1 DEF Spawn, At, loop, world, files, group
<1>2. CASE SpawnFails
  BY <1>2 DEF SpawnFails, At, loop, world, files, group
<1>3. CASE SeesExit
  BY <1>3 DEF SeesExit, At, loop, world, files, group
<1>4. CASE ReadPending
  BY <1>4 DEF ReadPending, At, loop, world, files, group
<1>5. CASE ClearPending
  BY <1>5 DEF ClearPending, At, loop, world, files, group
<1>6. CASE SendPending
  BY <1>6 DEF SendPending, At, SignalGroup, loop, world, files, group
<1>7. CASE Sleep
  BY <1>7 DEF Sleep, At, loop, world, files, group
<1>8. CASE Deadline
  BY <1>8 DEF Deadline, At, SignalGroup, loop, world, files, group
<1>9. CASE GraceEnds
  BY <1>9 DEF GraceEnds, At, loop, world, files, group
<1>10. CASE KillGroup
  BY <1>10 DEF KillGroup, At, SignalGroup, loop, world, files, group
<1>11. CASE Reap
  BY <1>11 DEF Reap, At, loop, world, files, group
<1>12. CASE Finish
  BY <1>12 DEF Finish, At, Verdict, loop, world, files, group
<1>13. CASE InstallHandler
  BY <1>13 DEF InstallHandler, Script, ScriptRest, loop, world, files
<1>14. CASE Refuses
  BY <1>14 DEF Refuses, Script, ScriptRest, loop, world, files
<1>15. CASE MakeWorkDirectory
  BY <1>15 DEF MakeWorkDirectory, Script, ScriptRest, loop, world, files
<1>16. CASE StartWatch
  BY <1>16 DEF StartWatch, Script, ScriptRest, loop, world, files
<1>17. CASE HashInput
  BY <1>17 DEF HashInput, Script, ScriptRest, loop, world, files
<1>18. CASE CopyInput
  BY <1>18 DEF CopyInput, Leaves, ScriptRest, loop, world, files
<1>19. CASE StartWorker
  BY <1>19 DEF StartWorker, Script, ScriptRest, loop, world, files
<1>20. CASE SetWatchWorker
  BY <1>20 DEF SetWatchWorker, Leaves, ScriptRest, loop, world, files
<1>21. CASE WorkerEnded
  BY <1>21 DEF WorkerEnded, Script, ScriptRest, loop, world, files
<1>22. CASE WaitTimesOut
  BY <1>22 DEF WaitTimesOut, Leaves, ScriptRest, loop, world, files
<1>23. CASE CheckExport
  BY <1>23 DEF CheckExport, Leaves, LauncherGone, ScriptRest, loop, world, files
<1>24. CASE CheckLauncher
  BY <1>24 DEF CheckLauncher, Leaves, LauncherGone, ScriptRest, loop, world, files
<1>25. CASE Stage
  BY <1>25 DEF Stage, Script, ScriptRest, loop, world, files
<1>26. CASE MoveAside
  BY <1>26 DEF MoveAside, Script, ScriptRest, loop, world, files
<1>27. CASE Replace
  BY <1>27 DEF Replace, Script, ScriptRest, loop, world, files
<1>28. CASE PublishFails
  BY <1>28 DEF PublishFails, Leaves, ScriptRest, loop, world, files
<1>29. CASE DropAside
  BY <1>29 DEF DropAside, Script, ScriptRest, loop, world, files
<1>30. CASE WriteRecord
  BY <1>30 DEF WriteRecord, Leaves, ScriptRest, loop, world, files
<1>31. CASE Raises
  BY <1>31 DEF Raises, Leaves, ScriptRest, loop, world, files
<1>32. CASE Interrupted
  BY <1>32 DEF Interrupted, Try, ScriptRest, loop, world, files
<1>33. CASE KillWorker
  BY <1>33 DEF KillWorker, Script, ScriptRest, loop, world, files
<1>34. CASE RemoveTree
  BY <1>34 DEF RemoveTree, Script, ScriptRest, loop, world, files
<1>35. CASE WatchNotices
  BY <1>35 DEF WatchNotices, ScriptRest, loop, world, files
<1>36. CASE WorkerEnds
  BY <1>36 DEF WorkerEnds, ScriptRest, loop, world, files
<1>37. CASE ScriptDies
  BY <1>37 DEF ScriptDies, ScriptRest, loop, world, files
<1>38. CASE LauncherDies
  BY <1>38 DEF LauncherDies, loop, world, files, group
<1>39. CASE TimePasses
  BY <1>39 DEF TimePasses, loop, world, files, group
<1>40. CASE IdReused
  BY <1>40 DEF IdReused, loop, world, files, group
<1>41. CASE InputEdited
  BY <1>41 DEF InputEdited, loop, world, files, group
<1>42. CASE \E sig \in {"INT", "TERM", "HUP"} : UserSignals(sig)
  BY <1>42 DEF UserSignals, group, files
<1>43. CASE UNCHANGED vars
  BY <1>43 DEF vars, loop, group, world, files
<1> QED
  BY <1>1, <1>2, <1>3, <1>4, <1>5, <1>6, <1>7, <1>8, <1>9, <1>10, <1>11, <1>12, <1>13, <1>14, <1>15, <1>16, <1>17,
     <1>18, <1>19, <1>20, <1>21, <1>22, <1>23, <1>24, <1>25, <1>26, <1>27, <1>28, <1>29, <1>30, <1>31, <1>32,
     <1>33, <1>34, <1>35, <1>36, <1>37, <1>38, <1>39, <1>40, <1>41, <1>42, <1>43
     DEF Next, LauncherStep, ScriptStep

\* RunProcess keeps its processes in order in every behaviour.
LEMMA ProcessesAlways == Spec => []Processes
<1>1. Init => Processes
  BY DEF Init, Processes, NothingYet, GroupEnded, IdKept, Live
<1> QED
  BY <1>1, ProcessesStep, TypeCorrect, PTL DEF Spec

\* RunProcess: when the command has returned, neither the script nor a worker is running.
THEOREM GroupIsGone == Spec => []NothingLeftRunning
<1>1. Processes => NothingLeftRunning
  BY DEF Processes, GroupEnded, NothingLeftRunning
<1> QED
  BY <1>1, ProcessesAlways, PTL

\* RunProcess: no signal goes to a process group that got the script's id after it.
THEOREM OwnGroupOnly == Spec => []OnlyOwnGroupSignalled
<1>1. Processes => OnlyOwnGroupSignalled
  BY DEF Processes, IdKept, OnlyOwnGroupSignalled
<1> QED
  BY <1>1, ProcessesAlways, PTL

-----------------------------------------------------------------------------
(* The files *)

\* The output is replaced by one step of the script only, ...
Unpublished == script \in (Live \ {"drop", "record", "finally", "remove"}) \cup {"none"} => out = Old

\* ... at which the sidecars are out of the way.
SidecarsAway == script = "replace" \/ out # Old => side # "there"

\* The work copy is the input as it was hashed.
CopyIsInput == script \in {"start", "owned", "wait", "after", "check", "publish", "aside", "replace", "drop", "record"}
                 => copy = before[1]

\* So the record names one content for input and output.
RecordTrue == record # Old => record.input = record.output

\* What the launcher has compared does not change any more.
ResultHolds == result = "ok" => launcher = "done" /\ SuccessIsFaithful

FilesInOrder == Unpublished /\ SidecarsAway /\ CopyIsInput /\ RecordTrue /\ ResultHolds

\* A step keeps the files in order.
LEMMA FilesStep == TypeOK /\ Processes /\ FilesInOrder /\ [Next]_vars => FilesInOrder'
<1> SUFFICES ASSUME TypeOK /\ Processes /\ FilesInOrder, [Next]_vars PROVE FilesInOrder'
  OBVIOUS
<1> USE DEF Processes, GroupEnded, FilesInOrder, Unpublished, SidecarsAway, CopyIsInput, RecordTrue,
           ResultHolds, SuccessIsFaithful, Live, Dead, Handled, TypeOK
<1>1. CASE Spawn
  BY <1>1 DEF NothingYet, Spawn, At, loop, world, files, group
<1>2. CASE SpawnFails
  BY <1>2 DEF SpawnFails, At, loop, world, files, group
<1>3. CASE SeesExit
  BY <1>3 DEF SeesExit, At, loop, world, files, group
<1>4. CASE ReadPending
  BY <1>4 DEF ReadPending, At, loop, world, files, group
<1>5. CASE ClearPending
  BY <1>5 DEF ClearPending, At, loop, world, files, group
<1>6. CASE SendPending
  BY <1>6 DEF SendPending, At, SignalGroup, loop, world, files, group
<1>7. CASE Sleep
  BY <1>7 DEF Sleep, At, loop, world, files, group
<1>8. CASE Deadline
  BY <1>8 DEF Deadline, At, SignalGroup, loop, world, files, group
<1>9. CASE GraceEnds
  BY <1>9 DEF GraceEnds, At, loop, world, files, group
<1>10. CASE KillGroup
  BY <1>10 DEF KillGroup, At, SignalGroup, loop, world, files, group
<1>11. CASE Reap
  BY <1>11 DEF Reap, At, loop, world, files, group
<1>12. CASE Finish
  BY <1>12, ExportConstants DEF Finish, At, Verdict, loop, world, files, group
<1>13. CASE InstallHandler
  BY <1>13 DEF InstallHandler, Script, ScriptRest, loop, world, files
<1>14. CASE Refuses
  BY <1>14 DEF Refuses, Script, ScriptRest, loop, world, files
<1>15. CASE MakeWorkDirectory
  BY <1>15 DEF MakeWorkDirectory, Script, ScriptRest, loop, world, files
<1>16. CASE StartWatch
  BY <1>16 DEF StartWatch, Script, ScriptRest, loop, world, files
<1>17. CASE HashInput
  BY <1>17 DEF HashInput, Script, ScriptRest, loop, world, files
<1>18. CASE CopyInput
  BY <1>18 DEF CopyInput, Leaves, ScriptRest, loop, world, files
<1>19. CASE StartWorker
  BY <1>19 DEF StartWorker, Script, ScriptRest, loop, world, files
<1>20. CASE SetWatchWorker
  BY <1>20 DEF SetWatchWorker, Leaves, ScriptRest, loop, world, files
<1>21. CASE WorkerEnded
  BY <1>21 DEF WorkerEnded, Script, ScriptRest, loop, world, files
<1>22. CASE WaitTimesOut
  BY <1>22 DEF WaitTimesOut, Leaves, ScriptRest, loop, world, files
<1>23. CASE CheckExport
  BY <1>23 DEF CheckExport, Leaves, LauncherGone, ScriptRest, loop, world, files
<1>24. CASE CheckLauncher
  BY <1>24 DEF CheckLauncher, Leaves, LauncherGone, ScriptRest, loop, world, files
<1>25. CASE Stage
  BY <1>25 DEF Stage, Script, ScriptRest, loop, world, files
<1>26. CASE MoveAside
  BY <1>26 DEF MoveAside, Script, ScriptRest, loop, world, files
<1>27. CASE Replace
  BY <1>27 DEF Replace, Script, ScriptRest, loop, world, files
<1>28. CASE PublishFails
  BY <1>28 DEF PublishFails, Leaves, ScriptRest, loop, world, files
<1>29. CASE DropAside
  BY <1>29 DEF DropAside, Script, ScriptRest, loop, world, files
<1>30. CASE WriteRecord
  BY <1>30, ExportConstants DEF WriteRecord, Leaves, ScriptRest, loop, world, files
<1>31. CASE Raises
  BY <1>31 DEF Raises, Leaves, ScriptRest, loop, world, files
<1>32. CASE Interrupted
  BY <1>32 DEF Interrupted, Try, ScriptRest, loop, world, files
<1>33. CASE KillWorker
  BY <1>33 DEF KillWorker, Script, ScriptRest, loop, world, files
<1>34. CASE RemoveTree
  BY <1>34 DEF RemoveTree, Script, ScriptRest, loop, world, files
<1>35. CASE WatchNotices
  BY <1>35 DEF WatchNotices, ScriptRest, loop, world, files
<1>36. CASE WorkerEnds
  BY <1>36 DEF WorkerEnds, ScriptRest, loop, world, files
<1>37. CASE ScriptDies
  BY <1>37 DEF ScriptDies, ScriptRest, loop, world, files
<1>38. CASE LauncherDies
  BY <1>38 DEF LauncherDies, loop, world, files, group
<1>39. CASE TimePasses
  BY <1>39 DEF TimePasses, loop, world, files, group
<1>40. CASE IdReused
  BY <1>40 DEF IdReused, loop, world, files, group
<1>41. CASE InputEdited
  BY <1>41 DEF InputEdited, loop, world, files, group
<1>42. CASE \E sig \in {"INT", "TERM", "HUP"} : UserSignals(sig)
  BY <1>42 DEF UserSignals, group, files
<1>43. CASE UNCHANGED vars
  BY <1>43 DEF vars, loop, group, world, files
<1> QED
  BY <1>1, <1>2, <1>3, <1>4, <1>5, <1>6, <1>7, <1>8, <1>9, <1>10, <1>11, <1>12, <1>13, <1>14, <1>15, <1>16, <1>17,
     <1>18, <1>19, <1>20, <1>21, <1>22, <1>23, <1>24, <1>25, <1>26, <1>27, <1>28, <1>29, <1>30, <1>31, <1>32,
     <1>33, <1>34, <1>35, <1>36, <1>37, <1>38, <1>39, <1>40, <1>41, <1>42, <1>43
     DEF Next, LauncherStep, ScriptStep

\* RunExport and PublishOutput keep the files in order in every behaviour.
LEMMA FilesAlways == Spec => []FilesInOrder
<1>1. Init => FilesInOrder
  BY DEF Init, FilesInOrder, Unpublished, SidecarsAway, CopyIsInput, RecordTrue, ResultHolds, Live
<1> QED
  BY <1>1, FilesStep, ProcessesAlways, TypeCorrect, PTL DEF Spec

\* RunExport: a success means that the output was exported from the input as the launcher hashed it.
THEOREM SuccessFaithful == Spec => []SuccessIsFaithful
<1>1. FilesInOrder => SuccessIsFaithful
  BY DEF FilesInOrder, ResultHolds, SuccessIsFaithful
<1> QED
  BY <1>1, FilesAlways, PTL

\* PublishOutput: a new export never stands beside a sidecar of the one it replaced.
THEOREM SidecarsGone == Spec => []NoStaleSidecar
<1>1. FilesInOrder => NoStaleSidecar
  BY DEF FilesInOrder, SidecarsAway, NoStaleSidecar
<1> QED
  BY <1>1, FilesAlways, PTL
=============================================================================
