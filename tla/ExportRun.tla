------------------------------ MODULE ExportRun ------------------------------
(***************************************************************************)
(* One "dsigmatcher extract" or "ingest" on a POSIX system: the launcher   *)
(* (ExportBridge.cpp: RunExport, RunProcess), the script it starts in a    *)
(* process group of its own (tools/export/dsig_export.py: Main, Drive,     *)
(* PublishOutput, ParentWatch) and the IDA worker which that starts.       *)
(*                                                                         *)
(* Any of the three may die, the user may send signals and edit the input, *)
(* every file operation may fail, and the script and the worker may hang.  *)
(***************************************************************************)
EXTENDS Naturals

CONSTANTS Contents,    \* what the input file may contain
          Old,         \* the export that was at the output before, and its record
          HasTimeout,  \* --timeout was given
          MaxSignals,  \* bound on the signals to the launcher
          MaxEdits     \* bound on the changes of the input

ASSUME ExportConstants == /\ Old \notin Contents
                          /\ \A i, o \in Contents \cup {Old} : Old # [input |-> i, output |-> o]
                          /\ HasTimeout \in BOOLEAN
                          /\ MaxSignals \in Nat /\ MaxEdits \in Nat

VARIABLES launcher,   \* where RunExport is; "dead": the process is gone
          pending,    \* PendingSignal, written by the signal handler
          signal,     \* the signal that ForwardPending has read
          late,       \* the deadline has passed
          timedOut,   \* Result.TimedOut
          inputSha,   \* the input's hash before the script started
          reaped,     \* waitpid has collected the script, so that its id may be used again ...
          stranger,   \* ... and is, by another process group,
          hit,        \* which got a signal
          result,     \* how RunExport ended
          script,     \* where the script is
          interrupt,  \* a KeyboardInterrupt or Terminated is about to be raised in it
          code,       \* its exit code
          before,     \* the input's hash and modification time before the copy
          copy,       \* the work copy
          watch,      \* the ParentWatch thread; "blind": it started when the launcher was gone already
          known,      \* Watch.Worker is set
          worker,     \* the IDA worker
          input,      \* the input file
          edits,      \* its modification time
          signals,    \* signals so far
          out,        \* the output: the content that it was exported from
          side,       \* the -wal or -journal of the previous output
          told,       \* the error message says where it was left
          record,     \* <output>.export.json
          work        \* the work directory exists

group == <<script, interrupt, code, worker, hit>>
loop == <<pending, signal, late, timedOut>>
files == <<out, side, told, record, work>>
world == <<input, edits, signals, stranger>>
vars == <<launcher, loop, inputSha, reaped, result, group, before, copy, watch, known, world, files>>

Live == {"boot", "early", "made", "hash", "copy", "start", "owned", "wait", "after", "check",
         "publish", "aside", "replace", "drop", "record", "finally", "remove"}
Dead == {"exited", "killed"}

\* The try block of Drive.
Try == Live \ {"boot", "early", "made", "finally", "remove"}

Init == /\ launcher = "start"
        /\ pending = "none" /\ signal = "none" /\ late = FALSE /\ timedOut = FALSE
        /\ inputSha = Old /\ reaped = FALSE /\ stranger = FALSE /\ hit = FALSE /\ result = "none"
        /\ script = "none" /\ interrupt = FALSE /\ code = "none"
        /\ before = <<Old, 0>> /\ copy = Old
        /\ watch = "off" /\ known = FALSE /\ worker = "none"
        /\ input \in Contents /\ edits = 0 /\ signals = 0
        /\ out = Old /\ side \in {"none", "there"} /\ told = FALSE /\ record = Old
        /\ work = FALSE

-----------------------------------------------------------------------------
(* The launcher *)

\* kill(-Pid, sig).  SIGKILL and SIGHUP end the script, and so does anything before Main is there to
\* catch it; otherwise it becomes an exception in the script.  A worker that is busy in IDA may not
\* notice a SIGINT.  If the id belongs to somebody else by now, that group gets the signal.
SignalGroup(sig) ==
  LET kills == script \in Live /\ (sig \in {"KILL", "HUP"} \/ script = "boot")
  IN  /\ script' = IF kills THEN "killed" ELSE script
      /\ code' = IF kills THEN "signal" ELSE code
      /\ interrupt' = (interrupt \/ (script \in Live /\ ~kills))
      /\ \/ worker = "running" /\ worker' = "dead"
         \/ (worker # "running" \/ sig = "INT") /\ worker' = worker
      /\ hit' = (hit \/ stranger)

At(here, next) == launcher = here /\ launcher' = next

SpawnFails == /\ At("start", "done")
              /\ result' = "notStarted"
              /\ UNCHANGED <<loop, inputSha, reaped, group, before, copy, watch, known, world, files>>

\* The handlers are installed and the input is hashed before the script starts.
Spawn == /\ At("start", "poll")
         /\ inputSha' = input
         /\ script' = "boot"
         /\ UNCHANGED <<loop, reaped, result, interrupt, code, worker, hit, before, copy, watch, known, world, files>>

\* Mutant: HasExited collects the script.
SeesExitAndReaps == /\ At("poll", "killing")
                    /\ script \in Dead
                    /\ reaped' = TRUE
                    /\ UNCHANGED <<loop, inputSha, result, group, before, copy, watch, known, world, files>>

\* HasExited, with WNOWAIT.
SeesExit == /\ At("poll", "killing")
            /\ script \in Dead
            /\ UNCHANGED <<loop, inputSha, reaped, result, group, before, copy, watch, known, world, files>>

\* ForwardPending: the flag is read, ...
ReadPending == /\ At("poll", IF pending = "none" THEN "deadline" ELSE "clear")
               /\ script \in Live
               /\ signal' = pending
               /\ UNCHANGED <<pending, late, timedOut, inputSha, reaped, result, group, before, copy, watch, known,
                              world, files>>

\* ... cleared (a signal that came in between is lost), ...
ClearPending == /\ At("clear", "send")
                /\ pending' = "none"
                /\ UNCHANGED <<signal, late, timedOut, inputSha, reaped, result, group, before, copy, watch, known,
                               world, files>>

\* ... and sent on.
SendPending == /\ At("send", "deadline")
               /\ SignalGroup(signal)
               /\ UNCHANGED <<loop, inputSha, reaped, result, before, copy, watch, known, world, files>>

Sleep == /\ At("deadline", "poll")
         /\ ~late
         /\ UNCHANGED <<loop, inputSha, reaped, result, group, before, copy, watch, known, world, files>>

Deadline == /\ At("deadline", "grace")
            /\ late
            /\ timedOut' = TRUE
            /\ SignalGroup("TERM")
            /\ UNCHANGED <<pending, signal, late, inputSha, reaped, result, before, copy, watch, known, world, files>>

\* Mutant: the grace period has no end.
GraceUntilExit == /\ At("grace", "killing")
                  /\ script \in Dead
                  /\ UNCHANGED <<loop, inputSha, reaped, result, group, before, copy, watch, known, world, files>>

\* The script has exited, or 30 s are over.
GraceEnds == /\ At("grace", "killing")
             /\ UNCHANGED <<loop, inputSha, reaped, result, group, before, copy, watch, known, world, files>>

\* Mutant: the group is only killed after a timeout.
KillGroupLate == /\ At("killing", "reaping")
                 /\ IF timedOut THEN SignalGroup("KILL") ELSE UNCHANGED group
                 /\ UNCHANGED <<loop, inputSha, reaped, result, before, copy, watch, known, world, files>>

\* Whatever is left of the group.
KillGroup == /\ At("killing", "reaping")
             /\ SignalGroup("KILL")
             /\ UNCHANGED <<loop, inputSha, reaped, result, before, copy, watch, known, world, files>>

\* waitpid; the signal handlers are restored.  Then the reader thread ends: the script had the pipe.
Reap == /\ At("reaping", "checking")
        /\ script \in Dead
        /\ reaped' = TRUE
        /\ UNCHANGED <<loop, inputSha, result, group, before, copy, watch, known, world, files>>

\* Mutant: the record of the script is not compared with the run.
VerdictOnExit == IF input # inputSha THEN "inputChanged"
                 ELSE IF timedOut THEN "timeout"
                 ELSE IF code # "ok" THEN "failed"
                 ELSE "ok"

\* The end of RunExport: the input is hashed again, and after a success the record must match the input
\* and the output.
Verdict == IF input # inputSha THEN "inputChanged"
           ELSE IF timedOut THEN "timeout"
           ELSE IF code # "ok" THEN "failed"
           ELSE IF record # [input |-> inputSha, output |-> out] THEN "mismatch"
           ELSE "ok"

\* One of the files may be unreadable.
Finish == /\ At("checking", "done")
          /\ result' \in {Verdict, "unreadable"}
          /\ UNCHANGED <<loop, inputSha, reaped, group, before, copy, watch, known, world, files>>

LauncherStep == \/ Spawn \/ SpawnFails \/ SeesExit \/ ReadPending \/ ClearPending \/ SendPending
                \/ Sleep \/ Deadline \/ GraceEnds \/ KillGroup \/ Reap \/ Finish

-----------------------------------------------------------------------------
(* The script *)

Script(here, next) == script = here /\ script' = next

\* What no step of the script touches.
ScriptRest == <<launcher, loop, inputSha, reaped, result, hit, world>>

\* Drive leaves its try block.
Leaves(why) == script' = "finally" /\ code' = why

\* Main handles SIGTERM from here on.
InstallHandler == /\ Script("boot", "early")
                  /\ UNCHANGED <<ScriptRest, interrupt, code, worker, before, copy, watch, known, files>>

\* A check of the arguments, the input, the output, the PDB or the tools fails.
Refuses == /\ Script("early", "exited")
           /\ code' = "error"
           /\ UNCHANGED <<ScriptRest, interrupt, worker, before, copy, watch, known, files>>

MakeWorkDirectory == /\ Script("early", "made")
                     /\ work' = TRUE
                     /\ UNCHANGED <<ScriptRest, interrupt, code, worker, before, copy, watch, known,
                                    out, side, told, record>>

\* Watch.Parent is whatever process is the parent now.
StartWatch == /\ Script("made", "hash")
              /\ watch' = IF launcher = "dead" THEN "blind" ELSE "on"
              /\ UNCHANGED <<ScriptRest, interrupt, code, worker, before, copy, known, files>>

HashInput == /\ Script("hash", "copy")
             /\ before' = <<input, edits>>
             /\ UNCHANGED <<ScriptRest, interrupt, code, worker, copy, watch, known, files>>

CopyInput == /\ script = "copy"
             /\ copy' = input
             /\ IF input = before[1] THEN script' = "start" /\ UNCHANGED code ELSE Leaves("error")
             /\ UNCHANGED <<ScriptRest, interrupt, worker, before, watch, known, files>>

StartWorker == /\ Script("start", "owned")
               /\ worker' = "running"
               /\ UNCHANGED <<ScriptRest, interrupt, code, before, copy, watch, known, files>>

\* The owner file, which is written next, may fail.
SetWatchWorker == /\ script = "owned"
                  /\ known' = TRUE
                  /\ (script' = "wait" /\ UNCHANGED code) \/ Leaves("error")
                  /\ UNCHANGED <<ScriptRest, interrupt, worker, before, copy, watch, files>>

WorkerEnded == /\ Script("wait", "after")
               /\ worker # "running"
               /\ UNCHANGED <<ScriptRest, interrupt, code, worker, before, copy, watch, known, files>>

\* The script's own --timeout.
WaitTimesOut == /\ HasTimeout
                /\ script = "wait"
                /\ Leaves("timeout")
                /\ worker' = IF worker = "running" THEN "dead" ELSE worker
                /\ UNCHANGED <<ScriptRest, interrupt, before, copy, watch, known, files>>

\* Watch.Check: the parent is not Watch.Parent any more.
LauncherGone == launcher = "dead" /\ watch # "blind"

\* Watch.Check, the second hash of the input, the worker's exit code and what it left.
CheckExport == /\ script = "after"
               /\ IF LauncherGone THEN Leaves("interrupted")
                  ELSE IF before # <<input, edits>> \/ worker # "ok" THEN Leaves("error")
                  ELSE script' = "check" /\ UNCHANGED code
               /\ UNCHANGED <<ScriptRest, interrupt, worker, before, copy, watch, known, files>>

\* Watch.Check again, before PublishOutput.
CheckLauncher == /\ script = "check"
                 /\ IF LauncherGone THEN Leaves("interrupted") ELSE script' = "publish" /\ UNCHANGED code
                 /\ UNCHANGED <<ScriptRest, interrupt, worker, before, copy, watch, known, files>>

\* PublishOutput: the copy beside the output.
Stage == /\ Script("publish", "aside")
         /\ UNCHANGED <<ScriptRest, interrupt, code, worker, before, copy, watch, known, files>>

\* Mutant: the sidecars stay where they are.
LeaveSidecars == /\ Script("aside", "replace")
                 /\ UNCHANGED <<ScriptRest, interrupt, code, worker, before, copy, watch, known, files>>

MoveAside == /\ Script("aside", "replace")
             /\ side' = IF side = "there" THEN "aside" ELSE side
             /\ UNCHANGED <<ScriptRest, interrupt, code, worker, before, copy, watch, known, out, told, record, work>>

Replace == /\ Script("replace", "drop")
           /\ out' = copy
           /\ UNCHANGED <<ScriptRest, interrupt, code, worker, before, copy, watch, known, side, told, record, work>>

\* An OSError while the files are moved: the sidecars are moved back, or the message says where they are.
PublishFails == /\ script \in {"aside", "replace"}
                /\ side' \in IF side = "aside" THEN {"there", "aside"} ELSE {side}
                /\ told' = (side' = "aside")
                /\ Leaves("error")
                /\ UNCHANGED <<ScriptRest, interrupt, worker, before, copy, watch, known, out, record, work>>

\* The old sidecars are deleted, if possible.
DropAside == /\ Script("drop", "record")
             /\ side' \in IF side = "aside" THEN {"none", "aside"} ELSE {side}
             /\ UNCHANGED <<ScriptRest, interrupt, code, worker, before, copy, watch, known, out, told, record, work>>

\* The record holds the hash that the input had before, and the hash of the output as it is now.
WriteRecord == /\ script = "record"
               /\ out = copy
               /\ record' = [input |-> before[1], output |-> out]
               /\ Leaves("ok")
               /\ UNCHANGED <<ScriptRest, interrupt, worker, before, copy, watch, known, out, side, told, work>>

\* Any other step raises an ExportError or an OSError.
Raises == /\ script \in {"hash", "copy", "start", "after", "publish", "record"}
          /\ Leaves("error")
          /\ UNCHANGED <<ScriptRest, interrupt, worker, before, copy, watch, known, files>>

\* The exception of a signal is raised.  In the try block the finally clause follows; PublishOutput does
\* not catch it.  In the finally clause, and before the try block, it ends the script.
Interrupted == /\ interrupt
               /\ interrupt' = FALSE
               /\ script \in Live
               /\ script' = IF script \in Try THEN "finally" ELSE "exited"
               /\ code' = "interrupted"
               /\ UNCHANGED <<ScriptRest, worker, before, copy, watch, known, files>>

\* The finally clause: the worker is killed ...
KillWorker == /\ Script("finally", "remove")
              /\ watch' = "off"
              /\ worker' = IF worker = "running" THEN "dead" ELSE worker
              /\ UNCHANGED <<ScriptRest, interrupt, code, before, copy, known, files>>

\* ... and the work directory removed, unless that fails or it is to be kept.
RemoveTree == /\ Script("remove", "exited")
              /\ work' \in BOOLEAN
              /\ UNCHANGED <<ScriptRest, interrupt, code, worker, before, copy, watch, known, out, side, told, record>>

\* ParentWatch.run, which looks once a second: the worker it knows of is killed, and the thread ends.
WatchNotices == /\ script \in Live
                /\ watch = "on"
                /\ launcher = "dead"
                /\ watch' = "off"
                /\ worker' = IF known /\ worker = "running" THEN "dead" ELSE worker
                /\ UNCHANGED <<ScriptRest, script, interrupt, code, before, copy, known, files>>

ScriptStep == \/ InstallHandler \/ Refuses \/ MakeWorkDirectory \/ StartWatch \/ HashInput \/ CopyInput
              \/ StartWorker \/ SetWatchWorker \/ WorkerEnded \/ WaitTimesOut \/ CheckExport \/ CheckLauncher
              \/ Stage \/ MoveAside \/ Replace \/ PublishFails \/ DropAside \/ WriteRecord \/ Raises
              \/ Interrupted \/ KillWorker \/ RemoveTree

-----------------------------------------------------------------------------
(* The rest of the world *)

\* RunWorker ends.
WorkerEnds == /\ worker = "running"
              /\ worker' \in {"ok", "failed"}
              /\ UNCHANGED <<ScriptRest, script, interrupt, code, before, copy, watch, known, files>>

\* The script is killed from outside.
ScriptDies == /\ script \in Live
              /\ script' = "killed" /\ code' = "signal"
              /\ UNCHANGED <<ScriptRest, interrupt, worker, before, copy, watch, known, files>>

Handled == {"poll", "clear", "send", "deadline", "grace", "killing", "reaping"}

\* SIGINT, SIGTERM or SIGHUP for the launcher: recorded while RunProcess has its handlers, fatal before
\* and after that.
UserSignals(sig) == /\ signals < MaxSignals
                    /\ signals' = signals + 1
                    /\ \/ launcher \in Handled /\ pending' = sig /\ UNCHANGED launcher
                       \/ launcher \in {"start", "checking"} /\ launcher' = "dead" /\ UNCHANGED pending
                    /\ UNCHANGED <<signal, late, timedOut, inputSha, reaped, result, group, before, copy, watch, known,
                                   input, edits, stranger, files>>

LauncherDies == /\ launcher \notin {"done", "dead"}
                /\ launcher' = "dead"
                /\ UNCHANGED <<loop, inputSha, reaped, result, group, before, copy, watch, known, world, files>>

\* --timeout and 120 s more are over.
TimePasses == /\ HasTimeout
              /\ ~late
              /\ launcher \in Handled
              /\ late' = TRUE
              /\ UNCHANGED <<launcher, pending, signal, timedOut, inputSha, reaped, result, group, before, copy, watch,
                             known, world, files>>

\* A new process group gets the script's id, once nothing of the old group is left.
IdReused == /\ reaped
            /\ ~stranger
            /\ worker # "running"
            /\ stranger' = TRUE
            /\ UNCHANGED <<launcher, loop, inputSha, reaped, result, group, before, copy, watch, known,
                           input, edits, signals, files>>

InputEdited == /\ edits < MaxEdits
               /\ edits' = edits + 1
               /\ input' \in Contents \ {input}
               /\ UNCHANGED <<launcher, loop, inputSha, reaped, result, group, before, copy, watch, known,
                              signals, stranger, files>>

Next == \/ LauncherStep \/ ScriptStep \/ WatchNotices
        \/ WorkerEnds \/ ScriptDies \/ LauncherDies \/ TimePasses \/ IdReused \/ InputEdited
        \/ \E sig \in {"INT", "TERM", "HUP"} : UserSignals(sig)

\* The launcher polls and time passes, whatever the script and the worker do.
Spec == Init /\ [][Next]_vars /\ WF_vars(LauncherStep) /\ WF_vars(TimePasses)

-----------------------------------------------------------------------------
(* Properties *)

\* The type invariant.
TypeOK == /\ launcher \in Handled \cup {"start", "checking", "done", "dead"}
          /\ pending \in {"none", "INT", "TERM", "HUP"} /\ signal \in {"none", "INT", "TERM", "HUP"}
          /\ late \in BOOLEAN /\ timedOut \in BOOLEAN /\ reaped \in BOOLEAN /\ stranger \in BOOLEAN
          /\ hit \in BOOLEAN /\ interrupt \in BOOLEAN /\ known \in BOOLEAN /\ told \in BOOLEAN /\ work \in BOOLEAN
          /\ inputSha \in Contents \cup {Old}
          /\ result \in {"none", "notStarted", "inputChanged", "timeout", "failed", "mismatch", "unreadable", "ok"}
          /\ script \in Live \cup Dead \cup {"none"}
          /\ code \in {"none", "ok", "error", "timeout", "interrupted", "signal"}
          /\ before \in (Contents \cup {Old}) \X (0..MaxEdits) /\ copy \in Contents \cup {Old}
          /\ watch \in {"off", "on", "blind"}
          /\ worker \in {"none", "running", "ok", "failed", "dead"}
          /\ input \in Contents /\ edits \in 0..MaxEdits /\ signals \in 0..MaxSignals
          /\ out \in Contents \cup {Old} /\ side \in {"none", "there", "aside"}
          /\ record = Old \/ record \in [input : Contents \cup {Old}, output : Contents \cup {Old}]

\* When the command returns, no process that it started is running any more: not the script, not a
\* worker that a killed or twice interrupted script left behind (RunProcess, the final kill).
NothingLeftRunning == launcher = "done" => script \notin Live /\ worker # "running"

\* The group id is never used for a signal after it may have become somebody else's (RunProcess, WNOWAIT).
OnlyOwnGroupSignalled == ~hit

\* A success means that the output was exported from the input as it was when the command started, and
\* that the record beside it says so, whatever was edited in the meantime.
SuccessIsFaithful == result = "ok" => out = inputSha /\ record = [input |-> inputSha, output |-> out]

\* A new export never stands beside the -wal or -journal of the one it replaced.
NoStaleSidecar == out # Old => side # "there"

\* With a timeout the command ends, though the script and the worker may hang ("a backstop for a hung
\* script").
BackstopEnds == (launcher = "poll") ~> (launcher \in {"done", "dead"})

\* PublishOutput: "a failed publish leaves the previous output and its -wal [...] exactly as they were".
FailedPublishRestores == script = "exited" /\ out = Old => side # "aside" \/ told

\* tools/export/README.md: "If the launcher itself dies, the script [...] publishes nothing".
OrphanPublishesNothing == [][launcher = "dead" => out' = out]_vars
=============================================================================
