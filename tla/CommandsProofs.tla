---------------------------- MODULE CommandsProofs ----------------------------
(***************************************************************************)
(* Proofs about Commands, for every set of command lines and any number of *)
(* failures.                                                               *)
(*                                                                         *)
(* The output of a port.  IInv says how far the publication has come at    *)
(* each step: before "rename" the output is what the command found, at     *)
(* "rename" its -wal is aside or never was there, after it the output is   *)
(* new and has no -wal but its own.  From that follow NoForeignWal,        *)
(* FailureKeepsOutput and NothingLeftBehind.                               *)
(*                                                                         *)
(* The files.  TouchInv says that a command was not refused when it        *)
(* touches anything, and that each part touches only what it owns.  What   *)
(* the parts own is disjoint because of what the refusals compare          *)
(* (DiffFilesApart, PortFilesApart) and, for the names they do not         *)
(* compare, because of how these names end.                                *)
(***************************************************************************)
EXTENDS Commands, TLAPS, SequenceTheorems, WellFoundedInduction

\* The steps that only a diff or a replay takes, the one that only an update takes, and those of a port,
\* before and after its output comes into play.
DiffSteps == {"prepare", "snapshots", "trace", "points", "write"}
BeforePort == {"innerDiff", "readResults", "copy"}

\* The output is what the command found.
Untouched == <<out, wal>> = before

\* How far the publication of a port has come.
Publication ==
  /\ pc \in {"check", "ingest"} \cup DiffSteps \cup BeforePort => Untouched /\ tmpWal = FALSE
  /\ pc = "label" => Untouched /\ tmpWal = FALSE
  /\ pc = "aside" => Untouched /\ tmp = "new"
  /\ pc = "rename" => /\ out = before[1] /\ wal = None /\ tmp = "new"
                      /\ before[2] # None => aside = before[2]
  /\ pc = "moveWal" => out = "new" /\ wal = None
  /\ pc = "dropAside" => out = "new" /\ wal \in {None, "new"}

Steps == {"check", "ingest", "label", "aside", "rename", "moveWal", "dropAside", "end"} \cup DiffSteps \cup BeforePort

\* Which command is at which step.
Course ==
  /\ cmd \in CommandLines
  /\ pc \in Steps
  /\ pc # "end" => outcome = ""
  /\ pc \in DiffSteps => cmd.kind \in {"diff", "replay"}
  /\ pc = "ingest" => cmd.kind = "update"
  /\ pc \in BeforePort \cup {"label", "aside", "rename", "moveWal", "dropAside"} => cmd.kind \in {"port", "update"}
  /\ pc \in {"check", "ingest"} \cup DiffSteps \cup BeforePort => "output" \notin {t[1] : t \in touched}

IInv == /\ Course
        /\ before = <<before[1], before[2]>> /\ before[2] \in {None, before[1]}
        /\ Publication
        /\ NoForeignWal
        /\ FailureKeepsOutput
        /\ NothingLeftBehind

USE DEF DiffSteps, BeforePort, Steps

\* Every command is of one of the four kinds.
LEMMA Kinds == ASSUME IInv PROVE cmd.kind \in {"diff", "replay", "port", "update"}
<1>1. \A c \in CommandLines : c.kind \in {"diff", "replay", "port", "update"}
  BY CommandsAssumption, Zenon
<1> QED
  BY <1>1 DEF IInv, Course

\* The publication has not begun when a command begins.
LEMMA InitHolds == ASSUME Init PROVE IInv
<1>1. Course
  BY DEF Init, Course
<1>2. /\ before = <<out, wal>> /\ wal \in {None, out} /\ outcome = "" /\ pc = "check" /\ tmpWal = FALSE
  BY DEF Init, Given
<1>3. before = <<before[1], before[2]>> /\ before[2] \in {None, before[1]}
  BY <1>2
<1>4. Publication
  BY <1>2 DEF Publication, Untouched
<1>5. NoForeignWal /\ FailureKeepsOutput
  BY <1>2 DEF NoForeignWal, FailureKeepsOutput
<1>6. NothingLeftBehind
  BY <1>2 DEF NothingLeftBehind
<1> QED
  BY <1>1, <1>3, <1>4, <1>5, <1>6 DEF IInv

\* What is left to show of a step within the command.
LEMMA GoesOn == ASSUME IInv, pc # "end", outcome' = outcome, Stay, Course', Publication', NoForeignWal' PROVE IInv'
<1>1. outcome' = "" /\ before' = before
  BY DEF IInv, Course, Stay
<1>2. FailureKeepsOutput' /\ NothingLeftBehind'
  BY <1>1 DEF FailureKeepsOutput, NothingLeftBehind
<1> QED
  BY <1>1, <1>2 DEF IInv

\* The owners of what was touched, when a step touches more.
LEMMA TouchOwners == ASSUME NEW o, NEW S, Touch(o, S)
                     PROVE  {t[1] : t \in touched'} \subseteq {t[1] : t \in touched} \cup {o}
  BY DEF Touch

\* The steps that leave the output alone.
LEMMA EarlyStep == ASSUME IInv, [Accept \/ PrepareCheckpoint \/ EnableSnapshots \/ EnableTrace \/ RunStages
                                 \/ Ingest \/ InnerDiff \/ ReadResults]_vars, vars' # vars
                   PROVE  IInv'
<1>1. /\ cmd' = cmd /\ Stay /\ before' = before /\ outcome' = outcome
      /\ out' = out /\ wal' = wal /\ tmp' = tmp /\ tmpWal' = tmpWal /\ aside' = aside
      /\ pc \in {"check", "ingest", "innerDiff", "readResults", "prepare", "snapshots", "trace", "points"}
  BY DEF Accept, PrepareCheckpoint, EnableSnapshots, EnableTrace, RunStages, Ingest, InnerDiff, ReadResults, Stay,
         At, output
<1>2. /\ pc' \in {"ingest"} \cup DiffSteps \cup BeforePort
      /\ pc' \in DiffSteps => cmd.kind \in {"diff", "replay"}
      /\ pc' = "ingest" => cmd.kind = "update"
      /\ pc' \in BeforePort => cmd.kind \in {"port", "update"}
  <2>1. cmd.kind \in {"diff", "replay", "port", "update"}
    BY Kinds
  <2>2. CASE Accept
    BY <2>1, <2>2 DEF Accept
  <2>3. CASE PrepareCheckpoint \/ EnableSnapshots \/ EnableTrace \/ RunStages \/ Ingest \/ InnerDiff \/ ReadResults
    BY <2>3 DEF PrepareCheckpoint, EnableSnapshots, EnableTrace, RunStages, Ingest, InnerDiff, ReadResults, At,
                IInv, Course
  <2> QED
    BY <2>2, <2>3
<1>3. "output" \notin {t[1] : t \in touched'}
  <2>1. "output" \notin {t[1] : t \in touched}
    BY <1>1 DEF IInv, Course
  <2>2. CASE Accept \/ ReadResults
    BY <2>1, <2>2 DEF Accept, ReadResults
  <2>3. CASE PrepareCheckpoint \/ EnableSnapshots \/ EnableTrace \/ Ingest \/ InnerDiff
    <3>1. \E o, S : Touch(o, S) /\ o # "output"
      BY <2>3 DEF PrepareCheckpoint, EnableSnapshots, EnableTrace, Ingest, InnerDiff
    <3> QED
      BY <2>1, <3>1, TouchOwners
  <2>4. CASE RunStages
    <3>1. PICK A, B : touched' = touched \cup ({"snapshots"} \X A) \cup ({"checkpoint"} \X B)
      BY <2>4 DEF RunStages
    <3>2. \A t \in touched' : t \in touched \/ t[1] = "snapshots" \/ t[1] = "checkpoint"
      BY <3>1
    <3> QED
      BY <2>1, <3>2
  <2> QED
    BY <2>2, <2>3, <2>4
<1>4. Course'
  BY <1>1, <1>2, <1>3 DEF IInv, Course
<1>5. Publication'
  BY <1>1, <1>2 DEF IInv, Publication, Untouched
<1>6. NoForeignWal'
  BY <1>1 DEF IInv, NoForeignWal
<1> QED
  BY <1>1, <1>4, <1>5, <1>6, GoesOn

\* The steps of a port that build and publish the output.
LEMMA PortStep == ASSUME IInv, CopyDatabase \/ WriteLabels \/ MoveAside \/ RenameOver \/ MoveWal PROVE IInv'
<1>1. /\ cmd' = cmd /\ before' = before /\ outcome' = outcome /\ Stay /\ cmd \in CommandLines
      /\ pc \in {"copy", "label", "aside", "rename", "moveWal"} /\ outcome = ""
      /\ pc' \in {"label", "aside", "rename", "moveWal", "dropAside"}
      /\ cmd.kind \in {"port", "update"}
      /\ before[2] \in {None, before[1]}
  BY DEF CopyDatabase, WriteLabels, MoveAside, RenameOver, MoveWal, At, Stay, IInv, Course
<1>2. Course'
  BY <1>1 DEF Course
<1>3. None # "new"
  BY CommandsAssumption
<1>4. CASE CopyDatabase
  <2>1. pc = "copy" /\ pc' = "label" /\ out' = out /\ wal' = wal /\ tmpWal' = FALSE
    BY <1>4 DEF CopyDatabase, At
  <2>2. Publication' /\ NoForeignWal'
    BY <1>1, <2>1 DEF IInv, Publication, Untouched, NoForeignWal
  <2> QED
    BY <1>1, <1>2, <2>2, GoesOn
<1>5. CASE WriteLabels
  <2>1. pc = "label" /\ pc' = "aside" /\ out' = out /\ wal' = wal /\ tmp' = "new"
    BY <1>5 DEF WriteLabels, At
  <2>2. Publication' /\ NoForeignWal'
    BY <1>1, <2>1 DEF IInv, Publication, Untouched, NoForeignWal
  <2> QED
    BY <1>1, <1>2, <2>2, GoesOn
<1>6. CASE MoveAside
  <2>1. /\ pc = "aside" /\ pc' = "rename" /\ out' = out /\ wal' = None /\ tmp' = tmp
        /\ wal # None => aside' = wal
    BY <1>6 DEF MoveAside, At
  <2>2. out = before[1] /\ wal = before[2] /\ tmp = "new"
    <3>1. <<out, wal>> = before /\ tmp = "new"
      BY <2>1 DEF IInv, Publication, Untouched
    <3> QED
      BY <3>1
  <2>3. Publication' /\ NoForeignWal'
    BY <1>1, <2>1, <2>2 DEF Publication, NoForeignWal
  <2> QED
    BY <1>1, <1>2, <2>3, GoesOn
<1>7. CASE RenameOver
  <2>1. pc = "rename" /\ pc' = "moveWal" /\ out' = tmp /\ wal' = wal
    BY <1>7 DEF RenameOver, At
  <2>2. tmp = "new" /\ wal = None
    BY <2>1 DEF IInv, Publication
  <2>3. Publication' /\ NoForeignWal'
    BY <1>1, <2>1, <2>2 DEF Publication, NoForeignWal
  <2> QED
    BY <1>1, <1>2, <2>3, GoesOn
<1>8. CASE MoveWal
  <2>1. pc = "moveWal" /\ pc' = "dropAside" /\ out' = out /\ wal' \in {wal, "new"}
    BY <1>8 DEF MoveWal, At
  <2>2. out = "new" /\ wal = None
    BY <2>1 DEF IInv, Publication
  <2>3. Publication' /\ NoForeignWal'
    BY <1>1, <2>1, <2>2 DEF Publication, NoForeignWal
  <2> QED
    BY <1>1, <1>2, <2>3, GoesOn
<1> QED
  BY <1>4, <1>5, <1>6, <1>7, <1>8

\* What is left to show of a step that ends the command.
LEMMA EndsSo == ASSUME IInv, pc' = "end", Stay, NoForeignWal', FailureKeepsOutput', NothingLeftBehind' PROVE IInv'
<1>1. Course'
  BY DEF IInv, Course, Stay
<1>2. Publication'
  BY DEF Publication
<1> QED
  BY <1>1, <1>2 DEF IInv, Stay

\* Ends that say nothing of the output: a refusal, a kill, the end of a diff.
LEMMA PlainEnd == ASSUME IInv, Refuse \/ WriteOut \/ Kill PROVE IInv'
<1>1. /\ pc' = "end" /\ Stay /\ cmd' = cmd /\ out' = out /\ wal' = wal /\ pc # "end"
      /\ outcome' \in {"usage", "ok", "killed"} /\ (outcome' = "ok" => WriteOut)
  BY DEF Refuse, WriteOut, Kill, Ends, Stay, output
<1>2. WriteOut => cmd.kind \in {"diff", "replay"}
  BY DEF WriteOut, IInv, Course
<1>3. NoForeignWal' /\ FailureKeepsOutput'
  BY <1>1 DEF IInv, NoForeignWal, FailureKeepsOutput
<1>4. NothingLeftBehind'
  BY <1>1, <1>2 DEF NothingLeftBehind
<1> QED
  BY <1>1, <1>3, <1>4, EndsSo

\* The success of a port.
LEMMA DropAsideKeeps == ASSUME IInv, DropAside PROVE IInv'
<1>1. /\ pc' = "end" /\ Stay /\ cmd' = cmd /\ out' = out /\ wal' = wal /\ pc = "dropAside"
      /\ tmp' = None /\ tmpWal' = FALSE /\ outcome' = "ok"
      /\ (InProcess(cmd) /\ ~cmd.keep => res' = FALSE)
  BY DEF DropAside, Ends, Stay, DropResultsFile
<1>2. out = "new"
  BY <1>1 DEF IInv, Publication
<1>3. NoForeignWal' /\ FailureKeepsOutput'
  BY <1>1 DEF IInv, NoForeignWal, FailureKeepsOutput
<1>4. NothingLeftBehind'
  BY <1>1, <1>2 DEF NothingLeftBehind, InProcess
<1> QED
  BY <1>1, <1>3, <1>4, EndsSo

\* Failures before the port, and of the diff of a port: the output was not touched.
LEMMA EarlyEnd == ASSUME IInv, EarlyFailure \/ InnerRefuse \/ ResultsFailure PROVE IInv'
<1>1. /\ pc' = "end" /\ Stay /\ cmd' = cmd /\ before' = before /\ out' = out /\ wal' = wal /\ tmp' = tmp /\ tmpWal' = tmpWal
      /\ outcome' \in {"usage", "failed"}
      /\ pc \in DiffSteps \cup {"ingest", "innerDiff", "readResults"}
      /\ pc \in {"innerDiff", "readResults"} => \/ ~(InProcess(cmd) /\ ~cmd.keep)
                                                \/ res' = FALSE
  BY DEF EarlyFailure, InnerRefuse, ResultsFailure, FailsAt, Ends, Stay, output, DropResultsFile
<1>2. Untouched /\ tmpWal = FALSE
  BY <1>1 DEF IInv, Publication
<1>3. NoForeignWal'
  BY <1>1 DEF IInv, NoForeignWal
<1>4. FailureKeepsOutput'
  BY <1>1, <1>2 DEF FailureKeepsOutput, Untouched
<1>5. cmd.kind = "port" => pc \in {"innerDiff", "readResults"}
  BY <1>1 DEF IInv, Course
<1>6. "output" \notin {t[1] : t \in touched'}
  <2>1. "output" \notin {t[1] : t \in touched}
    BY <1>1 DEF IInv, Course
  <2>2. touched' = touched \/ \E S : Touch("results", S)
    BY DEF EarlyFailure, InnerRefuse, ResultsFailure, RemovesResults
  <2> QED
    BY <2>1, <2>2, TouchOwners
<1>7. NothingLeftBehind'
  BY <1>1, <1>2, <1>5, <1>6 DEF NothingLeftBehind, InProcess
<1> QED
  BY <1>1, <1>3, <1>4, <1>7, EndsSo

\* Failures while the output is built or published.
LEMMA PortEnd == ASSUME IInv, WriteFailure \/ PublishFailure \/ WalFailure PROVE IInv'
<1>1. /\ pc' = "end" /\ Stay /\ cmd' = cmd /\ before' = before /\ out' = out
      /\ outcome' = "failed" /\ tmp' = None /\ tmpWal' = FALSE
      /\ pc \in {"copy", "label", "aside", "rename", "moveWal"}
      /\ InProcess(cmd) /\ ~cmd.keep => res' = FALSE
  BY DEF WriteFailure, PublishFailure, WalFailure, FailsAt, Ends, Stay, DropResultsFile
<1>2. before[2] \in {None, before[1]}
  BY DEF IInv
<1>3. CASE pc \in {"copy", "label", "aside"}
  <2>1. Untouched /\ wal' = wal
    BY <1>3 DEF IInv, Publication, WriteFailure, PublishFailure, WalFailure, FailsAt, Restore
  <2>2. NoForeignWal' /\ FailureKeepsOutput'
    BY <1>1, <2>1 DEF IInv, NoForeignWal, FailureKeepsOutput, Untouched
  <2>3. NothingLeftBehind'
    BY <1>1 DEF NothingLeftBehind, InProcess
  <2> QED
    BY <1>1, <2>2, <2>3, EndsSo
<1>4. CASE pc = "rename"
  <2>1. out = before[1] /\ wal = None /\ (before[2] # None => aside = before[2])
    BY <1>4 DEF IInv, Publication
  <2>2. wal' = IF before[2] # None THEN aside ELSE wal
    BY <1>4 DEF WriteFailure, PublishFailure, WalFailure, FailsAt, Restore
  <2>3. wal' = before[2] /\ out' = before[1]
    BY <1>1, <2>1, <2>2
  <2>4. NoForeignWal'
    BY <1>2, <2>3 DEF NoForeignWal
  <2>5. <<out', wal'>> = before
    <3>1. \E a, b : before = <<a, b>>
      BY DEF IInv
    <3> QED
      BY <2>3, <3>1
  <2>6. FailureKeepsOutput'
    BY <1>1, <2>5 DEF FailureKeepsOutput
  <2>7. NothingLeftBehind'
    BY <1>1 DEF NothingLeftBehind, InProcess
  <2> QED
    BY <1>1, <2>4, <2>6, <2>7, EndsSo
<1>5. CASE pc = "moveWal"
  <2>1. out = "new" /\ wal = None /\ wal' = wal
    BY <1>5 DEF IInv, Publication, WriteFailure, PublishFailure, WalFailure, FailsAt
  <2>2. NoForeignWal' /\ FailureKeepsOutput'
    BY <1>1, <2>1 DEF NoForeignWal, FailureKeepsOutput
  <2>3. NothingLeftBehind'
    BY <1>1 DEF NothingLeftBehind, InProcess
  <2> QED
    BY <1>1, <2>2, <2>3, EndsSo
<1> QED
  BY <1>1, <1>3, <1>4, <1>5

\* The inductive invariant of the publication holds in every state.
THEOREM Invariance == Spec => []IInv
<1>1. Init => IInv
  BY InitHolds
<1>2. IInv /\ [Next]_vars => IInv'
  <2>1. SUFFICES ASSUME IInv, [Next]_vars PROVE IInv'
    OBVIOUS
  <2>2. CASE UNCHANGED vars
    BY <2>1, <2>2 DEF vars, output, IInv, Course, Publication, Untouched, NoForeignWal, FailureKeepsOutput,
                      NothingLeftBehind, InProcess
  <2>3. CASE Next /\ vars' # vars
    <3>1. CASE \/ Accept \/ PrepareCheckpoint \/ EnableSnapshots \/ EnableTrace \/ RunStages
               \/ Ingest \/ InnerDiff \/ ReadResults
      BY <2>1, <2>3, <3>1, EarlyStep
    <3>2. CASE CopyDatabase \/ WriteLabels \/ MoveAside \/ RenameOver \/ MoveWal
      BY <2>1, <3>2, PortStep
    <3>3. CASE Refuse \/ WriteOut \/ Kill
      BY <2>1, <3>3, PlainEnd
    <3>4. CASE DropAside
      BY <2>1, <3>4, DropAsideKeeps
    <3>5. CASE EarlyFailure \/ InnerRefuse \/ ResultsFailure
      BY <2>1, <3>5, EarlyEnd
    <3>6. CASE WriteFailure \/ PublishFailure \/ WalFailure
      BY <2>1, <3>6, PortEnd
    <3> QED
      BY <2>3, <3>1, <3>2, <3>3, <3>4, <3>5, <3>6 DEF Next
  <2> QED
    BY <2>1, <2>2, <2>3
<1> QED
  BY <1>1, <1>2, PTL DEF Spec

\* NoForeignWal, for all command lines and any number of failures and kills: SQLite never replays the
\* -wal of one database into another at the output of a port.
THEOREM WalBelongs == Spec => []NoForeignWal
<1>1. IInv => NoForeignWal
  BY DEF IInv
<1> QED
  BY <1>1, Invariance, PTL

\* FailureKeepsOutput, for all command lines: what PublishOutput says when it fails is true.
THEOREM OutputKept == Spec => []FailureKeepsOutput
<1>1. IInv => FailureKeepsOutput
  BY DEF IInv
<1> QED
  BY <1>1, Invariance, PTL

\* NothingLeftBehind, for all command lines: whatever fails, nothing stays under the temporary names.
THEOREM LeavesNothing == Spec => []NothingLeftBehind
<1>1. IInv => NothingLeftBehind
  BY DEF IInv
<1> QED
  BY <1>1, Invariance, PTL


-----------------------------------------------------------------------------
(* Paths *)

\* The last piece of a path is in S.
EndsIn(p, S) == \E q \in Paths : \E e \in S : p = Append(q, e)

Sidecars == {"-wal", "-shm", "-journal"}

\* A path with one more piece, and with two or three.
LEMMA AppendPath == ASSUME NEW p \in Paths, NEW x \in Pieces
                    PROVE  Append(p, x) \in Paths
  BY AppendProperties DEF Paths

\* Equal paths have equal last pieces.
LEMMA SameEnd == ASSUME NEW p \in Paths, NEW q \in Paths, NEW x \in Pieces, NEW y \in Pieces,
                        Append(p, x) = Append(q, y)
                 PROVE  p = q /\ x = y
  BY AppendInjective DEF Paths

LEMMA TwoPieces == ASSUME NEW p \in Paths, NEW x \in Pieces, NEW y \in Pieces
                   PROVE  p \o <<x, y>> = Append(Append(p, x), y)
  BY DEF Paths

LEMMA ThreePieces == ASSUME NEW p \in Paths, NEW x \in Pieces, NEW y \in Pieces, NEW z \in Pieces
                   PROVE  p \o <<x, y, z>> = Append(Append(Append(p, x), y), z)
  BY DEF Paths

\* A path has one last piece.
LEMMA OtherEnd == ASSUME NEW p, NEW S \in SUBSET Pieces, NEW T \in SUBSET Pieces, S \cap T = {},
                         EndsIn(p, S), EndsIn(p, T)
                  PROVE  FALSE
<1>1. PICK q \in Paths, x \in S : p = Append(q, x)
  BY DEF EndsIn
<1>2. PICK r \in Paths, y \in T : p = Append(r, y)
  BY DEF EndsIn
<1>3. Append(q, x) = Append(r, y) /\ x \in Pieces /\ y \in Pieces
  BY <1>1, <1>2
<1>4. x = y
  BY <1>3, SameEnd
<1> QED
  BY <1>4

\* The last piece is the one that was appended.
LEMMA EndIs == ASSUME NEW p \in Paths, NEW x \in Pieces, NEW S, x \in S PROVE EndsIn(Append(p, x), S)
  BY DEF EndsIn

\* Two databases share a file only if one of them is the other or a sidecar of the other.
LEMMA DbApart == ASSUME NEW p \in Paths, NEW q \in Paths, p # q,
                        \A s \in Sidecars : p # Append(q, s) /\ q # Append(p, s)
                 PROVE  DatabaseFileSet(p) \cap DatabaseFileSet(q) = {}
<1>1. None \notin Paths
  BY CommandsAssumption
<1>2. Sidecars \subseteq Pieces
  BY CommandsAssumption DEF Sidecars, OwnPieces
<1>3. \A x \in DatabaseFileSet(p) : x = p \/ \E s \in Sidecars : x = Append(p, s)
  BY DEF DatabaseFileSet, Sidecars
<1>4. \A x \in DatabaseFileSet(q) : x = q \/ \E s \in Sidecars : x = Append(q, s)
  BY DEF DatabaseFileSet, Sidecars
<1> QED
  BY <1>2, <1>3, <1>4, SameEnd

\* A set of positions that is not empty has a last one.
LEMMA LastPosition == ASSUME NEW n \in Nat, NEW A \in SUBSET (1..n), A # {}
                      PROVE  Max(A) \in A /\ \A x \in A : x <= Max(A)
<1> DEFINE Less == {p \in Nat \X Nat : p[1] < p[2]}
           S == {x \in Nat : n - x \in A}
<1>1. IsWellFoundedOn(Less, Nat)
  BY NatLessThanWellFounded DEF OpToRel
<1>2. S # {} /\ S \subseteq Nat
  <2>1. PICK a \in A : TRUE
    OBVIOUS
  <2>2. n - a \in Nat /\ n - (n - a) = a
    BY <2>1
  <2> QED
    BY <2>1, <2>2
<1> HIDE DEF Less
<1>3. PICK m \in S : \A y \in S : ~ (<<y, m>> \in Less)
  BY <1>1, <1>2, WFMin
<1>4. n - m \in A /\ m \in Nat
  BY <1>3
<1>5. ASSUME NEW x \in A PROVE n - m >= x
  <2>1. x \in 1..n
    OBVIOUS
  <2>2. n - x \in Nat /\ n - (n - x) = x
    BY <2>1
  <2>3. n - x \in S
    BY <2>2
  <2> HIDE DEF S
  <2>4. ~(<<n - x, m>> \in Less)
    BY <1>3, <2>3
  <2>5. ~(n - x < m)
    BY <1>4, <2>2, <2>4 DEF Less
  <2> QED
    BY <1>4, <2>1, <2>2, <2>5
<1>6. \E x \in A : \A y \in A : x >= y
  BY <1>4, <1>5
<1>7. Max(A) \in A /\ \A y \in A : Max(A) >= y
  BY <1>6 DEF Max
<1>8. \A x \in A : x \in Int
  OBVIOUS
<1> QED
  BY <1>7, <1>8

\* The stem of a path: a prefix of it, which a longer name with a further extension does not give back.
LEMMA StemIs == ASSUME NEW p \in Paths
                PROVE  /\ PathStem(p) \in Paths
                       /\ LET q == Append(Append(PathStem(p), ".diaphora"), ".tmp-pid")
                          IN  p # q /\ \A s \in Sidecars : p # Append(q, s)
<1> DEFINE A == {i \in 1..Len(p) : p[i] = "/"}
           B == {i \in 1..Len(p) : p[i] \in Dotted}
           slash == IF A # {} THEN Max(A) ELSE 0
           dot == IF B # {} THEN Max(B) ELSE 0
<1>1. PathStem(p) = IF dot > slash + 1 THEN SubSeq(p, 1, dot - 1) ELSE p
  BY DEF PathStem, SelectLastInSeq
<1>2. Len(p) \in Nat /\ \A i \in 1..Len(p) : p[i] \in Pieces
  BY LenProperties, ElementOfSeq DEF Paths
<1>3. A \in SUBSET (1..Len(p)) /\ B \in SUBSET (1..Len(p))
  OBVIOUS
<1> HIDE DEF A, B
<1>4. slash \in 0..Len(p) /\ (slash # 0 => slash \in A) /\ \A i \in A : i <= slash
  <2>1. CASE A = {}
    BY <1>2, <2>1
  <2>2. CASE A # {}
    <3>1. Max(A) \in A /\ \A x \in A : x <= Max(A)
      BY <1>2, <1>3, <2>2, LastPosition
    <3>2. slash = Max(A)
      BY <2>2
    <3> HIDE DEF slash
    <3>3. slash \in 1..Len(p)
      BY <1>3, <3>1, <3>2
    <3> QED
      BY <1>2, <3>1, <3>2, <3>3
  <2> QED
    BY <2>1, <2>2
<1>5. dot \in 0..Len(p) /\ \A i \in B : i <= dot
  <2>1. CASE B = {}
    BY <1>2, <2>1
  <2>2. CASE B # {}
    <3>1. Max(B) \in B /\ \A x \in B : x <= Max(B)
      BY <1>2, <1>3, <2>2, LastPosition
    <3>2. dot = Max(B)
      BY <2>2
    <3> HIDE DEF dot
    <3>3. dot \in 1..Len(p)
      BY <1>3, <3>1, <3>2
    <3> QED
      BY <1>2, <3>1, <3>2, <3>3
  <2> QED
    BY <2>1, <2>2
<1>6. /\ PathStem(p) \in Paths /\ Len(PathStem(p)) \in Nat
      /\ Len(PathStem(p)) = IF dot > slash + 1 THEN dot - 1 ELSE Len(p)
  <2> HIDE DEF dot, slash
  <2>1. CASE dot > slash + 1
    <3>1. \A i \in 1..(dot - 1) : p[i] \in Pieces
      BY <1>2, <1>5
    <3>2. dot - 1 \in Nat /\ 1 <= dot - 1 /\ 1 \in Int
      BY <1>4, <1>5, <2>1
    <3>3. SubSeq(p, 1, dot - 1) \in Seq(Pieces)
          /\ Len(SubSeq(p, 1, dot - 1)) = IF 1 <= dot - 1 THEN dot - 1 - 1 + 1 ELSE 0
      BY <3>1, <3>2, SubSeqProperties
    <3> QED
      BY <1>1, <2>1, <3>2, <3>3 DEF Paths
  <2>2. CASE ~(dot > slash + 1)
    BY <1>1, <1>2, <2>2 
  <2> QED
    BY <2>1, <2>2
<1> DEFINE L == Len(PathStem(p))
           q == Append(Append(PathStem(p), ".diaphora"), ".tmp-pid")
<1>7. {".diaphora", ".tmp-pid", "/"} \subseteq Pieces /\ Sidecars \subseteq Pieces /\ ".tmp-pid" \in Dotted
  BY CommandsAssumption DEF OwnPieces, Sidecars
<1>8. q \in Paths /\ Len(q) = L + 2 /\ q[L + 1] = ".diaphora" /\ q[L + 2] = ".tmp-pid"
  <2> DEFINE r == Append(PathStem(p), ".diaphora")
  <2>0. L \in Nat
    BY <1>6
  <2>1. r \in Paths /\ Len(r) = L + 1 /\ r[L + 1] = ".diaphora"
    <3>1. PathStem(p) \in Seq(Pieces) /\ ".diaphora" \in Pieces
      BY <1>6, <1>7 DEF Paths
    <3> QED
      BY <3>1, AppendProperties, Zenon DEF Paths
  <2> HIDE DEF r, L
  <2>2. L + 1 \in 1..Len(r) /\ Len(r) + 1 = L + 2
    BY <2>0, <2>1
  <2>3. /\ Append(r, ".tmp-pid") \in Paths /\ Len(Append(r, ".tmp-pid")) = Len(r) + 1
        /\ Append(r, ".tmp-pid")[L + 1] = r[L + 1] /\ Append(r, ".tmp-pid")[Len(r) + 1] = ".tmp-pid"
    BY <1>7, <2>1, <2>2, AppendProperties DEF Paths
  <2> QED
    BY <2>1, <2>2, <2>3 DEF r
<1>9. ASSUME L + 2 <= Len(p), p[L + 1] = ".diaphora", p[L + 2] = ".tmp-pid",
             \A i \in (L + 3)..Len(p) : p[i] \in Sidecars
      PROVE  FALSE
  <2> HIDE DEF L
  <2>0. L \in Nat
    BY <1>6 DEF L
  <2>1. L + 2 \in B
    BY <1>2, <1>7, <1>9, <2>0 DEF B
  <2>2. dot >= L + 2
    BY <1>2, <1>5, <2>0, <2>1
  <2>3. \A i \in A : i <= L
    <3>1. SUFFICES ASSUME NEW i \in A, ~(i <= L) PROVE FALSE
      OBVIOUS
    <3>2. i \in 1..Len(p) /\ p[i] = "/"
      BY DEF A
    <3>3. i = L + 1 \/ i = L + 2 \/ i \in (L + 3)..Len(p)
      BY <1>2, <2>0, <3>1, <3>2
    <3> QED
      BY <1>9, <3>2, <3>3 DEF Sidecars
  <2> HIDE DEF dot, slash
  <2>4. slash <= L
    BY <1>4, <2>0, <2>3
  <2>5. dot > slash + 1
    BY <1>4, <1>5, <2>0, <2>2, <2>4
  <2>6. L = dot - 1
    BY <1>6, <2>5 DEF L
  <2> QED
    BY <1>5, <2>0, <2>2, <2>6
<1> HIDE DEF dot, slash
<1>10. p # q
  BY <1>6, <1>8, <1>9
<1>11. ASSUME NEW s \in Sidecars, p = Append(q, s) PROVE FALSE
  <2> HIDE DEF q, L
  <2>1. L \in Nat
    BY <1>6 DEF L
  <2>2. /\ Len(Append(q, s)) = Len(q) + 1 /\ (\A i \in 1..Len(q) : Append(q, s)[i] = q[i])
        /\ Append(q, s)[Len(q) + 1] = s
    BY <1>7, <1>8, AppendProperties DEF Paths
  <2>3. Len(p) = L + 3 /\ p[L + 1] = ".diaphora" /\ p[L + 2] = ".tmp-pid" /\ p[L + 3] = s
    BY <1>8, <1>11, <2>1, <2>2
  <2> QED
    BY <1>9, <1>11, <2>1, <2>3
<1> QED
  BY <1>6, <1>10, <1>11

\* The files of the snapshots are inside their directory.
LEMMA SnapshotsInside == ASSUME NEW dir \in Paths
                         PROVE  LET f == SnapshotFile(dir)
                                IN  /\ f \in Paths /\ EndsIn(f, {"00001_point.json"})
                                    /\ PathIsInside(f, SnapshotFilesDir(dir))
                                    /\ PathIsInside(Append(f, ".tmp"), SnapshotFilesDir(dir))
<1> DEFINE d == SnapshotFilesDir(dir)
           f == SnapshotFile(dir)
<1>1. {"/", "snapshots", "00001_point.json", ".tmp"} \subseteq Pieces
  BY CommandsAssumption DEF OwnPieces
<1>2. d \in Paths /\ d = Append(Append(dir, "/"), "snapshots")
  BY <1>1, TwoPieces, AppendPath DEF SnapshotFilesDir, Under
<1>3. Len(d) \in Nat /\ Len(d) >= 1
  <2>1. Append(dir, "/") \in Seq(Pieces)
    BY <1>1, AppendPath DEF Paths
  <2>2. Len(Append(Append(dir, "/"), "snapshots")) = Len(Append(dir, "/")) + 1 /\ Len(Append(dir, "/")) \in Nat
    BY <1>1, <2>1, AppendProperties, LenProperties
  <2> QED
    BY <1>2, <2>2
<1>4. f = Append(Append(d, "/"), "00001_point.json")
  BY <1>1, <1>2, TwoPieces DEF SnapshotFile, Under
<1> HIDE DEF d, f
<1>5. f \in Paths /\ EndsIn(f, {"00001_point.json"})
  BY <1>1, <1>2, <1>4, AppendPath, EndIs
<1>6. ASSUME NEW t \in Paths, t[1] = "/", Len(t) >= 2 PROVE PathIsInside(d \o t, d)
  <2>1. d \o t \in Seq(Pieces) /\ Len(d \o t) = Len(d) + Len(t)
        /\ \A i \in 1..(Len(d) + Len(t)) : (d \o t)[i] = IF i <= Len(d) THEN d[i] ELSE t[i - Len(d)]
    BY <1>2, ConcatProperties, Zenon DEF Paths
  <2>2. Len(t) \in Nat
    BY LenProperties DEF Paths
  <2>3. Len(d) \in 1..(Len(d \o t) - 1)
    BY <1>3, <1>6, <2>1, <2>2
  <2>4. SubSeq(d \o t, 1, Len(d)) = d
    <3>1. Len(d) \in 1..Len(d) /\ 1 \in 1..Len(d)
      BY <1>3
    <3>2. SubSeq(d \o t, 1, Len(d)) = SubSeq(d, 1, Len(d))
      BY <1>2, <3>1, SubSeqOfConcat1 DEF Paths
    <3>3. SubSeq(d, 1, Len(d)) = d
      BY <1>2, SubSeqFull DEF Paths
    <3> QED
      BY <3>2, <3>3
  <2>5. (d \o t)[Len(d) + 1] = "/"
    <3>1. Len(d) + 1 \in 1..(Len(d) + Len(t)) /\ ~(Len(d) + 1 <= Len(d)) /\ Len(d) + 1 - Len(d) = 1
      BY <1>3, <1>6, <2>2
    <3> QED
      BY <1>6, <2>1, <3>1
  <2> QED
    BY <2>3, <2>4, <2>5 DEF PathIsInside
<1>7. PathIsInside(f, d)
  <2>1. <<"/", "00001_point.json">> \in Paths
    BY <1>1 DEF Paths
  <2>2. f = d \o <<"/", "00001_point.json">>
    BY DEF f, d, SnapshotFile, Under
  <2>3. <<"/", "00001_point.json">>[1] = "/" /\ Len(<<"/", "00001_point.json">>) >= 2
    OBVIOUS
  <2> QED
    BY <1>6, <2>1, <2>2, <2>3
<1>8. PathIsInside(Append(f, ".tmp"), d)
  <2>1. <<"/", "00001_point.json", ".tmp">> \in Paths
    BY <1>1 DEF Paths
  <2>2. Append(f, ".tmp") = d \o <<"/", "00001_point.json", ".tmp">>
    BY <1>1, <1>2, <1>4, ThreePieces
  <2>3. <<"/", "00001_point.json", ".tmp">>[1] = "/" /\ Len(<<"/", "00001_point.json", ".tmp">>) >= 2
    OBVIOUS
  <2> QED
    BY <1>6, <2>1, <2>2, <2>3
<1> QED
  BY <1>5, <1>7, <1>8 DEF d, f

-----------------------------------------------------------------------------
(* What the refusals keep apart *)

\* What a diff writes beside its results and its trace.
CheckpointFiles(c) == IF c.ckpt = None THEN {} ELSE StoreFiles(c.ckpt)
CaptureFiles(c) == IF c.snap = None THEN {}
                   ELSE SnapshotIndex(c.snap) \cup {SnapshotFile(c.snap), Append(SnapshotFile(c.snap), ".tmp")}

\* The files of a checkpoint are no snapshot and no index of a capture.
LEMMA StoreApart == ASSUME NEW d \in Paths, NEW f \in Paths, EndsIn(f, {"00001_point.json", "index.json"})
                    PROVE  StoreFiles(d) \cap {f, Append(f, ".tmp")} = {}
<1> DEFINE E == {"manifest.json", "state-000001.json", ".dsig-checkpoint-probe"}
           G == {"00001_point.json", "index.json"}
<1>1. {".tmp", "/"} \subseteq Pieces /\ E \subseteq Pieces /\ G \subseteq Pieces
  BY CommandsAssumption DEF OwnPieces
<1>2. ASSUME NEW n \in E PROVE Under(d, n) \in Paths /\ EndsIn(Under(d, n), E)
  <2>1. Under(d, n) = Append(Append(d, "/"), n) /\ Append(d, "/") \in Paths
    BY <1>1, TwoPieces, AppendPath DEF Under
  <2> QED
    BY <1>1, <2>1, AppendPath, EndIs
<1>3. \A x \in StoreFiles(d) : \E n \in E : x = Under(d, n) \/ x = Append(Under(d, n), ".tmp")
  BY DEF StoreFiles
<1>4. E \cap G = {} /\ E \cap {".tmp"} = {} /\ G \cap {".tmp"} = {} /\ EndsIn(f, G)
  OBVIOUS
<1> HIDE DEF E, G
<1>5. ~EndsIn(f, E)
  BY <1>1, <1>4, OtherEnd
<1>6. ~EndsIn(f, {".tmp"})
  BY <1>1, <1>4, OtherEnd
<1>7. ASSUME NEW n \in E, Under(d, n) = f \/ Append(Under(d, n), ".tmp") = f PROVE FALSE
  BY <1>1, <1>2, <1>5, <1>6, <1>7, EndIs
<1>8. ASSUME NEW n \in E, Under(d, n) = Append(f, ".tmp") PROVE FALSE
  <2>1. EndsIn(Append(f, ".tmp"), {".tmp"}) /\ EndsIn(Append(f, ".tmp"), E)
    BY <1>1, <1>2, <1>8, EndIs
  <2> QED
    BY <1>1, <1>4, <2>1, OtherEnd
<1>9. ASSUME NEW n \in E, Append(Under(d, n), ".tmp") = Append(f, ".tmp") PROVE FALSE
  BY <1>1, <1>2, <1>7, <1>9, SameEnd
<1> QED
  BY <1>3, <1>7, <1>8, <1>9

\* What the refusals of a diff or a replay are for: what they let pass keeps all files apart.
LEMMA DiffFilesApart == ASSUME NEW c \in CommandLines, c.kind \in {"diff", "replay"}, ~Refused(c)
                        PROVE  LET I == Inputs(c) \cup Foreign(c)
                                   K == CheckpointFiles(c)
                                   N == CaptureFiles(c)
                                   T == Given(c.trace)
                                   O == OutFiles(c)
                               IN  /\ (K \cup N \cup T \cup O) \cap I = {}
                                   /\ K \cap (N \cup T \cup O) = {} /\ N \cap (T \cup O) = {} /\ T \cap O = {}
<1>1. /\ c.kind = "replay" => c.ckpt = None
      /\ ~RefusePathAliases(c) /\ ~RefuseCheckpointAliases(c) /\ ~RefuseForeignSnapshotDir(c)
  BY DEF Refused, DiffRefused
<1>2. Inputs(c) = DiffInputs(c) /\ Foreign(c) = {}
  BY <1>1 DEF Inputs, Foreign, RefuseForeignSnapshotDir
<1>3. c.snap = None \/ c.snap \in Paths
  BY CommandsAssumption
<1>4. c.ckpt = None \/ c.ckpt \in Paths
  BY CommandsAssumption
<1>5. c.kind = "diff" => c.third = None
  BY CommandsAssumption
<1> DEFINE I == DiffInputs(c)
           O == OutFiles(c)
           T == Given(c.trace)
           X == IF c.snap = None THEN {} ELSE SnapshotIndex(c.snap)
           F == IF c.snap = None THEN {} ELSE {SnapshotFile(c.snap), Append(SnapshotFile(c.snap), ".tmp")}
           K == CheckpointFiles(c)
<1>6. (O \cup T \cup X) \cap I = {} /\ (T \cup X) \cap O = {} /\ T \cap X = {}
  BY <1>1 DEF RefusePathAliases, FindPathAlias, HarnessFiles
<1>7. F \cap (I \cup O \cup T) = {}
  <2>1. CASE c.snap = None
    BY <2>1
  <2>2. CASE c.snap # None
    <3>1. \A p \in F : PathIsInside(p, SnapshotFilesDir(c.snap))
      BY <1>3, <2>2, SnapshotsInside
    <3>2. \A p \in I \cup O \cup T : ~PathIsInside(p, SnapshotFilesDir(c.snap))
      BY <1>1, <2>2 DEF RefusePathAliases
    <3> QED
      BY <3>1, <3>2
  <2> QED
    BY <2>1, <2>2
<1>8. K \cap (I \cup O \cup T) = {}
  BY <1>1, <1>5 DEF RefuseCheckpointAliases, FindPathAlias, CheckpointFiles, DiffInputs, OutFiles, Given
<1>9. K \cap (X \cup F) = {}
  <2>1. CASE c.snap = None \/ c.ckpt = None
    BY <2>1 DEF CheckpointFiles
  <2>2. CASE c.snap # None /\ c.ckpt # None
    <3> DEFINE G == {"00001_point.json", "index.json"}
               f == SnapshotFile(c.snap)
               x == SnapshotIndexPath(c.snap)
    <3>1. {"00001_point.json", "index.json", "/"} \subseteq Pieces
      BY CommandsAssumption DEF OwnPieces
    <3>2. f \in Paths /\ EndsIn(f, G)
      <4>1. f \in Paths /\ EndsIn(f, {"00001_point.json"})
        BY <1>3, <2>2, SnapshotsInside
      <4> QED
        BY <4>1 DEF EndsIn
    <3>3. x \in Paths /\ EndsIn(x, G)
      <4>1. x = Append(Append(c.snap, "/"), "index.json") /\ Append(c.snap, "/") \in Paths
        BY <1>3, <2>2, <3>1, TwoPieces, AppendPath DEF SnapshotIndexPath, Under
      <4> QED
        BY <3>1, <4>1, AppendPath, EndIs
    <3>4. F = {f, Append(f, ".tmp")} /\ X = {x, Append(x, ".tmp")} /\ K = StoreFiles(c.ckpt)
      BY <2>2 DEF CheckpointFiles, SnapshotIndex
    <3> HIDE DEF f, x, F, X, K, G
    <3>5. StoreFiles(c.ckpt) \cap {f, Append(f, ".tmp")} = {} /\ StoreFiles(c.ckpt) \cap {x, Append(x, ".tmp")} = {}
      BY <1>4, <2>2, <3>2, <3>3, StoreApart DEF G
    <3> QED
      BY <3>4, <3>5
  <2> QED
    BY <2>1, <2>2
<1>10. CaptureFiles(c) = X \cup F
  BY DEF CaptureFiles
<1> HIDE DEF I, O, T, X, F, K
<1>11. /\ (K \cup (X \cup F) \cup T \cup O) \cap I = {}
       /\ K \cap ((X \cup F) \cup T \cup O) = {} /\ (X \cup F) \cap (T \cup O) = {} /\ T \cap O = {}
  BY <1>6, <1>7, <1>8, <1>9
<1> QED
  BY <1>2, <1>10, <1>11 DEF I, O, T, K

\* What a port or an update writes: the export of an update, the results of its own diff, and the output
\* with its temporary name and the names that PublishOutput moves the old sidecars to.
ExportFiles(c) == IF c.kind = "update"
                  THEN DatabaseFileSet(UpdateExportPath(c.out)) \cup {UpdateSidecarPath(c.out)} ELSE {}
PortResults(c) == IF ~InProcess(c) THEN {}
                  ELSE IF ~DiffRefused(InnerDiffCommand(c)) THEN ResultsFiles(ResultsPath(c))
                  ELSE IF c.keep THEN {} ELSE DatabaseFileSet(ResultsPath(c))
PortOutput(c) == PortWrites(c) \cup AsidePaths(c.out)

\* The scratch files of the results writer are not files of the output.
LEMMA ScratchApart == ASSUME NEW c \in CommandLines, c.kind \in {"port", "update"}, InProcess(c)
                      PROVE  /\ ResultsPath(c) \in Paths
                             /\ ResultsWriterScratchPaths(ResultsPath(c)) \cap PortWrites(c) = {}
<1> DEFINE o == c.out
           stem == PathStem(c.out)
           r == ResultsPath(c)
           s == Append(ResultsPath(c), ".tmp-pid")
           t == TemporaryOutputPath(c.out)
<1>1. o \in Paths
  BY CommandsAssumption
<1>2. {".diaphora", ".dsig-results-tmp", ".tmp-pid", ".dsig-tmp"} \subseteq Pieces /\ Sidecars \subseteq Pieces
  BY CommandsAssumption DEF OwnPieces, Sidecars
<1>3. stem \in Paths
  BY <1>1, StemIs
<1>4. r = Append(stem, ".diaphora") \/ r = Append(o, ".dsig-results-tmp")
  BY DEF ResultsPath, DefaultResultsPath
<1> HIDE DEF o, stem, r
<1>5. r \in Paths
  BY <1>1, <1>2, <1>3, <1>4, AppendPath
<1>6. s \in Paths /\ EndsIn(s, {".tmp-pid"})
  BY <1>2, <1>5, AppendPath, EndIs DEF r
<1>7. t \in Paths /\ EndsIn(t, {".dsig-tmp"})
  BY <1>1, <1>2, AppendPath, EndIs DEF o, TemporaryOutputPath
<1>8. \A x \in Sidecars, p \in Paths : EndsIn(Append(p, x), Sidecars)
  BY <1>2, EndIs
<1>9. ~EndsIn(s, Sidecars) /\ ~EndsIn(t, Sidecars) /\ s # t
  <2>1. {".tmp-pid"} \cap Sidecars = {} /\ {".dsig-tmp"} \cap Sidecars = {} /\ {".tmp-pid"} \cap {".dsig-tmp"} = {}
    BY DEF Sidecars
  <2>2. {".tmp-pid"} \in SUBSET Pieces /\ {".dsig-tmp"} \in SUBSET Pieces /\ Sidecars \in SUBSET Pieces
    BY <1>2
  <2> HIDE DEF s, t
  <2> QED
    BY <1>6, <1>7, <2>1, <2>2, OtherEnd
<1>10. DatabaseFileSet(s) \cap DatabaseFileSet(t) = {}
  <2> HIDE DEF s, t
  <2>1. \A x \in Sidecars : s # Append(t, x) /\ t # Append(s, x)
    BY <1>6, <1>7, <1>8, <1>9
  <2> QED
    BY <1>6, <1>7, <1>9, <2>1, DbApart
<1>11. o # s /\ \A x \in Sidecars : o # Append(s, x)
  <2>1. CASE r = Append(stem, ".diaphora")
    <3>1. s = Append(Append(stem, ".diaphora"), ".tmp-pid")
      BY <2>1 DEF r
    <3> QED
      BY <1>1, <3>1, StemIs DEF o, stem
  <2>2. CASE r = Append(o, ".dsig-results-tmp")
    <3>1. Len(o) \in Nat /\ Len(r) = Len(o) + 1
      BY <1>1, <1>2, <2>2, AppendProperties, LenProperties DEF Paths
    <3>2. Len(s) = Len(r) + 1
      BY <1>2, <1>5, AppendProperties DEF Paths, r
    <3>3. \A x \in Sidecars : Len(Append(s, x)) = Len(s) + 1
      BY <1>2, <1>6, AppendProperties DEF Paths
    <3> HIDE DEF s
    <3> QED
      BY <3>1, <3>2, <3>3
  <2> QED
    BY <1>4, <2>1, <2>2
<1>12. DatabaseFileSet(s) \cap DatabaseFileSet(o) = {}
  BY <1>1, <1>6, <1>8, <1>9, <1>11, DbApart
<1>13. ResultsWriterScratchPaths(ResultsPath(c)) = DatabaseFileSet(s)
       /\ PortWrites(c) = DatabaseFileSet(o) \cup DatabaseFileSet(t)
  BY DEF ResultsWriterScratchPaths, PortWrites, o
<1> QED
  BY <1>5, <1>10, <1>12, <1>13 DEF r

\* What the refusals of a port or an update are for: its parts keep clear of each other, and of all its
\* inputs but those with a name that no refusal compares.
LEMMA PortFilesApart == ASSUME NEW c \in CommandLines, c.kind \in {"port", "update"}, ~Refused(c)
                        PROVE  LET I == Inputs(c) \cup Foreign(c)
                                   E == ExportFiles(c)
                                   R == PortResults(c)
                                   O == PortOutput(c)
                               IN  /\ (E \cup R \cup O) \cap I \subseteq Uncompared(c)
                                   /\ E \cap (R \cup O) = {} /\ R \cap O = {}
<1> DEFINE A == AsidePaths(c.out)
           W == PortWrites(c)
           D == DatabaseFileSet(ResultsPath(c))
           S == ResultsWriterScratchPaths(ResultsPath(c))
           X == DatabaseFileSet(UpdateExportPath(c.out))
           J == {UpdateSidecarPath(c.out)}
           Ends1 == {".sqlite", ".diaphora", ".dsig-results-tmp", ".tmp-pid"} \cup Sidecars
<1>1. c.out \in Paths /\ c.first \in Paths /\ c.second \in Paths /\ (c.third = None \/ c.third \in Paths)
      /\ c.trace = None /\ c.snap = None /\ c.ckpt = None
  BY CommandsAssumption
<1>2. OwnPieces \subseteq Pieces
  BY CommandsAssumption
<1>3. PathStem(c.out) \in Paths
  BY <1>1, StemIs
<1>4. \A x \in A : EndsIn(x, {".dsig-old"})
  <2>1. SUFFICES ASSUME NEW s \in Sidecars PROVE EndsIn(c.out \o <<s, ".dsig-old">>, {".dsig-old"})
    BY DEF AsidePaths, Sidecars
  <2>2. s \in Pieces /\ ".dsig-old" \in Pieces
    BY <1>2 DEF Sidecars, OwnPieces
  <2>3. c.out \o <<s, ".dsig-old">> = Append(Append(c.out, s), ".dsig-old") /\ Append(c.out, s) \in Paths
    BY <1>1, <2>2, TwoPieces, AppendPath
  <2> QED
    BY <2>2, <2>3, EndIs
<1>5. EndsIn(UpdateSidecarPath(c.out), {".json"})
  <2>1. {".ingest", ".export", ".json"} \subseteq Pieces
    BY <1>2 DEF OwnPieces
  <2>2. UpdateSidecarPath(c.out) = Append(Append(Append(PathStem(c.out), ".ingest"), ".export"), ".json")
    BY <1>3, <2>1, ThreePieces DEF UpdateSidecarPath
  <2>3. Append(Append(PathStem(c.out), ".ingest"), ".export") \in Paths
    BY <1>3, <2>1, AppendPath
  <2> QED
    BY <2>1, <2>2, <2>3, EndIs
<1>6. ASSUME NEW p \in Paths, NEW e \in Pieces, e \in Ends1 PROVE \A x \in DatabaseFileSet(Append(p, e)) : EndsIn(x, Ends1)
  <2>1. Sidecars \subseteq Pieces
    BY <1>2 DEF OwnPieces, Sidecars
  <2>2. \A x \in DatabaseFileSet(Append(p, e)) : x = Append(p, e) \/ \E s \in Sidecars : x = Append(Append(p, e), s)
    BY DEF DatabaseFileSet, Sidecars
  <2>3. Append(p, e) \in Paths
    BY AppendPath
  <2>4. Sidecars \subseteq Ends1
    OBVIOUS
  <2> HIDE DEF Ends1
  <2>5. EndsIn(Append(p, e), Ends1)
    BY <1>6, EndIs
  <2>6. \A s \in Sidecars : EndsIn(Append(Append(p, e), s), Ends1)
    BY <2>1, <2>3, <2>4, EndIs
  <2> QED
    BY <2>2, <2>5, <2>6
<1>7. \A x \in X : EndsIn(x, Ends1)
  <2>1. {".ingest", ".sqlite"} \subseteq Pieces
    BY <1>2 DEF OwnPieces
  <2>2. UpdateExportPath(c.out) = Append(Append(PathStem(c.out), ".ingest"), ".sqlite")
        /\ Append(PathStem(c.out), ".ingest") \in Paths
    BY <1>3, <2>1, TwoPieces, AppendPath DEF UpdateExportPath
  <2> QED
    BY <1>6, <2>1, <2>2
<1>8. InProcess(c) => \A x \in D \cup S : EndsIn(x, Ends1)
  <2>1. SUFFICES ASSUME InProcess(c) PROVE \A x \in D \cup S : EndsIn(x, Ends1)
    OBVIOUS
  <2>2. {".diaphora", ".dsig-results-tmp", ".tmp-pid"} \subseteq Pieces
    BY <1>2 DEF OwnPieces
  <2>3. ResultsPath(c) \in {Append(PathStem(c.out), ".diaphora"), Append(c.out, ".dsig-results-tmp")}
    BY <2>1 DEF ResultsPath, DefaultResultsPath
  <2>4. \A x \in D : EndsIn(x, Ends1)
    BY <1>1, <1>3, <1>6, <2>2, <2>3
  <2>5. ResultsPath(c) \in Paths
    BY <2>1, ScratchApart
  <2>6. \A x \in S : EndsIn(x, Ends1)
    BY <1>6, <2>2, <2>5 DEF ResultsWriterScratchPaths
  <2> QED
    BY <2>4, <2>6
<1>9. Ends1 \in SUBSET Pieces /\ {".dsig-old"} \in SUBSET Pieces /\ {".json"} \in SUBSET Pieces
      /\ Ends1 \cap {".dsig-old"} = {} /\ Ends1 \cap {".json"} = {} /\ {".json"} \cap {".dsig-old"} = {}
  BY <1>2 DEF OwnPieces, Sidecars
<1> HIDE DEF A, W, D, S, X, J, Ends1
<1>10. /\ A \cap X = {} /\ A \cap J = {} /\ X \cap J = {}
       /\ InProcess(c) => A \cap (D \cup S) = {} /\ J \cap (D \cup S) = {}
  <2>1. \A x \in J : EndsIn(x, {".json"})
    BY <1>5 DEF J
  <2> QED
    BY <1>4, <1>7, <1>8, <1>9, <2>1, OtherEnd
<1>11. InProcess(c) => S \cap W = {}
  BY ScratchApart DEF S, W
<1>12. ~DiffRefused(InnerDiffCommand(c)) =>
         (D \cup S) \cap (DatabaseFileSet(c.first) \cup DatabaseFileSet(PortTarget(c))) = {}
  <2> DEFINE i == InnerDiffCommand(c)
  <2>1. /\ i.kind = "diff" /\ i.first = c.first /\ i.second = PortTarget(c) /\ i.third = None
        /\ i.out = ResultsPath(c)
    BY DEF InnerDiffCommand
  <2> HIDE DEF i
  <2>2. OutFiles(i) = D \cup S
    BY <2>1 DEF OutFiles, ResultsFiles, D, S
  <2>3. DatabaseFileSet(c.first) \cup DatabaseFileSet(PortTarget(c)) \subseteq DiffInputs(i)
    BY <2>1 DEF DiffInputs
  <2>4. ~DiffRefused(i) => OutFiles(i) \cap DiffInputs(i) = {}
    BY DEF DiffRefused, RefusePathAliases, FindPathAlias
  <2> QED
    BY <2>2, <2>3, <2>4 DEF i
<1>13. Foreign(c) = {}
  BY <1>1 DEF Foreign
<1>14. PortOutput(c) = W \cup A
  BY DEF PortOutput, W, A
<1>15. /\ ~InProcess(c) => PortResults(c) = {}
       /\ ~DiffRefused(InnerDiffCommand(c)) => PortResults(c) \subseteq D \cup S
       /\ PortResults(c) \subseteq D \cup S
       /\ DiffRefused(InnerDiffCommand(c)) => PortResults(c) \subseteq D
       /\ DiffRefused(InnerDiffCommand(c)) /\ c.keep => PortResults(c) = {}
  BY DEF PortResults, ResultsFiles, D, S
<1>16. CASE c.kind = "port"
  <2>1. ExportFiles(c) = {} /\ Uncompared(c) = A
    BY <1>16 DEF ExportFiles, Uncompared, A
  <2> DEFINE N == DatabaseFileSet(c.first) \cup DatabaseFileSet(c.second)
             T == DatabaseFileSet(c.third)
  <2>2. Inputs(c) \subseteq N \cup T
    BY <1>16 DEF Inputs, Given, DatabaseFileSet
  <2>3. PortTarget(c) = c.second
    BY <1>16 DEF PortTarget
  <2>4. /\ InProcess(c) => D \cap N = {} /\ T = {}
        /\ ~InProcess(c) => ResultsPath(c) = c.third
        /\ W \cap D = {} /\ W \cap N = {}
    <3>1. ~PortRefused(c)
      BY <1>16 DEF Refused
    <3>2. (InProcess(c) => D \cap N = {}) /\ W \cap D = {} /\ W \cap N = {}
      BY <2>3, <3>1 DEF PortRefused, FindPathAlias, D, W
    <3>3. InProcess(c) => T = {}
      BY <1>16 DEF InProcess, DatabaseFileSet
    <3>4. ~InProcess(c) => ResultsPath(c) = c.third
      BY <1>16 DEF ResultsPath
    <3> QED
      BY <3>2, <3>3, <3>4
  <2>5. ~InProcess(c) => T = D
    BY <2>4 DEF D
  <2>6. ~DiffRefused(InnerDiffCommand(c)) => (D \cup S) \cap N = {}
    BY <1>12, <2>3
  <2> HIDE DEF N, T
  <2>7. PortResults(c) \cap (N \cup T) = {}
    BY <1>15, <2>4, <2>6
  <2>8. PortOutput(c) \cap (N \cup T) \subseteq A
    BY <1>14, <2>4, <2>5
  <2>9. PortResults(c) \cap PortOutput(c) = {}
    BY <1>10, <1>11, <1>14, <1>15, <2>4
  <2> QED
    BY <1>13, <2>1, <2>2, <2>7, <2>8, <2>9
<1>17. CASE c.kind = "update"
  <2>1. ExportFiles(c) = X \cup J /\ Uncompared(c) = A \cup S /\ InProcess(c)
    BY <1>17 DEF ExportFiles, Uncompared, A, S, X, J, InProcess
  <2> DEFINE N == Inputs(c)
  <2>2. N = DatabaseFileSet(c.first) \cup {c.second} \cup Given(c.third)
    BY <1>17 DEF Inputs
  <2>3. /\ (X \cup J \cup D \cup W) \cap N = {}
        /\ W \cap (X \cup J \cup D) = {}
        /\ c.keep
    BY <1>17, <2>2 DEF Refused, UpdateRefused, FindPathAlias, D, W, X, J
  <2>4. ~DiffRefused(InnerDiffCommand(c)) => (D \cup S) \cap X = {}
    BY <1>12, <1>17 DEF PortTarget, X
  <2> HIDE DEF N
  <2>5. (ExportFiles(c) \cup PortResults(c) \cup PortOutput(c)) \cap N \subseteq Uncompared(c)
    BY <1>14, <1>15, <2>1, <2>3
  <2>6. ExportFiles(c) \cap PortResults(c) = {}
    BY <1>10, <1>15, <2>1, <2>3, <2>4
  <2>7. ExportFiles(c) \cap PortOutput(c) = {}
    BY <1>10, <1>14, <2>1, <2>3
  <2>8. PortResults(c) \cap PortOutput(c) = {}
    BY <1>10, <1>11, <1>14, <1>15, <2>1, <2>3
  <2> QED
    BY <1>13, <2>5, <2>6, <2>7, <2>8 DEF N
<1> QED
  BY <1>16, <1>17

-----------------------------------------------------------------------------
(* What the steps touch *)

\* What each part of a command may touch.
Owned(c) == IF c.kind \in {"diff", "replay"}
            THEN ({"checkpoint"} \X CheckpointFiles(c)) \cup ({"snapshots"} \X CaptureFiles(c))
                 \cup ({"trace"} \X Given(c.trace)) \cup ({"results"} \X OutFiles(c))
            ELSE ({"export"} \X ExportFiles(c)) \cup ({"results"} \X PortResults(c))
                 \cup ({"output"} \X PortOutput(c))

\* Only a command that was not refused touches anything, and only what its parts own.
TouchInv == /\ touched \subseteq Owned(cmd)
            /\ touched # {} \/ pc \notin {"check", "end"} => ~Refused(cmd)
            /\ pc = "innerDiff" => InProcess(cmd)

\* The parts of a diff or a replay, and those of a port or an update.
LEMMA OwnedByDiff == ASSUME NEW c, c.kind \in {"diff", "replay"}
                     PROVE  /\ ({"checkpoint"} \X CheckpointFiles(c)) \subseteq Owned(c)
                            /\ ({"snapshots"} \X CaptureFiles(c)) \subseteq Owned(c)
                            /\ ({"trace"} \X Given(c.trace)) \subseteq Owned(c)
                            /\ ({"results"} \X OutFiles(c)) \subseteq Owned(c)
  BY DEF Owned

LEMMA OwnedByPort == ASSUME NEW c, c.kind \in {"port", "update"}
                     PROVE  /\ ({"export"} \X ExportFiles(c)) \subseteq Owned(c)
                            /\ ({"results"} \X PortResults(c)) \subseteq Owned(c)
                            /\ ({"output"} \X PortOutput(c)) \subseteq Owned(c)
  BY DEF Owned

\* Nothing is touched when a command begins.
LEMMA TouchedInit == ASSUME Init PROVE TouchInv
  BY DEF Init, TouchInv

\* No step touches what its part does not own.
LEMMA TouchedStep == ASSUME IInv, TouchInv, [Next]_vars PROVE TouchInv'
<1>1. CASE UNCHANGED vars
  BY <1>1 DEF vars, TouchInv
<1>2. CASE Next
  <2>1. cmd' = cmd
    BY <1>2 DEF Next, Stay, Refuse, Accept, PrepareCheckpoint, EnableSnapshots, EnableTrace, RunStages, WriteOut,
                Ingest, InnerDiff, ReadResults, CopyDatabase, WriteLabels, MoveAside, RenameOver, MoveWal,
                DropAside, EarlyFailure, InnerRefuse, ResultsFailure, WriteFailure, PublishFailure, WalFailure, Kill
  <2>2. pc' = "innerDiff" => InProcess(cmd)
    <3>1. pc' = "innerDiff" => Accept \/ Ingest
      BY <1>2 DEF Next, At, Ends, Refuse, PrepareCheckpoint, EnableSnapshots, EnableTrace, RunStages, WriteOut,
                InnerDiff, ReadResults, CopyDatabase, WriteLabels, MoveAside, RenameOver, MoveWal,
                DropAside, EarlyFailure, InnerRefuse, ResultsFailure, WriteFailure, PublishFailure, WalFailure, Kill
    <3>2. CASE Accept
      <4>1. cmd.kind \in {"diff", "replay", "port", "update"}
        BY Kinds
      <4> QED
        BY <3>2, <4>1 DEF Accept, InProcess
    <3>3. CASE Ingest
      BY <3>3 DEF Ingest, At, IInv, Course, InProcess
    <3> QED
      BY <3>1, <3>2, <3>3
  <2>3. pc # "end" /\ (pc = "check" /\ ~Refuse => ~Refused(cmd)) /\ (Refuse => touched' = touched /\ pc' = "end")
    BY <1>2 DEF Next, At, Ends, FailsAt, Refuse, Accept, PrepareCheckpoint, EnableSnapshots, EnableTrace, RunStages,
                WriteOut, Ingest, InnerDiff, ReadResults, CopyDatabase, WriteLabels, MoveAside, RenameOver, MoveWal,
                DropAside, EarlyFailure, InnerRefuse, ResultsFailure, WriteFailure, PublishFailure, WalFailure, Kill
  <2>4. touched' # {} \/ pc' \notin {"check", "end"} => ~Refused(cmd)
    BY <2>3 DEF TouchInv
  <2>5. touched' \subseteq Owned(cmd)
    <3>1. touched \subseteq Owned(cmd)
      BY DEF TouchInv
    <3>2. CASE PrepareCheckpoint \/ EnableSnapshots \/ EnableTrace \/ RunStages \/ WriteOut
      <4>1. cmd.kind \in {"diff", "replay"}
        BY <3>2 DEF PrepareCheckpoint, EnableSnapshots, EnableTrace, RunStages, WriteOut, At, IInv, Course
      <4>2. CASE PrepareCheckpoint
        <5>1. PICK S : Touch("checkpoint", S) /\ S \subseteq CheckpointFiles(cmd)
          BY <4>2 DEF PrepareCheckpoint, CheckpointFiles, StoreFiles
        <5> QED
          BY <3>1, <4>1, <5>1, OwnedByDiff DEF Touch
      <4>3. CASE EnableSnapshots
        <5>1. PICK S : Touch("snapshots", S) /\ S \subseteq CaptureFiles(cmd)
          BY <4>3 DEF EnableSnapshots, CaptureFiles, SnapshotIndex, SnapshotIndexPath
        <5> QED
          BY <3>1, <4>1, <5>1, OwnedByDiff DEF Touch
      <4>4. CASE EnableTrace
        BY <3>1, <4>1, <4>4, OwnedByDiff DEF EnableTrace, Touch
      <4>5. CASE RunStages
        <5>1. touched' = touched \cup ({"snapshots"} \X CaptureFiles(cmd)) \cup ({"checkpoint"} \X CheckpointFiles(cmd))
          BY <4>5 DEF RunStages, CaptureFiles, CheckpointFiles
        <5> QED
          BY <3>1, <4>1, <5>1, OwnedByDiff
      <4>6. CASE WriteOut
        BY <3>1, <4>1, <4>6, OwnedByDiff DEF WriteOut, Touch
      <4> QED
        BY <3>2, <4>2, <4>3, <4>4, <4>5, <4>6
    <3>3. CASE Ingest
      <4>1. cmd.kind = "update"
        BY <3>3 DEF Ingest, At, IInv, Course
      <4>2. Touch("export", ExportFiles(cmd))
        BY <3>3, <4>1 DEF Ingest, ExportFiles
      <4> QED
        BY <3>1, <4>1, <4>2, OwnedByPort DEF Touch
    <3>4. CASE InnerDiff \/ InnerRefuse \/ ResultsFailure
      <4>1. cmd.kind \in {"port", "update"}
        BY <3>4 DEF InnerDiff, InnerRefuse, ResultsFailure, At, FailsAt, IInv, Course
      <4>2. PICK S : Touch("results", S) /\ S \subseteq PortResults(cmd)
        <5>1. CASE InnerDiff
          <6>1. InProcess(cmd) /\ ~DiffRefused(InnerDiffCommand(cmd))
            BY <5>1 DEF InnerDiff, At, TouchInv
          <6>2. Touch("results", PortResults(cmd))
            BY <5>1, <6>1 DEF InnerDiff, PortResults
          <6> QED
            BY <6>2
        <5>2. CASE InnerRefuse \/ ResultsFailure
          <6> DEFINE S == IF InProcess(cmd) /\ ~cmd.keep THEN DatabaseFileSet(ResultsPath(cmd)) ELSE {}
          <6>1. Touch("results", S)
            BY <5>2 DEF InnerRefuse, ResultsFailure, RemovesResults
          <6>2. S \subseteq PortResults(cmd)
            BY DEF PortResults, ResultsFiles
          <6> QED
            BY <6>1, <6>2
        <5> QED
          BY <3>4, <5>1, <5>2
      <4> QED
        BY <3>1, <4>1, <4>2, OwnedByPort DEF Touch
    <3>5. CASE CopyDatabase \/ MoveAside \/ RenameOver \/ MoveWal
      <4>1. cmd.kind \in {"port", "update"} /\ cmd \in CommandLines
        BY <3>5 DEF CopyDatabase, MoveAside, RenameOver, MoveWal, At, IInv, Course
      <4>2. cmd.out \in Paths /\ None \notin Paths
        BY <4>1, CommandsAssumption
      <4>3. DatabaseFileSet(cmd.out) \subseteq PortOutput(cmd) /\ AsidePaths(cmd.out) \subseteq PortOutput(cmd)
            /\ DatabaseFileSet(TemporaryOutputPath(cmd.out)) \subseteq PortOutput(cmd)
        BY DEF PortOutput, PortWrites
      <4>4. cmd.out \in DatabaseFileSet(cmd.out) /\ Append(cmd.out, "-wal") \in DatabaseFileSet(cmd.out)
        BY <4>2 DEF DatabaseFileSet
      <4>5. touched' = touched \/ \E S : Touch("output", S) /\ S \subseteq PortOutput(cmd)
        <5>1. CASE CopyDatabase
          BY <4>3, <5>1 DEF CopyDatabase
        <5>2. CASE MoveAside
          <6>1. AsidePaths(cmd.out) \cup (DatabaseFileSet(cmd.out) \ {cmd.out}) \subseteq PortOutput(cmd)
            BY <4>3
          <6> QED
            BY <5>2, <6>1 DEF MoveAside
        <5>3. CASE RenameOver
          <6>1. {cmd.out} \subseteq PortOutput(cmd)
            BY <4>3, <4>4
          <6> QED
            BY <5>3, <6>1 DEF RenameOver
        <5>4. CASE MoveWal
          <6> DEFINE S == IF tmpWal THEN {Append(cmd.out, "-wal")} ELSE {}
          <6>1. S \subseteq PortOutput(cmd)
            BY <4>3, <4>4
          <6>2. Touch("output", S)
            BY <5>4 DEF MoveWal
          <6> QED
            BY <6>1, <6>2
        <5> QED
          BY <3>5, <5>1, <5>2, <5>3, <5>4
      <4> QED
        BY <3>1, <4>1, <4>5, OwnedByPort DEF Touch
    <3>6. CASE \/ Refuse \/ Accept \/ ReadResults \/ WriteLabels \/ DropAside \/ EarlyFailure \/ WriteFailure
               \/ PublishFailure \/ WalFailure \/ Kill
      <4>1. touched' = touched
        BY <3>6 DEF Refuse, Accept, ReadResults, WriteLabels, DropAside, EarlyFailure, WriteFailure,
                    PublishFailure, WalFailure, Kill
      <4> QED
        BY <3>1, <4>1
    <3> QED
      BY <1>2, <3>2, <3>3, <3>4, <3>5, <3>6 DEF Next
  <2> QED
    BY <2>1, <2>2, <2>4, <2>5 DEF TouchInv
<1> QED
  BY <1>1, <1>2

\* Every reachable state keeps to what the parts own.
LEMMA Touched == Spec => []TouchInv
<1>1. Init => TouchInv
  BY TouchedInit
<1>2. IInv /\ TouchInv /\ [Next]_vars => TouchInv'
  BY TouchedStep
<1> QED
  BY <1>1, <1>2, Invariance, PTL DEF Spec

\* What a command that was not refused owns: no file of two parts, and no input but under a name that the
\* refusals do not compare.
LEMMA OwnedApart == ASSUME NEW c \in CommandLines, ~Refused(c)
                    PROVE  /\ \A s, t \in Owned(c) : s[2] = t[2] => s[1] = t[1]
                           /\ \A t \in Owned(c) : t[2] \in Inputs(c) \cup Foreign(c) => t[2] \in Uncompared(c)
<1>1. c.kind \in {"diff", "replay", "port", "update"}
  BY CommandsAssumption
<1>2. CASE c.kind \in {"diff", "replay"}
  <2> DEFINE I == Inputs(c) \cup Foreign(c)
             K == CheckpointFiles(c)
             N == CaptureFiles(c)
             T == Given(c.trace)
             O == OutFiles(c)
  <2>1. /\ (K \cup N \cup T \cup O) \cap I = {}
        /\ K \cap (N \cup T \cup O) = {} /\ N \cap (T \cup O) = {} /\ T \cap O = {}
    BY <1>2, DiffFilesApart
  <2>2. Owned(c) = ({"checkpoint"} \X K) \cup ({"snapshots"} \X N) \cup ({"trace"} \X T) \cup ({"results"} \X O)
    BY <1>2 DEF Owned
  <2> HIDE DEF I, K, N, T, O
  <2>3. \A t \in Owned(c) : \/ t[1] = "checkpoint" /\ t[2] \in K
                            \/ t[1] = "snapshots" /\ t[2] \in N
                            \/ t[1] = "trace" /\ t[2] \in T
                            \/ t[1] = "results" /\ t[2] \in O
    BY <2>2
  <2>4. \A s, t \in Owned(c) : s[2] = t[2] => s[1] = t[1]
    BY <2>1, <2>3
  <2>5. \A t \in Owned(c) : t[2] \notin I
    BY <2>1, <2>3
  <2> QED
    BY <2>4, <2>5 DEF I
<1>3. CASE c.kind \in {"port", "update"}
  <2> DEFINE I == Inputs(c) \cup Foreign(c)
             E == ExportFiles(c)
             R == PortResults(c)
             O == PortOutput(c)
  <2>1. /\ (E \cup R \cup O) \cap I \subseteq Uncompared(c)
        /\ E \cap (R \cup O) = {} /\ R \cap O = {}
    BY <1>3, PortFilesApart
  <2>2. Owned(c) = ({"export"} \X E) \cup ({"results"} \X R) \cup ({"output"} \X O)
    BY <1>3 DEF Owned
  <2> HIDE DEF I, E, R, O
  <2>3. \A t \in Owned(c) : \/ t[1] = "export" /\ t[2] \in E
                            \/ t[1] = "results" /\ t[2] \in R
                            \/ t[1] = "output" /\ t[2] \in O
    BY <2>2
  <2>4. \A s, t \in Owned(c) : s[2] = t[2] => s[1] = t[1]
    BY <2>1, <2>3
  <2>5. \A t \in Owned(c) : t[2] \in I => t[2] \in Uncompared(c)
    BY <2>1, <2>3
  <2> QED
    BY <1>3, <2>4, <2>5 DEF I
<1> QED
  BY <1>1, <1>2, <1>3

\* PartsApart, for all command lines and all paths: what the refusals let pass never lets two parts of a
\* command write one file, the temporary names of each included.
THEOREM PartsKeepApart == Spec => []PartsApart
<1>1. IInv /\ TouchInv => PartsApart
  <2>1. SUFFICES ASSUME IInv, TouchInv, NEW s \in touched, NEW t \in touched, s[2] = t[2] PROVE s[1] = t[1]
    BY DEF PartsApart
  <2>2. cmd \in CommandLines /\ ~Refused(cmd) /\ s \in Owned(cmd) /\ t \in Owned(cmd)
    BY <2>1 DEF IInv, Course, TouchInv
  <2> QED
    BY <2>1, <2>2, OwnedApart
<1> QED
  BY <1>1, Invariance, Touched, PTL

\* FilesApart, for all command lines and all paths: what a command writes keeps clear of what it reads, but
\* for the Uncompared names, and of its other parts.
THEOREM FilesKeepApart == Spec => []FilesApart
<1>1. IInv /\ TouchInv => InputsUntouched
  <2>1. SUFFICES ASSUME IInv, TouchInv, NEW t \in touched, t[2] \in Inputs(cmd) \cup Foreign(cmd)
                 PROVE  t[2] \in Uncompared(cmd)
    BY DEF InputsUntouched
  <2>2. cmd \in CommandLines /\ ~Refused(cmd) /\ t \in Owned(cmd)
    BY <2>1 DEF IInv, Course, TouchInv
  <2> QED
    BY <2>1, <2>2, OwnedApart
<1>2. InputsUntouched /\ PartsApart => FilesApart
  BY DEF FilesApart
<1> QED
  BY <1>1, <1>2, Invariance, Touched, PartsKeepApart, PTL
=============================================================================
