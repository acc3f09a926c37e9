------------------------------ MODULE LabelPort ------------------------------
(***************************************************************************)
(* What "dsigmatcher port" decides and records: PortLabels                 *)
(* (Provenance.cpp) with the rows that RunPortFromResults                  *)
(* (PortResults.cpp) reads from a results file.                            *)
(*                                                                         *)
(* A port copies the names of a reference export onto a copy of a target   *)
(* export.  The output is an export again, so it can be the reference or   *)
(* the target of the next port: labels travel from build to build, and     *)
(* the dsig_* tables say how far.  Between the ports the user changes      *)
(* labels, and a results file may be used long after it was written.       *)
(*                                                                         *)
(* The files of a port (temporary, sidecars, failures) are in Commands.    *)
(***************************************************************************)
EXTENDS Integers, Sequences, FiniteSets

CONSTANTS Exports,      \* the databases an exporter wrote, one per build
          Outputs,      \* the paths that ports write to
          Functions,    \* the addresses
          RealNames,    \* the names a user or a PDB gave: IsPortableSymbol
          Placeholder,  \* a name that IDA made up (sub_, nullsub_, j_, ...)
          Null,         \* no name
          Table,        \* the functions table of every export
          Diffs,        \* the results that a diff may have: sequences of Pairings
          Jobs,         \* the ports the user may start: reference, target, output
          UserNames,    \* the names the user may give
          Settings,     \* the options that a port may be given
          One,          \* the ratio 1.0; the ratios are 0..One
          MaxPorts,     \* bound on the ports
          MaxEdits,     \* bound on the labels the user changes
          NoRow,        \* the database has no function at the address
          NoOrigin,     \* dsig_name_origin has no row for the address
          Missing       \* there is no such file

Databases == Exports \cup Outputs
Symbols == RealNames \cup {Placeholder, Null}
Rows == [name : Symbols, mangled : Symbols]

\* A row of dsig_name_origin.
Origins == [name : Symbols, address : Functions, originName : Symbols, hops : Nat, ratio : Nat]

\* A result of a diff: which functions, how similar, the category, and what kind of item it is.  The
\* items of find_equal_matches carry the mangled names; the "stripped" ones were paired by address.
Pairings == [ref : Functions, tgt : Functions, ratio : 0..One,
             category : {"best", "partial", "unreliable", "multimatch"},
             kind : {"equal", "stripped", "other"}]

\* --max-hops (-1: none), --min-ratio, --overwrite, --overwrite-stripped and the included categories.
PortOptions == [maxHops : Int, minRatio : 0..One, overwrite : BOOLEAN, overwriteStripped : BOOLEAN,
                include : SUBSET {"unreliable", "multimatch"}]

ASSUME PortConstants == /\ One \in Nat \ {0} /\ MaxPorts \in Nat /\ MaxEdits \in Nat
                        /\ Exports \cap Outputs = {}
                        /\ Placeholder \notin RealNames /\ Null \notin RealNames
                        /\ Table \in [Exports -> [Functions -> Rows \cup {NoRow}]]
                        /\ NoRow \notin Rows /\ NoOrigin \notin Origins
                        /\ Diffs \subseteq Seq(Pairings)
                        /\ Jobs \subseteq Databases \X Databases \X Outputs
                        /\ UserNames \subseteq RealNames
                        /\ Settings \subseteq PortOptions

VARIABLES dbs,      \* the databases: their functions, their dsig_* tables, the md5 of their build
          results,  \* the rows of the results file, with the names that the diff saw
          job,      \* the port that runs: its databases, its options, its decisions so far
          pc,       \* "idle" or "dedup" (pass 2)
          outcome,  \* how the last port ended
          ports,    \* how many ports were started
          edits,    \* how many labels the user changed
          trail     \* history, not code: where every label has been

vars == <<dbs, results, job, pc, outcome, ports, edits, trail>>

-----------------------------------------------------------------------------
(* Names and histories *)

IsPortableSymbol(n) == n \in RealNames

HasFunction(d, f) == d # Missing /\ d.rows[f] # NoRow

\* The name of a function that no port brought there.
NewLabel(f, n) == [address |-> f, name |-> n, hops |-> 0, ratio |-> 1]

\* The history of a label of the reference: its origin row, as long as the function still has the name
\* that the row recorded.  A cumulative ratio is "ratio" / One^hops.
History(d, f) == IF d.origin[f] # NoOrigin /\ d.origin[f].name = d.rows[f].name
                 THEN [address |-> d.origin[f].address, name |-> d.origin[f].originName,
                       hops |-> d.origin[f].hops, ratio |-> d.origin[f].ratio]
                 ELSE NewLabel(f, d.rows[f].name)

\* The history of the label after the port of result p.
Extended(d, p) == LET h == History(d, p.ref)
                  IN  [address |-> h.address, name |-> h.name, hops |-> h.hops + 1, ratio |-> h.ratio * p.ratio]

-----------------------------------------------------------------------------
(* Reading the results *)

\* The results file has the names of the functions as the diff saw them.
Seen(d, f, kind) == IF kind = "equal" THEN d.rows[f].mangled ELSE d.rows[f].name

ResultRow(r, t, p) == [pair |-> p, refName |-> Seen(r, p.ref, p.kind), tgtName |-> Seen(t, p.tgt, p.kind)]

NameMatchesRow(n, row) == n = row.name \/ n = row.mangled

\* Both functions exist, and have the names the results file says.
Describes(row, r, t) == /\ HasFunction(r, row.pair.ref) /\ HasFunction(t, row.pair.tgt)
                        /\ NameMatchesRow(row.refName, r.rows[row.pair.ref])
                        /\ NameMatchesRow(row.tgtName, t.rows[row.pair.tgt])

Selected(p, opt) == p.category \in {"best", "partial"} \cup opt.include

-----------------------------------------------------------------------------
(* Pass 1: one decision per row, in stored order *)

\* An earlier selected row claimed the target function, whatever became of it.
Claimed(ps, opt, i) == \E j \in 1..(i - 1) : Selected(ps[j], opt) /\ ps[j].tgt = ps[i].tgt

\* Mutant: --overwrite alone lets a "stripped" row replace a real name.
OverwritesAlways(p, opt) == opt.overwrite

MayOverwrite(p, opt) == opt.overwrite /\ (p.kind # "stripped" \/ opt.overwriteStripped)

BelowRatio(h, opt) == h.ratio * One < opt.minRatio * One^h.hops

Decision(r, t, ps, opt, i) ==
    LET p == ps[i]
        new == r.rows[p.ref].name
        old == t.rows[p.tgt].name
        h == Extended(r, p)
    IN  IF ~Selected(p, opt) THEN "not_selected"
        ELSE IF Claimed(ps, opt, i) THEN "skipped_conflict"
        ELSE IF ~IsPortableSymbol(new) THEN "skipped_not_portable"
        ELSE IF old = new THEN "confirmed"
        ELSE IF opt.maxHops >= 0 /\ h.hops > opt.maxHops THEN "skipped_hops"
        ELSE IF BelowRatio(h, opt) THEN "skipped_ratio"
        ELSE IF IsPortableSymbol(old) /\ ~MayOverwrite(p, opt) THEN "skipped_existing"
        ELSE "applied"

Decisions(r, t, ps, opt) == [i \in DOMAIN ps |-> Decision(r, t, ps, opt, i)]

-----------------------------------------------------------------------------
(* Pass 2: no real name on two functions of the output *)

\* The row whose label function f gets.
Appliers(ps, dec, f) == {i \in DOMAIN ps : dec[i] = "applied" /\ ps[i].tgt = f}

Written(r, p) == LET row == r.rows[p.ref]
                 IN  [name |-> row.name,
                      mangled |-> IF IsPortableSymbol(row.mangled) THEN row.mangled ELSE row.name]

FinalRow(r, t, ps, dec, f) == IF Appliers(ps, dec, f) = {} THEN t.rows[f]
                              ELSE Written(r, ps[CHOOSE i \in Appliers(ps, dec, f) : TRUE])

SharesName(a, b) == IsPortableSymbol(a.name) /\ a.name = b.name
SharesMangled(a, b) == IsPortableSymbol(a.mangled) /\ a.mangled = b.mangled

\* The applications whose name, or mangled name, another function of the output has as well.
Duplicates(r, t, ps, dec) ==
    {i \in DOMAIN ps :
        /\ dec[i] = "applied"
        /\ \E f \in Functions \ {ps[i].tgt} :
              LET other == FinalRow(r, t, ps, dec, f)
              IN  /\ other # NoRow
                  /\ SharesName(Written(r, ps[i]), other) \/ SharesMangled(Written(r, ps[i]), other)}

JobPairs == [i \in DOMAIN job.rows |-> job.rows[i].pair]
JobDuplicates == Duplicates(dbs[job.ref], dbs[job.tgt], JobPairs, job.dec)

Withdrawn(dec, gone) == [i \in DOMAIN dec |-> IF i \in gone THEN "skipped_duplicate_name" ELSE dec[i]]

-----------------------------------------------------------------------------
(* The output *)

\* Mutant: the chain repeats the build of the reference.
LineageWithSource(parent, source, target) == parent \o <<source, target>>

BuildLineage(parent, source, target) == IF parent = <<>> THEN <<source, target>> ELSE Append(parent, target)

HopRecord(r, t, dec, opt) == [source |-> r.md5, target |-> t.md5, options |-> opt,
                              applied |-> Cardinality({i \in DOMAIN dec : dec[i] = "applied"})]

OriginRow(r, p) == LET h == Extended(r, p)
                   IN  [name |-> r.rows[p.ref].name, address |-> h.address, originName |-> h.name,
                        hops |-> h.hops, ratio |-> h.ratio]

\* Mutant: the origin rows of the target stay in the copy.
PortedMerging(r, t, ps, dec, opt) ==
    [rows    |-> [f \in Functions |-> FinalRow(r, t, ps, dec, f)],
     origin  |-> [f \in Functions |-> IF Appliers(ps, dec, f) = {} THEN t.origin[f]
                                      ELSE OriginRow(r, ps[CHOOSE i \in Appliers(ps, dec, f) : TRUE])],
     hops    |-> Append(r.hops, HopRecord(r, t, dec, opt)),
     lineage |-> BuildLineage(r.lineage, r.md5, t.md5),
     md5     |-> t.md5]

\* The copy of the target with the labels; its dsig_* tables are the reference's and this hop, whatever
\* tables the target had.
Ported(r, t, ps, dec, opt) ==
    [rows    |-> [f \in Functions |-> FinalRow(r, t, ps, dec, f)],
     origin  |-> [f \in Functions |-> IF Appliers(ps, dec, f) = {} THEN NoOrigin
                                      ELSE OriginRow(r, ps[CHOOSE i \in Appliers(ps, dec, f) : TRUE])],
     hops    |-> Append(r.hops, HopRecord(r, t, dec, opt)),
     lineage |-> BuildLineage(r.lineage, r.md5, t.md5),
     md5     |-> t.md5]

-----------------------------------------------------------------------------

\* An export as InspectDatabase reads it: its rows, and no history yet.
Exported(e) == [rows |-> Table[e], origin |-> [f \in Functions |-> NoOrigin],
                hops |-> <<>>, lineage |-> <<>>, md5 |-> e]

\* Where a label has been, for 0, 1, ... ports ago: the build, the address, the product of the ratios
\* since, and whether a port left the label there, in a copy of its own target.  One that somebody has
\* just given has been nowhere else.
Fresh(d, f) == [k \in {0} |-> [build |-> d.md5, address |-> f, ratio |-> 1, kept |-> FALSE]]

Init == /\ dbs = [d \in Databases |-> IF d \in Exports THEN Exported(d) ELSE Missing]
        /\ results = <<>>
        /\ job = [rows |-> <<>>]
        /\ pc = "idle"
        /\ outcome = "none"
        /\ ports = 0
        /\ edits = 0
        /\ trail = [d \in Databases |-> IF d \in Exports THEN [f \in Functions |-> Fresh(Exported(d), f)]
                                        ELSE Missing]

\* A diff of two databases leaves a results file.
Diff(r, t, ps) == /\ pc = "idle"
                  /\ dbs[r] # Missing /\ dbs[t] # Missing
                  /\ \A i \in DOMAIN ps : HasFunction(dbs[r], ps[i].ref) /\ HasFunction(dbs[t], ps[i].tgt)
                  /\ results' = [i \in DOMAIN ps |-> ResultRow(dbs[r], dbs[t], ps[i])]
                  /\ outcome' = "none"
                  /\ UNCHANGED <<dbs, job, pc, ports, edits, trail>>

\* The user gives a function another name, in the database itself.
Relabel(d, f, n) == /\ pc = "idle" /\ edits < MaxEdits
                    /\ HasFunction(dbs[d], f)
                    /\ n # dbs[d].rows[f].name
                    /\ dbs[d].origin[f] # NoOrigin => n # dbs[d].origin[f].name
                    /\ dbs' = [dbs EXCEPT ![d].rows[f] = [name |-> n, mangled |-> n]]
                    /\ trail' = [trail EXCEPT ![d][f] = Fresh(dbs[d], f)]
                    /\ edits' = edits + 1
                    /\ outcome' = "none"
                    /\ UNCHANGED <<results, job, pc, ports>>

\* A row of the results is not about these two databases: nothing is written.
Refuse(r, t) == /\ pc = "idle"
                /\ dbs[r] # Missing /\ dbs[t] # Missing
                /\ \E i \in DOMAIN results : ~Describes(results[i], dbs[r], dbs[t])
                /\ outcome' = "input"
                /\ UNCHANGED <<dbs, results, job, pc, ports, edits, trail>>

StartPort(r, t, o, opt) ==
    /\ pc = "idle"
    /\ o \notin {r, t}
    /\ dbs[r] # Missing /\ dbs[t] # Missing
    /\ ports < MaxPorts /\ ports' = ports + 1
    /\ \A i \in DOMAIN results : Describes(results[i], dbs[r], dbs[t])
    /\ LET ps == [i \in DOMAIN results |-> results[i].pair]
       IN  job' = [ref |-> r, tgt |-> t, out |-> o, opt |-> opt, rows |-> results,
                   dec |-> Decisions(dbs[r], dbs[t], ps, opt)]
    /\ pc' = "dedup"
    /\ outcome' = "none"
    /\ UNCHANGED <<dbs, results, edits, trail>>

\* One round of pass 2.  A withdrawn application gives the function its old name back, which may be a
\* new duplicate.
DedupRound == /\ pc = "dedup"
              /\ JobDuplicates # {}
              /\ job' = [job EXCEPT !.dec = Withdrawn(@, JobDuplicates)]
              /\ UNCHANGED <<dbs, results, pc, outcome, ports, edits, trail>>

\* The trail of the label of result p, one port on.
Carried(tr, t, p) ==
    LET old == tr[p.ref]
    IN  [k \in {0} \cup {n + 1 : n \in DOMAIN old} |->
            IF k = 0 THEN [build |-> t.md5, address |-> p.tgt, ratio |-> 1, kept |-> FALSE]
                     ELSE [old[k - 1] EXCEPT !.ratio = @ * p.ratio]]

\* Any other label of the output comes with the copy of the target, from wherever it had been.
Kept(old) == [old EXCEPT ![0].kept = TRUE]

Trails(tr, own, t, ps, dec) ==
    [f \in Functions |-> IF Appliers(ps, dec, f) = {} THEN Kept(own[f])
                         ELSE Carried(tr, t, ps[CHOOSE i \in Appliers(ps, dec, f) : TRUE])]

WriteAs(out) == /\ dbs' = [dbs EXCEPT ![job.out] = out]
                /\ trail' = [trail EXCEPT ![job.out] = Trails(trail[job.ref], trail[job.tgt], dbs[job.tgt], JobPairs, job.dec)]
                /\ job' = [rows |-> <<>>]
                /\ pc' = "idle"
                /\ outcome' = "ok"
                /\ UNCHANGED <<results, ports, edits>>

Output == Ported(dbs[job.ref], dbs[job.tgt], JobPairs, job.dec, job.opt)

\* Mutant: one round is taken to be enough.
WriteAfterOneRound == /\ pc = "dedup"
                      /\ JobDuplicates = {} \/ \E i \in DOMAIN job.dec : job.dec[i] = "skipped_duplicate_name"
                      /\ WriteAs(Output)

\* Nothing is left to withdraw: the output is written.
WriteOutput == /\ pc = "dedup"
               /\ JobDuplicates = {}
               /\ WriteAs(Output)

Next == \/ \E j \in Jobs : \/ \E ps \in Diffs : Diff(j[1], j[2], ps)
                          \/ Refuse(j[1], j[2])
                          \/ \E opt \in Settings : StartPort(j[1], j[2], j[3], opt)
        \/ \E d \in Databases, f \in Functions, n \in UserNames : Relabel(d, f, n)
        \/ DedupRound \/ WriteOutput

Spec == Init /\ [][Next]_vars /\ WF_vars(DedupRound) /\ WF_vars(WriteOutput)

-----------------------------------------------------------------------------
(* Properties *)

Present == {d \in Databases : dbs[d] # Missing}

\* The builds a database descends from, its own last.
Chain(d) == IF d.lineage = <<>> THEN <<d.md5>> ELSE d.lineage

\* What database d says of the label of f: so many ports ago it was at this address, and the ratios of
\* those ports have this product (dsig_name_origin).
RecordIsTrue(d, f, past) == LET h == History(d, f)
                            IN  /\ h.hops \in DOMAIN past
                                /\ h.ratio = past[h.hops].ratio /\ h.address = past[h.hops].address

\* The last builds of the lineage of d are the ones that this label passed through (dsig_provenance).
LineageIsTrue(d, f, past) == LET h == History(d, f)
                                 chain == Chain(d)
                             IN  /\ h.hops < Len(chain)
                                 /\ \A k \in 0..h.hops : chain[Len(chain) - k] = past[k].build

\* Nothing is left out: the label was first given there, or a port left it there in a copy of its own
\* target, whose tables the output does not have (Write, "replaced, not merged").
RecordIsComplete(d, f, past) == LET h == History(d, f)
                                IN  h.hops + 1 \in DOMAIN past => past[h.hops].kept

\* What a database says of a label is true of where the label has been, over any number of ports and
\* edits, whether it was carried or only copied with a target: how many ports carried it since it was
\* given or last kept, the address there, the product of their ratios, and every build on the way
\* (PortLabels, "Inherit the reference's history only while ..."; BuildLineage).
HistoryIsTrue == \A d \in Present, f \in Functions :
                   dbs[d].rows[f] # NoRow => /\ RecordIsTrue(dbs[d], f, trail[d][f])
                                             /\ LineageIsTrue(dbs[d], f, trail[d][f])
                                             /\ RecordIsComplete(dbs[d], f, trail[d][f])

\* README.md:226 of dsig_name_origin: "`cumulative_ratio` (the product of the ratios of every hop)", back
\* to the name "in the hand-labelled build": an origin row in force records all ports that carried the
\* label.  Not so when one of them carried it to a database that was the target of another port.
RatioOfEveryHop == \A d \in Present, f \in Functions :
                     dbs[d].rows[f] # NoRow /\ dbs[d].origin[f] # NoOrigin
                       /\ dbs[d].origin[f].name = dbs[d].rows[f].name =>
                         LET past == trail[d][f]
                             first == CHOOSE k \in DOMAIN past : k + 1 \notin DOMAIN past
                         IN  /\ dbs[d].origin[f].hops = first
                             /\ dbs[d].origin[f].ratio = past[first].ratio

\* A port never puts a real name on a function while another function of the output has it, be it from
\* the port or from before (pass 2).
AppliedNamesAreUnique == [][\A o \in Outputs : dbs'[o] # dbs[o] /\ pc = "dedup" =>
                              \A f, g \in Functions :
                                f # g /\ dbs'[o].origin[f] # NoOrigin /\ dbs'[o].rows[g] # NoRow =>
                                  /\ ~SharesName(dbs'[o].rows[f], dbs'[o].rows[g])
                                  /\ ~SharesMangled(dbs'[o].rows[f], dbs'[o].rows[g])]_vars

\* A real name of the target survives unless the options allow the very row that replaced it, and a
\* label that is withdrawn gives the old name back (--overwrite, --overwrite-stripped, pass 2).
RealNamesSurvive == [][pc = "dedup" /\ pc' = "idle" =>
                         \A f \in Functions :
                           LET old == dbs[job.tgt].rows[f]
                               new == dbs'[job.out].rows[f]
                           IN  old # NoRow /\ IsPortableSymbol(old.name) /\ new # old =>
                                 /\ job.opt.overwrite
                                 /\ \E i \in DOMAIN job.rows :
                                      /\ JobPairs[i].tgt = f
                                      /\ new.name = dbs[job.ref].rows[JobPairs[i].ref].name
                                      /\ JobPairs[i].kind # "stripped" \/ job.opt.overwriteStripped]_vars
=============================================================================
