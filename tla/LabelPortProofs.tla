---------------------------- MODULE LabelPortProofs ----------------------------
(***************************************************************************)
(* Proofs about LabelPort, for all exports, results, options and numbers   *)
(* of ports and edits.                                                     *)
(*                                                                         *)
(* What a database says of its labels (Truthful) is a matter of that       *)
(* database and of the trails of its labels alone.  So the lemmas say it   *)
(* of an export, of a database with one label changed, and of the output   *)
(* of a port between truthful databases; IInv then has little more than    *)
(* the types and what the running port decided.                            *)
(***************************************************************************)
EXTENDS LabelPort, TLAPS

Mark == [build : Exports, address : Functions, ratio : Nat, kept : BOOLEAN]

\* A trail has a mark for 0, 1, ..., n ports ago.
IsTrail(past) == \E n \in Nat : past \in [0..n -> Mark]

IsDatabase(d) == /\ d = [rows |-> d.rows, origin |-> d.origin, hops |-> d.hops, lineage |-> d.lineage, md5 |-> d.md5]
                 /\ d.rows \in [Functions -> Rows \cup {NoRow}]
                 /\ d.origin \in [Functions -> Origins \cup {NoOrigin}]
                 /\ d.lineage \in Seq(Exports)
                 /\ d.md5 \in Exports

\* What database d says of the label of f is true of where the label has been.
TellsTruth(d, f, past) == RecordIsTrue(d, f, past) /\ LineageIsTrue(d, f, past) /\ RecordIsComplete(d, f, past)

Truthful(d, tr) == \A f \in Functions : d.rows[f] # NoRow => TellsTruth(d, f, tr[f])

\* The lineage ends with the build of the database itself.
EndsWithItself(d) == Chain(d)[Len(Chain(d))] = d.md5

\* Now the label is here: on f, in the build of d.
IsHere(d, f, past) == /\ IsTrail(past)
                      /\ past[0].build = d.md5 /\ past[0].address = f /\ past[0].ratio = 1

Sound(d, tr) == /\ IsDatabase(d) /\ tr = [f \in Functions |-> tr[f]] /\ \A f \in Functions : IsHere(d, f, tr[f])
                /\ EndsWithItself(d) /\ Truthful(d, tr)

\* The chain of a database is a sequence that is not empty.
LEMMA ChainIs == ASSUME NEW d, IsDatabase(d)
                 PROVE  Chain(d) \in Seq(Exports) /\ Len(Chain(d)) \in Nat /\ Len(Chain(d)) >= 1
<1>1. CASE d.lineage = <<>>
  <2>1. Chain(d) = <<d.md5>> /\ d.md5 \in Exports
    BY <1>1 DEF Chain, IsDatabase
  <2> QED
    BY <2>1
<1>2. CASE d.lineage # <<>>
  BY <1>2 DEF Chain, IsDatabase
<1> QED
  BY <1>1, <1>2

\* A label whose history begins here: somebody has just given it, or a port has left it here.
LEMMA LocalIsTrue == ASSUME NEW d, IsDatabase(d), EndsWithItself(d), NEW f \in Functions,
                            History(d, f) = NewLabel(f, d.rows[f].name),
                            NEW past, IsHere(d, f, past), 1 \in DOMAIN past => past[0].kept
                     PROVE  TellsTruth(d, f, past)
<1>1. Len(Chain(d)) \in Nat /\ Len(Chain(d)) >= 1
  BY ChainIs
<1>2. History(d, f).hops = 0 /\ History(d, f).ratio = 1 /\ History(d, f).address = f
  BY DEF NewLabel
<1>3. /\ 0 \in DOMAIN past /\ past[0].build = d.md5 /\ past[0].address = f /\ past[0].ratio = 1
  BY DEF IsHere, IsTrail
<1>4. RecordIsTrue(d, f, past)
  BY <1>2, <1>3 DEF RecordIsTrue
<1>5. Len(Chain(d)) - 0 = Len(Chain(d)) /\ (\A k \in 0..0 : k = 0) /\ 0 < Len(Chain(d)) /\ 0 + 1 = 1
  BY <1>1
<1>6. LineageIsTrue(d, f, past)
  BY <1>2, <1>3, <1>5 DEF LineageIsTrue, EndsWithItself
<1>7. RecordIsComplete(d, f, past)
  BY <1>2, <1>5 DEF RecordIsComplete
<1> QED
  BY <1>4, <1>6, <1>7 DEF TellsTruth

\* A label that somebody has just given has been nowhere else.
LEMMA FreshIsHere == ASSUME NEW d, IsDatabase(d), NEW f \in Functions
                     PROVE  IsHere(d, f, Fresh(d, f)) /\ 1 \notin DOMAIN Fresh(d, f)
<1>1. [build |-> d.md5, address |-> f, ratio |-> 1, kept |-> FALSE] \in Mark
  BY DEF Mark, IsDatabase
<1>2. Fresh(d, f) \in [0..0 -> Mark] /\ Fresh(d, f)[0] = [build |-> d.md5, address |-> f, ratio |-> 1, kept |-> FALSE]
  BY <1>1 DEF Fresh
<1> QED
  BY <1>2 DEF IsHere, IsTrail, Fresh

\* An export has no history yet.
LEMMA ExportIsSound == ASSUME NEW e \in Exports
                       PROVE  Sound(Exported(e), [f \in Functions |-> Fresh(Exported(e), f)])
<1> DEFINE d == Exported(e)
<1>1. /\ d = [rows |-> d.rows, origin |-> d.origin, hops |-> d.hops, lineage |-> d.lineage, md5 |-> d.md5]
      /\ d.rows = Table[e] /\ d.origin = [f \in Functions |-> NoOrigin] /\ d.lineage = <<>> /\ d.md5 = e
  BY DEF Exported
<1> HIDE DEF d
<1>2. IsDatabase(d)
  BY <1>1, PortConstants DEF IsDatabase
<1>3. EndsWithItself(d)
  <2>1. Chain(d) = <<e>>
    BY <1>1 DEF Chain
  <2> QED
    BY <1>1, <2>1 DEF EndsWithItself
<1>4. \A f \in Functions : History(d, f) = NewLabel(f, d.rows[f].name)
  BY <1>1 DEF History
<1>5. \A f \in Functions : IsHere(d, f, Fresh(d, f)) /\ TellsTruth(d, f, Fresh(d, f))
  BY <1>2, <1>3, <1>4, FreshIsHere, LocalIsTrue
<1> QED
  BY <1>2, <1>3, <1>5 DEF Sound, Truthful, d

\* A changed label begins its history anew; the others keep theirs.
LEMMA RelabelIsSound ==
  ASSUME NEW d, NEW tr, Sound(d, tr), NEW f \in Functions, NEW n \in RealNames, NEW new, NEW mark,
         d.origin[f] # NoOrigin => n # d.origin[f].name,
         new = [rows |-> [d.rows EXCEPT ![f] = [name |-> n, mangled |-> n]], origin |-> d.origin,
                hops |-> d.hops, lineage |-> d.lineage, md5 |-> d.md5],
         mark = [tr EXCEPT ![f] = Fresh(d, f)]
  PROVE  Sound(new, mark)
<1>1. /\ IsDatabase(d) /\ EndsWithItself(d) /\ Truthful(d, tr)
      /\ tr = [g \in Functions |-> tr[g]] /\ \A g \in Functions : IsHere(d, g, tr[g])
  BY DEF Sound
<1>2. [name |-> n, mangled |-> n] \in Rows
  BY DEF Rows, Symbols
<1>3. IsDatabase(new)
  BY <1>1, <1>2 DEF IsDatabase
<1>4. Chain(new) = Chain(d)
  BY DEF Chain
<1>5. EndsWithItself(new)
  BY <1>1, <1>4 DEF EndsWithItself
<1>6. Fresh(new, f) = Fresh(d, f)
  BY DEF Fresh
<1>7. new.rows[f].name = n
  BY <1>1 DEF IsDatabase
<1>8. History(new, f) = NewLabel(f, new.rows[f].name)
  BY <1>7 DEF History
<1>9. mark = [g \in Functions |-> mark[g]] /\ mark[f] = Fresh(new, f) /\ \A g \in Functions : g # f => mark[g] = tr[g]
  BY <1>1, <1>6
<1>10. IsHere(new, f, mark[f]) /\ TellsTruth(new, f, mark[f])
  BY <1>3, <1>5, <1>8, <1>9, FreshIsHere, LocalIsTrue
<1>11. \A g \in Functions : IsHere(new, g, mark[g])
  BY <1>1, <1>9, <1>10 DEF IsHere
<1>12. ASSUME NEW g \in Functions, g # f, new.rows[g] # NoRow PROVE TellsTruth(new, g, mark[g])
  <2>1. new.rows[g] = d.rows[g] /\ mark[g] = tr[g]
    BY <1>1, <1>9, <1>12 DEF IsDatabase
  <2>2. History(new, g) = History(d, g)
    BY <2>1 DEF History
  <2>3. TellsTruth(d, g, tr[g])
    BY <1>1, <1>12, <2>1 DEF Truthful
  <2> QED
    BY <1>4, <2>1, <2>2, <2>3 DEF TellsTruth, RecordIsTrue, LineageIsTrue, RecordIsComplete
<1> QED
  BY <1>3, <1>5, <1>9, <1>10, <1>11, <1>12 DEF Sound, Truthful

\* The types of what a port carries over.
LEMMA HistoryType == ASSUME NEW d, IsDatabase(d), NEW f \in Functions, d.rows[f] # NoRow
                     PROVE  LET h == History(d, f)
                            IN  h.address \in Functions /\ h.name \in Symbols /\ h.hops \in Nat /\ h.ratio \in Nat
<1>1. d.rows[f] \in Rows /\ d.rows[f].name \in Symbols
  BY DEF IsDatabase, Rows
<1>2. CASE d.origin[f] # NoOrigin /\ d.origin[f].name = d.rows[f].name
  <2>1. d.origin[f] \in Origins
    BY <1>2 DEF IsDatabase
  <2> QED
    BY <1>2, <2>1 DEF History, Origins
<1>3. CASE ~(d.origin[f] # NoOrigin /\ d.origin[f].name = d.rows[f].name)
  BY <1>1, <1>3 DEF History, NewLabel
<1> QED
  BY <1>2, <1>3

\* What a port writes for result p: the row and its origin.
LEMMA AppliedLabel ==
  ASSUME NEW r, NEW tr, Sound(r, tr), NEW p \in Pairings, r.rows[p.ref] # NoRow
  PROVE  /\ Written(r, p) \in Rows /\ Written(r, p).name = r.rows[p.ref].name
         /\ OriginRow(r, p) \in Origins /\ OriginRow(r, p) # NoOrigin
<1>1. IsDatabase(r) /\ p.ref \in Functions /\ p.ratio \in Nat
  BY PortConstants DEF Sound, Pairings
<1>2. r.rows[p.ref] \in Rows /\ r.rows[p.ref].name \in Symbols /\ r.rows[p.ref].mangled \in Symbols
  BY <1>1 DEF IsDatabase, Rows
<1>3. Written(r, p) \in Rows /\ Written(r, p).name = r.rows[p.ref].name
  BY <1>2 DEF Written, Rows
<1>4. LET h == History(r, p.ref)
      IN  h.address \in Functions /\ h.name \in Symbols /\ h.hops \in Nat /\ h.ratio \in Nat
  BY <1>1, HistoryType
<1>5. \A x, y \in Nat : x + 1 \in Nat /\ x * y \in Nat
  OBVIOUS
<1>6. OriginRow(r, p) = [name |-> r.rows[p.ref].name, address |-> History(r, p.ref).address,
                         originName |-> History(r, p.ref).name, hops |-> History(r, p.ref).hops + 1,
                         ratio |-> History(r, p.ref).ratio * p.ratio]
  BY DEF OriginRow, Extended
<1>7. OriginRow(r, p) \in Origins
  BY <1>1, <1>2, <1>4, <1>5, <1>6 DEF Origins
<1>8. OriginRow(r, p) # NoOrigin
  BY <1>7, PortConstants
<1> QED
  BY <1>3, <1>7, <1>8

\* A label that is carried is here now, and every place it has been at is one port further back.
LEMMA CarriedIsHere ==
  ASSUME NEW r, NEW tr, Sound(r, tr), NEW t, NEW d, IsDatabase(d), d.md5 = t.md5, NEW p \in Pairings
  PROVE  LET old == tr[p.ref]
             new == Carried(tr, t, p)
         IN  /\ IsHere(d, p.tgt, new)
             /\ \A k \in Nat : k + 1 \in DOMAIN new <=> k \in DOMAIN old
             /\ \A k \in DOMAIN old : /\ new[k + 1].build = old[k].build /\ new[k + 1].address = old[k].address
                                      /\ new[k + 1].ratio = old[k].ratio * p.ratio /\ new[k + 1].kept = old[k].kept
<1> DEFINE old == tr[p.ref]
           new == Carried(tr, t, p)
           here == [build |-> t.md5, address |-> p.tgt, ratio |-> 1, kept |-> FALSE]
           back(k) == [old[k - 1] EXCEPT !.ratio = @ * p.ratio]
<1>1. p.ref \in Functions /\ p.tgt \in Functions /\ p.ratio \in Nat
  BY PortConstants DEF Pairings
<1>2. PICK n \in Nat : old \in [0..n -> Mark]
  BY <1>1 DEF Sound, IsHere, IsTrail
<1>3. DOMAIN old = 0..n /\ {0} \cup {i + 1 : i \in DOMAIN old} = 0..(n + 1)
  <2>1. DOMAIN old = 0..n
    BY <1>2
  <2>2. ASSUME NEW k \in 0..(n + 1), k # 0 PROVE k \in {i + 1 : i \in 0..n}
    <3>1. k - 1 \in 0..n /\ (k - 1) + 1 = k
      BY <1>2, <2>2
    <3> QED
      BY <3>1
  <2>3. \A i \in 0..n : i + 1 \in 0..(n + 1)
    BY <1>2
  <2>4. 0 \in 0..(n + 1)
    BY <1>2
  <2> QED
    BY <2>1, <2>2, <2>3, <2>4
<1>4. new = [k \in 0..(n + 1) |-> IF k = 0 THEN here ELSE back(k)]
  BY <1>3 DEF Carried
<1>5. \A k \in DOMAIN old : k \in 0..n /\ old[k] \in Mark
  BY <1>2
<1>6. \A x, y \in Nat : x * y \in Nat
  OBVIOUS
<1>7. here \in Mark
  BY <1>1 DEF Mark, IsDatabase
<1> HIDE DEF old, new, here
<1>8. ASSUME NEW k \in DOMAIN old
      PROVE  /\ k \in Nat /\ k + 1 \in DOMAIN new
             /\ new[k + 1] = [old[k] EXCEPT !.ratio = @ * p.ratio] /\ new[k + 1] \in Mark
  <2>1. k \in 0..n /\ k + 1 \in 0..(n + 1) /\ k + 1 # 0 /\ (k + 1) - 1 = k
    BY <1>2, <1>5
  <2>2. new[k + 1] = back(k + 1)
    BY <1>4, <2>1
  <2>3. back(k + 1) = [old[k] EXCEPT !.ratio = @ * p.ratio]
    BY <2>1
  <2>4. [old[k] EXCEPT !.ratio = @ * p.ratio] \in Mark
    BY <1>1, <1>5, <1>6 DEF Mark
  <2> QED
    BY <1>4, <2>1, <2>2, <2>3, <2>4
<1>9. DOMAIN new = 0..(n + 1) /\ new[0] = here /\ 0 \in 0..(n + 1)
  BY <1>2, <1>4
<1>10. new \in [0..(n + 1) -> Mark]
  <2>1. ASSUME NEW k \in 0..(n + 1) PROVE new[k] \in Mark
    <3>1. CASE k = 0
      BY <1>7, <1>9, <3>1
    <3>2. CASE k # 0
      <4>1. k - 1 \in DOMAIN old /\ (k - 1) + 1 = k
        BY <1>2, <1>3, <3>2
      <4> QED
        BY <1>8, <4>1
    <3> QED
      BY <3>1, <3>2
  <2> QED
    BY <1>4, <1>9, <2>1
<1>11. IsHere(d, p.tgt, new)
  <2>1. n + 1 \in Nat
    BY <1>2
  <2> QED
    BY <1>9, <1>10, <2>1 DEF IsHere, IsTrail, here
<1>12. \A k \in Nat : k + 1 \in DOMAIN new <=> k \in DOMAIN old
  BY <1>2, <1>3, <1>9
<1>13. \A k \in DOMAIN old : /\ new[k + 1].build = old[k].build /\ new[k + 1].address = old[k].address
                             /\ new[k + 1].ratio = old[k].ratio * p.ratio /\ new[k + 1].kept = old[k].kept
  BY <1>5, <1>8 DEF Mark
<1> QED
  BY <1>11, <1>12, <1>13 DEF old, new

\* A label that is left on its target is where it was.
LEMMA KeptIsHere == ASSUME NEW t, NEW d, d.md5 = t.md5, NEW f, NEW past, IsHere(t, f, past)
                    PROVE  IsHere(d, f, Kept(past)) /\ Kept(past)[0].kept
<1>1. PICK n \in Nat : past \in [0..n -> Mark]
  BY DEF IsHere, IsTrail
<1>2. 0 \in 0..n /\ past[0] \in Mark
  BY <1>1
<1>3. Kept(past) = [past EXCEPT ![0] = [past[0] EXCEPT !.kept = TRUE]] /\ [past[0] EXCEPT !.kept = TRUE] \in Mark
  BY <1>2 DEF Kept, Mark
<1>4. Kept(past) \in [0..n -> Mark] /\ Kept(past)[0] = [past[0] EXCEPT !.kept = TRUE]
  BY <1>1, <1>2, <1>3
<1> QED
  BY <1>2, <1>4 DEF IsHere, IsTrail, Mark

\* One more build in the lineage: every build of the chain is one step further from its end.
LEMMA LineageGrows ==
  ASSUME NEW r, NEW new, IsDatabase(r), NEW b \in Exports, new.lineage = BuildLineage(r.lineage, r.md5, b)
  PROVE  /\ new.lineage \in Seq(Exports) /\ Chain(new) = Append(Chain(r), b)
         /\ Len(Chain(new)) = Len(Chain(r)) + 1 /\ Chain(new)[Len(Chain(r)) + 1] = b
         /\ \A i \in 1..Len(Chain(r)) : Chain(new)[i] = Chain(r)[i]
<1>1. Chain(r) \in Seq(Exports) /\ Len(Chain(r)) \in Nat
  BY ChainIs
<1>2. new.lineage = Append(Chain(r), b)
  <2>1. CASE r.lineage = <<>>
    BY <2>1 DEF BuildLineage, Chain
  <2>2. CASE r.lineage # <<>>
    BY <2>2 DEF BuildLineage, Chain
  <2> QED
    BY <2>1, <2>2
<1>3. Append(Chain(r), b) \in Seq(Exports) /\ Append(Chain(r), b) # <<>>
  BY <1>1
<1>4. Chain(new) = Append(Chain(r), b)
  BY <1>2, <1>3 DEF Chain
<1> QED
  BY <1>1, <1>2, <1>3, <1>4

\* What the output says of a label that the port carried from a truthful reference.
LEMMA CarriedIsTrue ==
  ASSUME NEW r, NEW tr, Sound(r, tr), NEW t, t.md5 \in Exports, NEW p \in Pairings, r.rows[p.ref] # NoRow,
         NEW o, IsDatabase(o), o.lineage = BuildLineage(r.lineage, r.md5, t.md5), o.md5 = t.md5,
         o.rows[p.tgt].name = r.rows[p.ref].name, o.origin[p.tgt] = OriginRow(r, p), o.origin[p.tgt] # NoOrigin
  PROVE  TellsTruth(o, p.tgt, Carried(tr, t, p))
<1> DEFINE f == p.tgt
           old == tr[p.ref]
           new == Carried(tr, t, p)
           h == History(r, p.ref)
           n == Len(Chain(r))
<1>1. p.ref \in Functions /\ IsDatabase(r)
  BY DEF Pairings, Sound
<1>2. OriginRow(r, p) = [name |-> r.rows[p.ref].name, address |-> h.address, originName |-> h.name,
                         hops |-> h.hops + 1, ratio |-> h.ratio * p.ratio]
  BY DEF OriginRow, Extended
<1>3. History(o, f) = [address |-> h.address, name |-> h.name, hops |-> h.hops + 1, ratio |-> h.ratio * p.ratio]
  BY <1>2 DEF History
<1>4. TellsTruth(r, p.ref, old)
  BY <1>1 DEF Sound, Truthful
<1>5. h.hops \in Nat /\ n \in Nat
  BY <1>1, HistoryType, ChainIs
<1>6. /\ IsHere(o, f, new)
      /\ \A k \in Nat : k + 1 \in DOMAIN new <=> k \in DOMAIN old
      /\ \A k \in DOMAIN old : /\ new[k + 1].build = old[k].build /\ new[k + 1].address = old[k].address
                               /\ new[k + 1].ratio = old[k].ratio * p.ratio /\ new[k + 1].kept = old[k].kept
  BY CarriedIsHere
<1>7. /\ Chain(o) = Append(Chain(r), t.md5) /\ Len(Chain(o)) = n + 1 /\ Chain(o)[n + 1] = t.md5
      /\ \A i \in 1..n : Chain(o)[i] = Chain(r)[i]
  BY <1>1, LineageGrows
<1>8. /\ h.hops \in DOMAIN old /\ h.ratio = old[h.hops].ratio /\ h.address = old[h.hops].address
      /\ h.hops < n /\ \A k \in 0..h.hops : Chain(r)[n - k] = old[k].build
      /\ h.hops + 1 \in DOMAIN old => old[h.hops].kept
  BY <1>4 DEF TellsTruth, RecordIsTrue, LineageIsTrue, RecordIsComplete
<1>9. History(o, f).hops = h.hops + 1 /\ History(o, f).ratio = h.ratio * p.ratio /\ History(o, f).address = h.address
  BY <1>3
<1>10. \A k \in 0..h.hops : k \in DOMAIN old
  <2>1. PICK m \in Nat : old \in [0..m -> Mark]
    BY <1>1 DEF Sound, IsHere, IsTrail
  <2>2. DOMAIN old = 0..m
    BY <2>1
  <2> HIDE DEF old, h
  <2> QED
    BY <1>5, <1>8, <2>1, <2>2
<1>11. new[0].build = t.md5
  BY <1>6 DEF IsHere
<1> HIDE DEF old, new, h, n, f
<1>12. RecordIsTrue(o, f, new)
  <2>1. h.hops + 1 \in DOMAIN new
    BY <1>5, <1>6, <1>8
  <2>2. new[h.hops + 1].ratio = h.ratio * p.ratio /\ new[h.hops + 1].address = h.address
    BY <1>6, <1>8
  <2> QED
    BY <1>9, <2>1, <2>2 DEF RecordIsTrue
<1>13. LineageIsTrue(o, f, new)
  <2>1. h.hops + 1 < n + 1
    BY <1>5, <1>8
  <2>2. ASSUME NEW k \in 0..(h.hops + 1) PROVE Chain(o)[(n + 1) - k] = new[k].build
    <3>1. CASE k = 0
      <4>1. (n + 1) - k = n + 1
        BY <1>5, <3>1
      <4> QED
        BY <1>7, <1>11, <3>1, <4>1
    <3>2. CASE k # 0
      <4> DEFINE j == k - 1
      <4>1. j \in 0..h.hops /\ k = j + 1 /\ (n + 1) - k = n - j /\ n - j \in 1..n
        BY <1>5, <1>8, <2>2, <3>2
      <4> HIDE DEF j
      <4>2. new[k].build = old[j].build
        BY <1>6, <1>10, <4>1
      <4>3. Chain(o)[n - j] = Chain(r)[n - j] /\ Chain(r)[n - j] = old[j].build
        BY <1>7, <1>8, <4>1
      <4> QED
        BY <4>1, <4>2, <4>3
    <3> QED
      BY <3>1, <3>2
  <2> QED
    BY <1>7, <1>9, <2>1, <2>2 DEF LineageIsTrue
<1>14. RecordIsComplete(o, f, new)
  <2>1. h.hops + 1 \in Nat /\ (h.hops + 1 + 1 \in DOMAIN new => h.hops + 1 \in DOMAIN old)
    BY <1>5, <1>6
  <2>2. new[h.hops + 1].kept = old[h.hops].kept
    BY <1>6, <1>8
  <2> QED
    BY <1>8, <1>9, <2>1, <2>2 DEF RecordIsComplete
<1> QED
  BY <1>12, <1>13, <1>14 DEF TellsTruth, f, new

\* The output of a port between truthful databases.
LEMMA PortIsSound ==
  ASSUME NEW r, NEW tr, Sound(r, tr), NEW t, NEW own, Sound(t, own), NEW ps, NEW dec, NEW opt,
         \A i \in DOMAIN ps : ps[i] \in Pairings /\ r.rows[ps[i].ref] # NoRow
  PROVE  Sound(Ported(r, t, ps, dec, opt), Trails(tr, own, t, ps, dec))
<1> DEFINE o == Ported(r, t, ps, dec, opt)
           mark == Trails(tr, own, t, ps, dec)
           by(f) == CHOOSE i \in Appliers(ps, dec, f) : TRUE
<1>1. /\ o = [rows |-> o.rows, origin |-> o.origin, hops |-> o.hops, lineage |-> o.lineage, md5 |-> o.md5]
      /\ o.rows = [f \in Functions |-> FinalRow(r, t, ps, dec, f)]
      /\ o.origin = [f \in Functions |-> IF Appliers(ps, dec, f) = {} THEN NoOrigin ELSE OriginRow(r, ps[by(f)])]
      /\ o.lineage = BuildLineage(r.lineage, r.md5, t.md5) /\ o.md5 = t.md5
  BY DEF Ported
<1>2. mark = [f \in Functions |-> IF Appliers(ps, dec, f) = {} THEN Kept(own[f]) ELSE Carried(tr, t, ps[by(f)])]
  BY DEF Trails
<1>3. \A f \in Functions : FinalRow(r, t, ps, dec, f) = IF Appliers(ps, dec, f) = {} THEN t.rows[f]
                                                        ELSE Written(r, ps[by(f)])
  BY DEF FinalRow
<1>4. \A f \in Functions : Appliers(ps, dec, f) # {} => by(f) \in DOMAIN ps /\ ps[by(f)].tgt = f
  BY DEF Appliers
<1> HIDE DEF o, mark, by
<1>5. IsDatabase(r) /\ IsDatabase(t) /\ t.md5 \in Exports /\ \A f \in Functions : IsHere(t, f, own[f])
  BY DEF Sound, IsDatabase
<1>6. /\ o.lineage \in Seq(Exports) /\ Chain(o) = Append(Chain(r), t.md5)
      /\ Len(Chain(o)) = Len(Chain(r)) + 1 /\ Chain(o)[Len(Chain(r)) + 1] = t.md5
  BY <1>1, <1>5, LineageGrows
<1>7. EndsWithItself(o)
  BY <1>1, <1>6 DEF EndsWithItself
<1>8. ASSUME NEW f \in Functions, Appliers(ps, dec, f) = {}
      PROVE  o.rows[f] = t.rows[f] /\ o.origin[f] = NoOrigin /\ mark[f] = Kept(own[f])
  BY <1>1, <1>2, <1>3, <1>8
<1>9. ASSUME NEW f \in Functions, Appliers(ps, dec, f) # {}
      PROVE  /\ ps[by(f)] \in Pairings /\ ps[by(f)].tgt = f /\ r.rows[ps[by(f)].ref] # NoRow
             /\ o.rows[f] \in Rows /\ o.rows[f].name = r.rows[ps[by(f)].ref].name
             /\ o.origin[f] = OriginRow(r, ps[by(f)]) /\ o.origin[f] \in Origins /\ o.origin[f] # NoOrigin
             /\ mark[f] = Carried(tr, t, ps[by(f)])
  <2>1. /\ o.rows[f] = Written(r, ps[by(f)]) /\ o.origin[f] = OriginRow(r, ps[by(f)])
        /\ mark[f] = Carried(tr, t, ps[by(f)])
    BY <1>1, <1>2, <1>3, <1>9
  <2>2. ps[by(f)] \in Pairings /\ ps[by(f)].tgt = f /\ r.rows[ps[by(f)].ref] # NoRow
    BY <1>4, <1>9
  <2> QED
    BY <2>1, <2>2, AppliedLabel
<1>10. IsDatabase(o)
  <2>1. \A f \in Functions : o.rows[f] \in Rows \cup {NoRow} /\ o.origin[f] \in Origins \cup {NoOrigin}
    BY <1>5, <1>8, <1>9 DEF IsDatabase
  <2> QED
    BY <1>1, <1>5, <1>6, <2>1 DEF IsDatabase
<1>11. \A f \in Functions : IsHere(o, f, mark[f])
  <2>1. ASSUME NEW f \in Functions, Appliers(ps, dec, f) = {} PROVE IsHere(o, f, mark[f])
    BY <1>1, <1>5, <1>8, <2>1, KeptIsHere
  <2>2. ASSUME NEW f \in Functions, Appliers(ps, dec, f) # {} PROVE IsHere(o, f, mark[f])
    <3>1. IsHere(o, ps[by(f)].tgt, Carried(tr, t, ps[by(f)]))
      BY <1>1, <1>9, <1>10, <2>2, CarriedIsHere
    <3> QED
      BY <1>9, <2>2, <3>1
  <2> QED
    BY <2>1, <2>2
<1>12. ASSUME NEW f \in Functions, Appliers(ps, dec, f) = {} PROVE TellsTruth(o, f, mark[f])
  <2>1. History(o, f) = NewLabel(f, o.rows[f].name)
    BY <1>8, <1>12 DEF History
  <2>2. mark[f][0].kept
    BY <1>5, <1>8, <1>12, KeptIsHere
  <2> QED
    BY <1>7, <1>10, <1>11, <2>1, <2>2, LocalIsTrue
<1>13. ASSUME NEW f \in Functions, Appliers(ps, dec, f) # {} PROVE TellsTruth(o, f, mark[f])
  <2> DEFINE p == ps[by(f)]
  <2>1. /\ p \in Pairings /\ p.tgt = f /\ r.rows[p.ref] # NoRow /\ o.rows[f].name = r.rows[p.ref].name
        /\ o.origin[f] = OriginRow(r, p) /\ o.origin[f] # NoOrigin /\ mark[f] = Carried(tr, t, p)
    BY <1>9, <1>13
  <2> HIDE DEF p
  <2>2. TellsTruth(o, p.tgt, Carried(tr, t, p))
    BY <1>1, <1>5, <1>10, <2>1, CarriedIsTrue
  <2> QED
    BY <2>1, <2>2
<1>14. mark = [f \in Functions |-> mark[f]]
  BY <1>2
<1> QED
  BY <1>7, <1>10, <1>11, <1>12, <1>13, <1>14 DEF Sound, Truthful, o, mark

-----------------------------------------------------------------------------
(* The state *)

\* What the running port works on and has decided: every row is about two functions of its databases,
\* and a row is still applied only if pass 1 applied it.
PortAtWork ==
  pc = "dedup" =>
    /\ job = [ref |-> job.ref, tgt |-> job.tgt, out |-> job.out, opt |-> job.opt, rows |-> job.rows, dec |-> job.dec]
    /\ job.ref \in Present /\ job.tgt \in Present /\ job.out \in Outputs
    /\ \A i \in DOMAIN job.rows : /\ job.rows[i].pair \in Pairings
                                  /\ dbs[job.ref].rows[job.rows[i].pair.ref] # NoRow
    /\ DOMAIN job.dec = DOMAIN job.rows
    /\ \A i \in DOMAIN job.dec : job.dec[i] = "applied" =>
         Decision(dbs[job.ref], dbs[job.tgt], JobPairs, job.opt, i) = "applied"

IInv == /\ pc \in {"idle", "dedup"}
        /\ DOMAIN dbs = Databases /\ DOMAIN trail = Databases
        /\ dbs = [d \in Databases |-> dbs[d]] /\ trail = [d \in Databases |-> trail[d]]
        /\ \A d \in Present : Sound(dbs[d], trail[d])
        /\ \A i \in DOMAIN results : results[i].pair \in Pairings
        /\ PortAtWork

\* In the initial state only the exports are there.
LEMMA InitHolds == ASSUME Init PROVE IInv
<1>1. ASSUME NEW d \in Present PROVE Sound(dbs[d], trail[d])
  <2>1. d \in Databases /\ d \in Exports
    BY DEF Init, Present
  <2>2. dbs[d] = Exported(d) /\ trail[d] = [f \in Functions |-> Fresh(Exported(d), f)]
    BY <2>1 DEF Init
  <2> QED
    BY <2>1, <2>2, ExportIsSound
<1>2. pc = "idle" /\ DOMAIN results = {}
  BY DEF Init
<1>3. dbs = [d \in Databases |-> dbs[d]] /\ trail = [d \in Databases |-> trail[d]]
      /\ DOMAIN dbs = Databases /\ DOMAIN trail = Databases
  BY DEF Init
<1> QED
  BY <1>1, <1>2, <1>3 DEF IInv, PortAtWork

\* What the jobs, the results and the options are.
LEMMA JobTypes == /\ \A j \in Jobs : j[1] \in Databases /\ j[2] \in Databases /\ j[3] \in Outputs
                  /\ \A ps \in Diffs : \A i \in DOMAIN ps : ps[i] \in Pairings
<1>1. Jobs \subseteq Databases \X Databases \X Outputs /\ Diffs \subseteq Seq(Pairings)
  BY PortConstants
<1> QED
  BY <1>1

\* Steps that leave the databases and the port alone.
LEMMA ReadingStep == ASSUME IInv, NEW j \in Jobs, (\E ps \in Diffs : Diff(j[1], j[2], ps)) \/ Refuse(j[1], j[2])
                     PROVE  IInv'
<1>1. dbs' = dbs /\ trail' = trail /\ pc' = pc /\ pc = "idle"
  BY DEF Diff, Refuse
<1>2. \A i \in DOMAIN results' : results'[i].pair \in Pairings
  <2>1. CASE Refuse(j[1], j[2])
    BY <2>1 DEF Refuse, IInv
  <2>2. ASSUME NEW ps \in Diffs, Diff(j[1], j[2], ps) PROVE \A i \in DOMAIN results' : results'[i].pair \in Pairings
    <3>1. results' = [i \in DOMAIN ps |-> ResultRow(dbs[j[1]], dbs[j[2]], ps[i])]
      BY <2>2 DEF Diff
    <3>2. \A i \in DOMAIN ps : ResultRow(dbs[j[1]], dbs[j[2]], ps[i]).pair = ps[i] /\ ps[i] \in Pairings
      BY JobTypes DEF ResultRow
    <3> QED
      BY <3>1, <3>2
  <2> QED
    BY <2>1, <2>2
<1> QED
  BY <1>1, <1>2 DEF IInv, PortAtWork, Present

\* The user changes a label.
LEMMA RelabelStep == ASSUME IInv, NEW d \in Databases, NEW f \in Functions, NEW n \in UserNames, Relabel(d, f, n)
                     PROVE  IInv'
<1>1. /\ pc = "idle" /\ pc' = pc /\ results' = results /\ dbs[d] # Missing
      /\ dbs' = [dbs EXCEPT ![d].rows[f] = [name |-> n, mangled |-> n]]
      /\ trail' = [trail EXCEPT ![d][f] = Fresh(dbs[d], f)]
      /\ dbs[d].origin[f] # NoOrigin => n # dbs[d].origin[f].name
  BY DEF Relabel, HasFunction
<1>2. d \in Present /\ n \in RealNames /\ Sound(dbs[d], trail[d])
  BY <1>1, PortConstants DEF IInv, Present
<1>3. /\ DOMAIN dbs' = Databases /\ DOMAIN trail' = Databases
      /\ dbs' = [e \in Databases |-> dbs'[e]] /\ trail' = [e \in Databases |-> trail'[e]]
      /\ \A e \in Databases : e # d => dbs'[e] = dbs[e] /\ trail'[e] = trail[e]
      /\ dbs'[d] = [dbs[d] EXCEPT !.rows[f] = [name |-> n, mangled |-> n]]
      /\ trail'[d] = [trail[d] EXCEPT ![f] = Fresh(dbs[d], f)]
  BY <1>1 DEF IInv
<1>4. Sound(dbs'[d], trail'[d])
  <2> DEFINE old == dbs[d]
             new == dbs'[d]
  <2>1. old = [rows |-> old.rows, origin |-> old.origin, hops |-> old.hops, lineage |-> old.lineage, md5 |-> old.md5]
    BY <1>2 DEF Sound, IsDatabase
  <2>2. new = [old EXCEPT !.rows[f] = [name |-> n, mangled |-> n]]
    BY <1>3
  <2> HIDE DEF old, new
  <2>3. new = [rows |-> [old.rows EXCEPT ![f] = [name |-> n, mangled |-> n]], origin |-> old.origin,
               hops |-> old.hops, lineage |-> old.lineage, md5 |-> old.md5]
    BY <2>1, <2>2
  <2>4. /\ Sound(old, trail[d]) /\ (old.origin[f] # NoOrigin => n # old.origin[f].name)
        /\ trail'[d] = [trail[d] EXCEPT ![f] = Fresh(old, f)]
    BY <1>1, <1>2, <1>3 DEF old
  <2>5. Sound(new, trail'[d])
    BY <1>2, <2>3, <2>4, RelabelIsSound
  <2> QED
    BY <2>5 DEF new
<1>5. \A e \in Present' : Sound(dbs'[e], trail'[e])
  BY <1>3, <1>4 DEF IInv, Present
<1> QED
  BY <1>1, <1>3, <1>5 DEF IInv, PortAtWork

\* A port begins: pass 1 decides on every row of the results.
LEMMA StartStep == ASSUME IInv, NEW j \in Jobs, NEW opt \in Settings, StartPort(j[1], j[2], j[3], opt)
                   PROVE  IInv'
<1> DEFINE r == j[1]
           t == j[2]
           o == j[3]
           ps == [i \in DOMAIN results |-> results[i].pair]
<1>1. /\ dbs' = dbs /\ trail' = trail /\ results' = results /\ pc' = "dedup"
      /\ dbs[r] # Missing /\ dbs[t] # Missing
      /\ \A i \in DOMAIN results : Describes(results[i], dbs[r], dbs[t])
      /\ job' = [ref |-> r, tgt |-> t, out |-> o, opt |-> opt, rows |-> results, dec |-> Decisions(dbs[r], dbs[t], ps, opt)]
  BY DEF StartPort
<1>2. r \in Databases /\ t \in Databases /\ o \in Outputs
  BY JobTypes
<1> HIDE DEF r, t, o
<1>3. /\ job'.ref = r /\ job'.tgt = t /\ job'.out = o /\ job'.opt = opt /\ job'.rows = results
      /\ job'.dec = Decisions(dbs[r], dbs[t], ps, opt)
      /\ job' = [ref |-> job'.ref, tgt |-> job'.tgt, out |-> job'.out, opt |-> job'.opt, rows |-> job'.rows,
                 dec |-> job'.dec]
  BY <1>1
<1>4. \A i \in DOMAIN results : results[i].pair \in Pairings /\ dbs[r].rows[results[i].pair.ref] # NoRow
  BY <1>1 DEF IInv, Describes, HasFunction
<1>5. JobPairs' = ps
  BY <1>3 DEF JobPairs
<1>6. DOMAIN job'.dec = DOMAIN results /\ \A i \in DOMAIN results : job'.dec[i] = Decision(dbs[r], dbs[t], ps, opt, i)
  BY <1>3 DEF Decisions
<1> HIDE DEF ps
<1>7. PortAtWork'
  BY <1>1, <1>2, <1>3, <1>4, <1>5, <1>6 DEF PortAtWork, Present
<1> QED
  BY <1>1, <1>7 DEF IInv, Present

\* A round of pass 2 only withdraws.
LEMMA DedupStep == ASSUME IInv, DedupRound PROVE IInv'
<1> DEFINE dec == Withdrawn(job.dec, JobDuplicates)
<1>1. /\ pc = "dedup" /\ pc' = pc /\ dbs' = dbs /\ trail' = trail /\ results' = results
      /\ job' = [job EXCEPT !.dec = dec]
  BY DEF DedupRound
<1>2. /\ DOMAIN dec = DOMAIN job.dec
      /\ \A i \in DOMAIN job.dec : dec[i] = "applied" => job.dec[i] = "applied"
  BY DEF Withdrawn
<1> HIDE DEF dec
<1>3. job = [ref |-> job.ref, tgt |-> job.tgt, out |-> job.out, opt |-> job.opt, rows |-> job.rows, dec |-> job.dec]
  BY <1>1 DEF IInv, PortAtWork
<1>4. job' = [ref |-> job.ref, tgt |-> job.tgt, out |-> job.out, opt |-> job.opt, rows |-> job.rows, dec |-> dec]
  BY <1>1, <1>3
<1>5. /\ job'.ref = job.ref /\ job'.tgt = job.tgt /\ job'.out = job.out /\ job'.opt = job.opt /\ job'.rows = job.rows
      /\ job'.dec = dec
  BY <1>4
<1>6. JobPairs' = JobPairs
  BY <1>5 DEF JobPairs
<1>7. PortAtWork'
  BY <1>1, <1>2, <1>4, <1>5, <1>6 DEF IInv, PortAtWork, Present
<1> QED
  BY <1>1, <1>7 DEF IInv, Present

\* The output is written.
LEMMA WriteStep == ASSUME IInv, WriteOutput PROVE IInv'
<1> DEFINE mark == Trails(trail[job.ref], trail[job.tgt], dbs[job.tgt], JobPairs, job.dec)
<1>1. /\ pc = "dedup" /\ pc' = "idle" /\ results' = results
      /\ dbs' = [dbs EXCEPT ![job.out] = Output] /\ trail' = [trail EXCEPT ![job.out] = mark]
  BY DEF WriteOutput, WriteAs
<1>2. /\ job.ref \in Present /\ job.tgt \in Present /\ job.out \in Databases
      /\ \A i \in DOMAIN JobPairs : JobPairs[i] \in Pairings /\ dbs[job.ref].rows[JobPairs[i].ref] # NoRow
  BY <1>1 DEF IInv, PortAtWork, JobPairs, Databases
<1>3. Sound(dbs[job.ref], trail[job.ref]) /\ Sound(dbs[job.tgt], trail[job.tgt])
  BY <1>2 DEF IInv
<1>4. Sound(Output, mark)
  BY <1>2, <1>3, PortIsSound DEF Output
<1> HIDE DEF mark
<1>5. /\ DOMAIN dbs' = Databases /\ DOMAIN trail' = Databases
      /\ dbs' = [e \in Databases |-> dbs'[e]] /\ trail' = [e \in Databases |-> trail'[e]]
      /\ \A e \in Databases : e # job.out => dbs'[e] = dbs[e] /\ trail'[e] = trail[e]
      /\ dbs'[job.out] = Output /\ trail'[job.out] = mark
  BY <1>1, <1>2 DEF IInv
<1>6. \A e \in Present' : Sound(dbs'[e], trail'[e])
  BY <1>4, <1>5 DEF IInv, Present
<1> QED
  BY <1>1, <1>5, <1>6 DEF IInv, PortAtWork

\* The inductive invariant holds in every state.
THEOREM Invariance == Spec => []IInv
<1>1. Init => IInv
  BY InitHolds
<1>2. IInv /\ [Next]_vars => IInv'
  <2>1. SUFFICES ASSUME IInv, [Next]_vars PROVE IInv'
    OBVIOUS
  <2>2. CASE UNCHANGED vars
    BY <2>1, <2>2 DEF vars, IInv, PortAtWork, Present, JobPairs
  <2>3. CASE \E j \in Jobs : (\E ps \in Diffs : Diff(j[1], j[2], ps)) \/ Refuse(j[1], j[2])
    BY <2>1, <2>3, ReadingStep
  <2>4. CASE \E j \in Jobs : \E opt \in Settings : StartPort(j[1], j[2], j[3], opt)
    BY <2>1, <2>4, StartStep
  <2>5. CASE \E d \in Databases, f \in Functions, n \in UserNames : Relabel(d, f, n)
    BY <2>1, <2>5, RelabelStep
  <2>6. CASE DedupRound \/ WriteOutput
    BY <2>1, <2>6, DedupStep, WriteStep
  <2> QED
    BY <2>1, <2>2, <2>3, <2>4, <2>5, <2>6 DEF Next
<1> QED
  BY <1>1, <1>2, PTL DEF Spec

\* HistoryIsTrue, for all exports, results and options and any number of ports and edits: hops, ratio,
\* address and lineage of every label tell where it has been since it was given, or since a port left
\* it in a copy of its own target.
THEOREM HistoryHolds == Spec => []HistoryIsTrue
<1>1. IInv => HistoryIsTrue
  <2>1. SUFFICES ASSUME IInv, NEW d \in Present, NEW f \in Functions, dbs[d].rows[f] # NoRow
                 PROVE  TellsTruth(dbs[d], f, trail[d][f])
    BY DEF HistoryIsTrue, TellsTruth
  <2> QED
    BY <2>1 DEF IInv, Sound, Truthful
<1> QED
  BY <1>1, Invariance, PTL

\* The step that writes an output, and what it writes for each function.
LEMMA WritingStep == ASSUME IInv, [Next]_vars, pc = "dedup", dbs' # dbs \/ pc' = "idle"
                     PROVE  /\ JobDuplicates = {} /\ dbs' = [dbs EXCEPT ![job.out] = Output] /\ pc' = "idle"
                            /\ job.out \in DOMAIN dbs
                            /\ \A f \in Functions :
                                 Output.rows[f] = FinalRow(dbs[job.ref], dbs[job.tgt], JobPairs, job.dec, f)
                            /\ \A f \in Functions : Output.origin[f] # NoOrigin => Appliers(JobPairs, job.dec, f) # {}
<1>1. WriteOutput
  BY DEF Next, vars, Diff, Refuse, StartPort, Relabel, DedupRound
<1>2. JobDuplicates = {} /\ dbs' = [dbs EXCEPT ![job.out] = Output] /\ pc' = "idle"
  BY <1>1 DEF WriteOutput, WriteAs
<1>3. job.out \in DOMAIN dbs
  BY DEF IInv, PortAtWork, Databases
<1>4. /\ \A f \in Functions : Output.rows[f] = FinalRow(dbs[job.ref], dbs[job.tgt], JobPairs, job.dec, f)
      /\ \A f \in Functions : Output.origin[f] # NoOrigin => Appliers(JobPairs, job.dec, f) # {}
  BY DEF Output, Ported
<1> QED
  BY <1>2, <1>3, <1>4

\* AppliedNamesAreUnique, for all exports, results and options: pass 2 leaves no real name of the port
\* on a function while another function of the output has it.
THEOREM NamesStayUnique == Spec => AppliedNamesAreUnique
<1> DEFINE A == \A o \in Outputs : dbs'[o] # dbs[o] /\ pc = "dedup" =>
                  \A f, g \in Functions :
                    f # g /\ dbs'[o].origin[f] # NoOrigin /\ dbs'[o].rows[g] # NoRow =>
                      /\ ~SharesName(dbs'[o].rows[f], dbs'[o].rows[g])
                      /\ ~SharesMangled(dbs'[o].rows[f], dbs'[o].rows[g])
<1>1. IInv /\ [Next]_vars => A
  <2>1. SUFFICES ASSUME IInv, [Next]_vars, NEW o \in Outputs, dbs'[o] # dbs[o], pc = "dedup",
                        NEW f \in Functions, NEW g \in Functions, f # g,
                        dbs'[o].origin[f] # NoOrigin, dbs'[o].rows[g] # NoRow
                 PROVE  /\ ~SharesName(dbs'[o].rows[f], dbs'[o].rows[g])
                        /\ ~SharesMangled(dbs'[o].rows[f], dbs'[o].rows[g])
    OBVIOUS
  <2> DEFINE r == dbs[job.ref]
             t == dbs[job.tgt]
             i == CHOOSE k \in Appliers(JobPairs, job.dec, f) : TRUE
  <2>2. /\ JobDuplicates = {} /\ dbs' = [dbs EXCEPT ![job.out] = Output] /\ job.out \in DOMAIN dbs
        /\ Output.rows[f] = FinalRow(r, t, JobPairs, job.dec, f)
        /\ Output.rows[g] = FinalRow(r, t, JobPairs, job.dec, g)
        /\ Output.origin[f] # NoOrigin => Appliers(JobPairs, job.dec, f) # {}
    <3>1. dbs' # dbs
      BY <2>1
    <3> QED
      BY <2>1, <3>1, WritingStep
  <2>3. o = job.out /\ dbs'[o] = Output
    <3>1. o \in DOMAIN dbs
      BY <2>1 DEF IInv, Databases
    <3> QED
      BY <2>1, <2>2, <3>1
  <2>4. i \in Appliers(JobPairs, job.dec, f) /\ FinalRow(r, t, JobPairs, job.dec, f) = Written(r, JobPairs[i])
    BY <2>1, <2>2, <2>3 DEF FinalRow
  <2> HIDE DEF i, r, t
  <2>5. i \in DOMAIN JobPairs /\ job.dec[i] = "applied" /\ JobPairs[i].tgt = f
    BY <2>4 DEF Appliers
  <2>6. i \notin Duplicates(r, t, JobPairs, job.dec)
    BY <2>2 DEF JobDuplicates, r, t
  <2>7. LET other == FinalRow(r, t, JobPairs, job.dec, g)
        IN  other # NoRow => /\ ~SharesName(Written(r, JobPairs[i]), other)
                             /\ ~SharesMangled(Written(r, JobPairs[i]), other)
    BY <2>1, <2>5, <2>6 DEF Duplicates
  <2> QED
    BY <2>1, <2>2, <2>3, <2>4, <2>7
<1> HIDE DEF A
<1>2. Spec => [][A]_vars
  BY <1>1, Invariance, PTL DEF Spec
<1> QED
  BY <1>2 DEF A, AppliedNamesAreUnique

\* RealNamesSurvive, for all exports, results and options: a real name of the target is replaced only by
\* a row that the options allow to replace it, whatever pass 2 withdrew.
THEOREM RealNamesKept == Spec => RealNamesSurvive
<1> DEFINE A == pc = "dedup" /\ pc' = "idle" =>
                  \A f \in Functions :
                    LET old == dbs[job.tgt].rows[f]
                        new == dbs'[job.out].rows[f]
                    IN  old # NoRow /\ IsPortableSymbol(old.name) /\ new # old =>
                          /\ job.opt.overwrite
                          /\ \E i \in DOMAIN job.rows :
                               /\ JobPairs[i].tgt = f
                               /\ new.name = dbs[job.ref].rows[JobPairs[i].ref].name
                               /\ JobPairs[i].kind # "stripped" \/ job.opt.overwriteStripped
<1>1. IInv /\ [Next]_vars => A
  <2> DEFINE r == dbs[job.ref]
             t == dbs[job.tgt]
  <2>1. SUFFICES ASSUME IInv, [Next]_vars, pc = "dedup", pc' = "idle", NEW f \in Functions,
                        IsPortableSymbol(t.rows[f].name), dbs'[job.out].rows[f] # t.rows[f]
                 PROVE  /\ job.opt.overwrite
                        /\ \E i \in DOMAIN job.rows :
                             /\ JobPairs[i].tgt = f
                             /\ dbs'[job.out].rows[f].name = r.rows[JobPairs[i].ref].name
                             /\ JobPairs[i].kind # "stripped" \/ job.opt.overwriteStripped
    OBVIOUS
  <2> DEFINE i == CHOOSE k \in Appliers(JobPairs, job.dec, f) : TRUE
  <2>2. /\ dbs'[job.out] = Output
        /\ Output.rows[f] = FinalRow(r, t, JobPairs, job.dec, f)
    BY <2>1, WritingStep
  <2>3. i \in Appliers(JobPairs, job.dec, f) /\ FinalRow(r, t, JobPairs, job.dec, f) = Written(r, JobPairs[i])
    BY <2>1, <2>2 DEF FinalRow
  <2> HIDE DEF i
  <2>4. i \in DOMAIN job.rows /\ job.dec[i] = "applied" /\ JobPairs[i].tgt = f
    BY <2>3 DEF Appliers, JobPairs
  <2>5. dbs'[job.out].rows[f].name = r.rows[JobPairs[i].ref].name
    BY <2>2, <2>3 DEF Written
  <2>6. Decision(r, t, JobPairs, job.opt, i) = "applied"
    BY <2>1, <2>4 DEF IInv, PortAtWork
  <2>7. MayOverwrite(JobPairs[i], job.opt)
    BY <2>1, <2>4, <2>6 DEF Decision
  <2> QED
    BY <2>4, <2>5, <2>7 DEF MayOverwrite
<1> HIDE DEF A
<1>2. Spec => [][A]_vars
  BY <1>1, Invariance, PTL DEF Spec
<1> QED
  BY <1>2 DEF A, RealNamesSurvive
=============================================================================
