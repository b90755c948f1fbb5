----------------------- MODULE SnapshotCollectorProofs -----------------------
(***************************************************************************)
(* Proofs about SnapshotCollector, for any number of processes, venues,    *)
(* offers and instants, any history of legacy files and any crash points.  *)
(***************************************************************************)
EXTENDS SnapshotCollector, TLAPS

-------------------------------------------------------------------------------
(***************************************************************************)
(* The helpers return values of their types.                               *)
(***************************************************************************)

\* A reading read back without its optional columns is a reading.
LEMMA StrippedType ==
  ASSUME NEW s \in Snapshots
  PROVE  /\ Stripped(s) \in Snapshots
         /\ DedupKey(Stripped(s)) = DedupKey(s)
         /\ Stripped(s).at = s.at
BY ObservationsAssumption DEF Stripped, Snapshots, Offers, DedupKey

\* Every reading has a monthly file.
LEMMA FileOfType ==
  ASSUME NEW s \in Snapshots
  PROVE  FileOf(s) \in Months
BY DEF FileOf, Months, Snapshots

\* The columns a header keeps of a reading still make a reading.
LEMMA ProjectedType ==
  ASSUME NEW s \in Snapshots, NEW h
  PROVE  Projected(h, s) \in Snapshots
<1>1. Stripped(s) \in Snapshots
  BY StrippedType
<1>2. [Stripped(s) EXCEPT !.offer.simulated = FALSE] \in Snapshots
  BY <1>1 DEF Snapshots, Offers
<1> QED
  BY <1>1, <1>2 DEF Projected

\* The writes of the CSV append leave a file of a known layout.
LEMMA FileTypes ==
  ASSUME NEW file \in CsvFile, NEW h \in Layouts, NEW s \in Snapshots,
         NEW rows \in SUBSET Snapshots
  PROVE  /\ WithRow(file, h, s) \in CsvFile
         /\ WithHeaderAndRow(file, s) \in CsvFile
         /\ Rewritten(file, h, rows) \in CsvFile
         /\ EmptyFile \in CsvFile
         /\ HeaderOf(file) \in Layouts
         /\ Upgraded(h) \in Layouts
<1>1. Projected(h, s) \in Snapshots
  BY ProjectedType
<1>2. WithRow(file, h, s) \in CsvFile
  BY <1>1 DEF WithRow, CsvFile, Layouts, GarbledFile
<1> QED
  BY <1>2 DEF WithHeaderAndRow, Rewritten, EmptyFile, HeaderOf, Upgraded, CsvFile,
    Layouts, GarbledFile

\* load() returns readings.
LEMMA LoadType ==
  ASSUME TypeOK
  PROVE  Load(csv) \subseteq Snapshots
BY DEF TypeOK, Load, CsvFile

\* fetch_all returns readings of the instant it is given.
LEMMA ReadingsType ==
  ASSUME NEW now \in Instants, NEW answering \in SUBSET Venues,
         NEW quotes \in [answering -> SUBSET Listings]
  PROVE  Readings(now, answering, quotes) \subseteq Snapshots
BY CollectorAssumption DEF Readings, Snapshots

-------------------------------------------------------------------------------
(***************************************************************************)
(* Type correctness.                                                       *)
(***************************************************************************)
LEMMA InitTypeOK == Init => TypeOK
<1> SUFFICES ASSUME Init PROVE TypeOK
  OBVIOUS
<1>1. csv \in [Months -> CsvFile]
  <2>1. \A m \in Months : LegacyFile(m) \in CsvFile
    BY CollectorAssumption DEF LegacyFile, CsvFile, Layouts, NoFile
  <2> QED
    BY <2>1 DEF Init
<1>2. clock \in Instants
  BY ObservationsAssumption DEF Init, Instants
<1> QED
  BY <1>1, <1>2, CollectorAssumption DEF Init, TypeOK, Points, Layouts, LakeRows

LEMMA NextTypeOK == TypeOK /\ [Next]_vars => TypeOK'
<1> SUFFICES ASSUME TypeOK, [Next]_vars PROVE TypeOK'
  OBVIOUS
<1> USE DEF vars, stores, locals, bounds, ghosts
<1>1. ASSUME NEW p \in Procs, Collect(p) PROVE TypeOK'
  <2> PICK answering \in SUBSET Venues :
        \E quotes \in [answering -> SUBSET Listings] :
        LET rows == Readings(clock + 1, answering, quotes)
        IN  /\ observed' = observed \union rows
            /\ batch' = [batch EXCEPT ![p] = rows]
            /\ todo' = [todo EXCEPT ![p] = rows]
            /\ pc' = [pc EXCEPT ![p] = IF rows = {} THEN "idle" ELSE "load"]
    BY <1>1 DEF Collect
  <2> PICK quotes \in [answering -> SUBSET Listings] :
        LET rows == Readings(clock + 1, answering, quotes)
        IN  /\ observed' = observed \union rows
            /\ batch' = [batch EXCEPT ![p] = rows]
            /\ todo' = [todo EXCEPT ![p] = rows]
            /\ pc' = [pc EXCEPT ![p] = IF rows = {} THEN "idle" ELSE "load"]
    OBVIOUS
  <2>1. clock' \in Instants /\ clock' = clock + 1
    BY <1>1, ObservationsAssumption DEF Collect, TypeOK, Instants
  <2>2. Readings(clock + 1, answering, quotes) \subseteq Snapshots
    BY <2>1, ReadingsType
  <2> QED
    BY <1>1, <2>1, <2>2 DEF Collect, TypeOK, Points
<1>2. ASSUME NEW p \in Procs, Replay(p) PROVE TypeOK'
  BY <1>2 DEF Replay, TypeOK, Points
<1>3. ASSUME NEW p \in Procs, Migrate(p) PROVE TypeOK'
  BY <1>3, LoadType DEF Migrate, TypeOK, Points
<1>4. ASSUME NEW p \in Procs, LoadKeys(p) PROVE TypeOK'
  <2>1. Keys(Load(csv)) \subseteq Keys(Snapshots)
    BY LoadType DEF Keys
  <2> QED
    BY <1>4, <2>1 DEF LoadKeys, TypeOK, Points
<1>5. ASSUME NEW p \in Procs, SkipRow(p) PROVE TypeOK'
  BY <1>5 DEF SkipRow, TypeOK
<1>6. ASSUME NEW p \in Procs, NextRow(p) PROVE TypeOK'
  <2> PICK s \in todo[p] : 
        LET file == csv[FileOf(s)]
        IN  /\ DedupKey(s) \notin seen[p]
            /\ seen' = [seen EXCEPT ![p] = @ \union {DedupKey(s)}]
            /\ todo' = [todo EXCEPT ![p] = @ \ {s}]
            /\ cur' = [cur EXCEPT ![p] = {s}]
            /\ header' = [header EXCEPT ![p] = HeaderOf(file)]
            /\ pc' = [pc EXCEPT ![p] =
                        CASE file.layout = "absent" -> "create"
                          [] LacksProvenance(HeaderOf(file)) -> "truncate"
                          [] OTHER -> "flush"]
    BY <1>6 DEF NextRow
  <2>1. s \in Snapshots /\ csv[FileOf(s)] \in CsvFile
    BY FileOfType DEF TypeOK
  <2>2. HeaderOf(csv[FileOf(s)]) \in Layouts
    BY <2>1 DEF HeaderOf, CsvFile, Layouts
  <2>3. DedupKey(s) \in Keys(Snapshots)
    BY <2>1 DEF Keys
  <2> QED
    BY <1>6, <2>1, <2>2, <2>3 DEF NextRow, TypeOK, Points
<1>7. ASSUME NEW p \in Procs, CreateFile(p) PROVE TypeOK'
  <2> PICK s \in cur[p] :
        csv' = [csv EXCEPT ![FileOf(s)] = IF @.layout = "absent" THEN EmptyFile ELSE @]
    BY <1>7 DEF CreateFile
  <2>1. EmptyFile \in CsvFile
    BY DEF EmptyFile, CsvFile, Layouts
  <2>2. csv' \in [Months -> CsvFile]
    BY <2>1 DEF TypeOK
  <2> QED
    BY <1>7, <2>2 DEF CreateFile, TypeOK, Points
<1>8. ASSUME NEW p \in Procs, FillFile(p) PROVE TypeOK'
  <2> PICK s \in cur[p] : csv' = [csv EXCEPT ![FileOf(s)] = WithHeaderAndRow(@, s)]
    BY <1>8 DEF FillFile
  <2>1. csv' \in [Months -> CsvFile]
    BY FileTypes, FileOfType DEF TypeOK
  <2> QED
    BY <1>8, <2>1 DEF FillFile, TypeOK, Points
<1>9. ASSUME NEW p \in Procs, TruncateFile(p) PROVE TypeOK'
  <2> PICK s \in cur[p] :
        /\ body' = [body EXCEPT ![p] = csv[FileOf(s)].rows]
        /\ csv' = [csv EXCEPT ![FileOf(s)] = EmptyFile]
        /\ upgrading' = upgrading \union {FileOf(s)}
    BY <1>9 DEF TruncateFile
  <2>1. csv[FileOf(s)] \in CsvFile /\ upgrading' \subseteq Months
    BY FileOfType DEF TypeOK
  <2>2. csv' \in [Months -> CsvFile] /\ body' \in [Procs -> SUBSET Snapshots]
    BY <2>1 DEF TypeOK, EmptyFile, CsvFile, Layouts
  <2>3. Upgraded(header[p]) \in Layouts
    BY DEF Upgraded, Layouts
  <2> QED
    BY <1>9, <2>1, <2>2, <2>3 DEF TruncateFile, TypeOK, Points
<1>10. ASSUME NEW p \in Procs, RewriteFile(p) PROVE TypeOK'
  <2> PICK s \in cur[p] :
        /\ csv' = [csv EXCEPT ![FileOf(s)] = Rewritten(@, header[p], body[p])]
        /\ upgrading' = upgrading \ {FileOf(s)}
    BY <1>10 DEF RewriteFile
  <2>1. csv' \in [Months -> CsvFile] /\ upgrading' \subseteq Months
    BY FileTypes, FileOfType DEF TypeOK
  <2> QED
    BY <1>10, <2>1 DEF RewriteFile, TypeOK, Points
<1>11. ASSUME NEW p \in Procs, FlushRow(p) PROVE TypeOK'
  <2> PICK s \in cur[p] : csv' = [csv EXCEPT ![FileOf(s)] = WithRow(@, header[p], s)]
    BY <1>11 DEF FlushRow
  <2>1. csv' \in [Months -> CsvFile]
    BY FileTypes, FileOfType DEF TypeOK
  <2> QED
    BY <1>11, <2>1 DEF FlushRow, TypeOK, Points
<1>12. ASSUME NEW p \in Procs, EndAppend(p) PROVE TypeOK'
  BY <1>12 DEF EndAppend, TypeOK, Points
<1>13. ASSUME NEW p \in Procs, ReadLake(p) PROVE TypeOK'
  BY <1>13 DEF ReadLake, Ended, NewRows, TypeOK, Points, Layouts
<1>14. ASSUME NEW p \in Procs, WritePart(p) PROVE TypeOK'
  <2> PICK venue \in Venues, month \in Months :
        LET rows == Partition(pending[p], venue, month)
        IN  /\ lake' = Stored(rows)
            /\ pending' = [pending EXCEPT ![p] = @ \ rows]
            /\ \/ AllWritten(p, rows) /\ Ended(p)
               \/ ~AllWritten(p, rows) /\ UNCHANGED <<acked, pc, batch, seen, header>>
    BY <1>14 DEF WritePart
  <2>1. Partition(pending[p], venue, month) \subseteq Snapshots
    BY DEF Partition, TypeOK
  <2>2. lake' \subseteq LakeRows
    BY <2>1 DEF Stored, LakeRows, TypeOK
  <2>3. nextPart' \in Nat
    BY <1>14 DEF WritePart, NewName, TypeOK
  <2> QED
    BY <1>14, <2>2, <2>3 DEF WritePart, Ended, TypeOK, Points, Layouts
<1>15. ASSUME NEW p \in Procs, Crash(p) PROVE TypeOK'
  BY <1>15 DEF Crash, Forget, TypeOK, Points, Layouts
<1>16. ASSUME NEW p \in Procs, LoadFails(p) PROVE TypeOK'
  BY <1>16 DEF LoadFails, Forget, TypeOK, Points, Layouts
<1>17. ASSUME NEW p \in Procs, RewriteSome(p) PROVE TypeOK'
  <2> PICK s \in cur[p], lines \in SUBSET body[p] :
        csv' = [csv EXCEPT ![FileOf(s)] = Rewritten(csv[FileOf(s)], header[p], lines)]
    BY <1>17 DEF RewriteSome
  <2>1. lines \subseteq Snapshots
    BY DEF TypeOK
  <2>2. csv' \in [Months -> CsvFile]
    BY <2>1, FileTypes, FileOfType DEF TypeOK
  <2> QED
    BY <1>17, <2>2 DEF RewriteSome, TypeOK
<1>18. CASE UNCHANGED vars
  BY <1>18 DEF TypeOK
<1> QED
  BY <1>1, <1>2, <1>3, <1>4, <1>5, <1>6, <1>7, <1>8, <1>9, <1>10, <1>11, <1>12,
    <1>13, <1>14, <1>15, <1>16, <1>17, <1>18 DEF Next, Step

\* The stores and the runs keep to their types.
THEOREM TypeCorrect == Spec => []TypeOK
BY InitTypeOK, NextTypeOK, PTL DEF Spec
-------------------------------------------------------------------------------
(***************************************************************************)
(* Steps that leave the lake alone.                                        *)
(***************************************************************************)
QuietStep(p) ==
  \/ Collect(p) \/ Replay(p) \/ Migrate(p) \/ LoadKeys(p) \/ SkipRow(p) \/ NextRow(p)
  \/ CreateFile(p) \/ FillFile(p)
  \/ TruncateFile(p) \/ RewriteSome(p) \/ RewriteFile(p) \/ FlushRow(p)
  \/ EndAppend(p) \/ Crash(p) \/ LoadFails(p)

\* A step writes the lake, prepares such a write, or is quiet.
LEMMA StepKinds ==
  ASSUME [Next]_vars
  PROVE  \/ \E p \in Procs : ReadLake(p) \/ WritePart(p) \/ QuietStep(p)
         \/ UNCHANGED vars
BY DEF Next, Step, QuietStep

\* A quiet step starts no lake write and disturbs none.
LEMMA QuietStepEffect ==
  ASSUME TypeOK, NEW p \in Procs, QuietStep(p)
  PROVE  /\ lake' = lake /\ nextPart' = nextPart /\ acked' = acked
         /\ \A q \in Procs : pc'[q] = "write" =>
              pc[q] = "write" /\ batch'[q] = batch[q] /\ pending'[q] = pending[q]
<1> USE DEF stores, locals, bounds, ghosts, TypeOK
<1>1. CASE Collect(p)
  <2>1. UNCHANGED <<lake, nextPart, acked, pending>>
    BY <1>1 DEF Collect
  <2>2. \A q \in Procs : pc'[q] = "write" => pc[q] = "write" /\ batch'[q] = batch[q]
    BY <1>1 DEF Collect
  <2> QED
    BY <2>1, <2>2
<1>2. CASE Replay(p)
  BY <1>2 DEF Replay
<1>3. CASE Migrate(p)
  BY <1>3 DEF Migrate
<1>4. CASE LoadKeys(p) \/ SkipRow(p) \/ EndAppend(p)
  BY <1>4 DEF LoadKeys, SkipRow, EndAppend
<1>5. CASE NextRow(p)
  BY <1>5 DEF NextRow
<1>6. CASE CreateFile(p) \/ FillFile(p)
  BY <1>6 DEF CreateFile, FillFile
<1>7. CASE TruncateFile(p) \/ RewriteSome(p) \/ RewriteFile(p) \/ FlushRow(p)
  BY <1>7 DEF TruncateFile, RewriteSome, RewriteFile, FlushRow
<1>8. CASE Crash(p) \/ LoadFails(p)
  BY <1>8 DEF Crash, LoadFails, Forget
<1> QED
  BY <1>1, <1>2, <1>3, <1>4, <1>5, <1>6, <1>7, <1>8 DEF QuietStep

\* The write of a partition, and what becomes of the run.
LEMMA WritePartEffect ==
  ASSUME TypeOK, NEW p \in Procs, WritePart(p)
  PROVE  \E rows \in SUBSET pending[p] :
           /\ pc[p] = "write"
           /\ lake' = lake \union [snap : rows, part : {nextPart}]
           /\ nextPart' = nextPart + 1
           /\ pending' = [pending EXCEPT ![p] = @ \ rows]
           /\ \/ pending[p] = rows /\ Ended(p)
              \/ UNCHANGED <<acked, pc, batch>>
<1> PICK venue \in Venues, month \in Months :
      LET rows == Partition(pending[p], venue, month)
      IN  /\ lake' = Stored(rows)
          /\ nextPart' = NewName
          /\ pending' = [pending EXCEPT ![p] = @ \ rows]
          /\ \/ AllWritten(p, rows) /\ Ended(p)
             \/ ~AllWritten(p, rows) /\ UNCHANGED <<acked, pc, batch, seen, header>>
  BY DEF WritePart
<1>1. Partition(pending[p], venue, month) \subseteq pending[p]
  BY DEF Partition
<1>2. pc[p] = "write"
  BY DEF WritePart
<1> QED
  BY <1>1, <1>2 DEF Stored, NewName, AllWritten

\* The lake after a partition of rows was added.
LEMMA SnapsUnion ==
  ASSUME NEW old, NEW rows, NEW part
  PROVE  /\ Snaps(old \union [snap : rows, part : {part}]) = Snaps(old) \union rows
         /\ Contents(Snaps(old \union [snap : rows, part : {part}])) =
              Contents(Snaps(old)) \union Contents(rows)
<1>1. \A r \in [snap : rows, part : {part}] : r.snap \in rows
  OBVIOUS
<1>2. \A s \in rows : \E r \in [snap : rows, part : {part}] : r.snap = s
  <2> TAKE s \in rows
  <2> WITNESS [snap |-> s, part |-> part] \in [snap : rows, part : {part}]
  <2> QED
    OBVIOUS
<1>3. Snaps(old \union [snap : rows, part : {part}]) = Snaps(old) \union rows
  BY <1>1, <1>2 DEF Snaps
<1>4. Contents(Snaps(old) \union rows) = Contents(Snaps(old)) \union Contents(rows)
  BY DEF Contents
<1> QED
  BY <1>3, <1>4

-------------------------------------------------------------------------------
(***************************************************************************)
(* What a completed run collected is in the lake, with or without overlap. *)
(***************************************************************************)
DurableInv == AckedInLake /\ BatchCovered

LEMMA InitDurable == Init => DurableInv
BY DEF Init, DurableInv, AckedInLake, BatchCovered, Contents, Snaps

LEMMA NextDurable == TypeOK /\ DurableInv /\ [Next]_vars => DurableInv'
<1> SUFFICES ASSUME TypeOK, DurableInv, [Next]_vars PROVE DurableInv'
  OBVIOUS
<1> USE DEF DurableInv
<1>1. ASSUME NEW p \in Procs, QuietStep(p) PROVE DurableInv'
  BY <1>1, QuietStepEffect DEF AckedInLake, BatchCovered, Contents, Snaps
<1>2. ASSUME NEW p \in Procs, ReadLake(p) PROVE DurableInv'
  <2> PICK rows \in SUBSET batch[p] :
        /\ IsDeduplicated(rows, batch[p])
        /\ pending' = [pending EXCEPT ![p] = NewRows(rows)]
        /\ \/ NewRows(rows) = {} /\ Ended(p)
           \/ /\ pc' = [pc EXCEPT ![p] = "write"]
              /\ UNCHANGED <<acked, batch, seen, header>>
    BY <1>2 DEF ReadLake
  <2>1. lake' = lake
    BY <1>2 DEF ReadLake, stores
  <2>2. Contents(batch[p]) \subseteq Contents(Snaps(lake)) \union Contents(NewRows(rows))
    BY DEF IsDeduplicated, NewRows, Contents
  <2>3. CASE NewRows(rows) = {} /\ Ended(p)
    <3>1. AckedInLake'
      BY <2>1, <2>2, <2>3 DEF Ended, AckedInLake, Contents
    <3>2. BatchCovered'
      BY <2>1, <2>3 DEF Ended, BatchCovered, TypeOK
    <3> QED
      BY <3>1, <3>2
  <2>4. CASE pc' = [pc EXCEPT ![p] = "write"] /\ UNCHANGED <<acked, batch, seen, header>>
    <3>1. AckedInLake'
      BY <2>1, <2>4 DEF AckedInLake
    <3>2. BatchCovered'
      BY <2>1, <2>2, <2>4 DEF BatchCovered, TypeOK
    <3> QED
      BY <3>1, <3>2
  <2> QED
    BY <2>3, <2>4
<1>3. ASSUME NEW p \in Procs, WritePart(p) PROVE DurableInv'
  <2> PICK rows \in SUBSET pending[p] :
        /\ pc[p] = "write"
        /\ lake' = lake \union [snap : rows, part : {nextPart}]
        /\ pending' = [pending EXCEPT ![p] = @ \ rows]
        /\ \/ pending[p] = rows /\ Ended(p)
           \/ UNCHANGED <<acked, pc, batch>>
    BY <1>3, WritePartEffect
  <2>1. Contents(Snaps(lake')) = Contents(Snaps(lake)) \union Contents(rows)
    BY SnapsUnion
  <2>2. Contents(pending[p]) = Contents(pending[p] \ rows) \union Contents(rows)
    BY DEF Contents
  <2>3. \A q \in Procs \ {p} : pending'[q] = pending[q]
    BY DEF TypeOK
  <2>4. pending'[p] = pending[p] \ rows
    BY DEF TypeOK
  <2>5. Contents(batch[p]) \subseteq Contents(Snaps(lake)) \union Contents(pending[p])
    BY DEF BatchCovered
  <2>6. CASE pending[p] = rows /\ Ended(p)
    <3>1. AckedInLake'
      <4>1. Contents(batch[p]) \subseteq Contents(Snaps(lake'))
        BY <2>1, <2>5, <2>6
      <4>2. Contents(Snaps(lake)) \subseteq Contents(Snaps(lake'))
        BY <2>1
      <4>3. acked' = acked \union batch[p]
        BY <2>6 DEF Ended
      <4>4. Contents(acked') = Contents(acked) \union Contents(batch[p])
        BY <4>3 DEF Contents
      <4> QED
        BY <4>1, <4>2, <4>4 DEF AckedInLake
    <3>2. BatchCovered'
      BY <2>1, <2>3, <2>6 DEF Ended, BatchCovered, TypeOK
    <3> QED
      BY <3>1, <3>2
  <2>7. CASE UNCHANGED <<acked, pc, batch>>
    <3>1. AckedInLake'
      BY <2>1, <2>7 DEF AckedInLake
    <3>2. BatchCovered'
      BY <2>1, <2>2, <2>3, <2>4, <2>7 DEF BatchCovered
    <3> QED
      BY <3>1, <3>2
  <2> QED
    BY <2>6, <2>7
<1>4. CASE UNCHANGED vars
  BY <1>4 DEF vars, stores, locals, ghosts, AckedInLake, BatchCovered, Contents, Snaps
<1> QED
  BY <1>1, <1>2, <1>3, <1>4, StepKinds

\* A batch whose run ended normally is in the lake, every distinct offer of it,
\* even when runs overlap or are killed.
THEOREM CompletedRunsDurable == Spec => []AckedInLake
<1>1. Init => TypeOK /\ DurableInv
  BY InitTypeOK, InitDurable
<1>2. (TypeOK /\ DurableInv) /\ [Next]_vars => (TypeOK /\ DurableInv)'
  BY NextTypeOK, NextDurable
<1>3. DurableInv => AckedInLake
  BY DEF DurableInv
<1> QED
  BY <1>1, <1>2, <1>3, PTL DEF Spec
-------------------------------------------------------------------------------
(***************************************************************************)
(* When the scheduler serialises the runs, the lake never holds a reading  *)
(* twice.                                                                  *)
(***************************************************************************)
UniqueInv ==
  OneRun /\ PendingDistinct /\ PendingNew /\ PartsNamed /\ LakeNoDuplicates

\* A step moves the control point of one process only, and starts a run only
\* when none is under way.
LEMMA StepMovesOne ==
  ASSUME TypeOK, Serialized, NEW p \in Procs,
         ReadLake(p) \/ WritePart(p) \/ QuietStep(p)
  PROVE  /\ \A q \in Procs \ {p} : pc'[q] = pc[q]
         /\ pc[p] # "idle" \/ \A q \in Procs : pc[q] = "idle"
<1> USE DEF stores, locals, bounds, ghosts, TypeOK
<1>1. CASE Collect(p) \/ Replay(p) \/ Migrate(p)
  <2>1. MayStart(p)
    BY <1>1 DEF Collect, Replay, Migrate
  <2>2. \A q \in Procs \ {p} : pc'[q] = pc[q]
    BY <1>1 DEF Collect, Replay, Migrate
  <2> QED
    BY <2>1, <2>2 DEF MayStart
<1>2. CASE LoadKeys(p) \/ SkipRow(p) \/ NextRow(p) \/ EndAppend(p)
  BY <1>2 DEF LoadKeys, SkipRow, NextRow, EndAppend
<1>3. CASE \/ CreateFile(p) \/ FillFile(p) \/ TruncateFile(p)
           \/ RewriteSome(p) \/ RewriteFile(p) \/ FlushRow(p)
  BY <1>3 DEF CreateFile, FillFile, TruncateFile, RewriteSome, RewriteFile, FlushRow
<1>4. CASE Crash(p) \/ LoadFails(p)
  BY <1>4, CollectorAssumption DEF Crash, LoadFails, Forget
<1>5. CASE ReadLake(p)
  BY <1>5 DEF ReadLake, Ended
<1>6. CASE WritePart(p)
  BY <1>6 DEF WritePart, Ended
<1> QED
  BY <1>1, <1>2, <1>3, <1>4, <1>5, <1>6 DEF QuietStep

LEMMA InitUnique == Init => UniqueInv
BY DEF Init, UniqueInv, OneRun, PendingDistinct, PendingNew, PartsNamed, LakeNoDuplicates

LEMMA NextUnique == Serialized /\ TypeOK /\ UniqueInv /\ [Next]_vars => UniqueInv'
<1> SUFFICES ASSUME Serialized, TypeOK, UniqueInv, [Next]_vars PROVE UniqueInv'
  OBVIOUS
<1> USE DEF UniqueInv
<1>1. OneRun'
  <2>1. ASSUME NEW p \in Procs, ReadLake(p) \/ WritePart(p) \/ QuietStep(p)
        PROVE  OneRun'
    BY <2>1, StepMovesOne DEF OneRun
  <2>2. CASE UNCHANGED vars
    BY <2>2 DEF vars, OneRun
  <2> QED
    BY <2>1, <2>2, StepKinds
<1>2. ASSUME NEW p \in Procs, QuietStep(p)
      PROVE  PendingDistinct' /\ PendingNew' /\ PartsNamed' /\ LakeNoDuplicates'
  <2>1. /\ lake' = lake /\ nextPart' = nextPart
        /\ \A q \in Procs : pc'[q] = "write" => pc[q] = "write" /\ pending'[q] = pending[q]
    BY <1>2, QuietStepEffect
  <2> QED
    BY <2>1 DEF PendingDistinct, PendingNew, PartsNamed, LakeNoDuplicates
<1>3. ASSUME NEW p \in Procs, ReadLake(p)
      PROVE  PendingDistinct' /\ PendingNew' /\ PartsNamed' /\ LakeNoDuplicates'
  <2> PICK rows \in SUBSET batch[p] :
        /\ IsDeduplicated(rows, batch[p])
        /\ pending' = [pending EXCEPT ![p] = NewRows(rows)]
        /\ \/ NewRows(rows) = {} /\ Ended(p)
           \/ pc' = [pc EXCEPT ![p] = "write"]
    BY <1>3 DEF ReadLake
  <2>1. lake' = lake /\ nextPart' = nextPart
    BY <1>3 DEF ReadLake, stores
  <2>2. \A s, t \in NewRows(rows) : Content(s) = Content(t) => s = t
    BY DEF IsDeduplicated, NewRows
  <2>3. \A s \in NewRows(rows), r \in lake : Content(s) # Content(r.snap)
    BY DEF NewRows, Contents, Snaps
  <2>4. \A q \in Procs : pc'[q] = "write" =>
          \/ q = p /\ pending'[q] = NewRows(rows)
          \/ pc[q] = "write" /\ pending'[q] = pending[q]
    BY DEF Ended, TypeOK
  <2>5. PendingDistinct'
    BY <2>2, <2>4 DEF PendingDistinct
  <2>6. PendingNew'
    BY <2>1, <2>3, <2>4 DEF PendingNew
  <2> QED
    BY <2>1, <2>5, <2>6 DEF PartsNamed, LakeNoDuplicates
<1>4. ASSUME NEW p \in Procs, WritePart(p)
      PROVE  PendingDistinct' /\ PendingNew' /\ PartsNamed' /\ LakeNoDuplicates'
  <2> PICK rows \in SUBSET pending[p] :
        /\ pc[p] = "write"
        /\ lake' = lake \union [snap : rows, part : {nextPart}]
        /\ nextPart' = nextPart + 1
        /\ pending' = [pending EXCEPT ![p] = @ \ rows]
        /\ \/ pending[p] = rows /\ Ended(p)
           \/ UNCHANGED <<acked, pc, batch>>
    BY <1>4, WritePartEffect
  <2>1. \A q \in Procs \ {p} : pc'[q] = "idle"
    BY <1>4, StepMovesOne DEF OneRun
  <2>2. pending'[p] = pending[p] \ rows
    BY DEF TypeOK
  <2>3. \A s, t \in pending[p] : Content(s) = Content(t) => s = t
    BY DEF PendingDistinct
  <2>4. \A s \in pending[p], r \in lake : Content(s) # Content(r.snap)
    BY DEF PendingNew
  <2>5. \A r \in [snap : rows, part : {nextPart}] : r.snap \in rows /\ r.part = nextPart
    OBVIOUS
  <2>6. PendingDistinct'
    BY <2>1, <2>2, <2>3 DEF PendingDistinct
  <2>7. PendingNew'
    <3> SUFFICES ASSUME NEW s \in pending'[p], NEW r \in lake'
                 PROVE  Content(s) # Content(r.snap)
      BY <2>1 DEF PendingNew
    <3>1. CASE r \in lake
      BY <2>2, <2>4, <3>1
    <3>2. CASE r \in [snap : rows, part : {nextPart}]
      BY <2>2, <2>3, <2>5, <3>2
    <3> QED
      BY <3>1, <3>2
  <2>8. PartsNamed'
    BY <2>5 DEF PartsNamed, TypeOK, LakeRows
  <2>9. LakeNoDuplicates'
    <3> SUFFICES ASSUME NEW q \in lake', NEW r \in lake', Content(q.snap) = Content(r.snap)
                 PROVE  q = r
      BY DEF LakeNoDuplicates
    <3>1. CASE q \in lake /\ r \in lake
      BY <3>1 DEF LakeNoDuplicates
    <3>2. CASE q \in lake /\ r \in [snap : rows, part : {nextPart}]
      BY <2>4, <2>5, <3>2
    <3>3. CASE q \in [snap : rows, part : {nextPart}] /\ r \in lake
      BY <2>4, <2>5, <3>3
    <3>4. CASE q \in [snap : rows, part : {nextPart}] /\ r \in [snap : rows, part : {nextPart}]
      BY <2>3, <2>5, <3>4
    <3> QED
      BY <3>1, <3>2, <3>3, <3>4
  <2> QED
    BY <2>6, <2>7, <2>8, <2>9
<1>5. CASE UNCHANGED vars
  BY <1>5 DEF vars, stores, locals, OneRun, PendingDistinct, PendingNew, PartsNamed,
    LakeNoDuplicates
<1> QED
  BY <1>1, <1>2, <1>3, <1>4, <1>5, StepKinds

\* Under a scheduler that does not overlap runs, no crash, replay or migration
\* ever makes the lake hold the same content twice.
THEOREM LakeUnique ==
  ASSUME Serialized
  PROVE  Spec => []LakeNoDuplicates
<1>1. Init => TypeOK /\ UniqueInv
  BY InitTypeOK, InitUnique
<1>2. (TypeOK /\ UniqueInv) /\ [Next]_vars => (TypeOK /\ UniqueInv)'
  BY NextTypeOK, NextUnique
<1>3. UniqueInv => LakeNoDuplicates
  BY DEF UniqueInv
<1> QED
  BY <1>1, <1>2, <1>3, PTL DEF Spec
-------------------------------------------------------------------------------
(***************************************************************************)
(* Nothing is stored that no venue returned, and no provenance is lost.    *)
(***************************************************************************)
PublishedInv == RowsPublished /\ NothingInvented

\* Dropping the optional columns of a published reading gives a published one.
LEMMA StrippedPublished ==
  ASSUME TypeOK, NEW s \in Published
  PROVE  Stripped(s) \in Published
<1>1. CASE s \in observed
  BY <1>1 DEF Published
<1>2. ASSUME NEW t \in observed, s = Stripped(t) PROVE Stripped(s) \in Published
  <2>1. t \in Snapshots
    BY DEF TypeOK
  <2>2. Stripped(Stripped(t)) = Stripped(t)
    BY <2>1, ObservationsAssumption DEF Stripped, Snapshots, Offers
  <2> QED
    BY <1>2, <2>2 DEF Published
<1> QED
  BY <1>1, <1>2 DEF Published

\* Everything the files hold is published, file by file.
LEMMA LoadPublished ==
  (Load(csv) \subseteq Published) <=> \A m \in Months : csv[m].rows \subseteq Published
BY DEF Load

\* A step publishes nothing twice and withdraws nothing.
LEMMA PublishedGrows ==
  ASSUME [Next]_vars
  PROVE  observed \subseteq observed' /\ Published \subseteq Published'
<1>1. observed \subseteq observed'
  <2>1. ASSUME NEW p \in Procs, Collect(p) PROVE observed \subseteq observed'
    BY <2>1 DEF Collect
  <2>2. ASSUME NEW p \in Procs, Replay(p) \/ Migrate(p) \/ Step(p) \/ Crash(p)
        PROVE  observed' = observed
    BY <2>2 DEF ghosts, Replay, Migrate, Step, Crash, Forget, LoadFails, LoadKeys, SkipRow,
      NextRow, EndAppend, CreateFile, FillFile, TruncateFile, RewriteSome, RewriteFile, FlushRow,
      ReadLake, WritePart
  <2> QED
    BY <2>1, <2>2 DEF Next, vars, ghosts
<1> QED
  BY <1>1 DEF Published

\* One row of one file changed: the files hold published rows if that file does.
LEMMA OneFileChanged ==
  ASSUME TypeOK, PublishedInv, [Next]_vars, NEW m \in Months, NEW file,
         csv' = [csv EXCEPT ![m] = file], file.rows \subseteq Published'
  PROVE  Load(csv') \subseteq Published'
BY PublishedGrows, LoadPublished DEF TypeOK, PublishedInv, NothingInvented, Load

LEMMA InitPublished == Init => PublishedInv
<1> SUFFICES ASSUME Init PROVE PublishedInv
  OBVIOUS
<1>1. \A m \in Months : csv[m].rows \subseteq History
  BY DEF Init, LegacyFile, NoFile
<1>2. Load(csv) \subseteq Published
  BY <1>1 DEF Load, Init, Published
<1> QED
  BY <1>2 DEF Init, PublishedInv, RowsPublished, NothingInvented, Snaps

LEMMA NextPublished == TypeOK /\ PublishedInv /\ [Next]_vars => PublishedInv'
<1> SUFFICES ASSUME TypeOK, PublishedInv, [Next]_vars PROVE PublishedInv'
  OBVIOUS
<1> USE PublishedGrows DEF stores, locals, bounds, ghosts
<1> DEFINE Rows(q) == batch[q] \union todo[q] \union cur[q] \union body[q] \union pending[q]
<1>0. /\ \A q \in Procs : Rows(q) \subseteq Published
      /\ \A q \in Procs : pc[q] \in {"rewrite", "flush"} => ~LacksProvenance(header[q])
      /\ Load(csv) \subseteq Published
      /\ Snaps(lake) \subseteq Published
  BY DEF PublishedInv, RowsPublished, NothingInvented
<1>1. ASSUME NEW p \in Procs, Collect(p) PROVE PublishedInv'
  <2>1. PICK rows : /\ observed' = observed \union rows
                    /\ batch' = [batch EXCEPT ![p] = rows]
                    /\ todo' = [todo EXCEPT ![p] = rows]
                    /\ pc' = [pc EXCEPT ![p] = IF rows = {} THEN "idle" ELSE "load"]
    BY <1>1 DEF Collect
  <2>2. rows \subseteq Published'
    BY <2>1 DEF Published
  <2>3. UNCHANGED <<csv, lake, cur, body, pending, header>>
    BY <1>1 DEF Collect
  <2>4. \A q \in Procs : Rows(q)' \subseteq Published'
    BY <1>0, <2>1, <2>2, <2>3 DEF TypeOK
  <2>5. NothingInvented'
    BY <1>0, <2>3 DEF NothingInvented
  <2> QED
    BY <1>0, <2>1, <2>3, <2>4, <2>5 DEF PublishedInv, RowsPublished, TypeOK
<1>2. ASSUME NEW p \in Procs, Replay(p) PROVE PublishedInv'
  <2>1. PICK rows \in SUBSET observed : /\ batch' = [batch EXCEPT ![p] = rows]
                                        /\ todo' = [todo EXCEPT ![p] = rows]
    BY <1>2 DEF Replay
  <2>2. UNCHANGED <<csv, lake, cur, body, pending, header>> /\ pc' = [pc EXCEPT ![p] = "load"]
    BY <1>2 DEF Replay
  <2>3. rows \subseteq Published
    BY DEF Published
  <2>4. \A q \in Procs : Rows(q)' \subseteq Published'
    BY <1>0, <2>1, <2>2, <2>3 DEF TypeOK
  <2> QED
    BY <1>0, <2>2, <2>4 DEF PublishedInv, RowsPublished, NothingInvented, TypeOK
<1>3. ASSUME NEW p \in Procs, Migrate(p) PROVE PublishedInv'
  <2>1. /\ UNCHANGED <<csv, lake, todo, cur, body, pending, header>>
        /\ pc' = [pc EXCEPT ![p] = "dedup"]
        /\ batch' = [batch EXCEPT ![p] = Load(csv)]
    BY <1>3 DEF Migrate
  <2>2. \A q \in Procs : Rows(q)' \subseteq Published'
    BY <1>0, <2>1 DEF TypeOK
  <2> QED
    BY <1>0, <2>1, <2>2 DEF PublishedInv, RowsPublished, NothingInvented, TypeOK
<1>4. ASSUME NEW p \in Procs, LoadKeys(p) \/ SkipRow(p) \/ NextRow(p) \/ EndAppend(p)
      PROVE  PublishedInv'
  <2>1. UNCHANGED <<csv, lake, batch, body, pending>>
    BY <1>4 DEF LoadKeys, SkipRow, NextRow, EndAppend
  <2>2. \A q \in Procs : todo'[q] \subseteq todo[q] /\ cur'[q] \subseteq cur[q] \union todo[q]
    BY <1>4 DEF LoadKeys, SkipRow, NextRow, EndAppend, TypeOK
  <2>3. \A q \in Procs : Rows(q)' \subseteq Published'
    BY <1>0, <2>1, <2>2
  <2>4. \A q \in Procs : pc'[q] \in {"rewrite", "flush"} => ~LacksProvenance(header'[q])
    <3>1. CASE NextRow(p)
      <4> PICK s \in todo[p] :
            /\ header' = [header EXCEPT ![p] = HeaderOf(csv[FileOf(s)])]
            /\ pc' = [pc EXCEPT ![p] =
                        CASE csv[FileOf(s)].layout = "absent" -> "create"
                          [] LacksProvenance(HeaderOf(csv[FileOf(s)])) -> "truncate"
                          [] OTHER -> "flush"]
        BY <3>1 DEF NextRow
      <4>1. \A q \in Procs \ {p} : pc'[q] = pc[q] /\ header'[q] = header[q]
        BY DEF TypeOK
      <4>2. /\ header'[p] = HeaderOf(csv[FileOf(s)])
            /\ pc'[p] = CASE csv[FileOf(s)].layout = "absent" -> "create"
                          [] LacksProvenance(HeaderOf(csv[FileOf(s)])) -> "truncate"
                          [] OTHER -> "flush"
        BY DEF TypeOK
      <4>3. LacksProvenance(header'[p]) => pc'[p] \in {"create", "truncate"}
        BY <4>2 DEF LacksProvenance
      <4> QED
        BY <1>0, <4>1, <4>3
    <3>2. CASE LoadKeys(p) \/ SkipRow(p) \/ EndAppend(p)
      BY <1>0, <3>2 DEF LoadKeys, SkipRow, EndAppend, TypeOK
    <3> QED
      BY <1>4, <3>1, <3>2
  <2> QED
    BY <1>0, <2>1, <2>3, <2>4 DEF PublishedInv, RowsPublished, NothingInvented
<1>5. ASSUME NEW p \in Procs, CreateFile(p) PROVE PublishedInv'
  <2>1. PICK s \in cur[p] :
          csv' = [csv EXCEPT ![FileOf(s)] =
                    IF csv[FileOf(s)].layout = "absent" THEN EmptyFile ELSE csv[FileOf(s)]]
    BY <1>5 DEF CreateFile
  <2>2. FileOf(s) \in Months
    BY FileOfType DEF TypeOK
  <2>3. EmptyFile.rows \subseteq Published' /\ csv[FileOf(s)].rows \subseteq Published'
    BY <1>0, <2>2, LoadPublished DEF EmptyFile
  <2>4. Load(csv') \subseteq Published'
    BY <2>1, <2>2, <2>3, OneFileChanged
  <2>5. UNCHANGED <<lake, batch, todo, header, body, pending>>
    BY <1>5 DEF CreateFile
  <2>6. \A q \in Procs : cur'[q] \subseteq cur[q]
    BY <1>5 DEF CreateFile, TypeOK
  <2>7. \A q \in Procs : Rows(q)' \subseteq Published'
    BY <1>0, <2>5, <2>6
  <2>8. \A q \in Procs : pc'[q] \in {"rewrite", "flush"} => ~LacksProvenance(header'[q])
    BY <1>0, <1>5, <2>5 DEF CreateFile, TypeOK
  <2> QED
    BY <1>0, <2>4, <2>5, <2>7, <2>8 DEF PublishedInv, RowsPublished, NothingInvented
<1>6. ASSUME NEW p \in Procs, FillFile(p) PROVE PublishedInv'
  <2>1. PICK s \in cur[p] :
          csv' = [csv EXCEPT ![FileOf(s)] = WithHeaderAndRow(csv[FileOf(s)], s)]
    BY <1>6 DEF FillFile
  <2>2. FileOf(s) \in Months /\ s \in Published'
    BY <1>0, FileOfType DEF TypeOK
  <2>3. WithHeaderAndRow(csv[FileOf(s)], s).rows \subseteq Published'
    BY <2>2 DEF WithHeaderAndRow, GarbledFile
  <2>4. Load(csv') \subseteq Published'
    BY <2>1, <2>2, <2>3, OneFileChanged
  <2>5. UNCHANGED <<lake, batch, todo, header, body, pending>>
    BY <1>6 DEF FillFile
  <2>6. \A q \in Procs : cur'[q] \subseteq cur[q]
    BY <1>6 DEF FillFile, TypeOK
  <2>7. \A q \in Procs : Rows(q)' \subseteq Published'
    BY <1>0, <2>5, <2>6
  <2>8. \A q \in Procs : pc'[q] \in {"rewrite", "flush"} => ~LacksProvenance(header'[q])
    BY <1>0, <1>6, <2>5 DEF FillFile, TypeOK
  <2> QED
    BY <1>0, <2>4, <2>5, <2>7, <2>8 DEF PublishedInv, RowsPublished, NothingInvented
<1>7. ASSUME NEW p \in Procs, TruncateFile(p) PROVE PublishedInv'
  <2>1. PICK s \in cur[p] :
          /\ body' = [body EXCEPT ![p] = csv[FileOf(s)].rows]
          /\ csv' = [csv EXCEPT ![FileOf(s)] = EmptyFile]
    BY <1>7 DEF TruncateFile
  <2>2. FileOf(s) \in Months
    BY FileOfType DEF TypeOK
  <2>3. csv[FileOf(s)].rows \subseteq Published'
    BY <1>0, <2>2, LoadPublished
  <2>4. Load(csv') \subseteq Published'
    <3>1. EmptyFile.rows \subseteq Published'
      BY DEF EmptyFile
    <3> QED
      BY <2>1, <2>2, <3>1, OneFileChanged
  <2>5. UNCHANGED <<lake, batch, todo, cur, pending>>
    BY <1>7 DEF TruncateFile
  <2>6. \A q \in Procs : Rows(q)' \subseteq Published'
    BY <1>0, <2>1, <2>3, <2>5 DEF TypeOK
  <2>7. \A q \in Procs : pc'[q] \in {"rewrite", "flush"} => ~LacksProvenance(header'[q])
    BY <1>0, <1>7 DEF TruncateFile, TypeOK, Upgraded, LacksProvenance
  <2> QED
    BY <1>0, <2>4, <2>5, <2>6, <2>7 DEF PublishedInv, RowsPublished, NothingInvented
<1>8. ASSUME NEW p \in Procs, RewriteFile(p) PROVE PublishedInv'
  <2>1. PICK s \in cur[p] :
          csv' = [csv EXCEPT ![FileOf(s)] = Rewritten(csv[FileOf(s)], header[p], body[p])]
    BY <1>8 DEF RewriteFile
  <2>2. FileOf(s) \in Months
    BY FileOfType DEF TypeOK
  <2>3. Rewritten(csv[FileOf(s)], header[p], body[p]).rows \subseteq Published'
    BY <1>0 DEF Rewritten, GarbledFile
  <2>4. Load(csv') \subseteq Published'
    BY <2>1, <2>2, <2>3, OneFileChanged
  <2>5. UNCHANGED <<lake, batch, todo, cur, header, pending>>
    BY <1>8 DEF RewriteFile
  <2>6. \A q \in Procs : body'[q] \subseteq body[q]
    BY <1>8 DEF RewriteFile, TypeOK
  <2>7. \A q \in Procs : Rows(q)' \subseteq Published'
    BY <1>0, <2>5, <2>6
  <2>8. \A q \in Procs : pc'[q] \in {"rewrite", "flush"} => ~LacksProvenance(header'[q])
    BY <1>0, <1>8 DEF RewriteFile, TypeOK
  <2> QED
    BY <1>0, <2>4, <2>5, <2>7, <2>8 DEF PublishedInv, RowsPublished, NothingInvented
<1>9. ASSUME NEW p \in Procs, FlushRow(p) PROVE PublishedInv'
  <2>1. PICK s \in cur[p] :
          csv' = [csv EXCEPT ![FileOf(s)] = WithRow(csv[FileOf(s)], header[p], s)]
    BY <1>9 DEF FlushRow
  <2>2. FileOf(s) \in Months /\ s \in Published /\ Stripped(s) \in Published
    BY <1>0, FileOfType, StrippedPublished DEF TypeOK
  <2>3. header[p] # "legacy"
    BY <1>0, <1>9 DEF FlushRow, LacksProvenance
  <2>4. csv[FileOf(s)].rows \subseteq Published'
    BY <1>0, <2>2, LoadPublished
  <2>5. header[p] \in {"provenance", "full"} => Projected(header[p], s) \in Published'
    BY <2>2 DEF Projected
  <2>6. WithRow(csv[FileOf(s)], header[p], s).rows \subseteq Published'
    <3>1. csv[FileOf(s)] \in CsvFile
      BY <2>2 DEF TypeOK
    <3> QED
      BY <2>3, <2>4, <2>5, <3>1 DEF WithRow, GarbledFile, CsvFile
  <2>7. Load(csv') \subseteq Published'
    BY <2>1, <2>2, <2>6, OneFileChanged
  <2>8. UNCHANGED <<lake, batch, todo, body, header, pending>>
    BY <1>9 DEF FlushRow
  <2>9. \A q \in Procs : cur'[q] \subseteq cur[q]
    BY <1>9 DEF FlushRow, TypeOK
  <2>10. \A q \in Procs : Rows(q)' \subseteq Published'
    BY <1>0, <2>8, <2>9
  <2>11. \A q \in Procs : pc'[q] \in {"rewrite", "flush"} => ~LacksProvenance(header'[q])
    BY <1>0, <1>9 DEF FlushRow, TypeOK
  <2> QED
    BY <1>0, <2>7, <2>8, <2>10, <2>11 DEF PublishedInv, RowsPublished, NothingInvented
<1>10. ASSUME NEW p \in Procs, ReadLake(p) PROVE PublishedInv'
  <2>1. UNCHANGED <<csv, lake, todo, cur, body>>
    BY <1>10 DEF ReadLake
  <2>2. \A q \in Procs : batch'[q] \subseteq batch[q] /\ pending'[q] \subseteq pending[q] \union batch[q]
    BY <1>10 DEF ReadLake, Ended, NewRows, TypeOK
  <2>3. \A q \in Procs : Rows(q)' \subseteq Published'
    BY <1>0, <2>1, <2>2
  <2>4. \A q \in Procs : pc'[q] \in {"rewrite", "flush"} => ~LacksProvenance(header'[q])
    BY <1>0, <1>10 DEF ReadLake, Ended, TypeOK
  <2> QED
    BY <1>0, <2>1, <2>3, <2>4 DEF PublishedInv, RowsPublished, NothingInvented
<1>11. ASSUME NEW p \in Procs, WritePart(p) PROVE PublishedInv'
  <2>1. PICK rows \in SUBSET pending[p] :
          /\ lake' = lake \union [snap : rows, part : {nextPart}]
          /\ pending' = [pending EXCEPT ![p] = @ \ rows]
    BY <1>11, WritePartEffect
  <2>2. Snaps(lake') \subseteq Published'
    <3>1. Snaps(lake') = Snaps(lake) \union rows
      BY <2>1, SnapsUnion
    <3>2. rows \subseteq Published
      BY <1>0, <2>1
    <3> QED
      BY <1>0, <3>1, <3>2
  <2>3. UNCHANGED <<csv, todo, cur, body>>
    BY <1>11 DEF WritePart
  <2>4. \A q \in Procs : batch'[q] \subseteq batch[q] /\ pending'[q] \subseteq pending[q]
    BY <1>11, <2>1 DEF WritePart, Ended, TypeOK
  <2>5. \A q \in Procs : Rows(q)' \subseteq Published'
    BY <1>0, <2>3, <2>4
  <2>6. \A q \in Procs : pc'[q] \in {"rewrite", "flush"} => ~LacksProvenance(header'[q])
    BY <1>0, <1>11 DEF WritePart, Ended, TypeOK
  <2> QED
    BY <1>0, <2>2, <2>3, <2>5, <2>6 DEF PublishedInv, RowsPublished, NothingInvented
<1>12. ASSUME NEW p \in Procs, Crash(p) \/ LoadFails(p) PROVE PublishedInv'
  <2>1. UNCHANGED <<csv, lake>> /\ \A q \in Procs : Rows(q)' \subseteq Rows(q)
    BY <1>12 DEF Crash, LoadFails, Forget, TypeOK
  <2>2. \A q \in Procs : Rows(q)' \subseteq Published'
    BY <1>0, <2>1
  <2>3. \A q \in Procs : pc'[q] \in {"rewrite", "flush"} => ~LacksProvenance(header'[q])
    BY <1>0, <1>12 DEF Crash, LoadFails, Forget, TypeOK
  <2> QED
    BY <1>0, <2>1, <2>2, <2>3 DEF PublishedInv, RowsPublished, NothingInvented
<1>13. ASSUME NEW p \in Procs, RewriteSome(p) PROVE PublishedInv'
  <2>1. PICK s \in cur[p], lines \in SUBSET body[p] :
          csv' = [csv EXCEPT ![FileOf(s)] = Rewritten(csv[FileOf(s)], header[p], lines)]
    BY <1>13 DEF RewriteSome
  <2>2. FileOf(s) \in Months /\ lines \subseteq Published'
    BY <1>0, FileOfType DEF TypeOK
  <2>3. Rewritten(csv[FileOf(s)], header[p], lines).rows \subseteq Published'
    BY <2>2 DEF Rewritten, GarbledFile
  <2>4. Load(csv') \subseteq Published'
    BY <2>1, <2>2, <2>3, OneFileChanged
  <2>5. UNCHANGED <<lake, batch, todo, cur, header, body, pending, pc>>
    BY <1>13 DEF RewriteSome
  <2>6. \A q \in Procs : Rows(q)' \subseteq Published'
    BY <1>0, <2>5
  <2> QED
    BY <1>0, <2>4, <2>5, <2>6 DEF PublishedInv, RowsPublished, NothingInvented
<1>14. CASE UNCHANGED vars
  BY <1>14 DEF vars, PublishedInv, RowsPublished, NothingInvented, Published, Load, Snaps
<1> QED
  BY <1>1, <1>2, <1>3, <1>4, <1>5, <1>6, <1>7, <1>8, <1>9, <1>10, <1>11, <1>12, <1>13,
    <1>14 DEF Next, Step

\* No row of either store differs from what a venue returned by more than its
\* optional columns, through header upgrades, crashes, replays and overlaps.
THEOREM StoredRowsGenuine == Spec => []NothingInvented
<1>1. Init => TypeOK /\ PublishedInv
  BY InitTypeOK, InitPublished
<1>2. (TypeOK /\ PublishedInv) /\ [Next]_vars => (TypeOK /\ PublishedInv)'
  BY NextTypeOK, NextPublished
<1>3. PublishedInv => NothingInvented
  BY DEF PublishedInv
<1> QED
  BY <1>1, <1>2, <1>3, PTL DEF Spec
-------------------------------------------------------------------------------
(***************************************************************************)
(* Refinement: the lake, written part by part by runs that are killed and  *)
(* replayed, is the append-only journal.                                   *)
(***************************************************************************)
\* Only a collection publishes.
LEMMA OnlyCollectPublishes ==
  ASSUME NEW p \in Procs, ReadLake(p) \/ WritePart(p)
  PROVE  Published' = Published
BY DEF ReadLake, WritePart, Published

LEMMA InitIsJournalInit == Init => Journal!Init
BY DEF Init, Journal!Init

\* A part file is one entry of the journal.
LEMMA WritePartRecords ==
  ASSUME TypeOK, UniqueInv, PublishedInv, NEW p \in Procs, WritePart(p)
  PROVE  Journal!Record
<1> PICK rows \in SUBSET pending[p] :
      /\ pc[p] = "write"
      /\ lake' = lake \union [snap : rows, part : {nextPart}]
      /\ nextPart' = nextPart + 1
      /\ pending' = [pending EXCEPT ![p] = @ \ rows]
      /\ \/ pending[p] = rows /\ Ended(p)
         \/ UNCHANGED <<acked, pc, batch>>
  BY WritePartEffect
<1> DEFINE new == [snap : rows, part : {nextPart}]
<1>1. /\ rows \subseteq Published
      /\ \A s, t \in rows : Content(s) = Content(t) => s = t
      /\ \A s \in rows, f \in lake : Content(s) # Content(f.snap)
  BY DEF PublishedInv, RowsPublished, UniqueInv, PendingDistinct, PendingNew
<1>2. \A f \in lake : f.part # nextPart
  BY DEF UniqueInv, PartsNamed, TypeOK, LakeRows
<1>3. \A e \in new : e = [snap |-> e.snap, part |-> nextPart] /\ e.snap \in rows
  OBVIOUS
<1>4. \A e \in new : e.part = nextPart
  BY <1>3
<1>5. lake \subseteq lake' /\ lake' \ lake \subseteq new
  OBVIOUS
<1>6. ASSUME NEW e \in new
      PROVE  /\ e.snap \in Published
             /\ \A f \in lake : Content(e.snap) # Content(f.snap) /\ e.part # f.part
             /\ \A f \in new :
                  e.part = f.part /\ (Content(e.snap) = Content(f.snap) => e = f)
  <2>1. e.snap \in Published
    BY <1>1, <1>3
  <2>2. \A f \in lake : Content(e.snap) # Content(f.snap) /\ e.part # f.part
    BY <1>1, <1>2, <1>3, <1>4
  <2>3. \A f \in new : Content(e.snap) = Content(f.snap) => e = f
    BY <1>1, <1>3
  <2> QED
    BY <1>4, <2>1, <2>2, <2>3
<1> HIDE DEF new
<1>7. Published' = Published
  BY OnlyCollectPublishes
<1> QED
  BY <1>5, <1>6, <1>7 DEF Journal!Record, Journal!Content, Content

\* Every other step publishes readings, or nothing.
LEMMA OtherStepPublishes ==
  ASSUME TypeOK, [Next]_vars, lake' = lake
  PROVE  Journal!Publish
BY PublishedGrows DEF Journal!Publish

LEMMA StepIsJournalStep ==
  ASSUME TypeOK, UniqueInv, PublishedInv, [Next]_vars
  PROVE  [Journal!Publish \/ Journal!Record]_<<Published, lake>>
<1>1. ASSUME NEW p \in Procs, WritePart(p) PROVE Journal!Record
  BY <1>1, WritePartRecords
<1>2. ASSUME NEW p \in Procs, ReadLake(p) PROVE lake' = lake
  BY <1>2 DEF ReadLake, stores
<1>3. ASSUME NEW p \in Procs, QuietStep(p) PROVE lake' = lake
  BY <1>3, QuietStepEffect
<1>4. CASE UNCHANGED vars
  BY <1>4, OtherStepPublishes DEF vars, stores
<1> QED
  BY <1>1, <1>2, <1>3, <1>4, StepKinds, OtherStepPublishes

\* The detailed specification implements the abstract one, for every number of
\* processes, venues, months, crashes and replays of a serialised scheduler.
THEOREM LakeImplementsJournal ==
  ASSUME Serialized
  PROVE  Spec => LakeIsJournal
<1>1. Init => TypeOK /\ UniqueInv /\ PublishedInv
  BY InitTypeOK, InitUnique, InitPublished
<1>2. (TypeOK /\ UniqueInv /\ PublishedInv) /\ [Next]_vars
        => (TypeOK /\ UniqueInv /\ PublishedInv)'
  BY NextTypeOK, NextUnique, NextPublished
<1>3. Init => Journal!Init
  BY InitIsJournalInit
<1>4. (TypeOK /\ UniqueInv /\ PublishedInv) /\ [Next]_vars
        => [Journal!Publish \/ Journal!Record]_<<Published, lake>>
  BY StepIsJournalStep
<1> QED
  BY <1>1, <1>2, <1>3, <1>4, PTL DEF Spec, LakeIsJournal, Journal!Spec
-------------------------------------------------------------------------------
(***************************************************************************)
(* The CSV files under a scheduler that does not overlap runs: what a run  *)
(* knows of them, and what they hold of the lake.                          *)
(***************************************************************************)
\* The control points of the append, with a reading in hand or not.
Editing == {"create", "fill", "truncate", "rewrite", "flush"}
Appending == Editing \union {"append"}

\* A file holds readings of its month, one for each key.
RowsOk(file, m) ==
  /\ file.layout = "absent" => file.rows = {}
  /\ \A s \in file.rows : FileOf(s) = m
  /\ \A s, t \in file.rows : DedupKey(s) = DedupKey(t) => s = t

\* No upgrade of a file that still has its old header is open.
FilesOk == \A m \in Months :
  RowsOk(csv[m], m) /\ (csv[m].layout = "legacy" => m \notin upgrading)

\* The key of a reading is in its file, if that can be read and is not one of
\* the files whose header upgrade is open.
CoveredBy(x, file, open) ==
  /\ file.layout # "absent"
  /\ Readable(file) /\ FileOf(x) \notin open => DedupKey(x) \in Keys(file.rows)

\* What the files must not lose.
Kept == History \union acked \union Snaps(lake)
KeptIsCovered == \A x \in Kept : CoveredBy(x, csv[FileOf(x)], upgrading)

\* What a run takes for stored: all it has seen but the reading in hand.
Handled(p) == {x \in Snapshots : DedupKey(x) \in seen[p] \ Keys(cur[p])}
Expected(p) == Kept \union Handled(p)

CursorOk(p) ==
  IF pc[p] \in Editing THEN \E s \in Snapshots : cur[p] = {s} ELSE cur[p] = {}

SeenOk(p) == pc[p] \in Appending =>
  /\ Keys(cur[p]) \subseteq seen[p]
  /\ \A m \in Months : Keys(csv[m].rows) \subseteq seen[p]
  /\ \A x \in batch[p] \ todo[p] : DedupKey(x) \in seen[p]
  /\ \A x \in Handled(p) : CoveredBy(x, csv[FileOf(x)], upgrading)

\* A file that is created is the first of its month.
FreshOk(p) == pc[p] \in {"create", "fill"} =>
  \A s \in cur[p], x \in Expected(p) : FileOf(x) # FileOf(s)

\* The reading in hand is in no file, and not among the lines kept for one.
NewOk(p) == \A s \in cur[p] :
  /\ pc[p] \in {"truncate", "flush"} => DedupKey(s) \notin Keys(csv[FileOf(s)].rows)
  /\ pc[p] = "rewrite" => DedupKey(s) \notin Keys(body[p])

\* The lines kept for a file are those it must have.
UpgradeOk(p) == \A s \in cur[p] :
  /\ pc[p] = "truncate" => header[p] = HeaderOf(csv[FileOf(s)])
  /\ pc[p] = "rewrite" =>
       /\ FileOf(s) \in upgrading
       /\ RowsOk([layout |-> header[p], rows |-> body[p]], FileOf(s))
       /\ Keys(body[p]) \subseteq seen[p]
       /\ header[p] \in {"provenance", "junk"}
       /\ header[p] = "provenance" => \A x \in Expected(p) :
            FileOf(x) = FileOf(s) => DedupKey(x) \in Keys(body[p])

\* The lake write begins when the batch is in the files.
BatchOk(p) ==
  /\ pc[p] = "load" => batch[p] \subseteq todo[p]
  /\ pc[p] \in {"dedup", "write"} => \A x \in batch[p] : CoveredBy(x, csv[FileOf(x)], upgrading)
  /\ pc[p] = "write" => pending[p] \subseteq batch[p]

RunOk(p) == CursorOk(p) /\ SeenOk(p) /\ FreshOk(p) /\ NewOk(p) /\ UpgradeOk(p) /\ BatchOk(p)

CsvInv == OneRun /\ FilesOk /\ KeptIsCovered /\ \A p \in Procs : RunOk(p)

\* Without a kill while a file is open, only the file in hand is ever empty, or
\* has an upgrade open.
CleanFiles == \A m \in Months :
  /\ csv[m].layout \in {"absent", "empty", "legacy", "provenance", "full"}
  /\ csv[m].layout = "empty" \/ m \in upgrading =>
       \E p \in Procs : pc[p] \in {"fill", "rewrite"} /\ \E s \in cur[p] : FileOf(s) = m

CleanRun(p) == \A s \in cur[p] :
  /\ pc[p] = "create" => csv[FileOf(s)].layout = "absent"
  /\ pc[p] = "fill" => csv[FileOf(s)].layout = "empty" /\ FileOf(s) \notin upgrading
  /\ pc[p] = "rewrite" => IsPartOf(csv[FileOf(s)], "provenance", body[p])
  /\ pc[p] = "truncate" => csv[FileOf(s)].layout = "legacy"
  /\ pc[p] = "rewrite" => header[p] = "provenance"
  /\ pc[p] = "flush" => csv[FileOf(s)].layout = header[p] /\ header[p] \in {"provenance", "full"}

CleanInv == CleanFiles /\ \A p \in Procs : CleanRun(p)
-------------------------------------------------------------------------------
\* Readings of one key belong in one file.
LEMMA KeyGivesFile ==
  ASSUME NEW x, NEW y, DedupKey(x) = DedupKey(y)
  PROVE  FileOf(x) = FileOf(y)
BY DEF DedupKey, FileOf

\* A row keeps its key whatever columns it is written under.
LEMMA ProjectedKey ==
  ASSUME NEW s \in Snapshots, NEW h
  PROVE  DedupKey(Projected(h, s)) = DedupKey(s)
<1>1. Stripped(s) \in Snapshots /\ DedupKey(Stripped(s)) = DedupKey(s)
  BY StrippedType
<1> DEFINE u == Stripped(s)
           w == [u EXCEPT !.offer.simulated = FALSE]
<1>2. w.at = u.at /\ w.venue = u.venue /\ w.offer.product = u.offer.product
  <2> HIDE DEF u
  <2> QED
    BY <1>1 DEF u, Snapshots, Offers
<1>3. DedupKey(w) = DedupKey(u)
  BY <1>2 DEF DedupKey
<1> QED
  BY <1>1, <1>3 DEF Projected

\* What the files must not lose are readings.
LEMMA KeptType == TypeOK => Kept \subseteq Snapshots
BY CollectorAssumption DEF TypeOK, Kept, Snaps, LakeRows

\* A process without a run, or whose run has not read the files yet.
LEMMA RestingRunOk ==
  ASSUME NEW p \in Procs, cur'[p] = {},
         \/ pc'[p] = "idle"
         \/ pc'[p] = "load" /\ batch'[p] \subseteq todo'[p]
  PROVE  RunOk(p)'
BY DEF RunOk, CursorOk, SeenOk, FreshOk, NewOk, UpgradeOk, BatchOk, Editing, Appending

LEMMA InitCsv == Init => CsvInv
<1> SUFFICES ASSUME Init PROVE CsvInv
  OBVIOUS
<1>1. \A m \in Months : csv[m] = LegacyFile(m)
  BY DEF Init
<1>2. FilesOk
  <2> SUFFICES ASSUME NEW m \in Months PROVE RowsOk(LegacyFile(m), m)
    BY <1>1 DEF FilesOk, Init
  <2> QED
    BY CollectorAssumption DEF LegacyFile, NoFile, RowsOk, FileOf
<1>3. KeptIsCovered
  <2> SUFFICES ASSUME NEW x \in History PROVE CoveredBy(x, csv[FileOf(x)], upgrading)
    BY DEF Init, KeptIsCovered, Kept, Snaps
  <2>1. FileOf(x) \in Months
    BY FileOfType, CollectorAssumption
  <2> DEFINE rows == {s \in History : MonthOf[s.at] = FileOf(x)}
  <2>2. x \in rows
    BY DEF FileOf
  <2>3. LegacyFile(FileOf(x)) = [layout |-> "legacy", rows |-> rows]
    BY <2>2 DEF LegacyFile
  <2> HIDE DEF rows
  <2> QED
    BY <1>1, <2>1, <2>2, <2>3 DEF CoveredBy, Keys
<1>4. \A p \in Procs : RunOk(p)
  BY DEF Init, RunOk, CursorOk, SeenOk, FreshOk, NewOk, UpgradeOk, BatchOk, Editing, Appending
<1> QED
  BY <1>2, <1>3, <1>4 DEF Init, CsvInv, OneRun

\* The moves of one run under a scheduler that does not overlap runs.
Moves(p) == ReadLake(p) \/ WritePart(p) \/ QuietStep(p)

\* The other processes are idle and stay so: only the run that moves counts.
LEMMA OnlyTheRunCounts ==
  ASSUME Serialized, TypeOK, CsvInv, NEW p \in Procs, Moves(p),
         \A q \in Procs \ {p} : cur'[q] = cur[q], RunOk(p)'
  PROVE  OneRun' /\ \A q \in Procs : RunOk(q)'
<1>1. /\ \A q \in Procs \ {p} : pc'[q] = pc[q]
      /\ pc[p] # "idle" \/ \A q \in Procs : pc[q] = "idle"
  BY StepMovesOne DEF Moves
<1>2. \A q \in Procs \ {p} : pc[q] = "idle" /\ pc'[q] = "idle"
  BY <1>1 DEF CsvInv, OneRun
<1>3. \A q \in Procs \ {p} : cur'[q] = {}
  BY <1>2 DEF CsvInv, RunOk, CursorOk, Editing
<1>4. OneRun'
  BY <1>2 DEF OneRun
<1> QED
  BY <1>2, <1>3, <1>4, RestingRunOk

\* A write to the file of the reading in hand.
LEMMA FileWritten ==
  ASSUME TypeOK, CsvInv, NEW p \in Procs, NEW s \in Snapshots, NEW f,
         cur[p] = {s}, pc[p] \in Editing,
         csv' = [csv EXCEPT ![FileOf(s)] = f],
         upgrading' \in {upgrading, upgrading \union {FileOf(s)}, upgrading \ {FileOf(s)}},
         UNCHANGED <<lake, acked, batch, todo, seen>>,
         f.layout = "legacy" => FileOf(s) \notin upgrading',
         RowsOk(f, FileOf(s)), Keys(f.rows) \subseteq seen[p],
         \A x \in Expected(p) : FileOf(x) = FileOf(s) => CoveredBy(x, f, upgrading'),
         cur'[p] = {s} \/ (cur'[p] = {} /\ CoveredBy(s, f, upgrading'))
  PROVE  /\ FilesOk'
         /\ KeptIsCovered'
         /\ Kept' = Kept
         /\ SeenOk(p)'
         /\ cur'[p] = {s} => Expected(p)' = Expected(p)
<1>1. FileOf(s) \in Months /\ csv'[FileOf(s)] = f
  BY FileOfType DEF TypeOK
<1>2. \A m \in Months : m # FileOf(s) =>
        csv'[m] = csv[m] /\ (m \in upgrading' <=> m \in upgrading)
  BY DEF TypeOK
<1>3. FilesOk'
  BY <1>1, <1>2 DEF CsvInv, FilesOk
<1>4. Kept' = Kept /\ Kept \subseteq Snapshots
  BY KeptType DEF Kept
<1>5. \A x \in Expected(p) : CoveredBy(x, csv[FileOf(x)], upgrading)
  BY DEF CsvInv, RunOk, SeenOk, Expected, KeptIsCovered, Appending
<1>6. \A x \in Expected(p) : x \in Snapshots
  BY <1>4 DEF Expected, Handled
<1>7. \A x \in Expected(p) : CoveredBy(x, csv'[FileOf(x)], upgrading')
  <2> TAKE x \in Expected(p)
  <2>1. CASE FileOf(x) = FileOf(s)
    BY <1>1, <2>1
  <2>2. CASE FileOf(x) # FileOf(s)
    BY <1>2, <1>5, <1>6, <2>2, FileOfType DEF CoveredBy
  <2> QED
    BY <2>1, <2>2
<1>8. KeptIsCovered'
  BY <1>4, <1>7 DEF KeptIsCovered, Expected
<1>9. ASSUME NEW x \in Snapshots, DedupKey(x) \in seen'[p] \ Keys(cur'[p])
      PROVE  CoveredBy(x, csv'[FileOf(x)], upgrading')
  <2>1. CASE DedupKey(x) # DedupKey(s)
    BY <1>7, <1>9, <2>1 DEF Expected, Handled, Keys
  <2>2. CASE DedupKey(x) = DedupKey(s)
    <3>1. CoveredBy(s, f, upgrading')
      BY <1>9, <2>2 DEF Keys
    <3>2. FileOf(x) = FileOf(s)
      BY <2>2, KeyGivesFile
    <3> QED
      BY <1>1, <2>2, <3>1, <3>2 DEF CoveredBy
  <2> QED
    BY <2>1, <2>2
<1>10. SeenOk(p)'
  <2>1. SeenOk(p) /\ pc[p] \in Appending
    BY DEF CsvInv, RunOk, Appending
  <2>2. Keys(cur'[p]) \subseteq seen[p]
    BY <2>1 DEF SeenOk, Keys
  <2>3. \A m \in Months : Keys(csv'[m].rows) \subseteq seen[p]
    BY <1>1, <1>2, <2>1 DEF SeenOk
  <2>4. \A x \in batch[p] \ todo[p] : DedupKey(x) \in seen[p]
    BY <2>1 DEF SeenOk
  <2>5. \A x \in Handled(p)' : CoveredBy(x, csv'[FileOf(x)], upgrading')
    BY <1>9 DEF Handled
  <2> QED
    BY <2>2, <2>3, <2>4, <2>5 DEF SeenOk
<1>11. cur'[p] = {s} => Expected(p)' = Expected(p)
  BY <1>4 DEF Expected, Handled
<1> QED
  BY <1>3, <1>4, <1>8, <1>10, <1>11

\* The moves that write no file.
LEMMA CursorMoves ==
  ASSUME Serialized, TypeOK, CsvInv, NEW p \in Procs,
         \/ Collect(p) \/ Replay(p) \/ Migrate(p) \/ LoadKeys(p) \/ SkipRow(p) \/ NextRow(p)
         \/ EndAppend(p) \/ ReadLake(p) \/ WritePart(p) \/ Crash(p) \/ LoadFails(p)
  PROVE  CsvInv'
<1> USE DEF stores, locals, bounds, ghosts
<1>0. Moves(p)
  BY DEF Moves, QuietStep
<1>s. csv' = csv /\ upgrading' = upgrading
  BY DEF Collect, Replay, Migrate, LoadKeys, SkipRow, NextRow, EndAppend, ReadLake, Ended,
    WritePart, Crash, LoadFails, Forget
<1> USE <1>s
<1>a. /\ RunOk(p)
      /\ \A m \in Months : RowsOk(csv[m], m)
      /\ \A x \in Kept : CoveredBy(x, csv[FileOf(x)], upgrading)
  BY DEF CsvInv, FilesOk, KeptIsCovered
<1> SUFFICES /\ \A x \in Kept' : CoveredBy(x, csv[FileOf(x)], upgrading)
             /\ \A q \in Procs \ {p} : cur'[q] = cur[q]
             /\ RunOk(p)'
  BY <1>0, OnlyTheRunCounts DEF CsvInv, FilesOk, KeptIsCovered
<1>1. CASE Collect(p) \/ Replay(p)
  <2>1. cur[p] = {} /\ cur' = cur /\ Kept' = Kept /\ csv' = csv
    BY <1>a, <1>1 DEF Collect, Replay, MayStart, RunOk, CursorOk, Editing, Kept
  <2>2. pc'[p] \in {"idle", "load"} /\ batch'[p] = todo'[p]
    BY <1>1 DEF Collect, Replay, TypeOK
  <2> QED
    BY <1>a, <2>1, <2>2, RestingRunOk
<1>2. CASE Migrate(p)
  <2>1. cur[p] = {} /\ cur' = cur /\ Kept' = Kept /\ csv' = csv
    BY <1>a, <1>2 DEF Migrate, MayStart, RunOk, CursorOk, Editing, Kept
  <2>2. pc'[p] = "dedup" /\ batch'[p] = Load(csv)
    BY <1>2 DEF Migrate, TypeOK
  <2>3. ASSUME NEW x \in Load(csv) PROVE CoveredBy(x, csv[FileOf(x)], upgrading)
    <3>1. PICK m \in Months : x \in csv[m].rows
      BY DEF Load
    <3> QED
      BY <1>a, <3>1 DEF RowsOk, CoveredBy, Keys
  <2>4. RunOk(p)'
    BY <2>1, <2>2, <2>3 DEF RunOk, CursorOk, SeenOk, FreshOk, NewOk, UpgradeOk, BatchOk,
      Editing, Appending
  <2> QED
    BY <1>a, <2>1, <2>4
<1>3. CASE LoadKeys(p)
  <2>1. cur[p] = {} /\ cur' = cur /\ Kept' = Kept /\ csv' = csv
    BY <1>a, <1>3 DEF LoadKeys, RunOk, CursorOk, Editing, Kept
  <2>2. /\ pc'[p] = "append" /\ seen'[p] = Keys(Load(csv))
        /\ batch'[p] \subseteq todo'[p]
    BY <1>a, <1>3 DEF LoadKeys, TypeOK, RunOk, BatchOk
  <2>3. ASSUME NEW x \in Snapshots, DedupKey(x) \in Keys(Load(csv))
        PROVE  CoveredBy(x, csv[FileOf(x)], upgrading)
    <3>1. PICK m \in Months : \E y \in csv[m].rows : DedupKey(y) = DedupKey(x)
      BY <2>3 DEF Load, Keys
    <3>2. FileOf(x) = m
      BY <1>a, <3>1, KeyGivesFile DEF RowsOk
    <3> QED
      BY <1>a, <3>1, <3>2 DEF CoveredBy, Keys, RowsOk
  <2>4. SeenOk(p)'
    <3>1. \A m \in Months : Keys(csv[m].rows) \subseteq seen'[p]
      BY <2>2 DEF Keys, Load
    <3> QED
      BY <2>1, <2>2, <2>3, <3>1 DEF SeenOk, Handled, Keys
  <2>5. RunOk(p)'
    BY <2>1, <2>2, <2>4 DEF RunOk, CursorOk, FreshOk, NewOk, UpgradeOk, BatchOk, Editing
  <2> QED
    BY <1>a, <2>1, <2>5
<1>4. CASE SkipRow(p)
  <2>1. cur[p] = {} /\ cur' = cur /\ Kept' = Kept /\ csv' = csv /\ pc[p] = "append"
    BY <1>a, <1>4 DEF SkipRow, RunOk, CursorOk, Editing, Kept
  <2>2. PICK s \in todo[p] : DedupKey(s) \in seen[p] /\ todo'[p] = todo[p] \ {s}
    BY <1>4 DEF SkipRow, TypeOK
  <2>3. pc'[p] = "append" /\ seen' = seen /\ batch' = batch
    BY <1>4, <2>1 DEF SkipRow
  <2>4. SeenOk(p)'
    BY <1>a, <2>1, <2>2, <2>3 DEF RunOk, SeenOk, Handled, Appending
  <2>5. RunOk(p)'
    BY <2>1, <2>3, <2>4 DEF RunOk, CursorOk, FreshOk, NewOk, UpgradeOk, BatchOk, Editing
  <2> QED
    BY <1>a, <2>1, <2>5
<1>5. CASE NextRow(p)
  <2>1. PICK s \in todo[p] :
          /\ DedupKey(s) \notin seen[p]
          /\ seen' = [seen EXCEPT ![p] = @ \union {DedupKey(s)}]
          /\ todo' = [todo EXCEPT ![p] = @ \ {s}]
          /\ cur' = [cur EXCEPT ![p] = {s}]
          /\ header' = [header EXCEPT ![p] = HeaderOf(csv[FileOf(s)])]
          /\ pc' = [pc EXCEPT ![p] =
                      CASE csv[FileOf(s)].layout = "absent" -> "create"
                        [] LacksProvenance(HeaderOf(csv[FileOf(s)])) -> "truncate"
                        [] OTHER -> "flush"]
    BY <1>5 DEF NextRow
  <2>2. /\ Kept' = Kept /\ csv' = csv /\ batch' = batch /\ pc[p] = "append"
        /\ \A q \in Procs \ {p} : cur'[q] = cur[q]
    BY <1>5, <2>1 DEF NextRow, Kept, TypeOK
  <2>3. /\ seen'[p] = seen[p] \union {DedupKey(s)} /\ todo'[p] = todo[p] \ {s}
        /\ cur'[p] = {s} /\ header'[p] = HeaderOf(csv[FileOf(s)])
    BY <2>1 DEF TypeOK
  <2>4. /\ pc'[p] \in {"create", "truncate", "flush"}
        /\ pc'[p] = "create" => csv[FileOf(s)].layout = "absent"
    <3>1. pc'[p] = CASE csv[FileOf(s)].layout = "absent" -> "create"
                     [] LacksProvenance(HeaderOf(csv[FileOf(s)])) -> "truncate"
                     [] OTHER -> "flush"
      BY <2>1 DEF TypeOK
    <3> QED
      BY <3>1
  <2>5. s \in Snapshots /\ FileOf(s) \in Months
    BY FileOfType DEF TypeOK
  <2>6. cur[p] = {}
    BY <1>a, <2>2 DEF RunOk, CursorOk, Editing
  <2>7. SeenOk(p) /\ pc[p] \in Appending
    BY <1>a, <2>2 DEF RunOk, Appending
  <2>8. Expected(p)' = Expected(p) /\ Handled(p)' = Handled(p)
    BY <2>1, <2>2, <2>3, <2>6 DEF Expected, Handled, Keys
  <2>9. \A x \in Expected(p) : CoveredBy(x, csv[FileOf(x)], upgrading)
    BY <1>a, <2>7 DEF SeenOk, Expected
  <2>10. SeenOk(p)'
    <3>1. Keys({s}) \subseteq seen'[p]
      BY <2>3 DEF Keys
    <3>2. \A x \in batch'[p] \ todo'[p] : DedupKey(x) \in seen'[p]
      BY <2>2, <2>3, <2>7 DEF SeenOk
    <3>3. \A m \in Months : Keys(csv[m].rows) \subseteq seen'[p]
      BY <2>3, <2>7 DEF SeenOk
    <3>4. \A x \in Handled(p) : CoveredBy(x, csv[FileOf(x)], upgrading)
      BY <2>7 DEF SeenOk
    <3> QED
      BY <2>2, <2>3, <2>8, <3>1, <3>2, <3>3, <3>4 DEF SeenOk
  <2>11. FreshOk(p)'
    BY <2>2, <2>3, <2>4, <2>8, <2>9 DEF FreshOk, CoveredBy
  <2>12. NewOk(p)'
    BY <2>1, <2>2, <2>3, <2>4, <2>5, <2>7 DEF NewOk, SeenOk
  <2>13. UpgradeOk(p)'
    BY <2>2, <2>3, <2>4 DEF UpgradeOk
  <2>14. CursorOk(p)' /\ BatchOk(p)'
    BY <2>3, <2>4, <2>5 DEF CursorOk, BatchOk, Editing
  <2> QED
    BY <1>a, <2>2, <2>10, <2>11, <2>12, <2>13, <2>14 DEF RunOk
<1>6. CASE EndAppend(p)
  <2>1. /\ cur[p] = {} /\ cur' = cur /\ Kept' = Kept /\ csv' = csv /\ pc[p] = "append"
        /\ batch' = batch /\ pc'[p] = "dedup" /\ todo[p] = {}
    BY <1>a, <1>6 DEF EndAppend, RunOk, CursorOk, Editing, Kept, TypeOK
  <2>2. ASSUME NEW x \in batch[p] PROVE CoveredBy(x, csv[FileOf(x)], upgrading)
    <3>1. DedupKey(x) \in seen[p] /\ x \in Snapshots
      BY <1>a, <2>1 DEF RunOk, SeenOk, Appending, TypeOK
    <3>2. x \in Handled(p)
      BY <2>1, <3>1 DEF Handled, Keys
    <3> QED
      BY <1>a, <2>1, <3>2 DEF RunOk, SeenOk, Appending
  <2>3. RunOk(p)'
    BY <2>1, <2>2 DEF RunOk, CursorOk, SeenOk, FreshOk, NewOk, UpgradeOk, BatchOk,
      Editing, Appending
  <2> QED
    BY <1>a, <2>1, <2>3
<1>7. CASE ReadLake(p)
  <2>1. cur[p] = {} /\ cur' = cur /\ csv' = csv /\ lake' = lake
    BY <1>a, <1>7 DEF ReadLake, RunOk, CursorOk, Editing
  <2>2. \A x \in batch[p] : CoveredBy(x, csv[FileOf(x)], upgrading)
    BY <1>a, <1>7 DEF ReadLake, RunOk, BatchOk
  <2>3. \/ pc'[p] = "idle" /\ acked' = acked \union batch[p]
        \/ /\ pc'[p] = "write" /\ acked' = acked /\ batch' = batch
           /\ pending'[p] \subseteq batch[p]
    BY <1>7 DEF ReadLake, Ended, NewRows, TypeOK
  <2>4. \A x \in Kept' : CoveredBy(x, csv[FileOf(x)], upgrading)
    BY <1>a, <2>1, <2>2, <2>3 DEF Kept
  <2>5. RunOk(p)'
    <3>1. CASE pc'[p] = "idle"
      BY <2>1, <3>1, RestingRunOk
    <3>2. CASE pc'[p] = "write"
      BY <2>1, <2>2, <2>3, <3>2 DEF RunOk, CursorOk, SeenOk, FreshOk, NewOk, UpgradeOk,
        BatchOk, Editing, Appending
    <3> QED
      BY <2>3, <3>1, <3>2
  <2> QED
    BY <2>1, <2>4, <2>5
<1>8. CASE WritePart(p)
  <2>1. PICK rows \in SUBSET pending[p] :
          /\ pc[p] = "write"
          /\ lake' = lake \union [snap : rows, part : {nextPart}]
          /\ nextPart' = nextPart + 1
          /\ pending' = [pending EXCEPT ![p] = @ \ rows]
          /\ \/ pending[p] = rows /\ Ended(p)
             \/ UNCHANGED <<acked, pc, batch>>
    BY <1>8, WritePartEffect
  <2>2. cur[p] = {} /\ cur' = cur /\ csv' = csv
    BY <1>a, <1>8, <2>1 DEF WritePart, RunOk, CursorOk, Editing
  <2>3. /\ pending[p] \subseteq batch[p]
        /\ \A x \in batch[p] : CoveredBy(x, csv[FileOf(x)], upgrading)
    BY <1>a, <2>1 DEF RunOk, BatchOk
  <2>4. Snaps(lake') = Snaps(lake) \union rows
    BY <2>1, SnapsUnion
  <2>5. \/ pc'[p] = "idle" /\ acked' = acked \union batch[p]
        \/ pc'[p] = "write" /\ acked' = acked /\ batch' = batch
    BY <2>1 DEF Ended, TypeOK
  <2>6. \A x \in Kept' : CoveredBy(x, csv[FileOf(x)], upgrading)
    BY <1>a, <2>3, <2>4, <2>5 DEF Kept
  <2>7. pending'[p] \subseteq batch[p]
    BY <2>1, <2>3 DEF TypeOK
  <2>8. RunOk(p)'
    <3>1. CASE pc'[p] = "idle"
      BY <2>2, <3>1, RestingRunOk
    <3>2. CASE pc'[p] = "write"
      BY <2>2, <2>3, <2>5, <2>7, <3>2 DEF RunOk, CursorOk, SeenOk, FreshOk, NewOk,
        UpgradeOk, BatchOk, Editing, Appending
    <3> QED
      BY <2>5, <3>1, <3>2
  <2> QED
    BY <2>2, <2>6, <2>8
<1>9. CASE Crash(p) \/ LoadFails(p)
  <2>1. /\ csv' = csv /\ Kept' = Kept /\ pc'[p] = "idle" /\ cur'[p] = {}
        /\ \A q \in Procs \ {p} : cur'[q] = cur[q]
    BY <1>9 DEF Crash, LoadFails, Forget, Kept, TypeOK
  <2> QED
    BY <1>a, <2>1, RestingRunOk
<1> QED
  BY <1>1, <1>2, <1>3, <1>4, <1>5, <1>6, <1>7, <1>8, <1>9

\* The moves that write the file of the reading in hand.
LEMMA FileMoves ==
  ASSUME Serialized, TypeOK, CsvInv, NEW p \in Procs,
         \/ CreateFile(p) \/ FillFile(p) \/ TruncateFile(p)
         \/ RewriteSome(p) \/ RewriteFile(p) \/ FlushRow(p)
  PROVE  CsvInv'
<1> USE DEF stores, locals, bounds, ghosts
<1>0. Moves(p)
  BY DEF Moves, QuietStep
<1>a. RunOk(p) /\ pc[p] \in Editing
  BY DEF CsvInv, CreateFile, FillFile, TruncateFile, RewriteSome, RewriteFile, FlushRow,
    Editing
<1>b. PICK s \in Snapshots : cur[p] = {s}
  BY <1>a DEF RunOk, CursorOk
<1>c. /\ FileOf(s) \in Months
      /\ RowsOk(csv[FileOf(s)], FileOf(s))
      /\ csv[FileOf(s)].layout = "legacy" => FileOf(s) \notin upgrading
      /\ csv[FileOf(s)] \in CsvFile
  BY FileOfType DEF CsvInv, FilesOk, TypeOK
<1>d. /\ Keys(csv[FileOf(s)].rows) \subseteq seen[p]
      /\ DedupKey(s) \in seen[p]
  BY <1>a, <1>b, <1>c DEF RunOk, SeenOk, Appending, Keys
<1>e. \A x \in Expected(p) : FileOf(x) = FileOf(s) => CoveredBy(x, csv[FileOf(s)], upgrading)
  <2>1. \A x \in Handled(p) : CoveredBy(x, csv[FileOf(x)], upgrading)
    BY <1>a DEF RunOk, SeenOk, Appending
  <2>2. \A x \in Kept : CoveredBy(x, csv[FileOf(x)], upgrading)
    BY DEF CsvInv, KeptIsCovered
  <2> QED
    BY <2>1, <2>2 DEF Expected
<1>f. UNCHANGED <<lake, acked, batch, todo, seen>> /\ \A q \in Procs \ {p} : cur'[q] = cur[q]
  BY DEF CreateFile, FillFile, TruncateFile, RewriteSome, RewriteFile, FlushRow, TypeOK
<1> SUFFICES FilesOk' /\ KeptIsCovered' /\ RunOk(p)'
  BY <1>0, <1>f, OnlyTheRunCounts DEF CsvInv
<1>1. CASE CreateFile(p)
  <2> DEFINE f == IF csv[FileOf(s)].layout = "absent" THEN EmptyFile ELSE csv[FileOf(s)]
  <2>1. csv' = [csv EXCEPT ![FileOf(s)] = f]
    BY <1>1, <1>b DEF CreateFile
  <2>2. pc'[p] = "fill" /\ pc[p] = "create" /\ cur' = cur /\ upgrading' = upgrading
    BY <1>1 DEF CreateFile, TypeOK
  <2>3. /\ RowsOk(f, FileOf(s)) /\ Keys(f.rows) \subseteq seen[p]
        /\ f.layout = "legacy" => FileOf(s) \notin upgrading
    BY <1>c, <1>d DEF RowsOk, EmptyFile, Keys
  <2>4. \A x \in Expected(p) : FileOf(x) # FileOf(s)
    BY <1>a, <1>b, <2>2 DEF RunOk, FreshOk
  <2> HIDE DEF f
  <2>5. FilesOk' /\ KeptIsCovered' /\ SeenOk(p)' /\ Expected(p)' = Expected(p)
    BY <1>a, <1>b, <1>f, <2>1, <2>2, <2>3, <2>4, FileWritten
  <2>6. CursorOk(p)' /\ FreshOk(p)' /\ NewOk(p)' /\ UpgradeOk(p)' /\ BatchOk(p)'
    BY <1>b, <2>2, <2>4, <2>5 DEF CursorOk, FreshOk, NewOk, UpgradeOk, BatchOk, Editing
  <2> QED
    BY <2>5, <2>6 DEF RunOk
<1>2. CASE FillFile(p)
  <2> DEFINE f == WithHeaderAndRow(csv[FileOf(s)], s)
  <2>1. csv' = [csv EXCEPT ![FileOf(s)] = f]
    BY <1>2, <1>b DEF FillFile
  <2>2. pc'[p] = "append" /\ pc[p] = "fill" /\ cur'[p] = {} /\ upgrading' = upgrading
    BY <1>2 DEF FillFile, TypeOK
  <2>3. /\ RowsOk(f, FileOf(s)) /\ Keys(f.rows) \subseteq seen[p]
        /\ CoveredBy(s, f, upgrading') /\ f.layout # "legacy"
    BY <1>d DEF RowsOk, WithHeaderAndRow, GarbledFile, Keys, CoveredBy, Readable
  <2>4. \A x \in Expected(p) : FileOf(x) # FileOf(s)
    BY <1>a, <1>b, <2>2 DEF RunOk, FreshOk
  <2> HIDE DEF f
  <2>5. FilesOk' /\ KeptIsCovered' /\ SeenOk(p)'
    BY <1>a, <1>b, <1>f, <2>1, <2>2, <2>3, <2>4, FileWritten
  <2>6. CursorOk(p)' /\ FreshOk(p)' /\ NewOk(p)' /\ UpgradeOk(p)' /\ BatchOk(p)'
    BY <2>2 DEF CursorOk, FreshOk, NewOk, UpgradeOk, BatchOk, Editing
  <2> QED
    BY <2>5, <2>6 DEF RunOk
<1>3. CASE TruncateFile(p)
  <2>1. /\ csv' = [csv EXCEPT ![FileOf(s)] = EmptyFile]
        /\ body'[p] = csv[FileOf(s)].rows
        /\ upgrading' = upgrading \union {FileOf(s)}
    BY <1>3, <1>b DEF TruncateFile, TypeOK
  <2>2. /\ pc'[p] = "rewrite" /\ pc[p] = "truncate" /\ cur' = cur
        /\ header'[p] = Upgraded(header[p])
    BY <1>3 DEF TruncateFile, TypeOK
  <2>3. /\ RowsOk(EmptyFile, FileOf(s)) /\ Keys(EmptyFile.rows) \subseteq seen[p]
        /\ EmptyFile.layout # "legacy"
    BY DEF RowsOk, EmptyFile, Keys
  <2>4. \A x \in Expected(p) : CoveredBy(x, EmptyFile, upgrading')
    BY DEF CoveredBy, EmptyFile, Readable
  <2>5. FilesOk' /\ KeptIsCovered' /\ SeenOk(p)' /\ Expected(p)' = Expected(p)
    BY <1>a, <1>b, <1>f, <2>1, <2>2, <2>3, <2>4, FileWritten
  <2>6. CursorOk(p)' /\ FreshOk(p)' /\ BatchOk(p)'
    BY <1>b, <2>2 DEF CursorOk, FreshOk, BatchOk, Editing
  <2>7. NewOk(p)'
    BY <1>a, <1>b, <2>1, <2>2 DEF RunOk, NewOk
  <2>8. header[p] = HeaderOf(csv[FileOf(s)])
    BY <1>a, <1>b, <2>2 DEF RunOk, UpgradeOk
  <2>9. /\ header'[p] \in {"provenance", "junk"}
        /\ header'[p] = "provenance" => csv[FileOf(s)].layout = "legacy"
    BY <2>2, <2>8 DEF Upgraded, HeaderOf
  <2>10. RowsOk([layout |-> header'[p], rows |-> body'[p]], FileOf(s))
    BY <1>c, <2>1, <2>9 DEF RowsOk
  <2>11. header'[p] = "provenance" => \A x \in Expected(p) :
           FileOf(x) = FileOf(s) => DedupKey(x) \in Keys(body'[p])
    BY <1>c, <1>e, <2>1, <2>9 DEF CoveredBy, Readable
  <2>12. UpgradeOk(p)'
    BY <1>b, <1>d, <1>f, <2>1, <2>2, <2>5, <2>9, <2>10, <2>11 DEF UpgradeOk
  <2> QED
    BY <2>5, <2>6, <2>7, <2>12 DEF RunOk
<1>4. CASE RewriteFile(p)
  <2> DEFINE f == Rewritten(csv[FileOf(s)], header[p], body[p])
  <2>1. csv' = [csv EXCEPT ![FileOf(s)] = f] /\ upgrading' = upgrading \ {FileOf(s)}
    BY <1>4, <1>b DEF RewriteFile
  <2>2. pc'[p] = "flush" /\ pc[p] = "rewrite" /\ cur' = cur
    BY <1>4 DEF RewriteFile, TypeOK
  <2>3. /\ RowsOk([layout |-> header[p], rows |-> body[p]], FileOf(s))
        /\ Keys(body[p]) \subseteq seen[p]
        /\ header[p] \in {"provenance", "junk"}
        /\ header[p] = "provenance" => \A x \in Expected(p) :
             FileOf(x) = FileOf(s) => DedupKey(x) \in Keys(body[p])
        /\ DedupKey(s) \notin Keys(body[p])
    BY <1>a, <1>b, <2>2 DEF RunOk, UpgradeOk, NewOk
  <2>4. /\ RowsOk(f, FileOf(s)) /\ Keys(f.rows) \subseteq seen[p]
        /\ f.layout # "legacy"
    BY <2>3 DEF RowsOk, Rewritten, GarbledFile, Keys
  <2>5. \A x \in Expected(p) : FileOf(x) = FileOf(s) => CoveredBy(x, f, upgrading')
    BY <2>3 DEF CoveredBy, Rewritten, GarbledFile, Readable
  <2>6. DedupKey(s) \notin Keys(f.rows)
    BY <2>3 DEF Rewritten, GarbledFile, Keys
  <2>7. csv'[FileOf(s)] = f
    BY <1>c, <2>1 DEF TypeOK
  <2> HIDE DEF f
  <2>8. FilesOk' /\ KeptIsCovered' /\ SeenOk(p)'
    BY <1>a, <1>b, <1>f, <2>1, <2>2, <2>4, <2>5, FileWritten
  <2>9. CursorOk(p)' /\ FreshOk(p)' /\ NewOk(p)' /\ UpgradeOk(p)' /\ BatchOk(p)'
    BY <1>b, <2>2, <2>6, <2>7 DEF CursorOk, FreshOk, NewOk, UpgradeOk, BatchOk, Editing
  <2> QED
    BY <2>8, <2>9 DEF RunOk
<1>5. CASE FlushRow(p)
  <2> DEFINE f == WithRow(csv[FileOf(s)], header[p], s)
             row == Projected(header[p], s)
  <2>1. csv' = [csv EXCEPT ![FileOf(s)] = f]
    BY <1>5, <1>b DEF FlushRow
  <2>2. pc'[p] = "append" /\ pc[p] = "flush" /\ cur'[p] = {} /\ upgrading' = upgrading
    BY <1>5 DEF FlushRow, TypeOK
  <2>3. DedupKey(s) \notin Keys(csv[FileOf(s)].rows)
    BY <1>a, <1>b, <2>2 DEF RunOk, NewOk
  <2>4. DedupKey(row) = DedupKey(s) /\ FileOf(row) = FileOf(s)
    BY ProjectedKey, KeyGivesFile
  <2>5. \/ f = [layout |-> "swallowed", rows |-> {}]
        \/ f = GarbledFile
        \/ /\ Readable(csv[FileOf(s)])
           /\ f = [csv[FileOf(s)] EXCEPT !.rows = @ \union {row}]
    BY DEF WithRow, Readable
  <2> HIDE DEF f, row
  <2>6. RowsOk(f, FileOf(s)) /\ Keys(f.rows) \subseteq seen[p]
    <3>1. CASE f = [layout |-> "swallowed", rows |-> {}] \/ f = GarbledFile
      BY <3>1 DEF RowsOk, GarbledFile, Keys
    <3>2. CASE Readable(csv[FileOf(s)]) /\ f = [csv[FileOf(s)] EXCEPT !.rows = @ \union {row}]
      <4>1. f.layout # "absent" /\ f.rows = csv[FileOf(s)].rows \union {row}
        BY <1>c, <3>2 DEF Readable, CsvFile
      <4>2. \A x \in csv[FileOf(s)].rows : DedupKey(x) # DedupKey(row)
        BY <2>3, <2>4 DEF Keys
      <4> QED
        BY <1>c, <1>d, <2>4, <4>1, <4>2 DEF RowsOk, Keys
    <3> QED
      BY <2>5, <3>1, <3>2
  <2>7. /\ CoveredBy(s, f, upgrading')
        /\ \A x \in Expected(p) : FileOf(x) = FileOf(s) => CoveredBy(x, f, upgrading')
    <3>1. CASE f = [layout |-> "swallowed", rows |-> {}] \/ f = GarbledFile
      BY <3>1 DEF CoveredBy, GarbledFile, Readable
    <3>2. CASE Readable(csv[FileOf(s)]) /\ f = [csv[FileOf(s)] EXCEPT !.rows = @ \union {row}]
      <4>1. f.layout # "absent" /\ f.rows = csv[FileOf(s)].rows \union {row}
        BY <1>c, <3>2 DEF Readable, CsvFile
      <4> QED
        BY <1>e, <2>2, <2>4, <3>2, <4>1 DEF CoveredBy, Keys
    <3> QED
      BY <2>5, <3>1, <3>2
  <2>l. f.layout = "legacy" => FileOf(s) \notin upgrading
    <3>1. CASE f = [layout |-> "swallowed", rows |-> {}] \/ f = GarbledFile
      BY <3>1 DEF GarbledFile
    <3>2. CASE f = [csv[FileOf(s)] EXCEPT !.rows = @ \union {row}]
      BY <1>c, <3>2 DEF CsvFile
    <3> QED
      BY <2>5, <3>1, <3>2
  <2>8. FilesOk' /\ KeptIsCovered' /\ SeenOk(p)'
    BY <1>a, <1>b, <1>f, <2>1, <2>2, <2>6, <2>7, <2>l, FileWritten
  <2>9. CursorOk(p)' /\ FreshOk(p)' /\ NewOk(p)' /\ UpgradeOk(p)' /\ BatchOk(p)'
    BY <2>2 DEF CursorOk, FreshOk, NewOk, UpgradeOk, BatchOk, Editing
  <2> QED
    BY <2>8, <2>9 DEF RunOk
<1>6. CASE RewriteSome(p)
  <2> PICK lines \in SUBSET body[p] :
        csv' = [csv EXCEPT ![FileOf(s)] = Rewritten(csv[FileOf(s)], header[p], lines)]
    BY <1>6, <1>b DEF RewriteSome
  <2> DEFINE f == Rewritten(csv[FileOf(s)], header[p], lines)
  <2>1. csv' = [csv EXCEPT ![FileOf(s)] = f] /\ upgrading' = upgrading
    BY <1>6 DEF RewriteSome
  <2>2. pc' = pc /\ pc[p] = "rewrite" /\ cur' = cur /\ header' = header /\ body' = body
    BY <1>6 DEF RewriteSome
  <2>3. /\ FileOf(s) \in upgrading
        /\ RowsOk([layout |-> header[p], rows |-> body[p]], FileOf(s))
        /\ Keys(body[p]) \subseteq seen[p]
        /\ header[p] \in {"provenance", "junk"}
    BY <1>a, <1>b, <2>2 DEF RunOk, UpgradeOk
  <2>4. f.rows \subseteq body[p] /\ f.layout \in {"provenance", "junk", "garbled"}
    BY <2>3 DEF Rewritten, GarbledFile
  <2> HIDE DEF f
  <2>5. RowsOk(f, FileOf(s)) /\ Keys(f.rows) \subseteq seen[p]
    BY <2>3, <2>4 DEF RowsOk, Keys
  <2>6. \A x \in Expected(p) : FileOf(x) = FileOf(s) => CoveredBy(x, f, upgrading')
    BY <2>1, <2>3, <2>4 DEF CoveredBy
  <2>7. FilesOk' /\ KeptIsCovered' /\ SeenOk(p)' /\ Expected(p)' = Expected(p)
    BY <1>a, <1>b, <1>f, <2>1, <2>2, <2>4, <2>5, <2>6, FileWritten
  <2>8. CursorOk(p)' /\ FreshOk(p)' /\ NewOk(p)' /\ BatchOk(p)'
    BY <1>b, <2>2, <1>a DEF RunOk, CursorOk, FreshOk, NewOk, BatchOk, Editing
  <2>9. UpgradeOk(p)'
    BY <1>a, <1>b, <1>f, <2>1, <2>2, <2>7 DEF RunOk, UpgradeOk
  <2> QED
    BY <2>7, <2>8, <2>9 DEF RunOk
<1> QED
  BY <1>1, <1>2, <1>3, <1>4, <1>5, <1>6

LEMMA NextCsv == Serialized /\ TypeOK /\ CsvInv /\ [Next]_vars => CsvInv'
<1> SUFFICES ASSUME Serialized, TypeOK, CsvInv, [Next]_vars PROVE CsvInv'
  OBVIOUS
<1>1. CASE UNCHANGED vars
  BY <1>1 DEF vars, stores, locals, ghosts, CsvInv, OneRun, FilesOk, KeptIsCovered, Kept,
    RunOk, CursorOk, SeenOk, FreshOk, NewOk, UpgradeOk, BatchOk, Handled, Expected
<1> QED
  BY <1>1, CursorMoves, FileMoves DEF Next, Step

\* Under a scheduler that does not overlap runs, the CSV files hold one row for
\* each instant, venue and product, across crashes, header upgrades and replays.
THEOREM CsvUnique ==
  ASSUME Serialized
  PROVE  Spec => []CsvOneRowPerKey
<1>1. Init => TypeOK /\ CsvInv
  BY InitTypeOK, InitCsv
<1>2. (TypeOK /\ CsvInv) /\ [Next]_vars => (TypeOK /\ CsvInv)'
  BY NextTypeOK, NextCsv
<1>3. CsvInv => CsvOneRowPerKey
  <2> SUFFICES ASSUME CsvInv, NEW s \in Load(csv), NEW t \in Load(csv),
                      DedupKey(s) = DedupKey(t)
               PROVE  s = t
    BY DEF CsvOneRowPerKey
  <2>1. PICK m \in Months : s \in csv[m].rows
    BY DEF Load
  <2>2. PICK n \in Months : t \in csv[n].rows
    BY DEF Load
  <2>3. RowsOk(csv[m], m) /\ RowsOk(csv[n], n)
    BY DEF CsvInv, FilesOk
  <2>4. m = n
    BY <2>1, <2>2, <2>3, KeyGivesFile DEF RowsOk
  <2> QED
    BY <2>1, <2>2, <2>3, <2>4 DEF RowsOk
<1> QED
  BY <1>1, <1>2, <1>3, PTL DEF Spec

\* A reading of the lake has its key in the CSV file of its month whenever that
\* file can be read, wherever earlier runs were killed: all but a file whose
\* header upgrade was killed, between its writes, and never came to its end.
THEOREM CsvFirst ==
  ASSUME Serialized
  PROVE  Spec => []LakeBehindCsv
<1>1. Init => TypeOK /\ CsvInv
  BY InitTypeOK, InitCsv
<1>2. (TypeOK /\ CsvInv) /\ [Next]_vars => (TypeOK /\ CsvInv)'
  BY NextTypeOK, NextCsv
<1>3. CsvInv => LakeBehindCsv
  BY DEF CsvInv, KeptIsCovered, Kept, Snaps, CoveredBy, LakeBehindCsv
<1> QED
  BY <1>1, <1>2, <1>3, PTL DEF Spec
-------------------------------------------------------------------------------
(***************************************************************************)
(* No kill between opening a CSV file and closing it: the files stay       *)
(* readable, and nothing that was in them is lost.                         *)
(***************************************************************************)
NoKillInFile == CrashAt \intersect {"fill", "rewrite"} = {}

LEMMA InitClean == Init => CleanInv
<1> SUFFICES ASSUME Init PROVE CleanInv
  OBVIOUS
<1>1. \A m \in Months : csv[m].layout \in {"absent", "legacy"}
  BY DEF Init, LegacyFile, NoFile
<1> QED
  BY <1>1 DEF Init, CleanInv, CleanFiles, CleanRun

\* A file that is empty or being upgraded is the one the run that moves has in hand.
LEMMA EmptyIsInHand ==
  ASSUME Serialized, TypeOK, CsvInv, CleanInv, NEW p \in Procs, Moves(p),
         NEW m \in Months, csv[m].layout = "empty" \/ m \in upgrading
  PROVE  pc[p] \in {"fill", "rewrite"} /\ \E s \in cur[p] : FileOf(s) = m
<1>1. PICK q \in Procs : pc[q] \in {"fill", "rewrite"} /\ \E s \in cur[q] : FileOf(s) = m
  BY DEF CleanInv, CleanFiles
<1>2. pc[p] # "idle"
  BY <1>1, StepMovesOne DEF Moves
<1>3. p = q
  BY <1>1, <1>2 DEF CsvInv, OneRun
<1> QED
  BY <1>1, <1>3

\* Only the run that moves has a reading in hand.
LEMMA OthersEmptyHanded ==
  ASSUME Serialized, TypeOK, CsvInv, NEW p \in Procs, Moves(p)
  PROVE  \A q \in Procs \ {p} : cur[q] = {}
<1>1. \A q \in Procs \ {p} : pc[q] = "idle"
  BY StepMovesOne DEF Moves, CsvInv, OneRun
<1> QED
  BY <1>1 DEF CsvInv, RunOk, CursorOk, Editing

LEMMA CursorMovesClean ==
  ASSUME Serialized, TypeOK, CsvInv, CleanInv, NoKillInFile, NEW p \in Procs,
         \/ Collect(p) \/ Replay(p) \/ Migrate(p) \/ LoadKeys(p) \/ SkipRow(p) \/ NextRow(p)
         \/ EndAppend(p) \/ ReadLake(p) \/ WritePart(p) \/ Crash(p) \/ LoadFails(p)
  PROVE  CleanInv'
<1> USE DEF stores, locals, bounds, ghosts
<1>0. Moves(p)
  BY DEF Moves, QuietStep
<1>1. pc[p] \notin {"fill", "rewrite"}
  BY DEF NoKillInFile, Collect, Replay, Migrate, MayStart, LoadKeys, SkipRow, NextRow,
    EndAppend, ReadLake, WritePart, Crash, LoadFails
<1>2. \A m \in Months :
        csv[m].layout \in {"absent", "legacy", "provenance", "full"} /\ m \notin upgrading
  BY <1>0, <1>1, EmptyIsInHand DEF CleanInv, CleanFiles
<1>3. csv' = csv /\ upgrading' = upgrading
  BY DEF Collect, Replay, Migrate, LoadKeys, SkipRow, NextRow, EndAppend, ReadLake,
    WritePart, Crash, LoadFails, Forget
<1>4. CleanFiles'
  BY <1>2, <1>3 DEF CleanFiles
<1>5. \A q \in Procs \ {p} : cur'[q] = {}
  <2>1. \A q \in Procs \ {p} : cur'[q] = cur[q]
    BY DEF Collect, Replay, Migrate, LoadKeys, SkipRow, NextRow, EndAppend, ReadLake,
      WritePart, Crash, LoadFails, Forget, TypeOK
  <2> QED
    BY <1>0, <2>1, OthersEmptyHanded
<1>6. CleanRun(p)'
  <2>1. CASE NextRow(p)
    <3>1. PICK s \in todo[p] :
            /\ cur' = [cur EXCEPT ![p] = {s}]
            /\ header' = [header EXCEPT ![p] = HeaderOf(csv[FileOf(s)])]
            /\ pc' = [pc EXCEPT ![p] =
                        CASE csv[FileOf(s)].layout = "absent" -> "create"
                          [] LacksProvenance(HeaderOf(csv[FileOf(s)])) -> "truncate"
                          [] OTHER -> "flush"]
      BY <2>1 DEF NextRow
    <3>2. FileOf(s) \in Months
      BY FileOfType DEF TypeOK
    <3>3. csv[FileOf(s)].layout \in {"absent", "legacy", "provenance", "full"}
      BY <1>2, <3>2
    <3>4. /\ cur'[p] = {s} /\ header'[p] = csv[FileOf(s)].layout
          /\ pc'[p] = CASE csv[FileOf(s)].layout = "absent" -> "create"
                        [] LacksProvenance(csv[FileOf(s)].layout) -> "truncate"
                        [] OTHER -> "flush"
      BY <3>1, <3>3 DEF TypeOK, HeaderOf
    <3>5. \/ pc'[p] = "create" /\ csv[FileOf(s)].layout = "absent"
          \/ pc'[p] = "truncate" /\ csv[FileOf(s)].layout = "legacy"
          \/ pc'[p] = "flush" /\ csv[FileOf(s)].layout \in {"provenance", "full"}
      BY <3>3, <3>4 DEF LacksProvenance
    <3> QED
      BY <1>3, <3>4, <3>5 DEF CleanRun
  <2>2. CASE ~NextRow(p)
    <3>1. cur'[p] = {}
      <4>1. CASE Crash(p) \/ LoadFails(p)
        BY <4>1 DEF Crash, LoadFails, Forget, TypeOK
      <4>2. CASE ~(Crash(p) \/ LoadFails(p))
        <5>1. cur' = cur /\ pc[p] \notin Editing
          BY <2>2, <4>2 DEF Collect, Replay, Migrate, MayStart, LoadKeys, SkipRow,
            EndAppend, ReadLake, WritePart, Editing
        <5> QED
          BY <5>1 DEF CsvInv, RunOk, CursorOk
      <4> QED
        BY <4>1, <4>2
    <3> QED
      BY <3>1 DEF CleanRun
  <2> QED
    BY <2>1, <2>2
<1> QED
  BY <1>4, <1>5, <1>6 DEF CleanInv, CleanRun

LEMMA FileMovesClean ==
  ASSUME Serialized, TypeOK, CsvInv, CleanInv, NEW p \in Procs,
         \/ CreateFile(p) \/ FillFile(p) \/ TruncateFile(p)
         \/ RewriteSome(p) \/ RewriteFile(p) \/ FlushRow(p)
  PROVE  CleanInv'
<1> USE DEF stores, locals, bounds, ghosts
<1>0. Moves(p)
  BY DEF Moves, QuietStep
<1>a. RunOk(p) /\ pc[p] \in Editing
  BY DEF CsvInv, CreateFile, FillFile, TruncateFile, RewriteSome, RewriteFile, FlushRow,
    Editing
<1>b. PICK s \in Snapshots : cur[p] = {s}
  BY <1>a DEF RunOk, CursorOk
<1>c. FileOf(s) \in Months /\ csv[FileOf(s)] \in CsvFile
  BY FileOfType DEF TypeOK
<1>d. \A m \in Months : m # FileOf(s) =>
        csv[m].layout \in {"absent", "legacy", "provenance", "full"} /\ m \notin upgrading
  BY <1>0, <1>b, EmptyIsInHand DEF CleanInv, CleanFiles
<1>e. CleanRun(p)
  BY DEF CleanInv
<1>f. \A q \in Procs \ {p} : cur'[q] = {}
  <2>1. \A q \in Procs \ {p} : cur'[q] = cur[q]
    BY DEF CreateFile, FillFile, TruncateFile, RewriteSome, RewriteFile, FlushRow, TypeOK
  <2> QED
    BY <1>0, <2>1, OthersEmptyHanded
<1>g. ASSUME NEW f, csv' = [csv EXCEPT ![FileOf(s)] = f],
             upgrading' \ {FileOf(s)} \subseteq upgrading,
             \/ /\ f.layout \in {"legacy", "provenance", "full"}
                /\ FileOf(s) \notin upgrading'
             \/ /\ f.layout \in {"empty", "provenance"}
                /\ pc'[p] \in {"fill", "rewrite"} /\ cur'[p] = {s},
             CleanRun(p)'
      PROVE  CleanInv'
  <2>1. /\ csv'[FileOf(s)] = f
        /\ \A m \in Months : m # FileOf(s) =>
             csv'[m] = csv[m] /\ (m \in upgrading' => m \in upgrading)
    BY <1>c, <1>g DEF TypeOK
  <2>2. CleanFiles'
    BY <1>d, <1>g, <2>1 DEF CleanFiles
  <2> QED
    BY <1>f, <1>g, <2>2 DEF CleanInv, CleanRun
<1>h. FileOf(s) \notin upgrading \/ pc[p] \in {"fill", "rewrite"}
  BY <1>0, <1>c, EmptyIsInHand
<1>1. CASE CreateFile(p)
  <2>1. csv[FileOf(s)].layout = "absent"
    BY <1>1, <1>b, <1>e DEF CreateFile, CleanRun
  <2>2. csv' = [csv EXCEPT ![FileOf(s)] = EmptyFile]
    BY <1>1, <1>b, <2>1 DEF CreateFile
  <2>3. /\ pc'[p] = "fill" /\ cur'[p] = {s} /\ csv'[FileOf(s)] = EmptyFile
        /\ upgrading' = upgrading /\ FileOf(s) \notin upgrading
    BY <1>1, <1>b, <1>c, <1>h, <2>2 DEF CreateFile, TypeOK
  <2>4. CleanRun(p)'
    BY <2>3 DEF CleanRun, EmptyFile
  <2> QED
    BY <1>g, <2>2, <2>3, <2>4 DEF EmptyFile
<1>2. CASE FillFile(p)
  <2>1. csv[FileOf(s)].layout = "empty" /\ FileOf(s) \notin upgrading
    BY <1>2, <1>b, <1>e DEF FillFile, CleanRun
  <2>2. csv' = [csv EXCEPT ![FileOf(s)] = [layout |-> "full", rows |-> {s}]]
    BY <1>2, <1>b, <2>1 DEF FillFile, WithHeaderAndRow
  <2>3. cur'[p] = {} /\ upgrading' = upgrading
    BY <1>2 DEF FillFile, TypeOK
  <2>4. CleanRun(p)'
    BY <2>3 DEF CleanRun
  <2> QED
    BY <1>g, <2>1, <2>2, <2>3, <2>4
<1>3. CASE TruncateFile(p)
  <2>1. csv[FileOf(s)].layout = "legacy" /\ header[p] = HeaderOf(csv[FileOf(s)])
    BY <1>3, <1>a, <1>b, <1>e DEF TruncateFile, CleanRun, RunOk, UpgradeOk
  <2>2. csv' = [csv EXCEPT ![FileOf(s)] = EmptyFile]
    BY <1>3, <1>b DEF TruncateFile
  <2>3. /\ pc'[p] = "rewrite" /\ cur'[p] = {s} /\ csv'[FileOf(s)] = EmptyFile
        /\ header'[p] = "provenance" /\ upgrading' = upgrading \union {FileOf(s)}
    BY <1>3, <1>b, <1>c, <2>1, <2>2 DEF TruncateFile, TypeOK, HeaderOf, Upgraded
  <2>4. CleanRun(p)'
    BY <2>3 DEF CleanRun, IsPartOf, EmptyFile
  <2> QED
    BY <1>g, <2>2, <2>3, <2>4 DEF EmptyFile
<1>4. CASE RewriteFile(p)
  <2>1. IsPartOf(csv[FileOf(s)], "provenance", body[p]) /\ header[p] = "provenance"
    BY <1>4, <1>b, <1>e DEF RewriteFile, CleanRun
  <2> DEFINE f == [layout |-> "provenance", rows |-> body[p]]
  <2>2. csv' = [csv EXCEPT ![FileOf(s)] = f]
    BY <1>4, <1>b, <2>1 DEF RewriteFile, Rewritten
  <2>3. /\ pc'[p] = "flush" /\ cur'[p] = {s} /\ csv'[FileOf(s)] = f
        /\ header'[p] = "provenance" /\ upgrading' = upgrading \ {FileOf(s)}
    BY <1>4, <1>b, <1>c, <2>1, <2>2 DEF RewriteFile, TypeOK
  <2>4. CleanRun(p)'
    BY <2>3 DEF CleanRun
  <2>5. f.layout = "provenance"
    OBVIOUS
  <2> HIDE DEF f
  <2> QED
    BY <1>g, <2>2, <2>3, <2>4, <2>5
<1>5. CASE FlushRow(p)
  <2>1. csv[FileOf(s)].layout = header[p] /\ header[p] \in {"provenance", "full"}
    BY <1>5, <1>b, <1>e DEF FlushRow, CleanRun
  <2> DEFINE f == WithRow(csv[FileOf(s)], header[p], s)
  <2>2. csv' = [csv EXCEPT ![FileOf(s)] = f]
    BY <1>5, <1>b DEF FlushRow
  <2>3. f.layout = header[p]
    BY <1>c, <2>1 DEF WithRow, CsvFile
  <2>4. cur'[p] = {} /\ upgrading' = upgrading /\ FileOf(s) \notin upgrading
    BY <1>5, <1>h DEF FlushRow, TypeOK
  <2> HIDE DEF f
  <2>5. CleanRun(p)'
    BY <2>4 DEF CleanRun
  <2> QED
    BY <1>g, <2>1, <2>2, <2>3, <2>4, <2>5
<1>6. CASE RewriteSome(p)
  <2>1. IsPartOf(csv[FileOf(s)], "provenance", body[p]) /\ header[p] = "provenance"
    BY <1>6, <1>b, <1>e DEF RewriteSome, CleanRun
  <2> PICK lines \in SUBSET body[p] :
        /\ csv[FileOf(s)].rows \subseteq lines
        /\ csv' = [csv EXCEPT ![FileOf(s)] = Rewritten(csv[FileOf(s)], header[p], lines)]
    BY <1>6, <1>b DEF RewriteSome
  <2> DEFINE f == [layout |-> "provenance", rows |-> lines]
  <2>2. csv' = [csv EXCEPT ![FileOf(s)] = f]
    BY <2>1 DEF Rewritten, IsPartOf
  <2>3. /\ pc' = pc /\ pc[p] = "rewrite" /\ cur' = cur /\ header' = header /\ body' = body
        /\ upgrading' = upgrading /\ csv'[FileOf(s)] = f
    BY <1>6, <1>c, <2>2 DEF RewriteSome, TypeOK
  <2>4. CleanRun(p)'
    BY <1>b, <2>1, <2>3 DEF CleanRun, IsPartOf
  <2>5. f.layout = "provenance"
    OBVIOUS
  <2> HIDE DEF f
  <2> QED
    BY <1>b, <1>g, <2>2, <2>3, <2>4, <2>5
<1> QED
  BY <1>1, <1>2, <1>3, <1>4, <1>5, <1>6

LEMMA NextClean ==
  Serialized /\ NoKillInFile /\ TypeOK /\ CsvInv /\ CleanInv /\ [Next]_vars => CleanInv'
<1> SUFFICES ASSUME Serialized, NoKillInFile, TypeOK, CsvInv, CleanInv, [Next]_vars
             PROVE  CleanInv'
  OBVIOUS
<1>1. CASE UNCHANGED vars
  BY <1>1 DEF vars, stores, locals, ghosts, CleanInv, CleanFiles, CleanRun
<1> QED
  BY <1>1, CursorMovesClean, FileMovesClean DEF Next, Step

\* When runs do not overlap and none is killed while a file is open, load()
\* reads every file: appended lines match the layout the file has.
THEOREM CsvDecodes ==
  ASSUME Serialized, NoKillInFile
  PROVE  Spec => []CsvReadable
<1>1. Init => TypeOK /\ CsvInv /\ CleanInv
  BY InitTypeOK, InitCsv, InitClean
<1>2. (TypeOK /\ CsvInv /\ CleanInv) /\ [Next]_vars => (TypeOK /\ CsvInv /\ CleanInv)'
  BY NextTypeOK, NextCsv, NextClean
<1>3. CleanInv => CsvReadable
  BY DEF CleanInv, CleanFiles, CsvReadable, LoadRaises
<1> QED
  BY <1>1, <1>2, <1>3, PTL DEF Spec

\* Under the same conditions every reading of the legacy files and of a
\* completed batch keeps its key in the files, through every header upgrade.
THEOREM CsvKeeps ==
  ASSUME Serialized, NoKillInFile
  PROVE  Spec => []CsvKeepsRows
<1>1. Init => TypeOK /\ CsvInv /\ CleanInv
  BY InitTypeOK, InitCsv, InitClean
<1>2. (TypeOK /\ CsvInv /\ CleanInv) /\ [Next]_vars => (TypeOK /\ CsvInv /\ CleanInv)'
  BY NextTypeOK, NextCsv, NextClean
<1>3. TypeOK /\ CsvInv /\ CleanInv => CsvKeepsRows
  <2> SUFFICES ASSUME TypeOK, CsvInv, CleanInv, \A p \in Procs : pc[p] = "idle",
                      NEW x \in History \union acked
               PROVE  DedupKey(x) \in Keys(Load(csv))
    BY DEF CsvKeepsRows, Keys
  <2>1. x \in Kept /\ FileOf(x) \in Months
    BY KeptType, FileOfType DEF Kept
  <2>2. CoveredBy(x, csv[FileOf(x)], upgrading)
    BY <2>1 DEF CsvInv, KeptIsCovered
  <2>3. /\ csv[FileOf(x)].layout \in {"absent", "legacy", "provenance", "full"}
        /\ FileOf(x) \notin upgrading
    BY <2>1 DEF CleanInv, CleanFiles
  <2>4. DedupKey(x) \in Keys(csv[FileOf(x)].rows)
    BY <2>2, <2>3 DEF CoveredBy, Readable
  <2> QED
    BY <2>1, <2>4 DEF Load, Keys
<1> QED
  BY <1>1, <1>2, <1>3, PTL DEF Spec
=============================================================================
