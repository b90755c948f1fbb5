-------------------------- MODULE SnapshotCollector --------------------------
(***************************************************************************)
(* The hourly collector (infra/collectors/gpu_price_snapshot.py) and the   *)
(* CSV-to-Parquet migration (core/storage/migrate.py), running over one    *)
(* snapshot directory: the monthly CSV files and the Parquet lake beside   *)
(* them.  A run is a sequence of file operations; it can be killed between *)
(* any two of them, and nothing but the scheduler keeps two runs from      *)
(* overlapping.                                                            *)
(***************************************************************************)
EXTENDS CsvFiles

CONSTANTS Procs,          \* processes that run the collector or the migration
          Listings,       \* the offers a venue can return
          History,        \* readings of the legacy CSV files found at the start
          Serialized,     \* the scheduler never overlaps two runs
          CrashAt,        \* control points at which a run can be killed
          MaxCrashes,     \* bound on the runs killed
          MaxReruns       \* bound on the replays and reruns started

VARIABLES csv,        \* month -> CSV file
          lake,       \* rows of the Parquet lake, each with its part file
          nextPart,   \* names part files (uuid4 in the code)
          clock,      \* instant of the last collection
          pc,         \* control point of each process
          batch,      \* rows returned by fetch() or loaded by the migration
          todo,       \* rows of the batch the CSV append has still to handle
          seen,       \* dedup keys known to the CSV append
          cur,        \* the row being appended, if any
          header,     \* fieldnames of the append
          body,       \* lines read before the file is opened for rewriting
          pending,    \* rows the lake write has still to put in part files
          crashes, reruns,
          observed,   \* every reading a venue returned (history variable)
          acked,      \* batches of the runs that ended normally (history)
          upgrading   \* months whose header upgrade began and has not ended (history)

stores == <<csv, lake, nextPart>>
locals == <<batch, todo, seen, cur, header, body, pending>>
bounds == <<clock, crashes, reruns>>
ghosts == <<observed, acked, upgrading>>
vars == <<stores, locals, bounds, ghosts, pc>>

Points == {"idle", "load", "append", "create", "fill", "truncate", "rewrite",
           "flush", "dedup", "write"}

LakeRows == [snap : Snapshots, part : Nat]
Snaps(rows) == {r.snap : r \in rows}

ASSUME CollectorAssumption ==
  /\ Listings \subseteq Offers
  /\ History \subseteq Snapshots
  /\ \A s \in History : s.at = 0 /\ s.offer.detail = NoDetail /\ ~s.offer.simulated
  /\ \A s, t \in History : DedupKey(s) = DedupKey(t) => s = t
  /\ Serialized \in BOOLEAN
  /\ CrashAt \subseteq Points \ {"idle"}
  /\ MaxCrashes \in Nat
  /\ MaxReruns \in Nat

LegacyFile(m) ==
  LET rows == {s \in History : MonthOf[s.at] = m}
  IN  IF rows = {} THEN NoFile ELSE [layout |-> "legacy", rows |-> rows]

Init ==
  /\ csv = [m \in Months |-> LegacyFile(m)]
  /\ lake = {}
  /\ nextPart = 0
  /\ clock = 0
  /\ pc = [p \in Procs |-> "idle"]
  /\ batch = [p \in Procs |-> {}]
  /\ todo = [p \in Procs |-> {}]
  /\ seen = [p \in Procs |-> {}]
  /\ cur = [p \in Procs |-> {}]
  /\ header = [p \in Procs |-> "full"]
  /\ body = [p \in Procs |-> {}]
  /\ pending = [p \in Procs |-> {}]
  /\ crashes = 0
  /\ reruns = 0
  /\ observed = History
  /\ acked = {}
  /\ upgrading = {}
-------------------------------------------------------------------------------
(***************************************************************************)
(* Starting a run.                                                         *)
(***************************************************************************)
MayStart(p) ==
  /\ pc[p] = "idle"
  /\ Serialized => \A q \in Procs : pc[q] = "idle"

\* fetch_all(now): the venues in `answering` return their offers; the others
\* have no key or failed, and are skipped.
Readings(now, answering, quotes) ==
  UNION {[at : {now}, venue : {v}, offer : quotes[v]] : v \in answering}

\* snapshot(): one live reading.  Without any reading fetch_live_gpu_prices
\* raises and the run ends before it touched a store.
Collect(p) ==
  /\ MayStart(p)
  /\ clock < MaxInstant
  /\ clock' = clock + 1
  /\ \E answering \in SUBSET Venues : \E quotes \in [answering -> SUBSET Listings] :
       LET rows == Readings(clock + 1, answering, quotes)
       IN  /\ observed' = observed \union rows
           /\ batch' = [batch EXCEPT ![p] = rows]
           /\ todo' = [todo EXCEPT ![p] = rows]
           /\ pc' = [pc EXCEPT ![p] = IF rows = {} THEN "idle" ELSE "load"]
  /\ UNCHANGED <<stores, seen, cur, header, body, pending, crashes, reruns, acked, upgrading>>

\* snapshot(fetch=...) over a reading that was already taken, as one does to
\* make up for a killed run.
Replay(p) ==
  /\ MayStart(p)
  /\ reruns < MaxReruns
  /\ reruns' = reruns + 1
  /\ \E now \in 1 .. clock :
       LET rows == {s \in observed : s.at = now}
       IN  /\ rows # {}
           /\ batch' = [batch EXCEPT ![p] = rows]
           /\ todo' = [todo EXCEPT ![p] = rows]
  /\ pc' = [pc EXCEPT ![p] = "load"]
  /\ UNCHANGED <<stores, seen, cur, header, body, pending, clock, crashes, ghosts>>

\* migrate_csv_snapshots(): what the CSV files hold goes to the lake.
Migrate(p) ==
  /\ MayStart(p)
  /\ reruns < MaxReruns
  /\ reruns' = reruns + 1
  /\ ~LoadRaises(csv)
  /\ batch' = [batch EXCEPT ![p] = Load(csv)]
  /\ pc' = [pc EXCEPT ![p] = "dedup"]
  /\ UNCHANGED <<stores, todo, seen, cur, header, body, pending, clock, crashes, ghosts>>
-------------------------------------------------------------------------------
(***************************************************************************)
(* CsvSnapshotStore.append.                                                *)
(***************************************************************************)
FileOf(s) == MonthOf[s.at]

\* Mutant: the dedup only knows the rows of its own batch.
LoadNoKeys(p) ==
  /\ pc[p] = "load"
  /\ ~LoadRaises(csv)
  /\ pc' = [pc EXCEPT ![p] = "append"]
  /\ UNCHANGED <<stores, batch, todo, seen, cur, header, body, pending, bounds, ghosts>>

\* seen = {s.dedup_key for s in self.load()}
LoadKeys(p) ==
  /\ pc[p] = "load"
  /\ ~LoadRaises(csv)
  /\ seen' = [seen EXCEPT ![p] = Keys(Load(csv))]
  /\ pc' = [pc EXCEPT ![p] = "append"]
  /\ UNCHANGED <<stores, batch, todo, cur, header, body, pending, bounds, ghosts>>

\* A reading already stored, or already seen in this batch, is skipped.
SkipRow(p) ==
  /\ pc[p] = "append"
  /\ \E s \in todo[p] :
       /\ DedupKey(s) \in seen[p]
       /\ todo' = [todo EXCEPT ![p] = @ \ {s}]
  /\ UNCHANGED <<stores, batch, seen, cur, header, body, pending, bounds, ghosts, pc>>

\* The row's file does not exist, must gain the provenance column first, or is
\* appended to as it is.
NextRow(p) ==
  /\ pc[p] = "append"
  /\ \E s \in todo[p] :
       LET file == csv[FileOf(s)]
       IN  /\ DedupKey(s) \notin seen[p]
           /\ seen' = [seen EXCEPT ![p] = @ \union {DedupKey(s)}]
           /\ todo' = [todo EXCEPT ![p] = @ \ {s}]
           /\ cur' = [cur EXCEPT ![p] = {s}]
           /\ header' = [header EXCEPT ![p] = HeaderOf(file)]
           /\ pc' = [pc EXCEPT ![p] =
                       CASE file.layout = "absent" -> "create"
                         [] LacksProvenance(HeaderOf(file)) -> "truncate"
                         [] OTHER -> "flush"]
  /\ UNCHANGED <<stores, batch, body, pending, bounds, ghosts>>

\* open("a") creates the file; its lines reach the disk when it is closed.
CreateFile(p) ==
  /\ pc[p] = "create"
  /\ \E s \in cur[p] :
       csv' = [csv EXCEPT ![FileOf(s)] = IF @.layout = "absent" THEN EmptyFile ELSE @]
  /\ pc' = [pc EXCEPT ![p] = "fill"]
  /\ UNCHANGED <<lake, nextPart, locals, bounds, ghosts>>

FillFile(p) ==
  /\ pc[p] = "fill"
  /\ \E s \in cur[p] : csv' = [csv EXCEPT ![FileOf(s)] = WithHeaderAndRow(@, s)]
  /\ cur' = [cur EXCEPT ![p] = {}]
  /\ pc' = [pc EXCEPT ![p] = "append"]
  /\ UNCHANGED <<lake, nextPart, batch, todo, seen, header, body, pending, bounds, ghosts>>

\* _ensure_header_has: read the file and open("w"), which empties it.
TruncateFile(p) ==
  /\ pc[p] = "truncate"
  /\ \E s \in cur[p] :
       /\ body' = [body EXCEPT ![p] = csv[FileOf(s)].rows]
       /\ csv' = [csv EXCEPT ![FileOf(s)] = EmptyFile]
       /\ upgrading' = upgrading \union {FileOf(s)}
  /\ header' = [header EXCEPT ![p] = Upgraded(@)]
  /\ pc' = [pc EXCEPT ![p] = "rewrite"]
  /\ UNCHANGED <<lake, nextPart, batch, todo, seen, cur, pending, bounds, observed, acked>>

\* The new header and the lines that were read are megabytes: they reach the
\* disk in several writes, and in between the file is readable and incomplete.
RewriteSome(p) ==
  /\ pc[p] = "rewrite"
  /\ \E s \in cur[p], lines \in SUBSET body[p] :
       LET file == csv[FileOf(s)]
           grown == Rewritten(file, header[p], lines)
       IN  /\ file.rows \subseteq lines
           /\ grown # file
           /\ csv' = [csv EXCEPT ![FileOf(s)] = grown]
  /\ UNCHANGED <<lake, nextPart, locals, bounds, ghosts, pc>>

\* The last of these writes; the file is closed.
RewriteFile(p) ==
  /\ pc[p] = "rewrite"
  /\ \E s \in cur[p] :
       /\ csv' = [csv EXCEPT ![FileOf(s)] = Rewritten(@, header[p], body[p])]
       /\ upgrading' = upgrading \ {FileOf(s)}
  /\ body' = [body EXCEPT ![p] = {}]
  /\ pc' = [pc EXCEPT ![p] = "flush"]
  /\ UNCHANGED <<lake, nextPart, batch, todo, seen, cur, header, pending, bounds, observed, acked>>

FlushRow(p) ==
  /\ pc[p] = "flush"
  /\ \E s \in cur[p] : csv' = [csv EXCEPT ![FileOf(s)] = WithRow(@, header[p], s)]
  /\ cur' = [cur EXCEPT ![p] = {}]
  /\ pc' = [pc EXCEPT ![p] = "append"]
  /\ UNCHANGED <<lake, nextPart, batch, todo, seen, header, body, pending, bounds, ghosts>>

\* Mutant: the lake write does not wait for the last CSV row.
EndAppendEarly(p) ==
  /\ pc[p] = "append"
  /\ todo' = [todo EXCEPT ![p] = {}]
  /\ pc' = [pc EXCEPT ![p] = "dedup"]
  /\ UNCHANGED <<stores, batch, seen, cur, header, body, pending, bounds, ghosts>>

EndAppend(p) ==
  /\ pc[p] = "append"
  /\ todo[p] = {}
  /\ pc' = [pc EXCEPT ![p] = "dedup"]
  /\ UNCHANGED <<stores, locals, bounds, ghosts>>
-------------------------------------------------------------------------------
(***************************************************************************)
(* ParquetPriceStore.write.                                                *)
(***************************************************************************)

\* Mutant: the distribution of the offers collapses on the CSV key.
IsDeduplicatedByKey(rows, of) ==
  /\ rows \subseteq of
  /\ Keys(rows) = Keys(of)
  /\ \A s, t \in rows : DedupKey(s) = DedupKey(t) => s = t

\* drop_duplicates keeps one row of each content.
IsDeduplicated(rows, of) ==
  /\ rows \subseteq of
  /\ Contents(rows) = Contents(of)
  /\ \A s, t \in rows : Content(s) = Content(t) => s = t

\* Mutant: the batch is written without the anti-join.
AllRows(rows) == rows

\* The rows of the batch the lake does not hold yet.
NewRows(rows) == {s \in rows : Content(s) \notin Contents(Snaps(lake))}

\* The run returns; another one starts from fresh local state.
Ended(p) ==
  /\ acked' = acked \union batch[p]
  /\ pc' = [pc EXCEPT ![p] = "idle"]
  /\ batch' = [batch EXCEPT ![p] = {}]
  /\ seen' = [seen EXCEPT ![p] = {}]
  /\ header' = [header EXCEPT ![p] = "full"]

ReadLake(p) ==
  /\ pc[p] = "dedup"
  /\ \E rows \in SUBSET batch[p] :
       /\ IsDeduplicated(rows, batch[p])
       /\ pending' = [pending EXCEPT ![p] = NewRows(rows)]
       /\ \/ NewRows(rows) = {} /\ Ended(p)
          \/ /\ NewRows(rows) # {}
             /\ pc' = [pc EXCEPT ![p] = "write"]
             /\ UNCHANGED <<acked, batch, seen, header>>
  /\ UNCHANGED <<stores, todo, cur, body, bounds, observed, upgrading>>

Partition(rows, venue, month) ==
  {s \in rows : s.venue = venue /\ MonthOf[s.at] = month}

\* Mutant: a partition that is written replaces the stored one.
StoredAlone(rows) ==
  {r \in lake : \A s \in rows : r.snap.venue # s.venue \/ FileOf(r.snap) # FileOf(s)}
    \union [snap : rows, part : {nextPart}]

\* overwrite_or_ignore: a part file is added beside those of the partition.
Stored(rows) == lake \union [snap : rows, part : {nextPart}]

\* Mutant: every write gives its part file the same name.
SameName == nextPart

\* basename_template: no part file ever takes the name of another.
NewName == nextPart + 1

\* Mutant: the write ends with its first partition.
WrittenFirst(p, rows) == TRUE

AllWritten(p, rows) == pending[p] = rows

\* write_dataset: one new part file for each partition (source, month).
WritePart(p) ==
  /\ pc[p] = "write"
  /\ \E venue \in Venues, month \in Months :
       LET rows == Partition(pending[p], venue, month)
       IN  /\ rows # {}
           /\ lake' = Stored(rows)
           /\ nextPart' = NewName
           /\ pending' = [pending EXCEPT ![p] = @ \ rows]
           /\ \/ AllWritten(p, rows) /\ Ended(p)
              \/ ~AllWritten(p, rows) /\ UNCHANGED <<acked, pc, batch, seen, header>>
  /\ UNCHANGED <<csv, todo, cur, body, bounds, observed, upgrading>>
-------------------------------------------------------------------------------
\* The process is killed, or an exception (a full disk, an unreadable CSV file)
\* ends it: what it wrote stays, what it held in memory is lost.
Forget(p) ==
  /\ pc' = [pc EXCEPT ![p] = "idle"]
  /\ batch' = [batch EXCEPT ![p] = {}]
  /\ todo' = [todo EXCEPT ![p] = {}]
  /\ seen' = [seen EXCEPT ![p] = {}]
  /\ cur' = [cur EXCEPT ![p] = {}]
  /\ body' = [body EXCEPT ![p] = {}]
  /\ header' = [header EXCEPT ![p] = "full"]
  /\ pending' = [pending EXCEPT ![p] = {}]
  /\ UNCHANGED <<stores, ghosts>>

Crash(p) ==
  /\ pc[p] \in CrashAt
  /\ crashes < MaxCrashes
  /\ crashes' = crashes + 1
  /\ Forget(p)
  /\ UNCHANGED <<clock, reruns>>

LoadFails(p) ==
  /\ pc[p] = "load"
  /\ LoadRaises(csv)
  /\ Forget(p)
  /\ UNCHANGED bounds

Step(p) ==
  \/ LoadKeys(p) \/ SkipRow(p) \/ NextRow(p) \/ EndAppend(p)
  \/ CreateFile(p) \/ FillFile(p)
  \/ TruncateFile(p) \/ RewriteSome(p) \/ RewriteFile(p) \/ FlushRow(p)
  \/ ReadLake(p) \/ WritePart(p)
  \/ LoadFails(p)

Next == \E p \in Procs : Collect(p) \/ Replay(p) \/ Migrate(p) \/ Step(p) \/ Crash(p)

Spec == Init /\ [][Next]_vars

\* A started process is scheduled until it ends; nobody owes a new run.
FairSpec == Spec /\ \A p \in Procs : WF_vars(Step(p))
-------------------------------------------------------------------------------
TypeOK ==
  /\ csv \in [Months -> CsvFile]
  /\ lake \subseteq LakeRows
  /\ nextPart \in Nat
  /\ clock \in Instants
  /\ pc \in [Procs -> Points]
  /\ batch \in [Procs -> SUBSET Snapshots]
  /\ todo \in [Procs -> SUBSET Snapshots]
  /\ seen \in [Procs -> SUBSET Keys(Snapshots)]
  /\ cur \in [Procs -> SUBSET Snapshots]
  /\ header \in [Procs -> Layouts]
  /\ body \in [Procs -> SUBSET Snapshots]
  /\ pending \in [Procs -> SUBSET Snapshots]
  /\ crashes \in Nat
  /\ reruns \in Nat
  /\ observed \subseteq Snapshots
  /\ acked \subseteq Snapshots
  /\ upgrading \subseteq Months

(***************************************************************************)
(* Safety.                                                                 *)
(***************************************************************************)
\* A file csv.DictReader reads back as it was written.
Readable(file) == file.layout \in {"legacy", "provenance", "full"}

\* The lake is a journal without duplicates: wherever earlier runs were killed,
\* however often the migration is replayed, ParquetPriceStore.write never
\* stores a second row with the content of a stored one.
LakeNoDuplicates ==
  \A q, r \in lake : Content(q.snap) = Content(r.snap) => q = r

\* The CSV dedup keeps one row for each (instant, venue, product), over all
\* the files and across killed and restarted runs.
CsvOneRowPerKey ==
  \A s, t \in Load(csv) : DedupKey(s) = DedupKey(t) => s = t

\* What a run that ended normally collected or migrated is in the lake, every
\* distinct offer of it, and stays there.
AckedInLake == Contents(acked) \subseteq Contents(Snaps(lake))

\* The CSV is written before the lake: a reading in the lake has its key in
\* the CSV file of its month, so that the migration can restore the lake from
\* the CSV.  Only a header upgrade that never ended breaks this: whatever else
\* is killed, every other file that can be read has not lost a row.
LakeBehindCsv ==
  \A r \in lake :
    LET month == FileOf(r.snap)
    IN  Readable(csv[month]) /\ month \notin upgrading =>
          DedupKey(r.snap) \in Keys(csv[month].rows)

\* What venues returned, as it is or as a file without the optional columns
\* gives it back.
Published == observed \union {Stripped(s) : s \in observed}

\* Whatever the layout of the file it went through, a stored row is a reading
\* a venue returned, at most without its optional columns: a simulated reading
\* is never given back as a real one.
NothingInvented == Load(csv) \union Snaps(lake) \subseteq Published

\* Between two runs, every reading of the legacy files and every completed
\* batch is found in the CSV under its key: an upgraded header leaves the rows
\* below it alone.
CsvKeepsRows ==
  (\A p \in Procs : pc[p] = "idle") => Keys(History \union acked) \subseteq Keys(Load(csv))

\* No sequence of runs leaves a CSV file that load() cannot decode: appended
\* lines match the layout the file really has.
CsvReadable == ~LoadRaises(csv)

(***************************************************************************)
(* What makes these invariants inductive.                                  *)
(***************************************************************************)
\* During a lake write, the batch is in the lake or about to be written.
BatchCovered ==
  \A p \in Procs : pc[p] = "write" =>
    Contents(batch[p]) \subseteq Contents(Snaps(lake)) \union Contents(pending[p])

\* Rows about to be written are distinct, and new to the lake.
PendingDistinct ==
  \A p \in Procs : pc[p] = "write" =>
    \A s, t \in pending[p] : Content(s) = Content(t) => s = t

PendingNew ==
  \A p \in Procs : pc[p] = "write" =>
    \A s \in pending[p], r \in lake : Content(s) # Content(r.snap)

\* The scheduler's serialisation: at most one run is under way.
OneRun == \A p, q \in Procs : pc[p] # "idle" /\ pc[q] # "idle" => p = q

\* Part files are numbered below the next name.
PartsNamed == \A r \in lake : r.part < nextPart

\* Every row in memory was published, and a row is only ever written under a
\* header that keeps its provenance.
RowsPublished ==
  \A p \in Procs :
    /\ batch[p] \union todo[p] \union cur[p] \union body[p] \union pending[p] \subseteq Published
    /\ pc[p] \in {"rewrite", "flush"} => ~LacksProvenance(header[p])

(***************************************************************************)
(* Liveness.                                                               *)
(***************************************************************************)
\* If no run is killed, what a venue returned ends up in the lake, even when
\* the CSV dropped it as a duplicate of its key.
ObservedReachesLake ==
  [](crashes = 0) => \A s \in [at : 1 .. MaxInstant, venue : Venues, offer : Listings] :
    s \in observed ~> Content(s) \in Contents(Snaps(lake))

(***************************************************************************)
(* The lake implements the abstract journal.                               *)
(***************************************************************************)
Journal == INSTANCE ObservationJournal WITH published <- Published, journal <- lake

\* Every step of the runs is an allowed step of the journal, or none.
LakeIsJournal == Journal!Spec
=============================================================================
