------------------------------- MODULE CsvFiles -------------------------------
(***************************************************************************)
(* The monthly CSV files of CsvSnapshotStore                               *)
(* (core/ingestion/snapshot_store.py) as values: the layout a file's first *)
(* line gives it, and the readings csv.DictReader gets back from it.       *)
(***************************************************************************)
EXTENDS Observations

Layouts == {"absent",      \* no file
            "empty",       \* the file exists and has no line
            "legacy",      \* header without the optional columns and simulated
            "provenance",  \* a legacy header, upgraded with simulated
            "full",        \* header with every column
            "swallowed",   \* a data row was written first and acts as header
            "junk",        \* the same, upgraded with a simulated column
            "garbled"}     \* a line no reader can decode follows the header

CsvFile == [layout : Layouts, rows : SUBSET Snapshots]

NoFile == [layout |-> "absent", rows |-> {}]
EmptyFile == [layout |-> "empty", rows |-> {}]
GarbledFile == [layout |-> "garbled", rows |-> {}]

\* Mutant: the provenance column is treated like the optional ones.
LacksNothing(layout) == FALSE

\* A first line that is a data row does not name the column simulated.
LacksProvenance(layout) == layout \in {"legacy", "swallowed"}

Upgraded(layout) == IF layout = "legacy" THEN "provenance" ELSE "junk"

\* Mutant: the columns of this version are assumed, whatever the file holds.
HeaderAssumed(file) == IF file.layout = "absent" THEN "absent" ELSE "full"

\* Mutant: an empty file has no columns at all, which is no layout.
HeaderRead(file) == IF file.layout = "empty" THEN "none" ELSE file.layout

\* _header_of: an empty file is taken for one with every column.
HeaderOf(file) == IF file.layout = "empty" THEN "full" ELSE file.layout

\* DictWriter(extrasaction="ignore"): the columns the header lacks are dropped,
\* and a row without the simulated column is loaded as a real one.
Projected(header, s) ==
  CASE header = "full" -> s
    [] header = "provenance" -> Stripped(s)
    [] OTHER -> [Stripped(s) EXCEPT !.offer.simulated = FALSE]

\* A line written under the columns `header`, at the end of the file.
WithRow(file, header, s) ==
  CASE file.layout = "empty" -> [layout |-> "swallowed", rows |-> {}]
    [] file.layout = header /\ header \in {"legacy", "provenance", "full"} ->
         [file EXCEPT !.rows = @ \union {Projected(header, s)}]
    [] OTHER -> GarbledFile

\* A header line and a row, at the end of a file taken to be new.
WithHeaderAndRow(file, s) ==
  IF file.layout = "empty" THEN [layout |-> "full", rows |-> {s}] ELSE GarbledFile

\* A file that holds nothing but a part of the lines to be written back.
IsPartOf(file, header, rows) ==
  file.layout = "empty" \/ (file.layout = header /\ file.rows \subseteq rows)

\* Mutant: the lines saved before the truncation are not written back.
RewrittenHeaderOnly(file, header, rows) ==
  IF IsPartOf(file, header, rows) THEN [layout |-> header, rows |-> {}] ELSE GarbledFile

\* The lines saved from a file, written back under its upgraded header.
Rewritten(file, header, rows) ==
  IF IsPartOf(file, header, rows) THEN [layout |-> header, rows |-> rows] ELSE GarbledFile

\* CsvSnapshotStore.load over every monthly file, and when it raises.
LoadRaises(csv) == \E m \in Months : csv[m].layout = "garbled"
Load(csv) == UNION {csv[m].rows : m \in Months}
=============================================================================
