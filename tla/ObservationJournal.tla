-------------------------- MODULE ObservationJournal --------------------------
(***************************************************************************)
(* What the cold store promises its readers, without files or runs         *)
(* (core/storage/parquet_store.py, module docstring): an append-only       *)
(* journal of the published observations that never holds one twice.       *)
(***************************************************************************)
EXTENDS Observations

VARIABLES published,  \* the readings that were observed
          journal     \* entries [snap, part]

Init == journal = {}

Publish ==
  /\ published \subseteq published'
  /\ UNCHANGED journal

\* New entries, in one part of their own, of published readings the journal
\* lacks.
Record ==
  /\ journal \subseteq journal'
  /\ \A e \in journal' \ journal :
       /\ e.snap \in published
       /\ \A f \in journal : Content(e.snap) # Content(f.snap) /\ e.part # f.part
       /\ \A f \in journal' \ journal :
            e.part = f.part /\ (Content(e.snap) = Content(f.snap) => e = f)
  /\ UNCHANGED published

Spec == Init /\ [][Publish \/ Record]_<<published, journal>>
=============================================================================
