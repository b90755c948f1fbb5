------------------------------- MODULE EnergyStore -------------------------------
(***************************************************************************)
(* The energy lake (core/storage/energy_store.py) and the three places     *)
(* that reduce it to what was known at an instant.  A content is a row's   *)
(* mandatory columns, the source and its series in one; a row is a content *)
(* with the part file it is in, so that the same content can be there      *)
(* twice.  Instants are interval starts and publication times alike.       *)
(***************************************************************************)
EXTENDS Integers, FiniteSets

Contents(rows) == {r.content : r \in rows}

\* normalize_energy_frame: a timestamp without a zone stops the write, and a
\* row without provenance is real.
Normalizes(frame) == \A c \in frame : c.publish # "naive" /\ c.at # "naive"

\* Mutant: no anti-join with what is there.
NewContents(rows, frame) == frame

\* write(): duplicates within the frame and contents already there are dropped.
New(rows, frame) == frame \ Contents(rows)

\* read(series)
Read(rows, series) == {r \in rows : r.content.series = series}

\* Mutant: the rows published after the cutoff are read as well.
KnownAnyTime(rows, asOf) == rows

\* read(as_of): the cutoff itself is included.
Known(rows, asOf) == {r \in rows : r.content.publish <= asOf}

\* Mutant: the revision stored last wins.
LatestStored(rows, asOf) ==
  LET known == Known(rows, asOf)
  IN  [at \in {r.content.at : r \in known} |->
         {r.content.value : r \in {q \in known :
            /\ q.content.at = at
            /\ \A p \in known : p.content.at = at => p.part <= q.part}}]

\* as_of_snapshot, _latest_known_per_interval and _latest_per_interval_long: of
\* what was known, the value published last for each interval.  Row order, which
\* follows the names of the part files, chooses among equal publication times:
\* the operator gives every value that it can choose.
AsOfSnapshot(rows, asOf) ==
  LET known == Known(rows, asOf)
  IN  [at \in {r.content.at : r \in known} |->
         {r.content.value : r \in {q \in known :
            /\ q.content.at = at
            /\ \A p \in known : p.content.at = at => p.content.publish <= q.content.publish}}]
===============================================================================
