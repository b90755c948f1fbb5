-------------------------- MODULE EntsoeBackfillProofs --------------------------
(***************************************************************************)
(* What the backfill leaves in the energy lake, and what the studies read  *)
(* there, for every market, range, chunk size and number of runs, kills    *)
(* and revisions.                                                          *)
(***************************************************************************)
EXTENDS EntsoeBackfill, FiniteSetTheorems, TLAPS

N == INSTANCE FiniteInduction

\* The price is one that the market has, or had before it corrected it, and is
\* stored under the publication time that its interval implies.
Sourced(c) ==
  /\ c.publish = PublishTime(c.at)
  /\ market[c.series][c.at] # NoPrice
  /\ c.value = market[c.series][c.at] \/ <<c.series, c.at>> \in revised

\* Some price is there for the zone and the interval.
Has(contents, z, i) == \E c \in contents : c.series = z /\ c.at = i

\* What the market has for the zone and the interval, and the run did not skip.
Due(z, i) == market[z][i] # NoPrice /\ <<z, i>> \notin skipped

AllSourced == \A c \in frame \union Contents(store) : Sourced(c)

OneRowPerContent == \A r, q \in store : r.content = q.content => r = q

CoveredIsStored == \A p \in covered : Has(Contents(store), p[1], p[2])

\* The chunks behind the cursor are in the lake.
BehindIsStored ==
  begun < cursor => \A z \in ZoneSet : \A i \in begun .. cursor :
    Due(z, i) => Has(Contents(store), z, i)

\* The zones behind the zone queried are in the frame.
AskedIsFramed ==
  \A j \in DOMAIN Zones : j < zone \/ pc = "write" =>
    \A i \in cursor .. ChunkEnd : Due(Zones[j], i) => Has(frame, Zones[j], i)

InRun == pc \in {"query", "write"} =>
  /\ begun <= cursor /\ cursor < stop
  /\ BehindIsStored
  /\ AskedIsFramed

\* The inductive invariant.
IInv == TypeOK /\ AllSourced /\ OneRowPerContent /\ CoveredIsStored /\ InRun
-------------------------------------------------------------------------------
(***************************************************************************)
(* Lemmas about the operators.                                             *)
(***************************************************************************)
\* The constants, without the definition of Markets' elements.
LEMMA Constants ==
  /\ DOMAIN Zones = 1 .. Len(Zones) /\ Len(Zones) \in Nat \ {0}
  /\ \A j \in DOMAIN Zones : Zones[j] \in ZoneSet
  /\ \A z \in ZoneSet : \E j \in DOMAIN Zones : Zones[j] = z
  /\ Intervals \subseteq Nat /\ MaxInterval \in Nat
  /\ Prices \subseteq Nat /\ NoPrice \notin Prices
  /\ Chunk \in Nat \ {0} /\ MaxAttempts \in Nat \ {0}
<1>1. DOMAIN Zones = 1 .. Len(Zones) /\ Len(Zones) \in Nat \ {0}
  BY BackfillAssumption
<1>2. MaxInterval \in Nat /\ Prices \subseteq Nat \ {NoPrice}
  BY BackfillAssumption, Zenon
<1>4. Intervals \subseteq Nat
  BY <1>2 DEF Intervals
<1>3. /\ \A j \in DOMAIN Zones : Zones[j] \in ZoneSet
      /\ \A z \in ZoneSet : \E j \in DOMAIN Zones : Zones[j] = z
  BY Zenon DEF ZoneSet
<1> QED
  BY <1>1, <1>2, <1>3, <1>4, BackfillAssumption, Zenon

\* A publication time is a whole number.
LEMMA PublishTimeIsInt == \A i \in Intervals : PublishTime(i) \in Int
<1> SUFFICES ASSUME NEW i \in Intervals PROVE PublishTime(i) \in Int
  OBVIOUS
<1>1. i \in Int /\ PerDay \in Nat /\ 0 < PerDay
  BY BackfillAssumption DEF Intervals
<1>2. i \div PerDay \in Int
  BY <1>1
<1> QED
  BY <1>1, <1>2 DEF PublishTime

\* A chunk ends in the range, behind its start.
LEMMA ChunkEnds ==
  ASSUME TypeOK, cursor < stop
  PROVE  /\ ChunkEnd \in Intervals
         /\ cursor < ChunkEnd /\ ChunkEnd <= stop
         /\ ~(ChunkEnd < stop) => ChunkEnd = stop
BY BackfillAssumption DEF TypeOK, ChunkEnd, Intervals

\* What the market answers is of the market, and is all that it has.
LEMMA PricedIsSourced ==
  ASSUME TypeOK, NEW z \in ZoneSet, NEW from \in Intervals, NEW to \in Intervals
  PROVE  /\ Priced(z, from, to) \subseteq ContentSet
         /\ \A c \in Priced(z, from, to) : Sourced(c)
         /\ \A i \in from .. to : market[z][i] # NoPrice => Has(Priced(z, from, to), z, i)
<1> DEFINE C(i) == [series |-> z, publish |-> PublishTime(i), at |-> i, value |-> market[z][i]]
<1>1. from .. to \subseteq Intervals
  BY Constants DEF Intervals
<1>2. \A i \in InRange(market[z], from, to) :
        /\ C(i) \in ContentSet /\ Sourced(C(i))
        /\ C(i).series = z /\ C(i).at = i
  BY <1>1, PublishTimeIsInt DEF InRange, TypeOK, ContentSet, Sourced
<1>3. Priced(z, from, to) = {C(i) : i \in InRange(market[z], from, to)}
  BY DEF Priced
<1> HIDE DEF C
<1>4. \A i \in from .. to : market[z][i] # NoPrice => i \in InRange(market[z], from, to)
  BY DEF InRange
<1>5. \A i \in from .. to : market[z][i] # NoPrice => Has(Priced(z, from, to), z, i)
  <2> SUFFICES ASSUME NEW i \in from .. to, market[z][i] # NoPrice
               PROVE  \E c \in Priced(z, from, to) : c.series = z /\ c.at = i
    BY DEF Has
  <2>1. C(i) \in Priced(z, from, to)
    BY <1>3, <1>4
  <2>2. C(i).series = z /\ C(i).at = i
    BY <1>2, <1>4
  <2> QED
    BY <2>1, <2>2, Zenon
<1>6. \A c \in Priced(z, from, to) : c \in ContentSet /\ Sourced(c)
  BY <1>2, <1>3
<1> QED
  BY <1>5, <1>6

\* A write leaves every row in the lake, and each content of the frame once.
LEMMA WriteKeepsOnce ==
  ASSUME TypeOK, OneRowPerContent, NEW some \in SUBSET New(store, frame)
  PROVE  LET after == store \union Parts(some)
         IN  /\ Contents(after) = Contents(store) \union some
             /\ \A r, q \in after : r.content = q.content => r = q
             /\ \A r \in after : r.content \in ContentSet /\ r.part \in 1 .. parts + 1
<1> DEFINE after == store \union Parts(some)
<1>1. \A r \in Parts(some) : r.content \in some /\ r.part = parts + 1
  BY DEF Parts
<1>2. \A c \in some : [content |-> c, part |-> parts + 1] \in Parts(some)
  BY DEF Parts
<1>3. \A r, q \in Parts(some) : r.content = q.content => r = q
  BY DEF Parts
<1>4. some \subseteq ContentSet /\ parts \in Nat
  BY DEF TypeOK, New
<1>5. Contents(after) = Contents(store) \union some
  <2>1. ASSUME NEW c \in some PROVE c \in Contents(after)
    <3> DEFINE row == [content |-> c, part |-> parts + 1]
    <3>1. row \in after /\ row.content = c
      BY <1>2
    <3> HIDE DEF row, after
    <3> QED
      BY <3>1 DEF Contents
  <2>2. \A r \in Parts(some) : r.content \in some
    BY <1>1
  <2>3. Contents(after) = Contents(store) \union Contents(Parts(some))
    BY DEF Contents
  <2>4. Contents(Parts(some)) \subseteq some
    BY <2>2 DEF Contents
  <2> QED
    BY <2>1, <2>3, <2>4
<1>6. \A r \in store, q \in Parts(some) : r.content # q.content
  BY <1>1 DEF New, Contents
<1>7. \A r, q \in after : r.content = q.content => r = q
  BY <1>3, <1>6 DEF OneRowPerContent
<1>8. \A r \in after : r.content \in ContentSet /\ r.part \in 1 .. parts + 1
  BY <1>1, <1>4 DEF TypeOK
<1> QED
  BY <1>5, <1>7, <1>8
-------------------------------------------------------------------------------
(***************************************************************************)
(* The invariant is inductive: one lemma per action.                       *)
(***************************************************************************)
LEMMA InitIInv == Init => IInv
<1> SUFFICES ASSUME Init PROVE IInv
  OBVIOUS
<1>1. 1 \in DOMAIN Zones /\ 0 \in Intervals
  BY Constants DEF Intervals
<1>2. market \in [ZoneSet -> [Intervals -> Prices \union {NoPrice}]]
  BY BackfillAssumption DEF Init
<1>3. TypeOK
  BY <1>1, <1>2, Constants, BackfillAssumption DEF Init, TypeOK
<1> QED
  BY <1>3 DEF Init, IInv, AllSourced, OneRowPerContent, CoveredIsStored, InRun, Contents

\* A run starts with nothing behind its cursor.
LEMMA StartStep == IInv /\ Start => IInv'
<1> SUFFICES ASSUME IInv, Start PROVE IInv'
  OBVIOUS
<1>0. 1 \in DOMAIN Zones /\ 1 \in Int
  BY Constants
<1>1. PICK from \in Intervals, to \in Intervals :
        from < to /\ cursor' = from /\ begun' = from /\ stop' = to
  BY DEF Start
<1>2. runs' \in 0 .. MaxRuns
  BY BackfillAssumption DEF Start, IInv, TypeOK
<1>3. TypeOK'
  BY <1>0, <1>1, <1>2, Constants DEF IInv, TypeOK, Start, lake
<1>4. AllSourced' /\ OneRowPerContent' /\ CoveredIsStored'
  BY DEF IInv, Start, lake, AllSourced, Sourced, OneRowPerContent, CoveredIsStored, Has
<1>5. InRun'
  <2>1. begun' <= cursor' /\ cursor' < stop' /\ ~(begun' < cursor')
    BY <1>1, Constants
  <2>2. AskedIsFramed'
    BY <1>0, Constants DEF Start, AskedIsFramed
  <2> QED
    BY <2>1, <2>2 DEF InRun, BehindIsStored
<1> QED
  BY <1>3, <1>4, <1>5 DEF IInv

\* A query of a zone is done: what it owed is in the frame or was skipped.
LEMMA ZoneDone ==
  ASSUME IInv, pc = "query", NextZone, skipped \subseteq skipped', frame \subseteq frame',
         UNCHANGED <<market, store, stop, cursor, begun>>,
         \A i \in cursor .. ChunkEnd :
           market[Zone][i] # NoPrice /\ <<Zone, i>> \notin skipped' => Has(frame', Zone, i)
  PROVE  InRun' /\ zone' \in DOMAIN Zones /\ attempt' \in 0 .. MaxAttempts - 1
                /\ pc' \in {"query", "write"}
<1>1. zone \in 1 .. Len(Zones) /\ Len(Zones) \in Nat
  BY Constants DEF IInv, TypeOK
<1>2. zone' \in DOMAIN Zones /\ attempt' \in 0 .. MaxAttempts - 1 /\ pc' \in {"query", "write"}
  BY <1>1, Constants DEF NextZone
<1>3. \A j \in DOMAIN Zones : j < zone' \/ pc' = "write" => j < zone \/ j = zone
  BY <1>1, Constants DEF NextZone
<1>4. ChunkEnd' = ChunkEnd
  BY DEF ChunkEnd
<1>5. \A z, i : Due(z, i)' => Due(z, i)
  BY DEF Due
<1>6. AskedIsFramed'
  <2> SUFFICES ASSUME NEW j \in DOMAIN Zones, j < zone' \/ pc' = "write",
                      NEW i \in cursor .. ChunkEnd, Due(Zones[j], i)'
               PROVE  Has(frame', Zones[j], i)
    BY <1>4 DEF AskedIsFramed
  <2>1. CASE j = zone
    BY <2>1 DEF Zone, Due
  <2>2. CASE j < zone
    <3>1. Has(frame, Zones[j], i)
      BY <2>2, <1>5 DEF IInv, InRun, AskedIsFramed
    <3> QED
      BY <3>1 DEF Has
  <2> QED
    BY <1>3, <2>1, <2>2
<1>7. BehindIsStored'
  BY <1>5 DEF IInv, InRun, BehindIsStored
<1> QED
  BY <1>2, <1>6, <1>7 DEF InRun, IInv

\* An answer frames all that the market has for the zone and the chunk.
LEMMA AnswerStep == IInv /\ Answer => IInv'
<1> SUFFICES ASSUME IInv, Answer PROVE IInv'
  OBVIOUS
<1>1. TypeOK /\ cursor < stop /\ cursor \in Intervals
  BY DEF IInv, InRun, TypeOK, Answer
<1>2. ChunkEnd \in Intervals /\ Zone \in ZoneSet
  BY <1>1, ChunkEnds, Constants DEF Zone, TypeOK
<1> DEFINE answer == Priced(Zone, cursor, ChunkEnd)
<1>3. /\ answer \subseteq ContentSet
      /\ \A c \in answer : Sourced(c)
      /\ \A i \in cursor .. ChunkEnd : market[Zone][i] # NoPrice => Has(answer, Zone, i)
  BY <1>1, <1>2, PricedIsSourced
<1>4. /\ pc = "query" /\ frame' = frame \union answer /\ NextZone
      /\ UNCHANGED <<market, store, parts, stop, cursor, runs, kills, revisions,
                     begun, skipped, revised, covered>>
  BY DEF Answer, lake, bounds, ghosts
<1> HIDE DEF answer
<1>5. \A i \in cursor .. ChunkEnd :
        market[Zone][i] # NoPrice /\ <<Zone, i>> \notin skipped' => Has(frame', Zone, i)
  BY <1>3, <1>4 DEF Has
<1>6. /\ InRun' /\ zone' \in DOMAIN Zones /\ attempt' \in 0 .. MaxAttempts - 1
      /\ pc' \in {"query", "write"}
  BY <1>4, <1>5, ZoneDone
<1>7. TypeOK'
  BY <1>3, <1>4, <1>6 DEF IInv, TypeOK
<1>8. AllSourced' /\ OneRowPerContent' /\ CoveredIsStored'
  BY <1>3, <1>4 DEF IInv, AllSourced, Sourced, OneRowPerContent, CoveredIsStored, Has
<1> QED
  BY <1>6, <1>7, <1>8 DEF IInv

\* A retry only counts.
LEMMA RetryStep == IInv /\ Retry => IInv'
<1> SUFFICES ASSUME IInv, Retry PROVE IInv'
  OBVIOUS
<1>1. attempt' \in 0 .. MaxAttempts - 1
  BY Constants DEF IInv, TypeOK, Retry
<1>2. UNCHANGED <<market, store, parts, pc, stop, cursor, zone, frame, runs, kills, revisions,
                  begun, skipped, revised, covered>>
  BY DEF Retry, lake, bounds, ghosts
<1>3. TypeOK'
  BY <1>1, <1>2 DEF IInv, TypeOK
<1>4. AllSourced' /\ OneRowPerContent' /\ CoveredIsStored'
  BY <1>2 DEF IInv, AllSourced, Sourced, OneRowPerContent, CoveredIsStored, Has
<1>5. InRun'
  BY <1>2 DEF IInv, InRun, BehindIsStored, AskedIsFramed, ChunkEnd, Due, Has
<1> QED
  BY <1>3, <1>4, <1>5 DEF IInv

\* A zone that is skipped owes nothing for the chunk.
LEMMA SkipZoneStep == IInv /\ SkipZone => IInv'
<1> SUFFICES ASSUME IInv, SkipZone PROVE IInv'
  OBVIOUS
<1>1. TypeOK /\ cursor < stop /\ cursor \in Intervals
  BY DEF IInv, InRun, TypeOK, SkipZone
<1>2. ChunkEnd \in Intervals /\ Zone \in ZoneSet
  BY <1>1, ChunkEnds, Constants DEF Zone, TypeOK
<1>3. /\ pc = "query" /\ skipped' = skipped \union ({Zone} \X (cursor .. ChunkEnd)) /\ NextZone
      /\ UNCHANGED <<market, store, parts, stop, cursor, frame, runs, kills, revisions,
                     begun, revised, covered>>
  BY DEF SkipZone, lake, bounds
<1>4. \A i \in cursor .. ChunkEnd : <<Zone, i>> \in skipped'
  BY <1>3
<1>5. /\ InRun' /\ zone' \in DOMAIN Zones /\ attempt' \in 0 .. MaxAttempts - 1
      /\ pc' \in {"query", "write"}
  BY <1>3, <1>4, ZoneDone
<1>6. cursor .. ChunkEnd \subseteq Intervals
  BY <1>1, <1>2, Constants DEF Intervals
<1>7. skipped' \subseteq ZoneSet \X Intervals
  BY <1>2, <1>3, <1>6 DEF IInv, TypeOK
<1>8. TypeOK'
  BY <1>3, <1>5, <1>7 DEF IInv, TypeOK
<1>9. AllSourced' /\ OneRowPerContent' /\ CoveredIsStored'
  BY <1>3 DEF IInv, AllSourced, Sourced, OneRowPerContent, CoveredIsStored, Has
<1> QED
  BY <1>5, <1>8, <1>9 DEF IInv

\* A run that ends leaves the lake as it was.
LEMMA AbortStep == IInv /\ Abort => IInv'
<1> SUFFICES ASSUME IInv, Abort PROVE IInv'
  OBVIOUS
<1>1. /\ End
      /\ UNCHANGED <<market, store, parts, runs, kills, revisions, revised, covered>>
  BY DEF Abort, lake, bounds
<1>2. 1 \in DOMAIN Zones /\ 0 \in Intervals /\ 0 \in 0 .. MaxAttempts - 1
  BY Constants DEF Intervals
<1>3. TypeOK'
  BY <1>1, <1>2 DEF IInv, TypeOK, End, NoMoreSteps
<1>4. AllSourced' /\ OneRowPerContent' /\ CoveredIsStored' /\ InRun'
  BY <1>1 DEF IInv, AllSourced, Sourced, OneRowPerContent, CoveredIsStored, Has, InRun,
    End, NoMoreSteps
<1> QED
  BY <1>3, <1>4 DEF IInv

\* Nor does a run whose query is never answered.
LEMMA HangStep == IInv /\ Hang => IInv'
<1> SUFFICES ASSUME IInv, Hang PROVE IInv'
  OBVIOUS
<1>1. /\ pc' = "hung" /\ NoMoreSteps
      /\ UNCHANGED <<market, store, parts, runs, kills, revisions, revised, covered>>
  BY DEF Hang, lake, bounds
<1>2. 1 \in DOMAIN Zones /\ 0 \in Intervals /\ 0 \in 0 .. MaxAttempts - 1
  BY Constants DEF Intervals
<1>3. TypeOK'
  BY <1>1, <1>2 DEF IInv, TypeOK, NoMoreSteps
<1>4. AllSourced' /\ OneRowPerContent' /\ CoveredIsStored' /\ InRun'
  BY <1>1 DEF IInv, AllSourced, Sourced, OneRowPerContent, CoveredIsStored, Has, InRun,
    NoMoreSteps
<1> QED
  BY <1>3, <1>4 DEF IInv

\* The frame of a chunk goes to the lake, each content once, and the cursor
\* moves behind the chunk; at the end of the range all that was due is there.
LEMMA WriteStep == IInv /\ Write => IInv'
<1> SUFFICES ASSUME IInv, Write PROVE IInv'
  OBVIOUS
<1>1. /\ TypeOK /\ pc = "write" /\ cursor < stop /\ begun <= cursor
      /\ begun \in Nat /\ cursor \in Nat /\ stop \in Nat
  BY Constants DEF IInv, InRun, TypeOK, Write
<1>2. /\ ChunkEnd \in Intervals /\ ChunkEnd \in Nat /\ cursor < ChunkEnd
      /\ ChunkEnd <= stop /\ (~(ChunkEnd < stop) => ChunkEnd = stop)
  BY <1>1, ChunkEnds, Constants
<1>3. /\ store' = store \union Parts(New(store, frame))
      /\ parts' = parts + (IF New(store, frame) = {} THEN 0 ELSE 1)
      /\ UNCHANGED <<market, runs, kills, revisions, revised>>
  BY DEF Write, bounds
<1>4. /\ Contents(store') = Contents(store) \union New(store, frame)
      /\ \A r, q \in store' : r.content = q.content => r = q
      /\ \A r \in store' : r.content \in ContentSet /\ r.part \in 1 .. parts + 1
  BY <1>1, <1>3, WriteKeepsOnce DEF IInv
<1>5. Contents(store') = Contents(store) \union frame
  BY <1>4 DEF New
<1>6. parts' \in Nat /\ \A r \in store' : r.content \in ContentSet /\ r.part \in 1 .. parts'
  <2>1. CASE New(store, frame) = {}
    <3>1. store' = store /\ parts' = parts
      BY <1>3, <2>1 DEF Parts, IInv, TypeOK
    <3> QED
      BY <3>1 DEF IInv, TypeOK
  <2>2. CASE New(store, frame) # {}
    BY <1>3, <1>4, <2>2 DEF IInv, TypeOK
  <2> QED
    BY <2>1, <2>2
<1>7. AllSourced'
  <2>1. frame' = {}
    BY DEF Write, Advance, NextChunk, End, NoMoreSteps
  <2> QED
    BY <1>3, <1>5, <2>1 DEF IInv, AllSourced, Sourced
<1>8. \A z \in ZoneSet : \A i \in begun .. ChunkEnd : Due(z, i) => Has(Contents(store'), z, i)
  <2> SUFFICES ASSUME NEW z \in ZoneSet, NEW i \in begun .. ChunkEnd, Due(z, i)
               PROVE  Has(Contents(store'), z, i)
    OBVIOUS
  <2>1. CASE i \in cursor .. ChunkEnd
    <3>1. PICK j \in DOMAIN Zones : Zones[j] = z
      BY Constants
    <3>2. Has(frame, z, i)
      BY <1>1, <2>1, <3>1 DEF IInv, InRun, AskedIsFramed
    <3> QED
      BY <1>5, <3>2 DEF Has
  <2>2. CASE i < cursor
    <3>1. begun < cursor /\ i \in begun .. cursor
      BY <1>1, <2>2
    <3>2. Has(Contents(store), z, i)
      BY <1>1, <3>1 DEF IInv, InRun, BehindIsStored
    <3> QED
      BY <1>5, <3>2 DEF Has
  <2> QED
    BY <1>1, <1>2, <2>1, <2>2
<1>9. 1 \in DOMAIN Zones /\ 0 \in Intervals /\ 0 \in 0 .. MaxAttempts - 1
  BY Constants DEF Intervals
<1>10. CASE ChunkEnd < stop
  <2>1. NextChunk(ChunkEnd)
    BY <1>10 DEF Write, Advance
  <2>2. TypeOK'
    BY <1>2, <1>3, <1>6, <1>9, <2>1 DEF IInv, TypeOK, NextChunk
  <2>3. OneRowPerContent' /\ CoveredIsStored'
    BY <1>4, <1>5, <2>1 DEF IInv, OneRowPerContent, CoveredIsStored, Has, NextChunk
  <2>4. BehindIsStored'
    BY <1>3, <1>8, <2>1 DEF BehindIsStored, NextChunk, Due
  <2>5. AskedIsFramed'
    BY <2>1, Constants DEF AskedIsFramed, NextChunk
  <2>6. InRun'
    BY <1>1, <1>2, <1>10, <2>1, <2>4, <2>5 DEF InRun, NextChunk
  <2> QED
    BY <1>7, <2>2, <2>3, <2>6 DEF IInv
<1>11. CASE ~(ChunkEnd < stop)
  <2>1. End /\ covered' = covered \union Obligation
    BY <1>11 DEF Write, Advance
  <2>2. begun .. stop \subseteq Intervals
    BY <1>1, Constants DEF IInv, TypeOK, Intervals
  <2>3. \A p \in Obligation : p \in ZoneSet \X Intervals /\ Has(Contents(store'), p[1], p[2])
    <3> SUFFICES ASSUME NEW p \in Obligation
                 PROVE  p \in ZoneSet \X Intervals /\ Has(Contents(store'), p[1], p[2])
      OBVIOUS
    <3>1. /\ p \in ZoneSet \X (begun .. stop) /\ p = <<p[1], p[2]>>
          /\ market[p[1]][p[2]] # NoPrice /\ p \notin skipped
      BY DEF Obligation
    <3>2. Due(p[1], p[2])
      BY <3>1 DEF Due
    <3> QED
      BY <1>2, <1>8, <1>11, <2>2, <3>1, <3>2
  <2>4. TypeOK'
    BY <1>3, <1>6, <1>9, <2>1, <2>3 DEF IInv, TypeOK, End, NoMoreSteps
  <2>5. OneRowPerContent'
    BY <1>4 DEF OneRowPerContent
  <2>6. CoveredIsStored'
    <3>1. \A p \in covered : Has(Contents(store'), p[1], p[2])
      BY <1>5 DEF IInv, CoveredIsStored, Has
    <3> QED
      BY <2>1, <2>3, <3>1 DEF CoveredIsStored
  <2>7. InRun'
    BY <2>1 DEF InRun, End, NoMoreSteps
  <2> QED
    BY <1>7, <2>4, <2>5, <2>6, <2>7 DEF IInv
<1> QED
  BY <1>10, <1>11

\* A kill in the middle of a write leaves some of the new contents, each once.
LEMMA KillStep == IInv /\ Kill => IInv'
<1> SUFFICES ASSUME IInv, Kill PROVE IInv'
  OBVIOUS
<1>1. /\ End /\ kills < MaxKills /\ kills' = kills + 1
      /\ UNCHANGED <<market, runs, revisions, revised, covered>>
  BY DEF Kill
<1>2. PICK some \in SUBSET New(store, frame) :
        /\ store' = store \union Parts(some)
        /\ parts' = parts + 1 \/ (some = {} /\ parts' = parts)
  <2>1. CASE UNCHANGED lake
    <3>1. store' = store \union Parts({}) /\ parts' = parts
      BY <2>1 DEF Parts, lake
    <3> QED
      BY <3>1
  <2>2. CASE ~ UNCHANGED lake
    BY <2>2 DEF Kill
  <2> QED
    BY <2>1, <2>2
<1>3. /\ Contents(store') = Contents(store) \union some
      /\ \A r, q \in store' : r.content = q.content => r = q
      /\ \A r \in store' : r.content \in ContentSet /\ r.part \in 1 .. parts + 1
  BY <1>2, WriteKeepsOnce DEF IInv
<1>4. parts' \in Nat /\ \A r \in store' : r.content \in ContentSet /\ r.part \in 1 .. parts'
  <2>1. CASE parts' = parts + 1
    BY <1>3, <2>1 DEF IInv, TypeOK
  <2>2. CASE some = {} /\ parts' = parts
    <3>1. store' = store
      BY <1>2, <2>2 DEF Parts
    <3> QED
      BY <2>2, <3>1 DEF IInv, TypeOK
  <2> QED
    BY <1>2, <2>1, <2>2
<1>5. 1 \in DOMAIN Zones /\ 0 \in Intervals /\ 0 \in 0 .. MaxAttempts - 1
  BY Constants DEF Intervals
<1>6. kills' \in 0 .. MaxKills
  BY <1>1, BackfillAssumption DEF IInv, TypeOK
<1>7. TypeOK'
  BY <1>1, <1>4, <1>5, <1>6 DEF IInv, TypeOK, End, NoMoreSteps
<1>8. AllSourced'
  <2>1. some \subseteq frame /\ frame' = {}
    BY <1>1 DEF New, End, NoMoreSteps
  <2> QED
    BY <1>1, <1>3, <2>1 DEF IInv, AllSourced, Sourced
<1>9. OneRowPerContent' /\ CoveredIsStored' /\ InRun'
  BY <1>1, <1>3 DEF IInv, OneRowPerContent, CoveredIsStored, Has, InRun,
    End, NoMoreSteps
<1> QED
  BY <1>7, <1>8, <1>9 DEF IInv

\* A correction changes one price, never takes one away, and is remembered.
LEMMA ReviseStep == IInv /\ Revise => IInv'
<1> SUFFICES ASSUME IInv, Revise PROVE IInv'
  OBVIOUS
<1>1. /\ revisions < MaxRevisions /\ revisions' = revisions + 1
      /\ UNCHANGED <<store, parts, pc, stop, cursor, zone, attempt, frame, runs, kills,
                     begun, skipped, covered>>
  BY DEF Revise, lake, run
<1>2. PICK z \in ZoneSet, i \in Intervals, price \in Prices :
        /\ market[z][i] # NoPrice
        /\ market' = [market EXCEPT ![z][i] = price]
        /\ revised' = revised \union {<<z, i>>}
  BY DEF Revise
<1>3. market' \in [ZoneSet -> [Intervals -> Prices \union {NoPrice}]]
  BY <1>2 DEF IInv, TypeOK
<1>4. \A y \in ZoneSet, j \in Intervals :
        /\ market'[y][j] # NoPrice <=> market[y][j] # NoPrice
        /\ market'[y][j] = market[y][j] \/ <<y, j>> \in revised'
  BY <1>2, Constants DEF IInv, TypeOK
<1>5. revisions' \in 0 .. MaxRevisions /\ revised' \subseteq ZoneSet \X Intervals
  BY <1>1, <1>2, BackfillAssumption DEF IInv, TypeOK
<1>6. TypeOK'
  BY <1>1, <1>3, <1>5 DEF IInv, TypeOK
<1>7. AllSourced'
  <2> SUFFICES ASSUME NEW c \in frame \union Contents(store) PROVE Sourced(c)'
    BY <1>1 DEF AllSourced
  <2>1. c \in ContentSet /\ Sourced(c)
    BY DEF IInv, TypeOK, AllSourced, Contents
  <2>2. c.series \in ZoneSet /\ c.at \in Intervals
    BY <2>1 DEF ContentSet
  <2> QED
    BY <1>2, <1>4, <2>1, <2>2 DEF Sourced
<1>8. OneRowPerContent' /\ CoveredIsStored'
  BY <1>1 DEF IInv, OneRowPerContent, CoveredIsStored, Has
<1>9. \A y \in ZoneSet, j \in Intervals : Due(y, j)' <=> Due(y, j)
  BY <1>1, <1>4 DEF Due
<1>10. InRun'
  <2> SUFFICES ASSUME pc \in {"query", "write"} PROVE InRun'
    BY <1>1 DEF InRun
  <2>a. cursor < stop /\ {begun, cursor, stop} \subseteq Intervals
    BY DEF IInv, InRun, TypeOK
  <2>1. cursor .. ChunkEnd \subseteq Intervals /\ begun .. cursor \subseteq Intervals
    <3>1. ChunkEnd \in Intervals
      BY <2>a, ChunkEnds DEF IInv
    <3> QED
      BY <2>a, <3>1, Constants DEF Intervals
  <2>2. AskedIsFramed'
    BY <1>1, <1>9, <2>1, Constants DEF IInv, InRun, AskedIsFramed, ChunkEnd, Has
  <2>3. BehindIsStored'
    BY <1>1, <1>9, <2>1 DEF IInv, InRun, BehindIsStored, Has
  <2> QED
    BY <1>1, <2>2, <2>3 DEF IInv, InRun
<1> QED
  BY <1>6, <1>7, <1>8, <1>10 DEF IInv

LEMMA NextIInv == IInv /\ [Next]_vars => IInv'
<1> SUFFICES ASSUME IInv, [Next]_vars PROVE IInv'
  OBVIOUS
<1>1. CASE UNCHANGED vars
  BY <1>1 DEF vars, lake, run, bounds, ghosts, IInv, TypeOK, AllSourced, Sourced,
     OneRowPerContent, CoveredIsStored, InRun, BehindIsStored, AskedIsFramed, ChunkEnd, Due, Has
<1> QED
  BY <1>1, StartStep, AnswerStep, RetryStep, SkipZoneStep, AbortStep, HangStep, WriteStep,
     KillStep, ReviseStep DEF Next, Step

\* Type correctness, and the invariant itself, in every reachable state.
THEOREM BackfillInvariant == Spec => []IInv
<1> QED
  BY InitIInv, NextIInv, PTL DEF Spec

THEOREM BackfillTypes == Spec => []TypeOK
<1>1. IInv => TypeOK
  BY DEF IInv
<1> QED
  BY <1>1, BackfillInvariant, PTL
-------------------------------------------------------------------------------
(***************************************************************************)
(* No price is twice in the lake.                                          *)
(***************************************************************************)
LEMMA SourcedOnce == IInv => NoPriceTwice
<1> SUFFICES ASSUME IInv, NEW r \in store, NEW q \in store,
                    r.content.series = q.content.series, r.content.at = q.content.at, r # q
             PROVE  /\ <<r.content.series, r.content.at>> \in revised
                    /\ r.content # q.content
  BY DEF NoPriceTwice
<1> DEFINE c == r.content
           d == q.content
<1>1. c # d
  BY DEF IInv, OneRowPerContent
<1>2. c \in Contents(store) /\ d \in Contents(store)
  BY DEF Contents
<1>3. c \in ContentSet /\ d \in ContentSet
  BY DEF IInv, TypeOK
<1>4. Sourced(c) /\ Sourced(d)
  BY <1>2, Zenon DEF IInv, AllSourced
<1> HIDE DEF c, d
<1>5. c.series = d.series /\ c.at = d.at
  BY DEF c, d
<1>6. c.publish = d.publish
  BY <1>4, <1>5 DEF Sourced
<1>7. c.value # d.value
  BY <1>1, <1>3, <1>5, <1>6 DEF ContentSet
<1>8. <<c.series, c.at>> \in revised
  BY <1>4, <1>5, <1>7 DEF Sourced
<1> QED
  BY <1>1, <1>8 DEF c, d

\* However often ranges are backfilled, overlap or are taken up again after a
\* kill in the middle of a write, a price is in the lake once; what the market
\* corrected is there once more.
THEOREM PricesAreStoredOnce == Spec => []NoPriceTwice
<1> QED
  BY BackfillInvariant, SourcedOnce, PTL
-------------------------------------------------------------------------------
(***************************************************************************)
(* The lake replaces the live call.                                        *)
(***************************************************************************)
\* The rows that a study reads are those of the zone in its range.
LEMMA ColdRows ==
  ASSUME IInv, NEW z \in ZoneSet, NEW from \in Intervals, NEW to \in Intervals,
         NEW p \in ReadColdStore(z, from, to)
  PROVE  \E r \in store :
           /\ p = <<r.content.at, r.content.value, r.part>>
           /\ r.content.series = z /\ r.content.at \in from .. to
           /\ Sourced(r.content)
<1>1. PICK r \in store : /\ p = <<r.content.at, r.content.value, r.part>>
                         /\ r.content.series = z /\ r.content.at \in from .. to
  BY DEF ReadColdStore, Read
<1>2. r.content \in Contents(store)
  BY DEF Contents
<1> QED
  BY <1>1, <1>2 DEF IInv, AllSourced

\* A price that runs covered is read from the lake.
LEMMA CoveredIsRead ==
  ASSUME IInv, NEW z \in ZoneSet, NEW from \in Intervals, NEW to \in Intervals,
         NEW i \in from .. to, <<z, i>> \in covered \ revised
  PROVE  \E part : <<i, market[z][i], part>> \in ReadColdStore(z, from, to)
<1>1. Has(Contents(store), z, i)
  BY Zenon DEF IInv, CoveredIsStored
<1>2. PICK r \in store : r.content.series = z /\ r.content.at = i
  BY <1>1 DEF Has, Contents
<1>3. r.content \in Contents(store)
  BY DEF Contents
<1>4. r.content.value = market[z][i]
  BY <1>2, <1>3 DEF IInv, AllSourced, Sourced
<1>5. r \in {q \in Read(store, z) : q.content.at \in from .. to}
  BY <1>2 DEF Read
<1>6. <<i, market[z][i], r.part>> \in ReadColdStore(z, from, to)
  BY <1>2, <1>4, <1>5 DEF ReadColdStore
<1> QED
  BY <1>6

LEMMA ColdIsLive == IInv => ColdEqualsLive
<1> SUFFICES ASSUME IInv, NEW z \in ZoneSet, NEW from \in Intervals, NEW to \in Intervals,
                    InRange(market[z], from, to) # {},
                    \A i \in InRange(market[z], from, to) : <<z, i>> \in covered \ revised
             PROVE  LET read == LoadEnergy(z, from, to, FALSE)
                    IN  /\ read.label = "entsoe_cold_store"
                        /\ {<<p[1], p[2]>> : p \in read.series} = Live(z, from, to)
                        /\ Cardinality(read.series) = Cardinality(InRange(market[z], from, to))
  BY DEF ColdEqualsLive
<1> DEFINE prices == InRange(market[z], from, to)
           rows == ReadColdStore(z, from, to)
<1>1. \A i \in prices : i \in from .. to /\ market[z][i] # NoPrice
  BY DEF InRange
<1>2. \A i \in prices : \E part : <<i, market[z][i], part>> \in rows
  BY <1>1, CoveredIsRead
\* Every row read is that of a price, at its current value.
<1>3. ASSUME NEW p \in rows
      PROVE  /\ p[1] \in prices /\ p[2] = market[z][p[1]]
             /\ \E r \in store : /\ p = <<r.content.at, r.content.value, r.part>>
                                 /\ r.content.series = z
  <2>1. PICK r \in store : /\ p = <<r.content.at, r.content.value, r.part>>
                           /\ r.content.series = z /\ r.content.at \in from .. to
                           /\ Sourced(r.content)
    BY ColdRows
  <2>2. r.content.at \in prices
    BY <2>1 DEF InRange, Sourced
  <2> QED
    BY <2>1, <2>2 DEF Sourced
\* Two rows of one interval are the same row.
<1>4. ASSUME NEW p \in rows, NEW o \in rows, p[1] = o[1] PROVE p = o
  <2>1. PICK r \in store : /\ p = <<r.content.at, r.content.value, r.part>>
                           /\ r.content.series = z
    BY <1>3
  <2>2. PICK q \in store : /\ o = <<q.content.at, q.content.value, q.part>>
                           /\ q.content.series = z
    BY <1>3
  <2>3. NoPriceTwice /\ <<z, p[1]>> \notin revised
    BY <1>3, SourcedOnce
  <2>4. r.content.at = p[1] /\ q.content.at = p[1]
    BY <1>4, <2>1, <2>2
  <2>5. r = q
    BY <2>1, <2>2, <2>3, <2>4, Zenon DEF NoPriceTwice
  <2> QED
    BY <2>1, <2>2, <2>5
<1> DEFINE loaded == LoadEnergy(z, from, to, FALSE)
<1>5. loaded = [label |-> "entsoe_cold_store", series |-> rows]
  BY <1>2 DEF LoadEnergy
<1>6. {<<p[1], p[2]>> : p \in rows} = Live(z, from, to)
  <2>1. \A p \in rows : <<p[1], p[2]>> \in Live(z, from, to)
    BY <1>3 DEF Live
  <2>2. ASSUME NEW i \in prices PROVE <<i, market[z][i]>> \in {<<p[1], p[2]>> : p \in rows}
    <3>1. PICK part : <<i, market[z][i], part>> \in rows
      BY <1>2
    <3> DEFINE row == <<i, market[z][i], part>>
    <3>2. row \in rows /\ row[1] = i /\ row[2] = market[z][i]
      BY <3>1
    <3> HIDE DEF row, rows
    <3> QED
      BY <3>2
  <2> QED
    BY <2>1, <2>2 DEF Live
<1>7. Cardinality(rows) = Cardinality(prices)
  <2> DEFINE RowOf(i) == CHOOSE p \in rows : p[1] = i
             f == [i \in prices |-> RowOf(i)]
  <2>1. \A i \in prices : RowOf(i) \in rows /\ RowOf(i)[1] = i
    <3> SUFFICES ASSUME NEW i \in prices PROVE \E p \in rows : p[1] = i
      BY Zenon
    <3>1. PICK part : <<i, market[z][i], part>> \in rows
      BY <1>2
    <3> DEFINE row == <<i, market[z][i], part>>
    <3>2. row \in rows /\ row[1] = i
      BY <3>1
    <3> HIDE DEF row, rows
    <3> QED
      BY <3>2
  <2> HIDE DEF RowOf, rows, prices
  <2>2. f \in [prices -> rows]
    BY <2>1
  <2>3. \A i, j \in prices : f[i] = f[j] => i = j
    BY <2>1
  <2>4. \A p \in rows : \E i \in prices : f[i] = p
    <3> SUFFICES ASSUME NEW p \in rows PROVE p[1] \in prices /\ f[p[1]] = p
      BY Zenon
    <3>1. p[1] \in prices
      BY <1>3
    <3> QED
      BY <1>4, <2>1, <3>1
  <2>5. ExistsBijection(prices, rows)
    BY <2>2, <2>3, <2>4, Zenon DEF ExistsBijection, Bijection, Injection, Surjection, IsInjective
  <2>6. IsFiniteSet(prices)
    <3>1. from \in Int /\ to \in Int
      BY Constants
    <3>2. prices \subseteq from .. to
      BY <1>1
    <3> QED
      BY <3>1, <3>2, FS_Interval, FS_Subset
  <2> QED
    BY <2>5, <2>6, FS_Bijection
<1> HIDE DEF loaded, rows
<1>8. loaded.label = "entsoe_cold_store" /\ loaded.series = rows
  BY <1>5
<1>9. /\ loaded.label = "entsoe_cold_store"
      /\ {<<p[1], p[2]>> : p \in loaded.series} = Live(z, from, to)
      /\ Cardinality(loaded.series) = Cardinality(prices)
  BY <1>6, <1>7, <1>8
<1> QED
  BY <1>9, Zenon DEF loaded

\* What a study reads from a range that runs have covered is what the market
\* would have answered, price for price, unless it corrected one since.
THEOREM LakeReplacesLiveCall == Spec => []ColdEqualsLive
<1> QED
  BY BackfillInvariant, ColdIsLive, PTL
-------------------------------------------------------------------------------
(***************************************************************************)
(* The real and the generated are never mixed.                             *)
(***************************************************************************)
\* A series has a last price at or before an instant if it has one at all.
LEMMA LastPriceExists ==
  ASSUME NEW series, NEW i \in Nat, \A p \in series : p[1] \in Nat,
         NEW q \in series, q[1] <= i
  PROVE  Filled(series, i) # {}
<1> DEFINE before == {p \in series : p[1] <= i}
           Back == {i - p[1] : p \in before}
<1>1. Back \in SUBSET Nat /\ Back # {}
  <2>1. \A p \in before : p[1] \in Nat /\ p[1] <= i
    OBVIOUS
  <2>2. \A p \in before : i - p[1] \in Nat
    BY <2>1
  <2>3. i - q[1] \in Back
    OBVIOUS
  <2> HIDE DEF before
  <2> QED
    BY <2>2, <2>3
<1>2. PICK least \in Back : \A b \in Back : least <= b
  BY <1>1, N!LeastExists, Zenon
<1>3. PICK last \in before : least = i - last[1]
  OBVIOUS
<1>4. \A o \in before : i - last[1] <= i - o[1] /\ o[1] \in Nat
  BY <1>2, <1>3
<1>5. \A o \in before : o[1] <= last[1]
  BY <1>3, <1>4
<1>6. last \in {p \in before : \A o \in before : o[1] <= p[1]}
  BY <1>3, <1>5
<1>7. last[2] \in Filled(series, i)
  BY <1>6 DEF Filled
<1> QED
  BY <1>7

\* What is carried forward comes from the series, at or before the instant.
LEMMA FilledIsEarlier ==
  ASSUME NEW series, NEW i, NEW price \in Filled(series, i)
  PROVE  \E p \in series : p[1] <= i /\ price = p[2]
BY DEF Filled

\* A series of prices that the zone had in the range.
LEMMA RealSeries ==
  ASSUME IInv, NEW z \in ZoneSet, NEW from \in Intervals, NEW to \in Intervals,
         NEW series, series # {},
         \A p \in series : /\ p[1] \in from .. to
                           /\ market[z][p[1]] = p[2] \/ <<z, p[1]>> \in revised
  PROVE  /\ Filled(series, to) # {}
         /\ \A i \in from .. to : \A price \in Filled(series, i) :
              \E j \in from .. i : market[z][j] = price \/ <<z, j>> \in revised
<1>1. from \in Nat /\ to \in Nat
  BY Constants
<1>2. Filled(series, to) # {}
  <2>1. PICK q \in series : TRUE
    OBVIOUS
  <2>4. \A p \in series : p[1] \in from .. to
    BY Zenon
  <2>2. \A p \in series : p[1] \in Nat /\ p[1] <= to
    BY <1>1, <2>4
  <2>3. q[1] <= to
    BY <2>1, <2>2
  <2> QED
    BY <1>1, <2>2, <2>3, LastPriceExists
<1>3. ASSUME NEW i \in from .. to, NEW price \in Filled(series, i)
      PROVE  \E j \in from .. i : market[z][j] = price \/ <<z, j>> \in revised
  <2>1. PICK p \in series : p[1] <= i /\ price = p[2]
    BY FilledIsEarlier
  <2>2. p[1] \in from .. to
    BY <2>1
  <2>3. p[1] \in from .. i
    BY <1>1, <2>1, <2>2
  <2> QED
    BY <2>1, <2>3
<1> QED
  BY <1>2, <1>3

LEMMA LabelledIsReal == IInv => RealIsReal
<1> SUFFICES ASSUME IInv, NEW from \in Intervals, NEW to \in Intervals, NEW reachable \in BOOLEAN,
                    LoadRegionalEnergy(from, to, reachable).label \in {"entsoe_cold_store", "entsoe"},
                    NEW z \in ZoneSet
             PROVE  LET series == LoadRegionalEnergy(from, to, reachable).of[z]
                    IN  /\ Filled(series, to) # {}
                        /\ \A i \in from .. to : \A price \in Filled(series, i) :
                             \E j \in from .. i : market[z][j] = price \/ <<z, j>> \in revised
  BY DEF RealIsReal
<1> DEFINE loaded == LoadRegionalEnergy(from, to, reachable)
           live == \A y \in ZoneSet : Live(y, from, to) # {}
           series == loaded.of[z]
<1>1. \/ TryColdStore(from, to) /\ loaded.of = [y \in ZoneSet |-> ReadColdStore(y, from, to)]
      \/ live /\ loaded.of = [y \in ZoneSet |-> Live(y, from, to)]
  <2>1. CASE ColdStoreRaises(from, to)
    BY <2>1 DEF LoadRegionalEnergy
  <2>2. CASE ~ColdStoreRaises(from, to) /\ TryColdStore(from, to)
    BY <2>2 DEF LoadRegionalEnergy
  <2>3. CASE ~ColdStoreRaises(from, to) /\ ~TryColdStore(from, to) /\ reachable /\ live
    BY <2>3 DEF LoadRegionalEnergy
  <2>4. CASE /\ ~ColdStoreRaises(from, to) /\ ~TryColdStore(from, to)
             /\ ~(reachable /\ live)
    BY <2>4 DEF LoadRegionalEnergy
  <2> QED
    BY <2>1, <2>2, <2>3, <2>4
<1>2. /\ series # {}
      /\ \A p \in series : /\ p[1] \in from .. to
                           /\ market[z][p[1]] = p[2] \/ <<z, p[1]>> \in revised
  <2>1. CASE TryColdStore(from, to) /\ loaded.of = [y \in ZoneSet |-> ReadColdStore(y, from, to)]
    <3>1. series = ReadColdStore(z, from, to) /\ series # {}
      BY <2>1 DEF TryColdStore
    <3>2. ASSUME NEW p \in ReadColdStore(z, from, to)
          PROVE  p[1] \in from .. to /\ (market[z][p[1]] = p[2] \/ <<z, p[1]>> \in revised)
      <4>1. PICK r \in store :
              /\ p = <<r.content.at, r.content.value, r.part>>
              /\ r.content.series = z /\ r.content.at \in from .. to
              /\ Sourced(r.content)
        BY ColdRows
      <4>2. p[1] = r.content.at /\ p[2] = r.content.value
        BY <4>1
      <4> QED
        BY <4>1, <4>2 DEF Sourced
    <3> QED
      BY <3>1, <3>2
  <2>2. CASE live /\ loaded.of = [y \in ZoneSet |-> Live(y, from, to)]
    <3>1. series = Live(z, from, to) /\ series # {}
      BY <2>2
    <3>2. \A p \in Live(z, from, to) : p[1] \in from .. to /\ market[z][p[1]] = p[2]
      BY DEF Live, InRange
    <3> QED
      BY <3>1, <3>2
  <2> QED
    BY <1>1, <2>1, <2>2
<1> HIDE DEF series
<1>3. /\ Filled(series, to) # {}
      /\ \A i \in from .. to : \A price \in Filled(series, i) :
           \E j \in from .. i : market[z][j] = price \/ <<z, j>> \in revised
  BY <1>2, RealSeries, Zenon
<1> QED
  BY <1>3, Zenon DEF series

\* A frame that is labelled real has for every region, from the first price of
\* the range on, a price that this region really had at or before the instant.
THEOREM FramesAreReal == Spec => []RealIsReal
<1> QED
  BY BackfillInvariant, LabelledIsReal, PTL
===============================================================================
