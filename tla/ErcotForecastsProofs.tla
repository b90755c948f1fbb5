-------------------------- MODULE ErcotForecastsProofs --------------------------
(***************************************************************************)
(* The store of forecasts as a time machine, for every calendar, every     *)
(* range and limit of a backfill, and whatever ERCOT publishes.            *)
(***************************************************************************)
EXTENDS ErcotForecasts, FiniteInduction

\* The series that can be asked for.
Series == Forecasts \union {"rtm_spp"}

Types ==
  /\ rtm \in RtmPaths
  /\ parts \in Nat /\ cursor \in Int /\ stop \in Int
  /\ fetched \in [Forecasts -> [Hours -> Instants \union {Never}]]
  /\ whole \in [Forecasts -> [Hours -> Instants \union {Never}]]

\* A report states what is ahead on the hour, once for each hour.
ReportsAreReports ==
  /\ \A r \in reports : /\ r \in ContentSet /\ r.series \in Forecasts
                        /\ r.at \in Hours /\ r.publish <= now
  /\ \A r, q \in reports : r.series = q.series /\ r.publish = q.publish /\ r.at = q.at => r = q

\* What was answered in full is there: all that was published before.
Holds(contents, full) ==
  \A s \in Forecasts, h \in Hours : full[s][h] # Never =>
    /\ full[s][h] <= now
    /\ \A r \in reports : r.series = s /\ r.at = h /\ r.publish < full[s][h] => r \in contents

FrameHolds == Holds(frame, fetched)
StoreHolds == Holds(Contents(store), whole)

\* The inductive invariant.
IInv == TypeOK /\ Types /\ ReportsAreReports /\ FrameHolds /\ StoreHolds
-------------------------------------------------------------------------------
(***************************************************************************)
(* The calendar.                                                           *)
(***************************************************************************)
LEMMA Quotients ==
  ASSUME NEW a \in Int, NEW d \in Nat \ {0}
  PROVE  /\ a \div d \in Int /\ (a \div d) * d <= a /\ a < (a \div d) * d + d
         /\ a % d = a - (a \div d) * d
OBVIOUS

LEMMA CalendarTypes ==
  /\ PerHour \in Nat \ {0} /\ HoursPerDay \in Nat \ {0} /\ Days \in Nat \ {0}
  /\ PerDay \in Nat \ {0} /\ Days * PerDay \in Nat
  /\ 0 \in Instants /\ Instants \subseteq Nat /\ Hours \subseteq Instants
  /\ Never \notin Instants /\ Never \in Int
<1>1. PerHour \in Nat \ {0} /\ HoursPerDay \in Nat \ {0} /\ Days \in Nat \ {0}
  BY ErcotAssumption
<1>2. PerDay \in Nat \ {0}
  BY <1>1 DEF PerDay
<1>3. Days * PerDay \in Nat
  BY <1>1, <1>2
<1> QED
  BY <1>1, <1>2, <1>3 DEF Instants, Hours, Never

LEMMA InstantsAreInts == \A t \in Instants \union {Never} : t \in Int
BY CalendarTypes
-------------------------------------------------------------------------------
(***************************************************************************)
(* The transport.                                                          *)
(***************************************************************************)
\* Mapper and parser give back what the service answered.
LEMMA ParsedAsStated ==
  ASSUME ReportsAreReports, NEW s, NEW rows \in SUBSET Dataset(s)
  PROVE  Parse(s, Canonical(rows)) = rows
<1>1. \A r \in rows : r = Content(s, r.publish, r.at, r.value)
  <2>1. CASE s = "rtm_spp"
    BY <2>1 DEF Dataset, Realized, Content
  <2>2. CASE s # "rtm_spp"
    BY <2>2 DEF Dataset, ReportsAreReports, ContentSet, Content
  <2> QED
    BY <2>1, <2>2
<1>2. \A r \in rows : [interval |-> r.at, published |-> r.publish, mw |-> r.value] \in Canonical(rows)
  BY DEF Canonical
<1>3. \A c \in Canonical(rows) : \E r \in rows :
        c.published = r.publish /\ c.interval = r.at /\ c.mw = r.value
  BY DEF Canonical
<1>4. ASSUME NEW r \in rows PROVE r \in Parse(s, Canonical(rows))
  <2> DEFINE c == [interval |-> r.at, published |-> r.publish, mw |-> r.value]
  <2>1. c \in Canonical(rows) /\ c.interval = r.at /\ c.published = r.publish /\ c.mw = r.value
    BY <1>2
  <2> HIDE DEF c
  <2>2. Content(s, c.published, c.interval, c.mw) = r
    BY <1>1, <2>1
  <2> QED
    BY <2>1, <2>2, Zenon DEF Parse
<1>5. ASSUME NEW q \in Parse(s, Canonical(rows)) PROVE q \in rows
  <2>1. PICK c \in Canonical(rows) : q = Content(s, c.published, c.interval, c.mw)
    BY <1>5, Zenon DEF Parse
  <2>2. PICK r \in rows : c.published = r.publish /\ c.interval = r.at /\ c.mw = r.value
    BY <1>3
  <2> QED
    BY <1>1, <2>1, <2>2
<1> QED
  BY <1>4, <1>5

\* An answer holds nothing else than what was asked for.
LEMMA AnswersAreAsked ==
  ASSUME NEW s, NEW from, NEW to, NEW limit, NEW rows \in GetDataset(s, from, to, limit)
  PROVE  rows \subseteq Asked(s, from, to) /\ rows \in SUBSET Dataset(s)
BY DEF GetDataset, kSubset, Asked
-------------------------------------------------------------------------------
(***************************************************************************)
(* The invariant.                                                          *)
(***************************************************************************)
LEMMA InitInv == Init => IInv
<1> SUFFICES ASSUME Init PROVE IInv
  OBVIOUS
<1> USE CalendarTypes
<1>1. TypeOK
  BY ErcotAssumption DEF Init, TypeOK, Contents, Order
<1>2. Types
  BY DEF Init, Types, NoFetch
<1>3. ReportsAreReports /\ FrameHolds /\ StoreHolds
  BY DEF Init, ReportsAreReports, FrameHolds, StoreHolds, Holds, NoFetch
<1> QED
  BY <1>1, <1>2, <1>3 DEF IInv

\* What is realized stays so.
LEMMA RealizedGrows ==
  ASSUME Types, now \in Int, now' \in Int, now <= now', rtm' = rtm
  PROVE  Realized \subseteq Realized'
<1>1. rtm \in [0 .. Days * PerDay - 1 -> Nat]
  BY ErcotAssumption DEF Types
<1>2. \A q \in DOMAIN rtm : q < now => q < now'
  BY <1>1, CalendarTypes
<1>3. Realized = {Content("rtm_spp", q, q, rtm[q]) : q \in {p \in DOMAIN rtm : p < now}}
  BY Zenon DEF Realized
<1>4. Realized' = {Content("rtm_spp", q, q, rtm[q]) : q \in {p \in DOMAIN rtm : p < now'}}
  BY Zenon DEF Realized, Content
<1> QED
  BY <1>2, <1>3, <1>4

LEMMA TickInv == IInv /\ Tick => IInv'
<1> SUFFICES ASSUME IInv, Tick PROVE IInv'
  OBVIOUS
<1> USE DEF IInv
<1>1. now' = now + PerHour /\ now' \in Instants /\ now \in Nat /\ now <= now'
  BY CalendarTypes DEF Tick, TypeOK
<1>2. /\ UNCHANGED <<rtm, reports, store, parts, cursor, stop, position, frame, fetched, runs, whole>>
  BY DEF Tick, run
<1>3. Realized \subseteq Realized'
  BY <1>1, <1>2, RealizedGrows, CalendarTypes
<1>4. TypeOK'
  BY <1>1, <1>2, <1>3 DEF TypeOK, ChunkEnd
<1>5. Types'
  BY <1>2 DEF Types
<1>6. ReportsAreReports'
  <2>1. \A r \in reports : r.publish \in Int
    BY InstantsAreInts DEF ReportsAreReports, ContentSet
  <2>2. \A r \in reports : r.publish <= now'
    BY <1>1, <2>1 DEF ReportsAreReports
  <2> QED
    BY <1>2, <2>2 DEF ReportsAreReports
<1>7. FrameHolds' /\ StoreHolds'
  <2>1. \A s \in Forecasts, h \in Hours :
          /\ fetched[s][h] \in Instants \union {Never}
          /\ whole[s][h] \in Instants \union {Never}
    BY DEF Types
  <2>2. \A t \in Instants \union {Never} : t \in Int
    BY InstantsAreInts
  <2>3. now \in Int /\ now' \in Int
    BY <1>1, CalendarTypes
  <2>4. \A t \in Int : t <= now => t <= now'
    BY <1>1, <2>3
  <2>5. \A s \in Forecasts, h \in Hours : fetched[s][h] \in Int /\ whole[s][h] \in Int
    BY <2>1, <2>2
  <2>6. FrameHolds'
    BY <1>2, <2>4, <2>5 DEF FrameHolds, Holds
  <2>7. StoreHolds'
    BY <1>2, <2>4, <2>5 DEF StoreHolds, Holds, Contents
  <2> QED
    BY <2>6, <2>7
<1> QED
  BY <1>4, <1>5, <1>6, <1>7

LEMMA PublishInv == ASSUME NEW s \in Forecasts PROVE IInv /\ Publish(s) => IInv'
<1> SUFFICES ASSUME IInv, Publish(s) PROVE IInv'
  OBVIOUS
<1> USE DEF IInv
<1>1. PICK mw \in Profiles[s] :
        reports' = reports \union
          {Content(s, now, h, mw[h]) : h \in {g \in Hours : now < g /\ g <= now + Horizon * PerHour}}
  BY DEF Publish
<1>2. /\ UNCHANGED <<now, rtm, store, parts, cursor, stop, position, frame, fetched, runs, whole>>
      /\ \A r \in reports : r.series = s => r.publish < now
  BY DEF Publish, run
<1>3. mw \in [Hours -> Nat] /\ now \in Instants /\ now \in Int
  BY ErcotAssumption, CalendarTypes DEF TypeOK
<1>4. \A r \in reports' : r \in reports \/ \E h \in Hours : r = Content(s, now, h, mw[h])
  BY <1>1
<1>5. \A h \in Hours : Content(s, now, h, mw[h]) \in ContentSet
  BY <1>3, CalendarTypes DEF Content, ContentSet
<1>6. TypeOK'
  <2>1. reports \subseteq reports' /\ Realized' = Realized
    BY <1>1, <1>2 DEF Realized
  <2>2. reports' \subseteq ContentSet
    BY <1>4, <1>5 DEF TypeOK
  <2> QED
    BY <1>2, <2>1, <2>2 DEF TypeOK, ChunkEnd
<1>7. Types'
  BY <1>2 DEF Types
<1>8. ReportsAreReports'
  <2>1. ASSUME NEW r \in reports'
        PROVE  r \in ContentSet /\ r.series \in Forecasts /\ r.at \in Hours /\ r.publish <= now'
    <3>1. CASE r \in reports
      BY <1>2, <3>1 DEF ReportsAreReports
    <3>2. CASE \E h \in Hours : r = Content(s, now, h, mw[h])
      BY <1>2, <1>3, <1>5, <3>2 DEF Content
    <3> QED
      BY <1>4, <3>1, <3>2
  <2>2. ASSUME NEW r \in reports', NEW q \in reports',
               r.series = q.series, r.publish = q.publish, r.at = q.at
        PROVE  r = q
    <3>1. \A x \in reports : x.series = s => ~ (x.publish = now)
      BY <1>2, <1>3
    <3>2. \A x \in reports' : x \in reports \/ (x.series = s /\ x.publish = now /\ x = Content(s, now, x.at, mw[x.at]))
      BY <1>4 DEF Content
    <3>3. CASE r \in reports /\ q \in reports
      BY <2>2, <3>3 DEF ReportsAreReports
    <3>4. CASE r \notin reports \/ q \notin reports
      <4>1. /\ r = Content(s, now, r.at, mw[r.at])
            /\ q = Content(s, now, q.at, mw[q.at])
        BY <2>2, <3>1, <3>2, <3>4
      <4> QED
        BY <2>2, <4>1
    <3> QED
      BY <3>3, <3>4
  <2> QED
    BY <2>1, <2>2 DEF ReportsAreReports
<1>9. \A x \in reports' : x \in reports \/ x.publish = now
  BY <1>4 DEF Content
<1>10. ASSUME NEW contents, NEW full \in [Forecasts -> [Hours -> Instants \union {Never}]],
              Holds(contents, full), NEW z \in Forecasts, NEW h \in Hours, full[z][h] # Never
       PROVE  /\ full[z][h] <= now
              /\ \A r \in reports' : r.series = z /\ r.at = h /\ r.publish < full[z][h] => r \in contents
  <2>1. full[z][h] \in Int /\ full[z][h] <= now
    <3>1. full[z][h] \in Instants \union {Never}
      OBVIOUS
    <3> QED
      BY <1>10, <3>1, InstantsAreInts DEF Holds
  <2>2. ASSUME NEW r \in reports', r.series = z, r.at = h, r.publish < full[z][h] PROVE r \in contents
    <3>1. r \in reports
      BY <1>3, <1>9, <2>1, <2>2
    <3> QED
      BY <1>10, <2>2, <3>1 DEF Holds
  <2> QED
    BY <2>1, <2>2
<1>11. FrameHolds'
  BY <1>2, <1>10 DEF FrameHolds, Holds, Types
<1>12. StoreHolds'
  <2>1. Contents(store)' = Contents(store)
    BY <1>2 DEF Contents
  <2> QED
    BY <1>2, <1>10, <2>1 DEF StoreHolds, Holds, Types
<1> QED
  BY <1>6, <1>7, <1>8, <1>11, <1>12

\* A chunk that begins holds nothing yet.
LEMMA ChunkInv ==
  ASSUME IInv, UNCHANGED <<now, rtm, reports>>, NEW from \in Int, NEW to \in Int,
         \/ NextChunk(from, to) /\ from < to
         \/ End
  PROVE  /\ FrameHolds' /\ ReportsAreReports'
         /\ position' \in 0 .. Len(Order) + 1
         /\ position' > 0 => cursor' < ChunkEnd' /\ ChunkEnd' <= stop'
         /\ cursor' \in Int /\ stop' \in Int /\ frame' = {}
         /\ fetched' \in [Forecasts -> [Hours -> Instants \union {Never}]]
<1> USE DEF IInv
<1>1. frame' = {} /\ fetched' = [s \in Forecasts |-> NoFetch]
  BY DEF NextChunk, End
<1>2. FrameHolds' /\ fetched' \in [Forecasts -> [Hours -> Instants \union {Never}]]
  BY <1>1 DEF FrameHolds, Holds, NoFetch
<1>3. ReportsAreReports'
  BY DEF ReportsAreReports
<1>4. CASE NextChunk(from, to) /\ from < to
  <2>1. Chunk \in Nat \ {0}
    BY ErcotAssumption
  <2>2. cursor' = from /\ stop' = to /\ position' = 1 /\ from < to
    BY <1>4 DEF NextChunk
  <2>3. ChunkEnd' = IF from + Chunk < to THEN from + Chunk ELSE to
    BY <2>2 DEF ChunkEnd
  <2> QED
    BY <1>1, <1>2, <1>3, <2>1, <2>2, <2>3 DEF Order
<1>5. CASE End
  BY <1>1, <1>2, <1>3, <1>5 DEF End, Order
<1> QED
  BY <1>4, <1>5

LEMMA StartInv == IInv /\ Start => IInv'
<1> SUFFICES ASSUME IInv, Start PROVE IInv'
  OBVIOUS
<1> USE DEF IInv
<1>1. UNCHANGED <<now, rtm, reports, store, parts, whole>> /\ runs' = runs + 1 /\ runs < MaxRuns
  BY DEF Start
<1>2. PICK range \in Ranges : range[1] < range[2] /\ NextChunk(range[1], range[2])
  BY DEF Start
<1>3. range[1] \in Int /\ range[2] \in Int
  <2>1. range \in Instants \X Instants
    BY ErcotAssumption
  <2> QED
    BY <2>1, InstantsAreInts
<1>4. /\ FrameHolds' /\ ReportsAreReports'
      /\ position' \in 0 .. Len(Order) + 1
      /\ position' > 0 => cursor' < ChunkEnd' /\ ChunkEnd' <= stop'
      /\ cursor' \in Int /\ stop' \in Int /\ frame' = {}
      /\ fetched' \in [Forecasts -> [Hours -> Instants \union {Never}]]
  BY <1>1, <1>2, <1>3, ChunkInv
<1>5. TypeOK'
  <2>1. runs' \in 0 .. MaxRuns
    BY <1>1, ErcotAssumption DEF TypeOK
  <2>2. Contents(store)' = Contents(store) /\ Realized' = Realized
    BY <1>1 DEF Contents, Realized
  <2> QED
    BY <1>1, <1>4, <2>1, <2>2 DEF TypeOK
<1>6. Types'
  BY <1>1, <1>4 DEF Types
<1>7. StoreHolds'
  BY <1>1 DEF StoreHolds, Holds, Contents
<1> QED
  BY <1>4, <1>5, <1>6, <1>7

LEMMA AbortInv == IInv /\ Abort => IInv'
<1> SUFFICES ASSUME IInv, Abort PROVE IInv'
  OBVIOUS
<1> USE DEF IInv
<1>1. UNCHANGED <<now, rtm, reports, store, parts, whole, runs>> /\ End
  BY DEF Abort
<1>4. /\ FrameHolds' /\ ReportsAreReports'
      /\ position' \in 0 .. Len(Order) + 1
      /\ position' > 0 => cursor' < ChunkEnd' /\ ChunkEnd' <= stop'
      /\ cursor' \in Int /\ stop' \in Int /\ frame' = {}
      /\ fetched' \in [Forecasts -> [Hours -> Instants \union {Never}]]
  <2>1. 0 \in Int
    OBVIOUS
  <2> QED
    BY <1>1, <2>1, ChunkInv
<1>5. TypeOK'
  <2>2. Contents(store)' = Contents(store) /\ Realized' = Realized
    BY <1>1 DEF Contents, Realized
  <2> QED
    BY <1>1, <1>4, <2>2 DEF TypeOK
<1>6. Types'
  BY <1>1, <1>4 DEF Types
<1>7. StoreHolds'
  BY <1>1 DEF StoreHolds, Holds, Contents
<1> QED
  BY <1>4, <1>5, <1>6, <1>7

LEMMA FetchInv == IInv /\ Fetch => IInv'
<1> SUFFICES ASSUME IInv, Fetch PROVE IInv'
  OBVIOUS
<1> USE DEF IInv
<1> DEFINE s == Order[position]
           asked == Asked(s, cursor, ChunkEnd)
<1>1. PICK rows \in GetDataset(s, cursor, ChunkEnd, Limits["backfill"]) :
        /\ frame' = frame \union Parse(s, Canonical(rows))
        /\ fetched' = IF s \in Forecasts /\ rows = asked
                      THEN [fetched EXCEPT ![s] =
                              [h \in Hours |-> IF h \in Span(cursor, ChunkEnd) THEN now ELSE Never]]
                      ELSE fetched
  BY DEF Fetch
<1>2. /\ UNCHANGED <<now, rtm, reports, store, parts, cursor, stop, runs, whole>>
      /\ position' = position + 1 /\ position \in 1 .. Len(Order)
  BY DEF Fetch, Order
<1>3. rows \subseteq asked /\ rows \in SUBSET Dataset(s)
  BY AnswersAreAsked
<1>4. frame' = frame \union rows
  BY <1>1, <1>3, ParsedAsStated
<1>5. Dataset(s) \subseteq reports \union Realized
  BY DEF Dataset
<1>6. Contents(store)' = Contents(store) /\ Realized' = Realized
  BY <1>2 DEF Contents, Realized
<1>7. TypeOK'
  <2>1. position' \in 0 .. Len(Order) + 1 /\ position > 0
    BY <1>2 DEF TypeOK, Order
  <2>2. ChunkEnd' = ChunkEnd
    BY <1>2 DEF ChunkEnd
  <2> HIDE DEF s
  <2> QED
    BY <1>2, <1>3, <1>4, <1>5, <1>6, <2>1, <2>2 DEF TypeOK
<1>8. Types'
  <2>1. now \in Instants
    BY DEF TypeOK
  <2> HIDE DEF s, asked
  <2>2. fetched' \in [Forecasts -> [Hours -> Instants \union {Never}]]
    BY <1>1, <2>1 DEF Types
  <2> QED
    BY <1>2, <2>2 DEF Types
<1>9. ReportsAreReports'
  BY <1>2 DEF ReportsAreReports
<1>10. FrameHolds'
  <2> HIDE DEF s, asked
  <2> SUFFICES ASSUME NEW z \in Forecasts, NEW h \in Hours, fetched'[z][h] # Never
               PROVE  /\ fetched'[z][h] <= now
                      /\ \A r \in reports : r.series = z /\ r.at = h /\ r.publish < fetched'[z][h]
                                              => r \in frame'
    BY <1>2 DEF FrameHolds, Holds
  <2>1. CASE fetched'[z][h] = fetched[z][h]
    BY <1>4, <2>1 DEF FrameHolds, Holds
  <2>2. CASE fetched'[z][h] # fetched[z][h]
    <3>1. s \in Forecasts /\ rows = asked
      BY <1>1, <2>2
    <3>2. fetched' = [fetched EXCEPT ![s] =
                        [g \in Hours |-> IF g \in Span(cursor, ChunkEnd) THEN now ELSE Never]]
      BY <1>1, <3>1
    <3>3. z = s
      BY <2>2, <3>2 DEF Types
    <3>4. fetched'[z][h] = IF h \in Span(cursor, ChunkEnd) THEN now ELSE Never
      BY <3>2, <3>3 DEF Types
    <3>5. h \in Span(cursor, ChunkEnd) /\ fetched'[z][h] = now
      BY <3>4
    <3>6. now <= now
      BY InstantsAreInts DEF TypeOK
    <3>7. ASSUME NEW r \in reports, r.series = z, r.at = h PROVE r \in frame'
      <4>1. s # "rtm_spp"
        BY <3>1 DEF Forecasts
      <4>2. r \in Dataset(s)
        BY <3>3, <3>7, <4>1 DEF Dataset
      <4>3. r \in asked
        BY <3>5, <3>7, <4>2 DEF asked, Asked
      <4> QED
        BY <1>4, <3>1, <4>3
    <3> QED
      BY <3>5, <3>6, <3>7
  <2> QED
    BY <2>1, <2>2
<1>11. StoreHolds'
  BY <1>2, <1>6 DEF StoreHolds, Holds
<1> QED
  BY <1>7, <1>8, <1>9, <1>10, <1>11

\* What a write leaves in the store: what was there, and the frame.
LEMMA WrittenContents ==
  ASSUME NEW rows, NEW contents, NEW part
  PROVE  Contents(rows \union [content : New(rows, contents), part : {part}])
           = Contents(rows) \union contents
<1> DEFINE after == rows \union [content : New(rows, contents), part : {part}]
<1>1. \A r \in after : r \in rows \/ r.content \in contents
  BY DEF New
<1>2. \A c \in contents : c \in Contents(rows) \/ [content |-> c, part |-> part] \in after
  BY DEF New
<1>3. \A c \in Contents(after) : \E r \in after : c = r.content
  BY DEF Contents
<1>4. \A r \in after : r.content \in Contents(after)
  BY DEF Contents
<1>5. \A r \in rows : r.content \in Contents(rows) /\ r \in after
  BY DEF Contents
<1>6. \A c \in Contents(rows) : \E r \in rows : c = r.content
  BY DEF Contents
<1> HIDE DEF after
<1>7. Contents(after) \subseteq Contents(rows) \union contents
  BY <1>1, <1>3, <1>5
<1>8. Contents(rows) \subseteq Contents(after)
  BY <1>4, <1>5, <1>6
<1>9. \A c \in contents : c \in Contents(after)
  <2> SUFFICES ASSUME NEW c \in contents, c \notin Contents(rows) PROVE c \in Contents(after)
    BY <1>8
  <2> DEFINE r == [content |-> c, part |-> part]
  <2>1. r \in after /\ r.content = c
    BY <1>2
  <2> HIDE DEF r
  <2> QED
    BY <1>4, <2>1
<1> QED
  BY <1>7, <1>8, <1>9 DEF after

LEMMA WriteInv == IInv /\ Write => IInv'
<1> SUFFICES ASSUME IInv, Write PROVE IInv'
  OBVIOUS
<1> USE DEF IInv
<1>1. /\ UNCHANGED <<now, rtm, reports, runs>>
      /\ store' = store \union [content : New(store, frame), part : {parts + 1}]
      /\ parts' = parts + (IF New(store, frame) = {} THEN 0 ELSE 1)
      /\ whole' = [s \in Forecasts |-> [h \in Hours |->
                     IF fetched[s][h] # Never THEN fetched[s][h] ELSE whole[s][h]]]
      /\ IF ChunkEnd < stop THEN NextChunk(ChunkEnd, stop) ELSE End
  BY DEF Write
<1>2. Contents(store') = Contents(store) \union frame
  BY <1>1, WrittenContents
<1>3. ChunkEnd \in Int
  BY ErcotAssumption DEF Types, ChunkEnd
<1>4. /\ FrameHolds' /\ ReportsAreReports'
      /\ position' \in 0 .. Len(Order) + 1
      /\ position' > 0 => cursor' < ChunkEnd' /\ ChunkEnd' <= stop'
      /\ cursor' \in Int /\ stop' \in Int /\ frame' = {}
      /\ fetched' \in [Forecasts -> [Hours -> Instants \union {Never}]]
  <2> DEFINE from == ChunkEnd
             to == stop
  <2>1. /\ from \in Int /\ to \in Int
        /\ \/ NextChunk(from, to) /\ from < to
           \/ End
    BY <1>1, <1>3 DEF Types
  <2> HIDE DEF from, to
  <2> QED
    BY <1>1, <2>1, ChunkInv
<1>5. TypeOK'
  <2>1. ASSUME NEW r \in store' PROVE r.part \in 1 .. parts'
    <3>1. CASE r \in store
      BY <1>1, <3>1 DEF TypeOK, Types
    <3>2. CASE r \notin store
      <4>1. r.part = parts + 1 /\ New(store, frame) # {}
        BY <1>1, <3>2
      <4> QED
        BY <1>1, <4>1 DEF Types
    <3> QED
      BY <3>1, <3>2
  <2>2. Contents(store)' = Contents(store) \union frame /\ Realized' = Realized
    BY <1>1, <1>2 DEF Realized, Contents
  <2> QED
    BY <1>1, <1>4, <2>1, <2>2 DEF TypeOK
<1>6. Types'
  <2>1. whole' \in [Forecasts -> [Hours -> Instants \union {Never}]]
    BY <1>1 DEF Types
  <2> QED
    BY <1>1, <1>4, <2>1 DEF Types
<1>7. StoreHolds'
  <2> SUFFICES ASSUME NEW s \in Forecasts, NEW h \in Hours, whole'[s][h] # Never
               PROVE  /\ whole'[s][h] <= now
                      /\ \A r \in reports : r.series = s /\ r.at = h /\ r.publish < whole'[s][h]
                                              => r \in Contents(store')
    BY <1>1 DEF StoreHolds, Holds, Contents
  <2>1. whole'[s][h] = IF fetched[s][h] # Never THEN fetched[s][h] ELSE whole[s][h]
    BY <1>1
  <2> QED
    BY <1>2, <2>1 DEF FrameHolds, StoreHolds, Holds
<1> QED
  BY <1>4, <1>5, <1>6, <1>7

\* The invariant holds in every reachable state.
THEOREM ForecastInvariant == Spec => []IInv
<1>1. IInv /\ [Next]_vars => IInv'
  <2> SUFFICES ASSUME IInv, [Next]_vars PROVE IInv'
    OBVIOUS
  <2>1. CASE UNCHANGED vars
    <3>1. UNCHANGED <<now, rtm, reports, store, parts, cursor, stop, position, frame, fetched, runs, whole>>
      BY <2>1 DEF vars, run
    <3> QED
      BY <3>1 DEF IInv, TypeOK, Types, ReportsAreReports, FrameHolds, StoreHolds, Holds,
                  Contents, Realized, ChunkEnd
  <2> QED
    BY <2>1, TickInv, StartInv, FetchInv, WriteInv, AbortInv, PublishInv DEF Next
<1> QED
  BY <1>1, InitInv, PTL DEF Spec

\* Nothing is stored, through mapper and parser, that ERCOT did not state.
THEOREM ForecastTypes == Spec => []TypeOK
<1>1. IInv => TypeOK
  BY DEF IInv
<1> QED
  BY <1>1, ForecastInvariant, PTL
-------------------------------------------------------------------------------
(***************************************************************************)
(* What is known at an instant.                                            *)
(***************************************************************************)
\* What had been stated of an hour.
Stated(s, h, asOf) == {r \in reports : r.series = s /\ r.at = h /\ r.publish <= asOf}
Latest(known) == {q \in known : \A p \in known : p.publish <= q.publish}

\* Of what was stated of an hour, one report is the latest.
LEMMA OneIsLatest ==
  ASSUME ReportsAreReports, NEW s, NEW h, NEW asOf \in Int
  PROVE  /\ Knowledge(s, h, asOf) = {r.value : r \in Latest(Stated(s, h, asOf))}
         /\ Stated(s, h, asOf) # {} => Cardinality(Knowledge(s, h, asOf)) = 1
         /\ Stated(s, h, asOf) = {} <=> Knowledge(s, h, asOf) = {}
<1> DEFINE K == Stated(s, h, asOf)
<1>1. Knowledge(s, h, asOf) = {r.value : r \in Latest(K)}
  BY Zenon DEF Knowledge, Stated, Latest
<1>2. /\ \A r \in K : r.publish \in Nat /\ r.publish <= asOf
      /\ \A r, q \in K : r.publish = q.publish => r = q
  BY CalendarTypes DEF Stated, ReportsAreReports, ContentSet
<1> HIDE DEF K
<1>3. ASSUME K # {} PROVE \E q \in K : Latest(K) = {q}
  <2> DEFINE ages == {asOf - r.publish : r \in K}
  <2>1. ages \in SUBSET Nat /\ ages # {}
    BY <1>2, <1>3
  <2>2. PICK age \in ages : \A a \in ages : age <= a
    BY <2>1, LeastExists, Zenon
  <2>3. PICK q \in K : age = asOf - q.publish
    BY <2>2
  <2>4. ASSUME NEW p \in K PROVE p.publish <= q.publish
    <3>1. asOf - q.publish <= asOf - p.publish
      BY <2>2, <2>3
    <3> QED
      BY <1>2, <3>1
  <2>5. q \in Latest(K)
    BY <2>4 DEF Latest
  <2>6. ASSUME NEW p \in Latest(K) PROVE p = q
    <3>1. p \in K /\ q.publish <= p.publish /\ p.publish <= q.publish
      BY <2>4, <2>6 DEF Latest
    <3> QED
      BY <1>2, <3>1
  <2> QED
    BY <2>5, <2>6
<1>4. ASSUME K # {} PROVE \E v : Knowledge(s, h, asOf) = {v}
  <2> PICK q \in K : Latest(K) = {q}
    BY <1>3, <1>4
  <2>1. {r.value : r \in Latest(K)} = {q.value}
    OBVIOUS
  <2> QED
    BY <1>1, <2>1
<1>5. K # {} => Cardinality(Knowledge(s, h, asOf)) = 1 /\ Knowledge(s, h, asOf) # {}
  BY <1>4, FS_Singleton
<1>6. K = {} => Knowledge(s, h, asOf) = {}
  BY <1>1 DEF Latest
<1> QED
  BY <1>1, <1>5, <1>6 DEF K

\* Rows that hold of an hour what was stated of it in time give what was known.
LEMMA SnapshotIsKnowledge ==
  ASSUME ReportsAreReports, NEW rows, NEW s, NEW h, NEW asOf \in Int,
         {c \in Contents(rows) : c.at = h /\ c.publish <= asOf} = Stated(s, h, asOf)
  PROVE  LET view == AsOfSnapshot(rows, asOf)
         IN  /\ h \in DOMAIN view <=> Knowledge(s, h, asOf) # {}
             /\ h \in DOMAIN view => view[h] = Knowledge(s, h, asOf) /\ Cardinality(view[h]) = 1
<1> DEFINE K == Stated(s, h, asOf)
           view == AsOfSnapshot(rows, asOf)
           known == Known(rows, asOf)
           last == {q \in known :
                      /\ q.content.at = h
                      /\ \A p \in known : p.content.at = h => p.content.publish <= q.content.publish}
<1>1. \A c : c \in K <=> \E r \in known : r.content = c /\ c.at = h
  BY DEF Contents, Known
<1>2. h \in DOMAIN view <=> K # {}
  <2>1. DOMAIN view = {r.content.at : r \in known}
    BY DEF AsOfSnapshot
  <2> HIDE DEF K, known
  <2> QED
    BY <1>1, <2>1
<1>3. h \in DOMAIN view => view[h] = {r.content.value : r \in last}
  BY Zenon DEF AsOfSnapshot
<1>4. {r.content.value : r \in last} = {r.value : r \in Latest(K)}
  <2> HIDE DEF K, known
  <2>1. ASSUME NEW r \in last PROVE r.content \in Latest(K)
    BY <1>1 DEF Latest
  <2>2. ASSUME NEW q \in Latest(K) PROVE \E r \in last : r.content = q
    <3>1. q \in K /\ \A p \in K : p.publish <= q.publish
      BY DEF Latest
    <3>2. PICK r \in known : r.content = q /\ q.at = h
      BY <1>1, <3>1
    <3>3. \A p \in known : p.content.at = h => p.content \in K
      BY <1>1
    <3> QED
      BY <3>1, <3>2, <3>3
  <2> HIDE DEF last
  <2> QED
    BY <2>1, <2>2
<1> HIDE DEF K, view, last
<1>5. /\ Knowledge(s, h, asOf) = {r.value : r \in Latest(K)}
      /\ K # {} => Cardinality(Knowledge(s, h, asOf)) = 1
      /\ K = {} <=> Knowledge(s, h, asOf) = {}
  BY OneIsLatest DEF K
<1>6. h \in DOMAIN view => view[h] = Knowledge(s, h, asOf)
  BY <1>3, <1>4, <1>5
<1>7. h \in DOMAIN view <=> Knowledge(s, h, asOf) # {}
  BY <1>2, <1>5
<1>8. h \in DOMAIN view => Cardinality(view[h]) = 1
  BY <1>2, <1>5, <1>6
<1> QED
  BY <1>6, <1>7, <1>8 DEF view

\* The store holds in time what had been stated of an hour that is whole.
LEMMA StoredIsStated ==
  ASSUME IInv, NEW s \in Forecasts, NEW h \in Hours, NEW asOf \in Int, Never <= asOf,
         asOf < whole[s][h]
  PROVE  {c \in Contents(Read(store, s)) : c.at = h /\ c.publish <= asOf} = Stated(s, h, asOf)
<1> USE DEF IInv
<1>1. \A c : c \in Contents(Read(store, s)) <=> c \in Contents(store) /\ c.series = s
  BY DEF Contents, Read
<1>2. whole[s][h] # Never /\ whole[s][h] \in Int
  <2>1. whole[s][h] \in Instants \union {Never}
    BY DEF Types
  <2> QED
    BY <2>1, InstantsAreInts
<1>3. ASSUME NEW c \in Contents(store), c.series = s PROVE c \in reports
  <2>1. s # "rtm_spp"
    BY DEF Forecasts
  <2>2. c \in reports \union Realized
    BY DEF TypeOK
  <2>3. c \notin Realized
    BY <1>3, <2>1 DEF Realized, Content
  <2> QED
    BY <2>2, <2>3
<1>4. ASSUME NEW r \in Stated(s, h, asOf) PROVE r \in Contents(store)
  <2>1. r \in reports /\ r.series = s /\ r.at = h /\ r.publish <= asOf /\ r.publish \in Int
    BY InstantsAreInts DEF Stated, ReportsAreReports, ContentSet
  <2>2. r.publish < whole[s][h]
    BY <1>2, <2>1
  <2> QED
    BY <1>2, <2>1, <2>2 DEF StoreHolds, Holds
<1> QED
  BY <1>1, <1>3, <1>4 DEF Stated

\* The store as of any instant is what was known then.
THEOREM ViewsAreKnowledge == Spec => []ViewIsKnowledge
<1>1. IInv => ViewIsKnowledge
  <2> SUFFICES ASSUME IInv, NEW s \in Forecasts, NEW asOf \in Hours, NEW h \in Hours,
                      asOf < whole[s][h]
               PROVE  LET view == AsOfSnapshot(Read(store, s), asOf)
                      IN  IF h \in DOMAIN view
                          THEN view[h] = Knowledge(s, h, asOf) /\ Cardinality(view[h]) = 1
                          ELSE Knowledge(s, h, asOf) = {}
    BY Zenon DEF ViewIsKnowledge
  <2>1. asOf \in Int /\ Never <= asOf
    BY CalendarTypes DEF Never
  <2>2. {c \in Contents(Read(store, s)) : c.at = h /\ c.publish <= asOf} = Stated(s, h, asOf)
    BY <2>1, StoredIsStated
  <2> DEFINE view == AsOfSnapshot(Read(store, s), asOf)
  <2>3. /\ h \in DOMAIN view <=> Knowledge(s, h, asOf) # {}
        /\ h \in DOMAIN view => view[h] = Knowledge(s, h, asOf) /\ Cardinality(view[h]) = 1
    BY <2>1, <2>2, SnapshotIsKnowledge DEF IInv
  <2> QED
    BY <2>3
<1> QED
  BY <1>1, ForecastInvariant, PTL
-------------------------------------------------------------------------------
(***************************************************************************)
(* The training set.                                                       *)
(***************************************************************************)
\* Rows about hours.
LEMMA RowsAreOfInstants ==
  ASSUME IInv, NEW r \in store
  PROVE  r.content.at \in Nat
<1>1. r.content \in reports \union Realized
  BY DEF IInv, TypeOK, Contents
<1>2. \A c \in reports : c.at \in Nat
  BY CalendarTypes DEF IInv, ReportsAreReports
<1>3. \A c \in Realized : c.at \in Nat
  <2>1. DOMAIN rtm = 0 .. Days * PerDay - 1
    BY ErcotAssumption DEF IInv, Types
  <2> QED
    BY <2>1, CalendarTypes DEF Realized, Content
<1> QED
  BY <1>1, <1>2, <1>3

LEMMA HourOfQuarter ==
  ASSUME NEW t \in Nat
  PROVE  HourOf(t) \in Int /\ HourOf(t) <= t /\ t < HourOf(t) + PerHour
BY CalendarTypes, Quotients DEF HourOf

\* The rows of an hour decide its price.
LEMMA SameHour ==
  ASSUME NEW A, NEW B, NEW h, QuartersOf(A, h) = QuartersOf(B, h)
  PROVE  Hourly(A, h) = Hourly(B, h)
BY Zenon DEF Hourly

\* Of a snapshot, an hour depends on the rows about it.
LEMMA SameSnapshot ==
  ASSUME NEW A, NEW B, NEW asOf, NEW h,
         {r \in Known(A, asOf) : r.content.at = h} = {r \in Known(B, asOf) : r.content.at = h}
  PROVE  /\ h \in DOMAIN AsOfSnapshot(A, asOf) <=> h \in DOMAIN AsOfSnapshot(B, asOf)
         /\ h \in DOMAIN AsOfSnapshot(A, asOf) =>
              AsOfSnapshot(A, asOf)[h] = AsOfSnapshot(B, asOf)[h]
<1> DEFINE Last(rows) == {q \in Known(rows, asOf) :
                            /\ q.content.at = h
                            /\ \A p \in Known(rows, asOf) : p.content.at = h =>
                                 p.content.publish <= q.content.publish}
           About(rows) == {r \in Known(rows, asOf) : r.content.at = h}
<1>1. \A rows : h \in DOMAIN AsOfSnapshot(rows, asOf) <=> About(rows) # {}
  BY DEF AsOfSnapshot
<1>2. \A rows : h \in DOMAIN AsOfSnapshot(rows, asOf) =>
        AsOfSnapshot(rows, asOf)[h] = {r.content.value : r \in Last(rows)}
  BY Zenon DEF AsOfSnapshot
<1>3. \A rows : Last(rows) = {q \in About(rows) : \A p \in About(rows) : p.content.publish <= q.content.publish}
  OBVIOUS
<1>4. About(A) = About(B)
  OBVIOUS
<1>5. Last(A) = Last(B)
  <2> HIDE DEF About, Last
  <2> QED
    BY <1>3, <1>4
<1> HIDE DEF About, Last
<1> QED
  BY <1>1, <1>2, <1>4, <1>5

\* The ramp into an hour.
Ramp(known, h) == The(known[h]) - The(known[Max(Before(h, known))])

LEMMA GradientAt ==
  ASSUME NEW known, NEW h
  PROVE  /\ h \in DOMAIN Gradient(known) <=> h \in DOMAIN known /\ Before(h, known) # {}
         /\ h \in DOMAIN Gradient(known) => Gradient(known)[h] = Ramp(known, h)
<1> DEFINE D == {g \in DOMAIN known : Before(g, known) # {}}
<1>1. Gradient(known) = [g \in D |-> Ramp(known, g)]
  BY Zenon DEF Gradient, Ramp
<1>2. h \in D <=> h \in DOMAIN known /\ Before(h, known) # {}
  OBVIOUS
<1> HIDE DEF D
<1> QED
  BY <1>1, <1>2

\* Of numbers below a bound, one is the last.
LEMMA LastOfMany ==
  ASSUME NEW S, S # {}, NEW n \in Nat, \A g \in S : g \in Nat /\ g < n
  PROVE  Max(S) \in S /\ \A g \in S : g <= Max(S)
<1>1. IsFiniteSet(0 .. n)
  <2>1. 0 \in Int /\ n \in Int
    OBVIOUS
  <2> QED
    BY <2>1, FS_Interval
<1>2. S \in SUBSET (0 .. n) /\ S \in SUBSET Nat
  OBVIOUS
<1>3. IsFiniteSet(S)
  BY <1>1, <1>2, FS_Subset
<1>4. \E x \in S : \A y \in S : y <= x
  BY <1>2, <1>3, GreatestExists
<1>5. \E x \in S : \A y \in S : x >= y
  BY <1>2, <1>4
<1>6. Max(S) \in S /\ \A y \in S : Max(S) >= y
  BY <1>5, Zenon DEF Max
<1> QED
  BY <1>2, <1>6

\* No row of the training set looks ahead.
THEOREM TrainingStays == Spec => []TrainingStands
<1>1. IInv => TrainingStands
  <2> SUFFICES ASSUME IInv, NEW h \in Hours
               PROVE  TrainingRows(store, h) = TrainingRows(InTime(store, h), h)
    BY DEF TrainingStands
  <2> DEFINE A == store
             B == InTime(store, h)
             cutoff == AsOf(h)
  <2>1. \A r \in A : r.content.at \in Nat
    BY RowsAreOfInstants
  <2>2. h \in Int /\ PerHour \in Int /\ 0 < PerHour /\ \A g \in Hours : g \in Int
    BY CalendarTypes
  <2>3. /\ B \subseteq A
        /\ \A r \in A : r \in B <=> /\ r.content.at < h + PerHour
                                    /\ r.content.series = "rtm_spp" \/ r.content.publish <= cutoff
    BY DEF InTime
  <2> HIDE DEF A, B, cutoff
  <2>4. ASSUME NEW g \in Hours, g <= h PROVE QuartersOf(A, g) = QuartersOf(B, g)
    <3>1. ASSUME NEW r \in A, r.content.series = "rtm_spp", HourOf(r.content.at) = g PROVE r \in B
      <4>1. r.content.at < g + PerHour /\ r.content.at \in Nat /\ g \in Int
        BY <2>1, <2>2, <3>1, HourOfQuarter
      <4>2. r.content.at < h + PerHour
        BY <2>2, <2>4, <4>1
      <4> QED
        BY <2>3, <3>1, <4>2
    <3> QED
      BY <2>3, <3>1 DEF QuartersOf, Contents, Read
  <2>5. ASSUME NEW g \in Hours, g <= h PROVE Hourly(A, g) = Hourly(B, g)
    BY <2>4, <2>5, SameHour
  <2>6. SpikeHodPercentile(A, h) = SpikeHodPercentile(B, h)
    <3> DEFINE past(rows) == {g \in HourlyHours(rows) : g < h /\ HourOfDay(g) = HourOfDay(h)}
    <3>1. past(A) = past(B)
      <4>1. \A g \in Hours : g < h => g <= h
        BY <2>2
      <4>2. \A g \in Hours : g < h => (g \in HourlyHours(A) <=> g \in HourlyHours(B))
        BY <2>4, <4>1 DEF HourlyHours
      <4>3. HourlyHours(A) \subseteq Hours /\ HourlyHours(B) \subseteq Hours
        BY DEF HourlyHours
      <4> QED
        BY <4>2, <4>3
    <3>2. \A g \in past(A) : Hourly(A, g) = Hourly(B, g)
      BY <2>2, <2>5 DEF HourlyHours
    <3>3. /\ PastPrices(A, h) = [g \in past(A) |-> Hourly(A, g)]
          /\ PastPrices(B, h) = [g \in past(B) |-> Hourly(B, g)]
      BY Zenon DEF PastPrices
    <3> HIDE DEF past
    <3>4. PastPrices(A, h) = PastPrices(B, h)
      BY <3>1, <3>2, <3>3
    <3>5. Hourly(A, h) = Hourly(B, h)
      BY <2>2, <2>5
    <3> QED
      BY <3>4, <3>5, Zenon DEF SpikeHodPercentile
  <2>7. ASSUME NEW s \in Forecasts, NEW g \in Nat, g <= h
        PROVE  {r \in Known(Read(A, s), cutoff) : r.content.at = g}
                 = {r \in Known(Read(B, s), cutoff) : r.content.at = g}
    <3>1. g < h + PerHour
      BY <2>2, <2>7
    <3> QED
      BY <2>3, <3>1 DEF Known, Read
  <2> DEFINE capacity(rows) == AsOfSnapshot(Read(rows, "available_capacity"), cutoff)
             net(rows) == AsOfSnapshot(Read(rows, "net_load_forecast"), cutoff)
  <2>8. ASSUME NEW g \in Nat, g <= h
        PROVE  /\ g \in DOMAIN capacity(A) <=> g \in DOMAIN capacity(B)
               /\ g \in DOMAIN capacity(A) => capacity(A)[g] = capacity(B)[g]
               /\ g \in DOMAIN net(A) <=> g \in DOMAIN net(B)
               /\ g \in DOMAIN net(A) => net(A)[g] = net(B)[g]
    <3>1. "available_capacity" \in Forecasts /\ "net_load_forecast" \in Forecasts
      BY DEF Forecasts
    <3>2. /\ {r \in Known(Read(A, "available_capacity"), cutoff) : r.content.at = g}
               = {r \in Known(Read(B, "available_capacity"), cutoff) : r.content.at = g}
          /\ {r \in Known(Read(A, "net_load_forecast"), cutoff) : r.content.at = g}
               = {r \in Known(Read(B, "net_load_forecast"), cutoff) : r.content.at = g}
      BY <2>7, <2>8, <3>1
    <3>3. /\ g \in DOMAIN capacity(A) <=> g \in DOMAIN capacity(B)
          /\ g \in DOMAIN capacity(A) => capacity(A)[g] = capacity(B)[g]
      <4> DEFINE X == Read(A, "available_capacity")
                 Y == Read(B, "available_capacity")
      <4>1. {r \in Known(X, cutoff) : r.content.at = g} = {r \in Known(Y, cutoff) : r.content.at = g}
        BY <3>2
      <4> HIDE DEF X, Y
      <4>2. /\ g \in DOMAIN AsOfSnapshot(X, cutoff) <=> g \in DOMAIN AsOfSnapshot(Y, cutoff)
            /\ g \in DOMAIN AsOfSnapshot(X, cutoff) =>
                 AsOfSnapshot(X, cutoff)[g] = AsOfSnapshot(Y, cutoff)[g]
        BY <4>1, SameSnapshot
      <4> QED
        BY <4>2, Zenon DEF X, Y
    <3>4. /\ g \in DOMAIN net(A) <=> g \in DOMAIN net(B)
          /\ g \in DOMAIN net(A) => net(A)[g] = net(B)[g]
      <4> DEFINE X == Read(A, "net_load_forecast")
                 Y == Read(B, "net_load_forecast")
      <4>1. {r \in Known(X, cutoff) : r.content.at = g} = {r \in Known(Y, cutoff) : r.content.at = g}
        BY <3>2
      <4> HIDE DEF X, Y
      <4>2. /\ g \in DOMAIN AsOfSnapshot(X, cutoff) <=> g \in DOMAIN AsOfSnapshot(Y, cutoff)
            /\ g \in DOMAIN AsOfSnapshot(X, cutoff) =>
                 AsOfSnapshot(X, cutoff)[g] = AsOfSnapshot(Y, cutoff)[g]
        BY <4>1, SameSnapshot
      <4> QED
        BY <4>2, Zenon DEF X, Y
    <3> QED
      BY <3>3, <3>4
  <2>9. DOMAIN net(A) \subseteq Nat /\ DOMAIN net(B) \subseteq Nat
    BY <2>1, <2>3 DEF AsOfSnapshot, Known, Read
  <2> HIDE DEF capacity, net
  <2>10. h \in Nat
    BY CalendarTypes
  <2>11. Before(h, net(A)) = Before(h, net(B))
    <3>1. \A g \in Nat : g < h => (g \in DOMAIN net(A) <=> g \in DOMAIN net(B))
      BY <2>8, <2>10
    <3> QED
      BY <2>9, <3>1 DEF Before
  <2>12. Before(h, net(A)) # {} =>
           /\ Max(Before(h, net(A))) \in DOMAIN net(A)
           /\ net(A)[Max(Before(h, net(A)))] = net(B)[Max(Before(h, net(A)))]
    <3> DEFINE earlier == Before(h, net(A))
    <3> SUFFICES ASSUME earlier # {}
                 PROVE  Max(earlier) \in DOMAIN net(A) /\ net(A)[Max(earlier)] = net(B)[Max(earlier)]
      OBVIOUS
    <3>1. \A g \in earlier : g \in Nat /\ g < h /\ g \in DOMAIN net(A)
      BY <2>9 DEF Before
    <3> HIDE DEF earlier
    <3>2. Max(earlier) \in earlier
      BY <2>10, <3>1, LastOfMany
    <3>3. Max(earlier) \in Nat /\ Max(earlier) <= h /\ Max(earlier) \in DOMAIN net(A)
      BY <2>10, <3>1, <3>2
    <3> QED
      BY <2>8, <3>3
  <2>13. /\ h \in DOMAIN Gradient(net(A)) <=> h \in DOMAIN Gradient(net(B))
         /\ h \in DOMAIN Gradient(net(A)) => Gradient(net(A))[h] = Gradient(net(B))[h]
    <3>1. h \in DOMAIN net(A) /\ Before(h, net(A)) # {} => Ramp(net(A), h) = Ramp(net(B), h)
      <4> SUFFICES ASSUME h \in DOMAIN net(A), Before(h, net(A)) # {}
                   PROVE  Ramp(net(A), h) = Ramp(net(B), h)
        OBVIOUS
      <4>1. net(A)[h] = net(B)[h]
        BY <2>2, <2>8, <2>10
      <4> QED
        BY <2>11, <2>12, <4>1, Zenon DEF Ramp
    <3>2. h \in DOMAIN net(A) <=> h \in DOMAIN net(B)
      BY <2>2, <2>8, <2>10
    <3>3. /\ h \in DOMAIN Gradient(net(A)) <=> h \in DOMAIN net(A) /\ Before(h, net(A)) # {}
          /\ h \in DOMAIN Gradient(net(A)) => Gradient(net(A))[h] = Ramp(net(A), h)
          /\ h \in DOMAIN Gradient(net(B)) <=> h \in DOMAIN net(B) /\ Before(h, net(B)) # {}
          /\ h \in DOMAIN Gradient(net(B)) => Gradient(net(B))[h] = Ramp(net(B), h)
      BY GradientAt
    <3> QED
      BY <2>11, <3>1, <3>2, <3>3, Zenon
  <2>14. /\ h \in DOMAIN capacity(A) <=> h \in DOMAIN capacity(B)
         /\ h \in DOMAIN capacity(A) => capacity(A)[h] = capacity(B)[h]
         /\ h \in DOMAIN net(A) <=> h \in DOMAIN net(B)
         /\ h \in DOMAIN net(A) => net(A)[h] = net(B)[h]
    BY <2>2, <2>8, <2>10
  <2>15. Predictors(A, h) = Predictors(B, h)
    <3> DEFINE Row(cap, ramp, g) ==
                 [capacity |-> The(cap[g]), margin |-> The(cap[g]) - The(ramp[g]),
                  gradient |-> Gradient(ramp)[g]]
               On(cap, ramp) == {h} \intersect DOMAIN cap \intersect DOMAIN Gradient(ramp)
    <3>1. /\ Predictors(A, h) = {Row(capacity(A), net(A), g) : g \in On(capacity(A), net(A))}
          /\ Predictors(B, h) = {Row(capacity(B), net(B), g) : g \in On(capacity(B), net(B))}
      BY Zenon DEF Predictors, capacity, net, cutoff
    <3>2. On(capacity(A), net(A)) = On(capacity(B), net(B))
      BY <2>13, <2>14
    <3>3. \A g \in On(capacity(A), net(A)) : g = h /\ g \in DOMAIN net(A)
      BY DEF Gradient
    <3>4. \A g \in On(capacity(A), net(A)) :
            Row(capacity(A), net(A), g) = Row(capacity(B), net(B), g)
      BY <2>13, <2>14, <3>3
    <3> HIDE DEF Row, On
    <3> QED
      BY <3>1, <3>2, <3>4
  <2>16. QuartersOf(A, h) = QuartersOf(B, h)
    BY <2>2, <2>4
  <2>17. TrainingRows(A, h) = TrainingRows(B, h)
    BY <2>6, <2>15, <2>16, Zenon DEF TrainingRows
  <2> QED
    BY <2>17 DEF A, B
<1> QED
  BY <1>1, ForecastInvariant, PTL
-------------------------------------------------------------------------------
(***************************************************************************)
(* Serving.                                                                *)
(***************************************************************************)
LEMMA FloorOfMore ==
  ASSUME NEW a \in Int, NEW d \in Nat \ {0}, NEW k \in Int, k * d <= a
  PROVE  k * d <= (a \div d) * d
<1> DEFINE q == a \div d
<1>1. q \in Int /\ a < q * d + d
  BY Quotients
<1> HIDE DEF q
<1>2. CASE k <= q
  <2>1. q - k \in Nat
    BY <1>1, <1>2
  <2>2. (q - k) * d \in Nat
    BY <2>1
  <2>3. (q - k) * d = q * d - k * d
    BY <1>1
  <2> QED
    BY <1>1, <2>2, <2>3 DEF q
<1>3. CASE ~ (k <= q)
  <2>1. k - q - 1 \in Nat
    BY <1>1, <1>3
  <2>2. (k - q - 1) * d \in Nat
    BY <2>1
  <2>3. (k - q - 1) * d = k * d - q * d - d
    BY <1>1
  <2>4. k * d \in Int /\ q * d \in Int
    BY <1>1
  <2> QED
    BY <1>1, <2>2, <2>3, <2>4
<1> QED
  BY <1>2, <1>3

\* The window asked for around a cutoff holds the hour and the one before.
LEMMA WindowHoldsHour ==
  ASSUME NEW h \in Hours
  PROVE  /\ AsOf(h) \in Int
         /\ h \in Span(AsOf(h) - Lookback, AsOf(h) + Lookback)
         /\ h - PerHour \in Span(AsOf(h) - Lookback, AsOf(h) + Lookback)
<1> DEFINE c == CutoffHour * PerHour
           start == Day(h) * PerDay
           from == AsOf(h) - Lookback
           to == AsOf(h) + Lookback
<1>1. PerHour \in {1, 2, 3, 4} /\ HoursPerDay \in Nat \ {0} /\ CutoffHour \in 0 .. HoursPerDay - 1
  BY ErcotAssumption
<1>2. c \in Nat /\ c + PerHour <= PerDay
  BY <1>1 DEF PerDay
<1>3. PerDay \in Nat \ {0} /\ PerHour \in Nat \ {0} /\ h \in Nat
  BY CalendarTypes
<1>4. Day(h) \in Int /\ start \in Int /\ start <= h /\ h < start + PerDay
  BY <1>3, Quotients DEF Day
<1>5. AsOf(h) = start - PerDay + c
  BY <1>3, <1>4 DEF AsOf
<1>6. Lookback = 2 * PerDay
  BY DEF Lookback
<1> HIDE DEF c, start
<1>7. AsOf(h) \in Int /\ from \in Int /\ to \in Int
  BY <1>2, <1>3, <1>4, <1>5, <1>6
<1>8. DateStr(from) \in Int /\ DateStr(from) <= from
  <2> HIDE DEF from
  <2> QED
    BY <1>3, <1>7, Quotients DEF DateStr
<1>9. DateStr(to) \in Int /\ start + PerDay <= DateStr(to)
  <2>1. (Day(h) + 1) * PerDay = start + PerDay /\ Day(h) + 1 \in Int
    BY <1>3, <1>4 DEF start
  <2>2. start + PerDay <= to
    BY <1>2, <1>3, <1>4, <1>5, <1>6
  <2> HIDE DEF to
  <2>3. (Day(h) + 1) * PerDay <= (to \div PerDay) * PerDay
    BY <1>3, <1>7, <2>1, <2>2, FloorOfMore
  <2>4. (to \div PerDay) * PerDay \in Int
    BY <1>3, <1>7, Quotients
  <2> QED
    BY <2>1, <2>3, <2>4 DEF DateStr
<1> QED
  BY <1>2, <1>3, <1>4, <1>5, <1>6, <1>7, <1>8, <1>9 DEF Span

\* The hour before is the last one before an hour.
LEMMA HourBefore ==
  ASSUME NEW known, DOMAIN known \subseteq Hours, NEW h \in Hours, h - PerHour \in DOMAIN known
  PROVE  Before(h, known) # {} /\ Max(Before(h, known)) = h - PerHour
<1>1. PerHour \in {1, 2, 3, 4} /\ \A g \in Hours : g \in Nat /\ g % PerHour = 0
  BY ErcotAssumption, CalendarTypes DEF Hours
<1>2. ASSUME NEW g \in Hours, g < h PROVE g <= h - PerHour
  <2>1. g \in Nat /\ h \in Nat /\ g % PerHour = 0 /\ h % PerHour = 0
    BY <1>1
  <2>2. CASE PerHour = 1
    BY <1>2, <2>1, <2>2
  <2>3. CASE PerHour = 2
    BY <1>2, <2>1, <2>3
  <2>4. CASE PerHour = 3
    BY <1>2, <2>1, <2>4
  <2>5. CASE PerHour = 4
    BY <1>2, <2>1, <2>5
  <2> QED
    BY <1>1, <2>2, <2>3, <2>4, <2>5
<1> DEFINE S == Before(h, known)
           last == h - PerHour
<1>3. last \in S /\ \A g \in S : g \in Nat /\ g <= last
  BY <1>1, <1>2 DEF Before
<1> HIDE DEF S, last
<1>4. Max(S) \in S /\ \A g \in S : Max(S) >= g
  <2>1. \E x \in S : \A y \in S : x >= y
    BY <1>3
  <2> QED
    BY <2>1, Zenon DEF Max
<1>5. Max(S) = last
  <2>1. Max(S) \in Nat /\ last \in Nat /\ Max(S) <= last /\ Max(S) >= last
    BY <1>3, <1>4
  <2> QED
    BY <2>1
<1> QED
  BY <1>3, <1>5 DEF S, last

\* What is stored or answered of a forecast was reported.
LEMMA StoredIsReported ==
  ASSUME IInv, NEW s \in Forecasts
  PROVE  /\ Dataset(s) \subseteq reports
         /\ Contents(Read(store, s)) \subseteq reports
<1>1. s # "rtm_spp"
  BY DEF Forecasts
<1>2. Dataset(s) \subseteq reports
  BY <1>1 DEF Dataset
<1>3. ASSUME NEW c \in Contents(Read(store, s)) PROVE c \in reports
  <2>1. c \in Contents(store) /\ c.series = s
    BY DEF Contents, Read
  <2>2. c \in reports \union Realized
    BY <2>1 DEF IInv, TypeOK
  <2>3. c \notin Realized
    BY <1>1, <2>1 DEF Realized, Content
  <2> QED
    BY <2>2, <2>3
<1> QED
  BY <1>2, <1>3

LEMMA ViewOfHours ==
  ASSUME ReportsAreReports, NEW rows, Contents(rows) \subseteq reports, NEW asOf
  PROVE  DOMAIN AsOfSnapshot(rows, asOf) \subseteq Hours
BY DEF AsOfSnapshot, Known, Contents, ReportsAreReports

\* An answer that is not cut gives what was known at the cutoff.
LEMMA ServedIsKnowledge ==
  ASSUME IInv, NEW s \in Forecasts, NEW asOf \in Int,
         NEW g \in Span(asOf - Lookback, asOf + Lookback)
  PROVE  LET view == LatestKnownPerInterval(s, Asked(s, asOf - Lookback, asOf + Lookback), asOf)
         IN  /\ DOMAIN view \subseteq Hours
             /\ g \in DOMAIN view <=> Knowledge(s, g, asOf) # {}
             /\ g \in DOMAIN view => view[g] = Knowledge(s, g, asOf)
<1> DEFINE asked == Asked(s, asOf - Lookback, asOf + Lookback)
           rows == [content : Parse(s, Canonical(asked)), part : {0}]
<1>1. \A r \in asked : r \in Dataset(s)
  BY DEF Asked
<1>2. Parse(s, Canonical(asked)) = asked
  <2>1. asked \in SUBSET Dataset(s)
    BY <1>1
  <2> HIDE DEF asked
  <2> QED
    BY <2>1, ParsedAsStated DEF IInv
<1>3. Contents(rows) = asked
  <2>1. rows = [content : asked, part : {0}]
    BY <1>2
  <2> HIDE DEF asked, rows
  <2>2. \A r \in rows : r.content \in asked
    BY <2>1
  <2>3. ASSUME NEW c \in asked PROVE c \in Contents(rows)
    <3> DEFINE r == [content |-> c, part |-> 0]
    <3>1. r \in rows /\ r.content = c
      BY <2>1
    <3> HIDE DEF r
    <3> QED
      BY <3>1 DEF Contents
  <2> QED
    BY <2>2, <2>3 DEF Contents
<1>4. {c \in Contents(rows) : c.at = g /\ c.publish <= asOf} = Stated(s, g, asOf)
  <2>1. \A r \in reports : r.series = s /\ r.at = g => r \in asked
    <3>1. s # "rtm_spp"
      BY DEF Forecasts
    <3> QED
      BY <3>1 DEF Asked, Dataset
  <2>2. \A r \in asked : r \in reports /\ r.series = s
    <3>1. s # "rtm_spp"
      BY DEF Forecasts
    <3> QED
      BY <1>1, <3>1 DEF Dataset
  <2> HIDE DEF rows, asked
  <2> QED
    BY <1>3, <2>1, <2>2 DEF Stated
<1>5. Contents(rows) \subseteq reports
  BY <1>1, <1>3, StoredIsReported
<1>6. LatestKnownPerInterval(s, asked, asOf) = AsOfSnapshot(rows, asOf)
  BY Zenon DEF LatestKnownPerInterval
<1> HIDE DEF rows, asked
<1>7. /\ g \in DOMAIN AsOfSnapshot(rows, asOf) <=> Knowledge(s, g, asOf) # {}
      /\ g \in DOMAIN AsOfSnapshot(rows, asOf) => AsOfSnapshot(rows, asOf)[g] = Knowledge(s, g, asOf)
  BY <1>4, SnapshotIsKnowledge DEF IInv
<1>8. DOMAIN AsOfSnapshot(rows, asOf) \subseteq Hours
  BY <1>5, ViewOfHours DEF IInv
<1> QED
  BY <1>6, <1>7, <1>8 DEF asked

\* The same of what is stored, for an hour that is whole.
LEMMA TrainedIsKnowledge ==
  ASSUME IInv, NEW s \in Forecasts, NEW asOf \in Nat, NEW g \in Hours, asOf < whole[s][g]
  PROVE  LET view == AsOfSnapshot(Read(store, s), asOf)
         IN  /\ DOMAIN view \subseteq Hours
             /\ g \in DOMAIN view <=> Knowledge(s, g, asOf) # {}
             /\ g \in DOMAIN view => view[g] = Knowledge(s, g, asOf)
<1>1. asOf \in Int /\ Never <= asOf
  BY DEF Never
<1>2. {c \in Contents(Read(store, s)) : c.at = g /\ c.publish <= asOf} = Stated(s, g, asOf)
  BY <1>1, StoredIsStated
<1>3. Contents(Read(store, s)) \subseteq reports
  BY StoredIsReported
<1>4. ReportsAreReports
  BY DEF IInv
<1> DEFINE view == AsOfSnapshot(Read(store, s), asOf)
<1>5. /\ g \in DOMAIN view <=> Knowledge(s, g, asOf) # {}
      /\ g \in DOMAIN view => view[g] = Knowledge(s, g, asOf) /\ Cardinality(view[g]) = 1
  BY <1>1, <1>2, <1>4, SnapshotIsKnowledge
<1>6. DOMAIN view \subseteq Hours
  BY <1>3, <1>4, ViewOfHours
<1> QED
  BY <1>5, <1>6

\* The model is served what it was trained on.
THEOREM ServedAsTrained == Spec => []ServingMatchesTraining
<1>1. IInv => ServingMatchesTraining
  <2> SUFFICES ASSUME IInv, NEW h \in Hours, NEW row \in TrainingRows(store, h),
                      \A s \in Forecasts : \A g \in {h - PerHour, h} : AsOf(h) < whole[s][g],
                      Knowledge("net_load_forecast", h - PerHour, AsOf(h)) # {},
                      \A s \in Forecasts : Uncut(s, AsOf(h))
               PROVE  LET asOf == AsOf(h)
                          nets == AsOfAnswers("net_load_forecast", asOf)
                          loads == AsOfAnswers("load_forecast", asOf)
                          capacities == AsOfAnswers("available_capacity", asOf)
                      IN  /\ row.predictors.gradient = NetLoadGradientAsOf(The(nets), asOf)[h]
                          /\ Knowledge("load_forecast", h, asOf) # {} =>
                               row.predictors.capacity =
                                 ReserveForecastAsOf(The(loads), The(capacities), asOf)[h].capacity
    BY Zenon DEF ServingMatchesTraining
  <2> DEFINE asOf == AsOf(h)
             last == h - PerHour
             asked(s) == Asked(s, asOf - Lookback, asOf + Lookback)
             stored(s) == AsOfSnapshot(Read(store, s), asOf)
             served(s) == LatestKnownPerInterval(s, asked(s), asOf)
  <2>1. /\ "load_forecast" \in Forecasts /\ "available_capacity" \in Forecasts
        /\ "net_load_forecast" \in Forecasts
    BY DEF Forecasts
  <2>2. /\ asOf \in Int
        /\ h \in Span(asOf - Lookback, asOf + Lookback)
        /\ last \in Span(asOf - Lookback, asOf + Lookback)
    BY WindowHoldsHour
  <2>3. asOf \in Nat /\ last \in Hours
    <3>1. Stated("net_load_forecast", last, asOf) # {}
      BY <2>2, OneIsLatest DEF IInv
    <3>2. PICK r \in reports : r.at = last /\ r.publish <= asOf
      BY <3>1 DEF Stated
    <3>3. r.at \in Hours /\ r.publish \in Nat
      BY CalendarTypes DEF IInv, ReportsAreReports, ContentSet
    <3> QED
      BY <2>2, <3>2, <3>3
  <2>4. \A s \in Forecasts : asOf < whole[s][h] /\ asOf < whole[s][last]
    OBVIOUS
  <2>5. \A s \in Forecasts : The(AsOfAnswers(s, asOf)) = asked(s)
    BY DEF Uncut, The
  <2> HIDE DEF asOf, last
  <2>6. ASSUME NEW s \in Forecasts, NEW g \in {last, h}
        PROVE  /\ DOMAIN stored(s) \subseteq Hours /\ DOMAIN served(s) \subseteq Hours
               /\ g \in DOMAIN stored(s) <=> Knowledge(s, g, asOf) # {}
               /\ g \in DOMAIN stored(s) => stored(s)[g] = Knowledge(s, g, asOf)
               /\ g \in DOMAIN served(s) <=> Knowledge(s, g, asOf) # {}
               /\ g \in DOMAIN served(s) => served(s)[g] = Knowledge(s, g, asOf)
    <3>1. g \in Hours /\ asOf < whole[s][g] /\ g \in Span(asOf - Lookback, asOf + Lookback)
      BY <2>2, <2>3, <2>4
    <3>2. /\ DOMAIN stored(s) \subseteq Hours
          /\ g \in DOMAIN stored(s) <=> Knowledge(s, g, asOf) # {}
          /\ g \in DOMAIN stored(s) => stored(s)[g] = Knowledge(s, g, asOf)
      BY <2>3, <3>1, TrainedIsKnowledge
    <3>3. /\ DOMAIN served(s) \subseteq Hours
          /\ g \in DOMAIN served(s) <=> Knowledge(s, g, asOf) # {}
          /\ g \in DOMAIN served(s) => served(s)[g] = Knowledge(s, g, asOf)
      BY <2>2, <3>1, ServedIsKnowledge
    <3> QED
      BY <3>2, <3>3
  <2> DEFINE net == stored("net_load_forecast")
             cap == stored("available_capacity")
  <2>7. /\ h \in DOMAIN cap /\ h \in DOMAIN Gradient(net)
        /\ row.predictors.capacity = The(cap[h])
        /\ row.predictors.gradient = Gradient(net)[h]
    <3>1. PICK p \in Predictors(store, h) : row.predictors = p
      BY DEF TrainingRows
    <3>2. PICK g \in {h} \intersect DOMAIN cap \intersect DOMAIN Gradient(net) :
            p = [capacity |-> The(cap[g]), margin |-> The(cap[g]) - The(net[g]),
                 gradient |-> Gradient(net)[g]]
      BY Zenon DEF Predictors, asOf
    <3> HIDE DEF cap, net
    <3> QED
      BY <3>1, <3>2
  <2>8. row.predictors.gradient = NetLoadGradientAsOf(The(AsOfAnswers("net_load_forecast", asOf)), asOf)[h]
    <3> DEFINE view == served("net_load_forecast")
    <3>1. NetLoadGradientAsOf(The(AsOfAnswers("net_load_forecast", asOf)), asOf) = Gradient(view)
      BY <2>1, <2>5, Zenon DEF NetLoadGradientAsOf
    <3>2. /\ DOMAIN net \subseteq Hours /\ DOMAIN view \subseteq Hours
          /\ \A g \in {last, h} :
               /\ g \in DOMAIN net <=> Knowledge("net_load_forecast", g, asOf) # {}
               /\ g \in DOMAIN net => net[g] = Knowledge("net_load_forecast", g, asOf)
               /\ g \in DOMAIN view <=> Knowledge("net_load_forecast", g, asOf) # {}
               /\ g \in DOMAIN view => view[g] = Knowledge("net_load_forecast", g, asOf)
      BY <2>1, <2>6
    <3> HIDE DEF net, view
    <3>3. h \in DOMAIN net /\ Gradient(net)[h] = Ramp(net, h)
      BY <2>7, GradientAt
    <3>4. last \in DOMAIN net /\ last \in DOMAIN view /\ h \in DOMAIN view
      BY <3>2, <3>3 DEF last, asOf
    <3>5. /\ Max(Before(h, net)) = last
          /\ Before(h, view) # {} /\ Max(Before(h, view)) = last
      BY <3>2, <3>4, HourBefore DEF last
    <3>6. net[h] = view[h] /\ net[last] = view[last]
      BY <3>2, <3>3, <3>4
    <3>7. Ramp(net, h) = Ramp(view, h)
      BY <3>5, <3>6, Zenon DEF Ramp
    <3>8. Gradient(view)[h] = Ramp(view, h)
      BY <3>4, <3>5, GradientAt
    <3> QED
      BY <2>7, <3>1, <3>3, <3>7, <3>8
  <2>9. ASSUME Knowledge("load_forecast", h, asOf) # {}
        PROVE  row.predictors.capacity =
                 ReserveForecastAsOf(The(AsOfAnswers("load_forecast", asOf)),
                                     The(AsOfAnswers("available_capacity", asOf)), asOf)[h].capacity
    <3> DEFINE load == served("load_forecast")
               view == served("available_capacity")
    <3>1. ReserveForecastAsOf(The(AsOfAnswers("load_forecast", asOf)),
                              The(AsOfAnswers("available_capacity", asOf)), asOf)
            = [g \in DOMAIN load \intersect DOMAIN view |->
                 [capacity |-> The(view[g]), margin |-> The(view[g]) - The(load[g])]]
      BY <2>1, <2>5, Zenon DEF ReserveForecastAsOf
    <3>2. h \in DOMAIN load
      BY <2>1, <2>6, <2>9
    <3>3. h \in DOMAIN view /\ view[h] = cap[h]
      BY <2>1, <2>6, <2>7
    <3> HIDE DEF load, view, cap
    <3> QED
      BY <2>7, <3>1, <3>2, <3>3
  <2> QED
    BY <2>8, <2>9, Zenon DEF asOf
<1> QED
  BY <1>1, ForecastInvariant, PTL
===============================================================================
