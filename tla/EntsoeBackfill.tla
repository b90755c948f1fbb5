----------------------------- MODULE EntsoeBackfill -----------------------------
(***************************************************************************)
(* The ENTSO-E backfill (infra/collectors/entsoe_backfill.py) writing to   *)
(* the energy lake, and the studies that read day-ahead prices from the    *)
(* lake or, failing that, from the market (P02, P05).  A query fails for a *)
(* while, says that there is no data when there is, or is never answered,  *)
(* as the client has no time-out; a run is killed, even between two part   *)
(* files of one write, and started again by its operator.                  *)
(***************************************************************************)
EXTENDS EnergyStore, Sequences, FiniteSetsExt

CONSTANTS Zones,          \* the zones, in the order of the queries
          Prices,
          Markets,        \* zone -> interval -> price: what the market can have
          MaxInterval,
          PerDay,         \* intervals of a day
          Chunk,          \* chunk_days, in intervals
          MaxAttempts,    \* _MAX_ATTEMPTS
          MaxRuns, MaxKills, MaxRevisions

VARIABLES market,         \* zone -> interval -> price, or NoPrice
          store, parts,   \* rows of the lake, part files written
          pc,             \* "idle", "query", "hung" or "write"
          stop, cursor,   \* what is left of the range
          zone,           \* position of the zone queried
          attempt,
          frame,          \* contents extracted for the chunk
          runs, kills, revisions,
          begun,          \* start of the range (history)
          skipped,        \* what the run skipped (history)
          revised,        \* prices that the market changed (history)
          covered         \* what the runs that ended must have stored (history)

lake == <<store, parts>>
run == <<stop, cursor, zone, attempt, frame>>
bounds == <<runs, kills, revisions>>
ghosts == <<begun, skipped, revised, covered>>
vars == <<market, lake, pc, run, bounds, ghosts>>

Intervals == 0 .. MaxInterval
NoPrice == 0
ZoneSet == {Zones[i] : i \in DOMAIN Zones}

ASSUME BackfillAssumption ==
  /\ Zones \in Seq(STRING) /\ Len(Zones) > 0
  /\ Prices \subseteq Nat \ {NoPrice}
  /\ MaxInterval \in Nat
  /\ Markets \subseteq [ZoneSet -> [Intervals -> Prices \union {NoPrice}]]
  /\ PerDay \in Nat \ {0}
  /\ Chunk \in Nat \ {0}
  /\ MaxAttempts \in Nat \ {0}
  /\ MaxRuns \in Nat /\ MaxKills \in Nat /\ MaxRevisions \in Nat

Init ==
  /\ market \in Markets
  /\ store = {} /\ parts = 0
  /\ pc = "idle"
  /\ stop = 0 /\ cursor = 0 /\ zone = 1 /\ attempt = 0 /\ frame = {}
  /\ runs = 0 /\ kills = 0 /\ revisions = 0
  /\ begun = 0 /\ skipped = {} /\ revised = {} /\ covered = {}
-------------------------------------------------------------------------------
\* _approximate_publish_time: a quarter to one, the day before; only the day counts.
PublishTime(at) == (at \div PerDay - 1) * PerDay

InRange(series, from, to) == {i \in from .. to : series[i] # NoPrice}

\* query_day_ahead_prices over [from, to], its bounds included (external).
Priced(z, from, to) ==
  {[series |-> z, publish |-> PublishTime(i), at |-> i, value |-> market[z][i]] :
     i \in InRange(market[z], from, to)}

\* backfill(start, end)
Start ==
  /\ pc = "idle"
  /\ runs < MaxRuns
  /\ runs' = runs + 1
  /\ \E from, to \in Intervals :
       /\ from < to
       /\ cursor' = from
       /\ begun' = from
       /\ stop' = to
  /\ pc' = "query"
  /\ zone' = 1 /\ attempt' = 0 /\ frame' = {} /\ skipped' = {}
  /\ UNCHANGED <<market, lake, kills, revisions, revised, covered>>

Zone == Zones[zone]
ChunkEnd == IF cursor + Chunk < stop THEN cursor + Chunk ELSE stop

NextZone ==
  /\ attempt' = 0
  /\ IF zone < Len(Zones) THEN zone' = zone + 1 /\ pc' = pc
                          ELSE zone' = zone /\ pc' = "write"

\* The market answers with the prices it has for the chunk.
Answer ==
  /\ pc = "query"
  /\ InRange(market[Zone], cursor, ChunkEnd) # {}
  /\ frame' = frame \union Priced(Zone, cursor, ChunkEnd)
  /\ NextZone
  /\ UNCHANGED <<market, lake, stop, cursor, bounds, ghosts>>

\* Any failure, "no data" as well, is tried again.
Retry ==
  /\ pc = "query"
  /\ attempt + 1 < MaxAttempts
  /\ attempt' = attempt + 1
  /\ UNCHANGED <<market, lake, pc, stop, cursor, zone, frame, bounds, ghosts>>

\* Mutant: no data for one zone drops the chunk.
SkipChunk ==
  /\ pc = "query"
  /\ attempt + 1 = MaxAttempts
  /\ skipped' = skipped \union ({Zone} \X (cursor .. ChunkEnd))
  /\ attempt' = 0
  /\ pc' = "write"
  /\ UNCHANGED <<market, lake, stop, cursor, zone, frame, bounds, begun, revised, covered>>

\* The last attempt says that there is no data: the zone is skipped.
SkipZone ==
  /\ pc = "query"
  /\ attempt + 1 = MaxAttempts
  /\ skipped' = skipped \union ({Zone} \X (cursor .. ChunkEnd))
  /\ NextZone
  /\ UNCHANGED <<market, lake, stop, cursor, frame, bounds, begun, revised, covered>>

\* No step of the run follows: its variables are of no more use.
NoMoreSteps ==
  /\ stop' = 0 /\ cursor' = 0 /\ zone' = 1 /\ attempt' = 0 /\ frame' = {}
  /\ begun' = 0 /\ skipped' = {}

End == pc' = "idle" /\ NoMoreSteps

\* The connection stays open and nothing comes: the client waits for ever.
Hang ==
  /\ pc = "query"
  /\ pc' = "hung"
  /\ NoMoreSteps
  /\ UNCHANGED <<market, lake, bounds, revised, covered>>

\* The last attempt fails in any other way: the run ends, what earlier chunks
\* stored remains.
Abort ==
  /\ pc = "query"
  /\ attempt + 1 = MaxAttempts
  /\ End
  /\ UNCHANGED <<market, lake, bounds, revised, covered>>

Parts(contents) == [content : contents, part : {parts + 1}]

NextChunk(from) ==
  /\ pc' = "query"
  /\ cursor' = from
  /\ zone' = 1 /\ attempt' = 0 /\ frame' = {}
  /\ UNCHANGED <<stop, begun, skipped, covered>>

Obligation ==
  {p \in ZoneSet \X (begun .. stop) : market[p[1]][p[2]] # NoPrice} \ skipped

\* Mutant: the cursor moves only if the write stored something.
AdvanceIfNew ==
  IF New(store, frame) = {} THEN NextChunk(cursor)
  ELSE IF ChunkEnd < stop THEN NextChunk(ChunkEnd)
  ELSE End /\ covered' = covered \union Obligation

\* cursor = chunk_end, until it reaches the end of the range.
Advance ==
  IF ChunkEnd < stop THEN NextChunk(ChunkEnd)
  ELSE End /\ covered' = covered \union Obligation

\* store.write(extract_long(...))
Write ==
  /\ pc = "write"
  /\ store' = store \union Parts(New(store, frame))
  /\ parts' = parts + (IF New(store, frame) = {} THEN 0 ELSE 1)
  /\ Advance
  /\ UNCHANGED <<market, bounds, revised>>

\* The run is killed; in a write, some of the part files are there.
Kill ==
  /\ pc # "idle"
  /\ kills < MaxKills
  /\ kills' = kills + 1
  /\ End
  /\ \/ UNCHANGED lake
     \/ /\ pc = "write"
        /\ \E some \in SUBSET New(store, frame) : store' = store \union Parts(some)
        /\ parts' = parts + 1
  /\ UNCHANGED <<market, runs, revisions, revised, covered>>

\* The market corrects a price it has published.
Revise ==
  /\ revisions < MaxRevisions
  /\ revisions' = revisions + 1
  /\ \E z \in ZoneSet, i \in Intervals : \E price \in Prices \ {market[z][i]} :
       /\ market[z][i] # NoPrice
       /\ market' = [market EXCEPT ![z][i] = price]
       /\ revised' = revised \union {<<z, i>>}
  /\ UNCHANGED <<lake, pc, run, runs, kills, begun, skipped, covered>>

Step == Answer \/ Hang \/ Retry \/ SkipZone \/ Abort \/ Write
Next == Start \/ Step \/ Kill \/ Revise

\* A run that was started goes on: a query is answered, fails or hangs.
Spec == Init /\ [][Next]_vars /\ WF_vars(Step)
-------------------------------------------------------------------------------
(***************************************************************************)
(* The studies that read day-ahead prices: a series is a set of rows, each *)
(* an interval and a price, from the lake, the market or a generator.      *)
(***************************************************************************)
\* _read_cold_store of P02, its bounds included.
ReadColdStore(z, from, to) ==
  {<<r.content.at, r.content.value, r.part>> :
     r \in {q \in Read(store, z) : q.content.at \in from .. to}}

\* The live call.
Live(z, from, to) == {<<i, market[z][i]>> : i \in InRange(market[z], from, to)}

\* load_energy_entsoe of P02: any row in the range is enough; without one, the
\* market if there is a token, and an error if not.
LoadEnergy(z, from, to, token) ==
  CASE ReadColdStore(z, from, to) # {} ->
         [label |-> "entsoe_cold_store", series |-> ReadColdStore(z, from, to)]
    [] ReadColdStore(z, from, to) = {} /\ token /\ Live(z, from, to) # {} ->
         [label |-> "entsoe_live", series |-> Live(z, from, to)]
    [] OTHER -> [label |-> "error", series |-> {}]

\* Mutant: the regions that the lake covers are taken from it.
TryColdAny(from, to) == \E z \in ZoneSet : ReadColdStore(z, from, to) # {}

\* _try_cold_store of P05: every region has a row in the range.
TryColdStore(from, to) == \A z \in ZoneSet : ReadColdStore(z, from, to) # {}

\* reindex(index).ffill() at i: the last price at or before i, from the range.
Filled(series, i) ==
  LET before == {p \in series : p[1] <= i}
  IN  {p[2] : p \in {q \in before : \A o \in before : o[1] <= q[1]}}

\* reindex refuses an interval that has two prices.
Reindexes(series) == \A p, q \in series : p[1] = q[1] => p = q

\* The regions are read one after the other: one that has two prices for an
\* interval raises, unless one before it has none.
ColdStoreRaises(from, to) ==
  \E i \in DOMAIN Zones :
    /\ ~Reindexes(ReadColdStore(Zones[i], from, to))
    /\ \A j \in 1 .. i - 1 : ReadColdStore(Zones[j], from, to) # {}

\* load_regional_energy of P05: the lake, else the market, else a generator.
LoadRegionalEnergy(from, to, reachable) ==
  CASE ColdStoreRaises(from, to) -> [label |-> "error", of |-> [z \in ZoneSet |-> {}]]
    [] ~ColdStoreRaises(from, to) /\ TryColdStore(from, to) ->
         [label |-> "entsoe_cold_store", of |-> [z \in ZoneSet |-> ReadColdStore(z, from, to)]]
    [] /\ ~ColdStoreRaises(from, to) /\ ~TryColdStore(from, to)
       /\ reachable /\ (\A z \in ZoneSet : Live(z, from, to) # {}) ->
         [label |-> "entsoe", of |-> [z \in ZoneSet |-> Live(z, from, to)]]
    [] OTHER -> [label |-> "synthetic", of |-> [z \in ZoneSet |-> {}]]
-------------------------------------------------------------------------------
(***************************************************************************)
(* Properties.                                                             *)
(***************************************************************************)
ContentSet == [series : ZoneSet, publish : Int, at : Intervals, value : Prices]

\* Type invariant.
TypeOK ==
  /\ market \in [ZoneSet -> [Intervals -> Prices \union {NoPrice}]]
  /\ \A r \in store : r.content \in ContentSet /\ r.part \in 1 .. parts
  /\ parts \in Nat
  /\ pc \in {"idle", "query", "hung", "write"}
  /\ begun \in Intervals /\ stop \in Intervals /\ cursor \in Intervals
  /\ zone \in DOMAIN Zones
  /\ attempt \in 0 .. MaxAttempts - 1
  /\ frame \subseteq ContentSet
  /\ runs \in 0 .. MaxRuns /\ kills \in 0 .. MaxKills
  /\ revisions \in 0 .. MaxRevisions /\ revised \subseteq ZoneSet \X Intervals
  /\ skipped \subseteq ZoneSet \X Intervals /\ covered \subseteq ZoneSet \X Intervals

\* However often ranges are backfilled, overlap (two chunks share their common
\* bound) or are taken up again after a kill in the middle of a write, a price
\* is in the lake once; what the market corrected is there once more.
NoPriceTwice ==
  \A r, q \in store : r.content.series = q.content.series /\ r.content.at = q.content.at
    => r = q \/ (<<r.content.series, r.content.at>> \in revised /\ r.content # q.content)

\* What a study reads from a range that runs have covered is what the market
\* would have answered, price for price, unless it corrected one since: the lake
\* replaces the live call.
ColdEqualsLive ==
  \A z \in ZoneSet : \A from, to \in Intervals :
    LET prices == InRange(market[z], from, to)
    IN  prices # {} /\ (\A i \in prices : <<z, i>> \in covered \ revised) =>
          LET read == LoadEnergy(z, from, to, FALSE)
          IN  /\ read.label = "entsoe_cold_store"
              /\ {<<p[1], p[2]>> : p \in read.series} = Live(z, from, to)
              /\ Cardinality(read.series) = Cardinality(prices)

\* The real and the generated are never mixed: a frame that is labelled real has
\* for every region, from the first price of the range on, a price that this
\* region really had at or before the instant.
RealIsReal ==
  \A from, to \in Intervals : from <= to => \A reachable \in BOOLEAN :
    LET loaded == LoadRegionalEnergy(from, to, reachable)
    IN  loaded.label \in {"entsoe_cold_store", "entsoe"} => \A z \in ZoneSet :
          /\ Filled(loaded.of[z], to) # {}
          /\ \A i \in from .. to : \A price \in Filled(loaded.of[z], i) :
               \E j \in from .. i : market[z][j] = price \/ <<z, j>> \in revised

\* Retries, skipped zones and chunks that share a bound keep no run going for
\* ever: a started run ends, or waits for an answer that never comes.
RunsEnd == pc # "idle" ~> pc \in {"idle", "hung"}
===============================================================================
