------------------------------ MODULE ErcotForecasts ------------------------------
(***************************************************************************)
(* ERCOT's prices and forecasts: the hosted transport and the adapter that *)
(* serves what is known now (ercot_transport.py, ercot.py), the backfill   *)
(* that stores every vintage of a forecast (ercot_backfill.py), and the    *)
(* calibration of P07 that rebuilds from the store what was known at the   *)
(* cutoff of each day.  Instants count quarters of an hour; reports appear *)
(* while a backfill is under way.                                          *)
(***************************************************************************)
EXTENDS EnergyStore, RobustStatistics, Sequences

CONSTANTS PerHour, HoursPerDay, Days,
          CutoffHour,     \* as_of_utc_hour
          Profiles,       \* series -> what a report can state: hour -> megawatts
          RtmPaths,       \* instant -> price: what the hub can realize
          Horizon,        \* hours ahead that a report states
          Limits,         \* rows of one answer: [live, backfill]
          Ranges,         \* <<start, end>> of a backfill
          Chunk,          \* chunk_days, in quarters
          Pct,            \* the quantile of the label: <<numerator, denominator>>
          MinObs,         \* min_obs_per_hour
          MaxReports, MaxRuns

VARIABLES now,
          rtm,            \* the realized prices
          reports,        \* what ERCOT has published
          store, parts,   \* rows of the cold store, part files written
          cursor, stop,
          position,       \* of the next series of the chunk; 0 without a run
          frame,          \* contents extracted for the chunk
          runs,
          whole,          \* series -> hour -> last instant answered in full (history)
          fetched         \* the same for the chunk in progress (history)

run == <<cursor, stop, position, frame, fetched>>
vars == <<now, rtm, reports, store, parts, run, runs, whole>>

PerDay == PerHour * HoursPerDay
Instants == 0 .. Days * PerDay
Hours == {h \in Instants : h % PerHour = 0 /\ h < Days * PerDay}
Forecasts == {"load_forecast", "available_capacity", "net_load_forecast"}
Never == -1
NoRow == [hour |-> Never]

ASSUME ErcotAssumption ==
  /\ PerHour \in {1, 2, 3, 4} /\ HoursPerDay \in Nat \ {0} /\ Days \in Nat \ {0}
  /\ CutoffHour \in 0 .. HoursPerDay - 1
  /\ Profiles \in [Forecasts -> SUBSET [Hours -> Nat]]
  /\ RtmPaths \subseteq [0 .. Days * PerDay - 1 -> Nat]
  /\ Horizon \in Nat /\ MinObs \in Nat /\ MaxReports \in Nat /\ MaxRuns \in Nat
  /\ Limits \in [{"live", "backfill"} -> Nat]
  /\ Ranges \subseteq {t \in Instants : t % PerDay = 0} \X Instants
  /\ Chunk \in Nat \ {0}
  /\ Pct \in (Nat \ {0}) \X Nat /\ Pct[1] < Pct[2]

NoFetch == [h \in Hours |-> Never]

Init ==
  /\ now = 0
  /\ rtm \in RtmPaths
  /\ reports = {}
  /\ store = {} /\ parts = 0
  /\ cursor = 0 /\ stop = 0 /\ position = 0
  /\ frame = {}
  /\ runs = 0
  /\ whole = [s \in Forecasts |-> NoFetch]
  /\ fetched = [s \in Forecasts |-> NoFetch]

Content(series, publish, at, value) ==
  [series |-> series, publish |-> publish, at |-> at, value |-> value]
-------------------------------------------------------------------------------
(***************************************************************************)
(* ERCOT and the hosted service (external).                                *)
(***************************************************************************)
Tick ==
  /\ now + PerHour \in Instants
  /\ now' = now + PerHour
  /\ UNCHANGED <<rtm, reports, store, parts, run, runs, whole>>

\* A report states a value for each of the next hours; it replaces what earlier
\* reports stated for them.
Publish(s) ==
  /\ Cardinality({<<r.series, r.publish>> : r \in reports}) < MaxReports
  /\ \A r \in reports : r.series = s => r.publish < now
  /\ \E mw \in Profiles[s] :
       reports' = reports \union
         {Content(s, now, h, mw[h]) : h \in {g \in Hours : now < g /\ g <= now + Horizon * PerHour}}
  /\ UNCHANGED <<now, rtm, store, parts, run, runs, whole>>

\* The quarters that are over; a price is stated to be published at its start.
Realized == {Content("rtm_spp", q, q, rtm[q]) : q \in {p \in DOMAIN rtm : p < now}}

Dataset(s) == IF s = "rtm_spp" THEN Realized ELSE {r \in reports : r.series = s}
-------------------------------------------------------------------------------
(***************************************************************************)
(* The transport.                                                          *)
(***************************************************************************)
\* _transport(): an injected one, the one resolved before, the hosted one if
\* its key is set, the direct one if not.
Transport(injected, resolved, key) ==
  CASE injected # "none" -> injected
    [] injected = "none" /\ resolved # "none" -> resolved
    [] OTHER -> IF key THEN "hosted" ELSE "direct"

\* The direct transport has no forecast of the net load.
Offers(transport, s) == transport # "direct" \/ s # "net_load_forecast"

\* _date_str: a bound is a date, whatever the hour.
DateStr(t) == (t \div PerDay) * PerDay

\* What is asked for: what starts in the range.
Span(from, to) == DateStr(from) .. DateStr(to) - 1
Asked(s, from, to) == {r \in Dataset(s) : r.at \in Span(from, to)}

\* _get_dataset and the fetches: the answer is cut at the limit; the service does
\* not say which rows it leaves out.
GetDataset(s, from, to, limit) ==
  LET rows == Asked(s, from, to)
  IN  IF Cardinality(rows) <= limit THEN {rows} ELSE kSubset(limit, rows)

\* The mappers to the canonical schema, and the parsers from it: each keeps the
\* instants and the one value of its series.
Canonical(rows) ==
  {[interval |-> r.at, published |-> r.publish, mw |-> r.value] : r \in rows}

Parse(s, rows) == {Content(s, r.published, r.interval, r.mw) : r \in rows}

\* parse_rtm_spp raises unless the hub is in the answer.
Parses(s, rows) == s = "rtm_spp" => rows # {}
-------------------------------------------------------------------------------
(***************************************************************************)
(* The backfill.                                                           *)
(***************************************************************************)
\* extract_long: the realized prices, then the forecasts.
Order == <<"rtm_spp", "load_forecast", "available_capacity", "net_load_forecast">>

ChunkEnd == IF cursor + Chunk < stop THEN cursor + Chunk ELSE stop

NextChunk(from, to) ==
  /\ cursor' = from /\ stop' = to
  /\ position' = 1
  /\ frame' = {}
  /\ fetched' = [s \in Forecasts |-> NoFetch]

End ==
  /\ cursor' = 0 /\ stop' = 0 /\ position' = 0
  /\ frame' = {}
  /\ fetched' = [s \in Forecasts |-> NoFetch]

\* backfill(start, end, chunk_days)
Start ==
  /\ position = 0
  /\ runs < MaxRuns
  /\ runs' = runs + 1
  /\ \E range \in Ranges : range[1] < range[2] /\ NextChunk(range[1], range[2])
  /\ UNCHANGED <<now, rtm, reports, store, parts, whole>>

\* One fetch of extract_long.
Fetch ==
  /\ position \in DOMAIN Order
  /\ LET s == Order[position]
     IN  \E rows \in GetDataset(s, cursor, ChunkEnd, Limits["backfill"]) :
           /\ Parses(s, rows)
           /\ frame' = frame \union Parse(s, Canonical(rows))
           /\ fetched' =
                IF s \in Forecasts /\ rows = Asked(s, cursor, ChunkEnd)
                THEN [fetched EXCEPT ![s] =
                        [h \in Hours |-> IF h \in Span(cursor, ChunkEnd) THEN now ELSE Never]]
                ELSE fetched
  /\ position' = position + 1
  /\ UNCHANGED <<now, rtm, reports, store, parts, cursor, stop, runs, whole>>

\* store.write(extract_long(...)), and the next chunk.
Write ==
  /\ position > Len(Order)
  /\ store' = store \union [content : New(store, frame), part : {parts + 1}]
  /\ parts' = parts + (IF New(store, frame) = {} THEN 0 ELSE 1)
  /\ whole' = [s \in Forecasts |-> [h \in Hours |->
                 IF fetched[s][h] # Never THEN fetched[s][h] ELSE whole[s][h]]]
  /\ IF ChunkEnd < stop THEN NextChunk(ChunkEnd, stop) ELSE End
  /\ UNCHANGED <<now, rtm, reports, runs>>

\* The hub has no price in the range yet, or the service fails to the last
\* retry: the run ends, earlier chunks stay.
Abort ==
  /\ position > 0
  /\ End
  /\ UNCHANGED <<now, rtm, reports, store, parts, runs, whole>>

Next == Tick \/ Start \/ Fetch \/ Write \/ Abort \/ \E s \in Forecasts : Publish(s)

Spec == Init /\ [][Next]_vars
-------------------------------------------------------------------------------
(***************************************************************************)
(* Serving: what the adapter answers at an instant.                        *)
(***************************************************************************)
Lookback == 2 * PerDay    \* _ASOF_FETCH_LOOKBACK, and _ASOF_FETCH_HORIZON

\* What the service answers around asOf, and what was known of it at asOf.
AsOfAnswers(s, asOf) == GetDataset(s, asOf - Lookback, asOf + Lookback, Limits["live"])
Uncut(s, asOf) == AsOfAnswers(s, asOf) = {Asked(s, asOf - Lookback, asOf + Lookback)}

\* Mutant: what was published after the cutoff is served.
LatestPerInterval(s, rows, asOf) ==
  AsOfSnapshot([content : Parse(s, Canonical(rows)), part : {0}], now)

LatestKnownPerInterval(s, rows, asOf) ==
  AsOfSnapshot([content : Parse(s, Canonical(rows)), part : {0}], asOf)

The(set) == CHOOSE x \in set : TRUE

\* reserve_forecast_as_of: the load, and the capacity and the margin where the
\* adequacy report has the interval.
ReserveForecastAsOf(loadRows, capacityRows, asOf) ==
  LET load == LatestKnownPerInterval("load_forecast", loadRows, asOf)
      cap == LatestKnownPerInterval("available_capacity", capacityRows, asOf)
  IN  [h \in DOMAIN load \intersect DOMAIN cap |->
         [capacity |-> The(cap[h]), margin |-> The(cap[h]) - The(load[h])]]

\* diff(): the change from the interval known before; none for the first one.
Before(h, known) == {g \in DOMAIN known : g < h}
Gradient(known) ==
  [h \in {g \in DOMAIN known : Before(g, known) # {}} |->
     The(known[h]) - The(known[Max(Before(h, known))])]

\* net_load_gradient_as_of
NetLoadGradientAsOf(rows, asOf) ==
  Gradient(LatestKnownPerInterval("net_load_forecast", rows, asOf))
-------------------------------------------------------------------------------
(***************************************************************************)
(* Training: the calibration dataset, from the store.                      *)
(***************************************************************************)
Day(t) == t \div PerDay
HourOf(t) == (t \div PerHour) * PerHour
HourOfDay(t) == t % PerDay

\* The decision instant of an hour's day: 18:00 there, the day before.
AsOf(h) == (Day(h) - 1) * PerDay + CutoffHour * PerHour

\* to_hourly_integrated: the mean of the quarters there are, in twelfths.
QuartersOf(rows, h) == {r \in Contents(Read(rows, "rtm_spp")) : HourOf(r.at) = h}
Hourly(rows, h) ==
  (12 * MapThenSumSet(LAMBDA r : r.value, QuartersOf(rows, h))) \div Cardinality(QuartersOf(rows, h))

HourlyHours(rows) == {h \in Hours : QuartersOf(rows, h) # {}}

\* numpy.quantile, interpolated between the two ranks around it, Pct[2]-fold.
Quantile(price) ==
  LET pos == (Size(price) - 1) * Pct[1]
      lo == pos \div Pct[2] + 1
      rest == pos % Pct[2]
      hi == IF lo < Size(price) THEN lo + 1 ELSE lo
  IN  KthSmallest(price, lo) * (Pct[2] - rest) + KthSmallest(price, hi) * rest

\* What the same hour of the days before was priced.
PastPrices(rows, h) ==
  [g \in {k \in HourlyHours(rows) : k < h /\ HourOfDay(k) = HourOfDay(h)} |-> Hourly(rows, g)]

\* spike_label_hod_percentile: above the quantile of the same hour of the days
\* before, if there are enough of them.
SpikeHodPercentile(rows, h) ==
  LET past == PastPrices(rows, h)
  IN  /\ Size(past) >= MinObs /\ Size(past) > 0
      /\ Hourly(rows, h) * Pct[2] > Quantile(past)

\* The two predictors as known at the cutoff; the margin is that of the net load.
Predictors(rows, h) ==
  LET cap == AsOfSnapshot(Read(rows, "available_capacity"), AsOf(h))
      net == AsOfSnapshot(Read(rows, "net_load_forecast"), AsOf(h))
  IN  {[capacity |-> The(cap[g]), margin |-> The(cap[g]) - The(net[g]),
        gradient |-> Gradient(net)[g]] :
         g \in {h} \intersect DOMAIN cap \intersect DOMAIN Gradient(net)}

\* build_calibration_dataset: an hour with a price and both predictors.
TrainingRows(rows, h) ==
  {[predictors |-> p, spike |-> SpikeHodPercentile(rows, h)] :
     p \in IF QuartersOf(rows, h) # {} THEN Predictors(rows, h) ELSE {}}
-------------------------------------------------------------------------------
(***************************************************************************)
(* Properties.                                                             *)
(***************************************************************************)
ContentSet ==
  [series : Forecasts \union {"rtm_spp"}, publish : Instants, at : Instants, value : Nat]

\* Type invariant; a chunk is not empty, and nothing is stored, through mapper and
\* parser, that ERCOT did not state.
TypeOK ==
  /\ now \in Instants
  /\ reports \subseteq ContentSet
  /\ \A r \in store : r.part \in 1 .. parts
  /\ frame \union Contents(store) \subseteq reports \union Realized
  /\ position \in 0 .. Len(Order) + 1
  /\ position > 0 => cursor < ChunkEnd /\ ChunkEnd <= stop
  /\ runs \in 0 .. MaxRuns

\* What ERCOT had stated of an hour at an instant.
Knowledge(s, h, asOf) ==
  LET known == {r \in reports : r.series = s /\ r.at = h /\ r.publish <= asOf}
  IN  {r.value : r \in {q \in known : \A p \in known : p.publish <= q.publish}}

\* The store is a time machine: for an hour that a backfill had in full at some
\* instant, reading it as of any earlier instant gives what ERCOT had stated
\* by that earlier one (reports appear on the hour), and one value, however many
\* vintages were stored, by whichever runs, in whichever order.
ViewIsKnowledge ==
  \A s \in Forecasts : \A asOf \in Hours :
    LET view == AsOfSnapshot(Read(store, s), asOf)
    IN  \A h \in {g \in Hours : asOf < whole[s][g]} :
          IF h \in DOMAIN view
            THEN view[h] = Knowledge(s, h, asOf) /\ Cardinality(view[h]) = 1
            ELSE Knowledge(s, h, asOf) = {}

\* No look-ahead: a row of the training set is what it would be if nothing had
\* been stored that was published after the cutoff of its day, or that is about
\* a later hour.
InTime(rows, h) ==
  {r \in rows : /\ r.content.at < h + PerHour
                /\ r.content.series = "rtm_spp" \/ r.content.publish <= AsOf(h)}

TrainingStands == \A h \in Hours : TrainingRows(store, h) = TrainingRows(InTime(store, h), h)

\* The model is served what it was trained on: for an hour that follows another
\* known one, both stored in full after the cutoff, the capacity and the ramp in
\* the training set are those the adapter answers at the cutoff, unless its
\* answer was cut at the limit.
ServingMatchesTraining ==
  \A h \in Hours : \A row \in TrainingRows(store, h) :
    LET asOf == AsOf(h)
        nets == AsOfAnswers("net_load_forecast", asOf)
        loads == AsOfAnswers("load_forecast", asOf)
        capacities == AsOfAnswers("available_capacity", asOf)
    IN  /\ \A s \in Forecasts : \A g \in {h - PerHour, h} : asOf < whole[s][g]
        /\ Knowledge("net_load_forecast", h - PerHour, asOf) # {}
        /\ \A s \in Forecasts : Uncut(s, asOf)
        => /\ row.predictors.gradient = NetLoadGradientAsOf(The(nets), asOf)[h]
           /\ Knowledge("load_forecast", h, asOf) # {} =>
                row.predictors.capacity =
                  ReserveForecastAsOf(The(loads), The(capacities), asOf)[h].capacity
===============================================================================
