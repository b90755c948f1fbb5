------------------------------ MODULE PriceService ------------------------------
(***************************************************************************)
(* What is served from the store of readings: the MCP server (service.py), *)
(* the benchmark (P13) and the market view, its signal and its alerts      *)
(* (P14).  None of them keeps anything: every answer is recomputed from    *)
(* the store, each by a reduction of its own, so an answer is an operator  *)
(* of the state of SpotIndex.                                              *)
(***************************************************************************)
EXTENDS SpotIndex, Sequences

CONSTANTS FixEvery,       \* instants from one daily fix to the next
          Headline,       \* HEADLINE_MODELS
          Rules           \* the rules of the alert engine, in order

ASSUME PriceServiceAssumption ==
  /\ FixEvery \in Nat \ {0}
  /\ Headline \subseteq Products
  /\ Rules \in Seq([kind : {"price_below"}, threshold : Nat]
                     \union [kind : {"action_is"}, action : {"wait", "rent_now"}])
-------------------------------------------------------------------------------
(***************************************************************************)
(* The MCP server.                                                         *)
(***************************************************************************)
\* An omitted as_of is a cutoff beyond every instant.
Now == MaxInstant + 1

\* Mutant: the cutoff is parsed and not applied.
ReadAll(rows, asOf) == rows

\* store.read(as_of); without a cutoff, everything.
ReadAsOf(rows, asOf) == {r \in rows : r.at <= asOf}

ListGpuModels(rows, asOf) == {r.quote.product : r \in ReadAsOf(rows, asOf)}

Of(rows, product) == {r \in rows : r.quote.product = product}

\* Mutant: the cheapest offer a source ever made.
CheapestRowPerSource(rows) ==
  [s \in {r.source : r \in rows} |->
     CHOOSE r \in CohortOfAll(rows, s) :
       \A q \in CohortOfAll(rows, s) : r.quote.price <= q.quote.price]

\* Per source the cheapest offer of its last instant.
LatestRowPerSource(rows) ==
  [s \in {r.source : r \in rows} |->
     CHOOSE r \in FreshestCohort(rows, s) :
       \A q \in FreshestCohort(rows, s) : r.quote.price <= q.quote.price]

\* latest_price; the median is doubled.
LatestPrice(rows, product, asOf) ==
  LET subset == Of(ReadAsOf(rows, asOf), product)
      latest == LatestRowPerSource(subset)
      prices == [s \in DOMAIN latest |-> latest[s].quote.price]
  IN  IF subset = {} THEN [found |-> FALSE, models |-> ListGpuModels(rows, asOf)]
      ELSE [found |-> TRUE, bySource |-> latest,
            min |-> Min(Range(prices)), median |-> TwiceMedian(prices), max |-> Max(Range(prices)),
            asOf |-> IF asOf = Now THEN Max({r.at : r \in subset}) ELSE asOf]

\* price_history, of every lease and source.
PriceHistory(rows, product, start, asOf) ==
  {r \in Of(ReadAsOf(rows, asOf), product) : start <= r.at}

\* summary_stats; a mean is a fraction.
Stats(rows) ==
  LET price == [r \in rows |-> r.quote.price]
  IN  [count |-> Cardinality(rows), min |-> Min(Range(price)), max |-> Max(Range(price)),
       mean |-> [num |-> SumFunction(price), den |-> Cardinality(rows)],
       median |-> TwiceMedian(price)]

SummaryStats(rows, product, asOf) ==
  LET subset == Of(ReadAsOf(rows, asOf), product)
  IN  IF subset = {} THEN [found |-> FALSE]
      ELSE [found |-> TRUE, overall |-> Stats(subset),
            bySource |-> [s \in {r.source : r \in subset} |-> Stats(CohortOfAll(subset, s))],
            first |-> Min({r.at : r \in subset}), last |-> Max({r.at : r \in subset})]
-------------------------------------------------------------------------------
(***************************************************************************)
(* The benchmark.                                                          *)
(***************************************************************************)
DailyFixGrid(start, end) == {t \in start .. end : t % FixEvery = 0}

ObservedFixGrid(rows) == {r.at : r \in Of(rows, Product)}

\* summarize_history
SummarizeHistory(rows) ==
  IF rows = {} THEN [snapshots |-> 0, venues |-> {}, instants |-> 0]
  ELSE [snapshots |-> Cardinality(rows), venues |-> {r.source : r \in rows},
        instants |-> Cardinality({r.at : r \in rows}),
        first |-> Min({r.at : r \in rows}), last |-> Max({r.at : r \in rows})]

\* select_models: in two venues, or a headline that occurs.
MultiVenueModels(rows) ==
  {p \in Products : Cardinality({r.source : r \in Of(rows, p)}) >= 2}
SelectModels(rows) == MultiVenueModels(rows) \union (Headline \intersect ListGpuModels(rows, Now))

\* build_grid: up to a window after the last reading, for the fix that settles it.
BuildGrid(rows) ==
  LET history == SummarizeHistory(rows)
  IN  IF history.snapshots = 0 THEN {} ELSE DailyFixGrid(history.first, history.last + Staleness)

\* build_index_series: a fix that cannot be computed is skipped and recorded.
BuildIndexSeries(rows, grid) ==
  LET fixed == {t \in grid : Fix(rows, t).fixed}
  IN  [points |-> [t \in fixed |-> Fix(rows, t)], skipped |-> grid \ fixed]

\* dispersion_at: spread and extremes of the venues shown, if there are two.
DispersionAt(rows, t) ==
  LET kept == RateOf(Retained(rows, t))
  IN  IF Cardinality(DOMAIN kept) < 2 THEN [venues |-> DOMAIN kept, defined |-> FALSE]
      ELSE [venues |-> DOMAIN kept, defined |-> TRUE, cheapest |-> Cheapest(rows, t),
            spread |-> Max(Range(kept)) - Min(Range(kept))]

\* venue_levels: the rates of the venues over the fixes of the grid.
VenueLevels(rows, grid) ==
  UNION {LET shown == Retained(rows, t)
         IN  {[venue |-> s, at |-> t, rate |-> shown[s].rate] : s \in DOMAIN shown} : t \in grid}

\* build_report, and run(), which writes it.
BuildReport(rows, models, grid) ==
  [history |-> SummarizeHistory(rows),
   models |-> [p \in models \intersect {Product} |->
     LET index == BuildIndexSeries(rows, grid)
     IN  [index |-> index,
          dispersion |-> [t \in DOMAIN index.points |-> DispersionAt(rows, t)],
          levels |-> VenueLevels(rows, grid)]]]

RunBenchmark(rows) == BuildReport(rows, SelectModels(rows), BuildGrid(rows))
-------------------------------------------------------------------------------
(***************************************************************************)
(* The market view, its signal and its alerts.                             *)
(***************************************************************************)
\* price_curve: an instant without a fix has no price and no source.
PriceCurve(rows, times) ==
  [t \in times |-> LET fix == Fix(rows, t)
                  IN  IF fix.fixed THEN [price |-> fix.price, sources |-> fix.sources]
                                   ELSE [sources |-> 0]]

\* read_market: the venues shown beside the price of the index.
ReadMarket(rows, t) ==
  [at |-> t, venues |-> Retained(rows, t), cheapest |-> Cheapest(rows, t), price |-> Fix(rows, t).price]

\* NaiveSignalSource.assess: rent if the cheapest venue is below the median.
Assess(view) ==
  LET reference == view.venues[view.cheapest].rate
  IN  [venue |-> view.cheapest, reference |-> reference,
       action |-> IF 2 * reference < TwiceMedian(RateOf(view.venues)) THEN "rent_now" ELSE "wait"]

Matches(rule, signal) ==
  IF rule.kind = "price_below" THEN signal.reference <= 2 * rule.threshold
                               ELSE signal.action = rule.action

\* AlertEngine.evaluate: the events sent when the channel fails at the rule
\* `broken` (0: at none); the caller gets the list only if it does not.
Evaluate(view, broken) ==
  LET signal == Assess(view)
      fired == {i \in DOMAIN Rules : Matches(Rules[i], signal)}
      sent == IF broken \in fired THEN {i \in fired : i < broken} ELSE fired
  IN  [sent |-> {[rule |-> i, signal |-> signal, at |-> view.at] : i \in sent},
       returns |-> broken \notin fired]
-------------------------------------------------------------------------------
(***************************************************************************)
(* The two dashboards.  The page of the benchmark keeps the rows it loaded *)
(* first (st.cache_data); that of the market reads the store four times,   *)
(* so that a collection may come between two parts of one page.            *)
(***************************************************************************)
\* P13: the fixes drawn, at the canonical cadence or at every reading.
BenchmarkPage(cached, daily) ==
  BuildIndexSeries(cached, IF daily THEN BuildGrid(cached) ELSE ObservedFixGrid(cached))

\* _available_models: the fallback are the headlines.
AvailableModels(rows) ==
  IF MultiVenueModels(rows) = {} THEN Headline ELSE MultiVenueModels(rows)

\* _fix_instant: the last reading stored, of any product; the clock if there is none.
FixInstant(rows, clock) == IF rows = {} THEN clock ELSE Max({r.at : r \in rows})

\* The instants of the trend: a day apart, back from the clock.
CurveTimes(clock) == {t \in Instants : t <= clock /\ (clock - t) % FixEvery = 0}

\* P14: render(), for the product of the index.  The models, the instant, the
\* market and the trend are four reads of the store; without a market the page
\* ends before the last one.
Render(models, instant, market, trend, clock) ==
  LET t == FixInstant(instant, clock)
      shown == Product \in AvailableModels(models) /\ Fix(market, t).fixed
  IN  [models |-> AvailableModels(models), at |-> t,
       markets |-> IF shown THEN {ReadMarket(market, t)} ELSE {},
       curve |-> IF shown THEN PriceCurve(trend, CurveTimes(clock)) ELSE << >>]
-------------------------------------------------------------------------------
(***************************************************************************)
(* Properties.                                                             *)
(***************************************************************************)
\* What is served about an instant.
Served(rows, t) ==
  [latest |-> LatestPrice(rows, Product, t),
   history |-> PriceHistory(rows, Product, 1, t),
   stats |-> SummaryStats(rows, Product, t),
   curve |-> PriceCurve(rows, {t}),
   dispersion |-> DispersionAt(rows, t)]

\* The fixes up to an instant of the report, and of the pages.
FixesUpTo(t, points) == {<<u, points[u]>> : u \in DOMAIN points \intersect 1 .. t}

Reported(rows, t) ==
  LET models == RunBenchmark(rows).models
  IN  UNION {FixesUpTo(t, models[p].index.points) : p \in DOMAIN models}

Drawn(rows, daily, t) == FixesUpTo(t, BenchmarkPage(rows, daily).points)

\* The page when a collection comes after its first k reads.
PageOvertaken(k, clock) ==
  LET Read(i) == IF i <= k THEN store ELSE store'
  IN  Render(Read(1), Read(2), Read(3), Read(4), clock)

\* Pages of one instant that show the same market, and the same trend up to it.
SameMarket(page, quiet) ==
  /\ page.at = quiet.at /\ page.markets = quiet.markets
  /\ DOMAIN page.curve = DOMAIN quiet.curve
  /\ \A u \in DOMAIN quiet.curve : u <= page.at => page.curve[u] = quiet.curve[u]

StandsAsServed ==
  (\A r \in store' \ store : now < r.at) =>
    /\ \A t \in Past : Served(store', t) = Served(store, t)
    /\ Reported(store, now) \subseteq Reported(store', now)
    /\ \A daily \in BOOLEAN : Drawn(store, daily, now) \subseteq Drawn(store', daily, now)
    /\ store # {} => \A clock \in {now, now'} :
         \A page \in {PageOvertaken(k, clock) : k \in {2, 3}}, quiet \in {PageOvertaken(4, clock)} :
           SameMarket(page, quiet)

\* An answer about the past is final: as long as no late row arrives, neither
\* the MCP server nor the view says anything else of an instant that is over
\* than it said then; the next report and each page repeat the fixes of the last
\* ones up to their last reading, although none remembers what it said.  A page
\* that a collection overtakes after it took its instant shows the market of
\* that instant all the same, and the trend up to it; the trend beyond it, which
\* ends at the clock, may already have a fix that the market does not know.
\* (The fixes after the last reading, up to the end of the window, are published
\* all the same and do change.)
AnswersStand == [][StandsAsServed]_vars

\* The servers agree although each reduces the readings in its own way: a venue
\* that an alert names, whatever the channel did, is quoted by the MCP server at
\* the same instant, from readings of the same age, and not above the alert.
\* (A market of which every venue was rejected cannot be viewed.)
AlertsAreQuoted ==
  \A t \in {u \in Past : DOMAIN Retained(store, u) # {}} :
    LET view == ReadMarket(store, t)
        latest == LatestPrice(store, Product, t)
    IN  \A broken \in 0 .. Len(Rules) : \A event \in Evaluate(view, broken).sent :
          LET quote == latest.bySource[event.signal.venue]
          IN  /\ quote.at = view.venues[event.signal.venue].at
              /\ 2 * quote.quote.price <= event.signal.reference
===============================================================================
