# Verification of the Compute Quant Lab

TLA+ models, TLC runs and TLAPS proofs for the program in this repository: the
collection of GPU rental prices and of energy prices with their stores, the index
and the services computed from them, the studies over both, a backtest engine with
a desk on top, and the machine-learning validation around it. Paths below are
relative to the repository root (`src/` in `PROJECT.json`).

Contents: 1 inventory, 2 modules and the code they model, 3 runs, 4 fairness,
5 proofs, 6 findings and known limits of the code, 7 what is not modelled, 8 plan.

## 1. Inventory of the system

Everything is Python (two small Rust kernels mirror Python loops). There is no
server process and no thread of the system's own: concurrency comes from
scheduled runs that share a directory or a branch, persistence from CSV and Parquet
files, and most of the difficulty from time: which value was known at which instant.

| Part (directory) | State it keeps | Operations | What is hard | What makes it correct |
|---|---|---|---|---|
| Collector (`infra/collectors/gpu_price_snapshot.py`, `core/ingestion/gpu_market.py`) | none in memory between runs | `snapshot`: fetch, CSV append, Parquet write | killed between any two file operations; replay; overlap of two runs | what a completed run collected stays in both stores, once |
| CSV store (`core/ingestion/snapshot_store.py`) | one file a month | `load`, `append`, `_ensure_header_has` | three generations of headers, rewriting in place, buffered writes | rows survive, are read back under the right columns, one a key |
| Price lake (`core/storage/parquet_store.py`, `schema.py`) | immutable part files by source and month | `write`, `read(as_of, source)` | check-then-act anti-join, several files a write | an append-only journal without duplicates |
| Migration (`core/storage/migrate.py`, `converters.py`) | none | `migrate_csv_snapshots` | replay at any time, stripped columns | idempotent; brings nothing that was not observed |
| Scheduling (`.github/workflows/collect.yml`, `collect.ps1`) | a git branch | checkout, collect, commit, push | concurrency group on one side, nothing on the other; replaced and lost runs, a branch that moved | no overlap; no run loses the rows of another |
| Providers (`core/ingestion/providers`, `core/utils/net.py`) | none | `fetch_all`, calls, parsing, retry | one venue fails, listings change between two calls, a unit and a lease for each venue | an offer states the price of a machine that was listed; a failure costs one venue |
| Energy store (`core/storage/energy_store.py`) | part files with publication times | `write`, `read(series, as_of)` | revisions beside what they revise, kills in a write | a content once; as of an instant, what was known |
| Energy backfills (`infra/collectors/*_backfill.py`) | none between runs | chunked download with retries | restarts, gaps believed only after the last attempt, aborts between chunks, truncated answers | a range that was completed reads like the market |
| ERCOT adapter (`core/ingestion/energy`) | none | transport, parsers, latest vintage known | publication delay, supersession, row limit | serves what the model was trained on |
| Point-in-time features (`core/features`) | none | vintages, lags, rolling means, differences | revisions that arrive later | nothing published later is used |
| Spot index (`core/ingestion/compute_index.py`, `estimators.py`) | none: a function of the store and the instant | `build_spot_index` | stale sources, relayed copies, outliers, late rows | a fix depends on fresh, direct, credible rates of its window only |
| Benchmark (P13), service (P14) | rows cached by a page | grids, report, `read_market`, signal, alerts | they repeat the index's reduction, read the store several times | they agree with the index; what they said of the past stands |
| MCP price server (`infra/mcp-servers`) | none | latest price, history, statistics, SQL | reads a lake that is being written, with a reduction of its own | point-in-time answers, in agreement with the service |
| Backtest (`core/backtest`), signals (`core/signals`, P02) | strategy objects that outlive runs | `run`: signals, then accumulation | look-ahead, state carried between runs, hysteresis | causal and reproducible decisions; returns paid on earlier positions |
| Desk (`projects/10_portfolio_execution`) | buffer, previous signals, records | signals to a clipped net position, costs, attribution | several producers in step, one object for many runs, indices one apart | attribution adds up to the return of the engine |
| Model validation (`core/models`) | none | labels, features, `PurgedKFold.split`, `oos_predict` | labels that look ahead, missing rows | no label crosses a fold boundary |
| Pricing (`core/pricing`) | none | as-of alignment, spark spread, kernels | stale legs | as-of only looks back |
| Studies (P02, P03, P05, P07, P09) | none | datasets from the stores, basis, volatilities, training sets | rerun on data that grew, partly missing, or revised | results about the past stand; real and generated data are not mixed |
| Curves and futures (P04, P06) | none | library numerics over the above | real-valued formulas | outside a model checker's reach |

How they interact: the scheduler starts the collector; the collector calls the
providers and writes first the CSV files, then the lake, without a transaction, and
the workflow pushes both. The migration copies CSV rows into the lake. The backfills
fill the energy store. Index, benchmark, service and MCP server read the lake and
recompute everything for the instant they are asked about. Projects read the lake or
the energy store (or a live feed, or a synthetic series) and hand price series to
the backtest engine, which calls back into a strategy at each instant; the desk is
such a strategy, with several signal producers of its own. A strategy of P09 reads
probabilities that `oos_predict` computed earlier.

`PROJECT.json` lists each part with its status, and each hazard at its line with
the properties that are there for it.

## 2. Modules

| Module | Models | Correspondence |
|---|---|---|
| `Observations` | `core/ingestion/protocols.py` | a reading is an instant, a venue and an offer; `DedupKey` and `Content` are the two notions of "the same reading" (CSV key, lake key) |
| `CsvFiles` | `snapshot_store.py` | a file is the layout its first line gives it plus the rows `csv.DictReader` would return; layouts include the accidental ones (empty file, a data row taken for a header, undecodable) |
| `ObservationJournal` | promise of `parquet_store.py` | abstract store: entries are only added, in fresh parts, of published readings, never twice |
| `SnapshotCollector` | collector, both stores, migration | one action for each file operation: open, truncate, write back (`RewriteSome`, any part of the lines, then `RewriteFile`), flush, lake read, part file; `pc` is the place in the code, the other per-process variables are its locals. `Crash` is a kill or an unexpected exception at a control point of `CrashAt`; `Serialized` says whether the scheduler excludes overlap |
| `Venues` | the seven parsers | the machines that a venue lists, seen through each API (units, leases, bundles), and what its parser makes of the answer |
| `Collection` | `collect.yml`, `providers/__init__.py`, `net.py` | runs of the workflow with the concurrency group, checkout and push; `Answer`, `Retry`, `GiveUp` and `Refused` are the ways a request ends; listings change (`Relist`) between two calls |
| `EnergyStore` | `energy_store.py` and the three places that reduce it to what was known | `New` is the anti-join, `Known` the cutoff, `AsOfSnapshot` the last vintage; operators, used by the next three |
| `EntsoeBackfill` | `entsoe_backfill.py`, the energy loaders of P02 and P05 | one action for each outcome of a query (no answer at all included) and for the write of a chunk; `Kill` may leave part of a write; the studies' choice between store, market and generator as operators of the state |
| `ErcotForecasts` | `ercot.py`, `ercot_transport.py`, `ercot_backfill.py`, the dataset and labels of P07 | reports are published and supersede one another while a backfill stores them; serving and training are operators, one over the live answers, one over the store |
| `RobustStatistics` | `estimators.py` | median, MAD filter, trimmed and weighted means on integers: doubled medians and fractions, so every comparison is exact |
| `SpotIndex` | `compute_index.py`, the reduction of `dispersion.py` and `views.py` | the store grows by cohorts (`Observe`) and late batches (`ObserveLate`); `Fix(rows, t)` is `build_spot_index`, `Retained` and `Cheapest` are the view, which does not prefer direct venues |
| `PriceService` | MCP server, benchmark, signal, alerts, the two pages | extends `SpotIndex`; each answer is an operator of the store, and a page takes the store of each of its reads, so that a collection may overtake it between any two |
| `Backtest` | `engine.py`, `guards.py`, `reference_loop.py`, the Rust kernel, `MeanReversionSignal` | `Start`, one step of phase 1 for each instant, `PhaseTwo`, one step of phase 2, `Finish`; `Fail` and `ReadRaises` leave a run half done. z-scores are compared by their squares, so they are exact too |
| `Desk` | `desk.py`, `portfolio.py`, `execution.py`, `run_desk.py`, the signal producers | extends `Backtest` by a strategy; `desk` is the object that survives from run to run. Signals, weights and positions are integers of fixed grain, rounded towards zero |
| `PurgedValidation` | `validation.py`, `pipeline.py`, `build_ml_proba` of the desk | a row is an instant with all features and a label; `First` is `np.array_split`; one `Predict` for each fold |
| `SpreadStudies` | `pricer.py`, the datasets of P02, P03 and P05, `core/features`, labels | data arrives instant by instant, with gaps and revisions; the basis has fixed hours, whose prices backfills store in any order and the loader carries forward; a study is an operator of the state, so its result at one state can be compared with the next |
| `MC*` | instances | offers, histories and quotes of the runs |
| `FiniteInduction` | lemmas | least and greatest elements, induction over finite sets by their size, that folds over finite sets exist, sums (split, added, scaled, exchanged, bounded), products, the square of a sum |
| `*Proofs` | theorems | section 5 |

Operators that a comment calls *mutant* are plausible bugs; no definition uses
them. `PROJECT.json` names, for each property, the mutant that breaks it.

Composition: `PriceService` over `SpotIndex` over `RobustStatistics`; `Desk` over
`Backtest`; `Collection` over `Venues`; both backfills and the features over
`EnergyStore`; the collector over `CsvFiles` and `Observations`, refining
`ObservationJournal`.

Abstractions. An offer keeps its product, one value for price and availability,
one for the optional columns, and its provenance flag. The order in which the append
loop handles a batch is left open. Instants are small integers, months and days a
function of them. Prices are small naturals. Returns are kept as an integer gain over
a base, beside a cost in basis points, so no rounding is modelled; the desk's weights
are rounded, and `AttributionAddsUp` says what holds of the rounded ones. A fitted
model is the set of rows it was fitted on. A truncated answer is any subset of its
size. Equal publication times leave every value that row order can choose.

## 3. Runs

`expect: pass` unless said otherwise.

| Run | Question | Bounds, and why they are enough |
|---|---|---|
| `collector_crash` | one run at a time, one kill anywhere, one replay or migration: duplicates, order of the stores, provenance, journal refinement | two venues and two conflicting offers of one product (so CSV key and lake content differ), three instants over two months, a legacy file. One kill leaves each of the intermediate states, a header upgrade that wrote a part of the lines back among them; another run then meets it |
| `collector_quiet` | kills anywhere except while a CSV file is open; liveness | one venue, two replays, so that a killed run is made up for and replayed again |
| `collector_overlap` | two collectors without a lock, one kill | two processes reach each interleaving of two file operations; a third one adds no new pair |
| `header_upgrade_killed` (violation) | kill between truncation and rewriting | section 6 |
| `collection` | what a batch holds, and what reaches the branch | two triggers (the group holds one running and one waiting run), every venue on its own and two pairs (a call, two calls, in both orders of the registry), two retries, a change of a listing, a kill, a push of somebody else; two machines with different bundles, one of them without a spot price |
| `entsoe_backfill` | what repeated, killed and overlapping backfills leave, and what the studies read | two zones, four intervals in chunks of two (two chunks share a bound), two attempts, two runs, one kill in a write, one correction by the market; markets that are whole, have holes, or lack a zone |
| `ercot` | the store as of any instant, the training set, what is served | two days of two hours of two quarters, so that a label has one past hour and a report crosses the midnight that date bounds are cut at; three reports, so that one supersedes another; limits of 3 and 4 rows, so that answers are cut and are not |
| `index_fix` | one instant, four direct venues and a relay, cohorts of two offers | four voters are the fewest that a 25 % trim trims; prices 4, 5 and 20 make halves, a zero deviation and an outlier |
| `service` | three instants, a direct venue and its relayed copy, one late batch: fixes and everything served from them | the window is two instants wide, so at instant 3 something is fresh, something stale, something late; a fix every second instant, so that a grid has a fix after the last reading; three rules of both kinds; a page overtaken after each of its reads, with the clock before and after the collection |
| `backtest` | two runs in sequence over all series of up to four prices, each with any of the strategies | the window is three prices, so four give two scores; two runs give every pair of histories the causality property compares; the desk has three producers and a limit that is reached |
| `purged_validation` | all subsets of nine instants, two to four folds, horizon and embargo up to two | blocks of unequal and of equal sizes, gaps on either side of each boundary |
| `studies` | studies run again on data that grew | four to six instants for each study but the basis: enough for two fixes on either side of a missing one, a revision of each instant that a feature reads, and a volatility window behind the last one. The basis has three hours, so that a late price comes before, at and after one that is carried, and two instants of snapshots, which change its compute leg |

All checked properties stand in the module they speak about, each with a comment.
The ones worth reading first: `LakeIsJournal`, `LakeBehindCsv`, `CsvKeepsRows`
and `ObservedReachesLake` (collector); `OffersAreListed` and `PushesSucceed`
(collection); `ColdEqualsLive` and `RealIsReal` (ENTSO-E); `ViewIsKnowledge` and
`ServingMatchesTraining` (ERCOT); `RelaysDoNotVote`, `RevisionsAreLocal`
(index); `AnswersStand` and `AlertsAreQuoted` (services); `DecisionsAreCausal`,
`HeldSinceEntry` and `AttributionAddsUp` (backtest and desk); `NoLabelReachesTest`
(validation); `StudiesStand` (studies).

Preconditions worth knowing.

- `CsvKeepsRows` and `CsvReadable` hold when no kill falls between the opening and the
  closing of a CSV file (`MCCrashBetweenFiles`); the violation run shows that the
  restriction is needed.
- `LakeNoDuplicates` needs the serialised scheduler or readings of different instants.
- `FixWhenFresh` is about `min_sources = 1` and a filter threshold of at least one
  deviation.
- `LakeBehindCsv` leaves out a month whose header upgrade was killed and never ended:
  its file may be readable and have a part of its rows only.
- `PushesSucceed` promises a fast-forward only as long as nobody else pushes.
- `ColdEqualsLive` is about intervals that completed runs covered and did not skip.
- `ViewIsKnowledge` is about hours whose answers were whole, `ServingMatchesTraining`
  about answers that were not cut, for hours that follow a known one.
- `AnswersStand` is about steps without late rows and, for published fixes and the
  trend of a page, about instants up to the last reading. Of a page that a collection
  overtakes it speaks once the page has taken its instant: the list of models comes
  from an earlier read and may be older.
- `BasisStands` is about regions that share an exchange rate, as the run log and the
  defaults of P05 have it; with a rate of its own in each region, every new fix would
  rewrite the basis of every hour.

Deadlock is not checked: every one of these programs may stop for good (no run is
owed, the bounds are reached, the last fold is done).

## 4. Fairness

- `SnapshotCollector!FairSpec`: weak fairness on `Step(p)`, the disjunction of
  everything a started process does by itself, for each process. The operating system
  runs a started process until it ends or dies, and no step waits for another process.
  Starting a run, replaying, migrating and being killed get no fairness: nobody owes
  them. `ObservedReachesLake` is claimed of executions without a kill; a killed run
  needs a human's replay.
- `Collection!Spec`: weak fairness on `Batch` and on `Step(r)`. Every request carries
  a time-out (`net.py`), so it ends in one of the four ways of `Batch`, none of which
  is owed in particular; GitHub carries out the steps of the jobs it holds. Triggers,
  kills and pushes of others get none. `RunsEnd` then says that retries, errors and
  replaced runs cannot keep the group occupied.
- `EntsoeBackfill!Spec`: weak fairness on `Step`: the process goes on, and a query ends
  in an answer or in an error, or does neither. The client is built without a time-out
  (`entsoe_backfill.py:198`) and does not go through `net.py`, so nothing in the code
  ends a connection that stays silent: `Hang` is one of the ways of `Step`, and only a
  kill leads out of it. A query may fail in every way each time; `RunsEnd` says
  that attempts and chunks come to an end all the same, in the end of the run or
  in a query that hangs.

The other modules state safety only: their programs are sequences of steps without
waiting, or operators of a state.

## 5. Proofs

TLAPS checks every theorem below, for any number of processes, venues, months, zones,
machines, instants, kills and replays, where TLC's runs have a few. The assumptions are
those the modules name: `ObservationsAssumption`, `CollectorAssumption`,
`CollectionAssumption`, `BackfillAssumption`, `ErcotAssumption`, `SpotIndexAssumption`,
`BacktestAssumption`, `DeskAssumption`, `ValidationAssumption`,
`SpreadStudiesAssumption`. They type the constants and state what the constructors of
the code reject (a window below two, a chunk of nothing); `SpotIndexAssumption` adds
that there are finitely many sources, `DeskAssumption` that the grains the desk's
fractions are kept in divide what they have to, `SpreadStudiesAssumption` that a missing
value is not a number. Two hypotheses are about the environment and stand in the
theorems that need them: `Serialized` (the scheduler excludes overlap, as the
concurrency group of `collect.yml` does) and `NoKillInFile` (no kill between the opening
and the closing of a CSV file). The run `header_upgrade_killed` shows that the second
one cannot be dropped.

Each invariant is inductive together with the strengthening named beside it, and TLC
checked each strengthening on the run of its module before it was proved. A proof of
preservation has a step for each action and, under it, one for each conjunct that the
action disturbs.

`FiniteInduction` holds what the proofs share. The library's induction theorems take
an operator as a parameter and cannot be instantiated; the facts needed about finite
sets are proved here once, by a least counterexample over cardinalities. Sums and
products are unfolded one element at a time, after `FoldsExist` has shown that the
recursive function behind them is there; `SumOfSums` exchanges the order of two sums,
`SumOfSquares` bounds the square of a sum.

`SnapshotCollectorProofs`
- `TypeCorrect`: types of all variables.
- `CompletedRunsDurable` (`AckedInLake`). Inductive with `BatchCovered`: during a
  lake write each content of the batch is in the lake or pending. Without it the
  step that acknowledges a batch says nothing. It needs no scheduler.
- `LakeUnique` (`LakeNoDuplicates`), assuming `Serialized`. Inductive with `OneRun`,
  `PendingDistinct` and `PendingNew`: the anti-join stays valid until the last
  part file because nobody else writes.
- `StoredRowsGenuine` (`NothingInvented`). Inductive with `RowsPublished`, which
  follows rows through the locals and keeps the provenance column in the
  header a row is written under.
- `LakeImplementsJournal` (`LakeIsJournal`), assuming `Serialized`: the initial
  lake is an empty journal, `WritePart` maps to `Record`, `Collect` to
  `Publish`, all other steps to stutters. It uses `PartsNamed` for the fresh
  part and the invariants above for fresh content.
- `CsvUnique` (`CsvOneRowPerKey`) and `CsvFirst` (`LakeBehindCsv`), assuming
  `Serialized`. Both follow from `CsvInv`: what a run has handled is in the files or in
  what it is about to write (`SeenOk`, `NewOk`), what it buffers while a header is being
  upgraded is what the file held (`UpgradeOk`), a file it creates is not there yet
  (`FreshOk`), and the batch for the lake has passed the files (`BatchOk`). A kill
  drops the locals and may leave a file without its header, or with a part of the lines
  that were to be written back, so `KeptIsCovered` speaks of readable files outside
  `upgrading`, the months whose header upgrade began and has not ended.
- `CsvDecodes` (`CsvReadable`) and `CsvKeeps` (`CsvKeepsRows`), assuming `Serialized`
  and `NoKillInFile`. `CleanInv` adds that the one file that can be empty or half
  written is the one in the hands of the run.

`CollectionProofs`, from `IInv` = `JobInv` and `BatchInv`
- `CollectionTypes`.
- `OffersAreOfListings` (`OffersAreListed`): with `ListingsAreSeen`, what an
  earlier call answered is remembered as a listing; then parser by parser.
- `AnswersAreKept` (`AnsweredIsKept`): `BehindIsKept` says that of every venue behind
  the place in `PROVIDERS`, whose offers later venues only add to.
- `GroupSuffices` (`PushesSucceed`): `OneInProgress`, and while nobody else pushed, no
  run is refused and the tree of the running one is the branch.

`EntsoeBackfillProofs`, from `IInv`
- `BackfillTypes`.
- `PricesAreStoredOnce` (`NoPriceTwice`): `OneRowPerContent`, over kills inside a write.
- `LakeReplacesLiveCall` (`ColdEqualsLive`): `CoveredIsStored` needs that everything due
  behind the chunk is stored (`BehindIsStored`) and that in the chunk, what the zones
  asked so far returned is in the frame (`AskedIsFramed`).
- `FramesAreReal` (`RealIsReal`): `AllSourced`, each content was a price of the market;
  the alignment of two zones then only carries such prices forward.

`ErcotForecastsProofs`, from `IInv`
- `ForecastTypes`.
- `ViewsAreKnowledge` (`ViewIsKnowledge`): `StoreHolds` and `FrameHolds`, of an hour
  fetched in full as of an instant every report that was there by then is kept.
- `TrainingStays` (`TrainingStands`): a training row is a function of the reports
  published by the instant it is known at.
- `ServedAsTrained` (`ServingMatchesTraining`): an answer that is not cut holds the same
  reports of an hour as the store, and from there on both paths compute the same.

`SpotIndexProofs`
- `TypeCorrect`, `FiniteStore`.
- `RevisedLocally` (`RevisionsAreLocal`): a fix is a function of `Fresh(store, t)`,
  and the store only grows.
- `RelaysNeverVote` (`RelaysDoNotVote`): removing relayed copies leaves the rates
  that survive `PreferDirect` as they were, hence all that follows.
- `FreshestAloneVotes` (`FreshestVotes`): removing superseded rows leaves every
  freshest cohort as it was.
- `FixedWhenFresh` (`FixWhenFresh`): at least one rate is within one deviation of the
  median, so the filter never empties a vote. This needs a threshold of one deviation
  or more, `KDen <= KNum`: with two rates both are exactly one deviation away, and a
  smaller threshold removes both. The code's default is two and a half.
- `EstimatesWithinVotes` (`EstimateWithinVotes`): for each estimator, from the
  arithmetic of means, of trimming at both ends by rank, and of ranks for the median.
- `AlertsQuoted` (`AlertsAreQuoted`): the price of an alert is the least rate of a cohort,
  which some row states.
- `AnswersKeep` (`AnswersStand`), an action property: an answer about a settled instant
  is a function of the rows up to it, and a step without late rows adds none. The page
  is taken apart by its reads (`OnePage`): its market is that of the instant it took,
  whichever store it is read from, and its trend that of the instants up to it.

`BacktestProofs`, from `IInv`, about `DeskSpec`
- `PointInTime` (`DecisionsAreCausal`): `DecidedFromPrices` says that there is a history
  of the strategy, from `New` by `Step` over the prices of this run alone, that
  explains memory, desk and positions; two such histories agree as long as prices do.
- `NextPeriodEarns` (`DecisionsEarnLater`) and `CostsAreOfTrades` (`CostsFollowPositions`):
  `AccumulatedFromPath`, each return is that of the path of positions, counted from flat.
- `PositionsHaveEntries` (`HeldSinceEntry`): by induction over a history.
- `AttributionIsComplete` (`AttributionAddsUp`), from `DeskInv` on top of `IInv`. `Booked`
  says of a desk run under way that each record's position is the sum of its shares and
  that the returns so far are those of the records, at no cost of the engine. It
  needs that clipping never bites, that is, that shares stay within one unit: weights
  are floors of shares of a total (`WeightsAreShares`), volatilities are numbers because
  a sum of squares outweighs the square of the sum, and the grains scale exactly
  (`DeskAssumption`). The attribution then equals the net result by `SumOfSums`.

`StudiesProofs`, validation (`PurgedValidation`)
- `TypeCorrect`.
- `TrainingLabelsEndBeforeTest` (`NoLabelReachesTest`) and
  `TestLabelsEndBeforeTraining` (`NoTestLabelReachesTraining`). The key is
  `RanksApart`: two rows are at least as far apart in instants as in row numbers,
  by counting the rows between them; so a purge that counts rows covers a label
  that counts instants.
- `AllRowsOutOfSample` (`EveryRowOutOfSample`), from `BlocksCover`: the blocks start at row 0,
  follow one another and end at the last row, for every number of rows
  and folds. `Inv` says that what is predicted is exactly the blocks of the past
  folds.

`StudiesProofs`, studies (`SpreadStudies`); action properties, from `StudiesTypes`
- `StudiesTypeCorrect`.
- `StudiesKeep` (`StudiesStand`). The steps only prolong the series (`GoesOn`), so the grids
  of snapshots, days and energy get later instants only (`WindowGoesOn`, `DaysGoOn`,
  `EnergyGoesOn`), the index over them keeps its fixes and gets later ones
  (`IndexGoesOn`), and what a study computes for an instant looks at points up to it:
  the spread (`SpreadStands`), returns and estimates (`ReturnsGoOn`, `EstimatesStand`),
  features and labels (`KnownStands`, `ExamplesStand`). A spread that was complete stays
  so, because a later energy price finds a fix to be carried forward.
- `BasisKeeps` (`BasisStands`): the basis is the difference of the costs of power
  (`BasisIsOfPower`), in which the level of the compute leg no longer occurs. A backfill
  only adds prices (`PricesStay`), so regions that are all priced remain so, and the price
  carried to an hour is replaced only by one stored at a later hour up to it (`LegStands`).

Only model-checked: `ObservedReachesLake` and the two properties `RunsEnd`. Liveness
under fairness is beyond the prover.

No module has a `RECURSIVE` operator.

## 6. Findings and known limits of the code

Checked as a violation:

1. `header_upgrade_killed`: `_ensure_header_has` opens the month's file for
   writing, which empties it, and only then writes the rows back. A run killed in
   between loses the month's rows from the CSV. The bytes written back are megabytes and
   reach the disk in several writes, so the file that a kill leaves may also be readable
   and have a part of its rows; `collector_crash` has these states too.

Met while modelling; each is what the code does, is kept in the models, and bounds
what the properties claim.

Storage and collection
- A run killed after creating a month's file and before its first flush leaves an
  empty file, which later runs take for one that has a header (`snapshot_store.py:194`):
  the next row becomes the header and `load` raises from the row after.
- A waiting run that a newer one replaces, and a run whose push is refused, lose
  their hour (`collect.yml`); no other run does.
- `EnergyColdStore.write` keeps a revised value beside what it revises. A reader that
  does not select by publication time gets both: `_read_cold_store` (P02) then
  returns an interval twice, and `reindex` in P05 raises.
- Any row in the range makes P02 and P05 prefer the cold store, however little of
  the range it covers (`data_sources.py:169`); `RealIsReal` shows that what is
  labelled real then still is, carried forward.
- `chunk_days = 0` makes a backfill loop for ever; the modules assume a positive one.
- An ERCOT day is cut at date bounds and at the row limit; with the default limit
  the answer that serves an instant may be that of an older report.
- Realised ERCOT prices are stated to be published at the start of their interval.

Index and services
- `dispersion.py:11-12` and `:46` promise that estimator and filter over the venue rates
  give the price of the index, and `views.py:45` that the venues shown have the outliers
  of the index rejected. Neither prefers direct venues, as the index does
  (`compute_index.py:215`): the relayed copy of a venue that is fresh itself is shown,
  moves the median that outliers are measured from, and counts in the estimate. One
  reading of each, at different prices, is enough; no property speaks of it, since without relayed copies
  the reductions are the same operators.
- `views.py` promises that an aberrant reading is never the cheapest; when more than
  half of the rates are equal the deviation is zero and the filter keeps everything.
- The exclusion of hyperscalers compares whole source ids; a relayed one would vote.
- The grid of the benchmark runs a window beyond the last reading, so fixes that are
  not settled are published and change with the next reading.
- A notifier that raises ends `evaluate` after some rules were sent; the caller learns
  of none and later rules are starved.
- The page of P14 reads the store four times, and its trend ends at the clock, not at the
  instant of its market (`app.py:136`): a collection in between puts a newer fix in the
  trend than the market beside it knows.
- The page of P13 keeps the rows it loaded first for as long as the server runs.

Studies and backtest
- The comment that a rolling z-score always crosses the exit zone before the opposite
  band does not hold; a jump keeps a position the score contradicts. A negative
  `z_exit` is accepted and then never met.
- The reserve margin that `reserve_forecast_as_of` serves is capacity minus load, that
  of the training set capacity minus net load (`ercot.py:393`, `ercot_dataset.py:81`).
- A gap in the net-load forecast makes its difference span several hours.
- An instant of energy before the first fix has no spread, and the tests of P02 then
  stop the run; the pricer carries a stale fix over gaps that
  `compute_index_series` leaves out.
- P03 takes the returns over missing days for those of single days.
- P05 lays the last fix over the whole past; with one exchange rate it cancels out of
  the basis, as `BasisStands` says.
- P05 carries an energy price over all hours that have none (`data.py:62`): one stored
  later rewrites the basis of the hours after it, up to the next price.
- The ENTSO-E client has no time-out; a query that never answers holds the backfill.

## 7. What is not modelled, and why

- Floating-point formulas: clearing oracle and kernels of the pricing, carry and
  futures, Monte-Carlo, GARCH, cointegration, Sharpe statistics, equal-risk
  contributions, fitted models. Their values are neither finite nor exact, and the
  interesting statements about them are numeric.
- Generators of synthetic data, except for the label that says they were used.
- Rendering: plots, reports, experiment tracking; of the pages, only what they read
  and when.
- The SQL passthrough of the MCP server: its semantics is DuckDB's.
- Within the modelled parts: file contents below the level of rows (a line that a
  kill tears in two has no state of its own), time zones (a
  timestamp without one stops the energy store's write) and dtypes, concurrent CSV
  writers at the byte level (two interleaved writes make the file `garbled`), names
  and currencies in the parsers, the back-off's length.
- In `SpreadStudies`, corrections of energy prices and the live client behind the energy
  leg of the basis: the choice among the three sources, and what revised rows do to it,
  are those of `EntsoeBackfill`.
- Configuration errors that a constructor rejects: constants satisfy the named
  assumptions.

## 8. Plan

Done, in the order of importance: collector and stores; index; backtest; validation;
collection; energy stores and backfills; ERCOT; services; desk; studies. Proved: every
invariant and action property of the passing runs.

Next:

1. A promise for the energy store like `ObservationJournal` for the lake, refined by
   both backfills, and the refinement proved.
2. The lake's promise under overlapping schedulers: which readings can be there twice.
