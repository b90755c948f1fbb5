------------------------------ MODULE SpreadStudies ------------------------------
(***************************************************************************)
(* The studies built on the spark spread and on the index, each over data  *)
(* that goes on arriving: the spread of projects/02 (index, energy leg,    *)
(* pricer), the regional basis of projects/05, the volatilities of         *)
(* projects/03, and the training examples that the point-in-time features  *)
(* of core/features and the labels of core/models make.  A study is a      *)
(* program that is run now and then; what it gives on the data of the      *)
(* present instant is an operator of the state.                            *)
(*                                                                         *)
(* The hours of the basis are those of a fixed month; the cold store gets  *)
(* their prices by backfills, in any order (EntsoeBackfill has the         *)
(* corrections of the market and the live client).                         *)
(*                                                                         *)
(* Prices are logarithms for the volatilities.  A spread is in the unit in *)
(* which a compute price converts to Fx and a power price costs Load.  The *)
(* level of the synthetic compute price is constant here.                  *)
(***************************************************************************)
EXTENDS Integers, FiniteSets, FiniteSetsExt, Functions

CONSTANTS Missing, OtherModels,   \* no run of the collector; one without the GPU
          Prices,
          Regions, Home, Reference,
          PowerPrices,      \* by region
          Load,             \* kW per GPU times PUE, by region
          Fx,               \* fx_eur_per_usd, by region
          Anchor,           \* level of the synthetic compute price
          Periods,          \* hours of the basis
          Synthetic,        \* generated energy price, by region and hour
          Staleness,        \* of the index, in instants
          VolWindow, MinSeriesPoints,
          PublicationLag, RevisionDelay,
          FeatureLags, RollingWindows, Diffs, SpreadLags,
          LabelHorizon,
          MaxInstant, MaxRevisions   \* bounds

VARIABLES study,            \* the program, fixed
          now,              \* the present instant
          reading,          \* what the collector stored at each instant
          power,            \* energy price of each region at each instant, or hour
          vintages,         \* rows of the exogenous source
          target            \* series the labels are made from

studiesVars == <<study, now, reading, power, vintages, target>>

Store == INSTANCE EnergyStore

Studies == {"spread", "basis", "volatility", "examples"}

\* hourly_index: the hours of the basis.
Hours == 0 .. Periods - 1

ASSUME SpreadStudiesAssumption ==
  /\ Missing \notin Int /\ OtherModels \notin Int
  /\ Prices \subseteq Nat \ {0} /\ PowerPrices \in [Regions -> SUBSET Int]
  /\ {Home, Reference} \subseteq Regions
  /\ Load \in [Regions -> Nat \ {0}] /\ Fx \in [Regions -> Nat \ {0}]
  /\ Anchor \in Nat \ {0}
  /\ Periods \in Nat \ {0} /\ Synthetic \in [Regions -> [Hours -> Int]]
  /\ Staleness \in Nat
  /\ VolWindow \in Nat /\ VolWindow >= 2 /\ MinSeriesPoints \in Nat
  /\ PublicationLag \in Nat /\ RevisionDelay \in Nat /\ RevisionDelay > PublicationLag
  /\ FeatureLags \union Diffs \union SpreadLags \subseteq Nat
  /\ RollingWindows \subseteq Nat \ {0}
  /\ LabelHorizon \in Nat \ {0}
  /\ MaxInstant \in [Studies -> Nat] /\ MaxRevisions \in Nat

StudiesInit ==
  /\ study \in Studies
  /\ now = -1
  /\ reading = << >>
  /\ power = [r \in Regions |-> IF study = "basis" THEN [t \in Hours |-> Missing] ELSE << >>]
  /\ vintages = {}
  /\ target = << >>

\* A series with one more instant.
Longer(series, value) == [t \in 0 .. now + 1 |-> IF t = now + 1 THEN value ELSE series[t]]

\* What a study reads arrives; the data of the others do not matter.
Collects == study \in {"spread", "basis", "volatility"}
Sells(r) == study = "spread" /\ r = Home

Vintage(t, known, value) ==
  [content |-> [at |-> t, publish |-> known, value |-> value], part |-> known]

Arrive ==
  /\ now < MaxInstant[study]
  /\ now' = now + 1
  /\ \E x \in Prices \union {Missing, OtherModels} :
       /\ ~Collects => x = Missing
       /\ reading' = Longer(reading, x)
  /\ \E p \in [Regions -> UNION Range(PowerPrices) \union {Missing}] :
       /\ \A r \in Regions : p[r] \in (IF Sells(r) THEN PowerPrices[r] ELSE {}) \union {Missing}
       /\ power' = IF study = "basis" THEN power
                   ELSE [r \in Regions |-> Longer(power[r], p[r])]
  /\ IF study = "examples"
       THEN \E v, y \in Prices :
              \* from_lagged_series: known a publication lag later
              /\ vintages' = vintages \union {Vintage(now + 1, now + 1 + PublicationLag, v)}
              /\ target' = Longer(target, y)
       ELSE UNCHANGED <<vintages, target>>
  /\ study' = study

\* The source revises a value of the past.
Revise ==
  /\ study = "examples"
  /\ Cardinality(vintages) < now + 1 + MaxRevisions
  /\ \E t \in 0 .. now, v \in Prices :
       vintages' = vintages \union {Vintage(t, now + RevisionDelay, v)}
  /\ UNCHANGED <<study, now, reading, power, target>>

\* A backfill stores prices of one region, for hours that have none yet.
Backfill ==
  /\ study = "basis"
  /\ \E r \in Regions :
       LET open == {t \in Hours : power[r][t] = Missing}
       IN  \E stored \in [open -> PowerPrices[r] \union {Missing}] :
             power' = [power EXCEPT ![r] = [t \in Hours |-> IF t \in open THEN stored[t]
                                                           ELSE power[r][t]]]
  /\ UNCHANGED <<study, now, reading, vintages, target>>

StudiesNext == Arrive \/ Revise \/ Backfill

StudiesSpec == StudiesInit /\ [][StudiesNext]_studiesVars
-------------------------------------------------------------------------------
(***************************************************************************)
(* A series is a set of points.  The index over time, and the pricer.      *)
(***************************************************************************)
Point(t, v) == [at |-> t, value |-> v]
Until(series, g) == {p \in series : p.at <= g}
Last(series) == CHOOSE p \in series : \A q \in series : q.at <= p.at

Snapshots == {t \in DOMAIN reading : reading[t] # Missing}
Quoted == {t \in DOMAIN reading : reading[t] \in Prices}

\* compute_index_series, build_spot_series: the fix of each instant, which is
\* left out where no reading is fresh.
Fresh(g) == {t \in Quoted : g - Staleness <= t /\ t <= g}
IndexSeries(grid) == {Point(g, reading[Max(Fresh(g))]) : g \in {x \in grid : Fresh(x) # {}}}

\* Mutant: the nearest value that follows.
NextValue(series, g) ==
  LET later == {p \in series : g <= p.at}
  IN  IF later = {} THEN Missing
      ELSE (CHOOSE p \in later : \A q \in later : p.at <= q.at).value

\* reindex(method="ffill"): the last value at or before the instant.
LastValue(series, g) ==
  IF Until(series, g) = {} THEN Missing ELSE Last(Until(series, g)).value

\* revenue - cost, element by element
SpreadOf(compute, price, region) == Fx[region] * compute - Load[region] * price

\* SparkSpreadPricer.price: on the grid of the energy leg.
PriceSpread(compute, energy, region) ==
  {LET level == LastValue(compute, e.at)
   IN  Point(e.at, IF Missing \in {level, e.value} THEN Missing
                   ELSE SpreadOf(level, e.value, region)) :
     e \in energy}

Energy(region, window) ==
  {Point(t, power[region][t]) : t \in {u \in window : power[region][u] # Missing}}
-------------------------------------------------------------------------------
(***************************************************************************)
(* The spread dataset (projects/02).                                       *)
(***************************************************************************)
\* The window of the snapshots, those of other models included.
Window == IF Snapshots = {} THEN {} ELSE Min(Snapshots) .. Max(Snapshots)

\* _load_legs and build_spread.  An instant before the first fix has no spread,
\* and the cointegration tests then stop the run; without snapshots or energy the
\* legs are simulated: no real result in either case.
SpreadDataset ==
  LET energy == Energy(Home, Window)
      spread == PriceSpread(IndexSeries({e.at : e \in energy}), energy, Home)
  IN  IF \E p \in spread : p.value = Missing THEN {} ELSE spread
-------------------------------------------------------------------------------
(***************************************************************************)
(* The regional basis (projects/05).                                       *)
(***************************************************************************)
\* load_compute_index: one fix, that of the last snapshot, over the whole index;
\* the synthetic price when there is none.
ComputeIndex ==
  LET last == Max(Snapshots)
      level == IF Snapshots = {} THEN Anchor
               ELSE IF Fresh(last) = {} THEN Anchor ELSE reading[Max(Fresh(last))]
  IN  [at : Hours, value : {level}]

\* load_regional_energy: the prices of the cold store when it has some of every
\* region, generated ones otherwise.
EnergyLabel ==
  IF \A r \in Regions : Energy(r, Hours) # {} THEN "entsoe_cold_store" ELSE "synthetic"

\* A price is carried to the hours after it that have none.
RegionalEnergy(r) ==
  LET stored == Energy(r, Hours)
  IN  IF EnergyLabel = "synthetic" THEN {Point(t, Synthetic[r][t]) : t \in Hours}
      ELSE {Point(t, LastValue(stored, t)) : t \in Hours}

RegionalSpread(r) == PriceSpread(ComputeIndex, RegionalEnergy(r), r)

\* BasisCalculator.compute: the spreads over that of the reference.  The inner
\* join keeps every hour, since each region has all of them; an hour before the
\* first price of either region has no value.
Basis ==
  LET Over(p, q) == IF Missing \in {p.value, q.value} THEN Missing ELSE p.value - q.value
      Joined(r) == {x \in RegionalSpread(r) \X RegionalSpread(Reference) : x[1].at = x[2].at}
  IN  UNION {{[region |-> r, at |-> x[1].at, value |-> Over(x[1], x[2])] : x \in Joined(r)} :
               r \in Regions \ {Reference}}
-------------------------------------------------------------------------------
(***************************************************************************)
(* Volatilities (projects/03).                                             *)
(***************************************************************************)
\* Days of two instants; the fix of a day is that of its first.
DailyGrid == {2 * (t \div 2) : t \in Snapshots}

\* log_returns: over the fixes there are, however far apart.
LogReturns(series) ==
  {Point(p.at, p.value - Last(Until(series, p.at - 1)).value) :
     p \in {q \in series : Until(series, q.at - 1) # {}}}

\* The last n points.
Trailing(series, n) == {p \in series : Cardinality({q \in series : p.at <= q.at}) <= n}

\* RealizedVol.estimate, its square up to a factor.
RealizedVol(returns, t) ==
  LET window == Trailing(Until(returns, t), VolWindow)
      sum == SumFunction([p \in window |-> p.value])
  IN  IF Cardinality(window) < VolWindow THEN Missing
      ELSE VolWindow * SumFunction([p \in window |-> p.value * p.value]) - sum * sum

\* EwmaVol.estimate with lambda = 1/2: the variance after n returns, times 2^n.
EwmaVol(returns, t) ==
  LET Past(u) == Until(returns, u)
      Weight(p) ==
        LET before == Cardinality(Past(p.at - 1))
        IN  IF before = 0 THEN 1 ELSE 2 ^ (before - 1)
  IN  SumFunction([p \in Past(t) |-> Weight(p) * p.value * p.value])

\* A series that is too short is replaced by a demonstration.
Volatilities ==
  LET prices == IndexSeries(DailyGrid)
      returns == LogReturns(prices)
  IN  IF Cardinality(prices) < MinSeriesPoints THEN {}
      ELSE {Point(p.at, <<RealizedVol(returns, p.at), EwmaVol(returns, p.at)>>) : p \in returns}
-------------------------------------------------------------------------------
(***************************************************************************)
(* Point-in-time features and labels (core/features, core/models).         *)
(***************************************************************************)
Snapshot(asOf) ==
  LET latest == Store!AsOfSnapshot(vintages, asOf)
  IN  {Point(t, CHOOSE v \in latest[t] : TRUE) : t \in DOMAIN latest}

\* lag_feature, by position in what is known.
LagFeature(snapshot, k) ==
  IF Cardinality(snapshot) <= k THEN Missing
  ELSE (CHOOSE p \in snapshot : Cardinality({q \in snapshot : p.at < q.at}) = k).value

\* rolling_mean_feature, the mean times the window.
RollingMean(snapshot, w) ==
  IF Cardinality(snapshot) < w THEN Missing
  ELSE SumFunction([p \in Trailing(snapshot, w) |-> p.value])

DiffFeature(snapshot, k) ==
  IF Missing \in {LagFeature(snapshot, 0), LagFeature(snapshot, k)} THEN Missing
  ELSE LagFeature(snapshot, 0) - LagFeature(snapshot, k)

\* PointInTimeFeatureBuilder.build_asof
BuildAsOf(t) ==
  LET snapshot == Snapshot(t)
  IN  {<<"lag", k, LagFeature(snapshot, k)>> : k \in FeatureLags}
        \union {<<"roll", w, RollingMean(snapshot, w)>> : w \in RollingWindows}
        \union {<<"diff", k, DiffFeature(snapshot, k)>> : k \in Diffs}

\* FeaturePipeline._spread_features: shifts, sums and moves of the series itself.
Shift(t, k) == IF t < k THEN Missing ELSE target[t - k]

SpreadFeatures(t) ==
  {<<"spread", k, Shift(t, k)>> : k \in SpreadLags}
    \union {<<"mom", k, IF t < k THEN Missing ELSE target[t] - target[t - k]>> : k \in SpreadLags}
    \union {<<"mean", w, IF t + 1 < w THEN Missing
                         ELSE SumFunction([i \in t - w + 1 .. t |-> target[i]])>> :
              w \in RollingWindows}

\* Mutant: without enough future, the move to the last instant.
BuildLabelToLast(t) ==
  target[IF t + LabelHorizon <= now THEN t + LabelHorizon ELSE now] > target[t]

\* build_labels: whether the series rises over the horizon.
BuildLabel(t) ==
  IF t + LabelHorizon > now THEN Missing ELSE target[t + LabelHorizon] > target[t]

\* The rows that have every feature and a label.
Examples ==
  LET candidates == {Point(t, [features |-> BuildAsOf(t) \union SpreadFeatures(t),
                                 label |-> BuildLabel(t)]) : t \in DOMAIN target}
  IN  {x \in candidates : /\ \A f \in x.value.features : f[3] # Missing
                    /\ x.value.label # Missing}
-------------------------------------------------------------------------------
(***************************************************************************)
(* Properties.                                                             *)
(***************************************************************************)
\* Running a study again on the data of a later instant changes nothing of what
\* it gave before: no fix, no energy price, no vintage and no label of the future
\* enters a spread, a volatility or a training example.
StudiesStand ==
  [][/\ study = "spread" => SpreadDataset \subseteq SpreadDataset'
     /\ study = "volatility" => Volatilities \subseteq Volatilities'
     /\ study = "examples" => Examples \subseteq Examples']_studiesVars

\* The run log has one exchange rate, that of the first region.
OneRate == \A r \in Regions : Fx[r] = Fx[Reference]

\* The step stores the price that the region has at an hour: its own, or the one
\* that is carried to it.
PriceCame(r, t) ==
  \E u \in 0 .. t : /\ power[r][u] = Missing /\ power'[r][u] # Missing
                    /\ \A w \in u + 1 .. t : power[r][w] = Missing

\* The basis of an hour is rewritten by three things only: generated energy that
\* gives way to real prices, which it never takes back, and a late price of the
\* region or of the reference, for the hours to which an older price, or none,
\* was carried until then.  The compute leg is the last fix laid over all hours,
\* so that each snapshot changes it, and none changes the basis: the leg is the
\* same in all regions.  With a rate of its own in each region, every fix would
\* rewrite the basis of every hour.
BasisStands ==
  [][study = "basis" /\ OneRate =>
       \A b \in Basis, c \in Basis' :
         c.region = b.region /\ c.at = b.at /\ c.value # b.value =>
           \/ EnergyLabel = "synthetic" /\ EnergyLabel' = "entsoe_cold_store"
           \/ /\ EnergyLabel = "entsoe_cold_store" /\ EnergyLabel' = EnergyLabel
              /\ \E r \in {b.region, Reference} : PriceCame(r, b.at)]_studiesVars
===============================================================================
