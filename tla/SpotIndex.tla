------------------------------- MODULE SpotIndex -------------------------------
(***************************************************************************)
(* The compute spot index (core/ingestion/compute_index.py) computed over  *)
(* a store of readings that grows: the hourly collector adds the cohorts   *)
(* of the present instant, and a replayed or migrated run adds late rows   *)
(* of a past one.  Every consumer recomputes a fix from the store, so the  *)
(* value of the fix at an instant is an operator of the state; the price   *)
(* of a source is kept doubled, as its median may be a half.               *)
(***************************************************************************)
EXTENDS RobustStatistics

CONSTANTS Venues, Aggregators, NoAggregator,
          Sources,        \* the source ids that occur, direct or relayed
          Quotes,         \* the offers a source can list
          Products,       \* GPU model and lease type of an offer
          Product,        \* the product of the index
          Excluded,       \* excluded_sources
          Staleness,      \* in instants, the bounds included
          MinSources,
          KNum, KDen,     \* the k of the outlier filter is KNum / KDen
          Trim,           \* percentage trimmed at each end
          MaxInstant,     \* bound on time
          MaxOffers,      \* bound on the offers of a source at an instant
          MaxLate         \* bound on the late batches

VARIABLES store,          \* every reading stored so far
          now,            \* instant of the last collection
          late            \* late batches so far

vars == <<store, now, late>>

Instants == 1 .. MaxInstant
Readings == [at : Instants, source : Sources, quote : Quotes]

ASSUME SpotIndexAssumption ==
  /\ NoAggregator \notin Aggregators
  /\ IsFiniteSet(Sources)
  /\ Sources \subseteq [aggregator : Aggregators \union {NoAggregator}, venue : Venues]
  /\ Quotes \subseteq [id : STRING, product : Products, price : Nat, availability : Nat]
  /\ Product \in Products
  /\ Excluded \subseteq Sources
  /\ Staleness \in Nat
  /\ MinSources \in Nat \ {0}
  /\ KNum \in Nat /\ KDen \in Nat \ {0}
  /\ Trim \in 0 .. 100
  /\ MaxInstant \in Nat
  /\ MaxOffers \in Nat
  /\ MaxLate \in Nat

Init == store = {} /\ now = 0 /\ late = 0

Cohorts == {c \in SUBSET Quotes : IsFiniteSet(c) /\ Cardinality(c) <= MaxOffers}

\* The collector stores what each source lists now; a source may list nothing.
Observe ==
  /\ now < MaxInstant
  /\ now' = now + 1
  /\ \E listed \in [Sources -> Cohorts] :
       store' = store \union UNION {[at : {now + 1}, source : {s}, quote : listed[s]] :
                                      s \in Sources}
  /\ late' = late

\* A replay or a migration brings what a killed run left out.
ObserveLate ==
  /\ late < MaxLate
  /\ late' = late + 1
  /\ \E at \in 1 .. now, s \in Sources, cohort \in Cohorts \ {{}} :
       store' = store \union [at : {at}, source : {s}, quote : cohort]
  /\ now' = now

Next == Observe \/ ObserveLate

Spec == Init /\ [][Next]_vars
-------------------------------------------------------------------------------
(***************************************************************************)
(* build_spot_index(rows, t).                                              *)
(***************************************************************************)
\* Mutant: no upper bound on the instant.
FreshAhead(rows, t) ==
  {r \in rows : /\ r.quote.product = Product
                /\ r.source \notin Excluded
                /\ t - Staleness <= r.at}

\* What enters the fix at t.
Fresh(rows, t) ==
  {r \in rows : /\ r.quote.product = Product
                /\ r.source \notin Excluded
                /\ t - Staleness <= r.at
                /\ r.at <= t}

\* Mutant: every fresh offer of the source counts.
CohortOfAll(rows, s) == {r \in rows : r.source = s}

\* The offers a source listed last.
FreshestCohort(rows, s) ==
  {r \in rows : r.source = s /\ \A q \in rows : q.source = s => q.at <= r.at}

\* One rate per source: the median of its freshest cohort.
VenueRates(rows) ==
  [s \in {r.source : r \in rows} |->
     LET cohort == FreshestCohort(rows, s)
     IN  [rate |-> TwiceMedian([r \in cohort |-> r.quote.price]),
          availability |-> SumFunction([r \in cohort |-> r.quote.availability]),
          at |-> (CHOOSE r \in cohort : TRUE).at]]

IsDirect(s) == s.aggregator = NoAggregator
Direct(v) == [aggregator |-> NoAggregator, venue |-> v]

\* prefer_direct_venues: no relayed rate beside the venue's own.
PreferDirect(rates) ==
  Restrict(rates, {s \in DOMAIN rates : IsDirect(s) \/ Direct(s.venue) \notin DOMAIN rates})

RateOf(rates) == [s \in DOMAIN rates |-> rates[s].rate]

OutlierFilter(rates) == Restrict(rates, MadKept(RateOf(rates), KNum, KDen))

\* Mutant: relayed rates are dropped once the outliers are rejected.
VotesFilterFirst(rows) == PreferDirect(OutlierFilter(VenueRates(rows)))

\* The rates the estimator averages.
Votes(rows) == OutlierFilter(PreferDirect(VenueRates(rows)))

NoFix == [fixed |-> FALSE]

\* Too few rates left raise InsufficientDataError: no fix.
Fix(rows, t) ==
  LET votes == Votes(Fresh(rows, t))
  IN  IF Fresh(rows, t) = {} \/ Cardinality(DOMAIN votes) < MinSources THEN NoFix
      ELSE [fixed |-> TRUE, price |-> TrimmedMean(RateOf(votes), Trim),
            sources |-> Cardinality(DOMAIN votes),
            oldest |-> Min({votes[s].at : s \in DOMAIN votes})]
-------------------------------------------------------------------------------
(***************************************************************************)
(* What the benchmark (dispersion.py) and the service (views.py) show of   *)
(* the venues at t: the same reduction, without prefer_direct_venues.      *)
(***************************************************************************)
VenueRatesAt(rows, t) == VenueRates(Fresh(rows, t))

\* The venues of MarketView and of dispersion_at; both raise without a fix.
Retained(rows, t) ==
  IF Fix(rows, t).fixed THEN OutlierFilter(VenueRatesAt(rows, t)) ELSE <<>>

\* MarketView.cheapest: a source of the smallest retained rate.
Cheapest(rows, t) ==
  LET rates == RateOf(Retained(rows, t))
  IN  CHOOSE s \in DOMAIN rates : \A q \in DOMAIN rates : rates[s] <= rates[q]
-------------------------------------------------------------------------------
(***************************************************************************)
(* Properties.                                                             *)
(***************************************************************************)
Past == 1 .. now

\* Type invariant: the store holds readings of the instants collected so far.
TypeOK ==
  /\ store \subseteq Readings
  /\ now \in 0 .. MaxInstant
  /\ late \in 0 .. MaxLate
  /\ \A r \in store : r.at <= now

\* The venue rates of one instant that an aggregator relayed although the venue
\* is connected directly and fresh at t.
RelayedCopies(t) ==
  {r \in store : /\ ~IsDirect(r.source)
                 /\ \E d \in Fresh(store, t) : d.source = Direct(r.source.venue)}

\* prefer_direct_venues runs before any statistic is taken: whatever an
\* aggregator says of a venue that is fresh itself, the fix is the same as if
\* it had said nothing, although it could have moved the median, the deviation
\* and so the fate of every other rate.
RelaysDoNotVote ==
  \A t \in Past : Fix(store, t) = Fix(store \ RelayedCopies(t), t)

\* Readings that a fresher one of their own source replaces at t.
Superseded(t) ==
  {r \in store : \E q \in Fresh(store, t) : q.source = r.source /\ r.at < q.at}

\* A venue votes once, with what it listed last: neither the number of its
\* offers in the past nor their prices leave a trace in the fix.
FreshestVotes ==
  \A t \in Past : Fix(store, t) = Fix(store \ Superseded(t), t)

\* No carry-forward, and no gap: as long as one venue is enough, a fix exists
\* exactly at the instants that have a fresh reading, however far apart the
\* rates are: the rejection of outliers never rejects them all, provided that
\* it does not reject what is one deviation away.
FixWhenFresh ==
  \A t \in Past : MinSources = 1 /\ KDen <= KNum =>
    (Fix(store, t).fixed <=> Fresh(store, t) # {})

\* Every estimator that can be configured stays between the rates it is given.
Within(price, v) ==
  /\ \E d \in DOMAIN v : v[d] * price.den <= price.num
  /\ \E d \in DOMAIN v : price.num <= v[d] * price.den

EstimateWithinVotes ==
  \A t \in Past : Fix(store, t).fixed =>
    LET votes == Votes(Fresh(store, t))
        v == RateOf(votes)
    IN  /\ Within(TrimmedMean(v, Trim), v)
        /\ Within(Median(v), v)
        /\ Within(WeightedMean(v, [d \in DOMAIN votes |-> votes[d].availability]), v)

RevisesItsWindow ==
  \A t \in Past : Fix(store', t) # Fix(store, t)
    => \E r \in store' \ store : r.at \in t - Staleness .. t

\* The fix of an instant is revised only by rows stored in its own window: what
\* is collected later never changes a past fix (no look-ahead), and neither do
\* late rows that were stale already.
RevisionsAreLocal == [][RevisesItsWindow]_vars
===============================================================================
