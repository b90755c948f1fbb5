---------------------------- MODULE SpotIndexProofs ----------------------------
(***************************************************************************)
(* What the index promises for every set of sources, quotes and instants,  *)
(* every window and every configuration of the filter and the estimator.   *)
(***************************************************************************)
EXTENDS PriceService, FiniteInduction

\* The type invariant holds in every reachable state.
THEOREM TypeCorrect == Spec => []TypeOK
<1> USE SpotIndexAssumption DEF TypeOK, Readings, Instants, Cohorts
<1>1. Init => TypeOK
  BY DEF Init
<1>2. TypeOK /\ [Next]_vars => TypeOK'
  <2> SUFFICES ASSUME TypeOK, [Next]_vars PROVE TypeOK'
    OBVIOUS
  <2>1. CASE Observe
    <3> PICK listed \in [Sources -> Cohorts] :
          store' = store \union UNION {[at : {now + 1}, source : {s}, quote : listed[s]] :
                                         s \in Sources}
      BY <2>1 DEF Observe
    <3>1. \A s \in Sources : listed[s] \subseteq Quotes
      OBVIOUS
    <3>2. now < MaxInstant /\ now' = now + 1 /\ late' = late
      BY <2>1 DEF Observe
    <3>3. now + 1 \in 1 .. MaxInstant /\ now' \in 0 .. MaxInstant
      BY <3>2
    <3>4. \A r \in store' \ store : r \in Readings /\ r.at = now + 1
      BY <3>1, <3>3
    <3>5. \A r \in store' : r \in Readings /\ r.at <= now + 1
      BY <3>4
    <3> QED
      BY <3>2, <3>3, <3>5
  <2>2. CASE ObserveLate
    <3> PICK at \in 1 .. now, s \in Sources, cohort \in Cohorts \ {{}} :
          store' = store \union [at : {at}, source : {s}, quote : cohort]
      BY <2>2 DEF ObserveLate
    <3>1. now' = now /\ late < MaxLate /\ late' = late + 1
      BY <2>2 DEF ObserveLate
    <3>2. \A r \in store' \ store : r \in Readings /\ r.at <= now
      OBVIOUS
    <3> QED
      BY <3>1, <3>2
  <2>3. CASE UNCHANGED vars
    BY <2>3 DEF vars
  <2> QED
    BY <2>1, <2>2, <2>3 DEF Next
<1> QED
  BY <1>1, <1>2, PTL DEF Spec

\* A fix is a function of what is fresh at its instant.
LEMMA FixOfFresh ==
  ASSUME NEW A, NEW B, NEW t, Fresh(A, t) = Fresh(B, t)
  PROVE  Fix(A, t) = Fix(B, t)
BY DEF Fix

\* The store only grows.
LEMMA StoreGrows == [Next]_vars => store \subseteq store'
BY DEF Next, Observe, ObserveLate, vars

\* Nothing collected later than t, and nothing stale at t, revises the fix at t.
THEOREM RevisedLocally == Spec => RevisionsAreLocal
<1>1. ASSUME TypeOK, TypeOK', [Next]_vars PROVE RevisesItsWindow
  <2> SUFFICES ASSUME NEW t \in Past, Fix(store', t) # Fix(store, t)
               PROVE  \E r \in store' \ store : r.at \in t - Staleness .. t
    BY DEF RevisesItsWindow
  <2>1. Fresh(store', t) # Fresh(store, t)
    BY FixOfFresh
  <2>2. Fresh(store, t) \subseteq Fresh(store', t)
    BY <1>1, StoreGrows DEF Fresh
  <2> PICK r \in Fresh(store', t) : r \notin Fresh(store, t)
    BY <2>1, <2>2
  <2>3. r \in store' \ store
    BY DEF Fresh
  <2>4. r.at \in Int /\ t \in Int /\ Staleness \in Int
    BY <1>1, <2>3, SpotIndexAssumption DEF TypeOK, Readings, Instants, Past
  <2>5. r.at \in t - Staleness .. t
    BY <2>4 DEF Fresh
  <2> QED
    BY <2>3, <2>5
<1> QED
  BY <1>1, TypeCorrect, PTL DEF Spec, RevisionsAreLocal

\* The copies an aggregator relays of a fresh venue are never voted on: with
\* them or without them, the voting rates are those of the same sources, each
\* with the same freshest cohort.
THEOREM RelaysNeverVote == Spec => []RelaysDoNotVote
<1>1. ASSUME TypeOK PROVE RelaysDoNotVote
  <2> SUFFICES ASSUME NEW t \in Past
               PROVE  Fix(store, t) = Fix(store \ RelayedCopies(t), t)
    BY DEF RelaysDoNotVote
  <2> DEFINE F == Fresh(store, t)
             G == Fresh(store \ RelayedCopies(t), t)
             SourcesOf(rows) == {r.source : r \in rows}
             Voting(rows) == {s \in SourcesOf(rows) :
                                IsDirect(s) \/ Direct(s.venue) \notin SourcesOf(rows)}
  <2>1. \A r : r \in G <=> r \in F /\ r \notin RelayedCopies(t)
    BY DEF Fresh
  <2>2. \A r \in F : r \in RelayedCopies(t)
                       <=> ~IsDirect(r.source) /\ Direct(r.source.venue) \in SourcesOf(F)
    BY DEF RelayedCopies, Fresh
  <2>3. \A v : IsDirect(Direct(v))
    BY DEF IsDirect, Direct
  <2>4. \A s : IsDirect(s) => (s \in SourcesOf(F) <=> s \in SourcesOf(G))
    BY <2>1, <2>2
  <2>5. Voting(F) = Voting(G)
    BY <2>1, <2>2, <2>3, <2>4
  <2>6. ASSUME NEW s \in Voting(F) PROVE FreshestCohort(F, s) = FreshestCohort(G, s)
    BY <2>1, <2>2 DEF FreshestCohort
  <2>7. \A s \in Voting(F) : VenueRates(F)[s] = VenueRates(G)[s]
    <3>1. SUFFICES ASSUME NEW s \in Voting(F) PROVE VenueRates(F)[s] = VenueRates(G)[s]
      OBVIOUS
    <3>2. s \in SourcesOf(F) /\ s \in SourcesOf(G)
      BY <2>5
    <3> QED
      BY <2>6, <3>2 DEF VenueRates
  <2>8. PreferDirect(VenueRates(F)) = PreferDirect(VenueRates(G))
    <3>1. DOMAIN VenueRates(F) = SourcesOf(F) /\ DOMAIN VenueRates(G) = SourcesOf(G)
      BY DEF VenueRates
    <3>2. PreferDirect(VenueRates(F)) = [s \in Voting(F) |-> VenueRates(F)[s]]
      BY <3>1 DEF PreferDirect, Restrict
    <3>3. PreferDirect(VenueRates(G)) = [s \in Voting(G) |-> VenueRates(G)[s]]
      BY <3>1 DEF PreferDirect, Restrict
    <3> HIDE DEF Voting
    <3> QED
      BY <2>5, <2>7, <3>2, <3>3
  <2>9. F = {} <=> G = {}
    <3>1. ASSUME F # {} PROVE G # {}
      <4> PICK r \in F : TRUE
        BY <3>1
      <4>1. CASE r \notin RelayedCopies(t)
        BY <4>1, <2>1
      <4>2. CASE r \in RelayedCopies(t)
        <5>1. Direct(r.source.venue) \in SourcesOf(F)
          BY <4>2, <2>2
        <5>2. Direct(r.source.venue) \in SourcesOf(G)
          BY <5>1, <2>3, <2>4
        <5> QED
          BY <5>2
      <4> QED
        BY <4>1, <4>2
    <3> QED
      BY <2>1, <3>1
  <2> QED
    BY <2>8, <2>9 DEF Fix, Votes
<1> QED
  BY <1>1, TypeCorrect, PTL

\* A source that listed something has a freshest reading.
LEMMA FreshestExists ==
  ASSUME TypeOK, NEW F \in SUBSET store, NEW r \in F
  PROVE  \E m \in F : m.source = r.source /\ \A q \in F : q.source = r.source => q.at <= m.at
<1> DEFINE Ages == {MaxInstant - q.at : q \in {x \in F : x.source = r.source}}
<1>1. \A q \in F : q.at \in 1 .. MaxInstant /\ MaxInstant - q.at \in Nat
  BY SpotIndexAssumption DEF TypeOK, Readings, Instants
<1>2. Ages \subseteq Nat /\ MaxInstant - r.at \in Ages
  BY <1>1
<1> PICK least \in Ages : \A age \in Ages : least <= age
  <2> HIDE DEF Ages
  <2> QED
    BY <1>2, LeastExists
<1> PICK m \in F : m.source = r.source /\ least = MaxInstant - m.at
  OBVIOUS
<1>3. ASSUME NEW q \in F, q.source = r.source PROVE q.at <= m.at
  <2>1. MaxInstant - m.at <= MaxInstant - q.at
    BY <1>3
  <2> QED
    BY <1>1, <2>1, SpotIndexAssumption
<1> QED
  BY <1>3

\* A reading that its source replaced leaves no trace in the fix.
THEOREM FreshestAloneVotes == Spec => []FreshestVotes
<1>1. ASSUME TypeOK PROVE FreshestVotes
  <2> SUFFICES ASSUME NEW t \in Past
               PROVE  Fix(store, t) = Fix(store \ Superseded(t), t)
    BY DEF FreshestVotes
  <2> DEFINE F == Fresh(store, t)
             G == Fresh(store \ Superseded(t), t)
             SourcesOf(rows) == {r.source : r \in rows}
  <2>1. \A r : r \in G <=> r \in F /\ ~\E q \in F : q.source = r.source /\ r.at < q.at
    BY DEF Fresh, Superseded
  <2>2. F \subseteq store /\ \A q \in F : q.at \in Int
    BY <1>1 DEF Fresh, TypeOK, Readings, Instants
  <2>3. \A r \in F : \E m \in G :
          m.source = r.source /\ \A q \in F : q.source = r.source => q.at <= m.at
    <3> HIDE DEF F, G
    <3> TAKE r \in F
    <3> PICK m \in F : m.source = r.source /\ \A q \in F : q.source = r.source => q.at <= m.at
      BY <1>1, <2>2, FreshestExists
    <3>1. m \in G
      BY <2>1, <2>2
    <3> QED
      BY <3>1
  <2> HIDE DEF F, G
  <2>4. SourcesOf(F) = SourcesOf(G)
    BY <2>1, <2>3
  <2>5. ASSUME NEW s \in SourcesOf(F) PROVE FreshestCohort(F, s) = FreshestCohort(G, s)
    <3>1. PICK m \in G : m.source = s /\ \A q \in F : q.source = s => q.at <= m.at
      BY <2>3
    <3>2. ASSUME NEW r \in FreshestCohort(F, s) PROVE r \in FreshestCohort(G, s)
      BY <2>1, <2>2, <3>2 DEF FreshestCohort
    <3>3. ASSUME NEW r \in FreshestCohort(G, s) PROVE r \in FreshestCohort(F, s)
      <4>1. r \in F /\ r.source = s /\ m.at <= r.at
        BY <2>1, <3>1, <3>3 DEF FreshestCohort
      <4>2. \A q \in F : q.source = s => q.at <= r.at
        BY <2>1, <2>2, <3>1, <4>1
      <4> QED
        BY <4>1, <4>2 DEF FreshestCohort
    <3> QED
      BY <3>2, <3>3
  <2>6. VenueRates(F) = VenueRates(G)
    BY <2>4, <2>5 DEF VenueRates
  <2>7. F = {} <=> G = {}
    BY <2>1, <2>3
  <2> QED
    BY <2>6, <2>7 DEF Fix, Votes, F, G
<1> QED
  BY <1>1, TypeCorrect, PTL
-------------------------------------------------------------------------------
(***************************************************************************)
(* Lemmas about ranks, medians, means and deviations.                      *)
(***************************************************************************)
\* Values that can be ranked.
Ranked(v) == IsFiniteSet(DOMAIN v) /\ DOMAIN v # {} /\ \A d \in DOMAIN v : v[d] \in Nat

LEMMA SizeOfRanked ==
  ASSUME NEW v, Ranked(v)
  PROVE  Size(v) \in Nat /\ Size(v) > 0
BY FS_CardinalityType, FS_EmptySet DEF Ranked, Size

\* There is a k-th smallest value, and it is one of the values.
LEMMA KthIsValue ==
  ASSUME NEW v, Ranked(v), NEW k \in 1 .. Size(v)
  PROVE  \E d \in DOMAIN v : KthSmallest(v, k) = v[d]
<1> DEFINE D == DOMAIN v
           Below(x) == {d \in D : v[d] < x}
           UpTo(x) == {d \in D : v[d] <= x}
           Reached == {x \in Range(v) : k <= Cardinality(UpTo(x))}
<1>1. /\ \A x : IsFiniteSet(Below(x)) /\ IsFiniteSet(UpTo(x)) /\ Cardinality(Below(x)) \in Nat
      /\ IsFiniteSet(Range(v)) /\ Range(v) \in SUBSET Nat /\ Range(v) # {}
      /\ k \in Nat /\ k > 0 /\ k <= Cardinality(D)
  <2>1. IsFiniteSet(D) /\ Cardinality(D) \in Nat
    BY FS_CardinalityType DEF Ranked
  <2>2. \A x : Below(x) \in SUBSET D /\ UpTo(x) \in SUBSET D
    OBVIOUS
  <2>3. IsFiniteSet(Range(v)) /\ Range(v) \in SUBSET Nat /\ Range(v) # {}
    <3>1. [d \in D |-> v[d]] \in Surjection(D, Range(v))
      BY DEF Surjection, Range
    <3> QED
      BY <2>1, <3>1, FS_Surjection DEF Range, Ranked
  <2>4. k \in Nat /\ k > 0 /\ k <= Cardinality(D)
    BY <2>1 DEF Size
  <2> HIDE DEF Below, UpTo
  <2> QED
    BY <2>1, <2>2, <2>3, <2>4, FS_Subset, FS_CardinalityType
<1>2. PICK top \in Range(v) : \A y \in Range(v) : y <= top
  BY <1>1, GreatestExists
<1>3. UpTo(top) = D
  BY <1>2 DEF Range
<1>4. Reached \in SUBSET Nat /\ top \in Reached
  BY <1>1, <1>2, <1>3
<1>5. PICK x \in Reached : \A y \in Reached : x <= y
  BY <1>4, LeastExists, Zenon
<1>6. x \in Range(v) /\ x \in Nat /\ k <= Cardinality(UpTo(x))
  BY <1>1, <1>5
<1>7. Cardinality(Below(x)) < k
  <2> SUFFICES ASSUME k <= Cardinality(Below(x)) PROVE FALSE
    BY <1>1
  <2> DEFINE Lower == {y \in Range(v) : y < x}
  <2>1. Below(x) # {}
    BY <1>1, FS_EmptySet
  <2>2. Lower \in SUBSET Nat /\ IsFiniteSet(Lower) /\ Lower # {}
    <3>1. Lower \in SUBSET Range(v) /\ Lower # {}
      BY <2>1 DEF Range
    <3> QED
      BY <1>1, <3>1, FS_Subset
  <2>3. PICK y \in Lower : \A z \in Lower : z <= y
    BY <2>2, GreatestExists
  <2>4. y \in Range(v) /\ y \in Nat /\ y < x
    BY <1>1, <2>3
  <2>5. \A d \in D : v[d] \in Nat /\ v[d] \in Range(v)
    BY DEF Range, Ranked
  <2>6. UpTo(y) = Below(x)
    BY <1>6, <2>3, <2>4, <2>5
  <2>7. y \in Reached
    BY <2>4, <2>6
  <2> HIDE DEF Reached
  <2> QED
    BY <1>5, <1>6, <2>4, <2>7
<1>8. KthSmallest(v, k) \in Range(v)
  <2>1. \E z \in Range(v) : Cardinality(Below(z)) < k /\ k <= Cardinality(UpTo(z))
    BY <1>6, <1>7
  <2> QED
    BY <2>1, Zenon DEF KthSmallest
<1> QED
  BY <1>8 DEF Range

\* The median lies between values.
LEMMA MedianOfValues ==
  ASSUME NEW v, Ranked(v)
  PROVE  \E c, d \in DOMAIN v : TwiceMedian(v) = v[c] + v[d]
<1> DEFINE n == Size(v)
<1>1. n \in Nat /\ n > 0
  BY SizeOfRanked
<1> HIDE DEF n
<1>2. (n + 1) \div 2 \in 1 .. n /\ (n \div 2) + 1 \in 1 .. n
  BY <1>1
<1>3. PICK c \in DOMAIN v : KthSmallest(v, (n + 1) \div 2) = v[c]
  BY <1>2, KthIsValue DEF n
<1>4. PICK d \in DOMAIN v : KthSmallest(v, (n \div 2) + 1) = v[d]
  BY <1>2, KthIsValue DEF n
<1> QED
  BY <1>3, <1>4 DEF TwiceMedian, n

LEMMA MedianIsNat ==
  ASSUME NEW v, Ranked(v)
  PROVE  TwiceMedian(v) \in Nat
BY MedianOfValues DEF Ranked

\* Values have a least and a greatest one.
LEMMA Extremes ==
  ASSUME NEW v, Ranked(v)
  PROVE  \E c, d \in DOMAIN v : \A e \in DOMAIN v : v[c] <= v[e] /\ v[e] <= v[d]
<1>1. [d \in DOMAIN v |-> v[d]] \in Surjection(DOMAIN v, Range(v))
  BY DEF Surjection, Range
<1>2. Range(v) \in SUBSET Nat /\ IsFiniteSet(Range(v)) /\ Range(v) # {}
  BY <1>1, FS_Surjection DEF Range, Ranked
<1>3. PICK x \in Range(v) : \A y \in Range(v) : x <= y
  BY <1>2, LeastExists
<1>4. PICK z \in Range(v) : \A y \in Range(v) : y <= z
  BY <1>2, GreatestExists
<1>5. PICK c \in DOMAIN v, d \in DOMAIN v : x = v[c] /\ z = v[d]
  BY <1>3, <1>4 DEF Range
<1>6. \A e \in DOMAIN v : v[e] \in Range(v)
  BY DEF Range
<1> QED
  BY <1>3, <1>4, <1>5, <1>6

\* The filter keeps a rate: the one nearest to the median.
LEMMA FilterKeepsOne ==
  ASSUME NEW v, Ranked(v), NEW num \in Nat, NEW den \in Nat, den <= num
  PROVE  MadKept(v, num, den) # {}
<1> DEFINE w == Deviations(v)
<1>1. DOMAIN w = DOMAIN v /\ \A d \in DOMAIN v : w[d] \in Nat
  BY MedianIsNat DEF Deviations, Distance, Ranked
<1> HIDE DEF w
<1>2. Ranked(w)
  BY <1>1 DEF Ranked
<1>3. PICK c, d \in DOMAIN w : FourMad(v) = w[c] + w[d]
  BY <1>2, MedianOfValues DEF FourMad, w
<1>4. PICK e \in DOMAIN w : \A x \in DOMAIN w : w[e] <= w[x]
  BY <1>2, Extremes
<1>5. 2 * den * w[e] <= num * FourMad(v)
  <2> DEFINE p == w[c]
             q == w[d]
             r == w[e]
  <2>1. p \in Nat /\ q \in Nat /\ r \in Nat /\ r <= p /\ r <= q
    BY <1>1, <1>4
  <2> HIDE DEF p, q, r
  <2>2. den * (2 * r) <= den * (p + q) /\ den * (p + q) <= num * (p + q)
    <3>1. \A i, j, k \in Nat : i <= j => k * i <= k * j /\ i * k <= j * k
      OBVIOUS
    <3>2. 2 * r \in Nat /\ p + q \in Nat /\ 2 * r <= p + q
      BY <2>1
    <3> QED
      BY <3>1, <3>2
  <2>3. 2 * den * r = den * (2 * r)
    BY <2>1
  <2>4. 2 * den * r <= num * (p + q)
    BY <2>1, <2>2, <2>3
  <2> QED
    BY <1>3, <2>4 DEF p, q, r
<1>6. DOMAIN v # {}
  BY DEF Ranked
<1> QED
  BY <1>1, <1>5, <1>6 DEF MadKept, w

\* A sum of values weighted by naturals lies between the weights times the
\* extremes.
LEMMA WeightedWithin ==
  ASSUME NEW v, Ranked(v), NEW w, NEW f, IsFiniteSet(DOMAIN w), DOMAIN f = DOMAIN w,
         \A i \in DOMAIN w : w[i] \in Nat /\ \E d \in DOMAIN v : f[i] = v[d] * w[i]
  PROVE  Within([num |-> SumFunction(f), den |-> SumFunction(w)], v)
<1>1. PICK c \in DOMAIN v, d \in DOMAIN v : \A e \in DOMAIN v : v[c] <= v[e] /\ v[e] <= v[d]
  BY Extremes
<1>2. v[c] \in Nat /\ v[d] \in Nat
  BY DEF Ranked
<1> DEFINE low == [i \in DOMAIN w |-> v[c] * w[i]]
           high == [i \in DOMAIN w |-> v[d] * w[i]]
<1>3. /\ DOMAIN low = DOMAIN w /\ DOMAIN high = DOMAIN w
      /\ \A i \in DOMAIN w : low[i] = v[c] * w[i] /\ high[i] = v[d] * w[i]
  OBVIOUS
<1> HIDE DEF low, high
<1>4. \A i \in DOMAIN w : /\ low[i] \in Int /\ f[i] \in Int /\ high[i] \in Int
                          /\ low[i] <= f[i] /\ f[i] <= high[i]
  <2> TAKE i \in DOMAIN w
  <2>1. PICK e \in DOMAIN v : f[i] = v[e] * w[i]
    OBVIOUS
  <2> DEFINE x == v[c]
             y == v[e]
             z == v[d]
             k == w[i]
  <2>2. x \in Nat /\ y \in Nat /\ z \in Nat /\ k \in Nat /\ x <= y /\ y <= z
    BY <1>1, <1>2 DEF Ranked
  <2> HIDE DEF x, y, z, k
  <2>3. x * k <= y * k /\ y * k <= z * k /\ x * k \in Int /\ y * k \in Int /\ z * k \in Int
    BY <2>2
  <2> QED
    BY <1>3, <2>1, <2>3 DEF x, y, z, k
<1>5. SumFunction(low) <= SumFunction(f) /\ SumFunction(f) <= SumFunction(high)
  BY <1>3, <1>4, SumMonotone
<1>6. SumFunction(low) = v[c] * SumFunction(w) /\ SumFunction(high) = v[d] * SumFunction(w)
  BY <1>2, <1>3, <1>4, SumScales
<1> QED
  BY <1>5, <1>6 DEF Within

\* A mean of ranks lies between the values.
LEMMA MeanWithin ==
  ASSUME NEW v, Ranked(v), NEW i \in Nat, NEW j \in Nat, 1 <= i, i <= j, j <= Size(v)
  PROVE  Within(MeanOfRanks(v, i, j), v)
<1> DEFINE w == [k \in i .. j |-> 1]
           f == [k \in i .. j |-> KthSmallest(v, k)]
<1>1. /\ DOMAIN w = i .. j /\ DOMAIN f = i .. j
      /\ \A k \in i .. j : w[k] = 1 /\ f[k] = KthSmallest(v, k)
  OBVIOUS
<1> HIDE DEF w, f
<1>2. IsFiniteSet(i .. j) /\ Cardinality(i .. j) = j - i + 1
  BY FS_Interval
<1>3. SumFunction(w) = j - i + 1
  <2>1. SumFunction(w) = 1 * Cardinality(i .. j)
    BY <1>1, <1>2, SumOfConstant
  <2> QED
    BY <1>2, <2>1
<1>4. \A k \in i .. j : \E d \in DOMAIN v : f[k] = v[d] * w[k]
  <2> TAKE k \in i .. j
  <2>1. k \in 1 .. Size(v)
    BY SizeOfRanked
  <2>2. PICK d \in DOMAIN v : KthSmallest(v, k) = v[d]
    BY <2>1, KthIsValue
  <2>3. v[d] = v[d] * 1
    BY DEF Ranked
  <2> QED
    BY <1>1, <2>2, <2>3
<1>5. Within([num |-> SumFunction(f), den |-> SumFunction(w)], v)
  BY <1>1, <1>2, <1>4, WeightedWithin
<1> QED
  BY <1>3, <1>5 DEF MeanOfRanks, f

LEMMA TrimmedMeanWithin ==
  ASSUME NEW v, Ranked(v), NEW percent \in 0 .. 100
  PROVE  Within(TrimmedMean(v, percent), v)
<1> DEFINE n == Size(v)
           k == (percent * n) \div 100
<1>1. n \in Nat /\ n > 0
  BY SizeOfRanked
<1> HIDE DEF n
<1>2. k \in Nat
  <2>1. percent * n \in Nat
    BY <1>1
  <2> QED
    BY <2>1
<1> HIDE DEF k
<1>3. TrimmedMean(v, percent) = IF n - 2 * k > 0 THEN MeanOfRanks(v, k + 1, n - k)
                                                ELSE MeanOfRanks(v, 1, n)
  BY DEF TrimmedMean, n, k
<1>4. CASE n - 2 * k > 0
  <2>1. /\ k + 1 \in Nat /\ n - k \in Nat /\ 1 <= k + 1 /\ k + 1 <= n - k /\ n - k <= n
    BY <1>1, <1>2, <1>4
  <2> QED
    BY <1>3, <1>4, <2>1, MeanWithin DEF n
<1>5. CASE ~ (n - 2 * k > 0)
  <2>1. 1 \in Nat /\ n \in Nat /\ 1 <= 1 /\ 1 <= n /\ n <= n
    BY <1>1
  <2> QED
    BY <1>3, <1>5, <2>1, MeanWithin DEF n
<1> QED
  BY <1>4, <1>5

LEMMA MedianWithin ==
  ASSUME NEW v, Ranked(v)
  PROVE  Within(Median(v), v)
<1>1. PICK c \in DOMAIN v, d \in DOMAIN v : TwiceMedian(v) = v[c] + v[d]
  BY MedianOfValues
<1>2. PICK l \in DOMAIN v, h \in DOMAIN v : \A e \in DOMAIN v : v[l] <= v[e] /\ v[e] <= v[h]
  BY Extremes
<1>3. /\ v[c] \in Nat /\ v[d] \in Nat /\ v[l] \in Nat /\ v[h] \in Nat
      /\ v[l] <= v[c] /\ v[l] <= v[d] /\ v[c] <= v[h] /\ v[d] <= v[h]
  BY <1>2 DEF Ranked
<1>4. v[l] * 2 <= v[c] + v[d] /\ v[c] + v[d] <= v[h] * 2
  BY <1>3
<1> QED
  BY <1>1, <1>4 DEF Within, Median

LEMMA WeightedMeanWithin ==
  ASSUME NEW v, Ranked(v), NEW w, DOMAIN w = DOMAIN v, \A d \in DOMAIN v : w[d] \in Nat
  PROVE  Within(WeightedMean(v, w), v)
<1>1. CASE SumFunction(w) <= 0
  <2>1. Size(v) \in Nat /\ 1 <= Size(v) /\ 1 \in Nat
    BY SizeOfRanked
  <2> QED
    BY <1>1, <2>1, MeanWithin DEF WeightedMean
<1>2. CASE ~ (SumFunction(w) <= 0)
  <2> DEFINE f == [d \in DOMAIN v |-> v[d] * w[d]]
  <2>1. /\ DOMAIN f = DOMAIN w /\ IsFiniteSet(DOMAIN w)
        /\ \A d \in DOMAIN w : w[d] \in Nat /\ \E e \in DOMAIN v : f[d] = v[e] * w[d]
    BY DEF Ranked
  <2>2. Within([num |-> SumFunction(f), den |-> SumFunction(w)], v)
    <3> HIDE DEF f
    <3> QED
      BY <2>1, WeightedWithin
  <2> QED
    BY <1>2, <2>2 DEF WeightedMean
<1> QED
  BY <1>1, <1>2
-------------------------------------------------------------------------------
(***************************************************************************)
(* The rates of the venues.                                                *)
(***************************************************************************)
\* What the sources list is stored as lists.
StoreIsFinite == IsFiniteSet(store)

LEMMA BatchIsFinite ==
  ASSUME NEW t, NEW s, NEW c, IsFiniteSet(c)
  PROVE  IsFiniteSet([at : {t}, source : {s}, quote : c])
<1> DEFINE B == [at : {t}, source : {s}, quote : c]
           f == [q \in c |-> [at |-> t, source |-> s, quote |-> q]]
<1>1. \A r \in B : r.quote \in c /\ r = [at |-> t, source |-> s, quote |-> r.quote]
  OBVIOUS
<1>2. f \in [c -> B]
  OBVIOUS
<1>3. \A r \in B : \E q \in c : f[q] = r
  BY <1>1
<1>4. f \in Surjection(c, B)
  BY <1>2, <1>3 DEF Surjection
<1> QED
  BY <1>4, FS_Surjection

\* The store is finite in every reachable state.
THEOREM FiniteStore == Spec => []StoreIsFinite
<1>1. Init => StoreIsFinite
  BY FS_EmptySet DEF Init, StoreIsFinite
<1>2. StoreIsFinite /\ [Next]_vars => StoreIsFinite'
  <2> SUFFICES ASSUME StoreIsFinite, [Next]_vars PROVE IsFiniteSet(store')
    BY DEF StoreIsFinite
  <2>1. CASE Observe
    <3> PICK listed \in [Sources -> Cohorts] :
          store' = store \union UNION {[at : {now + 1}, source : {x}, quote : listed[x]] :
                                         x \in Sources}
      BY <2>1 DEF Observe
    <3> DEFINE f == [x \in Sources |-> [at : {now + 1}, source : {x}, quote : listed[x]]]
    <3>1. \A x \in Sources : IsFiniteSet(f[x])
      BY BatchIsFinite DEF Cohorts
    <3>2. DOMAIN f = Sources /\ store' = store \union UNION {f[x] : x \in DOMAIN f}
      OBVIOUS
    <3> HIDE DEF f
    <3>3. IsFiniteSet(UNION {f[x] : x \in DOMAIN f})
      BY <3>1, <3>2, SpotIndexAssumption, FiniteUnion
    <3>4. IsFiniteSet(store \union UNION {f[x] : x \in DOMAIN f})
      <4>1. IsFiniteSet(store)
        BY Zenon DEF StoreIsFinite
      <4> QED
        BY <3>3, <4>1, FS_Union, Zenon
    <3> QED
      BY <3>2, <3>4, Zenon
  <2>2. CASE ObserveLate
    <3> PICK at \in 1 .. now, x \in Sources, cohort \in Cohorts \ {{}} :
          store' = store \union [at : {at}, source : {x}, quote : cohort]
      BY <2>2 DEF ObserveLate
    <3> DEFINE batch == [at : {at}, source : {x}, quote : cohort]
    <3>1. IsFiniteSet(batch) /\ store' = store \union batch
      BY BatchIsFinite DEF Cohorts
    <3> HIDE DEF batch
    <3>2. IsFiniteSet(store \union batch)
      <4>1. IsFiniteSet(store)
        BY Zenon DEF StoreIsFinite
      <4> QED
        BY <3>1, <4>1, FS_Union, Zenon
    <3> QED
      BY <3>1, <3>2, Zenon
  <2>3. CASE UNCHANGED vars
    BY <2>3 DEF vars, StoreIsFinite
  <2> QED
    BY <2>1, <2>2, <2>3 DEF Next
<1> QED
  BY <1>1, <1>2, PTL DEF Spec

\* The cohort of a source: a reading at least, all of one age.
LEMMA CohortOfSource ==
  ASSUME TypeOK, StoreIsFinite, NEW F \in SUBSET store, NEW s \in {r.source : r \in F}
  PROVE  LET cohort == FreshestCohort(F, s)
         IN  /\ IsFiniteSet(cohort) /\ cohort # {} /\ cohort \subseteq F
             /\ \A r \in cohort : r.quote.price \in Nat /\ r.quote.availability \in Nat
             /\ \A r, q \in cohort : r.at = q.at
<1> DEFINE cohort == FreshestCohort(F, s)
<1>1. \A r \in store : /\ r.at \in Instants /\ r.at \in Int /\ r.source \in Sources
                       /\ r.quote.price \in Nat /\ r.quote.availability \in Nat
  BY SpotIndexAssumption DEF TypeOK, Readings, Instants
<1>2. PICK m \in F : m.source = s /\ \A q \in F : q.source = s => q.at <= m.at
  <2>1. PICK r \in F : r.source = s
    OBVIOUS
  <2> QED
    BY <2>1, FreshestExists
<1>3. m \in cohort /\ cohort \subseteq F
  BY <1>2 DEF FreshestCohort
<1>4. \A r \in cohort : r.source = s /\ r \in store /\ r.at = m.at
  BY <1>1, <1>2 DEF FreshestCohort
<1>5. IsFiniteSet(cohort)
  <2>1. cohort \in SUBSET store
    BY <1>4
  <2> HIDE DEF cohort
  <2> QED
    BY <2>1, FS_Subset DEF StoreIsFinite
<1> QED
  BY <1>1, <1>3, <1>4, <1>5

\* The rate of a venue is a number, at least twice the price of an offer.
LEMMA RateOfVenue ==
  ASSUME TypeOK, StoreIsFinite, NEW F \in SUBSET store, NEW s \in {r.source : r \in F}
  PROVE  LET rate == VenueRates(F)[s]
         IN  /\ rate.rate \in Nat /\ rate.availability \in Nat
             /\ \A r \in FreshestCohort(F, s) : r.at = rate.at
             /\ \E r \in FreshestCohort(F, s) :
                  /\ 2 * r.quote.price <= rate.rate
                  /\ \A q \in FreshestCohort(F, s) : r.quote.price <= q.quote.price
<1> DEFINE cohort == FreshestCohort(F, s)
           prices == [r \in cohort |-> r.quote.price]
           offers == [r \in cohort |-> r.quote.availability]
<1>1. /\ IsFiniteSet(cohort) /\ cohort # {} /\ cohort \subseteq F
      /\ \A r \in cohort : r.quote.price \in Nat /\ r.quote.availability \in Nat
      /\ \A r, q \in cohort : r.at = q.at
  BY CohortOfSource
<1>2. VenueRates(F)[s] = [rate |-> TwiceMedian(prices), availability |-> SumFunction(offers),
                          at |-> (CHOOSE r \in cohort : TRUE).at]
  BY DEF VenueRates
<1>3. /\ DOMAIN prices = cohort /\ DOMAIN offers = cohort
      /\ \A r \in cohort : prices[r] = r.quote.price /\ offers[r] = r.quote.availability
  OBVIOUS
<1> HIDE DEF cohort, prices, offers
<1>4. Ranked(prices)
  BY <1>1, <1>3 DEF Ranked
<1>5. PICK c \in cohort, d \in cohort : TwiceMedian(prices) = prices[c] + prices[d]
  BY <1>3, <1>4, MedianOfValues
<1>6. PICK l \in cohort : \A e \in cohort : prices[l] <= prices[e]
  BY <1>3, <1>4, Extremes
<1>7. 2 * prices[l] <= prices[c] + prices[d] /\ TwiceMedian(prices) \in Nat
  <2>1. /\ prices[l] \in Nat /\ prices[c] \in Nat /\ prices[d] \in Nat
        /\ prices[l] <= prices[c] /\ prices[l] <= prices[d]
    BY <1>1, <1>3, <1>6
  <2> QED
    BY <1>5, <2>1
<1>8. SumFunction(offers) \in Nat
  BY <1>1, <1>3, SumIsNat
<1>9. (CHOOSE r \in cohort : TRUE) \in cohort
  BY <1>1
<1>10. \A r \in cohort : r.at = (CHOOSE q \in cohort : TRUE).at
  BY <1>1, <1>9
<1> QED
  BY <1>2, <1>3, <1>5, <1>6, <1>7, <1>8, <1>10 DEF cohort

\* The rates of venues, and those of some of them.
IsRates(R) ==
  IsFiniteSet(DOMAIN R) /\ \A s \in DOMAIN R : R[s].rate \in Nat /\ R[s].availability \in Nat

LEMMA RatesOfVenues ==
  ASSUME TypeOK, StoreIsFinite, NEW F \in SUBSET store
  PROVE  IsRates(VenueRates(F)) /\ DOMAIN VenueRates(F) = {r.source : r \in F}
<1>1. DOMAIN VenueRates(F) = {r.source : r \in F}
  BY DEF VenueRates
<1>2. {r.source : r \in F} \in SUBSET Sources
  BY DEF TypeOK, Readings
<1>3. IsFiniteSet({r.source : r \in F})
  BY <1>2, SpotIndexAssumption, FS_Subset
<1>4. \A s \in {r.source : r \in F} : VenueRates(F)[s].rate \in Nat /\ VenueRates(F)[s].availability \in Nat
  BY RateOfVenue
<1> QED
  BY <1>1, <1>3, <1>4 DEF IsRates

LEMMA PartOfRates ==
  ASSUME NEW R, IsRates(R), NEW D \in SUBSET DOMAIN R
  PROVE  IsRates(Restrict(R, D)) /\ DOMAIN Restrict(R, D) = D
<1>1. DOMAIN Restrict(R, D) = D /\ \A s \in D : Restrict(R, D)[s] = R[s]
  BY DEF Restrict
<1>2. IsFiniteSet(D)
  BY FS_Subset DEF IsRates
<1> QED
  BY <1>1, <1>2 DEF IsRates

LEMMA RatesAreRanked ==
  ASSUME NEW R, IsRates(R)
  PROVE  /\ DOMAIN RateOf(R) = DOMAIN R /\ \A s \in DOMAIN R : RateOf(R)[s] = R[s].rate
         /\ DOMAIN R # {} => Ranked(RateOf(R))
BY DEF RateOf, IsRates, Ranked

\* The filter keeps rates as they are, and one at least.
LEMMA Filtered ==
  ASSUME NEW R, IsRates(R)
  PROVE  /\ IsRates(OutlierFilter(R)) /\ DOMAIN OutlierFilter(R) \subseteq DOMAIN R
         /\ \A s \in DOMAIN OutlierFilter(R) : OutlierFilter(R)[s] = R[s]
         /\ DOMAIN R # {} /\ KDen <= KNum => DOMAIN OutlierFilter(R) # {}
<1> DEFINE D == MadKept(RateOf(R), KNum, KDen)
<1>1. DOMAIN RateOf(R) = DOMAIN R
  BY RatesAreRanked
<1>2. D \in SUBSET DOMAIN R
  BY <1>1 DEF MadKept
<1>3. OutlierFilter(R) = Restrict(R, D)
  BY DEF OutlierFilter
<1>4. DOMAIN R # {} /\ KDen <= KNum => D # {}
  BY RatesAreRanked, FilterKeepsOne, SpotIndexAssumption
<1> HIDE DEF D
<1>5. IsRates(Restrict(R, D)) /\ DOMAIN Restrict(R, D) = D
  BY <1>2, PartOfRates
<1>6. \A s \in D : Restrict(R, D)[s] = R[s]
  BY DEF Restrict
<1> QED
  BY <1>2, <1>3, <1>4, <1>5, <1>6

\* Relays aside, a venue is left.
LEMMA Preferred ==
  ASSUME NEW R, IsRates(R)
  PROVE  /\ IsRates(PreferDirect(R)) /\ DOMAIN PreferDirect(R) \subseteq DOMAIN R
         /\ DOMAIN R # {} => DOMAIN PreferDirect(R) # {}
<1> DEFINE D == {s \in DOMAIN R : IsDirect(s) \/ Direct(s.venue) \notin DOMAIN R}
<1>1. D \in SUBSET DOMAIN R /\ PreferDirect(R) = Restrict(R, D)
  BY DEF PreferDirect
<1>2. DOMAIN R # {} => D # {}
  <2> SUFFICES ASSUME NEW s \in DOMAIN R PROVE \E d \in DOMAIN R : d \in D
    OBVIOUS
  <2>1. IsDirect(Direct(s.venue))
    BY DEF IsDirect, Direct
  <2> QED
    BY <2>1
<1> HIDE DEF D
<1> QED
  BY <1>1, <1>2, PartOfRates

LEMMA VotesOfFresh ==
  ASSUME TypeOK, StoreIsFinite, NEW F \in SUBSET store
  PROVE  /\ IsRates(Votes(F)) /\ Cardinality(DOMAIN Votes(F)) \in Nat
         /\ F # {} /\ KDen <= KNum => DOMAIN Votes(F) # {}
<1>1. IsRates(VenueRates(F)) /\ (F # {} => DOMAIN VenueRates(F) # {})
  <2>1. F # {} => {r.source : r \in F} # {}
    OBVIOUS
  <2> QED
    BY <2>1, RatesOfVenues
<1>2. /\ IsRates(PreferDirect(VenueRates(F)))
      /\ F # {} => DOMAIN PreferDirect(VenueRates(F)) # {}
  BY <1>1, Preferred
<1>3. IsRates(Votes(F)) /\ (F # {} /\ KDen <= KNum => DOMAIN Votes(F) # {})
  BY <1>2, Filtered DEF Votes
<1>4. Cardinality(DOMAIN Votes(F)) \in Nat
  BY <1>3, FS_CardinalityType DEF IsRates
<1> QED
  BY <1>3, <1>4

LEMMA FreshIsStored == \A t : Fresh(store, t) \in SUBSET store
BY DEF Fresh
-------------------------------------------------------------------------------
(***************************************************************************)
(* What the fixes and the answers promise.                                 *)
(***************************************************************************)
\* A fix exists exactly when something is fresh, whatever the rates are.
THEOREM FixedWhenFresh == Spec => []FixWhenFresh
<1>1. TypeOK /\ StoreIsFinite => FixWhenFresh
  <2> SUFFICES ASSUME TypeOK, StoreIsFinite, NEW t \in Past, MinSources = 1, KDen <= KNum
               PROVE  Fix(store, t).fixed <=> Fresh(store, t) # {}
    BY DEF FixWhenFresh
  <2> DEFINE F == Fresh(store, t)
             votes == Votes(F)
  <2>1. /\ IsRates(votes) /\ Cardinality(DOMAIN votes) \in Nat
        /\ F # {} => DOMAIN votes # {}
    BY FreshIsStored, VotesOfFresh
  <2>2. DOMAIN votes # {} => ~ (Cardinality(DOMAIN votes) < MinSources)
    BY <2>1, FS_EmptySet DEF IsRates
  <2>3. Fix(store, t) = IF F = {} \/ Cardinality(DOMAIN votes) < MinSources THEN NoFix
                        ELSE [fixed |-> TRUE, price |-> TrimmedMean(RateOf(votes), Trim),
                              sources |-> Cardinality(DOMAIN votes),
                              oldest |-> Min({votes[s].at : s \in DOMAIN votes})]
    BY DEF Fix
  <2> HIDE DEF F, votes
  <2>4. CASE F = {}
    <3>1. ~ Fix(store, t).fixed
      BY <2>3, <2>4 DEF NoFix
    <3> QED
      BY <2>4, <3>1 DEF F
  <2>5. CASE F # {}
    <3>1. Fix(store, t).fixed
      BY <2>1, <2>2, <2>3, <2>5
    <3> QED
      BY <2>5, <3>1 DEF F
  <2> QED
    BY <2>4, <2>5
<1> QED
  BY <1>1, TypeCorrect, FiniteStore, PTL

\* A fix has votes, and its price is the trimmed mean of them.
LEMMA FixHasVotes ==
  ASSUME TypeOK, StoreIsFinite, NEW t, Fix(store, t).fixed
  PROVE  LET votes == Votes(Fresh(store, t))
         IN  /\ IsRates(votes) /\ DOMAIN votes # {} /\ Fresh(store, t) # {}
             /\ Fix(store, t).price = TrimmedMean(RateOf(votes), Trim)
<1> DEFINE F == Fresh(store, t)
           votes == Votes(F)
<1>1. IsRates(votes)
  BY FreshIsStored, VotesOfFresh
<1>2. Fix(store, t) = IF F = {} \/ Cardinality(DOMAIN votes) < MinSources THEN NoFix
                      ELSE [fixed |-> TRUE, price |-> TrimmedMean(RateOf(votes), Trim),
                            sources |-> Cardinality(DOMAIN votes),
                            oldest |-> Min({votes[s].at : s \in DOMAIN votes})]
  BY DEF Fix
<1> HIDE DEF F, votes
<1>3. ~ (F = {} \/ Cardinality(DOMAIN votes) < MinSources)
  <2> SUFFICES ASSUME F = {} \/ Cardinality(DOMAIN votes) < MinSources PROVE FALSE
    OBVIOUS
  <2> QED
    BY <1>2 DEF NoFix
<1>4. DOMAIN votes # {}
  BY <1>3, FS_EmptySet, SpotIndexAssumption
<1>5. Fix(store, t).price = TrimmedMean(RateOf(votes), Trim)
  BY <1>2, <1>3
<1> QED
  BY <1>1, <1>3, <1>4, <1>5 DEF F, votes

\* Every estimator stays between the rates it is given.
THEOREM EstimatesWithinVotes == Spec => []EstimateWithinVotes
<1>1. TypeOK /\ StoreIsFinite => EstimateWithinVotes
  <2> SUFFICES ASSUME TypeOK, StoreIsFinite, NEW t \in Past, Fix(store, t).fixed
               PROVE  LET votes == Votes(Fresh(store, t))
                          v == RateOf(votes)
                      IN  /\ Within(TrimmedMean(v, Trim), v)
                          /\ Within(Median(v), v)
                          /\ Within(WeightedMean(v, [d \in DOMAIN votes |-> votes[d].availability]), v)
    BY DEF EstimateWithinVotes
  <2> DEFINE votes == Votes(Fresh(store, t))
             v == RateOf(votes)
             w == [d \in DOMAIN votes |-> votes[d].availability]
  <2>1. IsRates(votes) /\ DOMAIN votes # {}
    BY FixHasVotes
  <2> HIDE DEF votes
  <2>2. Ranked(v) /\ DOMAIN v = DOMAIN votes
    BY <2>1, RatesAreRanked
  <2>3. DOMAIN w = DOMAIN v /\ \A d \in DOMAIN v : w[d] \in Nat
    BY <2>1, <2>2 DEF IsRates
  <2> HIDE DEF v, w
  <2>4. /\ Within(TrimmedMean(v, Trim), v) /\ Within(Median(v), v)
        /\ Within(WeightedMean(v, w), v)
    BY <2>2, <2>3, TrimmedMeanWithin, MedianWithin, WeightedMeanWithin, SpotIndexAssumption
  <2> QED
    BY <2>4 DEF votes, v, w
<1> QED
  BY <1>1, TypeCorrect, FiniteStore, PTL

\* The offers a fresh source listed last are the same to the price server.
LEMMA SameCohort ==
  ASSUME TypeOK, NEW t \in Past, NEW s \in {r.source : r \in Fresh(store, t)}
  PROVE  LET subset == Of(ReadAsOf(store, t), Product)
         IN  /\ FreshestCohort(subset, s) = FreshestCohort(Fresh(store, t), s)
             /\ s \in {r.source : r \in subset}
<1> DEFINE F == Fresh(store, t)
           subset == Of(ReadAsOf(store, t), Product)
<1>1. t \in Int /\ Staleness \in Int /\ \A r \in store : r.at \in Int
  BY SpotIndexAssumption DEF TypeOK, Readings, Instants, Past
<1>2. /\ subset \subseteq store
      /\ \A r \in store : r \in subset <=> r.at <= t /\ r.quote.product = Product
  BY DEF Of, ReadAsOf
<1>3. /\ F \subseteq store
      /\ \A r \in store : r \in F <=> r \in subset /\ r.source \notin Excluded /\ t - Staleness <= r.at
  BY <1>2 DEF Fresh
<1>4. PICK x \in F : x.source = s
  OBVIOUS
<1> HIDE DEF F, subset
<1>5. \A r \in subset : r.source = s /\ x.at <= r.at => r \in F
  BY <1>1, <1>2, <1>3, <1>4
<1>6. FreshestCohort(subset, s) = FreshestCohort(F, s)
  <2>1. ASSUME NEW r \in FreshestCohort(subset, s) PROVE r \in FreshestCohort(F, s)
    BY <1>3, <1>4, <1>5, <2>1 DEF FreshestCohort
  <2>2. ASSUME NEW r \in FreshestCohort(F, s) PROVE r \in FreshestCohort(subset, s)
    <3>1. r \in F /\ r.source = s /\ \A q \in F : q.source = s => q.at <= r.at
      BY <2>2 DEF FreshestCohort
    <3>2. ASSUME NEW q \in subset, q.source = s PROVE q.at <= r.at
      <4>1. x.at <= r.at /\ q.at \in Int /\ x.at \in Int /\ r.at \in Int
        BY <1>1, <1>2, <1>3, <1>4, <3>1
      <4>2. CASE x.at <= q.at
        BY <1>5, <3>1, <3>2, <4>2
      <4>3. CASE ~ (x.at <= q.at)
        BY <4>1, <4>3
      <4> QED
        BY <4>2, <4>3
    <3> QED
      BY <1>3, <3>1, <3>2 DEF FreshestCohort
  <2> QED
    BY <2>1, <2>2
<1>7. s \in {r.source : r \in subset}
  BY <1>3, <1>4
<1> QED
  BY <1>6, <1>7 DEF F, subset

\* A venue an alert names is quoted, of the same age and not above the alert.
THEOREM AlertsQuoted == Spec => []AlertsAreQuoted
<1>1. TypeOK /\ StoreIsFinite => AlertsAreQuoted
  <2> SUFFICES ASSUME TypeOK, StoreIsFinite, NEW t \in Past, DOMAIN Retained(store, t) # {},
                      NEW broken \in 0 .. Len(Rules),
                      NEW event \in Evaluate(ReadMarket(store, t), broken).sent
               PROVE  LET view == ReadMarket(store, t)
                          latest == LatestPrice(store, Product, t)
                          quote == latest.bySource[event.signal.venue]
                      IN  /\ quote.at = view.venues[event.signal.venue].at
                          /\ 2 * quote.quote.price <= event.signal.reference
    BY DEF AlertsAreQuoted
  <2> DEFINE F == Fresh(store, t)
             R == VenueRates(F)
             view == ReadMarket(store, t)
             c == view.cheapest
             subset == Of(ReadAsOf(store, t), Product)
             cohort == FreshestCohort(F, c)
             quote == CHOOSE r \in cohort : \A q \in cohort : r.quote.price <= q.quote.price
  <2>1. Retained(store, t) = OutlierFilter(R)
    BY DEF Retained, VenueRatesAt
  <2>2. IsRates(R) /\ DOMAIN R = {r.source : r \in F}
    BY RatesOfVenues, FreshIsStored
  <2>3. /\ view.venues = OutlierFilter(R) /\ c = Cheapest(store, t)
    BY <2>1 DEF ReadMarket
  <2> HIDE DEF R
  <2>4. /\ IsRates(OutlierFilter(R)) /\ DOMAIN OutlierFilter(R) \subseteq DOMAIN R
        /\ \A s \in DOMAIN OutlierFilter(R) : OutlierFilter(R)[s] = R[s]
    BY <2>2, Filtered
  <2>5. c \in DOMAIN OutlierFilter(R)
    <3> DEFINE rates == RateOf(Retained(store, t))
    <3>1. Ranked(rates) /\ DOMAIN rates = DOMAIN OutlierFilter(R)
      BY <2>1, <2>4, RatesAreRanked
    <3>2. c = CHOOSE s \in DOMAIN rates : \A q \in DOMAIN rates : rates[s] <= rates[q]
      BY <2>3, Zenon DEF Cheapest
    <3> HIDE DEF rates
    <3>3. \E s \in DOMAIN rates : \A q \in DOMAIN rates : rates[s] <= rates[q]
      BY <3>1, Extremes
    <3> HIDE DEF c
    <3> QED
      BY <3>1, <3>2, <3>3
  <2>6. event.signal = Assess(view)
    BY DEF Evaluate
  <2>7. event.signal.venue = c /\ event.signal.reference = view.venues[c].rate
    BY <2>6 DEF Assess
  <2>8. view.venues[c] = R[c] /\ c \in {r.source : r \in F}
    BY <2>2, <2>3, <2>4, <2>5
  <2> HIDE DEF view, c
  <2>9. FreshestCohort(subset, c) = cohort /\ c \in {r.source : r \in subset}
    BY <2>8, SameCohort
  <2>10. subset # {}
    BY <2>9
  <2>11. LatestPrice(store, Product, t).bySource[c] = quote
    <3>1. LatestPrice(store, Product, t).bySource = LatestRowPerSource(subset)
      BY <2>10 DEF LatestPrice
    <3>2. LatestRowPerSource(subset)[c] = quote
      BY <2>9 DEF LatestRowPerSource
    <3> QED
      BY <3>1, <3>2
  <2>12. /\ \A r \in cohort : r.at = R[c].at
         /\ \E r \in cohort : /\ 2 * r.quote.price <= R[c].rate
                              /\ \A q \in cohort : r.quote.price <= q.quote.price
         /\ R[c].rate \in Nat
    BY <2>8, FreshIsStored, RateOfVenue DEF R
  <2>13. \A r \in cohort : r.quote.price \in Nat
    BY <2>8, FreshIsStored, CohortOfSource
  <2>14. quote \in cohort /\ \A q \in cohort : quote.quote.price <= q.quote.price
    <3> HIDE DEF cohort
    <3> QED
      BY <2>12
  <2> HIDE DEF quote, cohort
  <2>15. quote.at = R[c].at /\ 2 * quote.quote.price <= R[c].rate
    <3>1. PICK r \in cohort : 2 * r.quote.price <= R[c].rate
      BY <2>12
    <3>2. quote.quote.price <= r.quote.price /\ quote.quote.price \in Nat /\ r.quote.price \in Nat
      BY <2>13, <2>14
    <3> QED
      BY <2>12, <2>14, <3>1, <3>2
  <2> QED
    BY <2>7, <2>8, <2>11, <2>15 DEF view
<1> QED
  BY <1>1, TypeCorrect, FiniteStore, PTL
-------------------------------------------------------------------------------
(***************************************************************************)
(* What is served about the past, when all that comes is of the present.   *)
(***************************************************************************)
\* A store that was extended by readings after n only.
Extended(A, B, n) ==
  /\ IsFiniteSet(A) /\ IsFiniteSet(B) /\ A \subseteq B
  /\ n \in Nat
  /\ \A r \in B : r.at \in Nat /\ r.source \in Sources
  /\ \A r \in A : r.at <= n
  /\ \A r \in B \ A : n < r.at

LEMMA SamePast ==
  ASSUME NEW A, NEW B, NEW n, Extended(A, B, n), NEW t \in Int, t <= n
  PROVE  /\ ReadAsOf(B, t) = ReadAsOf(A, t)
         /\ Fresh(B, t) = Fresh(A, t)
         /\ Fix(B, t) = Fix(A, t)
         /\ Retained(B, t) = Retained(A, t)
         /\ Cheapest(B, t) = Cheapest(A, t)
<1>1. \A r \in B : r.at <= t => r \in A
  <2> SUFFICES ASSUME NEW r \in B, r.at <= t, r \notin A PROVE FALSE
    OBVIOUS
  <2>1. n < r.at /\ r.at \in Int /\ n \in Int
    BY DEF Extended
  <2> QED
    BY <2>1
<1>2. A \subseteq B
  BY DEF Extended
<1>3. ReadAsOf(B, t) = ReadAsOf(A, t) /\ Fresh(B, t) = Fresh(A, t)
  BY <1>1, <1>2 DEF ReadAsOf, Fresh
<1>4. Fix(B, t) = Fix(A, t)
  BY <1>3, Zenon DEF Fix
<1>5. Retained(B, t) = Retained(A, t)
  BY <1>3, <1>4, Zenon DEF Retained, VenueRatesAt
<1>6. Cheapest(B, t) = Cheapest(A, t)
  BY <1>5, Zenon DEF Cheapest
<1> QED
  BY <1>3, <1>4, <1>5, <1>6

LEMMA SameServed ==
  ASSUME NEW A, NEW B, NEW n, Extended(A, B, n), NEW t \in Int, t <= n
  PROVE  Served(B, t) = Served(A, t)
<1>1. /\ ReadAsOf(B, t) = ReadAsOf(A, t) /\ Fix(B, t) = Fix(A, t)
      /\ Retained(B, t) = Retained(A, t) /\ Cheapest(B, t) = Cheapest(A, t)
  BY SamePast, Zenon
<1>2. ListGpuModels(B, t) = ListGpuModels(A, t)
  BY <1>1, Zenon DEF ListGpuModels
<1>3. LatestPrice(B, Product, t) = LatestPrice(A, Product, t)
  BY <1>1, <1>2, Zenon DEF LatestPrice
<1>4. /\ PriceHistory(B, Product, 1, t) = PriceHistory(A, Product, 1, t)
      /\ SummaryStats(B, Product, t) = SummaryStats(A, Product, t)
  BY <1>1, Zenon DEF PriceHistory, SummaryStats
<1>5. PriceCurve(B, {t}) = PriceCurve(A, {t})
  <2> DEFINE Point(rows, u) == LET fix == Fix(rows, u)
                               IN  IF fix.fixed THEN [price |-> fix.price, sources |-> fix.sources]
                                                ELSE [sources |-> 0]
  <2>1. \A u \in {t} : Point(B, u) = Point(A, u)
    BY <1>1
  <2>2. /\ PriceCurve(B, {t}) = [u \in {t} |-> Point(B, u)]
        /\ PriceCurve(A, {t}) = [u \in {t} |-> Point(A, u)]
    BY Zenon DEF PriceCurve
  <2> HIDE DEF Point
  <2> QED
    BY <2>1, <2>2
<1>6. DispersionAt(B, t) = DispersionAt(A, t)
  BY <1>1, Zenon DEF DispersionAt
<1> QED
  BY <1>3, <1>4, <1>5, <1>6, Zenon DEF Served

\* The instants of finitely many readings have a first and a last.
LEMMA FirstAndLast ==
  ASSUME NEW F, IsFiniteSet(F), F # {}, \A r \in F : r.at \in Nat
  PROVE  LET times == {r.at : r \in F}
         IN  /\ Min(times) \in times /\ \A u \in times : Min(times) <= u
             /\ Max(times) \in times /\ \A u \in times : u <= Max(times)
<1> DEFINE times == {r.at : r \in F}
<1>1. times \in SUBSET Nat /\ times # {}
  OBVIOUS
<1>2. IsFiniteSet(times)
  <2> DEFINE f == [r \in F |-> r.at]
  <2>1. f \in Surjection(F, times)
    BY DEF Surjection
  <2> HIDE DEF f, times
  <2> QED
    BY <2>1, FS_Surjection
<1> HIDE DEF times
<1>3. /\ \E x \in times : \A y \in times : x <= y
      /\ \E x \in times : \A y \in times : y <= x
  BY <1>1, <1>2, LeastExists, GreatestExists
<1>4. Min(times) \in times /\ \A u \in times : Min(times) <= u
  BY <1>3 DEF Min
<1>5. Max(times) \in times /\ \A u \in times : u <= Max(times)
  BY <1>3 DEF Max
<1> QED
  BY <1>4, <1>5 DEF times

\* The grid of the daily fixes is extended.
LEMMA GridGrows ==
  ASSUME NEW A, NEW B, NEW n, Extended(A, B, n)
  PROVE  BuildGrid(A) \subseteq BuildGrid(B) /\ BuildGrid(A) \subseteq Int
<1> SUFFICES ASSUME NEW t \in BuildGrid(A) PROVE t \in BuildGrid(B) /\ t \in Int
  OBVIOUS
<1> DEFINE first(F) == Min({r.at : r \in F})
           last(F) == Max({r.at : r \in F})
<1>1. ASSUME NEW F, IsFiniteSet(F), F # {}
      PROVE  BuildGrid(F) = DailyFixGrid(first(F), last(F) + Staleness)
  <2>1. Cardinality(F) # 0
    BY <1>1, FS_EmptySet
  <2>2. /\ SummarizeHistory(F).snapshots = Cardinality(F)
        /\ SummarizeHistory(F).first = first(F) /\ SummarizeHistory(F).last = last(F)
    BY <1>1 DEF SummarizeHistory
  <2> QED
    BY <2>1, <2>2 DEF BuildGrid
<1>2. A # {}
  <2> SUFFICES ASSUME A = {} PROVE FALSE
    OBVIOUS
  <2>1. SummarizeHistory(A).snapshots = 0
    BY DEF SummarizeHistory
  <2> QED
    BY <2>1 DEF BuildGrid
<1>3. B # {} /\ A \subseteq B /\ n \in Nat
  BY <1>2 DEF Extended
<1>4. /\ first(A) \in {r.at : r \in A} /\ \A r \in A : first(A) <= r.at
      /\ last(A) \in {r.at : r \in A} /\ \A r \in A : r.at <= last(A)
  <2>1. IsFiniteSet(A) /\ \A r \in A : r.at \in Nat
    BY DEF Extended
  <2> DEFINE times == {r.at : r \in A}
  <2>2. /\ Min(times) \in times /\ \A u \in times : Min(times) <= u
        /\ Max(times) \in times /\ \A u \in times : u <= Max(times)
    BY <1>2, <2>1, FirstAndLast, Zenon
  <2>3. \A r \in A : r.at \in times
    OBVIOUS
  <2> QED
    BY <2>2, <2>3, Zenon
<1>5. /\ first(B) \in {r.at : r \in B} /\ \A r \in B : first(B) <= r.at
      /\ last(B) \in {r.at : r \in B} /\ \A r \in B : r.at <= last(B)
  <2>1. IsFiniteSet(B) /\ \A r \in B : r.at \in Nat
    BY DEF Extended
  <2> DEFINE times == {r.at : r \in B}
  <2>2. /\ Min(times) \in times /\ \A u \in times : Min(times) <= u
        /\ Max(times) \in times /\ \A u \in times : u <= Max(times)
    BY <1>3, <2>1, FirstAndLast, Zenon
  <2>3. \A r \in B : r.at \in times
    OBVIOUS
  <2> QED
    BY <2>2, <2>3, Zenon
<1>6. PICK a \in A, z \in A, c \in B, e \in B :
        first(A) = a.at /\ last(A) = z.at /\ first(B) = c.at /\ last(B) = e.at
  BY <1>4, <1>5
<1>7. /\ a.at \in Nat /\ z.at \in Nat /\ c.at \in Nat /\ e.at \in Nat /\ Staleness \in Nat
      /\ c.at <= a.at /\ z.at <= e.at
  BY <1>3, <1>5, <1>6, SpotIndexAssumption DEF Extended
<1>8. t \in a.at .. z.at + Staleness /\ t % FixEvery = 0
  BY <1>1, <1>2, <1>6 DEF DailyFixGrid, Extended
<1>9. t \in c.at .. e.at + Staleness
  BY <1>7, <1>8
<1> QED
  BY <1>1, <1>3, <1>6, <1>8, <1>9 DEF DailyFixGrid, Extended

\* A model that is reported stays so.
LEMMA ModelsGrow ==
  ASSUME NEW A, NEW B, NEW n, Extended(A, B, n)
  PROVE  SelectModels(A) \subseteq SelectModels(B)
<1>1. A \subseteq B /\ IsFiniteSet(B)
  BY DEF Extended
<1>2. ListGpuModels(A, Now) \subseteq ListGpuModels(B, Now)
  BY <1>1 DEF ListGpuModels, ReadAsOf
<1>3. ASSUME NEW p \in MultiVenueModels(A) PROVE p \in MultiVenueModels(B)
  <2> DEFINE few == {r.source : r \in Of(A, p)}
             many == {r.source : r \in Of(B, p)}
  <2>1. p \in Products /\ Cardinality(few) >= 2
    BY <1>3 DEF MultiVenueModels
  <2>2. few \subseteq many /\ many \subseteq Sources
    BY <1>1 DEF Of, Extended
  <2> HIDE DEF few, many
  <2>3. IsFiniteSet(many)
    BY <2>2, SpotIndexAssumption, FS_Subset
  <2>4. IsFiniteSet(few) /\ Cardinality(few) <= Cardinality(many)
    BY <2>2, <2>3, FS_Subset
  <2>5. Cardinality(few) \in Nat /\ Cardinality(many) \in Nat
    BY <2>3, <2>4, FS_CardinalityType
  <2>6. Cardinality(many) >= 2
    BY <2>1, <2>4, <2>5
  <2> QED
    BY <2>1, <2>6 DEF MultiVenueModels, many
<1> QED
  BY <1>2, <1>3 DEF SelectModels

\* The points of a series repeat, whatever its grid has become.
LEMMA PointsRepeat ==
  ASSUME NEW A, NEW B, NEW n, Extended(A, B, n), NEW G, NEW H, G \subseteq H
  PROVE  FixesUpTo(n, BuildIndexSeries(A, G).points) \subseteq FixesUpTo(n, BuildIndexSeries(B, H).points)
<1> DEFINE before == BuildIndexSeries(A, G).points
           after == BuildIndexSeries(B, H).points
<1> SUFFICES ASSUME NEW u \in DOMAIN before \intersect 1 .. n
             PROVE  <<u, before[u]>> \in FixesUpTo(n, after)
  BY DEF FixesUpTo
<1>1. /\ DOMAIN before = {t \in G : Fix(A, t).fixed} /\ \A t \in DOMAIN before : before[t] = Fix(A, t)
      /\ DOMAIN after = {t \in H : Fix(B, t).fixed} /\ \A t \in DOMAIN after : after[t] = Fix(B, t)
  BY DEF BuildIndexSeries
<1>2. n \in Int
  BY DEF Extended
<1>3. u \in Int /\ u <= n
  BY <1>2
<1>4. Fix(B, u) = Fix(A, u)
  BY <1>3, SamePast
<1> HIDE DEF before, after
<1>5. u \in DOMAIN after \intersect 1 .. n /\ after[u] = before[u]
  BY <1>1, <1>4
<1> QED
  BY <1>5 DEF FixesUpTo

LEMMA ReportRepeats ==
  ASSUME NEW A, NEW B, NEW n, Extended(A, B, n)
  PROVE  Reported(A, n) \subseteq Reported(B, n)
<1> DEFINE models(rows) == RunBenchmark(rows).models
           points(rows) == BuildIndexSeries(rows, BuildGrid(rows)).points
<1>1. ASSUME NEW rows
      PROVE  /\ DOMAIN models(rows) = SelectModels(rows) \intersect {Product}
             /\ \A p \in DOMAIN models(rows) : models(rows)[p].index.points = points(rows)
  BY DEF RunBenchmark, BuildReport
<1>2. FixesUpTo(n, points(A)) \subseteq FixesUpTo(n, points(B))
  BY GridGrows, PointsRepeat
<1>3. DOMAIN models(A) \subseteq DOMAIN models(B)
  BY <1>1, ModelsGrow
<1>4. /\ Reported(A, n) = UNION {FixesUpTo(n, models(A)[p].index.points) : p \in DOMAIN models(A)}
      /\ Reported(B, n) = UNION {FixesUpTo(n, models(B)[p].index.points) : p \in DOMAIN models(B)}
  BY DEF Reported
<1> HIDE DEF models, points
<1>5. \A p \in DOMAIN models(A) :
        /\ p \in DOMAIN models(B)
        /\ FixesUpTo(n, models(A)[p].index.points) \subseteq FixesUpTo(n, models(B)[p].index.points)
  BY <1>1, <1>2, <1>3
<1> QED
  BY <1>4, <1>5

LEMMA PagesRepeat ==
  ASSUME NEW A, NEW B, NEW n, Extended(A, B, n), NEW daily \in BOOLEAN
  PROVE  Drawn(A, daily, n) \subseteq Drawn(B, daily, n)
<1>1. CASE daily
  BY <1>1, GridGrows, PointsRepeat DEF Drawn, BenchmarkPage
<1>2. CASE ~daily
  <2>1. ObservedFixGrid(A) \subseteq ObservedFixGrid(B)
    BY DEF Extended, ObservedFixGrid, Of
  <2> QED
    BY <1>2, <2>1, PointsRepeat DEF Drawn, BenchmarkPage
<1> QED
  BY <1>1, <1>2

\* A page whose instant was taken from A shows the market of A, and its trend up to
\* that instant, whether the market and the trend are read before or after a
\* collection.
LEMMA OnePage ==
  ASSUME NEW A, NEW B, NEW n, Extended(A, B, n), A # {},
         NEW C \in {A, B}, NEW D \in {A, B}, NEW clock
  PROVE  SameMarket(Render(A, A, C, D, clock), Render(A, A, A, A, clock))
<1> DEFINE t == FixInstant(A, clock)
           page == Render(A, A, C, D, clock)
           quiet == Render(A, A, A, A, clock)
           Price(rows, u) == LET fix == Fix(rows, u)
                             IN  IF fix.fixed THEN [price |-> fix.price, sources |-> fix.sources]
                                              ELSE [sources |-> 0]
           times == CurveTimes(clock)
           shown == Product \in AvailableModels(A) /\ Fix(A, t).fixed
<1>1. t \in Int /\ t <= n
  <2>1. t = Max({r.at : r \in A})
    BY Zenon DEF FixInstant
  <2>2. t \in {r.at : r \in A}
    BY <2>1, FirstAndLast DEF Extended
  <2> QED
    BY <2>2 DEF Extended
<1>2. ASSUME NEW u \in Int, u <= n, NEW E \in {A, B}
      PROVE  Fix(E, u) = Fix(A, u) /\ Retained(E, u) = Retained(A, u) /\ Cheapest(E, u) = Cheapest(A, u)
  BY <1>2, SamePast, Zenon
<1>3. ReadMarket(C, t) = ReadMarket(A, t) /\ Fix(C, t) = Fix(A, t)
  BY <1>1, <1>2, Zenon DEF ReadMarket
<1>4. /\ page.at = t /\ page.markets = (IF shown THEN {ReadMarket(A, t)} ELSE {})
      /\ page.curve = IF shown THEN PriceCurve(D, times) ELSE << >>
      /\ quiet.at = t /\ quiet.markets = (IF shown THEN {ReadMarket(A, t)} ELSE {})
      /\ quiet.curve = IF shown THEN PriceCurve(A, times) ELSE << >>
  <2> HIDE DEF t, times
  <2> QED
    BY <1>3, Zenon DEF Render, t, times
<1>5. ASSUME NEW E PROVE PriceCurve(E, times) = [u \in times |-> Price(E, u)]
  BY Zenon DEF PriceCurve
<1>6. ASSUME NEW u \in times, u <= t PROVE Price(D, u) = Price(A, u)
  <2>1. u \in Int
    BY DEF CurveTimes, Instants
  <2>2. u <= n
    BY <1>1, <1>6, <2>1, SpotIndexAssumption DEF Extended
  <2> QED
    BY <1>2, <2>1, <2>2, Zenon
<1> HIDE DEF t, page, quiet, Price, times, shown
<1>7. DOMAIN page.curve = DOMAIN quiet.curve
  BY <1>4, <1>5
<1>8. ASSUME NEW u \in DOMAIN quiet.curve, u <= page.at PROVE page.curve[u] = quiet.curve[u]
  <2>1. CASE shown
    BY <1>4, <1>5, <1>6, <1>8, <2>1
  <2>2. CASE ~shown
    BY <1>4, <2>2
  <2> QED
    BY <2>1, <2>2
<1> QED
  BY <1>4, <1>7, <1>8 DEF SameMarket, page, quiet

\* No answer about the past changes while no late row arrives.
THEOREM AnswersKeep == Spec => AnswersStand
<1>1. TypeOK /\ TypeOK' /\ StoreIsFinite /\ StoreIsFinite' /\ [Next]_vars => StandsAsServed
  <2> SUFFICES ASSUME TypeOK, TypeOK', StoreIsFinite, StoreIsFinite', [Next]_vars,
                      \A r \in store' \ store : now < r.at
               PROVE  /\ \A t \in Past : Served(store', t) = Served(store, t)
                      /\ Reported(store, now) \subseteq Reported(store', now)
                      /\ \A daily \in BOOLEAN :
                           Drawn(store, daily, now) \subseteq Drawn(store', daily, now)
                      /\ store # {} => \A clock \in {now, now'} :
                           \A page \in {PageOvertaken(k, clock) : k \in {2, 3}},
                              quiet \in {PageOvertaken(4, clock)} : SameMarket(page, quiet)
    BY DEF StandsAsServed
  <2> DEFINE before == store
             after == store'
             n == now
  <2>1. Extended(before, after, n)
    <3>1. \A r \in store' : r.at \in Nat /\ r.source \in Sources
      BY DEF TypeOK, Readings, Instants
    <3>2. now \in Nat /\ \A r \in store : r.at <= now
      BY SpotIndexAssumption DEF TypeOK
    <3>3. IsFiniteSet(store) /\ IsFiniteSet(store')
      BY DEF StoreIsFinite
    <3> QED
      BY <3>1, <3>2, <3>3, StoreGrows DEF Extended
  <2>2. \A t \in Past : t \in Int /\ t <= n
    BY SpotIndexAssumption DEF Past, TypeOK
  <2> HIDE DEF before, after, n
  <2>3. \A t \in Past : Served(after, t) = Served(before, t)
    BY <2>1, <2>2, SameServed
  <2>4. /\ Reported(before, n) \subseteq Reported(after, n)
        /\ \A daily \in BOOLEAN : Drawn(before, daily, n) \subseteq Drawn(after, daily, n)
    BY <2>1, ReportRepeats, PagesRepeat
  <2>5. ASSUME before # {}, NEW k \in {2, 3}, NEW clock
        PROVE  SameMarket(PageOvertaken(k, clock), PageOvertaken(4, clock))
    <3>1. PageOvertaken(4, clock) = Render(before, before, before, before, clock)
      BY DEF PageOvertaken, before
    <3>2. PageOvertaken(2, clock) = Render(before, before, after, after, clock)
      BY DEF PageOvertaken, before, after
    <3>3. PageOvertaken(3, clock) = Render(before, before, before, after, clock)
      BY DEF PageOvertaken, before, after
    <3> QED
      BY <2>1, <2>5, <3>1, <3>2, <3>3, OnePage
  <2> QED
    BY <2>3, <2>4, <2>5, Zenon DEF before, after, n
<1> QED
  BY <1>1, TypeCorrect, FiniteStore, PTL DEF Spec, AnswersStand
===============================================================================
