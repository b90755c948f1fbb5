--------------------------- MODULE RobustStatistics ---------------------------
(***************************************************************************)
(* The statistics of the compute index (core/ingestion/estimators.py) on   *)
(* finite functions from what is quoted to an integer.  Halves appear as   *)
(* doubled integers and means as fractions, so that every comparison the   *)
(* code makes is exact.                                                    *)
(***************************************************************************)
EXTENDS Integers, FiniteSets, Functions, FiniteSetsExt

Size(v) == Cardinality(DOMAIN v)

\* The k-th smallest value of v, counting repetitions.
KthSmallest(v, k) ==
  CHOOSE x \in Range(v) :
    /\ Cardinality({d \in DOMAIN v : v[d] < x}) < k
    /\ k <= Cardinality({d \in DOMAIN v : v[d] <= x})

\* Mutant: the upper middle value, as a quick median takes it.
UpperMedian(v) == 2 * KthSmallest(v, (Size(v) \div 2) + 1)

\* Twice the median: the two middle values are averaged when they differ.
TwiceMedian(v) ==
  KthSmallest(v, (Size(v) + 1) \div 2) + KthSmallest(v, (Size(v) \div 2) + 1)

Distance(x, y) == IF x < y THEN y - x ELSE x - y

\* Twice the distance of each value from the median.
Deviations(v) == [d \in DOMAIN v |-> Distance(2 * v[d], TwiceMedian(v))]

\* Four times the median absolute deviation.
FourMad(v) == TwiceMedian(Deviations(v))

\* Mutant: without the exception for a zero deviation, and a strict comparison.
MadKeptStrict(v, num, den) ==
  {d \in DOMAIN v : 2 * den * Deviations(v)[d] < num * FourMad(v)}

\* MadOutlierFilter(num / den): what it keeps of v.
MadKept(v, num, den) ==
  IF FourMad(v) = 0
    THEN DOMAIN v
    ELSE {d \in DOMAIN v : 2 * den * Deviations(v)[d] <= num * FourMad(v)}

\* Mean of the i-th to the j-th smallest values.
MeanOfRanks(v, i, j) ==
  [num |-> SumFunction([k \in i .. j |-> KthSmallest(v, k)]), den |-> j - i + 1]

\* Mutant: the trimmed values still count in the denominator.
TrimmedMeanUndivided(v, percent) ==
  LET n == Size(v)
      k == (percent * n) \div 100
  IN  [num |-> MeanOfRanks(v, k + 1, n - k).num, den |-> n]

\* TrimmedMean(percent / 100)
TrimmedMean(v, percent) ==
  LET n == Size(v)
      k == (percent * n) \div 100
  IN  IF n - 2 * k > 0 THEN MeanOfRanks(v, k + 1, n - k) ELSE MeanOfRanks(v, 1, n)

Median(v) == [num |-> TwiceMedian(v), den |-> 2]

\* AvailabilityWeightedMean, w being the availabilities.
WeightedMean(v, w) ==
  LET weight == SumFunction(w)
  IN  IF weight <= 0
        THEN MeanOfRanks(v, 1, Size(v))
        ELSE [num |-> SumFunction([d \in DOMAIN v |-> v[d] * w[d]]), den |-> weight]
=============================================================================
