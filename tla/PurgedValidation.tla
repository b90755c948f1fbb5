---------------------------- MODULE PurgedValidation ----------------------------
(***************************************************************************)
(* Purged cross-validation (core/models): the rows that FeaturePipeline    *)
(* and build_labels leave complete, the folds of PurgedKFold over them,    *)
(* and the out-of-sample probabilities of oos_predict, put back on the     *)
(* instants of the series.  A label looks `horizon` instants ahead; the    *)
(* splitter counts in rows, and rows may be missing anywhere.              *)
(***************************************************************************)
EXTENDS Integers, FiniteSets

CONSTANTS MaxLength,      \* bound on the instants of the series
          MaxDepth,       \* bound on the window of the features
          MaxSplits, MaxHorizon, MaxEmbargo

ASSUME ValidationAssumption ==
  /\ MaxLength \in Nat /\ MaxDepth \in Nat /\ MaxSplits \in Nat
  /\ MaxHorizon \in Nat /\ MaxEmbargo \in Nat

VARIABLES known,          \* the instants that have a spread
          depth,          \* the features at t read the spread from t - depth on
          horizon,
          rows,           \* the instants that become a row
          splits, embargo,
          fold,           \* the next fold
          trained,        \* the rows each past fold was trained on
          proba           \* the fold that predicted each instant, or None

params == <<known, depth, horizon, rows, splits, embargo>>
vars == <<params, fold, trained, proba>>

Instants == 0 .. MaxLength - 1
Folds == 0 .. splits - 1
None == -1

\* The features and the label of t are all there.
Complete == {t \in Instants : t - depth .. t \subseteq known /\ t + horizon \in known}

\* Exogenous features may be missing at some complete instants.  embargo is the
\* horizon unless it is given.
Init ==
  /\ known \in SUBSET Instants
  /\ depth \in 0 .. MaxDepth
  /\ horizon \in 1 .. MaxHorizon
  /\ rows \in SUBSET Complete
  /\ splits \in 2 .. MaxSplits
  /\ embargo \in 0 .. MaxEmbargo
  /\ fold = 0
  /\ trained = [k \in Folds |-> {}]
  /\ proba = [t \in Instants |-> None]

\* The row number of an instant.
Rank(t) == Cardinality({s \in rows : s < t})

\* The rows numbered from i to j - 1.
Block(i, j) == {t \in rows : i <= Rank(t) /\ Rank(t) < j}

\* Mutant: every block but the last has the same number of rows.
FirstEven(k) == k * (Cardinality(rows) \div splits)

\* np.array_split: the first blocks take one of the remaining rows each.
First(k) ==
  LET left == Cardinality(rows) % splits
  IN  k * (Cardinality(rows) \div splits) + (IF k < left THEN k ELSE left)

Test(k) == Block(First(k), First(k + 1))

\* Mutant: one row too few is purged.
PurgedShort(k) == Block(First(k) - horizon + 1, First(k))

\* Rows whose label may look into the test block.
Purged(k) == Block(First(k) - horizon, First(k))

\* Mutant: the embargo starts inside the test block.
EmbargoedEarly(k) == Block(First(k + 1) - 1, First(k + 1) + embargo - 1)

Embargoed(k) == Block(First(k + 1), First(k + 1) + embargo)

Train(k) == rows \ (Test(k) \union Purged(k) \union Embargoed(k))

\* A fold of oos_predict: a fresh model is fitted and predicts the test block.
\* With fewer rows than splits nothing is predicted.
Predict ==
  /\ splits <= Cardinality(rows)
  /\ fold \in Folds
  /\ trained' = [trained EXCEPT ![fold] = Train(fold)]
  /\ proba' = [t \in Instants |-> IF t \in Test(fold) THEN fold ELSE proba[t]]
  /\ fold' = fold + 1
  /\ UNCHANGED params

Next == Predict

Spec == Init /\ [][Next]_vars
-------------------------------------------------------------------------------
(***************************************************************************)
(* Properties.                                                             *)
(***************************************************************************)
\* Type invariant.
TypeOK ==
  /\ known \subseteq Instants
  /\ rows \subseteq Complete
  /\ depth \in 0 .. MaxDepth
  /\ horizon \in 1 .. MaxHorizon
  /\ splits \in 2 .. MaxSplits
  /\ embargo \in 0 .. MaxEmbargo
  /\ fold \in 0 .. splits
  /\ trained \in [Folds -> SUBSET rows]
  /\ proba \in [Instants -> Folds \union {None}]

\* The instants the model of a fold predicts.
Predicted(k) == {t \in Instants : proba[t] = k}

\* No label a model was trained on looks at an instant the model then predicts:
\* purging rows is enough for labels that count in instants, whichever instants
\* are missing between the rows.
NoLabelReachesTest ==
  \A k \in Folds : \A s \in trained[k], t \in Predicted(k) : s < t => s + horizon < t

\* With the default embargo, or a longer one, no label of the test block looks at
\* an instant the model was trained on either.
NoTestLabelReachesTraining ==
  embargo >= horizon =>
    \A k \in Folds : \A s \in trained[k], t \in Predicted(k) : t < s => t + horizon < s

\* A row is predicted by a model that has not seen it, and once all folds are
\* done every row is: the blocks leave none out and take none twice.
EveryRowOutOfSample ==
  /\ \A t \in rows : proba[t] # None => t \notin trained[proba[t]]
  /\ fold = splits => \A t \in Instants : (proba[t] # None <=> t \in rows)
===============================================================================
