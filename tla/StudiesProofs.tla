------------------------------ MODULE StudiesProofs ------------------------------
(***************************************************************************)
(* What research on this data can rely on, for every value of the          *)
(* constants: the purged folds that validate a model let no label look     *)
(* across their borders, and what the studies gave for the past stays when *)
(* data goes on arriving.                                                  *)
(***************************************************************************)
EXTENDS PurgedValidation, SpreadStudies, FiniteInduction, FiniteSetTheorems, TLAPS
-------------------------------------------------------------------------------
(***************************************************************************)
(* Purged folds, whatever rows are missing.                                *)
(***************************************************************************)
\* Rows are finitely many.
LEMMA RowsFinite ==
  ASSUME TypeOK
  PROVE  /\ rows \subseteq Int /\ IsFiniteSet(rows)
         /\ \A S \in SUBSET rows : IsFiniteSet(S) /\ Cardinality(S) \in Nat
<1>1. rows \subseteq Instants
  BY DEF TypeOK, Complete
<1>2. Instants \subseteq Int /\ IsFiniteSet(Instants)
  BY ValidationAssumption, FS_Interval DEF Instants
<1>3. IsFiniteSet(rows)
  BY <1>1, <1>2, FS_Subset
<1> QED
  BY <1>1, <1>2, <1>3, FS_Subset, FS_CardinalityType

\* Row numbers keep the order of the instants, and lie at most as far apart.
LEMMA RanksApart ==
  ASSUME TypeOK, NEW s \in rows, NEW t \in rows, s < t
  PROVE  /\ Rank(s) \in Nat /\ Rank(t) \in Nat
         /\ Rank(s) < Rank(t)
         /\ Rank(t) - Rank(s) <= t - s
<1> DEFINE Before == {u \in rows : u < s}
           Between == {u \in rows : s <= u /\ u < t}
<1>1. s \in Int /\ t \in Int
  BY RowsFinite
<1>2. /\ IsFiniteSet(Before) /\ Cardinality(Before) \in Nat
      /\ IsFiniteSet(Between) /\ Cardinality(Between) \in Nat
  BY RowsFinite
<1>3. {u \in rows : u < t} = Before \union Between /\ Before \intersect Between = {}
  <2>1. \A u \in rows : u \in Int /\ (u < t <=> (u < s \/ (s <= u /\ u < t)))
    BY RowsFinite, <1>1
  <2>2. \A u \in rows : ~ (u < s /\ s <= u)
    BY RowsFinite, <1>1
  <2> QED
    BY <2>1, <2>2, Zenon
<1>4. Cardinality({u \in rows : u < t}) = Cardinality(Before) + Cardinality(Between)
  <2>1. Cardinality(Before \intersect Between) = 0
    BY <1>3, FS_EmptySet
  <2> HIDE DEF Before, Between
  <2> QED
    <3>1. Cardinality(Before \union Between)
            = Cardinality(Before) + Cardinality(Between) - Cardinality(Before \intersect Between)
      BY <1>2, FS_Union, Zenon
    <3>2. Cardinality({u \in rows : u < t}) = Cardinality(Before \union Between)
      BY <1>3, Zenon
    <3> QED
      BY <1>2, <2>1, <3>1, <3>2
<1>5. Cardinality(Between) <= t - s
  <2>1. Between \subseteq s .. t - 1
    <3>1. \A u \in rows : u \in Int
      BY RowsFinite
    <3>2. \A u \in Int : s <= u /\ u < t => u \in s .. t - 1
      BY <1>1
    <3>3. \A u \in Between : u \in s .. t - 1
      BY <3>1, <3>2, Zenon
    <3> QED
      BY <3>3, Zenon
  <2>2. IsFiniteSet(s .. t - 1) /\ Cardinality(s .. t - 1) = t - s
    BY <1>1, FS_Interval
  <2> QED
    BY <2>1, <2>2, FS_Subset
<1>6. 0 < Cardinality(Between)
  <2>1. s \in Between
    BY <1>1
  <2> QED
    BY <2>1, <1>2, FS_EmptySet
<1> QED
  BY <1>1, <1>2, <1>4, <1>5, <1>6 DEF Rank

\* A row number is below the number of rows.
LEMMA RankBelow ==
  ASSUME TypeOK, NEW t \in rows
  PROVE  Rank(t) \in Nat /\ Rank(t) < Cardinality(rows)
<1> DEFINE Before == {u \in rows : u < t}
<1>1. t \in Int /\ Before \subseteq rows /\ t \notin Before
  BY RowsFinite
<1>2. IsFiniteSet(rows) /\ Cardinality(rows) \in Nat /\ Cardinality(Before) \in Nat
  BY RowsFinite
<1>3. Cardinality(Before) <= Cardinality(rows) /\ Cardinality(Before) # Cardinality(rows)
  BY <1>1, <1>2, FS_Subset
<1> QED
  BY <1>2, <1>3 DEF Rank

\* The blocks start at row 0, follow one another and end at the last row.
LEMMA BlocksCover ==
  ASSUME TypeOK
  PROVE  /\ First(0) = 0
         /\ First(splits) = Cardinality(rows)
         /\ \A k \in Folds : First(k) \in Nat /\ First(k + 1) \in Nat /\ First(k) <= First(k + 1)
<1> DEFINE n == Cardinality(rows)
           each == n \div splits
           left == n % splits
<1>1. n \in Nat /\ splits \in Nat /\ 0 < splits
  BY RowsFinite DEF TypeOK
<1> HIDE DEF n
<1>2. each \in Nat /\ left \in Nat /\ left < splits /\ n = splits * each + left
  BY <1>1
<1>3. \A k : First(k) = k * each + (IF k < left THEN k ELSE left)
  BY DEF First, n
<1> HIDE DEF each, left
<1>4. First(0) = 0
  BY <1>2, <1>3
<1>5. First(splits) = n
  BY <1>1, <1>2, <1>3
<1>6. ASSUME NEW k \in Folds
      PROVE  First(k) \in Nat /\ First(k + 1) \in Nat /\ First(k) <= First(k + 1)
  <2>1. k \in Nat /\ k * each \in Nat /\ (k + 1) * each = k * each + each
    BY <1>1, <1>2 DEF Folds
  <2> QED
    BY <2>1, <1>2, <1>3
<1> QED
  BY <1>4, <1>5, <1>6 DEF n
-------------------------------------------------------------------------------
\* The type invariant holds in every reachable state.
THEOREM TypeCorrect == Spec => []TypeOK
<1>1. Init => TypeOK
  BY ValidationAssumption DEF Init, TypeOK, Folds
<1>2. TypeOK /\ [Next]_vars => TypeOK'
  <2> SUFFICES ASSUME TypeOK, [Next]_vars PROVE TypeOK'
    OBVIOUS
  <2>1. CASE Next
    <3>1. UNCHANGED params /\ Complete' = Complete /\ Folds' = Folds
      BY <2>1 DEF Next, Predict, params, Complete, Folds
    <3>2. fold \in Folds /\ splits \in Nat /\ fold' \in 0 .. splits
      BY <2>1 DEF Next, Predict, TypeOK, Folds
    <3>3. Train(fold) \subseteq rows
      BY DEF Train
    <3>4. trained' \in [Folds -> SUBSET rows]
      BY <2>1, <3>3 DEF Next, Predict, TypeOK
    <3>5. proba' \in [Instants -> Folds \union {None}]
      BY <2>1, <3>2 DEF Next, Predict, TypeOK
    <3> QED
      BY <3>1, <3>2, <3>4, <3>5 DEF TypeOK, params
  <2>2. CASE UNCHANGED vars
    BY <2>2 DEF vars, params, TypeOK, Folds, Complete
  <2> QED
    BY <2>1, <2>2
<1> QED
  BY <1>1, <1>2, PTL DEF Spec

\* What was predicted so far are the blocks of the past folds, each by the model
\* of its own fold, and no model was trained on more than its fold allows.
Inv ==
  /\ \A k \in Folds : \A t \in Instants : proba[t] = k => k < fold /\ t \in Test(k)
  /\ \A t \in rows : Rank(t) < First(fold) => proba[t] # None
  /\ \A k \in Folds : trained[k] \subseteq Train(k)

LEMMA InitInv == Init /\ TypeOK => Inv
<1> SUFFICES ASSUME Init, TypeOK PROVE Inv
  OBVIOUS
<1>1. First(0) = 0 /\ \A t \in rows : Rank(t) \in Nat
  BY BlocksCover, RankBelow
<1>2. \A t \in rows : ~ (Rank(t) < First(fold))
  BY <1>1 DEF Init
<1>3. \A k \in Folds : trained[k] \subseteq Train(k)
  BY DEF Init
<1>4. \A k \in Folds : k # None
  BY DEF Folds, None
<1> QED
  BY <1>2, <1>3, <1>4 DEF Init, Inv

\* The folds are those of the parameters, which no step changes.
LEMMA FoldsStay ==
  ASSUME UNCHANGED params
  PROVE  /\ Folds' = Folds /\ rows' = rows
         /\ \A k : Test(k)' = Test(k) /\ Train(k)' = Train(k) /\ First(k)' = First(k)
         /\ \A t : Rank(t)' = Rank(t)
BY DEF params, Folds, Test, Train, Purged, Embargoed, Block, First, Rank

LEMMA NextInv == TypeOK /\ Inv /\ [Next]_vars => Inv'
<1> SUFFICES ASSUME TypeOK, Inv, [Next]_vars PROVE Inv'
  OBVIOUS
<1>1. UNCHANGED params
  BY DEF Next, Predict, vars
<1>2. CASE Next
  <2>1. fold \in Folds /\ fold \in Nat /\ fold' = fold + 1 /\ fold # None
    BY <1>2 DEF Next, Predict, Folds, TypeOK, None
  <2>2. rows \subseteq Instants
    BY DEF TypeOK, Complete
  <2>3. \A t \in Instants : proba'[t] = IF t \in Test(fold) THEN fold ELSE proba[t]
    BY <1>2 DEF Next, Predict
  <2>4. ASSUME NEW k \in Folds, NEW t \in Instants, proba'[t] = k
        PROVE  k < fold' /\ t \in Test(k)
    <3>1. k \in Int
      BY DEF Folds
    <3>2. CASE t \in Test(fold)
      BY <3>1, <3>2, <2>1, <2>3, <2>4
    <3>3. CASE t \notin Test(fold)
      BY <3>1, <3>3, <2>1, <2>3, <2>4 DEF Inv
    <3> QED
      BY <3>2, <3>3
  <2>5. ASSUME NEW t \in rows, Rank(t) < First(fold + 1)
        PROVE  proba'[t] # None
    <3>1. Rank(t) \in Nat /\ First(fold) \in Nat
      BY RankBelow, BlocksCover, <2>1
    <3>2. CASE Rank(t) < First(fold)
      BY <3>2, <2>1, <2>2, <2>3 DEF Inv
    <3>3. CASE First(fold) <= Rank(t)
      <4>1. t \in Test(fold)
        BY <3>3, <2>5 DEF Test, Block
      <4> QED
        BY <4>1, <2>1, <2>2, <2>3
    <3> QED
      BY <3>1, <3>2, <3>3
  <2>6. ASSUME NEW k \in Folds
        PROVE  trained'[k] \subseteq Train(k)
    BY <1>2 DEF Next, Predict, TypeOK, Inv
  <2>7. (\A t \in rows : Rank(t) < First(fold) => proba[t] # None)'
    BY <2>1, <2>5, <1>1, FoldsStay
  <2> QED
    BY <2>4, <2>6, <2>7, <1>1, FoldsStay DEF Inv
<1>3. CASE UNCHANGED vars
  <2>1. fold' = fold /\ proba' = proba /\ trained' = trained
    BY <1>3 DEF vars
  <2> QED
    BY <2>1, <1>1, FoldsStay DEF Inv
<1> QED
  BY <1>2, <1>3

\* The invariant holds in every reachable state.
LEMMA Inductive == Spec => [](TypeOK /\ Inv)
<1>1. TypeOK /\ Inv /\ TypeOK' /\ [Next]_vars => Inv'
  BY NextInv
<1>2. Init /\ TypeOK => Inv
  BY InitInv
<1> QED
  BY <1>1, <1>2, TypeCorrect, PTL DEF Spec

\* No label a model was trained on looks at an instant it predicts: a training
\* row before the block is more than the horizon of row numbers away from any
\* tested one, and instants lie at least as far apart as row numbers.
THEOREM TrainingLabelsEndBeforeTest == Spec => []NoLabelReachesTest
<1>1. ASSUME TypeOK, Inv PROVE NoLabelReachesTest
  <2> SUFFICES ASSUME NEW k \in Folds, NEW s \in trained[k], NEW t \in Predicted(k), s < t
               PROVE  s + horizon < t
    BY DEF NoLabelReachesTest
  <2>1. s \in Train(k) /\ t \in Test(k)
    BY <1>1 DEF Inv, Predicted
  <2>2. /\ s \in rows /\ t \in rows /\ s \in Int /\ t \in Int
        /\ Rank(s) \in Nat /\ Rank(t) \in Nat
        /\ Rank(s) < Rank(t) /\ Rank(t) - Rank(s) <= t - s
    BY <1>1, <2>1, RanksApart, RowsFinite DEF Train, Test, Block
  <2>3. First(k) \in Nat /\ First(k + 1) \in Nat /\ horizon \in Nat
    BY <1>1, BlocksCover DEF TypeOK
  <2>4. First(k) <= Rank(t) /\ Rank(t) < First(k + 1)
    BY <2>1 DEF Test, Block
  <2>5. Rank(s) < First(k)
    BY <2>1, <2>2, <2>3, <2>4 DEF Train, Test, Block
  <2>6. Rank(s) < First(k) - horizon
    BY <2>1, <2>2, <2>3, <2>5 DEF Train, Purged, Block
  <2> QED
    BY <2>2, <2>3, <2>4, <2>6
<1> QED
  BY <1>1, Inductive, PTL

\* With an embargo of at least the horizon, no label of a test block looks at an
\* instant its model was trained on.
THEOREM TestLabelsEndBeforeTraining == Spec => []NoTestLabelReachesTraining
<1>1. ASSUME TypeOK, Inv PROVE NoTestLabelReachesTraining
  <2> SUFFICES ASSUME embargo >= horizon,
                      NEW k \in Folds, NEW s \in trained[k], NEW t \in Predicted(k), t < s
               PROVE  t + horizon < s
    BY DEF NoTestLabelReachesTraining
  <2>1. s \in Train(k) /\ t \in Test(k)
    BY <1>1 DEF Inv, Predicted
  <2>2. /\ s \in rows /\ t \in rows /\ s \in Int /\ t \in Int
        /\ Rank(s) \in Nat /\ Rank(t) \in Nat
        /\ Rank(t) < Rank(s) /\ Rank(s) - Rank(t) <= s - t
    BY <1>1, <2>1, RanksApart, RowsFinite DEF Train, Test, Block
  <2>3. First(k) \in Nat /\ First(k + 1) \in Nat /\ horizon \in Nat /\ embargo \in Nat
    BY <1>1, BlocksCover DEF TypeOK
  <2>4. First(k) <= Rank(t) /\ Rank(t) < First(k + 1)
    BY <2>1 DEF Test, Block
  <2>5. First(k + 1) <= Rank(s)
    BY <2>1, <2>2, <2>3, <2>4 DEF Train, Test, Block
  <2>6. First(k + 1) + embargo <= Rank(s)
    BY <2>1, <2>2, <2>3, <2>5 DEF Train, Embargoed, Block
  <2> QED
    BY <2>2, <2>3, <2>4, <2>6
<1> QED
  BY <1>1, Inductive, PTL

\* Every row is predicted, and by a model that has not seen it.
THEOREM AllRowsOutOfSample == Spec => []EveryRowOutOfSample
<1>1. ASSUME TypeOK, Inv PROVE EveryRowOutOfSample
  <2>1. rows \subseteq Instants /\ \A t \in Instants : proba[t] \in Folds \union {None}
    BY <1>1 DEF TypeOK, Complete
  <2>2. ASSUME NEW t \in rows, proba[t] # None
        PROVE  t \notin trained[proba[t]]
    <3>1. proba[t] \in Folds /\ t \in Test(proba[t])
      BY <1>1, <2>1, <2>2 DEF Inv
    <3> QED
      BY <1>1, <3>1 DEF Inv, Train
  <2>3. ASSUME fold = splits, NEW t \in rows
        PROVE  proba[t] # None
    <3>1. Rank(t) < First(fold)
      BY <1>1, <2>3, RankBelow, BlocksCover
    <3> QED
      BY <1>1, <3>1 DEF Inv
  <2>4. ASSUME NEW t \in Instants, proba[t] # None
        PROVE  t \in rows
    BY <1>1, <2>1, <2>4 DEF Inv, Test, Block
  <2> QED
    BY <2>1, <2>2, <2>3, <2>4 DEF EveryRowOutOfSample
<1> QED
  BY <1>1, Inductive, PTL
-------------------------------------------------------------------------------
(***************************************************************************)
(* The studies.  What the state looks like, and what a step does to it.    *)
(***************************************************************************)
StudiesTypes ==
  /\ study \in Studies
  /\ now \in Int /\ -1 <= now
  /\ reading \in [0 .. now -> Prices \union {Missing, OtherModels}]
  /\ study = "basis" => power \in [Regions -> [Hours -> Int \union {Missing}]]
  /\ study # "basis" => power \in [Regions -> [0 .. now -> Int \union {Missing}]]
  /\ study = "examples" => target \in [0 .. now -> Prices]

\* A series of n + 1 instants and a longer one that goes on where it ends.
GoesOn(x, y, n) ==
  /\ n \in Int /\ -1 <= n
  /\ DOMAIN x = 0 .. n /\ DOMAIN y = 0 .. n + 1
  /\ \A t \in 0 .. n : y[t] = x[t]

LEMMA LongerGoesOn ==
  ASSUME NEW x, NEW y, NEW n \in Int, -1 <= n, NEW value, DOMAIN x = 0 .. n,
         y = [t \in 0 .. n + 1 |-> IF t = n + 1 THEN value ELSE x[t]]
  PROVE  GoesOn(x, y, n)
<1>1. \A t \in 0 .. n : t \in 0 .. n + 1 /\ t # n + 1
  OBVIOUS
<1> QED
  BY <1>1 DEF GoesOn

LEMMA StudiesTypesStep == StudiesTypes /\ [StudiesNext]_studiesVars => StudiesTypes'
  <1> SUFFICES ASSUME StudiesTypes, [StudiesNext]_studiesVars PROVE StudiesTypes'
    OBVIOUS
  <1>1. CASE Arrive
    <2>1. now' \in Int /\ -1 <= now' /\ now' = now + 1 /\ study' = study
      BY <1>1 DEF Arrive, StudiesTypes
    <2>2. ASSUME NEW x, NEW v, NEW S, x \in [0 .. now -> S], v \in S
          PROVE  Longer(x, v) \in [0 .. now' -> S]
      <3>1. \A t \in 0 .. now + 1 : t = now + 1 \/ t \in 0 .. now
        BY DEF StudiesTypes
      <3> QED
        BY <2>1, <2>2, <3>1 DEF Longer
    <2>3. reading' \in [0 .. now' -> Prices \union {Missing, OtherModels}]
      <3>1. PICK v \in Prices \union {Missing, OtherModels} : reading' = Longer(reading, v)
        BY <1>1, Zenon DEF Arrive
      <3>2. v \in Prices \union {Missing, OtherModels}
        BY <3>1, SpreadStudiesAssumption
      <3> QED
        BY <3>1, <3>2, <2>2, Zenon DEF StudiesTypes
    <2>6. study = "basis" => power' = power
      BY <1>1 DEF Arrive
    <2>4. ASSUME study # "basis" PROVE power' \in [Regions -> [0 .. now' -> Int \union {Missing}]]
      <3>1. PICK p \in [Regions -> UNION Range(PowerPrices) \union {Missing}] :
               /\ \A r \in Regions : p[r] \in (IF Sells(r) THEN PowerPrices[r] ELSE {}) \union {Missing}
               /\ power' = [r \in Regions |-> Longer(power[r], p[r])]
        BY <1>1, <2>4, Zenon DEF Arrive
      <3>2. \A r \in Regions : p[r] \in Int \union {Missing}
        BY <3>1, SpreadStudiesAssumption
      <3>3. \A r \in Regions : Longer(power[r], p[r]) \in [0 .. now' -> Int \union {Missing}]
        BY <3>2, <2>2, <2>4, Zenon DEF StudiesTypes
      <3> QED
        BY <3>1, <3>3, Zenon
    <2>5. study' = "examples" => target' \in [0 .. now' -> Prices]
      <3> SUFFICES ASSUME study = "examples" PROVE target' \in [0 .. now' -> Prices]
        BY <2>1
      <3>1. PICK y \in Prices : target' = Longer(target, y)
        BY <1>1 DEF Arrive
      <3> QED
        BY <3>1, <2>2, Zenon DEF StudiesTypes
    <2> QED
      BY <2>1, <2>3, <2>4, <2>5, <2>6 DEF StudiesTypes
  <1>2. CASE Revise
    BY <1>2 DEF Revise, StudiesTypes
  <1>4. CASE Backfill
    <2>1. PICK r \in Regions :
            \E stored \in [{t \in Hours : power[r][t] = Missing} -> PowerPrices[r] \union {Missing}] :
              power' = [power EXCEPT ![r] =
                          [t \in Hours |-> IF t \in {u \in Hours : power[r][u] = Missing}
                                          THEN stored[t] ELSE power[r][t]]]
      BY <1>4, Zenon DEF Backfill
    <2>2. PowerPrices[r] \subseteq Int
      BY SpreadStudiesAssumption
    <2>3. study = "basis" /\ power \in [Regions -> [Hours -> Int \union {Missing}]]
      BY <1>4 DEF Backfill, StudiesTypes
    <2>4. power' \in [Regions -> [Hours -> Int \union {Missing}]]
      BY <2>1, <2>2, <2>3
    <2> QED
      BY <1>4, <2>3, <2>4 DEF Backfill, StudiesTypes
  <1>3. CASE UNCHANGED studiesVars
    BY <1>3 DEF studiesVars, StudiesTypes
  <1> QED
    BY <1>1, <1>2, <1>3, <1>4 DEF StudiesNext

\* The types hold in every reachable state.
THEOREM StudiesTypeCorrect == StudiesSpec => []StudiesTypes
<1>1. StudiesInit => StudiesTypes
  <2> SUFFICES ASSUME StudiesInit PROVE StudiesTypes
    OBVIOUS
  <2>1. 0 .. now = {} /\ now \in Int /\ -1 <= now
    BY DEF StudiesInit
  <2>2. \A S : << >> \in [{} -> S]
    OBVIOUS
  <2>3. study = "basis" => power \in [Regions -> [Hours -> Int \union {Missing}]]
    BY DEF StudiesInit
  <2>4. study # "basis" => power \in [Regions -> [0 .. now -> Int \union {Missing}]]
    <3>1. study # "basis" => power = [r \in Regions |-> << >>]
      BY DEF StudiesInit
    <3> QED
      BY <3>1, <2>1, <2>2
  <2> QED
    BY <2>1, <2>2, <2>3, <2>4 DEF StudiesInit, StudiesTypes
<1> QED
  BY <1>1, StudiesTypesStep, PTL DEF StudiesSpec

\* The series of a study go on.
LEMMA ArriveGoesOn ==
  ASSUME StudiesTypes, Arrive
  PROVE  /\ now' = now + 1 /\ study' = study
         /\ GoesOn(reading, reading', now)
         /\ reading'  \in [0 .. now + 1 -> Prices \union {Missing, OtherModels}]
         /\ study # "basis" =>
              /\ \A r \in Regions : GoesOn(power[r], power'[r], now)
              /\ power' \in [Regions -> [0 .. now + 1 -> Int \union {Missing}]]
         /\ study = "examples" => GoesOn(target, target', now)
<1>1. now' = now + 1 /\ study' = study
  BY DEF Arrive
<1>2. StudiesTypes'
  BY StudiesTypesStep DEF StudiesNext
<1>3. ASSUME NEW x, NEW v, DOMAIN x = 0 .. now
      PROVE  GoesOn(x, Longer(x, v), now)
  BY <1>3, LongerGoesOn DEF Longer, StudiesTypes
<1>4. GoesOn(reading, reading', now)
  <2>1. PICK v : reading' = Longer(reading, v)
    BY Zenon DEF Arrive
  <2>2. DOMAIN reading = 0 .. now
    BY DEF StudiesTypes
  <2> QED
    BY <2>1, <2>2, <1>3, Zenon
<1>5. ASSUME study # "basis", NEW r \in Regions
      PROVE  GoesOn(power[r], power'[r], now)
  <2>1. PICK p : power' = [s \in Regions |-> Longer(power[s], p[s])]
    BY <1>5, Zenon DEF Arrive
  <2>2. DOMAIN power[r] = 0 .. now /\ power'[r] = Longer(power[r], p[r])
    BY <2>1, <1>5 DEF StudiesTypes
  <2> QED
    BY <2>2, <1>3, Zenon
<1>6. ASSUME study = "examples" PROVE GoesOn(target, target', now)
  <2>1. PICK y : target' = Longer(target, y)
    BY <1>6 DEF Arrive
  <2>2. DOMAIN target = 0 .. now
    BY <1>6 DEF StudiesTypes
  <2> QED
    BY <2>1, <2>2, <1>3, Zenon
<1>7. /\ reading' \in [0 .. now + 1 -> Prices \union {Missing, OtherModels}]
      /\ study # "basis" => power' \in [Regions -> [0 .. now + 1 -> Int \union {Missing}]]
  BY <1>1, <1>2 DEF StudiesTypes
<1> QED
  BY <1>1, <1>4, <1>5, <1>6, <1>7

-------------------------------------------------------------------------------
(***************************************************************************)
(* Series of points that only get points after those they have.            *)
(***************************************************************************)
Prolongs(S, T) ==
  /\ S \subseteq T
  /\ \A p \in T : p.at \in Int
  /\ \A p \in S, q \in T \ S : p.at < q.at

\* What a series holds up to one of its points stays.
LEMMA PastStands ==
  ASSUME NEW S, NEW T, Prolongs(S, T), NEW p \in S, NEW g \in Int, g <= p.at
  PROVE  Until(T, g) = Until(S, g)
<1>1. p.at \in Int
  BY DEF Prolongs
<1>2. ASSUME NEW q \in T, q.at <= g PROVE q \in S
  <2>1. q.at \in Int /\ (q \notin S => p.at < q.at)
    BY DEF Prolongs
  <2> QED
    BY <1>1, <1>2, <2>1
<1> QED
  BY <1>2, Zenon DEF Until, Prolongs

\* The greatest element of a finite set of naturals.
LEMMA MaxIsGreatest ==
  ASSUME NEW S \in SUBSET Nat, IsFiniteSet(S), S # {}
  PROVE  Max(S) \in S /\ \A t \in S : t <= Max(S)
<1>1. \E x \in S : \A y \in S : x >= y
  BY GreatestExists
<1> QED
  BY <1>1, Zenon DEF Max

\* IndexSeries, with the readings as a parameter.
QuotedIn(x) == {t \in DOMAIN x : x[t] \in Prices}
FreshIn(x, g) == {t \in QuotedIn(x) : g - Staleness <= t /\ t <= g}
IndexOver(x, G) == {Point(g, x[Max(FreshIn(x, g))]) : g \in {u \in G : FreshIn(x, u) # {}}}

LEMMA IndexIsOver == \A G : IndexSeries(G) = IndexOver(reading, G)
BY DEF IndexSeries, IndexOver, Fresh, FreshIn, Quoted, QuotedIn

\* A fix is a price of one of the readings it is made from.
LEMMA FixIsPrice ==
  ASSUME NEW x, NEW n \in Int, DOMAIN x = 0 .. n, NEW g, FreshIn(x, g) # {}
  PROVE  Max(FreshIn(x, g)) \in FreshIn(x, g) /\ x[Max(FreshIn(x, g))] \in Prices
<1>1. FreshIn(x, g) \subseteq 0 .. n
  BY DEF FreshIn, QuotedIn
<1>2. FreshIn(x, g) \in SUBSET Nat /\ IsFiniteSet(FreshIn(x, g))
  <2>1. 0 \in Int /\ n \in Int
    OBVIOUS
  <2>2. IsFiniteSet(0 .. n)
    BY <2>1, FS_Interval
  <2>3. 0 .. n \subseteq Nat
    OBVIOUS
  <2> QED
    BY <1>1, <2>2, <2>3, FS_Subset
<1>3. Max(FreshIn(x, g)) \in FreshIn(x, g)
  BY <1>2, MaxIsGreatest, Zenon
<1> QED
  BY <1>3 DEF FreshIn, QuotedIn

\* A later reading is not fresh at an earlier instant.
LEMMA FreshStands ==
  ASSUME NEW x, NEW y, NEW n, GoesOn(x, y, n), NEW g \in 0 .. n
  PROVE  FreshIn(y, g) = FreshIn(x, g)
<1>1. n \in Int /\ g \in Int /\ g <= n
  BY DEF GoesOn
<1>2. ASSUME NEW t \in FreshIn(y, g) PROVE t \in FreshIn(x, g)
  <2>1. t \in 0 .. n + 1 /\ t <= g /\ g - Staleness <= t /\ y[t] \in Prices
    BY DEF FreshIn, QuotedIn, GoesOn
  <2>2. t \in 0 .. n
    BY <1>1, <2>1
  <2> QED
    BY <2>1, <2>2 DEF FreshIn, QuotedIn, GoesOn
<1>3. ASSUME NEW t \in FreshIn(x, g) PROVE t \in FreshIn(y, g)
  <2>1. t \in 0 .. n /\ t <= g /\ g - Staleness <= t /\ x[t] \in Prices
    BY DEF FreshIn, QuotedIn, GoesOn
  <2>2. t \in 0 .. n + 1
    BY <1>1, <2>1
  <2> QED
    BY <2>1, <2>2 DEF FreshIn, QuotedIn, GoesOn
<1> QED
  BY <1>2, <1>3

\* A grid of instants that gets later ones only.
GridGoesOn(G, H, n) ==
  G \subseteq 0 .. n /\ H \subseteq Int /\ G \subseteq H /\ \A g \in G, h \in H \ G : g < h

\* The index over time goes on: a fix never changes.
LEMMA IndexGoesOn ==
  ASSUME NEW x, NEW y, NEW n, GoesOn(x, y, n), NEW G, NEW H, GridGoesOn(G, H, n)
  PROVE  /\ Prolongs(IndexOver(x, G), IndexOver(y, H))
         /\ \A g \in G : Until(IndexOver(y, H), g) = Until(IndexOver(x, G), g)
<1>1. ASSUME NEW g \in G PROVE FreshIn(y, g) = FreshIn(x, g)
  BY <1>1, FreshStands DEF GridGoesOn
<1>2. ASSUME NEW g \in G, FreshIn(x, g) # {}
      PROVE  y[Max(FreshIn(x, g))] = x[Max(FreshIn(x, g))]
  <2>1. Max(FreshIn(x, g)) \in FreshIn(x, g)
    BY <1>2, FixIsPrice DEF GoesOn
  <2>2. FreshIn(x, g) \subseteq 0 .. n
    BY DEF FreshIn, QuotedIn, GoesOn
  <2> QED
    BY <2>1, <2>2 DEF GoesOn
<1> DEFINE S == IndexOver(x, G)
           T == IndexOver(y, H)
<1>3. S \subseteq T
  <2>1. ASSUME NEW g \in G, FreshIn(x, g) # {}
        PROVE  Point(g, x[Max(FreshIn(x, g))]) \in T
    <3>1. g \in H /\ FreshIn(y, g) # {}
      BY <2>1, <1>1 DEF GridGoesOn
    <3>2. Point(g, x[Max(FreshIn(x, g))]) = Point(g, y[Max(FreshIn(y, g))])
      BY <2>1, <1>1, <1>2
    <3> QED
      BY <3>1, <3>2 DEF IndexOver
  <2> QED
    BY <2>1 DEF IndexOver
<1>4. ASSUME NEW q \in T
      PROVE  q.at \in H /\ (q.at \in G => q \in S)
  <2>1. PICK h \in H : FreshIn(y, h) # {} /\ q = Point(h, y[Max(FreshIn(y, h))])
    BY DEF IndexOver
  <2>2. q.at = h
    BY <2>1 DEF Point
  <2>3. ASSUME h \in G PROVE q \in S
    <3>1. FreshIn(x, h) # {} /\ q = Point(h, x[Max(FreshIn(x, h))])
      BY <2>1, <2>3, <1>1, <1>2
    <3> QED
      BY <3>1, <2>3 DEF IndexOver
  <2> QED
    BY <2>1, <2>2, <2>3
<1>5. ASSUME NEW p \in S PROVE p.at \in G
  BY DEF IndexOver, Point
<1> HIDE DEF S, T
<1>6. Prolongs(S, T)
  BY <1>3, <1>4, <1>5 DEF Prolongs, GridGoesOn
<1>7. ASSUME NEW g \in G, NEW q \in T, q.at <= g PROVE q \in S
  <2>1. g \in Int /\ q.at \in H /\ q.at \in Int
    BY <1>4 DEF GridGoesOn
  <2>2. q.at \notin G => g < q.at
    BY <2>1 DEF GridGoesOn
  <2> QED
    BY <1>7, <2>1, <2>2, <1>4
<1>8. \A g \in G : Until(T, g) = Until(S, g)
  BY <1>3, <1>7, Zenon DEF Until
<1> QED
  BY <1>6, <1>8 DEF S, T

LEMMA IndexFinite ==
  ASSUME NEW x, NEW G, IsFiniteSet(G)
  PROVE  IsFiniteSet(IndexOver(x, G))
<1> DEFINE D == {u \in G : FreshIn(x, u) # {}}
           Fix(g) == Point(g, x[Max(FreshIn(x, g))])
           f == [g \in D |-> Fix(g)]
<1>1. IsFiniteSet(D)
  BY FS_Subset
<1>2. IndexOver(x, G) = {Fix(g) : g \in D}
  BY DEF IndexOver
<1> HIDE DEF Fix, D
<1>3. f \in Surjection(D, {Fix(g) : g \in D})
  BY DEF Surjection
<1> HIDE DEF f
<1> QED
  BY <1>1, <1>2, <1>3, FS_Surjection
-------------------------------------------------------------------------------
(***************************************************************************)
(* Volatilities.                                                           *)
(***************************************************************************)
\* A return is made from two fixes that follow each other, and stays.
LEMMA ReturnsGoOn ==
  ASSUME NEW S, NEW T, Prolongs(S, T)
  PROVE  Prolongs(LogReturns(S), LogReturns(T))
<1> DEFINE Before(X, p) == Until(X, p.at - 1)
           Return(X, p) == Point(p.at, p.value - Last(Before(X, p)).value)
<1>1. \A X : LogReturns(X) = {Return(X, p) : p \in {q \in X : Before(X, q) # {}}}
  BY DEF LogReturns
<1>2. ASSUME NEW p \in S PROVE p \in T /\ p.at \in Int /\ Before(T, p) = Before(S, p)
  BY PastStands DEF Prolongs
<1>3. ASSUME NEW p \in S PROVE Return(T, p) = Return(S, p)
  BY <1>2, Zenon
<1>4. \A X, p : Return(X, p).at = p.at
  BY DEF Point
<1> HIDE DEF Before, Return
<1>5. LogReturns(S) \subseteq LogReturns(T)
  <2>1. ASSUME NEW p \in S, Before(S, p) # {} PROVE Return(S, p) \in LogReturns(T)
    BY <2>1, <1>1, <1>2, <1>3
  <2> QED
    BY <2>1, <1>1
<1>6. ASSUME NEW r \in LogReturns(T)
      PROVE  /\ r.at \in Int
             /\ r \notin LogReturns(S) => \A p \in S : p.at < r.at
  <2>1. PICK q \in T : Before(T, q) # {} /\ r = Return(T, q)
    BY <1>1
  <2>2. r.at = q.at /\ q.at \in Int
    BY <2>1, <1>4 DEF Prolongs
  <2>3. q \in S => r \in LogReturns(S)
    BY <2>1, <1>1, <1>2, <1>3
  <2> QED
    BY <2>2, <2>3 DEF Prolongs
<1>7. \A r \in LogReturns(S) : \E p \in S : r.at = p.at
  BY <1>1, <1>4
<1> QED
  BY <1>5, <1>6, <1>7 DEF Prolongs

\* An estimate looks at no later return.
LEMMA EstimatesStand ==
  ASSUME NEW R, NEW Q, Prolongs(R, Q), NEW p \in R
  PROVE  RealizedVol(Q, p.at) = RealizedVol(R, p.at) /\ EwmaVol(Q, p.at) = EwmaVol(R, p.at)
<1>1. p.at \in Int /\ Until(Q, p.at) = Until(R, p.at)
  BY PastStands DEF Prolongs
<1>2. RealizedVol(Q, p.at) = RealizedVol(R, p.at)
  BY <1>1, Zenon DEF RealizedVol
<1>3. ASSUME NEW q \in Until(R, p.at) PROVE Until(Q, q.at - 1) = Until(R, q.at - 1)
  <2>1. q \in R /\ q.at \in Int /\ q.at - 1 \in Int /\ q.at - 1 <= q.at
    BY DEF Until, Prolongs
  <2> QED
    BY <2>1, PastStands
<1> DEFINE Before(X, q) == Cardinality(Until(X, q.at - 1))
           Weight(X, q) == IF Before(X, q) = 0 THEN 1 ELSE 2 ^ (Before(X, q) - 1)
           Terms(X) == [q \in Until(X, p.at) |-> Weight(X, q) * q.value * q.value]
<1>4. \A X : EwmaVol(X, p.at) = SumFunction(Terms(X))
  BY Zenon DEF EwmaVol
<1>5. \A q \in Until(R, p.at) : Weight(Q, q) = Weight(R, q)
  BY <1>3, Zenon
<1> HIDE DEF Weight
<1>6. Terms(Q) = Terms(R)
  BY <1>1, <1>5
<1> HIDE DEF Terms
<1> QED
  BY <1>2, <1>4, <1>6, Zenon

\* The snapshots of a series of readings, and the days they are in.
SnapshotsIn(x) == {t \in DOMAIN x : x[t] # Missing}
DaysIn(x) == {2 * (t \div 2) : t \in SnapshotsIn(x)}

LEMMA SnapshotsGoOn ==
  ASSUME NEW x, NEW y, NEW n, GoesOn(x, y, n)
  PROVE  /\ SnapshotsIn(x) \subseteq 0 .. n
         /\ SnapshotsIn(x) \subseteq SnapshotsIn(y)
         /\ SnapshotsIn(y) \subseteq SnapshotsIn(x) \union {n + 1}
<1>1. \A t \in 0 .. n + 1 : t = n + 1 \/ t \in 0 .. n
  BY DEF GoesOn
<1>2. 0 .. n \subseteq 0 .. n + 1
  BY DEF GoesOn
<1> QED
  BY <1>1, <1>2 DEF GoesOn, SnapshotsIn

LEMMA DaysGoOn ==
  ASSUME NEW x, NEW y, NEW n, GoesOn(x, y, n)
  PROVE  GridGoesOn(DaysIn(x), DaysIn(y), n) /\ IsFiniteSet(DaysIn(y))
<1>1. n \in Int
  BY DEF GoesOn
<1>2. \A t \in 0 .. n + 1 : 2 * (t \div 2) \in Int /\ 0 <= 2 * (t \div 2) /\ 2 * (t \div 2) <= t
  OBVIOUS
<1>3. SnapshotsIn(y) \subseteq 0 .. n + 1 /\ \A t \in 0 .. n : t < n + 1 /\ t \in 0 .. n + 1
  BY <1>1, SnapshotsGoOn DEF SnapshotsIn, GoesOn
<1>4. DaysIn(x) \subseteq 0 .. n
  BY <1>1, <1>2, <1>3, SnapshotsGoOn DEF DaysIn
<1>5. DaysIn(x) \subseteq DaysIn(y)
  BY SnapshotsGoOn DEF DaysIn
<1>6. DaysIn(y) \subseteq 0 .. n + 1
  BY <1>1, <1>2, <1>3 DEF DaysIn
<1>7. ASSUME NEW g \in DaysIn(x), NEW h \in DaysIn(y) \ DaysIn(x) PROVE g < h
  <2>1. PICK t \in SnapshotsIn(x) : g = 2 * (t \div 2)
    BY DEF DaysIn
  <2>2. h = 2 * ((n + 1) \div 2)
    BY SnapshotsGoOn DEF DaysIn
  <2>3. t \in Int /\ t <= n
    BY <1>1, SnapshotsGoOn
  <2>4. t \div 2 <= (n + 1) \div 2
    BY <1>1, <2>3
  <2>5. g # h
    BY <1>7
  <2> QED
    BY <1>1, <2>1, <2>2, <2>3, <2>4, <2>5
<1>8. IsFiniteSet(DaysIn(y))
  <2>1. 0 \in Int /\ n + 1 \in Int
    BY <1>1
  <2> QED
    BY <2>1, <1>6, FS_Interval, FS_Subset
<1>9. 0 .. n + 1 \subseteq Int
  OBVIOUS
<1> QED
  BY <1>4, <1>5, <1>6, <1>7, <1>8, <1>9, Zenon DEF GridGoesOn

VolatilitiesOver(x) ==
  LET prices == IndexOver(x, DaysIn(x))
      returns == LogReturns(prices)
  IN  IF Cardinality(prices) < MinSeriesPoints THEN {}
      ELSE {Point(p.at, <<RealizedVol(returns, p.at), EwmaVol(returns, p.at)>>) : p \in returns}

LEMMA VolatilitiesAreOver == Volatilities = VolatilitiesOver(reading)
<1>1. DailyGrid = DaysIn(reading)
  BY DEF DailyGrid, DaysIn, Snapshots, SnapshotsIn
<1> QED
  BY <1>1, IndexIsOver DEF Volatilities, VolatilitiesOver

LEMMA VolatilitiesStand ==
  ASSUME NEW x, NEW y, NEW n, GoesOn(x, y, n)
  PROVE  VolatilitiesOver(x) \subseteq VolatilitiesOver(y)
<1> DEFINE S == IndexOver(x, DaysIn(x))
           T == IndexOver(y, DaysIn(y))
           Vol(X) == {Point(p.at, <<RealizedVol(X, p.at), EwmaVol(X, p.at)>>) : p \in X}
<1>1. VolatilitiesOver(x) = IF Cardinality(S) < MinSeriesPoints THEN {} ELSE Vol(LogReturns(S))
  BY Zenon DEF VolatilitiesOver
<1>2. VolatilitiesOver(y) = IF Cardinality(T) < MinSeriesPoints THEN {} ELSE Vol(LogReturns(T))
  BY Zenon DEF VolatilitiesOver
<1>3. Prolongs(S, T) /\ IsFiniteSet(T)
  BY DaysGoOn, IndexGoesOn, IndexFinite
<1> HIDE DEF S, T
<1>4. Cardinality(S) \in Nat /\ Cardinality(T) \in Nat /\ Cardinality(S) <= Cardinality(T)
  BY <1>3, FS_Subset, FS_CardinalityType DEF Prolongs
<1>5. Prolongs(LogReturns(S), LogReturns(T))
  BY <1>3, ReturnsGoOn
<1>6. ASSUME NEW p \in LogReturns(S)
      PROVE  Point(p.at, <<RealizedVol(LogReturns(S), p.at), EwmaVol(LogReturns(S), p.at)>>)
               \in Vol(LogReturns(T))
  <2>1. p \in LogReturns(T)
    BY <1>5 DEF Prolongs
  <2>2. /\ RealizedVol(LogReturns(T), p.at) = RealizedVol(LogReturns(S), p.at)
        /\ EwmaVol(LogReturns(T), p.at) = EwmaVol(LogReturns(S), p.at)
    BY <1>5, EstimatesStand
  <2> QED
    BY <2>1, <2>2, Zenon
<1>7. Vol(LogReturns(S)) \subseteq Vol(LogReturns(T))
  BY <1>6, Zenon
<1> HIDE DEF Vol
<1> QED
  BY <1>1, <1>2, <1>4, <1>7, SpreadStudiesAssumption

-------------------------------------------------------------------------------
(***************************************************************************)
(* The spread.                                                             *)
(***************************************************************************)
WindowOf(x) ==
  IF SnapshotsIn(x) = {} THEN {} ELSE Min(SnapshotsIn(x)) .. Max(SnapshotsIn(x))
EnergyIn(q, W) == {Point(t, q[t]) : t \in {u \in W : q[u] # Missing}}
Grid(series) == {e.at : e \in series}

LEMMA MinIsLeast ==
  ASSUME NEW S \in SUBSET Nat, S # {}
  PROVE  Min(S) \in S /\ \A t \in S : Min(S) <= t
<1>1. \E x \in S : \A y \in S : x <= y
  BY LeastExists
<1> QED
  BY <1>1, Zenon DEF Min

\* The window of the snapshots grows at its end.
LEMMA WindowGoesOn ==
  ASSUME NEW x, NEW y, NEW n, GoesOn(x, y, n)
  PROVE  /\ GridGoesOn(WindowOf(x), WindowOf(y), n)
         /\ WindowOf(y) \subseteq 0 .. n + 1
<1> DEFINE S == SnapshotsIn(x)
           T == SnapshotsIn(y)
<1>1. n \in Int /\ S \subseteq 0 .. n /\ S \subseteq T /\ T \subseteq S \union {n + 1}
  BY SnapshotsGoOn DEF GoesOn
<1>2. /\ S \in SUBSET Nat /\ IsFiniteSet(S)
      /\ T \in SUBSET Nat /\ IsFiniteSet(T) /\ T \subseteq 0 .. n + 1
  <2>1. T \subseteq 0 .. n + 1
    BY DEF SnapshotsIn, GoesOn
  <2>2. 0 \in Int /\ n + 1 \in Int /\ 0 .. n + 1 \subseteq Nat
    BY <1>1
  <2>3. IsFiniteSet(0 .. n + 1)
    BY <2>2, FS_Interval
  <2> QED
    BY <1>1, <2>1, <2>2, <2>3, FS_Subset
<1> HIDE DEF S, T
<1>3. CASE S = {}
  <2>1. WindowOf(x) = {}
    BY <1>3 DEF WindowOf, S
  <2>2. CASE T = {}
    BY <2>1, <2>2 DEF WindowOf, GridGoesOn, T
  <2>3. CASE T # {}
    <3>1. Min(T) \in 0 .. n + 1 /\ Max(T) \in 0 .. n + 1
      BY <1>2, <2>3, MinIsLeast, MaxIsGreatest
    <3>2. WindowOf(y) = Min(T) .. Max(T)
      BY <2>3 DEF WindowOf, T
    <3>3. WindowOf(y) \subseteq 0 .. n + 1 /\ 0 .. n + 1 \subseteq Int
      BY <1>1, <3>1, <3>2
    <3> QED
      BY <2>1, <3>3 DEF GridGoesOn
  <2> QED
    BY <2>2, <2>3
<1>4. CASE S # {}
  <2>1. T # {}
    BY <1>1, <1>4
  <2>2. /\ Min(S) \in S /\ \A t \in S : Min(S) <= t
        /\ Max(S) \in S /\ \A t \in S : t <= Max(S)
    BY <1>2, <1>4, MinIsLeast, MaxIsGreatest
  <2>3. /\ Min(T) \in T /\ \A t \in T : Min(T) <= t
        /\ Max(T) \in T /\ \A t \in T : t <= Max(T)
    BY <1>2, <2>1, MinIsLeast, MaxIsGreatest
  <2>4. \A t \in S : t \in Int /\ 0 <= t /\ t <= n
    BY <1>1
  <2>5. \A t \in T : t \in Int /\ 0 <= t /\ t <= n + 1
    BY <1>1, <1>2
  <2>6. Min(T) = Min(S)
    <3>1. Min(T) <= Min(S)
      BY <1>1, <2>2, <2>3
    <3>2. Min(T) \in S \/ Min(T) = n + 1
      BY <1>1, <2>3
    <3>3. Min(S) \in Int /\ Min(S) <= n /\ Min(T) \in Int /\ n \in Int
      BY <1>1, <2>2, <2>3, <2>4, <2>5
    <3>4. Min(T) \in S
      BY <3>1, <3>2, <3>3
    <3> QED
      BY <2>2, <3>1, <3>3, <3>4
  <2>7. Max(S) <= Max(T)
    BY <1>1, <2>2, <2>3
  <2>8. WindowOf(x) = Min(S) .. Max(S) /\ WindowOf(y) = Min(S) .. Max(T)
    BY <1>4, <2>1, <2>6 DEF WindowOf, S, T
  <2>9. Min(S) \in Int /\ Max(S) \in Int /\ Max(T) \in Int
        /\ 0 <= Min(S) /\ Max(S) <= n /\ Max(T) <= n + 1
    BY <2>2, <2>3, <2>4, <2>5
  <2> DEFINE a == Min(S)
             b == Max(S)
             c == Max(T)
  <2>10. a \in Int /\ b \in Int /\ c \in Int /\ 0 <= a /\ b <= n /\ b <= c /\ c <= n + 1
    BY <2>7, <2>9
  <2>11. WindowOf(x) = a .. b /\ WindowOf(y) = a .. c
    BY <2>8
  <2> HIDE DEF a, b, c
  <2>12. a .. b \subseteq 0 .. n /\ a .. c \subseteq Int /\ a .. c \subseteq 0 .. n + 1
         /\ a .. b \subseteq a .. c
    BY <1>1, <2>10
  <2>13. \A g \in a .. b, h \in (a .. c) \ (a .. b) : g < h
    BY <2>10
  <2> QED
    BY <2>11, <2>12, <2>13 DEF GridGoesOn
<1> QED
  BY <1>3, <1>4

\* So does the energy leg over it.
LEMMA EnergyGoesOn ==
  ASSUME NEW n, NEW W, NEW V, GridGoesOn(W, V, n), NEW p, NEW q, GoesOn(p, q, n)
  PROVE  /\ EnergyIn(p, W) \subseteq EnergyIn(q, V)
         /\ GridGoesOn(Grid(EnergyIn(p, W)), Grid(EnergyIn(q, V)), n)
         /\ \A e \in EnergyIn(q, V) : e.at \in Grid(EnergyIn(p, W)) => e \in EnergyIn(p, W)
<1>1. \A t \in W : t \in V /\ q[t] = p[t] /\ t \in 0 .. n
  BY DEF GridGoesOn, GoesOn
<1>2. \A t, v : Point(t, v).at = t
  BY DEF Point
<1>3. ASSUME NEW s, NEW X PROVE Grid(EnergyIn(s, X)) = {t \in X : s[t] # Missing}
  <2>1. \A t \in X : s[t] # Missing => t \in Grid(EnergyIn(s, X))
    <3> SUFFICES ASSUME NEW t \in X, s[t] # Missing PROVE t \in Grid(EnergyIn(s, X))
      OBVIOUS
    <3>1. Point(t, s[t]) \in EnergyIn(s, X)
      BY DEF EnergyIn
    <3> QED
      BY <3>1, <1>2 DEF Grid
  <2>2. \A t \in Grid(EnergyIn(s, X)) : t \in X /\ s[t] # Missing
    BY <1>2 DEF Grid, EnergyIn
  <2> QED
    BY <2>1, <2>2
<1>4. EnergyIn(p, W) \subseteq EnergyIn(q, V)
  BY <1>1 DEF EnergyIn
<1>5. ASSUME NEW t \in V, q[t] # Missing, t \in Grid(EnergyIn(p, W))
      PROVE  Point(t, q[t]) \in EnergyIn(p, W)
  BY <1>1, <1>3, <1>5 DEF EnergyIn
<1>6. \A e \in EnergyIn(q, V) : e.at \in Grid(EnergyIn(p, W)) => e \in EnergyIn(p, W)
  BY <1>2, <1>5 DEF EnergyIn
<1>7. GridGoesOn(Grid(EnergyIn(p, W)), Grid(EnergyIn(q, V)), n)
  <2> DEFINE A == {t \in W : p[t] # Missing}
             B == {t \in V : q[t] # Missing}
  <2>1. Grid(EnergyIn(p, W)) = A /\ Grid(EnergyIn(q, V)) = B
    BY <1>3, Zenon
  <2>2. A \subseteq W /\ B \subseteq V /\ A \subseteq B /\ \A t \in B : t \in W => t \in A
    BY <1>1
  <2> HIDE DEF A, B
  <2>3. GridGoesOn(A, B, n)
    BY <2>2 DEF GridGoesOn
  <2> QED
    BY <2>1, <2>3, Zenon
<1> QED
  BY <1>4, <1>6, <1>7

\* The last of finitely many points.
LEMMA LastIsLast ==
  ASSUME NEW S, IsFiniteSet(S), S # {}, \A p \in S : p.at \in Nat
  PROVE  Last(S) \in S /\ \A q \in S : q.at <= Last(S).at
<1> DEFINE f == [p \in S |-> p.at]
           D == {p.at : p \in S}
<1>1. f \in Surjection(S, D)
  BY DEF Surjection
<1>2. IsFiniteSet(D) /\ D \in SUBSET Nat /\ D # {}
  BY <1>1, FS_Surjection
<1>3. PICK m \in D : \A d \in D : d <= m
  BY <1>2, GreatestExists
<1>4. \E p \in S : \A q \in S : q.at <= p.at
  BY <1>3
<1> QED
  BY <1>4, Zenon DEF Last

SpreadOver(x, q) ==
  LET energy == EnergyIn(q, WindowOf(x))
      spread == PriceSpread(IndexOver(x, Grid(energy)), energy, Home)
  IN  IF \E p \in spread : p.value = Missing THEN {} ELSE spread

LEMMA SpreadIsOver == SpreadDataset = SpreadOver(reading, power[Home])
<1>1. Window = WindowOf(reading)
  BY Zenon DEF Window, WindowOf, Snapshots, SnapshotsIn
<1>2. \A W : Energy(Home, W) = EnergyIn(power[Home], W)
  BY Zenon DEF Energy, EnergyIn
<1> DEFINE energy == EnergyIn(power[Home], WindowOf(reading))
           spread == PriceSpread(IndexSeries(Grid(energy)), energy, Home)
<1>3. SpreadDataset = IF \E p \in spread : p.value = Missing THEN {} ELSE spread
  <2>1. Energy(Home, Window) = energy
    BY <1>1, <1>2, Zenon
  <2> HIDE DEF energy
  <2> QED
    BY <2>1, Zenon DEF SpreadDataset, Grid
<1>4. spread = PriceSpread(IndexOver(reading, Grid(energy)), energy, Home)
  BY IndexIsOver, Zenon
<1> HIDE DEF spread
<1>5. SpreadOver(reading, power[Home]) = IF \E p \in spread : p.value = Missing THEN {} ELSE spread
  BY <1>4, Zenon DEF SpreadOver
<1> QED
  BY <1>3, <1>5, Zenon

LEMMA SpreadStands ==
  ASSUME NEW x, NEW y, NEW n, GoesOn(x, y, n), NEW p, NEW q, GoesOn(p, q, n),
         \A t \in 0 .. n + 1 : q[t] \in Int \union {Missing}
  PROVE  SpreadOver(x, p) \subseteq SpreadOver(y, q)
<1> DEFINE E == EnergyIn(p, WindowOf(x))
           F == EnergyIn(q, WindowOf(y))
           S == IndexOver(x, Grid(E))
           T == IndexOver(y, Grid(F))
           Priced(I, e) ==
             LET level == LastValue(I, e.at)
             IN  Point(e.at, IF Missing \in {level, e.value} THEN Missing
                             ELSE SpreadOf(level, e.value, Home))
<1>1. \A I, L : PriceSpread(I, L, Home) = {Priced(I, e) : e \in L}
  BY Zenon DEF PriceSpread
<1>2. /\ SpreadOver(x, p) = IF \E s \in PriceSpread(S, E, Home) : s.value = Missing
                            THEN {} ELSE PriceSpread(S, E, Home)
      /\ SpreadOver(y, q) = IF \E s \in PriceSpread(T, F, Home) : s.value = Missing
                            THEN {} ELSE PriceSpread(T, F, Home)
  BY Zenon DEF SpreadOver
<1>3. /\ E \subseteq F /\ GridGoesOn(Grid(E), Grid(F), n)
      /\ \A e \in F : e.at \in Grid(E) => e \in E
  BY WindowGoesOn, EnergyGoesOn
<1>4. ASSUME NEW e \in F PROVE e.at \in 0 .. n + 1 /\ e.value \in Int
  <2>1. PICK t \in WindowOf(y) : q[t] # Missing /\ e = Point(t, q[t])
    BY DEF EnergyIn
  <2>2. t \in 0 .. n + 1
    BY WindowGoesOn
  <2> QED
    BY <2>1, <2>2 DEF Point
<1>5. \A g \in Grid(E) : Until(T, g) = Until(S, g)
  BY <1>3, IndexGoesOn
<1>6. S \subseteq T /\ IsFiniteSet(T) /\ \A f \in T : f.at \in Nat /\ f.value \in Prices
  <2>1. Prolongs(S, T)
    BY <1>3, IndexGoesOn
  <2>2. Grid(F) \subseteq 0 .. n + 1
    BY <1>4 DEF Grid
  <2>3. n \in Int /\ 0 \in Int /\ n + 1 \in Int /\ 0 .. n + 1 \subseteq Nat
    BY DEF GoesOn
  <2>4. IsFiniteSet(Grid(F))
    BY <2>2, <2>3, FS_Interval, FS_Subset
  <2>5. ASSUME NEW f \in T PROVE f.at \in Nat /\ f.value \in Prices
    <3>1. PICK g \in Grid(F) : FreshIn(y, g) # {} /\ f = Point(g, y[Max(FreshIn(y, g))])
      BY DEF IndexOver
    <3>2. y[Max(FreshIn(y, g))] \in Prices
      BY <3>1, <2>3, FixIsPrice DEF GoesOn
    <3> QED
      BY <3>1, <3>2, <2>2, <2>3 DEF Point
  <2> QED
    BY <2>1, <2>4, <2>5, IndexFinite DEF Prolongs
<1> HIDE DEF E, F, S, T
<1>7. ASSUME NEW e \in E PROVE Priced(T, e) = Priced(S, e)
  <2>1. Until(T, e.at) = Until(S, e.at)
    BY <1>5 DEF Grid
  <2>2. LastValue(T, e.at) = LastValue(S, e.at)
    BY <2>1, Zenon DEF LastValue
  <2> QED
    BY <2>2, Zenon
<1>8. \A I, e : Priced(I, e).value = Missing =>
                  \/ LastValue(I, e.at) = Missing \/ e.value = Missing
                  \/ SpreadOf(LastValue(I, e.at), e.value, Home) = Missing
  BY DEF Point
<1>9. \A I, e : LastValue(I, e.at) = Missing => Priced(I, e).value = Missing
  BY DEF Point
<1> HIDE DEF Priced
<1>10. PriceSpread(S, E, Home) \subseteq PriceSpread(T, F, Home)
  <2>1. ASSUME NEW e \in E PROVE Priced(S, e) \in PriceSpread(T, F, Home)
    <3>1. e \in F /\ Priced(S, e) = Priced(T, e)
      BY <1>3, <1>7
    <3> QED
      BY <3>1, <1>1
  <2>2. PriceSpread(S, E, Home) = {Priced(S, e) : e \in E}
    BY <1>1
  <2> QED
    BY <2>1, <2>2
<1>11. ASSUME NEW s \in SpreadOver(x, p)
       PROVE  \A u \in PriceSpread(T, F, Home) : u.value # Missing
  <2>1. s \in PriceSpread(S, E, Home) /\ \A r \in PriceSpread(S, E, Home) : r.value # Missing
    BY <1>2, <1>11
  <2>2. PICK d \in E : s = Priced(S, d)
    BY <2>1, <1>1
  <2>3. LastValue(S, d.at) # Missing
    BY <2>1, <2>2, <1>9
  <2>4. Until(S, d.at) # {}
    BY <2>3, Zenon DEF LastValue
  <2>5. PICK c \in S : c.at <= d.at
    BY <2>4 DEF Until
  <2>6. ASSUME NEW e \in F PROVE Priced(T, e).value # Missing
    <3>1. CASE e \in E
      BY <3>1, <2>1, <1>1, <1>7
    <3>2. CASE e \notin E
      <4>1. d.at < e.at /\ d.at \in Int /\ e.at \in Int
        <5>1. d.at \in Grid(E) /\ e.at \in Grid(F) \ Grid(E)
          BY <3>2, <1>3 DEF Grid
        <5> QED
          BY <5>1, <1>3 DEF GridGoesOn
      <4>2. c \in T /\ c.at \in Nat /\ c.at <= e.at
        BY <4>1, <2>5, <1>6
      <4>3. Until(T, e.at) # {} /\ Until(T, e.at) \subseteq T
        BY <4>2 DEF Until
      <4>4. Last(Until(T, e.at)) \in T
        BY <4>3, <1>6, LastIsLast, FS_Subset
      <4>5. LastValue(T, e.at) \in Prices
        BY <4>3, <4>4, <1>6 DEF LastValue
      <4>6. /\ LastValue(T, e.at) \in Int /\ e.value \in Int
            /\ Load[Home] \in Int /\ Fx[Home] \in Int
        <5>1. Home \in Regions /\ Prices \subseteq Int
          BY SpreadStudiesAssumption
        <5>2. Load[Home] \in Nat \ {0} /\ Fx[Home] \in Nat \ {0}
          BY <5>1, SpreadStudiesAssumption
        <5>3. LastValue(T, e.at) \in Int
          BY <4>5, <5>1, Zenon
        <5>4. e.value \in Int
          BY <1>4
        <5> QED
          BY <5>2, <5>3, <5>4
      <4>7. SpreadOf(LastValue(T, e.at), e.value, Home) \in Int
        BY <4>6 DEF SpreadOf
      <4> QED
        BY <4>6, <4>7, <1>8, SpreadStudiesAssumption
    <3> QED
      BY <3>1, <3>2
  <2> QED
    BY <2>6, <1>1
<1>12. ASSUME NEW s \in SpreadOver(x, p) PROVE s \in SpreadOver(y, q)
  <2>1. s \in PriceSpread(T, F, Home)
    BY <1>2, <1>10, <1>12
  <2> QED
    BY <2>1, <1>2, <1>11
<1> QED
  BY <1>12

-------------------------------------------------------------------------------
(***************************************************************************)
(* The basis: the cost of power in the reference less that in the region,  *)
(* each at the price that is carried to the hour.                          *)
(***************************************************************************)
\* Some price is stored of every region.
RealIn(pw) == \A r \in Regions : EnergyIn(pw[r], Hours) # {}

\* The price of a region at an hour, whether stored, carried or generated.
LegOf(pw, r, t) ==
  IF RealIn(pw) THEN LastValue(EnergyIn(pw[r], Hours), t) ELSE Synthetic[r][t]

CostOver(r, price, reference) ==
  IF Missing \in {price, reference} THEN Missing
  ELSE Load[Reference] * reference - Load[r] * price

BasisOf(pw) ==
  {[region |-> r, at |-> t, value |-> CostOver(r, LegOf(pw, r, t), LegOf(pw, Reference, t))] :
     r \in Regions \ {Reference}, t \in Hours}

\* PriceCame, of two stores.
CameIn(pw, pv, r, t) ==
  \E u \in 0 .. t : /\ pw[r][u] = Missing /\ pv[r][u] # Missing
                    /\ \A w \in u + 1 .. t : pw[r][w] = Missing

LEMMA HoursFinite == IsFiniteSet(Hours) /\ Hours \subseteq Nat
<1>1. 0 \in Int /\ Periods - 1 \in Int
  BY SpreadStudiesAssumption
<1> QED
  BY <1>1, FS_Interval DEF Hours

\* The compute leg is one level at all hours.
LEMMA OneLevel ==
  ASSUME StudiesTypes
  PROVE  \E level \in Int : ComputeIndex = [at : Hours, value : {level}]
<1> DEFINE last == Max(Snapshots)
           level == IF Snapshots = {} THEN Anchor
                    ELSE IF Fresh(last) = {} THEN Anchor ELSE reading[Max(Fresh(last))]
<1>1. DOMAIN reading = 0 .. now /\ now \in Int
  BY DEF StudiesTypes
<1>2. ASSUME Fresh(last) # {} PROVE reading[Max(Fresh(last))] \in Prices
  <2>1. \A g : Fresh(g) = FreshIn(reading, g)
    BY DEF Fresh, FreshIn, Quoted, QuotedIn
  <2> HIDE DEF last
  <2>2. FreshIn(reading, last) # {}
    BY <1>2, <2>1
  <2>3. reading[Max(FreshIn(reading, last))] \in Prices
    BY <1>1, <2>2, FixIsPrice
  <2> QED
    BY <2>1, <2>3, Zenon
<1>3. Prices \subseteq Int /\ Anchor \in Int
  BY SpreadStudiesAssumption
<1>4. level \in Int
  BY <1>2, <1>3, Zenon
<1>5. ComputeIndex = [at : Hours, value : {level}]
  BY Zenon DEF ComputeIndex
<1> HIDE DEF level
<1> QED
  BY <1>4, <1>5

\* The last stored point of the hours up to t.
LEMMA StoredLast ==
  ASSUME NEW s, NEW t \in Hours, Until(EnergyIn(s, Hours), t) # {}
  PROVE  \E u \in Hours :
           /\ u <= t /\ s[u] # Missing
           /\ LastValue(EnergyIn(s, Hours), t) = s[u]
           /\ \A w \in Hours : w <= t /\ s[w] # Missing => w <= u
<1> DEFINE past == Until(EnergyIn(s, Hours), t)
           Held == {u \in Hours : u <= t /\ s[u] # Missing}
<1>1. \A u, v : Point(u, v).at = u /\ Point(u, v).value = v
  BY DEF Point
<1>2. past = {Point(u, s[u]) : u \in Held}
  BY <1>1 DEF Until, EnergyIn
<1>3. IsFiniteSet(past)
  <2>1. IsFiniteSet(Held)
    BY HoursFinite, FS_Subset
  <2> HIDE DEF Held
  <2> DEFINE f == [u \in Held |-> Point(u, s[u])]
  <2>2. f \in Surjection(Held, past)
    BY <1>2 DEF Surjection
  <2> QED
    BY <2>1, <2>2, FS_Surjection
<1>4. \A p \in past : p.at \in Nat
  BY <1>1, <1>2, HoursFinite
<1> HIDE DEF past
<1>5. Last(past) \in past /\ \A q \in past : q.at <= Last(past).at
  BY <1>3, <1>4, LastIsLast DEF past
<1>6. PICK u \in Held : Last(past) = Point(u, s[u])
  BY <1>2, <1>5
<1>7. LastValue(EnergyIn(s, Hours), t) = Last(past).value
  BY Zenon DEF LastValue, past
<1>8. ASSUME NEW w \in Held PROVE w <= u
  <2>1. Point(w, s[w]) \in past
    BY <1>2
  <2> QED
    BY <2>1, <1>1, <1>5, <1>6
<1> QED
  BY <1>1, <1>6, <1>7, <1>8

LEMMA NothingStored ==
  ASSUME NEW s, NEW t \in Hours
  PROVE  /\ Until(EnergyIn(s, Hours), t) = {} => LastValue(EnergyIn(s, Hours), t) = Missing
         /\ Until(EnergyIn(s, Hours), t) = {} <=> \A w \in Hours : w <= t => s[w] = Missing
<1>1. Until(EnergyIn(s, Hours), t) = {} => LastValue(EnergyIn(s, Hours), t) = Missing
  BY Zenon DEF LastValue
<1>2. \A u, v : Point(u, v).at = u
  BY DEF Point
<1>3. ASSUME NEW w \in Hours, w <= t, s[w] # Missing
      PROVE  Point(w, s[w]) \in Until(EnergyIn(s, Hours), t)
  BY <1>2, <1>3 DEF Until, EnergyIn
<1>4. ASSUME NEW p \in Until(EnergyIn(s, Hours), t)
      PROVE  \E w \in Hours : w <= t /\ s[w] # Missing
  BY <1>2, <1>4 DEF Until, EnergyIn
<1> QED
  BY <1>1, <1>3, <1>4

\* A carried price is a number, or there is none.
LEMMA LegIsPrice ==
  ASSUME NEW pw \in [Regions -> [Hours -> Int \union {Missing}]],
         NEW r \in Regions, NEW t \in Hours
  PROVE  LegOf(pw, r, t) \in Int \union {Missing}
<1>1. LastValue(EnergyIn(pw[r], Hours), t) \in Int \union {Missing}
  <2>1. CASE Until(EnergyIn(pw[r], Hours), t) = {}
    BY <2>1, NothingStored
  <2>2. CASE Until(EnergyIn(pw[r], Hours), t) # {}
    <3>1. PICK u \in Hours : LastValue(EnergyIn(pw[r], Hours), t) = pw[r][u]
      BY <2>2, StoredLast
    <3> QED
      BY <3>1
  <2> QED
    BY <2>1, <2>2
<1>2. Synthetic[r][t] \in Int
  BY SpreadStudiesAssumption
<1> QED
  BY <1>1, <1>2, Zenon DEF LegOf

\* A price that is carried to an hour changes only when a later one comes that is
\* carried to it from then on.
LEMMA LegStands ==
  ASSUME NEW s, NEW q, NEW t \in Hours,
         \A u \in Hours : s[u] # Missing => q[u] = s[u],
         \A u \in 0 .. t : s[u] = Missing /\ q[u] # Missing =>
                             \E w \in u + 1 .. t : s[w] # Missing
  PROVE  LastValue(EnergyIn(q, Hours), t) = LastValue(EnergyIn(s, Hours), t)
<1>1. /\ t \in Nat /\ \A u \in 0 .. t : u \in Hours
      /\ \A u \in Hours : u \in Nat /\ (u <= t => u \in 0 .. t)
  BY HoursFinite, SpreadStudiesAssumption DEF Hours
<1>2. CASE Until(EnergyIn(s, Hours), t) = {}
  <2>1. \A w \in Hours : w <= t => s[w] = Missing
    BY <1>2, NothingStored
  <2>2. ASSUME NEW u \in Hours, u <= t PROVE q[u] = Missing
    <3>1. u \in 0 .. t /\ \A w \in u + 1 .. t : w \in Hours /\ w <= t
      BY <1>1, <2>2
    <3> QED
      BY <3>1, <2>1, <2>2
  <2>3. Until(EnergyIn(q, Hours), t) = {}
    BY <2>2, NothingStored
  <2> QED
    BY <1>2, <2>3, NothingStored
<1>3. CASE Until(EnergyIn(s, Hours), t) # {}
  <2>1. PICK u \in Hours :
          /\ u <= t /\ s[u] # Missing
          /\ LastValue(EnergyIn(s, Hours), t) = s[u]
          /\ \A w \in Hours : w <= t /\ s[w] # Missing => w <= u
    BY <1>3, StoredLast
  <2>2. q[u] = s[u] /\ q[u] # Missing
    BY <2>1
  <2>3. Until(EnergyIn(q, Hours), t) # {}
    BY <2>1, <2>2, NothingStored
  <2>4. PICK v \in Hours :
          /\ v <= t /\ q[v] # Missing
          /\ LastValue(EnergyIn(q, Hours), t) = q[v]
          /\ \A w \in Hours : w <= t /\ q[w] # Missing => w <= v
    BY <2>3, StoredLast
  <2>5. u <= v /\ u \in Nat /\ v \in Nat
    BY <1>1, <2>1, <2>2, <2>4
  <2>6. ASSUME u < v PROVE FALSE
    <3>1. s[v] = Missing
      BY <2>1, <2>4, <2>5, <2>6
    <3>2. PICK w \in v + 1 .. t : s[w] # Missing
      BY <1>1, <2>4, <3>1
    <3>3. w \in Hours /\ w <= t /\ v < w /\ w \in Int
      BY <1>1, <2>5, <3>2
    <3>4. w <= u
      BY <2>1, <3>2, <3>3
    <3> QED
      BY <2>5, <2>6, <3>3, <3>4
  <2>7. u = v
    BY <2>5, <2>6
  <2> QED
    BY <2>1, <2>2, <2>4, <2>7
<1> QED
  BY <1>2, <1>3

\* So that each region prices its power against the same level.
LEMMA RegionsPriced ==
  ASSUME StudiesTypes, study = "basis", NEW level \in Int,
         ComputeIndex = [at : Hours, value : {level}], NEW r \in Regions
  PROVE  RegionalSpread(r) =
           {Point(t, IF LegOf(power, r, t) = Missing THEN Missing
                     ELSE Fx[r] * level - Load[r] * LegOf(power, r, t)) : t \in Hours}
<1>1. ASSUME NEW t \in Hours PROVE LastValue(ComputeIndex, t) = level
  <2> DEFINE past == Until(ComputeIndex, t)
  <2>1. \A c \in past : c.at \in Hours /\ c.value = level /\ c.at <= t
    BY DEF Until
  <2>2. Point(t, level) \in past
    <3>1. Point(t, level) \in ComputeIndex /\ Point(t, level).at = t /\ t <= t
      BY HoursFinite DEF Point
    <3> QED
      BY <3>1 DEF Until
  <2>3. \A c \in past : c.at <= Point(t, level).at
    BY <2>1 DEF Point
  <2> HIDE DEF past
  <2>4. Last(past) \in past
    BY <2>2, <2>3, Zenon DEF Last
  <2>5. past # {} /\ Last(past).value = level
    BY <2>1, <2>4
  <2> QED
    BY <2>5, Zenon DEF LastValue, past
<1>2. level # Missing
  BY SpreadStudiesAssumption
<1> DEFINE Priced(e) ==
             LET leg == LastValue(ComputeIndex, e.at)
             IN  Point(e.at, IF Missing \in {leg, e.value} THEN Missing
                             ELSE SpreadOf(leg, e.value, r))
           Value(t) == IF LegOf(power, r, t) = Missing THEN Missing
                       ELSE Fx[r] * level - Load[r] * LegOf(power, r, t)
<1>3. RegionalSpread(r) = {Priced(e) : e \in RegionalEnergy(r)}
  BY Zenon DEF RegionalSpread, PriceSpread
<1>4. RegionalEnergy(r) = {Point(t, LegOf(power, r, t)) : t \in Hours}
  <2>1. \A s \in Regions : Energy(s, Hours) = EnergyIn(power[s], Hours)
    BY Zenon DEF Energy, EnergyIn
  <2>2. EnergyLabel = "synthetic" <=> ~ RealIn(power)
    BY <2>1 DEF EnergyLabel, RealIn
  <2>3. CASE RealIn(power)
    <3>1. RegionalEnergy(r) = {Point(t, LastValue(Energy(r, Hours), t)) : t \in Hours}
      BY <2>2, <2>3, Zenon DEF RegionalEnergy
    <3>2. \A t \in Hours : LegOf(power, r, t) = LastValue(Energy(r, Hours), t)
      BY <2>1, <2>3, Zenon DEF LegOf
    <3> QED
      BY <3>1, <3>2, Zenon
  <2>4. CASE ~ RealIn(power)
    <3>1. RegionalEnergy(r) = {Point(t, Synthetic[r][t]) : t \in Hours}
      BY <2>2, <2>4, Zenon DEF RegionalEnergy
    <3>2. \A t \in Hours : LegOf(power, r, t) = Synthetic[r][t]
      BY <2>4, Zenon DEF LegOf
    <3> QED
      BY <3>1, <3>2, Zenon
  <2> QED
    BY <2>3, <2>4
<1>5. ASSUME NEW t \in Hours PROVE Priced(Point(t, LegOf(power, r, t))) = Point(t, Value(t))
  <2>1. \A v : Point(t, v).at = t /\ Point(t, v).value = v
    BY DEF Point
  <2>2. LastValue(ComputeIndex, t) = level
    BY <1>1
  <2> DEFINE leg == LegOf(power, r, t)
  <2>3. Missing \in {level, leg} <=> leg = Missing
    BY <1>2
  <2>4. Priced(Point(t, leg)) =
          Point(t, IF Missing \in {level, leg} THEN Missing ELSE SpreadOf(level, leg, r))
    BY <2>1, <2>2, Zenon
  <2> QED
    BY <2>3, <2>4, Zenon DEF SpreadOf
<1> HIDE DEF Priced, Value
<1>6. RegionalSpread(r) = {Priced(Point(t, LegOf(power, r, t))) : t \in Hours}
  BY <1>3, <1>4
<1>7. RegionalSpread(r) = {Point(t, Value(t)) : t \in Hours}
  BY <1>5, <1>6, Zenon
<1> QED
  BY <1>7 DEF Value

LEMMA BasisIsOfPower == StudiesTypes /\ study = "basis" /\ OneRate => Basis = BasisOf(power)
<1> SUFFICES ASSUME StudiesTypes, study = "basis", OneRate PROVE Basis = BasisOf(power)
  OBVIOUS
<1>1. PICK level \in Int : ComputeIndex = [at : Hours, value : {level}]
  BY OneLevel
<1>2. Reference \in Regions
  BY SpreadStudiesAssumption
<1> DEFINE Value(r, t) == IF LegOf(power, r, t) = Missing THEN Missing
                          ELSE Fx[r] * level - Load[r] * LegOf(power, r, t)
           Over(p, q) == IF Missing \in {p.value, q.value} THEN Missing ELSE p.value - q.value
           Joined(r) == {x \in RegionalSpread(r) \X RegionalSpread(Reference) : x[1].at = x[2].at}
<1>3. ASSUME NEW r \in Regions PROVE RegionalSpread(r) = {Point(t, Value(r, t)) : t \in Hours}
  BY <1>1, RegionsPriced
<1>4. \A t, v : Point(t, v).at = t /\ Point(t, v).value = v
  BY DEF Point
<1>5. ASSUME NEW r \in Regions, NEW t \in Hours
      PROVE  Over(Point(t, Value(r, t)), Point(t, Value(Reference, t)))
               = CostOver(r, LegOf(power, r, t), LegOf(power, Reference, t))
  <2> DEFINE p == LegOf(power, r, t)
             q == LegOf(power, Reference, t)
  <2>1. p \in Int \union {Missing} /\ q \in Int \union {Missing}
    BY <1>2, LegIsPrice DEF StudiesTypes
  <2>2. /\ Load[r] \in Int /\ Load[Reference] \in Int /\ Fx[r] \in Int /\ Fx[r] = Fx[Reference]
        /\ Missing \notin Int
    BY <1>2, SpreadStudiesAssumption DEF OneRate
  <2> HIDE DEF p, q
  <2>3. CASE p = Missing \/ q = Missing
    <3>1. Missing \in {Value(r, t), Value(Reference, t)}
      BY <2>3, Zenon DEF p, q
    <3> QED
      BY <3>1, <2>3, <1>4, Zenon DEF CostOver, p, q
  <2>4. CASE p # Missing /\ q # Missing
    <3> DEFINE a == Fx[r] * level
               b == Load[r] * p
               d == Load[Reference] * q
    <3>1. a \in Int /\ b \in Int /\ d \in Int
      BY <2>1, <2>2, <2>4
    <3>2. Value(r, t) = a - b /\ Value(Reference, t) = a - d
      BY <2>2, <2>4, Zenon DEF p, q
    <3>3. CostOver(r, p, q) = d - b
      BY <2>4, Zenon DEF CostOver
    <3> HIDE DEF a, b, d, Value
    <3>4. Value(r, t) - Value(Reference, t) = d - b /\ a - b # Missing /\ a - d # Missing
      BY <3>1, <3>2, <2>2
    <3>5. Missing \notin {Value(r, t), Value(Reference, t)}
      BY <3>2, <3>4
    <3>6. Over(Point(t, Value(r, t)), Point(t, Value(Reference, t)))
            = Value(r, t) - Value(Reference, t)
      BY <3>5, <1>4, Zenon
    <3> QED
      BY <3>3, <3>4, <3>6, Zenon DEF p, q
  <2> QED
    BY <2>3, <2>4
<1> HIDE DEF Value
<1>6. ASSUME NEW r \in Regions
      PROVE  Joined(r) = {<<Point(t, Value(r, t)), Point(t, Value(Reference, t))>> : t \in Hours}
  <2>1. /\ RegionalSpread(r) = {Point(t, Value(r, t)) : t \in Hours}
        /\ RegionalSpread(Reference) = {Point(t, Value(Reference, t)) : t \in Hours}
    BY <1>2, <1>3
  <2>2. ASSUME NEW x \in Joined(r)
        PROVE  \E t \in Hours : x = <<Point(t, Value(r, t)), Point(t, Value(Reference, t))>>
    <3>1. PICK t \in Hours, u \in Hours :
            x = <<Point(t, Value(r, t)), Point(u, Value(Reference, u))>>
      BY <2>1
    <3>2. Point(t, Value(r, t)).at = Point(u, Value(Reference, u)).at
      BY <3>1
    <3>3. t = u
      BY <3>2, <1>4
    <3> QED
      BY <3>1, <3>3
  <2>3. ASSUME NEW t \in Hours
        PROVE  <<Point(t, Value(r, t)), Point(t, Value(Reference, t))>> \in Joined(r)
    BY <2>1, <1>4
  <2> QED
    BY <2>2, <2>3
<1>7. Basis = UNION {{[region |-> r, at |-> x[1].at, value |-> Over(x[1], x[2])] : x \in Joined(r)} :
                       r \in Regions \ {Reference}}
  BY Zenon DEF Basis
<1> HIDE DEF Joined, Over
<1>8. ASSUME NEW r \in Regions
      PROVE  {[region |-> r, at |-> x[1].at, value |-> Over(x[1], x[2])] : x \in Joined(r)}
               = {[region |-> r, at |-> t,
                   value |-> CostOver(r, LegOf(power, r, t), LegOf(power, Reference, t))] : t \in Hours}
  <2> DEFINE p(t) == Point(t, Value(r, t))
             q(t) == Point(t, Value(Reference, t))
             Row(x) == [region |-> r, at |-> x[1].at, value |-> Over(x[1], x[2])]
  <2>1. Joined(r) = {<<p(t), q(t)>> : t \in Hours}
    BY <1>6, Zenon
  <2>2. \A t : <<p(t), q(t)>>[1] = p(t) /\ <<p(t), q(t)>>[2] = q(t)
    OBVIOUS
  <2>3. ASSUME NEW t \in Hours
        PROVE  Row(<<p(t), q(t)>>)
                 = [region |-> r, at |-> t,
                    value |-> CostOver(r, LegOf(power, r, t), LegOf(power, Reference, t))]
    BY <2>2, <1>4, <1>5, Zenon
  <2> HIDE DEF p, q, Row
  <2>4. {Row(x) : x \in Joined(r)}
          = {[region |-> r, at |-> t,
              value |-> CostOver(r, LegOf(power, r, t), LegOf(power, Reference, t))] : t \in Hours}
    BY <2>1, <2>3
  <2> QED
    BY <2>4, Zenon DEF Row
<1>9. Basis = UNION {{[region |-> r, at |-> t,
                       value |-> CostOver(r, LegOf(power, r, t), LegOf(power, Reference, t))] :
                         t \in Hours} : r \in Regions \ {Reference}}
  BY <1>7, <1>8
<1> QED
  BY <1>9 DEF BasisOf

\* What more prices do to the basis.
LEMMA BasisOfMore ==
  ASSUME NEW pw \in [Regions -> [Hours -> Int \union {Missing}]],
         NEW pv \in [Regions -> [Hours -> Int \union {Missing}]],
         \A r \in Regions : \A u \in Hours : pw[r][u] # Missing => pv[r][u] = pw[r][u],
         NEW b \in BasisOf(pw), NEW c \in BasisOf(pv),
         c.region = b.region, c.at = b.at, c.value # b.value
  PROVE  \/ ~ RealIn(pw) /\ RealIn(pv)
         \/ /\ RealIn(pw) /\ RealIn(pv)
            /\ \E r \in {b.region, Reference} : CameIn(pw, pv, r, b.at)
<1>1. PICK r \in Regions \ {Reference}, t \in Hours :
        b = [region |-> r, at |-> t,
             value |-> CostOver(r, LegOf(pw, r, t), LegOf(pw, Reference, t))]
  BY DEF BasisOf
<1>2. PICK s \in Regions \ {Reference}, v \in Hours :
        c = [region |-> s, at |-> v,
             value |-> CostOver(s, LegOf(pv, s, v), LegOf(pv, Reference, v))]
  BY DEF BasisOf
<1>3. s = r /\ v = t /\ b.region = r /\ b.at = t
  BY <1>1, <1>2
<1>4. Reference \in Regions
  BY SpreadStudiesAssumption
<1>5. PICK g \in {r, Reference} : LegOf(pv, g, t) # LegOf(pw, g, t)
  <2>1. CostOver(r, LegOf(pv, r, t), LegOf(pv, Reference, t))
          # CostOver(r, LegOf(pw, r, t), LegOf(pw, Reference, t))
    BY <1>1, <1>2, <1>3
  <2> QED
    BY <2>1
<1>6. RealIn(pw) => RealIn(pv)
  <2> SUFFICES ASSUME RealIn(pw), NEW h \in Regions PROVE EnergyIn(pv[h], Hours) # {}
    BY DEF RealIn
  <2>1. PICK u \in Hours : pw[h][u] # Missing
    BY DEF RealIn, EnergyIn
  <2>2. pv[h][u] # Missing
    BY <2>1
  <2> QED
    BY <2>2 DEF EnergyIn
<1>7. CASE RealIn(pw)
  <2>1. g \in Regions /\ RealIn(pv)
    BY <1>4, <1>6, <1>7
  <2>2. LastValue(EnergyIn(pv[g], Hours), t) # LastValue(EnergyIn(pw[g], Hours), t)
    BY <1>5, <1>7, <2>1, Zenon DEF LegOf
  <2>3. \A u \in Hours : pw[g][u] # Missing => pv[g][u] = pw[g][u]
    BY <2>1
  <2>4. CameIn(pw, pv, g, t)
    BY <2>2, <2>3, LegStands DEF CameIn
  <2> QED
    BY <1>3, <1>7, <2>1, <2>4
<1>8. CASE ~ RealIn(pw)
  <2>1. ASSUME ~ RealIn(pv) PROVE FALSE
    BY <1>5, <1>8, <2>1, Zenon DEF LegOf
  <2> QED
    BY <1>8, <2>1
<1> QED
  BY <1>7, <1>8

-------------------------------------------------------------------------------
(***************************************************************************)
(* Training examples.                                                      *)
(***************************************************************************)
SnapshotOf(lines, asOf) ==
  {Point(t, CHOOSE v \in Store!AsOfSnapshot(lines, asOf)[t] : TRUE) :
     t \in DOMAIN Store!AsOfSnapshot(lines, asOf)}

FeaturesOf(snapshot) ==
  {<<"lag", k, LagFeature(snapshot, k)>> : k \in FeatureLags}
    \union {<<"roll", w, RollingMean(snapshot, w)>> : w \in RollingWindows}
    \union {<<"diff", k, DiffFeature(snapshot, k)>> : k \in Diffs}

ShiftIn(x, t, k) == IF t < k THEN Missing ELSE x[t - k]
MoveIn(x, t, k) == IF t < k THEN Missing ELSE x[t] - x[t - k]
MeanIn(x, t, w) ==
  IF t + 1 < w THEN Missing ELSE SumFunction([i \in t - w + 1 .. t |-> x[i]])

SpreadFeaturesOf(x, t) ==
  {<<"spread", k, ShiftIn(x, t, k)>> : k \in SpreadLags}
    \union {<<"mom", k, MoveIn(x, t, k)>> : k \in SpreadLags}
    \union {<<"mean", w, MeanIn(x, t, w)>> : w \in RollingWindows}

LabelOf(x, n, t) == IF t + LabelHorizon > n THEN Missing ELSE x[t + LabelHorizon] > x[t]

RowOf(lines, x, n, t) ==
  Point(t, [features |-> FeaturesOf(SnapshotOf(lines, t)) \union SpreadFeaturesOf(x, t),
            label |-> LabelOf(x, n, t)])

ExamplesOf(lines, x, n) ==
  {c \in {RowOf(lines, x, n, t) : t \in DOMAIN x} :
     (\A f \in c.value.features : f[3] # Missing) /\ c.value.label # Missing}

LEMMA ExamplesAreOf == Examples = ExamplesOf(vintages, target, now)
<1>1. \A t : BuildAsOf(t) = FeaturesOf(SnapshotOf(vintages, t))
  BY Zenon DEF BuildAsOf, FeaturesOf, Snapshot, SnapshotOf
<1>2. \A t : SpreadFeatures(t) = SpreadFeaturesOf(target, t)
  BY Zenon DEF SpreadFeatures, SpreadFeaturesOf, Shift, ShiftIn, MoveIn, MeanIn
<1>3. \A t : BuildLabel(t) = LabelOf(target, now, t)
  BY Zenon DEF BuildLabel, LabelOf
<1>4. \A t : Point(t, [features |-> BuildAsOf(t) \union SpreadFeatures(t), label |-> BuildLabel(t)])
               = RowOf(vintages, target, now, t)
  BY <1>1, <1>2, <1>3, Zenon DEF RowOf
<1> QED
  BY <1>4 DEF Examples, ExamplesOf

\* What is published later is not known yet.
LEMMA KnownStands ==
  ASSUME NEW lines, NEW more, NEW n \in Int, NEW t \in 0 .. n,
         \A r \in more : r.content.publish \in Int /\ n < r.content.publish
  PROVE  SnapshotOf(lines \union more, t) = SnapshotOf(lines, t)
<1>1. \A r \in more : ~ (r.content.publish <= t)
  OBVIOUS
<1>2. Store!Known(lines \union more, t) = Store!Known(lines, t)
  BY <1>1 DEF Store!Known
<1>3. Store!AsOfSnapshot(lines \union more, t) = Store!AsOfSnapshot(lines, t)
  BY <1>2, Zenon DEF Store!AsOfSnapshot
<1> QED
  BY <1>3, Zenon DEF SnapshotOf

\* The features of an instant are made of the series up to it.
LEMMA SpreadFeaturesStand ==
  ASSUME NEW x, NEW y, NEW n \in Int, \A i \in 0 .. n : y[i] = x[i], NEW t \in 0 .. n
  PROVE  SpreadFeaturesOf(y, t) = SpreadFeaturesOf(x, t)
<1>1. ASSUME NEW k \in SpreadLags
      PROVE  ShiftIn(y, t, k) = ShiftIn(x, t, k) /\ MoveIn(y, t, k) = MoveIn(x, t, k)
  <2>1. k \in Nat
    BY SpreadStudiesAssumption
  <2>2. ~ (t < k) => t - k \in 0 .. n
    BY <2>1
  <2>3. y[t] = x[t] /\ (~ (t < k) => y[t - k] = x[t - k])
    BY <2>2
  <2> QED
    BY <2>3, Zenon DEF ShiftIn, MoveIn
<1>2. ASSUME NEW w \in RollingWindows
      PROVE  MeanIn(y, t, w) = MeanIn(x, t, w)
  <2>1. w \in Nat
    BY SpreadStudiesAssumption
  <2>2. ASSUME ~ (t + 1 < w)
        PROVE  [i \in t - w + 1 .. t |-> y[i]] = [i \in t - w + 1 .. t |-> x[i]]
    <3>1. \A i \in t - w + 1 .. t : i \in 0 .. n
      BY <2>1, <2>2
    <3> QED
      BY <3>1
  <2> QED
    BY <2>2, Zenon DEF MeanIn
<1>3. {<<"spread", k, ShiftIn(y, t, k)>> : k \in SpreadLags}
        = {<<"spread", k, ShiftIn(x, t, k)>> : k \in SpreadLags}
  BY <1>1, Zenon
<1>4. {<<"mom", k, MoveIn(y, t, k)>> : k \in SpreadLags}
        = {<<"mom", k, MoveIn(x, t, k)>> : k \in SpreadLags}
  BY <1>1, Zenon
<1>5. {<<"mean", w, MeanIn(y, t, w)>> : w \in RollingWindows}
        = {<<"mean", w, MeanIn(x, t, w)>> : w \in RollingWindows}
  BY <1>2, Zenon
<1> QED
  BY <1>3, <1>4, <1>5, Zenon DEF SpreadFeaturesOf

LEMMA ExamplesStand ==
  ASSUME NEW lines, NEW more, NEW x, NEW y, NEW n \in Int, NEW m \in Int, n <= m,
         DOMAIN x = 0 .. n, DOMAIN y = 0 .. m, \A i \in 0 .. n : y[i] = x[i],
         \A r \in more : r.content.publish \in Int /\ n < r.content.publish
  PROVE  ExamplesOf(lines, x, n) \subseteq ExamplesOf(lines \union more, y, m)
<1>1. ASSUME NEW t \in 0 .. n, t + LabelHorizon <= n
      PROVE  RowOf(lines \union more, y, m, t) = RowOf(lines, x, n, t)
  <2>1. SnapshotOf(lines \union more, t) = SnapshotOf(lines, t)
    BY KnownStands
  <2>2. SpreadFeaturesOf(y, t) = SpreadFeaturesOf(x, t)
    BY SpreadFeaturesStand
  <2>3. LabelOf(y, m, t) = LabelOf(x, n, t)
    <3>1. LabelHorizon \in Nat
      BY SpreadStudiesAssumption
    <3>2. t + LabelHorizon \in 0 .. n /\ ~ (t + LabelHorizon > n) /\ ~ (t + LabelHorizon > m)
      BY <1>1, <3>1
    <3>3. y[t] = x[t] /\ y[t + LabelHorizon] = x[t + LabelHorizon]
      BY <3>2
    <3> QED
      BY <3>2, <3>3, Zenon DEF LabelOf
  <2> QED
    BY <2>1, <2>2, <2>3, Zenon DEF RowOf
<1>2. ASSUME NEW t \in 0 .. n, RowOf(lines, x, n, t).value.label # Missing
      PROVE  t + LabelHorizon <= n
  <2>1. RowOf(lines, x, n, t).value.label = LabelOf(x, n, t)
    BY DEF RowOf, Point
  <2>2. ~ (t + LabelHorizon > n)
    BY <1>2, <2>1, Zenon DEF LabelOf
  <2> QED
    BY <2>2, SpreadStudiesAssumption
<1>3. ASSUME NEW c \in ExamplesOf(lines, x, n)
      PROVE  c \in ExamplesOf(lines \union more, y, m)
  <2>1. PICK t \in 0 .. n : c = RowOf(lines, x, n, t)
    BY DEF ExamplesOf
  <2>2. (\A f \in c.value.features : f[3] # Missing) /\ c.value.label # Missing
    BY DEF ExamplesOf
  <2>3. c = RowOf(lines \union more, y, m, t)
    BY <1>1, <1>2, <2>1, <2>2
  <2>4. t \in DOMAIN y
    OBVIOUS
  <2> QED
    BY <2>2, <2>3, <2>4, Zenon DEF ExamplesOf
<1> QED
  BY <1>3
-------------------------------------------------------------------------------
\* A step of the studies changes nothing of what they gave.
LEMMA ResultsKeep ==
  ASSUME StudiesTypes, StudiesNext
  PROVE  /\ study = "spread" => SpreadDataset \subseteq SpreadDataset'
         /\ study = "volatility" => Volatilities \subseteq Volatilities'
         /\ study = "examples" => Examples \subseteq Examples'
<1>1. CASE Arrive
  <2>1. /\ now' = now + 1 /\ study' = study
        /\ GoesOn(reading, reading', now)
        /\ study # "basis" =>
             /\ \A r \in Regions : GoesOn(power[r], power'[r], now)
             /\ power' \in [Regions -> [0 .. now + 1 -> Int \union {Missing}]]
        /\ study = "examples" => GoesOn(target, target', now)
    BY <1>1, ArriveGoesOn
  <2>2. ASSUME study = "spread" PROVE SpreadDataset \subseteq SpreadDataset'
    <3>1. Home \in Regions
      BY SpreadStudiesAssumption
    <3>2. \A t \in 0 .. now + 1 : power'[Home][t] \in Int \union {Missing}
      BY <2>1, <2>2, <3>1
    <3>3. SpreadOver(reading, power[Home]) \subseteq SpreadOver(reading', power'[Home])
      BY <2>1, <2>2, <3>1, <3>2, SpreadStands
    <3>4. (SpreadDataset = SpreadOver(reading, power[Home]))'
      BY SpreadIsOver, PTL
    <3> QED
      BY <3>3, <3>4, SpreadIsOver
  <2>3. Volatilities \subseteq Volatilities'
    <3>1. VolatilitiesOver(reading) \subseteq VolatilitiesOver(reading')
      BY <2>1, VolatilitiesStand
    <3>2. (Volatilities = VolatilitiesOver(reading))'
      BY VolatilitiesAreOver, PTL
    <3> QED
      BY <3>1, <3>2, VolatilitiesAreOver
  <2>4. ASSUME study = "examples" PROVE Examples \subseteq Examples'
    <3>1. PICK v : vintages' = vintages \union {Vintage(now + 1, now + 1 + PublicationLag, v)}
      BY <1>1, <2>4 DEF Arrive
    <3> DEFINE more == {Vintage(now + 1, now + 1 + PublicationLag, v)}
    <3>2. \A r \in more : r.content.publish \in Int /\ now < r.content.publish
      BY SpreadStudiesAssumption DEF Vintage, StudiesTypes
    <3>3. /\ now \in Int /\ now + 1 \in Int /\ now <= now + 1
          /\ DOMAIN target = 0 .. now /\ DOMAIN target' = 0 .. now + 1
          /\ \A i \in 0 .. now : target'[i] = target[i]
      BY <2>1, <2>4 DEF StudiesTypes, GoesOn
    <3> HIDE DEF more
    <3>4. ExamplesOf(vintages, target, now) \subseteq ExamplesOf(vintages \union more, target', now + 1)
      BY <3>2, <3>3, ExamplesStand
    <3>5. (Examples = ExamplesOf(vintages, target, now))'
      BY ExamplesAreOf, PTL
    <3> QED
      BY <2>1, <3>1, <3>4, <3>5, ExamplesAreOf DEF more
  <2> QED
    BY <2>2, <2>3, <2>4
<1>2. CASE Revise
  <2>1. study = "examples"
    BY <1>2 DEF Revise
  <2>2. PICK t \in 0 .. now, v \in Prices :
          vintages' = vintages \union {Vintage(t, now + RevisionDelay, v)}
    BY <1>2 DEF Revise
  <2> DEFINE more == {Vintage(t, now + RevisionDelay, v)}
  <2>3. \A r \in more : r.content.publish \in Int /\ now < r.content.publish
    BY SpreadStudiesAssumption DEF Vintage, StudiesTypes
  <2>4. now \in Int /\ DOMAIN target = 0 .. now /\ target' = target /\ now' = now
    BY <1>2, <2>1 DEF Revise, StudiesTypes
  <2> HIDE DEF more
  <2>5. now <= now /\ \A i \in 0 .. now : target[i] = target[i]
    BY <2>4
  <2>6. ExamplesOf(vintages, target, now) \subseteq ExamplesOf(vintages \union more, target, now)
    BY <2>3, <2>4, <2>5, ExamplesStand
  <2>7. (Examples = ExamplesOf(vintages, target, now))'
    BY ExamplesAreOf, PTL
  <2>8. Examples \subseteq Examples'
    BY <2>2, <2>4, <2>6, <2>7, ExamplesAreOf DEF more
  <2> QED
    BY <2>1, <2>8
<1>3. CASE Backfill
  BY <1>3 DEF Backfill
<1> QED
  BY <1>1, <1>2, <1>3 DEF StudiesNext

\* A step of the basis study takes no price away.
LEMMA PricesStay ==
  ASSUME StudiesTypes, StudiesNext, study = "basis"
  PROVE  /\ study' = "basis"
         /\ power' \in [Regions -> [Hours -> Int \union {Missing}]]
         /\ \A r \in Regions : \A u \in Hours :
              power[r][u] # Missing => power'[r][u] = power[r][u]
<1>1. study' = "basis"
  BY DEF StudiesNext, Arrive, Revise, Backfill
<1>2. power' \in [Regions -> [Hours -> Int \union {Missing}]]
  BY <1>1, StudiesTypesStep DEF StudiesTypes
<1>3. ASSUME Backfill, NEW r \in Regions, NEW u \in Hours, power[r][u] # Missing
      PROVE  power'[r][u] = power[r][u]
  <2>1. PICK g \in Regions :
          \E stored \in [{t \in Hours : power[g][t] = Missing} -> PowerPrices[g] \union {Missing}] :
            power' = [power EXCEPT ![g] =
                        [t \in Hours |-> IF t \in {v \in Hours : power[g][v] = Missing}
                                        THEN stored[t] ELSE power[g][t]]]
    BY <1>3, Zenon DEF Backfill
  <2>2. power \in [Regions -> [Hours -> Int \union {Missing}]]
    BY DEF StudiesTypes
  <2> QED
    BY <1>3, <2>1, <2>2
<1>4. ~ Backfill => power' = power
  BY DEF StudiesNext, Arrive, Revise
<1> QED
  BY <1>1, <1>2, <1>3, <1>4

LEMMA BasisKept ==
  ASSUME StudiesTypes, StudiesNext, study = "basis", OneRate,
         NEW b \in Basis, NEW c \in Basis',
         c.region = b.region, c.at = b.at, c.value # b.value
  PROVE  \/ EnergyLabel = "synthetic" /\ EnergyLabel' = "entsoe_cold_store"
         \/ /\ EnergyLabel = "entsoe_cold_store" /\ EnergyLabel' = EnergyLabel
            /\ \E r \in {b.region, Reference} : PriceCame(r, b.at)
<1>1. Basis = BasisOf(power)
  BY BasisIsOfPower
<1>2. (StudiesTypes /\ study = "basis" /\ OneRate)'
  BY StudiesTypesStep, PricesStay DEF OneRate
<1>3. (Basis = BasisOf(power))'
  BY <1>2, BasisIsOfPower, PTL
<1>4. c \in BasisOf(power')
  BY <1>3
<1>5. \/ ~ RealIn(power) /\ RealIn(power')
      \/ /\ RealIn(power) /\ RealIn(power')
         /\ \E r \in {b.region, Reference} : CameIn(power, power', r, b.at)
  BY <1>1, <1>4, PricesStay, BasisOfMore DEF StudiesTypes
<1>6. EnergyLabel = IF RealIn(power) THEN "entsoe_cold_store" ELSE "synthetic"
  BY Zenon DEF EnergyLabel, RealIn, Energy, EnergyIn
<1>7. EnergyLabel' = IF RealIn(power') THEN "entsoe_cold_store" ELSE "synthetic"
  BY Zenon DEF EnergyLabel, RealIn, Energy, EnergyIn
<1>8. \A r, t : PriceCame(r, t) <=> CameIn(power, power', r, t)
  BY DEF PriceCame, CameIn
<1> QED
  BY <1>5, <1>6, <1>7, <1>8

\* What a study gave stands: the spread, the volatilities and the training
\* examples of the past are those that were given at the time.
THEOREM StudiesKeep == StudiesSpec => StudiesStand
<1>1. ASSUME StudiesTypes, [StudiesNext]_studiesVars
      PROVE  [/\ study = "spread" => SpreadDataset \subseteq SpreadDataset'
              /\ study = "volatility" => Volatilities \subseteq Volatilities'
              /\ study = "examples" => Examples \subseteq Examples']_studiesVars
  BY <1>1, ResultsKeep
<1> QED
  BY <1>1, StudiesTypeCorrect, PTL DEF StudiesSpec, StudiesStand

\* With one exchange rate for all regions, no snapshot rewrites the basis: that of
\* an hour changes only when real prices replace the generated ones, or when a
\* price is stored that is carried to the hour in place of an older one.
THEOREM BasisKeeps == StudiesSpec => BasisStands
<1>1. ASSUME StudiesTypes, [StudiesNext]_studiesVars
      PROVE  [study = "basis" /\ OneRate =>
                \A b \in Basis, c \in Basis' :
                  c.region = b.region /\ c.at = b.at /\ c.value # b.value =>
                    \/ EnergyLabel = "synthetic" /\ EnergyLabel' = "entsoe_cold_store"
                    \/ /\ EnergyLabel = "entsoe_cold_store" /\ EnergyLabel' = EnergyLabel
                       /\ \E r \in {b.region, Reference} : PriceCame(r, b.at)]_studiesVars
  BY <1>1, BasisKept
<1> QED
  BY <1>1, StudiesTypeCorrect, PTL DEF StudiesSpec, BasisStands
===============================================================================
