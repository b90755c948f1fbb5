----------------------------- MODULE BacktestProofs -----------------------------
(***************************************************************************)
(* What the backtest engine and the desk promise for every series, every   *)
(* strategy, every window, threshold and cost, and for every number of     *)
(* runs that went before.                                                  *)
(***************************************************************************)
EXTENDS Desk, FiniteInduction

\* A sequence, whatever its elements are.
IsSequence(s) == \E S : s \in Seq(S)

\* The length of a series, whose instants start at 0.
Size(p) == CHOOSE n \in Nat : DOMAIN p = 0 .. n - 1

\* What a reader makes of the instant it asks for.
ReaderPosition(p, now, asked) ==
  CASE At(p, asked) < p[now] -> 1 [] At(p, asked) > p[now] -> -1 [] OTHER -> 0

\* A step of the strategy s at an instant: what it remembers afterwards and the
\* position it decides, from what it remembered before.
Step(s, p, now, before) ==
  LET m == Held(p, now, before.memory)
      d == DeskAfter(p, now, before.desk, m)
  IN  IF s.kind = "mean_reversion" THEN [memory |-> m, desk |-> Blank, position |-> m]
      ELSE IF s.kind = "desk"
        THEN [memory |-> m, desk |-> d, position |-> Last(d.records).position]
        ELSE [memory |-> 0, desk |-> Blank, position |-> ReaderPosition(p, now, s.asked)]

\* A strategy that has not been asked.
New == [memory |-> 0, desk |-> Blank, position |-> 0]

\* h is what the strategy went through at the first n instants of p.
Follows(s, p, h, n) ==
  \A k \in 0 .. n - 1 :
    /\ h[k] = Step(s, p, k, IF k = 0 THEN New ELSE h[k - 1])
    /\ s.kind = "reader" => Readable(p, k, s.asked)

Positioned(path, h, n) == \A k \in 0 .. n - 1 : path[k + 1] = h[k].position

\* The strategy object is where the last step left it.
Remembered(s, h, n) ==
  n > 0 => /\ s.kind # "reader" => memory = h[n - 1].memory
           /\ s.kind = "desk" => desk = h[n - 1].desk

\* The position held before the i-th decision.
Prior(path, i) == IF i = 1 THEN 0 ELSE path[i - 1]

\* What is not a desk is long, flat or short.
Ternary(s, path, n) == s.kind # "desk" => \A i \in 1 .. n : path[i] \in Positions

\* The first n returns are those of the path, each earned on the position before.
Accounted(s, p, path, rets, n) ==
  \A i \in 1 .. n :
    /\ rets[i].gain = Prior(path, i) * MarketMove(p, i - 1)
    /\ s.kind # "desk" => rets[i].cost = CostRate * Distance(path[i], Prior(path, i))

\* The trades counted are the changes of the position.
Counted(s, path, n, trades) ==
  s.kind # "desk" => trades = Cardinality({i \in 1 .. n : path[i] # Prior(path, i)})
-------------------------------------------------------------------------------
(***************************************************************************)
(* The invariant.                                                          *)
(***************************************************************************)
Types ==
  /\ phase \in {"idle", "signal", "accumulate"}
  /\ strategy \in Strategies /\ memory \in Positions /\ t \in Nat
  /\ phase # "idle" => prices \in Series /\ t <= Size(prices)

\* What was decided so far is what the strategy decides on these prices alone.
DecidedFromPrices ==
  /\ phase = "signal" =>
       /\ IsSequence(positions) /\ Len(positions) = t /\ Ternary(strategy, positions, t)
       /\ \E h : /\ Follows(strategy, prices, h, t)
                 /\ Positioned(positions, h, t) /\ Remembered(strategy, h, t)
  /\ phase = "accumulate" =>
       /\ IsSequence(positions) /\ Len(positions) = Size(prices)
       /\ Ternary(strategy, positions, Size(prices))
       /\ \E h : /\ Follows(strategy, prices, h, Size(prices))
                 /\ Positioned(positions, h, Size(prices))

\* What was accumulated so far is what the path earned and cost.
AccumulatedFromPath ==
  phase = "accumulate" =>
    /\ IsSequence(returns) /\ Len(returns) = t
    /\ prevPos = Prior(positions, t + 1)
    /\ Accounted(strategy, prices, positions, returns, t)
    /\ Counted(strategy, positions, t, nTrades)

\* And so is what a run returned.
Ledger(a) ==
  LET n == Size(a.prices)
  IN  /\ a.strategy \in Strategies /\ a.prices \in Series
      /\ DOMAIN a.positions = 1 .. n /\ DOMAIN a.returns = 1 .. n
      /\ \E h : Follows(a.strategy, a.prices, h, n) /\ Positioned(a.positions, h, n)
      /\ Ternary(a.strategy, a.positions, n)
      /\ Accounted(a.strategy, a.prices, a.positions, a.returns, n)
      /\ Counted(a.strategy, a.positions, n, a.nTrades)

LedgersStand == \A a \in ledgers : Ledger(a)

\* The inductive invariant.
IInv == Types /\ DecidedFromPrices /\ AccumulatedFromPath /\ LedgersStand
-------------------------------------------------------------------------------
(***************************************************************************)
(* Lemmas about series, sequences and the steps of a strategy.             *)
(***************************************************************************)
\* A series has its first instant, and Size counts them.
LEMMA SeriesSize ==
  ASSUME NEW p \in Series
  PROVE  /\ Size(p) \in Nat /\ Size(p) > 0 /\ DOMAIN p = 0 .. Size(p) - 1
         /\ \A i \in 0 .. Size(p) - 1 : p[i] \in Prices
<1>1. PICK n \in 1 .. MaxLength : p \in [0 .. n - 1 -> Prices]
  BY DEF Series
<1>2. n \in Nat /\ n > 0 /\ DOMAIN p = 0 .. n - 1
  BY <1>1, BacktestAssumption
<1>3. Size(p) \in Nat /\ DOMAIN p = 0 .. Size(p) - 1
  BY <1>2, Zenon DEF Size
<1>4. Size(p) > 0
  <2>1. 0 \in 0 .. n - 1
    BY <1>2
  <2>2. 0 \in 0 .. Size(p) - 1
    BY <1>2, <1>3, <2>1
  <2> QED
    BY <1>3, <2>2
<1>5. \A i \in DOMAIN p : p[i] \in Prices
  BY <1>1
<1> QED
  BY <1>3, <1>4, <1>5

\* What Append does, whatever the elements are.
LEMMA AppendTo ==
  ASSUME NEW s, IsSequence(s), NEW e
  PROVE  /\ IsSequence(Append(s, e)) /\ Len(s) \in Nat
         /\ Len(Append(s, e)) = Len(s) + 1
         /\ \A i \in 1 .. Len(s) : Append(s, e)[i] = s[i]
         /\ Append(s, e)[Len(s) + 1] = e
<1>1. PICK S : s \in Seq(S)
  BY DEF IsSequence
<1> DEFINE T == S \union {e}
<1>2. s \in Seq(T) /\ e \in T
  BY <1>1
<1> HIDE DEF T
<1>3. /\ Append(s, e) \in Seq(T) /\ Len(s) \in Nat
      /\ Len(Append(s, e)) = Len(s) + 1
      /\ \A i \in 1 .. Len(s) : Append(s, e)[i] = s[i]
      /\ Append(s, e)[Len(s) + 1] = e
  BY <1>2
<1> QED
  BY <1>3 DEF IsSequence

LEMMA EmptySequence == IsSequence(<< >>) /\ Len(<< >>) = 0
<1>1. << >> \in Seq({})
  OBVIOUS
<1> QED
  BY <1>1, Zenon DEF IsSequence

LEMMA SequenceDomain ==
  ASSUME NEW s, IsSequence(s)
  PROVE  Len(s) \in Nat /\ DOMAIN s = 1 .. Len(s)
BY DEF IsSequence

\* The mean reversion is long, flat or short.
LEMMA HeldIsPosition ==
  ASSUME NEW p, NEW now, NEW m \in Positions
  PROVE  Held(p, now, m) \in Positions
<1>1. Reset(now, m) \in Positions
  BY DEF Reset, Positions
<1>2. ASSUME NEW x \in Positions PROVE Decide(p, now, x) \in Positions
  <2>1. -1 \in Positions /\ 0 \in Positions /\ 1 \in Positions
    BY DEF Positions
  <2> QED
    BY <1>2, <2>1, Zenon DEF Decide
<1> QED
  BY <1>1, <1>2, Zenon DEF Held

\* The first step forgets what the object remembers.
LEMMA FirstStep ==
  ASSUME NEW s, NEW p, NEW before
  PROVE  Step(s, p, 0, before) = Step(s, p, 0, New)
<1>1. \A m : Held(p, 0, m) = Held(p, 0, 0)
  BY Zenon DEF Held, Reset
<1>2. \A d, m : DeskAfter(p, 0, d, m) = DeskAfter(p, 0, Blank, m)
  BY Zenon DEF DeskAfter, ResetDesk
<1>3. New.memory = 0 /\ New.desk = Blank
  BY DEF New
<1> QED
  BY <1>1, <1>2, <1>3, Zenon DEF Step

\* One step more.
LEMMA StepExtends ==
  ASSUME NEW s, NEW p, NEW h, NEW n \in Nat, NEW path, NEW wider, NEW before,
         Follows(s, p, h, n), Positioned(path, h, n),
         n > 0 => before = h[n - 1],
         s.kind = "reader" => Readable(p, n, s.asked),
         \A i \in 1 .. n : wider[i] = path[i],
         wider[n + 1] = Step(s, p, n, before).position
  PROVE  \E g : /\ Follows(s, p, g, n + 1) /\ Positioned(wider, g, n + 1)
                /\ g[n] = Step(s, p, n, before)
<1> DEFINE step == Step(s, p, n, before)
           g == [k \in 0 .. n |-> IF k = n THEN step ELSE h[k]]
<1>1. step = Step(s, p, n, IF n = 0 THEN New ELSE h[n - 1])
  <2>1. CASE n = 0
    BY <2>1, FirstStep
  <2>2. CASE n # 0
    BY <2>2
  <2> QED
    BY <2>1, <2>2
<1> HIDE DEF step
<1>2. g[n] = step /\ \A k \in 0 .. n - 1 : g[k] = h[k]
  OBVIOUS
<1> HIDE DEF g
<1>3. ASSUME NEW k \in 0 .. n
      PROVE  /\ g[k] = Step(s, p, k, IF k = 0 THEN New ELSE g[k - 1])
             /\ s.kind = "reader" => Readable(p, k, s.asked)
  <2>1. (IF k = 0 THEN New ELSE g[k - 1]) = IF k = 0 THEN New ELSE h[k - 1]
    BY <1>2
  <2>2. CASE k = n
    BY <1>1, <1>2, <2>1, <2>2
  <2>3. CASE k # n
    <3>1. k \in 0 .. n - 1
      BY <2>3
    <3> QED
      BY <1>2, <2>1, <3>1 DEF Follows
  <2> QED
    BY <2>2, <2>3
<1>4. Follows(s, p, g, n + 1)
  BY <1>3 DEF Follows
<1>5. Positioned(wider, g, n + 1)
  <2> SUFFICES ASSUME NEW k \in 0 .. n PROVE wider[k + 1] = g[k].position
    BY DEF Positioned
  <2>1. CASE k = n
    BY <1>2, <2>1 DEF step
  <2>2. CASE k # n
    <3>1. k \in 0 .. n - 1 /\ k + 1 \in 1 .. n
      BY <2>2
    <3> QED
      BY <1>2, <3>1 DEF Positioned
  <2> QED
    BY <2>1, <2>2
<1> QED
  BY <1>2, <1>4, <1>5 DEF step

\* What the engine has the object do is the step from what it remembers.
LEMMA StepIsTaken ==
  ASSUME NEW s, NEW p, NEW now \in Nat, NEW before, NEW m, NEW d, NEW mean, NEW after,
         now > 0 => /\ s.kind # "reader" => m = before.memory
                    /\ s.kind = "desk" => d = before.desk,
         mean = Held(p, now, m), after = DeskAfter(p, now, d, mean)
  PROVE  /\ s.kind = "mean_reversion" =>
              Step(s, p, now, before) = [memory |-> mean, desk |-> Blank, position |-> mean]
         /\ s.kind = "desk" =>
              Step(s, p, now, before)
                = [memory |-> mean, desk |-> after, position |-> Last(after.records).position]
<1>1. s.kind # "reader" => Held(p, now, before.memory) = mean
  <2>1. CASE now = 0
    BY <2>1, Zenon DEF Held, Reset
  <2>2. CASE now # 0
    BY <2>2
  <2> QED
    BY <2>1, <2>2
<1>2. s.kind = "desk" => DeskAfter(p, now, before.desk, mean) = after
  <2>1. CASE now = 0
    BY <2>1, Zenon DEF DeskAfter, ResetDesk
  <2>2. CASE now # 0
    BY <2>2
  <2> QED
    BY <2>1, <2>2
<1> QED
  BY <1>1, <1>2 DEF Step

\* An account of n periods and one more.
LEMMA AccountExtends ==
  ASSUME NEW s, NEW p, NEW path, NEW rets, NEW longer, NEW n \in Nat, NEW trades, NEW more,
         Accounted(s, p, path, rets, n), Counted(s, path, n, trades),
         \A i \in 1 .. n : longer[i] = rets[i],
         longer[n + 1].gain = Prior(path, n + 1) * MarketMove(p, n),
         s.kind # "desk" => longer[n + 1].cost = CostRate * Distance(path[n + 1], Prior(path, n + 1)),
         s.kind # "desk" => more = trades + (IF path[n + 1] # Prior(path, n + 1) THEN 1 ELSE 0)
  PROVE  Accounted(s, p, path, longer, n + 1) /\ Counted(s, path, n + 1, more)
<1>1. ASSUME NEW i \in 1 .. n + 1
      PROVE  /\ longer[i].gain = Prior(path, i) * MarketMove(p, i - 1)
             /\ s.kind # "desk" => longer[i].cost = CostRate * Distance(path[i], Prior(path, i))
  <2>1. CASE i = n + 1
    <3>1. i - 1 = n
      BY <2>1
    <3> QED
      BY <2>1, <3>1
  <2>2. CASE i # n + 1
    <3>1. i \in 1 .. n
      BY <2>2
    <3> QED
      BY <3>1 DEF Accounted
  <2> QED
    BY <2>1, <2>2
<1>2. Accounted(s, p, path, longer, n + 1)
  BY <1>1 DEF Accounted
<1>3. ASSUME s.kind # "desk"
      PROVE  more = Cardinality({i \in 1 .. n + 1 : path[i] # Prior(path, i)})
  <2> DEFINE Changes(k) == {i \in 1 .. k : path[i] # Prior(path, i)}
  <2>1. trades = Cardinality(Changes(n))
    BY <1>3 DEF Counted
  <2>2. IsFiniteSet(Changes(n)) /\ Cardinality(Changes(n)) \in Nat /\ n + 1 \notin Changes(n)
    <3>1. IsFiniteSet(1 .. n) /\ Changes(n) \subseteq 1 .. n
      <4>1. 1 \in Int /\ n \in Int
        OBVIOUS
      <4> QED
        BY <4>1, FS_Interval
    <3>2. IsFiniteSet(Changes(n))
      BY <3>1, FS_Subset
    <3> QED
      BY <3>1, <3>2, FS_CardinalityType
  <2>3. CASE path[n + 1] # Prior(path, n + 1)
    <3>1. Changes(n + 1) = Changes(n) \union {n + 1}
      BY <2>3
    <3> HIDE DEF Changes
    <3>2. Cardinality(Changes(n + 1)) = Cardinality(Changes(n)) + 1
      BY <2>2, <3>1, FS_AddElement
    <3> QED
      BY <1>3, <2>1, <2>3, <3>2 DEF Changes
  <2>4. CASE path[n + 1] = Prior(path, n + 1)
    <3>1. Changes(n + 1) = Changes(n)
      BY <2>4
    <3> HIDE DEF Changes
    <3>2. more = Cardinality(Changes(n + 1))
      BY <1>3, <2>1, <2>2, <2>4, <3>1
    <3> QED
      BY <3>2 DEF Changes
  <2> QED
    BY <2>3, <2>4
<1> QED
  BY <1>2, <1>3 DEF Counted

\* The empty history and the empty account.
LEMMA NothingYet ==
  ASSUME NEW s, NEW p, NEW path, NEW rets
  PROVE  /\ \A h : Follows(s, p, h, 0) /\ Positioned(path, h, 0) /\ Remembered(s, h, 0)
         /\ Ternary(s, path, 0) /\ Accounted(s, p, path, rets, 0) /\ Counted(s, path, 0, 0)
         /\ Prior(path, 1) = 0
<1>1. 0 .. 0 - 1 = {} /\ 1 .. 0 = {}
  OBVIOUS
<1>2. {i \in 1 .. 0 : path[i] # Prior(path, i)} = {}
  BY <1>1
<1>3. Counted(s, path, 0, 0)
  BY <1>2, FS_EmptySet DEF Counted
<1> QED
  BY <1>1, <1>3 DEF Follows, Positioned, Remembered, Ternary, Accounted, Prior

\* The instants there are and the one past the last of them.
LEMMA InstantInSeries ==
  ASSUME Types, phase # "idle"
  PROVE  /\ InSeries => t + 1 <= Size(prices)
         /\ ~InSeries => t = Size(prices)
         /\ t \in Nat /\ Size(prices) \in Nat
<1>1. Size(prices) \in Nat /\ DOMAIN prices = 0 .. Size(prices) - 1 /\ t \in Nat /\ t <= Size(prices)
  BY SeriesSize DEF Types
<1> QED
  BY <1>1 DEF InSeries
-------------------------------------------------------------------------------
(***************************************************************************)
(* The invariant is inductive.                                             *)
(***************************************************************************)
\* A decision of any strategy.
LEMMA DecisionKept ==
  ASSUME IInv, phase = "signal", InSeries, UNCHANGED <<phase, loop, ledgers>>,
         t' = t + 1, memory' \in Positions,
         NEW x, positions' = Append(positions, x),
         strategy.kind # "desk" => x \in Positions,
         strategy.kind = "reader" => Readable(prices, t, strategy.asked),
         \A h : Remembered(strategy, h, t) =>
           LET step == Step(strategy, prices, t, IF t = 0 THEN New ELSE h[t - 1])
           IN  /\ x = step.position
               /\ strategy.kind # "reader" => memory' = step.memory
               /\ strategy.kind = "desk" => desk' = step.desk
  PROVE  IInv'
<1>1. t + 1 <= Size(prices) /\ t \in Nat
  BY InstantInSeries DEF IInv
<1>2. Types'
  BY <1>1 DEF IInv, Types, loop
<1>3. PICK h : /\ Follows(strategy, prices, h, t) /\ Positioned(positions, h, t)
               /\ Remembered(strategy, h, t)
  BY DEF IInv, DecidedFromPrices
<1>4. IsSequence(positions) /\ Len(positions) = t /\ Ternary(strategy, positions, t)
  BY DEF IInv, DecidedFromPrices
<1>5. /\ IsSequence(positions') /\ Len(positions') = t + 1
      /\ \A i \in 1 .. t : positions'[i] = positions[i]
      /\ positions'[t + 1] = x
  BY <1>4, AppendTo
<1> DEFINE before == IF t = 0 THEN New ELSE h[t - 1]
           step == Step(strategy, prices, t, before)
<1>6. /\ x = step.position
      /\ strategy.kind # "reader" => memory' = step.memory
      /\ strategy.kind = "desk" => desk' = step.desk
  BY <1>3
<1>7. t > 0 => before = h[t - 1]
  BY <1>1
<1> HIDE DEF before
<1>8. PICK g : /\ Follows(strategy, prices, g, t + 1) /\ Positioned(positions', g, t + 1)
               /\ g[t] = step
  <2> DEFINE wider == positions'
  <2>1. /\ \A i \in 1 .. t : wider[i] = positions[i]
        /\ wider[t + 1] = Step(strategy, prices, t, before).position
        /\ t > 0 => before = h[t - 1]
    BY <1>5, <1>6, <1>7
  <2> HIDE DEF wider
  <2>2. \E g : /\ Follows(strategy, prices, g, t + 1) /\ Positioned(wider, g, t + 1)
               /\ g[t] = Step(strategy, prices, t, before)
    BY <1>1, <1>3, <2>1, StepExtends
  <2> QED
    BY <2>2 DEF wider
<1> HIDE DEF step
<1>9. Remembered(strategy, g, t)'
  <2>1. strategy' = strategy /\ t' - 1 = t
    BY <1>1 DEF loop
  <2> QED
    BY <1>6, <1>8, <2>1 DEF Remembered
<1>10. Ternary(strategy, positions, t)'
  <2> SUFFICES ASSUME strategy.kind # "desk", NEW i \in 1 .. t + 1 PROVE positions'[i] \in Positions
    BY DEF Ternary, loop
  <2>1. CASE i = t + 1
    BY <1>5, <2>1
  <2>2. CASE i # t + 1
    <3>1. i \in 1 .. t
      BY <1>1, <2>2
    <3> QED
      BY <1>4, <1>5, <3>1 DEF Ternary
  <2> QED
    BY <2>1, <2>2
<1>11. DecidedFromPrices'
  BY <1>5, <1>8, <1>9, <1>10 DEF DecidedFromPrices, loop
<1> QED
  BY <1>2, <1>11 DEF IInv, AccumulatedFromPath, LedgersStand

LEMMA MeanReversionKept ==
  ASSUME IInv, MeanReversion, desk' = desk
  PROVE  IInv'
<1>1. memory \in Positions /\ t \in Nat
  BY DEF IInv, Types
<1>2. memory' \in Positions
  BY <1>1, HeldIsPosition DEF MeanReversion
<1>3. ASSUME NEW h, Remembered(strategy, h, t)
      PROVE  LET step == Step(strategy, prices, t, IF t = 0 THEN New ELSE h[t - 1])
             IN  memory' = step.position /\ memory' = step.memory
  <2> DEFINE before == IF t = 0 THEN New ELSE h[t - 1]
             mean == memory'
             after == DeskAfter(prices, t, desk, mean)
  <2>1. /\ mean = Held(prices, t, memory) /\ strategy.kind = "mean_reversion"
        /\ t > 0 => /\ strategy.kind # "reader" => memory = before.memory
                    /\ strategy.kind = "desk" => desk = before.desk
    BY <1>1, <1>3 DEF Remembered, MeanReversion
  <2>2. after = DeskAfter(prices, t, desk, mean)
    OBVIOUS
  <2> HIDE DEF before, mean, after
  <2>3. Step(strategy, prices, t, before) = [memory |-> mean, desk |-> Blank, position |-> mean]
    BY <1>1, <2>1, <2>2, StepIsTaken
  <2> QED
    BY <2>3 DEF before, mean
<1> QED
  BY <1>2, <1>3, DecisionKept DEF MeanReversion

LEMMA DeskSignalKept ==
  ASSUME IInv, DeskSignal
  PROVE  IInv'
<1>1. memory \in Positions /\ t \in Nat
  BY DEF IInv, Types
<1>2. memory' \in Positions
  BY <1>1, HeldIsPosition DEF DeskSignal
<1> DEFINE x == Last(desk'.records).position
<1>3. ASSUME NEW h, Remembered(strategy, h, t)
      PROVE  LET step == Step(strategy, prices, t, IF t = 0 THEN New ELSE h[t - 1])
             IN  x = step.position /\ memory' = step.memory /\ desk' = step.desk
  <2> DEFINE before == IF t = 0 THEN New ELSE h[t - 1]
             mean == memory'
             after == desk'
  <2>1. /\ mean = Held(prices, t, memory) /\ after = DeskAfter(prices, t, desk, mean)
        /\ strategy.kind = "desk" /\ x = Last(after.records).position
        /\ t > 0 => /\ strategy.kind # "reader" => memory = before.memory
                    /\ strategy.kind = "desk" => desk = before.desk
    BY <1>1, <1>3 DEF Remembered, DeskSignal
  <2> HIDE DEF before, mean, after, x
  <2>2. Step(strategy, prices, t, before)
          = [memory |-> mean, desk |-> after, position |-> Last(after.records).position]
    BY <1>1, <2>1, StepIsTaken
  <2> QED
    BY <2>1, <2>2 DEF before, mean, after
<1>4. positions' = Append(positions, x)
  BY DEF DeskSignal
<1> HIDE DEF x
<1> QED
  BY <1>2, <1>3, <1>4, DecisionKept DEF DeskSignal

LEMMA ReadKept ==
  ASSUME IInv, Read, desk' = desk
  PROVE  IInv'
<1>1. memory' \in Positions
  BY DEF IInv, Types, Read
<1> DEFINE x == ReaderPosition(prices, t, strategy.asked)
<1>2. positions' = Append(positions, x)
  BY Zenon DEF Read, ReaderPosition
<1>3. x \in Positions
  <2>1. 1 \in Positions /\ -1 \in Positions /\ 0 \in Positions
    BY DEF Positions
  <2> QED
    BY <2>1, Zenon DEF ReaderPosition
<1>4. \A before : x = Step(strategy, prices, t, before).position
  BY DEF Read, Step
<1> HIDE DEF x
<1> QED
  BY <1>1, <1>2, <1>3, <1>4, DecisionKept DEF Read

LEMMA StartKept ==
  ASSUME IInv, Start
  PROVE  IInv'
<1>1. Types'
  BY SeriesSize DEF IInv, Types, Start
<1>2. DecidedFromPrices'
  <2>1. /\ phase' = "signal" /\ t' = 0 /\ positions' = << >>
    BY DEF Start
  <2>2. \A h : Follows(strategy', prices', h, 0) /\ Positioned(positions', h, 0)
    BY NothingYet
  <2>3. \A h : Remembered(strategy, h, t)'
    BY <2>1 DEF Remembered
  <2>4. Ternary(strategy', positions', 0)
    BY NothingYet
  <2> QED
    BY <2>1, <2>2, <2>3, <2>4, EmptySequence DEF DecidedFromPrices
<1> QED
  BY <1>1, <1>2 DEF IInv, AccumulatedFromPath, LedgersStand, Start

LEMMA StopKept ==
  ASSUME IInv, phase' = "idle", UNCHANGED <<t, loop, account, memory, positions>>, LedgersStand'
  PROVE  IInv'
BY DEF IInv, Types, DecidedFromPrices, AccumulatedFromPath, loop

LEMMA PhaseTwoKept ==
  ASSUME IInv, PhaseTwo
  PROVE  IInv'
<1>1. t = Size(prices) /\ Size(prices) \in Nat
  BY InstantInSeries DEF IInv, PhaseTwo
<1>2. Types'
  BY <1>1 DEF IInv, Types, PhaseTwo, loop
<1>3. DecidedFromPrices'
  BY <1>1 DEF IInv, DecidedFromPrices, PhaseTwo, loop
<1>4. AccumulatedFromPath'
  BY NothingYet, EmptySequence DEF AccumulatedFromPath, PhaseTwo, loop
<1> QED
  BY <1>2, <1>3, <1>4 DEF IInv, LedgersStand, PhaseTwo

LEMMA AccumulateKept ==
  ASSUME IInv, Accumulate
  PROVE  IInv'
<1>1. t + 1 <= Size(prices) /\ t \in Nat
  BY InstantInSeries DEF IInv, Accumulate
<1>2. Types'
  BY <1>1 DEF IInv, Types, Accumulate, loop
<1>3. DecidedFromPrices'
  BY DEF IInv, DecidedFromPrices, Accumulate, loop
<1>4. /\ IsSequence(returns) /\ Len(returns) = t /\ prevPos = Prior(positions, t + 1)
      /\ Accounted(strategy, prices, positions, returns, t)
      /\ Counted(strategy, positions, t, nTrades)
      /\ Ternary(strategy, positions, Size(prices))
  BY DEF IInv, DecidedFromPrices, AccumulatedFromPath, Accumulate
<1> DEFINE entry == [gain |-> Earns(t), base |-> Base(prices, t), cost |-> EngineRate * Traded(t)]
<1>5. /\ IsSequence(returns') /\ Len(returns') = t + 1
      /\ \A i \in 1 .. t : returns'[i] = returns[i]
      /\ returns'[t + 1] = entry
  BY <1>4, AppendTo DEF Accumulate
<1>6. /\ entry.gain = Prior(positions, t + 1) * MarketMove(prices, t)
      /\ strategy.kind # "desk" =>
           entry.cost = CostRate * Distance(positions[t + 1], Prior(positions, t + 1))
  BY <1>4 DEF Earns, EngineRate, Traded
<1> HIDE DEF entry
<1>7. strategy.kind # "desk" =>
        nTrades' = nTrades + (IF positions[t + 1] # Prior(positions, t + 1) THEN 1 ELSE 0)
  <2> SUFFICES ASSUME strategy.kind # "desk"
               PROVE  Traded(t) # 0 <=> positions[t + 1] # Prior(positions, t + 1)
    BY DEF Accumulate
  <2>1. \A i \in 1 .. Size(prices) : positions[i] \in Positions
    BY <1>4 DEF Ternary
  <2>2. positions[t + 1] \in Int /\ Prior(positions, t + 1) \in Int
    <3>1. t + 1 \in 1 .. Size(prices) /\ (t # 0 => t \in 1 .. Size(prices) /\ (t + 1) - 1 = t)
      BY <1>1, InstantInSeries DEF IInv, Accumulate
    <3> QED
      BY <1>1, <2>1, <3>1 DEF Prior, Positions
  <2> QED
    BY <1>4, <2>2 DEF Traded, Distance
<1>8. /\ Accounted(strategy, prices, positions, returns', t + 1)
      /\ Counted(strategy, positions, t + 1, nTrades')
  <2> DEFINE longer == returns'
             more == nTrades'
  <2>1. /\ \A i \in 1 .. t : longer[i] = returns[i]
        /\ longer[t + 1].gain = Prior(positions, t + 1) * MarketMove(prices, t)
        /\ strategy.kind # "desk" =>
             longer[t + 1].cost = CostRate * Distance(positions[t + 1], Prior(positions, t + 1))
        /\ strategy.kind # "desk" =>
             more = nTrades + (IF positions[t + 1] # Prior(positions, t + 1) THEN 1 ELSE 0)
    BY <1>5, <1>6, <1>7
  <2> HIDE DEF longer, more
  <2>2. /\ Accounted(strategy, prices, positions, longer, t + 1)
        /\ Counted(strategy, positions, t + 1, more)
    BY <1>1, <1>4, <2>1, AccountExtends
  <2> QED
    BY <2>2 DEF longer, more
<1>9. prevPos' = Prior(positions, t + 2)
  <2>1. t + 2 # 1 /\ (t + 2) - 1 = t + 1
    BY <1>1
  <2> QED
    BY <2>1 DEF Accumulate, PrevAfter, Prior
<1>10. AccumulatedFromPath'
  <2>1. t' + 1 = t + 2 /\ t' = t + 1
    BY <1>1 DEF Accumulate
  <2> QED
    BY <1>5, <1>8, <1>9, <2>1 DEF AccumulatedFromPath, Accumulate, loop
<1> QED
  BY <1>2, <1>3, <1>10 DEF IInv, LedgersStand, Accumulate

LEMMA FinishKept ==
  ASSUME IInv, Finish
  PROVE  IInv'
<1>1. t = Size(prices) /\ prices \in Series /\ strategy \in Strategies
  BY InstantInSeries DEF IInv, Types, Finish
<1> DEFINE a == [strategy |-> strategy, prices |-> prices, positions |-> positions,
                 returns |-> returns, nTrades |-> nTrades]
<1>2. Ledger(a)
  <2>1. /\ a.strategy = strategy /\ a.prices = prices /\ a.positions = positions
        /\ a.returns = returns /\ a.nTrades = nTrades
    OBVIOUS
  <2> HIDE DEF a
  <2>2. DOMAIN positions = 1 .. Size(prices) /\ DOMAIN returns = 1 .. Size(prices)
    BY <1>1, SequenceDomain DEF IInv, DecidedFromPrices, AccumulatedFromPath, Finish
  <2>3. /\ \E h : Follows(strategy, prices, h, Size(prices)) /\ Positioned(positions, h, Size(prices))
        /\ Ternary(strategy, positions, Size(prices))
    BY DEF IInv, DecidedFromPrices, Finish
  <2>4. /\ Accounted(strategy, prices, positions, returns, Size(prices))
        /\ Counted(strategy, positions, Size(prices), nTrades)
    BY <1>1 DEF IInv, AccumulatedFromPath, Finish
  <2> QED
    BY <1>1, <2>1, <2>2, <2>3, <2>4, Zenon DEF Ledger
<1>3. LedgersStand'
  <2>1. ledgers' = ledgers \union {a}
    BY DEF Finish
  <2> HIDE DEF a
  <2>2. \A b \in ledgers' : Ledger(b)
    BY <1>2, <2>1 DEF IInv, LedgersStand
  <2> QED
    BY <2>2 DEF LedgersStand
<1> QED
  BY <1>3, StopKept DEF Finish

\* What the strategies decide is what the prices decide, and what the accounts
\* say is what the positions did, whatever runs and errors went before.
THEOREM BacktestInvariant == DeskSpec => []IInv
<1>1. DeskInit => IInv
  <2> SUFFICES ASSUME DeskInit PROVE IInv
    OBVIOUS
  <2>1. Types
    BY DEF DeskInit, Init, Types, Strategies, Positions
  <2> QED
    BY <2>1 DEF IInv, DeskInit, Init, DecidedFromPrices, AccumulatedFromPath, LedgersStand
<1>2. IInv /\ [DeskNext]_deskVars => IInv'
  <2> SUFFICES ASSUME IInv, [DeskNext]_deskVars PROVE IInv'
    OBVIOUS
  <2>1. CASE DeskSignal
    BY <2>1, DeskSignalKept
  <2>2. CASE Finish
    BY <2>2, FinishKept
  <2>3. CASE Start
    BY <2>3, StartKept
  <2>4. CASE MeanReversion /\ desk' = desk
    BY <2>4, MeanReversionKept
  <2>5. CASE Read /\ desk' = desk
    BY <2>5, ReadKept
  <2>6. CASE ReadRaises \/ Fail
    <3>1. LedgersStand'
      BY <2>6 DEF IInv, LedgersStand, ReadRaises, Fail
    <3> QED
      BY <2>6, <3>1, StopKept DEF ReadRaises, Fail
  <2>7. CASE PhaseTwo
    BY <2>7, PhaseTwoKept
  <2>8. CASE Accumulate
    BY <2>8, AccumulateKept
  <2>9. CASE UNCHANGED deskVars
    BY <2>9 DEF IInv, Types, DecidedFromPrices, AccumulatedFromPath, LedgersStand,
                Remembered, deskVars, vars, loop, account
  <2> QED
    BY <2>1, <2>2, <2>3, <2>4, <2>5, <2>6, <2>7, <2>8, <2>9 DEF DeskNext, DeskFinish
<1> QED
  BY <1>1, <1>2, PTL DEF DeskSpec
-------------------------------------------------------------------------------
(***************************************************************************)
(* Decisions depend on the past only.                                      *)
(***************************************************************************)
LEMMA AgreeBefore ==
  ASSUME NEW p, NEW q, NEW n \in Nat, Agree(p, q, n), NEW k \in 0 .. n
  PROVE  Agree(p, q, k)
BY DEF Agree

\* The moments of the window are those of the prices in it.
LEMMA SameWindow ==
  ASSUME NEW p, NEW q, NEW k \in Nat, Agree(p, q, k), k + 1 >= Lookback
  PROVE  Spread(p, k) = Spread(q, k) /\ Deviation(p, k) = Deviation(q, k)
<1>1. \A i \in Recent(k) : p[i] = q[i]
  BY BacktestAssumption DEF Recent, Agree
<1>2. /\ [i \in Recent(k) |-> p[i]] = [i \in Recent(k) |-> q[i]]
      /\ [i \in Recent(k) |-> p[i] * p[i]] = [i \in Recent(k) |-> q[i] * q[i]]
  BY <1>1
<1>3. WindowSum(p, k) = WindowSum(q, k) /\ WindowSquares(p, k) = WindowSquares(q, k)
  BY <1>2, Zenon DEF WindowSum, WindowSquares
<1>4. p[k] = q[k]
  BY DEF Agree
<1> QED
  BY <1>3, <1>4 DEF Spread, Deviation

LEMMA SameHeld ==
  ASSUME NEW p, NEW q, NEW k \in Nat, Agree(p, q, k), NEW m
  PROVE  Held(p, k, m) = Held(q, k, m)
<1>1. CASE k + 1 >= Lookback
  <2>1. Spread(p, k) = Spread(q, k) /\ Deviation(p, k) = Deviation(q, k)
    BY <1>1, SameWindow
  <2>2. \A z : /\ Reaches(p, k, z) <=> Reaches(q, k, z)
               /\ AtMost(p, k, z) <=> AtMost(q, k, z)
    BY <2>1, Zenon DEF Reaches, AtMost, ScaledSquare
  <2>3. \A x : Decide(p, k, x) = Decide(q, k, x)
    BY <2>1, <2>2, Zenon DEF Decide
  <2>4. HasScore(p, k) <=> HasScore(q, k)
    BY <2>1, Zenon DEF HasScore
  <2> QED
    BY <2>3, <2>4, Zenon DEF Held
<1>2. CASE ~ (k + 1 >= Lookback)
  BY <1>2, Zenon DEF Held, HasScore
<1> QED
  BY <1>1, <1>2

LEMMA SameBasis ==
  ASSUME NEW p, NEW q, NEW k \in Nat, Agree(p, q, k)
  PROVE  FuturesBasis(p, k) = FuturesBasis(q, k)
<1>1. CASE k < BasisLookback
  BY <1>1, Zenon DEF FuturesBasis
<1>2. CASE ~ (k < BasisLookback)
  <2> DEFINE C == k - BasisLookback + 1 .. k
             Moves(r) == [j \in C |-> r[j] - r[j - 1]]
             Squares(r) == [j \in C |-> (r[j] - r[j - 1]) * (r[j] - r[j - 1])]
  <2>1. \A j \in C : p[j] = q[j] /\ p[j - 1] = q[j - 1]
    BY <1>2, DeskAssumption DEF Agree
  <2>2. Moves(p) = Moves(q) /\ Squares(p) = Squares(q)
    BY <2>1
  <2>3. p[k] - p[k - 1] = q[k] - q[k - 1]
    BY <1>2, DeskAssumption DEF Agree
  <2> DEFINE Score(move, sum, squares) ==
               IF k < BasisLookback \/ BasisLookback * squares = sum * sum THEN 0
               ELSE Signum(BasisLookback * move - sum)
                      * Max({level \in 0 .. Grain : Attains(move, sum, squares, BasisLookback, level)})
  <2>4. /\ FuturesBasis(p, k) = Score(p[k] - p[k - 1], SumFunction(Moves(p)), SumFunction(Squares(p)))
        /\ FuturesBasis(q, k) = Score(q[k] - q[k - 1], SumFunction(Moves(q)), SumFunction(Squares(q)))
    BY Zenon DEF FuturesBasis
  <2> HIDE DEF Moves, Squares, Score
  <2> QED
    BY <2>2, <2>3, <2>4
<1> QED
  BY <1>1, <1>2

LEMMA SameDesk ==
  ASSUME NEW p, NEW q, NEW k \in Nat, Agree(p, q, k), NEW d, NEW m
  PROVE  DeskAfter(p, k, d, m) = DeskAfter(q, k, d, m)
<1>1. p[k] = q[k] /\ (k # 0 => p[k - 1] = q[k - 1])
  BY DEF Agree
<1>2. MarketReturn(p, k) = MarketReturn(q, k)
  BY <1>1, Zenon DEF MarketReturn, MarketMove, Base
<1>3. \A kind : Signal(kind, p, k, m) = Signal(kind, q, k, m)
  BY SameBasis, Zenon DEF Signal
<1>4. Current(p, k, m) = Current(q, k, m)
  BY <1>3, Zenon DEF Current, PerSignal
<1> QED
  BY <1>2, <1>4, Zenon DEF DeskAfter

\* What a reader may read is not in the future.
LEMMA SameReading ==
  ASSUME NEW p, NEW q, NEW k \in Nat, Agree(p, q, k), NEW i \in Int, Readable(p, k, i)
  PROVE  ReaderPosition(p, k, i) = ReaderPosition(q, k, i)
<1>1. At(p, i) = At(q, i) /\ p[k] = q[k]
  BY DEF Agree, At, Readable
<1> QED
  BY <1>1, Zenon DEF ReaderPosition

LEMMA SameStep ==
  ASSUME NEW s \in Strategies, NEW p, NEW q, NEW k \in Nat, Agree(p, q, k), NEW before,
         s.kind = "reader" => Readable(p, k, s.asked)
  PROVE  Step(s, p, k, before) = Step(s, q, k, before)
<1>1. Held(p, k, before.memory) = Held(q, k, before.memory)
  BY SameHeld
<1>2. \A d, m : DeskAfter(p, k, d, m) = DeskAfter(q, k, d, m)
  BY SameDesk
<1>3. ASSUME s.kind # "mean_reversion", s.kind # "desk"
      PROVE  ReaderPosition(p, k, s.asked) = ReaderPosition(q, k, s.asked)
  <2>1. s.kind = "reader" /\ s.asked \in Int
    BY <1>3, BacktestAssumption DEF Strategies
  <2> QED
    BY <2>1, SameReading
<1> QED
  BY <1>1, <1>2, <1>3, Zenon DEF Step

\* Two histories of a strategy agree as long as the prices do.
LEMMA SameHistory ==
  ASSUME NEW s \in Strategies, NEW p, NEW q, NEW h, NEW g, NEW n \in Nat, NEW m \in Nat,
         Follows(s, p, h, n), Follows(s, q, g, m),
         NEW now \in Nat, now < n, now < m, Agree(p, q, now)
  PROVE  h[now] = g[now]
<1> DEFINE Differ == {k \in 0 .. now : h[k] # g[k]}
<1> SUFFICES ASSUME Differ # {} PROVE FALSE
  OBVIOUS
<1>1. Differ \in SUBSET Nat
  OBVIOUS
<1>2. PICK k \in Differ : \A j \in Differ : k <= j
  BY <1>1, LeastExists, Zenon
<1>3. k \in 0 .. now /\ k \in 0 .. n - 1 /\ k \in 0 .. m - 1 /\ k \in Nat
  OBVIOUS
<1> DEFINE x == IF k = 0 THEN New ELSE h[k - 1]
           y == IF k = 0 THEN New ELSE g[k - 1]
<1>4. x = y
  <2>1. CASE k = 0
    BY <2>1
  <2>2. CASE k # 0
    <3>1. k - 1 \in 0 .. now /\ ~ (k <= k - 1)
      BY <1>3, <2>2
    <3>2. k - 1 \notin Differ
      BY <1>2, <3>1
    <3> QED
      BY <2>2, <3>1, <3>2
  <2> QED
    BY <2>1, <2>2
<1>5. /\ h[k] = Step(s, p, k, x) /\ g[k] = Step(s, q, k, y)
      /\ s.kind = "reader" => Readable(p, k, s.asked)
  BY <1>3 DEF Follows
<1> HIDE DEF x, y
<1>6. Step(s, p, k, x) = Step(s, q, k, x)
  BY <1>3, <1>5, AgreeBefore, SameStep
<1>7. h[k] # g[k]
  BY <1>2
<1> QED
  BY <1>4, <1>5, <1>6, <1>7

\* What a strategy decides up to an instant is determined by the prices up to
\* that instant, neither by the rest of the series nor by the runs before.
THEOREM PointInTime == DeskSpec => []DecisionsAreCausal
<1>1. IInv => DecisionsAreCausal
  <2> SUFFICES ASSUME LedgersStand, NEW a \in ledgers, NEW b \in ledgers, a.strategy = b.strategy,
                      NEW now \in DOMAIN a.prices \intersect DOMAIN b.prices,
                      Agree(a.prices, b.prices, now)
               PROVE  a.positions[now + 1] = b.positions[now + 1]
    BY Zenon DEF IInv, DecisionsAreCausal
  <2>1. Ledger(a) /\ Ledger(b)
    BY DEF LedgersStand
  <2>2. /\ a.strategy \in Strategies
        /\ Size(a.prices) \in Nat /\ now \in 0 .. Size(a.prices) - 1
        /\ Size(b.prices) \in Nat /\ now \in 0 .. Size(b.prices) - 1
    BY <2>1, SeriesSize DEF Ledger
  <2>3. PICK h : Follows(a.strategy, a.prices, h, Size(a.prices)) /\ Positioned(a.positions, h, Size(a.prices))
    BY <2>1, Zenon DEF Ledger
  <2>4. PICK g : Follows(b.strategy, b.prices, g, Size(b.prices)) /\ Positioned(b.positions, g, Size(b.prices))
    BY <2>1, Zenon DEF Ledger
  <2>5. h[now] = g[now]
    BY <2>2, <2>3, <2>4, SameHistory
  <2> QED
    BY <2>2, <2>3, <2>4, <2>5 DEF Positioned
<1> QED
  BY <1>1, BacktestInvariant, PTL

\* A position earns the move after its decision, never the one before.
THEOREM NextPeriodEarns == DeskSpec => []DecisionsEarnLater
<1>1. IInv => DecisionsEarnLater
  <2> SUFFICES ASSUME LedgersStand, NEW a \in ledgers, NEW b \in ledgers, a.prices = b.prices,
                      NEW now \in DOMAIN a.prices, now > 0 => a.positions[now] = b.positions[now]
               PROVE  a.returns[now + 1].gain = b.returns[now + 1].gain
    BY Zenon DEF IInv, DecisionsEarnLater
  <2>1. Ledger(a) /\ Ledger(b)
    BY DEF LedgersStand
  <2>2. now \in Nat /\ now + 1 \in 1 .. Size(a.prices) /\ Size(a.prices) = Size(b.prices)
    BY <2>1, SeriesSize DEF Ledger
  <2>3. /\ a.returns[now + 1].gain = Prior(a.positions, now + 1) * MarketMove(a.prices, (now + 1) - 1)
        /\ b.returns[now + 1].gain = Prior(b.positions, now + 1) * MarketMove(b.prices, (now + 1) - 1)
    BY <2>1, <2>2 DEF Ledger, Accounted
  <2>4. Prior(a.positions, now + 1) = Prior(b.positions, now + 1)
    BY <2>2 DEF Prior
  <2> QED
    BY <2>3, <2>4
<1> QED
  BY <1>1, BacktestInvariant, PTL
-------------------------------------------------------------------------------
(***************************************************************************)
(* Positions come from an entry, costs from the positions.                 *)
(***************************************************************************)
\* The deviation of a price from the mean of its window is a number.
LEMMA DeviationIsInt ==
  ASSUME NEW p \in Series, NEW k \in DOMAIN p, k + 1 >= Lookback
  PROVE  Deviation(p, k) \in Int
<1>1. \A i \in DOMAIN p : p[i] \in Int
  <2>1. \A x \in Prices : x \in Int
    BY BacktestAssumption
  <2> QED
    BY <2>1, SeriesSize
<1>2. k \in Nat /\ Recent(k) \subseteq DOMAIN p
  BY SeriesSize, BacktestAssumption DEF Recent
<1>3. IsFiniteSet(Recent(k))
  <2>1. k \in Int /\ k - Lookback + 1 \in Int
    BY <1>2, BacktestAssumption
  <2> QED
    BY <2>1, FS_Interval DEF Recent
<1> DEFINE f == [i \in Recent(k) |-> p[i]]
<1>4. DOMAIN f = Recent(k) /\ \A i \in DOMAIN f : f[i] \in Int
  BY <1>1, <1>2
<1> HIDE DEF f
<1>5. SumFunction(f) \in Int
  BY <1>3, <1>4, SumIsInt
<1>6. WindowSum(p, k) \in Int
  BY <1>5, Zenon DEF WindowSum, f
<1> QED
  BY <1>1, <1>6, BacktestAssumption DEF Deviation

\* An open position closes inside the dead band and stays as it is outside.
LEMMA OpenPosition ==
  ASSUME NEW p, NEW k \in Nat, k # 0, NEW m, m # 0, Held(p, k, m) # 0
  PROVE  Held(p, k, m) = m /\ (HasScore(p, k) => ~ AtMost(p, k, ZExit))
<1>1. Reset(k, m) = m
  BY DEF Reset
<1>2. CASE HasScore(p, k)
  <2>1. Held(p, k, m) = Decide(p, k, m) /\ Decide(p, k, m) # 0
    BY <1>1, <1>2 DEF Held
  <2> QED
    BY <2>1, Zenon DEF Decide
<1>3. CASE ~ HasScore(p, k)
  BY <1>1, <1>3 DEF Held
<1> QED
  BY <1>2, <1>3

\* A position is opened by a deviation beyond the entry threshold, against it.
LEMMA FlatPosition ==
  ASSUME NEW p \in Series, NEW k \in DOMAIN p, NEW m, k # 0 => m = 0, Held(p, k, m) # 0
  PROVE  /\ HasScore(p, k) /\ Reaches(p, k, ZEntry)
         /\ Held(p, k, m) * Deviation(p, k) < 0
<1>1. Reset(k, m) = 0
  BY DEF Reset
<1>2. HasScore(p, k) /\ Held(p, k, m) = Decide(p, k, 0) /\ Decide(p, k, 0) # 0
  BY <1>1, Zenon DEF Held
<1>3. \/ Reaches(p, k, ZEntry) /\ Deviation(p, k) > 0 /\ Decide(p, k, 0) = -1
      \/ Reaches(p, k, ZEntry) /\ Deviation(p, k) < 0 /\ Decide(p, k, 0) = 1
  BY <1>2, Zenon DEF Decide
<1>4. Deviation(p, k) \in Int
  BY <1>2, DeviationIsInt DEF HasScore
<1> QED
  BY <1>2, <1>3, <1>4

\* The path of a mean reversion, from one position to the next.
LEMMA NextHeld ==
  ASSUME NEW s, s.kind = "mean_reversion", NEW p, NEW path, NEW h, NEW n \in Nat,
         Follows(s, p, h, n), Positioned(path, h, n), NEW i \in 1 .. n
  PROVE  path[i] = Held(p, i - 1, Prior(path, i))
<1>1. /\ i - 1 \in 0 .. n - 1 /\ (i - 1) + 1 = i
      /\ i # 1 => i - 2 \in 0 .. n - 1 /\ (i - 1) - 1 = i - 2 /\ (i - 2) + 1 = i - 1
      /\ i - 1 = 0 <=> i = 1
  OBVIOUS
<1> DEFINE before == IF i - 1 = 0 THEN New ELSE h[(i - 1) - 1]
<1>2. h[i - 1] = Step(s, p, i - 1, before)
  BY <1>1 DEF Follows
<1>3. path[i] = h[i - 1].position
  BY <1>1 DEF Positioned
<1>4. before.memory = Prior(path, i)
  <2>1. CASE i = 1
    BY <1>1, <2>1 DEF New, Prior
  <2>2. CASE i # 1
    <3>1. before = h[i - 2]
      BY <1>1, <2>2
    <3> DEFINE earlier == IF i - 2 = 0 THEN New ELSE h[(i - 2) - 1]
    <3>2. h[i - 2] = Step(s, p, i - 2, earlier)
      BY <1>1, <2>2 DEF Follows
    <3> HIDE DEF earlier
    <3>3. h[i - 2].memory = h[i - 2].position
      BY <3>2 DEF Step
    <3>4. path[i - 1] = h[i - 2].position
      BY <1>1, <2>2 DEF Positioned
    <3> QED
      BY <2>2, <3>1, <3>3, <3>4 DEF Prior
  <2> QED
    BY <2>1, <2>2
<1> HIDE DEF before
<1>5. Step(s, p, i - 1, before).position = Held(p, i - 1, before.memory)
  BY DEF Step
<1> QED
  BY <1>2, <1>3, <1>4, <1>5

\* A position that is held was opened beyond the entry threshold, and no score
\* since then was inside the exit threshold.
THEOREM PositionsHaveEntries == DeskSpec => []HeldSinceEntry
<1>1. IInv => HeldSinceEntry
  <2> SUFFICES ASSUME LedgersStand, NEW a \in ledgers, a.strategy.kind = "mean_reversion",
                      NEW i \in DOMAIN a.positions, a.positions[i] # 0
               PROVE  \E entry \in 1 .. i :
                        /\ HasScore(a.prices, entry - 1)
                        /\ Reaches(a.prices, entry - 1, ZEntry)
                        /\ a.positions[i] * Deviation(a.prices, entry - 1) < 0
                        /\ \A k \in entry + 1 .. i :
                             HasScore(a.prices, k - 1) => ~AtMost(a.prices, k - 1, ZExit)
    BY Zenon DEF IInv, HeldSinceEntry
  <2> DEFINE p == a.prices
             path == a.positions
             n == Size(p)
  <2>1. Ledger(a)
    BY DEF LedgersStand
  <2>2. p \in Series /\ n \in Nat /\ DOMAIN p = 0 .. n - 1 /\ DOMAIN path = 1 .. n
    BY <2>1, SeriesSize DEF Ledger
  <2>3. PICK h : Follows(a.strategy, p, h, n) /\ Positioned(path, h, n)
    BY <2>1, Zenon DEF Ledger
  <2> HIDE DEF p, path, n
  <2>4. \A k \in 1 .. n : path[k] = Held(p, k - 1, Prior(path, k))
    BY <2>2, <2>3, NextHeld
  <2>5. i \in 1 .. n /\ path[i] # 0
    BY <2>2 DEF path
  <2> DEFINE Since == {e \in 1 .. i : \A k \in e .. i : path[k] = path[i]}
  <2>6. Since \in SUBSET Nat /\ i \in Since
    <3>1. i \in 1 .. i /\ \A k \in i .. i : k = i
      BY <2>5
    <3> QED
      BY <2>5, <3>1
  <2>7. PICK e \in Since : \A x \in Since : e <= x
    BY <2>6, LeastExists, Zenon
  <2>8. /\ e \in 1 .. i /\ i \in Nat /\ e \in Nat /\ e <= i /\ i <= n
        /\ \A k \in e .. i : path[k] = path[i]
    <3>1. i \in Nat /\ i <= n
      BY <2>2, <2>5
    <3> QED
      BY <2>7, <3>1
  <2>9. path[e] = path[i] /\ e \in 1 .. n
    BY <2>2, <2>8
  <2>10. Prior(path, e) = 0
    <3> SUFFICES ASSUME e # 1, path[e - 1] # 0 PROVE FALSE
      BY DEF Prior
    <3>1. /\ e - 1 \in 1 .. i /\ e - 1 # 0 /\ e - 1 \in Nat /\ ~ (e <= e - 1)
          /\ \A k \in e - 1 .. i : k = e - 1 \/ k \in e .. i
      BY <2>8
    <3>2. Held(p, e - 1, path[e - 1]) # 0 /\ path[e] = Held(p, e - 1, path[e - 1])
      BY <2>4, <2>5, <2>9 DEF Prior
    <3>3. path[e - 1] = path[i]
      BY <2>9, <3>1, <3>2, OpenPosition
    <3>4. e - 1 \in Since
      BY <2>8, <3>1, <3>3
    <3> HIDE DEF Since
    <3> QED
      BY <2>7, <3>1, <3>4
  <2> HIDE DEF Since
  <2>11. /\ HasScore(p, e - 1) /\ Reaches(p, e - 1, ZEntry)
         /\ path[e] * Deviation(p, e - 1) < 0
    <3>1. /\ e - 1 \in DOMAIN p /\ path[e] = Held(p, e - 1, 0) /\ path[e] # 0
      BY <2>2, <2>4, <2>5, <2>8, <2>9, <2>10
    <3> QED
      BY <2>2, <3>1, FlatPosition
  <2>12. ASSUME NEW k \in e + 1 .. i, HasScore(p, k - 1)
         PROVE  ~ AtMost(p, k - 1, ZExit)
    <3>1. /\ k - 1 \in Nat /\ k - 1 # 0 /\ k \in 1 .. n /\ k # 1
          /\ k \in e .. i /\ k - 1 \in e .. i
      BY <2>2, <2>8
    <3>2. path[k] # 0 /\ path[k - 1] # 0 /\ path[k] = Held(p, k - 1, path[k - 1])
      BY <2>4, <2>5, <2>8, <3>1 DEF Prior
    <3> QED
      BY <2>12, <3>1, <3>2, OpenPosition
  <2> QED
    BY <2>8, <2>9, <2>11, <2>12 DEF p, path
<1> QED
  BY <1>1, BacktestInvariant, PTL

\* What is charged follows the positions, trade by trade.
THEOREM CostsAreOfTrades == DeskSpec => []CostsFollowPositions
<1>1. IInv => CostsFollowPositions
  <2> SUFFICES ASSUME LedgersStand, NEW a \in ledgers, a.strategy.kind # "desk"
               PROVE  /\ SumFunction([i \in DOMAIN a.returns |-> a.returns[i].cost])
                           = CostRate * SumFunction([i \in DOMAIN a.positions |->
                                                       Distance(a.positions[i], Prior(a.positions, i))])
                      /\ a.nTrades = Cardinality({i \in DOMAIN a.positions :
                                                    a.positions[i] # Prior(a.positions, i)})
    BY Zenon DEF IInv, CostsFollowPositions, Prior
  <2> DEFINE n == Size(a.prices)
             path == a.positions
             f == [i \in 1 .. n |-> Distance(path[i], Prior(path, i))]
             g == [i \in 1 .. n |-> a.returns[i].cost]
  <2>1. Ledger(a)
    BY DEF LedgersStand
  <2>2. n \in Nat /\ DOMAIN path = 1 .. n /\ DOMAIN a.returns = 1 .. n
    BY <2>1, SeriesSize DEF Ledger
  <2>3. \A i \in 1 .. n : path[i] \in Int /\ Prior(path, i) \in Int
    <3>1. \A i \in 1 .. n : path[i] \in Int
      BY <2>1 DEF Ledger, Ternary, Positions
    <3>2. \A i \in 1 .. n : i # 1 => i - 1 \in 1 .. n
      BY <2>2
    <3> QED
      BY <3>1, <3>2 DEF Prior
  <2>4. \A i \in 1 .. n : f[i] \in Int /\ g[i] = CostRate * f[i]
    BY <2>1, <2>3 DEF Ledger, Accounted, Distance
  <2>5. IsFiniteSet(1 .. n)
    <3>1. 1 \in Int /\ n \in Int
      BY <2>2
    <3> QED
      BY <3>1, FS_Interval
  <2>6. DOMAIN f = 1 .. n /\ DOMAIN g = 1 .. n
    OBVIOUS
  <2> HIDE DEF f, g
  <2>7. SumFunction(g) = CostRate * SumFunction(f)
    <3>1. CostRate \in Int
      BY BacktestAssumption
    <3> QED
      BY <2>4, <2>5, <2>6, <3>1, SumScales
  <2>8. a.nTrades = Cardinality({i \in 1 .. n : path[i] # Prior(path, i)})
    BY <2>1 DEF Ledger, Counted
  <2> QED
    BY <2>2, <2>7, <2>8 DEF f, g
<1> QED
  BY <1>1, BacktestInvariant, PTL
-------------------------------------------------------------------------------
(***************************************************************************)
(* What the signals, the volatilities and the weights of the desk are      *)
(* bounded by.                                                             *)
(***************************************************************************)
Levels == -Grain .. Grain
Limit == Grain * Unit

LEMMA DeskGrains ==
  /\ Grain \in Nat \ {0} /\ Unit \in Nat \ {0} /\ Limit \in Nat \ {0}
  /\ VolFloor \in Nat \ {0} /\ GrossCap \in Nat \ {0}
  /\ CostRate \in Nat /\ ImpactKappa \in Nat /\ PriceScale \in Nat /\ Common \in Nat
  /\ Signals = 1 .. Len(Producers) /\ IsFiniteSet(Signals) /\ 1 \in Signals
  /\ \A i \in Signals : Producers[i] \in {"constant", "mean_reversion", "futures_basis"}
<1>1. Grain \in Nat \ {0} /\ Unit \in Nat \ {0}
  BY DeskAssumption
<1>2. Limit \in Nat \ {0}
  BY <1>1 DEF Limit
<1>3. Producers \in Seq({"constant", "mean_reversion", "futures_basis"}) /\ Producers # << >>
  BY DeskAssumption
<1>4. /\ Signals = 1 .. Len(Producers) /\ Len(Producers) \in Nat /\ Len(Producers) # 0
      /\ \A i \in Signals : Producers[i] \in {"constant", "mean_reversion", "futures_basis"}
  BY <1>3 DEF Signals
<1>5. 1 \in Int /\ Len(Producers) \in Int
  BY <1>4
<1>6. IsFiniteSet(Signals) /\ 1 \in Signals
  BY <1>4, <1>5, FS_Interval
<1> QED
  BY <1>1, <1>2, <1>4, <1>6, DeskAssumption, BacktestAssumption

LEMMA MaxIsGreatest ==
  ASSUME NEW S, NEW m \in S, \A x \in S : m >= x
  PROVE  Max(S) \in S /\ \A x \in S : Max(S) >= x
BY Zenon DEF Max

\* The prices of a series, its moves and its returns are numbers.
LEMMA MovesAreInts ==
  ASSUME NEW p \in Series, NEW k \in 0 .. Size(p) - 1
  PROVE  /\ p[k] \in Int /\ MarketMove(p, k) \in Int /\ Base(p, k) \in Nat \ {0}
         /\ k # 0 => p[k - 1] \in Prices /\ Base(p, k) = p[k - 1]
<1>1. Size(p) \in Nat /\ \A i \in 0 .. Size(p) - 1 : p[i] \in Prices
  BY SeriesSize
<1>2. Prices \subseteq Nat \ {0}
  BY BacktestAssumption
<1>3. p[k] \in Int
  <2>1. p[k] \in Prices
    BY <1>1
  <2>2. p[k] \in Nat
    BY <1>2, <2>1
  <2> QED
    BY <2>2
<1>4. CASE k = 0
  BY <1>3, <1>4 DEF MarketMove, Base
<1>5. CASE k # 0
  <2>1. k - 1 \in 0 .. Size(p) - 1
    BY <1>1, <1>5
  <2>2. p[k - 1] \in Prices /\ p[k - 1] \in Nat \ {0}
    BY <1>1, <1>2, <2>1
  <2> QED
    BY <1>3, <1>5, <2>2 DEF MarketMove, Base
<1> QED
  BY <1>4, <1>5

LEMMA QuotientOfProduct ==
  ASSUME NEW a \in Int, NEW b \in Nat \ {0}
  PROVE  (b * a) \div b = a
OBVIOUS

\* The scale of the returns loses nothing, whatever is held.
LEMMA ReturnScales ==
  ASSUME NEW p \in Series, NEW k \in 0 .. Size(p) - 1, NEW x \in Int
  PROVE  /\ MarketReturn(p, k) \in Int
         /\ (PriceScale * (x * MarketMove(p, k))) \div Base(p, k) = x * MarketReturn(p, k)
         /\ k = 0 => MarketReturn(p, k) = 0
<1> DEFINE move == MarketMove(p, k)
           base == Base(p, k)
<1>1. move \in Int /\ base \in Nat \ {0} /\ PriceScale \in Nat
  BY MovesAreInts, DeskGrains
<1>2. PICK q \in Int : PriceScale * move = base * (q * move)
  <2>1. CASE k = 0
    <3>1. move = 0
      BY <2>1 DEF MarketMove
    <3>2. PriceScale * 0 = base * (0 * 0)
      BY <1>1
    <3> HIDE DEF move, base
    <3> QED
      BY <3>1, <3>2
  <2>2. CASE k # 0
    <3>1. PriceScale % base = 0
      BY <2>2, MovesAreInts, DeskAssumption
    <3> DEFINE q == PriceScale \div base
    <3> HIDE DEF move, base
    <3>2. q \in Int /\ PriceScale = base * q
      BY <1>1, <3>1
    <3> HIDE DEF q
    <3>3. (base * q) * move = base * (q * move)
      BY <1>1, <3>2
    <3> QED
      BY <3>2, <3>3
  <2> QED
    BY <2>1, <2>2
<1>3. k = 0 => move = 0
  BY DEF MarketMove
<1> HIDE DEF move, base
<1>4. q * move \in Int /\ x * (q * move) \in Int
  BY <1>1, <1>2
<1>5. (PriceScale * move) \div base = q * move
  BY <1>1, <1>2, <1>4, QuotientOfProduct
<1>6. PriceScale * (x * move) = base * (x * (q * move))
  <2>1. PriceScale * (x * move) = x * (PriceScale * move)
    BY <1>1
  <2>2. x * (base * (q * move)) = base * (x * (q * move))
    BY <1>1, <1>4
  <2> QED
    BY <1>2, <2>1, <2>2
<1>7. (PriceScale * (x * move)) \div base = x * (q * move)
  BY <1>1, <1>4, <1>6, QuotientOfProduct
<1>8. k = 0 => q * move = 0
  BY <1>2, <1>3
<1> QED
  BY <1>4, <1>5, <1>7, <1>8 DEF MarketReturn, move, base

\* A position of the futures signal is a level of the desk.
LEMMA FuturesBasisBounded ==
  ASSUME NEW p \in Series, NEW now \in 0 .. Size(p) - 1
  PROVE  FuturesBasis(p, now) \in Levels
<1> DEFINE changes == now - BasisLookback + 1 .. now
           change(k) == p[k] - p[k - 1]
           sums == [k \in changes |-> change(k)]
           products == [k \in changes |-> change(k) * change(k)]
           sum == SumFunction(sums)
           squares == SumFunction(products)
           reached == {level \in 0 .. Grain : Attains(change(now), sum, squares, BasisLookback, level)}
           flat == now < BasisLookback \/ BasisLookback * squares = sum * sum
<1>1. BasisLookback \in Nat /\ BasisLookback >= 2 /\ Grain \in Nat \ {0} /\ Size(p) \in Nat
  BY DeskAssumption, SeriesSize
<1>2. FuturesBasis(p, now) = IF flat THEN 0
                             ELSE Signum(BasisLookback * change(now) - sum) * Max(reached)
  BY Zenon DEF FuturesBasis
<1>3. CASE flat
  <2>1. 0 \in Levels
    BY <1>1 DEF Levels
  <2> HIDE DEF flat
  <2> QED
    BY <1>2, <1>3, <2>1
<1>4. CASE ~ flat
  <2>1. now >= BasisLookback
    BY <1>1, <1>4
  <2>2. \A k \in changes : change(k) \in Int
    <3> TAKE k \in changes
    <3>1. k \in 0 .. Size(p) - 1 /\ k # 0
      BY <1>1, <2>1
    <3>2. p[k] \in Int /\ p[k - 1] \in Prices
      BY <3>1, MovesAreInts
    <3>3. p[k - 1] \in Nat
      BY <3>2, BacktestAssumption
    <3> QED
      BY <3>2, <3>3
  <2>3. IsFiniteSet(changes) /\ now \in changes
    <3>1. now - BasisLookback + 1 \in Int /\ now \in Int
      BY <1>1
    <3> QED
      BY <1>1, <3>1, FS_Interval
  <2> HIDE DEF changes, change
  <2>4. sum \in Int /\ squares \in Int
    <3>1. \A k \in changes : change(k) * change(k) \in Int
      BY <2>2
    <3> QED
      BY <2>2, <2>3, <3>1, SumIsInt
  <2>5. change(now) \in Int
    BY <2>2, <2>3
  <2> DEFINE z == BasisLookback * change(now) - sum
             spread == BasisLookback * (BasisLookback * squares - sum * sum)
  <2>6. z \in Int /\ spread \in Int
    BY <1>1, <2>4, <2>5
  <2>7. \A level \in 0 .. Grain : Attains(change(now), sum, squares, BasisLookback, level)
            <=> z * z * (BasisLookback - 1) * Grain * Grain >= spread * level * level
    BY DEF Attains
  <2> HIDE DEF sum, squares, z, spread
  <2>8. z * z * (BasisLookback - 1) * Grain * Grain >= spread * 0 * 0
    <3>1. z * z \in Nat /\ BasisLookback - 1 \in Nat
      BY <1>1, <2>6
    <3>2. z * z * (BasisLookback - 1) \in Nat
      BY <3>1
    <3>3. z * z * (BasisLookback - 1) * Grain \in Nat
      BY <1>1, <3>2
    <3>4. z * z * (BasisLookback - 1) * Grain * Grain \in Nat
      BY <1>1, <3>3
    <3>5. spread * 0 * 0 = 0
      BY <2>6
    <3> QED
      BY <3>4, <3>5
  <2>9. 0 \in reached /\ reached \subseteq 0 .. Grain /\ 0 .. Grain \subseteq Nat
    BY <1>1, <2>7, <2>8
  <2>10. Max(reached) \in 0 .. Grain
    <3> HIDE DEF reached
    <3>1. 0 \in Int /\ Grain \in Int
      BY <1>1
    <3>2. IsFiniteSet(0 .. Grain)
      BY <3>1, FS_Interval
    <3>3. IsFiniteSet(reached) /\ reached \in SUBSET Nat /\ reached # {}
      BY <2>9, <3>2, FS_Subset
    <3>4. PICK m \in reached : \A x \in reached : x <= m
      BY <3>3, GreatestExists
    <3>5. \A x \in reached : m >= x
      BY <2>9, <3>4
    <3>6. Max(reached) \in reached
      BY <3>5, MaxIsGreatest
    <3> QED
      BY <2>9, <3>6
  <2> DEFINE top == Max(reached)
  <2> HIDE DEF top, reached
  <2>11. Signum(z) \in {-1, 0, 1}
    <3>1. -1 \in {-1, 0, 1} /\ 0 \in {-1, 0, 1} /\ 1 \in {-1, 0, 1}
      OBVIOUS
    <3> QED
      BY <3>1, Zenon DEF Signum
  <2>12. Signum(z) * top \in Levels
    <3>1. top \in 0 .. Grain
      BY <2>10 DEF top
    <3> QED
      BY <1>1, <2>11, <3>1 DEF Levels
  <2> HIDE DEF flat
  <2> QED
    BY <1>2, <1>4, <2>12 DEF top, z
<1> QED
  BY <1>3, <1>4

LEMMA CurrentBounded ==
  ASSUME NEW p \in Series, NEW now \in 0 .. Size(p) - 1, NEW position \in Positions
  PROVE  Current(p, now, position) \in [Signals -> Levels]
<1>1. \A i \in Signals : Signal(Producers[i], p, now, position) \in Levels
  <2> TAKE i \in Signals
  <2>1. Grain \in Levels /\ Grain * position \in Levels
    BY DeskGrains DEF Levels, Positions
  <2>2. Producers[i] \in {"constant", "mean_reversion", "futures_basis"}
    BY DeskGrains
  <2> QED
    BY <2>1, <2>2, FuturesBasisBounded DEF Signal
<1> QED
  BY <1>1 DEF Current, PerSignal

\* There is a square root to choose.
LEMMA SquareRootIsNat ==
  ASSUME NEW n \in Nat
  PROVE  SquareRoot(n) \in Nat
<1> DEFINE Above == {k \in Nat : n < (k + 1) * (k + 1)}
<1>1. n \in Above
  <2>1. n < n * n + 2 * n + 1 /\ (n + 1) * (n + 1) = n * n + 2 * n + 1
    <3>1. n * n \in Nat
      OBVIOUS
    <3> QED
      BY <3>1
  <2> QED
    BY <2>1
<1>2. PICK r \in Above : \A k \in Above : r <= k
  <2>1. Above \in SUBSET Nat /\ Above # {}
    BY <1>1
  <2> HIDE DEF Above
  <2> QED
    BY <2>1, LeastExists
<1>3. r \in 0 .. n /\ n < (r + 1) * (r + 1)
  BY <1>1, <1>2
<1>4. r * r <= n
  <2>1. CASE r = 0
    BY <2>1
  <2>2. CASE r # 0
    <3>1. r - 1 \in Nat /\ r - 1 \notin Above
      <4>1. r - 1 \in Nat /\ ~ (r <= r - 1)
        BY <1>3, <2>2
      <4> HIDE DEF Above
      <4> QED
        BY <1>2, <4>1
    <3>2. ~ (n < ((r - 1) + 1) * ((r - 1) + 1)) /\ (r - 1) + 1 = r
      BY <1>3, <3>1
    <3> QED
      BY <1>3, <3>2
  <2> QED
    BY <2>1, <2>2
<1>5. SquareRoot(n) \in 0 .. n
  BY <1>3, <1>4, Zenon DEF SquareRoot
<1> QED
  BY <1>5

\* The variance of a window is not negative, so volatilities are numbers.
LEMMA VolatilityIsNat ==
  ASSUME NEW buffer \in Seq([Signals -> Int]), NEW i \in Signals
  PROVE  Volatility(buffer, i) \in Nat
<1> DEFINE first == Max({1, Len(buffer) - VolLookback + 1})
           recent == SubSeq(buffer, first, Len(buffer))
           sums == [k \in DOMAIN recent |-> recent[k][i]]
           products == [k \in DOMAIN recent |-> recent[k][i] * recent[k][i]]
           variance == Len(recent) * SumFunction(products) - SumFunction(sums) * SumFunction(sums)
<1>1. Len(buffer) \in Nat /\ VolLookback \in Nat
  BY DeskAssumption
<1>2. Volatility(buffer, i) = IF Len(buffer) < 2 THEN 1 ELSE SquareRoot(variance)
  BY Zenon DEF Volatility
<1>3. first \in Nat /\ first >= 1
  <2> DEFINE low == Len(buffer) - VolLookback + 1
             S == {1, low}
  <2>1. low \in Int
    BY <1>1
  <2>2. \E m \in S : \A x \in S : m >= x
    BY <2>1
  <2> HIDE DEF S
  <2>3. Max(S) \in S /\ \A x \in S : Max(S) >= x
    BY <2>2, MaxIsGreatest
  <2> USE DEF S
  <2>4. first \in S /\ first >= 1
    BY <2>3
  <2> QED
    BY <2>1, <2>4
<1>4. recent \in Seq([Signals -> Int])
  <2> DEFINE V == [Signals -> Int]
             n == Len(buffer)
  <2>1. buffer \in Seq(V) /\ n \in Nat /\ first \in Nat /\ first >= 1
    BY <1>1, <1>3
  <2> HIDE DEF V, first
  <2>2. \A k \in first .. n : buffer[k] \in V
    BY <2>1
  <2>3. SubSeq(buffer, first, n) \in Seq(V)
    BY <2>1, <2>2
  <2> QED
    BY <2>3 DEF V
<1> HIDE DEF recent, first
<1>5. DOMAIN recent = 1 .. Len(recent) /\ Len(recent) \in Nat
  BY <1>4
<1>6. \A k \in DOMAIN recent : recent[k][i] \in Int
  <2> TAKE k \in DOMAIN recent
  <2>1. recent[k] \in [Signals -> Int]
    BY <1>4
  <2> QED
    BY <2>1
<1>7. IsFiniteSet(DOMAIN recent) /\ Cardinality(DOMAIN recent) = Len(recent)
  <2>1. 1 \in Int /\ Len(recent) \in Int
    BY <1>5
  <2>2. /\ IsFiniteSet(1 .. Len(recent))
        /\ Cardinality(1 .. Len(recent)) = IF 1 > Len(recent) THEN 0 ELSE Len(recent) - 1 + 1
    BY <2>1, FS_Interval
  <2> QED
    BY <1>5, <2>2
<1>8. variance \in Nat
  <2>1. /\ DOMAIN sums = DOMAIN recent /\ DOMAIN products = DOMAIN recent
        /\ \A k \in DOMAIN sums : sums[k] \in Int /\ products[k] = sums[k] * sums[k]
    BY <1>6
  <2> HIDE DEF sums, products
  <2>2. Cardinality(DOMAIN sums) * SumFunction(products) - SumFunction(sums) * SumFunction(sums) \in Nat
    BY <1>7, <2>1, SumOfSquares
  <2> QED
    BY <1>7, <2>1, <2>2
<1> HIDE DEF variance
<1> QED
  BY <1>2, <1>8, SquareRootIsNat

\* A floored volatility is positive.
LEMMA FlooredIsPositive ==
  ASSUME NEW x \in Nat
  PROVE  Max({x, VolFloor}) \in Nat \ {0}
<1> DEFINE S == {x, VolFloor}
<1>1. VolFloor \in Nat \ {0}
  BY DeskGrains
<1>2. \E m \in S : \A y \in S : m >= y
  BY <1>1
<1> HIDE DEF S
<1>3. Max(S) \in S /\ \A y \in S : Max(S) >= y
  BY <1>2, MaxIsGreatest
<1> USE DEF S
<1>4. Max(S) \in Nat /\ Max(S) >= VolFloor
  BY <1>1, <1>3
<1> QED
  BY <1>1, <1>4

\* The weights are shares of one unit.
LEMMA WeightsAreShares ==
  ASSUME NEW vols \in [Signals -> Nat \ {0}]
  PROVE  /\ Weights(vols) \in [Signals -> Nat]
         /\ SumFunction(Weights(vols)) <= Unit
<1> DEFINE inverse(i) == FoldFunctionOnSet(LAMBDA x, y : x * y, 1, vols, Signals \ {i})
           inverses == [i \in Signals |-> inverse(i)]
           total == SumFunction(inverses)
           w == [i \in Signals |-> (Unit * inverse(i)) \div total]
<1>1. Weights(vols) = w
  BY Zenon DEF Weights, PerSignal
<1>2. IsFiniteSet(Signals) /\ 1 \in Signals /\ Unit \in Nat
  BY DeskGrains
<1>3. \A i \in Signals : inverse(i) \in Nat \ {0}
  <2> TAKE i \in Signals
  <2> DEFINE S == Signals \ {i}
  <2>1. IsFiniteSet(S) /\ \A k \in S : vols[k] \in Nat \ {0}
    BY <1>2, FS_RemoveElement
  <2> HIDE DEF S
  <2>2. ProductOver(vols, S) \in Nat \ {0}
    BY <2>1, ProductIsPositive
  <2> QED
    BY <2>2, Zenon DEF ProductOver, S
<1> HIDE DEF inverse
<1>4. DOMAIN inverses = Signals /\ \A i \in Signals : inverses[i] = inverse(i)
  OBVIOUS
<1>5. total \in Nat \ {0}
  <2> HIDE DEF inverses
  <2>1. total = inverses[1] + SumFunction([i \in DOMAIN inverses \ {1} |-> inverses[i]])
    <3>1. \A i \in DOMAIN inverses : inverses[i] \in Int
      BY <1>3, <1>4
    <3> QED
      BY <1>2, <1>4, <3>1, SumWithout
  <2> DEFINE rest == [i \in DOMAIN inverses \ {1} |-> inverses[i]]
  <2>2. SumFunction(rest) \in Nat
    <3>1. DOMAIN rest = Signals \ {1} /\ \A i \in DOMAIN rest : rest[i] \in Nat
      BY <1>3, <1>4
    <3> HIDE DEF rest
    <3>2. IsFiniteSet(DOMAIN rest)
      BY <1>2, <3>1, FS_RemoveElement
    <3> QED
      BY <3>1, <3>2, SumIsNat
  <2> HIDE DEF rest, total
  <2>3. inverses[1] \in Nat \ {0}
    BY <1>2, <1>3, <1>4
  <2>4. total = inverses[1] + SumFunction(rest)
    BY <2>1 DEF rest
  <2> QED
    BY <2>2, <2>3, <2>4
<1> HIDE DEF total
<1>6. \A i \in Signals : w[i] \in Nat /\ total * w[i] <= Unit * inverse(i) /\ Unit * inverse(i) \in Nat
  <2> TAKE i \in Signals
  <2> DEFINE a == Unit * inverse(i)
  <2>1. a \in Nat
    BY <1>2, <1>3
  <2>2. w[i] = a \div total
    OBVIOUS
  <2> HIDE DEF a, w
  <2>3. a \div total \in Nat /\ total * (a \div total) <= a
    BY <1>5, <2>1
  <2> QED
    BY <2>1, <2>2, <2>3 DEF a
<1>7. w \in [Signals -> Nat]
  BY <1>6
<1>8. SumFunction(w) <= Unit
  <2> DEFINE left == [i \in Signals |-> total * w[i]]
             right == [i \in Signals |-> Unit * inverses[i]]
  <2>1. DOMAIN w = Signals
    OBVIOUS
  <2> HIDE DEF w
  <2>2. SumFunction(left) = total * SumFunction(w)
    <3>1. DOMAIN left = Signals /\ \A i \in Signals : w[i] \in Int /\ left[i] = total * w[i]
      BY <1>6
    <3> HIDE DEF left
    <3> QED
      BY <1>2, <1>5, <2>1, <3>1, SumScales
  <2>3. SumFunction(right) = Unit * total
    <3>1. DOMAIN right = Signals /\ \A i \in Signals : inverses[i] \in Int /\ right[i] = Unit * inverses[i]
      BY <1>3, <1>4
    <3> HIDE DEF right, inverses
    <3>2. SumFunction(right) = Unit * SumFunction(inverses)
      BY <1>2, <1>4, <3>1, SumScales
    <3> QED
      BY <3>2 DEF total
  <2>4. SumFunction(left) <= SumFunction(right)
    <3>1. /\ DOMAIN left = Signals /\ DOMAIN right = Signals
          /\ \A i \in Signals : left[i] \in Int /\ right[i] \in Int /\ left[i] <= right[i]
      <4>1. \A i \in Signals : left[i] = total * w[i] /\ right[i] = Unit * inverse(i)
        BY <1>4
      <4>2. \A i \in Signals : total * w[i] \in Int
        BY <1>5, <1>6
      <4> HIDE DEF left, right
      <4>3. \A i \in Signals : left[i] \in Int /\ right[i] \in Int /\ left[i] <= right[i]
        BY <1>6, <4>1, <4>2
      <4> QED
        BY <4>3 DEF left, right
    <3> HIDE DEF left, right
    <3> QED
      BY <1>2, <3>1, SumMonotone
  <2>5. SumFunction(w) \in Nat
    BY <1>2, <1>6, <2>1, SumIsNat
  <2> DEFINE sum == SumFunction(w)
  <2>6. total * sum <= Unit * total /\ sum \in Nat
    BY <2>2, <2>3, <2>4, <2>5
  <2> HIDE DEF sum
  <2>7. sum <= Unit
    <3> SUFFICES ASSUME sum >= Unit + 1 PROVE FALSE
      BY <1>2, <2>6
    <3>1. total * sum >= total * (Unit + 1)
      BY <1>2, <1>5, <2>6
    <3>2. total * (Unit + 1) = Unit * total + total
      BY <1>2, <1>5
    <3>3. total * sum \in Nat /\ Unit * total \in Nat
      BY <1>2, <1>5, <2>6
    <3> QED
      BY <1>5, <2>6, <3>1, <3>2, <3>3
  <2> QED
    BY <2>7 DEF sum
<1> QED
  BY <1>1, <1>7, <1>8

-------------------------------------------------------------------------------
(***************************************************************************)
(* The records of the desk.                                                *)
(***************************************************************************)
\* A record keeps the shares its position is the clipped sum of.
RecordOf(r, move) ==
  /\ r.mkt = move
  /\ r.shares \in [Signals -> Int] /\ r.raw = SumFunction(r.shares)
  /\ r.raw \in Int /\ -Limit <= r.raw /\ r.raw <= Limit
  /\ r.position = Clip(r.raw)

\* What the object keeps of its first n steps over the prices p.
DeskHolds(d, p, path, n) ==
  /\ d.prev \in [Signals -> Int]
  /\ d.buffer \in Seq([Signals -> Int])
  /\ IsSequence(d.records) /\ Len(d.records) = n
  /\ \A k \in 1 .. n : /\ RecordOf(d.records[k], MarketReturn(p, k - 1))
                       /\ path[k] = d.records[k].position

LEMMA ClipIsInt ==
  ASSUME NEW x \in Int
  PROVE  Clip(x) \in Int
<1>1. GrossCap \in Int /\ -GrossCap \in Int
  BY DeskGrains
<1> QED
  BY <1>1, Zenon DEF Clip

\* Weighted levels stay within the limit, because the weights share one unit.
LEMMA NetIsBounded ==
  ASSUME NEW w \in [Signals -> Nat], SumFunction(w) <= Unit,
         NEW current \in [Signals -> Levels], NEW shares,
         shares = [i \in Signals |-> w[i] * current[i]]
  PROVE  /\ shares \in [Signals -> Int]
         /\ SumFunction(shares) \in Int
         /\ -Limit <= SumFunction(shares) /\ SumFunction(shares) <= Limit
<1>1. IsFiniteSet(Signals) /\ Grain \in Nat /\ Unit \in Nat /\ Limit \in Nat
  BY DeskGrains
<1> DEFINE low == [i \in Signals |-> (-Grain) * w[i]]
           high == [i \in Signals |-> Grain * w[i]]
<1>2. \A i \in Signals : /\ w[i] \in Nat /\ current[i] \in Int
                         /\ -Grain <= current[i] /\ current[i] <= Grain
  BY <1>1 DEF Levels
<1>3. \A i \in Signals : /\ w[i] \in Int /\ shares[i] \in Int
                         /\ (-Grain) * w[i] \in Int /\ Grain * w[i] \in Int
                         /\ (-Grain) * w[i] <= shares[i] /\ shares[i] <= Grain * w[i]
  <2> TAKE i \in Signals
  <2> DEFINE a == w[i]
             c == current[i]
  <2>1. a \in Nat /\ c \in Int /\ -Grain <= c /\ c <= Grain /\ shares[i] = a * c
    BY <1>2
  <2> HIDE DEF a, c
  <2>2. a * c \in Int /\ (-Grain) * a <= a * c /\ a * c <= Grain * a
    BY <1>1, <2>1
  <2> QED
    BY <1>1, <2>1, <2>2 DEF a
<1>4. shares \in [Signals -> Int] /\ DOMAIN shares = Signals /\ DOMAIN w = Signals
  BY <1>3
<1>5. SumFunction(shares) \in Int /\ SumFunction(w) \in Nat
  BY <1>1, <1>2, <1>3, <1>4, SumIsInt, SumIsNat
<1>6. /\ DOMAIN low = Signals /\ DOMAIN high = Signals
      /\ \A i \in Signals : /\ low[i] = (-Grain) * w[i] /\ high[i] = Grain * w[i]
                            /\ low[i] \in Int /\ high[i] \in Int
  BY <1>3
<1> HIDE DEF low, high
<1>7. SumFunction(low) = (-Grain) * SumFunction(w)
  <2>1. -Grain \in Int
    BY <1>1
  <2> QED
    BY <1>1, <1>3, <1>4, <1>6, <2>1, SumScales
<1>8. SumFunction(high) = Grain * SumFunction(w)
  <2>1. Grain \in Int
    BY <1>1
  <2> QED
    BY <1>1, <1>3, <1>4, <1>6, <2>1, SumScales
<1>9. SumFunction(low) <= SumFunction(shares)
  <2>1. \A i \in Signals : low[i] \in Int /\ shares[i] \in Int /\ low[i] <= shares[i]
    BY <1>3, <1>6
  <2> QED
    BY <1>1, <1>4, <1>6, <2>1, SumMonotone
<1>10. SumFunction(shares) <= SumFunction(high)
  <2>1. \A i \in Signals : high[i] \in Int /\ shares[i] \in Int /\ shares[i] <= high[i]
    BY <1>3, <1>6
  <2> QED
    BY <1>1, <1>4, <1>6, <2>1, SumMonotone
<1> DEFINE net == SumFunction(shares)
           whole == SumFunction(w)
<1>11. net \in Int /\ whole \in Nat /\ whole <= Unit /\ (-Grain) * whole <= net /\ net <= Grain * whole
  BY <1>5, <1>7, <1>8, <1>9, <1>10
<1> HIDE DEF net, whole
<1>12. Grain * whole <= Grain * Unit
  BY <1>1, <1>11
<1>13. -Limit <= net /\ net <= Limit
  <2>1. (-Grain) * whole = -(Grain * whole) /\ Grain * whole \in Nat /\ Grain * Unit \in Nat
    BY <1>1, <1>11
  <2> QED
    BY <1>11, <1>12, <2>1 DEF Limit
<1> QED
  BY <1>4, <1>5, <1>13 DEF net

\* A step of the desk adds its record.
LEMMA BookAdds ==
  ASSUME NEW p \in Series, NEW now \in 0 .. Size(p) - 1, NEW start, NEW path,
         DeskHolds(start, p, path, now),
         NEW move, move = MarketReturn(p, now),
         NEW current \in [Signals -> Levels],
         NEW wider, \A i \in 1 .. now : wider[i] = path[i],
         NEW after, after = Book(start, now, move, current),
         wider[now + 1] = Last(after.records).position
  PROVE  DeskHolds(after, p, wider, now + 1)
<1> DEFINE earned == [i \in Signals |-> start.prev[i] * move]
           buffer == IF now = 0 THEN start.buffer ELSE Append(start.buffer, earned)
           vols == [i \in Signals |-> Max({Volatility(buffer, i), VolFloor})]
           w == Weights(vols)
           shares == [i \in Signals |-> w[i] * current[i]]
           raw == SumFunction(shares)
           record == [mkt |-> move, shares |-> shares, raw |-> raw, position |-> Clip(raw)]
<1>1. after = [prev |-> current, buffer |-> buffer, records |-> Append(start.records, record)]
  BY Zenon DEF Book, PerSignal
<1>2. move \in Int /\ now \in Nat
  BY ReturnScales, SeriesSize
<1>3. buffer \in Seq([Signals -> Int])
  <2>1. start.prev \in [Signals -> Int] /\ start.buffer \in Seq([Signals -> Int])
    BY DEF DeskHolds
  <2>2. earned \in [Signals -> Int]
    BY <1>2, <2>1
  <2> HIDE DEF earned
  <2> QED
    BY <2>1, <2>2
<1> HIDE DEF buffer
<1>4. vols \in [Signals -> Nat \ {0}]
  BY <1>3, VolatilityIsNat, FlooredIsPositive
<1> HIDE DEF vols
<1>5. w \in [Signals -> Nat] /\ SumFunction(w) <= Unit
  BY <1>4, WeightsAreShares
<1> HIDE DEF w
<1>6. /\ shares \in [Signals -> Int] /\ raw \in Int
      /\ -Limit <= raw /\ raw <= Limit
  <2> DEFINE s == shares
  <2>1. s = [i \in Signals |-> w[i] * current[i]]
    OBVIOUS
  <2> HIDE DEF s
  <2>2. /\ s \in [Signals -> Int] /\ SumFunction(s) \in Int
        /\ -Limit <= SumFunction(s) /\ SumFunction(s) <= Limit
    BY <1>5, <2>1, NetIsBounded
  <2> QED
    BY <2>2 DEF s
<1>7. RecordOf(record, move)
  <2> HIDE DEF shares
  <2>1. /\ record.mkt = move /\ record.shares = shares /\ record.raw = raw
        /\ record.position = Clip(raw)
    BY Zenon
  <2> HIDE DEF record
  <2> QED
    BY <1>6, <2>1 DEF RecordOf
<1> HIDE DEF record
<1>8. /\ after.prev = current /\ after.buffer = buffer
      /\ after.records = Append(start.records, record)
  BY <1>1
<1>9. IsSequence(start.records) /\ Len(start.records) = now
  BY DEF DeskHolds
<1> DEFINE rs == after.records
<1>10. /\ IsSequence(rs) /\ Len(rs) = now + 1
       /\ \A i \in 1 .. now : rs[i] = start.records[i]
       /\ rs[now + 1] = record
  BY <1>8, <1>9, AppendTo
<1>11. Last(rs) = record
  BY <1>10 DEF Last
<1>12. ASSUME NEW k \in 1 .. now + 1
       PROVE  RecordOf(rs[k], MarketReturn(p, k - 1)) /\ wider[k] = rs[k].position
  <2>1. CASE k = now + 1
    <3>1. k - 1 = now
      BY <1>2, <2>1
    <3> QED
      BY <1>7, <1>10, <1>11, <2>1, <3>1
  <2>2. CASE k # now + 1
    <3>1. k \in 1 .. now
      BY <1>2, <2>2
    <3> QED
      BY <1>10, <3>1 DEF DeskHolds
  <2> QED
    BY <2>1, <2>2
<1>13. current \in [Signals -> Int]
  <2>1. Levels \subseteq Int
    BY DeskGrains DEF Levels
  <2> QED
    BY <2>1
<1> QED
  BY <1>3, <1>8, <1>10, <1>12, <1>13 DEF DeskHolds

LEMMA BlankHolds ==
  ASSUME NEW p, NEW path
  PROVE  DeskHolds(Blank, p, path, 0)
<1>1. /\ Blank.prev = [i \in Signals |-> 0] /\ Blank.buffer = << >> /\ Blank.records = << >>
  BY DEF Blank, PerSignal
<1>2. [i \in Signals |-> 0] \in [Signals -> Int] /\ 1 .. 0 = {}
  OBVIOUS
<1> QED
  BY <1>1, <1>2, EmptySequence DEF DeskHolds

-------------------------------------------------------------------------------
(***************************************************************************)
(* The account of a run is closed.                                         *)
(***************************************************************************)
\* The components of a record are shares of the clipped position.
LEMMA ComponentsAddUp ==
  ASSUME NEW r, NEW move, RecordOf(r, move)
  PROVE  /\ r.position \in Int
         /\ \A i \in Signals : Component(r, i) \in Int
         /\ SumFunction([i \in Signals |-> Component(r, i)]) = Common * r.position
<1> DEFINE raw == r.raw
           position == r.position
           parts == [i \in Signals |-> Component(r, i)]
<1>1. /\ IsFiniteSet(Signals) /\ Common \in Nat /\ GrossCap \in Nat \ {0} /\ Limit \in Nat
  BY DeskGrains
<1>2. /\ raw \in Int /\ -Limit <= raw /\ raw <= Limit /\ r.shares \in [Signals -> Int]
      /\ raw = SumFunction(r.shares) /\ position = Clip(raw) /\ position \in Int
  BY ClipIsInt DEF RecordOf
<1>3. CASE raw = 0
  <2>1. position = 0
    <3>1. ~ (0 > GrossCap) /\ ~ (0 < -GrossCap)
      BY <1>1
    <3> QED
      BY <1>2, <1>3, <3>1, Zenon DEF Clip
  <2>2. \A i \in Signals : Component(r, i) = 0
    BY <1>3 DEF Component
  <2>3. DOMAIN parts = Signals /\ \A i \in Signals : parts[i] = 0
    BY <2>2
  <2> HIDE DEF parts, position
  <2>4. SumFunction(parts) = 0 * Cardinality(DOMAIN parts)
    BY <1>1, <2>3, SumOfConstant
  <2>5. Cardinality(DOMAIN parts) \in Nat
    BY <1>1, <2>3, FS_CardinalityType
  <2>6. SumFunction(parts) = Common * position
    BY <1>1, <2>1, <2>4, <2>5
  <2> QED
    BY <1>2, <2>2, <2>6 DEF parts, position
<1>4. CASE raw # 0
  <2> DEFINE size == Magnitude(raw)
             clipped == Magnitude(position)
             q == Common \div size
             factor == clipped * q
  <2>1. size \in 1 .. Limit
    BY <1>1, <1>2, <1>4 DEF Magnitude
  <2>2. q \in Int /\ Common = size * q
    <3>1. Common % size = 0
      <4>1. size \in 1 .. Grain * Unit
        BY <2>1 DEF Limit
      <4> QED
        BY <4>1, DeskAssumption
    <3> HIDE DEF size
    <3>2. size \in Nat \ {0}
      BY <1>1, <2>1
    <3> QED
      BY <1>1, <3>1, <3>2
  <2>3. clipped \in Int
    BY <1>2 DEF Magnitude
  <2>4. raw * clipped = size * position
    <3>1. GrossCap \in Nat \ {0} /\ raw \in Int
      BY <1>1, <1>2
    <3> DEFINE c == Clip(raw)
    <3>2. \/ raw > 0 /\ c > 0 /\ c \in Int
          \/ raw < 0 /\ c < 0 /\ c \in Int
      <4>1. c = CASE raw > GrossCap -> GrossCap [] raw < -GrossCap -> -GrossCap [] OTHER -> raw
        BY Zenon DEF Clip
      <4> HIDE DEF c
      <4> QED
        BY <3>1, <1>4, <4>1
    <3> HIDE DEF c
    <3>3. position = c
      BY <1>2 DEF c
    <3>4. CASE raw > 0 /\ c > 0 /\ c \in Int
      <4>1. size = raw /\ clipped = position
        BY <3>1, <3>3, <3>4 DEF Magnitude
      <4> QED
        BY <4>1
    <3>5. CASE raw < 0 /\ c < 0 /\ c \in Int
      <4>1. size = -raw /\ clipped = -position
        BY <3>1, <3>3, <3>5 DEF Magnitude
      <4> DEFINE a == raw
                 b == position
      <4>2. a \in Int /\ b \in Int
        BY <1>2
      <4> HIDE DEF a, b
      <4>3. a * (-b) = (-a) * b
        BY <4>2
      <4> QED
        BY <4>1, <4>3 DEF a, b
    <3> QED
      BY <3>2, <3>4, <3>5
  <2>5. \A i \in Signals : Component(r, i) = r.shares[i] * clipped * q
    BY <1>4 DEF Component
  <2> HIDE DEF size, clipped, q
  <2>6. size \in Int /\ factor \in Int
    BY <1>1, <2>1, <2>2, <2>3
  <2>7. \A i \in Signals : Component(r, i) \in Int /\ Component(r, i) = factor * r.shares[i]
    <3> TAKE i \in Signals
    <3> DEFINE x == r.shares[i]
    <3>1. x \in Int /\ Component(r, i) = x * clipped * q
      BY <1>2, <2>5
    <3> HIDE DEF x
    <3>2. x * clipped * q = (clipped * q) * x /\ x * clipped * q \in Int
      BY <2>2, <2>3, <3>1
    <3> QED
      BY <3>1, <3>2 DEF x
  <2> DEFINE shares == r.shares
  <2>8. /\ DOMAIN parts = Signals /\ DOMAIN shares = Signals
        /\ \A i \in Signals : shares[i] \in Int /\ parts[i] = factor * shares[i]
    BY <1>2, <2>7
  <2> HIDE DEF parts, shares, factor
  <2>9. SumFunction(parts) = factor * SumFunction(shares)
    BY <1>1, <2>6, <2>8, SumScales
  <2>10. SumFunction(parts) = factor * raw
    BY <1>2, <2>9 DEF shares
  <2> HIDE DEF raw, position
  <2>11. factor * raw = Common * position
    <3>1. (clipped * q) * raw = (raw * clipped) * q
      BY <1>2, <2>2, <2>3
    <3>2. (size * position) * q = (size * q) * position
      BY <1>2, <2>2, <2>6
    <3> QED
      BY <2>2, <2>4, <3>1, <3>2 DEF factor
  <2> QED
    BY <1>2, <2>7, <2>10, <2>11 DEF parts, position
<1> QED
  BY <1>3, <1>4

\* Every return was paid by the market over the price before, free of costs.
Based(p, rets, n) ==
  \A k \in 1 .. n : rets[k].base = Base(p, k - 1) /\ rets[k].cost = 0

\* The body of AttributionAddsUp.
Balanced(r) ==
  LET before(k) == IF k = 1 THEN 0 ELSE r.positions[k - 1]
      traded(k) == Distance(r.positions[k], before(k))
  IN  SumFunction(r.attribution)
        = Common * (SumFunction(r.net)
                      + SumFunction([k \in DOMAIN r.positions |->
                                       CostRate * traded(k)
                                         + ImpactKappa * traded(k) * traded(k)]))

\* What the market paid on the decisions of n instants, signal by signal.
LEMMA AttributionPays ==
  ASSUME NEW p \in Series, NEW d, NEW path, NEW n, n = Size(p), DeskHolds(d, p, path, n),
         NEW paid, paid = [k \in 1 .. n |-> Prior(path, k) * MarketReturn(p, k - 1)]
  PROVE  SumFunction(Attribution(d.records)) = Common * SumFunction(paid)
<1> DEFINE rs == d.records
           K == 2 .. n
           a == [i \in Signals |-> [k \in K |-> Component(rs[k - 1], i) * rs[k].mkt]]
           Row(i) == [k \in K |-> a[i][k]]
           Column(k) == [i \in Signals |-> a[i][k]]
           columns == [k \in K |-> SumFunction(Column(k))]
           later == [k \in K |-> paid[k]]
<1>1. n \in Nat /\ n > 0 /\ Len(rs) = n /\ IsSequence(rs)
  BY SeriesSize DEF DeskHolds
<1>2. IsFiniteSet(Signals) /\ IsFiniteSet(K) /\ IsFiniteSet(1 .. n) /\ Common \in Nat
  <2>1. 1 \in Int /\ 2 \in Int /\ n \in Int
    BY <1>1
  <2> QED
    BY <2>1, DeskGrains, FS_Interval
<1>3. \A k \in 1 .. n : /\ RecordOf(rs[k], MarketReturn(p, k - 1))
                        /\ path[k] = rs[k].position /\ path[k] \in Int
                        /\ rs[k].mkt = MarketReturn(p, k - 1) /\ rs[k].mkt \in Int
  <2> TAKE k \in 1 .. n
  <2>1. RecordOf(rs[k], MarketReturn(p, k - 1)) /\ path[k] = rs[k].position
    BY DEF DeskHolds
  <2>2. rs[k].position \in Int /\ rs[k].mkt = MarketReturn(p, k - 1)
    BY <2>1, ComponentsAddUp DEF RecordOf
  <2>3. MarketReturn(p, k - 1) \in Int
    <3>1. k - 1 \in 0 .. Size(p) - 1 /\ 0 \in Int
      BY <1>1
    <3> QED
      BY <3>1, ReturnScales
  <2> QED
    BY <2>1, <2>2, <2>3
<1>4. \A k \in K : k \in 1 .. n /\ k - 1 \in 1 .. n /\ k # 1
  BY <1>1
<1> HIDE DEF rs, K
<1>5. \A i \in Signals, k \in K : a[i][k] = Component(rs[k - 1], i) * rs[k].mkt /\ a[i][k] \in Int
  <2> TAKE i \in Signals, k \in K
  <2>1. Component(rs[k - 1], i) \in Int /\ rs[k].mkt \in Int
    BY <1>3, <1>4, ComponentsAddUp
  <2> DEFINE x == Component(rs[k - 1], i)
             y == rs[k].mkt
  <2>2. a[i][k] = x * y
    OBVIOUS
  <2> HIDE DEF x, y, a
  <2>3. x * y \in Int
    BY <2>1 DEF x, y
  <2> QED
    BY <2>2, <2>3 DEF x, y
<1>6. Attribution(d.records) = [i \in Signals |-> SumFunction(Row(i))]
  <2>1. Attribution(rs) = [i \in Signals |->
          SumFunction([k \in 2 .. Len(rs) |-> Component(rs[k - 1], i) * rs[k].mkt])]
    BY Zenon DEF Attribution, PerSignal
  <2>2. K = 2 .. Len(rs)
    BY <1>1 DEF K
  <2>3. \A i \in Signals : Row(i) = [k \in 2 .. Len(rs) |-> Component(rs[k - 1], i) * rs[k].mkt]
    BY <2>2
  <2> HIDE DEF Row
  <2> QED
    BY <2>1, <2>3 DEF rs
<1> HIDE DEF a
<1>7. SumFunction([i \in Signals |-> SumFunction(Row(i))]) = SumFunction(columns)
  <2>1. \A i \in Signals, k \in K : a[i][k] \in Int
    BY <1>5
  <2>2. SumFunction(RowSums(a, Signals, K)) = SumFunction(ColumnSums(a, Signals, K))
    BY <1>2, <2>1, SumOfSums
  <2> QED
    BY <2>2, Zenon DEF RowSums, ColumnSums
<1>8. \A k \in K : SumFunction(Column(k)) = Common * paid[k] /\ paid[k] \in Int
  <2> TAKE k \in K
  <2> DEFINE m == rs[k].mkt
             r == rs[k - 1]
             parts == [i \in Signals |-> Component(r, i)]
  <2>1. m \in Int /\ RecordOf(r, MarketReturn(p, k - 2))
    <3>1. (k - 1) - 1 = k - 2
      BY <1>1, <1>4
    <3> QED
      BY <1>3, <1>4, <3>1
  <2>2. /\ r.position \in Int /\ \A i \in Signals : Component(r, i) \in Int
        /\ SumFunction(parts) = Common * r.position
    BY <2>1, ComponentsAddUp
  <2>3. paid[k] = r.position * m
    <3>1. Prior(path, k) = r.position
      BY <1>3, <1>4 DEF Prior
    <3> QED
      BY <1>3, <1>4, <3>1
  <2> DEFINE c == Column(k)
             position == r.position
  <2>4. DOMAIN c = Signals /\ DOMAIN parts = Signals /\ \A i \in Signals : parts[i] \in Int /\ c[i] = m * parts[i]
    <3>1. DOMAIN c = Signals /\ \A i \in Signals : c[i] = a[i][k]
      BY Zenon
    <3>2. \A i \in Signals : a[i][k] = Component(r, i) * m
      BY <1>5
    <3>3. DOMAIN parts = Signals /\ \A i \in Signals : parts[i] = Component(r, i)
      BY Zenon
    <3> HIDE DEF c, m, parts
    <3>4. \A i \in Signals : Component(r, i) * m = m * Component(r, i)
      BY <2>1, <2>2
    <3> QED
      BY <2>2, <3>1, <3>2, <3>3, <3>4
  <2> HIDE DEF c, m, parts, r
  <2>5. SumFunction(c) = m * SumFunction(parts)
    BY <1>2, <2>1, <2>4, SumScales
  <2> HIDE DEF position
  <2>6. position \in Int /\ SumFunction(c) = m * (Common * position) /\ paid[k] = position * m
    BY <2>2, <2>3, <2>5 DEF position
  <2>7. m * (Common * position) = Common * (position * m) /\ position * m \in Int
    BY <1>2, <2>1, <2>6
  <2> QED
    BY <2>6, <2>7 DEF c
<1>9. SumFunction(columns) = Common * SumFunction(later)
  <2>1. /\ DOMAIN columns = K /\ DOMAIN later = K
        /\ \A k \in K : later[k] \in Int /\ columns[k] = Common * later[k]
    BY <1>8
  <2> HIDE DEF columns, later
  <2>2. Common \in Int
    BY <1>2
  <2> QED
    BY <1>2, <2>1, <2>2, SumScales
<1>10. SumFunction(paid) = SumFunction(later)
  <2>1. DOMAIN paid = 1 .. n /\ 1 \in 1 .. n /\ K = (1 .. n) \ {1}
    BY <1>1 DEF K
  <2>2. paid[1] = 0
    <3>1. MarketReturn(p, 1 - 1) = 0
      <4>1. 0 \in 0 .. Size(p) - 1 /\ 0 \in Int /\ 1 - 1 = 0
        BY <1>1
      <4> QED
        BY <4>1, ReturnScales
    <3> QED
      BY <2>1, <3>1 DEF Prior
  <2>3. \A k \in DOMAIN paid : paid[k] \in Int
    <3>1. \A k \in K : paid[k] \in Int
      BY <1>8
    <3> QED
      BY <2>1, <2>2, <3>1
  <2>4. SumFunction(paid) = paid[1] + SumFunction([k \in DOMAIN paid \ {1} |-> paid[k]])
    <3> DEFINE f == paid
    <3>1. IsFiniteSet(DOMAIN f) /\ 1 \in DOMAIN f /\ \A k \in DOMAIN f : f[k] \in Int
      BY <1>2, <2>1, <2>3
    <3> HIDE DEF f
    <3>2. SumFunction(f) = f[1] + SumFunction([k \in DOMAIN f \ {1} |-> f[k]])
      BY <3>1, SumWithout
    <3> QED
      BY <3>2, Zenon DEF f
  <2>5. [k \in DOMAIN paid \ {1} |-> paid[k]] = later
    BY <2>1
  <2>6. SumFunction(later) \in Int
    <3>1. DOMAIN later = K /\ \A k \in K : later[k] \in Int
      BY <1>8
    <3> HIDE DEF later
    <3> QED
      BY <1>2, <3>1, SumIsInt
  <2> HIDE DEF later
  <2> QED
    BY <2>2, <2>4, <2>5, <2>6
<1> QED
  BY <1>6, <1>7, <1>9, <1>10

\* What DeskFinish reports as the net result of the returns on a path.
NetOf(rets, path) ==
  [k \in DOMAIN rets |-> ((PriceScale * rets[k].gain) \div rets[k].base - rets[k].cost)
                           - ExecutionCosts(path)[k]]

\* The account closes.
LEMMA AccountCloses ==
  ASSUME NEW p \in Series, NEW d, NEW path, NEW rets, NEW s, NEW n, n = Size(p),
         DeskHolds(d, p, path, n), DOMAIN path = 1 .. n, DOMAIN rets = 1 .. n,
         Accounted(s, p, path, rets, n), Based(p, rets, n),
         NEW r, r.positions = path, r.attribution = Attribution(d.records),
         r.net = NetOf(rets, path)
  PROVE  Balanced(r)
<1> DEFINE K == 1 .. n
           paid == [k \in K |-> Prior(path, k) * MarketReturn(p, k - 1)]
           charged(k) == CostRate * Distance(path[k], Prior(path, k))
                           + ImpactKappa * Distance(path[k], Prior(path, k)) * Distance(path[k], Prior(path, k))
           charges == [k \in K |-> charged(k)]
           net == r.net
<1>1. n \in Nat /\ n > 0 /\ IsFiniteSet(K)
  <2>1. n \in Nat /\ n > 0
    BY SeriesSize
  <2>2. 1 \in Int /\ n \in Int
    BY <2>1
  <2> QED
    BY <2>1, <2>2, FS_Interval
<1>2. \A k \in K : path[k] \in Int
  <2> TAKE k \in K
  <2>1. RecordOf(d.records[k], MarketReturn(p, k - 1)) /\ path[k] = d.records[k].position
    BY DEF DeskHolds
  <2> QED
    BY <2>1, ComponentsAddUp
<1>3. \A k \in K : Prior(path, k) \in Int
  <2> TAKE k \in K
  <2>1. CASE k = 1
    BY <2>1 DEF Prior
  <2>2. CASE k # 1
    <3>1. k - 1 \in K
      BY <1>1, <2>2
    <3> QED
      BY <1>2, <2>2, <3>1 DEF Prior
  <2> QED
    BY <2>1, <2>2
<1>4. \A k \in K : charged(k) \in Int
  <2> TAKE k \in K
  <2> DEFINE delta == Distance(path[k], Prior(path, k))
  <2>1. delta \in Int
    BY <1>2, <1>3 DEF Distance
  <2> HIDE DEF delta
  <2>2. CostRate * delta + ImpactKappa * delta * delta \in Int
    BY <2>1, DeskGrains
  <2> QED
    BY <2>2 DEF delta
<1>5. ExecutionCosts(path) = charges
  <2>1. ExecutionCosts(path) = [k \in DOMAIN path |->
          CostRate * Distance(path[k], IF k = 1 THEN 0 ELSE path[k - 1])
            + ImpactKappa * Distance(path[k], IF k = 1 THEN 0 ELSE path[k - 1])
                * Distance(path[k], IF k = 1 THEN 0 ELSE path[k - 1])]
    BY Zenon DEF ExecutionCosts
  <2> QED
    BY <2>1, Zenon DEF Prior
<1> HIDE DEF charged
<1>6. \A k \in K : paid[k] \in Int /\ net[k] + charged(k) = paid[k]
  <2> TAKE k \in K
  <2>1. k - 1 \in 0 .. Size(p) - 1
    BY <1>1
  <2> DEFINE x == Prior(path, k)
             gross == (PriceScale * (x * MarketMove(p, k - 1))) \div Base(p, k - 1)
             m == MarketReturn(p, k - 1)
  <2>2. x \in Int /\ m \in Int /\ gross = x * m
    BY <1>3, <2>1, ReturnScales
  <2>3. /\ rets[k].gain = x * MarketMove(p, k - 1)
        /\ rets[k].base = Base(p, k - 1) /\ rets[k].cost = 0
    BY DEF Accounted, Based
  <2>4. net[k] = ((PriceScale * rets[k].gain) \div rets[k].base - rets[k].cost) - charged(k)
    BY <1>5 DEF NetOf
  <2>5. net[k] = (gross - 0) - charged(k)
    BY <2>3, <2>4
  <2>6. paid[k] = x * m
    OBVIOUS
  <2> HIDE DEF x, m, gross, paid, net
  <2> QED
    BY <1>4, <2>2, <2>5, <2>6
<1>7. SumFunction(paid) = SumFunction(net) + SumFunction(charges)
  <2>1. /\ DOMAIN paid = K /\ DOMAIN net = K /\ DOMAIN charges = K
        /\ \A k \in K : charges[k] = charged(k)
    BY DEF NetOf
  <2>2. \A k \in K : net[k] \in Int
    <3> TAKE k \in K
    <3>1. net[k] = ((PriceScale * rets[k].gain) \div rets[k].base - rets[k].cost) - charged(k)
      BY <1>5 DEF NetOf
    <3> DEFINE x == Prior(path, k) * MarketMove(p, k - 1)
               b == Base(p, k - 1)
    <3>2. k - 1 \in 0 .. Size(p) - 1
      BY <1>1
    <3>3. x \in Int /\ b \in Nat \ {0}
      BY <1>3, <3>2, MovesAreInts
    <3>4. rets[k].gain = x /\ rets[k].base = b /\ rets[k].cost = 0
      BY DEF Accounted, Based
    <3> HIDE DEF x, b
    <3>5. (PriceScale * x) \div b \in Int
      <4>1. PriceScale * x \in Int
        BY <3>3, DeskGrains
      <4> QED
        BY <3>3, <4>1
    <3> QED
      BY <1>4, <3>1, <3>4, <3>5
  <2> HIDE DEF paid, net, charges
  <2>3. \A k \in K : net[k] \in Int /\ charges[k] \in Int /\ paid[k] = net[k] + charges[k]
    BY <1>4, <1>6, <2>1, <2>2
  <2>4. /\ IsFiniteSet(DOMAIN net) /\ DOMAIN charges = DOMAIN net /\ DOMAIN paid = DOMAIN net
        /\ \A k \in DOMAIN net : net[k] \in Int /\ charges[k] \in Int /\ paid[k] = net[k] + charges[k]
    BY <1>1, <2>1, <2>3, Zenon
  <2> HIDE DEF K
  <2> QED
    BY <2>4, SumAdds
<1>8. SumFunction(Attribution(d.records)) = Common * SumFunction(paid)
  BY AttributionPays
<1>9. Balanced(r) <=> SumFunction(r.attribution) = Common * (SumFunction(r.net)
        + SumFunction([k \in DOMAIN r.positions |->
            CostRate * Distance(r.positions[k], IF k = 1 THEN 0 ELSE r.positions[k - 1])
              + ImpactKappa * Distance(r.positions[k], IF k = 1 THEN 0 ELSE r.positions[k - 1])
                  * Distance(r.positions[k], IF k = 1 THEN 0 ELSE r.positions[k - 1])]))
  BY Zenon DEF Balanced
<1>10. charges = [k \in DOMAIN r.positions |->
            CostRate * Distance(r.positions[k], IF k = 1 THEN 0 ELSE r.positions[k - 1])
              + ImpactKappa * Distance(r.positions[k], IF k = 1 THEN 0 ELSE r.positions[k - 1])
                  * Distance(r.positions[k], IF k = 1 THEN 0 ELSE r.positions[k - 1])]
  BY Zenon DEF charged, Prior
<1> HIDE DEF charges, paid, net
<1> QED
  BY <1>7, <1>8, <1>9, <1>10 DEF net

-------------------------------------------------------------------------------
\* Along a run of the desk the records follow the positions, and the engine
\* pays what it always pays, without a cost of its own.
Booked ==
  strategy.kind = "desk" =>
    /\ phase = "signal" /\ t > 0 => DeskHolds(desk, prices, positions, t)
    /\ phase = "accumulate" => /\ DeskHolds(desk, prices, positions, Size(prices))
                               /\ Based(prices, returns, t)

DeskInv == Booked /\ AttributionAddsUp

LEMMA ResultsBalance == AttributionAddsUp <=> \A r \in results : Balanced(r)
BY Zenon DEF AttributionAddsUp, Balanced

LEMMA DeskSignalBooks ==
  ASSUME IInv, DeskInv, DeskSignal
  PROVE  DeskInv'
<1>1. /\ t \in Nat /\ memory' \in Positions /\ prices \in Series
      /\ t \in 0 .. Size(prices) - 1 /\ Size(prices) \in Nat
  <2>1. t \in Nat /\ memory \in Positions /\ prices \in Series
    BY DEF IInv, Types, DeskSignal
  <2>2. t + 1 <= Size(prices) /\ Size(prices) \in Nat
    BY InstantInSeries DEF IInv, DeskSignal
  <2> QED
    BY <2>1, <2>2, HeldIsPosition DEF DeskSignal
<1> DEFINE start == ResetDesk(t, desk)
           move == MarketReturn(prices, t)
           mean == memory'
           current == Current(prices, t, mean)
           after == desk'
           wider == positions'
           x == Last(after.records).position
<1>2. after = Book(start, t, move, current)
  BY Zenon DEF DeskSignal, DeskAfter
<1>3. DeskHolds(start, prices, positions, t)
  <2>1. CASE t = 0
    BY <2>1, BlankHolds DEF ResetDesk
  <2>2. CASE t # 0
    BY <1>1, <2>2 DEF ResetDesk, DeskInv, Booked, DeskSignal
  <2> QED
    BY <2>1, <2>2
<1>4. current \in [Signals -> Levels]
  BY <1>1, CurrentBounded
<1>5. wider = Append(positions, x)
  BY DEF DeskSignal
<1>6. IsSequence(positions) /\ Len(positions) = t
  BY DEF IInv, DecidedFromPrices, DeskSignal
<1> HIDE DEF start, current, after, wider, x, move
<1>7. (\A i \in 1 .. t : wider[i] = positions[i]) /\ wider[t + 1] = x
  BY <1>5, <1>6, AppendTo
<1>8. DeskHolds(after, prices, wider, t + 1)
  <2>1. move = MarketReturn(prices, t) /\ wider[t + 1] = Last(after.records).position
    BY <1>7 DEF move, x
  <2> QED
    BY <1>1, <1>2, <1>3, <1>4, <1>7, <2>1, BookAdds
<1>9. Booked'
  BY <1>8 DEF Booked, DeskSignal, loop, after, wider
<1>10. AttributionAddsUp'
  <2>1. results' = results
    BY DEF DeskSignal
  <2> QED
    BY <2>1 DEF DeskInv, AttributionAddsUp
<1> QED
  BY <1>9, <1>10 DEF DeskInv

LEMMA AccumulateBooks ==
  ASSUME IInv, Booked, Accumulate, desk' = desk
  PROVE  Booked'
<1> SUFFICES ASSUME strategy.kind = "desk" PROVE Booked'
  BY DEF Booked, Accumulate, loop
<1>1. t \in Nat /\ t + 1 <= Size(prices) /\ Size(prices) \in Nat
  BY InstantInSeries DEF IInv, Accumulate
<1>2. /\ IsSequence(returns) /\ Len(returns) = t /\ prevPos = Prior(positions, t + 1)
  BY DEF IInv, AccumulatedFromPath, Accumulate
<1>3. DeskHolds(desk, prices, positions, Size(prices)) /\ Based(prices, returns, t)
  BY DEF Booked, Accumulate
<1> DEFINE entry == [gain |-> Earns(t), base |-> Base(prices, t), cost |-> EngineRate * Traded(t)]
           longer == returns'
<1>4. longer = Append(returns, entry)
  BY DEF Accumulate
<1>5. entry.base = Base(prices, t) /\ entry.cost = EngineRate * Traded(t)
  OBVIOUS
<1> HIDE DEF entry, longer
<1>6. (\A i \in 1 .. t : longer[i] = returns[i]) /\ longer[t + 1] = entry
  BY <1>2, <1>4, AppendTo
<1>7. entry.cost = 0
  <2>1. \A k \in 1 .. Size(prices) : positions[k] \in Int
    <3> TAKE k \in 1 .. Size(prices)
    <3>1. RecordOf(desk.records[k], MarketReturn(prices, k - 1)) /\ positions[k] = desk.records[k].position
      BY <1>3 DEF DeskHolds
    <3> QED
      BY <3>1, ComponentsAddUp
  <2>2. positions[t + 1] \in Int /\ prevPos \in Int
    <3>1. t + 1 \in 1 .. Size(prices) /\ (t # 0 => t \in 1 .. Size(prices)) /\ (t + 1) - 1 = t
      BY <1>1
    <3>2. CASE t = 0
      <4>1. t + 1 = 1
        BY <3>2
      <4> QED
        BY <1>2, <2>1, <3>1, <4>1 DEF Prior
    <3>3. CASE t # 0
      <4>1. t + 1 # 1
        BY <1>1, <3>3
      <4> QED
        BY <1>2, <2>1, <3>1, <3>3, <4>1 DEF Prior
    <3> QED
      BY <3>2, <3>3
  <2>3. Traded(t) \in Int
    BY <2>2 DEF Traded, Distance
  <2> QED
    BY <1>5, <2>3 DEF EngineRate
<1>8. Based(prices, longer, t + 1)
  <2> SUFFICES ASSUME NEW k \in 1 .. t + 1
               PROVE  longer[k].base = Base(prices, k - 1) /\ longer[k].cost = 0
    BY DEF Based
  <2>1. CASE k = t + 1
    <3>1. k - 1 = t
      BY <1>1, <2>1
    <3> QED
      BY <1>5, <1>6, <1>7, <2>1, <3>1
  <2>2. CASE k # t + 1
    <3>1. k \in 1 .. t
      BY <1>1, <2>2
    <3> QED
      BY <1>3, <1>6, <3>1 DEF Based
  <2> QED
    BY <2>1, <2>2
<1> QED
  BY <1>3, <1>8 DEF Booked, Accumulate, loop, longer

LEMMA DeskFinishBalances ==
  ASSUME IInv, DeskInv, DeskFinish, strategy.kind = "desk"
  PROVE  DeskInv'
<1>1. /\ t = Size(prices) /\ prices \in Series /\ phase = "accumulate"
  BY InstantInSeries DEF IInv, Types, DeskFinish, Finish
<1>2. /\ DeskHolds(desk, prices, positions, Size(prices)) /\ Based(prices, returns, Size(prices))
  BY <1>1 DEF DeskInv, Booked
<1>3. DOMAIN positions = 1 .. Size(prices) /\ DOMAIN returns = 1 .. Size(prices)
  BY <1>1, SequenceDomain DEF IInv, DecidedFromPrices, AccumulatedFromPath
<1>4. Accounted(strategy, prices, positions, returns, Size(prices))
  BY <1>1 DEF IInv, AccumulatedFromPath
<1> DEFINE r == [positions |-> positions,
                 net |-> NetOf(returns, positions),
                 attribution |-> Attribution(desk.records)]
<1>5. results' = results \union {r}
  BY Zenon DEF DeskFinish, NetOf
<1>6. /\ r.positions = positions /\ r.attribution = Attribution(desk.records)
      /\ r.net = NetOf(returns, positions)
  BY Zenon
<1> HIDE DEF r
<1>7. Balanced(r)
  <2> DEFINE n == Size(prices)
  <2>1. /\ n = Size(prices) /\ prices \in Series /\ DeskHolds(desk, prices, positions, n)
        /\ DOMAIN positions = 1 .. n /\ DOMAIN returns = 1 .. n
        /\ Accounted(strategy, prices, positions, returns, n) /\ Based(prices, returns, n)
    BY <1>1, <1>2, <1>3, <1>4
  <2> HIDE DEF n
  <2> QED
    BY <1>6, <2>1, AccountCloses
<1>8. AttributionAddsUp'
  <2>1. \A q \in results' : Balanced(q)
    BY <1>5, <1>7, ResultsBalance DEF DeskInv
  <2> QED
    BY <2>1, Zenon DEF AttributionAddsUp, Balanced
<1>9. Booked'
  BY DEF Booked, DeskFinish, Finish
<1> QED
  BY <1>8, <1>9 DEF DeskInv

\* The attribution of every run of the desk adds up to its net result and what
\* its trades cost, whatever the desk object went through before, whichever
\* producers it asks and wherever its limit clips.
THEOREM AttributionIsComplete == DeskSpec => []AttributionAddsUp
<1>1. DeskInit => DeskInv
  BY DEF DeskInit, Init, DeskInv, Booked, AttributionAddsUp
<1>2. IInv /\ DeskInv /\ [DeskNext]_deskVars => DeskInv'
  <2> SUFFICES ASSUME IInv, DeskInv, [DeskNext]_deskVars PROVE DeskInv'
    OBVIOUS
  <2>1. results' = results => AttributionAddsUp'
    BY DEF DeskInv, AttributionAddsUp
  <2>2. CASE DeskSignal
    BY <2>2, DeskSignalBooks
  <2>3. CASE strategy.kind = "desk" /\ DeskFinish
    BY <2>3, DeskFinishBalances
  <2>4. CASE strategy.kind # "desk" /\ Finish /\ UNCHANGED <<desk, results>>
    BY <2>1, <2>4 DEF DeskInv, Booked, Finish, loop
  <2>5. CASE Start /\ UNCHANGED <<desk, results>>
    BY <2>1, <2>5 DEF DeskInv, Booked, Start
  <2>6. CASE MeanReversion /\ UNCHANGED <<desk, results>>
    BY <2>1, <2>6 DEF DeskInv, Booked, MeanReversion, loop
  <2>7. CASE (Read \/ ReadRaises \/ Fail) /\ UNCHANGED <<desk, results>>
    BY <2>1, <2>7 DEF DeskInv, Booked, Read, ReadRaises, Fail, loop
  <2>8. CASE PhaseTwo /\ UNCHANGED <<desk, results>>
    <3>1. t = Size(prices) /\ Size(prices) > 0 /\ Size(prices) \in Nat
      BY <2>8, InstantInSeries, SeriesSize DEF IInv, Types, PhaseTwo
    <3>2. Based(prices', returns', 0)
      <4>1. 1 .. 0 = {}
        OBVIOUS
      <4> QED
        BY <4>1 DEF Based
    <3>3. strategy.kind = "desk" => DeskHolds(desk, prices, positions, Size(prices))
      BY <2>8, <3>1 DEF DeskInv, Booked, PhaseTwo
    <3> QED
      BY <2>1, <2>8, <3>2, <3>3 DEF DeskInv, Booked, PhaseTwo, loop
  <2>9. CASE Accumulate /\ UNCHANGED <<desk, results>>
    BY <2>1, <2>9, AccumulateBooks DEF DeskInv
  <2>10. CASE UNCHANGED deskVars
    BY <2>1, <2>10 DEF DeskInv, Booked, deskVars, vars, loop, account
  <2> QED
    BY <2>2, <2>3, <2>4, <2>5, <2>6, <2>7, <2>8, <2>9, <2>10 DEF DeskNext
<1>3. DeskInv => AttributionAddsUp
  BY DEF DeskInv
<1> QED
  BY <1>1, <1>2, <1>3, BacktestInvariant, PTL DEF DeskSpec
===============================================================================
