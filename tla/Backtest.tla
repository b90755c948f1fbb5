-------------------------------- MODULE Backtest --------------------------------
(***************************************************************************)
(* The two-phase backtest engine (core/backtest) with the strategies it is *)
(* given.  Phase 1 asks the strategy for a position at each instant, under *)
(* a GuardedView; phase 2 accumulates the returns.  Strategy objects live  *)
(* longer than a run: what a run that ended, or one that an error stopped, *)
(* left in them is there when the next run starts.                         *)
(***************************************************************************)
EXTENDS Integers, Sequences, Functions, FiniteSetsExt

CONSTANTS Prices,         \* the prices a series can take
          MaxLength,      \* bound on the length of a series
          Asked,          \* the instants readers ask for: view.at(asked)
          Lookback,
          ZEntry, ZExit, ZDen,   \* thresholds ZEntry / ZDen and ZExit / ZDen
          CostRate,       \* fees and slippage, in basis points
          MaxRuns         \* bound on the runs started

VARIABLES phase,          \* "idle", "signal" or "accumulate"
          strategy,       \* the strategy of the run
          prices,         \* the series of the run, its future included
          t,              \* the loop variable of the phase
          memory,         \* MeanReversionSignal._position
          positions,      \* positions decided so far
          prevPos,        \* prev_pos of accumulate
          nTrades,
          returns,        \* returns accumulated so far
          runs,           \* runs started
          ledgers         \* results of the runs that ended (history)

loop == <<prices, strategy, runs>>
account == <<prevPos, nTrades, returns>>
vars == <<phase, t, loop, account, memory, positions, ledgers>>

\* The desk, a strategy of strategies, decides in module Desk.
Strategies == [kind : {"mean_reversion", "desk"}] \union [kind : {"reader"}, asked : Asked]
Series == UNION {[0 .. n - 1 -> Prices] : n \in 1 .. MaxLength}

ASSUME BacktestAssumption ==
  /\ Prices \subseteq Nat \ {0}
  /\ MaxLength \in Nat
  /\ Asked \subseteq Int
  /\ Lookback \in Nat /\ Lookback >= 2
  /\ ZEntry \in Nat \ {0} /\ ZExit \in Int /\ ZDen \in Nat \ {0}
  /\ ZExit < ZEntry
  /\ CostRate \in Nat
  /\ MaxRuns \in Nat

Init ==
  /\ phase = "idle"
  /\ strategy = [kind |-> "mean_reversion"]
  /\ prices = << >>
  /\ t = 0
  /\ memory = 0
  /\ positions = << >>
  /\ prevPos = 0
  /\ nTrades = 0
  /\ returns = << >>
  /\ runs = 0
  /\ ledgers = {}

\* engine.run(prices, strategy)
Start ==
  /\ phase = "idle"
  /\ runs < MaxRuns
  /\ runs' = runs + 1
  /\ prices' \in Series
  /\ strategy' \in Strategies
  /\ phase' = "signal"
  /\ t' = 0
  /\ positions' = << >>
  /\ UNCHANGED <<account, memory, ledgers>>

InSeries == t \in DOMAIN prices
Distance(x, y) == IF x < y THEN y - x ELSE x - y
-------------------------------------------------------------------------------
(***************************************************************************)
(* GuardedView and the strategies.                                         *)
(***************************************************************************)
\* Mutant: numpy's indexing, where a negative index counts from the end.
ReadableWrapped(p, now, i) == i <= now /\ i + Cardinality(DOMAIN p) \in Nat

\* at(i) raises LookAheadError beyond now and IndexError below 0.
Readable(p, now, i) == 0 <= i /\ i <= now

\* _data[i], as numpy indexes it.
At(p, i) == IF i < 0 THEN p[i + Cardinality(DOMAIN p)] ELSE p[i]

\* The window history()[-lookback:], and its moments.  With n values of sum S
\* and sum of squares Q, z = (x - mean) / std gives
\* z^2 = (n x - S)^2 (n - 1) / (n (n Q - S^2)).
Recent(now) == now - Lookback + 1 .. now
WindowSum(p, now) == SumFunction([i \in Recent(now) |-> p[i]])
WindowSquares(p, now) == SumFunction([i \in Recent(now) |-> p[i] * p[i]])
Spread(p, now) == Lookback * WindowSquares(p, now) - WindowSum(p, now) * WindowSum(p, now)
Deviation(p, now) == Lookback * p[now] - WindowSum(p, now)

\* |z| * ZDen compared with a threshold that is not negative.
ScaledSquare(p, now) == Deviation(p, now) * Deviation(p, now) * (Lookback - 1) * ZDen * ZDen
Reaches(p, now, z) == ScaledSquare(p, now) >= Lookback * Spread(p, now) * z * z
AtMost(p, now, z) == z >= 0 /\ ScaledSquare(p, now) <= Lookback * Spread(p, now) * z * z

\* MeanReversionSignal.decide
Decide(p, now, position) ==
  CASE position = 0 /\ Reaches(p, now, ZEntry) /\ Deviation(p, now) > 0 -> -1
    [] position = 0 /\ Reaches(p, now, ZEntry) /\ Deviation(p, now) < 0 -> 1
    [] position # 0 /\ AtMost(p, now, ZExit) -> 0
    [] OTHER -> position

HasScore(p, now) == now + 1 >= Lookback /\ Spread(p, now) # 0

\* Mutant: the state of the last run is kept.
NotReset(now, position) == position

\* The state is reset at the start of a run.
Reset(now, position) == IF now = 0 THEN 0 ELSE position

\* MeanReversionSignal.signal
Held(p, now, position) ==
  IF HasScore(p, now) THEN Decide(p, now, Reset(now, position)) ELSE Reset(now, position)

\* MeanReversionStrategy.signal
MeanReversion ==
  /\ phase = "signal"
  /\ strategy.kind = "mean_reversion"
  /\ InSeries
  /\ memory' = Held(prices, t, memory)
  /\ positions' = Append(positions, memory')
  /\ t' = t + 1
  /\ UNCHANGED <<phase, loop, account, ledgers>>

\* A strategy of one's own, long or short as the price of the instant it asks
\* for is below or above the present one; an instant it may not read stops the
\* run.
Read ==
  /\ phase = "signal"
  /\ strategy.kind = "reader"
  /\ InSeries
  /\ Readable(prices, t, strategy.asked)
  /\ LET seen == At(prices, strategy.asked)
     IN  positions' = Append(positions, CASE seen < prices[t] -> 1
                                          [] seen > prices[t] -> -1
                                          [] OTHER -> 0)
  /\ t' = t + 1
  /\ UNCHANGED <<phase, loop, account, memory, ledgers>>

ReadRaises ==
  /\ phase = "signal"
  /\ strategy.kind = "reader"
  /\ InSeries
  /\ ~Readable(prices, t, strategy.asked)
  /\ phase' = "idle"
  /\ UNCHANGED <<t, loop, account, memory, positions, ledgers>>

\* Any other error of a strategy: a run that ends without a result.
Fail ==
  /\ phase = "signal"
  /\ InSeries
  /\ phase' = "idle"
  /\ UNCHANGED <<t, loop, account, memory, positions, ledgers>>

PhaseTwo ==
  /\ phase = "signal"
  /\ ~InSeries
  /\ phase' = "accumulate"
  /\ t' = 0
  /\ prevPos' = 0
  /\ nTrades' = 0
  /\ returns' = << >>
  /\ UNCHANGED <<loop, memory, positions, ledgers>>
-------------------------------------------------------------------------------
(***************************************************************************)
(* accumulate (reference_loop.py, and the Rust kernel that mirrors it).    *)
(* A return is kept as what the market paid on the position over the price *)
(* it is relative to, and what the change of position cost.                *)
(***************************************************************************)
MarketMove(p, now) == IF now = 0 THEN 0 ELSE p[now] - p[now - 1]
Base(p, now) == IF now = 0 THEN 1 ELSE p[now - 1]
Traded(now) == Distance(positions[now + 1], prevPos)

\* Mutant: the position of the period earns the move that led to it.
EarnsNow(now) == positions[now + 1] * MarketMove(prices, now)

\* return[t] = position[t-1] * (price[t] / price[t-1] - 1) - cost[t]
Earns(now) == prevPos * MarketMove(prices, now)

\* Mutant: prev_pos stays what it was unless the position was opened.
PrevAfterOpening(now) == IF prevPos = 0 THEN positions[now + 1] ELSE prevPos

PrevAfter(now) == positions[now + 1]

\* Mutant: the engine charges the desk too, which pays its own execution.
EngineRateAlways == CostRate

\* The desk's engine runs with LinearCostModel(0, 0).
EngineRate == IF strategy.kind = "desk" THEN 0 ELSE CostRate

Accumulate ==
  /\ phase = "accumulate"
  /\ InSeries
  /\ returns' = Append(returns, [gain |-> Earns(t), base |-> Base(prices, t),
                                 cost |-> EngineRate * Traded(t)])
  /\ nTrades' = nTrades + (IF Traded(t) # 0 THEN 1 ELSE 0)
  /\ prevPos' = PrevAfter(t)
  /\ t' = t + 1
  /\ UNCHANGED <<phase, loop, memory, positions, ledgers>>

\* run() returns its ledger.
Finish ==
  /\ phase = "accumulate"
  /\ ~InSeries
  /\ phase' = "idle"
  /\ ledgers' = ledgers \union {[strategy |-> strategy, prices |-> prices,
                                 positions |-> positions, returns |-> returns,
                                 nTrades |-> nTrades]}
  /\ UNCHANGED <<t, loop, account, memory, positions>>

Next == \/ Start \/ MeanReversion \/ Read \/ ReadRaises \/ Fail
        \/ PhaseTwo \/ Accumulate \/ Finish

Spec == Init /\ [][Next]_vars
-------------------------------------------------------------------------------
(***************************************************************************)
(* Properties.                                                             *)
(***************************************************************************)
Positions == {-1, 0, 1}
Returns == [gain : Int, base : Nat \ {0}, cost : Nat]

\* Type invariant.
TypeOK ==
  /\ phase \in {"idle", "signal", "accumulate"}
  /\ strategy \in Strategies
  /\ prices \in Series \union {<< >>}
  /\ phase # "idle" => prices \in Series
  /\ t \in Nat
  /\ memory \in Positions
  /\ positions \in Seq(Int)
  /\ prevPos \in Int
  /\ nTrades \in Nat
  /\ returns \in Seq(Returns)
  /\ runs \in 0 .. MaxRuns

Agree(p, q, now) == \A i \in 0 .. now : p[i] = q[i]

\* Point in time and reproducible at once: what a strategy decided up to an
\* instant is determined by the prices up to that instant, neither by the rest
\* of the series nor by what earlier runs, finished or not, left in the strategy.
DecisionsAreCausal ==
  \A a, b \in ledgers : a.strategy = b.strategy =>
    \A now \in DOMAIN a.prices \intersect DOMAIN b.prices :
      Agree(a.prices, b.prices, now) => a.positions[now + 1] = b.positions[now + 1]

\* A position earns the moves that follow its decision, never the one it was
\* decided on: two runs over the same prices that held the same position before
\* an instant earn the same at it, whatever they decide there.
DecisionsEarnLater ==
  \A a, b \in ledgers : a.prices = b.prices =>
    \A now \in DOMAIN a.prices :
      (now > 0 => a.positions[now] = b.positions[now])
        => a.returns[now + 1].gain = b.returns[now + 1].gain

\* What the costs are charged on is the way the position really went: their sum
\* is the rate times the distance travelled from flat, trade by trade.
CostsFollowPositions ==
  \A a \in ledgers : a.strategy.kind # "desk" =>
    LET Before(i) == IF i = 1 THEN 0 ELSE a.positions[i - 1]
    IN  /\ SumFunction([i \in DOMAIN a.returns |-> a.returns[i].cost])
             = CostRate * SumFunction([i \in DOMAIN a.positions |->
                                         Distance(a.positions[i], Before(i))])
        /\ a.nTrades = Cardinality({i \in DOMAIN a.positions : a.positions[i] # Before(i)})

\* A held position is one the dead band has not closed: it was opened against a
\* deviation beyond the entry threshold, and no score since then was inside the
\* exit threshold.
HeldSinceEntry ==
  \A a \in ledgers : a.strategy.kind = "mean_reversion" =>
    \A i \in DOMAIN a.positions : a.positions[i] # 0 =>
      \E entry \in 1 .. i :
        /\ HasScore(a.prices, entry - 1)
        /\ Reaches(a.prices, entry - 1, ZEntry)
        /\ a.positions[i] * Deviation(a.prices, entry - 1) < 0
        /\ \A k \in entry + 1 .. i :
             HasScore(a.prices, k - 1) => ~AtMost(a.prices, k - 1, ZExit)
===============================================================================
