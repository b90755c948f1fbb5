---------------------------------- MODULE Desk ----------------------------------
(***************************************************************************)
(* The desk of projects/10_portfolio_execution: one strategy of the        *)
(* backtest engine that asks several signal producers, weights them by the *)
(* inverse of the volatility each of them realized so far, and takes the   *)
(* clipped net position.  The engine runs it free of cost; what execution  *)
(* costs is taken off the ledger afterwards.                               *)
(*                                                                         *)
(* A signal is in Grain-ths and a weight in Unit-ths, both rounded towards *)
(* zero; a position, their product, is in (Grain * Unit)-ths; a return of  *)
(* the market in PriceScale-ths.                                           *)
(***************************************************************************)
EXTENDS Backtest, SequencesExt

CONSTANTS Producers,      \* kinds of the producers, a sequence
          BasisLookback,
          VolLookback,
          VolFloor,
          GrossCap,       \* in (Grain * Unit)-ths
          ImpactKappa,
          Grain, Unit, PriceScale,
          Common          \* a multiple of every position before clipping

VARIABLES desk,           \* state of the DeskStrategy object
          results         \* DeskResults of the runs that ended (history)

deskVars == <<vars, desk, results>>

ASSUME DeskAssumption ==
  /\ Producers \in Seq({"constant", "mean_reversion", "futures_basis"}) \ {<< >>}
  /\ BasisLookback \in Nat /\ BasisLookback >= 2
  /\ VolLookback \in Nat /\ VolLookback >= 2
  /\ VolFloor \in Nat \ {0} /\ GrossCap \in Nat \ {0}
  /\ ImpactKappa \in Nat
  /\ Grain \in Nat \ {0} /\ Unit \in Nat \ {0}
  /\ PriceScale \in Nat /\ \A p \in Prices : PriceScale % p = 0
  /\ Common \in Nat /\ \A n \in 1 .. Grain * Unit : Common % n = 0

Signals == DOMAIN Producers
PerSignal(Op(_)) == [i \in Signals |-> Op(i)]

Blank == [prev |-> PerSignal(LAMBDA i : 0), buffer |-> << >>, records |-> << >>]

DeskInit == Init /\ desk = Blank /\ results = {}

\* Mutant: the records of the last run are kept.
ResetDecisions(now, object) ==
  IF now = 0 THEN [Blank EXCEPT !.records = object.records] ELSE object

\* _reset, at t == 0
ResetDesk(now, object) == IF now = 0 THEN Blank ELSE object
-------------------------------------------------------------------------------
(***************************************************************************)
(* Signals.                                                                *)
(***************************************************************************)
\* z of the last of n changes of sum sum and of squares squares, its square
\* compared with that of level / Grain.
Attains(last, sum, squares, n, level) ==
  (n * last - sum) * (n * last - sum) * (n - 1) * Grain * Grain
    >= n * (n * squares - sum * sum) * level * level

Magnitude(x) == IF x < 0 THEN -x ELSE x
Signum(x) == CASE x > 0 -> 1 [] x < 0 -> -1 [] OTHER -> 0

\* FuturesBasisSignal.signal: the z-score of the last change of the basis,
\* clipped to one.  The basis of a cost of carry is a multiple of the price, a
\* positive one above the convenience yield, and the z-score of its changes is
\* that of the changes of the price.
FuturesBasis(p, now) ==
  LET changes == now - BasisLookback + 1 .. now
      change(k) == p[k] - p[k - 1]
      sum     == SumFunction([k \in changes |-> change(k)])
      squares == SumFunction([k \in changes |-> change(k) * change(k)])
  IN  IF now < BasisLookback \/ BasisLookback * squares = sum * sum THEN 0
      ELSE Signum(BasisLookback * change(now) - sum)
             * Max({level \in 0 .. Grain : Attains(change(now), sum, squares, BasisLookback, level)})

Signal(kind, p, now, position) ==
  CASE kind = "constant" -> Grain
    [] kind = "mean_reversion" -> Grain * position
    [] kind = "futures_basis" -> FuturesBasis(p, now)
-------------------------------------------------------------------------------
(***************************************************************************)
(* Portfolio construction.                                                 *)
(***************************************************************************)
SquareRoot(n) == CHOOSE r \in 0 .. n : r * r <= n /\ n < (r + 1) * (r + 1)

\* _estimate_vols over the returns a signal realized, as a multiple the signals
\* have in common, then the floor.
Volatility(buffer, i) ==
  LET recent  == SubSeq(buffer, Max({1, Len(buffer) - VolLookback + 1}), Len(buffer))
      sum     == SumFunction([k \in DOMAIN recent |-> recent[k][i]])
      squares == SumFunction([k \in DOMAIN recent |-> recent[k][i] * recent[k][i]])
  IN  IF Len(buffer) < 2 THEN 1 ELSE SquareRoot(Len(recent) * squares - sum * sum)

\* inverse_vol_weights: inverses over their common denominator.
Weights(vols) ==
  LET inverse(i) == FoldFunctionOnSet(LAMBDA x, y : x * y, 1, vols, Signals \ {i})
      total == SumFunction(PerSignal(inverse))
  IN  PerSignal(LAMBDA i : (Unit * inverse(i)) \div total)

Clip(x) == CASE x > GrossCap -> GrossCap [] x < -GrossCap -> -GrossCap [] OTHER -> x

MarketReturn(p, now) == (PriceScale * MarketMove(p, now)) \div Base(p, now)
-------------------------------------------------------------------------------
\* The signals of the producers, who share one mean reversion.
Current(p, now, position) == PerSignal(LAMBDA i : Signal(Producers[i], p, now, position))

\* The returns that the signals of the last step realized are booked, and the
\* present ones weighted.
Book(start, now, move, current) ==
  LET earned  == PerSignal(LAMBDA i : start.prev[i] * move)
      buffer  == IF now = 0 THEN start.buffer ELSE Append(start.buffer, earned)
      weights == Weights(PerSignal(LAMBDA i : Max({Volatility(buffer, i), VolFloor})))
      shares  == PerSignal(LAMBDA i : weights[i] * current[i])
      raw     == SumFunction(shares)
  IN  [prev |-> current, buffer |-> buffer,
       records |-> Append(start.records, [mkt |-> move, shares |-> shares,
                                          raw |-> raw, position |-> Clip(raw)])]

\* The desk object after the step.
DeskAfter(p, now, object, position) ==
  Book(ResetDesk(now, object), now, MarketReturn(p, now), Current(p, now, position))

\* DeskStrategy.signal
DeskSignal ==
  /\ phase = "signal"
  /\ strategy.kind = "desk"
  /\ InSeries
  /\ memory' = Held(prices, t, memory)
  /\ desk' = DeskAfter(prices, t, desk, memory')
  /\ positions' = Append(positions, Last(desk'.records).position)
  /\ t' = t + 1
  /\ UNCHANGED <<phase, loop, account, ledgers, results>>

\* components[step][i], Common times
Component(record, i) ==
  IF record.raw = 0 THEN 0
  ELSE record.shares[i] * Magnitude(record.position) * (Common \div Magnitude(record.raw))

\* _attribution: component[t-1] times the market's return at t
Attribution(records) ==
  PerSignal(LAMBDA i :
    SumFunction([k \in 2 .. Len(records) |-> Component(records[k - 1], i) * records[k].mkt]))

\* ExecutionModel.apply: the cost of each change of position, from flat.
ExecutionCosts(path) ==
  LET delta(k) == Distance(path[k], IF k = 1 THEN 0 ELSE path[k - 1])
  IN  [k \in DOMAIN path |-> CostRate * delta(k) + ImpactKappa * delta(k) * delta(k)]

\* run_desk_backtest: the engine's ledger, net of execution, and the attribution.
DeskFinish ==
  /\ Finish
  /\ LET gross(k) == (PriceScale * returns[k].gain) \div returns[k].base - returns[k].cost
         costs == ExecutionCosts(positions)
     IN  results' = results \union
           {[positions |-> positions,
             net |-> [k \in DOMAIN returns |-> gross(k) - costs[k]],
             attribution |-> Attribution(desk.records)]}
  /\ UNCHANGED desk

DeskNext ==
  \/ DeskSignal
  \/ strategy.kind = "desk" /\ DeskFinish
  \/ strategy.kind # "desk" /\ Finish /\ UNCHANGED <<desk, results>>
  \/ (Start \/ MeanReversion \/ Read \/ ReadRaises \/ Fail \/ PhaseTwo \/ Accumulate)
       /\ UNCHANGED <<desk, results>>

DeskSpec == DeskInit /\ [][DeskNext]_deskVars
-------------------------------------------------------------------------------
(***************************************************************************)
(* Properties.                                                             *)
(***************************************************************************)
\* The account of the desk is closed: what the signals are said to have earned,
\* less what each trade costs once, is what the desk reports as its net result,
\* whatever the runs before it left in the strategy object and wherever the
\* position was clipped.
AttributionAddsUp ==
  \A r \in results :
    LET before(k) == IF k = 1 THEN 0 ELSE r.positions[k - 1]
        traded(k) == Distance(r.positions[k], before(k))
    IN  SumFunction(r.attribution)
          = Common * (SumFunction(r.net)
                        + SumFunction([k \in DOMAIN r.positions |->
                                         CostRate * traded(k)
                                           + ImpactKappa * traded(k) * traded(k)]))
===============================================================================
