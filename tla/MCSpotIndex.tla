------------------------------ MODULE MCSpotIndex ------------------------------
(***************************************************************************)
(* SpotIndex on small instances: the window is one instant wide beside the *)
(* present one and k = 5/2, as in DEFAULT_INDEX_CONFIG.  The trim is 25 %  *)
(* where four voters are meant to be trimmed, and 20 % elsewhere.          *)
(***************************************************************************)
EXTENDS SpotIndex, TLC

Id(agg, v) == [aggregator |-> agg, venue |-> v]
D(v) == Id(NoAggregator, v)
Offer(id, product, price, availability) ==
  [id |-> id, product |-> product, price |-> price, availability |-> availability]

MCPair == {D("datacrunch"), Id("primeintellect", "datacrunch")}
MCFour == MCPair \union {D("vastai"), D("runpod"), D("cudo")}
MCNone == {}

MCTwoQuotes == {Offer("a", "H100", 1, 0), Offer("b", "H100", 4, 2)}
MCHalves == {Offer("a", "H100", 4, 1), Offer("b", "H100", 5, 0), Offer("c", "H100", 20, 3)}
===============================================================================
