----------------------------- MODULE MCSpreadStudies -----------------------------
(***************************************************************************)
(* SpreadStudies over two to six instants: two prices, one of power that   *)
(* is negative, a reading that is fresh for one more instant, two regions  *)
(* of different load, and one revision that is known two instants later.   *)
(* The basis has three hours, so that a late price comes before, at and    *)
(* after one that is carried.                                              *)
(***************************************************************************)
EXTENDS SpreadStudies, TLC

MCRegions == {"FR", "DE"}
MCPowerPrices == [r \in MCRegions |-> IF r = "FR" THEN {-1, 2} ELSE {2}]
MCLoad == [r \in MCRegions |-> IF r = "FR" THEN 2 ELSE 3]
MCMaxInstant ==
  [s \in Studies |-> CASE s = "basis" -> 1 [] s = "spread" -> 3 [] s = "examples" -> 4
                       [] s = "volatility" -> 5]
MCSynthetic == [r \in MCRegions |-> [t \in 0 .. 2 |-> IF r = "FR" THEN t ELSE 1]]
MCFx == [r \in MCRegions |-> 5]
===============================================================================
