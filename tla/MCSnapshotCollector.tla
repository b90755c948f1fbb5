------------------------- MODULE MCSnapshotCollector -------------------------
(***************************************************************************)
(* SnapshotCollector on small instances: two offers of one product that    *)
(* differ in their price, their optional columns and their provenance,  *)
(* and a legacy CSV file that holds one reading of month 0.                *)
(***************************************************************************)
EXTENDS SnapshotCollector, TLC

CONSTANTS v1, v2, p1, p2, gpu

MCPrices == {1, 2}
MCDetails == {"none", "eu"}

Offer(price, detail, simulated) ==
  [product |-> gpu, price |-> price, detail |-> detail, simulated |-> simulated]

MCListings == {Offer(1, "eu", TRUE), Offer(2, "none", FALSE)}

MCHistory == {[at |-> 0, venue |-> v1, offer |-> Offer(1, "none", FALSE)]}

\* Instants 0 and 1 fall in the month of the legacy file, 2 in the next one.
MCMonthOf == [t \in 0 .. MaxInstant |-> IF t < 2 THEN 0 ELSE 1]

MCCrashAnywhere == Points \ {"idle"}

\* Every point but those between opening a CSV file and closing it.
MCCrashBetweenFiles == MCCrashAnywhere \ {"fill", "rewrite"}
=============================================================================
