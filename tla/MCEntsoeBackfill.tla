---------------------------- MODULE MCEntsoeBackfill ----------------------------
(***************************************************************************)
(* EntsoeBackfill with the two zones of the code.  The market has every    *)
(* price, or lacks some of both zones, or all of one.                      *)
(***************************************************************************)
EXTENDS EntsoeBackfill

MCZones == <<"FR", "DE_LU">>
Lacking(holes) == [i \in Intervals |-> IF i \in holes THEN NoPrice ELSE 1 + (i % 2)]
Market(fr, de) == [z \in ZoneSet |-> Lacking(IF z = "FR" THEN fr ELSE de)]
MCMarkets == {Market({}, {}), Market({1, 2}, {2}), Market(Intervals, {})}
===============================================================================
