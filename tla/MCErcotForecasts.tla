---------------------------- MODULE MCErcotForecasts ----------------------------
(***************************************************************************)
(* ErcotForecasts over two days of two hours of two quarters: one hour of  *)
(* the second day is dearer than the day before, the other is not.  The    *)
(* two forecasts differ in every hour and in every ramp.                   *)
(***************************************************************************)
EXTENDS ErcotForecasts

MCRtmPaths == {[q \in 0 .. 7 |-> CASE q < 2 -> 2 [] q \in 2 .. 3 -> 8 [] q = 4 -> 9 [] OTHER -> 3]}
Rising == [h \in Hours |-> h * h]
Falling == [h \in Hours |-> 50 - h]
MCProfiles == [load_forecast |-> {Rising}, available_capacity |-> {Falling},
               net_load_forecast |-> {Rising, Falling}]
MCLimits == [live |-> 3, backfill |-> 4]
MCRanges == {<<0, 8>>, <<4, 8>>}
MCPct == <<1, 2>>
===============================================================================
