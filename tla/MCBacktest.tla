------------------------------ MODULE MCBacktest ------------------------------
(***************************************************************************)
(* Backtest and Desk on small instances: a window of three prices, an      *)
(* entry at z = 1, which three prices can just exceed, an exit at z = 1/2; *)
(* readers of the first price, of the second one before it is there, and   *)
(* of a negative index; a desk of three producers whose limit is reached.  *)
(***************************************************************************)
EXTENDS Desk, TLC

MCAsked == {-1, 0, 1}
MCProducers == <<"constant", "mean_reversion", "futures_basis">>
===============================================================================
