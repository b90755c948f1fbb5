----------------------------- MODULE MCCollection -----------------------------
(***************************************************************************)
(* Collection with every venue on its own and pairs that differ in their   *)
(* calls; machines of several GPUs, one without a spot price.              *)
(***************************************************************************)
EXTENDS Collection

Big == [model |-> "H100", gpus |-> 4, price |-> 3, spot |-> 1, open |-> TRUE]
Small == [model |-> "A100", gpus |-> 2, price |-> 2, spot |-> 0, open |-> TRUE]

MCMachines == {Big, Small}
MCConfigurations ==
  {{v} : v \in Venues} \union {{"vastai", "datacrunch"}, {"runpod", "hyperstack"}}
===============================================================================
