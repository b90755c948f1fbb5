--------------------------------- MODULE Venues ---------------------------------
(***************************************************************************)
(* The answers of the GPU marketplaces and the parsers that turn them into *)
(* offers priced per GPU and hour (core/ingestion/providers).  A machine   *)
(* is what a venue rents; each venue states it in its own unit, so a       *)
(* parser must divide, or must not.  A price of 0 means that there is none.*)
(***************************************************************************)
EXTENDS Integers, FiniteSets

Venues == {"vastai", "runpod", "primeintellect", "datacrunch", "cudo",
           "hyperstack", "tensordock"}

\* The order of PROVIDERS.
Registry == <<"vastai", "runpod", "primeintellect", "datacrunch", "cudo",
              "hyperstack", "tensordock">>

\* Calls of one fetch: DataCrunch asks for a token first, Hyperstack for the
\* flavors first and the pricebook last.
Calls == [v \in Venues |-> IF v \in {"datacrunch", "hyperstack"} THEN 2 ELSE 1]

Offer(v, provider, model, lease, price, availability) ==
  [venue |-> v, provider |-> provider, model |-> model, lease |-> lease,
   price |-> price, availability |-> availability]

Direct(v, model, lease, price, availability) ==
  Offer(v, v, model, lease, price, availability)
-------------------------------------------------------------------------------
(***************************************************************************)
(* What the venues answer (external).                                      *)
(***************************************************************************)
IfOpen(m, x) == IF m.open THEN x ELSE 0

VastaiOffers(machines) ==
  {[gpu_name |-> m.model, num_gpus |-> m.gpus, dph_total |-> m.gpus * m.price,
    rentable |-> m.open] : m \in machines}

RunpodTypes(machines) ==
  {[displayName |-> m.model, securePrice |-> IfOpen(m, IF m.price = 0 THEN 0 ELSE m.price + 1),
    communityPrice |-> IfOpen(m, m.price)] : m \in machines}

PrimeintellectItems(machines) ==
  {[gpuType |-> m.model, gpuCount |-> m.gpus, onDemand |-> m.gpus * m.price,
    isSpot |-> FALSE, provider |-> "datacrunch"] : m \in machines}

InstanceTypes(machines) ==
  {[description |-> m.model, number_of_gpus |-> m.gpus,
    price_per_hour |-> m.gpus * m.price, spot_price |-> m.gpus * m.spot] : m \in machines}

MachineTypes(machines) ==
  {[gpuModel |-> m.model, gpuPriceHr |-> m.price, totalGpuFree |-> IfOpen(m, m.gpus)] :
     m \in machines}

\* A flavor names a GPU type, the pricebook prices the types.
Type(model, lease) == <<model, lease>>

Flavors(machines) ==
  {[gpu |-> Type(m.model, lease), gpu_count |-> m.gpus, stock |-> IfOpen(m, 1)] :
     m \in machines, lease \in {"on_demand", "spot"}}

Pricebook(machines) ==
  {[name |-> Type(m.model, "on_demand"), value |-> m.price] : m \in machines} \union
  {[name |-> Type(m.model, "spot"), value |-> m.spot] : m \in machines}

Hostnodes(machines) ==
  {[type |-> m.model, amount |-> IfOpen(m, m.gpus), price |-> m.price] : m \in machines}
-------------------------------------------------------------------------------
(***************************************************************************)
(* The parsers.                                                            *)
(***************************************************************************)
\* Mutant: the price of the machine is taken for that of a GPU.
ParseVastaiMachine(offers) ==
  {Direct("vastai", o.gpu_name, "on_demand", o.dph_total, o.num_gpus) :
     o \in {x \in offers : x.rentable /\ x.num_gpus > 0}}

\* The price of a rentable machine is divided over its GPUs; it may be 0.
ParseVastai(offers) ==
  {Direct("vastai", o.gpu_name, "on_demand", o.dph_total \div o.num_gpus, o.num_gpus) :
     o \in {x \in offers : x.rentable /\ x.num_gpus > 0}}

\* The lower of the prices there are, secure or community.
ParseRunpod(types) ==
  LET Asked(g) == {p \in {g.securePrice, g.communityPrice} : p > 0}
  IN  {Direct("runpod", g.displayName, "on_demand",
              CHOOSE p \in Asked(g) : \A q \in Asked(g) : p <= q, 1) :
         g \in {x \in types : Asked(x) # {}}}

\* The offer covers gpuCount GPUs; its source is qualified by the provider.
ParsePrimeintellect(items) ==
  {Offer("primeintellect", i.provider, i.gpuType, IF i.isSpot THEN "spot" ELSE "on_demand",
         i.onDemand \div i.gpuCount, i.gpuCount) :
     i \in {x \in items : x.gpuCount > 0 /\ x.onDemand > 0}}

\* One offer per lease with a price, of an instance divided over its GPUs.
ParseDatacrunch(types) ==
  LET PriceOf(it, lease) == IF lease = "spot" THEN it.spot_price ELSE it.price_per_hour
  IN  {Direct("datacrunch", p[1].description, p[2], PriceOf(p[1], p[2]) \div p[1].number_of_gpus, 0) :
         p \in {q \in types \X {"on_demand", "spot"} :
                  q[1].number_of_gpus > 0 /\ PriceOf(q[1], q[2]) > 0}}

\* Already the price of one GPU.
ParseCudo(types) ==
  {Direct("cudo", t.gpuModel, "on_demand", t.gpuPriceHr, t.totalGpuFree) :
     t \in {x \in types : x.gpuPriceHr > 0}}

PriceIndex(pricebook) == {e \in pricebook : e.value > 0}

\* Mutant: the flavor is joined on the model, its lease forgotten.
ParseHyperstackModel(flavors, pricebook) ==
  {Direct("hyperstack", p[1].gpu[1], p[1].gpu[2], p[2].value, p[1].stock) :
     p \in {q \in flavors \X PriceIndex(pricebook) :
              q[1].gpu_count > 0 /\ q[1].gpu[1] = q[2].name[1]}}

\* Flavors joined with the pricebook on the GPU type; already per GPU.
ParseHyperstack(flavors, pricebook) ==
  {Direct("hyperstack", p[1].gpu[1], p[1].gpu[2], p[2].value, p[1].stock) :
     p \in {q \in flavors \X PriceIndex(pricebook) :
              q[1].gpu_count > 0 /\ q[1].gpu = q[2].name}}

\* Nodes with GPUs left and a price, assumed to be per GPU.
ParseTensordock(nodes) ==
  {Direct("tensordock", n.type, "on_demand", n.price, n.amount) :
     n \in {x \in nodes : x.amount > 0 /\ x.price > 0}}

\* What a fetch whose first call met the machines `first` and whose last call
\* met the machines `last` returns.
Fetched(v, first, last) ==
  CASE v = "vastai" -> ParseVastai(VastaiOffers(last))
    [] v = "runpod" -> ParseRunpod(RunpodTypes(last))
    [] v = "primeintellect" -> ParsePrimeintellect(PrimeintellectItems(last))
    [] v = "datacrunch" -> ParseDatacrunch(InstanceTypes(last))
    [] v = "cudo" -> ParseCudo(MachineTypes(last))
    [] v = "hyperstack" -> ParseHyperstack(Flavors(first), Pricebook(last))
    [] v = "tensordock" -> ParseTensordock(Hostnodes(last))
===============================================================================
