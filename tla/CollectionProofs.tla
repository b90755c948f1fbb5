---------------------------- MODULE CollectionProofs ----------------------------
(***************************************************************************)
(* What a batch holds and what reaches the branch, whatever machines the   *)
(* venues list, and for every number of runs, retries, changed listings,   *)
(* lost jobs and pushes of others.                                         *)
(***************************************************************************)
EXTENDS Collection, FiniteSetTheorems, TLAPS

N == INSTANCE FiniteInduction

\* The concurrency group.
OneInProgress == \A r, q \in Running : r = q

\* What a venue lists was seen, and so was what its first call met.
ListingsAreSeen ==
  /\ \A v \in Venues : listed[v] \in seen[v]
  /\ call = 2 => next \in DOMAIN Registry /\ first \in seen[Venue]

\* The offers have what the venue rented out, at a price, all the time.
KeptIn(v, offers) ==
  \A m \in Machines : m.open /\ m.price > 0 /\ (\A l \in seen[v] : m \in l) =>
    \E o \in offers : o.venue = v /\ o.model = m.model /\ o.price = m.price

\* The venues behind the next one, unless they were skipped or failed.
BehindIsKept ==
  \A k \in 1 .. next - 1 : Registry[k] \in configured \ failed => KeptIn(Registry[k], out)

\* The rows of the runs that pushed are on the branch, and in a working copy
\* for as long as it can be pushed.
PushedIsKept ==
  /\ \A r \in With("pushed") : r \in branch.runs
  /\ \A r \in Running :
       /\ tree[r].version <= branch.version
       /\ tree[r].version = branch.version => branch.runs \subseteq tree[r].runs
       /\ others = 0 => tree[r].version = branch.version
       /\ job[r] = "saved" => r \in tree[r].runs

NoneIsRefused == others = 0 => With("refused") = {}

JobTypes ==
  /\ branch \in Branches
  /\ job \in [Runs -> {"none", "waiting", "fetching", "saved"} \union Ended]
  /\ tree \in [Runs -> Branches]
  /\ kills \in Nat /\ others \in Nat

BatchTypes ==
  /\ listed \in [Venues -> Listings] /\ configured \in SUBSET Venues
  /\ next \in 1 .. 8 /\ call \in 1 .. 2
  /\ attempt \in 0 .. MaxRetries /\ first \in Listings /\ out \subseteq Offers
  /\ seen \in [Venues -> SUBSET Listings] /\ failed \subseteq Venues /\ relists \in Nat

JobInv == JobTypes /\ OneInProgress /\ PushedIsKept /\ NoneIsRefused
BatchInv == BatchTypes /\ ListingsAreSeen /\ OffersAreListed /\ BehindIsKept

\* The inductive invariant.
IInv == JobInv /\ BatchInv
-------------------------------------------------------------------------------
(***************************************************************************)
(* Lemmas about the registry and the parsers.                              *)
(***************************************************************************)
LEMMA RegistryIsVenues ==
  /\ Len(Registry) = 7 /\ DOMAIN Registry = 1 .. 7
  /\ \A k \in 1 .. 7 : Registry[k] \in Venues
  /\ \A v \in Venues : \E k \in 1 .. 7 : Registry[k] = v
<1>1. Len(Registry) = 7 /\ DOMAIN Registry = 1 .. 7
  BY DEF Registry
<1>2. /\ Registry[1] = "vastai" /\ Registry[2] = "runpod" /\ Registry[3] = "primeintellect"
      /\ Registry[4] = "datacrunch" /\ Registry[5] = "cudo" /\ Registry[6] = "hyperstack"
      /\ Registry[7] = "tensordock"
  BY DEF Registry
<1>3. \A k \in 1 .. 7 : k = 1 \/ k = 2 \/ k = 3 \/ k = 4 \/ k = 5 \/ k = 6 \/ k = 7
  OBVIOUS
<1>4. \A k \in 1 .. 7 : Registry[k] \in Venues
  BY <1>2, <1>3 DEF Venues
<1>5. \A v \in Venues : \E k \in 1 .. 7 : Registry[k] = v
  BY <1>2 DEF Venues
<1> QED
  BY <1>1, <1>4, <1>5

\* The next venue exists, or the end does; the venues in between are skipped.
LEMMA UpNextSkips ==
  ASSUME NEW from \in 1 .. 8
  PROVE  /\ UpNext(from) \in from .. 8
         /\ UpNext(from) \in 1 .. 7 => Registry[UpNext(from)] \in configured
         /\ \A k \in from .. UpNext(from) - 1 : Registry[k] \notin configured
<1> DEFINE S == {n \in from .. 8 : Asked(n)}
<1>1. S \in SUBSET Nat /\ 8 \in S
  BY RegistryIsVenues DEF Asked
<1>2. PICK n \in S : \A k \in S : n <= k
  BY <1>1, N!LeastExists, Zenon
<1>3. n \in from .. 8 /\ Asked(n) /\ \A k \in from .. n - 1 : ~Asked(k)
  BY <1>2
<1> DEFINE u == UpNext(from)
<1>4. u \in from .. 8 /\ Asked(u) /\ \A k \in from .. u - 1 : ~Asked(k)
  <2>1. Len(Registry) + 1 = 8
    BY RegistryIsVenues
  <2>2. \E m \in from .. Len(Registry) + 1 : Asked(m) /\ \A k \in from .. m - 1 : ~Asked(k)
    BY <1>3, <2>1
  <2>3. /\ u \in from .. Len(Registry) + 1
        /\ Asked(u) /\ \A k \in from .. u - 1 : ~Asked(k)
    BY <2>2, Zenon DEF UpNext
  <2> QED
    BY <2>1, <2>3
<1> HIDE DEF u
<1>5. \A k \in from .. u - 1 : Registry[k] \notin configured
  BY <1>4, RegistryIsVenues DEF Asked
<1>6. u \in 1 .. 7 => Registry[u] \in configured
  BY <1>4, RegistryIsVenues DEF Asked
<1> QED
  BY <1>4, <1>5, <1>6 DEF u

\* A price that was multiplied for a machine is divided for the GPU.
LEMMA PerGpu == \A g \in Nat \ {0}, p \in Nat : (g * p) \div g = p
<1> SUFFICES ASSUME NEW g \in Nat, 0 < g, NEW p \in Nat PROVE (g * p) \div g = p
  OBVIOUS
<1> QED
  OBVIOUS

LEMMA MachineFields ==
  ASSUME NEW l \in Listings, NEW m \in l
  PROVE  /\ m \in Machines /\ m.gpus \in Nat \ {0} /\ m.price \in Nat /\ m.spot \in Nat
         /\ m.open \in BOOLEAN
         /\ m.gpus * m.price \in Nat /\ m.gpus * m.spot \in Nat
         /\ (m.gpus * m.price) \div m.gpus = m.price
         /\ (m.gpus * m.spot) \div m.gpus = m.spot
<1>1. m \in Machines
  BY DEF Listings
<1>2. m.gpus \in Nat \ {0} /\ m.price \in Nat /\ m.spot \in Nat /\ m.open \in BOOLEAN
  BY <1>1, CollectionAssumption
<1> QED
  BY <1>1, <1>2, PerGpu

\* The offer is that of a machine, by its lease.
States(o, m) ==
  /\ m.model = o.model
  /\ o.price = IF o.lease = "spot" THEN m.spot ELSE m.price
-------------------------------------------------------------------------------
(***************************************************************************)
(* What each parser returns states a machine, and leaves none out that is  *)
(* for rent at a price.                                                    *)
(***************************************************************************)
\* An offer is well formed and states a machine of the last call.
Right(v, offers, last) ==
  \A o \in offers : o \in Offers /\ o.venue = v /\ \E m \in last : States(o, m)

\* A machine that both calls met, for rent at a price, is offered.
Complete(v, offers, first_, last) ==
  \A m \in first_ \intersect last : m.open /\ m.price > 0 =>
    \E o \in offers : o.venue = v /\ o.model = m.model /\ o.price = m.price

\* The offers of a venue that state the machine under the lease.
Stated(v, m, lease) ==
  {o \in Offers : /\ o.venue = v /\ o.model = m.model /\ o.lease = lease
                  /\ o.price = IF lease = "spot" THEN m.spot ELSE m.price}

LEMMA OfferIsStated ==
  ASSUME NEW v \in Venues, NEW provider \in Venues, NEW l \in Listings, NEW m \in l,
         NEW lease \in {"on_demand", "spot"}, NEW availability \in Nat, NEW price,
         price = IF lease = "spot" THEN m.spot ELSE m.price
  PROVE  Offer(v, provider, m.model, lease, price, availability) \in Stated(v, m, lease)
<1>1. m.model \in {x.model : x \in Machines}
  BY DEF Listings
<1>2. price \in Nat
  BY MachineFields
<1> QED
  BY <1>1, <1>2 DEF Offer, Offers, Stated

LEMMA StatedIsRight ==
  ASSUME NEW v, NEW l, NEW offers,
         \A o \in offers : \E m \in l : \E lease \in {"on_demand", "spot"} : o \in Stated(v, m, lease)
  PROVE  Right(v, offers, l)
BY DEF Right, Stated, States

LEMMA StatedIsComplete ==
  ASSUME NEW v, NEW first_, NEW l, NEW offers,
         \A m \in first_ \intersect l : m.open /\ m.price > 0 =>
           \E o \in offers : o \in Stated(v, m, "on_demand")
  PROVE  Complete(v, offers, first_, l)
BY DEF Complete, Stated

LEMMA VastaiParsed ==
  ASSUME NEW l \in Listings
  PROVE  LET offers == ParseVastai(VastaiOffers(l))
         IN  Right("vastai", offers, l) /\ Complete("vastai", offers, l, l)
<1> DEFINE Row(m) == [gpu_name |-> m.model, num_gpus |-> m.gpus, dph_total |-> m.gpus * m.price,
                      rentable |-> m.open]
           Made(x) == Offer("vastai", "vastai", x.gpu_name, "on_demand",
                            x.dph_total \div x.num_gpus, x.num_gpus)
           offers == ParseVastai(VastaiOffers(l))
<1>1. VastaiOffers(l) = {Row(m) : m \in l}
  BY DEF VastaiOffers
<1>2. offers = {Made(x) : x \in {y \in VastaiOffers(l) : y.rentable /\ y.num_gpus > 0}}
  BY DEF ParseVastai, Direct
<1>3. \A m \in l : Made(Row(m)) = Offer("vastai", "vastai", m.model, "on_demand", m.price, m.gpus)
  BY MachineFields
<1>4. \A m \in l : Row(m).rentable = m.open /\ Row(m).num_gpus = m.gpus
  OBVIOUS
<1> HIDE DEF Row, Made
<1>5. \A m \in l : Made(Row(m)) \in Stated("vastai", m, "on_demand")
  <2> SUFFICES ASSUME NEW m \in l PROVE Made(Row(m)) \in Stated("vastai", m, "on_demand")
    OBVIOUS
  <2>1. "vastai" \in Venues /\ m.gpus \in Nat
    BY MachineFields DEF Venues
  <2> QED
    BY <1>3, <2>1, OfferIsStated
<1>6. \A o \in offers : \E m \in l : o = Made(Row(m))
  BY <1>1, <1>2
<1>7. \A m \in l : m.open => Made(Row(m)) \in offers
  BY <1>1, <1>2, <1>4, MachineFields
<1> HIDE DEF offers
<1> QED
  BY <1>5, <1>6, <1>7, StatedIsRight, StatedIsComplete DEF offers

LEMMA RunpodParsed ==
  ASSUME NEW l \in Listings
  PROVE  LET offers == ParseRunpod(RunpodTypes(l))
         IN  Right("runpod", offers, l) /\ Complete("runpod", offers, l, l)
<1> DEFINE Row(m) == [displayName |-> m.model,
                      securePrice |-> IfOpen(m, IF m.price = 0 THEN 0 ELSE m.price + 1),
                      communityPrice |-> IfOpen(m, m.price)]
           Prices(x) == {p \in {x.securePrice, x.communityPrice} : p > 0}
           Least(x) == CHOOSE p \in Prices(x) : \A q \in Prices(x) : p <= q
           Made(x) == Offer("runpod", "runpod", x.displayName, "on_demand", Least(x), 1)
           offers == ParseRunpod(RunpodTypes(l))
<1>1. RunpodTypes(l) = {Row(m) : m \in l}
  BY DEF RunpodTypes
<1>2. offers = {Made(x) : x \in {y \in RunpodTypes(l) : Prices(y) # {}}}
  BY DEF ParseRunpod, Direct
<1>3. ASSUME NEW m \in l
      PROVE  /\ Prices(Row(m)) # {} <=> m.open /\ m.price > 0
             /\ Prices(Row(m)) # {} =>
                  Made(Row(m)) = Offer("runpod", "runpod", m.model, "on_demand", m.price, 1)
  <2>1. /\ Row(m).securePrice = IfOpen(m, IF m.price = 0 THEN 0 ELSE m.price + 1)
        /\ Row(m).communityPrice = IfOpen(m, m.price)
        /\ Row(m).displayName = m.model
    OBVIOUS
  <2> HIDE DEF Row
  <2>2. m.price \in Nat /\ m.open \in BOOLEAN
    BY MachineFields
  <2>3. CASE m.open /\ m.price > 0
    <3>1. Prices(Row(m)) = {m.price, m.price + 1}
      BY <2>1, <2>2, <2>3 DEF IfOpen
    <3> DEFINE asked == Prices(Row(m))
    <3>2. \A p \in asked : (\A q \in asked : p <= q) <=> p = m.price
      BY <2>2, <3>1
    <3>3. m.price \in asked
      BY <3>1
    <3>4. Least(Row(m)) = m.price
      <4> HIDE DEF asked
      <4>1. (CHOOSE p \in asked : \A q \in asked : p <= q) = m.price
        BY <3>2, <3>3
      <4> QED
        BY <4>1 DEF asked
    <3> HIDE DEF asked
    <3>5. Made(Row(m)) = Offer("runpod", "runpod", m.model, "on_demand", m.price, 1)
      BY <2>1, <3>4, Zenon
    <3> QED
      BY <2>3, <3>1, <3>5
  <2>4. CASE ~(m.open /\ m.price > 0)
    <3>1. Prices(Row(m)) = {}
      BY <2>1, <2>2, <2>4 DEF IfOpen
    <3> QED
      BY <2>4, <3>1
  <2> QED
    BY <2>3, <2>4
<1> HIDE DEF Row, Made, Prices
<1>4. \A m \in l : Prices(Row(m)) # {} => Made(Row(m)) \in Stated("runpod", m, "on_demand")
  <2> SUFFICES ASSUME NEW m \in l, Prices(Row(m)) # {}
               PROVE  Made(Row(m)) \in Stated("runpod", m, "on_demand")
    OBVIOUS
  <2>1. "runpod" \in Venues /\ 1 \in Nat
    BY DEF Venues
  <2> QED
    BY <1>3, <2>1, OfferIsStated
<1>5. \A o \in offers : \E m \in l : o = Made(Row(m)) /\ Prices(Row(m)) # {}
  BY <1>1, <1>2
<1>6. \A m \in l : m.open /\ m.price > 0 => Made(Row(m)) \in offers /\ Prices(Row(m)) # {}
  BY <1>1, <1>2, <1>3
<1> HIDE DEF offers
<1> QED
  BY <1>4, <1>5, <1>6, StatedIsRight, StatedIsComplete DEF offers

LEMMA PrimeintellectParsed ==
  ASSUME NEW l \in Listings
  PROVE  LET offers == ParsePrimeintellect(PrimeintellectItems(l))
         IN  Right("primeintellect", offers, l) /\ Complete("primeintellect", offers, l, l)
<1> DEFINE Row(m) == [gpuType |-> m.model, gpuCount |-> m.gpus, onDemand |-> m.gpus * m.price,
                      isSpot |-> FALSE, provider |-> "datacrunch"]
           Accepted(x) == x.gpuCount > 0 /\ x.onDemand > 0
           Made(x) == Offer("primeintellect", x.provider, x.gpuType,
                            IF x.isSpot THEN "spot" ELSE "on_demand",
                            x.onDemand \div x.gpuCount, x.gpuCount)
           offers == ParsePrimeintellect(PrimeintellectItems(l))
<1>1. PrimeintellectItems(l) = {Row(m) : m \in l}
  BY DEF PrimeintellectItems
<1>2. offers = {Made(x) : x \in {y \in PrimeintellectItems(l) : Accepted(y)}}
  BY DEF ParsePrimeintellect, Direct
<1>3. \A m \in l : Made(Row(m)) = Offer("primeintellect", "datacrunch", m.model, "on_demand", m.price, m.gpus)
  BY MachineFields
<1>4. \A m \in l : m.open /\ m.price > 0 => Accepted(Row(m))
  BY MachineFields DEF IfOpen
<1> HIDE DEF Row, Made, Accepted
<1>5. \A m \in l : Made(Row(m)) \in Stated("primeintellect", m, "on_demand")
  <2> SUFFICES ASSUME NEW m \in l PROVE Made(Row(m)) \in Stated("primeintellect", m, "on_demand")
    OBVIOUS
  <2>1. "primeintellect" \in Venues /\ "datacrunch" \in Venues /\ m.gpus \in Nat
    BY MachineFields DEF Venues, IfOpen
  <2> QED
    BY <1>3, <2>1, OfferIsStated
<1>6. \A o \in offers : \E m \in l : o = Made(Row(m))
  BY <1>1, <1>2
<1>7. \A m \in l : m.open /\ m.price > 0 => Made(Row(m)) \in offers
  BY <1>1, <1>2, <1>4
<1> HIDE DEF offers
<1> QED
  BY <1>5, <1>6, <1>7, StatedIsRight, StatedIsComplete DEF offers


LEMMA CudoParsed ==
  ASSUME NEW l \in Listings
  PROVE  LET offers == ParseCudo(MachineTypes(l))
         IN  Right("cudo", offers, l) /\ Complete("cudo", offers, l, l)
<1> DEFINE Row(m) == [gpuModel |-> m.model, gpuPriceHr |-> m.price, totalGpuFree |-> IfOpen(m, m.gpus)]
           Accepted(x) == x.gpuPriceHr > 0
           Made(x) == Offer("cudo", "cudo", x.gpuModel, "on_demand", x.gpuPriceHr, x.totalGpuFree)
           offers == ParseCudo(MachineTypes(l))
<1>1. MachineTypes(l) = {Row(m) : m \in l}
  BY DEF MachineTypes
<1>2. offers = {Made(x) : x \in {y \in MachineTypes(l) : Accepted(y)}}
  BY DEF ParseCudo, Direct
<1>3. \A m \in l : Made(Row(m)) = Offer("cudo", "cudo", m.model, "on_demand", m.price, IfOpen(m, m.gpus))
  BY MachineFields
<1>4. \A m \in l : m.open /\ m.price > 0 => Accepted(Row(m))
  BY MachineFields DEF IfOpen
<1> HIDE DEF Row, Made, Accepted
<1>5. \A m \in l : Made(Row(m)) \in Stated("cudo", m, "on_demand")
  <2> SUFFICES ASSUME NEW m \in l PROVE Made(Row(m)) \in Stated("cudo", m, "on_demand")
    OBVIOUS
  <2>1. "cudo" \in Venues /\ "cudo" \in Venues /\ IfOpen(m, m.gpus) \in Nat
    BY MachineFields DEF Venues, IfOpen
  <2> QED
    BY <1>3, <2>1, OfferIsStated
<1>6. \A o \in offers : \E m \in l : o = Made(Row(m))
  BY <1>1, <1>2
<1>7. \A m \in l : m.open /\ m.price > 0 => Made(Row(m)) \in offers
  BY <1>1, <1>2, <1>4
<1> HIDE DEF offers
<1> QED
  BY <1>5, <1>6, <1>7, StatedIsRight, StatedIsComplete DEF offers


LEMMA TensordockParsed ==
  ASSUME NEW l \in Listings
  PROVE  LET offers == ParseTensordock(Hostnodes(l))
         IN  Right("tensordock", offers, l) /\ Complete("tensordock", offers, l, l)
<1> DEFINE Row(m) == [type |-> m.model, amount |-> IfOpen(m, m.gpus), price |-> m.price]
           Accepted(x) == x.amount > 0 /\ x.price > 0
           Made(x) == Offer("tensordock", "tensordock", x.type, "on_demand", x.price, x.amount)
           offers == ParseTensordock(Hostnodes(l))
<1>1. Hostnodes(l) = {Row(m) : m \in l}
  BY DEF Hostnodes
<1>2. offers = {Made(x) : x \in {y \in Hostnodes(l) : Accepted(y)}}
  BY DEF ParseTensordock, Direct
<1>3. \A m \in l : Made(Row(m)) = Offer("tensordock", "tensordock", m.model, "on_demand", m.price, IfOpen(m, m.gpus))
  BY MachineFields
<1>4. \A m \in l : m.open /\ m.price > 0 => Accepted(Row(m))
  BY MachineFields DEF IfOpen
<1> HIDE DEF Row, Made, Accepted
<1>5. \A m \in l : Made(Row(m)) \in Stated("tensordock", m, "on_demand")
  <2> SUFFICES ASSUME NEW m \in l PROVE Made(Row(m)) \in Stated("tensordock", m, "on_demand")
    OBVIOUS
  <2>1. "tensordock" \in Venues /\ "tensordock" \in Venues /\ IfOpen(m, m.gpus) \in Nat
    BY MachineFields DEF Venues, IfOpen
  <2> QED
    BY <1>3, <2>1, OfferIsStated
<1>6. \A o \in offers : \E m \in l : o = Made(Row(m))
  BY <1>1, <1>2
<1>7. \A m \in l : m.open /\ m.price > 0 => Made(Row(m)) \in offers
  BY <1>1, <1>2, <1>4
<1> HIDE DEF offers
<1> QED
  BY <1>5, <1>6, <1>7, StatedIsRight, StatedIsComplete DEF offers


\* One offer per lease with a price.
LEMMA DatacrunchParsed ==
  ASSUME NEW l \in Listings
  PROVE  LET offers == ParseDatacrunch(InstanceTypes(l))
         IN  Right("datacrunch", offers, l) /\ Complete("datacrunch", offers, l, l)
<1> DEFINE Leases == {"on_demand", "spot"}
           Row(m) == [description |-> m.model, number_of_gpus |-> m.gpus,
                      price_per_hour |-> m.gpus * m.price, spot_price |-> m.gpus * m.spot]
           PriceOf(it, lease) == IF lease = "spot" THEN it.spot_price ELSE it.price_per_hour
           Accepted(it, lease) == it.number_of_gpus > 0 /\ PriceOf(it, lease) > 0
           Made(it, lease) == Offer("datacrunch", "datacrunch", it.description, lease,
                                    PriceOf(it, lease) \div it.number_of_gpus, 0)
           offers == ParseDatacrunch(InstanceTypes(l))
<1>1. InstanceTypes(l) = {Row(m) : m \in l}
  BY DEF InstanceTypes
<1>2. offers = {Made(p[1], p[2]) : p \in {q \in InstanceTypes(l) \X Leases : Accepted(q[1], q[2])}}
  BY DEF ParseDatacrunch, Direct
<1>3. \A m \in l, lease \in Leases :
        Made(Row(m), lease) = Offer("datacrunch", "datacrunch", m.model, lease,
                                    IF lease = "spot" THEN m.spot ELSE m.price, 0)
  <2> SUFFICES ASSUME NEW m \in l, NEW lease \in Leases
               PROVE  PriceOf(Row(m), lease) \div m.gpus = IF lease = "spot" THEN m.spot ELSE m.price
    OBVIOUS
  <2> QED
    BY MachineFields
<1>4. \A m \in l : m.price > 0 => Accepted(Row(m), "on_demand")
  <2> SUFFICES ASSUME NEW m \in l, m.price > 0 PROVE m.gpus > 0 /\ m.gpus * m.price > 0
    OBVIOUS
  <2>1. m.gpus \in Nat /\ 0 < m.gpus /\ m.price \in Nat
    BY MachineFields
  <2> QED
    BY <2>1
<1> HIDE DEF Row, Made, Accepted
<1>5. \A m \in l, lease \in Leases : Made(Row(m), lease) \in Stated("datacrunch", m, lease)
  <2> SUFFICES ASSUME NEW m \in l, NEW lease \in Leases
               PROVE  Made(Row(m), lease) \in Stated("datacrunch", m, lease)
    OBVIOUS
  <2>1. "datacrunch" \in Venues /\ 0 \in Nat
    BY DEF Venues
  <2> QED
    BY <1>3, <2>1, OfferIsStated
<1>6. \A o \in offers : \E m \in l : \E lease \in Leases : o = Made(Row(m), lease)
  <2> SUFFICES ASSUME NEW o \in offers
               PROVE  \E m \in l : \E lease \in Leases : o = Made(Row(m), lease)
    OBVIOUS
  <2>1. PICK p \in InstanceTypes(l) \X Leases : o = Made(p[1], p[2])
    BY <1>2
  <2>2. p[1] \in InstanceTypes(l) /\ p[2] \in Leases
    BY <2>1
  <2> QED
    BY <1>1, <2>1, <2>2
<1>7. \A m \in l : m.open /\ m.price > 0 => Made(Row(m), "on_demand") \in offers
  <2> SUFFICES ASSUME NEW m \in l, m.price > 0 PROVE Made(Row(m), "on_demand") \in offers
    OBVIOUS
  <2> DEFINE p == <<Row(m), "on_demand">>
  <2>1. p \in InstanceTypes(l) \X Leases /\ p[1] = Row(m) /\ p[2] = "on_demand"
    BY <1>1
  <2> HIDE DEF p, Leases, offers
  <2> QED
    BY <1>2, <1>4, <2>1
<1> HIDE DEF offers
<1> QED
  BY <1>5, <1>6, <1>7, StatedIsRight, StatedIsComplete DEF offers

\* A flavor of the first call and a price of the last one, joined on the type.
LEMMA HyperstackParsed ==
  ASSUME NEW k \in Listings, NEW l \in Listings
  PROVE  LET offers == ParseHyperstack(Flavors(k), Pricebook(l))
         IN  Right("hyperstack", offers, l) /\ Complete("hyperstack", offers, k, l)
<1> DEFINE Leases == {"on_demand", "spot"}
           Flavor(m, lease) == [gpu |-> Type(m.model, lease), gpu_count |-> m.gpus,
                                stock |-> IfOpen(m, 1)]
           Entry(m, lease) == [name |-> Type(m.model, lease),
                               value |-> IF lease = "spot" THEN m.spot ELSE m.price]
           Joined(f, e) == f.gpu_count > 0 /\ f.gpu = e.name
           Made(f, e) == Offer("hyperstack", "hyperstack", f.gpu[1], f.gpu[2], e.value, f.stock)
           offers == ParseHyperstack(Flavors(k), Pricebook(l))
<1>1. /\ Flavors(k) = {Flavor(m, lease) : m \in k, lease \in Leases}
      /\ \A e \in Pricebook(l) : \E m \in l : \E lease \in Leases : e = Entry(m, lease)
      /\ \A m \in l : Entry(m, "on_demand") \in Pricebook(l)
  <2>1. Flavors(k) = {Flavor(m, lease) : m \in k, lease \in Leases}
    BY DEF Flavors
  <2>2. \A m : /\ Entry(m, "on_demand") = [name |-> Type(m.model, "on_demand"), value |-> m.price]
               /\ Entry(m, "spot") = [name |-> Type(m.model, "spot"), value |-> m.spot]
    OBVIOUS
  <2> HIDE DEF Entry
  <2>3. Pricebook(l) = {Entry(m, "on_demand") : m \in l} \union {Entry(m, "spot") : m \in l}
    BY <2>2, Zenon DEF Pricebook
  <2> QED
    BY <2>1, <2>3
<1>2. offers = {Made(p[1], p[2]) : p \in {q \in Flavors(k) \X PriceIndex(Pricebook(l)) :
                                            Joined(q[1], q[2])}}
  BY DEF ParseHyperstack, Direct
<1>3. \A m, n, lease, leased : Joined(Flavor(m, lease), Entry(n, leased)) =>
        /\ m.model = n.model /\ lease = leased
        /\ Made(Flavor(m, lease), Entry(n, leased)) =
             Offer("hyperstack", "hyperstack", n.model, leased,
                   IF leased = "spot" THEN n.spot ELSE n.price, IfOpen(m, 1))
  BY DEF Type
<1>4. \A m \in k : Joined(Flavor(m, "on_demand"), Entry(m, "on_demand"))
  <2> SUFFICES ASSUME NEW m \in k PROVE m.gpus > 0
    OBVIOUS
  <2> QED
    BY MachineFields
<1>5. \A m : Entry(m, "on_demand").value = m.price
  OBVIOUS
<1> HIDE DEF Flavor, Entry, Joined, Made
<1>6. ASSUME NEW m \in k, NEW n \in l, NEW lease \in Leases, NEW leased \in Leases,
             Joined(Flavor(m, lease), Entry(n, leased))
      PROVE  Made(Flavor(m, lease), Entry(n, leased)) \in Stated("hyperstack", n, leased)
  <2>1. "hyperstack" \in Venues /\ IfOpen(m, 1) \in Nat
    BY MachineFields DEF Venues, IfOpen
  <2> QED
    BY <1>3, <1>6, <2>1, OfferIsStated
<1>7. \A o \in offers : \E n \in l : \E leased \in Leases : o \in Stated("hyperstack", n, leased)
  <2> SUFFICES ASSUME NEW o \in offers
               PROVE  \E n \in l : \E leased \in Leases : o \in Stated("hyperstack", n, leased)
    OBVIOUS
  <2>1. PICK p \in Flavors(k) \X PriceIndex(Pricebook(l)) : Joined(p[1], p[2]) /\ o = Made(p[1], p[2])
    BY <1>2
  <2>2. p[1] \in Flavors(k) /\ p[2] \in Pricebook(l)
    BY <2>1 DEF PriceIndex
  <2>3. PICK m \in k, lease \in Leases : p[1] = Flavor(m, lease)
    BY <1>1, <2>2
  <2>4. PICK n \in l, leased \in Leases : p[2] = Entry(n, leased)
    BY <1>1, <2>2
  <2> QED
    BY <1>6, <2>1, <2>3, <2>4
<1>8. \A m \in k \intersect l : m.open /\ m.price > 0 =>
        \E o \in offers : o \in Stated("hyperstack", m, "on_demand")
  <2> SUFFICES ASSUME NEW m \in k \intersect l, m.price > 0
               PROVE  \E o \in offers : o \in Stated("hyperstack", m, "on_demand")
    OBVIOUS
  <2> DEFINE f == Flavor(m, "on_demand")
             e == Entry(m, "on_demand")
             p == <<f, e>>
  <2>1. f \in Flavors(k) /\ e \in PriceIndex(Pricebook(l))
    BY <1>1, <1>5 DEF PriceIndex
  <2>2. p \in Flavors(k) \X PriceIndex(Pricebook(l)) /\ p[1] = f /\ p[2] = e
    BY <2>1
  <2>3. Joined(f, e) /\ Made(f, e) \in Stated("hyperstack", m, "on_demand")
    BY <1>4, <1>6
  <2> HIDE DEF p, f, e, offers
  <2>4. Made(f, e) \in offers
    BY <1>2, <2>2, <2>3
  <2> QED
    BY <2>3, <2>4
<1> HIDE DEF offers
<1> QED
  BY <1>7, <1>8, StatedIsRight, StatedIsComplete DEF offers

\* What a fetch returns, whatever changed between its two calls.
LEMMA FetchedIsRight ==
  ASSUME NEW v \in Venues, NEW k \in Listings, NEW l \in Listings
  PROVE  /\ Right(v, Fetched(v, k, l), l)
         /\ Complete(v, Fetched(v, k, l), IF Calls[v] = 2 THEN k ELSE l, l)
<1>1. CASE v = "vastai"
  <2>1. Fetched(v, k, l) = ParseVastai(VastaiOffers(l)) /\ Calls[v] = 1
    BY <1>1 DEF Fetched, Calls, Venues
  <2> QED
    BY <1>1, <2>1, VastaiParsed
<1>2. CASE v = "runpod"
  <2>1. Fetched(v, k, l) = ParseRunpod(RunpodTypes(l)) /\ Calls[v] = 1
    BY <1>2 DEF Fetched, Calls, Venues
  <2> QED
    BY <1>2, <2>1, RunpodParsed
<1>3. CASE v = "primeintellect"
  <2>1. Fetched(v, k, l) = ParsePrimeintellect(PrimeintellectItems(l)) /\ Calls[v] = 1
    BY <1>3 DEF Fetched, Calls, Venues
  <2> QED
    BY <1>3, <2>1, PrimeintellectParsed
<1>4. CASE v = "datacrunch"
  <2>1. Fetched(v, k, l) = ParseDatacrunch(InstanceTypes(l))
    BY <1>4 DEF Fetched
  <2>2. \A offers : Complete(v, offers, l, l) => Complete(v, offers, k, l)
    BY DEF Complete
  <2> QED
    BY <1>4, <2>1, <2>2, DatacrunchParsed
<1>5. CASE v = "cudo"
  <2>1. Fetched(v, k, l) = ParseCudo(MachineTypes(l)) /\ Calls[v] = 1
    BY <1>5 DEF Fetched, Calls, Venues
  <2> QED
    BY <1>5, <2>1, CudoParsed
<1>6. CASE v = "hyperstack"
  <2>1. Fetched(v, k, l) = ParseHyperstack(Flavors(k), Pricebook(l)) /\ Calls[v] = 2
    BY <1>6 DEF Fetched, Calls, Venues
  <2> QED
    BY <1>6, <2>1, HyperstackParsed
<1>7. CASE v = "tensordock"
  <2>1. Fetched(v, k, l) = ParseTensordock(Hostnodes(l)) /\ Calls[v] = 1
    BY <1>7 DEF Fetched, Calls, Venues
  <2> QED
    BY <1>7, <2>1, TensordockParsed
<1> QED
  BY <1>1, <1>2, <1>3, <1>4, <1>5, <1>6, <1>7 DEF Venues
-------------------------------------------------------------------------------
(***************************************************************************)
(* The batch: its offers and the venues it has asked.                      *)
(***************************************************************************)
\* Before a batch, nothing was met and nothing is offered.
LEMMA NoBatchIsRight ==
  ASSUME listed \in [Venues -> Listings], configured \in SUBSET Venues, relists \in Nat,
         NoBatch, UNCHANGED <<listed, configured, relists>>
  PROVE  BatchInv'
<1>1. UpNext(1) \in 1 .. 8 /\ \A k \in 1 .. UpNext(1) - 1 : Registry[k] \notin configured
  BY UpNextSkips
<1>2. {} \in Listings
  BY DEF Listings
<1>3. BatchTypes'
  BY <1>1, <1>2, CollectionAssumption DEF BatchTypes, NoBatch
<1>4. ListingsAreSeen' /\ OffersAreListed'
  BY DEF NoBatch, ListingsAreSeen, OffersAreListed
<1>5. BehindIsKept'
  <2>1. \A k \in 1 .. next' - 1 : Registry[k] \notin configured'
    BY <1>1 DEF NoBatch
  <2> QED
    BY <2>1 DEF BehindIsKept
<1> QED
  BY <1>3, <1>4, <1>5 DEF BatchInv

LEMMA BatchUnchanged ==
  ASSUME BatchInv, relists' \in Nat, UNCHANGED <<listed, configured, fetch, ghosts>>
  PROVE  BatchInv'
BY DEF BatchInv, BatchTypes, ListingsAreSeen, OffersAreListed, BehindIsKept, KeptIn, fetch, ghosts,
   Venue

\* The loop moves on: the venue is done, and those before the next are skipped.
LEMMA LoopMovesOn ==
  ASSUME BatchInv, next \in 1 .. 7, NextVenue,
         out \subseteq out', failed \subseteq failed', failed' \subseteq Venues,
         out' \subseteq Offers, OffersAreListed',
         Venue \in failed' \/ KeptIn(Venue, out'),
         UNCHANGED <<listed, configured, seen, relists>>
  PROVE  BatchInv'
<1>1. /\ UpNext(next + 1) \in next + 1 .. 8
      /\ \A k \in next + 1 .. UpNext(next + 1) - 1 : Registry[k] \notin configured
  BY UpNextSkips
<1>2. {} \in Listings
  BY DEF Listings
<1>3. BatchTypes'
  BY <1>1, <1>2, CollectionAssumption DEF BatchInv, BatchTypes, NextVenue
<1>4. ListingsAreSeen'
  BY DEF BatchInv, ListingsAreSeen, NextVenue
<1>5. BehindIsKept'
  <2> SUFFICES ASSUME NEW k \in 1 .. next' - 1, Registry[k] \in configured \ failed'
               PROVE  KeptIn(Registry[k], out)'
    BY DEF BehindIsKept
  <2>1. k \in 1 .. next - 1 \/ k = next \/ k \in next + 1 .. UpNext(next + 1) - 1
    BY <1>1 DEF NextVenue
  <2>2. CASE k \in 1 .. next - 1
    <3>1. KeptIn(Registry[k], out)
      BY <2>2 DEF BatchInv, BehindIsKept
    <3> QED
      BY <3>1 DEF KeptIn
  <2>3. CASE k = next
    <3>1. KeptIn(Registry[k], out')
      BY <2>3 DEF Venue
    <3> QED
      BY <3>1 DEF KeptIn
  <2> QED
    BY <1>1, <2>1, <2>2, <2>3
<1> QED
  BY <1>3, <1>4, <1>5 DEF BatchInv

\* A venue that lists something else was seen to.
LEMMA RelistStep ==
  ASSUME BatchInv, NEW v \in Venues, Relist(v)
  PROVE  BatchInv'
<1>1. PICK l \in Listings : /\ listed' = [listed EXCEPT ![v] = l]
                            /\ seen' = [seen EXCEPT ![v] = @ \union {l}]
  BY DEF Relist
<1>2. /\ relists' = relists + 1
      /\ UNCHANGED <<configured, next, call, attempt, first, out, failed>>
  BY DEF Relist, fetch
<1>3. BatchTypes'
  BY <1>1, <1>2 DEF BatchInv, BatchTypes
<1>4. \A u \in Venues : seen[u] \subseteq seen'[u] /\ listed'[u] \in seen'[u]
  BY <1>1 DEF BatchInv, BatchTypes, ListingsAreSeen
<1>5. ListingsAreSeen'
  <2>1. next \in DOMAIN Registry => Venue \in Venues
    BY RegistryIsVenues DEF Venue
  <2>2. Venue' = Venue
    BY <1>2 DEF Venue
  <2> QED
    BY <1>2, <1>4, <2>1, <2>2 DEF BatchInv, ListingsAreSeen
<1>6. OffersAreListed'
  <2>1. \A o \in out : o.venue \in Venues
    BY DEF BatchInv, BatchTypes, Offers
  <2> QED
    BY <1>2, <1>4, <2>1 DEF BatchInv, OffersAreListed
<1>7. BehindIsKept'
  <2> SUFFICES ASSUME NEW k \in 1 .. next - 1, Registry[k] \in configured \ failed
               PROVE  KeptIn(Registry[k], out)'
    BY <1>2 DEF BehindIsKept
  <2>1. KeptIn(Registry[k], out) /\ Registry[k] \in Venues
    BY DEF BatchInv, BehindIsKept, BatchTypes
  <2> QED
    BY <1>2, <1>4, <2>1 DEF KeptIn
<1> QED
  BY <1>3, <1>5, <1>6, <1>7 DEF BatchInv

\* An answer to the first call is remembered, one to the last is offered.
LEMMA AnswerStep ==
  ASSUME BatchInv, Answer
  PROVE  BatchInv'
<1>1. next \in 1 .. 7 /\ Venue \in Venues /\ Registry[next] = Venue
  BY RegistryIsVenues DEF Answer, Fetching, Venue, BatchInv, BatchTypes
<1>2. UNCHANGED <<listed, configured, seen, failed, relists>>
  BY DEF Answer, bounds
<1>3. listed[Venue] \in Listings /\ listed[Venue] \in seen[Venue]
  BY <1>1 DEF BatchInv, BatchTypes, ListingsAreSeen
<1>4. CASE call < Calls[Venue]
  <2>1. call' = call + 1 /\ attempt' = 0 /\ first' = listed[Venue] /\ UNCHANGED <<next, out>>
    BY <1>4 DEF Answer
  <2>2. Calls[Venue] \in {1, 2}
    BY <1>1 DEF Calls
  <2>3. call' = 2
    BY <1>4, <2>1, <2>2 DEF BatchInv, BatchTypes
  <2>4. BatchTypes'
    BY <1>2, <1>3, <2>1, <2>3, CollectionAssumption DEF BatchInv, BatchTypes
  <2>5. Venue' = Venue
    BY <2>1 DEF Venue
  <2>6. ListingsAreSeen'
    BY <1>1, <1>2, <1>3, <2>1, <2>3, <2>5, RegistryIsVenues DEF BatchInv, ListingsAreSeen
  <2>7. OffersAreListed' /\ BehindIsKept'
    BY <1>2, <2>1 DEF BatchInv, OffersAreListed, BehindIsKept, KeptIn
  <2> QED
    BY <2>4, <2>6, <2>7 DEF BatchInv
<1>5. CASE ~(call < Calls[Venue])
  <2> DEFINE answer == Fetched(Venue, first, listed[Venue])
  <2>1. out' = out \union answer /\ NextVenue
    BY <1>5 DEF Answer
  <2>2. first \in Listings
    BY DEF BatchInv, BatchTypes
  <2>3. /\ Right(Venue, answer, listed[Venue])
        /\ Complete(Venue, answer, IF Calls[Venue] = 2 THEN first ELSE listed[Venue], listed[Venue])
    BY <1>1, <1>3, <2>2, FetchedIsRight
  <2> HIDE DEF answer
  <2>4. answer \subseteq Offers
    BY <2>3 DEF Right
  <2>5. OffersAreListed'
    <3>1. ASSUME NEW o \in answer
          PROVE  \E l \in seen[o.venue] : \E m \in l :
                   m.model = o.model /\ o.price = IF o.lease = "spot" THEN m.spot ELSE m.price
      BY <1>3, <2>3 DEF Right, States
    <3> QED
      BY <1>2, <2>1, <3>1 DEF BatchInv, OffersAreListed
  <2>6. KeptIn(Venue, out')
    <3>1. Calls[Venue] = 2 => first \in seen[Venue]
      BY <1>5 DEF BatchInv, BatchTypes, ListingsAreSeen
    <3>2. ASSUME NEW m \in Machines, m.open, m.price > 0, \A l \in seen[Venue] : m \in l
          PROVE  \E o \in answer : o.venue = Venue /\ o.model = m.model /\ o.price = m.price
      <4>1. m \in listed[Venue] /\ (Calls[Venue] = 2 => m \in first)
        BY <1>3, <3>1, <3>2
      <4> QED
        BY <2>3, <3>2, <4>1 DEF Complete
    <3> QED
      BY <2>1, <3>2 DEF KeptIn
  <2>7. out' \subseteq Offers /\ failed' \subseteq Venues /\ out \subseteq out'
    BY <1>2, <2>1, <2>4 DEF BatchInv, BatchTypes
  <2> QED
    BY <1>1, <1>2, <2>1, <2>5, <2>6, <2>7, LoopMovesOn
<1> QED
  BY <1>4, <1>5

\* A failed venue is passed over, the offers of the others stay.
LEMMA FailStep ==
  ASSUME BatchInv, GiveUp \/ Refused
  PROVE  BatchInv'
<1>1. next \in 1 .. 7 /\ Venue \in Venues
  BY RegistryIsVenues DEF GiveUp, Refused, Fetching, Venue, BatchInv, BatchTypes
<1>2. /\ failed' = failed \union {Venue} /\ NextVenue
      /\ UNCHANGED <<listed, configured, seen, out, relists>>
  BY DEF GiveUp, Refused, SkipFailed, bounds
<1>3. failed' \subseteq Venues /\ out' \subseteq Offers /\ OffersAreListed'
  BY <1>1, <1>2 DEF BatchInv, BatchTypes, OffersAreListed
<1> QED
  BY <1>1, <1>2, <1>3, LoopMovesOn

\* A retry only counts.
LEMMA RetryStep ==
  ASSUME BatchInv, Retry
  PROVE  BatchInv'
<1>1. attempt' \in 0 .. MaxRetries
  BY CollectionAssumption DEF BatchInv, BatchTypes, Retry, RetriesLeft
<1>2. UNCHANGED <<listed, configured, next, call, first, out, seen, failed, relists>>
  BY DEF Retry, bounds
<1> QED
  BY <1>1, <1>2 DEF BatchInv, BatchTypes, ListingsAreSeen, OffersAreListed, BehindIsKept, KeptIn,
     Venue

LEMMA BatchStep == BatchInv /\ [Next]_vars => BatchInv'
<1> SUFFICES ASSUME BatchInv, [Next]_vars PROVE BatchInv'
  OBVIOUS
<1>0. /\ listed \in [Venues -> Listings] /\ configured \in SUBSET Venues /\ relists \in Nat
  BY DEF BatchInv, BatchTypes
<1>1. CASE UNCHANGED vars
  BY <1>0, <1>1, BatchUnchanged DEF vars, bounds
<1>2. CASE Trigger \/ OtherPush
  BY <1>0, <1>2, BatchUnchanged DEF Trigger, OtherPush, bounds
<1>3. CASE Batch
  BY <1>3, AnswerStep, RetryStep, FailStep DEF Batch
<1>4. ASSUME NEW r \in Runs, Begin(r) \/ NoOffers(r) \/ Save(r) \/ Kill(r) PROVE BatchInv'
  BY <1>0, <1>4, NoBatchIsRight DEF Begin, NoOffers, Save, Kill, bounds
<1>5. ASSUME NEW r \in Runs, Push(r) PROVE BatchInv'
  BY <1>0, <1>5, BatchUnchanged DEF Push, bounds
<1>6. ASSUME NEW v \in Venues, Relist(v) PROVE BatchInv'
  BY <1>6, RelistStep
<1> QED
  BY <1>1, <1>2, <1>3, <1>4, <1>5, <1>6 DEF Next, Step
-------------------------------------------------------------------------------
(***************************************************************************)
(* The runs: the concurrency group, their working copies and the branch.   *)
(***************************************************************************)
LEMMA InProgress == \A r : r \in Running <=> r \in Runs /\ job[r] \in {"fetching", "saved"}
BY DEF Running, With

\* What only the batch changes leaves the runs alone.
LEMMA JobUnchanged ==
  ASSUME JobInv, kills' \in Nat, UNCHANGED <<job, tree, branch, others>>
  PROVE  JobInv'
BY DEF JobInv, JobTypes, OneInProgress, PushedIsKept, NoneIsRefused, Running, With

\* A trigger replaces the run that waits and touches none that has begun.
LEMMA TriggerStep ==
  ASSUME JobInv, Trigger
  PROVE  JobInv'
<1>1. PICK r \in With("none") :
        job' = [q \in Runs |-> CASE q = r -> "waiting" [] job[q] = "waiting" -> "replaced"
                                 [] OTHER -> job[q]]
  BY DEF Trigger
<1>2. UNCHANGED <<branch, tree, kills, others>>
  BY DEF Trigger, bounds
<1>3. r \in Runs /\ job[r] = "none"
  BY DEF With
<1>4. \A q \in Runs : \/ job'[q] = job[q] /\ q # r
                      \/ job'[q] \in {"waiting", "replaced"} /\ job[q] \in {"none", "waiting"}
  BY <1>1, <1>3
<1>5. JobTypes'
  <2>1. \A q \in Runs : job'[q] \in {"none", "waiting", "fetching", "saved"} \union Ended
    BY <1>4 DEF JobInv, JobTypes, Ended
  <2>2. job' \in [Runs -> {"none", "waiting", "fetching", "saved"} \union Ended]
    BY <1>1, <2>1
  <2> QED
    BY <1>2, <2>2 DEF JobInv, JobTypes
<1>6. \A q \in Runs : \A state \in {"fetching", "saved", "pushed", "refused"} :
        job'[q] = state <=> job[q] = state
  BY <1>4
<1>7. Running' = Running /\ With("pushed")' = With("pushed") /\ With("refused")' = With("refused")
  BY <1>6 DEF Running, With
<1> QED
  BY <1>2, <1>5, <1>6, <1>7 DEF JobInv, OneInProgress, PushedIsKept, NoneIsRefused, Running, With

\* A run begins alone, with the branch as it is.
LEMMA BeginStep ==
  ASSUME JobInv, NEW r \in Runs, Begin(r)
  PROVE  JobInv'
<1>1. /\ job[r] = "waiting" /\ Running = {}
      /\ job' = [job EXCEPT ![r] = "fetching"]
      /\ tree' = [tree EXCEPT ![r] = branch]
      /\ UNCHANGED <<branch, kills, others>>
  BY DEF Begin, bounds
<1>2. JobTypes'
  BY <1>1 DEF JobInv, JobTypes
<1>3. \A q \in Runs : q # r => job'[q] = job[q]
  BY <1>1 DEF JobInv, JobTypes
<1>4. job'[r] = "fetching" /\ tree'[r] = branch
  BY <1>1 DEF JobInv, JobTypes
<1>5. Running' = {r}
  BY <1>1, <1>3, <1>4, InProgress DEF Running, With
<1>6. With("pushed")' = With("pushed") /\ With("refused")' = With("refused")
  BY <1>1, <1>3, <1>4 DEF With
<1>7. branch.version \in Nat
  BY DEF JobInv, JobTypes, Branches
<1> QED
  BY <1>1, <1>2, <1>4, <1>5, <1>6, <1>7 DEF JobInv, OneInProgress, PushedIsKept, NoneIsRefused

\* The one run that is in progress ends without a push.
LEMMA LostStep ==
  ASSUME JobInv, NEW r \in Running, job' = [job EXCEPT ![r] = "failed"], kills' \in Nat,
         UNCHANGED <<branch, tree, others>>
  PROVE  JobInv'
<1>1. r \in Runs /\ job[r] \in {"fetching", "saved"}
  BY InProgress
<1>2. JobTypes'
  BY <1>1 DEF JobInv, JobTypes, Ended
<1>3. job'[r] = "failed" /\ \A q \in Runs : q # r => job'[q] = job[q]
  BY <1>1 DEF JobInv, JobTypes
<1>4. Running' = {}
  <2>1. \A q \in Runs : q # r => q \notin Running
    BY DEF JobInv, OneInProgress
  <2> QED
    BY <1>3, <2>1, InProgress DEF Running, With
<1>5. With("pushed")' = With("pushed") /\ With("refused")' = With("refused")
  BY <1>1, <1>3 DEF With
<1> QED
  BY <1>2, <1>4, <1>5 DEF JobInv, OneInProgress, PushedIsKept, NoneIsRefused

\* The rows of a run that saved are in its working copy.
LEMMA SaveStep ==
  ASSUME JobInv, NEW r \in Runs, Save(r)
  PROVE  JobInv'
<1>1. /\ job[r] = "fetching"
      /\ job' = [job EXCEPT ![r] = "saved"]
      /\ tree' = [tree EXCEPT ![r].runs = @ \union {r}]
      /\ UNCHANGED <<branch, kills, others>>
  BY DEF Save, BatchOver, bounds
<1>2. /\ tree'[r].version = tree[r].version /\ tree'[r].runs = tree[r].runs \union {r}
      /\ tree'[r] \in Branches
      /\ \A q \in Runs : q # r => tree'[q] = tree[q] /\ job'[q] = job[q]
      /\ job'[r] = "saved"
  <2>1. tree[r] \in Branches /\ r \in 0 .. MaxRuns
    BY CollectionAssumption DEF JobInv, JobTypes, Runs
  <2> QED
    BY <1>1, <2>1 DEF JobInv, JobTypes, Branches
<1>3. JobTypes'
  <2>1. tree' \in [Runs -> Branches]
    BY <1>1, <1>2 DEF JobInv, JobTypes
  <2> QED
    BY <1>1, <2>1 DEF JobInv, JobTypes
<1>4. Running' = Running
  BY <1>1, <1>2, InProgress DEF Running, With
<1>5. With("pushed")' = With("pushed") /\ With("refused")' = With("refused")
  BY <1>1, <1>2 DEF With
<1>6. \A q \in Running : q = r
  BY <1>1, InProgress DEF JobInv, OneInProgress
<1>7. r \in Running
  BY <1>1, InProgress
<1> QED
  BY <1>1, <1>2, <1>3, <1>4, <1>5, <1>6, <1>7
     DEF JobInv, OneInProgress, PushedIsKept, NoneIsRefused

\* A push takes the branch forward with all that it had, or is refused, which
\* only a push of others can cause.
LEMMA PushStep ==
  ASSUME JobInv, NEW r \in Runs, Push(r)
  PROVE  JobInv'
<1>1. job[r] = "saved" /\ r \in Running /\ UNCHANGED <<tree, kills, others>>
  BY InProgress DEF Push, bounds
<1>2. \A q \in Running : q = r
  BY <1>1 DEF JobInv, OneInProgress
<1>3. branch.version \in Nat /\ tree[r] \in Branches
  BY DEF JobInv, JobTypes, Branches
<1>4. CASE FastForward(r)
  <2>1. /\ branch' = [version |-> branch.version + 1, runs |-> tree[r].runs]
        /\ job' = [job EXCEPT ![r] = "pushed"]
    BY <1>4 DEF Push
  <2>2. job'[r] = "pushed" /\ \A q \in Runs : q # r => job'[q] = job[q]
    BY <2>1 DEF JobInv, JobTypes
  <2>3. JobTypes'
    BY <1>1, <1>3, <2>1 DEF JobInv, JobTypes, Branches, Ended
  <2>4. Running' = {}
    BY <1>2, <2>2, InProgress DEF Running, With
  <2>5. With("pushed")' = With("pushed") \union {r} /\ With("refused")' = With("refused")
    BY <1>1, <2>2 DEF With
  <2>6. r \in tree[r].runs /\ branch.runs \subseteq tree[r].runs
    BY <1>1, <1>4 DEF JobInv, PushedIsKept, FastForward
  <2>7. branch'.runs = tree[r].runs
    BY <2>1
  <2> QED
    BY <1>1, <2>3, <2>4, <2>5, <2>6, <2>7 DEF JobInv, OneInProgress, PushedIsKept, NoneIsRefused
<1>5. CASE ~FastForward(r)
  <2>1. job' = [job EXCEPT ![r] = "refused"] /\ branch' = branch
    BY <1>5 DEF Push
  <2>2. job'[r] = "refused" /\ \A q \in Runs : q # r => job'[q] = job[q]
    BY <2>1 DEF JobInv, JobTypes
  <2>3. JobTypes'
    BY <1>1, <2>1 DEF JobInv, JobTypes, Ended
  <2>4. Running' = {}
    BY <1>2, <2>2, InProgress DEF Running, With
  <2>5. With("pushed")' = With("pushed")
    BY <1>1, <2>2 DEF With
  <2>6. others # 0
    BY <1>1, <1>5 DEF JobInv, PushedIsKept, FastForward
  <2> QED
    BY <1>1, <2>1, <2>3, <2>4, <2>5, <2>6 DEF JobInv, OneInProgress, PushedIsKept, NoneIsRefused
<1> QED
  BY <1>4, <1>5

\* A push of others leaves every working copy behind the branch.
LEMMA OtherPushStep ==
  ASSUME JobInv, OtherPush
  PROVE  JobInv'
<1>1. /\ others' = others + 1
      /\ branch' = [version |-> branch.version + 1, runs |-> branch.runs \union {0}]
      /\ UNCHANGED <<job, tree, kills>>
  BY DEF OtherPush
<1>2. branch \in Branches /\ \A r \in Runs : tree[r] \in Branches
  BY DEF JobInv, JobTypes
<1>3. /\ branch'.version = branch.version + 1 /\ branch.runs \subseteq branch'.runs
      /\ branch' \in Branches /\ branch.version \in Nat
  BY <1>1, <1>2, CollectionAssumption DEF Branches
<1>4. JobTypes' /\ others' # 0
  BY <1>1, <1>3 DEF JobInv, JobTypes
<1>5. Running' = Running /\ \A state : With(state)' = With(state)
  BY <1>1 DEF Running, With
<1>6. \A r \in Running : tree[r].version \in Nat /\ tree[r].version < branch'.version
  <2>1. \A r \in Running : tree[r].version <= branch.version /\ r \in Runs
    BY InProgress DEF JobInv, PushedIsKept
  <2> QED
    BY <1>2, <1>3, <2>1 DEF Branches
<1>7. PushedIsKept'
  BY <1>1, <1>3, <1>4, <1>5, <1>6 DEF JobInv, PushedIsKept
<1> QED
  BY <1>1, <1>4, <1>5, <1>7 DEF JobInv, OneInProgress, NoneIsRefused

LEMMA JobStep == JobInv /\ [Next]_vars => JobInv'
<1> SUFFICES ASSUME JobInv, [Next]_vars PROVE JobInv'
  OBVIOUS
<1>0. kills \in Nat
  BY DEF JobInv, JobTypes
<1>1. CASE UNCHANGED vars
  BY <1>0, <1>1, JobUnchanged DEF vars, bounds
<1>2. CASE Batch
  BY <1>0, <1>2, JobUnchanged DEF Batch, Answer, Retry, GiveUp, Refused, bounds
<1>3. ASSUME NEW v \in Venues, Relist(v) PROVE JobInv'
  BY <1>0, <1>3, JobUnchanged DEF Relist
<1>4. ASSUME NEW r \in Runs, Kill(r) PROVE JobInv'
  <2>1. /\ r \in Running /\ kills' = kills + 1 /\ job' = [job EXCEPT ![r] = "failed"]
        /\ UNCHANGED <<branch, tree, others>>
    BY <1>4 DEF Kill
  <2>2. kills' \in Nat
    BY <1>0, <2>1
  <2> QED
    BY <2>1, <2>2, LostStep
<1>5. ASSUME NEW r \in Runs, NoOffers(r) PROVE JobInv'
  <2>1. r \in Running
    BY <1>5, InProgress DEF NoOffers, BatchOver
  <2> QED
    BY <1>0, <1>5, <2>1, LostStep DEF NoOffers, bounds
<1> QED
  BY <1>1, <1>2, <1>3, <1>4, <1>5, TriggerStep, BeginStep, SaveStep, PushStep, OtherPushStep
     DEF Next, Step
-------------------------------------------------------------------------------
(***************************************************************************)
(* The invariant, and what follows from it.                                *)
(***************************************************************************)
LEMMA InitIInv == Init => IInv
<1> SUFFICES ASSUME Init PROVE IInv
  OBVIOUS
<1>1. /\ listed \in [Venues -> Listings] /\ configured \in SUBSET Venues
      /\ \A v \in Venues : listed[v] \in Listings
  BY CollectionAssumption DEF Init
<1>2. UpNext(1) \in 1 .. 8 /\ \A k \in 1 .. UpNext(1) - 1 : Registry[k] \notin configured
  BY UpNextSkips
<1>3. {} \in Listings
  BY DEF Listings
<1>4. BatchTypes
  BY <1>1, <1>2, <1>3, CollectionAssumption DEF Init, BatchTypes
<1>5. BatchInv
  BY <1>2, <1>4 DEF Init, BatchInv, ListingsAreSeen, OffersAreListed, BehindIsKept
<1>6. \A state \in {"waiting", "fetching", "saved", "pushed", "refused"} : With(state) = {}
  BY DEF Init, With
<1>7. JobTypes
  BY DEF Init, JobTypes, Branches
<1>8. JobInv
  BY <1>6, <1>7 DEF JobInv, OneInProgress, PushedIsKept, NoneIsRefused, Running
<1> QED
  BY <1>5, <1>8 DEF IInv

THEOREM CollectionInvariant == Spec => []IInv
<1>1. IInv /\ [Next]_vars => IInv'
  BY BatchStep, JobStep DEF IInv
<1> QED
  BY <1>1, InitIInv, PTL DEF Spec

\* Type correctness, and the concurrency group: one run at most is in progress.
THEOREM CollectionTypes == Spec => []TypeOK
<1>1. IInv => TypeOK
  <2> SUFFICES ASSUME IInv PROVE TypeOK
    OBVIOUS
  <2>1. Cardinality(Running) <= 1
    <3>1. CASE Running = {}
      BY <3>1, FS_EmptySet
    <3>2. CASE Running # {}
      <4>1. PICK r \in Running : TRUE
        BY <3>2
      <4>2. Running = {r}
        BY <4>1 DEF IInv, JobInv, OneInProgress
      <4>3. Cardinality(Running) = 1
        BY <4>2, FS_Singleton, Zenon
      <4> QED
        BY <4>3
    <3> QED
      BY <3>1, <3>2
  <2>2. Len(Registry) + 1 = 8
    BY RegistryIsVenues
  <2> QED
    BY <2>1, <2>2 DEF IInv, JobInv, JobTypes, BatchInv, BatchTypes, TypeOK
<1> QED
  BY <1>1, CollectionInvariant, PTL

\* An offer of the batch states, per GPU, the price of a machine that its venue
\* listed under that lease at some moment of the batch.
THEOREM OffersAreOfListings == Spec => []OffersAreListed
<1>1. IInv => OffersAreListed
  BY DEF IInv, BatchInv
<1> QED
  BY <1>1, CollectionInvariant, PTL

\* One venue never sinks the batch: a machine that was for rent, at a price,
\* throughout the batch is in it, unless its own venue failed.
THEOREM AnswersAreKept == Spec => []AnsweredIsKept
<1>1. IInv => AnsweredIsKept
  <2> SUFFICES ASSUME IInv, NEW r \in Runs, BatchOver(r), NEW v \in configured \ failed
               PROVE  KeptIn(v, out)
    BY DEF AnsweredIsKept, KeptIn
  <2>1. PICK k \in 1 .. 7 : Registry[k] = v
    BY RegistryIsVenues DEF IInv, BatchInv, BatchTypes
  <2>2. k \in 1 .. next - 1
    BY RegistryIsVenues DEF BatchOver, IInv, BatchInv, BatchTypes
  <2> QED
    BY <2>1, <2>2 DEF IInv, BatchInv, BehindIsKept
<1> QED
  BY <1>1, CollectionInvariant, PTL

\* As long as nobody else pushes, no run finds that the branch has moved, and
\* the rows of every run that ended well are there.
THEOREM GroupSuffices == Spec => []PushesSucceed
<1>1. IInv => PushesSucceed
  BY DEF IInv, JobInv, PushedIsKept, NoneIsRefused, PushesSucceed
<1> QED
  BY <1>1, CollectionInvariant, PTL
===============================================================================
