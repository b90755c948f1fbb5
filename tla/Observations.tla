----------------------------- MODULE Observations -----------------------------
(***************************************************************************)
(* The readings that flow from the GPU marketplaces to the stores          *)
(* (core/ingestion/protocols.py, class Snapshot).  A reading is taken at   *)
(* an instant, from a venue, for one offer.  Only what the stores tell     *)
(* apart is kept of an offer: its product (GPU model and lease type), its  *)
(* price (with the availability), its optional descriptive columns and     *)
(* whether it is simulated.                                                *)
(***************************************************************************)
EXTENDS Naturals

CONSTANTS Venues,      \* the marketplaces
          Products,    \* pairs <<gpu_model, lease_type>>
          Prices,      \* pairs <<price_usd_per_hour, availability>>
          Details,     \* values of the optional columns (region, vcpu, ...)
          NoDetail,    \* every optional column is None
          MaxInstant,  \* bound: the last instant a collection may run at
          MonthOf      \* calendar month of each instant

Instants == 0 .. MaxInstant

Months == {MonthOf[t] : t \in Instants}

ASSUME ObservationsAssumption ==
  /\ MaxInstant \in Nat
  /\ NoDetail \in Details

Offers == [product : Products, price : Prices, detail : Details,
           simulated : BOOLEAN]

Snapshots == [at : Instants, venue : Venues, offer : Offers]

\* Snapshot.dedup_key: neither the price nor the details are part of it.
DedupKey(s) == <<s.at, s.venue, s.offer.product>>

\* Row content the Parquet lake deduplicates on (_DEDUP_KEY): everything but
\* the provenance columns.
Content(s) == <<s.at, s.venue, s.offer.product, s.offer.price, s.offer.detail>>

\* Values of an operator over a set of readings.
Keys(S) == {DedupKey(s) : s \in S}
Contents(S) == {Content(s) : s \in S}

\* The reading as a file without the optional columns gives it back.
Stripped(s) == [s EXCEPT !.offer.detail = NoDetail]
=============================================================================
