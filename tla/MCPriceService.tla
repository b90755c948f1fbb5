----------------------------- MODULE MCPriceService -----------------------------
(***************************************************************************)
(* PriceService on the instances of MCSpotIndex: a fix every second        *)
(* instant, one headline, and rules of both kinds.                         *)
(***************************************************************************)
EXTENDS PriceService, MCSpotIndex

MCHeadline == {"H100"}
MCRules == <<[kind |-> "price_below", threshold |-> 3],
             [kind |-> "action_is", action |-> "rent_now"],
             [kind |-> "price_below", threshold |-> 4]>>
===============================================================================
