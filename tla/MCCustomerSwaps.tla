--------------------------- MODULE MCCustomerSwaps ---------------------------
(* Instances of CustomerSwaps: a swap into the invoice, from Polygon or    *)
(* from another chain, and a swap of the merchant's money.                 *)
EXTENDS CustomerSwaps, TLC

CONSTANTS incoming, outgoing

SwapsDirection == (incoming :> "Incoming" @@ outgoing :> "Outgoing")
SwapsSigned == (incoming :> 2 @@ outgoing :> 1)
=============================================================================
