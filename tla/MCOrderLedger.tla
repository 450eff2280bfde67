--------------------------- MODULE MCOrderLedger ---------------------------
(* A trader, a pool and the insurance fund on one perps and one spot slot.  *)
EXTENDS OrderLedger, TLC

Ids == Permutations(OrderId)
=============================================================================
