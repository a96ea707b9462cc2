------------------------- MODULE MCPayoutSettlement -------------------------
(* Instances of PayoutSettlement for TLC.  One partner owns every order and  *)
(* one rail carries every payout, so that the orders meet in one wallet and  *)
(* one batch.                                                                *)
EXTENDS PayoutSettlement, TLC

OneOwner == [o \in Orders |-> CHOOSE p \in Partners : TRUE]
OneMode == [o \in Orders |-> CHOOSE m \in Modes : TRUE]

RequestSymmetry ==
  Permutations(Orders) \cup Permutations(Processors) \cup Permutations(Assigners)
  \cup Permutations(Uploads) \cup Permutations(Batches) \cup Permutations(Utrs)
=============================================================================
