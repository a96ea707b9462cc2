--------------------------- MODULE MCHubbleVoucher ---------------------------
(* Instances of HubbleVoucher for TLC.  One partner owns every order, so     *)
(* that the orders meet in one wallet.                                       *)
EXTENDS HubbleVoucher, TLC

OneOwner == [o \in Orders |-> CHOOSE p \in Partners : TRUE]

RequestSymmetry ==
  Permutations(Orders) \cup Permutations(Webhooks) \cup Permutations(Operators)
=============================================================================
