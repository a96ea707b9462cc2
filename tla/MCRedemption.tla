---------------------------- MODULE MCRedemption ----------------------------
(* Instances of Redemption for TLC.  Every partner shares one login, the    *)
(* hardest case for the passwords.                                          *)
EXTENDS Redemption, TLC

OneLogin == [p \in Partners |-> "owner"]

RequestSymmetry ==
  Permutations(Orders) \cup Permutations(Confirms) \cup Permutations(Operators)
  \cup Permutations(Vendors)
AllSymmetry == RequestSymmetry \cup Permutations(Partners)
=============================================================================
