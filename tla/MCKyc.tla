------------------------------- MODULE MCKyc -------------------------------
(* Instances of Kyc for TLC.                                                 *)
EXTENDS Kyc, TLC

CONSTANTS g1, g2

EveryWay == {"verify", "approve", "bulk"}
OneApproves == [g \in Officers |-> IF g = g2 THEN {"approve"} ELSE EveryWay]

(* While a draft is being cleaned up, one other handler at a time.           *)
CleanedUpBetweenTwo ==
  (\E c \in Cleanups : cleanup[c] # Idle) =>
    Cardinality({q \in Requests : request[q] # Idle}) + Cardinality({g \in Officers : officer[g] # Idle}) <= 1

Interchangeable == Permutations(Subs) \cup Permutations(Requests)
=============================================================================
