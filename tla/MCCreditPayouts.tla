-------------------------- MODULE MCCreditPayouts --------------------------
(* Instances of CreditPayouts for TLC: two entries of one outlet.            *)
EXTENDS CreditPayouts, TLC

CONSTANTS e1, e2, o1, o2, b1, b2, p1

InBatch == (e1 :> b1) @@ (e2 :> b2)
OneOutlet == [e \in {e1, e2} |-> o1]
Amounts == (e1 :> 2) @@ (e2 :> 3)
OfPan == [o \in {o1, o2} |-> p1]

(* A payout's reversal takes the entries of its outlet in every batch: one   *)
(* batch's reversals are explored.                                           *)
ReversedBatch == \A r \in Reversals : reversal[r].status = "NONE" \/ reversal[r].batch = b1

Interchangeable == Permutations(Requests) \cup Permutations(Downloads)
=============================================================================
