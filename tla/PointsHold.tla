----------------------------- MODULE PointsHold -----------------------------
(***************************************************************************)
(* What every redemption promises a partner about points, whatever its     *)
(* rail: an order takes its price from one wallet at most once, only if    *)
(* the wallet covers it, and gives the same price back to the same wallet  *)
(* at most once.  Redemption, HubbleVoucher and PayoutSettlement implement *)
(* it.                                                                     *)
(***************************************************************************)
EXTENDS Integers, FiniteSets

CONSTANTS Orders, Partners, NoPartner, Price, InitialBalance

(* Price and InitialBalance are natural numbers, Price is not 0, and         *)
(* NoPartner is no partner: each module that implements this one assumes it. *)

VARIABLES
  balance,    \* per partner, the redeemable points
  holder,     \* per order, the partner whose points it holds
  charged     \* the orders that have been charged

holdVars == <<balance, holder, charged>>

Init ==
  /\ balance = [p \in Partners |-> InitialBalance]
  /\ holder = [o \in Orders |-> NoPartner]
  /\ charged = {}

Charge(o, p) ==
  /\ o \notin charged
  /\ balance[p] >= Price
  /\ balance' = [balance EXCEPT ![p] = @ - Price]
  /\ holder' = [holder EXCEPT ![o] = p]
  /\ charged' = charged \cup {o}

(* One transaction may refund several orders (a bank report).               *)
Refund(S) ==
  /\ \A o \in S : holder[o] # NoPartner
  /\ balance' = [p \in Partners |->
       balance[p] + Price * Cardinality({o \in S : holder[o] = p})]
  /\ holder' = [o \in Orders |-> IF o \in S THEN NoPartner ELSE holder[o]]
  /\ UNCHANGED charged

Next ==
  \/ \E o \in Orders, p \in Partners : Charge(o, p)
  \/ \E S \in SUBSET Orders : Refund(S)

Spec == Init /\ [][Next]_holdVars
=============================================================================
