-------------------------- MODULE RedemptionProofs --------------------------
(* Proofs about Redemption, for every number of orders, partners, confirm   *)
(* requests and operators: the types, that money moves once, that stock and *)
(* passwords are used for the order they belong to, and that the redemption *)
(* implements PointsHold; and, where transitions do not overlap, that the   *)
(* points follow the status along the table of edges.                       *)
EXTENDS Redemption, FiniteSetTheorems, TLAPS

(* An order row exists from the commit of its redeem request on, and then   *)
(* belongs to a partner.                                                    *)
Placed ==
  \A o \in Orders :
    /\ opening[o].pc # "idle" => opening[o].partner \in Partners
    /\ opening[o].pc \in {"idle", "open"} <=> order[o].status = "NONE"
    /\ order[o].status # "NONE" => order[o].partner \in Partners

(* An order that is not confirmed yet was never debited.                    *)
Undebited ==
  \A o \in Orders : order[o].status \in {"NONE", "PENDING"} => moves[o].redeem = 0

(* What the requests in progress are about.  A transition never leads to a  *)
(* status that could be confirmed (again).                                  *)
Requests ==
  /\ \A c \in Confirms : confirm[c].pc # "idle" => /\ confirm[c].order \in Orders
                                                   /\ confirm[c].otp \in Orders
  /\ \A w \in Transitions : operator[w].pc = "read" =>
       /\ operator[w].order \in Orders
       /\ order[operator[w].order].status # "NONE"
       /\ operator[w].to \in Statuses \ {"PENDING"}

RInv == TypeOK /\ Placed /\ Undebited /\ Requests /\ MoneyMovesOnce

USE RedemptionAssumption

LEMMA RInvInit == Init => RInv
  BY DEF Init, RInv, TypeOK, Placed, Undebited, Requests, MoneyMovesOnce,
         IdleOpening, IdleConfirm, IdleOperator,
         OrderType, OpeningType, ConfirmType, OperatorType

(* The edges never lead to PENDING, and relate statuses.                    *)
LEMMA EdgeTargets ==
  ASSUME NEW from, NEW to, <<from, to>> \in Edges
  PROVE  from \in Statuses /\ to \in Statuses \ {"PENDING"}
  BY DEF Edges, Statuses

(* Setting one field of a row.                                              *)
LEMMA SetStatus ==
  ASSUME NEW r \in OrderType, NEW s \in Statuses
  PROVE  /\ [r EXCEPT !.status = s] \in OrderType
         /\ [r EXCEPT !.status = s].status = s
         /\ [r EXCEPT !.status = s].partner = r.partner
         /\ [r EXCEPT !.status = s].points = r.points
  BY DEF OrderType

LEMMA SetOpeningPc ==
  ASSUME NEW r \in OpeningType, NEW pc \in {"sending", "undo", "closed"}
  PROVE  /\ [r EXCEPT !.pc = pc] \in OpeningType
         /\ [r EXCEPT !.pc = pc].pc = pc
         /\ [r EXCEPT !.pc = pc].partner = r.partner
  BY DEF OpeningType

LEMMA SetConfirmPc ==
  ASSUME NEW r \in ConfirmType
  PROVE  /\ [r EXCEPT !.pc = "checked"] \in ConfirmType
         /\ [r EXCEPT !.pc = "checked"].order = r.order
         /\ [r EXCEPT !.pc = "checked"].otp = r.otp
  BY DEF ConfirmType

LEMMA RInvNext == RInv /\ [Next]_vars => RInv'
<1> SUFFICES ASSUME RInv, [Next]_vars PROVE RInv'
  OBVIOUS
<1> USE DEF RInv
<1>1. ASSUME NEW o \in Orders, NEW p \in Partners, redeem(o, p) PROVE RInv'
  <2>1. opening' \in [Orders -> OpeningType]
    <3>1. Unverified(OfLogin(p)) \in SUBSET Orders
      BY DEF Unverified, OfLogin
    <3> QED BY <1>1, <3>1 DEF redeem, TypeOK, OpeningType
  <2>2. TypeOK'
    BY <1>1, <2>1 DEF redeem, TypeOK
  <2>3. Placed' /\ Undebited' /\ Requests' /\ MoneyMovesOnce'
    BY <1>1 DEF redeem, TypeOK, Placed, Undebited, Requests, MoneyMovesOnce
  <2> QED BY <2>2, <2>3
<1>2. ASSUME NEW o \in Orders, redeemCommit(o) PROVE RInv'
  <2>1. /\ opening[o].pc = "open" /\ opening[o].partner \in Partners
        /\ order[o].status = "NONE" /\ moves[o].redeem = 0
    BY <1>2 DEF redeemCommit, Placed, Undebited
  <2>2. /\ order'[o] = [status |-> "PENDING", partner |-> opening[o].partner, points |-> 0]
        /\ \A q \in Orders \ {o} :
             \/ order'[q] = order[q]
             \/ order[q].status = "PENDING" /\ order'[q] = [order[q] EXCEPT !.status = "CANCELLED"]
        /\ order' \in [Orders -> OrderType]
    <3>1. \A q \in Orders : order[q] \in OrderType /\ [order[q] EXCEPT !.status = "CANCELLED"] \in OrderType
      BY SetStatus DEF TypeOK, Statuses
    <3>2. [status |-> "PENDING", partner |-> opening[o].partner, points |-> 0] \in OrderType
      BY <2>1 DEF OrderType, Statuses
    <3>3. order' = [q \in Orders |->
            IF q = o THEN [status |-> "PENDING", partner |-> opening[o].partner, points |-> 0]
            ELSE IF q \in Superseded(o) THEN [order[q] EXCEPT !.status = "CANCELLED"]
            ELSE order[q]]
      BY <1>2 DEF redeemCommit
    <3>4. \A q \in Superseded(o) : order[q].status = "PENDING"
      BY DEF Superseded
    <3>5. order' \in [Orders -> OrderType]
      BY <3>1, <3>2, <3>3
    <3> QED BY <3>3, <3>4, <3>5
  <2>3. otp' \in [Orders -> {"none", "live", "dead", "deleted", "verified"}]
    BY <1>2 DEF redeemCommit, TypeOK
  <2>4. /\ opening' \in [Orders -> OpeningType]
        /\ opening'[o].pc = "sending" /\ opening'[o].partner = opening[o].partner
        /\ \A q \in Orders \ {o} : opening'[q] = opening[q]
    <3>1. IdleOpening \in OpeningType
      BY DEF IdleOpening, OpeningType
    <3>2. LET r == [IdleOpening EXCEPT !.pc = "sending", !.partner = opening[o].partner]
          IN  r \in OpeningType /\ r.pc = "sending" /\ r.partner = opening[o].partner
      BY <2>1, <3>1 DEF OpeningType
    <3> QED BY <1>2, <3>2 DEF redeemCommit, TypeOK
  <2>5. UNCHANGED <<balance, stock, moves, confirm, operator>>
    BY <1>2 DEF redeemCommit
  <2>6. TypeOK'
    BY <2>2, <2>3, <2>4, <2>5 DEF TypeOK
  <2>7. \A q \in Orders : q # o => /\ order'[q].partner = order[q].partner
                                   /\ order'[q].points = order[q].points
                                   /\ order'[q].status = "NONE" <=> order[q].status = "NONE"
                                   /\ order'[q].status = "PENDING" => order[q].status = "PENDING"
    BY <2>2 DEF TypeOK, OrderType
  <2>8. Placed'
    BY <2>1, <2>2, <2>4, <2>7 DEF Placed
  <2>9. Undebited'
    BY <2>1, <2>2, <2>5, <2>7 DEF Undebited
  <2>10. Requests'
    BY <2>2, <2>5, <2>7 DEF Requests
  <2>11. MoneyMovesOnce'
    <3>1. moves[o].reverse <= moves[o].redeem /\ moves[o] \in [redeem : Nat, reverse : Nat]
      BY DEF MoneyMovesOnce, TypeOK
    <3> QED BY <2>1, <2>2, <2>5, <2>7, <3>1 DEF MoneyMovesOnce
  <2> QED BY <2>6, <2>8, <2>9, <2>10, <2>11
<1>3. ASSUME NEW o \in Orders, sendOtp(o) \/ sendOtpFails(o) \/ cleanupFails(o)
      PROVE  RInv'
  <2>1. \E pc \in {"closed", "undo"} : opening' = [opening EXCEPT ![o].pc = pc]
    BY <1>3 DEF sendOtp, sendOtpFails, cleanupFails
  <2>2. opening[o].pc \in {"sending", "undo"}
        /\ UNCHANGED <<order, otp, balance, stock, moves, confirm, operator>>
    BY <1>3 DEF sendOtp, sendOtpFails, cleanupFails
  <2>3. opening' \in [Orders -> OpeningType]
    <3>1. PICK pc \in {"closed", "undo"} :
            opening' = [opening EXCEPT ![o] = [opening[o] EXCEPT !.pc = pc]]
      BY <2>1
    <3> QED BY <3>1, SetOpeningPc DEF TypeOK
  <2>4. TypeOK'
    BY <2>2, <2>3 DEF TypeOK
  <2>5. Placed'
    BY <2>1, <2>2 DEF Placed, TypeOK, OpeningType
  <2>6. Undebited' /\ Requests' /\ MoneyMovesOnce'
    BY <2>2 DEF Undebited, Requests, MoneyMovesOnce
  <2> QED BY <2>4, <2>5, <2>6
<1>4. ASSUME NEW o \in Orders, cleanup(o) PROVE RInv'
  <2>1. order[o].status # "NONE" /\ opening[o].pc = "undo"
    BY <1>4 DEF cleanup, Placed
  <2>2. /\ order' \in [Orders -> OrderType]
        /\ order' = [order EXCEPT ![o].status = "CANCELLED"]
        /\ opening' = [opening EXCEPT ![o].pc = "closed"]
        /\ opening' \in [Orders -> OpeningType]
        /\ otp' \in [Orders -> {"none", "live", "dead", "deleted", "verified"}]
        /\ UNCHANGED <<balance, stock, moves, confirm, operator>>
    <3>1. /\ order' = [order EXCEPT ![o].status = "CANCELLED"]
          /\ opening' = [opening EXCEPT ![o].pc = "closed"]
          /\ UNCHANGED <<balance, stock, moves, confirm, operator>>
      BY <1>4 DEF cleanup
    <3>2. order' \in [Orders -> OrderType]
      BY <3>1, SetStatus DEF TypeOK, Statuses
    <3>3. opening' \in [Orders -> OpeningType]
      BY <3>1, SetOpeningPc DEF TypeOK
    <3>4. otp' \in [Orders -> {"none", "live", "dead", "deleted", "verified"}]
      BY <1>4 DEF cleanup, TypeOK
    <3> QED BY <3>1, <3>2, <3>3, <3>4
  <2>3. TypeOK'
    BY <2>2 DEF TypeOK
  <2>4. Placed' /\ Undebited' /\ Requests' /\ MoneyMovesOnce'
    BY <2>1, <2>2 DEF TypeOK, OrderType, OpeningType, Placed, Undebited, Requests, MoneyMovesOnce
  <2> QED BY <2>3, <2>4
<1>5. ASSUME NEW o \in Orders, OtpDies(o) PROVE RInv'
  BY <1>5 DEF OtpDies, TypeOK, Placed, Undebited, Requests, MoneyMovesOnce
<1>6. ASSUME NEW c \in Confirms, NEW o \in Orders, confirmGate(c, o) PROVE RInv'
  <2>1. /\ confirm' = [confirm EXCEPT ![c] = [pc |-> "gated", order |-> o, otp |-> o]]
        /\ UNCHANGED <<order, otp, balance, stock, moves, opening, operator>>
    BY <1>6 DEF confirmGate, OtpFor
  <2>2. confirm' \in [Confirms -> ConfirmType]
    BY <2>1 DEF TypeOK, ConfirmType
  <2>3. TypeOK'
    BY <2>1, <2>2 DEF TypeOK
  <2>4. Requests'
    BY <2>1 DEF Requests, TypeOK
  <2>5. Placed' /\ Undebited' /\ MoneyMovesOnce'
    BY <2>1 DEF Placed, Undebited, MoneyMovesOnce
  <2> QED BY <2>3, <2>4, <2>5
<1>7. ASSUME NEW c \in Confirms, confirmRecheck(c) \/ confirmRefused(c) PROVE RInv'
  <2>1. /\ confirm[c].pc # "idle"
        /\ \/ confirm' = [confirm EXCEPT ![c].pc = "checked"]
           \/ confirm' = [confirm EXCEPT ![c] = IdleConfirm]
        /\ UNCHANGED <<order, otp, balance, stock, moves, opening, operator>>
    BY <1>7 DEF confirmRecheck, confirmRefused
  <2>2. confirm' \in [Confirms -> ConfirmType]
    <3>1. IdleConfirm \in ConfirmType
      BY DEF IdleConfirm, ConfirmType
    <3> QED BY <2>1, <3>1, SetConfirmPc DEF TypeOK
  <2>3. TypeOK'
    BY <2>1, <2>2 DEF TypeOK
  <2>4. Requests'
    <3>1. confirm[c] \in ConfirmType /\ confirm[c].order \in Orders /\ confirm[c].otp \in Orders
      BY <2>1 DEF TypeOK, Requests
    <3>2. CASE confirm' = [confirm EXCEPT ![c] = IdleConfirm]
      BY <2>1, <3>2 DEF Requests, TypeOK, IdleConfirm
    <3>3. CASE confirm' = [confirm EXCEPT ![c].pc = "checked"]
      <4>1. confirm'[c].order = confirm[c].order /\ confirm'[c].otp = confirm[c].otp
        BY <3>1, <3>3, SetConfirmPc DEF TypeOK
      <4>2. \A d \in Confirms \ {c} : confirm'[d] = confirm[d]
        BY <3>3 DEF TypeOK
      <4> QED BY <2>1, <3>1, <4>1, <4>2 DEF Requests
    <3> QED BY <2>1, <3>2, <3>3
  <2>5. Placed' /\ Undebited' /\ MoneyMovesOnce'
    BY <2>1 DEF Placed, Undebited, MoneyMovesOnce
  <2> QED BY <2>3, <2>4, <2>5
<1>8. ASSUME NEW c \in Confirms, confirmCommit(c) PROVE RInv'
  <2> DEFINE o == confirm[c].order
             p == order[o].partner
  <2>1. /\ o \in Orders /\ confirm[c].otp \in Orders
        /\ order[o].status = "PENDING" /\ p \in Partners /\ moves[o].redeem = 0
    BY <1>8 DEF confirmCommit, Claimed, Requests, Placed, Undebited
  <2>2. /\ order' = [order EXCEPT ![o] = [status |-> "CONFIRMED", partner |-> p, points |-> Price]]
        /\ otp' = [otp EXCEPT ![confirm[c].otp] = "verified"]
        /\ balance' = [balance EXCEPT ![p] = @ - Price]
        /\ moves' = [moves EXCEPT ![o].redeem = @ + 1]
        /\ stock' = stock - 1
        /\ confirm' = [confirm EXCEPT ![c] = IdleConfirm]
        /\ UNCHANGED <<opening, operator>>
        /\ balance[p] >= Price /\ stock >= 1
    BY <1>8 DEF confirmCommit, InStock
  <2> HIDE DEF o, p
  <2>3. /\ moves[o] \in [redeem : Nat, reverse : Nat] /\ moves[o].reverse = 0
        /\ moves[o].redeem = 0
    BY <2>1 DEF TypeOK, MoneyMovesOnce
  <2>4. /\ order' \in [Orders -> OrderType]
        /\ order'[o].status = "CONFIRMED" /\ order'[o].points = Price
        /\ order'[o].partner = order[o].partner
        /\ \A q \in Orders \ {o} : order'[q] = order[q]
    <3>1. order[o] \in OrderType
      BY <2>1 DEF TypeOK
    <3>2. [status |-> "CONFIRMED", partner |-> p, points |-> Price] \in OrderType
      BY <2>1 DEF OrderType, Statuses
    <3> QED BY <2>1, <2>2, <3>2 DEF TypeOK, p
  <2>5. /\ moves' \in [Orders -> [redeem : Nat, reverse : Nat]]
        /\ moves'[o].redeem = 1 /\ moves'[o].reverse = 0
        /\ \A q \in Orders \ {o} : moves'[q] = moves[q]
    BY <2>1, <2>2, <2>3 DEF TypeOK
  <2>6. /\ otp' \in [Orders -> {"none", "live", "dead", "deleted", "verified"}]
        /\ balance' \in [Partners -> Nat] /\ stock' \in Nat
    BY <2>1, <2>2 DEF TypeOK
  <2>7. confirm' \in [Confirms -> ConfirmType]
    BY <2>2 DEF TypeOK, ConfirmType, IdleConfirm
  <2>8. TypeOK'
    BY <2>2, <2>4, <2>5, <2>6, <2>7 DEF TypeOK
  <2>9. Placed' /\ Undebited' /\ MoneyMovesOnce'
    BY <2>1, <2>2, <2>4, <2>5 DEF Placed, Undebited, MoneyMovesOnce
  <2>10. Requests'
    BY <2>1, <2>2, <2>4 DEF Requests, IdleConfirm, TypeOK
  <2> QED BY <2>8, <2>9, <2>10
<1>9. ASSUME NEW w \in Transitions, NEW o \in Orders, NEW to \in Statuses,
             transitionRead(w, o, to)
      PROVE  RInv'
  <2>1. order[o].status \in Statuses /\ to \in Statuses \ {"PENDING"}
    BY <1>9, EdgeTargets DEF transitionRead
  <2> QED
    BY <1>9, <2>1 DEF transitionRead, TypeOK, OperatorType, OrderType, Statuses,
                      Placed, Undebited, Requests, MoneyMovesOnce
<1>10. ASSUME NEW w \in Transitions, transitionCommit(w) PROVE RInv'
  <2> DEFINE o == operator[w].order
             p == order[o].partner
  <2>1. /\ o \in Orders /\ order[o].status # "NONE" /\ p \in Partners
        /\ operator[w].to \in Statuses \ {"PENDING"}
        /\ operator' = [operator EXCEPT ![w] = IdleOperator]
        /\ UNCHANGED <<otp, stock, opening, confirm>>
    BY <1>10 DEF transitionCommit, Requests, Placed
  <2>2. operator' \in [Transitions -> OperatorType]
    BY <2>1 DEF TypeOK, OperatorType, IdleOperator
  <2>3. CASE Refunds(w)
    <3>1. /\ operator[w].points > 0 /\ order[o].points > 0
          /\ balance' = [balance EXCEPT ![p] = @ + operator[w].points]
          /\ moves' = [moves EXCEPT ![o].reverse = @ + 1]
          /\ order' = [order EXCEPT ![o] = [status |-> operator[w].to, partner |-> p, points |-> 0]]
      BY <1>10, <2>3 DEF transitionCommit, Refunds, RefundClaimed
    <3>2. operator[w].points \in Nat
      BY DEF TypeOK, OperatorType
    <3> HIDE DEF o, p
    <3>3. /\ moves[o] \in [redeem : Nat, reverse : Nat]
          /\ moves[o].redeem = 1 /\ moves[o].reverse = 0
      <4>1. moves[o] \in [redeem : Nat, reverse : Nat]
        BY <2>1 DEF TypeOK
      <4>2. /\ moves[o].reverse <= moves[o].redeem /\ moves[o].redeem <= 1
            /\ moves[o].redeem > moves[o].reverse
        BY <2>1, <3>1 DEF MoneyMovesOnce
      <4> QED BY <4>1, <4>2
    <3>4. /\ order' \in [Orders -> OrderType]
          /\ order'[o].status = operator[w].to /\ order'[o].points = 0
          /\ order'[o].partner = order[o].partner
          /\ \A q \in Orders \ {o} : order'[q] = order[q]
      <4>1. [status |-> operator[w].to, partner |-> p, points |-> 0] \in OrderType
        BY <2>1 DEF OrderType
      <4> QED BY <2>1, <3>1, <4>1 DEF TypeOK, p
    <3>5. /\ moves' \in [Orders -> [redeem : Nat, reverse : Nat]]
          /\ moves'[o].redeem = 1 /\ moves'[o].reverse = 1
          /\ \A q \in Orders \ {o} : moves'[q] = moves[q]
      BY <2>1, <3>1, <3>3 DEF TypeOK
    <3>6. balance' \in [Partners -> Nat]
      BY <2>1, <3>1, <3>2 DEF TypeOK
    <3>7. TypeOK'
      BY <2>1, <2>2, <3>4, <3>5, <3>6 DEF TypeOK
    <3>8. Placed' /\ Undebited' /\ MoneyMovesOnce'
      BY <2>1, <3>4, <3>5 DEF Placed, Undebited, MoneyMovesOnce, Statuses, p
    <3>9. Requests'
      <4>1. \A c \in Confirms : confirm'[c] = confirm[c]
        BY <2>1
      <4>2. /\ operator'[w].pc = "idle"
            /\ \A v \in Transitions \ {w} : operator'[v] = operator[v]
        BY <2>1 DEF TypeOK, IdleOperator
      <4>3. \A q \in Orders : order[q].status # "NONE" => order'[q].status # "NONE"
        BY <2>1, <3>4 DEF Statuses
      <4> QED BY <4>1, <4>2, <4>3 DEF Requests
    <3> QED BY <3>7, <3>8, <3>9
  <2>4. CASE ~Refunds(w)
    <3>1. /\ order' = [order EXCEPT ![o].status = operator[w].to]
          /\ UNCHANGED <<balance, moves>>
      BY <1>10, <2>4 DEF transitionCommit
    <3> HIDE DEF o, p
    <3>2. /\ order' \in [Orders -> OrderType]
          /\ order'[o].status = operator[w].to /\ order'[o].points = order[o].points
          /\ order'[o].partner = order[o].partner
          /\ \A q \in Orders \ {o} : order'[q] = order[q]
      <4>1. order[o] \in OrderType /\ operator[w].to \in Statuses
        BY <2>1 DEF TypeOK
      <4>2. order' = [order EXCEPT ![o] = [order[o] EXCEPT !.status = operator[w].to]]
        BY <3>1
      <4> DEFINE r == [order[o] EXCEPT !.status = operator[w].to]
      <4>3. r \in OrderType /\ r.status = operator[w].to /\ r.points = order[o].points
            /\ r.partner = order[o].partner
        BY <4>1, SetStatus
      <4> HIDE DEF r
      <4>4. order' = [order EXCEPT ![o] = r]
        BY <4>2 DEF r
      <4> QED BY <2>1, <4>3, <4>4 DEF TypeOK
    <3>3. TypeOK'
      BY <2>1, <2>2, <3>1, <3>2 DEF TypeOK
    <3>4. Placed' /\ Undebited' /\ MoneyMovesOnce'
      BY <2>1, <3>1, <3>2 DEF Placed, Undebited, MoneyMovesOnce, Statuses, p
    <3>5. Requests'
      <4>1. \A c \in Confirms : confirm'[c] = confirm[c]
        BY <2>1
      <4>2. /\ operator'[w].pc = "idle"
            /\ \A v \in Transitions \ {w} : operator'[v] = operator[v]
        BY <2>1 DEF TypeOK, IdleOperator
      <4>3. \A q \in Orders : order[q].status # "NONE" => order'[q].status # "NONE"
        BY <2>1, <3>2 DEF Statuses
      <4> QED BY <4>1, <4>2, <4>3 DEF Requests
    <3> QED BY <3>3, <3>4, <3>5
  <2> QED BY <2>3, <2>4
<1>11. ASSUME NEW w \in Transitions, transitionRefused(w) PROVE RInv'
  BY <1>11 DEF transitionRefused, TypeOK, OperatorType, IdleOperator,
               Placed, Undebited, Requests, MoneyMovesOnce
<1>13. ASSUME NEW v \in Vendors, NEW o \in Orders, NEW to \in Statuses,
              vendorTransition(v, o, to)
       PROVE  RInv'
  <2>1. /\ v \in Transitions
        /\ operator' = [operator EXCEPT ![v] =
             [pc |-> "read", order |-> o, to |-> to, points |-> order[o].points]]
        /\ UNCHANGED <<order, otp, balance, stock, moves, opening, confirm>>
    BY <1>13 DEF vendorTransition, Transitions
  <2>2. to # "PENDING" /\ order[o].status # "NONE"
    BY <1>13 DEF vendorTransition, VendorEdges
  <2>3. operator' \in [Transitions -> OperatorType]
    BY <2>1 DEF TypeOK, OperatorType, OrderType
  <2>4. TypeOK'
    BY <2>1, <2>3 DEF TypeOK
  <2>5. Requests'
    BY <2>1, <2>2 DEF Requests, TypeOK
  <2>6. Placed' /\ Undebited' /\ MoneyMovesOnce'
    BY <2>1 DEF Placed, Undebited, MoneyMovesOnce
  <2> QED BY <2>4, <2>5, <2>6
<1>12. CASE UNCHANGED vars
  BY <1>12 DEF vars, TypeOK, Placed, Undebited, Requests, MoneyMovesOnce
<1> QED
  BY <1>1, <1>2, <1>3, <1>4, <1>5, <1>6, <1>7, <1>8, <1>9, <1>10, <1>11, <1>12, <1>13
     DEF Next, Opening, Confirming, Operating, Fulfilling, Transitions

(* In every interleaving the types hold: no balance and no stock goes below  *)
(* zero.                                                                     *)
THEOREM RedemptionTypeCorrect == Spec => []TypeOK
<1>1. RInv => TypeOK
  BY DEF RInv
<1> QED BY <1>1, RInvInit, RInvNext, PTL DEF Spec

(* An order is debited once, by its confirmation, and refunded at most once, *)
(* however many operators and vendors write its status at the same time.     *)
THEOREM RedemptionMovesMoneyOnce == Spec => []MoneyMovesOnce
<1>1. RInv => MoneyMovesOnce
  BY DEF RInv
<1> QED BY <1>1, RInvInit, RInvNext, PTL DEF Spec

-----------------------------------------------------------------------------
(* The refinement.  What PointsHold sees of the rows:                       *)
holderBar == [o \in Orders |-> IF order[o].points > 0 THEN order[o].partner ELSE NoPartner]
chargedBar == {o \in Orders : moves[o].redeem > 0}

(* Steps that leave the money of every order alone change nothing it sees.  *)
LEMMA SameMoney ==
  ASSUME RInv, UNCHANGED <<balance, moves>>,
         \A o \in Orders : order'[o].points = order[o].points /\
                            (order[o].points > 0 => order'[o].partner = order[o].partner)
  PROVE  UNCHANGED <<balance, holderBar, chargedBar>>
<1>1. \A o \in Orders : (IF order'[o].points > 0 THEN order'[o].partner ELSE NoPartner)
                       = (IF order[o].points > 0 THEN order[o].partner ELSE NoPartner)
  OBVIOUS
<1> QED BY <1>1 DEF holderBar, chargedBar

(* The commit of a confirmation charges the order.                          *)
LEMMA ConfirmCharges ==
  ASSUME RInv, NEW c \in Confirms, confirmCommit(c)
  PROVE  \E o \in Orders, p \in Partners :
           /\ o \notin chargedBar
           /\ balance[p] >= Price
           /\ balance' = [balance EXCEPT ![p] = @ - Price]
           /\ holderBar' = [holderBar EXCEPT ![o] = p]
           /\ chargedBar' = chargedBar \cup {o}
<1> DEFINE o == confirm[c].order
           p == order[o].partner
<1>1. /\ o \in Orders /\ p \in Partners /\ moves[o].redeem = 0
  BY DEF confirmCommit, Claimed, RInv, Requests, Placed, Undebited
<1>2. /\ order' = [order EXCEPT ![o] = [status |-> "CONFIRMED", partner |-> p, points |-> Price]]
      /\ balance' = [balance EXCEPT ![p] = @ - Price]
      /\ moves' = [moves EXCEPT ![o].redeem = @ + 1]
      /\ balance[p] >= Price
  BY DEF confirmCommit
<1> HIDE DEF o, p
<1>3. /\ order'[o].points = Price /\ order'[o].partner = p
      /\ \A q \in Orders \ {o} : order'[q] = order[q]
  BY <1>1, <1>2 DEF RInv, TypeOK
<1>4. /\ moves'[o].redeem = 1
      /\ \A q \in Orders \ {o} : moves'[q] = moves[q]
  BY <1>1, <1>2 DEF RInv, TypeOK
<1>5. o \notin chargedBar /\ chargedBar' = chargedBar \cup {o}
  BY <1>1, <1>4 DEF chargedBar
<1>6. holderBar' = [holderBar EXCEPT ![o] = p]
  <2>1. \A q \in Orders : (IF order'[q].points > 0 THEN order'[q].partner ELSE NoPartner)
                          = IF q = o THEN p ELSE holderBar[q]
    BY <1>1, <1>3 DEF holderBar
  <2>2. holderBar' = [q \in Orders |-> IF q = o THEN p ELSE holderBar[q]]
    BY <2>1 DEF holderBar
  <2>3. DOMAIN holderBar = Orders /\ holderBar = [q \in Orders |-> holderBar[q]]
    BY DEF holderBar
  <2> QED BY <1>1, <2>2, <2>3
<1> QED BY <1>1, <1>2, <1>5, <1>6

(* The commit of a transition that refunds gives back what was charged, to  *)
(* the wallet it was charged to.                                            *)
LEMMA TransitionRefunds ==
  ASSUME RInv, NEW w \in Transitions, transitionCommit(w), Refunds(w)
  PROVE  \E o \in Orders :
           /\ holderBar[o] # NoPartner
           /\ balance' = [balance EXCEPT ![holderBar[o]] = @ + Price]
           /\ holderBar' = [holderBar EXCEPT ![o] = NoPartner]
           /\ chargedBar' = chargedBar
<1> DEFINE o == operator[w].order
           p == order[o].partner
<1>1. /\ o \in Orders /\ p \in Partners /\ order[o].points > 0
  BY DEF transitionCommit, Refunds, RefundClaimed, RInv, Requests, Placed
<1>2. /\ operator[w].points > 0
      /\ balance' = [balance EXCEPT ![p] = @ + operator[w].points]
      /\ moves' = [moves EXCEPT ![o].reverse = @ + 1]
      /\ order' = [order EXCEPT ![o] = [status |-> operator[w].to, partner |-> p, points |-> 0]]
  BY DEF transitionCommit
<1>3. operator[w].points = Price
  BY <1>2 DEF RInv, TypeOK, OperatorType
<1> HIDE DEF o
<1>4. /\ order'[o].points = 0
      /\ \A q \in Orders \ {o} : order'[q] = order[q]
  BY <1>1, <1>2 DEF RInv, TypeOK
<1>5. \A q \in Orders : moves'[q].redeem = moves[q].redeem
  BY <1>1, <1>2 DEF RInv, TypeOK
<1>6. holderBar[o] = p /\ p # NoPartner
  BY <1>1 DEF holderBar
<1>7. holderBar' = [holderBar EXCEPT ![o] = NoPartner]
  <2>1. \A q \in Orders : (IF order'[q].points > 0 THEN order'[q].partner ELSE NoPartner)
                          = IF q = o THEN NoPartner ELSE holderBar[q]
    BY <1>1, <1>4 DEF holderBar
  <2>2. holderBar' = [q \in Orders |-> IF q = o THEN NoPartner ELSE holderBar[q]]
    BY <2>1 DEF holderBar
  <2>3. DOMAIN holderBar = Orders /\ holderBar = [q \in Orders |-> holderBar[q]]
    BY DEF holderBar
  <2> QED BY <1>1, <2>2, <2>3
<1>8. chargedBar' = chargedBar
  BY <1>5 DEF chargedBar
<1> QED BY <1>1, <1>2, <1>3, <1>6, <1>7, <1>8

(* Every other step leaves the money alone.                                 *)
LEMMA StepRefines ==
  ASSUME RInv, [Next]_vars
  PROVE  [Hold!Next]_(Hold!holdVars)
<1> DEFINE Stutter == UNCHANGED <<balance, holderBar, chargedBar>>
<1>1. CASE UNCHANGED <<order, balance, moves>>
  <2>1. Stutter BY <1>1 DEF holderBar, chargedBar
  <2> QED BY <2>1 DEF Hold!holdVars, holderBar, chargedBar
<1>2. ASSUME NEW o \in Orders, redeemCommit(o) PROVE Stutter
  <2>1. order[o].points = 0
    BY <1>2 DEF RInv, redeemCommit, Placed, Undebited, MoneyMovesOnce, TypeOK
  <2>2. \A q \in Orders : /\ order'[q].points = order[q].points
                          /\ q # o => order'[q].partner = order[q].partner
    <3>1. \A q \in Orders : order[q] \in OrderType
      BY DEF RInv, TypeOK
    <3>2. \A q \in Orders :
            /\ [order[q] EXCEPT !.status = "CANCELLED"].points = order[q].points
            /\ [order[q] EXCEPT !.status = "CANCELLED"].partner = order[q].partner
      BY <3>1, SetStatus DEF Statuses
    <3>3. order'[o].points = 0
      BY <1>2 DEF redeemCommit
    <3>4. \A q \in Orders \ {o} : \/ order'[q] = order[q]
                                  \/ order'[q] = [order[q] EXCEPT !.status = "CANCELLED"]
      BY <1>2 DEF redeemCommit
    <3> QED BY <2>1, <3>2, <3>3, <3>4
  <2>3. UNCHANGED <<balance, moves>>
    BY <1>2 DEF redeemCommit
  <2> QED BY <2>1, <2>2, <2>3, SameMoney
<1>3. ASSUME NEW o \in Orders, cleanup(o) PROVE Stutter
  <2>1. order[o] \in OrderType /\ order' = [order EXCEPT ![o] = [order[o] EXCEPT !.status = "CANCELLED"]]
    BY <1>3 DEF cleanup, RInv, TypeOK
  <2>2. \A q \in Orders : order'[q].points = order[q].points /\ order'[q].partner = order[q].partner
    <3>1. LET r == [order[o] EXCEPT !.status = "CANCELLED"]
          IN  r.points = order[o].points /\ r.partner = order[o].partner
      BY <2>1, SetStatus DEF Statuses
    <3>2. \A q \in Orders \ {o} : order'[q] = order[q]
      BY <2>1
    <3>3. order'[o] = [order[o] EXCEPT !.status = "CANCELLED"]
      BY <2>1 DEF RInv, TypeOK
    <3> QED BY <3>1, <3>2, <3>3
  <2>3. UNCHANGED <<balance, moves>>
    BY <1>3 DEF cleanup
  <2> QED BY <2>2, <2>3, SameMoney
<1>4. ASSUME NEW w \in Transitions, transitionCommit(w), ~Refunds(w) PROVE Stutter
  <2> DEFINE o == operator[w].order
  <2>1. /\ o \in Orders /\ order[o] \in OrderType /\ operator[w].to \in Statuses
        /\ order' = [order EXCEPT ![o] = [order[o] EXCEPT !.status = operator[w].to]]
        /\ UNCHANGED <<balance, moves>>
    BY <1>4 DEF transitionCommit, RInv, Requests, TypeOK
  <2> HIDE DEF o
  <2>2. \A q \in Orders : order'[q].points = order[q].points /\ order'[q].partner = order[q].partner
    <3>1. LET r == [order[o] EXCEPT !.status = operator[w].to]
          IN  r.points = order[o].points /\ r.partner = order[o].partner
      BY <2>1, SetStatus
    <3>2. \A q \in Orders \ {o} : order'[q] = order[q]
      BY <2>1
    <3>3. order'[o] = [order[o] EXCEPT !.status = operator[w].to]
      BY <2>1 DEF RInv, TypeOK
    <3> QED BY <3>1, <3>2, <3>3
  <2> QED BY <2>1, <2>2, SameMoney
<1>5. Stutter => [Hold!Next]_(Hold!holdVars)
  BY DEF Hold!holdVars, holderBar, chargedBar
<1>6. ASSUME NEW c \in Confirms, confirmCommit(c) PROVE Hold!Next
  BY <1>6, ConfirmCharges DEF Hold!Next, Hold!Charge, holderBar, chargedBar
<1>7. ASSUME NEW w \in Transitions, transitionCommit(w), Refunds(w) PROVE Hold!Next
  <2>1. PICK o \in Orders :
          /\ holderBar[o] # NoPartner
          /\ balance' = [balance EXCEPT ![holderBar[o]] = @ + Price]
          /\ holderBar' = [holderBar EXCEPT ![o] = NoPartner]
          /\ chargedBar' = chargedBar
    BY <1>7, TransitionRefunds
  <2>2. balance \in [Partners -> Nat] /\ DOMAIN holderBar = Orders
    BY DEF RInv, TypeOK, holderBar
  <2>3. \A q \in Partners : {x \in {o} : holderBar[x] = q}
                             = IF q = holderBar[o] THEN {o} ELSE {}
    OBVIOUS
  <2>4. Cardinality({o}) = 1 /\ Cardinality({}) = 0
    BY FS_Singleton, FS_EmptySet
  <2>5. \A q \in Partners : Cardinality({x \in {o} : holderBar[x] = q})
                             = IF q = holderBar[o] THEN 1 ELSE 0
    BY <2>3, <2>4
  <2>6. balance' = [q \in Partners |->
                      balance[q] + Price * Cardinality({x \in {o} : holderBar[x] = q})]
    <3>1. \A q \in Partners : Price * (IF q = holderBar[o] THEN 1 ELSE 0)
                                = IF q = holderBar[o] THEN Price ELSE 0
      OBVIOUS
    <3>2. \A q \in Partners : balance[q] + Price * Cardinality({x \in {o} : holderBar[x] = q})
                              = balance[q] + IF q = holderBar[o] THEN Price ELSE 0
      BY <2>5, <3>1
    <3>3. balance' = [q \in Partners |-> balance[q] + IF q = holderBar[o] THEN Price ELSE 0]
      <4>1. \A q \in Partners : balance'[q] = balance[q] + IF q = holderBar[o] THEN Price ELSE 0
        BY <2>1, <2>2
      <4>2. balance' = [q \in Partners |-> balance'[q]]
        BY <2>1, <2>2
      <4> QED BY <4>1, <4>2
    <3> QED BY <3>2, <3>3
  <2>7. holderBar' = [x \in Orders |-> IF x \in {o} THEN NoPartner ELSE holderBar[x]]
    BY <2>1, <2>2 DEF holderBar
  <2>8. \A x \in {o} : holderBar[x] # NoPartner
    BY <2>1
  <2>9. Hold!Refund({o})
    <3>1. \A T : Hold!Cardinality(T) = Cardinality(T)
      BY Zenon DEF Hold!Cardinality, Cardinality
    <3> QED BY <2>1, <2>6, <2>7, <2>8, <3>1 DEF Hold!Refund, holderBar, chargedBar
  <2> QED BY <2>9 DEF Hold!Next
<1> HIDE DEF Stutter
<1>8. ASSUME NEW o \in Orders, Opening(o) PROVE [Hold!Next]_(Hold!holdVars)
  BY <1>1, <1>2, <1>3, <1>5, <1>8
     DEF Opening, redeem, sendOtp, sendOtpFails, cleanupFails, OtpDies
<1>9. ASSUME NEW c \in Confirms, Confirming(c) PROVE [Hold!Next]_(Hold!holdVars)
  BY <1>1, <1>6, <1>9 DEF Confirming, confirmGate, confirmRecheck, confirmRefused
<1>10. ASSUME NEW w \in Operators, Operating(w) PROVE [Hold!Next]_(Hold!holdVars)
  BY <1>1, <1>4, <1>5, <1>7, <1>10 DEF Operating, transitionRead, transitionRefused, Transitions
<1>11. ASSUME NEW v \in Vendors, Fulfilling(v) PROVE [Hold!Next]_(Hold!holdVars)
  BY <1>1, <1>4, <1>5, <1>7, <1>11 DEF Fulfilling, vendorTransition, Transitions
<1> QED BY <1>1, <1>8, <1>9, <1>10, <1>11 DEF Next, vars

(* Every behaviour of the redemption is one PointsHold allows.              *)
THEOREM RedemptionImplementsHold == Spec => ImplementsHold
<1>1. Init => Hold!Init
  BY DEF Init, Hold!Init
<1>2. RInv /\ [Next]_vars => [Hold!Next]_(Hold!holdVars)
  BY StepRefines
<1> QED BY <1>1, <1>2, RInvInit, RInvNext, PTL DEF Spec, ImplementsHold, Hold!Spec

-----------------------------------------------------------------------------
(* The stock.  What was charged is finite, so that it can be counted.        *)
Counted == IsFiniteSet(chargedBar) /\ stock + Cardinality(chargedBar) = InitialStock

LEMMA CountedInit == Init => Counted
<1> SUFFICES ASSUME Init PROVE Counted
  OBVIOUS
<1>1. chargedBar = {} /\ stock = InitialStock
  BY DEF Init, chargedBar
<1> QED BY <1>1, FS_EmptySet DEF Counted

(* A step that is no commit of a confirmation takes no stock, and charges    *)
(* nobody.                                                                   *)
LEMMA OnlyConfirmCharges ==
  ASSUME RInv, [Next]_vars
  PROVE  \/ UNCHANGED stock /\ chargedBar' = chargedBar
         \/ \E c \in Confirms : confirmCommit(c)
<1> DEFINE Same == UNCHANGED stock /\ chargedBar' = chargedBar
<1>1. UNCHANGED <<stock, moves>> => Same
  BY DEF chargedBar
<1>2. ASSUME NEW o \in Orders, Opening(o) PROVE UNCHANGED <<stock, moves>>
  BY <1>2 DEF Opening, redeem, redeemCommit, sendOtp, sendOtpFails, cleanup, cleanupFails, OtpDies
<1>3. ASSUME NEW c \in Confirms, Confirming(c), ~confirmCommit(c) PROVE UNCHANGED <<stock, moves>>
  BY <1>3 DEF Confirming, confirmGate, confirmRecheck, confirmRefused
<1>4. ASSUME NEW w \in Transitions, transitionCommit(w) PROVE Same
  <2>1. CASE Refunds(w)
    <3>1. UNCHANGED stock
      BY <1>4 DEF transitionCommit
    <3> QED BY <1>4, <2>1, <3>1, TransitionRefunds
  <2>2. CASE ~Refunds(w)
    BY <1>1, <1>4, <2>2 DEF transitionCommit
  <2> QED BY <2>1, <2>2
<1>5. ASSUME NEW w \in Transitions,
             \/ \E o \in Orders, to \in Statuses : transitionRead(w, o, to) \/ vendorTransition(w, o, to)
             \/ transitionRefused(w)
      PROVE  UNCHANGED <<stock, moves>>
  BY <1>5 DEF transitionRead, vendorTransition, transitionRefused
<1>6. CASE UNCHANGED vars
  BY <1>1, <1>6 DEF vars
<1> QED BY <1>1, <1>2, <1>3, <1>4, <1>5, <1>6 DEF Next, Operating, Fulfilling, Transitions

LEMMA CountedNext == RInv /\ Counted /\ [Next]_vars => Counted'
<1> SUFFICES ASSUME RInv, Counted, [Next]_vars PROVE Counted'
  OBVIOUS
<1>1. CASE UNCHANGED stock /\ chargedBar' = chargedBar
  BY <1>1 DEF Counted
<1>2. ASSUME NEW c \in Confirms, confirmCommit(c) PROVE Counted'
  <2>1. PICK o \in Orders : o \notin chargedBar /\ chargedBar' = chargedBar \cup {o}
    BY <1>2, ConfirmCharges
  <2>2. stock' = stock - 1 /\ stock \in Nat
    BY <1>2 DEF confirmCommit, RInv, TypeOK
  <2>3. Cardinality(chargedBar) \in Nat
    BY FS_CardinalityType DEF Counted
  <2>4. IsFiniteSet(chargedBar \cup {o}) /\ Cardinality(chargedBar \cup {o}) = Cardinality(chargedBar) + 1
    BY <2>1, FS_AddElement DEF Counted
  <2> QED BY <2>1, <2>2, <2>3, <2>4 DEF Counted
<1> QED BY <1>1, <1>2, OnlyConfirmCharges

(* However many orders race for the last units, every confirmed order has    *)
(* taken exactly one unit of stock, and the item is never oversold.          *)
THEOREM StockIsConsumed == Spec => []StockConsumed
<1>1. RInv /\ Counted => StockConsumed
  BY DEF RInv, Counted, StockConsumed, chargedBar, TypeOK
<1>2. Init => RInv /\ Counted
  BY RInvInit, CountedInit
<1>3. RInv /\ Counted /\ [Next]_vars => RInv' /\ Counted'
  BY RInvNext, CountedNext
<1> QED BY <1>1, <1>2, <1>3, PTL DEF Spec

-----------------------------------------------------------------------------
(* The passwords.  A confirm request holds the password of its own order,    *)
(* and a password is consumed exactly when its order is debited.             *)
OwnOtp ==
  /\ ConfirmedByOwnOtp
  /\ \A c \in Confirms : confirm[c].pc # "idle" => confirm[c].otp = confirm[c].order

LEMMA OwnOtpInit == Init => OwnOtp
  BY DEF Init, OwnOtp, ConfirmedByOwnOtp, IdleConfirm

LEMMA OwnOtpNext == RInv /\ OwnOtp /\ [Next]_vars => OwnOtp'
<1> SUFFICES ASSUME RInv, OwnOtp, [Next]_vars PROVE OwnOtp'
  OBVIOUS
<1>1. ASSUME \A o \in Orders : moves'[o].redeem = moves[o].redeem /\ (otp'[o] = "verified" <=> otp[o] = "verified")
      PROVE  ConfirmedByOwnOtp'
  BY <1>1 DEF OwnOtp, ConfirmedByOwnOtp
<1>2. confirm' = confirm /\ ConfirmedByOwnOtp' => OwnOtp'
  BY DEF OwnOtp
<1>3. UNCHANGED <<otp, moves, confirm>> => OwnOtp'
  BY <1>1, <1>2
<1>4. ASSUME NEW o \in Orders, redeemCommit(o) PROVE OwnOtp'
  <2>1. moves[o].redeem = 0 /\ otp[o] # "verified" /\ opening[o].cleared \in SUBSET Orders
    BY <1>4 DEF redeemCommit, RInv, Placed, Undebited, OwnOtp, ConfirmedByOwnOtp, TypeOK, OpeningType
  <2>2. \A q \in Orders : moves'[q].redeem = moves[q].redeem /\ (otp'[q] = "verified" <=> otp[q] = "verified")
    BY <1>4, <2>1 DEF redeemCommit, Unverified
  <2> QED BY <1>1, <1>2, <1>4, <2>2 DEF redeemCommit
<1>5. ASSUME NEW o \in Orders, cleanup(o) \/ OtpDies(o) PROVE OwnOtp'
  <2>1. \A q \in Orders : moves'[q].redeem = moves[q].redeem /\ (otp'[q] = "verified" <=> otp[q] = "verified")
    BY <1>5 DEF cleanup, OtpDies, Unverified, RInv, TypeOK
  <2> QED BY <1>1, <1>2, <1>5, <2>1 DEF cleanup, OtpDies
<1>6. ASSUME NEW c \in Confirms, NEW o \in Orders, confirmGate(c, o) PROVE OwnOtp'
  BY <1>6 DEF confirmGate, OtpFor, OwnOtp, ConfirmedByOwnOtp, RInv, TypeOK
<1>7. ASSUME NEW c \in Confirms, confirmRecheck(c) \/ confirmRefused(c) PROVE OwnOtp'
  <2>1. /\ confirm[c].pc # "idle" /\ confirm[c] \in ConfirmType
        /\ \/ confirm' = [confirm EXCEPT ![c] = [confirm[c] EXCEPT !.pc = "checked"]]
           \/ confirm' = [confirm EXCEPT ![c] = IdleConfirm]
        /\ UNCHANGED <<otp, moves>>
    BY <1>7 DEF confirmRecheck, confirmRefused, RInv, TypeOK
  <2>2. PICK r : /\ confirm' = [confirm EXCEPT ![c] = r]
                 /\ r.pc = "idle" \/ (r.otp = confirm[c].otp /\ r.order = confirm[c].order)
    <3>1. IdleConfirm.pc = "idle"
      BY DEF IdleConfirm
    <3>2. /\ [confirm[c] EXCEPT !.pc = "checked"].otp = confirm[c].otp
          /\ [confirm[c] EXCEPT !.pc = "checked"].order = confirm[c].order
      BY <2>1, SetConfirmPc
    <3> QED BY <2>1, <3>1, <3>2
  <2>3. confirm'[c] = r /\ \A d \in Confirms \ {c} : confirm'[d] = confirm[d]
    BY <2>2 DEF RInv, TypeOK
  <2> QED BY <1>1, <2>1, <2>2, <2>3 DEF OwnOtp
<1>8. ASSUME NEW c \in Confirms, confirmCommit(c) PROVE OwnOtp'
  <2> DEFINE o == confirm[c].order
  <2>1. o \in Orders /\ confirm[c].otp = o /\ moves[o].redeem = 0
    BY <1>8 DEF confirmCommit, Claimed, RInv, Requests, Undebited, OwnOtp
  <2>2. /\ otp' = [otp EXCEPT ![o] = "verified"]
        /\ moves' = [moves EXCEPT ![o].redeem = @ + 1]
        /\ confirm' = [confirm EXCEPT ![c] = IdleConfirm]
    BY <1>8, <2>1 DEF confirmCommit
  <2> HIDE DEF o
  <2>3. /\ otp'[o] = "verified" /\ moves'[o].redeem = 1
        /\ \A q \in Orders \ {o} : otp'[q] = otp[q] /\ moves'[q] = moves[q]
    BY <2>1, <2>2 DEF RInv, TypeOK
  <2>4. confirm'[c].pc = "idle" /\ \A d \in Confirms \ {c} : confirm'[d] = confirm[d]
    BY <2>2 DEF RInv, TypeOK, IdleConfirm
  <2> QED BY <2>3, <2>4 DEF OwnOtp, ConfirmedByOwnOtp
<1>9. ASSUME NEW w \in Transitions, transitionCommit(w) PROVE OwnOtp'
  <2>1. otp' = otp /\ confirm' = confirm
    BY <1>9 DEF transitionCommit
  <2>2. \A q \in Orders : moves'[q].redeem = moves[q].redeem
    BY <1>9 DEF transitionCommit, RInv, TypeOK
  <2> QED BY <1>1, <1>2, <2>1, <2>2
<1>10. ASSUME NEW o \in Orders, Opening(o), ~redeemCommit(o), ~cleanup(o), ~OtpDies(o) PROVE OwnOtp'
  BY <1>3, <1>10 DEF Opening, redeem, sendOtp, sendOtpFails, cleanupFails
<1>11. ASSUME NEW w \in Transitions,
              \/ \E o \in Orders, to \in Statuses : transitionRead(w, o, to) \/ vendorTransition(w, o, to)
              \/ transitionRefused(w)
       PROVE  OwnOtp'
  BY <1>3, <1>11 DEF transitionRead, vendorTransition, transitionRefused
<1>12. CASE UNCHANGED vars
  BY <1>3, <1>12 DEF vars
<1> QED BY <1>4, <1>5, <1>6, <1>7, <1>8, <1>9, <1>10, <1>11, <1>12
        DEF Next, Confirming, Operating, Fulfilling, Transitions

(* Whatever logins the outlets share, an order is debited exactly when the   *)
(* password that was sent for it has been entered.                           *)
THEOREM OnlyOwnOtpConfirms == Spec => []ConfirmedByOwnOtp
<1>1. OwnOtp => ConfirmedByOwnOtp
  BY DEF OwnOtp
<1>2. Init => RInv /\ OwnOtp
  BY RInvInit, OwnOtpInit
<1>3. RInv /\ OwnOtp /\ [Next]_vars => RInv' /\ OwnOtp'
  BY RInvNext, OwnOtpNext
<1> QED BY <1>1, <1>2, <1>3, PTL DEF Spec

-----------------------------------------------------------------------------
(* One transition at a time.  What follows assumes that no two transitions   *)
(* overlap and that the provider does not report a delivered password as     *)
(* failed.  Then all that can change between the read of a transition and    *)
(* its commit is that a PENDING order is confirmed or superseded, and either *)
(* way what the transition does next is still an edge, or nothing.           *)
Alone == Vendors = {} /\ ~SendMayFail /\ \A v, w \in Operators : v = w

Orderly ==
  /\ \A o \in Orders : opening[o].pc # "undo"
  /\ \A w \in Operators : operator[w].pc = "read" =>
       \/ <<order[operator[w].order].status, operator[w].to>> \in Edges
       \/ order[operator[w].order].status = operator[w].to
  /\ RefundedIffStopped

AlongEdges(o) ==
  order[o].status \notin {"NONE", order'[o].status} =>
    <<order[o].status, order'[o].status>> \in Edges \cup {<<"PENDING", "CONFIRMED">>}

LEMMA OrderlyInit == Init => Orderly
  BY DEF Init, Orderly, RefundedIffStopped, RefundTargets, IdleOpening, IdleOperator, Transitions

(* A commit of the only transition.                                          *)
LEMMA OrderlyCommit ==
  ASSUME Alone, RInv, Orderly, NEW w \in Transitions, transitionCommit(w)
  PROVE  Orderly' /\ \A o \in Orders : AlongEdges(o)
<1> DEFINE o == operator[w].order
           to == operator[w].to
<1>1. /\ w \in Operators /\ o \in Orders /\ order[o] \in OrderType
      /\ order[o].status \in Statuses /\ to \in Statuses
      /\ operator' = [operator EXCEPT ![w] = IdleOperator] /\ UNCHANGED opening
  <2>1. w \in Operators /\ o \in Orders /\ to \in Statuses /\ order[o].status # "NONE"
    BY DEF Alone, Transitions, transitionCommit, RInv, Requests
  <2>2. order[o] \in OrderType
    BY <2>1 DEF RInv, TypeOK
  <2> QED BY <2>1, <2>2 DEF transitionCommit, OrderType
<1>2. /\ order'[o].status = to
      /\ order'[o].points = IF to \in RefundTargets THEN 0 ELSE order[o].points
      /\ \A q \in Orders \ {o} : order'[q] = order[q]
  <2>1. CASE Refunds(w)
    BY <1>1, <2>1 DEF transitionCommit, RInv, TypeOK, Refunds
  <2>2. CASE ~Refunds(w)
    <3>1. order' = [order EXCEPT ![o] = [order[o] EXCEPT !.status = to]]
      BY <2>2 DEF transitionCommit
    <3>2. [order[o] EXCEPT !.status = to].status = to
          /\ [order[o] EXCEPT !.status = to].points = order[o].points
      BY <1>1, SetStatus
    <3>3. order'[o] = [order[o] EXCEPT !.status = to] /\ \A q \in Orders \ {o} : order'[q] = order[q]
      BY <1>1, <3>1 DEF RInv, TypeOK
    <3>4. to \in RefundTargets => order[o].points = 0
      BY <1>1, <2>2, RedemptionAssumption DEF Refunds, RefundClaimed, OrderType
    <3> QED BY <3>2, <3>3, <3>4
  <2> QED BY <2>1, <2>2
<1>3. <<order[o].status, to>> \in Edges \/ order[o].status = to
  BY <1>1 DEF Orderly, transitionCommit
<1>4. operator'[w].pc = "idle"
  BY <1>1 DEF RInv, TypeOK, IdleOperator, Transitions
<1> HIDE DEF o, to
<1>5. \A q \in Orders : AlongEdges(q)
  BY <1>2, <1>3 DEF AlongEdges
<1>6. \A v \in Operators : operator'[v].pc = "idle"
  BY <1>1, <1>4 DEF Alone
<1>7. RefundedIffStopped'
  <2>1. /\ to \in RefundTargets \cup {"PENDING"} => order'[o].points = 0
        /\ to \in {"CONFIRMED", "PROCESSING", "DISPATCHED", "DELIVERED"} => order'[o].points > 0
    <3>1. CASE order[o].status = to
      BY <1>1, <1>2, <3>1 DEF Orderly, RefundedIffStopped, RefundTargets
    <3>2. CASE <<order[o].status, to>> \in Edges
      BY <1>1, <1>2, <3>2 DEF Orderly, RefundedIffStopped, RefundTargets, Edges
    <3> QED BY <1>3, <3>1, <3>2
  <2> QED BY <1>2, <2>1 DEF Orderly, RefundedIffStopped
<1> QED BY <1>1, <1>5, <1>6, <1>7 DEF Orderly

(* What leaves every order's status and points alone ...                     *)
LEMMA OrderlyQuiet ==
  ASSUME Orderly, order' = order, operator' = operator,
         \A o \in Orders : opening'[o].pc # "undo"
  PROVE  Orderly' /\ \A o \in Orders : AlongEdges(o)
  BY DEF Orderly, RefundedIffStopped, AlongEdges

(* ... and what confirms or supersedes PENDING ones.                         *)
LEMMA OrderlyPending ==
  ASSUME RInv, Orderly, operator' = operator, \A o \in Orders : opening'[o].pc # "undo",
         \A o \in Orders :
           \/ order'[o].status = order[o].status /\ order'[o].points = order[o].points
           \/ order[o].status = "NONE" /\ order'[o].status = "PENDING" /\ order'[o].points = 0
           \/ /\ order[o].status = "PENDING"
              /\ \/ order'[o].status = "CANCELLED" /\ order'[o].points = 0
                 \/ order'[o].status = "CONFIRMED" /\ order'[o].points > 0
  PROVE  Orderly' /\ \A o \in Orders : AlongEdges(o)
<1>1. \A o \in Orders : AlongEdges(o)
  BY DEF AlongEdges, Edges
<1>2. RefundedIffStopped'
  BY DEF Orderly, RefundedIffStopped, RefundTargets
<1>3. ASSUME NEW w \in Operators, operator'[w].pc = "read"
      PROVE  \/ <<order'[operator'[w].order].status, operator'[w].to>> \in Edges
             \/ order'[operator'[w].order].status = operator'[w].to
  <2> DEFINE o == operator[w].order
  <2>1. /\ o \in Orders /\ order[o].status # "NONE"
        /\ <<order[o].status, operator[w].to>> \in Edges \/ order[o].status = operator[w].to
    BY <1>3 DEF Orderly, RInv, Requests, Transitions
  <2>2. operator[w].to # "PENDING"
    BY <1>3 DEF RInv, Requests, Transitions
  <2>3. order[o].status = "PENDING" => operator[w].to = "CANCELLED"
    BY <2>1, <2>2 DEF Edges
  <2>4. <<"CONFIRMED", "CANCELLED">> \in Edges
    BY DEF Edges
  <2> QED BY <2>1, <2>3, <2>4
<1> QED BY <1>1, <1>2, <1>3 DEF Orderly

LEMMA OrderlyNext ==
  ASSUME Alone, RInv, Orderly, [Next]_vars
  PROVE  Orderly' /\ (UNCHANGED vars \/ \A o \in Orders : AlongEdges(o))
<1> DEFINE Goal == Orderly' /\ \A o \in Orders : AlongEdges(o)
<1>1. \A o \in Orders : opening[o].pc # "undo"
  BY DEF Orderly
<1>2. ASSUME NEW o \in Orders, redeemCommit(o) PROVE Goal
  <2>1. \A q \in Orders : opening'[q].pc # "undo"
    BY <1>1, <1>2 DEF redeemCommit, RInv, TypeOK, IdleOpening
  <2>2. order[o].status = "NONE" /\ order'[o].status = "PENDING" /\ order'[o].points = 0
    BY <1>2 DEF redeemCommit, RInv, Placed
  <2>3. ASSUME NEW q \in Orders, q # o
        PROVE  \/ order'[q] = order[q]
               \/ /\ order[q].status = "PENDING" /\ order'[q].status = "CANCELLED"
                  /\ order'[q].points = 0
    <3>1. order[q] \in OrderType /\ (order[q].status = "PENDING" => order[q].points = 0)
      BY DEF RInv, TypeOK, Orderly, RefundedIffStopped
    <3>2. [order[q] EXCEPT !.status = "CANCELLED"].status = "CANCELLED"
          /\ [order[q] EXCEPT !.status = "CANCELLED"].points = order[q].points
      BY <3>1, SetStatus DEF Statuses
    <3>3. \/ order'[q] = order[q]
          \/ order[q].status = "PENDING" /\ order'[q] = [order[q] EXCEPT !.status = "CANCELLED"]
      BY <1>2, <2>3 DEF redeemCommit, Superseded
    <3> QED BY <3>1, <3>2, <3>3
  <2> QED BY <1>2, <2>1, <2>2, <2>3, OrderlyPending DEF redeemCommit
<1>3. ASSUME NEW o \in Orders, Opening(o), ~redeemCommit(o) PROVE Goal
  <2>1. ~cleanup(o) /\ ~cleanupFails(o) /\ ~sendOtpFails(o)
    BY <1>1 DEF cleanup, cleanupFails, sendOtpFails, Alone
  <2>2. order' = order /\ operator' = operator
    BY <1>3, <2>1 DEF Opening, redeem, sendOtp, OtpDies
  <2>3. \A q \in Orders : opening'[q].pc # "undo"
    <3>1. ASSUME NEW p \in Partners, redeem(o, p) PROVE \A q \in Orders : opening'[q].pc # "undo"
      BY <1>1, <3>1 DEF redeem, RInv, TypeOK
    <3>2. CASE sendOtp(o)
      <4>1. opening' = [opening EXCEPT ![o] = [opening[o] EXCEPT !.pc = "closed"]]
        BY <3>2 DEF sendOtp
      <4>2. [opening[o] EXCEPT !.pc = "closed"].pc = "closed"
        BY SetOpeningPc DEF RInv, TypeOK
      <4> QED BY <1>1, <4>1, <4>2 DEF RInv, TypeOK
    <3>3. CASE OtpDies(o)
      BY <1>1, <3>3 DEF OtpDies
    <3> QED BY <1>3, <2>1, <3>1, <3>2, <3>3 DEF Opening
  <2> QED BY <2>2, <2>3, OrderlyQuiet
<1>4. ASSUME NEW c \in Confirms, confirmCommit(c) PROVE Goal
  <2> DEFINE o == confirm[c].order
  <2>1. /\ order[o].status = "PENDING" /\ o \in Orders /\ operator' = operator /\ opening' = opening
        /\ order' = [order EXCEPT ![o] =
                       [status |-> "CONFIRMED", partner |-> order[o].partner, points |-> Price]]
    BY <1>4 DEF confirmCommit, Claimed, RInv, Requests
  <2> HIDE DEF o
  <2>2. /\ order'[o].status = "CONFIRMED" /\ order'[o].points > 0
        /\ \A q \in Orders \ {o} : order'[q] = order[q]
    BY <2>1, RedemptionAssumption DEF RInv, TypeOK
  <2> QED BY <1>1, <2>1, <2>2, OrderlyPending
<1>5. ASSUME NEW c \in Confirms, Confirming(c), ~confirmCommit(c) PROVE Goal
  <2>1. order' = order /\ operator' = operator /\ opening' = opening
    BY <1>5 DEF Confirming, confirmGate, confirmRecheck, confirmRefused
  <2> QED BY <1>1, <2>1, OrderlyQuiet
<1>6. ASSUME NEW w \in Operators, NEW o \in Orders, NEW to \in Statuses, transitionRead(w, o, to)
      PROVE  Goal
  <2>1. /\ order' = order /\ opening' = opening /\ <<order[o].status, to>> \in Edges
        /\ operator'[w].order = o /\ operator'[w].to = to
    BY <1>6 DEF transitionRead, RInv, TypeOK, Transitions
  <2>2. \A v \in Operators : v = w
    BY DEF Alone
  <2>3. RefundedIffStopped' /\ \A q \in Orders : AlongEdges(q)
    BY <2>1 DEF Orderly, RefundedIffStopped, AlongEdges
  <2> QED BY <1>1, <2>1, <2>2, <2>3 DEF Orderly
<1>7. ASSUME NEW w \in Operators, transitionCommit(w) PROVE Goal
  BY <1>7, OrderlyCommit DEF Transitions
<1>8. ASSUME NEW w \in Operators, transitionRefused(w) PROVE Goal
  <2>1. /\ order' = order /\ opening' = opening /\ operator'[w].pc = "idle"
    BY <1>8 DEF transitionRefused, RInv, TypeOK, Transitions, IdleOperator
  <2>2. \A v \in Operators : v = w
    BY DEF Alone
  <2>3. RefundedIffStopped' /\ \A q \in Orders : AlongEdges(q)
    BY <2>1 DEF Orderly, RefundedIffStopped, AlongEdges
  <2> QED BY <1>1, <2>1, <2>2, <2>3 DEF Orderly
<1>9. CASE UNCHANGED vars
  <2>1. Goal
    BY <1>1, <1>9, OrderlyQuiet DEF vars
  <2> QED BY <2>1
<1>10. CASE Next
  BY <1>2, <1>3, <1>4, <1>5, <1>6, <1>7, <1>8, <1>10 DEF Next, Operating, Alone
<1> QED BY <1>9, <1>10

(* When transitions do not overlap, an order that was cancelled, returned or *)
(* failed has been refunded, and one on its way to the partner is paid for.  *)
THEOREM StoppedIffRefundedAlone ==
  ASSUME Alone
  PROVE  Spec => []RefundedIffStopped
<1>1. RInv /\ Orderly => RefundedIffStopped
  BY DEF Orderly
<1>2. Init => RInv /\ Orderly
  BY RInvInit, OrderlyInit
<1>3. RInv /\ Orderly /\ [Next]_vars => RInv' /\ Orderly'
  BY RInvNext, OrderlyNext
<1> QED BY <1>1, <1>2, <1>3, PTL DEF Spec

(* ... and an order never changes its status but along the table of edges,   *)
(* by its confirmation, or by being superseded.                              *)
THEOREM EdgesRespectedAlone ==
  ASSUME Alone
  PROVE  Spec => EdgesRespected
<1> DEFINE Keeps ==
      \A o \in Orders :
        order[o].status \notin {"NONE", order'[o].status} =>
          <<order[o].status, order'[o].status>> \in Edges \cup {<<"PENDING", "CONFIRMED">>}
<1>1. RInv /\ Orderly /\ [Next]_vars => [Keeps]_vars
  BY OrderlyNext DEF AlongEdges
<1>2. Init => RInv /\ Orderly
  BY RInvInit, OrderlyInit
<1>3. RInv /\ Orderly /\ [Next]_vars => RInv' /\ Orderly'
  BY RInvNext, OrderlyNext
<1> QED BY <1>1, <1>2, <1>3, PTL DEF Spec, EdgesRespected
=============================================================================
