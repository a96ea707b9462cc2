------------------------ MODULE HubbleVoucherProofs ------------------------
(* Proofs about HubbleVoucher, for every number of orders, webhooks and      *)
(* operators: the types and the refinement of PointsHold whatever goes       *)
(* wrong; and, where nobody interferes and no placement arrives late, that   *)
(* nobody gets both the voucher and the points, or neither.                  *)
EXTENDS HubbleVoucher, FiniteSetTheorems, TLAPS

(* An order is issued from its confirmation on, and nothing was placed with  *)
(* Hubble, or noted of it, before.                                           *)
Begun ==
  \A o \in Orders :
    /\ issue[o].pc = "idle" <=> order[o].status = "PENDING"
    /\ issue[o].pc = "idle" => /\ order[o].points = 0
                               /\ hubble[o] = "NONE" /\ o \notin inFlight
    /\ issue[o].pc = "apply" => issue[o].body # "NONE"

(* What the requests in progress are about.                                  *)
Targets == {e[2] : e \in Edges}

Named ==
  /\ \A w \in Webhooks : webhook[w].pc # "idle" =>
       webhook[w].order \in Orders /\ hubble[webhook[w].order] # "NONE"
  /\ \A w \in Operators : operator[w].pc = "read" =>
       /\ operator[w].order \in Orders /\ issue[operator[w].order].pc # "idle"
       /\ operator[w].to \in Targets

HInv == TypeOK /\ Begun /\ Named

-----------------------------------------------------------------------------
(* Without operators, and with no placement that arrives late: Hubble gets   *)
(* an order once, in the step that leaves "place"; an answer that is being   *)
(* applied is Hubble's last or an earlier PROCESSING; and points are only    *)
(* missing from an order that Hubble failed or will never hear of.           *)
Placed ==
  \A o \in Orders : issue[o].pc \in {"idle", "confirmed", "place"} => hubble[o] = "NONE"

Fresh ==
  /\ \A o \in Orders : issue[o].pc = "apply" =>
       issue[o].body \in {hubble[o], "PROCESSING"} /\ hubble[o] # "NONE"
  /\ \A w \in Webhooks : webhook[w].pc = "apply" =>
       webhook[w].body \in {hubble[webhook[w].order], "PROCESSING"}

Kept ==
  \A o \in Orders :
    order[o].points = 0 =>
      \/ issue[o].pc = "idle"
      \/ hubble[o] = "FAILED"
      \/ issue[o].pc = "over" /\ hubble[o] = "NONE"

(* ... and so the status says what Hubble did.                               *)
Truthful ==
  \A o \in Orders :
    /\ order[o].status \in {"PENDING", "CONFIRMED", "PROCESSING", "DELIVERED", "FAILED"}
    /\ order[o].status = "FAILED" <=> order[o].points = 0 /\ issue[o].pc # "idle"
    /\ order[o].status = "DELIVERED" <=> order[o].code
    /\ order[o].code => hubble[o] = "SUCCESS"

(* ... and so does what the member is told.                                  *)
Told ==
  \A o \in Orders :
    /\ issue[o].pc = "idle" => told[o] = "NONE"
    /\ told[o] = "DELIVERED" => order[o].code \/ hubble[o] = "ODD"
    /\ told[o] = "FAILED" => order[o].points = 0

AloneInv == /\ inFlight = {}
            /\ Placed /\ Fresh /\ Kept /\ Truthful /\ Told

USE HubbleAssumption

-----------------------------------------------------------------------------
(* What the four transactions that apply an answer do to the order's row.    *)
RowOnly(o) == /\ order' \in [Orders -> OrderType]
              /\ \A q \in Orders \ {o} : order'[q] = order[q]

LEMMA StoreEffect ==
  ASSUME TypeOK, NEW o \in Orders, storeHubbleSuccess(o)
  PROVE  /\ RowOnly(o) /\ balance' = balance /\ unmarked' = unmarked
         /\ order'[o].points = order[o].points /\ order'[o].flag = order[o].flag
         /\ order[o].status \in Storable => order'[o].status = "DELIVERED" /\ order'[o].code
         /\ order[o].status \notin Storable => order'[o] = order[o]
<1> DEFINE row == [order[o] EXCEPT !.status = "DELIVERED", !.code = TRUE, !.viaHubble = TRUE]
<1>1. order[o] \in OrderType
  BY DEF TypeOK
<1>2. /\ row \in OrderType /\ row.points = order[o].points /\ row.flag = order[o].flag
      /\ row.status = "DELIVERED" /\ row.code
  BY <1>1 DEF OrderType
<1>3. /\ order' = IF order[o].status \in Storable THEN [order EXCEPT ![o] = row] ELSE order
      /\ balance' = balance /\ unmarked' = unmarked
  BY DEF storeHubbleSuccess, TypeOK
<1> HIDE DEF row
<1> QED BY <1>2, <1>3 DEF RowOnly, TypeOK

LEMMA MarkEffect ==
  ASSUME TypeOK, NEW o \in Orders, markHubbleProcessing(o)
  PROVE  /\ RowOnly(o) /\ balance' = balance /\ unmarked' = unmarked
         /\ order'[o].points = order[o].points /\ order'[o].flag = order[o].flag
         /\ order'[o].code = order[o].code
         /\ order[o].status = "CONFIRMED" => order'[o].status = "PROCESSING"
         /\ order[o].status # "CONFIRMED" => order'[o] = order[o]
<1> DEFINE row == [order[o] EXCEPT !.status = "PROCESSING", !.viaHubble = TRUE]
<1>1. order[o] \in OrderType
  BY DEF TypeOK
<1>2. /\ row \in OrderType /\ row.points = order[o].points /\ row.flag = order[o].flag
      /\ row.status = "PROCESSING" /\ row.code = order[o].code
  BY <1>1 DEF OrderType
<1>3. /\ order' = IF order[o].status = "CONFIRMED" THEN [order EXCEPT ![o] = row] ELSE order
      /\ balance' = balance /\ unmarked' = unmarked
  BY DEF markHubbleProcessing, Markable, TypeOK
<1> HIDE DEF row
<1> QED BY <1>2, <1>3 DEF RowOnly, TypeOK

LEMMA RefundEffect ==
  ASSUME TypeOK, NEW o \in Orders, refundAndFailHubble(o)
  PROVE  /\ RowOnly(o) /\ balance' \in [Partners -> Nat] /\ unmarked' = unmarked
         /\ order'[o].flag = order[o].flag /\ order'[o].code = order[o].code
         /\ Open(o) => order'[o].status = "FAILED" /\ order'[o].points = 0
         /\ ~Open(o) => order'[o] = order[o]
         /\ Refundable(o) => balance' = [balance EXCEPT ![Owner[o]] = @ + Price]
         /\ ~Refundable(o) => balance' = balance
<1>1. RowOnly(o) /\ order'[o].flag = order[o].flag /\ order'[o].code = order[o].code
      /\ (Open(o) => order'[o].status = "FAILED" /\ order'[o].points = 0)
      /\ (~Open(o) => order'[o] = order[o])
  <2> DEFINE row == [order[o] EXCEPT !.status = "FAILED", !.points = 0, !.viaHubble = TRUE]
  <2>1. order[o] \in OrderType
    BY DEF TypeOK
  <2>2. /\ row \in OrderType /\ row.flag = order[o].flag /\ row.code = order[o].code
        /\ row.status = "FAILED" /\ row.points = 0
    BY <2>1 DEF OrderType
  <2>3. order' = IF Open(o) THEN [order EXCEPT ![o] = row] ELSE order
    BY DEF refundAndFailHubble, TypeOK
  <2> HIDE DEF row
  <2> QED BY <2>2, <2>3 DEF RowOnly, TypeOK
<1>2. balance' = IF Refundable(o) THEN [balance EXCEPT ![Owner[o]] = @ + Price] ELSE balance
  BY DEF refundAndFailHubble
<1>3. balance' \in [Partners -> Nat]
  BY <1>2 DEF TypeOK
<1>4. unmarked' = unmarked
  BY DEF refundAndFailHubble
<1> QED BY <1>1, <1>2, <1>3, <1>4

LEMMA FlagEffect ==
  ASSUME TypeOK, NEW o \in Orders, NEW reason \in {"held", "indeterminate"},
         markHubblePendingReconcile(o, reason)
  PROVE  /\ RowOnly(o) /\ balance' = balance
         /\ order'[o].points = order[o].points /\ order'[o].status = order[o].status
         /\ order'[o].code = order[o].code
         /\ order'[o].flag = reason \/ o \in unmarked'
         /\ unmarked \subseteq unmarked' /\ unmarked' \subseteq Orders
<1> DEFINE row == [order[o] EXCEPT !.flag = reason]
<1>1. order[o] \in OrderType
  BY DEF TypeOK
<1>2. /\ row \in OrderType /\ row.points = order[o].points /\ row.status = order[o].status
      /\ row.code = order[o].code /\ row.flag = reason
  BY <1>1 DEF OrderType
<1>3. /\ \/ order' = [order EXCEPT ![o] = row] /\ unmarked' = unmarked
         \/ order' = order /\ unmarked' = unmarked \cup {o}
      /\ balance' = balance
  BY DEF markHubblePendingReconcile, TypeOK
<1> HIDE DEF row
<1>4. CASE order' = [order EXCEPT ![o] = row] /\ unmarked' = unmarked
  BY <1>2, <1>3, <1>4 DEF RowOnly, TypeOK
<1>5. CASE order' = order /\ unmarked' = unmarked \cup {o}
  BY <1>3, <1>5 DEF RowOnly, TypeOK
<1> QED BY <1>3, <1>4, <1>5

(* ... and what an operator's commit does to it.                             *)
LEMMA TransitionEffect ==
  ASSUME HInv, NEW w \in Operators, transitionCommit(w)
  PROVE  LET o == operator[w].order
             to == operator[w].to
             refunded == to \in RefundTargets /\ order[o].points > 0
         IN  /\ RowOnly(o) /\ balance' \in [Partners -> Nat] /\ unmarked' = unmarked
             /\ order'[o].status = to /\ order'[o].flag = order[o].flag
             /\ order'[o].points = IF refunded THEN 0 ELSE order[o].points
             /\ balance' = IF refunded THEN [balance EXCEPT ![Owner[o]] = @ + Price] ELSE balance
<1> DEFINE o == operator[w].order
           to == operator[w].to
           refunded == to \in RefundTargets /\ order[o].points > 0
           row == [order[o] EXCEPT !.status = to, !.code = order[o].code \/ operator[w].code,
                                   !.points = IF refunded THEN 0 ELSE order[o].points]
<1>1. /\ o \in Orders /\ to \in Targets /\ operator[w].code \in BOOLEAN
      /\ order[o] \in OrderType
  BY DEF HInv, Named, TypeOK, transitionCommit
<1>2. order' = [order EXCEPT ![o] = row]
  BY <1>1 DEF transitionCommit, TypeOK, HInv
<1>7. /\ balance' = IF refunded THEN [balance EXCEPT ![Owner[o]] = @ + Price] ELSE balance
      /\ unmarked' = unmarked
  BY DEF transitionCommit
<1> HIDE DEF o, to, refunded
<1>3. to \in {"PROCESSING", "DISPATCHED", "DELIVERED", "CANCELLED", "RETURNED", "FAILED"}
  BY <1>1 DEF Targets, Edges
<1>4. /\ row \in OrderType /\ row.status = to /\ row.flag = order[o].flag
      /\ row.points = IF refunded THEN 0 ELSE order[o].points
  BY <1>1, <1>3 DEF OrderType
<1>5. balance' \in [Partners -> Nat]
  BY <1>1, <1>7 DEF HInv, TypeOK
<1> HIDE DEF row
<1>6. RowOnly(o) /\ order'[o] = row
  BY <1>1, <1>2, <1>4 DEF RowOnly, HInv, TypeOK
<1> QED BY <1>4, <1>5, <1>6, <1>7 DEF o, to, refunded

(* None of them makes a confirmed order PENDING again.                       *)
Applies(o) ==
  \/ \E body \in Bodies : applyHubbleBody(o, body)
  \/ refundAndFailHubble(o)
  \/ \E reason \in {"held", "indeterminate"} : markHubblePendingReconcile(o, reason)

LEMMA AppliesEffect ==
  ASSUME TypeOK, NEW o \in Orders, order[o].status # "PENDING", Applies(o)
  PROVE  /\ RowOnly(o) /\ balance' \in [Partners -> Nat] /\ order'[o].status # "PENDING"
         /\ unmarked' \subseteq Orders
<1>1. CASE storeHubbleSuccess(o)
  BY <1>1, StoreEffect DEF TypeOK
<1>2. CASE markHubbleProcessing(o)
  BY <1>2, MarkEffect DEF TypeOK
<1>3. CASE refundAndFailHubble(o)
  BY <1>3, RefundEffect DEF TypeOK
<1>4. ASSUME NEW reason \in {"held", "indeterminate"}, markHubblePendingReconcile(o, reason)
      PROVE  /\ RowOnly(o) /\ balance' \in [Partners -> Nat] /\ order'[o].status # "PENDING"
             /\ unmarked' \subseteq Orders
  BY <1>4, FlagEffect DEF TypeOK
<1> QED BY <1>1, <1>2, <1>3, <1>4 DEF Applies, applyHubbleBody

-----------------------------------------------------------------------------
LEMMA HInvInit == Init => HInv
  BY DEF Init, HInv, TypeOK, Begun, Named, OrderType, Bodies, Idle, IdleOperator

(* An answer of the issuance changes the order's row, ends it and tells the  *)
(* member.                                                                   *)
LEMMA AnsweredKeeps ==
  ASSUME HInv, NEW o \in Orders, issue[o].pc # "idle", Applies(o),
         NEW status \in {"DELIVERED", "FAILED", "CONFIRMED"}, Answered(o, status),
         UNCHANGED <<hubble, inFlight, notices, webhook, operator>>
  PROVE  HInv'
<1> USE DEF HInv
<1>1. order[o].status # "PENDING"
  BY DEF Begun
<1>2. /\ RowOnly(o) /\ balance' \in [Partners -> Nat] /\ order'[o].status # "PENDING"
      /\ unmarked' \subseteq Orders
  BY <1>1, AppliesEffect
<1>3. /\ issue' = [issue EXCEPT ![o] = [pc |-> "over", body |-> "NONE"]]
      /\ told' = [told EXCEPT ![o] = status]
  BY DEF Answered
<1>4. TypeOK'
  BY <1>2, <1>3 DEF TypeOK, RowOnly, Bodies
<1>5. Begun'
  BY <1>2, <1>3 DEF Begun, TypeOK, RowOnly
<1>6. Named'
  BY <1>3 DEF Named, TypeOK
<1> QED BY <1>4, <1>5, <1>6

LEMMA HInvNext == HInv /\ [Next]_vars => HInv'
<1> SUFFICES ASSUME HInv, [Next]_vars PROVE HInv'
  OBVIOUS
<1> USE DEF HInv
<1>1. ASSUME NEW o \in Orders, confirmRedeem(o) PROVE HInv'
  <2>1. issue[o].pc = "idle" /\ Owner[o] \in Partners
    BY <1>1 DEF confirmRedeem, Begun
  <2>2. balance' \in [Partners -> Nat]
    BY <1>1, <2>1 DEF confirmRedeem, Covers, TypeOK
  <2>3. /\ order' \in [Orders -> OrderType] /\ order'[o].status = "CONFIRMED"
        /\ \A q \in Orders \ {o} : order'[q] = order[q]
    <3> DEFINE row == [order[o] EXCEPT !.status = "CONFIRMED", !.points = Price]
    <3>0. order[o] \in OrderType
      BY DEF TypeOK
    <3>1. row \in OrderType /\ row.status = "CONFIRMED"
      BY <3>0 DEF OrderType
    <3>2. order' = [order EXCEPT ![o] = row]
      BY <1>1 DEF confirmRedeem, TypeOK
    <3> HIDE DEF row
    <3> QED BY <3>1, <3>2 DEF TypeOK
  <2>4. /\ issue' = [issue EXCEPT ![o].pc = "confirmed"]
        /\ UNCHANGED <<hubble, inFlight, notices, webhook, operator, told, unmarked>>
    BY <1>1 DEF confirmRedeem
  <2>5. TypeOK'
    <3>1. issue' \in [Orders -> [pc : {"idle", "confirmed", "place", "lookUp", "recover", "apply",
                                       "over"}, body : Bodies]]
      BY <2>4 DEF TypeOK
    <3> QED BY <2>2, <2>3, <2>4, <3>1 DEF TypeOK
  <2>6. Begun'
    BY <2>3, <2>4 DEF Begun, TypeOK
  <2>7. Named'
    BY <2>4 DEF Named, TypeOK
  <2> QED BY <2>5, <2>6, <2>7
<1>2. ASSUME NEW o \in Orders, issueLoad(o) PROVE HInv'
  <2>1. UNCHANGED <<order, balance, hubble, inFlight, notices, webhook, operator, unmarked>>
    BY <1>2 DEF issueLoad
  <2>2. /\ issue' \in [Orders -> [pc : {"idle", "confirmed", "place", "lookUp", "recover", "apply", "over"},
                                  body : Bodies]]
        /\ issue'[o].pc \in {"over", "lookUp", "place"} /\ issue[o].pc = "confirmed"
        /\ \A q \in Orders \ {o} : issue'[q] = issue[q]
        /\ told' \in [Orders -> {"NONE", "DELIVERED", "FAILED", "CONFIRMED"}]
    <3> DEFINE Issues == [pc : {"idle", "confirmed", "place", "lookUp", "recover", "apply", "over"},
                          body : Bodies]
    <3>1. PICK r \in Issues : /\ r.pc \in {"over", "lookUp", "place"}
                              /\ issue' = [issue EXCEPT ![o] = r]
      <4>1. [pc |-> "over", body |-> "NONE"] \in Issues
        BY DEF Bodies
      <4>2. \A pc \in {"lookUp", "place"} : [issue[o] EXCEPT !.pc = pc] \in Issues
        BY DEF TypeOK
      <4>3. \A pc \in {"lookUp", "place"} : [issue[o] EXCEPT !.pc = pc].pc = pc
        BY DEF TypeOK
      <4>4. \/ issue' = [issue EXCEPT ![o] = [pc |-> "over", body |-> "NONE"]]
            \/ \E pc \in {"lookUp", "place"} : issue' = [issue EXCEPT ![o] = [issue[o] EXCEPT !.pc = pc]]
        BY <1>2 DEF issueLoad, Answered, TypeOK
      <4> HIDE DEF Issues
      <4> QED BY <4>1, <4>2, <4>3, <4>4
    <3>2. told' \in [Orders -> {"NONE", "DELIVERED", "FAILED", "CONFIRMED"}]
      BY <1>2 DEF issueLoad, Answered, TypeOK
    <3>3. issue[o].pc = "confirmed"
      BY <1>2 DEF issueLoad
    <3> QED BY <3>1, <3>2, <3>3 DEF TypeOK
  <2>3. TypeOK'
    BY <2>1, <2>2 DEF TypeOK
  <2>4. Begun' /\ Named'
    BY <2>1, <2>2 DEF Begun, Named
  <2> QED BY <2>3, <2>4
<1>3. ASSUME NEW o \in Orders, issueHeld(o) PROVE HInv'
  BY <1>3, AnsweredKeeps DEF issueHeld, Applies
<1>4. ASSUME NEW o \in Orders, placeOrder(o) PROVE HInv'
  <2>1. PICK answer \in Answers :
          /\ HubbleRecords(o, answer)
          /\ \/ issue' = [issue EXCEPT ![o] = [pc |-> "apply", body |-> answer]]
             \/ issue' = [issue EXCEPT ![o].pc = "recover"]
    BY <1>4 DEF placeOrder
  <2>2. answer \in Bodies /\ answer # "NONE"
    BY DEF Answers, Bodies
  <2>3. /\ UNCHANGED <<order, balance, inFlight, webhook, operator, told, unmarked>>
        /\ issue[o].pc = "place"
    BY <1>4 DEF placeOrder
  <2>4. /\ hubble' = [hubble EXCEPT ![o] = answer] /\ notices' \in {notices, notices \cup {o}}
    BY <2>1 DEF HubbleRecords
  <2>5. TypeOK'
    <3>1. issue' \in [Orders -> [pc : {"idle", "confirmed", "place", "lookUp", "recover", "apply",
                                       "over"}, body : Bodies]]
      BY <2>1, <2>2 DEF TypeOK
    <3>2. hubble' \in [Orders -> Bodies] /\ notices' \subseteq Orders
      BY <2>2, <2>4 DEF TypeOK
    <3> QED BY <2>3, <3>1, <3>2 DEF TypeOK
  <2>6. Begun'
    BY <2>1, <2>2, <2>3, <2>4 DEF Begun, TypeOK
  <2>7. Named'
    BY <2>1, <2>2, <2>3, <2>4 DEF Named, TypeOK
  <2> QED BY <2>5, <2>6, <2>7
<1>5. ASSUME NEW o \in Orders, placeOrderThrows(o) PROVE HInv'
  <2>1. /\ inFlight' \in {inFlight, inFlight \cup {o}} /\ issue[o].pc = "place"
        /\ issue' = [issue EXCEPT ![o].pc = "recover"]
        /\ UNCHANGED <<order, balance, hubble, notices, webhook, operator, told, unmarked>>
    BY <1>5 DEF placeOrderThrows
  <2>2. TypeOK'
    <3>1. issue' \in [Orders -> [pc : {"idle", "confirmed", "place", "lookUp", "recover", "apply",
                                       "over"}, body : Bodies]]
      BY <2>1 DEF TypeOK
    <3>2. inFlight' \subseteq Orders
      BY <2>1 DEF TypeOK
    <3> QED BY <2>1, <3>1, <3>2 DEF TypeOK
  <2>3. Begun' /\ Named'
    BY <2>1 DEF TypeOK, Begun, Named
  <2> QED BY <2>2, <2>3
<1>6. ASSUME NEW o \in Orders, getOrderByReference(o) PROVE HInv'
  BY <1>6 DEF getOrderByReference, TypeOK, Begun, Named
<1>7. ASSUME NEW o \in Orders, recoverNotFound(o) PROVE HInv'
  BY <1>7, AnsweredKeeps DEF recoverNotFound, Applies
<1>8. ASSUME NEW o \in Orders, recoverThrows(o) PROVE HInv'
  BY <1>8, AnsweredKeeps DEF recoverThrows, Indeterminate, Applies
<1>9. ASSUME NEW o \in Orders, issueApply(o) PROVE HInv'
  <2>1. issue[o].body \in Bodies /\ Outcome(issue[o].body) \in {"DELIVERED", "FAILED", "CONFIRMED"}
    BY DEF TypeOK, Outcome
  <2> QED BY <1>9, <2>1, AnsweredKeeps DEF issueApply, Applies
<1>10. ASSUME NEW o \in Orders, issueThrows(o) PROVE HInv'
  BY <1>10, AnsweredKeeps DEF issueThrows, Applies
<1>11. ASSUME NEW o \in Orders, isHubbleEligibleThrows(o) \/ issueDies(o) PROVE HInv'
  <2>1. /\ issue[o].pc # "idle" /\ unmarked' = unmarked \cup {o}
        /\ issue' = [issue EXCEPT ![o] = [pc |-> "over", body |-> "NONE"]]
        /\ UNCHANGED <<order, balance, hubble, inFlight, notices, webhook, operator, told>>
    BY <1>11 DEF isHubbleEligibleThrows, issueDies
  <2>2. TypeOK'
    BY <2>1 DEF TypeOK, Bodies
  <2>3. Begun' /\ Named'
    BY <2>1 DEF TypeOK, Begun, Named
  <2> QED BY <2>2, <2>3
<1>12. ASSUME NEW o \in Orders, HubbleReceives(o) \/ HubbleDecides(o) PROVE HInv'
  <2>1. /\ inFlight' \subseteq inFlight
        /\ UNCHANGED <<order, balance, issue, webhook, operator, told, unmarked>>
        /\ o \in inFlight \/ hubble[o] = "PROCESSING"
        /\ \E answer \in Answers : HubbleRecords(o, answer)
    BY <1>12 DEF HubbleReceives, HubbleDecides
  <2>2. PICK answer \in Answers : HubbleRecords(o, answer)
    BY <2>1
  <2>3. answer \in Bodies /\ answer # "NONE"
    BY DEF Answers, Bodies
  <2>4. /\ hubble' = [hubble EXCEPT ![o] = answer] /\ notices' \in {notices, notices \cup {o}}
    BY <2>2 DEF HubbleRecords
  <2>5. issue[o].pc # "idle"
    BY <2>1 DEF Begun
  <2>6. TypeOK'
    <3>1. /\ hubble' \in [Orders -> Bodies] /\ notices' \subseteq Orders
          /\ inFlight' \subseteq Orders
      BY <2>1, <2>3, <2>4 DEF TypeOK
    <3> QED BY <2>1, <3>1 DEF TypeOK
  <2>7. Begun' /\ Named'
    BY <2>1, <2>3, <2>4, <2>5 DEF TypeOK, Begun, Named
  <2> QED BY <2>6, <2>7
<1>13. ASSUME NEW w \in Webhooks, NEW o \in Orders, webhookLoad(w, o) PROVE HInv'
  BY <1>13 DEF webhookLoad, TypeOK, Begun, Named, Bodies
<1>14. ASSUME NEW w \in Webhooks, webhookAsks(w) PROVE HInv'
  <2>1. hubble[webhook[w].order] \in Bodies
    BY <1>14 DEF webhookAsks, TypeOK, Named
  <2>2. /\ webhook' = [webhook EXCEPT ![w].pc = "apply", ![w].body = hubble[webhook[w].order]]
        /\ webhook[w].pc = "loaded"
        /\ UNCHANGED <<order, balance, issue, hubble, inFlight, notices, operator, told, unmarked>>
    BY <1>14 DEF webhookAsks
  <2> DEFINE r == [webhook[w] EXCEPT !.pc = "apply", !.body = hubble[webhook[w].order]]
  <2>3. /\ r \in [pc : {"idle", "loaded", "apply"}, order : Orders \cup {NoOrder}, body : Bodies]
        /\ r.order = webhook[w].order /\ r.pc = "apply" /\ r.body = hubble[webhook[w].order]
    <3>1. webhook[w] \in [pc : {"idle", "loaded", "apply"}, order : Orders \cup {NoOrder}, body : Bodies]
      BY DEF TypeOK
    <3> QED BY <2>1, <3>1
  <2>4. webhook' = [webhook EXCEPT ![w] = r]
    BY <2>2 DEF TypeOK
  <2> HIDE DEF r
  <2>5. TypeOK'
    <3>1. webhook' \in [Webhooks -> [pc : {"idle", "loaded", "apply"},
                                     order : Orders \cup {NoOrder}, body : Bodies]]
      BY <2>3, <2>4 DEF TypeOK
    <3> QED BY <2>2, <3>1 DEF TypeOK
  <2>6. Begun'
    BY <2>2 DEF Begun
  <2>7. /\ webhook'[w].order = webhook[w].order
        /\ \A v \in Webhooks \ {w} : webhook'[v] = webhook[v]
    BY <2>3, <2>4 DEF TypeOK
  <2>8. \A v \in Webhooks : /\ webhook'[v].order = webhook[v].order
                            /\ webhook'[v].pc # "idle" => webhook[v].pc # "idle"
    BY <2>2, <2>7
  <2>9. Named'
    <3>1. \A v \in Webhooks : webhook'[v].pc # "idle" =>
            webhook'[v].order \in Orders /\ hubble[webhook'[v].order] # "NONE"
      BY <2>8 DEF Named
    <3> QED BY <2>2, <3>1 DEF Named
  <2> QED BY <2>5, <2>6, <2>9
<1>15. ASSUME NEW w \in Webhooks, webhookApply(w) PROVE HInv'
  <2> DEFINE o == webhook[w].order
  <2>1. /\ o \in Orders /\ hubble[o] # "NONE" /\ webhook[w].body \in Bodies
        /\ applyHubbleBody(o, webhook[w].body)
        /\ webhook' = [webhook EXCEPT ![w] = Idle]
        /\ UNCHANGED <<issue, hubble, inFlight, notices, operator, told>>
    BY <1>15 DEF webhookApply, Named, TypeOK
  <2> HIDE DEF o
  <2>2. order[o].status # "PENDING"
    BY <2>1 DEF Begun
  <2>3. /\ RowOnly(o) /\ balance' \in [Partners -> Nat] /\ order'[o].status # "PENDING"
        /\ unmarked' \subseteq Orders
    BY <2>1, <2>2, AppliesEffect DEF Applies
  <2>4. TypeOK'
    BY <2>1, <2>3 DEF TypeOK, RowOnly, Idle, Bodies
  <2>5. Begun'
    BY <2>1, <2>2, <2>3 DEF Begun, RowOnly
  <2>6. Named'
    BY <2>1 DEF Named, TypeOK, Idle
  <2> QED BY <2>4, <2>5, <2>6
<1>16. ASSUME NEW w \in Webhooks, webhookFails(w) PROVE HInv'
  BY <1>16 DEF webhookFails, TypeOK, Begun, Named, Idle, Bodies
<1>17. ASSUME NEW w \in Operators, NEW o \in Orders, NEW code \in BOOLEAN, NEW to \in Targets,
              transitionRead(w, o, to, code)
       PROVE  HInv'
  <2>1. order[o].status # "PENDING"
    BY <1>17 DEF transitionRead, Edges
  <2>2. issue[o].pc # "idle"
    BY <2>1 DEF Begun
  <2>3. /\ operator' = [operator EXCEPT ![w] = [pc |-> "read", order |-> o, to |-> to, code |-> code]]
        /\ UNCHANGED <<order, balance, issue, hubble, inFlight, notices, webhook, told, unmarked>>
    BY <1>17 DEF transitionRead
  <2>4. TypeOK'
    BY <2>3 DEF TypeOK, Targets
  <2>5. Begun' /\ Named'
    BY <2>2, <2>3 DEF Begun, Named, TypeOK
  <2> QED BY <2>4, <2>5
<1>18. ASSUME NEW w \in Operators, transitionCommit(w) PROVE HInv'
  <2> DEFINE o == operator[w].order
             to == operator[w].to
  <2>1. /\ o \in Orders /\ to \in Targets /\ issue[o].pc # "idle" /\ operator[w].code \in BOOLEAN
        /\ operator' = [operator EXCEPT ![w] = IdleOperator]
        /\ UNCHANGED <<issue, hubble, inFlight, notices, webhook, told, unmarked>>
    BY <1>18 DEF transitionCommit, Named, TypeOK
  <2>2. RowOnly(o) /\ balance' \in [Partners -> Nat] /\ order'[o].status = to
    BY <1>18, TransitionEffect
  <2>3. to # "PENDING"
    BY <2>1 DEF Targets, Edges
  <2> HIDE DEF o, to
  <2>4. TypeOK'
    BY <2>1, <2>2 DEF TypeOK, RowOnly, IdleOperator
  <2>5. Begun'
    BY <2>1, <2>2, <2>3 DEF Begun, RowOnly
  <2>6. Named'
    BY <2>1 DEF Named, TypeOK, IdleOperator
  <2> QED BY <2>4, <2>5, <2>6
<1>19. CASE UNCHANGED vars
  BY <1>19 DEF vars, TypeOK, Begun, Named
<1> QED
  BY <1>1, <1>2, <1>3, <1>4, <1>5, <1>6, <1>7, <1>8, <1>9, <1>10, <1>11, <1>12, <1>13,
     <1>14, <1>15, <1>16, <1>17, <1>18, <1>19
     DEF Next, Issuing, Hubble, Reconciling, Operating, Targets

(* In every interleaving the types hold: no balance goes below zero.         *)
THEOREM HubbleTypeCorrect == Spec => []TypeOK
<1>1. HInv => TypeOK
  BY DEF HInv
<1> QED BY <1>1, HInvInit, HInvNext, PTL DEF Spec

-----------------------------------------------------------------------------
(* A step that touches an order's row confirms it, applies an answer to it,  *)
(* or is an operator's; and the confirmation ends by an answer, by finding   *)
(* the order resolved, or unmarked.                                          *)
IdleKept == \A q \in Orders : issue'[q].pc = "idle" <=> issue[q].pc = "idle"

LEMMA StepShape ==
  ASSUME HInv, [Next]_vars
  PROVE  \/ /\ UNCHANGED <<order, balance>> /\ IdleKept
            /\ unmarked \subseteq unmarked'
            /\ \A q \in Orders : issue'[q].pc = "over" =>
                 issue[q].pc = "over" \/ q \in unmarked' \/ isHubbleOrderResolved(q)
         \/ \E o \in Orders : confirmRedeem(o)
         \/ \E o \in Orders : /\ Applies(o) /\ issue[o].pc # "idle" /\ IdleKept
                              /\ \A q \in Orders \ {o} : issue'[q] = issue[q]
         \/ \E w \in Operators : transitionCommit(w)
<1> DEFINE Quiet == /\ UNCHANGED <<order, balance>> /\ IdleKept
                    /\ unmarked \subseteq unmarked'
                    /\ \A q \in Orders : issue'[q].pc = "over" =>
                         issue[q].pc = "over" \/ q \in unmarked' \/ isHubbleOrderResolved(q)
           Applied(o) == /\ Applies(o) /\ issue[o].pc # "idle" /\ IdleKept
                         /\ \A q \in Orders \ {o} : issue'[q] = issue[q]
<1> USE DEF HInv
<1>1. ASSUME NEW o \in Orders, issue[o].pc # "idle", Applies(o),
             NEW status, Answered(o, status)
      PROVE  Applied(o)
  BY <1>1 DEF Answered, TypeOK, IdleKept
<1>14. ASSUME NEW o \in Orders, issue[o].pc # "idle", UNCHANGED <<order, balance>>,
              \A q \in Orders \ {o} : issue'[q] = issue[q],
              issue'[o].pc # "idle", unmarked \subseteq unmarked',
              issue'[o].pc = "over" => o \in unmarked' \/ isHubbleOrderResolved(o)
       PROVE  Quiet
  BY <1>14 DEF IdleKept
<1>2. ASSUME NEW o \in Orders, issueLoad(o) PROVE Quiet
  <2>1. issue[o].pc = "confirmed" /\ UNCHANGED <<order, balance, unmarked>>
    BY <1>2 DEF issueLoad
  <2>2. CASE isHubbleOrderResolved(o)
    <3>1. issue' = [issue EXCEPT ![o] = [pc |-> "over", body |-> "NONE"]]
      BY <1>2, <2>2 DEF issueLoad, Answered
    <3>2. issue'[o].pc = "over" /\ \A q \in Orders \ {o} : issue'[q] = issue[q]
      BY <3>1 DEF TypeOK
    <3> QED BY <1>14, <2>1, <2>2, <3>2
  <2>3. CASE ~isHubbleOrderResolved(o)
    <3>1. issue' = [issue EXCEPT ![o].pc =
                IF order[o].status = "PROCESSING" THEN "lookUp" ELSE "place"]
      BY <1>2, <2>3 DEF issueLoad
    <3>2. issue'[o].pc \in {"lookUp", "place"} /\ \A q \in Orders \ {o} : issue'[q] = issue[q]
      BY <3>1 DEF TypeOK
    <3> QED BY <1>14, <2>1, <3>2
  <2> QED BY <2>2, <2>3
<1>3. ASSUME NEW o \in Orders, placeOrder(o) \/ placeOrderThrows(o) \/ getOrderByReference(o)
      PROVE  Quiet
  <2>1. /\ issue[o].pc \in {"place", "recover", "lookUp"}
        /\ UNCHANGED <<order, balance, unmarked>>
    BY <1>3 DEF placeOrder, placeOrderThrows, getOrderByReference
  <2>2. /\ issue'[o].pc \in {"recover", "apply"}
        /\ \A q \in Orders \ {o} : issue'[q] = issue[q]
    BY <1>3 DEF placeOrder, placeOrderThrows, getOrderByReference, TypeOK
  <2> QED BY <1>14, <2>1, <2>2
<1>4. ASSUME NEW o \in Orders, isHubbleEligibleThrows(o) \/ issueDies(o) PROVE Quiet
  BY <1>4 DEF isHubbleEligibleThrows, issueDies, TypeOK, IdleKept
<1>5. ASSUME NEW o \in Orders,
             issueHeld(o) \/ recoverNotFound(o) \/ recoverThrows(o) \/ issueApply(o) \/ issueThrows(o)
      PROVE  Applied(o)
  <2>1. CASE issueHeld(o)
    BY <1>1, <2>1 DEF issueHeld, Applies
  <2>2. CASE recoverNotFound(o)
    BY <1>1, <2>2 DEF recoverNotFound, Applies
  <2>3. CASE recoverThrows(o)
    BY <1>1, <2>3 DEF recoverThrows, Indeterminate, Applies
  <2>4. CASE issueApply(o)
    <3>1. issue[o].body \in Bodies
      BY DEF TypeOK
    <3> QED BY <1>1, <2>4, <3>1 DEF issueApply, Applies
  <2>5. CASE issueThrows(o)
    BY <1>1, <2>5 DEF issueThrows, Applies
  <2> QED BY <1>5, <2>1, <2>2, <2>3, <2>4, <2>5
<1>6. ASSUME NEW w \in Webhooks, webhookApply(w) PROVE \E o \in Orders : Applied(o)
  <2>1. /\ webhook[w].order \in Orders /\ hubble[webhook[w].order] # "NONE"
        /\ webhook[w].body \in Bodies /\ issue' = issue
        /\ applyHubbleBody(webhook[w].order, webhook[w].body)
    BY <1>6 DEF webhookApply, Named, TypeOK
  <2>2. issue[webhook[w].order].pc # "idle"
    BY <2>1 DEF Begun
  <2> QED BY <2>1, <2>2 DEF Applies, IdleKept
<1>7. CASE UNCHANGED <<order, balance, issue, unmarked>>
  BY <1>7 DEF IdleKept
<1> HIDE DEF Quiet, Applied
<1>8. CASE UNCHANGED vars
  BY <1>7, <1>8 DEF vars
<1>9. ASSUME NEW o \in Orders, Issuing(o)
      PROVE  Quiet \/ (\E q \in Orders : confirmRedeem(q)) \/ (\E q \in Orders : Applied(q))
  BY <1>2, <1>3, <1>4, <1>5, <1>9 DEF Issuing
<1>10. ASSUME NEW o \in Orders, Hubble(o) PROVE UNCHANGED <<order, balance, issue, unmarked>>
  BY <1>10 DEF Hubble, HubbleReceives, HubbleDecides
<1>11. ASSUME NEW w \in Webhooks, Reconciling(w)
       PROVE  UNCHANGED <<order, balance, issue, unmarked>> \/ \E o \in Orders : Applied(o)
  BY <1>6, <1>11 DEF Reconciling, webhookLoad, webhookAsks, webhookFails
<1>12. ASSUME NEW w \in Operators, Operating(w)
       PROVE  UNCHANGED <<order, balance, issue, unmarked>> \/ transitionCommit(w)
  BY <1>12 DEF Operating, transitionRead
<1>13. Quiet \/ UNCHANGED <<order, balance, issue, unmarked>> \/ (\E o \in Orders : confirmRedeem(o))
       \/ (\E o \in Orders : Applied(o)) \/ (\E w \in Operators : transitionCommit(w))
  BY <1>8, <1>9, <1>10, <1>11, <1>12 DEF Next, vars
<1> QED BY <1>7, <1>13 DEF Quiet, Applied

(* What a confirmation sets.                                                 *)
LEMMA ConfirmEffect ==
  ASSUME HInv, NEW o \in Orders, confirmRedeem(o)
  PROVE  /\ issue[o].pc = "idle" /\ order[o].status = "PENDING" /\ RowOnly(o)
         /\ order'[o].status = "CONFIRMED" /\ order'[o].points = Price
         /\ order'[o].code = order[o].code
         /\ issue' = [issue EXCEPT ![o].pc = "confirmed"] /\ issue'[o].pc = "confirmed"
         /\ UNCHANGED <<hubble, inFlight, notices, webhook, operator, told, unmarked>>
<1> DEFINE row == [order[o] EXCEPT !.status = "CONFIRMED", !.points = Price]
<1>1. order[o] \in OrderType
  BY DEF HInv, TypeOK
<1>2. /\ row \in OrderType /\ row.status = "CONFIRMED" /\ row.points = Price
      /\ row.code = order[o].code
  BY <1>1 DEF OrderType
<1>3. order' = [order EXCEPT ![o] = row]
  BY DEF confirmRedeem, HInv, TypeOK
<1> HIDE DEF row
<1>4. RowOnly(o) /\ order'[o] = row
  BY <1>2, <1>3 DEF RowOnly, HInv, TypeOK
<1> QED BY <1>2, <1>4 DEF confirmRedeem, HInv, TypeOK, Begun

(* An answer leaves a delivered order delivered, and a CONFIRMED one         *)
(* flagged, unmarked or no longer CONFIRMED.                                 *)
LEMMA AppliesSettles ==
  ASSUME TypeOK, NEW o \in Orders, Applies(o)
  PROVE  /\ RowOnly(o) /\ unmarked \subseteq unmarked'
         /\ order[o].status = "DELIVERED" => order'[o].status = "DELIVERED"
         /\ order'[o].status = "CONFIRMED" => order'[o].flag # "none" \/ o \in unmarked'
<1>1. CASE storeHubbleSuccess(o)
  BY <1>1, StoreEffect DEF Storable
<1>2. CASE markHubbleProcessing(o)
  BY <1>2, MarkEffect
<1>3. CASE refundAndFailHubble(o)
  BY <1>3, RefundEffect DEF Open
<1>4. ASSUME NEW reason \in {"held", "indeterminate"}, markHubblePendingReconcile(o, reason)
      PROVE  /\ RowOnly(o) /\ order'[o].status = order[o].status
             /\ unmarked \subseteq unmarked'
             /\ order'[o].flag # "none" \/ o \in unmarked'
  BY <1>4, FlagEffect
<1> QED BY <1>1, <1>2, <1>3, <1>4 DEF Applies, applyHubbleBody

(* However a confirmation ends, an order that is still CONFIRMED is flagged, *)
(* whatever Hubble, its webhooks and the operators do and whatever fails,    *)
(* but for the orders whose flag itself failed or was never reached.         *)
THEOREM FlaggedUnlessUnmarked == Spec => []NeverLeftDebited
<1>1. Init => NeverLeftDebited
  BY DEF Init, NeverLeftDebited
<1>2. HInv /\ NeverLeftDebited /\ [Next]_vars => NeverLeftDebited'
  <2> SUFFICES ASSUME HInv, NeverLeftDebited, [Next]_vars, NEW q \in Orders, q \notin unmarked',
                      issue'[q].pc = "over", order'[q].status = "CONFIRMED"
               PROVE  order'[q].flag # "none"
    BY DEF NeverLeftDebited
  <2>1. CASE /\ UNCHANGED order /\ unmarked \subseteq unmarked'
             /\ issue[q].pc = "over" \/ isHubbleOrderResolved(q)
    BY <2>1 DEF NeverLeftDebited, isHubbleOrderResolved, RefundTargets
  <2>2. ASSUME NEW o \in Orders, confirmRedeem(o) PROVE order'[q].flag # "none"
    BY <2>2, ConfirmEffect DEF NeverLeftDebited, RowOnly, HInv, TypeOK
  <2>3. ASSUME NEW o \in Orders, Applies(o), \A r \in Orders \ {o} : issue'[r] = issue[r]
        PROVE  order'[q].flag # "none"
    BY <2>3, AppliesSettles DEF NeverLeftDebited, RowOnly, HInv
  <2>4. ASSUME NEW w \in Operators, transitionCommit(w) PROVE order'[q].flag # "none"
    <3>1. /\ operator[w].order \in Orders /\ operator[w].to \in Targets
          /\ issue' = issue
      BY <2>4 DEF transitionCommit, HInv, Named
    <3>2. operator[w].to # "CONFIRMED"
      BY <3>1 DEF Targets, Edges
    <3> QED BY <2>4, <3>1, <3>2, TransitionEffect DEF NeverLeftDebited, RowOnly
  <2> QED BY <2>1, <2>2, <2>3, <2>4, StepShape
<1> QED BY <1>1, <1>2, HInvInit, HInvNext, PTL DEF Spec

(* Stale answers, late placements and repeated webhooks never take back a    *)
(* delivery: only an operator's transition does.                             *)
THEOREM OnlyOperatorsTakeBack ==
  ASSUME Operators = {}
  PROVE  Spec => StaysDelivered
<1> DEFINE Keeps == \A o \in Orders : order[o].status = "DELIVERED" => order'[o].status = "DELIVERED"
<1>1. HInv /\ [Next]_vars => [Keeps]_vars
  <2> SUFFICES ASSUME HInv, [Next]_vars, NEW q \in Orders, order[q].status = "DELIVERED"
               PROVE  order'[q].status = "DELIVERED"
    OBVIOUS
  <2>1. ASSUME NEW o \in Orders, confirmRedeem(o) PROVE order'[q].status = "DELIVERED"
    BY <2>1, ConfirmEffect DEF RowOnly
  <2>2. ASSUME NEW o \in Orders, Applies(o) PROVE order'[q].status = "DELIVERED"
    BY <2>2, AppliesSettles DEF RowOnly, HInv
  <2> QED BY <2>1, <2>2, StepShape
<1> QED BY <1>1, HInvInit, HInvNext, PTL DEF Spec, StaysDelivered
-----------------------------------------------------------------------------
(* Where no operator interferes and no placement arrives late.               *)
LEMMA AloneInit == Init => AloneInv
  BY DEF Init, AloneInv, Placed, Fresh, Kept, Truthful, Told, Idle

(* An answer leaves the row of an order as the invariant wants it, ...       *)
SettledRow(o) ==
  /\ RowOnly(o)
  /\ order'[o].status \in {"CONFIRMED", "PROCESSING", "DELIVERED", "FAILED"}
  /\ order'[o].status = "FAILED" <=> order'[o].points = 0
  /\ order'[o].status = "DELIVERED" <=> order'[o].code
  /\ order'[o].code => hubble[o] = "SUCCESS"
  /\ order[o].code => order'[o].code
  /\ order[o].points = 0 => order'[o].points = 0

LEMMA AppliedAlone ==
  ASSUME HInv, AloneInv, NEW o \in Orders, issue[o].pc # "idle", hubble[o] # "NONE",
         NEW body \in {hubble[o], "PROCESSING"}, body # "NONE", applyHubbleBody(o, body)
  PROVE  /\ SettledRow(o)
         /\ order'[o].points = 0 => hubble[o] = "FAILED"
         /\ body = "SUCCESS" => order'[o].code
         /\ body = "FAILED" => order'[o].points = 0
<1>1. /\ TypeOK /\ order[o] \in OrderType
      /\ order[o].status \in {"CONFIRMED", "PROCESSING", "DELIVERED", "FAILED"}
      /\ order[o].status = "FAILED" <=> order[o].points = 0
      /\ order[o].status = "DELIVERED" <=> order[o].code
      /\ order[o].code => hubble[o] = "SUCCESS"
      /\ order[o].points = 0 => hubble[o] = "FAILED"
  BY DEF HInv, TypeOK, Begun, AloneInv, Truthful, Kept
<1>2. CASE body = "SUCCESS" /\ storeHubbleSuccess(o)
  BY <1>1, <1>2, StoreEffect DEF SettledRow, Storable
<1>3. CASE body = "PROCESSING" /\ markHubbleProcessing(o)
  BY <1>1, <1>3, MarkEffect DEF SettledRow
<1>4. CASE body = "FAILED" /\ refundAndFailHubble(o)
  BY <1>1, <1>4, RefundEffect DEF SettledRow, Open
<1>5. CASE body = "ODD" /\ markHubblePendingReconcile(o, "held")
  BY <1>1, <1>5, FlagEffect DEF SettledRow
<1> QED BY <1>2, <1>3, <1>4, <1>5 DEF applyHubbleBody

LEMMA FlaggedAlone ==
  ASSUME HInv, AloneInv, NEW o \in Orders, issue[o].pc # "idle",
         NEW reason \in {"held", "indeterminate"}, markHubblePendingReconcile(o, reason)
  PROVE  SettledRow(o) /\ order'[o].points = order[o].points
<1>1. /\ TypeOK /\ order[o] \in OrderType
      /\ order[o].status \in {"CONFIRMED", "PROCESSING", "DELIVERED", "FAILED"}
      /\ order[o].status = "FAILED" <=> order[o].points = 0
      /\ order[o].status = "DELIVERED" <=> order[o].code
      /\ order[o].code => hubble[o] = "SUCCESS"
  BY DEF HInv, TypeOK, Begun, AloneInv, Truthful
<1> QED BY <1>1, FlagEffect DEF SettledRow

(* ... and so the answer that ends a confirmation keeps it.                  *)
LEMMA AnsweredAlone ==
  ASSUME HInv, AloneInv, NEW o \in Orders, issue[o].pc \notin {"idle", "over"},
         SettledRow(o), order'[o].points = 0 => hubble[o] \in {"FAILED", "NONE"},
         NEW status \in {"DELIVERED", "FAILED", "CONFIRMED"}, Answered(o, status),
         status = "DELIVERED" => order'[o].code \/ hubble[o] = "ODD",
         status = "FAILED" => order'[o].points = 0,
         UNCHANGED <<hubble, inFlight, notices, webhook, operator>>
  PROVE  AloneInv'
<1> USE DEF AloneInv
<1>1. /\ issue'[o].pc = "over" /\ \A q \in Orders \ {o} : issue'[q] = issue[q]
      /\ told'[o] = status /\ \A q \in Orders \ {o} : told'[q] = told[q]
      /\ \A q \in Orders \ {o} : order'[q] = order[q]
  BY DEF Answered, HInv, TypeOK, SettledRow, RowOnly
<1>2. Placed' /\ Fresh' /\ inFlight' = {}
  BY <1>1 DEF Placed, Fresh
<1>3. Kept'
  BY <1>1 DEF Kept
<1>4. Truthful'
  BY <1>1 DEF Truthful, SettledRow
<1>5. Told'
  BY <1>1 DEF Told
<1> QED BY <1>2, <1>3, <1>4, <1>5

LEMMA AloneNext ==
  ASSUME Operators = {}, ~ArrivesLate, HInv, AloneInv, [Next]_vars
  PROVE  AloneInv'
<1> USE DEF AloneInv
<1>1. ASSUME NEW o \in Orders, confirmRedeem(o) PROVE AloneInv'
  <2>1. /\ issue[o].pc = "idle" /\ order[o].status = "PENDING" /\ RowOnly(o)
        /\ order'[o].status = "CONFIRMED" /\ order'[o].points = Price
        /\ order'[o].code = order[o].code
        /\ issue'[o].pc = "confirmed" /\ \A q \in Orders \ {o} : issue'[q] = issue[q]
        /\ UNCHANGED <<hubble, inFlight, notices, webhook, operator, told>>
    BY <1>1, ConfirmEffect DEF HInv, TypeOK
  <2>2. hubble[o] = "NONE" /\ told[o] = "NONE" /\ ~order[o].code
    BY <2>1 DEF HInv, Begun, Truthful, Told
  <2> QED BY <2>1, <2>2 DEF Placed, Fresh, Kept, Truthful, Told, RowOnly
<1>2. ASSUME NEW o \in Orders, issueLoad(o) PROVE AloneInv'
  <2>1. /\ issue[o].pc = "confirmed" /\ hubble[o] = "NONE"
        /\ UNCHANGED <<order, balance, hubble, inFlight, notices, webhook, operator>>
    BY <1>2 DEF issueLoad, Placed
  <2>2. ~isHubbleOrderResolved(o)
    BY <2>1 DEF isHubbleOrderResolved, Truthful, Kept, RefundTargets
  <2>3. /\ issue'[o].pc = IF order[o].status = "PROCESSING" THEN "lookUp" ELSE "place"
        /\ \A q \in Orders \ {o} : issue'[q] = issue[q]
        /\ told' = told
    BY <1>2, <2>2 DEF issueLoad, HInv, TypeOK
  <2> QED BY <2>1, <2>3 DEF Placed, Fresh, Kept, Truthful, Told
<1>3. ASSUME NEW o \in Orders, issueHeld(o) \/ recoverThrows(o) \/ issueThrows(o) PROVE AloneInv'
  <2>1. PICK reason \in {"held", "indeterminate"} : markHubblePendingReconcile(o, reason)
    BY <1>3 DEF issueHeld, recoverThrows, Indeterminate, issueThrows
  <2>2. /\ Answered(o, "CONFIRMED") /\ issue[o].pc \notin {"idle", "over"}
        /\ UNCHANGED <<hubble, inFlight, notices, webhook, operator>>
    BY <1>3 DEF issueHeld, recoverThrows, issueThrows
  <2>3. order[o].points = 0 => hubble[o] = "FAILED"
    BY <2>2 DEF Kept
  <2> QED BY <2>1, <2>2, <2>3, FlaggedAlone, AnsweredAlone
<1>4. ASSUME NEW o \in Orders, placeOrder(o) PROVE AloneInv'
  <2>1. PICK answer \in Answers :
          /\ HubbleRecords(o, answer)
          /\ \/ issue' = [issue EXCEPT ![o] = [pc |-> "apply", body |-> answer]]
             \/ issue' = [issue EXCEPT ![o].pc = "recover"]
    BY <1>4 DEF placeOrder
  <2>2. /\ issue[o].pc = "place" /\ hubble[o] = "NONE" /\ answer # "NONE"
        /\ UNCHANGED <<order, balance, inFlight, webhook, operator, told>>
    BY <1>4 DEF placeOrder, Placed, Answers
  <2>3. /\ hubble'[o] = answer /\ \A q \in Orders \ {o} : hubble'[q] = hubble[q]
    BY <2>1 DEF HubbleRecords, HInv, TypeOK
  <2>4. /\ \/ issue'[o].pc = "apply" /\ issue'[o].body = answer
           \/ issue'[o].pc = "recover"
        /\ \A q \in Orders \ {o} : issue'[q] = issue[q]
    BY <2>1 DEF HInv, TypeOK
  <2>5. order[o].points # 0 /\ ~order[o].code /\ told[o] # "DELIVERED"
    BY <2>2 DEF Kept, Truthful, Told
  <2>6. \A w \in Webhooks : webhook[w].pc # "idle" => webhook[w].order \in Orders \ {o}
    BY <2>2 DEF HInv, Named
  <2>7. Fresh'
    BY <2>2, <2>3, <2>4, <2>6 DEF Fresh
  <2> QED BY <2>2, <2>3, <2>4, <2>5, <2>7 DEF Placed, Kept, Truthful, Told
<1>5. ASSUME NEW o \in Orders, placeOrderThrows(o) \/ getOrderByReference(o) PROVE AloneInv'
  <2>1. /\ issue[o].pc \in {"place", "recover", "lookUp"} /\ inFlight' = {}
        /\ UNCHANGED <<order, balance, hubble, notices, webhook, operator, told>>
    BY <1>5 DEF placeOrderThrows, getOrderByReference
  <2>2. /\ \/ issue'[o].pc = "recover"
           \/ issue'[o].pc = "apply" /\ issue'[o].body = hubble[o] /\ hubble[o] # "NONE"
        /\ \A q \in Orders \ {o} : issue'[q] = issue[q]
    BY <1>5 DEF placeOrderThrows, getOrderByReference, HInv, TypeOK
  <2> QED BY <2>1, <2>2 DEF Placed, Fresh, Kept, Truthful, Told
<1>6. ASSUME NEW o \in Orders, recoverNotFound(o) PROVE AloneInv'
  <2>1. /\ hubble[o] = "NONE" /\ issue[o].pc \notin {"idle", "over"}
        /\ UNCHANGED <<hubble, inFlight, notices, webhook, operator>>
    BY <1>6 DEF recoverNotFound
  <2>2. CASE refundAndFailHubble(o) /\ Answered(o, "FAILED")
    <3>1. order[o].status \in {"CONFIRMED", "PROCESSING"} /\ ~order[o].code
      BY <2>1 DEF Truthful, Kept, HInv, Begun
    <3>2. SettledRow(o) /\ order'[o].points = 0
      BY <2>1, <2>2, <3>1, RefundEffect DEF SettledRow, Open, HInv
    <3> QED BY <2>1, <2>2, <3>2, AnsweredAlone
  <2>3. CASE markHubblePendingReconcile(o, "held") /\ Answered(o, "CONFIRMED")
    BY <2>1, <2>3, FlaggedAlone, AnsweredAlone
  <2> QED BY <1>6, <2>2, <2>3 DEF recoverNotFound
<1>7. ASSUME NEW o \in Orders, issueApply(o) PROVE AloneInv'
  <2> DEFINE body == issue[o].body
  <2>1. /\ issue[o].pc = "apply" /\ applyHubbleBody(o, body) /\ Answered(o, Outcome(body))
        /\ UNCHANGED <<hubble, inFlight, notices, webhook, operator>>
    BY <1>7 DEF issueApply
  <2>2. body \in {hubble[o], "PROCESSING"} /\ hubble[o] # "NONE" /\ body # "NONE"
    BY <2>1 DEF Fresh, HInv, Begun
  <2> HIDE DEF body
  <2>3. /\ SettledRow(o)
        /\ order'[o].points = 0 => hubble[o] = "FAILED"
        /\ body = "SUCCESS" => order'[o].code
        /\ body = "FAILED" => order'[o].points = 0
    BY <2>1, <2>2, AppliedAlone
  <2>4. /\ Outcome(body) \in {"DELIVERED", "FAILED", "CONFIRMED"}
        /\ Outcome(body) = "DELIVERED" => body \in {"SUCCESS", "ODD"}
        /\ Outcome(body) = "FAILED" => body = "FAILED"
    BY DEF Outcome
  <2>5. Outcome(body) = "DELIVERED" => order'[o].code \/ hubble[o] = "ODD"
    BY <2>2, <2>3, <2>4
  <2>6. Outcome(body) = "FAILED" => order'[o].points = 0
    BY <2>3, <2>4
  <2> HIDE DEF AloneInv
  <2> QED BY <2>1, <2>3, <2>4, <2>5, <2>6, AnsweredAlone
<1>8. ASSUME NEW o \in Orders, isHubbleEligibleThrows(o) \/ issueDies(o) PROVE AloneInv'
  <2>1. /\ issue[o].pc \notin {"idle", "over"} /\ issue'[o].pc = "over"
        /\ \A q \in Orders \ {o} : issue'[q] = issue[q]
        /\ UNCHANGED <<order, balance, hubble, inFlight, notices, webhook, operator, told>>
    BY <1>8 DEF isHubbleEligibleThrows, issueDies, HInv, TypeOK
  <2> QED BY <2>1 DEF Placed, Fresh, Kept, Truthful, Told
<1>9. ASSUME NEW o \in Orders, HubbleReceives(o) \/ HubbleDecides(o) PROVE AloneInv'
  <2>1. /\ hubble[o] = "PROCESSING" /\ UNCHANGED <<order, balance, issue, inFlight, webhook, operator, told>>
        /\ \E answer \in Answers \ {"PROCESSING"} : HubbleRecords(o, answer)
    BY <1>9 DEF HubbleReceives, HubbleDecides
  <2>2. PICK answer \in Answers \ {"PROCESSING"} : HubbleRecords(o, answer)
    BY <2>1
  <2>3. /\ hubble'[o] = answer /\ answer # "NONE"
        /\ \A q \in Orders \ {o} : hubble'[q] = hubble[q]
    BY <2>2 DEF HubbleRecords, HInv, TypeOK, Answers
  <2>4. Placed' /\ Kept' /\ Truthful' /\ Told'
    BY <2>1, <2>3 DEF Placed, Kept, Truthful, Told
  <2>5. \A w \in Webhooks : webhook[w].pc = "apply" => webhook[w].order \in Orders
    BY DEF HInv, Named
  <2>6. Fresh'
    BY <2>1, <2>3, <2>5 DEF Fresh
  <2> QED BY <2>1, <2>4, <2>6
<1>10. ASSUME NEW w \in Webhooks,
              (\E o \in Orders : webhookLoad(w, o)) \/ webhookAsks(w) \/ webhookFails(w)
       PROVE  AloneInv'
  <2>1. UNCHANGED <<order, balance, issue, hubble, inFlight, operator, told>>
    BY <1>10 DEF webhookLoad, webhookAsks, webhookFails
  <2>2. /\ \A v \in Webhooks \ {w} : webhook'[v] = webhook[v]
        /\ webhook'[w].pc = "apply" =>
             \/ webhook'[w] = webhook[w]
             \/ webhook'[w].body = hubble[webhook'[w].order]
    BY <1>10 DEF webhookLoad, webhookAsks, webhookFails, HInv, TypeOK, Idle
  <2>3. Fresh'
    BY <2>1, <2>2 DEF Fresh
  <2> QED BY <2>1, <2>3 DEF Placed, Kept, Truthful, Told
<1>11. ASSUME NEW w \in Webhooks, webhookApply(w) PROVE AloneInv'
  <2> DEFINE o == webhook[w].order
             body == webhook[w].body
  <2>1. /\ o \in Orders /\ hubble[o] # "NONE" /\ body \in {hubble[o], "PROCESSING"}
        /\ applyHubbleBody(o, body)
        /\ webhook' = [webhook EXCEPT ![w] = Idle]
        /\ UNCHANGED <<issue, hubble, inFlight, notices, operator, told>>
    BY <1>11 DEF webhookApply, HInv, Named, Fresh
  <2> HIDE DEF o, body
  <2>2. issue[o].pc # "idle" /\ body # "NONE"
    BY <2>1 DEF HInv, Begun
  <2>3. SettledRow(o) /\ (order'[o].points = 0 => hubble[o] = "FAILED")
    BY <2>1, <2>2, AppliedAlone
  <2>4. \A q \in Orders \ {o} : order'[q] = order[q]
    BY <2>3 DEF SettledRow, RowOnly
  <2>5. Fresh'
    BY <2>1 DEF Fresh, HInv, TypeOK, Idle
  <2>6. Placed' /\ Kept' /\ Truthful'
    BY <2>1, <2>2, <2>3, <2>4 DEF Placed, Kept, Truthful, SettledRow
  <2>7. Told'
    BY <2>1, <2>2, <2>3, <2>4 DEF Told, SettledRow
  <2> QED BY <2>1, <2>5, <2>6, <2>7
<1>12. CASE UNCHANGED vars
  BY <1>12 DEF vars, Placed, Fresh, Kept, Truthful, Told
<1> HIDE DEF AloneInv
<1> QED
  BY <1>1, <1>2, <1>3, <1>4, <1>5, <1>6, <1>7, <1>8, <1>9, <1>10, <1>11, <1>12
     DEF Next, Issuing, Hubble, Reconciling

(* Nobody holds both a voucher and the points it cost, although placements   *)
(* fail and time out, answers are lost, stale or odd, webhooks repeat, and   *)
(* the server dies: it takes an operator, or a placement that arrives after  *)
(* its order was refunded.                                                   *)
THEOREM NeverBothAlone ==
  ASSUME Operators = {}, ~ArrivesLate
  PROVE  Spec => []NoDoubleBenefit
<1>1. HInv /\ AloneInv => NoDoubleBenefit
  <2> SUFFICES ASSUME HInv, AloneInv, NEW o \in Orders, hubble[o] \in {"SUCCESS", "ODD"}
               PROVE  order[o].points > 0
    BY DEF NoDoubleBenefit
  <2>1. order[o].points \in {0, Price}
    BY DEF HInv, TypeOK, OrderType
  <2>2. order[o].points # 0
    BY DEF HInv, Begun, AloneInv, Kept
  <2> QED BY <2>1, <2>2
<1>2. HInv /\ AloneInv /\ [Next]_vars => AloneInv'
  BY AloneNext
<1> QED BY <1>1, <1>2, AloneInit, HInvInit, HInvNext, PTL DEF Spec

(* ... and then a delivered order has its code and keeps its points, one     *)
(* that failed gave them back, and the member is told the truth.             *)
THEOREM DeliveredOrRefundedAlone ==
  ASSUME Operators = {}, ~ArrivesLate
  PROVE  Spec => []DeliveredOrRefunded
<1>1. HInv /\ AloneInv => DeliveredOrRefunded
  BY DEF HInv, TypeOK, OrderType, Begun, AloneInv, Truthful, Told, DeliveredOrRefunded
<1>2. HInv /\ AloneInv /\ [Next]_vars => AloneInv'
  BY AloneNext
<1> QED BY <1>1, <1>2, AloneInit, HInvInit, HInvNext, PTL DEF Spec
-----------------------------------------------------------------------------
(* The refinement of PointsHold, whoever interferes and whatever fails.      *)
holderBar == [o \in Orders |-> IF order[o].points > 0 THEN Owner[o] ELSE NoPartner]
chargedBar == {o \in Orders : issue[o].pc # "idle"}

(* Giving back the points of one order is a refund of PointsHold.            *)
LEMMA RefundOne ==
  ASSUME HInv, NEW o \in Orders, order[o].points > 0, order'[o].points = 0, RowOnly(o),
         balance' = [balance EXCEPT ![Owner[o]] = @ + Price], IdleKept
  PROVE  Hold!Refund({o})
<1>1. /\ holderBar[o] = Owner[o] /\ Owner[o] \in Partners /\ Owner[o] # NoPartner
      /\ balance \in [Partners -> Nat]
  BY DEF holderBar, HInv, TypeOK
<1>2. \A p \in Partners : Cardinality({x \in {o} : holderBar[x] = p}) = IF p = Owner[o] THEN 1 ELSE 0
  <2>1. \A p \in Partners : {x \in {o} : holderBar[x] = p} = IF p = Owner[o] THEN {o} ELSE {}
    BY <1>1
  <2> QED BY <2>1, FS_Singleton, FS_EmptySet
<1>3. balance' = [p \in Partners |-> balance[p] + Price * Cardinality({x \in {o} : holderBar[x] = p})]
  <2>1. Price * 1 = Price /\ Price * 0 = 0
    OBVIOUS
  <2>2. \A p \in Partners : balance[p] + Price * Cardinality({x \in {o} : holderBar[x] = p})
                             = balance[p] + IF p = Owner[o] THEN Price ELSE 0
    BY <1>2, <2>1
  <2>3. \A p \in Partners : balance'[p] = balance[p] + IF p = Owner[o] THEN Price ELSE 0
    BY <1>1
  <2>4. balance' = [p \in Partners |-> balance'[p]]
    BY <1>1
  <2> QED BY <2>2, <2>3, <2>4
<1>4. holderBar' = [x \in Orders |-> IF x \in {o} THEN NoPartner ELSE holderBar[x]]
  BY DEF holderBar, RowOnly
<1>5. chargedBar' = chargedBar
  BY DEF chargedBar, IdleKept
<1>6. \A T : Hold!Cardinality(T) = Cardinality(T)
  BY Zenon DEF Hold!Cardinality, Cardinality
<1> QED BY <1>1, <1>3, <1>4, <1>5, <1>6 DEF Hold!Refund, holderBar, chargedBar

LEMMA StepRefines ==
  ASSUME HInv, [Next]_vars
  PROVE  [Hold!Next]_(Hold!holdVars)
<1>1. ASSUME UNCHANGED balance, IdleKept, \A q \in Orders : order'[q].points = order[q].points
      PROVE  [Hold!Next]_(Hold!holdVars)
  BY <1>1 DEF Hold!holdVars, IdleKept
<1>2. ASSUME NEW o \in Orders, confirmRedeem(o) PROVE Hold!Next
  <2>1. /\ issue[o].pc = "idle" /\ RowOnly(o) /\ order'[o].points = Price
        /\ issue'[o].pc = "confirmed" /\ \A q \in Orders \ {o} : issue'[q] = issue[q]
        /\ Owner[o] \in Partners /\ balance[Owner[o]] >= Price
        /\ balance' = [balance EXCEPT ![Owner[o]] = @ - Price]
    BY <1>2, ConfirmEffect DEF HInv, TypeOK, confirmRedeem, Covers
  <2>2. chargedBar' = chargedBar \cup {o} /\ o \notin chargedBar
    BY <2>1 DEF chargedBar
  <2>3. holderBar' = [holderBar EXCEPT ![o] = Owner[o]]
    <3>1. \A q \in Orders : (IF order'[q].points > 0 THEN Owner[q] ELSE NoPartner)
                             = IF q = o THEN Owner[o] ELSE holderBar[q]
      BY <2>1 DEF holderBar, RowOnly
    <3>2. holderBar' = [q \in Orders |-> IF q = o THEN Owner[o] ELSE holderBar[q]]
      BY <3>1 DEF holderBar
    <3> QED BY <3>2 DEF holderBar
  <2>4. Hold!Charge(o, Owner[o])
    BY <2>1, <2>2, <2>3 DEF Hold!Charge, holderBar, chargedBar
  <2> QED BY <2>1, <2>4 DEF Hold!Next
<1>3. ASSUME NEW o \in Orders, issue[o].pc # "idle", Applies(o), IdleKept
      PROVE  [Hold!Next]_(Hold!holdVars)
  <2>1. CASE storeHubbleSuccess(o)
    BY <1>1, <1>3, <2>1, StoreEffect DEF RowOnly, HInv
  <2>2. CASE markHubbleProcessing(o)
    BY <1>1, <1>3, <2>2, MarkEffect DEF RowOnly, HInv
  <2>3. CASE refundAndFailHubble(o)
    <3>1. CASE Refundable(o)
      BY <1>3, <2>3, <3>1, RefundEffect, RefundOne DEF HInv, Refundable, Hold!Next
    <3>2. CASE ~Refundable(o)
      <4>1. RowOnly(o) /\ balance' = balance
        BY <2>3, <3>2, RefundEffect DEF HInv
      <4>2. order'[o].points = order[o].points
        <5>1. order[o].points \in {0, Price}
          BY DEF HInv, TypeOK, OrderType
        <5> QED BY <2>3, <3>2, <5>1, RefundEffect DEF HInv, Refundable
      <4> QED BY <1>1, <1>3, <4>1, <4>2 DEF RowOnly
    <3> QED BY <3>1, <3>2
  <2>4. ASSUME NEW reason \in {"held", "indeterminate"}, markHubblePendingReconcile(o, reason)
        PROVE  [Hold!Next]_(Hold!holdVars)
    BY <1>1, <1>3, <2>4, FlagEffect DEF RowOnly, HInv
  <2> QED BY <1>3, <2>1, <2>2, <2>3, <2>4 DEF Applies, applyHubbleBody
<1>4. ASSUME NEW w \in Operators, transitionCommit(w) PROVE [Hold!Next]_(Hold!holdVars)
  <2> DEFINE o == operator[w].order
             to == operator[w].to
             refunded == to \in RefundTargets /\ order[o].points > 0
  <2>1. /\ o \in Orders /\ issue' = issue /\ IdleKept
        /\ RowOnly(o)
        /\ order'[o].points = IF refunded THEN 0 ELSE order[o].points
        /\ balance' = IF refunded THEN [balance EXCEPT ![Owner[o]] = @ + Price] ELSE balance
    BY <1>4, TransitionEffect DEF transitionCommit, HInv, Named, IdleKept
  <2> HIDE DEF o, to
  <2>2. CASE refunded
    BY <2>1, <2>2, RefundOne DEF Hold!Next
  <2>3. CASE ~refunded
    BY <1>1, <2>1, <2>3 DEF RowOnly
  <2> QED BY <2>2, <2>3
<1> QED BY <1>1, <1>2, <1>3, <1>4, StepShape

(* Every behaviour of the issue of vouchers is one PointsHold allows: points *)
(* are taken once, if covered, and given back once, to the same wallet.      *)
THEOREM HubbleImplementsHold == Spec => ImplementsHold
<1>1. Init => Hold!Init
  BY DEF Init, Hold!Init
<1>2. HInv /\ [Next]_vars => [Hold!Next]_(Hold!holdVars)
  BY StepRefines
<1> QED BY <1>1, <1>2, HInvInit, HInvNext, PTL DEF Spec, ImplementsHold, Hold!Spec
=============================================================================
