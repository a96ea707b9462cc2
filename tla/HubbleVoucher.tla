---------------------------- MODULE HubbleVoucher ----------------------------
(***************************************************************************)
(* Automatic issue of a gift-card voucher by the external provider Hubble  *)
(* (src/api/src/rewards/rewards.service.ts, src/api/src/hubble).           *)
(*                                                                         *)
(* The confirmation debits the points and then, outside its transaction,   *)
(* places an order with Hubble under the redemption's own id.  A call that *)
(* fails is recovered by asking Hubble for that id.  Hubble's webhooks make *)
(* the server ask again, and operators may move the order meanwhile.       *)
(* What Hubble answers is applied by transactions that claim the order by  *)
(* its status.                                                             *)
(***************************************************************************)
EXTENDS Integers, FiniteSets

CONSTANTS
  Orders, Partners, NoPartner,
  Owner,           \* Owner[o]: the partner whose points order o costs
  Webhooks,        \* concurrent webhook requests
  Operators,       \* concurrent operators' requests
  NoOrder,
  Price, InitialBalance,
  ArrivesLate,     \* whether a placement that timed out may still reach Hubble
  WebhookMayFail,  \* whether the reconcile of a webhook may fail
  ServerMayDie,    \* whether the server may die between two steps
  DatabaseMayFail, \* whether a read or write that nothing repeats may fail
  AnswersOddly     \* whether Hubble may answer SUCCESS with no voucher code

ASSUME HubbleAssumption ==
  /\ Price \in Nat \ {0} /\ InitialBalance \in Nat
  /\ NoPartner \notin Partners /\ NoOrder \notin Orders
  /\ Owner \in [Orders -> Partners]
  /\ {ArrivesLate, WebhookMayFail, ServerMayDie, DatabaseMayFail, AnswersOddly} \subseteq BOOLEAN
  /\ IsFiniteSet(Orders)

VARIABLES
  order,      \* status, points, viaHubble (voucherProvider), code, flag (needs reconcile)
  balance,    \* redeemablePoints of each partner's wallet
  issue,      \* the issuance each confirmation runs: pc, and the body it got
  hubble,     \* Hubble's own record of each order
  inFlight,   \* placements given up here that Hubble has yet to receive
  notices,    \* orders Hubble has yet to send a webhook about
  webhook, operator,
  told,       \* the status the confirmation reported to the member
  unmarked    \* orders a failure or a death kept from being flagged

vars == <<order, balance, issue, hubble, inFlight, notices, webhook, operator, told, unmarked>>

(* transitionOrder's edges, of the orders that are confirmed.                *)
Edges == {<<"CONFIRMED", "PROCESSING">>, <<"CONFIRMED", "CANCELLED">>, <<"CONFIRMED", "RETURNED">>,
          <<"PROCESSING", "DISPATCHED">>, <<"PROCESSING", "FAILED">>, <<"PROCESSING", "CANCELLED">>,
          <<"DISPATCHED", "DELIVERED">>, <<"DISPATCHED", "RETURNED">>,
          <<"DELIVERED", "RETURNED">>}

RefundTargets == {"CANCELLED", "RETURNED", "FAILED"}

Answers == {"PROCESSING", "SUCCESS", "FAILED"} \cup (IF AnswersOddly THEN {"ODD"} ELSE {})

Idle == [pc |-> "idle", order |-> NoOrder, body |-> "NONE"]
IdleOperator == [pc |-> "idle", order |-> NoOrder, to |-> "NONE", code |-> FALSE]

Init ==
  /\ order = [o \in Orders |-> [status |-> "PENDING", points |-> 0,
                                viaHubble |-> FALSE, code |-> FALSE, flag |-> "none"]]
  /\ balance = [p \in Partners |-> InitialBalance]
  /\ issue = [o \in Orders |-> [pc |-> "idle", body |-> "NONE"]]
  /\ hubble = [o \in Orders |-> "NONE"]
  /\ inFlight = {} /\ notices = {}
  /\ webhook = [w \in Webhooks |-> Idle]
  /\ operator = [w \in Operators |-> IdleOperator]
  /\ told = [o \in Orders |-> "NONE"]
  /\ unmarked = {}

-----------------------------------------------------------------------------
(* Applying what Hubble answered: one transaction each, whose claims name    *)
(* the statuses the order may be in.                                         *)
StorableConfirmed == {"CONFIRMED"}   \* mutant: a PROCESSING order is not delivered
Storable == {"CONFIRMED", "PROCESSING"}

storeHubbleSuccess(o) ==
  /\ order' = IF order[o].status \in Storable
              THEN [order EXCEPT ![o].status = "DELIVERED", ![o].code = TRUE,
                                 ![o].viaHubble = TRUE]
              ELSE order
  /\ UNCHANGED <<balance, unmarked>>

MarkableAny(o) == TRUE               \* mutant: the status is not part of the claim
Markable(o) == order[o].status = "CONFIRMED"

markHubbleProcessing(o) ==
  /\ order' = IF Markable(o)
              THEN [order EXCEPT ![o].status = "PROCESSING", ![o].viaHubble = TRUE]
              ELSE order
  /\ UNCHANGED <<balance, unmarked>>

RefundableAlways(o) == order[o].status # "DELIVERED"   \* mutant: points are not claimed
Open(o) == order[o].status \in {"CONFIRMED", "PROCESSING", "PENDING"}
Refundable(o) == Open(o) /\ order[o].points > 0

refundAndFailHubble(o) ==
  /\ order' = IF Open(o)
              THEN [order EXCEPT ![o].status = "FAILED", ![o].points = 0, ![o].viaHubble = TRUE]
              ELSE order
  /\ balance' = IF Refundable(o) THEN [balance EXCEPT ![Owner[o]] = @ + Price] ELSE balance
  /\ UNCHANGED unmarked

(* Only flags the order: its status is left as it is.  A read or a write     *)
(* that fails is swallowed.                                                  *)
markHubblePendingReconcile(o, reason) ==
  /\ \/ order' = [order EXCEPT ![o].flag = reason] /\ UNCHANGED unmarked
     \/ DatabaseMayFail /\ unmarked' = unmarked \cup {o} /\ UNCHANGED order
  /\ UNCHANGED balance

(* A SUCCESS without a code delivers nothing, but counts as DELIVERED below. *)
OddBodyDelivers(o, body) ==          \* mutant: a missing code is not noticed
  \/ body \in {"SUCCESS", "ODD"} /\ order' = [order EXCEPT ![o].status = "DELIVERED"]
       /\ UNCHANGED <<balance, unmarked>>
  \/ body = "PROCESSING" /\ markHubbleProcessing(o)
  \/ body = "FAILED" /\ refundAndFailHubble(o)

applyHubbleBody(o, body) ==
  \/ body = "SUCCESS" /\ storeHubbleSuccess(o)
  \/ body = "PROCESSING" /\ markHubbleProcessing(o)
  \/ body = "FAILED" /\ refundAndFailHubble(o)
  \/ body = "ODD" /\ markHubblePendingReconcile(o, "held")

Outcome(body) ==
  CASE body \in {"SUCCESS", "ODD"} -> "DELIVERED" [] body = "FAILED" -> "FAILED"
    [] OTHER -> "CONFIRMED"

isHubbleOrderResolved(o) ==
  \/ order[o].status = "DELIVERED" /\ order[o].code
  \/ order[o].status \in RefundTargets /\ order[o].points = 0

-----------------------------------------------------------------------------
(* The confirmation's transaction; then it issues the voucher.               *)
CoversSome(p) == balance[p] > 0      \* mutant: any balance will do
Covers(p) == balance[p] >= Price

confirmRedeem(o) ==
  /\ order[o].status = "PENDING"
  /\ Covers(Owner[o])
  /\ order' = [order EXCEPT ![o].status = "CONFIRMED", ![o].points = Price]
  /\ balance' = [balance EXCEPT ![Owner[o]] = @ - Price]
  /\ issue' = [issue EXCEPT ![o].pc = "confirmed"]
  /\ UNCHANGED <<hubble, inFlight, notices, webhook, operator, told, unmarked>>

Answered(o, status) ==
  /\ issue' = [issue EXCEPT ![o] = [pc |-> "over", body |-> "NONE"]]
  /\ told' = [told EXCEPT ![o] = status]

(* issueHubbleVoucherForOrder reads the order: a resolved one is skipped, a  *)
(* PROCESSING one only looked up, any other placed.                          *)
issueLoad(o) ==
  /\ issue[o].pc = "confirmed"
  /\ IF isHubbleOrderResolved(o)
     THEN Answered(o, "CONFIRMED")
     ELSE /\ issue' = [issue EXCEPT ![o].pc =
                IF order[o].status = "PROCESSING" THEN "lookUp" ELSE "place"]
          /\ UNCHANGED told
  /\ UNCHANGED <<order, balance, hubble, inFlight, notices, webhook, operator, unmarked>>

(* Hubble is not configured, or the value is no whole number of rupees.      *)
issueHeld(o) ==
  /\ issue[o].pc \in {"lookUp", "place"}
  /\ markHubblePendingReconcile(o, "held")
  /\ Answered(o, "CONFIRMED")
  /\ UNCHANGED <<hubble, inFlight, notices, webhook, operator>>

(* Hubble receives a placement and makes its record; a webhook about it is   *)
(* due once it is final.                                                     *)
HubbleRecords(o, answer) ==
  /\ hubble' = [hubble EXCEPT ![o] = answer]
  /\ notices' = IF answer = "PROCESSING" THEN notices ELSE notices \cup {o}

placeOrder(o) ==
  /\ issue[o].pc = "place"
  /\ \E answer \in Answers :
       /\ HubbleRecords(o, answer)
       /\ \/ issue' = [issue EXCEPT ![o] = [pc |-> "apply", body |-> answer]]
          \/ issue' = [issue EXCEPT ![o].pc = "recover"]     \* the answer is lost
  /\ UNCHANGED <<order, balance, inFlight, webhook, operator, told, unmarked>>

(* The call throws: the request is lost, refused, or late.                   *)
placeOrderThrows(o) ==
  /\ issue[o].pc = "place"
  /\ issue' = [issue EXCEPT ![o].pc = "recover"]
  /\ inFlight' \in {inFlight} \cup (IF ArrivesLate THEN {inFlight \cup {o}} ELSE {})
  /\ UNCHANGED <<order, balance, hubble, notices, webhook, operator, told, unmarked>>

(* getOrderByReference, after a failed placement or of a PROCESSING order.   *)
getOrderByReference(o) ==
  /\ issue[o].pc \in {"recover", "lookUp"}
  /\ hubble[o] # "NONE"
  /\ issue' = [issue EXCEPT ![o] = [pc |-> "apply", body |-> hubble[o]]]
  /\ UNCHANGED <<order, balance, hubble, inFlight, notices, webhook, operator, told, unmarked>>

(* No such order: it was never placed, and is refunded; a PROCESSING one is  *)
(* left alone.                                                               *)
recoverNotFound(o) ==
  /\ hubble[o] = "NONE"
  /\ \/ issue[o].pc = "recover" /\ refundAndFailHubble(o) /\ Answered(o, "FAILED")
     \/ issue[o].pc = "lookUp" /\ markHubblePendingReconcile(o, "held") /\ Answered(o, "CONFIRMED")
  /\ UNCHANGED <<hubble, inFlight, notices, webhook, operator>>

(* Both calls failed, so whether a voucher was issued is not known.          *)
RefundIndeterminate(o) == refundAndFailHubble(o)    \* mutant: refunds without knowing
LeaveIndeterminate(o) == UNCHANGED <<order, balance, unmarked>>   \* mutant: does not flag it
Indeterminate(o) == markHubblePendingReconcile(o, "indeterminate")

recoverThrows(o) ==
  /\ issue[o].pc \in {"recover", "lookUp"}
  /\ Indeterminate(o)
  /\ Answered(o, "CONFIRMED")
  /\ UNCHANGED <<hubble, inFlight, notices, webhook, operator>>

issueApply(o) ==
  /\ issue[o].pc = "apply"
  /\ applyHubbleBody(o, issue[o].body)
  /\ Answered(o, Outcome(issue[o].body))
  /\ UNCHANGED <<hubble, inFlight, notices, webhook, operator>>

(* A step throws: the order is flagged for a reconcile.                      *)
issueThrows(o) ==
  /\ issue[o].pc \notin {"idle", "over"}
  /\ markHubblePendingReconcile(o, "held")
  /\ Answered(o, "CONFIRMED")
  /\ UNCHANGED <<hubble, inFlight, notices, webhook, operator>>

(* The confirmation ends before its issuance: the read that decides whether  *)
(* the order is Hubble's throws, after the points were debited.              *)
isHubbleEligibleThrows(o) ==
  /\ DatabaseMayFail
  /\ issue[o].pc = "confirmed"
  /\ issue' = [issue EXCEPT ![o] = [pc |-> "over", body |-> "NONE"]]
  /\ unmarked' = unmarked \cup {o}
  /\ UNCHANGED <<order, balance, hubble, inFlight, notices, webhook, operator, told>>

issueDies(o) ==
  /\ ServerMayDie
  /\ issue[o].pc \notin {"idle", "over"}
  /\ issue' = [issue EXCEPT ![o] = [pc |-> "over", body |-> "NONE"]]
  /\ unmarked' = unmarked \cup {o}
  /\ UNCHANGED <<order, balance, hubble, inFlight, notices, webhook, operator, told>>

-----------------------------------------------------------------------------
(* Hubble, as the code relies on it.                                         *)
HubbleReceives(o) ==
  /\ o \in inFlight
  /\ inFlight' = inFlight \ {o}
  /\ \E answer \in Answers : HubbleRecords(o, answer)
  /\ UNCHANGED <<order, balance, issue, webhook, operator, told, unmarked>>

HubbleDecides(o) ==
  /\ hubble[o] = "PROCESSING"
  /\ \E answer \in Answers \ {"PROCESSING"} : HubbleRecords(o, answer)
  /\ UNCHANGED <<order, balance, issue, inFlight, webhook, operator, told, unmarked>>

-----------------------------------------------------------------------------
(* A webhook arrives (any number of times); it is always acknowledged, so it *)
(* is not sent again.  reconcileHubbleOrder reads the order, ...             *)
webhookLoad(w, o) ==
  /\ webhook[w].pc = "idle"
  /\ hubble[o] # "NONE"
  /\ notices' = notices \ {o}
  /\ webhook' = IF isHubbleOrderResolved(o) THEN webhook
                ELSE [webhook EXCEPT ![w] = [pc |-> "loaded", order |-> o, body |-> "NONE"]]
  /\ UNCHANGED <<order, balance, issue, hubble, inFlight, operator, told, unmarked>>

(* ... asks Hubble ...                                                       *)
webhookAsks(w) ==
  /\ webhook[w].pc = "loaded"
  /\ webhook' = [webhook EXCEPT ![w].pc = "apply", ![w].body = hubble[webhook[w].order]]
  /\ UNCHANGED <<order, balance, issue, hubble, inFlight, notices, operator, told, unmarked>>

(* ... and applies the answer.                                               *)
webhookApply(w) ==
  /\ webhook[w].pc = "apply"
  /\ applyHubbleBody(webhook[w].order, webhook[w].body)
  /\ webhook' = [webhook EXCEPT ![w] = Idle]
  /\ UNCHANGED <<issue, hubble, inFlight, notices, operator, told>>

(* The flag is off, Hubble does not answer, or applying it throws.           *)
webhookFails(w) ==
  /\ WebhookMayFail
  /\ webhook[w].pc # "idle"
  /\ webhook' = [webhook EXCEPT ![w] = Idle]
  /\ UNCHANGED <<order, balance, issue, hubble, inFlight, notices, operator, told, unmarked>>

-----------------------------------------------------------------------------
(* transitionOrder: the checks are made on a read of the order; a refund     *)
(* target is refused for an order that shows Hubble as its provider.  (A     *)
(* DELIVERED order needs a code only if the request leaves its channel a     *)
(* digital one; the request may name another.)                               *)
transitionRead(w, o, to, code) ==
  /\ operator[w].pc = "idle"
  /\ <<order[o].status, to>> \in Edges
  /\ ~(order[o].viaHubble /\ to \in RefundTargets)
  /\ operator' = [operator EXCEPT ![w] = [pc |-> "read", order |-> o, to |-> to, code |-> code]]
  /\ UNCHANGED <<order, balance, issue, hubble, inFlight, notices, webhook, told, unmarked>>

transitionCommit(w) ==
  LET o == operator[w].order
      to == operator[w].to
      refunded == to \in RefundTargets /\ order[o].points > 0
  IN  /\ operator[w].pc = "read"
      /\ order' = [order EXCEPT ![o].status = to, ![o].code = @ \/ operator[w].code,
                                ![o].points = IF refunded THEN 0 ELSE @]
      /\ balance' = IF refunded THEN [balance EXCEPT ![Owner[o]] = @ + Price] ELSE balance
      /\ operator' = [operator EXCEPT ![w] = IdleOperator]
      /\ UNCHANGED <<issue, hubble, inFlight, notices, webhook, told, unmarked>>

-----------------------------------------------------------------------------
Issuing(o) ==
  \/ confirmRedeem(o) \/ issueLoad(o) \/ issueHeld(o)
  \/ placeOrder(o) \/ placeOrderThrows(o)
  \/ getOrderByReference(o) \/ recoverNotFound(o) \/ recoverThrows(o)
  \/ issueApply(o) \/ issueThrows(o)
  \/ isHubbleEligibleThrows(o) \/ issueDies(o)

Hubble(o) == HubbleReceives(o) \/ HubbleDecides(o)

Reconciling(w) ==
  \/ \E o \in Orders : webhookLoad(w, o)
  \/ webhookAsks(w) \/ webhookApply(w) \/ webhookFails(w)

Operating(w) ==
  \/ \E o \in Orders, code \in BOOLEAN :
       \E to \in {e[2] : e \in Edges} : transitionRead(w, o, to, code)
  \/ transitionCommit(w)

Next ==
  \/ \E o \in Orders : Issuing(o) \/ Hubble(o)
  \/ \E w \in Webhooks : Reconciling(w)
  \/ \E w \in Operators : Operating(w)

Spec == Init /\ [][Next]_vars

(* Hubble sends the webhooks that are due, and a request that has started    *)
(* ends.                                                                     *)
FairSpec ==
  /\ Spec
  /\ \A o \in Orders : WF_vars(\E w \in Webhooks : o \in notices /\ webhookLoad(w, o))
  /\ \A w \in Webhooks : WF_vars(webhookAsks(w)) /\ WF_vars(webhookApply(w))

-----------------------------------------------------------------------------
(* Types of all the state.                                                   *)
OrderType == [status : {"PENDING", "CONFIRMED", "PROCESSING", "DISPATCHED", "DELIVERED",
                        "CANCELLED", "RETURNED", "FAILED"},
              points : {0, Price}, viaHubble : BOOLEAN, code : BOOLEAN,
              flag : {"none", "held", "indeterminate"}]
Bodies == {"NONE", "PROCESSING", "SUCCESS", "FAILED", "ODD"}

TypeOK ==
  /\ order \in [Orders -> OrderType]
  /\ balance \in [Partners -> Nat]
  /\ issue \in [Orders -> [pc : {"idle", "confirmed", "place", "lookUp", "recover", "apply", "over"},
                           body : Bodies]]
  /\ hubble \in [Orders -> Bodies]
  /\ inFlight \subseteq Orders /\ notices \subseteq Orders
  /\ webhook \in [Webhooks -> [pc : {"idle", "loaded", "apply"},
                               order : Orders \cup {NoOrder}, body : Bodies]]
  /\ operator \in [Operators -> [pc : {"idle", "read"}, order : Orders \cup {NoOrder},
                                 to : {e[2] : e \in Edges} \cup {"NONE"}, code : BOOLEAN]]
  /\ told \in [Orders -> {"NONE", "DELIVERED", "FAILED", "CONFIRMED"}]
  /\ unmarked \subseteq Orders

(* Nobody holds both a voucher that Hubble issued and the points it cost.    *)
NoDoubleBenefit == \A o \in Orders : hubble[o] \in {"SUCCESS", "ODD"} => order[o].points > 0

(* A delivered order has its code and keeps its points, one that failed has  *)
(* given them back, and a member who is told of either is told the truth,    *)
(* unless Hubble's SUCCESS had no code.                                      *)
DeliveredOrRefunded ==
  \A o \in Orders :
    /\ order[o].status = "DELIVERED" => order[o].code /\ order[o].points > 0
    /\ order[o].status = "FAILED" => ~order[o].code /\ order[o].points = 0
    /\ told[o] = "DELIVERED" => order[o].code \/ hubble[o] = "ODD"
    /\ told[o] = "FAILED" => order[o].points = 0

(* A delivered order never goes back, whatever stale answer is applied.      *)
StaysDelivered ==
  [][\A o \in Orders : order[o].status = "DELIVERED" => order'[o].status = "DELIVERED"]_vars

(* Points are not left debited without a voucher and without a trace: when   *)
(* the confirmation is over, however it ended, the order is resolved,        *)
(* PROCESSING, or flagged for a reconcile - unless the server died, the flag *)
(* itself could not be written, or the read before the issuance failed.      *)
NeverLeftDebited ==
  \A o \in Orders \ unmarked :
    (issue[o].pc = "over" /\ order[o].status = "CONFIRMED") => order[o].flag # "none"

(* A voucher that Hubble issued is delivered in the end, whichever of the    *)
(* confirmation and the webhook brings the news.                             *)
IssuedIsDelivered ==
  \A o \in Orders : hubble[o] = "SUCCESS" ~> order[o].status = "DELIVERED"

(* What an order holds and whether it was charged, as PointsHold sees it.    *)
Hold == INSTANCE PointsHold WITH
  holder <- [o \in Orders |-> IF order[o].points > 0 THEN Owner[o] ELSE NoPartner],
  charged <- {o \in Orders : issue[o].pc # "idle"}

(* The issue of vouchers implements PointsHold.                              *)
ImplementsHold == Hold!Spec

-----------------------------------------------------------------------------
(* Said by comments in the code, and not kept by it: README, "Divergences".  *)

(* An order whose placement is indeterminate is left PROCESSING.             *)
IndeterminateIsProcessing ==
  \A o \in Orders : order[o].flag = "indeterminate" => order[o].status # "CONFIRMED"
=============================================================================
