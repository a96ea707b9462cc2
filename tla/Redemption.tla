----------------------------- MODULE Redemption -----------------------------
(***************************************************************************)
(* Redemption of a gift (src/api/src/rewards/rewards.service.ts).          *)
(*                                                                         *)
(* An order is opened PENDING with a one-time password, confirmed with it  *)
(* (which debits the wallet and takes a unit of stock), and moved on by    *)
(* operators through a table of edges; leaving for CANCELLED, RETURNED or  *)
(* FAILED refunds the points.                                              *)
(*                                                                         *)
(* The handlers run concurrently on Postgres at READ COMMITTED.  What a    *)
(* handler reads before its last UPDATEs is a step of its own; the UPDATEs *)
(* re-evaluate their WHERE on the rows as they are then, and commit        *)
(* together.  Cash and Hubble orders, which leave this path after the      *)
(* confirmation, are PayoutSettlement and HubbleVoucher.                   *)
(***************************************************************************)
EXTENDS Integers, FiniteSets

CONSTANTS
  Orders,          \* identities of redemption orders
  Partners,        \* outlets
  NoPartner,
  Login,           \* Login[p]: the user that receives p's passwords
  Confirms,        \* concurrent confirm requests
  Operators,       \* concurrent transition requests of the console
  Vendors,         \* ... and of the vendor portal
  NoOrder,
  Price,           \* points an order costs
  InitialBalance,  \* of each wallet
  InitialStock,    \* of the item
  SendMayFail      \* whether the SMS provider may report a failure

ASSUME RedemptionAssumption ==
  /\ Price \in Nat \ {0} /\ InitialBalance \in Nat /\ InitialStock \in Nat
  /\ NoPartner \notin Partners /\ NoOrder \notin Orders
  /\ SendMayFail \in BOOLEAN
  /\ Operators \cap Vendors = {}

VARIABLES
  order,     \* the order rows: status, partner, pointsDeducted
  otp,       \* the password row bound to each order (referenceId)
  balance,   \* redeemablePoints of each partner's wallet
  stock,     \* stockQuantity of the item
  moves,     \* per order, how many REDEEM and REVERSE rows name it
  opening,   \* the redeem request that creates each order
  confirm,   \* the confirm requests
  operator   \* the transition requests, of either kind

vars == <<order, otp, balance, stock, moves, opening, confirm, operator>>

Transitions == Operators \cup Vendors

Statuses == {"PENDING", "CONFIRMED", "PROCESSING", "DISPATCHED", "DELIVERED",
             "CANCELLED", "RETURNED", "FAILED"}
RefundTargets == {"CANCELLED", "RETURNED", "FAILED"}

(* The table of edges of transitionOrder.                                   *)
Edges == {<<"PENDING", "CANCELLED">>,
          <<"CONFIRMED", "PROCESSING">>, <<"CONFIRMED", "CANCELLED">>,
          <<"CONFIRMED", "RETURNED">>,
          <<"PROCESSING", "DISPATCHED">>, <<"PROCESSING", "FAILED">>,
          <<"PROCESSING", "CANCELLED">>,
          <<"DISPATCHED", "DELIVERED">>, <<"DISPATCHED", "RETURNED">>,
          <<"DELIVERED", "RETURNED">>}

(* The vendor's, forward only; and what is closed to a vendor.               *)
VendorEdges == {<<"CONFIRMED", "PROCESSING">>, <<"PROCESSING", "DISPATCHED">>,
                <<"DISPATCHED", "DELIVERED">>}
VendorTerminal == {"DELIVERED", "RETURNED", "FAILED", "CANCELLED"}

IdleOpening == [pc |-> "idle", partner |-> NoPartner, doomed |-> {}, cleared |-> {}]
IdleConfirm == [pc |-> "idle", order |-> NoOrder, otp |-> NoOrder]
IdleOperator == [pc |-> "idle", order |-> NoOrder, to |-> "NONE", points |-> 0]

Init ==
  /\ order = [o \in Orders |-> [status |-> "NONE", partner |-> NoPartner, points |-> 0]]
  /\ otp = [o \in Orders |-> "none"]
  /\ balance = [p \in Partners |-> InitialBalance]
  /\ stock = InitialStock
  /\ moves = [o \in Orders |-> [redeem |-> 0, reverse |-> 0]]
  /\ opening = [o \in Orders |-> IdleOpening]
  /\ confirm = [c \in Confirms |-> IdleConfirm]
  /\ operator = [w \in Transitions |-> IdleOperator]

ItemActive == stock > 0      \* a confirmation that takes the last unit closes it

-----------------------------------------------------------------------------
(* redeem and redeemForOutlet: check what can be afforded; the transaction's *)
(* first statements find the partner's PENDING orders to supersede and the   *)
(* login's unverified passwords to delete.                                   *)
OfLogin(p) == {o \in Orders : order[o].status # "NONE" /\ Login[order[o].partner] = Login[p]}
Unverified(S) == {o \in S : otp[o] \in {"live", "dead"}}

redeem(o, p) ==
  /\ opening[o].pc = "idle"
  /\ ItemActive
  /\ balance[p] >= Price
  /\ opening' = [opening EXCEPT ![o] =
       [pc |-> "open", partner |-> p,
        doomed |-> {q \in Orders : order[q].status = "PENDING" /\ order[q].partner = p},
        cleared |-> Unverified(OfLogin(p))]]
  /\ UNCHANGED <<order, otp, balance, stock, moves, confirm, operator>>

(* ... its last ones create the order and its password.  A row found but     *)
(* changed since is re-checked: one no longer PENDING is left alone.         *)
SupersededBlindly(o) == opening[o].doomed      \* mutant: cancels what it found

Superseded(o) == {q \in opening[o].doomed : order[q].status = "PENDING"}

redeemCommit(o) ==
  LET p == opening[o].partner
  IN  /\ opening[o].pc = "open"
      /\ order' = [q \in Orders |->
           IF q = o THEN [status |-> "PENDING", partner |-> p, points |-> 0]
           ELSE IF q \in Superseded(o) THEN [order[q] EXCEPT !.status = "CANCELLED"]
           ELSE order[q]]
      /\ otp' = [q \in Orders |->
           IF q = o THEN "live"
           ELSE IF q \in Unverified(opening[o].cleared) THEN "deleted"
           ELSE otp[q]]
      /\ opening' = [opening EXCEPT ![o] = [IdleOpening EXCEPT !.pc = "sending", !.partner = p]]
      /\ UNCHANGED <<balance, stock, moves, confirm, operator>>

(* The password is sent after the commit.  The provider may answer with an   *)
(* error although the message arrived.                                       *)
sendOtp(o) ==
  /\ opening[o].pc = "sending"
  /\ opening' = [opening EXCEPT ![o].pc = "closed"]
  /\ UNCHANGED <<order, otp, balance, stock, moves, confirm, operator>>

sendOtpFails(o) ==
  /\ SendMayFail
  /\ opening[o].pc = "sending"
  /\ opening' = [opening EXCEPT ![o].pc = "undo"]
  /\ UNCHANGED <<order, otp, balance, stock, moves, confirm, operator>>

(* The undoing of an order whose password could not be sent: an update by id,*)
(* whatever the order's status is by now.                                    *)
cleanup(o) ==
  LET p == opening[o].partner
  IN  /\ opening[o].pc = "undo"
      /\ otp' = [q \in Orders |-> IF q \in Unverified(OfLogin(p)) THEN "deleted" ELSE otp[q]]
      /\ order' = [order EXCEPT ![o].status = "CANCELLED"]
      /\ opening' = [opening EXCEPT ![o].pc = "closed"]
      /\ UNCHANGED <<balance, stock, moves, confirm, operator>>

(* The undoing itself fails: the order stays as it is.                       *)
cleanupFails(o) ==
  /\ opening[o].pc = "undo"
  /\ opening' = [opening EXCEPT ![o].pc = "closed"]
  /\ UNCHANGED <<order, otp, balance, stock, moves, confirm, operator>>

(* A password expires, or its attempts are used up.                          *)
OtpDies(o) ==
  /\ otp[o] = "live"
  /\ otp' = [otp EXCEPT ![o] = "dead"]
  /\ UNCHANGED <<order, balance, stock, moves, opening, confirm, operator>>

-----------------------------------------------------------------------------
(* verifyRedemptionOtp looks for the password bound to this order.           *)
OtpOfLogin(o) ==                     \* mutant: any password of the login
  {q \in Orders : order[q].status # "NONE" /\ Login[order[q].partner] = Login[order[o].partner]}

OtpFor(o) == {o}

(* confirmRedeem and confirmRedeemForOutlet, before their transaction: the   *)
(* order is PENDING and the password is right.                               *)
confirmGate(c, o) ==
  /\ confirm[c].pc = "idle"
  /\ order[o].status = "PENDING"
  /\ \E q \in OtpFor(o) :
       /\ otp[q] = "live"
       /\ confirm' = [confirm EXCEPT ![c] = [pc |-> "gated", order |-> o, otp |-> q]]
  /\ UNCHANGED <<order, otp, balance, stock, moves, opening, operator>>

(* In the transaction: the item is still on offer.                           *)
confirmRecheck(c) ==
  /\ confirm[c].pc = "gated"
  /\ ItemActive
  /\ confirm' = [confirm EXCEPT ![c].pc = "checked"]
  /\ UNCHANGED <<order, otp, balance, stock, moves, opening, operator>>

(* The claim PENDING -> CONFIRMED and everything that commits with it: the   *)
(* password is consumed, the wallet debited, the stock decremented, each by  *)
(* an UPDATE that must match.                                                *)
ClaimedBlindly(o) == TRUE            \* mutant: the claim does not re-check the status
InStockBlindly == TRUE               \* mutant: the decrement is not guarded

Claimed(o) == order[o].status = "PENDING"
InStock == stock >= 1

confirmCommit(c) ==
  LET o == confirm[c].order
      p == order[o].partner
  IN  /\ confirm[c].pc = "checked"
      /\ Claimed(o)
      /\ otp[confirm[c].otp] # "deleted"
      /\ balance[p] >= Price
      /\ InStock
      /\ order' = [order EXCEPT ![o] = [status |-> "CONFIRMED", partner |-> p, points |-> Price]]
      /\ otp' = [otp EXCEPT ![confirm[c].otp] = "verified"]
      /\ balance' = [balance EXCEPT ![p] = @ - Price]
      /\ moves' = [moves EXCEPT ![o].redeem = @ + 1]
      /\ stock' = stock - 1
      /\ confirm' = [confirm EXCEPT ![c] = IdleConfirm]
      /\ UNCHANGED <<opening, operator>>

(* Any of the gates throws, or a claim matches no row: nothing is kept.      *)
confirmRefused(c) ==
  /\ confirm[c].pc # "idle"
  /\ confirm' = [confirm EXCEPT ![c] = IdleConfirm]
  /\ UNCHANGED <<order, otp, balance, stock, moves, opening, operator>>

-----------------------------------------------------------------------------
(* transitionOrder reads the order outside its transaction and checks the    *)
(* edge on what it read.                                                     *)
transitionRead(w, o, to) ==
  /\ operator[w].pc = "idle"
  /\ <<order[o].status, to>> \in Edges
  /\ operator' = [operator EXCEPT ![w] =
       [pc |-> "read", order |-> o, to |-> to, points |-> order[o].points]]
  /\ UNCHANGED <<order, otp, balance, stock, moves, opening, confirm>>

(* The vendor portal's transition does the same along its own edges: it      *)
(* reads, then writes the status by id.                                      *)
vendorTransition(v, o, to) ==
  /\ operator[v].pc = "idle"
  /\ order[o].status \notin VendorTerminal
  /\ <<order[o].status, to>> \in VendorEdges
  /\ operator' = [operator EXCEPT ![v] =
       [pc |-> "read", order |-> o, to |-> to, points |-> order[o].points]]
  /\ UNCHANGED <<order, otp, balance, stock, moves, opening, confirm>>

(* The refund claim: pointsDeducted > 0 -> 0, once.                          *)
RefundClaimedByStatus(o) ==          \* mutant: refunds whatever is not PENDING
  order[o].status # "PENDING"

RefundClaimed(o) == order[o].points > 0

Refunds(w) == operator[w].to \in RefundTargets /\ RefundClaimed(operator[w].order)

(* The transaction: a refund, if there is something to refund, of the points *)
(* that were READ, and the new status whatever the status is by now.         *)
transitionCommit(w) ==
  LET o == operator[w].order
      p == order[o].partner
  IN  /\ operator[w].pc = "read"
      /\ IF Refunds(w)
           THEN /\ operator[w].points > 0
                /\ balance' = [balance EXCEPT ![p] = @ + operator[w].points]
                /\ moves' = [moves EXCEPT ![o].reverse = @ + 1]
                /\ order' = [order EXCEPT ![o] =
                     [status |-> operator[w].to, partner |-> p, points |-> 0]]
           ELSE /\ order' = [order EXCEPT ![o].status = operator[w].to]
                /\ UNCHANGED <<balance, moves>>
      /\ operator' = [operator EXCEPT ![w] = IdleOperator]
      /\ UNCHANGED <<otp, stock, opening, confirm>>

(* reverse refuses an amount of zero, and the transaction rolls back: the    *)
(* order was confirmed after it was read as PENDING.                         *)
transitionRefused(w) ==
  /\ operator[w].pc = "read"
  /\ Refunds(w) /\ operator[w].points = 0
  /\ operator' = [operator EXCEPT ![w] = IdleOperator]
  /\ UNCHANGED <<order, otp, balance, stock, moves, opening, confirm>>

-----------------------------------------------------------------------------
Opening(o) ==
  \/ \E p \in Partners : redeem(o, p)
  \/ redeemCommit(o) \/ sendOtp(o) \/ sendOtpFails(o)
  \/ cleanup(o) \/ cleanupFails(o)
  \/ OtpDies(o)

Confirming(c) ==
  \/ \E o \in Orders : confirmGate(c, o)
  \/ confirmRecheck(c) \/ confirmCommit(c) \/ confirmRefused(c)

Operating(w) ==
  \/ \E o \in Orders, to \in Statuses : transitionRead(w, o, to)
  \/ transitionCommit(w) \/ transitionRefused(w)

Fulfilling(v) ==
  \/ \E o \in Orders, to \in Statuses : vendorTransition(v, o, to)
  \/ transitionCommit(v)

Next ==
  \/ \E o \in Orders : Opening(o)
  \/ \E c \in Confirms : Confirming(c)
  \/ \E w \in Operators : Operating(w)
  \/ \E v \in Vendors : Fulfilling(v)

Spec == Init /\ [][Next]_vars

-----------------------------------------------------------------------------
(* Types of all the state.                                                   *)
OrderType == [status : Statuses \cup {"NONE"}, partner : Partners \cup {NoPartner},
              points : {0, Price}]
OpeningType == [pc : {"idle", "open", "sending", "undo", "closed"},
                partner : Partners \cup {NoPartner},
                doomed : SUBSET Orders, cleared : SUBSET Orders]
ConfirmType == [pc : {"idle", "gated", "checked"}, order : Orders \cup {NoOrder},
                otp : Orders \cup {NoOrder}]
OperatorType == [pc : {"idle", "read"}, order : Orders \cup {NoOrder},
                 to : Statuses \cup {"NONE"}, points : {0, Price}]

TypeOK ==
  /\ order \in [Orders -> OrderType]
  /\ otp \in [Orders -> {"none", "live", "dead", "deleted", "verified"}]
  /\ balance \in [Partners -> Nat]
  /\ stock \in Nat
  /\ moves \in [Orders -> [redeem : Nat, reverse : Nat]]
  /\ opening \in [Orders -> OpeningType]
  /\ confirm \in [Confirms -> ConfirmType]
  /\ operator \in [Transitions -> OperatorType]

(* An order is debited at most once and refunded at most once, and never    *)
(* refunded without a debit; what it still holds is what was debited and not *)
(* refunded.  (The C1 claim of confirm against double submits, and the M2    *)
(* claim of transitionOrder: a double cancel can never double-refund.)       *)
MoneyMovesOnce ==
  \A o \in Orders :
    /\ moves[o].reverse <= moves[o].redeem
    /\ moves[o].redeem <= 1
    /\ order[o].points = IF moves[o].redeem > moves[o].reverse THEN Price ELSE 0

(* Every confirmed order has consumed one unit of stock, for good (the STOCK *)
(* RULE: never restored), and the item is never oversold.                    *)
StockConsumed ==
  /\ stock >= 0
  /\ stock + Cardinality({o \in Orders : moves[o].redeem > 0}) = InitialStock

(* Points leave a wallet only for the order whose own password was entered,  *)
(* although one login may have passwords for several outlets' orders.        *)
ConfirmedByOwnOtp == \A o \in Orders : (moves[o].redeem > 0) <=> (otp[o] = "verified")

(* An order that was opened changes its status only along the edges of       *)
(* transitionOrder, by the confirmation, or by being superseded.             *)
EdgesRespected ==
  [][\A o \in Orders :
       order[o].status \notin {"NONE", order'[o].status} =>
         <<order[o].status, order'[o].status>> \in Edges \cup {<<"PENDING", "CONFIRMED">>}]_vars

(* An order that was cancelled, returned or failed holds no points, and one  *)
(* that goes to the partner does.                                            *)
RefundedIffStopped ==
  \A o \in Orders :
    /\ order[o].status \in RefundTargets \cup {"PENDING"} => order[o].points = 0
    /\ order[o].status \in {"CONFIRMED", "PROCESSING", "DISPATCHED", "DELIVERED"}
         => order[o].points > 0

(* What an order holds and whether it was charged, as PointsHold sees it.    *)
Hold == INSTANCE PointsHold WITH
  holder <- [o \in Orders |-> IF order[o].points > 0 THEN order[o].partner ELSE NoPartner],
  charged <- {o \in Orders : moves[o].redeem > 0}

(* The redemption of gifts implements PointsHold.                            *)
ImplementsHold == Hold!Spec

-----------------------------------------------------------------------------
(* Said by comments in the code, and not kept by it: README, "Divergences".  *)

(* A closed order is immutable to the vendor.                                *)
ClosedToVendors ==
  [][\A v \in Vendors :
       LET o == operator[v].order
       IN  (operator[v].pc = "read" /\ operator'[v].pc = "idle"
              /\ order[o].status \in VendorTerminal)
             => order'[o].status = order[o].status]_vars

(* A partner has at most one order awaiting confirmation.                    *)
OnePending ==
  \A o, q \in Orders :
    (o # q /\ order[o].status = "PENDING" /\ order[q].status = "PENDING")
      => order[o].partner # order[q].partner
=============================================================================
