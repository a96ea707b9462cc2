------------------------------- MODULE Wallet -------------------------------
(***************************************************************************)
(* The points wallet of a channel partner and its ledger                   *)
(* (src/api/src/wallet/wallet.service.ts, class WalletService).            *)
(*                                                                         *)
(* Every mutation of a wallet goes through applyMovement, in a Postgres    *)
(* transaction at the default level, READ COMMITTED.  A request therefore  *)
(* takes two steps: it READS the wallet row (the last committed values),   *)
(* and later WRITES it with an UPDATE that re-evaluates its own WHERE and  *)
(* its increments on the row as it is then, and commits.  Whatever happened*)
(* in between is seen by the UPDATE and not by the code that chose its     *)
(* amounts.  Nothing follows the UPDATE but inserts, so UPDATE and COMMIT  *)
(* are one step.                                                           *)
(*                                                                         *)
(* The passbook and ledger rows are kept as sums per kind of movement.     *)
(***************************************************************************)
EXTENDS Integers, FiniteSets, FiniteSetsExt

CONSTANTS
  Wallets,      \* wallet rows
  NoWallet,     \* the absence of one
  Lots,         \* identities of EARN ledger rows
  NoLot,        \* the absence of one
  Requests,     \* HTTP requests, one wallet operation each
  Sweepers,     \* concurrent runs of the expiry sweep
  Amounts,      \* the amounts a request may carry
  Ops,          \* the operations requests may perform
  MaxCrashes    \* bound on sweeps cut short

FloorOps == {"CLAWBACK"}                        \* unguarded, floored at a read
GuardedOps == {"REDEEM", "ADJUST_DEBIT"}        \* requireSufficientRedeemable
CreditOps == {"EARN", "ADJUST_CREDIT", "REVERSE"}
AllOps == FloorOps \cup GuardedOps \cup CreditOps
LedgerKinds == AllOps \cup {"EXPIRE"}
Undoes == [REVERSE |-> "REDEEM", CLAWBACK |-> "EARN"]   \* what each undoes

ASSUME AmountsAssumption == Amounts \subseteq Nat \ {0}
ASSUME OpsAssumption == Ops \subseteq AllOps
ASSUME CrashAssumption == MaxCrashes \in Nat
ASSUME NullAssumption == NoWallet \notin Wallets /\ NoLot \notin Lots
ASSUME LotsAssumption == IsFiniteSet(Lots)

VARIABLES
  wallet,     \* the aggregate columns of each wallet row
  ledger,     \* per wallet and kind of movement, the sum of the ledger points
  shortfall,  \* per wallet, the points clawbacks recorded as not recovered
  lots,       \* the EARN rows that may expire
  req,        \* the requests in progress
  sweep,      \* the sweeps in progress
  crashes

vars == <<wallet, ledger, shortfall, lots, req, sweep, crashes>>

MinOf(a, b) == IF a < b THEN a ELSE b

-----------------------------------------------------------------------------
EmptyWallet == [redeemable |-> 0, earned |-> 0, redeemed |-> 0, expired |-> 0]
IdleRequest == [pc |-> "idle", op |-> "NONE", wallet |-> NoWallet,
                amount |-> 0, before |-> 0]
IdleSweep == [todo |-> {}, lot |-> NoLot, before |-> 0]

Init ==
  /\ wallet = [w \in Wallets |-> EmptyWallet]
  /\ ledger = [w \in Wallets |-> [k \in LedgerKinds |-> 0]]
  /\ shortfall = [w \in Wallets |-> 0]
  /\ lots = [l \in Lots |-> [state |-> "none", wallet |-> NoWallet, points |-> 0]]
  /\ req = [r \in Requests |-> IdleRequest]
  /\ sweep = [s \in Sweepers |-> IdleSweep]
  /\ crashes = 0

(* Bug #1 of the old adjust(): a debit also took back the earned counter.   *)
MovementUnearnsDebit(w, kind, points, delta) ==
  /\ wallet' = [wallet EXCEPT ![w] =
       [redeemable |-> @.redeemable + delta,
        earned     |-> @.earned + (IF kind \in {"REVERSE", "REDEEM", "EXPIRE"} THEN 0 ELSE delta),
        redeemed   |-> @.redeemed - (IF kind = "REDEEM" THEN delta ELSE 0),
        expired    |-> @.expired - (IF kind = "EXPIRE" THEN delta ELSE 0)]]
  /\ ledger' = [ledger EXCEPT ![w][kind] = @ + points]

(* The single write path.  The aggregates move by increments on the current *)
(* row: redeemable by delta, and the counter the kind of movement feeds.    *)
(* One ledger row of the given points is appended.                          *)
applyMovement(w, kind, points, delta) ==
  /\ wallet' = [wallet EXCEPT ![w] =
       [redeemable |-> @.redeemable + delta,
        earned     |-> @.earned + (IF kind \in CreditOps \ {"REVERSE"} THEN delta ELSE 0),
        redeemed   |-> @.redeemed - (IF kind = "REDEEM" THEN delta ELSE 0),
        expired    |-> @.expired - (IF kind = "EXPIRE" THEN delta ELSE 0)]]
  /\ ledger' = [ledger EXCEPT ![w][kind] = @ + points]

-----------------------------------------------------------------------------
(* The read of a request: the wallet row is loaded.  debitRedeem and adjust *)
(* reject at once a debit the balance they read does not cover.             *)
LoadWallet(r, op, w, amount) ==
  LET before == wallet[w].redeemable
      refused == op \in GuardedOps /\ before < amount
  IN  /\ req' = [req EXCEPT ![r] =
           [pc |-> IF refused THEN "rejected" ELSE "read",
            op |-> op, wallet |-> w, amount |-> amount, before |-> before]]
      /\ UNCHANGED <<wallet, ledger, shortfall, lots, sweep, crashes>>

(* A new request ...                                                        *)
ReadWallet(r, op, w, amount) ==
  /\ req[r].pc = "idle"
  /\ op \in Ops \ DOMAIN Undoes
  /\ LoadWallet(r, op, w, amount)

(* ... or the undoing of one that went through: the refund of a redemption  *)
(* or the clawback of an award, by the same amount.  The callers of reverse *)
(* and clawbackAward claim the order or the reversal first, so each is      *)
(* undone once.                                                             *)
ReadToUndo(r, op) ==
  /\ op \in Ops \cap DOMAIN Undoes
  /\ req[r].pc = "done" /\ req[r].op = Undoes[op]
  /\ LoadWallet(r, op, req[r].wallet, req[r].amount)

Finish(r, how) == req' = [req EXCEPT ![r].pc = how]

(* creditEarn: the EARN row is also a lot that may come due.                *)
creditEarn(r) ==
  /\ req[r].pc = "read" /\ req[r].op = "EARN"
  /\ \E l \in Lots :
       /\ lots[l].state = "none"
       /\ lots' = [lots EXCEPT ![l] = [state |-> "live", wallet |-> req[r].wallet,
                                       points |-> req[r].amount]]
  /\ applyMovement(req[r].wallet, "EARN", req[r].amount, req[r].amount)
  /\ Finish(r, "done")
  /\ UNCHANGED <<shortfall, sweep, crashes>>

(* reverse, and the credit direction of adjust.                             *)
credit(r) ==
  /\ req[r].pc = "read" /\ req[r].op \in {"REVERSE", "ADJUST_CREDIT"}
  /\ applyMovement(req[r].wallet, req[r].op, req[r].amount, req[r].amount)
  /\ Finish(r, "done")
  /\ UNCHANGED <<shortfall, lots, sweep, crashes>>

(* debitRedeem, and the debit direction of adjust: the UPDATE matches only a *)
(* row whose balance still covers the amount; no match rolls back.           *)
CoveredWhenRead(w, amount) == TRUE   \* mutant: no WHERE on the UPDATE

Covered(w, amount) == wallet[w].redeemable >= amount

guardedDebit(r) ==
  /\ req[r].pc = "read" /\ req[r].op \in GuardedOps
  /\ Covered(req[r].wallet, req[r].amount)
  /\ applyMovement(req[r].wallet, req[r].op, -req[r].amount, -req[r].amount)
  /\ Finish(r, "done")
  /\ UNCHANGED <<shortfall, lots, sweep, crashes>>

guardedDebitRefused(r) ==
  /\ req[r].pc = "read" /\ req[r].op \in GuardedOps
  /\ ~Covered(req[r].wallet, req[r].amount)
  /\ Finish(r, "rejected")
  /\ UNCHANGED <<wallet, ledger, shortfall, lots, sweep, crashes>>

(* The amount a floored debit takes: chosen from the balance that was READ. *)
FlooredDecrement(amount, before) == MinOf(amount, before)

(* clawbackAward: the ledger row carries the full amount, the balance loses  *)
(* the floored one, and the difference is recorded as a shortfall.           *)
clawbackAward(r) ==
  LET w == req[r].wallet
      taken == FlooredDecrement(req[r].amount, req[r].before)
  IN  /\ req[r].pc = "read" /\ req[r].op = "CLAWBACK"
      /\ applyMovement(w, "CLAWBACK", -req[r].amount, -taken)
      /\ shortfall' = [shortfall EXCEPT ![w] = @ + (req[r].amount - taken)]
      /\ Finish(r, "done")
      /\ UNCHANGED <<lots, sweep, crashes>>

-----------------------------------------------------------------------------
(* Time: the expiresAt of a lot passes.                                     *)
LotComesDue(l) ==
  /\ lots[l].state = "live"
  /\ lots' = [lots EXCEPT ![l].state = "due"]
  /\ UNCHANGED <<wallet, ledger, shortfall, req, sweep, crashes>>

(* expireDuePoints finds the due lots outside any transaction ...           *)
expireDuePoints(s) ==
  LET due == {l \in Lots : lots[l].state = "due"}
  IN  /\ sweep[s].todo = {} /\ sweep[s].lot = NoLot
      /\ due # {}
      /\ sweep' = [sweep EXCEPT ![s].todo = due]
      /\ UNCHANGED <<wallet, ledger, shortfall, lots, req, crashes>>

(* ... and opens one transaction per lot.  Its first statement claims the   *)
(* lot (isExpired false -> true, guarded) and holds that row's lock until   *)
(* the transaction ends; then it reads the wallet.                          *)
Unlocked(l) == \A s \in Sweepers : sweep[s].lot # l

ClaimableAgain(l) ==                 \* mutant: the claim has no isExpired guard
  lots[l].state \in {"due", "expired"}

Claimable(l) == lots[l].state = "due"

ClaimLot(s, l) ==
  /\ sweep[s].lot = NoLot /\ l \in sweep[s].todo
  /\ Unlocked(l)
  /\ Claimable(l)
  /\ sweep' = [sweep EXCEPT ![s] = [todo |-> @.todo \ {l}, lot |-> l,
                 before |-> wallet[lots[l].wallet].redeemable]]
  /\ UNCHANGED <<wallet, ledger, shortfall, lots, req, crashes>>

(* The claim matches no row: another sweep had the lot.                     *)
SkipLot(s, l) ==
  /\ sweep[s].lot = NoLot /\ l \in sweep[s].todo
  /\ Unlocked(l)
  /\ ~Claimable(l)
  /\ sweep' = [sweep EXCEPT ![s].todo = @ \ {l}]
  /\ UNCHANGED <<wallet, ledger, shortfall, lots, req, crashes>>

ExpireLotIfMoved(s) ==               \* mutant: an empty wallet undoes the claim
  LET l == sweep[s].lot
      expirable == FlooredDecrement(lots[l].points, sweep[s].before)
  IN  /\ l # NoLot
      /\ IF expirable > 0
           THEN /\ applyMovement(lots[l].wallet, "EXPIRE", -expirable, -expirable)
                /\ lots' = [lots EXCEPT ![l].state = "expired"]
           ELSE UNCHANGED <<wallet, ledger, lots>>
      /\ sweep' = [sweep EXCEPT ![s] = [todo |-> @.todo, lot |-> NoLot, before |-> 0]]
      /\ UNCHANGED <<shortfall, req, crashes>>

(* The rest of the lot's transaction: expire what the balance that was read *)
(* can still cover (no movement when that is nothing), and commit.          *)
ExpireLot(s) ==
  LET l == sweep[s].lot
      expirable == FlooredDecrement(lots[l].points, sweep[s].before)
  IN  /\ l # NoLot
      /\ IF expirable > 0
           THEN applyMovement(lots[l].wallet, "EXPIRE", -expirable, -expirable)
           ELSE UNCHANGED <<wallet, ledger>>
      /\ lots' = [lots EXCEPT ![l].state = "expired"]
      /\ sweep' = [sweep EXCEPT ![s] = [todo |-> @.todo, lot |-> NoLot, before |-> 0]]
      /\ UNCHANGED <<shortfall, req, crashes>>

(* The process dies in a sweep: the open transaction rolls back and the     *)
(* remaining lots are forgotten.                                            *)
CrashSweep(s) ==
  /\ crashes < MaxCrashes
  /\ sweep[s] # IdleSweep
  /\ sweep' = [sweep EXCEPT ![s] = IdleSweep]
  /\ crashes' = crashes + 1
  /\ UNCHANGED <<wallet, ledger, shortfall, lots, req>>

-----------------------------------------------------------------------------
Request(r) ==
  \/ \E op \in Ops, w \in Wallets, amount \in Amounts : ReadWallet(r, op, w, amount)
  \/ \E op \in DOMAIN Undoes : ReadToUndo(r, op)
  \/ creditEarn(r)
  \/ credit(r)
  \/ guardedDebit(r)
  \/ guardedDebitRefused(r)
  \/ clawbackAward(r)

SweepLot(s) == \E l \in Lots : ClaimLot(s, l) \/ SkipLot(s, l)

Sweep(s) == expireDuePoints(s) \/ SweepLot(s) \/ ExpireLot(s)

Next ==
  \/ \E r \in Requests : Request(r)
  \/ \E l \in Lots : LotComesDue(l)
  \/ \E s \in Sweepers : Sweep(s) \/ CrashSweep(s)

Spec == Init /\ [][Next]_vars

(* The sweep is an endpoint called by hand or by a scheduled job: someone    *)
(* keeps calling it, and a sweep that started and is not cut short goes on.  *)
FairSpec == Spec /\ \A s \in Sweepers : WF_vars(Sweep(s))

-----------------------------------------------------------------------------
(* Types of all the state: the lifetime counters never go below zero, and   *)
(* neither does a shortfall.                                                *)
WalletType == [redeemable : Int, earned : Nat, redeemed : Nat, expired : Nat]
LotType == [state : {"none", "live", "due", "expired"},
            wallet : Wallets \cup {NoWallet}, points : Nat]
RequestType == [pc : {"idle", "read", "done", "rejected"}, op : Ops \cup {"NONE"},
                wallet : Wallets \cup {NoWallet}, amount : Nat, before : Int]
SweepType == [todo : SUBSET Lots, lot : Lots \cup {NoLot}, before : Int]

TypeOK ==
  /\ wallet \in [Wallets -> WalletType]
  /\ ledger \in [Wallets -> [LedgerKinds -> Int]]
  /\ shortfall \in [Wallets -> Nat]
  /\ lots \in [Lots -> LotType]
  /\ req \in [Requests -> RequestType]
  /\ sweep \in [Sweepers -> SweepType]
  /\ crashes \in 0..MaxCrashes

(* The books balance: whatever the interleaving, each wallet's spendable     *)
(* balance is the sum of its ledger rows plus the shortfalls its clawbacks   *)
(* recorded, and its counters are the sums of the rows that feed them.       *)
(* (The canonical wallet invariant: aggregates and ledger never desync.)     *)
BooksBalance ==
  \A w \in Wallets :
    LET sum == ledger[w]
    IN  /\ wallet[w].redeemable =
             sum["EARN"] + sum["ADJUST_CREDIT"] + sum["REVERSE"] + sum["REDEEM"]
             + sum["ADJUST_DEBIT"] + sum["CLAWBACK"] + sum["EXPIRE"] + shortfall[w]
        /\ wallet[w].earned = sum["EARN"] + sum["ADJUST_CREDIT"]
        /\ wallet[w].redeemed = -sum["REDEEM"]
        /\ wallet[w].expired = -sum["EXPIRE"]

(* The most the floored movements, expiry and clawback, can have taken.      *)
FlooredTotal(w) == wallet[w].expired - ledger[w]["CLAWBACK"]

(* A wallet is overdrawn by at most what expiry and clawback took from it:   *)
(* the guarded debits of debitRedeem and adjust never add to an overdraft,   *)
(* even when they race one another on a balance both found sufficient.       *)
OverdraftBounded ==
  \A w \in Wallets : wallet[w].redeemable + FlooredTotal(w) >= 0

(* redeemablePoints never goes negative.                                     *)
NonNegative == \A w \in Wallets : wallet[w].redeemable >= 0

(* The lots that a wallet lost to expiry, and what each had granted.         *)
SumOver(f, S) == MapThenSumSet(LAMBDA l : f[l], S)
Points == [l \in Lots |-> lots[l].points]
Gone(w) == {l \in Lots : lots[l].state = "expired" /\ lots[l].wallet = w}

(* A lot expires once: overlapping, repeated and interrupted sweeps take, in *)
(* all, no more than the lots they marked expired had granted.               *)
ExpiredOnce == \A w \in Wallets : wallet[w].expired <= SumOver(Points, Gone(w))

(* A lot that came due is expired in the end, whatever sweeps were cut short *)
(* or beaten to it.                                                          *)
DueLotsExpire == \A l \in Lots : lots[l].state = "due" ~> lots[l].state = "expired"

-----------------------------------------------------------------------------
(* Said by comments in the code, and not kept by it: README, "Divergences".  *)

(* redeemedPoints is the total consumed by redemptions net of reversals, as  *)
(* the comment on the canonical wallet invariant says.                       *)
RedeemedNetOfReversals ==
  \A w \in Wallets :
    wallet[w].redeemed = -(ledger[w]["REDEEM"] + ledger[w]["REVERSE"])

(* A clawback only ever lowers the spendable balance.                        *)
ClawbackNeverCredits ==
  [][\A w \in Wallets : ledger'[w]["CLAWBACK"] # ledger[w]["CLAWBACK"]
                           => wallet'[w].redeemable <= wallet[w].redeemable]_vars
=============================================================================
