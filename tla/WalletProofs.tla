---------------------------- MODULE WalletProofs ----------------------------
(* Proofs about Wallet, for every number of wallets, lots, requests and     *)
(* sweeps and every set of amounts.                                         *)
EXTENDS Wallet, FiniteSetTheorems, TLAPS

(* Every movement keeps the types, when its amounts are integers of the     *)
(* sign its kind calls for.                                                 *)
SignOk(kind, delta) == /\ kind \in CreditOps \ {"REVERSE"} => delta >= 0
                       /\ kind \in {"REDEEM", "EXPIRE"} => delta <= 0

LEMMA MovementType ==
  ASSUME TypeOK, NEW w \in Wallets, NEW kind \in LedgerKinds,
         NEW points \in Int, NEW delta \in Int, SignOk(kind, delta),
         applyMovement(w, kind, points, delta)
  PROVE  /\ wallet' \in [Wallets -> WalletType]
         /\ ledger' \in [Wallets -> [LedgerKinds -> Int]]
  BY DEF TypeOK, applyMovement, WalletType, SignOk, CreditOps

(* A request that read its wallet is a request on a wallet, for a positive  *)
(* amount, of one of the operations.                                        *)
ReadOk == \A r \in Requests :
            req[r].pc \in {"read", "done"} => /\ req[r].wallet \in Wallets
                                              /\ req[r].amount \in Nat \ {0}
                                              /\ req[r].op \in Ops

(* A lot that exists, and a lot a sweep holds, belongs to a wallet.         *)
LotsOk == /\ \A l \in Lots : lots[l].state # "none" => lots[l].wallet \in Wallets
          /\ \A s \in Sweepers : /\ \A l \in sweep[s].todo : lots[l].state # "none"
                                 /\ sweep[s].lot # NoLot => lots[sweep[s].lot].state # "none"

TInv == TypeOK /\ ReadOk /\ LotsOk

USE AmountsAssumption, OpsAssumption, CrashAssumption, NullAssumption

LEMMA TInvInit == Init => TInv
  BY DEF Init, TInv, TypeOK, ReadOk, LotsOk, EmptyWallet, IdleRequest, IdleSweep,
         WalletType, LotType, RequestType, SweepType

(* A request that ends keeps its type.                                      *)
LEMMA FinishType ==
  ASSUME TypeOK, NEW r \in Requests, NEW how \in {"done", "rejected"}, Finish(r, how)
  PROVE  req' \in [Requests -> RequestType]
  BY DEF TypeOK, Finish, RequestType

LEMMA TInvNext == TInv /\ [Next]_vars => TInv'
<1> SUFFICES ASSUME TInv, [Next]_vars PROVE TInv'
  OBVIOUS
<1> USE DEF TInv
<1>1. ASSUME NEW r \in Requests, NEW op \in Ops, NEW w \in Wallets,
             NEW amount \in Nat \ {0}, LoadWallet(r, op, w, amount)
      PROVE  TInv'
  <2>1. wallet[w].redeemable \in Int
    BY DEF TypeOK, WalletType
  <2>2. TypeOK'
    BY <1>1, <2>1 DEF LoadWallet, TypeOK, RequestType
  <2>3. ReadOk'
    BY <1>1 DEF LoadWallet, TypeOK, RequestType, ReadOk
  <2>4. LotsOk'
    BY <1>1 DEF LoadWallet, LotsOk
  <2> QED BY <2>2, <2>3, <2>4
<1>2. ASSUME NEW r \in Requests, NEW op \in Ops, NEW w \in Wallets,
             NEW amount \in Amounts, ReadWallet(r, op, w, amount)
      PROVE  TInv'
  BY <1>1, <1>2 DEF ReadWallet
<1>3. ASSUME NEW r \in Requests, NEW op \in DOMAIN Undoes, ReadToUndo(r, op)
      PROVE  TInv'
  BY <1>1, <1>3 DEF ReadToUndo, ReadOk
<1>4. ASSUME NEW r \in Requests, creditEarn(r) PROVE TInv'
  <2>1. req[r].wallet \in Wallets /\ req[r].amount \in Nat \ {0} /\ "EARN" \in LedgerKinds
        /\ SignOk("EARN", req[r].amount)
    BY <1>4 DEF creditEarn, ReadOk, LedgerKinds, AllOps, CreditOps, SignOk
  <2>2. /\ wallet' \in [Wallets -> WalletType]
        /\ ledger' \in [Wallets -> [LedgerKinds -> Int]]
    BY <1>4, <2>1, MovementType DEF creditEarn
  <2>3. PICK l \in Lots :
          lots' = [lots EXCEPT ![l] = [state |-> "live", wallet |-> req[r].wallet,
                                       points |-> req[r].amount]]
    BY <1>4 DEF creditEarn
  <2>4. TypeOK'
    <3>1. lots' \in [Lots -> LotType]
      BY <2>1, <2>3 DEF TypeOK, LotType
    <3>2. req' \in [Requests -> RequestType]
      BY <1>4, FinishType DEF creditEarn
    <3> QED BY <1>4, <2>2, <3>1, <3>2 DEF creditEarn, TypeOK
  <2>5. ReadOk'
    BY <1>4 DEF creditEarn, Finish, TypeOK, RequestType, ReadOk
  <2>6. LotsOk'
    BY <1>4, <2>1, <2>3 DEF creditEarn, LotsOk, TypeOK, LotType, SweepType
  <2> QED BY <2>4, <2>5, <2>6
<1>5. ASSUME NEW r \in Requests, credit(r) PROVE TInv'
  <2>1. req[r].wallet \in Wallets /\ req[r].amount \in Int /\ req[r].op \in LedgerKinds
        /\ SignOk(req[r].op, req[r].amount)
    BY <1>5 DEF credit, ReadOk, LedgerKinds, AllOps, CreditOps, SignOk
  <2>2. /\ wallet' \in [Wallets -> WalletType]
        /\ ledger' \in [Wallets -> [LedgerKinds -> Int]]
    BY <1>5, <2>1, MovementType DEF credit
  <2>3. TypeOK'
    BY <1>5, <2>2 DEF credit, Finish, TypeOK, RequestType
  <2>4. ReadOk' /\ LotsOk'
    BY <1>5 DEF credit, Finish, TypeOK, RequestType, ReadOk, LotsOk
  <2> QED BY <2>3, <2>4
<1>6. ASSUME NEW r \in Requests, guardedDebit(r) PROVE TInv'
  <2>1. req[r].wallet \in Wallets /\ -req[r].amount \in Int /\ req[r].op \in LedgerKinds
        /\ SignOk(req[r].op, -req[r].amount)
    BY <1>6 DEF guardedDebit, ReadOk, LedgerKinds, AllOps, GuardedOps, CreditOps, SignOk
  <2>2. /\ wallet' \in [Wallets -> WalletType]
        /\ ledger' \in [Wallets -> [LedgerKinds -> Int]]
    BY <1>6, <2>1, MovementType DEF guardedDebit
  <2>3. TypeOK'
    BY <1>6, <2>2 DEF guardedDebit, Finish, TypeOK, RequestType
  <2>4. ReadOk' /\ LotsOk'
    BY <1>6 DEF guardedDebit, Finish, TypeOK, RequestType, ReadOk, LotsOk
  <2> QED BY <2>3, <2>4
<1>7. ASSUME NEW r \in Requests, guardedDebitRefused(r) PROVE TInv'
  BY <1>7 DEF guardedDebitRefused, Finish, TypeOK, RequestType, ReadOk, LotsOk
<1>8. ASSUME NEW r \in Requests, clawbackAward(r) PROVE TInv'
  <2> DEFINE w == req[r].wallet
             taken == FlooredDecrement(req[r].amount, req[r].before)
  <2>1. w \in Wallets /\ req[r].amount \in Nat /\ "CLAWBACK" \in LedgerKinds
    BY <1>8 DEF clawbackAward, ReadOk, LedgerKinds, AllOps, FloorOps
  <2>2. taken \in Int /\ -taken \in Int /\ -req[r].amount \in Int
        /\ req[r].amount - taken \in Nat /\ SignOk("CLAWBACK", -taken)
    BY <2>1 DEF FlooredDecrement, MinOf, TypeOK, RequestType, SignOk, CreditOps
  <2>3. applyMovement(w, "CLAWBACK", -req[r].amount, -taken)
        /\ shortfall' = [shortfall EXCEPT ![w] = @ + (req[r].amount - taken)]
    BY <1>8 DEF clawbackAward
  <2> HIDE DEF taken
  <2>4. /\ wallet' \in [Wallets -> WalletType]
        /\ ledger' \in [Wallets -> [LedgerKinds -> Int]]
    BY <2>1, <2>2, <2>3, MovementType
  <2>5. TypeOK'
    <3>1. shortfall' \in [Wallets -> Nat]
      BY <2>1, <2>2, <2>3 DEF TypeOK
    <3>2. req' \in [Requests -> RequestType]
      BY <1>8, FinishType DEF clawbackAward
    <3> QED BY <1>8, <2>4, <3>1, <3>2 DEF clawbackAward, TypeOK
  <2>6. ReadOk' /\ LotsOk'
    BY <1>8 DEF clawbackAward, Finish, TypeOK, RequestType, ReadOk, LotsOk
  <2> QED BY <2>5, <2>6
<1>9. ASSUME NEW l \in Lots, LotComesDue(l) PROVE TInv'
  BY <1>9 DEF LotComesDue, TypeOK, LotType, ReadOk, LotsOk
<1>10. ASSUME NEW s \in Sweepers, expireDuePoints(s) PROVE TInv'
  BY <1>10 DEF expireDuePoints, TypeOK, SweepType, ReadOk, LotsOk
<1>11. ASSUME NEW s \in Sweepers, NEW l \in Lots, ClaimLot(s, l) PROVE TInv'
  <2>1. lots[l].wallet \in Wallets /\ lots[l].state # "none"
    BY <1>11 DEF ClaimLot, LotsOk, Claimable
  <2>2. wallet[lots[l].wallet].redeemable \in Int
    BY <2>1 DEF TypeOK, WalletType
  <2>3. TypeOK'
    BY <1>11, <2>2 DEF ClaimLot, TypeOK, SweepType
  <2>4. ReadOk' /\ LotsOk'
    BY <1>11, <2>1 DEF ClaimLot, TypeOK, SweepType, ReadOk, LotsOk
  <2> QED BY <2>3, <2>4
<1>12. ASSUME NEW s \in Sweepers, NEW l \in Lots, SkipLot(s, l) PROVE TInv'
  BY <1>12 DEF SkipLot, TypeOK, SweepType, ReadOk, LotsOk
<1>13. ASSUME NEW s \in Sweepers, ExpireLot(s) PROVE TInv'
  <2> DEFINE l == sweep[s].lot
             expirable == FlooredDecrement(lots[l].points, sweep[s].before)
  <2>1. l \in Lots /\ lots[l].wallet \in Wallets /\ "EXPIRE" \in LedgerKinds
    BY <1>13 DEF ExpireLot, TypeOK, SweepType, LotsOk, LedgerKinds
  <2>2. expirable \in Int /\ -expirable \in Int
    BY <2>1 DEF FlooredDecrement, MinOf, TypeOK, SweepType, LotType
  <2>3. \/ applyMovement(lots[l].wallet, "EXPIRE", -expirable, -expirable) /\ expirable > 0
        \/ UNCHANGED <<wallet, ledger>>
    BY <1>13 DEF ExpireLot
  <2>4. /\ lots' = [lots EXCEPT ![l].state = "expired"]
        /\ sweep' = [sweep EXCEPT ![s] = [todo |-> @.todo, lot |-> NoLot, before |-> 0]]
        /\ UNCHANGED <<shortfall, req, crashes>>
    BY <1>13 DEF ExpireLot
  <2> HIDE DEF expirable, l
  <2>5. /\ wallet' \in [Wallets -> WalletType]
        /\ ledger' \in [Wallets -> [LedgerKinds -> Int]]
    <3>1. expirable > 0 => SignOk("EXPIRE", -expirable)
      BY <2>2 DEF SignOk, CreditOps
    <3> QED BY <2>1, <2>2, <2>3, <3>1, MovementType DEF TypeOK
  <2>6. TypeOK'
    <3>1. lots' \in [Lots -> LotType]
      BY <2>1, <2>4 DEF TypeOK, LotType
    <3>2. sweep' \in [Sweepers -> SweepType]
      BY <2>4 DEF TypeOK, SweepType
    <3> QED BY <2>4, <2>5, <3>1, <3>2 DEF TypeOK
  <2>7. ReadOk' /\ LotsOk'
    BY <2>1, <2>4 DEF TypeOK, LotType, SweepType, ReadOk, LotsOk, l
  <2> QED BY <2>6, <2>7
<1>14. ASSUME NEW s \in Sweepers, CrashSweep(s) PROVE TInv'
  BY <1>14 DEF CrashSweep, TypeOK, IdleSweep, SweepType, ReadOk, LotsOk
<1>15. CASE UNCHANGED vars
  BY <1>15 DEF vars, TypeOK, ReadOk, LotsOk
<1> QED
  BY <1>2, <1>3, <1>4, <1>5, <1>6, <1>7, <1>8, <1>9, <1>10, <1>11, <1>12, <1>13,
     <1>14, <1>15 DEF Next, Request, Sweep, SweepLot

(* Whatever races, the aggregates are integers, and no shortfall and no      *)
(* amount that a request has read is negative.                               *)
THEOREM WalletTypeCorrect == Spec => []TypeOK
<1>1. TInv => TypeOK
  BY DEF TInv
<1> QED BY <1>1, TInvInit, TInvNext, PTL DEF Spec

-----------------------------------------------------------------------------
(* The overdraft bound needs to know that what expiry and clawback took     *)
(* only grows: a guarded debit leaves a balance of at least zero, which is  *)
(* enough only if the bound is not negative.                                *)
FloorsGrow ==
  \A w \in Wallets : wallet[w].expired >= 0 /\ ledger[w]["CLAWBACK"] <= 0

OInv == FloorsGrow /\ OverdraftBounded

(* What one movement on one wallet must satisfy to keep the bound.          *)
LEMMA MovementKeepsOInv ==
  ASSUME TypeOK, OInv, NEW w \in Wallets, NEW kind \in LedgerKinds,
         NEW points \in Int, NEW delta \in Int,
         applyMovement(w, kind, points, delta),
         \/ delta >= 0 /\ kind \in CreditOps
         \/ wallet[w].redeemable + delta >= 0 /\ kind \in GuardedOps
         \/ kind = "CLAWBACK" /\ points <= 0 /\ points <= delta
         \/ kind = "EXPIRE" /\ delta <= 0
  PROVE  OInv'
<1> DEFINE wal == wallet[w]
           claw == ledger[w]["CLAWBACK"]
<1>1. /\ wal \in WalletType /\ wallet \in [Wallets -> WalletType]
      /\ claw \in Int /\ ledger \in [Wallets -> [LedgerKinds -> Int]]
      /\ "CLAWBACK" \in LedgerKinds
  <2>1. "CLAWBACK" \in LedgerKinds
    BY DEF LedgerKinds, AllOps, FloorOps
  <2>2. wallet \in [Wallets -> WalletType] /\ ledger \in [Wallets -> [LedgerKinds -> Int]]
    BY DEF TypeOK
  <2>3. ledger[w] \in [LedgerKinds -> Int]
    BY <2>2
  <2> QED BY <2>1, <2>2, <2>3
<1>2. /\ wallet'[w].redeemable = wal.redeemable + delta
      /\ wallet'[w].expired = wal.expired - (IF kind = "EXPIRE" THEN delta ELSE 0)
      /\ ledger'[w]["CLAWBACK"] = claw + (IF kind = "CLAWBACK" THEN points ELSE 0)
  BY <1>1 DEF applyMovement, WalletType
<1>3. ASSUME NEW v \in Wallets, v # w
      PROVE  wallet'[v] = wallet[v] /\ ledger'[v] = ledger[v]
  BY <1>1, <1>3 DEF applyMovement
<1>4. wal.redeemable \in Int /\ wal.expired \in Int
  BY <1>1 DEF WalletType
<1>5. /\ wal.expired >= 0 /\ claw <= 0
      /\ wal.redeemable + (wal.expired - claw) >= 0
  BY DEF OInv, FloorsGrow, OverdraftBounded, FlooredTotal
<1>6. /\ wallet'[w].expired >= 0 /\ ledger'[w]["CLAWBACK"] <= 0
      /\ wallet'[w].redeemable + (wallet'[w].expired - ledger'[w]["CLAWBACK"]) >= 0
  <2> HIDE DEF wal, claw
  <2>1. CASE delta >= 0 /\ kind \in CreditOps
    BY <2>1, <1>1, <1>2, <1>4, <1>5 DEF CreditOps
  <2>2. CASE wal.redeemable + delta >= 0 /\ kind \in GuardedOps
    BY <2>2, <1>1, <1>2, <1>4, <1>5 DEF GuardedOps
  <2>3. CASE kind = "CLAWBACK" /\ points <= 0 /\ points <= delta
    BY <2>3, <1>1, <1>2, <1>4, <1>5
  <2>4. CASE kind = "EXPIRE" /\ delta <= 0
    BY <2>4, <1>1, <1>2, <1>4, <1>5
  <2> QED BY <2>1, <2>2, <2>3, <2>4 DEF wal
<1> QED BY <1>3, <1>6 DEF OInv, FloorsGrow, OverdraftBounded, FlooredTotal

LEMMA OInvInit == Init => OInv
  BY DEF Init, OInv, FloorsGrow, OverdraftBounded, FlooredTotal, EmptyWallet,
         LedgerKinds, AllOps, FloorOps

LEMMA OInvNext == TInv /\ OInv /\ [Next]_vars => OInv'
<1> SUFFICES ASSUME TInv, OInv, [Next]_vars PROVE OInv'
  OBVIOUS
<1> USE DEF TInv
<1>1. ASSUME UNCHANGED <<wallet, ledger>> PROVE OInv'
  BY <1>1 DEF OInv, FloorsGrow, OverdraftBounded, FlooredTotal
<1>2. ASSUME NEW r \in Requests, creditEarn(r) PROVE OInv'
  <2>1. /\ req[r].wallet \in Wallets /\ req[r].amount \in Nat
        /\ "EARN" \in LedgerKinds /\ "EARN" \in CreditOps
    BY <1>2 DEF creditEarn, ReadOk, LedgerKinds, AllOps, CreditOps
  <2> QED BY <1>2, <2>1, MovementKeepsOInv DEF creditEarn
<1>3. ASSUME NEW r \in Requests, credit(r) PROVE OInv'
  <2>1. /\ req[r].wallet \in Wallets /\ req[r].amount \in Nat
        /\ req[r].op \in LedgerKinds /\ req[r].op \in CreditOps
    BY <1>3 DEF credit, ReadOk, LedgerKinds, AllOps, CreditOps
  <2> QED BY <1>3, <2>1, MovementKeepsOInv DEF credit
<1>4. ASSUME NEW r \in Requests, guardedDebit(r) PROVE OInv'
  <2>1. /\ req[r].wallet \in Wallets /\ req[r].amount \in Nat
        /\ req[r].op \in LedgerKinds /\ req[r].op \in GuardedOps
    BY <1>4 DEF guardedDebit, ReadOk, LedgerKinds, AllOps
  <2>2. wallet[req[r].wallet].redeemable \in Int
    BY <2>1 DEF TypeOK, WalletType
  <2>3. -req[r].amount \in Int /\ wallet[req[r].wallet].redeemable + (-req[r].amount) >= 0
    BY <1>4, <2>1, <2>2 DEF guardedDebit, Covered
  <2> QED BY <1>4, <2>1, <2>3, MovementKeepsOInv DEF guardedDebit
<1>5. ASSUME NEW r \in Requests, clawbackAward(r) PROVE OInv'
  <2> DEFINE taken == FlooredDecrement(req[r].amount, req[r].before)
  <2>1. /\ req[r].wallet \in Wallets /\ req[r].amount \in Nat
        /\ "CLAWBACK" \in LedgerKinds
    BY <1>5 DEF clawbackAward, ReadOk, LedgerKinds, AllOps, FloorOps
  <2>2. /\ -taken \in Int /\ -req[r].amount \in Int
        /\ -req[r].amount <= 0 /\ -req[r].amount <= -taken
    BY <2>1 DEF FlooredDecrement, MinOf, TypeOK, RequestType
  <2>3. applyMovement(req[r].wallet, "CLAWBACK", -req[r].amount, -taken)
    BY <1>5 DEF clawbackAward
  <2> HIDE DEF taken
  <2> QED BY <2>1, <2>2, <2>3, MovementKeepsOInv
<1>6. ASSUME NEW s \in Sweepers, ExpireLot(s) PROVE OInv'
  <2> DEFINE l == sweep[s].lot
             expirable == FlooredDecrement(lots[l].points, sweep[s].before)
  <2>1. l \in Lots /\ lots[l].wallet \in Wallets /\ "EXPIRE" \in LedgerKinds
    BY <1>6 DEF ExpireLot, TypeOK, SweepType, LotsOk, LedgerKinds
  <2>2. expirable \in Int /\ -expirable \in Int /\ (expirable > 0 => -expirable <= 0)
    BY <2>1 DEF FlooredDecrement, MinOf, TypeOK, SweepType, LotType
  <2>3. CASE expirable > 0
    <3>1. applyMovement(lots[l].wallet, "EXPIRE", -expirable, -expirable)
      BY <1>6, <2>3 DEF ExpireLot
    <3> HIDE DEF expirable
    <3> QED BY <2>1, <2>2, <2>3, <3>1, MovementKeepsOInv
  <2>4. CASE ~(expirable > 0)
    BY <1>1, <1>6, <2>4 DEF ExpireLot
  <2> QED BY <2>3, <2>4
<1>7. CASE UNCHANGED vars
  BY <1>1, <1>7 DEF vars
<1> QED
  BY <1>1, <1>2, <1>3, <1>4, <1>5, <1>6, <1>7
     DEF Next, Request, Sweep, SweepLot, ReadWallet, ReadToUndo, LoadWallet,
         guardedDebitRefused, LotComesDue, expireDuePoints, ClaimLot, SkipLot, CrashSweep

(* No interleaving of debits, credits, sweeps and clawbacks overdraws a     *)
(* wallet by more than expiry and clawback took from it.                    *)
THEOREM OverdraftIsBounded == Spec => []OverdraftBounded
<1>1. OInv => OverdraftBounded
  BY DEF OInv
<1> QED BY <1>1, TInvInit, TInvNext, OInvInit, OInvNext, PTL DEF Spec

-----------------------------------------------------------------------------
(* A movement that is a credit or a covered debit leaves no wallet negative.*)
LEMMA MovementKeepsNonNegative ==
  ASSUME TypeOK, NonNegative, NEW w \in Wallets, NEW kind \in LedgerKinds,
         NEW points \in Int, NEW delta \in Int,
         applyMovement(w, kind, points, delta),
         wallet[w].redeemable + delta >= 0
  PROVE  NonNegative'
<1>1. wallet'[w].redeemable = wallet[w].redeemable + delta
  BY DEF TypeOK, applyMovement
<1>2. \A v \in Wallets : v # w => wallet'[v] = wallet[v]
  BY DEF TypeOK, applyMovement
<1> QED BY <1>1, <1>2 DEF NonNegative

(* Without expiry and clawback no wallet is ever negative: the UPDATE's own *)
(* WHERE makes racing redemptions and adjustments safe, whatever balance    *)
(* each of them had read.                                                   *)
THEOREM GuardedDebitsAreSafe ==
  ASSUME Ops \cap FloorOps = {}, Sweepers = {}
  PROVE  Spec => []NonNegative
<1>1. Init => NonNegative
  BY DEF Init, NonNegative, EmptyWallet
<1>2. TInv /\ NonNegative /\ [Next]_vars => NonNegative'
  <2> SUFFICES ASSUME TInv, NonNegative, [Next]_vars PROVE NonNegative'
    OBVIOUS
  <2> USE DEF TInv
  <2>1. ASSUME UNCHANGED <<wallet, ledger>> PROVE NonNegative'
    BY <2>1 DEF NonNegative
  <2>2. ASSUME NEW r \in Requests, req[r].pc = "read"
        PROVE  /\ req[r].wallet \in Wallets /\ req[r].amount \in Nat
               /\ req[r].op \in LedgerKinds /\ req[r].op # "CLAWBACK"
               /\ wallet[req[r].wallet].redeemable \in Int
               /\ wallet[req[r].wallet].redeemable >= 0
    <3>1. /\ req[r].wallet \in Wallets /\ req[r].amount \in Nat /\ req[r].op \in Ops
      BY <2>2 DEF ReadOk
    <3>2. wallet[req[r].wallet] \in WalletType
      BY <3>1 DEF TypeOK
    <3> QED BY <3>1, <3>2 DEF LedgerKinds, FloorOps, WalletType, NonNegative
  <2>3. ASSUME NEW r \in Requests, creditEarn(r) PROVE NonNegative'
    BY <2>2, <2>3, MovementKeepsNonNegative DEF creditEarn
  <2>4. ASSUME NEW r \in Requests, credit(r) PROVE NonNegative'
    BY <2>2, <2>4, MovementKeepsNonNegative DEF credit
  <2>5. ASSUME NEW r \in Requests, guardedDebit(r) PROVE NonNegative'
    <3>1. /\ req[r].wallet \in Wallets /\ req[r].op \in LedgerKinds
          /\ -req[r].amount \in Int
          /\ wallet[req[r].wallet].redeemable + (-req[r].amount) >= 0
      BY <2>2, <2>5 DEF guardedDebit, Covered
    <3> QED BY <2>5, <3>1, MovementKeepsNonNegative DEF guardedDebit
  <2>6. ASSUME NEW r \in Requests, clawbackAward(r) PROVE NonNegative'
    BY <2>2, <2>6 DEF clawbackAward
  <2>7. CASE UNCHANGED vars
    BY <2>1, <2>7 DEF vars
  <2> QED
    BY <2>1, <2>3, <2>4, <2>5, <2>6, <2>7
       DEF Next, Request, ReadWallet, ReadToUndo, LoadWallet,
           guardedDebitRefused, LotComesDue
<1> QED BY <1>1, <1>2, TInvInit, TInvNext, PTL DEF Spec

-----------------------------------------------------------------------------
(* A movement keeps the books when its row and its increment are the same,   *)
(* or a clawback's shortfall makes up for the difference.                    *)
LEMMA MovementKeepsBooks ==
  ASSUME TypeOK, BooksBalance, NEW w \in Wallets, NEW kind \in LedgerKinds,
         NEW points \in Int, NEW delta \in Int,
         applyMovement(w, kind, points, delta),
         \/ points = delta /\ UNCHANGED shortfall
         \/ kind = "CLAWBACK" /\ shortfall' = [shortfall EXCEPT ![w] = @ + (delta - points)]
  PROVE  BooksBalance'
<1>1. /\ wallet[w] \in WalletType /\ wallet \in [Wallets -> WalletType]
      /\ ledger[w] \in [LedgerKinds -> Int] /\ ledger \in [Wallets -> [LedgerKinds -> Int]]
      /\ shortfall \in [Wallets -> Nat]
  BY DEF TypeOK
<1>2. \A v \in Wallets : v # w =>
        wallet'[v] = wallet[v] /\ ledger'[v] = ledger[v] /\ shortfall'[v] = shortfall[v]
  BY <1>1 DEF applyMovement
<1>3. /\ wallet'[w].redeemable = wallet[w].redeemable + delta
      /\ wallet'[w].earned = wallet[w].earned + (IF kind \in CreditOps \ {"REVERSE"} THEN delta ELSE 0)
      /\ wallet'[w].redeemed = wallet[w].redeemed - (IF kind = "REDEEM" THEN delta ELSE 0)
      /\ wallet'[w].expired = wallet[w].expired - (IF kind = "EXPIRE" THEN delta ELSE 0)
  BY <1>1 DEF applyMovement, WalletType
<1>4. \A k \in LedgerKinds : ledger'[w][k] = ledger[w][k] + (IF k = kind THEN points ELSE 0)
  BY <1>1 DEF applyMovement
<1>5. shortfall'[w] = shortfall[w] + (delta - points)
  BY <1>1
<1>6. LedgerKinds = {"CLAWBACK", "REDEEM", "ADJUST_DEBIT", "EARN", "ADJUST_CREDIT", "REVERSE", "EXPIRE"}
  BY DEF LedgerKinds, AllOps, FloorOps, GuardedOps, CreditOps
<1>7. \A k \in LedgerKinds : ledger[w][k] \in Int /\ ledger'[w][k] \in Int
  BY <1>1, <1>4
<1> DEFINE before(k) == ledger[w][k]
           after(k) == ledger'[w][k]
<1>8. /\ wallet[w].redeemable = before("EARN") + before("ADJUST_CREDIT") + before("REVERSE")
             + before("REDEEM") + before("ADJUST_DEBIT") + before("CLAWBACK") + before("EXPIRE")
             + shortfall[w]
      /\ wallet[w].earned = before("EARN") + before("ADJUST_CREDIT")
      /\ wallet[w].redeemed = -before("REDEEM")
      /\ wallet[w].expired = -before("EXPIRE")
  BY DEF BooksBalance
<1>9. shortfall[w] \in Nat
  BY <1>1
<1>10. \A k \in LedgerKinds : /\ before(k) \in Int
                              /\ after(k) = before(k) + (IF k = kind THEN points ELSE 0)
  BY <1>4, <1>7
<1> HIDE DEF before, after
<1>11. wallet'[w].redeemable = after("EARN") + after("ADJUST_CREDIT") + after("REVERSE")
             + after("REDEEM") + after("ADJUST_DEBIT") + after("CLAWBACK") + after("EXPIRE")
             + shortfall'[w]
  BY <1>3, <1>5, <1>6, <1>8, <1>9, <1>10
<1>12. wallet'[w].earned = after("EARN") + after("ADJUST_CREDIT")
  BY <1>3, <1>6, <1>8, <1>10 DEF CreditOps
<1>13. wallet'[w].redeemed = -after("REDEEM") /\ wallet'[w].expired = -after("EXPIRE")
  BY <1>3, <1>6, <1>8, <1>10
<1> QED
  BY <1>2, <1>11, <1>12, <1>13 DEF BooksBalance, after

(* The operations of a request are movements of its kind.                    *)
LEMMA RequestMoves ==
  ASSUME TInv, NEW r \in Requests, req[r].pc = "read"
  PROVE  /\ req[r].wallet \in Wallets /\ req[r].amount \in Nat
         /\ -req[r].amount \in Int /\ req[r].op \in LedgerKinds
         /\ req[r].before \in Int
  BY DEF TInv, TypeOK, RequestType, ReadOk, LedgerKinds

(* So is the expiry of the lot that a sweep holds, of no more than the lot.  *)
LEMMA SweepMoves ==
  ASSUME TInv, NEW s \in Sweepers, ExpireLot(s)
  PROVE  LET l == sweep[s].lot
             expirable == FlooredDecrement(lots[l].points, sweep[s].before)
         IN  /\ l \in Lots /\ lots[l].wallet \in Wallets /\ lots[l].points \in Nat
             /\ "EXPIRE" \in LedgerKinds
             /\ expirable \in Int /\ -expirable \in Int /\ expirable <= lots[l].points
  BY DEF TInv, ExpireLot, TypeOK, SweepType, LotType, LotsOk, LedgerKinds,
         FlooredDecrement, MinOf

LEMMA BooksNext == TInv /\ BooksBalance /\ [Next]_vars => BooksBalance'
<1> SUFFICES ASSUME TInv, BooksBalance, [Next]_vars PROVE BooksBalance'
  OBVIOUS
<1> USE DEF TInv
<1>1. ASSUME UNCHANGED <<wallet, ledger, shortfall>> PROVE BooksBalance'
  BY <1>1 DEF BooksBalance
<1>2. ASSUME NEW r \in Requests, creditEarn(r) PROVE BooksBalance'
  BY <1>2, RequestMoves, MovementKeepsBooks DEF creditEarn
<1>3. ASSUME NEW r \in Requests, credit(r) PROVE BooksBalance'
  BY <1>3, RequestMoves, MovementKeepsBooks DEF credit
<1>4. ASSUME NEW r \in Requests, guardedDebit(r) PROVE BooksBalance'
  BY <1>4, RequestMoves, MovementKeepsBooks DEF guardedDebit
<1>5. ASSUME NEW r \in Requests, clawbackAward(r) PROVE BooksBalance'
  <2> DEFINE w == req[r].wallet
             amount == req[r].amount
             taken == FlooredDecrement(amount, req[r].before)
  <2>1. w \in Wallets /\ amount \in Nat /\ req[r].before \in Int /\ "CLAWBACK" \in LedgerKinds
    BY <1>5, RequestMoves DEF clawbackAward
  <2>2. taken \in Int /\ -taken \in Int /\ -amount \in Int /\ amount - taken = (-taken) - (-amount)
    BY <2>1 DEF FlooredDecrement, MinOf
  <2>3. /\ applyMovement(w, "CLAWBACK", -amount, -taken)
        /\ shortfall' = [shortfall EXCEPT ![w] = @ + (amount - taken)]
    BY <1>5 DEF clawbackAward
  <2> HIDE DEF taken, w, amount
  <2>4. shortfall' = [shortfall EXCEPT ![w] = @ + ((-taken) - (-amount))]
    BY <2>2, <2>3
  <2> QED
    BY <2>1, <2>2, <2>3, <2>4, MovementKeepsBooks
<1>6. ASSUME NEW s \in Sweepers, ExpireLot(s) PROVE BooksBalance'
  <2> DEFINE w == lots[sweep[s].lot].wallet
             expirable == FlooredDecrement(lots[sweep[s].lot].points, sweep[s].before)
  <2>1. w \in Wallets /\ "EXPIRE" \in LedgerKinds /\ -expirable \in Int
    BY <1>6, SweepMoves
  <2>2. UNCHANGED shortfall /\ \/ applyMovement(w, "EXPIRE", -expirable, -expirable)
                               \/ UNCHANGED <<wallet, ledger>>
    BY <1>6 DEF ExpireLot
  <2> HIDE DEF w, expirable
  <2> QED
    BY <1>1, <2>1, <2>2, MovementKeepsBooks
<1>7. CASE UNCHANGED vars
  BY <1>1, <1>7 DEF vars
<1> QED
  BY <1>1, <1>2, <1>3, <1>4, <1>5, <1>6, <1>7
     DEF Next, Request, Sweep, SweepLot, ReadWallet, ReadToUndo, LoadWallet,
         guardedDebitRefused, LotComesDue, expireDuePoints, ClaimLot, SkipLot, CrashSweep

(* Whatever the interleaving, the balance and the counters of a wallet are   *)
(* what its ledger rows, and the shortfalls of its clawbacks, add up to.     *)
THEOREM BooksAlwaysBalance == Spec => []BooksBalance
<1>1. Init => BooksBalance
  BY DEF Init, BooksBalance, EmptyWallet, LedgerKinds, AllOps, FloorOps, GuardedOps, CreditOps
<1> QED BY <1>1, BooksNext, TInvInit, TInvNext, PTL DEF Spec

-----------------------------------------------------------------------------
(* Sums, as for CreditPayouts: the recursive function that adds up a finite  *)
(* set exists, and the order it takes the elements in does not matter.       *)
Pick(s) == CHOOSE x \in s : TRUE
Adds(f, sum, s) == IF s = {} THEN 0 ELSE f[Pick(s)] + sum[s \ {Pick(s)}]
IsSum(f, S, sum) == sum = [s \in SUBSET S |-> Adds(f, sum, s)]

(* What holds of a set when it holds of all smaller ones, holds of all.      *)
LEMMA SubsetInduction ==
  ASSUME NEW S, IsFiniteSet(S), NEW Good,
         \A T \in SUBSET S : (\A U \in SUBSET T : U # T => U \in Good) => T \in Good
  PROVE  SUBSET S \subseteq Good
<1> DEFINE Bad == {T \in SUBSET S : T \notin Good}
<1> SUFFICES ASSUME Bad # {} PROVE FALSE
  OBVIOUS
<1>1. IsWellFoundedOn(StrictSubsetOrdering(S), SUBSET S)
  <2>1. FiniteSubsetsOf(S) = SUBSET S
    BY FS_FiniteSubsetsOfFinite
  <2>2. IsWellFoundedOn(StrictSubsetOrdering(S), FiniteSubsetsOf(S))
    BY FS_StrictSubsetOrderingWellFounded
  <2> QED
    BY <2>1, <2>2
<1>2. Bad \subseteq SUBSET S
  OBVIOUS
<1> HIDE DEF Bad
<1>3. PICK T \in Bad : \A U \in Bad : <<U, T>> \notin StrictSubsetOrdering(S)
  BY <1>1, <1>2, WFMin
<1>4. T \in SUBSET S /\ T \notin Good
  BY <1>3 DEF Bad
<1>5. PICK U \in SUBSET T : U # T /\ U \notin Good
  BY <1>4
<1>6. U \in SUBSET S /\ <<U, T>> \in StrictSubsetOrdering(S)
  BY <1>4, <1>5 DEF StrictSubsetOrdering
<1> QED
  BY <1>3, <1>5, <1>6 DEF Bad

(* If such a function exists, the sum is the value of one.                   *)
LEMMA SumIsOne ==
  ASSUME NEW f, NEW S, \E sum : IsSum(f, S, sum)
  PROVE  \E sum : IsSum(f, S, sum) /\ SumOver(f, S) = sum[S]
  BY Zenon DEF SumOver, MapThenSumSet, MapThenFoldSet, IsSum, Adds, Pick

LEMMA PickIn == ASSUME NEW S, S # {} PROVE Pick(S) \in S
  BY DEF Pick

(* Two of them agree, also when one is about a smaller set.                  *)
LEMMA SumsAgree ==
  ASSUME NEW f, NEW S, IsFiniteSet(S), NEW T \in SUBSET S,
         NEW i, IsSum(f, S, i), NEW j, IsSum(f, T, j)
  PROVE  i[T] = j[T]
<1> DEFINE Good == {U \in SUBSET T : i[U] = j[U]}
<1>1. IsFiniteSet(T)
  BY FS_Subset
<1>2. ASSUME NEW U \in SUBSET T, \A V \in SUBSET U : V # U => V \in Good
      PROVE  U \in Good
  <2>1. i[U] = Adds(f, i, U) /\ j[U] = Adds(f, j, U)
    BY DEF IsSum
  <2>2. CASE U = {}
    BY <2>1, <2>2 DEF Adds
  <2>3. CASE U # {}
    <3>1. U \ {Pick(U)} \in Good
      BY <1>2, <2>3, PickIn
    <3> QED
      BY <2>1, <2>3, <3>1 DEF Adds
  <2> QED
    BY <2>2, <2>3
<1> HIDE DEF Good
<1>3. SUBSET T \subseteq Good
  BY <1>1, <1>2, SubsetInduction
<1> QED
  BY <1>3 DEF Good

(* There is one: on each subset, the sum over it.                            *)
LEMMA SumExists ==
  ASSUME NEW f, NEW S, IsFiniteSet(S)
  PROVE  \E sum : IsSum(f, S, sum)
<1> DEFINE Good == {T \in SUBSET S : \E sum : IsSum(f, T, sum)}
<1>1. ASSUME NEW T \in SUBSET S, \A U \in SUBSET T : U # T => U \in Good
      PROVE  T \in Good
  <2> DEFINE next(s) == IF s = {} THEN 0 ELSE f[Pick(s)] + SumOver(f, s \ {Pick(s)})
             sum == [s \in SUBSET T |-> next(s)]
  <2>1. ASSUME NEW U \in SUBSET T, U # T
        PROVE  SumOver(f, U) = next(U)
    <3>1. PICK j : IsSum(f, U, j) /\ SumOver(f, U) = j[U]
      BY <1>1, <2>1, SumIsOne
    <3>2. j[U] = Adds(f, j, U)
      BY <3>1 DEF IsSum
    <3>3. CASE U = {}
      BY <3>1, <3>2, <3>3 DEF Adds
    <3>4. CASE U # {}
      <4> DEFINE V == U \ {Pick(U)}
      <4>1. V \in SUBSET U /\ V # T /\ V \in SUBSET T
        BY <2>1
      <4>2. PICK k : IsSum(f, V, k) /\ SumOver(f, V) = k[V]
        BY <1>1, <4>1, SumIsOne
      <4>3. IsFiniteSet(U)
        BY FS_Subset
      <4>4. j[V] = k[V]
        BY <3>1, <4>1, <4>2, <4>3, SumsAgree
      <4> QED
        BY <3>1, <3>2, <3>4, <4>2, <4>4 DEF Adds
    <3> QED
      BY <3>3, <3>4
  <2>2. \A s \in SUBSET T : next(s) = Adds(f, sum, s)
    <3> TAKE s \in SUBSET T
    <3>1. CASE s = {}
      BY <3>1 DEF Adds
    <3>2. CASE s # {}
      <4> DEFINE U == s \ {Pick(s)}
      <4>1. U \in SUBSET T /\ U # T
        BY <3>2, PickIn
      <4>2. sum[U] = SumOver(f, U)
        BY <2>1, <4>1
      <4> QED
        BY <3>2, <4>2 DEF Adds
    <3> QED
      BY <3>1, <3>2
  <2> HIDE DEF next
  <2>3. IsSum(f, T, sum)
    BY <2>2, Zenon DEF IsSum
  <2> QED
    BY <2>3
<1> HIDE DEF Good
<1>2. SUBSET S \subseteq Good
  BY <1>1, SubsetInduction
<1> QED
  BY <1>2 DEF Good

(* The sum of nothing, and the sum of something by its first element.        *)
LEMMA SumEmpty == ASSUME NEW f PROVE SumOver(f, {}) = 0
<1>1. PICK sum : IsSum(f, {}, sum) /\ SumOver(f, {}) = sum[{}]
  BY FS_EmptySet, SumExists, SumIsOne
<1> QED
  BY <1>1 DEF IsSum, Adds

LEMMA SumPick ==
  ASSUME NEW f, NEW S, IsFiniteSet(S), S # {}
  PROVE  SumOver(f, S) = f[Pick(S)] + SumOver(f, S \ {Pick(S)})
<1> DEFINE T == S \ {Pick(S)}
<1>1. PICK i : IsSum(f, S, i) /\ SumOver(f, S) = i[S]
  BY SumExists, SumIsOne
<1>2. IsFiniteSet(T) /\ T \in SUBSET S
  BY FS_Subset
<1>3. PICK j : IsSum(f, T, j) /\ SumOver(f, T) = j[T]
  BY <1>2, SumExists, SumIsOne
<1>4. i[S] = f[Pick(S)] + i[T]
  BY <1>1 DEF IsSum, Adds
<1>5. i[T] = j[T]
  BY <1>1, <1>2, <1>3, SumsAgree
<1> QED
  BY <1>1, <1>3, <1>4, <1>5

(* A sum of integers is one.                                                 *)
LEMMA SumInt ==
  ASSUME NEW S, IsFiniteSet(S), NEW f, \A x \in S : f[x] \in Int
  PROVE  SumOver(f, S) \in Int
<1> DEFINE Good == {T \in SUBSET S : SumOver(f, T) \in Int}
<1>1. ASSUME NEW T \in SUBSET S, \A U \in SUBSET T : U # T => U \in Good
      PROVE  T \in Good
  <2>1. CASE T = {}
    BY <2>1, SumEmpty
  <2>2. CASE T # {}
    <3>1. Pick(T) \in T /\ IsFiniteSet(T)
      BY <2>2, PickIn, FS_Subset
    <3>2. T \ {Pick(T)} \in Good
      BY <1>1, <3>1
    <3> QED
      BY <2>2, <3>1, <3>2, SumPick
  <2> QED
    BY <2>1, <2>2
<1> HIDE DEF Good
<1>2. SUBSET S \subseteq Good
  BY <1>1, SubsetInduction
<1> QED
  BY <1>2 DEF Good

(* Any element may be taken out of a sum, not only the first.                *)
LEMMA SumTake ==
  ASSUME NEW S, IsFiniteSet(S), NEW f, \A x \in S : f[x] \in Int, NEW x \in S
  PROVE  SumOver(f, S) = f[x] + SumOver(f, S \ {x})
<1> DEFINE Takes(T) == \A y \in T : SumOver(f, T) = f[y] + SumOver(f, T \ {y})
           Good == {T \in SUBSET S : Takes(T)}
<1>1. ASSUME NEW T \in SUBSET S, \A U \in SUBSET T : U # T => U \in Good
      PROVE  T \in Good
  <2> SUFFICES ASSUME NEW y \in T
               PROVE  SumOver(f, T) = f[y] + SumOver(f, T \ {y})
    OBVIOUS
  <2> DEFINE p == Pick(T)
             R == T \ {p, y}
  <2>1. p \in T
    BY PickIn
  <2>2. IsFiniteSet(T) /\ IsFiniteSet(R)
    BY FS_Subset
  <2> HIDE DEF R, p
  <2>3. SumOver(f, T) = f[p] + SumOver(f, T \ {p})
    BY <2>2, SumPick DEF p
  <2>4. CASE y = p
    BY <2>3, <2>4
  <2>5. CASE y # p
    <3>1. T \ {p} \in Good /\ T \ {y} \in Good
      BY <1>1, <2>1
    <3>2. y \in T \ {p} /\ p \in T \ {y} /\ (T \ {p}) \ {y} = R /\ (T \ {y}) \ {p} = R
      BY <2>1, <2>5 DEF R
    <3>3. SumOver(f, T \ {p}) = f[y] + SumOver(f, R)
      BY <3>1, <3>2
    <3>4. SumOver(f, T \ {y}) = f[p] + SumOver(f, R)
      BY <3>1, <3>2
    <3>5. f[p] \in Int /\ f[y] \in Int /\ SumOver(f, R) \in Int
      BY <2>1, <2>2, SumInt DEF R
    <3> QED
      BY <2>3, <3>3, <3>4, <3>5
  <2> QED
    BY <2>4, <2>5
<1> HIDE DEF Good
<1>2. SUBSET S \subseteq Good
  BY <1>1, SubsetInduction
<1> QED
  BY <1>2 DEF Good

(* A sum depends on the function on its set only.                            *)
LEMMA SumSame ==
  ASSUME NEW S, IsFiniteSet(S), NEW f, NEW g, \A x \in S : f[x] = g[x]
  PROVE  SumOver(f, S) = SumOver(g, S)
<1> DEFINE Good == {T \in SUBSET S : SumOver(f, T) = SumOver(g, T)}
<1>1. ASSUME NEW T \in SUBSET S, \A U \in SUBSET T : U # T => U \in Good
      PROVE  T \in Good
  <2>1. CASE T = {}
    BY <2>1, SumEmpty
  <2>2. CASE T # {}
    <3>1. Pick(T) \in T /\ IsFiniteSet(T)
      BY <2>2, PickIn, FS_Subset
    <3>2. T \ {Pick(T)} \in Good
      BY <1>1, <3>1
    <3>3. SumOver(f, T) = f[Pick(T)] + SumOver(f, T \ {Pick(T)})
      BY <2>2, <3>1, SumPick
    <3>4. SumOver(g, T) = g[Pick(T)] + SumOver(g, T \ {Pick(T)})
      BY <2>2, <3>1, SumPick
    <3> QED
      BY <3>1, <3>2, <3>3, <3>4
  <2> QED
    BY <2>1, <2>2
<1> HIDE DEF Good
<1>2. SUBSET S \subseteq Good
  BY <1>1, SubsetInduction
<1> QED
  BY <1>2 DEF Good

-----------------------------------------------------------------------------
(* A lot that a sweep holds is due, and held by that sweep alone: its claim  *)
(* keeps the row's lock until the transaction ends.                          *)
HeldOk ==
  \A s \in Sweepers : sweep[s].lot # NoLot =>
    /\ lots[sweep[s].lot].state = "due"
    /\ \A t \in Sweepers : sweep[t].lot = sweep[s].lot => t = s

(* What the lots that a wallet lost had granted grows by the lot that it     *)
(* loses, and nothing else changes it.                                       *)
LEMMA GoneFinite == ASSUME NEW w PROVE IsFiniteSet(Gone(w)) /\ Gone(w) \subseteq Lots
  BY LotsAssumption, FS_Subset DEF Gone

LEMMA ExpiredKept ==
  ASSUME ExpiredOnce, \A w \in Wallets : wallet'[w].expired = wallet[w].expired,
         \A l \in Lots : /\ lots'[l].state = "expired" <=> lots[l].state = "expired"
                         /\ lots[l].state = "expired" => /\ lots'[l].wallet = lots[l].wallet
                                                         /\ lots'[l].points = lots[l].points
  PROVE  ExpiredOnce'
<1> SUFFICES ASSUME NEW w \in Wallets
             PROVE  wallet[w].expired <= SumOver(Points', Gone(w)')
  BY DEF ExpiredOnce
<1>1. Gone(w)' = Gone(w)
  BY DEF Gone
<1>2. \A l \in Gone(w) : Points[l] = Points'[l]
  BY DEF Gone, Points
<1> DEFINE f == Points
           g == Points'
<1> HIDE DEF f, g
<1>3. SumOver(f, Gone(w)) = SumOver(g, Gone(w))
  BY <1>2, GoneFinite, SumSame DEF f, g
<1> QED
  BY <1>1, <1>3 DEF ExpiredOnce, f, g

(* Movements other than an expiry leave the counter alone.                   *)
LEMMA MovementExpires ==
  ASSUME TypeOK, NEW w \in Wallets, NEW kind \in LedgerKinds,
         NEW points \in Int, NEW delta \in Int, applyMovement(w, kind, points, delta)
  PROVE  \A v \in Wallets : wallet'[v].expired =
           wallet[v].expired - (IF v = w /\ kind = "EXPIRE" THEN delta ELSE 0)
<1>1. wallet[w] \in WalletType /\ wallet \in [Wallets -> WalletType]
  BY DEF TypeOK
<1>2. wallet'[w].expired = wallet[w].expired - (IF kind = "EXPIRE" THEN delta ELSE 0)
  BY <1>1 DEF applyMovement, WalletType
<1>3. \A v \in Wallets : v # w => wallet'[v] = wallet[v]
  BY <1>1 DEF applyMovement
<1>4. \A v \in Wallets : wallet[v].expired \in Int
  BY <1>1 DEF WalletType
<1> QED
  BY <1>2, <1>3, <1>4

(* The expiry takes no more from the wallet than the lot it marks.           *)
LEMMA ExpiryCounted ==
  ASSUME TInv, HeldOk, ExpiredOnce, NEW s \in Sweepers, ExpireLot(s)
  PROVE  ExpiredOnce'
<1> DEFINE l == sweep[s].lot
           w == lots[l].wallet
           expirable == FlooredDecrement(lots[l].points, sweep[s].before)
           spent == IF expirable > 0 THEN expirable ELSE 0
<1>1. /\ l \in Lots /\ w \in Wallets /\ lots[l].points \in Nat /\ "EXPIRE" \in LedgerKinds
      /\ expirable \in Int /\ -expirable \in Int /\ expirable <= lots[l].points
  BY SweepMoves
<1>2. lots[l].state = "due"
  BY DEF HeldOk, ExpireLot
<1>3. \A v \in Wallets : wallet[v].expired \in Int
  BY DEF TInv, TypeOK, WalletType
<1>4. \A v \in Wallets : wallet'[v].expired = wallet[v].expired + (IF v = w THEN spent ELSE 0)
  <2>1. CASE expirable > 0
    <3>1. applyMovement(w, "EXPIRE", -expirable, -expirable)
      BY <2>1 DEF ExpireLot
    <3> HIDE DEF w, expirable
    <3>2. \A v \in Wallets : wallet'[v].expired = wallet[v].expired - (IF v = w THEN -expirable ELSE 0)
      BY <1>1, <3>1, MovementExpires DEF TInv
    <3> QED
      BY <1>1, <1>3, <2>1, <3>2
  <2>2. CASE ~(expirable > 0)
    <3>1. UNCHANGED wallet
      BY <2>2 DEF ExpireLot
    <3> QED
      BY <1>3, <2>2, <3>1
  <2> QED
    BY <2>1, <2>2
<1>5. spent \in Nat /\ spent <= lots[l].points
  BY <1>1
<1>6. lots' = [lots EXCEPT ![l].state = "expired"]
  BY DEF ExpireLot
<1> HIDE DEF w, l, expirable, spent
<1>7. /\ lots'[l].state = "expired" /\ lots'[l].wallet = lots[l].wallet
      /\ lots'[l].points = lots[l].points
      /\ \A k \in Lots : k # l => lots'[k] = lots[k]
  BY <1>1, <1>6 DEF TInv, TypeOK, LotType
<1>8. \A k \in Lots : Points'[k] = Points[k] /\ Points[k] \in Nat
  BY <1>7 DEF Points, TInv, TypeOK, LotType
<1> SUFFICES ASSUME NEW v \in Wallets
             PROVE  wallet'[v].expired <= SumOver(Points', Gone(v)')
  BY DEF ExpiredOnce
<1> DEFINE f == Points
           g == Points'
           now == Gone(v)'
<1>9. /\ wallet[v].expired <= SumOver(f, Gone(v))
      /\ \A k \in Lots : f[k] = g[k] /\ f[k] \in Nat
      /\ f[l] = lots[l].points
  BY <1>1, <1>8 DEF ExpiredOnce, Points
<1>10. /\ v # w => now = Gone(v)
       /\ v = w => l \notin Gone(v) /\ now = Gone(v) \cup {l}
  BY <1>1, <1>2, <1>7 DEF Gone, w
<1>11. IsFiniteSet(now) /\ now \subseteq Lots
  BY LotsAssumption, FS_Subset DEF Gone
<1>12. IsFiniteSet(Gone(v)) /\ Gone(v) \subseteq Lots
  BY GoneFinite
<1> HIDE DEF f, g, now
<1>13. SumOver(g, now) = SumOver(f, now)
  BY <1>9, <1>11, SumSame
<1>14. SumOver(f, Gone(v)) \in Int
  BY <1>9, <1>12, SumInt
<1>15. CASE v # w
  BY <1>3, <1>4, <1>9, <1>10, <1>13, <1>15 DEF g, now
<1>16. CASE v = w
  <2>1. l \in now /\ now \ {l} = Gone(v)
    BY <1>10, <1>16
  <2>2. \A k \in now : f[k] \in Int
    BY <1>9, <1>11
  <2>3. SumOver(f, now) = f[l] + SumOver(f, now \ {l})
    BY <1>11, <2>1, <2>2, SumTake
  <2>4. SumOver(f, now) = lots[l].points + SumOver(f, Gone(v))
    BY <1>9, <2>1, <2>3
  <2>5. wallet'[v].expired = wallet[v].expired + spent
    BY <1>4, <1>16
  <2>6. wallet[v].expired \in Int /\ lots[l].points \in Nat
    BY <1>1, <1>3
  <2>7. wallet'[v].expired <= SumOver(f, now)
    BY <1>5, <1>9, <1>14, <2>4, <2>5, <2>6
  <2> QED
    BY <1>13, <2>7 DEF g, now
<1> QED
  BY <1>15, <1>16

LEMMA ExpiredNext == TInv /\ HeldOk /\ ExpiredOnce /\ [Next]_vars => (HeldOk /\ ExpiredOnce)'
<1> SUFFICES ASSUME TInv, HeldOk, ExpiredOnce, [Next]_vars PROVE (HeldOk /\ ExpiredOnce)'
  OBVIOUS
<1> USE DEF TInv
<1>1. ASSUME UNCHANGED <<wallet, lots>> PROVE ExpiredOnce'
  BY <1>1, ExpiredKept
<1>2. ASSUME UNCHANGED <<lots, sweep>> PROVE HeldOk'
  BY <1>2 DEF HeldOk
<1>3. ASSUME NEW r \in Requests, NEW kind \in LedgerKinds \ {"EXPIRE"}, NEW points \in Int,
             NEW delta \in Int, req[r].wallet \in Wallets,
             applyMovement(req[r].wallet, kind, points, delta), UNCHANGED <<lots, sweep>>
      PROVE  (HeldOk /\ ExpiredOnce)'
  <2>1. \A v \in Wallets : wallet'[v].expired = wallet[v].expired
    <3>1. \A v \in Wallets : wallet[v].expired \in Int
      BY DEF TypeOK, WalletType
    <3> DEFINE w == req[r].wallet
    <3> HIDE DEF w
    <3>2. \A v \in Wallets : wallet'[v].expired = wallet[v].expired - 0
      BY <1>3, MovementExpires DEF w
    <3> QED
      BY <3>1, <3>2
  <2> QED
    BY <1>2, <1>3, <2>1, ExpiredKept
<1>4. ASSUME NEW r \in Requests, creditEarn(r) PROVE (HeldOk /\ ExpiredOnce)'
  <2> DEFINE w == req[r].wallet
             amount == req[r].amount
  <2>1. w \in Wallets /\ amount \in Nat /\ "EARN" \in LedgerKinds
    BY <1>4, RequestMoves DEF creditEarn, LedgerKinds, AllOps, CreditOps
  <2>2. PICK l \in Lots : /\ lots[l].state = "none"
                          /\ lots' = [lots EXCEPT ![l] = [state |-> "live", wallet |-> w, points |-> amount]]
    BY <1>4 DEF creditEarn
  <2>3. applyMovement(w, "EARN", amount, amount) /\ UNCHANGED sweep
    BY <1>4 DEF creditEarn
  <2> HIDE DEF w, amount
  <2>4. \A v \in Wallets : wallet'[v].expired = wallet[v].expired
    <3>1. \A v \in Wallets : wallet[v].expired \in Int
      BY DEF TypeOK, WalletType
    <3>2. \A v \in Wallets : wallet'[v].expired = wallet[v].expired - 0
      BY <2>1, <2>3, MovementExpires
    <3> QED
      BY <3>1, <3>2
  <2>5. /\ lots[l].state = "none" /\ lots'[l].state = "live"
        /\ \A k \in Lots : k # l => lots'[k] = lots[k]
    BY <2>2 DEF TypeOK
  <2>6. ExpiredOnce'
    BY <2>4, <2>5, ExpiredKept
  <2>7. HeldOk'
    BY <2>3, <2>5 DEF HeldOk, TypeOK, SweepType
  <2> QED
    BY <2>6, <2>7
<1>5. ASSUME NEW r \in Requests, credit(r) PROVE (HeldOk /\ ExpiredOnce)'
  <2>1. req[r].op # "EXPIRE" /\ req[r].amount \in Int
    BY <1>5, RequestMoves DEF credit
  <2> QED
    BY <1>3, <1>5, <2>1, RequestMoves DEF credit
<1>6. ASSUME NEW r \in Requests, guardedDebit(r) PROVE (HeldOk /\ ExpiredOnce)'
  <2>1. req[r].op # "EXPIRE"
    BY <1>6 DEF guardedDebit, GuardedOps
  <2> QED
    BY <1>3, <1>6, <2>1, RequestMoves DEF guardedDebit
<1>7. ASSUME NEW r \in Requests, clawbackAward(r) PROVE (HeldOk /\ ExpiredOnce)'
  <2> DEFINE taken == FlooredDecrement(req[r].amount, req[r].before)
  <2>1. req[r].wallet \in Wallets /\ -req[r].amount \in Int /\ "CLAWBACK" \in LedgerKinds
        /\ req[r].amount \in Nat /\ req[r].before \in Int
    BY <1>7, RequestMoves DEF clawbackAward
  <2>2. -taken \in Int
    BY <2>1 DEF FlooredDecrement, MinOf
  <2>3. applyMovement(req[r].wallet, "CLAWBACK", -req[r].amount, -taken) /\ UNCHANGED <<lots, sweep>>
    BY <1>7 DEF clawbackAward
  <2> HIDE DEF taken
  <2> QED
    BY <1>3, <2>1, <2>2, <2>3
<1>8. ASSUME NEW l \in Lots, LotComesDue(l) PROVE (HeldOk /\ ExpiredOnce)'
  <2>1. /\ lots[l].state = "live" /\ lots'[l].state = "due"
        /\ \A k \in Lots : k # l => lots'[k] = lots[k]
        /\ UNCHANGED <<wallet, sweep>>
    BY <1>8 DEF LotComesDue, TypeOK, LotType
  <2>2. ExpiredOnce'
    BY <2>1, ExpiredKept
  <2>3. HeldOk'
    BY <2>1 DEF HeldOk, TypeOK, SweepType
  <2> QED
    BY <2>2, <2>3
<1>9. ASSUME NEW s \in Sweepers, expireDuePoints(s) PROVE (HeldOk /\ ExpiredOnce)'
  <2>1. \A t \in Sweepers : sweep'[t].lot = sweep[t].lot
    BY <1>9 DEF expireDuePoints, TypeOK, SweepType
  <2>2. UNCHANGED <<wallet, lots>>
    BY <1>9 DEF expireDuePoints
  <2> QED
    BY <1>1, <2>1, <2>2 DEF HeldOk
<1>10. ASSUME NEW s \in Sweepers, NEW l \in Lots, ClaimLot(s, l) PROVE (HeldOk /\ ExpiredOnce)'
  <2>1. /\ sweep'[s].lot = l /\ lots[l].state = "due"
        /\ \A t \in Sweepers : sweep[t].lot # l
        /\ \A t \in Sweepers : t # s => sweep'[t] = sweep[t]
        /\ UNCHANGED <<wallet, lots>>
    BY <1>10 DEF ClaimLot, Unlocked, Claimable, TypeOK
  <2> QED
    BY <1>1, <2>1 DEF HeldOk
<1>11. ASSUME NEW s \in Sweepers, NEW l \in Lots, SkipLot(s, l) PROVE (HeldOk /\ ExpiredOnce)'
  <2>1. \A t \in Sweepers : sweep'[t].lot = sweep[t].lot
    BY <1>11 DEF SkipLot, TypeOK, SweepType
  <2>2. UNCHANGED <<wallet, lots>>
    BY <1>11 DEF SkipLot
  <2> QED
    BY <1>1, <2>1, <2>2 DEF HeldOk
<1>12. ASSUME NEW s \in Sweepers, ExpireLot(s) PROVE (HeldOk /\ ExpiredOnce)'
  <2> DEFINE l == sweep[s].lot
  <2>1. /\ l # NoLot /\ sweep'[s].lot = NoLot
        /\ \A t \in Sweepers : t # s => sweep'[t] = sweep[t]
        /\ \A k \in Lots : k # l => lots'[k] = lots[k]
    BY <1>12 DEF ExpireLot, TypeOK
  <2>2. HeldOk'
    <3>1. \A t \in Sweepers : t # s /\ sweep[t].lot # NoLot => sweep[t].lot \in Lots \ {l}
      BY <2>1 DEF HeldOk, TypeOK, SweepType
    <3> QED
      BY <2>1, <3>1 DEF HeldOk
  <2> QED
    BY <1>12, <2>2, ExpiryCounted
<1>13. ASSUME NEW s \in Sweepers, CrashSweep(s) PROVE (HeldOk /\ ExpiredOnce)'
  <2>1. /\ sweep'[s].lot = NoLot
        /\ \A t \in Sweepers : t # s => sweep'[t] = sweep[t]
        /\ UNCHANGED <<wallet, lots>>
    BY <1>13 DEF CrashSweep, IdleSweep, TypeOK
  <2> QED
    BY <1>1, <2>1 DEF HeldOk
<1>14. CASE UNCHANGED vars
  BY <1>1, <1>2, <1>14 DEF vars
<1> QED
  BY <1>1, <1>2, <1>4, <1>5, <1>6, <1>7, <1>8, <1>9, <1>10, <1>11, <1>12, <1>13, <1>14
     DEF Next, Request, Sweep, SweepLot, ReadWallet, ReadToUndo, LoadWallet, guardedDebitRefused

(* A lot expires once: however sweeps overlap, are repeated or cut short, a  *)
(* wallet loses to expiry no more than the lots marked expired had granted.  *)
THEOREM LotsExpireOnce == Spec => []ExpiredOnce
<1>1. Init => HeldOk /\ ExpiredOnce
  <2> SUFFICES ASSUME Init PROVE HeldOk /\ ExpiredOnce
    OBVIOUS
  <2>1. HeldOk
    BY DEF Init, HeldOk, IdleSweep
  <2>2. ASSUME NEW w \in Wallets PROVE wallet[w].expired <= SumOver(Points, Gone(w))
    <3>1. wallet[w].expired = 0 /\ Gone(w) = {}
      BY DEF Init, EmptyWallet, Gone
    <3> QED
      BY <3>1, SumEmpty
  <2> QED
    BY <2>1, <2>2 DEF ExpiredOnce
<1> QED BY <1>1, ExpiredNext, TInvInit, TInvNext, PTL DEF Spec
=============================================================================
