-------------------------- MODULE PayoutSettlement --------------------------
(***************************************************************************)
(* Settlement of cash redemptions (src/api/src/payouts/payouts.service.ts).*)
(*                                                                         *)
(* The confirmation of a cash order debits its points and creates a        *)
(* PENDING payout transaction.  Operators sweep the waiting transactions   *)
(* into a DRAFT batch, process it, which flags the eligible ones           *)
(* INITIATED, transfer the money offline, and upload the bank's report:    *)
(* PAID completes the order, FAILED refunds its points.                    *)
(*                                                                         *)
(* A handler's reads before its last transaction are steps of their own.   *)
(***************************************************************************)
EXTENDS Integers, FiniteSets

CONSTANTS
  Orders,          \* cash redemption orders; each has at most one transaction
  Partners, NoPartner,
  Owner,           \* Owner[o]: the partner that redeems
  Mode,            \* Mode[o]: the rail its payout takes
  Modes,
  Batches, NoBatch,
  Utrs, NoUtr,     \* bank references
  Processors,      \* concurrent requests to process a batch
  Assigners,       \* ... to sweep the pending transactions into one
  Uploads,         \* ... to apply an uploaded report
  Price,           \* points an order costs
  InitialBalance,
  ProcessMayDie    \* whether the resetting of a failed batch may itself fail

ASSUME PayoutAssumption ==
  /\ Price \in Nat \ {0} /\ InitialBalance \in Nat
  /\ NoPartner \notin Partners /\ NoBatch \notin Batches /\ NoUtr \notin Utrs
  /\ Owner \in [Orders -> Partners] /\ Mode \in [Orders -> Modes]
  /\ ProcessMayDie \in BOOLEAN
  /\ IsFiniteSet(Orders)

VARIABLES
  order,      \* redemption orders: status and pointsDeducted
  txn,        \* payout transactions: status, batchId, providerRefId
  batch,      \* batches: status and payoutMode
  balance,    \* redeemablePoints of each partner's wallet
  eligible,   \* the partners that may be paid: active and KYC approved
  process, assign, upload    \* the requests

vars == <<order, txn, batch, balance, eligible, process, assign, upload>>

OrderDelivered == {"DELIVERED"}      \* mutant: forgets the other final statuses

OrderEnded == {"DELIVERED", "CANCELLED", "RETURNED", "FAILED"}
TERMINAL_PAYOUT == {"SUCCESS", "FAILED", "REVERSED"}
Processable == {"DRAFT", "SUBMITTED", "FAILED"}

IdleProcess == [pc |-> "idle", batch |-> NoBatch, valid |-> {}]
IdleAssign == [pc |-> "idle", batch |-> NoBatch]
IdleUpload == [pc |-> "idle", paid |-> {}, failed |-> {}, success |-> {},
               utr |-> [o \in Orders |-> NoUtr]]

Init ==
  /\ order = [o \in Orders |-> [status |-> "PENDING", points |-> 0]]
  /\ txn = [o \in Orders |-> [status |-> "NONE", batch |-> NoBatch, utr |-> NoUtr]]
  /\ batch = [b \in Batches |-> [status |-> "NONE", mode |-> "NONE"]]
  /\ balance = [p \in Partners |-> InitialBalance]
  /\ eligible = Partners
  /\ process = [r \in Processors |-> IdleProcess]
  /\ assign = [a \in Assigners |-> IdleAssign]
  /\ upload = [u \in Uploads |-> IdleUpload]

-----------------------------------------------------------------------------
(* The confirmation of a cash order (Redemption has its gates).              *)
CoversSome(p) == balance[p] > 0      \* mutant: any balance will do

Covers(p) == balance[p] >= Price

confirmRedeem(o) ==
  LET p == Owner[o]
  IN  /\ order[o].status = "PENDING"
      /\ p \in eligible
      /\ Covers(p)
      /\ order' = [order EXCEPT ![o] = [status |-> "CONFIRMED", points |-> Price]]
      /\ balance' = [balance EXCEPT ![p] = @ - Price]
      /\ txn' = [txn EXCEPT ![o] = [status |-> "PENDING", batch |-> NoBatch, utr |-> NoUtr]]
      /\ UNCHANGED <<batch, eligible, process, assign, upload>>

(* A partner is suspended or loses its KYC approval, or regains it.          *)
EligibilityChanges(p) ==
  /\ eligible' = IF p \in eligible THEN eligible \ {p} ELSE eligible \cup {p}
  /\ UNCHANGED <<order, txn, batch, balance, process, assign, upload>>

createBatch(b, m) ==
  /\ batch[b].status = "NONE"
  /\ batch' = [batch EXCEPT ![b] = [status |-> "DRAFT", mode |-> m]]
  /\ UNCHANGED <<order, txn, balance, eligible, process, assign, upload>>

-----------------------------------------------------------------------------
(* assignPendingTransactions: the batch is read as a DRAFT; then one guarded *)
(* statement takes every unbatched PENDING transaction of its mode.          *)
assignRead(a, b) ==
  /\ assign[a].pc = "idle"
  /\ batch[b].status = "DRAFT"
  /\ assign' = [assign EXCEPT ![a] = [pc |-> "read", batch |-> b]]
  /\ UNCHANGED <<order, txn, batch, balance, eligible, process, upload>>

Waiting(b) == {o \in Orders : /\ txn[o].status = "PENDING"
                              /\ txn[o].batch = NoBatch
                              /\ Mode[o] = batch[b].mode}

assignPendingTransactions(a) ==
  LET b == assign[a].batch
  IN  /\ assign[a].pc = "read"
      /\ txn' = [o \in Orders |-> IF o \in Waiting(b) THEN [txn[o] EXCEPT !.batch = b] ELSE txn[o]]
      /\ assign' = [assign EXCEPT ![a] = IdleAssign]
      /\ UNCHANGED <<order, batch, balance, eligible, process, upload>>

-----------------------------------------------------------------------------
(* processBatch claims the batch, ...                                        *)
ClaimableBlindly(b) == batch[b].status # "NONE"    \* mutant: the claim is not guarded

Claimable(b) == batch[b].status \in Processable

claimBatch(r, b) ==
  /\ process[r].pc = "idle"
  /\ Claimable(b)
  /\ batch' = [batch EXCEPT ![b].status = "PROCESSING"]
  /\ process' = [process EXCEPT ![r] = [pc |-> "claimed", batch |-> b, valid |-> {}]]
  /\ UNCHANGED <<order, txn, balance, eligible, assign, upload>>

(* ... reads its PENDING transactions and keeps the eligible ones, ...       *)
validate(r) ==
  LET pending == {o \in Orders : txn[o].batch = process[r].batch /\ txn[o].status = "PENDING"}
  IN  /\ process[r].pc = "claimed"
      /\ process' = [process EXCEPT ![r] =
           [pc |-> "validated", batch |-> process[r].batch,
            valid |-> {o \in pending : Owner[o] \in eligible}]]
      /\ UNCHANGED <<order, txn, batch, balance, eligible, assign, upload>>

(* ... flags them, whatever they are by now, and submits the batch.          *)
finalise(r) ==
  /\ process[r].pc = "validated"
  /\ txn' = [o \in Orders |->
       IF o \in process[r].valid THEN [txn[o] EXCEPT !.status = "INITIATED"] ELSE txn[o]]
  /\ batch' = [batch EXCEPT ![process[r].batch].status = "SUBMITTED"]
  /\ process' = [process EXCEPT ![r] = IdleProcess]
  /\ UNCHANGED <<order, balance, eligible, assign, upload>>

(* A step throws: the batch is reset to FAILED, from which it can be claimed.*)
ResetTo == "FAILED"

processFails(r) ==
  /\ process[r].pc # "idle"
  /\ batch' = [batch EXCEPT ![process[r].batch].status = ResetTo]
  /\ process' = [process EXCEPT ![r] = IdleProcess]
  /\ UNCHANGED <<order, txn, balance, eligible, assign, upload>>

(* The reset is best-effort: its own failure, or the end of the server, is   *)
(* swallowed.                                                                *)
processDies(r) ==
  /\ ProcessMayDie
  /\ process[r].pc # "idle"
  /\ process' = [process EXCEPT ![r] = IdleProcess]
  /\ UNCHANGED <<order, txn, batch, balance, eligible, assign, upload>>

-----------------------------------------------------------------------------
(* uploadPayoutUtr reads the transactions of the batch and the bank          *)
(* references in use, and parses the report against them: every row names a  *)
(* transaction of the batch, a PAID row a reference that is new and not      *)
(* repeated.  A transaction may have rows of both kinds, which nothing       *)
(* refuses: success are those whose last row is PAID.  Rows of transactions  *)
(* read as ended are skipped.  (The two reads are one step: the references   *)
(* are read after the transactions, and later ones only refuse more.)        *)
KnownUtrs == {txn[o].utr : o \in Orders} \ {NoUtr}
FreshUtrs == Utrs \ KnownUtrs

SkippedNone == {}                    \* mutant: ended transactions are not skipped
Skipped == {o \in Orders : txn[o].status \in TERMINAL_PAYOUT}

Injective(f, S) == \A x, y \in S : f[x] = f[y] => x = y

uploadRead(u, b, paid, failed, success, utr) ==
  LET rows == {o \in Orders : txn[o].batch = b}
  IN  /\ upload[u].pc = "idle"
      /\ batch[b].status # "NONE"
      /\ paid \subseteq rows /\ failed \subseteq rows
      /\ paid \ failed \subseteq success /\ success \subseteq paid
      /\ paid \cup failed # {}
      /\ \A o \in Orders : IF o \in paid THEN utr[o] \in FreshUtrs ELSE utr[o] = NoUtr
      /\ Injective(utr, paid)
      /\ upload' = [upload EXCEPT ![u] =
           [pc |-> "parsed", paid |-> paid \ Skipped, failed |-> failed \ Skipped,
            success |-> success \ Skipped, utr |-> utr]]
      /\ UNCHANGED <<order, txn, batch, balance, eligible, process, assign>>

(* The refund claim of a FAILED row: pointsDeducted > 0 -> 0, once.          *)
RefundedAlways(o) == TRUE            \* mutant: the claim is not checked

RefundClaimed(o) == order[o].points > 0

(* The transaction, row by row: a PAID row completes the payout, and the     *)
(* order if it has not ended; a FAILED row fails both and refunds the        *)
(* order's points.  The last row decides the payout, a FAILED row anywhere   *)
(* the order.                                                                *)
Settled(t, status, utr) == [t EXCEPT !.status = status, !.utr = utr]

SettleRows(u) ==
  LET paid == upload[u].paid
      failed == upload[u].failed
      refunded == {o \in failed : RefundClaimed(o)}
  IN  /\ txn' = [o \in Orders |->
           IF o \in paid
             THEN Settled(txn[o], IF o \in upload[u].success THEN "SUCCESS" ELSE "FAILED",
                          upload[u].utr[o])
           ELSE IF o \in failed THEN [txn[o] EXCEPT !.status = "FAILED"]
           ELSE txn[o]]
      /\ order' = [o \in Orders |->
           IF o \in failed
             THEN [status |-> "FAILED", points |-> IF o \in refunded THEN 0 ELSE order[o].points]
           ELSE IF o \in paid /\ order[o].status \notin OrderEnded
             THEN [order[o] EXCEPT !.status = "DELIVERED"]
           ELSE order[o]]
      /\ balance' = [p \in Partners |->
           balance[p] + Price * Cardinality({o \in refunded : Owner[o] = p})]

uploadApply(u) ==
  /\ upload[u].pc = "parsed"
  /\ SettleRows(u)
  /\ upload' = [upload EXCEPT ![u] = IdleUpload]
  /\ UNCHANGED <<batch, eligible, process, assign>>

(* Only a preview was asked for.                                             *)
uploadPreview(u) ==
  /\ upload[u].pc = "parsed"
  /\ upload' = [upload EXCEPT ![u] = IdleUpload]
  /\ UNCHANGED <<order, txn, batch, balance, eligible, process, assign>>

-----------------------------------------------------------------------------
Redeeming ==
  \/ \E o \in Orders : confirmRedeem(o)
  \/ \E p \in Partners : EligibilityChanges(p)

Batching ==
  \/ \E b \in Batches, m \in Modes : createBatch(b, m)
  \/ \E a \in Assigners :
       \/ \E b \in Batches : assignRead(a, b)
       \/ assignPendingTransactions(a)

Processing(r) ==
  \/ \E b \in Batches : claimBatch(r, b)
  \/ validate(r) \/ finalise(r) \/ processFails(r) \/ processDies(r)

Reporting(u) ==
  \/ \E b \in Batches, paid, failed, success \in SUBSET Orders,
        utr \in [Orders -> Utrs \cup {NoUtr}] : uploadRead(u, b, paid, failed, success, utr)
  \/ uploadApply(u) \/ uploadPreview(u)

Next ==
  \/ Redeeming
  \/ Batching
  \/ \E r \in Processors : Processing(r)
  \/ \E u \in Uploads : Reporting(u)

Spec == Init /\ [][Next]_vars

-----------------------------------------------------------------------------
(* Types of all the state.                                                   *)
OrderType == [status : {"PENDING", "CONFIRMED", "DELIVERED", "FAILED"}, points : {0, Price}]
TxnType == [status : {"NONE", "PENDING", "INITIATED", "SUCCESS", "FAILED"},
            batch : Batches \cup {NoBatch}, utr : Utrs \cup {NoUtr}]
BatchType == [status : {"NONE", "DRAFT", "PROCESSING", "SUBMITTED", "FAILED"},
              mode : Modes \cup {"NONE"}]
ProcessType == [pc : {"idle", "claimed", "validated"}, batch : Batches \cup {NoBatch},
                valid : SUBSET Orders]
AssignType == [pc : {"idle", "read"}, batch : Batches \cup {NoBatch}]
UploadType == [pc : {"idle", "parsed"}, paid : SUBSET Orders, failed : SUBSET Orders,
               success : SUBSET Orders, utr : [Orders -> Utrs \cup {NoUtr}]]

TypeOK ==
  /\ order \in [Orders -> OrderType]
  /\ txn \in [Orders -> TxnType]
  /\ batch \in [Batches -> BatchType]
  /\ balance \in [Partners -> Nat]
  /\ eligible \subseteq Partners
  /\ process \in [Processors -> ProcessType]
  /\ assign \in [Assigners -> AssignType]
  /\ upload \in [Uploads -> UploadType]

(* A confirmed order has given its points back exactly when it is FAILED,    *)
(* however many reports, and however stale, name its transaction.            *)
RefundedIffFailed ==
  \A o \in Orders : (order[o].points = 0) <=> (order[o].status \in {"PENDING", "FAILED"})

(* A processing that validated a transaction before a report ended it.       *)
Overtaken(o) == \E r \in Processors : o \in process[r].valid \ process'[r].valid

(* What a report settled stands.  An order that FAILED, so whose points are  *)
(* back, stays FAILED; one that was DELIVERED fails only after a processing  *)
(* that the report overtook had put its payout back among the open ones.     *)
(* Only such a processing reopens a payout, and none leaves the batch that   *)
(* first took it.                                                            *)
OutcomeStands ==
  [][\A o \in Orders :
       /\ order[o].status = "FAILED" => order'[o] = order[o]
       /\ (order[o].status = "DELIVERED" /\ order'[o] # order[o]) =>
            txn[o].status = "INITIATED" /\ order'[o].status = "FAILED"
       /\ (txn[o].status \in TERMINAL_PAYOUT /\ txn'[o] # txn[o]) =>
            txn'[o] = [txn[o] EXCEPT !.status = "INITIATED"] /\ Overtaken(o)
       /\ txn[o].batch # NoBatch => txn'[o].batch = txn[o].batch]_vars

(* The bank paid a transaction (it has a reference) or its order's points    *)
(* were given back, not both.                                                *)
PaidOrRefunded ==
  \A o \in Orders : txn[o].utr # NoUtr => order[o].points > 0

(* No bank reference settles two transactions; two reports at once may each  *)
(* find it free.                                                             *)
UtrsDistinct ==
  \A o, q \in Orders : (o # q /\ txn[o].utr = txn[q].utr) => txn[o].utr = NoUtr

(* A batch is PROCESSING exactly while one request is processing it: no two  *)
(* win the claim, and only a process that dies leaves the batch behind.      *)
Holders(b) == {r \in Processors : process[r].batch = b}

HeldByOne(b) ==
  IF batch[b].status = "PROCESSING"
    THEN \E r \in Processors : Holders(b) = {r}
    ELSE Holders(b) = {}

NeverStranded ==
  [][\A b \in Batches : HeldByOne(b) => HeldByOne(b)' \/ \E r \in Processors : processDies(r)]_vars

(* What an order holds and whether it was charged, as PointsHold sees it.    *)
Hold == INSTANCE PointsHold WITH
  holder <- [o \in Orders |-> IF order[o].points > 0 THEN Owner[o] ELSE NoPartner],
  charged <- {o \in Orders : txn[o].status # "NONE"}

(* The settlement of cash redemptions implements PointsHold.                 *)
ImplementsHold == Hold!Spec

-----------------------------------------------------------------------------
(* Said by comments in the code, and not kept by it: README, "Divergences".  *)

(* Only a transaction that processing has flagged, so whose partner was      *)
(* eligible, is paid.                                                        *)
PaidAfterFlagged ==
  [][\A o \in Orders : txn[o].status = "PENDING" => txn'[o].status # "SUCCESS"]_vars
=============================================================================
