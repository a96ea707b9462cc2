----------------------- MODULE PayoutSettlementProofs -----------------------
(* Proofs about PayoutSettlement, for every number of orders, batches and   *)
(* requests: the types, that an order's points are given back exactly when  *)
(* it FAILED, that the settlement implements PointsHold, and that a batch   *)
(* is left PROCESSING by a dead request only; and, for one report at a      *)
(* time, that what it settled stays settled.                                *)
EXTENDS PayoutSettlement, FiniteSetTheorems, TLAPS

USE PayoutAssumption

(* A transaction exists from the confirmation of its order on, and only     *)
(* then does a batch or a request hold it.                                  *)
Confirmed == {o \in Orders : txn[o].status # "NONE"}

Linked ==
  /\ \A o \in Orders : (order[o].status = "PENDING") <=> (txn[o].status = "NONE")
  /\ \A o \in Orders : txn[o].batch # NoBatch => o \in Confirmed
  /\ \A r \in Processors : /\ process[r].valid \subseteq Confirmed
                           /\ process[r].pc # "idle" => process[r].batch \in Batches
  /\ \A a \in Assigners : assign[a].pc # "idle" => assign[a].batch \in Batches
  /\ \A u \in Uploads : /\ upload[u].paid \subseteq Confirmed
                        /\ upload[u].failed \subseteq Confirmed

PInv == TypeOK /\ RefundedIffFailed /\ Linked

LEMMA PInvInit == Init => PInv
  BY DEF Init, PInv, TypeOK, RefundedIffFailed, Linked, Confirmed,
         IdleProcess, IdleAssign, IdleUpload,
         OrderType, TxnType, BatchType, ProcessType, AssignType, UploadType

(* Setting one field of a row.                                              *)
LEMMA SetTxn ==
  ASSUME NEW r \in TxnType, NEW s \in {"INITIATED", "FAILED"}
  PROVE  /\ [r EXCEPT !.status = s] \in TxnType
         /\ [r EXCEPT !.status = s].status = s
         /\ [r EXCEPT !.status = s].batch = r.batch
  BY DEF TxnType

LEMMA SetTxnBatch ==
  ASSUME NEW r \in TxnType, NEW b \in Batches
  PROVE  /\ [r EXCEPT !.batch = b] \in TxnType
         /\ [r EXCEPT !.batch = b].status = r.status
  BY DEF TxnType

LEMMA SetTxnPaid ==
  \A r \in TxnType, s \in {"SUCCESS", "FAILED"}, x \in Utrs \cup {NoUtr} :
    /\ Settled(r, s, x) \in TxnType
    /\ Settled(r, s, x).status = s
    /\ Settled(r, s, x).batch = r.batch
    /\ Settled(r, s, x).utr = x
  BY DEF TxnType, Settled

LEMMA SetOrder ==
  ASSUME NEW r \in OrderType
  PROVE  /\ [r EXCEPT !.status = "DELIVERED"] \in OrderType
         /\ [r EXCEPT !.status = "DELIVERED"].status = "DELIVERED"
         /\ [r EXCEPT !.status = "DELIVERED"].points = r.points
  BY DEF OrderType

LEMMA SetBatch ==
  ASSUME NEW r \in BatchType, NEW s \in {"PROCESSING", "SUBMITTED", "FAILED"}
  PROVE  [r EXCEPT !.status = s] \in BatchType
  BY DEF BatchType

LEMMA PInvNext == PInv /\ [Next]_vars => PInv'
<1> SUFFICES ASSUME PInv, [Next]_vars PROVE PInv'
  OBVIOUS
<1> USE DEF PInv
<1>1. ASSUME NEW o \in Orders, confirmRedeem(o) PROVE PInv'
  <2> DEFINE p == Owner[o]
  <2>1. /\ p \in Partners /\ order[o].status = "PENDING" /\ balance[p] >= Price
        /\ order' = [order EXCEPT ![o] = [status |-> "CONFIRMED", points |-> Price]]
        /\ balance' = [balance EXCEPT ![p] = @ - Price]
        /\ txn' = [txn EXCEPT ![o] = [status |-> "PENDING", batch |-> NoBatch, utr |-> NoUtr]]
        /\ UNCHANGED <<batch, eligible, process, assign, upload>>
    BY <1>1 DEF confirmRedeem, Covers
  <2> HIDE DEF p
  <2>2. order' \in [Orders -> OrderType]
    BY <2>1 DEF TypeOK, OrderType
  <2>3. txn' \in [Orders -> TxnType]
    BY <2>1 DEF TypeOK, TxnType
  <2>4. balance' \in [Partners -> Nat]
    BY <2>1 DEF TypeOK
  <2>5. TypeOK'
    BY <2>1, <2>2, <2>3, <2>4 DEF TypeOK
  <2>6. /\ order'[o].status = "CONFIRMED" /\ order'[o].points = Price
        /\ \A q \in Orders \ {o} : order'[q] = order[q]
        /\ txn'[o].status = "PENDING" /\ txn'[o].batch = NoBatch
        /\ \A q \in Orders \ {o} : txn'[q] = txn[q]
    BY <2>1 DEF TypeOK
  <2>7. RefundedIffFailed'
    BY <2>6 DEF RefundedIffFailed
  <2>8. Confirmed \subseteq Confirmed'
    BY <2>6 DEF Confirmed
  <2>9. Linked'
    BY <2>1, <2>6, <2>8 DEF Linked, Confirmed
  <2> QED BY <2>5, <2>7, <2>9
<1>2. ASSUME NEW p \in Partners, EligibilityChanges(p) PROVE PInv'
  <2>1. eligible' \subseteq Partners /\ UNCHANGED <<order, txn, batch, balance, process, assign, upload>>
    BY <1>2 DEF EligibilityChanges, TypeOK
  <2> QED BY <2>1 DEF TypeOK, RefundedIffFailed, Linked, Confirmed
<1>3. ASSUME NEW b \in Batches, NEW m \in Modes, createBatch(b, m) PROVE PInv'
  <2>1. batch' \in [Batches -> BatchType] /\ UNCHANGED <<order, txn, balance, eligible, process, assign, upload>>
    BY <1>3 DEF createBatch, TypeOK, BatchType
  <2> QED BY <2>1 DEF TypeOK, RefundedIffFailed, Linked, Confirmed
<1>4. ASSUME NEW a \in Assigners, NEW b \in Batches, assignRead(a, b) PROVE PInv'
  <2>1. /\ assign' = [assign EXCEPT ![a] = [pc |-> "read", batch |-> b]]
        /\ UNCHANGED <<order, txn, batch, balance, eligible, process, upload>>
    BY <1>4 DEF assignRead
  <2>2. assign' \in [Assigners -> AssignType]
    BY <2>1 DEF TypeOK, AssignType
  <2>3. TypeOK' /\ RefundedIffFailed'
    BY <2>1, <2>2 DEF TypeOK, RefundedIffFailed
  <2>4. Linked'
    BY <2>1 DEF Linked, Confirmed, TypeOK
  <2> QED BY <2>3, <2>4
<1>5. ASSUME NEW a \in Assigners, assignPendingTransactions(a) PROVE PInv'
  <2> DEFINE b == assign[a].batch
  <2>1. /\ b \in Batches
        /\ txn' = [o \in Orders |-> IF o \in Waiting(b) THEN [txn[o] EXCEPT !.batch = b] ELSE txn[o]]
        /\ assign' = [assign EXCEPT ![a] = IdleAssign]
        /\ UNCHANGED <<order, batch, balance, eligible, process, upload>>
    BY <1>5 DEF assignPendingTransactions, Linked
  <2>2. \A o \in Waiting(b) : txn[o].status = "PENDING"
    BY DEF Waiting
  <2> HIDE DEF b
  <2>3. \A o \in Orders : /\ txn[o] \in TxnType
                          /\ [txn[o] EXCEPT !.batch = b] \in TxnType
                          /\ [txn[o] EXCEPT !.batch = b].status = txn[o].status
    BY <2>1, SetTxnBatch DEF TypeOK
  <2>4. txn' \in [Orders -> TxnType]
    BY <2>1, <2>3
  <2>5. \A o \in Orders : /\ txn'[o].status = txn[o].status
                          /\ o \in Waiting(b) \/ txn'[o].batch = txn[o].batch
    BY <2>1, <2>3
  <2>6. assign' \in [Assigners -> AssignType]
    BY <2>1 DEF TypeOK, AssignType, IdleAssign
  <2>7. TypeOK' /\ RefundedIffFailed'
    BY <2>1, <2>4, <2>6 DEF TypeOK, RefundedIffFailed
  <2>8. Confirmed' = Confirmed
    BY <2>5 DEF Confirmed
  <2>9. \A c \in Assigners : assign'[c].pc # "idle" => assign'[c].batch \in Batches
    BY <2>1 DEF Linked, TypeOK, IdleAssign
  <2>10. \A o \in Waiting(b) : o \in Confirmed
    BY <2>2 DEF Waiting, Confirmed
  <2>11. Linked'
    BY <2>1, <2>5, <2>8, <2>9, <2>10 DEF Linked
  <2> QED BY <2>7, <2>11
<1>6. ASSUME NEW r \in Processors, NEW b \in Batches, claimBatch(r, b) PROVE PInv'
  <2>1. /\ batch' = [batch EXCEPT ![b].status = "PROCESSING"]
        /\ process' = [process EXCEPT ![r] = [pc |-> "claimed", batch |-> b, valid |-> {}]]
        /\ UNCHANGED <<order, txn, balance, eligible, assign, upload>>
    BY <1>6 DEF claimBatch
  <2>2. batch' \in [Batches -> BatchType]
    BY <2>1, SetBatch DEF TypeOK
  <2>3. process' \in [Processors -> ProcessType]
    BY <2>1 DEF TypeOK, ProcessType
  <2>4. TypeOK' /\ RefundedIffFailed'
    BY <2>1, <2>2, <2>3 DEF TypeOK, RefundedIffFailed
  <2>5. Linked'
    BY <2>1 DEF Linked, Confirmed, TypeOK
  <2> QED BY <2>4, <2>5
<1>7. ASSUME NEW r \in Processors, validate(r) PROVE PInv'
  <2> DEFINE valid == {o \in {q \in Orders : txn[q].batch = process[r].batch /\ txn[q].status = "PENDING"} :
                         Owner[o] \in eligible}
  <2>1. /\ process[r].batch \in Batches
        /\ process' = [process EXCEPT ![r] =
             [pc |-> "validated", batch |-> process[r].batch, valid |-> valid]]
        /\ UNCHANGED <<order, txn, batch, balance, eligible, assign, upload>>
    BY <1>7 DEF validate, Linked
  <2>2. valid \subseteq Confirmed /\ valid \subseteq Orders
    BY DEF Confirmed
  <2> HIDE DEF valid
  <2>3. process' \in [Processors -> ProcessType]
    BY <2>1, <2>2 DEF TypeOK, ProcessType
  <2>4. TypeOK' /\ RefundedIffFailed'
    BY <2>1, <2>3 DEF TypeOK, RefundedIffFailed
  <2>5. Confirmed' = Confirmed
    BY <2>1 DEF Confirmed
  <2>6. Linked'
    BY <2>1, <2>2, <2>5 DEF Linked, TypeOK
  <2> QED BY <2>4, <2>6
<1>8. ASSUME NEW r \in Processors, finalise(r) PROVE PInv'
  <2>1. /\ process[r].batch \in Batches /\ process[r].valid \subseteq Confirmed
        /\ txn' = [o \in Orders |->
             IF o \in process[r].valid THEN [txn[o] EXCEPT !.status = "INITIATED"] ELSE txn[o]]
        /\ batch' = [batch EXCEPT ![process[r].batch].status = "SUBMITTED"]
        /\ process' = [process EXCEPT ![r] = IdleProcess]
        /\ UNCHANGED <<order, balance, eligible, assign, upload>>
    BY <1>8 DEF finalise, Linked
  <2>2. \A o \in Orders : LET t == [txn[o] EXCEPT !.status = "INITIATED"]
                          IN  t \in TxnType /\ t.status = "INITIATED" /\ t.batch = txn[o].batch
    BY SetTxn DEF TypeOK
  <2>3. txn' \in [Orders -> TxnType]
    BY <2>1, <2>2 DEF TypeOK
  <2>4. batch' \in [Batches -> BatchType]
    BY <2>1, SetBatch DEF TypeOK
  <2>5. process' \in [Processors -> ProcessType]
    BY <2>1 DEF TypeOK, ProcessType, IdleProcess
  <2>6. TypeOK' /\ RefundedIffFailed'
    BY <2>1, <2>3, <2>4, <2>5 DEF TypeOK, RefundedIffFailed
  <2>7. \A o \in Orders : /\ (txn'[o].status = "NONE") <=> (txn[o].status = "NONE")
                          /\ txn'[o].batch = txn[o].batch
    BY <2>1, <2>2 DEF Confirmed
  <2>8. Confirmed' = Confirmed
    BY <2>7 DEF Confirmed
  <2>9. \A s \in Processors : process'[s] = process[s] \/ process'[s] = IdleProcess
    BY <2>1 DEF TypeOK
  <2>10. Linked'
    BY <2>1, <2>7, <2>8, <2>9 DEF Linked, IdleProcess
  <2> QED BY <2>6, <2>10
<1>9. ASSUME NEW r \in Processors, processFails(r) \/ processDies(r) PROVE PInv'
  <2>1. /\ process[r].batch \in Batches
        /\ \/ batch' = [batch EXCEPT ![process[r].batch].status = "FAILED"]
           \/ batch' = batch
        /\ process' = [process EXCEPT ![r] = IdleProcess]
        /\ UNCHANGED <<order, txn, balance, eligible, assign, upload>>
    BY <1>9 DEF processFails, processDies, ResetTo, Linked
  <2>2. batch' \in [Batches -> BatchType]
    <3>1. [batch[process[r].batch] EXCEPT !.status = "FAILED"] \in BatchType
      BY <2>1, SetBatch DEF TypeOK
    <3> QED BY <2>1, <3>1 DEF TypeOK
  <2>3. process' \in [Processors -> ProcessType]
    BY <2>1 DEF TypeOK, ProcessType, IdleProcess
  <2>4. TypeOK' /\ RefundedIffFailed'
    BY <2>1, <2>2, <2>3 DEF TypeOK, RefundedIffFailed
  <2>5. Linked'
    BY <2>1 DEF Linked, Confirmed, TypeOK, IdleProcess
  <2> QED BY <2>4, <2>5
<1>10. ASSUME NEW u \in Uploads, NEW b \in Batches, NEW paid \in SUBSET Orders,
              NEW failed \in SUBSET Orders, NEW success \in SUBSET Orders,
              NEW utr \in [Orders -> Utrs \cup {NoUtr}],
              uploadRead(u, b, paid, failed, success, utr)
       PROVE  PInv'
  <2> DEFINE rows == {o \in Orders : txn[o].batch = b}
             rest(S) == S \ Skipped
  <2>1. /\ upload' = [upload EXCEPT ![u] =
             [pc |-> "parsed", paid |-> rest(paid), failed |-> rest(failed),
              success |-> rest(success), utr |-> utr]]
        /\ paid \subseteq rows /\ failed \subseteq rows
        /\ UNCHANGED <<order, txn, batch, balance, eligible, process, assign>>
    BY <1>10 DEF uploadRead
  <2>2. rows \subseteq Confirmed
    BY DEF Linked
  <2>3. rest(paid) \subseteq Confirmed /\ rest(failed) \subseteq Confirmed
    BY <2>1, <2>2
  <2>4. /\ rest(paid) \subseteq Orders /\ rest(failed) \subseteq Orders
        /\ rest(success) \subseteq Orders
    OBVIOUS
  <2> HIDE DEF rest, rows
  <2>5. upload' \in [Uploads -> UploadType]
    BY <2>1, <2>4 DEF TypeOK, UploadType
  <2>6. TypeOK' /\ RefundedIffFailed'
    BY <2>1, <2>5 DEF TypeOK, RefundedIffFailed
  <2>7. Confirmed' = Confirmed
    BY <2>1 DEF Confirmed
  <2>8. Linked'
    BY <2>1, <2>3, <2>7 DEF Linked, TypeOK
  <2> QED BY <2>6, <2>8
<1>11. ASSUME NEW u \in Uploads, uploadPreview(u) PROVE PInv'
  <2>1. /\ upload' = [upload EXCEPT ![u] = IdleUpload]
        /\ UNCHANGED <<order, txn, batch, balance, eligible, process, assign>>
    BY <1>11 DEF uploadPreview
  <2>2. upload' \in [Uploads -> UploadType]
    BY <2>1 DEF TypeOK, UploadType, IdleUpload
  <2>3. TypeOK' /\ RefundedIffFailed'
    BY <2>1, <2>2 DEF TypeOK, RefundedIffFailed
  <2>4. Linked'
    BY <2>1 DEF Linked, Confirmed, TypeOK, IdleUpload
  <2> QED BY <2>3, <2>4
<1>12. ASSUME NEW u \in Uploads, uploadApply(u) PROVE PInv'
  <2> DEFINE paid == upload[u].paid
             failed == upload[u].failed
             refunded == {o \in failed : RefundClaimed(o)}
             end(o) == IF o \in upload[u].success THEN "SUCCESS" ELSE "FAILED"
  <2>1. /\ txn' = [o \in Orders |->
             IF o \in paid THEN Settled(txn[o], end(o), upload[u].utr[o])
             ELSE IF o \in failed THEN [txn[o] EXCEPT !.status = "FAILED"]
             ELSE txn[o]]
        /\ order' = [o \in Orders |->
             IF o \in failed
               THEN [status |-> "FAILED", points |-> IF o \in refunded THEN 0 ELSE order[o].points]
             ELSE IF o \in paid /\ order[o].status \notin OrderEnded
               THEN [order[o] EXCEPT !.status = "DELIVERED"]
             ELSE order[o]]
        /\ balance' = [p \in Partners |->
             balance[p] + Price * Cardinality({o \in refunded : Owner[o] = p})]
        /\ upload' = [upload EXCEPT ![u] = IdleUpload]
        /\ UNCHANGED <<batch, eligible, process, assign>>
    BY <1>12 DEF uploadApply, SettleRows
  <2>2. /\ upload[u] \in UploadType /\ paid \subseteq Confirmed /\ failed \subseteq Confirmed
    BY DEF Linked, TypeOK
  <2>3. /\ paid \subseteq Orders /\ failed \subseteq Orders
        /\ upload[u].utr \in [Orders -> Utrs \cup {NoUtr}]
    BY <2>2 DEF UploadType
  <2>4. /\ refunded \subseteq failed
        /\ \A o \in failed : o \in refunded <=> order[o].points > 0
    BY DEF RefundClaimed
  <2>17. \A o : end(o) \in {"SUCCESS", "FAILED"}
    OBVIOUS
  <2> HIDE DEF paid, failed, refunded, end
  <2>5. \A o \in Orders :
          LET t == Settled(txn[o], end(o), upload[u].utr[o])
              f == [txn[o] EXCEPT !.status = "FAILED"]
          IN  /\ t \in TxnType /\ t.status = end(o) /\ t.batch = txn[o].batch
              /\ f \in TxnType /\ f.status = "FAILED" /\ f.batch = txn[o].batch
              /\ txn[o] \in TxnType
    <3> TAKE o \in Orders
    <3>1. txn[o] \in TxnType /\ upload[u].utr[o] \in Utrs \cup {NoUtr}
      BY <2>3 DEF TypeOK
    <3>2. /\ Settled(txn[o], end(o), upload[u].utr[o]) \in TxnType
          /\ Settled(txn[o], end(o), upload[u].utr[o]).status = end(o)
          /\ Settled(txn[o], end(o), upload[u].utr[o]).batch = txn[o].batch
      <4>1. \A r \in TxnType, s \in {"SUCCESS", "FAILED"}, x \in Utrs \cup {NoUtr} :
              /\ Settled(r, s, x) \in TxnType
              /\ Settled(r, s, x).status = s
              /\ Settled(r, s, x).batch = r.batch
        BY SetTxnPaid
      <4>2. end(o) \in {"SUCCESS", "FAILED"}
        BY <2>17
      <4> QED BY <4>1, <4>2, <3>1
    <3>3. LET f == [txn[o] EXCEPT !.status = "FAILED"]
          IN  f \in TxnType /\ f.status = "FAILED" /\ f.batch = txn[o].batch
      BY <3>1, SetTxn
    <3> QED BY <3>1, <3>2, <3>3
  <2>6. txn' \in [Orders -> TxnType]
    BY <2>1, <2>5
  <2>7. \A o \in Orders :
          LET d == [order[o] EXCEPT !.status = "DELIVERED"]
              f == [status |-> "FAILED", points |-> IF o \in refunded THEN 0 ELSE order[o].points]
          IN  /\ d \in OrderType /\ d.status = "DELIVERED" /\ d.points = order[o].points
              /\ f \in OrderType
              /\ order[o] \in OrderType
    <3> TAKE o \in Orders
    <3>1. order[o] \in OrderType
      BY DEF TypeOK
    <3>2. order[o].points \in {0, Price}
      BY <3>1 DEF OrderType
    <3> QED BY <3>1, <3>2, SetOrder DEF OrderType
  <2>8. order' \in [Orders -> OrderType]
    BY <2>1, <2>7
  <2>9. balance' \in [Partners -> Nat]
    <3>1. \A p \in Partners : Cardinality({o \in refunded : Owner[o] = p}) \in Nat
      <4> TAKE p \in Partners
      <4>1. IsFiniteSet({o \in refunded : Owner[o] = p})
        BY <2>3, <2>4, FS_Subset
      <4> QED BY <4>1, FS_CardinalityType
    <3>2. \A n \in Nat : Price * n \in Nat
      OBVIOUS
    <3>3. \A p \in Partners : balance[p] \in Nat
      BY DEF TypeOK
    <3>4. \A p \in Partners :
            balance[p] + Price * Cardinality({o \in refunded : Owner[o] = p}) \in Nat
      <4> TAKE p \in Partners
      <4> DEFINE n == Cardinality({o \in refunded : Owner[o] = p})
      <4>1. n \in Nat
        BY <3>1
      <4> HIDE DEF n
      <4>2. Price * n \in Nat
        BY <4>1, <3>2
      <4>3. balance[p] + Price * n \in Nat
        BY <3>3, <4>2
      <4> QED BY <4>3 DEF n
    <3> QED BY <2>1, <3>4
  <2>10. upload' \in [Uploads -> UploadType]
    BY <2>1 DEF TypeOK, UploadType, IdleUpload
  <2>11. TypeOK'
    BY <2>1, <2>6, <2>8, <2>9, <2>10 DEF TypeOK
  <2>12. \A o \in Orders :
           /\ o \in paid \cup failed => order[o].status # "PENDING" /\ txn'[o].status # "NONE"
           /\ o \notin paid \cup failed => txn'[o] = txn[o] /\ order'[o] = order[o]
           /\ txn'[o].batch = txn[o].batch
           /\ order'[o].status = "PENDING" => order[o].status = "PENDING"
    <3> TAKE o \in Orders
    <3>1. o \in Confirmed => order[o].status # "PENDING"
      BY DEF Linked, Confirmed
    <3>2. txn'[o].batch = txn[o].batch /\ (o \in paid \cup failed => txn'[o].status # "NONE")
      BY <2>1, <2>5, <2>17
    <3>3. order'[o].status = "PENDING" => order[o].status = "PENDING"
      BY <2>1, <2>7
    <3>4. o \notin paid \cup failed => txn'[o] = txn[o] /\ order'[o] = order[o]
      BY <2>1
    <3> QED BY <2>2, <3>1, <3>2, <3>3, <3>4
  <2>13. RefundedIffFailed'
    <3> SUFFICES ASSUME NEW o \in Orders
                 PROVE  (order'[o].points = 0) <=> (order'[o].status \in {"PENDING", "FAILED"})
      BY DEF RefundedIffFailed
    <3>1. (order[o].points = 0) <=> (order[o].status \in {"PENDING", "FAILED"})
      BY DEF RefundedIffFailed
    <3>2. CASE o \in failed
      <4>1. order'[o] = [status |-> "FAILED", points |-> IF o \in refunded THEN 0 ELSE order[o].points]
        BY <2>1, <3>2
      <4>2. order[o].points \in {0, Price}
        BY <2>7 DEF OrderType
      <4> QED BY <2>4, <3>2, <4>1, <4>2
    <3>3. CASE o \notin failed /\ o \in paid /\ order[o].status \notin OrderEnded
      BY <2>1, <2>7, <2>12, <3>1, <3>3 DEF OrderEnded
    <3>4. CASE o \notin failed /\ ~(o \in paid /\ order[o].status \notin OrderEnded)
      BY <2>1, <3>1, <3>4
    <3> QED BY <3>2, <3>3, <3>4
  <2>14. Confirmed \subseteq Confirmed'
    BY <2>2, <2>12 DEF Confirmed
  <2>15. \A v \in Uploads : upload'[v] = upload[v] \/ upload'[v] = IdleUpload
    BY <2>1 DEF TypeOK
  <2>16. Linked'
    <3>1. \A o \in Orders : (order'[o].status = "PENDING") <=> (txn'[o].status = "NONE")
      BY <2>12 DEF Linked
    <3>2. \A o \in Orders : txn'[o].batch # NoBatch => o \in Confirmed'
      BY <2>12, <2>14 DEF Linked
    <3>3. \A v \in Uploads : upload'[v].paid \subseteq Confirmed' /\ upload'[v].failed \subseteq Confirmed'
      BY <2>14, <2>15 DEF Linked, IdleUpload
    <3> QED BY <2>1, <2>14, <3>1, <3>2, <3>3 DEF Linked
  <2> QED BY <2>11, <2>13, <2>16
<1>13. CASE UNCHANGED vars
  BY <1>13 DEF vars, TypeOK, RefundedIffFailed, Linked, Confirmed
<1> QED
  BY <1>1, <1>2, <1>3, <1>4, <1>5, <1>6, <1>7, <1>8, <1>9, <1>10, <1>11, <1>12, <1>13
     DEF Next, Redeeming, Batching, Processing, Reporting

(* In every interleaving of processing, sweeping and reports the types hold. *)
THEOREM PayoutTypeCorrect == Spec => []TypeOK
<1>1. PInv => TypeOK
  BY DEF PInv
<1> QED BY <1>1, PInvInit, PInvNext, PTL DEF Spec

(* ... and a confirmed cash order has its points back exactly when it FAILED.*)
THEOREM PayoutRefundsTheFailed == Spec => []RefundedIffFailed
<1>1. PInv => RefundedIffFailed
  BY DEF PInv
<1> QED BY <1>1, PInvInit, PInvNext, PTL DEF Spec

-----------------------------------------------------------------------------
(* The refinement.  What PointsHold sees of the rows:                        *)
holderBar == [o \in Orders |-> IF order[o].points > 0 THEN Owner[o] ELSE NoPartner]

(* The confirmation charges the order.                                       *)
LEMMA ConfirmCharges ==
  ASSUME PInv, NEW o \in Orders, confirmRedeem(o)
  PROVE  Hold!Charge(o, Owner[o])
<1> DEFINE p == Owner[o]
<1>1. /\ p \in Partners /\ order[o].status = "PENDING" /\ balance[p] >= Price
      /\ order' = [order EXCEPT ![o] = [status |-> "CONFIRMED", points |-> Price]]
      /\ balance' = [balance EXCEPT ![p] = @ - Price]
      /\ txn' = [txn EXCEPT ![o] = [status |-> "PENDING", batch |-> NoBatch, utr |-> NoUtr]]
  BY DEF confirmRedeem, Covers
<1>2. /\ order'[o].points = Price /\ \A q \in Orders \ {o} : order'[q] = order[q]
      /\ txn'[o].status = "PENDING" /\ \A q \in Orders \ {o} : txn'[q] = txn[q]
  BY <1>1 DEF PInv, TypeOK
<1>3. o \notin Confirmed /\ Confirmed' = Confirmed \cup {o}
  BY <1>1, <1>2 DEF PInv, Linked, Confirmed
<1>4. \A q \in Orders : (IF order'[q].points > 0 THEN Owner[q] ELSE NoPartner)
                       = IF q = o THEN p ELSE holderBar[q]
  BY <1>2 DEF holderBar
<1>5. holderBar' = [q \in Orders |-> IF q = o THEN p ELSE holderBar[q]]
  BY <1>4 DEF holderBar
<1>6. holderBar' = [holderBar EXCEPT ![o] = p]
  BY <1>5 DEF holderBar
<1> QED BY <1>1, <1>3, <1>6 DEF Hold!Charge, holderBar, Confirmed

(* A report refunds the orders its FAILED rows claim, in one transaction.    *)
LEMMA ReportRefunds ==
  ASSUME PInv, NEW u \in Uploads, uploadApply(u)
  PROVE  \E S \in SUBSET Orders : Hold!Refund(S)
<1> DEFINE paid == upload[u].paid
           failed == upload[u].failed
           S == {o \in failed : RefundClaimed(o)}
           end(o) == IF o \in upload[u].success THEN "SUCCESS" ELSE "FAILED"
<1>1. /\ txn' = [o \in Orders |->
           IF o \in paid THEN Settled(txn[o], end(o), upload[u].utr[o])
           ELSE IF o \in failed THEN [txn[o] EXCEPT !.status = "FAILED"]
           ELSE txn[o]]
      /\ order' = [o \in Orders |->
           IF o \in failed
             THEN [status |-> "FAILED", points |-> IF o \in S THEN 0 ELSE order[o].points]
           ELSE IF o \in paid /\ order[o].status \notin OrderEnded
             THEN [order[o] EXCEPT !.status = "DELIVERED"]
           ELSE order[o]]
      /\ balance' = [p \in Partners |->
           balance[p] + Price * Cardinality({o \in S : Owner[o] = p})]
  BY DEF uploadApply, SettleRows
<1>2. /\ upload[u] \in UploadType /\ paid \subseteq Confirmed /\ failed \subseteq Confirmed
  BY DEF PInv, Linked, TypeOK
<1>3. S \subseteq Orders /\ \A o \in S : order[o].points > 0
  BY <1>2 DEF UploadType, RefundClaimed
<1>13. \A o : end(o) \in {"SUCCESS", "FAILED"}
  OBVIOUS
<1> HIDE DEF paid, failed, end
<1>4. \A o \in S : o \in failed
  OBVIOUS
<1>5. Confirmed' = Confirmed
  <2> SUFFICES ASSUME NEW o \in Orders
               PROVE  (txn'[o].status # "NONE") <=> (txn[o].status # "NONE")
    BY DEF Confirmed
  <2>1. CASE o \in paid \cup failed
    <3>1. txn[o] \in TxnType /\ txn[o].status # "NONE"
      BY <1>2, <2>1 DEF Confirmed, PInv, TypeOK
    <3>2. upload[u].utr[o] \in Utrs \cup {NoUtr}
      BY <1>2 DEF UploadType
    <3>3. /\ Settled(txn[o], end(o), upload[u].utr[o]).status # "NONE"
          /\ [txn[o] EXCEPT !.status = "FAILED"].status = "FAILED"
      BY <1>13, <3>1, <3>2, SetTxnPaid DEF TxnType
    <3> QED BY <1>1, <2>1, <3>1, <3>3
  <2>2. CASE o \notin paid \cup failed
    BY <1>1, <2>2
  <2> QED BY <2>1, <2>2
<1>6. holderBar' = [o \in Orders |-> IF o \in S THEN NoPartner ELSE holderBar[o]]
  <2>1. ASSUME NEW o \in Orders
        PROVE  (IF order'[o].points > 0 THEN Owner[o] ELSE NoPartner)
                 = IF o \in S THEN NoPartner ELSE holderBar[o]
    <3>1. order[o] \in OrderType
      BY DEF PInv, TypeOK
    <3>2. [order[o] EXCEPT !.status = "DELIVERED"].points = order[o].points
      BY <3>1, SetOrder
    <3>3. o \in S => order[o].points > 0 /\ o \in failed
      BY <1>3
    <3>4. \/ o \in S /\ order'[o].points = 0
          \/ o \notin S /\ order'[o].points = order[o].points
      <4>1. CASE o \in S
        BY <1>1, <1>2, <3>3, <4>1
      <4>2. CASE o \notin S
        BY <1>1, <3>2, <4>2
      <4> QED BY <4>1, <4>2
    <3> QED BY <3>4 DEF holderBar
  <2> QED BY <2>1 DEF holderBar
<1>7. \A o \in S : holderBar[o] = Owner[o] /\ Owner[o] # NoPartner
  BY <1>3 DEF holderBar
<1>8. \A p \in Partners : {o \in S : Owner[o] = p} = {o \in S : holderBar[o] = p}
  BY <1>7
<1>9. balance' = [p \in Partners |->
        balance[p] + Price * Cardinality({o \in S : holderBar[o] = p})]
  BY <1>1, <1>8
<1>10. \A T : Hold!Cardinality(T) = Cardinality(T)
  BY Zenon DEF Hold!Cardinality, Cardinality
<1> HIDE DEF S
<1>11. PICK T \in SUBSET Orders : T = S
  BY <1>3
<1>12. Hold!Refund(T)
  BY <1>5, <1>6, <1>7, <1>9, <1>10, <1>11 DEF Hold!Refund, holderBar, Confirmed
<1> QED BY <1>12

(* Every other step leaves the money alone.                                  *)
LEMMA StepRefines ==
  ASSUME PInv, [Next]_vars
  PROVE  [Hold!Next]_(Hold!holdVars)
<1> DEFINE Stutter == UNCHANGED <<balance, holderBar, Confirmed>>
<1>1. Stutter => [Hold!Next]_(Hold!holdVars)
  BY DEF Hold!holdVars, holderBar, Confirmed
<1>2. ASSUME UNCHANGED <<balance, order>>,
             \A o \in Orders : (txn'[o].status = "NONE") <=> (txn[o].status = "NONE")
      PROVE  Stutter
  BY <1>2 DEF holderBar, Confirmed
<1>3. ASSUME NEW o \in Orders, confirmRedeem(o) PROVE Hold!Next
  <2>1. Owner[o] \in Partners
    OBVIOUS
  <2> QED BY <1>3, <2>1, ConfirmCharges DEF Hold!Next
<1>4. ASSUME NEW u \in Uploads, uploadApply(u) PROVE Hold!Next
  BY <1>4, ReportRefunds DEF Hold!Next
<1>5. ASSUME NEW a \in Assigners, assignPendingTransactions(a) PROVE Stutter
  <2>1. \A o \in Orders : [txn[o] EXCEPT !.batch = assign[a].batch].status = txn[o].status
    BY DEF PInv, TypeOK, TxnType
  <2>2. \A o \in Orders : \/ txn'[o] = txn[o]
                          \/ txn'[o] = [txn[o] EXCEPT !.batch = assign[a].batch]
    BY <1>5 DEF assignPendingTransactions
  <2>3. UNCHANGED <<balance, order>>
    BY <1>5 DEF assignPendingTransactions
  <2> QED BY <1>2, <2>1, <2>2, <2>3
<1>6. ASSUME NEW r \in Processors, finalise(r) PROVE Stutter
  <2>1. \A o \in Orders : [txn[o] EXCEPT !.status = "INITIATED"].status = "INITIATED"
    BY SetTxn DEF PInv, TypeOK
  <2>2. \A o \in Orders : \/ txn'[o] = txn[o]
                          \/ /\ o \in process[r].valid
                             /\ txn'[o] = [txn[o] EXCEPT !.status = "INITIATED"]
    BY <1>6 DEF finalise
  <2>3. \A o \in process[r].valid : txn[o].status # "NONE"
    BY DEF PInv, Linked, Confirmed
  <2>4. UNCHANGED <<balance, order>>
    BY <1>6 DEF finalise
  <2> QED BY <1>2, <2>1, <2>2, <2>3, <2>4
<1>7. CASE UNCHANGED <<balance, order, txn>>
  BY <1>1, <1>2, <1>7
<1> HIDE DEF Stutter
<1>8. CASE Redeeming
  <2>1. CASE \E p \in Partners : EligibilityChanges(p)
    BY <1>1, <1>7, <2>1 DEF EligibilityChanges
  <2> QED BY <1>3, <1>8, <2>1 DEF Redeeming
<1>9. CASE Batching
  BY <1>1, <1>5, <1>7, <1>9 DEF Batching, createBatch, assignRead
<1>10. ASSUME NEW r \in Processors, Processing(r) PROVE [Hold!Next]_(Hold!holdVars)
  BY <1>1, <1>6, <1>7, <1>10 DEF Processing, claimBatch, validate, processFails, processDies
<1>11. ASSUME NEW u \in Uploads, Reporting(u) PROVE [Hold!Next]_(Hold!holdVars)
  BY <1>1, <1>4, <1>7, <1>11 DEF Reporting, uploadRead, uploadPreview
<1> QED BY <1>1, <1>7, <1>8, <1>9, <1>10, <1>11 DEF Next, vars

(* Every behaviour of the settlement is one PointsHold allows.               *)
THEOREM PayoutImplementsHold == Spec => ImplementsHold
<1>1. Init => Hold!Init
  BY DEF Init, Hold!Init
<1>2. PInv /\ [Next]_vars => [Hold!Next]_(Hold!holdVars)
  BY StepRefines
<1> QED BY <1>1, <1>2, PInvInit, PInvNext, PTL DEF Spec, ImplementsHold, Hold!Spec


-----------------------------------------------------------------------------
(* What a step does to the transactions.  The sweep takes waiting ones, and *)
(* only the report that found a row open ends its transaction.              *)
LEMMA SweptTxn ==
  ASSUME PInv, NEW a \in Assigners, assignPendingTransactions(a), NEW o \in Orders
  PROVE  /\ txn'[o].status = txn[o].status /\ txn'[o].utr = txn[o].utr
         /\ \/ txn'[o] = txn[o]
            \/ txn[o].status = "PENDING" /\ txn[o].batch = NoBatch
<1>1. txn[o] \in TxnType
  BY DEF PInv, TypeOK
<1>2. /\ [txn[o] EXCEPT !.batch = assign[a].batch].status = txn[o].status
      /\ [txn[o] EXCEPT !.batch = assign[a].batch].utr = txn[o].utr
  BY <1>1 DEF TxnType
<1>3. txn'[o] = IF o \in Waiting(assign[a].batch)
                  THEN [txn[o] EXCEPT !.batch = assign[a].batch] ELSE txn[o]
  BY DEF assignPendingTransactions
<1> QED BY <1>2, <1>3 DEF Waiting

LEMMA FlaggedTxn ==
  ASSUME PInv, NEW r \in Processors, finalise(r), NEW o \in Orders
  PROVE  /\ o \notin process[r].valid => txn'[o] = txn[o]
         /\ o \in process[r].valid =>
              /\ txn'[o] = [txn[o] EXCEPT !.status = "INITIATED"]
              /\ o \in process[r].valid \ process'[r].valid
         /\ txn'[o].status \in {txn[o].status, "INITIATED"}
         /\ txn'[o].batch = txn[o].batch /\ txn'[o].utr = txn[o].utr
<1>1. txn[o] \in TxnType
  BY DEF PInv, TypeOK
<1>2. LET t == [txn[o] EXCEPT !.status = "INITIATED"]
      IN  t.status = "INITIATED" /\ t.batch = txn[o].batch /\ t.utr = txn[o].utr
  BY <1>1 DEF TxnType
<1>3. /\ txn'[o] = IF o \in process[r].valid THEN [txn[o] EXCEPT !.status = "INITIATED"] ELSE txn[o]
      /\ process'[r] = IdleProcess
  BY DEF finalise, PInv, TypeOK
<1> QED BY <1>2, <1>3 DEF IdleProcess

LEMMA ReportedTxn ==
  ASSUME PInv, NEW u \in Uploads, uploadApply(u), NEW o \in Orders
  PROVE  /\ o \notin upload[u].paid \cup upload[u].failed => txn'[o] = txn[o]
         /\ o \in upload[u].paid \cap upload[u].success => txn'[o].status = "SUCCESS"
         /\ txn'[o].batch = txn[o].batch
         /\ txn'[o].utr = IF o \in upload[u].paid THEN upload[u].utr[o] ELSE txn[o].utr
<1> DEFINE x == upload[u].utr[o]
           e == IF o \in upload[u].success THEN "SUCCESS" ELSE "FAILED"
           row == txn[o]
<1>1. /\ row \in TxnType /\ upload[u] \in UploadType
      /\ e \in {"SUCCESS", "FAILED"} /\ (o \in upload[u].success => e = "SUCCESS")
  BY DEF PInv, TypeOK
<1>2. x \in Utrs \cup {NoUtr}
  BY <1>1 DEF UploadType
<1>3. txn'[o] = IF o \in upload[u].paid THEN Settled(row, e, x)
                ELSE IF o \in upload[u].failed THEN [row EXCEPT !.status = "FAILED"]
                ELSE row
  BY DEF uploadApply, SettleRows
<1> HIDE DEF x, e, row
<1>4. /\ Settled(row, e, x).status = e /\ Settled(row, e, x).batch = row.batch
      /\ Settled(row, e, x).utr = x
  BY <1>1, <1>2, SetTxnPaid
<1>5. LET t == [row EXCEPT !.status = "FAILED"]
      IN  t.batch = row.batch /\ t.utr = row.utr
  BY <1>1 DEF TxnType
<1>6. /\ o \notin upload[u].paid \cup upload[u].failed => txn'[o] = row
      /\ o \in upload[u].paid \cap upload[u].success => txn'[o].status = "SUCCESS"
      /\ txn'[o].batch = row.batch
      /\ txn'[o].utr = IF o \in upload[u].paid THEN x ELSE row.utr
  <2>1. CASE o \in upload[u].paid
    BY <1>1, <1>3, <1>4, <2>1
  <2>2. CASE o \notin upload[u].paid
    BY <1>3, <1>5, <2>2
  <2> QED BY <2>1, <2>2
<1> QED BY <1>6 DEF x, row

(* The steps that touch an order or its transaction.                        *)
LEMMA SettlingSteps ==
  ASSUME [Next]_vars
  PROVE  \/ \E o \in Orders : confirmRedeem(o)
         \/ \E a \in Assigners : assignPendingTransactions(a)
         \/ \E r \in Processors : finalise(r)
         \/ \E u \in Uploads : uploadApply(u)
         \/ UNCHANGED <<order, txn>>
<1>1. CASE Redeeming \/ Batching
  BY <1>1 DEF Redeeming, Batching, EligibilityChanges, createBatch, assignRead
<1>2. ASSUME NEW r \in Processors, Processing(r)
      PROVE  finalise(r) \/ UNCHANGED <<order, txn>>
  BY <1>2 DEF Processing, claimBatch, validate, processFails, processDies
<1>3. ASSUME NEW u \in Uploads, Reporting(u)
      PROVE  uploadApply(u) \/ UNCHANGED <<order, txn>>
  BY <1>3 DEF Reporting, uploadRead, uploadPreview
<1> QED BY <1>1, <1>2, <1>3 DEF Next, vars

LEMMA ReportedOrder ==
  ASSUME PInv, NEW u \in Uploads, uploadApply(u), NEW o \in Orders
  PROVE  /\ o \in upload[u].failed => order'[o].status = "FAILED"
         /\ o \notin upload[u].paid \cup upload[u].failed => order'[o] = order[o]
         /\ (o \in upload[u].paid \ upload[u].failed /\ order[o].status \in OrderEnded) =>
              order'[o] = order[o]
         /\ order[o].status = "FAILED" => order'[o] = order[o]
<1>1. /\ order[o] \in OrderType
      /\ (order[o].points = 0) <=> (order[o].status \in {"PENDING", "FAILED"})
  BY DEF PInv, TypeOK, RefundedIffFailed
<1>2. /\ o \in upload[u].failed => \E n \in {0, order[o].points} :
            order'[o] = [status |-> "FAILED", points |-> n]
      /\ o \notin upload[u].failed => order'[o] =
            IF o \in upload[u].paid /\ order[o].status \notin OrderEnded
              THEN [order[o] EXCEPT !.status = "DELIVERED"] ELSE order[o]
  BY DEF uploadApply, SettleRows
<1>3. order[o].status = "FAILED" =>
        order[o] = [status |-> "FAILED", points |-> 0] /\ order[o].status \in OrderEnded
  BY <1>1 DEF OrderType, OrderEnded
<1>4. ASSUME o \in upload[u].failed PROVE order'[o].status = "FAILED"
  BY <1>2, <1>4
<1>5. ASSUME order[o].status = "FAILED" PROVE order'[o] = order[o]
  <2>1. order[o].points = 0
    BY <1>1, <1>5
  <2> QED BY <1>2, <1>3, <1>5, <2>1
<1> QED BY <1>2, <1>4, <1>5

(* One report is applied at a time.                                         *)
OneReport == \A u, v \in Uploads : u = v

(* The rows that a parsed report will settle have not ended since, and the  *)
(* references it names are still new and not repeated; the references in    *)
(* use are distinct.                                                        *)
Parsed ==
  \A u \in Uploads :
    /\ \A o \in Orders : o \in upload[u].paid \cup upload[u].failed =>
         txn[o].status \notin TERMINAL_PAYOUT
    /\ \A o, q \in Orders : o \in upload[u].paid =>
         /\ upload[u].utr[o] # NoUtr
         /\ upload[u].utr[o] # txn[q].utr
         /\ (q \in upload[u].paid /\ upload[u].utr[o] = upload[u].utr[q]) => o = q
    /\ upload[u].paid \ upload[u].failed \subseteq upload[u].success

(* The payout of a delivered order succeeded, or was reopened since.        *)
Paid ==
  \A o \in Orders : order[o].status = "DELIVERED" => txn[o].status \in {"SUCCESS", "INITIATED"}

ReportInv == PInv /\ Parsed /\ UtrsDistinct /\ Paid

LEMMA ReportInvInit == Init => ReportInv
<1>1. Init => Parsed /\ UtrsDistinct /\ Paid
  BY DEF Init, Parsed, UtrsDistinct, Paid, IdleUpload
<1> QED BY <1>1, PInvInit DEF ReportInv

LEMMA PaidNext == ReportInv /\ [Next]_vars => Paid'
<1> SUFFICES ASSUME ReportInv, [Next]_vars PROVE Paid'
  OBVIOUS
<1>1. PInv /\ Parsed /\ Paid
  BY DEF ReportInv
<1>2. ASSUME order' = order, \A o \in Orders : txn'[o].status \in {txn[o].status, "INITIATED"}
      PROVE  Paid'
  BY <1>1, <1>2 DEF Paid
<1>3. ASSUME NEW o \in Orders, confirmRedeem(o) PROVE Paid'
  <2>1. /\ order'[o].status = "CONFIRMED"
        /\ \A q \in Orders \ {o} : order'[q] = order[q] /\ txn'[q] = txn[q]
    BY <1>1, <1>3 DEF confirmRedeem, PInv, TypeOK
  <2> QED BY <1>1, <2>1 DEF Paid
<1>4. ASSUME NEW a \in Assigners, assignPendingTransactions(a) PROVE Paid'
  <2>1. order' = order
    BY <1>4 DEF assignPendingTransactions
  <2> QED BY <1>1, <1>2, <1>4, <2>1, SweptTxn
<1>5. ASSUME NEW r \in Processors, finalise(r) PROVE Paid'
  <2>1. order' = order
    BY <1>5 DEF finalise
  <2> QED BY <1>1, <1>2, <1>5, <2>1, FlaggedTxn
<1>6. ASSUME NEW u \in Uploads, uploadApply(u) PROVE Paid'
  <2> SUFFICES ASSUME NEW o \in Orders, order'[o].status = "DELIVERED"
               PROVE  txn'[o].status \in {"SUCCESS", "INITIATED"}
    BY DEF Paid
  <2>1. o \notin upload[u].failed
    BY <1>1, <1>6, ReportedOrder
  <2>2. CASE o \in upload[u].paid
    <3>1. o \in upload[u].success
      BY <1>1, <2>1, <2>2 DEF Parsed
    <3> QED BY <1>1, <1>6, <2>2, <3>1, ReportedTxn
  <2>3. CASE o \notin upload[u].paid
    BY <1>1, <1>6, <2>1, <2>3, ReportedTxn, ReportedOrder DEF Paid
  <2> QED BY <2>2, <2>3
<1>7. CASE UNCHANGED <<order, txn>>
  BY <1>2, <1>7
<1> QED BY <1>3, <1>4, <1>5, <1>6, <1>7, SettlingSteps

LEMMA ReportInvNext == OneReport /\ ReportInv /\ [Next]_vars => ReportInv'
<1> SUFFICES ASSUME OneReport, ReportInv, [Next]_vars PROVE (Parsed /\ UtrsDistinct)'
  BY PInvNext, PaidNext DEF ReportInv
<1>1. PInv
  BY DEF ReportInv
<1>2. ASSUME upload' = upload,
             \A o \in Orders :
               /\ txn'[o].utr = txn[o].utr
               /\ txn[o].status \notin TERMINAL_PAYOUT => txn'[o].status \notin TERMINAL_PAYOUT
      PROVE  (Parsed /\ UtrsDistinct)'
  BY <1>2 DEF ReportInv, Parsed, UtrsDistinct
<1>3. ASSUME NEW o \in Orders, confirmRedeem(o) PROVE (Parsed /\ UtrsDistinct)'
  <2>1. /\ txn'[o] = [status |-> "PENDING", batch |-> NoBatch, utr |-> NoUtr]
        /\ \A q \in Orders \ {o} : txn'[q] = txn[q]
        /\ upload' = upload
    BY <1>1, <1>3 DEF confirmRedeem, PInv, TypeOK
  <2>2. txn'[o].status \notin TERMINAL_PAYOUT /\ txn'[o].utr = NoUtr
    BY <2>1 DEF TERMINAL_PAYOUT
  <2> QED BY <2>1, <2>2 DEF ReportInv, Parsed, UtrsDistinct
<1>4. ASSUME NEW a \in Assigners, assignPendingTransactions(a) PROVE (Parsed /\ UtrsDistinct)'
  <2>1. upload' = upload
    BY <1>4 DEF assignPendingTransactions
  <2> QED BY <1>1, <1>2, <1>4, <2>1, SweptTxn
<1>5. ASSUME NEW r \in Processors, finalise(r) PROVE (Parsed /\ UtrsDistinct)'
  <2>1. upload' = upload
    BY <1>5 DEF finalise
  <2>2. \A o \in Orders : txn'[o].utr = txn[o].utr /\ txn'[o].status \in {txn[o].status, "INITIATED"}
    BY <1>1, <1>5, FlaggedTxn
  <2> QED BY <1>2, <2>1, <2>2 DEF TERMINAL_PAYOUT
<1>6. ASSUME NEW u \in Uploads, NEW b \in Batches, NEW paid \in SUBSET Orders,
             NEW failed \in SUBSET Orders, NEW success \in SUBSET Orders,
              NEW utr \in [Orders -> Utrs \cup {NoUtr}],
             uploadRead(u, b, paid, failed, success, utr)
      PROVE  (Parsed /\ UtrsDistinct)'
  <2>1. /\ upload' = [upload EXCEPT ![u] =
             [pc |-> "parsed", paid |-> paid \ Skipped, failed |-> failed \ Skipped,
              success |-> success \ Skipped, utr |-> utr]]
        /\ paid \ failed \subseteq success
        /\ txn' = txn
        /\ \A o \in Orders : o \in paid => utr[o] \in FreshUtrs
        /\ \A o, q \in Orders : (o \in paid /\ q \in paid /\ utr[o] = utr[q]) => o = q
    BY <1>6 DEF uploadRead, Injective
  <2>2. /\ upload'[u].paid = paid \ Skipped /\ upload'[u].failed = failed \ Skipped
        /\ upload'[u].utr = utr /\ upload'[u].success = success \ Skipped
        /\ \A v \in Uploads : v = u
    BY <1>1, <2>1 DEF OneReport, PInv, TypeOK
  <2>3. \A o, q \in Orders : o \in paid => utr[o] # NoUtr /\ utr[o] # txn[q].utr
    BY <2>1 DEF FreshUtrs, KnownUtrs
  <2>4. \A o \in Orders : o \notin Skipped => txn[o].status \notin TERMINAL_PAYOUT
    BY DEF Skipped
  <2>5. Parsed'
    BY <2>1, <2>2, <2>3, <2>4 DEF Parsed
  <2> QED BY <2>1, <2>5 DEF ReportInv, UtrsDistinct
<1>7. ASSUME NEW u \in Uploads, uploadApply(u) \/ uploadPreview(u) PROVE Parsed'
  <2>1. upload'[u] = IdleUpload /\ \A v \in Uploads : v = u
    BY <1>1, <1>7 DEF uploadApply, uploadPreview, OneReport, PInv, TypeOK
  <2> QED BY <2>1 DEF Parsed, IdleUpload
<1>8. ASSUME NEW u \in Uploads, uploadPreview(u) PROVE UtrsDistinct'
  BY <1>8 DEF uploadPreview, ReportInv, UtrsDistinct
<1>9. ASSUME NEW u \in Uploads, uploadApply(u) PROVE UtrsDistinct'
  <2>1. \A o \in Orders : txn'[o].utr = IF o \in upload[u].paid THEN upload[u].utr[o] ELSE txn[o].utr
    BY <1>1, <1>9, ReportedTxn
  <2>2. \A o, q \in Orders : o \in upload[u].paid =>
          /\ upload[u].utr[o] # txn[q].utr
          /\ (q \in upload[u].paid /\ upload[u].utr[o] = upload[u].utr[q]) => o = q
    BY DEF ReportInv, Parsed
  <2>3. \A o, q \in Orders : (o # q /\ txn[o].utr = txn[q].utr) => txn[o].utr = NoUtr
    BY DEF ReportInv, UtrsDistinct
  <2> QED BY <2>1, <2>2, <2>3 DEF UtrsDistinct
<1>10. CASE UNCHANGED <<txn, upload>>
  BY <1>2, <1>10
<1> QED
  BY <1>3, <1>4, <1>5, <1>6, <1>7, <1>8, <1>9, <1>10
     DEF Next, Redeeming, Batching, Processing, Reporting, vars, EligibilityChanges,
         createBatch, assignRead, claimBatch, validate, processFails, processDies

(* With one report at a time, whatever races it and whatever its rows say,  *)
(* what it settled stands: a failed order stays failed, a delivered one      *)
(* fails, and an ended payout changes, only after a processing that the      *)
(* report overtook.  (A second report, read before the first is applied,     *)
(* could end either the other way.)                                          *)
THEOREM OutcomeStandsAlone == ASSUME OneReport PROVE Spec => OutcomeStands
<1> DEFINE Stands(o) ==
             /\ order[o].status = "FAILED" => order'[o] = order[o]
             /\ (order[o].status = "DELIVERED" /\ order'[o] # order[o]) =>
                  txn[o].status = "INITIATED" /\ order'[o].status = "FAILED"
           Keeps(o) ==
             /\ (txn[o].status \in TERMINAL_PAYOUT /\ txn'[o] # txn[o]) =>
                  txn'[o] = [txn[o] EXCEPT !.status = "INITIATED"] /\ Overtaken(o)
             /\ txn[o].batch # NoBatch => txn'[o].batch = txn[o].batch
<1>1. ReportInv /\ [Next]_vars => [\A o \in Orders : Stands(o) /\ Keeps(o)]_vars
  <2> SUFFICES ASSUME ReportInv, [Next]_vars, ~UNCHANGED vars, NEW o \in Orders
               PROVE  Stands(o) /\ Keeps(o)
    OBVIOUS
  <2>1. PInv /\ Parsed /\ Paid
    BY DEF ReportInv
  <2>2. ASSUME NEW q \in Orders, confirmRedeem(q) PROVE Stands(o) /\ Keeps(o)
    <3>1. /\ order[q].status = "PENDING"
          /\ o # q => txn'[o] = txn[o] /\ order'[o] = order[o]
      BY <2>1, <2>2 DEF confirmRedeem, PInv, TypeOK
    <3>2. txn[q].status = "NONE" /\ txn[q].batch = NoBatch
      BY <2>1, <3>1 DEF PInv, Linked, Confirmed
    <3>3. CASE o = q
      BY <3>1, <3>2, <3>3 DEF TERMINAL_PAYOUT
    <3>4. CASE o # q
      BY <3>1, <3>4
    <3> QED BY <3>3, <3>4
  <2>3. ASSUME NEW a \in Assigners, assignPendingTransactions(a) PROVE Stands(o) /\ Keeps(o)
    <3>1. order' = order
      BY <2>3 DEF assignPendingTransactions
    <3> QED BY <2>1, <2>3, <3>1, SweptTxn DEF TERMINAL_PAYOUT
  <2>4. ASSUME NEW r \in Processors, finalise(r) PROVE Stands(o) /\ Keeps(o)
    <3>1. /\ o \notin process[r].valid => txn'[o] = txn[o]
          /\ o \in process[r].valid =>
               /\ txn'[o] = [txn[o] EXCEPT !.status = "INITIATED"]
               /\ o \in process[r].valid \ process'[r].valid
          /\ txn'[o].batch = txn[o].batch
      BY <2>1, <2>4, FlaggedTxn
    <3>2. order' = order
      BY <2>4 DEF finalise
    <3> QED BY <3>1, <3>2 DEF Overtaken
  <2>5. ASSUME NEW u \in Uploads, uploadApply(u) PROVE Stands(o) /\ Keeps(o)
    <3>1. /\ o \notin upload[u].paid \cup upload[u].failed => txn'[o] = txn[o]
          /\ txn'[o].batch = txn[o].batch
      BY <2>1, <2>5, ReportedTxn
    <3>2. Keeps(o)
      BY <2>1, <3>1 DEF Parsed
    <3>3. ASSUME order[o].status = "DELIVERED", order'[o] # order[o]
          PROVE  txn[o].status = "INITIATED" /\ order'[o].status = "FAILED"
      <4>1. o \in upload[u].failed
        BY <2>1, <2>5, <3>3, ReportedOrder DEF OrderEnded
      <4>2. txn[o].status \notin TERMINAL_PAYOUT /\ txn[o].status \in {"SUCCESS", "INITIATED"}
        BY <2>1, <3>3, <4>1 DEF Parsed, Paid
      <4> QED BY <2>1, <2>5, <4>1, <4>2, ReportedOrder DEF TERMINAL_PAYOUT
    <3>4. order[o].status = "FAILED" => order'[o] = order[o]
      BY <2>1, <2>5, ReportedOrder
    <3> QED BY <3>2, <3>3, <3>4
  <2>6. CASE UNCHANGED <<order, txn>>
    BY <2>6
  <2> HIDE DEF Stands, Keeps
  <2> QED BY <2>2, <2>3, <2>4, <2>5, <2>6, SettlingSteps
<1>2. (\A o \in Orders : Stands(o) /\ Keeps(o)) =>
      \A o \in Orders :
        /\ order[o].status = "FAILED" => order'[o] = order[o]
        /\ (order[o].status = "DELIVERED" /\ order'[o] # order[o]) =>
             txn[o].status = "INITIATED" /\ order'[o].status = "FAILED"
        /\ (txn[o].status \in TERMINAL_PAYOUT /\ txn'[o] # txn[o]) =>
             txn'[o] = [txn[o] EXCEPT !.status = "INITIATED"] /\ Overtaken(o)
        /\ txn[o].batch # NoBatch => txn'[o].batch = txn[o].batch
  OBVIOUS
<1> QED BY <1>1, <1>2, ReportInvInit, ReportInvNext, PTL DEF Spec, OutcomeStands

(* ... and no bank reference settles two transactions.                      *)
THEOREM ReferencesAreDistinctAlone == ASSUME OneReport PROVE Spec => []UtrsDistinct
<1>1. ReportInv => UtrsDistinct
  BY DEF ReportInv
<1> QED BY <1>1, ReportInvInit, ReportInvNext, PTL DEF Spec

-----------------------------------------------------------------------------
(* A request that processes nothing names no batch.                         *)
IdleHoldsNothing == \A r \in Processors : process[r].pc = "idle" => process[r].batch = NoBatch

ClaimInv == PInv /\ IdleHoldsNothing

LEMMA ClaimInvInit == Init => ClaimInv
<1>1. Init => IdleHoldsNothing
  BY DEF Init, IdleHoldsNothing, IdleProcess
<1> QED BY <1>1, PInvInit DEF ClaimInv

LEMMA ClaimInvNext == ClaimInv /\ [Next]_vars => ClaimInv'
<1> SUFFICES ASSUME ClaimInv, [Next]_vars PROVE IdleHoldsNothing'
  BY PInvNext DEF ClaimInv
<1>1. process \in [Processors -> ProcessType] /\ IdleHoldsNothing
  BY DEF ClaimInv, PInv, TypeOK
<1>2. ASSUME NEW r \in Processors,
             \/ \E b \in Batches : claimBatch(r, b)
             \/ validate(r) \/ finalise(r) \/ processFails(r) \/ processDies(r)
      PROVE  IdleHoldsNothing'
  <2>1. /\ \A s \in Processors \ {r} : process'[s] = process[s]
        /\ process'[r].pc = "idle" => process'[r] = IdleProcess
    BY <1>1, <1>2 DEF claimBatch, validate, finalise, processFails, processDies
  <2> QED BY <1>1, <2>1 DEF IdleHoldsNothing, IdleProcess
<1>3. CASE UNCHANGED process
  BY <1>1, <1>3 DEF IdleHoldsNothing
<1> QED
  BY <1>2, <1>3
     DEF Next, Redeeming, Batching, Processing, Reporting, vars, confirmRedeem,
         EligibilityChanges, createBatch, assignRead, assignPendingTransactions,
         uploadRead, uploadApply, uploadPreview

(* A claim takes a batch that nobody holds; the request that holds a batch  *)
(* alone moves its status on when it lets go.                               *)
LEMMA ClaimHolds ==
  ASSUME ClaimInv, NEW b \in Batches, HeldByOne(b),
         NEW r \in Processors, NEW c \in Batches, claimBatch(r, c)
  PROVE  HeldByOne(b)'
<1>1. /\ process[r].pc = "idle" /\ batch[c].status \in Processable
      /\ batch' = [batch EXCEPT ![c].status = "PROCESSING"]
      /\ process' = [process EXCEPT ![r] = [pc |-> "claimed", batch |-> c, valid |-> {}]]
  BY DEF claimBatch, Claimable
<1>2. /\ process[r].batch = NoBatch /\ batch[c].status # "PROCESSING"
      /\ process'[r].batch = c /\ \A s \in Processors \ {r} : process'[s] = process[s]
      /\ batch[c] \in BatchType /\ \A d \in Batches \ {c} : batch'[d] = batch[d]
  BY <1>1 DEF ClaimInv, IdleHoldsNothing, PInv, TypeOK, Processable
<1>3. batch'[c].status = "PROCESSING"
  <2>1. batch'[c] = [batch[c] EXCEPT !.status = "PROCESSING"]
    BY <1>1 DEF ClaimInv, PInv, TypeOK
  <2> QED BY <1>2, <2>1 DEF BatchType
<1>4. CASE b = c
  <2>1. Holders(b) = {}
    BY <1>2, <1>4 DEF HeldByOne
  <2>2. Holders(b)' = {r}
    BY <1>2, <1>4, <2>1 DEF Holders
  <2> QED BY <1>3, <1>4, <2>2 DEF HeldByOne
<1>5. CASE b # c
  <2>1. Holders(b)' = Holders(b)
    BY <1>2, <1>5 DEF Holders
  <2> QED BY <1>2, <1>5, <2>1 DEF HeldByOne
<1> QED BY <1>4, <1>5

LEMMA ReleaseHolds ==
  ASSUME ClaimInv, NEW b \in Batches, HeldByOne(b),
         NEW r \in Processors, finalise(r) \/ processFails(r)
  PROVE  HeldByOne(b)'
<1> DEFINE c == process[r].batch
<1>1. /\ process[r].pc # "idle"
      /\ \E s \in {"SUBMITTED", "FAILED"} : batch' = [batch EXCEPT ![c].status = s]
      /\ process' = [process EXCEPT ![r] = IdleProcess]
  BY DEF finalise, processFails, ResetTo
<1>2. PICK s \in {"SUBMITTED", "FAILED"} : batch' = [batch EXCEPT ![c].status = s]
  BY <1>1
<1>3. c \in Batches
  BY <1>1 DEF ClaimInv, PInv, Linked
<1>4. /\ process'[r].batch = NoBatch /\ \A t \in Processors \ {r} : process'[t] = process[t]
  BY <1>1 DEF ClaimInv, PInv, TypeOK, IdleProcess
<1>5. r \in Holders(c)
  BY DEF Holders
<1> HIDE DEF c
<1>6. /\ batch'[c] = [batch[c] EXCEPT !.status = s] /\ batch[c] \in BatchType
      /\ \A d \in Batches \ {c} : batch'[d] = batch[d]
  BY <1>2, <1>3 DEF ClaimInv, PInv, TypeOK
<1>7. batch'[c].status # "PROCESSING"
  BY <1>6 DEF BatchType
<1>8. CASE b = c
  <2>1. Holders(b) = {r}
    BY <1>5, <1>8 DEF HeldByOne
  <2>2. Holders(b)' = {}
    BY <1>3, <1>4, <1>8, <2>1 DEF Holders
  <2> QED BY <1>7, <1>8, <2>2 DEF HeldByOne
<1>9. CASE b # c
  <2>1. Holders(b)' = Holders(b)
    BY <1>3, <1>4, <1>9 DEF Holders, c
  <2> QED BY <1>6, <1>9, <2>1 DEF HeldByOne
<1> QED BY <1>8, <1>9

LEMMA HeldStep ==
  ASSUME ClaimInv, [Next]_vars, NEW b \in Batches, HeldByOne(b)
  PROVE  HeldByOne(b)' \/ \E r \in Processors : processDies(r)
<1>1. CASE UNCHANGED <<process, batch>>
  BY <1>1 DEF HeldByOne, Holders
<1>2. ASSUME NEW c \in Batches, NEW m \in Modes, createBatch(c, m) PROVE HeldByOne(b)'
  <2>1. Holders(b)' = Holders(b)
    BY <1>2 DEF createBatch, Holders
  <2>2. batch[b].status = "PROCESSING" <=> batch'[b].status = "PROCESSING"
    BY <1>2 DEF createBatch, ClaimInv, PInv, TypeOK
  <2> QED BY <2>1, <2>2 DEF HeldByOne
<1>3. ASSUME NEW r \in Processors, validate(r) PROVE HeldByOne(b)'
  <2>1. /\ \A s \in Processors : process'[s].batch = process[s].batch
        /\ batch' = batch
    BY <1>3 DEF validate, ClaimInv, PInv, TypeOK
  <2>2. Holders(b)' = Holders(b)
    BY <2>1 DEF Holders
  <2> QED BY <2>1, <2>2 DEF HeldByOne
<1> QED
  BY <1>1, <1>2, <1>3, ClaimHolds, ReleaseHolds
     DEF Next, Redeeming, Batching, Processing, Reporting, vars, confirmRedeem,
         EligibilityChanges, assignRead, assignPendingTransactions,
         uploadRead, uploadApply, uploadPreview

(* No two requests win one batch, for any number of them, and a batch is    *)
(* left PROCESSING by nobody unless a request dies.                         *)
THEOREM OnlyDeathStrands == Spec => NeverStranded
<1> DEFINE Keeps ==
      \A b \in Batches : HeldByOne(b) => HeldByOne(b)' \/ \E r \in Processors : processDies(r)
<1>1. ClaimInv /\ [Next]_vars => [Keeps]_vars
  BY HeldStep
<1> QED BY <1>1, ClaimInvInit, ClaimInvNext, PTL DEF Spec, NeverStranded

(* If none can die, a batch is always PROCESSING exactly while one request  *)
(* holds it.                                                                *)
THEOREM BatchesAreHeldByOne ==
  ASSUME ~ProcessMayDie PROVE Spec => [](\A b \in Batches : HeldByOne(b))
<1> DEFINE Held == \A b \in Batches : HeldByOne(b)
<1>1. Init => Held
  BY DEF Init, HeldByOne, Holders, IdleProcess
<1>2. ClaimInv /\ [Next]_vars /\ Held => Held'
  BY HeldStep DEF processDies
<1> HIDE DEF Held
<1>3. Spec => []Held
  BY <1>1, <1>2, ClaimInvInit, ClaimInvNext, PTL DEF Spec
<1> QED BY <1>3 DEF Held
=============================================================================
