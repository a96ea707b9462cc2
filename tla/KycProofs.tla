----------------------------- MODULE KycProofs ------------------------------
(***************************************************************************)
(* An outlet that is live was not declined, and is owned: it has a partner *)
(* with a wallet, but where an overtaken cleanup took it; and it goes live *)
(* only as a submission moves from the officers' queue to APPROVED.  Both  *)
(* for any number of submissions, fields, handlers, cleanups and officers, *)
(* by one inductive invariant: a submission that names a partner names one *)
(* there is, only a cleanup deletes a partner, one that has a wallet only  *)
(* when it was overtaken, and an approval gives the partner its wallet in  *)
(* the step that brings the outlet live.                                   *)
(***************************************************************************)
EXTENDS Kyc, TLAPS

KycInv == TypeOK /\ LiveOutletIsOwned

-----------------------------------------------------------------------------
(* What kind of record a value is.                                           *)
LEMMA OwnedIsSome == \A p \in Owned : p # NoPartner
<1> SUFFICES ASSUME NEW p \in Owned, p = NoPartner PROVE FALSE
  OBVIOUS
<1>1. "wallet" \in DOMAIN p
  BY DEF Owned
<1>2. DOMAIN p = {"values"}
  BY DEF NoPartner
<1> QED BY <1>1, <1>2

LEMMA NoSubIsRow == NoSub \in Row /\ [NoSub EXCEPT !.status = "deleted"] \in Row
  BY DEF NoSub, Row, Statuses, Absent, Decisions

LEMMA LoadedBy ==
  ASSUME TypeOK, NEW g \in Officers, officer[g].pc = "loaded"
  PROVE  officer[g] \in Loaded
<1>1. officer[g] \in Loaded \cup Wrote \cup {Idle}
  BY DEF TypeOK
<1>2. officer[g] # Idle
  BY DEF Idle
<1>3. officer[g] \notin Wrote
  BY DEF Wrote
<1> QED BY <1>1, <1>2, <1>3

LEMMA WroteBy ==
  ASSUME TypeOK, NEW g \in Officers, officer[g].pc = "wrote"
  PROVE  officer[g] \in Wrote
<1>1. officer[g] \in Loaded \cup Wrote \cup {Idle}
  BY DEF TypeOK
<1>2. officer[g] # Idle
  BY DEF Idle
<1>3. officer[g] \notin Loaded
  BY DEF Loaded
<1> QED BY <1>1, <1>2, <1>3

LEMMA ReadBy ==
  ASSUME TypeOK, NEW q \in Requests, request[q].pc # "idle"
  PROVE  request[q] \in Reading
<1>1. request[q] \in Reading \cup {Idle}
  BY DEF TypeOK
<1>2. request[q] # Idle
  BY DEF Idle
<1> QED BY <1>1, <1>2

LEMMA KycInit == Init => KycInv
<1> SUFFICES ASSUME Init PROVE KycInv
  OBVIOUS
<1>1. \A s \in Subs : ~Linked(s)
  BY DEF Init, NoSub, Linked, Exists, Absent
<1>2. sub \in [Subs -> Row]
  BY NoSubIsRow DEF Init
<1>3. outlet \in [active : BOOLEAN, declined : BOOLEAN] /\ ~outlet.active
  BY DEF Init
<1>4. cleanup \in [Cleanups -> Sweeping \cup {Idle}] /\ overtaken \in BOOLEAN
  BY DEF Init
<1> QED BY <1>1, <1>2, <1>3, <1>4 DEF Init, KycInv, TypeOK, LiveOutletIsOwned

-----------------------------------------------------------------------------
(* A submission that changes its status, and no more, keeps its partner.     *)
LEMMA StatusKept ==
  ASSUME KycInv, NEW s \in Subs, NEW status \in Statuses, Exists(s), sub' = To(s, status)
  PROVE  /\ sub' \in [Subs -> Row]
         /\ \A t \in Subs : Linked(t)' => partner # NoPartner
<1>1. sub' \in [Subs -> Row]
  BY DEF KycInv, TypeOK, To, Row
<1>2. \A t \in Subs : sub'[t].linked = sub[t].linked
  BY DEF KycInv, TypeOK, To, Row
<1>3. \A t \in Subs : Exists(t)' => Exists(t)
  BY DEF KycInv, TypeOK, To, Row, Exists
<1>4. \A t \in Subs : Linked(t)' => Linked(t)
  BY <1>2, <1>3 DEF Linked
<1> QED BY <1>1, <1>4 DEF KycInv, TypeOK

LEMMA CreateStep ==
  ASSUME KycInv, NEW s \in Subs, NEW F \in SUBSET Fields, NEW c \in BOOLEAN, create(s, F, c)
  PROVE  KycInv'
<1> DEFINE new == [status |-> "DRAFT",
                   item |-> [f \in Fields |-> IF f \in F THEN "APPROVED" ELSE "PENDING"],
                   linked |-> TRUE, proposes |-> partner # NoPartner]
           made == [values |-> s, wallet |-> FALSE, classified |-> c]
<1>1. new \in Row
  BY DEF Row, Statuses, Other, Decisions
<1>2. sub' = [sub EXCEPT ![s] = new]
  BY DEF create
<1>3. sub' \in [Subs -> Row]
  BY <1>1, <1>2 DEF KycInv, TypeOK
<1>4. made \in Owned
  BY DEF Owned
<1>5. partner' \in Owned /\ (partner # NoPartner => partner' = partner)
  BY <1>4 DEF create, KycInv, TypeOK
<1>6. partner' # NoPartner
  BY <1>5, OwnedIsSome
<1>7. LiveOutletIsOwned'
  BY <1>5, <1>6 DEF KycInv, LiveOutletIsOwned, create, sweeps
<1> QED BY <1>3, <1>5, <1>6, <1>7 DEF KycInv, TypeOK, create, sweeps

LEMMA SweepingAt ==
  ASSUME KycInv, NEW c \in Cleanups, cleanup[c] # Idle
  PROVE  cleanup[c] \in Sweeping /\ cleanup[c].sub \in Subs /\ cleanup[c].takes \in BOOLEAN
<1>1. cleanup[c] \in Sweeping
  BY DEF KycInv, TypeOK
<1> QED BY <1>1 DEF Sweeping

LEMMA DeletedTyped ==
  ASSUME KycInv, NEW s \in Subs, NEW U \in SUBSET Subs
  PROVE  Deleted(s, U) \in [Subs -> Row]
<1> SUFFICES ASSUME NEW t \in Subs
             PROVE  Deleted(s, U)[t] \in Row
  BY DEF Deleted
<1>1. CASE t = s
  BY <1>1, NoSubIsRow DEF Deleted
<1>2. CASE t # s
  BY <1>2 DEF Deleted, KycInv, TypeOK, Row
<1> QED BY <1>1, <1>2

(* The partner is deleted: no submission names it any more, and the outlet is *)
(* not live unless the cleanup was overtaken.                                 *)
LEMMA CleanupStep ==
  ASSUME KycInv, NEW c \in Cleanups, cleanupOneStaleDraft(c)
  PROVE  KycInv'
<1> DEFINE s == cleanup[c].sub
<1>0. UNCHANGED <<outlet, request, officer>> /\ cleanup' = [cleanup EXCEPT ![c] = Idle]
  BY DEF cleanupOneStaleDraft
<1>1. cleanup[c] # Idle
  BY DEF cleanupOneStaleDraft, Idle
<1>2. s \in Subs /\ cleanup[c].takes \in BOOLEAN
  BY <1>1, SweepingAt
<1>3. cleanup' \in [Cleanups -> Sweeping \cup {Idle}]
  BY <1>0 DEF KycInv, TypeOK
<1>4. CASE cleanup[c].takes
  <2>1. partner' = NoPartner /\ sub' = Deleted(s, LinkedToIt)
        /\ overtaken' = (overtaken \/ sub[s].status # "DRAFT" \/ ~NeverBecameReal(s))
    BY <1>4 DEF cleanupOneStaleDraft
  <2>2. sub' \in [Subs -> Row]
    BY <1>2, <2>1, DeletedTyped DEF LinkedToIt
  <2>3. \A t \in Subs : ~Linked(t)'
    <3> SUFFICES ASSUME NEW t \in Subs PROVE ~Linked(t)'
      OBVIOUS
    <3>1. CASE t = s
      BY <2>1, <3>1 DEF Deleted, Linked, Exists, Absent, NoSub
    <3>2. CASE t # s /\ Linked(t)
      BY <2>1, <3>2 DEF Deleted, Linked, LinkedToIt, KycInv, TypeOK, Row
    <3>3. CASE t # s /\ ~Linked(t)
      BY <2>1, <3>3 DEF Deleted, Linked, LinkedToIt, Exists
    <3> QED BY <3>1, <3>2, <3>3
  <2>4. outlet.active => ~outlet.declined /\ overtaken'
    BY <2>1 DEF NeverBecameReal, KycInv, LiveOutletIsOwned
  <2>5. overtaken' \in BOOLEAN
    BY <2>1 DEF KycInv, TypeOK
  <2> QED BY <1>0, <1>3, <2>1, <2>2, <2>3, <2>4, <2>5 DEF KycInv, TypeOK, LiveOutletIsOwned
<1>5. CASE ~cleanup[c].takes
  <2>1. partner' = partner /\ sub' = Deleted(s, {}) /\ overtaken' = overtaken
    BY <1>5 DEF cleanupOneStaleDraft
  <2>2. sub' \in [Subs -> Row]
    BY <1>2, <2>1, DeletedTyped
  <2>3. \A t \in Subs : Linked(t)' => Linked(t)
    <3> SUFFICES ASSUME NEW t \in Subs, Linked(t)' PROVE Linked(t)
      OBVIOUS
    <3>1. CASE t = s
      BY <2>1, <3>1 DEF Deleted, Linked, Exists, Absent, NoSub
    <3>2. CASE t # s
      BY <2>1, <3>2 DEF Deleted, Linked, Exists
    <3> QED BY <3>1, <3>2
  <2> QED BY <1>0, <1>3, <2>1, <2>2, <2>3 DEF KycInv, TypeOK, LiveOutletIsOwned
<1> QED BY <1>2, <1>4, <1>5

(* What a sweep reads before it deletes changes nothing else.                *)
LEMMA SweepStep ==
  ASSUME KycInv, NEW c \in Cleanups,
         \/ \E s \in Subs : cleanupRead(c, s)
         \/ cleanupCheck(c)
         \/ cleanupSkips(c)
  PROVE  KycInv'
<1>1. UNCHANGED <<sub, outlet, partner, request, overtaken, officer>>
  BY DEF cleanupRead, cleanupCheck, cleanupSkips
<1>2. cleanup' \in [Cleanups -> Sweeping \cup {Idle}]
  <2>1. ASSUME NEW s \in Subs, cleanupRead(c, s)
        PROVE  cleanup' \in [Cleanups -> Sweeping \cup {Idle}]
    <3>1. Linked(s) \in BOOLEAN /\ sub[s].proposes \in BOOLEAN
      BY DEF Linked, KycInv, TypeOK, Row
    <3>2. [pc |-> "read", sub |-> s, takes |-> Linked(s) /\ ~sub[s].proposes] \in Sweeping
      BY <3>1 DEF Sweeping
    <3> QED BY <2>1, <3>2 DEF cleanupRead, KycInv, TypeOK
  <2>2. ASSUME cleanupCheck(c)
        PROVE  cleanup' \in [Cleanups -> Sweeping \cup {Idle}]
    <3> DEFINE takes == Linked(cleanup[c].sub) /\ NeverBecameReal(cleanup[c].sub)
    <3>1. cleanup[c] # Idle
      BY <2>2 DEF cleanupCheck, Idle
    <3>2. [pc |-> "checked", sub |-> cleanup[c].sub, takes |-> takes] \in Sweeping
      BY <3>1, SweepingAt DEF Sweeping
    <3> QED BY <2>2, <3>2 DEF cleanupCheck, KycInv, TypeOK
  <2>3. ASSUME cleanupSkips(c)
        PROVE  cleanup' \in [Cleanups -> Sweeping \cup {Idle}]
    BY <2>3 DEF cleanupSkips, KycInv, TypeOK
  <2> QED BY <2>1, <2>2, <2>3
<1> QED BY <1>1, <1>2 DEF KycInv, TypeOK, LiveOutletIsOwned, Linked, Exists

LEMMA OutletStep ==
  ASSUME KycInv, notInterested
  PROVE  KycInv'
<1>1. UNCHANGED <<sub, partner, request, officer, cleanup, overtaken>>
  BY DEF notInterested, sweeps
<1>2. outlet' \in [active : BOOLEAN, declined : BOOLEAN] /\ ~outlet'.active
  BY DEF notInterested, KycInv, TypeOK
<1> QED BY <1>1, <1>2 DEF KycInv, TypeOK, LiveOutletIsOwned, Linked, Exists

(* The rows, the outlet and the partner are as they were.                    *)
LEMMA RestKept ==
  ASSUME KycInv, UNCHANGED <<sub, outlet, partner, sweeps>>,
         request' \in [Requests -> Reading \cup {Idle}],
         officer' \in [Officers -> Loaded \cup Wrote \cup {Idle}]
  PROVE  KycInv'
  BY DEF KycInv, TypeOK, LiveOutletIsOwned, Linked, Exists, sweeps

LEMMA ReadStep ==
  ASSUME KycInv, NEW q \in Requests, NEW s \in Subs, NEW op \in {"consent", "firstApprove", "reject"},
         NEW saw \in Stages \cup {"DRAFT", "any"}, Reads(q, op, s, saw)
  PROVE  KycInv'
<1>1. [pc |-> op, sub |-> s, saw |-> saw] \in Reading
  BY DEF Reading
<1>2. request' \in [Requests -> Reading \cup {Idle}]
  BY <1>1 DEF Reads, KycInv, TypeOK
<1> QED BY <1>2, RestKept DEF Reads, KycInv, TypeOK

LEMMA WriteStep ==
  ASSUME KycInv, NEW q \in Requests, NEW op \in {"consent", "firstApprove", "reject"},
         NEW status \in Statuses, Writes(q, op, status)
  PROVE  KycInv'
<1>1. request[q].pc = op /\ UNCHANGED <<outlet, partner, officer, sweeps>>
  BY DEF Writes
<1>2. request[q] \in Reading
  BY <1>1, ReadBy DEF KycInv
<1>3. request[q].sub \in Subs
  BY <1>2 DEF Reading
<1>4. request' \in [Requests -> Reading \cup {Idle}]
  BY DEF Writes, KycInv, TypeOK
<1>5. CASE Exists(request[q].sub)
  <2>1. sub' = To(request[q].sub, status)
    BY <1>5 DEF Writes
  <2>2. sub' \in [Subs -> Row] /\ \A t \in Subs : Linked(t)' => partner # NoPartner
    BY <1>3, <1>5, <2>1, StatusKept
  <2> QED BY <1>1, <1>4, <2>2 DEF KycInv, TypeOK, LiveOutletIsOwned, sweeps
<1>6. CASE ~Exists(request[q].sub)
  BY <1>1, <1>4, <1>6, RestKept DEF Writes, KycInv, TypeOK
<1> QED BY <1>5, <1>6

LEMMA HandStep ==
  ASSUME KycInv, NEW s \in Subs,
         \/ reKyc(s)
         \/ \E status \in Patches : update(s, status)
  PROVE  KycInv'
<1>1. PICK status \in Statuses : Exists(s) /\ sub' = To(s, status)
  <2>1. CASE reKyc(s)
    BY <2>1 DEF reKyc, Exists, Absent, Statuses
  <2>2. CASE \E status \in Patches : update(s, status)
    BY <2>2, KycAssumption DEF update, Statuses
  <2> QED BY <2>1, <2>2
<1>2. UNCHANGED <<outlet, partner, request, officer, sweeps>>
  BY DEF reKyc, update
<1>3. sub' \in [Subs -> Row] /\ \A t \in Subs : Linked(t)' => partner # NoPartner
  BY <1>1, StatusKept
<1> QED BY <1>2, <1>3 DEF KycInv, TypeOK, LiveOutletIsOwned, sweeps

LEMMA GstStep ==
  ASSUME KycInv, NEW s \in Subs, gstDetails(s)
  PROVE  KycInv'
<1>1. UNCHANGED <<sub, outlet, request, officer, sweeps>> /\ partner' = [partner EXCEPT !.classified = TRUE]
  BY DEF gstDetails
<1>2. partner \in Owned
  BY DEF gstDetails, KycInv, TypeOK
<1>3. partner' \in Owned /\ partner'.wallet = partner.wallet
  BY <1>1, <1>2 DEF Owned
<1>4. partner' # NoPartner
  BY <1>3, OwnedIsSome
<1> QED BY <1>1, <1>3, <1>4 DEF KycInv, TypeOK, LiveOutletIsOwned, Linked, Exists, sweeps

-----------------------------------------------------------------------------
(* The officers' transactions.                                               *)
LEMMA LoadStep ==
  ASSUME KycInv, NEW g \in Officers, NEW op \in Ways[g], NEW s \in Subs, gridLoad(g, op, s)
  PROVE  KycInv'
<1> DEFINE new == [pc |-> "loaded", op |-> op, sub |-> s, linked |-> sub[s].linked,
                   classified |-> sub[s].linked => partner.classified]
<1>1. op \in {"verify", "approve", "bulk"}
  BY KycAssumption
<1>2. sub[s].linked \in BOOLEAN
  BY DEF KycInv, TypeOK, Row
<1>3. new \in Loaded
  BY <1>1, <1>2 DEF Loaded
<1>4. officer' \in [Officers -> Loaded \cup Wrote \cup {Idle}]
  BY <1>3 DEF gridLoad, KycInv, TypeOK
<1> QED BY <1>4, RestKept DEF gridLoad, KycInv, TypeOK

LEMMA AllowedTyped ==
  ASSUME NEW op, NEW s \in Subs, NEW w \in Allowed(op, s)
  PROVE  w \in UNION {[F -> Decisions] : F \in SUBSET Fields}
<1>1. CASE op = "approve"
  <2>1. w \in [OpenItems(s) -> Decisions]
    BY <1>1 DEF Allowed, Decisions
  <2> QED BY <2>1 DEF OpenItems
<1>2. CASE op = "verify"
  <2>1. PICK f \in Fields : w \in [{f} -> {"APPROVED", "REJECTED"}]
    BY <1>2 DEF Allowed
  <2>2. w \in [{f} -> Decisions]
    BY <2>1 DEF Decisions
  <2> QED BY <2>2
<1>3. CASE op # "approve" /\ op # "verify"
  <2>1. PICK F \in SUBSET Fields : w \in [F -> {"APPROVED", "REJECTED"}]
    BY <1>3 DEF Allowed
  <2>2. w \in [F -> Decisions]
    BY <2>1 DEF Decisions
  <2> QED BY <2>2
<1> QED BY <1>1, <1>2, <1>3

LEMMA GridWriteStep ==
  ASSUME KycInv, NEW g \in Officers, gridWrite(g)
  PROVE  KycInv'
<1>1. officer[g] \in Loaded
  BY LoadedBy DEF gridWrite, KycInv
<1>2. officer[g].sub \in Subs /\ officer[g].linked \in BOOLEAN
  BY <1>1 DEF Loaded
<1>3. PICK w \in Allowed(officer[g].op, officer[g].sub), does \in {"approves", "reopens", "records"} :
        officer' = [officer EXCEPT ![g] =
          [pc |-> "wrote", sub |-> officer[g].sub, wrote |-> w, does |-> does,
           linked |-> officer[g].linked /\ does = "approves"]]
  <2> DEFINE seen(w) == [f \in Fields |-> IF f \in DOMAIN w THEN w[f] ELSE sub[officer[g].sub].item[f]]
             does(w) == Bridge(officer[g], evaluateSubmission(seen(w)))
  <2>1. PICK w \in Allowed(officer[g].op, officer[g].sub) :
          /\ does(w) # "throws"
          /\ officer' = [officer EXCEPT ![g] =
               [pc |-> "wrote", sub |-> officer[g].sub, wrote |-> w, does |-> does(w),
                linked |-> officer[g].linked /\ does(w) = "approves"]]
    BY DEF gridWrite
  <2>2. does(w) \in {"approves", "reopens", "records", "throws"}
    BY DEF Bridge
  <2> QED BY <2>1, <2>2
<1>4. w \in UNION {[F -> Decisions] : F \in SUBSET Fields}
  BY <1>2, AllowedTyped
<1>5. [pc |-> "wrote", sub |-> officer[g].sub, wrote |-> w, does |-> does,
       linked |-> officer[g].linked /\ does = "approves"] \in Wrote
  BY <1>2, <1>4 DEF Wrote
<1>6. officer' \in [Officers -> Loaded \cup Wrote \cup {Idle}]
  BY <1>3, <1>5 DEF KycInv, TypeOK
<1> QED BY <1>6, RestKept DEF gridWrite, KycInv, TypeOK

(* What a transaction publishes are decisions, and the status it may set; the *)
(* submission keeps its partner.                                              *)
LEMMA Publishes ==
  ASSUME KycInv, NEW g \in Officers, officer[g].pc = "wrote"
  PROVE  /\ officer[g].sub \in Subs
         /\ Published(g) \in [Subs -> Row]
         /\ \A t \in Subs : /\ Published(g)[t].status = sub[t].status
                            /\ Published(g)[t].linked = sub[t].linked
<1>1. officer[g] \in Wrote
  BY WroteBy DEF KycInv
<1>2. officer[g].sub \in Subs /\ officer[g].wrote \in UNION {[F -> Decisions] : F \in SUBSET Fields}
  BY <1>1 DEF Wrote
<1> DEFINE row == sub[officer[g].sub]
           item == [f \in Fields |-> IF f \in DOMAIN officer[g].wrote THEN officer[g].wrote[f]
                                     ELSE row.item[f]]
<1>3. row \in Row /\ sub \in [Subs -> Row]
  BY <1>2 DEF KycInv, TypeOK
<1>4. row.item \in [Fields -> Decisions]
  BY <1>3 DEF Row
<1>5. item \in [Fields -> Decisions]
  <2>1. PICK F \in SUBSET Fields : officer[g].wrote \in [F -> Decisions]
    BY <1>2
  <2>2. ASSUME NEW f \in Fields
        PROVE  (IF f \in DOMAIN officer[g].wrote THEN officer[g].wrote[f] ELSE row.item[f]) \in Decisions
    BY <1>4, <2>1
  <2> QED BY <2>2
<1>6. Published(g) = [sub EXCEPT ![officer[g].sub] = [row EXCEPT !.item = item]]
  BY <1>2, <1>3 DEF Published
<1> HIDE DEF item
<1>7. [row EXCEPT !.item = item] \in Row
  BY <1>3, <1>5 DEF Row
<1>8. [row EXCEPT !.item = item].status = row.status /\ [row EXCEPT !.item = item].linked = row.linked
  BY <1>3 DEF Row
<1> QED BY <1>2, <1>3, <1>6, <1>7, <1>8

(* ... and when the transaction sets the submission's status, too.           *)
LEMMA PublishesStatus ==
  ASSUME KycInv, NEW g \in Officers, officer[g].pc = "wrote", Won(officer[g].sub),
         NEW status \in Statuses,
         sub' = [Published(g) EXCEPT ![officer[g].sub].status = status]
  PROVE  /\ sub' \in [Subs -> Row]
         /\ sub'[officer[g].sub].status = status
         /\ \A t \in Subs : Linked(t)' => Linked(t)
<1> DEFINE s == officer[g].sub
           mid == Published(g)
<1>1. s \in Subs /\ mid \in [Subs -> Row]
      /\ \A t \in Subs : mid[t].status = sub[t].status /\ mid[t].linked = sub[t].linked
  BY Publishes
<1>2. sub' = [mid EXCEPT ![s].status = status]
  OBVIOUS
<1>3. Exists(s)
  BY DEF Won, Exists, Absent, Queue
<1> HIDE DEF s, mid
<1>4. sub' \in [Subs -> Row] /\ sub'[s].status = status
  <2> DEFINE row == [mid[s] EXCEPT !.status = status]
  <2>1. mid[s] \in Row
    BY <1>1
  <2>2. row \in Row /\ row.status = status
    BY <2>1 DEF Row
  <2>3. sub' = [mid EXCEPT ![s] = row]
    BY <1>2
  <2> HIDE DEF row
  <2> QED BY <1>1, <2>2, <2>3
<1>5. \A t \in Subs : sub'[t].linked = sub[t].linked /\ (t # s => sub'[t].status = sub[t].status)
  BY <1>1, <1>2 DEF Row
<1>6. \A t \in Subs : Linked(t)' => Linked(t)
  BY <1>3, <1>5 DEF Linked, Exists
<1> QED BY <1>4, <1>6 DEF s

LEMMA Finishes ==
  ASSUME KycInv, NEW g \in Officers, officer' = [officer EXCEPT ![g] = Idle]
  PROVE  officer' \in [Officers -> Loaded \cup Wrote \cup {Idle}]
  BY DEF KycInv, TypeOK

LEMMA RecordsStep ==
  ASSUME KycInv, NEW g \in Officers, gridRecords(g)
  PROVE  KycInv'
<1>1. /\ sub' = Published(g)
      /\ officer' = [officer EXCEPT ![g] = Idle]
      /\ UNCHANGED <<outlet, partner, request, cleanup, overtaken>>
      /\ officer[g].pc = "wrote"
  BY DEF gridRecords, Records
<1>2. sub' \in [Subs -> Row] /\ \A t \in Subs : Linked(t)' => Linked(t)
  BY <1>1, Publishes DEF Linked, Exists
<1> QED BY <1>1, <1>2, Finishes DEF KycInv, TypeOK, LiveOutletIsOwned

LEMMA ReopensStep ==
  ASSUME KycInv, NEW g \in Officers, gridReopens(g)
  PROVE  KycInv'
<1>1. /\ officer[g].pc = "wrote" /\ Won(officer[g].sub)
      /\ sub' = [Published(g) EXCEPT ![officer[g].sub].status = "RE_UPLOAD_REQUIRED"]
      /\ officer' = [officer EXCEPT ![g] = Idle]
      /\ UNCHANGED <<outlet, partner, request, cleanup, overtaken>>
  BY DEF gridReopens, Records
<1>2. "RE_UPLOAD_REQUIRED" \in Statuses
  BY DEF Statuses, Other
<1>3. sub' \in [Subs -> Row] /\ \A t \in Subs : Linked(t)' => Linked(t)
  BY <1>1, <1>2, PublishesStatus
<1> QED BY <1>1, <1>3, Finishes DEF KycInv, TypeOK, LiveOutletIsOwned

LEMMA ApprovesStep ==
  ASSUME KycInv, NEW g \in Officers, gridApproves(g)
  PROVE  /\ KycInv'
         /\ officer[g].sub \in Subs
         /\ sub[officer[g].sub].status = Queue /\ sub'[officer[g].sub].status = "APPROVED"
<1> DEFINE s == officer[g].sub
<1>1. /\ officer[g].pc = "wrote" /\ Won(s)
      /\ sub' = [Published(g) EXCEPT ![s].status = "APPROVED"]
      /\ officer' = [officer EXCEPT ![g] = Idle]
      /\ UNCHANGED <<request, cleanup>>
      /\ officer[g].linked => Linked(s)
      /\ overtaken' = (overtaken /\ ~officer[g].linked)
  BY DEF gridApproves, Records
<1>2. officer[g] \in Wrote
  BY <1>1, WroteBy DEF KycInv
<1>3. s \in Subs /\ officer[g].linked \in BOOLEAN
  BY <1>2 DEF Wrote
<1>4. "APPROVED" \in Statuses
  BY DEF Statuses, Other
<1>5. /\ sub' \in [Subs -> Row]
      /\ sub'[s].status = "APPROVED"
      /\ \A t \in Subs : Linked(t)' => Linked(t)
  BY <1>1, <1>4, PublishesStatus
<1>6. /\ officer' \in [Officers -> Loaded \cup Wrote \cup {Idle}]
      /\ request' \in [Requests -> Reading \cup {Idle}]
      /\ cleanup' \in [Cleanups -> Sweeping \cup {Idle}] /\ overtaken' \in BOOLEAN
  BY <1>1, Finishes DEF KycInv, TypeOK
<1>7. ASSUME officer[g].linked PROVE KycInv'
  <2>1. partner \in Owned
    BY <1>1, <1>3, <1>7 DEF KycInv, TypeOK
  <2>2. partner' = [partner EXCEPT !.values = IF sub[s].proposes THEN s ELSE @, !.wallet = TRUE]
    BY <1>7 DEF gridApproves
  <2>3. partner' \in Owned /\ partner'.wallet
    BY <1>3, <2>1, <2>2 DEF Owned
  <2>4. partner' # NoPartner
    BY <2>3, OwnedIsSome
  <2>5. outlet' = [outlet EXCEPT !.active = outlet.active \/ ~outlet.declined]
    BY <1>7 DEF gridApproves, GoesLive
  <2>6. outlet' \in [active : BOOLEAN, declined : BOOLEAN] /\ (outlet'.active => ~outlet'.declined)
    BY <2>5 DEF KycInv, TypeOK, LiveOutletIsOwned
  <2>7. \A t \in Subs : Linked(t)' => partner' # NoPartner
    BY <2>4
  <2>8. TypeOK'
    BY <1>5, <1>6, <2>3, <2>6, <2>7 DEF TypeOK
  <2>9. LiveOutletIsOwned'
    BY <2>3, <2>4, <2>6 DEF LiveOutletIsOwned
  <2> QED BY <2>8, <2>9 DEF KycInv
<1>8. ASSUME ~officer[g].linked PROVE KycInv'
  <2>1. partner' = partner
    BY <1>8 DEF gridApproves
  <2>2. outlet' = [outlet EXCEPT !.active = outlet.active]
    BY <1>8 DEF gridApproves, KycInv, TypeOK
  <2>3. outlet' = outlet /\ overtaken' = overtaken
    BY <1>1, <1>8, <2>2 DEF KycInv, TypeOK
  <2>4. \A t \in Subs : Linked(t)' => partner' # NoPartner
    BY <1>5, <2>1 DEF KycInv, TypeOK
  <2>5. partner' \in Owned \cup {NoPartner} /\ outlet' \in [active : BOOLEAN, declined : BOOLEAN]
    BY <2>1, <2>3 DEF KycInv, TypeOK
  <2>6. TypeOK'
    BY <1>5, <1>6, <2>4, <2>5 DEF TypeOK
  <2>7. LiveOutletIsOwned'
    BY <2>1, <2>3 DEF KycInv, LiveOutletIsOwned
  <2> QED BY <2>6, <2>7 DEF KycInv
<1>9. KycInv'
  BY <1>3, <1>7, <1>8
<1> QED BY <1>1, <1>3, <1>5, <1>9 DEF Won

LEMMA RollsBackStep ==
  ASSUME KycInv, NEW g \in Officers, gridRollsBack(g)
  PROVE  KycInv'
  BY Finishes, RestKept DEF gridRollsBack, KycInv, TypeOK

-----------------------------------------------------------------------------
LEMMA KycStep == KycInv /\ [Next]_vars => KycInv'
<1> SUFFICES ASSUME KycInv, [Next]_vars PROVE KycInv'
  OBVIOUS
<1>1. CASE UNCHANGED vars
  BY <1>1 DEF vars, KycInv, TypeOK, LiveOutletIsOwned, Linked, Exists
<1>2. ASSUME NEW s \in Subs, NEW F \in SUBSET Fields, NEW c \in BOOLEAN, create(s, F, c)
      PROVE  KycInv'
  BY <1>2, CreateStep
<1>3. ASSUME NEW s \in Subs, gstDetails(s) \/ reKyc(s)
      PROVE  KycInv'
  BY <1>3, GstStep, HandStep
<1>4. CASE notInterested
  BY <1>4, OutletStep
<1>5. ASSUME NEW q \in Requests, NEW s \in Subs,
             consentRead(q, s) \/ firstApproveRead(q, s) \/ rejectRead(q, s)
      PROVE  KycInv'
  BY <1>5, ReadStep DEF consentRead, firstApproveRead, rejectRead
<1>6. ASSUME NEW q \in Requests, consent(q) \/ firstApprove(q) \/ reject(q)
      PROVE  KycInv'
  <2>1. PICK op \in {"consent", "firstApprove", "reject"}, status \in Statuses : Writes(q, op, status)
    BY <1>6 DEF consent, firstApprove, reject, nextStatusAfterFirstApprove, Statuses, Other
  <2> QED BY <2>1, WriteStep
<1>7. ASSUME NEW s \in Subs, NEW status \in Patches, update(s, status)
      PROVE  KycInv'
  BY <1>7, HandStep
<1>8. ASSUME NEW g \in Officers, NEW s \in Subs, NEW op \in Ways[g], gridLoad(g, op, s)
      PROVE  KycInv'
  BY <1>8, LoadStep
<1>9. ASSUME NEW g \in Officers,
             gridWrite(g) \/ gridRecords(g) \/ gridApproves(g) \/ gridReopens(g) \/ gridRollsBack(g)
      PROVE  KycInv'
  BY <1>9, GridWriteStep, RecordsStep, ApprovesStep, ReopensStep, RollsBackStep
<1>10. ASSUME NEW c \in Cleanups,
              \/ \E s \in Subs : cleanupRead(c, s)
              \/ cleanupCheck(c) \/ cleanupOneStaleDraft(c) \/ cleanupSkips(c)
       PROVE  KycInv'
  BY <1>10, CleanupStep, SweepStep
<1> QED BY <1>1, <1>2, <1>3, <1>4, <1>5, <1>6, <1>7, <1>8, <1>9, <1>10 DEF Next

(* In every reachable state the values have their types, and a submission     *)
(* that names a partner names one there is.                                   *)
THEOREM KycTypeCorrect == Spec => []TypeOK
<1>1. KycInv => TypeOK
  BY DEF KycInv
<1> QED BY KycInit, KycStep, <1>1, PTL DEF Spec

(* In every reachable state an outlet that is live was not declined, and has  *)
(* a partner with a wallet, unless a cleanup took it that was overtaken by a  *)
(* consent or an approval, and the outlet has not been approved again since.  *)
THEOREM LiveOutletsAreOwned == Spec => []LiveOutletIsOwned
<1>1. KycInv => LiveOutletIsOwned
  BY DEF KycInv
<1> QED BY KycInit, KycStep, <1>1, PTL DEF Spec

(* The outlet goes live, and its partner's values change, only as a          *)
(* submission moves from the officers' queue to APPROVED.                    *)
THEOREM OutletsGoLiveFromTheQueue == Spec => GoesLiveFromTheQueue
<1> DEFINE Approval == \E s \in Subs : sub[s].status = Queue /\ sub'[s].status = "APPROVED"
<1>1. KycInv /\ [Next]_vars => [ComesToLife => Approval]_vars
  <2> SUFFICES ASSUME KycInv, Next, ComesToLife PROVE Approval
    OBVIOUS
  <2>0. ~UNCHANGED <<outlet, partner>>
    BY DEF ComesToLife
  <2>1. ASSUME NEW s \in Subs, NEW F \in SUBSET Fields, NEW c \in BOOLEAN, create(s, F, c)
        PROVE  FALSE
    BY <2>1 DEF create, ComesToLife
  <2>2. ASSUME NEW c \in Cleanups,
               \/ \E s \in Subs : cleanupRead(c, s)
               \/ cleanupCheck(c) \/ cleanupOneStaleDraft(c) \/ cleanupSkips(c)
        PROVE  FALSE
    <3>1. outlet' = outlet /\ (partner' = partner \/ partner' = NoPartner)
      BY <2>2 DEF cleanupRead, cleanupCheck, cleanupOneStaleDraft, cleanupSkips
    <3> QED BY <3>1 DEF ComesToLife
  <2>3. ASSUME NEW s \in Subs, gstDetails(s)
        PROVE  FALSE
    <3>1. partner \in Owned
      BY <2>3 DEF gstDetails, KycInv, TypeOK
    <3>2. partner'.values = partner.values /\ outlet' = outlet
      BY <2>3, <3>1 DEF gstDetails, Owned
    <3> QED BY <3>2 DEF ComesToLife
  <2>4. ASSUME notInterested
        PROVE  FALSE
    <3>1. partner' = partner /\ ~outlet'.active
      BY <2>4 DEF notInterested, KycInv, TypeOK
    <3> QED BY <3>1 DEF ComesToLife
  <2>5. ASSUME NEW s \in Subs, reKyc(s) \/ \E status \in Patches : update(s, status)
        PROVE  FALSE
    BY <2>0, <2>5 DEF reKyc, update
  <2>6. ASSUME NEW q \in Requests, NEW s \in Subs,
               consentRead(q, s) \/ firstApproveRead(q, s) \/ rejectRead(q, s)
        PROVE  FALSE
    BY <2>0, <2>6 DEF consentRead, firstApproveRead, rejectRead, Reads
  <2>7. ASSUME NEW q \in Requests, consent(q) \/ firstApprove(q) \/ reject(q)
        PROVE  FALSE
    BY <2>0, <2>7 DEF consent, firstApprove, reject, Writes
  <2>8. ASSUME NEW g \in Officers, NEW s \in Subs, NEW op \in Ways[g], gridLoad(g, op, s)
        PROVE  FALSE
    BY <2>0, <2>8 DEF gridLoad
  <2>9. ASSUME NEW g \in Officers, gridWrite(g) \/ gridRecords(g) \/ gridReopens(g) \/ gridRollsBack(g)
        PROVE  FALSE
    BY <2>0, <2>9 DEF gridWrite, gridRecords, gridReopens, gridRollsBack
  <2>10. ASSUME NEW g \in Officers, gridApproves(g)
         PROVE  Approval
    BY <2>10, ApprovesStep
  <2> QED BY <2>1, <2>2, <2>3, <2>4, <2>5, <2>6, <2>7, <2>8, <2>9, <2>10 DEF Next
<1> QED BY KycInit, KycStep, <1>1, PTL DEF Spec, GoesLiveFromTheQueue
=============================================================================
