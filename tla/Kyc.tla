-------------------------------- MODULE Kyc --------------------------------
(***************************************************************************)
(* The KYC submissions about one outlet (src/api/src/kyc/kyc.service.ts):  *)
(* saved as a draft by a rep, routed by the owner's consent, approved by   *)
(* the sales line, and verified field by field by officers, whose last     *)
(* decision approves the submission, applies the values it proposes and    *)
(* brings the outlet live.                                                 *)
(*                                                                         *)
(* A handler that reads before it writes is two steps: its reads take no   *)
(* lock, in its transaction or outside.  The cleanup of a draft reads      *)
(* twice.  The officers' transactions are three steps, load, write and     *)
(* commit, because what they decide depends on decisions that others have  *)
(* not committed.                                                          *)
(***************************************************************************)
EXTENDS Integers, FiniteSets, Functions

CONSTANTS
  Subs,            \* rows of kyc_submissions that may come to be
  Fields,          \* the fields of the verification grid
  Inheritable,     \* those that a group shares, the rest being the outlet's own
  Requests,        \* consents, sales approvals and rejections under way
  Cleanups,        \* sweeps of stale drafts under way
  Officers,        \* verifications under way
  Ways,            \* how each verifies: one field, all that are open, a sheet's row
  Stages,          \* the statuses that await a level of the sales line
  MultiLevel,      \* the tenant's multiLevelApproval
  Patches          \* the statuses an officer writes by hand

VARIABLES
  sub,       \* kyc_submissions with their kyc_verification_items
  outlet,    \* the outlet: live, or declined by the agent
  partner,   \* the channel partner that owns it, if it has one
  request,   \* read-then-write handlers under way
  cleanup,   \* the draft each sweep is at
  overtaken, \* history: a sweep took a partner that had become real meanwhile
  officer    \* the officers' transactions

vars == <<sub, outlet, partner, request, cleanup, overtaken, officer>>
sweeps == <<cleanup, overtaken>>

Queue == "PENDING_GIFSY"
Other == {"DRAFT", "SUBMITTED", "UNDER_REVIEW", "APPROVED", "REJECTED", "RE_UPLOAD_REQUIRED",
          "PENDING_PENNY_DROP", "PENDING_AGREEMENT", "SUSPENDED"}
Absent == {"none", "deleted"}
Statuses == Stages \cup Other \cup Absent \cup {Queue, "RE_KYC_REQUIRED"}
Decisions == {"PENDING", "APPROVED", "REJECTED"}

ASSUME KycAssumption ==
  /\ MultiLevel \in BOOLEAN
  /\ Ways \in [Officers -> SUBSET {"verify", "approve", "bulk"}]
  /\ Inheritable \subseteq Fields /\ Inheritable # Fields
  /\ Patches \subseteq Other
  /\ Stages \subseteq {"PENDING_SO_APPROVAL", "PENDING_ASM_APPROVAL", "PENDING_RSM_APPROVAL"}

NoSub == [status |-> "none", item |-> [f \in Fields |-> "PENDING"],
          linked |-> FALSE, proposes |-> FALSE]
NoPartner == [values |-> "none"]
Idle == [pc |-> "idle"]

Init ==
  /\ sub = [s \in Subs |-> NoSub]
  /\ outlet = [active |-> FALSE, declined |-> FALSE]
  /\ partner = NoPartner
  /\ request = [q \in Requests |-> Idle]
  /\ cleanup = [c \in Cleanups |-> Idle]
  /\ overtaken = FALSE
  /\ officer = [g \in Officers |-> Idle]

Exists(s) == sub[s].status \notin Absent
Linked(s) == Exists(s) /\ sub[s].linked
InFlight(s) == Linked(s) /\ sub[s].status \in Stages \cup {"SUBMITTED", "UNDER_REVIEW", Queue}

To(s, status) == [sub EXCEPT ![s].status = status]

-----------------------------------------------------------------------------
(* The rep saves a draft.  The first makes the outlet's partner with its     *)
(* values; the next ones only propose values, applied when they are approved.*)
(* A first draft inherits what was verified, and classified, for the group.  *)
create(s, inherited, classified) ==
  /\ inherited \subseteq Inheritable
  /\ sub[s].status = "none"
  /\ \A t \in Subs : ~InFlight(t)
  /\ partner # NoPartner => inherited = {} /\ ~classified
  /\ sub' = [sub EXCEPT ![s] =
       [status |-> "DRAFT",
        item |-> [f \in Fields |-> IF f \in inherited THEN "APPROVED" ELSE "PENDING"],
        linked |-> TRUE, proposes |-> partner # NoPartner]]
  /\ partner' = IF partner # NoPartner THEN partner
                ELSE [values |-> s, wallet |-> FALSE, classified |-> classified]
  /\ UNCHANGED <<outlet, request, officer, sweeps>>

Reclaimable(s) == ~sub[s].proposes    \* mutant: whatever else the partner has

NeverBecameReal(s) ==
  /\ ~sub[s].proposes
  /\ ~partner.wallet
  /\ \A t \in Subs \ {s} : Linked(t) => sub[t].status = "DRAFT"

NoneOfThem == {}                \* mutant: they keep the deleted partner
LinkedToIt == {t \in Subs : Linked(t)}

Deleted(s, unlinked) == [t \in Subs |->
  IF t = s THEN [NoSub EXCEPT !.status = "deleted"]
  ELSE IF t \in unlinked THEN [sub[t] EXCEPT !.linked = FALSE] ELSE sub[t]]

(* A row that another transaction has written is locked until it commits.    *)
Locked(s) == UNION {DOMAIN officer[g].wrote : g \in
                      {h \in Officers : officer[h].pc = "wrote" /\ officer[h].sub = s}}

(* A draft that is two days old goes, and with it the partner it made, if     *)
(* nothing else came of that.  The sweep reads the draft, then the partner,  *)
(* and deletes both by id: what it read may be so no more.                   *)
cleanupRead(c, s) ==
  /\ cleanup[c] = Idle /\ sub[s].status = "DRAFT"
  /\ cleanup' = [cleanup EXCEPT ![c] =
       [pc |-> "read", sub |-> s, takes |-> Linked(s) /\ ~sub[s].proposes]]
  /\ UNCHANGED <<sub, outlet, partner, request, overtaken, officer>>

cleanupCheck(c) ==
  /\ cleanup[c].pc = "read" /\ cleanup[c].takes
  /\ LET s == cleanup[c].sub IN
     cleanup' = [cleanup EXCEPT ![c] =
       [pc |-> "checked", sub |-> s, takes |-> Linked(s) /\ NeverBecameReal(s)]]
  /\ UNCHANGED <<sub, outlet, partner, request, overtaken, officer>>

(* The partner leaves every submission that names it, and the draft goes     *)
(* whatever has become of it.                                                *)
cleanupOneStaleDraft(c) ==
  LET s == cleanup[c].sub IN
  /\ cleanup[c].pc = "checked" \/ (cleanup[c].pc = "read" /\ ~cleanup[c].takes)
  /\ Exists(s) /\ Locked(s) = {}
  /\ IF cleanup[c].takes
     THEN /\ Linked(s)
          /\ partner' = NoPartner /\ sub' = Deleted(s, LinkedToIt)
          /\ overtaken' = (overtaken \/ sub[s].status # "DRAFT" \/ ~NeverBecameReal(s))
     ELSE sub' = Deleted(s, {}) /\ UNCHANGED <<partner, overtaken>>
  /\ cleanup' = [cleanup EXCEPT ![c] = Idle]
  /\ UNCHANGED <<outlet, request, officer>>

(* A row it deletes is gone, or the transaction fails: the sweep goes on.    *)
cleanupSkips(c) ==
  /\ cleanup[c] # Idle
  /\ cleanup' = [cleanup EXCEPT ![c] = Idle]
  /\ UNCHANGED <<sub, outlet, partner, request, overtaken, officer>>

(* The agent marks the outlet as not interested.                              *)
notInterested ==
  /\ ~outlet.declined
  /\ outlet' = [outlet EXCEPT !.declined = TRUE, !.active = FALSE]
  /\ UNCHANGED <<sub, partner, request, officer, sweeps>>

-----------------------------------------------------------------------------
(* Consent, sales approval and rejection: each reads the submission, checks   *)
(* its status, and writes another one by id.                                  *)
Reads(q, op, s, saw) ==
  /\ request[q] = Idle
  /\ request' = [request EXCEPT ![q] = [pc |-> op, sub |-> s, saw |-> saw]]
  /\ UNCHANGED <<sub, outlet, partner, officer, sweeps>>

Writes(q, op, status) ==
  /\ request[q].pc = op
  /\ sub' = IF Exists(request[q].sub) THEN To(request[q].sub, status) ELSE sub
  /\ request' = [request EXCEPT ![q] = Idle]
  /\ UNCHANGED <<outlet, partner, officer, sweeps>>

consentRead(q, s) == sub[s].status = "DRAFT" /\ Reads(q, "consent", s, "DRAFT")
consent(q) == \E status \in Stages \cup {"SUBMITTED"} : Writes(q, "consent", status)

nextStatusAfterFirstApprove(saw) ==
  IF MultiLevel /\ saw = "PENDING_SO_APPROVAL" THEN Stages \cup {Queue} ELSE {Queue}

firstApproveRead(q, s) == sub[s].status \in Stages /\ Reads(q, "firstApprove", s, sub[s].status)
firstApprove(q) ==
  /\ request[q].pc = "firstApprove"
  /\ \E status \in nextStatusAfterFirstApprove(request[q].saw) : Writes(q, "firstApprove", status)

rejectRead(q, s) == Exists(s) /\ sub[s].status # "REJECTED" /\ Reads(q, "reject", s, "any")
reject(q) == \E status \in {"REJECTED", "RE_UPLOAD_REQUIRED"} : Writes(q, "reject", status)

-----------------------------------------------------------------------------
(* What officers do by hand.                                                 *)
update(s, status) ==
  /\ Exists(s)
  /\ status = "APPROVED" /\ Linked(s) => partner.classified
  /\ sub' = To(s, status)
  /\ UNCHANGED <<outlet, partner, request, officer, sweeps>>

gstDetails(s) ==
  /\ Linked(s) /\ ~partner.classified
  /\ partner' = [partner EXCEPT !.classified = TRUE]
  /\ UNCHANGED <<sub, outlet, request, officer, sweeps>>

reKyc(s) ==
  /\ sub[s].status = "APPROVED"
  /\ sub' = To(s, "RE_KYC_REQUIRED")
  /\ UNCHANGED <<outlet, partner, request, officer, sweeps>>

-----------------------------------------------------------------------------
(* The verification of fields, in one transaction: one field (verifyField),  *)
(* all that are open (approve), or those of a sheet's row (bulk).            *)
evaluateSubmission(item) ==
  IF \E f \in Fields : item[f] = "PENDING" THEN Queue
  ELSE IF \E f \in Fields : item[f] = "REJECTED" THEN "RE_UPLOAD_REQUIRED"
  ELSE "APPROVED"

Rejected(item) == {f \in Fields : item[f] = "REJECTED"}

gridLoad(g, op, s) ==
  /\ officer[g] = Idle
  /\ sub[s].status = Queue
  /\ officer' = [officer EXCEPT ![g] =
       [pc |-> "loaded", op |-> op, sub |-> s, linked |-> sub[s].linked,
        classified |-> sub[s].linked => partner.classified]]
  /\ UNCHANGED <<sub, outlet, partner, request, sweeps>>

OpenItems(s) == {f \in Fields : sub[s].item[f] = "PENDING"}

Allowed(op, s) ==      \* the decisions a transaction may write
  IF op = "approve" THEN {[f \in OpenItems(s) |-> "APPROVED"]}
  ELSE IF op = "verify" THEN UNION {[{f} -> {"APPROVED", "REJECTED"}] : f \in Fields}
  ELSE UNION {[F -> {"APPROVED", "REJECTED"}] : F \in SUBSET Fields \ {{}}}

Bridge(o, next) ==     \* what its evaluation makes the transaction do
  CASE next = "APPROVED" /\ o.classified -> "approves"
    [] next = "RE_UPLOAD_REQUIRED" /\ o.op # "approve" /\ o.linked -> "reopens"
    [] next = Queue \/ (next = "APPROVED" /\ ~o.classified /\ o.op = "verify") -> "records"
    [] OTHER -> "throws"

(* It writes its decisions, and evaluates them with what others committed.   *)
gridWrite(g) ==
  /\ officer[g].pc = "loaded"
  /\ LET o == officer[g] IN
     \E w \in Allowed(o.op, o.sub) :
       LET seen == [f \in Fields |-> IF f \in DOMAIN w THEN w[f] ELSE sub[o.sub].item[f]]
           does == Bridge(o, evaluateSubmission(seen)) IN
       /\ DOMAIN w \cap Locked(o.sub) = {} /\ does # "throws"
       /\ officer' = [officer EXCEPT ![g] =
            [pc |-> "wrote", sub |-> o.sub, wrote |-> w, does |-> does,
             linked |-> o.linked /\ does = "approves"]]
  /\ UNCHANGED <<sub, outlet, partner, request, sweeps>>

WonAnyway(s) == Exists(s)       \* mutant: the flip is not conditional
Won(s) == sub[s].status = Queue

GoesLive == ~outlet.declined

Published(g) ==
  LET o == officer[g] IN
  [sub EXCEPT ![o.sub].item = [f \in Fields |-> IF f \in DOMAIN o.wrote THEN o.wrote[f] ELSE @[f]]]

Records(g, sub1) ==
  /\ sub' = sub1
  /\ officer' = [officer EXCEPT ![g] = Idle]
  /\ UNCHANGED <<request, cleanup>>

(* The grid is not done, the partner is not classified (a single field only),*)
(* or another handler moved the submission: the decisions alone are recorded.*)
gridRecords(g) ==
  LET o == officer[g] IN
  /\ o.pc = "wrote" /\ Exists(o.sub)
  /\ o.does = "records" \/ ~Won(o.sub)
  /\ Records(g, Published(g))
  /\ UNCHANGED <<outlet, partner, overtaken>>

(* applyBridgeOutcome: the last field was approved.                          *)
gridApproves(g) ==
  LET o == officer[g] IN
  /\ o.pc = "wrote" /\ o.does = "approves" /\ Won(o.sub)
  /\ o.linked => Linked(o.sub)
  /\ Records(g, [Published(g) EXCEPT ![o.sub].status = "APPROVED"])
  /\ partner' = IF ~o.linked THEN partner
                ELSE [partner EXCEPT !.values = IF sub[o.sub].proposes THEN o.sub ELSE @,
                                     !.wallet = TRUE]
  /\ outlet' = [outlet EXCEPT !.active = @ \/ (o.linked /\ GoesLive)]
  /\ overtaken' = (overtaken /\ ~o.linked)

(* ... or the last field was decided, and some are rejected.                 *)
gridReopens(g) ==
  LET o == officer[g] IN
  /\ o.pc = "wrote" /\ o.does = "reopens" /\ Won(o.sub)
  /\ Records(g, [Published(g) EXCEPT ![o.sub].status = "RE_UPLOAD_REQUIRED"])
  /\ UNCHANGED <<outlet, partner, overtaken>>

(* The transaction is rolled back: the values or the phone are taken, the    *)
(* partner is not classified or gone, a blanket approval met a rejection.    *)
gridRollsBack(g) ==
  /\ officer[g] # Idle
  /\ officer' = [officer EXCEPT ![g] = Idle]
  /\ UNCHANGED <<sub, outlet, partner, request, sweeps>>

-----------------------------------------------------------------------------
Next ==
  \/ \E s \in Subs, F \in SUBSET Fields, c \in BOOLEAN : create(s, F, c)
  \/ \E s \in Subs : reKyc(s) \/ gstDetails(s)
  \/ \E c \in Cleanups : (\E s \in Subs : cleanupRead(c, s)) \/ cleanupCheck(c)
                         \/ cleanupOneStaleDraft(c) \/ cleanupSkips(c)
  \/ notInterested
  \/ \E q \in Requests, s \in Subs : consentRead(q, s) \/ firstApproveRead(q, s) \/ rejectRead(q, s)
  \/ \E q \in Requests : consent(q) \/ firstApprove(q) \/ reject(q)
  \/ \E s \in Subs, status \in Patches : update(s, status)
  \/ \E g \in Officers, s \in Subs : \E op \in Ways[g] : gridLoad(g, op, s)
  \/ \E g \in Officers : gridWrite(g) \/ gridRecords(g) \/ gridApproves(g) \/ gridReopens(g)
                         \/ gridRollsBack(g)

Spec == Init /\ [][Next]_vars

-----------------------------------------------------------------------------
Row == [status : Statuses, item : [Fields -> Decisions], linked : BOOLEAN, proposes : BOOLEAN]
Owned == [values : Subs, wallet : BOOLEAN, classified : BOOLEAN]
Reading == [pc : {"consent", "firstApprove", "reject"}, sub : Subs, saw : Stages \cup {"DRAFT", "any"}]
Sweeping == [pc : {"read", "checked"}, sub : Subs, takes : BOOLEAN]
Loaded == [pc : {"loaded"}, op : {"verify", "approve", "bulk"}, sub : Subs,
           linked : BOOLEAN, classified : BOOLEAN]
Wrote == [pc : {"wrote"}, sub : Subs, wrote : UNION {[F -> Decisions] : F \in SUBSET Fields},
          does : {"approves", "reopens", "records"}, linked : BOOLEAN]

(* The values have their types, and a submission that names a partner names  *)
(* one there is: the cleanup that deletes it (kyc.service.ts:2414) unlinks    *)
(* every other, those that were routed since it looked (2375) too.           *)
TypeOK ==
  /\ sub \in [Subs -> Row]
  /\ outlet \in [active : BOOLEAN, declined : BOOLEAN]
  /\ partner \in Owned \cup {NoPartner}
  /\ request \in [Requests -> Reading \cup {Idle}]
  /\ cleanup \in [Cleanups -> Sweeping \cup {Idle}]
  /\ overtaken \in BOOLEAN
  /\ officer \in [Officers -> Loaded \cup Wrote \cup {Idle}]
  /\ \A s \in Subs : Linked(s) => partner # NoPartner

(* An outlet that is live was not declined by the agent, whatever approval    *)
(* comes after "not interested" (4823-4844), and has a partner with a wallet, *)
(* whatever drafts are cleaned up (2386-2412): but where a cleanup overtaken  *)
(* by a consent or an approval, between its look at the partner (2375) and    *)
(* its deletes by id (2414, 2420), took the partner, until the outlet is      *)
(* approved again.                                                            *)
LiveOutletIsOwned ==
  outlet.active => ~outlet.declined /\ (overtaken \/ (partner # NoPartner /\ partner.wallet))

ComesToLife ==
  \/ outlet'.active /\ ~outlet.active
  \/ partner # NoPartner /\ partner' # NoPartner /\ partner'.values # partner.values

(* The partner's values change, and the outlet goes live, only as some        *)
(* submission moves from the officers' queue to APPROVED: not when it was     *)
(* rejected, patched or approved since the officer loaded it (4504-4512:      *)
(* "only one concurrent writer can win").                                     *)
GoesLiveFromTheQueue ==
  [][ComesToLife => \E s \in Subs : sub[s].status = Queue /\ sub'[s].status = "APPROVED"]_vars

-----------------------------------------------------------------------------
(* What the source says and the code does not keep.                           *)

(* A partner that became real is not deleted (2299-2301: "a partner that      *)
(* became real between draft-create and cleanup is never destroyed"), nor a   *)
(* draft that was routed (2304: "a draft that routed/resubmitted in the       *)
(* meantime is left alone").                                                  *)
RealIsKept == outlet.active => partner # NoPartner
RoutedIsKept ==
  [][\A s \in Subs : sub'[s].status = "deleted" => sub[s].status \in {"DRAFT", "deleted"}]_vars

(* One submission at a time is with the reviewers (1795-1798: "a fresh DRAFT *)
(* supersedes the old one"; "Once consent routes it, the routed status        *)
(* blocks dups").                                                             *)
OneInFlight == \A s, t \in Subs : InFlight(s) /\ InFlight(t) => s = t

(* An approved submission has no rejected field (kyc-verification.helper.ts: *)
(* 15: "all 7 terminal, >=1 REJECTED -> RE_UPLOAD_REQUIRED").                 *)
ApprovedMeansVerified ==
  \A s \in Subs : sub[s].status = "APPROVED" => Rejected(sub[s].item) = {}

(* A grid that is complete does not stay in the queue (the same, 13-16).     *)
CompleteGridIsDecided ==
  \A s \in Subs : sub[s].status = Queue /\ Linked(s) /\ (\A g \in Officers : officer[g] = Idle)
    => evaluateSubmission(sub[s].item) = Queue \/ ~partner.classified

(* The sales line acts on what awaits it (3027: "Only the correct role for    *)
(* the current status may act").                                              *)
SalesActInTurn ==
  [][\A q \in Requests : request[q].pc = "firstApprove" /\ request'[q] = Idle
       => sub[request[q].sub].status = request[q].saw]_vars

(* An approval brings the outlet live (4823-4825).                            *)
ApprovalGoesLive ==
  [][\A g \in Officers : (gridApproves(g) => outlet'.active \/ outlet'.declined)]_vars
=============================================================================
