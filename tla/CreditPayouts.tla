--------------------------- MODULE CreditPayouts ---------------------------
(***************************************************************************)
(* Credit batches (src/api/src/credits/credits.service.ts).  A batch       *)
(* awards points and payouts to outlets.  Its confirmation credits the     *)
(* points and makes an entry of every payout; a payout download takes the  *)
(* entries not yet paid into a file for the bank, one line per outlet,     *)
(* after withholding tax; an uploaded file says which lines the bank paid; *)
(* and a reversal takes an award back.  Requests overlap: what each reads  *)
(* before its transaction may be old when it writes.                       *)
(*                                                                         *)
(* One tenant, one period, one visibility field under section 194R with    *)
(* the DEDUCT method; amounts are whole rupees.                            *)
(***************************************************************************)
EXTENDS Integers, FiniteSets, FiniteSetsExt, Functions

CONSTANTS
  Batches, Entries, Outlets, Pans,
  Downloads, Reversals, Requests,
  BatchOf, OutletOf, Amount,    \* what each payout entry is, by its batch's rows
  PanOf,                        \* the PAN of an outlet's partner
  Threshold, Rate               \* tax is due above the threshold, Rate percent of all

NoDownload == "none"

ASSUME CreditAssumption ==
  /\ IsFiniteSet(Entries)
  /\ BatchOf \in [Entries -> Batches] /\ OutletOf \in [Entries -> Outlets]
  /\ PanOf \in [Outlets -> Pans]
  /\ Amount \in [Entries -> Nat \ {0}]
  /\ Threshold \in Nat /\ Rate \in 0..100
  /\ NoDownload \notin Downloads

VARIABLES
  batch,      \* status of the batches
  credited,   \* how often a batch's points were credited
  entry,      \* payout entries: status, download, tax withheld
  download,   \* bank files: status and the entries they pay
  bank,       \* what the bank did with an outlet's line of a file
  ledger,     \* tax withheld so far from a PAN, and what is carried forward
  reversal,   \* reversals, and what an approval under way has seen
  clawed,     \* how often a reversal's points were clawed back
  receivable, \* paid entries that a reversal found to be recovered
  request,    \* confirmations, downloads and uploads under way
  doubled,    \* entries whose tax was computed on a base that held them twice
  mistaken    \* entries that an upload of one file settled in another

vars == <<batch, credited, entry, download, bank, ledger, reversal, clawed,
          receivable, request, doubled, mistaken>>
awards == <<batch, credited>>
files == <<download, bank, mistaken>>
taxes == <<ledger, doubled>>
reversals == <<reversal, clawed, receivable>>

Idle == [pc |-> "idle"]
NoEntry == [status |-> "NONE", download |-> NoDownload, withheld |-> 0]
NoReversal == [status |-> "NONE"]

Init ==
  /\ batch = [b \in Batches |-> "NONE"]
  /\ credited = [b \in Batches |-> 0]
  /\ entry = [e \in Entries |-> NoEntry]
  /\ download = [d \in Downloads |-> [status |-> "NONE", entries |-> {}]]
  /\ bank = [d \in Downloads |-> [o \in Outlets |-> "none"]]
  /\ ledger = [p \in Pans |-> [withheld |-> 0, carried |-> 0]]
  /\ reversal = [r \in Reversals |-> NoReversal]
  /\ clawed = [r \in Reversals |-> 0]
  /\ receivable = {}
  /\ request = [q \in Requests |-> Idle]
  /\ doubled = {} /\ mistaken = {}

WithStatus(S) == {e \in Entries : entry[e].status \in S}
EntriesOf(p) == {e \in Entries : PanOf[OutletOf[e]] = p}
OutletsOf(S) == {OutletOf[e] : e \in S}
SumOver(f, S) == MapThenSumSet(LAMBDA e : f[e], S)
Total(S) == SumOver(Amount, S)
Withheld == [e \in Entries |-> entry[e].withheld]

-----------------------------------------------------------------------------
(* Batches.  Creating one again with its source's key finds the first.       *)
createBatch(b) ==
  /\ batch[b] = "NONE"
  /\ batch' = [batch EXCEPT ![b] = "PENDING_CONFIRM"]
  /\ UNCHANGED <<credited, entry, files, taxes, reversals, request>>

confirmRead(q, b) ==
  /\ request[q].pc = "idle"
  /\ batch[b] = "PENDING_CONFIRM"
  /\ request' = [request EXCEPT ![q] = [pc |-> "confirm", batch |-> b]]
  /\ UNCHANGED <<awards, entry, files, taxes, reversals>>

ConfirmableAsRead(b) == TRUE        \* mutant: the status is not tested again
Confirmable(b) == batch[b] = "PENDING_CONFIRM"

(* ... claims the batch, or throws.                                          *)
confirmBatch(q) ==
  LET b == request[q].batch
  IN  /\ request[q].pc = "confirm"
      /\ request' = [request EXCEPT ![q] = Idle]
      /\ IF Confirmable(b)
         THEN /\ batch' = [batch EXCEPT ![b] = "CONFIRMED"]
              /\ credited' = [credited EXCEPT ![b] = @ + 1]
              /\ entry' = [e \in Entries |-> IF BatchOf[e] = b
                             THEN [NoEntry EXCEPT !.status = "PENDING"] ELSE entry[e]]
         ELSE UNCHANGED <<batch, credited, entry>>
      /\ UNCHANGED <<files, taxes, reversals>>

-----------------------------------------------------------------------------
(* Payout downloads.  The entries to pay are read, without those of outlets  *)
(* that are held (by their KYC, or because they are inactive), ...           *)
Bankable == {"PENDING", "FAILED"}

payoutRead(q, payable) ==
  LET taking == {e \in WithStatus(Bankable) : OutletOf[e] \in payable}
  IN  /\ request[q].pc = "idle"
      /\ taking # {}
      /\ request' = [request EXCEPT ![q] = [pc |-> "lock", taking |-> taking]]
      /\ UNCHANGED <<awards, entry, files, taxes, reversals>>

Unlocked == TRUE                    \* mutant: the downloads take no lock
LockFree == \A q \in Requests : request[q].pc # "plan"

(* ... the transaction waits for the lock of the period and those of the     *)
(* PANs, reads what was paid or is being paid already, ...                   *)
payoutLock(q) ==
  /\ request[q].pc = "lock"
  /\ LockFree
  /\ request' = [request EXCEPT ![q] =
       [pc |-> "plan", taking |-> request[q].taking, prior |-> WithStatus({"PAID", "PROCESSING"})]]
  /\ UNCHANGED <<awards, entry, files, taxes, reversals>>

(* ... then what was withheld from each PAN.  Tax on all of a PAN's base is  *)
(* due once the base passes the threshold; what was not withheld yet is      *)
(* withheld now, as far as this payout goes, and the rest carried forward.   *)
Due(base) == IF base > Threshold THEN (base * Rate + 50) \div 100 ELSE 0

CatchUp(base, withheld) == Max({0, Due(base) - withheld})

withholdNow(base, withheld, payout) == Min({CatchUp(base, withheld), payout})

(* A payout's tax is split over its entries pro rata, leftover rupees going  *)
(* one each to some of them.                                                 *)
Shares(S, tax) ==
  LET floor(e) == (tax * Amount[e]) \div Total(S)
  IN  {f \in [S -> 0..tax] : /\ \A e \in S : f[e] \in {floor(e), floor(e) + 1}
                             /\ SumOver(f, S) = tax}

ClaimedAsRead(S) == TRUE            \* mutant: takes what it read, whatever came of it
Claimed(S) == S \subseteq WithStatus(Bankable)

Plan(q, p) ==
  LET paying == request[q].taking \cap EntriesOf(p)
      base == Total(request[q].prior \cap EntriesOf(p)) + Total(paying)
      tax == withholdNow(base, ledger[p].withheld, Total(paying))
  IN  [entries |-> paying, tax |-> tax,
       carried |-> IF paying = {} THEN ledger[p].carried
                   ELSE CatchUp(base, ledger[p].withheld) - tax]

createPayoutDownload(q, d) ==
  LET taking == request[q].taking
  IN  /\ request[q].pc = "plan"
      /\ download[d].status = "NONE"
      /\ Claimed(taking)
      /\ \E share \in [taking -> 0..Total(taking)] :
           /\ \A p \in Pans : LET plan == Plan(q, p)
                              IN  Restrict(share, plan.entries) \in Shares(plan.entries, plan.tax)
           /\ entry' = [e \in Entries |->
                IF e \in taking
                THEN [status |-> "PROCESSING", download |-> d,
                      withheld |-> IF share[e] > 0 THEN share[e] ELSE entry[e].withheld]
                ELSE entry[e]]
      /\ ledger' = [p \in Pans |-> [withheld |-> ledger[p].withheld + Plan(q, p).tax,
                                    carried |-> Plan(q, p).carried]]
      /\ download' = [download EXCEPT ![d] = [status |-> "OPEN", entries |-> taking]]
      /\ request' = [request EXCEPT ![q] = Idle]
      /\ doubled' = doubled \cup (request[q].prior \cap taking)
      /\ UNCHANGED <<awards, bank, mistaken, reversals>>

payoutConflict(q) ==
  /\ request[q].pc = "plan"
  /\ ~Claimed(request[q].taking)
  /\ request' = [request EXCEPT ![q] = Idle]
  /\ UNCHANGED <<awards, entry, files, taxes, reversals>>

(* The bank pays an outlet's line of a file, or rejects it, once.            *)
BankDecides(d, o, x) ==
  /\ o \in OutletsOf(download[d].entries)
  /\ bank[d][o] = "none"
  /\ bank' = [bank EXCEPT ![d][o] = x]
  /\ UNCHANGED <<awards, entry, download, mistaken, taxes, reversals, request>>

-----------------------------------------------------------------------------
(* Uploads of what the bank did.  A file has one row per outlet, of which    *)
(* the entry looked at is the last read with that outlet: any of them.  A    *)
(* row of an outlet the download no longer has is an error, and errors       *)
(* refuse the file; a row is skipped when its entry is paid.                 *)
InDownload(d) == {e \in Entries : entry[e].download = d}

OneOfEach(S) == {f \in [OutletsOf(S) -> S] : \A o \in OutletsOf(S) : OutletOf[f[o]] = o}

uploadRead(q, d, rows) ==
  /\ request[q].pc = "idle"
  /\ rows \subseteq {o \in OutletsOf(InDownload(d)) : bank[d][o] # "none"}
  /\ \E last \in OneOfEach(InDownload(d)) :
       LET ok == {o \in rows : entry[last[o]].status # "PAID"}
       IN  /\ ok # {}
           /\ request' = [request EXCEPT ![q] = [pc |-> "apply", download |-> d, rows |-> ok]]
  /\ UNCHANGED <<awards, entry, files, taxes, reversals>>

(* The transaction waits for the lock of the file, which only uploads take,  *)
(* and reads the download's entries again, one of every row's outlet ...     *)
FileFree(d) == \A q \in Requests : request[q].pc = "flip" => request[q].download # d

uploadLock(q) ==
  LET d == request[q].download
      rows == request[q].rows
  IN  /\ request[q].pc = "apply"
      /\ FileFree(d)
      /\ \E last \in OneOfEach(InDownload(d)) :
           request' = [request EXCEPT ![q] =
             [pc |-> "flip", download |-> d,
              read |-> Restrict(entry, {last[o] : o \in rows \cap DOMAIN last}),
              all |-> OutletsOf(InDownload(d)) \subseteq rows]]
      /\ UNCHANGED <<awards, entry, files, taxes, reversals>>

Settleable(e) == entry[e].status = "PROCESSING"

(* ... then settles each by its id if it is PROCESSING, whichever file has   *)
(* it by now: one that changed since it was read may be found so, or not.    *)
(* What a failed one had withheld when it was read leaves the ledger.        *)
Settlings(read) ==
  LET now == {e \in DOMAIN read : Settleable(e)}
  IN  {S \in SUBSET now : \A e \in now : entry[e] = read[e] => e \in S}

Reversed(read) == [e \in DOMAIN read |-> read[e].withheld]

uploadUtr(q) ==
  LET d == request[q].download
      read == request[q].read
  IN  /\ request[q].pc = "flip"
      /\ \E settled \in Settlings(read) :
           LET failed == {e \in settled : bank[d][OutletOf[e]] = "rejected"}
           IN  /\ entry' = [e \in Entries |->
                    IF e \in failed THEN [entry[e] EXCEPT !.status = "FAILED", !.withheld = 0]
                    ELSE IF e \in settled THEN [entry[e] EXCEPT !.status = "PAID"]
                    ELSE entry[e]]
               /\ ledger' = [p \in Pans |-> [ledger[p] EXCEPT !.withheld =
                    @ - SumOver(Reversed(read), failed \cap EntriesOf(p))]]
               /\ mistaken' = mistaken \cup {e \in settled : entry[e].download # d}
      /\ download' = [download EXCEPT ![d].status =
           IF request[q].all THEN "PAID" ELSE "PARTIALLY_PAID"]
      /\ request' = [request EXCEPT ![q] = Idle]
      /\ UNCHANGED <<awards, bank, doubled, reversals>>

-----------------------------------------------------------------------------
(* Reversals.  One may be pending for an outlet of a batch.                  *)
createReversal(r, b, o, award) ==
  /\ reversal[r].status = "NONE"
  /\ batch[b] = "CONFIRMED" /\ \E e \in Entries : BatchOf[e] = b /\ OutletOf[e] = o
  /\ \A s \in Reversals : reversal[s].status = "PENDING_GIFSY" =>
                            <<reversal[s].batch, reversal[s].outlet>> # <<b, o>>
  /\ reversal' = [reversal EXCEPT ![r] =
       [status |-> "PENDING_GIFSY", batch |-> b, outlet |-> o, award |-> award]]
  /\ UNCHANGED <<awards, entry, files, taxes, clawed, receivable, request>>

rejectReversal(r) ==
  /\ reversal[r].status = "PENDING_GIFSY"
  /\ reversal' = [reversal EXCEPT ![r].status = "REJECTED"]
  /\ UNCHANGED <<awards, entry, files, taxes, clawed, receivable, request>>

Reversible(r) == reversal[r].status = "PENDING_GIFSY"

(* An approval claws the points back; of a payout it reads the entries of    *)
(* the outlet, in every batch, ...                                           *)
patchReversal(r) ==
  /\ Reversible(r)
  /\ IF reversal[r].award = "POINTS"
     THEN /\ clawed' = [clawed EXCEPT ![r] = @ + 1]
          /\ reversal' = [reversal EXCEPT ![r].status = "APPROVED"]
     ELSE /\ reversal' = [reversal EXCEPT ![r] =
               [status |-> "APPROVING", batch |-> @.batch, outlet |-> @.outlet, award |-> @.award,
                unpaid |-> {e \in WithStatus({"PENDING", "PROCESSING", "FAILED"}) : OutletOf[e] = @.outlet},
                paid |-> {e \in WithStatus({"PAID"}) : OutletOf[e] = @.outlet}]]
          /\ UNCHANGED clawed
  /\ UNCHANGED <<awards, entry, files, taxes, receivable, request>>

WithdrawnInFile(x) == [x EXCEPT !.status = "REVERSED"]    \* mutant: stays in its download
Withdrawn(x) == [x EXCEPT !.status = "REVERSED", !.download = NoDownload]

(* ... and writes those by their ids that it read as not paid.               *)
reverseEntries(r) ==
  /\ reversal[r].status = "APPROVING"
  /\ entry' = [e \in Entries |-> IF e \in reversal[r].unpaid THEN Withdrawn(entry[e]) ELSE entry[e]]
  /\ receivable' = receivable \cup reversal[r].paid
  /\ reversal' = [reversal EXCEPT ![r] = [status |-> "APPROVED", batch |-> @.batch,
                                          outlet |-> @.outlet, award |-> @.award]]
  /\ UNCHANGED <<awards, files, taxes, clawed, request>>

-----------------------------------------------------------------------------
Next ==
  \/ \E b \in Batches : createBatch(b) \/ \E q \in Requests : confirmRead(q, b)
  \/ \E q \in Requests :
       \/ confirmBatch(q)
       \/ \E payable \in SUBSET Outlets : payoutRead(q, payable)
       \/ payoutLock(q) \/ payoutConflict(q) \/ \E d \in Downloads : createPayoutDownload(q, d)
       \/ \E d \in Downloads, rows \in SUBSET Outlets : uploadRead(q, d, rows)
       \/ uploadLock(q) \/ uploadUtr(q)
  \/ \E d \in Downloads, o \in Outlets, x \in {"paid", "rejected"} : BankDecides(d, o, x)
  \/ \E r \in Reversals :
       \/ \E b \in Batches, o \in Outlets, a \in {"POINTS", "PAYOUT"} : createReversal(r, b, o, a)
       \/ rejectReversal(r) \/ patchReversal(r) \/ reverseEntries(r)

Spec == Init /\ [][Next]_vars

-----------------------------------------------------------------------------
(* The state is well formed; an entry is in a download exactly while it is   *)
(* being paid, was paid or was rejected; and tax is never taken back that    *)
(* was not withheld, but from a PAN whose entry was settled in a file that   *)
(* the upload was not of.                                                    *)
InFile == {"PROCESSING", "PAID", "FAILED"}
Sound(p) == EntriesOf(p) \cap mistaken = {}

TypeOK ==
  /\ batch \in [Batches -> {"NONE", "PENDING_CONFIRM", "CONFIRMED"}]
  /\ \A e \in Entries :
       /\ entry[e].status \in InFile \cup {"NONE", "PENDING", "REVERSED"}
       /\ entry[e].withheld \in 0..Amount[e]
       /\ entry[e].download \in Downloads \cup {NoDownload}
       /\ entry[e].download # NoDownload <=> entry[e].status \in InFile
       /\ entry[e].download # NoDownload => e \in download[entry[e].download].entries
  /\ \A d \in Downloads :
       /\ download[d].status \in {"NONE", "OPEN", "PARTIALLY_PAID", "PAID"}
       /\ download[d].entries \subseteq Entries
  /\ bank \in [Downloads -> [Outlets -> {"none", "paid", "rejected"}]]
  /\ \A p \in Pans : /\ ledger[p].withheld \in Int /\ ledger[p].carried \in Nat
                     /\ Sound(p) => ledger[p].withheld >= 0
  /\ \A r \in Reversals : reversal[r].status \in
       {"NONE", "PENDING_GIFSY", "APPROVING", "APPROVED", "REJECTED"}
  /\ receivable \subseteq Entries /\ doubled \subseteq Entries /\ mistaken \subseteq Entries
  /\ \A q \in Requests : request[q].pc \in {"idle", "confirm", "lock", "plan", "apply", "flip"}

(* What an entry was paid by the bank: one payment for each file it is in    *)
(* whose line was paid.                                                      *)
Payments(e) == {d \in Downloads : e \in download[d].entries /\ bank[d][OutletOf[e]] = "paid"}

(* No entry is paid twice, however downloads, uploads and reversals overlap: *)
(* what may go into a new file has not been paid by an old one ("no double-  *)
(* pay: FAILED was never paid"), and what is noted as paid was.  The one way *)
(* round: an upload that reads an entry as FAILED settles it by its id after *)
(* a new file took it, and notes what became of the old file's line.         *)
PaidAtMostOnce ==
  \A e \in Entries \ mistaken :
    /\ Cardinality(Payments(e)) <= 1
    /\ entry[e].status \in Bankable => Payments(e) = {}
    /\ entry[e].status = "PAID" => Payments(e) # {}

(* A batch's points are credited once, by the one confirmation that also     *)
(* made its entries, and a reversal claws its points back once, however many *)
(* confirm or approve at the same time.                                      *)
MovedOnce ==
  /\ \A b \in Batches : credited[b] = (IF batch[b] = "CONFIRMED" THEN 1 ELSE 0)
  /\ \A r \in Reversals : clawed[r] <= 1

(* The ledger of a PAN is the tax withheld from its entries.  When all of    *)
(* them are paid or being paid, it is what is due on their sum, with what    *)
(* the last payout could not cover, in whatever order they were downloaded,  *)
(* rejected and downloaded again.  (Uploads take no PAN lock: an entry that  *)
(* one fails between a download's two reads is taxed twice, and one settled  *)
(* in another file than the upload's gives up tax that the ledger keeps.)    *)
TaxWithheldAsDue ==
  \A p \in Pans : Sound(p) =>
    LET made == EntriesOf(p) \ WithStatus({"NONE"})
    IN  /\ ledger[p].withheld = SumOver(Withheld, made)
        /\ made \subseteq WithStatus({"PROCESSING", "PAID"}) \ doubled =>
             ledger[p].withheld + ledger[p].carried = Due(Total(made))

(* "this download's rows are still PENDING/FAILED here, so they are NOT      *)
(* double-counted" (buildPayoutTdsPlan).                                     *)
NotDoubleCounted == doubled = {}

(* "Cash never left; no receivable" (patchReversal, of entries that are      *)
(* PENDING or PROCESSING).  The bank may have a PROCESSING entry's line.     *)
ReversedUnpaid ==
  \A e \in WithStatus({"REVERSED"}) : Payments(e) = {} \/ e \in receivable

(* "two entries become one payout for their combined amount" (confirmBatch). *)
(* An upload settles only one of them: the other stays PROCESSING.           *)
LineSettlesTogether ==
  \A d, f \in Entries :
    entry[d].download # NoDownload /\ entry[d].download = entry[f].download
      /\ OutletOf[d] = OutletOf[f] => entry[d].status = entry[f].status
=============================================================================
