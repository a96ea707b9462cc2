------------------------ MODULE CreditPayoutsProofs ------------------------
(* Proofs about CreditPayouts, for every number of batches, entries,         *)
(* outlets, PANs, bank files, reversals and requests, every amount, threshold *)
(* and rate: its types, that a batch's points move once, that no entry is     *)
(* paid twice, and that the tax withheld is the tax due.  The files and the   *)
(* points are CInv's, which does not speak of the tax; the tax is TaxInv's,   *)
(* which rests on it.                                                         *)
EXTENDS CreditPayouts, FiniteSetTheorems, TLAPS

USE CreditAssumption

EntryType == [status : InFile \cup {"NONE", "PENDING", "REVERSED"},
              download : Downloads \cup {NoDownload}, withheld : Int]
DownloadType == [status : {"NONE", "OPEN", "PARTIALLY_PAID", "PAID"}, entries : SUBSET Entries]
ReversalType ==
  [status : {"NONE"}]
  \cup [status : {"PENDING_GIFSY", "APPROVED", "REJECTED"},
        batch : Batches, outlet : Outlets, award : {"POINTS", "PAYOUT"}]
  \cup [status : {"APPROVING"}, batch : Batches, outlet : Outlets, award : {"POINTS", "PAYOUT"},
        unpaid : SUBSET Entries, paid : SUBSET Entries]
Snapshots == UNION {[S -> EntryType] : S \in SUBSET Entries}
RequestType ==
  [pc : {"idle"}]
  \cup [pc : {"confirm"}, batch : Batches]
  \cup [pc : {"lock"}, taking : SUBSET Entries]
  \cup [pc : {"plan"}, taking : SUBSET Entries, prior : SUBSET Entries]
  \cup [pc : {"apply"}, download : Downloads, rows : SUBSET Outlets]
  \cup [pc : {"flip"}, download : Downloads, read : Snapshots, all : BOOLEAN]

Shape ==
  /\ batch \in [Batches -> {"NONE", "PENDING_CONFIRM", "CONFIRMED"}]
  /\ credited \in [Batches -> Nat]
  /\ entry \in [Entries -> EntryType]
  /\ download \in [Downloads -> DownloadType]
  /\ bank \in [Downloads -> [Outlets -> {"none", "paid", "rejected"}]]
  /\ reversal \in [Reversals -> ReversalType]
  /\ clawed \in [Reversals -> Nat]
  /\ request \in [Requests -> RequestType]
  /\ mistaken \subseteq Entries

(* The entries are those of the batches that were confirmed, and those a     *)
(* reversal has read are among them.                                         *)
Made ==
  /\ \A e \in Entries : batch[BatchOf[e]] # "CONFIRMED" => entry[e].status = "NONE"
  /\ \A r \in Reversals : reversal[r].status = "APPROVING" =>
       \A e \in Entries : e \in reversal[r].unpaid => entry[e].status # "NONE"

(* The bank rejected the line that an entry has in a file.                   *)
Refused(d, e) == bank[d][OutletOf[e]] = "rejected"

(* A file that does not exist has no entries, nor is an entry in a file that *)
(* was never taken into one.                                                 *)
Opened ==
  /\ \A d \in Downloads : download[d].status = "NONE" => download[d].entries = {}
  /\ \A e \in Entries : entry[e].status \in {"NONE", "PENDING"} =>
       \A d \in Downloads : e \notin download[d].entries

(* The file an entry is in has it.                                           *)
Filed ==
  \A e \in Entries : entry[e].status \in InFile =>
    entry[e].download \in Downloads /\ e \in download[entry[e].download].entries

(* An entry that is in no file says so.                                      *)
Loose == \A e \in Entries : entry[e].status \notin InFile => entry[e].download = NoDownload

(* Unless an upload was mistaken about an entry, every other file that had   *)
(* it was refused, and it was settled as the bank decided.                   *)
HeldWell(e) ==
  entry[e].status \in InFile =>
    /\ \A d \in Downloads \ {entry[e].download} : e \in download[d].entries => Refused(d, e)
    /\ entry[e].status = "FAILED" => Refused(entry[e].download, e)
    /\ entry[e].status = "PAID" => bank[entry[e].download][OutletOf[e]] = "paid"

Held == \A e \in Entries \ mistaken : HeldWell(e)

(* An upload settles lines that the bank decided, of entries its file had.   *)
ApplyDecided(x) == x.pc = "apply" => \A o \in x.rows : bank[x.download][o] # "none"
FlipDecided(x) ==
  x.pc = "flip" => \A e \in DOMAIN x.read :
    bank[x.download][OutletOf[e]] # "none" /\ e \in download[x.download].entries

Decided == \A q \in Requests : ApplyDecided(request[q]) /\ FlipDecided(request[q])

(* Of the files an entry was ever in, the bank has not refused one at most.  *)
OneLive ==
  \A e \in Entries \ mistaken, d, f \in Downloads :
    e \in download[d].entries /\ e \in download[f].entries /\ d # f => Refused(d, e) \/ Refused(f, e)

(* Points moved as often as the status says.                                 *)
Moved ==
  /\ \A b \in Batches : credited[b] = (IF batch[b] = "CONFIRMED" THEN 1 ELSE 0)
  /\ \A r \in Reversals :
       /\ clawed[r] <= 1
       /\ reversal[r].status \in {"NONE", "PENDING_GIFSY", "APPROVING"} => clawed[r] = 0

CInv == Shape /\ Made /\ Opened /\ Filed /\ Loose /\ Held /\ Decided /\ OneLive /\ Moved

USE DEF awards, files, taxes, reversals

-----------------------------------------------------------------------------
(* A step that moves a request alone, to a state that is one of its own.     *)
LEMMA SnapshotIs ==
  ASSUME NEW x \in RequestType, x.pc = "flip"
  PROVE  /\ x.download \in Downloads /\ DOMAIN x.read \subseteq Entries
         /\ \A e \in DOMAIN x.read : x.read[e] \in EntryType
<1>1. x \in [pc : {"flip"}, download : Downloads, read : Snapshots, all : BOOLEAN]
  BY DEF RequestType
<1>2. PICK S \in SUBSET Entries : x.read \in [S -> EntryType]
  BY <1>1 DEF Snapshots
<1> QED
  BY <1>1, <1>2

LEMMA FilesSame ==
  ASSUME CInv, UNCHANGED <<entry, files>>
  PROVE  (Opened /\ Filed /\ Loose /\ Held /\ OneLive)'
  BY DEF CInv, Opened, Filed, Loose, Held, HeldWell, OneLive, Refused

(* What is under way stays decided when it is not new.                       *)
LEMMA DecidedSame ==
  ASSUME CInv, UNCHANGED <<bank>>,
         \A d \in Downloads : download[d].entries \subseteq download'[d].entries,
         \A q \in Requests : request'[q].pc \in {"apply", "flip"} => request'[q] = request[q]
  PROVE  Decided'
<1> SUFFICES ASSUME NEW q \in Requests
             PROVE  (ApplyDecided(request[q]) /\ FlipDecided(request[q]))'
  BY DEF Decided
<1>1. CASE request'[q].pc \notin {"apply", "flip"}
  BY <1>1 DEF ApplyDecided, FlipDecided
<1>2. CASE request'[q].pc = "apply"
  BY <1>2 DEF CInv, Decided, ApplyDecided, FlipDecided
<1>3. CASE request'[q].pc = "flip"
  <2>1. request'[q] = request[q] /\ FlipDecided(request[q]) /\ request[q] \in RequestType
    BY <1>3 DEF CInv, Shape, Decided
  <2>2. request[q].download \in Downloads
    BY <1>3, <2>1, SnapshotIs
  <2> QED
    BY <1>3, <2>1, <2>2 DEF FlipDecided, ApplyDecided
<1> QED
  BY <1>1, <1>2, <1>3

LEMMA RequestStep ==
  ASSUME CInv, UNCHANGED <<awards, entry, files, reversals>>,
         NEW q \in Requests, NEW new \in RequestType,
         request' = [request EXCEPT ![q] = new],
         ApplyDecided(new), FlipDecided(new)
  PROVE  CInv'
<1>1. Shape'
  BY DEF CInv, Shape
<1>2. Decided'
  BY DEF CInv, Shape, Decided, ApplyDecided, FlipDecided
<1>3. (Made /\ Moved)'
  BY DEF CInv, Made, Moved
<1> QED
  BY <1>1, <1>2, <1>3, FilesSame DEF CInv

LEMMA CreateBatch ==
  ASSUME CInv, NEW b \in Batches, createBatch(b)
  PROVE  CInv'
<1>1. Shape'
  BY DEF CInv, Shape, createBatch
<1>2. (Made /\ Moved)'
  BY DEF CInv, Shape, Made, Moved, createBatch
<1>3. (Opened /\ Filed /\ Loose /\ Held /\ OneLive)'
  BY FilesSame DEF createBatch
<1>4. Decided'
  BY DecidedSame DEF createBatch
<1> QED
  BY <1>1, <1>2, <1>3, <1>4 DEF CInv

LEMMA ConfirmRead ==
  ASSUME CInv, NEW b \in Batches, NEW q \in Requests, confirmRead(q, b)
  PROVE  CInv'
<1> DEFINE new == [pc |-> "confirm", batch |-> b]
<1>1. new \in RequestType /\ ApplyDecided(new) /\ FlipDecided(new)
  BY DEF RequestType, ApplyDecided, FlipDecided
<1>2. request' = [request EXCEPT ![q] = new]
  BY DEF confirmRead
<1>3. UNCHANGED <<awards, entry, files, reversals>>
  BY DEF confirmRead
<1> HIDE DEF new
<1> QED
  BY <1>1, <1>2, <1>3, RequestStep

LEMMA ConfirmBatch ==
  ASSUME CInv, NEW q \in Requests, confirmBatch(q)
  PROVE  CInv'
<1> DEFINE b == request[q].batch
<1>1. b \in Batches
  BY DEF CInv, Shape, RequestType, confirmBatch
<1>2. CASE ~Confirmable(b)
  <2>1. Idle \in RequestType /\ ApplyDecided(Idle) /\ FlipDecided(Idle)
    BY DEF RequestType, Idle, ApplyDecided, FlipDecided
  <2>2. request' = [request EXCEPT ![q] = Idle]
    BY DEF confirmBatch
  <2>3. UNCHANGED <<awards, entry, files, reversals>>
    BY <1>2 DEF confirmBatch
  <2> QED
    BY <2>1, <2>2, <2>3, RequestStep
<1>3. CASE Confirmable(b)
  <2> HIDE DEF b
  <2>1. /\ batch[b] = "PENDING_CONFIRM"
        /\ batch' = [batch EXCEPT ![b] = "CONFIRMED"]
        /\ credited' = [credited EXCEPT ![b] = @ + 1]
        /\ request' = [request EXCEPT ![q] = Idle]
        /\ UNCHANGED <<files, reversals>>
    BY <1>3 DEF confirmBatch, Confirmable, b
  <2>2. entry' = [e \in Entries |-> IF BatchOf[e] = b
                    THEN [NoEntry EXCEPT !.status = "PENDING"] ELSE entry[e]]
    BY <1>3 DEF confirmBatch, b
  <2> DEFINE made == [NoEntry EXCEPT !.status = "PENDING"]
  <2>3. made \in EntryType /\ made.status = "PENDING"
    BY DEF NoEntry, EntryType
  <2> HIDE DEF made
  <2>4. \A e \in Entries : /\ BatchOf[e] = b => entry[e].status = "NONE" /\ entry'[e] = made
                           /\ BatchOf[e] # b => entry'[e] = entry[e]
    BY <2>1, <2>2 DEF CInv, Made, made
  <2>5. Shape'
    <3>1. (batch \in [Batches -> {"NONE", "PENDING_CONFIRM", "CONFIRMED"}])'
      BY <1>1, <2>1 DEF CInv, Shape
    <3>2. (credited \in [Batches -> Nat])'
      BY <1>1, <2>1 DEF CInv, Shape
    <3>3. (entry \in [Entries -> EntryType])'
      BY <2>2, <2>3 DEF CInv, Shape, made
    <3>4. (request \in [Requests -> RequestType])'
      BY <2>1 DEF CInv, Shape, RequestType, Idle
    <3> QED
      BY <3>1, <3>2, <3>3, <3>4, <2>1 DEF CInv, Shape
  <2>6. Made'
    BY <1>1, <2>1, <2>3, <2>4 DEF CInv, Shape, Made
  <2>7. Opened'
    BY <2>1, <2>3, <2>4 DEF CInv, Opened
  <2>8. (Filed /\ Loose /\ Held)'
    <3>1. made.download = NoDownload
      BY DEF made, NoEntry
    <3> QED
      BY <2>1, <2>3, <2>4, <3>1 DEF CInv, Filed, Loose, Held, HeldWell, Refused, InFile
  <2>9. Decided'
    <3>1. \A r \in Requests : request'[r].pc \in {"apply", "flip"} => request'[r] = request[r]
      BY <2>1 DEF CInv, Shape, Idle
    <3> QED
      BY <2>1, <3>1, DecidedSame
  <2>10. OneLive'
    BY <2>1 DEF CInv, OneLive, Refused
  <2>11. Moved'
    BY <1>1, <2>1 DEF CInv, Shape, Moved
  <2> QED
    BY <2>5, <2>6, <2>7, <2>8, <2>9, <2>10, <2>11 DEF CInv
<1> QED
  BY <1>2, <1>3

-----------------------------------------------------------------------------
(* Reading the entries to pay, waiting for the locks, giving up.             *)
LEMMA PayoutRequests ==
  ASSUME CInv, NEW q \in Requests,
         \/ \E payable \in SUBSET Outlets : payoutRead(q, payable)
         \/ payoutLock(q)
         \/ payoutConflict(q)
  PROVE  CInv'
<1>1. ASSUME NEW payable \in SUBSET Outlets, payoutRead(q, payable)
      PROVE  CInv'
  <2> DEFINE new == [pc |-> "lock", taking |-> {e \in WithStatus(Bankable) : OutletOf[e] \in payable}]
  <2>1. new \in RequestType /\ ApplyDecided(new) /\ FlipDecided(new)
    BY DEF RequestType, WithStatus, ApplyDecided, FlipDecided
  <2>2. /\ request' = [request EXCEPT ![q] = new]
        /\ UNCHANGED <<awards, entry, files, reversals>>
    BY <1>1 DEF payoutRead
  <2> HIDE DEF new
  <2> QED
    BY <2>1, <2>2, RequestStep
<1>2. ASSUME payoutLock(q)
      PROVE  CInv'
  <2> DEFINE new == [pc |-> "plan", taking |-> request[q].taking,
                     prior |-> WithStatus({"PAID", "PROCESSING"})]
  <2>1. request[q].taking \subseteq Entries
    BY <1>2 DEF CInv, Shape, RequestType, payoutLock
  <2>2. new \in RequestType /\ ApplyDecided(new) /\ FlipDecided(new)
    BY <2>1 DEF RequestType, WithStatus, ApplyDecided, FlipDecided
  <2>3. /\ request' = [request EXCEPT ![q] = new]
        /\ UNCHANGED <<awards, entry, files, reversals>>
    BY <1>2 DEF payoutLock
  <2> HIDE DEF new
  <2> QED
    BY <2>2, <2>3, RequestStep
<1>3. ASSUME payoutConflict(q)
      PROVE  CInv'
  <2>1. Idle \in RequestType /\ ApplyDecided(Idle) /\ FlipDecided(Idle)
    BY DEF RequestType, Idle, ApplyDecided, FlipDecided
  <2>2. /\ request' = [request EXCEPT ![q] = Idle]
        /\ UNCHANGED <<awards, entry, files, reversals>>
    BY <1>3 DEF payoutConflict
  <2> QED
    BY <2>1, <2>2, RequestStep
<1> QED
  BY <1>1, <1>2, <1>3

(* A file takes entries that may be paid: those of every other file they     *)
(* were in, the bank has refused.                                            *)
LEMMA PayoutDownload ==
  ASSUME CInv, NEW q \in Requests, NEW d \in Downloads, createPayoutDownload(q, d)
  PROVE  CInv'
<1> DEFINE taking == request[q].taking
<1>1. taking \subseteq Entries /\ \A e \in taking : entry[e].status \in {"PENDING", "FAILED"}
  BY DEF createPayoutDownload, Claimed, WithStatus, Bankable
<1>2. /\ request[q].pc = "plan"
      /\ download[d].status = "NONE"
      /\ download' = [download EXCEPT ![d] = [status |-> "OPEN", entries |-> taking]]
      /\ request' = [request EXCEPT ![q] = Idle]
      /\ UNCHANGED <<awards, bank, mistaken, reversals>>
  BY DEF createPayoutDownload
<1>3. PICK share \in [taking -> 0..Total(taking)] :
        entry' = [e \in Entries |->
          IF e \in taking
          THEN [status |-> "PROCESSING", download |-> d,
                withheld |-> IF share[e] > 0 THEN share[e] ELSE entry[e].withheld]
          ELSE entry[e]]
  BY DEF createPayoutDownload
<1> HIDE DEF taking
<1>4. \A e \in taking : share[e] \in Int
  BY <1>3
<1>5. \A e \in taking : /\ entry'[e] \in EntryType
                        /\ entry'[e].status = "PROCESSING" /\ entry'[e].download = d
  BY <1>1, <1>3, <1>4 DEF CInv, Shape, EntryType, InFile
<1>6. \A e \in Entries \ taking : entry'[e] = entry[e]
  BY <1>3
<1>7. /\ download'[d].entries = taking /\ download'[d].status = "OPEN"
      /\ \A f \in Downloads \ {d} : download'[f] = download[f]
  BY <1>2 DEF CInv, Shape
<1>8. \A e \in taking \ mistaken, f \in Downloads : e \in download[f].entries => Refused(f, e)
  BY <1>1 DEF CInv, Opened, Held, HeldWell, InFile
<1>9. Shape'
  <2>1. (entry \in [Entries -> EntryType])'
    BY <1>3, <1>5, <1>6 DEF CInv, Shape
  <2>2. (download \in [Downloads -> DownloadType])'
    BY <1>1, <1>2 DEF CInv, Shape, DownloadType
  <2>3. (request \in [Requests -> RequestType])'
    BY <1>2 DEF CInv, Shape, RequestType, Idle
  <2> QED
    BY <1>2, <2>1, <2>2, <2>3 DEF CInv, Shape
<1>10. Made'
  <2>1. \A e \in Entries : entry'[e].status = "NONE" <=> entry[e].status = "NONE"
    BY <1>1, <1>5, <1>6
  <2> QED
    BY <1>2, <2>1 DEF CInv, Made
<1>11. Opened'
  BY <1>2, <1>5, <1>6, <1>7, <1>1 DEF CInv, Opened
<1>12. (Filed /\ Loose)'
  <2>1. \A e \in Entries : entry[e].status \in InFile /\ e \notin taking =>
          entry[e].download # d /\ entry[e].download \in Downloads
    BY <1>2 DEF CInv, Filed, Opened
  <2> QED
    BY <1>5, <1>6, <1>7, <2>1 DEF CInv, Filed, Loose, InFile
<1>13. Held'
  <2> SUFFICES ASSUME NEW e \in Entries \ mistaken
               PROVE  HeldWell(e)'
    BY <1>2 DEF Held
  <2>1. CASE e \in taking
    BY <2>1, <1>2, <1>5, <1>7, <1>8 DEF HeldWell, Refused
  <2>2. CASE e \notin taking
    <3>1. HeldWell(e) /\ entry'[e] = entry[e] /\ (\A f \in Downloads : e \in download'[f].entries => e \in download[f].entries)
      BY <2>2, <1>6, <1>7 DEF CInv, Held
    <3> QED
      BY <1>2, <3>1 DEF HeldWell, Refused
  <2> QED
    BY <2>1, <2>2
<1>14. Decided'
  <2>1. \A r \in Requests : request'[r].pc \in {"apply", "flip"} => request'[r] = request[r]
    BY <1>2 DEF CInv, Shape, Idle
  <2>2. \A f \in Downloads : download[f].entries \subseteq download'[f].entries
    BY <1>2, <1>7 DEF CInv, Opened
  <2> QED
    BY <1>2, <2>1, <2>2, DecidedSame
<1>15. OneLive'
  BY <1>2, <1>7, <1>8 DEF CInv, OneLive, Refused
<1>16. Moved'
  BY <1>2 DEF CInv, Moved
<1> QED
  BY <1>9, <1>10, <1>11, <1>12, <1>13, <1>14, <1>15, <1>16 DEF CInv

(* The bank decides a line once, and refuses none that it paid.              *)
LEMMA BankStep ==
  ASSUME CInv, NEW d \in Downloads, NEW o \in Outlets, NEW x \in {"paid", "rejected"},
         BankDecides(d, o, x)
  PROVE  CInv'
<1>1. /\ bank[d][o] = "none"
      /\ bank' = [bank EXCEPT ![d][o] = x]
      /\ UNCHANGED <<awards, entry, download, mistaken, reversals, request>>
  BY DEF BankDecides
<1>2. \A f \in Downloads, u \in Outlets :
        /\ bank[f][u] # "none" => bank'[f][u] = bank[f][u]
        /\ bank[f][u] = "none" => bank'[f][u] \in {"none", x}
  BY <1>1 DEF CInv, Shape
<1>3. Shape'
  BY <1>1 DEF CInv, Shape
<1>4. (Filed /\ Loose /\ Held)'
  BY <1>1, <1>2 DEF CInv, Filed, Loose, Held, HeldWell, Refused
<1>5. Decided'
  <2> SUFFICES ASSUME NEW q \in Requests
               PROVE  (ApplyDecided(request[q]) /\ FlipDecided(request[q]))'
    BY DEF Decided
  <2>1. request'[q] = request[q] /\ request[q] \in RequestType
        /\ ApplyDecided(request[q]) /\ FlipDecided(request[q])
    BY <1>1 DEF CInv, Shape, Decided
  <2>2. ApplyDecided(request[q])'
    <3>1. request[q].pc = "apply" => request[q].download \in Downloads /\ request[q].rows \subseteq Outlets
      BY <2>1 DEF RequestType
    <3> QED
      BY <1>2, <2>1, <3>1 DEF ApplyDecided
  <2>3. FlipDecided(request[q])'
    <3>1. request[q].pc = "flip" => request[q].download \in Downloads /\ DOMAIN request[q].read \subseteq Entries
      BY <2>1, SnapshotIs
    <3>2. \A e \in Entries : OutletOf[e] \in Outlets
      OBVIOUS
    <3> QED
      BY <1>1, <1>2, <2>1, <3>1, <3>2 DEF FlipDecided
  <2> QED
    BY <2>2, <2>3
<1>6. OneLive'
  BY <1>1, <1>2 DEF CInv, OneLive, Refused
<1>7. (Made /\ Opened /\ Moved)'
  BY <1>1 DEF CInv, Made, Opened, Moved
<1> QED
  BY <1>3, <1>4, <1>5, <1>6, <1>7 DEF CInv

-----------------------------------------------------------------------------
LEMMA UploadRead ==
  ASSUME CInv, NEW q \in Requests, NEW d \in Downloads, NEW rows \in SUBSET Outlets,
         uploadRead(q, d, rows)
  PROVE  CInv'
<1>1. PICK ok \in SUBSET rows :
        request' = [request EXCEPT ![q] = [pc |-> "apply", download |-> d, rows |-> ok]]
  BY DEF uploadRead
<1> DEFINE new == [pc |-> "apply", download |-> d, rows |-> ok]
<1>2. new \in RequestType
  BY DEF RequestType
<1>3. ApplyDecided(new) /\ FlipDecided(new)
  BY <1>1 DEF uploadRead, ApplyDecided, FlipDecided
<1>4. UNCHANGED <<awards, entry, files, reversals>>
  BY DEF uploadRead
<1>5. request' = [request EXCEPT ![q] = new]
  BY <1>1
<1> HIDE DEF new
<1> QED
  BY <1>2, <1>3, <1>4, <1>5, RequestStep

(* What the transaction of an upload reads again are entries that its file   *)
(* has, of lines that the bank decided.                                      *)
LEMMA UploadLock ==
  ASSUME CInv, NEW q \in Requests, uploadLock(q)
  PROVE  CInv'
<1> DEFINE d == request[q].download
           rows == request[q].rows
<1>1. d \in Downloads /\ rows \subseteq Outlets /\ \A o \in rows : bank[d][o] # "none"
  <2>1. request[q].pc = "apply" /\ request[q] \in RequestType /\ ApplyDecided(request[q])
    BY DEF CInv, Shape, Decided, uploadLock
  <2> QED
    BY <2>1 DEF RequestType, ApplyDecided
<1>2. PICK last \in OneOfEach(InDownload(d)) :
        request' = [request EXCEPT ![q] =
          [pc |-> "flip", download |-> d,
           read |-> Restrict(entry, {last[o] : o \in rows \cap DOMAIN last}),
           all |-> OutletsOf(InDownload(d)) \subseteq rows]]
  BY DEF uploadLock
<1> DEFINE picked == {last[o] : o \in rows \cap DOMAIN last}
           read == Restrict(entry, picked)
           all == OutletsOf(InDownload(d)) \subseteq rows
           new == [pc |-> "flip", download |-> d, read |-> read, all |-> all]
<1>3. request' = [request EXCEPT ![q] = new] /\ UNCHANGED <<awards, entry, files, reversals>>
  BY <1>2 DEF uploadLock
<1>4. \A e \in picked : /\ e \in Entries /\ entry[e].download = d /\ OutletOf[e] \in rows
  BY DEF OneOfEach, InDownload, OutletsOf
<1>5. \A e \in picked : e \in download[d].entries /\ bank[d][OutletOf[e]] # "none"
  <2> TAKE e \in picked
  <2>1. entry[e].download \in Downloads /\ d # NoDownload /\ entry[e].download = d
    BY <1>1, <1>4
  <2>2. entry[e].status \in InFile
    BY <1>4, <2>1 DEF CInv, Loose
  <2> QED
    BY <1>1, <1>4, <2>2 DEF CInv, Filed
<1>6. read \in [picked -> EntryType] /\ DOMAIN read = picked
  BY <1>4 DEF CInv, Shape, Restrict
<1> HIDE DEF d, rows, picked, read, all
<1>7. read \in Snapshots
  BY <1>4, <1>6 DEF Snapshots
<1>8. all \in BOOLEAN
  BY DEF all
<1>9. new \in RequestType
  BY <1>1, <1>7, <1>8 DEF RequestType
<1>10. ApplyDecided(new) /\ FlipDecided(new)
  BY <1>5, <1>6 DEF ApplyDecided, FlipDecided
<1> HIDE DEF new
<1> QED
  BY <1>3, <1>9, <1>10, RequestStep

(* An upload settles entries that are being paid, each as the bank decided   *)
(* its line in the upload's file: the one the entry is in, or the upload is  *)
(* mistaken.                                                                 *)
UploadMoves(d, read, settled, failed) ==
  /\ entry' \in [Entries -> EntryType]
  /\ ledger' = [p \in Pans |-> [ledger[p] EXCEPT !.withheld =
       @ - SumOver(Reversed(read), failed \cap EntriesOf(p))]]
  /\ settled \subseteq DOMAIN read
  /\ \A e \in settled : /\ e \in Entries /\ entry[e].status = "PROCESSING"
                        /\ bank[d][OutletOf[e]] # "none"
  /\ failed \subseteq settled /\ \A e \in settled : e \in failed <=> Refused(d, e)
  /\ \A e \in settled : /\ entry'[e] \in EntryType
                        /\ entry'[e].download = entry[e].download
                        /\ entry'[e].status = (IF e \in failed THEN "FAILED" ELSE "PAID")
                        /\ entry'[e].withheld = (IF e \in failed THEN 0 ELSE entry[e].withheld)
  /\ \A e \in Entries \ settled : entry'[e] = entry[e]
  /\ mistaken' = mistaken \cup {e \in settled : entry[e].download # d}

LEMMA UploadMovesSo ==
  ASSUME CInv, NEW q \in Requests, uploadUtr(q)
  PROVE  /\ request[q].download \in Downloads /\ DOMAIN request[q].read \subseteq Entries
         /\ \E settled, failed :
              UploadMoves(request[q].download, request[q].read, settled, failed)
<1> DEFINE d == request[q].download
           read == request[q].read
<1>1. /\ d \in Downloads /\ DOMAIN read \subseteq Entries
      /\ \A e \in DOMAIN read : bank[d][OutletOf[e]] # "none"
  <2>1. request[q].pc = "flip" /\ request[q] \in RequestType /\ FlipDecided(request[q])
    BY DEF CInv, Shape, Decided, uploadUtr
  <2> QED
    BY <2>1, SnapshotIs DEF FlipDecided
<1>2. PICK settled \in Settlings(read) :
        LET failed == {e \in settled : bank[d][OutletOf[e]] = "rejected"}
        IN  /\ entry' = [e \in Entries |->
                 IF e \in failed THEN [entry[e] EXCEPT !.status = "FAILED", !.withheld = 0]
                 ELSE IF e \in settled THEN [entry[e] EXCEPT !.status = "PAID"]
                 ELSE entry[e]]
            /\ ledger' = [p \in Pans |-> [ledger[p] EXCEPT !.withheld =
                 @ - SumOver(Reversed(read), failed \cap EntriesOf(p))]]
            /\ mistaken' = mistaken \cup {e \in settled : entry[e].download # d}
  BY DEF uploadUtr
<1> DEFINE failed == {e \in settled : bank[d][OutletOf[e]] = "rejected"}
<1>3. /\ entry' = [e \in Entries |->
           IF e \in failed THEN [entry[e] EXCEPT !.status = "FAILED", !.withheld = 0]
           ELSE IF e \in settled THEN [entry[e] EXCEPT !.status = "PAID"]
           ELSE entry[e]]
      /\ ledger' = [p \in Pans |-> [ledger[p] EXCEPT !.withheld =
           @ - SumOver(Reversed(read), failed \cap EntriesOf(p))]]
      /\ mistaken' = mistaken \cup {e \in settled : entry[e].download # d}
  BY <1>2
<1>4. settled \in SUBSET DOMAIN read /\ \A e \in settled : entry[e].status = "PROCESSING"
  BY DEF Settlings, Settleable
<1>5. failed \subseteq settled /\ \A e \in settled : e \in failed <=> Refused(d, e)
  BY DEF Refused
<1> HIDE DEF d, read, failed
<1>6. ASSUME NEW e \in settled
      PROVE  /\ entry'[e] \in EntryType
             /\ entry'[e].download = entry[e].download
             /\ entry'[e].status = (IF e \in failed THEN "FAILED" ELSE "PAID")
             /\ entry'[e].withheld = (IF e \in failed THEN 0 ELSE entry[e].withheld)
  <2> DEFINE fails == [entry[e] EXCEPT !.status = "FAILED", !.withheld = 0]
             pays == [entry[e] EXCEPT !.status = "PAID"]
  <2>1. e \in Entries /\ entry[e] \in EntryType
    BY <1>1, <1>4 DEF CInv, Shape
  <2>2. fails \in EntryType /\ fails.download = entry[e].download /\ fails.status = "FAILED"
        /\ fails.withheld = 0
    <3> DEFINE marked == [entry[e] EXCEPT !.status = "FAILED"]
    <3>1. marked \in EntryType /\ marked.download = entry[e].download /\ marked.status = "FAILED"
      BY <2>1 DEF EntryType, InFile
    <3>2. fails = [marked EXCEPT !.withheld = 0]
      BY <2>1 DEF EntryType
    <3> HIDE DEF marked, fails
    <3> QED
      BY <3>1, <3>2 DEF EntryType
  <2>3. pays \in EntryType /\ pays.download = entry[e].download /\ pays.status = "PAID"
        /\ pays.withheld = entry[e].withheld
    BY <2>1 DEF EntryType, InFile
  <2>4. entry'[e] = IF e \in failed THEN fails ELSE pays
    BY <1>3, <2>1
  <2> HIDE DEF fails, pays
  <2> QED
    BY <2>2, <2>3, <2>4
<1>7. \A e \in Entries \ settled : entry'[e] = entry[e]
  BY <1>3, <1>5
<1>8. entry' \in [Entries -> EntryType]
  <2>1. \A e \in Entries : entry'[e] \in EntryType
    BY <1>6, <1>7 DEF CInv, Shape
  <2> QED
    BY <1>3, <2>1
<1>9. UploadMoves(d, read, settled, failed)
  BY <1>1, <1>3, <1>4, <1>5, <1>6, <1>7, <1>8 DEF UploadMoves
<1> QED
  BY <1>1, <1>9 DEF d, read

LEMMA Upload ==
  ASSUME CInv, NEW q \in Requests, uploadUtr(q)
  PROVE  CInv'
<1> DEFINE d == request[q].download
<1>1. d \in Downloads
  BY UploadMovesSo
<1>2. PICK settled, failed : UploadMoves(d, request[q].read, settled, failed)
  BY UploadMovesSo
<1>3. /\ download' = [download EXCEPT ![d].status =
             IF request[q].all THEN "PAID" ELSE "PARTIALLY_PAID"]
      /\ request' = [request EXCEPT ![q] = Idle]
      /\ UNCHANGED <<awards, bank, reversals>>
  BY DEF uploadUtr
<1> DEFINE how == IF request[q].all THEN "PAID" ELSE "PARTIALLY_PAID"
<1>4. how \in {"PAID", "PARTIALLY_PAID"} /\ download' = [download EXCEPT ![d].status = how]
  BY <1>3
<1> HIDE DEF d, how
<1>5. /\ \A e \in settled : /\ e \in Entries /\ entry[e].status = "PROCESSING"
                            /\ bank[d][OutletOf[e]] # "none"
      /\ failed \subseteq settled /\ \A e \in settled : e \in failed <=> Refused(d, e)
  BY <1>2 DEF UploadMoves
<1>6. \A e \in Entries \ settled : entry'[e] = entry[e]
  BY <1>2 DEF UploadMoves
<1>7. \A e \in settled :
        /\ entry'[e] \in EntryType
        /\ entry'[e].download = entry[e].download
        /\ entry'[e].status = (IF e \in failed THEN "FAILED" ELSE "PAID")
  BY <1>2 DEF UploadMoves
<1>8. mistaken' = mistaken \cup {e \in settled : entry[e].download # d}
  BY <1>2 DEF UploadMoves
<1>9. /\ download' \in [Downloads -> DownloadType]
      /\ \A f \in Downloads : download'[f].entries = download[f].entries
      /\ \A f \in Downloads : download'[f].status = "NONE" => download[f].status = "NONE"
  <2> DEFINE settles == [download[d] EXCEPT !.status = how]
  <2>1. download[d] \in DownloadType
    BY <1>1 DEF CInv, Shape
  <2>2. /\ settles \in DownloadType /\ settles.status # "NONE"
        /\ settles.entries = download[d].entries
    BY <1>4, <2>1 DEF DownloadType
  <2>3. download' = [download EXCEPT ![d] = settles]
    BY <1>4
  <2> HIDE DEF settles
  <2> QED
    BY <1>1, <2>2, <2>3 DEF CInv, Shape
<1>10. Shape'
  <2>1. (entry \in [Entries -> EntryType])'
    BY <1>2 DEF UploadMoves
  <2>2. (request \in [Requests -> RequestType])'
    BY <1>3 DEF CInv, Shape, RequestType, Idle
  <2>3. mistaken' \subseteq Entries
    BY <1>5, <1>8 DEF CInv, Shape
  <2> QED
    BY <1>3, <1>9, <2>1, <2>2, <2>3 DEF CInv, Shape
<1>11. Made'
  <2>1. \A e \in Entries : entry'[e].status = "NONE" <=> entry[e].status = "NONE"
    BY <1>5, <1>6, <1>7
  <2> QED
    BY <1>3, <2>1 DEF CInv, Made
<1>12. Opened'
  BY <1>5, <1>6, <1>7, <1>9 DEF CInv, Opened
<1>13. Filed'
  BY <1>5, <1>6, <1>7, <1>9 DEF CInv, Filed, InFile
<1>14. Held'
  <2> SUFFICES ASSUME NEW e \in Entries \ mistaken'
               PROVE  HeldWell(e)'
    BY DEF Held
  <2>1. HeldWell(e)
    BY <1>8 DEF CInv, Held
  <2>2. CASE e \in settled
    <3>1. bank[d][OutletOf[e]] \in {"paid", "rejected"}
      BY <1>1, <1>5, <2>2 DEF CInv, Shape
    <3>2. entry[e].download = d /\ entry[e].status = "PROCESSING"
      BY <1>5, <1>8, <2>2
    <3> QED
      BY <2>1, <2>2, <3>1, <3>2, <1>3, <1>5, <1>7, <1>9 DEF HeldWell, Refused, InFile
  <2>3. CASE e \notin settled
    BY <2>1, <2>3, <1>3, <1>6, <1>9 DEF HeldWell, Refused
  <2> QED
    BY <2>2, <2>3
<1>15. Decided'
  <2>1. \A r \in Requests : request'[r].pc \in {"apply", "flip"} => request'[r] = request[r]
    BY <1>3 DEF CInv, Shape, Idle
  <2> QED
    BY <1>3, <1>9, <2>1, DecidedSame
<1>16. OneLive'
  BY <1>3, <1>8, <1>9 DEF CInv, OneLive, Refused
<1>17. Moved'
  BY <1>3 DEF CInv, Moved
<1>18. Loose'
  BY <1>5, <1>6, <1>7 DEF CInv, Loose, InFile
<1> QED
  BY <1>10, <1>11, <1>12, <1>13, <1>14, <1>15, <1>16, <1>17, <1>18 DEF CInv

-----------------------------------------------------------------------------
LEMMA CreateReversal ==
  ASSUME CInv, NEW r \in Reversals, NEW b \in Batches, NEW o \in Outlets,
         NEW a \in {"POINTS", "PAYOUT"}, createReversal(r, b, o, a)
  PROVE  CInv'
<1> DEFINE new == [status |-> "PENDING_GIFSY", batch |-> b, outlet |-> o, award |-> a]
<1>1. new \in ReversalType /\ new.status = "PENDING_GIFSY"
  BY DEF ReversalType
<1>2. /\ reversal[r].status = "NONE"
      /\ reversal' = [reversal EXCEPT ![r] = new]
      /\ UNCHANGED <<awards, entry, files, clawed, receivable, request>>
  BY DEF createReversal
<1> HIDE DEF new
<1>3. (Shape /\ Made /\ Moved)'
  BY <1>1, <1>2 DEF CInv, Shape, Made, Moved
<1>4. (Opened /\ Filed /\ Loose /\ Held /\ Decided /\ OneLive)'
  BY <1>2, FilesSame, DecidedSame
<1> QED
  BY <1>3, <1>4 DEF CInv

LEMMA RejectReversal ==
  ASSUME CInv, NEW r \in Reversals, rejectReversal(r)
  PROVE  CInv'
<1> DEFINE new == [reversal[r] EXCEPT !.status = "REJECTED"]
<1>1. new \in ReversalType /\ new.status = "REJECTED"
  <2>1. reversal[r] \in ReversalType /\ reversal[r].status = "PENDING_GIFSY"
    BY DEF CInv, Shape, rejectReversal
  <2> QED BY <2>1 DEF ReversalType
<1>2. /\ reversal' = [reversal EXCEPT ![r] = new]
      /\ UNCHANGED <<awards, entry, files, clawed, receivable, request>>
  BY DEF rejectReversal
<1> HIDE DEF new
<1>3. (Shape /\ Made /\ Moved)'
  BY <1>1, <1>2 DEF CInv, Shape, Made, Moved
<1>4. (Opened /\ Filed /\ Loose /\ Held /\ Decided /\ OneLive)'
  BY <1>2, FilesSame, DecidedSame
<1> QED
  BY <1>3, <1>4 DEF CInv

LEMMA PatchReversal ==
  ASSUME CInv, NEW r \in Reversals, patchReversal(r)
  PROVE  CInv'
<1>1. reversal[r].status = "PENDING_GIFSY" /\ UNCHANGED <<awards, entry, files, receivable, request>>
  BY DEF patchReversal, Reversible
<1>2. (Opened /\ Filed /\ Loose /\ Held /\ Decided /\ OneLive)'
  BY <1>1, FilesSame, DecidedSame
<1>3. CASE reversal[r].award = "POINTS"
  <2> DEFINE new == [reversal[r] EXCEPT !.status = "APPROVED"]
  <2>1. new \in ReversalType /\ new.status = "APPROVED"
    BY <1>1 DEF CInv, Shape, ReversalType
  <2>2. reversal' = [reversal EXCEPT ![r] = new] /\ clawed' = [clawed EXCEPT ![r] = @ + 1]
    BY <1>3 DEF patchReversal
  <2> HIDE DEF new
  <2>3. (Shape /\ Made)'
    BY <1>1, <2>1, <2>2 DEF CInv, Shape, Made
  <2>4. Moved'
    BY <1>1, <2>1, <2>2 DEF CInv, Shape, Moved
  <2> QED
    BY <1>2, <2>3, <2>4 DEF CInv
<1>4. CASE reversal[r].award # "POINTS"
  <2> DEFINE o == reversal[r].outlet
             new == [status |-> "APPROVING", batch |-> reversal[r].batch, outlet |-> o,
                     award |-> reversal[r].award,
                     unpaid |-> {e \in WithStatus({"PENDING", "PROCESSING", "FAILED"}) : OutletOf[e] = o},
                     paid |-> {e \in WithStatus({"PAID"}) : OutletOf[e] = o}]
  <2>1. /\ new \in ReversalType /\ new.status = "APPROVING"
        /\ \A e \in new.unpaid : entry[e].status # "NONE"
    <3>1. reversal[r].batch \in Batches /\ o \in Outlets /\ reversal[r].award \in {"POINTS", "PAYOUT"}
      BY <1>1 DEF CInv, Shape, ReversalType
    <3> QED
      BY <3>1 DEF ReversalType, WithStatus
  <2>2. reversal' = [reversal EXCEPT ![r] = new] /\ UNCHANGED clawed
    BY <1>4 DEF patchReversal
  <2> HIDE DEF new
  <2>3. (Shape /\ Made /\ Moved)'
    BY <1>1, <2>1, <2>2 DEF CInv, Shape, Made, Moved
  <2> QED
    BY <1>2, <2>3 DEF CInv
<1> QED
  BY <1>3, <1>4

(* An entry that is reversed leaves its file, whatever became of it since.   *)
LEMMA ReverseEntries ==
  ASSUME CInv, NEW r \in Reversals, reverseEntries(r)
  PROVE  CInv'
<1> DEFINE new == [status |-> "APPROVED", batch |-> reversal[r].batch,
                   outlet |-> reversal[r].outlet, award |-> reversal[r].award]
           unpaid == reversal[r].unpaid
<1>1. /\ reversal[r].status = "APPROVING"
      /\ unpaid \subseteq Entries
      /\ \A e \in unpaid : entry[e].status # "NONE"
  BY DEF CInv, Shape, ReversalType, Made, reverseEntries
<1>2. new \in ReversalType /\ new.status = "APPROVED"
  BY <1>1 DEF CInv, Shape, ReversalType
<1>3. /\ reversal' = [reversal EXCEPT ![r] = new]
      /\ entry' = [e \in Entries |-> IF e \in unpaid THEN Withdrawn(entry[e]) ELSE entry[e]]
      /\ UNCHANGED <<awards, files, clawed, request>>
  BY DEF reverseEntries
<1> HIDE DEF new, unpaid
<1>4. \A e \in unpaid : /\ entry'[e] \in EntryType /\ entry'[e].status = "REVERSED"
                        /\ entry'[e].download = NoDownload
  <2> TAKE e \in unpaid
  <2> DEFINE marked == [entry[e] EXCEPT !.status = "REVERSED"]
  <2>1. entry[e] \in EntryType
    BY <1>1 DEF CInv, Shape
  <2>2. marked \in EntryType /\ marked.status = "REVERSED"
    BY <2>1 DEF EntryType
  <2>3. entry'[e] = [marked EXCEPT !.download = NoDownload]
    BY <1>1, <1>3, <2>1 DEF Withdrawn, EntryType
  <2> HIDE DEF marked
  <2> QED
    BY <2>2, <2>3 DEF EntryType
<1>5. \A e \in Entries \ unpaid : entry'[e] = entry[e]
  BY <1>3
<1>6. Shape'
  <2>1. (entry \in [Entries -> EntryType])'
    BY <1>3, <1>4, <1>5 DEF CInv, Shape
  <2> QED
    BY <1>2, <1>3, <2>1 DEF CInv, Shape
<1>7. Made'
  <2>1. \A e \in Entries : entry'[e].status = "NONE" <=> entry[e].status = "NONE"
    BY <1>1, <1>4, <1>5
  <2>2. \A s \in Reversals : reversal'[s].status = "APPROVING" => reversal'[s] = reversal[s]
    BY <1>2, <1>3 DEF CInv, Shape
  <2> QED
    BY <1>3, <2>1, <2>2 DEF CInv, Made
<1>8. Opened'
  BY <1>3, <1>4, <1>5 DEF CInv, Opened
<1>9. (Filed /\ Loose /\ Held)'
  BY <1>3, <1>4, <1>5 DEF CInv, Filed, Loose, Held, HeldWell, Refused, InFile
<1>10. (Decided /\ OneLive)'
  <2>1. Decided'
    BY <1>3, DecidedSame
  <2>2. OneLive'
    BY <1>3 DEF CInv, OneLive, Refused
  <2> QED
    BY <2>1, <2>2
<1>11. Moved'
  BY <1>1, <1>2, <1>3 DEF CInv, Shape, Moved
<1> QED
  BY <1>6, <1>7, <1>8, <1>9, <1>10, <1>11 DEF CInv

-----------------------------------------------------------------------------
LEMMA CInvInvariant == Spec => []CInv
<1>1. Init => CInv
  <2> SUFFICES ASSUME Init PROVE CInv
    OBVIOUS
  <2>1. Shape
    BY DEF Init, Shape, EntryType, NoEntry, DownloadType, ReversalType, NoReversal, RequestType, Idle
  <2>2. Made /\ Opened /\ Filed /\ Loose /\ Held /\ Decided /\ OneLive /\ Moved
    BY DEF Init, Made, Opened, Filed, Loose, Held, HeldWell, Decided, ApplyDecided, FlipDecided,
           OneLive, Moved, NoEntry, NoReversal, Idle, InFile
  <2> QED
    BY <2>1, <2>2 DEF CInv
<1>2. CInv /\ [Next]_vars => CInv'
  <2> SUFFICES ASSUME CInv, [Next]_vars PROVE CInv'
    OBVIOUS
  <2>1. CASE UNCHANGED vars
    <3>1. (Opened /\ Filed /\ Loose /\ Held /\ Decided /\ OneLive)'
      BY <2>1, FilesSame, DecidedSame DEF vars
    <3> QED
      BY <2>1, <3>1 DEF vars, CInv, Shape, Made, Moved
  <2>2. CASE Next
    BY <2>2, CreateBatch, ConfirmRead, ConfirmBatch, PayoutRequests, PayoutDownload, BankStep,
       UploadRead, UploadLock, Upload, CreateReversal, RejectReversal, PatchReversal, ReverseEntries DEF Next
  <2> QED
    BY <2>1, <2>2
<1> QED
  BY <1>1, <1>2, PTL DEF Spec

(* A batch's points are credited once, by the one confirmation that claimed  *)
(* it, and those of a reversal are clawed back once, however many requests   *)
(* confirm or approve at the same time.                                      *)
THEOREM PointsMoveOnce == Spec => []MovedOnce
<1>1. CInv => MovedOnce
  BY DEF CInv, Moved, MovedOnce
<1> QED
  BY <1>1, CInvInvariant, PTL

(* No entry is paid twice: of the files it was ever in, at most one has a    *)
(* line that the bank has not refused; one that may be taken into a new file *)
(* was paid by none, and one noted as paid was paid.  But for the entries    *)
(* that an upload, having read them before, settled in another file.         *)
THEOREM NobodyIsPaidTwice == Spec => []PaidAtMostOnce
<1>1. CInv => PaidAtMostOnce
  <2> SUFFICES ASSUME CInv, NEW e \in Entries \ mistaken
               PROVE  /\ Cardinality(Payments(e)) <= 1
                      /\ entry[e].status \in Bankable => Payments(e) = {}
                      /\ entry[e].status = "PAID" => Payments(e) # {}
    BY DEF PaidAtMostOnce
  <2>1. Payments(e) = {} \/ \E d \in Downloads : Payments(e) = {d}
    BY DEF CInv, OneLive, Payments, Refused
  <2>2. Cardinality(Payments(e)) <= 1
    <3> DEFINE S == Payments(e)
    <3>1. S = {} \/ \E d \in Downloads : S = {d}
      BY <2>1
    <3> HIDE DEF S
    <3>2. Cardinality(S) = 0 \/ Cardinality(S) = 1
      BY <3>1, FS_EmptySet, FS_Singleton
    <3> QED
      BY <3>2 DEF S
  <2>3. entry[e].status \in Bankable => Payments(e) = {}
    BY DEF CInv, Opened, Held, HeldWell, Payments, Refused, Bankable, InFile
  <2>4. entry[e].status = "PAID" => Payments(e) # {}
    BY DEF CInv, Filed, Held, HeldWell, Payments, InFile
  <2> QED
    BY <2>2, <2>3, <2>4
<1> QED
  BY <1>1, CInvInvariant, PTL

-----------------------------------------------------------------------------
(* Sums.  MapThenSumSet takes one element after another from its set, by a   *)
(* recursive function on the subsets: that this function exists, on a finite *)
(* set, and that the order it takes them in does not matter, is proved here. *)
Pick(s) == CHOOSE x \in s : TRUE
Adds(f, sum, s) == IF s = {} THEN 0 ELSE f[Pick(s)] + sum[s \ {Pick(s)}]
IsSum(f, S, sum) == sum = [s \in SUBSET S |-> Adds(f, sum, s)]

(* What holds of a set when it holds of all smaller ones, holds of all.      *)
LEMMA SubsetInduction ==
  ASSUME NEW S, IsFiniteSet(S), NEW Good,
         \A T \in SUBSET S : (\A U \in SUBSET T : U # T => U \in Good) => T \in Good
  PROVE  SUBSET S \subseteq Good
<1> DEFINE Bad == {T \in SUBSET S : T \notin Good}
<1> SUFFICES ASSUME Bad # {} PROVE FALSE
  OBVIOUS
<1>1. IsWellFoundedOn(StrictSubsetOrdering(S), SUBSET S)
  <2>1. FiniteSubsetsOf(S) = SUBSET S
    BY FS_FiniteSubsetsOfFinite
  <2>2. IsWellFoundedOn(StrictSubsetOrdering(S), FiniteSubsetsOf(S))
    BY FS_StrictSubsetOrderingWellFounded
  <2> QED
    BY <2>1, <2>2
<1>2. Bad \subseteq SUBSET S
  OBVIOUS
<1> HIDE DEF Bad
<1>3. PICK T \in Bad : \A U \in Bad : <<U, T>> \notin StrictSubsetOrdering(S)
  BY <1>1, <1>2, WFMin
<1>4. T \in SUBSET S /\ T \notin Good
  BY <1>3 DEF Bad
<1>5. PICK U \in SUBSET T : U # T /\ U \notin Good
  BY <1>4
<1>6. U \in SUBSET S /\ <<U, T>> \in StrictSubsetOrdering(S)
  BY <1>4, <1>5 DEF StrictSubsetOrdering
<1> QED
  BY <1>3, <1>5, <1>6 DEF Bad

(* If such a function exists, the sum is the value of one.                   *)
LEMMA SumIsOne ==
  ASSUME NEW f, NEW S, \E sum : IsSum(f, S, sum)
  PROVE  \E sum : IsSum(f, S, sum) /\ SumOver(f, S) = sum[S]
  BY Zenon DEF SumOver, MapThenSumSet, MapThenFoldSet, IsSum, Adds, Pick

LEMMA PickIn == ASSUME NEW S, S # {} PROVE Pick(S) \in S
  BY DEF Pick

(* Two of them agree, also when one is about a smaller set.                  *)
LEMMA SumsAgree ==
  ASSUME NEW f, NEW S, IsFiniteSet(S), NEW T \in SUBSET S,
         NEW i, IsSum(f, S, i), NEW j, IsSum(f, T, j)
  PROVE  i[T] = j[T]
<1> DEFINE Good == {U \in SUBSET T : i[U] = j[U]}
<1>1. IsFiniteSet(T)
  BY FS_Subset
<1>2. ASSUME NEW U \in SUBSET T, \A V \in SUBSET U : V # U => V \in Good
      PROVE  U \in Good
  <2>1. i[U] = Adds(f, i, U) /\ j[U] = Adds(f, j, U)
    BY DEF IsSum
  <2>2. CASE U = {}
    BY <2>1, <2>2 DEF Adds
  <2>3. CASE U # {}
    <3>1. U \ {Pick(U)} \in Good
      BY <1>2, <2>3, PickIn
    <3> QED
      BY <2>1, <2>3, <3>1 DEF Adds
  <2> QED
    BY <2>2, <2>3
<1> HIDE DEF Good
<1>3. SUBSET T \subseteq Good
  BY <1>1, <1>2, SubsetInduction
<1> QED
  BY <1>3 DEF Good

(* There is one: on each subset, the sum over it.                            *)
LEMMA SumExists ==
  ASSUME NEW f, NEW S, IsFiniteSet(S)
  PROVE  \E sum : IsSum(f, S, sum)
<1> DEFINE Good == {T \in SUBSET S : \E sum : IsSum(f, T, sum)}
<1>1. ASSUME NEW T \in SUBSET S, \A U \in SUBSET T : U # T => U \in Good
      PROVE  T \in Good
  <2> DEFINE next(s) == IF s = {} THEN 0 ELSE f[Pick(s)] + SumOver(f, s \ {Pick(s)})
             sum == [s \in SUBSET T |-> next(s)]
  <2>1. ASSUME NEW U \in SUBSET T, U # T
        PROVE  SumOver(f, U) = next(U)
    <3>1. PICK j : IsSum(f, U, j) /\ SumOver(f, U) = j[U]
      BY <1>1, <2>1, SumIsOne
    <3>2. j[U] = Adds(f, j, U)
      BY <3>1 DEF IsSum
    <3>3. CASE U = {}
      BY <3>1, <3>2, <3>3 DEF Adds
    <3>4. CASE U # {}
      <4> DEFINE V == U \ {Pick(U)}
      <4>1. V \in SUBSET U /\ V # T /\ V \in SUBSET T
        BY <2>1
      <4>2. PICK k : IsSum(f, V, k) /\ SumOver(f, V) = k[V]
        BY <1>1, <4>1, SumIsOne
      <4>3. IsFiniteSet(U)
        BY FS_Subset
      <4>4. j[V] = k[V]
        BY <3>1, <4>1, <4>2, <4>3, SumsAgree
      <4> QED
        BY <3>1, <3>2, <3>4, <4>2, <4>4 DEF Adds
    <3> QED
      BY <3>3, <3>4
  <2>2. \A s \in SUBSET T : next(s) = Adds(f, sum, s)
    <3> TAKE s \in SUBSET T
    <3>1. CASE s = {}
      BY <3>1 DEF Adds
    <3>2. CASE s # {}
      <4> DEFINE U == s \ {Pick(s)}
      <4>1. U \in SUBSET T /\ U # T
        BY <3>2, PickIn
      <4>2. sum[U] = SumOver(f, U)
        BY <2>1, <4>1
      <4> QED
        BY <3>2, <4>2 DEF Adds
    <3> QED
      BY <3>1, <3>2
  <2> HIDE DEF next
  <2>3. IsSum(f, T, sum)
    BY <2>2, Zenon DEF IsSum
  <2> QED
    BY <2>3
<1> HIDE DEF Good
<1>2. SUBSET S \subseteq Good
  BY <1>1, SubsetInduction
<1> QED
  BY <1>2 DEF Good

(* The sum of nothing, and the sum of something by its first element.        *)
LEMMA SumEmpty == ASSUME NEW f PROVE SumOver(f, {}) = 0
<1>1. PICK sum : IsSum(f, {}, sum) /\ SumOver(f, {}) = sum[{}]
  BY FS_EmptySet, SumExists, SumIsOne
<1> QED
  BY <1>1 DEF IsSum, Adds

LEMMA SumPick ==
  ASSUME NEW f, NEW S, IsFiniteSet(S), S # {}
  PROVE  SumOver(f, S) = f[Pick(S)] + SumOver(f, S \ {Pick(S)})
<1> DEFINE T == S \ {Pick(S)}
<1>1. PICK i : IsSum(f, S, i) /\ SumOver(f, S) = i[S]
  BY SumExists, SumIsOne
<1>2. IsFiniteSet(T) /\ T \in SUBSET S
  BY FS_Subset
<1>3. PICK j : IsSum(f, T, j) /\ SumOver(f, T) = j[T]
  BY <1>2, SumExists, SumIsOne
<1>4. i[S] = f[Pick(S)] + i[T]
  BY <1>1 DEF IsSum, Adds
<1>5. i[T] = j[T]
  BY <1>1, <1>2, <1>3, SumsAgree
<1> QED
  BY <1>1, <1>3, <1>4, <1>5

(* A sum of integers is one.                                                 *)
LEMMA SumInt ==
  ASSUME NEW S, IsFiniteSet(S), NEW f, \A x \in S : f[x] \in Int
  PROVE  SumOver(f, S) \in Int
<1> DEFINE Good == {T \in SUBSET S : SumOver(f, T) \in Int}
<1>1. ASSUME NEW T \in SUBSET S, \A U \in SUBSET T : U # T => U \in Good
      PROVE  T \in Good
  <2>1. CASE T = {}
    BY <2>1, SumEmpty
  <2>2. CASE T # {}
    <3>1. Pick(T) \in T /\ IsFiniteSet(T)
      BY <2>2, PickIn, FS_Subset
    <3>2. T \ {Pick(T)} \in Good
      BY <1>1, <3>1
    <3> QED
      BY <2>2, <3>1, <3>2, SumPick
  <2> QED
    BY <2>1, <2>2
<1> HIDE DEF Good
<1>2. SUBSET S \subseteq Good
  BY <1>1, SubsetInduction
<1> QED
  BY <1>2 DEF Good

(* Any element may be taken out of a sum, not only the first.                *)
LEMMA SumTake ==
  ASSUME NEW S, IsFiniteSet(S), NEW f, \A x \in S : f[x] \in Int, NEW x \in S
  PROVE  SumOver(f, S) = f[x] + SumOver(f, S \ {x})
<1> DEFINE Takes(T) == \A y \in T : SumOver(f, T) = f[y] + SumOver(f, T \ {y})
           Good == {T \in SUBSET S : Takes(T)}
<1>1. ASSUME NEW T \in SUBSET S, \A U \in SUBSET T : U # T => U \in Good
      PROVE  T \in Good
  <2> SUFFICES ASSUME NEW y \in T
               PROVE  SumOver(f, T) = f[y] + SumOver(f, T \ {y})
    OBVIOUS
  <2> DEFINE p == Pick(T)
             R == T \ {p, y}
  <2>1. p \in T
    BY PickIn
  <2>2. IsFiniteSet(T) /\ IsFiniteSet(R)
    BY FS_Subset
  <2> HIDE DEF R, p
  <2>3. SumOver(f, T) = f[p] + SumOver(f, T \ {p})
    BY <2>2, SumPick DEF p
  <2>4. CASE y = p
    BY <2>3, <2>4
  <2>5. CASE y # p
    <3>1. T \ {p} \in Good /\ T \ {y} \in Good
      BY <1>1, <2>1
    <3>2. y \in T \ {p} /\ p \in T \ {y} /\ (T \ {p}) \ {y} = R /\ (T \ {y}) \ {p} = R
      BY <2>1, <2>5 DEF R
    <3>3. SumOver(f, T \ {p}) = f[y] + SumOver(f, R)
      BY <3>1, <3>2
    <3>4. SumOver(f, T \ {y}) = f[p] + SumOver(f, R)
      BY <3>1, <3>2
    <3>5. f[p] \in Int /\ f[y] \in Int /\ SumOver(f, R) \in Int
      BY <2>1, <2>2, SumInt DEF R
    <3> QED
      BY <2>3, <3>3, <3>4, <3>5
  <2> QED
    BY <2>4, <2>5
<1> HIDE DEF Good
<1>2. SUBSET S \subseteq Good
  BY <1>1, SubsetInduction
<1> QED
  BY <1>2 DEF Good

(* What is no larger everywhere sums up to no more.                          *)
LEMMA SumAtMost ==
  ASSUME NEW S, IsFiniteSet(S), NEW f, NEW g,
         \A x \in S : f[x] \in Int /\ g[x] \in Int /\ f[x] <= g[x]
  PROVE  SumOver(f, S) <= SumOver(g, S)
<1> DEFINE Good == {T \in SUBSET S : SumOver(f, T) <= SumOver(g, T)}
<1>1. ASSUME NEW T \in SUBSET S, \A U \in SUBSET T : U # T => U \in Good
      PROVE  T \in Good
  <2>1. CASE T = {}
    BY <2>1, SumEmpty
  <2>2. CASE T # {}
    <3>1. PICK x \in T : TRUE
      BY <2>2
    <3> DEFINE U == T \ {x}
    <3>2. IsFiniteSet(T) /\ IsFiniteSet(U)
      BY FS_Subset
    <3>3. SumOver(f, U) <= SumOver(g, U)
      BY <1>1, <3>1
    <3>4. SumOver(f, T) = f[x] + SumOver(f, U) /\ SumOver(g, T) = g[x] + SumOver(g, U)
      BY <3>1, <3>2, SumTake
    <3>5. SumOver(f, U) \in Int /\ SumOver(g, U) \in Int
      BY <3>2, SumInt
    <3> HIDE DEF U
    <3> QED
      BY <3>1, <3>3, <3>4, <3>5
  <2> QED
    BY <2>1, <2>2
<1> HIDE DEF Good
<1>2. SUBSET S \subseteq Good
  BY <1>1, SubsetInduction
<1> QED
  BY <1>2 DEF Good

(* A sum depends on the function on its set only.                            *)
LEMMA SumSame ==
  ASSUME NEW S, IsFiniteSet(S), NEW f, NEW g,
         \A x \in S : f[x] \in Int /\ f[x] = g[x]
  PROVE  SumOver(f, S) = SumOver(g, S)
<1>1. SumOver(f, S) <= SumOver(g, S) /\ SumOver(g, S) <= SumOver(f, S)
  BY SumAtMost
<1>2. SumOver(f, S) \in Int /\ SumOver(g, S) \in Int
  BY SumInt
<1> QED
  BY <1>1, <1>2

(* Zeros sum up to zero, and numbers to a number.                            *)
LEMMA SumZero ==
  ASSUME NEW S, IsFiniteSet(S), NEW f, \A x \in S : f[x] = 0
  PROVE  SumOver(f, S) = 0
<1> DEFINE Good == {T \in SUBSET S : SumOver(f, T) = 0}
<1>1. ASSUME NEW T \in SUBSET S, \A U \in SUBSET T : U # T => U \in Good
      PROVE  T \in Good
  <2>1. CASE T = {}
    BY <2>1, SumEmpty
  <2>2. CASE T # {}
    <3>1. PICK x \in T : TRUE
      BY <2>2
    <3>2. IsFiniteSet(T)
      BY FS_Subset
    <3>3. SumOver(f, T) = f[x] + SumOver(f, T \ {x})
      BY <3>1, <3>2, SumTake
    <3>4. SumOver(f, T \ {x}) = 0
      BY <1>1, <3>1
    <3> QED
      BY <3>1, <3>3, <3>4
  <2> QED
    BY <2>1, <2>2
<1> HIDE DEF Good
<1>2. SUBSET S \subseteq Good
  BY <1>1, SubsetInduction
<1> QED
  BY <1>2 DEF Good

LEMMA SumNat ==
  ASSUME NEW S, IsFiniteSet(S), NEW f, \A x \in S : f[x] \in Nat
  PROVE  SumOver(f, S) \in Nat
<1> DEFINE zero == [x \in S |-> 0]
<1>1. SumOver(zero, S) = 0
  BY SumZero
<1>2. \A x \in S : zero[x] \in Int /\ f[x] \in Int /\ zero[x] <= f[x]
  OBVIOUS
<1> HIDE DEF zero
<1>3. SumOver(zero, S) <= SumOver(f, S)
  BY <1>2, SumAtMost
<1>4. SumOver(f, S) \in Int
  BY <1>2, SumInt
<1> QED
  BY <1>1, <1>3, <1>4

(* A sum is that over a part and that over the rest.                         *)
LEMMA SumSplit ==
  ASSUME NEW S, IsFiniteSet(S), NEW f, \A x \in S : f[x] \in Int, NEW T \in SUBSET S
  PROVE  SumOver(f, S) = SumOver(f, T) + SumOver(f, S \ T)
<1> DEFINE Good == {U \in SUBSET S : SumOver(f, S) = SumOver(f, U) + SumOver(f, S \ U)}
<1>1. ASSUME NEW U \in SUBSET S, \A V \in SUBSET U : V # U => V \in Good
      PROVE  U \in Good
  <2>1. CASE U = {}
    <3>1. S \ U = S /\ SumOver(f, S) \in Int
      BY <2>1, SumInt
    <3> QED
      BY <2>1, <3>1, SumEmpty
  <2>2. CASE U # {}
    <3>1. PICK x \in U : TRUE
      BY <2>2
    <3> DEFINE V == U \ {x}
               R == S \ V
    <3>2. IsFiniteSet(U) /\ IsFiniteSet(V) /\ IsFiniteSet(R) /\ IsFiniteSet(S \ U)
      BY FS_Subset
    <3>3. /\ V \in SUBSET U /\ V \in SUBSET S /\ V # U
          /\ x \in R /\ R \in SUBSET S /\ R \ {x} = S \ U
      BY <3>1
    <3>4. SumOver(f, S) = SumOver(f, V) + SumOver(f, R)
      BY <1>1, <3>3
    <3>5. SumOver(f, U) = f[x] + SumOver(f, V)
      BY <3>1, <3>2, SumTake
    <3> HIDE DEF R, V
    <3>6. SumOver(f, R) = f[x] + SumOver(f, R \ {x})
      BY <3>2, <3>3, SumTake
    <3>7. f[x] \in Int /\ SumOver(f, V) \in Int /\ SumOver(f, S \ U) \in Int
      <4>1. \A y \in V : f[y] \in Int
        BY <3>3
      <4>2. \A y \in S \ U : f[y] \in Int
        OBVIOUS
      <4> QED
        BY <3>1, <3>2, <4>1, <4>2, SumInt
    <3>8. SumOver(f, R) = f[x] + SumOver(f, S \ U)
      BY <3>3, <3>6
    <3>9. SumOver(f, S) = SumOver(f, U) + SumOver(f, S \ U)
      BY <3>4, <3>5, <3>7, <3>8
    <3> QED
      BY <3>9
  <2> QED
    BY <2>1, <2>2
<1> HIDE DEF Good
<1>2. SUBSET S \subseteq Good
  BY <1>1, SubsetInduction
<1> QED
  BY <1>2 DEF Good

-----------------------------------------------------------------------------
(* What is due.                                                              *)
LEMMA EntriesFinite == ASSUME NEW S \in SUBSET Entries PROVE IsFiniteSet(S)
  BY FS_Subset

LEMMA TotalNat == ASSUME NEW S \in SUBSET Entries PROVE Total(S) \in Nat
  BY EntriesFinite, SumNat DEF Total

LEMMA TotalGrows ==
  ASSUME NEW T \in SUBSET Entries, NEW S \in SUBSET T
  PROVE  Total(S) <= Total(T)
<1>1. IsFiniteSet(T) /\ \A e \in T : Amount[e] \in Int
  BY EntriesFinite
<1>2. Total(T) = Total(S) + Total(T \ S)
  BY <1>1, SumSplit DEF Total
<1>3. Total(S) \in Nat /\ Total(T \ S) \in Nat
  BY TotalNat
<1> QED
  BY <1>2, <1>3

LEMMA ProductGrows ==
  ASSUME NEW a \in Nat, NEW b \in Nat, NEW r \in Nat, a <= b
  PROVE  a * r <= b * r /\ a * r \in Nat /\ b * r \in Nat
  OBVIOUS

LEMMA DueGrows ==
  ASSUME NEW a \in Nat, NEW b \in Nat, a <= b
  PROVE  Due(a) \in Nat /\ Due(b) \in Nat /\ Due(a) <= Due(b)
<1> DEFINE x == a * Rate
           y == b * Rate
<1>1. x \in Nat /\ y \in Nat /\ x <= y
  BY ProductGrows
<1>2. Due(a) = (IF a > Threshold THEN (x + 50) \div 100 ELSE 0)
      /\ Due(b) = (IF b > Threshold THEN (y + 50) \div 100 ELSE 0)
  BY DEF Due
<1> HIDE DEF x, y
<1> QED
  BY <1>1, <1>2

LEMMA CatchUpIs ==
  ASSUME NEW base \in Nat, NEW withheld \in Int
  PROVE  CatchUp(base, withheld) = IF Due(base) > withheld THEN Due(base) - withheld ELSE 0
<1>1. Due(base) \in Nat
  BY DueGrows
<1> DEFINE gap == Due(base) - withheld
<1>2. gap \in Int
  BY <1>1
<1> HIDE DEF gap
<1>3. Max({0, gap}) = IF gap > 0 THEN gap ELSE 0
  BY <1>2 DEF Max
<1> QED
  BY <1>1, <1>3 DEF CatchUp, gap

LEMMA WithholdIs ==
  ASSUME NEW base \in Nat, NEW withheld \in Int, NEW payout \in Nat
  PROVE  /\ CatchUp(base, withheld) \in Nat
         /\ withholdNow(base, withheld, payout) \in Nat
         /\ withholdNow(base, withheld, payout) <= payout
         /\ withholdNow(base, withheld, payout) <= CatchUp(base, withheld)
<1>1. CatchUp(base, withheld) \in Nat
  <2>1. Due(base) \in Nat
    BY DueGrows
  <2>2. CatchUp(base, withheld) = IF Due(base) > withheld THEN Due(base) - withheld ELSE 0
    BY CatchUpIs
  <2> QED
    BY <2>1, <2>2
<1> DEFINE gap == CatchUp(base, withheld)
<1> HIDE DEF gap
<1>2. gap \in Nat => Min({gap, payout}) = IF gap < payout THEN gap ELSE payout
  BY DEF Min
<1> QED
  BY <1>1, <1>2 DEF withholdNow, gap

LEMMA FloorBelow ==
  ASSUME NEW t \in Nat, NEW a \in Nat \ {0}, NEW all \in Nat \ {0}, t <= all
  PROVE  /\ (t * a) \div all \in Nat
         /\ t < all => (t * a) \div all < a
         /\ t = all => (t * a) \div all = a
<1> DEFINE d == (t * a) \div all
<1>1. t * a \in Nat /\ t * a <= all * a
  BY ProductGrows
<1>2. d \in Int /\ all * d <= t * a /\ t * a < all * (d + 1)
  OBVIOUS
<1> HIDE DEF d
<1>3. d >= 0
  BY <1>1, <1>2
<1>4. ASSUME t < all PROVE d < a
  BY <1>1, <1>2, <1>3, <1>4
<1>5. ASSUME t = all PROVE d = a
  BY <1>1, <1>2, <1>3, <1>5
<1> QED
  BY <1>3, <1>4, <1>5 DEF d

(* No entry's share of the tax on a payout is more than the entry.           *)
LEMMA SharesFit ==
  ASSUME NEW S \in SUBSET Entries, NEW tax \in Nat, tax <= Total(S), NEW f \in Shares(S, tax)
  PROVE  \A e \in S : f[e] \in 0..Amount[e]
<1> TAKE e \in S
<1> DEFINE floor(x) == (tax * Amount[x]) \div Total(S)
<1>1. IsFiniteSet(S) /\ Total(S) \in Nat
  BY EntriesFinite, TotalNat
<1>2. \A x \in S : f[x] \in {floor(x), floor(x) + 1}
  BY DEF Shares
<1>3. SumOver(f, S) = tax
  BY DEF Shares
<1>4. Total(S) > 0
  <2>1. Total(S) = Amount[e] + SumOver(Amount, S \ {e})
    BY <1>1, SumTake DEF Total
  <2>2. SumOver(Amount, S \ {e}) \in Nat
    BY TotalNat DEF Total
  <2> QED
    BY <2>1, <2>2
<1>5. \A x \in S : /\ floor(x) \in Nat
                   /\ tax < Total(S) => floor(x) < Amount[x]
                   /\ tax = Total(S) => floor(x) = Amount[x]
  BY <1>1, <1>4, FloorBelow
<1> HIDE DEF floor
<1>6. CASE tax < Total(S)
  BY <1>2, <1>5, <1>6
<1>7. CASE tax = Total(S)
  <2>1. \A x \in S : f[x] \in Int /\ Amount[x] \in Int /\ Amount[x] <= f[x]
    BY <1>2, <1>5, <1>7
  <2>2. SumOver(Amount, S \ {e}) <= SumOver(f, S \ {e})
    BY <2>1, EntriesFinite, SumAtMost
  <2>3. SumOver(f, S) = f[e] + SumOver(f, S \ {e})
    BY <1>1, <2>1, SumTake
  <2>4. Total(S) = Amount[e] + SumOver(Amount, S \ {e})
    BY <1>1, <2>1, SumTake DEF Total
  <2>5. SumOver(f, S \ {e}) \in Int /\ SumOver(Amount, S \ {e}) \in Int
    BY <2>1, EntriesFinite, SumInt
  <2> QED
    BY <1>3, <1>7, <2>1, <2>2, <2>3, <2>4, <2>5
<1> QED
  BY <1>1, <1>6, <1>7

-----------------------------------------------------------------------------
(* The tax.  What the ledger says a PAN was withheld is what its entries     *)
(* say, those that wait for a file nothing, unless an upload was mistaken    *)
(* about one of them.                                                        *)
Account == [withheld : Int, carried : Nat]

Ledgered ==
  /\ ledger \in [Pans -> Account]
  /\ receivable \subseteq Entries /\ doubled \subseteq Entries
  /\ \A e \in Entries :
       /\ entry[e].withheld \in 0..Amount[e]
       /\ entry[e].status \in {"NONE", "PENDING", "FAILED"} => entry[e].withheld = 0
  /\ \A p \in Pans : Sound(p) => ledger[p].withheld = SumOver(Withheld, EntriesOf(p))

(* One download plans its tax at a time, and knows every entry that is paid  *)
(* or being paid.                                                            *)
Planning(q) == request[q].pc = "plan"

Planned ==
  /\ \A q, r \in Requests : Planning(q) /\ Planning(r) => q = r
  /\ \A q \in Requests : Planning(q) => \A e \in Entries :
       /\ e \in request[q].prior => entry[e].status # "NONE"
       /\ entry[e].status \in {"PROCESSING", "PAID"} => e \in request[q].prior

(* What an upload has read of an entry that is still being paid in its file  *)
(* is what the entry says.                                                   *)
FreshRead(x) ==
  x.pc = "flip" => \A e \in DOMAIN x.read :
    entry[e].status = "PROCESSING" /\ entry[e].download = x.download =>
      entry[e].withheld = x.read[e].withheld

Fresh == \A q \in Requests : FreshRead(request[q])

(* No more was ever withheld from a PAN than is due on all of its entries,   *)
(* and when all of them are paid or being paid, all that is due was withheld *)
(* or is carried forward: no base but the last counts then.                  *)
MadeOf(p) == EntriesOf(p) \ WithStatus({"NONE"})
Clean(p) == Sound(p) /\ MadeOf(p) \cap doubled = {}
AllPaying(p) == \A e \in MadeOf(p) : entry[e].status \in {"PROCESSING", "PAID"}

Levied ==
  \A p \in Pans : Clean(p) =>
    /\ ledger[p].withheld <= Due(Total(MadeOf(p)))
    /\ AllPaying(p) => ledger[p].withheld + ledger[p].carried = Due(Total(MadeOf(p)))

TaxInv == Ledgered /\ Planned /\ Fresh /\ Levied

-----------------------------------------------------------------------------
LEMMA PanSets ==
  ASSUME NEW p \in Pans
  PROVE  /\ EntriesOf(p) \in SUBSET Entries /\ MadeOf(p) \in SUBSET EntriesOf(p)
         /\ IsFiniteSet(EntriesOf(p)) /\ IsFiniteSet(MadeOf(p))
  BY EntriesFinite DEF EntriesOf, MadeOf

(* Where the sums of two functions differ, they do on the part they differ   *)
(* on.                                                                       *)
LEMMA SumChanges ==
  ASSUME NEW S, IsFiniteSet(S), NEW F \in SUBSET S, NEW f, NEW g,
         \A x \in S : f[x] \in Int /\ g[x] \in Int,
         \A x \in S \ F : f[x] = g[x]
  PROVE  SumOver(g, S) = (SumOver(f, S) - SumOver(f, F)) + SumOver(g, F)
<1>1. IsFiniteSet(F) /\ IsFiniteSet(S \ F)
  BY FS_Subset
<1>2. SumOver(f, S) = SumOver(f, F) + SumOver(f, S \ F)
  BY SumSplit
<1>3. SumOver(g, S) = SumOver(g, F) + SumOver(g, S \ F)
  BY SumSplit
<1>4. SumOver(f, S \ F) = SumOver(g, S \ F)
  BY <1>1, SumSame
<1>5. SumOver(f, F) \in Int /\ SumOver(g, F) \in Int
  <2>1. \A x \in F : f[x] \in Int /\ g[x] \in Int
    OBVIOUS
  <2> QED
    BY <1>1, <2>1, SumInt
<1>6. SumOver(g, S \ F) \in Int
  BY <1>1, SumInt
<1> QED
  BY <1>2, <1>3, <1>4, <1>5, <1>6

(* What was withheld stays within what is due when a step makes entries but  *)
(* withholds nothing.                                                        *)
LEMMA LevyKept ==
  ASSUME Levied, NEW p \in Pans,
         ledger[p].withheld \in Int, ledger'[p].withheld \in Int,
         doubled \subseteq doubled', mistaken \subseteq mistaken',
         \A e \in EntriesOf(p) : entry'[e].status = "NONE" => entry[e].status = "NONE",
         ledger'[p].withheld <= ledger[p].withheld,
         AllPaying(p)' => /\ AllPaying(p) /\ ledger'[p] = ledger[p]
                          /\ \A e \in EntriesOf(p) :
                               entry[e].status = "NONE" => entry'[e].status = "NONE",
         Clean(p)'
  PROVE  (/\ ledger[p].withheld <= Due(Total(MadeOf(p)))
          /\ AllPaying(p) => ledger[p].withheld + ledger[p].carried = Due(Total(MadeOf(p))))'
<1> DEFINE made == MadeOf(p)
           next == {e \in EntriesOf(p) : entry'[e].status # "NONE"}
<1>1. /\ made = {e \in EntriesOf(p) : entry[e].status # "NONE"}
      /\ made \in SUBSET next /\ next \in SUBSET Entries
  BY DEF MadeOf, WithStatus, EntriesOf
<1>2. MadeOf(p)' = next
  BY DEF MadeOf, WithStatus, EntriesOf
<1>3. Clean(p)
  <2>1. EntriesOf(p)' = EntriesOf(p)
    BY DEF EntriesOf
  <2> QED
    BY <1>1, <1>2, <2>1 DEF Clean, Sound
<1>4. /\ ledger[p].withheld <= Due(Total(made))
      /\ AllPaying(p) => ledger[p].withheld + ledger[p].carried = Due(Total(made))
  BY <1>3 DEF Levied
<1>5. /\ Due(Total(made)) \in Nat /\ Due(Total(next)) \in Nat
      /\ Due(Total(made)) <= Due(Total(next))
  BY <1>1, TotalGrows, TotalNat, DueGrows
<1>6. AllPaying(p)' => made = next
  BY <1>1
<1> HIDE DEF made, next
<1>7. ledger'[p].withheld <= Due(Total(next))
  BY <1>4, <1>5
<1>8. AllPaying(p)' => ledger'[p].withheld + ledger'[p].carried = Due(Total(next))
  BY <1>4, <1>6
<1> QED
  BY <1>2, <1>7, <1>8

(* Steps that touch neither the entries nor the tax.                         *)
LEMMA TaxQuiet ==
  ASSUME TaxInv, UNCHANGED <<entry, taxes, mistaken>>, receivable' \subseteq Entries,
         \A q \in Requests : Planning(q)' => request'[q] = request[q],
         \A q \in Requests : request'[q].pc = "flip" =>
           request'[q] = request[q] \/ FreshRead(request'[q])
  PROVE  TaxInv'
<1>1. \A p : EntriesOf(p)' = EntriesOf(p) /\ (Sound(p)' <=> Sound(p))
  BY DEF EntriesOf, Sound
<1>2. Ledgered'
  BY <1>1 DEF TaxInv, Ledgered, Withheld
<1>3. Planned'
  BY DEF TaxInv, Planned, Planning
<1>4. Levied'
  BY <1>1 DEF TaxInv, Levied, Clean, AllPaying, MadeOf, WithStatus
<1>5. Fresh'
  BY DEF TaxInv, Fresh, FreshRead
<1> QED
  BY <1>2, <1>3, <1>4, <1>5 DEF TaxInv

(* What uploads have read stays so when no entry changes that is being paid  *)
(* in their files, but to another file.                                      *)
LEMMA FreshKept ==
  ASSUME CInv, TaxInv,
         \A q \in Requests : request'[q].pc = "flip" => request'[q] = request[q],
         \A e \in Entries : entry'[e].status = "PROCESSING" =>
           \/ entry'[e] = entry[e]
           \/ \A f \in Downloads : e \in download[f].entries => entry'[e].download # f
  PROVE  Fresh'
<1> SUFFICES ASSUME NEW q \in Requests, request'[q].pc = "flip",
                    NEW e \in DOMAIN request'[q].read,
                    entry'[e].status = "PROCESSING", entry'[e].download = request'[q].download
             PROVE  entry'[e].withheld = request'[q].read[e].withheld
  BY DEF Fresh, FreshRead
<1>1. /\ request'[q] = request[q] /\ FreshRead(request[q])
      /\ request[q] \in RequestType /\ FlipDecided(request[q])
  BY DEF TaxInv, Fresh, CInv, Shape, Decided
<1>2. /\ e \in Entries /\ request[q].download \in Downloads
      /\ e \in download[request[q].download].entries
  BY <1>1, SnapshotIs DEF FlipDecided
<1>3. entry'[e] = entry[e]
  BY <1>1, <1>2
<1> QED
  BY <1>1, <1>3 DEF FreshRead

-----------------------------------------------------------------------------
(* Waiting for the locks: one download has them at a time.                   *)
LEMMA TaxLock ==
  ASSUME CInv, TaxInv, NEW q \in Requests, payoutLock(q)
  PROVE  TaxInv'
<1> DEFINE new == [pc |-> "plan", taking |-> request[q].taking,
                   prior |-> WithStatus({"PAID", "PROCESSING"})]
<1>1. /\ request' = [request EXCEPT ![q] = new]
      /\ \A r \in Requests : ~Planning(r)
      /\ UNCHANGED <<entry, taxes, mistaken, receivable>>
  BY DEF payoutLock, LockFree, Planning
<1>2. \A e \in Entries : e \in new.prior <=> entry[e].status \in {"PAID", "PROCESSING"}
  BY DEF WithStatus
<1> HIDE DEF new
<1>3. \A p : EntriesOf(p)' = EntriesOf(p) /\ (Sound(p)' <=> Sound(p))
  BY <1>1 DEF EntriesOf, Sound
<1>4. Ledgered'
  BY <1>1, <1>3 DEF TaxInv, Ledgered, Withheld
<1>5. \A r \in Requests : Planning(r)' => r = q /\ request'[r] = new
  BY <1>1 DEF CInv, Shape, Planning
<1>6. Planned'
  BY <1>1, <1>2, <1>5 DEF Planned
<1>7. Levied'
  BY <1>1, <1>3 DEF TaxInv, Levied, Clean, AllPaying, MadeOf, WithStatus
<1>8. Fresh'
  <2>1. new.pc = "plan" /\ request'[q] = new
    BY <1>1 DEF CInv, Shape, new
  <2>2. \A r \in Requests \ {q} : request'[r] = request[r]
    BY <1>1 DEF CInv, Shape
  <2> QED
    BY <1>1, <2>1, <2>2 DEF TaxInv, Fresh, FreshRead
<1> QED
  BY <1>4, <1>6, <1>7, <1>8 DEF TaxInv

(* What is withheld from each entry is an integer, and is all the ledger is. *)
LEMMA LedgerSame ==
  ASSUME TaxInv, Withheld' = Withheld, UNCHANGED ledger, receivable' \subseteq Entries,
         UNCHANGED <<doubled, mistaken>>,
         \A e \in Entries : entry'[e].status \in {"NONE", "PENDING", "FAILED"} =>
                              entry'[e].withheld = 0
  PROVE  Ledgered'
<1>1. \A e \in Entries : entry'[e].withheld = entry[e].withheld
  <2>1. \A e \in Entries : Withheld[e] = entry[e].withheld /\ Withheld'[e] = entry'[e].withheld
    BY DEF Withheld
  <2> QED
    BY <2>1
<1>2. \A p : EntriesOf(p)' = EntriesOf(p) /\ (Sound(p)' <=> Sound(p))
  BY DEF EntriesOf, Sound
<1> QED
  BY <1>1, <1>2 DEF TaxInv, Ledgered

(* A confirmation makes entries that nothing was withheld from yet.          *)
LEMMA TaxConfirm ==
  ASSUME CInv, TaxInv, NEW q \in Requests, confirmBatch(q)
  PROVE  TaxInv'
<1> DEFINE b == request[q].batch
<1>1. /\ request' = [request EXCEPT ![q] = Idle]
      /\ UNCHANGED <<taxes, mistaken, receivable>>
  BY DEF confirmBatch
<1>2. \A r \in Requests : Planning(r)' \/ request'[r].pc = "flip" => request'[r] = request[r]
  BY <1>1 DEF CInv, Shape, Planning, Idle
<1>3. CASE ~Confirmable(b)
  <2>1. UNCHANGED entry
    BY <1>3 DEF confirmBatch
  <2> QED
    BY <1>1, <1>2, <2>1, TaxQuiet DEF TaxInv, Ledgered
<1>4. CASE Confirmable(b)
  <2> DEFINE made == [NoEntry EXCEPT !.status = "PENDING"]
  <2>1. entry' = [e \in Entries |-> IF BatchOf[e] = b THEN made ELSE entry[e]]
    BY <1>4 DEF confirmBatch
  <2>2. made.status = "PENDING" /\ made.withheld = 0 /\ made.download = NoDownload
    BY DEF NoEntry
  <2>3. batch[b] = "PENDING_CONFIRM"
    BY <1>4 DEF Confirmable
  <2> HIDE DEF made, b
  <2>4. \A e \in Entries :
          /\ BatchOf[e] = b => entry[e].status = "NONE" /\ entry'[e] = made
          /\ BatchOf[e] # b => entry'[e] = entry[e]
    BY <2>1, <2>3 DEF CInv, Made
  <2>5. Fresh'
    BY <1>2, <2>2, <2>4, FreshKept
  <2>6. \A e \in Entries : /\ entry'[e].withheld = entry[e].withheld
                           /\ entry'[e].status = "NONE" => entry[e].status = "NONE"
                           /\ entry'[e].status \in {"NONE", "PENDING", "FAILED"} =>
                                entry'[e].withheld = 0
    BY <2>2, <2>4 DEF TaxInv, Ledgered
  <2>7. Ledgered'
    <3>1. Withheld' = Withheld
      BY <2>6 DEF Withheld
    <3> QED
      BY <1>1, <2>6, <3>1, LedgerSame DEF TaxInv, Ledgered
  <2>8. Planned'
    BY <1>2, <2>2, <2>4 DEF TaxInv, Planned, Planning
  <2>9. Levied'
    <3> SUFFICES ASSUME NEW p \in Pans, Clean(p)'
                 PROVE  (/\ ledger[p].withheld <= Due(Total(MadeOf(p)))
                         /\ AllPaying(p) =>
                              ledger[p].withheld + ledger[p].carried = Due(Total(MadeOf(p))))'
      BY DEF Levied
    <3>1. ledger'[p] = ledger[p] /\ ledger[p].withheld \in Int
          /\ doubled' = doubled /\ mistaken' = mistaken
      BY <1>1 DEF TaxInv, Ledgered, Account
    <3>2. \A e \in EntriesOf(p) : e \in Entries
      BY DEF EntriesOf
    <3>3. ASSUME AllPaying(p)'
          PROVE  \A e \in EntriesOf(p) : entry'[e] = entry[e]
      <4>1. \A e \in EntriesOf(p) :
              entry'[e].status # "NONE" => entry'[e].status \in {"PROCESSING", "PAID"}
        BY <3>3 DEF AllPaying, MadeOf, WithStatus, EntriesOf
      <4> QED
        BY <2>2, <2>4, <3>2, <4>1
    <3>4. AllPaying(p)' => AllPaying(p)
      BY <3>3 DEF AllPaying, MadeOf, WithStatus, EntriesOf
    <3>5. /\ ledger'[p].withheld \in Int /\ ledger'[p].withheld <= ledger[p].withheld
          /\ doubled \subseteq doubled' /\ mistaken \subseteq mistaken'
          /\ \A e \in EntriesOf(p) : entry'[e].status = "NONE" => entry[e].status = "NONE"
      BY <2>6, <3>1, <3>2
    <3>6. AllPaying(p)' => \A e \in EntriesOf(p) : entry[e].status = "NONE" => entry'[e].status = "NONE"
      BY <3>3
    <3> QED
      BY <3>1, <3>4, <3>5, <3>6, LevyKept DEF TaxInv
  <2> QED
    BY <2>5, <2>7, <2>8, <2>9 DEF TaxInv
<1> QED
  BY <1>3, <1>4

-----------------------------------------------------------------------------
(* A reversal leaves what was withheld withheld.                             *)
LEMMA TaxReverse ==
  ASSUME CInv, TaxInv, NEW r \in Reversals, reverseEntries(r)
  PROVE  TaxInv'
<1> DEFINE unpaid == reversal[r].unpaid
<1>1. /\ unpaid \subseteq Entries
      /\ \A e \in unpaid : entry[e].status # "NONE"
      /\ reversal[r].paid \subseteq Entries
  BY DEF CInv, Shape, ReversalType, Made, reverseEntries
<1>2. /\ entry' = [e \in Entries |-> IF e \in unpaid THEN Withdrawn(entry[e]) ELSE entry[e]]
      /\ receivable' = receivable \cup reversal[r].paid
      /\ UNCHANGED <<taxes, mistaken, request>>
  BY DEF reverseEntries
<1> HIDE DEF unpaid
<1>3. \A e \in unpaid : /\ entry'[e].status = "REVERSED" /\ entry'[e].download = NoDownload
                        /\ entry'[e].withheld = entry[e].withheld
  <2> TAKE e \in unpaid
  <2> DEFINE marked == [entry[e] EXCEPT !.status = "REVERSED"]
  <2>1. entry[e] \in EntryType
    BY <1>1 DEF CInv, Shape
  <2>2. /\ marked \in EntryType /\ marked.status = "REVERSED"
        /\ marked.withheld = entry[e].withheld
    BY <2>1 DEF EntryType
  <2>3. entry'[e] = [marked EXCEPT !.download = NoDownload]
    BY <1>1, <1>2, <2>1 DEF Withdrawn, EntryType
  <2> HIDE DEF marked
  <2> QED
    BY <2>2, <2>3 DEF EntryType
<1>4. \A e \in Entries \ unpaid : entry'[e] = entry[e]
  BY <1>2
<1>5. Fresh'
  BY <1>2, <1>3, <1>4, FreshKept
<1>6. \A e \in Entries : /\ entry'[e].withheld = entry[e].withheld
                         /\ entry'[e].status = "NONE" <=> entry[e].status = "NONE"
                         /\ entry'[e].status \in {"NONE", "PENDING", "FAILED"} =>
                              entry'[e].withheld = 0
  BY <1>1, <1>3, <1>4 DEF TaxInv, Ledgered
<1>7. Ledgered'
  <2>1. Withheld' = Withheld
    BY <1>6 DEF Withheld
  <2> QED
    BY <1>1, <1>2, <1>6, <2>1, LedgerSame DEF TaxInv, Ledgered
<1>8. Planned'
  BY <1>2, <1>3, <1>4, <1>6 DEF TaxInv, Planned, Planning
<1>9. Levied'
  <2> SUFFICES ASSUME NEW p \in Pans, Clean(p)'
               PROVE  (/\ ledger[p].withheld <= Due(Total(MadeOf(p)))
                       /\ AllPaying(p) =>
                            ledger[p].withheld + ledger[p].carried = Due(Total(MadeOf(p))))'
    BY DEF Levied
  <2>1. ledger'[p] = ledger[p] /\ ledger[p].withheld \in Int
        /\ doubled' = doubled /\ mistaken' = mistaken
    BY <1>2 DEF TaxInv, Ledgered, Account
  <2>2. \A e \in EntriesOf(p) : e \in Entries
    BY DEF EntriesOf
  <2>3. ASSUME AllPaying(p)'
        PROVE  \A e \in EntriesOf(p) : entry'[e] = entry[e]
    <3>1. \A e \in EntriesOf(p) :
            entry'[e].status # "NONE" => entry'[e].status \in {"PROCESSING", "PAID"}
      BY <2>3 DEF AllPaying, MadeOf, WithStatus, EntriesOf
    <3> QED
      BY <1>3, <1>4, <2>2, <3>1
  <2>4. AllPaying(p)' => AllPaying(p)
    BY <2>3 DEF AllPaying, MadeOf, WithStatus, EntriesOf
  <2>5. /\ ledger'[p].withheld \in Int /\ ledger'[p].withheld <= ledger[p].withheld
        /\ doubled \subseteq doubled' /\ mistaken \subseteq mistaken'
        /\ \A e \in EntriesOf(p) : entry'[e].status = "NONE" <=> entry[e].status = "NONE"
    BY <1>6, <2>1, <2>2
  <2> QED
    BY <2>1, <2>4, <2>5, LevyKept DEF TaxInv
<1> QED
  BY <1>5, <1>7, <1>8, <1>9 DEF TaxInv

(* What an upload reads again is fresh.                                      *)
LEMMA TaxReread ==
  ASSUME CInv, TaxInv, NEW q \in Requests, uploadLock(q)
  PROVE  TaxInv'
<1> DEFINE d == request[q].download
           rows == request[q].rows
<1>1. PICK last \in OneOfEach(InDownload(d)) :
        request' = [request EXCEPT ![q] =
          [pc |-> "flip", download |-> d,
           read |-> Restrict(entry, {last[o] : o \in rows \cap DOMAIN last}),
           all |-> OutletsOf(InDownload(d)) \subseteq rows]]
  BY DEF uploadLock
<1> DEFINE read == Restrict(entry, {last[o] : o \in rows \cap DOMAIN last})
           all == OutletsOf(InDownload(d)) \subseteq rows
           new == [pc |-> "flip", download |-> d, read |-> read, all |-> all]
<1>2. request' = [request EXCEPT ![q] = new]
      /\ UNCHANGED <<entry, taxes, mistaken, receivable>>
  BY <1>1 DEF uploadLock
<1>3. \A e \in DOMAIN read : read[e] = entry[e]
  BY DEF Restrict
<1> HIDE DEF read, all, d, rows
<1>4. new.pc = "flip" /\ FreshRead(new)
  BY <1>3 DEF FreshRead
<1> HIDE DEF new
<1>5. \A r \in Requests : request'[r] = request[r] \/ request'[r] = new
  BY <1>2 DEF CInv, Shape
<1>6. receivable' \subseteq Entries
  BY <1>2 DEF TaxInv, Ledgered
<1> QED
  BY <1>2, <1>4, <1>5, <1>6, TaxQuiet DEF Planning

(* An upload takes out of the ledger what was withheld from the entries that *)
(* fail, as they give it up.                                                 *)
LEMMA TaxUpload ==
  ASSUME CInv, TaxInv, NEW q \in Requests, uploadUtr(q)
  PROVE  TaxInv'
<1> DEFINE d == request[q].download
           read == request[q].read
<1>1. d \in Downloads /\ DOMAIN read \subseteq Entries
  BY UploadMovesSo
<1>2. PICK settled, failed : UploadMoves(d, read, settled, failed)
  BY UploadMovesSo
<1>3. /\ request' = [request EXCEPT ![q] = Idle]
      /\ request[q].pc = "flip"
      /\ UNCHANGED <<doubled, receivable>>
  BY DEF uploadUtr
<1> HIDE DEF d, read
<1>4. /\ \A e \in settled : e \in Entries /\ e \in DOMAIN read /\ entry[e].status = "PROCESSING"
      /\ failed \subseteq settled
      /\ mistaken' = mistaken \cup {e \in settled : entry[e].download # d}
  BY <1>2 DEF UploadMoves
<1>5. ledger' = [p \in Pans |-> [ledger[p] EXCEPT !.withheld =
                  @ - SumOver(Reversed(read), failed \cap EntriesOf(p))]]
  BY <1>2 DEF UploadMoves
<1>6. \A e \in failed : entry'[e].status = "FAILED" /\ entry'[e].withheld = 0
  BY <1>2 DEF UploadMoves
<1>7. \A e \in settled \ failed : /\ entry'[e].status = "PAID"
                                  /\ entry'[e].withheld = entry[e].withheld
  BY <1>2 DEF UploadMoves
<1>8. \A e \in Entries \ settled : entry'[e] = entry[e]
  BY <1>2 DEF UploadMoves
<1>9. Fresh'
  <2>1. \A r \in Requests : request'[r].pc = "flip" => request'[r] = request[r]
    BY <1>3 DEF CInv, Shape, Idle
  <2>2. \A e \in Entries : entry'[e].status = "PROCESSING" => entry'[e] = entry[e]
    BY <1>4, <1>6, <1>7, <1>8
  <2> QED
    BY <2>1, <2>2, FreshKept
<1>10. \A e \in Entries :
         /\ entry'[e].status = "NONE" <=> entry[e].status = "NONE"
         /\ entry'[e].status \in {"PROCESSING", "PAID"} =>
              entry[e].status \in {"PROCESSING", "PAID"} /\ e \notin failed
         /\ e \notin failed => entry'[e].withheld = entry[e].withheld
  BY <1>4, <1>6, <1>7, <1>8
<1>11. ASSUME NEW p \in Pans
       PROVE  /\ ledger'[p] \in Account /\ ledger[p] \in Account
              /\ Sound(p)' =>
                   /\ Sound(p)
                   /\ ledger'[p].withheld = SumOver(Withheld', EntriesOf(p))
                   /\ ledger'[p].withheld <= ledger[p].withheld
                   /\ failed \cap EntriesOf(p) = {} => ledger'[p] = ledger[p]
  <2> DEFINE F == failed \cap EntriesOf(p)
             taken == SumOver(Reversed(read), F)
  <2>1. F \in SUBSET EntriesOf(p) /\ EntriesOf(p) \in SUBSET Entries /\ F \in SUBSET Entries
    BY DEF EntriesOf
  <2>2. IsFiniteSet(F) /\ IsFiniteSet(EntriesOf(p))
    BY <2>1, EntriesFinite
  <2>3. ledger[p] \in Account
    BY DEF TaxInv, Ledgered
  <2>4. \A e \in F : Reversed(read)[e] = read[e].withheld /\ Reversed(read)[e] \in Int
    <3>1. request[q] \in RequestType
      BY DEF CInv, Shape
    <3>2. \A e \in DOMAIN read : read[e] \in EntryType
      BY <1>3, <3>1, SnapshotIs DEF read
    <3> QED
      BY <1>4, <3>2 DEF Reversed, EntryType
  <2>5. taken \in Int
    BY <2>2, <2>4, SumInt
  <2>6. ledger'[p] = [ledger[p] EXCEPT !.withheld = @ - taken]
    BY <1>5
  <2>7. F = {} => taken = 0
    BY SumEmpty
  <2> HIDE DEF taken, F
  <2>8. /\ ledger'[p].withheld = ledger[p].withheld - taken
        /\ ledger'[p].carried = ledger[p].carried
        /\ ledger'[p] \in Account
    BY <2>3, <2>5, <2>6 DEF Account
  <2>9. F = {} => ledger'[p] = ledger[p]
    BY <2>3, <2>7, <2>8 DEF Account
  <2>10. ASSUME Sound(p)'
         PROVE  /\ Sound(p)
                /\ ledger'[p].withheld = SumOver(Withheld', EntriesOf(p))
                /\ ledger'[p].withheld <= ledger[p].withheld
    <3>1. Sound(p) /\ \A e \in F : entry[e].download = d /\ e \in DOMAIN read
      <4>1. EntriesOf(p) \cap mistaken' = {}
        BY <2>10 DEF Sound, EntriesOf
      <4>2. F \subseteq settled /\ F \subseteq EntriesOf(p)
        BY <1>4 DEF F
      <4> QED
        BY <1>4, <4>1, <4>2 DEF Sound
    <3>2. \A e \in Entries : /\ Withheld[e] = entry[e].withheld /\ Withheld[e] \in Nat
                             /\ Withheld'[e] = entry'[e].withheld
      BY DEF TaxInv, Ledgered, Withheld
    <3>3. FreshRead(request[q])
      BY DEF TaxInv, Fresh
    <3>4. \A e \in F : Withheld[e] = Reversed(read)[e]
      BY <1>3, <1>4, <2>1, <2>4, <3>1, <3>2, <3>3 DEF FreshRead, read, d, F
    <3>5. taken = SumOver(Withheld, F)
      BY <2>2, <2>4, <3>4, SumSame DEF taken
    <3>6. /\ \A e \in F : Withheld'[e] = 0
          /\ \A e \in Entries \ F : e \in EntriesOf(p) => Withheld'[e] = Withheld[e]
          /\ \A e \in EntriesOf(p) : Withheld'[e] \in Nat /\ Withheld[e] \in Nat
      BY <1>6, <1>10, <2>1, <3>2 DEF F
    <3>7. SumOver(Withheld', EntriesOf(p)) =
            (SumOver(Withheld, EntriesOf(p)) - SumOver(Withheld, F)) + SumOver(Withheld', F)
      <4> DEFINE f == Withheld
                 g == Withheld'
      <4>1. /\ \A e \in EntriesOf(p) : f[e] \in Int /\ g[e] \in Int
            /\ \A e \in EntriesOf(p) \ F : f[e] = g[e]
        BY <2>1, <3>6
      <4> HIDE DEF f, g
      <4>2. SumOver(g, EntriesOf(p)) = (SumOver(f, EntriesOf(p)) - SumOver(f, F)) + SumOver(g, F)
        BY <2>1, <2>2, <4>1, SumChanges
      <4> QED
        BY <4>2 DEF f, g
    <3>8. SumOver(Withheld', F) = 0
      BY <2>2, <3>6, SumZero
    <3>9. taken \in Nat
      BY <2>1, <2>2, <3>2, <3>5, SumNat
    <3>10. ledger[p].withheld = SumOver(Withheld, EntriesOf(p)) /\ ledger[p].withheld \in Int
      BY <2>3, <3>1 DEF TaxInv, Ledgered, Account
    <3> QED
      BY <2>8, <3>1, <3>5, <3>7, <3>8, <3>9, <3>10
  <2> QED
    BY <2>3, <2>8, <2>9, <2>10 DEF F
<1>12. Ledgered'
  <2>1. ledger' \in [Pans -> Account]
    BY <1>5, <1>11
  <2>2. receivable' \subseteq Entries /\ doubled' \subseteq Entries
    BY <1>3 DEF TaxInv, Ledgered
  <2>3. \A e \in Entries : /\ entry'[e].withheld \in 0..Amount[e]
                           /\ entry'[e].status \in {"NONE", "PENDING", "FAILED"} =>
                                entry'[e].withheld = 0
    <3> TAKE e \in Entries
    <3>1. entry[e].withheld \in 0..Amount[e]
      BY DEF TaxInv, Ledgered
    <3>2. e \notin settled /\ entry'[e].status \in {"NONE", "PENDING", "FAILED"} =>
            entry'[e].withheld = 0
      BY <1>8 DEF TaxInv, Ledgered
    <3>3. e \in failed => entry'[e].withheld \in 0..Amount[e]
      BY <1>6
    <3> QED
      BY <1>6, <1>7, <1>10, <3>1, <3>2, <3>3
  <2>4. \A p \in Pans : (Sound(p) => ledger[p].withheld = SumOver(Withheld, EntriesOf(p)))'
    <3>1. \A p : EntriesOf(p)' = EntriesOf(p)
      BY DEF EntriesOf
    <3> QED
      BY <1>11, <3>1
  <2> QED
    BY <2>1, <2>2, <2>3, <2>4 DEF Ledgered
<1>13. Planned'
  <2>1. \A r \in Requests : Planning(r)' => Planning(r) /\ request'[r] = request[r]
    BY <1>3 DEF CInv, Shape, Planning, Idle
  <2> QED
    BY <1>10, <2>1 DEF TaxInv, Planned
<1>14. Levied'
  <2> SUFFICES ASSUME NEW p \in Pans, Clean(p)'
               PROVE  (/\ ledger[p].withheld <= Due(Total(MadeOf(p)))
                       /\ AllPaying(p) =>
                            ledger[p].withheld + ledger[p].carried = Due(Total(MadeOf(p))))'
    BY DEF Levied
  <2>1. \A e \in EntriesOf(p) : e \in Entries
    BY DEF EntriesOf
  <2>2. ASSUME AllPaying(p)'
        PROVE  AllPaying(p) /\ failed \cap EntriesOf(p) = {}
    <3>1. \A e \in EntriesOf(p) :
            entry'[e].status # "NONE" => entry'[e].status \in {"PROCESSING", "PAID"}
      BY <2>2 DEF AllPaying, MadeOf, WithStatus, EntriesOf
    <3>2. \A e \in EntriesOf(p) : entry[e].status # "NONE" =>
            entry[e].status \in {"PROCESSING", "PAID"} /\ e \notin failed
      BY <1>10, <2>1, <3>1
    <3>3. AllPaying(p)
      BY <3>2 DEF AllPaying, MadeOf, WithStatus, EntriesOf
    <3>4. failed \cap EntriesOf(p) = {}
      BY <1>4, <3>2
    <3> QED
      BY <3>3, <3>4
  <2>3. Sound(p)'
    BY DEF Clean
  <2>4. AllPaying(p)' => AllPaying(p) /\ ledger'[p] = ledger[p]
    BY <1>11, <2>2, <2>3
  <2>5. /\ ledger[p].withheld \in Int /\ ledger'[p].withheld \in Int
        /\ ledger'[p].withheld <= ledger[p].withheld
    BY <1>11, <2>3 DEF Account
  <2>6. /\ doubled \subseteq doubled' /\ mistaken \subseteq mistaken'
        /\ \A e \in EntriesOf(p) : entry'[e].status = "NONE" <=> entry[e].status = "NONE"
    BY <1>3, <1>4, <1>10, <2>1
  <2> QED
    BY <2>4, <2>5, <2>6, LevyKept DEF TaxInv
<1> QED
  BY <1>9, <1>12, <1>13, <1>14 DEF TaxInv

-----------------------------------------------------------------------------
(* What a download plans for a PAN is what is due on the base it has read,   *)
(* that was not withheld: as far as the payout goes now, the rest carried.   *)
LEMMA PlanIs ==
  ASSUME TaxInv, NEW q \in Requests, NEW p \in Pans,
         request[q].taking \subseteq Entries, request[q].prior \subseteq Entries
  PROVE  LET pay == request[q].taking \cap EntriesOf(p)
             prior == request[q].prior \cap EntriesOf(p)
             base == Total(prior) + Total(pay)
             was == ledger[p].withheld
             plan == Plan(q, p)
         IN  /\ plan.entries = pay
             /\ base \in Nat
             /\ plan.tax \in Nat /\ plan.tax <= Total(pay)
             /\ plan.carried \in Nat
             /\ plan.tax <= (IF Due(base) > was THEN Due(base) - was ELSE 0)
             /\ pay # {} => plan.tax + plan.carried = (IF Due(base) > was THEN Due(base) - was ELSE 0)
             /\ pay = {} => plan.tax = 0 /\ plan.carried = ledger[p].carried
<1> DEFINE pay == request[q].taking \cap EntriesOf(p)
           prior == request[q].prior \cap EntriesOf(p)
           base == Total(prior) + Total(pay)
           was == ledger[p].withheld
           tax == withholdNow(base, was, Total(pay))
<1>1. Total(prior) \in Nat /\ Total(pay) \in Nat
  <2>1. prior \in SUBSET Entries /\ pay \in SUBSET Entries
    OBVIOUS
  <2> QED
    BY <2>1, TotalNat
<1>2. base \in Nat
  BY <1>1
<1>3. was \in Int /\ ledger[p].carried \in Nat
  BY DEF TaxInv, Ledgered, Account
<1>4. Plan(q, p) = [entries |-> pay, tax |-> tax,
                    carried |-> IF pay = {} THEN ledger[p].carried ELSE CatchUp(base, was) - tax]
  BY DEF Plan
<1>5. pay = {} => Total(pay) = 0
  BY SumEmpty DEF Total
<1> HIDE DEF base, was
<1>6. CatchUp(base, was) = IF Due(base) > was THEN Due(base) - was ELSE 0
  BY <1>2, <1>3, CatchUpIs
<1>7. CatchUp(base, was) \in Nat /\ tax \in Nat /\ tax <= Total(pay) /\ tax <= CatchUp(base, was)
  BY <1>1, <1>2, <1>3, WithholdIs
<1>8. /\ Plan(q, p).entries = pay /\ Plan(q, p).tax = tax
      /\ pay = {} => Plan(q, p).carried = ledger[p].carried
      /\ pay # {} => Plan(q, p).carried = CatchUp(base, was) - tax
  BY <1>4
<1> HIDE DEF tax, pay
<1>9. Plan(q, p).carried \in Nat
  BY <1>3, <1>7, <1>8
<1>10. pay # {} => Plan(q, p).tax + Plan(q, p).carried = CatchUp(base, was)
  BY <1>7, <1>8
<1>11. pay = {} => Plan(q, p).tax = 0
  BY <1>5, <1>7, <1>8
<1> QED
  BY <1>2, <1>6, <1>7, <1>8, <1>9, <1>10, <1>11 DEF pay, base, was, prior

(* A download withholds from the entries it takes, that gave up whatever was *)
(* withheld before, what it adds to the ledger.                              *)
LEMMA TaxDownload ==
  ASSUME CInv, TaxInv, NEW q \in Requests, NEW d \in Downloads, createPayoutDownload(q, d)
  PROVE  TaxInv'
<1> DEFINE taking == request[q].taking
           prior == request[q].prior
           Pay(p) == taking \cap EntriesOf(p)
<1>1. /\ taking \subseteq Entries /\ prior \subseteq Entries
      /\ \A e \in taking : entry[e].status \in {"PENDING", "FAILED"}
  BY DEF CInv, Shape, RequestType, createPayoutDownload, Claimed, WithStatus, Bankable
<1>2. /\ Planning(q)
      /\ request' = [request EXCEPT ![q] = Idle]
      /\ ledger' = [p \in Pans |-> [withheld |-> ledger[p].withheld + Plan(q, p).tax,
                                    carried |-> Plan(q, p).carried]]
      /\ doubled' = doubled \cup (prior \cap taking)
      /\ receivable' = receivable /\ mistaken' = mistaken
      /\ download[d].status = "NONE"
  BY DEF createPayoutDownload, Planning
<1>3. PICK share \in [taking -> 0..Total(taking)] :
        /\ \A p \in Pans : LET plan == Plan(q, p)
                           IN  Restrict(share, plan.entries) \in Shares(plan.entries, plan.tax)
        /\ entry' = [e \in Entries |->
             IF e \in taking
             THEN [status |-> "PROCESSING", download |-> d,
                   withheld |-> IF share[e] > 0 THEN share[e] ELSE entry[e].withheld]
             ELSE entry[e]]
  BY DEF createPayoutDownload
<1>4. \A p \in Pans :
        /\ Plan(q, p).entries = Pay(p)
        /\ Plan(q, p).tax \in Nat /\ Plan(q, p).tax <= Total(Pay(p))
        /\ Plan(q, p).carried \in Nat
        /\ Pay(p) = {} => Plan(q, p).tax = 0 /\ Plan(q, p).carried = ledger[p].carried
  BY <1>1, PlanIs
<1> HIDE DEF taking, prior
<1>5. ASSUME NEW p \in Pans
      PROVE  /\ SumOver(Restrict(share, Pay(p)), Pay(p)) = Plan(q, p).tax
             /\ \A e \in Pay(p) : share[e] \in 0..Amount[e] /\ Restrict(share, Pay(p))[e] = share[e]
  <2> DEFINE f == Restrict(share, Pay(p))
  <2>1. Pay(p) \in SUBSET Entries
    BY <1>1
  <2>2. f \in Shares(Pay(p), Plan(q, p).tax)
    BY <1>3, <1>4
  <2>3. \A e \in Pay(p) : f[e] = share[e]
    BY DEF Restrict
  <2>4. SumOver(f, Pay(p)) = Plan(q, p).tax
    BY <2>2 DEF Shares
  <2> HIDE DEF f, Pay
  <2>5. \A e \in Pay(p) : f[e] \in 0..Amount[e]
    BY <1>4, <2>1, <2>2, SharesFit
  <2> QED
    BY <2>3, <2>4, <2>5 DEF f
<1>6. \A e \in taking : share[e] \in 0..Amount[e]
  <2> TAKE e \in taking
  <2>1. PICK p \in Pans : p = PanOf[OutletOf[e]]
    BY <1>1
  <2>2. e \in Pay(p)
    BY <1>1, <2>1 DEF EntriesOf
  <2> QED
    BY <1>5, <2>2
<1>7. \A e \in taking : entry[e].withheld = 0 /\ entry[e].status # "NONE"
  BY <1>1 DEF TaxInv, Ledgered
<1>8. \A e \in taking : /\ entry'[e].status = "PROCESSING" /\ entry'[e].download = d
                        /\ entry'[e].withheld = share[e]
  <2> TAKE e \in taking
  <2>1. entry'[e] = [status |-> "PROCESSING", download |-> d,
                     withheld |-> IF share[e] > 0 THEN share[e] ELSE entry[e].withheld]
    BY <1>1, <1>3
  <2>2. share[e] \in Int /\ share[e] >= 0
    BY <1>1, <1>6
  <2> QED
    BY <1>7, <2>1, <2>2
<1>9. \A e \in Entries \ taking : entry'[e] = entry[e]
  BY <1>3
<1>10. Fresh'
  <2>1. \A r \in Requests : request'[r].pc = "flip" => request'[r] = request[r]
    BY <1>2 DEF CInv, Shape, Idle
  <2>2. download[d].entries = {}
    BY <1>2 DEF CInv, Opened
  <2>3. \A e \in Entries : entry'[e].status = "PROCESSING" =>
          \/ entry'[e] = entry[e]
          \/ \A f \in Downloads : e \in download[f].entries => entry'[e].download # f
    BY <1>8, <1>9, <2>2
  <2> QED
    BY <2>1, <2>3, FreshKept
<1>11. \A p \in Pans : /\ ledger'[p].withheld = ledger[p].withheld + Plan(q, p).tax
                       /\ ledger'[p].carried = Plan(q, p).carried
                       /\ ledger'[p] \in Account
  <2> TAKE p \in Pans
  <2> DEFINE plan == Plan(q, p)
  <2>1. ledger[p].withheld \in Int /\ plan.tax \in Nat /\ plan.carried \in Nat
    BY <1>4 DEF TaxInv, Ledgered, Account
  <2>2. ledger'[p] = [withheld |-> ledger[p].withheld + plan.tax, carried |-> plan.carried]
    BY <1>2
  <2> HIDE DEF plan
  <2> QED
    BY <2>1, <2>2 DEF plan, Account
<1>12. ASSUME NEW p \in Pans, Sound(p)
       PROVE  ledger'[p].withheld = SumOver(Withheld', EntriesOf(p))
  <2> DEFINE f == Withheld
             g == Withheld'
             E == EntriesOf(p)
             F == Pay(p)
  <2>1. F \in SUBSET E /\ E \in SUBSET Entries /\ F \in SUBSET Entries /\ F \subseteq taking
    BY <1>1 DEF EntriesOf
  <2>2. IsFiniteSet(F) /\ IsFiniteSet(E)
    BY <2>1, EntriesFinite
  <2>3. \A e \in Entries : /\ f[e] = entry[e].withheld /\ f[e] \in Nat
                           /\ g[e] = entry'[e].withheld
    BY DEF TaxInv, Ledgered, Withheld
  <2>4. /\ \A e \in F : f[e] = 0 /\ g[e] = share[e]
        /\ \A e \in E \ F : f[e] = g[e]
    BY <1>7, <1>8, <1>9, <2>1, <2>3
  <2>5. \A e \in F : share[e] \in Int /\ Restrict(share, F)[e] = share[e]
    BY <1>5, <1>1, <2>1
  <2>6. \A e \in E : f[e] \in Int /\ g[e] \in Int
    BY <2>1, <2>3, <2>4, <2>5
  <2>7. ledger[p].withheld = SumOver(f, E)
    BY <1>12 DEF TaxInv, Ledgered
  <2>8. SumOver(Restrict(share, F), F) = Plan(q, p).tax
    BY <1>5
  <2> HIDE DEF f, g, E, F
  <2>9. SumOver(g, E) = (SumOver(f, E) - SumOver(f, F)) + SumOver(g, F)
    BY <2>1, <2>2, <2>4, <2>6, SumChanges
  <2>10. SumOver(f, F) = 0
    BY <2>2, <2>4, SumZero
  <2>11. SumOver(g, F) = SumOver(Restrict(share, F), F)
    BY <2>2, <2>4, <2>5, SumSame
  <2>12. SumOver(f, E) \in Int
    BY <2>2, <2>6, SumInt
  <2>13. SumOver(g, E) = SumOver(f, E) + Plan(q, p).tax
    BY <1>4, <2>8, <2>9, <2>10, <2>11, <2>12
  <2> QED
    BY <1>11, <2>7, <2>13 DEF g, E
<1>13. Ledgered'
  <2>1. ledger' \in [Pans -> Account]
    BY <1>2, <1>11
  <2>2. receivable' \subseteq Entries /\ doubled' \subseteq Entries
    BY <1>1, <1>2 DEF TaxInv, Ledgered
  <2>3. \A e \in Entries : /\ entry'[e].withheld \in 0..Amount[e]
                           /\ entry'[e].status \in {"NONE", "PENDING", "FAILED"} =>
                                entry'[e].withheld = 0
    BY <1>6, <1>8, <1>9 DEF TaxInv, Ledgered
  <2>4. \A p \in Pans : (Sound(p) => ledger[p].withheld = SumOver(Withheld, EntriesOf(p)))'
    <3>1. \A p : EntriesOf(p)' = EntriesOf(p) /\ (Sound(p)' <=> Sound(p))
      BY <1>2 DEF EntriesOf, Sound
    <3> QED
      BY <1>12, <3>1
  <2> QED
    BY <2>1, <2>2, <2>3, <2>4 DEF Ledgered
<1>14. Planned'
  <2>1. \A r \in Requests : ~(Planning(r)')
    BY <1>2 DEF CInv, Shape, TaxInv, Planned, Planning, Idle
  <2> QED
    BY <2>1 DEF Planned
<1>15. \A e \in Entries : entry'[e].status = "NONE" <=> entry[e].status = "NONE"
  BY <1>7, <1>8, <1>9
<1>16. Levied'
  <2> SUFFICES ASSUME NEW p \in Pans, Clean(p)'
               PROVE  (/\ ledger[p].withheld <= Due(Total(MadeOf(p)))
                       /\ AllPaying(p) =>
                            ledger[p].withheld + ledger[p].carried = Due(Total(MadeOf(p))))'
    BY DEF Levied
  <2> DEFINE made == MadeOf(p)
             read == prior \cap EntriesOf(p)
  <2>1. \A e \in EntriesOf(p) : e \in Entries
    BY DEF EntriesOf
  <2>2. MadeOf(p)' = made
    BY <1>15, <2>1 DEF MadeOf, WithStatus
  <2>3. Clean(p) /\ made \cap prior \cap taking = {}
    BY <1>2, <2>2 DEF Clean, Sound, EntriesOf
  <2>4. ledger[p].withheld \in Int /\ ledger[p].carried \in Nat /\ ledger[p] \in Account
    BY DEF TaxInv, Ledgered, Account
  <2>5. CASE Pay(p) = {}
    <3>1. ledger'[p] = ledger[p]
      <4>1. /\ ledger'[p].withheld = ledger[p].withheld + Plan(q, p).tax
            /\ ledger'[p].carried = Plan(q, p).carried
            /\ ledger'[p] \in Account
        BY <1>11
      <4>2. Plan(q, p).tax = 0 /\ Plan(q, p).carried = ledger[p].carried
        BY <1>4, <2>5
      <4>3. ledger'[p].withheld = ledger[p].withheld /\ ledger'[p].carried = ledger[p].carried
        BY <2>4, <4>1, <4>2
      <4> QED
        BY <2>4, <4>1, <4>3 DEF Account
    <3>2. \A e \in EntriesOf(p) : entry'[e] = entry[e]
      BY <1>9, <2>1, <2>5
    <3>3. AllPaying(p)' => AllPaying(p)
      BY <2>2, <3>2 DEF AllPaying, MadeOf
    <3>4. doubled \subseteq doubled' /\ mistaken \subseteq mistaken'
      BY <1>2
    <3> QED
      BY <1>15, <2>1, <2>4, <3>1, <3>3, <3>4, LevyKept DEF TaxInv
  <2>6. CASE Pay(p) # {}
    <3> DEFINE pay == Pay(p)
               base == Total(read) + Total(pay)
               was == ledger[p].withheld
    <3>1. /\ base \in Nat /\ was \in Int
          /\ Plan(q, p).tax \in Nat /\ Plan(q, p).carried \in Nat
          /\ Plan(q, p).tax <= (IF Due(base) > was THEN Due(base) - was ELSE 0)
          /\ Plan(q, p).tax + Plan(q, p).carried = (IF Due(base) > was THEN Due(base) - was ELSE 0)
      BY <1>1, <1>4, <2>4, <2>6, PlanIs DEF taking, prior
    <3>2. was <= Due(Total(made))
      BY <2>3 DEF TaxInv, Levied
    <3>3. /\ read \in SUBSET made /\ pay \in SUBSET made /\ made \in SUBSET Entries
          /\ read \cap pay = {}
      <4>1. \A e \in prior : entry[e].status # "NONE"
        BY <1>1, <1>2 DEF TaxInv, Planned, prior
      <4> QED
        BY <1>1, <1>7, <2>3, <4>1 DEF MadeOf, WithStatus, EntriesOf
    <3> DEFINE all == read \cup pay
    <3>4. base = Total(all)
      <4>1. IsFiniteSet(all) /\ \A e \in all : Amount[e] \in Int
        BY <3>3, EntriesFinite
      <4>2. read \in SUBSET all /\ all \ read = pay
        BY <3>3
      <4> QED
        BY <4>1, <4>2, SumSplit DEF Total
    <3>5. AllPaying(p)' => made = all
      <4> SUFFICES ASSUME AllPaying(p)', NEW e \in made
                   PROVE  e \in read \/ e \in pay
        BY <3>3
      <4>1. e \in EntriesOf(p) /\ e \in Entries /\ entry'[e].status \in {"PROCESSING", "PAID"}
        BY <2>1, <2>2 DEF AllPaying, MadeOf
      <4>2. e \notin taking => e \in prior
        BY <1>2, <1>9, <4>1 DEF TaxInv, Planned, prior
      <4> QED
        BY <4>1, <4>2
    <3>6. all \in SUBSET made
      BY <3>3
    <3>7. Due(base) \in Nat /\ Due(Total(made)) \in Nat /\ Due(base) <= Due(Total(made))
      BY <3>1, <3>3, <3>4, <3>6, TotalNat, TotalGrows, DueGrows
    <3>8. /\ ledger'[p].withheld = was + Plan(q, p).tax
          /\ ledger'[p].carried = Plan(q, p).carried
      BY <1>11
    <3>9. AllPaying(p)' => base = Total(made)
      BY <3>4, <3>5
    <3> HIDE DEF base, was, all, made, read, Pay
    <3>10. ledger'[p].withheld <= Due(Total(made))
      BY <3>1, <3>2, <3>7, <3>8
    <3>11. base = Total(made) => ledger'[p].withheld + ledger'[p].carried = Due(Total(made))
      BY <3>1, <3>2, <3>7, <3>8
    <3> QED
      BY <2>2, <3>9, <3>10, <3>11
  <2> QED
    BY <2>5, <2>6
<1> QED
  BY <1>10, <1>13, <1>14, <1>16 DEF TaxInv

-----------------------------------------------------------------------------
LEMMA TaxInvInit == Init => TaxInv
<1> SUFFICES ASSUME Init PROVE TaxInv
  OBVIOUS
<1>1. \A e \in Entries : entry[e] = NoEntry /\ Amount[e] \in Nat
  BY DEF Init
<1>2. NoEntry.status = "NONE" /\ NoEntry.download = NoDownload /\ NoEntry.withheld = 0
  BY DEF NoEntry
<1>3. \A p \in Pans : ledger[p] = [withheld |-> 0, carried |-> 0]
  BY DEF Init
<1>4. Fresh
  BY DEF Init, Fresh, FreshRead, Idle
<1>5. \A p \in Pans : MadeOf(p) = {}
  BY <1>1, <1>2 DEF MadeOf, EntriesOf, WithStatus
<1>6. Ledgered
  <2>1. \A e \in Entries : Withheld[e] = 0
    BY <1>1, <1>2 DEF Withheld
  <2>2. \A p \in Pans : ledger[p].withheld = SumOver(Withheld, EntriesOf(p))
    <3> TAKE p \in Pans
    <3>1. IsFiniteSet(EntriesOf(p)) /\ \A e \in EntriesOf(p) : Withheld[e] = 0
      BY <2>1, PanSets DEF EntriesOf
    <3>2. SumOver(Withheld, EntriesOf(p)) = 0
      BY <3>1, SumZero
    <3> QED
      BY <1>3, <3>2
  <2>3. /\ ledger \in [Pans -> Account]
        /\ receivable = {} /\ doubled = {}
    BY DEF Init, Account
  <2>4. \A e \in Entries : entry[e].withheld \in 0..Amount[e] /\ entry[e].withheld = 0
    BY <1>1, <1>2
  <2> QED
    BY <2>2, <2>3, <2>4 DEF Ledgered
<1>7. Planned
  BY DEF Init, Planned, Planning, Idle
<1>8. Levied
  <2> SUFFICES ASSUME NEW p \in Pans
               PROVE  /\ ledger[p].withheld <= Due(Total(MadeOf(p)))
                      /\ ledger[p].withheld + ledger[p].carried = Due(Total(MadeOf(p)))
    BY DEF Levied
  <2>1. Total(MadeOf(p)) = 0
    BY <1>5, SumEmpty DEF Total
  <2>2. Due(0) = 0
    BY DEF Due
  <2> QED
    BY <1>3, <2>1, <2>2
<1> QED
  BY <1>4, <1>6, <1>7, <1>8 DEF TaxInv

LEMMA TaxInvNext == CInv /\ TaxInv /\ [Next]_vars => TaxInv'
<1> SUFFICES ASSUME CInv, TaxInv, [Next]_vars PROVE TaxInv'
  OBVIOUS
<1>1. ASSUME UNCHANGED <<entry, taxes, mistaken, receivable>>,
             \A q \in Requests : request'[q].pc \in {"plan", "flip"} => request'[q] = request[q]
      PROVE  TaxInv'
  BY <1>1, TaxQuiet DEF TaxInv, Ledgered, Planning
<1>2. ASSUME NEW q \in Requests, NEW new, new.pc \notin {"plan", "flip"},
             request' = [request EXCEPT ![q] = new], UNCHANGED <<entry, taxes, mistaken, receivable>>
      PROVE  TaxInv'
  BY <1>1, <1>2 DEF CInv, Shape
<1>3. CASE UNCHANGED vars
  BY <1>1, <1>3 DEF vars
<1>4. ASSUME NEW b \in Batches, createBatch(b) PROVE TaxInv'
  BY <1>1, <1>4 DEF createBatch
<1>5. ASSUME NEW b \in Batches, NEW q \in Requests, confirmRead(q, b) PROVE TaxInv'
  BY <1>2, <1>5 DEF confirmRead
<1>6. ASSUME NEW q \in Requests, NEW payable \in SUBSET Outlets, payoutRead(q, payable)
      PROVE  TaxInv'
  BY <1>2, <1>6 DEF payoutRead
<1>7. ASSUME NEW q \in Requests, payoutConflict(q) PROVE TaxInv'
  BY <1>2, <1>7 DEF payoutConflict, Idle
<1>8. ASSUME NEW q \in Requests, NEW d \in Downloads, NEW rows \in SUBSET Outlets,
             uploadRead(q, d, rows)
      PROVE  TaxInv'
  <2>1. PICK ok : request' = [request EXCEPT ![q] = [pc |-> "apply", download |-> d, rows |-> ok]]
    BY <1>8 DEF uploadRead
  <2> QED
    BY <1>2, <1>8, <2>1 DEF uploadRead
<1>9. ASSUME NEW d \in Downloads, NEW o \in Outlets, NEW x \in {"paid", "rejected"},
             BankDecides(d, o, x)
      PROVE  TaxInv'
  BY <1>1, <1>9 DEF BankDecides
<1>10. ASSUME NEW r \in Reversals, NEW b \in Batches, NEW o \in Outlets,
              NEW a \in {"POINTS", "PAYOUT"}, createReversal(r, b, o, a)
       PROVE  TaxInv'
  BY <1>1, <1>10 DEF createReversal
<1>11. ASSUME NEW r \in Reversals, rejectReversal(r) PROVE TaxInv'
  BY <1>1, <1>11 DEF rejectReversal
<1>12. ASSUME NEW r \in Reversals, patchReversal(r) PROVE TaxInv'
  BY <1>1, <1>12 DEF patchReversal
<1> QED
  BY <1>3, <1>4, <1>5, <1>6, <1>7, <1>8, <1>9, <1>10, <1>11, <1>12,
     TaxConfirm, TaxLock, TaxDownload, TaxReread, TaxUpload, TaxReverse DEF Next

LEMMA TaxInvInvariant == Spec => []TaxInv
  BY TaxInvInit, TaxInvNext, CInvInvariant, PTL DEF Spec

(* The state is well formed: an entry is in a file exactly while it is being *)
(* paid, was paid or was rejected; no entry is taxed more than it is worth;  *)
(* and no upload takes more out of the ledger of a PAN than is in it, unless *)
(* one was mistaken about an entry of that PAN.                              *)
THEOREM CreditTypeCorrect == Spec => []TypeOK
<1>1. CInv /\ TaxInv => TypeOK
  <2> SUFFICES ASSUME CInv, TaxInv PROVE TypeOK
    OBVIOUS
  <2>1. \A e \in Entries :
          /\ entry[e].status \in InFile \cup {"NONE", "PENDING", "REVERSED"}
          /\ entry[e].withheld \in 0..Amount[e]
          /\ entry[e].download \in Downloads \cup {NoDownload}
    BY DEF CInv, Shape, EntryType, TaxInv, Ledgered
  <2>2. \A e \in Entries :
          /\ entry[e].download # NoDownload <=> entry[e].status \in InFile
          /\ entry[e].download # NoDownload => e \in download[entry[e].download].entries
    BY DEF CInv, Filed, Loose
  <2>3. \A d \in Downloads : /\ download[d].status \in {"NONE", "OPEN", "PARTIALLY_PAID", "PAID"}
                             /\ download[d].entries \subseteq Entries
    BY DEF CInv, Shape, DownloadType
  <2>4. \A p \in Pans : /\ ledger[p].withheld \in Int /\ ledger[p].carried \in Nat
                        /\ Sound(p) => ledger[p].withheld >= 0
    <3> TAKE p \in Pans
    <3>1. \A e \in EntriesOf(p) : Withheld[e] \in Nat
      BY DEF TaxInv, Ledgered, Withheld, EntriesOf
    <3>2. SumOver(Withheld, EntriesOf(p)) \in Nat
      BY <3>1, PanSets, SumNat
    <3> QED
      BY <3>2 DEF TaxInv, Ledgered, Account
  <2>5. \A r \in Reversals : reversal[r].status \in
          {"NONE", "PENDING_GIFSY", "APPROVING", "APPROVED", "REJECTED"}
    BY DEF CInv, Shape, ReversalType
  <2>6. \A q \in Requests : request[q].pc \in {"idle", "confirm", "lock", "plan", "apply", "flip"}
    BY DEF CInv, Shape, RequestType
  <2>7. /\ batch \in [Batches -> {"NONE", "PENDING_CONFIRM", "CONFIRMED"}]
        /\ bank \in [Downloads -> [Outlets -> {"none", "paid", "rejected"}]]
        /\ receivable \subseteq Entries /\ doubled \subseteq Entries /\ mistaken \subseteq Entries
    BY DEF CInv, Shape, TaxInv, Ledgered
  <2> QED
    BY <2>1, <2>2, <2>3, <2>4, <2>5, <2>6, <2>7 DEF TypeOK
<1> QED
  BY <1>1, CInvInvariant, TaxInvInvariant, PTL

(* The ledger of a PAN is the tax withheld from its entries; and when all of *)
(* them are paid or being paid, it is what is due on their sum, with what is *)
(* carried forward, in whatever order they were downloaded, rejected and     *)
(* downloaded again.  But for a PAN of which an upload settled an entry in   *)
(* another file than its own.                                                *)
THEOREM TaxIsWithheldAsDue == Spec => []TaxWithheldAsDue
<1>1. CInv /\ TaxInv => TaxWithheldAsDue
  <2> SUFFICES ASSUME CInv, TaxInv, NEW p \in Pans, Sound(p)
               PROVE  /\ ledger[p].withheld = SumOver(Withheld, MadeOf(p))
                      /\ MadeOf(p) \subseteq WithStatus({"PROCESSING", "PAID"}) \ doubled =>
                           ledger[p].withheld + ledger[p].carried = Due(Total(MadeOf(p)))
    BY DEF TaxWithheldAsDue, MadeOf
  <2>1. ledger[p].withheld = SumOver(Withheld, MadeOf(p))
    <3> DEFINE E == EntriesOf(p)
               made == MadeOf(p)
    <3>1. IsFiniteSet(E) /\ made \in SUBSET E /\ IsFiniteSet(E \ made) /\ IsFiniteSet(made)
      BY PanSets, FS_Subset
    <3>2. \A e \in E : Withheld[e] \in Int
      BY DEF TaxInv, Ledgered, Withheld, EntriesOf
    <3>3. \A e \in E \ made : Withheld[e] = 0
      BY DEF TaxInv, Ledgered, Withheld, MadeOf, EntriesOf, WithStatus
    <3>4. ledger[p].withheld = SumOver(Withheld, E)
      BY DEF TaxInv, Ledgered
    <3> HIDE DEF E, made
    <3>5. SumOver(Withheld, E) = SumOver(Withheld, made) + SumOver(Withheld, E \ made)
      BY <3>1, <3>2, SumSplit
    <3>6. SumOver(Withheld, E \ made) = 0
      BY <3>1, <3>3, SumZero
    <3>7. SumOver(Withheld, made) \in Int
      <4>1. \A e \in made : Withheld[e] \in Int
        BY <3>1, <3>2
      <4> QED
        BY <3>1, <4>1, SumInt
    <3> QED
      BY <3>4, <3>5, <3>6, <3>7 DEF made
  <2>2. MadeOf(p) \subseteq WithStatus({"PROCESSING", "PAID"}) \ doubled => Clean(p) /\ AllPaying(p)
    BY DEF Clean, AllPaying, WithStatus
  <2> QED
    BY <2>1, <2>2 DEF TaxInv, Levied
<1> QED
  BY <1>1, CInvInvariant, TaxInvInvariant, PTL
=============================================================================
