---------------------- MODULE WhatsappBroadcastProofs ----------------------
(* Proofs about WhatsappBroadcast, for every number of campaigns, phones,   *)
(* workers, reports and mishaps: its types, that nobody is billed twice, and *)
(* that the counters are those of the rows.                                  *)
EXTENDS WhatsappBroadcast, FiniteSetTheorems, TLAPS

USE BroadcastAssumption

RowStatuses == {"NONE", "QUEUED", "SENDING", "SENT", "DELIVERED", "READ", "FAILED", "SKIPPED"}
CampaignStatuses == {"NONE", "SCHEDULED", "SENDING", "SENT", "CANCELLED"}
Counters == {"sent", "delivered", "read", "failed"}
Elsewhere == {"idle", "loop"}

BroadcastType == [status : CampaignStatuses, sent : Int, delivered : Nat, read : Nat, failed : Nat]
RowType == [status : RowStatuses, deliveredAt : BOOLEAN, readAt : BOOLEAN]
WorkerType == [pc : {"idle", "loop", "send", "sent", "refused", "countSent", "countFailed"},
               todo : SUBSET Rows, touched : SUBSET Campaigns, row : Rows \cup {NoRow}]
ReporterType == [pc : {"idle", "countDelivered", "countRead", "read", "failed", "countFailed"},
                 todo : SUBSET Rows, row : Rows \cup {NoRow}, wasSent : BOOLEAN]

Shape ==
  /\ broadcast \in [Campaigns -> BroadcastType]
  /\ row \in [Rows -> RowType]
  /\ worker \in [Workers -> WorkerType]
  /\ \A w \in Workers : worker[w].pc \notin Elsewhere => worker[w].row \in Rows
  /\ reporter \in [Reporters -> ReporterType]
  /\ \A h \in Reporters : reporter[h].pc # "idle" => reporter[h].row \in Rows
  /\ billed \in [Rows -> Nat]
  /\ fate \in [Rows -> {"none", "delivered", "failed"}]
  /\ cancelling \subseteq Campaigns
  /\ resendOf \in [Campaigns -> Campaigns]
  /\ mishaps \in 0..MaxMishaps
  /\ unrecorded \subseteq Rows /\ early \subseteq Rows /\ cut \subseteq Campaigns
  /\ miscounted \subseteq Rows \X Counters

(* Who is at a row.                                                          *)
AtRow(w, r) == worker[w].pc \notin Elsewhere /\ worker[w].row = r
WorkerAt(w, pc, r) == worker[w].pc = pc /\ worker[w].row = r
OnRow(h, r) == reporter[h].pc # "idle" /\ reporter[h].row = r
ReporterAt(h, pc, r) == reporter[h].pc = pc /\ reporter[h].row = r
Failing(h, r) == reporter[h].pc \in {"failed", "countFailed"} /\ reporter[h].row = r
TakingBack(h, r) == ReporterAt(h, "countFailed", r) /\ reporter[h].wasSent

(* One drain at most is at a row, and only at a row that was claimed.        *)
Exclusive(r) ==
  /\ \A v, w \in Workers : AtRow(v, r) /\ AtRow(w, r) => v = w
  /\ \A w \in Workers : AtRow(w, r) => row[r].status \notin {"NONE", "QUEUED", "SKIPPED"}
  /\ \A w \in Workers : WorkerAt(w, "sent", r) => billed[r] > 0

(* The provider has a message that was sent, and reports say what it knows.  *)
Fates(r) ==
  /\ fate[r] # "none" => billed[r] > 0
  /\ billed[r] > 0 => row[r].status # "NONE"
  /\ row[r].status \in {"DELIVERED", "READ"} => fate[r] = "delivered"
  /\ \A h \in Reporters : OnRow(h, r) => fate[r] # "none" /\ (Failing(h, r) <=> fate[r] = "failed")
  /\ \A h \in Reporters : Failing(h, r) /\ reporter[h].wasSent =>
       row[r].status \in {"SENT", "DELIVERED", "READ", "FAILED"}

(* What a row whose sends were all noted says of them.                       *)
Bills(r) ==
  r \notin unrecorded =>
    /\ billed[r] <= 1
    /\ row[r].status \in {"NONE", "QUEUED", "SKIPPED"} => billed[r] = 0
    /\ row[r].status = "SENDING" => billed[r] = 0 \/ \E w \in Workers : WorkerAt(w, "sent", r)
    /\ row[r].status = "FAILED" => billed[r] = 0 \/ fate[r] = "failed"
    /\ \A w \in Workers : AtRow(w, r) =>
         /\ worker[w].pc \in {"send", "refused", "countFailed"} => billed[r] = 0
         /\ worker[w].pc \in {"send", "refused"} => row[r].status = "SENDING"
         /\ worker[w].pc = "countFailed" => row[r].status = "FAILED"

(* A report that finds a row SENT comes after the worker's note of the send, *)
(* which is the last time the worker writes to it.                           *)
Notes(r) ==
  r \notin unrecorded =>
    /\ \A w \in Workers : WorkerAt(w, "sent", r) =>
         /\ r \notin early => row[r].status \in {"SENDING", "SENT"}
         /\ <<r, "sent">> \notin miscounted => row[r].status # "SENT"
    /\ \A h \in Reporters : Failing(h, r) =>
         /\ r \notin early => reporter[h].wasSent /\ \A w \in Workers : ~WorkerAt(w, "sent", r)
         /\ <<r, "sent">> \notin miscounted /\ reporter[h].wasSent =>
              \A w \in Workers : ~WorkerAt(w, "sent", r)

(* One report at most has a row's delivery, its reading, its failure to      *)
(* count.                                                                    *)
Once(r) ==
  /\ \A g, h \in Reporters : ReporterAt(g, "countDelivered", r) =>
       row[r].deliveredAt /\ (ReporterAt(h, "countDelivered", r) => g = h)
  /\ \A g, h \in Reporters : ReporterAt(g, "countRead", r) =>
       row[r].readAt /\ (ReporterAt(h, "countRead", r) => g = h)
  /\ r \notin unrecorded /\ <<r, "sent">> \notin miscounted =>
       \A g, h \in Reporters : TakingBack(g, r) =>
         row[r].status = "FAILED" /\ (TakingBack(h, r) => g = h)
  /\ r \notin unrecorded \cup early =>
       \A g, h \in Reporters : ReporterAt(g, "countFailed", r) =>
         row[r].status = "FAILED" /\ (ReporterAt(h, "countFailed", r) => g = h)

RowInv(r) == Exclusive(r) /\ Fates(r) /\ Bills(r) /\ Notes(r) /\ Once(r)

(* A campaign that does not exist yet has no rows.                           *)
Unborn ==
  \A b \in Campaigns : broadcast[b].status = "NONE" =>
    resendOf[b] = b /\ \A p \in Phones : row[<<b, p>>] = NotSent

(* A resend goes to those who were not reached, and stay so.                 *)
Resent ==
  \A b \in Campaigns, p \in Phones :
    resendOf[b] # b /\ row[<<b, p>>].status # "NONE" =>
      LET r == <<resendOf[b], p>>
      IN  \/ r \in unrecorded
          \/ fate[r] = "failed"
          \/ billed[r] = 0 /\ row[r].status = "FAILED"

(* What of a row is counted.  Of those sent: a send is counted after it was  *)
(* noted, and a failure takes it back after the row says FAILED.             *)
DeliveryCounted(r) == row[r].deliveredAt /\ \A h \in Reporters : ~ReporterAt(h, "countDelivered", r)
ReadingCounted(r) == row[r].readAt /\ \A h \in Reporters : ~ReporterAt(h, "countRead", r)
FailureCounted(r) == /\ row[r].status = "FAILED"
                     /\ \A h \in Reporters : ~ReporterAt(h, "countFailed", r)
                     /\ \A w \in Workers : ~WorkerAt(w, "countFailed", r)
ToCount(r) == \E w \in Workers : WorkerAt(w, "countSent", r)
ToTakeBack(r) == \E h \in Reporters : TakingBack(h, r)
Sent(r) == row[r].status = "SENT" \/ ToTakeBack(r)
Reached(r) == row[r].status \in {"SENT", "DELIVERED", "READ"} \/ ToTakeBack(r)

CountsOf(b) ==
  /\ ~Miscounted(b, "delivered") =>
       broadcast[b].delivered = Cardinality({r \in RowsOf(b) : DeliveryCounted(r)})
  /\ ~Miscounted(b, "read") =>
       broadcast[b].read = Cardinality({r \in RowsOf(b) : ReadingCounted(r)})
  /\ ~Miscounted(b, "sent") /\ RowsOf(b) \cap unrecorded = {} =>
       broadcast[b].sent + Cardinality({r \in RowsOf(b) : ToCount(r)})
         >= Cardinality({r \in RowsOf(b) : Sent(r)})
  /\ ~Miscounted(b, "sent") /\ RowsOf(b) \cap (early \cup unrecorded) = {} =>
       broadcast[b].sent + Cardinality({r \in RowsOf(b) : ToCount(r)})
         = Cardinality({r \in RowsOf(b) : Reached(r)})
  /\ ~Miscounted(b, "failed") /\ RowsOf(b) \cap (early \cup unrecorded) = {} =>
       broadcast[b].failed = Cardinality({r \in RowsOf(b) : FailureCounted(r)})

Counts == \A b \in Campaigns : CountsOf(b)

BInv == Shape /\ (\A r \in Rows : RowInv(r)) /\ Unborn /\ Resent /\ Counts

-----------------------------------------------------------------------------
(* Rows and finiteness.                                                      *)
LEMMA RowParts ==
  /\ \A r \in Rows : r[1] \in Campaigns /\ \E p \in Phones : r = <<r[1], p>>
  /\ \A b \in Campaigns, p \in Phones : <<b, p>> \in Rows /\ <<b, p>>[1] = b
  BY DEF Rows

LEMMA RowsFinite == IsFiniteSet(Rows)
  BY FS_Product DEF Rows

LEMMA PartsFinite ==
  ASSUME NEW S \in SUBSET Rows
  PROVE  IsFiniteSet(S) /\ Cardinality(S) \in Nat
  BY RowsFinite, FS_Subset, FS_CardinalityType

(* Two sets of rows that differ in one row at most.                          *)
Bit(P) == IF P THEN 1 ELSE 0

LEMMA Tally ==
  ASSUME NEW S \in SUBSET Rows, NEW T \in SUBSET Rows, NEW r \in Rows,
         \A q \in Rows \ {r} : q \in T <=> q \in S
  PROVE  Cardinality(T) = Cardinality(S) + Bit(r \in T) - Bit(r \in S)
<1>1. IsFiniteSet(S) /\ Cardinality(S) \in Nat /\ IsFiniteSet(T) /\ Cardinality(T) \in Nat
  BY PartsFinite
<1>2. CASE (r \in S) <=> (r \in T)
  <2>1. S = T
    BY <1>2
  <2> QED BY <1>1, <2>1 DEF Bit
<1>3. CASE r \in T /\ r \notin S
  <2>1. T = S \cup {r}
    BY <1>3
  <2>2. Cardinality(S \cup {r}) = Cardinality(S) + 1
    BY <1>1, <1>3, FS_AddElement
  <2> QED BY <1>1, <1>3, <2>1, <2>2 DEF Bit
<1>4. CASE r \notin T /\ r \in S
  <2>1. T = S \ {r}
    BY <1>4
  <2>2. Cardinality(S \ {r}) = Cardinality(S) - 1
    BY <1>1, <1>4, FS_RemoveElement
  <2> QED BY <1>1, <1>4, <2>1, <2>2 DEF Bit
<1> QED BY <1>2, <1>3, <1>4

-----------------------------------------------------------------------------
(* Counting.                                                                 *)
Grown == unrecorded \subseteq unrecorded' /\ early \subseteq early' /\ miscounted \subseteq miscounted'

SameTally(q) == /\ DeliveryCounted(q)' <=> DeliveryCounted(q)
                /\ ReadingCounted(q)' <=> ReadingCounted(q)
                /\ FailureCounted(q)' <=> FailureCounted(q)
                /\ ToCount(q)' <=> ToCount(q)
                /\ Sent(q)' <=> Sent(q)
                /\ Reached(q)' <=> Reached(q)

SameCounters(b) == /\ broadcast'[b].sent = broadcast[b].sent
                   /\ broadcast'[b].delivered = broadcast[b].delivered
                   /\ broadcast'[b].read = broadcast[b].read
                   /\ broadcast'[b].failed = broadcast[b].failed

(* A step that changes nothing of a campaign as far as the counters go ...   *)
LEMMA CountsOfKept ==
  ASSUME NEW b \in Campaigns, CountsOf(b), Grown, SameCounters(b),
         \A q \in RowsOf(b) : SameTally(q)
  PROVE  CountsOf(b)'
<1>1. RowsOf(b)' = RowsOf(b)
  BY DEF RowsOf
<1>2. /\ {q \in RowsOf(b) : DeliveryCounted(q)}' = {q \in RowsOf(b) : DeliveryCounted(q)}
      /\ {q \in RowsOf(b) : ReadingCounted(q)}' = {q \in RowsOf(b) : ReadingCounted(q)}
      /\ {q \in RowsOf(b) : FailureCounted(q)}' = {q \in RowsOf(b) : FailureCounted(q)}
      /\ {q \in RowsOf(b) : ToCount(q)}' = {q \in RowsOf(b) : ToCount(q)}
      /\ {q \in RowsOf(b) : Sent(q)}' = {q \in RowsOf(b) : Sent(q)}
      /\ {q \in RowsOf(b) : Reached(q)}' = {q \in RowsOf(b) : Reached(q)}
  BY <1>1 DEF SameTally
<1>3. /\ \A c : Miscounted(b, c) => Miscounted(b, c)'
      /\ RowsOf(b) \cap unrecorded' = {} => RowsOf(b) \cap unrecorded = {}
      /\ RowsOf(b) \cap (early' \cup unrecorded') = {} => RowsOf(b) \cap (early \cup unrecorded) = {}
  BY <1>1 DEF Grown, Miscounted
<1> QED BY <1>1, <1>2, <1>3 DEF CountsOf, SameCounters

(* ... and one that changes one row, and counts it.                          *)
DeliveredDelta(r) ==
  <<r, "delivered">> \notin miscounted' =>
    broadcast'[r[1]].delivered
      = broadcast[r[1]].delivered + Bit(DeliveryCounted(r)') - Bit(DeliveryCounted(r))

ReadDelta(r) ==
  <<r, "read">> \notin miscounted' =>
    broadcast'[r[1]].read = broadcast[r[1]].read + Bit(ReadingCounted(r)') - Bit(ReadingCounted(r))

SentDelta(r) ==
  <<r, "sent">> \notin miscounted' /\ r \notin unrecorded' =>
    broadcast'[r[1]].sent + Bit(ToCount(r)') - Bit(ToCount(r))
      >= broadcast[r[1]].sent + Bit(Sent(r)') - Bit(Sent(r))

ReachedDelta(r) ==
  <<r, "sent">> \notin miscounted' /\ r \notin early' \cup unrecorded' =>
    broadcast'[r[1]].sent + Bit(ToCount(r)') - Bit(ToCount(r))
      = broadcast[r[1]].sent + Bit(Reached(r)') - Bit(Reached(r))

FailedDelta(r) ==
  <<r, "failed">> \notin miscounted' /\ r \notin early' \cup unrecorded' =>
    broadcast'[r[1]].failed
      = broadcast[r[1]].failed + Bit(FailureCounted(r)') - Bit(FailureCounted(r))

Deltas(r) == DeliveredDelta(r) /\ ReadDelta(r) /\ SentDelta(r) /\ ReachedDelta(r) /\ FailedDelta(r)

LEMMA CountsStep ==
  ASSUME Counts, Shape, Shape', Grown, NEW r \in Rows,
         \A q \in Rows \ {r} : SameTally(q),
         \A b \in Campaigns \ {r[1]} : SameCounters(b),
         Deltas(r)
  PROVE  Counts'
<1> SUFFICES ASSUME NEW b \in Campaigns PROVE CountsOf(b)'
  BY DEF Counts
<1>1. CountsOf(b)
  BY DEF Counts
<1>2. RowsOf(b)' = RowsOf(b) /\ RowsOf(b) \in SUBSET Rows
  BY DEF RowsOf
<1>3. CASE b # r[1]
  <2>1. \A q \in RowsOf(b) : q \in Rows \ {r}
    BY <1>3 DEF RowsOf
  <2> QED BY <1>1, <1>3, <2>1, CountsOfKept
<1>4. CASE b = r[1]
  <2>1. r \in RowsOf(b)
    BY <1>4 DEF RowsOf
  <2> DEFINE D == {q \in RowsOf(b) : DeliveryCounted(q)}
             R == {q \in RowsOf(b) : ReadingCounted(q)}
             F == {q \in RowsOf(b) : FailureCounted(q)}
             C == {q \in RowsOf(b) : ToCount(q)}
             S == {q \in RowsOf(b) : Sent(q)}
             A == {q \in RowsOf(b) : Reached(q)}
  <2>2. /\ D \in SUBSET Rows /\ D' \in SUBSET Rows /\ R \in SUBSET Rows /\ R' \in SUBSET Rows
        /\ F \in SUBSET Rows /\ F' \in SUBSET Rows /\ C \in SUBSET Rows /\ C' \in SUBSET Rows
        /\ S \in SUBSET Rows /\ S' \in SUBSET Rows /\ A \in SUBSET Rows /\ A' \in SUBSET Rows
    BY <1>2
  <2>3. \A q \in Rows \ {r} : /\ q \in D' <=> q \in D
                              /\ q \in R' <=> q \in R
                              /\ q \in F' <=> q \in F
                              /\ q \in C' <=> q \in C
                              /\ q \in S' <=> q \in S
                              /\ q \in A' <=> q \in A
    BY <1>2 DEF SameTally
  <2>4. /\ (r \in D <=> DeliveryCounted(r)) /\ (r \in D' <=> DeliveryCounted(r)')
        /\ (r \in R <=> ReadingCounted(r)) /\ (r \in R' <=> ReadingCounted(r)')
        /\ (r \in F <=> FailureCounted(r)) /\ (r \in F' <=> FailureCounted(r)')
        /\ (r \in C <=> ToCount(r)) /\ (r \in C' <=> ToCount(r)')
        /\ (r \in S <=> Sent(r)) /\ (r \in S' <=> Sent(r)')
        /\ (r \in A <=> Reached(r)) /\ (r \in A' <=> Reached(r)')
    BY <1>2, <2>1
  <2>5. CountsOf(b) <=> /\ ~Miscounted(b, "delivered") => broadcast[b].delivered = Cardinality(D)
                        /\ ~Miscounted(b, "read") => broadcast[b].read = Cardinality(R)
                        /\ ~Miscounted(b, "sent") /\ RowsOf(b) \cap unrecorded = {} =>
                             broadcast[b].sent + Cardinality(C) >= Cardinality(S)
                        /\ ~Miscounted(b, "sent") /\ RowsOf(b) \cap (early \cup unrecorded) = {} =>
                             broadcast[b].sent + Cardinality(C) = Cardinality(A)
                        /\ ~Miscounted(b, "failed") /\ RowsOf(b) \cap (early \cup unrecorded) = {} =>
                             broadcast[b].failed = Cardinality(F)
    BY DEF CountsOf
  <2>6. CountsOf(b)' <=> /\ ~Miscounted(b, "delivered")' => broadcast'[b].delivered = Cardinality(D')
                         /\ ~Miscounted(b, "read")' => broadcast'[b].read = Cardinality(R')
                         /\ ~Miscounted(b, "sent")' /\ RowsOf(b) \cap unrecorded' = {} =>
                              broadcast'[b].sent + Cardinality(C') >= Cardinality(S')
                         /\ ~Miscounted(b, "sent")' /\ RowsOf(b) \cap (early' \cup unrecorded') = {} =>
                              broadcast'[b].sent + Cardinality(C') = Cardinality(A')
                         /\ ~Miscounted(b, "failed")' /\ RowsOf(b) \cap (early' \cup unrecorded') = {} =>
                              broadcast'[b].failed = Cardinality(F')
    BY <1>2 DEF CountsOf
  <2> HIDE DEF D, R, F, C, S, A
  <2>7. /\ Cardinality(D') = Cardinality(D) + Bit(DeliveryCounted(r)') - Bit(DeliveryCounted(r))
        /\ Cardinality(R') = Cardinality(R) + Bit(ReadingCounted(r)') - Bit(ReadingCounted(r))
        /\ Cardinality(F') = Cardinality(F) + Bit(FailureCounted(r)') - Bit(FailureCounted(r))
        /\ Cardinality(C') = Cardinality(C) + Bit(ToCount(r)') - Bit(ToCount(r))
        /\ Cardinality(S') = Cardinality(S) + Bit(Sent(r)') - Bit(Sent(r))
        /\ Cardinality(A') = Cardinality(A) + Bit(Reached(r)') - Bit(Reached(r))
    <3>1. Cardinality(D') = Cardinality(D) + Bit(DeliveryCounted(r)') - Bit(DeliveryCounted(r))
      BY <2>2, <2>3, <2>4, Tally DEF Bit
    <3>2. Cardinality(R') = Cardinality(R) + Bit(ReadingCounted(r)') - Bit(ReadingCounted(r))
      BY <2>2, <2>3, <2>4, Tally DEF Bit
    <3>3. Cardinality(F') = Cardinality(F) + Bit(FailureCounted(r)') - Bit(FailureCounted(r))
      BY <2>2, <2>3, <2>4, Tally DEF Bit
    <3>4. Cardinality(C') = Cardinality(C) + Bit(ToCount(r)') - Bit(ToCount(r))
      BY <2>2, <2>3, <2>4, Tally DEF Bit
    <3>5. Cardinality(S') = Cardinality(S) + Bit(Sent(r)') - Bit(Sent(r))
      BY <2>2, <2>3, <2>4, Tally DEF Bit
    <3>6. Cardinality(A') = Cardinality(A) + Bit(Reached(r)') - Bit(Reached(r))
      BY <2>2, <2>3, <2>4, Tally DEF Bit
    <3> QED BY <3>1, <3>2, <3>3, <3>4, <3>5, <3>6
  <2>8. /\ Cardinality(D) \in Nat /\ Cardinality(R) \in Nat /\ Cardinality(F) \in Nat
        /\ Cardinality(C) \in Nat /\ Cardinality(S) \in Nat /\ Cardinality(A) \in Nat
    BY <2>2, PartsFinite
  <2>9. broadcast[b].sent \in Int /\ broadcast'[b].sent \in Int
    BY DEF Shape, BroadcastType
  <2>10. /\ \A c : Miscounted(b, c) \/ <<r, c>> \in miscounted' => Miscounted(b, c)'
         /\ RowsOf(b) \cap unrecorded' = {} => RowsOf(b) \cap unrecorded = {} /\ r \notin unrecorded'
         /\ RowsOf(b) \cap (early' \cup unrecorded') = {} =>
              RowsOf(b) \cap (early \cup unrecorded) = {} /\ r \notin early' \cup unrecorded'
    BY <1>2, <2>1 DEF Grown, Miscounted
  <2>11. ~Miscounted(b, "delivered")' => broadcast'[b].delivered = Cardinality(D')
    BY <1>1, <1>4, <2>5, <2>7, <2>8, <2>10 DEF Deltas, DeliveredDelta
  <2>12. ~Miscounted(b, "read")' => broadcast'[b].read = Cardinality(R')
    BY <1>1, <1>4, <2>5, <2>7, <2>8, <2>10 DEF Deltas, ReadDelta
  <2>13. ~Miscounted(b, "sent")' /\ RowsOf(b) \cap unrecorded' = {} =>
           broadcast'[b].sent + Cardinality(C') >= Cardinality(S')
    BY <1>1, <1>4, <2>5, <2>7, <2>8, <2>9, <2>10 DEF Deltas, SentDelta, Bit
  <2>14. ~Miscounted(b, "sent")' /\ RowsOf(b) \cap (early' \cup unrecorded') = {} =>
           broadcast'[b].sent + Cardinality(C') = Cardinality(A')
    BY <1>1, <1>4, <2>5, <2>7, <2>8, <2>9, <2>10 DEF Deltas, ReachedDelta, Bit
  <2>15. ~Miscounted(b, "failed")' /\ RowsOf(b) \cap (early' \cup unrecorded') = {} =>
           broadcast'[b].failed = Cardinality(F')
    BY <1>1, <1>4, <2>5, <2>7, <2>8, <2>10 DEF Deltas, FailedDelta
  <2> QED BY <2>6, <2>11, <2>12, <2>13, <2>14, <2>15
<1> QED BY <1>3, <1>4

-----------------------------------------------------------------------------
(* A row that a step leaves as it is, but that it may come into being, be    *)
(* given up before it is claimed, or be queued again when no drain is at it. *)
Shifted(q) ==
  /\ row'[q].deliveredAt = row[q].deliveredAt /\ row'[q].readAt = row[q].readAt
  /\ \/ row[q].status = "NONE" /\ row'[q].status = "QUEUED"
     \/ row[q].status = "QUEUED" /\ row'[q].status = "SKIPPED"
     \/ /\ row[q].status = "SENDING" /\ row'[q].status = "QUEUED"
        /\ \A w \in Workers : ~AtRow(w, q)

Apart(q) ==
  /\ row'[q] = row[q] \/ Shifted(q)
  /\ billed'[q] = billed[q] /\ fate'[q] = fate[q]
  /\ \A w \in Workers : /\ AtRow(w, q)' <=> AtRow(w, q)
                        /\ AtRow(w, q) => worker'[w].pc = worker[w].pc
  /\ \A h \in Reporters : /\ OnRow(h, q)' <=> OnRow(h, q)
                          /\ OnRow(h, q) => /\ reporter'[h].pc = reporter[h].pc
                                            /\ reporter'[h].wasSent = reporter[h].wasSent

(* Whoever is at such a row is there as before.                              *)
LEMMA ApartActors ==
  ASSUME NEW q \in Rows, Apart(q)
  PROVE  /\ \A w \in Workers : /\ WorkerAt(w, "sent", q)' <=> WorkerAt(w, "sent", q)
                               /\ WorkerAt(w, "countSent", q)' <=> WorkerAt(w, "countSent", q)
                               /\ WorkerAt(w, "countFailed", q)' <=> WorkerAt(w, "countFailed", q)
         /\ \A h \in Reporters :
              /\ ReporterAt(h, "countDelivered", q)' <=> ReporterAt(h, "countDelivered", q)
              /\ ReporterAt(h, "countRead", q)' <=> ReporterAt(h, "countRead", q)
              /\ ReporterAt(h, "countFailed", q)' <=> ReporterAt(h, "countFailed", q)
              /\ Failing(h, q)' <=> Failing(h, q)
              /\ TakingBack(h, q)' <=> TakingBack(h, q)
              /\ Failing(h, q) => reporter'[h].wasSent = reporter[h].wasSent
<1>1. \A w \in Workers : /\ WorkerAt(w, "sent", q)' <=> WorkerAt(w, "sent", q)
                         /\ WorkerAt(w, "countSent", q)' <=> WorkerAt(w, "countSent", q)
                         /\ WorkerAt(w, "countFailed", q)' <=> WorkerAt(w, "countFailed", q)
  BY DEF Apart, AtRow, WorkerAt, Elsewhere
<1>2. \A h \in Reporters :
        /\ ReporterAt(h, "countDelivered", q)' <=> ReporterAt(h, "countDelivered", q)
        /\ ReporterAt(h, "countRead", q)' <=> ReporterAt(h, "countRead", q)
        /\ ReporterAt(h, "countFailed", q)' <=> ReporterAt(h, "countFailed", q)
        /\ Failing(h, q)' <=> Failing(h, q)
        /\ TakingBack(h, q)' <=> TakingBack(h, q)
        /\ Failing(h, q) => reporter'[h].wasSent = reporter[h].wasSent
  BY DEF Apart, OnRow, ReporterAt, Failing, TakingBack
<1> QED BY <1>1, <1>2

LEMMA ApartKept ==
  ASSUME NEW q \in Rows, RowInv(q), Apart(q), Grown
  PROVE  RowInv(q)' /\ SameTally(q)
<1>1. /\ row'[q].deliveredAt = row[q].deliveredAt /\ row'[q].readAt = row[q].readAt
      /\ billed'[q] = billed[q] /\ fate'[q] = fate[q]
      /\ \/ row'[q].status = row[q].status
         \/ row[q].status = "NONE" /\ row'[q].status = "QUEUED"
         \/ row[q].status = "QUEUED" /\ row'[q].status = "SKIPPED"
         \/ /\ row[q].status = "SENDING" /\ row'[q].status = "QUEUED"
            /\ \A w \in Workers : ~AtRow(w, q)
  BY DEF Apart, Shifted
<1>2. \A w \in Workers : /\ AtRow(w, q)' <=> AtRow(w, q)
                         /\ AtRow(w, q) => worker'[w].pc = worker[w].pc
                         /\ WorkerAt(w, "sent", q) => AtRow(w, q)
  BY DEF Apart, AtRow, WorkerAt, Elsewhere
<1>3. \A h \in Reporters : OnRow(h, q)' <=> OnRow(h, q)
  BY DEF Apart
<1>4. /\ q \notin unrecorded' => q \notin unrecorded
      /\ q \notin early' => q \notin early
      /\ <<q, "sent">> \notin miscounted' => <<q, "sent">> \notin miscounted
  BY DEF Grown
<1>5. Exclusive(q)'
  BY <1>1, <1>2, ApartActors DEF RowInv, Exclusive
<1>6. Fates(q)'
  <2>1. \A h \in Reporters : Failing(h, q)' <=> Failing(h, q)
    BY ApartActors
  <2>2. \A h \in Reporters : Failing(h, q)' /\ reporter'[h].wasSent =>
          row'[q].status \in {"SENT", "DELIVERED", "READ", "FAILED"}
    BY <1>1, ApartActors DEF RowInv, Fates
  <2> QED BY <1>1, <1>3, <2>1, <2>2 DEF RowInv, Fates
<1>7. Bills(q)'
  BY <1>1, <1>2, <1>4, ApartActors DEF RowInv, Bills
<1>8. Notes(q)'
  BY <1>1, <1>2, <1>4, ApartActors DEF RowInv, Notes
<1>9. Once(q)'
  BY <1>1, <1>4, ApartActors DEF RowInv, Once
<1>10. SameTally(q)
  BY <1>1, ApartActors DEF SameTally, DeliveryCounted, ReadingCounted, FailureCounted, ToCount,
                           ToTakeBack, Sent, Reached
<1> QED BY <1>5, <1>6, <1>7, <1>8, <1>9, <1>10 DEF RowInv

-----------------------------------------------------------------------------
(* What one assignment leaves.                                               *)
LEMMA RowTo ==
  ASSUME Shape, NEW r \in Rows, NEW x \in RowType, row' = [row EXCEPT ![r] = x]
  PROVE  row' \in [Rows -> RowType] /\ row'[r] = x /\ \A q \in Rows \ {r} : row'[q] = row[q]
  BY DEF Shape

LEMMA BroadcastTo ==
  ASSUME Shape, NEW b \in Campaigns, NEW x \in BroadcastType, broadcast' = [broadcast EXCEPT ![b] = x]
  PROVE  /\ broadcast' \in [Campaigns -> BroadcastType] /\ broadcast'[b] = x
         /\ \A c \in Campaigns \ {b} : broadcast'[c] = broadcast[c]
  BY DEF Shape

LEMMA WorkerTo ==
  ASSUME Shape, NEW w \in Workers, NEW x \in WorkerType, x.pc \notin Elsewhere => x.row \in Rows,
         worker' = [worker EXCEPT ![w] = x]
  PROVE  /\ worker' \in [Workers -> WorkerType] /\ worker'[w] = x
         /\ \A v \in Workers \ {w} : worker'[v] = worker[v]
         /\ \A v \in Workers : worker'[v].pc \notin Elsewhere => worker'[v].row \in Rows
  BY DEF Shape

LEMMA ReporterTo ==
  ASSUME Shape, NEW h \in Reporters, NEW x \in ReporterType, x.pc # "idle" => x.row \in Rows,
         reporter' = [reporter EXCEPT ![h] = x]
  PROVE  /\ reporter' \in [Reporters -> ReporterType] /\ reporter'[h] = x
         /\ \A g \in Reporters \ {h} : reporter'[g] = reporter[g]
         /\ \A g \in Reporters : reporter'[g].pc # "idle" => reporter'[g].row \in Rows
  BY DEF Shape

LEMMA WithRowStatus ==
  ASSUME NEW x \in RowType, NEW s \in RowStatuses
  PROVE  /\ [x EXCEPT !.status = s] \in RowType
         /\ [x EXCEPT !.status = s].status = s
         /\ [x EXCEPT !.status = s].deliveredAt = x.deliveredAt
         /\ [x EXCEPT !.status = s].readAt = x.readAt
  BY DEF RowType

LEMMA WithStatusOf ==
  ASSUME NEW x \in BroadcastType, NEW s \in CampaignStatuses
  PROVE  /\ [x EXCEPT !.status = s] \in BroadcastType
         /\ [x EXCEPT !.status = s].status = s
         /\ [x EXCEPT !.status = s].sent = x.sent
         /\ [x EXCEPT !.status = s].delivered = x.delivered
         /\ [x EXCEPT !.status = s].read = x.read
         /\ [x EXCEPT !.status = s].failed = x.failed
  BY DEF BroadcastType

LEMMA BlankRows ==
  /\ NotSent \in RowType /\ Queued \in RowType
  /\ Queued.status = "QUEUED" /\ ~Queued.deliveredAt /\ ~Queued.readAt
  /\ NotSent.status = "NONE" /\ ~NotSent.deliveredAt /\ ~NotSent.readAt
  /\ Queued.deliveredAt = NotSent.deliveredAt /\ Queued.readAt = NotSent.readAt
  BY DEF NotSent, Queued, RowType, RowStatuses

LEMMA BlankWorker ==
  IdleWorker \in WorkerType /\ IdleWorker.pc = "idle"
  BY DEF IdleWorker, WorkerType

LEMMA BlankReporter ==
  IdleReporter \in ReporterType /\ IdleReporter.pc = "idle"
  BY DEF IdleReporter, ReporterType

-----------------------------------------------------------------------------
(* What keeps a conjunct.                                                    *)
LEMMA UnbornKept ==
  ASSUME Unborn,
         \A b \in Campaigns : broadcast'[b].status = "NONE" =>
           broadcast[b].status = "NONE" /\ resendOf'[b] = resendOf[b],
         \A r \in Rows : row[r].status = "NONE" /\ broadcast'[r[1]].status = "NONE" => row'[r] = row[r]
  PROVE  Unborn'
<1> SUFFICES ASSUME NEW b \in Campaigns, broadcast'[b].status = "NONE"
             PROVE  resendOf'[b] = b /\ \A p \in Phones : row'[<<b, p>>] = NotSent
  BY DEF Unborn
<1>1. resendOf[b] = b /\ \A p \in Phones : row[<<b, p>>] = NotSent
  BY DEF Unborn
<1>2. ASSUME NEW p \in Phones PROVE row'[<<b, p>>] = NotSent
  <2>1. row[<<b, p>>].status = "NONE"
    BY <1>1, BlankRows
  <2> QED BY <1>1, <2>1, RowParts
<1> QED BY <1>1, <1>2

LEMMA ResentKept ==
  ASSUME Resent, Shape, resendOf' = resendOf, unrecorded \subseteq unrecorded',
         \A r \in Rows : fate[r] = "failed" => fate'[r] = "failed",
         \A r \in Rows : row'[r].status # "NONE" =>
           row[r].status # "NONE" \/ resendOf[r[1]] = r[1],
         \A r \in Rows : billed[r] = 0 /\ row[r].status = "FAILED" =>
           \/ r \in unrecorded'
           \/ billed'[r] = 0 /\ row'[r].status = "FAILED"
  PROVE  Resent'
<1> SUFFICES ASSUME NEW b \in Campaigns, NEW p \in Phones,
                    resendOf'[b] # b, row'[<<b, p>>].status # "NONE"
             PROVE  LET r == <<resendOf'[b], p>>
                    IN  \/ r \in unrecorded'
                        \/ fate'[r] = "failed"
                        \/ billed'[r] = 0 /\ row'[r].status = "FAILED"
  BY DEF Resent
<1> DEFINE r == <<resendOf[b], p>>
<1>1. r \in Rows /\ <<b, p>> \in Rows /\ <<b, p>>[1] = b
  BY RowParts DEF Shape
<1>2. row[<<b, p>>].status # "NONE"
  BY <1>1
<1>3. r \in unrecorded \/ fate[r] = "failed" \/ (billed[r] = 0 /\ row[r].status = "FAILED")
  BY <1>2 DEF Resent
<1> QED BY <1>1, <1>3

(* A step that leaves every row in peace.                                    *)
LEMMA PeacefulStep ==
  ASSUME BInv, Shape', Grown, \A r \in Rows : Apart(r), \A b \in Campaigns : SameCounters(b)
  PROVE  (\A r \in Rows : RowInv(r)') /\ Counts'
<1>1. \A r \in Rows : RowInv(r)' /\ SameTally(r)
  BY ApartKept DEF BInv
<1>2. \A b \in Campaigns : CountsOf(b)'
  BY <1>1, CountsOfKept DEF BInv, Counts, RowsOf
<1> QED BY <1>1, <1>2 DEF Counts

(* A step about one row, that of a campaign that exists.                     *)
LEMMA FocusStep ==
  ASSUME BInv, Shape', Grown, NEW r \in Rows, \A q \in Rows \ {r} : Apart(q),
         \A q \in Rows \ {r} : row'[q] = row[q],
         RowInv(r)', Deltas(r), \A b \in Campaigns \ {r[1]} : SameCounters(b),
         resendOf' = resendOf, \A b \in Campaigns : broadcast'[b].status = broadcast[b].status,
         row[r].status # "NONE", fate[r] = "failed" => fate'[r] = "failed",
         billed[r] = 0 /\ row[r].status = "FAILED" =>
           r \in unrecorded' \/ (billed'[r] = 0 /\ row'[r].status = "FAILED")
  PROVE  BInv'
<1>1. \A q \in Rows \ {r} : RowInv(q)' /\ SameTally(q)
  BY ApartKept DEF BInv
<1>2. \A q \in Rows : RowInv(q)'
  BY <1>1
<1>3. Counts'
  BY <1>1, CountsStep DEF BInv
<1>4. Unborn'
  BY UnbornKept DEF BInv
<1>5. \A q \in Rows \ {r} : billed'[q] = billed[q] /\ fate'[q] = fate[q]
  BY DEF Apart
<1>6. Resent'
  BY <1>5, ResentKept DEF BInv, Grown
<1> QED BY <1>2, <1>3, <1>4, <1>6 DEF BInv

-----------------------------------------------------------------------------
(* Operators.  Nobody but they are at work.                                  *)
LEMMA ActorsKept ==
  ASSUME UNCHANGED <<worker, reporter, billed, fate>>, NEW q \in Rows, row'[q] = row[q] \/ Shifted(q)
  PROVE  Apart(q)
  BY DEF Apart, AtRow, OnRow

LEMMA CreateStep ==
  ASSUME BInv, NEW b \in Originals, NEW status \in {"SENDING", "SCHEDULED"}, create(b, status)
  PROVE  BInv'
<1>1. /\ b \in Campaigns /\ broadcast[b].status = "NONE" /\ broadcast[b] \in BroadcastType
      /\ broadcast' = [broadcast EXCEPT ![b] = [broadcast[b] EXCEPT !.status = status]]
      /\ row' = [r \in Rows |-> IF r \in RowsOf(b) THEN Queued ELSE row[r]]
      /\ UNCHANGED <<worker, cancelling, reporter, billed, fate, resendOf, mishaps, unrecorded, early,
                     miscounted, cut>>
  BY BroadcastAssumption DEF create, provider, ghosts, BInv, Shape
<1> DEFINE x == [broadcast[b] EXCEPT !.status = status]
<1>2. /\ x \in BroadcastType /\ x.status = status /\ x.sent = broadcast[b].sent
      /\ x.delivered = broadcast[b].delivered /\ x.read = broadcast[b].read
      /\ x.failed = broadcast[b].failed
  <2>1. status \in CampaignStatuses
    BY DEF CampaignStatuses
  <2> QED BY <1>1, <2>1, WithStatusOf
<1>3. broadcast' = [broadcast EXCEPT ![b] = x]
  BY <1>1
<1> HIDE DEF x
<1>4. /\ broadcast' \in [Campaigns -> BroadcastType] /\ broadcast'[b] = x
      /\ \A c \in Campaigns \ {b} : broadcast'[c] = broadcast[c]
  BY <1>1, <1>2, <1>3, BroadcastTo DEF BInv
<1>5. \A r \in Rows : IF r[1] = b THEN row[r] = NotSent /\ row'[r] = Queued ELSE row'[r] = row[r]
  BY <1>1, RowParts DEF BInv, Unborn, RowsOf
<1>6. row' \in [Rows -> RowType]
  BY <1>1, BlankRows DEF BInv, Shape
<1>7. Shape'
  BY <1>1, <1>4, <1>6 DEF BInv, Shape
<1>8. (\A r \in Rows : RowInv(r)') /\ Counts'
  <2>1. \A r \in Rows : Apart(r)
    BY <1>1, <1>5, BlankRows, ActorsKept DEF Shifted
  <2>2. \A c \in Campaigns : SameCounters(c)
    BY <1>2, <1>4 DEF SameCounters
  <2>3. Grown
    BY <1>1 DEF Grown
  <2> QED BY <1>7, <2>1, <2>2, <2>3, PeacefulStep
<1>9. Unborn'
  <2>1. \A c \in Campaigns : broadcast'[c].status = "NONE" => c # b /\ broadcast[c].status = "NONE"
    BY <1>2, <1>4
  <2>2. \A r \in Rows : broadcast'[r[1]].status = "NONE" => row'[r] = row[r]
    BY <1>5, <2>1, RowParts
  <2> QED BY <1>1, <2>1, <2>2, UnbornKept DEF BInv
<1>10. Resent'
  <2>1. resendOf[b] = b
    BY <1>1 DEF BInv, Unborn
  <2>2. \A r \in Rows : /\ row'[r].status # "NONE" => row[r].status # "NONE" \/ resendOf[r[1]] = r[1]
                        /\ row[r].status = "FAILED" => row'[r] = row[r]
    BY <1>5, <2>1, BlankRows
  <2> QED BY <1>1, <2>2, ResentKept DEF BInv
<1> QED BY <1>7, <1>8, <1>9, <1>10 DEF BInv

LEMMA ResendStep ==
  ASSUME BInv, NEW b \in Campaigns, NEW b2 \in Campaigns, resendFailed(b, b2)
  PROVE  BInv'
<1>1. /\ broadcast[b].status # "NONE" /\ broadcast[b2].status = "NONE"
      /\ broadcast[b2] \in BroadcastType
      /\ broadcast' = [broadcast EXCEPT ![b2] = [broadcast[b2] EXCEPT !.status = "SENDING"]]
      /\ row' = [r \in Rows |-> IF r[1] = b2 /\ r[2] \in Resendable(b) THEN Queued ELSE row[r]]
      /\ resendOf' = [resendOf EXCEPT ![b2] = b]
      /\ UNCHANGED <<worker, cancelling, reporter, billed, fate, mishaps, unrecorded, early, miscounted, cut>>
  BY DEF resendFailed, provider, ghosts, BInv, Shape
<1> DEFINE x == [broadcast[b2] EXCEPT !.status = "SENDING"]
<1>2. /\ x \in BroadcastType /\ x.status = "SENDING" /\ x.sent = broadcast[b2].sent
      /\ x.delivered = broadcast[b2].delivered /\ x.read = broadcast[b2].read
      /\ x.failed = broadcast[b2].failed
  BY <1>1, WithStatusOf DEF CampaignStatuses
<1>3. broadcast' = [broadcast EXCEPT ![b2] = x]
  BY <1>1
<1> HIDE DEF x
<1>4. /\ broadcast' \in [Campaigns -> BroadcastType] /\ broadcast'[b2] = x
      /\ \A c \in Campaigns \ {b2} : broadcast'[c] = broadcast[c]
  BY <1>2, <1>3, BroadcastTo DEF BInv
<1>5. \A r \in Rows : \/ r[1] = b2 /\ r[2] \in Resendable(b) /\ row[r] = NotSent /\ row'[r] = Queued
                      \/ row'[r] = row[r]
  BY <1>1, RowParts DEF BInv, Unborn
<1>6. row' \in [Rows -> RowType] /\ resendOf' \in [Campaigns -> Campaigns]
      /\ \A c \in Campaigns : resendOf'[c] = IF c = b2 THEN b ELSE resendOf[c]
  BY <1>1, BlankRows DEF BInv, Shape
<1>7. Shape'
  BY <1>1, <1>4, <1>6 DEF BInv, Shape
<1>8. (\A r \in Rows : RowInv(r)') /\ Counts'
  <2>1. \A r \in Rows : Apart(r)
    BY <1>1, <1>5, BlankRows, ActorsKept DEF Shifted
  <2>2. \A c \in Campaigns : SameCounters(c)
    BY <1>2, <1>4 DEF SameCounters
  <2>3. Grown
    BY <1>1 DEF Grown
  <2> QED BY <1>7, <2>1, <2>2, <2>3, PeacefulStep
<1>9. Unborn'
  <2>1. \A c \in Campaigns : broadcast'[c].status = "NONE" =>
          c # b2 /\ broadcast[c].status = "NONE" /\ resendOf'[c] = resendOf[c]
    BY <1>2, <1>4, <1>6
  <2>2. \A r \in Rows : broadcast'[r[1]].status = "NONE" => row'[r] = row[r]
    BY <1>5, <2>1, RowParts
  <2> QED BY <2>1, <2>2, UnbornKept DEF BInv
<1>10. Resent'
  <2> SUFFICES ASSUME NEW c \in Campaigns, NEW p \in Phones,
                      resendOf'[c] # c, row'[<<c, p>>].status # "NONE"
               PROVE  LET r == <<resendOf'[c], p>>
                      IN  \/ r \in unrecorded'
                          \/ fate'[r] = "failed"
                          \/ billed'[r] = 0 /\ row'[r].status = "FAILED"
    BY DEF Resent
  <2>1. <<c, p>> \in Rows /\ <<c, p>>[1] = c /\ <<c, p>>[2] = p
    BY RowParts
  <2>2. CASE c = b2
    <3>1. row[<<c, p>>].status = "NONE"
      BY <1>1, <2>2, BlankRows DEF BInv, Unborn
    <3>2. p \in Resendable(b)
      BY <1>5, <2>1, <3>1
    <3> DEFINE r == <<b, p>>
    <3>3. r \in Rows /\ row[r].status = "FAILED" /\ row'[r] = row[r] /\ resendOf'[c] = b
      <4>1. r \in Rows /\ row[r].status = "FAILED" /\ resendOf'[c] = b
        BY <1>6, <2>2, <3>2, RowParts DEF Resendable
      <4> QED BY <1>5, <4>1, BlankRows
    <3>4. r \in unrecorded \/ billed[r] = 0 \/ fate[r] = "failed"
      BY <3>3 DEF BInv, RowInv, Bills
    <3> QED BY <1>1, <3>3, <3>4
  <2>3. CASE c # b2
    <3> DEFINE r == <<resendOf[c], p>>
    <3>1. resendOf'[c] = resendOf[c] /\ r \in Rows /\ row'[<<c, p>>] = row[<<c, p>>]
      BY <1>5, <1>6, <2>1, <2>3, RowParts DEF BInv, Shape
    <3>2. r \in unrecorded \/ fate[r] = "failed" \/ (billed[r] = 0 /\ row[r].status = "FAILED")
      BY <3>1 DEF BInv, Resent
    <3>3. row[r].status = "FAILED" => row'[r] = row[r]
      BY <1>5, <3>1, BlankRows
    <3> QED BY <1>1, <3>1, <3>2, <3>3
  <2> QED BY <2>2, <2>3
<1> QED BY <1>7, <1>8, <1>9, <1>10 DEF BInv

LEMMA CancelReadStep ==
  ASSUME BInv, NEW b \in Campaigns, cancelRead(b)
  PROVE  BInv'
<1>1. /\ cancelling' = cancelling \cup {b}
      /\ UNCHANGED <<broadcast, row, worker, reporter, billed, fate, resendOf, mishaps, unrecorded, early,
                     miscounted, cut>>
  BY DEF cancelRead, provider, ghosts
<1>2. Shape'
  BY <1>1 DEF BInv, Shape
<1>3. (\A r \in Rows : Apart(r)) /\ (\A c \in Campaigns : SameCounters(c)) /\ Grown
  BY <1>1, ActorsKept DEF SameCounters, Grown
<1>4. Unborn' /\ Resent'
  BY <1>1 DEF BInv, Unborn, Resent
<1> QED BY <1>2, <1>3, <1>4, PeacefulStep DEF BInv

LEMMA CancelStep ==
  ASSUME BInv, NEW b \in Campaigns, cancel(b)
  PROVE  BInv'
<1>1. /\ broadcast[b] \in BroadcastType
      /\ broadcast' = [broadcast EXCEPT ![b] = [broadcast[b] EXCEPT !.status = "CANCELLED"]]
      /\ row' = [r \in Rows |-> IF r \in RowsOf(b) \cap WithStatus({"QUEUED"})
                                THEN [row[r] EXCEPT !.status = "SKIPPED"] ELSE row[r]]
      /\ cancelling' = cancelling \ {b}
      /\ UNCHANGED <<worker, reporter, billed, fate, resendOf, mishaps, unrecorded, early, miscounted, cut>>
  BY DEF cancel, Skippable, provider, ghosts, BInv, Shape
<1> DEFINE x == [broadcast[b] EXCEPT !.status = "CANCELLED"]
<1>2. /\ x \in BroadcastType /\ x.status = "CANCELLED" /\ x.sent = broadcast[b].sent
      /\ x.delivered = broadcast[b].delivered /\ x.read = broadcast[b].read
      /\ x.failed = broadcast[b].failed
  BY <1>1, WithStatusOf DEF CampaignStatuses
<1>3. broadcast' = [broadcast EXCEPT ![b] = x]
  BY <1>1
<1> HIDE DEF x
<1>4. /\ broadcast' \in [Campaigns -> BroadcastType] /\ broadcast'[b] = x
      /\ \A c \in Campaigns \ {b} : broadcast'[c] = broadcast[c]
  BY <1>2, <1>3, BroadcastTo DEF BInv
<1>5. \A r \in Rows :
        /\ row'[r] \in RowType
        /\ row'[r].deliveredAt = row[r].deliveredAt /\ row'[r].readAt = row[r].readAt
        /\ row'[r] = row[r] \/ (row[r].status = "QUEUED" /\ row'[r].status = "SKIPPED")
  <2> TAKE r \in Rows
  <2> DEFINE y == [row[r] EXCEPT !.status = "SKIPPED"]
  <2>1. row[r] \in RowType
    BY DEF BInv, Shape
  <2>2. /\ y \in RowType /\ y.status = "SKIPPED"
        /\ y.deliveredAt = row[r].deliveredAt /\ y.readAt = row[r].readAt
    BY <2>1, WithRowStatus DEF RowStatuses
  <2>3. row'[r] = row[r] \/ (row[r].status = "QUEUED" /\ row'[r] = y)
    BY <1>1 DEF WithStatus
  <2> HIDE DEF y
  <2> QED BY <2>1, <2>2, <2>3
<1>6. row' \in [Rows -> RowType]
  BY <1>1, <1>5
<1>7. Shape'
  BY <1>1, <1>4, <1>6 DEF BInv, Shape
<1>8. (\A r \in Rows : RowInv(r)') /\ Counts'
  <2>1. \A r \in Rows : Apart(r)
    BY <1>1, <1>5, ActorsKept DEF Shifted
  <2>2. \A c \in Campaigns : SameCounters(c)
    BY <1>2, <1>4 DEF SameCounters
  <2>3. Grown
    BY <1>1 DEF Grown
  <2> QED BY <1>7, <2>1, <2>2, <2>3, PeacefulStep
<1>9. Unborn'
  <2>1. \A c \in Campaigns : broadcast'[c].status = "NONE" => broadcast[c].status = "NONE"
    BY <1>2, <1>4
  <2>2. \A r \in Rows : row[r].status = "NONE" => row'[r] = row[r]
    BY <1>5
  <2> QED BY <1>1, <2>1, <2>2, UnbornKept DEF BInv
<1>10. Resent'
  <2>1. \A r \in Rows : /\ row'[r].status # "NONE" => row[r].status # "NONE"
                        /\ row[r].status = "FAILED" => row'[r].status = "FAILED"
    BY <1>5
  <2> QED BY <1>1, <2>1, ResentKept DEF BInv
<1> QED BY <1>7, <1>8, <1>9, <1>10 DEF BInv

-----------------------------------------------------------------------------
(* The drain.  One that is at no row, and goes to none, disturbs none.       *)
LEMMA ElsewhereKept ==
  ASSUME NEW w \in Workers, worker[w].pc \in Elsewhere, worker'[w].pc \in Elsewhere,
         \A v \in Workers \ {w} : worker'[v] = worker[v],
         UNCHANGED <<reporter, billed, fate>>, NEW q \in Rows, row'[q] = row[q] \/ Shifted(q)
  PROVE  Apart(q)
<1>1. \A v \in Workers : (AtRow(v, q)' <=> AtRow(v, q)) /\ (AtRow(v, q) => worker'[v].pc = worker[v].pc)
  BY DEF AtRow
<1> QED BY <1>1 DEF Apart, OnRow

LEMMA DrainStarts ==
  ASSUME BInv, NEW w \in Workers, NEW due \in SUBSET {b \in Campaigns : broadcast[b].status # "NONE"},
         drain(w, due)
  PROVE  BInv'
<1> DEFINE found == {r \in Rows : /\ r[1] \in due \cup {b \in Campaigns : broadcast[b].status = "SENDING"}
                                  /\ Requeued(r).status = "QUEUED"}
           x == [pc |-> "loop", todo |-> found, touched |-> {r[1] : r \in found}, row |-> NoRow]
<1>1. /\ worker[w].pc = "idle"
      /\ broadcast' = [b \in Campaigns |-> IF b \in due THEN [broadcast[b] EXCEPT !.status = "SENDING"]
                                           ELSE broadcast[b]]
      /\ row' = [r \in Rows |-> Requeued(r)]
      /\ worker' = worker \/ worker' = [worker EXCEPT ![w] = x]
      /\ UNCHANGED <<cancelling, reporter, billed, fate, resendOf, mishaps, unrecorded, early, miscounted, cut>>
  BY DEF drain, provider, ghosts
<1>2. x \in WorkerType /\ x.pc = "loop"
  <2>1. found \in SUBSET Rows /\ {r[1] : r \in found} \in SUBSET Campaigns
    BY RowParts
  <2> HIDE DEF found
  <2> QED BY <2>1 DEF WorkerType
<1> HIDE DEF x
<1>3. /\ worker' \in [Workers -> WorkerType] /\ worker'[w].pc \in Elsewhere
      /\ \A v \in Workers \ {w} : worker'[v] = worker[v]
      /\ \A v \in Workers : worker'[v].pc \notin Elsewhere => worker'[v].row \in Rows
  <2>1. CASE worker' = worker
    BY <1>1, <2>1 DEF BInv, Shape, Elsewhere
  <2>2. CASE worker' = [worker EXCEPT ![w] = x]
    <3>1. x.pc \in Elsewhere
      BY <1>2 DEF Elsewhere
    <3> QED BY <1>2, <2>2, <3>1, WorkerTo DEF BInv
  <2> QED BY <1>1, <2>1, <2>2
<1>4. \A b \in Campaigns :
        /\ broadcast'[b] \in BroadcastType
        /\ SameCounters(b)
        /\ broadcast'[b].status = "NONE" => broadcast[b].status = "NONE"
  <2> TAKE b \in Campaigns
  <2> DEFINE y == [broadcast[b] EXCEPT !.status = "SENDING"]
  <2>1. broadcast[b] \in BroadcastType
    BY DEF BInv, Shape
  <2>2. /\ y \in BroadcastType /\ y.status = "SENDING" /\ y.sent = broadcast[b].sent
        /\ y.delivered = broadcast[b].delivered /\ y.read = broadcast[b].read
        /\ y.failed = broadcast[b].failed
    BY <2>1, WithStatusOf DEF CampaignStatuses
  <2>3. broadcast'[b] = y \/ broadcast'[b] = broadcast[b]
    BY <1>1
  <2> HIDE DEF y
  <2> QED BY <2>1, <2>2, <2>3 DEF SameCounters
<1>5. \A r \in Rows :
        /\ row'[r] \in RowType
        /\ \/ row'[r] = row[r]
           \/ Shifted(r) /\ row[r].status = "SENDING" /\ row'[r].status = "QUEUED"
  <2> TAKE r \in Rows
  <2> DEFINE y == [row[r] EXCEPT !.status = "QUEUED"]
  <2>1. row[r] \in RowType
    BY DEF BInv, Shape
  <2>2. /\ y \in RowType /\ y.status = "QUEUED"
        /\ y.deliveredAt = row[r].deliveredAt /\ y.readAt = row[r].readAt
    BY <2>1, WithRowStatus DEF RowStatuses
  <2>3. row'[r] = row[r] \/ (Stranded(r) /\ row'[r] = y)
    BY <1>1 DEF Requeued
  <2>4. Stranded(r) => row[r].status = "SENDING" /\ \A v \in Workers : ~AtRow(v, r)
    BY DEF Stranded, AtWork, AtRow, Elsewhere
  <2> HIDE DEF y
  <2> QED BY <2>1, <2>2, <2>3, <2>4 DEF Shifted
<1>6. row' \in [Rows -> RowType] /\ broadcast' \in [Campaigns -> BroadcastType]
  BY <1>1, <1>4, <1>5
<1>7. Shape'
  BY <1>1, <1>3, <1>6 DEF BInv, Shape
<1>8. (\A r \in Rows : RowInv(r)') /\ Counts'
  <2>1. \A r \in Rows : Apart(r)
    BY <1>1, <1>3, <1>5, ElsewhereKept DEF Elsewhere
  <2>2. Grown
    BY <1>1 DEF Grown
  <2> QED BY <1>4, <1>7, <2>1, <2>2, PeacefulStep
<1>9. \A r \in Rows : /\ row[r].status = "NONE" => row'[r] = row[r]
                      /\ row'[r].status # "NONE" => row[r].status # "NONE"
                      /\ row[r].status = "FAILED" => row'[r] = row[r]
  BY <1>5
<1>10. Unborn'
  BY <1>1, <1>4, <1>9, UnbornKept DEF BInv
<1>11. Resent'
  BY <1>1, <1>9, ResentKept DEF BInv
<1> QED BY <1>7, <1>8, <1>10, <1>11 DEF BInv

(* Steps that only move a drain that is at no row.                           *)
LEMMA IdleStep ==
  ASSUME BInv, NEW w \in Workers, worker[w].pc \in Elsewhere, NEW x \in WorkerType,
         x.pc \in Elsewhere, worker' = [worker EXCEPT ![w] = x],
         UNCHANGED <<row, cancelling, reporter, billed, fate, resendOf, unrecorded, early, miscounted>>,
         mishaps' \in 0..MaxMishaps, cut' \subseteq Campaigns,
         broadcast' \in [Campaigns -> BroadcastType],
         \A b \in Campaigns : SameCounters(b) /\ (broadcast'[b].status = "NONE" => broadcast[b].status = "NONE")
  PROVE  BInv'
<1>1. /\ worker' \in [Workers -> WorkerType] /\ worker'[w] = x
      /\ \A v \in Workers \ {w} : worker'[v] = worker[v]
      /\ \A v \in Workers : worker'[v].pc \notin Elsewhere => worker'[v].row \in Rows
  BY WorkerTo DEF BInv
<1>2. Shape'
  BY <1>1 DEF BInv, Shape
<1>3. (\A r \in Rows : Apart(r)) /\ Grown
  BY <1>1, ElsewhereKept DEF Grown
<1>4. (\A r \in Rows : RowInv(r)') /\ Counts'
  BY <1>2, <1>3, PeacefulStep
<1>5. Unborn'
  BY UnbornKept DEF BInv
<1>6. Resent'
  BY ResentKept DEF BInv
<1> QED BY <1>2, <1>4, <1>5, <1>6 DEF BInv

LEMMA FinalizeStep ==
  ASSUME BInv, NEW w \in Workers, NEW b \in Campaigns, finalizeBroadcastIfDone(w, b)
  PROVE  BInv'
<1> DEFINE x == IF worker[w].touched \ {b} = {} THEN IdleWorker
                ELSE [worker[w] EXCEPT !.touched = worker[w].touched \ {b}]
           s == IF Drained(b) /\ broadcast[b].status = "SENDING" THEN "SENT" ELSE broadcast[b].status
           y == [broadcast[b] EXCEPT !.status = s]
<1>1. /\ worker[w].pc = "loop" /\ worker[w] \in WorkerType /\ broadcast[b] \in BroadcastType
      /\ broadcast' = [broadcast EXCEPT ![b] = y] /\ worker' = [worker EXCEPT ![w] = x]
      /\ UNCHANGED <<row, cancelling, reporter, billed, fate, resendOf, mishaps, unrecorded, early,
                     miscounted, cut>>
  BY DEF finalizeBroadcastIfDone, provider, ghosts, BInv, Shape
<1>2. x \in WorkerType /\ x.pc \in Elsewhere
  BY <1>1, BlankWorker DEF WorkerType, Elsewhere
<1>3. /\ s \in CampaignStatuses
      /\ s = "NONE" => broadcast[b].status = "NONE"
  BY <1>1 DEF BroadcastType, CampaignStatuses
<1> HIDE DEF s
<1>4. /\ y \in BroadcastType /\ y.sent = broadcast[b].sent
      /\ y.delivered = broadcast[b].delivered /\ y.read = broadcast[b].read
      /\ y.failed = broadcast[b].failed
      /\ y.status = "NONE" => broadcast[b].status = "NONE"
  BY <1>1, <1>3, WithStatusOf
<1> HIDE DEF x, y
<1>5. /\ broadcast' \in [Campaigns -> BroadcastType] /\ broadcast'[b] = y
      /\ \A c \in Campaigns \ {b} : broadcast'[c] = broadcast[c]
  BY <1>1, <1>4, BroadcastTo DEF BInv
<1>6. mishaps' \in 0..MaxMishaps /\ cut' \subseteq Campaigns
  BY <1>1 DEF BInv, Shape
<1>7. \A c \in Campaigns : SameCounters(c) /\ (broadcast'[c].status = "NONE" => broadcast[c].status = "NONE")
  BY <1>4, <1>5 DEF SameCounters
<1>8. worker[w].pc \in Elsewhere
  BY <1>1 DEF Elsewhere
<1> QED BY <1>1, <1>2, <1>5, <1>6, <1>7, <1>8, IdleStep

-----------------------------------------------------------------------------
(* A drain comes to a row, or does something there, or leaves it: the other  *)
(* rows are left alone, and nobody else is at this one.                      *)
Moved(w, r, x) ==
  /\ worker' \in [Workers -> WorkerType]
  /\ \A v \in Workers : worker'[v].pc \notin Elsewhere => worker'[v].row \in Rows
  /\ \A q \in Rows \ {r} : Apart(q)
  /\ \A v \in Workers : AtRow(v, r) => v = w
  /\ \A v \in Workers : AtRow(v, r)' <=> v = w /\ x.pc \notin Elsewhere
  /\ \A v \in Workers : /\ WorkerAt(v, "sent", r)' <=> v = w /\ x.pc = "sent"
                        /\ WorkerAt(v, "countSent", r)' <=> v = w /\ x.pc = "countSent"
                        /\ WorkerAt(v, "countFailed", r)' <=> v = w /\ x.pc = "countFailed"
  /\ \A v \in Workers : /\ WorkerAt(v, "sent", r) <=> v = w /\ worker[w].pc = "sent"
                        /\ WorkerAt(v, "countSent", r) <=> v = w /\ worker[w].pc = "countSent"
                        /\ WorkerAt(v, "countFailed", r) <=> v = w /\ worker[w].pc = "countFailed"
  /\ worker'[w] = x

LEMMA WorkerStep ==
  ASSUME BInv, NEW w \in Workers, NEW r \in Rows, NEW x \in WorkerType,
         AtRow(w, r) \/ (worker[w].pc \in Elsewhere /\ \A v \in Workers : ~AtRow(v, r)),
         x.pc \in Elsewhere \/ x.row = r,
         worker' = [worker EXCEPT ![w] = x],
         UNCHANGED <<fate, reporter>>,
         \A q \in Rows \ {r} : row'[q] = row[q] /\ billed'[q] = billed[q]
  PROVE  Moved(w, r, x)
<1>1. /\ worker' \in [Workers -> WorkerType] /\ worker'[w] = x
      /\ \A v \in Workers \ {w} : worker'[v] = worker[v]
      /\ \A v \in Workers : worker'[v].pc \notin Elsewhere => worker'[v].row \in Rows
  BY WorkerTo DEF BInv
<1>2. \A v \in Workers : AtRow(v, r) => v = w
  BY DEF BInv, RowInv, Exclusive
<1>3. \A q \in Rows \ {r} : ~AtRow(w, q) /\ ~AtRow(w, q)'
  BY <1>1 DEF AtRow
<1>4. \A q \in Rows \ {r} : Apart(q)
  <2> TAKE q \in Rows \ {r}
  <2>1. \A v \in Workers : (AtRow(v, q)' <=> AtRow(v, q)) /\ (AtRow(v, q) => worker'[v].pc = worker[v].pc)
    <3> TAKE v \in Workers
    <3>1. CASE v = w
      BY <1>3, <3>1
    <3>2. CASE v # w
      BY <1>1, <3>2 DEF AtRow
    <3> QED BY <3>1, <3>2
  <2>2. \A h \in Reporters : /\ OnRow(h, q)' <=> OnRow(h, q)
                             /\ reporter'[h].pc = reporter[h].pc
                             /\ reporter'[h].wasSent = reporter[h].wasSent
    BY DEF OnRow
  <2> QED BY <2>1, <2>2 DEF Apart
<1>5. \A v \in Workers : AtRow(v, r)' <=> v = w /\ x.pc \notin Elsewhere
  BY <1>1, <1>2 DEF AtRow
<1>6. \A v \in Workers : /\ WorkerAt(v, "sent", r)' <=> v = w /\ x.pc = "sent"
                         /\ WorkerAt(v, "countSent", r)' <=> v = w /\ x.pc = "countSent"
                         /\ WorkerAt(v, "countFailed", r)' <=> v = w /\ x.pc = "countFailed"
  BY <1>1, <1>5 DEF AtRow, WorkerAt, Elsewhere
<1>7. \A v \in Workers : /\ WorkerAt(v, "sent", r) <=> v = w /\ worker[w].pc = "sent"
                         /\ WorkerAt(v, "countSent", r) <=> v = w /\ worker[w].pc = "countSent"
                         /\ WorkerAt(v, "countFailed", r) <=> v = w /\ worker[w].pc = "countFailed"
  BY <1>2 DEF AtRow, WorkerAt, Elsewhere
<1> QED BY <1>1, <1>2, <1>4, <1>5, <1>6, <1>7 DEF Moved

LEMMA ReportersKept ==
  ASSUME UNCHANGED reporter, NEW r
  PROVE  /\ \A h \in Reporters : /\ OnRow(h, r)' <=> OnRow(h, r)
                                 /\ Failing(h, r)' <=> Failing(h, r)
                                 /\ ReporterAt(h, "countDelivered", r)' <=> ReporterAt(h, "countDelivered", r)
                                 /\ ReporterAt(h, "countRead", r)' <=> ReporterAt(h, "countRead", r)
                                 /\ ReporterAt(h, "countFailed", r)' <=> ReporterAt(h, "countFailed", r)
                                 /\ TakingBack(h, r)' <=> TakingBack(h, r)
         /\ ToTakeBack(r)' <=> ToTakeBack(r)
  BY DEF OnRow, Failing, ReporterAt, TakingBack, ToTakeBack

(* Reports are counted once if a step is not about them.                     *)
LEMMA OnceKept ==
  ASSUME UNCHANGED reporter, Grown, NEW r \in Rows, Once(r),
         row[r].deliveredAt => row'[r].deliveredAt, row[r].readAt => row'[r].readAt,
         row[r].status = "FAILED" => row'[r].status = "FAILED"
  PROVE  Once(r)'
<1>1. /\ \A h \in Reporters : /\ ReporterAt(h, "countDelivered", r)' <=> ReporterAt(h, "countDelivered", r)
                              /\ ReporterAt(h, "countRead", r)' <=> ReporterAt(h, "countRead", r)
                              /\ ReporterAt(h, "countFailed", r)' <=> ReporterAt(h, "countFailed", r)
                              /\ TakingBack(h, r)' <=> TakingBack(h, r)
  BY ReportersKept
<1>2. /\ r \notin unrecorded' => r \notin unrecorded
      /\ r \notin early' => r \notin early
      /\ <<r, "sent">> \notin miscounted' => <<r, "sent">> \notin miscounted
  BY DEF Grown
<1> QED BY <1>1, <1>2 DEF Once

(* What is counted of a row that keeps its delivery and reading.             *)
LEMMA TimesKept ==
  ASSUME UNCHANGED reporter, NEW r \in Rows, r[1] \in Campaigns, broadcast[r[1]] \in BroadcastType,
         row'[r].deliveredAt = row[r].deliveredAt, row'[r].readAt = row[r].readAt,
         broadcast'[r[1]].delivered = broadcast[r[1]].delivered,
         broadcast'[r[1]].read = broadcast[r[1]].read
  PROVE  DeliveredDelta(r) /\ ReadDelta(r)
<1>1. (DeliveryCounted(r)' <=> DeliveryCounted(r)) /\ (ReadingCounted(r)' <=> ReadingCounted(r))
  BY ReportersKept DEF DeliveryCounted, ReadingCounted
<1>2. broadcast[r[1]].delivered \in Nat /\ broadcast[r[1]].read \in Nat
  BY DEF BroadcastType
<1> QED BY <1>1, <1>2 DEF DeliveredDelta, ReadDelta, Bit

(* Nobody reports on a row that was not sent.                                *)
LEMMA Unbilled ==
  ASSUME BInv, NEW r \in Rows, billed[r] = 0
  PROVE  fate[r] = "none" /\ \A h \in Reporters : ~OnRow(h, r) /\ ~Failing(h, r) /\ ~TakingBack(h, r)
                                                  /\ ~ReporterAt(h, "countFailed", r)
<1>1. fate[r] = "none"
  BY DEF BInv, RowInv, Fates
<1>2. \A h \in Reporters : ~OnRow(h, r)
  BY <1>1 DEF BInv, RowInv, Fates
<1> QED BY <1>1, <1>2 DEF OnRow, Failing, TakingBack, ReporterAt

LEMMA ClaimStep ==
  ASSUME BInv, NEW w \in Workers, NEW r \in Rows, claim(w, r)
  PROVE  BInv'
<1>1. /\ worker[w].pc = "loop" /\ worker[w] \in WorkerType /\ row[r] \in RowType
      /\ worker' = [worker EXCEPT ![w] = [worker[w] EXCEPT
           !.todo = worker[w].todo \ {r}, !.row = IF Claimable(r) THEN r ELSE NoRow,
           !.pc = IF Claimable(r) THEN "send" ELSE "loop"]]
      /\ row' = [row EXCEPT ![r] = [row[r] EXCEPT !.status = IF Claimable(r) THEN "SENDING"
                                                               ELSE row[r].status]]
      /\ UNCHANGED <<broadcast, cancelling, reporter, billed, fate, resendOf, mishaps, unrecorded, early,
                     miscounted, cut>>
  BY DEF claim, provider, ghosts, BInv, Shape
<1>2. mishaps' \in 0..MaxMishaps /\ cut' \subseteq Campaigns /\ broadcast' \in [Campaigns -> BroadcastType]
  BY <1>1 DEF BInv, Shape
<1>3. CASE ~Claimable(r)
  <2> DEFINE x == [worker[w] EXCEPT !.todo = worker[w].todo \ {r}, !.row = NoRow, !.pc = "loop"]
  <2>1. x \in WorkerType /\ x.pc \in Elsewhere /\ worker[w].pc \in Elsewhere
    BY <1>1 DEF WorkerType, Elsewhere
  <2>2. worker' = [worker EXCEPT ![w] = x]
    BY <1>1, <1>3
  <2> HIDE DEF x
  <2>3. row' = row
    <3>1. [row[r] EXCEPT !.status = row[r].status] = row[r]
      BY <1>1 DEF RowType
    <3> QED BY <1>1, <1>3, <3>1 DEF BInv, Shape
  <2>4. \A b \in Campaigns : SameCounters(b) /\ (broadcast'[b].status = "NONE" => broadcast[b].status = "NONE")
    BY <1>1 DEF SameCounters
  <2> QED BY <1>1, <1>2, <2>1, <2>2, <2>3, <2>4, IdleStep
<1>4. CASE Claimable(r)
  <2> DEFINE x == [worker[w] EXCEPT !.todo = worker[w].todo \ {r}, !.row = r, !.pc = "send"]
             y == [row[r] EXCEPT !.status = "SENDING"]
  <2>1. x \in WorkerType /\ x.pc = "send" /\ x.row = r
    BY <1>1 DEF WorkerType
  <2>2. /\ y \in RowType /\ y.status = "SENDING"
        /\ y.deliveredAt = row[r].deliveredAt /\ y.readAt = row[r].readAt
    BY <1>1, WithRowStatus DEF RowStatuses
  <2>3. worker' = [worker EXCEPT ![w] = x] /\ row' = [row EXCEPT ![r] = y]
    BY <1>1, <1>4
  <2> HIDE DEF x, y
  <2>4. row' \in [Rows -> RowType] /\ row'[r] = y /\ \A q \in Rows \ {r} : row'[q] = row[q]
    BY <2>2, <2>3, RowTo DEF BInv
  <2>5. row[r].status = "QUEUED" /\ \A v \in Workers : ~AtRow(v, r)
    <3>1. row[r].status = "QUEUED"
      BY <1>4 DEF Claimable
    <3> QED BY <3>1 DEF BInv, RowInv, Exclusive
  <2>6. /\ worker' \in [Workers -> WorkerType]
        /\ \A v \in Workers : worker'[v].pc \notin Elsewhere => worker'[v].row \in Rows
        /\ \A q \in Rows \ {r} : Apart(q)
        /\ \A v \in Workers : AtRow(v, r)' <=> v = w
        /\ \A v \in Workers : ~WorkerAt(v, "sent", r)' /\ ~WorkerAt(v, "countSent", r)'
                              /\ ~WorkerAt(v, "countFailed", r)'
        /\ \A v \in Workers : ~WorkerAt(v, "sent", r) /\ ~WorkerAt(v, "countSent", r)
                              /\ ~WorkerAt(v, "countFailed", r)
        /\ worker'[w].pc = "send"
    <3>1. worker[w].pc \in Elsewhere /\ x.pc \notin Elsewhere
      BY <1>1, <2>1 DEF Elsewhere
    <3>2. Moved(w, r, x)
      BY <1>1, <2>1, <2>3, <2>4, <2>5, <3>1, WorkerStep
    <3> QED BY <1>1, <2>1, <3>1, <3>2 DEF Moved
  <2>7. Shape' /\ Grown
    BY <1>1, <2>4, <2>6 DEF BInv, Shape, Grown
  <2>8. row'[r].status = "SENDING" /\ row'[r].deliveredAt = row[r].deliveredAt /\ row'[r].readAt = row[r].readAt
    BY <2>2, <2>4
  <2>9. Exclusive(r)'
    BY <2>6, <2>8 DEF Exclusive
  <2>10. Fates(r)'
    BY <1>1, <2>5, <2>8, ReportersKept DEF BInv, RowInv, Fates
  <2>11. Bills(r)'
    BY <1>1, <2>5, <2>6, <2>8 DEF BInv, RowInv, Bills
  <2>12. Notes(r)'
    BY <1>1, <2>6, ReportersKept DEF BInv, RowInv, Notes
  <2>13. Once(r)'
    BY <1>1, <2>5, <2>7, <2>8, OnceKept DEF BInv, RowInv
  <2>14. Deltas(r)
    <3>1. r[1] \in Campaigns /\ broadcast[r[1]] \in BroadcastType /\ broadcast'[r[1]] = broadcast[r[1]]
      BY <1>1, RowParts DEF BInv, Shape
    <3>2. DeliveredDelta(r) /\ ReadDelta(r)
      BY <1>1, <2>8, <3>1, TimesKept
    <3>3. /\ ToCount(r)' <=> ToCount(r)
          /\ Sent(r)' <=> Sent(r)
          /\ Reached(r)' <=> Reached(r)
          /\ FailureCounted(r)' <=> FailureCounted(r)
      BY <1>1, <2>5, <2>6, <2>8, ReportersKept DEF ToCount, Sent, Reached, FailureCounted
    <3>4. broadcast[r[1]].sent \in Int /\ broadcast[r[1]].failed \in Nat
      BY <3>1 DEF BroadcastType
    <3> QED BY <3>1, <3>2, <3>3, <3>4 DEF Deltas, SentDelta, ReachedDelta, FailedDelta, Bit
  <2>15. /\ \A b \in Campaigns : SameCounters(b) /\ broadcast'[b].status = broadcast[b].status
         /\ row[r].status # "NONE" /\ (billed[r] = 0 => row[r].status # "FAILED")
    BY <1>1, <2>5 DEF SameCounters
  <2>16. RowInv(r)'
    BY <2>9, <2>10, <2>11, <2>12, <2>13 DEF RowInv
  <2> QED BY <1>1, <2>4, <2>5, <2>6, <2>7, <2>14, <2>15, <2>16, FocusStep
<1> QED BY <1>3, <1>4

(* The provider's answer, given, lost or late.                               *)
LEMMA SentStep ==
  ASSUME BInv, NEW w \in Workers, NEW r \in Rows, WorkerAt(w, "send", r), NEW pc \in {"sent", "refused"},
         worker' = [worker EXCEPT ![w] = [worker[w] EXCEPT !.pc = pc]],
         UNCHANGED <<broadcast, row, cancelling, reporter, fate, resendOf, early, miscounted, cut>>,
         mishaps' \in 0..MaxMishaps,
         \/ UNCHANGED <<billed, unrecorded>> /\ pc = "refused"
         \/ /\ billed' = [billed EXCEPT ![r] = billed[r] + 1]
            /\ \/ pc = "sent" /\ unrecorded' = unrecorded
               \/ pc = "refused" /\ unrecorded' = unrecorded \cup {r}
  PROVE  BInv'
<1> DEFINE x == [worker[w] EXCEPT !.pc = pc]
<1>1. /\ worker[w] \in WorkerType /\ billed[r] \in Nat
      /\ worker[w].pc = "send" /\ worker[w].row = r /\ worker[w].pc \notin Elsewhere
  BY DEF BInv, Shape, Elsewhere, WorkerAt
<1>2. x \in WorkerType /\ x.pc = pc /\ x.row = r
  BY <1>1 DEF WorkerType
<1>3. worker' = [worker EXCEPT ![w] = x]
  OBVIOUS
<1> HIDE DEF x
<1>4. /\ AtRow(w, r) /\ Grown /\ unrecorded' \subseteq Rows
      /\ billed' \in [Rows -> Nat] /\ \A q \in Rows \ {r} : billed'[q] = billed[q]
      /\ \/ pc = "sent" /\ billed'[r] = billed[r] + 1
         \/ pc = "refused" /\ billed'[r] = billed[r]
         \/ pc = "refused" /\ billed'[r] = billed[r] + 1 /\ r \in unrecorded'
  BY <1>1 DEF AtRow, BInv, Shape, Grown
<1>5. Moved(w, r, x)
  BY <1>1, <1>2, <1>3, <1>4, WorkerStep
<1>6. /\ worker' \in [Workers -> WorkerType] /\ worker'[w].pc = pc
      /\ \A v \in Workers : worker'[v].pc \notin Elsewhere => worker'[v].row \in Rows
      /\ \A q \in Rows \ {r} : Apart(q)
      /\ \A v \in Workers : (AtRow(v, r) <=> v = w) /\ (AtRow(v, r)' <=> v = w)
      /\ \A v \in Workers : /\ WorkerAt(v, "sent", r)' <=> v = w /\ pc = "sent"
                            /\ ~WorkerAt(v, "countSent", r)' /\ ~WorkerAt(v, "countFailed", r)'
                            /\ ~WorkerAt(v, "sent", r)
                            /\ ~WorkerAt(v, "countSent", r) /\ ~WorkerAt(v, "countFailed", r)
  BY <1>1, <1>2, <1>4, <1>5 DEF Moved, Elsewhere
<1>7. Shape'
  BY <1>4, <1>6 DEF BInv, Shape
<1>8. /\ row[r].status \notin {"NONE", "QUEUED", "SKIPPED"}
      /\ r \notin unrecorded => row[r].status = "SENDING" /\ billed[r] = 0
      /\ billed'[r] \in Nat /\ billed'[r] >= billed[r]
  BY <1>1, <1>4 DEF BInv, RowInv, Exclusive, Bills
<1>9. Exclusive(r)'
  BY <1>1, <1>4, <1>6, <1>8 DEF Exclusive
<1>10. Fates(r)'
  <2>1. /\ \A h \in Reporters : OnRow(h, r) => fate[r] # "none" /\ (Failing(h, r) <=> fate[r] = "failed")
        /\ \A h \in Reporters : Failing(h, r) /\ reporter[h].wasSent =>
             row[r].status \in {"SENT", "DELIVERED", "READ", "FAILED"}
    BY <1>1 DEF BInv, RowInv, Fates
  <2>2. /\ fate[r] # "none" => billed'[r] > 0
        /\ row[r].status \in {"DELIVERED", "READ"} => fate[r] = "delivered"
    BY <1>1, <1>8 DEF BInv, RowInv, Fates
  <2> QED BY <1>8, <2>1, <2>2, ReportersKept DEF Fates
<1>11. Bills(r)'
  BY <1>4, <1>6, <1>8 DEF Grown, Bills
<1>12. Notes(r)'
  <2>1. r \notin unrecorded => \A h \in Reporters : ~Failing(h, r)
    BY <1>1, <1>8, Unbilled
  <2>2. r \notin unrecorded' => row'[r].status = "SENDING" /\ \A h \in Reporters : ~Failing(h, r)'
    BY <1>4, <1>8, <2>1, ReportersKept DEF Grown
  <2> QED BY <2>2 DEF Notes
<1>13. Once(r)'
  BY <1>4, OnceKept DEF BInv, RowInv
<1>14. RowInv(r)'
  BY <1>9, <1>10, <1>11, <1>12, <1>13 DEF RowInv
<1>15. Deltas(r)
  <2>1. r[1] \in Campaigns /\ broadcast[r[1]] \in BroadcastType
    BY <1>1, RowParts DEF BInv, Shape
  <2>2. DeliveredDelta(r) /\ ReadDelta(r)
    BY <1>1, <2>1, TimesKept
  <2>3. /\ ToCount(r)' <=> ToCount(r)
        /\ Sent(r)' <=> Sent(r)
        /\ Reached(r)' <=> Reached(r)
        /\ FailureCounted(r)' <=> FailureCounted(r)
    BY <1>6, ReportersKept DEF ToCount, Sent, Reached, FailureCounted
  <2>4. broadcast[r[1]].sent \in Int /\ broadcast[r[1]].failed \in Nat
    BY <2>1 DEF BroadcastType
  <2> QED BY <2>2, <2>3, <2>4 DEF Deltas, SentDelta, ReachedDelta, FailedDelta, Bit
<1>16. /\ \A b \in Campaigns : SameCounters(b) /\ broadcast'[b].status = broadcast[b].status
       /\ billed[r] = 0 /\ row[r].status = "FAILED" => r \in unrecorded'
  BY <1>4, <1>8 DEF SameCounters, Grown
<1> QED BY <1>1, <1>4, <1>6, <1>7, <1>8, <1>14, <1>15, <1>16, FocusStep

LEMMA SendSteps ==
  ASSUME BInv, NEW w \in Workers, sendAccepted(w) \/ sendRefused(w) \/ sendUnanswered(w)
  PROVE  BInv'
<1>1. mishaps \in 0..MaxMishaps /\ MaxMishaps \in Nat /\ worker[w].pc = "send"
  BY BroadcastAssumption DEF BInv, Shape, sendAccepted, sendRefused, sendUnanswered
<1> PICK r \in Rows : WorkerAt(w, "send", r)
  BY <1>1 DEF BInv, Shape, WorkerAt, Elsewhere
<1> worker[w].row = r
  BY DEF WorkerAt
<1>2. CASE sendAccepted(w)
  BY <1>1, <1>2, SentStep DEF sendAccepted, ghosts
<1>3. CASE sendRefused(w)
  BY <1>1, <1>3, SentStep DEF sendRefused, provider, ghosts
<1>4. CASE sendUnanswered(w)
  <2>1. mishaps' \in 0..MaxMishaps
    BY <1>1, <1>4 DEF sendUnanswered, Mishap
  <2> QED BY <1>4, <2>1, SentStep DEF sendUnanswered
<1> QED BY <1>2, <1>3, <1>4

(* What the drain writes of the message: that it was refused, that it was    *)
(* sent, or that it was sent, without learning that this was written.        *)
LEMMA NoteStep ==
  ASSUME BInv, NEW w \in Workers, NEW r \in Rows, WorkerAt(w, worker[w].pc, r),
         NEW pc \in {"countFailed", "countSent", "sent"}, NEW s \in {"FAILED", "SENT"},
         worker' = [worker EXCEPT ![w] = [worker[w] EXCEPT !.pc = pc]],
         row' = [row EXCEPT ![r] = [row[r] EXCEPT !.status = s]],
         UNCHANGED <<broadcast, cancelling, reporter, billed, fate, resendOf, unrecorded, early, cut>>,
         mishaps' \in 0..MaxMishaps, miscounted \subseteq miscounted', miscounted' \subseteq Rows \X Counters,
         \/ worker[w].pc = "refused" /\ pc = "countFailed" /\ s = "FAILED"
         \/ worker[w].pc = "sent" /\ pc = "countSent" /\ s = "SENT"
         \/ worker[w].pc = "sent" /\ pc = "sent" /\ s = "SENT" /\ <<r, "sent">> \in miscounted'
  PROVE  BInv'
<1> DEFINE x == [worker[w] EXCEPT !.pc = pc]
           y == [row[r] EXCEPT !.status = s]
<1>1. /\ worker[w] \in WorkerType /\ row[r] \in RowType /\ worker[w].row = r /\ AtRow(w, r) /\ Grown
      /\ worker[w].pc \in {"refused", "sent"}
  BY DEF BInv, Shape, Elsewhere, AtRow, WorkerAt, Grown
<1>2. /\ x \in WorkerType /\ x.pc = pc /\ x.row = r
      /\ y \in RowType /\ y.status = s
      /\ y.deliveredAt = row[r].deliveredAt /\ y.readAt = row[r].readAt
  <2>1. s \in RowStatuses
    BY DEF RowStatuses
  <2>2. x \in WorkerType /\ x.pc = pc /\ x.row = r
    BY <1>1 DEF WorkerType
  <2> QED BY <1>1, <2>1, <2>2, WithRowStatus
<1>3. worker' = [worker EXCEPT ![w] = x] /\ row' = [row EXCEPT ![r] = y]
  OBVIOUS
<1> HIDE DEF x, y
<1>4. row' \in [Rows -> RowType] /\ row'[r] = y /\ \A q \in Rows \ {r} : row'[q] = row[q]
  BY <1>2, <1>3, RowTo DEF BInv
<1>5. Moved(w, r, x)
  BY <1>1, <1>2, <1>3, <1>4, WorkerStep
<1>6. /\ worker' \in [Workers -> WorkerType] /\ worker'[w].pc = pc
      /\ \A v \in Workers : worker'[v].pc \notin Elsewhere => worker'[v].row \in Rows
      /\ \A q \in Rows \ {r} : Apart(q)
      /\ \A v \in Workers : (AtRow(v, r) <=> v = w) /\ (AtRow(v, r)' <=> v = w)
      /\ \A v \in Workers : /\ WorkerAt(v, "sent", r)' <=> v = w /\ pc = "sent"
                            /\ WorkerAt(v, "countSent", r)' <=> v = w /\ pc = "countSent"
                            /\ WorkerAt(v, "countFailed", r)' <=> v = w /\ pc = "countFailed"
                            /\ WorkerAt(v, "sent", r) <=> v = w /\ worker[w].pc = "sent"
                            /\ ~WorkerAt(v, "countSent", r) /\ ~WorkerAt(v, "countFailed", r)
  BY <1>1, <1>2, <1>5 DEF Moved, Elsewhere
<1>7. Shape'
  BY <1>4, <1>6 DEF BInv, Shape
<1>8. row'[r].status = s /\ row'[r].deliveredAt = row[r].deliveredAt /\ row'[r].readAt = row[r].readAt
  BY <1>2, <1>4
<1>9. /\ row[r].status \notin {"NONE", "QUEUED", "SKIPPED"}
      /\ worker[w].pc = "sent" => billed[r] > 0
      /\ r \notin unrecorded /\ worker[w].pc = "refused" => row[r].status = "SENDING" /\ billed[r] = 0
      /\ r \notin unrecorded /\ worker[w].pc = "sent" =>
           /\ r \notin early => row[r].status \in {"SENDING", "SENT"}
           /\ <<r, "sent">> \notin miscounted => row[r].status # "SENT"
  BY <1>1, <1>6 DEF BInv, RowInv, Exclusive, Bills, Notes
<1>10. r \notin unrecorded =>
         \A h \in Reporters : Failing(h, r) =>
           r \in early /\ (<<r, "sent">> \in miscounted \/ ~reporter[h].wasSent)
  <2>1. CASE worker[w].pc = "refused"
    BY <1>9, <2>1, Unbilled
  <2>2. CASE worker[w].pc = "sent"
    BY <1>6, <2>2 DEF BInv, RowInv, Notes
  <2> QED BY <1>1, <2>1, <2>2
<1>11. Exclusive(r)'
  BY <1>6, <1>8, <1>9 DEF Exclusive
<1>12. Fates(r)'
  BY <1>8, <1>9, ReportersKept DEF BInv, RowInv, Fates
<1>13. Bills(r)'
  <2>1. billed[r] \in Nat
    BY DEF BInv, Shape
  <2> QED BY <1>6, <1>8, <1>9, <2>1 DEF BInv, RowInv, Bills
<1>14. Notes(r)'
  <2>1. \A h \in Reporters : Failing(h, r)' <=> Failing(h, r)
    BY ReportersKept
  <2> QED BY <1>1, <1>6, <1>8, <1>10, <2>1 DEF Notes, Grown
<1>15. r \notin unrecorded =>
         /\ <<r, "sent">> \notin miscounted' => ~ToTakeBack(r)
         /\ r \notin early => \A h \in Reporters : ~ReporterAt(h, "countFailed", r)
  BY <1>1, <1>10 DEF ToTakeBack, TakingBack, ReporterAt, Failing, Grown
<1>16. Once(r)'
  <2>1. \A h \in Reporters : /\ ReporterAt(h, "countDelivered", r)' <=> ReporterAt(h, "countDelivered", r)
                             /\ ReporterAt(h, "countRead", r)' <=> ReporterAt(h, "countRead", r)
                             /\ ReporterAt(h, "countFailed", r)' <=> ReporterAt(h, "countFailed", r)
                             /\ TakingBack(h, r)' <=> TakingBack(h, r)
    BY ReportersKept
  <2> QED BY <1>8, <1>15, <2>1 DEF BInv, RowInv, Once, ToTakeBack
<1>17. RowInv(r)'
  BY <1>11, <1>12, <1>13, <1>14, <1>16 DEF RowInv
<1>18. Deltas(r)
  <2>1. r[1] \in Campaigns /\ broadcast[r[1]] \in BroadcastType
    BY <1>1, RowParts DEF BInv, Shape
  <2>2. DeliveredDelta(r) /\ ReadDelta(r)
    BY <1>8, <2>1, TimesKept
  <2>3. broadcast[r[1]].sent \in Int /\ broadcast[r[1]].failed \in Nat
    BY <2>1 DEF BroadcastType
  <2>4. r \notin unrecorded /\ <<r, "sent">> \notin miscounted' =>
          /\ ~ToCount(r) /\ (ToCount(r)' <=> pc = "countSent")
          /\ ~Sent(r) /\ (Sent(r)' <=> pc = "countSent")
          /\ r \notin early => ~Reached(r) /\ (Reached(r)' <=> pc = "countSent")
    <3>1. (ToTakeBack(r)' <=> ToTakeBack(r)) /\ (<<r, "sent">> \in miscounted => <<r, "sent">> \in miscounted')
      BY <1>1, ReportersKept DEF Grown
    <3> QED BY <1>6, <1>8, <1>9, <1>15, <3>1 DEF ToCount, Sent, Reached
  <2>5. r \notin early \cup unrecorded => ~FailureCounted(r) /\ ~FailureCounted(r)'
    BY <1>6, <1>8, <1>9 DEF FailureCounted
  <2> QED BY <2>2, <2>3, <2>4, <2>5 DEF Deltas, SentDelta, ReachedDelta, FailedDelta, Bit
<1>19. /\ \A b \in Campaigns : SameCounters(b) /\ broadcast'[b].status = broadcast[b].status
       /\ billed[r] = 0 /\ row[r].status = "FAILED" => r \in unrecorded'
  <2>1. r \notin unrecorded /\ billed[r] = 0 => row[r].status = "SENDING"
    <3>1. billed[r] = 0 => worker[w].pc = "refused"
      BY <1>1, <1>9
    <3> QED BY <1>9, <3>1
  <2> QED BY <2>1 DEF SameCounters
<1> QED BY <1>1, <1>4, <1>6, <1>7, <1>9, <1>17, <1>18, <1>19, FocusStep

(* A drain is done with a row, having counted what became of it or not.      *)
LEMMA DoneStep ==
  ASSUME BInv, NEW w \in Workers, NEW r \in Rows, AtRow(w, r),
         NEW x \in WorkerType, x.pc \in Elsewhere, worker' = [worker EXCEPT ![w] = x],
         UNCHANGED <<row, cancelling, reporter, billed, fate, resendOf, early>>,
         mishaps' \in 0..MaxMishaps, cut' \subseteq Campaigns, unrecorded' \subseteq Rows,
         miscounted' \subseteq Rows \X Counters, Grown,
         worker[w].pc = "sent" => r \in unrecorded',
         NEW z \in BroadcastType, broadcast' = [broadcast EXCEPT ![r[1]] = z],
         z.status = broadcast[r[1]].status,
         z.delivered = broadcast[r[1]].delivered, z.read = broadcast[r[1]].read,
         \/ z.sent = broadcast[r[1]].sent + Bit(worker[w].pc = "countSent")
         \/ z.sent = broadcast[r[1]].sent /\ <<r, "sent">> \in miscounted',
         \/ z.failed = broadcast[r[1]].failed + Bit(worker[w].pc = "countFailed")
         \/ z.failed = broadcast[r[1]].failed /\ <<r, "failed">> \in miscounted'
  PROVE  BInv'
<1>1. r[1] \in Campaigns /\ broadcast[r[1]] \in BroadcastType
  BY RowParts DEF BInv, Shape
<1>2. /\ broadcast' \in [Campaigns -> BroadcastType] /\ broadcast'[r[1]] = z
      /\ \A c \in Campaigns \ {r[1]} : broadcast'[c] = broadcast[c]
  BY <1>1, BroadcastTo DEF BInv
<1>3. Moved(w, r, x)
  BY WorkerStep
<1>4. /\ worker' \in [Workers -> WorkerType]
      /\ \A v \in Workers : worker'[v].pc \notin Elsewhere => worker'[v].row \in Rows
      /\ \A q \in Rows \ {r} : Apart(q)
      /\ \A v \in Workers : AtRow(v, r) <=> v = w
      /\ \A v \in Workers : /\ ~AtRow(v, r)' /\ ~WorkerAt(v, "sent", r)'
                            /\ ~WorkerAt(v, "countSent", r)' /\ ~WorkerAt(v, "countFailed", r)'
      /\ \A v \in Workers : /\ WorkerAt(v, "sent", r) <=> v = w /\ worker[w].pc = "sent"
                            /\ WorkerAt(v, "countSent", r) <=> v = w /\ worker[w].pc = "countSent"
                            /\ WorkerAt(v, "countFailed", r) <=> v = w /\ worker[w].pc = "countFailed"
  BY <1>3 DEF Moved, Elsewhere
<1>5. Shape'
  BY <1>2, <1>4 DEF BInv, Shape
<1>6. /\ row[r].status # "NONE"
      /\ r \notin unrecorded' => r \notin unrecorded /\ worker[w].pc # "sent"
      /\ r \notin unrecorded /\ worker[w].pc = "countFailed" => billed[r] = 0 /\ row[r].status = "FAILED"
  BY DEF BInv, RowInv, Exclusive, Bills, Grown
<1>7. Exclusive(r)'
  BY <1>4 DEF Exclusive
<1>8. Fates(r)'
  BY ReportersKept DEF BInv, RowInv, Fates
<1>9. Bills(r)'
  BY <1>4, <1>6 DEF BInv, RowInv, Bills
<1>10. Notes(r)'
  BY <1>4, <1>6, ReportersKept DEF BInv, RowInv, Notes
<1>11. Once(r)'
  BY OnceKept DEF BInv, RowInv
<1>12. RowInv(r)'
  BY <1>7, <1>8, <1>9, <1>10, <1>11 DEF RowInv
<1>13. Deltas(r)
  <2>1. DeliveredDelta(r) /\ ReadDelta(r)
    BY <1>1, <1>2, TimesKept
  <2>2. broadcast[r[1]].sent \in Int /\ broadcast[r[1]].failed \in Nat
    BY <1>1 DEF BroadcastType
  <2>3. /\ ~ToCount(r)' /\ (ToCount(r) <=> worker[w].pc = "countSent")
        /\ Sent(r)' <=> Sent(r)
        /\ Reached(r)' <=> Reached(r)
    BY <1>4, ReportersKept DEF ToCount, Sent, Reached
  <2>4. r \notin unrecorded => IF worker[w].pc = "countFailed" THEN FailureCounted(r)' /\ ~FailureCounted(r)
                               ELSE FailureCounted(r)' <=> FailureCounted(r)
    <3>1. \A h \in Reporters : ReporterAt(h, "countFailed", r)' <=> ReporterAt(h, "countFailed", r)
      BY ReportersKept
    <3>2. r \notin unrecorded /\ worker[w].pc = "countFailed" =>
            \A h \in Reporters : ~ReporterAt(h, "countFailed", r)
      BY <1>6, Unbilled
    <3> QED BY <1>4, <1>6, <3>1, <3>2 DEF FailureCounted
  <2>5. SentDelta(r) /\ ReachedDelta(r)
    BY <1>2, <2>2, <2>3 DEF SentDelta, ReachedDelta, Bit
  <2>6. FailedDelta(r)
    BY <1>2, <1>6, <2>2, <2>4 DEF FailedDelta, Bit
  <2> QED BY <2>1, <2>5, <2>6 DEF Deltas
<1>14. /\ \A b \in Campaigns \ {r[1]} : SameCounters(b)
       /\ \A b \in Campaigns : broadcast'[b].status = broadcast[b].status
  BY <1>2 DEF SameCounters
<1> QED BY <1>4, <1>5, <1>6, <1>12, <1>13, <1>14, FocusStep


(* What is left to a drain of the campaign's record.                         *)
LEMMA Counting ==
  ASSUME NEW x \in BroadcastType
  PROVE  /\ \A n \in Int : /\ [x EXCEPT !.sent = n] \in BroadcastType
                           /\ [x EXCEPT !.sent = n].status = x.status
                           /\ [x EXCEPT !.sent = n].sent = n
                           /\ [x EXCEPT !.sent = n].delivered = x.delivered
                           /\ [x EXCEPT !.sent = n].read = x.read
                           /\ [x EXCEPT !.sent = n].failed = x.failed
         /\ \A n \in Nat : /\ [x EXCEPT !.failed = n] \in BroadcastType
                           /\ [x EXCEPT !.failed = n].status = x.status
                           /\ [x EXCEPT !.failed = n].sent = x.sent
                           /\ [x EXCEPT !.failed = n].delivered = x.delivered
                           /\ [x EXCEPT !.failed = n].read = x.read
                           /\ [x EXCEPT !.failed = n].failed = n
         /\ \A n \in Nat : /\ [x EXCEPT !.delivered = n] \in BroadcastType
                           /\ [x EXCEPT !.delivered = n].status = x.status
                           /\ [x EXCEPT !.delivered = n].sent = x.sent
                           /\ [x EXCEPT !.delivered = n].delivered = n
                           /\ [x EXCEPT !.delivered = n].read = x.read
                           /\ [x EXCEPT !.delivered = n].failed = x.failed
         /\ \A n \in Nat : /\ [x EXCEPT !.read = n] \in BroadcastType
                           /\ [x EXCEPT !.read = n].status = x.status
                           /\ [x EXCEPT !.read = n].sent = x.sent
                           /\ [x EXCEPT !.read = n].delivered = x.delivered
                           /\ [x EXCEPT !.read = n].read = n
                           /\ [x EXCEPT !.read = n].failed = x.failed
         /\ x.sent \in Int /\ x.sent + 1 \in Int /\ x.sent - 1 \in Int
         /\ x.delivered \in Nat /\ x.read \in Nat /\ x.failed \in Nat
         /\ x.delivered + 1 \in Nat /\ x.read + 1 \in Nat /\ x.failed + 1 \in Nat
  BY DEF BroadcastType

LEMMA Mishappened ==
  ASSUME BInv, Mishap
  PROVE  mishaps' \in 0..MaxMishaps
  BY BroadcastAssumption DEF BInv, Shape, Mishap

LEMMA RecordSteps ==
  ASSUME BInv, NEW w \in Workers, recordRefused(w) \/ recordSent(w) \/ recordUnanswered(w)
  PROVE  BInv'
<1>1. /\ worker[w].pc \in {"refused", "sent"} /\ worker[w] \in WorkerType /\ row \in [Rows -> RowType]
      /\ mishaps \in 0..MaxMishaps /\ miscounted \subseteq Rows \X Counters
      /\ worker \in [Workers -> WorkerType]
  BY DEF BInv, Shape, recordRefused, recordSent, recordUnanswered
<1> PICK r \in Rows : WorkerAt(w, worker[w].pc, r)
  BY <1>1 DEF BInv, Shape, WorkerAt, Elsewhere
<1>2. worker[w].row = r
  BY DEF WorkerAt
<1>3. CASE recordRefused(w)
  <2>1. /\ worker[w].pc = "refused"
        /\ worker' = [worker EXCEPT ![w] = [worker[w] EXCEPT !.pc = "countFailed"]]
        /\ row' = [row EXCEPT ![r] = [row[r] EXCEPT !.status = "FAILED"]]
        /\ UNCHANGED <<broadcast, cancelling, reporter, billed, fate, resendOf, mishaps, unrecorded, early,
                       miscounted, cut>>
    BY <1>2, <1>3 DEF recordRefused, provider, ghosts
  <2> QED BY <1>1, <2>1, NoteStep
<1>4. CASE recordSent(w)
  <2>1. /\ worker[w].pc = "sent"
        /\ worker' = [worker EXCEPT ![w] = [worker[w] EXCEPT !.pc = "countSent"]]
        /\ row' = [row EXCEPT ![r] = [row[r] EXCEPT !.status = "SENT"]]
        /\ UNCHANGED <<broadcast, cancelling, reporter, billed, fate, resendOf, mishaps, unrecorded, early,
                       miscounted, cut>>
    BY <1>2, <1>4 DEF recordSent, provider, ghosts
  <2> QED BY <1>1, <2>1, NoteStep
<1>5. CASE recordUnanswered(w)
  <2>1. /\ worker[w].pc = "sent"
        /\ row' = [row EXCEPT ![r] = [row[r] EXCEPT !.status = "SENT"]]
        /\ miscounted' = miscounted \cup ({r} \X {"sent"})
        /\ UNCHANGED <<worker, broadcast, cancelling, reporter, billed, fate, resendOf, unrecorded, early, cut>>
    BY <1>2, <1>5 DEF recordUnanswered, Miscount, provider
  <2>2. worker' = [worker EXCEPT ![w] = [worker[w] EXCEPT !.pc = "sent"]]
    <3>1. [worker[w] EXCEPT !.pc = "sent"] = worker[w]
      BY <1>1, <2>1 DEF WorkerType
    <3> QED BY <1>1, <2>1, <3>1
  <2>3. mishaps' \in 0..MaxMishaps
    BY <1>5, Mishappened DEF recordUnanswered
  <2>4. /\ miscounted \subseteq miscounted' /\ miscounted' \subseteq Rows \X Counters
        /\ <<r, "sent">> \in miscounted'
    BY <1>1, <2>1 DEF Counters
  <2> QED BY <2>1, <2>2, <2>3, <2>4, NoteStep
<1> QED BY <1>3, <1>4, <1>5

LEMMA CountSteps ==
  ASSUME BInv, NEW w \in Workers,
         countRefused(w) \/ countSent(w) \/ recordFails(w) \/ countSentFails(w)
  PROVE  BInv'
<1> DEFINE x == [worker[w] EXCEPT !.pc = "loop", !.row = NoRow]
<1>1. /\ worker[w].pc \in {"countFailed", "countSent", "sent"} /\ worker[w] \in WorkerType
      /\ mishaps \in 0..MaxMishaps /\ miscounted \subseteq Rows \X Counters
      /\ unrecorded \subseteq Rows /\ cut \subseteq Campaigns
      /\ worker' = [worker EXCEPT ![w] = x]
      /\ UNCHANGED <<row, cancelling, reporter, billed, fate, resendOf, early, cut>>
  BY DEF BInv, Shape, countRefused, countSent, recordFails, countSentFails, provider, ghosts
<1>2. x \in WorkerType /\ x.pc \in Elsewhere
  BY <1>1 DEF WorkerType, Elsewhere
<1> HIDE DEF x
<1> PICK r \in Rows : WorkerAt(w, worker[w].pc, r)
  BY <1>1 DEF BInv, Shape, WorkerAt, Elsewhere
<1>3. /\ worker[w].row = r /\ AtRow(w, r)
      /\ r[1] \in Campaigns /\ broadcast[r[1]] \in BroadcastType
      /\ broadcast = [broadcast EXCEPT ![r[1]] = broadcast[r[1]]]
  BY <1>1, RowParts DEF WorkerAt, AtRow, Elsewhere, BInv, Shape
<1>4. CASE countRefused(w)
  <2> DEFINE z == [broadcast[r[1]] EXCEPT !.failed = broadcast[r[1]].failed + 1]
  <2>1. /\ worker[w].pc = "countFailed"
        /\ broadcast' = [broadcast EXCEPT ![r[1]] = z]
        /\ UNCHANGED <<mishaps, unrecorded, miscounted>>
    BY <1>3, <1>4 DEF countRefused, ghosts
  <2>2. /\ z \in BroadcastType /\ z.status = broadcast[r[1]].status /\ z.sent = broadcast[r[1]].sent
        /\ z.delivered = broadcast[r[1]].delivered /\ z.read = broadcast[r[1]].read
        /\ z.failed = broadcast[r[1]].failed + 1 /\ broadcast[r[1]].sent \in Int
    BY <1>3, Counting
  <2> HIDE DEF z
  <2>3. /\ z.sent = broadcast[r[1]].sent + Bit(worker[w].pc = "countSent")
        /\ z.failed = broadcast[r[1]].failed + Bit(worker[w].pc = "countFailed")
        /\ Grown
    BY <1>1, <2>1, <2>2 DEF Bit, Grown
  <2> QED BY <1>1, <1>2, <1>3, <2>1, <2>2, <2>3, DoneStep
<1>5. CASE countSent(w)
  <2> DEFINE z == [broadcast[r[1]] EXCEPT !.sent = broadcast[r[1]].sent + 1]
  <2>1. /\ worker[w].pc = "countSent"
        /\ broadcast' = [broadcast EXCEPT ![r[1]] = z]
        /\ UNCHANGED <<mishaps, unrecorded, miscounted>>
    BY <1>3, <1>5 DEF countSent, ghosts
  <2>2. /\ z \in BroadcastType /\ z.status = broadcast[r[1]].status
        /\ z.sent = broadcast[r[1]].sent + 1
        /\ z.delivered = broadcast[r[1]].delivered /\ z.read = broadcast[r[1]].read
        /\ z.failed = broadcast[r[1]].failed /\ broadcast[r[1]].failed \in Nat
    BY <1>3, Counting
  <2> HIDE DEF z
  <2>3. /\ z.sent = broadcast[r[1]].sent + Bit(worker[w].pc = "countSent")
        /\ z.failed = broadcast[r[1]].failed + Bit(worker[w].pc = "countFailed")
        /\ Grown
    BY <1>1, <2>1, <2>2 DEF Bit, Grown
  <2> QED BY <1>1, <1>2, <1>3, <2>1, <2>2, <2>3, DoneStep
<1>6. CASE recordFails(w)
  <2>1. /\ worker[w].pc = "sent" /\ mishaps' \in 0..MaxMishaps
        /\ unrecorded' = unrecorded \cup {r}
        /\ UNCHANGED <<broadcast, miscounted>>
    BY <1>3, <1>6, Mishappened DEF recordFails
  <2>2. /\ broadcast[r[1]].sent = broadcast[r[1]].sent + Bit(worker[w].pc = "countSent")
        /\ broadcast[r[1]].failed = broadcast[r[1]].failed + Bit(worker[w].pc = "countFailed")
        /\ Grown /\ unrecorded' \subseteq Rows
    BY <1>1, <1>3, <2>1, Counting DEF Bit, Grown
  <2> DEFINE z == broadcast[r[1]]
  <2>5. /\ z \in BroadcastType /\ z = broadcast[r[1]] /\ broadcast' = [broadcast EXCEPT ![r[1]] = z]
        /\ z.status = broadcast[r[1]].status /\ z.sent = broadcast[r[1]].sent
        /\ z.delivered = broadcast[r[1]].delivered /\ z.read = broadcast[r[1]].read
        /\ z.failed = broadcast[r[1]].failed
    BY <1>1, <1>3, <2>1
  <2> HIDE DEF z
  <2>6. /\ \/ z.sent = broadcast[r[1]].sent + Bit(worker[w].pc = "countSent")
           \/ z.sent = broadcast[r[1]].sent /\ <<r, "sent">> \in miscounted'
        /\ \/ z.failed = broadcast[r[1]].failed + Bit(worker[w].pc = "countFailed")
           \/ z.failed = broadcast[r[1]].failed /\ <<r, "failed">> \in miscounted'
    BY <2>2, <2>5
  <2>7. /\ mishaps' \in 0..MaxMishaps /\ unrecorded' \subseteq Rows /\ r \in unrecorded' /\ Grown
        /\ miscounted' \subseteq Rows \X Counters
    BY <1>1, <2>1, <2>2
  <2> QED BY <1>1, <1>2, <1>3, <2>5, <2>6, <2>7, DoneStep
<1>7. CASE countSentFails(w)
  <2>1. /\ worker[w].pc = "countSent" /\ mishaps' \in 0..MaxMishaps
        /\ miscounted' = miscounted \cup ({r} \X {"sent"})
        /\ UNCHANGED <<broadcast, unrecorded>>
    BY <1>3, <1>7, Mishappened DEF countSentFails, Miscount
  <2>2. /\ broadcast[r[1]].failed = broadcast[r[1]].failed + Bit(worker[w].pc = "countFailed")
        /\ Grown /\ miscounted' \subseteq Rows \X Counters /\ <<r, "sent">> \in miscounted'
    BY <1>1, <1>3, <2>1, Counting DEF Bit, Grown, Counters
  <2> DEFINE z == broadcast[r[1]]
  <2>5. /\ z \in BroadcastType /\ z = broadcast[r[1]] /\ broadcast' = [broadcast EXCEPT ![r[1]] = z]
        /\ z.status = broadcast[r[1]].status /\ z.sent = broadcast[r[1]].sent
        /\ z.delivered = broadcast[r[1]].delivered /\ z.read = broadcast[r[1]].read
        /\ z.failed = broadcast[r[1]].failed
    BY <1>1, <1>3, <2>1
  <2> HIDE DEF z
  <2>6. /\ \/ z.sent = broadcast[r[1]].sent + Bit(worker[w].pc = "countSent")
           \/ z.sent = broadcast[r[1]].sent /\ <<r, "sent">> \in miscounted'
        /\ \/ z.failed = broadcast[r[1]].failed + Bit(worker[w].pc = "countFailed")
           \/ z.failed = broadcast[r[1]].failed /\ <<r, "failed">> \in miscounted'
    BY <2>2, <2>5
  <2>7. /\ mishaps' \in 0..MaxMishaps /\ unrecorded' \subseteq Rows /\ Grown
        /\ miscounted' \subseteq Rows \X Counters /\ worker[w].pc # "sent"
    BY <1>1, <2>1, <2>2
  <2> QED BY <1>1, <1>2, <1>3, <2>5, <2>6, <2>7, DoneStep
<1> QED BY <1>4, <1>5, <1>6, <1>7

LEMMA DrainDiesStep ==
  ASSUME BInv, NEW w \in Workers, drainDies(w)
  PROVE  BInv'
<1>1. /\ worker[w].pc # "idle" /\ worker[w] \in WorkerType
      /\ mishaps' \in 0..MaxMishaps /\ cut' \subseteq Campaigns
      /\ worker' = [worker EXCEPT ![w] = IdleWorker]
      /\ unrecorded' = IF worker[w].pc = "sent" THEN unrecorded \cup {worker[w].row} ELSE unrecorded
      /\ miscounted' = miscounted \cup ({worker[w].row} \X Uncounted(worker[w].pc))
      /\ UNCHANGED <<broadcast, row, cancelling, reporter, billed, fate, resendOf, early>>
  BY Mishappened DEF BInv, Shape, drainDies, Miscount, provider, WorkerType
<1>2. IdleWorker \in WorkerType /\ IdleWorker.pc \in Elsewhere
  BY BlankWorker DEF Elsewhere
<1>3. CASE worker[w].pc \in Elsewhere
  <2>1. unrecorded' = unrecorded /\ miscounted' = miscounted
    BY <1>1, <1>3 DEF Uncounted, Elsewhere
  <2>2. broadcast' \in [Campaigns -> BroadcastType]
    BY <1>1 DEF BInv, Shape
  <2>3. \A b \in Campaigns : SameCounters(b) /\ (broadcast'[b].status = "NONE" => broadcast[b].status = "NONE")
    BY <1>1 DEF SameCounters
  <2> QED BY <1>1, <1>2, <1>3, <2>1, <2>2, <2>3, IdleStep
<1>4. CASE worker[w].pc \notin Elsewhere
  <2> PICK r \in Rows : worker[w].row = r
    BY <1>4 DEF BInv, Shape
  <2>1. /\ AtRow(w, r)
        /\ r[1] \in Campaigns /\ broadcast[r[1]] \in BroadcastType
        /\ broadcast = [broadcast EXCEPT ![r[1]] = broadcast[r[1]]]
    BY <1>4, RowParts DEF AtRow, BInv, Shape
  <2>2. /\ Uncounted(worker[w].pc) \subseteq Counters
        /\ worker[w].pc = "countSent" => "sent" \in Uncounted(worker[w].pc)
        /\ worker[w].pc = "countFailed" => "failed" \in Uncounted(worker[w].pc)
    BY DEF Uncounted, Counters
  <2>3. /\ unrecorded' \subseteq Rows /\ miscounted' \subseteq Rows \X Counters /\ Grown
        /\ worker[w].pc = "sent" => r \in unrecorded'
        /\ worker[w].pc = "countSent" => <<r, "sent">> \in miscounted'
        /\ worker[w].pc = "countFailed" => <<r, "failed">> \in miscounted'
    BY <1>1, <2>2 DEF BInv, Shape, Grown
  <2>4. /\ \/ broadcast[r[1]].sent = broadcast[r[1]].sent + Bit(worker[w].pc = "countSent")
           \/ <<r, "sent">> \in miscounted'
        /\ \/ broadcast[r[1]].failed = broadcast[r[1]].failed + Bit(worker[w].pc = "countFailed")
           \/ <<r, "failed">> \in miscounted'
    BY <2>1, <2>3, Counting DEF Bit
  <2> DEFINE z == broadcast[r[1]]
  <2>5. /\ z \in BroadcastType /\ z = broadcast[r[1]] /\ broadcast' = [broadcast EXCEPT ![r[1]] = z]
        /\ z.status = broadcast[r[1]].status /\ z.sent = broadcast[r[1]].sent
        /\ z.delivered = broadcast[r[1]].delivered /\ z.read = broadcast[r[1]].read
        /\ z.failed = broadcast[r[1]].failed
    BY <1>1, <2>1
  <2> HIDE DEF z
  <2>6. /\ \/ z.sent = broadcast[r[1]].sent + Bit(worker[w].pc = "countSent")
           \/ z.sent = broadcast[r[1]].sent /\ <<r, "sent">> \in miscounted'
        /\ \/ z.failed = broadcast[r[1]].failed + Bit(worker[w].pc = "countFailed")
           \/ z.failed = broadcast[r[1]].failed /\ <<r, "failed">> \in miscounted'
    BY <2>4, <2>5
  <2>7. /\ UNCHANGED <<row, cancelling, reporter, billed, fate, resendOf, early>>
        /\ mishaps' \in 0..MaxMishaps /\ cut' \subseteq Campaigns
        /\ worker' = [worker EXCEPT ![w] = IdleWorker]
    BY <1>1
  <2> QED BY <1>2, <2>1, <2>3, <2>5, <2>6, <2>7, DoneStep
<1> QED BY <1>3, <1>4

LEMMA CountSentAgainStep ==
  ASSUME BInv, NEW w \in Workers, countSentAgain(w)
  PROVE  BInv'
<1>1. worker[w].pc = "countSent"
  BY DEF countSentAgain
<1> PICK r \in Rows : worker[w].row = r
  BY <1>1 DEF BInv, Shape, Elsewhere
<1> DEFINE z == [broadcast[r[1]] EXCEPT !.sent = broadcast[r[1]].sent + 1]
<1>2. /\ mishaps' \in 0..MaxMishaps
      /\ broadcast' = [broadcast EXCEPT ![r[1]] = z]
      /\ miscounted' = miscounted \cup ({r} \X {"sent"})
      /\ UNCHANGED <<row, worker, cancelling, reporter, billed, fate, resendOf, unrecorded, early, cut>>
  BY Mishappened DEF countSentAgain, Miscount, provider
<1>3. r[1] \in Campaigns /\ broadcast[r[1]] \in BroadcastType
  BY RowParts DEF BInv, Shape
<1>4. /\ z \in BroadcastType /\ z.status = broadcast[r[1]].status
      /\ z.delivered = broadcast[r[1]].delivered /\ z.read = broadcast[r[1]].read
      /\ z.failed = broadcast[r[1]].failed
  BY <1>3, Counting
<1> HIDE DEF z
<1>5. /\ broadcast' \in [Campaigns -> BroadcastType] /\ broadcast'[r[1]] = z
      /\ \A c \in Campaigns \ {r[1]} : broadcast'[c] = broadcast[c]
  BY <1>2, <1>3, <1>4, BroadcastTo DEF BInv
<1>6. miscounted' \subseteq Rows \X Counters /\ <<r, "sent">> \in miscounted' /\ Grown
  BY <1>2 DEF BInv, Shape, Counters, Grown
<1>7. Shape'
  BY <1>2, <1>5, <1>6 DEF BInv, Shape
<1>8. (\A q \in Rows : Apart(q)) /\ (\A q \in Rows : RowInv(q)' /\ SameTally(q))
  BY <1>2, <1>6, ActorsKept, ApartKept DEF BInv
<1>9. Deltas(r)
  BY <1>3, <1>4, <1>5, <1>6, <1>8, Counting
    DEF Deltas, DeliveredDelta, ReadDelta, SentDelta, ReachedDelta, FailedDelta, SameTally, Bit
<1>10. /\ \A b \in Campaigns \ {r[1]} : SameCounters(b)
       /\ \A b \in Campaigns : broadcast'[b].status = broadcast[b].status
       /\ row[r].status # "NONE"
  BY <1>1, <1>4, <1>5 DEF SameCounters, BInv, RowInv, Exclusive, AtRow, Elsewhere
<1> QED BY <1>2, <1>6, <1>7, <1>8, <1>9, <1>10, FocusStep

LEMMA DecideStep ==
  ASSUME BInv, NEW r \in Rows, NEW f \in {"delivered", "failed"}, ProviderDecides(r, f)
  PROVE  BInv'
<1>1. /\ billed[r] > 0 /\ fate[r] = "none" /\ fate' = [fate EXCEPT ![r] = f]
      /\ UNCHANGED <<broadcast, row, worker, cancelling, reporter, billed, resendOf, mishaps, unrecorded,
                     early, miscounted, cut>>
  BY DEF ProviderDecides, ghosts
<1>2. fate' \in [Rows -> {"none", "delivered", "failed"}] /\ fate'[r] = f
      /\ \A q \in Rows \ {r} : fate'[q] = fate[q]
  BY <1>1 DEF BInv, Shape
<1>3. Shape' /\ Grown
  BY <1>1, <1>2 DEF BInv, Shape, Grown
<1>4. \A q \in Rows \ {r} : Apart(q)
  BY <1>1, <1>2 DEF Apart, AtRow, OnRow
<1>5. /\ row[r].status \notin {"NONE", "DELIVERED", "READ"} /\ \A h \in Reporters : ~OnRow(h, r)
      /\ \A h \in Reporters : ~Failing(h, r)
      /\ r \notin unrecorded => row[r].status # "FAILED"
  BY <1>1 DEF BInv, RowInv, Fates, Bills, OnRow, Failing
<1>6. Exclusive(r)'
  <2>1. Exclusive(r)
    BY DEF BInv, RowInv
  <2> QED BY <1>1, <2>1 DEF Exclusive, AtRow, WorkerAt
<1>7. Fates(r)'
  BY <1>1, <1>2, <1>5, ReportersKept DEF Fates
<1>8. Bills(r)'
  <2>1. Bills(r)
    BY DEF BInv, RowInv
  <2> QED BY <1>1, <1>5, <2>1 DEF Bills, AtRow, WorkerAt
<1>9. Notes(r)'
  <2>1. Notes(r)
    BY DEF BInv, RowInv
  <2> QED BY <1>1, <2>1 DEF Notes, Failing, WorkerAt
<1>10. Once(r)'
  BY <1>1, <1>3, OnceKept DEF BInv, RowInv
<1>11. RowInv(r)'
  BY <1>6, <1>7, <1>8, <1>9, <1>10 DEF RowInv
<1>12. Deltas(r)
  <2>1. SameTally(r)
    BY <1>1 DEF SameTally, DeliveryCounted, ReadingCounted, FailureCounted, ToCount, ToTakeBack, Sent,
                Reached, ReporterAt, WorkerAt, TakingBack
  <2>2. broadcast[r[1]] \in BroadcastType
    BY RowParts DEF BInv, Shape
  <2> QED BY <1>1, <2>1, <2>2, Counting
      DEF Deltas, DeliveredDelta, ReadDelta, SentDelta, ReachedDelta, FailedDelta, SameTally, Bit
<1>13. \A b \in Campaigns : SameCounters(b)
  BY <1>1 DEF SameCounters
<1> QED BY <1>1, <1>3, <1>4, <1>5, <1>11, <1>12, <1>13, FocusStep

-----------------------------------------------------------------------------
(* Reports.  A report comes to a row, or goes on with it, or leaves it: the  *)
(* other rows are left alone, and so are the other reports on this one.      *)
SameReport(g, r) == /\ OnRow(g, r)' <=> OnRow(g, r)
                    /\ Failing(g, r)' <=> Failing(g, r)
                    /\ ReporterAt(g, "countDelivered", r)' <=> ReporterAt(g, "countDelivered", r)
                    /\ ReporterAt(g, "countRead", r)' <=> ReporterAt(g, "countRead", r)
                    /\ ReporterAt(g, "countFailed", r)' <=> ReporterAt(g, "countFailed", r)
                    /\ TakingBack(g, r)' <=> TakingBack(g, r)
                    /\ reporter'[g].wasSent = reporter[g].wasSent

Told(h, r, x) ==
  /\ reporter' \in [Reporters -> ReporterType]
  /\ \A g \in Reporters : reporter'[g].pc # "idle" => reporter'[g].row \in Rows
  /\ \A q \in Rows \ {r} : Apart(q)
  /\ \A w \in Workers : /\ AtRow(w, r)' <=> AtRow(w, r)
                        /\ WorkerAt(w, "sent", r)' <=> WorkerAt(w, "sent", r)
                        /\ WorkerAt(w, "countFailed", r)' <=> WorkerAt(w, "countFailed", r)
  /\ ToCount(r)' <=> ToCount(r)
  /\ \A g \in Reporters \ {h} : SameReport(g, r)
  /\ OnRow(h, r)' <=> x.pc # "idle"
  /\ Failing(h, r)' <=> x.pc \in {"failed", "countFailed"}
  /\ ReporterAt(h, "countDelivered", r)' <=> x.pc = "countDelivered"
  /\ ReporterAt(h, "countRead", r)' <=> x.pc = "countRead"
  /\ ReporterAt(h, "countFailed", r)' <=> x.pc = "countFailed"
  /\ TakingBack(h, r)' <=> x.pc = "countFailed" /\ x.wasSent
  /\ OnRow(h, r) <=> reporter[h].pc # "idle"
  /\ Failing(h, r) <=> reporter[h].pc \in {"failed", "countFailed"}
  /\ ReporterAt(h, "countDelivered", r) <=> reporter[h].pc = "countDelivered"
  /\ ReporterAt(h, "countRead", r) <=> reporter[h].pc = "countRead"
  /\ ReporterAt(h, "countFailed", r) <=> reporter[h].pc = "countFailed"
  /\ TakingBack(h, r) <=> reporter[h].pc = "countFailed" /\ reporter[h].wasSent
  /\ reporter'[h] = x

LEMMA ReporterStepped ==
  ASSUME BInv, NEW h \in Reporters, NEW r \in Rows, NEW x \in ReporterType,
         reporter[h].pc = "idle" \/ reporter[h].row = r,
         x.pc = "idle" \/ x.row = r,
         reporter' = [reporter EXCEPT ![h] = x],
         UNCHANGED <<worker, billed, fate>>,
         \A q \in Rows \ {r} : row'[q] = row[q]
  PROVE  Told(h, r, x)
<1>1. /\ reporter' \in [Reporters -> ReporterType] /\ reporter'[h] = x
      /\ \A g \in Reporters \ {h} : reporter'[g] = reporter[g]
      /\ \A g \in Reporters : reporter'[g].pc # "idle" => reporter'[g].row \in Rows
  BY ReporterTo DEF BInv
<1>2. \A q \in Rows \ {r} : ~OnRow(h, q) /\ ~OnRow(h, q)'
  BY <1>1 DEF OnRow
<1>3. \A q \in Rows \ {r} : Apart(q)
  <2> TAKE q \in Rows \ {r}
  <2>1. \A g \in Reporters : /\ OnRow(g, q)' <=> OnRow(g, q)
                             /\ OnRow(g, q) => /\ reporter'[g].pc = reporter[g].pc
                                               /\ reporter'[g].wasSent = reporter[g].wasSent
    <3> TAKE g \in Reporters
    <3>1. CASE g = h
      BY <1>2, <3>1
    <3>2. CASE g # h
      BY <1>1, <3>2 DEF OnRow
    <3> QED BY <3>1, <3>2
  <2>2. \A w \in Workers : (AtRow(w, q)' <=> AtRow(w, q)) /\ worker'[w].pc = worker[w].pc
    BY DEF AtRow
  <2> QED BY <2>1, <2>2 DEF Apart
<1>4. /\ \A w \in Workers : /\ AtRow(w, r)' <=> AtRow(w, r)
                            /\ WorkerAt(w, "sent", r)' <=> WorkerAt(w, "sent", r)
                            /\ WorkerAt(w, "countFailed", r)' <=> WorkerAt(w, "countFailed", r)
      /\ ToCount(r)' <=> ToCount(r)
  BY DEF AtRow, WorkerAt, ToCount
<1>5. \A g \in Reporters \ {h} : SameReport(g, r)
  BY <1>1 DEF SameReport, OnRow, Failing, ReporterAt, TakingBack
<1>6. /\ OnRow(h, r)' <=> x.pc # "idle"
      /\ Failing(h, r)' <=> x.pc \in {"failed", "countFailed"}
      /\ ReporterAt(h, "countDelivered", r)' <=> x.pc = "countDelivered"
      /\ ReporterAt(h, "countRead", r)' <=> x.pc = "countRead"
      /\ ReporterAt(h, "countFailed", r)' <=> x.pc = "countFailed"
      /\ TakingBack(h, r)' <=> x.pc = "countFailed" /\ x.wasSent
  BY <1>1 DEF OnRow, Failing, ReporterAt, TakingBack
<1>7. /\ OnRow(h, r) <=> reporter[h].pc # "idle"
      /\ Failing(h, r) <=> reporter[h].pc \in {"failed", "countFailed"}
      /\ ReporterAt(h, "countDelivered", r) <=> reporter[h].pc = "countDelivered"
      /\ ReporterAt(h, "countRead", r) <=> reporter[h].pc = "countRead"
      /\ ReporterAt(h, "countFailed", r) <=> reporter[h].pc = "countFailed"
      /\ TakingBack(h, r) <=> reporter[h].pc = "countFailed" /\ reporter[h].wasSent
  BY DEF OnRow, Failing, ReporterAt, TakingBack
<1> QED BY <1>1, <1>3, <1>4, <1>5, <1>6, <1>7 DEF Told

(* What there is to know of a row when a report is on it.                    *)
LEMMA Reporting ==
  ASSUME BInv, NEW r \in Rows, fate[r] # "none"
  PROVE  /\ billed[r] > 0 /\ row[r].status # "NONE" /\ row[r] \in RowType
         /\ r[1] \in Campaigns /\ broadcast[r[1]] \in BroadcastType
         /\ r \notin unrecorded =>
              /\ row[r].status \notin {"QUEUED", "SKIPPED"}
              /\ row[r].status = "SENDING" => \E w \in Workers : WorkerAt(w, "sent", r)
              /\ \A w \in Workers : ~WorkerAt(w, "countFailed", r)
              /\ \A w \in Workers : AtRow(w, r) => worker[w].pc \notin {"send", "refused", "countFailed"}
         /\ fate[r] # "failed" => \A h \in Reporters : ~Failing(h, r) /\ ~TakingBack(h, r)
                                                       /\ ~ReporterAt(h, "countFailed", r)
         /\ fate[r] = "failed" => row[r].status \notin {"DELIVERED", "READ"}
<1>1. /\ billed[r] > 0 /\ billed[r] \in Nat /\ row[r].status # "NONE" /\ row[r] \in RowType
      /\ r[1] \in Campaigns /\ broadcast[r[1]] \in BroadcastType
      /\ fate[r] = "failed" => row[r].status \notin {"DELIVERED", "READ"}
  BY RowParts DEF BInv, Shape, RowInv, Fates
<1>2. fate[r] # "failed" => \A h \in Reporters : ~Failing(h, r) /\ ~TakingBack(h, r)
                                                 /\ ~ReporterAt(h, "countFailed", r)
  <2>1. \A h \in Reporters : Failing(h, r) => OnRow(h, r)
    BY DEF Failing, OnRow
  <2>2. \A h \in Reporters : Failing(h, r) => fate[r] = "failed"
    BY <2>1 DEF BInv, RowInv, Fates
  <2> QED BY <2>2 DEF Failing, TakingBack, ReporterAt
<1>3. ASSUME r \notin unrecorded
      PROVE  /\ row[r].status \notin {"QUEUED", "SKIPPED"}
             /\ row[r].status = "SENDING" => \E w \in Workers : WorkerAt(w, "sent", r)
             /\ \A w \in Workers : ~WorkerAt(w, "countFailed", r)
             /\ \A w \in Workers : AtRow(w, r) => worker[w].pc \notin {"send", "refused", "countFailed"}
  <2>1. Bills(r) /\ billed[r] # 0
    BY <1>1 DEF BInv, RowInv
  <2>2. \A w \in Workers : AtRow(w, r) => worker[w].pc \notin {"send", "refused", "countFailed"}
    BY <1>3, <2>1 DEF Bills
  <2>3. \A w \in Workers : WorkerAt(w, "countFailed", r) => AtRow(w, r) /\ worker[w].pc = "countFailed"
    BY DEF WorkerAt, AtRow, Elsewhere
  <2> QED BY <1>3, <2>1, <2>2, <2>3 DEF Bills
<1> QED BY <1>1, <1>2, <1>3

(* The drain's part of a row's invariant, whatever is reported.              *)
LEMMA WorkersTold ==
  ASSUME BInv, NEW h \in Reporters, NEW r \in Rows, NEW x \in ReporterType, Told(h, r, x),
         UNCHANGED <<worker, billed, fate, unrecorded>>, fate[r] # "none",
         row'[r].status = row[r].status \/ row'[r].status \in {"DELIVERED", "READ", "FAILED"},
         row'[r].status = "FAILED" => row[r].status = "FAILED" \/ fate[r] = "failed"
  PROVE  Exclusive(r)' /\ Bills(r)'
<1>1. Exclusive(r) /\ Bills(r) /\ Exclusive(r) /\ billed[r] > 0 /\ billed[r] \in Nat
  BY Reporting DEF BInv, RowInv, Shape
<1>2. \A w \in Workers : /\ AtRow(w, r)' <=> AtRow(w, r)
                         /\ WorkerAt(w, "sent", r)' <=> WorkerAt(w, "sent", r)
  BY DEF Told
<1>3. Exclusive(r)'
  BY <1>1, <1>2 DEF Exclusive
<1>4. r \notin unrecorded => /\ row[r].status \notin {"NONE", "QUEUED", "SKIPPED"}
                             /\ row[r].status = "SENDING" => \E w \in Workers : WorkerAt(w, "sent", r)
                             /\ \A w \in Workers : AtRow(w, r) =>
                                  worker[w].pc \notin {"send", "refused", "countFailed"}
  BY Reporting
<1>5. Bills(r)'
  BY <1>1, <1>2, <1>4 DEF Bills
<1> QED BY <1>3, <1>5

(* A report that leaves the row as it is: it counts, or gives up.            *)
LEMMA QuietStep ==
  ASSUME BInv, NEW h \in Reporters, NEW r \in Rows, NEW x \in ReporterType, Told(h, r, x),
         UNCHANGED <<row, worker, cancelling, billed, fate, resendOf, unrecorded, early, cut>>,
         OnRow(h, r), x.pc = "idle" \/ (x.pc = "read" /\ reporter[h].pc = "countRead"),
         mishaps' \in 0..MaxMishaps, miscounted \subseteq miscounted', miscounted' \subseteq Rows \X Counters,
         NEW z \in BroadcastType, broadcast' = [broadcast EXCEPT ![r[1]] = z],
         z.status = broadcast[r[1]].status,
         \/ z.delivered = broadcast[r[1]].delivered + Bit(reporter[h].pc = "countDelivered")
         \/ z.delivered = broadcast[r[1]].delivered /\ <<r, "delivered">> \in miscounted',
         \/ z.read = broadcast[r[1]].read + Bit(reporter[h].pc = "countRead")
         \/ z.read = broadcast[r[1]].read /\ <<r, "read">> \in miscounted',
         \/ /\ z.failed = broadcast[r[1]].failed + Bit(reporter[h].pc = "countFailed")
            /\ z.sent = broadcast[r[1]].sent - Bit(reporter[h].pc = "countFailed" /\ reporter[h].wasSent)
         \/ /\ z.failed = broadcast[r[1]].failed /\ <<r, "failed">> \in miscounted'
            /\ z.sent = broadcast[r[1]].sent /\ <<r, "sent">> \in miscounted'
  PROVE  BInv'
<1>1. /\ fate[r] # "none"
      /\ x.pc = "read" => fate[r] # "failed"
  <2>1. fate[r] # "none" /\ (Failing(h, r) <=> fate[r] = "failed")
    BY DEF BInv, RowInv, Fates
  <2> QED BY <2>1 DEF Failing
<1>2. /\ r[1] \in Campaigns /\ broadcast[r[1]] \in BroadcastType /\ Grown
      /\ row[r].status # "NONE" /\ billed[r] > 0
  BY <1>1, Reporting DEF Grown
<1>3. /\ broadcast' \in [Campaigns -> BroadcastType] /\ broadcast'[r[1]] = z
      /\ \A c \in Campaigns \ {r[1]} : broadcast'[c] = broadcast[c]
  BY <1>2, BroadcastTo DEF BInv
<1>4. /\ \A q \in Rows \ {r} : Apart(q)
      /\ \A w \in Workers : /\ AtRow(w, r)' <=> AtRow(w, r)
                            /\ WorkerAt(w, "sent", r)' <=> WorkerAt(w, "sent", r)
                            /\ WorkerAt(w, "countFailed", r)' <=> WorkerAt(w, "countFailed", r)
      /\ ToCount(r)' <=> ToCount(r)
      /\ \A g \in Reporters \ {h} : SameReport(g, r)
      /\ OnRow(h, r)' <=> x.pc = "read"
      /\ ~Failing(h, r)' /\ ~TakingBack(h, r)' /\ ~ReporterAt(h, "countDelivered", r)'
      /\ ~ReporterAt(h, "countRead", r)' /\ ~ReporterAt(h, "countFailed", r)'
      /\ ReporterAt(h, "countDelivered", r) <=> reporter[h].pc = "countDelivered"
      /\ ReporterAt(h, "countRead", r) <=> reporter[h].pc = "countRead"
      /\ ReporterAt(h, "countFailed", r) <=> reporter[h].pc = "countFailed"
      /\ TakingBack(h, r) <=> reporter[h].pc = "countFailed" /\ reporter[h].wasSent
  BY DEF Told
<1>5. Shape'
  <2>1. /\ reporter' \in [Reporters -> ReporterType]
        /\ \A g \in Reporters : reporter'[g].pc # "idle" => reporter'[g].row \in Rows
    BY DEF Told
  <2> QED BY <1>3, <2>1 DEF BInv, Shape
<1>6. Exclusive(r)' /\ Bills(r)'
  BY <1>1, WorkersTold
<1>7. Fates(r)'
  <2>1. \A g \in Reporters : OnRow(g, r)' => fate[r] # "none" /\ (Failing(g, r)' <=> fate[r] = "failed")
    BY <1>1, <1>4 DEF SameReport, BInv, RowInv, Fates
  <2>2. \A g \in Reporters : Failing(g, r)' /\ reporter'[g].wasSent =>
          row[r].status \in {"SENT", "DELIVERED", "READ", "FAILED"}
    BY <1>4 DEF SameReport, BInv, RowInv, Fates
  <2>3. Fates(r)
    BY DEF BInv, RowInv
  <2> QED BY <2>1, <2>2, <2>3 DEF Fates
<1>8. Notes(r)'
  <2>1. Notes(r)
    BY DEF BInv, RowInv
  <2>2. \A g \in Reporters : Failing(g, r)' => Failing(g, r) /\ reporter'[g].wasSent = reporter[g].wasSent
    BY <1>4 DEF SameReport
  <2> QED BY <1>2, <1>4, <2>1, <2>2 DEF Notes, Grown
<1>9. Once(r)'
  <2>1. Once(r)
    BY DEF BInv, RowInv
  <2>2. \A g \in Reporters : /\ ReporterAt(g, "countDelivered", r)' => ReporterAt(g, "countDelivered", r)
                             /\ ReporterAt(g, "countRead", r)' => ReporterAt(g, "countRead", r)
                             /\ ReporterAt(g, "countFailed", r)' => ReporterAt(g, "countFailed", r)
                             /\ TakingBack(g, r)' => TakingBack(g, r)
    BY <1>4 DEF SameReport
  <2> QED BY <1>2, <2>1, <2>2 DEF Once, Grown
<1>10. RowInv(r)'
  BY <1>6, <1>7, <1>8, <1>9 DEF RowInv
<1>11. /\ z.sent \in Int /\ z.delivered \in Nat /\ z.read \in Nat /\ z.failed \in Nat
       /\ broadcast[r[1]].sent \in Int /\ broadcast[r[1]].delivered \in Nat
       /\ broadcast[r[1]].read \in Nat /\ broadcast[r[1]].failed \in Nat
  BY <1>2, Counting
<1>12. DeliveredDelta(r)
  <2>1. IF reporter[h].pc = "countDelivered" THEN DeliveryCounted(r)' /\ ~DeliveryCounted(r)
        ELSE DeliveryCounted(r)' <=> DeliveryCounted(r)
    BY <1>4 DEF SameReport, BInv, RowInv, Once, DeliveryCounted
  <2> QED BY <1>3, <1>11, <2>1 DEF DeliveredDelta, Bit
<1>13. ReadDelta(r)
  <2>1. IF reporter[h].pc = "countRead" THEN ReadingCounted(r)' /\ ~ReadingCounted(r)
        ELSE ReadingCounted(r)' <=> ReadingCounted(r)
    BY <1>4 DEF SameReport, BInv, RowInv, Once, ReadingCounted
  <2> QED BY <1>3, <1>11, <2>1 DEF ReadDelta, Bit
<1>14. FailedDelta(r)
  <2>1. r \notin early \cup unrecorded =>
          IF reporter[h].pc = "countFailed" THEN FailureCounted(r)' /\ ~FailureCounted(r)
          ELSE FailureCounted(r)' <=> FailureCounted(r)
    <3>1. r \notin unrecorded => \A w \in Workers : ~WorkerAt(w, "countFailed", r)
      BY <1>1, Reporting
    <3> QED BY <1>4, <3>1 DEF SameReport, BInv, RowInv, Once, FailureCounted
  <2> QED BY <1>3, <1>11, <2>1 DEF FailedDelta, Bit
<1>15. ASSUME r \notin unrecorded, <<r, "sent">> \notin miscounted'
       PROVE  IF TakingBack(h, r) THEN Sent(r) /\ Reached(r) /\ ~Sent(r)' /\ ~Reached(r)'
              ELSE (Sent(r)' <=> Sent(r)) /\ (Reached(r)' <=> Reached(r))
  <2>1. IF TakingBack(h, r) THEN row[r].status = "FAILED" /\ ToTakeBack(r) /\ ~ToTakeBack(r)'
        ELSE ToTakeBack(r)' <=> ToTakeBack(r)
    BY <1>2, <1>4, <1>15 DEF SameReport, BInv, RowInv, Once, ToTakeBack, Grown
  <2> QED BY <2>1 DEF Sent, Reached
<1>16. SentDelta(r) /\ ReachedDelta(r)
  <2>1. <<r, "sent">> \notin miscounted' => z.sent = broadcast[r[1]].sent - Bit(TakingBack(h, r))
    BY <1>4 DEF Bit
  <2> QED BY <1>3, <1>4, <1>11, <1>15, <2>1 DEF SentDelta, ReachedDelta, Bit
<1>17. /\ \A b \in Campaigns \ {r[1]} : SameCounters(b)
       /\ \A b \in Campaigns : broadcast'[b].status = broadcast[b].status
  BY <1>3 DEF SameCounters
<1> QED BY <1>2, <1>4, <1>5, <1>10, <1>12, <1>13, <1>14, <1>16, <1>17, FocusStep DEF Deltas

(* A report that the message was delivered, or read, is noted.               *)
LEMMA NewsStep ==
  ASSUME BInv, NEW h \in Reporters, NEW r \in Rows, NEW x \in ReporterType, Told(h, r, x),
         NEW y \in RowType, row' = [row EXCEPT ![r] = y],
         reporter[h].pc = "idle", fate[r] = "delivered", Reportable(r), NotedEarly(r),
         UNCHANGED <<broadcast, worker, cancelling, billed, fate, resendOf, mishaps, unrecorded, miscounted, cut>>,
         y.status \in {"DELIVERED", "READ"},
         \/ /\ x.pc = "countDelivered" /\ ~row[r].deliveredAt /\ y.deliveredAt
            /\ y.readAt = row[r].readAt
         \/ /\ x.pc = "countRead" /\ ~row[r].readAt /\ y.readAt
            /\ y.deliveredAt = row[r].deliveredAt
  PROVE  BInv'
<1>1. /\ r[1] \in Campaigns /\ broadcast[r[1]] \in BroadcastType
      /\ row[r].status # "NONE" /\ billed[r] > 0 /\ row[r] \in RowType
      /\ \A g \in Reporters : ~Failing(g, r) /\ ~TakingBack(g, r) /\ ~ReporterAt(g, "countFailed", r)
  BY Reporting
<1>2. row' \in [Rows -> RowType] /\ row'[r] = y /\ \A q \in Rows \ {r} : row'[q] = row[q]
  BY RowTo DEF BInv
<1>3. /\ \A q \in Rows \ {r} : Apart(q)
      /\ \A w \in Workers : /\ AtRow(w, r)' <=> AtRow(w, r)
                            /\ WorkerAt(w, "sent", r)' <=> WorkerAt(w, "sent", r)
                            /\ WorkerAt(w, "countFailed", r)' <=> WorkerAt(w, "countFailed", r)
      /\ ToCount(r)' <=> ToCount(r)
      /\ \A g \in Reporters \ {h} : SameReport(g, r)
      /\ ~Failing(h, r)' /\ ~TakingBack(h, r)' /\ ~ReporterAt(h, "countFailed", r)'
      /\ ReporterAt(h, "countDelivered", r)' <=> x.pc = "countDelivered"
      /\ ReporterAt(h, "countRead", r)' <=> x.pc = "countRead"
      /\ ~ReporterAt(h, "countDelivered", r) /\ ~ReporterAt(h, "countRead", r)
  BY DEF Told
<1>4. \A g \in Reporters : ~Failing(g, r)' /\ ~TakingBack(g, r)' /\ ~ReporterAt(g, "countFailed", r)'
  BY <1>1, <1>3 DEF SameReport
<1>5. /\ early' \subseteq Rows /\ early \subseteq early'
      /\ r \notin early' => /\ r \notin early /\ row[r].status # "SENDING"
                            /\ \A w \in Workers : ~WorkerAt(w, "sent", r)
  BY DEF NotedEarly, Unnoted, WorkerAt, BInv, Shape
<1>6. Shape' /\ Grown
  <2>1. /\ reporter' \in [Reporters -> ReporterType]
        /\ \A g \in Reporters : reporter'[g].pc # "idle" => reporter'[g].row \in Rows
    BY DEF Told
  <2> QED BY <1>2, <1>5, <2>1 DEF BInv, Shape, Grown
<1>7. Exclusive(r)' /\ Bills(r)'
  BY <1>2, WorkersTold
<1>8. Fates(r)'
  BY <1>1, <1>2, <1>4 DEF Fates
<1>9. Notes(r)'
  BY <1>2, <1>3, <1>4, <1>5 DEF Notes
<1>10. Once(r)'
  <2>1. Once(r)
    BY DEF BInv, RowInv
  <2> QED BY <1>2, <1>3, <1>4, <2>1 DEF Once, SameReport
<1>11. RowInv(r)'
  BY <1>7, <1>8, <1>9, <1>10 DEF RowInv
<1>12. DeliveredDelta(r) /\ ReadDelta(r)
  <2>1. (DeliveryCounted(r)' <=> DeliveryCounted(r)) /\ (ReadingCounted(r)' <=> ReadingCounted(r))
    BY <1>2, <1>3 DEF SameReport, DeliveryCounted, ReadingCounted
  <2> QED BY <1>1, <2>1, Counting DEF DeliveredDelta, ReadDelta, Bit
<1>13. SentDelta(r) /\ ReachedDelta(r) /\ FailedDelta(r)
  <2>1. ~ToTakeBack(r) /\ ~ToTakeBack(r)'
    BY <1>1, <1>4 DEF ToTakeBack
  <2>2. ~Sent(r)' /\ Reached(r)' /\ ~FailureCounted(r) /\ ~FailureCounted(r)'
    BY <1>2, <2>1 DEF Sent, Reached, FailureCounted, Reportable
  <2>3. r \notin early' \cup unrecorded => Reached(r)
    <3>1. r \notin early' \cup unrecorded =>
            row[r].status \notin {"QUEUED", "SKIPPED", "NONE", "SENDING", "FAILED"}
      BY <1>5, Reporting DEF Reportable
    <3> QED BY <1>1, <3>1 DEF Reached, RowType, RowStatuses
  <2> QED BY <1>1, <1>3, <2>2, <2>3, Counting DEF SentDelta, ReachedDelta, FailedDelta, Bit
<1>14. \A b \in Campaigns : SameCounters(b)
  BY DEF SameCounters
<1> QED BY <1>1, <1>2, <1>3, <1>6, <1>11, <1>12, <1>13, <1>14, FocusStep DEF Deltas

(* The row's delivery is noted, or known, after its reading.                 *)
LEMMA ReadNewsStep ==
  ASSUME BInv, NEW h \in Reporters, NEW r \in Rows, NEW x \in ReporterType, Told(h, r, x),
         NEW y \in RowType, row' = [row EXCEPT ![r] = y],
         reporter[h].pc = "read",
         UNCHANGED <<broadcast, worker, cancelling, billed, fate, resendOf, mishaps, unrecorded, early,
                     miscounted, cut>>,
         y.status = row[r].status, y.deliveredAt, y.readAt = row[r].readAt,
         IF row[r].deliveredAt THEN x.pc = "idle" ELSE x.pc = "countDelivered"
  PROVE  BInv'
<1>1. fate[r] # "none" /\ fate[r] # "failed"
  <2>1. OnRow(h, r) /\ ~Failing(h, r)
    BY DEF Told
  <2> QED BY <2>1 DEF BInv, RowInv, Fates
<1>2. /\ r[1] \in Campaigns /\ broadcast[r[1]] \in BroadcastType
      /\ row[r].status # "NONE" /\ billed[r] > 0 /\ row[r] \in RowType
      /\ \A g \in Reporters : ~Failing(g, r) /\ ~TakingBack(g, r) /\ ~ReporterAt(g, "countFailed", r)
  BY <1>1, Reporting
<1>3. row' \in [Rows -> RowType] /\ row'[r] = y /\ \A q \in Rows \ {r} : row'[q] = row[q]
  BY RowTo DEF BInv
<1>4. /\ \A q \in Rows \ {r} : Apart(q)
      /\ \A w \in Workers : /\ AtRow(w, r)' <=> AtRow(w, r)
                            /\ WorkerAt(w, "sent", r)' <=> WorkerAt(w, "sent", r)
                            /\ WorkerAt(w, "countFailed", r)' <=> WorkerAt(w, "countFailed", r)
      /\ ToCount(r)' <=> ToCount(r)
      /\ \A g \in Reporters \ {h} : SameReport(g, r)
      /\ ~Failing(h, r)' /\ ~TakingBack(h, r)' /\ ~ReporterAt(h, "countFailed", r)'
      /\ ReporterAt(h, "countDelivered", r)' <=> x.pc = "countDelivered"
      /\ ~ReporterAt(h, "countRead", r)' /\ ~ReporterAt(h, "countRead", r)
      /\ ~ReporterAt(h, "countDelivered", r)
  BY DEF Told
<1>5. \A g \in Reporters : ~Failing(g, r)' /\ ~TakingBack(g, r)' /\ ~ReporterAt(g, "countFailed", r)'
  BY <1>2, <1>4 DEF SameReport
<1>6. Shape' /\ Grown
  <2>1. /\ reporter' \in [Reporters -> ReporterType]
        /\ \A g \in Reporters : reporter'[g].pc # "idle" => reporter'[g].row \in Rows
    BY DEF Told
  <2> QED BY <1>3, <2>1 DEF BInv, Shape, Grown
<1>7. Exclusive(r)' /\ Bills(r)'
  BY <1>1, <1>3, WorkersTold
<1>8. Fates(r)'
  BY <1>1, <1>2, <1>3, <1>5 DEF BInv, RowInv, Fates
<1>9. Notes(r)'
  <2>1. Notes(r)
    BY DEF BInv, RowInv
  <2> QED BY <1>3, <1>4, <1>5, <2>1 DEF Notes
<1>10. Once(r)'
  <2>1. Once(r)
    BY DEF BInv, RowInv
  <2> QED BY <1>3, <1>4, <1>5, <2>1 DEF Once, SameReport
<1>11. RowInv(r)'
  BY <1>7, <1>8, <1>9, <1>10 DEF RowInv
<1>12. DeliveredDelta(r) /\ ReadDelta(r)
  <2>1. (DeliveryCounted(r)' <=> DeliveryCounted(r)) /\ (ReadingCounted(r)' <=> ReadingCounted(r))
    BY <1>3, <1>4 DEF SameReport, DeliveryCounted, ReadingCounted
  <2> QED BY <1>2, <2>1, Counting DEF DeliveredDelta, ReadDelta, Bit
<1>13. SentDelta(r) /\ ReachedDelta(r) /\ FailedDelta(r)
  <2>1. ~ToTakeBack(r) /\ ~ToTakeBack(r)'
    BY <1>2, <1>5 DEF ToTakeBack
  <2>2. /\ (Sent(r)' <=> Sent(r)) /\ (Reached(r)' <=> Reached(r))
        /\ (FailureCounted(r)' <=> FailureCounted(r))
    BY <1>2, <1>3, <1>4, <1>5, <2>1 DEF Sent, Reached, FailureCounted
  <2> QED BY <1>2, <1>4, <2>2, Counting DEF SentDelta, ReachedDelta, FailedDelta, Bit
<1>14. \A b \in Campaigns : SameCounters(b)
  BY DEF SameCounters
<1> QED BY <1>2, <1>3, <1>4, <1>6, <1>11, <1>12, <1>13, <1>14, FocusStep DEF Deltas

(* A report that the message failed finds the row as it is ...               *)
LEMMA FailureReadStep ==
  ASSUME BInv, NEW h \in Reporters, NEW r \in Rows, NEW x \in ReporterType, Told(h, r, x),
         reporter[h].pc = "idle", fate[r] = "failed", Reportable(r), NotedEarly(r),
         x.pc = "failed", x.wasSent <=> row[r].status = "SENT",
         UNCHANGED <<broadcast, row, worker, cancelling, billed, fate, resendOf, mishaps, unrecorded,
                     miscounted, cut>>
  PROVE  BInv'
<1>1. /\ r[1] \in Campaigns /\ broadcast[r[1]] \in BroadcastType
      /\ row[r].status \notin {"NONE", "DELIVERED", "READ"} /\ billed[r] > 0 /\ row[r] \in RowType
  BY Reporting
<1>2. /\ \A q \in Rows \ {r} : Apart(q)
      /\ \A w \in Workers : /\ AtRow(w, r)' <=> AtRow(w, r)
                            /\ WorkerAt(w, "sent", r)' <=> WorkerAt(w, "sent", r)
                            /\ WorkerAt(w, "countFailed", r)' <=> WorkerAt(w, "countFailed", r)
      /\ ToCount(r)' <=> ToCount(r)
      /\ \A g \in Reporters \ {h} : SameReport(g, r)
      /\ OnRow(h, r)' /\ Failing(h, r)' /\ ~TakingBack(h, r)' /\ ~ReporterAt(h, "countDelivered", r)'
      /\ ~ReporterAt(h, "countRead", r)' /\ ~ReporterAt(h, "countFailed", r)'
      /\ ~ReporterAt(h, "countDelivered", r) /\ ~ReporterAt(h, "countRead", r)
      /\ ~ReporterAt(h, "countFailed", r) /\ ~TakingBack(h, r)
      /\ reporter'[h].wasSent <=> row[r].status = "SENT"
  BY DEF Told
<1>3. /\ early' \subseteq Rows /\ early \subseteq early'
      /\ r \notin early' => /\ r \notin early /\ row[r].status # "SENDING"
                            /\ \A w \in Workers : ~WorkerAt(w, "sent", r)
  BY DEF NotedEarly, Unnoted, WorkerAt, BInv, Shape
<1>4. Shape' /\ Grown
  <2>1. /\ reporter' \in [Reporters -> ReporterType]
        /\ \A g \in Reporters : reporter'[g].pc # "idle" => reporter'[g].row \in Rows
    BY DEF Told
  <2> QED BY <1>3, <2>1 DEF BInv, Shape, Grown
<1>5. Exclusive(r)' /\ Bills(r)'
  BY WorkersTold
<1>6. Fates(r)'
  <2>1. Fates(r)
    BY DEF BInv, RowInv
  <2> QED BY <1>2, <2>1 DEF Fates, SameReport
<1>7. Notes(r)'
  <2>1. Notes(r)
    BY DEF BInv, RowInv
  <2>2. r \notin early' \cup unrecorded => row[r].status = "SENT"
    <3>1. r \notin early' \cup unrecorded =>
            row[r].status \notin {"QUEUED", "SKIPPED", "NONE", "SENDING", "FAILED", "DELIVERED", "READ"}
      BY <1>1, <1>3, Reporting DEF Reportable
    <3> QED BY <1>1, <3>1 DEF RowType, RowStatuses
  <2> QED BY <1>2, <1>3, <2>1, <2>2 DEF Notes, SameReport
<1>8. Once(r)'
  <2>1. Once(r)
    BY DEF BInv, RowInv
  <2> QED BY <1>2, <1>4, <2>1 DEF Once, SameReport, Grown
<1>9. RowInv(r)'
  BY <1>5, <1>6, <1>7, <1>8 DEF RowInv
<1>10. SameTally(r)
  <2>1. ToTakeBack(r)' <=> ToTakeBack(r)
    BY <1>2 DEF ToTakeBack, SameReport
  <2> QED BY <1>2, <2>1 DEF SameTally, SameReport, DeliveryCounted, ReadingCounted, FailureCounted, Sent,
                            Reached
<1>11. Deltas(r)
  BY <1>1, <1>10, Counting
    DEF Deltas, DeliveredDelta, ReadDelta, SentDelta, ReachedDelta, FailedDelta, SameTally, Bit
<1>12. \A b \in Campaigns : SameCounters(b)
  BY DEF SameCounters
<1> QED BY <1>1, <1>2, <1>4, <1>9, <1>11, <1>12, FocusStep

(* ... and fails it.                                                         *)
LEMMA FailureStep ==
  ASSUME BInv, NEW h \in Reporters, NEW r \in Rows, NEW x \in ReporterType, Told(h, r, x),
         NEW y \in RowType, row' = [row EXCEPT ![r] = y],
         reporter[h].pc = "failed", Failable(r), x.pc = "countFailed", x.wasSent = reporter[h].wasSent,
         UNCHANGED <<broadcast, worker, cancelling, billed, fate, resendOf, mishaps, unrecorded, early,
                     miscounted, cut>>,
         y.status = "FAILED", y.deliveredAt = row[r].deliveredAt, y.readAt = row[r].readAt
  PROVE  BInv'
<1>1. row[r].status # "FAILED"
  BY DEF Failable
<1>2. fate[r] = "failed" /\ (reporter[h].wasSent => row[r].status = "SENT")
  <2>1. OnRow(h, r) /\ Failing(h, r)
    BY DEF Told
  <2> QED BY <2>1 DEF BInv, RowInv, Fates, Failable
<1>3. /\ r[1] \in Campaigns /\ broadcast[r[1]] \in BroadcastType
      /\ row[r].status # "NONE" /\ billed[r] > 0 /\ row[r] \in RowType
  BY <1>2, Reporting
<1>4. row' \in [Rows -> RowType] /\ row'[r] = y /\ \A q \in Rows \ {r} : row'[q] = row[q]
  BY RowTo DEF BInv
<1>5. /\ \A q \in Rows \ {r} : Apart(q)
      /\ \A w \in Workers : /\ AtRow(w, r)' <=> AtRow(w, r)
                            /\ WorkerAt(w, "sent", r)' <=> WorkerAt(w, "sent", r)
                            /\ WorkerAt(w, "countFailed", r)' <=> WorkerAt(w, "countFailed", r)
      /\ ToCount(r)' <=> ToCount(r)
      /\ \A g \in Reporters \ {h} : SameReport(g, r)
      /\ OnRow(h, r)' /\ Failing(h, r)' /\ (TakingBack(h, r)' <=> reporter[h].wasSent)
      /\ ~ReporterAt(h, "countDelivered", r)'
      /\ ~ReporterAt(h, "countRead", r)' /\ ReporterAt(h, "countFailed", r)'
      /\ OnRow(h, r) /\ Failing(h, r) /\ ~TakingBack(h, r) /\ ~ReporterAt(h, "countDelivered", r)
      /\ ~ReporterAt(h, "countRead", r) /\ ~ReporterAt(h, "countFailed", r)
      /\ reporter'[h].wasSent = reporter[h].wasSent
  BY DEF Told
<1>6. Shape' /\ Grown
  <2>1. /\ reporter' \in [Reporters -> ReporterType]
        /\ \A g \in Reporters : reporter'[g].pc # "idle" => reporter'[g].row \in Rows
    BY DEF Told
  <2> QED BY <1>4, <2>1 DEF BInv, Shape, Grown
<1>7. Exclusive(r)' /\ Bills(r)'
  BY <1>2, <1>4, WorkersTold
<1>8. Fates(r)'
  <2>1. Fates(r)
    BY DEF BInv, RowInv
  <2> QED BY <1>2, <1>3, <1>4, <1>5, <2>1 DEF Fates, SameReport
<1>9. Notes(r)'
  <2>1. Notes(r)
    BY DEF BInv, RowInv
  <2> QED BY <1>4, <1>5, <2>1 DEF Notes, SameReport
<1>11. /\ r \notin unrecorded /\ <<r, "sent">> \notin miscounted => ~ToTakeBack(r)
       /\ r \notin unrecorded \cup early => \A g \in Reporters : ~ReporterAt(g, "countFailed", r)
  BY <1>1 DEF BInv, RowInv, Once, ToTakeBack
<1>12. Once(r)'
  <2>1. Once(r)
    BY DEF BInv, RowInv
  <2>2. \A g \in Reporters \ {h} : /\ ReporterAt(g, "countDelivered", r)' <=> ReporterAt(g, "countDelivered", r)
                                   /\ ReporterAt(g, "countRead", r)' <=> ReporterAt(g, "countRead", r)
                                   /\ ReporterAt(g, "countFailed", r)' <=> ReporterAt(g, "countFailed", r)
                                   /\ TakingBack(g, r)' <=> TakingBack(g, r)
    BY <1>5 DEF SameReport
  <2> QED BY <1>4, <1>5, <1>11, <2>1, <2>2 DEF Once, ToTakeBack
<1>13. RowInv(r)'
  BY <1>7, <1>8, <1>9, <1>12 DEF RowInv
<1>14. DeliveredDelta(r) /\ ReadDelta(r)
  <2>1. (DeliveryCounted(r)' <=> DeliveryCounted(r)) /\ (ReadingCounted(r)' <=> ReadingCounted(r))
    BY <1>4, <1>5 DEF SameReport, DeliveryCounted, ReadingCounted
  <2> QED BY <1>3, <2>1, Counting DEF DeliveredDelta, ReadDelta, Bit
<1>15. r \notin unrecorded /\ <<r, "sent">> \notin miscounted =>
         /\ Sent(r)' => Sent(r)
         /\ r \notin early => Reached(r)' /\ Reached(r)
  <2>1. r \notin unrecorded /\ <<r, "sent">> \notin miscounted => (ToTakeBack(r)' <=> reporter[h].wasSent)
    BY <1>5, <1>11 DEF ToTakeBack, SameReport
  <2>2. reporter[h].wasSent => row[r].status = "SENT"
    BY <1>2
  <2>3. r \notin early \cup unrecorded => reporter[h].wasSent
    BY <1>5 DEF BInv, RowInv, Notes
  <2> QED BY <1>4, <2>1, <2>2, <2>3 DEF Sent, Reached
<1>16. ~FailureCounted(r) /\ ~FailureCounted(r)'
  BY <1>5, <1>1 DEF FailureCounted
<1>17. SentDelta(r) /\ ReachedDelta(r) /\ FailedDelta(r)
  BY <1>3, <1>5, <1>15, <1>16, Counting DEF SentDelta, ReachedDelta, FailedDelta, Bit
<1>18. \A b \in Campaigns : SameCounters(b)
  BY DEF SameCounters
<1> QED BY <1>2, <1>3, <1>4, <1>5, <1>6, <1>13, <1>14, <1>17, <1>18, FocusStep DEF Deltas

-----------------------------------------------------------------------------
(* The steps of a report.                                                    *)
LEMMA ReporterRecords ==
  ASSUME BInv, NEW h \in Reporters
  PROVE  /\ reporter[h] \in ReporterType
         /\ reporter[h].pc # "idle" => reporter[h].row \in Rows
         /\ \A todo \in {reporter[h].todo, {}} :
              /\ [IdleReporter EXCEPT !.todo = todo] \in ReporterType
              /\ [IdleReporter EXCEPT !.todo = todo].pc = "idle"
         /\ \A pc \in {"countDelivered", "countRead", "failed"}, r \in Rows, wasSent \in BOOLEAN :
              [pc |-> pc, row |-> r, wasSent |-> wasSent, todo |-> reporter[h].todo \ {r}] \in ReporterType
         /\ \A pc \in {"countDelivered", "countRead", "read", "failed", "countFailed"} :
              /\ [reporter[h] EXCEPT !.pc = pc] \in ReporterType /\ [reporter[h] EXCEPT !.pc = pc].pc = pc
              /\ [reporter[h] EXCEPT !.pc = pc].row = reporter[h].row
              /\ [reporter[h] EXCEPT !.pc = pc].wasSent = reporter[h].wasSent
         /\ \A todo \in SUBSET Rows :
              /\ [reporter[h] EXCEPT !.todo = todo] \in ReporterType
              /\ [reporter[h] EXCEPT !.todo = todo].pc = reporter[h].pc
         /\ reporter[h].todo \in SUBSET Rows
<1>1. reporter[h] \in ReporterType /\ (reporter[h].pc # "idle" => reporter[h].row \in Rows)
      /\ reporter[h].todo \in SUBSET Rows
  BY DEF BInv, Shape, ReporterType
<1>2. \A todo \in {reporter[h].todo, {}} :
        [IdleReporter EXCEPT !.todo = todo] \in ReporterType /\ [IdleReporter EXCEPT !.todo = todo].pc = "idle"
  BY <1>1 DEF IdleReporter, ReporterType
<1>3. \A pc \in {"countDelivered", "countRead", "failed"}, r \in Rows, wasSent \in BOOLEAN :
        [pc |-> pc, row |-> r, wasSent |-> wasSent, todo |-> reporter[h].todo \ {r}] \in ReporterType
  BY <1>1 DEF ReporterType
<1>4. \A pc \in {"countDelivered", "countRead", "read", "failed", "countFailed"} :
        /\ [reporter[h] EXCEPT !.pc = pc] \in ReporterType /\ [reporter[h] EXCEPT !.pc = pc].pc = pc
        /\ [reporter[h] EXCEPT !.pc = pc].row = reporter[h].row
        /\ [reporter[h] EXCEPT !.pc = pc].wasSent = reporter[h].wasSent
  BY <1>1 DEF ReporterType
<1>5. \A todo \in SUBSET Rows :
        /\ [reporter[h] EXCEPT !.todo = todo] \in ReporterType
        /\ [reporter[h] EXCEPT !.todo = todo].pc = reporter[h].pc
  BY <1>1 DEF ReporterType
<1> QED BY <1>1, <1>2, <1>3, <1>4, <1>5

LEMMA Dated ==
  ASSUME NEW x \in RowType, NEW s \in RowStatuses
  PROVE  /\ [x EXCEPT !.status = s, !.deliveredAt = TRUE] \in RowType
         /\ [x EXCEPT !.status = s, !.deliveredAt = TRUE].status = s
         /\ [x EXCEPT !.status = s, !.deliveredAt = TRUE].deliveredAt
         /\ [x EXCEPT !.status = s, !.deliveredAt = TRUE].readAt = x.readAt
         /\ [x EXCEPT !.status = s, !.readAt = TRUE] \in RowType
         /\ [x EXCEPT !.status = s, !.readAt = TRUE].status = s
         /\ [x EXCEPT !.status = s, !.readAt = TRUE].readAt
         /\ [x EXCEPT !.status = s, !.readAt = TRUE].deliveredAt = x.deliveredAt
  BY DEF RowType

LEMMA MarkSteps ==
  ASSUME BInv, NEW h \in Reporters, NEW r \in Rows, report(h, r)
  PROVE  BInv'
<1>1. /\ reporter[h].pc = "idle" /\ Reportable(r) /\ NotedEarly(r) /\ row[r] \in RowType
      /\ UNCHANGED <<broadcast, worker, cancelling, billed, fate, resendOf, mishaps, unrecorded,
                     miscounted, cut>>
  BY DEF report, markDelivered, markRead, markFailedRead, Asks, provider, BInv, Shape
<1>2. CASE markDelivered(h, r)
  <2> DEFINE x == [pc |-> "countDelivered", row |-> r, wasSent |-> FALSE, todo |-> reporter[h].todo \ {r}]
             y == [row[r] EXCEPT !.status = "DELIVERED", !.deliveredAt = TRUE]
  <2>1. /\ fate[r] = "delivered" /\ ~row[r].deliveredAt
        /\ row' = [row EXCEPT ![r] = y] /\ reporter' = [reporter EXCEPT ![h] = x]
    BY <1>2 DEF markDelivered, Reports
  <2>2. x \in ReporterType /\ x.pc = "countDelivered" /\ x.row = r
    BY ReporterRecords
  <2>3. y \in RowType /\ y.status = "DELIVERED" /\ y.deliveredAt /\ y.readAt = row[r].readAt
    BY <1>1, Dated DEF RowStatuses
  <2> HIDE DEF x, y
  <2>4. Told(h, r, x)
    <3>1. \A q \in Rows \ {r} : row'[q] = row[q]
      BY <2>1, <2>3, RowTo DEF BInv
    <3> QED BY <1>1, <2>1, <2>2, <3>1, ReporterStepped
  <2> QED BY <1>1, <2>1, <2>2, <2>3, <2>4, NewsStep
<1>3. CASE markRead(h, r)
  <2> DEFINE x == [pc |-> "countRead", row |-> r, wasSent |-> FALSE, todo |-> reporter[h].todo \ {r}]
             y == [row[r] EXCEPT !.status = "READ", !.readAt = TRUE]
  <2>1. /\ fate[r] = "delivered" /\ ~row[r].readAt
        /\ row' = [row EXCEPT ![r] = y] /\ reporter' = [reporter EXCEPT ![h] = x]
    BY <1>3 DEF markRead, Reports
  <2>2. x \in ReporterType /\ x.pc = "countRead" /\ x.row = r
    BY ReporterRecords
  <2>3. y \in RowType /\ y.status = "READ" /\ y.readAt /\ y.deliveredAt = row[r].deliveredAt
    BY <1>1, Dated DEF RowStatuses
  <2> HIDE DEF x, y
  <2>4. Told(h, r, x)
    <3>1. \A q \in Rows \ {r} : row'[q] = row[q]
      BY <2>1, <2>3, RowTo DEF BInv
    <3> QED BY <1>1, <2>1, <2>2, <3>1, ReporterStepped
  <2> QED BY <1>1, <2>1, <2>2, <2>3, <2>4, NewsStep
<1>4. CASE markFailedRead(h, r)
  <2> DEFINE x == [pc |-> "failed", row |-> r, wasSent |-> row[r].status = "SENT",
                   todo |-> reporter[h].todo \ {r}]
  <2>1. fate[r] = "failed" /\ row' = row /\ reporter' = [reporter EXCEPT ![h] = x]
    BY <1>4 DEF markFailedRead, Reports, WasSent
  <2>2. x \in ReporterType /\ x.pc = "failed" /\ x.row = r /\ x.wasSent = (row[r].status = "SENT")
    BY ReporterRecords
  <2> HIDE DEF x
  <2>3. Told(h, r, x)
    BY <1>1, <2>1, <2>2, ReporterStepped
  <2> QED BY <1>1, <2>1, <2>2, <2>3, FailureReadStep
<1> QED BY <1>2, <1>3, <1>4 DEF report

LEMMA ReadDeliveredStep ==
  ASSUME BInv, NEW h \in Reporters, markReadDelivered(h)
  PROVE  BInv'
<1>1. /\ reporter[h].pc = "read"
      /\ UNCHANGED <<broadcast, worker, cancelling, billed, fate, resendOf, mishaps, unrecorded, early,
                     miscounted, cut>>
  BY DEF markReadDelivered, provider, ghosts
<1> PICK r \in Rows : reporter[h].row = r
  BY <1>1, ReporterRecords
<1> DEFINE y == [row[r] EXCEPT !.deliveredAt = TRUE]
           x == IF row[r].deliveredAt THEN [IdleReporter EXCEPT !.todo = reporter[h].todo]
                ELSE [reporter[h] EXCEPT !.pc = "countDelivered"]
<1>2. row' = [row EXCEPT ![r] = y] /\ reporter' = [reporter EXCEPT ![h] = x]
  BY DEF markReadDelivered, NewlyDelivered, Reported
<1>3. /\ x \in ReporterType
      /\ x.pc = "idle" \/ x.row = r
      /\ IF row[r].deliveredAt THEN x.pc = "idle" ELSE x.pc = "countDelivered"
  BY <1>1, ReporterRecords
<1>4. y \in RowType /\ y.status = row[r].status /\ y.deliveredAt /\ y.readAt = row[r].readAt
  <2>1. row[r] \in RowType
    BY DEF BInv, Shape
  <2> QED BY <2>1 DEF RowType
<1> HIDE DEF x, y
<1>5. Told(h, r, x)
  <2>1. \A q \in Rows \ {r} : row'[q] = row[q]
    BY <1>2, <1>4, RowTo DEF BInv
  <2> QED BY <1>1, <1>2, <1>3, <2>1, ReporterStepped
<1> QED BY <1>1, <1>2, <1>3, <1>4, <1>5, ReadNewsStep

(* A step that only moves a report that is at no row.                        *)
LEMMA PollStep ==
  ASSUME BInv, NEW h \in Reporters, reporter[h].pc = "idle", NEW x \in ReporterType, x.pc = "idle",
         reporter' = [reporter EXCEPT ![h] = x],
         UNCHANGED <<broadcast, row, worker, cancelling, billed, fate, resendOf, unrecorded, early,
                     miscounted, cut>>,
         mishaps' \in 0..MaxMishaps
  PROVE  BInv'
<1>1. /\ reporter' \in [Reporters -> ReporterType] /\ reporter'[h] = x
      /\ \A g \in Reporters \ {h} : reporter'[g] = reporter[g]
      /\ \A g \in Reporters : reporter'[g].pc # "idle" => reporter'[g].row \in Rows
  BY ReporterTo DEF BInv
<1>2. Shape' /\ Grown
  BY <1>1 DEF BInv, Shape, Grown
<1>3. \A r \in Rows : Apart(r)
  <2> TAKE r \in Rows
  <2>1. \A g \in Reporters : /\ OnRow(g, r)' <=> OnRow(g, r)
                             /\ OnRow(g, r) => /\ reporter'[g].pc = reporter[g].pc
                                               /\ reporter'[g].wasSent = reporter[g].wasSent
    BY <1>1 DEF OnRow
  <2> QED BY <2>1 DEF Apart, AtRow
<1>4. \A b \in Campaigns : SameCounters(b)
  BY DEF SameCounters
<1>5. (\A r \in Rows : RowInv(r)') /\ Counts'
  BY <1>2, <1>3, <1>4, PeacefulStep
<1>6. Unborn' /\ Resent'
  BY DEF BInv, Unborn, Resent
<1> QED BY <1>2, <1>5, <1>6 DEF BInv

LEMMA MarkFailedStep ==
  ASSUME BInv, NEW h \in Reporters, markFailed(h)
  PROVE  BInv'
<1>1. /\ reporter[h].pc = "failed"
      /\ UNCHANGED <<broadcast, worker, cancelling, billed, fate, resendOf, mishaps, unrecorded, early,
                     miscounted, cut>>
  BY DEF markFailed, provider, ghosts
<1> PICK r \in Rows : reporter[h].row = r
  BY <1>1, ReporterRecords
<1>2. /\ row[r] \in RowType /\ r[1] \in Campaigns /\ broadcast[r[1]] \in BroadcastType
      /\ mishaps' \in 0..MaxMishaps /\ miscounted' \subseteq Rows \X Counters
      /\ broadcast = [broadcast EXCEPT ![r[1]] = broadcast[r[1]]]
  BY <1>1, RowParts DEF BInv, Shape
<1>3. CASE Failable(r)
  <2> DEFINE x == [reporter[h] EXCEPT !.pc = "countFailed"]
             y == [row[r] EXCEPT !.status = "FAILED"]
  <2>1. row' = [row EXCEPT ![r] = y] /\ reporter' = [reporter EXCEPT ![h] = x]
    BY <1>3 DEF markFailed
  <2>2. x \in ReporterType /\ x.pc = "countFailed" /\ x.row = r /\ x.wasSent = reporter[h].wasSent
    BY ReporterRecords
  <2>3. /\ y \in RowType /\ y.status = "FAILED" /\ y.deliveredAt = row[r].deliveredAt
        /\ y.readAt = row[r].readAt
    BY <1>2, WithRowStatus DEF RowStatuses
  <2> HIDE DEF x, y
  <2>4. Told(h, r, x)
    <3>1. \A q \in Rows \ {r} : row'[q] = row[q]
      BY <2>1, <2>3, RowTo DEF BInv
    <3> QED BY <1>1, <2>1, <2>2, <3>1, ReporterStepped
  <2> QED BY <1>1, <1>3, <2>1, <2>2, <2>3, <2>4, FailureStep
<1>4. CASE ~Failable(r)
  <2> DEFINE x == [IdleReporter EXCEPT !.todo = reporter[h].todo]
             z == broadcast[r[1]]
  <2>1. row' = row /\ reporter' = [reporter EXCEPT ![h] = x]
    BY <1>4 DEF markFailed, Reported
  <2>2. x \in ReporterType /\ x.pc = "idle"
    BY ReporterRecords
  <2>3. /\ z \in BroadcastType /\ z = broadcast[r[1]] /\ broadcast' = [broadcast EXCEPT ![r[1]] = z]
        /\ z.status = broadcast[r[1]].status
    BY <1>1, <1>2
  <2>4. /\ z.delivered = broadcast[r[1]].delivered + Bit(reporter[h].pc = "countDelivered")
        /\ z.read = broadcast[r[1]].read + Bit(reporter[h].pc = "countRead")
        /\ z.failed = broadcast[r[1]].failed + Bit(reporter[h].pc = "countFailed")
        /\ z.sent = broadcast[r[1]].sent - Bit(reporter[h].pc = "countFailed" /\ reporter[h].wasSent)
    BY <1>1, <2>3, Counting DEF Bit
  <2> HIDE DEF x, z
  <2>5. Told(h, r, x) /\ OnRow(h, r)
    <3>1. OnRow(h, r)
      BY <1>1 DEF OnRow
    <3>2. UNCHANGED <<worker, billed, fate>> /\ \A q \in Rows \ {r} : row'[q] = row[q]
      BY <1>1, <2>1
    <3> QED BY <2>1, <2>2, <3>1, <3>2, ReporterStepped
  <2>6. /\ UNCHANGED <<row, worker, cancelling, billed, fate, resendOf, unrecorded, early, cut>>
        /\ miscounted \subseteq miscounted'
    BY <1>1, <2>1
  <2> QED BY <1>2, <2>2, <2>3, <2>4, <2>5, <2>6, QuietStep
<1> QED BY <1>3, <1>4

LEMMA ReportCountSteps ==
  ASSUME BInv, NEW h \in Reporters, countDelivered(h) \/ countRead(h) \/ countFailed(h)
  PROVE  BInv'
<1>1. /\ reporter[h].pc \in {"countDelivered", "countRead", "countFailed"}
      /\ UNCHANGED <<row, worker, cancelling, billed, fate, resendOf, mishaps, unrecorded, early,
                     miscounted, cut>>
  BY DEF countDelivered, countRead, countFailed, provider, ghosts
<1> PICK r \in Rows : reporter[h].row = r
  BY <1>1, ReporterRecords
<1>2. /\ r[1] \in Campaigns /\ broadcast[r[1]] \in BroadcastType /\ OnRow(h, r)
      /\ mishaps' \in 0..MaxMishaps /\ miscounted' \subseteq Rows \X Counters
      /\ miscounted \subseteq miscounted'
  BY <1>1, RowParts DEF BInv, Shape, OnRow
<1>3. CASE countDelivered(h)
  <2> DEFINE x == [IdleReporter EXCEPT !.todo = reporter[h].todo]
             z == [broadcast[r[1]] EXCEPT !.delivered = broadcast[r[1]].delivered + 1]
  <2>1. /\ reporter[h].pc = "countDelivered"
        /\ broadcast' = [broadcast EXCEPT ![r[1]] = z] /\ reporter' = [reporter EXCEPT ![h] = x]
    BY <1>3 DEF countDelivered, Reported
  <2>2. x \in ReporterType /\ x.pc = "idle"
    BY ReporterRecords
  <2>3. /\ z \in BroadcastType /\ z.status = broadcast[r[1]].status
        /\ z.delivered = broadcast[r[1]].delivered + Bit(reporter[h].pc = "countDelivered")
        /\ z.read = broadcast[r[1]].read + Bit(reporter[h].pc = "countRead")
        /\ z.failed = broadcast[r[1]].failed + Bit(reporter[h].pc = "countFailed")
        /\ z.sent = broadcast[r[1]].sent - Bit(reporter[h].pc = "countFailed" /\ reporter[h].wasSent)
    BY <1>2, <2>1, Counting DEF Bit
  <2> HIDE DEF x, z
  <2>4. Told(h, r, x)
    BY <1>1, <2>1, <2>2, ReporterStepped
  <2> QED BY <1>1, <1>2, <2>1, <2>2, <2>3, <2>4, QuietStep
<1>4. CASE countRead(h)
  <2> DEFINE x == [reporter[h] EXCEPT !.pc = "read"]
             z == [broadcast[r[1]] EXCEPT !.read = broadcast[r[1]].read + 1]
  <2>1. /\ reporter[h].pc = "countRead"
        /\ broadcast' = [broadcast EXCEPT ![r[1]] = z] /\ reporter' = [reporter EXCEPT ![h] = x]
    BY <1>4 DEF countRead
  <2>2. x \in ReporterType /\ x.pc = "read" /\ x.row = r
    BY ReporterRecords
  <2>3. /\ z \in BroadcastType /\ z.status = broadcast[r[1]].status
        /\ z.delivered = broadcast[r[1]].delivered + Bit(reporter[h].pc = "countDelivered")
        /\ z.read = broadcast[r[1]].read + Bit(reporter[h].pc = "countRead")
        /\ z.failed = broadcast[r[1]].failed + Bit(reporter[h].pc = "countFailed")
        /\ z.sent = broadcast[r[1]].sent - Bit(reporter[h].pc = "countFailed" /\ reporter[h].wasSent)
    BY <1>2, <2>1, Counting DEF Bit
  <2> HIDE DEF x, z
  <2>4. Told(h, r, x)
    BY <1>1, <2>1, <2>2, ReporterStepped
  <2> QED BY <1>1, <1>2, <2>1, <2>2, <2>3, <2>4, QuietStep
<1>5. CASE countFailed(h)
  <2> DEFINE x == [IdleReporter EXCEPT !.todo = reporter[h].todo]
             z == [broadcast[r[1]] EXCEPT !.failed = broadcast[r[1]].failed + 1,
                     !.sent = IF reporter[h].wasSent THEN broadcast[r[1]].sent - 1 ELSE broadcast[r[1]].sent]
  <2>1. /\ reporter[h].pc = "countFailed"
        /\ broadcast' = [broadcast EXCEPT ![r[1]] = z] /\ reporter' = [reporter EXCEPT ![h] = x]
    BY <1>5 DEF countFailed, Reported
  <2>2. x \in ReporterType /\ x.pc = "idle"
    BY ReporterRecords
  <2>3. /\ z \in BroadcastType /\ z.status = broadcast[r[1]].status
        /\ z.delivered = broadcast[r[1]].delivered /\ z.read = broadcast[r[1]].read
        /\ z.failed = broadcast[r[1]].failed + 1
        /\ z.sent = IF reporter[h].wasSent THEN broadcast[r[1]].sent - 1 ELSE broadcast[r[1]].sent
    <3>1. broadcast[r[1]].sent \in Int /\ broadcast[r[1]].failed + 1 \in Nat /\ broadcast[r[1]].sent - 1 \in Int
      BY <1>2, Counting
    <3> QED BY <1>2, <3>1 DEF BroadcastType
  <2>4. /\ z.delivered = broadcast[r[1]].delivered + Bit(reporter[h].pc = "countDelivered")
        /\ z.read = broadcast[r[1]].read + Bit(reporter[h].pc = "countRead")
        /\ z.failed = broadcast[r[1]].failed + Bit(reporter[h].pc = "countFailed")
        /\ z.sent = broadcast[r[1]].sent - Bit(reporter[h].pc = "countFailed" /\ reporter[h].wasSent)
    BY <1>2, <2>1, <2>3, Counting DEF Bit
  <2> HIDE DEF x, z
  <2>5. Told(h, r, x)
    BY <1>1, <2>1, <2>2, ReporterStepped
  <2> QED BY <1>1, <1>2, <2>1, <2>2, <2>3, <2>4, <2>5, QuietStep
<1> QED BY <1>3, <1>4, <1>5

LEMMA ReportFailsStep ==
  ASSUME BInv, NEW h \in Reporters, NEW left \in {reporter[h].todo, {}}, reportFails(h, left)
  PROVE  BInv'
<1> DEFINE x == [IdleReporter EXCEPT !.todo = left]
<1>1. /\ mishaps' \in 0..MaxMishaps
      /\ miscounted' = miscounted \cup ({reporter[h].row} \X Unreported(h))
      /\ reporter' = [reporter EXCEPT ![h] = x]
      /\ UNCHANGED <<broadcast, row, worker, cancelling, billed, fate, resendOf, unrecorded, early, cut>>
  BY Mishappened DEF reportFails, Miscount, provider
<1>2. x \in ReporterType /\ x.pc = "idle"
  BY ReporterRecords
<1> HIDE DEF x
<1>3. CASE reporter[h].pc = "idle"
  <2>1. miscounted' = miscounted
    BY <1>1, <1>3 DEF Unreported
  <2> QED BY <1>1, <1>2, <1>3, <2>1, PollStep
<1>4. CASE reporter[h].pc # "idle"
  <2> PICK r \in Rows : reporter[h].row = r
    BY <1>4, ReporterRecords
  <2>1. /\ r[1] \in Campaigns /\ broadcast[r[1]] \in BroadcastType /\ OnRow(h, r)
        /\ broadcast = [broadcast EXCEPT ![r[1]] = broadcast[r[1]]]
    BY <1>4, RowParts DEF BInv, Shape, OnRow
  <2>2. /\ Unreported(h) \subseteq Counters
        /\ reporter[h].pc = "countDelivered" => "delivered" \in Unreported(h)
        /\ reporter[h].pc = "countRead" => "read" \in Unreported(h)
        /\ reporter[h].pc = "countFailed" => "failed" \in Unreported(h) /\ "sent" \in Unreported(h)
    BY DEF Unreported, Counters
  <2>3. /\ miscounted \subseteq miscounted' /\ miscounted' \subseteq Rows \X Counters
        /\ reporter[h].pc = "countDelivered" => <<r, "delivered">> \in miscounted'
        /\ reporter[h].pc = "countRead" => <<r, "read">> \in miscounted'
        /\ reporter[h].pc = "countFailed" => <<r, "failed">> \in miscounted' /\ <<r, "sent">> \in miscounted'
    BY <1>1, <2>2 DEF BInv, Shape
  <2> DEFINE z == broadcast[r[1]]
  <2>4. /\ z \in BroadcastType /\ broadcast' = [broadcast EXCEPT ![r[1]] = z]
        /\ z.status = broadcast[r[1]].status
        /\ \/ z.delivered = broadcast[r[1]].delivered + Bit(reporter[h].pc = "countDelivered")
           \/ z.delivered = broadcast[r[1]].delivered /\ <<r, "delivered">> \in miscounted'
        /\ \/ z.read = broadcast[r[1]].read + Bit(reporter[h].pc = "countRead")
           \/ z.read = broadcast[r[1]].read /\ <<r, "read">> \in miscounted'
        /\ \/ /\ z.failed = broadcast[r[1]].failed + Bit(reporter[h].pc = "countFailed")
              /\ z.sent = broadcast[r[1]].sent
                            - Bit(reporter[h].pc = "countFailed" /\ reporter[h].wasSent)
           \/ /\ z.failed = broadcast[r[1]].failed /\ <<r, "failed">> \in miscounted'
              /\ z.sent = broadcast[r[1]].sent /\ <<r, "sent">> \in miscounted'
    BY <1>1, <2>1, <2>3, Counting DEF Bit
  <2> HIDE DEF z
  <2>5. Told(h, r, x)
    BY <1>1, <1>2, ReporterStepped
  <2>6. /\ UNCHANGED <<row, worker, cancelling, billed, fate, resendOf, unrecorded, early, cut>>
        /\ mishaps' \in 0..MaxMishaps
    BY <1>1
  <2> QED BY <1>2, <2>1, <2>3, <2>4, <2>5, <2>6, QuietStep
<1> QED BY <1>3, <1>4

LEMMA PollSteps ==
  ASSUME BInv, NEW h \in Reporters,
         Poll(h) \/ \E r \in reporter[h].todo : pollNothingNew(h, r)
  PROVE  BInv'
<1>1. /\ reporter[h].pc = "idle"
      /\ UNCHANGED <<broadcast, row, worker, cancelling, billed, fate, resendOf, mishaps, unrecorded, early,
                     miscounted, cut>>
  BY DEF Poll, reconcile, pollNothingNew, provider, ghosts
<1>2. PICK S \in SUBSET Rows : reporter' = [reporter EXCEPT ![h] = [reporter[h] EXCEPT !.todo = S]]
  <2>1. CASE Poll(h)
    BY <2>1 DEF Poll, reconcile
  <2>2. CASE \E r \in reporter[h].todo : pollNothingNew(h, r)
    <3>1. PICK r \in reporter[h].todo :
             reporter' = [reporter EXCEPT ![h] = [reporter[h] EXCEPT !.todo = reporter[h].todo \ {r}]]
      BY <2>2 DEF pollNothingNew
    <3>2. reporter[h].todo \ {r} \in SUBSET Rows
      BY ReporterRecords
    <3> QED BY <3>1, <3>2
  <2> QED BY <2>1, <2>2
<1> DEFINE x == [reporter[h] EXCEPT !.todo = S]
<1>3. x \in ReporterType /\ x.pc = "idle" /\ reporter' = [reporter EXCEPT ![h] = x]
  BY <1>1, <1>2, ReporterRecords
<1> HIDE DEF x
<1>4. mishaps' \in 0..MaxMishaps
  BY <1>1 DEF BInv, Shape
<1> QED BY <1>1, <1>3, <1>4, PollStep

-----------------------------------------------------------------------------
LEMMA BInvInit == Init => BInv
<1> SUFFICES ASSUME Init PROVE BInv
  OBVIOUS
<1>1. /\ broadcast = [b \in Campaigns |-> NoBroadcast] /\ row = [r \in Rows |-> NotSent]
      /\ worker = [w \in Workers |-> IdleWorker] /\ reporter = [h \in Reporters |-> IdleReporter]
      /\ cancelling = {}
      /\ billed = [r \in Rows |-> 0] /\ fate = [r \in Rows |-> "none"]
      /\ resendOf = [b \in Campaigns |-> b]
      /\ mishaps = 0 /\ unrecorded = {} /\ early = {} /\ miscounted = {} /\ cut = {}
  BY DEF Init
<1>2. /\ NoBroadcast \in BroadcastType /\ NoBroadcast.sent = 0 /\ NoBroadcast.delivered = 0
      /\ NoBroadcast.read = 0 /\ NoBroadcast.failed = 0
  BY DEF NoBroadcast, BroadcastType, CampaignStatuses
<1>3. \A w \in Workers, r \in Rows : /\ ~AtRow(w, r) /\ ~WorkerAt(w, "sent", r)
                                     /\ ~WorkerAt(w, "countSent", r) /\ ~WorkerAt(w, "countFailed", r)
  BY <1>1, BlankWorker DEF AtRow, WorkerAt, Elsewhere
<1>4. \A h \in Reporters, r \in Rows :
        /\ ~OnRow(h, r) /\ ~Failing(h, r) /\ ~TakingBack(h, r)
        /\ ~ReporterAt(h, "countDelivered", r) /\ ~ReporterAt(h, "countRead", r)
        /\ ~ReporterAt(h, "countFailed", r)
  BY <1>1, BlankReporter DEF OnRow, Failing, TakingBack, ReporterAt
<1>5. Shape
  BY <1>1, <1>2, BlankRows, BlankWorker, BlankReporter, BroadcastAssumption DEF Shape, Elsewhere
<1>6. ASSUME NEW r \in Rows PROVE RowInv(r)
  <2>1. /\ row[r].status = "NONE" /\ ~row[r].deliveredAt /\ ~row[r].readAt
        /\ billed[r] = 0 /\ fate[r] = "none"
    BY <1>1, BlankRows
  <2> QED BY <1>3, <1>4, <2>1 DEF RowInv, Exclusive, Fates, Bills, Notes, Once
<1>7. Unborn /\ Resent
  BY <1>1, RowParts DEF Unborn, Resent
<1>8. ASSUME NEW b \in Campaigns PROVE CountsOf(b)
  <2>1. /\ {r \in RowsOf(b) : DeliveryCounted(r)} = {} /\ {r \in RowsOf(b) : ReadingCounted(r)} = {}
        /\ {r \in RowsOf(b) : FailureCounted(r)} = {} /\ {r \in RowsOf(b) : ToCount(r)} = {}
        /\ {r \in RowsOf(b) : Sent(r)} = {} /\ {r \in RowsOf(b) : Reached(r)} = {}
    BY <1>1, <1>3, <1>4, BlankRows
      DEF RowsOf, DeliveryCounted, ReadingCounted, FailureCounted, ToCount, ToTakeBack, Sent, Reached
  <2>2. /\ broadcast[b].sent = 0 /\ broadcast[b].delivered = 0
        /\ broadcast[b].read = 0 /\ broadcast[b].failed = 0
    BY <1>1, <1>2
  <2>3. Cardinality({}) = 0
    BY FS_EmptySet
  <2> QED BY <2>1, <2>2, <2>3 DEF CountsOf
<1> QED BY <1>5, <1>6, <1>7, <1>8 DEF BInv, Counts

LEMMA BInvNext == BInv /\ [Next]_vars => BInv'
<1> SUFFICES ASSUME BInv, [Next]_vars PROVE BInv'
  OBVIOUS
<1>1. CASE Operators
  BY <1>1, CreateStep, ResendStep, CancelReadStep, CancelStep, BroadcastAssumption DEF Operators
<1>2. ASSUME NEW w \in Workers, DrainStep(w) \/ drain(w, {}) \/ Mishaps(w) PROVE BInv'
  <2>1. /\ Scheduled \in SUBSET {b \in Campaigns : broadcast[b].status # "NONE"}
        /\ {} \in SUBSET {b \in Campaigns : broadcast[b].status # "NONE"}
        /\ worker[w].todo \subseteq Rows /\ worker[w].touched \subseteq Campaigns
    BY DEF Scheduled, BInv, Shape, WorkerType
  <2>2. CASE drain(w, {}) \/ drain(w, Scheduled)
    BY <2>1, <2>2, DrainStarts
  <2>3. CASE \E r \in worker[w].todo : claim(w, r)
    BY <2>1, <2>3, ClaimStep
  <2>4. CASE sendAccepted(w) \/ sendRefused(w) \/ sendUnanswered(w)
    BY <2>4, SendSteps
  <2>5. CASE recordRefused(w) \/ recordSent(w) \/ recordUnanswered(w)
    BY <2>5, RecordSteps
  <2>6. CASE countRefused(w) \/ countSent(w) \/ recordFails(w) \/ countSentFails(w)
    BY <2>6, CountSteps
  <2>7. CASE \E b \in worker[w].touched : finalizeBroadcastIfDone(w, b)
    BY <2>1, <2>7, FinalizeStep
  <2>8. CASE countSentAgain(w) \/ drainDies(w)
    BY <2>8, CountSentAgainStep, DrainDiesStep
  <2> QED BY <1>2, <2>2, <2>3, <2>4, <2>5, <2>6, <2>7, <2>8 DEF DrainStep, Mishaps
<1>3. ASSUME NEW r \in Rows, NEW f \in {"delivered", "failed"}, ProviderDecides(r, f) PROVE BInv'
  BY <1>3, DecideStep
<1>4. ASSUME NEW h \in Reporters,
             \/ ReporterStep(h) \/ Poll(h)
             \/ \E left \in {reporter[h].todo, {}} : reportFails(h, left)
             \/ \E r \in Rows : report(h, r)
      PROVE  BInv'
  <2>1. reporter[h].todo \subseteq Rows
    BY ReporterRecords
  <2>2. CASE \E r \in Rows : report(h, r)
    BY <2>2, MarkSteps
  <2>3. CASE \E r \in reporter[h].todo : report(h, r)
    BY <2>1, <2>3, MarkSteps
  <2>4. CASE Poll(h) \/ \E r \in reporter[h].todo : pollNothingNew(h, r)
    BY <2>4, PollSteps
  <2>5. CASE countDelivered(h) \/ countRead(h) \/ countFailed(h)
    BY <2>5, ReportCountSteps
  <2>6. CASE markReadDelivered(h)
    BY <2>6, ReadDeliveredStep
  <2>7. CASE markFailed(h)
    BY <2>7, MarkFailedStep
  <2>8. CASE \E left \in {reporter[h].todo, {}} : reportFails(h, left)
    BY <2>8, ReportFailsStep
  <2> QED BY <1>4, <2>2, <2>3, <2>4, <2>5, <2>6, <2>7, <2>8 DEF ReporterStep
<1>5. CASE UNCHANGED vars
  <2>1. UNCHANGED <<broadcast, row, worker, cancelling, reporter, billed, fate, resendOf,
                    mishaps, unrecorded, early, miscounted, cut>>
    BY <1>5 DEF vars, provider, ghosts
  <2>2. Shape' /\ Unborn' /\ Resent'
    BY <2>1 DEF BInv, Shape, Unborn, Resent
  <2>3. (\A r \in Rows : Apart(r)) /\ (\A b \in Campaigns : SameCounters(b)) /\ Grown
    BY <2>1, ActorsKept DEF SameCounters, Grown
  <2> QED BY <2>2, <2>3, PeacefulStep DEF BInv
<1> QED BY <1>1, <1>2, <1>3, <1>4, <1>5 DEF Next

(* Whatever drains, reports and mishaps overlap, the state is well formed,   *)
(* and the count of those sent falls below zero only while the send of a     *)
(* row that was reported failed is yet to be counted, or if the note or the  *)
(* count of a send was lost.                                                 *)
THEOREM BroadcastTypeCorrect == Spec => []TypeOK
<1>1. BInv => TypeOK
  <2> SUFFICES ASSUME BInv PROVE TypeOK
    OBVIOUS
  <2>1. ASSUME NEW b \in Campaigns, broadcast[b].sent < 0,
               ~(RowsOf(b) \cap unrecorded # {}), ~Miscounted(b, "sent")
        PROVE  \E w \in Workers : worker[w].pc = "countSent" /\ worker[w].row[1] = b
    <3> DEFINE C == {r \in RowsOf(b) : ToCount(r)}
               S == {r \in RowsOf(b) : Sent(r)}
    <3>1. C \in SUBSET Rows /\ S \in SUBSET Rows
      BY DEF RowsOf
    <3>2. Cardinality(C) \in Nat /\ Cardinality(S) \in Nat /\ broadcast[b].sent \in Int
      BY <3>1, PartsFinite DEF BInv, Shape, BroadcastType
    <3>3. broadcast[b].sent + Cardinality(C) >= Cardinality(S)
      BY <2>1 DEF BInv, Counts, CountsOf
    <3>4. C # {}
      BY <2>1, <3>2, <3>3, FS_EmptySet
    <3>5. PICK r \in RowsOf(b) : ToCount(r)
      BY <3>4
    <3> QED BY <3>5 DEF ToCount, WorkerAt, RowsOf
  <2>2. \A b \in Campaigns :
          /\ broadcast[b].status \in {"NONE", "SCHEDULED", "SENDING", "SENT", "CANCELLED"}
          /\ broadcast[b].sent \in Int
          /\ {broadcast[b].delivered, broadcast[b].read, broadcast[b].failed} \subseteq Nat
    BY DEF BInv, Shape, BroadcastType, CampaignStatuses
  <2>3. \A r \in Rows :
          /\ row[r].status \in {"NONE", "QUEUED", "SENDING", "SENT", "DELIVERED", "READ",
                                "FAILED", "SKIPPED"}
          /\ {row[r].deliveredAt, row[r].readAt} \subseteq BOOLEAN
          /\ billed[r] \in Nat
          /\ fate[r] \in {"none", "delivered", "failed"}
    BY DEF BInv, Shape, RowType, RowStatuses
  <2>4. \A w \in Workers :
          /\ worker[w].pc \in {"idle", "loop", "send", "sent", "refused", "countSent", "countFailed"}
          /\ worker[w].todo \subseteq Rows /\ worker[w].touched \subseteq Campaigns
          /\ worker[w].row \in Rows \cup {NoRow}
          /\ worker[w].pc \notin {"idle", "loop"} => worker[w].row \in Rows
    BY DEF BInv, Shape, WorkerType, Elsewhere
  <2>5. \A h \in Reporters :
          /\ reporter[h].pc \in {"idle", "countDelivered", "countRead", "read", "failed", "countFailed"}
          /\ reporter[h].pc # "idle" => reporter[h].row \in Rows
          /\ reporter[h].todo \subseteq Rows
    BY DEF BInv, Shape, ReporterType
  <2>6. /\ cancelling \subseteq Campaigns /\ resendOf \in [Campaigns -> Campaigns]
        /\ mishaps \in 0..MaxMishaps
        /\ unrecorded \subseteq Rows /\ early \subseteq Rows /\ cut \subseteq Campaigns
        /\ miscounted \subseteq Rows \X {"sent", "delivered", "read", "failed"}
    BY DEF BInv, Shape, Counters
  <2> QED BY <2>1, <2>2, <2>3, <2>4, <2>5, <2>6 DEF TypeOK
<1> QED BY <1>1, BInvInit, BInvNext, PTL DEF Spec

(* However many servers drain the same campaign, and wherever one of them    *)
(* stops, no recipient is sent a message twice unless a send was never       *)
(* noted, a row given up in time is not sent, and a resend goes only to      *)
(* those who were not reached.                                               *)
THEOREM NobodyIsBilledTwice == Spec => []BilledOnce
<1>1. BInv => BilledOnce
  <2> SUFFICES ASSUME BInv PROVE BilledOnce
    OBVIOUS
  <2>1. \A r \in Rows \ unrecorded : billed[r] <= 1 /\ (row[r].status = "SKIPPED" => billed[r] = 0)
    BY DEF BInv, RowInv, Bills
  <2>2. \A b \in Campaigns, p \in Phones :
          LET first == <<resendOf[b], p>>
          IN  resendOf[b] # b /\ row[<<b, p>>].status # "NONE" /\ first \notin unrecorded
                => billed[first] = 0 \/ fate[first] = "failed"
    BY DEF BInv, Resent
  <2> QED BY <2>1, <2>2 DEF BilledOnce
<1> QED BY <1>1, BInvInit, BInvNext, PTL DEF Spec

(* The counters of a campaign are those of its rows whenever no drain is at  *)
(* a row and no report is under way, whatever overlapped before: unless an   *)
(* increment was lost or repeated (miscounted), and, of those sent and       *)
(* failed, a note was lost or overtaken by its report.                       *)
THEOREM CountersAreTheRows == Spec => []CountersMatchRows
<1>1. BInv => CountersMatchRows
  <2> SUFFICES ASSUME BInv, AtRest, NEW b \in Campaigns
               PROVE  /\ \/ Miscounted(b, "delivered")
                         \/ broadcast[b].delivered = Cardinality({r \in RowsOf(b) : row[r].deliveredAt})
                      /\ \/ Miscounted(b, "read")
                         \/ broadcast[b].read = Cardinality({r \in RowsOf(b) : row[r].readAt})
                      /\ \/ RowsOf(b) \cap (early \cup unrecorded) # {} \/ Miscounted(b, "sent")
                         \/ broadcast[b].sent
                              = Cardinality(RowsOf(b) \cap WithStatus({"SENT", "DELIVERED", "READ"}))
                      /\ \/ RowsOf(b) \cap (early \cup unrecorded) # {} \/ Miscounted(b, "failed")
                         \/ broadcast[b].failed = Cardinality(RowsOf(b) \cap WithStatus({"FAILED"}))
    BY DEF CountersMatchRows
  <2>1. /\ \A w \in Workers, r \in Rows : ~WorkerAt(w, "countSent", r) /\ ~WorkerAt(w, "countFailed", r)
        /\ \A h \in Reporters, r \in Rows :
             /\ ~ReporterAt(h, "countDelivered", r) /\ ~ReporterAt(h, "countRead", r)
             /\ ~ReporterAt(h, "countFailed", r) /\ ~TakingBack(h, r)
    BY DEF AtRest, WorkerAt, ReporterAt, TakingBack
  <2>2. /\ {r \in RowsOf(b) : DeliveryCounted(r)} = {r \in RowsOf(b) : row[r].deliveredAt}
        /\ {r \in RowsOf(b) : ReadingCounted(r)} = {r \in RowsOf(b) : row[r].readAt}
        /\ {r \in RowsOf(b) : FailureCounted(r)} = RowsOf(b) \cap WithStatus({"FAILED"})
        /\ {r \in RowsOf(b) : ToCount(r)} = {}
        /\ {r \in RowsOf(b) : Reached(r)} = RowsOf(b) \cap WithStatus({"SENT", "DELIVERED", "READ"})
    BY <2>1 DEF RowsOf, WithStatus, DeliveryCounted, ReadingCounted, FailureCounted, ToCount, ToTakeBack,
                Reached
  <2>3. Cardinality({}) = 0 /\ broadcast[b].sent \in Int /\ CountsOf(b)
    BY FS_EmptySet DEF BInv, Shape, BroadcastType, Counts
  <2>4. /\ ~Miscounted(b, "delivered") =>
             broadcast[b].delivered = Cardinality({r \in RowsOf(b) : DeliveryCounted(r)})
        /\ ~Miscounted(b, "read") =>
             broadcast[b].read = Cardinality({r \in RowsOf(b) : ReadingCounted(r)})
        /\ ~Miscounted(b, "sent") /\ RowsOf(b) \cap (early \cup unrecorded) = {} =>
             broadcast[b].sent + Cardinality({r \in RowsOf(b) : ToCount(r)})
               = Cardinality({r \in RowsOf(b) : Reached(r)})
        /\ ~Miscounted(b, "failed") /\ RowsOf(b) \cap (early \cup unrecorded) = {} =>
             broadcast[b].failed = Cardinality({r \in RowsOf(b) : FailureCounted(r)})
    BY <2>3, Zenon DEF CountsOf
  <2>5. broadcast[b].sent + Cardinality({r \in RowsOf(b) : ToCount(r)}) = broadcast[b].sent
    BY <2>2, <2>3
  <2>6. /\ ~Miscounted(b, "delivered") =>
             broadcast[b].delivered = Cardinality({r \in RowsOf(b) : row[r].deliveredAt})
        /\ ~Miscounted(b, "read") =>
             broadcast[b].read = Cardinality({r \in RowsOf(b) : row[r].readAt})
    BY <2>2, <2>4, Zenon
  <2>7. /\ ~Miscounted(b, "sent") /\ RowsOf(b) \cap (early \cup unrecorded) = {} =>
             broadcast[b].sent = Cardinality(RowsOf(b) \cap WithStatus({"SENT", "DELIVERED", "READ"}))
        /\ ~Miscounted(b, "failed") /\ RowsOf(b) \cap (early \cup unrecorded) = {} =>
             broadcast[b].failed = Cardinality(RowsOf(b) \cap WithStatus({"FAILED"}))
    BY <2>2, <2>4, <2>5, Zenon
  <2> QED BY <2>6, <2>7, Zenon
<1> QED BY <1>1, BInvInit, BInvNext, PTL DEF Spec
=============================================================================
