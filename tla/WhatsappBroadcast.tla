------------------------- MODULE WhatsappBroadcast -------------------------
(***************************************************************************)
(* WhatsApp campaigns (src/api/src/whatsapp-broadcasts/).  An operator     *)
(* creates a campaign with one QUEUED row per recipient; a worker in every *)
(* server process claims the rows one after the other and has the provider *)
(* send the message, which is billed; reports of the provider, pushed to a *)
(* webhook or polled, move the rows on; counters summarise them.           *)
(*                                                                         *)
(* Reports may be lost, repeated, reordered, and arrive before the worker  *)
(* has noted that it sent the message.  Sends may be answered late or not  *)
(* at all, writes fail, processes end: each of these is a mishap, and      *)
(* MaxMishaps bounds their number.                                         *)
(*                                                                         *)
(* A row's update and the increment that follows it are two statements,    *)
(* between which the process may end and others may act.                   *)
(***************************************************************************)
EXTENDS Integers, FiniteSets

CONSTANTS
  Campaigns,
  Originals,      \* the campaigns that are not resends
  Cancellable,    \* the campaigns an operator may want to cancel
  Phones,
  Workers,        \* server processes, each of which runs one drain at a time
  Reporters,      \* reports being applied at the same time
  PollBatch,      \* rows a poll takes
  MaxMishaps

ASSUME BroadcastAssumption ==
  /\ IsFiniteSet(Campaigns) /\ IsFiniteSet(Phones)
  /\ Originals \subseteq Campaigns /\ Cancellable \subseteq Campaigns
  /\ PollBatch \in Nat /\ MaxMishaps \in Nat

Rows == Campaigns \X Phones       \* row <<b, p>>: the recipient p of campaign b
NoRow == <<>>

VARIABLES
  broadcast,   \* campaigns: status and the four counters
  row,         \* recipient rows: status, deliveredAt, readAt (set or not)
  worker,      \* the drains
  cancelling,  \* campaigns found cancellable by a request that has yet to write
  reporter,    \* the reports under way
  billed,      \* messages of a row that the provider accepted
  fate,        \* what became of the message: delivered (and maybe read), failed
  resendOf,    \* the campaign whose failed rows a campaign sends again
  mishaps,     \* how many went wrong so far, and which ...
  unrecorded,  \* ... rows were sent without the worker noting it, ...
  early,       \* ... were reported on before the worker noted that they were sent,
  miscounted,  \* ... rows were counted never or twice, and in which counter, and ...
  cut          \* ... campaigns had a drain end before it rolled them up

vars == <<broadcast, row, worker, cancelling, reporter, billed, fate, resendOf,
          mishaps, unrecorded, early, miscounted, cut>>
provider == <<billed, fate>>
ghosts == <<mishaps, unrecorded, early, miscounted, cut>>

NoBroadcast == [status |-> "NONE", sent |-> 0, delivered |-> 0, read |-> 0, failed |-> 0]
NotSent == [status |-> "NONE", deliveredAt |-> FALSE, readAt |-> FALSE]
Queued == [NotSent EXCEPT !.status = "QUEUED"]
IdleWorker == [pc |-> "idle", todo |-> {}, touched |-> {}, row |-> NoRow]
IdleReporter == [pc |-> "idle", todo |-> {}, row |-> NoRow, wasSent |-> FALSE]

Init ==
  /\ broadcast = [b \in Campaigns |-> NoBroadcast]
  /\ row = [r \in Rows |-> NotSent]
  /\ worker = [w \in Workers |-> IdleWorker]
  /\ cancelling = {}
  /\ reporter = [h \in Reporters |-> IdleReporter]
  /\ billed = [r \in Rows |-> 0]
  /\ fate = [r \in Rows |-> "none"]
  /\ resendOf = [b \in Campaigns |-> b]
  /\ mishaps = 0 /\ unrecorded = {} /\ early = {} /\ miscounted = {} /\ cut = {}

RowsOf(b) == {r \in Rows : r[1] = b}
WithStatus(S) == {r \in Rows : row[r].status \in S}

Mishap == /\ mishaps < MaxMishaps
          /\ mishaps' = mishaps + 1

-----------------------------------------------------------------------------
(* Operators.  A request repeated within the window is answered with the     *)
(* campaign there is, which is no step.  (The test is a read: of two at the  *)
(* same time each makes a campaign, and nothing relates the two.)            *)
create(b, status) ==
  /\ broadcast[b].status = "NONE"
  /\ broadcast' = [broadcast EXCEPT ![b].status = status]
  /\ row' = [r \in Rows |-> IF r \in RowsOf(b) THEN Queued ELSE row[r]]
  /\ UNCHANGED <<worker, cancelling, reporter, provider, resendOf, ghosts>>

Resendable(b) == {p \in Phones : row[<<b, p>>].status = "FAILED"}

(* The failed recipients of b get a campaign b2 of their own.                *)
resendFailed(b, b2) ==
  /\ broadcast[b].status # "NONE" /\ broadcast[b2].status = "NONE"
  /\ Resendable(b) # {}
  /\ broadcast' = [broadcast EXCEPT ![b2].status = "SENDING"]
  /\ row' = [r \in Rows |-> IF r[1] = b2 /\ r[2] \in Resendable(b) THEN Queued ELSE row[r]]
  /\ resendOf' = [resendOf EXCEPT ![b2] = b]
  /\ UNCHANGED <<worker, cancelling, reporter, provider, ghosts>>

cancelRead(b) ==
  /\ broadcast[b].status \in {"SCHEDULED", "SENDING"}
  /\ cancelling' = cancelling \cup {b}
  /\ UNCHANGED <<broadcast, row, worker, reporter, provider, resendOf, ghosts>>

Skippable == {"QUEUED"}

(* ... writes the campaign's status whatever it is by then.                  *)
cancel(b) ==
  /\ b \in cancelling
  /\ cancelling' = cancelling \ {b}
  /\ broadcast' = [broadcast EXCEPT ![b].status = "CANCELLED"]
  /\ row' = [r \in Rows |-> IF r \in RowsOf(b) \cap WithStatus(Skippable)
                            THEN [row[r] EXCEPT !.status = "SKIPPED"] ELSE row[r]]
  /\ UNCHANGED <<worker, reporter, provider, resendOf, ghosts>>

-----------------------------------------------------------------------------
(* The worker.  A drain promotes the campaigns that are due, requeues the    *)
(* rows stranded in SENDING and reads what is queued.  The reaper's window   *)
(* is long against a send: a row a drain is at is not stranded.  (Only a row *)
(* noted as sent has a request id: the reaper's test for none follows from   *)
(* the status.)                                                              *)
AtWork(r) == \E w \in Workers : worker[w].pc # "idle" /\ worker[w].row = r

NeverStranded(r) == FALSE          \* mutant: there is no reaper

Stranded(r) == row[r].status = "SENDING" /\ broadcast[r[1]].status = "SENDING" /\ ~AtWork(r)

Requeued(r) == IF Stranded(r) THEN [row[r] EXCEPT !.status = "QUEUED"] ELSE row[r]

drain(w, due) ==
  LET sending == due \cup {b \in Campaigns : broadcast[b].status = "SENDING"}
      found == {r \in Rows : r[1] \in sending /\ Requeued(r).status = "QUEUED"}
  IN  /\ worker[w].pc = "idle"
      /\ broadcast' = [b \in Campaigns |-> IF b \in due THEN [broadcast[b] EXCEPT !.status = "SENDING"]
                                           ELSE broadcast[b]]
      /\ row' = [r \in Rows |-> Requeued(r)]
      /\ worker' = IF found = {} THEN worker ELSE [worker EXCEPT ![w] =
                     [pc |-> "loop", todo |-> found, touched |-> {r[1] : r \in found}, row |-> NoRow]]
      /\ UNCHANGED <<cancelling, reporter, provider, resendOf, ghosts>>

ClaimableUnsent(r) == row[r].status \in {"QUEUED", "SENDING"}    \* mutant: no claim
Claimable(r) == row[r].status = "QUEUED"

claim(w, r) ==
  /\ worker[w].pc = "loop"
  /\ worker' = [worker EXCEPT ![w].todo = @ \ {r},
                              ![w].row = IF Claimable(r) THEN r ELSE NoRow,
                              ![w].pc = IF Claimable(r) THEN "send" ELSE "loop"]
  /\ row' = [row EXCEPT ![r].status = IF Claimable(r) THEN "SENDING" ELSE @]
  /\ UNCHANGED <<broadcast, cancelling, reporter, provider, resendOf, ghosts>>

(* The provider accepts the message, or refuses it (a throw), or accepts it  *)
(* and its answer is lost, which the worker sees as a throw.                 *)
sendAccepted(w) ==
  /\ worker[w].pc = "send"
  /\ worker' = [worker EXCEPT ![w].pc = "sent"]
  /\ billed' = [billed EXCEPT ![worker[w].row] = @ + 1]
  /\ UNCHANGED <<broadcast, row, cancelling, reporter, fate, resendOf, ghosts>>

sendRefused(w) ==
  /\ worker[w].pc = "send"
  /\ worker' = [worker EXCEPT ![w].pc = "refused"]
  /\ UNCHANGED <<broadcast, row, cancelling, reporter, provider, resendOf, ghosts>>

sendUnanswered(w) ==
  /\ worker[w].pc = "send"
  /\ Mishap
  /\ worker' = [worker EXCEPT ![w].pc = "refused"]
  /\ billed' = [billed EXCEPT ![worker[w].row] = @ + 1]
  /\ unrecorded' = unrecorded \cup {worker[w].row}
  /\ UNCHANGED <<broadcast, row, cancelling, reporter, fate, resendOf, early, miscounted, cut>>

Miscount(r, counters) == miscounted' = miscounted \cup ({r} \X counters)

(* The outcome is written by the row's id, whatever its status is by then,   *)
(* and counted by a statement of its own.                                    *)
recordRefused(w) ==
  /\ worker[w].pc = "refused"
  /\ row' = [row EXCEPT ![worker[w].row].status = "FAILED"]
  /\ worker' = [worker EXCEPT ![w].pc = "countFailed"]
  /\ UNCHANGED <<broadcast, cancelling, reporter, provider, resendOf, ghosts>>

countRefused(w) ==
  /\ worker[w].pc = "countFailed"
  /\ broadcast' = [broadcast EXCEPT ![worker[w].row[1]].failed = @ + 1]
  /\ worker' = [worker EXCEPT ![w].pc = "loop", ![w].row = NoRow]
  /\ UNCHANGED <<row, cancelling, reporter, provider, resendOf, ghosts>>

recordSent(w) ==
  /\ worker[w].pc = "sent"
  /\ row' = [row EXCEPT ![worker[w].row].status = "SENT"]
  /\ worker' = [worker EXCEPT ![w].pc = "countSent"]
  /\ UNCHANGED <<broadcast, cancelling, reporter, provider, resendOf, ghosts>>

countSent(w) ==
  /\ worker[w].pc = "countSent"
  /\ broadcast' = [broadcast EXCEPT ![worker[w].row[1]].sent = @ + 1]
  /\ worker' = [worker EXCEPT ![w].pc = "loop", ![w].row = NoRow]
  /\ UNCHANGED <<row, cancelling, reporter, provider, resendOf, ghosts>>

(* Both are retried (withRetry).  All retries may fail, ...                  *)
recordFails(w) ==
  /\ worker[w].pc = "sent"
  /\ Mishap
  /\ worker' = [worker EXCEPT ![w].pc = "loop", ![w].row = NoRow]
  /\ unrecorded' = unrecorded \cup {worker[w].row}
  /\ UNCHANGED <<broadcast, row, cancelling, reporter, provider, resendOf, early, miscounted, cut>>

countSentFails(w) ==
  /\ worker[w].pc = "countSent"
  /\ Mishap
  /\ worker' = [worker EXCEPT ![w].pc = "loop", ![w].row = NoRow]
  /\ Miscount(worker[w].row, {"sent"})
  /\ UNCHANGED <<broadcast, row, cancelling, reporter, provider, resendOf, unrecorded, early, cut>>

(* ... or one takes effect, its answer is lost and another follows, which    *)
(* overwrites what was reported in between.  (If no retry is left, it is as  *)
(* if the count had failed.)                                                 *)
recordUnanswered(w) ==
  /\ worker[w].pc = "sent"
  /\ Mishap
  /\ row' = [row EXCEPT ![worker[w].row].status = "SENT"]
  /\ Miscount(worker[w].row, {"sent"})
  /\ UNCHANGED <<broadcast, worker, cancelling, reporter, provider, resendOf, unrecorded, early, cut>>

countSentAgain(w) ==
  LET r == worker[w].row
  IN  /\ worker[w].pc = "countSent"
      /\ Mishap
      /\ broadcast' = [broadcast EXCEPT ![r[1]].sent = @ + 1]
      /\ Miscount(r, {"sent"})
      /\ UNCHANGED <<row, worker, cancelling, reporter, provider, resendOf, unrecorded, early, cut>>

(* When the loop is over the drain rolls up each campaign it met that has no *)
(* row left to send (none can come back, so the count and the guarded update *)
(* that follows it are one step).                                            *)
Drained(b) == \A p \in Phones : row[<<b, p>>].status \notin {"QUEUED", "SENDING"}

finalizeBroadcastIfDone(w, b) ==
  LET left == worker[w].touched \ {b}
  IN  /\ worker[w].pc = "loop" /\ worker[w].todo = {}
      /\ broadcast' = [broadcast EXCEPT ![b].status =
                         IF Drained(b) /\ @ = "SENDING" THEN "SENT" ELSE @]
      /\ worker' = [worker EXCEPT ![w] = IF left = {} THEN IdleWorker ELSE [@ EXCEPT !.touched = left]]
      /\ UNCHANGED <<row, cancelling, reporter, provider, resendOf, ghosts>>

(* The process ends, or a statement of the drain throws.                     *)
Uncounted(pc) == CASE pc = "countSent" -> {"sent"} [] pc = "countFailed" -> {"failed"} [] OTHER -> {}

drainDies(w) ==
  LET r == worker[w].row
  IN  /\ worker[w].pc # "idle"
      /\ Mishap
      /\ unrecorded' = IF worker[w].pc = "sent" THEN unrecorded \cup {r} ELSE unrecorded
      /\ Miscount(r, Uncounted(worker[w].pc))
      /\ cut' = cut \cup {b \in worker[w].touched : Drained(b) /\ broadcast[b].status = "SENDING"}
      /\ worker' = [worker EXCEPT ![w] = IdleWorker]
      /\ UNCHANGED <<broadcast, row, cancelling, reporter, provider, resendOf, early>>

-----------------------------------------------------------------------------
(* The provider delivers what it accepted, or fails to.  What is delivered   *)
(* may be read, which the provider may come to know and say, or may not.     *)
ProviderDecides(r, f) ==
  /\ billed[r] > 0
  /\ fate[r] = "none"
  /\ fate' = [fate EXCEPT ![r] = f]
  /\ UNCHANGED <<broadcast, row, worker, cancelling, reporter, billed, resendOf, ghosts>>

(* Reports.  What the provider once said of a message it may say again, and  *)
(* late: a row that is read may be reported delivered.  A webhook that       *)
(* changes nothing is not a step.  A reporter with rows to ask about is a    *)
(* poll and takes them one by one; any other is a webhook.                   *)
Asks(h, r) == /\ reporter[h].pc = "idle"
              /\ reporter[h].todo = {} \/ r \in reporter[h].todo

Reportable(r) == row[r].status \notin {"FAILED", "SKIPPED"}

(* Before the worker knows that its note of the send was written.            *)
Unnoted(r) == \/ row[r].status = "SENDING"
              \/ \E w \in Workers : worker[w].pc = "sent" /\ worker[w].row = r

NotedEarly(r) == early' = IF Unnoted(r) THEN early \cup {r} ELSE early

Reports(h, pc, r, wasSent) ==
  reporter' = [reporter EXCEPT ![h] = [pc |-> pc, row |-> r, wasSent |-> wasSent,
                                       todo |-> reporter[h].todo \ {r}]]

Reported(h) == reporter' = [reporter EXCEPT ![h] = [IdleReporter EXCEPT !.todo = reporter[h].todo]]

(* Each guarded update of a row that takes effect is counted afterwards.     *)
markDelivered(h, r) ==
  /\ Asks(h, r)
  /\ fate[r] = "delivered"
  /\ Reportable(r) /\ ~row[r].deliveredAt
  /\ row' = [row EXCEPT ![r].status = "DELIVERED", ![r].deliveredAt = TRUE]
  /\ Reports(h, "countDelivered", r, FALSE)
  /\ NotedEarly(r)
  /\ UNCHANGED <<broadcast, worker, cancelling, provider, resendOf, mishaps, unrecorded, miscounted, cut>>

countDelivered(h) ==
  /\ reporter[h].pc = "countDelivered"
  /\ broadcast' = [broadcast EXCEPT ![reporter[h].row[1]].delivered = @ + 1]
  /\ Reported(h)
  /\ UNCHANGED <<row, worker, cancelling, provider, resendOf, ghosts>>

markRead(h, r) ==
  /\ Asks(h, r)
  /\ fate[r] = "delivered"
  /\ Reportable(r) /\ ~row[r].readAt
  /\ row' = [row EXCEPT ![r].status = "READ", ![r].readAt = TRUE]
  /\ Reports(h, "countRead", r, FALSE)
  /\ NotedEarly(r)
  /\ UNCHANGED <<broadcast, worker, cancelling, provider, resendOf, mishaps, unrecorded, miscounted, cut>>

countRead(h) ==
  /\ reporter[h].pc = "countRead"
  /\ broadcast' = [broadcast EXCEPT ![reporter[h].row[1]].read = @ + 1]
  /\ reporter' = [reporter EXCEPT ![h].pc = "read"]
  /\ UNCHANGED <<row, worker, cancelling, provider, resendOf, ghosts>>

NewlyDeliveredAlways(r) == TRUE    \* mutant: what is read counts as delivered, again
NewlyDelivered(r) == ~row[r].deliveredAt

(* ... and what is read was delivered, which is counted unless it was.       *)
markReadDelivered(h) ==
  LET r == reporter[h].row
  IN  /\ reporter[h].pc = "read"
      /\ row' = [row EXCEPT ![r].deliveredAt = TRUE]
      /\ IF NewlyDelivered(r) THEN reporter' = [reporter EXCEPT ![h].pc = "countDelivered"]
                              ELSE Reported(h)
      /\ UNCHANGED <<broadcast, worker, cancelling, provider, resendOf, ghosts>>

WasSentAnyway(r) == TRUE           \* mutant: a failure always takes back a send
WasSent(r) == row[r].status = "SENT"

(* markFailed reads whether the row was SENT, ...                            *)
markFailedRead(h, r) ==
  /\ Asks(h, r)
  /\ fate[r] = "failed"
  /\ Reportable(r)
  /\ Reports(h, "failed", r, WasSent(r))
  /\ NotedEarly(r)
  /\ UNCHANGED <<broadcast, row, worker, cancelling, provider, resendOf, mishaps, unrecorded, miscounted, cut>>

(* ... fails it if it may still fail, ...                                    *)
Failable(r) == row[r].status \notin {"FAILED", "SKIPPED", "DELIVERED", "READ"}

markFailed(h) ==
  LET r == reporter[h].row
  IN  /\ reporter[h].pc = "failed"
      /\ IF Failable(r)
         THEN /\ row' = [row EXCEPT ![r].status = "FAILED"]
              /\ reporter' = [reporter EXCEPT ![h].pc = "countFailed"]
         ELSE row' = row /\ Reported(h)
      /\ UNCHANGED <<broadcast, worker, cancelling, provider, resendOf, ghosts>>

(* ... and takes it out of those sent.                                       *)
countFailed(h) ==
  LET b == reporter[h].row[1]
  IN  /\ reporter[h].pc = "countFailed"
      /\ broadcast' = [broadcast EXCEPT ![b].failed = @ + 1,
                          ![b].sent = IF reporter[h].wasSent THEN @ - 1 ELSE @]
      /\ Reported(h)
      /\ UNCHANGED <<row, worker, cancelling, provider, resendOf, ghosts>>

(* A statement throws, which both callers swallow (a poll goes on with the   *)
(* rows it has left), or the process ends.                                   *)
Unreported(h) ==
  CASE reporter[h].pc = "countRead" -> {"read", "delivered"}
    [] reporter[h].pc \in {"read", "countDelivered"} -> {"delivered"}
    [] reporter[h].pc = "countFailed" -> {"failed", "sent"}
    [] OTHER -> {}

reportFails(h, left) ==
  /\ reporter[h].pc # "idle" \/ reporter[h].todo # {}
  /\ Mishap
  /\ Miscount(reporter[h].row, Unreported(h))
  /\ reporter' = [reporter EXCEPT ![h] = [IdleReporter EXCEPT !.todo = left]]
  /\ UNCHANGED <<broadcast, row, worker, cancelling, provider, resendOf, unrecorded, early, cut>>

PolledWhenOver(r) ==               \* mutant: polls no campaign that was cancelled
  row[r].status = "SENT" /\ ~row[r].deliveredAt /\ ~row[r].readAt /\ broadcast[r[1]].status = "SENT"

(* The poll takes rows that are SENT and have no report yet: PollBatch of    *)
(* them in no order, or all if there are not more.                           *)
Polled(r) == row[r].status = "SENT" /\ ~row[r].deliveredAt /\ ~row[r].readAt

reconcile(h, S) ==
  /\ reporter[h].pc = "idle" /\ reporter[h].todo = {}
  /\ S # {}
  /\ Cardinality(S) <= PollBatch
  /\ Cardinality(S) = PollBatch \/ \A r \in Rows : Polled(r) => r \in S
  /\ reporter' = [reporter EXCEPT ![h].todo = S]
  /\ UNCHANGED <<broadcast, row, worker, cancelling, provider, resendOf, ghosts>>

(* The provider knows nothing of the message yet, or what it says is known.  *)
pollNothingNew(h, r) ==
  /\ reporter[h].pc = "idle" /\ r \in reporter[h].todo
  /\ fate[r] = "none" \/ ~Reportable(r) \/ row[r].deliveredAt \/ row[r].readAt
  /\ reporter' = [reporter EXCEPT ![h].todo = @ \ {r}]
  /\ UNCHANGED <<broadcast, row, worker, cancelling, provider, resendOf, ghosts>>

report(h, r) == markDelivered(h, r) \/ markRead(h, r) \/ markFailedRead(h, r)

-----------------------------------------------------------------------------
Operators == \E b \in Campaigns :
  \/ b \in Originals /\ \E status \in {"SENDING", "SCHEDULED"} : create(b, status)
  \/ \E b2 \in Campaigns \ Originals : resendFailed(b, b2)
  \/ b \in Cancellable /\ (cancelRead(b) \/ cancel(b))

Scheduled == {b \in Campaigns : broadcast[b].status = "SCHEDULED"}

(* What a drain does by itself, whatever the provider answers.               *)
DrainStep(w) ==
  \/ drain(w, Scheduled)
  \/ \E r \in worker[w].todo : claim(w, r)
  \/ sendAccepted(w) \/ sendRefused(w)
  \/ recordRefused(w) \/ countRefused(w) \/ recordSent(w) \/ countSent(w)
  \/ \E b \in worker[w].touched : finalizeBroadcastIfDone(w, b)

Mishaps(w) == \/ sendUnanswered(w) \/ recordFails(w) \/ recordUnanswered(w)
              \/ countSentFails(w) \/ countSentAgain(w) \/ drainDies(w)

(* What a report under way does next, or a poll about the rows it took.      *)
ReporterStep(h) ==
  \/ countDelivered(h) \/ countRead(h) \/ markReadDelivered(h) \/ markFailed(h) \/ countFailed(h)
  \/ \E r \in reporter[h].todo : report(h, r) \/ pollNothingNew(h, r)

Poll(h) == \E S \in SUBSET {r \in Rows : Polled(r)} : reconcile(h, S)

Next ==
  \/ Operators
  \/ \E w \in Workers : DrainStep(w) \/ drain(w, {}) \/ Mishaps(w)
  \/ \E r \in Rows, f \in {"delivered", "failed"} : ProviderDecides(r, f)
  \/ \E h \in Reporters : \/ ReporterStep(h) \/ Poll(h)
                          \/ \E left \in {reporter[h].todo, {}} : reportFails(h, left)
                          \/ \E r \in Rows : report(h, r)

Spec == Init /\ [][Next]_vars

(* The drain is called every thirty seconds, as is the poll: no campaign     *)
(* waits for its webhooks.  Operators and the provider need not act.         *)
FairSpec ==
  /\ Spec
  /\ WF_vars(\E w \in Workers : DrainStep(w))
  /\ \A h \in Reporters : WF_vars(ReporterStep(h) \/ Poll(h))

-----------------------------------------------------------------------------
Miscounted(b, c) == \E r \in RowsOf(b) : <<r, c>> \in miscounted

(* The state is well formed, and a failure takes the count of those sent     *)
(* below zero only while a send is yet to be counted, or if one never was.   *)
TypeOK ==
  /\ \A b \in Campaigns :
       /\ broadcast[b].status \in {"NONE", "SCHEDULED", "SENDING", "SENT", "CANCELLED"}
       /\ broadcast[b].sent \in Int
       /\ broadcast[b].sent < 0 =>
            \/ RowsOf(b) \cap unrecorded # {} \/ Miscounted(b, "sent")
            \/ \E w \in Workers : worker[w].pc = "countSent" /\ worker[w].row[1] = b
       /\ {broadcast[b].delivered, broadcast[b].read, broadcast[b].failed} \subseteq Nat
  /\ \A r \in Rows :
       /\ row[r].status \in {"NONE", "QUEUED", "SENDING", "SENT", "DELIVERED", "READ",
                             "FAILED", "SKIPPED"}
       /\ {row[r].deliveredAt, row[r].readAt} \subseteq BOOLEAN
       /\ billed[r] \in Nat
       /\ fate[r] \in {"none", "delivered", "failed"}
  /\ \A w \in Workers :
       /\ worker[w].pc \in {"idle", "loop", "send", "sent", "refused", "countSent", "countFailed"}
       /\ worker[w].todo \subseteq Rows /\ worker[w].touched \subseteq Campaigns
       /\ worker[w].row \in Rows \cup {NoRow}
       /\ worker[w].pc \notin {"idle", "loop"} => worker[w].row \in Rows
  /\ \A h \in Reporters :
       /\ reporter[h].pc \in {"idle", "countDelivered", "countRead", "read", "failed", "countFailed"}
       /\ reporter[h].pc # "idle" => reporter[h].row \in Rows
       /\ reporter[h].todo \subseteq Rows
  /\ cancelling \subseteq Campaigns
  /\ resendOf \in [Campaigns -> Campaigns]
  /\ mishaps \in 0..MaxMishaps
  /\ unrecorded \subseteq Rows /\ early \subseteq Rows /\ cut \subseteq Campaigns
  /\ miscounted \subseteq Rows \X {"sent", "delivered", "read", "failed"}

(* Nobody is sent, and billed, a message twice, and what is cancelled before *)
(* a worker claims it is not sent at all, whichever drains overlap and       *)
(* whoever dies.  A resend goes only to those the first campaign did not     *)
(* reach.  All this unless the worker never noted a send that went out.      *)
BilledOnce ==
  /\ \A r \in Rows \ unrecorded : /\ billed[r] <= 1
                                  /\ row[r].status = "SKIPPED" => billed[r] = 0
  /\ \A b \in Campaigns, p \in Phones :
       LET first == <<resendOf[b], p>>
       IN  resendOf[b] # b /\ row[<<b, p>>].status # "NONE" /\ first \notin unrecorded
             => billed[first] = 0 \/ fate[first] = "failed"

(* When nothing is under way each counter is the rows', but where an         *)
(* increment was lost or repeated: what was delivered and read in every      *)
(* other case, and what was sent and failed unless a report came before the  *)
(* worker's note of the send, or that note was lost.                         *)
AtRest == /\ \A w \in Workers : worker[w].pc \in {"idle", "loop"}
          /\ \A h \in Reporters : reporter[h].pc = "idle"

CountersMatchRows ==
  AtRest => \A b \in Campaigns :
    /\ \/ Miscounted(b, "delivered")
       \/ broadcast[b].delivered = Cardinality({r \in RowsOf(b) : row[r].deliveredAt})
    /\ \/ Miscounted(b, "read")
       \/ broadcast[b].read = Cardinality({r \in RowsOf(b) : row[r].readAt})
    /\ \/ RowsOf(b) \cap (early \cup unrecorded) # {} \/ Miscounted(b, "sent")
       \/ broadcast[b].sent = Cardinality(RowsOf(b) \cap WithStatus({"SENT", "DELIVERED", "READ"}))
    /\ \/ RowsOf(b) \cap (early \cup unrecorded) # {} \/ Miscounted(b, "failed")
       \/ broadcast[b].failed = Cardinality(RowsOf(b) \cap WithStatus({"FAILED"}))

(* "sent+failed never exceeds the recipient count" (markFailed).  It does    *)
(* when a failure is reported before the worker notes that it sent.          *)
SentAndFailedAddUp ==
  AtRest => \A b \in Campaigns :
    broadcast[b].sent + broadcast[b].failed <= Cardinality(RowsOf(b) \ WithStatus({"NONE"}))

(* There are finitely many campaigns, so that what each comes to, all come   *)
(* to for good.  A campaign being sent is over in the end, unless a drain of *)
(* it was cut short; and even then no row stays claimed for ever: the reaper *)
(* has it sent again.                                                        *)
CampaignsEnd ==
  <>[]/\ \A b \in Campaigns :
           broadcast[b].status = "SENDING" => b \in cut \/ RowsOf(b) \cap unrecorded # {}
      /\ \A r \in Rows : row[r].status = "SENDING" => broadcast[r[1]].status # "SENDING"

(* That a message was delivered, or failed, is known here in the end, with   *)
(* no webhook at all: the poll finds out, if it can take all rows that wait  *)
(* (PollBatch).  (That it was read the poll need not find out.)  A row       *)
(* reported on early may go back to SENT for good, with the time of its      *)
(* delivery; a report cut short half way is not taken up again.              *)
OutcomesArrive ==
  <>[]\A r \in Rows \ unrecorded :
        /\ fate[r] = "delivered" /\ <<r, "delivered">> \notin miscounted
             => row[r].deliveredAt /\ (r \in early \/ row[r].status \in {"DELIVERED", "READ"})
        /\ fate[r] = "failed" => row[r].status = "FAILED"
=============================================================================
