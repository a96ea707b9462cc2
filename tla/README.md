# LoyaltyBase: TLA+ models and proofs

LoyaltyBase is a multi-tenant loyalty platform: channel partners earn points,
redeem them for gifts, cash or vouchers, and operators settle what was redeemed.
This directory models the parts of it in which concurrent requests, providers and
crashes meet - points and money first, then the campaigns, sessions and
submissions around them (`src/api/src`, NestJS on Postgres) - checks the models
with TLC and proves their safety with TLAPS. Paths below are relative to
`src/api/src` unless they start with `src/`; `rewards` is
`rewards/rewards.service.ts`, `wallet` is `wallet/wallet.service.ts`, `payouts` is
`payouts/payouts.service.ts`, `credits` is `credits/credits.service.ts`, `auth` is
`auth/auth.service.ts`, `kyc` is `kyc/kyc.service.ts`, `status` and `worker` are
`whatsapp-broadcasts/whatsapp-status.service.ts` and `whatsapp-send.worker.ts`.

## 1. Inventory

### The parts with state that several requests share

| Part | State | Operations | Talks to |
|---|---|---|---|
| Wallet (`wallet`) | `Wallet` aggregates (redeemable, earned, redeemed, expired), `PointLedger` and passbook rows, `isExpired` of EARN rows | `creditEarn`, `debitRedeem`, `reverse`, `adjust`, `clawbackAward`, `expireDuePoints`, all through `applyMovement` | called inside the transactions of every other part |
| Gift redemption (`rewards`) | `RedemptionOrder` (status, pointsDeducted), `OtpCode`, stock of an item | `redeem`/`redeemForOutlet`, `confirmRedeem`/`confirmRedeemForOutlet`, `verifyRedemptionOtp`, `transitionOrder`; the vendor portal's `transition` (`vendor/vendor-portal.service.ts`) | wallet; SMS provider; payouts and Hubble after a confirmation |
| Cash payouts (`payouts`, `payout-utr.helpers.ts`) | `PayoutTransaction`, `PayoutBatch`, the order behind each transaction | `createBatch`, `assignPendingTransactions`, `processBatch`, `uploadPayoutUtr` | wallet (refunds); the bank, by files that people carry |
| Hubble vouchers (`rewards`, `hubble/`) | the order, its voucher code, `voucherProvider`, the reconcile flag in its metadata; Hubble's own record | `issueHubbleVoucherForOrder`, `reconcileHubbleOrder`, the webhook controller | wallet; Hubble over HTTP |
| Credit batches (`credits`, `tds/`) | `CreditBatch`, `CreditPayoutEntry` (status, download, tax), `PayoutDownload`, `TdsLedger`, `CreditReversal` | `createBatch`, `confirmBatch`, `createPayoutDownload`, `uploadUtr`, `createReversal`, `patchReversal` | wallet (credits, clawbacks); the bank, by files |
| WhatsApp broadcasts (`whatsapp-broadcasts/`) | campaigns with counters, a row per recipient | `create`, `resendFailed`, `cancel`; the worker's `drain` with its reaper; the webhook and the poll of `status` | the provider (MSG91) over HTTP, which bills each message |
| Sessions (`auth`) | `UserSession` rows (revoked, rotated from, assumed tenant), the user's `sessionsInvalidBefore` | `verifyOtp`, `refreshToken`, `assumeTenant`, `exitTenant`, `logoutAllSessions` | every browser tab; the guard of every request |
| KYC (`kyc`) | `KycSubmission` with its seven verification items, the partner it names, the outlet | `create`, `consent`, `firstApprove`, `reject`, `verifyField`, `approve`, the bulk sheet, `reKyc`, `gstDetails`, `update`; the stale-draft cleanup; "not interested" | wallet (created by an approval); the outlet's life |

There is no message queue between them. Every handler is an HTTP request (or a
scheduled one, or a timer in a server process) that runs concurrently with all
others, on several server processes; what they share is Postgres at its default
isolation, READ COMMITTED. Handlers are protected by *claims*: an `updateMany`
whose WHERE names the state the row must still be in, followed by a test of the
row count. The hard behaviours are the places where a handler decides on a row it
read earlier, or writes by id without such a claim; calls to a provider made
outside the transaction; reports that arrive late, twice or never; and the
processes that may die between a commit and the step that should follow it.

What makes each part correct:

* **Wallet** - the aggregates always equal the sums of the ledger; no balance is
  overdrawn by racing debits; a lot expires once, and is expired in the end.
* **Redemption** - an order is charged at most once and refunded at most once; the
  last unit is sold once; a password confirms its own order only; status and
  points agree; only edges of the transition table are taken.
* **Payouts** - an order's points come back exactly when it failed; a settled
  transaction stays settled; a bank reference settles one transaction; a batch is
  never left `PROCESSING`.
* **Hubble** - nobody holds the voucher and the points; nobody is silently left
  without both; an issued voucher reaches the member.

* **Credit batches** - points are credited and clawed back once; the bank is never
  asked to pay an entry it paid; the tax ledger of a PAN is what was withheld from
  its entries and what the law asks for, in whatever order files are made.
* **Broadcasts** - a recipient is billed once; the counters say what the rows say;
  a campaign ends; what the provider knows becomes known without its webhooks.
* **Sessions** - a refresh token works once, for one successor; concurrent tabs do
  not log their user out; "log out everywhere" leaves nobody in.
* **KYC** - an outlet that is live is owned and was not declined; it goes live, and
  its partner's values change, only by a verification that completes in the queue;
  one submission of an outlet is with the reviewers.

### The other parts

Listed in `PROJECT.json` under `components`, each with its reason. Those with
concurrent state of their own that are planned (section 8) are the push and SMS
queue, vendor invoices, visibility, the points computation and the fund ledger.
The rest is CRUD on single rows, read-only reporting, configuration and the web
front end.

## 2. Modules

```
PointsHold                abstract: what every redemption promises about points
  ^ refined by
Redemption   PayoutSettlement   HubbleVoucher

Wallet   CreditPayouts   Kyc   WhatsappBroadcast   Sessions

<module>Proofs  the theorems about each of the eight, checked by TLAPS
MC<module>      the instance of each for TLC, with its .cfg files
```

`PointsHold` composes the three rails: each shows that it implements the same
small specification (`Charge` one order if the wallet covers it, `Refund` a set of
orders, each once, to the wallet they were charged to), with `holder` read off
`pointsDeducted`. `Wallet` is the detail below: why the guarded decrement those
models use (`balance >= Price` re-evaluated by the UPDATE) is what
`debitRedeem` does. `CreditPayouts` and `Kyc` meet the wallet in single calls
(a credit, a clawback, a creation), which they count; the other two do not touch
it.

They are best read in this order: Wallet, PointsHold, Redemption,
PayoutSettlement, HubbleVoucher (points, rail by rail), CreditPayouts (money that
does not pass through points), Kyc (who may have either), WhatsappBroadcast and
Sessions, which stand alone.

**Granularity.** A statement that reads is a step; the statements of a
transaction from its first write to its commit are one step when nothing between
them can be observed, because the row lock the first takes makes the others
wait. What was read before is kept in the request's record, so that it may be
stale when it is used. An UPDATE re-evaluates its WHERE and its increments on the
row as it is then, as Postgres does at READ COMMITTED.

### Wallet

`wallet`, `ledger` and `shortfall` are the aggregates, the sums of the ledger rows
per kind, and the unrecovered remainders of clawbacks; `lots` are the EARN rows;
`req` and `sweep` are requests and expiry sweeps with what they read.
`applyMovement` is the single write path; `ReadWallet`/`ReadToUndo` are the read
that precedes it (with the early refusal of `debitRedeem` and `adjust`);
`creditEarn`, `credit`, `guardedDebit`, `guardedDebitRefused` and `clawbackAward`
are the operations' commits. `expireDuePoints` lists the due lots, `ClaimLot` is
the guarded claim (it keeps the row lock, so other sweeps wait) with the read of
the wallet, `SkipLot` a lost claim, `ExpireLot` the rest of the lot's
transaction; `CrashSweep` loses the open transaction and the rest of the list.
Ledger rows are kept as sums, because no property looks at one row.

### Redemption

`opening[o]` is the redeem request that creates order `o` (its read, its commit,
the sending of the password, and the undoing when the sending failed); `confirm`
are confirm requests (gate before the transaction, re-check in it, commit);
`operator` are transitions of the console and of the vendor portal. `moves` counts
the REDEEM and REVERSE ledger rows naming each order. A password is `live`, `dead`
(expired, or its attempts used up), `deleted` or `verified`. The amount a
transition refunds is the one it read, as in the code; `transitionRefused` is the
rollback when that was zero. Variants for an outlet behave alike and share an
action. All items cost `Price`.

### PayoutSettlement

`order` and `txn` are a cash order and its payout transaction, `batch` the
batches, `eligible` the partners that are active and KYC approved (which changes
at any time). `claimBatch`, `validate`, `finalise`, `processFails`, `processDies`
are the steps of `processBatch`; `uploadRead` is the read and the parsing of a
bank report (any rows of the batch, PAID with a fresh reference or FAILED),
`uploadApply` its transaction, `uploadPreview` a dry run.

### HubbleVoucher

`issue[o]` is the program counter of the issuance that follows the confirmation
of `o` and the body Hubble answered; `hubble` is Hubble's own record (external:
modelled from how the code uses it), `inFlight` the placements that were given up
here and may still arrive, `notices` the webhooks Hubble has yet to send,
`webhook` and `operator` the concurrent requests, `told` what the member was told.
`applyHubbleBody` and the four transactions under it are shared by the issuance
and the webhooks, as in the code. `markHubblePendingReconcile` always writes; the
failure of that write is swallowed by the code and is not modelled.

### CreditPayouts

`batch`, `entry`, `download`, `ledger` and `reversal` are the tables of `credits`
and of the tax ledger; `credited` and `clawed` count the wallet calls of a batch
and of a reversal; `bank` is what the bank does with a file's line (external: one
line per outlet, paid or rejected once). `confirmRead`/`confirmBatch`,
`payoutRead`/`payoutLock`/`createPayoutDownload`, `uploadRead`/`uploadUtr` and
`patchReversal`/`reverseEntries` are the reads and the writes of the handlers; a
download takes the advisory locks of the period and of the PANs, so one plans at a
time, but no other handler takes them. `withholdNow`, `CatchUp` and `Due` are
`computeDeduction`: the tax on a PAN's whole base once it passes the threshold,
less what was withheld, no more than the payout, in whole rupees; `Shares` is
`allocateProRataRecovery`, with any choice of who gets the leftover rupees.
`OneOfEach` stands for the map by outlet that the upload builds, in which the last
row read wins. Abstracted: one tenant, period and visibility field, section 194R
with DEDUCT; amounts are whole rupees; evidence, notifications and history.

### WhatsappBroadcast

`broadcast`, `row` and the counters are the tables; `worker` is a drain in a server
process (`drain` promotes, reaps and reads, `claim` is the guarded claim of a row,
`send*` the provider's three answers, `record*` the write by id that follows,
`finalizeBroadcastIfDone` the roll-up); `cancelRead`/`cancel` are the two halves
of a cancellation; `markDelivered`, `markRead`, `markReadDelivered`,
`markFailedRead` and `markFailed` are the statements of the webhook handler, which
the poll (`reconcile`) shares; `billed` and `fate` are the provider's own record
(external). A mishap is a lost answer, a write that fails, a lost increment or a
process that ends; `unrecorded`, `early` and `cut` remember which rows and
campaigns they hit, so that the properties can name their exceptions. No step
reads a counter, so a row's update and the increment that follows are one step
except in a mishap. Templates, audiences and the test send are left out, and the
reaper's window is taken to be longer than a send.

### Sessions

`session` are the `UserSession` rows of one user, with what the code compares of
their instants: whether a row predates the stamp, has expired, or was revoked
longer ago than the grace. `refreshRead`, `claim`, `mint` and `reread` are the
four statements of a refresh that others may come between; `converge` and
`convergeFails` what the loser of a claim does, `reuse*` the alarm;
`logoutAllSessions`/`revokeAll` are the stamp and the sweep (the handlers of an
administrator and of a role change call the same two, in the same order);
`exitTenant`/`exitRevoke` an exit, which mints first. `known` is which sessions
some client was given. A gate that refuses (a grant withdrawn, an outlet
deactivated) is `gateRefuses`, at the point where the claim has been won. Left out: the attempts and rate limits of a
login password, logout of one session, outlet switching.

### Kyc

`sub` are the submissions about one outlet with their verification items, whether
they still name the partner (`linked`; its foreign key is SetNull) and whether
they only propose values (`proposes`, a re-entry or re-KYC of a partner there is);
`partner` has the values it got from a submission, a wallet or not, and a
classification or not. `consent*`, `firstApprove*` and `reject*` read a status and
write another by id: `request` keeps what they read. An officer's transaction is
`gridLoad` (the read before it), `gridWrite` (its item rows, locked, and the
evaluation with what others had committed) and one of `gridRecords`,
`gridApproves`, `gridReopens`, `gridRollsBack` (the guarded flip and the commit);
`verify`, `approve` and `bulk` are the three ways in. Field flags of a re-KYC,
history, audit, notifications and documents are left out; the uniqueness of
values, the phone and the owner's user only decide whether a transaction rolls
back, which it always may (`gridRollsBack`). The classification a group passes on
is `gstDetails` happening before. Creations do not overlap, and the cleanup of a
draft is one transaction.

## 3. Runs

Every run finishes with the deadlock check off: requests are finitely many, so a
model stops when they are used up; nothing in the code waits for another request.

| Run | Shows | Instance |
|---|---|---|
| `wallet_all` | `TypeOK`, `BooksBalance`, `ExpiredOnce`, `OverdraftBounded` with every operation racing two sweeps and a crash, and `DueLotsExpire` under fair sweeps | 1 wallet, 1 lot, 3 requests, amounts 1-2, 2 sweeps, 1 crash |
| `redemption_all` | `MoneyMovesOnce`, `StockConsumed`, `ConfirmedByOwnOtp`, types | 2 orders of 2 outlets under 1 login, 2 confirmations, 2 operators, 1 vendor, 1 unit, an SMS provider that may report a failure |
| `redemption_serial` | `RefundedIffStopped`, `EdgesRespected`, `ImplementsHold` | as above with 1 operator, no vendor, 2 units, an honest provider |
| `payout_all` | `RefundedIffFailed`, `NeverStranded`, `SettledForGood`, `ImplementsHold`, types | 2 orders, 2 batches, 2 processings that may die, 2 sweeps, 1 report at a time |
| `hubble_issue` | `NoDoubleBenefit`, `DeliveredOrRefunded`, `NeverLeftDebited`, `StaysDelivered`, `IssuedIsDelivered`, types | 2 orders, 2 webhooks, odd answers, no operator |
| `hubble_all` | `ImplementsHold` with everything that can go wrong | 1 order, 2 webhooks, 2 operators, late placements, failures, deaths |
| `hubble_operators` | violation of `NoDoubleBenefit` | 1 order, 1 operator |
| `broadcast_all` | `BilledOnce`, `CountersMatchRows`, `CampaignsEnd`, `OutcomesArrive`, types | a campaign and its resend, 1 phone, 2 workers, 1 reporter, 1 cancellation at a time, 1 mishap |
| `credits_all` | `PaidAtMostOnce`, `MovedOnce`, `TaxWithheldAsDue`, types | 2 batches with an entry each, of one outlet and PAN, 3 downloads, 1 reversal, 2 requests |
| `sessions_all` | `UsedOnce`, `LoggedOutForGood`, `LineageKept`, types | 3 sessions, 3 requests, 1 logout at a time, a server that may die |
| `kyc_all` | `LiveOutletIsOwned`, `GoesLiveFromTheQueue`, types | 2 submissions, 2 fields (one a group shares), 2 officers (the second only approves blankly), 1 other request, 1 sales stage |
| `kyc_drafts` | violation of `OneInFlight` | 2 submissions, 1 request, no officer |

**Why these bounds are enough to be interesting.** Every hazard is a race of two
handlers over one row, so two requests of each kind are the least that shows it;
a third wallet request is there because one must earn what the other two compete
for, a third tab because one may refresh what the second was handed before the
first has finished. Two orders with a balance for one (3 points, price 2) make
them compete for the wallet and let one be charged with what another gave back.
One unit of stock makes the orders compete for the last one. Two entries of one
outlet share a line of the bank's file, and their amounts (2 and 3, threshold 3,
25%) cross the threshold in one order and not in the other and leave a rupee to
round; three downloads let a rejected entry be paid in another file, and again
rejected. Two campaigns are an original and a resend; a third would be a resend
of a resend, which no action treats differently. Two submissions are a first draft
and one that only proposes values; two fields are one inherited and one open, and
let two officers each decide the other's last. `MaxCrashes` and `MaxMishaps` bound
what goes wrong outside the code, `ProcessMayDie` and `ServerMayDie` switch deaths
on; `MaxCancelling` bounds the cancellations in progress. Symmetry is used over
request names, orders, batches, references, sessions and submissions, which no
action or property of the run tells apart, and never in a run with a liveness
property.

Runs that restrict the environment say so: `redemption_serial` has one operator
and an honest provider, `payout_all` one report at a time, `hubble_issue` no
operator, no late placement, no death and no failed reconcile. Outside those
restrictions the code does not keep the property: sections 4 and 5. Where a
property names an exception (`SettledForGood`, `NeverStranded`,
`DeliveredOrRefunded`, `BilledOnce`, `CountersMatchRows`, `CampaignsEnd`,
`TaxWithheldAsDue`, `LoggedOutForGood`), the exception is a case where the code
does go wrong, it is as narrow as TLC lets it be, and section 5 lists it.

**Fairness.** Safety runs use `Spec`, without fairness. `wallet_all` assumes that
someone keeps calling the sweep and that a sweep that is not cut short goes on:
`expireDuePoints` is an idempotent endpoint made for a schedule
(`wallet/wallet.controller.ts:96-121`), and each lot is its own transaction.
Nothing is assumed of the other requests, nor that a sweep survives: crashes are
allowed, but only finitely many. `hubble_issue` assumes that Hubble sends the
webhook of an order that became final, and that a webhook request that started
ends. Neither the confirmation nor a second webhook is assumed to happen.
`broadcast_all` assumes that each worker drains and goes on draining (`worker:35`,
every 30 seconds), that a report being applied is finished, and that the poll,
which is made to be scheduled (`whatsapp-ops.controller.ts:71-76`), reaches every
row it asks about. No webhook is assumed to arrive, and neither operators nor the
provider need act.

## 4. Disagreements a run shows

* `hubble_operators` - the block on refunds of Hubble orders looks at
  `voucherProvider`, which is only set when an answer is applied: an order whose
  placement is under way can be cancelled and refunded, and the voucher issued.
* `kyc_drafts` - a fresh draft is said to supersede the old one (`kyc:1795-1798`),
  but the old one stays, and `consent` looks only at the status of the draft it is
  given: both drafts of an outlet are routed to the reviewers.

## 5. Divergences that no run shows

TLC finds each by adding the property to the named configuration, or by changing it
as described. Properties marked * are stated in their module for the purpose.

**Wallet**

| Claim in the code | What the code does | To see it |
|---|---|---|
| `wallet:739-741` over-expiry can never drive the balance negative | the floor is computed from the row read earlier; a redemption between read and decrement overdraws. `OverdraftBounded` is what does hold | `NonNegative`* in `MCWallet_all` |
| `wallet:26` redeemedPoints is "net of reversals" | a REVERSE leaves `redeemedPoints` as it was | `RedeemedNetOfReversals`* in `MCWallet_all` |
| `wallet:666` a clawback is "CLAMPED at 0" | on a balance that over-expiry left negative, the floor is negative and the clawback adds points | `ClawbackNeverCredits`* in `MCWallet_all` |
| `wallet:665`, `wallet:680` a clawback decrements `earnedPoints` | it leaves them, as `wallet:702-706` says | `BooksBalance` holds with `earned` untouched |

**Redemption and payouts**

| Claim in the code | What the code does | To see it |
|---|---|---|
| `rewards:2179` the edges an order may take | with two operators, or the vendor portal, the edge is checked on one read and the status written by id: a cancelled, refunded order can become `PROCESSING` and be delivered. Money still moves once | `EdgesRespected` in `MCRedemption_all` |
| `rewards:2179` the same table | the code also has DELIVERED to RETURNED | (comment only) |
| `rewards:1664-1665` only one redemption awaits confirmation at a time | two overlapping redeems each insert one | `OnePending`* in `MCRedemption_serial` with one partner |
| `rewards:1744` nothing was debited when a send failed | a password that arrived although the provider reported an error can be used before the undoing, which cancels a debited order without a refund | `RefundedIffStopped` with `SendMayFail = TRUE` |
| `vendor-portal:659` a closed order is immutable to the vendor | checked on a read, written by id | `ClosedToVendors`* with a vendor |
| `payouts:723` a terminal transaction is never re-processed | `processBatch` flags by id what it validated, also what a report settled since | `SettledForGood` without its exception |
| `payouts:631`, `payouts:725` a re-applied or terminal row is a no-op | tested on the read made before the transaction: a PAID and a FAILED report at once both take effect | `PaidOrRefunded`* with two uploads |
| `payout-utr.helpers:19` a bank reference is used once | known references are read before the transaction, and no constraint forbids two | `UtrsDistinct`* with two uploads and points for both orders |
| `payouts:429-430`, `payout-utr.helpers:6-7` only eligible transactions of a processed batch are paid | `uploadPayoutUtr` checks the status of neither | `PaidAfterFlagged`* in `MCPayoutSettlement_all` |
| `payouts:502-503` a batch is never left `PROCESSING` | the reset may itself fail, or the process end | `NeverStranded` without `processDies` (`BatchesAreHeldByOne` if none dies) |

**Hubble vouchers**

| Claim in the code | What the code does | To see it |
|---|---|---|
| `rewards:3146` a 404 means never placed | a placement that timed out here may arrive later | `NoDoubleBenefit` with `ArrivesLate = TRUE` |
| `rewards:2846-2848` no order stays debited, unflagged | nothing looks for an order whose confirmation died after its commit | `NeverLeftDebited` with `ServerMayDie = TRUE` |
| `rewards:2857` a webhook or ops resolves a flagged order | the webhook is acknowledged although its reconcile failed, and there is no other caller | `IssuedIsDelivered` with `WebhookMayFail = TRUE` |
| `rewards:2856-2857` an indeterminate order is left `PROCESSING` | only metadata is written | `IndeterminateIsProcessing`* in `MCHubbleVoucher_issue` |
| `rewards:2938-2939` a reported voucher is delivered | SUCCESS without a code is reported as DELIVERED | `DeliveredOrRefunded` without the ODD case |

**Credit batches**

| Claim in the code | What the code does | To see it |
|---|---|---|
| `credits:2423-2426` a PROCESSING entry that is reversed: "Cash never left; no receivable" | the entry leaves a file that the bank may have and pay; and an upload may set it PAID between the approval's read and its write by id | `ReversedUnpaid`* in `MCCreditPayouts_all` |
| `credits:1054-1059` two entries of an outlet become one payout | an upload settles one of them; the other stays PROCESSING, in no later file | `LineSettlesTogether`* in `MCCreditPayouts_all` |
| `credits:360-361` this download's entries are not double-counted in the tax base | an upload takes no lock of the PAN: an entry it fails between the download's reads is in both | `NotDoubleCounted`* in `MCCreditPayouts_all` |
| `credits:1515-1516` a corrected re-upload flips FAILED to PAID | the upload settles PROCESSING entries only | action `uploadUtr` (`Settleable`) |

Also seen while modelling: a reversal of a PROCESSING entry leaves its tax in the
ledger; a reversal of one award takes the outlet's entries of every batch; and a
download whose response is lost leaves its entries PROCESSING until a file is
uploaded for it.

**WhatsApp broadcasts**

| Claim in the code | What the code does | To see it |
|---|---|---|
| `status:205-208` sent + failed never exceeds the recipients | a failure reported before the worker's write takes nothing back, then the worker counts the row as sent | `SentAndFailedAddUp`* in `MCWhatsappBroadcast_all` |
| `worker:63-67` the reaper keeps a campaign from being pinned in SENDING | a drain that ends before the roll-up leaves a campaign without queued rows, which no later drain meets | `CampaignsEnd` without `cut` |
| `worker:123-125` a billed message never reaches the catch | one whose answer was lost does, is FAILED, and can be resent | `BilledOnce` without `unrecorded` |
| `worker:63-67` only rows never dispatched are requeued | so is one whose status write failed after the send | the same |

**Sessions**

| Claim in the code | What the code does | To see it |
|---|---|---|
| `auth:724-726` nothing live survives "log out everywhere" | a second tab converges on the successor, and refreshes it, before the minter reads the stamp again: the lineage goes on | `NothingSurvives`* in `MCSessions_all` |
| `auth:767-769` the alarm means a rotated token resurfaced | the session may have been revoked by an exit, or claimed by a refresh that a gate refused | `AlarmOnlyOnReuse`* in `MCSessions_all` |
| `auth:578-582` an exit ends the assumed lineage | it misses the successor that a refresh under way mints after it | (its sessions are in `ended`: `exitRevoke`) |

**KYC**

| Claim in the code | What the code does | To see it |
|---|---|---|
| `kyc-verification.helper:15` a complete grid with a rejection reopens | an officer may reject again a field that another, who has yet to commit, saw approved: an approved submission has a rejected field | `ApprovedMeansVerified`* in `MCKyc_all` |
| `kyc-verification.helper:13-16` a complete grid is decided | two officers decide the last two fields at once, neither sees the other's, and both only record | `CompleteGridIsDecided`* in `MCKyc_all` |
| `kyc:3027` only the correct role for the current status may act | the status was read before, and is written by id: a stale sales approval takes an approved or rejected submission back to the queue | `SalesActInTurn`* with two requests |
| `kyc:4823-4825` an approval brings the outlet live | the cleanup of the first draft unlinks a second one, whose approval then activates nothing; and a status patched to APPROVED never does | `ApprovalGoesLive`* in `MCKyc_all` |

## 6. What is proved

Every invariant and every action property that a run checks is also proved, for
every value of the constants, and so are the three refinements. A name ending in
*Alone* marks a theorem with a hypothesis on who takes part, listed below.

| Module | Theorems (the property each proves) |
|---|---|
| `WalletProofs` | `WalletTypeCorrect` (`TypeOK`), `BooksAlwaysBalance` (`BooksBalance`), `LotsExpireOnce` (`ExpiredOnce`), `OverdraftIsBounded` (`OverdraftBounded`), `GuardedDebitsAreSafe` (no balance is negative without sweeps and clawbacks) |
| `RedemptionProofs` | `RedemptionTypeCorrect` (`TypeOK`), `RedemptionMovesMoneyOnce` (`MoneyMovesOnce`), `StockIsConsumed` (`StockConsumed`), `OnlyOwnOtpConfirms` (`ConfirmedByOwnOtp`), `RedemptionImplementsHold` (`ImplementsHold`), `StoppedIffRefundedAlone` (`RefundedIffStopped`), `EdgesRespectedAlone` (`EdgesRespected`) |
| `PayoutSettlementProofs` | `PayoutTypeCorrect` (`TypeOK`), `PayoutRefundsTheFailed` (`RefundedIffFailed`), `PayoutImplementsHold` (`ImplementsHold`), `OnlyDeathStrands` (`NeverStranded`), `BatchesAreHeldByOne` (a batch is `PROCESSING` exactly while one request holds it), `SettledForGoodAlone` (`SettledForGood`), `ReferencesAreDistinctAlone` (`UtrsDistinct`) |
| `HubbleVoucherProofs` | `HubbleTypeCorrect` (`TypeOK`), `HubbleImplementsHold` (`ImplementsHold`), `FlaggedUnlessItDies` (`NeverLeftDebited`), `OnlyOperatorsTakeBack` (`StaysDelivered`), `NeverBothAlone` (`NoDoubleBenefit`), `DeliveredOrRefundedAlone` (`DeliveredOrRefunded`) |
| `CreditPayoutsProofs` | `CreditTypeCorrect` (`TypeOK`), `PointsMoveOnce` (`MovedOnce`), `NobodyIsPaidTwice` (`PaidAtMostOnce`), `TaxIsWithheldAsDue` (`TaxWithheldAsDue`) |
| `WhatsappBroadcastProofs` | `BroadcastTypeCorrect` (`TypeOK`), `NobodyIsBilledTwice` (`BilledOnce`), `CountersAreTheRows` (`CountersMatchRows`) |
| `SessionsProofs` | `SessionsTypeCorrect` (`TypeOK`), `TokensAreUsedOnce` (`UsedOnce`), `LogoutsAreForGood` (`LoggedOutForGood`), `LineagesAreKept` (`LineageKept`) |
| `KycProofs` | `KycTypeCorrect` (`TypeOK`), `LiveOutletsAreOwned` (`LiveOutletIsOwned`), `OutletsGoLiveFromTheQueue` (`GoesLiveFromTheQueue`) |

The types carry content: no balance or stock of the redemption models, no
shortfall and no tax ledger is ever negative; a submission that names a partner
names one there is; a lineage of sessions goes back to its login.

**Assumptions** are those each module names (`...Assumption`): prices and amounts
are positive naturals, a rate is a percentage, the null values are none of the
rows, owners are partners, the sales stages are those of the schema, and the rows
that are summed or counted (lots, entries, campaigns with their recipients, orders
of the refinements) are finitely many, as those of a table are. Nothing is assumed
about the number of requests, wallets, batches, sweeps, workers, reports, tabs,
submissions or officers.

**Hypotheses.** Outside them the code does not keep the property: section 5 says
what then happens, and sections 3 and 5 how TLC shows it.

| Theorems | Hypothesis |
|---|---|
| `GuardedDebitsAreSafe` | no expiry and no clawback: these debit below what they read |
| `StoppedIffRefundedAlone`, `EdgesRespectedAlone` | `Alone`: no vendor, at most one operator (a transition is checked on a read and written by id), an SMS provider that reports no failure of a message it delivered |
| `SettledForGoodAlone`, `ReferencesAreDistinctAlone` | `OneReport`: at most one report at a time, whose rows and references are tested on reads made before its transaction |
| `BatchesAreHeldByOne` | no processing dies before its reset |
| `FlaggedUnlessItDies` | the server does not die between a confirmation and its issuance |
| `OnlyOperatorsTakeBack` | no operator moves an order that Hubble delivers |
| `NeverBothAlone`, `DeliveredOrRefundedAlone` | the same, and no placement arrives after the question whether it did |

**Inductive invariants.**

* `WalletProofs`: `TInv` adds to the types that a request past its read has a real
  wallet, a positive amount and a permitted operation (`ReadOk`), and that a lot
  that exists or that a sweep holds has a wallet (`LotsOk`). `OInv` adds that
  expired points and clawbacks only grow in the direction that pays for an
  overdraft (`FloorsGrow`). One lemma says when one movement keeps the bound, with
  a case per kind: a guarded debit because the UPDATE saw it covered, a floored
  one because it pays for what it takes. `BooksBalance` is inductive with the
  types, movement by movement. For `ExpiredOnce`, `HeldOk` says that the lot a
  sweep has claimed is still due, and held by that sweep alone: the row's lock
  lasts until the points are taken and the lot marked, in one step, and a crash
  gives up both.
* `RedemptionProofs`: `RInv` adds where a row comes from (`Placed`), that an
  unconfirmed order was never debited (`Undebited`) and that no transition in
  progress leads back to PENDING (`Requests`). The last two are why the claim
  `PENDING -> CONFIRMED` can succeed only once although statuses are overwritten by
  id. `Orderly`, for a single operator, adds that what it has read can only have
  changed by a confirmation or a newer order since, and either way its write is an
  edge or changes nothing; and that the points follow the status.
* `PayoutSettlementProofs`: `PInv` adds that a transaction exists exactly from the
  confirmation on, and that reports and processings only name such transactions,
  paid and failed ones disjoint (`Linked`): a stale report then cannot bring an
  order back to a status it had not earned. `ClaimInv` adds that an idle request
  names no batch, which makes the holders of a batch none or one. `ReportInv` adds
  that the rows of a parsed report are still open, and its references new
  (`Parsed`), which another report would break.
* `HubbleVoucherProofs`: `HInv` says that an issuance begins with the confirmation
  and that requests name confirmed orders. `AloneInv` relates the order, the answer
  held by the issuance or a webhook, and Hubble's record: Hubble gets an order once
  (`Placed`), an answer about to be applied is Hubble's last or an earlier
  PROCESSING (`Fresh`), points are only missing where Hubble failed or will never
  hear of the order (`Kept`), so the status says what Hubble did (`Truthful`), and
  the member was told so (`Told`).
* `CreditPayoutsProofs`: `CInv` says of each entry in a file (`Held`) that every
  other file it was in had its line refused; of an upload that the rows it is to
  apply were decided (`Decided`); and that what has not been downloaded is in no
  file (`Opened`). `OneLive` - of two files with the same entry one was refused -
  is what makes `PaidAtMostOnce` inductive, because an entry forgets its earlier
  files. `TaxInv` says that the ledger of a PAN is the sum of its entries' tax
  (`Ledgered`), that one plan is made at a time and knows every entry that became
  taxable since (`Planned`), and that what was withheld never exceeds what is due,
  and equals it with what is carried forward once every entry pays (`Levied`).
* `WhatsappBroadcastProofs`: `BInv` gives each row to one drain (`Exclusive`), each
  report a fate that the provider recorded (`Fates`), and lists for each status of
  a row whether it can have been billed (`Bills`); `Resent` carries this from an
  original to its resend, and `Counts` equates each counter with a cardinality.
* `SessionsProofs`: `SInv` says that of a lineage one session is live or being
  minted (`OneToken`), what a minter holds at each of its steps (`Mints`), and what
  a logout that has read its sessions will still revoke (`Stamps`).
* `KycProofs`: `KycInv` is `TypeOK` with `LiveOutletIsOwned`, and needs no more
  because of how the actions fit: only the cleanup deletes a partner, and only one
  without a wallet, so never that of a live outlet; it unlinks every other draft,
  so no submission names what is gone; and an approval gives the partner its
  wallet in the step that brings the outlet live. What an officer read before is
  only used together with the test of the link at the commit (`gridApproves`).

**Action properties** (`GoesLiveFromTheQueue`, `EdgesRespected`, `NeverStranded`,
`SettledForGood`, `StaysDelivered`) follow from the invariant of their module, one
lemma or step per action.

**Refinements.** Each action is matched with a `Charge`, a `Refund` of one order or
of the set a report fails (by cardinality lemmas on finite sets), or a stutter.

**Sums.** The points of lots, the tax of a PAN and the base it is due on are sums
over finite sets, defined by a fold. `SubsetInduction` is induction on the subsets
of a finite set, from the well-foundedness of strict inclusion, and stated of a set
of sets, so that nothing higher-order is instantiated; from it follow that a sum
exists, splits off any element (`SumPick`, `SumTake`), splits over disjoint sets,
and depends only on the values summed.

## 7. What is only model-checked, and what is not modelled

Only checked by TLC: the liveness properties `DueLotsExpire`, `IssuedIsDelivered`,
`CampaignsEnd` and `OutcomesArrive`, whose proof needs fairness and ENABLED; and
the two violations of section 4, with the divergences of section 5.

Left out of the modelled parts: passbook and listing endpoints, free-text edits,
notifications, tax rows and status history (nothing reads them back to decide);
row-lock deadlocks, which Postgres turns into an error both handlers already
treat as nothing done; the fund ledger of `payouts`; several items or prices per
order; the attempt counter of a password (a password just may die); of the
credits, invoices, the GROSS_UP method, recovery for a missing PAN and the
threshold of section 194C; and what section 2 lists for each module.

Not modelled, and why: the notification queue, vendor invoices, visibility, the
points computation, schemes and TDS invoicing have state worth modelling and are
next or later in the plan; vendor grants, staff roles, outlets and users,
settings, tickets and templates are CRUD on single rows, where a model would
restate each assignment; reports and the front end keep no state of the business;
the Prisma client and the storage are what every module assumes.

## 8. Plan

1. Proofs of what does hold where section 5 says that more does not: with one
   officer a complete grid is decided and an approved submission verified; with
   one request the sales stages act in turn; without a second tab nothing
   survives a logout; without a reversal a paid entry is not reversed.
2. The notification queue (claim, retries, receipts), close to the broadcasts;
   the fund ledger, next to `PayoutSettlement`.
3. Vendor invoices and visibility as state machines; the claim of a points
   computation and its idempotent awards.
4. The rule arithmetic of points and of TDS (GROSS_UP, 194C) as operators, checked
   against reference definitions.

Run `tlc -config MC<module>_<run>.cfg MC<module>` and `tlapm <module>Proofs.tla` in
this directory.
