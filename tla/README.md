# A TLA+ model of Social Bounty's money paths

Social Bounty is a marketplace: a brand funds a bounty, hunters submit posts,
the brand reviews them, and the platform moves the money. This directory models
the part of the API (`src/apps/api/src/modules`) where a mistake costs money:
the ledger, the escrow of a bounty, its refunds and releases, its funding
through TradeSafe, the verification of posts that gates an approval, what an
approval leads to (payout, disputes, wallet, withdrawals), the subscriptions
that set the fees, and the fees themselves. Paths below are relative to `src/apps/api/src/modules`
unless they start with `src/`.

## 1. The system

One NestJS process per replica serves HTTP requests and runs cron jobs
(`@nestjs/schedule`, no leader election); PostgreSQL through Prisma holds all
business state; Redis holds tokens and locks with a time to live; TradeSafe hosts the
checkout and calls back. Nothing uses `SELECT ... FOR UPDATE`, no transaction
raises the isolation level above READ COMMITTED, and most handlers run their
reads and writes as separate statements outside any transaction. Whatever two
requests, two cron runs or a request and a cron run do to one row interleaves
at every `await`.

### Inventory

| component | state it keeps | operations | talks to | what makes it hard | what makes it correct |
|---|---|---|---|---|---|
| Ledger posting, kill switch (`ledger/ledger.service.ts`) | LedgerTransactionGroup, LedgerEntry, AuditLog, a SystemSetting row | `postTransactionGroup` (own or caller's transaction), `setKillSwitch` | called by every money path | racing and retried calls, a lost race inside a foreign transaction, lost commits, a switch read outside the transaction | one group per (referenceId, actionType); group, audit, entries and caller's rows stand or fall together; truthful answers |
| Approval ledger (`ledger/approval-ledger.service.ts`) | split columns on Submission | `postApproval` | after `review`; ledger | its error is swallowed, tier read of the day, snapshot written apart from the posting | one approval per submission; the snapshot may be stale, the ledger is what counts |
| Clearance job (`ledger/clearance.service.ts`) | groups `clearance_released` | `releaseEligible` | ledger | overlapping runs, batch limit, per-entry failures | every matured credit is released, once, in the amount credited |
| Refunds (`refunds/refunds.service.ts`) | Refund rows, bounty.paymentStatus | request and approve before approval, after approval, after payout | ledger, visibility job | three calls per refund with nothing around them | no state claims a refund the ledger does not have; no reversal without an approval |
| Expired bounties (`bounties/expired-bounty.service.ts`) | groups `bounty_expired_release` | `releaseEligible` | ledger | the approval count is stale when used | releases only what nobody was approved for |
| Submissions (`submissions/submissions.service.ts`) | Submission, Payout | `create`, `updateSubmission`, `review`, `updatePayout`; rewritten also by `resolve` of disputes and by an administrator | approval ledger, scraper, wallet | transitions are read, decided and written without a compare; what has been approved can come back and be approved again | a reviewer's approval rests on verified posts; it is posted once; what the payout job does by itself is credited once |
| Bounty funding (`tradesafe/tradesafe-payments.service.ts`) | TradeSafeTransaction, bounty.paymentStatus | `createBountyFunding` | TradeSafe | racing checkouts, a crash between the provider's create and the row | the only payable transaction is the recorded one |
| Callback receiver (`webhooks/tradesafe-transaction-callback.controller.ts`, `webhooks/webhook-event.service.ts`, `tradesafe/tradesafe-webhook.handler.ts`) | WebhookEvent, the funding rows | `receive`, `recordOrFetch`, `handleFundsReceived`, `markProcessed`, `markFailed` | TradeSafe, ledger, bounty | duplicated, late and failing callbacks | paid exactly when the money is there and booked; every callback answered |
| Bounty lifecycle (`bounties/bounties.service.ts`) | Bounty | create, `update`, `updateStatus`, `delete` | funding | writes over what a callback wrote meanwhile | published only when funded, but by an administrator; escrow terms frozen once paid |
| Webhook router (`webhooks/webhook-router.service.ts`) | WebhookEvent | `dispatch`, `replay` | - | has no caller | - |
| Reconciliation (`reconciliation/`) | findings, kill switch | seven checks over the books | ledger | reads a moving target | reports what is wrong and nothing else |
| Wallet (`wallet/wallet.service.ts`) | Wallet, WalletTransaction | `creditWallet`, `holdFunds`, `releaseFunds`, `completeWithdrawal`, `adminAdjust` | payout paths, withdrawals | reads that lock nothing; `adminAdjust` writes an absolute balance computed from its read | the wallet is the sum of its journal |
| Withdrawals (`wallet/withdrawal.service.ts`) | Withdrawal | request, process, complete, fail, cancel | wallet | row and hold are two transactions; checks without compare | held at most once, debited only when processed, nothing moved while it waits |
| Automatic payout (`submissions/payout-scheduler.service.ts`) | Submission, wallet | `processExpiredDeadlines` | wallet | credits what it read, not what it updated; a crash after the update loses the credits | one credit per submission; what is due is paid |
| Visibility re-check (`submissions/submission-visibility.scheduler.ts`) | failure counter, pass lock | `runRecheckPass`, `processOne`, `triggerAutoRefund` | scraper, refunds, Redis | a pass may die with its lock set; the counter is read long before it is written and not reset after a refund | a refund only after a full streak of failing passes |
| Scraper (`submissions/submission-scraper.service.ts`, `submissions/submission-scrape-recovery.scheduler.ts`) | SubmissionUrlScrape, scrape lock | `scrapeAndVerify`, `rescrapeForVisibility`, `sweep` | Apify, review gate, Redis | started by four triggers; rows deleted, and processes killed, under it | one scrape at a time; what the gate saw lasts; a waiting post is scraped |
| Subscriptions (`subscriptions/`) | Subscription, SubscriptionPayment | `subscribe`, `cancel`, `cancelById`, `reactivate`, `renewSubscription`, `expireSubscription` | ledger, tier snapshot | no provider is called: a payment is a row written SUCCEEDED; jobs act on what they found earlier | Pro is on record; ended periods are renewed or expired |
| Disputes (`disputes/`) | Dispute, DisputeStatusHistory, Submission | `create`, `submitDraft`, `transition`, `escalate`, `withdraw`, `resolve`, two jobs | submissions | stale decisions overwrite each other; the jobs cannot write history | history follows status; the overdue is escalated or closed |
| Administration (`admin/admin.service.ts`) | Bounty.status, Submission.status | `overrideBounty`, `overrideSubmission`, `updateBrandStatus` | - | single writes with no look at transitions, money or posts | the books follow what was paid and posted, whatever is overridden |
| Fees (`finance/`) | - | `halfEven`, `feeCents`, `forBrandFunding`, `forHunterApproval` | every money path | two roundings in one system, zero legs, a quote, a request and a booking of three amounts | no cent lost in a split; a refund undoes what it refunds |
| Bounty access, KYB, auth, other administration, inbox, mail, knowledge base, settings, audit, files, payout stubs, web app | rows of their own | CRUD and gates | - | little or no protocol | see section 8 |

`PROJECT.json` lists these components with their status, and under `hazards`
the places where the code is hard to test, each with the properties that watch
it or the reason why none does yet.

## 2. Modules

| module | models | role |
|---|---|---|
| `IdempotentLedger` | - | what `postTransactionGroup` promises: posted groups, one reply per call |
| `LedgerPost` | `ledger.service.ts`, with the transaction of its caller | statement by statement under READ COMMITTED; implements `IdempotentLedger` |
| `BountyFunding` | - | what the funding of a bounty promises brand and finance: offered, paid, booked, refunded, published, overridden |
| `HunterEarnings` | - | what the ledger of a bounty promises the hunters: earned, available, undone |
| `LedgerPost_proofs`, `BountyEscrow_proofs`, `FundingCallback_proofs`, `FeeMath_proofs`, `HunterWallet_proofs`, `ApprovedSubmission_proofs`, `PostVerification_proofs`, `Subscriptions_proofs` | - | the theorems about these modules, for all constants |
| `BountyEscrow` | review, resubmission, approval ledger, payout status, refunds, clearance, expired bounties; disputes' and administrators' writes of the status | one funded bounty; a posting is one step; implements `HunterEarnings` |
| `FundingCallback` | checkout, TradeSafe, callback receiver, bounty lifecycle, an administrator's override | one bounty until it is published, and what may happen to it then; implements `BountyFunding` |
| `FeeMath` | `finance/`, and the legs of funding, approval and both refunds | arithmetic without state; `MCBountyEscrow` takes its amounts from it |
| `PostVerification` | `create`, `updateSubmission`, `review` with its gate; disputes and overrides; scraper, sweep, visibility job; their Redis locks | one submission and its posts |
| `ApprovedSubmission` | `updatePayout`, payout job, resubmission and `review` of what came back, overrides; disputes and their jobs | submissions from their approval on |
| `HunterWallet` | `wallet.service.ts`, `withdrawal.service.ts` | one hunter's wallet and withdrawals |
| `Subscriptions` | `subscriptions.service.ts`, renewal and expiry jobs | one subscriber |
| `MC...` | - | constants of the instances that TLC checks |

How they fit together: `BountyEscrow` and `FundingCallback` treat a ledger
posting as one atomic step ("added under a free key, otherwise nothing
happens"). `LedgerPost` is proved to implement `IdempotentLedger`, for any number
of calls, keys and retries, and `BountyEscrow` is proved to use it as promised
there (`PostsAsPromised`): each of its postings is an `IdempotentLedger!Post`, and
a key that is taken changes nothing. `FundingCallback!MarkRefunded` stands for the refund
whose steps `BountyEscrow` has; `BountyEscrow` starts where `FundingCallback`
leaves a bounty that is PAID and LIVE.

The two abstract modules have one action per event that finance cares about, and
no worker, row, callback or retry. `FundingCallback` maps the transactions
handed out to `offered`, those with money at TradeSafe to `paid`, the ledger to
`booked`, `paymentStatus` to `phase`, "not DRAFT" to `published` and whether an
administrator has overridden the status to `overridden`: that booking and
publication are one step, that nobody but an administrator publishes without
booking, that a refund is final and that the one transaction offered is the one
paid and booked are then a single statement.
`BountyEscrow` maps the approval groups to `earned`, the releases to
`available` and the reversals to `undone`, each with the submission (and the
amount) of the group: a release of another amount than was approved, a second
one, or a reversal without an approval would not be a step of `HunterEarnings`.

A submission's life is cut into three modules along the columns the handlers
write. `PostVerification` ends with the approval and with `triggerAutoRefund`,
which is `BountyEscrow!requestAfterApproval`; its `resolve`, and that of
`BountyEscrow`, are what `ApprovedSubmission!DisputeUpdate` does to the submission.
An override of its status is an action of all three. `ApprovedSubmission` starts with approved
submissions and treats a wallet credit as one step that happens or fails:
`HunterWallet` shows that a credit is never lost or doubled in the wallet itself
(`WalletMatchesJournal`). `Subscriptions!getActiveTier` is the tier that
`BountyEscrow!ApprovalRead` reads on the day, there any member of `Nets`.

Conventions. A handler is a sequence of actions, one per database call or
call to a provider; `worker[w]` (or `pc[c]`) says where a request or job run
stands and what it has read so far. The first action of a handler bears the
handler's name in the code; its guard is made of the code's early returns. A
refused request changes nothing and is no action. `Abort` ends a handler
before any of its calls: an exception, a timeout or the death of the replica
look alike to the database. An operator named `...Mutant` is a bug planted
beside the definition it is a variant of; nothing uses it except the
experiments that `PROJECT.json` lists under `mutants`, each of which shows that
a property can fail.

### `LedgerPost`

`pc` walks through the statements of `postTransactionGroup`: kill switch
(118-121), `findUnique` (128-139), then inside the transaction header, audit,
entries, the caller's rows, commit. `db` holds the committed rows of each
table, `dirty` the tables in which a call has an uncommitted row. A second
insert under a key waits while another transaction's header is uncommitted
(`KeyLocked`: what the unique index does under READ COMMITTED) and then fails
with P2002 (`LoseRace`) or goes through, if the first one rolled back. In its own
transaction the loser rolls back and reads the winner (142-168); in the
caller's transaction the error is the caller's. `Commit` may lose its answer;
`Retry` starts a failed call over, as schedulers, webhooks and operators do.
`InCallerTx` are the calls with `existingTx`, whose rows (`"caller"`) are those
of `handleFundsReceived`. Legs are data: only that they are valid or not
(`Malformed`) matters here.

### `BountyEscrow`

`status`, `snapshot`, `payout` are columns of the submissions; `refund` the
refund rows; `payment` a column of the bounty; `ledger` the groups,
each with its key, its submission and the hunter's net amount among its legs;
`matured` the net-payable entries whose clearance time has passed, in the
order the job reads them. The hunter's tier is read on the day of the approval,
so the net amount is any member of `Nets` at each `ApprovalRead`. `Decree` has the
single writes that come from outside the reviews: `resolve` (a dispute revokes,
pays or reopens), `overrideSubmission` and the payout job's mark. `Reopenable`
says which submissions are disputed or overridden, so that what holds of the
others can be stated. `Reserve` is the brand_reserve balance that reconciliation
recomputes. The expiry job runs at any time, as nothing else depends on the
bounty's end date.

### `FundingCallback`

`prov`, `due` and `handed` are TradeSafe's side: the state of each
transaction, the callbacks it has not got a 2xx for, and the transactions whose
checkout URL the brand has in hands. INITIATED, DELIVERED, FUNDS_RELEASED and
DISPUTE all mean "past FUNDS_RECEIVED, not cancelled" to the receiver and are
one state, DELIVERED. `row` is the TradeSafeTransaction (unique per bounty),
`event` the WebhookEvent (unique per transaction), and `status`, `payment`,
`deleted`, `capacity` are columns of the bounty. `overrideBounty` sets any
status of `Overrides` at any time (`admin/admin.service.ts:447`; in the code any
status at all), and the history variable `overridden` remembers that it did;
`suspendBrand` pauses what is LIVE (:357-362). `Refetch` reads the state at
the provider again, as the receiver does, so the state announced in the
callback decides nothing.

### `FeeMath`

Operators only. `forBrandFunding` is the quote, `transactionValue` what TradeSafe
is asked to collect, `FundingLegs` what is booked. `FundingLegs`, `BeforeApprovalLegs`, `ApprovalLegs` and
`AfterApprovalLegs` give the amounts of each group by account, credits positive;
the laws below them relate the groups to each other. `FEE_RATES_BPS` is the
table of the shared package; the bounty's rate columns are set from it together
with the face value (`tradesafe-payments.service.ts:258-268`), so `?? 0` is
never taken on a funded bounty. `MCBountyEscrow` computes its nets from
`forHunterApproval` and evaluates every law over the face values 1..1000 cents, `SmallestPostable` (from
which face value on the ledger accepts the groups) among them.

### `PostVerification`

`status` and `failures` are columns of the submission, `row` the scrapeStatus of
each URL's row (`"none"` before it exists, `"deleted"` after an edit dropped
it), `lock` and `passLock` the two keys in Redis. Whoever calls
`scrapeAndVerify` goes to `scrapeLock`; `prev` in its state says whether the
call came from a visibility pass, which then continues with `Summary` and the
counter it had read at `PassRead`. `resolve` and `overrideSubmission` (`Decree`)
set the status in one write, without a look at posts or transitions.
`streak` and `current` are history variables: the failing passes since the last
good one, and the reviewers whose finding nobody has disturbed. Locks are deleted by `finally`, which a crash skips, or
expire; a lock does not expire under a live holder (section 4). What the checks
compare decides only which posts come out VERIFIED, so any subset may.

### `ApprovedSubmission`

`sub` has the columns that handlers read and write (status, payoutStatus,
whether the verificationDeadline has passed, whether the unique Payout row
exists), `dispute` status and dates of the disputes, `recorded` the last row of
each dispute's history. `credits` counts the wallet credits per submission and
`touched` remembers that somebody besides the payout job has decided about its
payment: `updatePayout`, a dispute or an override. `MarkedPaid` is the compare in the job's `updateMany`; all other
writes go by the key alone. The jobs' history rows never come to be, since
`changedByUserId` must name a user and none is called SYSTEM.

### `HunterWallet`

`wallet` is the row; `journal` the sum of WalletTransaction amounts per type;
`wd` the withdrawals with their journal rows counted. A wallet operation is
`WalletRead` and `WalletWrite`, one transaction in the code: `ensureWallet` is an
upsert with nothing to update, which reads, and READ COMMITTED locks nothing
for it. `BalanceAfter` shows the difference that matters: increments start from
the row as it is, `adminAdjust` from what it read (`seen`). Journal row and
wallet row are written in one transaction and therefore in one step.

### `Subscriptions`

`sub` is the row (`over`: its currentPeriodEnd has passed), `payments` counts
the SubscriptionPayment rows and `booked` the `subscription_charged` groups.
No provider stands behind either: `subscribe` and `renewSubscription` write the
row with status SUCCEEDED and book it (`subscriptions.service.ts:272-282`,
:748-758), so a payment here is a row, not money (section 6). Payment and row
are one transaction (`SubscribeWrite`, `RenewWrite`), the posting comes after it
and may fail for good. A job that has found the row
renews or expires it without looking at its status again.

## 3. Runs

| run | instance | asks |
|---|---|---|
| `ledger_post` | two calls racing for one key (one in the caller's transaction), an override, a malformed call, two attempts each, kill switch flipping | at most one group per key, all or nothing, truthful answers, a switch that lets nobody new in, every call settles, and the refinement to `IdempotentLedger` |
| `bounty_escrow` | two API workers of any duty and one that runs the clearance job, one submission that may be reopened, one refund row, a face value of 20 cents, whose two nets (FREE and PRO) come from `FeeMath` | a reversal has an approval; a release matches a matured approval in amount; COMPLETED and REFUNDED only with their ledger group; the refinement to `HunterEarnings`; the laws of `FeeMath` for every face value up to 1000 |
| `clearance` | a reviewer, two overlapping runs of the clearance job, one of which also runs the expiry job, two submissions, `Batch` 2 | each event posted once; every matured credit is released in the end |
| `clearance_starves` | the same with `Batch` 1 | finds that a released entry fills the batch for ever |
| `escrow_overdrawn` | one reviewer, two submissions, escrow for two claims | finds that the second approval overdraws the reserve |
| `funding` | two workers of every duty, two TradeSafe transactions, faults, overrides to DRAFT and LIVE, switch flipping | one payable transaction; bounty, row, ledger and provider agree; refunded stays refunded; the refinement to `BountyFunding` |
| `callback_delivery` | two receivers, failing calls and lost replies | every callback is answered with a 2xx in the end |
| `callback_swallowed` | one worker, no faults, only the kill switch | finds that a callback whose processing failed is answered as a duplicate and the paid bounty stays a draft |
| `hunter_wallet` | two requests about withdrawals (hunter's or admin's), one payout or correction, two withdrawals | the wallet is the sum of its journal; withdrawals are settled in order |
| `approved_submission` | one submission, one dispute, one request on each, overrides, one replica's jobs | the payout job credits once; history follows status; the overdue is escalated, closed, paid |
| `post_verification` | the requests of hunter, reviewer, arbiter and administrator, the sweep, a visibility pass, two posts, crashes and expiring locks | scrapes are exclusive; the gate's finding lasts; refunds follow a full streak; waiting posts are scraped |
| `subscriptions` | an owner, an owner or admin, renewal jobs of two replicas, one expiry job | no Pro off the record; ended periods are renewed or expired |

### What the properties say

- `AtMostOnePerKey`, `AllOrNothing`, `AnswerNamesPostedGroup` relate the tables
  to each other and to what callers are told. The last one is what makes
  `idempotent: true` usable: the loser of a race is pointed to the winner's
  group, never to one that was rolled back.
- `SwitchAdmitsNone` is the strongest promise the code can give: the switch
  is read before the transaction, so a call that has read it may still post. As
  long as the switch stays on, the calls past it only become fewer: no other
  call, and no retry of these, joins them.
- `ReversalHasOriginal`, `ReleaseMatchesApproval`, `RefundSettled` hold although
  two approvals may write different snapshots, a second reviewer may overwrite
  APPROVED by REJECTED, a dispute or an administrator may reopen what is approved,
  so that it is approved again, and each handler may stop anywhere: they rest on the
  order in which the code posts and writes (posting first, state afterwards).
- `ImplementsEarnings` says it of every step: whatever handlers do in between,
  the ledger moves only by approving once, releasing once what was approved, and
  undoing an approval once per refund row.
- `EachEventPostedOnce` and `ClearedEventuallyAvailable` are the two halves of
  "released exactly once".
- `PayableIsRecorded` holds because the URL is handed out only after the unique
  row is written: the loser of two racing checkouts leaves an orphan at
  TradeSafe that nobody can pay.
- `FundingConsistent` is the reconciliation's status check, strengthened: paid
  or refunded exactly when the funding group exists, for the recorded
  transaction, whatever an administrator overrides; and nothing is published
  before, unless an administrator has set the status. A bounty may still be deleted
  while its checkout is open and go live when paid; the books stay consistent.
- `RefundIsFinal`: `handleFundsReceived` would flip a REFUNDED bounty back to
  PAID. Only the WebhookEvent stands in the way.
- `ImplementsFunding` says it of every step: among all interleavings of
  checkout, callbacks, edits, overrides and refund, what brand, TradeSafe, ledger and
  bounty show moves only as the six steps of `BountyFunding`. Its `Override` touches
  no money, and its `Publish` needs the funding or an earlier override.
- `EveryCallbackAnswered` and `FundsReceivedGoLive`: the receiver trades one for
  the other. Each callback gets its 2xx, also one that was never booked.
- `WalletMatchesJournal` is the check that reconciliation makes of wallets. It
  holds while credits, holds, releases and debits overlap, because they
  increment; it sets `balance` apart once a correction exists, because the
  update a correction loses is the code's behaviour. Balances may go negative
  (two requests pass the same check) and the books still agree.
- `SettledInOrder`: two requests that read REQUESTED both go on, so a cancelled
  withdrawal may come back to PROCESSING and be debited too. What survives every
  such race is that nothing is held twice, debited unprocessed, or moved while
  the row is still REQUESTED.
- `AutoPayoutCreditsOnce` holds of the job by itself, one replica of it: it marks
  before it credits, so a run that was cut off is not repeated (its credits are
  lost instead). Two replicas, or `updatePayout` beside it, credit twice.
- `HistoryFollowsStatus`: stale requests write over each other, but status and
  history row are one transaction; only the two steps of the jobs are missing.
- `ScrapesExclusive` rests on the Redis lock and its time to live,
  `GateHoldsUntilRaced` on scrapes never touching a VERIFIED row. Its premise is
  the weakest under which it holds: a second reviewer, an edit or a visibility
  reset in between does make the gate's finding stale.
- `RefundNeedsStreak` compares the counter, which passes read early and write
  late, with the history of passes. A scrape skipped because the lock is held
  leaves no row FAILED and counts as good: the error is on the safe side.
- `ProIsRecorded` is about steps: when somebody's active tier goes from FREE to PRO,
  a payment row is written in that step or a renewal is due. It says nothing of
  money.

### Bounds

`MaxAttempts` (the code retries without a limit), `Refunds`, `Txns`, `Overrides`
and the number of workers are bounds; the other constants are parameters of the code or of its data. Two calls per key
are the smallest race and the third party of a race (a call that waits while
two others fail) adds only a longer queue for the same lock; the theorems lift
these bounds altogether for every safety property. One submission suffices in
`bounty_escrow` because its properties relate the groups of one submission; two submissions are used where
a batch or the reserve is shared. Two net amounts are the least that tells a
stale snapshot from the posted amount. Two transactions at TradeSafe are the
least in which one is an orphan. Two withdrawals with `MaxPending` 1 let the
limit be passed by a race; amounts of one cent make a balance of one cent the
one that two holds compete for. Two posts are the least of which one may be
verified and the other not; `FailureThreshold` is the code's 2, and
`MaxFailures` 2, on counter and streak, lets a pass start with every value below the
threshold. One
visibility pass at a time is what the pass lock gives; larger instances of
`post_verification`, with two reviewers or two passes, were checked for the
invariants only and hold too, but do not finish in minutes with liveness.
`MaxCredits` 1 and `MaxPayments` 2 stop new payments, not those under way, so
the second credit or the payment after a cancellation does happen; overrides stop with
them. `Overrides` names what tells overrides apart: out of DRAFT and into it in
`funding`, a status that pays and one that does not in `approved_submission`,
APPROVED unposted in `bounty_escrow`, where `resolve` has the ways back; the theorems
allow every status. The runs of `clearance` and of the callbacks have no overrides
and no reopened submission: what they ask, the others do not change. `Capacities` has
one value, since no property tells capacities apart. `Due` and `Ripe` dates pass
at any time. Workers restart from idle without a limit, so
every worker runs arbitrarily many handlers one after the other.

Symmetry is used in `bounty_escrow` (API workers), `funding` (workers and
transactions) and `hunter_wallet` (requests and withdrawals), which check safety
only. `CHECK_DEADLOCK FALSE` appears where
the system may rest: a bounty whose submissions are all decided and whose batch
is empty has nothing left to do (`BountyEscrow`), and a single worker may have used up
its only transaction (`callback_swallowed`). A wallet, a subscriber, a closed
dispute or a verified post may rest as well.

## 4. Fairness

- `LedgerPost!FairSpec`: weak fairness of each call's own statements. Node keeps
  running a call it has started and PostgreSQL serves it; retries, failures and
  the switch are not fair.
- `BountyEscrow!FairSpec`: time passes (`Mature`); each cron replica starts the
  clearance job again and again (strong fairness of `clearanceRelease`, since
  the API may keep a worker busy; in the instance one of the two cron workers has no other duty,
  the other also runs the expiry job); its loop goes on; and one entry's release does not fail on every run
  (strong fairness of `ReleaseEntry`). Requests are not fair: nobody has to
  review anything.
- `FundingCallback!FairSpec`: a request under way continues unless it is cut
  off; TradeSafe delivers an unanswered callback again and again; a reply sent
  again and again gets through. That TradeSafe redelivers until a 2xx is what
  the controller's comments rely on (lines 186-189). Nothing assumes that the
  brand pays or that the kill switch is ever turned off; `FundsReceivedGoLive`
  takes the latter as its premise.
- `ApprovedSubmission!FairSpec` and `Subscriptions!FairSpec`: cron starts each
  job again and again, and its read and its write do not fail on every run
  (strong fairness, since each run may be cut off or find the worker busy). No
  request has to be made, or finished once made. `DueGetsPaid` says that what is due is
  marked, not that the credit succeeds, which the code does not guarantee.
- `PostVerification!FairSpec`: a scrape that runs goes on or is stopped; a lock
  whose holder is gone expires; the sweep runs every five minutes, at times with
  the lock free, and its calls do not throw on every run. Nothing is assumed of
  requests, disputes, overrides and visibility passes. The model lets a lock expire only without a
  live holder: a scrape waits at most 55 seconds for Apify and its lock lives
  five minutes; the pass lock lives 5.5 hours.

## 5. Proofs

Eight modules hold theorems. Each proves its results for every value of the
constants (the assumptions, such as `CallsAssumption` or `EscrowAssumption`, only
type them and keep the "none" values apart), so for any number of calls,
workers, submissions, refund rows, transactions, withdrawals, disputes and
posts, and wherever a handler is cut off. The theorems whose row says "if" have
a premise about which handlers overlap, which the code does not enforce; the
last part of this section is about them.

| module | theorem | states |
|---|---|---|
| `LedgerPost_proofs` | `TypeCorrect` | `Spec => []TypeOK` |
| | `OneGroupPerKey` | `Spec => []AtMostOnePerKey` |
| | `GroupsAreWhole` | `Spec => []AllOrNothing` |
| | `AnswersAreTrue` | `Spec => []AnswerNamesPostedGroup` |
| | `SwitchHolds` | `Spec => SwitchAdmitsNone` |
| | `Implements` | `Spec => ImplementsPromise` |
| `BountyEscrow_proofs` | `TypeCorrect` | `Spec => []TypeOK` |
| | `EventsPostedOnce` | `Spec => []EachEventPostedOnce` |
| | `ReversalsHaveOriginals` | `Spec => []ReversalHasOriginal` |
| | `ReleasesMatch` | `Spec => []ReleaseMatchesApproval` |
| | `RefundsAreSettled` | `Spec => []RefundSettled` |
| | `EarningsImplemented` | `Spec => ImplementsEarnings` |
| | `PostsAsPromised` | `Spec => Books!Spec`, `Books` being `IdempotentLedger` |
| | `OneReviewerReversesExactly` | `Spec => []ReversalMatchesApproval`, if `OneReviewer` |
| `FundingCallback_proofs` | `TypeCorrect` | `Spec => []TypeOK` |
| | `OnlyRecordedIsPayable` | `Spec => []PayableIsRecorded` |
| | `FundingStaysConsistent` | `Spec => []FundingConsistent` |
| | `NoFundingWithoutMoney` | `Spec => []FundedByProvider` |
| | `RefundsStay` | `Spec => RefundIsFinal` |
| | `FundingImplements` | `Spec => ImplementsFunding` |
| | `OneEditorInOrder` | `Spec => StatusInOrder`, if `OneEditor` |
| `FeeMath_proofs` | `FeesAreRounded` | `halfEven` is the nearest whole number, ties to even |
| | `SplitsAreWhole` | `SplitIsWhole` for every face value and tier |
| | `ReversalsUndo` | `ReversalUndoesApproval` for every face value and tier |
| | `RefundsUndo` | `RefundUndoesFunding` for every face value and tier |
| | `QuoteCoversBooking` | `BookedAgainstQuoted` for every face value and tier |
| | `BooksExceedAsked` | `BookedBeyondAsked` for every face value and tier |
| | `SmallestPostables` | `SmallestPostable` for every face value and tier |
| `HunterWallet_proofs` | `TypeCorrect` | `Spec => []TypeOK` |
| | `WalletIsItsJournal` | `Spec => []WalletMatchesJournal` |
| | `WithdrawalsInOrder` | `Spec => []SettledInOrder` |
| | `OneSpenderNeverOverdraws` | `Spec => []NeverOverdrawn`, if `OneSpender` |
| | `OneSettlerSettlesOnce` | `Spec => []SettledOnce`, if `OneSettler` |
| | `OneSettlerInOrder` | `Spec => StatusInOrder`, if `OneSettler` |
| `ApprovedSubmission_proofs` | `TypeCorrect` | `Spec => []TypeOK` |
| | `HistoryFollows` | `Spec => []HistoryFollowsStatus` |
| | `AutoPayoutPaysOnce` | `Spec => []AutoPayoutCreditsOnce`, if `OneReplica` |
| | `OneArbiterInOrder` | `Spec => DisputesInOrder`, if `OneArbiter` |
| `PostVerification_proofs` | `TypeCorrect` | `Spec => []TypeOK` |
| | `ScrapesExclude` | `Spec => []ScrapesExclusive` |
| | `RefundsFollowStreaks` | `Spec => []RefundNeedsStreak` |
| | `GateHolds` | `Spec => []GateHoldsUntilRaced` |
| | `OneReviewerApprovesVerified` | `Spec => ApprovesVerified`, if `OneReviewer` |
| | `OneDeciderInOrder` | `Spec => DecidesInOrder`, if `OneDecider` |
| `Subscriptions_proofs` | `TypeCorrect` | `Spec => []TypeOK` |
| | `ProIsOnRecord` | `Spec => ProIsRecorded` |
| | `OneActorRecordedAndKept` | `Spec => RecordedAndKept`, if `OneActor` |

In each protocol module the argument is an inductive invariant `IInv`: `Init => IInv`,
one lemma per component or kind of step for `IInv /\ [Next]_vars => IInv'`, and
the theorems by temporal logic. TLC has checked each `IInv` on the instance of
the corresponding run as well. Few of the safety properties are inductive alone;
what `IInv` adds is where the reason lies:

`LedgerPost_proofs`

- `TxShape`: which tables a transaction has written follows from where its call
  stands. Without it a commit could publish entries without their header.
- `Locks`: the holder of an uncommitted header is alone with its key and the key
  is free among the committed groups. This is what makes the commit safe for
  `AtMostOnePerKey`, which says nothing of uncommitted rows.
- `Fresh`: a running attempt has not published anything yet, so the group that
  an answer names is new, and `idempotent` is told truthfully.
- `Redirected`: a call that goes on without a header of its own has been pointed
  to a posted group; this keeps the caller's rows tied to a group.

`Implements` maps `posted` to the committed headers and `reply` to the answers
of returned calls: a commit with a header is a `Post`, heard or not; an answer
after `Precheck` or `Reread`, and a commit of the caller's rows alone, is a
`Redirect`; every other statement stutters.

`BountyEscrow_proofs`

- `Reliable`: what a handler has read or posted and relies on later still holds
  (a worker about to write the snapshot has its approval in the ledger, one
  about to write COMPLETED has its refund group, a batch holds matured entries).
  No step of another worker undoes it, because groups and maturities stay and
  refund rows keep their scenario (`RelianceKeeps`).
- `UniqueKeys`, `KeysNameSubs`: a key has one group and names its submission, so
  "the approval of this submission" is one group.
- `FollowsApproval`: a snapshot and a matured entry come after the approval.

`EarningsImplemented` maps each posting of an approval, a release or a reversal
to the action of that name; every other step leaves the three kinds of groups
alone. `UniqueKeys` gives `Approve` its guard, `ReleaseMatchesApproval` and
`ReversalHasOriginal` that what is released or reversed is there. `PostsAsPromised` reads
the same steps against `IdempotentLedger`; as no handler of the escrow
acts on the answer to a posting, the replies are left out of the mapping.

`FundingCallback_proofs`

- `Reliable`: a worker about to hand out a URL hands out that of the row; one
  about to fund has seen the money at TradeSafe and found the row.
- `DispatchedOnce`: the WebhookEvent lets one delivery per transaction into the
  dispatch, and none after the funding. `RefundsStay` follows from it: a second
  delivery in `Fund` after a refund is what would make the bounty PAID again.

`FundingImplements`: six steps show (`HandOut`, `Pay`, `Fund`, `MarkRefunded`,
a `SetStatus` out of or into DRAFT, and `overrideBounty`), all others stutter. The one that needs
the whole invariant is `Fund`: the money is there (`Reliable`), the ledger is
still empty (`DispatchedOnce` with `FundingConsistent`), so the bounty is
unfunded whatever was read of it, a draft unless an administrator has published
it, and is published in this very step.

`FeeMath_proofs`

- `HalfEvenNearTruncated`: the rounded quotient is the truncated one or one more,
  from which the bounds on every fee follow (`FeeNearTruncated`, `FeeAtMost`).
- The net is positive because both fees together stay below the face value,
  which needs a case for faces so small that rounding up matters.
- `SmallestPostables`: a rounded fee is zero exactly up to half a cent, a truncated
  one below a cent; the smallest rate of each group decides. Section 6 rests on it.

`HunterWallet_proofs`

- `Reliable`: a call of the wallet service has an amount of its type's sign and
  is entitled to it (`Entitled`: a hold is the withdrawal's first, a release or
  debit comes after its status was written); a handler about to write a status
  has found the row (`Found`), and completes only what was processed.
- `HoldsAlone`: one call holds for a withdrawal, the one that created its row.
- `RowsFollow`: PROCESSING has its time stamp, and a row that does not exist is
  blank. `WalletMatchesJournal` itself needs no more than that no write of the
  wallet is split: each is one transaction with its journal row.

`ApprovedSubmission_proofs`

- `HistoryFollowsStatus` is inductive with the types: each write of a status
  carries its history row, except that of the jobs.
- `PayInv`: a submission that nobody has decided about is still APPROVED, and
  credited only if PAID (`Untouched`); only the job pays it, has not credited it
  yet, and is at it alone (`Pays`, and `OneReplica`). A second replica, or the
  updatePayout that `touched` records, is what breaks it.

`PostVerification_proofs`

- `LocksHold`, `PassesExclusive`: who scrapes has the scrape lock, who passes
  the pass lock, and is alone with it. A lock that expires, is not deleted, or
  outlives a crash leaves the lock set without a holder, never the reverse.
- `PrevsAreCurrent`: the counter that a pass has read is still the counter,
  since only passes write it; so no increment is lost. `StreakCovers`: the
  counter never exceeds the streak, as it stands still with the kill switch.
- `TodoUnverified`: no row that a scrape is about is VERIFIED, since only the
  holder of the lock verifies; so its marks and failures take nothing from what
  the gate has seen. `ReviewsSubmitted`: nobody reviews what does not exist.

`Subscriptions_proofs`

- `ProIsShown`: a row with tier PRO is ACTIVE or CANCELLED, so that the answer
  of `getActiveTier` changes only with the row's status or its period.

### What takes an overlap to go wrong

Most handlers check what they have read and write later without comparing.
Some promises of the code therefore do not hold of the code as it is, and no run
states them. They hold if certain handlers never overlap, and the theorems
with a premise say so: the module's other handlers, jobs, callbacks, crashes and
lost replies, in any number, cannot break them. Where an administrator's override or
the resolution of a dispute breaks a promise alone, with no overlap at all, the
statement itself leaves out the step or the submission it concerns, and says so. A premise restricts `Duties`, the
handlers a worker may run, and so which handlers can be under way at once; it
leaves all the others as they are. Each was checked by TLC on the
instance of the component's run, and so was the counterexample without it.

| premise: at most one worker at a time | then | what breaks it otherwise |
|---|---|---|
| `OneReviewer` (`BountyEscrow`): reviews or resubmits | a reversal of a submission outside `Reopenable` takes back the net that was posted (`ReversalMatchesApproval`) | two reviews: one posts its split, the other writes its own to the snapshot. Without any overlap: a dispute or an override reopens the submission, and its second approval writes the net of a new tier beside the old posting |
| `OneEditor`: edits the bounty | the bounty's status follows VALID_TRANSITIONS up to the first override (`StatusInOrder`) | two edits: one publishes what the other has closed. Alone: `overrideBounty` |
| `OneSpender`: withdraws or corrects | the balance is never negative (`NeverOverdrawn`) | a withdrawal and a correction pass their checks on the same balance |
| `OneSettler`: opens or settles withdrawals | a withdrawal is released or debited once, not both (`SettledOnce`); statuses move as the service allows (`StatusInOrder`) | a failure and a cancellation both read REQUESTED, or a failure and a completion PROCESSING |
| `OneReviewer` (`PostVerification`): submits, reviews or resets posts | nothing is approved while a post is not verified, but by an override (`ApprovesVerified`) | an edit or a visibility reset between the gate and the approval. Alone: `overrideSubmission` |
| `OneDecider`: the same, or resolves disputes, or overrides | only the decree of a dispute or an administrator leaves the order of review and resubmission (`DecidesInOrder`) | two reviewers; a dispute or an override between a review's read and its write |
| `OneArbiter`: deals with disputes by request | no dispute leaves DISPUTE_TRANSITIONS (`DisputesInOrder`), with any number of job runs | the parties' request and the admin's read one status |
| `OneActor`: deals with the subscription | a payment row is written only without Pro or when due, and Pro lasts to the end of the period (`RecordedAndKept`) | owner and renewal, owner and expiry, two renewal jobs, two owners |
| `OneReplica`: runs the payout job | the job credits once (`AutoPayoutCreditsOnce`) | two replicas credit what both have read |

Each proof adds to `IInv` what an undisturbed handler still knows at its write
(`Alone`, `Chosen`, `Solvent`, `Settled`, `Kept`, `AllInTime`, `Grounded`), and shows
that the steps of all the other handlers keep it. Two of them are less obvious than
their premise. In `OneArbiterInOrder` the jobs do come between a request's read
and its write; a job only does what the request was about to do, or leaves what
it does allowed (`Timely`). In `OneEditorInOrder` the callback
sets LIVE without a look at VALID_TRANSITIONS; but it funds only while the ledger
is empty, and before that nobody can have chosen a status.

### What is not proved

Only model-checked: the liveness properties, which need fairness and ENABLED and
are beyond the proof system. What a recursive
definition computes for all inputs would need induction over data, which is
beyond it too; no module has such a definition.

## 6. Where the code and what is said of it differ

- `clearance_starves`: the candidate query takes the oldest `batchSize` matured
  entries, released or not (`ledger/clearance.service.ts:56-64`), while the
  comment above it says it finds those "that have not yet been released".
- `escrow_overdrawn`: every approval debits the bounty's whole face value
  (`ledger/approval-ledger.service.ts:136`), while ADR 0013 says the escrow pays
  every approved submission up to the cap.
- `callback_swallowed`: a redelivery finds the event of the failed first
  delivery and is answered as a duplicate
  (`webhooks/tradesafe-transaction-callback.controller.ts:142`), while the
  comment at line 186 counts on "the next successful attempt".

Further differences, found while modelling and described here only:

- Funding: `bounties.service.ts:917` protects `maxSubmissions` only while the
  bounty is LIVE, so a paid bounty that is paused accepts a new one, while ADR
  0013 (line 42) says it is frozen once paid.
- Overrides: "Payment must be completed before publishing"
  (`bounties/bounties.service.ts:1192`) holds of the brand's edits only:
  `overrideBounty` publishes an unpaid draft, whose later payment is booked as any
  other. `overrideSubmission` approves without the gate and without a posting;
  the submission cannot be approved by review then, and is never booked unless it
  is overridden or disputed back.
- Approvals: a submission that a dispute (RESUBMISSION_REQUIRED) or an override has
  sent back can be approved again. `postApproval` is told that the group stands, reads the
  tier of the day all the same and overwrites the snapshot
  (`ledger/approval-ledger.service.ts:113-204`), so that a later reversal takes back
  another amount than was posted. While it is sent back it does not count as
  approved either: the escrow can be refunded or expire under a posted approval.
- Fees: the checkout quotes the face value with half-even fees (`brandTotalChargeCents`,
  kept as `totalValueCents`), asks TradeSafe to collect the face value alone
  (`tradesafe/tradesafe-payments.service.ts:233`), and the funding books face value
  and truncated fees as cash received (`tradesafe/tradesafe-webhook.handler.ts:110-113`):
  up to 2 cents less than the quote, and from 7 cents (FREE) or 20 cents (PRO) of face
  value on more than TradeSafe was asked for, by both fees. The ledger refuses zero legs, so approvals of a face
  value below 15 cents and pre-approval refunds below 29 cents always fail;
  the DTO accepts any positive reward.
- Wallet: "Create withdrawal and hold funds in a transaction"
  (`withdrawal.service.ts:58`) describes two transactions; a crash between them leaves a
  withdrawal that fail or cancel releases without a hold.
- Disputes: the jobs' first history row fails and their catch ends the run after
  the `updateMany`; the history never shows an automatic step. A dispute that
  reaches RESOLVED through `transition` has no `resolvedAt` and is never closed.
- Verification: rows left IN_PROGRESS by a crash, or by an edit that deleted
  another row of the batch, are never scraped again, since the sweep looks for
  PENDING. ADR 0010 resets the counter "on any successful re-scrape"; a scrape
  skipped because of the lock, which the scraper calls "a transient skip"
  (`submission-scraper.service.ts:373`), resets it too, and an automatic refund
  does not, so that every further failing pass asks for another refund.
- Subscriptions: nobody is charged. `subscriptions.controller.ts:18-27` and ADR 0011
  (section 7) say that there is no provider for subscriptions and the upgrade is paused; yet
  `POST /subscription/subscribe` is live, gives Pro, writes a payment row SUCCEEDED
  and books it to the ledger, as the hourly renewal does again and again. A
  renewal that was found before a cancellation writes another row after
  it, and two replicas write two; an expiry that was found before a
  re-subscription ends the Pro just paid for; a subscription cancelled at once
  can be neither reactivated nor bought again until its period is over; the
  comment at `subscriptions.service.ts:287` counts on a retry "by
  reconciliation" that no code makes.

## 7. Plan

What is left, in this order:

1. Two instances more: `BountyEscrow` with two refund rows, for the reserve that
   repeated refunds drain; `ApprovedSubmission` with two replicas of the jobs.
2. Theorems: a wallet and a withdrawal as the hunter sees them, as a fourth abstract
   specification, for the steps that no overlap can break.
3. Reconciliation as a job that reads a moving target, with the kill switch it
   sets; bounty access (capacity of applications and invitations).

## 8. Not modelled

- Amounts in the protocol modules: a posting of `BountyEscrow` carries the
  hunter's net only; all legs are in `FeeMath`.
- Batch limits of the jobs on submissions, subscriptions and scrapes
  (`take: 100`, `50`), the scheduler lock of the sweep, cadence and cost cap of
  the visibility job: the instances are smaller than a batch, and a candidate
  may always be passed over.
- The grace-period job of subscriptions: nothing sets PAST_DUE. Payment of
  subscriptions: the code has none.
- Messages, evidence, assignment of disputes; what the scraper's checks compare;
  Apify.
- The gates in front of a handler that read rows no modelled handler writes:
  roles, KYB before live funding, validation of input. They only remove behaviours.
- Reconciliation as a job: its duplicate, status and reserve checks appear as
  invariants of the modules whose state they read.
- Webhook router, payout stubs: no caller, or no effect yet.
- Authentication, KYB (single rows written by one admin at a time), bounty access, administration lists and exports, brand and user statuses, inbox,
  mail, knowledge base, files, settings: rows of their own, written one at a
  time, read back by no money path.
- The web application and the shared package: user interface, DTOs, constants.
- Redis beyond the two locks of `PostVerification`.
