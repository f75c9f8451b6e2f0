# FoodFund server: TLA+ models and proofs

FoodFund is a crowdfunding platform for charity meals. Donors pay into campaigns by
bank transfer; a finished campaign pays its phases out (ingredients, cooking,
delivery) to a fundraiser's organization. The server is a set of NestJS services
(`auth`, `user`, `campaign`, `operation`) behind a GraphQL gateway; each has its own
PostgreSQL database and they call each other over gRPC. There are no distributed
transactions, hardly any database locks, and most writes carry no condition, so what
goes wrong goes wrong between two awaits: that is what the models are about.

Paths below are relative to `src/apps/` unless they start with `libs/`.

## 1. Inventory

| Component | State | Operations | Hard behaviour | What makes it correct |
|---|---|---|---|---|
| Donation payments (`campaign`: `services/donation`, `repositories/donor.repository.ts`) | donations, `Payment_Transaction` rows, campaign totals, outbox rows, SePay keys in Redis | create a donation, PayOS webhook, SePay webhook, cleanup of stale links, manual approval | two providers report one transfer, repeatedly and at once; handlers decide on a row read before; a key set before the work it stands for | a transfer is credited once and is never lost; totals cover the rows; every receipt is announced |
| Wallets (`user`: `wallet.repository.ts`, `wallet-transaction.service.ts`, `user-grpc.controller.ts`) | balances, wallet transactions | credit, debit, outgoing bank transfer | balances read and written without a lock; check for a repeat outside the transaction | balance = opening + rows; never negative; one row per reference; a call takes effect at once or not at all |
| Outbox and settlement (`campaign`: `outbox.processor.ts`, `campaign-settlement.service.ts`; `libs/grpc`) | outbox events, campaign status, calls in progress | poll, handle, settle a surplus, retry a gRPC call | at-least-once calls, stale readings, stuck events, crashes | one settlement; a completed event is credited once; a surplus is settled |
| Campaign lifecycle (`campaign`: `campaign.service.ts`, `campaign-cache.service.ts`, `campaign-scheduler.service.ts`) | campaign row, its copy in Redis, wallet debits in progress | change status with automatic wallet transfer, edit, extend, delete, complete; three nightly jobs; settlement and reassignment write the status too | decisions on a cached copy, writes without a condition, a transfer counted by two services | final statuses stay, but for a cancelled campaign another organization accepts; the copy is current; wallet money arrives once |
| Disbursement of a phase (`operation`: ingredient, operation and inflow services) | requests, inflow transactions, surplus credits | create, review, disburse, confirm | check, then act; the phase lives in another service | the budget is not exceeded; one live disbursement per request |
| Campaign phases (`campaign`: `campaign-phase.service.ts`, the gRPC `UpdatePhaseStatus`) | phase status, dates, budgets | move by hand, move by the operation service, synchronise | unconditional writes from two services; two phases end at once | a phase moves forward; the last one completes the campaign |
| Expense proofs, meal batches, delivery tasks (`operation`) | proofs, batches, tasks | submit, review, cook, assign, deliver | batch changed before its task; checks on stale rows | no batch without proof; a courier gets a batch once; batch and tasks agree |
| Campaign reassignment (`campaign`) | offers, refund requests | offer, accept, decline, expire | two organizations accept; expiry runs against acceptance | one new owner, or a refund, not both |
| Registration and sessions (`auth`, `libs/common/saga`) | saga steps, Cognito user, profile | register with compensation, Google sign-up, sign in | a late call succeeds after the compensation; undo by email | profile and Cognito user exist together |
| Organizations and membership (`user`) | organizations, members, roles, wallets | found, join, approve, leave, remove | role in two stores; checks passed twice | one membership per user; roles agree |
| Donor statistics and badges (`campaign`, `user`) | totals of a donor, the donor's badge | increment, award, revoke | increments without a reference are retried, awards given up arrive late | totals hold every gift; the badge is not above them |
| Users, profiles, system configuration (`user`) | rows | read and write | none of note | - |
| Posts, likes, comments, categories (`campaign`) | rows and counters, like queue, list of comments in Redis | create, like, comment | likes pass through a queue whose jobs are retried and run at once; replies counted before they are deleted | the last tap wins; counts are the number of rows; readers see the tree of the rows |
| Notifications and email (`campaign`) | notifications, mark of processed events, queue | emit, create, retry | a grouped job fails half way; two run at once; a mark that expires | nobody is told twice or not at all |
| Search (`campaign`: `handlers/kafka`, the search services) | documents in OpenSearch | consume a change, synchronise all, remove | documents stored from an older reading, events handled in vain | a search finds the rows as they are |
| Gateway | none | query | - | - |
| Libraries (Redis, SQS, S3, PayOS, SePay, Bull ...) | none | adapters | environment of the others | - |

How they interact: a webhook settles a payment row and, in the same transaction, adds
to the campaign and writes an outbox event; the outbox processor, every five seconds,
credits the administrator's wallet over gRPC and detects a surplus; the settlement ends
the campaign and writes a second event whose handling credits the fundraiser; nightly
jobs activate, end and expire campaigns by themselves, and pool the funds of those below
half their target. An approval debits the fundraiser's wallet in the user service, which
calls back to add the amount to the campaign. Once a campaign is PROCESSING, the
operation service disburses its phases, sets the phase status back in the campaign
service and returns what a request leaves of its budget; what was bought is proven,
cooked and delivered there, and when the last phase is finished the campaign is
completed. A cancelled campaign is offered to other organizations. Registration and
membership decide who may do any of this; a settled donation adds to
what its donor gave and may earn a badge; likes, comments and notifications hang on
the side, and every change of a campaign or donation goes to the search index.

`PROJECT.json` lists under `hazards` the places where this can go wrong, with the
property that covers each or the reason why none does.

## 2. Modules

| Module | Models |
|---|---|
| `Payments`, `PaymentsProofs` | donation payments, and theorems about them |
| `SumProofs` | what the sums of the models compute, for the theorems that are about sums |
| `Wallet`, `Ledger`, `WalletProofs` | the wallets of the user service, the ledger they implement, and theorems |
| `Settlement`, `SettlementProofs` | outbox processor, settlement, nightly job and the gRPC client; it composes them with `Wallet` (`W == INSTANCE Wallet`), whose calls the client starts, abandons and repeats; and theorems, which use those of `WalletProofs` |
| `Disbursement`, `DisbursementProofs` | requests, inflow transactions and the phase status, and theorems |
| `CampaignLifecycle`, `CampaignProofs` | one campaign with its copy in Redis, its phases, the nightly jobs, the transfer at approval and the other services that write its status, and theorems |
| `Reassignment` | offers of cancelled campaigns |
| `Delivery` | proofs, batches and delivery tasks of one phase |
| `Registration` | sign-up by form (saga) and by Google |
| `Membership` | organizations, members, and roles in the database and in Cognito |
| `PostLikes`, `Comments` | likes of a post through their queue; its comments and the list of them in Redis |
| `Notifications` | one event, its jobs and notifications |
| `Donors` | the statistics and the badge of a donor, at both ends of their calls |
| `Search` | the documents of a campaign and a donation in OpenSearch |
| `UserProofs` | theorems about `Registration`, `Membership` and `Donors` |
| `ServicesProofs` | theorems about the other components of `MCServices`, and the types of all of them |
| `MCPayments`, `MCWallet`, `MCSettlement`, `MCDisbursement`, `MCCampaign`, `MCServices` | instances for TLC; `MCServices` puts the components from `Reassignment` on side by side, of which one moves |

In all modules a step ends at an `await` (or at a database transaction, which is one
step unless stated otherwise). What a handler has read is either kept in its record
or, when only the decision matters, folded into the step the handler goes to next: so
a row may change between the decision and the write, as in the code. Definitions
whose name has the form `Of_Change` and whose comment begins with "Mutant" belong to
no specification: each is a plausible mistake in the operator below it, and breaks
the property `PROJECT.json` lists it with.

### Payments

| State | Code |
|---|---|
| `payments[o]` | the row of order `o`: status, `payment_status` (`paid`), gateway, `processed_by_webhook`, `received_amount`, the PayOS reference in its metadata, whether `error_description` is set (`noted`) |
| `extras[t]` | rows made by `createSupplementaryPayment` for transfer `t` |
| `credited`, `counted` | what order `o` has added to `received_amount` and `donation_count` of its campaign, kept per order so that properties can tell who added it |
| `outbox` | `DONATION_PAYMENT_SUCCEEDED` events |
| `redis` | idempotency keys of `checkIdempotency` |
| `wallet` | transfers credited by `routeToAdminWallet` |
| `slots` | webhook requests in progress, with the step they are at |
| `sweep`, `desk` | progress of the cleanup job on an order, of an administrator's approval |
| `link`, `made`, `seen`, `delivered` | PayOS and the bank |
| `passed`, `raced`, `approved`, `swept` | history, read by properties only |

Actions: `OpenLink`, `CreatePaymentTransaction` (`createDonation`); `PayosFind`,
`PayosCommit`, `PayosFail`, `PayosError` (`handlePaymentWebhook`); `RedisExists`,
`RedisSet`, `RedisError`, `SepayLookup`, `SepayOrder`, `SepayPartial`, `SepayExtra`,
`SepayError`, `Route`, `RouteError` (`handleSepayWebhook`); `SweepList`, `SweepCancel`,
`SweepSkip`, `SweepMark`, `SweepError` (`cancelStalePendingPaymentLinks`);
`AdminCheck`, `AdminApprove`, `AdminError` (`approveManualDonation`); and, for the
environment, `DonorPays`, `Deliver` and `Crash`. The database transactions
(`RecordSuccess`, `RecordFailure`, `RecordExtra`, `RecordApproval`) are operators those
share, as the repository methods are.

Details the code hides in its conditions and the model keeps: the second duplicate
check looks for the JSON key `sepayId` while the first payment stores `sepay_id`, so
only supplementary rows are found; PayOS ignores what is below the price and leaves it
to SePay; an error anywhere in the SePay handler sends the transfer to the
administrator; the webhook controllers answer 200 whatever happened, so an error is
not followed by another delivery.

Left out: the `donation_count` of supplementary payments (`counted` is about orders);
texts, QR codes, e-mail; the campaign's status, which no step of a payment checks once
the link exists. SePay webhooks for outgoing transfers are one gRPC call, modelled at
its other end as `bankOut` in `Wallet`. `trackSepayPartialPayment` has no caller.

### Wallet and Ledger

`balance` and `posted` are the `Wallet` and `Wallet_Transaction` tables, the latter as
the number of rows per key (operation, wallet and reference); `total` is the signed sum
of the rows. `calls[c]` is a gRPC request in progress: received (`Receive`), looked up
(`Check`), reading the balance (`ReadBalance`), writing (`Write`), answering (`Reply`).
A "transaction" of `creditWallet` or `debitWallet` reads the balance without a lock at
READ COMMITTED and writes one it computed, so it is two steps; `processBankTransferOut`
reads even before its transaction begins. `DbError` and `Restart` undo it.
`crossed` and `doubled` are history: the wallets on which two calls had read before
either wrote, the keys of which two calls had passed the look-up before either wrote.
Both are exactly the overlaps nothing in the code prevents.

`Ledger` states what this adds up to for a caller: `Post` changes one balance by the
amount of one entry, not below zero, and an entry that may be posted once is posted
once; `GiveUpAccount` and `GiveUpKey` withdraw the promise for one account or key.
`Book == INSTANCE Ledger WITH ...` maps a request to an entry (`AsEntry`), `crossed` to
the accounts given up and `doubled` to the keys given up; a `Write` is a `Post`, the
step that notices an overlap gives up, and all else (receiving, looking, failing,
answering, restarting) stutters.

### Settlement

| State | Code |
|---|---|
| `campaign` | status (`ACTIVE`, `PROCESSING`, `ENDED`) and `received_amount` |
| `events` | outbox rows; `failed` is "retry_count > 0" |
| `worker` | the outbox processor: its step, the rest of its batch, the campaign it read with the payment |
| `tasks` | listeners of `campaign.surplus.detected` in progress |
| `night` | `completeCampaign` in progress, with what it read and decided |
| `rpc` | the calls of `GrpcClientService`: attempt, and the user service's call it waits for |
| `sent` | history: attempts per key |

Actions: `Poll`, `MarkProcessing`, `FindPayment`, `Credited`, `CreditFailed`, `Complete`,
`WorkerError`, `IncrementRetryCount`, `LogError` (outbox processor); `SettleRead`,
`SettleCommit`, `SettleError`; `NightRead`, `NightDecide`, `NightPooled`, `NightWrite`,
`NightError`; `GrpcSend`, `GrpcAnswer`, `GrpcDeadline`, `GrpcBroken`; `Serve` and
`ServeError`, which take the steps of `Wallet`; `DonationSucceeds`, which stands for the
commits of `Payments`; and `Crash`. A deadline makes the client send again while the
user service goes on with the abandoned call: the interplay of retry, idempotency and
unlocked balances comes from there.

Left out: e-mails, donor statistics and badges after a credit, whose errors are caught;
a second event for one payment (see the plan); more than one campaign, which share
nothing but the administrator's wallet; a second process of the campaign service
(`isProcessing` and the crons are per process).

### Disbursement

`phase` is the phase's status in the campaign service; `status`, `flows` and `surplus`
are requests, inflow transactions and surplus credits in the operation and user
services. `jobs[j]` is a handler in progress: `create`, `review`, `inflow`, `confirm` or
`move` (the fundraiser's own `updatePhaseStatus`). `JobError` ends a handler anywhere,
`CaughtError` skips a step whose error is swallowed, `SurplusRepeated` is the late and
repeated credit. History: `crossed` (kinds of which two handlers overlapped), `twice`
(requests with two disbursements or confirmations at once), `byHand`.

Left out: amounts other than totals, users' roles, images, notifications; the check
that the campaign is PROCESSING, which holds throughout; edits of a phase's budget.

### CampaignLifecycle

| State | Code |
|---|---|
| `row` | the campaign: status, `received_amount`, whether `extension_count` is 1, end date, `extension_days`, how far the phases' dates were moved (`shift`), `is_active` |
| `phase` | each phase: open, finished (COMPLETED or FAILED) or cancelled |
| `cache` | the copy `CampaignCacheService` holds in Redis |
| `calls` | handlers in progress: what they do, the copy they decided on |
| `jobs` | the three crons of `CampaignStatusJob` |
| `debits` | `DebitFundraiserWallet` requests in the user service, with their callback |
| `savings`, `given`, `day` | the wallet, donations, the calendar |
| `surplus` | a listener of `campaign.surplus.detected` has found the campaign active and above its target |
| `offer` | whether a cancelled campaign is offered to organizations, or was accepted by one |
| `plan` | what the scenario leaves to happen |
| `taken`, `outdated`, `spoiled`, `torn`, `missed` | history, read by properties only |

Every handler begins with `findCampaignById` (`LookupHit`, `LookupMiss`, `Fill`) and
decides on what it got (`Decide`, `FirstStep`): `Change` with `Balance`, `Answer`, `Late` (`changeStatus`,
`autoTransferWalletToCampaign`), `Update`, `Extend`, `Delete`, `Sync` and `Revert`
(`syncCampaignPhases`, `revertToPending`), `SetPhase` and `LookAtPhases`
(`updatePhaseStatus`), `Finish` (`autoCompleteCampaign`), or a mere view. `Put`, `Drop` and `DropSkipped`
are the cache commands after a write. The user service's side is `DebitWallet` and
`AddRead`, `AddWrite`, `AddDrop`, `AddFails`, `AddAgain` (`addReceivedAmount`, called
back); the jobs are `Midnight`, `Find`, `JobWrite`, `JobError`; the environment is
`Donate`, `Expire`, `CallError`, `Crash`.

Two services write the status besides, and like the jobs leave Redis alone (`WritesPast`).
The settlement listener (`FindSurplus`, `Settle`, `SettlementEnds`) writes PROCESSING, under
the condition that the campaign is still ACTIVE, on a campaign it read as one with a
surplus. An organization that was offered a cancelled campaign (`OfferCampaign`) takes it
to ACTIVE without a condition (`AcceptCampaign`), whatever it was before: what
`RestoredToPrevious` is about. Here that is one step, once; answers that overlap, refusals
and expiry are in `Reassignment`.

Left out: permissions, texts, images and categories; creation, one insert; the money of
a campaign that is ended or settled (in `Settlement`); the dates of phases other than
their common shift; `phase` follows only the handler above, the operation service's
moves being in `Disbursement`.

### Reassignment

| State | Code |
|---|---|
| `campaigns` | status, organization, and the status before CANCELLED |
| `offers[k][g]` | the `Campaign_Reassignment` row of campaign and organization, days until it expires |
| `desks` | requests in progress, with the check they have come to |
| `expiryJob` | `processExpiredReassignments` with its two lists |
| `overtaken` | history: campaigns on which two answers, or an answer and the job, overlapped |

Actions: `Assign`, `Respond`, `Look` (the checks, one await each), `Offer`, `Accept`,
`Decline`; `CancelAgain`; `NextDay`, `FindOverdue`, `ExpireOffer`, `FindAbandoned`,
`RequestRefund`, `JobEnds`, `JobFails`. The refund requests are events with no handler.

### Delivery

| State | Code |
|---|---|
| `proofs[p]` | the `Expense_Proof` rows of a disbursed purchase, in order |
| `batches[b]` | `Meal_Batch`: status and the purchases it is cooked from |
| `tasks` | `Delivery_Task` rows |
| `counters` | requests in progress |
| `revised`, `clashed`, `stranded` | history: proofs reviewed again, overlapping requests, a request broken between its two writes |

Actions: `OfferProof`, `CreateProof`, `OpenReview`, `Review`; `Cook`, `LookAtProofs`,
`CreateBatch`, `FinishCooking`, `MarkReady`; `AssignBatch`, `LookAtCouriers`,
`CreateTask`, `Report`, `Depart`, `Move`; `Breaks`. Left out: permissions, quantities,
the status log, self-assignment permissions, the caches (nothing decides on them).

### Registration

`pool[e]` and `profiles[e]` are the Cognito user and the profile of an email, both told
apart by the `sub`; `forms` the sign-ups in progress, `late` the `CreateUser` calls given
up that may still arrive. `Start`, `CreateAccount`, `AccountRefused`, `AccountFails`,
`Confirm` (Google only), `CreateProfile`, `ProfileRefused`, `CreateProfileFails`,
`LateArrives`, `Undo`. `troubled` is history: emails of which a call took effect although
its caller saw it fail, an undo failed, or a Google sign-up broke before the profile,
where the code has no cleanup.

### Membership

`roles` and `cognito` are the two stores of a role, `founded` and `members` the
`Organization` and `Organization_Member` rows, `wallets` who has a fundraiser's wallet,
`clerks` the requests in progress. Requests of a person (`RequestOrganization`,
`CancelOrganization`, `RequestJoin`, `CancelJoin`, `LeaveOrganization`) look twice
(`SecondLook`), those of a decider once (`DecideOrganization`, `DecideMember`); then
comes one write (`Found`, `ApproveOrganization`, `CloseOrganization`, `Join`,
`WriteMember`), and after some the role goes to Cognito (`SyncRole`, with retries).
`astray` and `unsynced` are history: writes on what had changed since the check, and
roles given up after the last attempt.

### PostLikes, Comments and Notifications

`PostLikes`: `Tap` checks the rows, `Queue` adds the job (`QueueFails` and `Fallback`
carry it out at once), `TakeJob` takes the next one, `CheckLiked`, `WriteLike`, `SetCounter`
are the steps of a job, and `JobErrs` puts a job back at the end. Jobs are taken in order but
several run at once (`running`, at most `LikeLoops`): Bull starts a loop for each named
`@Process` of a queue, `CAMPAIGN_JOBS` has three (`post-like.processor.ts:33`,
`notification.processor.ts:31` and `:81`), and each loop takes jobs of any name. So the LIKE
and the UNLIKE of one fan may run side by side and cross, without an error: the UNLIKE finds
no row and ends before the LIKE writes one. `wish` is what a fan asked for last, `jumped`
history: fans of whom a job ran beside an earlier one or lost its turn. The counter in Redis is
left out: it is a guess that every write replaces.

`Comments`: `comments` are the rows in order of creation, `counted` the post's
`comment_count`, `shown` the list in Redis, `posters` the requests in progress. A comment
is made in `StartComment` (its parent is looked at), `Deepen` (and again, for the depth)
and `InsertComment`; edited in `StartChange` and `WriteEdit`; deleted in `StartChange`,
`CountReplies` and `WriteDelete`, which switches off a comment with its direct replies and
subtracts what was counted before; each ends with `DropList`. What readers are shown
(`ListOf`) is the tree of the live rows, in which a reply hangs from its parent if that is live
too: what is two levels below a deleted comment stays live and counted, and is shown to
nobody. Readers miss the list
(`StartRead`), fetch and store it (`FetchList`, `StoreList`); it expires (`ExpireList`).
`miscounted` and `outdated` are history: a deletion whose count had changed, a list stored
after a write it had not seen or a write Redis was not told of. The comment counter in
Redis is left out: nothing but the code that keeps it reads it.

`Notifications`: `Emit` (a single job has the event's id, so it is added once; a grouped
job has the time), `TakeEvent` (all recipients read the mark, then run side by side), `Save`,
`Mark`, `CreateBreaks`, `Complete`, `FailAttempt`, `Forget` (the mark expires). An
attempt that failed leaves its other notifications running. Up to `NotifyLoops` jobs run at
once, in the loops described above: two grouped jobs of one event may both find no mark.
`twice` is history: whom that concerns, and whom an error or the end of the mark leaves
without it.

### Donors

`given` and `badge` are the donor's row in the user service, `errand` what the outbox
processor does for a gift (one event after the other), `services` the calls the user
service works on, which outlive their deadline. `TakeGift`, `LookAtStats` (`GetUserWithStats` and
`findHighestMilestone`), `SendStats`, `SendAward`, `Answered` and `GiveUp` are the
processor and its client; `UpdateStats`, `AwardCheck` and `AwardWrite` the user service;
`AwardByHand`, `Revoke` and `Switch` the administrators. `answered` is history: gifts whose
update was answered with success. Two details the model keeps: `UpdateDonorStats` carries
no reference, so an attempt that was given up counts as well as its repetition; and the
step its comment says "will auto-replace if lower priority"
(`badge-award.service.ts:110`) replaces any badge by any other, as `awardBadge` compares
no priorities. Deletion of a badge is left out: `deleteBadge` refuses when
`countUsersWithBadge` is above zero, and what that counts (`badge.service.ts:151`) includes
the badge itself.

### Search

`written[t]` counts the writes of a row in each of the three tables whose changes are
consumed, `topic[t]` the events not yet consumed, which are used for their id only;
`index[d]` is a document and the reading it was made from. `Consume` and `IndexRow` are the
three handlers (one consumer, one event at a time), `SyncRead` and `SyncStore` are
`syncAll`, `DeleteRow`, `DeleteImage` and `RemoveDocument` the part of `deleteCampaign` after
its checks, `CrashSearch` the restart with repeated events. A deletion is an update, whose
event finds no active row and does nothing: only `RemoveDocument` takes the document away.
`behind` is history: documents whose event was handled in vain, whose removal failed, or
that got an older reading than they had; the next event's document clears it. Left out:
what documents take from tables without a topic, and wallet transactions, whose rows never
change and whose events carry them.

## 3. Runs

| Run | Instance | States | Shows |
|---|---|---|---|
| `payments` | one order, two slots; one transfer with all troubles, or two transfers without (below) | 277,175 | `TypeOK`, `CampaignCoversPayments`, `ReceiptsAnnounced`, `TransferCreditedOnce`, `DonationCountedOnce`, `SplitPaymentAddsUp`, `ReceiptNeverShrinksAlone` |
| `payments_fair` | three transfers: the order's, one with an unknown number, one with none; faults; fairness | 209,197 | `EveryTransferAccounted` |
| `wallet` | two wallets, five requests, two calls at once, three rows | 1,456,016 | `TypeOK`, `BalanceMatchesRows`, `OneRowPerReference`, `PostsLikeLedger` |
| `wallet_lock` | two debits | violated | finding 1 |
| `settlement_faults` | two donations (a third of the target, and all of it), two wallet calls at once, two attempts, one night, any two faults of different kinds | 1,889,564 | `TypeOK`, `SettledOnce`, `CompletedIsCredited`, `FundraiserWithinReceived` |
| `settlement` | the same with one fault, and fairness | 326,806 | `SurplusIsSettled` |
| `settlement_retry` | one donation above the target, one wallet error | violated | finding 2 |
| `disbursement` | two ingredient, two cooking and one delivery request, two handlers at once, one error and one move by hand among the ingredient requests | 3,493,680 | `TypeOK`, `OneLiveFlow`, `FundsWithinBudget`, `PhaseMovesForward` |
| `disbursement_twice` | one request, two administrators | violated | finding 3 |
| `campaign` | one campaign from PENDING, ACTIVE or PROCESSING, two phases, two handlers at once and one fault; an approval with late calls; two handlers beside the settlement of two donations, or beside offers and acceptance | 5,128,295 | `TypeOK`, `CopyIsCurrent`, `FinalStays`, `PhasesMoveWithEnd`, `WalletMoneyArrives`, `FinishedIsCompleted` |
| `services` | reassignment, delivery, registration, membership, likes, comments, notifications, a donor's badge or the search index, two requests or jobs at once each | 3,989,793 | `ServicesTypeOK`, `OneNewOwner`, `DeliveryInStep`, `CookedFromProof`, `AccountsPaired`, `RoleMatchesMembership`, `CognitoFollowsRole`, `LastTapWins`, `ToldOnce`, `CommentsShown`, `GiftsCounted`, `BadgeMatchesGifts`, `SearchShowsRows` |
| `reassignment_status` | one campaign cancelled while PROCESSING | violated | finding 4 |

Bounds, each named in its module:

- `Slots`, `Calls`, `Jobs`, `Desks`, `Counters`, `Forms`, `Clerks` of two: every
  property is about a pair of overlapping handlers. A third would have to overlap with
  one of the two, and the history variables already excuse that. In the model handlers
  differ only in what they were asked, so permuting them is a symmetry; so is exchanging
  two phases, organizations, couriers, fans or recipients, and in `Disbursement` the two
  cooking requests, which agree in kind and cost and have users of their own.
- `MCPayments` constrains its run to states in which at most one transfer was made, or
  nothing but transfers and their reports happened (`SplitOrTroubled`): the properties
  about one transfer meet failure reports, the cleanup job, manual approval and faults,
  those about two transfers every order of reports. Both together exceed what TLC can
  enumerate. `MaxDeliveries` is two for each provider: one delivery and one repetition,
  which may overlap. In the fair run one suffices, since the property is about transfers
  delivered at least once.
- `MCDisbursement` constrains its run (`OneTrouble`): either ingredient requests are used,
  or cooking and delivery requests. A step fails among ingredient requests only, whose
  handlers take the same steps as the others', and the phase is moved by hand only where
  `i1` is the one request in use.
  `FirstPhases` starts it at the beginning and behind the ingredient phase, so that
  `MaxFlows` of two covers two ingredient disbursements as well as two of cooking, or one
  of cooking and one of delivery.
- `MaxFaults` is one of each kind in `payments`; in the settlement runs, where faults
  multiply with the retries, `FaultBudget` bounds them all together: two, so that one
  can hit the recovery from another (a failed credit whose failure cannot be recorded
  either), and one where liveness is checked, whose property excludes every fault but a
  late answer.
- `MaxRows` bounds the wallet table at three in `wallet`: enough for two overlapping
  writes on one wallet after one earlier row; in the settlement runs eight is never
  reached. `BatchSize` two against three events puts the third in a later poll.
  `MaxAttempts` two is one retry (the code makes more of the same).
- `MaxNights` one: the job finds no ACTIVE campaign after a successful night.
- `Scenarios` of `CampaignLifecycle`: any two handlers (of seven kinds) from each of the
  three statuses a campaign lives in, one error, crash or absent Redis among them;
  one approval with two late answers or errors, for the calls into the user service; two
  handlers of an active campaign whose two donations leave a surplus to settle; and two
  handlers of one in PROCESSING, which the first may cancel and an organization take over
  before or after the second. The other services come without faults, for the number of
  states: a settlement or acceptance that fails leaves the row as it was. The
  target is one donation and half the wallet, so that an approval before and after a
  donation transfers a different amount; three days, so that start, end and an extended
  end are met.
- `LikeLoops` and `NotifyLoops` of two: the fewest jobs that can cross. With two likes jobs
  running and two waiting (`MaxQueued`), one tap in progress at a time (`Taps`) and one error
  (`MaxLikeErrors`) are what TLC can enumerate: taps end as queued jobs, of which four can
  be about, and a job that crosses another can fail, and be tried to its end, without an
  error. The theorems are for any number.
- In `services` each component has two of what can overlap and one of what can not
  (campaigns, purchases, batches, emails, persons), one repetition of what may be
  repeated (an accepted campaign is cancelled again; an organization is founded again; an
  event is emitted again), and errors enough to use up one operation's attempts and
  leave one more (likes as above). They share no state, so that only one moves in a behaviour, which
  adds their state spaces instead of multiplying them. Three comments at depths up to
  `MAX_COMMENT_DEPTH` (two, as in the code) are the shortest thread in which a deletion
  leaves something two levels below; two gifts of one with milestones at nothing, two and
  three reach the third only through an attempt that was repeated and counted twice, and
  three calls given up (`MaxGiveUps`) let an award overtaken by the next gift's arrive last. Three writes
  (`MaxWrites`) are an edit, an edit after it and a deletion, or one of the donation and two of
  its payment; `MaxTroubles` of one is an error or a crash.
- Amounts are small but chosen to be different: half and all of a price, a third of a
  target and all of it (so that neither, one or both donations exceed it).

Deadlock is not checked in any run: with all deliveries, requests and faults of the
bounded instance used up the system rests.

**Fairness** is used in `payments_fair`, `settlement` and `settlement_retry` only. A handler
that has started runs on (an event loop does not starve a resolved promise; the
waits are on a database or another service, whose failure is an error step). SePay
delivers the webhook of every transfer at least once: weak fairness of the first
delivery, nothing of repetitions. The outbox cron runs every five seconds, settlement
listeners and gRPC calls make progress, and the user service serves the calls it
has. Nothing is assumed of donors, PayOS, administrators, the cleanup job, the nightly
job, or of faults.

**What the properties exclude, and why.** The code leaves gaps knowingly or not; the
properties name them, so that they hold of everything else and say where the line is.

- `TransferCreditedOnce` excludes two passes of the duplicate check (EXISTS and SET are
  two commands), failure reports for a paid order, manual approval and database errors
  after which the fallback credits the administrator too. `ReceiptNeverShrinksAlone`
  excludes overlapping handlers and rows the cleanup job marked FAILED after a webhook
  had settled them, against its own criterion (`payos-cleanup.service.ts:38`).
- `BalanceMatchesRows`, `OneRowPerReference` and `PostsLikeLedger` exclude overlaps on
  the same wallet or key. `FundraiserWithinReceived` excludes pooled funds sent twice,
  which carry no reference.
- `FundsWithinBudget` and `PhaseMovesForward` exclude overlapping handlers of one kind,
  moves by hand and handlers that failed half way, and for a kind those of the kinds
  before it: a handler overtaken there can set the phase back to where a second request
  of this kind is let in.
- `CopyIsCurrent` excludes a copy stored after a write it had not seen, the writes that
  leave Redis alone for up to an hour (of the nightly jobs, of the settlement listener,
  `campaign-settlement.service.ts:111`, and of an accepted reassignment,
  `campaign-reassignment.repository.ts:291`), and handlers that failed or skipped the
  command. `FinalStays` admits one way out of a final status, the acceptance of a cancelled
  campaign that is on offer. `FinishedIsCompleted` excludes a campaign whose phases were all
  finished when it was taken over after a cancellation. `FinalStays`, `PhasesMoveWithEnd`, `WalletMoneyArrives` and
  `FinishedIsCompleted` exclude writes on a reading that another write has outdated
  (`spoiled`): a campaign cancelled by one administrator can be completed by another.
  `WalletMoneyArrives` also excludes approvals whose debit or addition was repeated, lost
  or given up where it says that the money arrives, and only the first where it says
  that no more arrives than was given or left the wallet.
- The properties of `services` exclude overlapping answers (`overtaken`), overlapping
  requests about one batch or task and a request broken between its two writes
  (`clashed`, `stranded`), proofs reviewed twice (`revised`), calls that took effect though
  their caller saw them fail (`troubled`), writes on rows changed since the check and
  roles given up (`astray`, `unsynced`), fans of whom a job lost its turn to an error or ran
  beside an earlier one, until they tap anew with nothing pending (`jumped`),
  recipients whose notification was interrupted before the mark or was still being created
  when another job or attempt looked for it (`twice`), deletions whose count of replies
  had changed and lists stored late (`miscounted`, `outdated`), and badges an
  administrator had a hand in. That statistics are exact, and the badge the highest, is
  said of donors none of whose calls failed; that no gift is missing and no badge too
  high, of all. `SearchShowsRows` excludes documents that are `behind`.

### Findings

Each is a statement of the repository about itself that the code does not keep; the
violation runs give the traces.

1. `debitWallet` says "Get wallet with lock" (`wallet.repository.ts:547`) and takes none.
2. A failed surplus credit is rethrown "to trigger retry logic"
   (`outbox.processor.ts:176`), but the event stays PROCESSING and is not fetched again.
3. "Each request can only have one active disbursement at a time"
   (`inflow-transaction.service.ts:132`): the check and the insert are separate, and two
   administrators create two.
4. "Restore campaign to previous status" (`campaign-reassignment.repository.ts:290`): the
   status before a cancellation is put into the update as `previous_status`
   (`campaign.service.ts:527`), which the repository does not write, and the service that
   accepts an offer reads a `previousStatus` no mapper returns. Every accepted campaign
   becomes ACTIVE, a PROCESSING one too.

## 4. Proofs

Every invariant and every action property of every passing run is a theorem. The theorems
hold for any orders, transfers, prices, wallets, requests, phases and amounts, persons,
couriers, fans and recipients, any number of handlers at once and any bounds, under the
assumption each module names (`PaymentsAssumption`, `WalletAssumption`,
`SettlementAssumption` and so on): the constants have their types, sentinels are none of
the real values, what is summed or counted is finite (donations, disbursement requests,
fans, the gifts of a donor and the calls about them), a campaign has a phase, the calendar
reaches past an extension, the first badge is for any donation. TLC evaluates them in the runs whose module extends the module that states
them.

The arguments have one form. What a property says at the end of a handler holds because of
what the handler read at its beginning, several awaits before; so the inductive invariant
says of every handler, at every step, what is still true of what it has read, and of the
history variables that whatever can make it untrue has been recorded. Each was checked by
TLC before it was proved.

`PaymentsProofs`:

- `PaymentsTyped`: `Spec => []TypeOK`. `TypeOK` is inductive; it is split in rows, slots
  and the rest (`TypeSplit`), because a slot's step decides which hook it can hold
  (`RequestHook`) and only this shows that `SepayPartial` and `SepayExtra` are about an
  order that exists.
- `NextRowStep` is the lemma the others rest on: every step leaves the rows alone, adds a
  row, or is one of the four database transactions (`RowStep`). The remaining invariants
  are then proved of those transactions with any arguments, so they hold whatever a
  handler had read before, and however many run at once.
- `CampaignCovers`: `CampaignCoversPayments` is inductive relative to the types: the
  increment of a commit is what the new receipt exceeds the recorded one by, so
  `credited` never falls below `received`, although receipts may shrink.
- `AllReceiptsAnnounced`: `ReceiptsAnnounced` likewise; the outbox only grows
  (`OutboxGrows`), so an event once written stays a witness.
- `Trail` is the invariant about interleavings: a webhook in progress was delivered for a
  transfer that was made (`HooksSent`), `passed` counts the requests past the duplicate
  check (`ChecksCounted`), the row was there before money for it (`RowFirst`), two
  requests about to write one order are in `raced` (`OverlapsRaced`), the marks of a row
  say whether it records a receipt (`RowMarks`), and a request alone with its order finds
  none recorded (`ReadFresh`). `ReceiptsNeverShrink` follows from it step by step.
- `DonationsCountedOnce`: as long as nothing takes the row out of SUCCESS, `counted` is
  one only while the row is SUCCESS (`CountedBySuccess`).
- `TransfersCreditedOnce`: `OnceInv` says of an order paid by one transfer that the
  campaign has the transfer's amount or nothing, and that SePay's report of it is on no
  path that credits it again (`OnePath`). `Handled` is why: a report that was dealt with
  is only taken up by another delivery.
- `SplitPaymentsAddUp`: `SplitInv` singles out the transfer the row records (`First`) and
  says of each other one that it has its own row once it was dealt with
  (`Supplements`); `SplitSum` adds them up.

`SumProofs` is what the last one and the money of the other modules rest on. The sums are
`SumFunctionOnSet` of the community modules, a recursive function that takes the elements
of a set in any order. That it adds each element once is shown for every finite set
(`SumUnfolds`, `SumTakeOut`), by the minimality form of well-foundedness: a smallest set on
which two unfoldings differ cannot exist (`SumUnique`, `SumExists`). The induction theorems
of the library, which take a predicate as a parameter, are not needed.

`WalletProofs`: neither balance property is inductive. `WalletInv` adds to `TypeOK`

- `ReadIsBalance`: on a wallet not in `crossed`, balance and rows agree, at most one call
  has read the balance without having written, and what it read is still the balance;
- `CheckedIsNew`: of a key not in `doubled` at most one call is past the look-up, and as
  long as one is there is no row.

One lemma per action shows that it keeps both (`ReceiveKeeps` to `EndKeeps`), and
`WalletTyped` (balances are never negative, overlaps or not), `BalancesMatch` and
`ReferenceRecordedOnce` follow. Non-negative balances need that a call about to write
has read an amount that covers it, a conjunct of `TypeOK`.

`WalletImplementsLedger` (`Spec => PostsLikeLedger`) uses the same invariant step by step:
`WriteIsLedger` needs `ReadIsBalance` for the balance a write leaves and `CheckedIsNew`
for the entry that may be posted once; `CheckIsLedger` and `ReadIsLedger` show that
noticing an overlap is giving up a key or an account, and `LedgerStutter` covers the rest.

Registration (`UserProofs`): `AccountsPaired` speaks only of emails nobody is registering, so a
step out of a registration says nothing about it. `RegistrationInv` adds `PairedOrHeld`
(the Cognito user and the profile of an email agree, or exactly one registration is past
the creation of the account, holds the sub in the pool, and there is no profile) and
`Equipped` (that registration has a sub, and attempts left while it makes calls).
`CreateAccountKeeps` is where several registrations of one email meet: Cognito refuses
all but the first (`HolderMade`). `UndoKeeps` shows that the undo, which deletes by email
and not by sub, removes only what its own registration made. The invariant
holds for emails not in `troubled`, and `AccountsArePaired` follows.

Search (`ServicesProofs`): `SearchShowsRows` speaks of documents with nothing under way. `SearchInv`
adds that what is under way is harmless: a reading of the consumer is the row, or an event
of the later write is still to come, or the campaign is deleted (`ReadingIsRow`); what
`syncAll` has read is not ahead of the row (`SyncIsNotAhead`, which is why its store can
only put the document `behind`); and a deletion that is over has taken the document away
(`DeletedIsGone`). One lemma per action (`WriteRowKeeps` to `CrashKeeps`), then
`SearchesShowRows`.

`SettlementProofs` composes: `P == INSTANCE WalletProofs` brings the wallet's invariant,
which every step of `Settlement` keeps because it is a step of `Wallet`, a request it may
receive, or none (`NextWallet`). On it rests `Kept`: the campaign has received the sum of
the donations in the outbox, and a settlement's amount is what exceeds the target
(`Journal`); one settlement event, after which the campaign is never ACTIVE again, the
nightly job included (`Once`); the listener's payload is about such an event (`Tasked`); a
call in progress asks for a donation, the surplus or a pool that exists, and is answered
with success only when the wallet has its row (`Answered`); and the processor completes
the event whose call was answered (`Handled`). `SettlementTypeCorrect`,
`CampaignSettledOnce` and `CompletedEventsCredited` follow. `FundraiserPaidWithin` needs what
the fundraiser's rows amount to: a surplus above the target and a pool below half of it
(`Shares`), while the pool, which carries no reference, was sent once (`PooledOnce`).

`DisbursementProofs`: `OneDisbursementEach` rests on `OneAtATime`: of a request not in
`twice` one payment or confirmation is under way, and while it is about to insert there is
no live flow. The phase and the funds rest on `Careful`: `Watched` (overlaps of a kind and
moves by hand are recorded), `Founded` (requests fit the budget of their kind) and
`InOrder`, which says of each kind that no handler has disturbed, it or an earlier one,
that what a handler has read is still so (`InStep`), that one request at a time is active
and is paid and its surplus returned once (`Money`), and where the phase is for it
(`Bounds`, `Past`). A handler moves the phase from what it has read, so
`PhaseOnlyForward` needs that the phase has not gone on meanwhile. TLC cannot enumerate
all kinds at once and checks them one group at a time (`OneTrouble`); the theorems have no
such constraint.

`CampaignProofs` shows for each action what it does to its handler, and that it leaves the
others alone but for marking them as outdated (the `View` lemmas); the invariants are
proved of those views.

- `CopyStaysCurrent`: a reading not marked `old` shows the row (`ReadingIsRow`), so what is
  stored from it does.
- `FinalStatusesStay`: what a nightly job found due is the row's status (`FoundIsDue`), a
  handler writes only what its copy allowed (`CallsChecked`), a settlement asks for ACTIVE
  when it writes, and while a campaign is offered it is cancelled, or a write on an outdated
  reading has been recorded (`OfferIsCancelled`), so that an acceptance leaves no other final
  status.
- `PhasesMoveOnce`: the phases have moved by the days of the extension (`MovedOnce`).
- `FinishedCampaignsComplete`: when the last phase is finished there is a handler on its
  way to complete the campaign, through the lookup, the list of phases and the write
  (`SomeoneCompletes`), unless one that was is in `missed`.
- `TransfersArrive`: each debit belongs to one handler and one attempt (`DebitsOfCalls`).
  `Arrived` is what was given and left the wallet, less the debits not yet added: nothing
  in the row, in the copy, in a reading or in a sum about to be written exceeds it
  (`NothingExceeds`). Where nothing failed, each approval has exactly one debit
  (`OneRequestEach`), and while it holds the money it is the only one that pays and knows
  what the campaign had before (`SumsAreRight`). Two services count here, the
  callback adds and the approval overwrites with a sum of its own; the invariant is why the
  result is right.

`UserProofs`, besides registrations:

- `RolesMatch` rests on `FitsMembership`: a person not in `astray` has one verified
  membership at most, whose role is the person's, and is a fundraiser exactly with a
  verified organization and with a wallet. A request writes after a second look, so
  `AboutMember` says that the row it is about to write exists and is that person's. The
  crossing of two requests is what `astray` records; everybody else still fits
  (`StillFits`).
- `TokensFollow`: a role that changes leaves the request that changed it at the call to
  Cognito, with that role (`CognitoStillFollows`).
- `GiftsAreCounted`: a call given up by the processor still adds its gift when it arrives,
  so the total alone has no inductive bound. `NoneTooOften` bounds the total together with
  what the calls under way will add, a sum over the calls (`Due`, with `SumProofs`), and
  what the attempts that are left may add; `NoneForgotten` is the bound from below, and
  `CountedOnce` the equation while no call fails.
- `BadgesMatch`: a badge that is looked for, asked for or found has been earned
  (`BadgesEarned`), since totals only grow; while no call fails the one call there is
  awards the highest (`BadgeInStep`). That there is a highest needs that a finite set of
  numbers has a maximum, which is proved like the sums (`LargestOf`, `HighestIsEarned`).

`ServicesProofs`, besides search:

- `ReassignedOnce`: of a campaign not in `overtaken` whoever is about to write an answer is
  right that no offer has been accepted (`Answerable`), and so is the nightly job about
  what it is to refund.
- `BatchesTellTheTruth`: a batch is cooked by one request until its row exists
  (`BatchesExist`). Of a batch not in `clashed` no two requests of a kind are under way,
  and what each has read of its tasks and status is still so (`StillTrue`); with that,
  and the agreement itself, `BatchInStep` is inductive. `MealsAreProven` needs of a cook
  that the proofs looked at so far still stand (`LookedAtProven`).
- `LastTapDecides`: what a fan not in `jumped` asked for last is the fan's last job in the
  queue, or the last of the running ones still to be carried out (`AtWork`) when none waits,
  or what the rows say when there is none; and only the first of those has found the rows
  against it (`LastAsked`). A job that ends leaves its place in `running` to those behind it, so the
  lemmas relate places before and after (`PlaceBefore`, `PlaceAfter`). The counter is the
  cardinality of the rows by the transaction that writes both.
- `CommentsAreShown` is inductive with the types and with the row each request is about
  (`AboutRow`). What the tree of the rows contains is left unexpanded: it changes only with
  the rows.
- `EventToldOnce`: a recipient not in `twice` has one piece of work between the reading of
  the mark and its writing, whatever jobs run, and what was told is marked or about to be
  (`ToldOrMarked`); each job that runs has a piece of work for everybody (`JobForAll`), so a
  job that completed has told everybody.
- `ServicesTypeCorrect` puts the invariants side by side (`ServicesInv`): the component that
  moves keeps its own, and each implies the types of its component.

What the proofs found in the models, all of it corrected: `FundsWithinBudget` named
handlers of its own kind only, and was false of a phase set back by those of an earlier
one, which the run's constraint kept apart; the type invariant of the campaign bounded the
end date by the calendar, true only as the run ends early; an approval whose campaign is
gone when it comes back from the debit (`NotFound`) leaves money behind, which `torn` did
not record.

Only model-checked: liveness (`EveryTransferAccounted`, `SurplusIsSettled`), which rests on
fairness and so on ENABLED, beyond the prover; and the runs that expect a violation.

## 5. Not modelled

- The catalogue of badges, users, profiles and system configuration, posts and
  categories, the gateway, search queries, email: single statements, or text and queries, on
  whose result no other part relies. Of posts one thing is worth knowing: an edit with
  media, and a deletion, start removing the files of the old row before the author is
  checked and the row written (`post.service.ts:175`), so that a request refused or failing
  there, or an edit with an empty list, leaves the row with files that are gone.
- The mutex, the timeout and the graceful shutdown of `BaseJobHandler` (`base.job.ts`): the
  jobs it guards run once a day, so one would have to take a day to meet its own mutex,
  and no application of the repository enables shutdown hooks or closes itself, so
  `onModuleDestroy` is not called.
- Sign-in, tokens, passwords and the administrator's changes of an account: calls to
  Cognito that keep no state in the server.
- Within the modelled components: creation of a wallet (the organization service makes it
  when it verifies a fundraiser, before any call can be about it; `createWallet` has no
  caller), budgets and dates of phases as they are edited, suspension of users, the
  caches of the operation service, whose readers decide nothing.
- The mapped definitions cover the code that decides or writes. Most of the remaining
  lines are GraphQL resolvers, DTOs, mappers, dataloaders, queries, caches of lists,
  templates of mail and notifications, adapters, instrumentation and tests, which the
  models abstract from.

## 6. Plan

1. The safety part of the two liveness properties as theorems: a transfer that nobody
   handles any more is credited, dropped or with the administrator, and a surplus nobody
   is about to settle has its event.
2. The wallets as `Settlement` uses them implement the ledger of `Ledger`
   (`WalletImplementsLedger` carried over the composition).
3. `Payments` with `Settlement`: several events for one payment, whose id the wallet
   takes as the reference of all.
4. `CampaignLifecycle` with larger amounts, so that a wallet covers part of what is
   missing.
