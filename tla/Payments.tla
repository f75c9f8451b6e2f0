---- MODULE Payments ----
(***************************************************************************)
(* How money enters a campaign: a donation's payment row, the PayOS and    *)
(* SePay webhooks that settle it, the nightly job that cancels stale       *)
(* PayOS links, and an administrator's manual approval                     *)
(* (apps/campaign: services/donation and repositories/donor.repository).   *)
(*                                                                         *)
(* Handlers run concurrently in one Node process: each step below ends at  *)
(* an await, and other handlers run between two steps.  A database         *)
(* transaction is one step.  The row a handler reads decides what it does  *)
(* later, when the row may have changed.                                   *)
(***************************************************************************)
EXTENDS Naturals, Sequences, FiniteSetsExt

CONSTANTS
    Orders,        \* order codes, one per donation
    Transfers,     \* bank transfers made by donors
    Price,         \* Price[o]: the amount the donor asked to give with order o
    Amount,        \* Amount[t]: the amount of transfer t
    OrderOf,       \* OrderOf[t]: the order code in the text of transfer t, or
    NoOrder,       \*   no 16-digit number in the text, or
    StrayOrder,    \*   a 16-digit number that is no order code
    Slots,         \* bound: webhook requests in progress at once
    Admins,        \* administrators who may approve a donation by hand
    None,          \* no reference, no order, no request
    MaxDeliveries, \* bound: how often each kind of webhook is delivered
    MaxFaults      \* bound: how often each kind of fault occurs

FaultKinds == {"redis", "db", "grpc", "crash"}
HookKinds == {"payos", "fail", "sepay"}

ASSUME PaymentsAssumption ==
    /\ Price \in [Orders -> Nat \ {0}]
    /\ Amount \in [Transfers -> Nat \ {0}]
    /\ OrderOf \in [Transfers -> Orders \union {NoOrder, StrayOrder}]
    /\ {NoOrder, StrayOrder} \intersect Orders = {}
    /\ None \notin Orders \union Transfers
    /\ Orders \intersect Transfers = {}
    /\ MaxDeliveries \in [HookKinds -> Nat]
    /\ MaxFaults \in [FaultKinds -> Nat]

VARIABLES
    payments,  \* payments[o]: the Payment_Transaction row of order o
    extras,    \* extras[t]: supplementary rows created for transfer t
    credited,  \* credited[o]: what order o has added to campaign.received_amount
    counted,   \* counted[o]: what order o has added to campaign.donation_count
    outbox,    \* DONATION_PAYMENT_SUCCEEDED events, in the order of creation
    redis,     \* transfers whose idempotency key is set
    wallet,    \* transfers credited to the admin wallet as unattributed money
    link,      \* link[o]: the state of the payment link at PayOS
    made,      \* transfers that have reached the bank account
    seen,      \* transfers PayOS matched to a link it had not cancelled
    delivered, \* delivered[h]: how often webhook h has been delivered
    slots,     \* slots[s]: the webhook request in progress in slot s
    sweep,     \* sweep[o]: progress of the cleanup job on order o
    desk,      \* desk[a]: the order admin a is approving, past the checks
    faults,    \* faults[k]: how many faults of kind k have occurred
    passed,    \* history: passed[t] deliveries went past the duplicate check
    raced,     \* history: orders on which two settling handlers overlapped
    approved,  \* history: orders that were approved by hand
    swept      \* history: orders the cleanup job has marked FAILED

rows     == <<payments, extras, credited, counted, outbox>>
external == <<link, made, seen, delivered, wallet>>
history  == <<passed, raced, approved, swept>>
vars == <<rows, external, redis, slots, sweep, desk, faults, history>>

Statuses == {"ABSENT", "PENDING", "SUCCESS", "FAILED"}
AmountStatuses == {"PENDING", "PARTIAL", "COMPLETED", "OVERPAID"}
Gateways == {"NONE", "PAYOS", "SEPAY"}

Payment == [status: Statuses, paid: AmountStatuses, gateway: Gateways,
            processed: BOOLEAN, received: Nat, reference: Transfers \union {None},
            noted: BOOLEAN]

NoPayment == [status |-> "ABSENT", paid |-> "PENDING", gateway |-> "NONE",
              processed |-> FALSE, received |-> 0, reference |-> None,
              noted |-> FALSE]

\* Transfers that name an order of ours: the only ones PayOS can report.
Matched == {t \in Transfers : OrderOf[t] \in Orders}

PayosHooks == [kind: {"payos"}, of: Matched]
FailHooks  == [kind: {"fail"}, of: Orders]
SepayHooks == [kind: {"sepay"}, of: Transfers]
Hooks == PayosHooks \union FailHooks \union SepayHooks

\* A request in progress: the step it is at and the webhook it answers.
Requests ==
    [at: {"idle"}, hook: {None}]
    \union [at: {"find"}, hook: PayosHooks \union FailHooks]
    \union [at: {"commit"}, hook: PayosHooks]
    \union [at: {"fail"}, hook: FailHooks]
    \union [at: {"exists", "set", "lookup", "order", "route", "tryRoute"}, hook: SepayHooks]
    \union [at: {"partial", "extra"}, hook: {h \in SepayHooks : h.of \in Matched}]

IdleSlot == [at |-> "idle", hook |-> None]

\* Steps at which a handler has read the row and is about to write it.
Settling == {"commit", "fail", "partial", "extra"}

-----------------------------------------------------------------------------
Init ==
    /\ payments = [o \in Orders |-> NoPayment]
    /\ extras = [t \in Transfers |-> 0]
    /\ credited = [o \in Orders |-> 0]
    /\ counted = [o \in Orders |-> 0]
    /\ outbox = <<>>
    /\ redis = {} /\ wallet = {}
    /\ link = [o \in Orders |-> "NONE"]
    /\ made = {} /\ seen = {}
    /\ delivered = [h \in Hooks |-> 0]
    /\ slots = [s \in Slots |-> IdleSlot]
    /\ sweep = [o \in Orders |-> "idle"]
    /\ desk = [a \in Admins |-> None]
    /\ faults = [k \in FaultKinds |-> 0]
    /\ passed = [t \in Transfers |-> 0]
    /\ raced = {} /\ approved = {} /\ swept = {}

-----------------------------------------------------------------------------
(* The database transactions of donor.repository.ts.                       *)

AmountStatus(o, amount) ==
    CASE amount < Price[o] -> "PARTIAL"
      [] amount = Price[o] -> "COMPLETED"
      [] amount > Price[o] -> "OVERPAID"

\* Mutant: the whole amount is added, whatever was recorded before.
Increment_IgnoresPrevious(o, amount) == amount

\* What a commit adds to the campaign: the new amount over the recorded one.
Increment(o, amount) ==
    IF amount > payments[o].received THEN amount - payments[o].received ELSE 0

\* Mutants: only a PENDING row is counted; every commit is counted.
NewDonations_PendingOnly(o) == IF payments[o].status = "PENDING" THEN 1 ELSE 0
NewDonations_Always(o) == 1

\* What a commit adds to the donation count.
NewDonations(o) == IF payments[o].status # "SUCCESS" THEN 1 ELSE 0

\* Mutant: a row approved by hand earlier gets no event.
Announce_OncePerSuccess(o, amount) ==
    IF payments[o].status = "SUCCESS" THEN outbox
    ELSE Append(outbox, [payment |-> o, amount |-> amount])

\* The outbox with the event of a commit.
Announce(o, amount) == Append(outbox, [payment |-> o, amount |-> amount])

\* updatePaymentTransactionSuccess: under FOR UPDATE, but nothing the caller
\* decided on is read again.
RecordSuccess(o, amount, gateway, reference) ==
    /\ payments' = [payments EXCEPT ![o] =
         [@ EXCEPT !.status = "SUCCESS", !.paid = AmountStatus(o, amount),
                   !.gateway = gateway, !.processed = TRUE,
                   !.received = amount, !.reference = reference]]
    /\ credited' = [credited EXCEPT ![o] = @ + Increment(o, amount)]
    /\ counted' = [counted EXCEPT ![o] = @ + NewDonations(o)]
    /\ outbox' = Announce(o, amount)
    /\ UNCHANGED extras

\* Mutant: the cause of the failure is stored as the status.
RecordFailure_StoresCause(o, processed) ==
    /\ payments' = [payments EXCEPT ![o] =
         [@ EXCEPT !.status = "CANCELLED", !.gateway = "PAYOS",
                   !.processed = processed, !.noted = TRUE]]
    /\ UNCHANGED <<extras, credited, counted, outbox>>

\* updatePaymentTransactionFailed: one unconditional UPDATE.
RecordFailure(o, processed) ==
    /\ payments' = [payments EXCEPT ![o] =
         [@ EXCEPT !.status = "FAILED", !.gateway = "PAYOS",
                   !.processed = processed, !.noted = TRUE]]
    /\ UNCHANGED <<extras, credited, counted, outbox>>

\* createSupplementaryPayment: a row of its own, its amount added to the
\* campaign, and an event that names the new row.
RecordExtra(t) ==
    /\ extras' = [extras EXCEPT ![t] = @ + 1]
    /\ outbox' = Append(outbox,
                        [payment |-> <<t, extras[t] + 1>>, amount |-> Amount[t]])
    /\ UNCHANGED <<payments, credited, counted>>

\* manualApprovePayment: the campaign gets the price of the order; what the
\* row says was received, its gateway and its event are left alone.
RecordApproval(o) ==
    /\ payments' = [payments EXCEPT ![o] =
         [@ EXCEPT !.status = "SUCCESS", !.noted = TRUE]]
    /\ credited' = [credited EXCEPT ![o] = @ + Price[o]]
    /\ counted' = [counted EXCEPT ![o] = @ + 1]
    /\ UNCHANGED <<extras, outbox>>

-----------------------------------------------------------------------------
(* Donors, PayOS and the bank.                                             *)

OrderFor(h) == IF h.kind = "fail" THEN h.of ELSE OrderOf[h.of]

PaidTowards(o, ts) == SumFunctionOnSet(Amount, {t \in ts : OrderOf[t] = o})

\* createDonation asks PayOS for a link, and saves the payment row with it.  A
\* failure in between leaves a link nobody is shown.
OpenLink(o) ==
    /\ link[o] = "NONE"
    /\ link' = [link EXCEPT ![o] = "PENDING"]
    /\ UNCHANGED <<rows, made, seen, delivered, wallet, redis, slots, sweep, desk,
                   faults, history>>

CreatePaymentTransaction(o) ==
    /\ link[o] # "NONE" /\ payments[o].status = "ABSENT"
    /\ payments' = [payments EXCEPT ![o].status = "PENDING"]
    /\ UNCHANGED <<extras, credited, counted, outbox, external, redis, slots, sweep,
                   desk, faults, history>>

\* PayOS sees the transfer unless the link is cancelled, the bank always does.
DonorPays(t) ==
    /\ t \notin made
    /\ made' = made \union {t}
    /\ \/ /\ OrderOf[t] \in Orders
          /\ payments[OrderOf[t]].status # "ABSENT"
          /\ link[OrderOf[t]] # "CANCELLED"
          /\ seen' = seen \union {t}
          /\ link' = IF PaidTowards(OrderOf[t], made') >= Price[OrderOf[t]]
                     THEN [link EXCEPT ![OrderOf[t]] = "PAID"] ELSE link
       \/ /\ OrderOf[t] \in Orders => link[OrderOf[t]] = "CANCELLED"
          /\ UNCHANGED <<seen, link>>
    /\ UNCHANGED <<rows, delivered, wallet, redis, slots, sweep, desk, faults, history>>

HookSent(h) ==
    \/ h.kind = "payos" /\ h.of \in seen
    \/ h.kind = "sepay" /\ h.of \in made
    \/ h.kind = "fail" /\ link[h.of] # "NONE"

FirstStep(h) == IF h.kind = "sepay" THEN "exists" ELSE "find"

\* The providers deliver a webhook again when the answer is late.
Deliver(s, h) ==
    /\ slots[s].at = "idle" /\ HookSent(h)
    /\ delivered[h] < MaxDeliveries[h.kind]
    /\ delivered' = [delivered EXCEPT ![h] = @ + 1]
    /\ slots' = [slots EXCEPT ![s] = [at |-> FirstStep(h), hook |-> h]]
    /\ UNCHANGED <<rows, link, made, seen, wallet, redis, sweep, desk, faults, history>>

-----------------------------------------------------------------------------
(* Moving a handler along.                                                 *)

Goto(s, step) == slots' = [slots EXCEPT ![s].at = step]
Answer(s) == slots' = [slots EXCEPT ![s] = IdleSlot]

Overlaps(s, o) == \E r \in Slots \ {s} :
    slots[r].at \in Settling /\ OrderFor(slots[r].hook) = o

GoSettle(s, step, o) ==
    /\ Goto(s, step)
    /\ raced' = IF Overlaps(s, o) THEN raced \union {o} ELSE raced
    /\ UNCHANGED <<passed, approved, swept>>

Fault(k) ==
    /\ faults[k] < MaxFaults[k]
    /\ faults' = [faults EXCEPT ![k] = @ + 1]

-----------------------------------------------------------------------------
(* handlePaymentWebhook: the PayOS webhook.                                *)

SettledByPayos(p) == p.gateway = "SEPAY" \/ (p.processed /\ p.gateway = "PAYOS")

\* Reads the row by its order code and decides on what it finds: nothing for an
\* unknown order, one already processed or an amount below the price (which is
\* left to SePay); otherwise success or failure.
PayosFind(s) ==
    /\ slots[s].at = "find"
    /\ LET h == slots[s].hook
           o == OrderFor(h)
           p == payments[o]
           ignore == \/ p.status = "ABSENT"
                     \/ SettledByPayos(p)
                     \/ h.kind = "payos" /\ Amount[h.of] < Price[o]
       IN  \/ ignore /\ Answer(s) /\ UNCHANGED history
           \/ ~ignore /\ h.kind = "payos" /\ GoSettle(s, "commit", o)
           \/ ~ignore /\ h.kind = "fail" /\ GoSettle(s, "fail", o)
    /\ UNCHANGED <<rows, external, redis, sweep, desk, faults>>

\* processSuccessfulPayment.
PayosCommit(s) ==
    /\ slots[s].at = "commit"
    /\ LET t == slots[s].hook.of IN RecordSuccess(OrderOf[t], Amount[t], "PAYOS", t)
    /\ Answer(s)
    /\ UNCHANGED <<external, redis, sweep, desk, faults, history>>

\* processFailedPayment.
PayosFail(s) ==
    /\ slots[s].at = "fail"
    /\ RecordFailure(slots[s].hook.of, TRUE)
    /\ Answer(s)
    /\ UNCHANGED <<external, redis, sweep, desk, faults, history>>

\* A database error is logged and answered 200: PayOS does not send it again.
PayosError(s) ==
    /\ slots[s].at \in {"find", "commit", "fail"}
    /\ Fault("db")
    /\ Answer(s)
    /\ UNCHANGED <<rows, external, redis, sweep, desk, history>>

-----------------------------------------------------------------------------
(* handleSepayWebhook: the SePay webhook for an incoming transfer.         *)

PassCheck(s) ==
    /\ LET t == slots[s].hook.of IN
       /\ passed' = [passed EXCEPT ![t] = @ + 1]
       /\ Goto(s, IF OrderOf[t] = NoOrder THEN "route" ELSE "lookup")
    /\ UNCHANGED <<raced, approved, swept>>

\* checkIdempotency: EXISTS, then in a second command SET, before any work is
\* done.
RedisExists(s) ==
    /\ slots[s].at = "exists"
    /\ \/ slots[s].hook.of \in redis /\ Answer(s)
       \/ slots[s].hook.of \notin redis /\ Goto(s, "set")
    /\ UNCHANGED <<rows, external, redis, sweep, desk, faults, history>>

RedisSet(s) ==
    /\ slots[s].at = "set"
    /\ redis' = redis \union {slots[s].hook.of}
    /\ PassCheck(s)
    /\ UNCHANGED <<rows, external, sweep, desk, faults>>

\* A Redis error counts as "not a duplicate".
RedisError(s) ==
    /\ slots[s].at \in {"exists", "set"}
    /\ Fault("redis")
    /\ PassCheck(s)
    /\ UNCHANGED <<rows, external, redis, sweep, desk>>

\* findPaymentBySepayId looks for the key "sepayId", which only supplementary
\* rows have: the first commit stores "sepay_id".
SepayLookup(s) ==
    /\ slots[s].at = "lookup"
    /\ \/ extras[slots[s].hook.of] > 0 /\ Answer(s)
       \/ extras[slots[s].hook.of] = 0 /\ Goto(s, "order")
    /\ UNCHANGED <<rows, external, redis, sweep, desk, faults, history>>

\* Mutant: any transfer for an order PayOS settled is taken for the same one.
ReportedByPayos_AnyTransfer(t, p) == p.gateway = "PAYOS"

\* PayOS has reported this transfer: same reference, or else the same amount.
ReportedByPayos(t, p) ==
    p.gateway = "PAYOS" /\ (p.reference = t \/ Amount[t] = p.received)

\* Mutant: the first payment is told from a later one by the gateway.
IsFirstPayment_ByGateway(p) == p.gateway # "PAYOS"

\* No webhook has processed the row yet.
IsFirstPayment(p) == ~p.processed

\* handlePayOSRelatedTransfer reads the row: no row goes to the admin wallet, an
\* unprocessed row takes the transfer whatever its amount, and a processed row
\* makes it supplementary unless PayOS has reported it.
SepayOrder(s) ==
    /\ slots[s].at = "order"
    /\ LET t == slots[s].hook.of
           o == OrderOf[t]
           known == o \in Orders /\ payments[o].status # "ABSENT"
           p == payments[o]
       IN  \/ ~known /\ Goto(s, "tryRoute") /\ UNCHANGED history
           \/ known /\ IsFirstPayment(p) /\ GoSettle(s, "partial", o)
           \/ known /\ ~IsFirstPayment(p) /\ ReportedByPayos(t, p)
              /\ Answer(s) /\ UNCHANGED history
           \/ known /\ ~IsFirstPayment(p) /\ ~ReportedByPayos(t, p)
              /\ GoSettle(s, "extra", o)
    /\ UNCHANGED <<rows, external, redis, sweep, desk, faults>>

\* processPartialPaymentToAdmin.  The PayOS metadata, and so the reference, stays.
SepayPartial(s) ==
    /\ slots[s].at = "partial"
    /\ LET t == slots[s].hook.of
           o == OrderOf[t]
       IN  RecordSuccess(o, Amount[t], "SEPAY", payments[o].reference)
    /\ Answer(s)
    /\ UNCHANGED <<external, redis, sweep, desk, faults, history>>

\* processSupplementaryPayment.
SepayExtra(s) ==
    /\ slots[s].at = "extra"
    /\ RecordExtra(slots[s].hook.of)
    /\ Answer(s)
    /\ UNCHANGED <<external, redis, sweep, desk, faults, history>>

\* Mutant: an error is answered like any other.
SepayError_NoFallback(s) ==
    /\ slots[s].at \in {"lookup", "order", "partial", "extra"}
    /\ Fault("db")
    /\ Answer(s)
    /\ UNCHANGED <<rows, external, redis, sweep, desk, history>>

\* Any error falls back to the admin wallet.
SepayError(s) ==
    /\ slots[s].at \in {"lookup", "order", "partial", "extra"}
    /\ Fault("db")
    /\ Goto(s, "route")
    /\ UNCHANGED <<rows, external, redis, sweep, desk, history>>

\* routeToAdminWallet: the user service credits a SePay id once.
Route(s) ==
    /\ slots[s].at \in {"route", "tryRoute"}
    /\ wallet' = wallet \union {slots[s].hook.of}
    /\ Answer(s)
    /\ UNCHANGED <<rows, link, made, seen, delivered, redis, sweep, desk, faults, history>>

\* The call fails, though the credit may have been made.  For an unknown order
\* the error is caught and the call made once more; otherwise it is the end of it.
RouteError(s) ==
    /\ slots[s].at \in {"route", "tryRoute"}
    /\ Fault("grpc")
    /\ wallet' \in {wallet, wallet \union {slots[s].hook.of}}
    /\ \/ slots[s].at = "tryRoute" /\ Goto(s, "route")
       \/ slots[s].at = "route" /\ Answer(s)
    /\ UNCHANGED <<rows, link, made, seen, delivered, redis, sweep, desk, history>>

-----------------------------------------------------------------------------
(* cancelStalePendingPaymentLinks: nightly, one order after another.       *)

\* The job lists the PENDING rows once, up to 500, and works through the list
\* with calls to PayOS: the rest of the list ages meanwhile.
SweepList(o) ==
    /\ sweep[o] = "idle" /\ payments[o].status = "PENDING"
    /\ sweep' = [sweep EXCEPT ![o] = "listed"]
    /\ UNCHANGED <<rows, external, redis, slots, desk, faults, history>>

SweepCancel(o) ==
    /\ sweep[o] = "listed" /\ link[o] = "PENDING"
    /\ link' = [link EXCEPT ![o] = "CANCELLED"]
    /\ sweep' = [sweep EXCEPT ![o] = "cancelled"]
    /\ UNCHANGED <<rows, made, seen, delivered, wallet, redis, slots, desk, faults, history>>

\* The link is no longer pending, is too young, or PayOS cannot be reached.
SweepSkip(o) ==
    /\ sweep[o] = "listed"
    /\ sweep' = [sweep EXCEPT ![o] = "idle"]
    /\ UNCHANGED <<rows, external, redis, slots, desk, faults, history>>

\* The row is marked FAILED and unprocessed, whatever it has become.
SweepMark(o) ==
    /\ sweep[o] = "cancelled"
    /\ RecordFailure(o, FALSE)
    /\ sweep' = [sweep EXCEPT ![o] = "idle"]
    /\ swept' = swept \union {o}
    /\ UNCHANGED <<external, redis, slots, desk, faults, passed, raced, approved>>

SweepError(o) ==
    /\ sweep[o] = "cancelled"
    /\ Fault("db")
    /\ sweep' = [sweep EXCEPT ![o] = "idle"]
    /\ UNCHANGED <<rows, external, redis, slots, desk, history>>

-----------------------------------------------------------------------------
(* approveManualDonation.                                                  *)

\* Only a SUCCESS row is refused (no code sets REFUNDED), and one with an error
\* text unless the request says force.
AdminCheck(a, o, force) ==
    /\ desk[a] = None
    /\ payments[o].status \notin {"ABSENT", "SUCCESS"}
    /\ payments[o].noted => force
    /\ desk' = [desk EXCEPT ![a] = o]
    /\ UNCHANGED <<rows, external, redis, slots, sweep, faults, history>>

AdminApprove(a) ==
    /\ desk[a] # None
    /\ RecordApproval(desk[a])
    /\ approved' = approved \union {desk[a]}
    /\ desk' = [desk EXCEPT ![a] = None]
    /\ UNCHANGED <<external, redis, slots, sweep, faults, passed, raced, swept>>

AdminError(a) ==
    /\ desk[a] # None
    /\ Fault("db")
    /\ desk' = [desk EXCEPT ![a] = None]
    /\ UNCHANGED <<rows, external, redis, slots, sweep, history>>

-----------------------------------------------------------------------------
\* The process stops: requests in progress are gone, Redis and the rows stay.
Crash ==
    /\ Fault("crash")
    /\ slots' = [s \in Slots |-> IdleSlot]
    /\ sweep' = [o \in Orders |-> "idle"]
    /\ desk' = [a \in Admins |-> None]
    /\ UNCHANGED <<rows, external, redis, history>>

Handler(s) ==
    \/ PayosFind(s) \/ PayosCommit(s) \/ PayosFail(s)
    \/ RedisExists(s) \/ RedisSet(s) \/ SepayLookup(s) \/ SepayOrder(s)
    \/ SepayPartial(s) \/ SepayExtra(s) \/ Route(s)

HandlerError(s) == PayosError(s) \/ RedisError(s) \/ SepayError(s) \/ RouteError(s)

Cleanup(o) == SweepList(o) \/ SweepCancel(o) \/ SweepSkip(o) \/ SweepMark(o) \/ SweepError(o)

Approval(a) ==
    \/ \E o \in Orders, force \in BOOLEAN : AdminCheck(a, o, force)
    \/ AdminApprove(a) \/ AdminError(a)

Next ==
    \/ \E o \in Orders : OpenLink(o) \/ CreatePaymentTransaction(o) \/ Cleanup(o)
    \/ \E t \in Transfers : DonorPays(t)
    \/ \E s \in Slots, h \in Hooks : Deliver(s, h)
    \/ \E s \in Slots : Handler(s) \/ HandlerError(s)
    \/ \E a \in Admins : Approval(a)
    \/ Crash

Spec == Init /\ [][Next]_vars

\* A handler that has started runs on, and SePay delivers the webhook of every
\* transfer at least once.
FirstSepay(t) == LET h == [kind |-> "sepay", of |-> t] IN
    delivered[h] = 0 /\ \E s \in Slots : Deliver(s, h)

Fairness ==
    /\ \A s \in Slots : WF_vars(Handler(s))
    /\ \A t \in Transfers : WF_vars(FirstSepay(t))

FairSpec == Spec /\ Fairness

-----------------------------------------------------------------------------
(* Properties.                                                             *)

\* The shapes of the rows, the events, the requests in progress and the jobs.
TypeOK ==
    /\ payments \in [Orders -> Payment]
    /\ extras \in [Transfers -> Nat]
    /\ credited \in [Orders -> Nat]
    /\ counted \in [Orders -> Nat]
    /\ outbox \in Seq([payment: Orders \union (Transfers \X Nat), amount: Nat])
    /\ redis \subseteq Transfers /\ wallet \subseteq Transfers
    /\ link \in [Orders -> {"NONE", "PENDING", "PAID", "CANCELLED"}]
    /\ made \subseteq Transfers /\ seen \subseteq made \intersect Matched
    /\ delivered \in [Hooks -> Nat]
    /\ slots \in [Slots -> Requests]
    /\ sweep \in [Orders -> {"idle", "listed", "cancelled"}]
    /\ desk \in [Admins -> Orders \union {None}]
    /\ faults \in [FaultKinds -> Nat]
    /\ passed \in [Transfers -> Nat]
    /\ raced \subseteq Orders /\ approved \subseteq Orders /\ swept \subseteq Orders

\* The campaign's totals cover its rows: whatever the webhooks, the cleanup job
\* and the administrators do to each other, the campaign has been credited at
\* least what a payment row says was received, and a SUCCESS row has been counted.
CampaignCoversPayments == \A o \in Orders :
    /\ payments[o].received <= credited[o]
    /\ payments[o].status = "SUCCESS" => counted[o] > 0

\* The receipt a row records, and every supplementary row, has an outbox event
\* with that row's id and amount, so that the admin wallet hears of it.
ReceiptsAnnounced ==
    /\ \A o \in Orders : payments[o].received > 0 =>
         \E i \in DOMAIN outbox :
            outbox[i] = [payment |-> o, amount |-> payments[o].received]
    /\ \A t \in Transfers : \A n \in 1 .. extras[t] :
         \E i \in DOMAIN outbox : outbox[i] = [payment |-> <<t, n>>, amount |-> Amount[t]]

FailHooked(o) == delivered[[kind |-> "fail", of |-> o]] > 0
MadeFor(o) == {t \in made : OrderOf[t] = o}

\* What order o and its transfers have added to the campaign and the admin wallet.
Extra == [t \in Transfers |-> extras[t] * Amount[t]]
Accounted(o) ==
    credited[o] + SumFunctionOnSet(Extra, MadeFor(o)) + PaidTowards(o, wallet)

\* A single transfer reported by PayOS and SePay, in any order, at the same time
\* and repeatedly, is credited once: neither two webhooks at once, nor a repeated
\* one, nor the cleanup job in between, credits it twice.  Excluded are what the
\* code does not defend against: a transfer let past the duplicate check twice, a
\* failure report for the paid order, manual approval, and a database error after
\* which SePay's handler sends the transfer to the admin wallet.
TransferCreditedOnce == \A o \in Orders : \A t \in Transfers :
    (/\ MadeFor(o) = {t} /\ passed[t] <= 1
     /\ ~FailHooked(o) /\ o \notin approved /\ faults["db"] = 0)
    => Accounted(o) <= Amount[t]

\* An order adds one to the campaign's donation count however many handlers settle
\* it, unless it was taken out of SUCCESS in between or approved by hand.
DonationCountedOnce == \A o \in Orders :
    ~FailHooked(o) /\ o \notin approved \union swept => counted[o] <= 1

Undisturbed(o) ==
    /\ ~FailHooked(o) /\ o \notin approved \union swept \union raced
    /\ \A k \in FaultKinds : faults[k] = 0
    /\ \A t \in MadeFor(o) : passed[t] <= 1

\* Several transfers for one order, of different amounts and handled one after the
\* other in any order, add up: once SePay has reported each and no handler is
\* running, the campaign holds exactly the sum.
SplitPaymentAddsUp == \A o \in Orders :
    (/\ Undisturbed(o)
     /\ \A s \in Slots : slots[s].at = "idle"
     /\ \A t \in MadeFor(o) : passed[t] = 1
     /\ \A t, u \in MadeFor(o) : Amount[t] = Amount[u] => t = u)
    => Accounted(o) = PaidTowards(o, made)

\* The received amount of a row is lowered only when two handlers settled the row
\* from one reading of it, or after the cleanup job has marked it unprocessed.
ReceiptNeverShrinksAlone ==
    [][\A o \in Orders : payments'[o].received < payments[o].received
          => o \in raced \union swept]_vars

\* A transfer that reached the bank is credited to a campaign or the admin wallet,
\* even if Redis or the database fails on the way, unless the process stops after
\* setting the idempotency key or the user service cannot be reached.
AccountedFor(t) ==
    \/ t \in wallet \/ extras[t] > 0
    \/ OrderOf[t] \in Orders /\ credited[OrderOf[t]] >= Amount[t]

EveryTransferAccounted == \A t \in Transfers :
    (t \in made) ~> (AccountedFor(t) \/ faults["crash"] + faults["grpc"] > 0)

====
