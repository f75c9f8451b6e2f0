---- MODULE Settlement ----
(***************************************************************************)
(* What follows a donation: the outbox processor credits the administrator's *)
(* wallet, a campaign that has more than its target is settled and its     *)
(* surplus credited to the fundraiser, and the nightly job ends a campaign. *)
(* apps/campaign: processors/outbox.processor, services/campaign/          *)
(* campaign-settlement.service and campaign-scheduler.service, calling the *)
(* user service (Wallet) through libs/grpc, which repeats a call that is   *)
(* late.                                                                   *)
(*                                                                         *)
(* One campaign, one process of the campaign service.                      *)
(***************************************************************************)
EXTENDS Integers, Sequences, FiniteSetsExt, Functions

CONSTANTS
    Donations,    \* payment rows that succeed
    Amount,       \* Amount[d]: what donation d adds to the campaign
    Target,       \* the campaign's target amount
    Admin,        \* the administrator's wallet
    Fundraiser,   \* the fundraiser's wallet
    Settled,      \* the settlement id of a surplus
    NoRef,        \* no reference: the pooled funds carry none
    None,         \* no call
    Calls,        \* bound: calls the user service answers at once
    MaxRows,      \* bound: rows of the wallet transaction table
    BatchSize,    \* events fetched at once
    MaxAttempts,  \* attempts of one gRPC call
    MaxNights,    \* bound: runs of the nightly job
    MaxFaults,    \* bound: how often each kind of fault occurs
    FaultBudget   \* bound: faults of all kinds together

FaultKinds == {"db", "wallet", "late", "restart", "crash"}

ASSUME SettlementAssumption ==
    /\ IsFiniteSet(Donations) /\ Amount \in [Donations -> Nat \ {0}]
    /\ Target \in Nat \ {0}
    /\ Admin # Fundraiser
    /\ Settled \notin Donations /\ NoRef \notin Donations \union {Settled}
    /\ BatchSize \in Nat \ {0} /\ MaxAttempts \in Nat \ {0}
    /\ MaxRows \in Nat /\ MaxNights \in Nat
    /\ MaxFaults \in [FaultKinds -> Nat] /\ FaultBudget \in Nat

VARIABLES
    campaign, \* the campaign's status and received amount
    events,   \* the outbox, in the order of creation
    worker,   \* the outbox processor: its step, its batch, the campaign it read
    tasks,    \* surplus listeners in progress
    night,    \* the nightly job: its step, what it read and decided
    rpc,      \* rpc[k]: the gRPC call client k is making
    sent,     \* history: sent[k] attempts of requests with key k
    faults,   \* faults[k]: how many faults of kind k have occurred
    balance, total, posted, count, calls, crossed, doubled  \* see Wallet

Wallets == {Admin, Fundraiser}
Opening == [w \in Wallets |-> 0]
Most == SumFunctionOnSet(Amount, Donations)
Credit(w, ref, amount) == [op |-> "credit", wallet |-> w, ref |-> ref, amount |-> amount]

DonationCredit(d) == Credit(Admin, d, Amount[d])
SurplusCredit(n) == Credit(Fundraiser, Settled, n)
PoolCredit(n) == Credit(Fundraiser, NoRef, n)
Requests == {DonationCredit(d) : d \in Donations}
    \union {SurplusCredit(n) : n \in 1 .. Most} \union {PoolCredit(n) : n \in 1 .. Most}

W == INSTANCE Wallet

wallet == <<balance, total, posted, count, crossed, doubled, calls>>
db     == <<campaign, events>>
vars   == <<db, worker, tasks, night, rpc, sent, faults, wallet>>

Clients == {"outbox", "scheduler"}
Idle == [step |-> "idle", batch |-> {}, seen |-> [status |-> "ACTIVE", received |-> 0]]
NoJob == [step |-> "idle", received |-> 0, next |-> "ACTIVE"]
NoRpc == [at |-> "none"]
Call(r) == [at |-> "send", req |-> r, attempt |-> 0, call |-> None]

Init ==
    /\ campaign = [status |-> "ACTIVE", received |-> 0]
    /\ events = <<>>
    /\ worker = Idle
    /\ tasks = {}
    /\ night = [job |-> NoJob, runs |-> 0]
    /\ rpc = [k \in Clients |-> NoRpc]
    /\ sent = [k \in W!Keys |-> 0]
    /\ faults = [k \in FaultKinds |-> 0]
    /\ W!Init

Fault(k) ==
    /\ faults[k] < MaxFaults[k] /\ SumFunction(faults) < FaultBudget
    /\ faults' = [faults EXCEPT ![k] = @ + 1]

Event(kind, ref, amount) == [kind |-> kind, ref |-> ref, amount |-> amount,
                             status |-> "PENDING", failed |-> FALSE]

-----------------------------------------------------------------------------
\* A payment succeeds: the campaign's total and the event are one transaction
\* (Payments.tla says when).  Payments of an ended campaign still arrive.
DonationSucceeds(d) ==
    /\ \A i \in DOMAIN events : events[i].ref # d
    /\ campaign' = [campaign EXCEPT !.received = @ + Amount[d]]
    /\ events' = Append(events, Event("donation", d, Amount[d]))
    /\ UNCHANGED <<worker, tasks, night, rpc, sent, faults, wallet>>

-----------------------------------------------------------------------------
(* callUserService: a call is sent again when the answer is late.          *)

Awaited(c) == \E k \in Clients : rpc[k].at = "wait" /\ rpc[k].call = c

Attempt(call, c) ==
    [call EXCEPT !.at = "wait", !.call = c, !.attempt = call.attempt + 1]

GrpcSend(k) ==
    /\ rpc[k].at = "send"
    /\ \E c \in Calls :
         /\ ~Awaited(c)
         /\ W!Receive(c, rpc[k].req)
         /\ rpc' = [rpc EXCEPT ![k] = Attempt(rpc[k], c)]
    /\ sent' = [sent EXCEPT ![W!Key(rpc[k].req)] = @ + 1]
    /\ UNCHANGED <<db, worker, tasks, night, faults>>

\* Mutant: the client does not look at the success flag of the answer.
Outcome_Ignored(at) == "ok"

\* An answer with success: false is an error, and not repeated.
Outcome(at) == at

GrpcAnswer(k) ==
    /\ rpc[k].at = "wait"
    /\ LET c == rpc[k].call IN
       /\ W!Reply(c)
       /\ rpc' = [rpc EXCEPT ![k].at = Outcome(calls[c].at)]
    /\ UNCHANGED <<db, worker, tasks, night, sent, faults>>

Retry(k) ==
    rpc' = [rpc EXCEPT ![k].at = IF rpc[k].attempt < MaxAttempts THEN "send" ELSE "failed"]

\* The deadline passes; the user service goes on with the call.
GrpcDeadline(k) ==
    /\ rpc[k].at = "wait" /\ W!Busy(rpc[k].call)
    /\ Fault("late")
    /\ Retry(k)
    /\ UNCHANGED <<db, worker, tasks, night, sent, wallet>>

\* The connection breaks because the user service has restarted.
GrpcBroken(k) ==
    /\ rpc[k].at = "wait" /\ ~W!Busy(rpc[k].call)
    /\ Retry(k)
    /\ UNCHANGED <<db, worker, tasks, night, sent, faults, wallet>>

Serve(c) ==
    /\ W!Check(c) \/ W!ReadBalance(c) \/ W!Write(c) \/ (~Awaited(c) /\ W!Reply(c))
    /\ UNCHANGED <<db, worker, tasks, night, rpc, sent, faults>>

ServeError ==
    /\ \/ Fault("wallet") /\ \E c \in Calls : W!DbError(c)
       \/ Fault("restart") /\ W!Restart
    /\ UNCHANGED <<db, worker, tasks, night, rpc, sent>>

-----------------------------------------------------------------------------
(* The outbox processor.                                                   *)

Pending == {i \in DOMAIN events : events[i].status = "PENDING"}
Oldest(n) == {i \in Pending : Cardinality({k \in Pending : k < i}) < n}

\* A batch is handled in the order of creation.
Current == Min(worker.batch)

\* isProcessing: a run that finds the previous one unfinished does nothing.
Poll ==
    /\ worker.step = "idle" /\ Pending # {}
    /\ worker' = [worker EXCEPT !.step = "mark", !.batch = Oldest(BatchSize)]
    /\ UNCHANGED <<db, tasks, night, rpc, sent, faults, wallet>>

\* On to the next event of the batch.
Advance == worker' = IF worker.batch = {Current} THEN Idle
                     ELSE [worker EXCEPT !.step = "mark", !.batch = @ \ {Current}]

MarkProcessing ==
    /\ worker.step = "mark"
    /\ events' = [events EXCEPT ![Current].status = "PROCESSING"]
    /\ LET e == events[Current] IN
       \/ /\ e.kind = "donation"
          /\ worker' = [worker EXCEPT !.step = "find"]
          /\ UNCHANGED rpc
       \/ /\ e.kind = "settled"
          /\ worker' = [worker EXCEPT !.step = "credit"]
          /\ rpc' = [rpc EXCEPT !["outbox"] = Call(SurplusCredit(e.amount))]
    /\ UNCHANGED <<campaign, tasks, night, sent, faults, wallet>>

\* handleDonationSuccess reads the payment with its campaign before the credit.
FindPayment ==
    /\ worker.step = "find"
    /\ worker' = [worker EXCEPT !.step = "credit", !.seen = campaign]
    /\ rpc' = [rpc EXCEPT !["outbox"] = Call(DonationCredit(events[Current].ref))]
    /\ UNCHANGED <<db, tasks, night, sent, faults, wallet>>

\* Mutant: reaching the target counts as exceeding it.
Overfunded_Reached(c) == c.status = "ACTIVE" /\ c.received >= Target

Overfunded(c) == c.status = "ACTIVE" /\ c.received > Target

\* Mutant: only a donation that found the campaign below its target is looked at.
DetectSurplus_OnlyFilling(i) ==
    IF Overfunded(worker.seen) /\ worker.seen.received - events[i].amount < Target
    THEN tasks \union {[event |-> i, at |-> "read", surplus |-> 0]} ELSE tasks

\* The listeners after event i: "campaign.surplus.detected" on what was read
\* before the credit.
DetectSurplus(i) ==
    IF Overfunded(worker.seen)
    THEN tasks \union {[event |-> i, at |-> "read", surplus |-> 0]} ELSE tasks

\* Emails, donor statistics and badges follow; their errors are caught.
Credited ==
    /\ worker.step = "credit" /\ rpc["outbox"].at = "ok"
    /\ rpc' = [rpc EXCEPT !["outbox"] = NoRpc]
    /\ worker' = [worker EXCEPT !.step = "complete", !.seen = Idle.seen]
    /\ tasks' = IF events[Current].kind = "donation" THEN DetectSurplus(Current) ELSE tasks
    /\ UNCHANGED <<db, night, sent, faults, wallet>>

CreditFailed ==
    /\ worker.step = "credit" /\ rpc["outbox"].at = "failed"
    /\ rpc' = [rpc EXCEPT !["outbox"] = NoRpc]
    /\ worker' = [worker EXCEPT !.step = "log", !.seen = Idle.seen]
    /\ UNCHANGED <<db, tasks, night, sent, faults, wallet>>

Complete ==
    /\ worker.step = "complete"
    /\ events' = [events EXCEPT ![Current].status = "COMPLETED"]
    /\ Advance
    /\ UNCHANGED <<campaign, tasks, night, rpc, sent, faults, wallet>>

\* A database error, or a Redis error before the event is completed.
WorkerError ==
    /\ worker.step \in {"mark", "find", "complete"}
    /\ Fault("db")
    /\ worker' = [worker EXCEPT !.step = "log"]
    /\ UNCHANGED <<db, tasks, night, rpc, sent, wallet>>

\* incrementRetryCount counts the failure and leaves the status as it is.
IncrementRetryCount ==
    /\ worker.step = "log"
    /\ events' = [events EXCEPT ![Current].failed = TRUE]
    /\ Advance
    /\ UNCHANGED <<campaign, tasks, night, rpc, sent, faults, wallet>>

\* When that fails too, the rest of the batch is left for the next run.
LogError ==
    /\ worker.step = "log"
    /\ Fault("db")
    /\ worker' = Idle
    /\ UNCHANGED <<db, tasks, night, rpc, sent, wallet>>

-----------------------------------------------------------------------------
(* CampaignSettlementService, a listener that runs beside the processor.   *)

\* Mutant: the whole of what was received goes to the fundraiser.
Surplus_Whole(c) == c.received

Surplus(c) == c.received - Target

\* handleSurplusDetected reads the campaign again.
SettleRead(t) ==
    /\ t.at = "read"
    /\ tasks' = (tasks \ {t}) \union
         (IF Overfunded(campaign)
          THEN {[t EXCEPT !.at = "settle", !.surplus = Surplus(campaign)]} ELSE {})
    /\ UNCHANGED <<db, worker, night, rpc, sent, faults, wallet>>

\* Mutant: the status is not a condition of the update.
StillActive_Unchecked == TRUE

StillActive == campaign.status = "ACTIVE"

\* settleCampaignSurplus: the campaign becomes PROCESSING if it is ACTIVE, and the
\* surplus that was read is announced.
SettleCommit(t) ==
    /\ t.at = "settle"
    /\ \/ /\ StillActive
          /\ campaign' = [campaign EXCEPT !.status = "PROCESSING"]
          /\ events' = Append(events, Event("settled", Settled, t.surplus))
       \/ ~StillActive /\ UNCHANGED db
    /\ tasks' = tasks \ {t}
    /\ UNCHANGED <<worker, night, rpc, sent, faults, wallet>>

\* Any error, the call for the fundraiser's id included, is logged and dropped.
SettleError(t) ==
    /\ Fault("db")
    /\ tasks' = tasks \ {t}
    /\ UNCHANGED <<db, worker, night, rpc, sent, wallet>>

-----------------------------------------------------------------------------
(* completeActiveCampaigns, nightly.                                       *)

JobWrites == night' = [night EXCEPT !.job.step = "write"]
JobEnds == night' = [night EXCEPT !.job = NoJob]
Funded(n) == 2 * n >= Target  \* MIN_FUNDING_PERCENTAGE, 50 by default

\* The campaign is read when its end date has passed or it has its target.
NightRead ==
    /\ night.job.step = "idle" /\ night.runs < MaxNights
    /\ campaign.status = "ACTIVE"
    /\ night' = [job |-> [step |-> "decide", received |-> campaign.received, next |-> "ACTIVE"],
                 runs |-> night.runs + 1]
    /\ UNCHANGED <<db, worker, tasks, rpc, sent, faults, wallet>>

\* completeCampaign: half funded goes on, the rest is returned to the fundraiser,
\* with an empty payment id.
NightDecide ==
    /\ night.job.step = "decide"
    /\ LET n == night.job.received
           pooled == ~Funded(n) /\ n > 0
       IN  /\ night' = [night EXCEPT !.job.next = IF Funded(n) THEN "PROCESSING" ELSE "ENDED",
                                     !.job.step = IF pooled THEN "pool" ELSE "write"]
           /\ rpc' = IF pooled THEN [rpc EXCEPT !["scheduler"] = Call(PoolCredit(n))] ELSE rpc
    /\ UNCHANGED <<db, worker, tasks, sent, faults, wallet>>

NightPooled ==
    /\ night.job.step = "pool" /\ rpc["scheduler"].at \in {"ok", "failed"}
    /\ rpc' = [rpc EXCEPT !["scheduler"] = NoRpc]
    /\ IF rpc["scheduler"].at = "ok" THEN JobWrites ELSE JobEnds
    /\ UNCHANGED <<db, worker, tasks, sent, faults, wallet>>

\* The status is written whatever it has become.
NightWrite ==
    /\ night.job.step = "write"
    /\ campaign' = [campaign EXCEPT !.status = night.job.next]
    /\ JobEnds
    /\ UNCHANGED <<events, worker, tasks, rpc, sent, faults, wallet>>

NightError ==
    /\ night.job.step \in {"decide", "write"}
    /\ Fault("db")
    /\ JobEnds
    /\ UNCHANGED <<db, worker, tasks, rpc, sent, wallet>>

-----------------------------------------------------------------------------
\* The campaign service stops.  isProcessing, the listeners and the calls are gone.
Crash ==
    /\ Fault("crash")
    /\ worker' = Idle /\ tasks' = {}
    /\ night' = [night EXCEPT !.job = NoJob]
    /\ rpc' = [k \in Clients |-> NoRpc]
    /\ UNCHANGED <<db, sent, wallet>>

Process ==
    \/ Poll \/ MarkProcessing \/ FindPayment \/ Credited \/ CreditFailed
    \/ Complete \/ IncrementRetryCount

Grpc(k) == GrpcSend(k) \/ GrpcAnswer(k) \/ GrpcBroken(k)
Settle == \E t \in tasks : SettleRead(t) \/ SettleCommit(t)
Nightly == NightRead \/ NightDecide \/ NightPooled \/ NightWrite

Next ==
    \/ \E d \in Donations : DonationSucceeds(d)
    \/ Process \/ WorkerError \/ LogError
    \/ Settle \/ \E t \in tasks : SettleError(t)
    \/ Nightly \/ NightError
    \/ \E k \in Clients : Grpc(k) \/ GrpcDeadline(k)
    \/ \E c \in Calls : Serve(c)
    \/ ServeError
    \/ Crash

Spec == Init /\ [][Next]_vars

\* The cron runs every five seconds; what has started runs on.
Fairness ==
    /\ WF_vars(Process) /\ WF_vars(Settle)
    /\ \A k \in Clients : WF_vars(Grpc(k))
    /\ \A c \in Calls : WF_vars(Serve(c))

FairSpec == Spec /\ Fairness

-----------------------------------------------------------------------------
(* Properties.                                                             *)

Statuses == {"ACTIVE", "PROCESSING", "ENDED"}
Campaigns == [status: Statuses, received: Nat]
Events == [kind: {"donation", "settled"}, ref: Donations \union {Settled},
           amount: Nat \ {0}, status: {"PENDING", "PROCESSING", "COMPLETED"}, failed: BOOLEAN]
Jobs == [step: {"idle", "decide", "pool", "write"}, received: Nat, next: Statuses]
RpcCalls == [at: {"send", "wait", "ok", "failed"}, req: Requests,
             attempt: 0 .. MaxAttempts, call: Calls \union {None}]

\* The shapes of the outbox, the campaign, the jobs and the calls.
TypeOK ==
    /\ campaign \in Campaigns
    /\ events \in Seq(Events)
    /\ worker \in [step: {"idle", "mark", "find", "credit", "complete", "log"},
                   batch: SUBSET DOMAIN events, seen: Campaigns]
    /\ worker.step = "idle" <=> worker.batch = {}
    /\ tasks \subseteq [event: DOMAIN events, at: {"read", "settle"}, surplus: Nat]
    /\ night \in [job: Jobs, runs: 0 .. MaxNights]
    /\ rpc \in [Clients -> {NoRpc} \union RpcCalls]
    /\ sent \in [W!Keys -> Nat]
    /\ faults \in [FaultKinds -> Nat]
    /\ W!TypeOK

\* A campaign is settled once, however many donations detect its surplus at the
\* same time and whatever the nightly job does meanwhile.
SettledOnce == Cardinality({i \in DOMAIN events : events[i].kind = "settled"}) <= 1

\* A completed event has put its one row into the wallet it is for, through late
\* answers, repeated attempts and restarts of either service, unless two attempts
\* of the call overlapped in the user service.
CompletedIsCredited == \A i \in DOMAIN events :
    LET e == events[i]
        key == W!Key(IF e.kind = "donation" THEN DonationCredit(e.ref)
                     ELSE SurplusCredit(e.amount))
    IN  /\ e.status = "COMPLETED" => posted[key] > 0
        /\ key \notin doubled => posted[key] <= 1

\* Surplus and pooled funds together never exceed what the campaign has received,
\* although the nightly job and the settlement work from what they read before:
\* unless the pooled funds, which carry no reference, were sent twice, or attempts
\* to credit the surplus overlapped.
FundraiserWithinReceived ==
    (/\ sent[W!Key(PoolCredit(1))] <= 1
     /\ W!Key(SurplusCredit(1)) \notin doubled)
    => total[Fundraiser] <= campaign.received

\* While nothing fails but a late answer, an active campaign that holds more than
\* its target is settled or ended.
SurplusIsSettled ==
    Overfunded(campaign)
    ~> (campaign.status # "ACTIVE" \/ \E k \in FaultKinds \ {"late"} : faults[k] > 0)

\* outbox.processor.ts, handleCampaignSurplusSettled, "Rethrow to trigger retry
\* logic": an event of a settled surplus whose handler failed is handled again.
SettledEventAt(n) == n \in DOMAIN events /\ events[n].kind = "settled"
FailedEventRetried == \A n \in 1 .. Cardinality(Donations) + 1 :
    (SettledEventAt(n) /\ events[n].failed)
    ~> (SettledEventAt(n) /\ events[n].status = "COMPLETED")

====
