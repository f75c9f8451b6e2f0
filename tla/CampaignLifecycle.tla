---- MODULE CampaignLifecycle ----
(***************************************************************************)
(* The life of one campaign (apps/campaign: services/campaign/             *)
(* campaign.service and campaign-phase.service, workers/campaign): an      *)
(* administrator changes its status, its fundraiser edits, extends or      *)
(* deletes it and finishes its phases, three jobs run every midnight, and  *)
(* an approval moves money from the fundraiser's wallet (DebitFundraiser-  *)
(* Wallet of the user service, which calls back).                          *)
(*                                                                         *)
(* Handlers decide on a copy of the campaign that may come from Redis and  *)
(* write without a condition on the status.  Two other services change the *)
(* status too: the settlement of a surplus (Settlement.tla) and an         *)
(* organization that accepts a cancelled campaign (Reassignment.tla).      *)
(* They and the jobs leave Redis alone.                                    *)
(***************************************************************************)
EXTENDS Integers, FiniteSets

CONSTANTS
    Calls,      \* bound: handlers at once
    Scenarios,  \* bounds: where the campaign begins, how many handlers start, how many
                \* donations of 1 come, which kinds of fault happen and how many of them,
                \* and which other services write
    Phases,     \* phases of the campaign
    Target,     \* its target amount
    Savings,    \* the fundraiser's wallet at first
    Start, End, \* fundraising dates
    Window,     \* an extension is allowed this many days before the end
    Extra,      \* days an extension adds
    MaxDay,     \* bound: the last day told apart
    None

Statuses == {"PENDING", "APPROVED", "ACTIVE", "REJECTED", "PROCESSING", "COMPLETED",
             "CANCELLED", "ENDED"}
Final == {"REJECTED", "COMPLETED", "CANCELLED", "ENDED"}
Jobs  == {"activate", "complete", "expire"}
FaultKinds == {"error", "crash", "redis", "late"}
Services == {"settlement", "reassignment"}
Plans == [begin: {"PENDING", "ACTIVE", "PROCESSING"}, starts: Nat, gifts: Nat,
          kinds: SUBSET FaultKinds, faults: Nat, services: SUBSET Services]

ASSUME LifecycleAssumption ==
    /\ Scenarios \subseteq Plans
    /\ Phases # {}
    /\ None \notin Calls
    /\ Target \in Nat \ {0} /\ Savings \in Nat
    /\ Start \in Nat /\ End \in Nat /\ Start < End
    /\ Window \in Nat /\ Extra \in Nat \ {0}
    /\ MaxDay \in Nat /\ End + Extra <= MaxDay

VARIABLES
    row,      \* the campaign in the database, with what its phases' dates were moved by
    phase,    \* phase[p]: open, finished (COMPLETED or FAILED) or cancelled
    cache,    \* the copy of the campaign in Redis, or None
    calls,    \* calls[c]: the handler running in c
    jobs,     \* jobs[j]: the nightly job j
    debits,   \* requests DebitFundraiserWallet in progress
    surplus,  \* whether a settlement has found the campaign active and above its target
    offer,    \* "open" while organizations are offered the campaign, "taken" by one
    savings,  \* balance of the fundraiser's wallet
    day,
    given,    \* donations received
    taken,    \* history: debits of the wallet for the campaign
    plan,     \* the scenario, and how much of it is left
    outdated, \* history: the copy in Redis has outlived a write nobody followed up
    spoiled,  \* history: a handler or job has written after its reading was outdated
    torn,     \* history: what went wrong with transfers
    missed    \* history: a finishing handler stopped before it completed the campaign, or
              \* the campaign was cancelled and taken over with all its phases finished

world   == <<savings, day, given, plan, surplus, offer>>
history == <<taken, outdated, spoiled, torn, missed>>
vars    == <<row, phase, cache, calls, jobs, debits, world, history>>

Copy(r) == [status |-> r.status, received |-> r.received, extended |-> r.extended,
            end |-> r.end]
Blank   == [status |-> "PENDING", received |-> 0, extended |-> FALSE, end |-> End]
NoCall  == [at |-> "idle", op |-> "none", to |-> None, seen |-> Blank, old |-> FALSE,
            amount |-> 0, try |-> 0]
NoJob   == [at |-> "idle", seen |-> Blank, old |-> FALSE]
Call(op, to) == [NoCall EXCEPT !.at = "lookup", !.op = op, !.to = to]

Init ==
    /\ plan \in Scenarios
    /\ LET s == plan.begin IN
         /\ row = [status |-> s, received |-> 0, extended |-> FALSE, end |-> End,
                   days |-> 0, shift |-> 0, active |-> TRUE]
         /\ day = IF s = "PENDING" THEN Start - 1 ELSE IF s = "ACTIVE" THEN Start ELSE End
    /\ phase = [p \in Phases |-> "open"]
    /\ cache = None
    /\ calls = [c \in Calls |-> NoCall]
    /\ jobs = [j \in Jobs |-> NoJob]
    /\ debits = {}
    /\ surplus = FALSE /\ offer = "none"
    /\ savings = Savings
    /\ given = 0 /\ taken = 0
    /\ outdated = FALSE /\ spoiled = FALSE /\ torn = {} /\ missed = FALSE

Fault(k) ==
    /\ k \in plan.kinds /\ plan.faults > 0
    /\ plan' = [plan EXCEPT !.faults = @ - 1]

-----------------------------------------------------------------------------
(* What a write does to the readings of others, for the histories.         *)

InWriting(c) == calls[c].at \in {"put", "drop", "dropAgain"}

\* Every handler but c that has read the campaign now holds an old reading.
Aged(c, next) == [d \in Calls |->
    IF d = c THEN next
    ELSE IF calls[d].at \in {"idle", "lookup"} THEN calls[d]
    ELSE [calls[d] EXCEPT !.old = TRUE]]
AgedJobs == [j \in Jobs |-> IF jobs[j].at = "write" THEN [jobs[j] EXCEPT !.old = TRUE]
                            ELSE jobs[j]]

\* The handler after its write, when all that counts is what it does next.
Then(call, step) == [NoCall EXCEPT !.at = step, !.op = call.op]

Goto(c, step) == calls' = [calls EXCEPT ![c].at = step]
Leave(c)      == calls' = [calls EXCEPT ![c] = NoCall]

-----------------------------------------------------------------------------
(* The handlers start, and read the campaign.                              *)

Begins(c, op, to) ==
    /\ calls[c].at = "idle" /\ plan.starts > 0
    /\ \A d \in debits : d.call # c
    /\ calls' = [calls EXCEPT ![c] = Call(op, to)]
    /\ plan' = [plan EXCEPT !.starts = @ - 1]
    /\ UNCHANGED <<row, phase, cache, jobs, debits, savings, day, given, surplus, offer,
                   history>>

\* validateStatusTransition
Allowed(from) ==
    CASE from = "PENDING"    -> {"APPROVED", "REJECTED"}
      [] from = "APPROVED"   -> {"ACTIVE", "CANCELLED"}
      [] from = "ACTIVE"     -> {"PROCESSING", "CANCELLED"}
      [] from = "PROCESSING" -> {"COMPLETED", "CANCELLED"}
      [] OTHER               -> {}

DaysToEnd(seen) == seen.end - day

\* Mutant: a campaign may be extended again.
Extendable_Again(seen) ==
    seen.status = "ACTIVE" /\ DaysToEnd(seen) \in 0 .. Window

Extendable(seen) ==
    /\ seen.status = "ACTIVE" /\ ~seen.extended
    /\ DaysToEnd(seen) \in 0 .. Window

\* What the handler does with the campaign it has read: its first step after the
\* checks, or "idle" for the exception (and, of autoCompleteCampaign, the return).
FirstStep(call, seen) ==
    CASE call.op = "change" -> IF call.to \notin Allowed(seen.status) THEN "idle"
                               ELSE IF call.to = "APPROVED" THEN "balance" ELSE "write"
      [] call.op = "update" -> IF seen.status \in {"PENDING", "PROCESSING", "ENDED"}
                               THEN "write" ELSE "idle"
      [] call.op = "extend" -> IF Extendable(seen) THEN "write" ELSE "idle"
      [] call.op = "delete" -> IF seen.status \in {"PENDING", "APPROVED", "REJECTED"}
                               THEN "write" ELSE "idle"
      [] call.op = "sync"   -> IF seen.status \in {"PENDING", "APPROVED"}
                               THEN "write" ELSE "idle"
      [] call.op = "phase"  -> IF seen.status = "PROCESSING" THEN "write" ELSE "idle"
      [] call.op = "view"   -> "idle"
      [] call.op = "finish" -> IF seen.status = "PROCESSING" THEN "write" ELSE "idle"

Decide(c, seen, old) ==
    LET call == calls[c]
        step == FirstStep(call, seen) IN
    /\ calls' = [calls EXCEPT ![c] = IF step = "idle" THEN NoCall
                 ELSE [call EXCEPT !.at = step, !.seen = seen, !.old = old]]
    /\ missed' = (missed \/ (call.op = "finish" /\ step = "idle" /\ old))

\* findCampaignById: the copy in Redis, if there is one.
LookupHit(c) ==
    /\ calls[c].at = "lookup" /\ cache # None
    /\ Decide(c, cache, outdated \/ \E d \in Calls \ {c} : InWriting(d))
    /\ UNCHANGED <<row, phase, cache, jobs, debits, world, taken, outdated, spoiled, torn>>

\* Otherwise the row, unless it is deleted.
LookupMiss(c) ==
    /\ calls[c].at = "lookup" /\ cache = None
    /\ \/ ~row.active /\ Leave(c)
       \/ row.active /\ calls' = [calls EXCEPT ![c].at = "fill", ![c].seen = Copy(row)]
    /\ UNCHANGED <<row, phase, cache, jobs, debits, world, history>>

\* The copy is stored after it was read: it may be outdated by then.
Fill(c) ==
    /\ calls[c].at = "fill"
    /\ cache' = calls[c].seen
    /\ outdated' = calls[c].old
    /\ Decide(c, calls[c].seen, calls[c].old)
    /\ UNCHANGED <<row, phase, jobs, debits, world, taken, spoiled, torn>>

-----------------------------------------------------------------------------
(* The handlers write.                                                     *)

\* A write of the campaign by handler c, which goes on with next.
WriteRow(c, r, next) ==
    /\ row' = r
    /\ calls' = Aged(c, next)
    /\ jobs' = AgedJobs
    /\ spoiled' = (spoiled \/ calls[c].old)

\* Handler c may have had the wallet debited.
Transferred(c) == calls[c].at \in {"await", "write"} /\ calls[c].amount > 0

\* The update finds no active row, and throws.
NotFound(c) ==
    /\ calls[c].at \in {"write", "revert"} /\ calls[c].op \notin {"delete", "phase"}
    /\ calls[c].op = "sync" => calls[c].at = "revert"
    /\ ~row.active
    /\ Leave(c)
    /\ torn' = IF Transferred(c) THEN torn \union {"left"} ELSE torn
    /\ UNCHANGED <<row, phase, cache, jobs, debits, world,
                   taken, outdated, spoiled, missed>>

\* Mutant: the sum is written also when nothing was transferred.
ReceivedAfter_Seen(call) == call.seen.received + call.amount

ReceivedAfter(call) ==
    IF call.amount > 0 THEN call.seen.received + call.amount ELSE row.received

\* changeStatus: PENDING to APPROVED on the start date is ACTIVE at once.  What the
\* transfer has put into the update is an absolute amount.
Change(c) ==
    LET call == calls[c]
        r == [row EXCEPT
           !.status = IF call.to = "APPROVED" /\ day = Start THEN "ACTIVE" ELSE call.to,
           !.received = ReceivedAfter(call)] IN
    /\ call.at = "write" /\ call.op = "change" /\ row.active
    /\ WriteRow(c, r, [Then(call, "put") EXCEPT !.seen = Copy(r)])
    /\ UNCHANGED <<phase, cache, debits, world, taken, outdated, torn, missed>>

\* setCampaign with the row the update returned, right before invalidateAll.
Put(c) ==
    /\ calls[c].at = "put"
    /\ cache' = calls[c].seen
    /\ calls' = [calls EXCEPT ![c] = Then(@, "drop")]
    /\ UNCHANGED <<row, phase, jobs, debits, world, history>>

\* updateCampaign: an edit may set another end date.
Update(c) ==
    LET call == calls[c] IN
    /\ call.at = "write" /\ call.op = "update" /\ row.active
    /\ \E e \in {End, End + 1} : WriteRow(c, [row EXCEPT !.end = e], Then(call, "drop"))
    /\ UNCHANGED <<phase, cache, debits, world, taken, outdated, torn, missed>>

\* extendCampaignWithPhases: the end date is computed from the copy, the dates of
\* the phases are moved in the database.
Extend(c) ==
    LET call == calls[c] IN
    /\ call.at = "write" /\ call.op = "extend" /\ row.active
    /\ WriteRow(c, [row EXCEPT !.end = call.seen.end + Extra, !.extended = TRUE,
                               !.days = Extra, !.shift = @ + Extra],
                Then(call, "drop"))
    /\ UNCHANGED <<phase, cache, debits, world, taken, outdated, torn, missed>>

Delete(c) ==
    LET call == calls[c] IN
    /\ call.at = "write" /\ call.op = "delete"
    /\ WriteRow(c, [row EXCEPT !.active = FALSE], Then(call, "drop"))
    /\ UNCHANGED <<phase, cache, debits, world, taken, outdated, torn, missed>>

\* autoCompleteCampaign
Finish(c) ==
    LET call == calls[c] IN
    /\ call.at = "write" /\ call.op = "finish" /\ row.active
    /\ WriteRow(c, [row EXCEPT !.status = "COMPLETED"], Then(call, "drop"))
    /\ UNCHANGED <<phase, cache, debits, world, taken, outdated, torn, missed>>

\* syncCampaignPhases replaces the phases, drops the copy, and takes the approval
\* back if the campaign it read was approved.
Sync(c) ==
    /\ calls[c].at = "write" /\ calls[c].op = "sync"
    /\ Goto(c, "drop")
    /\ UNCHANGED <<row, phase, cache, jobs, debits, world, history>>

Revert(c) ==
    LET call == calls[c] IN
    /\ call.at = "revert" /\ row.active
    /\ WriteRow(c, [row EXCEPT !.status = "PENDING"], Then(call, "dropAgain"))
    /\ UNCHANGED <<phase, cache, debits, world, taken, outdated, torn, missed>>

\* updatePhaseStatus: an open phase, read before the campaign, is finished or cancelled.
SetPhase(c) ==
    LET call == calls[c] IN
    /\ call.at = "write" /\ call.op = "phase"
    /\ phase' = [phase EXCEPT ![call.to[1]] = call.to[2]]
    /\ spoiled' = (spoiled \/ call.old)
    /\ calls' = [calls EXCEPT ![c] = Then(call, "drop")]
    /\ UNCHANGED <<row, cache, jobs, debits, world, taken, outdated, torn, missed>>

\* Mutant: finishing a phase does not look at the others.
AfterDrop_NoLook(call) ==
    IF call.at = "drop" /\ call.op = "sync" /\ call.seen.status = "APPROVED" THEN "revert"
    ELSE "idle"

\* After the copy is dropped: the end, the reversion, or the look at all phases.
AfterDrop(call) ==
    IF call.at = "drop" /\ call.op = "sync" /\ call.seen.status = "APPROVED" THEN "revert"
    ELSE IF call.at = "drop" /\ call.op = "phase" THEN "phases" ELSE "idle"

Step(call, step) ==
    IF step = "idle" THEN NoCall
    ELSE IF step = "phases" THEN Then(call, step) ELSE [call EXCEPT !.at = step]

\* Mutant: the copy is dropped only if the handler has stored it.
Invalidate_Stored(call) == IF call.op = "change" THEN None ELSE cache

Invalidate(call) == None

Drop(c) ==
    /\ calls[c].at \in {"drop", "dropAgain"}
    /\ cache' = Invalidate(calls[c])
    /\ outdated' = FALSE
    /\ calls' = [calls EXCEPT ![c] = Step(@, AfterDrop(@))]
    /\ UNCHANGED <<row, phase, jobs, debits, world, taken, spoiled, torn, missed>>

\* Redis is away: the command is skipped, and the handler goes on.
DropSkipped(c) ==
    /\ calls[c].at \in {"drop", "dropAgain"}
    /\ Fault("redis")
    /\ outdated' = (cache # None)
    /\ calls' = [calls EXCEPT ![c] = Step(@, AfterDrop(@))]
    /\ UNCHANGED <<row, phase, cache, jobs, debits, savings, day, given, surplus, offer,
                   taken, spoiled, torn, missed>>

\* areAllPhasesFinished, then autoCompleteCampaign, which looks the campaign up again.
AllFinished == \A p \in Phases : phase[p] = "finished"

LookAtPhases(c) ==
    /\ calls[c].at = "phases"
    /\ calls' = [calls EXCEPT ![c] = IF AllFinished THEN Call("finish", None) ELSE NoCall]
    /\ UNCHANGED <<row, phase, cache, jobs, debits, world, history>>

-----------------------------------------------------------------------------
(* autoTransferWalletToCampaign and, in the user service, DebitFundraiserWallet, *)
(* which adds the amount to the campaign by a call of its own.              *)

Least(m, n) == IF m < n THEN m ELSE n

\* Mutant: all of the wallet is transferred.
Transfer_Whole(seen) == savings

Transfer(seen) == Least(savings, Target - seen.received)
Debit(c, try, amount) == [call |-> c, try |-> try, amount |-> amount, at |-> "debit", read |-> 0]

\* An amount that is not positive is not transferred.
Balance(c) ==
    /\ calls[c].at = "balance"
    /\ LET amount == Transfer(calls[c].seen) IN
       IF amount <= 0 THEN Goto(c, "write") /\ UNCHANGED debits
       ELSE /\ calls' = [calls EXCEPT ![c] = [@ EXCEPT !.at = "await", !.amount = amount,
                                                     !.try = 1]]
            /\ debits' = debits \union {Debit(c, 1, amount)}
    /\ UNCHANGED <<row, phase, cache, jobs, world, history>>

Becomes(d, step) == debits' = (debits \ {d}) \union {[d EXCEPT !.at = step]}

DebitWallet(d) ==
    /\ d.at = "debit"
    /\ \/ savings < d.amount /\ Becomes(d, "failed") /\ UNCHANGED <<savings, taken>>
       \/ /\ savings >= d.amount /\ Becomes(d, "read")
          /\ savings' = savings - d.amount
          /\ taken' = taken + d.amount
    /\ UNCHANGED <<row, phase, cache, calls, jobs, day, given, plan, surplus, offer,
                   outdated, spoiled, torn, missed>>

\* addReceivedAmount reads the row, then writes the sum.
AddRead(d) ==
    /\ d.at = "read" /\ row.active
    /\ debits' = (debits \ {d}) \union {[d EXCEPT !.at = "add", !.read = row.received]}
    /\ UNCHANGED <<row, phase, cache, calls, jobs, world, history>>

AddWrite(d) ==
    /\ d.at = "add" /\ row.active
    /\ row' = [row EXCEPT !.received = d.read + d.amount]
    /\ Becomes(d, "drop")
    /\ UNCHANGED <<phase, cache, calls, jobs, world, history>>

AddDrop(d) ==
    /\ d.at = "drop"
    /\ cache' = None
    /\ outdated' = FALSE
    /\ Becomes(d, "ok")
    /\ UNCHANGED <<row, phase, calls, jobs, world, taken, spoiled, torn, missed>>

\* The campaign is gone or the call fails: the user service only logs it.
AddFails(d) ==
    /\ d.at \in {"read", "add"}
    /\ \/ ~row.active /\ UNCHANGED plan
       \/ Fault("error")
    /\ Becomes(d, "ok")
    /\ torn' = torn \union {"lost"}
    /\ UNCHANGED <<row, phase, cache, calls, jobs, savings, day, given, surplus, offer,
                   taken, outdated, spoiled, missed>>

\* The answer to UpdateCampaignReceivedAmount is late, and the call repeated.
AddAgain(d) ==
    /\ d.at = "drop" /\ Fault("late")
    /\ Becomes(d, "read")
    /\ torn' = torn \union {"again"}
    /\ UNCHANGED <<row, phase, cache, calls, jobs, savings, day, given, surplus, offer,
                   taken, outdated, spoiled, missed>>

Waits(c, d) == calls[c].at = "await" /\ d.call = c /\ d.try = calls[c].try

\* An error is swallowed, and the approval goes on without a transfer.
Answer(c) ==
    \E d \in debits :
       /\ Waits(c, d) /\ d.at \in {"ok", "failed"}
       /\ debits' = debits \ {d}
       /\ calls' = [calls EXCEPT ![c] = [@ EXCEPT !.at = "write",
                       !.amount = IF d.at = "ok" THEN d.amount ELSE 0]]
       /\ UNCHANGED <<row, phase, cache, jobs, world, history>>

\* The answer is late: the request is sent again, or given up.
Late(c) ==
    /\ calls[c].at = "await"
    /\ Fault("late")
    /\ \/ /\ calls[c].try = 1
          /\ calls' = [calls EXCEPT ![c].try = 2]
          /\ debits' = debits \union {Debit(c, 2, calls[c].amount)}
          /\ torn' = torn \union {"resent"}
       \/ /\ calls' = [calls EXCEPT ![c] = [@ EXCEPT !.at = "write", !.amount = 0]]
          /\ torn' = torn \union {"left"}
          /\ UNCHANGED debits
    /\ UNCHANGED <<row, phase, cache, jobs, savings, day, given, surplus, offer,
                   taken, outdated, spoiled, missed>>

\* An answer nobody waits for.
Unheard(d) ==
    /\ d.at \in {"ok", "failed"} /\ \A c \in Calls : ~Waits(c, d)
    /\ debits' = debits \ {d}
    /\ UNCHANGED <<row, phase, cache, calls, jobs, world, history>>

-----------------------------------------------------------------------------
(* Donations, errors, and the time to live of the copy.                    *)

\* The payment's transaction increments the row and leaves the copy alone.
Donate ==
    /\ given < plan.gifts /\ row.active /\ row.status = "ACTIVE"
    /\ given' = given + 1
    /\ row' = [row EXCEPT !.received = @ + 1]
    /\ UNCHANGED <<phase, cache, calls, jobs, debits, savings, day, plan, surplus, offer,
                   history>>

Abandoned(S) ==
    /\ outdated' = (outdated \/ (cache # None /\ \E c \in S : InWriting(c)))
    /\ missed' = (missed \/ \E c \in S : calls[c].op \in {"phase", "finish"})
    /\ torn' = IF \E c \in S : Transferred(c) THEN torn \union {"left"} ELSE torn

CallError(c) ==
    /\ calls[c].at # "idle" /\ Fault("error")
    /\ Abandoned({c})
    /\ Leave(c)
    /\ UNCHANGED <<row, phase, cache, jobs, debits, savings, day, given, surplus, offer,
                   taken, spoiled>>

\* The campaign service stops.
Crash ==
    /\ Fault("crash")
    /\ \E c \in Calls : calls[c].at # "idle"
    /\ Abandoned(Calls)
    /\ calls' = [c \in Calls |-> NoCall]
    /\ jobs' = [j \in Jobs |-> NoJob]
    /\ UNCHANGED <<row, phase, cache, debits, savings, day, given, surplus, offer, taken,
                   spoiled>>

Expire ==
    /\ cache # None
    /\ cache' = None /\ outdated' = FALSE
    /\ UNCHANGED <<row, phase, calls, jobs, debits, world, taken, spoiled, torn, missed>>

\* A write of the status by a job or another service, past Redis.
WritesPast(s) ==
    /\ row' = [row EXCEPT !.status = s]
    /\ calls' = Aged(None, NoCall)
    /\ outdated' = (outdated \/ cache # None)

-----------------------------------------------------------------------------
(* CampaignStatusJob: three jobs at every midnight, each on its own.       *)

Midnight ==
    /\ \A j \in Jobs : jobs[j].at = "idle"
    /\ day' = Least(day + 1, MaxDay)
    /\ jobs' = [j \in Jobs |-> [NoJob EXCEPT !.at = "find"]]
    /\ UNCHANGED <<row, phase, cache, calls, debits, savings, given, plan, surplus,
                   offer, history>>

Due(j) ==
    CASE j = "activate" -> row.status = "APPROVED" /\ Start <= day
      [] j = "complete" -> row.status = "ACTIVE" /\ (row.end <= day \/ row.received >= Target)
      [] j = "expire"   -> row.status \in {"PENDING", "APPROVED"} /\ row.end <= day

Find(j) ==
    /\ jobs[j].at = "find"
    /\ jobs' = [jobs EXCEPT ![j] = IF row.active /\ Due(j)
                THEN [at |-> "write", seen |-> Copy(row), old |-> FALSE] ELSE NoJob]
    /\ UNCHANGED <<row, phase, cache, calls, debits, world, history>>

\* Half of the target is MIN_FUNDING_PERCENTAGE; a campaign with less is ended, its
\* funds pooled (Settlement.tla).
NewStatus(j, seen) ==
    CASE j = "activate" -> "ACTIVE"
      [] j = "complete" -> IF 2 * seen.received >= Target THEN "PROCESSING" ELSE "ENDED"
      [] j = "expire"   -> IF seen.status = "PENDING" THEN "REJECTED" ELSE "CANCELLED"

JobWrite(j) ==
    /\ jobs[j].at = "write" /\ row.active
    /\ WritesPast(NewStatus(j, jobs[j].seen))
    /\ jobs' = [AgedJobs EXCEPT ![j] = NoJob]
    /\ spoiled' = (spoiled \/ jobs[j].old)
    /\ UNCHANGED <<phase, cache, debits, world, taken, torn, missed>>

\* No active row, or an error before the write: the next midnight tries again.
JobError(j) ==
    /\ jobs[j].at = "write"
    /\ \/ ~row.active /\ UNCHANGED plan
       \/ Fault("error")
    /\ jobs' = [jobs EXCEPT ![j] = NoJob]
    /\ UNCHANGED <<row, phase, cache, calls, debits, savings, day, given, surplus, offer,
                   history>>

-----------------------------------------------------------------------------
(* CampaignSettlementService: listeners read the campaign, and ask for ACTIVE again *)
(* when they write.                                                         *)

FindSurplus ==
    /\ "settlement" \in plan.services
    /\ row.status = "ACTIVE" /\ row.received > Target /\ ~surplus
    /\ surplus' = TRUE
    /\ UNCHANGED <<row, phase, cache, calls, jobs, debits, savings, day, given, plan,
                   offer, history>>

\* Mutant: the update does not ask for the status.
Settles_Anyway == surplus

Settles == surplus /\ row.status = "ACTIVE"

Settle ==
    /\ Settles
    /\ WritesPast("PROCESSING")
    /\ jobs' = AgedJobs
    /\ UNCHANGED <<phase, cache, debits, world, taken, spoiled, torn, missed>>

\* The last listener is done, or has failed.
SettlementEnds ==
    /\ surplus
    /\ surplus' = FALSE
    /\ UNCHANGED <<row, phase, cache, calls, jobs, debits, savings, day, given, plan,
                   offer, history>>

-----------------------------------------------------------------------------
(* CampaignReassignmentService, which reads the row, and takes a campaign back to *)
(* ACTIVE whatever it was before (Reassignment.tla, RestoredToPrevious).  Two     *)
(* organizations that accept at once are left to Reassignment.tla.                *)

\* assignCampaignToOrganizations
OfferCampaign ==
    /\ "reassignment" \in plan.services
    /\ row.active /\ row.status = "CANCELLED" /\ offer = "none"
    /\ offer' = "open"
    /\ UNCHANGED <<row, phase, cache, calls, jobs, debits, savings, day, given, plan,
                   surplus, history>>

\* acceptReassignment: the write has no condition on the status.
AcceptCampaign ==
    /\ row.active /\ offer = "open"
    /\ offer' = "taken"
    /\ WritesPast("ACTIVE")
    /\ jobs' = AgedJobs
    /\ missed' = (missed \/ AllFinished)
    /\ UNCHANGED <<phase, cache, debits, savings, day, given, plan, surplus, taken,
                   spoiled, torn>>

-----------------------------------------------------------------------------
\* A change to PENDING or ENDED is refused whatever the status.
Receive(c) ==
    \/ \E s \in {"APPROVED", "ACTIVE", "REJECTED", "CANCELLED", "PROCESSING", "COMPLETED"} :
         Begins(c, "change", s)
    \/ \E op \in {"view", "update", "extend", "delete", "sync"} : Begins(c, op, None)
    \/ \E p \in Phases, s \in {"finished", "cancelled"} :
         phase[p] = "open" /\ Begins(c, "phase", <<p, s>>)

Handle(c) ==
    \/ LookupHit(c) \/ LookupMiss(c) \/ Fill(c) \/ NotFound(c)
    \/ Change(c) \/ Put(c) \/ Update(c) \/ Extend(c) \/ Delete(c) \/ Finish(c)
    \/ Sync(c) \/ Revert(c) \/ SetPhase(c) \/ Drop(c) \/ LookAtPhases(c)
    \/ Balance(c) \/ Answer(c)

Serve(d) == DebitWallet(d) \/ AddRead(d) \/ AddWrite(d) \/ AddDrop(d) \/ Unheard(d)
Run(j) == Find(j) \/ JobWrite(j)

Next ==
    \/ \E c \in Calls : Receive(c) \/ Handle(c) \/ DropSkipped(c) \/ Late(c) \/ CallError(c)
    \/ \E d \in debits : Serve(d) \/ AddFails(d) \/ AddAgain(d)
    \/ \E j \in Jobs : Run(j) \/ JobError(j)
    \/ Midnight \/ Donate \/ Crash \/ Expire
    \/ FindSurplus \/ Settle \/ SettlementEnds \/ OfferCampaign \/ AcceptCampaign

Spec == Init /\ [][Next]_vars

-----------------------------------------------------------------------------
Kinds  == {"none", "change", "update", "extend", "delete", "sync", "phase", "view", "finish"}
Steps  == {"idle", "lookup", "fill", "balance", "await", "write", "put", "drop", "revert",
           "dropAgain", "phases"}
Copies == [status: Statuses, received: Nat, extended: BOOLEAN, end: Nat]
Rows   == [status: Statuses, received: Nat, extended: BOOLEAN, end: Nat, days: Nat,
           shift: Nat, active: BOOLEAN]
Targets   == {None} \union Statuses \union (Phases \X {"finished", "cancelled"})
CallTypes == [at: Steps, op: Kinds, to: Targets, seen: Copies, old: BOOLEAN,
              amount: 0 .. Target, try: 0 .. 2]
JobTypes  == [at: {"idle", "find", "write"}, seen: Copies, old: BOOLEAN]
Debits    == [call: Calls, try: 1 .. 2, amount: 1 .. Target, read: Nat,
              at: {"debit", "read", "add", "drop", "ok", "failed"}]

\* The shapes of the campaign, its copy, the handlers and the requests: no transfer
\* exceeds the target, and the wallet never falls below zero.
TypeOK ==
    /\ row \in Rows
    /\ phase \in [Phases -> {"open", "finished", "cancelled"}]
    /\ cache \in {None} \union Copies
    /\ calls \in [Calls -> CallTypes]
    /\ jobs \in [Jobs -> JobTypes]
    /\ debits \subseteq Debits
    /\ surplus \in BOOLEAN /\ offer \in {"none", "open", "taken"}
    /\ savings \in Nat /\ taken \in Nat /\ savings + taken = Savings
    /\ day \in Int /\ day <= MaxDay
    /\ given \in Nat
    /\ plan \in Plans
    /\ outdated \in BOOLEAN /\ spoiled \in BOOLEAN /\ missed \in BOOLEAN
    /\ torn \subseteq {"lost", "again", "resent", "left"}

\* What Redis holds of the campaign is what the database holds: every handler of the
\* campaign's own services that changes status, extension or existence drops the copy
\* after its write, also when handlers overlap.  Left out: a copy stored after a write it
\* had not seen, a handler that failed or skipped the command, and the writers that leave
\* Redis alone, the nightly jobs, the settlement and the acceptance of a reassignment.
CopyIsCurrent ==
    cache # None /\ ~outdated /\ (\A c \in Calls : ~InWriting(c)) =>
        row.active /\ cache.status = row.status /\ cache.extended = row.extended

\* Rejected, completed, cancelled and ended campaigns stay so, whatever is asked of them
\* later, whichever jobs run and whoever settles a surplus, as long as nobody writes on a
\* reading that another write has outdated; but for a cancelled campaign that is offered
\* and accepted, which is active again, once.
FinalStays ==
    [][row.status \in Final /\ ~spoiled' =>
          \/ row'.status = row.status
          \/ /\ row.status = "CANCELLED" /\ row'.status = "ACTIVE"
             /\ offer = "open" /\ offer' = "taken"]_vars

\* An extension moves the phases by the days it adds to the campaign, once: not if a
\* second one decided on an outdated reading.
PhasesMoveWithEnd == ~spoiled => row.shift = row.days

\* The campaign never shows more than donors and the fundraiser's wallet gave, however
\* approvals, donations and late answers overlap, unless the addition itself was repeated;
\* and although the approval writes an absolute amount over what the user service has
\* added, nothing is lost: campaign and wallet agree once no approval is in progress.
\* The latter leaves out approvals on outdated readings, requests sent again, additions
\* that failed, and approvals that failed after the debit.
WalletMoneyArrives ==
    /\ "again" \notin torn => row.received <= given + taken
    /\ /\ debits = {} /\ torn = {} /\ ~spoiled
       /\ \A c \in Calls : calls[c].op = "change" => calls[c].at \notin {"await", "write"}
       => row.received = given + taken

\* When all phases are finished, the handler of the last of them completes the
\* campaign, whichever is last and however they overlap, unless it fails or the campaign
\* was cancelled before it could, and taken over since.
FinishedIsCompleted ==
    /\ AllFinished /\ ~missed /\ ~spoiled
    /\ \A c \in Calls : calls[c].op \notin {"phase", "finish"}
    => row.status # "PROCESSING"
====
