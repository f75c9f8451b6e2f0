---- MODULE CampaignProofs ----
(***************************************************************************)
(* Proofs about CampaignLifecycle: type correctness, the copy in Redis,    *)
(* the finality of the last statuses, the dates of the phases, the         *)
(* completion of a campaign with its phases, and the money of approvals.   *)
(***************************************************************************)
EXTENDS CampaignLifecycle, SumProofs

-----------------------------------------------------------------------------
(* The inductive invariants.                                               *)

\* Handler c holds a reading of the campaign that it still uses.
Reading(c) ==
    \/ calls[c].at \in {"fill", "balance", "await", "write", "revert"}
    \/ calls[c].at = "drop" /\ calls[c].op = "sync"

\* A reading that no write has outdated shows the row.
ReadingIsRow ==
    \A c \in Calls : Reading(c) /\ ~calls[c].old =>
        /\ row.active
        /\ calls[c].seen.status = row.status /\ calls[c].seen.extended = row.extended

\* What a nightly job has found due, and that it is still the row's status unless old.
FoundIsDue ==
    \A j \in Jobs : jobs[j].at = "write" =>
        /\ j = "activate" => jobs[j].seen.status = "APPROVED"
        /\ j = "complete" => jobs[j].seen.status = "ACTIVE"
        /\ j = "expire" => jobs[j].seen.status \in {"PENDING", "APPROVED"}
        /\ ~jobs[j].old => jobs[j].seen.status = row.status

\* What the checks of a handler have left of its reading and its request.
Checked(call) ==
    /\ call.op = "none" => call.at = "idle"
    /\ call.at \in {"balance", "await"} =>
         call.op = "change" /\ call.to = "APPROVED" /\ call.seen.status = "PENDING"
    /\ call.at = "put" => call.op = "change"
    /\ call.at = "phases" => call.op = "phase"
    /\ call.at = "revert" => call.op = "sync" /\ call.seen.status = "APPROVED"
    /\ call.at \in {"lookup", "fill"} /\ call.op = "change" => call.to \in Statuses
    /\ call.at \in {"lookup", "fill", "write"} /\ call.op = "phase" =>
         call.to \in Phases \X {"finished", "cancelled"}
    /\ call.at = "write" =>
         /\ call.op # "view"
         /\ call.op = "change" => call.to \in Allowed(call.seen.status)
         /\ call.op = "extend" => ~call.seen.extended
         /\ call.op \in {"phase", "finish"} => call.seen.status = "PROCESSING"
         /\ call.op = "delete" => call.seen.status \in {"PENDING", "APPROVED", "REJECTED"}
    /\ call.amount > 0 =>
         call.at \in {"await", "write"} /\ call.op = "change" /\ call.seen.status = "PENDING"
    /\ call.at = "await" => call.amount > 0 /\ call.try \in 1 .. 2

CallsChecked == \A c \in Calls : Checked(calls[c])

\* The phases have moved by as many days as the extension added, and not before it.
MovedOnce == ~spoiled => row.shift = row.days /\ (~row.extended => row.days = 0)

\* What is offered to organizations is a cancelled campaign.
OfferIsCancelled == ~spoiled /\ offer = "open" => row.status = "CANCELLED"

\* The phases are only finished in a campaign that runs or is over ...
PhasesOfRunning ==
    ~spoiled /\ ~missed /\ AllFinished => row.status \in {"PROCESSING", "COMPLETED", "CANCELLED"}

\* ... a deleted campaign never ran ...
DeletedNeverRan ==
    ~spoiled /\ ~row.active => row.status \in {"PENDING", "APPROVED", "REJECTED"}

\* ... and the handler that is to complete the campaign is on its way.
Completing(c) ==
    \/ calls[c].op = "phase" /\ calls[c].at \in {"drop", "phases"}
    \/ calls[c].op = "finish" /\ calls[c].at \in {"lookup", "fill", "write"}

SomeoneCompletes ==
    AllFinished /\ ~missed /\ ~spoiled /\ row.status = "PROCESSING" =>
        \E c \in Calls : Completing(c)

\* Each request is one of its handler's, which sends none before the last is answered.
DebitsOfCalls ==
    /\ IsFiniteSet(debits)
    /\ \A d, e \in debits : d.call = e.call /\ d.try = e.try => d = e
    /\ \A d \in debits :
         /\ calls[d.call].at \in {"idle", "await", "write", "put", "drop"}
         /\ calls[d.call].at # "idle" => calls[d.call].op = "change"
         /\ calls[d.call].at = "await" => d.try <= calls[d.call].try

\* The money that was debited and not yet added to the campaign, and what there can
\* be in the campaign at most.
Amounts  == [d \in Debits |-> d.amount]
OnTheWay == {d \in debits : d.at \in {"read", "add"}}
Arrived  == given + taken - SumFunctionOnSet(Amounts, OnTheWay)

\* Nothing in the campaign, in a copy or in a sum about to be written exceeds it.
NothingExceeds ==
    "again" \notin torn =>
    /\ row.received <= Arrived
    /\ cache # None => cache.received <= Arrived
    /\ \A c \in Calls :
         /\ calls[c].seen.received <= Arrived
         /\ calls[c].at = "write" /\ calls[c].amount > 0 =>
              calls[c].seen.received + calls[c].amount <= Arrived
    /\ \A d \in debits :
         /\ d.at = "add" => d.read <= Arrived
         /\ d.at \in {"drop", "ok"} /\ calls[d.call].at = "await" =>
              calls[d.call].seen.received + d.amount <= Arrived

\* Without failures, an approval waits for its one request ...
OneRequestEach ==
    torn = {} =>
    /\ \A d \in debits : /\ calls[d.call].at = "await" /\ d.try = 1
                         /\ calls[d.call].try = 1 /\ calls[d.call].amount = d.amount
    /\ \A c \in Calls : calls[c].at = "await" => \E d \in debits : d.call = c

\* ... and has the wallet's money until it has written the sum.
Paying ==
    {c \in Calls : \/ calls[c].at = "write" /\ calls[c].amount > 0
                   \/ \E d \in debits : d.call = c /\ d.at \in {"read", "add", "drop", "ok"}}

\* A reading that an approval may start from, in a handler and in Redis.
Pending(c) == Reading(c) /\ ~calls[c].old /\ calls[c].seen.status = "PENDING"

CopyCounts == cache # None /\ ~outdated /\ \A c \in Calls : ~InWriting(c)

\* While nobody pays, row, readings and copy show what was given; the only one who pays
\* knows what the campaign had before.
RowRight   == row.received = given + taken
ReadRight(c) == Pending(c) => calls[c].seen.received = row.received
CopyRight  == CopyCounts /\ cache.status = "PENDING" => cache.received = row.received
SumRight(c) ==
    Paying = {c} /\ ~calls[c].old => calls[c].seen.received + calls[c].amount = given + taken

SumsAreRight ==
    torn = {} /\ ~spoiled =>
    /\ Paying = {} => RowRight /\ CopyRight /\ \A c \in Calls : ReadRight(c)
    /\ \A c \in Calls : SumRight(c)

-----------------------------------------------------------------------------
(* Records.                                                                *)

LEMMA BlankTyped ==
    /\ Blank \in Copies /\ Blank.status = "PENDING" /\ Blank.received = 0
    /\ NoCall \in CallTypes /\ NoCall.at = "idle" /\ NoCall.op = "none"
    /\ NoCall.to = None /\ NoCall.seen = Blank /\ NoCall.old = FALSE
    /\ NoCall.amount = 0 /\ NoCall.try = 0
    /\ NoJob \in JobTypes /\ NoJob.at = "idle"
    /\ Checked(NoCall)
  <1>1. Target \in Nat /\ End \in Nat BY LifecycleAssumption
  <1>2. Blank \in Copies BY <1>1 DEF Blank, Copies, Statuses
  <1>3. NoCall \in CallTypes
    BY <1>1, <1>2 DEF NoCall, CallTypes, Steps, Kinds, Targets
  <1>4. QED BY <1>2, <1>3 DEF Blank, NoCall, NoJob, JobTypes, Checked

LEMMA CopyTyped ==
    ASSUME NEW r \in Rows
    PROVE  /\ Copy(r) \in Copies
           /\ Copy(r).status = r.status /\ Copy(r).received = r.received
           /\ Copy(r).extended = r.extended /\ Copy(r).end = r.end
  BY DEF Rows, Copies, Copy

LEMMA CallFields ==
    ASSUME NEW call \in CallTypes
    PROVE  /\ call.at \in Steps /\ call.op \in Kinds /\ call.to \in Targets
           /\ call.seen \in Copies /\ call.old \in BOOLEAN
           /\ call.amount \in Nat /\ call.amount <= Target /\ call.try \in 0 .. 2
           /\ call.seen.status \in Statuses /\ call.seen.received \in Nat
           /\ call.seen.extended \in BOOLEAN /\ call.seen.end \in Nat
  BY LifecycleAssumption DEF CallTypes, Copies

LEMMA CallAges ==
    ASSUME NEW call \in CallTypes, NEW new, new = [call EXCEPT !.old = TRUE]
    PROVE  /\ new \in CallTypes /\ new.at = call.at /\ new.op = call.op /\ new.to = call.to
           /\ new.seen = call.seen /\ new.old = TRUE /\ new.amount = call.amount
           /\ new.try = call.try
  BY DEF CallTypes

LEMMA JobAges ==
    ASSUME NEW job \in JobTypes, NEW new, new = [job EXCEPT !.old = TRUE]
    PROVE  new \in JobTypes /\ new.at = job.at /\ new.seen = job.seen /\ new.old = TRUE
  BY DEF JobTypes

LEMMA DebitGoes ==
    ASSUME NEW d \in Debits, NEW step \in {"debit", "read", "add", "drop", "ok", "failed"},
           NEW e, e = [d EXCEPT !.at = step]
    PROVE  /\ e \in Debits /\ e.at = step /\ e.call = d.call /\ e.try = d.try
           /\ e.amount = d.amount /\ e.read = d.read
  BY DEF Debits

LEMMA RowTyped ==
    ASSUME TypeOK
    PROVE  /\ row.status \in Statuses /\ row.received \in Nat /\ row.extended \in BOOLEAN
           /\ row.end \in Nat /\ row.days \in Nat /\ row.shift \in Nat
           /\ row.active \in BOOLEAN
  BY DEF TypeOK, Rows

-----------------------------------------------------------------------------
(* What a step does to the handlers.                                       *)

OthersStay(c) == \A d \in Calls : d # c => calls'[d] = calls[d]

\* The handlers but c are told that their readings are old.
OthersAge(c) ==
    \A d \in Calls : d # c =>
        /\ calls'[d].at = calls[d].at /\ calls'[d].op = calls[d].op
        /\ calls'[d].to = calls[d].to /\ calls'[d].seen = calls[d].seen
        /\ calls'[d].amount = calls[d].amount /\ calls'[d].try = calls[d].try
        /\ calls[d].at \in {"idle", "lookup"} => calls'[d] = calls[d]
        /\ calls[d].at \notin {"idle", "lookup"} => calls'[d].old = TRUE

JobsAge ==
    \A j \in Jobs : /\ jobs'[j].at = jobs[j].at /\ jobs'[j].seen = jobs[j].seen
                    /\ jobs[j].at = "write" => jobs'[j].old = TRUE

LEMMA CallOf ==
    ASSUME TypeOK, CallsChecked, NEW c \in Calls
    PROVE  calls[c] \in CallTypes /\ Checked(calls[c])
  BY DEF TypeOK, CallsChecked

LEMMA MoveView ==
    ASSUME TypeOK, CallsChecked, NEW c \in Calls, NEW new \in CallTypes, Checked(new),
           calls' = [calls EXCEPT ![c] = new]
    PROVE  /\ calls' \in [Calls -> CallTypes] /\ CallsChecked'
           /\ calls'[c] = new /\ OthersStay(c)
  <1>1. calls' \in [Calls -> CallTypes] /\ calls'[c] = new /\ OthersStay(c)
    BY DEF TypeOK, OthersStay
  <1>2. ASSUME NEW d \in Calls PROVE Checked(calls'[d])
    <2>1. CASE d = c BY <2>1, <1>1
    <2>2. CASE d # c BY <2>2, <1>1, CallOf DEF OthersStay
    <2>3. QED BY <2>1, <2>2
  <1>3. QED BY <1>1, <1>2 DEF CallsChecked

LEMMA CheckedAges ==
    ASSUME NEW call \in CallTypes, Checked(call)
    PROVE  Checked([call EXCEPT !.old = TRUE])
  <1>1. PICK new : new = [call EXCEPT !.old = TRUE] OBVIOUS
  <1>2. /\ new.at = call.at /\ new.op = call.op /\ new.to = call.to
        /\ new.seen = call.seen /\ new.amount = call.amount /\ new.try = call.try
    BY <1>1, CallAges
  <1>3. Checked(new) BY <1>2 DEF Checked
  <1>4. QED BY <1>1, <1>3

LEMMA AgedView ==
    ASSUME TypeOK, CallsChecked, NEW c, c \in Calls \/ c = None, NEW next \in CallTypes,
           Checked(next), calls' = Aged(c, next)
    PROVE  /\ calls' \in [Calls -> CallTypes] /\ CallsChecked'
           /\ c \in Calls => calls'[c] = next
           /\ OthersAge(c)
  <1>1. ASSUME NEW d \in Calls, d # c, calls[d].at \notin {"idle", "lookup"}
        PROVE  /\ calls'[d] \in CallTypes /\ Checked(calls'[d])
               /\ calls'[d].at = calls[d].at /\ calls'[d].op = calls[d].op
               /\ calls'[d].to = calls[d].to /\ calls'[d].seen = calls[d].seen
               /\ calls'[d].amount = calls[d].amount /\ calls'[d].try = calls[d].try
               /\ calls'[d].old = TRUE
    <2>1. calls'[d] = [calls[d] EXCEPT !.old = TRUE] BY <1>1 DEF Aged
    <2>2. QED BY <2>1, CallOf, CheckedAges, CallAges
  <1>2. ASSUME NEW d \in Calls, d # c, calls[d].at \in {"idle", "lookup"}
        PROVE  calls'[d] = calls[d] /\ calls'[d] \in CallTypes /\ Checked(calls'[d])
    BY <1>2, CallOf DEF Aged
  <1>3. c \in Calls => calls'[c] = next BY DEF Aged
  <1>4. calls' = [d \in Calls |-> calls'[d]] BY DEF Aged
  <1>5. \A d \in Calls : calls'[d] \in CallTypes /\ Checked(calls'[d])
    BY <1>1, <1>2, <1>3
  <1>6. OthersAge(c) BY <1>1, <1>2 DEF OthersAge
  <1>7. QED BY <1>3, <1>4, <1>5, <1>6 DEF CallsChecked

LEMMA AgedJobsView ==
    ASSUME TypeOK, jobs' = AgedJobs
    PROVE  jobs' \in [Jobs -> JobTypes] /\ JobsAge
  <1>1. ASSUME NEW j \in Jobs
        PROVE  /\ jobs'[j] \in JobTypes /\ jobs'[j].at = jobs[j].at
               /\ jobs'[j].seen = jobs[j].seen /\ (jobs[j].at = "write" => jobs'[j].old = TRUE)
    <2>1. jobs[j] \in JobTypes BY DEF TypeOK
    <2>2. CASE jobs[j].at = "write"
      <3>1. jobs'[j] = [jobs[j] EXCEPT !.old = TRUE] BY <2>2 DEF AgedJobs
      <3>2. QED BY <2>1, <3>1, JobAges
    <2>3. CASE jobs[j].at # "write" BY <2>1, <2>3 DEF AgedJobs
    <2>4. QED BY <2>2, <2>3
  <1>2. jobs' = [j \in Jobs |-> jobs'[j]] BY DEF AgedJobs
  <1>3. QED BY <1>1, <1>2 DEF JobsAge

LEMMA FaultTyped ==
    ASSUME TypeOK, NEW k, Fault(k)
    PROVE  plan' \in Plans
  BY DEF TypeOK, Fault, Plans

\* What the checks find in the reading.
LEMMA FirstSteps ==
    ASSUME NEW call \in CallTypes, call.op # "none", NEW seen \in Copies
    PROVE  /\ FirstStep(call, seen) \in {"idle", "write", "balance"}
           /\ FirstStep(call, seen) = "balance" =>
                call.op = "change" /\ call.to = "APPROVED" /\ seen.status = "PENDING"
           /\ FirstStep(call, seen) = "write" =>
                /\ call.op # "view"
                /\ call.op = "change" => call.to \in Allowed(seen.status)
                /\ call.op = "extend" => ~seen.extended
                /\ call.op \in {"phase", "finish"} => seen.status = "PROCESSING"
                /\ call.op = "delete" => seen.status \in {"PENDING", "APPROVED", "REJECTED"}
           /\ call.op = "finish" /\ FirstStep(call, seen) = "idle" =>
                seen.status # "PROCESSING"
  <1>1. call.op \in Kinds BY CallFields
  <1>2. CASE call.op = "change"
    <2>1. FirstStep(call, seen) = IF call.to \notin Allowed(seen.status) THEN "idle"
                                  ELSE IF call.to = "APPROVED" THEN "balance" ELSE "write"
      BY <1>2 DEF FirstStep
    <2>2. "APPROVED" \in Allowed(seen.status) => seen.status = "PENDING"
      BY DEF Allowed
    <2>3. QED BY <1>2, <2>1, <2>2
  <1>3. CASE call.op \in {"update", "sync", "view"} BY <1>3 DEF FirstStep
  <1>4. CASE call.op = "extend" BY <1>4 DEF FirstStep, Extendable
  <1>5. CASE call.op \in {"delete", "phase", "finish"} BY <1>5 DEF FirstStep
  <1>6. QED BY <1>1, <1>2, <1>3, <1>4, <1>5 DEF Kinds

LEMMA DecideView ==
    ASSUME TypeOK, CallsChecked, NEW c \in Calls, calls[c].at \in {"lookup", "fill"},
           NEW seen \in Copies, NEW old \in BOOLEAN, Decide(c, seen, old)
    PROVE  /\ calls' \in [Calls -> CallTypes] /\ CallsChecked' /\ OthersStay(c)
           /\ missed' \in BOOLEAN
           /\ \/ /\ calls'[c] = NoCall
                 /\ calls[c].op = "finish" => seen.status # "PROCESSING"
                 /\ missed' = (missed \/ (calls[c].op = "finish" /\ old))
              \/ /\ calls'[c].at \in {"write", "balance"} /\ calls'[c].op = calls[c].op
                 /\ calls[c].op = "finish" => calls'[c].at = "write"
                 /\ calls'[c].seen = seen /\ calls'[c].old = old /\ calls'[c].amount = 0
                 /\ missed' = missed
  <1> DEFINE step == FirstStep(calls[c], seen)
             new == [calls[c] EXCEPT !.at = step, !.seen = seen, !.old = old]
  <1>1. calls[c] \in CallTypes /\ Checked(calls[c]) BY CallOf
  <1>2. calls[c].op # "none" /\ calls[c].amount = 0
    BY <1>1, CallFields DEF Checked
  <1>3. missed \in BOOLEAN BY DEF TypeOK
  <1>4. CASE step = "idle"
    <2>1. calls' = [calls EXCEPT ![c] = NoCall] BY <1>4 DEF Decide
    <2>2. missed' = (missed \/ (calls[c].op = "finish" /\ old)) BY <1>4 DEF Decide
    <2>3. calls[c].op = "finish" => seen.status # "PROCESSING"
      BY <1>1, <1>2, <1>4, FirstSteps
    <2>4. QED BY <1>3, <2>1, <2>2, <2>3, MoveView, BlankTyped
  <1>5. CASE step # "idle"
    <2>1. calls' = [calls EXCEPT ![c] = new] BY <1>5 DEF Decide
    <2>2. missed' = missed BY <1>3, <1>5 DEF Decide
    <2>3. step \in {"write", "balance"} /\ step \in Steps
      BY <1>1, <1>2, <1>5, FirstSteps DEF Steps
    <2>4. PICK n : n = new OBVIOUS
    <2>12. n = [calls[c] EXCEPT !.at = step, !.seen = seen, !.old = old]
      BY <2>4
    <2> HIDE DEF step
    <2>5. /\ n \in CallTypes /\ n.at = step /\ n.op = calls[c].op /\ n.to = calls[c].to
          /\ n.seen = seen /\ n.old = old /\ n.amount = 0
      <3>1. calls[c] \in CallTypes /\ step \in Steps BY <1>1, <2>3
      <3> HIDE DEF new
      <3>2. /\ n \in CallTypes /\ n.at = step /\ n.op = calls[c].op /\ n.to = calls[c].to
            /\ n.seen = seen /\ n.old = old /\ n.amount = calls[c].amount
        BY <3>1, <2>12 DEF CallTypes
      <3>3. QED BY <1>2, <3>2
    <2>6. calls[c].op \in {"phase"} => calls[c].to \in Phases \X {"finished", "cancelled"}
      BY <1>1 DEF Checked
    <2>7. /\ step = "balance" =>
               calls[c].op = "change" /\ calls[c].to = "APPROVED" /\ seen.status = "PENDING"
          /\ step = "write" =>
               /\ calls[c].op # "view"
               /\ calls[c].op = "change" => calls[c].to \in Allowed(seen.status)
               /\ calls[c].op = "extend" => ~seen.extended
               /\ calls[c].op \in {"phase", "finish"} => seen.status = "PROCESSING"
               /\ calls[c].op = "delete" => seen.status \in {"PENDING", "APPROVED", "REJECTED"}
      BY <1>1, <1>2, FirstSteps DEF step
    <2> HIDE DEF new
    <2>8. Checked(n) BY <1>2, <2>3, <2>5, <2>6, <2>7 DEF Checked
    <2>9. calls'[c] = n /\ calls' \in [Calls -> CallTypes] /\ CallsChecked' /\ OthersStay(c)
      BY <2>1, <2>4, <2>5, <2>8, MoveView
    <2>10. calls[c].op = "finish" => n.at = "write"
      BY <2>3, <2>5, <2>7
    <2>11. QED BY <1>3, <2>2, <2>3, <2>5, <2>9, <2>10
  <1>6. QED BY <1>4, <1>5

-----------------------------------------------------------------------------
(* Type correctness, one action at a time, with what the step does to the  *)
(* handler that takes it.                                                  *)

LEMMA BeginsView ==
    ASSUME TypeOK, CallsChecked, NEW c \in Calls, NEW op \in Kinds, NEW to \in Targets,
           op # "none", op = "change" => to \in Statuses,
           op = "phase" => to \in Phases \X {"finished", "cancelled"}, Begins(c, op, to)
    PROVE  /\ TypeOK' /\ CallsChecked' /\ OthersStay(c)
           /\ calls'[c].at = "lookup" /\ calls'[c].op = op /\ calls'[c].seen = Blank
           /\ calls'[c].amount = 0
  <1>1. PICK new : new = Call(op, to) OBVIOUS
  <1>2. /\ new \in CallTypes /\ new.at = "lookup" /\ new.op = op /\ new.to = to
        /\ new.seen = Blank /\ new.amount = 0
    BY <1>1, BlankTyped DEF Call, CallTypes, Steps
  <1>3. Checked(new) BY <1>2 DEF Checked
  <1>4. calls' = [calls EXCEPT ![c] = new] BY <1>1 DEF Begins
  <1>5. calls' \in [Calls -> CallTypes] /\ CallsChecked' /\ calls'[c] = new /\ OthersStay(c)
    BY <1>2, <1>3, <1>4, MoveView
  <1>6. TypeOK' BY <1>5 DEF Begins, TypeOK, Plans, history
  <1>7. QED BY <1>2, <1>5, <1>6

LEMMA ReceiveView ==
    ASSUME TypeOK, CallsChecked, NEW c \in Calls, Receive(c)
    PROVE  /\ TypeOK' /\ CallsChecked' /\ OthersStay(c)
           /\ calls[c].at = "idle" /\ calls'[c].at = "lookup" /\ calls'[c].seen = Blank
           /\ calls'[c].amount = 0 /\ \A d \in debits : d.call # c
           /\ UNCHANGED <<row, phase, cache, jobs, debits, savings, day, given, history>>
  <1>1. PICK op \in Kinds \ {"none"}, to \in Targets :
          /\ op = "change" => to \in Statuses
          /\ op = "phase" => to \in Phases \X {"finished", "cancelled"}
          /\ Begins(c, op, to)
    <2>1. ASSUME NEW s \in {"APPROVED", "ACTIVE", "REJECTED", "CANCELLED", "PROCESSING", "COMPLETED"},
                 Begins(c, "change", s)
          PROVE  "change" \in Kinds \ {"none"} /\ s \in Targets /\ s \in Statuses
      BY DEF Kinds, Targets, Statuses
    <2>2. ASSUME NEW op \in {"view", "update", "extend", "delete", "sync"}
          PROVE  op \in Kinds \ {"none", "change", "phase"} /\ None \in Targets
      BY DEF Kinds, Targets
    <2>3. ASSUME NEW p \in Phases, NEW s \in {"finished", "cancelled"}
          PROVE  /\ "phase" \in Kinds \ {"none", "change"} /\ <<p, s>> \in Targets
                 /\ <<p, s>> \in Phases \X {"finished", "cancelled"}
      BY DEF Kinds, Targets
    <2>4. CASE \E s \in {"APPROVED", "ACTIVE", "REJECTED", "CANCELLED", "PROCESSING", "COMPLETED"} :
                 Begins(c, "change", s)
      BY <2>1, <2>4
    <2>5. CASE \E op \in {"view", "update", "extend", "delete", "sync"} : Begins(c, op, None)
      BY <2>2, <2>5
    <2>6. CASE \E p \in Phases, s \in {"finished", "cancelled"} :
                 phase[p] = "open" /\ Begins(c, "phase", <<p, s>>)
      <3>1. PICK p \in Phases, s \in {"finished", "cancelled"} : Begins(c, "phase", <<p, s>>)
        BY <2>6
      <3>2. QED BY <2>3, <3>1
    <2>7. QED BY <2>4, <2>5, <2>6 DEF Receive
  <1>2. op \in Kinds /\ op # "none" OBVIOUS
  <1>3. QED BY <1>1, <1>2, BeginsView DEF Begins

LEMMA LookupHitView ==
    ASSUME TypeOK, CallsChecked, NEW c \in Calls, LookupHit(c)
    PROVE  /\ TypeOK' /\ CallsChecked' /\ OthersStay(c)
           /\ \/ /\ calls'[c] = NoCall
                 /\ calls[c].op = "finish" => cache.status # "PROCESSING"
                 /\ calls[c].op = "finish" /\ (outdated \/ \E d \in Calls \ {c} : InWriting(d))
                      => missed'
              \/ /\ calls'[c].at \in {"write", "balance"} /\ calls'[c].op = calls[c].op
                 /\ calls[c].op = "finish" => calls'[c].at = "write"
                 /\ calls'[c].seen = cache /\ calls'[c].amount = 0
                 /\ ~calls'[c].old => ~outdated /\ \A d \in Calls \ {c} : ~InWriting(d)
  <1>1. calls[c].at \in {"lookup", "fill"} /\ cache \in Copies
    BY DEF LookupHit, TypeOK
  <1>2. PICK old \in BOOLEAN : /\ Decide(c, cache, old)
                               /\ old <=> outdated \/ \E d \in Calls \ {c} : InWriting(d)
    BY DEF LookupHit
  <1>3. /\ calls' \in [Calls -> CallTypes] /\ CallsChecked' /\ OthersStay(c)
        /\ missed' \in BOOLEAN
        /\ \/ /\ calls'[c] = NoCall
              /\ calls[c].op = "finish" => cache.status # "PROCESSING"
              /\ missed' = (missed \/ (calls[c].op = "finish" /\ old))
           \/ /\ calls'[c].at \in {"write", "balance"} /\ calls'[c].op = calls[c].op
              /\ calls[c].op = "finish" => calls'[c].at = "write"
              /\ calls'[c].seen = cache /\ calls'[c].old = old /\ calls'[c].amount = 0
              /\ missed' = missed
    BY <1>1, <1>2, DecideView
  <1>4. TypeOK' BY <1>3 DEF LookupHit, TypeOK, world
  <1>5. QED BY <1>2, <1>3, <1>4

LEMMA LookupMissView ==
    ASSUME TypeOK, CallsChecked, NEW c \in Calls, LookupMiss(c)
    PROVE  /\ TypeOK' /\ CallsChecked' /\ OthersStay(c)
           /\ \/ ~row.active /\ calls'[c] = NoCall
              \/ /\ row.active /\ calls'[c].at = "fill" /\ calls'[c].op = calls[c].op
                 /\ calls'[c].seen = Copy(row) /\ calls'[c].amount = 0
  <1>1. calls[c] \in CallTypes /\ Checked(calls[c]) /\ calls[c].at = "lookup"
    BY CallOf DEF LookupMiss
  <1>2. CASE ~row.active
    <2>1. calls' = [calls EXCEPT ![c] = NoCall] BY <1>2 DEF LookupMiss, Leave
    <2>2. calls' \in [Calls -> CallTypes] /\ CallsChecked' /\ OthersStay(c)
          /\ calls'[c] = NoCall
      BY <2>1, MoveView, BlankTyped
    <2>3. TypeOK' BY <2>2 DEF LookupMiss, TypeOK, world, history
    <2>4. QED BY <1>2, <2>2, <2>3
  <1>3. CASE row.active
    <2>1. PICK n : n = [calls[c] EXCEPT !.at = "fill", !.seen = Copy(row)] OBVIOUS
    <2>2. Copy(row) \in Copies BY CopyTyped DEF TypeOK
    <2>3. n \in CallTypes /\ n.at = "fill" /\ n.op = calls[c].op /\ n.seen = Copy(row)
          /\ n.to = calls[c].to /\ n.amount = calls[c].amount
      BY <1>1, <2>1, <2>2 DEF CallTypes, Steps
    <2>4. calls[c].amount = 0 BY <1>1, CallFields DEF Checked
    <2>5. Checked(n) BY <1>1, <2>3, <2>4 DEF Checked
    <2>6. calls' = [calls EXCEPT ![c] = n]
      BY <1>3, <2>1 DEF LookupMiss, TypeOK
    <2>7. calls' \in [Calls -> CallTypes] /\ CallsChecked' /\ OthersStay(c) /\ calls'[c] = n
      BY <2>3, <2>5, <2>6, MoveView
    <2>8. TypeOK' BY <2>7 DEF LookupMiss, TypeOK, world, history
    <2>9. QED BY <1>3, <2>3, <2>4, <2>7, <2>8
  <1>4. QED BY <1>2, <1>3

LEMMA FillView ==
    ASSUME TypeOK, CallsChecked, NEW c \in Calls, Fill(c)
    PROVE  /\ TypeOK' /\ CallsChecked' /\ OthersStay(c)
           /\ cache' = calls[c].seen /\ outdated' = calls[c].old
           /\ \/ /\ calls'[c] = NoCall
                 /\ calls[c].op = "finish" => calls[c].seen.status # "PROCESSING"
                 /\ calls[c].op = "finish" /\ calls[c].old => missed'
              \/ /\ calls'[c].at \in {"write", "balance"} /\ calls'[c].op = calls[c].op
                 /\ calls[c].op = "finish" => calls'[c].at = "write"
                 /\ calls'[c].seen = calls[c].seen /\ calls'[c].old = calls[c].old
                 /\ calls'[c].amount = 0
  <1>1. calls[c].at \in {"lookup", "fill"} /\ calls[c].seen \in Copies
        /\ calls[c].old \in BOOLEAN
    BY CallOf, CallFields DEF Fill
  <1>2. Decide(c, calls[c].seen, calls[c].old) BY DEF Fill
  <1>3. /\ calls' \in [Calls -> CallTypes] /\ CallsChecked' /\ OthersStay(c)
        /\ missed' \in BOOLEAN
        /\ \/ /\ calls'[c] = NoCall
              /\ calls[c].op = "finish" => calls[c].seen.status # "PROCESSING"
              /\ missed' = (missed \/ (calls[c].op = "finish" /\ calls[c].old))
           \/ /\ calls'[c].at \in {"write", "balance"} /\ calls'[c].op = calls[c].op
              /\ calls[c].op = "finish" => calls'[c].at = "write"
              /\ calls'[c].seen = calls[c].seen /\ calls'[c].old = calls[c].old
              /\ calls'[c].amount = 0
              /\ missed' = missed
    BY <1>1, <1>2, DecideView
  <1>4. TypeOK' BY <1>1, <1>3 DEF Fill, TypeOK, world
  <1>5. QED BY <1>3, <1>4 DEF Fill

LEMMA LeaveView ==
    ASSUME TypeOK, CallsChecked, NEW c \in Calls, Leave(c)
    PROVE  /\ calls' \in [Calls -> CallTypes] /\ CallsChecked' /\ OthersStay(c)
           /\ calls'[c] = NoCall
  BY MoveView, BlankTyped DEF Leave

\* The handler goes on to a step that asks nothing of its reading.
LEMMA GotoView ==
    ASSUME TypeOK, CallsChecked, NEW c \in Calls, NEW step \in {"drop", "write", "revert"},
           calls[c].amount = 0, Goto(c, step),
           step = "write" => calls[c].op = "change" /\ calls[c].to \in Allowed(calls[c].seen.status),
           step = "revert" => calls[c].op = "sync" /\ calls[c].seen.status = "APPROVED",
           calls[c].op # "none"
    PROVE  /\ calls' \in [Calls -> CallTypes] /\ CallsChecked' /\ OthersStay(c)
           /\ calls'[c].at = step /\ calls'[c].op = calls[c].op
           /\ calls'[c].seen = calls[c].seen /\ calls'[c].old = calls[c].old
           /\ calls'[c].amount = 0
  <1>1. calls[c] \in CallTypes BY CallOf
  <1>2. PICK n : n = [calls[c] EXCEPT !.at = step] OBVIOUS
  <1>3. /\ n \in CallTypes /\ n.at = step /\ n.op = calls[c].op /\ n.to = calls[c].to
        /\ n.seen = calls[c].seen /\ n.old = calls[c].old /\ n.amount = 0
    BY <1>1, <1>2 DEF CallTypes, Steps
  <1>4. Checked(n) BY <1>3 DEF Checked
  <1>5. calls' = [calls EXCEPT ![c] = n] BY <1>2 DEF Goto, TypeOK
  <1>6. QED BY <1>3, <1>4, <1>5, MoveView

LEMMA NotFoundView ==
    ASSUME TypeOK, CallsChecked, NEW c \in Calls, NotFound(c)
    PROVE  /\ TypeOK' /\ CallsChecked' /\ OthersStay(c) /\ calls'[c] = NoCall
           /\ torn \subseteq torn' /\ (Transferred(c) => "left" \in torn')
           /\ "again" \in torn' => "again" \in torn
  <1>1. calls' \in [Calls -> CallTypes] /\ CallsChecked' /\ OthersStay(c) /\ calls'[c] = NoCall
    BY LeaveView DEF NotFound
  <1>2. TypeOK' BY <1>1 DEF NotFound, TypeOK, world
  <1>3. QED BY <1>1, <1>2 DEF NotFound

\* A write of the row: the handler goes on with next, the readings of others are old.
LEMMA WriteRowView ==
    ASSUME TypeOK, CallsChecked, NEW c \in Calls, NEW r \in Rows, NEW next \in CallTypes,
           Checked(next), WriteRow(c, r, next),
           UNCHANGED <<phase, cache, debits, world, taken, outdated, torn, missed>>
    PROVE  /\ TypeOK' /\ CallsChecked' /\ OthersAge(c) /\ JobsAge
           /\ row' = r /\ calls'[c] = next
           /\ spoiled' = (spoiled \/ calls[c].old) /\ spoiled' \in BOOLEAN
  <1>1. calls' \in [Calls -> CallTypes] /\ CallsChecked' /\ OthersAge(c) /\ calls'[c] = next
    BY AgedView DEF WriteRow
  <1>2. jobs' \in [Jobs -> JobTypes] /\ JobsAge BY AgedJobsView DEF WriteRow
  <1>3. spoiled' = (spoiled \/ calls[c].old) /\ spoiled' \in BOOLEAN BY DEF WriteRow
  <1>4. TypeOK' BY <1>1, <1>2, <1>3 DEF WriteRow, TypeOK, world
  <1>5. QED BY <1>1, <1>2, <1>3, <1>4 DEF WriteRow

LEMMA AllowedTyped ==
    ASSUME NEW s \in Statuses
    PROVE  /\ Allowed(s) \subseteq Statuses
           /\ s \in Final => Allowed(s) = {}
           /\ "PROCESSING" \in Allowed(s) => s = "ACTIVE"
           /\ s = "PROCESSING" => Allowed(s) = {"COMPLETED", "CANCELLED"}
           /\ "PENDING" \notin Allowed(s)
  BY DEF Allowed, Statuses, Final

LEMMA ChangeView ==
    ASSUME TypeOK, CallsChecked, NEW c \in Calls, Change(c)
    PROVE  /\ TypeOK' /\ CallsChecked' /\ OthersAge(c) /\ JobsAge
           /\ row.active /\ row'.active /\ row'.extended = row.extended
           /\ row'.days = row.days /\ row'.shift = row.shift
           /\ row'.received = ReceivedAfter(calls[c])
           /\ calls[c].to \in Allowed(calls[c].seen.status)
           /\ row'.status \in Statuses /\ row'.status # "PENDING"
           /\ calls[c].to = row'.status \/ (calls[c].to = "APPROVED" /\ row'.status = "ACTIVE")
           /\ calls'[c].at = "put" /\ calls'[c].op = "change" /\ calls'[c].seen = Copy(row')
           /\ calls'[c].amount = 0
           /\ spoiled' = (spoiled \/ calls[c].old) /\ spoiled' \in BOOLEAN
           /\ UNCHANGED <<phase, cache, debits, world, taken, outdated, torn, missed>>
  <1>1. calls[c] \in CallTypes /\ Checked(calls[c]) /\ calls[c].at = "write"
        /\ calls[c].op = "change"
    BY CallOf DEF Change
  <1>2. calls[c].to \in Allowed(calls[c].seen.status) /\ calls[c].to \in Statuses
        /\ calls[c].to # "PENDING"
    BY <1>1, CallFields, AllowedTyped DEF Checked
  <1>3. ReceivedAfter(calls[c]) \in Nat
    BY <1>1, CallFields, RowTyped DEF ReceivedAfter
  <1>4. PICK s \in Statuses :
          s = IF calls[c].to = "APPROVED" /\ day = Start THEN "ACTIVE" ELSE calls[c].to
    BY <1>2 DEF Statuses
  <1>5. PICK r : r = [row EXCEPT !.status = s, !.received = ReceivedAfter(calls[c])]
    OBVIOUS
  <1>6. /\ r \in Rows /\ r.status = s /\ r.received = ReceivedAfter(calls[c])
        /\ r.active = row.active /\ r.extended = row.extended
        /\ r.days = row.days /\ r.shift = row.shift
    BY <1>3, <1>5 DEF TypeOK, Rows
  <1>7. PICK next : next = [Then(calls[c], "put") EXCEPT !.seen = Copy(r)] OBVIOUS
  <1>8. /\ next \in CallTypes /\ next.at = "put" /\ next.op = "change"
        /\ next.seen = Copy(r) /\ next.amount = 0
    <2>1. Copy(r) \in Copies BY <1>6, CopyTyped
    <2>2. QED BY <1>1, <1>7, <2>1, BlankTyped DEF Then, CallTypes, Targets, Steps
  <1>9. Checked(next) BY <1>8 DEF Checked
  <1>10. WriteRow(c, r, next) /\ row.active
         /\ UNCHANGED <<phase, cache, debits, world, taken, outdated, torn, missed>>
    BY <1>4, <1>5, <1>7 DEF Change
  <1>11. /\ TypeOK' /\ CallsChecked' /\ OthersAge(c) /\ JobsAge
         /\ row' = r /\ calls'[c] = next
         /\ spoiled' = (spoiled \/ calls[c].old) /\ spoiled' \in BOOLEAN
    BY <1>6, <1>8, <1>9, <1>10, WriteRowView
  <1>12. s # "PENDING" /\ (calls[c].to = s \/ (calls[c].to = "APPROVED" /\ s = "ACTIVE"))
    BY <1>2, <1>4
  <1>13. QED BY <1>2, <1>6, <1>8, <1>10, <1>11, <1>12

\* The other writes of the row, which leave the money alone.
LEMMA ThenChecked ==
    ASSUME NEW call \in CallTypes, call.op # "none", NEW step \in {"drop", "dropAgain"}, NEW next,
           next = Then(call, step)
    PROVE  /\ next \in CallTypes /\ next.at = step /\ next.op = call.op /\ next.seen = Blank
           /\ next.amount = 0 /\ next.old = FALSE /\ Checked(next)
  <1>1. step \in Steps BY DEF Steps
  <1>2. /\ next \in CallTypes /\ next.at = step /\ next.op = call.op /\ next.seen = Blank
        /\ next.amount = 0 /\ next.old = FALSE
    BY <1>1, BlankTyped DEF Then, CallTypes, Targets
  <1>3. QED BY <1>2 DEF Checked

LEMMA DropChecked ==
    ASSUME NEW call \in CallTypes, call.op # "none", NEW next, next = Then(call, "drop")
    PROVE  /\ next \in CallTypes /\ next.at = "drop" /\ next.op = call.op /\ next.seen = Blank
           /\ next.amount = 0 /\ next.old = FALSE /\ Checked(next)
  <1>1. PICK step \in {"drop", "dropAgain"} : step = "drop" OBVIOUS
  <1>2. next = Then(call, step) BY <1>1
  <1>3. QED BY <1>1, <1>2, ThenChecked

Written(c, step, r) ==
    /\ TypeOK' /\ CallsChecked' /\ OthersAge(c) /\ JobsAge
    /\ row' = r /\ row'.received = row.received
    /\ calls'[c].at = step /\ calls'[c].op = calls[c].op /\ calls'[c].seen = Blank
    /\ calls'[c].amount = 0
    /\ spoiled' = (spoiled \/ calls[c].old) /\ spoiled' \in BOOLEAN
    /\ UNCHANGED <<phase, cache, debits, world, taken, outdated, torn, missed>>

LEMMA WrittenView ==
    ASSUME TypeOK, CallsChecked, NEW c \in Calls, calls[c].at \in {"write", "revert"},
           NEW r \in Rows, r.received = row.received, NEW step \in {"drop", "dropAgain"},
           WriteRow(c, r, Then(calls[c], step)),
           UNCHANGED <<phase, cache, debits, world, taken, outdated, torn, missed>>
    PROVE  Written(c, step, r)
  <1>1. calls[c] \in CallTypes /\ Checked(calls[c]) /\ calls[c].op # "none"
    BY CallOf DEF Checked
  <1>2. PICK next : next = Then(calls[c], step) OBVIOUS
  <1>3. /\ next \in CallTypes /\ next.at = step /\ next.op = calls[c].op /\ next.seen = Blank
        /\ next.amount = 0 /\ next.old = FALSE /\ Checked(next)
    BY <1>1, <1>2, ThenChecked
  <1>4. WriteRow(c, r, next) BY <1>2
  <1>5. QED BY <1>3, <1>4, WriteRowView DEF Written

LEMMA UpdateView ==
    ASSUME TypeOK, CallsChecked, NEW c \in Calls, Update(c)
    PROVE  /\ Written(c, "drop", row') /\ row.active /\ calls[c].op = "update"
           /\ row'.active /\ row'.status = row.status /\ row'.extended = row.extended
           /\ row'.days = row.days /\ row'.shift = row.shift
  <1>1. PICK e \in {End, End + 1} :
          WriteRow(c, [row EXCEPT !.end = e], Then(calls[c], "drop"))
    BY DEF Update
  <1>2. PICK r : r = [row EXCEPT !.end = e] OBVIOUS
  <1>3. e \in Nat BY LifecycleAssumption
  <1>4. /\ r \in Rows /\ r.status = row.status /\ r.received = row.received
        /\ r.active = row.active /\ r.extended = row.extended
        /\ r.days = row.days /\ r.shift = row.shift
    BY <1>2, <1>3 DEF TypeOK, Rows
  <1>5. Written(c, "drop", r) BY <1>1, <1>2, <1>4, WrittenView DEF Update
  <1>6. QED BY <1>4, <1>5 DEF Update, Written

LEMMA ExtendView ==
    ASSUME TypeOK, CallsChecked, NEW c \in Calls, Extend(c)
    PROVE  /\ Written(c, "drop", row') /\ row.active /\ calls[c].op = "extend"
           /\ calls[c].at = "write" /\ row'.active /\ row'.status = row.status
           /\ row'.extended = TRUE /\ row'.days = Extra /\ row'.shift = row.shift + Extra
  <1>0. PICK e, n : e = calls[c].seen.end + Extra /\ n = row.shift + Extra
    OBVIOUS
  <1>1. PICK r : r = [row EXCEPT !.end = e, !.extended = TRUE, !.days = Extra, !.shift = n]
    OBVIOUS
  <1>2. e \in Nat /\ n \in Nat /\ Extra \in Nat
    BY <1>0, CallOf, CallFields, RowTyped, LifecycleAssumption
  <1>3. /\ r \in Rows /\ r.status = row.status /\ r.received = row.received
        /\ r.active = row.active /\ r.extended = TRUE
        /\ r.days = Extra /\ r.shift = row.shift + Extra
    BY <1>0, <1>1, <1>2 DEF TypeOK, Rows
  <1>4. WriteRow(c, r, Then(calls[c], "drop")) BY <1>0, <1>1 DEF Extend
  <1>5. Written(c, "drop", r) BY <1>3, <1>4, WrittenView DEF Extend
  <1>6. QED BY <1>3, <1>5 DEF Extend, Written

LEMMA DeleteView ==
    ASSUME TypeOK, CallsChecked, NEW c \in Calls, Delete(c)
    PROVE  /\ Written(c, "drop", row') /\ calls[c].op = "delete" /\ calls[c].at = "write"
           /\ row'.active = FALSE /\ row'.status = row.status /\ row'.extended = row.extended
           /\ row'.days = row.days /\ row'.shift = row.shift
  <1>1. PICK r : r = [row EXCEPT !.active = FALSE] OBVIOUS
  <1>2. /\ r \in Rows /\ r.status = row.status /\ r.received = row.received
        /\ r.active = FALSE /\ r.extended = row.extended
        /\ r.days = row.days /\ r.shift = row.shift
    BY <1>1 DEF TypeOK, Rows
  <1>3. WriteRow(c, r, Then(calls[c], "drop")) BY <1>1 DEF Delete
  <1>4. Written(c, "drop", r) BY <1>2, <1>3, WrittenView DEF Delete
  <1>5. QED BY <1>2, <1>4 DEF Delete, Written

\* The two that only set the status.
StatusSet(c, step, s) ==
    /\ Written(c, step, row') /\ row.active /\ row'.active
    /\ row'.status = s /\ row'.extended = row.extended
    /\ row'.days = row.days /\ row'.shift = row.shift

LEMMA StatusView ==
    ASSUME TypeOK, CallsChecked, NEW c \in Calls, calls[c].at \in {"write", "revert"}, row.active,
           NEW s \in Statuses, NEW step \in {"drop", "dropAgain"},
           WriteRow(c, [row EXCEPT !.status = s], Then(calls[c], step)),
           UNCHANGED <<phase, cache, debits, world, taken, outdated, torn, missed>>
    PROVE  StatusSet(c, step, s)
  <1>1. PICK r : r = [row EXCEPT !.status = s] OBVIOUS
  <1>2. /\ r \in Rows /\ r.status = s /\ r.received = row.received
        /\ r.active = row.active /\ r.extended = row.extended
        /\ r.days = row.days /\ r.shift = row.shift
    BY <1>1 DEF TypeOK, Rows
  <1>3. WriteRow(c, r, Then(calls[c], step)) BY <1>1
  <1>4. Written(c, step, r) BY <1>2, <1>3, WrittenView
  <1>5. QED BY <1>2, <1>4 DEF StatusSet, Written

LEMMA FinishView ==
    ASSUME TypeOK, CallsChecked, NEW c \in Calls, Finish(c)
    PROVE  /\ StatusSet(c, "drop", "COMPLETED") /\ calls[c].op = "finish"
           /\ calls[c].at = "write" /\ calls[c].seen.status = "PROCESSING"
  <1>1. calls[c].seen.status = "PROCESSING" BY CallOf DEF Finish, Checked
  <1>2. "COMPLETED" \in Statuses BY DEF Statuses
  <1>3. QED BY <1>1, <1>2, StatusView DEF Finish

LEMMA RevertView ==
    ASSUME TypeOK, CallsChecked, NEW c \in Calls, Revert(c)
    PROVE  /\ StatusSet(c, "dropAgain", "PENDING") /\ calls[c].op = "sync"
           /\ calls[c].at = "revert" /\ calls[c].seen.status = "APPROVED"
  <1>1. calls[c].op = "sync" /\ calls[c].seen.status = "APPROVED"
    BY CallOf DEF Revert, Checked
  <1>2. "PENDING" \in Statuses BY DEF Statuses
  <1>3. QED BY <1>1, <1>2, StatusView DEF Revert

LEMMA PutView ==
    ASSUME TypeOK, CallsChecked, NEW c \in Calls, Put(c)
    PROVE  /\ TypeOK' /\ CallsChecked' /\ OthersStay(c)
           /\ calls[c].at = "put" /\ calls[c].op = "change" /\ cache' = calls[c].seen
           /\ calls'[c].at = "drop" /\ calls'[c].op = "change" /\ calls'[c].seen = Blank
           /\ calls'[c].amount = 0
  <1>1. calls[c] \in CallTypes /\ Checked(calls[c]) /\ calls[c].at = "put"
        /\ calls[c].op = "change"
    BY CallOf DEF Put, Checked
  <1>2. PICK next : next = Then(calls[c], "drop") OBVIOUS
  <1>3. /\ next \in CallTypes /\ next.at = "drop" /\ next.op = calls[c].op /\ next.seen = Blank
        /\ next.amount = 0 /\ next.old = FALSE /\ Checked(next)
    <2>1. calls[c].op # "none" BY <1>1
    <2>2. QED BY <1>1, <1>2, <2>1, DropChecked
  <1>4. calls' = [calls EXCEPT ![c] = next] BY <1>2 DEF Put
  <1>5. calls' \in [Calls -> CallTypes] /\ CallsChecked' /\ OthersStay(c) /\ calls'[c] = next
    BY <1>3, <1>4, MoveView
  <1>6. calls[c].seen \in Copies BY <1>1, CallFields
  <1>7. TypeOK' BY <1>5, <1>6 DEF Put, TypeOK, world, history
  <1>8. QED BY <1>1, <1>3, <1>5, <1>7 DEF Put

LEMMA SyncView ==
    ASSUME TypeOK, CallsChecked, NEW c \in Calls, Sync(c)
    PROVE  /\ TypeOK' /\ CallsChecked' /\ OthersStay(c)
           /\ calls[c].at = "write" /\ calls[c].op = "sync"
           /\ calls'[c].at = "drop" /\ calls'[c].op = "sync"
           /\ calls'[c].seen = calls[c].seen /\ calls'[c].old = calls[c].old
           /\ calls'[c].amount = 0
  <1>1. calls[c].amount = 0 /\ calls[c].op # "none"
    BY CallOf, CallFields DEF Sync, Checked
  <1>2. /\ calls' \in [Calls -> CallTypes] /\ CallsChecked' /\ OthersStay(c)
        /\ calls'[c].at = "drop" /\ calls'[c].op = calls[c].op
        /\ calls'[c].seen = calls[c].seen /\ calls'[c].old = calls[c].old
        /\ calls'[c].amount = 0
    BY <1>1, GotoView DEF Sync
  <1>3. TypeOK' BY <1>2 DEF Sync, TypeOK, world, history
  <1>4. QED BY <1>2, <1>3 DEF Sync

LEMMA SetPhaseView ==
    ASSUME TypeOK, CallsChecked, NEW c \in Calls, SetPhase(c)
    PROVE  /\ TypeOK' /\ CallsChecked' /\ OthersStay(c)
           /\ calls[c].at = "write" /\ calls[c].op = "phase"
           /\ calls[c].seen.status = "PROCESSING"
           /\ calls'[c].at = "drop" /\ calls'[c].op = "phase" /\ calls'[c].seen = Blank
           /\ calls'[c].amount = 0
           /\ spoiled' = (spoiled \/ calls[c].old) /\ spoiled' \in BOOLEAN
  <1>1. /\ calls[c] \in CallTypes /\ Checked(calls[c]) /\ calls[c].op = "phase"
        /\ calls[c].seen.status = "PROCESSING"
        /\ calls[c].to \in Phases \X {"finished", "cancelled"}
    BY CallOf DEF SetPhase, Checked
  <1>2. PICK next : next = Then(calls[c], "drop") OBVIOUS
  <1>3. /\ next \in CallTypes /\ next.at = "drop" /\ next.op = calls[c].op /\ next.seen = Blank
        /\ next.amount = 0 /\ next.old = FALSE /\ Checked(next)
    <2>1. calls[c].op # "none" BY <1>1
    <2>2. QED BY <1>1, <1>2, <2>1, DropChecked
  <1>4. calls' = [calls EXCEPT ![c] = next] BY <1>2 DEF SetPhase
  <1>5. calls' \in [Calls -> CallTypes] /\ CallsChecked' /\ OthersStay(c) /\ calls'[c] = next
    BY <1>3, <1>4, MoveView
  <1>6. phase' \in [Phases -> {"open", "finished", "cancelled"}]
    BY <1>1 DEF SetPhase, TypeOK
  <1>7. spoiled' = (spoiled \/ calls[c].old) /\ spoiled' \in BOOLEAN BY DEF SetPhase
  <1>8. TypeOK' BY <1>5, <1>6, <1>7 DEF SetPhase, TypeOK, world
  <1>9. QED BY <1>1, <1>3, <1>5, <1>7, <1>8 DEF SetPhase

\* After the copy was dropped, or the command skipped.
Dropped(c) ==
    /\ CallsChecked' /\ OthersStay(c) /\ calls[c].at \in {"drop", "dropAgain"}
    /\ \/ /\ calls'[c] = NoCall
          /\ ~(calls[c].at = "drop" /\ calls[c].op = "phase")
       \/ /\ calls[c].at = "drop" /\ calls[c].op = "sync"
          /\ calls'[c].at = "revert" /\ calls'[c].op = "sync"
          /\ calls'[c].seen = calls[c].seen /\ calls'[c].old = calls[c].old
          /\ calls'[c].amount = 0
       \/ /\ calls[c].at = "drop" /\ calls[c].op = "phase"
          /\ calls'[c].at = "phases" /\ calls'[c].op = "phase" /\ calls'[c].seen = Blank
          /\ calls'[c].amount = 0

LEMMA StepView ==
    ASSUME TypeOK, CallsChecked, NEW c \in Calls, calls[c].at \in {"drop", "dropAgain"},
           calls' = [calls EXCEPT ![c] = Step(@, AfterDrop(@))]
    PROVE  calls' \in [Calls -> CallTypes] /\ Dropped(c)
  <1>1. calls[c] \in CallTypes /\ Checked(calls[c]) BY CallOf
  <1>2. calls[c].amount = 0 BY <1>1, CallFields DEF Checked
  <1>3. PICK next : next = Step(calls[c], AfterDrop(calls[c])) OBVIOUS
  <1>4. calls' = [calls EXCEPT ![c] = next] BY <1>3 DEF TypeOK
  <1>5. CASE calls[c].at = "drop" /\ calls[c].op = "sync" /\ calls[c].seen.status = "APPROVED"
    <2>1. next = [calls[c] EXCEPT !.at = "revert"] BY <1>3, <1>5 DEF Step, AfterDrop
    <2>2. /\ next \in CallTypes /\ next.at = "revert" /\ next.op = "sync"
          /\ next.seen = calls[c].seen /\ next.old = calls[c].old /\ next.amount = 0
      BY <1>1, <1>2, <1>5, <2>1 DEF CallTypes, Steps
    <2>3. Checked(next) BY <1>5, <2>2 DEF Checked
    <2>4. QED BY <1>4, <1>5, <2>2, <2>3, MoveView DEF Dropped
  <1>6. CASE calls[c].at = "drop" /\ calls[c].op = "phase"
    <2>1. next = Then(calls[c], "phases") BY <1>3, <1>6 DEF Step, AfterDrop
    <2>2. /\ next \in CallTypes /\ next.at = "phases" /\ next.op = "phase"
          /\ next.seen = Blank /\ next.amount = 0
      BY <1>1, <1>6, <2>1, BlankTyped DEF Then, CallTypes, Targets, Steps
    <2>3. Checked(next) BY <2>2 DEF Checked
    <2>4. QED BY <1>4, <1>6, <2>2, <2>3, MoveView DEF Dropped
  <1>7. CASE ~(\/ calls[c].at = "drop" /\ calls[c].op = "sync" /\ calls[c].seen.status = "APPROVED"
               \/ calls[c].at = "drop" /\ calls[c].op = "phase")
    <2>1. next = NoCall BY <1>3, <1>7 DEF Step, AfterDrop
    <2>2. QED BY <1>4, <1>7, <2>1, MoveView, BlankTyped DEF Dropped
  <1>8. QED BY <1>5, <1>6, <1>7

LEMMA DropView ==
    ASSUME TypeOK, CallsChecked, NEW c \in Calls, Drop(c)
    PROVE  TypeOK' /\ Dropped(c) /\ cache' = None
  <1>1. calls' \in [Calls -> CallTypes] /\ Dropped(c) BY StepView DEF Drop
  <1>2. cache' = None BY DEF Drop, Invalidate
  <1>3. TypeOK' BY <1>1, <1>2 DEF Drop, TypeOK, world
  <1>4. QED BY <1>1, <1>2, <1>3

LEMMA DropSkippedView ==
    ASSUME TypeOK, CallsChecked, NEW c \in Calls, DropSkipped(c)
    PROVE  TypeOK' /\ Dropped(c) /\ outdated' = (cache # None)
  <1>1. calls' \in [Calls -> CallTypes] /\ Dropped(c) BY StepView DEF DropSkipped
  <1>2. TypeOK' BY <1>1, FaultTyped DEF DropSkipped, TypeOK
  <1>3. QED BY <1>1, <1>2 DEF DropSkipped

LEMMA LookAtPhasesView ==
    ASSUME TypeOK, CallsChecked, NEW c \in Calls, LookAtPhases(c)
    PROVE  /\ TypeOK' /\ CallsChecked' /\ OthersStay(c)
           /\ calls[c].at = "phases" /\ calls[c].op = "phase"
           /\ \/ ~AllFinished /\ calls'[c] = NoCall
              \/ /\ AllFinished /\ calls'[c].at = "lookup" /\ calls'[c].op = "finish"
                 /\ calls'[c].seen = Blank /\ calls'[c].amount = 0
  <1>1. calls[c] \in CallTypes /\ Checked(calls[c]) /\ calls[c].at = "phases"
        /\ calls[c].op = "phase"
    BY CallOf DEF LookAtPhases, Checked
  <1>2. CASE AllFinished
    <2>1. PICK next : next = Call("finish", None) OBVIOUS
    <2>2. /\ next \in CallTypes /\ next.at = "lookup" /\ next.op = "finish"
          /\ next.seen = Blank /\ next.amount = 0
      BY <2>1, BlankTyped DEF Call, CallTypes, Steps, Kinds, Targets
    <2>3. Checked(next) BY <2>2 DEF Checked
    <2>4. calls' = [calls EXCEPT ![c] = next] BY <1>2, <2>1 DEF LookAtPhases
    <2>5. calls' \in [Calls -> CallTypes] /\ CallsChecked' /\ OthersStay(c)
          /\ calls'[c] = next
      BY <2>2, <2>3, <2>4, MoveView
    <2>6. TypeOK' BY <2>5 DEF LookAtPhases, TypeOK, world, history
    <2>7. QED BY <1>1, <1>2, <2>2, <2>5, <2>6
  <1>3. CASE ~AllFinished
    <2>1. calls' = [calls EXCEPT ![c] = NoCall] BY <1>3 DEF LookAtPhases
    <2>2. calls' \in [Calls -> CallTypes] /\ CallsChecked' /\ OthersStay(c)
          /\ calls'[c] = NoCall
      BY <2>1, MoveView, BlankTyped
    <2>3. TypeOK' BY <2>2 DEF LookAtPhases, TypeOK, world, history
    <2>4. QED BY <1>1, <1>3, <2>2, <2>3
  <1>4. QED BY <1>2, <1>3

LEMMA BalanceView ==
    ASSUME TypeOK, CallsChecked, NEW c \in Calls, Balance(c)
    PROVE  /\ TypeOK' /\ CallsChecked' /\ OthersStay(c)
           /\ calls[c].at = "balance" /\ calls[c].op = "change" /\ calls'[c].op = "change"
           /\ calls[c].seen.status = "PENDING"
           /\ calls'[c].seen = calls[c].seen /\ calls'[c].old = calls[c].old
           /\ \/ calls'[c].at = "write" /\ calls'[c].amount = 0 /\ UNCHANGED debits
              \/ /\ calls'[c].at = "await" /\ calls'[c].try = 1
                 /\ calls'[c].amount \in 1 .. Target
                 /\ debits' = debits \union {Debit(c, 1, calls'[c].amount)}
  <1>1. /\ calls[c] \in CallTypes /\ Checked(calls[c]) /\ calls[c].at = "balance"
        /\ calls[c].op = "change" /\ calls[c].to = "APPROVED"
        /\ calls[c].seen.status = "PENDING" /\ calls[c].amount = 0
    BY CallOf, CallFields DEF Balance, Checked
  <1>2. calls[c].to \in Allowed(calls[c].seen.status) BY <1>1 DEF Allowed
  <1>3. PICK amount \in Int : amount = Transfer(calls[c].seen)
    <2>1. calls[c].seen.received \in Nat BY <1>1, CallFields
    <2>2. savings \in Nat /\ Target \in Nat BY LifecycleAssumption DEF TypeOK
    <2>3. QED BY <2>1, <2>2 DEF Transfer, Least
  <1>4. CASE amount <= 0
    <2>1. Goto(c, "write") /\ UNCHANGED debits BY <1>3, <1>4 DEF Balance
    <2>2. /\ calls' \in [Calls -> CallTypes] /\ CallsChecked' /\ OthersStay(c)
          /\ calls'[c].at = "write" /\ calls'[c].op = calls[c].op
          /\ calls'[c].seen = calls[c].seen /\ calls'[c].old = calls[c].old
          /\ calls'[c].amount = 0
      BY <1>1, <1>2, <2>1, GotoView
    <2>3. TypeOK' BY <2>1, <2>2 DEF Balance, TypeOK, world, history
    <2>4. QED BY <1>1, <2>1, <2>2, <2>3
  <1>5. CASE ~(amount <= 0)
    <2>1. amount \in 1 .. Target
      <3>1. calls[c].seen.received \in Nat BY <1>1, CallFields
      <3>2. savings \in Nat /\ Target \in Nat BY LifecycleAssumption DEF TypeOK
      <3>3. QED BY <1>3, <1>5, <3>1, <3>2 DEF Transfer, Least
    <2>2. PICK n : n = [calls[c] EXCEPT !.at = "await", !.amount = amount, !.try = 1]
      OBVIOUS
    <2>3. /\ n \in CallTypes /\ n.at = "await" /\ n.op = calls[c].op /\ n.to = calls[c].to
          /\ n.seen = calls[c].seen /\ n.old = calls[c].old /\ n.amount = amount
          /\ n.try = 1
      <3>1. amount \in 0 .. Target /\ 1 \in 0 .. 2 /\ "await" \in Steps
        BY <2>1, LifecycleAssumption DEF Steps
      <3>2. QED BY <1>1, <2>2, <3>1 DEF CallTypes
    <2>4. Checked(n) BY <1>1, <2>1, <2>3 DEF Checked
    <2>5. calls' = [calls EXCEPT ![c] = n]
      BY <1>3, <1>5, <2>2 DEF Balance, TypeOK
    <2>6. calls' \in [Calls -> CallTypes] /\ CallsChecked' /\ OthersStay(c) /\ calls'[c] = n
      BY <2>3, <2>4, <2>5, MoveView
    <2>7. debits' = debits \union {Debit(c, 1, amount)} BY <1>3, <1>5 DEF Balance
    <2>8. Debit(c, 1, amount) \in Debits BY <2>1 DEF Debit, Debits
    <2>9. debits' \subseteq Debits BY <2>7, <2>8 DEF TypeOK
    <2>10. TypeOK' BY <2>6, <2>9 DEF Balance, TypeOK, world, history
    <2>11. QED BY <1>1, <2>1, <2>3, <2>6, <2>7, <2>10
  <1>6. QED BY <1>4, <1>5

LEMMA AnswerView ==
    ASSUME TypeOK, CallsChecked, NEW c \in Calls, Answer(c)
    PROVE  /\ TypeOK' /\ CallsChecked' /\ OthersStay(c)
           /\ calls[c].at = "await" /\ calls[c].op = "change" /\ calls'[c].op = "change"
           /\ calls'[c].at = "write" /\ calls'[c].old = calls[c].old
           /\ calls'[c].seen = calls[c].seen /\ calls[c].seen.status = "PENDING"
           /\ \E d \in debits :
                /\ d.call = c /\ d.try = calls[c].try /\ d.at \in {"ok", "failed"}
                /\ debits' = debits \ {d}
                /\ calls'[c].amount = IF d.at = "ok" THEN d.amount ELSE 0
  <1>1. PICK d \in debits :
          /\ Waits(c, d) /\ d.at \in {"ok", "failed"}
          /\ debits' = debits \ {d}
          /\ calls' = [calls EXCEPT ![c] = [@ EXCEPT !.at = "write",
                         !.amount = IF d.at = "ok" THEN d.amount ELSE 0]]
          /\ UNCHANGED <<row, phase, cache, jobs, world, history>>
    BY DEF Answer
  <1>2. /\ calls[c] \in CallTypes /\ Checked(calls[c]) /\ calls[c].at = "await"
        /\ calls[c].op = "change" /\ calls[c].to = "APPROVED"
        /\ calls[c].seen.status = "PENDING"
    BY <1>1, CallOf DEF Waits, Checked
  <1>3. PICK amount : amount = IF d.at = "ok" THEN d.amount ELSE 0 OBVIOUS
  <1>4. amount \in 0 .. Target
    <2>1. Target \in Nat BY LifecycleAssumption
    <2>2. d.amount \in 1 .. Target BY DEF TypeOK, Debits
    <2>3. QED BY <1>3, <2>1, <2>2
  <1>5. PICK n : n = [calls[c] EXCEPT !.at = "write", !.amount = amount] OBVIOUS
  <1>6. /\ n \in CallTypes /\ n.at = "write" /\ n.op = calls[c].op /\ n.to = calls[c].to
        /\ n.seen = calls[c].seen /\ n.old = calls[c].old /\ n.amount = amount
    BY <1>2, <1>4, <1>5 DEF CallTypes, Steps
  <1>7. Checked(n) BY <1>2, <1>6 DEF Checked, Allowed
  <1>8. calls' = [calls EXCEPT ![c] = n] BY <1>1, <1>3, <1>5 DEF TypeOK
  <1>9. calls' \in [Calls -> CallTypes] /\ CallsChecked' /\ OthersStay(c) /\ calls'[c] = n
    BY <1>6, <1>7, <1>8, MoveView
  <1>10. TypeOK' BY <1>1, <1>9 DEF TypeOK, world, history
  <1>11. QED BY <1>1, <1>2, <1>3, <1>6, <1>9, <1>10 DEF Waits

LEMMA LateView ==
    ASSUME TypeOK, CallsChecked, NEW c \in Calls, Late(c)
    PROVE  /\ TypeOK' /\ CallsChecked' /\ OthersStay(c)
           /\ calls[c].at = "await" /\ calls[c].op = "change" /\ calls'[c].op = "change"
           /\ calls'[c].old = calls[c].old /\ calls'[c].seen = calls[c].seen
           /\ torn \subseteq torn' /\ torn' # {} /\ ("again" \in torn' => "again" \in torn)
           /\ \/ /\ calls[c].try = 1 /\ calls'[c].at = "await" /\ calls'[c].try = 2
                 /\ calls'[c].amount = calls[c].amount /\ calls[c].amount \in 1 .. Target
                 /\ debits' = debits \union {Debit(c, 2, calls[c].amount)}
              \/ calls'[c].at = "write" /\ calls'[c].amount = 0 /\ UNCHANGED debits
  <1>1. /\ calls[c] \in CallTypes /\ Checked(calls[c]) /\ calls[c].at = "await"
        /\ calls[c].op = "change" /\ calls[c].to = "APPROVED"
        /\ calls[c].seen.status = "PENDING" /\ calls[c].amount > 0
    BY CallOf DEF Late, Checked
  <1>2. calls[c].amount \in 1 .. Target
    BY <1>1, CallFields, LifecycleAssumption
  <1>3. plan' \in Plans
    BY FaultTyped DEF Late
  <1>4. CASE /\ calls[c].try = 1
             /\ calls' = [calls EXCEPT ![c].try = 2]
             /\ debits' = debits \union {Debit(c, 2, calls[c].amount)}
             /\ torn' = torn \union {"resent"}
    <2>1. PICK n : n = [calls[c] EXCEPT !.try = 2] OBVIOUS
    <2>2. /\ n \in CallTypes /\ n.at = "await" /\ n.op = calls[c].op /\ n.to = calls[c].to
          /\ n.seen = calls[c].seen /\ n.old = calls[c].old
          /\ n.amount = calls[c].amount /\ n.try = 2
      BY <1>1, <2>1 DEF CallTypes
    <2>3. Checked(n) BY <1>1, <2>2 DEF Checked
    <2>4. calls' = [calls EXCEPT ![c] = n] BY <1>4, <2>1 DEF TypeOK
    <2>5. calls' \in [Calls -> CallTypes] /\ CallsChecked' /\ OthersStay(c) /\ calls'[c] = n
      BY <2>2, <2>3, <2>4, MoveView
    <2>6. Debit(c, 2, calls[c].amount) \in Debits BY <1>2 DEF Debit, Debits
    <2>7. debits' \subseteq Debits BY <1>4, <2>6 DEF TypeOK
    <2>8. TypeOK' BY <1>3, <1>4, <2>5, <2>7 DEF Late, TypeOK
    <2>9. QED BY <1>1, <1>2, <1>4, <2>2, <2>5, <2>8
  <1>5. CASE /\ calls' = [calls EXCEPT ![c] = [@ EXCEPT !.at = "write", !.amount = 0]]
             /\ torn' = torn \union {"left"} /\ UNCHANGED debits
    <2>1. PICK n : n = [calls[c] EXCEPT !.at = "write", !.amount = 0] OBVIOUS
    <2>2. /\ n \in CallTypes /\ n.at = "write" /\ n.op = calls[c].op /\ n.to = calls[c].to
          /\ n.seen = calls[c].seen /\ n.old = calls[c].old /\ n.amount = 0
      <3>1. 0 \in 0 .. Target /\ "write" \in Steps BY LifecycleAssumption DEF Steps
      <3>2. QED BY <1>1, <2>1, <3>1 DEF CallTypes
    <2>3. Checked(n) BY <1>1, <2>2 DEF Checked, Allowed
    <2>4. calls' = [calls EXCEPT ![c] = n] BY <1>5, <2>1 DEF TypeOK
    <2>5. calls' \in [Calls -> CallTypes] /\ CallsChecked' /\ OthersStay(c) /\ calls'[c] = n
      BY <2>2, <2>3, <2>4, MoveView
    <2>6. TypeOK' BY <1>3, <1>5, <2>5 DEF Late, TypeOK
    <2>7. QED BY <1>1, <1>5, <2>2, <2>5, <2>6
  <1>6. QED BY <1>4, <1>5 DEF Late

LEMMA CallErrorView ==
    ASSUME TypeOK, CallsChecked, NEW c \in Calls, CallError(c)
    PROVE  /\ TypeOK' /\ CallsChecked' /\ OthersStay(c) /\ calls'[c] = NoCall
           /\ calls[c].at # "idle" /\ torn \subseteq torn'
           /\ "again" \in torn' => "again" \in torn
           /\ outdated => outdated'
           /\ cache # None /\ InWriting(c) => outdated'
           /\ missed \/ calls[c].op \in {"phase", "finish"} => missed'
           /\ Transferred(c) => torn' # {}
  <1>1. calls' \in [Calls -> CallTypes] /\ CallsChecked' /\ OthersStay(c) /\ calls'[c] = NoCall
    BY LeaveView DEF CallError
  <1>2. /\ outdated' = (outdated \/ (cache # None /\ InWriting(c)))
        /\ missed' = (missed \/ calls[c].op \in {"phase", "finish"})
        /\ torn' = IF Transferred(c) THEN torn \union {"left"} ELSE torn
    BY DEF CallError, Abandoned
  <1>3. outdated' \in BOOLEAN /\ missed' \in BOOLEAN BY <1>2
  <1>4. torn' \subseteq {"lost", "again", "resent", "left"} BY <1>2 DEF TypeOK
  <1>5. TypeOK' BY <1>1, <1>3, <1>4, FaultTyped DEF CallError, TypeOK
  <1>6. QED BY <1>1, <1>2, <1>5 DEF CallError

LEMMA CrashView ==
    ASSUME TypeOK, CallsChecked, Crash
    PROVE  /\ TypeOK' /\ CallsChecked' /\ \A c \in Calls : calls'[c] = NoCall
           /\ \A j \in Jobs : jobs'[j] = NoJob
           /\ torn \subseteq torn' /\ ("again" \in torn' => "again" \in torn)
           /\ outdated => outdated'
           /\ cache # None /\ (\E c \in Calls : InWriting(c)) => outdated'
           /\ missed \/ (\E c \in Calls : calls[c].op \in {"phase", "finish"}) => missed'
           /\ (\E c \in Calls : Transferred(c)) => torn' # {}
  <1>1. calls' = [c \in Calls |-> NoCall] /\ jobs' = [j \in Jobs |-> NoJob] BY DEF Crash
  <1>2. /\ outdated' = (outdated \/ (cache # None /\ \E c \in Calls : InWriting(c)))
        /\ missed' = (missed \/ \E c \in Calls : calls[c].op \in {"phase", "finish"})
        /\ torn' = IF \E c \in Calls : Transferred(c) THEN torn \union {"left"} ELSE torn
    BY DEF Crash, Abandoned
  <1>3. outdated' \in BOOLEAN /\ missed' \in BOOLEAN BY <1>2
  <1>4. torn' \subseteq {"lost", "again", "resent", "left"} BY <1>2 DEF TypeOK
  <1>5. calls' \in [Calls -> CallTypes] /\ jobs' \in [Jobs -> JobTypes] /\ CallsChecked'
    BY <1>1, BlankTyped DEF CallsChecked
  <1>6. TypeOK' BY <1>3, <1>4, <1>5, FaultTyped DEF Crash, TypeOK
  <1>7. QED BY <1>1, <1>2, <1>5, <1>6

\* One request goes on; the handlers do not notice.
Serves(d, e) ==
    /\ d \in debits /\ d \in Debits /\ e \in Debits
    /\ e.call = d.call /\ e.try = d.try /\ e.amount = d.amount
    /\ debits' = (debits \ {d}) \union {e}

LEMMA BecomesView ==
    ASSUME TypeOK, NEW d \in debits,
           NEW step \in {"debit", "read", "add", "drop", "ok", "failed"}, Becomes(d, step)
    PROVE  \E e : Serves(d, e) /\ e.at = step /\ e.read = d.read
  <1>1. d \in Debits BY DEF TypeOK
  <1>2. PICK e : e = [d EXCEPT !.at = step] OBVIOUS
  <1>3. /\ e \in Debits /\ e.at = step /\ e.call = d.call /\ e.try = d.try
        /\ e.amount = d.amount /\ e.read = d.read
    BY <1>1, <1>2, DebitGoes
  <1>4. debits' = (debits \ {d}) \union {e} BY <1>2 DEF Becomes
  <1>5. QED BY <1>1, <1>3, <1>4 DEF Serves

LEMMA ServesTyped ==
    ASSUME TypeOK, NEW d, NEW e, Serves(d, e)
    PROVE  debits' \subseteq Debits
  BY DEF Serves, TypeOK

LEMMA DebitWalletView ==
    ASSUME TypeOK, NEW d \in debits, DebitWallet(d)
    PROVE  /\ TypeOK' /\ d.at = "debit"
           /\ UNCHANGED <<row, phase, cache, calls, jobs, given, outdated, spoiled, torn, missed>>
           /\ \E e : /\ Serves(d, e)
                     /\ \/ e.at = "failed" /\ taken' = taken
                        \/ e.at = "read" /\ taken' = taken + d.amount
  <1>1. d.amount \in 1 .. Target /\ Target \in Nat
    BY LifecycleAssumption DEF TypeOK, Debits
  <1>2. savings \in Nat /\ taken \in Nat /\ savings + taken = Savings BY DEF TypeOK
  <1>3. CASE Becomes(d, "failed") /\ UNCHANGED <<savings, taken>>
    <2>1. PICK e : Serves(d, e) /\ e.at = "failed" BY <1>3, BecomesView
    <2>2. TypeOK' BY <1>3, <2>1, ServesTyped DEF DebitWallet, TypeOK
    <2>3. QED BY <1>3, <2>1, <2>2 DEF DebitWallet
  <1>4. CASE /\ savings >= d.amount /\ Becomes(d, "read")
             /\ savings' = savings - d.amount /\ taken' = taken + d.amount
    <2>1. PICK e : Serves(d, e) /\ e.at = "read" BY <1>4, BecomesView
    <2>2. savings' \in Nat /\ taken' \in Nat /\ savings' + taken' = Savings
      BY <1>1, <1>2, <1>4
    <2>3. TypeOK' BY <2>1, <2>2, ServesTyped DEF DebitWallet, TypeOK
    <2>4. QED BY <1>4, <2>1, <2>3 DEF DebitWallet
  <1>5. QED BY <1>3, <1>4 DEF DebitWallet

LEMMA AddReadView ==
    ASSUME TypeOK, NEW d \in debits, AddRead(d)
    PROVE  /\ TypeOK' /\ d.at = "read"
           /\ UNCHANGED <<row, phase, cache, calls, jobs, world, history>>
           /\ \E e : Serves(d, e) /\ e.at = "add" /\ e.read = row.received
  <1>1. d \in Debits BY DEF TypeOK
  <1>2. PICK n \in Nat : n = row.received BY RowTyped
  <1>3. PICK e : e = [d EXCEPT !.at = "add", !.read = n] OBVIOUS
  <1>4. /\ e \in Debits /\ e.at = "add" /\ e.call = d.call /\ e.try = d.try
        /\ e.amount = d.amount /\ e.read = n
    BY <1>1, <1>3 DEF Debits
  <1>5. debits' = (debits \ {d}) \union {e} BY <1>2, <1>3 DEF AddRead
  <1>6. Serves(d, e) BY <1>1, <1>4, <1>5 DEF Serves
  <1>7. TypeOK' BY <1>6, ServesTyped DEF AddRead, TypeOK, world, history
  <1>8. QED BY <1>2, <1>4, <1>6, <1>7 DEF AddRead

\* A write of the sum alone.
LEMMA ReceivedTyped ==
    ASSUME TypeOK, NEW n \in Nat, row' = [row EXCEPT !.received = n]
    PROVE  /\ row' \in Rows /\ row'.received = n /\ row'.status = row.status
           /\ row'.extended = row.extended /\ row'.active = row.active
           /\ row'.days = row.days /\ row'.shift = row.shift
  BY DEF TypeOK, Rows

LEMMA AddWriteView ==
    ASSUME TypeOK, NEW d \in debits, AddWrite(d)
    PROVE  /\ TypeOK' /\ d.at = "add"
           /\ row'.received = d.read + d.amount /\ row'.status = row.status
           /\ row'.extended = row.extended /\ row'.active = row.active
           /\ row'.days = row.days /\ row'.shift = row.shift
           /\ UNCHANGED <<phase, cache, calls, jobs, world, history>>
           /\ \E e : Serves(d, e) /\ e.at = "drop"
  <1>1. d \in Debits /\ d.read \in Nat /\ d.amount \in 1 .. Target
    BY DEF TypeOK, Debits
  <1>2. PICK n \in Nat : n = d.read + d.amount BY <1>1, LifecycleAssumption
  <1>3. PICK e : Serves(d, e) /\ e.at = "drop" BY BecomesView DEF AddWrite
  <1>4. /\ row' \in Rows /\ row'.received = n /\ row'.status = row.status
        /\ row'.extended = row.extended /\ row'.active = row.active
        /\ row'.days = row.days /\ row'.shift = row.shift
    BY <1>2, ReceivedTyped DEF AddWrite
  <1>5. TypeOK' BY <1>3, <1>4, ServesTyped DEF AddWrite, TypeOK, world, history
  <1>6. QED BY <1>2, <1>3, <1>4, <1>5 DEF AddWrite

LEMMA AddDropView ==
    ASSUME TypeOK, NEW d \in debits, AddDrop(d)
    PROVE  /\ TypeOK' /\ d.at = "drop" /\ cache' = None
           /\ UNCHANGED <<row, phase, calls, jobs, world, taken, spoiled, torn, missed>>
           /\ \E e : Serves(d, e) /\ e.at = "ok"
  <1>1. PICK e : Serves(d, e) /\ e.at = "ok" BY BecomesView DEF AddDrop
  <1>2. TypeOK' BY <1>1, ServesTyped DEF AddDrop, TypeOK, world
  <1>3. QED BY <1>1, <1>2 DEF AddDrop

LEMMA AddFailsView ==
    ASSUME TypeOK, NEW d \in debits, AddFails(d)
    PROVE  /\ TypeOK' /\ d.at \in {"read", "add"}
           /\ torn' = torn \union {"lost"}
           /\ UNCHANGED <<row, phase, cache, calls, jobs, given, taken, outdated, spoiled, missed>>
           /\ \E e : Serves(d, e) /\ e.at = "ok"
  <1>1. PICK e : Serves(d, e) /\ e.at = "ok" BY BecomesView DEF AddFails
  <1>2. plan' \in Plans
    BY FaultTyped DEF AddFails, TypeOK
  <1>3. TypeOK' BY <1>1, <1>2, ServesTyped DEF AddFails, TypeOK
  <1>4. QED BY <1>1, <1>3 DEF AddFails

LEMMA AddAgainView ==
    ASSUME TypeOK, NEW d \in debits, AddAgain(d)
    PROVE  /\ TypeOK' /\ d.at = "drop" /\ "again" \in torn'
           /\ UNCHANGED <<row, phase, cache, calls, jobs, given, taken, outdated, spoiled, missed>>
           /\ \E e : Serves(d, e) /\ e.at = "read"
  <1>1. PICK e : Serves(d, e) /\ e.at = "read" BY BecomesView DEF AddAgain
  <1>2. TypeOK' BY <1>1, FaultTyped, ServesTyped DEF AddAgain, TypeOK
  <1>3. QED BY <1>1, <1>2 DEF AddAgain

LEMMA UnheardView ==
    ASSUME TypeOK, NEW d \in debits, Unheard(d)
    PROVE  /\ TypeOK' /\ d.at \in {"ok", "failed"} /\ debits' = debits \ {d}
           /\ UNCHANGED <<row, phase, cache, calls, jobs, world, history>>
  <1>1. TypeOK' BY DEF Unheard, TypeOK, world, history
  <1>2. QED BY <1>1 DEF Unheard

LEMMA DonateView ==
    ASSUME TypeOK, Donate
    PROVE  /\ TypeOK' /\ row.status = "ACTIVE" /\ given' = given + 1
           /\ row'.received = row.received + 1 /\ row'.status = row.status
           /\ row'.extended = row.extended /\ row'.active = row.active
           /\ row'.days = row.days /\ row'.shift = row.shift
           /\ UNCHANGED <<phase, cache, calls, jobs, debits, history>>
  <1>1. PICK n \in Nat : n = row.received + 1 BY RowTyped
  <1>2. /\ row' \in Rows /\ row'.received = n /\ row'.status = row.status
        /\ row'.extended = row.extended /\ row'.active = row.active
        /\ row'.days = row.days /\ row'.shift = row.shift
    <2>1. row' = [row EXCEPT !.received = n] BY <1>1 DEF Donate
    <2>2. QED BY <2>1, ReceivedTyped
  <1>3. given' \in Nat BY DEF Donate, TypeOK
  <1>4. TypeOK' BY <1>2, <1>3 DEF Donate, TypeOK, history
  <1>5. QED BY <1>1, <1>2, <1>4 DEF Donate

LEMMA ExpireView ==
    ASSUME TypeOK, Expire
    PROVE  /\ TypeOK' /\ cache' = None
           /\ UNCHANGED <<row, phase, calls, jobs, debits, world, taken, spoiled, torn, missed>>
  BY DEF Expire, TypeOK, world

LEMMA MidnightView ==
    ASSUME TypeOK, Midnight
    PROVE  /\ TypeOK' /\ \A j \in Jobs : jobs'[j].at = "find"
           /\ UNCHANGED <<row, phase, cache, calls, debits, savings, given, plan, history>>
  <1>1. PICK n : n = [NoJob EXCEPT !.at = "find"] OBVIOUS
  <1>2. n \in JobTypes /\ n.at = "find" BY <1>1, BlankTyped DEF NoJob, JobTypes
  <1>3. jobs' = [j \in Jobs |-> n] BY <1>1 DEF Midnight
  <1>4. jobs' \in [Jobs -> JobTypes] /\ \A j \in Jobs : jobs'[j].at = "find"
    BY <1>2, <1>3
  <1>5. day' \in Int /\ day' <= MaxDay
    BY LifecycleAssumption DEF Midnight, TypeOK, Least
  <1>6. TypeOK' BY <1>4, <1>5 DEF Midnight, TypeOK, history
  <1>7. QED BY <1>4, <1>6 DEF Midnight

LEMMA FindView ==
    ASSUME TypeOK, NEW j \in Jobs, Find(j)
    PROVE  /\ TypeOK' /\ \A i \in Jobs : i # j => jobs'[i] = jobs[i]
           /\ \/ jobs'[j].at = "idle"
              \/ /\ row.active /\ Due(j) /\ jobs'[j].at = "write"
                 /\ jobs'[j].seen = Copy(row) /\ jobs'[j].old = FALSE
           /\ UNCHANGED <<row, phase, cache, calls, debits, world, history>>
  <1>1. PICK n : n = IF row.active /\ Due(j)
                     THEN [at |-> "write", seen |-> Copy(row), old |-> FALSE] ELSE NoJob
    OBVIOUS
  <1>2. Copy(row) \in Copies BY CopyTyped DEF TypeOK
  <1>3. n \in JobTypes BY <1>1, <1>2, BlankTyped DEF JobTypes
  <1>4. \/ n.at = "idle"
        \/ row.active /\ Due(j) /\ n.at = "write" /\ n.seen = Copy(row) /\ n.old = FALSE
    BY <1>1, BlankTyped
  <1>5. jobs' = [jobs EXCEPT ![j] = n] BY <1>1 DEF Find
  <1>6. /\ jobs' \in [Jobs -> JobTypes] /\ jobs'[j] = n
        /\ \A i \in Jobs : i # j => jobs'[i] = jobs[i]
    BY <1>3, <1>5 DEF TypeOK
  <1>7. TypeOK' BY <1>6 DEF Find, TypeOK, world, history
  <1>8. QED BY <1>4, <1>6, <1>7 DEF Find

LEMMA PastView ==
    ASSUME TypeOK, CallsChecked, NEW s \in Statuses, WritesPast(s)
    PROVE  /\ calls' \in [Calls -> CallTypes] /\ CallsChecked' /\ OthersAge(None)
           /\ row' \in Rows /\ row'.status = s /\ row'.active = row.active
           /\ row'.received = row.received /\ row'.extended = row.extended
           /\ row'.days = row.days /\ row'.shift = row.shift
           /\ outdated' = (outdated \/ cache # None) /\ outdated' \in BOOLEAN
  <1>1. calls' \in [Calls -> CallTypes] /\ CallsChecked' /\ OthersAge(None)
    BY AgedView, BlankTyped DEF WritesPast
  <1>2. PICK r : r = [row EXCEPT !.status = s] OBVIOUS
  <1>3. /\ r \in Rows /\ r.status = s /\ r.received = row.received
        /\ r.active = row.active /\ r.extended = row.extended
        /\ r.days = row.days /\ r.shift = row.shift
    BY <1>2 DEF TypeOK, Rows
  <1>4. row' = r BY <1>2 DEF WritesPast
  <1>5. outdated' = (outdated \/ cache # None) /\ outdated' \in BOOLEAN
    BY DEF WritesPast, TypeOK
  <1>6. QED BY <1>1, <1>3, <1>4, <1>5

LEMMA JobWriteView ==
    ASSUME TypeOK, CallsChecked, NEW j \in Jobs, JobWrite(j)
    PROVE  /\ TypeOK' /\ CallsChecked' /\ OthersAge(None)
           /\ jobs[j].at = "write" /\ jobs'[j].at = "idle"
           /\ \A i \in Jobs : i # j /\ jobs'[i].at = "write" =>
                jobs[i].at = "write" /\ jobs'[i].seen = jobs[i].seen /\ jobs'[i].old = TRUE
           /\ row.active /\ row'.active /\ row'.status = NewStatus(j, jobs[j].seen)
           /\ row'.received = row.received /\ row'.extended = row.extended
           /\ row'.days = row.days /\ row'.shift = row.shift
           /\ outdated' = (outdated \/ cache # None)
           /\ spoiled' = (spoiled \/ jobs[j].old) /\ spoiled' \in BOOLEAN
           /\ UNCHANGED <<phase, cache, debits, world, taken, torn, missed>>
  <1>2. PICK s \in Statuses : s = NewStatus(j, jobs[j].seen)
    BY DEF NewStatus, Statuses, Jobs
  <1>3. WritesPast(s) BY <1>2 DEF JobWrite
  <1>4. /\ calls' \in [Calls -> CallTypes] /\ CallsChecked' /\ OthersAge(None)
        /\ row' \in Rows /\ row'.status = s /\ row'.active = row.active
        /\ row'.received = row.received /\ row'.extended = row.extended
        /\ row'.days = row.days /\ row'.shift = row.shift
        /\ outdated' = (outdated \/ cache # None) /\ outdated' \in BOOLEAN
    BY <1>3, PastView
  <1>6. PICK aged : aged = AgedJobs OBVIOUS
  <1>7. aged \in [Jobs -> JobTypes]
        /\ \A i \in Jobs : /\ aged[i].at = jobs[i].at /\ aged[i].seen = jobs[i].seen
                           /\ jobs[i].at = "write" => aged[i].old = TRUE
    <2>1. ASSUME NEW i \in Jobs
          PROVE  /\ aged[i] \in JobTypes /\ aged[i].at = jobs[i].at
                 /\ aged[i].seen = jobs[i].seen /\ (jobs[i].at = "write" => aged[i].old = TRUE)
      <3>1. jobs[i] \in JobTypes BY DEF TypeOK
      <3>2. CASE jobs[i].at = "write"
        <4>1. aged[i] = [jobs[i] EXCEPT !.old = TRUE] BY <1>6, <3>2 DEF AgedJobs
        <4>2. QED BY <3>1, <4>1, JobAges
      <3>3. CASE jobs[i].at # "write" BY <1>6, <3>1, <3>3 DEF AgedJobs
      <3>4. QED BY <3>2, <3>3
    <2>2. aged = [i \in Jobs |-> aged[i]] BY <1>6 DEF AgedJobs
    <2>3. QED BY <2>1, <2>2
  <1>8. jobs' = [aged EXCEPT ![j] = NoJob] BY <1>6 DEF JobWrite
  <1>9. /\ jobs' \in [Jobs -> JobTypes] /\ jobs'[j].at = "idle"
        /\ \A i \in Jobs : i # j => jobs'[i] = aged[i]
    BY <1>7, <1>8, BlankTyped
  <1>10. TypeOK' BY <1>4, <1>9 DEF JobWrite, TypeOK, world
  <1>11. QED BY <1>2, <1>4, <1>7, <1>9, <1>10 DEF JobWrite

LEMMA JobErrorView ==
    ASSUME TypeOK, NEW j \in Jobs, JobError(j)
    PROVE  /\ TypeOK' /\ jobs'[j].at = "idle" /\ \A i \in Jobs : i # j => jobs'[i] = jobs[i]
           /\ UNCHANGED <<row, phase, cache, calls, debits, given, history>>
  <1>1. /\ jobs' \in [Jobs -> JobTypes] /\ jobs'[j].at = "idle"
        /\ \A i \in Jobs : i # j => jobs'[i] = jobs[i]
    BY BlankTyped DEF JobError, TypeOK
  <1>2. plan' \in Plans
    BY FaultTyped DEF JobError, TypeOK
  <1>3. TypeOK' BY <1>1, <1>2 DEF JobError, TypeOK, history
  <1>4. QED BY <1>1, <1>3 DEF JobError

\* The writers beside the campaign's own services.
LEMMA SettleView ==
    ASSUME TypeOK, CallsChecked, Settle
    PROVE  /\ TypeOK' /\ CallsChecked' /\ OthersAge(None) /\ JobsAge
           /\ row.status = "ACTIVE" /\ row'.status = "PROCESSING" /\ row'.active = row.active
           /\ row'.received = row.received /\ row'.extended = row.extended
           /\ row'.days = row.days /\ row'.shift = row.shift
           /\ outdated' = (outdated \/ cache # None)
           /\ UNCHANGED <<phase, cache, debits, world, taken, spoiled, torn, missed>>
  <1>1. "PROCESSING" \in Statuses BY DEF Statuses
  <1>2. WritesPast("PROCESSING") /\ jobs' = AgedJobs BY DEF Settle
  <1>3. jobs' \in [Jobs -> JobTypes] /\ JobsAge BY <1>2, AgedJobsView
  <1>4. /\ calls' \in [Calls -> CallTypes] /\ CallsChecked' /\ OthersAge(None)
        /\ row' \in Rows /\ row'.status = "PROCESSING" /\ row'.active = row.active
        /\ row'.received = row.received /\ row'.extended = row.extended
        /\ row'.days = row.days /\ row'.shift = row.shift
        /\ outdated' = (outdated \/ cache # None) /\ outdated' \in BOOLEAN
    BY <1>1, <1>2, PastView
  <1>5. TypeOK' BY <1>3, <1>4 DEF Settle, TypeOK, world
  <1>6. QED BY <1>3, <1>4, <1>5 DEF Settle, Settles

LEMMA AcceptView ==
    ASSUME TypeOK, CallsChecked, AcceptCampaign
    PROVE  /\ TypeOK' /\ CallsChecked' /\ OthersAge(None) /\ JobsAge
           /\ row.active /\ row'.status = "ACTIVE" /\ row'.active = row.active
           /\ row'.received = row.received /\ row'.extended = row.extended
           /\ row'.days = row.days /\ row'.shift = row.shift
           /\ offer = "open" /\ offer' = "taken" /\ missed' = (missed \/ AllFinished)
           /\ outdated' = (outdated \/ cache # None)
           /\ UNCHANGED <<phase, cache, debits, given, taken, spoiled, torn>>
  <1>1. "ACTIVE" \in Statuses BY DEF Statuses
  <1>2. WritesPast("ACTIVE") /\ jobs' = AgedJobs BY DEF AcceptCampaign
  <1>3. jobs' \in [Jobs -> JobTypes] /\ JobsAge BY <1>2, AgedJobsView
  <1>4. /\ calls' \in [Calls -> CallTypes] /\ CallsChecked' /\ OthersAge(None)
        /\ row' \in Rows /\ row'.status = "ACTIVE" /\ row'.active = row.active
        /\ row'.received = row.received /\ row'.extended = row.extended
        /\ row'.days = row.days /\ row'.shift = row.shift
        /\ outdated' = (outdated \/ cache # None) /\ outdated' \in BOOLEAN
    BY <1>1, <1>2, PastView
  <1>5. missed' \in BOOLEAN /\ missed' = (missed \/ AllFinished)
    BY DEF AcceptCampaign, TypeOK
  <1>6. TypeOK' BY <1>3, <1>4, <1>5 DEF AcceptCampaign, TypeOK
  <1>7. QED BY <1>3, <1>4, <1>5, <1>6 DEF AcceptCampaign

\* A surplus is found, a settlement or an offer begins or ends: the campaign stays.
Aside == FindSurplus \/ SettlementEnds \/ OfferCampaign

LEMMA AsideView ==
    ASSUME TypeOK, Aside
    PROVE  TypeOK' /\ UNCHANGED <<row, phase, cache, calls, jobs, debits, given, history>>
  <1>1. CASE FindSurplus BY <1>1 DEF FindSurplus, TypeOK, history
  <1>2. CASE SettlementEnds BY <1>2 DEF SettlementEnds, TypeOK, history
  <1>3. CASE OfferCampaign BY <1>3 DEF OfferCampaign, TypeOK, history
  <1>4. QED BY <1>1, <1>2, <1>3 DEF Aside

LEMMA TypeInit == Init => TypeOK /\ CallsChecked
  <1> SUFFICES ASSUME Init PROVE TypeOK /\ CallsChecked OBVIOUS
  <1>1. plan \in Plans
    BY LifecycleAssumption DEF Init
  <1>2. plan.begin \in {"PENDING", "ACTIVE", "PROCESSING"} BY <1>1 DEF Plans
  <1>3. row \in Rows
    BY <1>2, LifecycleAssumption DEF Init, Rows, Statuses
  <1>4. day \in Int /\ day <= MaxDay
    BY LifecycleAssumption DEF Init
  <1>5. calls \in [Calls -> CallTypes] /\ jobs \in [Jobs -> JobTypes] /\ CallsChecked
    BY BlankTyped DEF Init, CallsChecked
  <1>6. phase \in [Phases -> {"open", "finished", "cancelled"}] BY DEF Init
  <1>7. savings \in Nat /\ taken \in Nat /\ savings + taken = Savings /\ given \in Nat
    BY LifecycleAssumption DEF Init
  <1>8. debits \subseteq Debits /\ torn \subseteq {"lost", "again", "resent", "left"}
    BY DEF Init
  <1>9. cache \in {None} \union Copies /\ outdated \in BOOLEAN /\ spoiled \in BOOLEAN
        /\ missed \in BOOLEAN /\ surplus \in BOOLEAN /\ offer \in {"none", "open", "taken"}
    BY DEF Init
  <1>10. QED BY <1>1, <1>3, <1>4, <1>5, <1>6, <1>7, <1>8, <1>9 DEF TypeOK

LEMMA TypeStep ==
    ASSUME TypeOK, CallsChecked, [Next]_vars
    PROVE  TypeOK' /\ CallsChecked'
  <1> USE DEF CallsChecked
  <1>1. ASSUME NEW c \in Calls, Receive(c) PROVE TypeOK' /\ CallsChecked' BY <1>1, ReceiveView
  <1>2. ASSUME NEW c \in Calls, LookupHit(c) PROVE TypeOK' /\ CallsChecked' BY <1>2, LookupHitView
  <1>3. ASSUME NEW c \in Calls, LookupMiss(c) PROVE TypeOK' /\ CallsChecked' BY <1>3, LookupMissView
  <1>4. ASSUME NEW c \in Calls, Fill(c) PROVE TypeOK' /\ CallsChecked' BY <1>4, FillView
  <1>5. ASSUME NEW c \in Calls, NotFound(c) PROVE TypeOK' /\ CallsChecked' BY <1>5, NotFoundView
  <1>6. ASSUME NEW c \in Calls, Change(c) PROVE TypeOK' /\ CallsChecked' BY <1>6, ChangeView
  <1>7. ASSUME NEW c \in Calls, Put(c) PROVE TypeOK' /\ CallsChecked' BY <1>7, PutView
  <1>8. ASSUME NEW c \in Calls, Update(c) PROVE TypeOK' /\ CallsChecked'
    BY <1>8, UpdateView DEF Written
  <1>9. ASSUME NEW c \in Calls, Extend(c) PROVE TypeOK' /\ CallsChecked'
    BY <1>9, ExtendView DEF Written
  <1>10. ASSUME NEW c \in Calls, Delete(c) PROVE TypeOK' /\ CallsChecked'
    BY <1>10, DeleteView DEF Written
  <1>11. ASSUME NEW c \in Calls, Finish(c) PROVE TypeOK' /\ CallsChecked'
    BY <1>11, FinishView DEF StatusSet, Written
  <1>12. ASSUME NEW c \in Calls, Revert(c) PROVE TypeOK' /\ CallsChecked'
    BY <1>12, RevertView DEF StatusSet, Written
  <1>13. ASSUME NEW c \in Calls, Sync(c) PROVE TypeOK' /\ CallsChecked' BY <1>13, SyncView
  <1>14. ASSUME NEW c \in Calls, SetPhase(c) PROVE TypeOK' /\ CallsChecked' BY <1>14, SetPhaseView
  <1>15. ASSUME NEW c \in Calls, Drop(c) PROVE TypeOK' /\ CallsChecked'
    BY <1>15, DropView DEF Dropped
  <1>16. ASSUME NEW c \in Calls, DropSkipped(c) PROVE TypeOK' /\ CallsChecked'
    BY <1>16, DropSkippedView DEF Dropped
  <1>17. ASSUME NEW c \in Calls, LookAtPhases(c) PROVE TypeOK' /\ CallsChecked'
    BY <1>17, LookAtPhasesView
  <1>18. ASSUME NEW c \in Calls, Balance(c) PROVE TypeOK' /\ CallsChecked' BY <1>18, BalanceView
  <1>19. ASSUME NEW c \in Calls, Answer(c) PROVE TypeOK' /\ CallsChecked' BY <1>19, AnswerView
  <1>20. ASSUME NEW c \in Calls, Late(c) PROVE TypeOK' /\ CallsChecked' BY <1>20, LateView
  <1>21. ASSUME NEW c \in Calls, CallError(c) PROVE TypeOK' /\ CallsChecked' BY <1>21, CallErrorView
  <1>22. CASE Crash BY <1>22, CrashView
  <1>23. ASSUME NEW d \in debits, DebitWallet(d) PROVE TypeOK' /\ CallsChecked'
    BY <1>23, DebitWalletView
  <1>24. ASSUME NEW d \in debits, AddRead(d) PROVE TypeOK' /\ CallsChecked' BY <1>24, AddReadView
  <1>25. ASSUME NEW d \in debits, AddWrite(d) PROVE TypeOK' /\ CallsChecked' BY <1>25, AddWriteView
  <1>26. ASSUME NEW d \in debits, AddDrop(d) PROVE TypeOK' /\ CallsChecked' BY <1>26, AddDropView
  <1>27. ASSUME NEW d \in debits, AddFails(d) PROVE TypeOK' /\ CallsChecked' BY <1>27, AddFailsView
  <1>28. ASSUME NEW d \in debits, AddAgain(d) PROVE TypeOK' /\ CallsChecked' BY <1>28, AddAgainView
  <1>29. ASSUME NEW d \in debits, Unheard(d) PROVE TypeOK' /\ CallsChecked' BY <1>29, UnheardView
  <1>30. CASE Donate BY <1>30, DonateView
  <1>31. CASE Expire BY <1>31, ExpireView
  <1>32. CASE Midnight BY <1>32, MidnightView
  <1>33. ASSUME NEW j \in Jobs, Find(j) PROVE TypeOK' /\ CallsChecked' BY <1>33, FindView
  <1>34. ASSUME NEW j \in Jobs, JobWrite(j) PROVE TypeOK' /\ CallsChecked' BY <1>34, JobWriteView
  <1>35. ASSUME NEW j \in Jobs, JobError(j) PROVE TypeOK' /\ CallsChecked' BY <1>35, JobErrorView
  <1>36. CASE UNCHANGED vars BY <1>36 DEF vars, world, history, TypeOK
  <1>37. CASE Settle BY <1>37, SettleView
  <1>38. CASE AcceptCampaign BY <1>38, AcceptView
  <1>39. CASE Aside BY <1>39, AsideView
  <1> HIDE DEF CallsChecked
  <1>40. QED
    BY <1>1, <1>2, <1>3, <1>4, <1>5, <1>6, <1>7, <1>8, <1>9, <1>10, <1>11, <1>12, <1>13,
       <1>14, <1>15, <1>16, <1>17, <1>18, <1>19, <1>20, <1>21, <1>22, <1>23, <1>24, <1>25,
       <1>26, <1>27, <1>28, <1>29, <1>30, <1>31, <1>32, <1>33, <1>34, <1>35, <1>36, <1>37,
       <1>38, <1>39, Zenon
       DEF Next, Handle, Serve, Run, Aside

\* The types of every variable in every reachable state, for any number of handlers,
\* phases, donations and faults; with it, what the checks of a handler leave it with.
THEOREM CampaignTypeCorrect == Spec => []TypeOK
  BY TypeInit, TypeStep, PTL DEF Spec

-----------------------------------------------------------------------------
(* Readings and the copy in Redis.                                         *)

SameRow == row'.active = row.active /\ row'.status = row.status /\ row'.extended = row.extended

\* What a reading of handler c must show after the step.
Shows(c) ==
    Reading(c)' /\ ~calls'[c].old =>
        /\ row'.active
        /\ calls'[c].seen.status = row'.status /\ calls'[c].seen.extended = row'.extended

LEMMA ReadingsMove ==
    ASSUME ReadingIsRow, NEW c \in Calls, SameRow, OthersStay(c), Shows(c)
    PROVE  ReadingIsRow'
  <1>1. ASSUME NEW d \in Calls PROVE Shows(d)
    <2>1. CASE d = c BY <2>1
    <2>2. CASE d # c BY <2>2 DEF ReadingIsRow, SameRow, OthersStay, Shows, Reading
    <2>3. QED BY <2>1, <2>2
  <1>2. QED BY <1>1 DEF Shows, ReadingIsRow

LEMMA ReadingsAge ==
    ASSUME NEW c, c \in Calls \/ c = None, OthersAge(c), c \in Calls => ~Reading(c)'
    PROVE  ReadingIsRow'
  <1>1. ASSUME NEW d \in Calls, Reading(d)' PROVE calls'[d].old = TRUE
    <2>1. d # c BY <1>1
    <2>2. calls[d].at \notin {"idle", "lookup"} BY <1>1, <2>1 DEF OthersAge, Reading
    <2>3. QED BY <2>1, <2>2 DEF OthersAge
  <1>2. QED BY <1>1 DEF ReadingIsRow

LEMMA ReadingsStay ==
    ASSUME ReadingIsRow, SameRow, UNCHANGED calls
    PROVE  ReadingIsRow'
  BY DEF ReadingIsRow, SameRow, Reading

LEMMA CopyStays ==
    ASSUME CopyIsCurrent, NEW c \in Calls, SameRow, OthersStay(c), UNCHANGED cache,
           outdated => outdated', cache # None /\ InWriting(c) => InWriting(c)' \/ outdated'
    PROVE  CopyIsCurrent'
  <1>1. ASSUME cache # None, ~outdated', \A d \in Calls : ~InWriting(d)'
        PROVE  ~outdated /\ \A d \in Calls : ~InWriting(d)
    <2>1. ASSUME NEW d \in Calls, InWriting(d) PROVE FALSE
      <3>1. CASE d = c BY <1>1, <2>1, <3>1
      <3>2. CASE d # c BY <1>1, <2>1, <3>2 DEF OthersStay, InWriting
      <3>3. QED BY <3>1, <3>2
    <2>2. QED BY <1>1, <2>1
  <1>2. QED BY <1>1 DEF CopyIsCurrent, SameRow

LEMMA CopyWaits ==
    ASSUME NEW c \in Calls, InWriting(c)'
    PROVE  CopyIsCurrent'
  BY DEF CopyIsCurrent

LEMMA CopySame ==
    ASSUME CopyIsCurrent, SameRow, UNCHANGED <<calls, cache, outdated>>
    PROVE  CopyIsCurrent'
  BY DEF CopyIsCurrent, SameRow, InWriting

Current == ReadingIsRow /\ CopyIsCurrent

LEMMA WrittenCurrent ==
    ASSUME NEW c \in Calls, NEW step \in {"drop", "dropAgain"}, NEW r, Written(c, step, r),
           step = "drop" => calls[c].op # "sync"
    PROVE  Current'
  <1>1. ~Reading(c)' /\ InWriting(c)' BY DEF Written, Reading, InWriting
  <1>2. OthersAge(c) BY DEF Written
  <1>3. QED BY <1>1, <1>2, ReadingsAge, CopyWaits DEF Current

LEMMA CurrentStep ==
    ASSUME TypeOK, CallsChecked, Current, [Next]_vars
    PROVE  Current'
  <1> USE DEF Current
  <1>1. ASSUME NEW c \in Calls, Receive(c) PROVE Current'
    <2>1. SameRow /\ OthersStay(c) /\ UNCHANGED <<cache, outdated>> /\ Shows(c) /\ ~InWriting(c)
      BY <1>1, ReceiveView DEF SameRow, Shows, Reading, InWriting, history
    <2>2. QED BY <2>1, ReadingsMove, CopyStays
  <1>2. ASSUME NEW c \in Calls, LookupHit(c) PROVE Current'
    <2>1. SameRow /\ OthersStay(c) /\ UNCHANGED <<cache, outdated>> /\ ~InWriting(c) /\ cache # None
      BY <1>2, LookupHitView DEF LookupHit, SameRow, InWriting
    <2>2. Shows(c)
      <3>1. CASE calls'[c] = NoCall BY <3>1, BlankTyped DEF Shows, Reading
      <3>2. CASE calls'[c].seen = cache /\ (~calls'[c].old => ~outdated /\ \A d \in Calls \ {c} : ~InWriting(d))
        BY <2>1, <3>2 DEF Shows, CopyIsCurrent, SameRow
      <3>3. QED BY <1>2, <3>1, <3>2, LookupHitView
    <2>3. QED BY <2>1, <2>2, ReadingsMove, CopyStays
  <1>3. ASSUME NEW c \in Calls, LookupMiss(c) PROVE Current'
    <2>1. SameRow /\ OthersStay(c) /\ UNCHANGED <<cache, outdated>> /\ ~InWriting(c)
      BY <1>3, LookupMissView DEF LookupMiss, SameRow, InWriting, history
    <2>2. Shows(c)
      <3>1. CASE calls'[c] = NoCall BY <3>1, BlankTyped DEF Shows, Reading
      <3>2. CASE row.active /\ calls'[c].seen = Copy(row)
        BY <2>1, <3>2 DEF Shows, Copy, SameRow
      <3>3. QED BY <1>3, <3>1, <3>2, LookupMissView
    <2>3. QED BY <2>1, <2>2, ReadingsMove, CopyStays
  <1>4. ASSUME NEW c \in Calls, Fill(c) PROVE Current'
    <2>1. SameRow /\ OthersStay(c) /\ calls[c].at = "fill" /\ UNCHANGED row
      BY <1>4, FillView DEF Fill, SameRow
    <2>2. Shows(c)
      <3>1. CASE calls'[c] = NoCall BY <3>1, BlankTyped DEF Shows, Reading
      <3>2. CASE calls'[c].seen = calls[c].seen /\ calls'[c].old = calls[c].old
        BY <2>1, <3>2 DEF Shows, ReadingIsRow, Reading
      <3>3. QED BY <1>4, <3>1, <3>2, FillView
    <2>3. CopyIsCurrent'
      BY <1>4, <2>1, FillView DEF CopyIsCurrent, ReadingIsRow, Reading
    <2>4. QED BY <2>1, <2>2, <2>3, ReadingsMove
  <1>5. ASSUME NEW c \in Calls, NotFound(c) PROVE Current'
    <2>1. SameRow /\ OthersStay(c) /\ UNCHANGED <<cache, outdated>> /\ Shows(c) /\ ~InWriting(c)
      BY <1>5, NotFoundView, BlankTyped DEF NotFound, SameRow, Shows, Reading, InWriting
    <2>2. QED BY <2>1, ReadingsMove, CopyStays
  <1>6. ASSUME NEW c \in Calls, Change(c) PROVE Current'
    <2>1. ~Reading(c)' /\ InWriting(c)' /\ OthersAge(c)
      BY <1>6, ChangeView DEF Reading, InWriting
    <2>2. QED BY <2>1, ReadingsAge, CopyWaits
  <1>7. ASSUME NEW c \in Calls, Put(c) PROVE Current'
    <2>1. SameRow /\ OthersStay(c) /\ Shows(c) /\ InWriting(c)'
      BY <1>7, PutView DEF Put, SameRow, Shows, Reading, InWriting
    <2>2. QED BY <2>1, ReadingsMove, CopyWaits
  <1>8. ASSUME NEW c \in Calls, Update(c) PROVE Current'
    <2>1. Written(c, "drop", row') /\ calls[c].op # "sync" BY <1>8, UpdateView
    <2>2. QED BY <2>1, WrittenCurrent
  <1>9. ASSUME NEW c \in Calls, Extend(c) PROVE Current'
    <2>1. Written(c, "drop", row') /\ calls[c].op # "sync" BY <1>9, ExtendView
    <2>2. QED BY <2>1, WrittenCurrent
  <1>10. ASSUME NEW c \in Calls, Delete(c) PROVE Current'
    <2>1. Written(c, "drop", row') /\ calls[c].op # "sync" BY <1>10, DeleteView
    <2>2. QED BY <2>1, WrittenCurrent
  <1>11. ASSUME NEW c \in Calls, Finish(c) PROVE Current'
    <2>1. Written(c, "drop", row') /\ calls[c].op # "sync" BY <1>11, FinishView DEF StatusSet
    <2>2. QED BY <2>1, WrittenCurrent
  <1>12. ASSUME NEW c \in Calls, Revert(c) PROVE Current'
    <2>1. Written(c, "dropAgain", row') BY <1>12, RevertView DEF StatusSet
    <2>2. QED BY <2>1, WrittenCurrent
  <1>13. ASSUME NEW c \in Calls, Sync(c) PROVE Current'
    <2>1. SameRow /\ OthersStay(c) /\ InWriting(c)' BY <1>13, SyncView DEF Sync, SameRow, InWriting
    <2>2. Shows(c)
      BY <1>13, SyncView DEF Sync, Shows, ReadingIsRow, Reading
    <2>3. QED BY <2>1, <2>2, ReadingsMove, CopyWaits
  <1>14. ASSUME NEW c \in Calls, SetPhase(c) PROVE Current'
    <2>1. SameRow /\ OthersStay(c) /\ Shows(c) /\ InWriting(c)'
      BY <1>14, SetPhaseView DEF SetPhase, SameRow, Shows, Reading, InWriting
    <2>2. QED BY <2>1, ReadingsMove, CopyWaits
  <1>15. ASSUME NEW c \in Calls, Dropped(c), UNCHANGED row, cache' = None \/ (cache' = cache /\ outdated' = (cache # None))
         PROVE Current'
    <2>1. SameRow /\ OthersStay(c) BY <1>15 DEF Dropped, SameRow
    <2>2. Shows(c)
      BY <1>15, BlankTyped DEF Dropped, Shows, ReadingIsRow, Reading
    <2>3. CopyIsCurrent' BY <1>15 DEF CopyIsCurrent
    <2>4. QED BY <2>1, <2>2, <2>3, ReadingsMove
  <1>16. ASSUME NEW c \in Calls, Drop(c) PROVE Current'
    BY <1>15, <1>16, DropView DEF Drop
  <1>17. ASSUME NEW c \in Calls, DropSkipped(c) PROVE Current'
    BY <1>15, <1>17, DropSkippedView DEF DropSkipped
  <1>18. ASSUME NEW c \in Calls, LookAtPhases(c) PROVE Current'
    <2>1. SameRow /\ OthersStay(c) /\ UNCHANGED <<cache, outdated>> /\ Shows(c) /\ ~InWriting(c)
      BY <1>18, LookAtPhasesView, BlankTyped
         DEF LookAtPhases, SameRow, Shows, Reading, InWriting, history
    <2>2. QED BY <2>1, ReadingsMove, CopyStays
  <1>19. ASSUME NEW c \in Calls, calls[c].at \in {"balance", "await"},
                calls'[c].seen = calls[c].seen, calls'[c].old = calls[c].old,
                OthersStay(c), UNCHANGED <<row, cache, outdated>>
         PROVE Current'
    <2>1. SameRow /\ ~InWriting(c) BY <1>19 DEF SameRow, InWriting
    <2>2. Shows(c) BY <1>19 DEF Shows, ReadingIsRow, Reading
    <2>3. QED BY <1>19, <2>1, <2>2, ReadingsMove, CopyStays
  <1>20. ASSUME NEW c \in Calls, Balance(c) PROVE Current'
    BY <1>19, <1>20, BalanceView DEF Balance, history
  <1>21. ASSUME NEW c \in Calls, Answer(c) PROVE Current'
    BY <1>19, <1>21, AnswerView DEF Answer, history
  <1>22. ASSUME NEW c \in Calls, Late(c) PROVE Current'
    BY <1>19, <1>22, LateView DEF Late
  <1>23. ASSUME NEW c \in Calls, CallError(c) PROVE Current'
    <2>1. /\ SameRow /\ OthersStay(c) /\ UNCHANGED cache /\ Shows(c) /\ (outdated => outdated')
          /\ cache # None /\ InWriting(c) => outdated'
      BY <1>23, CallErrorView, BlankTyped DEF CallError, SameRow, Shows, Reading
    <2>2. QED BY <2>1, ReadingsMove, CopyStays
  <1>24. CASE Crash
    <2>1. ReadingIsRow' BY <1>24, CrashView, BlankTyped DEF ReadingIsRow, Reading
    <2>2. UNCHANGED <<row, cache>> /\ (outdated => outdated')
          /\ (cache # None /\ (\E c \in Calls : InWriting(c)) => outdated')
      BY <1>24, CrashView DEF Crash
    <2>3. CopyIsCurrent' BY <2>2 DEF CopyIsCurrent
    <2>4. QED BY <2>1, <2>3
  <1>25. ASSUME SameRow, UNCHANGED calls, cache' = None \/ UNCHANGED <<cache, outdated>>
         PROVE Current'
    <2>1. ReadingIsRow' BY <1>25, ReadingsStay
    <2>2. CASE cache' = None BY <2>1, <2>2 DEF CopyIsCurrent
    <2>3. CASE UNCHANGED <<cache, outdated>> BY <1>25, <2>1, <2>3, CopySame
    <2>4. QED BY <1>25, <2>2, <2>3
  <1>26. ASSUME NEW d \in debits, DebitWallet(d) \/ AddRead(d) \/ AddFails(d) \/ AddAgain(d) \/ Unheard(d)
         PROVE Current'
    <2>1. UNCHANGED <<row, calls, cache, outdated>>
      BY <1>26 DEF DebitWallet, AddRead, AddFails, AddAgain, Unheard, history
    <2>2. QED BY <1>25, <2>1 DEF SameRow
  <1>27. ASSUME NEW d \in debits, AddWrite(d) PROVE Current'
    BY <1>25, <1>27, AddWriteView DEF SameRow, history
  <1>28. ASSUME NEW d \in debits, AddDrop(d) PROVE Current'
    BY <1>25, <1>28, AddDropView DEF SameRow
  <1>29. CASE Donate BY <1>25, <1>29, DonateView DEF SameRow, history
  <1>30. CASE Expire BY <1>25, <1>30, ExpireView DEF SameRow
  <1>31. CASE Midnight \/ \E j \in Jobs : Find(j) \/ JobError(j)
    <2>1. UNCHANGED <<row, calls, cache, outdated>>
      BY <1>31 DEF Midnight, Find, JobError, history
    <2>2. QED BY <1>25, <2>1 DEF SameRow
  <1>32. ASSUME NEW j \in Jobs, JobWrite(j) PROVE Current'
    <2>1. OthersAge(None) /\ UNCHANGED cache /\ outdated' = (outdated \/ cache # None)
      BY <1>32, JobWriteView
    <2>2. ReadingIsRow' BY <2>1, ReadingsAge, LifecycleAssumption
    <2>3. CopyIsCurrent' BY <2>1 DEF CopyIsCurrent
    <2>4. QED BY <2>2, <2>3
  <1>33. CASE UNCHANGED vars BY <1>25, <1>33 DEF SameRow, vars, history
  <1>34. CASE Settle \/ AcceptCampaign
    <2>1. OthersAge(None) /\ UNCHANGED cache /\ outdated' = (outdated \/ cache # None)
      BY <1>34, SettleView, AcceptView
    <2>2. ReadingIsRow' BY <2>1, ReadingsAge, LifecycleAssumption
    <2>3. CopyIsCurrent' BY <2>1 DEF CopyIsCurrent
    <2>4. QED BY <2>2, <2>3
  <1>35. CASE Aside BY <1>25, <1>35, AsideView DEF SameRow, history
  <1> HIDE DEF Current
  <1>36. QED
    BY <1>1, <1>2, <1>3, <1>4, <1>5, <1>6, <1>7, <1>8, <1>9, <1>10, <1>11, <1>12, <1>13,
       <1>14, <1>16, <1>17, <1>18, <1>20, <1>21, <1>22, <1>23, <1>24, <1>26, <1>27, <1>28,
       <1>29, <1>30, <1>31, <1>32, <1>33, <1>34, <1>35, Zenon
       DEF Next, Handle, Serve, Run, Aside

\* The copy in Redis is what the database holds, for any number of overlapping handlers,
\* jobs, settlements and faults, but while it has outlived a write of the jobs, of a
\* settlement or of the acceptance of a reassignment, which leave it alone.
THEOREM CopyStaysCurrent == Spec => []CopyIsCurrent
  <1>1. Init => Current BY BlankTyped DEF Init, Current, ReadingIsRow, Reading, CopyIsCurrent
  <1>2. Current => CopyIsCurrent BY DEF Current
  <1>3. QED BY <1>1, <1>2, TypeInit, TypeStep, CurrentStep, PTL DEF Spec

-----------------------------------------------------------------------------
(* What the writes decide on: no campaign leaves a final status, and its   *)
(* phases are moved once.                                                  *)

LEMMA RowSteps ==
    [Next]_vars =>
      \/ UNCHANGED <<row, spoiled>>
      \/ \E c \in Calls : \/ Change(c) \/ Update(c) \/ Extend(c) \/ Delete(c) \/ Finish(c)
                          \/ Revert(c) \/ SetPhase(c)
      \/ \E d \in debits : AddWrite(d)
      \/ Donate
      \/ \E j \in Jobs : JobWrite(j)
      \/ Settle \/ AcceptCampaign
  BY Zenon DEF Next, Receive, Handle, Serve, Run, Begins, LookupHit, LookupMiss, Fill, NotFound,
     Put, Sync, Drop, LookAtPhases, Balance, Answer, DropSkipped, Late, CallError, DebitWallet,
     AddRead, AddDrop, Unheard, AddFails, AddAgain, Find, JobError, Midnight, Crash, Expire,
     FindSurplus, SettlementEnds, OfferCampaign, vars, world, history

LEMMA JobSteps ==
    [Next]_vars =>
      \/ UNCHANGED jobs
      \/ \E c \in Calls : \/ Change(c) \/ Update(c) \/ Extend(c) \/ Delete(c) \/ Finish(c)
                          \/ Revert(c)
      \/ Midnight \/ Crash
      \/ \E j \in Jobs : Find(j) \/ JobWrite(j) \/ JobError(j)
      \/ Settle \/ AcceptCampaign
  BY Zenon DEF Next, Receive, Handle, Serve, Run, Begins, LookupHit, LookupMiss, Fill, NotFound,
     Put, Sync, SetPhase, Drop, LookAtPhases, Balance, Answer, DropSkipped, Late, CallError,
     DebitWallet, AddRead, AddWrite, AddDrop, Unheard, AddFails, AddAgain, Donate, Expire,
     FindSurplus, SettlementEnds, OfferCampaign, vars, world, history

\* The writes of a handler make the findings of the jobs old.
LEMMA WritersAgeJobs ==
    ASSUME TypeOK, CallsChecked, NEW c \in Calls,
           Change(c) \/ Update(c) \/ Extend(c) \/ Delete(c) \/ Finish(c) \/ Revert(c)
    PROVE  JobsAge
  <1>1. CASE Change(c) BY <1>1, ChangeView
  <1>2. CASE Update(c) BY <1>2, UpdateView DEF Written
  <1>3. CASE Extend(c) BY <1>3, ExtendView DEF Written
  <1>4. CASE Delete(c) BY <1>4, DeleteView DEF Written
  <1>5. CASE Finish(c) BY <1>5, FinishView DEF StatusSet, Written
  <1>6. CASE Revert(c) BY <1>6, RevertView DEF StatusSet, Written
  <1>7. QED BY <1>1, <1>2, <1>3, <1>4, <1>5, <1>6

LEMMA FoundStep ==
    ASSUME TypeOK, CallsChecked, FoundIsDue, [Next]_vars
    PROVE  FoundIsDue'
  <1>1. CASE UNCHANGED jobs
    <2>1. CASE row'.status = row.status BY <1>1, <2>1 DEF FoundIsDue
    <2>2. ASSUME NEW c \in Calls, Change(c) \/ Update(c) \/ Extend(c) \/ Delete(c) \/ Finish(c) \/ Revert(c)
          PROVE FoundIsDue'
      <3>1. JobsAge BY <2>2, WritersAgeJobs
      <3>2. QED BY <3>1 DEF JobsAge, FoundIsDue
    <2>3. ASSUME NEW c \in Calls, SetPhase(c) PROVE row'.status = row.status
      BY <2>3 DEF SetPhase
    <2>4. ASSUME NEW d \in debits, AddWrite(d) PROVE row'.status = row.status
      BY <2>4, AddWriteView
    <2>5. CASE Donate BY <2>1, <2>5, DonateView
    <2>6. ASSUME NEW j \in Jobs, JobWrite(j) PROVE FoundIsDue'
      <3>1. jobs[j].at = "write" /\ jobs'[j].at = "idle" BY <2>6, JobWriteView
      <3>2. QED BY <1>1, <3>1
    <2>7. CASE Settle \/ AcceptCampaign
      <3>1. JobsAge BY <2>7, SettleView, AcceptView
      <3>2. QED BY <3>1 DEF JobsAge, FoundIsDue
    <2>8. QED BY <2>1, <2>2, <2>3, <2>4, <2>5, <2>6, <2>7, RowSteps
  <1>2. ASSUME NEW c \in Calls, Change(c) \/ Update(c) \/ Extend(c) \/ Delete(c) \/ Finish(c) \/ Revert(c)
        PROVE FoundIsDue'
    <2>1. JobsAge BY <1>2, WritersAgeJobs
    <2>2. QED BY <2>1 DEF JobsAge, FoundIsDue
  <1>3. CASE Midnight BY <1>3, MidnightView DEF FoundIsDue
  <1>4. CASE Crash BY <1>4, CrashView, BlankTyped DEF FoundIsDue
  <1>5. ASSUME NEW j \in Jobs, Find(j) PROVE FoundIsDue'
    <2>1. /\ UNCHANGED row /\ \A i \in Jobs : i # j => jobs'[i] = jobs[i]
          /\ \/ jobs'[j].at = "idle"
             \/ /\ Due(j) /\ jobs'[j].at = "write"
                /\ jobs'[j].seen = Copy(row) /\ jobs'[j].old = FALSE
      BY <1>5, FindView
    <2>2. Copy(row).status = row.status BY CopyTyped DEF TypeOK
    <2>3. Due(j) => /\ j = "activate" => row.status = "APPROVED"
                    /\ j = "complete" => row.status = "ACTIVE"
                    /\ j = "expire" => row.status \in {"PENDING", "APPROVED"}
      BY DEF Due
    <2>4. QED BY <2>1, <2>2, <2>3 DEF FoundIsDue
  <1>6. ASSUME NEW j \in Jobs, JobWrite(j) PROVE FoundIsDue'
    <2>1. /\ jobs'[j].at = "idle"
          /\ \A i \in Jobs : i # j /\ jobs'[i].at = "write" =>
               jobs[i].at = "write" /\ jobs'[i].seen = jobs[i].seen /\ jobs'[i].old = TRUE
      BY <1>6, JobWriteView
    <2>2. QED BY <2>1 DEF FoundIsDue
  <1>7. ASSUME NEW j \in Jobs, JobError(j) PROVE FoundIsDue'
    BY <1>7, JobErrorView DEF FoundIsDue
  <1>8. CASE Settle \/ AcceptCampaign
    <2>1. JobsAge BY <1>8, SettleView, AcceptView
    <2>2. QED BY <2>1 DEF JobsAge, FoundIsDue
  <1>9. QED BY <1>1, <1>2, <1>3, <1>4, <1>5, <1>6, <1>7, <1>8, JobSteps

\* What the invariants say of a step that changes the status, on a reading not outdated.
LEMMA StatusMoves ==
    ASSUME TypeOK, CallsChecked, Current, FoundIsDue, OfferIsCancelled, [Next]_vars, ~spoiled'
    PROVE  /\ ~spoiled
           /\ \/ row'.status = row.status
              \/ row.status = "ACTIVE" /\ row'.status \in {"PROCESSING", "CANCELLED", "ENDED"}
              \/ /\ row.active
                 /\ \/ row.status = "PENDING" /\ row'.status \in {"APPROVED", "ACTIVE", "REJECTED"}
                    \/ row.status = "APPROVED"
                       /\ row'.status \in {"ACTIVE", "CANCELLED", "PENDING"}
                    \/ row.status = "PROCESSING" /\ row'.status \in {"COMPLETED", "CANCELLED"}
                    \/ row.status = "CANCELLED" /\ row'.status = "ACTIVE"
                       /\ offer = "open" /\ offer' = "taken" /\ missed' = (missed \/ AllFinished)
           /\ \/ row'.active = row.active
              \/ row'.status = row.status /\ row.status \in {"PENDING", "APPROVED", "REJECTED"}
  <1> DEFINE Moved ==
             /\ ~spoiled
             /\ \/ row'.status = row.status
                \/ row.status = "ACTIVE" /\ row'.status \in {"PROCESSING", "CANCELLED", "ENDED"}
                \/ /\ row.active
                   /\ \/ row.status = "PENDING" /\ row'.status \in {"APPROVED", "ACTIVE", "REJECTED"}
                      \/ row.status = "APPROVED"
                         /\ row'.status \in {"ACTIVE", "CANCELLED", "PENDING"}
                      \/ row.status = "PROCESSING" /\ row'.status \in {"COMPLETED", "CANCELLED"}
                      \/ row.status = "CANCELLED" /\ row'.status = "ACTIVE"
                         /\ offer = "open" /\ offer' = "taken" /\ missed' = (missed \/ AllFinished)
             /\ \/ row'.active = row.active
                \/ row'.status = row.status /\ row.status \in {"PENDING", "APPROVED", "REJECTED"}
  <1>1. ASSUME NEW c \in Calls, calls[c].at \in {"write", "revert"}, ~calls[c].old
        PROVE  row.active /\ calls[c].seen.status = row.status
    BY <1>1 DEF Current, ReadingIsRow, Reading
  <1>2. CASE UNCHANGED <<row, spoiled>> BY <1>2
  <1>3. ASSUME NEW c \in Calls, Change(c) PROVE Moved
    <2>1. /\ spoiled' = (spoiled \/ calls[c].old) /\ row'.active = row.active
          /\ calls[c].at = "write" /\ calls[c].to \in Allowed(calls[c].seen.status)
          /\ calls[c].to = row'.status \/ (calls[c].to = "APPROVED" /\ row'.status = "ACTIVE")
      BY <1>3, ChangeView DEF Change
    <2>2. row.active /\ calls[c].seen.status = row.status /\ ~spoiled BY <1>1, <2>1
    <2>3. calls[c].to \in Allowed(row.status) BY <2>1, <2>2
    <2>4. QED BY <2>1, <2>2, <2>3 DEF Allowed
  <1>4. ASSUME NEW c \in Calls, Update(c) PROVE Moved
    <2>1. /\ spoiled' = (spoiled \/ calls[c].old) /\ row'.status = row.status
          /\ row.active /\ row'.active
      BY <1>4, UpdateView DEF Written
    <2>2. ~spoiled BY <2>1
    <2>3. row'.active = row.active
      <3>1. row \in Rows /\ row' \in Rows BY <1>4, UpdateView DEF Written, TypeOK
      <3>2. row.active = TRUE /\ row'.active = TRUE BY <2>1, <3>1 DEF Rows
      <3>3. QED BY <3>2
    <2>4. QED BY <2>1, <2>2, <2>3
  <1>5. ASSUME NEW c \in Calls, Extend(c) PROVE Moved
    BY <1>5, ExtendView DEF Written
  <1>6. ASSUME NEW c \in Calls, Delete(c) PROVE Moved
    <2>1. /\ spoiled' = (spoiled \/ calls[c].old) /\ row'.status = row.status
          /\ calls[c].at = "write" /\ calls[c].op = "delete"
      BY <1>6, DeleteView DEF Written
    <2>2. calls[c].seen.status \in {"PENDING", "APPROVED", "REJECTED"}
      BY <2>1, CallOf DEF Checked
    <2>3. QED BY <1>1, <2>1, <2>2
  <1>7. ASSUME NEW c \in Calls, Finish(c) PROVE Moved
    <2>1. /\ spoiled' = (spoiled \/ calls[c].old) /\ row'.status = "COMPLETED"
          /\ calls[c].at = "write" /\ calls[c].seen.status = "PROCESSING"
          /\ row.active /\ row'.active
      BY <1>7, FinishView DEF StatusSet, Written
    <2>2. QED BY <1>1, <2>1
  <1>8. ASSUME NEW c \in Calls, Revert(c) PROVE Moved
    <2>1. /\ spoiled' = (spoiled \/ calls[c].old) /\ row'.status = "PENDING"
          /\ calls[c].at = "revert" /\ calls[c].seen.status = "APPROVED"
          /\ row.active /\ row'.active
      BY <1>8, RevertView DEF StatusSet, Written
    <2>2. QED BY <1>1, <2>1
  <1>9. ASSUME NEW c \in Calls, SetPhase(c) PROVE Moved
    <2>1. UNCHANGED row /\ spoiled' = (spoiled \/ calls[c].old) BY <1>9 DEF SetPhase
    <2>2. QED BY <2>1
  <1>10. ASSUME NEW d \in debits, AddWrite(d) PROVE Moved BY <1>10, AddWriteView DEF history
  <1>11. CASE Donate BY <1>11, DonateView DEF history
  <1>12. ASSUME NEW j \in Jobs, JobWrite(j) PROVE Moved
    <2>1. /\ spoiled' = (spoiled \/ jobs[j].old) /\ jobs[j].at = "write"
          /\ row'.status = NewStatus(j, jobs[j].seen) /\ row.active /\ row'.active
      BY <1>12, JobWriteView
    <2>2. /\ jobs[j].seen.status = row.status /\ ~spoiled
          /\ j = "activate" => row.status = "APPROVED"
          /\ j = "complete" => row.status = "ACTIVE"
          /\ j = "expire" => row.status \in {"PENDING", "APPROVED"}
      BY <2>1 DEF FoundIsDue
    <2>3. j \in {"activate", "complete", "expire"} BY DEF Jobs
    <2>4. QED BY <2>1, <2>2, <2>3 DEF NewStatus
  <1>13. CASE Settle BY <1>13, SettleView
  <1>14. CASE AcceptCampaign BY <1>14, AcceptView DEF OfferIsCancelled
  <1> HIDE DEF Moved
  <1>15. Moved
    BY <1>2, <1>3, <1>4, <1>5, <1>6, <1>7, <1>8, <1>9, <1>10, <1>11, <1>12, <1>13, <1>14,
       RowSteps DEF Moved
  <1>16. QED BY <1>15 DEF Moved

LEMMA OfferSteps ==
    [Next]_vars => UNCHANGED offer \/ OfferCampaign \/ AcceptCampaign
  BY Zenon DEF Next, Receive, Handle, Serve, Run, Begins, LookupHit, LookupMiss, Fill, NotFound,
     Change, Put, Update, Extend, Delete, Finish, Sync, Revert, SetPhase, Drop, LookAtPhases,
     Balance, Answer, DropSkipped, Late, CallError, DebitWallet, AddRead, AddWrite, AddDrop,
     Unheard, AddFails, AddAgain, Donate, Find, JobWrite, JobError, Midnight, Crash, Expire,
     FindSurplus, Settle, SettlementEnds, vars, world

\* No handler that has read the campaign as it is takes a cancelled one anywhere else.
LEMMA OfferStep ==
    ASSUME TypeOK, CallsChecked, Current, FoundIsDue, OfferIsCancelled, [Next]_vars
    PROVE  OfferIsCancelled'
  <1> SUFFICES ASSUME ~spoiled', offer' = "open" PROVE row'.status = "CANCELLED"
    BY DEF OfferIsCancelled
  <1>1. CASE UNCHANGED offer
    <2>1. ~spoiled /\ (row.status = "CANCELLED" => row'.status = row.status \/ offer' = "taken")
      BY StatusMoves
    <2>2. QED BY <1>1, <2>1 DEF OfferIsCancelled
  <1>2. CASE OfferCampaign BY <1>2 DEF OfferCampaign
  <1>3. CASE AcceptCampaign BY <1>3 DEF AcceptCampaign
  <1>4. QED BY <1>1, <1>2, <1>3, OfferSteps

Decided == TypeOK /\ CallsChecked /\ Current /\ FoundIsDue /\ OfferIsCancelled

LEMMA DecidedInvariant == Spec => []Decided
  <1>1. Init => Decided
    BY TypeInit, BlankTyped
       DEF Init, Decided, Current, ReadingIsRow, Reading, CopyIsCurrent, FoundIsDue,
           OfferIsCancelled
  <1>2. Decided /\ [Next]_vars => Decided'
    BY TypeStep, CurrentStep, FoundStep, OfferStep DEF Decided
  <1>3. QED BY <1>1, <1>2, PTL DEF Spec

\* Rejected, completed, cancelled and ended campaigns stay so, whatever handlers, jobs and
\* the settlement of a surplus do, unless one writes on a reading that another write has
\* outdated; but a cancelled campaign that is offered to organizations is active again
\* when one accepts it, and only then.
THEOREM FinalStatusesStay == Spec => FinalStays
  <1>1. Decided /\ [Next]_vars
          => [row.status \in Final /\ ~spoiled' =>
                \/ row'.status = row.status
                \/ /\ row.status = "CANCELLED" /\ row'.status = "ACTIVE"
                   /\ offer = "open" /\ offer' = "taken"]_vars
    BY StatusMoves DEF Decided, Final
  <1>2. QED BY <1>1, DecidedInvariant, PTL DEF Spec, FinalStays

LEMMA MovedOnceStep ==
    ASSUME Decided, MovedOnce, [Next]_vars
    PROVE  MovedOnce'
  <1> SUFFICES ASSUME ~spoiled' PROVE row'.shift = row'.days /\ (~row'.extended => row'.days = 0)
    BY DEF MovedOnce
  <1> USE DEF Decided
  <1>1. ~spoiled /\ row.shift = row.days /\ (~row.extended => row.days = 0)
    BY StatusMoves DEF MovedOnce
  <1>2. CASE row'.shift = row.shift /\ row'.days = row.days /\ row'.extended = row.extended
    BY <1>1, <1>2
  <1>3. ASSUME NEW c \in Calls, Extend(c)
        PROVE row'.shift = row'.days /\ (~row'.extended => row'.days = 0)
    <2>1. /\ spoiled' = (spoiled \/ calls[c].old) /\ calls[c].at = "write"
          /\ calls[c].op = "extend" /\ row'.extended = TRUE /\ row'.days = Extra
          /\ row'.shift = row.shift + Extra
      BY <1>3, ExtendView DEF Written
    <2>2. ~calls[c].seen.extended BY <2>1, CallOf DEF Checked
    <2>3. ~row.extended BY <2>1, <2>2 DEF Current, ReadingIsRow, Reading
    <2>4. QED BY <1>1, <2>1, <2>3, LifecycleAssumption
  <1>4. ASSUME NEW c \in Calls, Change(c) \/ Update(c) \/ Delete(c) \/ Finish(c) \/ Revert(c) \/ SetPhase(c)
        PROVE row'.shift = row.shift /\ row'.days = row.days /\ row'.extended = row.extended
    <2>1. CASE Change(c) BY <2>1, ChangeView
    <2>2. CASE Update(c) BY <2>2, UpdateView
    <2>3. CASE Delete(c) BY <2>3, DeleteView
    <2>4. CASE Finish(c) BY <2>4, FinishView DEF StatusSet
    <2>5. CASE Revert(c) BY <2>5, RevertView DEF StatusSet
    <2>6. CASE SetPhase(c) BY <2>6 DEF SetPhase
    <2>7. QED BY <1>4, <2>1, <2>2, <2>3, <2>4, <2>5, <2>6
  <1>5. ASSUME NEW d \in debits, AddWrite(d)
        PROVE row'.shift = row.shift /\ row'.days = row.days /\ row'.extended = row.extended
    BY <1>5, AddWriteView
  <1>6. CASE Donate BY <1>2, <1>6, DonateView
  <1>7. ASSUME NEW j \in Jobs, JobWrite(j)
        PROVE row'.shift = row.shift /\ row'.days = row.days /\ row'.extended = row.extended
    BY <1>7, JobWriteView
  <1>8. CASE Settle \/ AcceptCampaign BY <1>2, <1>8, SettleView, AcceptView
  <1>9. QED BY <1>2, <1>3, <1>4, <1>5, <1>6, <1>7, <1>8, RowSteps

\* The phases are moved by the days the campaign was extended by, once, unless a second
\* extension decided on an outdated reading.
THEOREM PhasesMoveOnce == Spec => []PhasesMoveWithEnd
  <1>1. Init => MovedOnce BY DEF Init, MovedOnce
  <1>2. Decided /\ MovedOnce /\ [Next]_vars => MovedOnce' BY MovedOnceStep
  <1>3. MovedOnce => PhasesMoveWithEnd BY DEF MovedOnce, PhasesMoveWithEnd
  <1>4. QED BY <1>1, <1>2, <1>3, DecidedInvariant, PTL DEF Spec

-----------------------------------------------------------------------------
(* Somebody completes the campaign whose phases are all finished.          *)

LEMMA PhaseSteps ==
    [Next]_vars => UNCHANGED phase \/ \E c \in Calls : SetPhase(c)
  BY Zenon DEF Next, Receive, Handle, Serve, Run, Begins, LookupHit, LookupMiss, Fill, NotFound,
     Change, Put, Update, Extend, Delete, Finish, Sync, Revert, Drop, LookAtPhases, Balance,
     Answer, DropSkipped, Late, CallError, DebitWallet, AddRead, AddWrite, AddDrop, Unheard,
     AddFails, AddAgain, Donate, Find, JobWrite, JobError, Midnight, Crash, Expire,
     FindSurplus, Settle, SettlementEnds, OfferCampaign, AcceptCampaign, vars, world, history

LEMMA MissedSteps ==
    [Next]_vars =>
      \/ UNCHANGED missed
      \/ \E c \in Calls : LookupHit(c) \/ Fill(c) \/ CallError(c)
      \/ Crash \/ AcceptCampaign
  BY Zenon DEF Next, Receive, Handle, Serve, Run, Begins, LookupMiss, NotFound,
     Change, Put, Update, Extend, Delete, Finish, Sync, Revert, SetPhase, Drop, LookAtPhases,
     Balance, Answer, DropSkipped, Late, DebitWallet, AddRead, AddWrite, AddDrop, Unheard,
     AddFails, AddAgain, Donate, Find, JobWrite, JobError, Midnight, Expire,
     FindSurplus, Settle, SettlementEnds, OfferCampaign, vars, world, history

LEMMA MissedStays ==
    ASSUME TypeOK, CallsChecked, [Next]_vars, missed
    PROVE  missed'
  <1>1. ASSUME NEW c \in Calls, LookupHit(c) PROVE missed' BY <1>1 DEF LookupHit, Decide
  <1>2. ASSUME NEW c \in Calls, Fill(c) PROVE missed' BY <1>2 DEF Fill, Decide
  <1>3. ASSUME NEW c \in Calls, CallError(c) PROVE missed' BY <1>3, CallErrorView
  <1>4. CASE Crash BY <1>4, CrashView
  <1>5. CASE AcceptCampaign BY <1>5, AcceptView
  <1>6. QED BY <1>1, <1>2, <1>3, <1>4, <1>5, MissedSteps

LEMMA RunningStep ==
    ASSUME Decided, PhasesOfRunning, DeletedNeverRan, [Next]_vars
    PROVE  PhasesOfRunning' /\ DeletedNeverRan'
  <1> SUFFICES ASSUME ~spoiled'
               PROVE  /\ ~missed' /\ AllFinished' =>
                           row'.status \in {"PROCESSING", "COMPLETED", "CANCELLED"}
                      /\ ~row'.active => row'.status \in {"PENDING", "APPROVED", "REJECTED"}
    BY DEF PhasesOfRunning, DeletedNeverRan
  <1> USE DEF Decided
  <1>1. /\ ~spoiled
        /\ \/ row'.status = row.status
           \/ row.status = "ACTIVE"
           \/ /\ row.active
              /\ row.status = "COMPLETED" => FALSE
              /\ row.status = "CANCELLED" => missed' = (missed \/ AllFinished)
              /\ row.status = "PROCESSING" => row'.status \in {"COMPLETED", "CANCELLED"}
        /\ \/ row'.active = row.active
           \/ row'.status = row.status /\ row.status \in {"PENDING", "APPROVED", "REJECTED"}
    BY StatusMoves
  <1>2. ~row.active => row.status \in {"PENDING", "APPROVED", "REJECTED"}
    BY <1>1 DEF DeletedNeverRan
  <1>3. ~row'.active => row'.status \in {"PENDING", "APPROVED", "REJECTED"}
    BY <1>1, <1>2
  <1>4. ASSUME ~missed', AllFinished', UNCHANGED phase
        PROVE  row'.status \in {"PROCESSING", "COMPLETED", "CANCELLED"}
    <2>1. ~missed BY <1>4, MissedStays
    <2>2. AllFinished BY <1>4 DEF AllFinished
    <2>3. row.status \in {"PROCESSING", "COMPLETED", "CANCELLED"}
      BY <1>1, <2>1, <2>2 DEF PhasesOfRunning
    <2>4. QED BY <1>1, <1>4, <2>2, <2>3
  <1>5. ASSUME NEW c \in Calls, SetPhase(c)
        PROVE row'.status \in {"PROCESSING", "COMPLETED", "CANCELLED"}
    <2>1. /\ spoiled' = (spoiled \/ calls[c].old) /\ calls[c].at = "write"
          /\ calls[c].seen.status = "PROCESSING" /\ UNCHANGED row
      BY <1>5, SetPhaseView DEF SetPhase
    <2>2. QED BY <2>1 DEF Current, ReadingIsRow, Reading
  <1>6. QED BY <1>3, <1>4, <1>5, PhaseSteps

\* One that is to complete the campaign goes on, hands over or fails.
LEMMA CompleterGoesOn ==
    ASSUME Decided, DeletedNeverRan, [Next]_vars, AllFinished, row.status = "PROCESSING",
           row'.status = "PROCESSING", ~spoiled, ~missed', NEW d \in Calls, Completing(d),
           UNCHANGED phase
    PROVE  \E e \in Calls : Completing(e)'
  <1> USE DEF Decided
  <1>1. row.active BY DEF DeletedNeverRan
  <1>2. ASSUME NEW c \in Calls, OthersStay(c), c # d PROVE Completing(d)'
    BY <1>2 DEF OthersStay, Completing
  <1>3. ASSUME NEW c, OthersAge(c), c # d PROVE Completing(d)'
    BY <1>3 DEF OthersAge, Completing
  <1>4. ASSUME NEW c \in Calls, Receive(c) PROVE Completing(d)'
    <2>1. OthersStay(c) /\ calls[c].at = "idle" BY <1>4, ReceiveView
    <2>2. c # d BY <2>1 DEF Completing
    <2>3. QED BY <1>2, <2>1, <2>2
  <1>5. ASSUME NEW c \in Calls, LookupHit(c) PROVE Completing(d)'
    <2>1. OthersStay(c) BY <1>5, LookupHitView
    <2>2. CASE c # d BY <1>2, <2>1, <2>2
    <2>3. CASE c = d
      <3>1. calls[d].at = "lookup" /\ calls[d].op = "finish" /\ ~InWriting(d) /\ cache # None
        BY <1>5, <2>3 DEF LookupHit, Completing, InWriting
      <3>2. CASE calls'[d].at \in {"write", "balance"} /\ calls'[d].op = calls[d].op
                 /\ (calls[d].op = "finish" => calls'[d].at = "write")
        BY <3>1, <3>2 DEF Completing
      <3>3. CASE /\ calls[d].op = "finish" => cache.status # "PROCESSING"
                 /\ calls[d].op = "finish" /\ (outdated \/ \E e \in Calls \ {d} : InWriting(e))
                      => missed'
        <4>1. cache.status # "PROCESSING" /\ ~outdated /\ \A e \in Calls \ {d} : ~InWriting(e)
          BY <3>1, <3>3
        <4>2. \A e \in Calls : ~InWriting(e) BY <3>1, <4>1
        <4>3. QED BY <3>1, <4>1, <4>2 DEF Current, CopyIsCurrent
      <3>4. QED BY <1>5, <2>3, <3>2, <3>3, LookupHitView
    <2>4. QED BY <2>2, <2>3
  <1>6. ASSUME NEW c \in Calls, LookupMiss(c) PROVE Completing(d)'
    <2>1. OthersStay(c) BY <1>6, LookupMissView
    <2>2. CASE c # d BY <1>2, <2>1, <2>2
    <2>3. CASE c = d
      <3>1. calls[d].op = "finish" BY <1>6, <2>3 DEF LookupMiss, Completing
      <3>2. calls'[d].at = "fill" /\ calls'[d].op = calls[d].op
        BY <1>1, <1>6, <2>3, LookupMissView
      <3>3. QED BY <3>1, <3>2 DEF Completing
    <2>4. QED BY <2>2, <2>3
  <1>7. ASSUME NEW c \in Calls, Fill(c) PROVE Completing(d)'
    <2>1. OthersStay(c) BY <1>7, FillView
    <2>2. CASE c # d BY <1>2, <2>1, <2>2
    <2>3. CASE c = d
      <3>1. calls[d].op = "finish" /\ calls[d].at = "fill"
        BY <1>7, <2>3 DEF Fill, Completing
      <3>2. ~calls[d].old => calls[d].seen.status = "PROCESSING"
        BY <3>1 DEF Current, ReadingIsRow, Reading
      <3>3. calls'[d].at = "write" /\ calls'[d].op = calls[d].op
        BY <1>7, <2>3, <3>1, <3>2, FillView
      <3>4. QED BY <3>1, <3>3 DEF Completing
    <2>4. QED BY <2>2, <2>3
  <1>8. ASSUME NEW c \in Calls, NotFound(c) PROVE FALSE
    BY <1>1, <1>8 DEF NotFound
  <1>9. ASSUME NEW c \in Calls, Change(c) PROVE Completing(d)'
    <2>1. OthersAge(c) /\ calls[c].op = "change" BY <1>9, ChangeView DEF Change
    <2>2. c # d BY <2>1 DEF Completing
    <2>3. QED BY <1>3, <2>1, <2>2
  <1>10. ASSUME NEW c \in Calls, Update(c) PROVE Completing(d)'
    <2>1. OthersAge(c) /\ calls[c].op = "update" BY <1>10, UpdateView DEF Written
    <2>2. c # d BY <2>1 DEF Completing
    <2>3. QED BY <1>3, <2>1, <2>2
  <1>11. ASSUME NEW c \in Calls, Extend(c) PROVE Completing(d)'
    <2>1. OthersAge(c) /\ calls[c].op = "extend" BY <1>11, ExtendView DEF Written
    <2>2. c # d BY <2>1 DEF Completing
    <2>3. QED BY <1>3, <2>1, <2>2
  <1>12. ASSUME NEW c \in Calls, Delete(c) PROVE Completing(d)'
    <2>1. OthersAge(c) /\ calls[c].op = "delete" BY <1>12, DeleteView DEF Written
    <2>2. c # d BY <2>1 DEF Completing
    <2>3. QED BY <1>3, <2>1, <2>2
  <1>13. ASSUME NEW c \in Calls, Finish(c) PROVE FALSE
    BY <1>13, FinishView DEF StatusSet
  <1>14. ASSUME NEW c \in Calls, Revert(c) PROVE FALSE
    BY <1>14, RevertView DEF StatusSet
  <1>15. ASSUME NEW c \in Calls, Put(c) PROVE Completing(d)'
    <2>1. OthersStay(c) /\ calls[c].op = "change" BY <1>15, PutView
    <2>2. c # d BY <2>1 DEF Completing
    <2>3. QED BY <1>2, <2>1, <2>2
  <1>16. ASSUME NEW c \in Calls, Sync(c) PROVE Completing(d)'
    <2>1. OthersStay(c) /\ calls[c].op = "sync" BY <1>16, SyncView
    <2>2. c # d BY <2>1 DEF Completing
    <2>3. QED BY <1>2, <2>1, <2>2
  <1>17. ASSUME NEW c \in Calls, SetPhase(c) PROVE Completing(c)'
    BY <1>17, SetPhaseView DEF Completing
  <1>18. ASSUME NEW c \in Calls, Dropped(c) PROVE Completing(d)'
    <2>1. OthersStay(c) BY <1>18 DEF Dropped
    <2>2. CASE c # d BY <1>2, <2>1, <2>2
    <2>3. CASE c = d BY <1>18, <2>3 DEF Dropped, Completing
    <2>4. QED BY <2>2, <2>3
  <1>19. ASSUME NEW c \in Calls, Drop(c) \/ DropSkipped(c) PROVE Completing(d)'
    BY <1>18, <1>19, DropView, DropSkippedView
  <1>20. ASSUME NEW c \in Calls, LookAtPhases(c) PROVE Completing(d)'
    <2>1. OthersStay(c) BY <1>20, LookAtPhasesView
    <2>2. CASE c # d BY <1>2, <2>1, <2>2
    <2>3. CASE c = d BY <1>20, <2>3, LookAtPhasesView DEF Completing
    <2>4. QED BY <2>2, <2>3
  <1>21. ASSUME NEW c \in Calls, Balance(c) \/ Answer(c) \/ Late(c) PROVE Completing(d)'
    <2>1. OthersStay(c) /\ calls[c].op = "change"
      BY <1>21, BalanceView, AnswerView, LateView
    <2>2. c # d BY <2>1 DEF Completing
    <2>3. QED BY <1>2, <2>1, <2>2
  <1>22. ASSUME NEW c \in Calls, CallError(c) PROVE Completing(d)'
    <2>1. OthersStay(c) /\ calls[c].op \notin {"phase", "finish"} BY <1>22, CallErrorView
    <2>2. c # d BY <2>1 DEF Completing
    <2>3. QED BY <1>2, <2>1, <2>2
  <1>23. CASE Crash
    <2>1. \A c \in Calls : calls[c].op \notin {"phase", "finish"} BY <1>23, CrashView
    <2>2. QED BY <2>1 DEF Completing
  <1>24. ASSUME UNCHANGED calls PROVE Completing(d)'
    BY <1>24 DEF Completing
  <1>25. ASSUME NEW e \in debits, Serve(e) \/ AddFails(e) \/ AddAgain(e) PROVE UNCHANGED calls
    BY <1>25 DEF Serve, DebitWallet, AddRead, AddWrite, AddDrop, AddFails, AddAgain, Unheard
  <1>26. ASSUME NEW j \in Jobs, JobWrite(j) PROVE Completing(d)'
    <2>1. OthersAge(None) /\ None # d BY <1>26, JobWriteView, LifecycleAssumption
    <2>2. QED BY <1>3, <2>1
  <1>27. CASE \/ Midnight \/ Donate \/ Expire \/ \E j \in Jobs : Find(j) \/ JobError(j)
              \/ Aside \/ UNCHANGED vars
    <2>1. UNCHANGED calls BY <1>27, AsideView DEF Midnight, Donate, Expire, Find, JobError, vars
    <2>2. QED BY <1>24, <2>1
  <1>28. CASE Settle \/ AcceptCampaign
    <2>1. OthersAge(None) /\ None # d BY <1>28, SettleView, AcceptView, LifecycleAssumption
    <2>2. QED BY <1>3, <2>1
  <1>29. QED
    BY <1>4, <1>5, <1>6, <1>7, <1>8, <1>9, <1>10, <1>11, <1>12, <1>13, <1>14, <1>15, <1>16,
       <1>17, <1>19, <1>20, <1>21, <1>22, <1>23, <1>24, <1>25, <1>26, <1>27, <1>28, Zenon
       DEF Next, Handle, Run, Aside

LEMMA CompletesStep ==
    ASSUME Decided, PhasesOfRunning, DeletedNeverRan, SomeoneCompletes, [Next]_vars
    PROVE  SomeoneCompletes'
  <1> SUFFICES ASSUME AllFinished', ~missed', ~spoiled', row'.status = "PROCESSING"
               PROVE  \E e \in Calls : Completing(e)'
    BY DEF SomeoneCompletes
  <1>1. /\ ~spoiled
        /\ row'.status = row.status \/ row.status = "ACTIVE"
    BY StatusMoves DEF Decided
  <1>2. ~missed BY MissedStays DEF Decided
  <1>3. ASSUME NEW c \in Calls, SetPhase(c) PROVE Completing(c)'
    BY <1>3, SetPhaseView DEF Decided, Completing
  <1>4. CASE UNCHANGED phase
    <2>1. AllFinished BY <1>4 DEF AllFinished
    <2>3. row.status = "PROCESSING" BY <1>1, <1>2, <2>1 DEF PhasesOfRunning
    <2>4. PICK d \in Calls : Completing(d) BY <1>1, <1>2, <2>1, <2>3 DEF SomeoneCompletes
    <2>5. QED BY <1>1, <1>4, <2>1, <2>3, <2>4, CompleterGoesOn
  <1>5. QED BY <1>3, <1>4, PhaseSteps

\* When all phases are finished, whoever finished the last of them completes the campaign,
\* however the handlers overlap, unless one failed or wrote on an outdated reading.
THEOREM FinishedCampaignsComplete == Spec => []FinishedIsCompleted
  <1>1. Init => PhasesOfRunning /\ DeletedNeverRan /\ SomeoneCompletes
    <2>1. Init => \A p \in Phases : phase[p] = "open" BY DEF Init
    <2>2. Init => row.active BY DEF Init
    <2>3. QED BY <2>1, <2>2, LifecycleAssumption
          DEF PhasesOfRunning, DeletedNeverRan, SomeoneCompletes, AllFinished
  <1>2. Decided /\ PhasesOfRunning /\ DeletedNeverRan /\ SomeoneCompletes /\ [Next]_vars
          => (PhasesOfRunning /\ DeletedNeverRan /\ SomeoneCompletes)'
    BY RunningStep, CompletesStep
  <1>3. SomeoneCompletes => FinishedIsCompleted
    BY DEF SomeoneCompletes, FinishedIsCompleted, Completing
  <1>4. QED BY <1>1, <1>2, <1>3, DecidedInvariant, PTL DEF Spec

-----------------------------------------------------------------------------
(* The requests, and the money they carry.                                 *)

\* Handler c has an answer to wait for, or is past it, if it has requests.
MayHaveDebits(call) ==
    /\ call.at \in {"idle", "await", "write", "put", "drop"}
    /\ call.at # "idle" => call.op = "change"

LEMMA DebitsKeep ==
    ASSUME TypeOK, DebitsOfCalls, NEW c, c \in Calls \/ c = None, OthersStay(c) \/ OthersAge(c),
           UNCHANGED debits,
           c \in Calls => \A d \in debits : d.call = c =>
                            calls'[c].at # "await" /\ MayHaveDebits(calls'[c])
    PROVE  DebitsOfCalls'
  <1>1. ASSUME NEW d \in debits
        PROVE  /\ calls'[d.call].at \in {"idle", "await", "write", "put", "drop"}
               /\ calls'[d.call].at # "idle" => calls'[d.call].op = "change"
               /\ calls'[d.call].at = "await" => d.try <= calls'[d.call].try
    <2>1. d.call \in Calls BY DEF TypeOK, Debits
    <2>2. CASE d.call = c BY <2>1, <2>2 DEF MayHaveDebits
    <2>3. CASE d.call # c
      <3>1. /\ calls'[d.call].at = calls[d.call].at /\ calls'[d.call].op = calls[d.call].op
            /\ calls'[d.call].try = calls[d.call].try
        BY <2>1, <2>3 DEF OthersStay, OthersAge
      <3>2. QED BY <3>1 DEF DebitsOfCalls
    <2>4. QED BY <2>2, <2>3
  <1>2. QED BY <1>1 DEF DebitsOfCalls

LEMMA DebitsServe ==
    ASSUME DebitsOfCalls, NEW d, NEW e, Serves(d, e), UNCHANGED calls
    PROVE  DebitsOfCalls'
  <1>1. IsFiniteSet(debits') BY FS_AddElement, FS_RemoveElement DEF DebitsOfCalls, Serves
  <1>2. \A f, g \in debits' : f.call = g.call /\ f.try = g.try => f = g
    BY DEF DebitsOfCalls, Serves
  <1>3. QED BY <1>1, <1>2 DEF DebitsOfCalls, Serves

LEMMA DebitsFewer ==
    ASSUME TypeOK, DebitsOfCalls, NEW c \in Calls, OthersStay(c), NEW d \in debits,
           debits' = debits \ {d}, calls'[c].at \in {"write", calls[c].at},
           calls'[c].op = calls[c].op, calls'[c].try = calls[c].try \/ calls'[c].at # "await",
           calls[c].at = "await" \/ calls'[c] = calls[c]
    PROVE  DebitsOfCalls'
  <1>1. IsFiniteSet(debits') BY FS_RemoveElement DEF DebitsOfCalls
  <1>2. \A f, g \in debits' : f.call = g.call /\ f.try = g.try => f = g
    BY DEF DebitsOfCalls
  <1>3. ASSUME NEW f \in debits'
        PROVE  /\ calls'[f.call].at \in {"idle", "await", "write", "put", "drop"}
               /\ calls'[f.call].at # "idle" => calls'[f.call].op = "change"
               /\ calls'[f.call].at = "await" => f.try <= calls'[f.call].try
    <2>1. f \in debits /\ f.call \in Calls BY DEF TypeOK, Debits
    <2>2. CASE f.call # c BY <2>1, <2>2 DEF OthersStay, DebitsOfCalls
    <2>3. CASE f.call = c BY <2>1, <2>3 DEF DebitsOfCalls
    <2>4. QED BY <2>2, <2>3
  <1>4. QED BY <1>1, <1>2, <1>3 DEF DebitsOfCalls

LEMMA DebitsMore ==
    ASSUME TypeOK, DebitsOfCalls, NEW c \in Calls, OthersStay(c), NEW try \in 1 .. 2,
           NEW e \in Debits, e.call = c, e.try = try, debits' = debits \union {e},
           \A d \in debits : d.call = c => d.try < try,
           calls'[c].at = "await", calls'[c].op = "change", calls'[c].try = try
    PROVE  DebitsOfCalls'
  <1>1. IsFiniteSet(debits') BY FS_AddElement DEF DebitsOfCalls
  <1>2. \A d \in debits : d.try \in 1 .. 2 BY DEF TypeOK, Debits
  <1>3. \A f, g \in debits' : f.call = g.call /\ f.try = g.try => f = g
    BY <1>2 DEF DebitsOfCalls
  <1>4. ASSUME NEW f \in debits'
        PROVE  /\ calls'[f.call].at \in {"idle", "await", "write", "put", "drop"}
               /\ calls'[f.call].at # "idle" => calls'[f.call].op = "change"
               /\ calls'[f.call].at = "await" => f.try <= calls'[f.call].try
    <2>1. f.call \in Calls BY DEF TypeOK, Debits
    <2>2. CASE f.call = c BY <1>2, <2>2
    <2>3. CASE f.call # c BY <2>1, <2>3 DEF OthersStay, DebitsOfCalls
    <2>4. QED BY <2>2, <2>3
  <1>5. QED BY <1>1, <1>3, <1>4 DEF DebitsOfCalls

\* A handler before its approval has no request.
LEMMA NoDebitsYet ==
    ASSUME DebitsOfCalls, NEW c \in Calls,
           \/ calls[c].at \in {"lookup", "fill", "balance", "revert", "dropAgain", "phases"}
           \/ calls[c].at # "idle" /\ calls[c].op # "change"
    PROVE  \A d \in debits : d.call # c
  BY DEF DebitsOfCalls

LEMMA NoCallFits == MayHaveDebits(NoCall) /\ NoCall.at # "await"
  BY BlankTyped DEF MayHaveDebits

LEMMA DebitsStep ==
    ASSUME TypeOK, CallsChecked, DebitsOfCalls, [Next]_vars
    PROVE  DebitsOfCalls'
  <1>1. ASSUME NEW c \in Calls, Receive(c) PROVE DebitsOfCalls'
    <2>1. OthersStay(c) /\ UNCHANGED debits /\ \A d \in debits : d.call # c
      BY <1>1, ReceiveView
    <2>2. QED BY <2>1, DebitsKeep
  <1>2. ASSUME NEW c \in Calls, OthersStay(c) \/ OthersAge(c), UNCHANGED debits,
               \/ calls[c].at \in {"lookup", "fill", "balance", "revert", "dropAgain", "phases"}
               \/ calls[c].at # "idle" /\ calls[c].op # "change"
        PROVE DebitsOfCalls'
    <2>1. \A d \in debits : d.call # c BY <1>2, NoDebitsYet
    <2>2. QED BY <1>2, <2>1, DebitsKeep
  <1>3. ASSUME NEW c \in Calls, LookupHit(c) PROVE DebitsOfCalls'
    BY <1>2, <1>3, LookupHitView DEF LookupHit
  <1>4. ASSUME NEW c \in Calls, LookupMiss(c) PROVE DebitsOfCalls'
    BY <1>2, <1>4, LookupMissView DEF LookupMiss
  <1>5. ASSUME NEW c \in Calls, Fill(c) PROVE DebitsOfCalls'
    BY <1>2, <1>5, FillView DEF Fill
  <1>6. ASSUME NEW c \in Calls, OthersStay(c) \/ OthersAge(c), UNCHANGED debits,
               calls'[c] = NoCall \/ (calls'[c].at \in {"put", "drop"} /\ calls'[c].op = "change")
        PROVE DebitsOfCalls'
    <2>1. calls'[c].at # "await" /\ MayHaveDebits(calls'[c])
      BY <1>6, NoCallFits DEF MayHaveDebits
    <2>2. QED BY <1>6, <2>1, DebitsKeep
  <1>7. ASSUME NEW c \in Calls, NotFound(c) PROVE DebitsOfCalls'
    BY <1>6, <1>7, NotFoundView DEF NotFound
  <1>8. ASSUME NEW c \in Calls, Change(c) PROVE DebitsOfCalls'
    BY <1>6, <1>8, ChangeView
  <1>9. ASSUME NEW c \in Calls, Put(c) PROVE DebitsOfCalls'
    BY <1>6, <1>9, PutView DEF Put
  <1>10. ASSUME NEW c \in Calls, Update(c) PROVE DebitsOfCalls'
    BY <1>2, <1>10, UpdateView DEF Written, Update
  <1>11. ASSUME NEW c \in Calls, Extend(c) PROVE DebitsOfCalls'
    BY <1>2, <1>11, ExtendView DEF Written, Extend
  <1>12. ASSUME NEW c \in Calls, Delete(c) PROVE DebitsOfCalls'
    BY <1>2, <1>12, DeleteView DEF Written, Delete
  <1>13. ASSUME NEW c \in Calls, Finish(c) PROVE DebitsOfCalls'
    BY <1>2, <1>13, FinishView DEF StatusSet, Written, Finish
  <1>14. ASSUME NEW c \in Calls, Revert(c) PROVE DebitsOfCalls'
    BY <1>2, <1>14, RevertView DEF StatusSet, Written, Revert
  <1>15. ASSUME NEW c \in Calls, Sync(c) PROVE DebitsOfCalls'
    BY <1>2, <1>15, SyncView DEF Sync
  <1>16. ASSUME NEW c \in Calls, SetPhase(c) PROVE DebitsOfCalls'
    BY <1>2, <1>16, SetPhaseView DEF SetPhase
  <1>17. ASSUME NEW c \in Calls, Dropped(c), UNCHANGED debits PROVE DebitsOfCalls'
    <2>1. CASE calls'[c] = NoCall BY <1>6, <1>17, <2>1 DEF Dropped
    <2>2. CASE calls[c].at # "idle" /\ calls[c].op # "change" BY <1>2, <1>17, <2>2 DEF Dropped
    <2>3. QED BY <1>17, <2>1, <2>2 DEF Dropped
  <1>18. ASSUME NEW c \in Calls, Drop(c) PROVE DebitsOfCalls'
    BY <1>17, <1>18, DropView DEF Drop
  <1>19. ASSUME NEW c \in Calls, DropSkipped(c) PROVE DebitsOfCalls'
    BY <1>17, <1>19, DropSkippedView DEF DropSkipped
  <1>20. ASSUME NEW c \in Calls, LookAtPhases(c) PROVE DebitsOfCalls'
    BY <1>2, <1>20, LookAtPhasesView DEF LookAtPhases
  <1>21. ASSUME NEW c \in Calls, Balance(c) PROVE DebitsOfCalls'
    <2>1. OthersStay(c) /\ calls[c].at = "balance" /\ calls'[c].op = "change"
      BY <1>21, BalanceView
    <2>2. \A d \in debits : d.call # c BY <2>1, NoDebitsYet
    <2>3. CASE UNCHANGED debits BY <2>1, <2>2, <2>3, DebitsKeep
    <2>4. CASE /\ calls'[c].at = "await" /\ calls'[c].try = 1
               /\ calls'[c].amount \in 1 .. Target
               /\ debits' = debits \union {Debit(c, 1, calls'[c].amount)}
      <3>1. PICK n, e : n = calls'[c].amount /\ e = Debit(c, 1, n) OBVIOUS
      <3>2. e \in Debits /\ e.call = c /\ e.try = 1
        BY <2>4, <3>1 DEF Debits, Debit
      <3>3. debits' = debits \union {e} BY <2>4, <3>1
      <3>4. QED BY <2>1, <2>2, <2>4, <3>2, <3>3, DebitsMore
    <2>5. QED BY <1>21, <2>3, <2>4, BalanceView
  <1>22. ASSUME NEW c \in Calls, Answer(c) PROVE DebitsOfCalls'
    <2>1. OthersStay(c) /\ calls[c].at = "await" /\ calls[c].op = "change"
          /\ calls'[c].op = "change" /\ calls'[c].at = "write"
      BY <1>22, AnswerView
    <2>2. PICK d \in debits : debits' = debits \ {d} BY <1>22, AnswerView
    <2>3. QED BY <2>1, <2>2, DebitsFewer
  <1>23. ASSUME NEW c \in Calls, Late(c) PROVE DebitsOfCalls'
    <2>1. OthersStay(c) /\ calls[c].at = "await" /\ calls'[c].op = "change"
      BY <1>23, LateView
    <2>2. CASE calls'[c].at = "write" /\ UNCHANGED debits
      <3>1. calls'[c].at # "await" /\ MayHaveDebits(calls'[c])
        BY <2>1, <2>2 DEF MayHaveDebits
      <3>2. QED BY <2>1, <2>2, <3>1, DebitsKeep
    <2>3. CASE /\ calls[c].try = 1 /\ calls'[c].at = "await" /\ calls'[c].try = 2
               /\ calls[c].amount \in 1 .. Target
               /\ debits' = debits \union {Debit(c, 2, calls[c].amount)}
      <3>1. PICK n, e : n = calls[c].amount /\ e = Debit(c, 2, n) OBVIOUS
      <3>2. e \in Debits /\ e.call = c /\ e.try = 2
        BY <2>3, <3>1 DEF Debits, Debit
      <3>3. debits' = debits \union {e} BY <2>3, <3>1
      <3>4. ASSUME NEW d \in debits, d.call = c PROVE d.try < 2
        <4>1. d.try \in 1 .. 2 /\ d.try <= 1 BY <2>1, <2>3, <3>4 DEF DebitsOfCalls, TypeOK, Debits
        <4>2. QED BY <4>1
      <3>5. QED BY <2>1, <2>3, <3>2, <3>3, <3>4, DebitsMore
    <2>4. QED BY <1>23, <2>2, <2>3, LateView
  <1>24. ASSUME NEW c \in Calls, CallError(c) PROVE DebitsOfCalls'
    BY <1>6, <1>24, CallErrorView DEF CallError
  <1>25. CASE Crash
    <2>1. UNCHANGED debits /\ \A c \in Calls : calls'[c] = NoCall BY <1>25, CrashView DEF Crash
    <2>2. \A d \in debits : d.call \in Calls BY DEF TypeOK, Debits
    <2>3. QED BY <2>1, <2>2, BlankTyped DEF DebitsOfCalls
  <1>26. ASSUME NEW d \in debits, \E e : Serves(d, e), UNCHANGED calls PROVE DebitsOfCalls'
    BY <1>26, DebitsServe
  <1>27. ASSUME NEW d \in debits, DebitWallet(d) PROVE DebitsOfCalls'
    BY <1>26, <1>27, DebitWalletView
  <1>28. ASSUME NEW d \in debits, AddRead(d) PROVE DebitsOfCalls'
    BY <1>26, <1>28, AddReadView
  <1>29. ASSUME NEW d \in debits, AddWrite(d) PROVE DebitsOfCalls'
    BY <1>26, <1>29, AddWriteView
  <1>30. ASSUME NEW d \in debits, AddDrop(d) PROVE DebitsOfCalls'
    BY <1>26, <1>30, AddDropView
  <1>31. ASSUME NEW d \in debits, AddFails(d) PROVE DebitsOfCalls'
    BY <1>26, <1>31, AddFailsView
  <1>32. ASSUME NEW d \in debits, AddAgain(d) PROVE DebitsOfCalls'
    BY <1>26, <1>32, AddAgainView
  <1>33. ASSUME NEW d \in debits, Unheard(d) PROVE DebitsOfCalls'
    <2>1. debits' = debits \ {d} /\ UNCHANGED calls BY <1>33, UnheardView
    <2>2. IsFiniteSet(debits') BY <2>1, FS_RemoveElement DEF DebitsOfCalls
    <2>3. QED BY <2>1, <2>2 DEF DebitsOfCalls
  <1>34. ASSUME UNCHANGED <<calls, debits>> PROVE DebitsOfCalls'
    BY <1>34 DEF DebitsOfCalls
  <1>35. CASE \/ Midnight \/ Donate \/ Expire \/ \E j \in Jobs : Find(j) \/ JobError(j)
              \/ Aside \/ UNCHANGED vars
    <2>1. UNCHANGED <<calls, debits>>
      BY <1>35, AsideView DEF Midnight, Donate, Expire, Find, JobError, vars
    <2>2. QED BY <1>34, <2>1
  <1>36. ASSUME NEW j \in Jobs, JobWrite(j) PROVE DebitsOfCalls'
    <2>1. OthersAge(None) /\ UNCHANGED debits /\ None \notin Calls
      BY <1>36, JobWriteView, LifecycleAssumption
    <2>2. QED BY <2>1, DebitsKeep
  <1>37. CASE Settle \/ AcceptCampaign
    <2>1. OthersAge(None) /\ UNCHANGED debits /\ None \notin Calls
      BY <1>37, SettleView, AcceptView, LifecycleAssumption
    <2>2. QED BY <2>1, DebitsKeep
  <1>38. QED
    BY <1>1, <1>3, <1>4, <1>5, <1>7, <1>8, <1>9, <1>10, <1>11, <1>12, <1>13, <1>14, <1>15,
       <1>16, <1>18, <1>19, <1>20, <1>21, <1>22, <1>23, <1>24, <1>25, <1>27, <1>28, <1>29,
       <1>30, <1>31, <1>32, <1>33, <1>35, <1>36, <1>37, Zenon
       DEF Next, Handle, Serve, Run, Aside

\* What a request has taken from the wallet and not yet brought to the campaign.
Weight(d) == IF d.at \in {"read", "add"} THEN d.amount ELSE 0
Carried   == SumFunctionOnSet(Amounts, OnTheWay)

LEMMA AmountsTyped ==
    ASSUME TypeOK, DebitsOfCalls
    PROVE  /\ IsFiniteSet(OnTheWay) /\ OnTheWay \subseteq debits
           /\ \A d \in debits : /\ Amounts[d] = d.amount /\ d.amount \in Nat /\ d.amount > 0
                                /\ d \in Debits
           /\ Carried \in Nat
  <1>1. OnTheWay \subseteq debits BY DEF OnTheWay
  <1>2. IsFiniteSet(OnTheWay) BY <1>1, FS_Subset DEF DebitsOfCalls
  <1>3. \A d \in debits : /\ Amounts[d] = d.amount /\ d.amount \in Nat /\ d.amount > 0
                          /\ d \in Debits
    BY LifecycleAssumption DEF TypeOK, Debits, Amounts
  <1>4. Carried \in Nat
    <2>1. \A d \in OnTheWay : Amounts[d] \in Nat BY <1>1, <1>3
    <2>2. QED BY <1>2, <2>1, SumType DEF Carried
  <1>5. QED BY <1>1, <1>2, <1>3, <1>4

LEMMA CarriedServes ==
    ASSUME TypeOK, DebitsOfCalls, NEW d, NEW e, Serves(d, e)
    PROVE  Carried' = (Carried - Weight(d)) + Weight(e)
  <1> DEFINE rest == OnTheWay \ {d}
             Sum(S) == SumFunctionOnSet(Amounts, S)
  <1>1. /\ IsFiniteSet(OnTheWay) /\ IsFiniteSet(rest)
        /\ \A x \in OnTheWay : Amounts[x] \in Nat
        /\ \A x \in rest : Amounts[x] \in Nat
    BY AmountsTyped, FS_RemoveElement
  <1>2. /\ d \in Debits /\ e \in Debits /\ Amounts[d] = d.amount /\ Amounts[e] = e.amount
        /\ d.amount \in Nat /\ e.amount \in Nat
    BY LifecycleAssumption DEF Serves, Debits, Amounts
  <1>3. Sum(rest) \in Nat BY <1>1, SumType
  <1>4. Sum(OnTheWay) = Sum(rest) + Weight(d)
    <2>1. CASE d \in OnTheWay
      <3>1. Sum(OnTheWay) = Amounts[d] + Sum(OnTheWay \ {d})
        BY <1>1, <2>1, SumTakeOut
      <3>2. Weight(d) = d.amount BY <2>1 DEF Weight, OnTheWay
      <3>3. QED BY <1>2, <1>3, <3>1, <3>2
    <2>2. CASE d \notin OnTheWay
      <3>1. rest = OnTheWay /\ Weight(d) = 0 BY <2>2 DEF Weight, OnTheWay, Serves
      <3>2. QED BY <1>3, <3>1
    <2>3. QED BY <2>1, <2>2
  <1>5. e \notin rest
    BY DEF OnTheWay, Serves, DebitsOfCalls
  <1>6. OnTheWay' = IF e.at \in {"read", "add"} THEN rest \union {e} ELSE rest
    BY DEF OnTheWay, Serves
  <1> HIDE DEF rest
  <1>7. SumFunctionOnSet(Amounts, OnTheWay') = Sum(rest) + Weight(e)
    <2>1. CASE e.at \in {"read", "add"}
      <3>1. Sum(rest \union {e}) = Amounts[e] + Sum(rest)
        BY <1>1, <1>2, <1>5, SumAdd
      <3>2. QED BY <1>2, <1>3, <1>6, <2>1, <3>1 DEF Weight
    <2>2. CASE e.at \notin {"read", "add"}
      BY <1>3, <1>6, <2>2 DEF Weight
    <2>3. QED BY <2>1, <2>2
  <1>8. Carried = Sum(rest) + Weight(d) BY <1>4 DEF Carried
  <1>9. Carried' = Sum(rest) + Weight(e) BY <1>7 DEF Carried
  <1>10. Weight(d) \in Nat /\ Weight(e) \in Nat BY <1>2 DEF Weight
  <1> HIDE DEF Sum
  <1>11. QED BY <1>3, <1>8, <1>9, <1>10

LEMMA CarriedStays ==
    ASSUME OnTheWay' = OnTheWay
    PROVE  Carried' = Carried
  BY DEF Carried

LEMMA ArrivedIs ==
    /\ Arrived = given + taken - Carried
    /\ Arrived' = given' + taken' - Carried'
  BY DEF Arrived, Carried

\* What has arrived only grows ...
LEMMA ArrivedStays ==
    ASSUME TypeOK, DebitsOfCalls, TypeOK', DebitsOfCalls',
           OnTheWay' = OnTheWay, UNCHANGED <<given, taken>>
    PROVE  Arrived' = Arrived /\ Arrived \in Int
  <1>1. Carried' = Carried /\ Carried \in Nat BY CarriedStays, AmountsTyped
  <1>2. given \in Nat /\ taken \in Nat BY DEF TypeOK
  <1>3. Arrived = given + taken - Carried /\ Arrived' = given' + taken' - Carried'
    BY ArrivedIs
  <1>4. QED BY <1>1, <1>2, <1>3

-----------------------------------------------------------------------------
(* The campaign never shows more than has arrived.                         *)

\* The parts of NothingExceeds, for an amount a.
RowBelow(a)  == row.received <= a
CopyBelow(a) == cache # None => cache.received <= a
CallBelow(call, a) ==
    /\ call.seen.received <= a
    /\ call.at = "write" /\ call.amount > 0 => call.seen.received + call.amount <= a
DebitBelow(d, call, a) ==
    /\ d.at = "add" => d.read <= a
    /\ d.at \in {"drop", "ok"} /\ call.at = "await" => call.seen.received + d.amount <= a

LEMMA ExceedsParts ==
    /\ NothingExceeds <=>
        ("again" \notin torn =>
           /\ RowBelow(Arrived) /\ CopyBelow(Arrived)
           /\ \A c \in Calls : CallBelow(calls[c], Arrived)
           /\ \A d \in debits : DebitBelow(d, calls[d.call], Arrived))
    /\ NothingExceeds' <=>
        ("again" \notin torn' =>
           /\ RowBelow(Arrived)' /\ CopyBelow(Arrived)'
           /\ \A c \in Calls : CallBelow(calls'[c], Arrived')
           /\ \A d \in debits' : DebitBelow(d, calls'[d.call], Arrived'))
  BY DEF NothingExceeds, RowBelow, CopyBelow, CallBelow, DebitBelow

Typed == TypeOK /\ CallsChecked /\ DebitsOfCalls

\* A handler goes on, and the requests and the money stay.
LEMMA ExceedsMove ==
    ASSUME Typed, Typed', NothingExceeds, "again" \notin torn,
           NEW c, c \in Calls \/ c = None, OthersStay(c) \/ OthersAge(c),
           UNCHANGED <<debits, given, taken>>,
           row'.received <= Arrived, cache' = None \/ cache' = cache \/ cache'.received <= Arrived,
           c \in Calls => /\ calls'[c].seen.received <= Arrived
                          /\ calls'[c].at # "await"
                          /\ calls'[c].at = "write" => calls'[c].amount = 0
    PROVE  NothingExceeds'
  <1> USE DEF Typed
  <1>1. OnTheWay' = OnTheWay BY DEF OnTheWay
  <1>2. Arrived' = Arrived BY <1>1, ArrivedStays
  <1>3. ASSUME NEW d \in Calls, d # c
        PROVE  /\ calls'[d].at = calls[d].at /\ calls'[d].seen = calls[d].seen
               /\ calls'[d].amount = calls[d].amount
    BY <1>3 DEF OthersStay, OthersAge
  <1>4. ASSUME NEW d \in Calls PROVE CallBelow(calls'[d], Arrived')
    <2>1. CASE d = c
      <3>1. calls'[c].amount = 0 => ~(calls'[c].amount > 0) OBVIOUS
      <3>2. QED BY <1>2, <2>1, <3>1 DEF CallBelow
    <2>2. CASE d # c BY <1>2, <1>3, <2>2, ExceedsParts DEF CallBelow
    <2>3. QED BY <2>1, <2>2
  <1>5. ASSUME NEW d \in debits' PROVE DebitBelow(d, calls'[d.call], Arrived')
    <2>1. d \in debits /\ d.call \in Calls BY DEF TypeOK, Debits
    <2>2. DebitBelow(d, calls[d.call], Arrived) BY <2>1, ExceedsParts
    <2>3. CASE d.call = c BY <1>2, <2>1, <2>2, <2>3 DEF DebitBelow
    <2>4. CASE d.call # c BY <1>2, <1>3, <2>1, <2>2, <2>4 DEF DebitBelow
    <2>5. QED BY <2>3, <2>4
  <1>6. RowBelow(Arrived)' BY <1>2 DEF RowBelow
  <1>7. CopyBelow(Arrived)'
    <2>1. CopyBelow(Arrived) BY ExceedsParts
    <2>2. QED BY <1>2, <2>1 DEF CopyBelow
  <1>8. QED BY <1>4, <1>5, <1>6, <1>7, ExceedsParts

\* A request goes on, and the handlers stay.
LEMMA ExceedsServe ==
    ASSUME Typed, Typed', NothingExceeds, "again" \notin torn,
           NEW d, NEW e, Serves(d, e), UNCHANGED calls, Arrived <= Arrived',
           row'.received <= Arrived', cache' = None \/ cache' = cache,
           DebitBelow(e, calls[e.call], Arrived')
    PROVE  NothingExceeds'
  <1> USE DEF Typed
  <1>1. Arrived \in Int /\ Arrived' \in Int
    <2>1. /\ Carried \in Nat /\ Carried' \in Nat /\ given \in Nat /\ taken \in Nat
          /\ given' \in Nat /\ taken' \in Nat
      <3>1. Carried \in Nat BY AmountsTyped
      <3>2. Carried' = (Carried - Weight(d)) + Weight(e) BY CarriedServes
      <3>3. SumFunctionOnSet(Amounts, OnTheWay') \in Nat
        <4>1. OnTheWay' \subseteq debits' BY DEF OnTheWay
        <4>2. IsFiniteSet(OnTheWay') BY <4>1, FS_Subset DEF DebitsOfCalls
        <4>3. \A x \in OnTheWay' : Amounts[x] \in Nat
          BY <4>1, LifecycleAssumption DEF TypeOK, Debits, Amounts
        <4>4. QED BY <4>2, <4>3, SumType
      <3>4. QED BY <3>1, <3>3 DEF Carried, TypeOK
    <2>2. QED BY <2>1, ArrivedIs
  <1>2. ASSUME NEW f \in debits, DebitBelow(f, calls[f.call], Arrived)
        PROVE  DebitBelow(f, calls[f.call], Arrived')
    <2>1. f.read \in Nat /\ f.amount \in Nat /\ calls[f.call].seen.received \in Nat
      BY LifecycleAssumption, CallOf, CallFields DEF TypeOK, Debits
    <2>2. QED BY <1>1, <1>2, <2>1 DEF DebitBelow
  <1>3. ASSUME NEW f \in debits' PROVE DebitBelow(f, calls'[f.call], Arrived')
    <2>1. CASE f = e BY <2>1
    <2>2. CASE f # e
      <3>1. f \in debits BY <2>2 DEF Serves
      <3>2. QED BY <1>2, <3>1, ExceedsParts
    <2>3. QED BY <2>1, <2>2
  <1>4. ASSUME NEW c \in Calls PROVE CallBelow(calls'[c], Arrived')
    <2>1. CallBelow(calls[c], Arrived) BY ExceedsParts
    <2>2. calls[c].amount \in Nat /\ calls[c].seen.received \in Nat BY CallOf, CallFields
    <2>3. QED BY <1>1, <2>1, <2>2 DEF CallBelow
  <1>5. RowBelow(Arrived)' BY DEF RowBelow
  <1>6. CopyBelow(Arrived)'
    <2>1. CopyBelow(Arrived) BY ExceedsParts
    <2>2. cache' # None => cache' = cache OBVIOUS
    <2>3. cache # None => cache.received \in Nat BY DEF TypeOK, Copies
    <2>4. QED BY <1>1, <2>1, <2>2, <2>3 DEF CopyBelow
  <1>7. QED BY <1>3, <1>4, <1>5, <1>6, ExceedsParts

\* What a request going on does to the sum that has arrived.
LEMMA ArrivedServes ==
    ASSUME Typed, NEW d, NEW e, Serves(d, e)
    PROVE  /\ Arrived \in Int /\ given \in Nat /\ taken \in Nat
           /\ Arrived' = given' + taken' - ((given + taken - Arrived - Weight(d)) + Weight(e))
           /\ Weight(d) \in Nat /\ Weight(e) \in Nat /\ d.amount \in Nat /\ d.amount > 0
           /\ e.amount = d.amount
  <1> USE DEF Typed
  <1>1. Carried' = (Carried - Weight(d)) + Weight(e) BY CarriedServes
  <1>2. Carried \in Nat BY AmountsTyped
  <1>3. given \in Nat /\ taken \in Nat BY DEF TypeOK
  <1>4. d.amount \in Nat /\ e.amount = d.amount /\ d.amount > 0
    BY LifecycleAssumption DEF Serves, Debits
  <1>5. Weight(d) \in Nat /\ Weight(e) \in Nat BY <1>4 DEF Weight
  <1>6. Carried = given + taken - Arrived /\ Arrived \in Int BY <1>2, <1>3, ArrivedIs
  <1>7. QED BY <1>1, <1>3, <1>4, <1>5, <1>6, ArrivedIs

LEMMA TornGrows ==
    ASSUME TypeOK, CallsChecked, [Next]_vars
    PROVE  torn \subseteq torn'
  <1>1. [Next]_vars =>
          \/ UNCHANGED torn
          \/ \E c \in Calls : NotFound(c) \/ Late(c) \/ CallError(c)
          \/ \E d \in debits : AddFails(d) \/ AddAgain(d)
          \/ Crash
    BY Zenon DEF Next, Receive, Handle, Serve, Run, Begins, LookupHit, LookupMiss, Fill,
       Change, Put, Update, Extend, Delete, Finish, Sync, Revert, SetPhase, Drop, LookAtPhases,
       Balance, Answer, DropSkipped, DebitWallet, AddRead, AddWrite, AddDrop, Unheard,
       Donate, Find, JobWrite, JobError, Midnight, Expire, FindSurplus, Settle, SettlementEnds,
       OfferCampaign, AcceptCampaign, vars, world, history
  <1>2. ASSUME NEW d \in debits, AddFails(d) \/ AddAgain(d) PROVE torn \subseteq torn'
    BY <1>2 DEF AddFails, AddAgain
  <1>3. QED BY <1>1, <1>2, NotFoundView, LateView, CallErrorView, CrashView

\* The money stays where it is, and only handlers and requests change.
LEMMA ExceedsStays ==
    ASSUME Typed, Typed', NothingExceeds, "again" \notin torn, OnTheWay' = OnTheWay,
           UNCHANGED <<row, cache, given, taken>>,
           \A c \in Calls : CallBelow(calls'[c], Arrived),
           \A d \in debits' : DebitBelow(d, calls'[d.call], Arrived)
    PROVE  NothingExceeds'
  <1>1. Arrived' = Arrived BY ArrivedStays DEF Typed
  <1>2. RowBelow(Arrived)' BY <1>1, ExceedsParts DEF RowBelow
  <1>3. CopyBelow(Arrived)' BY <1>1, ExceedsParts DEF CopyBelow
  <1>4. QED BY <1>1, <1>2, <1>3, ExceedsParts

\* The handler asks for a transfer.
LEMMA ExceedsAsk ==
    ASSUME Typed, Typed', NothingExceeds, "again" \notin torn, NEW c \in Calls, OthersStay(c),
           NEW e, e.at = "debit", e.call = c, debits' = debits \union {e},
           UNCHANGED <<row, cache, given, taken>>,
           calls[c].at = "await" \/ \A d \in debits : d.call # c,
           calls'[c].at = "await", calls'[c].seen = calls[c].seen
    PROVE  NothingExceeds'
  <1>1. OnTheWay' = OnTheWay BY DEF OnTheWay
  <1>2. ASSUME NEW b \in Calls PROVE CallBelow(calls'[b], Arrived)
    <2>1. CallBelow(calls[b], Arrived) BY ExceedsParts
    <2>2. QED BY <2>1 DEF CallBelow, OthersStay
  <1>3. ASSUME NEW d \in debits' PROVE DebitBelow(d, calls'[d.call], Arrived)
    <2>1. CASE d = e BY <2>1 DEF DebitBelow
    <2>2. CASE d # e
      <3>1. d \in debits /\ DebitBelow(d, calls[d.call], Arrived) BY <2>2, ExceedsParts
      <3>2. d.call \in Calls BY <3>1 DEF Typed, TypeOK, Debits
      <3>3. QED BY <3>1, <3>2 DEF DebitBelow, OthersStay
    <2>3. QED BY <2>1, <2>2
  <1>4. QED BY <1>1, <1>2, <1>3, ExceedsStays

\* The handler has its answer.
LEMMA ExceedsAnswered ==
    ASSUME Typed, Typed', NothingExceeds, "again" \notin torn, NEW c \in Calls, OthersStay(c),
           NEW d \in debits, d.at \in {"ok", "failed"}, d.call = c, debits' = debits \ {d},
           UNCHANGED <<row, cache, given, taken>>,
           calls[c].at = "await", calls'[c].at = "write", calls'[c].seen = calls[c].seen,
           calls'[c].amount = IF d.at = "ok" THEN d.amount ELSE 0
    PROVE  NothingExceeds'
  <1>1. OnTheWay' = OnTheWay BY DEF OnTheWay
  <1>2. DebitBelow(d, calls[c], Arrived) /\ CallBelow(calls[c], Arrived) BY ExceedsParts
  <1>3. CallBelow(calls'[c], Arrived) BY <1>2 DEF DebitBelow, CallBelow
  <1>4. ASSUME NEW b \in Calls, b # c PROVE CallBelow(calls'[b], Arrived)
    <2>1. CallBelow(calls[b], Arrived) BY ExceedsParts
    <2>2. QED BY <1>4, <2>1 DEF OthersStay
  <1>5. ASSUME NEW f \in debits' PROVE DebitBelow(f, calls'[f.call], Arrived)
    <2>1. f \in debits /\ f.call \in Calls BY DEF Typed, TypeOK, Debits
    <2>2. DebitBelow(f, calls[f.call], Arrived) BY <2>1, ExceedsParts
    <2>3. QED BY <2>1, <2>2 DEF DebitBelow, OthersStay
  <1>6. QED BY <1>1, <1>3, <1>4, <1>5, ExceedsStays

LEMMA ExceedsInit == Init => NothingExceeds
  <1> SUFFICES ASSUME Init PROVE NothingExceeds OBVIOUS
  <1>1. TypeOK /\ CallsChecked BY TypeInit
  <1>2. debits = {} /\ given = 0 /\ taken = 0 /\ row.received = 0 /\ cache = None
    BY DEF Init
  <1>3. \A c \in Calls : calls[c] = NoCall BY DEF Init
  <1>4. OnTheWay = {} BY <1>2 DEF OnTheWay
  <1>5. SumFunctionOnSet(Amounts, OnTheWay) = 0 BY <1>4, SumNone
  <1>6. Arrived = 0 BY <1>2, <1>5 DEF Arrived
  <1>7. QED BY <1>2, <1>3, <1>6, BlankTyped DEF NothingExceeds

LEMMA ExceedsStep ==
    ASSUME Typed, Typed', NothingExceeds, [Next]_vars
    PROVE  NothingExceeds'
  <1>0. SUFFICES ASSUME "again" \notin torn' PROVE NothingExceeds'
    BY DEF NothingExceeds
  <1> USE DEF Typed
  <1>1. "again" \notin torn BY <1>0, TornGrows
  <1>2. /\ RowBelow(Arrived) /\ CopyBelow(Arrived)
        /\ \A c \in Calls : CallBelow(calls[c], Arrived)
        /\ \A d \in debits : DebitBelow(d, calls[d.call], Arrived)
    BY <1>1, ExceedsParts
  <1>3. /\ row.received \in Nat /\ row \in Rows /\ row.received <= Arrived
        /\ Copy(row).received = row.received
    BY <1>2, RowTyped, CopyTyped DEF RowBelow, TypeOK
  <1>4. Arrived \in Int /\ Carried \in Nat /\ given \in Nat /\ taken \in Nat
    <2>1. Carried \in Nat BY AmountsTyped
    <2>2. QED BY <2>1, ArrivedIs DEF TypeOK
  <1>5. Blank.received <= Arrived /\ NoCall.seen.received <= Arrived
        /\ NoCall.at = "idle"
    BY <1>3, <1>4, BlankTyped
  <1>6. ASSUME NEW c \in Calls, UNCHANGED <<row, debits, given, taken>>,
               OthersStay(c), cache' = None \/ cache' = cache \/ cache' = calls[c].seen,
               \/ calls'[c] = NoCall
               \/ /\ calls'[c].at # "await" /\ calls'[c].amount = 0
                  /\ calls'[c].seen \in {Blank, calls[c].seen, Copy(row)}
        PROVE  NothingExceeds'
    <2>1. calls[c].seen.received <= Arrived BY <1>2 DEF CallBelow
    <2>2. /\ calls'[c].seen.received <= Arrived /\ calls'[c].at # "await"
          /\ calls'[c].at = "write" => calls'[c].amount = 0
      BY <1>3, <1>5, <1>6, <2>1
    <2>3. row'.received <= Arrived BY <1>3, <1>6
    <2>4. cache' = None \/ cache' = cache \/ cache'.received <= Arrived BY <1>6, <2>1
    <2>5. QED BY <1>1, <1>6, <2>2, <2>3, <2>4, ExceedsMove
  <1>7. ASSUME NEW c \in Calls, Receive(c) PROVE NothingExceeds'
    <2>1. UNCHANGED <<row, debits, given, taken, cache>> BY <1>7, ReceiveView DEF history
    <2>2. calls'[c].at # "await" BY <1>7, ReceiveView
    <2>3. QED BY <1>6, <1>7, <2>1, <2>2, ReceiveView
  <1>8. ASSUME NEW c \in Calls, LookupHit(c) PROVE NothingExceeds'
    <2>1. UNCHANGED <<row, debits, given, taken, cache>> /\ cache # None
      BY <1>8 DEF LookupHit, world
    <2>2. cache.received <= Arrived BY <1>2, <2>1 DEF CopyBelow
    <2>3. OthersStay(c) BY <1>8, LookupHitView
    <2>4. /\ calls'[c].seen.received <= Arrived /\ calls'[c].at # "await"
          /\ calls'[c].at = "write" => calls'[c].amount = 0
      BY <1>5, <1>8, <2>2, LookupHitView
    <2>5. QED BY <1>1, <1>3, <2>1, <2>3, <2>4, ExceedsMove
  <1>9. ASSUME NEW c \in Calls, LookupMiss(c) PROVE NothingExceeds'
    <2>1. UNCHANGED <<row, debits, given, taken, cache>>
      BY <1>9 DEF LookupMiss, world, history
    <2>2. QED BY <1>6, <1>9, <2>1, LookupMissView
  <1>10. ASSUME NEW c \in Calls, Fill(c) PROVE NothingExceeds'
    <2>1. UNCHANGED <<row, debits, given, taken>>
      BY <1>10 DEF Fill, world
    <2>2. QED BY <1>6, <1>10, <2>1, FillView
  <1>11. ASSUME NEW c \in Calls, NotFound(c) PROVE NothingExceeds'
    <2>1. UNCHANGED <<row, debits, given, taken, cache>>
      BY <1>11 DEF NotFound, world
    <2>2. QED BY <1>6, <1>11, <2>1, NotFoundView
  <1>12. ASSUME NEW c \in Calls, Change(c) PROVE NothingExceeds'
    <2>1. CallBelow(calls[c], Arrived) /\ calls[c].at = "write"
      BY <1>2, <1>12 DEF Change
    <2>2. row'.received <= Arrived
      BY <1>3, <1>12, <2>1, ChangeView DEF CallBelow, ReceivedAfter
    <2>3. row' \in Rows /\ calls'[c].seen = Copy(row')
      BY <1>12, ChangeView DEF TypeOK
    <2>4. calls'[c].seen.received <= Arrived BY <2>2, <2>3, CopyTyped
    <2>5. /\ OthersAge(c) /\ UNCHANGED <<cache, debits, given, taken>>
          /\ calls'[c].at = "put" /\ calls'[c].amount = 0
      BY <1>12, ChangeView DEF world
    <2>6. QED BY <1>1, <2>2, <2>4, <2>5, ExceedsMove
  <1>13. ASSUME NEW c \in Calls, NEW step \in {"drop", "dropAgain"}, NEW r, Written(c, step, r)
         PROVE NothingExceeds'
    <2>1. /\ OthersAge(c) /\ UNCHANGED <<cache, debits, given, taken>>
          /\ calls'[c].at = step /\ calls'[c].amount = 0 /\ calls'[c].seen = Blank
          /\ row'.received = row.received
      BY <1>13 DEF Written, world
    <2>2. row'.received <= Arrived /\ calls'[c].seen.received <= Arrived BY <1>3, <1>5, <2>1
    <2>3. QED BY <1>1, <2>1, <2>2, ExceedsMove
  <1>14. ASSUME NEW c \in Calls, Put(c) PROVE NothingExceeds'
    <2>1. UNCHANGED <<row, debits, given, taken>>
      BY <1>14 DEF Put, world, history
    <2>2. QED BY <1>6, <1>14, <2>1, PutView
  <1>15. ASSUME NEW c \in Calls, Sync(c) PROVE NothingExceeds'
    <2>1. UNCHANGED <<row, debits, given, taken, cache>>
      BY <1>15 DEF Sync, world, history
    <2>2. QED BY <1>6, <1>15, <2>1, SyncView
  <1>16. ASSUME NEW c \in Calls, SetPhase(c) PROVE NothingExceeds'
    <2>1. UNCHANGED <<row, debits, given, taken, cache>>
      BY <1>16 DEF SetPhase, world
    <2>2. QED BY <1>6, <1>16, <2>1, SetPhaseView
  <1>17. ASSUME NEW c \in Calls, Dropped(c), UNCHANGED <<row, debits, given, taken>>,
                cache' = None \/ cache' = cache
         PROVE NothingExceeds'
    BY <1>6, <1>17 DEF Dropped
  <1>18. ASSUME NEW c \in Calls, Drop(c) PROVE NothingExceeds'
    <2>1. UNCHANGED <<row, debits, given, taken>> BY <1>18 DEF Drop, world
    <2>2. QED BY <1>17, <1>18, <2>1, DropView
  <1>19. ASSUME NEW c \in Calls, DropSkipped(c) PROVE NothingExceeds'
    <2>1. UNCHANGED <<row, debits, given, taken, cache>> BY <1>19 DEF DropSkipped
    <2>2. QED BY <1>17, <1>19, <2>1, DropSkippedView
  <1>20. ASSUME NEW c \in Calls, LookAtPhases(c) PROVE NothingExceeds'
    <2>1. UNCHANGED <<row, debits, given, taken, cache>>
      BY <1>20 DEF LookAtPhases, world, history
    <2>2. calls'[c] = NoCall \/ calls'[c].at # "await" BY <1>20, LookAtPhasesView
    <2>3. QED BY <1>6, <1>20, <2>1, <2>2, LookAtPhasesView
  <1>21. ASSUME NEW c \in Calls, Balance(c) PROVE NothingExceeds'
    <2>1. UNCHANGED <<row, given, taken, cache>> BY <1>21 DEF Balance, world, history
    <2>2. /\ OthersStay(c) /\ calls[c].at = "balance" /\ calls'[c].seen = calls[c].seen
      BY <1>21, BalanceView
    <2>3. CASE calls'[c].at = "write" /\ calls'[c].amount = 0 /\ UNCHANGED debits
      BY <1>6, <2>1, <2>2, <2>3
    <2>4. CASE /\ calls'[c].at = "await" /\ calls'[c].amount \in 1 .. Target
               /\ debits' = debits \union {Debit(c, 1, calls'[c].amount)}
      <3>1. PICK e : e = Debit(c, 1, calls'[c].amount) OBVIOUS
      <3>2. e.at = "debit" /\ e.call = c BY <3>1 DEF Debit
      <3>3. \A d \in debits : d.call # c BY <2>2, NoDebitsYet
      <3>4. QED BY <1>1, <2>1, <2>2, <2>4, <3>1, <3>2, <3>3, ExceedsAsk
    <2>5. QED BY <1>21, <2>3, <2>4, BalanceView
  <1>22. ASSUME NEW c \in Calls, Answer(c) PROVE NothingExceeds'
    <2>1. UNCHANGED <<row, given, taken, cache>> BY <1>22 DEF Answer, world, history
    <2>2. QED BY <1>1, <1>22, <2>1, AnswerView, ExceedsAnswered
  <1>23. ASSUME NEW c \in Calls, Late(c) PROVE NothingExceeds'
    <2>1. UNCHANGED <<row, given, taken, cache>> BY <1>23 DEF Late
    <2>2. /\ OthersStay(c) /\ calls[c].at = "await" /\ calls'[c].seen = calls[c].seen
      BY <1>23, LateView
    <2>3. CASE calls'[c].at = "write" /\ calls'[c].amount = 0 /\ UNCHANGED debits
      BY <1>6, <2>1, <2>2, <2>3
    <2>4. CASE /\ calls'[c].at = "await" /\ calls[c].amount \in 1 .. Target
               /\ debits' = debits \union {Debit(c, 2, calls[c].amount)}
      <3>1. PICK e : e = Debit(c, 2, calls[c].amount) OBVIOUS
      <3>2. e.at = "debit" /\ e.call = c BY <3>1 DEF Debit
      <3>3. QED BY <1>1, <2>1, <2>2, <2>4, <3>1, <3>2, ExceedsAsk
    <2>5. QED BY <1>23, <2>3, <2>4, LateView
  <1>24. ASSUME NEW c \in Calls, CallError(c) PROVE NothingExceeds'
    <2>1. UNCHANGED <<row, debits, given, taken, cache>> BY <1>24 DEF CallError
    <2>2. QED BY <1>6, <1>24, <2>1, CallErrorView
  <1>25. CASE Crash
    <2>1. UNCHANGED <<row, debits, given, taken, cache>> BY <1>25 DEF Crash
    <2>2. \A c \in Calls : calls'[c] = NoCall BY <1>25, CrashView
    <2>3. OnTheWay' = OnTheWay BY <2>1 DEF OnTheWay
    <2>4. \A c \in Calls : CallBelow(calls'[c], Arrived) BY <1>5, <2>2 DEF CallBelow
    <2>5. ASSUME NEW d \in debits' PROVE DebitBelow(d, calls'[d.call], Arrived)
      <3>1. d \in debits /\ d.call \in Calls BY <2>1 DEF TypeOK, Debits
      <3>2. QED BY <1>2, <1>5, <2>2, <3>1 DEF DebitBelow
    <2>6. QED BY <1>1, <2>1, <2>3, <2>4, <2>5, ExceedsStays
  <1>26. ASSUME NEW d \in debits, DebitWallet(d) PROVE NothingExceeds'
    <2>1. PICK e : /\ Serves(d, e)
                   /\ \/ e.at = "failed" /\ taken' = taken
                      \/ e.at = "read" /\ taken' = taken + d.amount
      BY <1>26, DebitWalletView
    <2>2. d.at = "debit" /\ UNCHANGED <<row, cache, calls, given>> BY <1>26, DebitWalletView
    <2>3. Weight(d) = 0 /\ Weight(e) = IF e.at = "read" THEN e.amount ELSE 0
      BY <2>1, <2>2 DEF Weight
    <2>4. Arrived' = Arrived
      BY <2>1, <2>2, <2>3, ArrivedServes
    <2>5. DebitBelow(e, calls[e.call], Arrived') BY <2>1 DEF DebitBelow
    <2>6. Arrived <= Arrived' /\ row'.received <= Arrived' BY <1>3, <1>4, <2>2, <2>4
    <2>7. QED BY <1>1, <2>1, <2>2, <2>5, <2>6, ExceedsServe
  <1>27. ASSUME NEW d \in debits, AddRead(d) PROVE NothingExceeds'
    <2>1. PICK e : Serves(d, e) /\ e.at = "add" /\ e.read = row.received
      BY <1>27, AddReadView
    <2>2. d.at = "read" /\ UNCHANGED <<row, cache, calls, given, taken>>
      BY <1>27, AddReadView DEF world, history
    <2>3. Weight(d) = d.amount /\ Weight(e) = e.amount BY <2>1, <2>2 DEF Weight
    <2>4. Arrived' = Arrived BY <2>1, <2>2, <2>3, ArrivedServes
    <2>5. DebitBelow(e, calls[e.call], Arrived') BY <1>3, <2>1, <2>4 DEF DebitBelow
    <2>6. Arrived <= Arrived' /\ row'.received <= Arrived' BY <1>3, <1>4, <2>2, <2>4
    <2>7. QED BY <1>1, <2>1, <2>2, <2>5, <2>6, ExceedsServe
  <1>28. ASSUME NEW d \in debits, AddWrite(d) PROVE NothingExceeds'
    <2>1. PICK e : Serves(d, e) /\ e.at = "drop" BY <1>28, AddWriteView
    <2>2. d.at = "add" /\ UNCHANGED <<cache, calls, given, taken>>
          /\ row'.received = d.read + d.amount
      BY <1>28, AddWriteView DEF world, history
    <2>3. Weight(d) = d.amount /\ Weight(e) = 0 BY <2>1, <2>2 DEF Weight
    <2>4. Arrived' = Arrived + d.amount /\ d.amount \in Nat
      BY <2>1, <2>2, <2>3, ArrivedServes
    <2>5. d.read <= Arrived /\ d.read \in Nat BY <1>2, <2>1, <2>2 DEF DebitBelow, Serves, Debits
    <2>6. e.amount = d.amount /\ e.call = d.call /\ d.call \in Calls
      BY <2>1 DEF Serves, Debits
    <2>7. calls[d.call].seen.received <= Arrived /\ calls[d.call].seen.received \in Nat
      BY <1>2, <2>6, CallOf, CallFields DEF CallBelow
    <2>8. DebitBelow(e, calls[e.call], Arrived') BY <1>4, <2>1, <2>4, <2>6, <2>7 DEF DebitBelow
    <2>9. Arrived <= Arrived' /\ row'.received <= Arrived' BY <1>4, <2>2, <2>4, <2>5
    <2>10. QED BY <1>1, <2>1, <2>2, <2>8, <2>9, ExceedsServe
  <1>29. ASSUME NEW d \in debits, AddDrop(d) PROVE NothingExceeds'
    <2>1. PICK e : Serves(d, e) /\ e.at = "ok" BY <1>29, AddDropView
    <2>2. d.at = "drop" /\ cache' = None /\ UNCHANGED <<row, calls, given, taken>>
      BY <1>29, AddDropView DEF world
    <2>3. Weight(d) = 0 /\ Weight(e) = 0 BY <2>1, <2>2 DEF Weight
    <2>4. Arrived' = Arrived BY <2>1, <2>2, <2>3, ArrivedServes
    <2>5. DebitBelow(e, calls[e.call], Arrived')
      BY <1>2, <2>1, <2>2, <2>4 DEF DebitBelow, Serves
    <2>6. Arrived <= Arrived' /\ row'.received <= Arrived' BY <1>3, <1>4, <2>2, <2>4
    <2>7. QED BY <1>1, <2>1, <2>2, <2>5, <2>6, ExceedsServe
  <1>30. ASSUME NEW d \in debits, AddFails(d) PROVE NothingExceeds'
    <2>1. PICK e : Serves(d, e) /\ e.at = "ok" BY <1>30, AddFailsView
    <2>2. d.at \in {"read", "add"} /\ UNCHANGED <<row, cache, calls, given, taken>>
      BY <1>30, AddFailsView
    <2>3. Weight(d) = d.amount /\ Weight(e) = 0 BY <2>1, <2>2 DEF Weight
    <2>4. Arrived' = Arrived + d.amount /\ d.amount \in Nat
      BY <2>1, <2>2, <2>3, ArrivedServes
    <2>5. e.amount = d.amount /\ e.call = d.call /\ d.call \in Calls
      BY <2>1 DEF Serves, Debits
    <2>6. calls[d.call].seen.received <= Arrived /\ calls[d.call].seen.received \in Nat
      BY <1>2, <2>5, CallOf, CallFields DEF CallBelow
    <2>7. DebitBelow(e, calls[e.call], Arrived') BY <1>4, <2>1, <2>4, <2>5, <2>6 DEF DebitBelow
    <2>8. Arrived <= Arrived' /\ row'.received <= Arrived' BY <1>3, <1>4, <2>2, <2>4
    <2>9. QED BY <1>1, <2>1, <2>2, <2>7, <2>8, ExceedsServe
  <1>31. ASSUME NEW d \in debits, AddAgain(d) PROVE NothingExceeds'
    BY <1>0, <1>31, AddAgainView
  <1>32. ASSUME NEW d \in debits, Unheard(d) PROVE NothingExceeds'
    <2>1. /\ d.at \in {"ok", "failed"} /\ debits' = debits \ {d}
          /\ UNCHANGED <<row, cache, calls, given, taken>>
      BY <1>32, UnheardView DEF world, history
    <2>2. OnTheWay' = OnTheWay BY <2>1 DEF OnTheWay
    <2>3. \A c \in Calls : CallBelow(calls'[c], Arrived) BY <1>2, <2>1
    <2>4. \A f \in debits' : DebitBelow(f, calls'[f.call], Arrived) BY <1>2, <2>1
    <2>5. QED BY <1>1, <2>1, <2>2, <2>3, <2>4, ExceedsStays
  <1>33. CASE Donate
    <2>1. /\ given' = given + 1 /\ row'.received = row.received + 1
          /\ UNCHANGED <<cache, calls, debits, taken>>
      BY <1>33, DonateView DEF history
    <2>2. OnTheWay' = OnTheWay BY <2>1 DEF OnTheWay
    <2>3. Arrived' = Arrived + 1 BY <1>4, <2>1, <2>2, CarriedStays, ArrivedIs
    <2>4. RowBelow(Arrived)' BY <1>3, <1>4, <2>1, <2>3 DEF RowBelow
    <2>5. CopyBelow(Arrived)'
      <3>1. cache # None => cache.received \in Nat BY DEF TypeOK, Copies
      <3>2. QED BY <1>2, <1>4, <2>1, <2>3, <3>1 DEF CopyBelow
    <2>6. ASSUME NEW c \in Calls PROVE CallBelow(calls'[c], Arrived')
      <3>1. calls[c].amount \in Nat /\ calls[c].seen.received \in Nat BY CallOf, CallFields
      <3>2. CallBelow(calls[c], Arrived) BY <1>2
      <3>3. QED BY <1>4, <2>1, <2>3, <3>1, <3>2 DEF CallBelow
    <2>7. ASSUME NEW f \in debits' PROVE DebitBelow(f, calls'[f.call], Arrived')
      <3>1. f \in debits /\ f.read \in Nat /\ f.amount \in Nat /\ f.call \in Calls
        BY <2>1, LifecycleAssumption DEF TypeOK, Debits
      <3>2. calls[f.call].seen.received \in Nat BY <3>1, CallOf, CallFields
      <3>3. DebitBelow(f, calls[f.call], Arrived) BY <1>2, <3>1
      <3>4. QED BY <1>4, <2>1, <2>3, <3>1, <3>2, <3>3 DEF DebitBelow
    <2>8. QED BY <2>4, <2>5, <2>6, <2>7, ExceedsParts
  <1>34. ASSUME NEW j \in Jobs, JobWrite(j) PROVE NothingExceeds'
    <2>1. /\ OthersAge(None) /\ row'.received = row.received
          /\ UNCHANGED <<cache, debits, given, taken>>
      BY <1>34, JobWriteView DEF world
    <2>2. row'.received <= Arrived /\ None \notin Calls BY <1>3, <2>1, LifecycleAssumption
    <2>3. QED BY <1>1, <2>1, <2>2, ExceedsMove
  <1>35. CASE Expire
    <2>1. UNCHANGED <<row, calls, debits, given, taken>> /\ cache' = None
      BY <1>35 DEF Expire, world
    <2>2. OthersStay(None) /\ None \notin Calls BY <2>1, LifecycleAssumption DEF OthersStay
    <2>3. QED BY <1>1, <1>3, <2>1, <2>2, ExceedsMove
  <1>36. CASE \/ Midnight \/ \E j \in Jobs : Find(j) \/ JobError(j)
              \/ Aside \/ UNCHANGED vars
    <2>1. UNCHANGED <<row, cache, calls, debits, given, taken>>
      BY <1>36, AsideView DEF Midnight, Find, JobError, vars, world, history
    <2>2. OthersStay(None) /\ None \notin Calls BY <2>1, LifecycleAssumption DEF OthersStay
    <2>3. QED BY <1>1, <1>3, <2>1, <2>2, ExceedsMove
  <1>37. ASSUME NEW c \in Calls, Update(c) \/ Extend(c) \/ Delete(c) \/ Finish(c) \/ Revert(c)
         PROVE NothingExceeds'
    <2>1. \E step \in {"drop", "dropAgain"} : \E r : Written(c, step, r)
      BY <1>37, UpdateView, ExtendView, DeleteView, FinishView, RevertView DEF StatusSet
    <2>2. QED BY <1>13, <2>1
  <1>38. CASE Settle \/ AcceptCampaign
    <2>1. /\ OthersAge(None) /\ row'.received = row.received
          /\ UNCHANGED <<cache, debits, given, taken>> /\ None \notin Calls
      BY <1>38, SettleView, AcceptView, LifecycleAssumption DEF world
    <2>2. row'.received <= Arrived BY <1>3, <2>1
    <2>3. QED BY <1>1, <2>1, <2>2, ExceedsMove
  <1>39. QED
    BY <1>7, <1>8, <1>9, <1>10, <1>11, <1>12, <1>14, <1>15,
       <1>16, <1>18, <1>19, <1>20, <1>21, <1>22, <1>23, <1>24, <1>25, <1>26, <1>27, <1>28, <1>29,
       <1>30, <1>31, <1>32, <1>33, <1>34, <1>35, <1>36, <1>37, <1>38, Zenon
       DEF Next, Handle, Serve, Run, Aside

-----------------------------------------------------------------------------
(* While no transfer goes wrong, campaign and wallet agree.                *)

\* A handler that neither waits for the wallet nor has money to add.
Quiet(call) == call.at # "await" /\ (call.at = "write" => call.amount = 0)

LEMMA QuietPays ==
    ASSUME NEW c \in Calls
    PROVE  /\ OneRequestEach /\ torn = {} /\ Quiet(calls[c]) =>
                c \notin Paying /\ \A d \in debits : d.call # c
           /\ OneRequestEach' /\ torn' = {} /\ Quiet(calls'[c]) =>
                c \notin Paying' /\ \A d \in debits' : d.call # c
  <1>1. \A n : n = 0 => ~(n > 0) OBVIOUS
  <1>2. QED BY <1>1 DEF OneRequestEach, Quiet, Paying

\* What the steps do to money, requests and readings: a handler goes on by itself, ...
QuietMove(c) ==
    /\ OthersStay(c) /\ Quiet(calls[c]) /\ Quiet(calls'[c])
    /\ row'.received = row.received /\ UNCHANGED <<debits, given, taken>>
    /\ Pending(c)' =>
         \/ Pending(c) /\ calls'[c].seen = calls[c].seen
         \/ calls'[c].seen.received = row.received
         \/ calls'[c].seen = cache /\ CopyCounts
    /\ CopyCounts' =>
         \/ cache' = cache /\ CopyCounts
         \/ cache' = calls[c].seen /\ Reading(c) /\ ~calls[c].old

\* ... or writes the campaign, which outdates what others have read.
AgingWrite(c) ==
    /\ OthersAge(c) /\ UNCHANGED <<debits, given, taken>>
    /\ ~CopyCounts'
    /\ c \in Calls => Quiet(calls'[c]) /\ ~Reading(c)' /\ calls[c].at # "await"
    /\ \/ row'.received = row.received /\ (c \in Calls => Quiet(calls[c]))
       \/ /\ c \in Calls /\ calls[c].at = "write" /\ calls[c].amount > 0
          /\ row'.received = calls[c].seen.received + calls[c].amount
          /\ ~spoiled' => ~calls[c].old

\* Everything else but what is named in MoneySteps.
OtherStep ==
    /\ UNCHANGED <<row, calls, debits, given, taken>>
    /\ cache' = None \/ UNCHANGED <<cache, outdated>>

LEMMA WrittenAges ==
    ASSUME Typed, NEW c \in Calls, NEW step \in {"drop", "dropAgain"}, NEW r,
           Written(c, step, r), calls[c].op # "change", calls[c].at # "await",
           step = "drop" => calls[c].op # "sync"
    PROVE  AgingWrite(c)
  <1>1. /\ OthersAge(c) /\ UNCHANGED <<debits, given, taken>> /\ row'.received = row.received
        /\ calls'[c].at = step /\ calls'[c].op = calls[c].op
    BY DEF Written, world
  <1>2. InWriting(c)' /\ ~Reading(c)' /\ Quiet(calls'[c])
    BY <1>1 DEF InWriting, Reading, Quiet
  <1>3. calls[c].amount = 0
    <2>1. calls[c].amount \in Nat /\ ~(calls[c].amount > 0)
      BY CallOf, CallFields DEF Checked, Typed
    <2>2. QED BY <2>1
  <1>4. Quiet(calls[c]) BY <1>3 DEF Quiet
  <1>5. QED BY <1>1, <1>2, <1>4 DEF AgingWrite, CopyCounts

\* A handler that keeps its reading, or loses it, and leaves the copy alone.
LEMMA QuietStep ==
    ASSUME Typed, NEW c \in Calls, OthersStay(c), Quiet(calls[c]),
           UNCHANGED <<row, debits, given, taken>>,
           \/ calls'[c] = NoCall
           \/ /\ Quiet(calls'[c]) /\ ~Reading(c)'
           \/ /\ Quiet(calls'[c]) /\ Reading(c) /\ calls'[c].seen = calls[c].seen
              /\ calls'[c].old = calls[c].old,
           \/ cache' = None
           \/ InWriting(c)'
           \/ outdated'
           \/ UNCHANGED <<cache, outdated>> /\ ~InWriting(c)
    PROVE  QuietMove(c)
  <1>1. Quiet(NoCall) /\ (calls'[c] = NoCall => ~Reading(c)')
    BY BlankTyped DEF Quiet, Reading
  <1>2. CopyCounts' => cache' = cache /\ CopyCounts
    <2>1. CopyCounts' => ~InWriting(c) /\ UNCHANGED <<cache, outdated>> BY DEF CopyCounts
    <2>2. ASSUME NEW d \in Calls, d # c PROVE InWriting(d)' <=> InWriting(d)
      BY <2>2 DEF OthersStay, InWriting
    <2>3. QED BY <2>1, <2>2 DEF CopyCounts
  <1>3. Pending(c)' => Pending(c) /\ calls'[c].seen = calls[c].seen
    BY <1>1 DEF Pending
  <1>4. QED BY <1>1, <1>2, <1>3 DEF QuietMove

LEMMA MoneySteps ==
    ASSUME Typed, [Next]_vars, torn' = {}
    PROVE  \/ \E c \in Calls : QuietMove(c) \/ AgingWrite(c) \/ Balance(c) \/ Answer(c)
           \/ AgingWrite(None) \/ Crash \/ Donate \/ OtherStep
           \/ \E d \in debits : DebitWallet(d) \/ AddRead(d) \/ AddWrite(d) \/ AddDrop(d)
                                \/ Unheard(d)
  <1> USE DEF Typed
  <1>1. torn = {} BY TornGrows
  <1>2. ASSUME NEW c \in Calls
        PROVE  /\ calls[c].at \notin {"await", "write"} => Quiet(calls[c])
               /\ calls[c].at = "write" /\ calls[c].op # "change" => Quiet(calls[c])
               /\ calls[c].amount = 0 /\ calls[c].at # "await" => Quiet(calls[c])
               /\ ~Transferred(c) => Quiet(calls[c])
               /\ calls'[c].at \notin {"await", "write"} => Quiet(calls'[c])
               /\ calls'[c].amount = 0 /\ calls'[c].at # "await" => Quiet(calls'[c])
    <2>1. calls[c].amount \in Nat /\ Checked(calls[c]) BY CallOf, CallFields
    <2>2. calls[c].amount = 0 \/ calls[c].amount > 0 BY <2>1
    <2>3. QED BY <2>1, <2>2 DEF Quiet, Checked, Transferred
  <1>3. ASSUME NEW c \in Calls, Receive(c) PROVE QuietMove(c)
    <2>1. /\ OthersStay(c) /\ UNCHANGED <<row, debits, given, taken, cache, outdated>>
          /\ calls[c].at = "idle" /\ calls'[c].at = "lookup"
      BY <1>3, ReceiveView DEF history
    <2>2. QED BY <1>2, <2>1, QuietStep DEF Reading, InWriting
  <1>4. ASSUME NEW c \in Calls, LookupHit(c) PROVE QuietMove(c)
    <2>1. /\ OthersStay(c) /\ UNCHANGED <<row, debits, given, taken, cache, outdated>>
          /\ calls[c].at = "lookup" /\ cache # None
      BY <1>4, LookupHitView DEF LookupHit, world
    <2>2. CASE calls'[c] = NoCall BY <1>2, <2>1, <2>2, QuietStep DEF InWriting
    <2>3. CASE /\ calls'[c].at \in {"write", "balance"} /\ calls'[c].seen = cache
               /\ calls'[c].amount = 0
               /\ ~calls'[c].old => ~outdated /\ \A d \in Calls \ {c} : ~InWriting(d)
      <3>1. ~InWriting(c) /\ ~InWriting(c)' BY <2>1, <2>3 DEF InWriting
      <3>2. CopyCounts' => CopyCounts
        BY <2>1, <3>1 DEF CopyCounts, OthersStay, InWriting
      <3>3. Pending(c)' => calls'[c].seen = cache /\ CopyCounts
        BY <2>1, <2>3, <3>1 DEF Pending, CopyCounts
      <3>4. QED BY <1>2, <2>1, <2>3, <3>2, <3>3 DEF QuietMove
    <2>4. QED BY <1>4, <2>2, <2>3, LookupHitView
  <1>5. ASSUME NEW c \in Calls, LookupMiss(c) PROVE QuietMove(c)
    <2>1. /\ OthersStay(c) /\ UNCHANGED <<row, debits, given, taken, cache, outdated>>
          /\ calls[c].at = "lookup" /\ cache = None
      BY <1>5, LookupMissView DEF LookupMiss, world, history
    <2>2. CASE calls'[c] = NoCall BY <1>2, <2>1, <2>2, QuietStep DEF InWriting
    <2>3. CASE calls'[c].at = "fill" /\ calls'[c].seen = Copy(row)
      <3>1. calls'[c].seen.received = row.received BY <2>3, CopyTyped DEF TypeOK
      <3>2. ~CopyCounts' BY <2>1 DEF CopyCounts
      <3>3. QED BY <1>2, <2>1, <2>3, <3>1, <3>2 DEF QuietMove
    <2>4. QED BY <1>5, <2>2, <2>3, LookupMissView
  <1>6. ASSUME NEW c \in Calls, Fill(c) PROVE QuietMove(c)
    <2>1. /\ OthersStay(c) /\ UNCHANGED <<row, debits, given, taken>> /\ Reading(c)
          /\ calls[c].at = "fill" /\ cache' = calls[c].seen /\ outdated' = calls[c].old
      BY <1>6, FillView DEF Fill, world, Reading
    <2>2. CopyCounts' => ~calls[c].old BY <2>1 DEF CopyCounts
    <2>3. Quiet(calls'[c]) /\ (Pending(c)' => Pending(c) /\ calls'[c].seen = calls[c].seen)
      <3>1. CASE calls'[c] = NoCall BY <3>1, BlankTyped DEF Quiet, Pending, Reading
      <3>2. CASE /\ calls'[c].at \in {"write", "balance"} /\ calls'[c].amount = 0
                 /\ calls'[c].seen = calls[c].seen /\ calls'[c].old = calls[c].old
        BY <1>2, <2>1, <3>2 DEF Pending
      <3>3. QED BY <1>6, <3>1, <3>2, FillView
    <2>4. QED BY <1>2, <2>1, <2>2, <2>3 DEF QuietMove
  <1>7. ASSUME NEW c \in Calls, NotFound(c) PROVE QuietMove(c)
    <2>1. /\ OthersStay(c) /\ UNCHANGED <<row, debits, given, taken, cache, outdated>>
          /\ calls'[c] = NoCall /\ ~InWriting(c) /\ ~Transferred(c)
      BY <1>7, NotFoundView DEF NotFound, world, InWriting
    <2>2. QED BY <1>2, <2>1, QuietStep
  <1>8. ASSUME NEW c \in Calls, Change(c) PROVE AgingWrite(c)
    <2>1. /\ OthersAge(c) /\ UNCHANGED <<debits, given, taken>> /\ calls[c].at = "write"
          /\ calls'[c].at = "put" /\ spoiled' = (spoiled \/ calls[c].old)
          /\ row'.received = ReceivedAfter(calls[c])
      BY <1>8, ChangeView DEF world, Change
    <2>2. InWriting(c)' /\ ~Reading(c)' /\ Quiet(calls'[c])
      BY <2>1 DEF InWriting, Reading, Quiet
    <2>3. calls[c].amount > 0 \/ calls[c].amount = 0 BY CallOf, CallFields
    <2>4. calls[c].amount = 0 => Quiet(calls[c]) /\ ~(calls[c].amount > 0)
      BY <2>1 DEF Quiet
    <2>5. QED BY <2>1, <2>2, <2>3, <2>4 DEF AgingWrite, CopyCounts, ReceivedAfter
  <1>9. ASSUME NEW c \in Calls, Update(c) \/ Extend(c) \/ Delete(c) \/ Finish(c) \/ Revert(c)
        PROVE AgingWrite(c)
    <2>1. /\ calls[c].op # "change" /\ calls[c].at # "await"
          /\ \E step \in {"drop", "dropAgain"} : \E r :
               Written(c, step, r) /\ (step = "drop" => calls[c].op # "sync")
      BY <1>9, UpdateView, ExtendView, DeleteView, FinishView, RevertView
         DEF StatusSet, Update, Extend, Delete, Finish, Revert
    <2>2. QED BY <2>1, WrittenAges
  <1>10. ASSUME NEW c \in Calls, Put(c) PROVE QuietMove(c)
    <2>1. /\ OthersStay(c) /\ UNCHANGED <<row, debits, given, taken>>
          /\ calls[c].at = "put" /\ calls'[c].at = "drop" /\ calls'[c].op = "change"
      BY <1>10, PutView DEF Put, world, history
    <2>2. InWriting(c)' /\ ~Reading(c)' BY <2>1 DEF InWriting, Reading
    <2>3. QED BY <1>2, <2>1, <2>2, QuietStep
  <1>11. ASSUME NEW c \in Calls, Sync(c) PROVE QuietMove(c)
    <2>1. /\ OthersStay(c) /\ UNCHANGED <<row, debits, given, taken>>
          /\ calls[c].at = "write" /\ calls[c].op = "sync" /\ calls'[c].at = "drop"
          /\ calls'[c].seen = calls[c].seen /\ calls'[c].old = calls[c].old
      BY <1>11, SyncView DEF Sync, world, history
    <2>2. InWriting(c)' /\ Reading(c) BY <2>1 DEF InWriting, Reading
    <2>3. QED BY <1>2, <2>1, <2>2, QuietStep
  <1>12. ASSUME NEW c \in Calls, SetPhase(c) PROVE QuietMove(c)
    <2>1. /\ OthersStay(c) /\ UNCHANGED <<row, debits, given, taken>>
          /\ calls[c].at = "write" /\ calls[c].op = "phase" /\ calls'[c].at = "drop"
          /\ calls'[c].op = "phase"
      BY <1>12, SetPhaseView DEF SetPhase, world
    <2>2. InWriting(c)' /\ ~Reading(c)' BY <2>1 DEF InWriting, Reading
    <2>3. QED BY <1>2, <2>1, <2>2, QuietStep
  <1>13. ASSUME NEW c \in Calls, Dropped(c), UNCHANGED <<row, debits, given, taken>>,
                cache' = None \/ outdated'
         PROVE QuietMove(c)
    <2>1. OthersStay(c) /\ calls[c].at \in {"drop", "dropAgain"} BY <1>13 DEF Dropped
    <2>2. CASE calls'[c] = NoCall BY <1>2, <1>13, <2>1, <2>2, QuietStep
    <2>3. CASE /\ calls[c].at = "drop" /\ calls[c].op = "sync" /\ calls'[c].at = "revert"
               /\ calls'[c].seen = calls[c].seen /\ calls'[c].old = calls[c].old
      BY <1>2, <1>13, <2>1, <2>3, QuietStep DEF Reading
    <2>4. CASE calls'[c].at = "phases" BY <1>2, <1>13, <2>1, <2>4, QuietStep DEF Reading
    <2>5. QED BY <1>13, <2>2, <2>3, <2>4 DEF Dropped
  <1>14. ASSUME NEW c \in Calls, Drop(c) PROVE QuietMove(c)
    <2>1. UNCHANGED <<row, debits, given, taken>> BY <1>14 DEF Drop, world
    <2>2. QED BY <1>13, <1>14, <2>1, DropView
  <1>15. ASSUME NEW c \in Calls, DropSkipped(c) PROVE QuietMove(c)
    <2>1. UNCHANGED <<row, debits, given, taken, cache>> BY <1>15 DEF DropSkipped
    <2>2. QED BY <1>13, <1>15, <2>1, DropSkippedView
  <1>16. ASSUME NEW c \in Calls, LookAtPhases(c) PROVE QuietMove(c)
    <2>1. /\ OthersStay(c) /\ UNCHANGED <<row, debits, given, taken, cache, outdated>>
          /\ calls[c].at = "phases" /\ (calls'[c] = NoCall \/ calls'[c].at = "lookup")
      BY <1>16, LookAtPhasesView DEF LookAtPhases, world, history
    <2>2. QED BY <1>2, <2>1, QuietStep DEF InWriting, Reading
  <1>17. ASSUME NEW c \in Calls, CallError(c) PROVE QuietMove(c)
    <2>1. /\ OthersStay(c) /\ UNCHANGED <<row, debits, given, taken, cache>>
          /\ calls'[c] = NoCall /\ ~Transferred(c)
      BY <1>17, CallErrorView DEF CallError
    <2>2. outdated' = (outdated \/ (cache # None /\ InWriting(c))) BY <1>17 DEF CallError, Abandoned
    <2>3. outdated \in BOOLEAN BY DEF TypeOK
    <2>4. QED BY <1>2, <2>1, <2>2, <2>3, QuietStep
  <1>18. ASSUME NEW j \in Jobs, JobWrite(j) PROVE AgingWrite(None)
    <2>1. /\ OthersAge(None) /\ row'.received = row.received
          /\ UNCHANGED <<cache, debits, given, taken>> /\ (cache # None => outdated')
      BY <1>18, JobWriteView DEF world
    <2>2. None \notin Calls BY LifecycleAssumption
    <2>3. QED BY <2>1, <2>2 DEF AgingWrite, CopyCounts
  <1>19. CASE \/ Midnight \/ Expire \/ \E j \in Jobs : Find(j) \/ JobError(j)
              \/ Aside \/ UNCHANGED vars
    <2>1. OtherStep
      BY <1>19, AsideView DEF OtherStep, Midnight, Expire, Find, JobError, vars, world, history
    <2>2. QED BY <2>1
  <1>20. ASSUME NEW d \in debits, AddFails(d) \/ AddAgain(d) PROVE FALSE
    BY <1>20 DEF AddFails, AddAgain
  <1>21. ASSUME NEW c \in Calls, Late(c) PROVE FALSE
    BY <1>21, LateView
  <1>22. CASE Settle \/ AcceptCampaign
    <2>1. /\ OthersAge(None) /\ row'.received = row.received
          /\ UNCHANGED <<cache, debits, given, taken>> /\ (cache # None => outdated')
      BY <1>22, SettleView, AcceptView DEF world
    <2>2. None \notin Calls BY LifecycleAssumption
    <2>3. QED BY <2>1, <2>2 DEF AgingWrite, CopyCounts
  <1>23. QED
    BY <1>3, <1>4, <1>5, <1>6, <1>7, <1>8, <1>9, <1>10, <1>11, <1>12, <1>14, <1>15, <1>16,
       <1>17, <1>18, <1>19, <1>20, <1>21, <1>22, Zenon
       DEF Next, Handle, Serve, Run, Aside

\* Handlers that stay where they are, or only age, keep their one request.
LEMMA RequestsStay ==
    ASSUME Typed, OneRequestEach, torn = {}, NEW c, c \in Calls \/ c = None,
           OthersStay(c) \/ OthersAge(c), UNCHANGED debits,
           c \in Calls => calls[c].at # "await" /\ calls'[c].at # "await"
    PROVE  OneRequestEach'
  <1>1. ASSUME NEW d \in debits
        PROVE  /\ d.call # c /\ calls'[d.call].at = "await" /\ d.try = 1
               /\ calls'[d.call].try = 1 /\ calls'[d.call].amount = d.amount
    <2>1. d.call \in Calls BY DEF Typed, TypeOK, Debits
    <2>2. /\ calls[d.call].at = "await" /\ d.try = 1 /\ calls[d.call].try = 1
          /\ calls[d.call].amount = d.amount
      BY DEF OneRequestEach
    <2>3. d.call # c BY <2>1, <2>2
    <2>4. QED BY <2>1, <2>2, <2>3 DEF OthersStay, OthersAge
  <1>2. ASSUME NEW b \in Calls, calls'[b].at = "await" PROVE \E d \in debits : d.call = b
    <2>1. b # c BY <1>2
    <2>2. calls[b].at = "await" BY <1>2, <2>1 DEF OthersStay, OthersAge
    <2>3. QED BY <2>2 DEF OneRequestEach
  <1>3. QED BY <1>1, <1>2 DEF OneRequestEach

LEMMA RequestsServe ==
    ASSUME OneRequestEach, torn = {}, NEW d, NEW e, Serves(d, e), UNCHANGED calls
    PROVE  OneRequestEach'
  BY DEF OneRequestEach, Serves

\* No answer goes unheard while nothing goes wrong.
LEMMA NoneUnheard ==
    ASSUME Typed, OneRequestEach, torn = {}, NEW d \in debits, Unheard(d)
    PROVE  FALSE
  <1>1. d.call \in Calls BY DEF Typed, TypeOK, Debits
  <1>2. Waits(d.call, d) BY DEF OneRequestEach, Waits
  <1>3. QED BY <1>1, <1>2 DEF Unheard

\* Nobody who pays is stopped by a crash.
LEMMA CrashPays ==
    ASSUME Typed, OneRequestEach, torn = {}, torn' = {}, Crash
    PROVE  Paying = {} /\ debits = {} /\ debits' = {} /\ \A c \in Calls : calls'[c] = NoCall
  <1>1. ASSUME NEW c \in Calls PROVE Quiet(calls[c])
    <2>1. ~Transferred(c) BY CrashView DEF Typed
    <2>2. calls[c].amount \in Nat /\ Checked(calls[c]) BY CallOf, CallFields DEF Typed
    <2>3. QED BY <2>1, <2>2 DEF Quiet, Transferred, Checked
  <1>2. ASSUME NEW d \in debits PROVE FALSE
    <2>1. d.call \in Calls BY DEF Typed, TypeOK, Debits
    <2>2. QED BY <1>1, <2>1 DEF OneRequestEach, Quiet
  <1>3. Paying = {}
    <2>1. \A c \in Calls : c \notin Paying BY <1>1, QuietPays
    <2>2. QED BY <2>1 DEF Paying
  <1>4. UNCHANGED debits BY DEF Crash
  <1>5. QED BY <1>2, <1>3, <1>4, CrashView DEF Typed

LEMMA RequestsStep ==
    ASSUME Typed, OneRequestEach, [Next]_vars
    PROVE  OneRequestEach'
  <1>0. SUFFICES ASSUME torn' = {} PROVE OneRequestEach'
    BY DEF OneRequestEach
  <1>1. torn = {} BY <1>0, TornGrows DEF Typed
  <1>2. None \notin Calls BY LifecycleAssumption
  <1>3. ASSUME NEW c \in Calls, QuietMove(c) PROVE OneRequestEach'
    BY <1>1, <1>3, RequestsStay DEF QuietMove, Quiet
  <1>4. ASSUME NEW c, c \in Calls \/ c = None, AgingWrite(c) PROVE OneRequestEach'
    BY <1>1, <1>2, <1>4, RequestsStay DEF AgingWrite, Quiet
  <1>5. ASSUME NEW c \in Calls, Balance(c) PROVE OneRequestEach'
    <2>1. OthersStay(c) /\ calls[c].at = "balance" BY <1>5, BalanceView DEF Typed
    <2>2. CASE calls'[c].at = "write" /\ UNCHANGED debits
      BY <1>1, <2>1, <2>2, RequestsStay
    <2>3. CASE /\ calls'[c].at = "await" /\ calls'[c].try = 1
               /\ calls'[c].amount \in 1 .. Target
               /\ debits' = debits \union {Debit(c, 1, calls'[c].amount)}
      <3>1. PICK e : e = Debit(c, 1, calls'[c].amount) OBVIOUS
      <3>2. e.call = c /\ e.try = 1 /\ e.amount = calls'[c].amount BY <3>1 DEF Debit
      <3>3. \A d \in debits : d.call # c /\ d.call \in Calls
        BY <2>1, NoDebitsYet DEF Typed, TypeOK, Debits
      <3>4. debits' = debits \union {e} BY <2>3, <3>1
      <3>5. ASSUME NEW d \in debits'
            PROVE  /\ calls'[d.call].at = "await" /\ d.try = 1
                   /\ calls'[d.call].try = 1 /\ calls'[d.call].amount = d.amount
        <4>1. CASE d = e BY <2>3, <3>2, <4>1
        <4>2. CASE d # e
          BY <1>1, <2>1, <3>3, <3>4, <4>2 DEF OneRequestEach, OthersStay
        <4>3. QED BY <4>1, <4>2
      <3>6. ASSUME NEW b \in Calls, calls'[b].at = "await"
            PROVE  \E d \in debits' : d.call = b
        <4>1. CASE b = c BY <3>2, <3>4, <4>1
        <4>2. CASE b # c BY <1>1, <2>1, <3>4, <3>6, <4>2 DEF OneRequestEach, OthersStay
        <4>3. QED BY <4>1, <4>2
      <3>7. QED BY <3>5, <3>6 DEF OneRequestEach
    <2>4. QED BY <1>5, <2>2, <2>3, BalanceView DEF Typed
  <1>6. ASSUME NEW c \in Calls, Answer(c) PROVE OneRequestEach'
    <2>1. OthersStay(c) /\ calls'[c].at = "write" BY <1>6, AnswerView DEF Typed
    <2>2. PICK d \in debits : d.call = c /\ debits' = debits \ {d}
      BY <1>6, AnswerView DEF Typed
    <2>3. ASSUME NEW f \in debits'
          PROVE  /\ calls'[f.call].at = "await" /\ f.try = 1
                 /\ calls'[f.call].try = 1 /\ calls'[f.call].amount = f.amount
      <3>1. f \in debits /\ f # d /\ f.call \in Calls BY <2>2 DEF Typed, TypeOK, Debits
      <3>2. f.try = 1 /\ d.try = 1 BY <1>1, <3>1 DEF OneRequestEach
      <3>3. f.call # c BY <2>2, <3>1, <3>2 DEF Typed, DebitsOfCalls
      <3>4. QED BY <1>1, <2>1, <3>1, <3>3 DEF OneRequestEach, OthersStay
    <2>4. ASSUME NEW b \in Calls, calls'[b].at = "await" PROVE \E f \in debits' : f.call = b
      <3>1. b # c BY <2>1, <2>4
      <3>2. calls[b].at = "await" BY <2>1, <2>4, <3>1 DEF OthersStay
      <3>3. QED BY <1>1, <2>2, <3>1, <3>2 DEF OneRequestEach
    <2>5. QED BY <2>3, <2>4 DEF OneRequestEach
  <1>7. CASE Crash
    <2>1. debits' = {} /\ \A c \in Calls : calls'[c] = NoCall
      BY <1>0, <1>1, <1>7, CrashPays
    <2>2. QED BY <2>1, BlankTyped DEF OneRequestEach
  <1>8. ASSUME NEW d \in debits, \E e : Serves(d, e), UNCHANGED calls PROVE OneRequestEach'
    BY <1>1, <1>8, RequestsServe
  <1>9. ASSUME NEW d \in debits, DebitWallet(d) \/ AddRead(d) \/ AddWrite(d) \/ AddDrop(d)
        PROVE OneRequestEach'
    BY <1>8, <1>9, DebitWalletView, AddReadView, AddWriteView, AddDropView DEF Typed
  <1>10. CASE Donate \/ OtherStep
    <2>1. UNCHANGED <<calls, debits>> BY <1>10 DEF Donate, OtherStep
    <2>2. torn' = torn BY <1>0, <1>1
    <2>3. QED BY <2>1, <2>2 DEF OneRequestEach
  <1>11. QED
    BY <1>0, <1>1, <1>3, <1>4, <1>5, <1>6, <1>7, <1>9, <1>10, NoneUnheard, MoneySteps

-----------------------------------------------------------------------------
\* Those who pay go on paying, and what the others have read is the row.
LEMMA SumsStay ==
    ASSUME SumsAreRight, torn = {}, ~spoiled, Paying' = Paying,
           row'.received = row.received, UNCHANGED <<given, taken>>,
           \A c \in Calls : Paying = {c} /\ ~calls'[c].old =>
              /\ ~calls[c].old /\ calls'[c].seen = calls[c].seen
              /\ calls'[c].amount = calls[c].amount,
           \A c \in Calls : Paying = {} /\ Pending(c)' =>
              \/ Pending(c) /\ calls'[c].seen = calls[c].seen
              \/ calls'[c].seen.received = row.received
              \/ calls'[c].seen = cache /\ CopyCounts,
           CopyCounts' =>
              \/ cache' = cache /\ CopyCounts
              \/ \E c \in Calls : cache' = calls[c].seen /\ Reading(c) /\ ~calls[c].old
    PROVE  SumsAreRight'
  <1>1. ASSUME NEW c \in Calls PROVE SumRight(c)'
    BY DEF SumsAreRight, SumRight
  <1>2. CASE Paying = {}
    <2>1. RowRight /\ CopyRight /\ \A c \in Calls : ReadRight(c)
      BY <1>2 DEF SumsAreRight
    <2>2. RowRight' BY <2>1 DEF RowRight
    <2>3. ASSUME NEW c \in Calls, Pending(c)' PROVE calls'[c].seen.received = row'.received
      <3>1. CASE Pending(c) /\ calls'[c].seen = calls[c].seen
        BY <2>1, <3>1 DEF ReadRight
      <3>2. CASE calls'[c].seen.received = row.received BY <3>2
      <3>3. CASE calls'[c].seen = cache /\ CopyCounts
        <4>1. cache.status = "PENDING" BY <2>3, <3>3 DEF Pending
        <4>2. QED BY <2>1, <3>3, <4>1 DEF CopyRight
      <3>4. QED BY <1>2, <2>3, <3>1, <3>2, <3>3
    <2>4. ASSUME CopyCounts', cache'.status = "PENDING" PROVE cache'.received = row'.received
      <3>1. CASE cache' = cache /\ CopyCounts BY <2>1, <2>4, <3>1 DEF CopyRight
      <3>2. ASSUME NEW c \in Calls, cache' = calls[c].seen, Reading(c), ~calls[c].old
            PROVE  cache'.received = row'.received
        BY <2>1, <2>4, <3>2 DEF ReadRight, Pending
      <3>3. QED BY <2>4, <3>1, <3>2
    <2>5. QED BY <1>1, <2>2, <2>3, <2>4 DEF SumsAreRight, ReadRight, CopyRight
  <1>3. CASE Paying # {} BY <1>1, <1>3 DEF SumsAreRight
  <1>4. QED BY <1>2, <1>3

\* After a write all other readings are old.
LEMMA SumsAge ==
    ASSUME Typed, SumsAreRight, OneRequestEach, OneRequestEach', torn = {}, torn' = {},
           ~spoiled, ~spoiled', NEW c, c \in Calls \/ c = None, AgingWrite(c)
    PROVE  SumsAreRight'
  <1>0. None \notin Calls BY LifecycleAssumption
  <1>1. Paying' = Paying \ {c}
    <2>1. ASSUME NEW b \in Calls, b # c PROVE b \in Paying' <=> b \in Paying
      BY <2>1 DEF Paying, AgingWrite, OthersAge
    <2>2. c \in Calls => c \notin Paying' BY QuietPays DEF AgingWrite
    <2>3. QED BY <1>0, <2>1, <2>2 DEF Paying
  <1>2. ASSUME NEW b \in Calls, b # c, calls'[b].at \notin {"idle", "lookup"}
        PROVE  calls'[b].old = TRUE
    BY <1>2 DEF AgingWrite, OthersAge
  <1>3. ASSUME NEW b \in Calls PROVE ~Pending(b)'
    <2>1. CASE b = c BY <2>1 DEF AgingWrite, Pending
    <2>2. CASE b # c BY <1>2, <2>2 DEF Pending, Reading
    <2>3. QED BY <2>1, <2>2
  <1>4. ASSUME NEW b \in Calls PROVE SumRight(b)'
    <2>1. SUFFICES ASSUME Paying' = {b} PROVE calls'[b].old = TRUE
      BY DEF SumRight
    <2>2. b # c /\ b \in Paying BY <1>1, <2>1
    <2>3. calls[b].at = "write" \/ calls[b].at = "await"
      BY <2>2 DEF Paying, OneRequestEach
    <2>4. calls'[b].at = calls[b].at BY <2>2 DEF AgingWrite, OthersAge
    <2>5. QED BY <1>2, <2>2, <2>3, <2>4
  <1>5. ASSUME Paying' = {} PROVE RowRight'
    <2>1. given' = given /\ taken' = taken BY DEF AgingWrite
    <2>2. CASE row'.received = row.received /\ (c \in Calls => Quiet(calls[c]))
      <3>1. c \notin Paying BY <1>0, <2>2, QuietPays DEF Paying
      <3>2. Paying = {} BY <1>1, <1>5, <3>1
      <3>3. QED BY <2>1, <2>2, <3>2 DEF SumsAreRight, RowRight
    <2>3. CASE /\ c \in Calls /\ calls[c].at = "write" /\ calls[c].amount > 0
               /\ row'.received = calls[c].seen.received + calls[c].amount
               /\ ~spoiled' => ~calls[c].old
      <3>1. c \in Paying BY <2>3 DEF Paying
      <3>2. Paying = {c} BY <1>1, <1>5, <3>1
      <3>3. QED BY <2>1, <2>3, <3>2 DEF SumsAreRight, SumRight, RowRight
    <2>4. QED BY <2>2, <2>3 DEF AgingWrite
  <1>6. ~CopyCounts' BY DEF AgingWrite
  <1>7. QED BY <1>3, <1>4, <1>5, <1>6 DEF SumsAreRight, ReadRight, CopyRight

\* A request that goes on carries the same money.
LEMMA SumsServe ==
    ASSUME SumsAreRight, torn = {}, ~spoiled, NEW d, NEW e, Serves(d, e),
           d.at \in {"read", "add", "drop", "ok"} <=> e.at \in {"read", "add", "drop", "ok"},
           UNCHANGED <<calls, given, taken>>,
           \/ d.at \in {"read", "add", "drop", "ok"} /\ d.call \in Calls
           \/ UNCHANGED <<row, cache, outdated>>
    PROVE  SumsAreRight'
  <1>1. Paying' = Paying
    BY DEF Paying, Serves
  <1>2. CASE d.at \in {"read", "add", "drop", "ok"} /\ d.call \in Calls
    <2>1. d.call \in Paying BY <1>2 DEF Paying, Serves
    <2>2. QED BY <1>1, <2>1 DEF SumsAreRight, SumRight
  <1>3. CASE UNCHANGED <<row, cache, outdated>>
    BY <1>1, <1>3, SumsStay DEF CopyCounts, InWriting, Pending, Reading
  <1>4. QED BY <1>2, <1>3

\* The wallet is debited: whoever is the only one to pay knows what the campaign has.
LEMMA SumsDebit ==
    ASSUME Typed, SumsAreRight, OneRequestEach, torn = {}, ~spoiled,
           NEW d \in debits, DebitWallet(d)
    PROVE  SumsAreRight'
  <1>1. PICK e : /\ Serves(d, e)
                 /\ \/ e.at = "failed" /\ taken' = taken
                    \/ e.at = "read" /\ taken' = taken + d.amount
    BY DebitWalletView DEF Typed
  <1>2. d.at = "debit" /\ UNCHANGED <<row, cache, calls, given, outdated>>
    BY DebitWalletView DEF Typed
  <1>3. CASE e.at = "failed" BY <1>1, <1>2, <1>3, SumsServe
  <1>4. CASE e.at = "read" /\ taken' = taken + d.amount
    <2> DEFINE c == d.call
    <2>1. c \in Calls BY DEF Typed, TypeOK, Debits
    <2>2. calls[c].at = "await" /\ calls[c].amount = d.amount BY DEF OneRequestEach
    <2>3. \A f \in debits : f.call = c => f = d BY DEF OneRequestEach, Typed, DebitsOfCalls
    <2>4. c \notin Paying BY <1>2, <2>2, <2>3 DEF Paying
    <2>5. Paying' = Paying \union {c}
      <3>1. ASSUME NEW b \in Calls PROVE b \in Paying' <=> b \in Paying \/ b = c
        BY <1>1, <1>2, <1>4 DEF Paying, Serves
      <3>2. QED BY <2>1, <3>1 DEF Paying
    <2> HIDE DEF c
    <2>6. ASSUME NEW b \in Calls, Paying' = {b}, ~calls'[b].old
          PROVE  calls'[b].seen.received + calls'[b].amount = given' + taken'
      <3>1. b = c /\ Paying = {} BY <2>4, <2>5, <2>6
      <3>2. RowRight /\ ReadRight(c) BY <2>1, <3>1 DEF SumsAreRight
      <3>3. calls[c].seen.status = "PENDING" BY <2>1, <2>2, CallOf DEF Typed, Checked
      <3>4. Pending(c) BY <1>2, <2>2, <2>6, <3>1, <3>3 DEF Pending, Reading
      <3>5. calls[c].seen.received = given + taken BY <3>2, <3>4 DEF RowRight, ReadRight
      <3>6. given \in Nat /\ taken \in Nat /\ d.amount \in Nat
        BY AmountsTyped DEF Typed, TypeOK
      <3>7. QED BY <1>2, <1>4, <2>2, <3>1, <3>5, <3>6
    <2>7. QED BY <2>5, <2>6 DEF SumsAreRight, SumRight
  <1>5. QED BY <1>1, <1>3, <1>4

\* Donations come in when nobody can have read the campaign as pending.
LEMMA SumsDonate ==
    ASSUME Typed, Current, SumsAreRight, OneRequestEach, torn = {}, ~spoiled, Donate
    PROVE  SumsAreRight'
  <1>1. /\ row.status = "ACTIVE" /\ given' = given + 1 /\ row'.received = row.received + 1
        /\ UNCHANGED <<cache, calls, debits, taken, outdated>>
    BY DonateView DEF Typed, history
  <1>2. Paying' = Paying BY <1>1 DEF Paying
  <1>3. ASSUME NEW c \in Calls PROVE ~Pending(c)
    BY <1>1 DEF Pending, Current, ReadingIsRow
  <1>4. CopyCounts => cache.status # "PENDING"
    BY <1>1 DEF CopyCounts, Current, CopyIsCurrent
  <1>5. ASSUME NEW c \in Calls, c \in Paying PROVE calls[c].old
    <2>1. calls[c].at = "await" \/ (calls[c].at = "write" /\ calls[c].amount > 0)
      BY <1>5 DEF Paying, OneRequestEach
    <2>2. calls[c].seen.status = "PENDING" BY <2>1, CallOf DEF Typed, Checked
    <2>3. calls[c].old \in BOOLEAN BY CallOf, CallFields DEF Typed
    <2>4. QED BY <1>3, <2>1, <2>2, <2>3 DEF Pending, Reading
  <1>6. given \in Nat /\ taken \in Nat BY DEF Typed, TypeOK
  <1>7. ASSUME NEW c \in Calls PROVE SumRight(c)'
    BY <1>1, <1>2, <1>5 DEF SumRight
  <1>8. ASSUME Paying = {} PROVE RowRight' /\ CopyRight' /\ \A c \in Calls : ReadRight(c)'
    <2>1. RowRight' BY <1>1, <1>6, <1>8 DEF SumsAreRight, RowRight
    <2>2. CopyCounts' <=> CopyCounts BY <1>1 DEF CopyCounts, InWriting
    <2>3. CopyRight' BY <1>1, <1>4, <2>2 DEF CopyRight
    <2>4. \A c \in Calls : ReadRight(c)' BY <1>1, <1>3 DEF ReadRight, Pending, Reading
    <2>5. QED BY <2>1, <2>3, <2>4
  <1>9. QED BY <1>2, <1>7, <1>8 DEF SumsAreRight

\* The handler asks for a transfer, or for none.
LEMMA SumsAsk ==
    ASSUME Typed, SumsAreRight, OneRequestEach, OneRequestEach', torn = {}, torn' = {}, ~spoiled,
           NEW c \in Calls, Balance(c)
    PROVE  SumsAreRight'
  <1>1. /\ OthersStay(c) /\ calls[c].at = "balance" /\ calls'[c].seen = calls[c].seen
        /\ calls'[c].old = calls[c].old
        /\ UNCHANGED <<row, cache, outdated, given, taken>>
    BY BalanceView DEF Typed, Balance, world, history
  <1>2. c \notin Paying /\ \A d \in debits : d.call # c
    BY <1>1, QuietPays DEF Quiet
  <1>3. CASE calls'[c].at = "write" /\ calls'[c].amount = 0 /\ UNCHANGED debits
    <2>1. c \notin Paying' BY <1>3, QuietPays DEF Quiet
    <2>2. \A b \in Calls : b # c => (b \in Paying' <=> b \in Paying)
      BY <1>1, <1>3 DEF Paying, OthersStay
    <2>3. Paying' = Paying BY <1>2, <2>1, <2>2 DEF Paying
    <2>4. QED BY <1>1, <1>2, <1>3, <2>3, SumsStay
            DEF CopyCounts, InWriting, Pending, Reading, OthersStay
  <1>4. CASE /\ calls'[c].at = "await"
             /\ debits' = debits \union {Debit(c, 1, calls'[c].amount)}
    <2>1. PICK e : e = Debit(c, 1, calls'[c].amount) OBVIOUS
    <2>2. e.at = "debit" /\ e.call = c BY <2>1 DEF Debit
    <2>3. debits' = debits \union {e} BY <1>4, <2>1
    <2>4. c \notin Paying' BY <1>2, <1>4, <2>2, <2>3 DEF Paying
    <2>5. \A b \in Calls : b # c => (b \in Paying' <=> b \in Paying)
      BY <1>1, <2>2, <2>3 DEF Paying, OthersStay
    <2>6. Paying' = Paying BY <1>2, <2>4, <2>5 DEF Paying
    <2>7. QED BY <1>1, <1>2, <1>4, <2>6, SumsStay
            DEF CopyCounts, InWriting, Pending, Reading, OthersStay
  <1>5. QED BY <1>3, <1>4, BalanceView DEF Typed

\* It has its answer, and pays what was debited.
LEMMA SumsAnswered ==
    ASSUME Typed, SumsAreRight, OneRequestEach, torn = {}, ~spoiled, NEW c \in Calls, Answer(c)
    PROVE  SumsAreRight'
  <1>1. /\ OthersStay(c) /\ calls[c].at = "await" /\ calls'[c].at = "write"
        /\ calls'[c].seen = calls[c].seen /\ calls'[c].old = calls[c].old
        /\ UNCHANGED <<row, cache, outdated, given, taken>>
    BY AnswerView DEF Typed, Answer, world, history
  <1>2. PICK d \in debits : /\ d.call = c /\ d.at \in {"ok", "failed"}
                            /\ debits' = debits \ {d}
                            /\ calls'[c].amount = IF d.at = "ok" THEN d.amount ELSE 0
    BY AnswerView DEF Typed
  <1>3. \A f \in debits : f.call = c => f = d
    BY <1>2 DEF OneRequestEach, Typed, DebitsOfCalls
  <1>4. calls[c].amount = d.amount /\ d.amount > 0 /\ ~(0 > 0)
    BY <1>2, AmountsTyped DEF OneRequestEach, Typed
  <1>5. c \in Paying <=> d.at = "ok" BY <1>1, <1>2, <1>3 DEF Paying
  <1>6. c \in Paying' <=> d.at = "ok"
    BY <1>1, <1>2, <1>3, <1>4 DEF Paying
  <1>7. \A b \in Calls : b # c => (b \in Paying' <=> b \in Paying)
    BY <1>1, <1>2 DEF Paying, OthersStay
  <1>8. Paying' = Paying BY <1>5, <1>6, <1>7 DEF Paying
  <1>9. \A b \in Calls : Pending(b)' => Pending(b) /\ calls'[b].seen = calls[b].seen
    BY <1>1 DEF Pending, Reading, OthersStay
  <1>10. CopyCounts' <=> CopyCounts BY <1>1 DEF CopyCounts, InWriting, OthersStay
  <1>11. ASSUME NEW b \in Calls, Paying = {b}, ~calls'[b].old
         PROVE  /\ ~calls[b].old /\ calls'[b].seen = calls[b].seen
                /\ calls'[b].amount = calls[b].amount
    <2>1. CASE b = c BY <1>1, <1>2, <1>4, <1>5, <1>11, <2>1
    <2>2. CASE b # c BY <1>1, <1>11, <2>2 DEF OthersStay
    <2>3. QED BY <2>1, <2>2
  <1>12. QED BY <1>1, <1>8, <1>9, <1>10, <1>11, SumsStay

LEMMA SpoiledStays ==
    ASSUME TypeOK, CallsChecked, [Next]_vars, spoiled
    PROVE  spoiled'
  <1>1. ASSUME NEW c \in Calls, NEW step, NEW r, Written(c, step, r) PROVE spoiled'
    BY <1>1 DEF Written
  <1>2. ASSUME NEW c \in Calls, Update(c) \/ Extend(c) \/ Delete(c) \/ Finish(c) \/ Revert(c)
        PROVE spoiled'
    BY <1>1, <1>2, UpdateView, ExtendView, DeleteView, FinishView, RevertView DEF StatusSet
  <1>3. QED BY <1>2, RowSteps, ChangeView, SetPhaseView, AddWriteView, DonateView,
               JobWriteView, SettleView, AcceptView
          DEF history

LEMMA SumsStep ==
    ASSUME Typed, Current, SumsAreRight, OneRequestEach, OneRequestEach', [Next]_vars
    PROVE  SumsAreRight'
  <1>0. SUFFICES ASSUME torn' = {}, ~spoiled' PROVE SumsAreRight'
    BY DEF SumsAreRight
  <1>1. torn = {} /\ ~spoiled BY <1>0, TornGrows, SpoiledStays DEF Typed
  <1>2. ASSUME NEW c \in Calls, QuietMove(c) PROVE SumsAreRight'
    <2>1. c \notin Paying /\ c \notin Paying' BY <1>0, <1>1, <1>2, QuietPays DEF QuietMove
    <2>2. \A b \in Calls : b # c => (b \in Paying' <=> b \in Paying)
      BY <1>2 DEF Paying, QuietMove, OthersStay
    <2>3. Paying' = Paying BY <2>1, <2>2 DEF Paying
    <2>4. \A b \in Calls : Paying = {b} /\ ~calls'[b].old =>
              /\ ~calls[b].old /\ calls'[b].seen = calls[b].seen
              /\ calls'[b].amount = calls[b].amount
      BY <1>2, <2>1 DEF QuietMove, OthersStay
    <2>5. ASSUME NEW b \in Calls, Pending(b)'
          PROVE  \/ Pending(b) /\ calls'[b].seen = calls[b].seen
                 \/ calls'[b].seen.received = row.received
                 \/ calls'[b].seen = cache /\ CopyCounts
      <3>1. CASE b = c BY <1>2, <2>5, <3>1 DEF QuietMove
      <3>2. CASE b # c BY <1>2, <2>5, <3>2 DEF QuietMove, OthersStay, Pending, Reading
      <3>3. QED BY <3>1, <3>2
    <2>6. QED BY <1>1, <1>2, <2>3, <2>4, <2>5, SumsStay DEF QuietMove
  <1>3. ASSUME NEW c, c \in Calls \/ c = None, AgingWrite(c) PROVE SumsAreRight'
    BY <1>0, <1>1, <1>3, SumsAge
  <1>4. ASSUME NEW c \in Calls, Balance(c) \/ Answer(c) PROVE SumsAreRight'
    BY <1>0, <1>1, <1>4, SumsAsk, SumsAnswered
  <1>5. CASE Crash
    <2>1. /\ Paying = {} /\ debits' = {} /\ \A c \in Calls : calls'[c] = NoCall
      BY <1>0, <1>1, <1>5, CrashPays
    <2>2. UNCHANGED <<row, cache, given, taken>> BY <1>5 DEF Crash
    <2>3. \A c \in Calls : c \notin Paying' /\ ~Pending(c)'
      BY <2>1, BlankTyped DEF Paying, Pending, Reading
    <2>4. Paying' = Paying BY <2>1, <2>3 DEF Paying
    <2>5. CopyCounts' => cache' = cache /\ CopyCounts
      BY <1>5, <2>2, CrashView DEF CopyCounts, Typed
    <2>6. QED BY <1>1, <2>1, <2>2, <2>3, <2>4, <2>5, SumsStay
  <1>6. CASE Donate BY <1>1, <1>6, SumsDonate
  <1>7. CASE OtherStep
    <2>1. Paying' = Paying
      <3>1. UNCHANGED <<calls, debits>> BY <1>7 DEF OtherStep
      <3>2. QED BY <3>1 DEF Paying
    <2>2. \A c \in Calls : Pending(c)' => Pending(c) /\ calls'[c] = calls[c]
      BY <1>7 DEF OtherStep, Pending, Reading
    <2>3. CopyCounts' => cache' = cache /\ CopyCounts
      BY <1>7 DEF OtherStep, CopyCounts, InWriting
    <2>4. UNCHANGED <<row, calls, given, taken>> BY <1>7 DEF OtherStep
    <2>5. QED BY <1>1, <2>1, <2>2, <2>3, <2>4, SumsStay
  <1>8. ASSUME NEW d \in debits, DebitWallet(d) PROVE SumsAreRight'
    BY <1>1, <1>8, SumsDebit
  <1>9. ASSUME NEW d \in debits, AddRead(d) \/ AddWrite(d) \/ AddDrop(d) PROVE SumsAreRight'
    <2>1. d.call \in Calls BY DEF Typed, TypeOK, Debits
    <2>2. UNCHANGED <<calls, given, taken>>
      BY <1>9 DEF AddRead, AddWrite, AddDrop, world, history
    <2>3. \E e : /\ Serves(d, e) /\ d.at \in {"read", "add", "drop", "ok"}
                 /\ e.at \in {"read", "add", "drop", "ok"}
      BY <1>9, AddReadView, AddWriteView, AddDropView DEF Typed
    <2>4. QED BY <1>1, <2>1, <2>2, <2>3, SumsServe
  <1>10. QED
    BY <1>0, <1>1, <1>2, <1>3, <1>4, <1>5, <1>6, <1>7, <1>8, <1>9, NoneUnheard, MoneySteps

MoneyKept == NothingExceeds /\ OneRequestEach /\ SumsAreRight

LEMMA MoneyInit == Init => DebitsOfCalls /\ MoneyKept
  <1> SUFFICES ASSUME Init PROVE DebitsOfCalls /\ MoneyKept OBVIOUS
  <1>1. /\ debits = {} /\ given = 0 /\ taken = 0 /\ row.received = 0 /\ cache = None
        /\ \A c \in Calls : calls[c] = NoCall
    BY DEF Init
  <1>2. DebitsOfCalls BY <1>1, FS_EmptySet DEF DebitsOfCalls
  <1>3. OneRequestEach BY <1>1, BlankTyped DEF OneRequestEach
  <1>4. \A c \in Calls : c \notin Paying /\ ~Pending(c)
    BY <1>1, BlankTyped DEF Paying, Pending, Reading
  <1>5. RowRight /\ ~CopyCounts BY <1>1 DEF RowRight, CopyCounts
  <1>6. SumsAreRight BY <1>4, <1>5 DEF SumsAreRight, SumRight, ReadRight, CopyRight
  <1>7. QED BY <1>2, <1>3, <1>6, ExceedsInit DEF MoneyKept

\* Campaign and wallet: what the campaign shows never exceeds what donors and the wallet
\* gave unless an addition was repeated, and is exactly that once no approval is in
\* progress, unless a transfer went wrong or one was written on an outdated reading.
THEOREM TransfersArrive == Spec => []WalletMoneyArrives
  <1>1. Init => DebitsOfCalls /\ MoneyKept BY MoneyInit
  <1>2. Decided /\ Decided' /\ (DebitsOfCalls /\ MoneyKept) /\ [Next]_vars
          => (DebitsOfCalls /\ MoneyKept)'
    <2> SUFFICES ASSUME Decided, Decided', DebitsOfCalls, MoneyKept, [Next]_vars
                 PROVE  DebitsOfCalls' /\ MoneyKept'
      OBVIOUS
    <2>1. DebitsOfCalls' BY DebitsStep DEF Decided
    <2>2. Typed /\ Typed' BY <2>1 DEF Typed, Decided
    <2>3. NothingExceeds' BY <2>2, ExceedsStep DEF MoneyKept
    <2>4. OneRequestEach' BY <2>2, RequestsStep DEF MoneyKept
    <2>5. SumsAreRight' BY <2>2, <2>4, SumsStep DEF MoneyKept, Decided
    <2>6. QED BY <2>1, <2>3, <2>4, <2>5 DEF MoneyKept
  <1>3. Decided /\ DebitsOfCalls /\ MoneyKept => WalletMoneyArrives
    <2> SUFFICES ASSUME Decided, DebitsOfCalls, MoneyKept PROVE WalletMoneyArrives
      OBVIOUS
    <2>1. Typed BY DEF Typed, Decided
    <2>2. ASSUME "again" \notin torn PROVE row.received <= given + taken
      <3>1. row.received <= Arrived BY <2>2 DEF MoneyKept, NothingExceeds
      <3>2. /\ Carried \in Nat /\ given \in Nat /\ taken \in Nat /\ row.received \in Nat
        BY <2>1, AmountsTyped, RowTyped DEF Typed, TypeOK
      <3>3. QED BY <3>1, <3>2, ArrivedIs
    <2>3. ASSUME debits = {}, torn = {}, ~spoiled,
                 \A c \in Calls : calls[c].op = "change" => calls[c].at \notin {"await", "write"}
          PROVE  row.received = given + taken
      <3>1. ASSUME NEW c \in Calls PROVE c \notin Paying
        <4>1. Checked(calls[c]) BY <2>1, CallOf DEF Typed
        <4>2. QED BY <2>3, <4>1 DEF Paying, Checked
      <3>2. Paying = {} BY <3>1 DEF Paying
      <3>3. QED BY <2>3, <3>2 DEF MoneyKept, SumsAreRight, RowRight
    <2>4. QED BY <2>2, <2>3 DEF WalletMoneyArrives
  <1>4. QED BY <1>1, <1>2, <1>3, DecidedInvariant, PTL DEF Spec
====
