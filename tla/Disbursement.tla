---- MODULE Disbursement ----
(***************************************************************************)
(* How the money of one campaign phase is given out (apps/operation:       *)
(* ingredient-request, operation-request and inflow-transaction services): *)
(* requests for ingredients, cooking and delivery, their review, their     *)
(* disbursement, its confirmation by the fundraiser, and the phase status  *)
(* these handlers set in the campaign service.                             *)
(*                                                                         *)
(* A handler is a job of several steps that end at an await; every check   *)
(* it makes may be stale when it writes, and no write has a condition.     *)
(***************************************************************************)
EXTENDS Naturals, Sequences, FiniteSets, Functions

CONSTANTS
    Requests,    \* requests staff may create
    Kind,        \* Kind[r]: "INGREDIENT", "COOKING" or "DELIVERY"
    User,        \* User[r]: who creates request r
    Cost,        \* Cost[r]: its total cost
    Budget,      \* Budget[k]: the phase's funds for requests of kind k
    FirstPhases, \* the status of the phase before the first of these requests, one of
    Jobs,        \* bound: handlers in progress at once
    MaxFlows,    \* bound: inflow transactions
    MaxMoves,    \* bound: moves of the phase by the fundraiser
    MaxFaults    \* bound: faults

Kinds == {"INGREDIENT", "COOKING", "DELIVERY"}

\* The phases in order.
Chain == <<"PLANNING", "AWAITING_INGREDIENT_DISBURSEMENT", "INGREDIENT_PURCHASE",
           "AWAITING_COOKING_DISBURSEMENT", "COOKING",
           "AWAITING_DELIVERY_DISBURSEMENT", "DELIVERY">>
Ends == {"COMPLETED", "FAILED", "CANCELLED"}
PhaseStatuses == Range(Chain) \union Ends

ASSUME DisbursementAssumption ==
    /\ IsFiniteSet(Requests)
    /\ Kind \in [Requests -> Kinds]
    /\ Cost \in [Requests -> Nat \ {0}]
    /\ Budget \in [Kinds -> Nat] /\ FirstPhases \subseteq PhaseStatuses
    /\ MaxFlows \in Nat /\ MaxMoves \in Nat /\ MaxFaults \in Nat

VARIABLES
    phase,    \* the phase's status, in the campaign service
    status,   \* status[r]: the status of request r, NONE before it exists
    flows,    \* inflow transactions, in the order of creation
    surplus,  \* surplus[r]: credits of the surplus of r to the fundraiser's wallet
    jobs,     \* jobs[j]: the handler in progress in j
    faults,   \* faults so far
    byHand,   \* how often the fundraiser has moved the phase since
    crossed,  \* history: kinds of which two handlers overlapped
    twice     \* history: requests of which two disbursements or confirmations did

rows    == <<phase, status, flows, surplus>>
history == <<byHand, crossed, twice>>
vars    == <<rows, jobs, faults, history>>

\* Where a request of kind k leaves the phase when it is created, and disbursed.
Awaiting(k) == CASE k = "INGREDIENT" -> Chain[2] [] k = "COOKING" -> Chain[4]
                 [] k = "DELIVERY" -> Chain[6]
\* Mutant: every disbursement starts the purchase of ingredients.
Disbursed_Purchase(k) == Chain[3]

Disbursed(k) == CASE k = "INGREDIENT" -> Chain[3] [] k = "COOKING" -> Chain[5]
                  [] k = "DELIVERY" -> Chain[7]
\* Mutant: a cooking or delivery request may follow another one, as an ingredient
\* request may.
Open_Awaiting(k) == CASE k = "INGREDIENT" -> {Chain[1], Chain[2]}
                      [] k = "COOKING" -> {Chain[3], Chain[4]}
                      [] k = "DELIVERY" -> {Chain[5], Chain[6]}

\* The statuses in which a request may be created.
Open(k) == CASE k = "INGREDIENT" -> {Chain[1], Chain[2]} [] k = "COOKING" -> {Chain[3]}
             [] k = "DELIVERY" -> {Chain[5]}

RequestStatuses == {"PENDING", "APPROVED", "REJECTED", "DISBURSED"}
Active == {"PENDING", "APPROVED", "DISBURSED"}
NoJob == [op |-> "none"]
Idle(j) == jobs[j].op = "none"

Init ==
    /\ phase \in FirstPhases
    /\ status = [r \in Requests |-> "NONE"]
    /\ flows = <<>>
    /\ surplus = [r \in Requests |-> 0]
    /\ jobs = [j \in Jobs |-> NoJob]
    /\ faults = 0
    /\ byHand = 0 /\ crossed = {} /\ twice = {}

-----------------------------------------------------------------------------
(* Jobs.                                                                   *)

On(r) == {j \in Jobs : ~Idle(j) /\ jobs[j].op # "move" /\ jobs[j].request = r}
OfKind(k) == UNION {On(r) : r \in {q \in Requests : Kind[q] = k}}
Paying(r) == {j \in On(r) : jobs[j].op \in {"inflow", "confirm"}}

\* A handler starts: what overlaps with it is remembered.
Start(j, job) ==
    /\ jobs' = [jobs EXCEPT ![j] = job]
    /\ LET r == job.request IN
       /\ crossed' = IF OfKind(Kind[r]) # {} THEN crossed \union {Kind[r]} ELSE crossed
       /\ twice' = IF job.op \in {"inflow", "confirm"} /\ Paying(r) # {}
                   THEN twice \union {r} ELSE twice
    /\ UNCHANGED byHand

Goto(j, step) == jobs' = [jobs EXCEPT ![j].at = step] /\ UNCHANGED history
End(j) == jobs' = [jobs EXCEPT ![j] = NoJob] /\ UNCHANGED history
At(j, op, step) == jobs[j].op = op /\ jobs[j].at = step

Fault == faults < MaxFaults /\ faults' = faults + 1

-----------------------------------------------------------------------------
(* createRequest.                                                          *)

\* The phase status is read in the campaign service.
CreateStart(j, r) ==
    /\ Idle(j) /\ status[r] = "NONE" /\ On(r) = {}
    /\ phase \in Open(Kind[r])
    /\ Start(j, [op |-> "create", at |-> "active", request |-> r, seen |-> phase])
    /\ UNCHANGED <<rows, faults>>

\* hasActiveRequest: ingredient requests of the phase, other requests of the user.
Rivals(r) == {q \in Requests :
    /\ Kind[q] = Kind[r] /\ status[q] \in Active
    /\ Kind[r] # "INGREDIENT" => User[q] = User[r]}

\* validateBudget: each request is held against the whole budget of its kind.
WithinBudget(r) == Budget[Kind[r]] > 0 /\ Cost[r] <= Budget[Kind[r]]

CreateCheck(j) ==
    /\ At(j, "create", "active")
    /\ LET r == jobs[j].request IN
       \/ Rivals(r) = {} /\ WithinBudget(r) /\ Goto(j, "insert")
       \/ ~(Rivals(r) = {} /\ WithinBudget(r)) /\ End(j)
    /\ UNCHANGED <<rows, faults>>

\* The first ingredient request and every other request move the phase.
CreateInsert(j) ==
    /\ At(j, "create", "insert")
    /\ LET r == jobs[j].request IN
       /\ status' = [status EXCEPT ![r] = "PENDING"]
       /\ \/ /\ Kind[r] = "INGREDIENT" => jobs[j].seen = "PLANNING"
             /\ Goto(j, "phase")
          \/ Kind[r] = "INGREDIENT" /\ jobs[j].seen # "PLANNING" /\ End(j)
    /\ UNCHANGED <<phase, flows, surplus, faults>>

\* UpdatePhaseStatus sets the status whatever it is.
CreatePhase(j) ==
    /\ At(j, "create", "phase")
    /\ phase' = Awaiting(Kind[jobs[j].request])
    /\ End(j)
    /\ UNCHANGED <<status, flows, surplus, faults>>

-----------------------------------------------------------------------------
(* updateRequestStatus, by an administrator.                               *)

\* An ingredient request takes any status while it is PENDING.
Reviewable(r) ==
    CASE status[r] = "PENDING" /\ Kind[r] = "INGREDIENT" -> RequestStatuses
      [] status[r] = "PENDING" /\ Kind[r] # "INGREDIENT" -> {"APPROVED", "REJECTED"}
      [] status[r] = "APPROVED" /\ Kind[r] # "INGREDIENT" -> {"PENDING", "DISBURSED"}
      [] OTHER -> {}

ReviewRead(j, r, new) ==
    /\ Idle(j) /\ new \in Reviewable(r)
    /\ Start(j, [op |-> "review", at |-> "write", request |-> r, new |-> new])
    /\ UNCHANGED <<rows, faults>>

ReviewWrite(j) ==
    /\ At(j, "review", "write")
    /\ status' = [status EXCEPT ![jobs[j].request] = jobs[j].new]
    /\ End(j)
    /\ UNCHANGED <<phase, flows, surplus, faults>>

-----------------------------------------------------------------------------
(* createInflowTransaction, by an administrator.                           *)

InflowValidate(j, r) ==
    /\ Idle(j) /\ status[r] = "APPROVED"
    /\ Start(j, [op |-> "inflow", at |-> "duplicate", request |-> r])
    /\ UNCHANGED <<rows, faults>>

Live(f) == f.status \in {"PENDING", "COMPLETED"}
LiveFlows(r) == {i \in DOMAIN flows : flows[i].request = r /\ Live(flows[i])}

\* Mutant: only a completed disbursement is a duplicate.
HasDuplicate_Completed(r) == \E i \in LiveFlows(r) : flows[i].status = "COMPLETED"

\* hasDuplicateDisbursement.
HasDuplicate(r) == LiveFlows(r) # {}

InflowCheck(j) ==
    /\ At(j, "inflow", "duplicate")
    /\ \/ HasDuplicate(jobs[j].request) /\ End(j)
       \/ ~HasDuplicate(jobs[j].request) /\ Goto(j, "insert")
    /\ UNCHANGED <<rows, faults>>

InflowInsert(j) ==
    /\ At(j, "inflow", "insert") /\ Len(flows) < MaxFlows
    /\ flows' = Append(flows, [request |-> jobs[j].request, status |-> "PENDING"])
    /\ Goto(j, "phase")
    /\ UNCHANGED <<phase, status, surplus, faults>>

InflowPhase(j) ==
    /\ At(j, "inflow", "phase")
    /\ phase' = Disbursed(Kind[jobs[j].request])
    /\ Goto(j, "link")
    /\ UNCHANGED <<status, flows, surplus, faults>>

\* Mutant: the surplus is transferred again when the fundraiser confirms.
AfterLink_Surplus(job) == "surplus"

AfterLink(job) == IF job.op = "inflow" THEN "surplus" ELSE "write"

\* updateLinkedRequestToDisbursed, before the transfer is confirmed and, for a
\* confirmed one, again: only an APPROVED request is to be marked.
LinkRead(j) ==
    /\ jobs[j].op \in {"inflow", "confirm"} /\ jobs[j].at = "link"
    /\ Goto(j, IF status[jobs[j].request] = "APPROVED" THEN "mark" ELSE AfterLink(jobs[j]))
    /\ UNCHANGED <<rows, faults>>

LinkMark(j) ==
    /\ jobs[j].op \in {"inflow", "confirm"} /\ jobs[j].at = "mark"
    /\ status' = [status EXCEPT ![jobs[j].request] = "DISBURSED"]
    /\ Goto(j, AfterLink(jobs[j]))
    /\ UNCHANGED <<phase, flows, surplus, faults>>

\* calculateAndTransferSurplus: what the request leaves of the budget goes to the
\* fundraiser's wallet, in a call that carries no reference.
InflowSurplus(j) ==
    /\ At(j, "inflow", "surplus")
    /\ LET r == jobs[j].request IN
       surplus' = IF Cost[r] < Budget[Kind[r]] THEN [surplus EXCEPT ![r] = @ + 1] ELSE surplus
    /\ End(j)
    /\ UNCHANGED <<phase, status, flows, faults>>

-----------------------------------------------------------------------------
(* confirmDisbursement, by the fundraiser.                                 *)

ConfirmRead(j, i, outcome) ==
    /\ Idle(j) /\ flows[i].status = "PENDING"
    /\ Start(j, [op |-> "confirm", request |-> flows[i].request, flow |-> i,
                 outcome |-> outcome,
                 at |-> IF outcome = "COMPLETED" THEN "link" ELSE "write"])
    /\ UNCHANGED <<rows, faults>>

ConfirmWrite(j) ==
    /\ At(j, "confirm", "write")
    /\ flows' = [flows EXCEPT ![jobs[j].flow].status = jobs[j].outcome]
    /\ End(j)
    /\ UNCHANGED <<phase, status, surplus, faults>>

-----------------------------------------------------------------------------
(* updatePhaseStatus of the campaign service, by the fundraiser.           *)

Following(p) ==
    IF p \in Ends THEN {}
    ELSE IF p = "DELIVERY" THEN {"COMPLETED", "FAILED"}
    ELSE {"CANCELLED"} \union {Chain[n + 1] : n \in {m \in 1 .. 6 : Chain[m] = p}}

MoveRead(j, p) ==
    /\ Idle(j) /\ p \in Following(phase)
    /\ jobs' = [jobs EXCEPT ![j] = [op |-> "move", at |-> "write", to |-> p]]
    /\ byHand < MaxMoves /\ byHand' = byHand + 1
    /\ UNCHANGED <<rows, faults, crossed, twice>>

MoveWrite(j) ==
    /\ At(j, "move", "write")
    /\ phase' = jobs[j].to
    /\ End(j)
    /\ UNCHANGED <<status, flows, surplus, faults>>

-----------------------------------------------------------------------------
(* Faults.                                                                 *)

\* A database or gRPC error ends a handler; what it has written stays.
JobError(j) ==
    /\ ~Idle(j) /\ Fault
    /\ End(j)
    /\ UNCHANGED rows

\* Errors that createInflowTransaction and confirmDisbursement catch.
CaughtError(j) ==
    /\ jobs[j].op \in {"inflow", "confirm"} /\ jobs[j].at \in {"phase", "link", "mark"}
    /\ Fault
    /\ Goto(j, IF jobs[j].at = "phase" THEN "link" ELSE AfterLink(jobs[j]))
    /\ UNCHANGED rows

\* The credit is late, and sent again.
SurplusRepeated(j) ==
    /\ At(j, "inflow", "surplus") /\ Cost[jobs[j].request] < Budget[Kind[jobs[j].request]]
    /\ Fault
    /\ surplus' = [surplus EXCEPT ![jobs[j].request] = @ + 2]
    /\ End(j)
    /\ UNCHANGED <<phase, status, flows>>

Create(j) == (\E r \in Requests : CreateStart(j, r)) \/ CreateCheck(j) \/ CreateInsert(j)
             \/ CreatePhase(j)
Review(j) == (\E r \in Requests, new \in RequestStatuses : ReviewRead(j, r, new))
             \/ ReviewWrite(j)
Inflow(j) == (\E r \in Requests : InflowValidate(j, r)) \/ InflowCheck(j)
             \/ InflowInsert(j) \/ InflowPhase(j) \/ InflowSurplus(j)
Link(j) == LinkRead(j) \/ LinkMark(j)
Confirm(j) == (\E i \in DOMAIN flows, o \in {"COMPLETED", "FAILED"} : ConfirmRead(j, i, o))
              \/ ConfirmWrite(j)
Move(j) == (\E p \in PhaseStatuses : MoveRead(j, p)) \/ MoveWrite(j)

Next == \E j \in Jobs :
    \/ Create(j) \/ Review(j) \/ Inflow(j) \/ Link(j) \/ Confirm(j) \/ Move(j)
    \/ JobError(j) \/ CaughtError(j) \/ SurplusRepeated(j)

Spec == Init /\ [][Next]_vars

-----------------------------------------------------------------------------
(* Properties.                                                             *)

JobTypes ==
    [op: {"create"}, at: {"active", "insert", "phase"}, request: Requests,
     seen: PhaseStatuses]
    \union [op: {"review"}, at: {"write"}, request: Requests, new: RequestStatuses]
    \union [op: {"inflow"}, request: Requests,
            at: {"duplicate", "insert", "phase", "link", "mark", "surplus"}]
    \union [op: {"confirm"}, at: {"link", "mark", "write"}, request: Requests,
            flow: 1 .. MaxFlows, outcome: {"COMPLETED", "FAILED"}]
    \union [op: {"move"}, at: {"write"}, to: PhaseStatuses]

\* The shapes of the rows and of the handlers in progress; a handler has its
\* request, and a confirmation its transaction.
TypeOK ==
    /\ phase \in PhaseStatuses
    /\ status \in [Requests -> RequestStatuses \union {"NONE"}]
    /\ flows \in Seq([request: Requests, status: {"PENDING", "COMPLETED", "FAILED"}])
    /\ Len(flows) <= MaxFlows
    /\ surplus \in [Requests -> Nat]
    /\ jobs \in [Jobs -> {NoJob} \union JobTypes]
    /\ \A j \in Jobs : jobs[j].op = "confirm" => jobs[j].flow \in DOMAIN flows
    /\ faults \in 0 .. MaxFaults
    /\ byHand \in 0 .. MaxMoves /\ crossed \subseteq Kinds /\ twice \subseteq Requests

OneLive(r) == Cardinality(LiveFlows(r)) <= 1

\* A request has one live disbursement, whatever reviews, confirmations and errors
\* do to the request meanwhile, unless two disbursements or confirmations of it
\* overlapped.
OneLiveFlow == \A r \in Requests \ twice : OneLive(r)

Spent(r) == Cardinality(LiveFlows(r)) * Cost[r] + surplus[r] * (Budget[Kind[r]] - Cost[r])
SpentOn(k) == SumFunctionOnSet([r \in Requests |-> Spent(r)],
                               {r \in Requests : Kind[r] = k})

\* The requests of a phase are for ingredients, then cooking, then delivery.
Order(k) == CASE k = "INGREDIENT" -> 1 [] k = "COOKING" -> 2 [] k = "DELIVERY" -> 3

\* Nothing has disturbed the handlers of a kind: no two of it or of an earlier kind
\* have overlapped, none has failed half way, no move by hand.
Calm(n) == byHand = 0 /\ faults = 0 /\ \A k \in crossed : Order(k) > n

\* What is disbursed and what is returned of a kind's budget do not exceed it:
\* rejected, failed and repeated requests of several users included, unless two
\* handlers of that kind or an earlier one overlapped (a late write of the phase for
\* ingredients lets a second user ask for cooking once more), the fundraiser moved
\* the phase by hand, or a handler failed half way.
FundsWithinBudget == \A k \in Kinds : Calm(Order(k)) => SpentOn(k) <= Budget[k]

Rank(p) == IF p \in Ends THEN 8 ELSE CHOOSE n \in 1 .. 7 : Chain[n] = p

\* The phase only moves forward, although every handler sets its status without a
\* look at it, as long as handlers of a kind do not overlap, none fails half way
\* and the fundraiser does not move the phase by hand.
PhaseMovesForward ==
    [][byHand = 0 /\ crossed = {} /\ faults = 0 => Rank(phase') >= Rank(phase)]_vars

\* inflow-transaction.service.ts, "Each request can only have one active
\* disbursement at a time".
OneActiveDisbursement == \A r \in Requests : OneLive(r)

====
