---- MODULE Delivery ----
(***************************************************************************)
(* From the bought ingredients to the delivered meal (apps/operation:      *)
(* services/expense-proof, services/meal-batch, services/delivery-task and *)
(* their repositories), within one phase whose ingredient requests are all *)
(* DISBURSED.                                                              *)
(*                                                                         *)
(* Kitchen staff hand in proofs of what they spent, an administrator       *)
(* reviews them, the kitchen cooks batches from proven requests, the       *)
(* fundraiser assigns a ready batch to couriers, and these take it out.    *)
(* Every request reads, checks and then writes unconditionally; a read or  *)
(* a write is a step of its own.                                           *)
(***************************************************************************)
EXTENDS Naturals, Sequences, FiniteSets

CONSTANTS
    Purchases,       \* ingredient requests of the phase, disbursed
    Couriers,        \* delivery staff of the fundraiser's organization
    Batches,         \* meal batches
    Counters,        \* bound: requests in progress at once
    MaxProofs,       \* bound: proofs of one purchase
    MaxTasks,        \* bound: delivery tasks
    MaxBroken        \* bound: database errors in the middle of a request

ASSUME DeliveryAssumption ==
    MaxProofs \in Nat /\ MaxTasks \in Nat /\ MaxBroken \in Nat

VARIABLES
    proofs,    \* proofs[p]: the status of each proof of p, in the order they were created
    batches,   \* batches[b]: its status ("NONE" before it exists) and its purchases
    tasks,     \* the delivery tasks: courier, batch and status
    counters,  \* counters[c]: the request in progress
    broken,    \* what is left of MaxBroken
    revised,   \* history: purchases of which a reviewed proof was reviewed again
    clashed,   \* history: batches that were finished or assigned, or of which a task was
               \* reported, by two requests at once
    stranded   \* history: batches whose courier's request broke after they were marked

deliveryVars == <<proofs, batches, tasks, counters, broken, revised, clashed, stranded>>

ProofStatuses == {"PENDING", "APPROVED", "REJECTED"}
TaskStatuses == {"PENDING", "ACCEPTED", "REJECTED", "OUT_FOR_DELIVERY", "COMPLETED", "FAILED"}
NobodyThere == [at |-> "idle", kind |-> <<"idle", 0>>, b |-> "none"]

DeliveryInit ==
    /\ proofs = [p \in Purchases |-> <<>>]
    /\ batches = [b \in Batches |-> [status |-> "NONE", from |-> {}]]
    /\ tasks = <<>>
    /\ counters = [c \in Counters |-> NobodyThere]
    /\ broken = MaxBroken
    /\ revised = {} /\ clashed = {} /\ stranded = {}

-----------------------------------------------------------------------------
Serve(c, q) == counters[c].at = "idle" /\ counters' = [counters EXCEPT ![c] = q]
Step(c, q) == counters' = [counters EXCEPT ![c] = q]
Done(c) == Step(c, NobodyThere)

\* A request of the same kind about the same batch (and task) is in progress.
Overlap(kind, b) == IF \E c \in Counters : counters[c].kind = kind /\ counters[c].b = b
                    THEN clashed \union {b} ELSE clashed

\* A database error ends a request; what it wrote stays.
Breaks(c) ==
    /\ broken > 0 /\ counters[c].at \in {"create", "move"}
    /\ broken' = broken - 1
    /\ stranded' = IF counters[c].at = "move" /\ counters[c].to = "OUT_FOR_DELIVERY"
                   THEN stranded \union {counters[c].b} ELSE stranded
    /\ Done(c)
    /\ UNCHANGED <<proofs, batches, tasks, revised, clashed>>

-----------------------------------------------------------------------------
(* expense-proof.service.ts *)

Latest(p) == IF proofs[p] = <<>> THEN "NONE" ELSE proofs[p][Len(proofs[p])]

\* createExpenseProof looks at the latest proof only, then has the files validated.
OfferProof(c, p) ==
    /\ Latest(p) # "APPROVED"
    /\ Len(proofs[p]) + Cardinality({e \in Counters : counters[e].at = "prove"}) < MaxProofs
    /\ Serve(c, [at |-> "prove", kind |-> <<"prove", 0>>, p |-> p, b |-> "none"])
    /\ UNCHANGED <<proofs, batches, tasks, broken, revised, clashed, stranded>>

CreateProof(c) ==
    LET q == counters[c] IN
    /\ q.at = "prove"
    /\ proofs' = [proofs EXCEPT ![q.p] = Append(@, "PENDING")]
    /\ Done(c)
    /\ UNCHANGED <<batches, tasks, broken, revised, clashed, stranded>>

\* updateExpenseProofStatus refuses only the status the proof has.
OpenReview(c, p, i, to) ==
    /\ i \in DOMAIN proofs[p] /\ proofs[p][i] # to
    /\ Serve(c, [at |-> "review", kind |-> <<"review", 0>>, p |-> p, b |-> "none", i |-> i, to |-> to])
    /\ UNCHANGED <<proofs, batches, tasks, broken, revised, clashed, stranded>>

Review(c) ==
    LET q == counters[c] IN
    /\ q.at = "review"
    /\ proofs' = [proofs EXCEPT ![q.p][q.i] = q.to]
    /\ revised' = IF proofs[q.p][q.i] # "PENDING" THEN revised \union {q.p} ELSE revised
    /\ Done(c)
    /\ UNCHANGED <<batches, tasks, broken, clashed, stranded>>

-----------------------------------------------------------------------------
(* meal-batch.service.ts *)

\* Mutant: a proof nobody reviewed is enough.
Proven_Unreviewed(p) == \E i \in DOMAIN proofs[p] : proofs[p][i] # "REJECTED"

Proven(p) == \E i \in DOMAIN proofs[p] : proofs[p][i] = "APPROVED"

\* createMealBatch asks for an approved proof of one purchase after the other.
Cook(c, b, from) ==
    /\ batches[b].status = "NONE"
    /\ \A e \in Counters : counters[e].b # b
    /\ Serve(c, [at |-> "cook", kind |-> <<"cook", 0>>, b |-> b, left |-> from, from |-> from])
    /\ UNCHANGED <<proofs, batches, tasks, broken, revised, clashed, stranded>>

LookAtProofs(c) ==
    LET q == counters[c] IN
    /\ q.at = "cook"
    /\ \E p \in q.left : IF Proven(p) THEN Step(c, [q EXCEPT !.left = @ \ {p}]) ELSE Done(c)
    /\ UNCHANGED <<proofs, batches, tasks, broken, revised, clashed, stranded>>

CreateBatch(c) ==
    LET q == counters[c] IN
    /\ q.at = "cook" /\ q.left = {}
    /\ batches' = [batches EXCEPT ![q.b] = [status |-> "PREPARING", from |-> q.from]]
    /\ Done(c)
    /\ UNCHANGED <<proofs, tasks, broken, revised, clashed, stranded>>

\* updateMealBatchStatus
FinishCooking(c, b) ==
    /\ batches[b].status = "PREPARING"
    /\ Serve(c, [at |-> "ready", kind |-> <<"ready", 0>>, b |-> b])
    /\ clashed' = Overlap(<<"ready", 0>>, b)
    /\ UNCHANGED <<proofs, batches, tasks, broken, revised, stranded>>

MarkReady(c) ==
    LET q == counters[c] IN
    /\ q.at = "ready"
    /\ batches' = [batches EXCEPT ![q.b].status = "READY"]
    /\ Done(c)
    /\ UNCHANGED <<proofs, tasks, broken, revised, clashed, stranded>>

-----------------------------------------------------------------------------
(* delivery-task.service.ts *)

HasTask(s, b) == \E i \in DOMAIN tasks : tasks[i].courier = s /\ tasks[i].batch = b

HasActiveTask(s) == \E i \in DOMAIN tasks :
    tasks[i].courier = s /\ tasks[i].status \in {"ACCEPTED", "OUT_FOR_DELIVERY"}

\* assignTaskToStaff: the batch, each courier's tasks of the batch, each courier's
\* active tasks of the phase, and then one row after the other.
AssignBatch(c, b, who) ==
    /\ batches[b].status = "READY"
    /\ Serve(c, [at |-> "twice", kind |-> <<"assign", 0>>, b |-> b, left |-> who, who |-> who])
    /\ clashed' = Overlap(<<"assign", 0>>, b)
    /\ UNCHANGED <<proofs, batches, tasks, broken, revised, stranded>>

LookAtCouriers(c) ==
    LET q == counters[c] IN
    /\ \/ /\ q.at = "twice"
          /\ \E s \in q.left :
               IF HasTask(s, q.b) THEN Done(c)
               ELSE IF q.left = {s} THEN Step(c, [q EXCEPT !.at = "active", !.left = q.who])
               ELSE Step(c, [q EXCEPT !.left = @ \ {s}])
       \/ /\ q.at = "active"
          /\ \E s \in q.left :
               IF HasActiveTask(s) THEN Done(c)
               ELSE IF q.left = {s} THEN Step(c, [q EXCEPT !.at = "create", !.left = q.who])
               ELSE Step(c, [q EXCEPT !.left = @ \ {s}])
    /\ UNCHANGED <<proofs, batches, tasks, broken, revised, clashed, stranded>>

CreateTask(c) ==
    LET q == counters[c] IN
    /\ q.at = "create" /\ Len(tasks) < MaxTasks
    /\ \E s \in q.left :
         /\ tasks' = Append(tasks, [courier |-> s, batch |-> q.b, status |-> "PENDING"])
         /\ IF q.left = {s} THEN Done(c) ELSE Step(c, [q EXCEPT !.left = @ \ {s}])
    /\ UNCHANGED <<proofs, batches, broken, revised, clashed, stranded>>

\* validateStatusTransition
NextStatuses(status) ==
    CASE status = "PENDING" -> {"ACCEPTED", "REJECTED"}
      [] status = "ACCEPTED" -> {"OUT_FOR_DELIVERY"}
      [] status = "OUT_FOR_DELIVERY" -> {"COMPLETED", "FAILED"}
      [] OTHER -> {}

\* Mutant: the batch is not marked.
FirstStep_NoBatch(to) == "move"

FirstStep(to) == IF to = "OUT_FOR_DELIVERY" THEN "depart" ELSE "move"

\* updateTaskStatus, by the courier of the task
Report(c, i, to) ==
    /\ to \in NextStatuses(tasks[i].status)
    /\ Serve(c, [at |-> FirstStep(to), kind |-> <<"report", i>>, b |-> tasks[i].batch, i |-> i, to |-> to])
    /\ clashed' = Overlap(<<"report", i>>, tasks[i].batch)
    /\ UNCHANGED <<proofs, batches, tasks, broken, revised, stranded>>

\* The batch is marked before the task.
Depart(c) ==
    LET q == counters[c] IN
    /\ q.at = "depart"
    /\ batches' = [batches EXCEPT ![q.b].status = "DELIVERED"]
    /\ Step(c, [q EXCEPT !.at = "move"])
    /\ UNCHANGED <<proofs, tasks, broken, revised, clashed, stranded>>

Move(c) ==
    LET q == counters[c] IN
    /\ q.at = "move"
    /\ tasks' = [tasks EXCEPT ![q.i].status = q.to]
    /\ Done(c)
    /\ UNCHANGED <<proofs, batches, broken, revised, clashed, stranded>>

-----------------------------------------------------------------------------
DeliveryNext == \E c \in Counters :
    \/ \E p \in Purchases : OfferProof(c, p)
    \/ \E p \in Purchases, i \in 1..MaxProofs, to \in ProofStatuses : OpenReview(c, p, i, to)
    \/ CreateProof(c) \/ Review(c)
    \/ \E b \in Batches, from \in SUBSET Purchases \ {{}} : Cook(c, b, from)
    \/ \E b \in Batches : FinishCooking(c, b)
    \/ LookAtProofs(c) \/ CreateBatch(c) \/ MarkReady(c)
    \/ \E b \in Batches, who \in SUBSET Couriers \ {{}} : AssignBatch(c, b, who)
    \/ \E i \in DOMAIN tasks, to \in TaskStatuses : Report(c, i, to)
    \/ LookAtCouriers(c) \/ CreateTask(c) \/ Depart(c) \/ Move(c) \/ Breaks(c)

DeliverySpec == DeliveryInit /\ [][DeliveryNext]_deliveryVars

-----------------------------------------------------------------------------
\* The shapes of proofs, batches, tasks and requests.
DeliveryTypeOK ==
    /\ proofs \in [Purchases -> Seq(ProofStatuses)]
    /\ batches \in [Batches -> [status: {"NONE", "PREPARING", "READY", "DELIVERED"},
                                from: SUBSET Purchases]]
    /\ tasks \in Seq([courier: Couriers, batch: Batches, status: TaskStatuses])
    /\ \A c \in Counters : counters[c].at \in {"idle", "prove", "review", "cook", "ready",
                                               "twice", "active", "create", "depart", "move"}
    /\ broken \in Nat
    /\ revised \subseteq Purchases /\ clashed \subseteq Batches /\ stranded \subseteq Batches

\* A courier gets a batch once, also when an assignment breaks half way and is asked
\* again.
OneTaskEach(b) == \A i, j \in DOMAIN tasks :
    i # j /\ tasks[i].batch = b /\ tasks[j].batch = b => tasks[i].courier # tasks[j].courier

Taken(i, b) == tasks[i].batch = b
    /\ tasks[i].status \in {"OUT_FOR_DELIVERY", "COMPLETED", "FAILED"}

\* Batch and tasks tell the same story although they are written apart: a courier has
\* one task of it, what a courier took out is marked delivered, and a batch marked
\* delivered was taken out, or is just being, or the courier's request broke in between.
\* Left out are batches with two assignments in progress at once, of which neither sees
\* the other's tasks.
DeliveryInStep == \A b \in Batches \ clashed :
    /\ OneTaskEach(b)
    /\ (\E i \in DOMAIN tasks : Taken(i, b)) => batches[b].status = "DELIVERED"
    /\ batches[b].status = "DELIVERED" =>
         \/ \E i \in DOMAIN tasks : Taken(i, b)
         \/ b \in stranded
         \/ \E c \in Counters : counters[c].at = "move" /\ counters[c].b = b

\* A batch is cooked from purchases with an approved proof, and stays so unless the
\* administrator changes a proof that was reviewed before.
CookedFromProof == \A b \in Batches : \A p \in batches[b].from : Proven(p) \/ p \in revised
====
