---- MODULE DisbursementProofs ----
(***************************************************************************)
(* Proofs about Disbursement: type correctness, one live disbursement for  *)
(* each request, the phase that only moves forward, and the funds that are *)
(* never exceeded.                                                         *)
(***************************************************************************)
EXTENDS Disbursement, SumProofs

Names == {"PLANNING", "AWAITING_INGREDIENT_DISBURSEMENT", "INGREDIENT_PURCHASE",
          "AWAITING_COOKING_DISBURSEMENT", "COOKING",
          "AWAITING_DELIVERY_DISBURSEMENT", "DELIVERY"}

-----------------------------------------------------------------------------
(* The order of the phases.                                                *)

LEMMA ChainNames ==
    /\ Chain[1] = "PLANNING" /\ Chain[2] = "AWAITING_INGREDIENT_DISBURSEMENT"
    /\ Chain[3] = "INGREDIENT_PURCHASE" /\ Chain[4] = "AWAITING_COOKING_DISBURSEMENT"
    /\ Chain[5] = "COOKING" /\ Chain[6] = "AWAITING_DELIVERY_DISBURSEMENT"
    /\ Chain[7] = "DELIVERY"
    /\ \A n \in 1 .. 7 : Chain[n] \in Names
    /\ Names \intersect Ends = {} /\ Names \subseteq PhaseStatuses
  <1>1. DOMAIN Chain = 1 .. 7 BY DEF Chain
  <1>2. /\ Chain[1] = "PLANNING" /\ Chain[2] = "AWAITING_INGREDIENT_DISBURSEMENT"
        /\ Chain[3] = "INGREDIENT_PURCHASE" /\ Chain[4] = "AWAITING_COOKING_DISBURSEMENT"
        /\ Chain[5] = "COOKING" /\ Chain[6] = "AWAITING_DELIVERY_DISBURSEMENT"
        /\ Chain[7] = "DELIVERY"
    BY DEF Chain
  <1>3. \A n \in 1 .. 7 : n \in {1, 2, 3, 4, 5, 6, 7} OBVIOUS
  <1>4. \A n \in 1 .. 7 : Chain[n] \in Names BY <1>2, <1>3 DEF Names
  <1>5. Names \intersect Ends = {} BY DEF Names, Ends
  <1>6. ASSUME NEW p \in Names PROVE p \in Range(Chain)
    <2>1. \E n \in 1 .. 7 : Chain[n] = p BY <1>2 DEF Names
    <2>2. QED BY <1>1, <2>1 DEF Range
  <1>7. QED BY <1>2, <1>4, <1>5, <1>6 DEF PhaseStatuses

LEMMA Ranks ==
    /\ Rank(Chain[1]) = 1 /\ Rank(Chain[2]) = 2 /\ Rank(Chain[3]) = 3 /\ Rank(Chain[4]) = 4
    /\ Rank(Chain[5]) = 5 /\ Rank(Chain[6]) = 6 /\ Rank(Chain[7]) = 7
    /\ \A p \in PhaseStatuses : Rank(p) \in 1 .. 8
  <1>1. ASSUME NEW n \in 1 .. 7 PROVE Rank(Chain[n]) = n
    <2>1. Chain[n] \notin Ends BY ChainNames
    <2>2. \A m \in 1 .. 7 : Chain[m] = Chain[n] => m = n
      <3>1. n \in {1, 2, 3, 4, 5, 6, 7} /\ \A m \in 1 .. 7 : m \in {1, 2, 3, 4, 5, 6, 7}
        OBVIOUS
      <3>2. QED BY <3>1, ChainNames
    <2>3. QED BY <2>1, <2>2 DEF Rank
  <1>2. ASSUME NEW p \in PhaseStatuses PROVE Rank(p) \in 1 .. 8
    <2>1. CASE p \in Ends BY <2>1 DEF Rank
    <2>2. CASE p \notin Ends
      <3>1. DOMAIN Chain = 1 .. 7 BY DEF Chain
      <3>2. PICK n \in 1 .. 7 : p = Chain[n] BY <2>2, <3>1 DEF PhaseStatuses, Range
      <3>3. QED BY <3>2, <1>1
    <2>3. QED BY <2>1, <2>2
  <1>3. QED BY <1>1, <1>2

-----------------------------------------------------------------------------
(* Type correctness.                                                       *)

Steps == {"active", "insert", "phase", "write", "duplicate", "link", "mark", "surplus"}

\* What a job of a kind of handler holds.
LEMMA JobOf ==
    ASSUME NEW job, job \in {NoJob} \union JobTypes
    PROVE  /\ job.op \in {"none", "create", "review", "inflow", "confirm", "move"}
           /\ job.op = "create" => job \in [op: {"create"}, request: Requests,
                at: {"active", "insert", "phase"}, seen: PhaseStatuses]
           /\ job.op = "review" => job \in [op: {"review"}, request: Requests,
                at: {"write"}, new: RequestStatuses]
           /\ job.op = "inflow" => job \in [op: {"inflow"}, request: Requests,
                at: {"duplicate", "insert", "phase", "link", "mark", "surplus"}]
           /\ job.op = "confirm" => job \in [op: {"confirm"}, request: Requests,
                at: {"link", "mark", "write"}, flow: 1 .. MaxFlows,
                outcome: {"COMPLETED", "FAILED"}]
           /\ job.op = "move" => job \in [op: {"move"}, at: {"write"}, to: PhaseStatuses]
           /\ job.op = "none" => job = NoJob
  BY DEF NoJob, JobTypes

\* Its next step.
LEMMA JobAt ==
    ASSUME NEW job, job \in JobTypes, NEW step \in Steps,
           \/ job.op = "create" /\ step \in {"active", "insert", "phase"}
           \/ job.op = "inflow" /\ step \in {"duplicate", "insert", "phase", "link", "mark", "surplus"}
           \/ job.op = "confirm" /\ step \in {"link", "mark", "write"}
    PROVE  [job EXCEPT !.at = step] \in JobTypes
  BY DEF JobTypes

\* What TypeOK says of the jobs, of a set of jobs and of the transactions.
JobsTyped(js, fs) ==
    /\ js \in [Jobs -> {NoJob} \union JobTypes]
    /\ \A j \in Jobs : js[j].op = "confirm" => js[j].flow \in DOMAIN fs

Rows ==
    /\ phase \in PhaseStatuses
    /\ status \in [Requests -> RequestStatuses \union {"NONE"}]
    /\ flows \in Seq([request: Requests, status: {"PENDING", "COMPLETED", "FAILED"}])
    /\ Len(flows) <= MaxFlows
    /\ surplus \in [Requests -> Nat]

Counted ==
    /\ faults \in 0 .. MaxFaults
    /\ byHand \in 0 .. MaxMoves /\ crossed \subseteq Kinds /\ twice \subseteq Requests

LEMMA TypeParts == TypeOK <=> Rows /\ JobsTyped(jobs, flows) /\ Counted
  BY DEF TypeOK, Rows, JobsTyped, Counted

LEMMA JobStarts ==
    ASSUME JobsTyped(jobs, flows), NEW j \in Jobs, NEW job \in {NoJob} \union JobTypes,
           job.op = "confirm" => job.flow \in DOMAIN flows
    PROVE  JobsTyped([jobs EXCEPT ![j] = job], flows)
  BY DEF JobsTyped

LEMMA JobGoes ==
    ASSUME JobsTyped(jobs, flows), NEW j \in Jobs, NEW step \in Steps,
           \/ jobs[j].op = "create" /\ step \in {"active", "insert", "phase"}
           \/ jobs[j].op = "inflow" /\ step \in {"duplicate", "insert", "phase", "link", "mark", "surplus"}
           \/ jobs[j].op = "confirm" /\ step \in {"link", "mark", "write"}
    PROVE  JobsTyped([jobs EXCEPT ![j].at = step], flows)
  <1> DEFINE job == [jobs[j] EXCEPT !.at = step]
  <1>1. jobs[j] \in {NoJob} \union JobTypes /\ jobs[j].op # "none" BY DEF JobsTyped
  <1>2. jobs[j] \in JobTypes BY <1>1 DEF NoJob
  <1>3. job \in JobTypes BY <1>2, JobAt
  <1>4. job.op = jobs[j].op /\ (job.op = "confirm" => job.flow = jobs[j].flow)
    BY <1>2 DEF JobTypes
  <1>5. job.op = "confirm" => job.flow \in DOMAIN flows BY <1>4 DEF JobsTyped
  <1>6. [jobs EXCEPT ![j].at = step] = [jobs EXCEPT ![j] = job]
    BY DEF JobsTyped
  <1> HIDE DEF job
  <1>7. QED BY <1>3, <1>5, <1>6, JobStarts

LEMMA JobEnds ==
    ASSUME JobsTyped(jobs, flows), NEW j \in Jobs
    PROVE  JobsTyped([jobs EXCEPT ![j] = NoJob], flows)
  BY JobStarts DEF NoJob

\* Transactions are only added, and change their status.
LEMMA FlowsGrow ==
    ASSUME NEW js, NEW fs, NEW gs, JobsTyped(js, fs), DOMAIN fs \subseteq DOMAIN gs
    PROVE  JobsTyped(js, gs)
  BY DEF JobsTyped

LEMMA InitTypeOK == Init => TypeOK
  BY DisbursementAssumption
     DEF Init, TypeOK, NoJob, RequestStatuses

\* The request a job is about, and the effect of a start on the history.
LEMMA StartTyped ==
    ASSUME TypeOK, NEW j \in Jobs, NEW job \in JobTypes, job.op # "move", Start(j, job),
           job.op = "confirm" => job.flow \in DOMAIN flows,
           UNCHANGED <<rows, faults>>
    PROVE  TypeOK'
  <1>1. JobsTyped(jobs', flows')
    BY TypeParts, JobStarts DEF Start, rows
  <1>2. job.request \in Requests /\ Kind[job.request] \in Kinds
    BY DisbursementAssumption DEF JobTypes
  <1>3. Counted' BY TypeParts, <1>2 DEF Start, Counted
  <1>4. Rows' BY TypeParts DEF Rows, rows
  <1>5. QED BY <1>1, <1>3, <1>4 DEF TypeOK, Rows, Counted, JobsTyped

\* A step of a job that goes on, or ends, and leaves the history.
LEMMA StepTyped ==
    ASSUME TypeOK, Rows', JobsTyped(jobs', flows), DOMAIN flows \subseteq DOMAIN flows',
           UNCHANGED history, faults' \in 0 .. MaxFaults
    PROVE  TypeOK'
  <1>1. JobsTyped(jobs', flows') BY FlowsGrow
  <1>2. Counted' BY TypeParts DEF Counted, history
  <1>3. QED BY <1>1, <1>2 DEF TypeOK, Rows, Counted, JobsTyped

LEMMA CreateTyped ==
    ASSUME TypeOK, NEW j \in Jobs, Create(j)
    PROVE  TypeOK'
  <1> USE TypeParts
  <1>1. jobs[j] \in {NoJob} \union JobTypes BY DEF TypeOK
  <1>2. ASSUME NEW r \in Requests, CreateStart(j, r) PROVE TypeOK'
    <2> DEFINE job == [op |-> "create", at |-> "active", request |-> r, seen |-> phase]
    <2>1. job \in JobTypes BY DEF JobTypes, Rows
    <2>2. Start(j, job) /\ UNCHANGED <<rows, faults>> BY <1>2 DEF CreateStart
    <2>3. job.op # "move" /\ job.op # "confirm" OBVIOUS
    <2> HIDE DEF job
    <2>4. QED BY <2>1, <2>2, <2>3, StartTyped
  <1>3. CASE CreateCheck(j)
    <2>1. JobsTyped(jobs', flows) /\ UNCHANGED history
      BY <1>3, JobGoes, JobEnds DEF CreateCheck, At, Goto, End, Steps
    <2>2. Rows' /\ faults' \in 0 .. MaxFaults /\ DOMAIN flows \subseteq DOMAIN flows'
      BY <1>3 DEF CreateCheck, Rows, rows, Counted
    <2>3. QED BY <2>1, <2>2, StepTyped
  <1>4. CASE CreateInsert(j)
    <2>1. JobsTyped(jobs', flows) /\ UNCHANGED history
      BY <1>4, JobGoes, JobEnds DEF CreateInsert, At, Goto, End, Steps
    <2>2. Rows' /\ faults' \in 0 .. MaxFaults /\ DOMAIN flows \subseteq DOMAIN flows'
      BY <1>4 DEF CreateInsert, Rows, Counted, RequestStatuses
    <2>3. QED BY <2>1, <2>2, StepTyped
  <1>5. CASE CreatePhase(j)
    <2>1. JobsTyped(jobs', flows) /\ UNCHANGED history
      BY <1>5, JobEnds DEF CreatePhase, End
    <2>2. jobs[j].request \in Requests
      BY <1>1, <1>5, JobOf DEF CreatePhase, At
    <2>3. phase' \in PhaseStatuses
      BY <1>5, <2>2, ChainNames, DisbursementAssumption DEF CreatePhase, Awaiting, Kinds
    <2>4. Rows' /\ faults' \in 0 .. MaxFaults /\ DOMAIN flows \subseteq DOMAIN flows'
      BY <1>5, <2>3 DEF CreatePhase, Rows, Counted
    <2>5. QED BY <2>1, <2>4, StepTyped
  <1>6. QED BY <1>2, <1>3, <1>4, <1>5 DEF Create

LEMMA ReviewTyped ==
    ASSUME TypeOK, NEW j \in Jobs, Review(j)
    PROVE  TypeOK'
  <1> USE TypeParts
  <1>1. jobs[j] \in {NoJob} \union JobTypes BY DEF TypeOK
  <1>2. ASSUME NEW r \in Requests, NEW new \in RequestStatuses, ReviewRead(j, r, new) PROVE TypeOK'
    <2> DEFINE job == [op |-> "review", at |-> "write", request |-> r, new |-> new]
    <2>1. job \in JobTypes BY DEF JobTypes
    <2>2. Start(j, job) /\ UNCHANGED <<rows, faults>> BY <1>2 DEF ReviewRead
    <2>3. job.op # "move" /\ job.op # "confirm" OBVIOUS
    <2> HIDE DEF job
    <2>4. QED BY <2>1, <2>2, <2>3, StartTyped
  <1>3. CASE ReviewWrite(j)
    <2>1. JobsTyped(jobs', flows) /\ UNCHANGED history
      BY <1>3, JobEnds DEF ReviewWrite, End
    <2>2. jobs[j].new \in RequestStatuses
      BY <1>1, <1>3, JobOf DEF ReviewWrite, At
    <2>3. Rows' /\ faults' \in 0 .. MaxFaults /\ DOMAIN flows \subseteq DOMAIN flows'
      BY <1>3, <2>2 DEF ReviewWrite, Rows, Counted
    <2>4. QED BY <2>1, <2>3, StepTyped
  <1>4. QED BY <1>2, <1>3 DEF Review

LEMMA SurplusTyped ==
    ASSUME surplus \in [Requests -> Nat], NEW r \in Requests, NEW n \in Nat
    PROVE  [surplus EXCEPT ![r] = @ + n] \in [Requests -> Nat]
  OBVIOUS

FlowStatuses == {"PENDING", "COMPLETED", "FAILED"}

LEMMA FlowTyped ==
    ASSUME Rows, NEW i \in DOMAIN flows
    PROVE  /\ i \in 1 .. MaxFlows /\ flows[i].request \in Requests
           /\ flows[i] \in [request: Requests, status: FlowStatuses]
           /\ \A o \in FlowStatuses :
                LET fs == [flows EXCEPT ![i].status = o] IN
                /\ fs \in Seq([request: Requests, status: FlowStatuses])
                /\ Len(fs) = Len(flows) /\ DOMAIN fs = DOMAIN flows
  <1> DEFINE F == [request: Requests, status: FlowStatuses]
  <1>1. flows \in Seq(F) /\ Len(flows) <= MaxFlows BY DEF Rows, FlowStatuses
  <1>2. DOMAIN flows = 1 .. Len(flows) /\ Len(flows) \in Nat /\ flows[i] \in F
    <2> HIDE DEF F
    <2>1. QED BY <1>1
  <1>3. i \in 1 .. MaxFlows BY <1>1, <1>2, DisbursementAssumption
  <1>4. ASSUME NEW o \in FlowStatuses
        PROVE  LET fs == [flows EXCEPT ![i].status = o] IN
               fs \in Seq(F) /\ Len(fs) = Len(flows) /\ DOMAIN fs = DOMAIN flows
    <2> DEFINE f == [flows[i] EXCEPT !.status = o]
               fs == [flows EXCEPT ![i] = f]
    <2>1. f \in F BY <1>2
    <2>2. fs = [flows EXCEPT ![i].status = o] OBVIOUS
    <2> HIDE DEF F, f
    <2>3. fs \in Seq(F) /\ Len(fs) = Len(flows) /\ DOMAIN fs = DOMAIN flows
      BY <1>1, <1>2, <2>1
    <2> HIDE DEF fs
    <2>4. QED BY <2>2, <2>3
  <1>5. QED BY <1>2, <1>3, <1>4

LEMMA InflowTyped ==
    ASSUME TypeOK, NEW j \in Jobs, Inflow(j)
    PROVE  TypeOK'
  <1> USE TypeParts
  <1>1. jobs[j] \in {NoJob} \union JobTypes BY DEF TypeOK
  <1>2. ASSUME NEW r \in Requests, InflowValidate(j, r) PROVE TypeOK'
    <2> DEFINE job == [op |-> "inflow", at |-> "duplicate", request |-> r]
    <2>1. job \in JobTypes BY DEF JobTypes
    <2>2. Start(j, job) /\ UNCHANGED <<rows, faults>> BY <1>2 DEF InflowValidate
    <2>3. job.op # "move" /\ job.op # "confirm" OBVIOUS
    <2> HIDE DEF job
    <2>4. QED BY <2>1, <2>2, <2>3, StartTyped
  <1>3. CASE InflowCheck(j)
    <2>1. JobsTyped(jobs', flows) /\ UNCHANGED history
      BY <1>3, JobGoes, JobEnds DEF InflowCheck, At, Goto, End, Steps
    <2>2. Rows' /\ faults' \in 0 .. MaxFaults /\ DOMAIN flows \subseteq DOMAIN flows'
      BY <1>3 DEF InflowCheck, Rows, rows, Counted
    <2>3. QED BY <2>1, <2>2, StepTyped
  <1>4. CASE InflowInsert(j)
    <2>1. JobsTyped(jobs', flows) /\ UNCHANGED history
      BY <1>4, JobGoes DEF InflowInsert, At, Goto, Steps
    <2>2. jobs[j].request \in Requests
      BY <1>1, <1>4, JobOf DEF InflowInsert, At
    <2>3. /\ flows' \in Seq([request: Requests, status: {"PENDING", "COMPLETED", "FAILED"}])
          /\ Len(flows') <= MaxFlows /\ DOMAIN flows \subseteq DOMAIN flows'
      BY <1>4, <2>2, DisbursementAssumption DEF InflowInsert, Rows
    <2>4. Rows' /\ faults' \in 0 .. MaxFaults
      BY <1>4, <2>3 DEF InflowInsert, Rows, Counted
    <2>5. QED BY <2>1, <2>3, <2>4, StepTyped
  <1>5. CASE InflowPhase(j)
    <2>1. JobsTyped(jobs', flows) /\ UNCHANGED history
      BY <1>5, JobGoes DEF InflowPhase, At, Goto, Steps
    <2>2. jobs[j].request \in Requests
      BY <1>1, <1>5, JobOf DEF InflowPhase, At
    <2>3. phase' \in PhaseStatuses
      BY <1>5, <2>2, ChainNames, DisbursementAssumption DEF InflowPhase, Disbursed, Kinds
    <2>4. Rows' /\ faults' \in 0 .. MaxFaults /\ DOMAIN flows \subseteq DOMAIN flows'
      BY <1>5, <2>3 DEF InflowPhase, Rows, Counted
    <2>5. QED BY <2>1, <2>4, StepTyped
  <1>6. CASE InflowSurplus(j)
    <2>1. JobsTyped(jobs', flows) /\ UNCHANGED history
      BY <1>6, JobEnds DEF InflowSurplus, End
    <2>2. surplus' \in [Requests -> Nat]
      <3>1. jobs[j].request \in Requests BY <1>1, <1>6, JobOf DEF InflowSurplus, At
      <3>2. surplus \in [Requests -> Nat] BY DEF Rows
      <3>3. QED BY <1>6, <3>1, <3>2, SurplusTyped DEF InflowSurplus
    <2>3. Rows' /\ faults' \in 0 .. MaxFaults /\ DOMAIN flows \subseteq DOMAIN flows'
      BY <1>6, <2>2 DEF InflowSurplus, Rows, Counted
    <2>4. QED BY <2>1, <2>3, StepTyped
  <1>7. QED BY <1>2, <1>3, <1>4, <1>5, <1>6 DEF Inflow

LEMMA AfterLinkOf ==
    ASSUME NEW job
    PROVE  /\ job.op = "inflow" => AfterLink(job) = "surplus"
           /\ job.op = "confirm" => AfterLink(job) = "write"
  BY DEF AfterLink

LEMMA LinkTyped ==
    ASSUME TypeOK, NEW j \in Jobs, Link(j)
    PROVE  TypeOK'
  <1> USE TypeParts
  <1>1. CASE LinkRead(j)
    <2>1. JobsTyped(jobs', flows) /\ UNCHANGED history
      BY <1>1, JobGoes, AfterLinkOf DEF LinkRead, Goto, Steps
    <2>2. Rows' /\ faults' \in 0 .. MaxFaults /\ DOMAIN flows \subseteq DOMAIN flows'
      BY <1>1 DEF LinkRead, Rows, rows, Counted
    <2>3. QED BY <2>1, <2>2, StepTyped
  <1>2. CASE LinkMark(j)
    <2>1. JobsTyped(jobs', flows) /\ UNCHANGED history
      BY <1>2, JobGoes, AfterLinkOf DEF LinkMark, Goto, Steps
    <2>2. Rows' /\ faults' \in 0 .. MaxFaults /\ DOMAIN flows \subseteq DOMAIN flows'
      BY <1>2 DEF LinkMark, Rows, Counted, RequestStatuses
    <2>3. QED BY <2>1, <2>2, StepTyped
  <1>3. QED BY <1>1, <1>2 DEF Link

LEMMA ConfirmTyped ==
    ASSUME TypeOK, NEW j \in Jobs, Confirm(j)
    PROVE  TypeOK'
  <1> USE TypeParts
  <1>1. jobs[j] \in {NoJob} \union JobTypes BY DEF TypeOK
  <1>2. ASSUME NEW i \in DOMAIN flows, NEW o \in {"COMPLETED", "FAILED"}, ConfirmRead(j, i, o)
        PROVE  TypeOK'
    <2> DEFINE job == [op |-> "confirm", request |-> flows[i].request, flow |-> i,
                       outcome |-> o, at |-> IF o = "COMPLETED" THEN "link" ELSE "write"]
    <2>1. i \in 1 .. MaxFlows /\ flows[i].request \in Requests
      BY FlowTyped
    <2>2. job \in JobTypes BY <2>1 DEF JobTypes
    <2>3. Start(j, job) /\ UNCHANGED <<rows, faults>> BY <1>2 DEF ConfirmRead
    <2>4. job.op # "move" /\ job.flow \in DOMAIN flows OBVIOUS
    <2> HIDE DEF job
    <2>5. QED BY <2>2, <2>3, <2>4, StartTyped
  <1>3. CASE ConfirmWrite(j)
    <2>1. JobsTyped(jobs', flows) /\ UNCHANGED history
      BY <1>3, JobEnds DEF ConfirmWrite, End
    <2>2. jobs[j].outcome \in {"COMPLETED", "FAILED"} /\ jobs[j].flow \in DOMAIN flows
      BY <1>1, <1>3, JobOf DEF ConfirmWrite, At, JobsTyped
    <2>3. /\ flows' \in Seq([request: Requests, status: {"PENDING", "COMPLETED", "FAILED"}])
          /\ Len(flows') <= MaxFlows /\ DOMAIN flows \subseteq DOMAIN flows'
      <3>1. /\ flows' = [flows EXCEPT ![jobs[j].flow].status = jobs[j].outcome]
            /\ jobs[j].outcome \in FlowStatuses
        BY <1>3, <2>2 DEF ConfirmWrite, FlowStatuses
      <3>2. QED BY <2>2, <3>1, FlowTyped DEF FlowStatuses, Rows
    <2>4. Rows' /\ faults' \in 0 .. MaxFaults
      BY <1>3, <2>3 DEF ConfirmWrite, Rows, Counted
    <2>5. QED BY <2>1, <2>3, <2>4, StepTyped
  <1>4. QED BY <1>2, <1>3 DEF Confirm

LEMMA MoveTyped ==
    ASSUME TypeOK, NEW j \in Jobs, Move(j)
    PROVE  TypeOK'
  <1> USE TypeParts
  <1>1. jobs[j] \in {NoJob} \union JobTypes BY DEF TypeOK
  <1>2. ASSUME NEW p \in PhaseStatuses, MoveRead(j, p) PROVE TypeOK'
    <2>1. [op |-> "move", at |-> "write", to |-> p] \in JobTypes BY DEF JobTypes
    <2>2. JobsTyped(jobs', flows)
      BY <1>2, <2>1, JobStarts DEF MoveRead
    <2>3. Counted' BY <1>2, DisbursementAssumption DEF MoveRead, Counted
    <2>4. Rows' /\ flows' = flows BY <1>2 DEF MoveRead, Rows, rows
    <2>5. JobsTyped(jobs', flows') BY <2>2, <2>4
    <2>6. QED BY <2>3, <2>4, <2>5 DEF TypeOK, Rows, Counted, JobsTyped
  <1>3. CASE MoveWrite(j)
    <2>1. JobsTyped(jobs', flows) /\ UNCHANGED history
      BY <1>3, JobEnds DEF MoveWrite, End
    <2>2. jobs[j].to \in PhaseStatuses BY <1>1, <1>3, JobOf DEF MoveWrite, At
    <2>3. Rows' /\ faults' \in 0 .. MaxFaults /\ DOMAIN flows \subseteq DOMAIN flows'
      BY <1>3, <2>2 DEF MoveWrite, Rows, Counted
    <2>4. QED BY <2>1, <2>3, StepTyped
  <1>4. QED BY <1>2, <1>3 DEF Move

LEMMA TroubleTyped ==
    ASSUME TypeOK, NEW j \in Jobs, JobError(j) \/ CaughtError(j) \/ SurplusRepeated(j)
    PROVE  TypeOK'
  <1> USE TypeParts
  <1>1. faults' \in 0 .. MaxFaults
    BY DisbursementAssumption DEF JobError, CaughtError, SurplusRepeated, Fault, Counted
  <1>2. CASE JobError(j)
    <2>1. JobsTyped(jobs', flows) /\ UNCHANGED history BY <1>2, JobEnds DEF JobError, End
    <2>2. Rows' /\ DOMAIN flows \subseteq DOMAIN flows' BY <1>2 DEF JobError, Rows, rows
    <2>3. QED BY <1>1, <2>1, <2>2, StepTyped
  <1>3. CASE CaughtError(j)
    <2>1. jobs[j].op = "inflow" \/ (jobs[j].op = "confirm" /\ jobs[j].at # "phase")
      BY <1>3, JobOf DEF CaughtError, JobsTyped
    <2>2. JobsTyped(jobs', flows) /\ UNCHANGED history
      BY <1>3, <2>1, JobGoes, AfterLinkOf DEF CaughtError, Goto, Steps
    <2>3. Rows' /\ DOMAIN flows \subseteq DOMAIN flows' BY <1>3 DEF CaughtError, Rows, rows
    <2>4. QED BY <1>1, <2>2, <2>3, StepTyped
  <1>4. CASE SurplusRepeated(j)
    <2>1. JobsTyped(jobs', flows) /\ UNCHANGED history BY <1>4, JobEnds DEF SurplusRepeated, End
    <2>2. surplus' \in [Requests -> Nat]
      <3>1. jobs[j].request \in Requests
        BY <1>4, JobOf DEF SurplusRepeated, At, JobsTyped
      <3>2. surplus \in [Requests -> Nat] BY DEF Rows
      <3>3. QED BY <1>4, <3>1, <3>2, SurplusTyped DEF SurplusRepeated
    <2>3. Rows' /\ DOMAIN flows \subseteq DOMAIN flows' BY <1>4, <2>2 DEF SurplusRepeated, Rows
    <2>4. QED BY <1>1, <2>1, <2>3, StepTyped
  <1>5. QED BY <1>2, <1>3, <1>4

LEMMA NextTypeOK == TypeOK /\ [Next]_vars => TypeOK'
  <1> SUFFICES ASSUME TypeOK, [Next]_vars PROVE TypeOK'
    OBVIOUS
  <1>1. CASE UNCHANGED vars
    BY <1>1 DEF vars, rows, history, TypeOK
  <1>2. CASE Next
    <2>1. PICK j \in Jobs :
            \/ Create(j) \/ Review(j) \/ Inflow(j) \/ Link(j) \/ Confirm(j) \/ Move(j)
            \/ JobError(j) \/ CaughtError(j) \/ SurplusRepeated(j)
      BY <1>2 DEF Next
    <2>2. QED
      BY <2>1, CreateTyped, ReviewTyped, InflowTyped, LinkTyped, ConfirmTyped, MoveTyped,
         TroubleTyped
  <1>3. QED BY <1>1, <1>2

\* The rows and the handlers in progress keep their shapes, and a confirmation has
\* its transaction.
THEOREM DisbursementTypeCorrect == Spec => []TypeOK
  <1>1. QED BY InitTypeOK, NextTypeOK, PTL DEF Spec

-----------------------------------------------------------------------------
(* One live disbursement.                                                  *)

\* What a step leaves of a job, and of the others.
LEMMA GotoForm ==
    ASSUME TypeOK, NEW j \in Jobs, NEW step \in Steps, Goto(j, step),
           jobs[j].op \in {"create", "inflow", "confirm"}
    PROVE  /\ \A i \in Jobs : i # j => jobs'[i] = jobs[i]
           /\ jobs'[j].op = jobs[j].op /\ jobs'[j].request = jobs[j].request
           /\ jobs'[j].at = step
           /\ jobs[j].op = "confirm" => jobs'[j].flow = jobs[j].flow
           /\ jobs[j].op = "create" => jobs'[j].seen = jobs[j].seen
           /\ UNCHANGED history
  <1>1. jobs[j] \in {NoJob} \union JobTypes /\ jobs \in [Jobs -> {NoJob} \union JobTypes]
    BY DEF TypeOK
  <1>2. jobs' = [jobs EXCEPT ![j].at = step] /\ UNCHANGED history BY DEF Goto
  <1>3. jobs'[j] = [jobs[j] EXCEPT !.at = step] /\ \A i \in Jobs : i # j => jobs'[i] = jobs[i]
    BY <1>1, <1>2
  <1>4. CASE jobs[j].op = "create"
    BY <1>1, <1>2, <1>3, <1>4, JobOf
  <1>5. CASE jobs[j].op = "inflow"
    BY <1>1, <1>2, <1>3, <1>5, JobOf
  <1>6. CASE jobs[j].op = "confirm"
    BY <1>1, <1>2, <1>3, <1>6, JobOf
  <1>7. QED BY <1>4, <1>5, <1>6

LEMMA EndForm ==
    ASSUME TypeOK, NEW j \in Jobs, End(j)
    PROVE  /\ \A i \in Jobs : i # j => jobs'[i] = jobs[i]
           /\ jobs'[j] = NoJob /\ jobs'[j].op = "none"
           /\ UNCHANGED history
  BY DEF TypeOK, End, NoJob

LEMMA StartForm ==
    ASSUME TypeOK, NEW j \in Jobs, NEW job, Start(j, job)
    PROVE  /\ \A i \in Jobs : i # j => jobs'[i] = jobs[i]
           /\ jobs'[j] = job
           /\ twice \subseteq twice' /\ crossed \subseteq crossed' /\ byHand' = byHand
  BY DEF TypeOK, Start

Pays(j, r) == jobs[j].op \in {"inflow", "confirm"} /\ jobs[j].request = r
Inserts(j) == jobs[j].op = "inflow" /\ jobs[j].at = "insert"

\* A confirmation is about a disbursement of its request; the disbursements of a
\* request that never had two handlers are made and confirmed one after another, and
\* are live one at a time.
OneAtATime ==
    /\ \A j \in Jobs : jobs[j].op = "confirm" => flows[jobs[j].flow].request = jobs[j].request
    /\ \A r \in Requests \ twice :
         /\ \A i, j \in Jobs : Pays(i, r) /\ Pays(j, r) => i = j
         /\ \A j \in Jobs : Pays(j, r) /\ Inserts(j) => LiveFlows(r) = {}
         /\ \A j \in Jobs : Pays(j, r) /\ jobs[j].op = "confirm"
              => flows[jobs[j].flow].status = "PENDING"
         /\ \A i, k \in LiveFlows(r) : i = k

LEMMA InitOneAtATime == Init => OneAtATime
  BY DEF Init, OneAtATime, NoJob, Pays, Inserts, LiveFlows

\* Steps that leave the transactions, and of a job of a disbursement its request.
LEMMA PaymentsLeft ==
    ASSUME TypeOK, OneAtATime, NEW j \in Jobs, \A i \in Jobs : i # j => jobs'[i] = jobs[i],
           flows' = flows, twice \subseteq twice',
           jobs'[j].op \in {"inflow", "confirm"} =>
             /\ jobs'[j].op = jobs[j].op /\ jobs'[j].request = jobs[j].request
             /\ jobs'[j].op = "confirm" => jobs'[j].flow = jobs[j].flow
             /\ Inserts(j)' => LiveFlows(jobs[j].request) = {}
    PROVE  OneAtATime'
  <1>1. \A r : LiveFlows(r)' = LiveFlows(r) BY DEF LiveFlows, Live
  <1>2. \A i \in Jobs : jobs'[i].op = "confirm"
          => jobs[i].op = "confirm" /\ jobs'[i].flow = jobs[i].flow /\ jobs'[i].request = jobs[i].request
    OBVIOUS
  <1>3. \A i \in Jobs, r \in Requests : Pays(i, r)' => Pays(i, r) BY DEF Pays
  <1>4. \A i \in Jobs, r \in Requests : Pays(i, r)' /\ Inserts(i)'
          => LiveFlows(r) = {} \/ (Pays(i, r) /\ Inserts(i))
    BY DEF Pays, Inserts
  <1>5. \A i \in Jobs : jobs'[i].op = "confirm"
          => flows'[jobs'[i].flow].request = jobs'[i].request
    BY <1>2 DEF OneAtATime
  <1>6. ASSUME NEW r \in Requests \ twice'
        PROVE  /\ \A i, k \in Jobs : Pays(i, r)' /\ Pays(k, r)' => i = k
               /\ \A i \in Jobs : Pays(i, r)' /\ Inserts(i)' => LiveFlows(r)' = {}
               /\ \A i \in Jobs : Pays(i, r)' /\ jobs'[i].op = "confirm"
                    => flows'[jobs'[i].flow].status = "PENDING"
               /\ \A i, k \in LiveFlows(r)' : i = k
    <2>1. r \in Requests \ twice OBVIOUS
    <2>2. QED BY <1>1, <1>2, <1>3, <1>4, <2>1 DEF OneAtATime
  <1>7. QED BY <1>5, <1>6 DEF OneAtATime

LEMMA PayingIs == \A r : Paying(r) = {j \in Jobs : Pays(j, r)}
  BY DEF Paying, On, Pays, Idle

\* A disbursement or a confirmation starts.
LEMMA PaymentStarts ==
    ASSUME TypeOK, OneAtATime, NEW j \in Jobs, Idle(j), NEW job \in JobTypes, Start(j, job),
           flows' = flows,
           job.op = "inflow" => job.at # "insert",
           job.op = "confirm" =>
             flows[job.flow].request = job.request /\ flows[job.flow].status = "PENDING"
    PROVE  OneAtATime'
  <1>1. /\ \A i \in Jobs : i # j => jobs'[i] = jobs[i]
        /\ jobs'[j] = job /\ twice \subseteq twice'
    BY StartForm
  <1>2. CASE job.op \notin {"inflow", "confirm"}
    BY <1>1, <1>2, PaymentsLeft
  <1>3. CASE job.op \in {"inflow", "confirm"}
    <2>1. job.request \notin twice' => \A i \in Jobs : ~Pays(i, job.request)
      BY <1>3, PayingIs DEF Start
    <2>2. \A r : LiveFlows(r)' = LiveFlows(r) BY DEF LiveFlows, Live
    <2>3. \A i \in Jobs : jobs'[i].op = "confirm"
            => flows'[jobs'[i].flow].request = jobs'[i].request
      BY <1>1 DEF OneAtATime
    <2>4. ASSUME NEW r \in Requests \ twice'
          PROVE  /\ \A i, k \in Jobs : Pays(i, r)' /\ Pays(k, r)' => i = k
                 /\ \A i \in Jobs : Pays(i, r)' /\ Inserts(i)' => LiveFlows(r)' = {}
                 /\ \A i \in Jobs : Pays(i, r)' /\ jobs'[i].op = "confirm"
                      => flows'[jobs'[i].flow].status = "PENDING"
                 /\ \A i, k \in LiveFlows(r)' : i = k
      <3>1. r \in Requests \ twice BY <1>1
      <3>2. CASE r = job.request
        <4>1. \A i \in Jobs : Pays(i, r)' => i = j
          BY <1>1, <2>1, <2>4, <3>2 DEF Pays
        <4>2. ~Inserts(j)' BY <1>1 DEF Inserts
        <4>3. \A i, k \in LiveFlows(r)' : i = k BY <2>2, <3>1 DEF OneAtATime
        <4>4. QED BY <1>1, <4>1, <4>2, <4>3
      <3>3. CASE r # job.request
        <4>1. \A i \in Jobs : Pays(i, r)' => i # j /\ Pays(i, r) /\ jobs'[i] = jobs[i]
          BY <1>1, <3>3 DEF Pays
        <4>2. \A i \in Jobs : Pays(i, r)' /\ Inserts(i)' => Inserts(i) BY <4>1 DEF Inserts
        <4>3. QED BY <2>2, <3>1, <4>1, <4>2 DEF OneAtATime
      <3>4. QED BY <3>2, <3>3
    <2>5. QED BY <2>3, <2>4 DEF OneAtATime
  <1>4. QED BY <1>2, <1>3

\* A disbursement is created: of its request there is no live one.
LEMMA FlowInserted ==
    ASSUME TypeOK, OneAtATime, NEW j \in Jobs, InflowInsert(j)
    PROVE  OneAtATime'
  <1> DEFINE new == Len(flows) + 1
  <1>0. PICK q : q = jobs[j].request OBVIOUS
  <1>1. /\ jobs[j].op = "inflow" /\ jobs[j].at = "insert"
        /\ flows' = Append(flows, [request |-> q, status |-> "PENDING"])
        /\ Goto(j, "phase")
    BY <1>0 DEF InflowInsert, At
  <1>2. /\ \A i \in Jobs : i # j => jobs'[i] = jobs[i]
        /\ jobs'[j].op = "inflow" /\ jobs'[j].request = q /\ jobs'[j].at = "phase"
        /\ twice' = twice
    BY <1>0, <1>1, GotoForm DEF Steps, history
  <1>3. /\ DOMAIN flows' = DOMAIN flows \union {new} /\ new \notin DOMAIN flows
        /\ \A i \in DOMAIN flows : flows'[i] = flows[i]
        /\ flows'[new].request = q
    BY <1>1 DEF TypeOK
  <1>4. \A r : r # q => LiveFlows(r)' = LiveFlows(r)
    BY <1>3 DEF LiveFlows, Live
  <1>5. LiveFlows(q)' \subseteq LiveFlows(q) \union {new}
    <2> HIDE DEF new
    <2>1. QED BY <1>3 DEF LiveFlows, Live
  <1>6. \A i \in Jobs : jobs[i].op = "confirm" => jobs[i].flow \in DOMAIN flows
    BY DEF TypeOK
  <1>7. \A i \in Jobs : jobs'[i].op = "confirm" => i # j /\ jobs[i].op = "confirm" /\ jobs'[i] = jobs[i]
    BY <1>1, <1>2
  <1>8. \A i \in Jobs : jobs'[i].op = "confirm"
          => /\ flows'[jobs'[i].flow].request = jobs'[i].request
             /\ flows'[jobs'[i].flow] = flows[jobs[i].flow]
    BY <1>3, <1>6, <1>7 DEF OneAtATime
  <1> HIDE DEF new
  <1>9. ASSUME NEW r \in Requests \ twice'
        PROVE  /\ \A i, k \in Jobs : Pays(i, r)' /\ Pays(k, r)' => i = k
               /\ \A i \in Jobs : Pays(i, r)' /\ Inserts(i)' => LiveFlows(r)' = {}
               /\ \A i \in Jobs : Pays(i, r)' /\ jobs'[i].op = "confirm"
                    => flows'[jobs'[i].flow].status = "PENDING"
               /\ \A i, k \in LiveFlows(r)' : i = k
    <2>1. r \in Requests \ twice BY <1>2
    <2>2. \A i \in Jobs : Pays(i, r)' => Pays(i, r)
      BY <1>0, <1>1, <1>2 DEF Pays
    <2>3. \A i \in Jobs : Inserts(i)' => i # j /\ Inserts(i)
      BY <1>2 DEF Inserts
    <2>4. CASE r = q
      <3>1. Pays(j, r) /\ Inserts(j) BY <1>0, <1>1, <2>4 DEF Pays, Inserts
      <3>2. LiveFlows(r) = {} /\ \A i \in Jobs : Pays(i, r) => i = j
        BY <2>1, <3>1 DEF OneAtATime
      <3>3. \A i, k \in LiveFlows(r)' : i = k BY <1>5, <2>4, <3>2
      <3>4. QED BY <1>2, <2>2, <2>3, <3>2, <3>3
    <2>5. CASE r # q
      <3>1. QED BY <1>4, <1>7, <1>8, <2>1, <2>2, <2>3, <2>5 DEF OneAtATime
    <2>6. QED BY <2>4, <2>5
  <1>10. QED BY <1>8, <1>9 DEF OneAtATime

\* A disbursement is confirmed: it was PENDING, if nobody else confirmed it.
LEMMA FlowConfirmed ==
    ASSUME TypeOK, OneAtATime, NEW j \in Jobs, ConfirmWrite(j)
    PROVE  OneAtATime'
  <1> DEFINE q == jobs[j].request
             f == jobs[j].flow
  <1>1. /\ jobs[j].op = "confirm" /\ f \in DOMAIN flows /\ flows[f].request = q
        /\ flows' = [flows EXCEPT ![f].status = jobs[j].outcome]
        /\ End(j)
    BY DEF ConfirmWrite, At, TypeOK, OneAtATime
  <1>2. /\ \A i \in Jobs : i # j => jobs'[i] = jobs[i]
        /\ jobs'[j].op = "none" /\ twice' = twice
    BY <1>1, EndForm DEF history
  <1>3. /\ DOMAIN flows' = DOMAIN flows /\ flows'[f].request = q
        /\ \A i \in DOMAIN flows : i # f => flows'[i] = flows[i]
    <2>1. flows[f] \in [request: Requests, status: FlowStatuses]
      BY <1>1, TypeParts, FlowTyped
    <2>2. QED BY <1>1, <2>1 DEF TypeOK
  <1>4. \A i \in Jobs : jobs'[i].op = "confirm"
          => jobs[i].op = "confirm" /\ jobs'[i] = jobs[i] /\ jobs[i].flow \in DOMAIN flows
    BY <1>2 DEF TypeOK
  <1> HIDE DEF q, f
  <1>5. \A i \in Jobs : jobs'[i].op = "confirm"
          => flows'[jobs'[i].flow].request = jobs'[i].request
    BY <1>1, <1>3, <1>4 DEF OneAtATime
  <1>6. ASSUME NEW r \in Requests \ twice'
        PROVE  /\ \A i, k \in Jobs : Pays(i, r)' /\ Pays(k, r)' => i = k
               /\ \A i \in Jobs : Pays(i, r)' /\ Inserts(i)' => LiveFlows(r)' = {}
               /\ \A i \in Jobs : Pays(i, r)' /\ jobs'[i].op = "confirm"
                    => flows'[jobs'[i].flow].status = "PENDING"
               /\ \A i, k \in LiveFlows(r)' : i = k
    <2>1. r \in Requests \ twice BY <1>2
    <2>2. \A i \in Jobs : Pays(i, r)' => i # j /\ Pays(i, r) /\ jobs'[i] = jobs[i]
      BY <1>2 DEF Pays
    <2>3. \A i \in Jobs : Pays(i, r)' /\ Inserts(i)' => Inserts(i)
      BY <2>2 DEF Inserts
    <2>4. CASE r = q
      <3>1. Pays(j, r) BY <1>1, <2>4 DEF Pays, q
      <3>2. \A i \in Jobs : ~Pays(i, r)' BY <2>1, <2>2, <3>1 DEF OneAtATime
      <3>3. flows[f].status = "PENDING" BY <1>1, <2>1, <3>1 DEF OneAtATime, f
      <3>4. LiveFlows(r)' \subseteq LiveFlows(r)
        BY <1>1, <1>3, <2>4, <3>3 DEF LiveFlows, Live
      <3>5. \A i, k \in LiveFlows(r)' : i = k BY <2>1, <3>4 DEF OneAtATime
      <3>6. QED BY <3>2, <3>5
    <2>5. CASE r # q
      <3>1. LiveFlows(r)' = LiveFlows(r) BY <1>1, <1>3, <2>5 DEF LiveFlows, Live
      <3>2. \A i \in Jobs : Pays(i, r)' /\ jobs'[i].op = "confirm"
              => flows'[jobs'[i].flow].status = "PENDING"
        <4> TAKE i \in Jobs
        <4> HAVE Pays(i, r)' /\ jobs'[i].op = "confirm"
        <4>1. jobs[i].op = "confirm" /\ jobs'[i] = jobs[i] /\ jobs[i].flow \in DOMAIN flows
          BY <1>4
        <4>2. flows[jobs[i].flow].request = r BY <2>2, <4>1 DEF OneAtATime, Pays
        <4>3. jobs[i].flow # f BY <1>1, <2>5, <4>2
        <4>4. QED BY <1>3, <2>1, <2>2, <4>1, <4>3 DEF OneAtATime
      <3>3. QED BY <2>1, <2>2, <2>3, <3>1, <3>2 DEF OneAtATime
    <2>6. QED BY <2>4, <2>5
  <1>7. QED BY <1>5, <1>6 DEF OneAtATime

LEMMA NextOneAtATime == TypeOK /\ OneAtATime /\ [Next]_vars => OneAtATime'
  <1> SUFFICES ASSUME TypeOK, OneAtATime, [Next]_vars PROVE OneAtATime'
    OBVIOUS
  <1>1. CASE UNCHANGED vars
    BY <1>1 DEF vars, rows, history, OneAtATime, Pays, Inserts, LiveFlows, Live
  <1>2. ASSUME NEW j \in Jobs, Create(j) PROVE OneAtATime'
    <2>1. ASSUME NEW r \in Requests, CreateStart(j, r) PROVE OneAtATime'
      <3> DEFINE job == [op |-> "create", at |-> "active", request |-> r, seen |-> phase]
      <3>1. job \in JobTypes BY DEF JobTypes, TypeOK
      <3>2. Idle(j) /\ Start(j, job) /\ flows' = flows BY <2>1 DEF CreateStart, rows
      <3>3. job.op = "create" OBVIOUS
      <3> HIDE DEF job
      <3>4. QED BY <3>1, <3>2, <3>3, PaymentStarts
    <2>2. CASE CreateCheck(j) \/ CreateInsert(j) \/ CreatePhase(j)
      <3>1. jobs[j].op = "create" /\ flows' = flows
            /\ (Goto(j, "insert") \/ Goto(j, "phase") \/ End(j))
        BY <2>2 DEF CreateCheck, CreateInsert, CreatePhase, At, rows
      <3>2. QED BY <3>1, GotoForm, EndForm, PaymentsLeft DEF Steps, history
    <2>3. QED BY <1>2, <2>1, <2>2 DEF Create
  <1>3. ASSUME NEW j \in Jobs, Review(j) PROVE OneAtATime'
    <2>1. ASSUME NEW r \in Requests, NEW new \in RequestStatuses, ReviewRead(j, r, new)
          PROVE  OneAtATime'
      <3> DEFINE job == [op |-> "review", at |-> "write", request |-> r, new |-> new]
      <3>1. job \in JobTypes BY DEF JobTypes
      <3>2. Idle(j) /\ Start(j, job) /\ flows' = flows BY <2>1 DEF ReviewRead, rows
      <3>3. job.op = "review" OBVIOUS
      <3> HIDE DEF job
      <3>4. QED BY <3>1, <3>2, <3>3, PaymentStarts
    <2>2. CASE ReviewWrite(j)
      BY <2>2, EndForm, PaymentsLeft DEF ReviewWrite, history
    <2>3. QED BY <1>3, <2>1, <2>2 DEF Review
  <1>4. ASSUME NEW j \in Jobs, Inflow(j) PROVE OneAtATime'
    <2>1. ASSUME NEW r \in Requests, InflowValidate(j, r) PROVE OneAtATime'
      <3> DEFINE job == [op |-> "inflow", at |-> "duplicate", request |-> r]
      <3>1. job \in JobTypes BY DEF JobTypes
      <3>2. Idle(j) /\ Start(j, job) /\ flows' = flows BY <2>1 DEF InflowValidate, rows
      <3>3. job.op = "inflow" /\ job.at = "duplicate" OBVIOUS
      <3> HIDE DEF job
      <3>4. QED BY <3>1, <3>2, <3>3, PaymentStarts
    <2>2. CASE InflowCheck(j)
      <3>1. jobs[j].op = "inflow" /\ flows' = flows
            /\ (End(j) \/ (LiveFlows(jobs[j].request) = {} /\ Goto(j, "insert")))
        BY <2>2 DEF InflowCheck, At, rows, HasDuplicate
      <3>2. QED BY <3>1, GotoForm, EndForm, PaymentsLeft DEF Steps, history
    <2>3. CASE InflowInsert(j) BY <2>3, FlowInserted
    <2>4. CASE InflowPhase(j)
      <3>1. jobs[j].op = "inflow" /\ flows' = flows /\ Goto(j, "link")
        BY <2>4 DEF InflowPhase, At
      <3>2. QED BY <3>1, GotoForm, PaymentsLeft DEF Steps, history, Inserts
    <2>5. CASE InflowSurplus(j)
      BY <2>5, EndForm, PaymentsLeft DEF InflowSurplus, history
    <2>6. QED BY <1>4, <2>1, <2>2, <2>3, <2>4, <2>5 DEF Inflow
  <1>5. ASSUME NEW j \in Jobs, Link(j) PROVE OneAtATime'
    <2>1. PICK step \in {"mark", "surplus", "write"} :
            jobs[j].op \in {"inflow", "confirm"} /\ flows' = flows /\ Goto(j, step)
      BY <1>5, AfterLinkOf DEF Link, LinkRead, LinkMark, rows
    <2>2. QED BY <2>1, GotoForm, PaymentsLeft DEF Steps, history, Inserts
  <1>6. ASSUME NEW j \in Jobs, Confirm(j) PROVE OneAtATime'
    <2>1. ASSUME NEW i \in DOMAIN flows, NEW o \in {"COMPLETED", "FAILED"}, ConfirmRead(j, i, o)
          PROVE  OneAtATime'
      <3> DEFINE job == [op |-> "confirm", request |-> flows[i].request, flow |-> i,
                         outcome |-> o, at |-> IF o = "COMPLETED" THEN "link" ELSE "write"]
      <3>1. i \in 1 .. MaxFlows /\ flows[i].request \in Requests
        BY TypeParts, FlowTyped
      <3>2. job \in JobTypes BY <3>1 DEF JobTypes
      <3>3. Idle(j) /\ Start(j, job) /\ flows' = flows /\ flows[i].status = "PENDING"
        BY <2>1 DEF ConfirmRead, rows
      <3>4. job.op = "confirm" /\ job.flow = i /\ job.request = flows[i].request OBVIOUS
      <3> HIDE DEF job
      <3>5. QED BY <3>2, <3>3, <3>4, PaymentStarts
    <2>2. CASE ConfirmWrite(j) BY <2>2, FlowConfirmed
    <2>3. QED BY <1>6, <2>1, <2>2 DEF Confirm
  <1>7. ASSUME NEW j \in Jobs, Move(j) PROVE OneAtATime'
    <2>1. ASSUME NEW p \in PhaseStatuses, MoveRead(j, p) PROVE OneAtATime'
      <3>1. /\ \A i \in Jobs : i # j => jobs'[i] = jobs[i]
            /\ jobs'[j].op = "move" /\ flows' = flows /\ twice' = twice
        BY <2>1 DEF MoveRead, rows, TypeOK
      <3>2. QED BY <3>1, PaymentsLeft
    <2>2. CASE MoveWrite(j)
      BY <2>2, EndForm, PaymentsLeft DEF MoveWrite, history
    <2>3. QED BY <1>7, <2>1, <2>2 DEF Move
  <1>8. ASSUME NEW j \in Jobs, JobError(j) \/ SurplusRepeated(j) PROVE OneAtATime'
    BY <1>8, EndForm, PaymentsLeft DEF JobError, SurplusRepeated, rows, history
  <1>9. ASSUME NEW j \in Jobs, CaughtError(j) PROVE OneAtATime'
    <2>1. PICK step \in {"link", "surplus", "write"} :
            jobs[j].op \in {"inflow", "confirm"} /\ flows' = flows /\ Goto(j, step)
      BY <1>9, AfterLinkOf DEF CaughtError, rows
    <2>2. QED BY <2>1, GotoForm, PaymentsLeft DEF Steps, history, Inserts
  <1>10. QED BY <1>1, <1>2, <1>3, <1>4, <1>5, <1>6, <1>7, <1>8, <1>9 DEF Next

LEMMA AtMostOne == OneAtATime => OneLiveFlow
  <1> SUFFICES ASSUME OneAtATime, NEW r \in Requests \ twice PROVE Cardinality(LiveFlows(r)) <= 1
    BY DEF OneLiveFlow, OneLive
  <1>1. \A i, k \in LiveFlows(r) : i = k BY DEF OneAtATime
  <1>2. CASE LiveFlows(r) = {} BY <1>2, FS_EmptySet
  <1>3. CASE LiveFlows(r) # {}
    <2>1. PICK i : LiveFlows(r) = {i} BY <1>1, <1>3
    <2>2. QED BY <2>1, FS_Singleton
  <1>4. QED BY <1>2, <1>3

\* A request has one live disbursement unless two handlers paid or confirmed it at
\* once: createInflowTransaction looks for another one before it inserts, and nothing
\* else the handlers do, errors included, brings one back to life.
THEOREM OneDisbursementEach == Spec => []OneLiveFlow
  <1>1. Init => TypeOK /\ OneAtATime BY InitTypeOK, InitOneAtATime
  <1>2. TypeOK /\ OneAtATime /\ [Next]_vars => (TypeOK /\ OneAtATime)'
    BY NextTypeOK, NextOneAtATime
  <1>3. QED BY <1>1, <1>2, AtMostOne, PTL DEF Spec

-----------------------------------------------------------------------------
(* What the handlers of a request may count on while nothing disturbs them. *)

Working(j) == jobs[j].op \in {"create", "review", "inflow", "confirm"}
About(j, k) == Working(j) /\ Kind[jobs[j].request] = k
Doing(j, op, r) == jobs[j].op = op /\ jobs[j].request = r
Flows(r) == {i \in DOMAIN flows : flows[i].request = r}
RequestsOf(k) == {r \in Requests : Kind[r] = k}

\* The phase is not moved by hand until byHand says so, and two handlers of a kind do
\* not overlap until crossed says so.
Watched ==
    /\ byHand = 0 => \A j \in Jobs : jobs[j].op # "move"
    /\ \A i, j \in Jobs, k \in Kinds \ crossed : About(i, k) /\ About(j, k) => i = j

\* A request that is reviewed, paid or confirmed exists, and fits the budget.
Founded ==
    /\ \A i \in DOMAIN flows : status[flows[i].request] # "NONE"
    /\ \A j \in Jobs :
         jobs[j].op \in {"review", "inflow", "confirm"} \/ At(j, "create", "phase")
           => status[jobs[j].request] # "NONE"
    /\ \A r \in Requests : status[r] # "NONE" => Cost[r] <= Budget[Kind[r]]
    /\ \A j \in Jobs : At(j, "create", "insert")
         => Cost[jobs[j].request] <= Budget[Kind[jobs[j].request]]

\* What a handler has read is still so.
InStep(j, r) ==
    /\ jobs[j].op = "create" =>
         /\ jobs[j].seen \in Open(Kind[r])
         /\ jobs[j].at # "phase" => status[r] = "NONE"
         /\ jobs[j].at = "insert" => \A q \in RequestsOf(Kind[r]) : status[q] \notin Active
         /\ Kind[r] # "INGREDIENT" => \A q \in RequestsOf(Kind[r]) \ {r} : status[q] = "NONE"
    /\ jobs[j].op = "review" => jobs[j].new \in Reviewable(r)
    /\ jobs[j].op = "inflow" =>
         status[r] = IF jobs[j].at = "surplus" THEN "DISBURSED" ELSE "APPROVED"
    /\ jobs[j].op = "confirm" => status[r] = "DISBURSED"

\* A request is paid once, its surplus returned once, and it stays DISBURSED.
Money(r) ==
    /\ \A i, k \in Flows(r) : i = k
    /\ Flows(r) # {} => \/ status[r] = "DISBURSED"
                        \/ \E j \in Jobs : Doing(j, "inflow", r) /\ jobs[j].at \in {"phase", "link", "mark"}
    /\ surplus[r] \in {0, 1}
    /\ surplus[r] = 1 => status[r] = "DISBURSED" /\ \A j \in Jobs : ~Doing(j, "inflow", r)

Shape(k) ==
    /\ \A j \in Jobs : About(j, k) => InStep(j, jobs[j].request)
    /\ \A q, r \in RequestsOf(k) : status[q] \in Active /\ status[r] \in Active => q = r
    /\ \A r \in RequestsOf(k) : Money(r)

\* Where the phase is, for the requests of a kind and for those of later kinds.
Wanted(r) == status[r] # "NONE" \/ \E j \in Jobs : Doing(j, "create", r)
Paid(j, r) == Doing(j, "inflow", r) /\ jobs[j].at \in {"link", "mark"}

Bounds(k) ==
    /\ \A j \in Jobs : About(j, k) /\ jobs[j].op = "create" => Rank(phase) <= Rank(jobs[j].seen)
    /\ \A r \in RequestsOf(k) :
         /\ k # "INGREDIENT" /\ status[r] # "NONE" /\ ~(\E j \in Jobs : Doing(j, "create", r))
              => Rank(phase) >= 2 * Order(k)
         /\ status[r] \in {"PENDING", "APPROVED"} /\ ~(\E j \in Jobs : Paid(j, r))
              => Rank(phase) <= 2 * Order(k)

Past(n) == \A r \in Requests : Order(Kind[r]) > n /\ Wanted(r) => Rank(phase) >= 2 * n + 1

\* All of it holds of the kinds that nothing has disturbed.
InOrder ==
    \A k \in Kinds : Calm(Order(k)) => Shape(k) /\ Bounds(k) /\ Past(Order(k))

LEMMA Orders ==
    ASSUME NEW k \in Kinds
    PROVE  /\ Order(k) \in 1 .. 3
           /\ \A m \in Kinds : Order(m) = Order(k) => m = k
           /\ Awaiting(k) \in PhaseStatuses /\ Rank(Awaiting(k)) = 2 * Order(k)
           /\ Disbursed(k) \in PhaseStatuses /\ Rank(Disbursed(k)) = 2 * Order(k) + 1
           /\ \A p \in Open(k) : /\ p \in PhaseStatuses
                                 /\ 2 * Order(k) - 1 <= Rank(p) /\ Rank(p) <= 2 * Order(k)
                                 /\ k # "INGREDIENT" => Rank(p) = 2 * Order(k) - 1
  <1>1. \A n \in {1, 2, 3, 4, 5, 6, 7} : Chain[n] \in PhaseStatuses BY ChainNames
  <1>2. CASE k = "INGREDIENT"
    BY <1>1, <1>2, Ranks DEF Order, Awaiting, Disbursed, Open, Kinds
  <1>3. CASE k = "COOKING"
    <2>1. Order(k) = 2 /\ \A m \in Kinds : Order(m) = 2 => m = k
      BY <1>3 DEF Order, Kinds
    <2>2. Awaiting(k) = Chain[4] /\ Disbursed(k) = Chain[5] /\ Open(k) = {Chain[3]}
      BY <1>3 DEF Awaiting, Disbursed, Open
    <2>3. QED BY <1>1, <2>1, <2>2, Ranks
  <1>4. CASE k = "DELIVERY"
    <2>1. Order(k) = 3 /\ \A m \in Kinds : Order(m) = 3 => m = k
      BY <1>4 DEF Order, Kinds
    <2>2. Awaiting(k) = Chain[6] /\ Disbursed(k) = Chain[7] /\ Open(k) = {Chain[5]}
      BY <1>4 DEF Awaiting, Disbursed, Open
    <2>3. QED BY <1>1, <2>1, <2>2, Ranks
  <1>5. QED BY <1>2, <1>3, <1>4 DEF Kinds

LEMMA CalmEarlier ==
    ASSUME TypeOK, NEW n \in 1 .. 3, NEW m \in 1 .. 3, m <= n, Calm(n)
    PROVE  Calm(m)
  BY Orders DEF Calm, TypeOK

-----------------------------------------------------------------------------
(* Who works on a kind.                                                    *)

LEMMA OfKindIs == TypeOK => \A k : OfKind(k) = {j \in Jobs : About(j, k)}
  <1> SUFFICES ASSUME TypeOK, NEW k PROVE OfKind(k) = {j \in Jobs : About(j, k)}
    OBVIOUS
  <1>1. ASSUME NEW j \in Jobs
        PROVE  /\ Working(j) <=> ~Idle(j) /\ jobs[j].op # "move"
               /\ Working(j) => jobs[j].request \in Requests
    BY JobOf DEF TypeOK, Working, Idle
  <1>2. QED BY <1>1 DEF OfKind, On, About

\* Job j goes on with what it does, or ends.
Follows(j) ==
    /\ \A i \in Jobs : i # j => jobs'[i] = jobs[i]
    /\ UNCHANGED history
    /\ \/ jobs'[j].op = "none"
       \/ /\ Working(j)
          /\ jobs'[j].op = jobs[j].op /\ jobs'[j].request = jobs[j].request
          /\ jobs[j].op = "create" => jobs'[j].seen = jobs[j].seen

Begins(j) ==
    \/ \E r \in Requests : CreateStart(j, r) \/ InflowValidate(j, r)
    \/ \E r \in Requests, new \in RequestStatuses : ReviewRead(j, r, new)
    \/ \E i \in DOMAIN flows, o \in {"COMPLETED", "FAILED"} : ConfirmRead(j, i, o)

Continues(j) ==
    \/ CreateCheck(j) \/ CreateInsert(j) \/ CreatePhase(j) \/ ReviewWrite(j)
    \/ InflowCheck(j) \/ InflowInsert(j) \/ InflowPhase(j) \/ InflowSurplus(j)
    \/ LinkRead(j) \/ LinkMark(j) \/ ConfirmWrite(j)

Disturbs(j) == JobError(j) \/ CaughtError(j) \/ SurplusRepeated(j)

LEMMA NextCases ==
    Next <=> \E j \in Jobs :
      \/ Begins(j) \/ Continues(j) \/ Disturbs(j)
      \/ (\E p \in PhaseStatuses : MoveRead(j, p)) \/ MoveWrite(j)
  BY Zenon DEF Next, Create, Review, Inflow, Link, Confirm, Move, Begins, Continues, Disturbs

LEMMA GoesOn ==
    ASSUME TypeOK, NEW j \in Jobs, Continues(j) \/ Disturbs(j) \/ MoveWrite(j)
    PROVE  Follows(j)
  <1>1. ASSUME End(j) PROVE Follows(j)
    BY <1>1, EndForm DEF Follows
  <1>2. ASSUME NEW step \in Steps, Goto(j, step), jobs[j].op \in {"create", "inflow", "confirm"}
        PROVE  Follows(j)
    BY <1>2, GotoForm DEF Follows, Working
  <1>3. CASE CreateCheck(j) \/ CreateInsert(j)
    <2>1. jobs[j].op = "create" /\ (End(j) \/ Goto(j, "insert") \/ Goto(j, "phase"))
      BY <1>3 DEF CreateCheck, CreateInsert, At
    <2>2. QED BY <2>1, <1>1, <1>2 DEF Steps
  <1>4. CASE CreatePhase(j) \/ ReviewWrite(j) \/ InflowSurplus(j) \/ ConfirmWrite(j)
             \/ JobError(j) \/ SurplusRepeated(j) \/ MoveWrite(j)
    <2>1. End(j) BY <1>4 DEF CreatePhase, ReviewWrite, InflowSurplus, ConfirmWrite, JobError,
                             SurplusRepeated, MoveWrite
    <2>2. QED BY <2>1, <1>1
  <1>5. CASE InflowCheck(j) \/ InflowInsert(j) \/ InflowPhase(j)
    <2>1. jobs[j].op = "inflow"
          /\ (End(j) \/ Goto(j, "insert") \/ Goto(j, "phase") \/ Goto(j, "link"))
      BY <1>5 DEF InflowCheck, InflowInsert, InflowPhase, At
    <2>2. QED BY <2>1, <1>1, <1>2 DEF Steps
  <1>6. CASE LinkRead(j) \/ LinkMark(j) \/ CaughtError(j)
    <2>1. jobs[j].op \in {"inflow", "confirm"}
          /\ (Goto(j, "link") \/ Goto(j, "mark") \/ Goto(j, "surplus") \/ Goto(j, "write"))
      BY <1>6, AfterLinkOf DEF LinkRead, LinkMark, CaughtError
    <2>2. QED BY <2>1, <1>2 DEF Steps
  <1>7. QED BY <1>3, <1>4, <1>5, <1>6 DEF Continues, Disturbs

\* A handler begins: what it holds, and that nobody works on that kind unless it is
\* remembered.
LEMMA Beginning ==
    ASSUME TypeOK, NEW j \in Jobs, NEW job \in JobTypes, Start(j, job), Idle(j),
           job.op \in {"create", "review", "inflow", "confirm"}
    PROVE  /\ \A i \in Jobs : i # j => jobs'[i] = jobs[i]
           /\ jobs'[j] = job /\ job.request \in Requests
           /\ crossed \subseteq crossed' /\ byHand' = byHand
           /\ Kind[job.request] \notin crossed' => \A i \in Jobs : ~About(i, Kind[job.request])
           /\ crossed' \subseteq crossed \union {Kind[job.request]}
  <1>1. job.request \in Requests BY DEF JobTypes
  <1>2. Kind[job.request] \notin crossed' => OfKind(Kind[job.request]) = {}
    BY DEF Start
  <1>3. Kind[job.request] \notin crossed' => \A i \in Jobs : ~About(i, Kind[job.request])
    BY <1>2, OfKindIs
  <1>4. QED BY <1>1, <1>3, StartForm DEF Start

LEMMA BeginsJob ==
    ASSUME TypeOK, NEW j \in Jobs, Begins(j)
    PROVE  /\ Idle(j) /\ UNCHANGED <<rows, faults>>
           /\ \E job \in JobTypes :
                /\ Start(j, job)
                /\ job.op \in {"create", "review", "inflow", "confirm"}
                /\ job.op = "create" => /\ job.at = "active" /\ job.seen = phase
                                        /\ phase \in Open(Kind[job.request])
                                        /\ status[job.request] = "NONE"
                /\ job.op = "review" => job.new \in Reviewable(job.request)
                /\ job.op = "inflow" => job.at = "duplicate" /\ status[job.request] = "APPROVED"
                /\ job.op = "confirm" => \E i \in DOMAIN flows : flows[i].request = job.request
  <1>1. ASSUME NEW r \in Requests, CreateStart(j, r)
        PROVE  /\ [op |-> "create", at |-> "active", request |-> r, seen |-> phase] \in JobTypes
               /\ Idle(j) /\ UNCHANGED <<rows, faults>>
               /\ phase \in Open(Kind[r]) /\ status[r] = "NONE"
               /\ Start(j, [op |-> "create", at |-> "active", request |-> r, seen |-> phase])
    BY <1>1 DEF CreateStart, JobTypes, TypeOK
  <1>2. ASSUME NEW r \in Requests, NEW new \in RequestStatuses, ReviewRead(j, r, new)
        PROVE  /\ [op |-> "review", at |-> "write", request |-> r, new |-> new] \in JobTypes
               /\ Idle(j) /\ UNCHANGED <<rows, faults>> /\ new \in Reviewable(r)
               /\ Start(j, [op |-> "review", at |-> "write", request |-> r, new |-> new])
    BY <1>2 DEF ReviewRead, JobTypes
  <1>3. ASSUME NEW r \in Requests, InflowValidate(j, r)
        PROVE  /\ [op |-> "inflow", at |-> "duplicate", request |-> r] \in JobTypes
               /\ Idle(j) /\ UNCHANGED <<rows, faults>> /\ status[r] = "APPROVED"
               /\ Start(j, [op |-> "inflow", at |-> "duplicate", request |-> r])
    BY <1>3 DEF InflowValidate, JobTypes
  <1>4. ASSUME NEW i \in DOMAIN flows, NEW o \in {"COMPLETED", "FAILED"}, ConfirmRead(j, i, o)
        PROVE  LET job == [op |-> "confirm", request |-> flows[i].request, flow |-> i,
                           outcome |-> o, at |-> IF o = "COMPLETED" THEN "link" ELSE "write"]
               IN  job \in JobTypes /\ Idle(j) /\ UNCHANGED <<rows, faults>> /\ Start(j, job)
    <2>1. i \in 1 .. MaxFlows /\ flows[i].request \in Requests BY TypeParts, FlowTyped
    <2>2. QED BY <1>4, <2>1 DEF ConfirmRead, JobTypes
  <1>5. QED
    <2>1. ASSUME NEW r \in Requests, CreateStart(j, r)
          PROVE  \E job \in JobTypes :
                /\ Start(j, job) /\ job.op = "create" /\ job.at = "active" /\ job.seen = phase
                /\ phase \in Open(Kind[job.request]) /\ status[job.request] = "NONE"
      BY <1>1, <2>1
    <2>2. ASSUME NEW r \in Requests, NEW new \in RequestStatuses, ReviewRead(j, r, new)
          PROVE  \E job \in JobTypes :
                Start(j, job) /\ job.op = "review" /\ job.new \in Reviewable(job.request)
      BY <1>2, <2>2
    <2>3. ASSUME NEW r \in Requests, InflowValidate(j, r)
          PROVE  \E job \in JobTypes :
                /\ Start(j, job) /\ job.op = "inflow" /\ job.at = "duplicate"
                /\ status[job.request] = "APPROVED"
      BY <1>3, <2>3
    <2>4. ASSUME NEW i \in DOMAIN flows, NEW o \in {"COMPLETED", "FAILED"}, ConfirmRead(j, i, o)
          PROVE  \E job \in JobTypes :
                Start(j, job) /\ job.op = "confirm" /\ \E n \in DOMAIN flows : flows[n].request = job.request
      BY <1>4, <2>4
    <2>5. Idle(j) /\ UNCHANGED <<rows, faults>>
      BY <1>1, <1>2, <1>3, <1>4 DEF Begins
    <2>6. QED BY <2>1, <2>2, <2>3, <2>4, <2>5 DEF Begins

LEMMA InitWatched == Init => Watched
  BY DEF Init, Watched, NoJob, About, Working

LEMMA WatchedFollows ==
    ASSUME TypeOK, Watched, NEW j \in Jobs, Follows(j)
    PROVE  Watched'
  <1>1. \A i \in Jobs : \A k : About(i, k)' => About(i, k)
    BY DEF Follows, About, Working
  <1>2. \A i \in Jobs : jobs'[i].op = "move" => jobs[i].op = "move"
    BY DEF Follows, Working
  <1>3. byHand' = byHand /\ crossed' = crossed BY DEF Follows, history
  <1>4. QED BY <1>1, <1>2, <1>3 DEF Watched

LEMMA NextWatched == TypeOK /\ Watched /\ [Next]_vars => Watched'
  <1> SUFFICES ASSUME TypeOK, Watched, [Next]_vars PROVE Watched'
    OBVIOUS
  <1>1. CASE UNCHANGED vars
    BY <1>1 DEF vars, history, Watched, About, Working
  <1>2. ASSUME NEW j \in Jobs, Begins(j) PROVE Watched'
    <2>1. PICK job \in JobTypes : Start(j, job) /\ Idle(j)
                                  /\ job.op \in {"create", "review", "inflow", "confirm"}
      BY <1>2, BeginsJob
    <2>2. /\ \A i \in Jobs : i # j => jobs'[i] = jobs[i]
          /\ jobs'[j] = job /\ crossed \subseteq crossed' /\ byHand' = byHand
          /\ Kind[job.request] \notin crossed' => \A i \in Jobs : ~About(i, Kind[job.request])
      BY <2>1, Beginning
    <2>3. byHand' = 0 => \A i \in Jobs : jobs'[i].op # "move"
      BY <2>1, <2>2 DEF Watched
    <2>4. ASSUME NEW i \in Jobs, NEW k \in Kinds \ crossed', About(i, k)' PROVE
            /\ k \in Kinds \ crossed
            /\ i # j => About(i, k) /\ Kind[job.request] # k
            /\ i = j => Kind[job.request] = k
      BY <2>2, <2>4 DEF About, Working
    <2>5. \A i, l \in Jobs, k \in Kinds \ crossed' : About(i, k)' /\ About(l, k)' => i = l
      BY <2>4 DEF Watched
    <2>6. QED BY <2>3, <2>5 DEF Watched
  <1>3. ASSUME NEW j \in Jobs, Continues(j) \/ Disturbs(j) \/ MoveWrite(j) PROVE Watched'
    BY <1>3, GoesOn, WatchedFollows
  <1>4. ASSUME NEW j \in Jobs, NEW p \in PhaseStatuses, MoveRead(j, p) PROVE Watched'
    <2>1. /\ \A i \in Jobs : i # j => jobs'[i] = jobs[i]
          /\ jobs'[j].op = "move" /\ byHand' = byHand + 1 /\ crossed' = crossed
      BY <1>4 DEF MoveRead, TypeOK
    <2>2. byHand' # 0 BY <2>1 DEF TypeOK
    <2>3. \A i \in Jobs : \A k : About(i, k)' => About(i, k)
      BY <2>1 DEF About, Working
    <2>4. QED BY <2>1, <2>2, <2>3 DEF Watched
  <1>5. QED BY <1>1, <1>2, <1>3, <1>4, NextCases

-----------------------------------------------------------------------------
(* Requests are founded.                                                   *)

LEMMA InitFounded == Init => Founded
  BY DEF Init, Founded, NoJob, At

\* No step takes a request away.
LEMMA StatusKept ==
    ASSUME TypeOK, NEW j \in Jobs, Begins(j) \/ Continues(j) \/ Disturbs(j) \/ MoveWrite(j)
    PROVE  \A r \in Requests : status[r] # "NONE" => status'[r] # "NONE"
  <1>1. CASE status' = status BY <1>1
  <1>2. CASE CreateInsert(j) BY <1>2 DEF CreateInsert, TypeOK
  <1>3. CASE ReviewWrite(j)
    <2>1. jobs[j].new # "NONE"
      BY <1>3, JobOf DEF ReviewWrite, At, TypeOK, RequestStatuses
    <2>2. QED BY <1>3, <2>1 DEF ReviewWrite, TypeOK
  <1>4. CASE LinkMark(j) BY <1>4 DEF LinkMark, TypeOK
  <1>5. QED
    BY <1>1, <1>2, <1>3, <1>4, BeginsJob
       DEF Continues, Disturbs, rows, CreateCheck, CreatePhase, InflowCheck, InflowInsert,
           InflowPhase, InflowSurplus, LinkRead, ConfirmWrite, JobError, CaughtError,
           SurplusRepeated, MoveWrite

\* Transactions are added by one step only, and keep their request.
LEMMA FlowsKept ==
    ASSUME TypeOK, NEW j \in Jobs, Begins(j) \/ Continues(j) \/ Disturbs(j) \/ MoveWrite(j)
    PROVE  /\ \A i \in DOMAIN flows : i \in DOMAIN flows' /\ flows'[i].request = flows[i].request
           /\ ~InflowInsert(j) => DOMAIN flows' = DOMAIN flows
           /\ InflowInsert(j) =>
                /\ DOMAIN flows' = DOMAIN flows \union {Len(flows) + 1}
                /\ Len(flows) + 1 \notin DOMAIN flows
                /\ flows'[Len(flows) + 1].request = jobs[j].request
  <1>1. CASE flows' = flows /\ ~InflowInsert(j) BY <1>1
  <1>2. CASE InflowInsert(j)
    BY <1>2 DEF InflowInsert, TypeOK
  <1>3. CASE ConfirmWrite(j) /\ ~InflowInsert(j)
    <2>1. PICK f \in DOMAIN flows : flows' = [flows EXCEPT ![f].status = jobs[j].outcome]
      BY <1>3 DEF ConfirmWrite, At, TypeOK
    <2>2. flows[f] \in [request: Requests, status: FlowStatuses] BY TypeParts, FlowTyped
    <2>3. DOMAIN flows' = DOMAIN flows /\ flows'[f].request = flows[f].request
          /\ \A i \in DOMAIN flows : i # f => flows'[i] = flows[i]
      BY <2>1, <2>2 DEF TypeOK
    <2>4. QED BY <1>3, <2>3
  <1>4. flows' = flows \/ InflowInsert(j) \/ ConfirmWrite(j)
    BY BeginsJob
       DEF Continues, Disturbs, rows, CreateCheck, CreateInsert, CreatePhase, ReviewWrite,
           InflowCheck, InflowPhase, InflowSurplus, LinkRead, LinkMark, JobError, CaughtError,
           SurplusRepeated, MoveWrite
  <1>5. QED BY <1>1, <1>2, <1>3, <1>4

LEMMA NextFounded == TypeOK /\ Founded /\ [Next]_vars => Founded'
  <1> SUFFICES ASSUME TypeOK, Founded, [Next]_vars PROVE Founded'
    OBVIOUS
  <1>1. CASE UNCHANGED vars
    BY <1>1 DEF vars, rows, Founded, At
  <1>2. ASSUME NEW j \in Jobs, Begins(j) \/ Continues(j) \/ Disturbs(j) \/ MoveWrite(j)
        PROVE  /\ \A i \in DOMAIN flows' : status'[flows'[i].request] # "NONE"
               /\ \A r \in Requests : status[r] # "NONE" => status'[r] # "NONE"
    <2>1. \A i \in DOMAIN flows : flows[i].request \in Requests BY TypeParts, FlowTyped
    <2>2. InflowInsert(j) => jobs[j].request \in Requests /\ status[jobs[j].request] # "NONE"
      BY JobOf DEF InflowInsert, At, Founded, TypeOK
    <2>3. \A i \in DOMAIN flows' : \E r \in Requests : flows'[i].request = r /\ status[r] # "NONE"
      BY <1>2, <2>1, <2>2, FlowsKept DEF Founded
    <2>4. QED BY <1>2, <2>3, StatusKept
  <1>3. ASSUME NEW j \in Jobs, Begins(j) PROVE Founded'
    <2>1. PICK job \in JobTypes :
            /\ Start(j, job) /\ job.op \in {"create", "review", "inflow", "confirm"}
            /\ job.op = "create" => job.at = "active"
            /\ job.op = "review" => job.new \in Reviewable(job.request)
            /\ job.op = "inflow" => status[job.request] = "APPROVED"
            /\ job.op = "confirm" => \E i \in DOMAIN flows : flows[i].request = job.request
      BY <1>3, BeginsJob
    <2>2. Idle(j) /\ UNCHANGED <<status, flows>> BY <1>3, BeginsJob DEF rows
    <2>3. jobs'[j] = job /\ \A i \in Jobs : i # j => jobs'[i] = jobs[i]
      BY <2>1, <2>2, Beginning
    <2>4. job.op \in {"review", "inflow", "confirm"} => status[job.request] # "NONE"
      BY <2>1 DEF Reviewable, Founded
    <2>5. QED BY <2>1, <2>2, <2>3, <2>4 DEF Founded, At
  <1>4. ASSUME NEW j \in Jobs, Continues(j) \/ Disturbs(j) \/ MoveWrite(j) PROVE Founded'
    <2>1. Follows(j) BY <1>4, GoesOn
    <2>2. \A i \in Jobs : Working(i) => jobs[i].request \in Requests
      BY JobOf DEF TypeOK, Working
    <2>3. \A i \in Jobs : jobs'[i].op \in {"review", "inflow", "confirm"}
            => /\ jobs[i].op = jobs'[i].op /\ jobs[i].request = jobs'[i].request
               /\ jobs[i].request \in Requests
      BY <2>1, <2>2 DEF Follows, Working
    <2>4. \A i \in Jobs : jobs'[i].op \in {"review", "inflow", "confirm"}
            => status'[jobs'[i].request] # "NONE"
      BY <1>2, <1>4, <2>3 DEF Founded
    <2>5. \A i \in Jobs : jobs'[i].op = "create" =>
            /\ jobs[i].op = "create" /\ jobs[i].request = jobs'[i].request
            /\ jobs[i].request \in Requests /\ (i # j => jobs'[i] = jobs[i])
      BY <2>1, <2>2 DEF Follows, Working
    <2>6. jobs'[j].op = "create" => CreateCheck(j) \/ CreateInsert(j)
      BY <1>4, <2>1, <2>5, EndForm
         DEF Continues, Disturbs, CreatePhase, ReviewWrite, InflowCheck, InflowInsert, InflowPhase,
             InflowSurplus, LinkRead, LinkMark, ConfirmWrite, At, JobError, CaughtError,
             SurplusRepeated, MoveWrite
    <2>7. At(j, "create", "phase")' => CreateInsert(j) /\ status'[jobs[j].request] = "PENDING"
      <3>1. CreateCheck(j) /\ jobs'[j].op = "create" => jobs'[j].at = "insert"
        BY GotoForm, EndForm DEF CreateCheck, At, Steps
      <3>2. CreateInsert(j) /\ jobs'[j].op = "create" => status'[jobs[j].request] = "PENDING"
        BY <2>5 DEF CreateInsert, TypeOK
      <3>3. QED BY <2>6, <3>1, <3>2 DEF At
    <2>8. \A i \in Jobs : At(i, "create", "phase")' => status'[jobs'[i].request] # "NONE"
      BY <1>2, <1>4, <2>5, <2>7 DEF Founded, At
    <2>9. \A r \in Requests : status'[r] # "NONE" => Cost[r] <= Budget[Kind[r]]
      <3>1. ASSUME NEW r \in Requests, status[r] = "NONE", status'[r] # "NONE"
            PROVE  (CreateInsert(j) \/ ReviewWrite(j) \/ LinkMark(j)) /\ r = jobs[j].request
        BY <1>4, <3>1
           DEF Continues, Disturbs, rows, CreateCheck, CreateInsert, CreatePhase, ReviewWrite,
               InflowCheck, InflowInsert, InflowPhase, InflowSurplus, LinkRead, LinkMark,
               ConfirmWrite, JobError, CaughtError, SurplusRepeated, MoveWrite, TypeOK
      <3>2. ASSUME NEW r \in Requests, status[r] = "NONE", status'[r] # "NONE"
            PROVE  CreateInsert(j) /\ r = jobs[j].request
        BY <3>1, <3>2 DEF ReviewWrite, LinkMark, At, Founded
      <3>3. QED BY <3>2 DEF Founded, CreateInsert
    <2>10. \A i \in Jobs : At(i, "create", "insert")'
             => Cost[jobs'[i].request] <= Budget[Kind[jobs'[i].request]]
      <3>1. At(j, "create", "insert")' => CreateCheck(j) /\ WithinBudget(jobs[j].request)
        <4>1. CreateInsert(j) /\ jobs'[j].op = "create" => jobs'[j].at = "phase"
          BY GotoForm, EndForm DEF CreateInsert, At, Steps
        <4>2. CreateCheck(j) /\ jobs'[j].op = "create" => WithinBudget(jobs[j].request)
          BY EndForm DEF CreateCheck
        <4>3. QED BY <2>6, <4>1, <4>2 DEF At
      <3>2. QED BY <2>5, <3>1 DEF Founded, At, WithinBudget
    <2>11. QED BY <1>2, <1>4, <2>4, <2>8, <2>9, <2>10 DEF Founded
  <1>5. ASSUME NEW j \in Jobs, NEW p \in PhaseStatuses, MoveRead(j, p) PROVE Founded'
    BY <1>5 DEF MoveRead, rows, Founded, At, TypeOK
  <1>6. QED BY <1>1, <1>3, <1>4, <1>5, NextCases

-----------------------------------------------------------------------------
(* Steps while nothing disturbs a kind.                                    *)

LEMMA CalmStep ==
    ASSUME TypeOK, Watched, Next, NEW n \in 1 .. 3, Calm(n)'
    PROVE  Calm(n) /\ \E j \in Jobs : Begins(j) \/ Continues(j)
  <1>1. byHand' = 0 /\ faults' = 0 /\ \A k \in crossed' : Order(k) > n
    BY DEF Calm
  <1>2. ASSUME NEW j \in Jobs, Begins(j) PROVE Calm(n)
    <2>1. PICK job \in JobTypes :
            Start(j, job) /\ job.op \in {"create", "review", "inflow", "confirm"}
      BY <1>2, BeginsJob
    <2>2. Idle(j) /\ faults' = faults BY <1>2, BeginsJob
    <2>3. crossed \subseteq crossed' /\ byHand' = byHand BY <2>1, <2>2, Beginning
    <2>4. QED BY <1>1, <2>2, <2>3 DEF Calm
  <1>3. ASSUME NEW j \in Jobs, Continues(j) PROVE Calm(n)
    <2>1. byHand' = byHand /\ crossed' = crossed BY <1>3, GoesOn DEF Follows, history
    <2>2. faults' = faults
      BY <1>3 DEF Continues, CreateCheck, CreateInsert, CreatePhase, ReviewWrite, InflowCheck,
           InflowInsert, InflowPhase, InflowSurplus, LinkRead, LinkMark, ConfirmWrite
    <2>3. QED BY <1>1, <2>1, <2>2 DEF Calm
  <1>4. ASSUME NEW j \in Jobs, Disturbs(j) PROVE FALSE
    BY <1>1, <1>4 DEF Disturbs, JobError, CaughtError, SurplusRepeated, Fault, TypeOK
  <1>5. ASSUME NEW j \in Jobs, NEW p \in PhaseStatuses, MoveRead(j, p) PROVE FALSE
    BY <1>1, <1>5 DEF MoveRead, TypeOK
  <1>6. ASSUME NEW j \in Jobs, MoveWrite(j) PROVE FALSE
    <2>1. byHand' = byHand BY <1>6 DEF MoveWrite, End, history
    <2>2. QED BY <1>1, <1>6, <2>1 DEF MoveWrite, At, Watched
  <1>7. QED BY <1>2, <1>3, <1>4, <1>5, <1>6, NextCases

\* The request of a job that goes on, and that nobody else works on its kind.
LEMMA SoleWorker ==
    ASSUME TypeOK, Watched, NEW j \in Jobs, Continues(j), NEW q, q = jobs[j].request,
           Calm(Order(Kind[q]))
    PROVE  /\ q \in Requests /\ Kind[q] \in Kinds /\ About(j, Kind[q])
           /\ \A i \in Jobs : i # j => ~About(i, Kind[q]) /\ jobs'[i] = jobs[i]
           /\ \A i \in Jobs, op \in {"create", "review", "inflow", "confirm"}, r \in RequestsOf(Kind[q]) :
                i # j => ~Doing(i, op, r) /\ ~Doing(i, op, r)'
           /\ Doing(j, jobs[j].op, q)
           /\ \A op, r : Doing(j, op, r) \/ Doing(j, op, r)' => r = q \/ op = "none"
           /\ jobs'[j].op = "none" \/ (jobs'[j].op = jobs[j].op /\ jobs'[j].request = q)
  <1>1. Follows(j) BY GoesOn
  <1>2. Working(j)
    BY DEF Continues, CreateCheck, CreateInsert, CreatePhase, ReviewWrite, InflowCheck,
           InflowInsert, InflowPhase, InflowSurplus, LinkRead, LinkMark, ConfirmWrite, At, Working
  <1>3. q \in Requests BY <1>2, JobOf DEF TypeOK, Working
  <1>4. Kind[q] \in Kinds BY <1>3, DisbursementAssumption
  <1>5. Kind[q] \notin crossed BY <1>4, Orders DEF Calm
  <1>6. \A i \in Jobs : i # j => ~About(i, Kind[q])
    BY <1>2, <1>4, <1>5 DEF Watched, About
  <1>7. QED BY <1>1, <1>2, <1>3, <1>4, <1>6 DEF Follows, About, Doing, Working, RequestsOf

\* A step on one kind leaves the shape of another.
LEMMA ShapeElsewhere ==
    ASSUME TypeOK, NEW k \in Kinds, Shape(k), NEW j \in Jobs, \A i \in Jobs : i # j => jobs'[i] = jobs[i],
           ~About(j, k), ~About(j, k)',
           \A r \in RequestsOf(k) : status'[r] = status[r] /\ surplus'[r] = surplus[r] /\ Flows(r)' = Flows(r)
    PROVE  Shape(k)'
  <1>1. \A i \in Jobs : About(i, k)' => About(i, k) /\ jobs'[i] = jobs[i]
    BY DEF About, Working
  <1>2. \A i \in Jobs, r \in RequestsOf(k) :
          Doing(i, "inflow", r) \/ Doing(i, "inflow", r)' => jobs'[i] = jobs[i]
    BY DEF About, Working, Doing, RequestsOf
  <1>3. ASSUME NEW r \in RequestsOf(k) PROVE Money(r)'
    <2>1. Money(r) BY DEF Shape
    <2>2. \A i \in Jobs : Doing(i, "inflow", r)' <=> Doing(i, "inflow", r) BY <1>2 DEF Doing
    <2>3. QED BY <1>2, <2>1, <2>2 DEF Money
  <1>4. ASSUME NEW i \in Jobs, About(i, k)' PROVE InStep(i, jobs[i].request)'
    <2>1. InStep(i, jobs[i].request) /\ jobs'[i] = jobs[i] BY <1>1, <1>4 DEF Shape
    <2>2. jobs[i].request \in RequestsOf(k)
      BY <1>1, <1>4, JobOf DEF TypeOK, About, Working, RequestsOf
    <2>3. QED BY <2>1, <2>2 DEF InStep, Reviewable, RequestsOf
  <1>5. \A q, r \in RequestsOf(k) : status'[q] \in Active /\ status'[r] \in Active => q = r
    BY DEF Shape
  <1>6. QED BY <1>3, <1>4, <1>5 DEF Shape, RequestsOf

\* And its bounds, unless the step moves the phase back below them or up past them.
LEMMA BoundsElsewhere ==
    ASSUME TypeOK, TypeOK', NEW k \in Kinds, Shape(k), Bounds(k),
           NEW j \in Jobs, \A i \in Jobs : i # j => jobs'[i] = jobs[i],
           ~About(j, k), ~About(j, k)',
           \A r \in RequestsOf(k) : status'[r] = status[r],
           Rank(phase') >= Rank(phase) \/ Rank(phase') >= 2 * Order(k),
           Rank(phase') <= Rank(phase) \/ Rank(phase') <= 2 * Order(k) - 1
             \/ Rank(phase) >= 2 * Order(k) + 1
    PROVE  Bounds(k)'
  <1> DEFINE o == Order(k)
             R == Rank(phase)
             S == Rank(phase')
  <1>1. o \in 1 .. 3 /\ R \in 1 .. 8 /\ S \in 1 .. 8
    BY Orders, Ranks DEF TypeOK
  <1>2. \A i \in Jobs : About(i, k)' => About(i, k) /\ jobs'[i] = jobs[i]
    BY DEF About, Working
  <1>3. \A i \in Jobs, r \in RequestsOf(k), op \in {"create", "inflow"} :
          Doing(i, op, r) \/ Doing(i, op, r)' => jobs'[i] = jobs[i]
    BY DEF About, Working, Doing, RequestsOf
  <1>4. \A i \in Jobs, r \in RequestsOf(k) :
          (Doing(i, "create", r)' <=> Doing(i, "create", r)) /\ (Paid(i, r)' <=> Paid(i, r))
    BY <1>3 DEF Doing, Paid
  <1>5. ASSUME NEW i \in Jobs, About(i, k)', jobs'[i].op = "create" PROVE S <= Rank(jobs'[i].seen)
    <2>1. About(i, k) /\ jobs'[i] = jobs[i] BY <1>2, <1>5
    <2>2. R <= Rank(jobs[i].seen) BY <1>5, <2>1 DEF Bounds
    <2>3. jobs[i].seen \in Open(k) BY <1>5, <2>1 DEF Shape, InStep, About
    <2>4. Rank(jobs[i].seen) \in 1 .. 8 /\ 2 * o - 1 <= Rank(jobs[i].seen)
          /\ Rank(jobs[i].seen) <= 2 * o
      BY <2>3, Orders, Ranks
    <2>5. S <= R \/ S <= 2 * o - 1 \/ R >= 2 * o + 1 OBVIOUS
    <2> HIDE DEF o, R, S
    <2>6. QED BY <1>1, <2>1, <2>2, <2>4, <2>5
  <1>6. ASSUME NEW r \in RequestsOf(k)
        PROVE  /\ k # "INGREDIENT" /\ status'[r] # "NONE" /\ ~(\E i \in Jobs : Doing(i, "create", r)')
                    => S >= 2 * o
               /\ status'[r] \in {"PENDING", "APPROVED"} /\ ~(\E i \in Jobs : Paid(i, r)')
                    => S <= 2 * o
    <2>1. /\ k # "INGREDIENT" /\ status'[r] # "NONE" /\ ~(\E i \in Jobs : Doing(i, "create", r)')
               => R >= 2 * o
          /\ status'[r] \in {"PENDING", "APPROVED"} /\ ~(\E i \in Jobs : Paid(i, r)')
               => R <= 2 * o
      BY <1>4 DEF Bounds
    <2>2. (S >= R \/ S >= 2 * o) /\ (S <= R \/ S <= 2 * o - 1 \/ R >= 2 * o + 1) OBVIOUS
    <2> HIDE DEF o, R, S
    <2>3. QED BY <1>1, <2>1, <2>2
  <1>7. QED BY <1>5, <1>6 DEF Bounds

\* What a job that goes on changes.
LEMMA OwnFacts ==
    ASSUME TypeOK, NEW j \in Jobs, Continues(j), NEW q \in Requests, q = jobs[j].request
    PROVE  /\ \A r \in Requests \ {q} : status'[r] = status[r] /\ surplus'[r] = surplus[r]
           /\ \A r \in Requests \ {q} : Flows(r)' = Flows(r)
           /\ ~InflowInsert(j) => Flows(q)' = Flows(q)
           /\ InflowInsert(j) => Flows(q)' = Flows(q) \union {Len(flows) + 1}
           /\ ~CreatePhase(j) /\ ~InflowPhase(j) => phase' = phase
           /\ ~CreateInsert(j) /\ ~ReviewWrite(j) /\ ~LinkMark(j) => status' = status
           /\ ~InflowSurplus(j) => surplus' = surplus
  <1>1. CASE CreateCheck(j) \/ InflowCheck(j) \/ LinkRead(j)
    BY <1>1, FlowsKept DEF CreateCheck, InflowCheck, LinkRead, rows, Flows, Continues
  <1>2. CASE CreateInsert(j) BY <1>2, FlowsKept DEF CreateInsert, Flows, Continues, TypeOK
  <1>3. CASE ReviewWrite(j) BY <1>3, FlowsKept DEF ReviewWrite, Flows, Continues, TypeOK
  <1>4. CASE LinkMark(j) BY <1>4, FlowsKept DEF LinkMark, Flows, Continues, TypeOK
  <1>5. CASE CreatePhase(j) \/ InflowPhase(j)
    BY <1>5, FlowsKept DEF CreatePhase, InflowPhase, Flows, Continues
  <1>6. CASE InflowInsert(j)
    BY <1>6, FlowsKept DEF InflowInsert, Flows, Continues
  <1>7. CASE InflowSurplus(j)
    BY <1>7, FlowsKept DEF InflowSurplus, Flows, Continues, TypeOK
  <1>8. CASE ConfirmWrite(j)
    BY <1>8, FlowsKept DEF ConfirmWrite, Flows, Continues
  <1>9. QED BY <1>1, <1>2, <1>3, <1>4, <1>5, <1>6, <1>7, <1>8 DEF Continues

\* What is left to show of the kind a job works on: its own request.
LEMMA OwnShape ==
    ASSUME TypeOK, Watched, NEW j \in Jobs, Continues(j), NEW q, q = jobs[j].request,
           Calm(Order(Kind[q])), Shape(Kind[q]),
           jobs'[j].op # "none" => InStep(j, q)',
           status'[q] \in Active =>
             status[q] \in Active \/ \A r \in RequestsOf(Kind[q]) : status[r] \notin Active,
           Money(q)'
    PROVE  Shape(Kind[q])'
  <1>1. /\ q \in Requests /\ Kind[q] \in Kinds
        /\ \A i \in Jobs : i # j => ~About(i, Kind[q]) /\ jobs'[i] = jobs[i]
        /\ \A i \in Jobs, r \in RequestsOf(Kind[q]) : r # q =>
             ~Doing(i, "inflow", r) /\ ~Doing(i, "inflow", r)'
        /\ jobs'[j].op = "none" \/ (jobs'[j].op = jobs[j].op /\ jobs'[j].request = q)
    BY SoleWorker
  <1>2. \A r \in Requests \ {q} : status'[r] = status[r] /\ surplus'[r] = surplus[r]
                                  /\ Flows(r)' = Flows(r)
    BY <1>1, OwnFacts
  <1>3. \A i \in Jobs : About(i, Kind[q])' => i = j /\ jobs'[i].op # "none" /\ jobs'[j].request = q
    BY <1>1 DEF About, Working
  <1>4. ASSUME NEW r \in RequestsOf(Kind[q]) PROVE Money(r)'
    <2>1. CASE r = q BY <2>1
    <2>2. CASE r # q
      <3>1. Money(r) /\ r \in Requests \ {q} BY <2>2 DEF Shape, RequestsOf
      <3>2. QED BY <1>1, <1>2, <2>2, <3>1 DEF Money
    <2>3. QED BY <2>1, <2>2
  <1>5. ASSUME NEW p \in RequestsOf(Kind[q]), NEW r \in RequestsOf(Kind[q]),
               status'[p] \in Active, status'[r] \in Active
        PROVE  p = r
    BY <1>2, <1>5 DEF Shape, RequestsOf
  <1>6. QED BY <1>3, <1>4, <1>5 DEF Shape, RequestsOf

LEMMA OwnBounds ==
    ASSUME TypeOK, Watched, NEW j \in Jobs, Continues(j), NEW q, q = jobs[j].request,
           Calm(Order(Kind[q])), Bounds(Kind[q]), phase' = phase,
           Kind[q] # "INGREDIENT" /\ status'[q] # "NONE" /\ ~Doing(j, "create", q)'
             => status[q] # "NONE" /\ ~Doing(j, "create", q),
           status'[q] \in {"PENDING", "APPROVED"} /\ ~Paid(j, q)'
             => Rank(phase) <= 2 * Order(Kind[q])
    PROVE  Bounds(Kind[q])'
  <1>1. /\ q \in Requests /\ Kind[q] \in Kinds
        /\ \A i \in Jobs : i # j => ~About(i, Kind[q]) /\ jobs'[i] = jobs[i]
        /\ \A i \in Jobs, op \in {"create", "inflow"}, r \in RequestsOf(Kind[q]) : r # q \/ i # j =>
             ~Doing(i, op, r) /\ ~Doing(i, op, r)'
        /\ jobs'[j].op = "none" \/ (jobs'[j].op = jobs[j].op /\ jobs'[j].request = q)
    BY SoleWorker
  <1>2. \A r \in Requests \ {q} : status'[r] = status[r] BY <1>1, OwnFacts
  <1>3. ASSUME NEW i \in Jobs, About(i, Kind[q])', jobs'[i].op = "create"
        PROVE  Rank(phase) <= Rank(jobs'[i].seen)
    <2>1. i = j /\ jobs[j].op = "create" BY <1>1, <1>3 DEF About, Working
    <2>2. jobs'[j].seen = jobs[j].seen
      BY <1>3, <2>1, GoesOn DEF Follows
    <2>3. About(j, Kind[q]) BY <2>1 DEF About, Working
    <2>4. QED BY <2>1, <2>2, <2>3 DEF Bounds
  <1>4. ASSUME NEW r \in RequestsOf(Kind[q])
        PROVE  /\ Kind[q] # "INGREDIENT" /\ status'[r] # "NONE" /\ ~(\E i \in Jobs : Doing(i, "create", r)')
                    => Rank(phase) >= 2 * Order(Kind[q])
               /\ status'[r] \in {"PENDING", "APPROVED"} /\ ~(\E i \in Jobs : Paid(i, r)')
                    => Rank(phase) <= 2 * Order(Kind[q])
    <2>1. /\ Kind[q] # "INGREDIENT" /\ status[r] # "NONE" /\ ~(\E i \in Jobs : Doing(i, "create", r))
               => Rank(phase) >= 2 * Order(Kind[q])
          /\ status[r] \in {"PENDING", "APPROVED"} /\ ~(\E i \in Jobs : Paid(i, r))
               => Rank(phase) <= 2 * Order(Kind[q])
      BY DEF Bounds
    <2>2. CASE r = q
      <3>1. \A i \in Jobs : i # j => ~Doing(i, "create", r) BY <1>1
      <3>2. QED BY <2>1, <2>2, <3>1
    <2>3. CASE r # q
      <3>1. \A i \in Jobs : ~Doing(i, "create", r) /\ ~Paid(i, r) /\ ~Doing(i, "create", r)' /\ ~Paid(i, r)'
        BY <1>1, <2>3 DEF Paid
      <3>2. status'[r] = status[r] BY <1>2, <2>3 DEF RequestsOf
      <3>3. QED BY <2>1, <3>1, <3>2
    <2>4. QED BY <2>2, <2>3
  <1>5. QED BY <1>3, <1>4 DEF Bounds

\* Money(q), where j alone works on the kind of q.
MoneyBy(j, q) ==
    /\ \A i, k \in Flows(q) : i = k
    /\ Flows(q) # {} => \/ status[q] = "DISBURSED"
                        \/ jobs[j].op = "inflow" /\ jobs[j].at \in {"phase", "link", "mark"}
    /\ surplus[q] \in {0, 1}
    /\ surplus[q] = 1 => status[q] = "DISBURSED" /\ jobs[j].op # "inflow"

LEMMA MoneyOfOne ==
    ASSUME TypeOK, Watched, NEW j \in Jobs, Continues(j), NEW q, q = jobs[j].request,
           Calm(Order(Kind[q]))
    PROVE  (Money(q) <=> MoneyBy(j, q)) /\ (Money(q)' <=> MoneyBy(j, q)')
  <1>1. q \in RequestsOf(Kind[q]) BY SoleWorker DEF RequestsOf
  <1>2. /\ \A i \in Jobs : i # j => ~Doing(i, "inflow", q) /\ ~Doing(i, "inflow", q)'
        /\ jobs'[j].op = "none" \/ (jobs'[j].op = jobs[j].op /\ jobs'[j].request = q)
    BY <1>1, SoleWorker
  <1>3. Money(q) <=> MoneyBy(j, q) BY <1>2 DEF Money, MoneyBy, Doing
  <1>4. Money(q)' <=> MoneyBy(j, q)' BY <1>2 DEF Money, MoneyBy, Doing
  <1>5. QED BY <1>3, <1>4

\* Steps of a kind that nothing has disturbed.
Undisturbed(j, q) ==
    /\ TypeOK /\ Watched /\ j \in Jobs /\ Continues(j) /\ q = jobs[j].request
    /\ Calm(Order(Kind[q])) /\ Shape(Kind[q]) /\ Bounds(Kind[q])

LEMMA OwnKnown ==
    ASSUME NEW j, NEW q, Undisturbed(j, q)
    PROVE  /\ q \in Requests /\ q \in RequestsOf(Kind[q]) /\ Kind[q] \in Kinds
           /\ About(j, Kind[q]) /\ InStep(j, q) /\ MoneyBy(j, q)
           /\ \A i \in Jobs : i # j => ~Paid(i, q) /\ ~Doing(i, "create", q)
           /\ Doing(j, jobs[j].op, q)
           /\ status[q] \in {"PENDING", "APPROVED"} /\ ~Paid(j, q) => Rank(phase) <= 2 * Order(Kind[q])
  <1> USE DEF Undisturbed
  <1>1. q \in RequestsOf(Kind[q]) /\ About(j, Kind[q]) /\ Kind[q] \in Kinds
    BY SoleWorker DEF RequestsOf
  <1>2. \A i \in Jobs : i # j => ~Paid(i, q) /\ ~Doing(i, "create", q)
    BY <1>1, SoleWorker DEF Paid
  <1>3. InStep(j, q) BY <1>1 DEF Shape
  <1>4. MoneyBy(j, q)
    <2>1. Money(q) BY <1>1 DEF Shape
    <2>2. QED BY <2>1, MoneyOfOne
  <1>5. status[q] \in {"PENDING", "APPROVED"} /\ ~Paid(j, q) => Rank(phase) <= 2 * Order(Kind[q])
    BY <1>1, <1>2 DEF Bounds
  <1>6. QED BY <1>1, <1>2, <1>3, <1>4, <1>5, SoleWorker

LEMMA OwnCreate ==
    ASSUME NEW j, NEW q, Undisturbed(j, q), CreateCheck(j) \/ CreateInsert(j)
    PROVE  Shape(Kind[q])' /\ Bounds(Kind[q])'
  <1>1. TypeOK /\ Watched /\ j \in Jobs /\ Continues(j) /\ q = jobs[j].request
        /\ Calm(Order(Kind[q])) /\ Shape(Kind[q]) /\ Bounds(Kind[q])
    BY DEF Undisturbed
  <1>2. /\ q \in Requests /\ Kind[q] \in Kinds /\ InStep(j, q) /\ MoneyBy(j, q)
        /\ jobs[j].op = "create" /\ jobs[j].at \in {"active", "insert"} /\ phase' = phase
    BY <1>1, OwnKnown DEF CreateCheck, CreateInsert, At, rows
  <1>3. status[q] = "NONE" /\ jobs[j].seen \in Open(Kind[q]) BY <1>2 DEF InStep
  <1>4. Flows(q) = {} /\ surplus[q] = 0 BY <1>2, <1>3 DEF MoneyBy
  <1>5. MoneyBy(j, q)'
    <2>1. Flows(q)' = Flows(q) /\ surplus' = surplus
      BY <1>1, <1>2, OwnFacts DEF InflowInsert, InflowSurplus, At
    <2>2. QED BY <1>4, <2>1 DEF MoneyBy
  <1>6. Rank(phase) <= 2 * Order(Kind[q])
    <2>1. Rank(phase) <= Rank(jobs[j].seen) BY <1>1, <1>2, OwnKnown DEF Bounds
    <2>2. Rank(jobs[j].seen) <= 2 * Order(Kind[q]) /\ Rank(jobs[j].seen) \in 1 .. 8
      BY <1>2, <1>3, Orders, Ranks
    <2>3. Order(Kind[q]) \in 1 .. 3 /\ Rank(phase) \in 1 .. 8
      BY <1>1, <1>2, Orders, Ranks DEF TypeOK
    <2>4. QED BY <2>1, <2>2, <2>3
  <1>7. CASE CreateCheck(j)
    <2>1. status' = status BY <1>7 DEF CreateCheck, rows
    <2>2. jobs'[j].op # "none" =>
            /\ Rivals(q) = {} /\ jobs'[j].op = "create" /\ jobs'[j].at = "insert"
            /\ jobs'[j].seen = jobs[j].seen
      BY <1>1, <1>2, <1>7, GotoForm, EndForm DEF CreateCheck, Steps
    <2>3. jobs'[j].op # "none" => InStep(j, q)'
      <3>1. ASSUME Rivals(q) = {}, NEW r \in RequestsOf(Kind[q]) PROVE status[r] \notin Active
        BY <1>2, <1>3, <3>1 DEF Rivals, InStep, RequestsOf, Active
      <3>2. QED BY <1>2, <1>3, <2>1, <2>2, <3>1 DEF InStep
    <2>4. Shape(Kind[q])'
      BY <1>1, <1>3, <1>5, <2>1, <2>3, OwnShape, MoneyOfOne DEF Active
    <2>5. QED BY <1>1, <1>2, <1>3, <2>1, <2>4, OwnBounds
  <1>8. CASE CreateInsert(j)
    <2>1. status'[q] = "PENDING" /\ \A r \in RequestsOf(Kind[q]) : status[r] \notin Active
      BY <1>1, <1>2, <1>8 DEF CreateInsert, At, InStep, TypeOK
    <2>2. jobs'[j].op # "none" => /\ jobs'[j].op = "create" /\ jobs'[j].at = "phase"
                                  /\ jobs'[j].seen = jobs[j].seen /\ jobs'[j].request = q
      BY <1>1, <1>2, <1>8, GotoForm, EndForm DEF CreateInsert, Steps
    <2>3. Kind[q] # "INGREDIENT" => Doing(j, "create", q)'
      BY <1>1, <1>2, <1>8, GotoForm DEF CreateInsert, Steps, Doing
    <2>4. \A r \in Requests \ {q} : status'[r] = status[r] BY <1>1, <1>2, OwnFacts
    <2>5. jobs'[j].op # "none" => InStep(j, q)'
      BY <1>2, <2>2, <2>4 DEF InStep, RequestsOf
    <2>6. Shape(Kind[q])' BY <1>1, <1>5, <2>1, <2>5, OwnShape, MoneyOfOne
    <2>7. QED BY <1>1, <1>2, <1>6, <2>3, <2>6, OwnBounds
  <1>9. QED BY <1>7, <1>8

LEMMA OwnReview ==
    ASSUME NEW j, NEW q, Undisturbed(j, q), ReviewWrite(j)
    PROVE  Shape(Kind[q])' /\ Bounds(Kind[q])'
  <1>1. TypeOK /\ Watched /\ j \in Jobs /\ Continues(j) /\ q = jobs[j].request
        /\ Calm(Order(Kind[q])) /\ Shape(Kind[q]) /\ Bounds(Kind[q])
    BY DEF Undisturbed
  <1>2. /\ q \in Requests /\ Kind[q] \in Kinds /\ InStep(j, q) /\ MoneyBy(j, q)
        /\ jobs[j].op = "review" /\ phase' = phase
        /\ status[q] \in {"PENDING", "APPROVED"} /\ ~Paid(j, q) => Rank(phase) <= 2 * Order(Kind[q])
    BY <1>1, OwnKnown DEF ReviewWrite, At
  <1>3. status[q] \in {"PENDING", "APPROVED"} BY <1>2 DEF InStep, Reviewable
  <1>4. Flows(q) = {} /\ surplus[q] = 0 BY <1>2, <1>3 DEF MoneyBy
  <1>5. jobs'[j].op = "none" BY <1>1, EndForm DEF ReviewWrite
  <1>6. MoneyBy(j, q)'
    <2>1. Flows(q)' = Flows(q) /\ surplus' = surplus
      BY <1>1, <1>2, OwnFacts DEF InflowInsert, InflowSurplus, At
    <2>2. QED BY <1>4, <2>1 DEF MoneyBy
  <1>7. Shape(Kind[q])' BY <1>1, <1>3, <1>5, <1>6, OwnShape, MoneyOfOne DEF Active
  <1>8. ~Doing(j, "create", q) /\ ~Paid(j, q) BY <1>2 DEF Doing, Paid
  <1>9. QED BY <1>1, <1>2, <1>3, <1>7, <1>8, OwnBounds

LEMMA OwnInflow ==
    ASSUME NEW j, NEW q, Undisturbed(j, q),
           InflowCheck(j) \/ InflowInsert(j) \/ InflowSurplus(j)
    PROVE  Shape(Kind[q])' /\ Bounds(Kind[q])'
  <1>1. TypeOK /\ Watched /\ j \in Jobs /\ Continues(j) /\ q = jobs[j].request
        /\ Calm(Order(Kind[q])) /\ Shape(Kind[q]) /\ Bounds(Kind[q])
    BY DEF Undisturbed
  <1>2. /\ q \in Requests /\ Kind[q] \in Kinds /\ InStep(j, q) /\ MoneyBy(j, q)
        /\ jobs[j].op = "inflow" /\ jobs[j].at \in {"duplicate", "insert", "surplus"}
        /\ phase' = phase /\ status' = status
        /\ status[q] \in {"PENDING", "APPROVED"} /\ ~Paid(j, q) => Rank(phase) <= 2 * Order(Kind[q])
    BY <1>1, OwnKnown DEF InflowCheck, InflowInsert, InflowSurplus, At, rows
  <1>3. ~Doing(j, "create", q) /\ ~Paid(j, q) BY <1>2 DEF Doing, Paid
  <1>4. Bounds(Kind[q])' BY <1>1, <1>2, <1>3, OwnBounds
  <1>5. jobs'[j].op # "none" => InStep(j, q)'
    <2>1. jobs'[j].op # "none" =>
            /\ jobs'[j].op = "inflow" /\ jobs'[j].at \in {"insert", "phase"}
            /\ jobs[j].at # "surplus"
      BY <1>1, <1>2, GotoForm, EndForm DEF InflowCheck, InflowInsert, InflowSurplus, At, Steps
    <2>2. QED BY <1>2, <2>1 DEF InStep
  <1>6. MoneyBy(j, q)'
    <2>1. CASE InflowCheck(j)
      <3>1. Flows(q)' = Flows(q) /\ surplus' = surplus /\ Flows(q) = {} /\ surplus[q] = 0
        BY <1>1, <1>2, <2>1, OwnFacts DEF InflowCheck, InflowInsert, InflowSurplus, At, MoneyBy, InStep
      <3>2. QED BY <3>1 DEF MoneyBy
    <2>2. CASE InflowInsert(j)
      <3>1. surplus' = surplus /\ Flows(q) = {} /\ surplus[q] = 0
        BY <1>2, <2>2 DEF InflowInsert, At, MoneyBy, InStep
      <3>2. Flows(q)' = {Len(flows) + 1} BY <1>1, <1>2, <2>2, <3>1, OwnFacts
      <3>3. jobs'[j].op = "inflow" /\ jobs'[j].at = "phase"
        BY <1>1, <1>2, <2>2, GotoForm DEF InflowInsert, Steps
      <3>4. QED BY <3>1, <3>2, <3>3 DEF MoneyBy
    <2>3. CASE InflowSurplus(j)
      <3>1. Flows(q)' = Flows(q) /\ surplus[q] = 0 /\ status[q] = "DISBURSED"
        BY <1>1, <1>2, <2>3, OwnFacts DEF InflowInsert, InflowSurplus, At, MoneyBy, InStep
      <3>2. surplus'[q] \in {0, 1} BY <1>1, <1>2, <2>3, <3>1 DEF InflowSurplus, TypeOK
      <3>3. jobs'[j].op = "none" BY <1>1, <2>3, EndForm DEF InflowSurplus
      <3>4. QED BY <1>2, <3>1, <3>2, <3>3 DEF MoneyBy
    <2>4. QED BY <2>1, <2>2, <2>3
  <1>7. Shape(Kind[q])' BY <1>1, <1>2, <1>5, <1>6, OwnShape, MoneyOfOne
  <1>8. QED BY <1>4, <1>7

LEMMA OwnLink ==
    ASSUME NEW j, NEW q, Undisturbed(j, q), LinkRead(j) \/ LinkMark(j) \/ ConfirmWrite(j)
    PROVE  Shape(Kind[q])' /\ Bounds(Kind[q])'
  <1>1. TypeOK /\ Watched /\ j \in Jobs /\ Continues(j) /\ q = jobs[j].request
        /\ Calm(Order(Kind[q])) /\ Shape(Kind[q]) /\ Bounds(Kind[q])
    BY DEF Undisturbed
  <1>2. /\ q \in Requests /\ Kind[q] \in Kinds /\ InStep(j, q) /\ MoneyBy(j, q)
        /\ jobs[j].op \in {"inflow", "confirm"} /\ phase' = phase /\ surplus' = surplus
        /\ jobs[j].op = "inflow" => jobs[j].at \in {"link", "mark"}
    BY <1>1, OwnKnown DEF LinkRead, LinkMark, ConfirmWrite, At, rows
  <1>3. /\ jobs[j].op = "inflow" => status[q] = "APPROVED" /\ Paid(j, q)
        /\ jobs[j].op = "confirm" => status[q] = "DISBURSED"
    BY <1>1, <1>2 DEF InStep, Paid, Doing
  <1>4. Flows(q)' = Flows(q)
    BY <1>1, <1>2, OwnFacts DEF InflowInsert, At
  <1>5. status[q] \in Active /\ status[q] # "NONE" /\ ~Doing(j, "create", q)
    BY <1>2, <1>3 DEF Active, Doing
  <1>6. CASE LinkRead(j)
    <2>1. /\ status' = status /\ jobs'[j].op = jobs[j].op /\ jobs'[j].request = q
          /\ jobs[j].op = "inflow" => jobs'[j].at = "mark"
          /\ jobs[j].op = "confirm" => jobs'[j].at = "write"
      <3>1. status' = status /\ jobs[j].at = "link"
            /\ Goto(j, IF status[q] = "APPROVED" THEN "mark" ELSE AfterLink(jobs[j]))
        BY <1>1, <1>6 DEF LinkRead, rows
      <3>2. CASE jobs[j].op = "inflow"
        <4>1. Goto(j, "mark") BY <1>3, <3>1, <3>2
        <4>2. QED BY <1>1, <3>1, <3>2, <4>1, GotoForm DEF Steps
      <3>3. CASE jobs[j].op = "confirm"
        <4>1. Goto(j, "write") BY <1>3, <3>1, <3>3, AfterLinkOf
        <4>2. QED BY <1>1, <3>1, <3>3, <4>1, GotoForm DEF Steps
      <3>4. QED BY <1>2, <3>2, <3>3
    <2>2. InStep(j, q)' BY <1>2, <1>3, <2>1 DEF InStep
    <2>3. MoneyBy(j, q)' BY <1>2, <1>3, <1>4, <2>1 DEF MoneyBy
    <2>4. Shape(Kind[q])' BY <1>1, <2>1, <2>2, <2>3, <1>5, OwnShape, MoneyOfOne
    <2>5. status[q] \in {"PENDING", "APPROVED"} => Paid(j, q)'
      BY <1>2, <1>3, <2>1 DEF Paid, Doing
    <2>6. QED BY <1>1, <1>2, <1>5, <2>1, <2>4, <2>5, OwnBounds
  <1>7. CASE LinkMark(j)
    <2>1. /\ status'[q] = "DISBURSED" /\ jobs'[j].op = jobs[j].op
          /\ jobs[j].op = "inflow" => jobs'[j].at = "surplus"
      BY <1>1, <1>2, <1>7, GotoForm, AfterLinkOf DEF LinkMark, TypeOK, Steps
    <2>2. InStep(j, q)' BY <1>2, <2>1 DEF InStep
    <2>3. MoneyBy(j, q)' BY <1>2, <1>3, <1>4, <2>1 DEF MoneyBy
    <2>4. Shape(Kind[q])' BY <1>1, <2>2, <2>3, <1>5, OwnShape, MoneyOfOne
    <2>5. QED BY <1>1, <1>2, <1>5, <2>1, <2>4, OwnBounds
  <1>8. CASE ConfirmWrite(j)
    <2>1. status' = status /\ jobs[j].op = "confirm" /\ jobs'[j].op = "none"
      BY <1>1, <1>8, EndForm DEF ConfirmWrite, At
    <2>2. MoneyBy(j, q)' BY <1>2, <1>3, <1>4, <2>1 DEF MoneyBy
    <2>3. Shape(Kind[q])' BY <1>1, <2>1, <2>2, <1>5, OwnShape, MoneyOfOne
    <2>4. QED BY <1>1, <1>2, <1>3, <1>5, <2>1, <2>3, OwnBounds
  <1>9. QED BY <1>6, <1>7, <1>8

LEMMA OwnPhase ==
    ASSUME NEW j, NEW q, Undisturbed(j, q), CreatePhase(j) \/ InflowPhase(j)
    PROVE  /\ Shape(Kind[q])' /\ Bounds(Kind[q])'
           /\ Rank(phase) <= Rank(phase')
           /\ Rank(phase') \in {2 * Order(Kind[q]), 2 * Order(Kind[q]) + 1}
           /\ Rank(phase) <= 2 * Order(Kind[q])
  <1>1. TypeOK /\ Watched /\ j \in Jobs /\ Continues(j) /\ q = jobs[j].request
        /\ Calm(Order(Kind[q])) /\ Shape(Kind[q]) /\ Bounds(Kind[q])
    BY DEF Undisturbed
  <1>2. /\ q \in Requests /\ q \in RequestsOf(Kind[q]) /\ Kind[q] \in Kinds
        /\ InStep(j, q) /\ MoneyBy(j, q) /\ About(j, Kind[q])
        /\ status' = status /\ surplus' = surplus
        /\ status[q] \in {"PENDING", "APPROVED"} /\ ~Paid(j, q) => Rank(phase) <= 2 * Order(Kind[q])
    BY <1>1, OwnKnown DEF CreatePhase, InflowPhase
  <1>3. Flows(q)' = Flows(q)
    BY <1>1, <1>2, OwnFacts DEF InflowInsert, CreatePhase, InflowPhase, At
  <1>4. Order(Kind[q]) \in 1 .. 3 /\ Rank(phase) \in 1 .. 8
    BY <1>1, <1>2, Orders, Ranks DEF TypeOK
  <1>5. /\ \A i \in Jobs : i # j => ~About(i, Kind[q]) /\ jobs'[i] = jobs[i]
        /\ jobs'[j].op = "none" \/ (jobs'[j].op = jobs[j].op /\ jobs'[j].request = q)
    BY <1>1, SoleWorker
  <1>6. CASE CreatePhase(j)
    <2>1. jobs[j].op = "create" /\ phase' = Awaiting(Kind[q]) /\ jobs'[j].op = "none"
      BY <1>1, <1>6, EndForm DEF CreatePhase, At
    <2>2. Rank(phase') = 2 * Order(Kind[q]) BY <1>2, <2>1, Orders
    <2>3. Rank(phase) <= 2 * Order(Kind[q])
      <3>1. Rank(phase) <= Rank(jobs[j].seen) BY <1>1, <1>2, <2>1 DEF Bounds
      <3>2. jobs[j].seen \in Open(Kind[q]) BY <1>2, <2>1 DEF InStep
      <3>3. Rank(jobs[j].seen) <= 2 * Order(Kind[q]) /\ Rank(jobs[j].seen) \in 1 .. 8
        BY <1>2, <3>2, Orders, Ranks
      <3>4. QED BY <1>4, <3>1, <3>3
    <2>4. MoneyBy(j, q)' BY <1>2, <1>3, <2>1 DEF MoneyBy
    <2>5. Shape(Kind[q])' BY <1>1, <1>2, <2>1, <2>4, OwnShape, MoneyOfOne
    <2>6. \A i \in Jobs : ~(About(i, Kind[q])' /\ jobs'[i].op = "create")
      BY <1>5, <2>1 DEF About, Working
    <2>7. Bounds(Kind[q])' BY <1>4, <2>2, <2>6 DEF Bounds
    <2>8. QED BY <1>4, <2>2, <2>3, <2>5, <2>7
  <1>7. CASE InflowPhase(j)
    <2>1. /\ jobs[j].op = "inflow" /\ jobs[j].at = "phase" /\ phase' = Disbursed(Kind[q])
          /\ jobs'[j].op = "inflow" /\ jobs'[j].at = "link" /\ jobs'[j].request = q
      BY <1>1, <1>7, GotoForm DEF InflowPhase, At, Steps
    <2>2. Rank(phase') = 2 * Order(Kind[q]) + 1 BY <1>2, <2>1, Orders
    <2>3. status[q] = "APPROVED" /\ ~Paid(j, q) BY <1>2, <2>1 DEF InStep, Paid
    <2>4. MoneyBy(j, q)' BY <1>2, <1>3, <2>1 DEF MoneyBy
    <2>5. InStep(j, q)' BY <1>2, <2>1, <2>3 DEF InStep
    <2>6. Shape(Kind[q])' BY <1>1, <1>2, <2>4, <2>5, OwnShape, MoneyOfOne
    <2>7. \A i \in Jobs : ~(About(i, Kind[q])' /\ jobs'[i].op = "create")
      BY <1>5, <2>1 DEF About, Working
    <2>8. Paid(j, q)' BY <2>1 DEF Paid, Doing
    <2>9. \A r \in RequestsOf(Kind[q]) : status[r] \in {"PENDING", "APPROVED"} => r = q
      BY <1>1, <1>2, <2>3 DEF Shape, Active
    <2>10. Bounds(Kind[q])' BY <1>1, <1>2, <1>4, <2>2, <2>7, <2>8, <2>9 DEF Bounds
    <2>11. QED BY <1>2, <1>4, <2>2, <2>3, <2>6, <2>10
  <1>8. QED BY <1>6, <1>7

-----------------------------------------------------------------------------
(* Every kind that nothing has disturbed stays in order.                   *)

LEMMA InitInOrder == Init => InOrder
  <1> SUFFICES ASSUME Init, NEW k \in Kinds PROVE Shape(k) /\ Bounds(k) /\ Past(Order(k))
    BY DEF InOrder
  <1>1. \A j \in Jobs : jobs[j].op = "none" BY DEF Init, NoJob
  <1>2. flows = <<>> /\ \A r \in Requests : status[r] = "NONE" /\ surplus[r] = 0
    BY DEF Init
  <1>3. \A r : Flows(r) = {} BY <1>2 DEF Flows
  <1>4. \A r \in Requests : r \in RequestsOf(k) => Money(r) BY <1>1, <1>2, <1>3 DEF Money
  <1>5. Shape(k) BY <1>1, <1>2, <1>4 DEF Shape, About, Working, Active, RequestsOf
  <1>6. Bounds(k) BY <1>1, <1>2 DEF Bounds, About, Working, RequestsOf
  <1>7. Past(Order(k)) BY <1>1, <1>2 DEF Past, Wanted, Doing
  <1>8. QED BY <1>5, <1>6, <1>7

LEMMA OwnKind ==
    ASSUME NEW j, NEW q, Undisturbed(j, q)
    PROVE  Shape(Kind[q])' /\ Bounds(Kind[q])'
  <1>1. Continues(j) BY DEF Undisturbed
  <1>2. QED BY <1>1, OwnCreate, OwnReview, OwnInflow, OwnLink, OwnPhase DEF Continues

\* The statuses two steps set the phase to, whatever it was.
LEMMA PhaseWritten ==
    ASSUME TypeOK, NEW j \in Jobs, Continues(j)
    PROVE  LET q == jobs[j].request IN
           /\ q \in Requests /\ Kind[q] \in Kinds /\ Working(j)
           /\ \/ phase' = phase
              \/ /\ CreatePhase(j) \/ InflowPhase(j)
                 /\ Rank(phase') \in {2 * Order(Kind[q]), 2 * Order(Kind[q]) + 1}
  <1>1. Working(j)
    BY DEF Continues, CreateCheck, CreateInsert, CreatePhase, ReviewWrite, InflowCheck,
           InflowInsert, InflowPhase, InflowSurplus, LinkRead, LinkMark, ConfirmWrite, At, Working
  <1>2. jobs[j].request \in Requests /\ Kind[jobs[j].request] \in Kinds
    BY <1>1, JobOf, DisbursementAssumption DEF TypeOK, Working
  <1>3. phase' = phase \/ CreatePhase(j) \/ InflowPhase(j) BY <1>2, OwnFacts
  <1>4. CASE CreatePhase(j) BY <1>1, <1>2, <1>4, Orders DEF CreatePhase
  <1>5. CASE InflowPhase(j) BY <1>1, <1>2, <1>5, Orders DEF InflowPhase
  <1>6. QED BY <1>1, <1>2, <1>3, <1>4, <1>5

LEMMA WantedBefore ==
    ASSUME TypeOK, Founded, NEW j \in Jobs, Continues(j), NEW r \in Requests, Wanted(r)'
    PROVE  Wanted(r)
  <1>1. Follows(j) BY GoesOn
  <1>2. CASE \E i \in Jobs : Doing(i, "create", r)'
    BY <1>1, <1>2 DEF Follows, Doing, Wanted
  <1>3. CASE status'[r] # "NONE"
    <2>1. PICK q \in Requests : q = jobs[j].request BY PhaseWritten
    <2>2. CASE r # q
      <3>1. status'[r] = status[r] BY <2>1, <2>2, OwnFacts
      <3>2. QED BY <1>3, <3>1 DEF Wanted
    <2>3. CASE r = q
      <3>1. CASE CreateInsert(j) BY <2>1, <2>3, <3>1 DEF CreateInsert, At, Wanted, Doing
      <3>2. CASE ReviewWrite(j) \/ LinkMark(j)
        BY <2>1, <2>3, <3>2 DEF ReviewWrite, LinkMark, At, Wanted, Founded
      <3>3. CASE status' = status BY <1>3, <3>3 DEF Wanted
      <3>4. QED BY <2>1, <3>1, <3>2, <3>3, OwnFacts
    <2>4. QED BY <2>2, <2>3
  <1>4. QED BY <1>2, <1>3 DEF Wanted

LEMMA InOrderContinues ==
    ASSUME TypeOK, TypeOK', Watched, Founded, InOrder, NEW j \in Jobs, Continues(j),
           NEW k \in Kinds, Calm(Order(k))
    PROVE  Shape(k)' /\ Bounds(k)' /\ Past(Order(k))'
  <1> DEFINE o == Order(k)
  <1>1. PICK q : /\ q = jobs[j].request /\ q \in Requests /\ Kind[q] \in Kinds /\ Working(j)
                 /\ \/ phase' = phase
                    \/ /\ CreatePhase(j) \/ InflowPhase(j)
                       /\ Rank(phase') \in {2 * Order(Kind[q]), 2 * Order(Kind[q]) + 1}
    BY PhaseWritten
  <1> DEFINE m == Order(Kind[q])
  <1>2. /\ o \in 1 .. 3 /\ m \in 1 .. 3 /\ Rank(phase) \in 1 .. 8 /\ Rank(phase') \in 1 .. 8
        /\ m = o => Kind[q] = k
    BY <1>1, Orders, Ranks DEF TypeOK
  <1>3. m <= o => Undisturbed(j, q)
    <2>1. m <= o => Calm(m) BY <1>2, CalmEarlier
    <2>2. QED BY <1>1, <2>1 DEF Undisturbed, InOrder
  <1>4. Wanted(q)
    BY <1>1 DEF Working, Wanted, Founded, Doing
  <1>5. Shape(k) /\ Bounds(k) /\ Past(o) BY DEF InOrder
  <1>6. \/ phase' = phase
        \/ m <= o /\ Rank(phase) <= Rank(phase') /\ Rank(phase') <= 2 * m + 1
        \/ m > o /\ Rank(phase') >= 2 * m /\ Rank(phase) >= 2 * o + 1
    <2>1. CASE phase' = phase BY <2>1
    <2>2. CASE m <= o BY <1>1, <1>2, <1>3, <2>2, OwnPhase
    <2>3. CASE m > o
      <3>1. Rank(phase) >= 2 * o + 1 BY <1>1, <1>4, <1>5, <2>3 DEF Past
      <3>2. QED BY <1>1, <1>2, <2>3, <3>1
    <2>4. QED BY <1>2, <2>1, <2>2, <2>3
  <1>7. Shape(k)' /\ Bounds(k)'
    <2>1. CASE Kind[q] = k BY <1>2, <1>3, <2>1, OwnKind
    <2>2. CASE Kind[q] # k
      <3>1. Follows(j) BY GoesOn
      <3>2. ~About(j, k) /\ ~About(j, k)' /\ \A i \in Jobs : i # j => jobs'[i] = jobs[i]
        BY <1>1, <2>2, <3>1 DEF Follows, About, Working
      <3>3. \A r \in RequestsOf(k) :
              status'[r] = status[r] /\ surplus'[r] = surplus[r] /\ Flows(r)' = Flows(r)
        BY <1>1, <2>2, OwnFacts DEF RequestsOf
      <3>4. m # o BY <1>2, <2>2
      <3> HIDE DEF o, m
      <3>5. Rank(phase') >= Rank(phase) \/ Rank(phase') >= 2 * o
        BY <1>2, <1>6, <3>4
      <3>6. Rank(phase') <= Rank(phase) \/ Rank(phase') <= 2 * o - 1 \/ Rank(phase) >= 2 * o + 1
        BY <1>2, <1>6, <3>4
      <3> USE DEF o
      <3>7. QED BY <1>5, <3>2, <3>3, <3>5, <3>6, ShapeElsewhere, BoundsElsewhere
    <2>3. QED BY <2>1, <2>2
  <1>8. Past(o)'
    <2> SUFFICES ASSUME NEW r \in Requests, Order(Kind[r]) > o, Wanted(r)'
                 PROVE  Rank(phase') >= 2 * o + 1
      BY DEF Past
    <2>1. Wanted(r) BY WantedBefore
    <2>2. Rank(phase) >= 2 * o + 1 BY <1>5, <2>1 DEF Past
    <2> HIDE DEF o, m
    <2>3. QED BY <1>2, <1>6, <2>2
  <1>9. QED BY <1>7, <1>8

LEMMA InOrderBegins ==
    ASSUME TypeOK, TypeOK', Watched, Founded, InOrder, NEW j \in Jobs, Begins(j),
           NEW k \in Kinds, Calm(Order(k)), Calm(Order(k))'
    PROVE  Shape(k)' /\ Bounds(k)' /\ Past(Order(k))'
  <1>1. Idle(j) /\ UNCHANGED <<rows, faults>> BY BeginsJob
  <1>2. PICK job \in JobTypes :
          /\ Start(j, job)
          /\ job.op \in {"create", "review", "inflow", "confirm"}
          /\ job.op = "create" => /\ job.at = "active" /\ job.seen = phase
                                  /\ phase \in Open(Kind[job.request])
                                  /\ status[job.request] = "NONE"
          /\ job.op = "review" => job.new \in Reviewable(job.request)
          /\ job.op = "inflow" => job.at = "duplicate" /\ status[job.request] = "APPROVED"
          /\ job.op = "confirm" => \E i \in DOMAIN flows : flows[i].request = job.request
    BY BeginsJob
  <1>3. PICK q : q = job.request OBVIOUS
  <1>4. /\ \A i \in Jobs : i # j => jobs'[i] = jobs[i]
        /\ jobs'[j] = job /\ q \in Requests
        /\ Kind[q] \notin crossed' => \A i \in Jobs : ~About(i, Kind[q])
    BY <1>1, <1>2, <1>3, Beginning
  <1>5. Kind[q] \in Kinds BY <1>4, DisbursementAssumption
  <1>6. /\ UNCHANGED <<phase, status, flows, surplus>> /\ \A r : Flows(r)' = Flows(r)
    BY <1>1 DEF rows, Flows
  <1>7. Shape(k) /\ Bounds(k) /\ Past(Order(k)) BY DEF InOrder
  <1>8. /\ Order(k) \in 1 .. 3 /\ Order(Kind[q]) \in 1 .. 3 /\ Rank(phase) \in 1 .. 8
        /\ phase \in Open(Kind[q]) => 2 * Order(Kind[q]) - 1 <= Rank(phase)
    BY <1>5, Orders, Ranks DEF TypeOK
  <1>9. Past(Order(k))'
    <2> SUFFICES ASSUME NEW r \in Requests, Order(Kind[r]) > Order(k), Wanted(r)'
                 PROVE  Rank(phase) >= 2 * Order(k) + 1
      BY <1>6 DEF Past
    <2>1. CASE Wanted(r) BY <1>7, <2>1 DEF Past
    <2>2. CASE ~Wanted(r)
      <3>1. r = q /\ job.op = "create"
        BY <1>3, <1>4, <1>6, <2>2 DEF Wanted, Doing
      <3>2. QED BY <1>2, <1>3, <1>5, <1>8, <3>1, Orders
    <2>3. QED BY <2>1, <2>2
  <1>10. CASE Kind[q] # k
    <2>1. ~About(j, k) /\ ~About(j, k)'
      BY <1>1, <1>3, <1>4, <1>10 DEF About, Working, Idle
    <2>2. QED BY <1>4, <1>6, <1>7, <1>8, <1>9, <2>1, ShapeElsewhere, BoundsElsewhere
  <1>11. CASE Kind[q] = k
    <2>1. \A i \in Jobs : ~About(i, k)
      <3>1. k \notin crossed' BY <1>8 DEF Calm
      <3>2. QED BY <1>4, <1>11, <3>1
    <2>2. \A i \in Jobs, r \in RequestsOf(k), op \in {"create", "review", "inflow", "confirm"} :
            ~Doing(i, op, r)
      BY <2>1 DEF About, Working, Doing, RequestsOf
    <2>3. \A i \in Jobs : About(i, k)' => i = j
      BY <1>4, <2>1 DEF About, Working
    <2>4. \A i \in Jobs, r \in RequestsOf(k), op \in {"create", "review", "inflow", "confirm"} :
            Doing(i, op, r)' => i = j /\ r = q /\ job.op = op
      BY <1>3, <1>4, <2>2 DEF Doing
    <2>5. InStep(j, q)'
      <3>1. CASE job.op = "create"
        <4>1. k # "INGREDIENT" => \A r \in RequestsOf(k) : status[r] = "NONE"
          <5>1. k # "INGREDIENT" => Rank(phase) = 2 * Order(k) - 1
            BY <1>2, <1>3, <1>11, <3>1, Orders
          <5>2. QED BY <1>7, <1>8, <2>2, <5>1 DEF Bounds
        <4>2. QED BY <1>2, <1>3, <1>4, <1>6, <1>11, <3>1, <4>1 DEF InStep
      <3>2. CASE job.op = "review"
        BY <1>2, <1>3, <1>4, <1>6, <3>2 DEF InStep, Reviewable
      <3>3. CASE job.op = "inflow"
        BY <1>2, <1>3, <1>4, <1>6, <3>3 DEF InStep
      <3>4. CASE job.op = "confirm"
        <4>1. Flows(q) # {} BY <1>2, <1>3, <3>4 DEF Flows
        <4>2. q \in RequestsOf(k) BY <1>4, <1>11 DEF RequestsOf
        <4>3. status[q] = "DISBURSED" BY <1>7, <2>2, <4>1, <4>2 DEF Shape, Money
        <4>4. QED BY <1>4, <1>6, <3>4, <4>3 DEF InStep
      <3>5. QED BY <1>2, <3>1, <3>2, <3>3, <3>4
    <2>6. ASSUME NEW r \in RequestsOf(k) PROVE Money(r)'
      <3>1. Money(r) BY <1>7 DEF Shape
      <3>2. (\E i \in Jobs : Doing(i, "inflow", r)') => status[r] = "APPROVED"
        BY <1>2, <1>3, <2>4
      <3>3. Flows(r) # {} => status[r] = "DISBURSED" BY <2>2, <3>1 DEF Money
      <3>4. QED BY <1>6, <3>1, <3>2, <3>3 DEF Money
    <2>7. Shape(k)'
      <3>1. \A i \in Jobs : About(i, k)' => InStep(i, jobs[i].request)'
        BY <1>3, <1>4, <2>3, <2>5
      <3>2. QED BY <1>6, <1>7, <2>6, <3>1 DEF Shape
    <2>8. Bounds(k)'
      <3>1. \A i \in Jobs : About(i, k)' /\ jobs'[i].op = "create"
              => Rank(phase) <= Rank(jobs'[i].seen)
        BY <1>2, <1>4, <1>8, <2>3
      <3>2. \A r \in RequestsOf(k), i \in Jobs : ~Paid(i, r) /\ ~Doing(i, "create", r)
        BY <2>2 DEF Paid
      <3>3. QED BY <1>6, <1>7, <3>1, <3>2 DEF Bounds
    <2>9. QED BY <1>9, <2>7, <2>8
  <1>12. QED BY <1>10, <1>11

LEMMA NextInOrder ==
    TypeOK /\ TypeOK' /\ Watched /\ Founded /\ InOrder /\ [Next]_vars => InOrder'
  <1> SUFFICES ASSUME TypeOK, TypeOK', Watched, Founded, InOrder, [Next]_vars,
                      NEW k \in Kinds, Calm(Order(k))'
               PROVE  Shape(k)' /\ Bounds(k)' /\ Past(Order(k))'
    BY DEF InOrder
  <1>1. CASE UNCHANGED vars
    <2>1. UNCHANGED <<phase, status, flows, surplus, jobs, faults, byHand, crossed>>
      BY <1>1 DEF vars, rows, history
    <2>2. Calm(Order(k)) BY <2>1 DEF Calm
    <2>3. Shape(k) /\ Bounds(k) /\ Past(Order(k)) BY <2>2 DEF InOrder
    <2>4. QED
      BY <2>1, <2>3 DEF Shape, Bounds, Past, About, Working, InStep, Reviewable, Money, Flows, Doing,
                        Paid, Wanted
  <1>2. CASE Next
    <2>1. Order(k) \in 1 .. 3 BY Orders
    <2>2. PICK j \in Jobs : Begins(j) \/ Continues(j) BY <1>2, <2>1, CalmStep
    <2>3. Calm(Order(k)) BY <1>2, <2>1, CalmStep
    <2>4. QED BY <2>2, <2>3, InOrderBegins, InOrderContinues
  <1>3. QED BY <1>1, <1>2

Careful == TypeOK /\ Watched /\ Founded /\ InOrder

LEMMA CarefulKept == (Init => Careful) /\ (Careful /\ [Next]_vars => Careful')
  <1>1. Init => Careful
    BY InitTypeOK, InitWatched, InitFounded, InitInOrder DEF Careful
  <1>2. Careful /\ [Next]_vars => Careful'
    BY NextTypeOK, NextWatched, NextFounded, NextInOrder DEF Careful
  <1>3. QED BY <1>1, <1>2

\* A step of the phase, while nothing has disturbed the handlers.
LEMMA PhaseForward ==
    ASSUME Careful, [Next]_vars, byHand = 0, crossed = {}, faults = 0
    PROVE  Rank(phase') >= Rank(phase)
  <1>1. TypeOK /\ Watched /\ Founded /\ InOrder BY DEF Careful
  <1>2. Rank(phase) \in 1 .. 8 BY <1>1, Ranks DEF TypeOK
  <1>3. CASE phase' = phase BY <1>2, <1>3
  <1>4. ASSUME NEW j \in Jobs, Continues(j) PROVE Rank(phase') >= Rank(phase)
    <2>1. PICK q : /\ q = jobs[j].request /\ q \in Requests /\ Kind[q] \in Kinds
                   /\ phase' = phase \/ CreatePhase(j) \/ InflowPhase(j)
      BY <1>1, <1>4, PhaseWritten
    <2>2. Calm(Order(Kind[q])) BY DEF Calm
    <2>3. Undisturbed(j, q) BY <1>1, <1>4, <2>1, <2>2 DEF Undisturbed, InOrder
    <2>4. CASE phase' = phase BY <1>3, <2>4
    <2>5. CASE CreatePhase(j) \/ InflowPhase(j)
      <3>1. Rank(phase) <= Rank(phase') BY <2>3, <2>5, OwnPhase
      <3>2. Rank(phase') \in {2 * Order(Kind[q]), 2 * Order(Kind[q]) + 1} /\ Order(Kind[q]) \in 1 .. 3
        BY <2>1, <2>3, <2>5, OwnPhase, Orders
      <3>3. QED BY <1>2, <3>1, <3>2
    <2>6. QED BY <2>1, <2>4, <2>5
  <1>5. ASSUME NEW j \in Jobs, Begins(j) PROVE phase' = phase
    BY <1>1, <1>5, BeginsJob DEF rows
  <1>6. ASSUME NEW j \in Jobs, Disturbs(j) PROVE phase' = phase
    BY <1>6 DEF Disturbs, JobError, CaughtError, SurplusRepeated, rows
  <1>7. ASSUME NEW j \in Jobs, NEW p \in PhaseStatuses, MoveRead(j, p) PROVE phase' = phase
    BY <1>7 DEF MoveRead, rows
  <1>8. ASSUME NEW j \in Jobs, MoveWrite(j) PROVE FALSE
    BY <1>1, <1>8 DEF MoveWrite, At, Watched
  <1>9. QED BY <1>3, <1>4, <1>5, <1>6, <1>7, <1>8, NextCases DEF vars, rows

\* The phase only moves forward: a request is created in the phase that calls for it
\* and holds it there until it is paid, so the status a handler sets without looking
\* is never behind the phase, unless handlers overlap or fail or the fundraiser moves
\* the phase by hand.
THEOREM PhaseOnlyForward == Spec => PhaseMovesForward
  <1>1. Careful /\ [Next]_vars
          => [byHand = 0 /\ crossed = {} /\ faults = 0 => Rank(phase') >= Rank(phase)]_vars
    BY PhaseForward
  <1>2. QED BY <1>1, CarefulKept, PTL DEF Spec, PhaseMovesForward

-----------------------------------------------------------------------------
(* The funds of a kind.                                                    *)

\* Of a kind that nothing has disturbed, one request at most has cost anything.
LEMMA SpentByOne ==
    ASSUME Careful, NEW k \in Kinds, Calm(Order(k)), NEW r \in RequestsOf(k)
    PROVE  /\ Spent(r) \in Nat /\ Spent(r) <= Budget[k]
           /\ Spent(r) # 0 => status[r] \in Active
  <1>1. TypeOK /\ Founded /\ Shape(k) /\ Money(r) /\ r \in Requests /\ Kind[r] = k
    BY DEF Careful, InOrder, Shape, RequestsOf
  <1>2. Cost[r] \in Nat /\ Budget[k] \in Nat BY <1>1, DisbursementAssumption
  <1>3. LiveFlows(r) \subseteq Flows(r) /\ \A i, n \in Flows(r) : i = n
    BY <1>1 DEF LiveFlows, Flows, Money
  <1>4. Flows(r) # {} => status[r] \in {"DISBURSED", "APPROVED"}
    <2>1. ASSUME NEW j \in Jobs, Doing(j, "inflow", r), jobs[j].at \in {"phase", "link", "mark"}
          PROVE  status[r] = "APPROVED"
      <3>1. About(j, k) BY <1>1, <2>1 DEF About, Working, Doing
      <3>2. QED BY <1>1, <2>1, <3>1 DEF Shape, InStep, Doing
    <2>2. QED BY <1>1, <2>1 DEF Money
  <1>5. surplus[r] \in {0, 1} /\ (surplus[r] = 1 => status[r] = "DISBURSED")
    BY <1>1 DEF Money
  <1>6. Cardinality(LiveFlows(r)) \in {0, 1} /\ (Cardinality(LiveFlows(r)) = 1 => Flows(r) # {})
    <2>1. CASE LiveFlows(r) = {} BY <2>1, FS_EmptySet
    <2>2. CASE LiveFlows(r) # {}
      <3>1. PICK i : LiveFlows(r) = {i} BY <1>3, <2>2
      <3>2. QED BY <1>3, <3>1, FS_Singleton
    <2>3. QED BY <2>1, <2>2
  <1>7. Spent(r) = Cardinality(LiveFlows(r)) * Cost[r] + surplus[r] * (Budget[k] - Cost[r])
    BY <1>1 DEF Spent
  <1>8. status[r] # "NONE" => Cost[r] <= Budget[k] BY <1>1 DEF Founded
  <1>9. /\ Cardinality(LiveFlows(r)) = 1 => status[r] \in {"DISBURSED", "APPROVED"}
        /\ surplus[r] = 1 => status[r] = "DISBURSED"
    BY <1>4, <1>5, <1>6
  <1>10. CASE Cardinality(LiveFlows(r)) = 0 /\ surplus[r] = 0
    BY <1>2, <1>7, <1>10
  <1>11. CASE Cardinality(LiveFlows(r)) = 1 /\ surplus[r] = 0
    <2>1. Spent(r) = Cost[r] BY <1>2, <1>7, <1>11
    <2>2. QED BY <1>2, <1>8, <1>9, <1>11, <2>1 DEF Active
  <1>12. CASE Cardinality(LiveFlows(r)) = 0 /\ surplus[r] = 1
    <2>1. Spent(r) = Budget[k] - Cost[r] BY <1>2, <1>7, <1>12
    <2>2. QED BY <1>2, <1>8, <1>9, <1>12, <2>1 DEF Active
  <1>13. CASE Cardinality(LiveFlows(r)) = 1 /\ surplus[r] = 1
    <2>1. Spent(r) = Budget[k] BY <1>2, <1>7, <1>13
    <2>2. QED BY <1>2, <1>9, <1>13, <2>1 DEF Active
  <1>14. QED BY <1>5, <1>6, <1>10, <1>11, <1>12, <1>13

LEMMA WithinFunds == Careful => FundsWithinBudget
  <1> SUFFICES ASSUME Careful, NEW k \in Kinds, Calm(Order(k)) PROVE SpentOn(k) <= Budget[k]
    BY DEF FundsWithinBudget
  <1> DEFINE F == [r \in Requests |-> Spent(r)]
             S == RequestsOf(k)
  <1>1. SpentOn(k) = SumFunctionOnSet(F, S) BY DEF SpentOn, RequestsOf
  <1>2. IsFiniteSet(S) /\ Budget[k] \in Nat
    BY DisbursementAssumption, FS_Subset DEF RequestsOf
  <1>3. \A r \in S : F[r] = Spent(r) BY DEF RequestsOf
  <1>4. \A r \in S : F[r] \in Nat /\ F[r] <= Budget[k] /\ (F[r] # 0 => status[r] \in Active)
    BY <1>3, SpentByOne
  <1>5. \A q, r \in S : status[q] \in Active /\ status[r] \in Active => q = r
    BY DEF Careful, InOrder, Shape
  <1> HIDE DEF F, S
  <1>6. CASE \A r \in S : F[r] = 0
    <2>1. SumFunctionOnSet(F, S) = 0 BY <1>2, <1>6, SumZero
    <2>2. QED BY <1>1, <1>2, <2>1
  <1>7. ASSUME NEW r \in S, F[r] # 0 PROVE SpentOn(k) <= Budget[k]
    <2>1. \A q \in S \ {r} : F[q] = 0 BY <1>4, <1>5, <1>7
    <2>2. SumFunctionOnSet(F, S) = F[r] + SumFunctionOnSet(F, S \ {r})
      BY <1>2, <1>4, SumTakeOut
    <2>3. IsFiniteSet(S \ {r}) BY <1>2, FS_RemoveElement
    <2>4. SumFunctionOnSet(F, S \ {r}) = 0 BY <2>1, <2>3, SumZero
    <2>5. QED BY <1>1, <1>2, <1>4, <2>2, <2>4
  <1>8. QED BY <1>6, <1>7

\* The funds of a kind are never exceeded by what is paid and what is returned of
\* them: the handlers let one request of it at a time be active, pay it once and
\* return its surplus once, as long as none of that kind or of an earlier one overlap.
THEOREM FundsKept == Spec => []FundsWithinBudget
  <1>1. QED BY CarefulKept, WithinFunds, PTL DEF Spec
====
