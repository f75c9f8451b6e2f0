---- MODULE PaymentsProofs ----
(***************************************************************************)
(* Proofs about Payments, for any orders, transfers, amounts, number of    *)
(* concurrent requests, deliveries and faults.                             *)
(*                                                                         *)
(* Every step either leaves the rows alone or is one of the database       *)
(* transactions (RowStep).  The invariants about the rows are proved of    *)
(* those transactions, whatever the handlers had read before.              *)
(***************************************************************************)
EXTENDS Payments, SumProofs

RowTypes ==
    /\ payments \in [Orders -> Payment]
    /\ extras \in [Transfers -> Nat]
    /\ credited \in [Orders -> Nat]
    /\ counted \in [Orders -> Nat]
    /\ outbox \in Seq([payment: Orders \union (Transfers \X Nat), amount: Nat])

\* The first step of a new row.
RecordNew(o) ==
    /\ payments[o].status = "ABSENT"
    /\ payments' = [payments EXCEPT ![o].status = "PENDING"]
    /\ UNCHANGED <<extras, credited, counted, outbox>>

\* What a step can do to the rows.
RowStep ==
    \/ UNCHANGED rows
    \/ \E o \in Orders : RecordNew(o)
    \/ \E o \in Orders, t \in Transfers, g \in Gateways, r \in Transfers \union {None} :
          RecordSuccess(o, Amount[t], g, r)
    \/ \E o \in Orders, processed \in BOOLEAN : RecordFailure(o, processed)
    \/ \E t \in Transfers : RecordExtra(t)
    \/ \E o \in Orders : RecordApproval(o)

\* The slots hold the requests their steps can hold.
SlotTypes == slots \in [Slots -> Requests]

LEMMA RequestHook ==
    ASSUME NEW q \in Requests
    PROVE  /\ q.at \in {"idle", "find", "commit", "fail", "exists", "set", "lookup",
                        "order", "partial", "extra", "route", "tryRoute"}
           /\ q.at = "find" => q.hook \in PayosHooks \union FailHooks
           /\ q.at = "commit" => q.hook \in PayosHooks
           /\ q.at = "fail" => q.hook \in FailHooks
           /\ q.at \in {"exists", "set", "lookup", "order", "partial", "extra",
                        "route", "tryRoute"} => q.hook \in SepayHooks
           /\ q.at \in {"partial", "extra"} => q.hook.of \in Matched
  BY DEF Requests

LEMMA RequestMade ==
    /\ IdleSlot \in Requests
    /\ \A h \in PayosHooks : [at |-> "commit", hook |-> h] \in Requests
    /\ \A h \in FailHooks : [at |-> "fail", hook |-> h] \in Requests
    /\ \A h \in SepayHooks :
         /\ \A a \in {"exists", "set", "lookup", "order", "route", "tryRoute"} :
               [at |-> a, hook |-> h] \in Requests
         /\ h.of \in Matched => \A a \in {"partial", "extra"} :
               [at |-> a, hook |-> h] \in Requests
    /\ \A h \in Hooks : [at |-> FirstStep(h), hook |-> h] \in Requests
  <1>1. \A h \in Hooks : [at |-> FirstStep(h), hook |-> h] \in Requests
    <2> SUFFICES ASSUME NEW h \in Hooks PROVE [at |-> FirstStep(h), hook |-> h] \in Requests
      OBVIOUS
    <2>1. CASE h \in SepayHooks
      <3>1. FirstStep(h) = "exists" BY <2>1 DEF SepayHooks, FirstStep
      <3>2. QED BY <2>1, <3>1 DEF Requests
    <2>2. CASE h \in PayosHooks \union FailHooks
      <3>1. FirstStep(h) = "find" BY <2>2 DEF PayosHooks, FailHooks, FirstStep
      <3>2. QED BY <2>2, <3>1 DEF Requests
    <2>3. QED BY <2>1, <2>2 DEF Hooks
  <1>2. QED BY <1>1 DEF Requests, IdleSlot

LEMMA SlotMoves ==
    ASSUME SlotTypes, NEW s \in Slots
    PROVE  /\ Answer(s) => SlotTypes'
           /\ \A step : /\ [at |-> step, hook |-> slots[s].hook] \in Requests
                        /\ Goto(s, step)
                        => SlotTypes'
  <1>1. Answer(s) => SlotTypes'
    BY RequestMade DEF Answer, SlotTypes
  <1>2. ASSUME NEW step, [at |-> step, hook |-> slots[s].hook] \in Requests, Goto(s, step)
        PROVE  SlotTypes'
    <2>1. slots[s] \in Requests BY DEF SlotTypes
    <2>2. [slots[s] EXCEPT !.at = step] = [at |-> step, hook |-> slots[s].hook]
      BY <2>1 DEF Requests
    <2>3. slots' = [slots EXCEPT ![s] = [at |-> step, hook |-> slots[s].hook]]
      BY <1>2, <2>2 DEF Goto
    <2>4. QED BY <2>3, <1>2 DEF SlotTypes
  <1>3. QED BY <1>1, <1>2

-----------------------------------------------------------------------------
(* Every step is a RowStep.                                                *)

LEMMA AmountTypes == ASSUME NEW o \in Orders, NEW amount \in Nat, RowTypes
                     PROVE  /\ AmountStatus(o, amount) \in AmountStatuses
                            /\ Increment(o, amount) \in Nat
                            /\ payments[o].received + Increment(o, amount) >= amount
                            /\ NewDonations(o) \in Nat
  <1>1. Price[o] \in Nat /\ payments[o].received \in Nat
    BY PaymentsAssumption DEF RowTypes, Payment
  <1>2. AmountStatus(o, amount) \in AmountStatuses
    BY <1>1 DEF AmountStatus, AmountStatuses
  <1>3. /\ Increment(o, amount) \in Nat
        /\ payments[o].received + Increment(o, amount) >= amount
    BY <1>1 DEF Increment
  <1>4. QED BY <1>2, <1>3 DEF NewDonations

LEMMA TransferAmount == \A t \in Transfers : Amount[t] \in Nat \ {0}
  BY PaymentsAssumption

LEMMA HandlerRowStep ==
    ASSUME TypeOK, NEW s \in Slots, Handler(s) \/ HandlerError(s)
    PROVE  RowStep
  <1>1. slots[s] \in Requests
    BY DEF TypeOK
  <1>2. CASE PayosCommit(s)
    <2>1. slots[s].hook \in PayosHooks BY <1>1, <1>2, RequestHook DEF PayosCommit
    <2>2. slots[s].hook.of \in Transfers /\ OrderOf[slots[s].hook.of] \in Orders
      BY <2>1 DEF PayosHooks, Matched
    <2>3. QED BY <1>2, <2>2 DEF PayosCommit, RowStep, Gateways
  <1>3. CASE PayosFail(s)
    <2>1. slots[s].hook \in FailHooks BY <1>1, <1>3, RequestHook DEF PayosFail
    <2>2. slots[s].hook.of \in Orders BY <2>1 DEF FailHooks
    <2>3. QED BY <1>3, <2>2 DEF PayosFail, RowStep
  <1>4. CASE SepayPartial(s)
    <2>1. slots[s].hook \in SepayHooks /\ slots[s].hook.of \in Matched
      BY <1>1, <1>4, RequestHook DEF SepayPartial
    <2>2. slots[s].hook.of \in Transfers /\ OrderOf[slots[s].hook.of] \in Orders
      BY <2>1 DEF Matched
    <2>3. payments[OrderOf[slots[s].hook.of]].reference \in Transfers \union {None}
      BY <2>2 DEF TypeOK, Payment
    <2>4. QED BY <1>4, <2>2, <2>3 DEF SepayPartial, RowStep, Gateways
  <1>5. CASE SepayExtra(s)
    <2>1. slots[s].hook \in SepayHooks BY <1>1, <1>5, RequestHook DEF SepayExtra
    <2>2. slots[s].hook.of \in Transfers BY <2>1 DEF SepayHooks
    <2>3. QED BY <1>5, <2>2 DEF SepayExtra, RowStep
  <1>6. CASE PayosFind(s) \/ RedisExists(s) \/ RedisSet(s) \/ SepayLookup(s)
             \/ SepayOrder(s) \/ Route(s) \/ HandlerError(s)
    BY <1>6 DEF PayosFind, RedisExists, RedisSet, SepayLookup, SepayOrder, Route,
                HandlerError, PayosError, RedisError, SepayError, RouteError, RowStep
  <1>7. QED BY <1>2, <1>3, <1>4, <1>5, <1>6 DEF Handler

LEMMA NextRowStep == TypeOK /\ [Next]_vars => RowStep
  <1> SUFFICES ASSUME TypeOK, [Next]_vars PROVE RowStep
    OBVIOUS
  <1>1. CASE UNCHANGED vars
    BY <1>1 DEF vars, RowStep
  <1>2. ASSUME NEW o \in Orders, OpenLink(o) \/ CreatePaymentTransaction(o) \/ Cleanup(o)
        PROVE  RowStep
    BY <1>2 DEF OpenLink, CreatePaymentTransaction, Cleanup, SweepList, SweepCancel,
                SweepSkip, SweepMark, SweepError, RecordNew, RowStep
  <1>3. ASSUME NEW t \in Transfers, DonorPays(t) PROVE RowStep
    BY <1>3 DEF DonorPays, RowStep
  <1>4. ASSUME NEW s \in Slots, NEW h \in Hooks, Deliver(s, h) PROVE RowStep
    BY <1>4 DEF Deliver, RowStep
  <1>5. ASSUME NEW s \in Slots, Handler(s) \/ HandlerError(s) PROVE RowStep
    BY <1>5, HandlerRowStep
  <1>6. ASSUME NEW a \in Admins, Approval(a) PROVE RowStep
    <2>1. desk[a] \in Orders \union {None} BY DEF TypeOK
    <2>2. QED BY <1>6, <2>1 DEF Approval, AdminCheck, AdminApprove, AdminError, RowStep
  <1>7. CASE Crash
    BY <1>7 DEF Crash, RowStep
  <1>8. QED BY <1>1, <1>2, <1>3, <1>4, <1>5, <1>6, <1>7 DEF Next

-----------------------------------------------------------------------------
(* Types.                                                                  *)

LEMMA SuccessTypes ==
    ASSUME RowTypes, NEW o \in Orders, NEW t \in Transfers, NEW g \in Gateways,
           NEW r \in Transfers \union {None}, RecordSuccess(o, Amount[t], g, r)
    PROVE  RowTypes'
  <1>1. Amount[t] \in Nat BY TransferAmount
  <1>2. /\ AmountStatus(o, Amount[t]) \in AmountStatuses
        /\ Increment(o, Amount[t]) \in Nat /\ NewDonations(o) \in Nat
    BY <1>1, AmountTypes
  <1>3. payments' \in [Orders -> Payment]
    BY <1>1, <1>2 DEF RowTypes, RecordSuccess, Payment, Statuses
  <1>4. credited' \in [Orders -> Nat] /\ counted' \in [Orders -> Nat]
    BY <1>2 DEF RowTypes, RecordSuccess
  <1>5. outbox' \in Seq([payment: Orders \union (Transfers \X Nat), amount: Nat])
    BY <1>1 DEF RowTypes, RecordSuccess, Announce
  <1>6. extras' \in [Transfers -> Nat]
    BY DEF RowTypes, RecordSuccess
  <1>7. QED BY <1>3, <1>4, <1>5, <1>6 DEF RowTypes

LEMMA RowTypesStep == RowTypes /\ RowStep => RowTypes'
  <1> SUFFICES ASSUME RowTypes, RowStep PROVE RowTypes'
    OBVIOUS
  <1>1. CASE UNCHANGED rows
    BY <1>1 DEF RowTypes, rows
  <1>2. ASSUME NEW o \in Orders, RecordNew(o) PROVE RowTypes'
    BY <1>2 DEF RowTypes, RecordNew, Payment, Statuses
  <1>3. ASSUME NEW o \in Orders, NEW processed \in BOOLEAN, RecordFailure(o, processed)
        PROVE  RowTypes'
    BY <1>3 DEF RowTypes, RecordFailure, Payment, Statuses, Gateways
  <1>4. ASSUME NEW t \in Transfers, RecordExtra(t) PROVE RowTypes'
    <2>1. Amount[t] \in Nat BY TransferAmount
    <2>2. <<t, extras[t] + 1>> \in Transfers \X Nat BY DEF RowTypes
    <2>3. outbox' \in Seq([payment: Orders \union (Transfers \X Nat), amount: Nat])
      BY <1>4, <2>1, <2>2 DEF RowTypes, RecordExtra
    <2>4. QED BY <1>4, <2>3 DEF RowTypes, RecordExtra
  <1>5. ASSUME NEW o \in Orders, RecordApproval(o) PROVE RowTypes'
    <2>1. Price[o] \in Nat BY PaymentsAssumption
    <2>2. payments' \in [Orders -> Payment]
      BY <1>5 DEF RowTypes, RecordApproval, Payment, Statuses
    <2>3. credited' \in [Orders -> Nat] /\ counted' \in [Orders -> Nat]
      BY <1>5, <2>1 DEF RowTypes, RecordApproval
    <2>4. QED BY <1>5, <2>2, <2>3 DEF RowTypes, RecordApproval
  <1>6. QED BY <1>1, <1>2, <1>3, <1>4, <1>5, SuccessTypes DEF RowStep

\* What TypeOK says of everything but the rows and the slots.
RestTypes ==
    /\ redis \subseteq Transfers /\ wallet \subseteq Transfers
    /\ link \in [Orders -> {"NONE", "PENDING", "PAID", "CANCELLED"}]
    /\ made \subseteq Transfers /\ seen \subseteq made \intersect Matched
    /\ delivered \in [Hooks -> Nat]
    /\ sweep \in [Orders -> {"idle", "listed", "cancelled"}]
    /\ desk \in [Admins -> Orders \union {None}]
    /\ faults \in [FaultKinds -> Nat]
    /\ passed \in [Transfers -> Nat]
    /\ raced \subseteq Orders /\ approved \subseteq Orders /\ swept \subseteq Orders

LEMMA TypeSplit == TypeOK <=> RowTypes /\ SlotTypes /\ RestTypes
  BY DEF TypeOK, RowTypes, SlotTypes, RestTypes

LEMMA FaultTypes == ASSUME RestTypes, NEW k \in FaultKinds, Fault(k)
                    PROVE  faults' \in [FaultKinds -> Nat]
  BY DEF RestTypes, Fault

LEMMA PayosTypes ==
    ASSUME TypeOK, NEW s \in Slots,
           PayosFind(s) \/ PayosCommit(s) \/ PayosFail(s) \/ PayosError(s)
    PROVE  SlotTypes' /\ RestTypes'
  <1> SlotTypes /\ RestTypes /\ slots[s] \in Requests
    BY TypeSplit DEF SlotTypes
  <1>1. CASE PayosFind(s)
    <2> DEFINE h == slots[s].hook
    <2>1. h \in PayosHooks \union FailHooks
      BY <1>1, RequestHook DEF PayosFind
    <2>2. OrderFor(h) \in Orders
      BY <2>1 DEF PayosHooks, FailHooks, Matched, OrderFor
    <2>3. h.kind = "payos" => h \in PayosHooks
      BY <2>1 DEF PayosHooks, FailHooks
    <2>4. h.kind = "fail" => h \in FailHooks
      BY <2>1 DEF PayosHooks, FailHooks
    <2>5. CASE Answer(s) /\ UNCHANGED history
      BY <1>1, <2>5, SlotMoves DEF PayosFind, RestTypes, external, history
    <2>6. CASE h.kind = "payos" /\ GoSettle(s, "commit", OrderFor(h))
      BY <1>1, <2>2, <2>3, <2>6, SlotMoves, RequestMade
         DEF PayosFind, GoSettle, RestTypes, external
    <2>7. CASE h.kind = "fail" /\ GoSettle(s, "fail", OrderFor(h))
      BY <1>1, <2>2, <2>4, <2>7, SlotMoves, RequestMade
         DEF PayosFind, GoSettle, RestTypes, external
    <2>8. QED BY <1>1, <2>5, <2>6, <2>7 DEF PayosFind
  <1>2. CASE PayosCommit(s)
    BY <1>2, SlotMoves DEF PayosCommit, RestTypes, external, history
  <1>3. CASE PayosFail(s)
    BY <1>3, SlotMoves DEF PayosFail, RestTypes, external, history
  <1>4. CASE PayosError(s)
    <2>1. faults' \in [FaultKinds -> Nat]
      BY <1>4, FaultTypes DEF PayosError, FaultKinds
    <2>2. QED BY <1>4, <2>1, SlotMoves DEF PayosError, RestTypes, external, history
  <1>5. QED BY <1>1, <1>2, <1>3, <1>4

LEMMA SepayTypes ==
    ASSUME TypeOK, NEW s \in Slots,
           \/ RedisExists(s) \/ RedisSet(s) \/ RedisError(s)
           \/ SepayLookup(s) \/ SepayOrder(s) \/ SepayPartial(s) \/ SepayExtra(s)
           \/ SepayError(s) \/ Route(s) \/ RouteError(s)
    PROVE  SlotTypes' /\ RestTypes'
  <1> DEFINE h == slots[s].hook
             Step(a) == a \in {"exists", "set", "lookup", "order", "route", "tryRoute"}
  <1> SlotTypes /\ RestTypes /\ slots[s] \in Requests
    BY TypeSplit DEF SlotTypes
  <1>0. h \in SepayHooks /\ h.of \in Transfers
    <2>1. slots[s].at \in {"exists", "set", "lookup", "order", "partial", "extra",
                           "route", "tryRoute"}
      BY DEF RedisExists, RedisSet, RedisError, SepayLookup, SepayOrder, SepayPartial,
             SepayExtra, SepayError, Route, RouteError
    <2>2. h \in SepayHooks BY <2>1, RequestHook
    <2>3. QED BY <2>2 DEF SepayHooks
  <1>a. \A a : Step(a) /\ Goto(s, a) => SlotTypes'
    <2> SUFFICES ASSUME NEW a, Step(a), Goto(s, a) PROVE SlotTypes'
      OBVIOUS
    <2>1. [at |-> a, hook |-> h] \in Requests BY <1>0, RequestMade
    <2>2. QED BY <2>1, SlotMoves
  <1>b. PassCheck(s) => SlotTypes' /\ passed' \in [Transfers -> Nat]
    <2> SUFFICES ASSUME PassCheck(s) PROVE SlotTypes' /\ passed' \in [Transfers -> Nat]
      OBVIOUS
    <2>1. passed' = [passed EXCEPT ![h.of] = passed[h.of] + 1] BY DEF PassCheck
    <2>2. passed' \in [Transfers -> Nat] BY <2>1, <1>0 DEF RestTypes
    <2>3. Goto(s, "route") \/ Goto(s, "lookup") BY DEF PassCheck
    <2>4. QED BY <2>2, <2>3, <1>a
  <1>1. CASE RedisExists(s)
    BY <1>1, <1>a, SlotMoves DEF RedisExists, RestTypes, external, history
  <1>2. CASE RedisSet(s)
    BY <1>2, <1>0, <1>b DEF RedisSet, PassCheck, RestTypes, external
  <1>3. CASE RedisError(s)
    <2>1. faults' \in [FaultKinds -> Nat]
      BY <1>3, FaultTypes DEF RedisError, FaultKinds
    <2>2. QED BY <1>3, <2>1, <1>b DEF RedisError, PassCheck, RestTypes, external
  <1>4. CASE SepayLookup(s)
    BY <1>4, <1>a, SlotMoves DEF SepayLookup, RestTypes, external, history
  <1>5. CASE SepayOrder(s)
    <2>1. ASSUME NEW a \in {"partial", "extra"}, OrderOf[h.of] \in Orders,
                 GoSettle(s, a, OrderOf[h.of])
          PROVE  SlotTypes' /\ RestTypes'
      <3>1. [at |-> a, hook |-> h] \in Requests
        BY <1>0, <2>1, RequestMade DEF Matched
      <3>2. SlotTypes' BY <2>1, <3>1, SlotMoves DEF GoSettle
      <3>3. QED BY <1>5, <2>1, <3>2 DEF SepayOrder, GoSettle, RestTypes, external
    <2>2. CASE (Goto(s, "tryRoute") \/ Answer(s)) /\ UNCHANGED history
      BY <1>5, <2>2, <1>a, SlotMoves DEF SepayOrder, RestTypes, external, history
    <2>3. \/ OrderOf[h.of] \in Orders /\ GoSettle(s, "partial", OrderOf[h.of])
          \/ OrderOf[h.of] \in Orders /\ GoSettle(s, "extra", OrderOf[h.of])
          \/ (Goto(s, "tryRoute") \/ Answer(s)) /\ UNCHANGED history
      BY <1>5, Zenon DEF SepayOrder
    <2>4. QED BY <2>1, <2>2, <2>3
  <1>6. CASE SepayPartial(s)
    BY <1>6, SlotMoves DEF SepayPartial, RestTypes, external, history
  <1>7. CASE SepayExtra(s)
    BY <1>7, SlotMoves DEF SepayExtra, RestTypes, external, history
  <1>8. CASE SepayError(s)
    <2>1. faults' \in [FaultKinds -> Nat]
      BY <1>8, FaultTypes DEF SepayError, FaultKinds
    <2>2. QED BY <1>8, <2>1, <1>a DEF SepayError, RestTypes, external, history
  <1>9. CASE Route(s)
    BY <1>9, <1>0, SlotMoves DEF Route, RestTypes, history
  <1>10. CASE RouteError(s)
    <2>1. faults' \in [FaultKinds -> Nat]
      BY <1>10, FaultTypes DEF RouteError, FaultKinds
    <2>2. SlotTypes' BY <1>10, <1>a, SlotMoves DEF RouteError
    <2>3. QED BY <1>10, <1>0, <2>1, <2>2 DEF RouteError, RestTypes, history
  <1>11. QED BY <1>1, <1>2, <1>3, <1>4, <1>5, <1>6, <1>7, <1>8, <1>9, <1>10

LEMMA TypeInit == Init => TypeOK
  <1> SUFFICES ASSUME Init PROVE TypeOK
    OBVIOUS
  <1>1. RowTypes
    BY DEF Init, RowTypes, NoPayment, Payment, Statuses, AmountStatuses, Gateways
  <1>2. SlotTypes
    BY RequestMade DEF Init, SlotTypes
  <1>3. RestTypes
    BY DEF Init, RestTypes
  <1>4. QED BY <1>1, <1>2, <1>3, TypeSplit

LEMMA TypeStep == TypeOK /\ [Next]_vars => TypeOK'
  <1> SUFFICES ASSUME TypeOK, [Next]_vars PROVE SlotTypes' /\ RestTypes'
    <2>1. TypeOK /\ [Next]_vars => RowTypes' BY NextRowStep, RowTypesStep, TypeSplit
    <2>2. QED BY <2>1 DEF TypeOK, RowTypes, SlotTypes, RestTypes
  <1> SlotTypes /\ RestTypes
    BY TypeSplit
  <1>1. CASE UNCHANGED vars
    BY <1>1 DEF vars, external, history, SlotTypes, RestTypes
  <1>2. ASSUME NEW o \in Orders, OpenLink(o) \/ CreatePaymentTransaction(o)
        PROVE  SlotTypes' /\ RestTypes'
    BY <1>2 DEF OpenLink, CreatePaymentTransaction, external, history, SlotTypes, RestTypes
  <1>3. ASSUME NEW o \in Orders, Cleanup(o)
        PROVE  SlotTypes' /\ RestTypes'
    <2>1. SweepError(o) => faults' \in [FaultKinds -> Nat]
      BY FaultTypes DEF SweepError, FaultKinds
    <2>2. QED BY <1>3, <2>1 DEF Cleanup, SweepList, SweepCancel, SweepSkip, SweepMark,
                                SweepError, external, history, SlotTypes, RestTypes
  <1>4. ASSUME NEW t \in Transfers, DonorPays(t) PROVE SlotTypes' /\ RestTypes'
    <2>1. seen' \subseteq made' \intersect Matched
      BY <1>4 DEF DonorPays, RestTypes, Matched
    <2>2. link' \in [Orders -> {"NONE", "PENDING", "PAID", "CANCELLED"}]
      BY <1>4 DEF DonorPays, RestTypes
    <2>3. QED BY <1>4, <2>1, <2>2 DEF DonorPays, history, SlotTypes, RestTypes
  <1>5. ASSUME NEW s \in Slots, NEW h \in Hooks, Deliver(s, h)
        PROVE  SlotTypes' /\ RestTypes'
    <2>1. [at |-> FirstStep(h), hook |-> h] \in Requests BY RequestMade
    <2>2. QED BY <1>5, <2>1 DEF Deliver, history, SlotTypes, RestTypes
  <1>6. ASSUME NEW s \in Slots, Handler(s) \/ HandlerError(s)
        PROVE  SlotTypes' /\ RestTypes'
    BY <1>6, PayosTypes, SepayTypes DEF Handler, HandlerError
  <1>7. ASSUME NEW a \in Admins, Approval(a) PROVE SlotTypes' /\ RestTypes'
    <2>1. AdminError(a) => faults' \in [FaultKinds -> Nat]
      BY FaultTypes DEF AdminError, FaultKinds
    <2>2. CASE AdminError(a)
      BY <2>1, <2>2 DEF AdminError, external, history, SlotTypes, RestTypes
    <2>3. CASE AdminApprove(a)
      BY <2>3 DEF AdminApprove, external, SlotTypes, RestTypes
    <2>4. CASE \E o \in Orders, force \in BOOLEAN : AdminCheck(a, o, force)
      BY <2>4 DEF AdminCheck, external, history, SlotTypes, RestTypes
    <2>5. QED BY <1>7, <2>2, <2>3, <2>4 DEF Approval
  <1>8. CASE Crash
    <2>1. faults' \in [FaultKinds -> Nat]
      BY <1>8, FaultTypes DEF Crash, FaultKinds
    <2>2. QED BY <1>8, <2>1, RequestMade DEF Crash, external, history, SlotTypes, RestTypes
  <1>9. QED BY <1>1, <1>2, <1>3, <1>4, <1>5, <1>6, <1>7, <1>8 DEF Next

\* The rows, events, requests and jobs keep their shapes (donor.repository.ts and
\* the three webhook and job services).
THEOREM PaymentsTyped == Spec => []TypeOK
  BY TypeInit, TypeStep, PTL DEF Spec

-----------------------------------------------------------------------------
(* The totals cover the rows.                                              *)

LEMMA CoverStep == RowTypes /\ CampaignCoversPayments /\ RowStep => CampaignCoversPayments'
  <1> SUFFICES ASSUME RowTypes, CampaignCoversPayments, RowStep, NEW p \in Orders
               PROVE  /\ payments'[p].received <= credited'[p]
                      /\ payments'[p].status = "SUCCESS" => counted'[p] > 0
    BY DEF CampaignCoversPayments
  <1>0. /\ payments[p] \in Payment /\ payments[p].received \in Nat
        /\ credited[p] \in Nat /\ counted[p] \in Nat
        /\ payments[p].received <= credited[p]
        /\ payments[p].status = "SUCCESS" => counted[p] > 0
    BY DEF RowTypes, CampaignCoversPayments, Payment
  <1>1. CASE UNCHANGED rows
    BY <1>0, <1>1 DEF rows
  <1>2. ASSUME NEW o \in Orders, RecordNew(o)
        PROVE  /\ payments'[p].received <= credited'[p]
               /\ payments'[p].status = "SUCCESS" => counted'[p] > 0
    BY <1>0, <1>2 DEF RecordNew, RowTypes, Payment
  <1>3. ASSUME NEW o \in Orders, NEW t \in Transfers, NEW g \in Gateways,
               NEW r \in Transfers \union {None}, RecordSuccess(o, Amount[t], g, r)
        PROVE  /\ payments'[p].received <= credited'[p]
               /\ payments'[p].status = "SUCCESS" => counted'[p] > 0
    <2>1. Amount[t] \in Nat BY TransferAmount
    <2>2. CASE p = o
      <3>1. /\ Increment(o, Amount[t]) \in Nat
            /\ payments[o].received + Increment(o, Amount[t]) >= Amount[t]
        BY <2>1, AmountTypes
      <3>2. payments'[p].received = Amount[t]
        BY <1>3, <2>2 DEF RecordSuccess, RowTypes, Payment
      <3>3. credited'[p] = credited[p] + Increment(o, Amount[t])
        BY <1>3, <2>2 DEF RecordSuccess, RowTypes
      <3>4. counted'[p] = counted[p] + NewDonations(o)
        BY <1>3, <2>2 DEF RecordSuccess, RowTypes
      <3>5. counted'[p] > 0
        BY <1>0, <2>2, <3>4 DEF NewDonations
      <3>6. QED BY <1>0, <2>1, <2>2, <3>1, <3>2, <3>3, <3>5
    <2>3. CASE p # o
      BY <1>0, <1>3, <2>3 DEF RecordSuccess, RowTypes
    <2>4. QED BY <2>2, <2>3
  <1>4. ASSUME NEW o \in Orders, NEW processed \in BOOLEAN, RecordFailure(o, processed)
        PROVE  /\ payments'[p].received <= credited'[p]
               /\ payments'[p].status = "SUCCESS" => counted'[p] > 0
    BY <1>0, <1>4 DEF RecordFailure, RowTypes, Payment
  <1>5. ASSUME NEW t \in Transfers, RecordExtra(t)
        PROVE  /\ payments'[p].received <= credited'[p]
               /\ payments'[p].status = "SUCCESS" => counted'[p] > 0
    BY <1>0, <1>5 DEF RecordExtra
  <1>6. ASSUME NEW o \in Orders, RecordApproval(o)
        PROVE  /\ payments'[p].received <= credited'[p]
               /\ payments'[p].status = "SUCCESS" => counted'[p] > 0
    <2>1. Price[o] \in Nat BY PaymentsAssumption
    <2>2. payments'[p].received = payments[p].received
      BY <1>6, <1>0 DEF RecordApproval, RowTypes, Payment
    <2>3. credited'[p] \in {credited[p], credited[p] + Price[o]}
      BY <1>6 DEF RecordApproval, RowTypes
    <2>4. p # o => payments'[p] = payments[p] /\ counted'[p] = counted[p]
      BY <1>6 DEF RecordApproval, RowTypes
    <2>5. p = o => counted'[p] = counted[p] + 1
      BY <1>6 DEF RecordApproval, RowTypes
    <2>6. QED BY <1>0, <2>1, <2>2, <2>3, <2>4, <2>5
  <1>7. QED BY <1>1, <1>2, <1>3, <1>4, <1>5, <1>6 DEF RowStep

\* However webhooks, cleanup and approvals interleave, the campaign has been
\* credited what its payment rows record (updatePaymentTransactionSuccess adds the
\* difference to the recorded amount, under the row's lock).
THEOREM CampaignCovers == Spec => []CampaignCoversPayments
  <1>1. Init => CampaignCoversPayments
    BY DEF Init, CampaignCoversPayments, NoPayment
  <1>2. TypeOK /\ CampaignCoversPayments /\ [Next]_vars => CampaignCoversPayments'
    BY NextRowStep, CoverStep, TypeSplit
  <1>3. QED BY <1>1, <1>2, PaymentsTyped, PTL DEF Spec

-----------------------------------------------------------------------------
(* Every receipt has its event.                                            *)

\* The outbox holds event e.
Announced(e) == \E i \in DOMAIN outbox : outbox[i] = e

LEMMA OutboxGrows ==
    ASSUME RowTypes, NEW e, outbox' = Append(outbox, e)
    PROVE  Announced(e)' /\ \A f : Announced(f) => Announced(f)'
  <1> DEFINE E == [payment: Orders \union (Transfers \X Nat), amount: Nat]
             n == Len(outbox)
  <1>1. outbox \in Seq(E) /\ n \in Nat /\ DOMAIN outbox = 1 .. n
    BY DEF RowTypes
  <1>2. /\ DOMAIN outbox' = 1 .. (n + 1)
        /\ outbox'[n + 1] = e
        /\ \A i \in 1 .. n : outbox'[i] = outbox[i]
    BY <1>1
  <1>3. n + 1 \in 1 .. (n + 1) BY <1>1
  <1>4. Announced(e)' BY <1>2, <1>3 DEF Announced
  <1>5. ASSUME NEW f, Announced(f) PROVE Announced(f)'
    <2>1. PICK i \in 1 .. n : outbox[i] = f BY <1>1, <1>5 DEF Announced
    <2>2. i \in 1 .. (n + 1) BY <1>1
    <2>3. QED BY <1>2, <2>1, <2>2 DEF Announced
  <1>6. QED BY <1>4, <1>5

LEMMA AnnounceStep == RowTypes /\ ReceiptsAnnounced /\ RowStep => ReceiptsAnnounced'
  <1> DEFINE ForOrder(p) == [payment |-> p, amount |-> payments[p].received]
             ForExtra(u, n) == [payment |-> <<u, n>>, amount |-> Amount[u]]
  <1> SUFFICES ASSUME RowTypes, ReceiptsAnnounced, RowStep
               PROVE  /\ \A p \in Orders : payments'[p].received > 0 => Announced(ForOrder(p))'
                      /\ \A u \in Transfers : \A n \in 1 .. extras'[u] : Announced(ForExtra(u, n))'
    BY DEF ReceiptsAnnounced, Announced
  <1>0. /\ \A p \in Orders : payments[p].received > 0 => Announced(ForOrder(p))
        /\ \A u \in Transfers : \A n \in 1 .. extras[u] : Announced(ForExtra(u, n))
    BY DEF ReceiptsAnnounced, Announced
  <1>1. CASE /\ outbox' = outbox /\ extras' = extras
             /\ \A p \in Orders : payments'[p].received = payments[p].received
    BY <1>0, <1>1 DEF Announced
  <1>2. CASE UNCHANGED rows
    BY <1>1, <1>2 DEF rows
  <1>3. ASSUME NEW o \in Orders, RecordNew(o) \/ RecordApproval(o)
        PROVE  /\ outbox' = outbox /\ extras' = extras
               /\ \A p \in Orders : payments'[p].received = payments[p].received
    <2>1. CASE RecordNew(o)
      BY <2>1 DEF RecordNew, RowTypes, Payment
    <2>2. CASE RecordApproval(o)
      BY <2>2 DEF RecordApproval, RowTypes, Payment
    <2>3. QED BY <1>3, <2>1, <2>2
  <1>4. ASSUME NEW o \in Orders, NEW processed \in BOOLEAN, RecordFailure(o, processed)
        PROVE  /\ outbox' = outbox /\ extras' = extras
               /\ \A p \in Orders : payments'[p].received = payments[p].received
    BY <1>4 DEF RecordFailure, RowTypes, Payment
  <1>5. ASSUME NEW o \in Orders, NEW t \in Transfers, NEW g \in Gateways,
               NEW r \in Transfers \union {None}, RecordSuccess(o, Amount[t], g, r)
        PROVE  /\ \A p \in Orders : payments'[p].received > 0 => Announced(ForOrder(p))'
               /\ \A u \in Transfers : \A n \in 1 .. extras'[u] : Announced(ForExtra(u, n))'
    <2> DEFINE e == [payment |-> o, amount |-> Amount[t]]
    <2>1. outbox' = Append(outbox, e) /\ extras' = extras
      BY <1>5 DEF RecordSuccess, Announce
    <2>2. Announced(e)' /\ \A f : Announced(f) => Announced(f)'
      BY <2>1, OutboxGrows
    <2>3. /\ payments'[o].received = Amount[t]
          /\ \A p \in Orders \ {o} : payments'[p] = payments[p]
      BY <1>5 DEF RecordSuccess, RowTypes, Payment
    <2>4. ASSUME NEW p \in Orders, payments'[p].received > 0 PROVE Announced(ForOrder(p))'
      <3>1. CASE p = o
        <4>1. ForOrder(p)' = e BY <3>1, <2>3
        <4>2. QED BY <4>1, <2>2 DEF Announced
      <3>2. CASE p # o
        <4>1. ForOrder(p)' = ForOrder(p) /\ payments[p].received > 0 BY <3>2, <2>3, <2>4
        <4>2. Announced(ForOrder(p)) BY <4>1, <1>0
        <4>3. QED BY <4>1, <4>2, <2>2 DEF Announced
      <3>3. QED BY <3>1, <3>2
    <2>5. ASSUME NEW u \in Transfers, NEW n \in 1 .. extras'[u] PROVE Announced(ForExtra(u, n))'
      <3>1. Announced(ForExtra(u, n)) BY <2>1, <2>5, <1>0
      <3>2. QED BY <3>1, <2>2 DEF Announced
    <2>6. QED BY <2>4, <2>5
  <1>6. ASSUME NEW t \in Transfers, RecordExtra(t)
        PROVE  /\ \A p \in Orders : payments'[p].received > 0 => Announced(ForOrder(p))'
               /\ \A u \in Transfers : \A n \in 1 .. extras'[u] : Announced(ForExtra(u, n))'
    <2> PICK k \in Nat : k = extras[t] BY DEF RowTypes
    <2> DEFINE e == ForExtra(t, k + 1)
    <2>1. outbox' = Append(outbox, e) /\ payments' = payments
      BY <1>6 DEF RecordExtra
    <2>2. Announced(e)' /\ \A f : Announced(f) => Announced(f)'
      BY <2>1, OutboxGrows
    <2>3. ASSUME NEW p \in Orders, payments'[p].received > 0 PROVE Announced(ForOrder(p))'
      <3>1. ForOrder(p)' = ForOrder(p) /\ Announced(ForOrder(p)) BY <2>1, <2>3, <1>0
      <3>2. QED BY <3>1, <2>2 DEF Announced
    <2>4. ASSUME NEW u \in Transfers, NEW n \in 1 .. extras'[u] PROVE Announced(ForExtra(u, n))'
      <3>1. extras[u] \in Nat BY DEF RowTypes
      <3>2. CASE u = t /\ n = k + 1
        BY <3>2, <2>2 DEF Announced
      <3>3. CASE ~(u = t /\ n = k + 1)
        <4>1. extras'[u] = IF u = t THEN k + 1 ELSE extras[u]
          BY <1>6 DEF RecordExtra, RowTypes
        <4>2. n \in 1 .. extras[u] BY <4>1, <3>1, <3>3
        <4>3. Announced(ForExtra(u, n)) BY <4>2, <1>0
        <4>4. QED BY <4>3, <2>2 DEF Announced
      <3>4. QED BY <3>2, <3>3
    <2>5. QED BY <2>3, <2>4
  <1>7. QED BY <1>1, <1>2, <1>3, <1>4, <1>5, <1>6 DEF RowStep

\* No receipt goes unannounced: the commit that records an amount, and the one that
\* creates a supplementary row, write the outbox event with it.
THEOREM AllReceiptsAnnounced == Spec => []ReceiptsAnnounced
  <1>1. Init => ReceiptsAnnounced
    BY DEF Init, ReceiptsAnnounced, NoPayment
  <1>2. TypeOK /\ ReceiptsAnnounced /\ [Next]_vars => ReceiptsAnnounced'
    BY NextRowStep, AnnounceStep, TypeSplit
  <1>3. QED BY <1>1, <1>2, PaymentsTyped, PTL DEF Spec

-----------------------------------------------------------------------------
(***************************************************************************)
(* What the interleaved handlers do to one order: a donation is counted    *)
(* once, a transfer credited once, a price paid in several transfers adds  *)
(* up, and a receipt is lowered only by a race.                            *)
(*                                                                         *)
(* Trail collects what every handler relies on and none checks: where its  *)
(* webhook came from, how many deliveries are past the duplicate check,    *)
(* that the row was there before the transfer, that two handlers about to  *)
(* write one order are known to overlap, and what the row's marks say of   *)
(* its receipt.  The invariants of single orders rest on it.               *)
(***************************************************************************)

\* Slot s answers a SePay webhook of transfer t that passed the duplicate check.
Checked(s, t) ==
    /\ slots[s].at \in {"lookup", "order", "partial", "extra", "route", "tryRoute"}
    /\ slots[s].hook.of = t

SettlingFor(s, o) == slots[s].at \in Settling /\ OrderFor(slots[s].hook) = o

\* A webhook in progress was delivered, for a transfer that was made; what was not
\* made has left no trace.
HooksSent ==
    /\ IsFiniteSet(made) /\ wallet \subseteq made
    /\ \A s \in Slots : slots[s].at # "idle" =>
         /\ delivered[slots[s].hook] > 0
         /\ slots[s].hook.kind \in {"payos", "sepay"} => slots[s].hook.of \in made
    /\ \A t \in Transfers \ made : extras[t] = 0 /\ passed[t] = 0

\* passed[t] counts at least the requests past the duplicate check.
ChecksCounted == \A t \in Transfers : \A s \in Slots : Checked(s, t) =>
    /\ passed[t] > 0
    /\ \A r \in Slots \ {s} : Checked(r, t) => passed[t] > 1

\* Nobody pays for, lists or cancels an order that has no row.
RowFirst == \A o \in Orders : payments[o].status = "ABSENT" =>
    sweep[o] = "idle" /\ link[o] # "CANCELLED" /\ MadeFor(o) = {}

\* Two requests about to write one order have been recorded as overlapping.
OverlapsRaced == \A o \in Orders : \A s \in Slots : \A r \in Slots \ {s} :
    SettlingFor(s, o) /\ SettlingFor(r, o) => o \in raced

\* What the marks of a row say of the amount it records.
RowMarks == \A o \in Orders :
    /\ payments[o].processed => payments[o].gateway # "NONE"
    /\ payments[o].gateway = "SEPAY" => payments[o].received > 0
    /\ payments[o].received > 0 => payments[o].processed \/ o \in swept

\* A request about to record a receipt, alone on an order the job has not marked,
\* finds none recorded.
ReadFresh == \A s \in Slots, o \in Orders :
    SettlingFor(s, o) /\ slots[s].at \in {"commit", "partial"} /\ o \notin raced \union swept
    => payments[o].received = 0

-----------------------------------------------------------------------------
(* How a step moves the requests, and what it leaves alone.                *)

LEMMA GotoSlot ==
    ASSUME SlotTypes, NEW s \in Slots, NEW step, Goto(s, step)
    PROVE  /\ slots'[s].at = step /\ slots'[s].hook = slots[s].hook
           /\ \A r \in Slots \ {s} : slots'[r] = slots[r]
  <1>1. slots[s] \in Requests BY DEF SlotTypes
  <1>2. [slots[s] EXCEPT !.at = step] = [at |-> step, hook |-> slots[s].hook]
    BY <1>1 DEF Requests
  <1>3. slots' = [slots EXCEPT ![s] = [at |-> step, hook |-> slots[s].hook]]
    BY <1>2 DEF Goto
  <1>4. QED BY <1>3 DEF SlotTypes

LEMMA AnswerSlot ==
    ASSUME SlotTypes, NEW s \in Slots, Answer(s)
    PROVE  /\ slots'[s].at = "idle"
           /\ \A r \in Slots \ {s} : slots'[r] = slots[r]
  BY DEF SlotTypes, Answer, IdleSlot

\* The steps a handler takes within a request, other than those that overtake the
\* duplicate check or announce a write.
Moves == {<<"exists", "set">>, <<"lookup", "order">>, <<"order", "tryRoute">>,
          <<"lookup", "route">>, <<"order", "route">>, <<"partial", "route">>,
          <<"extra", "route">>, <<"tryRoute", "route">>}
Settles == {<<"find", "commit">>, <<"find", "fail">>, <<"order", "partial">>,
            <<"order", "extra">>}

\* What becomes of the request in slot s.
SlotMove(s) ==
    \/ Answer(s) /\ UNCHANGED history
    \/ PassCheck(s) /\ slots[s].at \in {"exists", "set"}
    \/ \E step : Goto(s, step) /\ UNCHANGED history /\ <<slots[s].at, step>> \in Moves
    \/ \E step : /\ GoSettle(s, step, OrderFor(slots[s].hook))
                 /\ <<slots[s].at, step>> \in Settles

LEMMA HandlerMove ==
    ASSUME TypeOK, NEW s \in Slots, Handler(s) \/ HandlerError(s)
    PROVE  /\ SlotMove(s) /\ slots[s].at # "idle"
           /\ UNCHANGED <<link, made, seen, delivered, sweep, desk>>
  <1> slots[s] \in Requests /\ SlotTypes BY TypeSplit DEF SlotTypes
  <1>1. CASE PayosFind(s)
    <2>1. SlotMove(s)
      BY <1>1 DEF PayosFind, SlotMove, Settles
    <2>2. QED BY <1>1, <2>1 DEF PayosFind, external
  <1>2. CASE PayosCommit(s) \/ PayosFail(s) \/ PayosError(s)
    BY <1>2 DEF PayosCommit, PayosFail, PayosError, SlotMove, external
  <1>3. CASE RedisExists(s) \/ RedisSet(s) \/ RedisError(s)
    BY <1>3 DEF RedisExists, RedisSet, RedisError, SlotMove, Moves, external
  <1>4. CASE SepayLookup(s)
    BY <1>4 DEF SepayLookup, SlotMove, Moves, external
  <1>5. CASE SepayOrder(s)
    <2>1. OrderFor(slots[s].hook) = OrderOf[slots[s].hook.of]
      BY <1>5, RequestHook DEF SepayOrder, SepayHooks, OrderFor
    <2>2. SlotMove(s)
      BY <1>5, <2>1, Zenon DEF SepayOrder, SlotMove, Moves, Settles
    <2>3. QED BY <1>5, <2>2 DEF SepayOrder, external
  <1>6. CASE SepayPartial(s) \/ SepayExtra(s)
    BY <1>6 DEF SepayPartial, SepayExtra, SlotMove, external
  <1>7. CASE SepayError(s)
    BY <1>7 DEF SepayError, SlotMove, Moves, external
  <1>8. CASE Route(s) \/ RouteError(s)
    BY <1>8 DEF Route, RouteError, SlotMove, Moves
  <1>9. QED BY <1>1, <1>2, <1>3, <1>4, <1>5, <1>6, <1>7, <1>8 DEF Handler, HandlerError

\* A step beside the requests that neither writes a row nor makes a transfer.
Aside ==
    /\ UNCHANGED <<rows, made, seen, delivered, wallet, slots, history>>
    /\ \A k \in FaultKinds : faults[k] <= faults'[k]

LEMMA NextSplit ==
    ASSUME TypeOK, [Next]_vars
    PROVE  \/ Aside
           \/ \E o \in Orders : CreatePaymentTransaction(o) \/ SweepMark(o)
           \/ \E t \in Transfers : DonorPays(t)
           \/ \E s \in Slots, h \in Hooks : Deliver(s, h)
           \/ \E s \in Slots : Handler(s) \/ HandlerError(s)
           \/ \E a \in Admins : AdminApprove(a)
           \/ Crash
  <1> \A k \in FaultKinds : faults[k] \in Nat BY DEF TypeOK
  <1>1. CASE UNCHANGED vars
    BY <1>1 DEF vars, external, Aside
  <1>2. ASSUME NEW o \in Orders,
               \/ OpenLink(o) \/ SweepList(o) \/ SweepCancel(o) \/ SweepSkip(o)
        PROVE  Aside
    BY <1>2 DEF OpenLink, SweepList, SweepCancel, SweepSkip, external, Aside
  <1>3. ASSUME NEW o \in Orders, SweepError(o) PROVE Aside
    BY <1>3 DEF SweepError, Fault, external, Aside, TypeOK
  <1>4. ASSUME NEW a \in Admins, AdminError(a) PROVE Aside
    BY <1>4 DEF AdminError, Fault, external, Aside, TypeOK
  <1>5. ASSUME NEW a \in Admins, NEW o \in Orders, NEW force \in BOOLEAN,
               AdminCheck(a, o, force)
        PROVE  Aside
    BY <1>5 DEF AdminCheck, external, Aside
  <1>6. QED BY <1>1, <1>2, <1>3, <1>4, <1>5 DEF Next, Cleanup, Approval

\* What a step never takes back.
Later ==
    /\ made \subseteq made'
    /\ \A t \in Transfers : passed[t] <= passed'[t]
    /\ \A h \in Hooks : delivered[h] <= delivered'[h]
    /\ \A k \in FaultKinds : faults[k] <= faults'[k]
    /\ raced \subseteq raced' /\ approved \subseteq approved' /\ swept \subseteq swept'

LEMMA FaultLater ==
    ASSUME TypeOK, NEW k \in FaultKinds, Fault(k)
    PROVE  \A j \in FaultKinds : faults[j] <= faults'[j]
  BY DEF TypeOK, Fault

LEMMA HandlerLater ==
    ASSUME TypeOK, NEW s \in Slots, Handler(s) \/ HandlerError(s)
    PROVE  Later
  <1> /\ \A t \in Transfers : passed[t] \in Nat
      /\ \A h \in Hooks : delivered[h] \in Nat
      /\ \A k \in FaultKinds : faults[k] \in Nat
    BY DEF TypeOK
  <1>1. \A k \in FaultKinds : faults[k] <= faults'[k]
    <2>1. CASE Handler(s)
      <3>1. faults' = faults
        BY <2>1, Zenon DEF Handler, PayosFind, PayosCommit, PayosFail, RedisExists, RedisSet,
                    SepayLookup, SepayOrder, SepayPartial, SepayExtra, Route
      <3>2. QED BY <3>1
    <2>2. CASE HandlerError(s)
      BY <2>2, FaultLater DEF HandlerError, PayosError, RedisError, SepayError,
                              RouteError, FaultKinds
    <2>3. QED BY <2>1, <2>2
  <1>2. SlotMove(s) /\ UNCHANGED <<made, delivered>>
    BY HandlerMove
  <1>3. /\ \A t \in Transfers : passed[t] <= passed'[t]
        /\ raced \subseteq raced' /\ approved \subseteq approved' /\ swept \subseteq swept'
    <2>1. CASE UNCHANGED history
      BY <2>1 DEF history
    <2>2. CASE PassCheck(s)
      BY <2>2 DEF PassCheck, TypeOK
    <2>3. ASSUME NEW step, GoSettle(s, step, OrderFor(slots[s].hook))
          PROVE  /\ \A t \in Transfers : passed[t] <= passed'[t]
                 /\ raced \subseteq raced' /\ approved \subseteq approved' /\ swept \subseteq swept'
      BY <2>3 DEF GoSettle
    <2>4. QED BY <1>2, <2>1, <2>2, <2>3 DEF SlotMove
  <1>4. QED BY <1>1, <1>2, <1>3 DEF Later

LEMMA NextLater == ASSUME TypeOK, [Next]_vars PROVE Later
  <1> /\ \A t \in Transfers : passed[t] \in Nat
      /\ \A h \in Hooks : delivered[h] \in Nat
      /\ \A k \in FaultKinds : faults[k] \in Nat
    BY DEF TypeOK
  <1>1. CASE Aside
    BY <1>1 DEF Aside, history, Later
  <1>2. ASSUME NEW o \in Orders, CreatePaymentTransaction(o) \/ SweepMark(o) PROVE Later
    <2>1. /\ UNCHANGED <<made, delivered, faults, passed, raced, approved>>
          /\ swept \subseteq swept'
      BY <1>2 DEF CreatePaymentTransaction, SweepMark, external, history
    <2>2. QED BY <2>1 DEF Later
  <1>3. ASSUME NEW t \in Transfers, DonorPays(t) PROVE Later
    BY <1>3 DEF DonorPays, history, Later
  <1>4. ASSUME NEW s \in Slots, NEW h \in Hooks, Deliver(s, h) PROVE Later
    BY <1>4 DEF Deliver, history, Later, TypeOK
  <1>5. ASSUME NEW s \in Slots, Handler(s) \/ HandlerError(s) PROVE Later
    BY <1>5, HandlerLater
  <1>6. ASSUME NEW a \in Admins, AdminApprove(a) PROVE Later
    BY <1>6 DEF AdminApprove, external, Later
  <1>7. CASE Crash
    BY <1>7, FaultLater DEF Crash, FaultKinds, external, history, Later
  <1>8. QED BY <1>1, <1>2, <1>3, <1>4, <1>5, <1>6, <1>7, NextSplit

-----------------------------------------------------------------------------
(* The invariants behind every handler are inductive.                      *)

LEMMA ActiveHook ==
    ASSUME TypeOK, NEW s \in Slots, slots[s].at # "idle"
    PROVE  slots[s].hook \in Hooks
  <1>1. slots[s] \in Requests BY DEF TypeOK
  <1>2. QED BY <1>1, RequestHook DEF Hooks

\* After a handler's step each slot holds the request it held, or none.
LEMMA HookStays ==
    ASSUME TypeOK, NEW s \in Slots, Handler(s) \/ HandlerError(s)
    PROVE  \A r \in Slots : slots'[r].at # "idle" =>
              /\ slots[r].at # "idle" /\ slots'[r].hook = slots[r].hook
              /\ r # s => slots'[r].at = slots[r].at
  <1> SUFFICES ASSUME NEW r \in Slots, slots'[r].at # "idle"
               PROVE  /\ slots[r].at # "idle" /\ slots'[r].hook = slots[r].hook
                      /\ r # s => slots'[r].at = slots[r].at
    OBVIOUS
  <1> SlotTypes BY TypeSplit
  <1>1. SlotMove(s) /\ slots[s].at # "idle" BY HandlerMove
  <1>2. ASSUME NEW step, Goto(s, step)
        PROVE  /\ slots[r].at # "idle" /\ slots'[r].hook = slots[r].hook
               /\ r # s => slots'[r].at = slots[r].at
    <2>1. /\ slots'[s].at = step /\ slots'[s].hook = slots[s].hook
          /\ \A q \in Slots \ {s} : slots'[q] = slots[q]
      BY <1>2, GotoSlot
    <2>2. CASE r = s
      BY <1>1, <2>1, <2>2
    <2>3. CASE r # s
      BY <2>1, <2>3
    <2>4. QED BY <2>2, <2>3
  <1>3. CASE Answer(s)
    BY <1>3, AnswerSlot
  <1>4. CASE PassCheck(s)
    BY <1>2, <1>4 DEF PassCheck
  <1>5. QED BY <1>1, <1>2, <1>3, <1>4 DEF SlotMove, GoSettle

LEMMA SentInit == Init => HooksSent
  BY FS_EmptySet DEF Init, HooksSent, IdleSlot

LEMMA SentStep == TypeOK /\ HooksSent /\ [Next]_vars => HooksSent'
  <1> SUFFICES ASSUME TypeOK, HooksSent, [Next]_vars PROVE HooksSent'
    OBVIOUS
  <1> USE DEF HooksSent
  <1> Later BY NextLater
  <1>0. ASSUME NEW s \in Slots, slots[s].at # "idle"
        PROVE  /\ delivered'[slots[s].hook] > 0
               /\ slots[s].hook.kind \in {"payos", "sepay"} => slots[s].hook.of \in made'
    <2>1. slots[s].hook \in Hooks BY <1>0, ActiveHook
    <2>2. delivered[slots[s].hook] \in Nat /\ delivered'[slots[s].hook] \in Nat
      BY <2>1, TypeStep DEF TypeOK
    <2>3. QED BY <1>0, <2>1, <2>2 DEF Later
  <1>1. CASE Aside
    BY <1>0, <1>1 DEF Aside, rows, history
  <1>2. ASSUME NEW o \in Orders, CreatePaymentTransaction(o) \/ SweepMark(o) PROVE HooksSent'
    <2>1. UNCHANGED <<extras, made, wallet, delivered, slots, passed>>
      BY <1>2 DEF CreatePaymentTransaction, SweepMark, RecordFailure, external, history
    <2>2. QED BY <2>1
  <1>3. ASSUME NEW t \in Transfers, DonorPays(t) PROVE HooksSent'
    <2>1. /\ UNCHANGED <<extras, wallet, delivered, slots, passed>>
          /\ made' = made \union {t}
      BY <1>3 DEF DonorPays, rows, history
    <2>2. IsFiniteSet(made') BY <2>1, FS_AddElement
    <2>3. QED BY <2>1, <2>2
  <1>4. ASSUME NEW s \in Slots, NEW h \in Hooks, Deliver(s, h) PROVE HooksSent'
    <2>1. UNCHANGED <<extras, wallet, made, passed>>
      BY <1>4 DEF Deliver, rows, history
    <2>2. /\ slots' = [slots EXCEPT ![s] = [at |-> FirstStep(h), hook |-> h]]
          /\ delivered' = [delivered EXCEPT ![h] = delivered[h] + 1]
      BY <1>4 DEF Deliver
    <2>3. delivered'[h] > 0
      BY <2>2 DEF TypeOK
    <2>4. h.kind \in {"payos", "sepay"} => h.of \in made
      BY <1>4 DEF Deliver, HookSent, TypeOK
    <2>5. ASSUME NEW r \in Slots, slots'[r].at # "idle"
          PROVE  /\ delivered'[slots'[r].hook] > 0
                 /\ slots'[r].hook.kind \in {"payos", "sepay"} => slots'[r].hook.of \in made'
      <3>1. CASE r = s
        <4>1. slots'[r].hook = h BY <2>2, <3>1 DEF TypeOK
        <4>2. QED BY <2>1, <2>3, <2>4, <4>1
      <3>2. CASE r # s
        <4>1. slots'[r] = slots[r] BY <2>2, <3>2 DEF TypeOK
        <4>2. QED BY <2>5, <4>1, <1>0
      <3>3. QED BY <3>1, <3>2
    <2>6. QED BY <2>1, <2>5
  <1>5. ASSUME NEW s \in Slots, Handler(s) \/ HandlerError(s) PROVE HooksSent'
    <2>1. SlotMove(s) /\ slots[s].at # "idle" /\ UNCHANGED <<made, delivered>>
      BY <1>5, HandlerMove
    <2>2. ASSUME NEW r \in Slots, slots'[r].at # "idle"
          PROVE  /\ delivered'[slots'[r].hook] > 0
                 /\ slots'[r].hook.kind \in {"payos", "sepay"} => slots'[r].hook.of \in made'
      BY <1>5, <2>2, <1>0, HookStays
    <2>3. slots[s].at \in {"exists", "set", "partial", "extra", "route", "tryRoute"}
          => slots[s].hook.of \in made
      <3>1. slots[s] \in Requests BY DEF TypeOK
      <3>2. slots[s].at \in {"exists", "set", "partial", "extra", "route", "tryRoute"}
            => slots[s].hook.kind = "sepay"
        BY <3>1, RequestHook DEF SepayHooks
      <3>3. QED BY <3>2
    <2>4. wallet' \subseteq made'
      <3>1. wallet' = wallet \/ (/\ slots[s].at \in {"route", "tryRoute"}
                                /\ wallet' \subseteq wallet \union {slots[s].hook.of})
        <4>1. CASE Route(s) \/ RouteError(s)
          BY <4>1 DEF Route, RouteError
        <4>2. CASE ~(Route(s) \/ RouteError(s))
          BY <1>5, <4>2, Zenon DEF Handler, HandlerError, PayosFind, PayosCommit, PayosFail,
                RedisExists, RedisSet, SepayLookup, SepayOrder, SepayPartial, SepayExtra,
                PayosError, RedisError, SepayError, external
        <4>3. QED BY <4>1, <4>2
      <3>2. QED BY <2>1, <2>3, <3>1
    <2>5. ASSUME NEW t \in Transfers \ made' PROVE extras'[t] = 0 /\ passed'[t] = 0
      <3>1. t \in Transfers \ made BY <2>1
      <3>2. passed'[t] = 0
        <4>1. passed' = passed \/ (PassCheck(s) /\ slots[s].at \in {"exists", "set"})
          <5>1. CASE UNCHANGED history
            BY <5>1 DEF history
          <5>2. CASE \E step : GoSettle(s, step, OrderFor(slots[s].hook))
            BY <5>2 DEF GoSettle
          <5>3. QED BY <2>1, <5>1, <5>2 DEF SlotMove
        <4>2. QED BY <3>1, <4>1, <2>3 DEF PassCheck, TypeOK
      <3>3. extras'[t] = 0
        <4>1. CASE SepayExtra(s)
          <5>1. slots[s].at = "extra" /\ slots[s].hook.of # t
            BY <4>1, <2>3, <3>1 DEF SepayExtra
          <5>2. extras' = [extras EXCEPT ![slots[s].hook.of] = @ + 1]
            BY <4>1 DEF SepayExtra, RecordExtra
          <5>3. QED BY <5>1, <5>2, <3>1 DEF TypeOK
        <4>2. CASE ~SepayExtra(s)
          <5>1. extras' = extras
            BY <1>5, <4>2, Zenon DEF Handler, HandlerError, PayosFind, PayosCommit, PayosFail,
                  RedisExists, RedisSet, SepayLookup, SepayOrder, SepayPartial, Route,
                  PayosError, RedisError, SepayError, RouteError, RecordSuccess,
                  RecordFailure, rows
          <5>2. QED BY <5>1, <3>1
        <4>3. QED BY <4>1, <4>2
      <3>4. QED BY <3>2, <3>3
    <2>6. QED BY <2>1, <2>2, <2>4, <2>5
  <1>6. ASSUME NEW a \in Admins, AdminApprove(a) PROVE HooksSent'
    <2>1. UNCHANGED <<extras, made, wallet, delivered, slots, passed>>
      BY <1>6 DEF AdminApprove, RecordApproval, external
    <2>2. QED BY <2>1
  <1>7. CASE Crash
    <2>1. UNCHANGED <<extras, made, wallet, delivered, passed>>
      BY <1>7 DEF Crash, rows, external, history
    <2>2. \A r \in Slots : slots'[r].at = "idle"
      BY <1>7 DEF Crash, IdleSlot
    <2>3. QED BY <2>1, <2>2
  <1>8. QED BY <1>1, <1>2, <1>3, <1>4, <1>5, <1>6, <1>7, NextSplit

\* A handler's step gets a request past the duplicate check in one way only.
LEMMA CheckedStep ==
    ASSUME TypeOK, NEW s \in Slots, Handler(s) \/ HandlerError(s),
           NEW q \in Slots, NEW t \in Transfers, Checked(q, t)'
    PROVE  \/ Checked(q, t)
           \/ q = s /\ passed'[t] = passed[t] + 1
  <1> SlotTypes /\ slots[s] \in Requests BY TypeSplit DEF SlotTypes
  <1>1. slots[q].at # "idle" /\ slots'[q].hook = slots[q].hook
        /\ (q # s => slots'[q].at = slots[q].at)
    BY HookStays DEF Checked
  <1>2. CASE q # s
    BY <1>1, <1>2 DEF Checked
  <1>3. CASE q = s
    <2>1. SlotMove(s) BY HandlerMove
    <2>2. ~Answer(s) BY <1>3, AnswerSlot DEF Checked
    <2>3. CASE PassCheck(s)
      <3>1. passed' = [passed EXCEPT ![slots[s].hook.of] = @ + 1] BY <2>3 DEF PassCheck
      <3>2. slots[s].hook.of = t BY <1>1, <1>3 DEF Checked
      <3>3. QED BY <3>1, <3>2, <1>3 DEF TypeOK
    <2>4. ASSUME NEW step, Goto(s, step), <<slots[s].at, step>> \in Moves \union Settles
          PROVE  Checked(q, t)
      <3>1. slots'[s].at = step BY <2>4, GotoSlot
      <3>2. QED BY <1>1, <1>3, <2>4, <3>1 DEF Checked, Moves, Settles
    <2>5. QED BY <2>1, <2>2, <2>3, <2>4 DEF SlotMove, GoSettle
  <1>4. QED BY <1>2, <1>3

LEMMA ChecksStep == TypeOK /\ ChecksCounted /\ [Next]_vars => ChecksCounted'
  <1> SUFFICES ASSUME TypeOK, ChecksCounted, [Next]_vars,
                      NEW t \in Transfers, NEW q \in Slots, Checked(q, t)'
               PROVE  /\ passed'[t] > 0
                      /\ \A r \in Slots \ {q} : Checked(r, t)' => passed'[t] > 1
    BY DEF ChecksCounted
  <1> /\ passed[t] \in Nat /\ passed'[t] \in Nat /\ passed[t] <= passed'[t]
    BY TypeStep, NextLater DEF TypeOK, Later
  <1>0. ASSUME \A r \in Slots : Checked(r, t)' => Checked(r, t)
        PROVE  /\ passed'[t] > 0
               /\ \A r \in Slots \ {q} : Checked(r, t)' => passed'[t] > 1
    BY <1>0 DEF ChecksCounted
  <1>1. CASE slots' = slots
    BY <1>0, <1>1 DEF Checked
  <1>2. ASSUME NEW s \in Slots, NEW h \in Hooks, Deliver(s, h)
        PROVE  \A r \in Slots : Checked(r, t)' => Checked(r, t)
    <2>1. slots' = [slots EXCEPT ![s] = [at |-> FirstStep(h), hook |-> h]]
      BY <1>2 DEF Deliver
    <2>2. slots'[s].at = FirstStep(h) /\ \A r \in Slots \ {s} : slots'[r] = slots[r]
      BY <2>1 DEF TypeOK
    <2>3. QED BY <2>2 DEF Checked, FirstStep
  <1>3. ASSUME NEW s \in Slots, Handler(s) \/ HandlerError(s)
        PROVE  /\ passed'[t] > 0
               /\ \A r \in Slots \ {q} : Checked(r, t)' => passed'[t] > 1
    <2>1. \A r \in Slots : Checked(r, t)' => Checked(r, t) \/ (r = s /\ passed'[t] = passed[t] + 1)
      BY <1>3, CheckedStep
    <2>2. QED BY <2>1 DEF ChecksCounted
  <1>4. CASE Crash
    BY <1>4 DEF Crash, Checked, IdleSlot
  <1>5. QED BY <1>0, <1>1, <1>2, <1>3, <1>4, NextSplit
            DEF Aside, CreatePaymentTransaction, SweepMark, DonorPays, AdminApprove

LEMMA SettlingStep ==
    ASSUME TypeOK, NEW s \in Slots, Handler(s) \/ HandlerError(s),
           NEW q \in Slots, NEW o, SettlingFor(q, o)'
    PROVE  \/ q # s /\ SettlingFor(q, o)
           \/ q = s /\ \E step : GoSettle(s, step, o) /\ <<slots[s].at, step>> \in Settles
  <1> SlotTypes /\ slots[s] \in Requests BY TypeSplit DEF SlotTypes
  <1>1. slots[q].at # "idle" /\ slots'[q].hook = slots[q].hook
        /\ (q # s => slots'[q].at = slots[q].at)
    BY HookStays DEF SettlingFor, Settling
  <1>2. OrderFor(slots'[q].hook) = o /\ OrderFor(slots[q].hook) = o
    BY <1>1 DEF SettlingFor
  <1>3. CASE q # s
    BY <1>1, <1>2, <1>3 DEF SettlingFor
  <1>4. CASE q = s
    <2>1. SlotMove(s) BY HandlerMove
    <2>2. ~Answer(s) BY <1>4, AnswerSlot DEF SettlingFor, Settling
    <2>3. ~PassCheck(s)
      <3>1. ASSUME NEW step \in {"route", "lookup"}, Goto(s, step) PROVE FALSE
        <4>1. slots'[s].at = step BY <3>1, GotoSlot
        <4>2. QED BY <4>1, <1>4 DEF SettlingFor, Settling
      <3>2. QED BY <3>1 DEF PassCheck
    <2>4. ASSUME NEW step, Goto(s, step), <<slots[s].at, step>> \in Moves PROVE FALSE
      <3>1. slots'[s].at = step BY <2>4, GotoSlot
      <3>2. QED BY <3>1, <2>4, <1>4 DEF SettlingFor, Settling, Moves
    <2>5. QED BY <1>2, <1>4, <2>1, <2>2, <2>3, <2>4 DEF SlotMove
  <1>5. QED BY <1>3, <1>4

LEMMA OverlapsStep == TypeOK /\ OverlapsRaced /\ [Next]_vars => OverlapsRaced'
  <1> SUFFICES ASSUME TypeOK, OverlapsRaced, [Next]_vars, NEW o \in Orders,
                      NEW q \in Slots, NEW r \in Slots \ {q},
                      SettlingFor(q, o)', SettlingFor(r, o)'
               PROVE  o \in raced'
    BY DEF OverlapsRaced
  <1> raced \subseteq raced' BY NextLater DEF Later
  <1>0. ASSUME SettlingFor(q, o), SettlingFor(r, o) PROVE o \in raced'
    BY <1>0 DEF OverlapsRaced
  <1>1. CASE slots' = slots
    BY <1>0, <1>1 DEF SettlingFor
  <1>2. ASSUME NEW s \in Slots, NEW h \in Hooks, Deliver(s, h) PROVE o \in raced'
    <2>1. slots' = [slots EXCEPT ![s] = [at |-> FirstStep(h), hook |-> h]]
      BY <1>2 DEF Deliver
    <2>2. slots'[s].at = FirstStep(h) /\ \A p \in Slots \ {s} : slots'[p] = slots[p]
      BY <2>1 DEF TypeOK
    <2>3. QED BY <1>0, <2>2 DEF SettlingFor, Settling, FirstStep
  <1>3. ASSUME NEW s \in Slots, Handler(s) \/ HandlerError(s) PROVE o \in raced'
    <2>1. \A p \in Slots : SettlingFor(p, o)' =>
            \/ p # s /\ SettlingFor(p, o)
            \/ p = s /\ \E step : GoSettle(s, step, o)
      BY <1>3, SettlingStep
    <2>2. ASSUME NEW p \in Slots \ {s}, SettlingFor(p, o), NEW step, GoSettle(s, step, o)
          PROVE  o \in raced'
      BY <2>2 DEF GoSettle, Overlaps, SettlingFor
    <2>3. QED BY <1>0, <2>1, <2>2
  <1>4. CASE Crash
    BY <1>4 DEF Crash, SettlingFor, Settling, IdleSlot
  <1>5. QED BY <1>1, <1>2, <1>3, <1>4, NextSplit
            DEF Aside, CreatePaymentTransaction, SweepMark, DonorPays, AdminApprove

LEMMA RowFirstStep == TypeOK /\ RowFirst /\ [Next]_vars => RowFirst'
  <1> SUFFICES ASSUME TypeOK, RowFirst, [Next]_vars, NEW o \in Orders,
                      payments'[o].status = "ABSENT"
               PROVE  sweep'[o] = "idle" /\ link'[o] # "CANCELLED" /\ MadeFor(o)' = {}
    BY DEF RowFirst
  <1>1. payments[o].status = "ABSENT"
    <2>1. RowTypes /\ RowStep BY TypeSplit, NextRowStep
    <2>2. \A p \in Orders : payments[p] \in Payment BY <2>1 DEF RowTypes
    <2>3. CASE payments' = payments
      BY <2>3
    <2>4. ASSUME NEW p \in Orders, RecordNew(p) PROVE payments[o].status = "ABSENT"
      BY <2>1, <2>2, <2>4 DEF RecordNew, RowTypes, Payment
    <2>5. ASSUME NEW p \in Orders, NEW t \in Transfers, NEW g, NEW r,
                 RecordSuccess(p, Amount[t], g, r)
          PROVE  payments[o].status = "ABSENT"
      BY <2>1, <2>2, <2>5 DEF RecordSuccess, RowTypes, Payment
    <2>6. ASSUME NEW p \in Orders, NEW processed, RecordFailure(p, processed)
          PROVE  payments[o].status = "ABSENT"
      BY <2>1, <2>2, <2>6 DEF RecordFailure, RowTypes, Payment
    <2>7. ASSUME NEW p \in Orders, RecordApproval(p) PROVE payments[o].status = "ABSENT"
      BY <2>1, <2>2, <2>7 DEF RecordApproval, RowTypes, Payment
    <2>8. (\E t \in Transfers : RecordExtra(t)) \/ UNCHANGED rows => payments' = payments
      BY DEF RecordExtra, rows
    <2>9. QED BY <2>1, <2>3, <2>4, <2>5, <2>6, <2>7, <2>8 DEF RowStep
  <1>2. sweep[o] = "idle" /\ link[o] # "CANCELLED" /\ MadeFor(o) = {}
    BY <1>1 DEF RowFirst
  <1>3. sweep'[o] = "idle"
    <2>1. ASSUME NEW p \in Orders, Cleanup(p) PROVE sweep'[o] = "idle"
      BY <1>1, <1>2, <2>1 DEF Cleanup, SweepList, SweepCancel, SweepSkip, SweepMark,
                              SweepError, TypeOK
    <2>2. \A s \in Slots : Handler(s) \/ HandlerError(s) => sweep' = sweep BY HandlerMove
    <2>3. QED BY <1>2, <2>1, <2>2 DEF Next, vars, OpenLink, CreatePaymentTransaction,
                DonorPays, Deliver, Approval, AdminCheck, AdminApprove, AdminError, Crash
  <1>4. link'[o] # "CANCELLED"
    <2>1. ASSUME NEW p \in Orders, OpenLink(p) \/ CreatePaymentTransaction(p) \/ Cleanup(p)
          PROVE  link'[o] # "CANCELLED"
      BY <1>2, <2>1 DEF OpenLink, CreatePaymentTransaction, Cleanup, SweepList, SweepCancel,
                        SweepSkip, SweepMark, SweepError, TypeOK, external
    <2>2. \A s \in Slots : Handler(s) \/ HandlerError(s) => link' = link BY HandlerMove
    <2>3. ASSUME NEW t \in Transfers, DonorPays(t) PROVE link'[o] # "CANCELLED"
      BY <1>2, <2>3 DEF DonorPays, TypeOK
    <2>4. QED BY <1>2, <2>1, <2>2, <2>3 DEF Next, vars, external, Deliver, Approval,
                AdminCheck, AdminApprove, AdminError, Crash
  <1>5. MadeFor(o)' = {}
    <2>1. ASSUME NEW t \in Transfers, DonorPays(t) PROVE MadeFor(o)' = {}
      BY <1>1, <1>2, <2>1 DEF DonorPays, MadeFor
    <2>2. \A s \in Slots : Handler(s) \/ HandlerError(s) => made' = made BY HandlerMove
    <2>3. CASE made' = made
      BY <1>2, <2>3 DEF MadeFor
    <2>4. QED BY <2>1, <2>2, <2>3, NextSplit DEF Aside, CreatePaymentTransaction, SweepMark,
                Deliver, AdminApprove, Crash, external
  <1>6. QED BY <1>3, <1>4, <1>5

-----------------------------------------------------------------------------
(* What a step does to the row of one order.                               *)

\* The receipt and its marks stay; a row may appear.
Kept(o) ==
    /\ payments'[o].received = payments[o].received
    /\ payments'[o].processed = payments[o].processed
    /\ payments'[o].gateway = payments[o].gateway
    /\ payments'[o].reference = payments[o].reference
    /\ payments'[o].status = "SUCCESS" <=> payments[o].status = "SUCCESS"
    /\ credited'[o] = credited[o] /\ counted'[o] = counted[o]

\* The request in slot s records its transfer.
Receives(o, s) ==
    /\ slots[s].at \in {"commit", "partial"} /\ SettlingFor(s, o)
    /\ slots[s].hook.of \in Matched /\ OrderOf[slots[s].hook.of] = o
    /\ payments'[o].received = Amount[slots[s].hook.of]
    /\ payments'[o].processed = TRUE /\ payments'[o].status = "SUCCESS"
    /\ \/ /\ slots[s].at = "commit" /\ payments'[o].gateway = "PAYOS"
          /\ payments'[o].reference = slots[s].hook.of
       \/ slots[s].at = "partial" /\ payments'[o].gateway = "SEPAY"
    /\ credited'[o] = credited[o] + Increment(o, Amount[slots[s].hook.of])
    /\ counted'[o] = counted[o] + NewDonations(o)

\* A failure is recorded: by a webhook that was delivered, or by the cleanup job.
Fails(o, processed) ==
    /\ payments'[o].received = payments[o].received
    /\ payments'[o].processed = processed /\ payments'[o].gateway = "PAYOS"
    /\ credited'[o] = credited[o] /\ counted'[o] = counted[o]
    /\ payments'[o].status = "FAILED"

\* An administrator approves.
Approves(o) ==
    /\ payments'[o].received = payments[o].received
    /\ payments'[o].processed = payments[o].processed
    /\ payments'[o].gateway = payments[o].gateway

RowOf(o) ==
    \/ Kept(o)
    \/ \E s \in Slots : Receives(o, s) /\ (PayosCommit(s) \/ SepayPartial(s))
    \/ FailHooked(o) /\ Fails(o, TRUE)
    \/ o \in swept' /\ Fails(o, FALSE)
    \/ o \in approved' /\ Approves(o)

LEMMA SuccessRow ==
    ASSUME TypeOK, NEW o \in Orders, NEW p \in Orders, NEW amount, NEW g, NEW r,
           RecordSuccess(p, amount, g, r)
    PROVE  /\ p # o => Kept(o)
           /\ p = o => /\ payments'[o].received = amount
                       /\ payments'[o].processed = TRUE /\ payments'[o].status = "SUCCESS"
                       /\ payments'[o].gateway = g /\ payments'[o].reference = r
                       /\ credited'[o] = credited[o] + Increment(o, amount)
                       /\ counted'[o] = counted[o] + NewDonations(o)
  BY DEF TypeOK, RecordSuccess, Payment, Kept

LEMMA FailureRow ==
    ASSUME TypeOK, NEW o \in Orders, NEW p \in Orders, NEW processed,
           RecordFailure(p, processed)
    PROVE  IF p = o THEN Fails(o, processed) ELSE Kept(o)
  BY DEF TypeOK, RecordFailure, Payment, Kept, Fails

LEMMA RowOfOrder ==
    ASSUME TypeOK, HooksSent, [Next]_vars, NEW o \in Orders
    PROVE  RowOf(o)
  <1>1. CASE payments' = payments /\ credited' = credited /\ counted' = counted
    BY <1>1 DEF RowOf, Kept
  <1>2. ASSUME NEW p \in Orders, CreatePaymentTransaction(p) PROVE Kept(o)
    BY <1>2 DEF CreatePaymentTransaction, TypeOK, Payment, Kept
  <1>3. ASSUME NEW p \in Orders, SweepMark(p) PROVE RowOf(o)
    <2>1. RecordFailure(p, FALSE) /\ p \in swept'
      BY <1>3 DEF SweepMark
    <2>2. QED BY <2>1, FailureRow DEF RowOf
  <1>4. ASSUME NEW a \in Admins, AdminApprove(a) PROVE RowOf(o)
    <2>1. desk[a] \in Orders /\ desk[a] \in approved' /\ RecordApproval(desk[a])
      BY <1>4 DEF AdminApprove, TypeOK
    <2>2. IF desk[a] = o THEN Approves(o) ELSE Kept(o)
      BY <2>1 DEF RecordApproval, TypeOK, Payment, Kept, Approves
    <2>3. QED BY <2>1, <2>2 DEF RowOf
  <1>5. ASSUME NEW s \in Slots, PayosCommit(s) PROVE RowOf(o)
    <2> DEFINE t == slots[s].hook.of
    <2>1. slots[s].hook \in PayosHooks /\ slots[s].at = "commit"
      BY <1>5, RequestHook DEF PayosCommit, TypeOK
    <2>2. t \in Matched /\ OrderOf[t] \in Orders /\ OrderFor(slots[s].hook) = OrderOf[t]
      BY <2>1 DEF PayosHooks, Matched, OrderFor
    <2> DEFINE r == slots[s].hook.of
    <2>3. RecordSuccess(OrderOf[t], Amount[t], "PAYOS", r)
      BY <1>5 DEF PayosCommit
    <2>a. /\ OrderOf[t] # o => Kept(o)
          /\ OrderOf[t] = o =>
               /\ payments'[o].received = Amount[t]
               /\ payments'[o].processed = TRUE /\ payments'[o].status = "SUCCESS"
               /\ payments'[o].gateway = "PAYOS" /\ payments'[o].reference = r
               /\ credited'[o] = credited[o] + Increment(o, Amount[t])
               /\ counted'[o] = counted[o] + NewDonations(o)
      <3> HIDE DEF t, r
      <3>1. QED BY <2>2, <2>3, SuccessRow
    <2>4. OrderOf[t] # o => Kept(o)
      BY <2>a
    <2>5. OrderOf[t] = o => Receives(o, s)
      BY <2>1, <2>2, <2>a DEF Receives, SettlingFor, Settling
    <2>6. QED BY <1>5, <2>4, <2>5 DEF RowOf
  <1>6. ASSUME NEW s \in Slots, SepayPartial(s) PROVE RowOf(o)
    <2> DEFINE t == slots[s].hook.of
    <2>1. slots[s].hook \in SepayHooks /\ slots[s].hook.of \in Matched /\ slots[s].at = "partial"
      BY <1>6, RequestHook DEF SepayPartial, TypeOK
    <2>2. t \in Matched /\ OrderOf[t] \in Orders /\ OrderFor(slots[s].hook) = OrderOf[t]
      BY <2>1 DEF SepayHooks, Matched, OrderFor
    <2> DEFINE r == payments[OrderOf[t]].reference
    <2>3. RecordSuccess(OrderOf[t], Amount[t], "SEPAY", r)
      BY <1>6 DEF SepayPartial
    <2>a. /\ OrderOf[t] # o => Kept(o)
          /\ OrderOf[t] = o =>
               /\ payments'[o].received = Amount[t]
               /\ payments'[o].processed = TRUE /\ payments'[o].status = "SUCCESS"
               /\ payments'[o].gateway = "SEPAY" /\ payments'[o].reference = r
               /\ credited'[o] = credited[o] + Increment(o, Amount[t])
               /\ counted'[o] = counted[o] + NewDonations(o)
      <3> HIDE DEF t, r
      <3>1. QED BY <2>2, <2>3, SuccessRow
    <2>4. OrderOf[t] # o => Kept(o)
      BY <2>a
    <2>5. OrderOf[t] = o => Receives(o, s)
      BY <2>1, <2>2, <2>a DEF Receives, SettlingFor, Settling
    <2>6. QED BY <1>6, <2>4, <2>5 DEF RowOf
  <1>7. ASSUME NEW s \in Slots, PayosFail(s) PROVE RowOf(o)
    <2>1. slots[s].hook \in FailHooks /\ slots[s].at = "fail"
      BY <1>7, RequestHook DEF PayosFail, TypeOK
    <2>2. slots[s].hook.of \in Orders /\ FailHooked(slots[s].hook.of)
      <3>1. slots[s].hook = [kind |-> "fail", of |-> slots[s].hook.of] BY <2>1 DEF FailHooks
      <3>2. QED BY <2>1, <3>1 DEF HooksSent, FailHooked, FailHooks
    <2>3. RecordFailure(slots[s].hook.of, TRUE) BY <1>7 DEF PayosFail
    <2>4. QED BY <2>2, <2>3, FailureRow DEF RowOf
  <1>8. ASSUME NEW s \in Slots, Handler(s) \/ HandlerError(s) PROVE RowOf(o)
    <2>1. CASE PayosCommit(s) \/ SepayPartial(s) \/ PayosFail(s)
      BY <2>1, <1>5, <1>6, <1>7
    <2>2. CASE SepayExtra(s)
      BY <2>2, <1>1 DEF SepayExtra, RecordExtra
    <2>3. CASE ~(PayosCommit(s) \/ SepayPartial(s) \/ PayosFail(s) \/ SepayExtra(s))
      <3>1. UNCHANGED rows
        BY <1>8, <2>3, Zenon DEF Handler, HandlerError, PayosFind, RedisExists, RedisSet,
              SepayLookup, SepayOrder, Route, PayosError, RedisError, SepayError, RouteError
      <3>2. QED BY <3>1, <1>1 DEF rows
    <2>4. QED BY <2>1, <2>2, <2>3
  <1>9. QED BY <1>1, <1>2, <1>3, <1>4, <1>8, NextSplit
            DEF RowOf, Aside, DonorPays, Deliver, Crash, rows

LEMMA MarksStep ==
    ASSUME TypeOK, HooksSent, RowMarks, [Next]_vars
    PROVE  RowMarks'
  <1> SUFFICES ASSUME NEW o \in Orders
               PROVE  /\ payments'[o].processed => payments'[o].gateway # "NONE"
                      /\ payments'[o].gateway = "SEPAY" => payments'[o].received > 0
                      /\ payments'[o].received > 0 => payments'[o].processed \/ o \in swept'
    BY DEF RowMarks
  <1>1. RowOf(o) BY RowOfOrder
  <1>2. swept \subseteq swept' BY NextLater DEF Later
  <1>3. \A s \in Slots : Receives(o, s) => payments'[o].received > 0
    BY TransferAmount DEF Receives, Matched
  <1>4. QED BY <1>1, <1>2, <1>3 DEF RowOf, Kept, Receives, Fails, Approves, RowMarks

\* A handler announces a commit or a partial payment only on an unprocessed row.
LEMMA SettleReads ==
    ASSUME TypeOK, RowMarks, NEW s \in Slots, Handler(s) \/ HandlerError(s),
           NEW o \in Orders \ swept, NEW step \in {"commit", "partial"},
           GoSettle(s, step, o), <<slots[s].at, step>> \in Settles,
           OrderFor(slots[s].hook) = o
    PROVE  payments[o].received = 0 /\ UNCHANGED payments
  <1> SlotTypes /\ slots[s] \in Requests BY TypeSplit DEF SlotTypes
  <1> /\ payments[o] \in Payment /\ payments[o].received \in Nat
      /\ payments[o].gateway \in Gateways /\ payments[o].processed \in BOOLEAN
    BY DEF TypeOK, Payment
  <1>1. slots'[s].at = step
    BY GotoSlot DEF GoSettle
  <1>2. payments[o].received > 0 =>
          payments[o].processed /\ payments[o].gateway \in {"PAYOS", "SEPAY"}
    BY DEF RowMarks, Gateways
  <1>3. CASE step = "commit"
    <2>1. slots[s].at = "find" BY <1>3 DEF Settles
    <2>2. ~Answer(s) BY <1>1, AnswerSlot
    <2>3. PayosFind(s)
      BY <2>1, <2>2 DEF Handler, HandlerError, PayosCommit, PayosFail, RedisExists, RedisSet,
            SepayLookup, SepayOrder, SepayPartial, SepayExtra, Route, PayosError,
            RedisError, SepayError, RouteError
    <2>4. ~SettledByPayos(payments[o])
      BY <2>2, <2>3 DEF PayosFind
    <2>5. QED BY <1>2, <2>3, <2>4 DEF PayosFind, SettledByPayos, rows
  <1>4. CASE step = "partial"
    <2>1. slots[s].at = "order" BY <1>4 DEF Settles
    <2>2. ~Answer(s) BY <1>1, AnswerSlot
    <2>3. \A a \in {"route", "tryRoute", "extra"} : ~Goto(s, a)
      <3>1. ASSUME NEW a \in {"route", "tryRoute", "extra"}, Goto(s, a) PROVE FALSE
        <4>1. slots'[s].at = a BY <3>1, GotoSlot
        <4>2. QED BY <4>1, <1>1, <1>4
      <3>2. QED BY <3>1
    <2>4. SepayOrder(s)
      BY <2>1, <2>2, <2>3 DEF Handler, HandlerError, PayosFind, PayosCommit, PayosFail,
            RedisExists, RedisSet, SepayLookup, SepayPartial, SepayExtra, Route,
            PayosError, RedisError, SepayError, RouteError
    <2>5. OrderOf[slots[s].hook.of] = o
      BY <2>1, RequestHook DEF SepayHooks, OrderFor
    <2>6. IsFirstPayment(payments[o])
      BY <2>2, <2>3, <2>4, <2>5 DEF SepayOrder, GoSettle
    <2>7. QED BY <1>2, <2>4, <2>6 DEF SepayOrder, IsFirstPayment, rows
  <1>5. QED BY <1>3, <1>4

LEMMA FreshStep ==
    ASSUME TypeOK, HooksSent, OverlapsRaced, RowMarks, ReadFresh, [Next]_vars
    PROVE  ReadFresh'
  <1> SUFFICES ASSUME NEW q \in Slots, NEW o \in Orders, SettlingFor(q, o)',
                      slots'[q].at \in {"commit", "partial"}, o \notin raced' \union swept'
               PROVE  payments'[o].received = 0
    BY DEF ReadFresh
  <1> o \notin raced \union swept BY NextLater DEF Later
  <1> SlotTypes BY TypeSplit
  <1>1. ASSUME SettlingFor(q, o), slots[q].at \in {"commit", "partial"}, slots'[q].at # "idle"
        PROVE  payments'[o].received = 0
    <2>1. payments[o].received = 0 BY <1>1 DEF ReadFresh
    <2>2. ASSUME NEW s \in Slots, Receives(o, s), PayosCommit(s) \/ SepayPartial(s)
          PROVE  FALSE
      <3>1. Answer(s) BY <2>2 DEF PayosCommit, SepayPartial
      <3>2. s # q BY <3>1, <1>1, AnswerSlot
      <3>3. QED BY <1>1, <2>2, <3>2 DEF Receives, OverlapsRaced
    <2>3. RowOf(o) BY RowOfOrder
    <2>4. QED BY <2>1, <2>2, <2>3 DEF RowOf, Kept, Fails, Approves
  <1>2. CASE slots' = slots
    BY <1>1, <1>2 DEF SettlingFor, Settling
  <1>3. ASSUME NEW s \in Slots, NEW h \in Hooks, Deliver(s, h)
        PROVE  payments'[o].received = 0
    <2>1. slots' = [slots EXCEPT ![s] = [at |-> FirstStep(h), hook |-> h]]
      BY <1>3 DEF Deliver
    <2>2. slots'[s].at = FirstStep(h) /\ \A p \in Slots \ {s} : slots'[p] = slots[p]
      BY <2>1 DEF TypeOK
    <2>3. q # s BY <2>2 DEF FirstStep
    <2>4. QED BY <1>1, <2>2, <2>3 DEF SettlingFor
  <1>4. ASSUME NEW s \in Slots, Handler(s) \/ HandlerError(s)
        PROVE  payments'[o].received = 0
    <2>1. CASE q # s
      <3>1. SettlingFor(q, o) BY <1>4, <2>1, SettlingStep
      <3>2. slots'[q].at = slots[q].at BY <1>4, <2>1, HookStays DEF SettlingFor, Settling
      <3>3. QED BY <1>1, <3>1, <3>2
    <2>2. CASE q = s
      <3>1. PICK step : GoSettle(s, step, o) /\ <<slots[s].at, step>> \in Settles
        BY <1>4, <2>2, SettlingStep
      <3>2. slots'[s].at = step BY <3>1, GotoSlot DEF GoSettle
      <3>3. step \in {"commit", "partial"} BY <2>2, <3>2
      <3>4. OrderFor(slots[s].hook) = o
        BY <1>4, <2>2, HookStays DEF SettlingFor, Settling
      <3>5. QED BY <1>4, <3>1, <3>3, <3>4, SettleReads
    <2>3. QED BY <2>1, <2>2
  <1>5. CASE Crash
    BY <1>5 DEF Crash, IdleSlot
  <1>6. QED BY <1>2, <1>3, <1>4, <1>5, NextSplit
            DEF Aside, CreatePaymentTransaction, SweepMark, DonorPays, AdminApprove

-----------------------------------------------------------------------------
(* Everything the proofs about single orders rest on.                      *)

Trail == HooksSent /\ ChecksCounted /\ RowFirst /\ OverlapsRaced /\ RowMarks /\ ReadFresh

LEMMA TrailInit == Init => Trail
  <1> SUFFICES ASSUME Init PROVE Trail
    OBVIOUS
  <1>1. \A s \in Slots : slots[s].at = "idle"
    BY DEF Init, IdleSlot
  <1>2. ChecksCounted /\ OverlapsRaced /\ ReadFresh
    BY <1>1 DEF ChecksCounted, Checked, OverlapsRaced, SettlingFor, Settling, ReadFresh
  <1>3. RowFirst /\ RowMarks
    BY DEF Init, RowFirst, RowMarks, MadeFor, NoPayment
  <1>4. QED BY <1>2, <1>3, SentInit DEF Trail

LEMMA TrailStep == TypeOK /\ Trail /\ [Next]_vars => Trail'
  BY SentStep, ChecksStep, RowFirstStep, OverlapsStep, MarksStep, FreshStep DEF Trail

LEMMA TrailKept == Spec => [](TypeOK /\ Trail)
  <1>1. Init => TypeOK /\ Trail BY TypeInit, TrailInit
  <1>2. TypeOK /\ Trail /\ [Next]_vars => (TypeOK /\ Trail)' BY TypeStep, TrailStep
  <1>3. QED BY <1>1, <1>2, PTL DEF Spec

\* A row's receipt is lowered only by a race or after the cleanup job: the handlers
\* of one order, whatever they read and however they are interleaved, never lower it
\* on their own (payment-webhook.service.ts and sepay-webhook.service.ts decide on a
\* row they read outside the transaction that writes it).
THEOREM ReceiptsNeverShrink == Spec => ReceiptNeverShrinksAlone
  <1>1. ASSUME TypeOK, Trail, [Next]_vars
        PROVE  \A o \in Orders : payments'[o].received < payments[o].received
                  => o \in raced \union swept
    <2> SUFFICES ASSUME NEW o \in Orders, o \notin raced \union swept
                 PROVE  ~(payments'[o].received < payments[o].received)
      OBVIOUS
    <2>1. RowOf(o) BY <1>1, RowOfOrder DEF Trail
    <2>2. payments[o].received \in Nat BY <1>1 DEF TypeOK, Payment
    <2>3. ASSUME NEW s \in Slots, Receives(o, s)
          PROVE  ~(payments'[o].received < payments[o].received)
      <3>1. payments[o].received = 0 BY <1>1, <2>3 DEF Trail, ReadFresh, Receives
      <3>2. payments'[o].received \in Nat BY <2>3, TransferAmount DEF Receives, Matched
      <3>3. QED BY <3>1, <3>2
    <2>4. QED BY <2>1, <2>2, <2>3 DEF RowOf, Kept, Fails, Approves
  <1>2. TypeOK /\ Trail /\ [Next]_vars =>
          [\A o \in Orders : payments'[o].received < payments[o].received
              => o \in raced \union swept]_vars
    BY <1>1
  <1>3. QED BY <1>2, TrailKept, PTL DEF Spec, ReceiptNeverShrinksAlone

-----------------------------------------------------------------------------
(* A donation is counted once.                                             *)

\* While nothing has taken the row out of SUCCESS, it was counted once and only then.
CountedBySuccess == \A o \in Orders :
    ~FailHooked(o) /\ o \notin approved \union swept
    => counted[o] <= 1 /\ (counted[o] > 0 => payments[o].status = "SUCCESS")

LEMMA CountedStep ==
    ASSUME TypeOK, Trail, CountedBySuccess, [Next]_vars
    PROVE  CountedBySuccess'
  <1> SUFFICES ASSUME NEW o \in Orders, ~FailHooked(o)', o \notin approved' \union swept'
               PROVE  counted'[o] <= 1 /\ (counted'[o] > 0 => payments'[o].status = "SUCCESS")
    BY DEF CountedBySuccess
  <1>1. ~FailHooked(o) /\ o \notin approved \union swept
    <2> DEFINE h == [kind |-> "fail", of |-> o]
    <2>1. h \in Hooks BY DEF Hooks, FailHooks
    <2>2. delivered[h] \in Nat /\ delivered'[h] \in Nat BY <2>1, TypeStep DEF TypeOK
    <2>3. Later BY NextLater
    <2> HIDE DEF h
    <2>4. delivered[h] <= delivered'[h] BY <2>1, <2>3 DEF Later
    <2>5. ~(delivered[h] > 0) BY <2>2, <2>4 DEF FailHooked, h
    <2>6. QED BY <2>3, <2>5 DEF Later, FailHooked, h
  <1>2. counted[o] \in Nat /\ counted[o] <= 1 /\ (counted[o] > 0 => payments[o].status = "SUCCESS")
    BY <1>1 DEF CountedBySuccess, TypeOK
  <1>3. RowOf(o) BY RowOfOrder DEF Trail
  <1>4. Kept(o) \/ \E s \in Slots : Receives(o, s)
    BY <1>1, <1>3 DEF RowOf
  <1>5. CASE Kept(o)
    BY <1>2, <1>5 DEF Kept
  <1>6. ASSUME NEW s \in Slots, Receives(o, s)
        PROVE  counted'[o] <= 1 /\ payments'[o].status = "SUCCESS"
    <2>1. counted'[o] = counted[o] + NewDonations(o) /\ payments'[o].status = "SUCCESS"
      BY <1>6 DEF Receives
    <2>2. QED BY <1>2, <2>1 DEF NewDonations
  <1>7. QED BY <1>4, <1>5, <1>6

\* However many handlers settle an order, in whatever order, the campaign's donation
\* count grows by one for it (updatePaymentTransactionSuccess counts a row that was
\* not yet SUCCESS, under its lock).
THEOREM DonationsCountedOnce == Spec => []DonationCountedOnce
  <1>1. Init => CountedBySuccess
    BY DEF Init, CountedBySuccess
  <1>2. TypeOK /\ Trail /\ CountedBySuccess /\ [Next]_vars => CountedBySuccess'
    BY CountedStep
  <1>3. CountedBySuccess => DonationCountedOnce
    BY DEF CountedBySuccess, DonationCountedOnce
  <1>4. QED BY <1>1, <1>2, <1>3, TrailKept, PTL DEF Spec

-----------------------------------------------------------------------------
(* What a step does for one transfer.                                      *)

LEMMA CheckedHook ==
    ASSUME TypeOK, NEW s \in Slots, NEW t, Checked(s, t)
    PROVE  slots[s].hook \in SepayHooks /\ t \in Transfers /\ OrderFor(slots[s].hook) = OrderOf[t]
  <1>1. slots[s].hook \in SepayHooks BY RequestHook DEF TypeOK, Checked
  <1>2. QED BY <1>1 DEF SepayHooks, Checked, OrderFor

LEMMA CheckedMade ==
    ASSUME TypeOK, HooksSent, NEW s \in Slots, NEW t, Checked(s, t)
    PROVE  t \in made
  <1>1. slots[s].hook \in SepayHooks BY CheckedHook
  <1>2. slots[s].at # "idle" /\ slots[s].hook.of = t BY DEF Checked
  <1>3. slots[s].hook.kind = "sepay" BY <1>1 DEF SepayHooks
  <1>4. QED BY <1>2, <1>3 DEF HooksSent

\* How a request gets past the duplicate check, or on from there.
OnTheWay(s, t) ==
    \/ /\ slots'[s].at = IF OrderOf[t] = NoOrder THEN "route" ELSE "lookup"
       /\ passed'[t] = passed[t] + 1
    \/ Checked(s, t) /\ slots[s].at = "lookup" /\ slots'[s].at = "order" /\ extras[t] = 0
    \/ /\ Checked(s, t) /\ slots[s].at = "order"
       /\ LET o == OrderOf[t]
              p == payments[o]
          IN  \/ slots'[s].at = "tryRoute" /\ (o \notin Orders \/ p.status = "ABSENT")
              \/ slots'[s].at = "partial" /\ ~p.processed
              \/ slots'[s].at = "extra" /\ p.processed /\ ~ReportedByPayos(t, p)
    \/ Checked(s, t) /\ slots'[s].at = "route" /\ faults'["db"] > 0
    \/ Checked(s, t) /\ slots[s].at = "tryRoute"

LEMMA CheckedWay ==
    ASSUME TypeOK, NEW s \in Slots, Handler(s) \/ HandlerError(s), NEW t \in Transfers,
           Checked(s, t)'
    PROVE  OnTheWay(s, t)
  <1> SlotTypes /\ slots[s] \in Requests BY TypeSplit DEF SlotTypes
  <1>0. ~Answer(s) BY AnswerSlot DEF Checked
  <1>a. slots[s].hook.of = t BY HookStays DEF Checked
  <1>b. \A step : Goto(s, step) => slots'[s].at = step BY GotoSlot
  <1>1. CASE RedisSet(s) \/ RedisError(s)
    <2>1. PassCheck(s) BY <1>1 DEF RedisSet, RedisError
    <2>2. passed'[t] = passed[t] + 1 BY <2>1, <1>a DEF PassCheck, TypeOK
    <2>3. slots'[s].at = IF OrderOf[t] = NoOrder THEN "route" ELSE "lookup"
      BY <2>1, <1>a, <1>b DEF PassCheck
    <2>4. QED BY <2>2, <2>3 DEF OnTheWay
  <1>2. CASE SepayLookup(s)
    BY <1>0, <1>2, <1>a, <1>b DEF SepayLookup, OnTheWay, Checked
  <1>3. CASE SepayOrder(s)
    BY <1>0, <1>3, <1>a, <1>b DEF SepayOrder, GoSettle, IsFirstPayment, OnTheWay, Checked
  <1>4. CASE SepayError(s)
    <2>1. faults'["db"] > 0
      BY <1>4 DEF SepayError, Fault, FaultKinds, TypeOK
    <2>2. QED BY <1>4, <2>1, <1>a, <1>b DEF SepayError, OnTheWay, Checked
  <1>5. CASE RouteError(s)
    BY <1>0, <1>5, <1>a DEF RouteError, OnTheWay, Checked
  <1>6. ~RedisExists(s)
    BY <1>0, <1>b DEF RedisExists, Checked
  <1>7. ~PayosFind(s)
    BY <1>0, <1>b DEF PayosFind, GoSettle, Checked
  <1>8. QED BY <1>0, <1>1, <1>2, <1>3, <1>4, <1>5, <1>6, <1>7
            DEF Handler, HandlerError, PayosCommit, PayosFail, SepayPartial, SepayExtra,
                Route, PayosError

LEMMA ExtrasStep ==
    ASSUME TypeOK, [Next]_vars, NEW t \in Transfers
    PROVE  \/ extras'[t] = extras[t]
           \/ \E s \in Slots : /\ Checked(s, t) /\ slots[s].at = "extra" /\ SepayExtra(s)
                               /\ extras'[t] = extras[t] + 1
  <1>1. ASSUME NEW s \in Slots, Handler(s) \/ HandlerError(s), extras'[t] # extras[t]
        PROVE  /\ Checked(s, t) /\ slots[s].at = "extra" /\ SepayExtra(s)
               /\ extras'[t] = extras[t] + 1
    <2>1. SepayExtra(s)
      BY <1>1, Zenon DEF Handler, HandlerError, PayosFind, PayosCommit, PayosFail, RedisExists,
            RedisSet, SepayLookup, SepayOrder, SepayPartial, Route, PayosError, RedisError,
            SepayError, RouteError, RecordSuccess, RecordFailure, rows
    <2>2. extras' = [extras EXCEPT ![slots[s].hook.of] = @ + 1]
      BY <2>1 DEF SepayExtra, RecordExtra
    <2>3. slots[s].hook.of = t /\ extras'[t] = extras[t] + 1
      BY <1>1, <2>2 DEF TypeOK
    <2>4. QED BY <2>1, <2>3 DEF SepayExtra, Checked
  <1>2. QED BY <1>1, NextSplit DEF Aside, CreatePaymentTransaction, SweepMark, RecordFailure,
                DonorPays, Deliver, AdminApprove, RecordApproval, Crash, rows

LEMMA WalletStep ==
    ASSUME TypeOK, [Next]_vars, NEW t \in Transfers
    PROVE  t \in wallet' => \/ t \in wallet
                            \/ \E s \in Slots : Checked(s, t) /\ slots[s].at \in {"route", "tryRoute"}
  <1>1. ASSUME NEW s \in Slots, Handler(s) \/ HandlerError(s), t \in wallet', t \notin wallet
        PROVE  Checked(s, t) /\ slots[s].at \in {"route", "tryRoute"}
    <2>1. CASE Route(s) \/ RouteError(s)
      BY <1>1, <2>1 DEF Route, RouteError, Checked
    <2>2. CASE ~(Route(s) \/ RouteError(s))
      BY <1>1, <2>2, Zenon DEF Handler, HandlerError, PayosFind, PayosCommit, PayosFail,
            RedisExists, RedisSet, SepayLookup, SepayOrder, SepayPartial, SepayExtra,
            PayosError, RedisError, SepayError, external
    <2>3. QED BY <2>1, <2>2
  <1>2. QED BY <1>1, NextSplit DEF Aside, CreatePaymentTransaction, SweepMark, DonorPays,
                Deliver, AdminApprove, Crash, external

\* Other requests stay where they are; a step beside the requests checks nobody.
LEMMA CheckedBefore ==
    ASSUME TypeOK, [Next]_vars, NEW t \in Transfers, NEW r \in Slots, Checked(r, t)'
    PROVE  \/ Checked(r, t) /\ slots'[r].at = slots[r].at
           \/ (Handler(r) \/ HandlerError(r)) /\ OnTheWay(r, t)
  <1>1. CASE slots' = slots
    BY <1>1 DEF Checked
  <1>2. ASSUME NEW s \in Slots, NEW h \in Hooks, Deliver(s, h)
        PROVE  Checked(r, t) /\ slots'[r].at = slots[r].at
    <2>1. slots' = [slots EXCEPT ![s] = [at |-> FirstStep(h), hook |-> h]]
      BY <1>2 DEF Deliver
    <2>2. slots'[s].at = FirstStep(h) /\ \A p \in Slots \ {s} : slots'[p] = slots[p]
      BY <2>1 DEF TypeOK
    <2>3. QED BY <2>2 DEF Checked, FirstStep
  <1>3. ASSUME NEW s \in Slots, Handler(s) \/ HandlerError(s)
        PROVE  \/ Checked(r, t) /\ slots'[r].at = slots[r].at
               \/ (Handler(r) \/ HandlerError(r)) /\ OnTheWay(r, t)
    <2>1. CASE r = s
      BY <1>3, <2>1, CheckedWay
    <2>2. CASE r # s
      BY <1>3, <2>2, HookStays DEF Checked
    <2>3. QED BY <2>1, <2>2
  <1>4. ~Crash
    BY DEF Crash, IdleSlot, Checked
  <1>5. QED BY <1>1, <1>2, <1>3, <1>4, NextSplit
            DEF Aside, CreatePaymentTransaction, SweepMark, DonorPays, AdminApprove

-----------------------------------------------------------------------------
(* A transfer reported by two providers is credited once.                  *)

LEMMA NotFailedBefore ==
    ASSUME TypeOK, [Next]_vars, NEW o \in Orders, ~FailHooked(o)'
    PROVE  ~FailHooked(o)
  <1> DEFINE h == [kind |-> "fail", of |-> o]
  <1>1. h \in Hooks BY DEF Hooks, FailHooks
  <1>2. delivered[h] \in Nat /\ delivered'[h] \in Nat BY <1>1, TypeStep DEF TypeOK
  <1> HIDE DEF h
  <1>3. delivered[h] <= delivered'[h] BY <1>1, NextLater DEF Later
  <1>4. ~(delivered'[h] > 0) BY DEF FailHooked, h
  <1>5. ~(delivered[h] > 0) BY <1>2, <1>3, <1>4
  <1>6. QED BY <1>5 DEF FailHooked, h

\* SePay's report of t has been dealt with.
Handled(t) == passed[t] > 0 /\ \A s \in Slots : ~Checked(s, t)

\* Once it has been dealt with, only a second delivery can take it up again.
LEMMA HandledStays ==
    ASSUME TypeOK, [Next]_vars, NEW t \in Transfers, Handled(t), passed'[t] <= 1
    PROVE  Handled(t)'
  <1>1. passed[t] \in Nat /\ passed'[t] \in Nat /\ passed[t] <= passed'[t]
    BY TypeStep, NextLater DEF TypeOK, Later
  <1>2. ASSUME NEW s \in Slots, Checked(s, t)' PROVE FALSE
    <2>1. OnTheWay(s, t) BY <1>2, CheckedBefore DEF Handled
    <2>2. passed'[t] = passed[t] + 1 BY <2>1 DEF OnTheWay, Handled
    <2>3. QED BY <1>1, <2>2 DEF Handled
  <1>3. QED BY <1>1, <1>2 DEF Handled

LEMMA LastHandles ==
    ASSUME TypeOK, ChecksCounted, [Next]_vars, NEW t \in Transfers, passed'[t] <= 1,
           NEW s \in Slots, Checked(s, t), ~Checked(s, t)'
    PROVE  Handled(t)'
  <1>1. passed[t] \in Nat /\ passed'[t] \in Nat /\ passed[t] <= passed'[t]
    BY TypeStep, NextLater DEF TypeOK, Later
  <1>2. passed[t] > 0 /\ \A r \in Slots \ {s} : ~Checked(r, t)
    BY <1>1 DEF ChecksCounted
  <1>3. ASSUME NEW r \in Slots, Checked(r, t)' PROVE FALSE
    <2>1. r # s BY <1>3
    <2>2. OnTheWay(r, t) BY <1>2, <1>3, <2>1, CheckedBefore
    <2>3. passed'[t] = passed[t] + 1 BY <1>2, <2>1, <2>2 DEF OnTheWay
    <2>4. QED BY <1>1, <1>2, <2>3
  <1>4. QED BY <1>1, <1>2, <1>3 DEF Handled

\* The case of TransferCreditedOnce, or of the time before the transfer is made.
OneTransfer(o) ==
    /\ \A t, u \in MadeFor(o) : t = u
    /\ \A t \in MadeFor(o) : passed[t] <= 1
    /\ ~FailHooked(o) /\ o \notin approved /\ faults["db"] = 0

\* The order's receipt is all it was credited, and it is the transfer's amount.
OneReceipt(o) ==
    /\ credited[o] = payments[o].received
    /\ payments[o].received > 0 => \E t \in MadeFor(o) : payments[o].received = Amount[t]
    /\ payments[o].processed => payments[o].received > 0

\* SePay's report neither makes a second row nor reaches the admin wallet; if it was
\* SePay's that was recorded, no other is under way.
OnePath(o) == \A t \in MadeFor(o) :
    /\ extras[t] = 0 /\ t \notin wallet
    /\ payments[o].gateway = "SEPAY" => Handled(t)
    /\ \A s \in Slots : Checked(s, t) => slots[s].at \in {"lookup", "order", "partial"}

OnceInv == \A o \in Orders : OneTransfer(o) => OneReceipt(o) /\ OnePath(o)

LEMMA OneTransferBefore ==
    ASSUME TypeOK, [Next]_vars, NEW o \in Orders, OneTransfer(o)'
    PROVE  OneTransfer(o)
  <1> Later BY NextLater
  <1>1. \A t \in MadeFor(o) : t \in MadeFor(o)' /\ t \in Transfers
    BY DEF Later, MadeFor, TypeOK
  <1>2. \A t \in MadeFor(o) : passed[t] <= 1
    <2> SUFFICES ASSUME NEW t \in MadeFor(o) PROVE passed[t] <= 1
      OBVIOUS
    <2>1. passed[t] \in Nat /\ passed'[t] \in Nat BY <1>1, TypeStep DEF TypeOK
    <2>2. passed[t] <= passed'[t] /\ passed'[t] <= 1 BY <1>1 DEF Later, OneTransfer
    <2>3. QED BY <2>1, <2>2
  <1>3. faults["db"] = 0
    <2>1. faults["db"] \in Nat /\ faults["db"] <= faults'["db"] /\ faults'["db"] = 0
      BY DEF Later, FaultKinds, OneTransfer, TypeOK
    <2>2. QED BY <2>1
  <1>4. ~FailHooked(o) BY NotFailedBefore DEF OneTransfer
  <1>5. QED BY <1>1, <1>2, <1>3, <1>4 DEF OneTransfer, Later

\* The transfer of a request that records a receipt is one of the order's.
LEMMA ReceivesMade ==
    ASSUME TypeOK, HooksSent, NEW o \in Orders, NEW s \in Slots, Receives(o, s)
    PROVE  /\ slots[s].hook.of \in MadeFor(o)
           /\ slots[s].at = "partial" => Checked(s, slots[s].hook.of)
  <1>1. slots[s].hook \in PayosHooks \union SepayHooks
    BY RequestHook DEF Receives, TypeOK
  <1>2. slots[s].hook.kind \in {"payos", "sepay"} BY <1>1 DEF PayosHooks, SepayHooks
  <1>3. slots[s].at # "idle" BY DEF Receives
  <1>4. slots[s].hook.of \in made BY <1>2, <1>3 DEF HooksSent
  <1>5. QED BY <1>4 DEF Receives, MadeFor, Checked

LEMMA OneReceiptStep ==
    ASSUME TypeOK, Trail, OnceInv, [Next]_vars, NEW o \in Orders, OneTransfer(o)'
    PROVE  OneReceipt(o)'
  <1>1. OneTransfer(o) /\ OneReceipt(o)
    BY OneTransferBefore DEF OnceInv
  <1>2. \A t \in MadeFor(o) : t \in MadeFor(o)'
    BY NextLater DEF Later, MadeFor
  <1>3. Kept(o) \/ (\E s \in Slots : Receives(o, s)) \/ Fails(o, FALSE)
    <2>1. RowOf(o) BY RowOfOrder DEF Trail
    <2>2. ~FailHooked(o) BY <1>1 DEF OneTransfer
    <2>3. o \notin approved' BY DEF OneTransfer
    <2>4. QED BY <2>1, <2>2, <2>3 DEF RowOf
  <1>4. CASE Kept(o) \/ Fails(o, FALSE)
    BY <1>1, <1>2, <1>4 DEF Kept, Fails, OneReceipt
  <1>5. ASSUME NEW s \in Slots, Receives(o, s) PROVE OneReceipt(o)'
    <2> PICK t \in MadeFor(o) : t = slots[s].hook.of
      BY <1>5, ReceivesMade DEF Trail
    <2>1. t \in Transfers /\ Amount[t] \in Nat \ {0} BY TransferAmount DEF MadeFor, TypeOK
    <2>2. payments[o].received \in Nat BY DEF TypeOK, Payment
    <2>3. payments[o].received = 0 \/ payments[o].received = Amount[t]
      BY <1>1, <2>2 DEF OneReceipt, OneTransfer
    <2>4. credited'[o] = credited[o] + Increment(o, Amount[t])
      BY <1>5 DEF Receives
    <2>5. credited'[o] = Amount[t]
      BY <1>1, <2>1, <2>2, <2>3, <2>4 DEF Increment, OneReceipt
    <2>6. payments'[o].received = Amount[t]
      BY <1>5 DEF Receives
    <2>7. QED BY <1>2, <2>1, <2>5, <2>6 DEF OneReceipt
  <1>6. QED BY <1>3, <1>4, <1>5

LEMMA OnePathStep ==
    ASSUME TypeOK, Trail, OnceInv, [Next]_vars, NEW o \in Orders, OneTransfer(o)'
    PROVE  OnePath(o)'
  <1> Later /\ HooksSent /\ ChecksCounted /\ RowFirst /\ RowMarks BY NextLater DEF Trail
  <1> SUFFICES ASSUME NEW t \in MadeFor(o)'
               PROVE  /\ extras'[t] = 0 /\ t \notin wallet'
                      /\ payments'[o].gateway = "SEPAY" => Handled(t)'
                      /\ \A s \in Slots : Checked(s, t)' =>
                            slots'[s].at \in {"lookup", "order", "partial"}
    BY DEF OnePath
  <1>1. OneTransfer(o) /\ OneReceipt(o) /\ OnePath(o)
    BY OneTransferBefore DEF OnceInv
  <1>2. /\ t \in Transfers /\ OrderOf[t] = o /\ passed[t] \in Nat /\ passed'[t] \in Nat
        /\ passed[t] <= passed'[t] /\ passed'[t] <= 1
    BY TypeStep DEF MadeFor, TypeOK, Later, OneTransfer
  <1>3. \A u \in MadeFor(o) : u = t
    BY DEF OneTransfer, MadeFor, Later
  <1>4. \A s \in Slots : Checked(s, t) => t \in MadeFor(o)
    BY <1>2, CheckedMade DEF MadeFor
  <1>5. \A s \in Slots : Checked(s, t) => slots[s].at \in {"lookup", "order", "partial"}
    BY <1>1, <1>4 DEF OnePath
  <1>6. extras[t] = 0 /\ t \notin wallet
    BY <1>1, <1>2 DEF OnePath, HooksSent, MadeFor
  <1>7. extras'[t] = 0
    BY <1>2, <1>5, <1>6, ExtrasStep
  <1>8. t \notin wallet'
    BY <1>2, <1>5, <1>6, WalletStep
  <1>9. ASSUME payments'[o].gateway = "SEPAY" PROVE Handled(t)'
    <2>1. CASE payments[o].gateway = "SEPAY"
      <3>1. t \in MadeFor(o)
        BY <1>1, <1>3, <2>1 DEF RowMarks, OneReceipt
      <3>2. Handled(t) BY <1>1, <2>1, <3>1 DEF OnePath
      <3>3. QED BY <1>2, <3>2, HandledStays
    <2>2. CASE payments[o].gateway # "SEPAY"
      <3>1. RowOf(o) BY RowOfOrder
      <3>2. o \notin approved' BY DEF OneTransfer
      <3>3. PICK s \in Slots : Receives(o, s) /\ (PayosCommit(s) \/ SepayPartial(s))
        BY <1>9, <2>2, <3>1, <3>2 DEF RowOf, Kept, Fails
      <3>4. slots[s].at = "partial" BY <1>9, <3>3 DEF Receives
      <3>5. Checked(s, t) /\ t \in MadeFor(o)
        BY <1>3, <3>3, <3>4, ReceivesMade
      <3>6. Answer(s) BY <3>3 DEF PayosCommit, SepayPartial
      <3>7. ~Checked(s, t)'
        <4>1. SlotTypes BY TypeSplit
        <4>2. QED BY <3>6, <4>1, AnswerSlot DEF Checked
      <3>8. QED BY <1>2, <3>5, <3>7, LastHandles
    <2>3. QED BY <2>1, <2>2
  <1>10. ASSUME NEW s \in Slots, Checked(s, t)'
         PROVE  slots'[s].at \in {"lookup", "order", "partial"}
    <2>1. CASE Checked(s, t) /\ slots'[s].at = slots[s].at
      BY <1>5, <2>1
    <2>2. CASE OnTheWay(s, t)
      <3>1. o # NoOrder BY PaymentsAssumption
      <3>2. faults'["db"] = 0 BY DEF OneTransfer
      <3>3. Checked(s, t) => t \in MadeFor(o) /\ payments[o].status # "ABSENT"
        BY <1>4 DEF RowFirst
      <3>4. ~(Checked(s, t) /\ payments[o].processed /\ ~ReportedByPayos(t, payments[o]))
        <4> SUFFICES ASSUME Checked(s, t), payments[o].processed PROVE ReportedByPayos(t, payments[o])
          OBVIOUS
        <4>1. payments[o].received = Amount[t] BY <1>1, <1>3 DEF OneReceipt
        <4>2. payments[o].gateway # "SEPAY" BY <1>1, <1>4 DEF OnePath, Handled
        <4>3. payments[o].gateway # "NONE" BY DEF RowMarks
        <4>4. payments[o].gateway \in Gateways BY DEF TypeOK, Payment
        <4>5. QED BY <4>1, <4>2, <4>3, <4>4 DEF ReportedByPayos, Gateways
      <3>5. QED BY <1>2, <1>5, <2>2, <3>1, <3>2, <3>3, <3>4 DEF OnTheWay
    <2>3. QED BY <1>2, <1>10, <2>1, <2>2, CheckedBefore
  <1>11. QED BY <1>7, <1>8, <1>9, <1>10

\* PayOS and SePay may both report a transfer, repeatedly, in any order and at the same
\* time, and the cleanup job may mark the order in between: it is credited once.
THEOREM TransfersCreditedOnce == Spec => []TransferCreditedOnce
  <1>1. Init => OnceInv
    BY DEF Init, OnceInv, OneReceipt, OnePath, MadeFor, NoPayment
  <1>2. TypeOK /\ Trail /\ OnceInv /\ [Next]_vars => OnceInv'
    BY OneReceiptStep, OnePathStep DEF OnceInv
  <1>3. TypeOK /\ Trail /\ OnceInv => TransferCreditedOnce
    <2> SUFFICES ASSUME TypeOK, Trail, OnceInv, NEW o \in Orders, NEW t \in Transfers,
                        MadeFor(o) = {t}, passed[t] <= 1,
                        ~FailHooked(o), o \notin approved, faults["db"] = 0
                 PROVE  Accounted(o) <= Amount[t]
      BY DEF TransferCreditedOnce
    <2>1. OneTransfer(o) BY DEF OneTransfer
    <2>2. OneReceipt(o) /\ OnePath(o) BY <2>1 DEF OnceInv
    <2>3. Amount[t] \in Nat /\ payments[o].received \in Nat
      BY TransferAmount DEF TypeOK, Payment
    <2>4. credited[o] = 0 \/ credited[o] = Amount[t]
      BY <2>2, <2>3 DEF OneReceipt
    <2>5. SumFunctionOnSet(Extra, MadeFor(o)) = 0
      <3>1. Extra[t] = 0 BY <2>2, <2>3 DEF Extra, OnePath
      <3>2. Extra[t] \in Nat BY <3>1
      <3>3. SumFunctionOnSet(Extra, {t}) = Extra[t] BY <3>2, SumOne
      <3>4. QED BY <3>1, <3>3
    <2>6. PaidTowards(o, wallet) = 0
      <3>1. {u \in wallet : OrderOf[u] = o} = {}
        BY <2>2 DEF OnePath, Trail, HooksSent, MadeFor
      <3>2. QED BY <3>1, SumNone DEF PaidTowards
    <2>7. QED BY <2>3, <2>4, <2>5, <2>6 DEF Accounted
  <1>4. QED BY <1>1, <1>2, <1>3, TrailKept, PTL DEF Spec

-----------------------------------------------------------------------------
(* A price paid in several transfers adds up.                              *)

\* The case of SplitPaymentAddsUp, at any time.
Split(o) ==
    Undisturbed(o) /\ \A t, u \in MadeFor(o) : Amount[t] = Amount[u] => t = u

\* Transfer m is the one the row of o records.
First(o, m) ==
    /\ payments[o].received = Amount[m]
    /\ payments[o].gateway = "PAYOS" => payments[o].reference = m
    /\ payments[o].gateway = "SEPAY" => Handled(m)

SplitReceipt(o) ==
    /\ credited[o] = payments[o].received
    /\ payments[o].processed => payments[o].received > 0
    /\ payments[o].received > 0 => \E m \in MadeFor(o) : First(o, m)

\* Every other transfer gets a row of its own, once, and is then dealt with.
Supplements(o, t) ==
    /\ t \notin wallet /\ extras[t] <= 1
    /\ extras[t] = 1 =>
         payments[o].received > 0 /\ payments[o].received # Amount[t] /\ passed[t] > 0
    /\ Handled(t) => extras[t] = 1 \/ payments[o].received = Amount[t]
    /\ \A s \in Slots : Checked(s, t) =>
         /\ slots[s].at \in {"lookup", "order", "partial", "extra"} /\ extras[t] = 0
         /\ slots[s].at = "extra" =>
              payments[o].received > 0 /\ payments[o].received # Amount[t]

SplitInv == \A o \in Orders : Split(o) =>
    SplitReceipt(o) /\ \A t \in MadeFor(o) : Supplements(o, t)

LEMMA SplitBefore ==
    ASSUME TypeOK, [Next]_vars, NEW o \in Orders, Split(o)'
    PROVE  Split(o)
  <1> Later BY NextLater
  <1>1. \A t \in MadeFor(o) : t \in MadeFor(o)' /\ t \in Transfers
    BY DEF Later, MadeFor, TypeOK
  <1>2. \A t \in MadeFor(o) : passed[t] <= 1
    <2> SUFFICES ASSUME NEW t \in MadeFor(o) PROVE passed[t] <= 1
      OBVIOUS
    <2>1. passed[t] \in Nat /\ passed'[t] \in Nat BY <1>1, TypeStep DEF TypeOK
    <2>2. passed[t] <= passed'[t] /\ passed'[t] <= 1 BY <1>1 DEF Later, Split, Undisturbed
    <2>3. QED BY <2>1, <2>2
  <1>3. \A k \in FaultKinds : faults[k] = 0
    <2> SUFFICES ASSUME NEW k \in FaultKinds PROVE faults[k] = 0
      OBVIOUS
    <2>1. faults[k] \in Nat /\ faults[k] <= faults'[k] /\ faults'[k] = 0
      BY DEF Later, Split, Undisturbed, TypeOK
    <2>2. QED BY <2>1
  <1>4. ~FailHooked(o) BY NotFailedBefore DEF Split, Undisturbed
  <1>5. QED BY <1>1, <1>2, <1>3, <1>4 DEF Split, Undisturbed, Later

\* A delivery that passes the check is under way for its transfer.
LEMMA PassedStep ==
    ASSUME TypeOK, [Next]_vars, NEW t \in Transfers, passed'[t] # passed[t]
    PROVE  \E s \in Slots : Checked(s, t)'
  <1> SlotTypes BY TypeSplit
  <1>1. ASSUME NEW s \in Slots, Handler(s) \/ HandlerError(s) PROVE Checked(s, t)'
    <2>1. SlotMove(s) BY <1>1, HandlerMove
    <2>2. PassCheck(s)
      BY <2>1 DEF SlotMove, GoSettle, history
    <2>3. slots[s].hook.of = t
      BY <2>2 DEF PassCheck, TypeOK
    <2>4. PICK step \in {"route", "lookup"} : Goto(s, step)
      BY <2>2 DEF PassCheck
    <2>5. slots'[s].at = step /\ slots'[s].hook = slots[s].hook
      BY <2>4, GotoSlot
    <2>6. QED BY <2>3, <2>5 DEF Checked
  <1>2. QED BY <1>1, NextSplit DEF Aside, CreatePaymentTransaction, SweepMark, DonorPays,
                Deliver, AdminApprove, Crash, history

\* How a request past the duplicate check ends.
LEMMA CheckedEnds ==
    ASSUME TypeOK, [Next]_vars, NEW t \in Transfers, NEW s \in Slots,
           Checked(s, t), ~Checked(s, t)'
    PROVE  \/ slots[s].at = "lookup" /\ extras[t] > 0
           \/ /\ slots[s].at = "order"
              /\ payments[OrderOf[t]].processed /\ ReportedByPayos(t, payments[OrderOf[t]])
           \/ slots[s].at = "partial" /\ payments'[OrderOf[t]].received = Amount[t]
           \/ slots[s].at = "extra" /\ extras'[t] = extras[t] + 1
           \/ slots[s].at \in {"route", "tryRoute"}
           \/ faults'["crash"] > 0
  <1> SlotTypes /\ slots[s] \in Requests BY TypeSplit DEF SlotTypes
  <1> DEFINE Goal == \/ slots[s].at = "lookup" /\ extras[t] > 0
                     \/ /\ slots[s].at = "order"
                        /\ payments[OrderOf[t]].processed
                        /\ ReportedByPayos(t, payments[OrderOf[t]])
                     \/ slots[s].at = "partial" /\ payments'[OrderOf[t]].received = Amount[t]
                     \/ slots[s].at = "extra" /\ extras'[t] = extras[t] + 1
                     \/ slots[s].at \in {"route", "tryRoute"}
                     \/ faults'["crash"] > 0
  <1>1. ASSUME slots'[s] = slots[s] PROVE FALSE
    BY <1>1 DEF Checked
  <1>2. ASSUME NEW r \in Slots, NEW h \in Hooks, Deliver(r, h) PROVE FALSE
    <2>1. r # s BY <1>2 DEF Deliver, Checked
    <2>2. slots'[s] = slots[s] BY <1>2, <2>1 DEF Deliver, TypeOK
    <2>3. QED BY <1>1, <2>2
  <1>3. CASE Crash
    BY <1>3 DEF Crash, Fault, FaultKinds, TypeOK
  <1>4. ASSUME Handler(s) \/ HandlerError(s) PROVE Goal
    <2>1. \A step \in {"lookup", "order", "partial", "extra", "route", "tryRoute"} :
             ~Goto(s, step)
      <3>1. ASSUME NEW step \in {"lookup", "order", "partial", "extra", "route", "tryRoute"},
                   Goto(s, step)
            PROVE  FALSE
        <4>1. slots'[s].at = step /\ slots'[s].hook = slots[s].hook BY <3>1, GotoSlot
        <4>2. QED BY <4>1 DEF Checked
      <3>2. QED BY <3>1
    <2>2. CASE SepayLookup(s)
      BY <2>1, <2>2 DEF SepayLookup, Checked
    <2>3. CASE SepayOrder(s)
      BY <2>1, <2>3 DEF SepayOrder, GoSettle, IsFirstPayment, Checked
    <2>4. CASE SepayPartial(s)
      <3>1. slots[s].at = "partial" /\ slots[s].hook.of = t
        BY <2>4 DEF SepayPartial, Checked
      <3>2. OrderOf[t] \in Orders
        BY <3>1, RequestHook DEF Matched
      <3>3. RecordSuccess(OrderOf[t], Amount[t], "SEPAY", payments[OrderOf[t]].reference)
        BY <2>4, <3>1 DEF SepayPartial
      <3>4. payments'[OrderOf[t]].received = Amount[t]
        BY <3>2, <3>3 DEF RecordSuccess, TypeOK, Payment
      <3>5. QED BY <3>1, <3>4
    <2>5. CASE SepayExtra(s)
      BY <2>5 DEF SepayExtra, RecordExtra, Checked, TypeOK
    <2>6. CASE SepayError(s)
      BY <2>1, <2>6 DEF SepayError
    <2>7. CASE Route(s) \/ RouteError(s)
      BY <2>7 DEF Route, RouteError
    <2>8. QED BY <1>4, <2>2, <2>3, <2>4, <2>5, <2>6, <2>7
              DEF Handler, HandlerError, PayosFind, PayosCommit, PayosFail, RedisExists,
                  RedisSet, PayosError, RedisError, Checked
  <1>5. ASSUME NEW r \in Slots, r # s, Handler(r) \/ HandlerError(r) PROVE FALSE
    <2>1. SlotMove(r) BY <1>5, HandlerMove
    <2>2. slots'[s] = slots[s]
      BY <1>5, <2>1, GotoSlot, AnswerSlot DEF SlotMove, PassCheck, GoSettle
    <2>3. QED BY <1>1, <2>2
  <1>6. QED BY <1>1, <1>2, <1>3, <1>4, <1>5, NextSplit
            DEF Aside, CreatePaymentTransaction, SweepMark, DonorPays, AdminApprove

\* While an order is undisturbed its row changes only by a first receipt.
LEMMA SplitRow ==
    ASSUME TypeOK, Trail, [Next]_vars, NEW o \in Orders, Split(o)'
    PROVE  \/ Kept(o)
           \/ \E s \in Slots : /\ Receives(o, s) /\ payments[o].received = 0
                               /\ PayosCommit(s) \/ SepayPartial(s)
  <1>1. Split(o) BY SplitBefore
  <1>2. RowOf(o) BY RowOfOrder DEF Trail
  <1>3. ~FailHooked(o) /\ o \notin approved' \union swept' \union raced \union swept
    BY <1>1 DEF Split, Undisturbed
  <1>4. \A s \in Slots : Receives(o, s) => payments[o].received = 0
    BY <1>3 DEF Trail, ReadFresh, Receives
  <1>5. QED BY <1>2, <1>3, <1>4 DEF RowOf

LEMMA SplitReceiptStep ==
    ASSUME TypeOK, Trail, SplitInv, [Next]_vars, NEW o \in Orders, Split(o)'
    PROVE  SplitReceipt(o)'
  <1>1. Split(o) /\ SplitReceipt(o)
    BY SplitBefore DEF SplitInv
  <1>2. /\ \A t \in MadeFor(o) : t \in MadeFor(o)' /\ t \in Transfers
        /\ \A t \in MadeFor(o)' : passed'[t] <= 1
    BY NextLater DEF Later, MadeFor, TypeOK, Split, Undisturbed
  <1>3. CASE Kept(o)
    <2>1. \A m \in MadeFor(o) : First(o, m) => First(o, m)'
      BY <1>2, <1>3, HandledStays DEF First, Kept
    <2>2. QED BY <1>1, <1>2, <1>3, <2>1 DEF SplitReceipt, Kept
  <1>4. ASSUME NEW s \in Slots, Receives(o, s), payments[o].received = 0,
               PayosCommit(s) \/ SepayPartial(s)
        PROVE  SplitReceipt(o)'
    <2> PICK t \in MadeFor(o) : t = slots[s].hook.of
      BY <1>4, ReceivesMade DEF Trail
    <2>1. t \in Transfers /\ Amount[t] \in Nat \ {0} BY TransferAmount DEF MadeFor, TypeOK
    <2>2. credited[o] = 0 BY <1>1, <1>4 DEF SplitReceipt
    <2>3. credited'[o] = credited[o] + Increment(o, Amount[t])
      BY <1>4 DEF Receives
    <2>4. credited'[o] = Amount[t]
      BY <1>4, <2>1, <2>2, <2>3 DEF Increment
    <2>5. payments'[o].received = Amount[t]
      BY <1>4 DEF Receives
    <2>6. First(o, t)'
      <3>1. CASE slots[s].at = "commit"
        BY <1>4, <2>5, <3>1 DEF Receives, First
      <3>2. CASE slots[s].at = "partial"
        <4>1. Checked(s, t) BY <1>4, <3>2, ReceivesMade DEF Trail
        <4>2. ~Checked(s, t)'
          <5>1. Answer(s) BY <1>4 DEF PayosCommit, SepayPartial
          <5>2. SlotTypes BY TypeSplit
          <5>3. QED BY <5>1, <5>2, AnswerSlot DEF Checked
        <4>3. Handled(t)' BY <1>2, <4>1, <4>2, LastHandles DEF Trail
        <4>4. payments'[o].gateway = "SEPAY" BY <1>4, <3>2 DEF Receives
        <4>5. QED BY <2>5, <4>3, <4>4 DEF First
      <3>3. QED BY <1>4, <3>1, <3>2 DEF Receives
    <2>7. t \in MadeFor(o)' BY <1>2
    <2>8. QED BY <2>1, <2>4, <2>5, <2>6, <2>7 DEF SplitReceipt
  <1>5. QED BY <1>3, <1>4, SplitRow

LEMMA SupplementsStep ==
    ASSUME TypeOK, Trail, SplitInv, [Next]_vars, NEW o \in Orders, Split(o)',
           NEW t \in MadeFor(o)'
    PROVE  Supplements(o, t)'
  <1> Later /\ HooksSent /\ ChecksCounted /\ RowFirst /\ RowMarks BY NextLater DEF Trail
  <1> DEFINE paid == payments[o].received
  <1>1. Split(o) /\ SplitReceipt(o) /\ \A u \in MadeFor(o) : Supplements(o, u)
    BY SplitBefore DEF SplitInv
  <1>2. /\ t \in Transfers /\ OrderOf[t] = o /\ passed[t] \in Nat /\ passed'[t] \in Nat
        /\ passed[t] <= passed'[t] /\ passed'[t] <= 1 /\ extras[t] \in Nat
        /\ Amount[t] \in Nat \ {0}
    BY TypeStep, TransferAmount DEF MadeFor, TypeOK, Later, Split, Undisturbed
  <1>3. \A s \in Slots : Checked(s, t) => t \in MadeFor(o)
    BY <1>2, CheckedMade DEF MadeFor
  <1>4. /\ t \notin wallet /\ extras[t] <= 1
        /\ extras[t] = 1 => paid > 0 /\ paid # Amount[t] /\ passed[t] > 0
        /\ Handled(t) => extras[t] = 1 \/ paid = Amount[t]
        /\ \A s \in Slots : Checked(s, t) =>
             /\ slots[s].at \in {"lookup", "order", "partial", "extra"} /\ extras[t] = 0
             /\ slots[s].at = "extra" => paid > 0 /\ paid # Amount[t]
    <2>1. CASE t \in MadeFor(o)
      BY <1>1, <2>1 DEF Supplements
    <2>2. CASE t \notin MadeFor(o)
      <3>1. t \notin made BY <1>2, <2>2 DEF MadeFor
      <3>2. extras[t] = 0 /\ passed[t] = 0 /\ t \notin wallet BY <1>2, <3>1 DEF HooksSent
      <3>3. QED BY <1>3, <2>2, <3>2 DEF Handled
    <2>3. QED BY <2>1, <2>2
  <1>5. paid > 0 => payments'[o].received = paid
    BY SplitRow DEF Kept
  <1>6. paid \in Nat BY DEF TypeOK, Payment
  <1> HIDE DEF paid
  <1>7. t \notin wallet'
    BY <1>2, <1>4, WalletStep
  <1>8. \/ extras'[t] = extras[t]
        \/ /\ extras[t] = 0 /\ extras'[t] = 1 /\ paid > 0 /\ paid # Amount[t]
           /\ \E s \in Slots : Checked(s, t) /\ slots[s].at = "extra" /\ SepayExtra(s)
    BY <1>2, <1>4, ExtrasStep
  <1>9. extras'[t] = 1 =>
          payments'[o].received > 0 /\ payments'[o].received # Amount[t] /\ passed'[t] > 0
    BY <1>2, <1>4, <1>5, <1>8 DEF ChecksCounted
  <1>10. faults'["crash"] = 0 /\ faults'["db"] = 0
    BY DEF Split, Undisturbed, FaultKinds
  <1>11. ASSUME Handled(t)'
         PROVE  extras'[t] = 1 \/ payments'[o].received = Amount[t]
    <2>1. CASE Handled(t)
      BY <1>2, <1>4, <1>5, <1>8, <2>1
    <2>2. CASE passed[t] = 0
      <3>1. passed'[t] # passed[t] BY <1>11, <2>2 DEF Handled
      <3>2. QED BY <1>2, <1>11, <3>1, PassedStep DEF Handled
    <2>3. ASSUME NEW s \in Slots, Checked(s, t)
          PROVE  extras'[t] = 1 \/ payments'[o].received = Amount[t]
      <3>1. /\ slots[s].at \in {"lookup", "order", "partial", "extra"} /\ extras[t] = 0
            /\ slots[s].at = "extra" => paid > 0 /\ paid # Amount[t]
        BY <1>4, <2>3
      <3>2. ~Checked(s, t)' BY <1>11 DEF Handled
      <3>3. \/ slots[s].at = "order" /\ payments[o].processed /\ ReportedByPayos(t, payments[o])
            \/ payments'[o].received = Amount[t]
            \/ extras'[t] = extras[t] + 1
        BY <1>2, <1>10, <2>3, <3>1, <3>2, CheckedEnds
      <3>4. ASSUME payments[o].processed, ReportedByPayos(t, payments[o])
            PROVE  payments'[o].received = Amount[t]
        <4>1. paid > 0 BY <1>1, <3>4 DEF SplitReceipt, paid
        <4>2. PICK m \in MadeFor(o) : First(o, m) BY <1>1, <4>1 DEF SplitReceipt, paid
        <4>3. paid = Amount[t] BY <3>4, <4>2 DEF ReportedByPayos, First, paid
        <4>4. QED BY <1>5, <4>1, <4>3
      <3>5. QED BY <3>1, <3>3, <3>4
    <2>4. QED BY <1>2, <2>1, <2>2, <2>3 DEF Handled
  <1>12. ASSUME NEW s \in Slots, Checked(s, t)'
         PROVE  /\ slots'[s].at \in {"lookup", "order", "partial", "extra"}
                /\ extras'[t] = 0
                /\ slots'[s].at = "extra" =>
                     payments'[o].received > 0 /\ payments'[o].received # Amount[t]
    <2>1. \/ Checked(s, t) /\ slots'[s].at = slots[s].at
          \/ OnTheWay(s, t)
      BY <1>2, <1>12, CheckedBefore
    <2>2. ~(OnTheWay(s, t) /\ passed'[t] = passed[t] + 1 /\ passed[t] > 0)
      BY <1>2
    <2>3. extras'[t] = 0
      <3> SUFFICES ASSUME NEW r \in Slots, Checked(r, t), SepayExtra(r), extras[t] = 0 PROVE FALSE
        <4>1. extras[t] = 0
          BY <1>2, <1>4, <2>1 DEF OnTheWay
        <4>2. QED BY <1>8, <4>1
      <3>1. Answer(r) BY DEF SepayExtra
      <3>2. r # s
        <4>1. SlotTypes BY TypeSplit
        <4>2. QED BY <1>12, <3>1, <4>1, AnswerSlot DEF Checked
      <3>3. passed[t] > 0 BY <1>2 DEF ChecksCounted
      <3>4. ~Checked(s, t) BY <1>2, <3>2 DEF ChecksCounted
      <3>5. passed'[t] = passed[t] + 1 BY <2>1, <3>4 DEF OnTheWay
      <3>6. QED BY <1>2, <3>3, <3>5
    <2>4. CASE Checked(s, t) /\ slots'[s].at = slots[s].at
      BY <1>4, <1>5, <2>3, <2>4
    <2>5. CASE OnTheWay(s, t)
      <3>1. o # NoOrder BY PaymentsAssumption
      <3>2. Checked(s, t) => payments[o].status # "ABSENT"
        BY <1>3 DEF RowFirst
      <3>3. Checked(s, t) => slots[s].at \in {"lookup", "order", "partial", "extra"}
        BY <1>4
      <3>4. ASSUME Checked(s, t), payments[o].processed, ~ReportedByPayos(t, payments[o])
            PROVE  paid > 0 /\ paid # Amount[t]
        <4>1. paid > 0 BY <1>1, <3>4 DEF SplitReceipt, paid
        <4>2. PICK m \in MadeFor(o) : First(o, m) BY <1>1, <4>1 DEF SplitReceipt, paid
        <4>3. payments[o].gateway # "NONE" BY <3>4 DEF RowMarks
        <4>4. payments[o].gateway \in Gateways BY DEF TypeOK, Payment
        <4>5. CASE payments[o].gateway = "PAYOS"
          BY <3>4, <4>1, <4>5 DEF ReportedByPayos, paid
        <4>6. CASE payments[o].gateway = "SEPAY"
          <5>1. m # t BY <3>4, <4>2, <4>6 DEF First, Handled
          <5>2. Amount[m] # Amount[t]
            BY <1>1, <1>3, <3>4, <5>1 DEF Split
          <5>3. QED BY <4>1, <4>2, <5>2 DEF First, paid
        <4>7. QED BY <4>3, <4>4, <4>5, <4>6 DEF Gateways
      <3>5. QED BY <1>2, <1>5, <1>10, <2>3, <2>5, <3>1, <3>2, <3>3, <3>4 DEF OnTheWay
    <2>6. QED BY <2>1, <2>4, <2>5
  <1>13. extras'[t] <= 1 BY <1>4, <1>8
  <1>14. QED BY <1>7, <1>9, <1>11, <1>12, <1>13 DEF Supplements

\* The sums of the property: every transfer but the recorded one in a row of its own.
LEMMA SplitSum ==
    ASSUME TypeOK, Trail, NEW o \in Orders, Split(o), SplitReceipt(o),
           \A t \in MadeFor(o) : Supplements(o, t) /\ Handled(t)
    PROVE  Accounted(o) = PaidTowards(o, made)
  <1> DEFINE M == MadeFor(o)
             paid == payments[o].received
  <1>1. /\ M \subseteq Transfers /\ IsFiniteSet(M) /\ paid \in Nat /\ credited[o] = paid
        /\ \A t \in M : Amount[t] \in Nat \ {0} /\ extras[t] \in Nat /\ passed[t] > 0
    <2>1. IsFiniteSet(made) /\ M \subseteq made BY DEF Trail, HooksSent, MadeFor
    <2>2. IsFiniteSet(M) BY <2>1, FS_Subset
    <2>3. QED BY <2>2, TransferAmount DEF TypeOK, Payment, MadeFor, SplitReceipt, Handled
  <1>2. PaidTowards(o, made) = SumFunctionOnSet(Amount, M)
    BY DEF PaidTowards, MadeFor
  <1>3. PaidTowards(o, wallet) = 0
    <2>1. {u \in wallet : OrderOf[u] = o} = {}
      BY DEF Trail, HooksSent, MadeFor, Supplements
    <2>2. QED BY <2>1, SumNone DEF PaidTowards
  <1>4. CASE M = {}
    <2>1. paid = 0 BY <1>1, <1>4 DEF SplitReceipt
    <2>2. QED BY <1>1, <1>2, <1>3, <1>4, <2>1, SumNone DEF Accounted
  <1>5. CASE M # {}
    <2>1. paid > 0
      BY <1>1, <1>5 DEF Supplements
    <2>2. PICK m \in M : First(o, m) BY <2>1 DEF SplitReceipt
    <2>3. paid = Amount[m] BY <2>2 DEF First
    <2>4. Extra[m] = 0
      <3>1. extras[m] = 0 BY <1>1, <2>2, <2>3 DEF Supplements
      <3>2. QED BY <1>1, <3>1 DEF Extra
    <2>5. \A t \in M \ {m} : Extra[t] = Amount[t]
      <3> SUFFICES ASSUME NEW t \in M \ {m} PROVE Extra[t] = Amount[t]
        OBVIOUS
      <3>1. Amount[t] # paid BY <2>2, <2>3 DEF Split
      <3>2. extras[t] = 1 BY <3>1 DEF Supplements
      <3>3. QED BY <1>1, <3>2 DEF Extra
    <2>6. \A t \in M : Extra[t] \in Nat
      BY <1>1, <2>4, <2>5
    <2>7. IsFiniteSet(M \ {m}) BY <1>1, FS_Subset
    <2> HIDE DEF M
    <2>8. SumFunctionOnSet(Extra, M) = Extra[m] + SumFunctionOnSet(Extra, M \ {m})
      BY <1>1, <2>2, <2>6, SumTakeOut
    <2>9. SumFunctionOnSet(Amount, M) = Amount[m] + SumFunctionOnSet(Amount, M \ {m})
      BY <1>1, <2>2, SumTakeOut
    <2>10. SumFunctionOnSet(Extra, M \ {m}) = SumFunctionOnSet(Amount, M \ {m})
      BY <2>5, <2>7, SumEqual
    <2>11. SumFunctionOnSet(Amount, M \ {m}) \in Nat
      BY <1>1, <2>7, SumType
    <2>12. Accounted(o) = paid + SumFunctionOnSet(Extra, M) + 0
      BY <1>1, <1>3 DEF Accounted, M
    <2>13. QED BY <1>1, <1>2, <2>3, <2>4, <2>8, <2>9, <2>10, <2>11, <2>12
  <1>6. QED BY <1>4, <1>5

\* A price that arrives in several transfers, each reported by SePay and some also by
\* PayOS, one after the other in any order, is credited to the last dong.
THEOREM SplitPaymentsAddUp == Spec => []SplitPaymentAddsUp
  <1>1. Init => SplitInv
    BY DEF Init, SplitInv, SplitReceipt, MadeFor, NoPayment
  <1>2. TypeOK /\ Trail /\ SplitInv /\ [Next]_vars => SplitInv'
    BY SplitReceiptStep, SupplementsStep DEF SplitInv
  <1>3. TypeOK /\ Trail /\ SplitInv => SplitPaymentAddsUp
    <2> SUFFICES ASSUME TypeOK, Trail, SplitInv, NEW o \in Orders, Undisturbed(o),
                        \A s \in Slots : slots[s].at = "idle",
                        \A t \in MadeFor(o) : passed[t] = 1,
                        \A t, u \in MadeFor(o) : Amount[t] = Amount[u] => t = u
                 PROVE  Accounted(o) = PaidTowards(o, made)
      BY DEF SplitPaymentAddsUp
    <2>1. Split(o) BY DEF Split
    <2>2. \A t \in MadeFor(o) : Handled(t) BY DEF Handled, Checked
    <2>3. QED BY <2>1, <2>2, SplitSum DEF SplitInv
  <1>4. QED BY <1>1, <1>2, <1>3, TrailKept, PTL DEF Spec
====
