---- MODULE SettlementProofs ----
(***************************************************************************)
(* Proofs about Settlement, for any donations, batches, attempts, nights    *)
(* and faults.                                                             *)
(*                                                                         *)
(* Kept collects what no single step checks: the outbox holds exactly what *)
(* the campaign received (Journal) and its settlement ended the campaign   *)
(* (Once); a listener announces what is still there (Tasked); a call in    *)
(* progress asks for something true and is answered with success only when *)
(* its row exists (Answered), for the event the processor is at (Handled)  *)
(* or the amount the nightly job read (Decided).  WellPaid adds what the   *)
(* rows of the fundraiser's wallet amount to.                              *)
(***************************************************************************)
EXTENDS Settlement, SumProofs

\* The wallet calls are those of Wallet, whose invariant is proved there.
P == INSTANCE WalletProofs

LEMMA WalletOk == P!WalletAssumption
  BY SettlementAssumption
  DEF P!WalletAssumption, Opening, Wallets, Requests, DonationCredit, SurplusCredit,
      PoolCredit, Credit

\* Every request is a credit of a known wallet.
LEMMA RequestFields ==
    ASSUME NEW r \in Requests
    PROVE  /\ r.op = "credit" /\ r.wallet \in Wallets /\ r.amount \in Nat \ {0}
           /\ W!Key(r) \in W!Keys /\ W!Key(r) = <<"credit", r.wallet, r.ref>>
           /\ W!Signed(r) = r.amount /\ P!Key(r) = W!Key(r)
           /\ P!Referenced(r) <=> r.ref # NoRef
  BY SettlementAssumption
  DEF Requests, DonationCredit, SurplusCredit, PoolCredit, Credit, Wallets, W!Key, W!Keys,
      W!Signed, P!Key, P!Referenced

\* The wallet invariant gives the types, and a reference that was never doubled has
\* one row, which no call past the check is going to repeat.
LEMMA WalletGives ==
    ASSUME P!WalletInv
    PROVE  /\ W!TypeOK
           /\ \A r \in Requests : r.ref # NoRef /\ W!Key(r) \notin doubled =>
                /\ posted[W!Key(r)] <= 1
                /\ \A c \in Calls : calls[c].at = "write" /\ W!Key(calls[c].req) = W!Key(r)
                                    => posted[W!Key(r)] = 0
  <1>1. W!TypeOK
    BY DEF P!WalletInv, P!TypeOK, W!TypeOK, P!InCall, W!InCall, P!NoCall, W!NoCall,
           P!Keys, W!Keys, P!Key, W!Key, P!BalanceAfter, W!BalanceAfter, P!Signed, W!Signed
  <1>2. ASSUME NEW r \in Requests, r.ref # NoRef, W!Key(r) \notin doubled
        PROVE  /\ posted[W!Key(r)] <= 1
               /\ \A c \in Calls : calls[c].at = "write" /\ W!Key(calls[c].req) = W!Key(r)
                                    => posted[W!Key(r)] = 0
    BY <1>2, RequestFields DEF P!WalletInv, P!CheckedIsNew, P!Checked, P!Key, W!Key
  <1> QED BY <1>1, <1>2

LEMMA WalletStarts == W!Init => P!WalletInv
  BY P!WalletInit, WalletOk DEF W!Init, P!Init, W!Keys, P!Keys, W!Key, P!Key, W!NoCall, P!NoCall

\* What the user service does with a call keeps the invariant.
LEMMA WalletGoesOn ==
    ASSUME P!WalletInv, NEW c \in Calls,
           W!Check(c) \/ W!ReadBalance(c) \/ W!Write(c) \/ W!DbError(c) \/ W!Reply(c)
    PROVE  P!WalletInv'
  <1>1. CASE W!Check(c)
    BY <1>1, P!CheckKeeps, WalletOk
    DEF W!Check, P!Check, W!Recorded, P!Recorded, W!Goto, P!Goto, W!PastCheck, P!PastCheck,
        W!Busy, P!Busy, W!Key, P!Key, W!table, P!table
  <1>2. CASE W!ReadBalance(c)
    BY <1>2, P!ReadKeeps, WalletOk
    DEF W!ReadBalance, P!ReadBalance, W!Covered, P!Covered, W!Goto, P!Goto, W!PastRead,
        P!PastRead, W!table, P!table
  <1>3. CASE W!Write(c)
    BY <1>3, P!WriteKeeps, WalletOk
    DEF W!Write, P!Write, W!BalanceAfter, P!BalanceAfter, W!Signed, P!Signed, W!Goto, P!Goto,
        W!Key, P!Key, W!history, P!history
  <1>4. CASE W!DbError(c)
    BY <1>4, P!EndKeeps, WalletOk
    DEF W!DbError, P!DbError, W!Goto, P!Goto, W!table, P!table, W!history, P!history
  <1>5. CASE W!Reply(c)
    BY <1>5, P!EndKeeps, WalletOk
    DEF W!Reply, P!Reply, W!NoCall, P!NoCall, W!table, P!table, W!history, P!history
  <1> QED BY <1>1, <1>2, <1>3, <1>4, <1>5

LEMMA WalletRestarts == P!WalletInv /\ W!Restart => P!WalletInv'
  BY P!EndKeeps, WalletOk
  DEF W!Restart, P!Restart, W!Busy, P!Busy, W!NoCall, P!NoCall, W!table, P!table, W!history,
      P!history

LEMMA WalletReceives ==
    ASSUME P!WalletInv, NEW c \in Calls, NEW r \in Requests, W!Receive(c, r)
    PROVE  P!WalletInv'
  BY P!ReceiveKeeps, WalletOk
  DEF W!Receive, P!Receive, W!Busy, P!Busy, W!FirstStep, P!FirstStep, W!table, P!table,
      W!history, P!history

LEMMA WalletRests == P!WalletInv /\ UNCHANGED wallet => P!WalletInv'
  BY P!WalletStep, WalletOk DEF wallet, P!vars, P!table, P!history

-----------------------------------------------------------------------------
(* What the steps of a call do.                                            *)

Working == {"check", "read", "write"}
Rows == <<balance, total, posted, count>>

\* A call ends, or goes on with its request; it is answered with success only when
\* its row is there.
GoesOn(c) ==
    \/ calls'[c].at = "idle"
    \/ /\ W!Busy(c) /\ calls'[c].req = calls[c].req
       /\ calls'[c].at \in Working => calls[c].at \in Working
       /\ calls'[c].at = "ok" => calls[c].at = "ok" \/ posted[W!Key(calls[c].req)] > 0

LEMMA CallFields ==
    ASSUME W!TypeOK, NEW c \in Calls
    PROVE  /\ calls[c].at \in Working \union {"idle", "ok", "failed"}
           /\ W!Busy(c) => calls[c] \in W!InCall /\ calls[c].req \in Requests
           /\ W!Busy(c) <=> calls[c].at # "idle"
  BY DEF W!TypeOK, W!Busy, W!NoCall, W!InCall, Working

\* A step that writes no row.
LEMMA QuietStep ==
    ASSUME W!TypeOK, NEW c \in Calls,
           W!Check(c) \/ W!ReadBalance(c) \/ W!DbError(c) \/ W!Reply(c)
    PROVE  UNCHANGED Rows /\ doubled \subseteq doubled' /\ \A d \in Calls : GoesOn(d)
  <1>0. /\ calls \in [Calls -> {W!NoCall} \union W!InCall] /\ W!NoCall.at = "idle"
        /\ \A d \in Calls : W!Busy(d) <=> calls[d].at # "idle"
    BY DEF W!TypeOK, W!NoCall, W!Busy
  <1>1. \A d \in Calls : calls'[d] = calls[d] => GoesOn(d)
    BY <1>0, CallFields DEF GoesOn
  <1>2. CASE W!Check(c)
    <2>1. /\ calls[c].at = "check" /\ calls[c] \in W!InCall
          /\ UNCHANGED Rows /\ doubled \subseteq doubled'
          /\ \/ W!Recorded(calls[c].req) /\ calls' = [calls EXCEPT ![c].at = "ok"]
             \/ calls' = [calls EXCEPT ![c].at = "failed"]
             \/ calls' = [calls EXCEPT ![c].at = "read"]
      BY <1>2, CallFields DEF W!Check, W!Goto, W!Busy, W!table, Rows
    <2>2. GoesOn(c)
      BY <1>0, <2>1 DEF GoesOn, W!InCall, W!Recorded, Working
    <2>3. \A d \in Calls \ {c} : calls'[d] = calls[d]
      BY <1>0, <2>1
    <2> QED BY <1>1, <2>1, <2>2, <2>3
  <1>3. CASE W!ReadBalance(c)
    <2>1. /\ calls[c].at = "read" /\ calls[c] \in W!InCall
          /\ UNCHANGED Rows /\ doubled' = doubled
          /\ \/ calls' = [calls EXCEPT ![c].at = "failed"]
             \/ \E n : calls' = [calls EXCEPT ![c] = [@ EXCEPT !.at = "write", !.read = n]]
      BY <1>3, CallFields DEF W!ReadBalance, W!Goto, W!Busy, W!table, Rows
    <2>2. calls'[c].req = calls[c].req /\ calls'[c].at \in {"failed", "write"}
      <3>1. ASSUME NEW n, calls' = [calls EXCEPT ![c] = [@ EXCEPT !.at = "write", !.read = n]]
            PROVE  calls'[c].req = calls[c].req /\ calls'[c].at = "write"
        <4>1. calls'[c] = [calls[c] EXCEPT !.at = "write", !.read = n]
          BY <1>0, <3>1
        <4> QED BY <2>1, <4>1 DEF W!InCall
      <3> QED BY <1>0, <2>1, <3>1 DEF W!InCall
    <2>3. GoesOn(c)
      BY <1>0, <2>1, <2>2 DEF GoesOn, Working
    <2>4. \A d \in Calls \ {c} : calls'[d] = calls[d]
      BY <1>0, <2>1
    <2> QED BY <1>1, <2>1, <2>3, <2>4
  <1>4. CASE W!DbError(c)
    <2>1. /\ calls[c].at \in Working /\ calls[c] \in W!InCall
          /\ UNCHANGED Rows /\ doubled' = doubled
          /\ calls' = [calls EXCEPT ![c].at = "failed"]
      BY <1>4, CallFields DEF W!DbError, W!Goto, W!Busy, W!table, W!history, Rows, Working
    <2>2. GoesOn(c)
      BY <1>0, <2>1 DEF GoesOn, W!InCall, Working
    <2>3. \A d \in Calls \ {c} : calls'[d] = calls[d]
      BY <1>0, <2>1
    <2> QED BY <1>1, <2>1, <2>2, <2>3
  <1>5. CASE W!Reply(c)
    <2>1. /\ UNCHANGED Rows /\ doubled' = doubled /\ calls' = [calls EXCEPT ![c] = W!NoCall]
      BY <1>5 DEF W!Reply, W!table, W!history, Rows
    <2>2. GoesOn(c)
      BY <1>0, <2>1 DEF GoesOn
    <2>3. \A d \in Calls \ {c} : calls'[d] = calls[d]
      BY <1>0, <2>1
    <2> QED BY <1>1, <2>1, <2>2, <2>3
  <1> QED BY <1>2, <1>3, <1>4, <1>5

\* A restart ends every call.
LEMMA RestartStep ==
    ASSUME W!Restart
    PROVE  UNCHANGED Rows /\ doubled' = doubled /\ \A d \in Calls : GoesOn(d)
  BY DEF W!Restart, W!NoCall, W!table, W!history, Rows, GoesOn

\* A row is written.
LEMMA WriteStep ==
    ASSUME W!TypeOK, NEW c \in Calls, W!Write(c)
    PROVE  LET r == calls[c].req IN
           /\ r \in Requests /\ calls[c].at = "write" /\ doubled' = doubled
           /\ total' = [total EXCEPT ![r.wallet] = @ + r.amount]
           /\ posted' = [posted EXCEPT ![W!Key(r)] = @ + 1]
           /\ \A k \in W!Keys : posted'[k] >= posted[k] /\ posted'[k] \in Nat
           /\ posted'[W!Key(r)] > 0
           /\ calls'[c].at = "ok" /\ calls'[c].req = r
           /\ \A d \in Calls \ {c} : calls'[d] = calls[d]
  <1> DEFINE r == calls[c].req
  <1>1. /\ r \in Requests /\ calls[c].at = "write" /\ calls[c] \in W!InCall
        /\ calls \in [Calls -> {W!NoCall} \union W!InCall] /\ posted \in [W!Keys -> Nat]
    BY CallFields DEF W!Write, W!Busy, W!TypeOK
  <1>2. /\ total' = [total EXCEPT ![r.wallet] = @ + W!Signed(r)]
        /\ posted' = [posted EXCEPT ![W!Key(r)] = @ + 1]
        /\ calls' = [calls EXCEPT ![c].at = "ok"]
        /\ doubled' = doubled
    BY DEF W!Write, W!Goto, W!history
  <1>3. W!Signed(r) = r.amount /\ W!Key(r) \in W!Keys
    BY <1>1, RequestFields
  <1>4. calls'[c].at = "ok" /\ calls'[c].req = r /\ \A d \in Calls \ {c} : calls'[d] = calls[d]
    BY <1>1, <1>2 DEF W!InCall
  <1> HIDE DEF r
  <1>5. \A k \in W!Keys : posted'[k] >= posted[k] /\ posted'[k] \in Nat
    BY <1>1, <1>2, <1>3
  <1>6. posted'[W!Key(r)] > 0
    BY <1>1, <1>2, <1>3
  <1>7. total' = [total EXCEPT ![r.wallet] = @ + r.amount]
    BY <1>2, <1>3
  <1> USE DEF r
  <1> QED BY <1>1, <1>2, <1>3, <1>4, <1>5, <1>6, <1>7

\* A call is received.
LEMMA ReceiveStep ==
    ASSUME W!TypeOK, NEW c \in Calls, NEW r \in Requests, W!Receive(c, r)
    PROVE  /\ UNCHANGED Rows /\ doubled' = doubled
           /\ calls[c].at = "idle" /\ calls'[c].at = "check" /\ calls'[c].req = r
           /\ \A d \in Calls \ {c} : calls'[d] = calls[d]
  BY RequestFields DEF W!Receive, W!Busy, W!FirstStep, W!table, W!history, W!TypeOK, Rows

-----------------------------------------------------------------------------
(* Which actions change which variables.                                   *)

LEMMA DbSteps ==
    [Next]_vars =>
      \/ UNCHANGED db
      \/ \E d \in Donations : DonationSucceeds(d)
      \/ MarkProcessing \/ Complete \/ IncrementRetryCount
      \/ \E t \in tasks : SettleCommit(t)
      \/ NightWrite
  BY Zenon
  DEF Next, Process, Settle, Nightly, Grpc, Poll, FindPayment, Credited, CreditFailed,
      WorkerError, LogError, SettleRead, SettleError, NightRead, NightDecide, NightPooled,
      NightError, GrpcSend, GrpcAnswer, GrpcBroken, GrpcDeadline, Serve, ServeError, Crash,
      vars

LEMMA WorkerSteps ==
    [Next]_vars => UNCHANGED worker \/ Process \/ WorkerError \/ LogError \/ Crash
  BY Zenon
  DEF Next, Settle, Nightly, Grpc, DonationSucceeds, SettleRead, SettleCommit, SettleError,
      NightRead, NightDecide, NightPooled, NightWrite, NightError, GrpcSend, GrpcAnswer,
      GrpcBroken, GrpcDeadline, Serve, ServeError, vars

LEMMA TaskSteps ==
    [Next]_vars =>
      \/ UNCHANGED tasks \/ Credited \/ Crash
      \/ \E t \in tasks : SettleRead(t) \/ SettleCommit(t) \/ SettleError(t)
  BY Zenon
  DEF Next, Process, Settle, Nightly, Grpc, DonationSucceeds, Poll, MarkProcessing,
      FindPayment, CreditFailed, Complete, IncrementRetryCount, WorkerError, LogError,
      NightRead, NightDecide, NightPooled, NightWrite, NightError, GrpcSend, GrpcAnswer,
      GrpcBroken, GrpcDeadline, Serve, ServeError, vars

LEMMA NightSteps ==
    [Next]_vars => UNCHANGED night \/ Nightly \/ NightError \/ Crash
  BY Zenon
  DEF Next, Process, Settle, Grpc, DonationSucceeds, Poll, MarkProcessing, FindPayment,
      Credited, CreditFailed, Complete, IncrementRetryCount, WorkerError, LogError, SettleRead,
      SettleCommit, SettleError, GrpcSend, GrpcAnswer, GrpcBroken, GrpcDeadline, Serve,
      ServeError, vars

LEMMA RpcSteps ==
    [Next]_vars =>
      \/ UNCHANGED rpc
      \/ MarkProcessing \/ FindPayment \/ Credited \/ CreditFailed
      \/ NightDecide \/ NightPooled
      \/ \E k \in Clients : Grpc(k) \/ GrpcDeadline(k)
      \/ Crash
  BY Zenon
  DEF Next, Process, Settle, Nightly, DonationSucceeds, Poll, Complete, IncrementRetryCount,
      WorkerError, LogError, SettleRead, SettleCommit, SettleError, NightRead, NightWrite,
      NightError, Serve, ServeError, vars

LEMMA WalletSteps ==
    [Next]_vars =>
      \/ UNCHANGED wallet
      \/ \E k \in Clients : GrpcSend(k) \/ GrpcAnswer(k)
      \/ \E c \in Calls : Serve(c)
      \/ ServeError
  BY Zenon
  DEF Next, Process, Settle, Nightly, Grpc, DonationSucceeds, Poll, MarkProcessing,
      FindPayment, Credited, CreditFailed, Complete, IncrementRetryCount, WorkerError,
      LogError, SettleRead, SettleCommit, SettleError, NightRead, NightDecide, NightPooled,
      NightWrite, NightError, GrpcBroken, GrpcDeadline, Crash, vars

LEMMA SentSteps ==
    [Next]_vars => UNCHANGED sent \/ \E k \in Clients : GrpcSend(k)
  BY Zenon
  DEF Next, Process, Settle, Nightly, Grpc, DonationSucceeds, Poll, MarkProcessing,
      FindPayment, Credited, CreditFailed, Complete, IncrementRetryCount, WorkerError,
      LogError, SettleRead, SettleCommit, SettleError, NightRead, NightDecide, NightPooled,
      NightWrite, NightError, GrpcAnswer, GrpcBroken, GrpcDeadline, Serve, ServeError, Crash,
      vars

LEMMA FaultSteps ==
    [Next]_vars => UNCHANGED faults \/ \E k \in FaultKinds : Fault(k)
  BY Zenon
  DEF Next, Process, Settle, Nightly, Grpc, DonationSucceeds, Poll, MarkProcessing,
      FindPayment, Credited, CreditFailed, Complete, IncrementRetryCount, WorkerError,
      LogError, SettleRead, SettleCommit, SettleError, NightRead, NightDecide, NightPooled,
      NightWrite, NightError, GrpcSend, GrpcAnswer, GrpcBroken, GrpcDeadline, Serve,
      ServeError, Crash, vars, FaultKinds

-----------------------------------------------------------------------------
(* The outbox: events are appended, and keep what they are about.          *)

\* A set of events has an oldest one.
LEMMA OldestOf ==
    ASSUME TypeOK, NEW T \in SUBSET DOMAIN events, T # {}
    PROVE  \E x \in T : \A y \in T : x <= y
  <1> DEFINE S == 1 .. Len(events)
             B == {U \in SUBSET S : \E x \in T : U = 1 .. x}
  <1>1. T \in SUBSET S /\ DOMAIN events = S /\ Len(events) \in Nat
    BY DEF TypeOK
  <1>2. PICK z \in T : z \in S /\ 1 .. z \in SUBSET S
    BY <1>1
  <1>3. B # {} /\ IsFiniteSet(S) /\ B \in SUBSET (SUBSET S)
    <2>1. IsFiniteSet(S)
      BY <1>1, FS_Interval
    <2>2. 1 .. z \in B
      BY <1>2
    <2> QED BY <2>1, <2>2
  <1>4. PICK R \in B : \A U \in B : U \subseteq R => U = R
    <2> HIDE DEF B, S
    <2> QED BY <1>3, SmallestSet
  <1>5. PICK x \in T : R = 1 .. x
    OBVIOUS
  <1>6. ASSUME NEW y \in T PROVE x <= y
    <2>1. x \in Nat /\ y \in Nat /\ x >= 1 /\ y >= 1 /\ y <= Len(events)
      BY <1>1
    <2>2. 1 .. y \in B
      BY <1>1, <2>1
    <2>3. y < x => 1 .. y \subseteq 1 .. x /\ x \notin 1 .. y /\ x \in 1 .. x
      BY <2>1
    <2>4. 1 .. y \subseteq 1 .. x => 1 .. y = 1 .. x
      BY <1>4, <1>5, <2>2
    <2>5. ~(y < x)
      BY <2>3, <2>4
    <2> QED BY <2>1, <2>5
  <1> QED BY <1>6

\* The event being handled is the first of the batch.
LEMMA CurrentIn ==
    ASSUME TypeOK, worker.batch # {}
    PROVE  Current \in worker.batch /\ Current \in DOMAIN events
  <1>1. worker.batch \in SUBSET DOMAIN events
    BY DEF TypeOK
  <1>2. Current \in worker.batch
    BY <1>1, OldestOf DEF Current, Min
  <1> QED BY <1>1, <1>2

\* When events are pending, a batch is not empty.
LEMMA BatchIsSome ==
    ASSUME TypeOK, Pending # {}
    PROVE  Oldest(BatchSize) # {} /\ Oldest(BatchSize) \subseteq DOMAIN events
  <1>1. Pending \in SUBSET DOMAIN events /\ DOMAIN events \subseteq Nat
    BY DEF Pending, TypeOK
  <1>2. PICK x \in Pending : \A y \in Pending : x <= y
    BY <1>1, OldestOf
  <1>3. {k \in Pending : k < x} = {}
    BY <1>1, <1>2
  <1>4. Cardinality({k \in Pending : k < x}) < BatchSize
    BY <1>3, FS_EmptySet, SettlementAssumption
  <1>5. x \in Oldest(BatchSize)
    BY <1>4 DEF Oldest
  <1> QED BY <1>1, <1>5 DEF Oldest

LEMMA EventFields ==
    ASSUME TypeOK, NEW i \in DOMAIN events
    PROVE  /\ events[i] \in Events /\ events[i].kind \in {"donation", "settled"}
           /\ events[i].ref \in Donations \union {Settled}
           /\ events[i].amount \in Nat /\ events[i].amount > 0
           /\ events[i].status \in {"PENDING", "PROCESSING", "COMPLETED"}
  <1>1. events[i] \in Events
    BY DEF TypeOK
  <1> QED BY <1>1 DEF Events

\* The same events, with another status or failure mark.
Marked ==
    /\ campaign' = campaign /\ events' \in Seq(Events) /\ DOMAIN events' = DOMAIN events
    /\ \A i \in DOMAIN events :
         /\ events'[i].kind = events[i].kind /\ events'[i].ref = events[i].ref
         /\ events'[i].amount = events[i].amount

LEMMA MarkEvent ==
    ASSUME TypeOK, NEW i \in DOMAIN events, campaign' = campaign,
           NEW s \in {"PENDING", "PROCESSING", "COMPLETED"},
           \/ events' = [events EXCEPT ![i].status = s]
           \/ events' = [events EXCEPT ![i].failed = TRUE]
    PROVE  /\ Marked
           /\ \A j \in DOMAIN events \ {i} : events'[j] = events[j]
           /\ events'[i].status \in {s, events[i].status}
  <1> DEFINE new == events'[i]
  <1>1. events[i] \in Events /\ events \in Seq(Events)
    BY DEF TypeOK
  <1>2. /\ new \in Events /\ new.kind = events[i].kind /\ new.ref = events[i].ref
        /\ new.amount = events[i].amount /\ events' = [events EXCEPT ![i] = new]
        /\ new.status \in {s, events[i].status}
    <2>1. CASE events' = [events EXCEPT ![i].status = s]
      <3>1. new = [events[i] EXCEPT !.status = s] /\ events' = [events EXCEPT ![i] = new]
        BY <2>1, <1>1
      <3> HIDE DEF new
      <3> QED BY <1>1, <3>1 DEF Events
    <2>2. CASE events' = [events EXCEPT ![i].failed = TRUE]
      <3>1. new = [events[i] EXCEPT !.failed = TRUE] /\ events' = [events EXCEPT ![i] = new]
        BY <2>2, <1>1
      <3> HIDE DEF new
      <3> QED BY <1>1, <3>1 DEF Events
    <2> QED BY <2>1, <2>2
  <1> HIDE DEF new
  <1>3. events' \in Seq(Events) /\ DOMAIN events' = DOMAIN events
    BY <1>1, <1>2
  <1>4. \A j \in DOMAIN events \ {i} : events'[j] = events[j]
    BY <1>1, <1>2
  <1> QED BY <1>2, <1>3, <1>4 DEF Marked, new

\* A new event is the last one.
Added(e) ==
    /\ events' \in Seq(Events) /\ DOMAIN events' = DOMAIN events \union {Len(events) + 1}
    /\ Len(events) + 1 \notin DOMAIN events /\ events'[Len(events) + 1] = e
    /\ \A i \in DOMAIN events : events'[i] = events[i]

LEMMA AddEvent ==
    ASSUME TypeOK, NEW e \in Events, events' = Append(events, e)
    PROVE  Added(e)
  <1>1. events \in Seq(Events)
    BY DEF TypeOK
  <1> QED BY <1>1 DEF Added

\* Whatever changes the database, it is one of these.
Given == {d \in Donations : \E i \in DOMAIN events : events[i].ref = d}

Donated(d) ==
    /\ d \notin Given /\ Added(Event("donation", d, Amount[d]))
    /\ campaign' = [campaign EXCEPT !.received = @ + Amount[d]]

Settles(t) ==
    /\ t.at = "settle" /\ StillActive /\ Added(Event("settled", Settled, t.surplus))
    /\ campaign' = [campaign EXCEPT !.status = "PROCESSING"]

Tasked == \A t \in tasks :
    t.at = "settle" => t.surplus > 0 /\ t.surplus + Target <= campaign.received

LEMMA DbChanges ==
    ASSUME TypeOK, Tasked, [Next]_vars
    PROVE  \/ Marked
           \/ \E d \in Donations : Donated(d)
           \/ \E t \in tasks : Settles(t)
           \/ NightWrite
  <1>1. CASE UNCHANGED db
    BY <1>1 DEF db, Marked, TypeOK
  <1>2. ASSUME NEW d \in Donations, DonationSucceeds(d) PROVE Donated(d)
    <2>1. Event("donation", d, Amount[d]) \in Events
      BY SettlementAssumption DEF Event, Events
    <2>2. d \notin Given
      BY <1>2 DEF DonationSucceeds, Given
    <2> QED BY <1>2, <2>1, <2>2, AddEvent DEF DonationSucceeds, Donated
  <1>3. ASSUME MarkProcessing \/ Complete \/ IncrementRetryCount PROVE Marked
    <2>1. Current \in DOMAIN events
      <3>1. worker.batch # {}
        BY <1>3 DEF TypeOK, MarkProcessing, Complete, IncrementRetryCount
      <3> QED BY <3>1, CurrentIn
    <2> QED BY <1>3, <2>1, MarkEvent DEF MarkProcessing, Complete, IncrementRetryCount
  <1>4. ASSUME NEW t \in tasks, SettleCommit(t) PROVE Settles(t) \/ Marked
    <2>1. CASE UNCHANGED db
      BY <2>1 DEF db, Marked, TypeOK
    <2>2. CASE ~UNCHANGED db
      <3>1. Event("settled", Settled, t.surplus) \in Events
        <4>1. t.surplus \in Nat \ {0}
          BY <1>4 DEF Tasked, TypeOK, SettleCommit
        <4> QED BY <4>1 DEF Event, Events
      <3> QED BY <1>4, <2>2, <3>1, AddEvent DEF SettleCommit, Settles
    <2> QED BY <2>1, <2>2
  <1> QED BY <1>1, <1>2, <1>3, <1>4, DbSteps

\* The campaign only gains money, the outbox only events.
Grows ==
    /\ campaign'.received >= campaign.received /\ campaign' \in Campaigns
    /\ events' \in Seq(Events) /\ DOMAIN events \subseteq DOMAIN events'
    /\ \A i \in DOMAIN events :
         /\ events'[i].kind = events[i].kind /\ events'[i].ref = events[i].ref
         /\ events'[i].amount = events[i].amount

LEMMA DbGrows ==
    ASSUME TypeOK, Tasked, [Next]_vars
    PROVE  Grows
  <1>0. /\ campaign \in Campaigns /\ campaign.received \in Nat /\ campaign.status \in Statuses
        /\ events \in Seq(Events)
    BY DEF TypeOK, Campaigns
  <1>1. CASE Marked
    BY <1>0, <1>1 DEF Marked, Grows
  <1>2. ASSUME NEW d \in Donations, Donated(d) PROVE Grows
    <2>1. Amount[d] \in Nat
      BY SettlementAssumption
    <2>2. campaign' = [campaign EXCEPT !.received = campaign.received + Amount[d]]
      BY <1>2 DEF Donated
    <2>3. campaign' \in Campaigns /\ campaign'.received >= campaign.received
      BY <1>0, <2>1, <2>2 DEF Campaigns
    <2> QED BY <1>2, <2>3 DEF Donated, Added, Grows
  <1>3. ASSUME NEW t \in tasks, Settles(t) PROVE Grows
    <2>1. campaign' \in Campaigns /\ campaign'.received = campaign.received
      BY <1>0, <1>3 DEF Settles, Campaigns, Statuses
    <2> QED BY <1>0, <1>3, <2>1 DEF Settles, Added, Grows
  <1>4. CASE NightWrite
    <2>1. night.job.next \in Statuses
      BY DEF TypeOK, Jobs
    <2>2. campaign' \in Campaigns /\ campaign'.received = campaign.received
      BY <1>0, <1>4, <2>1 DEF NightWrite, Campaigns
    <2> QED BY <1>0, <1>4, <2>2 DEF NightWrite, Grows
  <1> QED BY <1>1, <1>2, <1>3, <1>4, DbChanges

-----------------------------------------------------------------------------
(* The outbox holds what the campaign has received, and one surplus at most. *)

EventTrue(i) ==
    \/ /\ events[i].kind = "donation" /\ events[i].ref \in Donations
       /\ events[i].amount = Amount[events[i].ref]
    \/ /\ events[i].kind = "settled" /\ events[i].ref = Settled
       /\ events[i].amount + Target <= campaign.received

Journal ==
    /\ \A i \in DOMAIN events : EventTrue(i)
    /\ campaign.received = SumFunctionOnSet(Amount, Given)

\* After the campaign is settled, nothing makes it active again.
Once ==
    /\ \A i \in DOMAIN events : events[i].kind = "settled" => campaign.status # "ACTIVE"
    /\ \A i, j \in DOMAIN events :
         events[i].kind = "settled" /\ events[j].kind = "settled" => i = j
    /\ night.job.step \in {"pool", "write"} => night.job.next # "ACTIVE"

\* What was received is at most all the donations.
LEMMA ReceivedAtMost ==
    ASSUME Journal PROVE campaign.received <= Most
  <1>1. Given \in SUBSET Donations
    BY DEF Given
  <1>2. IsFiniteSet(Donations) /\ \A d \in Donations : Amount[d] \in Nat
    BY SettlementAssumption
  <1>3. SumFunctionOnSet(Amount, Given) <= SumFunctionOnSet(Amount, Donations)
    BY <1>1, <1>2, SumMonotone
  <1> QED BY <1>3 DEF Journal, Most

LEMMA EventStays ==
    ASSUME TypeOK, Grows, NEW i \in DOMAIN events, EventTrue(i)
    PROVE  EventTrue(i)'
  <1>1. /\ campaign.received \in Nat /\ campaign'.received \in Nat
        /\ campaign'.received >= campaign.received
        /\ events[i].amount \in Nat /\ Target \in Nat
    BY EventFields, SettlementAssumption DEF TypeOK, Grows, Campaigns
  <1> QED BY <1>1 DEF Grows, EventTrue

LEMMA NextJournal ==
    ASSUME TypeOK, Tasked, Journal, [Next]_vars
    PROVE  Journal'
  <1>1. Grows
    BY DbGrows
  <1>2. \A i \in DOMAIN events : EventTrue(i)'
    BY <1>1, EventStays DEF Journal
  <1>3. CASE Marked \/ NightWrite
    <2>1. /\ campaign'.received = campaign.received /\ DOMAIN events' = DOMAIN events
          /\ \A i \in DOMAIN events : events'[i].ref = events[i].ref
      BY <1>3 DEF Marked, NightWrite, TypeOK, Campaigns
    <2>2. Given' = Given
      BY <2>1 DEF Given
    <2> QED BY <1>2, <2>1, <2>2 DEF Journal
  <1>4. ASSUME NEW d \in Donations, Donated(d) PROVE Journal'
    <2>0. PICK n : n = Len(events) + 1
      OBVIOUS
    <2>1. /\ DOMAIN events' = DOMAIN events \union {n} /\ d \notin Given
          /\ events'[n] = Event("donation", d, Amount[d])
          /\ \A i \in DOMAIN events : events'[i] = events[i]
      BY <1>4, <2>0 DEF Donated, Added
    <2>2. EventTrue(n)'
      BY <2>1 DEF EventTrue, Event
    <2>3. Given' = Given \union {d}
      <3>1. \A c \in Donations : c \in Given' <=> \E i \in DOMAIN events' : events'[i].ref = c
        BY DEF Given
      <3>2. events'[n].ref = d
        BY <2>1 DEF Event
      <3>3. \A c \in Donations : c \in Given' <=> c \in Given \/ c = d
        BY <2>1, <3>1, <3>2 DEF Given
      <3> QED BY <3>3 DEF Given
    <2>4. Given \in SUBSET Donations /\ IsFiniteSet(Given)
      BY FS_Subset, SettlementAssumption DEF Given
    <2>5. SumFunctionOnSet(Amount, Given \union {d}) = Amount[d] + SumFunctionOnSet(Amount, Given)
      BY <2>1, <2>4, SumAdd, SettlementAssumption
    <2>6. campaign'.received = campaign.received + Amount[d]
      BY <1>4 DEF Donated, TypeOK, Campaigns
    <2>7. Amount[d] \in Nat /\ campaign.received \in Nat
      BY SettlementAssumption DEF TypeOK, Campaigns
    <2>8. campaign'.received = SumFunctionOnSet(Amount, Given')
      BY <2>3, <2>5, <2>6, <2>7 DEF Journal
    <2> QED BY <1>2, <2>1, <2>2, <2>8 DEF Journal
  <1>5. ASSUME NEW t \in tasks, Settles(t) PROVE Journal'
    <2>0. PICK n : n = Len(events) + 1
      OBVIOUS
    <2>1. /\ DOMAIN events' = DOMAIN events \union {n}
          /\ events'[n] = Event("settled", Settled, t.surplus)
          /\ \A i \in DOMAIN events : events'[i] = events[i]
          /\ campaign'.received = campaign.received
      BY <1>5, <2>0 DEF Settles, Added, TypeOK, Campaigns
    <2>2. EventTrue(n)'
      BY <1>5, <2>1 DEF EventTrue, Event, Settles, Tasked
    <2>3. Given' = Given
      <3>1. events'[n].ref \notin Donations
        BY <2>1, SettlementAssumption DEF Event
      <3> QED BY <2>1, <3>1 DEF Given
    <2> QED BY <1>2, <2>1, <2>2, <2>3 DEF Journal
  <1> QED BY <1>3, <1>4, <1>5, DbChanges

\* The nightly job writes only what it decided.
LEMMA NightFields ==
    ASSUME TypeOK
    PROVE  /\ night.job \in Jobs /\ night \in [job: Jobs, runs: 0 .. MaxNights]
           /\ night.job.received \in Nat
           /\ night.job.step \in {"idle", "decide", "pool", "write"}
  BY DEF TypeOK, Jobs

\* What each step of the nightly job does to it.
LEMMA ReadNight ==
    ASSUME TypeOK, NightRead
    PROVE  night'.job = [step |-> "decide", received |-> campaign.received, next |-> "ACTIVE"]
  BY DEF NightRead

LEMMA DecideNight ==
    ASSUME TypeOK, NightDecide
    PROVE  /\ night'.job.received = night.job.received
           /\ night'.job.next \in {"PROCESSING", "ENDED"}
           /\ night'.job.step \in {"pool", "write"} /\ night' \in [job: Jobs, runs: 0 .. MaxNights]
           /\ night'.job.step = "pool"
                <=> night.job.received > 0 /\ 2 * night.job.received < Target
  <1> DEFINE n == night.job.received
             step == IF ~Funded(n) /\ n > 0 THEN "pool" ELSE "write"
             next == IF Funded(n) THEN "PROCESSING" ELSE "ENDED"
  <1>1. /\ night' = [night EXCEPT !.job.next = next, !.job.step = step]
        /\ step \in {"pool", "write"} /\ next \in {"PROCESSING", "ENDED"}
    BY DEF NightDecide
  <1>2. step = "pool" <=> n > 0 /\ 2 * n < Target
    BY NightFields, SettlementAssumption DEF Funded
  <1> HIDE DEF step, next
  <1>3. /\ night'.job.received = n /\ night'.job.next = next /\ night'.job.step = step
        /\ night' \in [job: Jobs, runs: 0 .. MaxNights]
    BY <1>1, NightFields DEF Jobs, Statuses
  <1> QED BY <1>1, <1>2, <1>3

LEMMA WriteNight ==
    ASSUME TypeOK, JobWrites
    PROVE  /\ night'.job.received = night.job.received /\ night'.job.next = night.job.next
           /\ night'.job.step = "write" /\ night' \in [job: Jobs, runs: 0 .. MaxNights]
  BY NightFields DEF JobWrites, Jobs

LEMMA EndNight ==
    ASSUME TypeOK, night' = [night EXCEPT !.job = NoJob]
    PROVE  /\ night'.job = NoJob /\ night' \in [job: Jobs, runs: 0 .. MaxNights]
           /\ night'.job.step = "idle" /\ night'.job.received = 0
  BY NightFields DEF NoJob, Jobs, Statuses

\* Cases of a step of the nightly job.
LEMMA NightCases ==
    ASSUME TypeOK, [Next]_vars
    PROVE  \/ UNCHANGED night \/ NightRead \/ NightDecide
           \/ NightPooled /\ rpc["scheduler"].at = "ok" /\ JobWrites
           \/ night' = [night EXCEPT !.job = NoJob]
  BY NightSteps DEF Nightly, NightPooled, NightWrite, NightError, JobEnds, Crash

LEMMA NextOnce ==
    ASSUME TypeOK, Tasked, Once, [Next]_vars
    PROVE  Once'
  <1>1. night'.job.step \in {"pool", "write"} => night'.job.next # "ACTIVE"
    <2>1. CASE UNCHANGED night
      BY <2>1 DEF Once
    <2>2. CASE NightRead
      BY <2>2, ReadNight
    <2>3. CASE NightDecide
      BY <2>3, DecideNight
    <2>4. CASE NightPooled /\ JobWrites
      BY <2>4, WriteNight DEF NightPooled, Once
    <2>5. CASE night' = [night EXCEPT !.job = NoJob]
      BY <2>5, EndNight
    <2> QED BY <2>1, <2>2, <2>3, <2>4, <2>5, NightCases
  <1>2. CASE Marked
    BY <1>1, <1>2 DEF Marked, Once
  <1>3. ASSUME NEW d \in Donations, Donated(d) PROVE Once'
    <2>0. PICK n : n = Len(events) + 1
      OBVIOUS
    <2>1. /\ DOMAIN events' = DOMAIN events \union {n} /\ events'[n].kind = "donation"
          /\ \A i \in DOMAIN events : events'[i] = events[i]
          /\ campaign'.status = campaign.status
      BY <1>3, <2>0 DEF Donated, Added, Event, TypeOK, Campaigns
    <2> QED BY <1>1, <2>1 DEF Once
  <1>4. ASSUME NEW t \in tasks, Settles(t) PROVE Once'
    <2>0. PICK n : n = Len(events) + 1
      OBVIOUS
    <2>1. /\ DOMAIN events' = DOMAIN events \union {n}
          /\ \A i \in DOMAIN events : events'[i] = events[i]
          /\ campaign.status = "ACTIVE" /\ campaign'.status = "PROCESSING"
      BY <1>4, <2>0 DEF Settles, Added, Event, TypeOK, Campaigns, StillActive
    <2>2. \A i \in DOMAIN events : events[i].kind # "settled"
      BY <2>1 DEF Once
    <2> QED BY <1>1, <2>1, <2>2 DEF Once
  <1>5. CASE NightWrite
    <2>1. campaign'.status = night.job.next /\ events' = events /\ night.job.step = "write"
      BY <1>5 DEF NightWrite, TypeOK, Campaigns
    <2> QED BY <1>1, <2>1 DEF Once
  <1> QED BY <1>2, <1>3, <1>4, <1>5, DbChanges

LEMMA OnceIsOnce == TypeOK /\ Once => SettledOnce
  <1> SUFFICES ASSUME TypeOK, Once PROVE SettledOnce
    OBVIOUS
  <1> DEFINE S == {i \in DOMAIN events : events[i].kind = "settled"}
  <1>1. CASE S = {}
    BY <1>1, FS_EmptySet DEF SettledOnce
  <1>2. CASE S # {}
    <2>1. PICK i \in S : TRUE
      BY <1>2
    <2>2. S = {i}
      BY <2>1 DEF Once
    <2> HIDE DEF S
    <2>3. Cardinality(S) <= 1
      BY <2>2, FS_Singleton
    <2> USE DEF S
    <2> QED BY <2>3 DEF SettledOnce
  <1> QED BY <1>1, <1>2

-----------------------------------------------------------------------------
(* The surplus listeners.                                                  *)

LEMMA NextTasked ==
    ASSUME TypeOK, Tasked, [Next]_vars
    PROVE  Tasked' /\ tasks' \subseteq [event: DOMAIN events', at: {"read", "settle"}, surplus: Nat]
  <1>0. /\ Grows /\ tasks \subseteq [event: DOMAIN events, at: {"read", "settle"}, surplus: Nat]
        /\ campaign.received \in Nat /\ campaign'.received \in Nat
        /\ campaign'.received >= campaign.received /\ Target \in Nat
        /\ DOMAIN events \subseteq DOMAIN events'
    BY DbGrows, SettlementAssumption DEF TypeOK, Grows, Campaigns
  <1>1. ASSUME tasks' \subseteq tasks
        PROVE  Tasked' /\ tasks' \subseteq [event: DOMAIN events', at: {"read", "settle"}, surplus: Nat]
    <2>1. tasks' \subseteq [event: DOMAIN events', at: {"read", "settle"}, surplus: Nat]
      BY <1>0, <1>1
    <2>2. \A t \in tasks : t.surplus \in Nat
      BY <1>0
    <2> QED BY <1>0, <1>1, <2>1, <2>2 DEF Tasked
  <1>2. ASSUME NEW t, tasks' \subseteq tasks \union {t},
               t \in [event: DOMAIN events, at: {"read", "settle"}, surplus: Nat],
               t.at = "settle" => t.surplus > 0 /\ t.surplus + Target <= campaign.received
        PROVE  Tasked' /\ tasks' \subseteq [event: DOMAIN events', at: {"read", "settle"}, surplus: Nat]
    <2>1. tasks' \subseteq [event: DOMAIN events', at: {"read", "settle"}, surplus: Nat]
      BY <1>0, <1>2
    <2>2. t.surplus \in Nat /\ \A u \in tasks : u.surplus \in Nat
      BY <1>0, <1>2
    <2> QED BY <1>0, <1>2, <2>1, <2>2 DEF Tasked
  <1>3. CASE Credited
    <2> DEFINE t == [event |-> Current, at |-> "read", surplus |-> 0]
    <2>1. worker.batch # {}
      BY <1>3 DEF Credited, TypeOK
    <2>2. Current \in DOMAIN events
      BY <2>1, CurrentIn
    <2>3. tasks' \subseteq tasks \union {t}
      BY <1>3 DEF Credited, DetectSurplus
    <2>4. t \in [event: DOMAIN events, at: {"read", "settle"}, surplus: Nat] /\ t.at = "read"
      BY <2>2
    <2> HIDE DEF t
    <2> QED BY <1>2, <2>3, <2>4
  <1>4. ASSUME NEW t \in tasks, SettleRead(t)
        PROVE  Tasked' /\ tasks' \subseteq [event: DOMAIN events', at: {"read", "settle"}, surplus: Nat]
    <2> DEFINE u == [t EXCEPT !.at = "settle", !.surplus = Surplus(campaign)]
    <2>1. CASE Overfunded(campaign)
      <3>1. tasks' \subseteq tasks \union {u}
        BY <1>4, <2>1 DEF SettleRead
      <3>2. Surplus(campaign) \in Nat \ {0} /\ Surplus(campaign) + Target <= campaign.received
        BY <1>0, <2>1 DEF Overfunded, Surplus
      <3>3. /\ u \in [event: DOMAIN events, at: {"read", "settle"}, surplus: Nat]
            /\ u.surplus = Surplus(campaign)
        BY <1>0, <3>2
      <3> HIDE DEF u
      <3> QED BY <1>2, <3>1, <3>2, <3>3
    <2>2. CASE ~Overfunded(campaign)
      BY <1>1, <1>4, <2>2 DEF SettleRead
    <2> QED BY <2>1, <2>2
  <1> QED BY <1>1, <1>3, <1>4, TaskSteps DEF SettleCommit, SettleError, Crash

-----------------------------------------------------------------------------
(* The processor.                                                          *)

Workers == [step: {"idle", "mark", "find", "credit", "complete", "log"},
            batch: SUBSET DOMAIN events, seen: Campaigns]

\* What event i asks of the user service.
About(i) == IF events[i].kind = "donation" THEN DonationCredit(events[i].ref)
            ELSE SurplusCredit(events[i].amount)

LEMMA WorkerFields ==
    ASSUME TypeOK
    PROVE  /\ worker \in Workers /\ (worker.step = "idle" <=> worker.batch = {})
           /\ worker.batch \in SUBSET DOMAIN events /\ worker.seen \in Campaigns
           /\ Idle \in Workers /\ Idle.step = "idle" /\ Idle.batch = {} /\ Idle.seen \in Campaigns
           /\ worker.step # "idle" => Current \in worker.batch /\ Current \in DOMAIN events
  <1>1. /\ worker \in Workers /\ (worker.step = "idle" <=> worker.batch = {})
        /\ worker.batch \in SUBSET DOMAIN events /\ worker.seen \in Campaigns
    BY DEF TypeOK, Workers
  <1>2. /\ Idle \in Workers /\ Idle.step = "idle" /\ Idle.batch = {} /\ Idle.seen \in Campaigns
    BY DEF Idle, Workers, Campaigns, Statuses
  <1> QED BY <1>1, <1>2, CurrentIn

\* The processor goes on with the event it is handling.
Stays(s) == /\ worker' \in Workers /\ worker'.step = s /\ worker'.batch = worker.batch
            /\ Current' = Current /\ worker.batch # {}

LEMMA StepStays ==
    ASSUME TypeOK, worker.step # "idle", NEW s, NEW seen \in Campaigns,
           s \in {"mark", "find", "credit", "complete", "log"},
           worker' = [worker EXCEPT !.step = s, !.seen = seen]
    PROVE  Stays(s)
  <1>1. /\ worker' \in Workers /\ worker'.step = s /\ worker'.batch = worker.batch
    BY WorkerFields DEF Workers
  <1> QED BY <1>1, WorkerFields DEF Stays, Current, Workers

\* The processor has ended the batch or is at the beginning of an event.
Turns == worker' \in Workers /\ worker'.step \in {"idle", "mark"}
         /\ (worker'.step = "idle" <=> worker'.batch = {})

LEMMA AdvanceTurns ==
    ASSUME TypeOK, worker.step # "idle", Advance
    PROVE  Turns
  <1>1. CASE worker.batch = {Current}
    BY <1>1, WorkerFields DEF Advance, Turns
  <1>2. CASE worker.batch # {Current}
    <2>1. worker' = [worker EXCEPT !.step = "mark", !.batch = worker.batch \ {Current}]
      BY <1>2 DEF Advance
    <2>2. worker.batch \ {Current} # {} /\ worker.batch \ {Current} \in SUBSET DOMAIN events
      BY <1>2, WorkerFields
    <2> QED BY <2>1, <2>2, WorkerFields DEF Turns, Workers
  <1> QED BY <1>1, <1>2

\* The steps of the processor.
LEMMA WorkerMoves ==
    ASSUME TypeOK, [Next]_vars
    PROVE  \/ UNCHANGED worker
           \/ Turns /\ UNCHANGED rpc /\ worker.step # "credit"
           \/ Crash /\ Turns
           \/ MarkProcessing /\ (Stays("find") \/ Stays("credit"))
           \/ FindPayment /\ Stays("credit")
           \/ Credited /\ Stays("complete")
           \/ CreditFailed /\ Stays("log")
           \/ WorkerError /\ Stays("log")
  <1>0. campaign \in Campaigns /\ worker \in Workers
        /\ Idle.seen \in Campaigns /\ worker.seen \in Campaigns
    BY WorkerFields DEF TypeOK
  <1>1. CASE Poll
    <2>1. Oldest(BatchSize) \in SUBSET DOMAIN events /\ Oldest(BatchSize) # {}
      BY <1>1, BatchIsSome DEF Poll
    <2>2. worker' = [worker EXCEPT !.step = "mark", !.batch = Oldest(BatchSize)]
          /\ UNCHANGED rpc /\ worker.step = "idle"
      BY <1>1 DEF Poll
    <2>3. worker' \in Workers /\ worker'.step = "mark" /\ worker'.batch # {}
      BY <2>1, <2>2, WorkerFields DEF Workers
    <2> QED BY <2>2, <2>3 DEF Turns
  <1>2. CASE MarkProcessing
    <2>1. worker.step = "mark" /\ \E s \in {"find", "credit"} : worker' = [worker EXCEPT !.step = s]
      BY <1>2 DEF MarkProcessing
    <2>2. ASSUME NEW s \in {"find", "credit"}, worker' = [worker EXCEPT !.step = s]
          PROVE  Stays(s)
      <3>1. worker' = [worker EXCEPT !.step = s, !.seen = worker.seen]
        BY <1>0, <2>2 DEF Workers
      <3> QED BY <1>0, <2>1, <3>1, StepStays
    <2> QED BY <1>2, <2>1, <2>2
  <1>3. CASE FindPayment
    BY <1>0, <1>3, StepStays DEF FindPayment
  <1>4. CASE Credited
    BY <1>0, <1>4, StepStays DEF Credited
  <1>5. CASE CreditFailed
    BY <1>0, <1>5, StepStays DEF CreditFailed
  <1>6. CASE WorkerError
    <2>1. worker' = [worker EXCEPT !.step = "log", !.seen = worker.seen] /\ worker.step # "idle"
      BY <1>0, <1>6 DEF WorkerError, Workers
    <2> QED BY <1>0, <1>6, <2>1, StepStays
  <1>7. CASE Complete \/ IncrementRetryCount
    BY <1>7, AdvanceTurns DEF Complete, IncrementRetryCount
  <1>8. CASE LogError \/ Crash
    <2>1. Turns
      BY <1>8, WorkerFields DEF LogError, Crash, Turns
    <2> QED BY <1>8, <2>1 DEF LogError
  <1> QED BY <1>1, <1>2, <1>3, <1>4, <1>5, <1>6, <1>7, <1>8, WorkerSteps DEF Process

\* The worker keeps its type.
LEMMA NextWorker ==
    ASSUME TypeOK, Grows, [Next]_vars
    PROVE  /\ worker' \in [step: {"idle", "mark", "find", "credit", "complete", "log"},
                           batch: SUBSET DOMAIN events', seen: Campaigns]
           /\ worker'.step = "idle" <=> worker'.batch = {}
  <1>1. worker' \in Workers /\ (worker'.step = "idle" <=> worker'.batch = {})
    <2>1. \A s \in {"find", "credit", "complete", "log"} :
            Stays(s) => worker' \in Workers /\ (worker'.step = "idle" <=> worker'.batch = {})
      BY DEF Stays
    <2> QED BY <2>1, WorkerMoves, WorkerFields DEF Turns
  <1>2. DOMAIN events \subseteq DOMAIN events'
    BY DEF Grows
  <1> QED BY <1>1, <1>2 DEF Workers

-----------------------------------------------------------------------------
(* The calls: what is asked for stays true, and an answer tells of a row.   *)

SurplusKey == W!Key(SurplusCredit(1))
PoolKey == W!Key(PoolCredit(1))

\* A request the campaign service sends: a donation, the surplus of the settlement, or
\* the pooled funds of a campaign below half its target.
Asked(r) ==
    \/ \E d \in Donations : r = DonationCredit(d)
    \/ \E i \in DOMAIN events : events[i].kind = "settled" /\ r = SurplusCredit(events[i].amount)
    \/ \E n \in 1 .. campaign.received : r = PoolCredit(n) /\ 2 * n < Target

RpcGood(k) ==
    rpc[k] # NoRpc =>
      /\ Asked(rpc[k].req)
      /\ rpc[k].at = "ok" => posted[W!Key(rpc[k].req)] > 0
      /\ rpc[k].at = "send" => rpc[k].attempt < MaxAttempts
      /\ rpc[k].at = "wait" =>
           rpc[k].call \in Calls
           /\ (W!Busy(rpc[k].call) => calls[rpc[k].call].req = rpc[k].req)

CallGood(c) ==
    W!Busy(c) =>
      Asked(calls[c].req) /\ (calls[c].at = "ok" => posted[W!Key(calls[c].req)] > 0)

Answered == (\A k \in Clients : RpcGood(k)) /\ (\A c \in Calls : CallGood(c))

LEMMA AskedKnown ==
    ASSUME TypeOK, Journal, NEW r, Asked(r)
    PROVE  r \in Requests
  <1>1. campaign.received \in Nat /\ Most \in Nat /\ campaign.received <= Most /\ Target \in Nat
    <2>1. IsFiniteSet(Donations) /\ \A d \in Donations : Amount[d] \in Nat
      BY SettlementAssumption
    <2>2. Most \in Nat
      BY <2>1, SumType DEF Most
    <2> QED BY <2>2, ReceivedAtMost, SettlementAssumption DEF TypeOK, Campaigns
  <1>2. ASSUME NEW i \in DOMAIN events, events[i].kind = "settled", r = SurplusCredit(events[i].amount)
        PROVE  r \in Requests
    <2>1. /\ events[i].amount \in Nat /\ events[i].amount > 0
          /\ events[i].amount + Target <= campaign.received
      BY <1>2, EventFields DEF Journal, EventTrue
    <2>2. events[i].amount \in 1 .. Most
      BY <1>1, <2>1
    <2> QED BY <1>2, <2>2 DEF Requests
  <1>3. ASSUME NEW n \in 1 .. campaign.received, r = PoolCredit(n)
        PROVE  r \in Requests
    <2>1. n \in 1 .. Most
      BY <1>1
    <2> QED BY <1>3, <2>1 DEF Requests
  <1> QED BY <1>2, <1>3 DEF Asked, Requests

LEMMA AskedStays ==
    ASSUME TypeOK, Grows, NEW r, Asked(r)
    PROVE  Asked(r)'
  <1>1. ASSUME NEW n \in 1 .. campaign.received PROVE n \in 1 .. campaign'.received
    BY DEF TypeOK, Grows, Campaigns
  <1> QED BY <1>1 DEF Asked, Grows

LEMMA AboutStays ==
    ASSUME Grows, NEW i \in DOMAIN events
    PROVE  About(i)' = About(i) /\ i \in DOMAIN events'
  BY DEF Grows, About

LEMMA AboutAsked ==
    ASSUME TypeOK, Journal, NEW i \in DOMAIN events
    PROVE  /\ Asked(About(i)) /\ About(i) \in Requests /\ W!Key(About(i)) \in W!Keys
           /\ About(i).ref # NoRef
  <1>1. Asked(About(i))
    BY EventFields DEF Journal, EventTrue, Asked, About
  <1>2. About(i) \in Requests
    BY <1>1, AskedKnown
  <1>3. About(i).ref # NoRef
    BY SettlementAssumption DEF Journal, EventTrue, About, DonationCredit, SurplusCredit, Credit
  <1> QED BY <1>1, <1>2, <1>3, RequestFields

LEMMA RpcFields ==
    ASSUME TypeOK, NEW k \in Clients
    PROVE  /\ rpc[k] = NoRpc \/ rpc[k] \in RpcCalls
           /\ rpc[k] # NoRpc <=> rpc[k].at # "none"
           /\ rpc[k] # NoRpc => /\ rpc[k].req \in Requests
                                /\ rpc[k].at \in {"send", "wait", "ok", "failed"}
           /\ rpc \in [Clients -> {NoRpc} \union RpcCalls]
           /\ NoRpc.at = "none"
  BY DEF TypeOK, NoRpc, RpcCalls

\* What a step does to the wallet.
Sends(k, c) == /\ GrpcSend(k) /\ ~Awaited(c) /\ W!Receive(c, rpc[k].req)
               /\ rpc' = [rpc EXCEPT ![k] = Attempt(rpc[k], c)]
Quiet == UNCHANGED Rows /\ doubled \subseteq doubled' /\ \A c \in Calls : GoesOn(c)

LEMMA UnchangedQuiet == ASSUME W!TypeOK, UNCHANGED wallet PROVE Quiet
  BY CallFields DEF wallet, Quiet, Rows, GoesOn

LEMMA WalletMoves ==
    ASSUME TypeOK, Answered, [Next]_vars
    PROVE  \/ Quiet /\ UNCHANGED sent
           \/ \E c \in Calls : W!Write(c) /\ UNCHANGED <<rpc, sent>>
           \/ \E k \in Clients, c \in Calls : Sends(k, c)
  <1>0. W!TypeOK
    BY DEF TypeOK
  <1>1. CASE UNCHANGED wallet
    BY <1>0, <1>1, UnchangedQuiet, SentSteps DEF GrpcSend, Sends
  <1>2. ASSUME NEW k \in Clients, GrpcSend(k) PROVE \E c \in Calls : Sends(k, c)
    BY <1>2 DEF GrpcSend, Sends
  <1>3. ASSUME NEW k \in Clients, GrpcAnswer(k) PROVE Quiet /\ UNCHANGED sent
    <2>1. rpc[k].call \in Calls
      BY <1>3, RpcFields DEF GrpcAnswer, Answered, RpcGood
    <2> QED BY <1>0, <1>3, <2>1, QuietStep DEF GrpcAnswer, Quiet
  <1>4. ASSUME NEW c \in Calls, Serve(c)
        PROVE  (Quiet /\ UNCHANGED sent) \/ (W!Write(c) /\ UNCHANGED <<rpc, sent>>)
    BY <1>0, <1>4, QuietStep DEF Serve, Quiet
  <1>5. CASE ServeError
    BY <1>0, <1>5, QuietStep, RestartStep DEF ServeError, Quiet
  <1> QED BY <1>1, <1>2, <1>3, <1>4, <1>5, WalletSteps

\* Rows are never removed.
LEMMA PostedGrows ==
    ASSUME TypeOK, Answered, [Next]_vars, NEW key \in W!Keys
    PROVE  posted'[key] >= posted[key] /\ posted[key] \in Nat /\ posted'[key] \in Nat
  <1>0. W!TypeOK /\ posted[key] \in Nat
    BY DEF TypeOK, W!TypeOK
  <1>1. Quiet \/ (\E c \in Calls : W!Write(c)) \/ (\E k \in Clients, c \in Calls : Sends(k, c))
    BY WalletMoves
  <1>2. CASE Quiet
    BY <1>0, <1>2 DEF Quiet, Rows
  <1>3. ASSUME NEW c \in Calls, W!Write(c) PROVE posted'[key] >= posted[key] /\ posted'[key] \in Nat
    BY <1>0, <1>3, WriteStep
  <1>4. ASSUME NEW k \in Clients, NEW c \in Calls, Sends(k, c) PROVE posted'[key] >= posted[key] /\ posted'[key] \in Nat
    <2>1. posted' = posted
      BY <1>4 DEF Sends, W!Receive, W!table
    <2> QED BY <1>0, <2>1
  <1> QED BY <1>0, <1>1, <1>2, <1>3, <1>4

\* A call in progress keeps its request, unless it is a new call, for which nobody waits.
LEMMA CallKeeps ==
    ASSUME TypeOK, Answered, [Next]_vars, NEW c \in Calls, W!Busy(c)'
    PROVE  \/ W!Busy(c) /\ calls'[c].req = calls[c].req
           \/ \E k \in Clients : Sends(k, c)
  <1>0. W!TypeOK
    BY DEF TypeOK
  <1>1. CASE Quiet
    BY <1>0, <1>1, CallFields DEF Quiet, GoesOn, W!Busy
  <1>2. ASSUME NEW d \in Calls, W!Write(d) PROVE W!Busy(c) /\ calls'[c].req = calls[c].req
    BY <1>0, <1>2, WriteStep DEF W!Busy
  <1>3. ASSUME NEW k \in Clients, NEW d \in Calls, Sends(k, d), d # c
        PROVE  W!Busy(c) /\ calls'[c].req = calls[c].req
    <2>1. rpc[k].req \in Requests
      BY <1>3, RpcFields DEF Sends, GrpcSend
    <2>2. calls'[c] = calls[c]
      BY <1>0, <1>3, <2>1, ReceiveStep DEF Sends
    <2> QED BY <2>2 DEF W!Busy
  <1> QED BY <1>1, <1>2, <1>3, WalletMoves

LEMMA NextCalls ==
    ASSUME TypeOK, Journal, Grows, Answered, [Next]_vars, NEW c \in Calls
    PROVE  CallGood(c)'
  <1> SUFFICES ASSUME W!Busy(c)'
               PROVE  /\ Asked(calls[c].req)'
                      /\ calls'[c].at = "ok" => posted'[W!Key(calls'[c].req)] > 0
    BY DEF CallGood, W!Key
  <1>0. W!TypeOK
    BY DEF TypeOK
  <1>1. CASE W!Busy(c) /\ calls'[c].req = calls[c].req
    <2> PICK r : r = calls[c].req
      OBVIOUS
    <2>1. /\ Asked(r) /\ r \in Requests /\ W!Key(r) \in W!Keys
          /\ calls[c].at = "ok" => posted[W!Key(r)] > 0
      BY <1>1, AskedKnown, RequestFields DEF Answered, CallGood
    <2>2. Asked(r)' /\ calls'[c].req = r
      BY <1>1, <2>1, AskedStays
    <2>3. /\ posted'[W!Key(r)] >= posted[W!Key(r)] /\ posted[W!Key(r)] \in Nat
          /\ posted'[W!Key(r)] \in Nat
      BY <2>1, PostedGrows
    <2>4. calls'[c].at = "ok" => posted'[W!Key(r)] > 0
      <3>1. CASE Quiet
        BY <1>1, <2>1, <2>3, <3>1 DEF Quiet, GoesOn, W!Busy, Rows
      <3>2. ASSUME NEW d \in Calls, W!Write(d) PROVE calls'[c].at = "ok" => posted'[W!Key(r)] > 0
        <4>1. CASE d = c
          BY <1>0, <3>2, <4>1, WriteStep
        <4>2. CASE d # c
          <5>1. calls'[c] = calls[c]
            BY <1>0, <3>2, <4>2, WriteStep
          <5> QED BY <2>1, <2>3, <5>1
        <4> QED BY <4>1, <4>2
      <3>3. ASSUME NEW k \in Clients, NEW d \in Calls, Sends(k, d)
            PROVE  calls'[c].at = "ok" => posted'[W!Key(r)] > 0
        <4>1. rpc[k].req \in Requests
          BY <3>3, RpcFields DEF Sends, GrpcSend
        <4>2. /\ UNCHANGED Rows /\ calls'[d].at = "check"
              /\ \A e \in Calls \ {d} : calls'[e] = calls[e]
          BY <1>0, <3>3, <4>1, ReceiveStep DEF Sends
        <4> QED BY <2>1, <4>2 DEF Rows
      <3> QED BY <3>1, <3>2, <3>3, WalletMoves
    <2> QED BY <2>2, <2>4
  <1>2. ASSUME NEW k \in Clients, Sends(k, c)
        PROVE  /\ Asked(calls[c].req)'
               /\ calls'[c].at = "ok" => posted'[W!Key(calls'[c].req)] > 0
    <2> PICK r : r = rpc[k].req
      OBVIOUS
    <2>1. r \in Requests /\ rpc[k] # NoRpc
      BY <1>2, RpcFields DEF Sends, GrpcSend
    <2>2. calls'[c].at = "check" /\ calls'[c].req = r
      BY <1>0, <1>2, <2>1, ReceiveStep DEF Sends
    <2>3. Asked(r)
      BY <2>1 DEF Answered, RpcGood
    <2>4. Asked(r)'
      BY <2>3, AskedStays
    <2> QED BY <2>2, <2>4
  <1> QED BY <1>1, <1>2, CallKeeps

\* The processor asks for what the event is about, and completes it when that has
\* its row.
Handled ==
    /\ worker.step = "credit" <=> rpc["outbox"] # NoRpc
    /\ worker.step = "credit" => rpc["outbox"].req = About(Current)
    /\ worker.step = "find" => events[Current].kind = "donation"
    /\ worker.step = "complete" => posted[W!Key(About(Current))] > 0
    /\ \A i \in DOMAIN events : events[i].status = "COMPLETED" => posted[W!Key(About(i))] > 0

\* The nightly job pools what it read, and never reads more than was received.
Decided ==
    /\ night.job.received <= campaign.received
    /\ night.job.step = "pool" <=> rpc["scheduler"] # NoRpc

AsksOutbox == Current \in DOMAIN events /\ rpc' = [rpc EXCEPT !["outbox"] = Call(About(Current))]
              /\ (MarkProcessing \/ FindPayment)
AsksPool == LET n == night.job.received IN
    /\ NightDecide /\ n > 0 /\ 2 * n < Target
    /\ rpc' = [rpc EXCEPT !["scheduler"] = Call(PoolCredit(n))]
Ends(k) == rpc' = [rpc EXCEPT ![k] = NoRpc]
Repeats(k) == rpc[k].at = "wait" /\ Retry(k) /\ UNCHANGED wallet

LEMMA RpcMoves ==
    ASSUME TypeOK, Handled, [Next]_vars
    PROVE  \/ UNCHANGED rpc
           \/ AsksOutbox \/ AsksPool
           \/ (Credited \/ CreditFailed) /\ Ends("outbox")
           \/ NightPooled /\ Ends("scheduler")
           \/ Crash
           \/ \E k \in Clients, c \in Calls : Sends(k, c)
           \/ \E k \in Clients : GrpcAnswer(k) \/ Repeats(k)
  <1>1. CASE MarkProcessing
    <2>1. Current \in DOMAIN events
      BY <1>1, WorkerFields DEF MarkProcessing
    <2> QED BY <1>1, <2>1 DEF MarkProcessing, AsksOutbox, About
  <1>2. CASE FindPayment
    <2>1. Current \in DOMAIN events
      BY <1>2, WorkerFields DEF FindPayment
    <2> QED BY <1>2, <2>1 DEF FindPayment, AsksOutbox, About, Handled
  <1>3. CASE NightDecide
    <2>1. ~Funded(night.job.received) => 2 * night.job.received < Target
      BY NightFields, SettlementAssumption DEF Funded
    <2> QED BY <1>3, <2>1 DEF NightDecide, AsksPool
  <1>4. ASSUME NEW k \in Clients, Grpc(k) \/ GrpcDeadline(k)
        PROVE  (\E c \in Calls : Sends(k, c)) \/ GrpcAnswer(k) \/ Repeats(k)
    BY <1>4 DEF Grpc, GrpcSend, Sends, GrpcBroken, GrpcDeadline, Repeats
  <1> QED BY <1>1, <1>2, <1>3, <1>4, RpcSteps DEF Credited, CreditFailed, NightPooled, Ends

\* A new request is good, whatever it asks for truly.
LEMMA NewRpc ==
    ASSUME NEW k \in Clients, NEW r, r \in Requests, Asked(r)', rpc'[k] = Call(r)
    PROVE  RpcGood(k)' /\ rpc'[k] \in RpcCalls
  <1>1. Call(r).at = "send" /\ Call(r).attempt = 0 /\ Call(r).req = r /\ 0 < MaxAttempts
    BY SettlementAssumption DEF Call
  <1>2. Call(r) \in RpcCalls
    BY SettlementAssumption DEF Call, RpcCalls
  <1> QED BY <1>1, <1>2 DEF RpcGood

\* A call that is not looked at stays good.
LEMMA OldRpc ==
    ASSUME TypeOK, Journal, Grows, Answered, [Next]_vars, NEW k \in Clients, rpc'[k] = rpc[k]
    PROVE  RpcGood(k)'
  <1> SUFFICES ASSUME rpc[k] # NoRpc
               PROVE  /\ Asked(rpc[k].req)'
                      /\ rpc[k].at = "ok" => posted'[W!Key(rpc[k].req)] > 0
                      /\ rpc[k].at = "send" => rpc[k].attempt < MaxAttempts
                      /\ rpc[k].at = "wait" =>
                           rpc[k].call \in Calls
                           /\ (W!Busy(rpc[k].call)' => calls'[rpc[k].call].req = rpc[k].req)
    BY DEF RpcGood, W!Key, W!Busy
  <1> PICK r, c : r = rpc[k].req /\ c = rpc[k].call
    OBVIOUS
  <1>1. Asked(r) /\ RpcGood(k) /\ r \in Requests /\ W!Key(r) \in W!Keys
    BY AskedKnown, RequestFields DEF Answered, RpcGood
  <1>2. Asked(r)'
    BY <1>1, AskedStays
  <1>3. Asked(rpc[k].req)'
    BY <1>2
  <1>4. rpc[k].at = "ok" => posted'[W!Key(r)] > 0
    BY <1>1, PostedGrows DEF RpcGood
  <1>5. ASSUME rpc[k].at = "wait" PROVE c \in Calls /\ (W!Busy(c)' => calls'[c].req = r)
    <2>1. c \in Calls /\ (W!Busy(c) => calls[c].req = r)
      BY <1>1, <1>5 DEF RpcGood
    <2>2. Awaited(c)
      BY <1>5 DEF Awaited
    <2>3. \A j \in Clients : ~Sends(j, c)
      BY <2>2 DEF Sends
    <2> QED BY <2>1, <2>3, CallKeeps
  <1> QED BY <1>1, <1>3, <1>4, <1>5 DEF RpcGood

\* The three things that happen to the call client k is making.
LEMMA SendRpc ==
    ASSUME TypeOK, Grows, Answered, NEW k \in Clients, NEW c \in Calls, Sends(k, c)
    PROVE  RpcGood(k)' /\ rpc'[k] \in RpcCalls /\ rpc' = [rpc EXCEPT ![k] = rpc'[k]]
           /\ rpc[k] # NoRpc /\ rpc'[k] # NoRpc /\ rpc'[k].req = rpc[k].req
  <1> DEFINE new == Attempt(rpc[k], c)
  <1>1. rpc[k].at = "send" /\ rpc[k] # NoRpc /\ rpc[k] \in RpcCalls /\ rpc[k].req \in Requests
    BY RpcFields DEF Sends, GrpcSend
  <1>2. rpc[k].attempt < MaxAttempts /\ Asked(rpc[k].req)
    BY <1>1 DEF Answered, RpcGood
  <1>3. rpc[k].attempt + 1 \in 0 .. MaxAttempts
    BY <1>1, <1>2, SettlementAssumption DEF RpcCalls
  <1>4. new \in RpcCalls /\ new.at = "wait" /\ new.call = c /\ new.req = rpc[k].req
    BY <1>1, <1>3 DEF RpcCalls, Attempt
  <1>5. rpc' = [rpc EXCEPT ![k] = new]
    BY DEF Sends
  <1> HIDE DEF new
  <1>6. rpc'[k] = new
    BY <1>5, RpcFields
  <1> PICK r : r = rpc[k].req
    OBVIOUS
  <1>7. Asked(r)'
    BY <1>2, AskedStays
  <1>8. calls'[c].req = r
    BY <1>1, ReceiveStep DEF Sends, TypeOK
  <1>9. new # NoRpc
    BY <1>4, RpcFields
  <1>10. RpcGood(k)'
    BY <1>4, <1>6, <1>7, <1>8 DEF RpcGood
  <1> QED BY <1>1, <1>4, <1>5, <1>6, <1>9, <1>10

LEMMA AnswerRpc ==
    ASSUME TypeOK, Journal, Grows, Answered, [Next]_vars, NEW k \in Clients, GrpcAnswer(k)
    PROVE  RpcGood(k)' /\ rpc'[k] \in RpcCalls /\ rpc' = [rpc EXCEPT ![k] = rpc'[k]]
           /\ rpc[k] # NoRpc /\ rpc'[k] # NoRpc /\ rpc'[k].req = rpc[k].req
  <1> PICK c, r : c = rpc[k].call /\ r = rpc[k].req
    OBVIOUS
  <1> DEFINE new == [rpc[k] EXCEPT !.at = calls[c].at]
  <1>1. rpc[k].at = "wait" /\ rpc[k] # NoRpc /\ rpc[k] \in RpcCalls /\ r \in Requests
    BY RpcFields DEF GrpcAnswer
  <1>2. c \in Calls /\ (W!Busy(c) => calls[c].req = r) /\ Asked(r)
    BY <1>1 DEF Answered, RpcGood
  <1>3. calls[c].at \in {"ok", "failed"} /\ W!Busy(c)
    BY DEF GrpcAnswer, W!Reply, W!Busy
  <1>4. new \in RpcCalls /\ new.at = calls[c].at /\ new.req = r
    BY <1>1, <1>3 DEF RpcCalls
  <1>5. rpc' = [rpc EXCEPT ![k] = new]
    BY <1>1, RpcFields DEF GrpcAnswer, Outcome
  <1>6. calls[c].at = "ok" => posted[W!Key(r)] > 0
    BY <1>2, <1>3 DEF Answered, CallGood
  <1> HIDE DEF new
  <1>7. rpc'[k] = new /\ new # NoRpc
    BY <1>3, <1>4, <1>5, RpcFields
  <1>8. Asked(r)'
    BY <1>2, AskedStays
  <1>9. new.at = "ok" => posted'[W!Key(r)] > 0
    BY <1>1, <1>4, <1>6, PostedGrows, RequestFields
  <1>10. RpcGood(k)'
    BY <1>3, <1>4, <1>7, <1>8, <1>9 DEF RpcGood
  <1> QED BY <1>1, <1>4, <1>5, <1>7, <1>10

LEMMA RepeatRpc ==
    ASSUME TypeOK, Grows, Answered, NEW k \in Clients, Repeats(k)
    PROVE  RpcGood(k)' /\ rpc'[k] \in RpcCalls /\ rpc' = [rpc EXCEPT ![k] = rpc'[k]]
           /\ rpc[k] # NoRpc /\ rpc'[k] # NoRpc /\ rpc'[k].req = rpc[k].req
  <1> PICK r : r = rpc[k].req
    OBVIOUS
  <1> DEFINE at == IF rpc[k].attempt < MaxAttempts THEN "send" ELSE "failed"
             new == [rpc[k] EXCEPT !.at = at]
  <1>1. rpc[k].at = "wait" /\ rpc[k] # NoRpc /\ rpc[k] \in RpcCalls /\ Asked(r)
    BY RpcFields DEF Repeats, Answered, RpcGood
  <1>2. /\ new \in RpcCalls /\ new.at \in {"send", "failed"} /\ new.req = r
        /\ new.attempt = rpc[k].attempt /\ (new.at = "send" => rpc[k].attempt < MaxAttempts)
    BY <1>1 DEF RpcCalls
  <1>3. rpc' = [rpc EXCEPT ![k] = new]
    BY <1>1, RpcFields DEF Repeats, Retry
  <1> HIDE DEF new
  <1>4. rpc'[k] = new /\ new # NoRpc
    BY <1>2, <1>3, RpcFields
  <1>5. Asked(r)'
    BY <1>1, AskedStays
  <1>6. RpcGood(k)'
    BY <1>2, <1>4, <1>5 DEF RpcGood
  <1> QED BY <1>1, <1>2, <1>3, <1>4, <1>6

LEMMA NextRpc ==
    ASSUME TypeOK, Journal, Grows, Handled, Decided, Answered, [Next]_vars
    PROVE  /\ \A k \in Clients : RpcGood(k)'
           /\ rpc' \in [Clients -> {NoRpc} \union RpcCalls]
  <1> DEFINE Done == /\ \A k \in Clients : RpcGood(k)'
                     /\ rpc' \in [Clients -> {NoRpc} \union RpcCalls]
  <1>1. ASSUME NEW k \in Clients, NEW new \in {NoRpc} \union RpcCalls,
               rpc' = [rpc EXCEPT ![k] = new], rpc'[k] = new => RpcGood(k)'
        PROVE  Done
    <2>1. /\ rpc' \in [Clients -> {NoRpc} \union RpcCalls] /\ rpc'[k] = new
          /\ \A j \in Clients \ {k} : rpc'[j] = rpc[j]
      BY <1>1, RpcFields
    <2> QED BY <1>1, <2>1, OldRpc
  <1>2. ASSUME NEW k \in Clients PROVE rpc'[k] = NoRpc => RpcGood(k)'
    BY DEF RpcGood
  <1>3. "outbox" \in Clients /\ "scheduler" \in Clients
    BY DEF Clients
  <1>4. CASE UNCHANGED rpc
    BY <1>4, OldRpc, RpcFields DEF TypeOK
  <1>5. CASE AsksOutbox
    <2> PICK r : r = About(Current)
      OBVIOUS
    <2>1. /\ r \in Requests /\ Asked(r) /\ rpc' = [rpc EXCEPT !["outbox"] = Call(r)]
      BY <1>5, AboutAsked DEF AsksOutbox
    <2>2. Asked(r)'
      BY <2>1, AskedStays
    <2>3. rpc'["outbox"] = Call(r)
      BY <1>3, <2>1, RpcFields
    <2>4. RpcGood("outbox")' /\ Call(r) \in RpcCalls
      BY <1>3, <2>1, <2>2, <2>3, NewRpc
    <2> QED BY <1>1, <1>3, <2>1, <2>4
  <1>6. CASE AsksPool
    <2> PICK r : r = PoolCredit(night.job.received)
      OBVIOUS
    <2>0. night.job.received \in 1 .. campaign.received
      BY <1>6, NightFields DEF AsksPool, Decided, TypeOK, Campaigns
    <2>1. /\ Asked(r) /\ r \in Requests /\ rpc' = [rpc EXCEPT !["scheduler"] = Call(r)]
      <3>1. Asked(r)
        BY <1>6, <2>0 DEF AsksPool, Asked
      <3> QED BY <1>6, <3>1, AskedKnown DEF AsksPool
    <2>2. Asked(r)'
      BY <2>1, AskedStays
    <2>3. rpc'["scheduler"] = Call(r)
      BY <1>3, <2>1, RpcFields
    <2>4. RpcGood("scheduler")' /\ Call(r) \in RpcCalls
      BY <1>3, <2>1, <2>2, <2>3, NewRpc
    <2> QED BY <1>1, <1>3, <2>1, <2>4
  <1>7. ASSUME NEW k \in Clients, Ends(k) PROVE Done
    BY <1>1, <1>2, <1>7 DEF Ends
  <1>8. CASE Crash
    <2>1. rpc' = [k \in Clients |-> NoRpc]
      BY <1>8 DEF Crash
    <2> QED BY <1>2, <2>1
  <1>9. ASSUME NEW k \in Clients, (\E c \in Calls : Sends(k, c)) \/ GrpcAnswer(k) \/ Repeats(k)
        PROVE  Done
    <2>1. RpcGood(k)' /\ rpc'[k] \in RpcCalls /\ rpc' = [rpc EXCEPT ![k] = rpc'[k]]
      BY <1>9, SendRpc, AnswerRpc, RepeatRpc
    <2> QED BY <1>1, <2>1
  <1> QED BY <1>3, <1>4, <1>5, <1>6, <1>7, <1>8, <1>9, RpcMoves

-----------------------------------------------------------------------------
(* The processor and its call.                                             *)

\* The row of an event, once written, stays.
LEMMA RowStays ==
    ASSUME TypeOK, Journal, Grows, Answered, [Next]_vars, NEW i \in DOMAIN events,
           posted[W!Key(About(i))] > 0
    PROVE  posted'[W!Key(About(i)')] > 0
  <1> PICK r : r = About(i)
    OBVIOUS
  <1>1. About(i)' = r /\ W!Key(r) \in W!Keys
    BY AboutStays, AboutAsked
  <1> QED BY <1>1, PostedGrows

\* An event is completed only when it has its row.
LEMMA NextCompleted ==
    ASSUME TypeOK, Journal, Grows, Handled, Answered, [Next]_vars,
           NEW i \in DOMAIN events', events'[i].status = "COMPLETED"
    PROVE  posted'[W!Key(About(i)')] > 0
  <1> SUFFICES i \in DOMAIN events /\ posted[W!Key(About(i))] > 0
    BY RowStays
  <1>1. CASE events' = events
    BY <1>1 DEF Handled
  <1>2. ASSUME NEW e, e.status = "PENDING", events' = Append(events, e)
        PROVE  i \in DOMAIN events /\ posted[W!Key(About(i))] > 0
    <2>1. events \in Seq(Events)
      BY DEF TypeOK
    <2>2. i \in DOMAIN events /\ events'[i] = events[i]
      BY <1>2, <2>1
    <2> QED BY <2>2 DEF Handled
  <1>3. ASSUME NEW d \in Donations, DonationSucceeds(d)
        PROVE  i \in DOMAIN events /\ posted[W!Key(About(i))] > 0
    BY <1>2, <1>3 DEF DonationSucceeds, Event
  <1>4. ASSUME NEW t \in tasks, SettleCommit(t)
        PROVE  i \in DOMAIN events /\ posted[W!Key(About(i))] > 0
    BY <1>1, <1>2, <1>4 DEF SettleCommit, Event, db
  <1>5. CASE MarkProcessing \/ Complete \/ IncrementRetryCount
    <2>1. Current \in DOMAIN events /\ campaign' = campaign
      BY <1>5, WorkerFields DEF MarkProcessing, Complete, IncrementRetryCount
    <2> PICK s : /\ s \in {"PROCESSING", "COMPLETED"} /\ (s = "COMPLETED" => Complete)
                 /\ \/ events' = [events EXCEPT ![Current].status = s]
                    \/ events' = [events EXCEPT ![Current].failed = TRUE]
      BY <1>5 DEF MarkProcessing, Complete, IncrementRetryCount
    <2>2. /\ Marked /\ \A j \in DOMAIN events \ {Current} : events'[j] = events[j]
          /\ events'[Current].status \in {s, events[Current].status}
      BY <2>1, MarkEvent
    <2>3. CASE i # Current \/ events[i].status = "COMPLETED"
      BY <2>2, <2>3 DEF Marked, Handled
    <2>4. CASE i = Current /\ Complete
      BY <2>1, <2>4 DEF Complete, Handled
    <2> QED BY <2>2, <2>3, <2>4
  <1> QED BY <1>1, <1>3, <1>4, <1>5, DbSteps DEF db, NightWrite

\* A call that is not the processor's leaves the processor's as it is.
LEMMA OutboxCall ==
    ASSUME TypeOK, Journal, Grows, Handled, Answered, [Next]_vars, UNCHANGED worker
    PROVE  /\ rpc'["outbox"] # NoRpc <=> rpc["outbox"] # NoRpc
           /\ rpc["outbox"] # NoRpc => rpc'["outbox"].req = rpc["outbox"].req
  <1>0. /\ "outbox" \in Clients /\ "scheduler" \in Clients
        /\ rpc \in [Clients -> {NoRpc} \union RpcCalls] /\ worker \in Workers
    BY RpcFields, WorkerFields DEF Clients
  <1>1. ~MarkProcessing /\ ~FindPayment /\ ~Credited /\ ~CreditFailed
    BY <1>0 DEF MarkProcessing, FindPayment, Credited, CreditFailed, Workers
  <1>2. CASE Crash
    <2>1. worker.step = "idle" /\ rpc'["outbox"] = NoRpc
      BY <1>0, <1>2, WorkerFields DEF Crash
    <2> QED BY <2>1 DEF Handled
  <1>3. CASE AsksPool \/ Ends("scheduler")
    BY <1>0, <1>3 DEF AsksPool, Ends
  <1>4. ASSUME NEW k \in Clients, (\E c \in Calls : Sends(k, c)) \/ GrpcAnswer(k) \/ Repeats(k)
        PROVE  /\ rpc'["outbox"] # NoRpc <=> rpc["outbox"] # NoRpc
               /\ rpc["outbox"] # NoRpc => rpc'["outbox"].req = rpc["outbox"].req
    <2>1. rpc' = [rpc EXCEPT ![k] = rpc'[k]]
          /\ rpc[k] # NoRpc /\ rpc'[k] # NoRpc /\ rpc'[k].req = rpc[k].req
      BY <1>4, SendRpc, AnswerRpc, RepeatRpc
    <2> QED BY <1>0, <2>1
  <1> QED BY <1>1, <1>2, <1>3, <1>4, RpcMoves DEF AsksOutbox

LEMMA NextHandled ==
    ASSUME TypeOK, Journal, Grows, Handled, Answered, [Next]_vars
    PROVE  Handled'
  <1>0. /\ "outbox" \in Clients /\ rpc \in [Clients -> {NoRpc} \union RpcCalls]
        /\ \A r : Call(r) # NoRpc /\ Call(r).req = r
    BY RpcFields DEF Clients, Call, NoRpc
  <1> DEFINE Held ==
        /\ worker'.step = "credit" <=> rpc'["outbox"] # NoRpc
        /\ worker'.step = "credit" => rpc'["outbox"].req = About(Current)'
        /\ worker'.step = "find" => events'[Current'].kind = "donation"
        /\ worker'.step = "complete" => posted'[W!Key(About(Current)')] > 0
  <1> SUFFICES Held
    BY NextCompleted DEF Handled, W!Key
  <1>1. CASE UNCHANGED worker
    <2>1. Current' = Current
      BY <1>1 DEF Current
    <2>2. worker.step # "idle" => Current \in DOMAIN events
      BY WorkerFields
    <2> PICK i : i = Current
      OBVIOUS
    <2>3. i \in DOMAIN events => About(i)' = About(i) /\ events'[i].kind = events[i].kind
      BY AboutStays DEF Grows
    <2>4. i \in DOMAIN events /\ posted[W!Key(About(i))] > 0 => posted'[W!Key(About(i)')] > 0
      BY RowStays
    <2>5. About(Current)' = About(i)'
      BY <2>1
    <2> QED BY <1>1, <2>1, <2>2, <2>3, <2>4, <2>5, OutboxCall DEF Handled
  <1>2. CASE Turns /\ UNCHANGED rpc /\ worker.step # "credit"
    BY <1>2 DEF Turns, Handled
  <1>3. CASE Crash /\ Turns
    <2>1. rpc'["outbox"] = NoRpc
      BY <1>0, <1>3 DEF Crash
    <2> QED BY <1>3, <2>1 DEF Turns
  <1>4. ASSUME NEW s, Stays(s)
        PROVE  \E i \in DOMAIN events :
                 /\ i = Current /\ i = Current' /\ About(Current)' = About(i)
                 /\ events'[i].kind = events[i].kind
                 /\ posted[W!Key(About(i))] > 0 => posted'[W!Key(About(i))] > 0
    <2> PICK i : i = Current
      OBVIOUS
    <2>1. i \in DOMAIN events /\ i = Current'
      BY <1>4, CurrentIn DEF Stays
    <2>2. About(i)' = About(i)
      BY <2>1, AboutStays
    <2>3. About(Current)' = About(i)'
      BY <2>1
    <2>4. posted[W!Key(About(i))] > 0 => posted'[W!Key(About(i))] > 0
      BY <2>1, <2>2, RowStays
    <2> QED BY <2>1, <2>2, <2>3, <2>4 DEF Grows
  <1>5. CASE MarkProcessing /\ (Stays("find") \/ Stays("credit"))
    <2> PICK i \in DOMAIN events :
             /\ i = Current /\ i = Current' /\ About(Current)' = About(i)
             /\ events'[i].kind = events[i].kind
      BY <1>4, <1>5
    <2>1. worker.step = "mark" /\ rpc["outbox"] = NoRpc /\ worker \in Workers
      BY <1>5, WorkerFields DEF MarkProcessing, Handled
    <2>2. \/ events[i].kind = "donation" /\ worker'.step = "find" /\ rpc' = rpc
          \/ /\ worker'.step = "credit"
             /\ rpc' = [rpc EXCEPT !["outbox"] = Call(About(i))]
      BY <1>5, <2>1 DEF MarkProcessing, About, Workers
    <2> QED BY <1>0, <2>1, <2>2
  <1>6. CASE FindPayment /\ Stays("credit")
    <2> PICK i \in DOMAIN events :
             /\ i = Current /\ i = Current' /\ About(Current)' = About(i)
      BY <1>4, <1>6
    <2>1. worker'.step = "credit" /\ rpc' = [rpc EXCEPT !["outbox"] = Call(About(i))]
      BY <1>6 DEF FindPayment, Stays, Handled, About
    <2> QED BY <1>0, <2>1
  <1>7. CASE Credited /\ Stays("complete")
    <2> PICK i \in DOMAIN events :
             /\ i = Current /\ i = Current' /\ About(Current)' = About(i)
             /\ posted[W!Key(About(i))] > 0 => posted'[W!Key(About(i))] > 0
      BY <1>4, <1>7
    <2>1. rpc'["outbox"] = NoRpc /\ worker'.step = "complete"
      BY <1>0, <1>7 DEF Credited, Stays
    <2>2. rpc["outbox"].at = "ok" /\ rpc["outbox"] # NoRpc /\ rpc["outbox"].req = About(i)
      BY <1>0, <1>7, RpcFields DEF Credited, Handled
    <2>3. posted[W!Key(About(i))] > 0
      BY <1>0, <2>2 DEF Answered, RpcGood
    <2> QED BY <2>1, <2>3
  <1>8. CASE CreditFailed /\ Stays("log")
    BY <1>0, <1>8 DEF CreditFailed, Stays
  <1>9. CASE WorkerError /\ Stays("log")
    BY <1>9 DEF WorkerError, Stays, Handled
  <1> QED BY <1>1, <1>2, <1>3, <1>5, <1>6, <1>7, <1>8, <1>9, WorkerMoves

-----------------------------------------------------------------------------
(* The nightly job and its call.                                           *)

LEMMA SchedulerCall ==
    ASSUME TypeOK, Journal, Grows, Handled, Decided, Answered, [Next]_vars, UNCHANGED night
    PROVE  rpc'["scheduler"] # NoRpc <=> rpc["scheduler"] # NoRpc
  <1>0. /\ "outbox" \in Clients /\ "scheduler" \in Clients
        /\ rpc \in [Clients -> {NoRpc} \union RpcCalls]
        /\ night \in [job: Jobs, runs: 0 .. MaxNights] /\ night.job \in Jobs
    BY RpcFields, NightFields DEF Clients
  <1>1. ~NightDecide
    BY DecideNight DEF NightDecide
  <1>2. ~NightPooled
    <2>1. JobWrites => night'.job.step = "write"
      BY WriteNight
    <2>2. JobEnds => night'.job.step = "idle"
      BY EndNight DEF JobEnds
    <2> QED BY <2>1, <2>2 DEF NightPooled
  <1>3. CASE Crash
    <2>1. night.job.step = "idle" /\ rpc'["scheduler"] = NoRpc
      BY <1>0, <1>3, EndNight DEF Crash
    <2> QED BY <2>1 DEF Decided
  <1>4. CASE AsksOutbox \/ Ends("outbox")
    BY <1>0, <1>4 DEF AsksOutbox, Ends
  <1>5. ASSUME NEW k \in Clients, (\E c \in Calls : Sends(k, c)) \/ GrpcAnswer(k) \/ Repeats(k)
        PROVE  rpc'["scheduler"] # NoRpc <=> rpc["scheduler"] # NoRpc
    <2>1. rpc' = [rpc EXCEPT ![k] = rpc'[k]] /\ rpc[k] # NoRpc /\ rpc'[k] # NoRpc
      BY <1>5, SendRpc, AnswerRpc, RepeatRpc
    <2> QED BY <1>0, <2>1
  <1> QED BY <1>1, <1>2, <1>3, <1>4, <1>5, RpcMoves DEF AsksPool

LEMMA NextDecided ==
    ASSUME TypeOK, Journal, Grows, Handled, Decided, Answered, [Next]_vars
    PROVE  Decided' /\ night' \in [job: Jobs, runs: 0 .. MaxNights]
  <1>0. /\ "scheduler" \in Clients /\ rpc \in [Clients -> {NoRpc} \union RpcCalls]
        /\ campaign.received \in Nat /\ campaign'.received \in Nat
        /\ campaign'.received >= campaign.received
        /\ night.job.received \in Nat /\ night.job.received <= campaign.received
        /\ night \in [job: Jobs, runs: 0 .. MaxNights]
        /\ \A r : Call(r) # NoRpc
    BY RpcFields, NightFields DEF Clients, TypeOK, Campaigns, Grows, Decided, Call, NoRpc
  <1>1. CASE UNCHANGED night
    BY <1>0, <1>1, SchedulerCall DEF Decided
  <1>2. CASE NightRead
    <2>1. night'.job.step = "decide" /\ night'.job.received = campaign.received
      BY <1>2, ReadNight
    <2>2. night' \in [job: Jobs, runs: 0 .. MaxNights]
      <3>1. [step |-> "decide", received |-> campaign.received, next |-> "ACTIVE"] \in Jobs
        BY <1>0 DEF Jobs, Statuses
      <3>2. night.runs + 1 \in 0 .. MaxNights
        BY <1>0, <1>2, SettlementAssumption DEF NightRead
      <3> QED BY <1>2, <3>1, <3>2 DEF NightRead
    <2>3. UNCHANGED rpc /\ night.job.step = "idle"
      BY <1>2 DEF NightRead
    <2> QED BY <1>0, <2>1, <2>2, <2>3 DEF Decided
  <1>3. CASE NightDecide
    <2>1. /\ night'.job.received = night.job.received
          /\ night' \in [job: Jobs, runs: 0 .. MaxNights]
          /\ night'.job.step = "pool" <=> night.job.received > 0 /\ 2 * night.job.received < Target
      BY <1>3, DecideNight
    <2>2. rpc["scheduler"] = NoRpc
      BY <1>3 DEF NightDecide, Decided
    <2>3. rpc'["scheduler"] # NoRpc <=> night.job.received > 0 /\ 2 * night.job.received < Target
      <3>1. ~Funded(night.job.received) <=> 2 * night.job.received < Target
        BY <1>0, SettlementAssumption DEF Funded
      <3> QED BY <1>0, <1>3, <2>2, <3>1 DEF NightDecide
    <2> QED BY <1>0, <2>1, <2>3 DEF Decided
  <1>4. CASE NightPooled
    <2>1. rpc'["scheduler"] = NoRpc
      BY <1>0, <1>4 DEF NightPooled
    <2>2. CASE JobWrites
      BY <1>0, <2>1, <2>2, WriteNight DEF Decided
    <2>3. CASE JobEnds
      BY <1>0, <2>1, <2>3, EndNight DEF Decided, JobEnds
    <2> QED BY <1>4, <2>2, <2>3 DEF NightPooled
  <1>5. CASE NightWrite \/ NightError
    <2>1. /\ night' = [night EXCEPT !.job = NoJob] /\ UNCHANGED rpc
          /\ night.job.step \in {"decide", "write"}
      BY <1>5 DEF NightWrite, NightError, JobEnds
    <2> QED BY <1>0, <2>1, EndNight DEF Decided
  <1>6. CASE Crash
    <2>1. night' = [night EXCEPT !.job = NoJob] /\ rpc'["scheduler"] = NoRpc
      BY <1>0, <1>6 DEF Crash
    <2> QED BY <1>0, <2>1, EndNight DEF Decided
  <1> QED BY <1>1, <1>2, <1>3, <1>4, <1>5, <1>6, NightSteps DEF Nightly

-----------------------------------------------------------------------------
(* The types, and the wallet invariant with them.                          *)

LEMMA NextWallet ==
    ASSUME TypeOK, P!WalletInv, [Next]_vars, Answered
    PROVE  P!WalletInv'
  <1>1. CASE UNCHANGED wallet
    BY <1>1, WalletRests
  <1>2. ASSUME NEW k \in Clients, GrpcSend(k) PROVE P!WalletInv'
    <2>1. rpc[k].req \in Requests
      BY <1>2, RpcFields DEF GrpcSend
    <2> QED BY <1>2, <2>1, WalletReceives DEF GrpcSend
  <1>3. ASSUME NEW k \in Clients, GrpcAnswer(k) PROVE P!WalletInv'
    <2>1. rpc[k].call \in Calls
      BY <1>3, RpcFields DEF GrpcAnswer, Answered, RpcGood
    <2> QED BY <1>3, <2>1, WalletGoesOn DEF GrpcAnswer
  <1>4. ASSUME NEW c \in Calls, Serve(c) PROVE P!WalletInv'
    BY <1>4, WalletGoesOn DEF Serve
  <1>5. CASE ServeError
    BY <1>5, WalletGoesOn, WalletRestarts DEF ServeError
  <1> QED BY <1>1, <1>2, <1>3, <1>4, <1>5, WalletSteps

Kept == /\ TypeOK /\ P!WalletInv /\ Journal /\ Tasked /\ Once /\ Handled /\ Decided /\ Answered

LEMMA WalletIsTyped == P!WalletInv => W!TypeOK
  BY WalletGives

LEMMA NextKept == Kept /\ [Next]_vars => Kept'
  <1> SUFFICES ASSUME Kept, [Next]_vars PROVE Kept'
    OBVIOUS
  <1> USE DEF Kept
  <1>1. Grows
    BY DbGrows
  <1>2. /\ Journal' /\ Once' /\ Handled' /\ P!WalletInv'
    BY <1>1, NextJournal, NextOnce, NextHandled, NextWallet
  <1>3. Tasked' /\ tasks' \subseteq [event: DOMAIN events', at: {"read", "settle"}, surplus: Nat]
    BY NextTasked
  <1>4. Decided' /\ night' \in [job: Jobs, runs: 0 .. MaxNights]
    BY <1>1, NextDecided
  <1>5. Answered' /\ rpc' \in [Clients -> {NoRpc} \union RpcCalls]
    BY <1>1, NextRpc, NextCalls DEF Answered
  <1>6. W!TypeOK'
    BY <1>2, WalletIsTyped, PTL
  <1>7. sent' \in [W!Keys -> Nat]
    <2>1. sent \in [W!Keys -> Nat]
      BY DEF TypeOK
    <2>2. ASSUME NEW k \in Clients, GrpcSend(k) PROVE sent' \in [W!Keys -> Nat]
      <3> PICK key : key = W!Key(rpc[k].req)
        OBVIOUS
      <3>1. key \in W!Keys /\ sent' = [sent EXCEPT ![key] = @ + 1]
        BY <2>2, RpcFields, RequestFields DEF GrpcSend
      <3> QED BY <2>1, <3>1
    <2> QED BY <2>1, <2>2, SentSteps
  <1>8. faults' \in [FaultKinds -> Nat]
    BY FaultSteps DEF TypeOK, Fault
  <1>9. /\ worker' \in [step: {"idle", "mark", "find", "credit", "complete", "log"},
                        batch: SUBSET DOMAIN events', seen: Campaigns]
        /\ worker'.step = "idle" <=> worker'.batch = {}
    BY <1>1, NextWorker
  <1>10. campaign' \in Campaigns /\ events' \in Seq(Events)
    BY <1>1 DEF Grows
  <1>11. TypeOK'
    BY <1>3, <1>4, <1>5, <1>6, <1>7, <1>8, <1>9, <1>10 DEF TypeOK
  <1> QED BY <1>2, <1>3, <1>4, <1>5, <1>11

LEMMA InitKept == Init => Kept
  <1> SUFFICES ASSUME Init PROVE Kept
    OBVIOUS
  <1>1. P!WalletInv /\ W!TypeOK
    BY WalletStarts, WalletGives DEF Init
  <1>2. events = <<>> /\ DOMAIN events = {} /\ campaign = [status |-> "ACTIVE", received |-> 0]
    BY DEF Init
  <1>3. TypeOK
    <2>1. campaign \in Campaigns /\ events \in Seq(Events)
      BY <1>2 DEF Campaigns, Statuses
    <2>2. worker \in [step: {"idle", "mark", "find", "credit", "complete", "log"},
                      batch: SUBSET DOMAIN events, seen: Campaigns]
          /\ worker.step = "idle" /\ worker.batch = {}
      BY DEF Init, Idle, Campaigns, Statuses
    <2>3. night \in [job: Jobs, runs: 0 .. MaxNights]
      BY SettlementAssumption DEF Init, NoJob, Jobs, Statuses
    <2>4. /\ rpc \in [Clients -> {NoRpc} \union RpcCalls] /\ sent \in [W!Keys -> Nat]
          /\ faults \in [FaultKinds -> Nat] /\ tasks = {}
      BY DEF Init
    <2> QED BY <1>1, <2>1, <2>2, <2>3, <2>4 DEF TypeOK
  <1>4. Journal
    <2>1. Given = {}
      BY <1>2 DEF Given
    <2> QED BY <1>2, <2>1, SumNone DEF Journal
  <1>5. Tasked /\ Once
    BY <1>2 DEF Init, Tasked, Once, NoJob
  <1>6. Handled
    BY <1>2 DEF Init, Handled, Idle, Clients
  <1>7. Decided
    BY <1>2 DEF Init, Decided, NoJob, Clients
  <1>8. Answered
    BY DEF Init, W!Init, Answered, RpcGood, CallGood, W!Busy, W!NoCall
  <1> QED BY <1>1, <1>3, <1>4, <1>5, <1>6, <1>7, <1>8 DEF Kept

LEMMA SettlementInvariant == Spec => []Kept
  BY InitKept, NextKept, PTL DEF Spec

LEMMA KeptIsCredited == Kept => CompletedIsCredited
  <1> SUFFICES ASSUME Kept, NEW i \in DOMAIN events
               PROVE  LET key == W!Key(About(i))
                      IN  /\ events[i].status = "COMPLETED" => posted[key] > 0
                          /\ key \notin doubled => posted[key] <= 1
    BY DEF CompletedIsCredited, About
  <1>1. About(i) \in Requests /\ About(i).ref # NoRef
    BY AboutAsked DEF Kept
  <1> QED BY <1>1, WalletGives DEF Kept, Handled

\* The outbox, the jobs and the calls between the services keep their types.
THEOREM SettlementTypeCorrect == Spec => []TypeOK
  <1>1. Kept => TypeOK
    BY DEF Kept
  <1> QED BY <1>1, SettlementInvariant, PTL

\* However listeners, the nightly job, crashes and late answers fall, a campaign has
\* at most one settlement in its outbox.
THEOREM CampaignSettledOnce == Spec => []SettledOnce
  <1>1. Kept => SettledOnce
    BY OnceIsOnce DEF Kept
  <1> QED BY <1>1, SettlementInvariant, PTL

\* An event that the outbox calls completed has its row in the wallet it is for, and
\* no second row unless two attempts overlapped in the user service.
THEOREM CompletedEventsCredited == Spec => []CompletedIsCredited
  BY KeptIsCredited, SettlementInvariant, PTL

-----------------------------------------------------------------------------
(* The fundraiser's wallet: at most one surplus and one pool, which together *)
(* are within what was received.                                           *)

InPool(c) == calls[c].at \in Working /\ W!Key(calls[c].req) = PoolKey

\* Pooled funds sent once are one call, and then one row.
PooledOnce == PoolKey \in W!Keys =>
    /\ sent[PoolKey] = 0 => posted[PoolKey] = 0 /\ \A c \in Calls : ~InPool(c)
    /\ sent[PoolKey] = 1 =>
         /\ posted[PoolKey] <= 1
         /\ \A c, d \in Calls : InPool(c) => posted[PoolKey] = 0 /\ (InPool(d) => c = d)

\* What the fundraiser has is a surplus s, above the target, and a pool p, below half
\* of it.
Shares(s, p) ==
    /\ total[Fundraiser] = s + p
    /\ posted[SurplusKey] = 0 => s = 0
    /\ posted[PoolKey] = 0 => p = 0
    /\ s = 0 \/ s + Target <= campaign.received
    /\ p <= campaign.received /\ 2 * p < Target

PaidFairly == sent[PoolKey] <= 1 /\ SurplusKey \notin doubled => \E s, p \in Nat : Shares(s, p)

LEMMA KeysKnown ==
    ASSUME NEW r \in Requests
    PROVE  SurplusKey \in W!Keys /\ PoolKey \in W!Keys
  <1>1. IsFiniteSet(Donations) /\ \A d \in Donations : Amount[d] \in Nat \ {0}
    BY SettlementAssumption
  <1>2. Most \in Nat
    BY <1>1, SumType DEF Most
  <1>3. ASSUME NEW d \in Donations PROVE Most >= 1
    <2>1. Most = Amount[d] + SumFunctionOnSet(Amount, Donations \ {d})
      BY <1>1, SumTakeOut DEF Most
    <2>2. SumFunctionOnSet(Amount, Donations \ {d}) \in Nat
      BY <1>1, SumType, FS_RemoveElement
    <2>3. Amount[d] \in Nat \ {0}
      BY <1>1
    <2> QED BY <2>1, <2>2, <2>3
  <1>4. Most >= 1
    BY <1>2, <1>3 DEF Requests
  <1>5. SurplusCredit(1) \in Requests /\ PoolCredit(1) \in Requests
    BY <1>2, <1>4 DEF Requests
  <1> QED BY <1>5, RequestFields DEF SurplusKey, PoolKey

LEMMA KeysAre ==
    /\ \A n : W!Key(SurplusCredit(n)) = SurplusKey /\ W!Key(PoolCredit(n)) = PoolKey
    /\ SurplusKey # PoolKey
    /\ \A d \in Donations : W!Key(DonationCredit(d)) \notin {SurplusKey, PoolKey}
  BY SettlementAssumption
  DEF W!Key, SurplusKey, PoolKey, SurplusCredit, PoolCredit, DonationCredit, Credit

LEMMA SentGrows ==
    ASSUME TypeOK, NEW k \in Clients, NEW c \in Calls, Sends(k, c)
    PROVE  /\ PoolKey \in W!Keys /\ sent[PoolKey] \in Nat
           /\ sent'[PoolKey] = IF W!Key(rpc[k].req) = PoolKey THEN sent[PoolKey] + 1
                               ELSE sent[PoolKey]
  <1> PICK key : key = W!Key(rpc[k].req)
    OBVIOUS
  <1>1. key \in W!Keys /\ PoolKey \in W!Keys /\ sent' = [sent EXCEPT ![key] = @ + 1]
    BY RpcFields, RequestFields, KeysKnown DEF Sends, GrpcSend
  <1> QED BY <1>1 DEF TypeOK

LEMMA NextPooledOnce ==
    ASSUME Kept, PooledOnce, [Next]_vars
    PROVE  PooledOnce'
  <1> SUFFICES ASSUME PoolKey \in W!Keys
               PROVE  /\ sent'[PoolKey] = 0 => posted'[PoolKey] = 0 /\ \A c \in Calls : ~InPool(c)'
                      /\ sent'[PoolKey] = 1 =>
                           /\ posted'[PoolKey] <= 1
                           /\ \A c, d \in Calls :
                                InPool(c)' => posted'[PoolKey] = 0 /\ (InPool(d)' => c = d)
    BY DEF PooledOnce, PoolKey, W!Keys, W!Key
  <1>0. TypeOK /\ W!TypeOK /\ Answered /\ posted \in [W!Keys -> Nat] /\ sent[PoolKey] \in Nat
    BY DEF Kept, TypeOK, W!TypeOK
  <1>1. CASE Quiet /\ UNCHANGED sent
    <2>1. \A c \in Calls : InPool(c)' => InPool(c)
      BY <1>1 DEF Quiet, GoesOn, InPool, Working, W!Key, PoolKey
    <2> QED BY <1>1, <2>1 DEF Quiet, Rows, PooledOnce
  <1>2. ASSUME NEW c \in Calls, W!Write(c), UNCHANGED sent
        PROVE  /\ sent'[PoolKey] = 0 => posted'[PoolKey] = 0 /\ \A e \in Calls : ~InPool(e)'
               /\ sent'[PoolKey] = 1 =>
                    /\ posted'[PoolKey] <= 1
                    /\ \A e, d \in Calls :
                         InPool(e)' => posted'[PoolKey] = 0 /\ (InPool(d)' => e = d)
    <2> PICK r : r = calls[c].req
      OBVIOUS
    <2>1. /\ r \in Requests /\ W!Key(r) \in W!Keys /\ calls[c].at = "write"
          /\ posted' = [posted EXCEPT ![W!Key(r)] = @ + 1] /\ calls'[c].at = "ok"
          /\ \A d \in Calls \ {c} : calls'[d] = calls[d]
      BY <1>0, <1>2, WriteStep, RequestFields
    <2>2. \A d \in Calls : InPool(d)' => d # c /\ InPool(d)
      BY <2>1 DEF InPool, Working, W!Key, PoolKey
    <2>3. CASE W!Key(r) = PoolKey
      <3>1. InPool(c)
        BY <2>1, <2>3 DEF InPool, Working
      <3>2. posted'[PoolKey] = posted[PoolKey] + 1
        BY <1>0, <2>1, <2>3
      <3> QED BY <1>0, <1>2, <2>2, <3>1, <3>2 DEF PooledOnce
    <2>4. CASE W!Key(r) # PoolKey
      <3>1. posted'[PoolKey] = posted[PoolKey]
        BY <1>0, <2>1, <2>4
      <3> QED BY <1>0, <1>2, <2>2, <3>1 DEF PooledOnce
    <2> QED BY <2>3, <2>4
  <1>3. ASSUME NEW k \in Clients, NEW c \in Calls, Sends(k, c)
        PROVE  /\ sent'[PoolKey] = 0 => posted'[PoolKey] = 0 /\ \A e \in Calls : ~InPool(e)'
               /\ sent'[PoolKey] = 1 =>
                    /\ posted'[PoolKey] <= 1
                    /\ \A e, d \in Calls :
                         InPool(e)' => posted'[PoolKey] = 0 /\ (InPool(d)' => e = d)
    <2> PICK r : r = rpc[k].req
      OBVIOUS
    <2>1. r \in Requests
      BY <1>0, <1>3, RpcFields DEF Sends, GrpcSend
    <2>2. /\ UNCHANGED Rows /\ calls[c].at = "idle" /\ calls'[c].req = r
          /\ \A d \in Calls \ {c} : calls'[d] = calls[d]
      BY <1>0, <1>3, <2>1, ReceiveStep DEF Sends
    <2>3. /\ posted' = posted
          /\ \A d \in Calls : InPool(d)' => InPool(d) \/ (d = c /\ W!Key(r) = PoolKey)
      BY <2>2 DEF InPool, Working, W!Key, PoolKey, Rows
    <2>4. sent'[PoolKey] = IF W!Key(r) = PoolKey THEN sent[PoolKey] + 1 ELSE sent[PoolKey]
      BY <1>0, <1>3, SentGrows
    <2>5. ~InPool(c)
      BY <2>2 DEF InPool, Working
    <2> QED BY <1>0, <2>3, <2>4, <2>5 DEF PooledOnce
  <1> QED BY <1>0, <1>1, <1>2, <1>3, WalletMoves

\* A share stays right when the campaign receives more.
LEMMA SharesStay ==
    ASSUME TypeOK, Grows, UNCHANGED <<total, posted>>, NEW s \in Nat, NEW p \in Nat, Shares(s, p)
    PROVE  Shares(s, p)'
  <1>1. /\ campaign.received \in Nat /\ campaign'.received \in Nat /\ Target \in Nat
        /\ campaign'.received >= campaign.received
    BY SettlementAssumption DEF TypeOK, Grows, Campaigns
  <1> QED BY <1>1 DEF Shares, SurplusKey, PoolKey, W!Key

LEMMA WrittenShares ==
    ASSUME Kept, PooledOnce, Grows, NEW c \in Calls, W!Write(c),
           sent[PoolKey] <= 1, SurplusKey \notin doubled,
           NEW s \in Nat, NEW p \in Nat, Shares(s, p)
    PROVE  \E t, q \in Nat : Shares(t, q)'
  <1> PICK r : r = calls[c].req
    OBVIOUS
  <1>0. /\ TypeOK /\ W!TypeOK /\ posted \in [W!Keys -> Nat] /\ sent[PoolKey] \in Nat
        /\ total \in [Wallets -> Int] /\ Fundraiser \in Wallets
        /\ campaign.received \in Nat /\ campaign'.received \in Nat /\ Target \in Nat
        /\ campaign'.received >= campaign.received /\ Target > 0
        /\ SurplusKey \in W!Keys /\ PoolKey \in W!Keys /\ SurplusKey # PoolKey
    <2>1. TypeOK /\ W!TypeOK /\ r \in Requests
      BY WriteStep DEF Kept, TypeOK
    <2>2. SurplusKey \in W!Keys /\ PoolKey \in W!Keys
      BY <2>1, KeysKnown
    <2>3. posted \in [W!Keys -> Nat] /\ total \in [Wallets -> Int] /\ Fundraiser \in Wallets
      BY <2>1 DEF W!TypeOK, Wallets
    <2>4. /\ campaign.received \in Nat /\ campaign'.received \in Nat
          /\ campaign'.received >= campaign.received
      BY <2>1 DEF TypeOK, Grows, Campaigns
    <2>5. sent[PoolKey] \in Nat /\ Target \in Nat /\ Target > 0
      BY <2>1, <2>2, SettlementAssumption DEF TypeOK
    <2> QED BY <2>1, <2>2, <2>3, <2>4, <2>5, KeysAre
  <1>1. /\ r \in Requests /\ calls[c].at = "write"
        /\ total' = [total EXCEPT ![r.wallet] = @ + r.amount]
        /\ posted' = [posted EXCEPT ![W!Key(r)] = @ + 1]
    BY <1>0, WriteStep
  <1>2. Asked(r)
    BY <1>1 DEF Kept, Answered, CallGood, W!Busy
  <1>3. /\ total[Fundraiser] = s + p
        /\ posted[SurplusKey] = 0 => s = 0
        /\ posted[PoolKey] = 0 => p = 0
        /\ s = 0 \/ s + Target <= campaign.received
        /\ p <= campaign.received /\ 2 * p < Target
    BY DEF Shares
  <1>4. SUFFICES \E t, q \in Nat :
                   /\ total'[Fundraiser] = t + q
                   /\ posted'[SurplusKey] = 0 => t = 0
                   /\ posted'[PoolKey] = 0 => q = 0
                   /\ t = 0 \/ t + Target <= campaign'.received
                   /\ q <= campaign'.received /\ 2 * q < Target
    BY DEF Shares, SurplusKey, PoolKey, W!Key
  <1>5. ASSUME NEW d \in Donations, r = DonationCredit(d)
        PROVE  \E t, q \in Nat :
                   /\ total'[Fundraiser] = t + q
                   /\ posted'[SurplusKey] = 0 => t = 0
                   /\ posted'[PoolKey] = 0 => q = 0
                   /\ t = 0 \/ t + Target <= campaign'.received
                   /\ q <= campaign'.received /\ 2 * q < Target
    <2>1. r.wallet # Fundraiser /\ W!Key(r) \notin {SurplusKey, PoolKey}
      BY <1>5, KeysAre, SettlementAssumption DEF DonationCredit, Credit
    <2>2. /\ total'[Fundraiser] = total[Fundraiser] /\ posted'[SurplusKey] = posted[SurplusKey]
          /\ posted'[PoolKey] = posted[PoolKey]
      BY <1>0, <1>1, <2>1
    <2>3. (s = 0 \/ s + Target <= campaign'.received) /\ p <= campaign'.received
      BY <1>0, <1>3
    <2> QED BY <1>3, <2>2, <2>3
  <1>6. ASSUME NEW i \in DOMAIN events, events[i].kind = "settled",
               r = SurplusCredit(events[i].amount)
        PROVE  \E t, q \in Nat :
                   /\ total'[Fundraiser] = t + q
                   /\ posted'[SurplusKey] = 0 => t = 0
                   /\ posted'[PoolKey] = 0 => q = 0
                   /\ t = 0 \/ t + Target <= campaign'.received
                   /\ q <= campaign'.received /\ 2 * q < Target
    <2> PICK n : n = events[i].amount
      OBVIOUS
    <2>1. n \in Nat /\ n + Target <= campaign.received
      BY <1>0, <1>6, EventFields DEF Kept, Journal, EventTrue
    <2>2. r.wallet = Fundraiser /\ r.amount = n /\ W!Key(r) = SurplusKey /\ r.ref # NoRef
      BY <1>6, KeysAre, SettlementAssumption DEF SurplusCredit, Credit
    <2>3. posted[SurplusKey] = 0
      BY <1>1, <2>2, WalletGives DEF Kept
    <2>4. /\ total'[Fundraiser] = total[Fundraiser] + n /\ posted'[SurplusKey] = 1
          /\ posted'[PoolKey] = posted[PoolKey]
      BY <1>0, <1>1, <2>2, <2>3
    <2>5. total'[Fundraiser] = n + p /\ n + Target <= campaign'.received /\ p <= campaign'.received
      BY <1>0, <1>3, <2>1, <2>3, <2>4
    <2> QED BY <1>3, <2>1, <2>4, <2>5
  <1>7. ASSUME NEW n \in 1 .. campaign.received, r = PoolCredit(n), 2 * n < Target
        PROVE  \E t, q \in Nat :
                   /\ total'[Fundraiser] = t + q
                   /\ posted'[SurplusKey] = 0 => t = 0
                   /\ posted'[PoolKey] = 0 => q = 0
                   /\ t = 0 \/ t + Target <= campaign'.received
                   /\ q <= campaign'.received /\ 2 * q < Target
    <2>1. r.wallet = Fundraiser /\ r.amount = n /\ W!Key(r) = PoolKey /\ n \in Nat
      BY <1>7, KeysAre DEF PoolCredit, Credit
    <2>2. InPool(c)
      BY <1>1, <2>1 DEF InPool, Working
    <2>3. posted[PoolKey] = 0
      BY <1>0, <2>2 DEF PooledOnce
    <2>4. /\ total'[Fundraiser] = total[Fundraiser] + n /\ posted'[PoolKey] = 1
          /\ posted'[SurplusKey] = posted[SurplusKey]
      BY <1>0, <1>1, <2>1, <2>3
    <2>5. /\ total'[Fundraiser] = s + n /\ n <= campaign'.received
          /\ s = 0 \/ s + Target <= campaign'.received
      BY <1>0, <1>3, <2>1, <2>3, <2>4
    <2> QED BY <1>3, <1>7, <2>1, <2>4, <2>5
  <1> QED BY <1>2, <1>5, <1>6, <1>7 DEF Asked

LEMMA NextPaid ==
    ASSUME Kept, PooledOnce, PaidFairly, [Next]_vars
    PROVE  PaidFairly'
  <1>0. TypeOK /\ W!TypeOK /\ Answered /\ Grows
    BY DbGrows DEF Kept, TypeOK
  <1> SUFFICES ASSUME sent'[PoolKey] <= 1, SurplusKey \notin doubled'
               PROVE  \E s, p \in Nat : Shares(s, p)'
    BY DEF PaidFairly, PoolKey, SurplusKey, W!Key
  <1>1. CASE Quiet /\ UNCHANGED sent
    <2>1. PICK s, p \in Nat : Shares(s, p)
      BY <1>1 DEF Quiet, PaidFairly
    <2>2. UNCHANGED <<total, posted>>
      BY <1>1 DEF Quiet, Rows
    <2> QED BY <1>0, <2>1, <2>2, SharesStay
  <1>2. ASSUME NEW c \in Calls, W!Write(c), UNCHANGED sent
        PROVE  \E s, p \in Nat : Shares(s, p)'
    <2>1. doubled' = doubled
      BY <1>0, <1>2, WriteStep
    <2>2. PICK s, p \in Nat : Shares(s, p)
      BY <1>2, <2>1 DEF PaidFairly
    <2> QED BY <1>0, <1>2, <2>1, <2>2, WrittenShares
  <1>3. ASSUME NEW k \in Clients, NEW c \in Calls, Sends(k, c)
        PROVE  \E s, p \in Nat : Shares(s, p)'
    <2>1. UNCHANGED Rows /\ doubled' = doubled
      BY <1>0, <1>3, RpcFields, ReceiveStep DEF Sends, GrpcSend
    <2>2. sent[PoolKey] <= 1
      BY <1>0, <1>3, SentGrows
    <2>3. PICK s, p \in Nat : Shares(s, p)
      BY <2>1, <2>2 DEF PaidFairly
    <2> QED BY <1>0, <2>1, <2>3, SharesStay DEF Rows
  <1> QED BY <1>0, <1>1, <1>2, <1>3, WalletMoves

WellPaid == Kept /\ PooledOnce /\ PaidFairly

LEMMA FundedInvariant == Spec => []WellPaid
  <1>1. Init => WellPaid
    <2> SUFFICES ASSUME Init PROVE PooledOnce /\ PaidFairly
      BY InitKept DEF WellPaid
    <2>1. PooledOnce
      BY DEF Init, W!Init, W!NoCall, PooledOnce, InPool, Working
    <2>2. Shares(0, 0)
      BY SettlementAssumption DEF Init, W!Init, Shares, Wallets
    <2> QED BY <2>1, <2>2 DEF PaidFairly
  <1>2. WellPaid /\ [Next]_vars => WellPaid'
    BY NextKept, NextPooledOnce, NextPaid DEF WellPaid
  <1> QED BY <1>1, <1>2, PTL DEF Spec

LEMMA FundedIsWithin == WellPaid => FundraiserWithinReceived
  <1> SUFFICES ASSUME WellPaid, sent[PoolKey] <= 1, SurplusKey \notin doubled
               PROVE  total[Fundraiser] <= campaign.received
    BY DEF FundraiserWithinReceived, PoolKey, SurplusKey
  <1>1. PICK s, p \in Nat : Shares(s, p)
    BY DEF WellPaid, PaidFairly
  <1>2. campaign.received \in Nat /\ Target \in Nat
    BY SettlementAssumption DEF WellPaid, Kept, TypeOK, Campaigns
  <1> QED BY <1>1, <1>2 DEF Shares

\* The surplus and the pooled funds that reach the fundraiser's wallet are within what
\* the campaign has received, in whatever order the listeners and the nightly job work,
\* as long as the pooled funds were sent once and no surplus credits overlapped.
THEOREM FundraiserPaidWithin == Spec => []FundraiserWithinReceived
  BY FundedInvariant, FundedIsWithin, PTL
====
