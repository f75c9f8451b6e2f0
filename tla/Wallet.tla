---- MODULE Wallet ----
(***************************************************************************)
(* Wallets of the user service (apps/user: repositories/wallet.repository  *)
(* and services/wallet/wallet-transaction.service): credits, debits and    *)
(* outgoing bank transfers, each one gRPC call answered by steps that other *)
(* calls run between.                                                      *)
(*                                                                         *)
(* A database transaction here is not one step: it reads the balance       *)
(* without a lock, at the default isolation level, and writes a balance it *)
(* computed.  Its writes are one step.                                     *)
(***************************************************************************)
EXTENDS Integers, FiniteSets

CONSTANTS
    Wallets,    \* wallets, all of them created before they are used
    Opening,    \* Opening[w]: the balance wallet w starts with
    Requests,   \* requests the service may be sent
    NoRef,      \* the reference of a request that carries none
    Calls,      \* bound: calls being answered at once
    MaxRows     \* bound: rows in the transaction table

ASSUME WalletAssumption ==
    /\ Opening \in [Wallets -> Nat]
    /\ \A r \in Requests :
         /\ DOMAIN r = {"op", "wallet", "ref", "amount"}
         /\ r.op \in {"credit", "debit", "bankOut"}
         /\ r.wallet \in Wallets
         /\ r.amount \in Nat \ {0}
    /\ MaxRows \in Nat

VARIABLES
    balance,  \* balance[w]: the balance column of wallet w
    total,    \* total[w]: signed sum of the transaction rows of wallet w
    posted,   \* posted[k]: transaction rows with key k
    count,    \* rows in the transaction table
    calls,    \* calls[c]: the call being answered in c
    crossed,  \* history: wallets on which two calls overlapped after reading
    doubled   \* history: keys of which two calls overlapped after checking

table   == <<balance, total, posted, count>>
history == <<crossed, doubled>>
vars    == <<table, calls, history>>

Key(r) == <<r.op, r.wallet, r.ref>>
Keys == {Key(r) : r \in Requests}

NoCall == [at |-> "idle"]
InCall == [at: {"check", "read", "write", "ok", "failed"}, req: Requests, read: Int]
Busy(c) == calls[c].at # "idle"

Init ==
    /\ balance = Opening
    /\ total = [w \in Wallets |-> 0]
    /\ posted = [k \in Keys |-> 0]
    /\ count = 0
    /\ calls = [c \in Calls |-> NoCall]
    /\ crossed = {} /\ doubled = {}

-----------------------------------------------------------------------------
\* Mutant: a credit and a bank transfer start without it too.
FirstStep_NoLook(r) == "read"

\* Only a debit starts without a look for an earlier row.
FirstStep(r) == IF r.op = "debit" THEN "read" ELSE "check"

Receive(c, r) ==
    /\ ~Busy(c)
    /\ calls' = [calls EXCEPT ![c] = [at |-> FirstStep(r), req |-> r, read |-> 0]]
    /\ UNCHANGED <<table, history>>

Goto(c, step) == calls' = [calls EXCEPT ![c].at = step]

\* Mutant: the look for an earlier row leaves out the reference.
Recorded_NoReference(r) == FALSE

\* The key of creditWallet is the payment id, or else the SePay id, of a row of
\* the same wallet; that of processBankTransferOut is the SePay id.
Recorded(r) == r.ref # NoRef /\ posted[Key(r)] > 0

\* Calls past the check for the key of call c, and not finished.
PastCheck(c) == {d \in Calls \ {c} :
    Busy(d) /\ calls[d].at \in {"read", "write"} /\ Key(calls[d].req) = Key(calls[c].req)}

\* A repeated credit is answered with the earlier row, a repeated bank transfer
\* with an error.
Check(c) ==
    /\ calls[c].at = "check"
    /\ LET r == calls[c].req IN
       \/ /\ Recorded(r)
          /\ Goto(c, IF r.op = "credit" THEN "ok" ELSE "failed")
          /\ UNCHANGED doubled
       \/ /\ ~Recorded(r)
          /\ Goto(c, "read")
          /\ doubled' = IF PastCheck(c) # {} THEN doubled \union {Key(r)} ELSE doubled
    /\ UNCHANGED <<table, crossed>>

\* Mutant: the balance is not compared with the amount.
Covered_Always(r) == TRUE

Covered(r) == r.op = "credit" \/ r.amount <= balance[r.wallet]

\* Calls that have read the balance call c is about to read, and not written it.
PastRead(c) == {d \in Calls \ {c} :
    calls[d].at = "write" /\ calls[d].req.wallet = calls[c].req.wallet}

\* The balance is read: inside the transaction by a credit and a debit, before it
\* by a bank transfer.
ReadBalance(c) ==
    /\ calls[c].at = "read"
    /\ LET r == calls[c].req IN
       \/ ~Covered(r) /\ Goto(c, "failed") /\ UNCHANGED crossed
       \/ /\ Covered(r)
          /\ calls' = [calls EXCEPT ![c] = [@ EXCEPT !.at = "write",
                                                     !.read = balance[r.wallet]]]
          /\ crossed' = IF PastRead(c) # {} THEN crossed \union {r.wallet} ELSE crossed
    /\ UNCHANGED <<table, doubled>>

Signed(r) == IF r.op = "credit" THEN r.amount ELSE 0 - r.amount

\* Mutant: a debit is recorded without touching the balance.
BalanceAfter_CreditsOnly(c) ==
    calls[c].read + (IF calls[c].req.op = "credit" THEN calls[c].req.amount ELSE 0)

BalanceAfter(c) == calls[c].read + Signed(calls[c].req)

\* The row and the balance computed from what was read are written together.
Write(c) ==
    /\ calls[c].at = "write"
    /\ count < MaxRows
    /\ LET r == calls[c].req IN
       /\ balance' = [balance EXCEPT ![r.wallet] = BalanceAfter(c)]
       /\ total' = [total EXCEPT ![r.wallet] = @ + Signed(r)]
       /\ posted' = [posted EXCEPT ![Key(r)] = @ + 1]
    /\ count' = count + 1
    /\ Goto(c, "ok")
    /\ UNCHANGED history

\* A database error undoes the transaction; the answer says success: false.
DbError(c) ==
    /\ calls[c].at \in {"check", "read", "write"}
    /\ Goto(c, "failed")
    /\ UNCHANGED <<table, history>>

\* The answer is sent, or nobody waits for it any more.
Reply(c) ==
    /\ calls[c].at \in {"ok", "failed"}
    /\ calls' = [calls EXCEPT ![c] = NoCall]
    /\ UNCHANGED <<table, history>>

\* The user service restarts: transactions in progress are undone.
Restart ==
    /\ \E c \in Calls : Busy(c)
    /\ calls' = [c \in Calls |-> NoCall]
    /\ UNCHANGED <<table, history>>

Answer(c) == Check(c) \/ ReadBalance(c) \/ Write(c) \/ DbError(c)

Next ==
    \/ \E c \in Calls : Answer(c) \/ Reply(c)
    \/ \E c \in Calls, r \in Requests : Receive(c, r)
    \/ Restart

Spec == Init /\ [][Next]_vars

-----------------------------------------------------------------------------
\* The shapes of the tables and calls; a balance is never negative, however the
\* debits and bank transfers of a wallet overlap.
TypeOK ==
    /\ balance \in [Wallets -> Nat]
    /\ total \in [Wallets -> Int]
    /\ posted \in [Keys -> Nat]
    /\ count \in Nat
    /\ calls \in [Calls -> {NoCall} \union InCall]
    /\ \A c \in Calls : calls[c].at = "write" => BalanceAfter(c) >= 0
    /\ crossed \subseteq Wallets
    /\ doubled \subseteq Keys

\* The balance of a wallet is its opening balance plus its rows, credits, debits
\* and bank transfers alike, unless two calls have both read it before either
\* wrote: whatever fails or is undone in between.
BalanceMatchesRows == \A w \in Wallets \ crossed : balance[w] = Opening[w] + total[w]

Referenced(r) == r.op # "debit" /\ r.ref # NoRef

\* A referenced request that is sent any number of times, after an answer, an
\* error or a restart, leaves one row, unless two of its calls have both passed
\* the check before either wrote.
OneRowPerReference == \A r \in Requests :
    Referenced(r) /\ Key(r) \notin doubled => posted[Key(r)] <= 1

\* What a request is to the ledger: a signed entry, posted once if it has a reference
\* that is looked for.
AsEntry(r) == [account |-> r.wallet, amount |-> Signed(r), key |-> Key(r),
               once |-> Referenced(r)]

Book == INSTANCE Ledger WITH
    Accounts <- Wallets, Opening <- Opening, Entries <- {AsEntry(r) : r \in Requests},
    balance <- balance, posted <- posted, loose <- crossed, repeated <- doubled

\* Calls answered in steps, with errors and restarts in between, do what a ledger does
\* that posts each of them at once: a step changes one balance by the amount of one
\* request or changes no table, unless it is on a wallet, or repeats a reference, on
\* which calls have overlapped.
PostsLikeLedger == Book!Spec

\* wallet.repository.ts, debitWallet, "Get wallet with lock": from the time a
\* debit has read a wallet until it ends, no other call changes the balance.
DebitHoldsLock == [][\A c \in Calls :
    (/\ calls[c].at = "write" /\ calls[c].req.op = "debit"
     /\ calls'[c] = calls[c])
    => balance'[calls[c].req.wallet] = balance[calls[c].req.wallet]]_vars

====
