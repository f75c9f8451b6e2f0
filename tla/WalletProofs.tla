---- MODULE WalletProofs ----
(***************************************************************************)
(* Proofs about Wallet: that balances and transaction rows agree on every  *)
(* wallet whose calls never overlapped, and that a reference is recorded   *)
(* once, for any wallets, requests and number of calls.                    *)
(*                                                                         *)
(* The invariant: on a wallet not crossed at most one call has read the     *)
(* balance and not written it, and what it read is the balance; of a key    *)
(* not doubled at most one call is past the check, and then has no row.     *)
(***************************************************************************)
EXTENDS Wallet, TLAPS

Holds(c, w) == calls[c].at = "write" /\ calls[c].req.wallet = w
Checked(c, k) == calls[c].at \in {"read", "write"} /\ Key(calls[c].req) = k

ReadIsBalance == \A w \in Wallets \ crossed :
    /\ balance[w] = Opening[w] + total[w]
    /\ \A c \in Calls : Holds(c, w) => calls[c].read = balance[w]
    /\ \A c, d \in Calls : Holds(c, w) /\ Holds(d, w) => c = d

CheckedIsNew == \A r \in Requests : Referenced(r) /\ Key(r) \notin doubled =>
    /\ posted[Key(r)] <= 1
    /\ \A c \in Calls : Checked(c, Key(r)) => posted[Key(r)] = 0
    /\ \A c, d \in Calls : Checked(c, Key(r)) /\ Checked(d, Key(r)) => c = d

WalletInv == TypeOK /\ ReadIsBalance /\ CheckedIsNew

\* A request's fields have their types.
LEMMA RequestTypes ==
    ASSUME NEW r \in Requests
    PROVE  /\ r.op \in {"credit", "debit", "bankOut"}
           /\ r.wallet \in Wallets
           /\ r.amount \in Nat \ {0}
           /\ r.amount \in Nat
           /\ Key(r) \in Keys
           /\ Signed(r) \in Int
  BY WalletAssumption DEF Keys, Signed

\* A call in progress is a record of InCall.
LEMMA BusyCall ==
    ASSUME TypeOK, NEW c \in Calls, calls[c].at # "idle"
    PROVE  /\ calls[c] \in InCall /\ calls[c].req \in Requests /\ calls[c].read \in Int
           /\ calls[c].at \in {"check", "read", "write", "ok", "failed"}
  BY DEF TypeOK, InCall, NoCall

\* The initial state satisfies the invariant.
LEMMA WalletInit == Init => WalletInv
  <1> SUFFICES ASSUME Init PROVE WalletInv
    OBVIOUS
  <1>1. TypeOK
    BY WalletAssumption DEF Init, TypeOK, NoCall
  <1>2. \A c \in Calls : calls[c].at = "idle"
    BY DEF Init, NoCall
  <1>3. ReadIsBalance
    BY <1>2, WalletAssumption DEF Init, ReadIsBalance, Holds
  <1>4. CheckedIsNew
    BY <1>2, RequestTypes DEF Init, CheckedIsNew, Checked
  <1> QED BY <1>1, <1>3, <1>4 DEF WalletInv

\* A step that only ends calls, or moves a call to a step that holds nothing,
\* keeps the invariant: no table changes and no call gains a hold.
LEMMA Release ==
    ASSUME WalletInv, TypeOK', UNCHANGED <<table, history>>,
           \A c \in Calls : \/ calls'[c] = calls[c]
                            \/ calls'[c].at \notin {"read", "write"}
    PROVE  WalletInv'
  <1>1. ReadIsBalance'
    BY DEF WalletInv, ReadIsBalance, Holds, table, history
  <1>2. CheckedIsNew'
    BY DEF WalletInv, CheckedIsNew, Checked, table, history
  <1> QED BY <1>1, <1>2 DEF WalletInv

LEMMA ReceiveKeeps ==
    ASSUME WalletInv, NEW c \in Calls, NEW r \in Requests, Receive(c, r)
    PROVE  WalletInv'
  <1> DEFINE new == [at |-> FirstStep(r), req |-> r, read |-> 0]
  <1>1. /\ new \in InCall /\ new.at \in {"check", "read"} /\ new.req = r
        /\ new.at = "read" => r.op = "debit"
    BY RequestTypes DEF InCall, FirstStep
  <1>2. /\ calls' = [calls EXCEPT ![c] = new] /\ UNCHANGED <<table, history>>
        /\ calls'[c] = new /\ \A d \in Calls \ {c} : calls'[d] = calls[d]
    BY DEF Receive, WalletInv, TypeOK
  <1> HIDE DEF new
  <1>3. TypeOK'
    BY <1>1, <1>2 DEF WalletInv, TypeOK, table, history, BalanceAfter
  <1>4. ReadIsBalance'
    BY <1>1, <1>2 DEF WalletInv, ReadIsBalance, Holds, table, history
  <1>5. CheckedIsNew'
    <2> SUFFICES ASSUME NEW q \in Requests, Referenced(q), Key(q) \notin doubled
                 PROVE  /\ posted[Key(q)] <= 1
                        /\ \A d \in Calls : Checked(d, Key(q))' => posted[Key(q)] = 0
                        /\ \A d, e \in Calls :
                              Checked(d, Key(q))' /\ Checked(e, Key(q))' => d = e
      BY <1>2 DEF CheckedIsNew, table, history
    <2>1. ~ Checked(c, Key(q))'
      BY <1>1, <1>2 DEF Checked, Key, Referenced
    <2>2. \A d \in Calls : Checked(d, Key(q))' => Checked(d, Key(q))
      BY <1>2, <2>1 DEF Checked
    <2> QED BY <2>2 DEF WalletInv, CheckedIsNew
  <1> QED BY <1>3, <1>4, <1>5 DEF WalletInv

LEMMA CheckKeeps ==
    ASSUME WalletInv, NEW c \in Calls, Check(c)
    PROVE  WalletInv'
  <1> DEFINE r == calls[c].req
             next == calls'[c].at
  <1>1. r \in Requests /\ calls[c] \in InCall /\ Key(r) \in Keys
    BY BusyCall, RequestTypes DEF WalletInv, Check
  <1>2. /\ calls' = [calls EXCEPT ![c].at = next] /\ UNCHANGED <<table, crossed>>
        /\ calls'[c] = [calls[c] EXCEPT !.at = next]
        /\ \A d \in Calls \ {c} : calls'[d] = calls[d]
        /\ next \in {"read", "ok", "failed"}
    BY <1>1 DEF Check, Goto, WalletInv, TypeOK, InCall
  <1>3. /\ next = "read" => ~Recorded(r)
        /\ doubled' \in SUBSET Keys /\ doubled \subseteq doubled'
        /\ next = "read" /\ PastCheck(c) # {} => Key(r) \in doubled'
    BY <1>1, <1>2 DEF Check, Goto, WalletInv, TypeOK, InCall
  <1>4. calls'[c].req = r /\ calls'[c] \in InCall
    BY <1>1, <1>2 DEF InCall
  <1> HIDE DEF r, next
  <1>5. TypeOK'
    BY <1>2, <1>3, <1>4 DEF WalletInv, TypeOK, table, BalanceAfter
  <1>6. ReadIsBalance'
    BY <1>2 DEF WalletInv, ReadIsBalance, Holds, table, next
  <1>7. CheckedIsNew'
    <2> SUFFICES ASSUME NEW q \in Requests, Referenced(q), Key(q) \notin doubled'
                 PROVE  /\ posted[Key(q)] <= 1
                        /\ \A d \in Calls : Checked(d, Key(q))' => posted[Key(q)] = 0
                        /\ \A d, e \in Calls :
                              Checked(d, Key(q))' /\ Checked(e, Key(q))' => d = e
      BY <1>2 DEF CheckedIsNew, table
    <2>1. \A d \in Calls \ {c} : Checked(d, Key(q))' <=> Checked(d, Key(q))
      BY <1>2 DEF Checked
    <2>2. /\ posted[Key(q)] <= 1
          /\ \A d \in Calls : Checked(d, Key(q)) => posted[Key(q)] = 0
          /\ \A d, e \in Calls : Checked(d, Key(q)) /\ Checked(e, Key(q)) => d = e
      BY <1>3 DEF WalletInv, CheckedIsNew
    <2>3. CASE ~ Checked(c, Key(q))'
      BY <2>1, <2>2, <2>3
    <2>4. CASE Checked(c, Key(q))'
      <3>1. next = "read" /\ Key(q) = Key(r) /\ ~Recorded(r) /\ r.ref # NoRef
        BY <2>4, <1>2, <1>3, <1>4 DEF Checked, next, Key, Referenced
      <3>2. posted[Key(q)] = 0
        <4>1. posted[Key(r)] \in Nat /\ ~ (posted[Key(r)] > 0)
          BY <1>1, <3>1 DEF WalletInv, TypeOK, Recorded
        <4> QED BY <3>1, <4>1
      <3>3. PastCheck(c) = {}
        BY <3>1, <1>3
      <3>4. \A d \in Calls \ {c} : ~ Checked(d, Key(q))'
        BY <2>1, <3>1, <3>3 DEF PastCheck, Checked, Busy, r
      <3> QED BY <2>2, <3>2, <3>4
    <2> QED BY <2>3, <2>4
  <1> QED BY <1>5, <1>6, <1>7 DEF WalletInv

LEMMA ReadKeeps ==
    ASSUME WalletInv, NEW c \in Calls, ReadBalance(c)
    PROVE  WalletInv'
  <1> DEFINE r == calls[c].req
  <1>1. r \in Requests /\ calls[c] \in InCall /\ r.wallet \in Wallets
        /\ calls[c].at = "read" /\ UNCHANGED <<table, doubled>>
    BY BusyCall, RequestTypes DEF WalletInv, ReadBalance
  <1>2. CASE ~Covered(r) /\ Goto(c, "failed") /\ UNCHANGED crossed
    <2>1. /\ calls'[c] = [calls[c] EXCEPT !.at = "failed"]
          /\ calls'[c] \in InCall /\ calls'[c].at = "failed"
          /\ calls' \in [Calls -> {NoCall} \union InCall]
          /\ \A d \in Calls \ {c} : calls'[d] = calls[d]
      BY <1>1, <1>2 DEF Goto, WalletInv, TypeOK, InCall
    <2>2. TypeOK'
      BY <1>1, <1>2, <2>1 DEF WalletInv, TypeOK, table, BalanceAfter
    <2> QED BY <1>1, <1>2, <2>1, <2>2, Release DEF table, history
  <1>3. CASE /\ Covered(r)
             /\ calls' = [calls EXCEPT ![c] = [@ EXCEPT !.at = "write",
                                                        !.read = balance[r.wallet]]]
             /\ crossed' = IF PastRead(c) # {} THEN crossed \union {r.wallet} ELSE crossed
    <2>1. /\ calls'[c].at = "write" /\ calls'[c].req = r
          /\ calls'[c].read = balance[r.wallet]
          /\ calls'[c] \in InCall
          /\ \A d \in Calls \ {c} : calls'[d] = calls[d]
          /\ calls' \in [Calls -> {NoCall} \union InCall]
      <3> DEFINE new == [calls[c] EXCEPT !.at = "write", !.read = balance[r.wallet]]
      <3>1. balance[r.wallet] \in Int
        BY <1>1 DEF WalletInv, TypeOK
      <3>2. new \in InCall /\ new.at = "write" /\ new.req = r /\ new.read = balance[r.wallet]
        BY <1>1, <3>1 DEF InCall
      <3>3. calls' = [calls EXCEPT ![c] = new] /\ calls \in [Calls -> {NoCall} \union InCall]
        BY <1>3 DEF WalletInv, TypeOK
      <3> HIDE DEF new
      <3> QED BY <3>2, <3>3
    <2>2. BalanceAfter(c)' >= 0
      <3>1. balance[r.wallet] \in Nat /\ r.amount \in Nat
        BY <1>1, RequestTypes DEF WalletInv, TypeOK
      <3>2. balance[r.wallet] + Signed(r) >= 0
        BY <3>1, <1>3 DEF Covered, Signed
      <3>3. BalanceAfter(c)' = balance[r.wallet] + Signed(r)
        BY <2>1 DEF BalanceAfter, Signed
      <3> QED BY <3>2, <3>3
    <2>3. \A d \in Calls \ {c} : BalanceAfter(d)' = BalanceAfter(d)
      BY <2>1 DEF BalanceAfter
    <2> HIDE DEF r
    <2>4. TypeOK'
      <3>1. \A d \in Calls : calls'[d].at = "write" => BalanceAfter(d)' >= 0
        BY <2>1, <2>2, <2>3 DEF WalletInv, TypeOK
      <3> QED BY <1>1, <1>3, <2>1, <3>1 DEF WalletInv, TypeOK, table
    <2>5. ReadIsBalance'
      <3> SUFFICES ASSUME NEW w \in Wallets, w \notin crossed'
                   PROVE  /\ balance[w] = Opening[w] + total[w]
                          /\ \A d \in Calls : Holds(d, w)' => calls'[d].read = balance[w]
                          /\ \A d, e \in Calls : Holds(d, w)' /\ Holds(e, w)' => d = e
        BY <1>1 DEF ReadIsBalance, table
      <3>1. w \notin crossed /\ (w = r.wallet => PastRead(c) = {})
        BY <1>3
      <3>2. \A d \in Calls \ {c} : Holds(d, w)' <=> Holds(d, w)
        BY <2>1 DEF Holds
      <3>3. Holds(c, w)' <=> w = r.wallet
        BY <2>1 DEF Holds
      <3>4. w = r.wallet => \A d \in Calls \ {c} : ~ Holds(d, w)
        BY <3>1 DEF PastRead, Holds, r
      <3> QED BY <3>1, <3>2, <3>3, <3>4, <2>1 DEF WalletInv, ReadIsBalance
    <2>6. CheckedIsNew'
      <3>1. \A d \in Calls : \A k : Checked(d, k)' <=> Checked(d, k)
        BY <1>1, <2>1 DEF Checked, r
      <3> QED BY <1>1, <3>1 DEF WalletInv, CheckedIsNew, table
    <2> QED BY <2>4, <2>5, <2>6 DEF WalletInv
  <1> QED BY <1>2, <1>3 DEF ReadBalance

LEMMA WriteKeeps ==
    ASSUME WalletInv, NEW c \in Calls, Write(c)
    PROVE  WalletInv'
  <1> DEFINE r == calls[c].req
  <1>1. /\ r \in Requests /\ r.wallet \in Wallets /\ Key(r) \in Keys /\ Signed(r) \in Int
        /\ calls[c] \in InCall /\ calls[c].at = "write" /\ UNCHANGED history
    BY BusyCall, RequestTypes DEF WalletInv, Write
  <1>2. /\ calls'[c] \in InCall /\ calls'[c].at = "ok"
        /\ calls' \in [Calls -> {NoCall} \union InCall]
        /\ \A d \in Calls \ {c} : calls'[d] = calls[d]
    BY <1>1 DEF Write, Goto, WalletInv, TypeOK, InCall
  <1>3. BalanceAfter(c) \in Nat /\ BalanceAfter(c) = calls[c].read + Signed(r)
    <2>1. calls[c].read \in Int /\ BalanceAfter(c) >= 0
      BY <1>1 DEF WalletInv, TypeOK, InCall
    <2> QED BY <1>1, <2>1 DEF BalanceAfter
  <1>4. /\ balance' = [balance EXCEPT ![r.wallet] = BalanceAfter(c)]
        /\ total' = [total EXCEPT ![r.wallet] = @ + Signed(r)]
        /\ posted' = [posted EXCEPT ![Key(r)] = @ + 1]
        /\ count' = count + 1
    BY DEF Write
  <1> HIDE DEF r
  <1>5. TypeOK'
    <2>1. \A d \in Calls : calls'[d].at = "write" => BalanceAfter(d)' >= 0
      BY <1>2 DEF WalletInv, TypeOK, BalanceAfter
    <2> QED BY <1>1, <1>2, <1>3, <1>4, <2>1 DEF WalletInv, TypeOK, history
  <1>6. ReadIsBalance'
    <2> SUFFICES ASSUME NEW w \in Wallets, w \notin crossed
                 PROVE  /\ balance'[w] = Opening[w] + total'[w]
                        /\ \A d \in Calls : Holds(d, w)' => calls'[d].read = balance'[w]
                        /\ \A d, e \in Calls : Holds(d, w)' /\ Holds(e, w)' => d = e
      BY <1>1 DEF ReadIsBalance, history
    <2>1. \A d \in Calls : Holds(d, w)' => d # c /\ Holds(d, w)
      BY <1>2 DEF Holds
    <2>2. /\ balance[w] = Opening[w] + total[w]
          /\ \A d \in Calls : Holds(d, w) => calls[d].read = balance[w]
          /\ \A d, e \in Calls : Holds(d, w) /\ Holds(e, w) => d = e
      BY DEF WalletInv, ReadIsBalance
    <2>3. CASE w = r.wallet
      <3>1. Holds(c, w)
        BY <1>1, <2>3 DEF Holds, r
      <3>2. balance'[w] = balance[w] + Signed(r) /\ total'[w] = total[w] + Signed(r)
        BY <1>3, <1>4, <2>2, <2>3, <3>1 DEF WalletInv, TypeOK
      <3>3. Opening[w] \in Nat /\ total[w] \in Int /\ Signed(r) \in Int
        BY <1>1, WalletAssumption DEF WalletInv, TypeOK
      <3>4. \A d \in Calls : ~ Holds(d, w)'
        BY <2>1, <2>2, <3>1
      <3> QED BY <2>2, <3>2, <3>3, <3>4
    <2>4. CASE w # r.wallet
      <3>1. balance'[w] = balance[w] /\ total'[w] = total[w]
        BY <1>4, <2>4 DEF WalletInv, TypeOK
      <3>2. \A d \in Calls : Holds(d, w)' => calls'[d] = calls[d]
        BY <1>2, <2>1
      <3> QED BY <2>1, <2>2, <3>1, <3>2
    <2> QED BY <2>3, <2>4
  <1>7. CheckedIsNew'
    <2> SUFFICES ASSUME NEW q \in Requests, Referenced(q), Key(q) \notin doubled
                 PROVE  /\ posted'[Key(q)] <= 1
                        /\ \A d \in Calls : Checked(d, Key(q))' => posted'[Key(q)] = 0
                        /\ \A d, e \in Calls :
                              Checked(d, Key(q))' /\ Checked(e, Key(q))' => d = e
      BY <1>1 DEF CheckedIsNew, history
    <2>1. \A d \in Calls : Checked(d, Key(q))' => d # c /\ Checked(d, Key(q))
      BY <1>2 DEF Checked
    <2>2. /\ posted[Key(q)] <= 1
          /\ \A d \in Calls : Checked(d, Key(q)) => posted[Key(q)] = 0
          /\ \A d, e \in Calls : Checked(d, Key(q)) /\ Checked(e, Key(q)) => d = e
      BY DEF WalletInv, CheckedIsNew
    <2>3. CASE Key(q) = Key(r)
      <3>1. Checked(c, Key(q))
        BY <1>1, <2>3 DEF Checked, r
      <3>2. posted'[Key(q)] = 1
        BY <1>1, <1>4, <2>2, <2>3, <3>1 DEF WalletInv, TypeOK
      <3>3. \A d \in Calls : ~ Checked(d, Key(q))'
        BY <2>1, <2>2, <3>1
      <3> QED BY <3>2, <3>3
    <2>4. CASE Key(q) # Key(r)
      <3>1. posted'[Key(q)] = posted[Key(q)]
        BY <1>4, <2>4, RequestTypes DEF WalletInv, TypeOK
      <3> QED BY <2>1, <2>2, <3>1
    <2> QED BY <2>3, <2>4
  <1> QED BY <1>5, <1>6, <1>7 DEF WalletInv

\* Errors, answers and restarts only release calls.
LEMMA EndKeeps ==
    ASSUME WalletInv, Restart \/ \E c \in Calls : DbError(c) \/ Reply(c)
    PROVE  WalletInv'
  <1>1. UNCHANGED <<table, history>>
    BY DEF Restart, DbError, Reply
  <1>2. CASE Restart
    <2>1. \A c \in Calls : calls'[c] = NoCall /\ calls'[c].at = "idle"
      BY <1>2 DEF Restart, NoCall
    <2>2. TypeOK'
      BY <1>1, <1>2, <2>1 DEF Restart, WalletInv, TypeOK, table, history
    <2> QED BY <1>1, <2>1, <2>2, Release
  <1>3. ASSUME NEW c \in Calls, DbError(c) PROVE WalletInv'
    <2>1. /\ calls'[c] = [calls[c] EXCEPT !.at = "failed"]
          /\ calls'[c] \in InCall /\ calls'[c].at = "failed"
          /\ calls' \in [Calls -> {NoCall} \union InCall]
          /\ \A d \in Calls \ {c} : calls'[d] = calls[d]
      BY <1>3, BusyCall DEF DbError, Goto, WalletInv, TypeOK, InCall
    <2>2. TypeOK'
      BY <1>1, <2>1 DEF WalletInv, TypeOK, table, history, BalanceAfter
    <2> QED BY <1>1, <2>1, <2>2, Release
  <1>4. ASSUME NEW c \in Calls, Reply(c) PROVE WalletInv'
    <2>1. /\ calls'[c] = NoCall /\ calls'[c].at = "idle"
          /\ calls' \in [Calls -> {NoCall} \union InCall]
          /\ \A d \in Calls \ {c} : calls'[d] = calls[d]
      BY <1>4 DEF Reply, WalletInv, TypeOK, NoCall
    <2>2. TypeOK'
      BY <1>1, <2>1 DEF WalletInv, TypeOK, table, history, BalanceAfter
    <2> QED BY <1>1, <2>1, <2>2, Release
  <1> QED BY <1>2, <1>3, <1>4

LEMMA WalletStep == WalletInv /\ [Next]_vars => WalletInv'
  <1> SUFFICES ASSUME WalletInv, [Next]_vars PROVE WalletInv'
    OBVIOUS
  <1>1. CASE UNCHANGED vars
    <2>1. UNCHANGED <<table, history>> /\ UNCHANGED calls
      BY <1>1 DEF vars
    <2>2. TypeOK'
      BY <2>1 DEF WalletInv, TypeOK, table, history, BalanceAfter
    <2> QED BY <2>1, <2>2, Release
  <1>2. ASSUME NEW c \in Calls, Answer(c) \/ Reply(c) PROVE WalletInv'
    BY <1>2, CheckKeeps, ReadKeeps, WriteKeeps, EndKeeps DEF Answer
  <1>3. ASSUME NEW c \in Calls, NEW r \in Requests, Receive(c, r) PROVE WalletInv'
    BY <1>3, ReceiveKeeps
  <1>4. CASE Restart
    BY <1>4, EndKeeps
  <1> QED BY <1>1, <1>2, <1>3, <1>4 DEF Next

LEMMA WalletInvariant == Spec => []WalletInv
  BY WalletInit, WalletStep, PTL DEF Spec

\* Whatever calls overlap, the tables keep their types and no balance of the user
\* service becomes negative.
THEOREM WalletTyped == Spec => []TypeOK
  <1>1. WalletInv => TypeOK
    BY DEF WalletInv
  <1> QED BY <1>1, WalletInvariant, PTL

\* On a wallet whose calls never overlapped between reading and writing, creditWallet,
\* debitWallet and atomicWithdrawal keep the balance equal to the transaction rows.
THEOREM BalancesMatch == Spec => []BalanceMatchesRows
  <1>1. WalletInv => BalanceMatchesRows
    BY DEF WalletInv, ReadIsBalance, BalanceMatchesRows
  <1> QED BY <1>1, WalletInvariant, PTL

\* A payment id or SePay id whose calls never overlapped between the check and the
\* write has at most one row, however often the caller repeats the call.
THEOREM ReferenceRecordedOnce == Spec => []OneRowPerReference
  <1>1. WalletInv => OneRowPerReference
    BY DEF WalletInv, CheckedIsNew, OneRowPerReference
  <1> QED BY <1>1, WalletInvariant, PTL

-----------------------------------------------------------------------------
(* The refinement: a write is a posting, noticing an overlap gives up an    *)
(* account or a key, and every other step is a stutter.                    *)

\* The keys of the ledger are those of the requests, and what a request posts is the
\* entry that stands for it.
LEMMA EntryOfRequest ==
    /\ {e.key : e \in {AsEntry(r) : r \in Requests}} = Keys
    /\ \A r \in Requests :
         /\ AsEntry(r).account = r.wallet /\ AsEntry(r).amount = Signed(r)
         /\ AsEntry(r).key = Key(r) /\ AsEntry(r).once = Referenced(r)
  <1>1. \A r \in Requests :
          /\ AsEntry(r).account = r.wallet /\ AsEntry(r).amount = Signed(r)
          /\ AsEntry(r).key = Key(r) /\ AsEntry(r).once = Referenced(r)
    BY DEF AsEntry
  <1> QED BY <1>1 DEF Keys

LEMMA LedgerInit == Init => Book!Init
  BY EntryOfRequest DEF Init, Book!Init

\* A step that leaves the tables and the history alone stutters.
LEMMA LedgerStutter == ASSUME UNCHANGED <<table, history>> PROVE UNCHANGED Book!ledger
  BY DEF table, history, Book!ledger

\* A check stutters, or gives up the key that two calls have checked.
LEMMA CheckIsLedger ==
    ASSUME WalletInv, NEW c \in Calls, Check(c)
    PROVE  [Book!Next]_(Book!ledger)
  <1> DEFINE r == calls[c].req
  <1>1. r \in Requests
    BY BusyCall DEF WalletInv, Check
  <1>2. UNCHANGED <<table, crossed>> /\ doubled' \in {doubled, doubled \union {Key(r)}}
    BY DEF Check
  <1>3. CASE doubled' = doubled
    BY <1>2, <1>3, LedgerStutter DEF history
  <1>4. CASE doubled' = doubled \union {Key(r)}
    <2>1. Book!GiveUpKey(AsEntry(r))
      BY <1>1, <1>2, <1>4, EntryOfRequest DEF Book!GiveUpKey, table
    <2> QED BY <1>1, <2>1 DEF Book!Next
  <1> QED BY <1>2, <1>3, <1>4

\* Reading a balance stutters, or gives up the wallet that two calls have read.
LEMMA ReadIsLedger ==
    ASSUME WalletInv, NEW c \in Calls, ReadBalance(c)
    PROVE  [Book!Next]_(Book!ledger)
  <1> DEFINE r == calls[c].req
  <1>1. r \in Requests /\ r.wallet \in Wallets
    BY BusyCall, RequestTypes DEF WalletInv, ReadBalance
  <1>2. UNCHANGED <<table, doubled>> /\ crossed' \in {crossed, crossed \union {r.wallet}}
    BY DEF ReadBalance
  <1>3. CASE crossed' = crossed
    BY <1>2, <1>3, LedgerStutter DEF history
  <1>4. CASE crossed' = crossed \union {r.wallet}
    <2>1. Book!GiveUpAccount(r.wallet)
      BY <1>2, <1>4 DEF Book!GiveUpAccount, table
    <2> QED BY <1>1, <2>1 DEF Book!Next
  <1> QED BY <1>2, <1>3, <1>4

\* A write posts the entry of its request: what was read is still the balance of a
\* wallet not given up, and a key not given up has no row.
LEMMA WriteIsLedger ==
    ASSUME WalletInv, NEW c \in Calls, Write(c)
    PROVE  [Book!Next]_(Book!ledger)
  <1> DEFINE r == calls[c].req
             e == AsEntry(r)
  <1>1. /\ r \in Requests /\ r.wallet \in Wallets /\ Key(r) \in Keys
        /\ Signed(r) \in Int /\ calls[c].read \in Int /\ calls[c].at = "write"
    BY BusyCall, RequestTypes DEF WalletInv, Write
  <1>2. /\ balance' = [balance EXCEPT ![r.wallet] = BalanceAfter(c)]
        /\ posted' = [posted EXCEPT ![Key(r)] = @ + 1]
        /\ UNCHANGED history
    BY DEF Write
  <1>3. BalanceAfter(c) >= 0 /\ BalanceAfter(c) = calls[c].read + Signed(r)
    BY <1>1 DEF WalletInv, TypeOK, BalanceAfter
  <1>4. e.account = r.wallet /\ e.amount = Signed(r) /\ e.key = Key(r)
        /\ e.once = Referenced(r)
    BY <1>1, EntryOfRequest
  <1>5. balance'[r.wallet] = BalanceAfter(c)
    BY <1>1, <1>2 DEF WalletInv, TypeOK
  <1>6. r.wallet \notin crossed => calls[c].read = balance[r.wallet]
    BY <1>1 DEF WalletInv, ReadIsBalance, Holds
  <1>7. Referenced(r) /\ Key(r) \notin doubled => posted[Key(r)] = 0
    BY <1>1 DEF WalletInv, CheckedIsNew, Checked
  <1> HIDE DEF r, e
  <1>8. Book!MayPost(e)
    BY <1>4, <1>7 DEF Book!MayPost
  <1>9. Book!Post(e)
    BY <1>2, <1>3, <1>4, <1>5, <1>6, <1>8 DEF Book!Post, history
  <1>10. e \in {AsEntry(q) : q \in Requests}
    BY <1>1 DEF e
  <1> QED BY <1>9, <1>10 DEF Book!Next

LEMMA LedgerStep == WalletInv /\ [Next]_vars => [Book!Next]_(Book!ledger)
  <1> SUFFICES ASSUME WalletInv, [Next]_vars PROVE [Book!Next]_(Book!ledger)
    OBVIOUS
  <1>1. CASE UNCHANGED vars
    BY <1>1, LedgerStutter DEF vars
  <1>2. ASSUME NEW c \in Calls, Answer(c) PROVE [Book!Next]_(Book!ledger)
    <2>1. CASE DbError(c)
      BY <2>1, LedgerStutter DEF DbError
    <2> QED BY <1>2, <2>1, CheckIsLedger, ReadIsLedger, WriteIsLedger DEF Answer
  <1>3. ASSUME NEW c \in Calls, Reply(c) \/ \E r \in Requests : Receive(c, r)
        PROVE  [Book!Next]_(Book!ledger)
    BY <1>3, LedgerStutter DEF Reply, Receive
  <1>4. CASE Restart
    BY <1>4, LedgerStutter DEF Restart
  <1> QED BY <1>1, <1>2, <1>3, <1>4 DEF Next

\* The gRPC handlers of the wallets implement the ledger, with any number of calls at
\* once: but for the overlaps, a call has its whole effect in one step or none at all.
THEOREM WalletImplementsLedger == Spec => PostsLikeLedger
  BY LedgerInit, LedgerStep, WalletInvariant, PTL DEF Spec, PostsLikeLedger, Book!Spec

====
