---- MODULE Ledger ----
(***************************************************************************)
(* What the wallets promise: accounts on which an entry is posted in one   *)
(* step, that is, the balance changes by its amount and never goes below   *)
(* zero, and an entry that may be posted once is posted once.  The promise *)
(* can be given up, for one account or one key at a time and for good.     *)
(***************************************************************************)
EXTENDS Integers

CONSTANTS
    Accounts,  \* accounts
    Opening,   \* Opening[a]: the balance account a starts with
    Entries    \* records: the account, the signed amount, the key, and whether an
               \* entry with this key is posted only once

VARIABLES
    balance,   \* balance[a]: the balance of account a
    posted,    \* posted[k]: entries posted with key k
    loose,     \* accounts whose balance is not promised
    repeated   \* keys that may be posted again

ledger == <<balance, posted, loose, repeated>>

Init ==
    /\ balance = Opening
    /\ posted = [k \in {e.key : e \in Entries} |-> 0]
    /\ loose = {} /\ repeated = {}

MayPost(e) == e.once /\ e.key \notin repeated => posted[e.key] = 0

Post(e) ==
    /\ MayPost(e)
    /\ posted' = [posted EXCEPT ![e.key] = @ + 1]
    /\ balance' = [balance EXCEPT ![e.account] = balance'[e.account]]
    /\ balance'[e.account] >= 0
    /\ e.account \notin loose => balance'[e.account] = balance[e.account] + e.amount
    /\ UNCHANGED <<loose, repeated>>

GiveUpAccount(a) == loose' = loose \union {a} /\ UNCHANGED <<balance, posted, repeated>>

GiveUpKey(e) ==
    repeated' = repeated \union {e.key} /\ UNCHANGED <<balance, posted, loose>>

Next ==
    \/ \E e \in Entries : Post(e) \/ GiveUpKey(e)
    \/ \E a \in Accounts : GiveUpAccount(a)

Spec == Init /\ [][Next]_ledger
====
