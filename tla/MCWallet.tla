---- MODULE MCWallet ----
(***************************************************************************)
(* Instances of Wallet for TLC.                                            *)
(***************************************************************************)
EXTENDS Wallet, TLC

CONSTANTS admin, fundraiser, payment, transferOut

Request(op, wallet, ref, amount) ==
    [op |-> op, wallet |-> wallet, ref |-> ref, amount |-> amount]

\* A donation of 2 is credited to the administrator, an outgoing transfer takes 1.
\* A settled surplus and an unreferenced one go to the fundraiser, whose wallet is
\* debited when a campaign of theirs is approved.
AllRequests == {
    Request("credit", admin, payment, 2),
    Request("bankOut", admin, transferOut, 1),
    Request("credit", fundraiser, payment, 2),
    Request("credit", fundraiser, NoRef, 1),
    Request("debit", fundraiser, NoRef, 2)}

Debits == {Request("debit", fundraiser, NoRef, 1)}

OpeningOne == [w \in Wallets |-> 1]
OpeningTwo == [w \in Wallets |-> 2]

CallSymmetry == Permutations(Calls)
====
