---- MODULE MCDisbursement ----
(***************************************************************************)
(* Instances of Disbursement for TLC.                                      *)
(***************************************************************************)
EXTENDS Disbursement, TLC

CONSTANTS i1, i2, c1, c2, d1, u1, u2

\* Ingredient requests i1 and i2, cooking requests c1 and c2 of two users, delivery
\* request d1; half the budget or all of it.
KindOf == [r \in Requests |-> CASE r \in {i1, i2} -> "INGREDIENT"
                              [] r \in {c1, c2} -> "COOKING" [] OTHER -> "DELIVERY"]
Users == [r \in Requests |-> IF r = c2 THEN u2 ELSE u1]
Costs == [r \in Requests |-> IF r = i2 THEN 2 ELSE 1]
BudgetOfTwo == [k \in Kinds |-> 2]

\* Jobs are alike; so are c1 and c2, of one kind and one cost and of users who have
\* no other request of that kind.
Symmetry == Permutations(Jobs) \union Permutations({c1, c2})

\* Either ingredients are paid, or cooking and delivery; a step fails among ingredient
\* requests only, and the phase is moved by hand only where there is one.
Used(rs) == \E r \in rs \intersect Requests : status[r] # "NONE" \/ On(r) # {}
OneTrouble ==
    /\ ~(Used({i1, i2}) /\ Used({c1, c2, d1}))
    /\ Used({c1, c2, d1}) => faults = 0
    /\ Used({i2, c1, c2, d1}) => byHand = 0
====
