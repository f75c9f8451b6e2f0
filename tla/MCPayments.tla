---- MODULE MCPayments ----
(***************************************************************************)
(* Instances of Payments for TLC.                                          *)
(***************************************************************************)
EXTENDS Payments, TLC

CONSTANTS o1, t1, t2, t3

\* One order of price 2.
OnePrice == [o \in Orders |-> 2]

\* t1 pays the order in full; t2 carries an unknown number, t3 none.
FullAndStray == [t \in Transfers |-> IF t = t1 THEN 2 ELSE 1]
FirstForOrder == [t \in Transfers |->
    CASE t = t1 -> o1 [] t = t2 -> StrayOrder [] t = t3 -> NoOrder]

\* Two transfers for the order: t1 all of the price, t2 half of it.
FullAndHalf == [t \in Transfers |-> IF t = t1 THEN 2 ELSE 1]
BothForOrder == [t \in Transfers |-> o1]

Deliveries(payos, fail, sepay) == [k \in HookKinds |->
    CASE k = "payos" -> payos [] k = "fail" -> fail [] k = "sepay" -> sepay]
Faults(redisErrors, dbErrors, grpcErrors, crashes) == [k \in FaultKinds |->
    CASE k = "redis" -> redisErrors [] k = "db" -> dbErrors
      [] k = "grpc" -> grpcErrors [] k = "crash" -> crashes]

TwiceEach == Deliveries(2, 1, 2)
OnceEach == Deliveries(1, 0, 1)
OneFaultEach == Faults(1, 1, 1, 1)

\* Either the price comes in two transfers, or there is one and things go wrong: a
\* failure is reported, an administrator steps in, Redis, the database or a call fails.
Troubled ==
    \/ \E k \in FaultKinds : faults[k] > 0
    \/ \E h \in FailHooks : delivered[h] > 0
    \/ approved # {} \/ \E a \in Admins : desk[a] # None
SplitOrTroubled == ~(t2 \in made /\ Troubled)

SlotSymmetry == Permutations(Slots)
====
