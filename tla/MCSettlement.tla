---- MODULE MCSettlement ----
(***************************************************************************)
(* Instances of Settlement for TLC.                                        *)
(***************************************************************************)
EXTENDS Settlement, TLC

CONSTANTS d1, d2

\* A third of the target, then the rest and one more.
ThirdAndMore == [d \in Donations |-> IF d = d1 THEN 1 ELSE 3]

Faults(dbErrors, walletErrors, late, restarts, crashes) == [k \in FaultKinds |->
    CASE k = "db" -> dbErrors [] k = "wallet" -> walletErrors [] k = "late" -> late
      [] k = "restart" -> restarts [] k = "crash" -> crashes]

OneEach == Faults(1, 1, 1, 1, 1)
OneWalletError == Faults(0, 1, 0, 0, 0)

CallSymmetry == Permutations(Calls)
====
