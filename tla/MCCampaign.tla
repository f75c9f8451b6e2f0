---- MODULE MCCampaign ----
(***************************************************************************)
(* Instances of CampaignLifecycle for TLC.                                 *)
(***************************************************************************)
EXTENDS CampaignLifecycle, TLC

CONSTANTS c1, c2, p1, p2

Scenario(begin, starts, gifts, kinds, faults, services) ==
    [begin |-> begin, starts |-> starts, gifts |-> gifts, kinds |-> kinds, faults |-> faults,
     services |-> services]

\* Two handlers and one fault of the campaign service, whatever the campaign begins
\* with; one approval whose requests are late or fail; and two handlers beside the other
\* services, with donations enough for a surplus.
TwoHandlers == {Scenario(s, 2, 1, {"error", "crash", "redis"}, 1, {}) :
                s \in {"PENDING", "ACTIVE", "PROCESSING"}}
LateApproval == {Scenario("PENDING", 1, 1, {"late", "error"}, 2, {})}
OtherServices == {Scenario("ACTIVE", 2, 2, {}, 0, {"settlement"}),
                  Scenario("PROCESSING", 2, 0, {}, 0, {"reassignment"})}
AllScenarios == TwoHandlers \union LateApproval \union OtherServices

\* Permuting the phases or the handlers changes nothing.
Symmetry == Permutations(Phases) \union Permutations(Calls)
====
