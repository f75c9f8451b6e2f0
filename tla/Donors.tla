---- MODULE Donors ----
(***************************************************************************)
(* What a donor has given and the badge for it (apps/campaign: the last    *)
(* steps of processors/outbox.processor, services/donation/badge-award.    *)
(* service; apps/user: UpdateDonorStats, GetUserWithStats and              *)
(* AwardBadgeToDonor of the gRPC controller, services/badge).  The outbox  *)
(* processor takes one event after the other; a call it gives up goes on   *)
(* in the user service, beside the attempts and events that follow.        *)
(*                                                                         *)
(* One donor: events of others pass in between without touching it.        *)
(***************************************************************************)
EXTENDS Naturals, Sequences, FiniteSetsExt, Functions

CONSTANTS
    Gifts,        \* donations of the donor
    Worth,        \* Worth[g]: the amount of gift g
    Milestones,   \* Milestones[b]: the least total for badge b, ascending
    GiftCalls,    \* bound: calls the user service works on at once
    StatTries,    \* attempts of UpdateDonorStats
    AwardTries,   \* attempts of AwardBadgeToDonor
    MaxGiveUps,   \* bound: calls that fail or are given up
    MaxByHand     \* bound: what administrators do

Badges == DOMAIN Milestones

ASSUME DonorsAssumption ==
    /\ IsFiniteSet(Gifts) /\ Worth \in [Gifts -> Nat \ {0}]
    /\ IsFiniteSet(GiftCalls) /\ "none" \notin GiftCalls
    /\ Milestones \in Seq(Nat) \ {<<>>} /\ Milestones[1] = 0
    /\ StatTries \in Nat \ {0} /\ AwardTries \in Nat \ {0}
    /\ MaxGiveUps \in Nat /\ MaxByHand \in Nat

VARIABLES
    unsent,    \* gifts whose event is still to be processed
    given,     \* the donor's row: total_donated and donation_count
    badge,     \* the badge of the donor; 0 for none
    offered,   \* badges that are active
    errand,    \* the outbox processor: its step, gift, badge, attempts, awaited call
    services,  \* services[c]: the call the user service works on
    giveUps,   \* what is left of MaxGiveUps
    byHand,    \* what is left of MaxByHand
    answered   \* history: gifts whose UpdateDonorStats was answered with success

donorVars == <<unsent, given, badge, offered, errand, services, giveUps, byHand,
               answered>>

NoErrand == [at |-> "idle", gift |-> "none", badge |-> 0, tries |-> 0, call |-> "none"]
NoService == [at |-> "free", gift |-> "none", badge |-> 0, found |-> 0]

DonorsInit ==
    /\ unsent = Gifts
    /\ given = [total |-> 0, count |-> 0]
    /\ badge = 0 /\ offered = Badges
    /\ errand = NoErrand
    /\ services = [c \in GiftCalls |-> NoService]
    /\ giveUps = MaxGiveUps /\ byHand = MaxByHand
    /\ answered = {}

GivesUp == giveUps > 0 /\ giveUps' = giveUps - 1

-----------------------------------------------------------------------------
\* handleDonationSuccess, up to the statistics: a failed credit fails the event, which
\* is not fetched again (Settlement.tla); a donor it cannot look up is passed over.
TakeGift(g) ==
    /\ errand.at = "idle" /\ g \in unsent
    /\ unsent' = unsent \ {g}
    /\ \/ /\ errand' = [NoErrand EXCEPT !.at = "stats", !.gift = g, !.tries = StatTries]
          /\ UNCHANGED giveUps
       \/ GivesUp /\ UNCHANGED errand
    /\ UNCHANGED <<given, badge, offered, services, byHand, answered>>

\* The next attempt of a call reaches the user service.
SendStats(c) ==
    /\ errand.at = "stats" /\ errand.call = "none" /\ services[c] = NoService
    /\ services' = [services EXCEPT ![c] = [NoService EXCEPT !.at = "stats", !.gift = errand.gift]]
    /\ errand' = [errand EXCEPT !.call = c]
    /\ UNCHANGED <<unsent, given, badge, offered, giveUps, byHand, answered>>

SendAward(c) ==
    /\ errand.at = "award" /\ errand.call = "none" /\ services[c] = NoService
    /\ services' = [services EXCEPT ![c] = [NoService EXCEPT !.at = "check", !.badge = errand.badge]]
    /\ errand' = [errand EXCEPT !.call = c]
    /\ UNCHANGED <<unsent, given, badge, offered, giveUps, byHand, answered>>

\* updateDonorStats is over when it is answered, well or not, or out of attempts; its
\* caller swallows the error.  So does checkAndAwardBadge.
NextErrand == IF errand.at = "stats" THEN [errand EXCEPT !.at = "look", !.call = "none"] ELSE NoErrand

Answered ==
    LET c == errand.call IN
    /\ c # "none" /\ services[c].at \in {"ok", "refused"}
    /\ errand' = NextErrand
    /\ services' = [services EXCEPT ![c] = NoService]
    /\ answered' = answered \union
         IF errand.at = "stats" /\ services[c].at = "ok" THEN {errand.gift} ELSE {}
    /\ UNCHANGED <<unsent, given, badge, offered, giveUps, byHand>>

\* The deadline passes or the connection breaks: the call goes on, or never arrived.
GiveUp ==
    LET c == errand.call IN
    /\ c # "none" /\ GivesUp
    /\ errand' = IF errand.tries > 1 THEN [errand EXCEPT !.tries = @ - 1, !.call = "none"]
                 ELSE NextErrand
    /\ \/ services[c].at \in {"stats", "check", "write"} /\ UNCHANGED services
       \/ services[c].at # "write" /\ services' = [services EXCEPT ![c] = NoService]
    /\ UNCHANGED <<unsent, given, badge, offered, byHand, answered>>

\* Mutant: the first milestone in ascending order is taken.
Highest_First(total) == 1

\* findHighestMilestone
Highest(total) == Max({b \in Badges : Milestones[b] <= total})

\* checkAndAwardBadge: GetUserWithStats; nothing is awarded if it fails.
LookAtStats ==
    /\ errand.at = "look"
    /\ \/ /\ errand' = [errand EXCEPT !.at = "award", !.badge = Highest(given.total),
                                      !.tries = AwardTries]
          /\ UNCHANGED giveUps
       \/ GivesUp /\ errand' = NoErrand
    /\ UNCHANGED <<unsent, given, badge, offered, services, byHand, answered>>

-----------------------------------------------------------------------------
(* The user service.  Nobody waits for the end of a call that was given up. *)

Ends(c, at) ==
    services' = [services EXCEPT ![c] = IF errand.call = c THEN [@ EXCEPT !.at = at]
                                        ELSE NoService]

\* Mutant: the amount is set, not added.
Grown_Set(row, amount) == [total |-> amount, count |-> row.count + 1]

Grown(row, amount) == [total |-> row.total + amount, count |-> row.count + 1]

\* updateDonorStats: one increment of both columns, or a database error.
UpdateStats(c) ==
    /\ services[c].at = "stats"
    /\ \/ given' = Grown(given, Worth[services[c].gift]) /\ Ends(c, "ok") /\ UNCHANGED giveUps
       \/ GivesUp /\ Ends(c, "refused") /\ UNCHANGED given
    /\ UNCHANGED <<unsent, badge, offered, errand, byHand, answered>>

\* awardBadge: findBadgeById and findUserBadge.
AwardCheck(c) ==
    LET b == services[c].badge IN
    /\ services[c].at = "check"
    /\ CASE b \notin offered -> Ends(c, "refused")
         [] b \in offered /\ badge = b -> Ends(c, "ok")
         [] OTHER -> services' = [services EXCEPT ![c].at = "write", ![c].found = badge]
    /\ UNCHANGED <<unsent, given, badge, offered, errand, giveUps, byHand, answered>>

\* Mutant: who has a badge keeps it.
Replaced_Kept(found, b) == IF found = 0 THEN b ELSE found

\* The badge found is replaced, be it higher or lower.
Replaced(found, b) == b

\* awardBadge or updateBadge of the repository: a donor has one row, an update needs it.
AwardWrite(c) ==
    LET q == services[c] IN
    /\ q.at = "write"
    /\ IF (q.found = 0) = (badge = 0)
       THEN badge' = Replaced(q.found, q.badge) /\ Ends(c, "ok")
       ELSE Ends(c, "refused") /\ UNCHANGED badge
    /\ UNCHANGED <<unsent, given, offered, errand, giveUps, byHand, answered>>

-----------------------------------------------------------------------------
(* Administrators award and revoke, and switch badges on and off. *)

ByHand == byHand > 0 /\ byHand' = byHand - 1

AwardByHand(c, b) ==
    /\ ByHand /\ services[c] = NoService
    /\ services' = [services EXCEPT ![c] = [NoService EXCEPT !.at = "check", !.badge = b]]
    /\ UNCHANGED <<unsent, given, badge, offered, errand, giveUps, answered>>

Revoke ==
    /\ ByHand /\ badge # 0
    /\ badge' = 0
    /\ UNCHANGED <<unsent, given, offered, errand, services, giveUps, answered>>

Switch(b) ==
    /\ ByHand
    /\ offered' = IF b \in offered THEN offered \ {b} ELSE offered \union {b}
    /\ UNCHANGED <<unsent, given, badge, errand, services, giveUps, answered>>

-----------------------------------------------------------------------------
DonorsNext ==
    \/ \E g \in Gifts : TakeGift(g)
    \/ Answered \/ GiveUp \/ LookAtStats \/ Revoke
    \/ \E c \in GiftCalls :
         \/ SendStats(c) \/ SendAward(c) \/ UpdateStats(c) \/ AwardCheck(c) \/ AwardWrite(c)
         \/ \E b \in Badges : AwardByHand(c, b)
    \/ \E b \in Badges : Switch(b)

DonorsSpec == DonorsInit /\ [][DonorsNext]_donorVars

-----------------------------------------------------------------------------
\* The shapes of the donor's row, the processor's errand and the calls.
DonorsTypeOK ==
    /\ unsent \subseteq Gifts /\ answered \subseteq Gifts
    /\ given \in [total: Nat, count: Nat]
    /\ badge \in Badges \union {0} /\ offered \subseteq Badges
    /\ errand \in [at: {"idle", "stats", "look", "award"}, gift: Gifts \union {"none"},
                   badge: Badges \union {0}, tries: 0..(StatTries + AwardTries),
                   call: GiftCalls \union {"none"}]
    /\ services \in [GiftCalls -> [at: {"free", "stats", "check", "write", "ok", "refused"},
                                   gift: Gifts \union {"none"}, badge: Badges \union {0},
                                   found: Badges \union {0}]]
    /\ giveUps \in Nat /\ byHand \in Nat

SumOf(gs) == SumFunctionOnSet(Worth, gs)
Failed == giveUps < MaxGiveUps

\* The statistics hold every gift whose update was answered, and none more often than it
\* was tried, whatever is given up or arrives late; while no call fails, the gifts that
\* were processed exactly once.
GiftsCounted ==
    /\ SumOf(answered) <= given.total
    /\ given.total <= StatTries * SumOf(Gifts \ unsent)
    /\ ~Failed /\ errand.at = "idle" => given.total = SumOf(Gifts \ unsent)

\* No badge is above what was given, however awards that were given up arrive among later
\* ones; and while no call fails it is the one for the total once the event is done.  Left
\* out: badges an administrator had a hand in.
BadgeMatchesGifts == byHand = MaxByHand =>
    /\ badge # 0 => Milestones[badge] <= given.total
    /\ ~Failed /\ errand.at = "idle" /\ given.count > 0 =>
         badge # 0 /\ \A b \in Badges : Milestones[b] <= given.total => b <= badge
====
