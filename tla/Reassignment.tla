---- MODULE Reassignment ----
(***************************************************************************)
(* A cancelled campaign is offered to other organizations (apps/campaign:  *)
(* services/campaign-reassignment, its repository and nightly job): an     *)
(* administrator makes the offers, fundraisers accept or decline them, the *)
(* job expires what nobody answered and asks for refunds.                  *)
(*                                                                         *)
(* Every request checks first and writes later, without a condition.       *)
(***************************************************************************)
EXTENDS Naturals, FiniteSets

CONSTANTS
    Campaigns,    \* campaigns, cancelled at first
    Orgs,         \* organizations that may be offered one
    Founders,     \* organizations the campaigns were started by; offers to them are left out
    FirstStatuses,  \* what the campaigns were before they were cancelled
    Desks,        \* bound: requests at once
    OfferLife,    \* REASSIGNMENT_EXPIRY_DAYS
    MaxCancels,   \* bound: cancellations of an accepted campaign
    MaxJobErrors  \* bound: runs of the job that fail half way

ASSUME ReassignmentAssumption ==
    /\ Founders \intersect Orgs = {}
    /\ FirstStatuses \subseteq {"APPROVED", "ACTIVE", "PROCESSING"}
    /\ OfferLife \in Nat \ {0}
    /\ MaxCancels \in Nat /\ MaxJobErrors \in Nat

VARIABLES
    campaigns,  \* campaigns[k]: status, organization, and the status before CANCELLED
    offers,     \* offers[k][g]: the row of campaign k and organization g ("NONE" if none), days left
    desks,      \* desks[d]: the request in progress
    expiryJob,  \* the nightly job: its step, overdue offers and campaigns still to do
    again,      \* what is left of MaxCancels
    jobErrors,  \* what is left of MaxJobErrors
    overtaken   \* history: campaigns of which an answer was written while another
                \* answer, or the job, had passed its look at the offers

offerVars == <<campaigns, offers, desks, expiryJob, again, jobErrors, overtaken>>

OfferStatuses == {"NONE", "PENDING", "APPROVED", "REJECTED", "EXPIRED"}
NoRequest == [at |-> "idle"]
JobAsleep == [at |-> "idle", due |-> {}, refund |-> {}]

ReassignmentInit ==
    /\ campaigns \in [Campaigns -> [status: {"CANCELLED"}, owner: Founders,
                                    was: FirstStatuses]]
    /\ offers = [k \in Campaigns |-> [g \in Orgs |-> [status |-> "NONE", left |-> 0]]]
    /\ desks = [d \in Desks |-> NoRequest]
    /\ expiryJob = JobAsleep
    /\ again = MaxCancels /\ jobErrors = MaxJobErrors
    /\ overtaken = {}

-----------------------------------------------------------------------------
(* assignCampaignToOrganizations and respondToReassignment: each look is an await. *)

\* Mutant: an accepted offer counts only while the campaign runs.
HasApproved_Running(k) ==
    campaigns[k].status = "ACTIVE" /\ \E g \in Orgs : offers[k][g].status = "APPROVED"

HasApproved(k) == \E g \in Orgs : offers[k][g].status = "APPROVED"

Busy(g) == \E k \in Campaigns : campaigns[k].owner = g /\ campaigns[k].status # "CANCELLED"

Passes(q) ==
    CASE q.at = "cancelled" -> campaigns[q.k].status = "CANCELLED"
      [] q.at = "approved"  -> ~HasApproved(q.k)
      [] q.at = "existing"  -> \A g \in q.orgs : offers[q.k][g].status \in {"NONE", "EXPIRED"}
      [] q.at = "eligible"  -> \A g \in q.orgs : g # campaigns[q.k].owner /\ ~Busy(g)
      [] q.at = "pending"   -> \A g \in q.orgs : /\ offers[q.k][g].status = "PENDING"
                                                 /\ offers[q.k][g].left > 0

After(q) ==
    CASE q.at = "cancelled" -> "approved"
      [] q.at = "approved"  -> IF q.op = "assign" THEN "existing" ELSE "write"
      [] q.at = "existing"  -> "eligible"
      [] q.at = "eligible"  -> "write"
      [] q.at = "pending"   -> "approved"

Ask(d, q) ==
    /\ desks[d] = NoRequest
    /\ desks' = [desks EXCEPT ![d] = q]
    /\ UNCHANGED <<campaigns, offers, expiryJob, again, jobErrors, overtaken>>

Assign(d, k, orgs) ==
    Ask(d, [at |-> "cancelled", op |-> "assign", k |-> k, orgs |-> orgs])

Respond(d, k, g, op) == Ask(d, [at |-> "pending", op |-> op, k |-> k, orgs |-> {g}])

Leaves(d) == desks' = [desks EXCEPT ![d] = NoRequest]

Look(d) ==
    /\ desks[d].at \notin {"idle", "write"}
    /\ \/ Passes(desks[d]) /\ desks' = [desks EXCEPT ![d].at = After(desks[d])]
       \/ ~Passes(desks[d]) /\ Leaves(d)
    /\ UNCHANGED <<campaigns, offers, expiryJob, again, jobErrors, overtaken>>

\* createMany is one transaction; a row that exists, expired or not, refuses all.
Offer(d) ==
    LET q == desks[d] IN
    /\ q.at = "write" /\ q.op = "assign"
    /\ offers' = IF \E g \in q.orgs : offers[q.k][g].status # "NONE" THEN offers
                 ELSE [offers EXCEPT ![q.k] = [g \in Orgs |->
                          IF g \in q.orgs
                          THEN [status |-> "PENDING", left |-> OfferLife]
                          ELSE @[g]]]
    /\ Leaves(d)
    /\ UNCHANGED <<campaigns, expiryJob, again, jobErrors, overtaken>>

\* Somebody else is past the look at the offers of k.
Overtakes(d, k) ==
    \/ \E e \in Desks \ {d} : /\ desks[e].at \in {"approved", "write"}
                            /\ desks[e].op # "assign" /\ desks[e].k = k
    \/ k \in expiryJob.refund \/ \E o \in expiryJob.due : o[1] = k

\* The campaign read has no previous status (see RestoredToPrevious), so ACTIVE.
Accept(d) ==
    LET q == desks[d] IN
    /\ q.at = "write" /\ q.op = "accept"
    /\ \E g \in q.orgs :
         /\ campaigns' = [campaigns EXCEPT ![q.k].status = "ACTIVE",
                                           ![q.k].owner = g]
         /\ offers' = [offers EXCEPT ![q.k] = [h \in Orgs |->
                [offers[q.k][h] EXCEPT !.status =
                    IF h = g THEN "APPROVED" ELSE IF @ = "PENDING" THEN "REJECTED" ELSE @]]]
    /\ overtaken' = IF Overtakes(d, q.k) THEN overtaken \union {q.k} ELSE overtaken
    /\ Leaves(d)
    /\ UNCHANGED <<expiryJob, again, jobErrors>>

Decline(d) ==
    LET q == desks[d] IN
    /\ q.at = "write" /\ q.op = "decline"
    /\ \E g \in q.orgs : offers' = [offers EXCEPT ![q.k][g].status = "REJECTED"]
    /\ overtaken' = IF Overtakes(d, q.k) THEN overtaken \union {q.k} ELSE overtaken
    /\ Leaves(d)
    /\ UNCHANGED <<campaigns, expiryJob, again, jobErrors>>

\* changeStatus (CampaignLifecycle.tla): the new owner's campaign is cancelled too.
CancelAgain(k) ==
    /\ again > 0 /\ campaigns[k].status = "ACTIVE"
    /\ again' = again - 1
    /\ campaigns' = [campaigns EXCEPT ![k].status = "CANCELLED", ![k].was = "ACTIVE"]
    /\ UNCHANGED <<offers, desks, expiryJob, jobErrors, overtaken>>

-----------------------------------------------------------------------------
(* The job of 1 AM: processExpiredReassignments.                           *)

Overdue(k, g) == offers[k][g].status = "PENDING" /\ offers[k][g].left = 0

NextDay ==
    /\ expiryJob.at = "idle"
    /\ offers' = [k \in Campaigns |-> [g \in Orgs |->
                     [offers[k][g] EXCEPT !.left = IF @ > 0 THEN @ - 1 ELSE 0]]]
    /\ expiryJob' = [JobAsleep EXCEPT !.at = "find"]
    /\ UNCHANGED <<campaigns, desks, again, jobErrors, overtaken>>

FindOverdue ==
    /\ expiryJob.at = "find"
    /\ expiryJob' = [expiryJob EXCEPT !.at = "expire",
           !.due = {o \in Campaigns \X Orgs : Overdue(o[1], o[2])}]
    /\ UNCHANGED <<campaigns, offers, desks, again, jobErrors, overtaken>>

ExpireOffer ==
    /\ expiryJob.at = "expire"
    /\ \E o \in expiryJob.due :
         /\ offers' = [offers EXCEPT ![o[1]][o[2]].status = "EXPIRED"]
         /\ expiryJob' = [expiryJob EXCEPT !.due = @ \ {o}]
         /\ overtaken' = IF \E d \in Desks : /\ desks[d].at \in {"approved", "write"}
                                           /\ desks[d].op # "assign" /\ desks[d].k = o[1]
                         THEN overtaken \union {o[1]} ELSE overtaken
    /\ UNCHANGED <<campaigns, desks, again, jobErrors>>

\* findCampaignsWithExpiredAssignments: some offer, and none that is open or approved.
Abandoned(k) ==
    /\ campaigns[k].status = "CANCELLED"
    /\ \E g \in Orgs : offers[k][g].status # "NONE"
    /\ \A g \in Orgs : offers[k][g].status \in {"NONE", "REJECTED", "EXPIRED"} \/ Overdue(k, g)

FindAbandoned ==
    /\ expiryJob.at = "expire" /\ expiryJob.due = {}
    /\ expiryJob' = [expiryJob EXCEPT !.at = "refund", !.refund = {k \in Campaigns : Abandoned(k)}]
    /\ UNCHANGED <<campaigns, offers, desks, again, jobErrors, overtaken>>

\* processRefundForCampaign: the requests are events, and the campaign stays as it is,
\* to be listed again the next night.
RequestRefund ==
    /\ expiryJob.at = "refund"
    /\ \E k \in expiryJob.refund :
         expiryJob' = [expiryJob EXCEPT !.refund = @ \ {k}]
    /\ UNCHANGED <<campaigns, offers, desks, again, jobErrors, overtaken>>

JobEnds ==
    /\ expiryJob.at = "refund" /\ expiryJob.refund = {}
    /\ expiryJob' = JobAsleep
    /\ UNCHANGED <<campaigns, offers, desks, again, jobErrors, overtaken>>

JobFails ==
    /\ expiryJob.at \in {"find", "expire"} /\ jobErrors > 0
    /\ jobErrors' = jobErrors - 1
    /\ expiryJob' = JobAsleep
    /\ UNCHANGED <<campaigns, offers, desks, again, overtaken>>

-----------------------------------------------------------------------------
ReassignmentNext ==
    \/ \E d \in Desks :
         \/ \E k \in Campaigns, orgs \in SUBSET Orgs \ {{}} : Assign(d, k, orgs)
         \/ \E k \in Campaigns, g \in Orgs, op \in {"accept", "decline"} : Respond(d, k, g, op)
         \/ Look(d) \/ Offer(d) \/ Accept(d) \/ Decline(d)
    \/ \E k \in Campaigns : CancelAgain(k)
    \/ NextDay \/ FindOverdue \/ ExpireOffer \/ FindAbandoned \/ RequestRefund \/ JobEnds \/ JobFails

ReassignmentSpec == ReassignmentInit /\ [][ReassignmentNext]_offerVars

-----------------------------------------------------------------------------
\* The shapes of campaigns, offers, requests and the job.
ReassignmentTypeOK ==
    /\ campaigns \in [Campaigns -> [status: {"CANCELLED", "ACTIVE"}, owner: Founders \union Orgs,
                                    was: {"APPROVED", "ACTIVE", "PROCESSING"}]]
    /\ offers \in [Campaigns -> [Orgs -> [status: OfferStatuses, left: 0..OfferLife]]]
    /\ desks \in [Desks -> {NoRequest} \union
          [at: {"cancelled", "approved", "existing", "eligible", "pending", "write"},
           op: {"assign", "accept", "decline"}, k: Campaigns, orgs: SUBSET Orgs]]
    /\ expiryJob \in [at: {"idle", "find", "expire", "refund"},
                      due: SUBSET (Campaigns \X Orgs), refund: SUBSET Campaigns]
    /\ again \in Nat /\ jobErrors \in Nat
    /\ overtaken \subseteq Campaigns

\* A campaign goes to one organization or is refunded: at most one offer of it is
\* approved, and the campaign belongs to the organization that accepted, however often it
\* is cancelled and offered; and what the job asks a refund for is still cancelled and
\* taken by nobody.  The checks and the writes are apart: left out are campaigns of which
\* two answers, or an answer and the job, overlapped.
OneNewOwner == \A k \in Campaigns : k \notin overtaken =>
    /\ \A g \in Orgs : offers[k][g].status = "APPROVED" =>
        /\ campaigns[k].owner = g
        /\ \A h \in Orgs \ {g} : offers[k][h].status # "APPROVED"
    /\ k \in expiryJob.refund => campaigns[k].status = "CANCELLED" /\ ~HasApproved(k)

\* The repository restores a campaign "to previous status".
RestoredToPrevious ==
    [][\A k \in Campaigns : campaigns[k].status = "CANCELLED" /\ campaigns'[k].status # "CANCELLED"
          => campaigns'[k].status = campaigns[k].was]_offerVars
====
