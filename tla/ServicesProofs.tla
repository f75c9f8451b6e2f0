---- MODULE ServicesProofs ----
(***************************************************************************)
(* Proofs about Reassignment, Delivery, PostLikes, Comments, Notifications *)
(* and Search, for any campaigns, batches, couriers, fans and recipients,  *)
(* any number of requests at once, writes, errors and crashes; and about   *)
(* the types of all services, those of UserProofs among them.              *)
(*                                                                         *)
(* Requests read, check and write in steps of their own.  Each invariant   *)
(* says of every request what it has read that is still so when it writes, *)
(* and of which rows: those that no overlapping request, which the model   *)
(* records in a history variable, has made stale.                          *)
(***************************************************************************)
EXTENDS MCServices, UserProofs
LOCAL INSTANCE SequencesExt

-----------------------------------------------------------------------------
(* Reassignment.                                                           *)

\* Campaign k is where its offers say, the job would refund it rightly, and whoever is
\* about to write an answer was right that nobody has accepted.
Answerable(k) ==
    /\ \A g \in Orgs : offers[k][g].status = "APPROVED" =>
        /\ campaigns[k].owner = g
        /\ \A h \in Orgs \ {g} : offers[k][h].status # "APPROVED"
    /\ k \in expiryJob.refund => campaigns[k].status = "CANCELLED" /\ ~HasApproved(k)
    /\ \A d \in Desks : desks[d].at = "write" /\ desks[d].op # "assign" /\ desks[d].k = k
                        => ~HasApproved(k)

ReassignmentInv ==
    /\ ReassignmentTypeOK
    /\ \A d \in Desks : desks[d].at \in {"existing", "eligible"} => desks[d].op = "assign"
    /\ \A k \in Campaigns \ overtaken : Answerable(k)

DeskRequests == [at: {"cancelled", "approved", "existing", "eligible", "pending", "write"},
                 op: {"assign", "accept", "decline"}, k: Campaigns, orgs: SUBSET Orgs]

CampaignRows == [Campaigns -> [status: {"CANCELLED", "ACTIVE"}, owner: Founders \union Orgs,
                               was: {"APPROVED", "ACTIVE", "PROCESSING"}]]
OfferRows == [Campaigns -> [Orgs -> [status: OfferStatuses, left: 0..OfferLife]]]

\* What an answer by the request of desk d does to campaign k: it approves nothing, or
\* one offer, when nobody else is about to answer.
NothingNew(k) ==
    /\ campaigns'[k] = campaigns[k]
    /\ \A g \in Orgs : offers'[k][g].status = "APPROVED" => offers[k][g].status = "APPROVED"

NewlyApproved(d, k) ==
    /\ \A g \in Orgs : offers'[k][g].status = "APPROVED" =>
         /\ campaigns'[k].owner = g
         /\ \A h \in Orgs \ {g} : offers'[k][h].status # "APPROVED"
    /\ k \notin expiryJob.refund
    /\ \A e \in Desks \ {d} :
         ~(desks[e].at = "write" /\ desks[e].op # "assign" /\ desks[e].k = k)

LEMMA ReassignmentInit_Inv == ReassignmentInit => ReassignmentInv
  <1> SUFFICES ASSUME ReassignmentInit PROVE ReassignmentInv
    OBVIOUS
  <1>1. ReassignmentTypeOK
    <2>1. campaigns \in [Campaigns -> [status: {"CANCELLED", "ACTIVE"}, owner: Founders \union Orgs,
                                       was: {"APPROVED", "ACTIVE", "PROCESSING"}]]
      <3>1. FirstStatuses \subseteq {"APPROVED", "ACTIVE", "PROCESSING"} BY ReassignmentAssumption
      <3>2. QED BY <3>1 DEF ReassignmentInit
    <2>2. 0 \in 0..OfferLife BY ReassignmentAssumption
    <2>3. offers \in [Campaigns -> [Orgs -> [status: OfferStatuses, left: 0..OfferLife]]]
      BY <2>2 DEF ReassignmentInit, OfferStatuses
    <2>4. QED BY <2>1, <2>3, ReassignmentAssumption
          DEF ReassignmentInit, ReassignmentTypeOK, NoRequest, JobAsleep
  <1>2. \A d \in Desks : desks[d].at = "idle" BY DEF ReassignmentInit, NoRequest
  <1>3. \A k \in Campaigns : \A g \in Orgs : offers[k][g].status = "NONE"
    BY DEF ReassignmentInit
  <1>4. expiryJob.refund = {} BY DEF ReassignmentInit, JobAsleep
  <1>5. QED BY <1>1, <1>2, <1>3, <1>4 DEF ReassignmentInv, Answerable, HasApproved

\* What a request looks like that is not idle.
LEMMA DeskOf ==
    ASSUME ReassignmentTypeOK, NEW d \in Desks, desks[d].at # "idle"
    PROVE  desks[d] \in DeskRequests
  BY DEF ReassignmentTypeOK, NoRequest, DeskRequests

LEMMA AskKeeps ==
    ASSUME ReassignmentInv, NEW d \in Desks, NEW q \in DeskRequests, q.at # "write",
           q.at \notin {"existing", "eligible"}, Ask(d, q)
    PROVE  ReassignmentInv'
  <1>1. \A e \in Desks : desks'[e] = IF e = d THEN q ELSE desks[e]
    BY DEF Ask, ReassignmentInv, ReassignmentTypeOK
  <1>2. ReassignmentTypeOK' BY DEF Ask, ReassignmentInv, ReassignmentTypeOK, DeskRequests
  <1>3. ASSUME NEW k \in Campaigns \ overtaken PROVE Answerable(k)'
    BY <1>1 DEF Ask, ReassignmentInv, Answerable, HasApproved
  <1>4. QED BY <1>1, <1>2, <1>3 DEF Ask, ReassignmentInv

LEMMA LookKeeps ==
    ASSUME ReassignmentInv, NEW d \in Desks, Look(d)
    PROVE  ReassignmentInv'
  <1> DEFINE q == desks[d]
  <1>1. q \in DeskRequests /\ q.at # "write" BY DeskOf DEF Look, ReassignmentInv
  <1>2. \A e \in Desks \ {d} : desks'[e] = desks[e]
    BY DEF Look, Leaves, ReassignmentInv, ReassignmentTypeOK
  <1>3. CASE Passes(q) /\ desks' = [desks EXCEPT ![d].at = After(q)]
    <2> DEFINE at == q.at
    <2>0. at \in {"cancelled", "approved", "existing", "eligible", "pending"}
      BY <1>1 DEF DeskRequests
    <2>1. /\ After(q) \in {"approved", "existing", "eligible", "write"}
          /\ After(q) \in {"existing", "eligible"} => q.op = "assign"
          /\ q.op # "assign" /\ After(q) = "write" => q.at = "approved"
      BY <2>0 DEF After, ReassignmentInv
    <2>2. /\ desks'[d] \in DeskRequests /\ desks'[d].at = After(q)
          /\ desks'[d].op = q.op /\ desks'[d].k = q.k /\ desks'[d].orgs = q.orgs
      BY <1>1, <1>3, <2>1 DEF ReassignmentInv, ReassignmentTypeOK, DeskRequests
    <2>3. ReassignmentTypeOK'
      BY <1>2, <1>3, <2>2 DEF Look, ReassignmentInv, ReassignmentTypeOK, DeskRequests
    <2>4. After(q) = "write" /\ q.op # "assign" => ~HasApproved(q.k)
      BY <1>3, <2>1 DEF Passes
    <2>5. ASSUME NEW k \in Campaigns \ overtaken PROVE Answerable(k)'
      BY <1>2, <2>2, <2>4, <2>5 DEF Look, ReassignmentInv, Answerable, HasApproved
    <2>6. QED BY <1>2, <2>1, <2>2, <2>3, <2>5 DEF Look, ReassignmentInv
  <1>4. CASE Leaves(d)
    <2>1. desks'[d] = NoRequest BY <1>4 DEF Leaves, ReassignmentInv, ReassignmentTypeOK
    <2>2. ReassignmentTypeOK'
      BY <1>4 DEF Leaves, Look, ReassignmentInv, ReassignmentTypeOK
    <2>3. ASSUME NEW k \in Campaigns \ overtaken PROVE Answerable(k)'
      BY <1>2, <2>1 DEF Look, ReassignmentInv, Answerable, HasApproved, NoRequest
    <2>4. QED BY <1>2, <2>1, <2>2, <2>3 DEF Look, ReassignmentInv, NoRequest
  <1>5. QED BY <1>3, <1>4 DEF Look

\* A request leaves, and its write keeps the offers in order.
LEMMA LeavesKeeps ==
    ASSUME ReassignmentInv, NEW d \in Desks, Leaves(d), overtaken \subseteq overtaken',
           overtaken' \subseteq Campaigns, UNCHANGED <<expiryJob, again, jobErrors>>,
           campaigns' \in CampaignRows, offers' \in OfferRows,
           \A k \in Campaigns \ overtaken' : NothingNew(k) \/ NewlyApproved(d, k)
    PROVE  ReassignmentInv'
  <1>1. desks'[d] = NoRequest /\ \A e \in Desks \ {d} : desks'[e] = desks[e]
    BY DEF Leaves, ReassignmentInv, ReassignmentTypeOK
  <1>2. desks' \in [Desks -> {NoRequest} \union DeskRequests]
    BY DEF Leaves, ReassignmentInv, ReassignmentTypeOK, DeskRequests
  <1>3. ReassignmentTypeOK'
    BY <1>2 DEF ReassignmentInv, ReassignmentTypeOK, DeskRequests, CampaignRows, OfferRows
  <1>4. ASSUME NEW k \in Campaigns \ overtaken' PROVE Answerable(k)'
    <2>1. Answerable(k) BY DEF ReassignmentInv
    <2>2. \A e \in Desks : desks'[e].at = "write" => e # d
      BY <1>1 DEF NoRequest
    <2>3. CASE NothingNew(k)
      BY <1>1, <2>1, <2>2, <2>3 DEF Answerable, HasApproved, NothingNew
    <2>4. CASE NewlyApproved(d, k)
      BY <1>1, <2>2, <2>4 DEF Answerable, HasApproved, NewlyApproved
    <2>5. QED BY <2>3, <2>4
  <1>5. \A e \in Desks : desks'[e].at \in {"existing", "eligible"} => desks'[e].op = "assign"
    BY <1>1 DEF ReassignmentInv, NoRequest
  <1>6. QED BY <1>3, <1>4, <1>5 DEF ReassignmentInv

\* A campaign's offers replaced by others.
LEMMA OfferRowsChange ==
    ASSUME ReassignmentTypeOK, NEW k \in Campaigns,
           NEW new \in [Orgs -> [status: OfferStatuses, left: 0..OfferLife]],
           offers' = [offers EXCEPT ![k] = new]
    PROVE  /\ offers' \in OfferRows /\ offers'[k] = new
           /\ \A i \in Campaigns \ {k} : offers'[i] = offers[i]
  BY DEF ReassignmentTypeOK, OfferRows

LEMMA TypesAsRows ==
    ReassignmentTypeOK => campaigns \in CampaignRows /\ offers \in OfferRows /\ overtaken \subseteq Campaigns
  BY DEF ReassignmentTypeOK, CampaignRows, OfferRows

\* One offer gets another status.
RejectedOnly(k, g, s) == offers' = [offers EXCEPT ![k][g].status = s]

LEMMA OneOfferChanges ==
    ASSUME ReassignmentTypeOK, NEW k \in Campaigns, NEW g \in Orgs,
           NEW s \in OfferStatuses \ {"APPROVED"}, RejectedOnly(k, g, s)
    PROVE  /\ offers' \in OfferRows
           /\ \A i \in Campaigns : \A h \in Orgs :
                offers'[i][h].status = "APPROVED" => offers[i][h].status = "APPROVED"
  <1> DEFINE one == [offers[k][g] EXCEPT !.status = s]
             new == [offers[k] EXCEPT ![g] = one]
  <1>1. offers[k] \in [Orgs -> [status: OfferStatuses, left: 0..OfferLife]]
    BY DEF ReassignmentTypeOK
  <1>2. one \in [status: OfferStatuses, left: 0..OfferLife] /\ one.status = s BY <1>1
  <1> HIDE DEF one
  <1>3. /\ new \in [Orgs -> [status: OfferStatuses, left: 0..OfferLife]]
        /\ \A h \in Orgs : new[h] = IF h = g THEN one ELSE offers[k][h]
    BY <1>1, <1>2
  <1>4. offers' = [offers EXCEPT ![k] = new] BY DEF RejectedOnly, one
  <1> HIDE DEF new
  <1>5. /\ offers' \in OfferRows /\ offers'[k] = new
        /\ \A i \in Campaigns \ {k} : offers'[i] = offers[i]
    BY <1>3, <1>4, OfferRowsChange
  <1>6. QED BY <1>2, <1>3, <1>5

LEMMA OfferKeeps ==
    ASSUME ReassignmentInv, NEW d \in Desks, Offer(d)
    PROVE  ReassignmentInv'
  <1> DEFINE q == desks[d]
             new == [g \in Orgs |-> IF g \in q.orgs
                                    THEN [status |-> "PENDING", left |-> OfferLife]
                                    ELSE offers[q.k][g]]
  <1>1. ReassignmentTypeOK BY DEF ReassignmentInv
  <1>2. q.k \in Campaigns BY <1>1, DeskOf DEF Offer, DeskRequests
  <1>3. offers' = offers \/ offers' = [offers EXCEPT ![q.k] = new] BY DEF Offer
  <1>4. new \in [Orgs -> [status: OfferStatuses, left: 0..OfferLife]]
    <2>1. offers[q.k] \in [Orgs -> [status: OfferStatuses, left: 0..OfferLife]]
      BY <1>1, <1>2 DEF ReassignmentTypeOK
    <2>2. OfferLife \in 0..OfferLife BY ReassignmentAssumption
    <2>3. QED BY <2>1, <2>2 DEF OfferStatuses
  <1>5. \A g \in Orgs : new[g].status = "APPROVED" => offers[q.k][g].status = "APPROVED"
    OBVIOUS
  <1>6. Leaves(d) /\ UNCHANGED <<campaigns, expiryJob, again, jobErrors, overtaken>> BY DEF Offer
  <1> HIDE DEF q, new
  <1>7. offers' \in OfferRows /\ \A k \in Campaigns : NothingNew(k)
    <2>1. CASE offers' = offers BY <1>1, <1>6, <2>1, TypesAsRows DEF NothingNew
    <2>2. CASE offers' = [offers EXCEPT ![q.k] = new]
      BY <1>1, <1>2, <1>4, <1>5, <1>6, <2>2, OfferRowsChange DEF NothingNew
    <2>3. QED BY <1>3, <2>1, <2>2
  <1>8. QED BY <1>1, <1>6, <1>7, TypesAsRows, LeavesKeeps

LEMMA AcceptKeeps ==
    ASSUME ReassignmentInv, NEW d \in Desks, Accept(d)
    PROVE  ReassignmentInv'
  <1> DEFINE q == desks[d]
  <1>1. ReassignmentTypeOK BY DEF ReassignmentInv
  <1>2. q.k \in Campaigns /\ q.orgs \subseteq Orgs /\ q.at = "write" /\ q.op = "accept"
    BY <1>1, DeskOf DEF DeskRequests, Accept
  <1>3. PICK g \in q.orgs :
         /\ campaigns' = [campaigns EXCEPT ![q.k].status = "ACTIVE", ![q.k].owner = g]
         /\ offers' = [offers EXCEPT ![q.k] = [h \in Orgs |->
                [offers[q.k][h] EXCEPT !.status = IF h = g THEN "APPROVED"
                                        ELSE IF @ = "PENDING" THEN "REJECTED" ELSE @]]]
    BY DEF Accept
  <1>4. g \in Orgs BY <1>2
  <1> DEFINE new == [h \in Orgs |-> [offers[q.k][h] EXCEPT !.status =
                       IF h = g THEN "APPROVED" ELSE IF @ = "PENDING" THEN "REJECTED" ELSE @]]
             won == [campaigns[q.k] EXCEPT !.status = "ACTIVE", !.owner = g]
  <1>5. /\ offers[q.k] \in [Orgs -> [status: OfferStatuses, left: 0..OfferLife]]
        /\ campaigns[q.k] \in [status: {"CANCELLED", "ACTIVE"}, owner: Founders \union Orgs,
                               was: {"APPROVED", "ACTIVE", "PROCESSING"}]
    BY <1>1, <1>2 DEF ReassignmentTypeOK
  <1>6. /\ new \in [Orgs -> [status: OfferStatuses, left: 0..OfferLife]]
        /\ \A h \in Orgs \ {g} : new[h].status = "APPROVED" => offers[q.k][h].status = "APPROVED"
    BY <1>5 DEF OfferStatuses
  <1>7. /\ won \in [status: {"CANCELLED", "ACTIVE"}, owner: Founders \union Orgs,
                    was: {"APPROVED", "ACTIVE", "PROCESSING"}]
        /\ won.owner = g
    BY <1>4, <1>5
  <1>8. offers' = [offers EXCEPT ![q.k] = new] BY <1>3
  <1>9. campaigns' = [campaigns EXCEPT ![q.k] = won] BY <1>3
  <1>10. Leaves(d) /\ UNCHANGED <<expiryJob, again, jobErrors>> BY DEF Accept
  <1>11. overtaken' = IF Overtakes(d, q.k) THEN overtaken \union {q.k} ELSE overtaken BY DEF Accept
  <1>12. overtaken \subseteq Campaigns BY <1>1, TypesAsRows
  <1> HIDE DEF new, won
  <1>13. /\ offers' \in OfferRows /\ offers'[q.k] = new
         /\ \A i \in Campaigns \ {q.k} : offers'[i] = offers[i]
    BY <1>1, <1>2, <1>6, <1>8, OfferRowsChange
  <1>14. /\ campaigns' \in CampaignRows /\ campaigns'[q.k] = won
         /\ \A i \in Campaigns \ {q.k} : campaigns'[i] = campaigns[i]
    BY <1>1, <1>2, <1>7, <1>9 DEF ReassignmentTypeOK, CampaignRows
  <1>15. ASSUME q.k \notin overtaken' PROVE NewlyApproved(d, q.k)
    <2>1. ~Overtakes(d, q.k) BY <1>11, <1>15
    <2>2. ~HasApproved(q.k) BY <1>2, <1>11, <1>15 DEF ReassignmentInv, Answerable
    <2>3. \A h \in Orgs \ {g} : new[h].status # "APPROVED"
      BY <1>6, <2>2 DEF HasApproved
    <2>4. QED BY <1>2, <1>7, <1>13, <1>14, <2>1, <2>3 DEF Overtakes, NewlyApproved
  <1>16. \A k \in Campaigns \ overtaken' : NothingNew(k) \/ NewlyApproved(d, k)
    BY <1>13, <1>14, <1>15 DEF NothingNew
  <1>17. QED BY <1>2, <1>10, <1>11, <1>12, <1>13, <1>14, <1>16, LeavesKeeps

LEMMA DeclineKeeps ==
    ASSUME ReassignmentInv, NEW d \in Desks, Decline(d)
    PROVE  ReassignmentInv'
  <1> DEFINE q == desks[d]
  <1>1. ReassignmentTypeOK BY DEF ReassignmentInv
  <1>2. q.k \in Campaigns /\ q.orgs \subseteq Orgs
    BY <1>1, DeskOf DEF DeskRequests, Decline
  <1>3. PICK g \in q.orgs : offers' = [offers EXCEPT ![q.k][g].status = "REJECTED"]
    BY DEF Decline
  <1>4. g \in Orgs BY <1>2
  <1>5. RejectedOnly(q.k, g, "REJECTED") BY <1>3 DEF RejectedOnly
  <1>6. Leaves(d) /\ UNCHANGED <<campaigns, expiryJob, again, jobErrors>> BY DEF Decline
  <1>7. overtaken \subseteq overtaken' /\ overtaken' \subseteq Campaigns
    BY <1>1, <1>2, TypesAsRows DEF Decline
  <1>8. \A k \in Campaigns : NothingNew(k)
    BY <1>1, <1>2, <1>4, <1>5, <1>6, OneOfferChanges DEF NothingNew, OfferStatuses
  <1>9. QED BY <1>1, <1>2, <1>4, <1>5, <1>6, <1>7, <1>8, TypesAsRows, OneOfferChanges, LeavesKeeps
        DEF OfferStatuses

LEMMA CancelAgainKeeps ==
    ASSUME ReassignmentInv, NEW k \in Campaigns, CancelAgain(k)
    PROVE  ReassignmentInv'
  <1> DEFINE new == [campaigns[k] EXCEPT !.status = "CANCELLED", !.was = "ACTIVE"]
  <1>1. ReassignmentTypeOK BY DEF ReassignmentInv
  <1>2. campaigns[k] \in [status: {"CANCELLED", "ACTIVE"}, owner: Founders \union Orgs,
                          was: {"APPROVED", "ACTIVE", "PROCESSING"}]
    BY <1>1 DEF ReassignmentTypeOK
  <1>3. /\ new \in [status: {"CANCELLED", "ACTIVE"}, owner: Founders \union Orgs,
                    was: {"APPROVED", "ACTIVE", "PROCESSING"}]
        /\ new.owner = campaigns[k].owner /\ new.status = "CANCELLED"
    BY <1>2
  <1>4. campaigns' = [campaigns EXCEPT ![k] = new] BY DEF CancelAgain
  <1> HIDE DEF new
  <1>5. /\ campaigns' \in CampaignRows
        /\ \A i \in Campaigns : campaigns'[i] = IF i = k THEN new ELSE campaigns[i]
    BY <1>1, <1>3, <1>4 DEF ReassignmentTypeOK, CampaignRows
  <1>6. ReassignmentTypeOK'
    BY <1>1, <1>5 DEF CancelAgain, ReassignmentTypeOK, CampaignRows
  <1>7. /\ UNCHANGED <<offers, desks, expiryJob, overtaken>>
        /\ \A i \in Campaigns :
             /\ campaigns'[i].owner = campaigns[i].owner
             /\ campaigns[i].status = "CANCELLED" => campaigns'[i].status = "CANCELLED"
    BY <1>3, <1>5 DEF CancelAgain
  <1>8. ASSUME NEW i \in Campaigns \ overtaken PROVE Answerable(i)'
    <2>1. Answerable(i) BY DEF ReassignmentInv
    <2>2. HasApproved(i)' <=> HasApproved(i) BY <1>7 DEF HasApproved
    <2>3. offers' = offers /\ desks' = desks /\ expiryJob' = expiryJob BY <1>7
    <2>4. campaigns'[i].owner = campaigns[i].owner BY <1>7
    <2>5. campaigns[i].status = "CANCELLED" => campaigns'[i].status = "CANCELLED" BY <1>7
    <2>6. QED BY <2>1, <2>2, <2>3, <2>4, <2>5 DEF Answerable
  <1>9. QED BY <1>6, <1>7, <1>8 DEF ReassignmentInv

\* The job's steps leave campaigns and requests alone, and approve nothing.
LEMMA JobKeeps ==
    ASSUME ReassignmentInv, ReassignmentTypeOK', campaigns' = campaigns, desks' = desks,
           overtaken \subseteq overtaken',
           \A k \in Campaigns : \A g \in Orgs :
              offers'[k][g].status = "APPROVED" => offers[k][g].status = "APPROVED",
           \A k \in expiryJob'.refund \ expiryJob.refund :
              campaigns[k].status = "CANCELLED" /\ ~HasApproved(k)
    PROVE  ReassignmentInv'
  <1>1. ASSUME NEW k \in Campaigns \ overtaken' PROVE Answerable(k)'
    <2>1. Answerable(k) BY DEF ReassignmentInv
    <2>2. HasApproved(k)' => HasApproved(k) BY DEF HasApproved
    <2>3. k \in expiryJob'.refund => campaigns[k].status = "CANCELLED" /\ ~HasApproved(k)
      BY <2>1 DEF Answerable
    <2>4. QED BY <2>1, <2>2, <2>3 DEF Answerable
  <1>2. QED BY <1>1 DEF ReassignmentInv

LEMMA ExpiryKeeps ==
    ASSUME ReassignmentInv,
           NextDay \/ FindOverdue \/ ExpireOffer \/ FindAbandoned \/ RequestRefund
           \/ JobEnds \/ JobFails
    PROVE  ReassignmentInv'
  <1> USE DEF ReassignmentInv, ReassignmentTypeOK
  <1>1. CASE NextDay
    <2>1. offers' = [k \in Campaigns |-> [g \in Orgs |->
                       [offers[k][g] EXCEPT !.left = IF @ > 0 THEN @ - 1 ELSE 0]]]
      BY <1>1 DEF NextDay
    <2>2. ASSUME NEW k \in Campaigns, NEW g \in Orgs
          PROVE  /\ offers'[k][g] \in [status: OfferStatuses, left: 0..OfferLife]
                 /\ offers'[k][g].status = offers[k][g].status
      <3>1. offers'[k][g] = [offers[k][g] EXCEPT !.left = IF @ > 0 THEN @ - 1 ELSE 0] BY <2>1
      <3>2. offers[k][g] \in [status: OfferStatuses, left: 0..OfferLife] OBVIOUS
      <3> DEFINE n == offers[k][g].left
      <3>3. n \in 0..OfferLife /\ (IF n > 0 THEN n - 1 ELSE 0) \in 0..OfferLife
        BY <3>2, ReassignmentAssumption
      <3>4. QED BY <3>1, <3>2, <3>3
    <2>3. offers' \in OfferRows BY <2>1, <2>2 DEF OfferRows
    <2>4. ReassignmentTypeOK' BY <1>1, <2>3 DEF NextDay, JobAsleep, OfferRows
    <2>5. expiryJob'.refund = {} BY <1>1 DEF NextDay, JobAsleep
    <2>6. QED BY <1>1, <2>2, <2>4, <2>5, JobKeeps DEF NextDay
  <1>2. CASE FindOverdue
    <2>1. {o \in Campaigns \X Orgs : Overdue(o[1], o[2])} \subseteq Campaigns \X Orgs OBVIOUS
    <2>2. ReassignmentTypeOK' BY <1>2, <2>1 DEF FindOverdue
    <2>3. expiryJob'.refund = expiryJob.refund BY <1>2 DEF FindOverdue
    <2>4. QED BY <1>2, <2>2, <2>3, JobKeeps DEF FindOverdue
  <1>3. CASE ExpireOffer
    <2>1. PICK o \in expiryJob.due :
            /\ RejectedOnly(o[1], o[2], "EXPIRED")
            /\ expiryJob' = [expiryJob EXCEPT !.due = @ \ {o}]
            /\ overtaken \subseteq overtaken' /\ overtaken' \subseteq overtaken \union {o[1]}
      BY <1>3 DEF ExpireOffer, RejectedOnly
    <2>2. o[1] \in Campaigns /\ o[2] \in Orgs OBVIOUS
    <2>3. /\ offers' \in OfferRows
          /\ \A k \in Campaigns : \A h \in Orgs :
               offers'[k][h].status = "APPROVED" => offers[k][h].status = "APPROVED"
      BY <2>1, <2>2, OneOfferChanges DEF OfferStatuses
    <2>4. ReassignmentTypeOK' BY <1>3, <2>1, <2>2, <2>3 DEF ExpireOffer, OfferRows
    <2>5. expiryJob'.refund = expiryJob.refund BY <2>1
    <2>6. QED BY <1>3, <2>1, <2>3, <2>4, <2>5, JobKeeps DEF ExpireOffer
  <1>4. CASE FindAbandoned
    <2>1. ReassignmentTypeOK' BY <1>4 DEF FindAbandoned
    <2>2. expiryJob'.refund = {k \in Campaigns : Abandoned(k)} BY <1>4 DEF FindAbandoned
    <2>3. \A k \in Campaigns : Abandoned(k) => campaigns[k].status = "CANCELLED" /\ ~HasApproved(k)
      BY DEF Abandoned, HasApproved, Overdue
    <2>4. QED BY <1>4, <2>1, <2>2, <2>3, JobKeeps DEF FindAbandoned
  <1>5. CASE RequestRefund
    <2>1. PICK k \in expiryJob.refund : expiryJob' = [expiryJob EXCEPT !.refund = @ \ {k}]
      BY <1>5 DEF RequestRefund
    <2>2. ReassignmentTypeOK' /\ expiryJob'.refund \subseteq expiryJob.refund
      BY <1>5, <2>1 DEF RequestRefund
    <2>3. QED BY <1>5, <2>1, <2>2, JobKeeps DEF RequestRefund
  <1>6. CASE JobEnds
    <2>1. ReassignmentTypeOK' BY <1>6 DEF JobEnds, JobAsleep
    <2>2. QED BY <1>6, <2>1, JobKeeps DEF JobEnds, JobAsleep
  <1>7. CASE JobFails
    <2>1. ReassignmentTypeOK' BY <1>7 DEF JobFails, JobAsleep
    <2>2. QED BY <1>7, <2>1, JobKeeps DEF JobFails, JobAsleep
  <1>8. QED BY <1>1, <1>2, <1>3, <1>4, <1>5, <1>6, <1>7

LEMMA ReassignmentNext_Inv ==
    ReassignmentInv /\ [ReassignmentNext]_offerVars => ReassignmentInv'
  <1> SUFFICES ASSUME ReassignmentInv, [ReassignmentNext]_offerVars PROVE ReassignmentInv'
    OBVIOUS
  <1>1. CASE UNCHANGED offerVars
    BY <1>1 DEF offerVars, ReassignmentInv, ReassignmentTypeOK, Answerable, HasApproved
  <1>2. ASSUME NEW d \in Desks, NEW k \in Campaigns, NEW orgs \in SUBSET Orgs \ {{}},
               Assign(d, k, orgs)
        PROVE  ReassignmentInv'
    BY <1>2, AskKeeps DEF Assign, DeskRequests
  <1>3. ASSUME NEW d \in Desks, NEW k \in Campaigns, NEW g \in Orgs,
               NEW op \in {"accept", "decline"}, Respond(d, k, g, op)
        PROVE  ReassignmentInv'
    BY <1>3, AskKeeps DEF Respond, DeskRequests
  <1>4. QED
    BY <1>1, <1>2, <1>3, LookKeeps, OfferKeeps, AcceptKeeps, DeclineKeeps, CancelAgainKeeps,
       ExpiryKeeps
    DEF ReassignmentNext

\* A campaign goes to the one organization that accepted it, or is refunded, whatever
\* answers are given to however many offers, as long as answers do not overlap each
\* other or the nightly job (respondToReassignment, processExpiredReassignments).
THEOREM ReassignedOnce == ReassignmentSpec => []OneNewOwner
  <1>1. ReassignmentInv => OneNewOwner
    BY DEF ReassignmentInv, Answerable, OneNewOwner
  <1>2. QED BY <1>1, ReassignmentInit_Inv, ReassignmentNext_Inv, PTL DEF ReassignmentSpec

-----------------------------------------------------------------------------
(* Delivery.                                                               *)

BatchRows == [status: {"NONE", "PREPARING", "READY", "DELIVERED"}, from: SUBSET Purchases]
TaskRows == [courier: Couriers, batch: Batches, status: TaskStatuses]

\* Requests, by what they are about.
Offerers == [at: {"prove"}, kind: {<<"prove", 0>>}, p: Purchases, b: {"none"}]
Reviewers == [at: {"review"}, kind: {<<"review", 0>>}, p: Purchases, b: {"none"}, i: Nat,
              to: ProofStatuses]
Cooks == [at: {"cook"}, kind: {<<"cook", 0>>}, b: Batches, left: SUBSET Purchases,
          from: SUBSET Purchases]
Finishers == [at: {"ready"}, kind: {<<"ready", 0>>}, b: Batches]
Assigners == [at: {"twice", "active", "create"}, kind: {<<"assign", 0>>}, b: Batches,
              left: SUBSET Couriers, who: SUBSET Couriers]
Reporters == [at: {"depart", "move"}, kind: {<<"report", i>> : i \in Nat}, b: Batches,
              i: Nat, to: TaskStatuses]
CounterShapes == {NobodyThere} \union Offerers \union Reviewers \union Cooks
                   \union Finishers \union Assigners \union Reporters

\* What request q is about is there.
AboutDelivery(q) ==
    /\ q.at = "review" => q.i \in DOMAIN proofs[q.p]
    /\ q.at \in {"twice", "active", "create"} => q.left \subseteq q.who
    /\ q.at \in {"depart", "move"} =>
         /\ q.i \in DOMAIN tasks /\ q.b = tasks[q.i].batch /\ q.kind = <<"report", q.i>>
         /\ q.at = "depart" => q.to = "OUT_FOR_DELIVERY"

Concerned(q, b) == q.at \notin {"idle", "prove", "review"} /\ q.b = b

\* A batch is being cooked by one request until it exists.
BatchesExist ==
    /\ \A i \in DOMAIN tasks : batches[tasks[i].batch].status # "NONE"
    /\ \A c \in Counters, b \in Batches : Concerned(counters[c], b) =>
         (counters[c].at = "cook" <=> batches[b].status = "NONE")
    /\ \A c, e \in Counters, b \in Batches :
         counters[c].at = "cook" /\ Concerned(counters[c], b) /\ Concerned(counters[e], b) => c = e

\* What was looked at was proven.
LookedAtProven(q) == q.at = "cook" => \A p \in q.from \ q.left : Proven(p) \/ p \in revised

\* The couriers request q has found to be without a task of its batch.
NewCouriers(q) ==
    CASE q.at = "twice" -> q.who \ q.left
      [] q.at = "active" -> q.who
      [] q.at = "create" -> q.left
      [] OTHER -> {}

\* What request q has read of batch b is still so.
StillTrue(q, b) ==
    /\ \A s \in NewCouriers(q) : ~HasTask(s, b)
    /\ q.at = "ready" => batches[b].status = "PREPARING"
    /\ q.at \notin {"cook", "ready"} => batches[b].status \in {"READY", "DELIVERED"}
    /\ q.at \in {"depart", "move"} => q.to \in NextStatuses(tasks[q.i].status)
    /\ q.at = "move" /\ q.to = "OUT_FOR_DELIVERY" => batches[b].status = "DELIVERED"

TakingOut(q) == q.at = "move" /\ q.to = "OUT_FOR_DELIVERY"

BatchInStep(b) ==
    /\ \A c, e \in Counters :
         Concerned(counters[c], b) /\ Concerned(counters[e], b)
           /\ counters[c].kind = counters[e].kind => c = e
    /\ \A c \in Counters : Concerned(counters[c], b) => StillTrue(counters[c], b)
    /\ OneTaskEach(b)
    /\ \A i \in DOMAIN tasks : tasks[i].batch = b => batches[b].status \in {"READY", "DELIVERED"}
    /\ (\E i \in DOMAIN tasks : Taken(i, b)) => batches[b].status = "DELIVERED"
    /\ batches[b].status = "DELIVERED" =>
         \/ \E i \in DOMAIN tasks : Taken(i, b)
         \/ b \in stranded
         \/ \E c \in Counters : Concerned(counters[c], b) /\ TakingOut(counters[c])

DeliveryTyped ==
    /\ proofs \in [Purchases -> Seq(ProofStatuses)] /\ batches \in [Batches -> BatchRows]
    /\ tasks \in Seq(TaskRows) /\ counters \in [Counters -> CounterShapes] /\ broken \in Nat
    /\ revised \subseteq Purchases /\ clashed \subseteq Batches /\ stranded \subseteq Batches

DeliveryInv ==
    /\ DeliveryTyped /\ BatchesExist /\ CookedFromProof
    /\ \A c \in Counters : AboutDelivery(counters[c]) /\ LookedAtProven(counters[c])
    /\ \A b \in Batches \ clashed : BatchInStep(b)

LEMMA NobodyShape ==
    /\ NobodyThere \in CounterShapes /\ NobodyThere.at = "idle"
    /\ \A b : ~Concerned(NobodyThere, b)
  BY DEF NobodyThere, CounterShapes, Concerned

LEMMA DeliveryInit_Inv == DeliveryInit => DeliveryInv
  <1> SUFFICES ASSUME DeliveryInit PROVE DeliveryInv
    OBVIOUS
  <1>1. \A c \in Counters : counters[c] = NobodyThere BY DEF DeliveryInit
  <1>2. DeliveryTyped
    BY NobodyShape, DeliveryAssumption DEF DeliveryInit, DeliveryTyped, BatchRows
  <1>3. \A c \in Counters : AboutDelivery(counters[c]) /\ LookedAtProven(counters[c])
    BY <1>1, NobodyShape DEF AboutDelivery, LookedAtProven
  <1>4. BatchesExist BY <1>1, NobodyShape DEF DeliveryInit, BatchesExist
  <1>5. CookedFromProof BY DEF DeliveryInit, CookedFromProof
  <1>6. ASSUME NEW b \in Batches PROVE BatchInStep(b)
    <2>1. \A c \in Counters : ~Concerned(counters[c], b) BY <1>1, NobodyShape
    <2>2. DOMAIN tasks = {} /\ batches[b].status = "NONE" BY DEF DeliveryInit
    <2>3. OneTaskEach(b) /\ ~\E i \in DOMAIN tasks : Taken(i, b) BY <2>2 DEF OneTaskEach
    <2>4. \A i \in DOMAIN tasks : tasks[i].batch # b BY <2>2
    <2>5. batches[b].status # "DELIVERED" BY <2>2
    <2>6. QED BY <2>1, <2>3, <2>4, <2>5 DEF BatchInStep
  <1>7. QED BY <1>2, <1>3, <1>4, <1>5, <1>6 DEF DeliveryInv

LEMMA CounterOf ==
    ASSUME NEW q \in CounterShapes
    PROVE  /\ q.at = "idle" => q = NobodyThere
           /\ q.at = "prove" => q \in Offerers
           /\ q.at = "review" => q \in Reviewers
           /\ q.at = "cook" => q \in Cooks
           /\ q.at = "ready" => q \in Finishers
           /\ q.at \in {"twice", "active", "create"} => q \in Assigners
           /\ q.at \in {"depart", "move"} => q \in Reporters
           /\ q.at \in {"idle", "prove", "review", "cook", "ready", "twice", "active", "create",
                        "depart", "move"}
  BY DEF CounterShapes, NobodyThere, Offerers, Reviewers, Cooks, Finishers, Assigners, Reporters

LEMMA TaskOf ==
    ASSUME DeliveryInv
    PROVE  \A i \in DOMAIN tasks : tasks[i] \in TaskRows /\ tasks[i].batch \in Batches
  <1>1. tasks \in Seq(TaskRows) BY DEF DeliveryInv, DeliveryTyped
  <1>2. \A i \in DOMAIN tasks : tasks[i] \in TaskRows BY <1>1
  <1>3. QED BY <1>2 DEF TaskRows

\* One request goes on; proofs and tasks are added, and tasks keep their batch.
LEMMA CounterTurns ==
    ASSUME DeliveryInv, NEW c \in Counters, NEW q \in CounterShapes, Step(c, q),
           AboutDelivery(q)',
           \A p \in Purchases : DOMAIN proofs[p] \subseteq DOMAIN proofs'[p],
           DOMAIN tasks \subseteq DOMAIN tasks',
           \A i \in DOMAIN tasks : tasks'[i].batch = tasks[i].batch
    PROVE  /\ counters' \in [Counters -> CounterShapes] /\ counters'[c] = q
           /\ \A e \in Counters \ {c} : counters'[e] = counters[e]
           /\ \A e \in Counters : AboutDelivery(counters[e])'
  <1>1. /\ counters' \in [Counters -> CounterShapes] /\ counters'[c] = q
        /\ \A e \in Counters \ {c} : counters'[e] = counters[e]
    BY DEF DeliveryInv, DeliveryTyped, Step
  <1>2. ASSUME NEW e \in Counters PROVE AboutDelivery(counters[e])'
    <2>1. CASE e = c BY <1>1, <2>1 DEF AboutDelivery
    <2>2. CASE e # c
      <3>1. counters'[e] = counters[e] /\ AboutDelivery(counters[e]) /\ counters[e] \in CounterShapes
        BY <1>1, <2>2 DEF DeliveryInv, DeliveryTyped
      <3>2. counters[e].at = "review" => counters[e].p \in Purchases
        BY <3>1, CounterOf DEF Reviewers
      <3>3. QED BY <3>1, <3>2 DEF AboutDelivery
    <2>3. QED BY <2>1, <2>2
  <1>3. QED BY <1>1, <1>2

\* A batch the step is not about.
LEMMA InStepElsewhere ==
    ASSUME NEW b \in Batches, BatchInStep(b), NEW c \in Counters,
           \A e \in Counters \ {c} : counters'[e] = counters[e],
           \A e \in Counters : AboutDelivery(counters[e]),
           ~Concerned(counters[c], b), ~Concerned(counters'[c], b),
           batches'[b].status = batches[b].status,
           \A i \in DOMAIN tasks : tasks[i].batch = b => i \in DOMAIN tasks' /\ tasks'[i] = tasks[i],
           \A i \in DOMAIN tasks' : tasks'[i].batch = b => i \in DOMAIN tasks /\ tasks'[i] = tasks[i],
           stranded \subseteq stranded'
    PROVE  BatchInStep(b)'
  <1>1. \A e \in Counters : Concerned(counters'[e], b) => e # c /\ counters'[e] = counters[e]
    OBVIOUS
  <1>2. \A e \in Counters : Concerned(counters[e], b) => e # c /\ counters'[e] = counters[e]
    OBVIOUS
  <1>3. \A s : HasTask(s, b)' <=> HasTask(s, b) BY DEF HasTask
  <1>4. \A i : i \in DOMAIN tasks' /\ Taken(i, b)' <=> i \in DOMAIN tasks /\ Taken(i, b)
    BY DEF Taken
  <1>5. ASSUME NEW e \in Counters, Concerned(counters'[e], b) PROVE StillTrue(counters[e], b)'
    <2>1. counters'[e] = counters[e] /\ StillTrue(counters[e], b) BY <1>1, <1>5 DEF BatchInStep
    <2>2. counters[e].at \in {"depart", "move"} => tasks'[counters[e].i] = tasks[counters[e].i]
      BY <1>1, <1>5 DEF AboutDelivery, Concerned
    <2>3. QED BY <1>3, <2>1, <2>2 DEF StillTrue
  <1>6. OneTaskEach(b)' BY DEF BatchInStep, OneTaskEach
  <1>7. \A d, e \in Counters : Concerned(counters'[d], b) /\ Concerned(counters'[e], b)
          /\ counters'[d].kind = counters'[e].kind => d = e
    BY <1>1 DEF BatchInStep
  <1>8. batches'[b].status = "DELIVERED" =>
          \/ \E i \in DOMAIN tasks' : Taken(i, b)'
          \/ b \in stranded'
          \/ \E e \in Counters : Concerned(counters'[e], b) /\ TakingOut(counters'[e])
    BY <1>2, <1>4 DEF BatchInStep
  <1>9. QED BY <1>4, <1>5, <1>6, <1>7, <1>8 DEF BatchInStep, Concerned, TakingOut

\* Rows and tasks that exist, when request c turns to what q is.
LEMMA StillExist ==
    ASSUME DeliveryInv, NEW c \in Counters, NEW q, counters'[c] = q,
           \A e \in Counters \ {c} : counters'[e] = counters[e],
           \A b \in Batches : Concerned(q, b) =>
              Concerned(counters[c], b) /\ (q.at = "cook" <=> counters[c].at = "cook"),
           \A b \in Batches : batches'[b].status = "NONE" <=> batches[b].status = "NONE",
           \A i \in DOMAIN tasks' : batches[tasks'[i].batch].status # "NONE"
                                    /\ tasks'[i].batch \in Batches
    PROVE  BatchesExist'
  <1>1. \A e \in Counters, b \in Batches : Concerned(counters'[e], b) =>
          Concerned(counters[e], b) /\ (counters'[e].at = "cook" <=> counters[e].at = "cook")
    OBVIOUS
  <1>2. QED BY <1>1 DEF DeliveryInv, BatchesExist, Concerned

\* Steps of requests about proofs.
LEMMA ProofStep ==
    ASSUME DeliveryInv, NEW c \in Counters, NEW q \in CounterShapes, Step(c, q),
           q.at \in {"idle", "prove", "review"}, counters[c].at \in {"idle", "prove", "review"},
           AboutDelivery(q)', UNCHANGED <<batches, tasks, broken, clashed, stranded>>,
           proofs' \in [Purchases -> Seq(ProofStatuses)],
           revised \subseteq revised', revised' \subseteq Purchases,
           \A p \in Purchases : DOMAIN proofs[p] \subseteq DOMAIN proofs'[p],
           \A p \in Purchases : Proven(p) => Proven(p)' \/ p \in revised'
    PROVE  DeliveryInv'
  <1>1. /\ counters' \in [Counters -> CounterShapes] /\ counters'[c] = q
        /\ \A e \in Counters \ {c} : counters'[e] = counters[e]
        /\ \A e \in Counters : AboutDelivery(counters[e])'
    BY CounterTurns
  <1>2. DeliveryTyped' BY <1>1 DEF DeliveryInv, DeliveryTyped
  <1>3. \A b : ~Concerned(q, b) /\ ~Concerned(counters[c], b) BY DEF Concerned
  <1>4. BatchesExist'
    <2>1. \A i \in DOMAIN tasks' : batches[tasks'[i].batch].status # "NONE"
                                   /\ tasks'[i].batch \in Batches
      BY TaskOf DEF DeliveryInv, BatchesExist
    <2>2. QED BY <1>1, <1>3, <2>1, StillExist
  <1>5. CookedFromProof'
    <2>1. \A b \in Batches : batches[b].from \subseteq Purchases
      BY DEF DeliveryInv, DeliveryTyped, BatchRows
    <2>2. QED BY <2>1 DEF DeliveryInv, CookedFromProof
  <1>6. ASSUME NEW e \in Counters PROVE LookedAtProven(counters[e])'
    <2>1. CASE e = c BY <1>1, <2>1 DEF LookedAtProven
    <2>2. CASE e # c
      <3>1. counters'[e] = counters[e] /\ LookedAtProven(counters[e]) BY <1>1, <2>2 DEF DeliveryInv
      <3>2. counters[e].at = "cook" => counters[e].from \subseteq Purchases
        BY CounterOf DEF DeliveryInv, DeliveryTyped, Cooks
      <3>3. QED BY <3>1, <3>2 DEF LookedAtProven
    <2>3. QED BY <2>1, <2>2
  <1>7. ASSUME NEW b \in Batches \ clashed' PROVE BatchInStep(b)'
    BY <1>1, <1>3, InStepElsewhere DEF DeliveryInv
  <1>8. QED BY <1>1, <1>2, <1>4, <1>5, <1>6, <1>7 DEF DeliveryInv

LEMMA ProofsKeep ==
    ASSUME DeliveryInv, NEW c \in Counters,
           \/ \E p \in Purchases : OfferProof(c, p)
           \/ \E p \in Purchases, i \in 1..MaxProofs, to \in ProofStatuses : OpenReview(c, p, i, to)
    PROVE  DeliveryInv'
  <1>1. CASE \E p \in Purchases : OfferProof(c, p)
    <2>1. PICK p \in Purchases : OfferProof(c, p) BY <1>1
    <2>2. PICK q : q = [at |-> "prove", kind |-> <<"prove", 0>>, p |-> p, b |-> "none"] OBVIOUS
    <2>3. q \in CounterShapes /\ q.at = "prove" BY <2>2 DEF CounterShapes, Offerers
    <2>4. Step(c, q) /\ counters[c].at = "idle"
          /\ UNCHANGED <<proofs, batches, tasks, broken, revised, clashed, stranded>>
      BY <2>1, <2>2 DEF OfferProof, Serve, Step
    <2>5. AboutDelivery(q)' BY <2>3 DEF AboutDelivery
    <2>6. QED BY <2>3, <2>4, <2>5, ProofStep DEF Proven, DeliveryInv, DeliveryTyped
  <1>2. CASE \E p \in Purchases, i \in 1..MaxProofs, to \in ProofStatuses : OpenReview(c, p, i, to)
    <2>1. PICK p \in Purchases, i \in 1..MaxProofs, to \in ProofStatuses : OpenReview(c, p, i, to)
      BY <1>2
    <2>2. PICK q : q = [at |-> "review", kind |-> <<"review", 0>>, p |-> p, b |-> "none", i |-> i,
                        to |-> to]
      OBVIOUS
    <2>3. q \in CounterShapes /\ q.at = "review" /\ q.p = p /\ q.i = i
      BY <2>2, DeliveryAssumption DEF CounterShapes, Reviewers
    <2>4. /\ Step(c, q) /\ counters[c].at = "idle" /\ i \in DOMAIN proofs[p]
          /\ UNCHANGED <<proofs, batches, tasks, broken, revised, clashed, stranded>>
      BY <2>1, <2>2 DEF OpenReview, Serve, Step
    <2>5. AboutDelivery(q)' BY <2>3, <2>4 DEF AboutDelivery
    <2>6. QED BY <2>3, <2>4, <2>5, ProofStep DEF Proven, DeliveryInv, DeliveryTyped
  <1>3. QED BY <1>1, <1>2

LEMMA CreateProofKeeps ==
    ASSUME DeliveryInv, NEW c \in Counters, CreateProof(c)
    PROVE  DeliveryInv'
  <1>1. PICK p : p = counters[c].p OBVIOUS
  <1>2. counters[c].at = "prove" /\ p \in Purchases
    BY <1>1, CounterOf DEF CreateProof, DeliveryInv, DeliveryTyped, Offerers
  <1>3. proofs \in [Purchases -> Seq(ProofStatuses)] BY DEF DeliveryInv, DeliveryTyped
  <1>4. PICK new : new = Append(proofs[p], "PENDING") OBVIOUS
  <1>5. proofs' = [proofs EXCEPT ![p] = new] /\ Step(c, NobodyThere)
        /\ UNCHANGED <<batches, tasks, broken, revised, clashed, stranded>>
    BY <1>1, <1>4 DEF CreateProof, Done
  <1>6. /\ new \in Seq(ProofStatuses) /\ DOMAIN proofs[p] \subseteq DOMAIN new
        /\ \A i \in DOMAIN proofs[p] : new[i] = proofs[p][i]
    <2>1. proofs[p] \in Seq(ProofStatuses) /\ "PENDING" \in ProofStatuses
      BY <1>2, <1>3 DEF ProofStatuses
    <2>2. QED BY <1>4, <2>1
  <1>7. /\ proofs' \in [Purchases -> Seq(ProofStatuses)] /\ proofs'[p] = new
        /\ \A s \in Purchases \ {p} : proofs'[s] = proofs[s]
    BY <1>2, <1>3, <1>5, <1>6
  <1>8. ASSUME NEW s \in Purchases
        PROVE  DOMAIN proofs[s] \subseteq DOMAIN proofs'[s] /\ (Proven(s) => Proven(s)')
    BY <1>6, <1>7 DEF Proven
  <1>9. AboutDelivery(NobodyThere)' BY NobodyShape DEF AboutDelivery
  <1>10. QED
    BY <1>2, <1>5, <1>7, <1>8, <1>9, NobodyShape, ProofStep DEF DeliveryInv, DeliveryTyped

LEMMA ReviewKeeps ==
    ASSUME DeliveryInv, NEW c \in Counters, Review(c)
    PROVE  DeliveryInv'
  <1>1. PICK q \in CounterShapes : q = counters[c] BY DEF DeliveryInv, DeliveryTyped
  <1>2. q \in Reviewers /\ q.at = "review" BY <1>1, CounterOf DEF Review
  <1>3. q.p \in Purchases /\ q.to \in ProofStatuses /\ q.i \in DOMAIN proofs[q.p]
    BY <1>1, <1>2 DEF Reviewers, DeliveryInv, AboutDelivery
  <1>4. proofs \in [Purchases -> Seq(ProofStatuses)] BY DEF DeliveryInv, DeliveryTyped
  <1>5. PICK new : new = [proofs[q.p] EXCEPT ![q.i] = q.to] OBVIOUS
  <1>6. /\ proofs' = [proofs EXCEPT ![q.p] = new] /\ Step(c, NobodyThere)
        /\ revised' = IF proofs[q.p][q.i] # "PENDING" THEN revised \union {q.p} ELSE revised
        /\ UNCHANGED <<batches, tasks, broken, clashed, stranded>>
    BY <1>1, <1>5 DEF Review, Done
  <1>7. /\ new \in Seq(ProofStatuses) /\ DOMAIN new = DOMAIN proofs[q.p]
        /\ \A i \in DOMAIN proofs[q.p] : i # q.i => new[i] = proofs[q.p][i]
    <2>1. proofs[q.p] \in Seq(ProofStatuses) BY <1>3, <1>4
    <2>2. QED BY <1>3, <1>5, <2>1
  <1>8. /\ proofs' \in [Purchases -> Seq(ProofStatuses)] /\ proofs'[q.p] = new
        /\ \A s \in Purchases \ {q.p} : proofs'[s] = proofs[s]
    BY <1>3, <1>4, <1>6, <1>7
  <1>9. ASSUME NEW s \in Purchases
        PROVE  /\ DOMAIN proofs[s] \subseteq DOMAIN proofs'[s]
               /\ Proven(s) => Proven(s)' \/ s \in revised'
    <2>1. CASE s # q.p BY <1>8, <2>1 DEF Proven
    <2>2. CASE s = q.p
      <3>1. DOMAIN proofs'[s] = DOMAIN proofs[s] BY <1>7, <1>8, <2>2
      <3>2. CASE proofs[q.p][q.i] # "PENDING" BY <1>6, <2>2, <3>1, <3>2
      <3>3. CASE proofs[q.p][q.i] = "PENDING"
        BY <1>7, <1>8, <2>2, <3>1, <3>3 DEF Proven
      <3>4. QED BY <3>2, <3>3
    <2>3. QED BY <2>1, <2>2
  <1>10. revised \subseteq revised' /\ revised' \subseteq Purchases
    BY <1>3, <1>6 DEF DeliveryInv, DeliveryTyped
  <1>11. AboutDelivery(NobodyThere)' BY NobodyShape DEF AboutDelivery
  <1>12. QED
    BY <1>1, <1>2, <1>6, <1>8, <1>9, <1>10, <1>11, NobodyShape, ProofStep

\* A request ends that wrote nothing, or broke in the middle.
LEMMA RequestEnds ==
    ASSUME DeliveryInv, NEW c \in Counters, Step(c, NobodyThere),
           UNCHANGED <<proofs, batches, tasks, revised, clashed>>, broken' \in Nat,
           stranded \subseteq stranded', stranded' \subseteq Batches,
           TakingOut(counters[c]) => counters[c].b \in stranded'
    PROVE  DeliveryInv'
  <1>1. /\ counters' \in [Counters -> CounterShapes] /\ counters'[c] = NobodyThere
        /\ \A e \in Counters \ {c} : counters'[e] = counters[e]
        /\ \A e \in Counters : AboutDelivery(counters[e])'
    <2>1. AboutDelivery(NobodyThere)' BY NobodyShape DEF AboutDelivery
    <2>2. QED BY <2>1, NobodyShape, CounterTurns
  <1>2. DeliveryTyped' BY <1>1 DEF DeliveryInv, DeliveryTyped
  <1>3. BatchesExist' BY <1>1, NobodyShape, TaskOf, StillExist DEF DeliveryInv, BatchesExist
  <1>4. CookedFromProof' BY DEF DeliveryInv, CookedFromProof, Proven
  <1>5. ASSUME NEW e \in Counters PROVE LookedAtProven(counters[e])'
    <2>1. CASE e = c BY <1>1, <2>1, NobodyShape DEF LookedAtProven
    <2>2. CASE e # c BY <1>1, <2>2 DEF DeliveryInv, LookedAtProven, Proven
    <2>3. QED BY <2>1, <2>2
  <1>6. ASSUME NEW b \in Batches \ clashed' PROVE BatchInStep(b)'
    <2>1. BatchInStep(b) BY DEF DeliveryInv
    <2>2. \A e \in Counters : Concerned(counters'[e], b) =>
            e # c /\ counters'[e] = counters[e] /\ Concerned(counters[e], b)
      BY <1>1, NobodyShape
    <2>3. \A e \in Counters : Concerned(counters'[e], b) => StillTrue(counters[e], b)'
      BY <2>1, <2>2 DEF BatchInStep, StillTrue, HasTask
    <2>4. \A d, e \in Counters : Concerned(counters'[d], b) /\ Concerned(counters'[e], b)
            /\ counters'[d].kind = counters'[e].kind => d = e
      BY <2>1, <2>2 DEF BatchInStep
    <2>5. batches'[b].status = "DELIVERED" =>
            \/ \E i \in DOMAIN tasks' : Taken(i, b)'
            \/ b \in stranded'
            \/ \E e \in Counters : Concerned(counters'[e], b) /\ TakingOut(counters'[e])
      <3>1. ASSUME NEW e \in Counters, Concerned(counters[e], b), TakingOut(counters[e])
            PROVE  b \in stranded' \/ (Concerned(counters'[e], b) /\ TakingOut(counters'[e]))
        <4>1. CASE e = c BY <3>1, <4>1 DEF Concerned
        <4>2. CASE e # c BY <1>1, <3>1, <4>2
        <4>3. QED BY <4>1, <4>2
      <3>2. QED BY <2>1, <3>1 DEF BatchInStep, Taken
    <2>6. /\ OneTaskEach(b)'
          /\ \A i \in DOMAIN tasks' : tasks'[i].batch = b => batches'[b].status \in {"READY", "DELIVERED"}
          /\ (\E i \in DOMAIN tasks' : Taken(i, b)') => batches'[b].status = "DELIVERED"
      BY <2>1 DEF BatchInStep, OneTaskEach, Taken
    <2>7. QED BY <2>3, <2>4, <2>5, <2>6 DEF BatchInStep, Concerned, TakingOut
  <1>7. QED BY <1>1, <1>2, <1>3, <1>4, <1>5, <1>6 DEF DeliveryInv

LEMMA BreaksKeeps ==
    ASSUME DeliveryInv, NEW c \in Counters, Breaks(c)
    PROVE  DeliveryInv'
  <1>1. PICK q \in CounterShapes : q = counters[c] BY DEF DeliveryInv, DeliveryTyped
  <1>2. /\ q.at \in {"create", "move"} /\ broken > 0 /\ broken' = broken - 1
        /\ stranded' = IF TakingOut(q) THEN stranded \union {q.b} ELSE stranded
        /\ Step(c, NobodyThere) /\ UNCHANGED <<proofs, batches, tasks, revised, clashed>>
    BY <1>1 DEF Breaks, Done, TakingOut
  <1>3. q.b \in Batches BY <1>2, CounterOf DEF Assigners, Reporters
  <1>4. broken' \in Nat BY <1>2 DEF DeliveryInv, DeliveryTyped
  <1>5. stranded \subseteq stranded' /\ stranded' \subseteq Batches
    BY <1>2, <1>3 DEF DeliveryInv, DeliveryTyped
  <1>6. QED BY <1>1, <1>2, <1>4, <1>5, RequestEnds

\* A request takes its next look.
LEMMA NextLook ==
    ASSUME DeliveryInv, NEW c \in Counters, NEW q \in CounterShapes, Step(c, q),
           UNCHANGED <<proofs, batches, tasks, broken, revised, clashed, stranded>>,
           q.at \notin {"idle", "prove", "review", "move"},
           counters[c].at \notin {"idle", "prove", "review", "move"},
           q.at = "cook" <=> counters[c].at = "cook",
           q.b = counters[c].b, q.kind = counters[c].kind,
           AboutDelivery(q), LookedAtProven(q),
           StillTrue(counters[c], q.b) => StillTrue(q, q.b)
    PROVE  DeliveryInv'
  <1>1. /\ counters' \in [Counters -> CounterShapes] /\ counters'[c] = q
        /\ \A e \in Counters \ {c} : counters'[e] = counters[e]
        /\ \A e \in Counters : AboutDelivery(counters[e])'
    <2>1. AboutDelivery(q)' BY DEF AboutDelivery
    <2>2. QED BY <2>1, CounterTurns
  <1>2. DeliveryTyped' BY <1>1 DEF DeliveryInv, DeliveryTyped
  <1>3. \A e \in Counters, b \in Batches :
          /\ Concerned(counters'[e], b) <=> Concerned(counters[e], b)
          /\ counters'[e].kind = counters[e].kind
          /\ TakingOut(counters'[e]) <=> TakingOut(counters[e])
    BY <1>1 DEF Concerned, TakingOut
  <1>4. BatchesExist'
    <2>1. \A b \in Batches : Concerned(q, b) =>
            Concerned(counters[c], b) /\ (q.at = "cook" <=> counters[c].at = "cook")
      BY DEF Concerned
    <2>2. \A b \in Batches : batches'[b].status = "NONE" <=> batches[b].status = "NONE"
      OBVIOUS
    <2>3. \A i \in DOMAIN tasks' : batches[tasks'[i].batch].status # "NONE"
                                   /\ tasks'[i].batch \in Batches
      BY TaskOf DEF DeliveryInv, BatchesExist
    <2>4. QED BY <1>1, <2>1, <2>2, <2>3, StillExist
  <1>5. CookedFromProof' BY DEF DeliveryInv, CookedFromProof, Proven
  <1>6. ASSUME NEW e \in Counters PROVE LookedAtProven(counters[e])'
    <2>1. CASE e = c BY <1>1, <2>1 DEF LookedAtProven, Proven
    <2>2. CASE e # c BY <1>1, <2>2 DEF DeliveryInv, LookedAtProven, Proven
    <2>3. QED BY <2>1, <2>2
  <1>7. ASSUME NEW b \in Batches \ clashed' PROVE BatchInStep(b)'
    <2>1. BatchInStep(b) BY DEF DeliveryInv
    <2>2. ASSUME NEW e \in Counters, Concerned(counters'[e], b) PROVE StillTrue(counters[e], b)'
      <3>1. StillTrue(counters[e], b) BY <1>3, <2>1, <2>2 DEF BatchInStep
      <3>2. StillTrue(counters'[e], b)
        <4>1. CASE e = c BY <1>1, <2>2, <3>1, <4>1 DEF Concerned
        <4>2. CASE e # c BY <1>1, <3>1, <4>2
        <4>3. QED BY <4>1, <4>2
      <3>3. QED BY <3>2 DEF StillTrue, HasTask
    <2>3. QED BY <1>3, <2>1, <2>2 DEF BatchInStep, OneTaskEach, Taken, Concerned, TakingOut
  <1>8. QED BY <1>1, <1>2, <1>4, <1>5, <1>6, <1>7 DEF DeliveryInv

LEMMA LookAtProofsKeeps ==
    ASSUME DeliveryInv, NEW c \in Counters, LookAtProofs(c)
    PROVE  DeliveryInv'
  <1>1. PICK q \in CounterShapes : q = counters[c] BY DEF DeliveryInv, DeliveryTyped
  <1>2. q \in Cooks /\ q.at = "cook" BY <1>1, CounterOf DEF LookAtProofs
  <1>3. UNCHANGED <<proofs, batches, tasks, broken, revised, clashed, stranded>>
    BY DEF LookAtProofs
  <1>4. PICK p \in q.left : IF Proven(p) THEN Step(c, [q EXCEPT !.left = @ \ {p}])
                            ELSE Step(c, NobodyThere)
    BY <1>1 DEF LookAtProofs, Done
  <1>5. CASE Proven(p)
    <2>1. PICK r : r = [q EXCEPT !.left = @ \ {p}] OBVIOUS
    <2>2. /\ r \in Cooks /\ r.at = "cook" /\ r.b = q.b /\ r.kind = q.kind /\ r.from = q.from
          /\ r.left = q.left \ {p}
      BY <1>2, <2>1 DEF Cooks
    <2>3. r \in CounterShapes BY <2>2 DEF CounterShapes
    <2>4. LookedAtProven(r) BY <1>1, <1>2, <1>5, <2>2 DEF DeliveryInv, LookedAtProven
    <2>5. AboutDelivery(r) BY <2>2 DEF AboutDelivery
    <2>6. StillTrue(r, r.b) BY <2>2 DEF StillTrue, NewCouriers
    <2>7. Step(c, r) BY <1>4, <1>5, <2>1
    <2>8. QED BY <1>1, <1>2, <1>3, <2>2, <2>3, <2>4, <2>5, <2>6, <2>7, NextLook
  <1>6. CASE ~Proven(p)
    <2>1. stranded \subseteq Batches /\ broken \in Nat BY DEF DeliveryInv, DeliveryTyped
    <2>2. QED BY <1>1, <1>2, <1>3, <1>4, <1>6, <2>1, RequestEnds DEF TakingOut
  <1>7. QED BY <1>5, <1>6

LEMMA LookAtCouriersKeeps ==
    ASSUME DeliveryInv, NEW c \in Counters, LookAtCouriers(c)
    PROVE  DeliveryInv'
  <1>1. PICK q \in CounterShapes : q = counters[c] BY DEF DeliveryInv, DeliveryTyped
  <1>2. q \in Assigners /\ q.at \in {"twice", "active"}
    BY <1>1, CounterOf DEF LookAtCouriers
  <1>3. UNCHANGED <<proofs, batches, tasks, broken, revised, clashed, stranded>>
    BY DEF LookAtCouriers
  <1>4. q.left \subseteq q.who BY <1>1, <1>2 DEF DeliveryInv, AboutDelivery
  <1>5. CASE Step(c, NobodyThere)
    <2>1. stranded \subseteq Batches /\ broken \in Nat BY DEF DeliveryInv, DeliveryTyped
    <2>2. QED BY <1>1, <1>2, <1>3, <1>5, <2>1, RequestEnds DEF TakingOut
  <1>6. CASE ~Step(c, NobodyThere)
    <2>1. PICK s, r :
            /\ s \in q.left /\ Step(c, r)
            /\ \/ /\ q.left = {s} /\ q.at = "twice" /\ ~HasTask(s, q.b)
                  /\ r = [q EXCEPT !.at = "active", !.left = q.who]
               \/ /\ q.left = {s} /\ q.at = "active"
                  /\ r = [q EXCEPT !.at = "create", !.left = q.who]
               \/ /\ q.at = "twice" => ~HasTask(s, q.b)
                  /\ r = [q EXCEPT !.left = @ \ {s}]
      BY <1>1, <1>6 DEF LookAtCouriers, Done
    <2>2. /\ r \in Assigners /\ r.b = q.b /\ r.kind = q.kind /\ r.who = q.who
          /\ r.left \subseteq r.who
      BY <1>2, <1>4, <2>1 DEF Assigners
    <2>3. r \in CounterShapes /\ r.at \in {"twice", "active", "create"} BY <2>2 DEF CounterShapes, Assigners
    <2>4. \A x \in NewCouriers(r) : x \in NewCouriers(q) \/ ~HasTask(x, q.b)
      <3>1. CASE /\ q.left = {s} /\ q.at = "twice" /\ ~HasTask(s, q.b)
                 /\ r = [q EXCEPT !.at = "active", !.left = q.who]
        <4>1. r.at = "active" BY <1>2, <3>1 DEF Assigners
        <4>2. QED BY <2>2, <3>1, <4>1 DEF NewCouriers
      <3>2. CASE /\ q.left = {s} /\ q.at = "active"
                 /\ r = [q EXCEPT !.at = "create", !.left = q.who]
        <4>1. r.at = "create" /\ r.left = q.who BY <1>2, <3>2 DEF Assigners
        <4>2. QED BY <3>2, <4>1 DEF NewCouriers
      <3>3. CASE /\ q.at = "twice" => ~HasTask(s, q.b)
                 /\ r = [q EXCEPT !.left = @ \ {s}]
        <4>1. r.at = q.at /\ r.left = q.left \ {s} BY <1>2, <3>3 DEF Assigners
        <4>2. QED BY <1>2, <2>2, <3>3, <4>1 DEF NewCouriers
      <3>4. QED BY <2>1, <3>1, <3>2, <3>3
    <2>5. StillTrue(q, q.b) => StillTrue(r, r.b) BY <1>2, <2>2, <2>3, <2>4 DEF StillTrue
    <2>6. AboutDelivery(r) /\ LookedAtProven(r) BY <2>2, <2>3 DEF AboutDelivery, LookedAtProven
    <2>7. QED BY <1>1, <1>2, <1>3, <2>1, <2>2, <2>3, <2>5, <2>6, NextLook
  <1>7. QED BY <1>5, <1>6

\* A request about batch b0 begins.
LEMMA Begins ==
    ASSUME DeliveryInv, NEW c \in Counters, NEW q \in CounterShapes, Serve(c, q),
           NEW b0 \in Batches, q.b = b0, q.at \notin {"idle", "prove", "review"},
           UNCHANGED <<proofs, batches, tasks, broken, revised, stranded>>,
           clashed \subseteq clashed', clashed' \subseteq Batches,
           AboutDelivery(q), LookedAtProven(q),
           q.at = "cook" <=> batches[b0].status = "NONE",
           q.at = "cook" => \A e \in Counters : counters[e].b # b0,
           b0 \notin clashed' => \A e \in Counters : ~(counters[e].kind = q.kind /\ counters[e].b = b0),
           BatchInStep(b0) => StillTrue(q, b0)
    PROVE  DeliveryInv'
  <1>1. /\ counters' \in [Counters -> CounterShapes] /\ counters'[c] = q
        /\ \A e \in Counters \ {c} : counters'[e] = counters[e]
        /\ \A e \in Counters : AboutDelivery(counters[e])'
    <2>1. AboutDelivery(q)' BY DEF AboutDelivery
    <2>2. Step(c, q) BY DEF Serve, Step
    <2>3. QED BY <2>1, <2>2, CounterTurns
  <1>2. DeliveryTyped' BY <1>1 DEF DeliveryInv, DeliveryTyped
  <1>3. \A b : ~Concerned(counters[c], b) BY DEF Serve, Concerned
  <1>4. \A e \in Counters, b \in Batches : Concerned(counters'[e], b) =>
          \/ e # c /\ counters'[e] = counters[e] /\ Concerned(counters[e], b)
          \/ e = c /\ counters'[e] = q /\ b = b0
    BY <1>1 DEF Concerned
  <1>5. BatchesExist'
    <2>1. \A i \in DOMAIN tasks' : batches'[tasks'[i].batch].status # "NONE"
      BY DEF DeliveryInv, BatchesExist
    <2>2. \A e \in Counters, b \in Batches : Concerned(counters'[e], b) =>
            (counters'[e].at = "cook" <=> batches'[b].status = "NONE")
      BY <1>4 DEF DeliveryInv, BatchesExist
    <2>3. \A d, e \in Counters, b \in Batches : counters'[d].at = "cook"
            /\ Concerned(counters'[d], b) /\ Concerned(counters'[e], b) => d = e
      <3>1. SUFFICES ASSUME NEW d \in Counters, NEW e \in Counters, NEW b \in Batches,
                            counters'[d].at = "cook", Concerned(counters'[d], b),
                            Concerned(counters'[e], b)
                     PROVE  d = e
        OBVIOUS
      <3>2. batches[b].status = "NONE" BY <2>2, <3>1
      <3>3. CASE b = b0
        <4>1. \A x \in Counters : ~Concerned(counters[x], b0) BY <3>2, <3>3 DEF Concerned
        <4>2. QED BY <1>4, <3>1, <3>3, <4>1
      <3>4. CASE b # b0 BY <1>4, <3>1, <3>4 DEF DeliveryInv, BatchesExist
      <3>5. QED BY <3>3, <3>4
    <2>4. QED BY <2>1, <2>2, <2>3 DEF BatchesExist, Concerned
  <1>6. CookedFromProof' BY DEF DeliveryInv, CookedFromProof, Proven
  <1>7. ASSUME NEW e \in Counters PROVE LookedAtProven(counters[e])'
    <2>1. CASE e = c BY <1>1, <2>1 DEF LookedAtProven, Proven
    <2>2. CASE e # c BY <1>1, <2>2 DEF DeliveryInv, LookedAtProven, Proven
    <2>3. QED BY <2>1, <2>2
  <1>8. ASSUME NEW b \in Batches \ clashed' PROVE BatchInStep(b)'
    <2>1. BatchInStep(b) BY DEF DeliveryInv
    <2>2. ASSUME NEW e \in Counters, Concerned(counters'[e], b) PROVE StillTrue(counters[e], b)'
      <3>1. StillTrue(counters'[e], b) BY <1>4, <2>1, <2>2 DEF BatchInStep
      <3>2. QED BY <3>1 DEF StillTrue, HasTask
    <2>3. \A d, e \in Counters : Concerned(counters'[d], b) /\ Concerned(counters'[e], b)
            /\ counters'[d].kind = counters'[e].kind => d = e
      <3>1. \A e \in Counters : Concerned(counters[e], b) => counters[e].b = b BY DEF Concerned
      <3>2. QED BY <1>4, <2>1, <3>1 DEF BatchInStep
    <2>4. \A e \in Counters : Concerned(counters[e], b) => Concerned(counters'[e], b)
                                                           /\ counters'[e] = counters[e]
      BY <1>1, <1>3
    <2>5. batches'[b].status = "DELIVERED" =>
            \/ \E i \in DOMAIN tasks' : Taken(i, b)'
            \/ b \in stranded'
            \/ \E e \in Counters : Concerned(counters'[e], b) /\ TakingOut(counters'[e])
      BY <2>1, <2>4 DEF BatchInStep, Taken
    <2>6. /\ OneTaskEach(b)'
          /\ \A i \in DOMAIN tasks' : tasks'[i].batch = b => batches'[b].status \in {"READY", "DELIVERED"}
          /\ (\E i \in DOMAIN tasks' : Taken(i, b)') => batches'[b].status = "DELIVERED"
      BY <2>1 DEF BatchInStep, OneTaskEach, Taken
    <2>7. QED BY <2>2, <2>3, <2>5, <2>6 DEF BatchInStep, Concerned, TakingOut
  <1>9. QED BY <1>1, <1>2, <1>5, <1>6, <1>7, <1>8 DEF DeliveryInv

LEMMA CookKeeps ==
    ASSUME DeliveryInv, NEW c \in Counters, NEW b \in Batches, NEW from \in SUBSET Purchases,
           Cook(c, b, from)
    PROVE  DeliveryInv'
  <1>1. PICK q : q = [at |-> "cook", kind |-> <<"cook", 0>>, b |-> b, left |-> from, from |-> from]
    OBVIOUS
  <1>2. q \in CounterShapes BY <1>1 DEF CounterShapes, Cooks
  <1>3. q.at = "cook" /\ q.b = b /\ q.left = q.from BY <1>1
  <1>4. Serve(c, q) /\ UNCHANGED <<proofs, batches, tasks, broken, revised, clashed, stranded>>
        /\ batches[b].status = "NONE" /\ \A e \in Counters : counters[e].b # b
    BY <1>1 DEF Cook
  <1>5. AboutDelivery(q) /\ LookedAtProven(q) BY <1>3 DEF AboutDelivery, LookedAtProven
  <1>6. StillTrue(q, b) BY <1>3 DEF StillTrue, NewCouriers
  <1>7. clashed \subseteq Batches BY DEF DeliveryInv, DeliveryTyped
  <1>8. QED BY <1>2, <1>3, <1>4, <1>5, <1>6, <1>7, Begins

LEMMA OverlapSeen ==
    ASSUME NEW kind, NEW b \in Batches, clashed \subseteq Batches, clashed' = Overlap(kind, b)
    PROVE  /\ clashed \subseteq clashed' /\ clashed' \subseteq Batches
           /\ b \notin clashed' =>
                \A e \in Counters : ~(counters[e].kind = kind /\ counters[e].b = b)
  BY DEF Overlap

LEMMA FinishCookingKeeps ==
    ASSUME DeliveryInv, NEW c \in Counters, NEW b \in Batches, FinishCooking(c, b)
    PROVE  DeliveryInv'
  <1>1. PICK q : q = [at |-> "ready", kind |-> <<"ready", 0>>, b |-> b] OBVIOUS
  <1>2. q \in CounterShapes BY <1>1 DEF CounterShapes, Finishers
  <1>3. q.at = "ready" /\ q.b = b /\ q.kind = <<"ready", 0>> BY <1>1
  <1>4. Serve(c, q) /\ UNCHANGED <<proofs, batches, tasks, broken, revised, stranded>>
        /\ batches[b].status = "PREPARING" /\ clashed' = Overlap(q.kind, b)
    BY <1>1 DEF FinishCooking
  <1>5. AboutDelivery(q) /\ LookedAtProven(q) BY <1>3 DEF AboutDelivery, LookedAtProven
  <1>6. StillTrue(q, b) BY <1>3, <1>4 DEF StillTrue, NewCouriers
  <1>7. clashed \subseteq Batches BY DEF DeliveryInv, DeliveryTyped
  <1>8. QED BY <1>2, <1>3, <1>4, <1>5, <1>6, <1>7, OverlapSeen, Begins

LEMMA AssignBatchKeeps ==
    ASSUME DeliveryInv, NEW c \in Counters, NEW b \in Batches, NEW who \in SUBSET Couriers,
           AssignBatch(c, b, who)
    PROVE  DeliveryInv'
  <1>1. PICK q : q = [at |-> "twice", kind |-> <<"assign", 0>>, b |-> b, left |-> who, who |-> who]
    OBVIOUS
  <1>2. q \in CounterShapes BY <1>1 DEF CounterShapes, Assigners
  <1>3. q.at = "twice" /\ q.b = b /\ q.kind = <<"assign", 0>> /\ q.left = q.who BY <1>1
  <1>4. Serve(c, q) /\ UNCHANGED <<proofs, batches, tasks, broken, revised, stranded>>
        /\ batches[b].status = "READY" /\ clashed' = Overlap(q.kind, b)
    BY <1>1 DEF AssignBatch
  <1>5. AboutDelivery(q) /\ LookedAtProven(q) BY <1>3 DEF AboutDelivery, LookedAtProven
  <1>6. StillTrue(q, b) BY <1>3, <1>4 DEF StillTrue, NewCouriers
  <1>7. clashed \subseteq Batches BY DEF DeliveryInv, DeliveryTyped
  <1>8. QED BY <1>2, <1>3, <1>4, <1>5, <1>6, <1>7, OverlapSeen, Begins

LEMMA ReportKeeps ==
    ASSUME DeliveryInv, NEW c \in Counters, NEW i \in DOMAIN tasks, NEW to \in TaskStatuses,
           Report(c, i, to)
    PROVE  DeliveryInv'
  <1>1. PICK b \in Batches : b = tasks[i].batch BY TaskOf
  <1>2. PICK q : q = [at |-> FirstStep(to), kind |-> <<"report", i>>, b |-> b, i |-> i, to |-> to]
    OBVIOUS
  <1>3. i \in Nat BY DEF DeliveryInv, DeliveryTyped
  <1>4. /\ q.at \in {"depart", "move"} /\ (q.at = "depart" <=> to = "OUT_FOR_DELIVERY")
        /\ q.kind = <<"report", i>> /\ q.b = b /\ q.i = i /\ q.to = to
    BY <1>2 DEF FirstStep
  <1>5. q \in CounterShapes
    <2>1. q \in Reporters BY <1>2, <1>3 DEF Reporters, FirstStep
    <2>2. QED BY <2>1 DEF CounterShapes
  <1>6. /\ Serve(c, q) /\ UNCHANGED <<proofs, batches, tasks, broken, revised, stranded>>
        /\ to \in NextStatuses(tasks[i].status) /\ clashed' = Overlap(q.kind, b)
    BY <1>1, <1>2, <1>4 DEF Report
  <1>7. AboutDelivery(q) /\ LookedAtProven(q) BY <1>1, <1>4 DEF AboutDelivery, LookedAtProven
  <1>8. BatchInStep(b) => StillTrue(q, b) BY <1>1, <1>4, <1>6 DEF BatchInStep, StillTrue, NewCouriers
  <1>9. batches[b].status # "NONE" BY <1>1 DEF DeliveryInv, BatchesExist
  <1>10. clashed \subseteq Batches BY DEF DeliveryInv, DeliveryTyped
  <1>11. /\ clashed \subseteq clashed' /\ clashed' \subseteq Batches
         /\ b \notin clashed' =>
              \A e \in Counters : ~(counters[e].kind = q.kind /\ counters[e].b = b)
    BY <1>6, <1>10, OverlapSeen
  <1>12. QED BY <1>4, <1>5, <1>6, <1>7, <1>8, <1>9, <1>11, Begins

\* A request about batch b0 goes on with what it writes about b0.
LEMMA WorkGoesOn ==
    ASSUME DeliveryInv, NEW c \in Counters, NEW q, q = counters[c], NEW r \in CounterShapes,
           Step(c, r), NEW b0 \in Batches, Concerned(q, b0), r.at = "idle" \/ Concerned(r, b0),
           UNCHANGED <<proofs, broken, revised, clashed, stranded>>,
           batches' \in [Batches -> BatchRows], tasks' \in Seq(TaskRows),
           \A b \in Batches \ {b0} : batches'[b] = batches[b],
           DOMAIN tasks \subseteq DOMAIN tasks',
           \A i \in DOMAIN tasks : tasks'[i].batch = tasks[i].batch,
           \A i \in DOMAIN tasks' : tasks'[i].batch # b0 => i \in DOMAIN tasks /\ tasks'[i] = tasks[i],
           AboutDelivery(r)', LookedAtProven(r), r.at # "cook",
           batches'[b0].status # "NONE",
           \A p \in batches'[b0].from : Proven(p) \/ p \in revised,
           b0 \notin clashed => BatchInStep(b0)'
    PROVE  DeliveryInv'
  <1>1. /\ counters' \in [Counters -> CounterShapes] /\ counters'[c] = r
        /\ \A e \in Counters \ {c} : counters'[e] = counters[e]
        /\ \A e \in Counters : AboutDelivery(counters[e])'
    <2>1. \A p \in Purchases : DOMAIN proofs[p] \subseteq DOMAIN proofs'[p] OBVIOUS
    <2>2. QED BY <2>1, CounterTurns
  <1>2. DeliveryTyped' BY <1>1 DEF DeliveryInv, DeliveryTyped
  <1>3. \A e \in Counters, b \in Batches : Concerned(counters'[e], b) =>
          \/ e # c /\ counters'[e] = counters[e] /\ Concerned(counters[e], b)
          \/ e = c /\ counters'[e] = r /\ b = b0
    BY <1>1 DEF Concerned
  <1>4. \A e \in Counters : counters[e].at = "cook" /\ Concerned(counters[e], b0) => e = c
    BY DEF DeliveryInv, BatchesExist
  <1>5. BatchesExist'
    <2>1. ASSUME NEW i \in DOMAIN tasks' PROVE batches'[tasks'[i].batch].status # "NONE"
      <3>1. CASE tasks'[i].batch = b0 BY <3>1
      <3>2. CASE tasks'[i].batch # b0
        <4>1. i \in DOMAIN tasks /\ tasks'[i] = tasks[i] BY <3>2
        <4>2. tasks[i].batch \in Batches \ {b0} BY <3>2, <4>1, TaskOf
        <4>3. batches[tasks[i].batch].status # "NONE" BY <4>1 DEF DeliveryInv, BatchesExist
        <4>4. QED BY <4>1, <4>2, <4>3
      <3>3. QED BY <3>1, <3>2
    <2>2. ASSUME NEW e \in Counters, NEW b \in Batches, Concerned(counters'[e], b)
          PROVE  counters'[e].at = "cook" <=> batches'[b].status = "NONE"
      <3>1. CASE b = b0 BY <1>3, <1>4, <2>2, <3>1
      <3>2. CASE b # b0
        <4>1. counters'[e] = counters[e] /\ Concerned(counters[e], b) BY <1>3, <2>2, <3>2
        <4>2. counters[e].at = "cook" <=> batches[b].status = "NONE"
          BY <4>1 DEF DeliveryInv, BatchesExist
        <4>3. QED BY <3>2, <4>1, <4>2
      <3>3. QED BY <3>1, <3>2
    <2>3. ASSUME NEW d \in Counters, NEW e \in Counters, NEW b \in Batches,
                 counters'[d].at = "cook", Concerned(counters'[d], b), Concerned(counters'[e], b)
          PROVE  d = e
      <3>1. d # c /\ counters'[d] = counters[d] /\ Concerned(counters[d], b) BY <1>3, <2>3
      <3>2. b # b0 BY <1>4, <2>3, <3>1
      <3>3. Concerned(counters[e], b) BY <1>3, <2>3, <3>2
      <3>4. QED BY <2>3, <3>1, <3>3 DEF DeliveryInv, BatchesExist
    <2>4. QED BY <2>1, <2>2, <2>3 DEF BatchesExist, Concerned
  <1>6. CookedFromProof'
    <2>1. ASSUME NEW b \in Batches, NEW p \in batches'[b].from PROVE Proven(p) \/ p \in revised
      <3>1. CASE b = b0 BY <2>1, <3>1
      <3>2. CASE b # b0 BY <2>1, <3>2 DEF DeliveryInv, CookedFromProof
      <3>3. QED BY <3>1, <3>2
    <2>2. QED BY <2>1 DEF CookedFromProof, Proven
  <1>7. ASSUME NEW e \in Counters PROVE LookedAtProven(counters[e])'
    <2>1. CASE e = c BY <1>1, <2>1 DEF LookedAtProven, Proven
    <2>2. CASE e # c BY <1>1, <2>2 DEF DeliveryInv, LookedAtProven, Proven
    <2>3. QED BY <2>1, <2>2
  <1>8. ASSUME NEW b \in Batches \ clashed' PROVE BatchInStep(b)'
    <2>1. CASE b = b0 BY <1>8, <2>1
    <2>2. CASE b # b0
      <3>1. ~Concerned(counters[c], b) /\ ~Concerned(counters'[c], b) BY <1>1, <2>2 DEF Concerned
      <3>2. BatchInStep(b) /\ \A e \in Counters : AboutDelivery(counters[e]) BY DEF DeliveryInv
      <3>3. \A i \in DOMAIN tasks : tasks[i].batch = b => i \in DOMAIN tasks' /\ tasks'[i] = tasks[i]
        BY <2>2
      <3>4. \A i \in DOMAIN tasks' : tasks'[i].batch = b => i \in DOMAIN tasks /\ tasks'[i] = tasks[i]
        BY <2>2
      <3>5. batches'[b].status = batches[b].status BY <2>2
      <3>6. QED BY <1>1, <3>1, <3>2, <3>3, <3>4, <3>5, InStepElsewhere
    <2>3. QED BY <2>1, <2>2
  <1>9. QED BY <1>1, <1>2, <1>5, <1>6, <1>7, <1>8 DEF DeliveryInv

\* A request writes the status of its batch.
LEMMA RowOf ==
    ASSUME DeliveryInv, NEW b0 \in Batches, NEW row \in BatchRows,
           batches' = [batches EXCEPT ![b0] = row]
    PROVE  /\ batches' \in [Batches -> BatchRows] /\ batches'[b0] = row
           /\ \A b \in Batches \ {b0} : batches'[b] = batches[b]
  BY DEF DeliveryInv, DeliveryTyped

LEMMA StatusRow ==
    ASSUME DeliveryInv, NEW b0 \in Batches, NEW s \in {"PREPARING", "READY", "DELIVERED"},
           batches' = [batches EXCEPT ![b0].status = s]
    PROVE  /\ batches' \in [Batches -> BatchRows]
           /\ batches'[b0].status = s /\ batches'[b0].from = batches[b0].from
           /\ \A b \in Batches \ {b0} : batches'[b] = batches[b]
  <1>1. batches[b0] \in BatchRows BY DEF DeliveryInv, DeliveryTyped
  <1>2. PICK row : row = [batches[b0] EXCEPT !.status = s] OBVIOUS
  <1>3. row \in BatchRows /\ row.status = s /\ row.from = batches[b0].from
    BY <1>1, <1>2 DEF BatchRows
  <1>4. batches' = [batches EXCEPT ![b0] = row] BY <1>2
  <1>5. QED BY <1>3, <1>4, RowOf

LEMMA CreateBatchKeeps ==
    ASSUME DeliveryInv, NEW c \in Counters, CreateBatch(c)
    PROVE  DeliveryInv'
  <1>1. PICK q \in CounterShapes : q = counters[c] BY DEF DeliveryInv, DeliveryTyped
  <1>2. q \in Cooks /\ q.at = "cook" /\ q.left = {} BY <1>1, CounterOf DEF CreateBatch
  <1>3. PICK b0 \in Batches : b0 = q.b BY <1>2 DEF Cooks
  <1>4. PICK row : row = [status |-> "PREPARING", from |-> q.from] OBVIOUS
  <1>5. /\ batches' = [batches EXCEPT ![b0] = row] /\ Step(c, NobodyThere)
        /\ UNCHANGED <<proofs, tasks, broken, revised, clashed, stranded>>
    BY <1>1, <1>3, <1>4 DEF CreateBatch, Done
  <1>6. row \in BatchRows /\ row.status = "PREPARING" /\ row.from = q.from
    BY <1>2, <1>4 DEF BatchRows, Cooks
  <1>7. /\ batches' \in [Batches -> BatchRows] /\ batches'[b0] = row
        /\ \A b \in Batches \ {b0} : batches'[b] = batches[b]
    BY <1>5, <1>6, RowOf
  <1>8. Concerned(q, b0) BY <1>2, <1>3 DEF Concerned
  <1>9. \A p \in q.from : Proven(p) \/ p \in revised
    BY <1>1, <1>2 DEF DeliveryInv, LookedAtProven
  <1>10. counters'[c] = NobodyThere /\ \A e \in Counters \ {c} : counters'[e] = counters[e]
    BY <1>5 DEF DeliveryInv, DeliveryTyped, Step
  <1>11. BatchInStep(b0)'
    <2>1. \A e \in Counters : Concerned(counters[e], b0) => e = c
      BY <1>1, <1>2, <1>8 DEF DeliveryInv, BatchesExist
    <2>2. \A e \in Counters : ~Concerned(counters'[e], b0) BY <1>10, <2>1, NobodyShape
    <2>3. batches[b0].status = "NONE"
      BY <1>1, <1>2, <1>8 DEF DeliveryInv, BatchesExist
    <2>4. \A i \in DOMAIN tasks' : tasks'[i].batch # b0
      BY <1>5, <2>3 DEF DeliveryInv, BatchesExist
    <2>5. OneTaskEach(b0)' /\ ~\E i \in DOMAIN tasks' : Taken(i, b0)'
      BY <2>4 DEF OneTaskEach, Taken
    <2>6. batches'[b0].status # "DELIVERED" BY <1>6, <1>7
    <2>7. QED BY <2>2, <2>4, <2>5, <2>6 DEF BatchInStep, Concerned
  <1>12. AboutDelivery(NobodyThere)' /\ LookedAtProven(NobodyThere) /\ NobodyThere.at # "cook"
    BY NobodyShape DEF AboutDelivery, LookedAtProven
  <1>13. tasks' \in Seq(TaskRows) BY <1>5 DEF DeliveryInv, DeliveryTyped
  <1>14. QED
    BY <1>1, <1>5, <1>6, <1>7, <1>8, <1>9, <1>11, <1>12, <1>13, NobodyShape, WorkGoesOn

LEMMA MarkReadyKeeps ==
    ASSUME DeliveryInv, NEW c \in Counters, MarkReady(c)
    PROVE  DeliveryInv'
  <1>1. PICK q \in CounterShapes : q = counters[c] BY DEF DeliveryInv, DeliveryTyped
  <1>2. q \in Finishers /\ q.at = "ready" BY <1>1, CounterOf DEF MarkReady
  <1>3. PICK b0 \in Batches : b0 = q.b BY <1>2 DEF Finishers
  <1>4. /\ batches' = [batches EXCEPT ![b0].status = "READY"] /\ Step(c, NobodyThere)
        /\ UNCHANGED <<proofs, tasks, broken, revised, clashed, stranded>>
    BY <1>1, <1>3 DEF MarkReady, Done
  <1>5. /\ batches' \in [Batches -> BatchRows] /\ batches'[b0].status = "READY"
        /\ batches'[b0].from = batches[b0].from
        /\ \A b \in Batches \ {b0} : batches'[b] = batches[b]
    BY <1>4, StatusRow
  <1>6. Concerned(q, b0) BY <1>2, <1>3 DEF Concerned
  <1>7. counters'[c] = NobodyThere /\ \A e \in Counters \ {c} : counters'[e] = counters[e]
    BY <1>4 DEF DeliveryInv, DeliveryTyped, Step
  <1>8. ASSUME b0 \notin clashed PROVE BatchInStep(b0)'
    <2>1. BatchInStep(b0) BY <1>8 DEF DeliveryInv
    <2>2. batches[b0].status = "PREPARING" BY <1>1, <1>2, <1>6, <2>1 DEF BatchInStep, StillTrue
    <2>3. ASSUME NEW e \in Counters, Concerned(counters[e], b0) PROVE e = c
      <3>1. StillTrue(counters[e], b0) BY <2>1, <2>3 DEF BatchInStep
      <3>2. counters[e].at # "cook" BY <2>2, <2>3 DEF DeliveryInv, BatchesExist
      <3>3. counters[e].at = "ready" BY <2>2, <3>1, <3>2 DEF StillTrue
      <3>4. counters[e].kind = q.kind
        BY <1>2, <3>3, CounterOf DEF Finishers, DeliveryInv, DeliveryTyped
      <3>5. QED BY <1>1, <1>6, <2>1, <2>3, <3>4 DEF BatchInStep
    <2>4. \A e \in Counters : ~Concerned(counters'[e], b0) BY <1>7, <2>3, NobodyShape
    <2>5. \A i \in DOMAIN tasks' : tasks'[i].batch # b0 BY <1>4, <2>1, <2>2 DEF BatchInStep
    <2>6. OneTaskEach(b0)' /\ ~\E i \in DOMAIN tasks' : Taken(i, b0)'
      BY <2>5 DEF OneTaskEach, Taken
    <2>7. batches'[b0].status # "DELIVERED" BY <1>5
    <2>8. QED BY <2>4, <2>5, <2>6, <2>7 DEF BatchInStep, Concerned
  <1>9. AboutDelivery(NobodyThere)' /\ LookedAtProven(NobodyThere) /\ NobodyThere.at # "cook"
    BY NobodyShape DEF AboutDelivery, LookedAtProven
  <1>10. tasks' \in Seq(TaskRows) BY <1>4 DEF DeliveryInv, DeliveryTyped
  <1>11. \A p \in batches'[b0].from : Proven(p) \/ p \in revised
    BY <1>5 DEF DeliveryInv, CookedFromProof
  <1>12. QED
    BY <1>1, <1>4, <1>5, <1>6, <1>8, <1>9, <1>10, <1>11, NobodyShape, WorkGoesOn

LEMMA CreateTaskKeeps ==
    ASSUME DeliveryInv, NEW c \in Counters, CreateTask(c)
    PROVE  DeliveryInv'
  <1>1. PICK q \in CounterShapes : q = counters[c] BY DEF DeliveryInv, DeliveryTyped
  <1>2. q \in Assigners /\ q.at = "create" BY <1>1, CounterOf DEF CreateTask
  <1>3. PICK b0 \in Batches : b0 = q.b BY <1>2 DEF Assigners
  <1>4. PICK s \in q.left :
          /\ tasks' = Append(tasks, [courier |-> s, batch |-> b0, status |-> "PENDING"])
          /\ IF q.left = {s} THEN Step(c, NobodyThere) ELSE Step(c, [q EXCEPT !.left = @ \ {s}])
    BY <1>1, <1>3 DEF CreateTask, Done
  <1>5. UNCHANGED <<proofs, batches, broken, revised, clashed, stranded>> BY DEF CreateTask
  <1>6. s \in Couriers /\ q.left \subseteq q.who
    BY <1>1, <1>2 DEF Assigners, DeliveryInv, AboutDelivery
  <1>7. PICK row : row = [courier |-> s, batch |-> b0, status |-> "PENDING"] OBVIOUS
  <1>8. row \in TaskRows /\ row.courier = s /\ row.batch = b0 /\ row.status = "PENDING"
    BY <1>6, <1>7 DEF TaskRows, TaskStatuses
  <1>9. PICK n \in Nat : n = Len(tasks) + 1 BY DEF DeliveryInv, DeliveryTyped
  <1>10. /\ tasks' \in Seq(TaskRows) /\ DOMAIN tasks' = DOMAIN tasks \union {n}
         /\ n \notin DOMAIN tasks /\ tasks'[n] = row
         /\ \A i \in DOMAIN tasks : tasks'[i] = tasks[i]
    <2>1. tasks \in Seq(TaskRows) BY DEF DeliveryInv, DeliveryTyped
    <2>2. tasks' = Append(tasks, row) BY <1>4, <1>7
    <2>3. tasks' \in Seq(TaskRows) BY <1>8, <2>1, <2>2
    <2>4. DOMAIN tasks = 1..Len(tasks) /\ DOMAIN tasks' = 1..(Len(tasks) + 1) /\ Len(tasks) \in Nat
      BY <2>1, <2>2, <1>8
    <2>5. DOMAIN tasks' = DOMAIN tasks \union {n} /\ n \notin DOMAIN tasks BY <1>9, <2>4
    <2>6. tasks'[n] = row /\ \A i \in DOMAIN tasks : tasks'[i] = tasks[i]
      BY <1>8, <1>9, <2>1, <2>2
    <2>7. QED BY <2>3, <2>5, <2>6
  <1>11. PICK r \in CounterShapes :
           /\ Step(c, r)
           /\ \/ r = NobodyThere
              \/ /\ r.at = "create" /\ r.b = b0 /\ r.kind = q.kind /\ r.left = q.left \ {s}
                 /\ r.who = q.who
    <2>1. CASE q.left = {s} BY <1>4, <2>1, NobodyShape
    <2>2. CASE q.left # {s}
      <3>1. PICK r : r = [q EXCEPT !.left = @ \ {s}] OBVIOUS
      <3>2. /\ r \in Assigners /\ r.at = "create" /\ r.b = b0 /\ r.kind = q.kind
            /\ r.left = q.left \ {s} /\ r.who = q.who
        BY <1>2, <1>3, <3>1 DEF Assigners
      <3>3. r \in CounterShapes BY <3>2 DEF CounterShapes
      <3>4. Step(c, r) BY <1>4, <2>2, <3>1
      <3>5. QED BY <3>2, <3>3, <3>4
    <2>3. QED BY <2>1, <2>2
  <1>12. counters'[c] = r /\ \A e \in Counters \ {c} : counters'[e] = counters[e]
    BY <1>11 DEF DeliveryInv, DeliveryTyped, Step
  <1>13. Concerned(q, b0) BY <1>2, <1>3 DEF Concerned
  <1>14. r.at = "idle" \/ Concerned(r, b0) BY <1>11, NobodyShape DEF Concerned
  <1>15. r.at # "cook" /\ r.at \notin {"review", "depart", "move"} BY <1>11, NobodyShape
  <1>16. AboutDelivery(r)' /\ LookedAtProven(r)
    <2>1. r.at \in {"twice", "active", "create"} => r.left \subseteq r.who
      BY <1>6, <1>11, NobodyShape
    <2>2. QED BY <1>15, <2>1 DEF AboutDelivery, LookedAtProven
  <1>17. ASSUME b0 \notin clashed PROVE BatchInStep(b0)'
    <2>1. BatchInStep(b0) BY <1>17 DEF DeliveryInv
    <2>2. StillTrue(q, b0) BY <1>1, <1>13, <2>1 DEF BatchInStep
    <2>3. \A x \in q.left : ~HasTask(x, b0) BY <1>2, <2>2 DEF StillTrue, NewCouriers
    <2>4. batches[b0].status \in {"READY", "DELIVERED"} BY <1>2, <2>2 DEF StillTrue
    <2>5. ASSUME NEW e \in Counters, Concerned(counters'[e], b0) PROVE StillTrue(counters[e], b0)'
      <3>1. CASE e = c
        <4>1. counters'[e] = r /\ r.at = "create" /\ r.left = q.left \ {s}
          BY <1>11, <1>12, <2>5, <3>1, NobodyShape
        <4>2. \A x \in q.left \ {s} : ~HasTask(x, b0)' BY <1>8, <1>10, <2>3 DEF HasTask
        <4>3. QED BY <1>5, <2>4, <4>1, <4>2 DEF StillTrue, NewCouriers
      <3>2. CASE e # c
        <4>1. counters'[e] = counters[e] /\ Concerned(counters[e], b0) BY <1>12, <2>5, <3>2
        <4>2. StillTrue(counters[e], b0) BY <2>1, <4>1 DEF BatchInStep
        <4>3. counters[e].at \notin {"twice", "active", "create"}
          <5>1. counters[e].kind # q.kind BY <1>1, <1>13, <2>1, <3>2, <4>1 DEF BatchInStep
          <5>2. counters[e] \in CounterShapes BY DEF DeliveryInv, DeliveryTyped
          <5>3. QED BY <1>2, <5>1, <5>2, CounterOf DEF Assigners
        <4>4. NewCouriers(counters[e]) = {} BY <4>3 DEF NewCouriers
        <4>5. counters[e].at \in {"depart", "move"} => tasks'[counters[e].i] = tasks[counters[e].i]
          BY <1>10 DEF DeliveryInv, AboutDelivery
        <4>6. QED BY <1>5, <4>1, <4>2, <4>4, <4>5 DEF StillTrue
      <3>3. QED BY <3>1, <3>2
    <2>6. OneTaskEach(b0)'
      <3>1. \A i \in DOMAIN tasks : tasks[i].batch = b0 => tasks[i].courier # s
        BY <2>3 DEF HasTask
      <3>2. OneTaskEach(b0) BY <2>1 DEF BatchInStep
      <3>3. QED BY <1>8, <1>10, <3>1, <3>2 DEF OneTaskEach
    <2>7. \A i : i \in DOMAIN tasks' /\ Taken(i, b0)' <=> i \in DOMAIN tasks /\ Taken(i, b0)
      BY <1>8, <1>10 DEF Taken
    <2>8. \A d, e \in Counters : Concerned(counters'[d], b0) /\ Concerned(counters'[e], b0)
            /\ counters'[d].kind = counters'[e].kind => d = e
      <3>1. \A e \in Counters : Concerned(counters'[e], b0) =>
              Concerned(counters[e], b0) /\ counters'[e].kind = counters[e].kind
        BY <1>1, <1>11, <1>12, <1>13, NobodyShape
      <3>2. QED BY <2>1, <3>1 DEF BatchInStep
    <2>9. \A e \in Counters : Concerned(counters[e], b0) /\ TakingOut(counters[e]) =>
            counters'[e] = counters[e]
      BY <1>1, <1>2, <1>12 DEF TakingOut
    <2>10. batches'[b0].status = "DELIVERED" =>
             \/ \E i \in DOMAIN tasks' : Taken(i, b0)'
             \/ b0 \in stranded'
             \/ \E e \in Counters : Concerned(counters'[e], b0) /\ TakingOut(counters'[e])
      BY <1>5, <2>1, <2>7, <2>9 DEF BatchInStep
    <2>11. (\E i \in DOMAIN tasks' : Taken(i, b0)') => batches'[b0].status = "DELIVERED"
      BY <1>5, <2>1, <2>7 DEF BatchInStep
    <2>12. QED BY <1>5, <2>4, <2>5, <2>6, <2>8, <2>10, <2>11 DEF BatchInStep, Concerned, TakingOut
  <1>18. batches' \in [Batches -> BatchRows] /\ \A b \in Batches \ {b0} : batches'[b] = batches[b]
    BY <1>5 DEF DeliveryInv, DeliveryTyped
  <1>19. \A p \in batches'[b0].from : Proven(p) \/ p \in revised
    BY <1>5 DEF DeliveryInv, CookedFromProof
  <1>20. batches'[b0].status # "NONE"
    BY <1>1, <1>2, <1>5, <1>13 DEF DeliveryInv, BatchesExist
  <1>21. DOMAIN tasks \subseteq DOMAIN tasks' /\ \A i \in DOMAIN tasks : tasks'[i].batch = tasks[i].batch
    BY <1>10
  <1>22. \A i \in DOMAIN tasks' : tasks'[i].batch # b0 => i \in DOMAIN tasks /\ tasks'[i] = tasks[i]
    BY <1>8, <1>10
  <1>23. QED
    BY <1>1, <1>5, <1>10, <1>11, <1>13, <1>14, <1>15, <1>16, <1>17, <1>18, <1>19, <1>20, <1>21,
       <1>22, WorkGoesOn

LEMMA DepartKeeps ==
    ASSUME DeliveryInv, NEW c \in Counters, Depart(c)
    PROVE  DeliveryInv'
  <1>1. PICK q \in CounterShapes : q = counters[c] BY DEF DeliveryInv, DeliveryTyped
  <1>2. q \in Reporters /\ q.at = "depart" BY <1>1, CounterOf DEF Depart
  <1>3. PICK b0 \in Batches : b0 = q.b BY <1>2 DEF Reporters
  <1>4. PICK r : r = [q EXCEPT !.at = "move"] OBVIOUS
  <1>5. /\ batches' = [batches EXCEPT ![b0].status = "DELIVERED"] /\ Step(c, r)
        /\ UNCHANGED <<proofs, tasks, broken, revised, clashed, stranded>>
    BY <1>1, <1>3, <1>4 DEF Depart
  <1>6. /\ r \in Reporters /\ r.at = "move" /\ r.b = b0 /\ r.kind = q.kind /\ r.i = q.i
        /\ r.to = q.to
    BY <1>2, <1>3, <1>4 DEF Reporters
  <1>7. r \in CounterShapes BY <1>6 DEF CounterShapes
  <1>8. /\ batches' \in [Batches -> BatchRows] /\ batches'[b0].status = "DELIVERED"
        /\ batches'[b0].from = batches[b0].from
        /\ \A b \in Batches \ {b0} : batches'[b] = batches[b]
    BY <1>5, StatusRow
  <1>9. Concerned(q, b0) /\ Concerned(r, b0) BY <1>2, <1>3, <1>6 DEF Concerned
  <1>10. counters'[c] = r /\ \A e \in Counters \ {c} : counters'[e] = counters[e]
    BY <1>5 DEF DeliveryInv, DeliveryTyped, Step
  <1>11. AboutDelivery(q) /\ q.to = "OUT_FOR_DELIVERY"
    BY <1>1, <1>2 DEF DeliveryInv, AboutDelivery
  <1>12. AboutDelivery(r)' /\ LookedAtProven(r) /\ r.at # "cook"
    BY <1>2, <1>3, <1>5, <1>6, <1>11 DEF AboutDelivery, LookedAtProven
  <1>13. ASSUME b0 \notin clashed PROVE BatchInStep(b0)'
    <2>1. BatchInStep(b0) BY <1>13 DEF DeliveryInv
    <2>2. StillTrue(q, b0) BY <1>1, <1>9, <2>1 DEF BatchInStep
    <2>3. batches[b0].status \in {"READY", "DELIVERED"} BY <1>2, <2>2 DEF StillTrue
    <2>4. ASSUME NEW e \in Counters, Concerned(counters'[e], b0) PROVE StillTrue(counters[e], b0)'
      <3>1. CASE e = c
        <4>1. NewCouriers(r) = {} BY <1>6 DEF NewCouriers
        <4>2. QED BY <1>2, <1>5, <1>6, <1>8, <1>10, <2>2, <3>1, <4>1 DEF StillTrue
      <3>2. CASE e # c
        <4>1. counters'[e] = counters[e] /\ Concerned(counters[e], b0) BY <1>10, <2>4, <3>2
        <4>2. StillTrue(counters[e], b0) BY <2>1, <4>1 DEF BatchInStep
        <4>3. \A x : HasTask(x, b0)' <=> HasTask(x, b0) BY <1>5 DEF HasTask
        <4>4. counters[e].at # "ready" BY <2>3, <4>2 DEF StillTrue
        <4>5. QED BY <1>5, <1>8, <4>1, <4>2, <4>3, <4>4 DEF StillTrue
      <3>3. QED BY <3>1, <3>2
    <2>5. \A d, e \in Counters : Concerned(counters'[d], b0) /\ Concerned(counters'[e], b0)
            /\ counters'[d].kind = counters'[e].kind => d = e
      <3>1. \A e \in Counters : Concerned(counters'[e], b0) =>
              Concerned(counters[e], b0) /\ counters'[e].kind = counters[e].kind
        BY <1>1, <1>6, <1>9, <1>10
      <3>2. QED BY <2>1, <3>1 DEF BatchInStep
    <2>6. Concerned(counters'[c], b0) /\ TakingOut(counters'[c])
      BY <1>6, <1>9, <1>10, <1>11 DEF TakingOut
    <2>7. OneTaskEach(b0)' BY <1>5, <2>1 DEF BatchInStep, OneTaskEach
    <2>8. QED BY <1>8, <2>4, <2>5, <2>6, <2>7 DEF BatchInStep, Concerned, TakingOut
  <1>14. tasks' \in Seq(TaskRows) BY <1>5 DEF DeliveryInv, DeliveryTyped
  <1>15. \A p \in batches'[b0].from : Proven(p) \/ p \in revised
    BY <1>8 DEF DeliveryInv, CookedFromProof
  <1>16. QED
    BY <1>1, <1>5, <1>7, <1>8, <1>9, <1>12, <1>13, <1>14, <1>15, WorkGoesOn

LEMMA MoveKeeps ==
    ASSUME DeliveryInv, NEW c \in Counters, Move(c)
    PROVE  DeliveryInv'
  <1>1. PICK q \in CounterShapes : q = counters[c] BY DEF DeliveryInv, DeliveryTyped
  <1>2. q \in Reporters /\ q.at = "move" BY <1>1, CounterOf DEF Move
  <1>3. PICK b0 \in Batches : b0 = q.b BY <1>2 DEF Reporters
  <1>4. /\ q.i \in DOMAIN tasks /\ b0 = tasks[q.i].batch /\ q.kind = <<"report", q.i>>
        /\ q.to \in TaskStatuses
    BY <1>1, <1>2, <1>3 DEF Reporters, DeliveryInv, AboutDelivery
  <1>5. PICK i : i = q.i OBVIOUS
  <1>6. PICK row : row = [tasks[i] EXCEPT !.status = q.to] OBVIOUS
  <1>7. /\ tasks' = [tasks EXCEPT ![i] = row] /\ Step(c, NobodyThere)
        /\ UNCHANGED <<proofs, batches, broken, revised, clashed, stranded>>
    BY <1>1, <1>5, <1>6 DEF Move, Done
  <1>8. /\ row \in TaskRows /\ row.status = q.to /\ row.batch = b0
        /\ row.courier = tasks[i].courier
    <2>1. tasks[i] \in TaskRows BY <1>4, <1>5, TaskOf
    <2>2. QED BY <1>4, <1>5, <1>6, <2>1 DEF TaskRows
  <1>9. /\ tasks' \in Seq(TaskRows) /\ DOMAIN tasks' = DOMAIN tasks /\ tasks'[i] = row
        /\ \A j \in DOMAIN tasks : j # i => tasks'[j] = tasks[j]
    <2>1. tasks \in Seq(TaskRows) BY DEF DeliveryInv, DeliveryTyped
    <2>2. QED BY <1>4, <1>5, <1>7, <1>8, <2>1
  <1>10. \A j \in DOMAIN tasks : tasks'[j].batch = tasks[j].batch
                                 /\ tasks'[j].courier = tasks[j].courier
    BY <1>4, <1>5, <1>8, <1>9
  <1>11. counters'[c] = NobodyThere /\ \A e \in Counters \ {c} : counters'[e] = counters[e]
    BY <1>7 DEF DeliveryInv, DeliveryTyped, Step
  <1>12. Concerned(q, b0) BY <1>2, <1>3 DEF Concerned
  <1>13. ASSUME b0 \notin clashed PROVE BatchInStep(b0)'
    <2>1. BatchInStep(b0) BY <1>13 DEF DeliveryInv
    <2>2. StillTrue(q, b0) BY <1>1, <1>12, <2>1 DEF BatchInStep
    <2>3. q.to \in NextStatuses(tasks[i].status)
          /\ (q.to = "OUT_FOR_DELIVERY" => batches[b0].status = "DELIVERED")
      BY <1>2, <1>5, <2>2 DEF StillTrue
    <2>4. \A e \in Counters : Concerned(counters'[e], b0) =>
            e # c /\ counters'[e] = counters[e] /\ Concerned(counters[e], b0)
      BY <1>11, NobodyShape
    <2>5. ASSUME NEW e \in Counters, Concerned(counters'[e], b0) PROVE StillTrue(counters[e], b0)'
      <3>1. e # c /\ counters'[e] = counters[e] /\ StillTrue(counters[e], b0)
        BY <2>1, <2>4, <2>5 DEF BatchInStep
      <3>2. \A x : HasTask(x, b0)' <=> HasTask(x, b0) BY <1>9, <1>10 DEF HasTask
      <3>3. counters[e].at \in {"depart", "move"} => tasks'[counters[e].i] = tasks[counters[e].i]
        <4>1. SUFFICES ASSUME counters[e].at \in {"depart", "move"}
                       PROVE  tasks'[counters[e].i] = tasks[counters[e].i]
          OBVIOUS
        <4>2. counters[e].i \in DOMAIN tasks /\ counters[e].kind = <<"report", counters[e].i>>
          BY <4>1 DEF DeliveryInv, AboutDelivery
        <4>3. counters[e].kind # q.kind
          BY <1>1, <1>12, <2>1, <2>4, <2>5, <3>1 DEF BatchInStep
        <4>4. counters[e].i # i BY <1>4, <1>5, <4>2, <4>3
        <4>5. QED BY <1>9, <4>2, <4>4
      <3>4. QED BY <1>7, <3>1, <3>2, <3>3 DEF StillTrue
    <2>6. OneTaskEach(b0)'
      <3>1. OneTaskEach(b0) BY <2>1 DEF BatchInStep
      <3>2. QED BY <1>9, <1>10, <3>1 DEF OneTaskEach
    <2>7. \A j \in DOMAIN tasks : Taken(j, b0) => Taken(j, b0)'
      <3>1. Taken(i, b0) => Taken(i, b0)'
        BY <1>8, <1>9, <2>3 DEF Taken, NextStatuses
      <3>2. QED BY <1>9, <3>1 DEF Taken
    <2>8. \A j \in DOMAIN tasks' : Taken(j, b0)' => Taken(j, b0) \/ batches[b0].status = "DELIVERED"
      <3>1. Taken(i, b0)' => Taken(i, b0) \/ batches[b0].status = "DELIVERED"
        <4>1. tasks[i].batch = b0 BY <1>4, <1>5
        <4>2. QED BY <1>8, <1>9, <2>3, <4>1 DEF Taken, NextStatuses
      <3>2. QED BY <1>9, <3>1 DEF Taken
    <2>9. (\E j \in DOMAIN tasks' : Taken(j, b0)') => batches'[b0].status = "DELIVERED"
      BY <1>7, <1>9, <2>1, <2>8 DEF BatchInStep
    <2>10. ASSUME NEW e \in Counters, Concerned(counters[e], b0), TakingOut(counters[e])
           PROVE  \/ \E j \in DOMAIN tasks' : Taken(j, b0)'
                  \/ Concerned(counters'[e], b0) /\ TakingOut(counters'[e])
      <3>1. CASE e = c
        <4>1. q.to = "OUT_FOR_DELIVERY" BY <1>1, <2>10, <3>1 DEF TakingOut
        <4>2. Taken(i, b0)' BY <1>8, <1>9, <4>1 DEF Taken
        <4>3. QED BY <1>4, <1>5, <1>9, <4>2
      <3>2. CASE e # c BY <1>11, <2>10, <3>2
      <3>3. QED BY <3>1, <3>2
    <2>11. batches'[b0].status = "DELIVERED" =>
             \/ \E j \in DOMAIN tasks' : Taken(j, b0)'
             \/ b0 \in stranded'
             \/ \E e \in Counters : Concerned(counters'[e], b0) /\ TakingOut(counters'[e])
      <3>1. SUFFICES ASSUME batches'[b0].status = "DELIVERED"
                     PROVE  \/ \E j \in DOMAIN tasks' : Taken(j, b0)'
                            \/ b0 \in stranded'
                            \/ \E e \in Counters : Concerned(counters'[e], b0)
                                                   /\ TakingOut(counters'[e])
        OBVIOUS
      <3>2. \/ \E j \in DOMAIN tasks : Taken(j, b0)
            \/ b0 \in stranded
            \/ \E e \in Counters : Concerned(counters[e], b0) /\ TakingOut(counters[e])
        BY <1>7, <2>1, <3>1 DEF BatchInStep
      <3>3. CASE \E j \in DOMAIN tasks : Taken(j, b0) BY <1>9, <2>7, <3>3
      <3>4. CASE b0 \in stranded BY <1>7, <3>4
      <3>5. CASE \E e \in Counters : Concerned(counters[e], b0) /\ TakingOut(counters[e])
        BY <2>10, <3>5
      <3>6. QED BY <3>2, <3>3, <3>4, <3>5
    <2>12. \A d, e \in Counters : Concerned(counters'[d], b0) /\ Concerned(counters'[e], b0)
             /\ counters'[d].kind = counters'[e].kind => d = e
      BY <2>1, <2>4 DEF BatchInStep
    <2>13. \A j \in DOMAIN tasks' : tasks'[j].batch = b0 => batches'[b0].status \in {"READY", "DELIVERED"}
      BY <1>7, <1>9, <1>10, <2>1 DEF BatchInStep
    <2>14. QED BY <2>5, <2>6, <2>9, <2>11, <2>12, <2>13 DEF BatchInStep, Concerned, TakingOut
  <1>14. AboutDelivery(NobodyThere)' /\ LookedAtProven(NobodyThere) /\ NobodyThere.at # "cook"
    BY NobodyShape DEF AboutDelivery, LookedAtProven
  <1>15. batches' \in [Batches -> BatchRows] /\ \A b \in Batches \ {b0} : batches'[b] = batches[b]
    BY <1>7 DEF DeliveryInv, DeliveryTyped
  <1>16. \A p \in batches'[b0].from : Proven(p) \/ p \in revised
    BY <1>7 DEF DeliveryInv, CookedFromProof
  <1>17. batches'[b0].status # "NONE"
    BY <1>1, <1>2, <1>7, <1>12 DEF DeliveryInv, BatchesExist
  <1>18. \A j \in DOMAIN tasks' : tasks'[j].batch # b0 => j \in DOMAIN tasks /\ tasks'[j] = tasks[j]
    BY <1>8, <1>9
  <1>19. QED
    BY <1>1, <1>7, <1>9, <1>10, <1>12, <1>13, <1>14, <1>15, <1>16, <1>17, <1>18, NobodyShape,
       WorkGoesOn

LEMMA DeliveryStutter == DeliveryInv /\ UNCHANGED deliveryVars => DeliveryInv'
  BY DEF DeliveryInv, DeliveryTyped, BatchesExist, CookedFromProof, AboutDelivery,
         LookedAtProven, Concerned, Proven, BatchInStep, StillTrue, NewCouriers, HasTask,
         OneTaskEach, Taken, TakingOut, deliveryVars

LEMMA DeliveryNext_Inv == DeliveryInv /\ [DeliveryNext]_deliveryVars => DeliveryInv'
  <1> SUFFICES ASSUME DeliveryInv, [DeliveryNext]_deliveryVars PROVE DeliveryInv'
    OBVIOUS
  <1>1. CASE UNCHANGED deliveryVars BY <1>1, DeliveryStutter
  <1>2. CASE DeliveryNext
    <2>1. PICK c \in Counters :
            \/ \E p \in Purchases : OfferProof(c, p)
            \/ \E p \in Purchases, i \in 1..MaxProofs, to \in ProofStatuses : OpenReview(c, p, i, to)
            \/ CreateProof(c) \/ Review(c)
            \/ \E b \in Batches, from \in SUBSET Purchases \ {{}} : Cook(c, b, from)
            \/ \E b \in Batches : FinishCooking(c, b)
            \/ LookAtProofs(c) \/ CreateBatch(c) \/ MarkReady(c)
            \/ \E b \in Batches, who \in SUBSET Couriers \ {{}} : AssignBatch(c, b, who)
            \/ \E i \in DOMAIN tasks, to \in TaskStatuses : Report(c, i, to)
            \/ LookAtCouriers(c) \/ CreateTask(c) \/ Depart(c) \/ Move(c) \/ Breaks(c)
      BY <1>2 DEF DeliveryNext
    <2>2. CASE \E b \in Batches, from \in SUBSET Purchases \ {{}} : Cook(c, b, from)
      BY <2>2, CookKeeps
    <2>3. CASE \E b \in Batches : FinishCooking(c, b) BY <2>3, FinishCookingKeeps
    <2>4. CASE \E b \in Batches, who \in SUBSET Couriers \ {{}} : AssignBatch(c, b, who)
      BY <2>4, AssignBatchKeeps
    <2>5. CASE \E i \in DOMAIN tasks, to \in TaskStatuses : Report(c, i, to)
      BY <2>5, ReportKeeps
    <2>6. QED
      BY <2>1, <2>2, <2>3, <2>4, <2>5, ProofsKeep, CreateProofKeeps, ReviewKeeps,
         LookAtProofsKeeps, CreateBatchKeeps, MarkReadyKeeps, LookAtCouriersKeeps,
         CreateTaskKeeps, DepartKeeps, MoveKeeps, BreaksKeeps
  <1>3. QED BY <1>1, <1>2

LEMMA DeliveryInvariant == DeliverySpec => []DeliveryInv
  BY DeliveryInit_Inv, DeliveryNext_Inv, PTL DEF DeliverySpec

\* What the batch's status says and what its tasks say agree, and no courier has two
\* tasks of a batch, unless two assignments or reports of it overlapped
\* (assignTaskToStaff and updateTaskStatus).
THEOREM BatchesTellTheTruth == DeliverySpec => []DeliveryInStep
  <1>1. DeliveryInv => DeliveryInStep
    BY DEF DeliveryInv, DeliveryInStep, BatchInStep, Concerned, TakingOut
  <1>2. QED BY <1>1, DeliveryInvariant, PTL

\* Between the look at the proofs and the new row a proof may be reviewed again, and
\* nothing else takes a batch's proof away (createMealBatch).
THEOREM MealsAreProven == DeliverySpec => []CookedFromProof
  <1>1. DeliveryInv => CookedFromProof BY DEF DeliveryInv
  <1>2. QED BY <1>1, DeliveryInvariant, PTL

-----------------------------------------------------------------------------
(* Likes.                                                                  *)

LikeJobs == [at: {"queue", "fallback", "check", "write", "counter"}, u: Fans,
             do: Actions, tries: 1..LikeTries]
WaitingJobs == [at: {"check"}, u: Fans, do: Actions, tries: 1..LikeTries]

\* The jobs of fan u that wait, and those that run and have not done their part.
Awaiting(u) == {i \in DOMAIN likeQueue : likeQueue[i].u = u}
AtWork(u) == {i \in DOMAIN running : running[i].u = u /\ running[i].at \in {"check", "write"}}

\* What u asked for last is the last job of u that waits, or the last at work when none
\* waits, or what the rows say when there is none at all; and only the first of those at
\* work has found the rows against it.
LastAsked(u) ==
    /\ \A i \in Awaiting(u) : (\A k \in Awaiting(u) : k <= i) => likeQueue[i].do = wish[u]
    /\ Awaiting(u) = {} =>
         \A i \in AtWork(u) : (\A k \in AtWork(u) : k <= i) => running[i].do = wish[u]
    /\ Awaiting(u) = {} /\ AtWork(u) = {} => ((u \in likes) = (wish[u] = "LIKE"))
    /\ \A i \in AtWork(u) : running[i].at = "write" => \A k \in AtWork(u) : i <= k

LikesTyped ==
    /\ likes \subseteq Fans /\ likeCount = Cardinality(likes)
    /\ likeCount \in 0..Cardinality(Fans)
    /\ taps \in [Taps -> LikeJobs \union {Nothing}]
    /\ \A t \in Taps : taps[t].at \in {"idle", "queue", "fallback"}
    /\ likeQueue \in Seq(WaitingJobs)
    /\ running \in Seq(LikeJobs) /\ Len(running) <= LikeLoops
    /\ wish \in [Fans -> Actions] /\ likeErrors \in Nat /\ jumped \subseteq Fans

PostLikesInv == LikesTyped /\ \A u \in Fans \ jumped : LastAsked(u)

LEMMA LikeTypes == LikesTyped => PostLikesTypeOK
  <1>1. WaitingJobs \subseteq LikeJobs BY DEF WaitingJobs, LikeJobs
  <1>2. Seq(WaitingJobs) \subseteq Seq(LikeJobs) BY <1>1
  <1>3. QED BY <1>2 DEF LikesTyped, PostLikesTypeOK, LikeJobs

LEMMA PostLikesInit_Inv == PostLikesInit => PostLikesInv
  <1> SUFFICES ASSUME PostLikesInit PROVE PostLikesInv
    OBVIOUS
  <1>1. Cardinality(likes) = 0 /\ 0 \in 0..Cardinality(Fans)
    BY FS_EmptySet, FS_CardinalityType, PostLikesAssumption DEF PostLikesInit
  <1>2. likeQueue \in Seq(WaitingJobs) /\ running \in Seq(LikeJobs) /\ Len(running) <= LikeLoops
    BY PostLikesAssumption DEF PostLikesInit
  <1>3. LikesTyped
    BY <1>1, <1>2, PostLikesAssumption DEF PostLikesInit, LikesTyped, Nothing, Actions
  <1>4. \A u \in Fans : Awaiting(u) = {} /\ AtWork(u) = {}
    BY DEF Awaiting, AtWork, PostLikesInit
  <1>5. \A u \in Fans : LastAsked(u)
    BY <1>4 DEF LastAsked, PostLikesInit
  <1>6. QED BY <1>3, <1>5 DEF PostLikesInv

\* Row and count change together.
LEMMA CarryCounts ==
    ASSUME LikesTyped, NEW u \in Fans, NEW do \in Actions, Carry(u, do)
    PROVE  /\ likes' \subseteq Fans /\ likeCount' = Cardinality(likes')
           /\ likeCount' \in 0..Cardinality(Fans)
           /\ (u \in likes') = (do = "LIKE")
           /\ \A v \in Fans \ {u} : (v \in likes') = (v \in likes)
  <1>1. likes \subseteq Fans /\ IsFiniteSet(Fans)
    BY PostLikesAssumption DEF LikesTyped
  <1>2. IsFiniteSet(likes) BY <1>1, FS_Subset
  <1>3. Cardinality(likes) \in Nat /\ likeCount = Cardinality(likes)
    BY <1>2, FS_CardinalityType DEF LikesTyped
  <1>4. (do = "LIKE") # (u \in likes) /\ do \in {"LIKE", "UNLIKE"}
    BY DEF Carry, Counted, Wanted, Actions
  <1>5. CASE do = "LIKE"
    <2>1. u \notin likes /\ likes' = likes \union {u} /\ likeCount' = likeCount + 1
      BY <1>4, <1>5 DEF Carry
    <2>2. Cardinality(likes') = Cardinality(likes) + 1 BY <1>2, <2>1, FS_AddElement
    <2>3. likes' \subseteq Fans BY <1>1, <2>1
    <2>4. Cardinality(likes') <= Cardinality(Fans) /\ Cardinality(Fans) \in Nat
      BY <1>1, <2>3, FS_Subset, FS_CardinalityType
    <2>5. QED BY <1>3, <1>5, <2>1, <2>2, <2>3, <2>4
  <1>6. CASE do = "UNLIKE"
    <2>1. u \in likes /\ likes' = likes \ {u} /\ likeCount' = likeCount - 1
      BY <1>4, <1>6 DEF Carry
    <2>2. Cardinality(likes') = Cardinality(likes) - 1 BY <1>2, <2>1, FS_RemoveElement
    <2>3. likes' \subseteq Fans BY <1>1, <2>1
    <2>4. Cardinality(likes') <= Cardinality(Fans) /\ Cardinality(Fans) \in Nat
          /\ IsFiniteSet(likes')
      BY <1>1, <2>3, FS_Subset, FS_CardinalityType
    <2>5. Cardinality(likes') \in Nat BY <2>4, FS_CardinalityType
    <2>6. QED BY <1>3, <1>6, <2>1, <2>2, <2>3, <2>4, <2>5
  <1>7. QED BY <1>4, <1>5, <1>6

LEMMA TapOf ==
    ASSUME LikesTyped, NEW t \in Taps, taps[t].at # "idle"
    PROVE  taps[t] \in LikeJobs
  BY DEF LikesTyped, Nothing

LEMMA RunningOf ==
    ASSUME LikesTyped, NEW i \in DOMAIN running
    PROVE  running[i] \in LikeJobs /\ running[i].u \in Fans /\ running[i].do \in Actions
  <1>1. running[i] \in LikeJobs BY DEF LikesTyped
  <1>2. QED BY <1>1 DEF LikeJobs

\* A job at the end of the queue.
LEMMA QueueGrows ==
    ASSUME LikesTyped, NEW job \in WaitingJobs, likeQueue' = Append(likeQueue, job)
    PROVE  /\ likeQueue' \in Seq(WaitingJobs)
           /\ \A u \in Fans \ {job.u} : /\ Awaiting(u)' = Awaiting(u)
                                        /\ \A i \in Awaiting(u) : likeQueue'[i] = likeQueue[i]
           /\ \A i \in Awaiting(job.u)' :
                (\A k \in Awaiting(job.u)' : k <= i) => likeQueue'[i] = job
           /\ Awaiting(job.u)' # {}
  <1> DEFINE n == Len(likeQueue)
  <1>1. likeQueue \in Seq(WaitingJobs) BY DEF LikesTyped
  <1>2. /\ likeQueue' \in Seq(WaitingJobs) /\ DOMAIN likeQueue = 1 .. n /\ n \in Nat
        /\ DOMAIN likeQueue' = 1 .. (n + 1)
        /\ \A i \in 1 .. n : likeQueue'[i] = likeQueue[i]
        /\ likeQueue'[n + 1] = job
    BY <1>1
  <1>3. n + 1 \in Awaiting(job.u)' BY <1>2 DEF Awaiting
  <1>4. \A i \in DOMAIN likeQueue' : i # n + 1 => i \in DOMAIN likeQueue /\ i < n + 1
    BY <1>2
  <1>5. QED BY <1>2, <1>3, <1>4 DEF Awaiting

\* The queue without its first job.
LEMMA QueueShrinks ==
    ASSUME LikesTyped, likeQueue # <<>>, likeQueue' = RemoveAt(likeQueue, 1)
    PROVE  /\ likeQueue' \in Seq(WaitingJobs) /\ 1 \in DOMAIN likeQueue
           /\ \A u \in Fans : \A i \in Awaiting(u)' :
                i \in Nat /\ i + 1 \in Awaiting(u) /\ likeQueue'[i] = likeQueue[i + 1]
           /\ \A u \in Fans : \A i \in Awaiting(u) : i = 1 \/ i - 1 \in Awaiting(u)'
  <1> DEFINE n == Len(likeQueue)
  <1>1. likeQueue \in Seq(WaitingJobs) BY DEF LikesTyped
  <1>2. n \in Nat /\ n # 0 /\ DOMAIN likeQueue = 1 .. n BY <1>1
  <1>3. likeQueue' = SubSeq(likeQueue, 1, 0) \o SubSeq(likeQueue, 2, n)
    BY <1>1, <1>2 DEF RemoveAt
  <1>4. /\ SubSeq(likeQueue, 2, n) \in Seq(WaitingJobs)
        /\ Len(SubSeq(likeQueue, 2, n)) = n - 1
        /\ \A i \in 1 .. (n - 1) : SubSeq(likeQueue, 2, n)[i] = likeQueue[i + 1]
    BY <1>1, <1>2
  <1>5. SubSeq(likeQueue, 1, 0) = <<>> BY <1>1, <1>2
  <1>6. /\ likeQueue' \in Seq(WaitingJobs) /\ DOMAIN likeQueue' = 1 .. (n - 1)
        /\ \A i \in 1 .. (n - 1) : likeQueue'[i] = likeQueue[i + 1]
    BY <1>3, <1>4, <1>5
  <1>7. QED BY <1>2, <1>6 DEF Awaiting

\* What stands where in a sequence that has lost its i-th member.
LEMMA Without ==
    ASSUME NEW R, NEW s \in Seq(R), NEW i \in DOMAIN s
    PROVE  /\ RemoveAt(s, i) \in Seq(R) /\ Len(RemoveAt(s, i)) = Len(s) - 1
           /\ \A k \in 1 .. (Len(s) - 1) :
                RemoveAt(s, i)[k] = IF k < i THEN s[k] ELSE s[k + 1]
  <1> DEFINE n == Len(s)
             a == SubSeq(s, 1, i - 1)
             b == SubSeq(s, i + 1, n)
  <1>1. n \in Nat /\ i \in 1 .. n /\ DOMAIN s = 1 .. n OBVIOUS
  <1>2. a \in Seq(R) /\ Len(a) = i - 1 /\ \A k \in 1 .. (i - 1) : a[k] = s[k] BY <1>1
  <1>3. b \in Seq(R) /\ Len(b) = n - i /\ \A k \in 1 .. (n - i) : b[k] = s[k + i]
    <2>1. b \in Seq(R) /\ Len(b) = n - i BY <1>1
    <2>2. ASSUME NEW k \in 1 .. (n - i) PROVE b[k] = s[k + i]
      <3>1. k + i = (i + 1) + k - 1 /\ k \in 1 .. (n - (i + 1) + 1) BY <1>1, <2>2
      <3>2. b[k] = s[(i + 1) + k - 1] BY <1>1, <3>1
      <3>3. QED BY <3>1, <3>2
    <2>3. QED BY <2>1, <2>2
  <1>4. RemoveAt(s, i) = a \o b BY DEF RemoveAt
  <1> HIDE DEF a, b
  <1>5. a \o b \in Seq(R) /\ Len(a \o b) = n - 1
    <2>1. a \in Seq(R) /\ b \in Seq(R) BY <1>2, <1>3
    <2>2. a \o b \in Seq(R) /\ Len(a \o b) = Len(a) + Len(b) BY <2>1
    <2>3. Len(a) + Len(b) = (i - 1) + (n - i) BY <1>2, <1>3
    <2>4. (i - 1) + (n - i) = n - 1 BY <1>1
    <2>5. QED BY <2>2, <2>3, <2>4
  <1>6. ASSUME NEW k \in 1 .. (n - 1) PROVE (a \o b)[k] = IF k < i THEN s[k] ELSE s[k + 1]
    <2>1. CASE k < i BY <1>1, <1>2, <1>3, <2>1
    <2>2. CASE ~(k < i)
      <3>1. (a \o b)[k] = b[k - (i - 1)] BY <1>1, <1>2, <1>3, <2>2
      <3>2. k - (i - 1) \in 1 .. (n - i) /\ (k - (i - 1)) + i = k + 1 BY <1>1, <2>2
      <3>3. b[k - (i - 1)] = s[(k - (i - 1)) + i] BY <1>3, <3>2
      <3>4. QED BY <2>2, <3>1, <3>2, <3>3
    <2>3. QED BY <2>1, <2>2
  <1>7. QED BY <1>4, <1>5, <1>6

\* The places in running before and after job i has left it.
PlaceBefore(i, k) == IF k < i THEN k ELSE k + 1
PlaceAfter(i, k)  == IF k < i THEN k ELSE k - 1

LEMMA RunningShrinks ==
    ASSUME LikesTyped, NEW i \in DOMAIN running, running' = RemoveAt(running, i), NEW u \in Fans
    PROVE  /\ running' \in Seq(LikeJobs) /\ Len(running') <= LikeLoops
           /\ i \in Nat /\ \A k \in AtWork(u) : k \in Nat
           /\ \A k \in AtWork(u)' : /\ k \in Nat /\ PlaceBefore(i, k) \in AtWork(u)
                                    /\ PlaceBefore(i, k) # i /\ running'[k] = running[PlaceBefore(i, k)]
           /\ \A k \in AtWork(u) \ {i} : PlaceAfter(i, k) \in AtWork(u)'
  <1> DEFINE n == Len(running)
  <1>1. /\ running \in Seq(LikeJobs) /\ n \in Nat /\ DOMAIN running = 1 .. n /\ i \in 1 .. n
        /\ n <= LikeLoops /\ LikeLoops \in Nat
    BY PostLikesAssumption DEF LikesTyped
  <1>2. /\ running' \in Seq(LikeJobs) /\ Len(running') = n - 1
        /\ \A k \in 1 .. (n - 1) : running'[k] = IF k < i THEN running[k] ELSE running[k + 1]
    BY <1>1, Without
  <1>3. DOMAIN running' = 1 .. (n - 1) BY <1>1, <1>2
  <1>4. \A k \in 1 .. (n - 1) :
          /\ PlaceBefore(i, k) \in 1 .. n /\ PlaceBefore(i, k) # i /\ running'[k] = running[PlaceBefore(i, k)]
    BY <1>1, <1>2 DEF PlaceBefore
  <1>5. \A k \in 1 .. n : k # i => PlaceAfter(i, k) \in 1 .. (n - 1) /\ PlaceBefore(i, PlaceAfter(i, k)) = k
    BY <1>1 DEF PlaceBefore, PlaceAfter
  <1>6. \A k \in AtWork(u)' : k \in 1 .. (n - 1) /\ PlaceBefore(i, k) \in AtWork(u)
    BY <1>1, <1>3, <1>4 DEF AtWork
  <1>7. ASSUME NEW k \in AtWork(u), k # i PROVE PlaceAfter(i, k) \in AtWork(u)'
    <2>1. PlaceAfter(i, k) \in 1 .. (n - 1) /\ running'[PlaceAfter(i, k)] = running[k]
      BY <1>1, <1>4, <1>5, <1>7 DEF AtWork
    <2>2. QED BY <1>3, <2>1 DEF AtWork
  <1>8. Len(running') <= LikeLoops BY <1>1, <1>2
  <1>9. \A k \in AtWork(u) : k \in Nat BY <1>1 DEF AtWork
  <1>10. QED BY <1>1, <1>2, <1>4, <1>6, <1>7, <1>8, <1>9

\* A job of which nothing is left to do leaves, or one of another fan.
LEMMA OthersLeave ==
    ASSUME LikesTyped, NEW u \in Fans, LastAsked(u), NEW i \in DOMAIN running,
           running' = RemoveAt(running, i), i \notin AtWork(u),
           Awaiting(u)' = Awaiting(u), \A k \in Awaiting(u) : likeQueue'[k] = likeQueue[k],
           wish'[u] = wish[u], (u \in likes') = (u \in likes)
    PROVE  LastAsked(u)'
  <1>1. /\ i \in Nat /\ \A k \in AtWork(u) : k \in Nat
        /\ \A k \in AtWork(u)' : /\ k \in Nat /\ PlaceBefore(i, k) \in AtWork(u)
                                 /\ running'[k] = running[PlaceBefore(i, k)]
        /\ \A k \in AtWork(u) : PlaceAfter(i, k) \in AtWork(u)' /\ k # i
    BY RunningShrinks
  <1>2. ASSUME NEW k \in AtWork(u)', \A m \in AtWork(u)' : m <= k, Awaiting(u) = {}
        PROVE  running'[k].do = wish'[u]
    <2>1. \A m \in AtWork(u) : m <= PlaceBefore(i, k) BY <1>1, <1>2 DEF PlaceBefore, PlaceAfter
    <2>2. QED BY <1>1, <1>2, <2>1 DEF LastAsked
  <1>3. ASSUME NEW k \in AtWork(u)', running'[k].at = "write", NEW m \in AtWork(u)'
        PROVE  k <= m
    <2>1. PlaceBefore(i, k) <= PlaceBefore(i, m) BY <1>1, <1>3 DEF LastAsked
    <2>2. QED BY <1>1, <2>1 DEF PlaceBefore
  <1>4. AtWork(u)' = {} => AtWork(u) = {} BY <1>1
  <1>5. QED BY <1>2, <1>3, <1>4 DEF LastAsked

\* What says the same of u before and after.
LEMMA LastAskedStays ==
    ASSUME NEW u \in Fans, LastAsked(u), Awaiting(u)' = Awaiting(u),
           \A i \in Awaiting(u) : likeQueue'[i] = likeQueue[i],
           AtWork(u)' = AtWork(u), \A i \in AtWork(u) : running'[i] = running[i],
           wish'[u] = wish[u], (u \in likes') = (u \in likes)
    PROVE  LastAsked(u)'
  BY DEF LastAsked

LEMMA TapsKeep ==
    ASSUME PostLikesInv, NEW t \in Taps,
           (\E u \in Fans, do \in Actions : Tap(t, u, do)) \/ QueueFails(t)
    PROVE  PostLikesInv'
  <1>1. LikesTyped BY DEF PostLikesInv
  <1>2. UNCHANGED <<likes, likeCount, likeQueue, running, wish, jumped>>
    BY DEF Tap, QueueFails
  <1>3. LikesTyped'
    <2>1. CASE \E u \in Fans, do \in Actions : Tap(t, u, do)
      <3>1. PICK u \in Fans, do \in Actions : Tap(t, u, do) BY <2>1
      <3> DEFINE q == [at |-> "queue", u |-> u, do |-> do, tries |-> LikeTries]
      <3>2. q \in LikeJobs /\ q.at = "queue" BY PostLikesAssumption DEF LikeJobs
      <3>3. taps' = [taps EXCEPT ![t] = q] /\ likeErrors' = likeErrors BY <3>1 DEF Tap
      <3> HIDE DEF q
      <3>4. QED BY <1>1, <1>2, <3>2, <3>3 DEF LikesTyped
    <2>2. CASE QueueFails(t)
      <3>1. taps[t] \in LikeJobs BY <1>1, <2>2, TapOf DEF QueueFails
      <3> DEFINE q == [taps[t] EXCEPT !.at = "fallback"]
      <3>2. q \in LikeJobs /\ q.at = "fallback" BY <3>1 DEF LikeJobs
      <3>3. taps' = [taps EXCEPT ![t] = q] /\ likeErrors' = likeErrors - 1 /\ likeErrors > 0
        BY <2>2 DEF QueueFails, LikeErrs
      <3> HIDE DEF q
      <3>4. QED BY <1>1, <1>2, <3>2, <3>3 DEF LikesTyped
    <2>3. QED BY <2>1, <2>2
  <1>4. ASSUME NEW u \in Fans \ jumped PROVE LastAsked(u)'
    BY <1>2 DEF PostLikesInv, LastAsked, Awaiting, AtWork
  <1>5. QED BY <1>2, <1>3, <1>4 DEF PostLikesInv

LEMMA QueueKeeps ==
    ASSUME PostLikesInv, NEW t \in Taps, Queue(t)
    PROVE  PostLikesInv'
  <1>1. LikesTyped BY DEF PostLikesInv
  <1>2. PICK q \in LikeJobs : q = taps[t] BY <1>1, TapOf DEF Queue
  <1>0. PICK job : job = [q EXCEPT !.at = "check"] OBVIOUS
  <1>3. job \in WaitingJobs /\ job.u = q.u /\ job.do = q.do /\ q.u \in Fans /\ q.do \in Actions
    BY <1>0, <1>2 DEF LikeJobs, WaitingJobs
  <1>4. /\ likeQueue' = Append(likeQueue, job) /\ wish' = [wish EXCEPT ![q.u] = q.do]
        /\ taps' = [taps EXCEPT ![t] = Nothing]
        /\ jumped' = IF Pending(q.u) THEN jumped ELSE jumped \ {q.u}
        /\ UNCHANGED <<likes, likeCount, running, likeErrors>>
    BY <1>0, <1>2 DEF Queue
  <1>5. /\ likeQueue' \in Seq(WaitingJobs)
        /\ \A u \in Fans \ {q.u} : /\ Awaiting(u)' = Awaiting(u)
                                   /\ \A i \in Awaiting(u) : likeQueue'[i] = likeQueue[i]
        /\ \A i \in Awaiting(q.u)' :
             (\A k \in Awaiting(q.u)' : k <= i) => likeQueue'[i].do = q.do
        /\ Awaiting(q.u)' # {}
    <2>1. likeQueue' = Append(likeQueue, job) /\ job \in WaitingJobs /\ job.u = q.u BY <1>3, <1>4
    <2>2. /\ likeQueue' \in Seq(WaitingJobs)
          /\ \A u \in Fans \ {job.u} : /\ Awaiting(u)' = Awaiting(u)
                                       /\ \A i \in Awaiting(u) : likeQueue'[i] = likeQueue[i]
          /\ \A i \in Awaiting(job.u)' :
               (\A k \in Awaiting(job.u)' : k <= i) => likeQueue'[i] = job
          /\ Awaiting(job.u)' # {}
      BY <1>1, <2>1, QueueGrows
    <2>3. QED BY <1>3, <2>2
  <1>6. wish \in [Fans -> Actions] BY <1>1 DEF LikesTyped
  <1>7. LikesTyped'
    BY <1>1, <1>3, <1>4, <1>5, <1>6
    DEF LikesTyped, Nothing
  <1>8. ASSUME NEW u \in Fans \ jumped' PROVE LastAsked(u)'
    <2>0. AtWork(u)' = AtWork(u) /\ running' = running /\ likes' = likes BY <1>4 DEF AtWork
    <2>1. CASE u = q.u
      <3>1. ASSUME NEW i \in AtWork(u), running[i].at = "write", NEW k \in AtWork(u)
            PROVE  i <= k
        <4>1. Pending(u) BY <3>1 DEF Pending, AtWork
        <4>2. u \notin jumped BY <1>4, <2>1, <4>1
        <4>3. QED BY <3>1, <4>2 DEF PostLikesInv, LastAsked
      <3>2. QED BY <1>3, <1>4, <1>5, <1>6, <2>0, <2>1, <3>1 DEF LastAsked
    <2>2. CASE u # q.u
      <3>1. LastAsked(u) BY <1>4, <2>2 DEF PostLikesInv
      <3>3. wish'[u] = wish[u] BY <1>4, <1>6, <2>2
      <3>4. QED BY <1>5, <2>0, <2>2, <3>1, <3>3, LastAskedStays
    <2>3. QED BY <2>1, <2>2
  <1>9. QED BY <1>7, <1>8 DEF PostLikesInv

LEMMA FallbackKeeps ==
    ASSUME PostLikesInv, NEW t \in Taps, Fallback(t)
    PROVE  PostLikesInv'
  <1> DEFINE q == taps[t]
  <1>1. LikesTyped BY DEF PostLikesInv
  <1>2. q \in LikeJobs BY <1>1, TapOf DEF Fallback
  <1>3. q.u \in Fans /\ q.do \in Actions BY <1>2 DEF LikeJobs
  <1>4. /\ \/ Carry(q.u, q.do) /\ wish' = [wish EXCEPT ![q.u] = q.do] /\ jumped' = jumped \union {q.u}
           \/ UNCHANGED <<likes, likeCount, wish, jumped>>
        /\ taps' = [taps EXCEPT ![t] = Nothing]
        /\ UNCHANGED <<likeQueue, running, likeErrors>>
    BY DEF Fallback
  <1> HIDE DEF q
  <1>5. wish \in [Fans -> Actions] BY <1>1 DEF LikesTyped
  <1>6. ASSUME NEW u \in Fans \ jumped' PROVE LastAsked(u)'
    <2>1. u \notin jumped BY <1>4
    <2>2. LastAsked(u) BY <2>1 DEF PostLikesInv
    <2>3. /\ AtWork(u)' = AtWork(u) /\ Awaiting(u)' = Awaiting(u)
          /\ running' = running /\ likeQueue' = likeQueue
      BY <1>4 DEF AtWork, Awaiting
    <2>4. wish'[u] = wish[u] /\ (u \in likes') = (u \in likes)
      <3>1. CASE UNCHANGED <<likes, likeCount, wish, jumped>> BY <3>1
      <3>2. CASE Carry(q.u, q.do) /\ wish' = [wish EXCEPT ![q.u] = q.do]
                 /\ jumped' = jumped \union {q.u}
        BY <1>1, <1>3, <1>5, <3>2, CarryCounts
      <3>3. QED BY <1>4, <3>1, <3>2
    <2>5. QED BY <2>2, <2>3, <2>4, LastAskedStays
  <1>7. LikesTyped'
    <2>1. CASE UNCHANGED <<likes, likeCount, wish, jumped>>
      BY <1>1, <1>4, <2>1 DEF LikesTyped, Nothing
    <2>2. CASE Carry(q.u, q.do) /\ wish' = [wish EXCEPT ![q.u] = q.do]
               /\ jumped' = jumped \union {q.u}
      <3>1. likes' \subseteq Fans /\ likeCount' = Cardinality(likes')
            /\ likeCount' \in 0..Cardinality(Fans)
        BY <1>1, <1>3, <2>2, CarryCounts
      <3>2. QED BY <1>1, <1>3, <1>4, <1>5, <2>2, <3>1
            DEF LikesTyped, Nothing
    <2>3. QED BY <1>4, <2>1, <2>2
  <1>8. QED BY <1>6, <1>7 DEF PostLikesInv

LEMMA TakeJobKeeps ==
    ASSUME PostLikesInv, TakeJob
    PROVE  PostLikesInv'
  <1>1. LikesTyped BY DEF PostLikesInv
  <1> DEFINE n == Len(running)
  <1>0. PICK job : job = likeQueue[1] OBVIOUS
  <1>2. /\ n < LikeLoops /\ likeQueue # <<>> /\ running' = Append(running, job)
        /\ likeQueue' = RemoveAt(likeQueue, 1)
        /\ UNCHANGED <<likes, likeCount, taps, wish, likeErrors, jumped>>
    BY <1>0 DEF TakeJob, NextJob
  <1>3. /\ likeQueue' \in Seq(WaitingJobs) /\ 1 \in DOMAIN likeQueue
        /\ \A u \in Fans : \A i \in Awaiting(u)' :
             i \in Nat /\ i + 1 \in Awaiting(u) /\ likeQueue'[i] = likeQueue[i + 1]
        /\ \A u \in Fans : \A i \in Awaiting(u) : i = 1 \/ i - 1 \in Awaiting(u)'
    BY <1>1, <1>2, QueueShrinks
  <1>4. job \in LikeJobs /\ job.at = "check"
    <2>1. likeQueue[1] \in WaitingJobs BY <1>1, <1>3 DEF LikesTyped
    <2>2. QED BY <1>0, <2>1 DEF LikeJobs, WaitingJobs
  <1>5. /\ running' \in Seq(LikeJobs) /\ n \in Nat /\ Len(running') = n + 1
        /\ DOMAIN running = 1 .. n /\ DOMAIN running' = 1 .. (n + 1)
        /\ \A i \in 1 .. n : running'[i] = running[i]
        /\ running'[n + 1] = job
    BY <1>1, <1>2, <1>4 DEF LikesTyped
  <1>6. LikesTyped'
    <2>1. Len(running') <= LikeLoops BY <1>2, <1>5, PostLikesAssumption
    <2>2. QED BY <1>1, <1>2, <1>3, <1>5, <2>1 DEF LikesTyped
  <1>7. ASSUME NEW u \in Fans PROVE /\ \A i \in AtWork(u) : i \in 1 .. n /\ i \in AtWork(u)'
                                    /\ \A i \in AtWork(u)' : i \in AtWork(u) \/ i = n + 1
                                    /\ n + 1 \in AtWork(u)' <=> job.u = u
                                    /\ \A i \in AtWork(u) : running'[i] = running[i]
    <2>1. \A i \in 1 .. (n + 1) : i \in 1 .. n \/ i = n + 1 BY <1>5
    <2>2. \A i \in 1 .. n : i \in 1 .. (n + 1) BY <1>5
    <2>3. n + 1 \in 1 .. (n + 1) BY <1>5
    <2>4. QED BY <1>4, <1>5, <2>1, <2>2, <2>3 DEF AtWork
  <1>8. ASSUME NEW u \in Fans \ jumped PROVE LastAsked(u)'
    <2>1. LastAsked(u) BY DEF PostLikesInv
    <2>2. \A i \in Awaiting(u) : i \in Nat BY <1>1 DEF Awaiting, LikesTyped
    <2>3. ASSUME NEW i \in Awaiting(u)', \A k \in Awaiting(u)' : k <= i
          PROVE  likeQueue'[i] .do = wish'[u]
      <3>1. \A k \in Awaiting(u) : k <= i + 1 BY <1>3, <2>2, <2>3
      <3>2. QED BY <1>2, <1>3, <2>1, <3>1 DEF LastAsked
    <2>4. ASSUME NEW i \in AtWork(u)', running'[i].at = "write", NEW k \in AtWork(u)'
          PROVE  i <= k
      <3>1. i # n + 1 BY <1>4, <1>5, <2>4
      <3>2. i \in AtWork(u) /\ i \in 1 .. n /\ running[i].at = "write" BY <1>7, <2>4, <3>1
      <3>3. CASE k \in AtWork(u) BY <2>1, <3>2, <3>3 DEF LastAsked
      <3>4. CASE k = n + 1 BY <1>5, <3>2, <3>4
      <3>5. QED BY <1>7, <2>4, <3>3, <3>4
    <2>5. CASE job.u = u
      <3>1. 1 \in Awaiting(u) BY <1>0, <1>3, <2>5 DEF Awaiting
      <3>2. ASSUME Awaiting(u)' = {} PROVE job.do = wish'[u]
        <4>1. \A k \in Awaiting(u) : k = 1 BY <1>3, <3>2
        <4>2. QED BY <1>0, <1>2, <2>1, <3>1, <4>1 DEF LastAsked
      <3>3. ASSUME NEW i \in AtWork(u)', \A k \in AtWork(u)' : k <= i PROVE i = n + 1
        BY <1>5, <1>7, <2>5, <3>3
      <3>4. AtWork(u)' # {} BY <1>7, <2>5
      <3>5. QED BY <1>5, <2>3, <2>4, <3>2, <3>3, <3>4 DEF LastAsked
    <2>6. CASE job.u # u
      <3>1. 1 \notin Awaiting(u) BY <1>0, <2>6 DEF Awaiting
      <3>2. Awaiting(u)' = {} => Awaiting(u) = {} BY <1>3, <3>1
      <3>3. AtWork(u)' = AtWork(u) BY <1>7, <2>6
      <3>4. \A i \in AtWork(u) : running'[i] = running[i] BY <1>7
      <3>5. QED BY <1>2, <2>1, <2>3, <2>4, <3>2, <3>3, <3>4 DEF LastAsked
    <2>7. QED BY <2>5, <2>6
  <1>9. QED BY <1>2, <1>6, <1>8 DEF PostLikesInv

\* A job that goes on to its next step.
LEMMA RunningMoves ==
    ASSUME LikesTyped, NEW i \in DOMAIN running, NEW step \in {"write", "counter"},
           running' = [running EXCEPT ![i].at = step]
    PROVE  /\ running' \in Seq(LikeJobs) /\ Len(running') <= LikeLoops
           /\ running'[i].at = step /\ running'[i].u = running[i].u
           /\ running'[i].do = running[i].do
           /\ \A k \in DOMAIN running : k # i => running'[k] = running[k]
           /\ DOMAIN running' = DOMAIN running
  <1>1. running[i] \in LikeJobs BY RunningOf
  <1>2. PICK job : job = [running[i] EXCEPT !.at = step] OBVIOUS
  <1>3. job \in LikeJobs /\ job.at = step /\ job.u = running[i].u /\ job.do = running[i].do
    BY <1>1, <1>2 DEF LikeJobs
  <1>4. running' = [running EXCEPT ![i] = job] BY <1>2
  <1>5. running \in Seq(LikeJobs) /\ Len(running) <= LikeLoops BY DEF LikesTyped
  <1>6. /\ running' \in Seq(LikeJobs) /\ Len(running') = Len(running)
        /\ DOMAIN running' = DOMAIN running /\ running'[i] = job
        /\ \A k \in DOMAIN running : k # i => running'[k] = running[k]
    BY <1>3, <1>4, <1>5
  <1>7. QED BY <1>3, <1>5, <1>6

LEMMA CheckLikedKeeps ==
    ASSUME PostLikesInv, NEW i \in DOMAIN running, CheckLiked(i)
    PROVE  PostLikesInv'
  <1>1. LikesTyped BY DEF PostLikesInv
  <1>2. running[i].u \in Fans /\ running[i].at = "check" BY <1>1, RunningOf DEF CheckLiked
  <1>3. /\ UNCHANGED <<likes, likeCount, taps, likeQueue, wish, likeErrors>>
        /\ jumped' = IF RunsBeside(i) THEN jumped \union {running[i].u} ELSE jumped
    BY DEF CheckLiked
  <1>4. jumped' \subseteq Fans /\ jumped \subseteq jumped' BY <1>1, <1>2, <1>3 DEF LikesTyped
  <1>5. i \in Nat /\ \A k \in DOMAIN running : k \in Nat /\ (k < i => k \in 1 .. (i - 1))
    BY <1>1 DEF LikesTyped
  <1>6. ASSUME running[i].u \notin jumped'
        PROVE  \A k \in AtWork(running[i].u) : i <= k
    <2>1. ~RunsBeside(i) BY <1>3, <1>6
    <2>2. QED BY <1>5, <2>1 DEF RunsBeside, AtWork
  <1>7. i \in AtWork(running[i].u) BY <1>2 DEF AtWork
  <1>8. \A u \in Fans : Awaiting(u)' = Awaiting(u) BY <1>3 DEF Awaiting
  <1>9. CASE Wanted(running[i].u, running[i].do)
    <2>1. running' = RemoveAt(running, i) BY <1>9 DEF CheckLiked
    <2>2. running' \in Seq(LikeJobs) /\ Len(running') <= LikeLoops
      BY <1>1, <1>2, <2>1, RunningShrinks
    <2>3. LikesTyped' BY <1>1, <1>3, <1>4, <2>2 DEF LikesTyped
    <2>4. ASSUME NEW u \in Fans \ jumped' PROVE LastAsked(u)'
      <3>1. LastAsked(u) BY <1>4 DEF PostLikesInv
      <3>2. CASE u # running[i].u
        <4>1. i \notin AtWork(u) BY <3>2 DEF AtWork
        <4>2. QED BY <1>1, <1>3, <1>8, <2>1, <3>1, <4>1, OthersLeave
      <3>3. CASE u = running[i].u
        <4>1. \A k \in AtWork(u) : i <= k BY <1>6, <3>3
        <4>2. /\ i \in Nat /\ \A k \in AtWork(u) : k \in Nat
              /\ \A k \in AtWork(u)' : /\ k \in Nat /\ PlaceBefore(i, k) \in AtWork(u)
                                       /\ PlaceBefore(i, k) # i /\ running'[k] = running[PlaceBefore(i, k)]
              /\ \A k \in AtWork(u) \ {i} : PlaceAfter(i, k) \in AtWork(u)'
          BY <1>1, <2>1, RunningShrinks
        <4>3. ASSUME NEW k \in AtWork(u)', \A m \in AtWork(u)' : m <= k, Awaiting(u) = {}
              PROVE  running'[k].do = wish'[u]
          <5>1. ASSUME NEW m \in AtWork(u) PROVE m <= PlaceBefore(i, k)
            <6>1. CASE m = i BY <4>1, <4>2, <6>1
            <6>2. CASE m # i
              <7>1. PlaceAfter(i, m) <= k BY <4>2, <4>3, <6>2
              <7>2. QED BY <4>2, <6>2, <7>1 DEF PlaceBefore, PlaceAfter
            <6>3. QED BY <6>1, <6>2
          <5>2. QED BY <1>3, <3>1, <4>2, <4>3, <5>1 DEF LastAsked
        <4>4. ASSUME NEW k \in AtWork(u)' PROVE running'[k].at # "write"
          <5>1. PlaceBefore(i, k) \in AtWork(u) /\ PlaceBefore(i, k) # i /\ i <= PlaceBefore(i, k)
                /\ PlaceBefore(i, k) \in Nat
            BY <4>1, <4>2
          <5>2. ~(PlaceBefore(i, k) <= i) BY <4>2, <5>1
          <5>3. running[PlaceBefore(i, k)].at # "write" BY <1>7, <3>1, <3>3, <5>1, <5>2 DEF LastAsked
          <5>4. QED BY <4>2, <5>3
        <4>5. ASSUME AtWork(u)' = {}, Awaiting(u) = {}
              PROVE  (u \in likes') = (wish'[u] = "LIKE")
          <5>1. AtWork(u) = {i} BY <1>7, <3>3, <4>2, <4>5
          <5>2. running[i].do = wish[u] BY <3>1, <4>2, <4>5, <5>1 DEF LastAsked
          <5>3. QED BY <1>3, <1>9, <3>3, <5>2 DEF Wanted
        <4>6. QED BY <1>3, <1>8, <3>1, <4>3, <4>4, <4>5 DEF LastAsked
      <3>4. QED BY <3>2, <3>3
    <2>5. QED BY <2>3, <2>4 DEF PostLikesInv
  <1>10. CASE ~Wanted(running[i].u, running[i].do)
    <2>1. running' = [running EXCEPT ![i].at = "write"] BY <1>10 DEF CheckLiked
    <2>2. /\ running' \in Seq(LikeJobs) /\ Len(running') <= LikeLoops
          /\ running'[i].at = "write" /\ running'[i].u = running[i].u
          /\ running'[i].do = running[i].do
          /\ \A k \in DOMAIN running : k # i => running'[k] = running[k]
          /\ DOMAIN running' = DOMAIN running
      BY <1>1, <2>1, RunningMoves
    <2>3. LikesTyped' BY <1>1, <1>3, <1>4, <2>2 DEF LikesTyped
    <2>4. ASSUME NEW u \in Fans \ jumped' PROVE LastAsked(u)'
      <3>1. LastAsked(u) BY <1>4 DEF PostLikesInv
      <3>2. AtWork(u)' = AtWork(u) BY <1>2, <2>2 DEF AtWork
      <3>3. \A k \in AtWork(u) : running'[k].do = running[k].do BY <2>2 DEF AtWork
      <3>4. ASSUME NEW k \in AtWork(u), running'[k].at = "write", NEW m \in AtWork(u)
            PROVE  k <= m
        <4>1. CASE k = i
          <5>1. running[i].u = u BY <4>1 DEF AtWork
          <5>2. QED BY <1>6, <4>1, <5>1
        <4>2. CASE k # i
          <5>1. running[k].at = "write" BY <2>2, <3>4, <4>2 DEF AtWork
          <5>2. QED BY <3>1, <5>1 DEF LastAsked
        <4>3. QED BY <4>1, <4>2
      <3>5. QED BY <1>3, <1>8, <3>1, <3>2, <3>3, <3>4 DEF LastAsked
    <2>5. QED BY <2>3, <2>4 DEF PostLikesInv
  <1>11. QED BY <1>9, <1>10

LEMMA WriteLikeKeeps ==
    ASSUME PostLikesInv, NEW i \in DOMAIN running, WriteLike(i)
    PROVE  PostLikesInv'
  <1>1. LikesTyped BY DEF PostLikesInv
  <1>2. running[i].u \in Fans /\ running[i].do \in Actions BY <1>1, RunningOf
  <1>3. /\ running[i].at = "write" /\ Carry(running[i].u, running[i].do)
        /\ running' = [running EXCEPT ![i].at = "counter"]
        /\ UNCHANGED <<taps, likeQueue, wish, likeErrors, jumped>>
    BY DEF WriteLike
  <1>4. /\ likes' \subseteq Fans /\ likeCount' = Cardinality(likes')
        /\ likeCount' \in 0..Cardinality(Fans)
        /\ (running[i].u \in likes') = (running[i].do = "LIKE")
        /\ \A v \in Fans \ {running[i].u} : (v \in likes') = (v \in likes)
    BY <1>1, <1>2, <1>3, CarryCounts
  <1>5. /\ running' \in Seq(LikeJobs) /\ Len(running') <= LikeLoops
        /\ running'[i].at = "counter"
        /\ \A k \in DOMAIN running : k # i => running'[k] = running[k]
        /\ DOMAIN running' = DOMAIN running
    BY <1>1, <1>3, RunningMoves
  <1>6. LikesTyped' BY <1>1, <1>3, <1>4, <1>5 DEF LikesTyped
  <1>7. \A k \in DOMAIN running : k \in Nat BY <1>1 DEF LikesTyped
  <1>8. ASSUME NEW u \in Fans \ jumped PROVE LastAsked(u)'
    <2>1. LastAsked(u) /\ Awaiting(u)' = Awaiting(u) BY <1>3 DEF PostLikesInv, Awaiting
    <2>2. AtWork(u)' = AtWork(u) \ {i} BY <1>5 DEF AtWork
    <2>3. \A k \in AtWork(u)' : running'[k] = running[k] BY <1>5, <2>2 DEF AtWork
    <2>4. CASE u # running[i].u
      <3>1. i \notin AtWork(u) BY <2>4 DEF AtWork
      <3>2. AtWork(u)' = AtWork(u) BY <2>2, <3>1
      <3>3. (u \in likes') = (u \in likes) BY <1>4, <2>4
      <3>4. QED BY <1>3, <2>1, <2>3, <3>2, <3>3, LastAskedStays
    <2>5. CASE u = running[i].u
      <3>1. i \in AtWork(u) /\ i \in Nat BY <1>3, <1>7, <2>5 DEF AtWork
      <3>2. \A k \in AtWork(u) : i <= k /\ k \in Nat
        BY <1>3, <1>7, <2>1, <3>1 DEF LastAsked, AtWork
      <3>3. ASSUME NEW k \in AtWork(u)', \A m \in AtWork(u)' : m <= k, Awaiting(u) = {}
            PROVE  running'[k].do = wish'[u]
        <4>1. k \in AtWork(u) /\ \A m \in AtWork(u) : m <= k BY <2>2, <3>2, <3>3
        <4>2. QED BY <1>3, <2>1, <2>3, <3>3, <4>1 DEF LastAsked
      <3>4. ASSUME NEW k \in AtWork(u)' PROVE running'[k].at # "write"
        <4>1. k \in AtWork(u) /\ ~(k <= i) BY <2>2, <3>1, <3>2
        <4>2. QED BY <2>1, <2>3, <3>1, <4>1 DEF LastAsked
      <3>5. ASSUME AtWork(u)' = {}, Awaiting(u) = {}
            PROVE  (u \in likes') = (wish'[u] = "LIKE")
        <4>1. AtWork(u) = {i} BY <2>2, <3>1, <3>5
        <4>2. running[i].do = wish[u] BY <2>1, <3>1, <3>5, <4>1 DEF LastAsked
        <4>3. QED BY <1>3, <1>4, <2>5, <4>2
      <3>6. QED BY <1>3, <2>1, <3>3, <3>4, <3>5 DEF LastAsked
    <2>6. QED BY <2>4, <2>5
  <1>9. QED BY <1>3, <1>6, <1>8 DEF PostLikesInv

LEMMA SetCounterKeeps ==
    ASSUME PostLikesInv, NEW i \in DOMAIN running, SetCounter(i)
    PROVE  PostLikesInv'
  <1>1. LikesTyped BY DEF PostLikesInv
  <1>2. /\ running[i].at = "counter" /\ running' = RemoveAt(running, i)
        /\ UNCHANGED <<likes, likeCount, taps, likeQueue, wish, likeErrors, jumped>>
    BY DEF SetCounter
  <1>3. running' \in Seq(LikeJobs) /\ Len(running') <= LikeLoops
    BY <1>1, <1>2, RunningOf, RunningShrinks
  <1>4. LikesTyped' BY <1>1, <1>2, <1>3 DEF LikesTyped
  <1>5. ASSUME NEW u \in Fans \ jumped PROVE LastAsked(u)'
    <2>1. LastAsked(u) BY DEF PostLikesInv
    <2>2. Awaiting(u)' = Awaiting(u) /\ i \notin AtWork(u) BY <1>2 DEF Awaiting, AtWork
    <2>3. QED BY <1>1, <1>2, <2>1, <2>2, OthersLeave
  <1>6. QED BY <1>2, <1>4, <1>5 DEF PostLikesInv

LEMMA JobErrsKeeps ==
    ASSUME PostLikesInv, NEW i \in DOMAIN running, JobErrs(i)
    PROVE  PostLikesInv'
  <1>1. LikesTyped BY DEF PostLikesInv
  <1>2. PICK gone \in LikeJobs : gone = running[i] BY <1>1, RunningOf
  <1>0. PICK job : job = [gone EXCEPT !.at = "check", !.tries = @ - 1] OBVIOUS
  <1>3. /\ likeQueue' = IF gone.tries > 1 THEN Append(likeQueue, job) ELSE likeQueue
        /\ running' = RemoveAt(running, i) /\ jumped' = jumped \union {gone.u}
        /\ UNCHANGED <<likes, likeCount, taps, wish>>
        /\ likeErrors' \in Nat
    BY <1>0, <1>1, <1>2 DEF JobErrs, LikeErrs, LikesTyped
  <1>4. gone.u \in Fans BY <1>2 DEF LikeJobs
  <1>5. gone.tries > 1 => job \in WaitingJobs /\ job.u = gone.u
    <2>1. gone.tries \in 1..LikeTries /\ LikeTries \in Nat
      BY <1>2, PostLikesAssumption DEF LikeJobs
    <2>2. gone.tries > 1 => gone.tries - 1 \in 1..LikeTries BY <2>1
    <2>3. /\ gone.u \in Fans /\ gone.do \in Actions
          /\ gone = [at |-> gone.at, u |-> gone.u, do |-> gone.do, tries |-> gone.tries]
      BY <1>2 DEF LikeJobs
    <2>4. job = [at |-> "check", u |-> gone.u, do |-> gone.do, tries |-> gone.tries - 1]
      BY <1>0, <2>3
    <2>5. QED BY <2>2, <2>3, <2>4 DEF WaitingJobs
  <1>6. /\ likeQueue' \in Seq(WaitingJobs)
        /\ \A u \in Fans \ {gone.u} : /\ Awaiting(u)' = Awaiting(u)
                                      /\ \A k \in Awaiting(u) : likeQueue'[k] = likeQueue[k]
    <2>1. CASE gone.tries > 1 BY <1>1, <1>3, <1>5, <2>1, QueueGrows
    <2>2. CASE ~(gone.tries > 1)
      BY <1>1, <1>3, <2>2 DEF Awaiting, LikesTyped
    <2>3. QED BY <2>1, <2>2
  <1>7. running' \in Seq(LikeJobs) /\ Len(running') <= LikeLoops
    BY <1>1, <1>3, <1>4, RunningShrinks
  <1>8. LikesTyped' BY <1>1, <1>3, <1>4, <1>6, <1>7 DEF LikesTyped
  <1>9. ASSUME NEW u \in Fans \ jumped' PROVE LastAsked(u)'
    <2>1. u # gone.u /\ u \notin jumped BY <1>3
    <2>2. LastAsked(u) BY <2>1 DEF PostLikesInv
    <2>3. i \notin AtWork(u) BY <1>2, <2>1 DEF AtWork
    <2>4. Awaiting(u)' = Awaiting(u) /\ \A k \in Awaiting(u) : likeQueue'[k] = likeQueue[k]
      BY <1>6, <2>1
    <2>5. likes' = likes /\ wish' = wish BY <1>3
    <2>6. QED BY <1>1, <1>3, <2>2, <2>3, <2>4, <2>5, OthersLeave
  <1>10. QED BY <1>8, <1>9 DEF PostLikesInv

LEMMA PostLikesNext_Inv == PostLikesInv /\ [PostLikesNext]_likeVars => PostLikesInv'
  <1> SUFFICES ASSUME PostLikesInv, [PostLikesNext]_likeVars PROVE PostLikesInv'
    OBVIOUS
  <1>1. CASE UNCHANGED likeVars
    <2>1. LikesTyped' BY <1>1 DEF likeVars, PostLikesInv, LikesTyped
    <2>2. \A u \in Fans : Awaiting(u)' = Awaiting(u) /\ AtWork(u)' = AtWork(u)
      BY <1>1 DEF likeVars, Awaiting, AtWork
    <2>3. \A u \in Fans : LastAsked(u)' = LastAsked(u) BY <1>1, <2>2 DEF likeVars, LastAsked
    <2>4. QED BY <1>1, <2>1, <2>3 DEF likeVars, PostLikesInv
  <1>2. QED
    BY <1>1, TapsKeep, QueueKeeps, FallbackKeeps, TakeJobKeeps, CheckLikedKeeps, WriteLikeKeeps,
       SetCounterKeeps, JobErrsKeeps
    DEF PostLikesNext

\* The last tap of a fan decides, and the post counts its likes, with any number of fans,
\* taps at once, loops that take jobs and attempts, unless a job of the fan lost its turn
\* to an error or ran beside an earlier one (post-like.service, its queue and processor).
THEOREM LastTapDecides == PostLikesSpec => []LastTapWins
  <1>1. PostLikesInv => LastTapWins
    <2> SUFFICES ASSUME PostLikesInv PROVE LastTapWins
      OBVIOUS
    <2>1. likeQueue = <<>> => \A u \in Fans : Awaiting(u) = {} BY DEF Awaiting
    <2>2. running = <<>> => \A u \in Fans : AtWork(u) = {} BY DEF AtWork
    <2>3. QED BY <2>1, <2>2 DEF PostLikesInv, LikesTyped, LastAsked, LastTapWins
  <1>2. QED BY <1>1, PostLikesInit_Inv, PostLikesNext_Inv, PTL DEF PostLikesSpec

-----------------------------------------------------------------------------
(* Comments.                                                               *)

CommentRows == [parent: Nat, depth: 0..MAX_COMMENT_DEPTH, live: BOOLEAN, text: 0..1]

PostRequests == [at: {"idle", "deepen", "insert", "edit", "count", "delete", "drop",
                      "fetch", "store"},
                 id: Nat, depth: 0..MAX_COMMENT_DEPTH, replies: Nat,
                 seen: SUBSET (Nat \X (0..1))]

\* What request q is about is among the rows.
AboutRow(q) ==
    /\ q.id \in Ids \union {0}
    /\ q.at = "deepen" => q.id \in Ids /\ comments[q.id].depth < MAX_COMMENT_DEPTH
    /\ q.at \in {"edit", "count", "delete"} => q.id \in Ids

CommentsInv ==
    /\ comments \in Seq(CommentRows) /\ \A i \in Ids : comments[i].parent < i
    /\ counted \in Int /\ skips \in Nat
    /\ miscounted \in BOOLEAN /\ outdated \in BOOLEAN
    /\ posters \in [Posters -> PostRequests] /\ \A p \in Posters : AboutRow(posters[p])
    /\ CommentsShown

LEMMA NoPosterShape == NoPoster \in PostRequests /\ NoPoster.at = "idle" /\ NoPoster.id = 0
  BY CommentsAssumption DEF NoPoster, PostRequests

LEMMA CommentsInit_Inv == CommentsInit => CommentsInv
  <1> SUFFICES ASSUME CommentsInit PROVE CommentsInv
    OBVIOUS
  <1>1. comments = <<>> /\ comments \in Seq(CommentRows) /\ Ids = {}
    BY DEF CommentsInit, Ids
  <1>2. LiveComments = {} BY <1>1 DEF LiveComments
  <1>3. CommentsShown BY <1>2, FS_EmptySet DEF CommentsInit, CommentsShown, NotCached
  <1>4. \A p \in Posters : AboutRow(posters[p])
    BY <1>1, NoPosterShape DEF CommentsInit, AboutRow
  <1>5. posters \in [Posters -> PostRequests] BY NoPosterShape DEF CommentsInit
  <1>6. counted = 0 /\ skips \in Nat /\ miscounted = FALSE /\ outdated = FALSE
    BY CommentsAssumption DEF CommentsInit
  <1>7. counted \in Int /\ miscounted \in BOOLEAN /\ outdated \in BOOLEAN
    <2>1. counted \in Int BY <1>6
    <2>2. miscounted \in BOOLEAN /\ outdated \in BOOLEAN BY <1>6, Zenon
    <2>3. QED BY <2>1, <2>2
  <1>8. comments \in Seq(CommentRows) /\ \A i \in Ids : comments[i].parent < i BY <1>1
  <1>9. QED BY <1>3, <1>4, <1>5, <1>6, <1>7, <1>8 DEF CommentsInv

\* One request goes on, rows are only added or switched off.
LEMMA RequestGoesOn ==
    ASSUME CommentsInv, NEW p \in Posters, NEW q \in PostRequests, Proceed(p, q),
           AboutRow(q)', Ids \subseteq Ids',
           \A i \in Ids : comments'[i].depth = comments[i].depth
    PROVE  /\ posters' \in [Posters -> PostRequests]
           /\ \A e \in Posters : posters'[e] = IF e = p THEN q ELSE posters[e]
           /\ \A e \in Posters : AboutRow(posters[e])'
  <1>1. /\ posters' \in [Posters -> PostRequests]
        /\ \A e \in Posters : posters'[e] = IF e = p THEN q ELSE posters[e]
    BY DEF CommentsInv, Proceed
  <1>2. ASSUME NEW e \in Posters PROVE AboutRow(posters[e])'
    <2>1. CASE e = p BY <1>1, <2>1 DEF AboutRow
    <2>2. CASE e # p
      <3>1. posters'[e] = posters[e] /\ AboutRow(posters[e]) BY <1>1, <2>2 DEF CommentsInv
      <3>2. QED BY <3>1 DEF AboutRow
    <2>3. QED BY <2>1, <2>2
  <1>3. QED BY <1>1, <1>2

\* One request goes on and writes nothing.
LEMMA OnlyLooks ==
    ASSUME CommentsInv, NEW p \in Posters, NEW q \in PostRequests, Proceed(p, q), AboutRow(q),
           posters[p].at # "drop", UNCHANGED <<comments, counted, shown, skips, miscounted, outdated>>
    PROVE  CommentsInv'
  <1>1. /\ Ids' = Ids /\ LiveComments' = LiveComments /\ List' = List
        /\ AboutRow(q)' = AboutRow(q)
    BY DEF Ids, LiveComments, List, AboutRow
  <1>2. /\ posters' \in [Posters -> PostRequests]
        /\ \A e \in Posters : posters'[e] = IF e = p THEN q ELSE posters[e]
        /\ \A e \in Posters : AboutRow(posters[e])'
    BY <1>1, RequestGoesOn
  <1>3. (\A e \in Posters : posters'[e].at # "drop") => \A e \in Posters : posters[e].at # "drop"
    BY <1>2
  <1>4. CommentsShown' BY <1>1, <1>3 DEF CommentsInv, CommentsShown
  <1>5. QED BY <1>1, <1>2, <1>4 DEF CommentsInv

LEMMA ShapeOf ==
    ASSUME CommentsInv, NEW p \in Posters
    PROVE  posters[p] \in PostRequests /\ AboutRow(posters[p])
  BY DEF CommentsInv

LEMMA FewRows ==
    ASSUME CommentsInv
    PROVE  IsFiniteSet(LiveComments) /\ \A i \in Ids : IsFiniteSet(LiveReplies(i))
  <1>1. Ids = 1..Len(comments) /\ Len(comments) \in Nat BY DEF CommentsInv, Ids
  <1>2. IsFiniteSet(Ids) BY <1>1, FS_Interval
  <1>3. LiveComments \subseteq Ids /\ \A i \in Ids : LiveReplies(i) \subseteq Ids
    BY DEF LiveComments, LiveReplies
  <1>4. QED BY <1>2, <1>3, FS_Subset

LEMMA LooksKeep ==
    ASSUME CommentsInv, NEW p \in Posters,
           \/ \E parent \in Ids \union {0} : StartComment(p, parent)
           \/ \E i \in Ids, at \in {"edit", "count"} : StartChange(p, i, at)
           \/ Deepen(p) \/ CountReplies(p) \/ StartRead(p) \/ FetchList(p)
    PROVE  CommentsInv'
  <1>1. comments \in Seq(CommentRows) /\ Ids \subseteq Nat /\ MAX_COMMENT_DEPTH \in Nat
    BY CommentsAssumption DEF CommentsInv, Ids
  <1>2. UNCHANGED <<comments, counted, shown, skips, miscounted, outdated>>
    BY DEF StartComment, StartChange, Deepen, CountReplies, StartRead, FetchList
  <1>3. posters[p].at # "drop"
    BY DEF StartComment, StartChange, Deepen, CountReplies, StartRead, FetchList
  <1>4. SUFFICES \E q \in PostRequests : Proceed(p, q) /\ AboutRow(q)
    BY <1>2, <1>3, OnlyLooks
  <1>5. ASSUME NEW parent \in Ids \union {0}, StartComment(p, parent)
        PROVE  \E q \in PostRequests : Proceed(p, q) /\ AboutRow(q)
    <2> DEFINE q == [NoPoster EXCEPT !.at = IF parent = 0 THEN "insert" ELSE "deepen", !.id = parent]
    <2>1. (IF parent = 0 THEN "insert" ELSE "deepen") \in {"insert", "deepen"} /\ parent \in Nat
      BY <1>1
    <2>2. q \in PostRequests /\ q.id = parent /\ q.at = IF parent = 0 THEN "insert" ELSE "deepen"
      BY <2>1, NoPosterShape DEF PostRequests
    <2>3. Proceed(p, q) BY <1>5 DEF StartComment
    <2>4. parent # 0 => comments[parent].depth < MAX_COMMENT_DEPTH BY <1>5 DEF StartComment
    <2> HIDE DEF q
    <2>5. AboutRow(q) BY <2>2, <2>4 DEF AboutRow
    <2>6. QED BY <2>2, <2>3, <2>5
  <1>6. ASSUME NEW i \in Ids, NEW at \in {"edit", "count"}, StartChange(p, i, at)
        PROVE  \E q \in PostRequests : Proceed(p, q) /\ AboutRow(q)
    <2> DEFINE q == [NoPoster EXCEPT !.at = at, !.id = i]
    <2>1. i \in Nat BY <1>1
    <2>2. q \in PostRequests /\ q.id = i /\ q.at = at BY <2>1, NoPosterShape DEF PostRequests
    <2>3. Proceed(p, q) BY <1>6 DEF StartChange
    <2> HIDE DEF q
    <2>4. AboutRow(q) BY <2>2 DEF AboutRow
    <2>5. QED BY <2>2, <2>3, <2>4
  <1>7. CASE Deepen(p)
    <2> DEFINE d == IF comments[posters[p].id].live THEN comments[posters[p].id].depth + 1 ELSE 0
               q == [posters[p] EXCEPT !.at = "insert", !.depth = d]
    <2>1. posters[p] \in PostRequests /\ AboutRow(posters[p]) BY ShapeOf
    <2>2. posters[p].id \in Ids /\ comments[posters[p].id].depth < MAX_COMMENT_DEPTH
      BY <1>7, <2>1 DEF Deepen, AboutRow
    <2>3. comments[posters[p].id].depth \in 0..MAX_COMMENT_DEPTH
      <3>1. comments[posters[p].id] \in CommentRows BY <1>1, <2>2 DEF Ids
      <3>2. QED BY <3>1 DEF CommentRows
    <2>4. d \in 0..MAX_COMMENT_DEPTH BY <1>1, <2>2, <2>3
    <2>5. Proceed(p, q) BY <1>7 DEF Deepen
    <2> HIDE DEF d
    <2>6. q \in PostRequests /\ q.at = "insert" /\ q.id = posters[p].id
      BY <2>1, <2>4 DEF PostRequests
    <2> HIDE DEF q
    <2>7. AboutRow(q) BY <2>2, <2>6 DEF AboutRow
    <2>8. QED BY <2>5, <2>6, <2>7
  <1>8. CASE CountReplies(p)
    <2> DEFINE n == Cardinality(LiveReplies(posters[p].id))
               q == [posters[p] EXCEPT !.at = "delete", !.replies = n]
    <2>1. posters[p] \in PostRequests /\ AboutRow(posters[p]) BY ShapeOf
    <2>2. posters[p].id \in Ids BY <1>8, <2>1 DEF CountReplies, AboutRow
    <2>3. Ids = 1..Len(comments) /\ Len(comments) \in Nat BY <1>1 DEF Ids
    <2>4. IsFiniteSet(LiveReplies(posters[p].id)) BY <2>2, FewRows
    <2>5. n \in Nat BY <2>4, FS_CardinalityType
    <2>6. Proceed(p, q) BY <1>8 DEF CountReplies
    <2> HIDE DEF n
    <2>7. q \in PostRequests /\ q.at = "delete" /\ q.id = posters[p].id
      BY <2>1, <2>5 DEF PostRequests
    <2> HIDE DEF q
    <2>8. AboutRow(q) BY <2>2, <2>7 DEF AboutRow
    <2>9. QED BY <2>6, <2>7, <2>8
  <1>9. CASE StartRead(p)
    <2> DEFINE q == [NoPoster EXCEPT !.at = "fetch"]
    <2>1. q = [at |-> "fetch", id |-> 0, depth |-> 0, replies |-> 0, seen |-> {}] BY DEF NoPoster
    <2>2. q \in PostRequests /\ AboutRow(q) BY <1>1, <2>1 DEF PostRequests, AboutRow
    <2>3. QED BY <1>9, <2>2 DEF StartRead
  <1>10. CASE FetchList(p)
    <2> DEFINE q == [NoPoster EXCEPT !.at = "store", !.seen = List]
    <2>1. \A i \in Ids : i \in Nat /\ comments[i] \in CommentRows BY <1>1 DEF Ids
    <2>2. List \subseteq Nat \X (0..1) BY <2>1 DEF List, ListOf, CommentRows, Ids
    <2>3. q \in PostRequests /\ q.at = "store" /\ q.id = 0
      BY <2>2, NoPosterShape DEF PostRequests
    <2>4. Proceed(p, q) BY <1>10 DEF FetchList
    <2> HIDE DEF q
    <2>5. AboutRow(q) BY <2>3 DEF AboutRow
    <2>6. QED BY <2>3, <2>4, <2>5
  <1>11. QED BY <1>5, <1>6, <1>7, <1>8, <1>9, <1>10

LEMMA InsertKeeps ==
    ASSUME CommentsInv, NEW p \in Posters, InsertComment(p)
    PROVE  CommentsInv'
  <1> DEFINE n == Len(comments)
  <1>1. comments \in Seq(CommentRows) /\ n \in Nat /\ Ids = 1..n
    BY DEF CommentsInv, Ids
  <1>2. posters[p] \in PostRequests /\ AboutRow(posters[p]) BY ShapeOf
  <1>3. PICK row : row = [parent |-> posters[p].id, depth |-> posters[p].depth, live |-> TRUE, text |-> 0]
    OBVIOUS
  <1>4. row \in CommentRows /\ row.live /\ row.parent <= n
    BY <1>1, <1>2, <1>3 DEF PostRequests, CommentRows, AboutRow
  <1>5. comments' = Append(comments, row) /\ counted' = counted + 1
        /\ UNCHANGED <<shown, skips, miscounted, outdated>>
    BY <1>3 DEF InsertComment
  <1>6. /\ comments' \in Seq(CommentRows) /\ Ids' = 1..(n + 1)
        /\ \A i \in 1..n : comments'[i] = comments[i]
        /\ comments'[n + 1] = row
    BY <1>1, <1>4, <1>5 DEF Ids
  <1>7. \A i \in Ids' : comments'[i].parent < i
    <2>1. \A i \in 1..n : comments[i].parent < i BY <1>1 DEF CommentsInv
    <2>2. \A i \in Ids' : i \in 1..n \/ i = n + 1 BY <1>1, <1>6
    <2>3. row.parent < n + 1
      <3>1. row.parent \in Nat BY <1>4 DEF CommentRows
      <3>2. QED BY <1>1, <1>4, <3>1
    <2>4. QED BY <1>6, <2>1, <2>2, <2>3
  <1>8. PICK q : q = [NoPoster EXCEPT !.at = "drop"] OBVIOUS
  <1>9. q = [at |-> "drop", id |-> 0, depth |-> 0, replies |-> 0, seen |-> {}] BY <1>8 DEF NoPoster
  <1>10. q \in PostRequests /\ AboutRow(q)' BY <1>9, CommentsAssumption DEF PostRequests, AboutRow
  <1>11. Proceed(p, q) BY <1>8 DEF InsertComment
  <1>12. Ids \subseteq Ids' /\ \A i \in Ids : comments'[i].depth = comments[i].depth
    BY <1>1, <1>6
  <1>13. /\ posters' \in [Posters -> PostRequests] /\ posters'[p] = q
         /\ \A e \in Posters : AboutRow(posters[e])'
    BY <1>10, <1>11, <1>12, RequestGoesOn
  <1>14. LiveComments' = LiveComments \union {n + 1} /\ n + 1 \notin LiveComments
    BY <1>1, <1>4, <1>6 DEF LiveComments
  <1>15. IsFiniteSet(LiveComments) BY FewRows
  <1>16. Cardinality(LiveComments') = Cardinality(LiveComments) + 1
    BY <1>14, <1>15, FS_AddElement
  <1>17. CommentsShown' BY <1>5, <1>9, <1>13, <1>16 DEF CommentsInv, CommentsShown
  <1>18. QED BY <1>5, <1>6, <1>7, <1>13, <1>17 DEF CommentsInv

LEMMA EditKeeps ==
    ASSUME CommentsInv, NEW p \in Posters, WriteEdit(p)
    PROVE  CommentsInv'
  <1>1. comments \in Seq(CommentRows) /\ Ids = 1..Len(comments) /\ Len(comments) \in Nat
    BY DEF CommentsInv, Ids
  <1>2. PICK i : i = posters[p].id OBVIOUS
  <1>3. i \in Ids BY <1>2, ShapeOf DEF WriteEdit, AboutRow
  <1>4. UNCHANGED <<counted, shown, skips, miscounted, outdated>> /\ posters[p].at = "edit"
    BY DEF WriteEdit
  <1>5. CASE comments[i].live
    <2>1. comments' = [comments EXCEPT ![i].text = 1] BY <1>2, <1>5 DEF WriteEdit
    <2>2. /\ comments' \in Seq(CommentRows) /\ Ids' = Ids
          /\ \A k \in Ids : /\ comments'[k].live = comments[k].live
                            /\ comments'[k].depth = comments[k].depth
                            /\ comments'[k].parent = comments[k].parent
      <3>1. PICK row : row = [comments[i] EXCEPT !.text = 1] OBVIOUS
      <3>2. comments[i] \in CommentRows BY <1>1, <1>3
      <3>3. row \in CommentRows /\ row.live = comments[i].live /\ row.depth = comments[i].depth
            /\ row.parent = comments[i].parent
        BY <3>1, <3>2 DEF CommentRows
      <3>4. comments' = [comments EXCEPT ![i] = row] BY <2>1, <3>1
      <3>5. comments' \in Seq(CommentRows) /\ DOMAIN comments' = DOMAIN comments
        BY <1>1, <1>3, <3>3, <3>4
      <3>6. \A k \in Ids : comments'[k] = IF k = i THEN row ELSE comments[k]
        BY <3>4 DEF Ids
      <3>7. QED BY <3>3, <3>5, <3>6 DEF Ids
    <2>3. PICK q : q = [NoPoster EXCEPT !.at = "drop"] OBVIOUS
    <2>4. q = [at |-> "drop", id |-> 0, depth |-> 0, replies |-> 0, seen |-> {}] BY <2>3 DEF NoPoster
    <2>5. q \in PostRequests /\ AboutRow(q)' BY <2>4, CommentsAssumption DEF PostRequests, AboutRow
    <2>6. Proceed(p, q) BY <1>2, <1>5, <2>3 DEF WriteEdit, AfterEdit
    <2>7. /\ posters' \in [Posters -> PostRequests] /\ posters'[p] = q
          /\ \A e \in Posters : AboutRow(posters[e])'
      BY <2>2, <2>5, <2>6, RequestGoesOn
    <2>8. LiveComments' = LiveComments BY <2>2 DEF LiveComments
    <2>9. CommentsShown' BY <1>4, <2>4, <2>7, <2>8 DEF CommentsInv, CommentsShown
    <2>10. QED BY <1>4, <2>2, <2>7, <2>9 DEF CommentsInv
  <1>6. CASE ~comments[i].live
    <2>1. Proceed(p, NoPoster) /\ UNCHANGED comments BY <1>2, <1>6 DEF WriteEdit, EndPost
    <2>2. NoPoster \in PostRequests /\ AboutRow(NoPoster) BY NoPosterShape DEF AboutRow
    <2>3. QED BY <1>4, <2>1, <2>2, OnlyLooks
  <1>7. QED BY <1>5, <1>6

LEMMA DeleteKeeps ==
    ASSUME CommentsInv, NEW p \in Posters, WriteDelete(p)
    PROVE  CommentsInv'
  <1>1. comments \in Seq(CommentRows) /\ Ids = 1..Len(comments) /\ Len(comments) \in Nat
    BY DEF CommentsInv, Ids
  <1>2. PICK id, replies : id = posters[p].id /\ replies = posters[p].replies OBVIOUS
  <1>3. id \in Ids /\ replies \in Nat BY <1>2, ShapeOf DEF WriteDelete, AboutRow, PostRequests
  <1>4. PICK off : off = SwitchedOff(id) OBVIOUS
  <1>5. /\ comments' = [i \in Ids |-> IF i \in off THEN [comments[i] EXCEPT !.live = FALSE]
                                      ELSE comments[i]]
        /\ counted' = counted - (1 + replies)
        /\ miscounted' = (miscounted \/ ~comments[id].live
                            \/ Cardinality(LiveReplies(id)) # replies)
        /\ UNCHANGED <<shown, skips, outdated>>
    BY <1>2, <1>4 DEF WriteDelete
  <1>6. ASSUME NEW i \in Ids
        PROVE  /\ comments'[i] \in CommentRows
               /\ comments'[i].live = (comments[i].live /\ i \notin off)
               /\ comments'[i].depth = comments[i].depth
               /\ comments'[i].parent = comments[i].parent
    <2>1. comments[i] \in CommentRows BY <1>1
    <2>2. comments'[i] = IF i \in off THEN [comments[i] EXCEPT !.live = FALSE] ELSE comments[i]
      BY <1>5
    <2>3. CASE i \in off BY <2>1, <2>2, <2>3 DEF CommentRows
    <2>4. CASE i \notin off BY <2>1, <2>2, <2>4 DEF CommentRows
    <2>5. QED BY <2>3, <2>4
  <1>7. comments' \in Seq(CommentRows) /\ Ids' = Ids
    <2>1. comments' = [i \in 1..Len(comments) |-> comments'[i]] BY <1>1, <1>5
    <2>2. QED BY <1>1, <1>6, <2>1 DEF Ids
  <1>8. PICK q : q = [NoPoster EXCEPT !.at = "drop"] OBVIOUS
  <1>9. q = [at |-> "drop", id |-> 0, depth |-> 0, replies |-> 0, seen |-> {}] BY <1>8 DEF NoPoster
  <1>10. q \in PostRequests /\ AboutRow(q)' BY <1>9, CommentsAssumption DEF PostRequests, AboutRow
  <1>11. Proceed(p, q) BY <1>8 DEF WriteDelete
  <1>12. /\ posters' \in [Posters -> PostRequests] /\ posters'[p] = q
         /\ \A e \in Posters : AboutRow(posters[e])'
    BY <1>6, <1>7, <1>10, <1>11, RequestGoesOn
  <1>13. LiveComments' = LiveComments \ off BY <1>6, <1>7 DEF LiveComments
  <1>14. ASSUME ~miscounted' PROVE counted' = Cardinality(LiveComments')
    <2>1. ~miscounted /\ comments[id].live /\ Cardinality(LiveReplies(id)) = replies
      BY <1>5, <1>14
    <2>2. IsFiniteSet(LiveComments) /\ IsFiniteSet(LiveReplies(id))
      BY <1>3, FewRows
    <2>3. id \notin LiveReplies(id) BY <1>1, <1>3 DEF CommentsInv, LiveReplies
    <2>4. off = LiveReplies(id) \union {id} BY <1>4 DEF SwitchedOff
    <2>5. IsFiniteSet(off) /\ Cardinality(off) = replies + 1
      BY <2>1, <2>2, <2>3, <2>4, FS_AddElement
    <2>6. off \subseteq LiveComments BY <1>3, <2>1, <2>4 DEF LiveComments, LiveReplies
    <2>7. LiveComments \intersect off = off BY <2>6
    <2>8. Cardinality(LiveComments \ off) = Cardinality(LiveComments) - Cardinality(off)
      <3>1. Cardinality(LiveComments \ off)
              = Cardinality(LiveComments) - Cardinality(LiveComments \intersect off)
        BY <2>2, <2>5, FS_Difference
      <3>2. QED BY <2>7, <3>1
    <2>9. counted = Cardinality(LiveComments) BY <2>1 DEF CommentsInv, CommentsShown
    <2>10. Cardinality(LiveComments) \in Nat BY <2>2, FS_CardinalityType
    <2>11. QED BY <1>3, <1>5, <1>13, <2>5, <2>8, <2>9, <2>10
  <1>15. CommentsShown' BY <1>9, <1>12, <1>14 DEF CommentsShown
  <1>16. counted' \in Int /\ miscounted' \in BOOLEAN BY <1>3, <1>5 DEF CommentsInv
  <1>17. QED BY <1>5, <1>6, <1>7, <1>12, <1>15, <1>16 DEF CommentsInv

LEMMA DropAndStoreKeep ==
    ASSUME CommentsInv, NEW p \in Posters, DropList(p) \/ StoreList(p)
    PROVE  CommentsInv'
  <1>1. Proceed(p, NoPoster) /\ UNCHANGED <<comments, counted, miscounted>>
    BY DEF DropList, StoreList, EndPost
  <1>2. Ids' = Ids /\ LiveComments' = LiveComments /\ List' = List
    BY <1>1 DEF Ids, LiveComments, List
  <1>3. NoPoster \in PostRequests /\ AboutRow(NoPoster)' BY NoPosterShape DEF AboutRow
  <1>4. /\ posters' \in [Posters -> PostRequests]
        /\ \A e \in Posters : AboutRow(posters[e])'
    BY <1>1, <1>2, <1>3, RequestGoesOn
  <1>5. skips' \in Nat BY DEF DropList, StoreList, CommentsInv
  <1>6. outdated' \in BOOLEAN /\ (~outdated' /\ shown'.cached => shown'.list = List)
    <2>1. CASE DropList(p)
      <3>1. (shown' = NotCached /\ outdated' = FALSE) \/ outdated' = TRUE BY <2>1 DEF DropList
      <3>2. NotCached.cached = FALSE BY DEF NotCached
      <3>3. CASE outdated' = TRUE BY <3>3
      <3>4. CASE shown' = NotCached /\ outdated' = FALSE BY <3>2, <3>4
      <3>5. QED BY <3>1, <3>3, <3>4
    <2>2. CASE StoreList(p)
      <3>1. shown'.list = posters[p].seen /\ outdated' = (posters[p].seen # List)
        BY <2>2 DEF StoreList, Cached
      <3>2. QED BY <3>1
    <2>3. QED BY <2>1, <2>2
  <1>7. CommentsShown' BY <1>1, <1>2, <1>6 DEF CommentsInv, CommentsShown
  <1>8. QED BY <1>1, <1>2, <1>4, <1>5, <1>6, <1>7 DEF CommentsInv

LEMMA CommentsNext_Inv == CommentsInv /\ [CommentsNext]_commentVars => CommentsInv'
  <1> SUFFICES ASSUME CommentsInv, [CommentsNext]_commentVars PROVE CommentsInv'
    OBVIOUS
  <1>1. CASE UNCHANGED commentVars
    BY <1>1 DEF commentVars, CommentsInv, CommentsShown, AboutRow, Ids, LiveComments, List
  <1>2. CASE ExpireList
    <2>1. UNCHANGED <<comments, counted, posters, skips, miscounted>> /\ outdated' = FALSE
          /\ ~shown'.cached
      BY <1>2 DEF ExpireList, NotCached
    <2>2. Ids' = Ids /\ LiveComments' = LiveComments BY <2>1 DEF Ids, LiveComments
    <2>3. \A p \in Posters : AboutRow(posters[p])' BY <2>1, <2>2 DEF CommentsInv, AboutRow
    <2>4. CommentsShown' BY <2>1, <2>2 DEF CommentsInv, CommentsShown
    <2>5. QED BY <2>1, <2>2, <2>3, <2>4 DEF CommentsInv
  <1>3. QED
    BY <1>1, <1>2, LooksKeep, InsertKeeps, EditKeeps, DeleteKeeps, DropAndStoreKeep
    DEF CommentsNext

\* A post counts its live comments, and its readers are shown the tree of those that hang
\* from no deleted one, with any number of comments and of requests at once
\* (post-comment.service and its repository): but for deletions that raced and lists stored
\* late, which the two histories name.
THEOREM CommentsAreShown == CommentsSpec => []CommentsShown
  <1>1. CommentsInv => CommentsShown BY DEF CommentsInv
  <1>2. QED BY <1>1, CommentsInit_Inv, CommentsNext_Inv, PTL DEF CommentsSpec

-----------------------------------------------------------------------------
(* Notifications.                                                          *)

JobRows == [Emissions -> [at: {"none", "waiting", "active", "completed", "failed"},
                          tries: 1..JobTries]]
Pieces == [job: Emissions, try: 1..JobTries, u: Recipients,
           at: {"save", "mark", "done", "failed"}]

\* A notification of u between the reading of the mark and its writing.
BeingTold(w, u) == w \in work /\ w.u = u /\ w.at \in {"save", "mark"}

\* u is told by one piece of work at most, and what was told is marked, or about to be.
ToldOrMarked(u) ==
    /\ \A v, w \in work : BeingTold(v, u) /\ BeingTold(w, u) => v = w
    /\ \A w \in work : BeingTold(w, u) /\ w.at = "save" => told[u] = 0
    /\ told[u] <= 1
    /\ told[u] = 1 => processed \/ \E w \in work : BeingTold(w, u) /\ w.at = "mark"

\* A job that runs has a piece of work for everybody; done work has told its recipient.
JobForAll ==
    /\ \A j \in Emissions : jobs[j].at = "active" =>
         \A u \in audience : \E w \in work : w.job = j /\ w.try = jobs[j].tries /\ w.u = u
    /\ \A w \in work : w.at \in {"mark", "done"} => told[w.u] > 0
    /\ (\E j \in Emissions : jobs[j].at = "completed") => \A u \in audience : told[u] > 0

NotificationsInv ==
    /\ NotificationsTypeOK /\ JobForAll
    /\ \A u \in Recipients \ twice : ToldOrMarked(u)

LEMMA NotificationTypes ==
    NotificationsTypeOK <=>
        /\ audience \subseteq Recipients /\ twice \subseteq Recipients
        /\ jobs \in JobRows /\ work \subseteq Pieces
        /\ told \in [Recipients -> Nat] /\ processed \in BOOLEAN
        /\ notifyErrors \in Nat /\ forgets \in Nat
  BY DEF NotificationsTypeOK, JobRows, Pieces

LEMMA NotificationsInit_Inv == NotificationsInit => NotificationsInv
  <1> SUFFICES ASSUME NotificationsInit PROVE NotificationsInv
    OBVIOUS
  <1>1. jobs \in JobRows /\ \A j \in Emissions : jobs[j].at = "none"
    BY NotificationsAssumption DEF NotificationsInit, JobRows
  <1>2. processed \in BOOLEAN BY Zenon DEF NotificationsInit
  <1>3. NotificationsTypeOK
    BY <1>1, <1>2, NotificationTypes, NotificationsAssumption DEF NotificationsInit
  <1>4. JobForAll BY <1>1 DEF NotificationsInit, JobForAll
  <1>5. \A u \in Recipients : ToldOrMarked(u) BY DEF NotificationsInit, ToldOrMarked
  <1>6. QED BY <1>3, <1>4, <1>5 DEF NotificationsInv

LEMMA EmitKeeps ==
    ASSUME NotificationsInv, NEW j \in Emissions, Emit(j)
    PROVE  NotificationsInv'
  <1>1. jobs \in JobRows BY NotificationTypes DEF NotificationsInv
  <1>2. jobs' = [jobs EXCEPT ![j].at = "waiting"]
        /\ UNCHANGED <<audience, work, told, processed, notifyErrors, forgets, twice>>
    BY DEF Emit
  <1>3. /\ jobs' \in JobRows
        /\ \A i \in Emissions : jobs'[i].at \in {"active", "completed"} => jobs'[i] = jobs[i]
    BY <1>1, <1>2 DEF JobRows
  <1>4. NotificationsTypeOK'
    BY <1>2, <1>3 DEF NotificationsInv, NotificationsTypeOK, JobRows
  <1>5. JobForAll' BY <1>2, <1>3 DEF NotificationsInv, JobForAll
  <1>6. \A u \in Recipients \ twice : ToldOrMarked(u)'
    BY <1>2 DEF NotificationsInv, ToldOrMarked, BeingTold
  <1>7. QED BY <1>2, <1>4, <1>5, <1>6 DEF NotificationsInv

LEMMA TakeEventKeeps ==
    ASSUME NotificationsInv, NEW j \in Emissions, TakeEvent(j)
    PROVE  NotificationsInv'
  <1>1. jobs \in JobRows /\ work \subseteq Pieces /\ told \in [Recipients -> Nat]
        /\ audience \subseteq Recipients
    BY NotificationTypes DEF NotificationsInv
  <1>2. PICK k : k = jobs[j].tries OBVIOUS
  <1>3. PICK s : s = IF processed THEN "failed" ELSE "save" OBVIOUS
  <1>4. k \in 1..JobTries /\ s \in {"failed", "save"} BY <1>1, <1>2, <1>3 DEF JobRows
  <1>5. /\ jobs' = [jobs EXCEPT ![j].at = "active"]
        /\ work' = work \union {[job |-> j, try |-> k, u |-> u, at |-> s] : u \in audience}
        /\ twice' = twice \union {w.u : w \in {w \in work : w.at \in {"save", "mark"}}}
        /\ UNCHANGED <<audience, told, processed, notifyErrors, forgets>>
    BY <1>2, <1>3 DEF TakeEvent, MayCreate
  <1>6. /\ jobs' \in JobRows /\ jobs'[j].at = "active" /\ jobs'[j].tries = k
        /\ \A i \in Emissions \ {j} : jobs'[i] = jobs[i]
    BY <1>1, <1>2, <1>5 DEF JobRows
  <1>7. \A w \in work' \ work : /\ w \in Pieces /\ w.at = s
                                /\ w = [job |-> j, try |-> k, u |-> w.u, at |-> s]
    BY <1>1, <1>4, <1>5 DEF Pieces
  <1>8. work \subseteq work' /\ work' \subseteq Pieces BY <1>1, <1>5, <1>7
  <1>9. \A u \in audience : \E w \in work' : w.job = j /\ w.try = k /\ w.u = u
    <2>1. ASSUME NEW u \in audience PROVE [job |-> j, try |-> k, u |-> u, at |-> s] \in work'
      BY <1>5
    <2>2. QED BY <2>1
  <1>10. twice' \subseteq Recipients
    BY <1>1, <1>5, NotificationTypes DEF Pieces, NotificationsInv
  <1>11. NotificationsTypeOK'
    BY <1>5, <1>6, <1>8, <1>10 DEF NotificationsInv, NotificationsTypeOK, JobRows, Pieces
  <1>12. JobForAll'
    <2>1. \A i \in Emissions \ {j} : jobs'[i].at = "active" =>
            \A u \in audience' : \E w \in work' : w.job = i /\ w.try = jobs'[i].tries /\ w.u = u
      BY <1>5, <1>6, <1>8 DEF NotificationsInv, JobForAll
    <2>2. \A i \in Emissions : jobs'[i].at = "completed" => jobs[i].at = "completed" BY <1>6
    <2>3. \A w \in work' : w.at \in {"mark", "done"} => told'[w.u] > 0
      BY <1>4, <1>5, <1>7 DEF NotificationsInv, JobForAll
    <2>4. \A i \in Emissions : jobs'[i].at = "active" =>
            \A u \in audience' : \E w \in work' : w.job = i /\ w.try = jobs'[i].tries /\ w.u = u
      BY <1>5, <1>6, <1>9, <2>1
    <2>5. (\E i \in Emissions : jobs'[i].at = "completed") => \A u \in audience' : told'[u] > 0
      BY <1>5, <2>2 DEF NotificationsInv, JobForAll
    <2>6. QED BY <2>3, <2>4, <2>5 DEF JobForAll
  <1>13. ASSUME NEW u \in Recipients \ twice' PROVE ToldOrMarked(u)'
    <2>1. ToldOrMarked(u) /\ ~\E w \in work : BeingTold(w, u)
      BY <1>5 DEF NotificationsInv, BeingTold
    <2>2. told'[u] <= 1 /\ (told'[u] = 1 => processed) /\ told[u] \in Nat
      BY <1>1, <1>5, <2>1 DEF ToldOrMarked
    <2>3. \A w \in work' : BeingTold(w, u)' => w \in work' \ work /\ w.u = u /\ w.at = s /\ s = "save"
      BY <1>4, <1>7, <2>1 DEF BeingTold
    <2>4. \A v, w \in work' : BeingTold(v, u)' /\ BeingTold(w, u)' => v = w
      BY <1>7, <2>3
    <2>5. s = "save" => ~processed BY <1>3
    <2>6. \A w \in work' : BeingTold(w, u)' => told'[u] = 0 BY <1>5, <2>2, <2>3, <2>5
    <2>7. QED BY <1>5, <2>2, <2>4, <2>6 DEF ToldOrMarked
  <1>14. QED BY <1>11, <1>12, <1>13 DEF NotificationsInv

\* One piece of work takes a step.
LEMMA PieceMoves ==
    ASSUME NotificationsInv, NEW w \in work, NEW s \in {"mark", "done", "failed"}, Turn(w, s),
           UNCHANGED <<audience, jobs>>, told' \in [Recipients -> Nat],
           \A u \in Recipients : told'[u] >= told[u],
           s \in {"mark", "done"} => told'[w.u] > 0
    PROVE  /\ work' \subseteq Pieces /\ JobForAll'
           /\ \A v \in work' : v \in work \ {w} \/ (v.u = w.u /\ v.at = s)
           /\ \A v \in work \ {w} : v \in work'
           /\ \E v \in work' : v.u = w.u /\ v.at = s
  <1>1. work \subseteq Pieces /\ audience \subseteq Recipients /\ told \in [Recipients -> Nat]
    BY NotificationTypes DEF NotificationsInv
  <1>2. PICK new : new = [w EXCEPT !.at = s] OBVIOUS
  <1>3. new \in Pieces /\ new.job = w.job /\ new.try = w.try /\ new.u = w.u /\ new.at = s
    BY <1>1, <1>2 DEF Pieces
  <1>4. work' = (work \ {w}) \union {new} BY <1>2 DEF Turn
  <1>5. work' \subseteq Pieces BY <1>1, <1>3, <1>4
  <1>6. ASSUME NEW j \in Emissions, jobs[j].at = "active", NEW u \in audience
        PROVE  \E v \in work' : v.job = j /\ v.try = jobs[j].tries /\ v.u = u
    <2>1. PICK v \in work : v.job = j /\ v.try = jobs[j].tries /\ v.u = u
      BY <1>6 DEF NotificationsInv, JobForAll
    <2>2. CASE v = w BY <1>3, <1>4, <2>1, <2>2
    <2>3. CASE v # w BY <1>4, <2>1, <2>3
    <2>4. QED BY <2>2, <2>3
  <1>7. ASSUME NEW v \in work', v.at \in {"mark", "done"} PROVE told'[v.u] > 0
    <2>1. CASE v = new BY <1>3, <1>7, <2>1
    <2>2. CASE v # new
      <3>1. v \in work /\ v.u \in Recipients BY <1>1, <1>4, <2>2 DEF Pieces
      <3>2. told[v.u] > 0 BY <1>7, <3>1 DEF NotificationsInv, JobForAll
      <3>3. told'[v.u] >= told[v.u] /\ told[v.u] \in Nat /\ told'[v.u] \in Nat BY <1>1, <3>1
      <3>4. QED BY <3>2, <3>3
    <2>3. QED BY <2>1, <2>2
  <1>8. ASSUME NEW j \in Emissions, jobs'[j].at = "completed", NEW u \in audience'
        PROVE  told'[u] > 0
    <2>1. u \in Recipients /\ told[u] > 0 BY <1>1, <1>8 DEF NotificationsInv, JobForAll
    <2>2. told'[u] >= told[u] /\ told[u] \in Nat /\ told'[u] \in Nat BY <1>1, <2>1
    <2>3. QED BY <2>1, <2>2
  <1>9. JobForAll' BY <1>6, <1>7, <1>8 DEF NotificationsInv, JobForAll
  <1>10. QED BY <1>3, <1>4, <1>5, <1>9

LEMMA SaveKeeps ==
    ASSUME NotificationsInv, NEW w \in work, Save(w)
    PROVE  NotificationsInv'
  <1>1. work \subseteq Pieces /\ told \in [Recipients -> Nat]
    BY NotificationTypes DEF NotificationsInv
  <1>2. w.u \in Recipients BY <1>1 DEF Pieces
  <1>3. /\ w.at = "save" /\ told' = [told EXCEPT ![w.u] = @ + 1] /\ Turn(w, "mark")
        /\ UNCHANGED <<audience, jobs, processed, notifyErrors, forgets, twice>>
    BY DEF Save
  <1>4. /\ told' \in [Recipients -> Nat] /\ told'[w.u] = told[w.u] + 1
        /\ \A u \in Recipients \ {w.u} : told'[u] = told[u]
        /\ \A u \in Recipients : told'[u] >= told[u] /\ told'[w.u] > 0
    BY <1>1, <1>2, <1>3
  <1>5. /\ work' \subseteq Pieces /\ JobForAll'
        /\ \A v \in work' : v \in work \ {w} \/ (v.u = w.u /\ v.at = "mark")
        /\ \A v \in work \ {w} : v \in work'
        /\ \E v \in work' : v.u = w.u /\ v.at = "mark"
    BY <1>3, <1>4, PieceMoves
  <1>6. NotificationsTypeOK'
    BY <1>3, <1>4, <1>5 DEF NotificationsInv, NotificationsTypeOK, Pieces
  <1>7. ASSUME NEW u \in Recipients \ twice PROVE ToldOrMarked(u)'
    <2>1. ToldOrMarked(u) BY DEF NotificationsInv
    <2>2. CASE u # w.u
      <3>1. \A v : BeingTold(v, u)' <=> BeingTold(v, u) BY <1>5, <2>2 DEF BeingTold
      <3>2. told'[u] = told[u] /\ processed' = processed BY <1>3, <1>4, <2>2
      <3>3. QED BY <2>1, <3>1, <3>2 DEF ToldOrMarked, BeingTold
    <2>3. CASE u = w.u
      <3>1. BeingTold(w, u) BY <1>3, <2>3 DEF BeingTold
      <3>2. told[u] = 0 /\ \A v \in work \ {w} : ~BeingTold(v, u)
        BY <1>3, <2>1, <3>1 DEF ToldOrMarked
      <3>3. told'[u] = 1 BY <1>4, <2>3, <3>2
      <3>4. Turn(w, "mark") /\ \A v \in work' : BeingTold(v, u)' => v = [w EXCEPT !.at = "mark"]
        BY <1>3, <3>2 DEF BeingTold, Turn
      <3>5. \A v \in work' : BeingTold(v, u)' => v.at = "mark"
        BY <1>5, <3>2 DEF BeingTold
      <3>6. \E v \in work' : BeingTold(v, u)' /\ v.at = "mark"
        BY <1>5, <2>3 DEF BeingTold
      <3>7. QED BY <3>3, <3>4, <3>5, <3>6 DEF ToldOrMarked
    <2>4. QED BY <2>2, <2>3
  <1>8. QED BY <1>3, <1>5, <1>6, <1>7 DEF NotificationsInv

LEMMA MarkKeeps ==
    ASSUME NotificationsInv, NEW w \in work, Mark(w)
    PROVE  NotificationsInv'
  <1>1. work \subseteq Pieces /\ told \in [Recipients -> Nat]
    BY NotificationTypes DEF NotificationsInv
  <1>2. /\ w.at = "mark" /\ processed' = TRUE /\ Turn(w, "done")
        /\ UNCHANGED <<audience, jobs, told, notifyErrors, forgets, twice>>
    BY DEF Mark
  <1>3. told'[w.u] > 0 /\ \A u \in Recipients : told'[u] >= told[u]
    BY <1>1, <1>2 DEF NotificationsInv, JobForAll
  <1>4. /\ work' \subseteq Pieces /\ JobForAll'
        /\ \A v \in work' : v \in work \ {w} \/ (v.u = w.u /\ v.at = "done")
    BY <1>1, <1>2, <1>3, PieceMoves
  <1>5. processed' \in BOOLEAN BY <1>2, Zenon
  <1>6. NotificationsTypeOK'
    BY <1>2, <1>4, <1>5 DEF NotificationsInv, NotificationsTypeOK, Pieces
  <1>7. ASSUME NEW u \in Recipients \ twice PROVE ToldOrMarked(u)'
    <2>1. ToldOrMarked(u) BY DEF NotificationsInv
    <2>2. \A v \in work' : BeingTold(v, u)' => v \in work /\ BeingTold(v, u)
      BY <1>4 DEF BeingTold
    <2>3. QED BY <1>2, <2>1, <2>2 DEF ToldOrMarked
  <1>8. QED BY <1>2, <1>4, <1>6, <1>7 DEF NotificationsInv

LEMMA CreateBreaksKeeps ==
    ASSUME NotificationsInv, NEW w \in work, CreateBreaks(w)
    PROVE  NotificationsInv'
  <1>1. work \subseteq Pieces /\ told \in [Recipients -> Nat] /\ notifyErrors \in Nat
        /\ twice \subseteq Recipients
    BY NotificationTypes DEF NotificationsInv
  <1>2. /\ w.at \in {"save", "mark"} /\ notifyErrors > 0 /\ notifyErrors' = notifyErrors - 1
        /\ twice' = IF w.at = "mark" THEN twice \union {w.u} ELSE twice
        /\ Turn(w, "failed")
        /\ UNCHANGED <<audience, jobs, told, processed, forgets>>
    BY DEF CreateBreaks
  <1>3. \A u \in Recipients : told'[u] >= told[u] BY <1>1, <1>2
  <1>4. /\ work' \subseteq Pieces /\ JobForAll'
        /\ \A v \in work' : v \in work \ {w} \/ (v.u = w.u /\ v.at = "failed")
        /\ \A v \in work \ {w} : v \in work'
    BY <1>1, <1>2, <1>3, PieceMoves
  <1>5. w.u \in Recipients BY <1>1 DEF Pieces
  <1>6. NotificationsTypeOK'
    BY <1>1, <1>2, <1>4, <1>5 DEF NotificationsInv, NotificationsTypeOK, Pieces
  <1>7. ASSUME NEW u \in Recipients \ twice' PROVE ToldOrMarked(u)'
    <2>1. ToldOrMarked(u) BY <1>2 DEF NotificationsInv
    <2>2. \A v \in work' : BeingTold(v, u)' => v \in work /\ BeingTold(v, u)
      BY <1>4 DEF BeingTold
    <2>3. \A v \in work : BeingTold(v, u) /\ v.at = "mark" => v \in work' /\ BeingTold(v, u)'
      BY <1>2, <1>4 DEF BeingTold
    <2>4. QED BY <1>2, <2>1, <2>2, <2>3 DEF ToldOrMarked
  <1>8. QED BY <1>4, <1>6, <1>7 DEF NotificationsInv

\* The end of an attempt clears away what has ended.
LEMMA AttemptEndsKeeps ==
    ASSUME NotificationsInv, NEW j \in Emissions, jobs[j].at = "active", jobs' \in JobRows,
           jobs'[j].at \in {"completed", "waiting", "failed"},
           \A i \in Emissions \ {j} : jobs'[i] = jobs[i],
           jobs'[j].at = "completed" => \A u \in audience : told[u] > 0,
           work' = OnceEnded(j),
           UNCHANGED <<audience, told, processed, notifyErrors, forgets, twice>>
    PROVE  NotificationsInv'
  <1>0. /\ work' \subseteq work
        /\ \A w \in work : w.job # j \/ w.at \in {"save", "mark"} => w \in work'
    BY DEF OnceEnded
  <1>1. NotificationsTypeOK' BY <1>0 DEF NotificationsInv, NotificationsTypeOK, JobRows
  <1>2. ASSUME NEW i \in Emissions, jobs'[i].at = "active", NEW u \in audience'
        PROVE  \E w \in work' : w.job = i /\ w.try = jobs'[i].tries /\ w.u = u
    <2>1. i # j /\ jobs'[i] = jobs[i] BY <1>2
    <2>2. PICK w \in work : w.job = i /\ w.try = jobs[i].tries /\ w.u = u
      BY <1>2, <2>1 DEF NotificationsInv, JobForAll
    <2>3. QED BY <1>0, <2>1, <2>2
  <1>3. JobForAll'
    <2>1. \A w \in work' : w.at \in {"mark", "done"} => told'[w.u] > 0
      BY <1>0 DEF NotificationsInv, JobForAll
    <2>2. (\E i \in Emissions : jobs'[i].at = "completed") => \A u \in audience' : told'[u] > 0
      BY DEF NotificationsInv, JobForAll
    <2>3. QED BY <1>2, <2>1, <2>2 DEF JobForAll
  <1>4. ASSUME NEW u \in Recipients \ twice PROVE ToldOrMarked(u)'
    <2>1. ToldOrMarked(u) BY DEF NotificationsInv
    <2>2. \A w \in work : BeingTold(w, u) => w \in work' /\ BeingTold(w, u)'
      BY <1>0 DEF BeingTold
    <2>3. \A w \in work' : BeingTold(w, u)' => w \in work /\ BeingTold(w, u)
      BY <1>0 DEF BeingTold
    <2>4. QED BY <2>1, <2>2, <2>3 DEF ToldOrMarked
  <1>5. QED BY <1>1, <1>3, <1>4 DEF NotificationsInv

LEMMA CompleteKeeps ==
    ASSUME NotificationsInv, NEW j \in Emissions, Complete(j)
    PROVE  NotificationsInv'
  <1>1. jobs \in JobRows BY NotificationTypes DEF NotificationsInv
  <1>2. /\ jobs[j].at = "active" /\ \A w \in Attempt(j) : w.at = "done"
        /\ jobs' = [jobs EXCEPT ![j].at = "completed"]
        /\ work' = OnceEnded(j)
        /\ UNCHANGED <<audience, told, processed, notifyErrors, forgets, twice>>
    BY DEF Complete, Succeeds
  <1>3. /\ jobs' \in JobRows /\ jobs'[j].at = "completed"
        /\ \A i \in Emissions \ {j} : jobs'[i] = jobs[i]
    BY <1>1, <1>2 DEF JobRows
  <1>4. ASSUME NEW u \in audience PROVE told[u] > 0
    <2>1. PICK w \in work : w.job = j /\ w.try = jobs[j].tries /\ w.u = u
      BY <1>2 DEF NotificationsInv, JobForAll
    <2>2. w.at = "done" BY <1>2, <2>1 DEF Attempt
    <2>3. QED BY <2>1, <2>2 DEF NotificationsInv, JobForAll
  <1>5. QED BY <1>2, <1>3, <1>4, AttemptEndsKeeps

LEMMA FailAttemptKeeps ==
    ASSUME NotificationsInv, NEW j \in Emissions, FailAttempt(j)
    PROVE  NotificationsInv'
  <1>1. jobs \in JobRows BY NotificationTypes DEF NotificationsInv
  <1>2. PICK row : row = IF jobs[j].tries > 1 THEN [at |-> "waiting", tries |-> jobs[j].tries - 1]
                         ELSE [jobs[j] EXCEPT !.at = "failed"]
    OBVIOUS
  <1>3. /\ jobs[j].at = "active" /\ jobs' = [jobs EXCEPT ![j] = row]
        /\ work' = OnceEnded(j)
        /\ UNCHANGED <<audience, told, processed, notifyErrors, forgets, twice>>
    BY <1>2 DEF FailAttempt
  <1>4. /\ row \in [at: {"none", "waiting", "active", "completed", "failed"}, tries: 1..JobTries]
        /\ row.at \in {"waiting", "failed"}
    BY <1>1, <1>2, NotificationsAssumption DEF JobRows
  <1>5. /\ jobs' \in JobRows /\ jobs'[j] = row
        /\ \A i \in Emissions \ {j} : jobs'[i] = jobs[i]
    BY <1>1, <1>3, <1>4 DEF JobRows
  <1>6. QED BY <1>3, <1>4, <1>5, AttemptEndsKeeps

LEMMA ForgetKeeps ==
    ASSUME NotificationsInv, Forget
    PROVE  NotificationsInv'
  <1>1. /\ processed' = FALSE /\ forgets > 0 /\ forgets' = forgets - 1
        /\ twice' = twice \union {u \in Recipients : told[u] > 0}
        /\ UNCHANGED <<audience, jobs, work, told, notifyErrors>>
    BY DEF Forget
  <1>2. processed' \in BOOLEAN BY <1>1, Zenon
  <1>3. NotificationsTypeOK' BY <1>1, <1>2 DEF NotificationsInv, NotificationsTypeOK
  <1>4. JobForAll' BY <1>1 DEF NotificationsInv, JobForAll
  <1>5. ASSUME NEW u \in Recipients \ twice' PROVE ToldOrMarked(u)'
    <2>1. ToldOrMarked(u) /\ told[u] = 0
      BY <1>1, NotificationTypes DEF NotificationsInv
    <2>2. \A w : BeingTold(w, u)' <=> BeingTold(w, u) BY <1>1 DEF BeingTold
    <2>3. QED BY <1>1, <2>1, <2>2 DEF ToldOrMarked
  <1>6. QED BY <1>3, <1>4, <1>5 DEF NotificationsInv

LEMMA NotificationsNext_Inv ==
    NotificationsInv /\ [NotificationsNext]_notificationVars => NotificationsInv'
  <1> SUFFICES ASSUME NotificationsInv, [NotificationsNext]_notificationVars
               PROVE  NotificationsInv'
    OBVIOUS
  <1>1. CASE UNCHANGED notificationVars
    BY <1>1
    DEF notificationVars, NotificationsInv, NotificationsTypeOK, JobForAll, ToldOrMarked, BeingTold
  <1>2. QED
    BY <1>1, EmitKeeps, TakeEventKeeps, SaveKeeps, MarkKeeps, CreateBreaksKeeps, CompleteKeeps,
       FailAttemptKeeps, ForgetKeeps
    DEF NotificationsNext

\* An event that is emitted or tried again tells nobody twice, and a job that completed
\* has told everybody, with any number of recipients, emissions, attempts and jobs that run
\* at once (notification.processor, its queue and its mark), but for recipients whose
\* notification was still being created when another attempt or job looked at the mark, and
\* those an error or the mark's end leaves without it.
THEOREM EventToldOnce == NotificationsSpec => []ToldOnce
  <1>1. NotificationsInv => ToldOnce
    BY DEF NotificationsInv, JobForAll, ToldOrMarked, ToldOnce
  <1>2. QED BY <1>1, NotificationsInit_Inv, NotificationsNext_Inv, PTL DEF NotificationsSpec

-----------------------------------------------------------------------------
(* Search.  SearchShowsRows is about documents with nothing under way.  To *)
(* be inductive it needs what is under way to be harmless: a reading that  *)
(* is not the row any more has an event behind it, and a deleted campaign  *)
(* stays away from the index whatever events are left.                     *)

\* What the consumer holds is the row, or an event of a later write is to come, or the
\* campaign was deleted.
ReadingIsRow ==
    consumer.at = "index" =>
        LET d == DocumentOf(consumer.table) IN
        \/ consumer.doc = Row(d)
        \/ \E t \in Sources(d) : topic[t] > 0
        \/ ~CanFind(d)

\* What syncAll holds is no newer than the row.
SyncIsNotAhead == sync.at = "index" => sync.doc.of.campaigns <= written.campaigns

\* A deletion in progress has switched the campaign off, and one that is over has taken
\* the document away, whatever events of it are left.
DeletedIsGone ==
    /\ deletion # "idle" => ~active
    /\ ~active /\ deletion = "idle" /\ "campaign" \notin behind => index["campaign"] = NoDocument

SearchInv ==
    /\ SearchTypeOK
    /\ ReadingIsRow
    /\ SyncIsNotAhead
    /\ DeletedIsGone
    /\ SearchShowsRows

LEMMA Shapes ==
    /\ \A t \in Tables : DocumentOf(t) \in Documents /\ t \in Sources(DocumentOf(t))
    /\ \A d \in Documents : \A t \in Sources(d) : t \in Tables /\ DocumentOf(t) = d
    /\ AtRest.at = "idle" /\ AtRest.table = "none"
    /\ \A t \in Tables : t # "none"
  BY DEF Tables, Documents, DocumentOf, Sources, AtRest

LEMMA RowShape ==
    ASSUME SearchTypeOK
    PROVE  \A d \in Documents : Row(d) \in Readings(d)
  BY DEF SearchTypeOK, Row, Readings, Sources, Documents, Tables

\* A reading of a campaign has one number.
LEMMA CampaignReading ==
    ASSUME NEW r \in Readings("campaign")
    PROVE  /\ r.stored /\ r.of.campaigns \in Nat
           /\ r = [stored |-> TRUE, of |-> [t \in {"campaigns"} |-> r.of.campaigns]]
  <1>1. r \in [stored: {TRUE}, of: [{"campaigns"} -> Nat]]
    BY DEF Readings, Sources
  <1>2. r = [stored |-> r.stored, of |-> r.of]
    BY <1>1
  <1>3. r.of \in [{"campaigns"} -> Nat] /\ r.stored = TRUE
    BY <1>1
  <1>4. r.of["campaigns"] \in Nat
    BY <1>3
  <1>5. r.of = [t \in {"campaigns"} |-> r.of["campaigns"]]
    BY <1>3
  <1> QED BY <1>2, <1>3, <1>4, <1>5

LEMMA SearchInit_Inv == SearchInit => SearchInv
  <1> SUFFICES ASSUME SearchInit PROVE SearchInv
    OBVIOUS
  <1>1. SearchTypeOK
    BY SearchAssumption DEF SearchInit, SearchTypeOK, SearchAssumption
  <1>2. ReadingIsRow /\ SyncIsNotAhead /\ DeletedIsGone
    BY DEF SearchInit, ReadingIsRow, SyncIsNotAhead, DeletedIsGone, AtRest
  <1>3. SearchShowsRows
    <2>1. \A d \in Documents : ~Settled(d)
      BY DEF SearchInit, Settled, Sources, Tables, Documents
    <2> QED BY <2>1 DEF SearchShowsRows
  <1> QED BY <1>1, <1>2, <1>3 DEF SearchInv

\* Every write announces itself, so the document of its row is not settled.
LEMMA WriteRowKeeps ==
    ASSUME SearchInv, NEW t \in Tables, WriteRow(t)
    PROVE  SearchInv'
  <1> USE DEF WriteRow
  <1>0. SearchTypeOK
    BY DEF SearchInv
  <1>1. SearchTypeOK'
    BY <1>0 DEF SearchTypeOK
  <1>2. \A s \in Tables : topic'[s] >= topic[s] /\ written'[s] >= written[s]
    BY <1>0 DEF SearchTypeOK
  <1>3. topic'[t] > 0 /\ \A s \in Tables \ {t} : written'[s] = written[s] /\ topic'[s] = topic[s]
    BY <1>0 DEF SearchTypeOK
  <1>4. \A d \in Documents : t \notin Sources(d) => Row(d)' = Row(d)
    BY <1>3 DEF Row, Sources, Documents, Tables
  <1>5. ReadingIsRow'
    <2> SUFFICES ASSUME consumer.at = "index"
                 PROVE  LET d == DocumentOf(consumer.table) IN
                        \/ consumer.doc = Row(d)'
                        \/ \E s \in Sources(d) : topic'[s] > 0
                        \/ ~CanFind(d)'
      BY DEF ReadingIsRow
    <2> DEFINE d == DocumentOf(consumer.table)
    <2>1. d \in Documents
      BY <1>0, Shapes DEF SearchTypeOK
    <2>2. CASE t \in Sources(d)
      BY <2>2, <1>3
    <2>3. CASE t \notin Sources(d)
      BY <2>1, <2>3, <1>2, <1>4, <1>0, Shapes DEF SearchInv, ReadingIsRow, CanFind, SearchTypeOK
    <2> QED BY <2>2, <2>3
  <1>6. SyncIsNotAhead'
    <2>1. written'.campaigns >= written.campaigns
      BY <1>2 DEF Tables
    <2>2. sync.at = "index" => sync.doc.of.campaigns \in Nat
      BY <1>0, CampaignReading DEF SearchTypeOK, AtRest
    <2>3. written'.campaigns \in Nat /\ written.campaigns \in Nat
      BY <1>0, <1>1 DEF SearchTypeOK, Tables
    <2> QED BY <2>1, <2>2, <2>3 DEF SearchInv, SyncIsNotAhead
  <1>7. DeletedIsGone'
    BY DEF SearchInv, DeletedIsGone
  <1>8. SearchShowsRows'
    <2> SUFFICES ASSUME NEW d \in Documents \ behind, Settled(d)'
                 PROVE  index[d] = IF CanFind(d) THEN Row(d)' ELSE NoDocument
      BY DEF SearchShowsRows, CanFind
    <2>1. t \notin Sources(d)
      BY <1>3 DEF Settled
    <2>2. Settled(d)
      BY <2>1, <1>3, Shapes DEF Settled
    <2> QED BY <2>1, <2>2, <1>4 DEF SearchInv, SearchShowsRows
  <1> QED BY <1>1, <1>5, <1>6, <1>7, <1>8 DEF SearchInv

\* An event is done with only when its row was read, is gone, or was missed.
LEMMA ConsumeKeeps ==
    ASSUME SearchInv, NEW t \in Tables, Consume(t)
    PROVE  SearchInv'
  <1> DEFINE d == DocumentOf(t)
  <1>0. SearchTypeOK /\ d \in Documents /\ t \in Sources(d)
    BY Shapes DEF SearchInv
  <1>a. /\ UNCHANGED <<written, active, index, sync, deletion>>
        /\ consumer = AtRest /\ topic[t] > 0 /\ topic' = [topic EXCEPT ![t] = @ - 1]
        /\ \/ /\ consumer' = IF CanFind(d) THEN [at |-> "index", table |-> t, doc |-> Row(d)] ELSE AtRest
              /\ behind' = behind /\ troubles' = troubles
           \/ troubles > 0 /\ troubles' = troubles - 1 /\ behind' = behind \union {d} /\ consumer' = AtRest
    BY DEF Consume, Trouble
  <1>b. Row(d) \in Readings(d)
    BY <1>0, RowShape
  <1>c. \/ consumer' = AtRest
        \/ CanFind(d) /\ consumer' = [at |-> "index", table |-> t, doc |-> Row(d)]
    <2>1. CASE CanFind(d)
      BY <2>1, <1>a
    <2>2. CASE ~CanFind(d)
      BY <2>2, <1>a
    <2> QED BY <2>1, <2>2
  <1>1. SearchTypeOK'
    <2>1. consumer' = AtRest \/ \E s \in Tables :
            consumer' \in [at: {"index"}, table: {s}, doc: Readings(DocumentOf(s))]
      BY <1>b, <1>c
    <2>2. topic' \in [Tables -> Nat] /\ troubles' \in Nat /\ behind' \subseteq Documents
      BY <1>0, <1>a DEF SearchTypeOK
    <2> QED BY <2>1, <2>2, <1>0, <1>a DEF SearchTypeOK
  <1>2. ReadingIsRow'
    <2>1. CASE consumer' = AtRest
      BY <2>1, Shapes DEF ReadingIsRow
    <2>2. CASE consumer' = [at |-> "index", table |-> t, doc |-> Row(d)]
      <3>1. consumer'.table = t /\ consumer'.doc = Row(d)
        BY <2>2
      <3>2. Row(d)' = Row(d)
        BY <1>a DEF Row
      <3> QED BY <3>1, <3>2 DEF ReadingIsRow
    <2> QED BY <1>c, <2>1, <2>2
  <1>3. SyncIsNotAhead' /\ DeletedIsGone'
    BY <1>a DEF SearchInv, SyncIsNotAhead, DeletedIsGone
  <1>4. SearchShowsRows'
    <2> SUFFICES ASSUME NEW e \in Documents \ behind', Settled(e)'
                 PROVE  index[e] = IF CanFind(e) THEN Row(e) ELSE NoDocument
      BY <1>a DEF SearchShowsRows, CanFind, Row
    <2>1. CASE e # d
      <3>1. t \notin Sources(e)
        BY <2>1, Shapes
      <3>2. \A s \in Sources(e) : topic[s] = 0 /\ consumer.table # s
        BY <3>1, <1>0, <1>a, Shapes DEF Settled, SearchTypeOK
      <3>3. Settled(e)
        BY <3>2, <1>a DEF Settled
      <3> QED BY <3>3, <1>a DEF SearchInv, SearchShowsRows
    <2>2. CASE e = d
      <3>1. ~CanFind(d)
        BY <2>2, <1>a, <1>0 DEF Settled
      <3>2. d = "campaign" /\ ~active
        BY <3>1 DEF CanFind
      <3>3. deletion = "idle" /\ "campaign" \notin behind
        BY <2>2, <3>2, <1>a DEF Settled
      <3> QED BY <2>2, <3>1, <3>2, <3>3 DEF SearchInv, DeletedIsGone
    <2> QED BY <2>1, <2>2
  <1> QED BY <1>1, <1>2, <1>3, <1>4 DEF SearchInv

\* The document is the row, or an event is to come, or the document is behind.
LEMMA IndexRowKeeps ==
    ASSUME SearchInv, IndexRow
    PROVE  SearchInv'
  <1> DEFINE d == DocumentOf(consumer.table)
  <1>0. SearchTypeOK /\ consumer.at = "index"
    BY DEF SearchInv, IndexRow
  <1>t. PICK t \in Tables : consumer \in [at: {"index"}, table: {t}, doc: Readings(DocumentOf(t))]
    BY <1>0, Shapes DEF SearchTypeOK
  <1>d. d \in Documents /\ t \in Sources(d) /\ consumer.table = t /\ consumer.doc \in Readings(d)
    BY <1>t, Shapes
  <1>a. /\ UNCHANGED <<written, active, topic, sync, deletion>> /\ consumer' = AtRest
        /\ \/ /\ index' = [index EXCEPT ![d] = consumer.doc] /\ troubles' = troubles
              /\ behind' = IF Revives(d) THEN behind \union {d} ELSE behind \ {d}
           \/ /\ index' = index /\ troubles > 0 /\ troubles' = troubles - 1
              /\ behind' = behind \union {d}
    BY DEF IndexRow, Trouble
  <1>b. \A e \in Documents \ {d} : index'[e] = index[e] /\ (e \in behind' <=> e \in behind)
    BY <1>0, <1>a, <1>d DEF SearchTypeOK
  <1>c. d \notin behind' => index'[d] = consumer.doc /\ ~Revives(d)
    BY <1>0, <1>a, <1>d DEF SearchTypeOK
  <1>1. SearchTypeOK'
    <2>1. consumer.doc \in {NoDocument} \union Readings("campaign") \union Readings("donation")
      BY <1>d DEF Documents
    <2>2. index' \in [Documents -> {NoDocument} \union Readings("campaign") \union Readings("donation")]
      BY <2>1, <1>0, <1>a, <1>d DEF SearchTypeOK
    <2>3. \A e \in Documents : index'[e] \in {NoDocument} \union Readings(e)
      BY <1>0, <1>a, <1>b, <1>d DEF SearchTypeOK
    <2>4. troubles' \in Nat /\ behind' \subseteq Documents
      BY <1>0, <1>a, <1>d DEF SearchTypeOK
    <2> QED BY <2>2, <2>3, <2>4, <1>0, <1>a DEF SearchTypeOK
  <1>2. ReadingIsRow' /\ SyncIsNotAhead'
    BY <1>a, Shapes DEF SearchInv, ReadingIsRow, SyncIsNotAhead
  <1>3. DeletedIsGone'
    <2> SUFFICES ASSUME ~active, deletion = "idle", "campaign" \notin behind'
                 PROVE  index'["campaign"] = NoDocument
      BY <1>a DEF SearchInv, DeletedIsGone
    <2>1. d # "campaign"
      BY <1>c DEF Revives, CanFind
    <2> QED BY <2>1, <1>b DEF SearchInv, DeletedIsGone, Documents
  <1>4. SearchShowsRows'
    <2> SUFFICES ASSUME NEW e \in Documents \ behind', Settled(e)'
                 PROVE  index'[e] = IF CanFind(e) THEN Row(e) ELSE NoDocument
      BY <1>a DEF SearchShowsRows, CanFind, Row
    <2>1. CASE e # d
      <3>1. t \notin Sources(e)
        BY <2>1, <1>t, <1>d, Shapes
      <3>2. Settled(e)
        BY <3>1, <1>a, <1>d DEF Settled
      <3> QED BY <3>2, <2>1, <1>b DEF SearchInv, SearchShowsRows
    <2>2. CASE e = d
      <3>1. \A s \in Sources(d) : ~(topic[s] > 0)
        BY <2>2, <1>a, <1>0, Shapes DEF Settled
      <3>2. CanFind(d)
        BY <2>2, <1>a, <1>c DEF Settled, Revives, CanFind
      <3>3. consumer.doc = Row(d)
        BY <3>1, <3>2, <1>0 DEF SearchInv, ReadingIsRow
      <3> QED BY <2>2, <3>2, <3>3, <1>c
    <2> QED BY <2>1, <2>2
  <1> QED BY <1>1, <1>2, <1>3, <1>4 DEF SearchInv

LEMMA SyncReadKeeps ==
    ASSUME SearchInv, SyncRead
    PROVE  SearchInv'
  <1>0. SearchTypeOK /\ Row("campaign") \in Readings("campaign")
    BY RowShape DEF SearchInv, Documents
  <1>a. /\ UNCHANGED <<written, active, topic, index, consumer, deletion, troubles, behind>>
        /\ sync' = [at |-> "index", table |-> "none", doc |-> Row("campaign")]
    BY DEF SyncRead, AtRest
  <1>1. SearchTypeOK'
    BY <1>0, <1>a DEF SearchTypeOK
  <1>2. SyncIsNotAhead'
    <2>1. Row("campaign").of.campaigns = written.campaigns /\ written.campaigns \in Nat
      BY <1>0 DEF Row, Sources, SearchTypeOK, Tables
    <2> QED BY <2>1, <1>a DEF SyncIsNotAhead
  <1>3. ReadingIsRow' /\ DeletedIsGone' /\ SearchShowsRows'
    BY <1>a DEF SearchInv, ReadingIsRow, DeletedIsGone, SearchShowsRows, Row, CanFind, Settled
  <1> QED BY <1>1, <1>2, <1>3 DEF SearchInv

\* An old reading over the row is recorded; over anything else it changes nothing settled.
LEMMA SyncStoreKeeps ==
    ASSUME SearchInv, SyncStore
    PROVE  SearchInv'
  <1>0. /\ SearchTypeOK /\ sync.at = "index" /\ sync.doc \in Readings("campaign")
        /\ Row("campaign") \in Readings("campaign")
    BY RowShape, Shapes DEF SearchInv, SyncStore, SearchTypeOK, Documents
  <1>a. UNCHANGED <<written, active, topic, consumer, deletion>> /\ sync' = AtRest
    BY DEF SyncStore
  <1>b. \/ /\ index' = [index EXCEPT !["campaign"] = sync.doc] /\ troubles' = troubles
           /\ \/ behind' = behind \union {"campaign"}
              \/ behind' = behind \ {"campaign"} /\ sync.doc = Row("campaign") /\ ~Revives("campaign")
              \/ /\ behind' = behind /\ ~Revives("campaign")
                 /\ ~Older(sync.doc, index["campaign"])
        \/ index' = index /\ behind' = behind /\ troubles > 0 /\ troubles' = troubles - 1
    <2>1. CASE Revives("campaign") \/ Older(sync.doc, index["campaign"])
      BY <2>1 DEF SyncStore, Trouble
    <2>2. CASE /\ ~(Revives("campaign") \/ Older(sync.doc, index["campaign"]))
               /\ sync.doc = Row("campaign")
      BY <2>2 DEF SyncStore, Trouble
    <2>3. CASE /\ ~(Revives("campaign") \/ Older(sync.doc, index["campaign"]))
               /\ sync.doc # Row("campaign")
      BY <2>3 DEF SyncStore, Trouble
    <2> QED BY <2>1, <2>2, <2>3
  <1>1. SearchTypeOK'
    <2>1. index' \in [Documents -> {NoDocument} \union Readings("campaign") \union Readings("donation")]
      BY <1>0, <1>b DEF SearchTypeOK
    <2>2. \A d \in Documents : index'[d] \in {NoDocument} \union Readings(d)
      BY <1>0, <1>b DEF SearchTypeOK, Documents
    <2>3. troubles' \in Nat /\ behind' \subseteq Documents
      BY <1>0, <1>b DEF SearchTypeOK, Documents
    <2> QED BY <2>1, <2>2, <2>3, <1>0, <1>a DEF SearchTypeOK
  <1>2. ReadingIsRow' /\ SyncIsNotAhead'
    BY <1>a DEF SearchInv, ReadingIsRow, SyncIsNotAhead, AtRest, Row, CanFind
  <1>3. DeletedIsGone'
    BY <1>0, <1>a, <1>b DEF SearchInv, DeletedIsGone, Revives, CanFind
  <1>4. SearchShowsRows'
    <2> SUFFICES ASSUME NEW d \in Documents \ behind', Settled(d)'
                 PROVE  index'[d] = IF CanFind(d) THEN Row(d) ELSE NoDocument
      BY <1>a DEF SearchShowsRows, CanFind, Row
    <2>1. Settled(d)
      BY <1>a DEF Settled
    <2>2. CASE d = "donation" \/ (index' = index /\ behind' = behind)
      <3>1. index'[d] = index[d] /\ d \notin behind
        BY <2>2, <1>0, <1>b DEF SearchTypeOK
      <3> QED BY <2>1, <3>1 DEF SearchInv, SearchShowsRows
    <2>3. CASE d = "campaign" /\ ~(index' = index /\ behind' = behind)
      <3>1. ~Revives("campaign") /\ index'["campaign"] = sync.doc
        BY <2>3, <1>0, <1>b DEF SearchTypeOK, Documents
      <3>2. active /\ CanFind("campaign")
        BY <2>1, <2>3, <3>1 DEF Settled, Revives, CanFind
      <3>3. sync.doc = Row("campaign")
        <4> SUFFICES ASSUME sync.doc # Row("campaign") PROVE FALSE
          OBVIOUS
        <4>1. "campaign" \notin behind /\ ~Older(sync.doc, index["campaign"])
          BY <2>3, <1>b
        <4>2. index["campaign"] = Row("campaign")
          BY <4>1, <2>1, <2>3, <3>2 DEF SearchInv, SearchShowsRows
        <4>3. Row("campaign").of.campaigns = written.campaigns
          BY DEF Row, Sources
        <4>4. sync.doc.of.campaigns = Row("campaign").of.campaigns
          BY <4>1, <4>2, <4>3, <1>0, CampaignReading DEF Older, SearchInv, SyncIsNotAhead
        <4> QED BY <4>4, <1>0, CampaignReading
      <3> QED BY <2>3, <3>1, <3>2, <3>3
    <2> QED BY <2>2, <2>3 DEF Documents
  <1> QED BY <1>1, <1>2, <1>3, <1>4 DEF SearchInv

LEMMA DeleteRowKeeps ==
    ASSUME SearchInv, DeleteRow
    PROVE  SearchInv'
  <1>0. SearchTypeOK /\ "campaigns" \in Tables /\ "campaigns" \in Sources("campaign")
    BY DEF SearchInv, Tables, Sources
  <1>a. /\ active /\ active' = FALSE /\ deletion' = "image"
        /\ written' = [written EXCEPT !["campaigns"] = @ + 1]
        /\ topic' = [topic EXCEPT !["campaigns"] = @ + 1]
        /\ UNCHANGED <<index, consumer, sync, troubles, behind>>
    BY DEF DeleteRow
  <1>1. SearchTypeOK'
    <2>1. written' \in [Tables -> Nat] /\ topic' \in [Tables -> Nat]
      BY <1>0, <1>a DEF SearchTypeOK
    <2> QED BY <2>1, <1>0, <1>a DEF SearchTypeOK
  <1>2. /\ topic'["campaigns"] > 0 /\ written'["campaigns"] = written["campaigns"] + 1
        /\ \A t \in Sources("donation") : topic'[t] = topic[t] /\ written'[t] = written[t]
    BY <1>0, <1>a DEF SearchTypeOK, Sources
  <1>3. Row("donation")' = Row("donation")
    BY <1>2 DEF Row
  <1>4. ReadingIsRow'
    <2> DEFINE d == DocumentOf(consumer.table)
    <2> SUFFICES ASSUME consumer.at = "index"
                 PROVE  d' = d /\ ( \/ consumer.doc = Row(d)'
                                    \/ \E t \in Sources(d) : topic'[t] > 0
                                    \/ ~CanFind(d)')
      BY <1>a DEF ReadingIsRow
    <2>1. d \in Documents
      BY <1>0, Shapes DEF SearchTypeOK
    <2>2. CASE d = "campaign"
      BY <2>2, <1>0, <1>a, <1>2
    <2>3. CASE d = "donation"
      BY <2>3, <1>a, <1>2, <1>3 DEF SearchInv, ReadingIsRow, CanFind
    <2> QED BY <2>1, <2>2, <2>3, <1>a DEF Documents
  <1>5. SyncIsNotAhead'
    <2>1. sync.at = "index" => sync.doc.of.campaigns \in Nat
      BY <1>0, CampaignReading DEF SearchTypeOK, AtRest
    <2>2. written["campaigns"] \in Nat
      BY <1>0 DEF SearchTypeOK
    <2> QED BY <2>1, <2>2, <1>a, <1>2 DEF SearchInv, SyncIsNotAhead
  <1>6. DeletedIsGone'
    BY <1>a DEF DeletedIsGone
  <1>7. SearchShowsRows'
    <2> SUFFICES ASSUME NEW d \in Documents \ behind, Settled(d)'
                 PROVE  index[d] = (IF CanFind(d) THEN Row(d) ELSE NoDocument)'
      BY <1>a DEF SearchShowsRows, NoDocument
    <2>1. d = "donation"
      BY <1>0, <1>2 DEF Settled, Documents
    <2>2. Settled(d)
      BY <2>1, <1>a, <1>2 DEF Settled
    <2> QED BY <2>1, <2>2, <1>3 DEF SearchInv, SearchShowsRows, CanFind
  <1> QED BY <1>1, <1>4, <1>5, <1>6, <1>7 DEF SearchInv

LEMMA DeleteImageKeeps ==
    ASSUME SearchInv, DeleteImage
    PROVE  SearchInv'
  <1>0. SearchTypeOK
    BY DEF SearchInv
  <1>a. /\ UNCHANGED <<written, active, topic, index, consumer, sync>> /\ deletion = "image"
        /\ \/ deletion' = "document" /\ UNCHANGED <<troubles, behind>>
           \/ /\ deletion' = "idle" /\ behind' = behind \union {"campaign"}
              /\ troubles > 0 /\ troubles' = troubles - 1
    BY DEF DeleteImage, Trouble
  <1>1. SearchTypeOK'
    <2>1. troubles' \in Nat
      BY <1>0, <1>a DEF SearchTypeOK
    <2>2. behind' \subseteq Documents /\ deletion' \in {"idle", "image", "document"}
      BY <1>0, <1>a DEF SearchTypeOK, Documents
    <2> QED BY <2>1, <2>2, <1>0, <1>a DEF SearchTypeOK
  <1>2. ReadingIsRow' /\ SyncIsNotAhead'
    BY <1>a DEF SearchInv, ReadingIsRow, SyncIsNotAhead, Row, CanFind
  <1>3. DeletedIsGone'
    BY <1>a DEF SearchInv, DeletedIsGone
  <1>4. SearchShowsRows'
    <2> SUFFICES ASSUME NEW d \in Documents \ behind', Settled(d)'
                 PROVE  index[d] = IF CanFind(d) THEN Row(d) ELSE NoDocument
      BY <1>a DEF SearchShowsRows, CanFind, Row
    <2>1. d = "donation" /\ d \notin behind
      BY <1>a DEF Settled, Documents
    <2>2. Settled(d)
      BY <2>1, <1>a DEF Settled
    <2> QED BY <2>1, <2>2 DEF SearchInv, SearchShowsRows
  <1> QED BY <1>1, <1>2, <1>3, <1>4 DEF SearchInv

LEMMA RemoveDocumentKeeps ==
    ASSUME SearchInv, RemoveDocument
    PROVE  SearchInv'
  <1>0. SearchTypeOK
    BY DEF SearchInv
  <1>a. /\ UNCHANGED <<written, active, topic, consumer, sync>>
        /\ deletion = "document" /\ deletion' = "idle"
        /\ \/ /\ index' = [index EXCEPT !["campaign"] = NoDocument] /\ troubles' = troubles
              /\ behind' = behind \ {"campaign"}
           \/ /\ index' = index /\ behind' = behind \union {"campaign"}
              /\ troubles > 0 /\ troubles' = troubles - 1
    BY DEF RemoveDocument, Trouble
  <1>b. /\ index'["donation"] = index["donation"]
        /\ "donation" \in behind' <=> "donation" \in behind
        /\ "campaign" \notin behind' => index'["campaign"] = NoDocument
    BY <1>0, <1>a DEF SearchTypeOK, Documents
  <1>c. ~active
    BY <1>a DEF SearchInv, DeletedIsGone
  <1>1. SearchTypeOK'
    <2>1. index' \in [Documents -> {NoDocument} \union Readings("campaign") \union Readings("donation")]
      BY <1>0, <1>a DEF SearchTypeOK
    <2>2. \A d \in Documents : index'[d] \in {NoDocument} \union Readings(d)
      BY <1>0, <1>a DEF SearchTypeOK, Documents
    <2>3. troubles' \in Nat
      BY <1>0, <1>a DEF SearchTypeOK
    <2>4. behind' \subseteq Documents
      BY <1>0, <1>a DEF SearchTypeOK, Documents
    <2> QED BY <2>1, <2>2, <2>3, <2>4, <1>0, <1>a DEF SearchTypeOK
  <1>2. ReadingIsRow' /\ SyncIsNotAhead'
    BY <1>a DEF SearchInv, ReadingIsRow, SyncIsNotAhead, Row, CanFind
  <1>3. DeletedIsGone'
    BY <1>a, <1>b DEF DeletedIsGone
  <1>4. SearchShowsRows'
    <2> SUFFICES ASSUME NEW d \in Documents \ behind', Settled(d)'
                 PROVE  index'[d] = IF CanFind(d) THEN Row(d) ELSE NoDocument
      BY <1>a DEF SearchShowsRows, CanFind, Row
    <2>1. CASE d = "donation"
      <3>1. Settled(d)
        BY <2>1, <1>a DEF Settled
      <3> QED BY <2>1, <3>1, <1>b DEF SearchInv, SearchShowsRows
    <2>2. CASE d = "campaign"
      BY <2>2, <1>b, <1>c DEF CanFind
    <2> QED BY <2>1, <2>2 DEF Documents
  <1> QED BY <1>1, <1>2, <1>3, <1>4 DEF SearchInv

\* The event that was being handled is delivered again.
LEMMA CrashKeeps ==
    ASSUME SearchInv, CrashSearch
    PROVE  SearchInv'
  <1>0. SearchTypeOK
    BY DEF SearchInv
  <1>a. /\ UNCHANGED <<written, active, index>> /\ troubles > 0 /\ troubles' = troubles - 1
        /\ consumer' = AtRest /\ sync' = AtRest /\ deletion' = "idle"
        /\ behind' = behind \union IF deletion = "idle" THEN {} ELSE {"campaign"}
    BY DEF CrashSearch, Trouble
  <1>b. PICK events \in SUBSET Tables :
           /\ consumer.table \in events \union {"none"}
           /\ topic' = [t \in Tables |-> topic[t] + IF t \in events THEN 1 ELSE 0]
    BY DEF CrashSearch
  <1>1. SearchTypeOK'
    <2>1. topic' \in [Tables -> Nat]
      BY <1>0, <1>b DEF SearchTypeOK
    <2>2. troubles' \in Nat /\ behind' \subseteq Documents
      BY <1>0, <1>a DEF SearchTypeOK, Documents
    <2> QED BY <2>1, <2>2, <1>0, <1>a DEF SearchTypeOK
  <1>2. ReadingIsRow' /\ SyncIsNotAhead'
    BY <1>a, Shapes DEF ReadingIsRow, SyncIsNotAhead
  <1>3. DeletedIsGone'
    BY <1>a DEF SearchInv, DeletedIsGone
  <1>4. SearchShowsRows'
    <2> SUFFICES ASSUME NEW d \in Documents \ behind', Settled(d)'
                 PROVE  index[d] = IF CanFind(d) THEN Row(d) ELSE NoDocument
      BY <1>a DEF SearchShowsRows, CanFind, Row
    <2>1. \A t \in Sources(d) : topic'[t] = 0 /\ t \in Tables
      BY Shapes DEF Settled
    <2>2. \A t \in Sources(d) : t \notin events /\ topic[t] = 0
      BY <2>1, <1>0, <1>b DEF SearchTypeOK
    <2>3. \A t \in Sources(d) : consumer.table # t
      BY <2>1, <2>2, <1>b, Shapes
    <2>4. d = "campaign" => deletion = "idle"
      BY <1>a
    <2>5. Settled(d) /\ d \notin behind
      BY <2>2, <2>3, <2>4, <1>a DEF Settled
    <2> QED BY <2>5 DEF SearchInv, SearchShowsRows
  <1> QED BY <1>1, <1>2, <1>3, <1>4 DEF SearchInv

LEMMA StutterKeeps ==
    ASSUME SearchInv, UNCHANGED searchVars
    PROVE  SearchInv'
  BY DEF SearchInv, searchVars, SearchTypeOK, ReadingIsRow, SyncIsNotAhead, DeletedIsGone,
         SearchShowsRows, Settled, Row, CanFind

LEMMA SearchNext_Inv == SearchInv /\ [SearchNext]_searchVars => SearchInv'
  BY WriteRowKeeps, ConsumeKeeps, IndexRowKeeps, SyncReadKeeps, SyncStoreKeeps,
     DeleteRowKeeps, DeleteImageKeeps, RemoveDocumentKeeps, CrashKeeps, StutterKeeps
  DEF SearchNext

LEMMA SearchInductive == SearchSpec => []SearchInv
  BY SearchInit_Inv, SearchNext_Inv, PTL DEF SearchSpec

\* The types of every row, event and document.
THEOREM SearchTyped == SearchSpec => []SearchTypeOK
  <1>1. SearchInv => SearchTypeOK
    BY DEF SearchInv
  <1> QED BY <1>1, SearchInductive, PTL

\* Once its events are consumed a search finds the row as it is and no deleted campaign,
\* for any number of writes, errors and crashes, of the documents that missed no row.
THEOREM SearchesShowRows == SearchSpec => []SearchShowsRows
  <1>1. SearchInv => SearchShowsRows
    BY DEF SearchInv
  <1> QED BY <1>1, SearchInductive, PTL

-----------------------------------------------------------------------------
(* The types of all services.  Each invariant implies the types of its     *)
(* service; one service moves and keeps its invariant.                     *)

LEMMA MembershipTypes == MembershipInv => MembershipTypeOK
  <1> SUFFICES ASSUME MembershipInv PROVE MembershipTypeOK
    OBVIOUS
  <1>1. members \in Seq([who: Persons, role: {"DONOR", "FUNDRAISER"} \union StaffRoles,
                         status: {"PENDING", "VERIFIED", "REJECTED", "GONE"}])
    <2>1. PICK R : R = [who: Persons, role: {"DONOR", "FUNDRAISER"} \union StaffRoles,
                        status: {"PENDING", "VERIFIED", "REJECTED", "GONE"}]
      OBVIOUS
    <2>2. MemberRows \subseteq R BY <2>1 DEF MemberRows, AllRoles
    <2>3. Seq(MemberRows) \subseteq Seq(R) BY <2>2
    <2>4. members \in Seq(MemberRows) BY DEF MembershipInv, MembershipTyped
    <2>5. QED BY <2>1, <2>3, <2>4
  <1>2. \A c \in Clerks : clerks[c].u \in Persons \union {"none"}
    BY DEF MembershipInv, MembershipTyped, ClerkShapes, Lookers, Joiners, OrgWriters, Leavers,
           Deciders, Syncers, Free
  <1>3. QED
    BY <1>1, <1>2 DEF MembershipInv, MembershipTyped, MembershipTypeOK, AllRoles, OrgStatuses

LEMMA DonorsTypes == DonorsInv => DonorsTypeOK
  <1> SUFFICES ASSUME DonorsInv PROVE DonorsTypeOK
    OBVIOUS
  <1>1. errand.tries \in 0..(StatTries + AwardTries)
    BY DonorsAssumption DEF DonorsInv, DonorsTyped, AboutErrand, ErrandRows
  <1>2. QED
    BY <1>1 DEF DonorsInv, DonorsTyped, DonorsTypeOK, ErrandRows, ServiceRows

LEMMA DeliveryTypes == DeliveryInv => DeliveryTypeOK
  <1> SUFFICES ASSUME DeliveryInv PROVE DeliveryTypeOK
    OBVIOUS
  <1>1. \A q \in CounterShapes : q.at \in {"idle", "prove", "review", "cook", "ready", "twice",
                                           "active", "create", "depart", "move"}
    BY DEF CounterShapes, NobodyThere, Offerers, Reviewers, Cooks, Finishers, Assigners,
           Reporters
  <1>2. QED
    BY <1>1 DEF DeliveryInv, DeliveryTyped, DeliveryTypeOK, BatchRows, TaskRows

LEMMA CommentsTypes == CommentsInv => CommentsTypeOK
  BY DEF CommentsInv, CommentsTypeOK, CommentRows, PostRequests, AboutRow

\* The invariant of the service that moves.
ServicesInv ==
    /\ part \in {"reassignment", "delivery", "registration", "membership", "likes",
                 "notifications", "comments", "donors", "search"}
    /\ part = "reassignment" => ReassignmentInv
    /\ part = "delivery" => DeliveryInv
    /\ part = "registration" => RegistrationInv
    /\ part = "membership" => MembershipInv
    /\ part = "likes" => PostLikesInv
    /\ part = "notifications" => NotificationsInv
    /\ part = "comments" => CommentsInv
    /\ part = "donors" => DonorsInv
    /\ part = "search" => SearchInv

\* Whichever service moves, its rows, requests, jobs and queues keep their shapes.
THEOREM ServicesTypeCorrect == ServicesSpec => []ServicesTypeOK
  <1>1. ServicesInit => ServicesInv
    BY ReassignmentInit_Inv, DeliveryInit_Inv, RegistrationInit_Inv, MembershipInit_Inv,
       PostLikesInit_Inv, NotificationsInit_Inv, CommentsInit_Inv, DonorsInit_Inv,
       SearchInit_Inv
    DEF ServicesInit, ServicesInv
  <1>2. ServicesInv /\ [ServicesNext]_servicesVars => ServicesInv'
    <2> SUFFICES ASSUME ServicesInv, [ServicesNext]_servicesVars PROVE ServicesInv'
      OBVIOUS
    <2>1. part' = part BY DEF ServicesNext, servicesVars
    <2>2. part = "reassignment" => [ReassignmentNext]_offerVars BY DEF ServicesNext, servicesVars
    <2>3. part = "delivery" => [DeliveryNext]_deliveryVars BY DEF ServicesNext, servicesVars
    <2>4. part = "registration" => [RegistrationNext]_registrationVars
      BY DEF ServicesNext, servicesVars
    <2>5. part = "membership" => [MembershipNext]_membershipVars BY DEF ServicesNext, servicesVars
    <2>6. part = "likes" => [PostLikesNext]_likeVars BY DEF ServicesNext, servicesVars
    <2>7. part = "notifications" => [NotificationsNext]_notificationVars
      BY DEF ServicesNext, servicesVars
    <2>8. part = "comments" => [CommentsNext]_commentVars BY DEF ServicesNext, servicesVars
    <2>9. part = "donors" => [DonorsNext]_donorVars BY DEF ServicesNext, servicesVars
    <2>10. part = "search" => [SearchNext]_searchVars BY DEF ServicesNext, servicesVars
    <2>11. QED
      BY <2>1, <2>2, <2>3, <2>4, <2>5, <2>6, <2>7, <2>8, <2>9, <2>10, ReassignmentNext_Inv,
         DeliveryNext_Inv, RegistrationNext_Inv, MembershipNext_Inv, PostLikesNext_Inv,
         NotificationsNext_Inv, CommentsNext_Inv, DonorsNext_Inv, SearchNext_Inv
      DEF ServicesInv
  <1>3. ServicesInv => ServicesTypeOK
    BY MembershipTypes, DonorsTypes, DeliveryTypes, CommentsTypes, LikeTypes
    DEF ServicesInv, ServicesTypeOK, ReassignmentInv, RegistrationInv, PostLikesInv,
        NotificationsInv, SearchInv
  <1>4. QED BY <1>1, <1>2, <1>3, PTL DEF ServicesSpec
====
