---- MODULE MCServices ----
(***************************************************************************)
(* The services beside the money, each on a small instance.  They share no *)
(* state, so one of them, chosen at first, moves and the others stand      *)
(* still; one set of model values stands for the requests in progress of   *)
(* each service, one for its organizations, couriers, fans or recipients.  *)
(***************************************************************************)
EXTENDS Reassignment, Delivery, Registration, Membership, PostLikes, Notifications,
    Comments, Donors, Search, TLC

CONSTANTS c1, c2, x1, x2, founder, campaign, purchase, batch, email, person, tap

VARIABLE part  \* the service that moves

ServicesInit ==
    /\ part \in {"reassignment", "delivery", "registration", "membership", "likes",
                 "notifications", "comments", "donors", "search"}
    /\ ReassignmentInit /\ DeliveryInit /\ RegistrationInit
    /\ MembershipInit /\ PostLikesInit /\ NotificationsInit /\ CommentsInit /\ DonorsInit
    /\ SearchInit
    /\ part = "notifications" \/ audience = Recipients

ServicesNext ==
    \/ /\ part = "reassignment" /\ ReassignmentNext
       /\ UNCHANGED <<part, deliveryVars, registrationVars, membershipVars, likeVars,
                      notificationVars, commentVars, donorVars, searchVars>>
    \/ /\ part = "delivery" /\ DeliveryNext
       /\ UNCHANGED <<part, offerVars, registrationVars, membershipVars, likeVars,
                      notificationVars, commentVars, donorVars, searchVars>>
    \/ /\ part = "registration" /\ RegistrationNext
       /\ UNCHANGED <<part, offerVars, deliveryVars, membershipVars, likeVars,
                      notificationVars, commentVars, donorVars, searchVars>>
    \/ /\ part = "membership" /\ MembershipNext
       /\ UNCHANGED <<part, offerVars, deliveryVars, registrationVars, likeVars,
                      notificationVars, commentVars, donorVars, searchVars>>
    \/ /\ part = "likes" /\ PostLikesNext
       /\ UNCHANGED <<part, offerVars, deliveryVars, registrationVars, membershipVars,
                      notificationVars, commentVars, donorVars, searchVars>>
    \/ /\ part = "notifications" /\ NotificationsNext
       /\ UNCHANGED <<part, offerVars, deliveryVars, registrationVars, membershipVars,
                      likeVars, commentVars, donorVars, searchVars>>
    \/ /\ part = "comments" /\ CommentsNext
       /\ UNCHANGED <<part, offerVars, deliveryVars, registrationVars, membershipVars,
                      likeVars, notificationVars, donorVars, searchVars>>
    \/ /\ part = "donors" /\ DonorsNext
       /\ UNCHANGED <<part, offerVars, deliveryVars, registrationVars, membershipVars,
                      likeVars, notificationVars, commentVars, searchVars>>
    \/ /\ part = "search" /\ SearchNext
       /\ UNCHANGED <<part, offerVars, deliveryVars, registrationVars, membershipVars,
                      likeVars, notificationVars, commentVars, donorVars>>

servicesVars == <<part, offerVars, deliveryVars, registrationVars, membershipVars,
                  likeVars, notificationVars, commentVars, donorVars, searchVars>>

ServicesSpec == ServicesInit /\ [][ServicesNext]_servicesVars

\* Every service keeps the shapes of its rows, requests, jobs and queues.  Only the one
\* that moves is looked at.
ServicesTypeOK ==
    CASE part = "reassignment" -> ReassignmentTypeOK
      [] part = "delivery" -> DeliveryTypeOK
      [] part = "registration" -> RegistrationTypeOK
      [] part = "membership" -> MembershipTypeOK
      [] part = "likes" -> PostLikesTypeOK
      [] part = "notifications" -> NotificationsTypeOK
      [] part = "comments" -> CommentsTypeOK
      [] part = "donors" -> DonorsTypeOK
      [] part = "search" -> SearchTypeOK

\* Two gifts of 1; a repeated attempt makes more of them.
WorthOne == [g \in Gifts |-> 1]
ThreeMilestones == <<0, 2, 3>>

Symmetry == Permutations({c1, c2}) \union Permutations({x1, x2})
====
