---- MODULE Membership ----
(***************************************************************************)
(* Who belongs to which organization, and in which role (apps/user:        *)
(* services/organization and its repository).  A donor founds an           *)
(* organization or asks to join one; an administrator or a fundraiser      *)
(* decides; staff leave or are removed.  The decision changes rows and the *)
(* role in one transaction, and the role in Cognito afterwards.            *)
(*                                                                         *)
(* Every request reads, checks and then writes unconditionally; each read  *)
(* and each write is a step.  Organizations to join exist and are verified.*)
(***************************************************************************)
EXTENDS Naturals, Sequences, FiniteSets

CONSTANTS
    Persons,
    StaffRoles,     \* KITCHEN_STAFF and DELIVERY_STAFF, or one of them
    Clerks,         \* bound: requests in progress at once
    MaxMembers,     \* bound: rows of Organization_Member
    MaxFounded,     \* bound: organizations one person asks for
    SyncTries,      \* attempts to write the role to Cognito
    MaxCognitoErrors  \* bound: failed attempts

ASSUME MembershipAssumption ==
    /\ StaffRoles \subseteq {"KITCHEN_STAFF", "DELIVERY_STAFF"}
    /\ SyncTries \in Nat \ {0}
    /\ MaxMembers \in Nat /\ MaxFounded \in Nat /\ MaxCognitoErrors \in Nat

VARIABLES
    roles,      \* roles[u]: the role in the database
    cognito,    \* cognito[u]: the role in Cognito, which the tokens carry
    founded,    \* founded[u]: the status of each organization u asked for, in order
    members,    \* the rows of Organization_Member: person, role and status
    wallets,    \* persons with a fundraiser's wallet
    clerks,     \* clerks[c]: the request in progress
    cognitoErrors,  \* what is left of MaxCognitoErrors
    unsynced,   \* history: persons whose last write to Cognito was given up
    astray      \* history: persons of whom a row or the role was written although it was
                \* no longer what the request had read, or who were approved both as
                \* founder and as member

membershipVars == <<roles, cognito, founded, members, wallets, clerks, cognitoErrors,
                    unsynced, astray>>

Free == [at |-> "idle", u |-> "none"]
Live == {"PENDING", "VERIFIED"}

MembershipInit ==
    /\ roles = [u \in Persons |-> "DONOR"] /\ cognito = roles
    /\ founded = [u \in Persons |-> <<>>]
    /\ members = <<>> /\ wallets = {}
    /\ clerks = [c \in Clerks |-> Free]
    /\ cognitoErrors = MaxCognitoErrors
    /\ unsynced = {} /\ astray = {}

-----------------------------------------------------------------------------
Rows(u, statuses) == {i \in DOMAIN members : members[i].who = u /\ members[i].status \in statuses}

\* findUserOrganizationAnyStatus: the latest
LastFounded(u) == Len(founded[u])
LastStatus(u) == IF founded[u] = <<>> THEN "NONE" ELSE founded[u][LastFounded(u)]

To(c, q) == clerks' = [clerks EXCEPT ![c] = q]
Frees(c) == To(c, Free)
Asks(c, q) == clerks[c].at = "idle" /\ To(c, q)
Strays(u, yes) == astray' = IF yes THEN astray \union {u} ELSE astray
Sync(u, role) == [at |-> "sync", u |-> u, role |-> role, tries |-> SyncTries]
OnlyAsked == UNCHANGED <<roles, cognito, founded, members, wallets, cognitoErrors, unsynced, astray>>

\* The requests of a person start with the role, those of a decider with the row.
AskAsDonor(c, u, q) == roles[u] = "DONOR" /\ Asks(c, q) /\ OnlyAsked

RequestOrganization(c, u) == AskAsDonor(c, u, [at |-> "mayFound", u |-> u])
CancelOrganization(c, u) == AskAsDonor(c, u, [at |-> "mayCancel", u |-> u])
RequestJoin(c, u, role) == AskAsDonor(c, u, [at |-> "mayJoin", u |-> u, role |-> role])
CancelJoin(c, u) == AskAsDonor(c, u, [at |-> "mayWithdraw", u |-> u])
LeaveOrganization(c, u) ==
    roles[u] \in StaffRoles /\ Asks(c, [at |-> "mayLeave", u |-> u]) /\ OnlyAsked

DecideOrganization(c, u, i, how) ==
    /\ i \in DOMAIN founded[u] /\ founded[u][i] = "PENDING"
    /\ Asks(c, [at |-> how, u |-> u, i |-> i]) /\ OnlyAsked

\* approveJoinRequest, rejectJoinRequest, and removeStaffMember of a verified member
DecideMember(c, i, how) ==
    /\ members[i].status = IF how = "remove" THEN "VERIFIED" ELSE "PENDING"
    /\ members[i].role # "FUNDRAISER"
    /\ Asks(c, [at |-> how, u |-> members[i].who, i |-> i, role |-> members[i].role])
    /\ OnlyAsked

-----------------------------------------------------------------------------
(* The second look of a person's request. *)

SecondLook(c) ==
    LET q == clerks[c] u == clerks[c].u IN
    /\ \/ /\ q.at = "mayFound"
          /\ IF LastStatus(u) \in Live THEN Frees(c) ELSE To(c, [q EXCEPT !.at = "found"])
       \/ /\ q.at = "mayCancel"
          /\ IF LastStatus(u) \in {"PENDING", "REJECTED"}
             THEN To(c, [at |-> "cancel", u |-> u, i |-> LastFounded(u)]) ELSE Frees(c)
       \/ /\ q.at = "mayJoin"
          /\ IF Rows(u, Live) # {} THEN Frees(c) ELSE To(c, [q EXCEPT !.at = "join"])
       \/ /\ q.at = "mayWithdraw"
          /\ IF Rows(u, {"PENDING"}) = {} THEN Frees(c)
             ELSE \E i \in Rows(u, {"PENDING"}) : To(c, [at |-> "withdraw", u |-> u, i |-> i])
       \/ /\ q.at = "mayLeave"
          /\ IF Rows(u, {"VERIFIED"}) = {} THEN Frees(c)
             ELSE \E i \in Rows(u, {"VERIFIED"}) : To(c, [at |-> "leave", u |-> u, i |-> i])
    /\ OnlyAsked

-----------------------------------------------------------------------------
(* The writes. *)

Found(c) ==
    LET u == clerks[c].u IN
    /\ clerks[c].at = "found" /\ Len(founded[u]) < MaxFounded
    /\ founded' = [founded EXCEPT ![u] = Append(@, "PENDING")]
    /\ Strays(u, roles[u] # "DONOR" \/ \E i \in DOMAIN founded[u] : founded[u][i] \in Live)
    /\ Frees(c)
    /\ UNCHANGED <<roles, cognito, members, wallets, cognitoErrors, unsynced>>

\* The wallet of a user is unique: a second approval is rolled back.
ApproveOrganization(c) ==
    LET q == clerks[c] u == clerks[c].u IN
    /\ q.at = "approveOrg"
    /\ IF u \in wallets
       THEN Frees(c) /\ UNCHANGED <<roles, founded, members, wallets, astray>>
       ELSE /\ Len(members) < MaxMembers
            /\ founded' = [founded EXCEPT ![u][q.i] = "VERIFIED"]
            /\ roles' = [roles EXCEPT ![u] = "FUNDRAISER"]
            /\ members' = Append(members, [who |-> u, role |-> "FUNDRAISER", status |-> "VERIFIED"])
            /\ wallets' = wallets \union {u}
            /\ Strays(u, founded[u][q.i] # "PENDING" \/ roles[u] # "DONOR")
            /\ To(c, Sync(u, "FUNDRAISER"))
    /\ UNCHANGED <<cognito, cognitoErrors, unsynced>>

\* rejectOrganizationRequest and cancelOrganizationRequest
CloseOrganization(c) ==
    LET q == clerks[c] u == clerks[c].u IN
    /\ q.at \in {"rejectOrg", "cancel"}
    /\ founded' = [founded EXCEPT ![u][q.i] = IF q.at = "cancel" THEN "CANCELLED" ELSE "REJECTED"]
    /\ Strays(u, founded[u][q.i] \notin {"PENDING", "REJECTED"})
    /\ Frees(c)
    /\ UNCHANGED <<roles, cognito, members, wallets, cognitoErrors, unsynced>>

Join(c) ==
    LET q == clerks[c] u == clerks[c].u IN
    /\ q.at = "join" /\ Len(members) < MaxMembers
    /\ members' = Append(members, [who |-> u, role |-> q.role, status |-> "PENDING"])
    /\ Strays(u, roles[u] # "DONOR" \/ Rows(u, Live) # {})
    /\ Frees(c)
    /\ UNCHANGED <<roles, cognito, founded, wallets, cognitoErrors, unsynced>>

\* Mutant: a removed member keeps the role.
RoleAfter_Kept(at, q, old) ==
    CASE at = "approveJoin" -> q.role [] at = "leave" -> "DONOR" [] OTHER -> old

RoleAfter(at, q, old) ==
    CASE at = "approveJoin" -> q.role [] at \in {"leave", "remove"} -> "DONOR" [] OTHER -> old

StatusAfter(at) == CASE at = "approveJoin" -> "VERIFIED"
                     [] at \in {"withdraw", "leave"} -> "GONE"
                     [] OTHER -> "REJECTED"

\* Mutant: the role in Cognito follows approvals and departures only.
Synced_NotRemoval == {"approveJoin", "leave"}

Synced == {"approveJoin", "leave", "remove"}

\* The member's row, by id (a deleted row fails the request), and the role with it.
WriteMember(c) ==
    LET q == clerks[c] u == clerks[c].u IN
    /\ q.at \in {"approveJoin", "rejectJoin", "withdraw", "leave", "remove"}
    /\ IF members[q.i].status = "GONE"
       THEN Frees(c) /\ UNCHANGED <<roles, members, astray>>
       ELSE /\ members' = [members EXCEPT ![q.i].status = StatusAfter(q.at)]
            /\ roles' = [roles EXCEPT ![u] = RoleAfter(q.at, q, @)]
            /\ Strays(u, \/ members[q.i].status
                             # (IF q.at \in {"leave", "remove"} THEN "VERIFIED" ELSE "PENDING")
                         \/ q.at = "approveJoin" /\ roles[u] # "DONOR"
                         \/ q.at = "leave" /\ roles[u] \notin StaffRoles)
            /\ IF q.at \in Synced THEN To(c, Sync(u, RoleAfter(q.at, q, roles[u]))) ELSE Frees(c)
    /\ UNCHANGED <<cognito, founded, wallets, cognitoErrors, unsynced>>

\* updateCognitoRoleWithRetry: with a pause before the next attempt.
SyncRole(c) ==
    LET q == clerks[c] u == clerks[c].u IN
    /\ q.at = "sync"
    /\ \/ /\ cognito' = [cognito EXCEPT ![u] = q.role]
          /\ unsynced' = unsynced \ {u}
          /\ Strays(u, roles[u] # q.role)
          /\ Frees(c) /\ UNCHANGED cognitoErrors
       \/ /\ cognitoErrors > 0 /\ cognitoErrors' = cognitoErrors - 1
          /\ IF q.tries > 1 THEN To(c, [q EXCEPT !.tries = @ - 1]) /\ UNCHANGED unsynced
             ELSE Frees(c) /\ unsynced' = unsynced \union {u}
          /\ UNCHANGED <<cognito, astray>>
    /\ UNCHANGED <<roles, founded, members, wallets>>

-----------------------------------------------------------------------------
MembershipNext == \E c \in Clerks :
    \/ \E u \in Persons :
         \/ RequestOrganization(c, u) \/ CancelOrganization(c, u)
         \/ \E role \in StaffRoles : RequestJoin(c, u, role)
         \/ CancelJoin(c, u) \/ LeaveOrganization(c, u)
         \/ \E i \in 1..MaxFounded, how \in {"approveOrg", "rejectOrg"} : DecideOrganization(c, u, i, how)
    \/ \E i \in DOMAIN members, how \in {"approveJoin", "rejectJoin", "remove"} : DecideMember(c, i, how)
    \/ SecondLook(c) \/ Found(c) \/ ApproveOrganization(c) \/ CloseOrganization(c)
    \/ Join(c) \/ WriteMember(c) \/ SyncRole(c)

MembershipSpec == MembershipInit /\ [][MembershipNext]_membershipVars

-----------------------------------------------------------------------------
\* The shapes of roles, organizations, members and requests.
MembershipTypeOK ==
    LET AllRoles == {"DONOR", "FUNDRAISER"} \union StaffRoles IN
    /\ roles \in [Persons -> AllRoles] /\ cognito \in [Persons -> AllRoles]
    /\ founded \in [Persons -> Seq({"PENDING", "VERIFIED", "REJECTED", "CANCELLED"})]
    /\ members \in Seq([who: Persons, role: AllRoles,
                        status: {"PENDING", "VERIFIED", "REJECTED", "GONE"}])
    /\ \A c \in Clerks : clerks[c].u \in Persons \union {"none"}
    /\ cognitoErrors \in Nat
    /\ wallets \subseteq Persons /\ unsynced \subseteq Persons /\ astray \subseteq Persons

\* The role of a person is the one of the single membership that person has, DONOR
\* without one; a fundraiser is who owns a verified organization and a wallet, and nobody
\* has two organizations that are pending or verified.
RoleMatchesMembership == \A u \in Persons \ astray :
    /\ Cardinality(Rows(u, {"VERIFIED"})) <= 1
    /\ Rows(u, {"VERIFIED"}) = {} <=> roles[u] = "DONOR"
    /\ \A i \in Rows(u, {"VERIFIED"}) : members[i].role = roles[u]
    /\ roles[u] = "FUNDRAISER" <=> u \in wallets
    /\ roles[u] = "FUNDRAISER" <=> \E i \in DOMAIN founded[u] : founded[u][i] = "VERIFIED"
    /\ \A i, j \in DOMAIN founded[u] : founded[u][i] \in Live /\ founded[u][j] \in Live => i = j

\* The tokens carry the role of the database, although attempts to write it to Cognito
\* failed, once no write is under way; unless all attempts failed, or a role was written
\* after the database had moved on.
CognitoFollowsRole == \A u \in Persons \ (astray \union unsynced) :
    (\A c \in Clerks : clerks[c].at = "sync" => clerks[c].u # u) => cognito[u] = roles[u]
====
