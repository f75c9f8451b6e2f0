---- MODULE Registration ----
(***************************************************************************)
(* An account is two records, one in Cognito and a profile in the user     *)
(* service (apps/auth: services/registration with its saga, the Google     *)
(* sign-in of services/user; apps/user: CreateUser of the gRPC controller; *)
(* libs: saga, grpc, aws-cognito).  A sign-up makes one after the other    *)
(* and undoes the first when the second fails.                             *)
(*                                                                         *)
(* A call may fail, and a CreateUser the caller gave up may still arrive.  *)
(***************************************************************************)
EXTENDS Naturals, FiniteSets

CONSTANTS
    Emails,
    Forms,       \* bound: registrations in progress at once
    CallTries,   \* attempts of a gRPC call
    MaxSubs,     \* bound: Cognito users ever created
    MaxOutages   \* bound: calls that fail

ASSUME RegistrationAssumption ==
    CallTries \in Nat \ {0} /\ MaxSubs \in Nat /\ MaxOutages \in Nat

VARIABLES
    pool,       \* pool[e]: the sub of the Cognito user of e; 0 if there is none
    profiles,   \* profiles[e]: the cognito_id of the profile of e; 0 if there is none
    forms,      \* forms[f]: the registration in progress
    late,       \* CreateUser calls the caller gave up and that may still arrive
    subs,       \* subs handed out so far
    outages,    \* what is left of MaxOutages
    troubled    \* history: emails of which a call took effect although its caller saw
                \* it fail, or an undo failed, or a Google sign-up broke before the profile

registrationVars == <<pool, profiles, forms, late, subs, outages, troubled>>

NoForm == [at |-> "idle", via |-> "none", email |-> "none", sub |-> 0, tries |-> 0]

RegistrationInit ==
    /\ pool = [e \in Emails |-> 0]
    /\ profiles = [e \in Emails |-> 0]
    /\ forms = [f \in Forms |-> NoForm]
    /\ late = {} /\ subs = 0 /\ outages = MaxOutages /\ troubled = {}

-----------------------------------------------------------------------------
Goes(f, at) == forms' = [forms EXCEPT ![f].at = at]
Leave(f) == forms' = [forms EXCEPT ![f] = NoForm]
Troubles(e) == troubled' = troubled \union {e}
Outage == outages > 0 /\ outages' = outages - 1

\* signUp, or googleAuthentication: a Cognito user it finds is signed in, nothing else.
Start(f, e, via) ==
    /\ forms[f].at = "idle"
    /\ via = "google" => pool[e] = 0
    /\ forms' = [forms EXCEPT ![f] = [NoForm EXCEPT !.at = "account", !.via = via, !.email = e]]
    /\ UNCHANGED <<pool, profiles, late, subs, outages, troubled>>

\* SignUpCommand: Cognito refuses an email it has; the saga has no step to undo then.
CreateAccount(f) ==
    LET e == forms[f].email IN
    /\ forms[f].at = "account" /\ pool[e] = 0 /\ subs < MaxSubs
    /\ subs' = subs + 1
    /\ pool' = [pool EXCEPT ![e] = subs + 1]
    /\ forms' = [forms EXCEPT ![f].at = IF forms[f].via = "google" THEN "confirm" ELSE "profile",
                              ![f].sub = subs + 1, ![f].tries = CallTries]
    /\ UNCHANGED <<profiles, late, outages, troubled>>

AccountRefused(f) ==
    /\ forms[f].at = "account" /\ pool[forms[f].email] # 0
    /\ Leave(f)
    /\ UNCHANGED <<pool, profiles, late, subs, outages, troubled>>

\* The call to Cognito fails, before or after it took effect.
AccountFails(f) ==
    LET e == forms[f].email IN
    /\ forms[f].at = "account" /\ Outage
    /\ \/ UNCHANGED <<pool, subs, troubled>>
       \/ /\ pool[e] = 0 /\ subs < MaxSubs
          /\ subs' = subs + 1 /\ pool' = [pool EXCEPT ![e] = subs + 1]
          /\ Troubles(e)
    /\ Leave(f)
    /\ UNCHANGED <<profiles, late>>

\* Google only: adminConfirmSignUp and getUserByUsername; nothing is undone if they fail.
Confirm(f) ==
    /\ forms[f].at = "confirm"
    /\ \/ Goes(f, "profile") /\ UNCHANGED <<outages, troubled>>
       \/ Outage /\ Troubles(forms[f].email) /\ Leave(f)
    /\ UNCHANGED <<pool, profiles, late, subs>>

-----------------------------------------------------------------------------
(* CreateUser: email and cognito_id are unique; a refusal is an answer and not retried. *)

CreateProfile(f) ==
    LET e == forms[f].email IN
    /\ forms[f].at = "profile" /\ profiles[e] = 0
    /\ profiles' = [profiles EXCEPT ![e] = forms[f].sub]
    /\ Leave(f)
    /\ UNCHANGED <<pool, late, subs, outages, troubled>>

ProfileRefused(f) ==
    /\ forms[f].at = "profile" /\ profiles[forms[f].email] # 0
    /\ Goes(f, "undo")
    /\ UNCHANGED <<pool, profiles, late, subs, outages, troubled>>

\* Mutant: the last attempt's failure ends the registration without undoing it.
AfterTries_Idle(tries) == IF tries > 1 THEN "profile" ELSE "idle"

AfterTries(tries) == IF tries > 1 THEN "profile" ELSE "undo"

\* The attempt is given up: it was lost, or is on its way.
CreateProfileFails(f) ==
    LET q == forms[f] IN
    /\ q.at = "profile" /\ Outage
    /\ late' \in {late, late \union {[email |-> q.email, sub |-> q.sub]}}
    /\ forms' = [forms EXCEPT ![f] = IF AfterTries(q.tries) = "idle" THEN NoForm
                                     ELSE [q EXCEPT !.at = AfterTries(q.tries),
                                                    !.tries = @ - 1]]
    /\ UNCHANGED <<pool, profiles, subs, troubled>>

LateArrives ==
    /\ \E r \in late :
         /\ late' = late \ {r}
         /\ IF profiles[r.email] = 0
            THEN profiles' = [profiles EXCEPT ![r.email] = r.sub] /\ Troubles(r.email)
            ELSE UNCHANGED <<profiles, troubled>>
    /\ UNCHANGED <<pool, forms, subs, outages>>

\* adminDeleteUser(email), by the saga or by cleanupCognitoUser; a failure is logged.
Undo(f) ==
    LET e == forms[f].email IN
    /\ forms[f].at = "undo"
    /\ \/ pool' = [pool EXCEPT ![e] = 0] /\ UNCHANGED <<outages, troubled>>
       \/ Outage /\ Troubles(e) /\ UNCHANGED pool
    /\ Leave(f)
    /\ UNCHANGED <<profiles, late, subs>>

-----------------------------------------------------------------------------
RegistrationNext ==
    \/ \E f \in Forms :
         \/ \E e \in Emails, via \in {"form", "google"} : Start(f, e, via)
         \/ CreateAccount(f) \/ AccountRefused(f) \/ AccountFails(f) \/ Confirm(f)
         \/ CreateProfile(f) \/ ProfileRefused(f) \/ CreateProfileFails(f) \/ Undo(f)
    \/ LateArrives

RegistrationSpec == RegistrationInit /\ [][RegistrationNext]_registrationVars

-----------------------------------------------------------------------------
\* The shapes of accounts, profiles and registrations.
RegistrationTypeOK ==
    /\ pool \in [Emails -> 0..MaxSubs] /\ profiles \in [Emails -> 0..MaxSubs]
    /\ forms \in [Forms -> [at: {"idle", "account", "confirm", "profile", "undo"},
                            via: {"none", "form", "google"}, email: Emails \union {"none"},
                            sub: 0..MaxSubs, tries: 0..CallTries]]
    /\ late \subseteq [email: Emails, sub: 1..MaxSubs]
    /\ subs \in 0..MaxSubs /\ outages \in Nat /\ troubled \subseteq Emails

\* When no registration of an email is in progress, it has a Cognito user and a profile
\* of it, or neither, although attempts were lost and retried or undone and although
\* registrations of the email overlapped.  Left out are the emails in trouble.
AccountsPaired == \A e \in Emails :
    e \notin troubled /\ (\A f \in Forms : forms[f].email # e) => pool[e] = profiles[e]
====
