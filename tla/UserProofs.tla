---- MODULE UserProofs ----
(***************************************************************************)
(* Proofs about Registration, Membership and Donors, for any emails,       *)
(* persons, gifts and milestones, any number of requests and calls at      *)
(* once, attempts and failures.                                            *)
(*                                                                         *)
(* Registration: AccountsPaired speaks of emails with no registration in   *)
(* progress.  What makes it inductive is that a Cognito user without a     *)
(* profile belongs to one registration, the only one past the creation of  *)
(* the account.                                                            *)
(*                                                                         *)
(* Membership: a person's role, memberships, organizations and wallet fit  *)
(* together, but for persons whom two requests crossed; and the row a      *)
(* request is about to write exists and is that person's.                  *)
(*                                                                         *)
(* Donors: a call that was given up still adds its gift.  The total, what  *)
(* calls under way will add and what attempts to come may add are bounded  *)
(* together, by a sum over the calls.                                      *)
(***************************************************************************)
EXTENDS Registration, Membership, Donors, SumProofs, FiniteSetTheorems, TLAPS

-----------------------------------------------------------------------------
(* Registration.                                                           *)

FormRecords == [at: {"idle", "account", "confirm", "profile", "undo"},
                via: {"none", "form", "google"}, email: Emails \union {"none"},
                sub: 0..MaxSubs, tries: 0..CallTries]

Holding == {"confirm", "profile", "undo"}

\* Registration f has created the Cognito user of e and is not done with it.
Holds(f, e) == forms[f].email = e /\ forms[f].at \in Holding

\* The two records of e agree, or one registration accounts for the difference.
PairedOrHeld(e) ==
    \/ (\A f \in Forms : ~Holds(f, e)) /\ pool[e] = profiles[e]
    \/ \E f \in Forms :
         /\ Holds(f, e) /\ \A g \in Forms \ {f} : ~Holds(g, e)
         /\ pool[e] = forms[f].sub /\ pool[e] # 0 /\ profiles[e] = 0

\* What a registration carries at each step.
Equipped(q) ==
    /\ q.at # "idle" => q.email \in Emails
    /\ q.at \in Holding => q.sub # 0
    /\ q.at \in {"confirm", "profile"} => q.tries # 0

RegistrationInv ==
    /\ RegistrationTypeOK
    /\ \A f \in Forms : Equipped(forms[f])
    /\ \A e \in Emails : e \notin troubled => PairedOrHeld(e)

LEMMA RegistrationInit_Inv == RegistrationInit => RegistrationInv
  <1> SUFFICES ASSUME RegistrationInit PROVE RegistrationInv
    OBVIOUS
  <1>1. RegistrationTypeOK
    BY RegistrationAssumption DEF RegistrationInit, RegistrationTypeOK, RegistrationAssumption, NoForm
  <1>2. \A f \in Forms : forms[f].at = "idle"
    BY DEF RegistrationInit, NoForm
  <1>3. \A e \in Emails : PairedOrHeld(e)
    BY <1>2 DEF RegistrationInit, PairedOrHeld, Holds, Holding
  <1> QED BY <1>1, <1>2, <1>3 DEF RegistrationInv, Equipped, Holding

\* What a step that changes one registration has to show.
LEMMA OneFormStep ==
    ASSUME RegistrationInv, NEW f \in Forms, NEW q, forms' = [forms EXCEPT ![f] = q],
           RegistrationTypeOK', Equipped(q),
           troubled \subseteq troubled',
           \A e \in Emails \ troubled' :
              \/ /\ pool'[e] = pool[e] /\ profiles'[e] = profiles[e]
                 /\ (q.email = e /\ q.at \in Holding) <=> Holds(f, e)
                 /\ Holds(f, e) => q.sub = forms[f].sub
              \/ PairedOrHeld(e)'
    PROVE  RegistrationInv'
  <1>0. /\ \A g \in Forms : forms'[g] = IF g = f THEN q ELSE forms[g]
    BY DEF RegistrationInv, RegistrationTypeOK
  <1>1. \A g \in Forms : Equipped(forms'[g])
    BY <1>0 DEF RegistrationInv
  <1>2. ASSUME NEW e \in Emails, e \notin troubled', ~PairedOrHeld(e)'
        PROVE  FALSE
    <2>1. PairedOrHeld(e)
      BY <1>2 DEF RegistrationInv
    <2>2. \A g \in Forms : Holds(g, e)' <=> Holds(g, e)
      BY <1>0, <1>2 DEF Holds
    <2>3. \A g \in Forms : Holds(g, e) => forms'[g].sub = forms[g].sub
      BY <1>0, <1>2
    <2>4. pool'[e] = pool[e] /\ profiles'[e] = profiles[e]
      BY <1>2
    <2> QED BY <1>2, <2>1, <2>2, <2>3, <2>4 DEF PairedOrHeld
  <1>3. (\A g \in Forms : Equipped(forms[g]))'
    BY <1>1 DEF Equipped
  <1> QED BY <1>2, <1>3 DEF RegistrationInv

LEMMA FormShape ==
    ASSUME RegistrationInv, NEW f \in Forms
    PROVE  /\ forms \in [Forms -> FormRecords] /\ forms[f] \in FormRecords
           /\ forms[f].at # "idle" => forms[f].email \in Emails
           /\ CallTries \in Nat \ {0} /\ MaxSubs \in Nat
  BY RegistrationAssumption
     DEF RegistrationInv, RegistrationTypeOK, RegistrationAssumption, FormRecords, Equipped

\* An email in question is not in trouble now either.
LEMMA Untroubled ==
    ASSUME RegistrationInv, NEW e \in Emails \ troubled', troubled \subseteq troubled'
    PROVE  PairedOrHeld(e)
  BY DEF RegistrationInv

\* A registration that ends without having made an account leaves its email as it was.
LEMMA LeavesQuietly ==
    ASSUME RegistrationInv, NEW f \in Forms, forms[f].at \notin Holding, Leave(f),
           UNCHANGED <<pool, profiles, late, subs, troubled>>, outages' \in Nat
    PROVE  RegistrationInv'
  <1>1. forms' = [forms EXCEPT ![f] = NoForm]
    BY DEF Leave
  <1>2. RegistrationTypeOK'
    BY <1>1, FormShape DEF RegistrationInv, RegistrationTypeOK, NoForm
  <1>3. \A e : ~Holds(f, e)
    BY DEF Holds
  <1>4. NoForm.at = "idle" /\ Equipped(NoForm)
    BY DEF NoForm, Equipped, Holding
  <1> QED BY <1>1, <1>2, <1>3, <1>4, OneFormStep DEF Holding

LEMMA StartKeeps ==
    ASSUME RegistrationInv, NEW f \in Forms, NEW e \in Emails, NEW via \in {"form", "google"},
           Start(f, e, via)
    PROVE  RegistrationInv'
  <1> DEFINE q == [NoForm EXCEPT !.at = "account", !.via = via, !.email = e]
  <1>1. forms' = [forms EXCEPT ![f] = q] /\ forms[f].at = "idle"
        /\ UNCHANGED <<pool, profiles, late, subs, outages, troubled>>
    BY DEF Start
  <1>2. q.at = "account" /\ q.email = e /\ q \in FormRecords
    <2>1. NoForm \in FormRecords
      BY FormShape DEF NoForm, FormRecords
    <2>2. q \in FormRecords
      BY <2>1 DEF FormRecords
    <2>3. q.at = "account" /\ q.email = e
      BY DEF NoForm
    <2> QED BY <2>2, <2>3
  <1>3. RegistrationTypeOK'
    BY <1>1, <1>2 DEF RegistrationInv, RegistrationTypeOK, FormRecords
  <1>4. \A d : ~Holds(f, d)
    BY <1>1 DEF Holds, Holding
  <1> HIDE DEF q
  <1>5. Equipped(q)
    BY <1>2 DEF Equipped, Holding
  <1> QED BY <1>1, <1>2, <1>3, <1>4, <1>5, OneFormStep DEF Holding

\* The one registration that holds a Cognito user, and nothing else of its email.
LEMMA HolderMade ==
    ASSUME RegistrationInv, NEW f \in Forms, NEW e \in Emails, e \notin troubled, pool[e] = 0,
           NEW q, forms' = [forms EXCEPT ![f] = q], q.email = e, q.at \in Holding,
           pool'[e] = q.sub, q.sub # 0, profiles' = profiles
    PROVE  PairedOrHeld(e)'
  <1>1. PairedOrHeld(e)
    BY DEF RegistrationInv
  <1>2. (\A g \in Forms : ~Holds(g, e)) /\ profiles[e] = 0
    BY <1>1 DEF PairedOrHeld
  <1>3. \A g \in Forms : forms'[g] = IF g = f THEN q ELSE forms[g]
    BY DEF RegistrationInv, RegistrationTypeOK
  <1>4. Holds(f, e)' /\ \A g \in Forms \ {f} : ~Holds(g, e)'
    BY <1>2, <1>3 DEF Holds
  <1> QED BY <1>2, <1>3, <1>4 DEF PairedOrHeld

LEMMA CreateAccountKeeps ==
    ASSUME RegistrationInv, NEW f \in Forms, CreateAccount(f)
    PROVE  RegistrationInv'
  <1> DEFINE e == forms[f].email
             q == [forms[f] EXCEPT !.at = IF forms[f].via = "google" THEN "confirm" ELSE "profile",
                                   !.sub = subs + 1, !.tries = CallTries]
  <1>1. /\ forms[f].at = "account" /\ pool[e] = 0 /\ subs < MaxSubs /\ subs' = subs + 1
        /\ pool' = [pool EXCEPT ![e] = subs + 1]
        /\ UNCHANGED <<profiles, late, outages, troubled>>
    BY DEF CreateAccount
  <1>2. forms' = [forms EXCEPT ![f] = q]
    BY FormShape DEF CreateAccount, RegistrationInv, RegistrationTypeOK
  <1>3. e \in Emails /\ subs \in Nat /\ subs + 1 \in 1..MaxSubs
    BY <1>1, FormShape DEF RegistrationInv, RegistrationTypeOK
  <1>4. /\ q.at \in {"confirm", "profile"} /\ q.email = e /\ q.sub = subs + 1
        /\ q.tries = CallTries /\ q \in FormRecords
    <2>1. CallTries \in 0..CallTries /\ subs + 1 \in 0..MaxSubs /\ forms[f] \in FormRecords
      BY <1>3, FormShape
    <2>2. q \in FormRecords
      BY <2>1 DEF FormRecords
    <2>3. /\ q.at \in {"confirm", "profile"} /\ q.email = e /\ q.sub = subs + 1
          /\ q.tries = CallTries
      BY <2>1 DEF FormRecords
    <2> QED BY <2>2, <2>3
  <1> HIDE DEF q
  <1>5. RegistrationTypeOK'
    <2>1. forms' \in [Forms -> FormRecords]
      BY <1>2, <1>4, FormShape
    <2>2. pool' \in [Emails -> 0..MaxSubs] /\ subs' \in 0..MaxSubs
      BY <1>1, <1>3 DEF RegistrationInv, RegistrationTypeOK
    <2> QED BY <2>1, <2>2, <1>1 DEF RegistrationInv, RegistrationTypeOK, FormRecords
  <1>6. ASSUME NEW d \in Emails \ troubled', d = e
        PROVE  PairedOrHeld(d)'
    <2>1. d \notin troubled /\ pool[d] = 0 /\ pool'[d] = q.sub /\ q.sub # 0
      BY <1>1, <1>3, <1>4, <1>6 DEF RegistrationInv, RegistrationTypeOK
    <2> QED BY <2>1, <1>1, <1>2, <1>4, <1>6, HolderMade DEF Holding
  <1>7. \A d \in Emails : d # e => /\ pool'[d] = pool[d] /\ ~Holds(f, d) /\ q.email # d
    BY <1>1, <1>4 DEF RegistrationInv, RegistrationTypeOK, Holds
  <1>8. \A d \in Emails \ troubled' :
          \/ /\ pool'[d] = pool[d] /\ profiles'[d] = profiles[d]
             /\ (q.email = d /\ q.at \in Holding) <=> Holds(f, d)
             /\ Holds(f, d) => q.sub = forms[f].sub
          \/ PairedOrHeld(d)'
    BY <1>1, <1>6, <1>7
  <1>9. Equipped(q)
    BY <1>3, <1>4, FormShape DEF Equipped
  <1>10. troubled \subseteq troubled'
    BY <1>1
  <1> HIDE DEF e
  <1> QED BY <1>2, <1>5, <1>8, <1>9, <1>10, OneFormStep

LEMMA AccountFailsKeeps ==
    ASSUME RegistrationInv, NEW f \in Forms, AccountFails(f)
    PROVE  RegistrationInv'
  <1> DEFINE e == forms[f].email
  <1>1. /\ forms[f].at = "account" /\ outages > 0 /\ outages' = outages - 1
        /\ forms' = [forms EXCEPT ![f] = NoForm] /\ Leave(f) /\ UNCHANGED <<profiles, late>>
    BY DEF AccountFails, Outage, Leave
  <1>2. outages' \in Nat /\ e \in Emails
    BY <1>1, FormShape DEF RegistrationInv, RegistrationTypeOK
  <1>3. CASE UNCHANGED <<pool, subs, troubled>>
    BY <1>1, <1>2, <1>3, LeavesQuietly DEF Holding
  <1>4. CASE /\ pool[e] = 0 /\ subs < MaxSubs /\ subs' = subs + 1
             /\ pool' = [pool EXCEPT ![e] = subs + 1] /\ Troubles(e)
    <2>1. RegistrationTypeOK'
      <3>1. pool' \in [Emails -> 0..MaxSubs] /\ subs' \in 0..MaxSubs /\ troubled' \subseteq Emails
        BY <1>2, <1>4, FormShape DEF RegistrationInv, RegistrationTypeOK, Troubles
      <3> QED BY <3>1, <1>1, <1>2, FormShape DEF RegistrationInv, RegistrationTypeOK, NoForm
    <2>2. \A d \in Emails \ troubled' : pool'[d] = pool[d] /\ d # e
      BY <1>2, <1>4 DEF RegistrationInv, RegistrationTypeOK, Troubles
    <2>3. NoForm.at = "idle" /\ Equipped(NoForm) /\ \A d : ~Holds(f, d)
      BY <1>1 DEF NoForm, Equipped, Holds, Holding
    <2>4. troubled \subseteq troubled'
      BY <1>4 DEF Troubles
    <2> QED BY <2>1, <2>2, <2>3, <2>4, <1>1, OneFormStep DEF Holding
  <1> QED BY <1>3, <1>4 DEF AccountFails

\* A registration that goes on to another step with what it holds.
LEMMA GoesOn ==
    ASSUME RegistrationInv, NEW f \in Forms, forms[f].at \in Holding, NEW at \in Holding,
           NEW n \in 0..CallTries, n = 0 => at = "undo",
           forms' = [forms EXCEPT ![f] = [forms[f] EXCEPT !.at = at, !.tries = n]],
           UNCHANGED <<pool, profiles, subs, troubled>>,
           late' \subseteq [email: Emails, sub: 1..MaxSubs], outages' \in Nat
    PROVE  RegistrationInv'
  <1> DEFINE q == [forms[f] EXCEPT !.at = at, !.tries = n]
  <1>1. forms[f] \in FormRecords /\ forms[f].email \in Emails
    BY FormShape DEF Holding
  <1>2. q \in FormRecords
    BY <1>1 DEF FormRecords, Holding
  <1>3. q.at = at /\ q.email = forms[f].email /\ q.sub = forms[f].sub
    BY <1>1 DEF FormRecords
  <1> HIDE DEF q
  <1>4. forms' = [forms EXCEPT ![f] = q]
    BY DEF q
  <1>5. RegistrationTypeOK'
    <2>1. forms' \in [Forms -> FormRecords]
      BY <1>2, <1>4, FormShape
    <2> QED BY <2>1 DEF RegistrationInv, RegistrationTypeOK, FormRecords
  <1>6. \A e : (q.email = e /\ q.at \in Holding) <=> Holds(f, e)
    BY <1>3 DEF Holds
  <1>7. Equipped(q)
    <2>1. q.tries = n /\ forms[f].sub # 0
      BY <1>1 DEF q, FormRecords, RegistrationInv, Equipped
    <2> QED BY <2>1, <1>1, <1>3 DEF Equipped, Holding
  <1> QED BY <1>3, <1>4, <1>5, <1>6, <1>7, OneFormStep

\* A registration that ends while its email is paired or in trouble.
LEMMA LeavesSettled ==
    ASSUME RegistrationInv, NEW f \in Forms, Leave(f), RegistrationTypeOK',
           troubled \subseteq troubled',
           \A e \in Emails : e # forms[f].email => pool'[e] = pool[e] /\ profiles'[e] = profiles[e],
           forms[f].email \notin troubled' =>
              (forms[f].at \in Holding /\ pool'[forms[f].email] = profiles'[forms[f].email])
    PROVE  RegistrationInv'
  <1> DEFINE d == forms[f].email
  <1>1. forms' = [forms EXCEPT ![f] = NoForm] /\ NoForm.at = "idle" /\ Equipped(NoForm)
    BY DEF Leave, NoForm, Equipped, Holding
  <1>2. \A g \in Forms : forms'[g] = IF g = f THEN NoForm ELSE forms[g]
    BY <1>1, FormShape
  <1>3. ASSUME NEW e \in Emails \ troubled', e = d
        PROVE  PairedOrHeld(e)'
    <2>1. PairedOrHeld(e) /\ Holds(f, e)
      BY <1>3, Untroubled DEF Holds
    <2>2. \A g \in Forms \ {f} : ~Holds(g, e)
      BY <2>1 DEF PairedOrHeld
    <2>3. \A g \in Forms : ~Holds(g, e)'
      BY <2>2, <1>1, <1>2 DEF Holds, Holding
    <2> QED BY <2>3, <1>3 DEF PairedOrHeld
  <1>4. \A e \in Emails \ troubled' :
          \/ /\ pool'[e] = pool[e] /\ profiles'[e] = profiles[e]
             /\ (NoForm.email = e /\ NoForm.at \in Holding) <=> Holds(f, e)
             /\ Holds(f, e) => NoForm.sub = forms[f].sub
          \/ PairedOrHeld(e)'
    BY <1>1, <1>3 DEF Holds, Holding
  <1> QED BY <1>1, <1>4, OneFormStep

LEMMA NoFormTyped == ASSUME RegistrationInv, NEW f \in Forms, Leave(f)
                     PROVE  forms' \in [Forms -> FormRecords]
  <1>1. NoForm \in FormRecords
    BY FormShape DEF NoForm, FormRecords
  <1> QED BY <1>1, FormShape DEF Leave

LEMMA ConfirmKeeps ==
    ASSUME RegistrationInv, NEW f \in Forms, Confirm(f)
    PROVE  RegistrationInv'
  <1>1. forms[f].at = "confirm" /\ UNCHANGED <<pool, profiles, late, subs>>
        /\ forms[f] \in FormRecords /\ forms[f].email \in Emails
    BY FormShape DEF Confirm
  <1>2. CASE Goes(f, "profile") /\ UNCHANGED <<outages, troubled>>
    <2>1. forms' = [forms EXCEPT ![f] = [forms[f] EXCEPT !.at = "profile", !.tries = forms[f].tries]]
      BY <1>1, <1>2, FormShape DEF Goes, FormRecords
    <2>2. forms[f].tries \in 0..CallTries /\ forms[f].tries # 0
      BY <1>1 DEF FormRecords, RegistrationInv, Equipped
    <2> QED BY <2>1, <2>2, <1>1, <1>2, GoesOn DEF Holding, RegistrationInv, RegistrationTypeOK
  <1>3. CASE Outage /\ Troubles(forms[f].email) /\ Leave(f)
    <2>1. RegistrationTypeOK'
      BY <1>1, <1>3, NoFormTyped DEF RegistrationInv, RegistrationTypeOK, Outage, Troubles, FormRecords
    <2> QED BY <2>1, <1>1, <1>3, LeavesSettled DEF Troubles
  <1> QED BY <1>2, <1>3 DEF Confirm

LEMMA CreateProfileKeeps ==
    ASSUME RegistrationInv, NEW f \in Forms, CreateProfile(f)
    PROVE  RegistrationInv'
  <1> DEFINE e == forms[f].email
  <1>1. /\ forms[f].at = "profile" /\ profiles[e] = 0 /\ Leave(f)
        /\ profiles' = [profiles EXCEPT ![e] = forms[f].sub]
        /\ UNCHANGED <<pool, late, subs, outages, troubled>>
        /\ forms[f] \in FormRecords /\ e \in Emails
    BY FormShape DEF CreateProfile
  <1>2. RegistrationTypeOK'
    <2>1. profiles' \in [Emails -> 0..MaxSubs]
      BY <1>1 DEF RegistrationInv, RegistrationTypeOK, FormRecords
    <2> QED BY <2>1, <1>1, NoFormTyped DEF RegistrationInv, RegistrationTypeOK, FormRecords
  <1>3. profiles'[e] = forms[f].sub /\ \A d \in Emails : d # e => profiles'[d] = profiles[d]
    BY <1>1 DEF RegistrationInv, RegistrationTypeOK
  <1>4. e \notin troubled => pool[e] = forms[f].sub
    <2> SUFFICES ASSUME e \notin troubled PROVE pool[e] = forms[f].sub
      OBVIOUS
    <2>1. PairedOrHeld(e) /\ Holds(f, e)
      BY <1>1 DEF RegistrationInv, Holds, Holding
    <2> QED BY <2>1 DEF PairedOrHeld
  <1> QED BY <1>1, <1>2, <1>3, <1>4, LeavesSettled DEF Holding

LEMMA ProfileRefusedKeeps ==
    ASSUME RegistrationInv, NEW f \in Forms, ProfileRefused(f)
    PROVE  RegistrationInv'
  <1>1. forms[f].at = "profile" /\ Goes(f, "undo") /\ forms[f] \in FormRecords
        /\ UNCHANGED <<pool, profiles, late, subs, outages, troubled>>
    BY FormShape DEF ProfileRefused
  <1>2. forms' = [forms EXCEPT ![f] = [forms[f] EXCEPT !.at = "undo", !.tries = forms[f].tries]]
    BY <1>1, FormShape DEF Goes, FormRecords
  <1>3. forms[f].tries \in 0..CallTries
    BY <1>1 DEF FormRecords
  <1> QED BY <1>1, <1>2, <1>3, GoesOn DEF Holding, RegistrationInv, RegistrationTypeOK

\* A lost attempt leaves the registration what it holds, for the next attempt or the undo.
LEMMA CreateProfileFailsKeeps ==
    ASSUME RegistrationInv, NEW f \in Forms, CreateProfileFails(f)
    PROVE  RegistrationInv'
  <1> DEFINE q == forms[f]
  <1>1. /\ q.at = "profile" /\ outages > 0 /\ outages' = outages - 1
        /\ late' \in {late, late \union {[email |-> q.email, sub |-> q.sub]}}
        /\ UNCHANGED <<pool, profiles, subs, troubled>>
        /\ q \in FormRecords /\ q.email \in Emails
    BY FormShape DEF CreateProfileFails, Outage
  <1>2. AfterTries(q.tries) \in {"profile", "undo"} /\ AfterTries(q.tries) # "idle"
    BY DEF AfterTries
  <1>3. forms' = [forms EXCEPT ![f] = [q EXCEPT !.at = AfterTries(q.tries), !.tries = q.tries - 1]]
    <2>1. forms' = [forms EXCEPT ![f] = [q EXCEPT !.at = AfterTries(q.tries), !.tries = @ - 1]]
      BY <1>2 DEF CreateProfileFails
    <2> QED BY <2>1, <1>1 DEF FormRecords
  <1>4. q.tries # 0 /\ q.sub # 0
    BY <1>1 DEF RegistrationInv, Equipped, Holding
  <1>5. q.tries - 1 \in 0..CallTries /\ (q.tries - 1 = 0 => AfterTries(q.tries) = "undo")
    BY <1>1, <1>4, FormShape DEF FormRecords, AfterTries
  <1>6. late' \subseteq [email: Emails, sub: 1..MaxSubs]
    <2>1. q.sub \in 1..MaxSubs
      BY <1>1, <1>4, FormShape DEF FormRecords
    <2> QED BY <2>1, <1>1 DEF RegistrationInv, RegistrationTypeOK
  <1>7. outages' \in Nat
    BY <1>1 DEF RegistrationInv, RegistrationTypeOK
  <1> QED BY <1>1, <1>2, <1>3, <1>5, <1>6, <1>7, GoesOn DEF Holding

\* A late call makes a profile the registration does not know of: its email is in trouble.
LEMMA LateArrivesKeeps ==
    ASSUME RegistrationInv, LateArrives PROVE RegistrationInv'
  <1>1. PICK r \in late :
          /\ late' = late \ {r}
          /\ IF profiles[r.email] = 0
             THEN profiles' = [profiles EXCEPT ![r.email] = r.sub] /\ Troubles(r.email)
             ELSE UNCHANGED <<profiles, troubled>>
    BY DEF LateArrives
  <1>2. r.email \in Emails /\ r.sub \in 0..MaxSubs /\ UNCHANGED <<pool, forms, subs, outages>>
    BY FormShape DEF LateArrives, RegistrationInv, RegistrationTypeOK
  <1>3. RegistrationTypeOK'
    BY <1>1, <1>2 DEF RegistrationInv, RegistrationTypeOK, Troubles
  <1>4. \A e \in Emails \ troubled' : e \notin troubled /\ profiles'[e] = profiles[e]
    BY <1>1, <1>2 DEF RegistrationInv, RegistrationTypeOK, Troubles
  <1>5. \A e \in Emails \ troubled' : PairedOrHeld(e)'
    BY <1>2, <1>4 DEF RegistrationInv, PairedOrHeld, Holds
  <1>6. (\A f \in Forms : Equipped(forms[f]))'
    BY <1>2 DEF RegistrationInv, Equipped
  <1> QED BY <1>3, <1>5, <1>6 DEF RegistrationInv

\* The undo removes the Cognito user this registration made, and no other's.
LEMMA UndoKeeps ==
    ASSUME RegistrationInv, NEW f \in Forms, Undo(f)
    PROVE  RegistrationInv'
  <1> DEFINE e == forms[f].email
  <1>1. /\ forms[f].at = "undo" /\ Leave(f) /\ UNCHANGED <<profiles, late, subs>>
        /\ e \in Emails
    BY FormShape DEF Undo
  <1>2. CASE pool' = [pool EXCEPT ![e] = 0] /\ UNCHANGED <<outages, troubled>>
    <2>1. pool'[e] = 0 /\ (\A d \in Emails : d # e => pool'[d] = pool[d])
          /\ pool' \in [Emails -> 0..MaxSubs]
      BY <1>1, <1>2, FormShape DEF RegistrationInv, RegistrationTypeOK
    <2>2. RegistrationTypeOK'
      BY <2>1, <1>1, <1>2, NoFormTyped DEF RegistrationInv, RegistrationTypeOK, FormRecords
    <2>3. e \notin troubled => profiles[e] = 0
      <3> SUFFICES ASSUME e \notin troubled PROVE profiles[e] = 0
        OBVIOUS
      <3>1. PairedOrHeld(e) /\ Holds(f, e)
        BY <1>1 DEF RegistrationInv, Holds, Holding
      <3> QED BY <3>1 DEF PairedOrHeld
    <2> QED BY <2>1, <2>2, <2>3, <1>1, <1>2, LeavesSettled DEF Holding
  <1>3. CASE Outage /\ Troubles(e) /\ UNCHANGED pool
    <2>1. RegistrationTypeOK'
      BY <1>1, <1>3, NoFormTyped DEF RegistrationInv, RegistrationTypeOK, Outage, Troubles, FormRecords
    <2> QED BY <2>1, <1>1, <1>3, LeavesSettled DEF Troubles
  <1> QED BY <1>2, <1>3 DEF Undo

LEMMA AccountRefusedKeeps ==
    ASSUME RegistrationInv, NEW f \in Forms, AccountRefused(f)
    PROVE  RegistrationInv'
  BY LeavesQuietly DEF AccountRefused, Holding, RegistrationInv, RegistrationTypeOK

LEMMA RegistrationNext_Inv ==
    ASSUME RegistrationInv, [RegistrationNext]_registrationVars
    PROVE  RegistrationInv'
  <1>1. CASE RegistrationNext
    <2>1. ASSUME NEW f \in Forms, NEW e \in Emails, NEW via \in {"form", "google"},
                 Start(f, e, via)
          PROVE  RegistrationInv'
      BY <2>1, StartKeeps
    <2>2. ASSUME NEW f \in Forms, CreateAccount(f) PROVE RegistrationInv'
      BY <2>2, CreateAccountKeeps
    <2>3. ASSUME NEW f \in Forms, AccountRefused(f) PROVE RegistrationInv'
      BY <2>3, AccountRefusedKeeps
    <2>4. ASSUME NEW f \in Forms, AccountFails(f) PROVE RegistrationInv'
      BY <2>4, AccountFailsKeeps
    <2>5. ASSUME NEW f \in Forms, Confirm(f) PROVE RegistrationInv'
      BY <2>5, ConfirmKeeps
    <2>6. ASSUME NEW f \in Forms, CreateProfile(f) PROVE RegistrationInv'
      BY <2>6, CreateProfileKeeps
    <2>7. ASSUME NEW f \in Forms, ProfileRefused(f) PROVE RegistrationInv'
      BY <2>7, ProfileRefusedKeeps
    <2>8. ASSUME NEW f \in Forms, CreateProfileFails(f) PROVE RegistrationInv'
      BY <2>8, CreateProfileFailsKeeps
    <2>9. ASSUME NEW f \in Forms, Undo(f) PROVE RegistrationInv'
      BY <2>9, UndoKeeps
    <2>10. CASE LateArrives
      BY <2>10, LateArrivesKeeps
    <2> QED BY <1>1, <2>1, <2>2, <2>3, <2>4, <2>5, <2>6, <2>7, <2>8, <2>9, <2>10
            DEF RegistrationNext
  <1>2. CASE UNCHANGED registrationVars
    BY <1>2 DEF registrationVars, RegistrationInv, RegistrationTypeOK, PairedOrHeld, Holds, Equipped
  <1> QED BY <1>1, <1>2

-----------------------------------------------------------------------------
\* The invariant the two theorems below rest on, in every reachable state.
THEOREM RegistrationInvariant == RegistrationSpec => []RegistrationInv
  BY RegistrationInit_Inv, RegistrationNext_Inv, PTL DEF RegistrationSpec

\* Every reachable state has the shapes of accounts, profiles and registrations, and no
\* call of CreateUser that is on its way lacks the sub of a Cognito user.
THEOREM RegistrationTyped == RegistrationSpec => []RegistrationTypeOK
  <1>1. RegistrationInv => RegistrationTypeOK
    BY DEF RegistrationInv
  <1> QED BY <1>1, RegistrationInvariant, PTL

\* An email with no registration in progress has a Cognito user and a profile of it, or
\* neither, however many registrations of it overlapped and however many attempts were
\* lost, unless a call took effect behind its caller's back or an undo failed.
THEOREM AccountsArePaired == RegistrationSpec => []AccountsPaired
  <1>1. ASSUME RegistrationInv PROVE AccountsPaired
    BY <1>1 DEF RegistrationInv, AccountsPaired, PairedOrHeld, Holds
  <1> QED BY <1>1, RegistrationInvariant, PTL

-----------------------------------------------------------------------------
(* Membership.                                                             *)

AllRoles == {"DONOR", "FUNDRAISER"} \union StaffRoles
OrgStatuses == {"PENDING", "VERIFIED", "REJECTED", "CANCELLED"}
MemberRows == [who: Persons, role: AllRoles \ {"DONOR"},
               status: {"PENDING", "VERIFIED", "REJECTED", "GONE"}]

\* Requests, by what they carry.
Lookers == [at: {"mayFound", "mayCancel", "mayWithdraw", "mayLeave", "found"}, u: Persons]
Joiners == [at: {"mayJoin", "join"}, u: Persons, role: StaffRoles]
OrgWriters == [at: {"approveOrg", "rejectOrg", "cancel"}, u: Persons, i: Nat]
Leavers == [at: {"withdraw", "leave"}, u: Persons, i: Nat]
Deciders == [at: {"approveJoin", "rejectJoin", "remove"}, u: Persons, i: Nat,
             role: AllRoles \ {"DONOR", "FUNDRAISER"}]
Syncers == [at: {"sync"}, u: Persons, role: AllRoles, tries: 1..SyncTries]
ClerkShapes == {Free} \union Lookers \union Joiners \union OrgWriters \union Leavers
                 \union Deciders \union Syncers

\* What request q is about to write is there, and what it says of a member is true.
AboutMember(q) ==
    /\ q.at \in {"approveOrg", "rejectOrg", "cancel"} => q.i \in DOMAIN founded[q.u]
    /\ q.at \in {"withdraw", "leave", "approveJoin", "rejectJoin", "remove"} =>
         q.i \in DOMAIN members /\ members[q.i].who = q.u
    /\ q.at \in {"approveJoin", "rejectJoin", "remove"} => members[q.i].role = q.role

FitsMembership(u) ==
    /\ \A i, j \in Rows(u, {"VERIFIED"}) : i = j
    /\ Rows(u, {"VERIFIED"}) = {} <=> roles[u] = "DONOR"
    /\ \A i \in Rows(u, {"VERIFIED"}) : members[i].role = roles[u]
    /\ roles[u] = "FUNDRAISER" <=> u \in wallets
    /\ roles[u] = "FUNDRAISER" <=> \E i \in DOMAIN founded[u] : founded[u][i] = "VERIFIED"
    /\ \A i, j \in DOMAIN founded[u] : founded[u][i] \in Live /\ founded[u][j] \in Live => i = j

MembershipTyped ==
    /\ roles \in [Persons -> AllRoles] /\ cognito \in [Persons -> AllRoles]
    /\ founded \in [Persons -> Seq(OrgStatuses)] /\ members \in Seq(MemberRows)
    /\ clerks \in [Clerks -> ClerkShapes] /\ cognitoErrors \in Nat
    /\ wallets \subseteq Persons /\ unsynced \subseteq Persons /\ astray \subseteq Persons

MembershipInv ==
    /\ MembershipTyped
    /\ \A c \in Clerks : AboutMember(clerks[c])
    /\ \A u \in Persons \ astray : FitsMembership(u)
    /\ CognitoFollowsRole

LEMMA MembershipInit_Inv == MembershipInit => MembershipInv
  <1> SUFFICES ASSUME MembershipInit PROVE MembershipInv
    OBVIOUS
  <1>1. MembershipTyped
    BY MembershipAssumption DEF MembershipInit, MembershipTyped, AllRoles, ClerkShapes
  <1>2. \A c \in Clerks : AboutMember(clerks[c]) BY DEF MembershipInit, AboutMember, Free
  <1>3. \A u \in Persons : Rows(u, {"VERIFIED"}) = {} /\ DOMAIN founded[u] = {}
    BY DEF MembershipInit, Rows
  <1>4. \A u \in Persons : FitsMembership(u) BY <1>3 DEF MembershipInit, FitsMembership
  <1>5. CognitoFollowsRole BY DEF MembershipInit, CognitoFollowsRole
  <1>6. QED BY <1>1, <1>2, <1>4, <1>5 DEF MembershipInv

LEMMA ClerkOf ==
    ASSUME NEW q \in ClerkShapes
    PROVE  /\ q.at = "idle" => q = Free
           /\ q.at \in {"mayFound", "mayCancel", "mayWithdraw", "mayLeave", "found"} => q \in Lookers
           /\ q.at \in {"mayJoin", "join"} => q \in Joiners
           /\ q.at \in {"approveOrg", "rejectOrg", "cancel"} => q \in OrgWriters
           /\ q.at \in {"withdraw", "leave"} => q \in Leavers
           /\ q.at \in {"approveJoin", "rejectJoin", "remove"} => q \in Deciders
           /\ q.at = "sync" => q \in Syncers
  BY DEF ClerkShapes, Free, Lookers, Joiners, OrgWriters, Leavers, Deciders, Syncers

LEMMA FreeShape == Free \in ClerkShapes /\ Free.at = "idle"
  BY DEF ClerkShapes, Free

\* One request goes on; rows are added, and keep their person and role.
LEMMA ClerkTurns ==
    ASSUME MembershipInv, NEW c \in Clerks, NEW q \in ClerkShapes, To(c, q), AboutMember(q)',
           \A u \in Persons : DOMAIN founded[u] \subseteq DOMAIN founded'[u],
           DOMAIN members \subseteq DOMAIN members',
           \A i \in DOMAIN members : /\ members'[i].who = members[i].who
                                     /\ members'[i].role = members[i].role
    PROVE  /\ clerks' \in [Clerks -> ClerkShapes]
           /\ \A e \in Clerks : clerks'[e] = IF e = c THEN q ELSE clerks[e]
           /\ \A e \in Clerks : AboutMember(clerks[e])'
  <1>1. /\ clerks' \in [Clerks -> ClerkShapes]
        /\ \A e \in Clerks : clerks'[e] = IF e = c THEN q ELSE clerks[e]
    BY DEF MembershipInv, MembershipTyped, To
  <1>2. ASSUME NEW e \in Clerks PROVE AboutMember(clerks[e])'
    <2>1. CASE e = c BY <1>1, <2>1 DEF AboutMember
    <2>2. CASE e # c
      <3>1. clerks'[e] = clerks[e] /\ AboutMember(clerks[e]) /\ clerks[e] \in ClerkShapes
        BY <1>1, <2>2 DEF MembershipInv, MembershipTyped
      <3>2. clerks[e].at \in {"approveOrg", "rejectOrg", "cancel"} => clerks[e].u \in Persons
        BY <3>1, ClerkOf DEF OrgWriters
      <3>3. QED BY <3>1, <3>2 DEF AboutMember
    <2>3. QED BY <2>1, <2>2
  <1>3. QED BY <1>1, <1>2

\* Somebody of whom nothing changes.
LEMMA StillFits ==
    ASSUME NEW u \in Persons, FitsMembership(u),
           Rows(u, {"VERIFIED"})' = Rows(u, {"VERIFIED"}),
           \A i \in Rows(u, {"VERIFIED"}) : members'[i].role = members[i].role,
           roles'[u] = roles[u], (u \in wallets') <=> (u \in wallets), founded'[u] = founded[u]
    PROVE  FitsMembership(u)'
  BY DEF FitsMembership

\* Roles that change are on their way to Cognito.
LEMMA CognitoStillFollows ==
    ASSUME MembershipInv, NEW c \in Clerks, clerks[c].at # "sync",
           \A e \in Clerks \ {c} : clerks'[e] = clerks[e],
           UNCHANGED <<cognito, unsynced>>, astray \subseteq astray',
           \A u \in Persons : \/ roles'[u] = roles[u]
                              \/ clerks'[c].at = "sync" /\ clerks'[c].u = u
    PROVE  CognitoFollowsRole'
  <1> SUFFICES ASSUME NEW u \in Persons \ (astray' \union unsynced'),
                      \A e \in Clerks : clerks'[e].at = "sync" => clerks'[e].u # u
               PROVE  cognito'[u] = roles'[u]
    BY DEF CognitoFollowsRole
  <1>1. roles'[u] = roles[u] OBVIOUS
  <1>2. \A e \in Clerks : clerks[e].at = "sync" => clerks[e].u # u OBVIOUS
  <1>3. QED BY <1>1, <1>2 DEF MembershipInv, CognitoFollowsRole

LEMMA OnlyAsks ==
    ASSUME MembershipInv, NEW c \in Clerks, NEW q \in ClerkShapes, clerks[c].at # "sync",
           To(c, q), AboutMember(q), OnlyAsked
    PROVE  MembershipInv'
  <1>1. UNCHANGED <<roles, cognito, founded, members, wallets, cognitoErrors, unsynced, astray>>
    BY DEF OnlyAsked
  <1>2. AboutMember(q)' BY <1>1 DEF AboutMember
  <1>3. /\ clerks' \in [Clerks -> ClerkShapes]
        /\ \A e \in Clerks : clerks'[e] = IF e = c THEN q ELSE clerks[e]
        /\ \A e \in Clerks : AboutMember(clerks[e])'
    BY <1>1, <1>2, ClerkTurns
  <1>4. \A u \in Persons \ astray : FitsMembership(u)'
    BY <1>1 DEF MembershipInv, FitsMembership, Rows
  <1>5. CognitoFollowsRole' BY <1>1, <1>3, CognitoStillFollows
  <1>6. QED BY <1>1, <1>3, <1>4, <1>5 DEF MembershipInv, MembershipTyped

LEMMA AsksKeep ==
    ASSUME MembershipInv, NEW c \in Clerks, NEW q \in ClerkShapes, Asks(c, q), AboutMember(q), OnlyAsked
    PROVE  MembershipInv'
  BY OnlyAsks DEF Asks

LEMMA RequestsKeep ==
    ASSUME MembershipInv, NEW c \in Clerks, NEW u \in Persons,
           \/ RequestOrganization(c, u) \/ CancelOrganization(c, u)
           \/ \E role \in StaffRoles : RequestJoin(c, u, role)
           \/ CancelJoin(c, u) \/ LeaveOrganization(c, u)
    PROVE  MembershipInv'
  <1>1. SUFFICES \E q \in ClerkShapes : Asks(c, q) /\ AboutMember(q) /\ OnlyAsked
    BY AsksKeep
  <1>2. ASSUME NEW at \in {"mayFound", "mayCancel", "mayWithdraw", "mayLeave"}
        PROVE  [at |-> at, u |-> u] \in ClerkShapes /\ AboutMember([at |-> at, u |-> u])
    BY DEF ClerkShapes, Lookers, AboutMember
  <1>3. ASSUME NEW role \in StaffRoles
        PROVE  /\ [at |-> "mayJoin", u |-> u, role |-> role] \in ClerkShapes
               /\ AboutMember([at |-> "mayJoin", u |-> u, role |-> role])
    BY DEF ClerkShapes, Joiners, AboutMember
  <1>4. QED
    BY <1>2, <1>3
    DEF RequestOrganization, CancelOrganization, RequestJoin, CancelJoin, LeaveOrganization, AskAsDonor

LEMMA DecisionsKeep ==
    ASSUME MembershipInv, NEW c \in Clerks,
           \/ \E u \in Persons, i \in 1..MaxFounded, how \in {"approveOrg", "rejectOrg"} :
                DecideOrganization(c, u, i, how)
           \/ \E i \in DOMAIN members, how \in {"approveJoin", "rejectJoin", "remove"} :
                DecideMember(c, i, how)
    PROVE  MembershipInv'
  <1>1. CASE \E u \in Persons, i \in 1..MaxFounded, how \in {"approveOrg", "rejectOrg"} :
               DecideOrganization(c, u, i, how)
    <2>1. PICK u \in Persons, i \in 1..MaxFounded, how \in {"approveOrg", "rejectOrg"} :
            DecideOrganization(c, u, i, how)
      BY <1>1
    <2>2. PICK q : q = [at |-> how, u |-> u, i |-> i] OBVIOUS
    <2>3. q \in OrgWriters /\ AboutMember(q)
      BY <2>1, <2>2 DEF OrgWriters, AboutMember, DecideOrganization
    <2>4. QED BY <2>1, <2>2, <2>3, AsksKeep DEF DecideOrganization, ClerkShapes
  <1>2. CASE \E i \in DOMAIN members, how \in {"approveJoin", "rejectJoin", "remove"} :
               DecideMember(c, i, how)
    <2>1. PICK i \in DOMAIN members, how \in {"approveJoin", "rejectJoin", "remove"} :
            DecideMember(c, i, how)
      BY <1>2
    <2>2. PICK q : q = [at |-> how, u |-> members[i].who, i |-> i, role |-> members[i].role]
      OBVIOUS
    <2>3. members[i] \in MemberRows /\ i \in Nat BY DEF MembershipInv, MembershipTyped
    <2>4. q \in Deciders /\ AboutMember(q)
      BY <2>1, <2>2, <2>3 DEF Deciders, MemberRows, AboutMember, DecideMember
    <2>5. QED BY <2>1, <2>2, <2>4, AsksKeep DEF DecideMember, ClerkShapes
  <1>3. QED BY <1>1, <1>2

LEMMA SecondLookKeeps ==
    ASSUME MembershipInv, NEW c \in Clerks, SecondLook(c)
    PROVE  MembershipInv'
  <1>1. PICK q \in ClerkShapes : q = clerks[c] BY DEF MembershipInv, MembershipTyped
  <1>2. OnlyAsked /\ q.at \in {"mayFound", "mayCancel", "mayJoin", "mayWithdraw", "mayLeave"}
    BY <1>1 DEF SecondLook
  <1>3. q.u \in Persons BY <1>2, ClerkOf DEF Lookers, Joiners
  <1>4. founded[q.u] \in Seq(OrgStatuses) /\ members \in Seq(MemberRows)
    BY <1>3 DEF MembershipInv, MembershipTyped
  <1>5. SUFFICES \E r \in ClerkShapes : To(c, r) /\ AboutMember(r)
    BY <1>1, <1>2, OnlyAsks
  <1>6. Free \in ClerkShapes /\ AboutMember(Free) BY FreeShape DEF AboutMember
  <1>7. SUFFICES ASSUME ~Frees(c) PROVE \E r \in ClerkShapes : To(c, r) /\ AboutMember(r)
    BY <1>6 DEF Frees
  <1>8. CASE q.at = "mayFound"
    <2>1. PICK r : r = [q EXCEPT !.at = "found"] OBVIOUS
    <2>2. r \in Lookers /\ r.at = "found" BY <1>8, <2>1, ClerkOf DEF Lookers
    <2>3. To(c, r) BY <1>1, <1>7, <1>8, <2>1 DEF SecondLook
    <2>4. QED BY <2>2, <2>3 DEF ClerkShapes, AboutMember
  <1>9. CASE q.at = "mayCancel"
    <2>1. PICK r : r = [at |-> "cancel", u |-> q.u, i |-> LastFounded(q.u)] OBVIOUS
    <2>2. To(c, r) /\ LastStatus(q.u) # "NONE" BY <1>1, <1>7, <1>9, <2>1 DEF SecondLook
    <2>3. Len(founded[q.u]) \in DOMAIN founded[q.u] /\ Len(founded[q.u]) \in Nat
      BY <1>4, <2>2 DEF LastStatus
    <2>4. r \in OrgWriters /\ AboutMember(r)
      BY <1>3, <2>1, <2>3 DEF OrgWriters, AboutMember, LastFounded
    <2>5. QED BY <2>2, <2>4 DEF ClerkShapes
  <1>10. CASE q.at = "mayJoin"
    <2>1. PICK r : r = [q EXCEPT !.at = "join"] OBVIOUS
    <2>2. r \in Joiners /\ r.at = "join" BY <1>10, <2>1, ClerkOf DEF Joiners
    <2>3. To(c, r) BY <1>1, <1>7, <1>10, <2>1 DEF SecondLook
    <2>4. QED BY <2>2, <2>3 DEF ClerkShapes, AboutMember
  <1>11. CASE q.at \in {"mayWithdraw", "mayLeave"}
    <2>1. PICK i \in DOMAIN members, at \in {"withdraw", "leave"} :
            members[i].who = q.u /\ To(c, [at |-> at, u |-> q.u, i |-> i])
      BY <1>1, <1>7, <1>11 DEF SecondLook, Rows
    <2>2. PICK r : r = [at |-> at, u |-> q.u, i |-> i] OBVIOUS
    <2>3. i \in Nat BY <1>4
    <2>4. r \in Leavers /\ AboutMember(r) BY <1>3, <2>1, <2>2, <2>3 DEF Leavers, AboutMember
    <2>5. QED BY <2>1, <2>2, <2>4 DEF ClerkShapes
  <1>12. QED BY <1>2, <1>8, <1>9, <1>10, <1>11

\* One entry of founded[u] changes, or is added.
LEMMA FoundedChanges ==
    ASSUME MembershipInv, NEW u \in Persons, NEW i \in DOMAIN founded[u], NEW s \in OrgStatuses,
           founded' = [founded EXCEPT ![u][i] = s]
    PROVE  /\ founded' \in [Persons -> Seq(OrgStatuses)]
           /\ \A v \in Persons \ {u} : founded'[v] = founded[v]
           /\ DOMAIN founded'[u] = DOMAIN founded[u]
           /\ \A j \in DOMAIN founded[u] : founded'[u][j] = IF j = i THEN s ELSE founded[u][j]
  <1>1. founded \in [Persons -> Seq(OrgStatuses)] BY DEF MembershipInv, MembershipTyped
  <1>2. PICK new : new = [founded[u] EXCEPT ![i] = s] OBVIOUS
  <1>3. /\ new \in Seq(OrgStatuses) /\ DOMAIN new = DOMAIN founded[u]
        /\ \A j \in DOMAIN founded[u] : new[j] = IF j = i THEN s ELSE founded[u][j]
    BY <1>1, <1>2
  <1>4. founded' = [founded EXCEPT ![u] = new] BY <1>2
  <1>5. QED BY <1>1, <1>3, <1>4

LEMMA MembersGrow ==
    ASSUME MembershipInv, NEW row \in MemberRows, members' = Append(members, row)
    PROVE  /\ members' \in Seq(MemberRows) /\ DOMAIN members \subseteq DOMAIN members'
           /\ \A i \in DOMAIN members : members'[i] = members[i]
           /\ \A u \in Persons : Rows(u, {"VERIFIED"})' =
                Rows(u, {"VERIFIED"}) \union
                  {i \in {Len(members) + 1} : row.who = u /\ row.status = "VERIFIED"}
  <1> DEFINE n == Len(members)
  <1>1. members \in Seq(MemberRows) BY DEF MembershipInv, MembershipTyped
  <1>2. /\ members' \in Seq(MemberRows) /\ DOMAIN members = 1..n /\ n \in Nat
        /\ DOMAIN members' = 1..(n + 1)
        /\ \A i \in 1..n : members'[i] = members[i]
        /\ members'[n + 1] = row
    BY <1>1
  <1>3. 1..n \subseteq 1..(n + 1) /\ \A i \in 1..(n + 1) : i \in 1..n \/ i = n + 1 BY <1>2
  <1>4. n + 1 \in 1..(n + 1) BY <1>2
  <1>5. ASSUME NEW u \in Persons
        PROVE  Rows(u, {"VERIFIED"})' = Rows(u, {"VERIFIED"}) \union
                 {i \in {n + 1} : row.who = u /\ row.status = "VERIFIED"}
    BY <1>2, <1>3, <1>4 DEF Rows
  <1>6. QED BY <1>2, <1>3, <1>5

LEMMA FoundKeeps ==
    ASSUME MembershipInv, NEW c \in Clerks, Found(c)
    PROVE  MembershipInv'
  <1>1. PICK u : u = clerks[c].u OBVIOUS
  <1>2. u \in Persons /\ clerks[c].at = "found"
    BY <1>1, ClerkOf DEF Found, MembershipInv, MembershipTyped, Lookers
  <1>3. /\ founded' = [founded EXCEPT ![u] = Append(@, "PENDING")]
        /\ Strays(u, roles[u] # "DONOR" \/ \E i \in DOMAIN founded[u] : founded[u][i] \in Live)
        /\ To(c, Free)
        /\ UNCHANGED <<roles, cognito, members, wallets, cognitoErrors, unsynced>>
    BY <1>1 DEF Found, Frees
  <1>4. founded \in [Persons -> Seq(OrgStatuses)] BY DEF MembershipInv, MembershipTyped
  <1>5. PICK new : new = Append(founded[u], "PENDING") OBVIOUS
  <1>6. /\ new \in Seq(OrgStatuses) /\ DOMAIN new = 1..(Len(founded[u]) + 1)
        /\ DOMAIN founded[u] = 1..Len(founded[u]) /\ Len(founded[u]) \in Nat
        /\ \A i \in DOMAIN founded[u] : new[i] = founded[u][i]
        /\ new[Len(founded[u]) + 1] = "PENDING"
    BY <1>2, <1>4, <1>5 DEF OrgStatuses
  <1>7. /\ founded' \in [Persons -> Seq(OrgStatuses)] /\ founded'[u] = new
        /\ \A v \in Persons \ {u} : founded'[v] = founded[v]
    BY <1>2, <1>3, <1>4, <1>5, <1>6
  <1>8. DOMAIN founded[u] \subseteq DOMAIN new /\
        \A i \in DOMAIN new : i \in DOMAIN founded[u] \/ i = Len(founded[u]) + 1
    BY <1>6
  <1>9. /\ clerks' \in [Clerks -> ClerkShapes]
        /\ \A e \in Clerks : clerks'[e] = IF e = c THEN Free ELSE clerks[e]
        /\ \A e \in Clerks : AboutMember(clerks[e])'
    <2>1. AboutMember(Free)' BY FreeShape DEF AboutMember
    <2>2. QED BY <1>3, <1>7, <1>8, <2>1, FreeShape, ClerkTurns
  <1>10. astray \subseteq astray' /\ astray' \subseteq Persons
    BY <1>2, <1>3 DEF Strays, MembershipInv, MembershipTyped
  <1>11. ASSUME NEW v \in Persons \ astray' PROVE FitsMembership(v)'
    <2>1. FitsMembership(v) BY <1>10 DEF MembershipInv
    <2>2. CASE v # u
      BY <1>3, <1>7, <2>1, <2>2, StillFits DEF Rows
    <2>3. CASE v = u
      <3>1. roles[u] = "DONOR" /\ ~\E i \in DOMAIN founded[u] : founded[u][i] \in Live
        BY <1>3, <1>11, <2>3 DEF Strays
      <3>2. \A i \in DOMAIN new : new[i] \in Live => i = Len(founded[u]) + 1 /\ new[i] = "PENDING"
        BY <1>6, <1>8, <3>1
      <3>3. \A i \in DOMAIN new : new[i] # "VERIFIED" BY <3>2 DEF Live
      <3>4. roles' = roles /\ wallets' = wallets /\ members' = members BY <1>3
      <3>5. QED BY <1>7, <2>1, <2>3, <3>1, <3>2, <3>3, <3>4 DEF FitsMembership, Rows
    <2>4. QED BY <2>2, <2>3
  <1>12. CognitoFollowsRole' BY <1>2, <1>3, <1>9, <1>10, CognitoStillFollows
  <1>13. MembershipTyped' BY <1>3, <1>7, <1>9, <1>10 DEF MembershipInv, MembershipTyped
  <1>14. QED BY <1>9, <1>11, <1>12, <1>13 DEF MembershipInv

LEMMA CloseKeeps ==
    ASSUME MembershipInv, NEW c \in Clerks, CloseOrganization(c)
    PROVE  MembershipInv'
  <1>1. PICK q \in ClerkShapes : q = clerks[c] BY DEF MembershipInv, MembershipTyped
  <1>2. q.at \in {"rejectOrg", "cancel"} BY <1>1 DEF CloseOrganization
  <1>3. q.u \in Persons BY <1>2, ClerkOf DEF OrgWriters
  <1>4. q.i \in DOMAIN founded[q.u] BY <1>1, <1>2 DEF MembershipInv, AboutMember
  <1>5. PICK s \in {"CANCELLED", "REJECTED"} : founded' = [founded EXCEPT ![q.u][q.i] = s]
    BY <1>1 DEF CloseOrganization
  <1>6. /\ Strays(q.u, founded[q.u][q.i] \notin {"PENDING", "REJECTED"}) /\ To(c, Free)
        /\ UNCHANGED <<roles, cognito, members, wallets, cognitoErrors, unsynced>>
    BY <1>1 DEF CloseOrganization, Frees
  <1>7. /\ founded' \in [Persons -> Seq(OrgStatuses)]
        /\ \A v \in Persons \ {q.u} : founded'[v] = founded[v]
        /\ DOMAIN founded'[q.u] = DOMAIN founded[q.u]
        /\ \A j \in DOMAIN founded[q.u] : founded'[q.u][j] = IF j = q.i THEN s ELSE founded[q.u][j]
    BY <1>3, <1>4, <1>5, FoundedChanges DEF OrgStatuses
  <1>8. /\ clerks' \in [Clerks -> ClerkShapes]
        /\ \A e \in Clerks : clerks'[e] = IF e = c THEN Free ELSE clerks[e]
        /\ \A e \in Clerks : AboutMember(clerks[e])'
    <2>1. AboutMember(Free)' BY FreeShape DEF AboutMember
    <2>2. \A u \in Persons : DOMAIN founded[u] \subseteq DOMAIN founded'[u] BY <1>7
    <2>3. QED BY <1>6, <2>1, <2>2, FreeShape, ClerkTurns
  <1>9. astray \subseteq astray' /\ astray' \subseteq Persons
    BY <1>3, <1>6 DEF Strays, MembershipInv, MembershipTyped
  <1>10. ASSUME NEW v \in Persons \ astray' PROVE FitsMembership(v)'
    <2>1. FitsMembership(v) BY <1>9 DEF MembershipInv
    <2>2. CASE v # q.u BY <1>6, <1>7, <2>1, <2>2, StillFits DEF Rows
    <2>3. CASE v = q.u
      <3>1. founded[v][q.i] \in {"PENDING", "REJECTED"} BY <1>6, <1>10, <2>3 DEF Strays
      <3>2. \A j \in DOMAIN founded[v] :
              /\ founded'[v][j] = "VERIFIED" <=> founded[v][j] = "VERIFIED"
              /\ founded'[v][j] \in Live => founded[v][j] \in Live
        BY <1>7, <2>3, <3>1 DEF Live
      <3>3. DOMAIN founded'[v] = DOMAIN founded[v] BY <1>7, <2>3
      <3>4. roles' = roles /\ wallets' = wallets /\ members' = members BY <1>6
      <3>5. QED BY <2>1, <3>2, <3>3, <3>4 DEF FitsMembership, Rows
    <2>4. QED BY <2>2, <2>3
  <1>11. CognitoFollowsRole' BY <1>1, <1>2, <1>6, <1>8, <1>9, CognitoStillFollows
  <1>12. MembershipTyped' BY <1>6, <1>7, <1>8, <1>9 DEF MembershipInv, MembershipTyped
  <1>13. QED BY <1>8, <1>10, <1>11, <1>12 DEF MembershipInv

LEMMA SyncShape ==
    ASSUME NEW u \in Persons, NEW role \in AllRoles
    PROVE  /\ Sync(u, role) \in ClerkShapes /\ AboutMember(Sync(u, role))'
           /\ Sync(u, role).at = "sync" /\ Sync(u, role).u = u
  BY MembershipAssumption DEF Sync, ClerkShapes, Syncers, AboutMember

LEMMA ApproveKeeps ==
    ASSUME MembershipInv, NEW c \in Clerks, ApproveOrganization(c)
    PROVE  MembershipInv'
  <1>1. PICK q \in ClerkShapes : q = clerks[c] BY DEF MembershipInv, MembershipTyped
  <1>2. q.at = "approveOrg" BY <1>1 DEF ApproveOrganization
  <1>3. PICK u \in Persons : u = q.u BY <1>2, ClerkOf DEF OrgWriters
  <1>4. q.i \in DOMAIN founded[u] BY <1>1, <1>2, <1>3 DEF MembershipInv, AboutMember
  <1>5. CASE u \in wallets
    <2>1. To(c, Free) /\ OnlyAsked BY <1>1, <1>3, <1>5 DEF ApproveOrganization, Frees, OnlyAsked
    <2>2. AboutMember(Free) BY FreeShape DEF AboutMember
    <2>3. QED BY <1>1, <1>2, <2>1, <2>2, FreeShape, OnlyAsks
  <1>6. CASE u \notin wallets
    <2>1. PICK row : row = [who |-> u, role |-> "FUNDRAISER", status |-> "VERIFIED"] OBVIOUS
    <2>2. row \in MemberRows /\ row.who = u /\ row.status = "VERIFIED" /\ row.role = "FUNDRAISER"
      BY <2>1 DEF MemberRows, AllRoles
    <2>3. /\ founded' = [founded EXCEPT ![u][q.i] = "VERIFIED"]
          /\ roles' = [roles EXCEPT ![u] = "FUNDRAISER"]
          /\ members' = Append(members, row)
          /\ wallets' = wallets \union {u}
          /\ Strays(u, founded[u][q.i] # "PENDING" \/ roles[u] # "DONOR")
          /\ To(c, Sync(u, "FUNDRAISER"))
          /\ UNCHANGED <<cognito, cognitoErrors, unsynced>>
      BY <1>1, <1>3, <1>6, <2>1 DEF ApproveOrganization
    <2>4. /\ founded' \in [Persons -> Seq(OrgStatuses)]
          /\ \A v \in Persons \ {u} : founded'[v] = founded[v]
          /\ DOMAIN founded'[u] = DOMAIN founded[u]
          /\ \A j \in DOMAIN founded[u] :
               founded'[u][j] = IF j = q.i THEN "VERIFIED" ELSE founded[u][j]
      BY <1>4, <2>3, FoundedChanges DEF OrgStatuses
    <2>5. /\ members' \in Seq(MemberRows) /\ DOMAIN members \subseteq DOMAIN members'
          /\ \A i \in DOMAIN members : members'[i] = members[i]
          /\ \A v \in Persons : Rows(v, {"VERIFIED"})' =
               Rows(v, {"VERIFIED"}) \union
                 {i \in {Len(members) + 1} : row.who = v /\ row.status = "VERIFIED"}
      BY <2>2, <2>3, MembersGrow
    <2>6. members'[Len(members) + 1] = row
      BY <2>2, <2>3 DEF MembershipInv, MembershipTyped
    <2>7. /\ roles' \in [Persons -> AllRoles] /\ roles'[u] = "FUNDRAISER"
          /\ \A v \in Persons \ {u} : roles'[v] = roles[v]
      BY <2>3 DEF MembershipInv, MembershipTyped, AllRoles
    <2>8. /\ clerks' \in [Clerks -> ClerkShapes]
          /\ \A e \in Clerks : clerks'[e] = IF e = c THEN Sync(u, "FUNDRAISER") ELSE clerks[e]
          /\ \A e \in Clerks : AboutMember(clerks[e])'
      <3>1. PICK r : r = Sync(u, "FUNDRAISER") OBVIOUS
      <3>2. Sync(u, "FUNDRAISER") \in ClerkShapes /\ AboutMember(r)'
            /\ r.at = "sync"
        <4>1. "FUNDRAISER" \in AllRoles BY DEF AllRoles
        <4>2. Sync(u, "FUNDRAISER") \in ClerkShapes /\ r.at = "sync"
          BY <3>1, <4>1, SyncShape
        <4>3. QED BY <4>2 DEF AboutMember
      <3>3. \A v \in Persons : DOMAIN founded[v] \subseteq DOMAIN founded'[v] BY <2>4
      <3>4. QED BY <2>3, <2>5, <3>1, <3>2, <3>3, ClerkTurns
    <2>9. astray \subseteq astray' /\ astray' \subseteq Persons
      BY <2>3 DEF Strays, MembershipInv, MembershipTyped
    <2>10. ASSUME NEW v \in Persons \ astray' PROVE FitsMembership(v)'
      <3>1. FitsMembership(v) BY <2>9 DEF MembershipInv
      <3>2. CASE v # u
        <4>1. Rows(v, {"VERIFIED"})' = Rows(v, {"VERIFIED"}) BY <2>2, <2>5, <3>2
        <4>2. \A i \in Rows(v, {"VERIFIED"}) : members'[i].role = members[i].role
          BY <2>5 DEF Rows
        <4>3. QED BY <2>3, <2>4, <2>7, <3>1, <3>2, <4>1, <4>2, StillFits
      <3>3. CASE v = u
        <4>1. founded[v][q.i] = "PENDING" /\ roles[v] = "DONOR" BY <2>3, <2>10, <3>3 DEF Strays
        <4>2. Rows(v, {"VERIFIED"}) = {} BY <3>1, <4>1 DEF FitsMembership
        <4>3. Rows(v, {"VERIFIED"})' = {Len(members) + 1} BY <2>2, <2>5, <3>3, <4>2
        <4>4. \A i \in Rows(v, {"VERIFIED"})' : members'[i].role = "FUNDRAISER"
          BY <2>2, <2>6, <4>3
        <4>5. q.i \in DOMAIN founded'[v] /\ founded'[v][q.i] = "VERIFIED"
          BY <1>4, <2>4, <3>3
        <4>6. \A j \in DOMAIN founded'[v] : founded'[v][j] \in Live => founded[v][j] \in Live
          BY <2>4, <3>3, <4>1 DEF Live
        <4>7. \A i, j \in DOMAIN founded'[v] :
                founded'[v][i] \in Live /\ founded'[v][j] \in Live => i = j
          BY <2>4, <3>1, <3>3, <4>6 DEF FitsMembership
        <4>8. roles'[v] = "FUNDRAISER" /\ v \in wallets' BY <2>3, <2>7, <3>3
        <4>9. QED BY <4>3, <4>4, <4>5, <4>7, <4>8 DEF FitsMembership
      <3>4. QED BY <3>2, <3>3
    <2>11. CognitoFollowsRole'
      <3>1. clerks'[c].at = "sync" /\ clerks'[c].u = u BY <2>8 DEF Sync
      <3>2. QED BY <1>1, <1>2, <2>3, <2>7, <2>8, <2>9, <3>1, CognitoStillFollows
    <2>12. MembershipTyped'
      BY <2>3, <2>4, <2>5, <2>7, <2>8, <2>9 DEF MembershipInv, MembershipTyped
    <2>13. QED BY <2>8, <2>10, <2>11, <2>12 DEF MembershipInv
  <1>7. QED BY <1>5, <1>6

LEMMA JoinKeeps ==
    ASSUME MembershipInv, NEW c \in Clerks, Join(c)
    PROVE  MembershipInv'
  <1>1. PICK q \in ClerkShapes : q = clerks[c] BY DEF MembershipInv, MembershipTyped
  <1>2. q \in Joiners /\ q.at = "join" BY <1>1, ClerkOf DEF Join
  <1>3. PICK row : row = [who |-> q.u, role |-> q.role, status |-> "PENDING"] OBVIOUS
  <1>4. StaffRoles \subseteq AllRoles \ {"DONOR"}
    BY MembershipAssumption DEF AllRoles
  <1>5. row \in MemberRows /\ row.status = "PENDING" /\ q.u \in Persons
    BY <1>2, <1>3, <1>4 DEF MemberRows, Joiners
  <1>6. /\ members' = Append(members, row)
        /\ Strays(q.u, roles[q.u] # "DONOR" \/ Rows(q.u, Live) # {}) /\ To(c, Free)
        /\ UNCHANGED <<roles, cognito, founded, wallets, cognitoErrors, unsynced>>
    BY <1>1, <1>3 DEF Join, Frees
  <1>7. /\ members' \in Seq(MemberRows) /\ DOMAIN members \subseteq DOMAIN members'
        /\ \A i \in DOMAIN members : members'[i] = members[i]
        /\ \A u \in Persons : Rows(u, {"VERIFIED"})' = Rows(u, {"VERIFIED"})
    BY <1>5, <1>6, MembersGrow
  <1>8. /\ clerks' \in [Clerks -> ClerkShapes]
        /\ \A e \in Clerks : clerks'[e] = IF e = c THEN Free ELSE clerks[e]
        /\ \A e \in Clerks : AboutMember(clerks[e])'
    <2>1. AboutMember(Free)' BY FreeShape DEF AboutMember
    <2>2. QED BY <1>6, <1>7, <2>1, FreeShape, ClerkTurns
  <1>9. astray \subseteq astray' /\ astray' \subseteq Persons
    BY <1>5, <1>6 DEF Strays, MembershipInv, MembershipTyped
  <1>10. ASSUME NEW v \in Persons \ astray' PROVE FitsMembership(v)'
    <2>1. FitsMembership(v) BY <1>9 DEF MembershipInv
    <2>2. \A i \in Rows(v, {"VERIFIED"}) : members'[i].role = members[i].role
      BY <1>7 DEF Rows
    <2>3. QED BY <1>6, <1>7, <2>1, <2>2, StillFits
  <1>11. CognitoFollowsRole' BY <1>1, <1>2, <1>6, <1>8, <1>9, CognitoStillFollows
  <1>12. MembershipTyped' BY <1>6, <1>7, <1>8, <1>9 DEF MembershipInv, MembershipTyped
  <1>13. QED BY <1>8, <1>10, <1>11, <1>12 DEF MembershipInv

LEMMA WriteMemberKeeps ==
    ASSUME MembershipInv, NEW c \in Clerks, WriteMember(c)
    PROVE  MembershipInv'
  <1>1. PICK q \in ClerkShapes : q = clerks[c] BY DEF MembershipInv, MembershipTyped
  <1>2. q.at \in {"approveJoin", "rejectJoin", "withdraw", "leave", "remove"}
    BY <1>1 DEF WriteMember
  <1>3. PICK u \in Persons : u = q.u BY <1>2, ClerkOf DEF Leavers, Deciders
  <1>4. q.i \in DOMAIN members /\ members[q.i].who = u
    BY <1>1, <1>2, <1>3 DEF MembershipInv, AboutMember
  <1>5. members \in Seq(MemberRows) /\ roles \in [Persons -> AllRoles]
    BY DEF MembershipInv, MembershipTyped
  <1>6. CASE members[q.i].status = "GONE"
    <2>1. To(c, Free) /\ OnlyAsked BY <1>1, <1>6 DEF WriteMember, Frees, OnlyAsked
    <2>2. AboutMember(Free) BY FreeShape DEF AboutMember
    <2>3. QED BY <1>1, <1>2, <2>1, <2>2, FreeShape, OnlyAsks
  <1>7. CASE members[q.i].status # "GONE"
    <2>1. PICK s : s = StatusAfter(q.at) OBVIOUS
    <2>2. PICK role : role = RoleAfter(q.at, q, roles[u]) OBVIOUS
    <2>3. PICK r : r = IF q.at \in Synced THEN Sync(u, role) ELSE Free OBVIOUS
    <2>4. /\ members' = [members EXCEPT ![q.i].status = s]
          /\ roles' = [roles EXCEPT ![u] = role]
          /\ Strays(u, \/ members[q.i].status
                            # (IF q.at \in {"leave", "remove"} THEN "VERIFIED" ELSE "PENDING")
                       \/ q.at = "approveJoin" /\ roles[u] # "DONOR"
                       \/ q.at = "leave" /\ roles[u] \notin StaffRoles)
          /\ To(c, r)
          /\ UNCHANGED <<cognito, founded, wallets, cognitoErrors, unsynced>>
      BY <1>1, <1>3, <1>7, <2>1, <2>2, <2>3 DEF WriteMember, Frees
    <2>5. /\ s \in {"VERIFIED", "REJECTED", "GONE"}
          /\ s = "VERIFIED" <=> q.at = "approveJoin"
      BY <1>2, <2>1 DEF StatusAfter
    <2>6. q.at \in {"approveJoin", "rejectJoin", "remove"} =>
            /\ members[q.i].role = q.role /\ q.role \in AllRoles \ {"DONOR", "FUNDRAISER"}
      BY <1>1, ClerkOf DEF MembershipInv, AboutMember, Deciders
    <2>7. /\ role \in AllRoles
          /\ q.at = "approveJoin" => role = q.role
          /\ q.at \in {"leave", "remove"} => role = "DONOR"
          /\ q.at \in {"rejectJoin", "withdraw"} => role = roles[u]
      BY <1>2, <1>5, <2>2, <2>6 DEF RoleAfter, AllRoles
    <2>8. /\ members' \in Seq(MemberRows) /\ DOMAIN members' = DOMAIN members
          /\ \A i \in DOMAIN members :
               /\ members'[i].who = members[i].who /\ members'[i].role = members[i].role
               /\ members'[i].status = IF i = q.i THEN s ELSE members[i].status
      <3>1. PICK row : row = [members[q.i] EXCEPT !.status = s] OBVIOUS
      <3>2. members[q.i] \in MemberRows BY <1>4, <1>5
      <3>3. /\ row \in MemberRows /\ row.who = members[q.i].who /\ row.role = members[q.i].role
            /\ row.status = s
        BY <2>5, <3>1, <3>2 DEF MemberRows
      <3>4. members' = [members EXCEPT ![q.i] = row] BY <2>4, <3>1
      <3>5. members' \in Seq(MemberRows) /\ DOMAIN members' = DOMAIN members
        BY <1>4, <1>5, <3>3, <3>4
      <3>6. \A i \in DOMAIN members : members'[i] = IF i = q.i THEN row ELSE members[i]
        BY <3>4
      <3>7. QED BY <3>3, <3>5, <3>6
    <2>9. /\ roles' \in [Persons -> AllRoles] /\ roles'[u] = role
          /\ \A v \in Persons \ {u} : roles'[v] = roles[v]
      BY <1>5, <2>4, <2>7
    <2>10. r \in ClerkShapes /\ (q.at \in Synced => r.at = "sync" /\ r.u = u)
           /\ (q.at \notin Synced => r = Free)
      BY <2>3, <2>7, SyncShape, FreeShape
    <2>11. r.at \in {"sync", "idle"} BY <2>10, FreeShape
    <2>12. /\ clerks' \in [Clerks -> ClerkShapes]
           /\ \A e \in Clerks : clerks'[e] = IF e = c THEN r ELSE clerks[e]
           /\ \A e \in Clerks : AboutMember(clerks[e])'
      <3>1. AboutMember(r)' BY <2>11 DEF AboutMember
      <3>2. QED BY <2>4, <2>8, <2>10, <3>1, ClerkTurns
    <2>13. astray \subseteq astray' /\ astray' \subseteq Persons
      BY <2>4 DEF Strays, MembershipInv, MembershipTyped
    <2>14. ASSUME NEW v \in Persons \ astray' PROVE FitsMembership(v)'
      <3>1. FitsMembership(v) BY <2>13 DEF MembershipInv
      <3>2. CASE v # u
        <4>1. Rows(v, {"VERIFIED"})' = Rows(v, {"VERIFIED"}) BY <1>4, <2>8, <3>2 DEF Rows
        <4>2. \A i \in Rows(v, {"VERIFIED"}) : members'[i].role = members[i].role
          BY <2>8 DEF Rows
        <4>3. QED BY <2>4, <2>9, <3>1, <3>2, <4>1, <4>2, StillFits
      <3>3. CASE v = u
        <4>1. /\ members[q.i].status = IF q.at \in {"leave", "remove"} THEN "VERIFIED" ELSE "PENDING"
              /\ q.at = "approveJoin" => roles[u] = "DONOR"
              /\ q.at = "leave" => roles[u] \in StaffRoles
          BY <2>4, <2>14, <3>3 DEF Strays
        <4>2. founded' = founded /\ wallets' = wallets BY <2>4
        <4>3. CASE q.at \in {"rejectJoin", "withdraw"}
          <5>1. Rows(v, {"VERIFIED"})' = Rows(v, {"VERIFIED"})
            BY <2>5, <2>8, <4>1, <4>3 DEF Rows
          <5>2. \A i \in Rows(v, {"VERIFIED"}) : members'[i].role = members[i].role
            BY <2>8 DEF Rows
          <5>3. roles'[v] = roles[v] BY <2>7, <2>9, <3>3, <4>3
          <5>4. QED BY <3>1, <4>2, <5>1, <5>2, <5>3, StillFits
        <4>4. CASE q.at = "approveJoin"
          <5>1. Rows(v, {"VERIFIED"}) = {} BY <3>1, <3>3, <4>1, <4>4 DEF FitsMembership
          <5>2. Rows(v, {"VERIFIED"})' = {q.i}
            BY <1>4, <2>5, <2>8, <3>3, <4>4, <5>1 DEF Rows
          <5>3. roles'[v] = q.role /\ members'[q.i].role = q.role
                /\ roles'[v] \notin {"DONOR", "FUNDRAISER"}
            BY <1>4, <2>6, <2>7, <2>8, <2>9, <3>3, <4>4
          <5>4. roles[v] = "DONOR" BY <3>3, <4>1, <4>4
          <5>5. QED BY <3>1, <4>2, <5>2, <5>3, <5>4 DEF FitsMembership
        <4>5. CASE q.at \in {"leave", "remove"}
          <5>1. q.i \in Rows(v, {"VERIFIED"}) BY <1>4, <3>3, <4>1, <4>5 DEF Rows
          <5>2. Rows(v, {"VERIFIED"})' = {}
            <6>1. \A i \in Rows(v, {"VERIFIED"}) : i = q.i BY <3>1, <5>1 DEF FitsMembership
            <6>2. s # "VERIFIED" BY <2>5, <4>5
            <6>3. QED BY <2>8, <6>1, <6>2 DEF Rows
          <5>3. roles[v] # "FUNDRAISER"
            <6>1. roles[v] = members[q.i].role BY <3>1, <5>1 DEF FitsMembership
            <6>2. "FUNDRAISER" \notin StaffRoles BY MembershipAssumption
            <6>3. QED BY <2>6, <3>3, <4>1, <4>5, <6>1, <6>2
          <5>4. roles'[v] = "DONOR" BY <2>7, <2>9, <3>3, <4>5
          <5>5. QED BY <3>1, <4>2, <5>2, <5>3, <5>4 DEF FitsMembership
        <4>6. QED BY <1>2, <4>3, <4>4, <4>5
      <3>4. QED BY <3>2, <3>3
    <2>15. CognitoFollowsRole'
      <3>1. q.at \in Synced \/ roles'[u] = roles[u] BY <1>2, <2>7, <2>9 DEF Synced
      <3>2. clerks'[c] = r BY <2>12
      <3>3. \A v \in Persons : roles'[v] = roles[v] \/ (clerks'[c].at = "sync" /\ clerks'[c].u = v)
        BY <2>9, <2>10, <3>1, <3>2
      <3>4. QED BY <1>1, <1>2, <2>4, <2>12, <2>13, <3>3, CognitoStillFollows
    <2>16. MembershipTyped'
      BY <2>4, <2>8, <2>9, <2>12, <2>13 DEF MembershipInv, MembershipTyped
    <2>17. QED BY <2>12, <2>14, <2>15, <2>16 DEF MembershipInv
  <1>8. QED BY <1>6, <1>7

LEMMA SyncRoleKeeps ==
    ASSUME MembershipInv, NEW c \in Clerks, SyncRole(c)
    PROVE  MembershipInv'
  <1>1. PICK q \in ClerkShapes : q = clerks[c] BY DEF MembershipInv, MembershipTyped
  <1>2. q \in Syncers /\ q.at = "sync" BY <1>1, ClerkOf DEF SyncRole
  <1>3. PICK u \in Persons : u = q.u BY <1>2 DEF Syncers
  <1>4. UNCHANGED <<roles, founded, members, wallets>> BY DEF SyncRole
  <1>5. PICK r : r = IF q.tries > 1 THEN [q EXCEPT !.tries = @ - 1] ELSE Free OBVIOUS
  <1>6. /\ r \in ClerkShapes /\ r.at \in {"sync", "idle"}
        /\ q.tries > 1 => r.at = "sync" /\ r.u = u
    <2>1. CASE q.tries > 1
      <3>1. q.tries \in 1..SyncTries /\ q.tries - 1 \in 1..SyncTries
        BY <1>2, <2>1, MembershipAssumption DEF Syncers
      <3>2. PICK k : k = q.tries - 1 OBVIOUS
      <3>3. r = [q EXCEPT !.tries = k] BY <1>5, <2>1, <3>2
      <3>4. r \in Syncers /\ r.at = "sync" /\ r.u = u BY <1>2, <1>3, <3>1, <3>2, <3>3 DEF Syncers
      <3>5. QED BY <3>4 DEF ClerkShapes
    <2>2. CASE ~(q.tries > 1) BY <1>5, <2>2, FreeShape
    <2>3. QED BY <2>1, <2>2
  <1>7. \/ /\ cognito' = [cognito EXCEPT ![u] = q.role] /\ unsynced' = unsynced \ {u}
           /\ Strays(u, roles[u] # q.role) /\ To(c, Free) /\ UNCHANGED cognitoErrors
        \/ /\ cognitoErrors > 0 /\ cognitoErrors' = cognitoErrors - 1 /\ To(c, r)
           /\ IF q.tries > 1 THEN UNCHANGED unsynced ELSE unsynced' = unsynced \union {u}
           /\ UNCHANGED <<cognito, astray>>
    BY <1>1, <1>3, <1>5 DEF SyncRole, Frees
  <1>8. astray \subseteq astray' /\ astray' \subseteq Persons /\ unsynced' \subseteq Persons
    BY <1>7 DEF Strays, MembershipInv, MembershipTyped
  <1>9. PICK t \in {r, Free} : To(c, t) BY <1>7
  <1>10. /\ clerks' \in [Clerks -> ClerkShapes]
         /\ \A e \in Clerks : clerks'[e] = IF e = c THEN t ELSE clerks[e]
         /\ \A e \in Clerks : AboutMember(clerks[e])'
    <2>1. t \in ClerkShapes /\ t.at \in {"sync", "idle"} BY <1>6, <1>9, FreeShape
    <2>2. AboutMember(t)' BY <2>1 DEF AboutMember
    <2>3. QED BY <1>4, <1>9, <2>1, <2>2, ClerkTurns
  <1>11. cognito' \in [Persons -> AllRoles] /\ cognitoErrors' \in Nat
    <2>1. q.role \in AllRoles BY <1>2 DEF Syncers
    <2>2. cognito \in [Persons -> AllRoles] /\ cognitoErrors \in Nat
      BY DEF MembershipInv, MembershipTyped
    <2>3. cognito' = [cognito EXCEPT ![u] = q.role] \/ cognito' = cognito BY <1>7
    <2>4. cognitoErrors' = cognitoErrors
          \/ (cognitoErrors > 0 /\ cognitoErrors' = cognitoErrors - 1)
      BY <1>7
    <2>5. cognito' \in [Persons -> AllRoles] BY <2>1, <2>2, <2>3
    <2>6. cognitoErrors' \in Nat BY <2>2, <2>4
    <2>7. QED BY <2>5, <2>6
  <1>12. MembershipTyped' BY <1>4, <1>8, <1>10, <1>11 DEF MembershipInv, MembershipTyped
  <1>13. \A v \in Persons \ astray' : FitsMembership(v)'
    BY <1>4, <1>8 DEF MembershipInv, FitsMembership, Rows
  <1>14. ASSUME NEW v \in Persons \ (astray' \union unsynced'),
                \A e \in Clerks : clerks'[e].at = "sync" => clerks'[e].u # v
         PROVE  cognito'[v] = roles'[v]
    <2>1. cognito \in [Persons -> AllRoles] BY DEF MembershipInv, MembershipTyped
    <2>2. CASE v # u
      <3>1. \A e \in Clerks : clerks[e].at = "sync" => clerks[e].u # v
        BY <1>1, <1>3, <1>10, <1>14, <2>2
      <3>2. v \notin astray \union unsynced BY <1>7, <1>8, <2>2
      <3>3. cognito[v] = roles[v] BY <3>1, <3>2 DEF MembershipInv, CognitoFollowsRole
      <3>4. cognito'[v] = cognito[v] BY <1>7, <2>1, <2>2
      <3>5. QED BY <1>4, <3>3, <3>4
    <2>3. CASE v = u
      <3>1. CASE cognito' = [cognito EXCEPT ![u] = q.role] /\ Strays(u, roles[u] # q.role)
        BY <1>4, <1>14, <2>1, <2>3, <3>1 DEF Strays
      <3>2. CASE /\ To(c, r) /\ UNCHANGED <<cognito, astray>>
                 /\ IF q.tries > 1 THEN UNCHANGED unsynced ELSE unsynced' = unsynced \union {u}
        <4>1. q.tries > 1 BY <1>14, <2>3, <3>2
        <4>2. clerks'[c] = r BY <3>2 DEF To, MembershipInv, MembershipTyped
        <4>3. QED BY <1>6, <1>14, <2>3, <4>1, <4>2
      <3>3. QED BY <1>7, <3>1, <3>2
    <2>4. QED BY <2>2, <2>3
  <1>15. CognitoFollowsRole' BY <1>14 DEF CognitoFollowsRole
  <1>16. QED BY <1>10, <1>12, <1>13, <1>15 DEF MembershipInv

LEMMA MembershipNext_Inv == MembershipInv /\ [MembershipNext]_membershipVars => MembershipInv'
  <1> SUFFICES ASSUME MembershipInv, [MembershipNext]_membershipVars PROVE MembershipInv'
    OBVIOUS
  <1>1. CASE UNCHANGED membershipVars
    <2>1. MembershipTyped' BY <1>1 DEF membershipVars, MembershipInv, MembershipTyped
    <2>2. \A c \in Clerks : AboutMember(clerks[c])'
      BY <1>1 DEF membershipVars, MembershipInv, AboutMember
    <2>3. \A u \in Persons \ astray' : FitsMembership(u)'
      BY <1>1 DEF membershipVars, MembershipInv, FitsMembership, Rows
    <2>4. CognitoFollowsRole' BY <1>1 DEF membershipVars, MembershipInv, CognitoFollowsRole
    <2>5. QED BY <2>1, <2>2, <2>3, <2>4 DEF MembershipInv
  <1>2. CASE MembershipNext
    <2>1. PICK c \in Clerks :
            \/ \E u \in Persons :
                 \/ RequestOrganization(c, u) \/ CancelOrganization(c, u)
                 \/ \E role \in StaffRoles : RequestJoin(c, u, role)
                 \/ CancelJoin(c, u) \/ LeaveOrganization(c, u)
            \/ \E u \in Persons, i \in 1..MaxFounded, how \in {"approveOrg", "rejectOrg"} :
                 DecideOrganization(c, u, i, how)
            \/ \E i \in DOMAIN members, how \in {"approveJoin", "rejectJoin", "remove"} :
                 DecideMember(c, i, how)
            \/ SecondLook(c) \/ Found(c) \/ ApproveOrganization(c) \/ CloseOrganization(c)
            \/ Join(c) \/ WriteMember(c) \/ SyncRole(c)
      BY <1>2 DEF MembershipNext
    <2>2. QED
      BY <2>1, RequestsKeep, DecisionsKeep, SecondLookKeeps, FoundKeeps, ApproveKeeps, CloseKeeps,
         JoinKeeps, WriteMemberKeeps, SyncRoleKeeps
  <1>3. QED BY <1>1, <1>2

\* The role of every person is the one of the person's single membership, and owners of
\* verified organizations are the fundraisers with a wallet, with any number of persons
\* and requests (organization.service, its repository), but for those whom requests
\* crossed.
THEOREM RolesMatch == MembershipSpec => []RoleMatchesMembership
  <1>1. MembershipInv => RoleMatchesMembership
    <2> SUFFICES ASSUME MembershipInv, NEW u \in Persons \ astray
                 PROVE  /\ FitsMembership(u) /\ Cardinality(Rows(u, {"VERIFIED"})) <= 1
      BY DEF FitsMembership, RoleMatchesMembership
    <2>1. FitsMembership(u) BY DEF MembershipInv
    <2>2. CASE Rows(u, {"VERIFIED"}) = {} BY <2>1, <2>2, FS_EmptySet
    <2>3. CASE Rows(u, {"VERIFIED"}) # {}
      <3>1. PICK i : Rows(u, {"VERIFIED"}) = {i} BY <2>1, <2>3 DEF FitsMembership
      <3>2. QED BY <2>1, <3>1, FS_Singleton
    <2>4. QED BY <2>2, <2>3
  <1>2. QED BY <1>1, MembershipInit_Inv, MembershipNext_Inv, PTL DEF MembershipSpec

\* The tokens carry the role of the database once no write is under way, with any number
\* of attempts that failed (updateCognitoRoleWithRetry), unless all of them did.
THEOREM TokensFollow == MembershipSpec => []CognitoFollowsRole
  <1>1. MembershipInv => CognitoFollowsRole BY DEF MembershipInv
  <1>2. QED BY <1>1, MembershipInit_Inv, MembershipNext_Inv, PTL DEF MembershipSpec

-----------------------------------------------------------------------------
(* Donors.                                                                 *)

ErrandRows == [at: {"idle", "stats", "look", "award"}, gift: Gifts \union {"none"},
               badge: Badges \union {0}, tries: Nat, call: GiftCalls \union {"none"}]
ServiceRows == [at: {"free", "stats", "check", "write", "ok", "refused"},
                gift: Gifts \union {"none"}, badge: Badges \union {0}, found: Badges \union {0}]

DonorsTyped ==
    /\ unsent \subseteq Gifts /\ answered \subseteq Gifts
    /\ given \in [total: Nat, count: Nat]
    /\ badge \in Badges \union {0} /\ offered \subseteq Badges
    /\ errand \in ErrandRows /\ services \in [GiftCalls -> ServiceRows]
    /\ giveUps \in 0..MaxGiveUps /\ byHand \in 0..MaxByHand

AboutErrand ==
    /\ errand.at = "stats" => errand.gift \in Gifts /\ errand.tries # 0
    /\ errand.at = "award" => errand.badge \in Badges
    /\ errand.at \in {"idle", "look"} => errand.call = "none"
    /\ errand.tries <= StatTries + AwardTries

\* A call that is waited for does what the processor asked for.
AboutService(c) ==
    /\ services[c].at = "stats" => services[c].gift \in Gifts
    /\ services[c].at \in {"check", "write"} => services[c].badge \in Badges
    /\ errand.call = c /\ errand.at = "stats" =>
         /\ services[c].at \in {"stats", "ok", "refused"}
         /\ services[c].at = "stats" => services[c].gift = errand.gift
    /\ errand.call = c /\ errand.at = "award" =>
         /\ services[c].at \in {"check", "write", "ok", "refused"}
         /\ services[c].at \in {"check", "write"} => services[c].badge = errand.badge

\* What the calls under way will still add, and what attempts to come may add.
DueOf(q) == IF q.at = "stats" THEN Worth[q.gift] ELSE 0
Due == [c \in GiftCalls |-> DueOf(services[c])]
DueTotal == SumFunctionOnSet(Due, GiftCalls)
TriesOf(e) == IF e.at # "stats" THEN 0 ELSE IF e.call = "none" THEN e.tries ELSE e.tries - 1
WorthOf(e) == IF e.at = "stats" THEN Worth[e.gift] ELSE 0
NoneTooOften ==
    given.total + DueTotal + TriesOf(errand) * WorthOf(errand)
      <= StatTries * SumOf(Gifts \ unsent)

GiftIsIn == errand.at = "stats" /\ errand.call # "none" /\ services[errand.call].at = "ok"

NoneForgotten ==
    /\ SumOf(answered) <= given.total
    /\ GiftIsIn => SumOf(answered \union {errand.gift}) <= given.total

\* While no call fails.
CountedOnce == ~Failed =>
    /\ \A c \in GiftCalls : services[c].at = "stats" => errand.call = c
    /\ errand.at = "stats" /\ errand.call # "none" => services[errand.call].at # "refused"
    /\ errand.at = "stats" /\ ~GiftIsIn => given.total + Worth[errand.gift] = SumOf(Gifts \ unsent)
    /\ ~(errand.at = "stats" /\ ~GiftIsIn) => given.total = SumOf(Gifts \ unsent)

\* While no administrator has a hand in it.
HandsOff == byHand = MaxByHand
Earned(b) == Milestones[b] <= given.total
BadgesEarned == HandsOff =>
    /\ badge # 0 => Earned(badge)
    /\ errand.at = "award" => Earned(errand.badge)
    /\ \A c \in GiftCalls : services[c].at \in {"check", "write"} => Earned(services[c].badge)
    /\ offered = Badges

\* While neither.
BadgeInStep == HandsOff /\ ~Failed =>
    /\ \A c \in GiftCalls : services[c].at # "free" => errand.call = c
    /\ errand.at = "idle" /\ given.count > 0 => badge = Highest(given.total)
    /\ errand.at = "award" => errand.badge = Highest(given.total)
    /\ errand.at = "award" /\ errand.call # "none" =>
         /\ services[errand.call].at # "refused"
         /\ services[errand.call].at = "ok" => badge = errand.badge
         /\ services[errand.call].at = "write" => services[errand.call].found = badge

DonorsInv ==
    /\ DonorsTyped /\ AboutErrand /\ \A c \in GiftCalls : AboutService(c)
    /\ NoneTooOften /\ NoneForgotten /\ CountedOnce /\ BadgesEarned /\ BadgeInStep

\* A finite set of naturals has a maximum.
LEMMA LargestOf ==
    ASSUME NEW S, S \subseteq Nat, IsFiniteSet(S), S # {}
    PROVE  Max(S) \in S /\ \A y \in S : Max(S) >= y
  <1> DEFINE From(y) == {x \in S : x >= y}
             B == {From(y) : y \in S}
  <1>1. PICK T \in B : \A U \in B : U \subseteq T => U = T
    <2>1. B \in SUBSET (SUBSET S) OBVIOUS
    <2>2. B # {} OBVIOUS
    <2>3. IsFiniteSet(S) OBVIOUS
    <2> HIDE DEF B
    <2>4. QED BY ONLY <2>1, <2>2, <2>3, SmallestSet
  <1>2. PICK m \in S : T = From(m) BY <1>1
  <1>3. ASSUME NEW y \in S, ~(m >= y) PROVE FALSE
    <2>1. From(y) \in B OBVIOUS
    <2>2. \A x \in S : x >= y => x >= m BY <1>3
    <2>3. From(y) \subseteq T BY <1>2, <2>2
    <2>4. m \in From(m) /\ m \notin From(y) BY <1>3
    <2>5. QED BY <1>1, <1>2, <2>1, <2>3, <2>4
  <1>4. \E x \in S : \A y \in S : x >= y BY <1>3
  <1>5. QED BY <1>4 DEF Max

LEMMA HighestIsEarned ==
    ASSUME NEW total \in Nat
    PROVE  /\ Highest(total) \in Badges /\ Highest(total) # 0 /\ Milestones[Highest(total)] <= total
           /\ \A b \in Badges : Milestones[b] <= total => b <= Highest(total)
  <1>1. Badges = 1..Len(Milestones) /\ Len(Milestones) \in Nat /\ 1 \in Badges
    BY DonorsAssumption DEF Badges
  <1>2. PICK S : S = {b \in Badges : Milestones[b] <= total} OBVIOUS
  <1>3. S \in SUBSET Nat /\ 1 \in S BY <1>1, <1>2, DonorsAssumption
  <1>4. IsFiniteSet(S)
    <2>1. IsFiniteSet(Badges) BY <1>1, FS_Interval
    <2>2. QED BY <1>2, <2>1, FS_Subset
  <1>5. Highest(total) = Max(S) BY <1>2 DEF Highest
  <1>6. Max(S) \in S /\ \A y \in S : Max(S) >= y BY <1>3, <1>4, LargestOf
  <1>7. QED BY <1>1, <1>2, <1>5, <1>6

LEMMA GiftSums ==
    /\ \A T \in SUBSET Gifts : SumOf(T) \in Nat
    /\ \A T \in SUBSET Gifts : \A g \in Gifts \ T : SumOf(T \union {g}) = SumOf(T) + Worth[g]
    /\ \A T \in SUBSET Gifts, g \in Gifts : SumOf(T \union {g}) <= SumOf(T) + Worth[g]
    /\ SumOf({}) = 0
  <1>1. \A g \in Gifts : Worth[g] \in Nat BY DonorsAssumption
  <1>2. ASSUME NEW T \in SUBSET Gifts PROVE IsFiniteSet(T) /\ SumOf(T) \in Nat
    <2>1. IsFiniteSet(T) BY DonorsAssumption, FS_Subset
    <2>2. QED BY <1>1, <2>1, SumType DEF SumOf
  <1>3. ASSUME NEW T \in SUBSET Gifts, NEW g \in Gifts \ T
        PROVE  SumOf(T \union {g}) = SumOf(T) + Worth[g]
    <2>1. SumOf(T \union {g}) = Worth[g] + SumOf(T) BY <1>1, <1>2, SumAdd DEF SumOf
    <2>2. QED BY <1>1, <1>2, <2>1
  <1>4. ASSUME NEW T \in SUBSET Gifts, NEW g \in Gifts
        PROVE  SumOf(T \union {g}) <= SumOf(T) + Worth[g]
    <2>1. CASE g \in T
      <3>1. T \union {g} = T BY <2>1
      <3>2. QED BY <1>1, <1>2, <3>1
    <2>2. CASE g \notin T BY <1>1, <1>2, <1>3, <2>2
    <2>3. QED BY <2>1, <2>2
  <1>5. SumOf({}) = 0 BY SumNone DEF SumOf
  <1>6. QED BY <1>2, <1>3, <1>4, <1>5

\* Arithmetic of attempts.
LEMMA Times ==
    /\ \A a, b \in Nat : a * b \in Nat
    /\ \A a, b, c \in Nat : a * (b + c) = a * b + a * c
    /\ \A a, b \in Nat : a # 0 => (a - 1) * b + b = a * b
    /\ \A a \in Nat : 0 * a = 0
  OBVIOUS

\* One call turns.
LEMMA DueTurns ==
    ASSUME DonorsInv, NEW c \in GiftCalls, NEW row \in ServiceRows,
           services' = [services EXCEPT ![c] = row], row.at = "stats" => row.gift \in Gifts
    PROVE  /\ DueTotal \in Nat /\ DueTotal' \in Nat /\ DueOf(row) \in Nat /\ DueOf(services[c]) \in Nat
           /\ DueOf(services[c]) = 0 => DueTotal' = DueTotal + DueOf(row)
           /\ DueOf(row) = 0 => DueTotal = DueTotal' + DueOf(services[c])
           /\ DueOf(services[c]) = DueOf(row) => DueTotal' = DueTotal
           /\ DueOf(row) = 0 => DueTotal' <= DueTotal
  <1>1. services \in [GiftCalls -> ServiceRows] BY DEF DonorsInv, DonorsTyped
  <1>2. \A d \in GiftCalls : services[d].at = "stats" => services[d].gift \in Gifts
    BY DEF DonorsInv, AboutService
  <1>3. \A g \in Gifts : Worth[g] \in Nat BY DonorsAssumption
  <1>4. \A d \in GiftCalls : DueOf(services[d]) \in Nat BY <1>2, <1>3 DEF DueOf
  <1>5. DueOf(row) \in Nat BY <1>3 DEF DueOf
  <1>6. PICK F : F = [d \in GiftCalls |-> DueOf(services[d])] OBVIOUS
  <1>7. PICK G : G = [d \in GiftCalls |-> DueOf(services'[d])] OBVIOUS
  <1>8. services'[c] = row /\ \A d \in GiftCalls \ {c} : services'[d] = services[d] BY <1>1
  <1>9. \A d \in GiftCalls : F[d] \in Nat /\ G[d] \in Nat BY <1>4, <1>5, <1>6, <1>7, <1>8
  <1>10. F[c] = DueOf(services[c]) /\ G[c] = DueOf(row) BY <1>6, <1>7, <1>8
  <1>11. IsFiniteSet(GiftCalls) /\ IsFiniteSet(GiftCalls \ {c}) BY DonorsAssumption, FS_Subset
  <1>12. SumFunctionOnSet(F, GiftCalls) = F[c] + SumFunctionOnSet(F, GiftCalls \ {c})
    BY <1>9, <1>11, SumTakeOut
  <1>13. SumFunctionOnSet(G, GiftCalls) = G[c] + SumFunctionOnSet(G, GiftCalls \ {c})
    BY <1>9, <1>11, SumTakeOut
  <1>14. SumFunctionOnSet(F, GiftCalls \ {c}) = SumFunctionOnSet(G, GiftCalls \ {c})
    <2>1. \A d \in GiftCalls \ {c} : F[d] = G[d] BY <1>6, <1>7, <1>8
    <2>2. QED BY <1>11, <2>1, SumEqual
  <1>15. SumFunctionOnSet(F, GiftCalls \ {c}) \in Nat BY <1>9, <1>11, SumType
  <1>16. DueTotal = SumFunctionOnSet(F, GiftCalls) BY <1>6 DEF DueTotal, Due
  <1>17. DueTotal' = SumFunctionOnSet(G, GiftCalls) BY <1>7 DEF DueTotal, Due
  <1>18. DueOf(services[c]) \in Nat BY <1>4
  <1>19. QED BY <1>5, <1>9, <1>10, <1>12, <1>13, <1>14, <1>15, <1>16, <1>17, <1>18

LEMMA DueStays ==
    ASSUME DonorsInv
    PROVE  /\ DueTotal \in Nat
           /\ services' = services => DueTotal' = DueTotal
  <1>1. \A g \in Gifts : Worth[g] \in Nat BY DonorsAssumption
  <1>2. \A d \in GiftCalls : Due[d] \in Nat BY <1>1 DEF Due, DueOf, DonorsInv, AboutService
  <1>3. DueTotal \in Nat BY <1>2, DonorsAssumption, SumType DEF DueTotal
  <1>4. services' = services => DueTotal' = DueTotal BY DEF DueTotal, Due
  <1>5. QED BY <1>3, <1>4

\* The numbers of the invariant.
LEMMA Numbers ==
    ASSUME DonorsTyped, AboutErrand
    PROVE  /\ given.total \in Nat /\ TriesOf(errand) \in Nat /\ WorthOf(errand) \in Nat
           /\ SumOf(Gifts \ unsent) \in Nat /\ SumOf(answered) \in Nat
  <1>1. given.total \in Nat /\ errand \in ErrandRows /\ answered \in SUBSET Gifts BY DEF DonorsTyped
  <1>2. errand.tries \in Nat BY <1>1 DEF ErrandRows
  <1>3. TriesOf(errand) \in Nat BY <1>2 DEF TriesOf, AboutErrand
  <1>4. WorthOf(errand) \in Nat BY DonorsAssumption DEF WorthOf, AboutErrand
  <1>5. QED BY <1>1, <1>3, <1>4, GiftSums

LEMMA DonorsInit_Inv == DonorsInit => DonorsInv
  <1> SUFFICES ASSUME DonorsInit PROVE DonorsInv
    OBVIOUS
  <1>1. \A c \in GiftCalls : services[c].at = "free" BY DEF DonorsInit, NoService
  <1>2. errand.at = "idle" /\ errand.call = "none" BY DEF DonorsInit, NoErrand
  <1>3. DonorsTyped
    <2>1. errand \in ErrandRows BY DEF DonorsInit, NoErrand, ErrandRows
    <2>2. services \in [GiftCalls -> ServiceRows] BY DEF DonorsInit, NoService, ServiceRows
    <2>3. QED BY <2>1, <2>2, DonorsAssumption DEF DonorsInit, DonorsTyped
  <1>4. AboutErrand /\ \A c \in GiftCalls : AboutService(c)
    <2>1. errand.tries <= StatTries + AwardTries BY DonorsAssumption DEF DonorsInit, NoErrand
    <2>2. QED BY <1>1, <1>2, <2>1 DEF AboutErrand, AboutService
  <1>5. given.total = 0 /\ given.count = 0 /\ Gifts \ unsent = {} /\ answered = {} BY DEF DonorsInit
  <1>6. NoneTooOften
    <2>1. DueTotal = 0
      <3>1. \A c \in GiftCalls : Due[c] = 0 BY <1>1 DEF Due, DueOf
      <3>2. QED BY <3>1, DonorsAssumption, SumZero DEF DueTotal
    <2>2. TriesOf(errand) = 0 /\ WorthOf(errand) = 0 BY <1>2 DEF TriesOf, WorthOf
    <2>3. SumOf(Gifts \ unsent) = 0 BY <1>5, GiftSums
    <2>4. QED BY <1>5, <2>1, <2>2, <2>3, DonorsAssumption DEF NoneTooOften
  <1>7. NoneForgotten /\ CountedOnce
    <2>1. SumOf(answered) = 0 /\ SumOf(Gifts \ unsent) = 0 BY <1>5, GiftSums
    <2>2. ~GiftIsIn BY <1>2 DEF GiftIsIn
    <2>3. QED BY <1>1, <1>2, <1>5, <2>1, <2>2 DEF NoneForgotten, CountedOnce
  <1>8. BadgesEarned /\ BadgeInStep
    BY <1>1, <1>2, <1>5 DEF DonorsInit, BadgesEarned, BadgeInStep
  <1>9. QED BY <1>3, <1>4, <1>6, <1>7, <1>8 DEF DonorsInv

LEMMA GivesUpFails ==
    ASSUME DonorsTyped, GivesUp
    PROVE  Failed' /\ giveUps' \in 0..MaxGiveUps
  BY DonorsAssumption DEF DonorsTyped, GivesUp, Failed

LEMMA NextErrandIs ==
    ASSUME DonorsTyped
    PROVE  /\ NextErrand \in ErrandRows /\ NextErrand.call = "none"
           /\ NextErrand.at = IF errand.at = "stats" THEN "look" ELSE "idle"
           /\ NextErrand.tries \in {errand.tries, 0}
  <1>1. errand \in ErrandRows BY DEF DonorsTyped
  <1>2. CASE errand.at = "stats"
    <2>1. NextErrand = [errand EXCEPT !.at = "look", !.call = "none"] BY <1>2 DEF NextErrand
    <2>2. QED BY <1>1, <1>2, <2>1 DEF ErrandRows
  <1>3. CASE errand.at # "stats"
    <2>1. NextErrand = NoErrand BY <1>3 DEF NextErrand
    <2>2. QED BY <1>3, <2>1 DEF ErrandRows, NoErrand
  <1>4. QED BY <1>2, <1>3

LEMMA NoServiceIs == NoService \in ServiceRows /\ NoService.at = "free"
  BY DEF NoService, ServiceRows

LEMMA CallTurns ==
    ASSUME DonorsTyped, NEW c \in GiftCalls, NEW row \in ServiceRows,
           services' = [services EXCEPT ![c] = row]
    PROVE  /\ services' \in [GiftCalls -> ServiceRows] /\ services'[c] = row
           /\ \A d \in GiftCalls \ {c} : services'[d] = services[d]
  BY DEF DonorsTyped

\* The call that is waited for.
LEMMA Waiting ==
    ASSUME DonorsInv, errand.call # "none"
    PROVE  errand.call \in GiftCalls /\ errand.at \in {"stats", "award"}
  <1>1. errand \in ErrandRows BY DEF DonorsInv, DonorsTyped
  <1>2. errand.call \in GiftCalls /\ errand.at \in {"idle", "stats", "look", "award"}
    BY <1>1 DEF ErrandRows
  <1>3. QED BY <1>2 DEF DonorsInv, AboutErrand

LEMMA TakeGiftKeeps ==
    ASSUME DonorsInv, NEW g \in Gifts, TakeGift(g)
    PROVE  DonorsInv'
  <1> DEFINE S == Gifts \ unsent
  <1>1. /\ errand.at = "idle" /\ g \in unsent /\ unsent' = unsent \ {g} /\ errand.call = "none"
        /\ UNCHANGED <<given, badge, offered, services, byHand, answered>>
    BY DEF TakeGift, DonorsInv, AboutErrand
  <1>2. Gifts \ unsent' = S \union {g} /\ g \notin S BY <1>1
  <1>3. SumOf(Gifts \ unsent') = SumOf(S) + Worth[g] /\ SumOf(S) \in Nat /\ Worth[g] \in Nat
    <2>1. S \in SUBSET Gifts /\ g \in Gifts \ S BY <1>2
    <2>2. SumOf(S \union {g}) = SumOf(S) + Worth[g] /\ SumOf(S) \in Nat BY <2>1, GiftSums
    <2>3. QED BY <1>2, <2>2, DonorsAssumption
  <1>4. /\ given.total \in Nat /\ DueTotal \in Nat /\ DueTotal' = DueTotal
        /\ TriesOf(errand) = 0 /\ WorthOf(errand) = 0
    BY <1>1, Numbers, DueStays DEF DonorsInv, TriesOf, WorthOf
  <1>5. given.total + DueTotal <= StatTries * SumOf(S)
    BY <1>3, <1>4, DonorsAssumption DEF DonorsInv, NoneTooOften
  <1>6. StatTries * (SumOf(S) + Worth[g]) = StatTries * SumOf(S) + StatTries * Worth[g]
        /\ StatTries * SumOf(S) \in Nat /\ StatTries * Worth[g] \in Nat
    BY <1>3, DonorsAssumption, Times
  <1>7. \A c \in GiftCalls : AboutService(c)' <=>
          /\ services[c].at = "stats" => services[c].gift \in Gifts
          /\ services[c].at \in {"check", "write"} => services[c].badge \in Badges
          /\ errand'.call = c /\ errand'.at = "stats" =>
               /\ services[c].at \in {"stats", "ok", "refused"}
               /\ services[c].at = "stats" => services[c].gift = errand'.gift
          /\ errand'.call = c /\ errand'.at = "award" =>
               /\ services[c].at \in {"check", "write", "ok", "refused"}
               /\ services[c].at \in {"check", "write"} => services[c].badge = errand'.badge
    BY <1>1 DEF AboutService
  <1>8. CASE errand' = [NoErrand EXCEPT !.at = "stats", !.gift = g, !.tries = StatTries]
             /\ UNCHANGED giveUps
    <2>1. /\ errand' \in ErrandRows /\ errand'.at = "stats" /\ errand'.gift = g
          /\ errand'.tries = StatTries /\ errand'.call = "none"
      BY <1>8, DonorsAssumption DEF NoErrand, ErrandRows
    <2>2. DonorsTyped' BY <1>1, <1>8, <2>1 DEF DonorsInv, DonorsTyped
    <2>3. AboutErrand' BY <2>1, DonorsAssumption DEF AboutErrand
    <2>4. \A c \in GiftCalls : AboutService(c)'
      BY <1>7, <2>1, DonorsAssumption DEF DonorsInv, AboutService
    <2>5. TriesOf(errand)' = StatTries /\ WorthOf(errand)' = Worth[g]
      BY <2>1 DEF TriesOf, WorthOf
    <2>6. NoneTooOften' BY <1>1, <1>3, <1>4, <1>5, <1>6, <2>5 DEF NoneTooOften
    <2>7. ~GiftIsIn /\ ~GiftIsIn' BY <1>1, <2>1 DEF GiftIsIn
    <2>8. NoneForgotten' BY <1>1, <2>7 DEF DonorsInv, NoneForgotten
    <2>9. CountedOnce'
      <3>1. SUFFICES ASSUME ~Failed'
                     PROVE  /\ \A c \in GiftCalls : services'[c].at # "stats"
                            /\ given'.total + Worth[g] = SumOf(Gifts \ unsent')
        BY <2>1, <2>7 DEF CountedOnce
      <3>2. ~Failed BY <1>8, <3>1 DEF Failed
      <3>3. \A c \in GiftCalls : services[c].at # "stats"
        BY <1>1, <3>2, DonorsAssumption DEF DonorsInv, CountedOnce
      <3>4. given.total = SumOf(S) BY <1>1, <3>2 DEF DonorsInv, CountedOnce
      <3>5. QED BY <1>1, <1>3, <3>3, <3>4
    <2>10. BadgesEarned' BY <1>1, <2>1 DEF DonorsInv, BadgesEarned, HandsOff, Earned
    <2>11. BadgeInStep'
      BY <1>1, <1>8, <2>1, DonorsAssumption DEF DonorsInv, BadgeInStep, HandsOff, Failed
    <2>12. QED BY <2>2, <2>3, <2>4, <2>6, <2>8, <2>9, <2>10, <2>11 DEF DonorsInv
  <1>9. CASE GivesUp /\ UNCHANGED errand
    <2>1. Failed' /\ giveUps' \in 0..MaxGiveUps BY <1>9, GivesUpFails DEF DonorsInv
    <2>2. DonorsTyped' BY <1>1, <1>9, <2>1 DEF DonorsInv, DonorsTyped
    <2>3. AboutErrand' BY <1>9 DEF DonorsInv, AboutErrand
    <2>4. \A c \in GiftCalls : AboutService(c)' BY <1>7, <1>9 DEF DonorsInv, AboutService
    <2>5. TriesOf(errand)' = 0 /\ WorthOf(errand)' = 0 BY <1>1, <1>9 DEF TriesOf, WorthOf
    <2>6. NoneTooOften' BY <1>1, <1>3, <1>4, <1>5, <1>6, <2>5 DEF NoneTooOften
    <2>7. NoneForgotten' BY <1>1, <1>9 DEF DonorsInv, NoneForgotten, GiftIsIn
    <2>8. BadgesEarned' BY <1>1, <1>9 DEF DonorsInv, BadgesEarned, HandsOff, Earned
    <2>9. QED
      BY <2>1, <2>2, <2>3, <2>4, <2>6, <2>7, <2>8 DEF DonorsInv, CountedOnce, BadgeInStep
  <1>10. QED BY <1>8, <1>9 DEF TakeGift

LEMMA AnsweredKeeps ==
    ASSUME DonorsInv, Answered
    PROVE  DonorsInv'
  <1>1. PICK c : c = errand.call OBVIOUS
  <1>2. /\ c \in GiftCalls /\ errand.at \in {"stats", "award"} /\ errand.call = c
        /\ services[c].at \in {"ok", "refused"} /\ c # "none"
        /\ errand' = NextErrand /\ services' = [services EXCEPT ![c] = NoService]
        /\ UNCHANGED <<unsent, given, badge, offered, giveUps, byHand>>
    BY <1>1, Waiting DEF Answered
  <1>3. answered' = answered \union (IF GiftIsIn THEN {errand.gift} ELSE {})
    BY <1>1, <1>2 DEF Answered, GiftIsIn
  <1>4. /\ services' \in [GiftCalls -> ServiceRows] /\ services'[c].at = "free"
        /\ \A d \in GiftCalls \ {c} : services'[d] = services[d]
    BY <1>2, NoServiceIs, CallTurns DEF DonorsInv
  <1>5. /\ errand' \in ErrandRows /\ errand'.call = "none" /\ errand'.tries \in {errand.tries, 0}
        /\ errand'.at = IF errand.at = "stats" THEN "look" ELSE "idle"
    BY <1>2, NextErrandIs DEF DonorsInv
  <1>6. DonorsTyped'
    <2>1. GiftIsIn => errand.gift \in Gifts BY DEF GiftIsIn, DonorsInv, AboutErrand
    <2>2. answered' \subseteq Gifts BY <1>3, <2>1 DEF DonorsInv, DonorsTyped
    <2>3. QED BY <1>2, <1>4, <1>5, <2>2 DEF DonorsInv, DonorsTyped
  <1>7. AboutErrand'
    <2>1. errand'.tries <= StatTries + AwardTries
      BY <1>5, DonorsAssumption DEF DonorsInv, AboutErrand
    <2>2. QED BY <1>5, <2>1 DEF AboutErrand
  <1>8. \A d \in GiftCalls : AboutService(d)'
    BY <1>4, <1>5, DonorsAssumption DEF DonorsInv, AboutService
  <1>9. NoneTooOften'
    <2>1. PICK row \in ServiceRows : row = NoService /\ row.at = "free" BY NoServiceIs
    <2>2. DueTotal' = DueTotal /\ DueTotal \in Nat
      <3>1. DueOf(services[c]) = DueOf(row) BY <1>2, <2>1 DEF DueOf
      <3>2. QED BY <1>2, <2>1, <3>1, DueTurns
    <2>3. TriesOf(errand)' * WorthOf(errand)' = 0 BY <1>5 DEF TriesOf, WorthOf
    <2>4. TriesOf(errand) * WorthOf(errand) \in Nat /\ given.total \in Nat
          /\ StatTries * SumOf(Gifts \ unsent) \in Nat
      BY Numbers, Times, DonorsAssumption DEF DonorsInv
    <2>5. QED BY <1>2, <2>2, <2>3, <2>4 DEF DonorsInv, NoneTooOften
  <1>10. ~GiftIsIn' BY <1>5 DEF GiftIsIn
  <1>11. NoneForgotten'
    <2>1. SumOf(answered') <= given.total BY <1>3 DEF DonorsInv, NoneForgotten
    <2>2. QED BY <1>2, <1>10, <2>1 DEF NoneForgotten
  <1>12. CountedOnce'
    <2>1. SUFFICES ASSUME ~Failed'
                   PROVE  /\ \A d \in GiftCalls : services'[d].at # "stats"
                          /\ given'.total = SumOf(Gifts \ unsent')
      BY <1>5, <1>10 DEF CountedOnce
    <2>2. ~Failed BY <1>2, <2>1 DEF Failed
    <2>3. \A d \in GiftCalls : services'[d].at # "stats"
      BY <1>2, <1>4, <2>2 DEF DonorsInv, CountedOnce
    <2>4. errand.at = "stats" => GiftIsIn
      BY <1>2, <2>2 DEF DonorsInv, CountedOnce, GiftIsIn
    <2>5. QED BY <1>2, <2>2, <2>3, <2>4 DEF DonorsInv, CountedOnce
  <1>13. BadgesEarned' BY <1>2, <1>4, <1>5 DEF DonorsInv, BadgesEarned, HandsOff, Earned
  <1>14. BadgeInStep'
    <2>1. SUFFICES ASSUME HandsOff', ~Failed'
                   PROVE  /\ \A d \in GiftCalls : services'[d].at = "free"
                          /\ errand'.at = "idle" => badge' = Highest(given'.total)
      BY <1>5 DEF BadgeInStep
    <2>2. HandsOff /\ ~Failed BY <1>2, <2>1 DEF Failed, HandsOff
    <2>3. \A d \in GiftCalls : services'[d].at = "free"
      BY <1>2, <1>4, <2>2 DEF DonorsInv, BadgeInStep
    <2>4. errand.at = "award" => badge = Highest(given.total)
      BY <1>2, <2>2 DEF DonorsInv, BadgeInStep
    <2>5. QED BY <1>2, <1>5, <2>3, <2>4
  <1>15. QED BY <1>6, <1>7, <1>8, <1>9, <1>11, <1>12, <1>13, <1>14 DEF DonorsInv

LEMMA GiveUpKeeps ==
    ASSUME DonorsInv, GiveUp
    PROVE  DonorsInv'
  <1>1. PICK c : c = errand.call OBVIOUS
  <1>2. /\ c \in GiftCalls /\ errand.at \in {"stats", "award"} /\ errand.call = c /\ c # "none"
        /\ GivesUp /\ UNCHANGED <<unsent, given, badge, offered, byHand, answered>>
    BY <1>1, Waiting DEF GiveUp
  <1>3. Failed' /\ giveUps' \in 0..MaxGiveUps BY <1>2, GivesUpFails DEF DonorsInv
  <1>4. services' = services \/ services' = [services EXCEPT ![c] = NoService]
    BY <1>1 DEF GiveUp
  <1>5. /\ services' \in [GiftCalls -> ServiceRows]
        /\ \A d \in GiftCalls : services'[d] = services[d] \/ services'[d].at = "free"
    <2>1. services \in [GiftCalls -> ServiceRows] BY DEF DonorsInv, DonorsTyped
    <2>2. QED BY <1>2, <1>4, <2>1, NoServiceIs
  <1>6. DueTotal \in Nat /\ DueTotal' \in Nat /\ DueTotal' <= DueTotal
    <2>1. DueTotal \in Nat BY DueStays
    <2>2. CASE services' = services BY <2>1, <2>2, DueStays
    <2>3. CASE services' = [services EXCEPT ![c] = NoService]
      <3>1. PICK row \in ServiceRows : row = NoService /\ row.at = "free" BY NoServiceIs
      <3>2. DueOf(row) = 0 BY <3>1 DEF DueOf
      <3>3. QED BY <1>2, <2>3, <3>1, <3>2, DueTurns
    <2>4. QED BY <1>4, <2>2, <2>3
  <1>7. /\ errand' \in ErrandRows /\ errand'.call = "none"
        /\ errand'.tries \in {errand.tries, 0, errand.tries - 1}
        /\ \/ errand'.at \in {"idle", "look"}
           \/ /\ errand'.at = errand.at /\ errand'.gift = errand.gift
              /\ errand'.badge = errand.badge
              /\ errand'.tries = errand.tries - 1 /\ errand'.tries # 0
    <2>1. errand \in ErrandRows BY DEF DonorsInv, DonorsTyped
    <2>2. CASE errand.tries > 1
      <3>1. errand' = [errand EXCEPT !.tries = @ - 1, !.call = "none"] BY <2>2 DEF GiveUp
      <3>2. errand.tries - 1 \in Nat /\ errand.tries - 1 # 0 BY <2>1, <2>2 DEF ErrandRows
      <3>3. QED BY <2>1, <3>1, <3>2 DEF ErrandRows
    <2>3. CASE ~(errand.tries > 1)
      <3>1. errand' = NextErrand BY <2>3 DEF GiveUp
      <3>2. QED BY <3>1, NextErrandIs DEF DonorsInv
    <2>4. QED BY <2>2, <2>3
  <1>8. DonorsTyped' BY <1>2, <1>3, <1>5, <1>7 DEF DonorsInv, DonorsTyped
  <1>9. AboutErrand'
    <2>1. errand.tries \in Nat BY DEF DonorsInv, DonorsTyped, ErrandRows
    <2>2. errand'.tries <= StatTries + AwardTries
      BY <1>7, <2>1, DonorsAssumption DEF DonorsInv, AboutErrand
    <2>3. QED BY <1>2, <1>7, <2>2 DEF DonorsInv, AboutErrand
  <1>10. \A d \in GiftCalls : AboutService(d)'
    BY <1>5, <1>7, DonorsAssumption DEF DonorsInv, AboutService
  <1>11. NoneTooOften'
    <2>1. TriesOf(errand)' * WorthOf(errand)' \in Nat
          /\ TriesOf(errand)' * WorthOf(errand)' <= TriesOf(errand) * WorthOf(errand)
      <3>1. TriesOf(errand) * WorthOf(errand) \in Nat BY Numbers, Times DEF DonorsInv
      <3>2. CASE errand'.at \in {"idle", "look", "award"}
        <4>1. TriesOf(errand)' * WorthOf(errand)' = 0 BY <3>2 DEF TriesOf, WorthOf
        <4>2. QED BY <3>1, <4>1
      <3>3. CASE errand'.at = "stats"
        <4>1. TriesOf(errand)' = TriesOf(errand) /\ WorthOf(errand)' = WorthOf(errand)
          BY <1>2, <1>7, <3>3 DEF TriesOf, WorthOf
        <4>2. QED BY <3>1, <4>1
      <3>4. QED BY <1>2, <1>7, <3>2, <3>3
    <2>2. TriesOf(errand) * WorthOf(errand) \in Nat /\ given.total \in Nat
          /\ StatTries * SumOf(Gifts \ unsent) \in Nat
      BY Numbers, Times, DonorsAssumption DEF DonorsInv
    <2>3. QED BY <1>2, <1>6, <2>1, <2>2 DEF DonorsInv, NoneTooOften
  <1>12. NoneForgotten' BY <1>2, <1>7 DEF DonorsInv, NoneForgotten, GiftIsIn
  <1>13. BadgesEarned'
    BY <1>2, <1>5, <1>7 DEF DonorsInv, BadgesEarned, HandsOff, Earned
  <1>14. QED
    BY <1>3, <1>8, <1>9, <1>10, <1>11, <1>12, <1>13 DEF DonorsInv, CountedOnce, BadgeInStep

LEMMA LookAtStatsKeeps ==
    ASSUME DonorsInv, LookAtStats
    PROVE  DonorsInv'
  <1>1. /\ errand.at = "look" /\ errand.call = "none"
        /\ UNCHANGED <<unsent, given, badge, offered, services, byHand, answered>>
    BY DEF LookAtStats, DonorsInv, AboutErrand
  <1>2. given.total \in Nat BY Numbers DEF DonorsInv
  <1>3. PICK h \in Badges : h = Highest(given.total) /\ Milestones[h] <= given.total
    BY <1>2, HighestIsEarned
  <1>4. /\ errand' \in ErrandRows /\ errand'.call = "none" /\ giveUps' \in 0..MaxGiveUps
        /\ errand'.tries \in {AwardTries, 0}
        /\ \/ errand'.at = "award" /\ errand'.badge = h /\ giveUps' = giveUps
           \/ errand'.at = "idle" /\ Failed'
    <2>1. CASE /\ errand' = [errand EXCEPT !.at = "award", !.badge = Highest(given.total),
                                           !.tries = AwardTries]
               /\ UNCHANGED giveUps
      <3>1. errand \in ErrandRows /\ giveUps \in 0..MaxGiveUps BY DEF DonorsInv, DonorsTyped
      <3>2. errand' = [errand EXCEPT !.at = "award", !.badge = h, !.tries = AwardTries]
        BY <1>3, <2>1
      <3>3. AwardTries \in Nat BY DonorsAssumption
      <3>4. QED BY <1>1, <2>1, <3>1, <3>2, <3>3 DEF ErrandRows
    <2>2. CASE GivesUp /\ errand' = NoErrand
      BY <2>2, GivesUpFails DEF DonorsInv, NoErrand, ErrandRows
    <2>3. QED BY <2>1, <2>2 DEF LookAtStats
  <1>5. DonorsTyped' BY <1>1, <1>4 DEF DonorsInv, DonorsTyped
  <1>6. AboutErrand'
    <2>1. errand'.tries <= StatTries + AwardTries BY <1>4, DonorsAssumption
    <2>2. QED BY <1>4, <2>1 DEF AboutErrand
  <1>7. \A d \in GiftCalls : AboutService(d)'
    BY <1>1, <1>4, DonorsAssumption DEF DonorsInv, AboutService
  <1>8. ~GiftIsIn /\ ~GiftIsIn' BY <1>1, <1>4 DEF GiftIsIn
  <1>9. NoneTooOften'
    <2>1. DueTotal' = DueTotal BY <1>1, DueStays
    <2>2. /\ TriesOf(errand)' = 0 /\ WorthOf(errand)' = 0
          /\ TriesOf(errand) = 0 /\ WorthOf(errand) = 0
      BY <1>1, <1>4 DEF TriesOf, WorthOf
    <2>3. QED BY <1>1, <2>1, <2>2 DEF DonorsInv, NoneTooOften
  <1>10. NoneForgotten' BY <1>1, <1>8 DEF DonorsInv, NoneForgotten
  <1>11. CountedOnce'
    <2>1. SUFFICES ASSUME ~Failed'
                   PROVE  /\ \A c \in GiftCalls : services'[c].at # "stats"
                          /\ given'.total = SumOf(Gifts \ unsent')
      BY <1>4, <1>8 DEF CountedOnce
    <2>2. ~Failed BY <1>4, <2>1 DEF Failed
    <2>3. QED BY <1>1, <2>2, DonorsAssumption DEF DonorsInv, CountedOnce
  <1>12. BadgesEarned'
    BY <1>1, <1>3, <1>4 DEF DonorsInv, BadgesEarned, HandsOff, Earned
  <1>13. BadgeInStep'
    <2>1. SUFFICES ASSUME HandsOff', ~Failed'
                   PROVE  /\ \A d \in GiftCalls : services'[d].at = "free"
                          /\ errand'.at = "award" /\ errand'.badge = Highest(given'.total)
      BY <1>4 DEF BadgeInStep
    <2>2. HandsOff /\ ~Failed BY <1>1, <1>4, <2>1 DEF Failed, HandsOff
    <2>3. \A d \in GiftCalls : services[d].at = "free"
      BY <1>1, <2>2, DonorsAssumption DEF DonorsInv, BadgeInStep
    <2>4. QED BY <1>1, <1>3, <1>4, <2>1, <2>3
  <1>14. QED BY <1>5, <1>6, <1>7, <1>9, <1>10, <1>11, <1>12, <1>13 DEF DonorsInv

LEMMA SendStatsKeeps ==
    ASSUME DonorsInv, NEW c \in GiftCalls, SendStats(c)
    PROVE  DonorsInv'
  <1>1. PICK row : row = [NoService EXCEPT !.at = "stats", !.gift = errand.gift] OBVIOUS
  <1>2. /\ errand.at = "stats" /\ errand.call = "none" /\ services[c] = NoService
        /\ services' = [services EXCEPT ![c] = row] /\ errand' = [errand EXCEPT !.call = c]
        /\ UNCHANGED <<unsent, given, badge, offered, giveUps, byHand, answered>>
    BY <1>1 DEF SendStats
  <1>3. errand.gift \in Gifts /\ errand.tries # 0 /\ c # "none"
    BY <1>2, DonorsAssumption DEF DonorsInv, AboutErrand
  <1>4. row \in ServiceRows /\ row.at = "stats" /\ row.gift = errand.gift
    BY <1>1, <1>3 DEF NoService, ServiceRows
  <1>5. /\ services' \in [GiftCalls -> ServiceRows] /\ services'[c] = row
        /\ \A d \in GiftCalls \ {c} : services'[d] = services[d]
    BY <1>2, <1>4, CallTurns DEF DonorsInv
  <1>6. /\ errand' \in ErrandRows /\ errand'.call = c /\ errand'.at = "stats"
        /\ errand'.gift = errand.gift /\ errand'.tries = errand.tries /\ errand.tries \in Nat
    <2>1. errand \in ErrandRows BY DEF DonorsInv, DonorsTyped
    <2>2. QED BY <1>2, <2>1 DEF ErrandRows
  <1>7. DonorsTyped' BY <1>2, <1>5, <1>6 DEF DonorsInv, DonorsTyped
  <1>8. AboutErrand' BY <1>3, <1>6 DEF DonorsInv, AboutErrand
  <1>9. \A d \in GiftCalls : AboutService(d)'
    BY <1>3, <1>4, <1>5, <1>6 DEF DonorsInv, AboutService
  <1>10. ~GiftIsIn /\ ~GiftIsIn' BY <1>2, <1>4, <1>5, <1>6 DEF GiftIsIn
  <1>11. NoneTooOften'
    <2>1. PICK w \in Nat : w = Worth[errand.gift] BY <1>3, DonorsAssumption
    <2>2. PICK n \in Nat : n = errand.tries BY <1>6
    <2>3. DueOf(row) = w /\ DueOf(services[c]) = 0
      BY <1>2, <1>4, <2>1, NoServiceIs DEF DueOf
    <2>4. PICK old \in Nat, new \in Nat : old = DueTotal /\ new = DueTotal' /\ new = old + w
      <3>1. DueTotal \in Nat /\ DueTotal' \in Nat /\ DueTotal' = DueTotal + DueOf(row)
        BY <1>2, <1>3, <1>4, <2>3, DueTurns
      <3>2. QED BY <2>3, <3>1
    <2>5. TriesOf(errand) = n /\ WorthOf(errand) = w BY <1>2, <2>1, <2>2 DEF TriesOf, WorthOf
    <2>6. TriesOf(errand)' = n - 1 /\ WorthOf(errand)' = w
      BY <1>3, <1>6, <2>1, <2>2 DEF TriesOf, WorthOf
    <2>7. (n - 1) * w + w = n * w /\ (n - 1) * w \in Nat
      <3>1. n # 0 /\ n - 1 \in Nat BY <1>3, <2>2
      <3>2. QED BY <3>1, Times
    <2>8. given.total \in Nat BY Numbers DEF DonorsInv
    <2>9. given.total + old + n * w <= StatTries * SumOf(Gifts \ unsent)
      BY <2>4, <2>5 DEF DonorsInv, NoneTooOften
    <2>10. given.total + new + (n - 1) * w = given.total + old + n * w BY <2>4, <2>7, <2>8
    <2>11. QED BY <1>2, <2>4, <2>6, <2>9, <2>10 DEF NoneTooOften
  <1>12. NoneForgotten' BY <1>2, <1>10 DEF DonorsInv, NoneForgotten
  <1>13. CountedOnce'
    <2>1. SUFFICES ASSUME ~Failed'
                   PROVE  /\ \A d \in GiftCalls : services'[d].at = "stats" => d = c
                          /\ given'.total + Worth[errand.gift] = SumOf(Gifts \ unsent')
      BY <1>4, <1>5, <1>6, <1>10 DEF CountedOnce
    <2>2. ~Failed BY <1>2, <2>1 DEF Failed
    <2>3. QED BY <1>2, <1>5, <1>10, <2>2, DonorsAssumption DEF DonorsInv, CountedOnce
  <1>14. BadgesEarned'
    BY <1>2, <1>4, <1>5, <1>6 DEF DonorsInv, BadgesEarned, HandsOff, Earned
  <1>15. BadgeInStep'
    BY <1>2, <1>5, <1>6, DonorsAssumption DEF DonorsInv, BadgeInStep, HandsOff, Failed
  <1>16. QED BY <1>7, <1>8, <1>9, <1>11, <1>12, <1>13, <1>14, <1>15 DEF DonorsInv

\* A call is over, or goes on to its second step.
LEMMA EndsIs ==
    ASSUME DonorsInv, NEW c \in GiftCalls, NEW at \in {"ok", "refused"}, Ends(c, at)
    PROVE  \E row \in ServiceRows :
             /\ services' = [services EXCEPT ![c] = row]
             /\ row.at = IF errand.call = c THEN at ELSE "free"
  <1>1. services[c] \in ServiceRows BY DEF DonorsInv, DonorsTyped
  <1>2. CASE errand.call = c
    <2>1. PICK row : row = [services[c] EXCEPT !.at = at] OBVIOUS
    <2>2. row \in ServiceRows /\ row.at = at BY <1>1, <2>1 DEF ServiceRows
    <2>3. services' = [services EXCEPT ![c] = row] BY <1>2, <2>1 DEF Ends
    <2>4. QED BY <1>2, <2>2, <2>3
  <1>3. CASE errand.call # c BY <1>3, NoServiceIs DEF Ends
  <1>4. QED BY <1>2, <1>3

LEMMA UpdateStatsKeeps ==
    ASSUME DonorsInv, NEW c \in GiftCalls, UpdateStats(c)
    PROVE  DonorsInv'
  <1>1. PICK g \in Gifts : g = services[c].gift BY DEF UpdateStats, DonorsInv, AboutService
  <1>2. PICK w \in Nat : w = Worth[g] BY DonorsAssumption
  <1>3. /\ services[c].at = "stats" /\ UNCHANGED <<unsent, badge, offered, errand, byHand, answered>>
        /\ c # "none"
    BY DonorsAssumption DEF UpdateStats
  <1>4. PICK row \in ServiceRows :
          /\ services' = [services EXCEPT ![c] = row]
          /\ \/ /\ row.at = IF errand.call = c THEN "ok" ELSE "free"
                /\ given' = Grown(given, w) /\ giveUps' = giveUps
             \/ /\ row.at = IF errand.call = c THEN "refused" ELSE "free"
                /\ given' = given /\ GivesUp
    BY <1>1, <1>2, EndsIs DEF UpdateStats
  <1>5. /\ services' \in [GiftCalls -> ServiceRows] /\ services'[c] = row
        /\ \A d \in GiftCalls \ {c} : services'[d] = services[d]
    BY <1>4, CallTurns DEF DonorsInv
  <1>6. errand.call = c => errand.at = "stats" /\ errand.gift = g
    <2>1. errand.call = c => errand.at \in {"stats", "award"} BY <1>3, Waiting
    <2>2. QED BY <1>1, <1>3, <2>1 DEF DonorsInv, AboutService
  <1>7. given.total \in Nat /\ given.count \in Nat BY DEF DonorsInv, DonorsTyped
  <1>8. /\ given' \in [total: Nat, count: Nat] /\ giveUps' \in 0..MaxGiveUps
        /\ given'.total \in Nat /\ given'.total >= given.total
        /\ \/ given'.total = given.total + w /\ giveUps' = giveUps
           \/ given'.total = given.total /\ Failed'
    <2>1. CASE given' = Grown(given, w) /\ giveUps' = giveUps
      <3>1. given' = [total |-> given.total + w, count |-> given.count + 1] BY <2>1 DEF Grown
      <3>2. given'.total = given.total + w BY <3>1
      <3>3. given' \in [total: Nat, count: Nat] BY <1>7, <3>1
      <3>4. QED BY <1>7, <2>1, <3>2, <3>3 DEF DonorsInv, DonorsTyped
    <2>2. CASE given' = given /\ GivesUp
      BY <1>7, <2>2, GivesUpFails DEF DonorsInv, DonorsTyped
    <2>3. QED BY <1>4, <2>1, <2>2
  <1>9. row.at \in {"ok", "refused", "free"} BY <1>4
  <1>10. DonorsTyped' BY <1>3, <1>5, <1>8 DEF DonorsInv, DonorsTyped
  <1>11. AboutErrand' BY <1>3 DEF DonorsInv, AboutErrand
  <1>12. \A d \in GiftCalls : AboutService(d)'
    BY <1>3, <1>4, <1>5, <1>6, <1>9 DEF DonorsInv, AboutService
  <1>13. NoneTooOften'
    <2>1. DueOf(row) = 0 BY <1>9 DEF DueOf
    <2>2. DueOf(services[c]) = w BY <1>1, <1>2, <1>3 DEF DueOf
    <2>3. PICK old \in Nat, new \in Nat : old = DueTotal /\ new = DueTotal' /\ old = new + w
      <3>1. /\ DueTotal \in Nat /\ DueTotal' \in Nat
            /\ DueTotal = DueTotal' + DueOf(services[c])
        BY <1>4, <1>9, <2>1, DueTurns
      <3>2. QED BY <2>2, <3>1
    <2>4. TriesOf(errand)' = TriesOf(errand) /\ WorthOf(errand)' = WorthOf(errand)
      BY <1>3 DEF TriesOf, WorthOf
    <2>5. TriesOf(errand) * WorthOf(errand) \in Nat BY Numbers, Times DEF DonorsInv
    <2>6. given'.total + new <= given.total + old BY <1>7, <1>8, <2>3
    <2>7. given.total + old + TriesOf(errand) * WorthOf(errand) <= StatTries * SumOf(Gifts \ unsent)
      BY <2>3 DEF DonorsInv, NoneTooOften
    <2>8. StatTries * SumOf(Gifts \ unsent) \in Nat
      BY Numbers, Times, DonorsAssumption DEF DonorsInv
    <2>9. given'.total + new + TriesOf(errand) * WorthOf(errand)
            <= StatTries * SumOf(Gifts \ unsent)
      BY <1>7, <1>8, <2>3, <2>5, <2>6, <2>7, <2>8
    <2>10. QED BY <1>3, <2>3, <2>4, <2>9 DEF NoneTooOften
  <1>14. NoneForgotten'
    <2>1. answered \in SUBSET Gifts BY DEF DonorsInv, DonorsTyped
    <2>2. SumOf(answered) \in Nat /\ SumOf(answered \union {g}) \in Nat
          /\ SumOf(answered \union {g}) <= SumOf(answered) + w
      BY <1>2, <2>1, GiftSums
    <2>3. SumOf(answered) <= given'.total BY <1>7, <1>8, <2>2 DEF DonorsInv, NoneForgotten
    <2>4. ASSUME GiftIsIn' PROVE SumOf(answered \union {errand.gift}) <= given'.total
      <3>1. errand.at = "stats" /\ errand.call \in GiftCalls /\ services'[errand.call].at = "ok"
        BY <1>3, <2>4, Waiting DEF GiftIsIn
      <3>2. CASE errand.call = c
        <4>1. given'.total = given.total + w
          <5>1. row.at = "ok" BY <1>5, <3>1, <3>2
          <5>2. given' = Grown(given, w) BY <1>4, <5>1
          <5>3. QED BY <5>2 DEF Grown
        <4>2. SumOf(answered) <= given.total BY DEF DonorsInv, NoneForgotten
        <4>3. SumOf(answered \union {g}) <= given'.total BY <1>7, <2>2, <4>1, <4>2
        <4>4. QED BY <1>6, <3>2, <4>3
      <3>3. CASE errand.call # c
        <4>1. GiftIsIn BY <1>3, <1>5, <2>4, <3>1, <3>3 DEF GiftIsIn
        <4>2. SumOf(answered \union {errand.gift}) <= given.total
          BY <4>1 DEF DonorsInv, NoneForgotten
        <4>3. SumOf(answered \union {errand.gift}) \in Nat
          <5>1. errand.gift \in Gifts BY <3>1 DEF DonorsInv, AboutErrand
          <5>2. QED BY <2>1, <5>1, GiftSums
        <4>4. QED BY <1>7, <1>8, <4>2, <4>3
      <3>4. QED BY <3>2, <3>3
    <2>5. QED BY <1>3, <2>3, <2>4 DEF NoneForgotten
  <1>15. CountedOnce'
    <2>1. CASE Failed' BY <2>1 DEF CountedOnce
    <2>2. CASE ~Failed'
      <3>1. giveUps' = giveUps /\ ~Failed BY <1>8, <2>2 DEF Failed
      <3>2. given' = Grown(given, w) BY <1>4, <2>2, GivesUpFails DEF DonorsInv
      <3>3. errand.call = c BY <1>3, <3>1 DEF DonorsInv, CountedOnce
      <3>4. errand.at = "stats" /\ errand.gift = g BY <1>6, <3>3
      <3>5. row.at = "ok" BY <1>4, <2>2, <3>3, GivesUpFails DEF DonorsInv
      <3>6. ~GiftIsIn BY <1>3, <3>3 DEF GiftIsIn
      <3>7. GiftIsIn' BY <1>3, <1>5, <3>3, <3>4, <3>5 DEF GiftIsIn
      <3>8. given'.total = SumOf(Gifts \ unsent)
        <4>1. given'.total = given.total + w BY <3>2 DEF Grown
        <4>2. given.total + Worth[errand.gift] = SumOf(Gifts \ unsent)
          BY <3>1, <3>4, <3>6 DEF DonorsInv, CountedOnce
        <4>3. QED BY <1>2, <3>4, <4>1, <4>2
      <3>9. \A d \in GiftCalls : services'[d].at = "stats" => errand.call = d
        BY <1>5, <3>1, <3>5 DEF DonorsInv, CountedOnce
      <3>10. QED BY <1>3, <1>5, <3>3, <3>5, <3>7, <3>8, <3>9 DEF CountedOnce
    <2>3. QED BY <2>1, <2>2
  <1>16. BadgesEarned'
    <2>1. SUFFICES ASSUME HandsOff' PROVE BadgesEarned' BY DEF BadgesEarned
    <2>2. HandsOff BY <1>3, <2>1 DEF HandsOff
    <2>3. \A b \in Badges : Earned(b) => Earned(b)'
      <3>1. \A b \in Badges : Milestones[b] \in Nat BY DonorsAssumption DEF Badges
      <3>2. QED BY <1>7, <1>8, <3>1 DEF Earned
    <2>4. badge \in Badges \union {0} BY DEF DonorsInv, DonorsTyped
    <2>5. \A d \in GiftCalls : services'[d].at \in {"check", "write"} =>
            services'[d] = services[d] /\ services[d].badge \in Badges
      BY <1>5, <1>9 DEF DonorsInv, AboutService
    <2>6. errand.at = "award" => errand.badge \in Badges BY DEF DonorsInv, AboutErrand
    <2>7. QED BY <1>3, <2>2, <2>3, <2>4, <2>5, <2>6 DEF DonorsInv, BadgesEarned, Earned
  <1>17. BadgeInStep'
    <2>1. SUFFICES ASSUME HandsOff', ~Failed' PROVE BadgeInStep' BY DEF BadgeInStep
    <2>2. HandsOff /\ ~Failed BY <1>3, <1>8, <2>1 DEF HandsOff, Failed
    <2>3. \A d \in GiftCalls : services[d].at # "free" => errand.call = d
      BY <2>2 DEF DonorsInv, BadgeInStep
    <2>4. errand.call = c BY <1>3, <2>3
    <2>5. errand.at = "stats" BY <1>6, <2>4
    <2>6. \A d \in GiftCalls : services'[d].at # "free" => errand.call = d BY <1>5, <2>3, <2>4
    <2>7. QED BY <1>3, <2>5, <2>6 DEF BadgeInStep
  <1>18. QED
    BY <1>10, <1>11, <1>12, <1>13, <1>14, <1>15, <1>16, <1>17 DEF DonorsInv

\* A call for a badge begins, goes on or ends.
LEMMA AwardTurns ==
    ASSUME DonorsInv, NEW c \in GiftCalls, NEW row \in ServiceRows,
           services' = [services EXCEPT ![c] = row],
           services[c].at \in {"free", "check", "write"}, row.at # "stats",
           UNCHANGED <<unsent, given, errand, giveUps, answered>>,
           badge' \in Badges \union {0}, offered' \subseteq Badges, byHand' \in 0..MaxByHand,
           row.at \in {"check", "write"} => row.badge \in Badges,
           errand.call = c =>
             /\ row.at \in {"check", "write", "ok", "refused"}
             /\ row.at \in {"check", "write"} => row.badge = errand.badge
    PROVE  /\ DonorsTyped' /\ AboutErrand' /\ \A d \in GiftCalls : AboutService(d)'
           /\ NoneTooOften' /\ NoneForgotten' /\ CountedOnce'
           /\ errand.call = c => errand.at = "award"
           /\ services'[c] = row /\ \A d \in GiftCalls \ {c} : services'[d] = services[d]
  <1>1. /\ services' \in [GiftCalls -> ServiceRows] /\ services'[c] = row
        /\ \A d \in GiftCalls \ {c} : services'[d] = services[d]
    BY CallTurns DEF DonorsInv
  <1>2. c # "none" BY DonorsAssumption
  <1>3. errand.call = c => errand.at = "award"
    <2>1. errand.call = c => errand.at \in {"stats", "award"} BY <1>2, Waiting
    <2>2. QED BY <2>1 DEF DonorsInv, AboutService
  <1>4. DonorsTyped' BY <1>1 DEF DonorsInv, DonorsTyped
  <1>5. AboutErrand' BY DEF DonorsInv, AboutErrand
  <1>6. \A d \in GiftCalls : AboutService(d)' BY <1>1, <1>3 DEF DonorsInv, AboutService
  <1>7. GiftIsIn' <=> GiftIsIn
    <2>1. errand.at = "stats" /\ errand.call # "none" => errand.call \in GiftCalls \ {c}
      BY <1>3, Waiting
    <2>2. QED BY <1>1, <2>1 DEF GiftIsIn
  <1>8. NoneTooOften'
    <2>1. DueOf(services[c]) = DueOf(row) BY DEF DueOf
    <2>2. DueTotal' = DueTotal BY <2>1, DueTurns
    <2>3. TriesOf(errand)' = TriesOf(errand) /\ WorthOf(errand)' = WorthOf(errand)
      BY DEF TriesOf, WorthOf
    <2>4. QED BY <2>2, <2>3 DEF DonorsInv, NoneTooOften
  <1>9. NoneForgotten' BY <1>7 DEF DonorsInv, NoneForgotten
  <1>10. CountedOnce'
    <2>1. SUFFICES ASSUME ~Failed' PROVE CountedOnce' BY DEF CountedOnce
    <2>2. ~Failed BY <2>1 DEF Failed
    <2>3. \A d \in GiftCalls : services'[d].at = "stats" => errand.call = d
      BY <1>1, <2>2 DEF DonorsInv, CountedOnce
    <2>4. errand.at = "stats" /\ errand.call # "none" => services'[errand.call].at # "refused"
      <3>1. errand.at = "stats" /\ errand.call # "none" => errand.call \in GiftCalls \ {c}
        BY <1>3, Waiting
      <3>2. QED BY <1>1, <2>2, <3>1 DEF DonorsInv, CountedOnce
    <2>5. QED BY <1>7, <2>2, <2>3, <2>4 DEF DonorsInv, CountedOnce
  <1>11. QED BY <1>1, <1>3, <1>4, <1>5, <1>6, <1>8, <1>9, <1>10

LEMMA SendAwardKeeps ==
    ASSUME DonorsInv, NEW c \in GiftCalls, SendAward(c)
    PROVE  DonorsInv'
  <1>1. PICK row : row = [NoService EXCEPT !.at = "check", !.badge = errand.badge] OBVIOUS
  <1>2. /\ errand.at = "award" /\ errand.call = "none" /\ services[c] = NoService
        /\ services' = [services EXCEPT ![c] = row] /\ errand' = [errand EXCEPT !.call = c]
        /\ UNCHANGED <<unsent, given, badge, offered, giveUps, byHand, answered>>
    BY <1>1 DEF SendAward
  <1>3. errand.badge \in Badges /\ c # "none"
    BY <1>2, DonorsAssumption DEF DonorsInv, AboutErrand
  <1>4. row \in ServiceRows /\ row.at = "check" /\ row.badge = errand.badge
    BY <1>1, <1>3 DEF NoService, ServiceRows
  <1>5. /\ services' \in [GiftCalls -> ServiceRows] /\ services'[c] = row
        /\ \A d \in GiftCalls \ {c} : services'[d] = services[d]
    BY <1>2, <1>4, CallTurns DEF DonorsInv
  <1>6. /\ errand' \in ErrandRows /\ errand'.call = c /\ errand'.at = "award"
        /\ errand'.badge = errand.badge /\ errand'.tries = errand.tries
    <2>1. errand \in ErrandRows BY DEF DonorsInv, DonorsTyped
    <2>2. QED BY <1>2, <2>1 DEF ErrandRows
  <1>7. DonorsTyped' BY <1>2, <1>5, <1>6 DEF DonorsInv, DonorsTyped
  <1>8. AboutErrand' BY <1>3, <1>6 DEF DonorsInv, AboutErrand
  <1>9. \A d \in GiftCalls : AboutService(d)'
    BY <1>3, <1>4, <1>5, <1>6 DEF DonorsInv, AboutService
  <1>10. ~GiftIsIn /\ ~GiftIsIn' BY <1>2, <1>6 DEF GiftIsIn
  <1>11. NoneTooOften'
    <2>1. DueOf(services[c]) = DueOf(row) BY <1>2, <1>4, NoServiceIs DEF DueOf
    <2>2. DueTotal' = DueTotal BY <1>2, <1>4, <2>1, DueTurns
    <2>3. /\ TriesOf(errand)' = TriesOf(errand) /\ WorthOf(errand)' = WorthOf(errand)
      BY <1>2, <1>6 DEF TriesOf, WorthOf
    <2>4. QED BY <1>2, <2>2, <2>3 DEF DonorsInv, NoneTooOften
  <1>12. NoneForgotten' BY <1>2, <1>10 DEF DonorsInv, NoneForgotten
  <1>13. CountedOnce'
    <2>1. SUFFICES ASSUME ~Failed'
                   PROVE  /\ \A d \in GiftCalls : services'[d].at # "stats"
                          /\ given'.total = SumOf(Gifts \ unsent')
      BY <1>6, <1>10 DEF CountedOnce
    <2>2. ~Failed BY <1>2, <2>1 DEF Failed
    <2>3. QED BY <1>2, <1>4, <1>5, <2>2, DonorsAssumption DEF DonorsInv, CountedOnce
  <1>14. BadgesEarned'
    BY <1>2, <1>4, <1>5, <1>6 DEF DonorsInv, BadgesEarned, HandsOff, Earned
  <1>15. BadgeInStep'
    BY <1>2, <1>4, <1>5, <1>6, DonorsAssumption DEF DonorsInv, BadgeInStep, HandsOff, Failed
  <1>16. QED BY <1>7, <1>8, <1>9, <1>11, <1>12, <1>13, <1>14, <1>15 DEF DonorsInv

LEMMA AwardCheckKeeps ==
    ASSUME DonorsInv, NEW c \in GiftCalls, AwardCheck(c)
    PROVE  DonorsInv'
  <1>1. PICK b \in Badges : b = services[c].badge BY DEF AwardCheck, DonorsInv, AboutService
  <1>2. /\ services[c].at = "check" /\ c # "none"
        /\ UNCHANGED <<unsent, given, badge, offered, errand, giveUps, byHand, answered>>
    BY DonorsAssumption DEF AwardCheck
  <1>3. services[c] \in ServiceRows /\ badge \in Badges \union {0} BY DEF DonorsInv, DonorsTyped
  <1>4. PICK row \in ServiceRows :
          /\ services' = [services EXCEPT ![c] = row]
          /\ \/ b \notin offered /\ row.at = IF errand.call = c THEN "refused" ELSE "free"
             \/ badge = b /\ row.at = IF errand.call = c THEN "ok" ELSE "free"
             \/ row.at = "write" /\ row.badge = b /\ row.found = badge
    <2>1. CASE b \notin offered
      <3>1. Ends(c, "refused") BY <1>1, <2>1 DEF AwardCheck
      <3>2. QED BY <2>1, <3>1, EndsIs
    <2>2. CASE b \in offered /\ badge = b
      <3>1. Ends(c, "ok") BY <1>1, <2>2 DEF AwardCheck
      <3>2. QED BY <2>2, <3>1, EndsIs
    <2>3. CASE b \in offered /\ badge # b
      <3>1. PICK row : row = [services[c] EXCEPT !.at = "write", !.found = badge] OBVIOUS
      <3>2. row \in ServiceRows /\ row.at = "write" /\ row.badge = b /\ row.found = badge
        BY <1>1, <1>3, <3>1 DEF ServiceRows
      <3>3. services' = [services EXCEPT ![c].at = "write", ![c].found = badge]
        BY <1>1, <2>3 DEF AwardCheck
      <3>4. services' = [services EXCEPT ![c] = row]
        <4>1. services \in [GiftCalls -> ServiceRows] BY DEF DonorsInv, DonorsTyped
        <4>2. QED BY <3>1, <3>3, <4>1
      <3>5. QED BY <3>2, <3>4
    <2>4. QED BY <2>1, <2>2, <2>3
  <1>5. errand.call = c => errand.at = "award" /\ errand.badge = b
    <2>1. errand.call = c => errand.at \in {"stats", "award"} BY <1>2, Waiting
    <2>2. QED BY <1>1, <1>2, <2>1 DEF DonorsInv, AboutService
  <1>6. row.at # "stats" /\ (row.at \in {"check", "write"} => row.at = "write" /\ row.badge = b)
        /\ (errand.call = c => row.at \in {"check", "write", "ok", "refused"})
    BY <1>4
  <1>7. /\ DonorsTyped' /\ AboutErrand' /\ \A d \in GiftCalls : AboutService(d)'
        /\ NoneTooOften' /\ NoneForgotten' /\ CountedOnce'
        /\ services'[c] = row /\ \A d \in GiftCalls \ {c} : services'[d] = services[d]
    <2>1. offered' \subseteq Badges /\ byHand' \in 0..MaxByHand BY <1>2 DEF DonorsInv, DonorsTyped
    <2>2. QED BY <1>2, <1>3, <1>4, <1>5, <1>6, <2>1, AwardTurns
  <1>8. BadgesEarned'
    BY <1>1, <1>2, <1>6, <1>7 DEF DonorsInv, BadgesEarned, HandsOff, Earned
  <1>9. BadgeInStep'
    <2>1. SUFFICES ASSUME HandsOff', ~Failed' PROVE BadgeInStep' BY DEF BadgeInStep
    <2>2. HandsOff /\ ~Failed BY <1>2, <2>1 DEF HandsOff, Failed
    <2>3. \A d \in GiftCalls : services[d].at # "free" => errand.call = d
      BY <2>2 DEF DonorsInv, BadgeInStep
    <2>4. errand.call = c /\ errand.at = "award" /\ errand.badge = b BY <1>2, <1>5, <2>3
    <2>5. b \in offered BY <2>2 DEF DonorsInv, BadgesEarned
    <2>6. /\ row.at # "refused" /\ (row.at = "ok" => badge = b)
          /\ row.at = "write" => row.found = badge
      BY <1>4, <2>4, <2>5
    <2>7. \A d \in GiftCalls : services'[d].at # "free" => errand.call = d BY <1>7, <2>3, <2>4
    <2>8. errand.badge = Highest(given.total) BY <2>2, <2>4 DEF DonorsInv, BadgeInStep
    <2>9. QED BY <1>2, <1>7, <2>4, <2>6, <2>7, <2>8 DEF BadgeInStep
  <1>10. QED BY <1>7, <1>8, <1>9 DEF DonorsInv

LEMMA AwardWriteKeeps ==
    ASSUME DonorsInv, NEW c \in GiftCalls, AwardWrite(c)
    PROVE  DonorsInv'
  <1>1. PICK b \in Badges : b = services[c].badge BY DEF AwardWrite, DonorsInv, AboutService
  <1>2. /\ services[c].at = "write" /\ c # "none"
        /\ UNCHANGED <<unsent, given, offered, errand, giveUps, byHand, answered>>
    BY DonorsAssumption DEF AwardWrite
  <1>3. PICK row \in ServiceRows :
          /\ services' = [services EXCEPT ![c] = row]
          /\ \/ badge' = b /\ row.at = IF errand.call = c THEN "ok" ELSE "free"
             \/ /\ ~((services[c].found = 0) <=> (badge = 0)) /\ badge' = badge
                /\ row.at = IF errand.call = c THEN "refused" ELSE "free"
    <2>1. CASE (services[c].found = 0) = (badge = 0)
      <3>1. badge' = b /\ Ends(c, "ok") BY <1>1, <2>1 DEF AwardWrite, Replaced
      <3>2. QED BY <3>1, EndsIs
    <2>2. CASE ~((services[c].found = 0) = (badge = 0))
      <3>1. badge' = badge /\ Ends(c, "refused") BY <2>2 DEF AwardWrite
      <3>2. ~((services[c].found = 0) <=> (badge = 0)) BY <2>2
      <3>3. QED BY <3>1, <3>2, EndsIs
    <2>3. QED BY <2>1, <2>2
  <1>4. errand.call = c => errand.at = "award" /\ errand.badge = b
    <2>1. errand.call = c => errand.at \in {"stats", "award"} BY <1>2, Waiting
    <2>2. QED BY <1>1, <1>2, <2>1 DEF DonorsInv, AboutService
  <1>5. row.at \in {"ok", "refused", "free"} /\ (errand.call = c => row.at \in {"ok", "refused"})
    BY <1>3
  <1>6. badge' \in Badges \union {0} BY <1>3 DEF DonorsInv, DonorsTyped
  <1>7. /\ DonorsTyped' /\ AboutErrand' /\ \A d \in GiftCalls : AboutService(d)'
        /\ NoneTooOften' /\ NoneForgotten' /\ CountedOnce'
        /\ services'[c] = row /\ \A d \in GiftCalls \ {c} : services'[d] = services[d]
    <2>1. offered' \subseteq Badges /\ byHand' \in 0..MaxByHand BY <1>2 DEF DonorsInv, DonorsTyped
    <2>2. QED BY <1>2, <1>3, <1>5, <1>6, <2>1, AwardTurns
  <1>8. BadgesEarned'
    <2>1. HandsOff /\ badge' # 0 => Earned(badge')
      BY <1>1, <1>2, <1>3 DEF DonorsInv, BadgesEarned
    <2>2. QED BY <1>2, <1>5, <1>7, <2>1 DEF DonorsInv, BadgesEarned, HandsOff, Earned
  <1>9. BadgeInStep'
    <2>1. SUFFICES ASSUME HandsOff', ~Failed' PROVE BadgeInStep' BY DEF BadgeInStep
    <2>2. HandsOff /\ ~Failed BY <1>2, <2>1 DEF HandsOff, Failed
    <2>3. \A d \in GiftCalls : services[d].at # "free" => errand.call = d
      BY <2>2 DEF DonorsInv, BadgeInStep
    <2>4. errand.call = c /\ errand.at = "award" /\ errand.badge = b BY <1>2, <1>4, <2>3
    <2>5. services[c].found = badge BY <1>2, <2>2, <2>4 DEF DonorsInv, BadgeInStep
    <2>6. row.at = "ok" /\ badge' = b BY <1>3, <2>4, <2>5
    <2>7. \A d \in GiftCalls : services'[d].at # "free" => errand.call = d BY <1>7, <2>3, <2>4
    <2>8. errand.badge = Highest(given.total) BY <2>2, <2>4 DEF DonorsInv, BadgeInStep
    <2>9. QED BY <1>2, <1>7, <2>4, <2>6, <2>7, <2>8 DEF BadgeInStep
  <1>10. QED BY <1>7, <1>8, <1>9 DEF DonorsInv

\* An administrator has a hand in it from now on.
LEMMA ByHandIs ==
    ASSUME DonorsTyped, ByHand
    PROVE  ~HandsOff' /\ byHand' \in 0..MaxByHand
  BY DonorsAssumption DEF DonorsTyped, ByHand, HandsOff

LEMMA AwardByHandKeeps ==
    ASSUME DonorsInv, NEW c \in GiftCalls, NEW b \in Badges, AwardByHand(c, b)
    PROVE  DonorsInv'
  <1>1. PICK row : row = [NoService EXCEPT !.at = "check", !.badge = b] OBVIOUS
  <1>2. /\ services[c].at = "free" /\ services' = [services EXCEPT ![c] = row] /\ ByHand
        /\ UNCHANGED <<unsent, given, badge, offered, errand, giveUps, answered>>
    BY <1>1, NoServiceIs DEF AwardByHand
  <1>3. row \in ServiceRows /\ row.at = "check" /\ row.badge = b
    BY <1>1 DEF NoService, ServiceRows
  <1>4. ~HandsOff' /\ byHand' \in 0..MaxByHand BY <1>2, ByHandIs DEF DonorsInv
  <1>5. errand.call # c
    <2>1. c # "none" BY DonorsAssumption
    <2>2. errand.call = c => errand.at \in {"stats", "award"} BY <2>1, Waiting
    <2>3. QED BY <1>2, <2>2 DEF DonorsInv, AboutService
  <1>6. /\ DonorsTyped' /\ AboutErrand' /\ \A d \in GiftCalls : AboutService(d)'
        /\ NoneTooOften' /\ NoneForgotten' /\ CountedOnce'
    <2>1. badge' \in Badges \union {0} /\ offered' \subseteq Badges
      BY <1>2 DEF DonorsInv, DonorsTyped
    <2>2. QED BY <1>2, <1>3, <1>4, <1>5, <2>1, AwardTurns
  <1>7. QED BY <1>4, <1>6 DEF DonorsInv, BadgesEarned, BadgeInStep

LEMMA BadgesTurn ==
    ASSUME DonorsInv, UNCHANGED <<unsent, given, errand, services, giveUps, answered>>,
           badge' \in Badges \union {0}, offered' \subseteq Badges, ByHand
    PROVE  DonorsInv'
  <1>1. ~HandsOff' /\ byHand' \in 0..MaxByHand BY ByHandIs DEF DonorsInv
  <1>2. DonorsTyped' /\ AboutErrand' BY <1>1 DEF DonorsInv, DonorsTyped, AboutErrand
  <1>3. \A d \in GiftCalls : AboutService(d)' BY DEF DonorsInv, AboutService
  <1>4. NoneTooOften'
    <2>1. DueTotal' = DueTotal BY DueStays
    <2>2. TriesOf(errand)' = TriesOf(errand) /\ WorthOf(errand)' = WorthOf(errand)
      BY DEF TriesOf, WorthOf
    <2>3. QED BY <2>1, <2>2 DEF DonorsInv, NoneTooOften
  <1>5. NoneForgotten' BY DEF DonorsInv, NoneForgotten, GiftIsIn
  <1>6. CountedOnce' BY DEF DonorsInv, CountedOnce, GiftIsIn, Failed
  <1>7. QED BY <1>1, <1>2, <1>3, <1>4, <1>5, <1>6 DEF DonorsInv, BadgesEarned, BadgeInStep

LEMMA DonorsStutter == DonorsInv /\ UNCHANGED donorVars => DonorsInv'
  <1> SUFFICES ASSUME DonorsInv, UNCHANGED donorVars PROVE DonorsInv'
    OBVIOUS
  <1>1. UNCHANGED <<unsent, given, badge, offered, errand, services, giveUps, byHand, answered>>
    BY DEF donorVars
  <1>2. NoneTooOften'
    <2>1. DueTotal' = DueTotal BY <1>1, DueStays
    <2>2. TriesOf(errand)' = TriesOf(errand) /\ WorthOf(errand)' = WorthOf(errand)
      BY <1>1 DEF TriesOf, WorthOf
    <2>3. QED BY <1>1, <2>1, <2>2 DEF DonorsInv, NoneTooOften
  <1>3. DonorsTyped' /\ AboutErrand' BY <1>1 DEF DonorsInv, DonorsTyped, AboutErrand
  <1>4. \A d \in GiftCalls : AboutService(d)' BY <1>1 DEF DonorsInv, AboutService
  <1>5. NoneForgotten' /\ CountedOnce'
    BY <1>1 DEF DonorsInv, NoneForgotten, CountedOnce, GiftIsIn, Failed
  <1>6. BadgesEarned' /\ BadgeInStep'
    BY <1>1 DEF DonorsInv, BadgesEarned, BadgeInStep, HandsOff, Failed, Earned
  <1>7. QED BY <1>2, <1>3, <1>4, <1>5, <1>6 DEF DonorsInv

LEMMA DonorsNext_Inv == DonorsInv /\ [DonorsNext]_donorVars => DonorsInv'
  <1> SUFFICES ASSUME DonorsInv, [DonorsNext]_donorVars PROVE DonorsInv'
    OBVIOUS
  <1>1. CASE Revoke
    <2>1. offered' \subseteq Badges BY <1>1 DEF Revoke, DonorsInv, DonorsTyped
    <2>2. QED BY <1>1, <2>1, BadgesTurn DEF Revoke
  <1>2. ASSUME NEW b \in Badges, Switch(b) PROVE DonorsInv'
    <2>1. offered' \subseteq Badges /\ badge' \in Badges \union {0}
      BY <1>2 DEF Switch, DonorsInv, DonorsTyped
    <2>2. QED BY <1>2, <2>1, BadgesTurn DEF Switch
  <1>3. QED
    BY <1>1, <1>2, DonorsStutter, TakeGiftKeeps, AnsweredKeeps, GiveUpKeeps, LookAtStatsKeeps,
       SendStatsKeeps, SendAwardKeeps, UpdateStatsKeeps, AwardCheckKeeps, AwardWriteKeeps,
       AwardByHandKeeps
    DEF DonorsNext

LEMMA DonorsInvariant == DonorsSpec => []DonorsInv
  BY DonorsInit_Inv, DonorsNext_Inv, PTL DEF DonorsSpec

\* However calls are given up, arrive late or are tried again, the statistics hold every
\* answered gift and none more often than it was tried (updateDonorStats).
THEOREM GiftsAreCounted == DonorsSpec => []GiftsCounted
  <1>1. ASSUME DonorsInv PROVE GiftsCounted
    <2>1. SumOf(answered) <= given.total BY <1>1 DEF DonorsInv, NoneForgotten
    <2>2. given.total <= StatTries * SumOf(Gifts \ unsent)
      <3>1. TriesOf(errand) * WorthOf(errand) \in Nat /\ given.total \in Nat
            /\ StatTries * SumOf(Gifts \ unsent) \in Nat
        BY <1>1, Numbers, Times, DonorsAssumption DEF DonorsInv
      <3>2. DueTotal \in Nat BY <1>1, DueStays
      <3>3. QED BY <1>1, <3>1, <3>2 DEF DonorsInv, NoneTooOften
    <2>3. ~Failed /\ errand.at = "idle" => given.total = SumOf(Gifts \ unsent)
      BY <1>1 DEF DonorsInv, CountedOnce
    <2>4. QED BY <2>1, <2>2, <2>3 DEF GiftsCounted
  <1>2. QED BY <1>1, DonorsInvariant, PTL

\* No badge is above what was given, and while no call fails it is the highest one
\* (checkAndAwardBadge and awardBadge).
THEOREM BadgesMatch == DonorsSpec => []BadgeMatchesGifts
  <1>1. ASSUME DonorsInv PROVE BadgeMatchesGifts
    <2>1. SUFFICES ASSUME HandsOff
                   PROVE  /\ badge # 0 => Milestones[badge] <= given.total
                          /\ ~Failed /\ errand.at = "idle" /\ given.count > 0 =>
                               badge # 0 /\ \A b \in Badges : Milestones[b] <= given.total => b <= badge
      BY DEF BadgeMatchesGifts, HandsOff
    <2>2. badge # 0 => Milestones[badge] <= given.total
      BY <1>1, <2>1 DEF DonorsInv, BadgesEarned, Earned
    <2>3. ~Failed /\ errand.at = "idle" /\ given.count > 0 => badge = Highest(given.total)
      BY <1>1, <2>1 DEF DonorsInv, BadgeInStep
    <2>4. given.total \in Nat BY <1>1, Numbers DEF DonorsInv
    <2>5. QED BY <2>2, <2>3, <2>4, HighestIsEarned
  <1>2. QED BY <1>1, DonorsInvariant, PTL
====
