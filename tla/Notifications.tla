---- MODULE Notifications ----
(***************************************************************************)
(* One event becomes a notification for each of its recipients             *)
(* (apps/campaign: services/notification, its queue and processor, and the *)
(* handlers of campaign and post events).  The event may be emitted again, *)
(* and its job is retried as a whole; a mark in Redis tells an event that  *)
(* was processed.                                                          *)
(*                                                                         *)
(* One recipient: a job whose id is the event's.  Several: a grouped job,  *)
(* whose id is the time, that creates all notifications side by side and   *)
(* fails with the first of them while the others run on.  Two grouped jobs *)
(* of the event may run at once: Bull starts a loop for each of the three  *)
(* named handlers of CAMPAIGN_JOBS (these two and that of likes), and each *)
(* loop takes jobs of any name.                                            *)
(***************************************************************************)
EXTENDS Naturals, FiniteSets

CONSTANTS
    Recipients,
    Emissions,        \* bound: times the event is emitted
    NotifyLoops,      \* loops that take jobs from the queue
    JobTries,         \* attempts of a job
    MaxNotifyErrors,  \* bound: errors of the database or Redis
    MaxForgets        \* bound: times the mark expires

ASSUME NotificationsAssumption ==
    /\ JobTries \in Nat \ {0} /\ NotifyLoops \in Nat \ {0}
    /\ MaxNotifyErrors \in Nat /\ MaxForgets \in Nat

VARIABLES
    audience,   \* the recipients of the event
    jobs,       \* jobs[j]: the job of an emission, and the attempts it has left
    work,       \* the notifications being created: job, attempt, recipient and step
    told,       \* told[u]: the notifications created for u
    processed,  \* the mark of the event
    notifyErrors,  \* what is left of MaxNotifyErrors
    forgets,    \* what is left of MaxForgets
    twice       \* history: recipients of whom an attempt broke between notification and
                \* mark, whose notification outlived the mark, or whose notification was
                \* still being created when another attempt or job looked at the mark

notificationVars == <<audience, jobs, work, told, processed, notifyErrors, forgets, twice>>

NotificationsInit ==
    /\ audience \in SUBSET Recipients \ {{}}
    /\ jobs = [j \in Emissions |-> [at |-> "none", tries |-> JobTries]]
    /\ work = {}
    /\ told = [u \in Recipients |-> 0]
    /\ processed = FALSE
    /\ notifyErrors = MaxNotifyErrors /\ forgets = MaxForgets
    /\ twice = {}

-----------------------------------------------------------------------------
\* A job with the id of one that waits, runs or failed for good is not added.
Emit(j) ==
    /\ jobs[j].at = "none"
    /\ Cardinality(audience) = 1 => \A i \in Emissions : jobs[i].at \in {"none", "completed"}
    /\ jobs' = [jobs EXCEPT ![j].at = "waiting"]
    /\ UNCHANGED <<audience, work, told, processed, notifyErrors, forgets, twice>>

\* Mutant: the mark is not looked at.
MayCreate_Always(mark) == TRUE

MayCreate(mark) == ~mark

Active == {j \in Emissions : jobs[j].at = "active"}

\* The job's reads of the mark go out together, before anything it writes.
TakeEvent(j) ==
    /\ jobs[j].at = "waiting" /\ Cardinality(Active) < NotifyLoops
    /\ jobs' = [jobs EXCEPT ![j].at = "active"]
    /\ work' = work \union {[job |-> j, try |-> jobs[j].tries, u |-> u,
                             at |-> IF MayCreate(processed) THEN "save" ELSE "failed"]
                            : u \in audience}
    /\ twice' = twice \union {w.u : w \in {w \in work : w.at \in {"save", "mark"}}}
    /\ UNCHANGED <<audience, told, processed, notifyErrors, forgets>>

Turn(w, at) == work' = (work \ {w}) \union {[w EXCEPT !.at = at]}

Save(w) ==
    /\ w.at = "save"
    /\ told' = [told EXCEPT ![w.u] = @ + 1]
    /\ Turn(w, "mark")
    /\ UNCHANGED <<audience, jobs, processed, notifyErrors, forgets, twice>>

\* handlePostCreation: the unread counter, the list and, at last, the mark
Mark(w) ==
    /\ w.at = "mark"
    /\ processed' = TRUE
    /\ Turn(w, "done")
    /\ UNCHANGED <<audience, jobs, told, notifyErrors, forgets, twice>>

CreateBreaks(w) ==
    /\ w.at \in {"save", "mark"} /\ notifyErrors > 0
    /\ notifyErrors' = notifyErrors - 1
    /\ twice' = IF w.at = "mark" THEN twice \union {w.u} ELSE twice
    /\ Turn(w, "failed")
    /\ UNCHANGED <<audience, jobs, told, processed, forgets>>

Attempt(j) == {w \in work : w.job = j /\ w.try = jobs[j].tries}

\* What is being created outlives its attempt.
OnceEnded(j) == {w \in work : w.job # j \/ w.at \in {"save", "mark"}}

Succeeds(ws) == \A w \in ws : w.at = "done"

Complete(j) ==
    /\ jobs[j].at = "active" /\ Succeeds(Attempt(j))
    /\ jobs' = [jobs EXCEPT ![j].at = "completed"]
    /\ work' = OnceEnded(j)
    /\ UNCHANGED <<audience, told, processed, notifyErrors, forgets, twice>>

\* The first failure ends the attempt.
FailAttempt(j) ==
    /\ jobs[j].at = "active" /\ \E w \in Attempt(j) : w.at = "failed"
    /\ jobs' = [jobs EXCEPT ![j] = IF @.tries > 1 THEN [at |-> "waiting", tries |-> @.tries - 1]
                                   ELSE [@ EXCEPT !.at = "failed"]]
    /\ work' = OnceEnded(j)
    /\ UNCHANGED <<audience, told, processed, notifyErrors, forgets, twice>>

\* The mark lives ten minutes.
Forget ==
    /\ processed /\ forgets > 0
    /\ processed' = FALSE /\ forgets' = forgets - 1
    /\ twice' = twice \union {u \in Recipients : told[u] > 0}
    /\ UNCHANGED <<audience, jobs, work, told, notifyErrors>>

-----------------------------------------------------------------------------
NotificationsNext ==
    \/ \E j \in Emissions : Emit(j) \/ TakeEvent(j) \/ Complete(j) \/ FailAttempt(j)
    \/ \E w \in work : Save(w) \/ Mark(w) \/ CreateBreaks(w)
    \/ Forget

NotificationsSpec == NotificationsInit /\ [][NotificationsNext]_notificationVars

-----------------------------------------------------------------------------
\* The shapes of jobs and of the notifications being created.
NotificationsTypeOK ==
    /\ audience \subseteq Recipients /\ twice \subseteq Recipients
    /\ jobs \in [Emissions -> [at: {"none", "waiting", "active", "completed", "failed"},
                               tries: 1..JobTries]]
    /\ work \subseteq [job: Emissions, try: 1..JobTries, u: Recipients,
                       at: {"save", "mark", "done", "failed"}]
    /\ told \in [Recipients -> Nat] /\ processed \in BOOLEAN
    /\ notifyErrors \in Nat /\ forgets \in Nat

\* Nobody is told twice of an event that is emitted again or whose job is retried, however
\* its jobs follow one another or run at once, and everybody is told by a job that
\* completed.  Left out are the recipients of whom an attempt broke between the
\* notification and the mark, or was between them and had not set the mark when another
\* attempt or job looked for it: the mark is read and set apart, and two jobs at once may
\* both find none.
ToldOnce ==
    /\ \A u \in Recipients \ twice : told[u] <= 1
    /\ (\E j \in Emissions : jobs[j].at = "completed") => \A u \in audience : told[u] > 0
====
