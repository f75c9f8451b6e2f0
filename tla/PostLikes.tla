---- MODULE PostLikes ----
(***************************************************************************)
(* Likes of a post (apps/campaign: services/post/post-like.service, its    *)
(* queue, processor and repository).  A tap is checked against the rows,   *)
(* queued, and carried out by a job; when the queue refuses it, the tap is *)
(* carried out at once.  The counter shown meanwhile, in Redis, is left    *)
(* out: it is a guess that every write replaces.                           *)
(*                                                                         *)
(* Jobs are taken in order, but several run at once: Bull starts a loop    *)
(* for each of the three named handlers of CAMPAIGN_JOBS (this one and two *)
(* of notifications), each of which takes jobs of any name, in every       *)
(* process of the service.                                                 *)
(***************************************************************************)
EXTENDS Naturals, Sequences, FiniteSets
LOCAL INSTANCE SequencesExt

CONSTANTS
    Fans,
    Taps,          \* bound: taps in progress at once
    LikeLoops,     \* loops that take jobs from the queue
    LikeTries,     \* attempts of a job
    MaxQueued,     \* bound: jobs waiting
    MaxLikeErrors  \* bound: failures of the queue, the database or Redis

ASSUME PostLikesAssumption ==
    /\ IsFiniteSet(Fans)
    /\ LikeLoops \in Nat \ {0} /\ LikeTries \in Nat \ {0} /\ MaxQueued \in Nat /\ MaxLikeErrors \in Nat

VARIABLES
    likes,       \* the fans with a row
    likeCount,   \* like_count of the post
    taps,        \* taps[t]: the tap in progress
    likeQueue,   \* the jobs waiting, the next one first
    running,     \* the jobs that run, in the order in which they were taken
    wish,        \* history: what each fan asked for last, of the taps that were accepted
    likeErrors,  \* what is left of MaxLikeErrors
    jumped       \* history: fans of whom a job lost its turn (retried or given up) or ran
                 \* beside one taken earlier, or a tap was carried out past the queue, and
                 \* who have not tapped anew with nothing pending

likeVars == <<likes, likeCount, taps, likeQueue, running, wish, likeErrors, jumped>>

Actions == {"LIKE", "UNLIKE"}
Nothing == [at |-> "idle", u |-> "none", do |-> "none", tries |-> 0]

PostLikesInit ==
    /\ likes = {} /\ likeCount = 0
    /\ taps = [t \in Taps |-> Nothing]
    /\ likeQueue = <<>> /\ running = <<>>
    /\ wish = [u \in Fans |-> "UNLIKE"]
    /\ likeErrors = MaxLikeErrors /\ jumped = {}

LikeErrs == likeErrors > 0 /\ likeErrors' = likeErrors - 1

-----------------------------------------------------------------------------
Wanted(u, do) == (do = "LIKE") = (u \in likes)

\* checkIfUserLikedPost
Tap(t, u, do) ==
    /\ taps[t].at = "idle" /\ ~Wanted(u, do)
    /\ taps' = [taps EXCEPT ![t] = [at |-> "queue", u |-> u, do |-> do, tries |-> LikeTries]]
    /\ UNCHANGED <<likes, likeCount, likeQueue, running, wish, likeErrors, jumped>>

\* A job waits, or has not carried out what it was asked.
Pending(u) ==
    \/ \E i \in DOMAIN likeQueue : likeQueue[i].u = u
    \/ \E i \in DOMAIN running : running[i].u = u /\ running[i].at \in {"check", "write"}

Queue(t) ==
    LET q == taps[t] IN
    /\ q.at = "queue" /\ Len(likeQueue) < MaxQueued
    /\ likeQueue' = Append(likeQueue, [q EXCEPT !.at = "check"])
    /\ wish' = [wish EXCEPT ![q.u] = q.do]
    /\ taps' = [taps EXCEPT ![t] = Nothing]
    /\ jumped' = IF Pending(q.u) THEN jumped ELSE jumped \ {q.u}
    /\ UNCHANGED <<likes, likeCount, running, likeErrors>>

QueueFails(t) ==
    /\ taps[t].at = "queue" /\ LikeErrs
    /\ taps' = [taps EXCEPT ![t].at = "fallback"]
    /\ UNCHANGED <<likes, likeCount, likeQueue, running, wish, jumped>>

\* Mutant: the row and the count are not one transaction, and the row may be there already.
Counted_Always(u, do) == TRUE

Counted(u, do) == ~Wanted(u, do)

\* likePost and unlikePost of the repository: the row is unique, a delete needs it, and
\* the count goes with it.
Carry(u, do) ==
    /\ Counted(u, do)
    /\ likes' = IF do = "LIKE" THEN likes \union {u} ELSE likes \ {u}
    /\ likeCount' = IF do = "LIKE" THEN likeCount + 1 ELSE likeCount - 1

Fallback(t) ==
    LET q == taps[t] IN
    /\ q.at = "fallback"
    /\ \/ Carry(q.u, q.do) /\ wish' = [wish EXCEPT ![q.u] = q.do]
          /\ jumped' = jumped \union {q.u}
       \/ ~Counted(q.u, q.do) /\ UNCHANGED <<likes, likeCount, wish, jumped>>
    /\ taps' = [taps EXCEPT ![t] = Nothing]
    /\ UNCHANGED <<likeQueue, running, likeErrors>>

-----------------------------------------------------------------------------
(* The jobs that run: processLike and processUnlike. *)

\* Mutant: the newest job is taken first.
NextJob_Newest(q) == Len(q)

NextJob(q) == 1

TakeJob ==
    /\ Len(running) < LikeLoops /\ likeQueue # <<>>
    /\ running' = Append(running, likeQueue[NextJob(likeQueue)])
    /\ likeQueue' = RemoveAt(likeQueue, NextJob(likeQueue))
    /\ UNCHANGED <<likes, likeCount, taps, wish, likeErrors, jumped>>

\* An earlier job of the fan is still to be carried out.
RunsBeside(i) ==
    \E k \in 1..(i - 1) : running[k].u = running[i].u /\ running[k].at \in {"check", "write"}

CheckLiked(i) ==
    /\ running[i].at = "check"
    /\ running' = IF Wanted(running[i].u, running[i].do) THEN RemoveAt(running, i)
                  ELSE [running EXCEPT ![i].at = "write"]
    /\ jumped' = IF RunsBeside(i) THEN jumped \union {running[i].u} ELSE jumped
    /\ UNCHANGED <<likes, likeCount, taps, likeQueue, wish, likeErrors>>

WriteLike(i) ==
    /\ running[i].at = "write" /\ Carry(running[i].u, running[i].do)
    /\ running' = [running EXCEPT ![i].at = "counter"]
    /\ UNCHANGED <<taps, likeQueue, wish, likeErrors, jumped>>

SetCounter(i) ==
    /\ running[i].at = "counter"
    /\ running' = RemoveAt(running, i)
    /\ UNCHANGED <<likes, likeCount, taps, likeQueue, wish, likeErrors, jumped>>

\* The row was written in between, or the database or Redis failed: to the end of the queue.
JobErrs(i) ==
    /\ \/ running[i].at = "write" /\ ~Counted(running[i].u, running[i].do) /\ UNCHANGED likeErrors
       \/ LikeErrs
    /\ likeQueue' = IF running[i].tries > 1
                    THEN Append(likeQueue, [running[i] EXCEPT !.at = "check", !.tries = @ - 1])
                    ELSE likeQueue
    /\ running' = RemoveAt(running, i)
    /\ jumped' = jumped \union {running[i].u}
    /\ UNCHANGED <<likes, likeCount, taps, wish>>

-----------------------------------------------------------------------------
PostLikesNext ==
    \/ \E t \in Taps : \/ \E u \in Fans, do \in Actions : Tap(t, u, do)
                       \/ Queue(t) \/ QueueFails(t) \/ Fallback(t)
    \/ TakeJob
    \/ \E i \in DOMAIN running : CheckLiked(i) \/ WriteLike(i) \/ SetCounter(i) \/ JobErrs(i)

PostLikesSpec == PostLikesInit /\ [][PostLikesNext]_likeVars

-----------------------------------------------------------------------------
\* The shapes of taps and jobs.
PostLikesTypeOK ==
    LET Jobs == [at: {"queue", "fallback", "check", "write", "counter"}, u: Fans,
                 do: Actions, tries: 1..LikeTries]
    IN  /\ likes \subseteq Fans /\ likeCount \in 0..Cardinality(Fans)
        /\ taps \in [Taps -> Jobs \union {Nothing}]
        /\ likeQueue \in Seq(Jobs) /\ running \in Seq(Jobs) /\ Len(running) <= LikeLoops
        /\ wish \in [Fans -> Actions] /\ likeErrors \in Nat /\ jumped \subseteq Fans

\* Once every job has ended a fan likes the post exactly if that was the fan's last
\* accepted tap, however taps of the fan overlapped, jobs came twice and jobs of several
\* fans ran at once, and the count is the number of fans.  Left out are fans of whom a
\* job lost its turn to an error or ran beside an earlier one, until they tap anew with
\* nothing pending.
LastTapWins ==
    /\ likeCount = Cardinality(likes)
    /\ likeQueue = <<>> /\ running = <<>> =>
         \A u \in Fans \ jumped : (u \in likes) = (wish[u] = "LIKE")
====
