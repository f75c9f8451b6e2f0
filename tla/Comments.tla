---- MODULE Comments ----
(***************************************************************************)
(* Comments on a post (apps/campaign: services/post/post-comment.service,  *)
(* post-cache.service and the comment repository).  Comments are threads   *)
(* of bounded depth, deleted by being switched off; the post counts them   *)
(* and Redis keeps the list readers are shown.  The counter in Redis is    *)
(* left out: nothing reads it but the code that keeps it.                  *)
(***************************************************************************)
EXTENDS Integers, Sequences, FiniteSets

CONSTANTS
    Posters,          \* bound: requests in progress at once
    MAX_COMMENT_DEPTH,
    MaxComments,      \* bound: comments ever made
    MaxEdits,         \* bound: comments that are edited
    MaxSkips          \* bound: how often Redis is absent or fails

ASSUME CommentsAssumption ==
    {MAX_COMMENT_DEPTH, MaxComments, MaxEdits, MaxSkips} \subseteq Nat

VARIABLES
    comments,   \* the rows, in order of creation
    counted,    \* comment_count of the post
    shown,      \* the list in Redis
    posters,    \* posters[p]: the request in progress
    skips,      \* what is left of MaxSkips
    miscounted, \* history: a deletion was written after what it had counted had changed
    outdated    \* history: the list was stored after a write it had not seen, or Redis
                \* was not told of a write since

commentVars == <<comments, counted, shown, posters, skips, miscounted, outdated>>

NoPoster == [at |-> "idle", id |-> 0, depth |-> 0, replies |-> 0, seen |-> {}]
Cached(list) == [cached |-> TRUE, list |-> list]
NotCached == [cached |-> FALSE, list |-> {}]

CommentsInit ==
    /\ comments = <<>> /\ counted = 0
    /\ shown = NotCached
    /\ posters = [p \in Posters |-> NoPoster]
    /\ skips = MaxSkips /\ miscounted = FALSE /\ outdated = FALSE

Ids == DOMAIN comments
LiveComments == {i \in Ids : comments[i].live}
LiveReplies(i) == {j \in LiveComments : comments[j].parent = i}

\* findCommentsByPostId makes a tree of the live rows, a reply under its parent if that is one
\* of them: what is below a deleted comment is nowhere in the tree.
ListOf(rows) ==
    LET InTree[i \in DOMAIN rows] ==
            rows[i].live /\ (rows[i].parent = 0 \/ InTree[rows[i].parent])
    IN {<<i, rows[i].text>> : i \in {j \in DOMAIN rows : InTree[j]}}

List == ListOf(comments)

Proceed(p, q) == posters' = [posters EXCEPT ![p] = q]
EndPost(p) == Proceed(p, NoPoster)
Going(steps) == Cardinality({p \in Posters : posters[p].at \in steps})

-----------------------------------------------------------------------------
(* createComment *)

\* The post is there; a comment replies to none (0) or to one it can find.
StartComment(p, parent) ==
    /\ posters[p].at = "idle" /\ Len(comments) + Going({"deepen", "insert"}) < MaxComments
    /\ parent # 0 => comments[parent].live /\ comments[parent].depth < MAX_COMMENT_DEPTH
    /\ Proceed(p, [NoPoster EXCEPT !.at = IF parent = 0 THEN "insert" ELSE "deepen", !.id = parent])
    /\ UNCHANGED <<comments, counted, shown, skips, miscounted, outdated>>

\* The repository looks for the parent again; a parent deleted since leaves depth 0.
Deepen(p) ==
    LET q == posters[p] IN
    /\ q.at = "deepen"
    /\ Proceed(p, [q EXCEPT !.at = "insert",
                            !.depth = IF comments[q.id].live THEN comments[q.id].depth + 1 ELSE 0])
    /\ UNCHANGED <<comments, counted, shown, skips, miscounted, outdated>>

\* One transaction: the row and the count.
InsertComment(p) ==
    LET q == posters[p] IN
    /\ q.at = "insert"
    /\ comments' = Append(comments, [parent |-> q.id, depth |-> q.depth, live |-> TRUE, text |-> 0])
    /\ counted' = counted + 1
    /\ Proceed(p, [NoPoster EXCEPT !.at = "drop"])
    /\ UNCHANGED <<shown, skips, miscounted, outdated>>

\* deletePostComments, after the counter: skipped without Redis, or Redis fails.
DropList(p) ==
    /\ posters[p].at = "drop"
    /\ \/ shown' = NotCached /\ outdated' = FALSE /\ UNCHANGED skips
       \/ skips > 0 /\ skips' = skips - 1 /\ outdated' = TRUE /\ UNCHANGED shown
    /\ EndPost(p)
    /\ UNCHANGED <<comments, counted, miscounted>>

-----------------------------------------------------------------------------
(* updateComment and deleteComment *)

StartChange(p, i, at) ==
    /\ posters[p].at = "idle" /\ i \in LiveComments
    /\ at = "edit" => Cardinality({j \in Ids : comments[j].text > 0}) + Going({"edit"}) < MaxEdits
    /\ Proceed(p, [NoPoster EXCEPT !.at = at, !.id = i])
    /\ UNCHANGED <<comments, counted, shown, skips, miscounted, outdated>>

\* Mutant: an edit leaves the list alone.
AfterEdit_Kept == NoPoster

AfterEdit == [NoPoster EXCEPT !.at = "drop"]

\* The update asks for a live row and is an error without one.
WriteEdit(p) ==
    LET i == posters[p].id IN
    /\ posters[p].at = "edit"
    /\ IF comments[i].live
       THEN /\ comments' = [comments EXCEPT ![i].text = 1]
            /\ Proceed(p, AfterEdit)
       ELSE EndPost(p) /\ UNCHANGED comments
    /\ UNCHANGED <<counted, shown, skips, miscounted, outdated>>

CountReplies(p) ==
    /\ posters[p].at = "count"
    /\ Proceed(p, [posters[p] EXCEPT !.at = "delete",
                                     !.replies = Cardinality(LiveReplies(posters[p].id))])
    /\ UNCHANGED <<comments, counted, shown, skips, miscounted, outdated>>

\* The comment, whether it is still live or not, and its live replies, not theirs.
SwitchedOff(i) == {i} \union LiveReplies(i)

\* One transaction; the number is the one counted before.
WriteDelete(p) ==
    LET q == posters[p] IN
    /\ q.at = "delete"
    /\ comments' = [i \in Ids |-> IF i \in SwitchedOff(q.id) THEN [comments[i] EXCEPT !.live = FALSE]
                                  ELSE comments[i]]
    /\ counted' = counted - (1 + q.replies)
    /\ miscounted' = (miscounted \/ ~comments[q.id].live
                        \/ Cardinality(LiveReplies(q.id)) # q.replies)
    /\ Proceed(p, [NoPoster EXCEPT !.at = "drop"])
    /\ UNCHANGED <<shown, skips, outdated>>

-----------------------------------------------------------------------------
(* getCommentsByPostId, first page *)

\* Redis has no list: it is fetched.
StartRead(p) ==
    /\ posters[p].at = "idle" /\ ~shown.cached
    /\ Proceed(p, [NoPoster EXCEPT !.at = "fetch"])
    /\ UNCHANGED <<comments, counted, shown, skips, miscounted, outdated>>

FetchList(p) ==
    /\ posters[p].at = "fetch"
    /\ Proceed(p, [NoPoster EXCEPT !.at = "store", !.seen = List])
    /\ UNCHANGED <<comments, counted, shown, skips, miscounted, outdated>>

StoreList(p) ==
    /\ posters[p].at = "store"
    /\ shown' = Cached(posters[p].seen)
    /\ outdated' = (posters[p].seen # List)
    /\ EndPost(p)
    /\ UNCHANGED <<comments, counted, skips, miscounted>>

\* The list expires after POST_COMMENTS, and an edit of the post drops it.
ExpireList ==
    /\ shown.cached
    /\ shown' = NotCached /\ outdated' = FALSE
    /\ UNCHANGED <<comments, counted, posters, skips, miscounted>>

-----------------------------------------------------------------------------
CommentsNext ==
    \/ \E p \in Posters :
         \/ \E parent \in Ids \union {0} : StartComment(p, parent)
         \/ \E i \in Ids, at \in {"edit", "count"} : StartChange(p, i, at)
         \/ Deepen(p) \/ InsertComment(p) \/ DropList(p)
         \/ WriteEdit(p) \/ CountReplies(p) \/ WriteDelete(p)
         \/ StartRead(p) \/ FetchList(p) \/ StoreList(p)
    \/ ExpireList

CommentsSpec == CommentsInit /\ [][CommentsNext]_commentVars

-----------------------------------------------------------------------------
\* The shapes of comments and requests.
CommentsTypeOK ==
    /\ comments \in Seq([parent: Nat, depth: 0..MAX_COMMENT_DEPTH, live: BOOLEAN, text: 0..1])
    /\ \A i \in Ids : comments[i].parent < i
    /\ counted \in Int /\ skips \in Nat
    /\ miscounted \in BOOLEAN /\ outdated \in BOOLEAN
    /\ \A p \in Posters :
         /\ posters[p].at \in {"idle", "deepen", "insert", "edit", "count", "delete", "drop",
                               "fetch", "store"}
         /\ posters[p].id \in Ids \union {0} /\ posters[p].depth \in 0..MAX_COMMENT_DEPTH
         /\ posters[p].replies \in Nat

\* What readers are shown of a post agrees with the rows.  The post counts its live
\* comments, unless what a deletion had counted changed before it was written: also those
\* two levels below a deleted comment, which deletions leave live and uncounted and which the
\* list no longer shows.  The list in Redis is the tree of the rows once every write has
\* dropped it, however writes and readers overlap, unless it was fetched before a write and
\* stored after it, or a write went by without Redis.
CommentsShown ==
    /\ ~miscounted => counted = Cardinality(LiveComments)
    /\ ~outdated /\ shown.cached /\ (\A p \in Posters : posters[p].at # "drop") => shown.list = List
====
