---- MODULE Search ----
(***************************************************************************)
(* The copies of campaigns and donations in OpenSearch (apps/campaign:     *)
(* handlers/kafka, services/campaign/campaign-search.service, services/    *)
(* donation/donation-search.service; libs/aws-opensearch).  Debezium turns *)
(* every write of a table into an event of its topic; one consumer handles *)
(* one event at a time, reads the row again and stores a document.  An     *)
(* administrator may store all campaigns anew, and the deletion of a       *)
(* campaign, a write that switches it off, takes its document away.        *)
(*                                                                         *)
(* One campaign, and one donation with its payment.  What a document takes *)
(* from other tables (a category's title, a phase's location) is left out: *)
(* no topic of theirs is consumed.                                         *)
(***************************************************************************)
EXTENDS Naturals, Functions

CONSTANTS
    MaxWrites,    \* bound: writes in all
    MaxTroubles   \* bound: errors and crashes

ASSUME SearchAssumption == MaxWrites \in Nat /\ MaxTroubles \in Nat

Tables == {"campaigns", "donations", "payment_transactions"}
Documents == {"campaign", "donation"}

VARIABLES
    written,    \* written[t]: how often the row in table t was written
    active,     \* is_active of the campaign
    topic,      \* topic[t]: events not yet consumed; they name a row and no more
    index,      \* index[d]: the document in OpenSearch
    consumer,   \* the event being handled
    sync,       \* syncAll in progress
    deletion,   \* deleteCampaign in progress
    troubles,   \* what is left of MaxTroubles
    behind      \* history: documents that missed a row: the event was handled in vain, or
                \* an older reading was stored after what a newer one had left there

searchVars == <<written, active, topic, index, consumer, sync, deletion, troubles, behind>>

NoDocument == [stored |-> FALSE, of |-> [t \in {} |-> 0]]
AtRest == [at |-> "idle", table |-> "none", doc |-> NoDocument]

\* Every row is there, and the connector's snapshot is still to be read.
SearchInit ==
    /\ written = [t \in Tables |-> 0] /\ active = TRUE
    /\ topic = [t \in Tables |-> 1]
    /\ index = [d \in Documents |-> NoDocument]
    /\ consumer = AtRest /\ sync = AtRest /\ deletion = "idle"
    /\ troubles = MaxTroubles /\ behind = {}

\* Mutant: a payment's events are taken for the campaign's.
DocumentOf_NotPayments(t) == IF t = "donations" THEN "donation" ELSE "campaign"

\* What the handler of a table's events stores.
DocumentOf(t) == IF t = "campaigns" THEN "campaign" ELSE "donation"

\* The tables a document is read from: a donation with its payments.
Sources(d) == IF d = "campaign" THEN {"campaigns"} ELSE Tables \ {"campaigns"}

Row(d) == [stored |-> TRUE, of |-> [t \in Sources(d) |-> written[t]]]

\* findById: a campaign that is switched off is not found.
CanFind(d) == d = "campaign" => active

Trouble == troubles > 0 /\ troubles' = troubles - 1

-----------------------------------------------------------------------------
MayWrite == FoldFunction(+, 0, written) < MaxWrites

\* Any handler writes a row; a campaign is also written after it was switched off.
WriteRow(t) ==
    /\ MayWrite
    /\ written' = [written EXCEPT ![t] = @ + 1]
    /\ topic' = [topic EXCEPT ![t] = @ + 1]
    /\ UNCHANGED <<active, index, consumer, sync, deletion, troubles, behind>>

-----------------------------------------------------------------------------
(* handleCampaignChange, handleDonationChange, handleTransactionChange *)

\* The next event: its row is read, or is not found and the event is done with; an error
\* is caught and the event done with as well.
Consume(t) ==
    LET d == DocumentOf(t) IN
    /\ consumer = AtRest /\ topic[t] > 0
    /\ topic' = [topic EXCEPT ![t] = @ - 1]
    /\ \/ /\ consumer' = IF CanFind(d) THEN [at |-> "index", table |-> t, doc |-> Row(d)] ELSE AtRest
          /\ UNCHANGED <<troubles, behind>>
       \/ Trouble /\ behind' = behind \union {d} /\ UNCHANGED consumer
    /\ UNCHANGED <<written, active, index, sync, deletion>>

\* The document of a deleted campaign comes back for good once the deletion has taken it.
Revives(d) == ~CanFind(d) /\ deletion = "idle"

\* indexCampaign and indexDonation swallow an error.
IndexRow ==
    LET d == DocumentOf(consumer.table) IN
    /\ consumer.at = "index"
    /\ \/ /\ index' = [index EXCEPT ![d] = consumer.doc]
          /\ behind' = IF Revives(d) THEN behind \union {d} ELSE behind \ {d}
          /\ UNCHANGED troubles
       \/ Trouble /\ behind' = behind \union {d} /\ UNCHANGED index
    /\ consumer' = AtRest
    /\ UNCHANGED <<written, active, topic, sync, deletion>>

-----------------------------------------------------------------------------
(* syncAll: all active campaigns are read, then stored one by one. *)

SyncRead ==
    /\ sync = AtRest /\ active
    /\ sync' = [AtRest EXCEPT !.at = "index", !.doc = Row("campaign")]
    /\ UNCHANGED <<written, active, topic, index, consumer, deletion, troubles, behind>>

Older(doc, than) == than.stored /\ doc.of.campaigns < than.of.campaigns

SyncStore ==
    /\ sync.at = "index"
    /\ \/ /\ index' = [index EXCEPT !["campaign"] = sync.doc]
          /\ behind' = IF Revives("campaign") \/ Older(sync.doc, index["campaign"])
                       THEN behind \union {"campaign"}
                       ELSE behind \ {d \in {"campaign"} : sync.doc = Row(d)}
          /\ UNCHANGED troubles
       \/ Trouble /\ UNCHANGED <<index, behind>>
    /\ sync' = AtRest
    /\ UNCHANGED <<written, active, topic, consumer, deletion>>

-----------------------------------------------------------------------------
(* deleteCampaign *)

DeleteRow ==
    /\ active /\ deletion = "idle" /\ MayWrite
    /\ active' = FALSE
    /\ written' = [written EXCEPT !["campaigns"] = @ + 1]
    /\ topic' = [topic EXCEPT !["campaigns"] = @ + 1]
    /\ deletion' = "image"
    /\ UNCHANGED <<index, consumer, sync, troubles, behind>>

\* Between the two are Redis and the image in the object store, whose error ends it.
DeleteImage ==
    /\ deletion = "image"
    /\ \/ deletion' = "document" /\ UNCHANGED <<troubles, behind>>
       \/ Trouble /\ deletion' = "idle" /\ behind' = behind \union {"campaign"}
    /\ UNCHANGED <<written, active, topic, index, consumer, sync>>

\* removeCampaign swallows an error.
RemoveDocument ==
    /\ deletion = "document"
    /\ \/ /\ index' = [index EXCEPT !["campaign"] = NoDocument]
          /\ behind' = behind \ {"campaign"}
          /\ UNCHANGED troubles
       \/ Trouble /\ behind' = behind \union {"campaign"} /\ UNCHANGED index
    /\ deletion' = "idle"
    /\ UNCHANGED <<written, active, topic, consumer, sync>>

-----------------------------------------------------------------------------
\* The process dies: the event it handled, and any it had handled but not committed, are
\* delivered again; the rest of a deletion is not made up for.
CrashSearch ==
    /\ Trouble
    /\ \E again \in SUBSET Tables :
         /\ consumer.table \in again \union {"none"}
         /\ topic' = [t \in Tables |-> topic[t] + IF t \in again THEN 1 ELSE 0]
    /\ consumer' = AtRest /\ sync' = AtRest /\ deletion' = "idle"
    /\ behind' = behind \union IF deletion = "idle" THEN {} ELSE {"campaign"}
    /\ UNCHANGED <<written, active, index>>

SearchNext ==
    \/ \E t \in Tables : WriteRow(t) \/ Consume(t)
    \/ IndexRow \/ SyncRead \/ SyncStore
    \/ DeleteRow \/ DeleteImage \/ RemoveDocument \/ CrashSearch

SearchSpec == SearchInit /\ [][SearchNext]_searchVars

-----------------------------------------------------------------------------
Readings(d) == [stored: {TRUE}, of: [Sources(d) -> Nat]]

\* The shapes of rows, topics, documents and handlers: a document is of its own tables,
\* and a handler holds one of the kind its event is about.
SearchTypeOK ==
    /\ written \in [Tables -> Nat] /\ active \in BOOLEAN
    /\ topic \in [Tables -> Nat]
    /\ index \in [Documents -> {NoDocument} \union Readings("campaign") \union Readings("donation")]
    /\ \A d \in Documents : index[d] \in {NoDocument} \union Readings(d)
    /\ \/ consumer = AtRest
       \/ \E t \in Tables : consumer \in [at: {"index"}, table: {t}, doc: Readings(DocumentOf(t))]
    /\ sync = AtRest \/ sync \in [at: {"index"}, table: {"none"}, doc: Readings("campaign")]
    /\ deletion \in {"idle", "image", "document"}
    /\ troubles \in Nat /\ behind \subseteq Documents

\* Nothing is under way that would still change a document.
Settled(d) ==
    /\ \A t \in Sources(d) : topic[t] = 0 /\ consumer.table # t
    /\ d = "campaign" => deletion = "idle"

\* Once the events of its rows are consumed, what is found in a search is the row as it
\* is, and a deleted campaign is not found: although events say nothing, arrive late and
\* twice and from two topics, and rows change between an event and its reading, and
\* between the reading and the document.  Left out are documents that missed a row.
SearchShowsRows == \A d \in Documents \ behind :
    Settled(d) => index[d] = IF CanFind(d) THEN Row(d) ELSE NoDocument
====
