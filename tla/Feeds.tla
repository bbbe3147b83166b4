-------------------------------- MODULE Feeds --------------------------------
(***************************************************************************)
(* RSS feeds (rss_ingestor.py, rss_api.py): syncs are coroutines of one     *)
(* event loop, and give way to each other only where they await; requests   *)
(* that add and delete feeds run in threads.  What a feed publishes is      *)
(* chosen freely; an entry may be in several feeds.                         *)
(***************************************************************************)
EXTENDS Naturals, FiniteSets

CONSTANTS
  FeedIds,        \* ids given to feeds, each once
  Entries,        \* ids of entries; the id of their point is made of the url
  MaxNews         \* bound: what is published or withdrawn, requests to sync a
                  \* feed, failures, crashes

ASSUME FeedsAssumption == MaxNews \in Nat

\* Coroutines of sync_feed: of the round over all feeds, and of requests.
Syncs == FeedIds \X {"round", "request"}

VARIABLES
  web,            \* what each feed holds now
  feeds,          \* table rss_feeds
  saved,          \* table rss_entries: feed and mark of each entry, id UNIQUE
  points,         \* Qdrant: entries with a point
  sync,           \* each coroutine
  added,          \* history: ids given out
  news,           \* history: what was published, withdrawn, failed, crashed
  embeddings,     \* history: how often an entry of a feed was embedded (to 2)
  given,          \* history: entries whose embedding failed or was cut off
  forgotten,      \* history: feeds deleted during a sync, entries with their rows
  wiped           \* history: entries that were in a collection made anew

feedsVars == <<web, feeds, saved, points, sync, added, news, embeddings, given, forgotten, wiped>>

Asleep == [at |-> "idle", new |-> {}]
RowsOf(f) == {e \in DOMAIN saved : saved[e].feed = f}
Hands == UNION {sync[s].new : s \in Syncs}

FeedsTypeOK ==
  /\ web \in [FeedIds -> SUBSET Entries]
  /\ feeds \subseteq added /\ added \subseteq FeedIds
  /\ DOMAIN saved \subseteq Entries
  /\ \A e \in DOMAIN saved : saved[e] \in [feed : added, embedded : BOOLEAN]
  /\ points \subseteq Entries
  /\ \A s \in Syncs : /\ sync[s].at \in {"idle", "fetch", "save", "embed", "mark"}
                      /\ sync[s].new \subseteq Entries
                      /\ sync[s].at \in {"save", "embed", "mark"} <=> sync[s].new # {}
  /\ news \in 0..MaxNews
  /\ embeddings \in [FeedIds \X Entries -> 0..2]

FeedsInit ==
  /\ web = [f \in FeedIds |-> {}] /\ feeds = {} /\ added = {}
  /\ saved = [e \in {} |-> 0] /\ points = {}
  /\ sync = [s \in Syncs |-> Asleep]
  /\ news = 0 /\ embeddings = [k \in FeedIds \X Entries |-> 0]
  /\ given = {} /\ forgotten = {} /\ wiped = {}

News == news < MaxNews /\ news' = news + 1

\* The loop runs one coroutine, from an await to the next.
Loop(s) == \A o \in Syncs \ {s} : sync[o].at \in {"idle", "fetch", "embed"}

-----------------------------------------------------------------------------
(* The web, and the requests. *)

Publish(f, e) ==
  /\ News
  /\ web' = [web EXCEPT ![f] = IF e \in @ THEN @ \ {e} ELSE @ \cup {e}]
  /\ UNCHANGED <<feeds, saved, points, sync, added, embeddings, given, forgotten, wiped>>

AddFeed(f) ==
  /\ f \notin added
  /\ added' = added \cup {f} /\ feeds' = feeds \cup {f}
  /\ UNCHANGED <<web, saved, points, sync, news, embeddings, given, forgotten, wiped>>

\* The feed and its rows; the points stay.
DeleteFeed(f) ==
  /\ f \in feeds
  /\ feeds' = feeds \ {f}
  /\ saved' = [e \in DOMAIN saved \ RowsOf(f) |-> saved[e]]
  /\ forgotten' = forgotten \cup RowsOf(f)
                    \cup IF \E s \in Syncs : sync[s].at # "idle" /\ s[1] = f THEN {f} ELSE {}
  /\ UNCHANGED <<web, points, sync, added, news, embeddings, given, wiped>>

CrashFeeds ==
  /\ News
  /\ sync' = [s \in Syncs |-> Asleep]
  /\ given' = given \cup Hands
  /\ UNCHANGED <<web, feeds, saved, points, added, embeddings, forgotten, wiped>>

-----------------------------------------------------------------------------
(* sync_feed *)

\* sync_all_feeds: all that are due, together.
StartRound ==
  /\ \A f \in FeedIds : sync[<<f, "round">>].at = "idle"
  /\ \A s \in Syncs : Loop(s)
  /\ feeds # {}
  /\ sync' = [s \in Syncs |-> IF s[2] = "round" /\ s[1] \in feeds THEN [Asleep EXCEPT !.at = "fetch"] ELSE sync[s]]
  /\ UNCHANGED <<web, feeds, saved, points, added, news, embeddings, given, forgotten, wiped>>

\* POST /{feed_id}/sync
RequestSync(s) ==
  /\ s[2] = "request" /\ s[1] \in feeds
  /\ Loop(s) /\ sync[s].at = "idle"
  /\ News
  /\ sync' = [sync EXCEPT ![s].at = "fetch"]
  /\ UNCHANGED <<web, feeds, saved, points, added, embeddings, given, forgotten, wiped>>

\* The entries that the table does not have for this feed.
Fetched(s) ==
  /\ Loop(s) /\ sync[s].at = "fetch"
  /\ LET new == web[s[1]] \ RowsOf(s[1])
     IN sync' = [sync EXCEPT ![s] = IF new = {} THEN Asleep ELSE [@ EXCEPT !.at = "save", !.new = new]]
  /\ UNCHANGED <<web, feeds, saved, points, added, news, embeddings, given, forgotten, wiped>>

\* The feed gets the status ok.
FetchFails(s) ==
  /\ Loop(s) /\ sync[s].at = "fetch"
  /\ News
  /\ sync' = [sync EXCEPT ![s] = Asleep]
  /\ UNCHANGED <<web, feeds, saved, points, added, embeddings, given, forgotten, wiped>>

\* INSERT OR IGNORE: an entry of another feed keeps its row.
SaveEntries(s) ==
  /\ Loop(s) /\ sync[s].at = "save"
  /\ saved' = [e \in DOMAIN saved \cup sync[s].new |->
                 IF e \in DOMAIN saved THEN saved[e] ELSE [feed |-> s[1], embedded |-> FALSE]]
  /\ sync' = [sync EXCEPT ![s].at = "embed"]
  /\ UNCHANGED <<web, feeds, points, added, news, embeddings, given, forgotten, wiped>>

\* The summaries and the vectors have come: the points are upserted.
EmbedAndUpsert(s) ==
  /\ Loop(s) /\ sync[s].at = "embed"
  /\ points' = points \cup sync[s].new
  /\ embeddings' = [k \in FeedIds \X Entries |->
       IF k[1] = s[1] /\ k[2] \in sync[s].new /\ embeddings[k] < 2 THEN embeddings[k] + 1
       ELSE embeddings[k]]
  /\ sync' = [sync EXCEPT ![s].at = "mark"]
  /\ UNCHANGED <<web, feeds, saved, added, news, given, forgotten, wiped>>

\* Mutant of EmbedFails: what was saved is marked all the same.
EmbedFailsMarked(s) ==
  /\ Loop(s) /\ sync[s].at = "embed"
  /\ News
  /\ sync' = [sync EXCEPT ![s].at = "mark"]
  /\ given' = given \cup sync[s].new
  /\ UNCHANGED <<web, feeds, saved, points, added, embeddings, forgotten, wiped>>

\* No vectors, or no Qdrant: nothing is marked, and nothing tries again.
EmbedFails(s) ==
  /\ Loop(s) /\ sync[s].at = "embed"
  /\ News
  /\ sync' = [sync EXCEPT ![s] = Asleep]
  /\ given' = given \cup sync[s].new
  /\ UNCHANGED <<web, feeds, saved, points, added, embeddings, forgotten, wiped>>

\* get_collection raises, for whatever reason: the collection is made anew.
RecreateCollection(s) ==
  /\ Loop(s) /\ sync[s].at = "embed"
  /\ News
  /\ points # {}
  /\ points' = {} /\ wiped' = wiped \cup points
  /\ UNCHANGED <<web, feeds, saved, sync, added, embeddings, given, forgotten>>

\* By the ids of the entries, whatever their feed.
Marked(s, e) == e \in sync[s].new

\* _mark_embedded, _update_feed_status
MarkEmbedded(s) ==
  /\ Loop(s) /\ sync[s].at = "mark"
  /\ saved' = [e \in DOMAIN saved |-> IF Marked(s, e) THEN [saved[e] EXCEPT !.embedded = TRUE] ELSE saved[e]]
  /\ sync' = [sync EXCEPT ![s] = Asleep]
  /\ UNCHANGED <<web, feeds, points, added, news, embeddings, given, forgotten, wiped>>

SyncStep ==
  \/ StartRound
  \/ \E s \in Syncs : Fetched(s) \/ SaveEntries(s) \/ EmbedAndUpsert(s) \/ MarkEmbedded(s)

FeedsNext ==
  \/ SyncStep
  \/ \E f \in FeedIds, e \in Entries : Publish(f, e)
  \/ \E f \in FeedIds : AddFeed(f) \/ DeleteFeed(f)
  \/ CrashFeeds
  \/ \E s \in Syncs : RequestSync(s) \/ FetchFails(s) \/ EmbedFails(s) \/ RecreateCollection(s)

FeedsSpec == FeedsInit /\ [][FeedsNext]_feedsVars
FairFeedsSpec == FeedsSpec /\ WF_feedsVars(SyncStep)

-----------------------------------------------------------------------------
(* Properties. *)

\* What is marked as embedded has its point, whichever of the feeds that hold
\* it did so, but for what was in a collection made anew.
EmbeddedIsFound ==
  \A e \in DOMAIN saved \ wiped : saved[e].embedded => e \in points

\* A row that is not marked is never tried again, so it must be of an entry
\* that a sync has in hand, or whose embedding failed or was cut off.
UnmarkedIsInHand ==
  \A e \in DOMAIN saved : saved[e].embedded \/ e \in Hands \cup given

\* Syncs of one feed at the same time: an entry that is in no other feed is
\* embedded once, unless its row was deleted.
EmbeddedOnce ==
  \A f \in FeedIds, e \in Entries \ forgotten :
    embeddings[<<f, e>>] > 1 => \E g \in FeedIds \ {f} : embeddings[<<g, e>>] > 0 \/ e \in RowsOf(g)

\* Rows of no feed are left only by a feed that was deleted during its sync.
RowsHaveFeeds ==
  \A e \in DOMAIN saved : saved[e].feed \in feeds \cup forgotten

\* What a feed holds from some time on is saved in the end.
AllSaved == \A f \in feeds : web[f] \subseteq DOMAIN saved
PublishedIsSaved == []<>AllSaved

\* Rows, marks and points agree, whichever syncs overlap or are cut off.
FeedsSafe == FeedsTypeOK /\ EmbeddedIsFound /\ UnmarkedIsInHand /\ EmbeddedOnce /\ RowsHaveFeeds
=============================================================================
