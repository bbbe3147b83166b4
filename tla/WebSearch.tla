------------------------------ MODULE WebSearch ------------------------------
(***************************************************************************)
(* Web searches (agents/web_search_agent.py, web_search_api.py): a limit   *)
(* by the hour that is counted in the table of searches, results kept for  *)
(* a while in Qdrant, and searches of requests, of the agent and of a      *)
(* briefing's digest, as coroutines of the one event loop.                 *)
(***************************************************************************)
EXTENDS Naturals, Sequences, FiniteSets

CONSTANTS
  Searchers,   \* coroutines
  Urls,
  SearchLimit, \* searches in an hour
  Hour,        \* in ticks
  MaxMoment, MaxSearches \* bounds

ASSUME WebAssumption ==
  /\ IsFiniteSet(Searchers) /\ IsFiniteSet(Urls)
  /\ SearchLimit \in Nat \ {0} /\ Hour \in Nat /\ MaxMoment \in Nat \ {0} /\ MaxSearches \in Nat

VARIABLES
  moment,
  searchLog,  \* the rows, in the order they were committed
  results,    \* by url, when what is stored of it was found; 0: nothing is
  search,     \* what each coroutine is at
  upserted,   \* the agent's count of what it stored last, one for all requests
  digest,     \* the gather that waits for the searches of the topics
  begun, most, \* history: searches begun, and the most that were under way at once
  newest,     \* history: by url, when what was ever stored of it was found last
  reports     \* history: what requests were told they stored, and did store

webVars == <<moment, searchLog, results, search, upserted, digest, begun, most, newest, reports>>

NoSearch == [at |-> "idle", source |-> "none", hits |-> {}, found |-> 0]
NoDigest == [at |-> "none", told |-> {}, given |-> {}, raised |-> FALSE]

WebInit ==
  /\ moment = 1 /\ searchLog = <<>> /\ results = [u \in Urls |-> 0]
  /\ search = [s \in Searchers |-> NoSearch]
  /\ upserted = 0 /\ digest = NoDigest
  /\ begun = 0 /\ most = 1 /\ newest = [u \in Urls |-> 0] /\ reports = {}

UnderWay(all) == {s \in Searchers: all[s].at \in {"call", "embed"}}
InWindow(row, now) == row.at + Hour >= now
CountedAt(now) == {i \in DOMAIN searchLog: InWindow(searchLog[i], now) /\ searchLog[i].status # "rate_limited"}

\* Mutant of OverLimit: one search more.
OverLimitByOne == Cardinality(CountedAt(moment)) > SearchLimit

OverLimit == Cardinality(CountedAt(moment)) >= SearchLimit
Becomes(s, to) == search' = [search EXCEPT ![s] = to]
AddRow(status) == searchLog' = Append(searchLog, [at |-> moment, status |-> status])

MomentPasses ==
  /\ moment < MaxMoment /\ moment' = moment + 1
  /\ UNCHANGED <<searchLog, results, newest, search, upserted, digest, begun, most, reports>>

\* The check, and the row of a refusal.  A refused topic counts as one without results.
CheckRate(s, source) ==
  \/ /\ OverLimit /\ AddRow("rate_limited")
     /\ Becomes(s, NoSearch) /\ UNCHANGED most
  \/ /\ ~ OverLimit /\ UNCHANGED searchLog
     /\ Becomes(s, [at |-> "call", source |-> source, hits |-> {}, found |-> 0])
     /\ LET n == Cardinality(UnderWay(search')) IN most' = IF n > most THEN n ELSE most

CountOne == begun < MaxSearches /\ begun' = begun + 1

PostSearch(s) ==
  /\ search[s].at = "idle" /\ CountOne
  /\ CheckRate(s, "api")
  /\ UNCHANGED <<moment, results, newest, upserted, digest, reports>>

\* The agent looks at what it has, and searches unless the model wants no more.
RunAgent(s) ==
  /\ search[s].at = "idle" /\ CountOne
  /\ Becomes(s, [NoSearch EXCEPT !.at = "context", !.source = "agent"])
  /\ UNCHANGED <<moment, searchLog, results, newest, upserted, digest, most, reports>>
ReadContext(s) ==
  /\ search[s].at = "context"
  /\ \/ CheckRate(s, "agent")
     \/ Becomes(s, NoSearch) /\ UNCHANGED <<searchLog, most>>        \* use_cache
  /\ UNCHANGED <<moment, results, newest, upserted, digest, begun, reports>>

\* The topics are searched side by side.
StartDigest ==
  /\ digest.at = "none" /\ CountOne
  /\ \E topics \in SUBSET Searchers:
       /\ topics # {} /\ \A s \in topics: search[s].at = "idle"
       /\ search' = [s \in Searchers |-> IF s \in topics
                                         THEN [NoSearch EXCEPT !.at = "topic", !.source = "scheduler"]
                                         ELSE search[s]]
  /\ digest' = [NoDigest EXCEPT !.at = "waits"]
  /\ UNCHANGED <<moment, searchLog, results, newest, upserted, most, reports>>
SearchTopic(s) ==
  /\ search[s].at = "topic" /\ CheckRate(s, "scheduler")
  /\ UNCHANGED <<moment, results, newest, upserted, digest, begun, reports>>

\* The end of a search that gives what it found to who asked for it.  The count
\* is read before any other coroutine gets the loop.
Given(s, hits, stored) ==
  /\ digest' = IF search[s].source = "scheduler"
               THEN [digest EXCEPT !.given = @ \cup hits] ELSE digest
  /\ reports' = IF search[s].source = "api"
                THEN reports \cup {[said |-> upserted', stored |-> stored]} ELSE reports
  /\ Becomes(s, NoSearch)

\* The agent of the requests has a count; the others have agents of their own.
Count(s, n) == upserted' = IF search[s].source = "api" THEN n ELSE upserted

\* SearXNG answers; without results there is nothing to wait for.
SearxAnswers(s) ==
  /\ search[s].at = "call"
  /\ \E hits \in SUBSET Urls:
       IF hits = {}
       THEN AddRow("ok") /\ Count(s, 0) /\ Given(s, {}, 0)
       ELSE /\ Becomes(s, [search[s] EXCEPT !.at = "embed", !.hits = hits, !.found = moment])
            /\ UNCHANGED <<searchLog, upserted, digest, reports>>
  /\ UNCHANGED <<moment, results, newest, begun, most>>

Unavailable(s) ==
  /\ search[s].at = "call" /\ AddRow("error") /\ Becomes(s, NoSearch)
  /\ UNCHANGED <<moment, results, newest, upserted, digest, begun, most, reports>>

Store(s) ==
  LET hits == search[s].hits
      found == search[s].found
  IN /\ results' = [u \in Urls |-> IF u \in hits THEN found ELSE results[u]]
     /\ newest' = [u \in Urls |-> IF u \in hits /\ found > newest[u] THEN found ELSE newest[u]]
     /\ Count(s, Cardinality(hits))

\* A timeout, an answer that is no JSON, an embedding, an upsert or a row that
\* fails: nobody catches it, there is no row, and gather gives it on at once.
SearchFails(s) ==
  /\ search[s].at \in {"call", "embed"} /\ Becomes(s, NoSearch)
  /\ \/ UNCHANGED <<results, upserted, newest>>
     \/ search[s].at = "embed" /\ Store(s)
  /\ digest' = IF search[s].source = "scheduler" THEN [digest EXCEPT !.raised = TRUE] ELSE digest
  /\ UNCHANGED <<moment, searchLog, begun, most, reports>>

UpsertResults(s) ==
  LET hits == search[s].hits
  IN /\ search[s].at = "embed"
     /\ Store(s) /\ AddRow("ok")
     /\ Given(s, hits, Cardinality(hits))
     /\ UNCHANGED <<moment, begun, most>>

Topics == {s \in Searchers: search[s].source = "scheduler"}
EndDigest ==
  /\ digest.at = "waits"
  /\ \/ digest.raised /\ digest' = [digest EXCEPT !.at = "lost"]
     \/ ~ digest.raised /\ Topics = {} /\ digest' = [digest EXCEPT !.at = "told", !.told = digest.given]
  /\ UNCHANGED <<moment, searchLog, results, newest, search, upserted, begun, most, reports>>

WebNext ==
  \/ MomentPasses \/ StartDigest \/ EndDigest
  \/ \E s \in Searchers:
       \/ PostSearch(s) \/ RunAgent(s) \/ ReadContext(s) \/ SearchTopic(s)
       \/ SearxAnswers(s) \/ Unavailable(s) \/ SearchFails(s) \/ UpsertResults(s)

WebSpec == WebInit /\ [][WebNext]_webVars

-----------------------------------------------------------------------------
(* Properties. *)

WebTypeOK ==
  /\ moment \in 1..MaxMoment /\ upserted \in 0..Cardinality(Urls)
  /\ \A i \in DOMAIN searchLog: searchLog[i].status \in {"ok", "error", "rate_limited"}
  /\ \A s \in Searchers: search[s].at \in {"idle", "topic", "context", "call", "embed"}
  /\ digest.at \in {"none", "waits", "told", "lost"}

\* The check and the row are an answer of SearXNG apart: in an hour no more
\* searches than the limit are counted, and the ones that were under way beside
\* the last of them.
LimitHolds ==
  \A now \in 1..moment:
    Cardinality({i \in CountedAt(now): searchLog[i].at <= now}) <= SearchLimit + most - 1

\* Who is refused is refused for searches: what was refused itself uses nothing
\* up, however often it is tried again.
RefusedForSearches ==
  \A i \in DOMAIN searchLog:
    searchLog[i].status = "rate_limited" =>
      Cardinality({j \in CountedAt(searchLog[i].at): j < i}) >= SearchLimit

\* The count of what was stored is one for all requests; each is told its own.
OwnCountTold == \A r \in reports: r.said = r.stored

\* A digest that is told holds what each of its searches gave, and it is lost
\* only if one of them raised.
DigestTellsAll ==
  /\ digest.at = "told" => ~ digest.raised /\ digest.told = digest.given /\ Topics = {}
  /\ digest.at = "lost" => digest.raised

\* What is stored of a page is what was found of it last, unless searches have
\* overlapped, of which the slower one stores what it has found before.
LatestStays ==
  \A u \in Urls: results[u] < newest[u] => most > 1

WebSearchSafe ==
  /\ WebTypeOK /\ LimitHolds /\ RefusedForSearches /\ OwnCountTold
  /\ DigestTellsAll /\ LatestStays
=============================================================================
