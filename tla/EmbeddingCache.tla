---------------------------- MODULE EmbeddingCache ----------------------------
(***************************************************************************)
(* The cache of vectors (embedding_cache.py) and embed_texts in app.py,      *)
(* which looks every text up, has those that are not cached computed by the  *)
(* first model of the chain that answers, puts them into the cache and       *)
(* merges.  Every get and every put is one hold of the lock; requests run in  *)
(* threads.  The counters of hits and misses are left out.                   *)
(***************************************************************************)
EXTENDS Naturals, Sequences, SequencesExt, FiniteSets

CONSTANTS
  Words,          \* texts
  Embedders,      \* threads, numbers: the first that is free takes a request
  MaxVectors,     \* EMBEDDING_CACHE_SIZE
  Ttl,            \* EMBEDDING_CACHE_TTL
  MaxHour,        \* bound: time
  MaxRequests,    \* bound: requests
  MaxWords        \* bound: texts of a request

ASSUME CacheAssumption ==
  /\ MaxVectors \in Nat \ {0} /\ Ttl \in Nat /\ MaxHour \in Nat /\ MaxRequests \in Nat
  /\ MaxWords \in Nat \ {0} /\ "none" \notin Words /\ Embedders \subseteq Nat

VARIABLES
  hour,
  vectors,        \* _cache, least recently used first; put is history
  request,        \* every thread: its texts, what it has found and computed
  requests,
  wordsUsed       \* history: texts by their last use, the missed ones left out

cacheVars == <<hour, vectors, request, requests, wordsUsed>>

Miss == [word |-> "none", age |-> 0]
Unasked == [at |-> "idle", words |-> <<>>, found |-> <<>>, new |-> <<>>, stored |-> 0]

MissesTo(q, i) == {j \in 1..i : request[q].found[j] = Miss}
Misses(q) == MissesTo(q, Len(request[q].found))

CacheTypeOK ==
  /\ Len(vectors) <= MaxVectors
  /\ \A i \in DOMAIN vectors : vectors[i].word \in Words /\ vectors[i].time \in 0..hour
  /\ \A q \in Embedders :
       /\ request[q].at \in {"idle", "get", "embed", "put"}
       /\ Len(request[q].found) <= Len(request[q].words)
       /\ request[q].stored <= Len(request[q].new)

CacheInit ==
  /\ hour = 0 /\ vectors = <<>> /\ wordsUsed = <<>>
  /\ request = [q \in Embedders |-> Unasked] /\ requests = 0

HourPasses == hour < MaxHour /\ hour' = hour + 1 /\ UNCHANGED <<vectors, request, requests, wordsUsed>>

Ask(q) ==
  /\ request[q].at = "idle" /\ \A p \in Embedders : p < q => request[p].at # "idle"
  /\ requests < MaxRequests /\ requests' = requests + 1
  /\ \E n \in 1..MaxWords : \E words \in [1..n -> Words] :
       request' = [request EXCEPT ![q] = [Unasked EXCEPT !.at = "get", !.words = words]]
  /\ UNCHANGED <<hour, vectors, wordsUsed>>

-----------------------------------------------------------------------------
(* EmbeddingCache *)

\* A dictionary has one entry for a key: s without the one at these places.
Pop(s, places) == IF places = {} THEN s ELSE RemoveAt(s, CHOOSE i \in places : TRUE)
Besides(w) == Pop(vectors, {i \in DOMAIN vectors : vectors[i].word = w})
Unlike(w) == Pop(wordsUsed, {i \in DOMAIN wordsUsed : wordsUsed[i] = w})
MarkUsed(w) == wordsUsed' = Append(Unlike(w), w)

\* Mutant of Touched: a hit gives the vector new time.
TouchedAnew(v) == Append(Besides(v.word), [v EXCEPT !.time = hour])

Touched(v) == Append(Besides(v.word), v)

\* get, for the next text of the request; an entry that is too old goes.
Get(q) ==
  /\ request[q].at = "get"
  /\ LET w == request[q].words[Len(request[q].found) + 1]
         fresh == {i \in DOMAIN vectors : vectors[i].word = w /\ hour - vectors[i].time <= Ttl}
         found(v) ==
           LET all == Append(request[q].found, v)
               place == IF Len(all) < Len(request[q].words) THEN "get"
                        ELSE IF v = Miss \/ Misses(q) # {} THEN "embed" ELSE "put"
           IN request' = [request EXCEPT ![q] = [@ EXCEPT !.found = all, !.at = place]]
     IN \/ \E i \in fresh :
             /\ found([word |-> w, age |-> hour - vectors[i].put])
             /\ vectors' = Touched(vectors[i]) /\ MarkUsed(w)
        \/ /\ fresh = {} /\ found(Miss)
           /\ vectors' = Besides(w) /\ wordsUsed' = Unlike(w)
  /\ UNCHANGED <<hour, requests>>

\* The texts that were not cached, in their order; one model computes all.
Embed(q) ==
  /\ request[q].at = "embed"
  /\ LET nth(k) == CHOOSE i \in Misses(q) : Cardinality(MissesTo(q, i)) = k
         new == [k \in 1..Cardinality(Misses(q)) |-> request[q].words[nth(k)]]
     IN request' = [request EXCEPT ![q] = [@ EXCEPT !.at = "put", !.new = new]]
  /\ UNCHANGED <<hour, vectors, requests, wordsUsed>>

\* No model of the chain answers.
EmbedRaises(q) ==
  /\ request[q].at = "embed"
  /\ request' = [request EXCEPT ![q] = Unasked]
  /\ UNCHANGED <<hour, vectors, requests, wordsUsed>>

\* put, for the next text that was computed; the least recently used goes.
PutVector(q) ==
  /\ request[q].at = "put" /\ request[q].stored < Len(request[q].new)
  /\ LET w == request[q].new[request[q].stored + 1]
         all == Append(Besides(w), [word |-> w, time |-> hour, put |-> hour])
     IN /\ vectors' = IF Len(all) > MaxVectors THEN Tail(all) ELSE all
        /\ MarkUsed(w)
  /\ request' = [request EXCEPT ![q].stored = @ + 1]
  /\ UNCHANGED <<hour, requests>>

\* What embed_texts returns: cached vectors in their places, the others in turn.
Merged(q) ==
  [i \in DOMAIN request[q].words |->
     IF request[q].found[i] # Miss THEN request[q].found[i].word
                                   ELSE request[q].new[Cardinality(MissesTo(q, i))]]

Return(q) ==
  /\ request[q].at = "put" /\ request[q].stored = Len(request[q].new)
  /\ request' = [request EXCEPT ![q] = Unasked]
  /\ UNCHANGED <<hour, vectors, requests, wordsUsed>>

CacheNext ==
  \/ HourPasses
  \/ \E q \in Embedders : Ask(q) \/ Get(q) \/ Embed(q) \/ EmbedRaises(q) \/ PutVector(q) \/ Return(q)

CacheSpec == CacheInit /\ [][CacheNext]_cacheVars

-----------------------------------------------------------------------------
(* Properties. *)

\* Every request gets the vectors of its texts, in their order, whichever of
\* them were cached, repeated, evicted meanwhile or computed by another thread.
VectorsMatchTexts ==
  \A q \in Embedders : request[q].at = "put" => Merged(q) = request[q].words

\* A vector comes from the cache only within the TTL of having been put there,
\* however often it is used: that of a fallback model does not outlive it.
VectorsGrowOld ==
  \A q \in Embedders : \A i \in DOMAIN request[q].found : request[q].found[i].age <= Ttl

\* The cache holds the texts used last, in that order, one vector for each;
\* a text that was looked for in vain is out of the order.
CacheKeepsLatest ==
  Len(vectors) <= Len(wordsUsed) /\ [i \in DOMAIN vectors |-> vectors[i].word]
    = SubSeq(wordsUsed, Len(wordsUsed) - Len(vectors) + 1, Len(wordsUsed))

CacheSafe == CacheTypeOK /\ VectorsMatchTexts /\ VectorsGrowOld /\ CacheKeepsLatest
=============================================================================
