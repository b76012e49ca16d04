--------------------------- MODULE SemanticCache ---------------------------
(***************************************************************************)
(* services/cache-service/src/cache_service/: one process of the cache     *)
(* service and its Redis.  Calls of the endpoints interleave at every      *)
(* await; a Redis command is atomic.  Redis may be unreachable for a while *)
(* and keeps its data; keys leave it when they expire or are evicted       *)
(* (allkeys-lru).  The process may die and start again at any point.       *)
(***************************************************************************)
EXTENDS Integers, FiniteSets

CONSTANTS
    Stores,   \* POST /cache/store calls; each writes a key of its own (uuid4)
    Lookups,  \* POST /cache/lookup calls
    Clears,   \* DELETE /cache/invalidate calls
    Timed,    \* the stores whose ttl_value is positive
    Queries,  \* query texts
    Near      \* pairs of embeddings whose cosine similarity reaches the threshold

\* An embedding is known by its text and by what computed it.
Vectors == [text : Queries, source : {"model", "hash"}]
NoVector == [text |-> "none", source |-> "none"]

ASSUME CacheConstants ==
    /\ Timed \subseteq Stores
    /\ Stores \cap Lookups = {} /\ Stores \cap Clears = {} /\ Lookups \cap Clears = {}
    /\ \A w \in {"none", "miss"} : w \notin Stores
    /\ Near \subseteq Vectors \X Vectors

Calls == Stores \union Lookups \union Clears

VARIABLES
    service,   \* "starting", "creating" (inside ensure_index) or "up"
    redisUp,   \* Redis answers
    index,     \* Redis has the index idx:llm_cache
    entries,   \* each key: "absent", "forever" (no expiry set) or "expiring"
    indexed,   \* the keys the index knows
    pc,        \* where each call waits, or how it ended
    vector,    \* the embedding of a lookup in flight and of a store's entry
    pattern,   \* the keys the glob pattern of an invalidation matches
    due,       \* the keys an invalidation's SCAN still has to return
    answer,    \* what the lookups of this process were answered
    hits,      \* _hits
    misses,    \* _misses
    requests,  \* _request_count
    found      \* history: the matching keys there when an invalidation began

vars == <<service, redisUp, index, entries, indexed, pc, vector, pattern, due,
          answer, hits, misses, requests, found>>
redis == <<redisUp, index, entries, indexed>>
clears == <<pattern, due, found>>
counters == <<hits, misses, requests>>

CacheTypeOK ==
    /\ service \in {"starting", "creating", "up"}
    /\ redisUp \in BOOLEAN /\ index \in BOOLEAN
    /\ entries \in [Stores -> {"absent", "forever", "expiring"}]
    /\ indexed \subseteq {k \in Stores : entries[k] # "absent"}
    /\ pc \in [Calls -> {"new", "search", "write", "expire", "scan", "done", "failed"}]
    /\ vector \in [Stores \union Lookups -> Vectors \union {NoVector}]
    /\ \A k \in indexed : vector[k] # NoVector
    /\ pattern \in [Clears -> SUBSET Stores]
    /\ due \in [Clears -> SUBSET Stores] /\ found \in [Clears -> SUBSET Stores]
    /\ answer \in [Lookups -> Stores \union {"none", "miss"}]
    /\ hits \in Nat /\ misses \in Nat /\ requests \in Nat

\* An empty Redis; ensure_index runs when the service starts.
Init ==
    /\ service = "starting"
    /\ redisUp \in BOOLEAN
    /\ index = FALSE
    /\ entries = [k \in Stores |-> "absent"]
    /\ indexed = {}
    /\ pc = [c \in Calls |-> "new"]
    /\ vector = [c \in Stores \union Lookups |-> NoVector]
    /\ pattern = [c \in Clears |-> {}]
    /\ due = [c \in Clears |-> {}]
    /\ answer = [l \in Lookups |-> "none"]
    /\ hits = 0 /\ misses = 0 /\ requests = 0
    /\ found = [c \in Clears |-> {}]

Go(c, from, to) == pc[c] = from /\ pc' = [pc EXCEPT ![c] = to]

(***************************************************************************)
(* The life of the process                                                 *)
(***************************************************************************)
\* ensure_index asks for the index; when Redis is unreachable the exception is
\* logged and the service starts without.
FindIndex ==
    /\ service = "starting"
    /\ service' = IF redisUp /\ ~index THEN "creating" ELSE "up"
    /\ UNCHANGED <<redis, pc, vector, clears, answer, counters>>

\* ... and creates it.  Keys that exist are indexed later, in the background.
CreateIndex ==
    /\ service = "creating"
    /\ service' = "up"
    /\ index' = redisUp
    /\ UNCHANGED <<redisUp, entries, indexed, pc, vector, clears, answer, counters>>

\* The process dies and a new one starts: its calls and counters are gone, and
\* the lookups it answered are not in the new counters.
Crash ==
    /\ service' = "starting"
    /\ pc' = [c \in Calls |->
                IF pc[c] = "new" \/ (pc[c] = "done" /\ c \notin Lookups) THEN pc[c] ELSE "failed"]
    /\ vector' = [c \in Stores \union Lookups |->
                    IF c \in Lookups \/ pc[c] = "write" THEN NoVector ELSE vector[c]]
    /\ answer' = [l \in Lookups |-> "none"]
    /\ hits' = 0 /\ misses' = 0 /\ requests' = 0
    /\ UNCHANGED <<redis, clears>>

(***************************************************************************)
(* Store and lookup                                                        *)
(***************************************************************************)
\* A required field is empty: 400.
Refuse(c) ==
    /\ service = "up"
    /\ c \in Stores \union Lookups
    /\ Go(c, "new", "failed")
    /\ UNCHANGED <<service, redis, vector, clears, answer, counters>>

\* EmbeddingClient.embed: the endpoint's vector, or on any exception the hash.
Embed(c) ==
    /\ service = "up"
    /\ c \in Stores \union Lookups
    /\ Go(c, "new", IF c \in Stores THEN "write" ELSE "search")
    /\ \E v \in Vectors : vector' = [vector EXCEPT ![c] = v]
    /\ UNCHANGED <<service, redis, clears, answer, counters>>

\* Every Redis command of a call raises ConnectionError while Redis is away,
\* which no handler catches: 500, and nothing is counted.
RedisAway(c) ==
    /\ ~redisUp
    /\ pc[c] \in {"search", "write", "expire", "scan"}
    /\ pc' = [pc EXCEPT ![c] = "failed"]
    /\ vector' = IF pc[c] \in {"search", "write"} THEN [vector EXCEPT ![c] = NoVector] ELSE vector
    /\ UNCHANGED <<service, redis, clears, answer, counters>>

\* put: HSET writes the key, without an expiry.
StoreWrite(k) ==
    /\ redisUp
    /\ Go(k, "write", IF k \in Timed THEN "expire" ELSE "done")
    /\ entries' = [entries EXCEPT ![k] = "forever"]
    /\ indexed' = IF index THEN indexed \union {k} ELSE indexed
    /\ UNCHANGED <<service, redisUp, index, vector, clears, answer, counters>>

\* Slip: the hash is written once more, with its expiry.
StoreExpire_Rewrites(k) ==
    /\ redisUp
    /\ Go(k, "expire", "done")
    /\ entries' = [entries EXCEPT ![k] = "expiring"]
    /\ UNCHANGED <<service, redisUp, index, indexed, vector, clears, answer, counters>>

\* Slip: the call is acknowledged before the expiry is set.
StoreExpire_Skipped(k) ==
    /\ redisUp
    /\ Go(k, "expire", "done")
    /\ UNCHANGED <<service, redis, vector, clears, answer, counters>>

\* put: EXPIRE sets the expiry; on a key that is gone it does nothing.
StoreExpire(k) ==
    /\ redisUp
    /\ Go(k, "expire", "done")
    /\ entries' = [entries EXCEPT ![k] = IF @ = "absent" THEN @ ELSE "expiring"]
    /\ UNCHANGED <<service, redisUp, index, indexed, vector, clears, answer, counters>>

\* The score of an entry reaches the threshold: two embeddings are compared by
\* their cosine, whatever computed them.
Similar(k, l) == <<vector[k], vector[l]>> \in Near

\* A lookup that Redis answered; its latency is recorded.
Answered(l, a) ==
    /\ redisUp
    /\ Go(l, "search", "done")
    /\ answer' = [answer EXCEPT ![l] = a]
    /\ requests' = requests + 1
    /\ vector' = [vector EXCEPT ![l] = NoVector]
    /\ UNCHANGED <<service, redis, clears>>

\* Slip: a failed search is timed but not counted as a miss.
LookupNoIndex_Uncounted(l) ==
    /\ ~index
    /\ Answered(l, "miss")
    /\ UNCHANGED <<hits, misses>>

\* There is no index: ResponseError, a miss.
LookupNoIndex(l) ==
    /\ ~index
    /\ Answered(l, "miss")
    /\ misses' = misses + 1
    /\ UNCHANGED hits

\* Nothing is indexed, or the entry found is not similar enough.  KNN 1 over an
\* HNSW graph is approximate: it finds some indexed entry, seldom not the nearest.
LookupMiss(l) ==
    /\ index
    /\ indexed = {} \/ \E k \in indexed : ~Similar(k, l)
    /\ Answered(l, "miss")
    /\ misses' = misses + 1
    /\ UNCHANGED hits

LookupHit(l, k) ==
    /\ index
    /\ k \in indexed /\ Similar(k, l)
    /\ Answered(l, k)
    /\ hits' = hits + 1
    /\ UNCHANGED misses

(***************************************************************************)
(* Invalidation: SCAN with a pattern, and a DEL per key                    *)
(***************************************************************************)
Matching(p) == {k \in p : entries[k] # "absent"}

\* A key and its embedding leave Redis.
Remove(k) ==
    /\ entries' = [entries EXCEPT ![k] = "absent"]
    /\ indexed' = indexed \ {k}
    /\ vector' = IF entries[k] = "absent" THEN vector ELSE [vector EXCEPT ![k] = NoVector]

\* The pattern is * or matches some keys.
ClearBegin(c) ==
    /\ service = "up"
    /\ Go(c, "new", "scan")
    /\ \E p \in SUBSET Stores :
          /\ pattern' = [pattern EXCEPT ![c] = p]
          /\ due' = [due EXCEPT ![c] = Matching(p)]
          /\ found' = [found EXCEPT ![c] = Matching(p)]
    /\ UNCHANGED <<service, redis, vector, answer, counters>>

\* SCAN returns a key and it is deleted; one that appeared later may be returned,
\* and one that has vanished since.
ClearDelete(c, k) ==
    /\ redisUp
    /\ pc[c] = "scan"
    /\ k \in due[c] \union Matching(pattern[c])
    /\ Remove(k)
    /\ due' = [due EXCEPT ![c] = @ \ {k}]
    /\ UNCHANGED <<service, redisUp, index, pc, pattern, found, answer, counters>>

\* SCAN returns every key that is there from its beginning to its end.
ClearEnd(c) ==
    /\ redisUp
    /\ Go(c, "scan", "done")
    /\ Matching(due[c]) = {}
    /\ due' = [due EXCEPT ![c] = {}]
    /\ UNCHANGED <<service, redis, vector, pattern, found, answer, counters>>

(***************************************************************************)
(* Redis                                                                   *)
(***************************************************************************)
\* A key expires, or is evicted when memory is full.
Vanish(k) ==
    /\ entries[k] # "absent"
    /\ Remove(k)
    /\ UNCHANGED <<service, redisUp, index, pc, clears, answer, counters>>

\* The background scan of a new index reaches a key.
Backfill(k) ==
    /\ index /\ entries[k] # "absent"
    /\ indexed' = indexed \union {k}
    /\ UNCHANGED <<service, redisUp, index, entries, pc, vector, clears, answer, counters>>

Outage ==
    /\ redisUp' = ~redisUp
    /\ UNCHANGED <<service, index, entries, indexed, pc, vector, clears, answer, counters>>

Next ==
    \/ FindIndex \/ CreateIndex \/ Crash \/ Outage
    \/ \E c \in Calls : Refuse(c) \/ Embed(c) \/ RedisAway(c)
    \/ \E k \in Stores : StoreWrite(k) \/ StoreExpire(k) \/ Vanish(k) \/ Backfill(k)
    \/ \E l \in Lookups :
          LookupNoIndex(l) \/ LookupMiss(l) \/ \E k \in Stores : LookupHit(l, k)
    \/ \E c \in Clears : ClearBegin(c) \/ ClearEnd(c) \/ \E k \in Stores : ClearDelete(c, k)

Spec == Init /\ [][Next]_vars

(***************************************************************************)
(* Properties                                                              *)
(***************************************************************************)
\* GET /cache/stats: the entries the index knows and the two parts of hit_rate.
Stats == [total_entries |-> IF redisUp /\ index THEN Cardinality(indexed) ELSE 0,
          hits          |-> hits,
          lookups       |-> hits + misses]

\* When invalidate returns, every matching entry that was there when it began is
\* gone, and it stays gone, whatever stores, expiries and other invalidations
\* do meanwhile: in particular the EXPIRE of a put brings nothing back.
InvalidatedIsGone ==
    \A c \in Clears : pc[c] = "done" => \A k \in found[c] : entries[k] = "absent"

\* "ttl: Time-to-live in seconds" (semantic_cache.py:174): an entry with a TTL
\* that is in Redis without an expiry belongs to a put that has not answered:
\* it is before its EXPIRE, or the process or Redis went away there.
OnlyUnfinishedAreImmortal ==
    \A k \in Timed : entries[k] = "forever" => pc[k] \in {"expire", "failed"}

\* The counters behind hit_rate are the lookups this process has answered: a
\* search without an index is a miss, a lookup that raised is neither.
StatsCountAnswers ==
    LET Done(A) == {l \in Lookups : pc[l] = "done" /\ answer[l] \in A} IN
    /\ Stats.hits = Cardinality(Done(Stores))
    /\ Stats.lookups = Cardinality(Done(Stores \union {"miss"}))
    /\ Stats.lookups = requests

\* "failed_to_create_index_will_retry_on_first_request" (main.py:68): once a
\* lookup has been answered by Redis, the index is there.  It is not: only
\* ensure_index makes it, and only the start of the process calls that.
FirstRequestCreatesIndex == \A l \in Lookups : pc[l] = "done" => index
=============================================================================
