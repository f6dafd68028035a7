---------------------------- MODULE CachedRoute ----------------------------
(* A GET route behind both caches, such as /markets, /stats and              *)
(* /funding/global (src/index.ts): cacheMiddleware keeps whole responses by  *)
(* URL (src/middleware/cache.ts) over a handler that asks the database and   *)
(* falls back on its last answer (src/middleware/db-cache-fallback.ts).      *)
(* URLs that differ in their query string have entries of their own in the   *)
(* first cache and share the one dbCache entry of the route. A body is the   *)
(* time at which the database was read for it.                               *)
EXTENDS Naturals, Sequences, SequencesExt, JsMap

CONSTANTS
    Urls,
    Gets,          \* GET requests; one is reused once it is answered
    Ttl,           \* ttlSeconds
    MaxStale,      \* MAX_STALE_AGE_MS
    MaxResponses,  \* MAX_CACHE_ENTRIES
    QueryWait,     \* how long the database may take to answer
    MaxTime        \* bound: the clock stops here

ASSUME BoundsPositive ==
    /\ Ttl \in Nat \ {0} /\ MaxStale \in Nat \ {0}
    /\ MaxResponses \in Nat \ {0} /\ QueryWait \in Nat /\ MaxTime \in Nat

VARIABLES
    now,      \* Date.now()
    cache,    \* ResponseCache, least recently used first
    dbCache,  \* the dbCache entry of the route: {} or {[read, timestamp]}
    req,      \* a request: [phase, url, since, read]
    oldest    \* history: the greatest age of a body when it was answered

cachedVars == <<now, cache, dbCache, req, oldest>>

Idle == [phase |-> "idle"]
Times == 0..MaxTime
Response == [url : Urls, read : Times, timestamp : Times]
Pending == [phase : {"querying", "read", "storing"}, url : Urls, since : Times,
            read : Times]

CachedTypeOK ==
    /\ now \in Times
    /\ cache \in Seq(Response)
    /\ \A i, j \in DOMAIN cache : cache[i].url = cache[j].url => i = j
    /\ dbCache \in SUBSET [read : Times, timestamp : Times]
    /\ \A k, l \in dbCache : k = l
    /\ req \in [Gets -> {Idle} \union Pending]
    /\ oldest \in Times

CachedInit ==
    /\ now = 0
    /\ cache = <<>>
    /\ dbCache = {}
    /\ req = [r \in Gets |-> Idle]
    /\ oldest = 0

----------------------------------------------------------------------------
Without(map, u) == Kept(map, {e \in Response : e.url # u})
EntriesOf(map, u) == {e \in ToSet(map) : e.url = u}

(* A body read from the database at time read is answered.                   *)
Answer(read) == oldest' = IF now - read > oldest THEN now - read ELSE oldest

(* ResponseCache.get: an entry past the TTL is deleted, a live one is moved  *)
(* to the end and answered (200 or, for its ETag, 304) with the headers of   *)
(* the entry: its Content-Type, no others.                                   *)
Live(e) == now - e.timestamp <= Ttl

CacheHit(u) ==
    \E e \in EntriesOf(cache, u) :
        /\ Live(e)
        /\ cache' = Append(Without(cache, u), e)
        /\ Answer(e.read)
        /\ UNCHANGED <<now, dbCache, req>>

(* A miss runs the route's handler, which sends the query.                   *)
CacheMiss(r, u) ==
    /\ req[r] = Idle
    /\ ~ \E e \in EntriesOf(cache, u) : Live(e)
    /\ cache' = Without(cache, u)
    /\ req' = [req EXCEPT ![r] = [phase |-> "querying", url |-> u, since |-> now,
                                  read |-> now]]
    /\ UNCHANGED <<now, dbCache, oldest>>

(* The database executes the query, some time before its answer arrives.     *)
DatabaseReads(r) ==
    /\ req[r] # Idle /\ req[r].phase = "querying"
    /\ req' = [req EXCEPT ![r].phase = "read", ![r].read = now]
    /\ UNCHANGED <<now, cache, dbCache, oldest>>

(* withDbCacheFallback, the query has answered: the result is kept.          *)
QuerySucceeds(r) ==
    /\ req[r] # Idle /\ req[r].phase = "read"
    /\ dbCache' = {[read |-> req[r].read, timestamp |-> now]}
    /\ req' = [req EXCEPT ![r].phase = "storing"]
    /\ UNCHANGED <<now, cache, oldest>>

(* withDbCacheFallback, the query has failed: the kept result is served if   *)
(* it is younger than MAX_STALE_AGE_MS, with the staleness headers;          *)
(* otherwise a 503, which cacheMiddleware does not cache.                    *)
Usable(kept) == now - kept.timestamp < MaxStale

FallsBack(r, kept) ==
    /\ Usable(kept)
    /\ req' = [req EXCEPT ![r].phase = "storing", ![r].read = kept.read]

QueryFailsRenewing(r) ==
    /\ req[r] # Idle /\ req[r].phase \in {"querying", "read"}
    /\ \E kept \in dbCache : FallsBack(r, kept)
    /\ dbCache' = {[kept EXCEPT !.timestamp = now] : kept \in dbCache}
    /\ UNCHANGED <<now, cache, oldest>>
QueryFails(r) ==
    /\ req[r] # Idle /\ req[r].phase \in {"querying", "read"}
    /\ IF \E kept \in dbCache : Usable(kept)
         THEN \E kept \in dbCache : FallsBack(r, kept)
         ELSE req' = [req EXCEPT ![r] = Idle]
    /\ UNCHANGED <<now, cache, dbCache, oldest>>

(* ResponseCache.set, after the body of the 200 has been awaited: least      *)
(* recently used entries make room, an entry of the URL is replaced.         *)
SetEntry(map, e) ==
    IF EntriesOf(map, e.url) = {}
      THEN Append(map, e)
      ELSE [i \in DOMAIN map |-> IF map[i].url = e.url THEN e ELSE map[i]]
MakeRoom(map) ==
    IF Len(map) >= MaxResponses THEN SubSeq(map, Len(map) - MaxResponses + 2, Len(map))
                              ELSE map

ResponseOf(r) == [url |-> req[r].url, read |-> req[r].read, timestamp |-> now]

StoreAndReply(r) ==
    /\ req[r] # Idle /\ req[r].phase = "storing"
    /\ cache' = SetEntry(MakeRoom(cache), ResponseOf(r))
    /\ Answer(req[r].read)
    /\ req' = [req EXCEPT ![r] = Idle]
    /\ UNCHANGED <<now, dbCache>>

(* Time goes on, but neither between the awaits of a reply that is on its    *)
(* way nor past the time a query may take.                                   *)
CachedTick ==
    /\ now < MaxTime
    /\ \A r \in Gets :
         req[r] # Idle => req[r].phase # "storing" /\ now < req[r].since + QueryWait
    /\ now' = now + 1
    /\ UNCHANGED <<cache, dbCache, req, oldest>>

CachedNext ==
    \/ \E u \in Urls : CacheHit(u) \/ \E r \in Gets : CacheMiss(r, u)
    \/ \E r \in Gets :
         \/ DatabaseReads(r) \/ QuerySucceeds(r) \/ QueryFails(r)
         \/ StoreAndReply(r)
    \/ CachedTick

CachedSpec == CachedInit /\ [][CachedNext]_cachedVars
----------------------------------------------------------------------------
(* However the two caches feed each other, no client is given data that left *)
(* the database longer ago than one query, the fallback's hour and one TTL:  *)
(* what the fallback serves enters the response cache, never the dbCache.    *)
AnswerAgeBounded == oldest <= QueryWait + MaxStale + Ttl
=============================================================================
