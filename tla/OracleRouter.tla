---------------------------- MODULE OracleRouter ----------------------------
(* GET /oracle/resolve/:mint (src/routes/oracle-router.ts): a read-through   *)
(* cache of resolvePrice with request coalescing and a stale fallback. A     *)
(* request runs without an await until it has a fresh hit or a promise to    *)
(* await; the promise settles in one go, and a request resumes after it.     *)
(* A result is the number of the upstream call it comes from; Map order is   *)
(* kept, as it decides what is evicted.                                      *)
EXTENDS Naturals, Sequences, FiniteSets, SequencesExt, JsMap

CONSTANTS
    Mints,
    Requests,     \* HTTP requests; one is reused once it is answered
    Ttl,          \* CACHE_TTL_MS
    MaxStale,     \* MAX_STALE_AGE_MS
    MaxCacheSize, \* MAX_CACHE_SIZE
    CallTimeout,  \* the AbortSignal.timeout of an upstream call
    MaxTime,      \* bound: the clock stops here
    MaxCalls      \* bound: upstream calls per mint

ASSUME BoundsPositive ==
    /\ Ttl \in Nat \ {0} /\ MaxStale \in Nat \ {0} /\ CallTimeout \in Nat \ {0}
    /\ MaxCacheSize \in Nat \ {0} /\ MaxTime \in Nat /\ MaxCalls \in Nat

VARIABLES
    now,       \* Date.now()
    cache,     \* the Map, oldest first: [mint, result, expiresAt]
    inflight,  \* inflight[m]: mint m has an entry
    calls,     \* calls[m]: upstream calls of m that have not settled: [id, since]
    issued,    \* issued[m]: upstream calls of m so far
    req,       \* a request: [phase, mint, call, cached]
    served,    \* history: the result a request for the mint was last answered
    oldest     \* history: the greatest age of a result when it was answered

vars == <<now, cache, inflight, calls, issued, req, served, oldest>>
answers == <<served, oldest>>

None == [mint |-> "none"]
Idle == [phase |-> "idle"]
Calls == 1..MaxCalls
Entry == [mint : Mints, result : Calls, expiresAt : 0..(MaxTime + Ttl)]
Pending == [phase : {"waiting", "resolved", "failed"}, mint : Mints, call : Calls,
            cached : Entry \union {None}]

(* Map operations: what is left without a key, and set, which keeps the      *)
(* place of a key that is there.                                             *)
Without(map, m) == Kept(map, {e \in ToSet(map) : e.mint # m})
Has(map, m) == \E i \in DOMAIN map : map[i].mint = m
Lookup(map, m) == IF Has(map, m) THEN CHOOSE e \in ToSet(map) : e.mint = m ELSE None
Set(map, e) ==
    IF Has(map, e.mint)
      THEN [i \in DOMAIN map |-> IF map[i].mint = e.mint THEN e ELSE map[i]]
      ELSE Append(map, e)

TypeOK ==
    /\ now \in 0..MaxTime
    /\ cache \in Seq(Entry)
    /\ \A i, j \in DOMAIN cache : cache[i].mint = cache[j].mint => i = j
    /\ inflight \in [Mints -> BOOLEAN]
    /\ calls \in [Mints -> SUBSET [id : Calls, since : 0..MaxTime]]
    /\ issued \in [Mints -> 0..MaxCalls]
    /\ served \in [Mints -> 0..MaxCalls]
    /\ oldest \in 0..MaxTime
    /\ req \in [Requests -> {Idle} \union Pending]

Init ==
    /\ now = 0
    /\ cache = <<>>
    /\ inflight = [m \in Mints |-> FALSE]
    /\ calls = [m \in Mints |-> {}]
    /\ issued = [m \in Mints |-> 0]
    /\ req = [r \in Requests |-> Idle]
    /\ served = [m \in Mints |-> 0]
    /\ oldest = 0

----------------------------------------------------------------------------
(* The entries beyond the stale window are evicted by every request.         *)
BeyondStale(e) == now >= e.expiresAt + MaxStale
Evicted(map) == Kept(map, {e \in ToSet(map) : ~BeyondStale(e)})

Fresh(e) == e # None /\ now < e.expiresAt

(* A request is answered with result id of mint m, which is so old now.      *)
Answer(m, id, age) ==
    /\ served' = [served EXCEPT ![m] = id]
    /\ oldest' = IF age > oldest THEN age ELSE oldest
Age(e) == now - (e.expiresAt - Ttl)

(* A request starts a call although one is in flight.                        *)
JoinsNever(m) == FALSE
Joins(m) == inflight[m]

(* The handler up to its await: a fresh hit is answered at once and promoted *)
(* to the end of the Map; otherwise the request joins the mint's call, or    *)
(* makes it, and keeps the entry it has seen.                                *)
Request(r, m) ==
    /\ req[r] = Idle
    /\ LET swept == Evicted(cache)
           cached == Lookup(swept, m)
       IN IF Fresh(cached)
            THEN /\ cache' = Append(Without(swept, m), cached)
                 /\ Answer(m, cached.result, Age(cached))
                 /\ UNCHANGED <<inflight, calls, issued, req>>
            ELSE /\ cache' = swept
                 /\ IF Joins(m)
                      THEN UNCHANGED <<inflight, calls, issued>>
                      ELSE /\ issued[m] < MaxCalls
                           /\ issued' = [issued EXCEPT ![m] = @ + 1]
                           /\ inflight' = [inflight EXCEPT ![m] = TRUE]
                           /\ calls' = [calls EXCEPT ![m] = @ \union
                                          {[id |-> issued[m] + 1, since |-> now]}]
                 /\ req' = [req EXCEPT ![r] =
                              [phase |-> "waiting", mint |-> m,
                               call |-> issued'[m], cached |-> cached]]
                 /\ UNCHANGED answers
    /\ UNCHANGED now

(* Who awaits call id of mint m is resumed with its outcome.                 *)
Resume(m, id, outcome) ==
    req' = [r \in Requests |->
              IF req[r] # Idle /\ req[r].phase = "waiting"
                   /\ req[r].mint = m /\ req[r].call = id
                THEN [req[r] EXCEPT !.phase = outcome] ELSE req[r]]

(* A promise settles in an I/O event: whoever awaited the one before has     *)
(* been resumed by then.                                                     *)
FollowedUp == \A r \in Requests : req[r] = Idle \/ req[r].phase = "waiting"

(* A full Map loses its oldest entry, also when the mint is in the Map.      *)
MakeRoom(map) == IF Len(map) >= MaxCacheSize THEN Tail(map) ELSE map

(* What a call that answers now leaves in the cache.                         *)
Stored(m, id) == [mint |-> m, result |-> id, expiresAt |-> now + Ttl]

(* The upstream call answers: the cache is written, then the inflight entry  *)
(* deleted.                                                                  *)
UpstreamResolves(m) ==
    /\ FollowedUp
    /\ \E call \in calls[m] :
         /\ calls' = [calls EXCEPT ![m] = @ \ {call}]
         /\ cache' = Set(MakeRoom(cache), Stored(m, call.id))
         /\ Resume(m, call.id, "resolved")
    /\ inflight' = [inflight EXCEPT ![m] = FALSE]
    /\ UNCHANGED <<now, issued, answers>>

(* A rejection that leaves the settled promise in the inflight Map.          *)
RejectionKeepsPromise(m) ==
    /\ FollowedUp
    /\ \E call \in calls[m] :
         /\ calls' = [calls EXCEPT ![m] = @ \ {call}]
         /\ Resume(m, call.id, "failed")
    /\ UNCHANGED <<now, cache, inflight, issued, answers>>

(* The upstream call fails or times out: only the inflight entry goes.       *)
UpstreamRejects(m) ==
    /\ FollowedUp
    /\ \E call \in calls[m] :
         /\ calls' = [calls EXCEPT ![m] = @ \ {call}]
         /\ Resume(m, call.id, "failed")
    /\ inflight' = [inflight EXCEPT ![m] = FALSE]
    /\ UNCHANGED <<now, cache, issued, answers>>

(* The reply of a resumed request: the result; after a failure the entry it  *)
(* saw at the start if that is still usable now, marked stale; else a 500.   *)
UsableAlways(e) == e # None
Usable(e) == e # None /\ ~BeyondStale(e)

Reply(r) ==
    /\ req[r] # Idle
    /\ \/ /\ req[r].phase = "resolved"
          /\ Answer(req[r].mint, req[r].call, 0)
       \/ /\ req[r].phase = "failed" /\ Usable(req[r].cached)
          /\ Answer(req[r].mint, req[r].cached.result, Age(req[r].cached))
       \/ /\ req[r].phase = "failed" /\ ~Usable(req[r].cached)
          /\ UNCHANGED answers
    /\ req' = [req EXCEPT ![r] = Idle]
    /\ UNCHANGED <<now, cache, inflight, calls, issued>>

(* Time goes on, not past the abort of a call.                               *)
Tick ==
    /\ now < MaxTime
    /\ FollowedUp
    /\ \A m \in Mints : \A call \in calls[m] : now < call.since + CallTimeout
    /\ now' = now + 1
    /\ UNCHANGED <<cache, inflight, calls, issued, req, answers>>

Next ==
    \/ \E r \in Requests : Reply(r) \/ \E m \in Mints : Request(r, m)
    \/ \E m \in Mints : UpstreamResolves(m) \/ UpstreamRejects(m)
    \/ Tick

(* The upstream call settles, by its abort signal at the latest; a settled   *)
(* promise resumes who awaits it.                                            *)
Fairness ==
    /\ \A m \in Mints : WF_vars(UpstreamResolves(m) \/ UpstreamRejects(m))
    /\ \A r \in Requests : WF_vars(Reply(r))

Spec == Init /\ [][Next]_vars /\ Fairness
----------------------------------------------------------------------------
(* The inflight Map stands for the upstream calls: a mint has an entry iff a *)
(* call of it has not settled, and never two calls at a time, so N requests  *)
(* that miss cost one call and none is left awaiting a settled one.          *)
CallsCoalesced ==
    \A m \in Mints :
        /\ Cardinality(calls[m]) <= 1
        /\ inflight[m] <=> calls[m] # {}
        /\ \A r \in Requests :
             req[r] # Idle /\ req[r].phase = "waiting" /\ req[r].mint = m
               => req[r].call \in {call.id : call \in calls[m]}

(* No answer is older than the TTL and the stale window together, although   *)
(* the entry a stale answer comes from was read before the call was awaited. *)
AnswersInDate == oldest < Ttl + MaxStale

(* Answers for a mint never go back to an older result than one given        *)
(* before: not by a call that overtakes another, by an evicted entry, or by  *)
(* the entry a request has kept while it waited.                             *)
AnswersMonotone == [][\A m \in Mints : served'[m] >= served[m]]_vars

(* Every request is answered, whichever call it joined.                      *)
Answered == \A r \in Requests : req[r] # Idle ~> req[r] = Idle
=============================================================================
