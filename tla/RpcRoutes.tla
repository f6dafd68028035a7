----------------------------- MODULE RpcRoutes -----------------------------
(* GET /api/adl/rankings (src/routes/adl.ts) and GET /health                 *)
(* (src/routes/health.ts): their caches, in front of calls that race a timer *)
(* (src/utils/rpc-timeout.ts) and are tried once more on a fallback RPC      *)
(* (src/utils/rpc-fallback.ts). A call that lost its race goes on.           *)
(* Data is told by its age, the time since an RPC node read it; the age of   *)
(* what has expired is of no interest. Time is in units, a timer is the      *)
(* units it has left.                                                        *)
EXTENDS Naturals, Sequences, FiniteSets, SequencesExt, JsMap

CONSTANTS
    Requests,     \* bound: requests in progress; one is used again
    Slabs, Blocked,  \* slab addresses, those that isBlockedSlab knows
    HasFallback,  \* FALLBACK_RPC_URL is set
    Timeout,      \* RPC_TIMEOUT_MS, HEALTH_RPC_TIMEOUT_MS
    DbWait,       \* external: within which a Supabase query settles
    AdlTtl,       \* ADL_CACHE_TTL_MS
    HealthTtl,    \* HEALTH_CACHE_TTL_MS
    MaxEntries    \* ADL_CACHE_MAX_ENTRIES

ASSUME WaitsNatural ==
    /\ Timeout \in Nat \ {0} /\ DbWait \in Nat
    /\ AdlTtl \in Nat \ {0} /\ HealthTtl \in Nat \ {0} /\ MaxEntries \in Nat \ {0}
ASSUME RoutesKnown ==
    "health" \notin Slabs /\ Blocked \subseteq Slabs /\ HasFallback \in BOOLEAN

VARIABLES
    adlCache,     \* the Map: [slab, age, fresh, inPlace], see Entry
    cachedHealth, \* none or one [age, fresh]
    route,        \* the slab a request asks for, or "health"
    stage,        \* what it awaits
    timer,        \* of the attempt or of the query
    elapsed,      \* since the attempt began
    late,         \* a call that lost its race has not settled
    age,          \* health: the age of its RPC check
    waited,       \* history: since the request arrived
    used          \* history: the slabs of the Map, last used (stored or hit) last

caches == <<adlCache, cachedHealth>>
vars == <<caches, route, stage, timer, elapsed, late, age, waited, used>>

(* Ages and waiting times stop one past what the invariants allow.           *)
MaxAge == 2 * Timeout + DbWait + AdlTtl + HealthTtl + 1
Routes == Slabs \union {"health"}

(* fresh: of the TTL what is left; inPlace: stored over an older entry,      *)
(* which leaves the order of a Map alone.                                    *)
Entry == [slab : Slabs, age : 0..MaxAge, fresh : 0..AdlTtl, inPlace : BOOLEAN]

NoneTwice(seq) == \A i, j \in DOMAIN seq : seq[i] = seq[j] => i = j
SlabsOf(map) == [i \in DOMAIN map |-> map[i].slab]

TypeOK ==
    /\ adlCache \in Seq(Entry) /\ Len(adlCache) <= MaxEntries
    /\ used \in Seq(Slabs)
    /\ NoneTwice(SlabsOf(adlCache)) /\ NoneTwice(used)
    /\ ToSet(SlabsOf(adlCache)) = ToSet(used)
    /\ cachedHealth \subseteq [age : 0..MaxAge, fresh : 1..HealthTtl]
    /\ route \in [Requests -> Routes]
    /\ stage \in [Requests -> {"idle", "primary", "fallback", "db"}]
    /\ timer \in [Requests -> 0..(Timeout + DbWait)]
    /\ elapsed \in [Requests -> 0..Timeout]
    /\ late \in [Requests -> BOOLEAN]
    /\ age \in [Requests -> 0..MaxAge] /\ waited \in [Requests -> 0..MaxAge]

Init ==
    /\ adlCache = <<>> /\ cachedHealth = {}
    /\ route = [r \in Requests |-> "health"]
    /\ stage = [r \in Requests |-> "idle"]
    /\ timer = [r \in Requests |-> 0] /\ elapsed = [r \in Requests |-> 0]
    /\ late = [r \in Requests |-> FALSE]
    /\ age = [r \in Requests |-> 0] /\ waited = [r \in Requests |-> 0]
    /\ used = <<>>

----------------------------------------------------------------------------
Goto(r, s) == stage' = [stage EXCEPT ![r] = s]

(* The request is answered; what it has waited is of no more interest.       *)
Respond(r) ==
    /\ Goto(r, "idle")
    /\ timer' = [timer EXCEPT ![r] = 0] /\ elapsed' = [elapsed EXCEPT ![r] = 0]
    /\ age' = [age EXCEPT ![r] = 0] /\ waited' = [waited EXCEPT ![r] = 0]

(* withRpcTimeout: an attempt with a timer of its own.                       *)
AttemptUntimed(r, which) ==
    /\ Goto(r, which)
    /\ timer' = [timer EXCEPT ![r] = IF which = "primary" THEN Timeout ELSE Timeout + DbWait]
    /\ elapsed' = [elapsed EXCEPT ![r] = 0]
    /\ UNCHANGED <<age, waited>>
Attempt(r, which) ==
    /\ Goto(r, which)
    /\ timer' = [timer EXCEPT ![r] = Timeout]
    /\ elapsed' = [elapsed EXCEPT ![r] = 0]
    /\ UNCHANGED <<age, waited>>

(* A hit is moved to the end of the Map.                                     *)
MovedLast(seq, slab) == Append(Kept(seq, ToSet(seq) \ {slab}), slab)
HitInPlace(e) == adlCache' = adlCache /\ used' = MovedLast(used, e.slab)
Hit(e) ==
    /\ adlCache' = Append(Kept(adlCache, ToSet(adlCache) \ {e}), [e EXCEPT !.inPlace = FALSE])
    /\ used' = MovedLast(used, e.slab)

AdlRequest(r, slab) ==
    /\ stage[r] = "idle" /\ ~late[r]
    /\ route' = [route EXCEPT ![r] = slab]
    /\ \/ \E e \in ToSet(adlCache) :
            e.slab = slab /\ e.fresh > 0 /\ Hit(e) /\ Respond(r)
       \/ /\ \A e \in ToSet(adlCache) : e.slab = slab => e.fresh = 0
          /\ IF slab \in Blocked THEN Respond(r) ELSE Attempt(r, "primary")
          /\ UNCHANGED <<adlCache, used>>
    /\ UNCHANGED <<cachedHealth, late>>

HealthRequest(r) ==
    /\ stage[r] = "idle" /\ ~late[r]
    /\ route' = [route EXCEPT ![r] = "health"]
    /\ IF cachedHealth # {} THEN Respond(r) ELSE Attempt(r, "primary")
    /\ UNCHANGED <<caches, used, late>>

----------------------------------------------------------------------------
(* An entry is stored: the first of a full Map goes, whatever is stored.     *)
Stored(slab, a) ==
    LET full == Len(adlCache) >= MaxEntries
        room == IF full THEN Tail(adlCache) ELSE adlCache
        gone == IF full THEN {Head(adlCache).slab} ELSE {}
        old == {i \in DOMAIN room : room[i].slab = slab}
        new == [slab |-> slab, age |-> a, fresh |-> AdlTtl, inPlace |-> old # {}]
    IN /\ adlCache' = IF old = {} THEN Append(room, new)
                      ELSE [i \in DOMAIN room |-> IF i \in old THEN new ELSE room[i]]
       /\ used' = MovedLast(Kept(used, ToSet(used) \ gone), slab)

(* The slab is there: a v17 account, or one that does not parse, is refused. *)
SlabFetched(r, a) ==
    /\ Stored(route[r], a) \/ UNCHANGED <<adlCache, used>>
    /\ Respond(r)

(* The RPC check of /health is made; the query to Supabase follows.          *)
RpcChecked(r, a) ==
    /\ Goto(r, "db")
    /\ timer' = [timer EXCEPT ![r] = DbWait]
    /\ elapsed' = [elapsed EXCEPT ![r] = 0]
    /\ age' = [age EXCEPT ![r] = a]
    /\ UNCHANGED <<adlCache, used, waited>>

Trying(r) == stage[r] \in {"primary", "fallback"}

(* The attempt answers in time, with what the node read meanwhile.           *)
Fulfilled(r) ==
    /\ \E a \in 0..elapsed[r] :
         IF route[r] = "health" THEN RpcChecked(r, a) ELSE SlabFetched(r, a)
    /\ UNCHANGED <<cachedHealth, route>>

Answers(r) == Trying(r) /\ Fulfilled(r) /\ UNCHANGED late

(* It fails: the fallback is tried if there is one. The last error decides.  *)
Fails(r) ==
    /\ IF stage[r] = "primary" /\ HasFallback
         THEN Attempt(r, "fallback") /\ UNCHANGED <<adlCache, used>>
         ELSE IF route[r] = "health"
                THEN RpcChecked(r, 0)
                ELSE Respond(r) /\ UNCHANGED <<adlCache, used>>
    /\ UNCHANGED <<cachedHealth, route>>

Rejects(r) == Trying(r) /\ Fails(r) /\ UNCHANGED late

TimesOut(r) ==
    /\ Trying(r) /\ timer[r] = 0
    /\ late' = [late EXCEPT ![r] = TRUE]
    /\ Fails(r)

(* A call that lost settles; nobody listens.                                 *)
LateAnswerUsed(r) ==
    /\ late[r]
    /\ late' = [late EXCEPT ![r] = FALSE]
    /\ IF Trying(r) /\ route[r] # "health"
         THEN Stored(route[r], waited[r]) /\ Respond(r)
         ELSE UNCHANGED <<adlCache, used, stage, timer, elapsed, age, waited>>
    /\ UNCHANGED <<cachedHealth, route>>
LateAnswer(r) ==
    /\ late[r]
    /\ late' = [late EXCEPT ![r] = FALSE]
    /\ UNCHANGED <<caches, route, stage, timer, elapsed, age, waited, used>>

(* The query has settled: /health is answered and cached in order of this.   *)
DbChecked(r) ==
    /\ stage[r] = "db"
    /\ cachedHealth' = {[age |-> age[r], fresh |-> HealthTtl]}
    /\ Respond(r)
    /\ UNCHANGED <<adlCache, used, route, late>>

(* Time goes on when no timer is due.                                        *)
Older(n) == IF n < MaxAge THEN n + 1 ELSE n
Less(n) == IF n > 0 THEN n - 1 ELSE 0
Tick ==
    /\ \A r \in Requests : stage[r] # "idle" => timer[r] > 0
    /\ adlCache' = [i \in DOMAIN adlCache |->
         LET e == adlCache[i] IN
         [e EXCEPT !.age = IF e.fresh > 1 THEN Older(@) ELSE 0, !.fresh = Less(@)]]
    /\ cachedHealth' = {[age |-> Older(h.age), fresh |-> h.fresh - 1] :
                           h \in {x \in cachedHealth : x.fresh > 1}}
    /\ timer' = [r \in Requests |-> Less(timer[r])]
    /\ elapsed' = [r \in Requests |-> IF Trying(r) THEN elapsed[r] + 1 ELSE 0]
    /\ age' = [r \in Requests |-> IF stage[r] = "db" THEN Older(age[r]) ELSE 0]
    /\ waited' = [r \in Requests |-> IF stage[r] = "idle" THEN 0 ELSE Older(waited[r])]
    /\ UNCHANGED <<route, stage, late, used>>

Next ==
    \/ \E r \in Requests :
         \/ \E slab \in Slabs : AdlRequest(r, slab)
         \/ HealthRequest(r)
         \/ Answers(r) \/ Rejects(r) \/ TimesOut(r) \/ LateAnswer(r)
         \/ DbChecked(r)
    \/ Tick

Spec == Init /\ [][Next]_vars
----------------------------------------------------------------------------
(* No answer shows a slab older than the cache's TTL and one timeout, nor an *)
(* RPC check older than its TTL, one timeout and a query: a late answer of   *)
(* the primary is not used, the fallback's time does not add up, storing a   *)
(* result anew does not renew it. (What is answered is in the cache.)        *)
AgeBounded ==
    /\ \A e \in ToSet(adlCache) : e.fresh > 0 => e.age + e.fresh <= AdlTtl + Timeout
    /\ \A h \in cachedHealth : h.age + h.fresh <= HealthTtl + Timeout + DbWait

(* Every request is answered within two timeouts (and a query), whatever the *)
(* RPC nodes do.                                                             *)
AnsweredInTime ==
    \A r \in Requests :
        waited[r] <= 2 * Timeout + (IF route[r] = "health" THEN DbWait ELSE 0)

(* The Map is in the order of use, "behaves as LRU" (adl.ts 184-188): what   *)
(* is evicted has not been used after what stays - except an entry that was  *)
(* stored over an older one: it keeps the place of its first insertion.      *)
LeastRecentlyUsedFirst ==
    \A i, j \in DOMAIN adlCache :
        i < j /\ ~adlCache[i].inPlace =>
            \E m, n \in DOMAIN used :
                m < n /\ used[m] = adlCache[i].slab /\ used[n] = adlCache[j].slab
=============================================================================
