----------------------------- MODULE RateLimit -----------------------------
(* The read rate limit of src/middleware/rate-limit.ts on either SharedStore *)
(* of src/middleware/shared-store.ts: InMemoryStore, whose increment is over *)
(* before anything else runs, and UpstashStore, whose script carries the     *)
(* time at which the request was sent, is executed later, and may fail,      *)
(* executed or not: then the process's own fallback Map decides, and what    *)
(* was not executed may still be. Times are relative to now: left is         *)
(* resetAt - now. What is over is no longer told apart, in Redis when it has *)
(* been for longer than a script may take (the 5 s of PEXPIRE at most).      *)
EXTENDS Integers, Sequences, FiniteSets, SequencesExt, JsMap

CONSTANTS
    Ips,         \* keys of the buckets; the writes' keys never occur behind
                 \* the 405 of index.ts
    Requests,    \* requests awaiting UpstashStore; one is reused when answered
    Limit,       \* READ_LIMIT
    Window,      \* WINDOW_MS
    Second,      \* 1000 ms: Retry-After counts in seconds
    MaxEntries,  \* MAX_RATE_LIMIT_ENTRIES
    ScanLimit,   \* EVICTION_SCAN_LIMIT
    Timeout,     \* AbortSignal.timeout of UpstashStore.cmd
    Delay,       \* how long after it was sent a script may be executed
    MaxCount,    \* bound: a count past the limit that stands for all larger ones
    RedisIps     \* bound: IPs seen when the store is UpstashStore

ASSUME BoundsPositive ==
    /\ Limit \in Nat \ {0} /\ Window \in Nat \ {0} /\ Second \in Nat \ {0}
    /\ MaxEntries \in Nat \ {0} /\ ScanLimit \in Nat \ {0}
    /\ Timeout \in Nat /\ Delay \in Nat /\ Timeout <= Delay
    /\ MaxCount \in Nat /\ MaxCount > Limit
    /\ RedisIps \subseteq Ips /\ IsFiniteSet(Requests)
(* 2 s and 5 s in 60 s: of the windows that a late script shortens, no two   *)
(* fit into the requests of one window.                                      *)
ASSUME CommandsQuick == Timeout + Delay < Window

VARIABLES
    store,     \* which SharedStore: "memory" or "redis"
    map,       \* readBuckets of the InMemoryStore or of the fallback, oldest first
    redis,     \* the hash of each key
    req,       \* a request on its way through UpstashStore
    clock,     \* Date.now() modulo Second
    byMap,     \* history: byMap[ip][a]: requests let through a units ago on what
               \* the Map said, those a full Map had to forget excepted
    byRedis,   \* history: byRedis[ip][a]: the same on what Redis said
    told,      \* history: in how long the last 429 told ip to come back
    refusedAt  \* history: the fewest requests let through before a refusal

vars == <<store, map, redis, req, clock, byMap, byRedis, told, refusedAt>>
answers == <<byMap, byRedis, told, refusedAt>>

Idle == [phase |-> "idle"]
NoBucket == [count |-> 0, left |-> -Delay]
Left == (-Delay)..Window
Ages == 0..(Window - 1)
Nothing == [a \in Ages |-> 0]
Buckets == [count : 0..MaxCount, left : Left]
Entries == [ip : Ips, count : 1..MaxCount, left : 0..Window]
Calls == [phase : {"sent", "executed", "abandoned"}, ip : Ips, lag : 0..Delay,
          bucket : Buckets]

TypeOK ==
    /\ store \in {"memory", "redis"}
    /\ map \in Seq(Entries)
    /\ \A i, j \in DOMAIN map : map[i].ip = map[j].ip => i = j
    /\ Len(map) <= MaxEntries
    /\ redis \in [Ips -> Buckets]
    /\ req \in [Requests -> {Idle} \union Calls]
    /\ clock \in 0..(Second - 1)
    /\ byMap \in [Ips -> [Ages -> Nat]] /\ byRedis \in [Ips -> [Ages -> Nat]]
    /\ told \in [Ips -> Int]
    /\ refusedAt \in 0..Limit

Init ==
    /\ store \in {"memory", "redis"}
    /\ map = <<>>
    /\ redis = [ip \in Ips |-> NoBucket]
    /\ req = [r \in Requests |-> Idle]
    /\ clock = 0
    /\ byMap = [ip \in Ips |-> Nothing] /\ byRedis = [ip \in Ips |-> Nothing]
    /\ told = [ip \in Ips |-> -Second]
    /\ refusedAt = Limit

----------------------------------------------------------------------------
Lesser(a, b) == IF a < b THEN a ELSE b
Greater(a, b) == IF a > b THEN a ELSE b

Expired(b) == b.left = 0
BucketsOf(m, ip) == {b \in ToSet(m) : b.ip = ip}

(* A new key in a full Map displaces the first expired bucket among the      *)
(* first ScanLimit, or the first bucket of all.                              *)
Over(m) == {i \in 1..Lesser(ScanLimit, Len(m)) : Expired(m[i])}
VictimOldest(m) == 1
Victim(m) == IF Over(m) = {} THEN 1 ELSE Min(Over(m))
Displaces(m, ip) == BucketsOf(m, ip) = {} /\ Len(m) >= MaxEntries
Room(m, ip) == IF Displaces(m, ip) THEN Kept(m, ToSet(m) \ {m[Victim(m)]}) ELSE m

Fresh(ip) == [ip |-> ip, count |-> 0, left |-> Window]

(* Map.set keeps the place of a key that is there, so a bucket that starts   *)
(* anew after its window is as old as the key.                               *)
Plus(b) == [b EXCEPT !.count = Lesser(@ + 1, MaxCount)]
CountedOn(b) == IF Expired(b) THEN [Plus(b) EXCEPT !.left = Window] ELSE Plus(b)
Counted(b) == IF Expired(b) THEN Plus(Fresh(b.ip)) ELSE Plus(b)

(* InMemoryStore.incrementRateBucket.                                        *)
Incremented(m, ip) ==
    IF BucketsOf(m, ip) # {}
      THEN [i \in DOMAIN m |-> IF m[i].ip = ip THEN Counted(m[i]) ELSE m[i]]
      ELSE Append(Room(m, ip), Plus(Fresh(ip)))

(* The displaced bucket was in use, as were all that were looked at.         *)
Forgotten(m, ip) ==
    IF Displaces(m, ip) /\ Over(m) = {} THEN {m[Victim(m)].ip} ELSE {}

LetThrough(ip) == SumFunctionOnSet(byMap[ip], Ages) + SumFunctionOnSet(byRedis[ip], Ages)

(* The Retry-After header: the two times are cut to seconds, then the        *)
(* difference is taken. clock is what was cut from now.                      *)
RetryAfterOfWindow(left) == Window \div Second
RetryAfter(left) == Greater(1, (clock + left) \div Second)

(* The middleware lets the request through or, past the limit, refuses it.   *)
OneMore(through, ip) == [through EXCEPT ![ip][0] = @ + 1]
Refuse(ip, left) ==
    IF store = "memory"
      THEN /\ told' = [told EXCEPT ![ip] = RetryAfter(left) * Second]
           /\ refusedAt' = Lesser(refusedAt, LetThrough(ip))
      ELSE UNCHANGED <<told, refusedAt>>

(* The Map counts the request and decides.                                   *)
DecidedByMap(ip) ==
    /\ map' = Incremented(map, ip)
    /\ \E b \in BucketsOf(map', ip) :
         IF b.count > Limit
           THEN Refuse(ip, b.left) /\ UNCHANGED byMap
           ELSE /\ byMap' = OneMore([i \in Ips |-> IF i \in Forgotten(map, ip) THEN Nothing
                                                  ELSE byMap[i]], ip)
                /\ UNCHANGED <<told, refusedAt>>
    /\ UNCHANGED byRedis

ReadInMemory(ip) ==
    /\ store = "memory"
    /\ DecidedByMap(ip)
    /\ UNCHANGED <<store, redis, req, clock>>

(* evictExpiredRateBuckets, an interval; UpstashStore's does nothing, so its *)
(* fallback is never swept.                                                  *)
Sweep ==
    /\ store = "memory"
    /\ \E i \in DOMAIN map : Expired(map[i])
    /\ map' = Kept(map, {b \in ToSet(map) : ~Expired(b)})
    /\ UNCHANGED <<store, redis, req, clock, answers>>

----------------------------------------------------------------------------
(* UpstashStore: the script is sent with the time of now.                    *)
Send(r, ip) ==
    /\ store = "redis" /\ ip \in RedisIps
    /\ req[r] = Idle
    /\ req' = [req EXCEPT ![r] = [phase |-> "sent", ip |-> ip, lag |-> 0,
                                  bucket |-> NoBucket]]
    /\ UNCHANGED <<store, map, redis, clock, answers>>

(* The script is executed, its now being lag units old.                      *)
ScriptResult(b, lag) ==
    IF b.left <= -lag THEN [count |-> 1, left |-> Window - lag] ELSE Plus(b)

Execute(r) ==
    /\ req[r] # Idle /\ req[r].phase \in {"sent", "abandoned"}
    /\ LET ip == req[r].ip
           b == ScriptResult(redis[ip], req[r].lag)
       IN /\ redis' = [redis EXCEPT ![ip] = b]
          /\ req' = [req EXCEPT ![r] =
                IF @.phase = "sent" THEN [@ EXCEPT !.phase = "executed", !.bucket = b]
                                    ELSE Idle]
    /\ UNCHANGED <<store, map, clock, answers>>

(* The reply arrives in time.                                                *)
ReplyArrives(r) ==
    /\ req[r] # Idle /\ req[r].phase = "executed"
    /\ byRedis' = IF req[r].bucket.count > Limit THEN byRedis ELSE OneMore(byRedis, req[r].ip)
    /\ req' = [req EXCEPT ![r] = Idle]
    /\ UNCHANGED <<store, map, redis, clock, byMap, told, refusedAt>>

(* The call fails or times out: the request is counted again in the fallback,*)
(* whether or not Redis has counted it, or still will.                       *)
FallBack(r) ==
    /\ req[r] # Idle /\ req[r].phase \in {"sent", "executed"}
    /\ DecidedByMap(req[r].ip)
    /\ req' = [req EXCEPT ![r] =
                 IF @.phase = "sent" THEN [@ EXCEPT !.phase = "abandoned"] ELSE Idle]
    /\ UNCHANGED <<store, redis, clock>>
Lost(r) ==
    /\ req[r] # Idle /\ req[r].phase = "abandoned"
    /\ req' = [req EXCEPT ![r] = Idle]
    /\ UNCHANGED <<store, map, redis, clock, answers>>

(* Time goes on, not past the abort of a command or the end of the Delay.    *)
Older(b, least) == [b EXCEPT !.left = Greater(@ - 1, least)]
Shifted(through) == [a \in Ages |-> IF a = 0 THEN 0 ELSE through[a - 1]]

Tick ==
    /\ \A r \in Requests : req[r] # Idle =>
         req[r].lag < IF req[r].phase = "abandoned" THEN Delay ELSE Timeout
    /\ clock' = (clock + 1) % Second
    /\ map' = [i \in DOMAIN map |-> Older(map[i], 0)]
    /\ redis' = [ip \in Ips |-> IF redis[ip].left <= 1 - Delay THEN NoBucket
                                ELSE Older(redis[ip], -Delay)]
    /\ req' = [r \in Requests |->
                 IF req[r] = Idle THEN Idle
                 ELSE [req[r] EXCEPT !.lag = @ + 1, !.bucket = Older(@, -Delay)]]
    /\ byMap' = [ip \in Ips |-> Shifted(byMap[ip])]
    /\ byRedis' = [ip \in Ips |-> Shifted(byRedis[ip])]
    /\ told' = [ip \in Ips |-> Greater(told[ip] - 1, -Second)]
    /\ UNCHANGED <<store, refusedAt>>

Next ==
    \/ \E ip \in Ips : ReadInMemory(ip) \/ \E r \in Requests : Send(r, ip)
    \/ \E r \in Requests : Execute(r) \/ ReplyArrives(r) \/ FallBack(r) \/ Lost(r)
    \/ Sweep
    \/ Tick

Spec == Init /\ [][Next]_vars
----------------------------------------------------------------------------
(* The window is fixed, not the rolling one of shared-store.ts 63, so a burst*)
(* over its end is let through: 2 * Limit - 1 requests in one Window, the    *)
(* one that opened the first window being out of it. On Redis a late command *)
(* brings a third window in, and the fallback counts on its own:             *)
(* 5 * Limit - 2. No interleaving of requests, sweeps and failures gives     *)
(* more, except for what a full Map forgot, its eviction preferring expired  *)
(* buckets to those in use.                                                  *)
Burst == IF store = "memory" THEN 2 * Limit - 1 ELSE 5 * Limit - 2
RateBounded == \A ip \in Ips : LetThrough(ip) <= Burst

(* On the in-memory store nobody is refused who was not let through Limit    *)
(* times in the last Window: no other IP, former window or refused request   *)
(* uses up the limit.                                                        *)
RefusalDeserved == store = "memory" => refusedAt = Limit

(* A client that waits as long as Retry-After says is refused for less than  *)
(* a second more, and is not kept waiting for more than a second too long,   *)
(* although both times are cut to seconds before they are subtracted.        *)
RetryAfterClose ==
    \A i \in DOMAIN map :
        LET b == map[i]
        IN store = "memory" /\ b.count > Limit /\ ~Expired(b) =>
             /\ b.left < told[b.ip] + Second
             /\ told[b.ip] <= b.left + Second
=============================================================================
