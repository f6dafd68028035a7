------------------------- MODULE OracleRouter_proofs -------------------------
(* Proofs about OracleRouter: one upstream call at a time per mint, no       *)
(* answer out of date, and no mint's answers going back.                     *)
EXTENDS OracleRouter, JsMap_proofs, FiniteSetTheorems

(* What CallsCoalesced says, of the members of calls[m] instead of their     *)
(* number; the one in flight is the last issued.                             *)
OneCall ==
    \A m \in Mints :
        /\ \A a, b \in calls[m] : a = b
        /\ \A a \in calls[m] : a.id = issued[m]
        /\ inflight[m] <=> calls[m] # {}
        /\ \A r \in Requests :
             req[r] # Idle /\ req[r].phase = "waiting" /\ req[r].mint = m
               => \E a \in calls[m] : a.id = req[r].call

(* Entries, those that requests keep included, were stored at a time past.   *)
Past(e) == Ttl <= e.expiresAt /\ e.expiresAt <= now + Ttl
Dated ==
    /\ \A i \in DOMAIN cache : Past(cache[i])
    /\ \A r \in Requests : req[r] # Idle /\ req[r].cached # None => Past(req[r].cached)

(* A result of a mint that can still be answered: it is in the cache, or a   *)
(* request that will be answered has it.                                     *)
InCache(m, x) == \E i \in DOMAIN cache : cache[i].mint = m /\ cache[i].result = x
With(r, m, x) ==
    /\ req[r] # Idle /\ req[r].mint = m
    /\ \/ req[r].phase = "resolved" /\ req[r].call = x
       \/ /\ req[r].phase \in {"waiting", "failed"}
          /\ req[r].cached # None /\ req[r].cached.result = x
Held(m, x) == InCache(m, x) \/ \E r \in Requests : With(r, m, x)

(* Of each mint one result can be answered, not older than what has been,    *)
(* and older than the one of the call in flight.                             *)
OneResult ==
    \A m \in Mints :
        /\ \A x, y \in Calls : Held(m, x) /\ Held(m, y) => x = y
        /\ \A x \in Calls : Held(m, x) =>
             /\ served[m] <= x /\ x <= issued[m]
             /\ calls[m] # {} => x < issued[m]
        /\ served[m] <= issued[m]
        /\ calls[m] # {} => served[m] < issued[m]

IInv == TypeOK /\ OneCall /\ Dated /\ OneResult /\ AnswersInDate
----------------------------------------------------------------------------
USE BoundsPositive

(* The Map operations.                                                       *)
Distinct(map) == \A i, j \in DOMAIN map : map[i].mint = map[j].mint => i = j
Within(map, other) == \A i \in DOMAIN map : \E j \in DOMAIN other : map[i] = other[j]

LEMMA KeptMap ==
    ASSUME NEW map \in Seq(Entry), Distinct(map), NEW K
    PROVE  /\ Kept(map, K) \in Seq(Entry) /\ Distinct(Kept(map, K))
           /\ Within(Kept(map, K), map)
           /\ \A i \in DOMAIN Kept(map, K) : Kept(map, K)[i] \in K
  <1> DEFINE t == Kept(map, K)
  <1>1. t \in Seq(Entry) /\ \E place : Places(map, K, t, Len(map), place)
    BY KeptPlaces
  <1>2. PICK place : Places(map, K, t, Len(map), place)
    BY <1>1
  <1> HIDE DEF t
  <1>3. DOMAIN t = 1..Len(t) /\ DOMAIN map = 1..Len(map) /\ Len(t) \in Nat
    BY <1>1
  <1>4. \A i \in DOMAIN t : /\ place[i] \in DOMAIN map
                            /\ t[i] = map[place[i]] /\ map[place[i]] \in K
    BY <1>2, <1>3 DEF Places
  <1>5. ASSUME NEW i \in DOMAIN t, NEW j \in DOMAIN t, t[i].mint = t[j].mint
        PROVE  i = j
    <2>1. place[i] = place[j] /\ place[i] \in Nat
      BY <1>3, <1>4, <1>5 DEF Distinct
    <2>2. (i < j => place[i] < place[j]) /\ (j < i => place[j] < place[i])
      BY <1>2, <1>3 DEF Places
    <2> QED  BY <1>3, <2>1, <2>2
  <1> QED  BY <1>1, <1>4, <1>5 DEF t, Within, Distinct

LEMMA LookupIn ==
    ASSUME NEW map \in Seq(Entry), NEW m, Lookup(map, m) # None
    PROVE  /\ Lookup(map, m) \in Entry /\ Lookup(map, m).mint = m
           /\ \E i \in DOMAIN map : map[i] = Lookup(map, m)
  <1>1. PICK i \in DOMAIN map : map[i].mint = m
    BY DEF Lookup, Has
  <1>2. \E e \in ToSet(map) : e.mint = m
    BY <1>1 DEF ToSet
  <1>3. Lookup(map, m) = CHOOSE e \in ToSet(map) : e.mint = m
    BY <1>1 DEF Lookup, Has
  <1>4. Lookup(map, m) \in ToSet(map) /\ Lookup(map, m).mint = m
    BY <1>2, <1>3
  <1>5. PICK j \in DOMAIN map : map[j] = Lookup(map, m)
    BY <1>4 DEF ToSet
  <1> QED  BY <1>4, <1>5

LEMMA SweptMap ==
    ASSUME NEW map \in Seq(Entry), Distinct(map)
    PROVE  /\ Evicted(map) \in Seq(Entry) /\ Distinct(Evicted(map))
           /\ Within(Evicted(map), map)
  BY KeptMap DEF Evicted

(* A hit is moved to the end.                                                *)
LEMMA MovedMap ==
    ASSUME NEW map \in Seq(Entry), Distinct(map), NEW m, NEW e \in Entry, e.mint = m,
           \E i \in DOMAIN map : map[i] = e
    PROVE  LET new == Append(Without(map, m), e)
           IN  new \in Seq(Entry) /\ Distinct(new) /\ Within(new, map)
  <1> DEFINE t == Without(map, m)
             new == Append(t, e)
  <1>1. /\ t \in Seq(Entry) /\ Distinct(t) /\ Within(t, map)
        /\ \A i \in DOMAIN t : t[i].mint # m
    BY KeptMap DEF Without
  <1> HIDE DEF t
  <1>2. /\ new \in Seq(Entry) /\ Len(t) \in Nat /\ DOMAIN t = 1..Len(t)
        /\ DOMAIN new = 1..(Len(t) + 1) /\ new[Len(t) + 1] = e
        /\ \A i \in 1..Len(t) : new[i] = t[i]
    BY <1>1
  <1> HIDE DEF new
  <1>3. \A i \in DOMAIN new : i = Len(t) + 1 \/ i \in DOMAIN t
    BY <1>2
  <1>4. Within(new, map)
    BY <1>1, <1>2, <1>3 DEF Within
  <1>5. Distinct(new)
    BY <1>1, <1>2, <1>3 DEF Distinct
  <1> QED  BY <1>2, <1>4, <1>5 DEF new, t

(* An answer is stored: no other entry of its mint is left.                  *)
LEMMA StoredMap ==
    ASSUME NEW map \in Seq(Entry), Distinct(map), NEW e \in Entry
    PROVE  LET new == Set(MakeRoom(map), e)
           IN  /\ new \in Seq(Entry) /\ Distinct(new)
               /\ \A i \in DOMAIN new :
                    new[i] = e \/ (new[i].mint # e.mint /\ \E j \in DOMAIN map : new[i] = map[j])
  <1> DEFINE t == MakeRoom(map)
             new == Set(t, e)
  <1>1. t \in Seq(Entry) /\ Distinct(t) /\ Within(t, map)
    <2>1. CASE Len(map) >= MaxCacheSize
      <3>1. map # <<>> /\ Len(map) \in Nat
        BY <2>1
      <3>2. t = Tail(map)
        BY <2>1 DEF MakeRoom
      <3>3. /\ Tail(map) \in Seq(Entry) /\ Len(Tail(map)) = Len(map) - 1
            /\ \A i \in 1..(Len(map) - 1) : Tail(map)[i] = map[i + 1]
        BY <3>1
      <3>4. DOMAIN Tail(map) = 1..(Len(map) - 1) /\ DOMAIN map = 1..Len(map)
        BY <3>3
      <3>5. \A i \in DOMAIN Tail(map) : i + 1 \in DOMAIN map
        BY <3>1, <3>4
      <3>6. Within(Tail(map), map)
        BY <3>3, <3>4, <3>5 DEF Within
      <3>7. Distinct(Tail(map))
        <4>1. ASSUME NEW i \in DOMAIN Tail(map), NEW j \in DOMAIN Tail(map),
                     Tail(map)[i].mint = Tail(map)[j].mint
              PROVE  i = j
          <5>1. map[i + 1].mint = map[j + 1].mint
            BY <3>3, <3>4, <4>1
          <5>2. i + 1 = j + 1
            BY <3>5, <5>1 DEF Distinct
          <5> QED  BY <3>1, <3>4, <5>2
        <4> QED  BY <4>1 DEF Distinct
      <3> QED  BY <3>2, <3>3, <3>6, <3>7
    <2>2. CASE ~(Len(map) >= MaxCacheSize)
      BY <2>2 DEF MakeRoom, Within
    <2> QED  BY <2>1, <2>2
  <1> HIDE DEF t
  <1>2. CASE Has(t, e.mint)
    <2>1. new = [i \in DOMAIN t |-> IF t[i].mint = e.mint THEN e ELSE t[i]]
      BY <1>2 DEF Set
    <2>2. /\ DOMAIN new = DOMAIN t
          /\ \A i \in DOMAIN t : new[i] = IF t[i].mint = e.mint THEN e ELSE t[i]
      BY <2>1
    <2>3. new \in Seq(Entry)
      <3>1. DOMAIN t = 1..Len(t) /\ Len(t) \in Nat /\ \A i \in DOMAIN t : t[i] \in Entry
        BY <1>1
      <3> QED  BY <2>1, <3>1
    <2> HIDE DEF new
    <2>4. Distinct(new)
      BY <1>1, <2>2 DEF Distinct
    <2>5. \A i \in DOMAIN new :
             new[i] = e \/ (new[i].mint # e.mint /\ \E j \in DOMAIN map : new[i] = map[j])
      BY <1>1, <2>2 DEF Within
    <2> QED  BY <2>3, <2>4, <2>5 DEF new, t
  <1>3. CASE ~Has(t, e.mint)
    <2>1. new = Append(t, e)
      BY <1>3 DEF Set
    <2>2. /\ new \in Seq(Entry) /\ Len(t) \in Nat /\ DOMAIN t = 1..Len(t)
          /\ DOMAIN new = 1..(Len(t) + 1) /\ new[Len(t) + 1] = e
          /\ \A i \in 1..Len(t) : new[i] = t[i]
      BY <1>1, <2>1
    <2> HIDE DEF new
    <2>3. \A i \in DOMAIN new : i = Len(t) + 1 \/ i \in DOMAIN t
      BY <2>2
    <2>4. \A i \in DOMAIN t : t[i].mint # e.mint
      BY <1>3 DEF Has
    <2>5. Distinct(new)
      BY <1>1, <2>2, <2>3, <2>4 DEF Distinct
    <2>6. \A i \in DOMAIN new :
             new[i] = e \/ (new[i].mint # e.mint /\ \E j \in DOMAIN map : new[i] = map[j])
      BY <1>1, <2>2, <2>3, <2>4 DEF Within
    <2> QED  BY <2>2, <2>5, <2>6 DEF new, t
  <1> QED  BY <1>2, <1>3
----------------------------------------------------------------------------
(* What a request does: it is answered from an entry of its mint, or it      *)
(* awaits the mint's call with the entry it has seen, if any.                *)
SeenBy(m, e) == e # None => /\ e \in Entry /\ e.mint = m
                            /\ \E i \in DOMAIN cache : cache[i] = e
Awaits(r, m, id, e) ==
    req' = [req EXCEPT ![r] = [phase |-> "waiting", mint |-> m, call |-> id, cached |-> e]]
MapStep == /\ cache' \in Seq(Entry) /\ Distinct(cache') /\ Within(cache', cache)

LEMMA TypedCache == TypeOK => cache \in Seq(Entry) /\ Distinct(cache)
  BY DEF TypeOK, Distinct

LEMMA RequestCases ==
    ASSUME TypeOK, NEW r \in Requests, NEW m \in Mints, Request(r, m)
    PROVE  /\ MapStep /\ UNCHANGED now /\ req[r] = Idle
           /\ \/ \E e \in Entry :
                   /\ SeenBy(m, e) /\ e # None /\ now < e.expiresAt
                   /\ Answer(m, e.result, Age(e))
                   /\ UNCHANGED <<inflight, calls, issued, req>>
              \/ \E e \in Entry \union {None} :
                   /\ SeenBy(m, e) /\ inflight[m]
                   /\ Awaits(r, m, issued[m], e)
                   /\ UNCHANGED <<inflight, calls, issued>> /\ UNCHANGED answers
              \/ \E e \in Entry \union {None} :
                   /\ SeenBy(m, e) /\ ~inflight[m] /\ issued[m] < MaxCalls
                   /\ issued' = [issued EXCEPT ![m] = @ + 1]
                   /\ inflight' = [inflight EXCEPT ![m] = TRUE]
                   /\ calls' = [calls EXCEPT ![m] = @ \union
                                  {[id |-> issued[m] + 1, since |-> now]}]
                   /\ Awaits(r, m, issued[m] + 1, e)
                   /\ UNCHANGED answers
  <1> DEFINE swept == Evicted(cache)
             cached == Lookup(swept, m)
  <1>1. cache \in Seq(Entry) /\ Distinct(cache)
    BY TypedCache
  <1>2. swept \in Seq(Entry) /\ Distinct(swept) /\ Within(swept, cache)
    BY <1>1, SweptMap
  <1>3. /\ req[r] = Idle /\ UNCHANGED now
        /\ IF Fresh(cached)
             THEN /\ cache' = Append(Without(swept, m), cached)
                  /\ Answer(m, cached.result, Age(cached))
                  /\ UNCHANGED <<inflight, calls, issued, req>>
             ELSE /\ cache' = swept
                  /\ IF inflight[m]
                       THEN UNCHANGED <<inflight, calls, issued>>
                       ELSE /\ issued[m] < MaxCalls
                            /\ issued' = [issued EXCEPT ![m] = @ + 1]
                            /\ inflight' = [inflight EXCEPT ![m] = TRUE]
                            /\ calls' = [calls EXCEPT ![m] = @ \union
                                           {[id |-> issued[m] + 1, since |-> now]}]
                  /\ req' = [req EXCEPT ![r] =
                               [phase |-> "waiting", mint |-> m,
                                call |-> issued'[m], cached |-> cached]]
                  /\ UNCHANGED answers
    BY DEF Request, Joins
  <1> HIDE DEF swept
  <1>4. cached # None => /\ cached \in Entry /\ cached.mint = m
                         /\ \E i \in DOMAIN swept : swept[i] = cached
    BY <1>2, LookupIn
  <1> HIDE DEF cached
  <1>5. SeenBy(m, cached)
    BY <1>2, <1>4 DEF SeenBy, Within
  <1>6. cached \in Entry \union {None}
    BY <1>4
  <1>7. CASE Fresh(cached)
    <2>1. cached \in Entry /\ cached # None /\ now < cached.expiresAt
      BY <1>4, <1>7 DEF Fresh
    <2>2. LET new == Append(Without(swept, m), cached)
          IN  new \in Seq(Entry) /\ Distinct(new) /\ Within(new, swept)
      BY <1>2, <1>4, <2>1, MovedMap
    <2>3. cache' = Append(Without(swept, m), cached)
      BY <1>3, <1>7
    <2>4. cache' \in Seq(Entry) /\ Distinct(cache') /\ Within(cache', swept)
      BY <2>2, <2>3
    <2>5. MapStep
      BY <1>2, <2>4 DEF MapStep, Within
    <2> QED  BY <1>3, <1>5, <1>7, <2>1, <2>5
  <1>8. CASE ~Fresh(cached)
    <2>1. MapStep
      BY <1>2, <1>3, <1>8 DEF MapStep
    <2>2. CASE inflight[m]
      <3>1. UNCHANGED <<inflight, calls, issued>> /\ Awaits(r, m, issued[m], cached)
        BY <1>3, <1>8, <2>2 DEF Awaits
      <3> QED  BY <1>3, <1>5, <1>6, <1>8, <2>1, <2>2, <3>1
    <2>3. CASE ~inflight[m]
      <3>1. /\ issued[m] < MaxCalls
            /\ issued' = [issued EXCEPT ![m] = @ + 1]
            /\ inflight' = [inflight EXCEPT ![m] = TRUE]
            /\ calls' = [calls EXCEPT ![m] = @ \union
                           {[id |-> issued[m] + 1, since |-> now]}]
        BY <1>3, <1>8, <2>3
      <3>2. issued'[m] = issued[m] + 1
        BY <3>1 DEF TypeOK
      <3>3. Awaits(r, m, issued[m] + 1, cached)
        BY <1>3, <1>8, <3>2 DEF Awaits
      <3> QED  BY <1>3, <1>5, <1>6, <1>8, <2>1, <2>3, <3>1, <3>3
    <2> QED  BY <2>2, <2>3
  <1> QED  BY <1>7, <1>8

(* A call answers: it was the only one of its mint.                          *)
LEMMA ResolveCase ==
    ASSUME TypeOK, OneCall, NEW m \in Mints, UpstreamResolves(m)
    PROVE  \E call \in calls[m] :
             /\ call.id = issued[m] /\ calls[m] = {call}
             /\ calls' = [calls EXCEPT ![m] = {}]
             /\ inflight' = [inflight EXCEPT ![m] = FALSE]
             /\ Stored(m, issued[m]) \in Entry
             /\ cache' \in Seq(Entry) /\ Distinct(cache')
             /\ \A i \in DOMAIN cache' :
                  \/ cache'[i] = Stored(m, issued[m])
                  \/ cache'[i].mint # m /\ \E j \in DOMAIN cache : cache'[i] = cache[j]
             /\ Resume(m, issued[m], "resolved") /\ FollowedUp
             /\ UNCHANGED <<now, issued>> /\ UNCHANGED answers
  <1>1. PICK call \in calls[m] :
          /\ calls' = [calls EXCEPT ![m] = @ \ {call}]
          /\ cache' = Set(MakeRoom(cache), Stored(m, call.id))
          /\ Resume(m, call.id, "resolved")
    BY DEF UpstreamResolves
  <1>2. call.id = issued[m] /\ calls[m] = {call}
    BY <1>1 DEF OneCall
  <1>3. calls' = [calls EXCEPT ![m] = {}]
    BY <1>1, <1>2 DEF TypeOK
  <1>4. call.id \in Calls /\ now \in 0..MaxTime
    BY <1>1 DEF TypeOK
  <1>5. Stored(m, issued[m]) \in Entry /\ Stored(m, issued[m]).mint = m
    BY <1>2, <1>4 DEF Stored, Entry
  <1>6. cache \in Seq(Entry) /\ Distinct(cache)
    BY TypedCache
  <1>7. LET new == Set(MakeRoom(cache), Stored(m, issued[m]))
        IN  /\ new \in Seq(Entry) /\ Distinct(new)
            /\ \A i \in DOMAIN new :
                 \/ new[i] = Stored(m, issued[m])
                 \/ /\ new[i].mint # Stored(m, issued[m]).mint
                    /\ \E j \in DOMAIN cache : new[i] = cache[j]
    BY <1>5, <1>6, StoredMap, ZenonT(60)
  <1>8. cache' = Set(MakeRoom(cache), Stored(m, issued[m]))
    BY <1>1, <1>2
  <1>9. /\ cache' \in Seq(Entry) /\ Distinct(cache')
        /\ \A i \in DOMAIN cache' :
             \/ cache'[i] = Stored(m, issued[m])
             \/ cache'[i].mint # m /\ \E j \in DOMAIN cache : cache'[i] = cache[j]
    BY <1>5, <1>7, <1>8
  <1>10. /\ inflight' = [inflight EXCEPT ![m] = FALSE] /\ FollowedUp
         /\ UNCHANGED <<now, issued>> /\ UNCHANGED answers
    BY DEF UpstreamResolves
  <1> QED  BY <1>1, <1>2, <1>3, <1>5, <1>9, <1>10

LEMMA RejectCase ==
    ASSUME TypeOK, OneCall, NEW m \in Mints, UpstreamRejects(m)
    PROVE  /\ calls[m] # {}
           /\ calls' = [calls EXCEPT ![m] = {}]
           /\ inflight' = [inflight EXCEPT ![m] = FALSE]
           /\ Resume(m, issued[m], "failed") /\ FollowedUp
           /\ UNCHANGED <<now, cache, issued>> /\ UNCHANGED answers
  <1>1. PICK call \in calls[m] :
          /\ calls' = [calls EXCEPT ![m] = @ \ {call}]
          /\ Resume(m, call.id, "failed")
    BY DEF UpstreamRejects
  <1>2. call.id = issued[m] /\ calls[m] = {call}
    BY <1>1 DEF OneCall
  <1>3. calls' = [calls EXCEPT ![m] = {}]
    BY <1>1, <1>2 DEF TypeOK
  <1> QED  BY <1>1, <1>2, <1>3 DEF UpstreamRejects

(* Who is resumed and who is not.                                            *)
LEMMA Resumed ==
    ASSUME TypeOK, NEW m \in Mints, NEW id, NEW outcome \in {"resolved", "failed"},
           Resume(m, id, outcome), NEW r \in Requests
    PROVE  /\ req' \in [Requests -> {Idle} \union Pending]
           /\ \/ /\ req[r] \in Pending /\ req[r].phase = "waiting"
                 /\ req[r].mint = m /\ req[r].call = id
                 /\ req'[r] \in Pending
                 /\ req'[r].phase = outcome /\ req'[r].mint = m /\ req'[r].call = id
                 /\ req'[r].cached = req[r].cached
              \/ /\ req'[r] = req[r]
                 /\ req[r] # Idle /\ req[r].phase = "waiting" /\ req[r].mint = m
                      => req[r].call # id
  <1>1. req \in [Requests -> {Idle} \union Pending]
    BY DEF TypeOK
  <1>2. ASSUME NEW q \in Pending
        PROVE  /\ [q EXCEPT !.phase = outcome] \in Pending
               /\ [q EXCEPT !.phase = outcome].phase = outcome
               /\ [q EXCEPT !.phase = outcome].mint = q.mint
               /\ [q EXCEPT !.phase = outcome].call = q.call
               /\ [q EXCEPT !.phase = outcome].cached = q.cached
    BY DEF Pending
  <1>3. /\ DOMAIN req' = Requests
        /\ \A q \in Requests :
             req'[q] = IF req[q] # Idle /\ req[q].phase = "waiting"
                            /\ req[q].mint = m /\ req[q].call = id
                         THEN [req[q] EXCEPT !.phase = outcome] ELSE req[q]
    BY DEF Resume
  <1>4. \A q \in Requests : req'[q] \in {Idle} \union Pending
    BY <1>1, <1>2, <1>3
  <1>5. req' = [q \in Requests |-> req'[q]]
    BY <1>3 DEF Resume
  <1>6. req' \in [Requests -> {Idle} \union Pending]
    BY <1>4, <1>5
  <1>7. CASE /\ req[r] # Idle /\ req[r].phase = "waiting"
             /\ req[r].mint = m /\ req[r].call = id
    <2>1. req[r] \in Pending
      BY <1>1, <1>7
    <2>2. req'[r] = [req[r] EXCEPT !.phase = outcome]
      BY <1>3, <1>7
    <2> QED  BY <1>2, <1>6, <1>7, <2>1, <2>2
  <1>8. CASE ~(/\ req[r] # Idle /\ req[r].phase = "waiting"
               /\ req[r].mint = m /\ req[r].call = id)
    <2>1. req'[r] = req[r]
      BY <1>3, <1>8
    <2> QED  BY <1>6, <1>8, <2>1
  <1> QED  BY <1>7, <1>8

(* A pending request, and one that starts to await a call.                   *)
LEMMA PendingIs ==
    ASSUME NEW q \in Pending
    PROVE  /\ q # Idle /\ q.phase \in {"waiting", "resolved", "failed"}
           /\ q.mint \in Mints /\ q.call \in Calls /\ q.cached \in Entry \union {None}
  <1>1. q.phase # "idle"
    BY DEF Pending
  <1>2. Idle.phase = "idle"
    BY DEF Idle
  <1> QED  BY <1>1, <1>2 DEF Pending

LEMMA AwaitsIs ==
    ASSUME TypeOK, NEW r \in Requests, NEW m \in Mints, NEW id \in Calls,
           NEW e \in Entry \union {None}, Awaits(r, m, id, e)
    PROVE  /\ req' \in [Requests -> {Idle} \union Pending]
           /\ req'[r] # Idle /\ req'[r].phase = "waiting" /\ req'[r].mint = m
           /\ req'[r].call = id /\ req'[r].cached = e
           /\ \A q \in Requests : q # r => req'[q] = req[q]
  <1> DEFINE new == [phase |-> "waiting", mint |-> m, call |-> id, cached |-> e]
  <1>1. /\ new \in Pending /\ new.phase = "waiting" /\ new.mint = m
        /\ new.call = id /\ new.cached = e
    BY DEF Pending
  <1>2. new # Idle
    BY <1>1, PendingIs
  <1>3. req' = [req EXCEPT ![r] = new] /\ req \in [Requests -> {Idle} \union Pending]
    BY DEF Awaits, TypeOK
  <1> HIDE DEF new
  <1>4. /\ req' \in [Requests -> {Idle} \union Pending] /\ req'[r] = new
        /\ \A q \in Requests : q # r => req'[q] = req[q]
    BY <1>1, <1>3
  <1> QED  BY <1>1, <1>2, <1>4

(* The age of an entry that was stored at a time past.                       *)
LEMMA AgeOf ==
    ASSUME TypeOK, NEW e \in Entry, Past(e)
    PROVE  /\ Age(e) \in 0..MaxTime
           /\ now < e.expiresAt + MaxStale => Age(e) < Ttl + MaxStale
           /\ now < e.expiresAt => Age(e) < Ttl + MaxStale
  <1>1. now \in Nat /\ now <= MaxTime /\ e.expiresAt \in Nat /\ MaxTime \in Nat
    BY DEF TypeOK, Entry
  <1>2. Ttl <= e.expiresAt /\ e.expiresAt <= now + Ttl
    BY DEF Past
  <1>3. Age(e) = now - (e.expiresAt - Ttl)
    BY DEF Age
  <1> QED  BY <1>1, <1>2, <1>3

LEMMA AnswerIs ==
    ASSUME TypeOK, AnswersInDate, NEW m \in Mints, NEW id \in Calls,
           NEW age \in 0..MaxTime, age < Ttl + MaxStale, Answer(m, id, age)
    PROVE  /\ served' \in [Mints -> 0..MaxCalls] /\ served'[m] = id
           /\ \A k \in Mints : k # m => served'[k] = served[k]
           /\ oldest' \in 0..MaxTime /\ oldest' < Ttl + MaxStale
  <1>1. served' = [served EXCEPT ![m] = id] /\ served \in [Mints -> 0..MaxCalls]
    BY DEF Answer, TypeOK
  <1>2. id \in 0..MaxCalls
    BY DEF Calls
  <1>3. oldest' = IF age > oldest THEN age ELSE oldest
    BY DEF Answer
  <1>4. oldest \in 0..MaxTime /\ oldest < Ttl + MaxStale
    BY DEF TypeOK, AnswersInDate
  <1> QED  BY <1>1, <1>2, <1>3, <1>4
----------------------------------------------------------------------------
(* No result becomes one that can be answered.                               *)
Fewer == \A k \in Mints, x \in Calls : Held(k, x)' => Held(k, x)

(* Of a request whatever it finds: the cache is swept, and the request has   *)
(* at most an entry of the cache.                                            *)
LEMMA RequestHolds ==
    ASSUME TypeOK, Dated, NEW r \in Requests, NEW m \in Mints, MapStep, UNCHANGED now,
           \/ UNCHANGED req
           \/ /\ req'[r] # Idle /\ req'[r].phase = "waiting" /\ req'[r].mint = m
              /\ SeenBy(m, req'[r].cached)
              /\ \A q \in Requests : q # r => req'[q] = req[q]
    PROVE  Dated' /\ Fewer
  <1>1. \A i \in DOMAIN cache' : \E j \in DOMAIN cache : cache'[i] = cache[j]
    BY DEF MapStep, Within
  <1>2. ASSUME NEW i \in DOMAIN cache'
        PROVE  Past(cache'[i])
    BY <1>1 DEF Dated, Past
  <1>3. ASSUME NEW q \in Requests, req'[q] # Idle, req'[q].cached # None
        PROVE  Past(req'[q].cached)
    BY <1>3 DEF Dated, Past, SeenBy
  <1>4. Dated'
    BY <1>2, <1>3 DEF Dated, Past
  <1>5. ASSUME NEW k \in Mints, NEW x \in Calls, InCache(k, x)'
        PROVE  InCache(k, x)
    BY <1>1, <1>5 DEF InCache
  <1>6. ASSUME NEW k \in Mints, NEW x \in Calls, NEW q \in Requests, With(q, k, x)'
        PROVE  Held(k, x)
    <2>1. CASE req'[q] = req[q]
      BY <1>6, <2>1 DEF With, Held
    <2>2. CASE req'[q] # req[q]
      <3>1. q = r /\ req'[r].phase = "waiting" /\ req'[r].mint = m
            /\ SeenBy(m, req'[r].cached)
        BY <2>2
      <3>2. k = m /\ req'[r].cached # None /\ req'[r].cached.result = x
        BY <1>6, <3>1 DEF With
      <3>3. InCache(k, x)
        BY <3>1, <3>2 DEF SeenBy, InCache
      <3> QED  BY <3>3 DEF Held
    <2> QED  BY <2>1, <2>2
  <1>7. Fewer
    BY <1>5, <1>6 DEF Fewer, Held
  <1> QED  BY <1>4, <1>7

(* A fresh hit.                                                              *)
LEMMA HitStep ==
    ASSUME IInv, NEW m \in Mints, NEW e \in Entry, MapStep, UNCHANGED now,
           NEW r \in Requests,
           SeenBy(m, e), e # None, now < e.expiresAt, Answer(m, e.result, Age(e)),
           UNCHANGED <<inflight, calls, issued, req>>
    PROVE  IInv' /\ \A k \in Mints : served[k] <= served'[k]
  <1>1. TypeOK /\ OneCall /\ Dated /\ OneResult /\ AnswersInDate
    BY DEF IInv
  <1>2. Dated' /\ Fewer
    BY <1>1, RequestHolds
  <1>3. e.mint = m /\ e.result \in Calls /\ \E i \in DOMAIN cache : cache[i] = e
    BY DEF SeenBy, Entry
  <1>4. Past(e)
    BY <1>1, <1>3 DEF Dated
  <1>5. Age(e) \in 0..MaxTime /\ Age(e) < Ttl + MaxStale
    BY <1>1, <1>4, AgeOf
  <1>6. /\ served' \in [Mints -> 0..MaxCalls] /\ served'[m] = e.result
        /\ \A k \in Mints : k # m => served'[k] = served[k]
        /\ oldest' \in 0..MaxTime /\ oldest' < Ttl + MaxStale
    BY <1>1, <1>3, <1>5, AnswerIs
  <1>7. TypeOK'
    BY <1>1, <1>6 DEF TypeOK, MapStep, Distinct
  <1>8. OneCall'
    BY <1>1 DEF OneCall
  <1>9. Held(m, e.result)
    BY <1>3 DEF Held, InCache
  <1>10. OneResult'
    <2> SUFFICES ASSUME NEW k \in Mints
                 PROVE  /\ \A x, y \in Calls : Held(k, x)' /\ Held(k, y)' => x = y
                        /\ \A x \in Calls : Held(k, x)' =>
                             /\ served'[k] <= x /\ x <= issued[k]
                             /\ calls[k] # {} => x < issued[k]
                        /\ served'[k] <= issued[k]
                        /\ calls[k] # {} => served'[k] < issued[k]
      BY DEF OneResult
    <2>1. CASE k # m
      BY <1>1, <1>2, <1>6, <2>1 DEF OneResult, Fewer
    <2>2. CASE k = m
      <3>1. \A x \in Calls : Held(m, x)' => x = e.result
        BY <1>1, <1>2, <1>3, <1>9 DEF OneResult, Fewer
      <3>2. /\ e.result <= issued[m]
            /\ calls[m] # {} => e.result < issued[m]
        BY <1>1, <1>3, <1>9 DEF OneResult
      <3>3. e.result <= e.result
        BY <1>3 DEF Calls
      <3> QED  BY <1>6, <2>2, <3>1, <3>2, <3>3
    <2> QED  BY <2>1, <2>2
  <1>11. ASSUME NEW k \in Mints
         PROVE  served[k] <= served'[k]
    <2>1. served[m] <= e.result /\ served[k] <= served[k]
      BY <1>1, <1>3, <1>9 DEF OneResult, TypeOK
    <2> QED  BY <1>6, <2>1
  <1> QED  BY <1>2, <1>6, <1>7, <1>8, <1>10, <1>11 DEF IInv, AnswersInDate

(* A miss joins the call in flight.                                          *)
LEMMA JoinStep ==
    ASSUME IInv, NEW r \in Requests, NEW m \in Mints, MapStep, UNCHANGED now,
           NEW e \in Entry \union {None}, SeenBy(m, e), inflight[m],
           Awaits(r, m, issued[m], e),
           UNCHANGED <<inflight, calls, issued>>, UNCHANGED answers
    PROVE  IInv'
  <1>1. TypeOK /\ OneCall /\ Dated /\ OneResult /\ AnswersInDate
    BY DEF IInv
  <1>2. PICK a \in calls[m] : a.id = issued[m]
    BY <1>1 DEF OneCall
  <1>3. issued[m] \in Calls
    BY <1>1, <1>2 DEF TypeOK
  <1>4. /\ req' \in [Requests -> {Idle} \union Pending]
        /\ req'[r] # Idle /\ req'[r].phase = "waiting" /\ req'[r].mint = m
        /\ req'[r].call = issued[m] /\ req'[r].cached = e
        /\ \A q \in Requests : q # r => req'[q] = req[q]
    BY <1>1, <1>3, AwaitsIs
  <1>5. Dated' /\ Fewer
    BY <1>1, <1>4, RequestHolds
  <1>6. TypeOK'
    BY <1>1, <1>4 DEF TypeOK, MapStep, Distinct, answers
  <1>7. ASSUME NEW k \in Mints, NEW q \in Requests,
               req'[q] # Idle, req'[q].phase = "waiting", req'[q].mint = k
        PROVE  \E b \in calls[k] : b.id = req'[q].call
    BY <1>1, <1>2, <1>4, <1>7 DEF OneCall
  <1>8. OneCall'
    BY <1>1, <1>7 DEF OneCall
  <1>9. OneResult'
    BY <1>1, <1>5 DEF OneResult, Fewer, answers
  <1> QED  BY <1>1, <1>5, <1>6, <1>8, <1>9 DEF IInv, AnswersInDate, answers

(* A miss makes the call.                                                    *)
LEMMA CallStep ==
    ASSUME IInv, NEW r \in Requests, NEW m \in Mints, MapStep, UNCHANGED now,
           NEW e \in Entry \union {None}, SeenBy(m, e), ~inflight[m],
           issued[m] < MaxCalls,
           issued' = [issued EXCEPT ![m] = @ + 1],
           inflight' = [inflight EXCEPT ![m] = TRUE],
           calls' = [calls EXCEPT ![m] = @ \union {[id |-> issued[m] + 1, since |-> now]}],
           Awaits(r, m, issued[m] + 1, e), UNCHANGED answers
    PROVE  IInv'
  <1> DEFINE new == [id |-> issued[m] + 1, since |-> now]
  <1>1. TypeOK /\ OneCall /\ Dated /\ OneResult /\ AnswersInDate
    BY DEF IInv
  <1>2. issued[m] + 1 \in Calls /\ issued[m] \in Nat
    BY <1>1 DEF TypeOK, Calls
  <1>3. calls[m] = {}
    BY <1>1 DEF OneCall
  <1>4. /\ issued' \in [Mints -> 0..MaxCalls] /\ issued'[m] = issued[m] + 1
        /\ \A k \in Mints : k # m => issued'[k] = issued[k]
    BY <1>1 DEF TypeOK
  <1>5. /\ inflight' \in [Mints -> BOOLEAN] /\ inflight'[m]
        /\ \A k \in Mints : k # m => inflight'[k] = inflight[k]
    BY <1>1 DEF TypeOK
  <1>6. new \in [id : Calls, since : 0..MaxTime] /\ new.id = issued[m] + 1
    BY <1>1, <1>2 DEF TypeOK
  <1>7. /\ calls' \in [Mints -> SUBSET [id : Calls, since : 0..MaxTime]]
        /\ calls'[m] = {new}
        /\ \A k \in Mints : k # m => calls'[k] = calls[k]
    <2>1. calls \in [Mints -> SUBSET [id : Calls, since : 0..MaxTime]]
      BY <1>1 DEF TypeOK
    <2> HIDE DEF new
    <2>2. calls' = [calls EXCEPT ![m] = @ \union {new}]
      BY DEF new
    <2> QED  BY <1>3, <1>6, <2>1, <2>2
  <1>8. /\ req' \in [Requests -> {Idle} \union Pending]
        /\ req'[r] # Idle /\ req'[r].phase = "waiting" /\ req'[r].mint = m
        /\ req'[r].call = issued[m] + 1 /\ req'[r].cached = e
        /\ \A q \in Requests : q # r => req'[q] = req[q]
    BY <1>1, <1>2, AwaitsIs
  <1> HIDE DEF new
  <1>9. Dated' /\ Fewer
    BY <1>1, <1>8, RequestHolds
  <1>10. TypeOK'
    BY <1>1, <1>4, <1>5, <1>7, <1>8 DEF TypeOK, MapStep, Distinct, answers
  <1>11. ASSUME NEW k \in Mints, NEW q \in Requests,
                req'[q] # Idle, req'[q].phase = "waiting", req'[q].mint = k
         PROVE  \E b \in calls'[k] : b.id = req'[q].call
    <2>1. CASE q = r
      BY <1>6, <1>7, <1>8, <1>11, <2>1
    <2>2. CASE q # r
      <3>1. \E b \in calls[k] : b.id = req[q].call
        BY <1>1, <1>8, <1>11, <2>2 DEF OneCall
      <3> QED  BY <1>3, <1>7, <1>8, <2>2, <3>1
    <2> QED  BY <2>1, <2>2
  <1>12. OneCall'
    BY <1>1, <1>4, <1>5, <1>6, <1>7, <1>11 DEF OneCall
  <1>13. ASSUME NEW k \in Mints
         PROVE  /\ issued[k] <= issued'[k] /\ issued[k] \in Nat /\ issued'[k] \in Nat
                /\ calls'[k] # {} => calls[k] # {} \/ issued[k] < issued'[k]
    <2>1. issued[k] \in Nat
      BY <1>1 DEF TypeOK
    <2> QED  BY <1>4, <1>7, <2>1
  <1>14. OneResult'
    <2> SUFFICES ASSUME NEW k \in Mints
                 PROVE  /\ \A x, y \in Calls : Held(k, x)' /\ Held(k, y)' => x = y
                        /\ \A x \in Calls : Held(k, x)' =>
                             /\ served[k] <= x /\ x <= issued'[k]
                             /\ calls'[k] # {} => x < issued'[k]
                        /\ served[k] <= issued'[k]
                        /\ calls'[k] # {} => served[k] < issued'[k]
      BY DEF OneResult, answers
    <2>1. \A x, y \in Calls : Held(k, x)' /\ Held(k, y)' => x = y
      BY <1>1, <1>9 DEF OneResult, Fewer
    <2>2. served[k] \in Nat /\ Calls \subseteq Nat
      BY <1>1 DEF TypeOK, Calls
    <2>3. /\ served[k] <= issued[k]
          /\ calls[k] # {} => served[k] < issued[k]
      BY <1>1 DEF OneResult
    <2>4. \A x \in Calls : Held(k, x)' =>
             /\ served[k] <= x /\ x <= issued[k]
             /\ calls[k] # {} => x < issued[k]
      BY <1>1, <1>9 DEF OneResult, Fewer
    <2> QED  BY <1>13, <2>1, <2>2, <2>3, <2>4
  <1> QED  BY <1>1, <1>9, <1>10, <1>12, <1>14 DEF IInv, AnswersInDate, answers

(* A reply is the result the request has, or none.                           *)
LEMMA ReplyStep ==
    ASSUME IInv, NEW r \in Requests, Reply(r)
    PROVE  IInv' /\ \A k \in Mints : served[k] <= served'[k]
  <1>1. TypeOK /\ OneCall /\ Dated /\ OneResult /\ AnswersInDate
    BY DEF IInv
  <1>2. req[r] # Idle /\ req' = [req EXCEPT ![r] = Idle]
        /\ UNCHANGED <<now, cache, inflight, calls, issued>>
    BY DEF Reply
  <1>3. req \in [Requests -> {Idle} \union Pending]
    BY <1>1 DEF TypeOK
  <1>4. req[r] \in Pending /\ req' \in [Requests -> {Idle} \union Pending]
        /\ req'[r] = Idle /\ \A q \in Requests : q # r => req'[q] = req[q]
    BY <1>2, <1>3
  <1>5. PICK m \in Mints : m = req[r].mint
    BY <1>4, PendingIs
  <1>6. req[r].call \in Calls /\ req[r].cached \in Entry \union {None}
    BY <1>4, PendingIs
  <1>7. \A q \in Requests : req'[q] # Idle => q # r
    BY <1>4
  <1>8. Dated'
    BY <1>1, <1>2, <1>4, <1>7 DEF Dated, Past
  <1>9. OneCall'
    BY <1>1, <1>2, <1>4, <1>7 DEF OneCall
  <1>10. \A q \in Requests, k \in Mints, x \in Calls : With(q, k, x)' => With(q, k, x)
    BY <1>4, <1>7 DEF With
  <1>11. \A k \in Mints, x \in Calls : InCache(k, x)' => InCache(k, x)
    BY <1>2 DEF InCache
  <1>12. Fewer
    BY <1>10, <1>11 DEF Fewer, Held
  <1>13. \/ \E id \in Calls, age \in 0..MaxTime :
              age < Ttl + MaxStale /\ Held(m, id) /\ Answer(m, id, age)
         \/ UNCHANGED answers
    <2>1. CASE req[r].phase = "resolved" /\ Answer(m, req[r].call, 0)
      <3>1. 0 \in 0..MaxTime /\ 0 < Ttl + MaxStale
        OBVIOUS
      <3>2. Held(m, req[r].call)
        BY <1>2, <1>5, <2>1 DEF Held, With
      <3> QED  BY <1>6, <2>1, <3>1, <3>2
    <2>2. CASE /\ req[r].phase = "failed" /\ Usable(req[r].cached)
               /\ Answer(m, req[r].cached.result, Age(req[r].cached))
      <3> DEFINE e == req[r].cached
      <3>1. e # None /\ e \in Entry
        BY <1>6, <2>2 DEF Usable
      <3>2. Past(e)
        BY <1>1, <1>2, <3>1 DEF Dated
      <3>3. now \in Nat /\ e.expiresAt \in Nat
        BY <1>1, <3>1 DEF TypeOK, Entry
      <3>4. now < e.expiresAt + MaxStale
        BY <2>2, <3>3 DEF Usable, BeyondStale
      <3>5. Age(e) \in 0..MaxTime /\ Age(e) < Ttl + MaxStale
        BY <1>1, <3>1, <3>2, <3>4, AgeOf
      <3>6. e.result \in Calls
        BY <3>1 DEF Entry
      <3>7. Held(m, e.result)
        BY <1>2, <1>5, <2>2, <3>1 DEF Held, With
      <3> QED  BY <2>2, <3>5, <3>6, <3>7
    <2>3. CASE UNCHANGED answers
      BY <2>3
    <2> QED  BY <1>5, <2>1, <2>2, <2>3 DEF Reply
  <1>14. CASE UNCHANGED answers
    <2>1. TypeOK'
      BY <1>1, <1>2, <1>4, <1>14 DEF TypeOK, answers
    <2>2. OneResult'
      BY <1>1, <1>2, <1>12, <1>14 DEF OneResult, Fewer, answers
    <2>3. \A k \in Mints : served[k] <= served'[k]
      <3>1. \A k \in Mints : served'[k] = served[k] /\ served[k] \in Nat
        BY <1>1, <1>14 DEF TypeOK, answers
      <3> QED  BY <3>1
    <2> QED  BY <1>1, <1>8, <1>9, <1>14, <2>1, <2>2, <2>3 DEF IInv, AnswersInDate, answers
  <1>15. ASSUME NEW id \in Calls, NEW age \in 0..MaxTime,
                age < Ttl + MaxStale, Held(m, id), Answer(m, id, age)
         PROVE  IInv' /\ \A k \in Mints : served[k] <= served'[k]
    <2>1. /\ served' \in [Mints -> 0..MaxCalls] /\ served'[m] = id
          /\ \A k \in Mints : k # m => served'[k] = served[k]
          /\ oldest' \in 0..MaxTime /\ oldest' < Ttl + MaxStale
      BY <1>1, <1>6, <1>15, AnswerIs
    <2>2. TypeOK'
      BY <1>1, <1>2, <1>4, <2>1 DEF TypeOK
    <2>3. id \in Nat /\ Calls \subseteq Nat
      BY DEF Calls
    <2>4. /\ served[m] <= id /\ id <= issued[m]
          /\ calls[m] # {} => id < issued[m]
          /\ \A x \in Calls : Held(m, x)' => x = id
      BY <1>1, <1>6, <1>12, <1>15 DEF OneResult, Fewer
    <2>5. ASSUME NEW k \in Mints
          PROVE  /\ \A x, y \in Calls : Held(k, x)' /\ Held(k, y)' => x = y
                 /\ \A x \in Calls : Held(k, x)' =>
                      /\ served'[k] <= x /\ x <= issued[k]
                      /\ calls[k] # {} => x < issued[k]
                 /\ served'[k] <= issued[k]
                 /\ calls[k] # {} => served'[k] < issued[k]
      <3>1. CASE k # m
        BY <1>1, <1>12, <2>1, <3>1 DEF OneResult, Fewer
      <3>2. CASE k = m
        <4>1. id <= id
          BY <2>3
        <4> QED  BY <2>1, <2>4, <3>2, <4>1
      <3> QED  BY <3>1, <3>2
    <2>6. OneResult'
      BY <1>2, <2>5 DEF OneResult
    <2>7. ASSUME NEW k \in Mints
          PROVE  served[k] <= served'[k]
      <3>1. served[k] <= served[k]
        BY <1>1 DEF TypeOK
      <3> QED  BY <2>1, <2>4, <3>1
    <2> QED  BY <1>8, <1>9, <2>1, <2>2, <2>6, <2>7 DEF IInv, AnswersInDate
  <1> QED  BY <1>13, <1>14, <1>15

(* A failed call leaves what its requests have seen.                         *)
LEMMA RejectStep ==
    ASSUME IInv, NEW m \in Mints, UpstreamRejects(m)
    PROVE  IInv' /\ UNCHANGED served
  <1>1. TypeOK /\ OneCall /\ Dated /\ OneResult /\ AnswersInDate
    BY DEF IInv
  <1>2. /\ calls[m] # {}
        /\ calls' = [calls EXCEPT ![m] = {}]
        /\ inflight' = [inflight EXCEPT ![m] = FALSE]
        /\ Resume(m, issued[m], "failed") /\ FollowedUp
        /\ UNCHANGED <<now, cache, issued>> /\ UNCHANGED answers
    BY <1>1, RejectCase
  <1>3. /\ calls' \in [Mints -> SUBSET [id : Calls, since : 0..MaxTime]] /\ calls'[m] = {}
        /\ \A k \in Mints : k # m => calls'[k] = calls[k]
        /\ inflight' \in [Mints -> BOOLEAN] /\ ~inflight'[m]
        /\ \A k \in Mints : k # m => inflight'[k] = inflight[k]
    BY <1>1, <1>2 DEF TypeOK
  <1>4. ASSUME NEW q \in Requests
        PROVE  \/ /\ req[q] \in Pending /\ req[q].phase = "waiting"
                  /\ req[q].mint = m /\ req[q].call = issued[m]
                  /\ req'[q] \in Pending
                  /\ req'[q].phase = "failed" /\ req'[q].mint = m
                  /\ req'[q].cached = req[q].cached
               \/ /\ req'[q] = req[q]
                  /\ req[q] # Idle /\ req[q].phase = "waiting" /\ req[q].mint = m
                       => req[q].call # issued[m]
    BY <1>1, <1>2, Resumed
  <1>5. req' \in [Requests -> {Idle} \union Pending]
    <2>1. CASE Requests = {}
      BY <1>2, <2>1 DEF Resume
    <2>2. CASE Requests # {}
      BY <1>1, <1>2, <2>2, Resumed
    <2> QED  BY <2>1, <2>2
  <1>6. \A q \in Requests : req[q] # Idle /\ req[q].phase = "waiting" /\ req[q].mint = m
          => req[q].call = issued[m]
    BY <1>1 DEF OneCall
  <1>7. TypeOK'
    BY <1>1, <1>2, <1>3, <1>5 DEF TypeOK, answers
  <1>8. ASSUME NEW q \in Requests, req'[q] # Idle, req'[q].phase = "waiting"
        PROVE  req'[q] = req[q] /\ req[q].mint # m
    BY <1>4, <1>6, <1>8
  <1>9. OneCall'
    BY <1>1, <1>2, <1>3, <1>8 DEF OneCall
  <1>10. Dated'
    <2>1. ASSUME NEW q \in Requests, req'[q] # Idle, req'[q].cached # None
          PROVE  Past(req'[q].cached)
      BY <1>1, <1>4, <2>1, PendingIs DEF Dated
    <2> QED  BY <1>1, <1>2, <2>1 DEF Dated, Past
  <1>11. ASSUME NEW q \in Requests, NEW k \in Mints, NEW x \in Calls, With(q, k, x)'
         PROVE  With(q, k, x)
    BY <1>4, <1>11, PendingIs DEF With
  <1>12. Fewer
    BY <1>2, <1>11 DEF Fewer, Held, InCache
  <1>13. OneResult'
    BY <1>1, <1>2, <1>3, <1>12 DEF OneResult, Fewer, answers
  <1> QED  BY <1>1, <1>2, <1>7, <1>9, <1>10, <1>13 DEF IInv, AnswersInDate, answers

(* A call that answers leaves its result as the only one of its mint.        *)
LEMMA ResolveStep ==
    ASSUME IInv, NEW m \in Mints, UpstreamResolves(m)
    PROVE  IInv' /\ UNCHANGED served
  <1> DEFINE new == Stored(m, issued[m])
  <1>1. TypeOK /\ OneCall /\ Dated /\ OneResult /\ AnswersInDate
    BY DEF IInv
  <1>2. PICK call \in calls[m] :
          /\ call.id = issued[m] /\ calls[m] = {call}
          /\ calls' = [calls EXCEPT ![m] = {}]
          /\ inflight' = [inflight EXCEPT ![m] = FALSE]
          /\ new \in Entry
          /\ cache' \in Seq(Entry) /\ Distinct(cache')
          /\ \A i \in DOMAIN cache' :
               \/ cache'[i] = new
               \/ cache'[i].mint # m /\ \E j \in DOMAIN cache : cache'[i] = cache[j]
          /\ Resume(m, issued[m], "resolved") /\ FollowedUp
          /\ UNCHANGED <<now, issued>> /\ UNCHANGED answers
    BY <1>1, ResolveCase
  <1>3. /\ calls' \in [Mints -> SUBSET [id : Calls, since : 0..MaxTime]] /\ calls'[m] = {}
        /\ \A k \in Mints : k # m => calls'[k] = calls[k]
        /\ inflight' \in [Mints -> BOOLEAN] /\ ~inflight'[m]
        /\ \A k \in Mints : k # m => inflight'[k] = inflight[k]
    BY <1>1, <1>2 DEF TypeOK
  <1>4. ASSUME NEW q \in Requests
        PROVE  \/ /\ req[q] \in Pending /\ req[q].phase = "waiting"
                  /\ req[q].mint = m /\ req[q].call = issued[m]
                  /\ req'[q] \in Pending
                  /\ req'[q].phase = "resolved" /\ req'[q].mint = m
                  /\ req'[q].call = issued[m] /\ req'[q].cached = req[q].cached
               \/ /\ req'[q] = req[q]
                  /\ req[q] # Idle /\ req[q].phase = "waiting" /\ req[q].mint = m
                       => req[q].call # issued[m]
    BY <1>1, <1>2, Resumed
  <1>5. req' \in [Requests -> {Idle} \union Pending]
    <2>1. CASE Requests = {}
      BY <1>2, <2>1 DEF Resume
    <2>2. CASE Requests # {}
      BY <1>1, <1>2, <2>2, Resumed
    <2> QED  BY <2>1, <2>2
  <1>6. \A q \in Requests : req[q] # Idle /\ req[q].phase = "waiting" /\ req[q].mint = m
          => req[q].call = issued[m]
    BY <1>1 DEF OneCall
  <1>7. new.mint = m /\ new.result = issued[m] /\ new.expiresAt = now + Ttl
    BY DEF Stored
  <1> HIDE DEF new
  <1>8. TypeOK'
    BY <1>1, <1>2, <1>3, <1>5 DEF TypeOK, answers, Distinct
  <1>9. ASSUME NEW q \in Requests, req'[q] # Idle, req'[q].phase = "waiting"
        PROVE  req'[q] = req[q] /\ req[q].mint # m
    BY <1>4, <1>6, <1>9
  <1>10. OneCall'
    BY <1>1, <1>2, <1>3, <1>9 DEF OneCall
  <1>11. Dated'
    <2>1. ASSUME NEW q \in Requests, req'[q] # Idle, req'[q].cached # None
          PROVE  Past(req'[q].cached)
      BY <1>1, <1>4, <2>1, PendingIs DEF Dated
    <2>2. Past(new)
      BY <1>1, <1>7 DEF Past, TypeOK
    <2>3. ASSUME NEW i \in DOMAIN cache'
          PROVE  Past(cache'[i])
      BY <1>1, <1>2, <2>2 DEF Dated
    <2> QED  BY <1>2, <2>1, <2>3 DEF Dated, Past
  <1>12. ASSUME NEW k \in Mints, NEW x \in Calls, Held(k, x)'
         PROVE  IF k = m THEN x = issued[m] ELSE Held(k, x)
    <2>1. CASE InCache(k, x)'
      <3>1. PICK i \in DOMAIN cache' : cache'[i].mint = k /\ cache'[i].result = x
        BY <2>1 DEF InCache
      <3>2. CASE cache'[i] = new
        BY <1>7, <3>1, <3>2
      <3>3. CASE cache'[i].mint # m /\ \E j \in DOMAIN cache : cache'[i] = cache[j]
        BY <3>1, <3>3 DEF InCache, Held
      <3> QED  BY <1>2, <3>2, <3>3
    <2>2. ASSUME NEW q \in Requests, With(q, k, x)'
          PROVE  IF k = m THEN x = issued[m] ELSE Held(k, x)
      <3>1. CASE req'[q].phase = "resolved" /\ req'[q].mint = m /\ req'[q].call = issued[m]
        BY <2>2, <3>1 DEF With
      <3>2. CASE /\ req'[q] = req[q]
                 /\ req[q] # Idle /\ req[q].phase = "waiting" /\ req[q].mint = m
                      => req[q].call # issued[m]
        <4>1. req[q] # Idle /\ req[q].mint = k
          BY <2>2, <3>2 DEF With
        <4>2. req[q].phase = "waiting"
          BY <1>2, <4>1 DEF FollowedUp
        <4>3. k # m
          BY <1>6, <3>2, <4>1, <4>2
        <4>4. With(q, k, x)
          BY <2>2, <3>2 DEF With
        <4> QED  BY <4>3, <4>4 DEF Held
      <3> QED  BY <1>4, <3>1, <3>2
    <2> QED  BY <1>12, <2>1, <2>2 DEF Held
  <1>13. ASSUME NEW k \in Mints
         PROVE  /\ \A x, y \in Calls : Held(k, x)' /\ Held(k, y)' => x = y
                /\ \A x \in Calls : Held(k, x)' =>
                     /\ served[k] <= x /\ x <= issued[k]
                     /\ calls'[k] # {} => x < issued[k]
                /\ served[k] <= issued[k]
                /\ calls'[k] # {} => served[k] < issued[k]
    <2>1. CASE k # m
      BY <1>1, <1>3, <1>12, <2>1 DEF OneResult
    <2>2. CASE k = m
      <3>1. served[m] <= issued[m] /\ issued[m] <= issued[m]
        BY <1>1 DEF OneResult, TypeOK
      <3> QED  BY <1>3, <1>12, <2>2, <3>1
    <2> QED  BY <2>1, <2>2
  <1>14. OneResult'
    BY <1>2, <1>13 DEF OneResult, answers
  <1> QED  BY <1>1, <1>2, <1>8, <1>10, <1>11, <1>14 DEF IInv, AnswersInDate, answers

LEMMA TickStep ==
    ASSUME IInv, Tick
    PROVE  IInv' /\ UNCHANGED served
  <1>1. TypeOK /\ OneCall /\ Dated /\ OneResult /\ AnswersInDate
    BY DEF IInv
  <1>2. /\ now < MaxTime /\ now' = now + 1
        /\ UNCHANGED <<cache, inflight, calls, issued, req>> /\ UNCHANGED <<served, oldest>>
    BY DEF Tick, answers
  <1>3. now' \in 0..MaxTime /\ now \in Nat
    BY <1>1, <1>2 DEF TypeOK
  <1>4. TypeOK'
    BY <1>1, <1>2, <1>3 DEF TypeOK
  <1>5. ASSUME NEW e \in Entry, Past(e)
        PROVE  Ttl <= e.expiresAt /\ e.expiresAt <= now' + Ttl
    BY <1>2, <1>3, <1>5 DEF Past, Entry
  <1>6. \A i \in DOMAIN cache : cache[i] \in Entry
    BY <1>1 DEF TypeOK
  <1>7. \A r \in Requests : req[r] # Idle /\ req[r].cached # None => req[r].cached \in Entry
    <2>1. \A r \in Requests : req[r] # Idle => req[r] \in Pending
      BY <1>1 DEF TypeOK
    <2> QED  BY <2>1, PendingIs
  <1>8. Dated'
    BY <1>1, <1>2, <1>5, <1>6, <1>7 DEF Dated, Past
  <1>9. OneCall' /\ OneResult' /\ AnswersInDate'
    BY <1>1, <1>2 DEF OneCall, OneResult, Held, InCache, With, AnswersInDate
  <1> QED  BY <1>2, <1>4, <1>8, <1>9 DEF IInv
----------------------------------------------------------------------------
LEMMA Initially == Init => IInv
  <1> SUFFICES ASSUME Init PROVE IInv
    OBVIOUS
  <1>1. /\ 0 \in 0..MaxTime /\ 0 \in 0..MaxCalls /\ 0 < Ttl + MaxStale
        /\ <<>> \in Seq(Entry) /\ DOMAIN <<>> = {}
    OBVIOUS
  <1>2. TypeOK
    BY <1>1 DEF Init, TypeOK
  <1>3. OneCall /\ Dated /\ AnswersInDate
    BY <1>1 DEF Init, OneCall, Dated, AnswersInDate
  <1>4. OneResult
    BY <1>1 DEF Init, OneResult, Held, InCache, With
  <1> QED  BY <1>2, <1>3, <1>4 DEF IInv

LEMMA StepKeeps ==
    ASSUME IInv, [Next]_vars
    PROVE  IInv' /\ \A m \in Mints : served'[m] >= served[m]
  <1>1. \A m \in Mints : served[m] \in Nat
    BY DEF IInv, TypeOK
  <1>2. UNCHANGED served => \A m \in Mints : served[m] <= served'[m]
    BY <1>1
  <1>3. ASSUME NEW r \in Requests, NEW m \in Mints, Request(r, m)
        PROVE  IInv' /\ \A k \in Mints : served[k] <= served'[k]
    <2>1. TypeOK
      BY DEF IInv
    <2>2. /\ MapStep /\ UNCHANGED now
          /\ \/ \E e \in Entry :
                  /\ SeenBy(m, e) /\ e # None /\ now < e.expiresAt
                  /\ Answer(m, e.result, Age(e))
                  /\ UNCHANGED <<inflight, calls, issued, req>>
             \/ /\ \E e \in Entry \union {None} :
                     /\ SeenBy(m, e) /\ inflight[m]
                     /\ Awaits(r, m, issued[m], e)
                     /\ UNCHANGED <<inflight, calls, issued>>
                /\ UNCHANGED answers
             \/ /\ \E e \in Entry \union {None} :
                     /\ SeenBy(m, e) /\ ~inflight[m] /\ issued[m] < MaxCalls
                     /\ issued' = [issued EXCEPT ![m] = @ + 1]
                     /\ inflight' = [inflight EXCEPT ![m] = TRUE]
                     /\ calls' = [calls EXCEPT ![m] = @ \union
                                    {[id |-> issued[m] + 1, since |-> now]}]
                     /\ Awaits(r, m, issued[m] + 1, e)
                /\ UNCHANGED answers
      BY <1>3, <2>1, RequestCases
    <2>3. UNCHANGED answers => UNCHANGED served
      BY DEF answers
    <2> QED  BY <1>2, <2>2, <2>3, HitStep, JoinStep, CallStep
  <1>4. CASE UNCHANGED vars
    <2>1. /\ now' = now /\ cache' = cache /\ inflight' = inflight /\ calls' = calls
          /\ issued' = issued /\ req' = req /\ served' = served /\ oldest' = oldest
      BY <1>4 DEF vars
    <2>2. TypeOK' /\ OneCall' /\ AnswersInDate'
      BY <2>1 DEF IInv, TypeOK, OneCall, AnswersInDate
    <2>3. Dated'
      BY <2>1 DEF IInv, Dated, Past
    <2>4. OneResult'
      BY <2>1 DEF IInv, OneResult, Held, InCache, With
    <2>5. IInv'
      BY <2>2, <2>3, <2>4 DEF IInv
    <2> QED  BY <1>1, <2>1, <2>5
  <1>5. IInv' /\ \A m \in Mints : served[m] <= served'[m]
    BY <1>2, <1>3, <1>4, ReplyStep, ResolveStep, RejectStep, TickStep, <1>1 DEF Next
  <1>6. \A m \in Mints : served'[m] \in Nat
    BY <1>5 DEF IInv, TypeOK
  <1> QED  BY <1>1, <1>5, <1>6
----------------------------------------------------------------------------
(* The strengthening of the properties below is inductive.                   *)
THEOREM AlwaysIInv == Spec => []IInv
  <1>1. Init => IInv
    BY Initially
  <1>2. IInv /\ [Next]_vars => IInv'
    BY StepKeeps
  <1> QED  BY <1>1, <1>2, PTL DEF Spec

(* Every reachable state has the types of the model.                         *)
THEOREM TypeCorrect == Spec => []TypeOK
  <1>1. IInv => TypeOK
    BY DEF IInv
  <1> QED  BY <1>1, AlwaysIInv, PTL

(* Requests that miss share one upstream call per mint, the inflight entry   *)
(* is there exactly while it runs, and whoever waits awaits that call.       *)
THEOREM CallsAreCoalesced == Spec => []CallsCoalesced
  <1>1. IInv => CallsCoalesced
    <2> SUFFICES ASSUME IInv, NEW m \in Mints
                 PROVE  /\ Cardinality(calls[m]) <= 1
                        /\ inflight[m] <=> calls[m] # {}
                        /\ \A r \in Requests :
                             req[r] # Idle /\ req[r].phase = "waiting" /\ req[r].mint = m
                               => req[r].call \in {call.id : call \in calls[m]}
      BY DEF CallsCoalesced
    <2>1. \A a, b \in calls[m] : a = b
      BY DEF IInv, OneCall
    <2>2. Cardinality(calls[m]) <= 1
      <3>1. CASE calls[m] = {}
        BY <3>1, FS_EmptySet
      <3>2. CASE calls[m] # {}
        <4>1. PICK a : a \in calls[m]
          BY <3>2
        <4>2. calls[m] = {a}
          BY <2>1, <4>1
        <4> QED  BY <4>2, FS_Singleton
      <3> QED  BY <3>1, <3>2
    <2> QED  BY <2>2 DEF IInv, OneCall
  <1> QED  BY <1>1, AlwaysIInv, PTL

(* No answer is older than the TTL and the stale window together, also one   *)
(* from the entry that a request kept while it awaited a call that failed.   *)
THEOREM AnswersStayInDate == Spec => []AnswersInDate
  <1>1. IInv => AnswersInDate
    BY DEF IInv
  <1> QED  BY <1>1, AlwaysIInv, PTL

(* Each mint has one result that can be answered, wherever it is kept, so    *)
(* the answers for a mint never go back to an older one.                     *)
THEOREM AnswersNeverGoBack == Spec => AnswersMonotone
  <1>1. IInv /\ [Next]_vars => [\A m \in Mints : served'[m] >= served[m]]_vars
    BY StepKeeps
  <1> QED  BY <1>1, AlwaysIInv, PTL DEF Spec, AnswersMonotone
=============================================================================
