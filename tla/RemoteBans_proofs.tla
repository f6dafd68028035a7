-------------------------- MODULE RemoteBans_proofs --------------------------
(* Proofs about RemoteBans, and AuthBans in it: a ban lasts, in memory and,  *)
(* as far as commands that pass each other let it, in Redis; and it is the   *)
(* failures that it is for: what the records say of them, a sum for each.    *)
EXTENDS RemoteBans, JsMap_proofs, FiniteSetTheorems

(* The Map: no ban ends later than one that starts now.                      *)
LocalInv ==
    /\ TypeOK
    /\ \A i \in DOMAIN authFailures : authFailures[i].bannedUntil <= now + BanDuration
    /\ \A ip \in Ips, t \in Times : failures[ip][t] <= recorded

(* What BanHolds says of a step.                                             *)
Lost(r) ==
    /\ Len(authFailures) = MaxEntries /\ r = Head(authFailures)
    /\ \E ip \in Ips \ {r.ip} : Of(authFailures, ip) = {} /\ Of(authFailures', ip) # {}
LocalHolds ==
    \A r \in ToSet(authFailures) :
      now' < r.bannedUntil =>
        (\E kept \in Of(authFailures', r.ip) : kept.bannedUntil >= r.bannedUntil) \/ Lost(r)

(* Redis: the bans, and the commands on their way. A script and a DEL are    *)
(* executed, an answer of HGET arrives, within the Delay; so a ban that was  *)
(* set after the ban was read that a check has found expired, or a DEL is    *)
(* for, is that young.                                                       *)
Bans ==
    \A ip \in RemoteIps :
        /\ \A g, h \in hash[ip] : g = h
        /\ \A h \in hash[ip] :
             /\ h.bannedUntil <= now + BanDuration
             /\ h.bannedUntil > 0 => h.expires >= h.bannedUntil
Scripts ==
    \A ip \in RemoteIps, t \in Times :
        /\ sending[ip][t] <= sent
        /\ sending[ip][t] > 0 => t <= now /\ now <= t + Delay
AsRead(h, answer, at) == h.bannedUntil <= answer \/ h.bannedUntil >= at + BanDuration
Answered ==
    \A ip \in RemoteIps :
        check[ip] # NoCheck =>
          /\ check[ip].at <= now /\ now <= check[ip].at + Delay
          /\ check[ip].answer >= 0 =>
               \A h \in hash[ip] : AsRead(h, check[ip].answer, check[ip].at - Delay)
Deletions ==
    \A d \in deletes :
        /\ d.at <= now /\ now <= d.at + Delay
        /\ \A h \in hash[d.ip] : AsRead(h, d.at, d.at - 2 * Delay)
Unused ==
    ~remote => /\ deletes = {}
               /\ \A ip \in RemoteIps :
                    /\ hash[ip] = {} /\ check[ip] = NoCheck
                    /\ \A t \in Times : sending[ip][t] = 0

IInv == /\ LocalInv /\ RemoteTypeOK
        /\ Bans /\ Scripts /\ Answered /\ Deletions /\ Unused
----------------------------------------------------------------------------
USE BoundsPositive, RemoteBounds

LEMMA TimesAre ==
    /\ Times \subseteq Nat /\ \A t \in Times : t <= MaxTime
    /\ BanDuration \in Nat /\ BanDuration > 0 /\ MaxTime \in Nat /\ Delay \in Nat
  BY DEF Times

(* A failure sets a new ban or leaves the old one.                           *)
LEMMA WithFailureIs ==
    ASSUME NEW r \in Records, NEW at \in Times
    PROVE  /\ WithFailure(r, at) \in Records /\ WithFailure(r, at).ip = r.ip
           /\ \/ WithFailure(r, at).bannedUntil = r.bannedUntil
              \/ WithFailure(r, at).bannedUntil = at + BanDuration
  <1> DEFINE c == Counted(r, at)
  <1>1. /\ c \in Records /\ c.ip = r.ip /\ c.bannedUntil = r.bannedUntil
    <2>1. LET b == [r EXCEPT !.count = 1, !.windowStart = at]
          IN  b \in Records /\ b.ip = r.ip /\ b.bannedUntil = r.bannedUntil
      BY DEF Records
    <2>2. LET b == [r EXCEPT !.count = @ + 1]
          IN  b \in Records /\ b.ip = r.ip /\ b.bannedUntil = r.bannedUntil
      BY DEF Records
    <2> QED  BY <2>1, <2>2 DEF Counted
  <1>2. at + BanDuration \in 0..(MaxTime + BanDuration)
    BY TimesAre
  <1> HIDE DEF c
  <1>3. LET b == [c EXCEPT !.bannedUntil = at + BanDuration]
        IN  b \in Records /\ b.ip = c.ip /\ b.bannedUntil = at + BanDuration
    BY <1>1, <1>2 DEF Records
  <1>4. WithFailure(r, at) = IF c.count >= Threshold
                               THEN [c EXCEPT !.bannedUntil = at + BanDuration] ELSE c
    BY DEF WithFailure, BannedIfEnough, c
  <1> QED  BY <1>1, <1>3, <1>4

(* What is deleted from the Map and what stays.                              *)
Distinct(map) == \A i, j \in DOMAIN map : map[i].ip = map[j].ip => i = j
LEMMA KeptRecords ==
    ASSUME NEW map \in Seq(Records), Distinct(map), NEW K
    PROVE  LET t == Kept(map, K)
           IN  /\ t \in Seq(Records) /\ Distinct(t) /\ Len(t) <= Len(map)
               /\ \A i \in DOMAIN t : \E j \in DOMAIN map : t[i] = map[j]
               /\ \A j \in DOMAIN map : map[j] \in K => \E i \in DOMAIN t : t[i] = map[j]
  <1> DEFINE t == Kept(map, K)
  <1>1. /\ t \in Seq(Records) /\ Len(t) <= Len(map)
        /\ \E place : Places(map, K, t, Len(map), place)
    BY KeptPlaces
  <1>2. PICK place : Places(map, K, t, Len(map), place)
    BY <1>1
  <1> HIDE DEF t
  <1>3. DOMAIN t = 1..Len(t) /\ DOMAIN map = 1..Len(map) /\ Len(t) \in Nat
    BY <1>1
  <1>4. \A i \in DOMAIN t : place[i] \in DOMAIN map /\ t[i] = map[place[i]]
    BY <1>2, <1>3 DEF Places
  <1>5. \A j \in DOMAIN map : map[j] \in K => \E i \in DOMAIN t : place[i] = j
    BY <1>2, <1>3 DEF Places
  <1>6. ASSUME NEW i \in DOMAIN t, NEW j \in DOMAIN t, t[i].ip = t[j].ip
        PROVE  i = j
    <2>1. map[place[i]].ip = map[place[j]].ip
      BY <1>4, <1>6
    <2>2. place[i] = place[j] /\ place[i] \in Nat
      BY <1>3, <1>4, <2>1 DEF Distinct
    <2>3. (i < j => place[i] < place[j]) /\ (j < i => place[j] < place[i])
      BY <1>2, <1>3 DEF Places
    <2> QED  BY <1>3, <2>2, <2>3
  <1>7. Distinct(t)
    BY <1>6 DEF Distinct
  <1>8. /\ \A i \in DOMAIN t : \E j \in DOMAIN map : t[i] = map[j]
        /\ \A j \in DOMAIN map : map[j] \in K => \E i \in DOMAIN t : t[i] = map[j]
    BY <1>4, <1>5
  <1> QED  BY <1>1, <1>7, <1>8 DEF t

LEMMA TypedMap ==
    LocalInv => /\ authFailures \in Seq(Records) /\ Distinct(authFailures)
                /\ Len(authFailures) \in Nat /\ Len(authFailures) <= MaxEntries
                /\ DOMAIN authFailures = 1..Len(authFailures)
                /\ now \in Times
                /\ \A i \in DOMAIN authFailures : authFailures[i] \in Records
                /\ \A r \in ToSet(authFailures) :
                     \E k \in DOMAIN authFailures : r = authFailures[k]
  BY DEF LocalInv, TypeOK, Distinct, ToSet

LEMMA OfIs ==
    ASSUME NEW map, NEW ip
    PROVE  /\ \A i \in DOMAIN map : map[i].ip = ip => map[i] \in Of(map, ip)
           /\ Of(map, ip) # {} => \E i \in DOMAIN map : map[i].ip = ip
           /\ \A r \in Of(map, ip) : \E i \in DOMAIN map : r = map[i] /\ r.ip = ip
  BY DEF Of, ToSet
----------------------------------------------------------------------------
(* A failure: the Map with a record of the IP, which counts it.              *)
LEMMA RecordMap ==
    ASSUME LocalInv, NEW ip \in Ips
    PROVE  LET map == WithRecord(ip)
           IN  /\ map \in Seq(Records) /\ Distinct(map) /\ Len(map) <= MaxEntries
               /\ \A i \in DOMAIN map : map[i].bannedUntil <= now + BanDuration
               /\ \E i \in DOMAIN map : map[i].ip = ip
               /\ \A k \in DOMAIN authFailures :
                    \/ \E i \in DOMAIN map : map[i] = authFailures[k]
                    \/ /\ k = 1 /\ Len(authFailures) = MaxEntries
                       /\ Of(authFailures, ip) = {}
  <1> DEFINE map == WithRecord(ip)
             new == New(ip, now)
             room == IF Evicts(ip) THEN Tail(authFailures) ELSE authFailures
  <1>1. /\ authFailures \in Seq(Records) /\ Distinct(authFailures)
        /\ Len(authFailures) \in Nat /\ Len(authFailures) <= MaxEntries
        /\ DOMAIN authFailures = 1..Len(authFailures) /\ now \in Times
    BY TypedMap
  <1>2. \A i \in DOMAIN authFailures : authFailures[i].bannedUntil <= now + BanDuration
    BY DEF LocalInv
  <1>3. CASE Of(authFailures, ip) # {}
    <2>1. map = authFailures
      BY <1>3 DEF WithRecord
    <2>2. \E i \in DOMAIN map : map[i].ip = ip
      BY <1>3, <2>1, OfIs
    <2> QED  BY <1>1, <1>2, <2>1, <2>2
  <1>4. CASE Of(authFailures, ip) = {}
    <2>1. map = Append(room, new)
      BY <1>4 DEF WithRecord
    <2>2. /\ new \in Records /\ new.ip = ip /\ new.bannedUntil = 0
          /\ 0 <= now + BanDuration
      BY <1>1, TimesAre DEF New, Records
    <2>3. \A i \in DOMAIN authFailures : authFailures[i].ip # ip
      BY <1>4, OfIs
    <2>4. /\ room \in Seq(Records) /\ Len(room) < MaxEntries /\ Len(room) \in Nat
          /\ DOMAIN room = 1..Len(room) /\ Distinct(room)
          /\ \A i \in DOMAIN room : \E j \in DOMAIN authFailures : room[i] = authFailures[j]
          /\ \A k \in DOMAIN authFailures :
               \/ \E i \in DOMAIN room : room[i] = authFailures[k]
               \/ k = 1 /\ Len(authFailures) = MaxEntries
      <3>1. CASE Evicts(ip)
        <4>1. room = Tail(authFailures) /\ Len(authFailures) = MaxEntries
          <5>1. Len(authFailures) >= MaxEntries
            BY <3>1 DEF Evicts
          <5>2. room = Tail(authFailures)
            BY <3>1
          <5>3. \A n, m \in Nat : n >= m /\ n <= m => n = m
            OBVIOUS
          <5>4. Len(authFailures) \in Nat /\ MaxEntries \in Nat
            BY <1>1
          <5>5. Len(authFailures) = MaxEntries
            BY <1>1, <5>1, <5>3, <5>4, Zenon
          <5> QED  BY <5>2, <5>5
        <4>2. /\ room \in Seq(Records) /\ Len(room) = Len(authFailures) - 1
              /\ DOMAIN room = 1..(Len(authFailures) - 1)
              /\ \A i \in DOMAIN room :
                   room[i] = authFailures[i + 1] /\ i + 1 \in DOMAIN authFailures
          <5> HIDE DEF room
          <5> QED  BY <1>1, <4>1
        <4> HIDE DEF room
        <4>3. \A k \in DOMAIN authFailures :
                k = 1 \/ (k - 1 \in DOMAIN room /\ room[k - 1] = authFailures[k])
          BY <1>1, <4>2
        <4>4. ASSUME NEW i \in DOMAIN room, NEW j \in DOMAIN room, room[i].ip = room[j].ip
              PROVE  i = j
          <5>1. i + 1 = j + 1
            BY <1>1, <4>2, <4>4 DEF Distinct
          <5> QED  BY <4>2, <5>1
        <4>5. Distinct(room)
          BY <4>4 DEF Distinct
        <4>6. Len(room) < MaxEntries /\ Len(room) \in Nat /\ DOMAIN room = 1..Len(room)
          BY <1>1, <4>1, <4>2
        <4> QED  BY <4>1, <4>2, <4>3, <4>5, <4>6
      <3>2. CASE ~Evicts(ip)
        <4>1. room = authFailures
          BY <3>2
        <4>2. Len(authFailures) < MaxEntries
          BY <1>1, <1>4, <3>2 DEF Evicts
        <4> HIDE DEF room
        <4> QED  BY <1>1, <4>1, <4>2
      <3> QED  BY <3>1, <3>2
    <2> HIDE DEF room, new
    <2>5. /\ map \in Seq(Records) /\ Len(map) = Len(room) + 1
          /\ DOMAIN map = 1..(Len(room) + 1) /\ map[Len(room) + 1] = new
          /\ Len(room) + 1 \in DOMAIN map
          /\ \A i \in DOMAIN room : i \in DOMAIN map /\ map[i] = room[i]
          /\ \A i \in DOMAIN map : i = Len(room) + 1 \/ i \in DOMAIN room
      BY <2>1, <2>2, <2>4
    <2> HIDE DEF map
    <2>6. Len(map) <= MaxEntries
      BY <2>4, <2>5
    <2>7. \A i \in DOMAIN room : room[i].ip # ip /\ room[i].bannedUntil <= now + BanDuration
      BY <1>2, <2>3, <2>4
    <2>8. \A i \in DOMAIN map : map[i].bannedUntil <= now + BanDuration
      BY <2>2, <2>5, <2>7
    <2>9. Distinct(map)
      BY <2>2, <2>4, <2>5, <2>7 DEF Distinct
    <2>10. \A k \in DOMAIN authFailures :
             \/ \E i \in DOMAIN map : map[i] = authFailures[k]
             \/ k = 1 /\ Len(authFailures) = MaxEntries
      BY <2>4, <2>5
    <2> QED  BY <1>4, <2>2, <2>5, <2>6, <2>8, <2>9, <2>10 DEF map
  <1> QED  BY <1>3, <1>4

LEMMA RecordStep ==
    ASSUME LocalInv, NEW ip \in Ips, RecordAuthFailure(ip)
    PROVE  LocalInv' /\ LocalHolds
  <1> DEFINE map == WithRecord(ip)
             With(i) == IF map[i].ip = ip THEN WithFailure(map[i], now) ELSE map[i]
             forgotten == IF Evicts(ip) THEN {Head(authFailures).ip} ELSE {}
  <1>1. /\ authFailures \in Seq(Records) /\ now \in Times
        /\ DOMAIN authFailures = 1..Len(authFailures)
        /\ \A r \in ToSet(authFailures) : \E k \in DOMAIN authFailures : r = authFailures[k]
    BY TypedMap
  <1>2. /\ map \in Seq(Records) /\ Distinct(map) /\ Len(map) <= MaxEntries
        /\ \A i \in DOMAIN map : map[i].bannedUntil <= now + BanDuration
        /\ \E i \in DOMAIN map : map[i].ip = ip
        /\ \A k \in DOMAIN authFailures :
             \/ \E i \in DOMAIN map : map[i] = authFailures[k]
             \/ k = 1 /\ Len(authFailures) = MaxEntries /\ Of(authFailures, ip) = {}
    BY RecordMap
  <1>3. /\ recorded < MaxFailures /\ recorded' = recorded + 1 /\ now' = now
        /\ authFailures' = [i \in DOMAIN map |-> With(i)]
        /\ failures' = [i \in Ips |->
              IF i \in forgotten THEN [t \in Times |-> 0]
              ELSE IF i = ip THEN [failures[i] EXCEPT ![now] = @ + 1]
              ELSE failures[i]]
    BY DEF RecordAuthFailure
  <1> HIDE DEF map, forgotten
  <1>4. DOMAIN map = 1..Len(map) /\ Len(map) \in Nat /\ \A i \in DOMAIN map : map[i] \in Records
    BY <1>2
  <1>5. \A i \in DOMAIN map :
          /\ With(i) \in Records /\ With(i).ip = map[i].ip
          /\ With(i).bannedUntil \in {map[i].bannedUntil, now + BanDuration}
    BY <1>1, <1>4, WithFailureIs
  <1> HIDE DEF With
  <1>6. /\ authFailures' \in Seq(Records) /\ DOMAIN authFailures' = DOMAIN map
        /\ Len(authFailures') = Len(map)
        /\ \A i \in DOMAIN map : authFailures'[i] = With(i)
    BY <1>3, <1>4, <1>5
  <1>7. now + BanDuration \in Nat
    BY <1>1, TimesAre
  <1>8. \A i \in DOMAIN map :
          /\ map[i].bannedUntil <= With(i).bannedUntil
          /\ With(i).bannedUntil <= now + BanDuration
    <2>1. \A i \in DOMAIN map : map[i].bannedUntil \in Nat
      BY <1>4 DEF Records
    <2> QED  BY <1>2, <1>5, <1>7, <2>1
  <1>9. \A i, j \in DOMAIN authFailures' :
          authFailures'[i].ip = authFailures'[j].ip => i = j
    BY <1>2, <1>5, <1>6 DEF Distinct
  <1>10. /\ failures' \in [Ips -> [Times -> 0..MaxFailures]]
         /\ \A i \in Ips, t \in Times : failures'[i][t] <= recorded'
         /\ recorded' \in 0..MaxFailures
    <2>1. /\ failures \in [Ips -> [Times -> 0..MaxFailures]] /\ recorded \in 0..MaxFailures
          /\ \A i \in Ips, t \in Times : failures[i][t] <= recorded
      BY DEF LocalInv, TypeOK
    <2>2. recorded' \in 0..MaxFailures
      BY <1>3, <2>1
    <2>3. ASSUME NEW i \in Ips
          PROVE  /\ failures'[i] \in [Times -> 0..MaxFailures]
                 /\ \A t \in Times : failures'[i][t] <= recorded'
      <3>1. CASE i \in forgotten
        <4>1. failures'[i] = [t \in Times |-> 0]
          BY <1>3, <3>1
        <4> QED  BY <2>2, <4>1
      <3>2. CASE i \notin forgotten /\ i = ip
        <4>1. failures'[i] = [failures[i] EXCEPT ![now] = @ + 1]
          BY <1>3, <3>2
        <4>2. failures[i] \in [Times -> 0..MaxFailures]
          BY <2>1
        <4>3. \A t \in Times : failures'[i][t] = IF t = now THEN failures[i][t] + 1
                                                           ELSE failures[i][t]
          BY <1>1, <4>1, <4>2
        <4>4. \A t \in Times : /\ failures[i][t] \in Nat /\ failures[i][t] <= recorded
                               /\ failures'[i][t] \in 0..MaxFailures
                               /\ failures'[i][t] <= recorded'
          BY <1>3, <2>1, <2>2, <4>2, <4>3
        <4> QED  BY <4>1, <4>2, <4>4
      <3>3. CASE i \notin forgotten /\ i # ip
        <4>1. failures'[i] = failures[i]
          BY <1>3, <3>3
        <4>2. failures[i] \in [Times -> 0..MaxFailures]
          BY <2>1
        <4>3. \A t \in Times : failures[i][t] \in Nat /\ failures[i][t] <= recorded
          BY <2>1, <4>2
        <4>4. \A t \in Times : failures[i][t] <= recorded'
          BY <1>3, <2>1, <4>3
        <4> QED  BY <4>1, <4>2, <4>4
      <3> QED  BY <3>1, <3>2, <3>3
    <2>4. failures' = [i \in Ips |-> failures'[i]]
      BY <1>3
    <2> QED  BY <2>2, <2>3, <2>4
  <1>11. LocalInv'
    BY <1>1, <1>2, <1>3, <1>6, <1>8, <1>9, <1>10 DEF LocalInv, TypeOK
  <1>12. LocalHolds
    <2> SUFFICES ASSUME NEW r \in ToSet(authFailures)
                 PROVE  \/ \E kept \in Of(authFailures', r.ip) :
                              kept.bannedUntil >= r.bannedUntil
                        \/ Lost(r)
      BY DEF LocalHolds
    <2>1. PICK k \in DOMAIN authFailures : r = authFailures[k]
      BY <1>1
    <2>2. CASE \E i \in DOMAIN map : map[i] = r
      <3>1. PICK i \in DOMAIN map : map[i] = r
        BY <2>2
      <3>2. /\ authFailures'[i].ip = r.ip /\ i \in DOMAIN authFailures'
            /\ authFailures'[i].bannedUntil >= r.bannedUntil
        <4>1. /\ With(i).bannedUntil \in Nat /\ r.bannedUntil \in Nat
          BY <1>4, <1>5, <3>1 DEF Records
        <4> QED  BY <1>5, <1>6, <1>8, <3>1, <4>1
      <3>3. authFailures'[i] \in Of(authFailures', r.ip)
        BY <3>2, OfIs
      <3> QED  BY <3>2, <3>3
    <2>3. CASE ~\E i \in DOMAIN map : map[i] = r
      <3>1. k = 1 /\ Len(authFailures) = MaxEntries /\ Of(authFailures, ip) = {}
        BY <1>2, <2>1, <2>3
      <3>2. r = Head(authFailures)
        BY <1>1, <2>1, <3>1
      <3>3. r.ip # ip
        BY <2>1, <3>1, OfIs
      <3>4. PICK i \in DOMAIN map : map[i].ip = ip
        BY <1>2
      <3>5. authFailures'[i].ip = ip /\ i \in DOMAIN authFailures'
        BY <1>5, <1>6, <3>4
      <3>6. Of(authFailures', ip) # {}
        BY <3>5, OfIs
      <3> QED  BY <3>1, <3>2, <3>3, <3>6 DEF Lost
    <2> QED  BY <2>2, <2>3
  <1> QED  BY <1>11, <1>12

(* What deletes records deletes no ban that has not ended.                   *)
LEMMA DeleteStep ==
    ASSUME LocalInv, NEW K, authFailures' = Kept(authFailures, K),
           \A r \in ToSet(authFailures) : now < r.bannedUntil => r \in K,
           UNCHANGED <<now, failures, recorded>>
    PROVE  LocalInv' /\ LocalHolds
  <1>1. /\ authFailures \in Seq(Records) /\ Distinct(authFailures)
        /\ Len(authFailures) \in Nat /\ Len(authFailures) <= MaxEntries
        /\ \A r \in ToSet(authFailures) : \E k \in DOMAIN authFailures : r = authFailures[k]
    BY TypedMap
  <1>2. /\ authFailures' \in Seq(Records) /\ Distinct(authFailures')
        /\ Len(authFailures') <= Len(authFailures)
        /\ \A i \in DOMAIN authFailures' : \E j \in DOMAIN authFailures :
             authFailures'[i] = authFailures[j]
        /\ \A j \in DOMAIN authFailures : authFailures[j] \in K =>
             \E i \in DOMAIN authFailures' : authFailures'[i] = authFailures[j]
    BY <1>1, KeptRecords
  <1>3. Len(authFailures') \in Nat
    BY <1>2
  <1>4. Len(authFailures') <= MaxEntries
    BY <1>1, <1>2, <1>3
  <1>5. \A i \in DOMAIN authFailures' : authFailures'[i].bannedUntil <= now + BanDuration
    BY <1>2 DEF LocalInv
  <1>6. LocalInv'
    BY <1>2, <1>4, <1>5 DEF LocalInv, TypeOK, Distinct
  <1>7. LocalHolds
    <2> SUFFICES ASSUME NEW r \in ToSet(authFailures), now < r.bannedUntil
                 PROVE  \E kept \in Of(authFailures', r.ip) :
                          kept.bannedUntil >= r.bannedUntil
      BY DEF LocalHolds
    <2>1. PICK i \in DOMAIN authFailures' : authFailures'[i] = r
      BY <1>1, <1>2
    <2>2. r \in Of(authFailures', r.ip)
      BY <2>1, OfIs
    <2>3. r.bannedUntil >= r.bannedUntil
      <3>1. r \in Records
        BY <1>2, <2>1
      <3>2. r.bannedUntil \in Nat
        BY <3>1, TimesAre DEF Records
      <3> QED  BY <3>2
    <2> QED  BY <2>2, <2>3
  <1> QED  BY <1>6, <1>7

LEMMA IsAuthBannedStep ==
    ASSUME LocalInv, NEW ip \in Ips, IsAuthBanned(ip)
    PROVE  LocalInv' /\ LocalHolds
  <1> DEFINE K == {r \in ToSet(authFailures) : r.ip # ip}
  <1>1. authFailures' = Kept(authFailures, K) /\ UNCHANGED <<now, failures, recorded>>
    BY DEF IsAuthBanned, Without
  <1>2. PICK e \in Of(authFailures, ip) : e.bannedUntil # 0 /\ now >= e.bannedUntil
    BY DEF IsAuthBanned, BanExpired
  <1>3. PICK j \in DOMAIN authFailures : e = authFailures[j] /\ e.ip = ip
    BY OfIs
  <1>4. ASSUME NEW r \in ToSet(authFailures), now < r.bannedUntil
        PROVE  r \in K
    <2>1. PICK k \in DOMAIN authFailures : r = authFailures[k]
      BY TypedMap
    <2>2. r \in Records /\ e \in Records /\ now \in Nat
      BY <1>3, <2>1, TypedMap, TimesAre
    <2>3. r.bannedUntil \in Nat /\ e.bannedUntil \in Nat
      BY <2>2, TimesAre DEF Records
    <2>4. r # e
      BY <1>2, <1>4, <2>2, <2>3
    <2>5. r.ip # ip
      BY <1>3, <2>1, <2>4, TypedMap DEF Distinct
    <2> QED  BY <2>5
  <1> HIDE DEF K
  <1> QED  BY <1>1, <1>4, DeleteStep

LEMMA SweepStep ==
    ASSUME LocalInv, EvictExpiredAuthFailures
    PROVE  LocalInv' /\ LocalHolds
  <1> DEFINE K == {r \in ToSet(authFailures) : ~Stale(r)}
  <1>1. authFailures' = Kept(authFailures, K) /\ UNCHANGED <<now, failures, recorded>>
    BY DEF EvictExpiredAuthFailures
  <1>2. ASSUME NEW r \in ToSet(authFailures), now < r.bannedUntil
        PROVE  r \in K
    <2>1. r \in Records /\ now \in Nat
      BY TypedMap, TimesAre
    <2>2. r.bannedUntil \in Nat
      BY <2>1, TimesAre DEF Records
    <2>3. r.bannedUntil > 0 /\ ~(now >= r.bannedUntil + BanDuration)
      BY <1>2, <2>1, <2>2, TimesAre
    <2> QED  BY <2>3 DEF Stale
  <1> HIDE DEF K
  <1> QED  BY <1>1, <1>2, DeleteStep

(* A step that leaves the Map alone, and that of the clock.                  *)
LEMMA SameMap ==
    ASSUME LocalInv, authFailures' = authFailures
    PROVE  LocalHolds
  <1> SUFFICES ASSUME NEW r \in ToSet(authFailures)
               PROVE  \E kept \in Of(authFailures', r.ip) :
                        kept.bannedUntil >= r.bannedUntil
    BY DEF LocalHolds
  <1>1. PICK k \in DOMAIN authFailures : r = authFailures[k]
    BY TypedMap
  <1>2. r \in Of(authFailures, r.ip)
    BY <1>1, OfIs
  <1>3. r \in Records
    BY <1>1, TypedMap
  <1>4. r.bannedUntil >= r.bannedUntil
    BY <1>3, TimesAre DEF Records
  <1> QED  BY <1>2, <1>4

LEMMA TickStep ==
    ASSUME LocalInv, Tick
    PROVE  LocalInv' /\ LocalHolds
  <1>1. /\ now < MaxTime /\ now' = now + 1
        /\ authFailures' = authFailures /\ failures' = failures /\ recorded' = recorded
    BY DEF Tick
  <1>2. now \in Times /\ now' \in Times
    BY <1>1, TypedMap DEF Times
  <1>3. ASSUME NEW i \in DOMAIN authFailures
        PROVE  authFailures[i].bannedUntil <= now' + BanDuration
    <2>1. authFailures[i] \in Records
      BY TypedMap
    <2>2. authFailures[i].bannedUntil \in Nat
      BY <2>1, TimesAre DEF Records
    <2>3. authFailures[i].bannedUntil <= now + BanDuration
      BY DEF LocalInv
    <2> QED  BY <1>1, <1>2, <2>2, <2>3, TimesAre
  <1>4. LocalInv'
    BY <1>1, <1>2, <1>3 DEF LocalInv, TypeOK
  <1> QED  BY <1>1, <1>4, SameMap

LEMMA LocalStep ==
    ASSUME LocalInv, Next \/ UNCHANGED vars
    PROVE  LocalInv' /\ LocalHolds
  <1>1. ASSUME NEW ip \in Ips, RecordAuthFailure(ip)
        PROVE  LocalInv' /\ LocalHolds
    BY <1>1, RecordStep
  <1>2. ASSUME NEW ip \in Ips, IsAuthBanned(ip)
        PROVE  LocalInv' /\ LocalHolds
    BY <1>2, IsAuthBannedStep
  <1>3. CASE EvictExpiredAuthFailures
    BY <1>3, SweepStep
  <1>4. CASE Tick
    BY <1>4, TickStep
  <1>5. CASE UNCHANGED vars
    <2>1. /\ authFailures' = authFailures /\ now' = now
          /\ failures' = failures /\ recorded' = recorded
      BY <1>5 DEF vars
    <2>2. LocalInv'
      BY <2>1 DEF LocalInv, TypeOK
    <2> QED  BY <2>1, <2>2, SameMap
  <1> QED  BY <1>1, <1>2, <1>3, <1>4, <1>5 DEF Next
----------------------------------------------------------------------------
(* Redis: what a step does to one hash.                                      *)
RemoteHolds ==
    \A ip \in RemoteIps : \A h \in hash[ip] :
      now' < h.bannedUntil =>
        \/ \E kept \in hash'[ip] : kept.bannedUntil >= h.bannedUntil - Delay
        \/ now <= h.bannedUntil - BanDuration + 3 * Delay /\ deletes' # deletes

LEMMA TypedHash ==
    ASSUME IInv, NEW ip \in RemoteIps
    PROVE  /\ now \in Nat /\ now \in Times /\ ip \in Ips /\ hash[ip] \in SUBSET Hashes
           /\ \A g, h \in hash[ip] : g = h
           /\ \A h \in hash[ip] :
                /\ h \in Hashes /\ h.ip = ip /\ h.bannedUntil \in Nat
                /\ h.bannedUntil <= MaxTime + BanDuration
                /\ h.expires \in Nat /\ h.expires > now
                /\ h.bannedUntil <= now + BanDuration
                /\ h.bannedUntil > 0 => h.expires >= h.bannedUntil
  <1>1. now \in Times /\ now \in Nat /\ ip \in Ips
    BY TimesAre DEF IInv, RemoteTypeOK, TypeOK
  <1>2. hash[ip] \in SUBSET Hashes /\ \A h \in hash[ip] : h.ip = ip /\ h.expires > now
    BY DEF IInv, RemoteTypeOK
  <1>3. /\ \A g, h \in hash[ip] : g = h
        /\ \A h \in hash[ip] : /\ h.bannedUntil <= now + BanDuration
                               /\ h.bannedUntil > 0 => h.expires >= h.bannedUntil
    BY DEF IInv, Bans
  <1>4. \A h \in Hashes : /\ h.bannedUntil \in Nat /\ h.expires \in Nat
                          /\ h.bannedUntil <= MaxTime + BanDuration
    BY TimesAre DEF Hashes
  <1> QED  BY <1>1, <1>2, <1>3, <1>4

LEMMA TypedCheck ==
    ASSUME IInv, NEW ip \in RemoteIps, check[ip] # NoCheck
    PROVE  /\ check[ip] \in Checks /\ check[ip].at \in Nat /\ check[ip].answer \in Int
           /\ check[ip].answer <= MaxTime + BanDuration
           /\ check[ip].at <= now /\ now <= check[ip].at + Delay
  <1>1. check[ip] \in Checks
    BY DEF IInv, RemoteTypeOK
  <1>2. /\ check[ip].at \in Nat /\ check[ip].answer \in Int
        /\ check[ip].answer <= MaxTime + BanDuration
    <2> DEFINE last == MaxTime + BanDuration
    <2>1. check[ip].at \in Times /\ check[ip].answer \in -1..last
      BY <1>1, Zenon DEF Checks
    <2>2. last \in Int
      BY TimesAre
    <2> HIDE DEF last
    <2>3. \A a \in -1..last : a \in Int /\ a <= last
      BY <2>2
    <2>4. check[ip].at \in Nat
      BY <2>1, TimesAre
    <2> QED  BY <2>1, <2>3, <2>4 DEF last
  <1> QED  BY <1>1, <1>2 DEF IInv, Answered

LEMMA TypedDelete ==
    ASSUME IInv, NEW d \in deletes
    PROVE  /\ d.ip \in RemoteIps /\ d.at \in Nat /\ d.at <= now /\ now <= d.at + Delay
           /\ \A h \in hash[d.ip] : AsRead(h, d.at, d.at - 2 * Delay)
  <1>1. d.ip \in RemoteIps /\ d.at \in Nat
    BY TimesAre DEF IInv, RemoteTypeOK
  <1> QED  BY <1>1 DEF IInv, Deletions

(* What a script leaves: the ban it found, or its own.                       *)
Left(ip, at, S) ==
    /\ S \in SUBSET Hashes
    /\ \A g, h \in S : g = h
    /\ \A g \in S :
         /\ g.ip = ip /\ g.expires > now
         /\ g.bannedUntil <= now + BanDuration
         /\ g.bannedUntil > 0 => g.expires >= g.bannedUntil
         /\ \/ g.bannedUntil = 0 \/ g.bannedUntil = at + BanDuration
            \/ \E h \in hash[ip] : h.bannedUntil = g.bannedUntil

(* WithFailure of a hash.                                                    *)
LEMMA WithFailureOfHash ==
    ASSUME NEW r \in Hashes, NEW at \in Times
    PROVE  /\ WithFailure(r, at) \in Hashes /\ WithFailure(r, at).ip = r.ip
           /\ \/ WithFailure(r, at).bannedUntil = r.bannedUntil
              \/ WithFailure(r, at).bannedUntil = at + BanDuration
  <1> DEFINE c == Counted(r, at)
  <1>1. /\ c \in Hashes /\ c.ip = r.ip /\ c.bannedUntil = r.bannedUntil
    <2>1. LET b == [r EXCEPT !.count = 1, !.windowStart = at]
          IN  b \in Hashes /\ b.ip = r.ip /\ b.bannedUntil = r.bannedUntil
      BY DEF Hashes
    <2>2. LET b == [r EXCEPT !.count = @ + 1]
          IN  b \in Hashes /\ b.ip = r.ip /\ b.bannedUntil = r.bannedUntil
      BY DEF Hashes
    <2> QED  BY <2>1, <2>2 DEF Counted
  <1>2. at + BanDuration \in 0..(MaxTime + BanDuration)
    BY TimesAre
  <1> HIDE DEF c
  <1>3. LET b == [c EXCEPT !.bannedUntil = at + BanDuration]
        IN  b \in Hashes /\ b.ip = c.ip /\ b.bannedUntil = at + BanDuration
    BY <1>1, <1>2 DEF Hashes
  <1>4. WithFailure(r, at) = IF c.count >= Threshold
                               THEN [c EXCEPT !.bannedUntil = at + BanDuration] ELSE c
    BY DEF WithFailure, BannedIfEnough, c
  <1> QED  BY <1>1, <1>3, <1>4

LEMMA ScriptLeaves ==
    ASSUME IInv, NEW ip \in RemoteIps, NEW at \in Times, sending[ip][at] > 0,
           Script(ip, at)
    PROVE  \E S : /\ hash' = [hash EXCEPT ![ip] = S] /\ Left(ip, at, S)
                  /\ \A h \in hash[ip] : now < h.bannedUntil =>
                       \E kept \in S : kept.bannedUntil >= h.bannedUntil - Delay
  <1> DEFINE r == Read(ip, at)
             h == WithFailure(r, at)
             ttl == TimeToLive(h, at)
             S == IF ttl <= 0 THEN {} ELSE {[h EXCEPT !.expires = now + ttl]}
  <1>1. hash' = [hash EXCEPT ![ip] = S]
    BY DEF Script
  <1>2. /\ now \in Nat /\ at \in Nat /\ at <= now /\ now <= at + Delay
        /\ Window \in Nat \ {0}
    BY TypedHash, TimesAre DEF IInv, Scripts
  <1>3. /\ r \in Hashes /\ r.ip = ip
        /\ r.bannedUntil = 0 \/ r \in hash[ip]
        /\ hash[ip] # {} => r \in hash[ip]
    <2>1. CASE hash[ip] = {}
      <3>1. r = NewHash(ip, at)
        BY <2>1 DEF Read
      <3>2. NewHash(ip, at) \in Hashes /\ NewHash(ip, at).ip = ip
            /\ NewHash(ip, at).bannedUntil = 0
        BY TypedHash, TimesAre DEF NewHash, Hashes
      <3> QED  BY <2>1, <3>1, <3>2
    <2>2. CASE hash[ip] # {}
      <3>1. r \in hash[ip]
        BY <2>2 DEF Read
      <3> QED  BY <3>1, TypedHash
    <2> QED  BY <2>1, <2>2
  <1> HIDE DEF r
  <1>4. /\ h \in Hashes /\ h.ip = ip
        /\ h.bannedUntil = r.bannedUntil \/ h.bannedUntil = at + BanDuration
    BY <1>3, WithFailureOfHash
  <1> HIDE DEF h
  <1>5. r.bannedUntil \in Nat /\ r.bannedUntil <= now + BanDuration
    BY <1>2, <1>3, TypedHash, TimesAre
  <1>6. h.bannedUntil \in Nat /\ h.bannedUntil <= now + BanDuration
    BY <1>2, <1>4, <1>5, TimesAre
  <1>7. /\ ttl \in Int
        /\ h.bannedUntil > 0 => ttl = h.bannedUntil - at + BanDuration
        /\ h.bannedUntil = 0 => ttl = Window * 2
    BY <1>2, <1>6, TimesAre DEF TimeToLive
  <1> HIDE DEF ttl
  <1> DEFINE g == [h EXCEPT !.expires = now + ttl]
  <1>8. ttl > 0 => /\ g \in Hashes /\ g.ip = ip /\ g.bannedUntil = h.bannedUntil
                   /\ g.expires = now + ttl
    <2>1. ttl > 0 => now + ttl \in Nat
      BY <1>2, <1>7
    <2> QED  BY <1>4, <2>1 DEF Hashes
  <1>9. S = IF ttl <= 0 THEN {} ELSE {g}
    OBVIOUS
  <1> HIDE DEF S, g
  <1>10. ttl > 0 => /\ g.expires > now
                    /\ g.bannedUntil > 0 => g.expires >= g.bannedUntil
    BY <1>2, <1>6, <1>7, <1>8, TimesAre
  <1>11. Left(ip, at, S)
    <2>1. CASE ttl <= 0
      BY <1>9, <2>1 DEF Left
    <2>2. CASE ttl > 0
      <3>1. S = {g}
        BY <1>7, <1>9, <2>2
      <3>2. \/ g.bannedUntil = 0 \/ g.bannedUntil = at + BanDuration
            \/ \E x \in hash[ip] : x.bannedUntil = g.bannedUntil
        BY <1>3, <1>4, <1>8, <2>2
      <3> QED  BY <1>6, <1>8, <1>10, <2>2, <3>1, <3>2 DEF Left
    <2> QED  BY <1>7, <2>1, <2>2
  <1>12. ASSUME NEW x \in hash[ip], now < x.bannedUntil
         PROVE  \E kept \in S : kept.bannedUntil >= x.bannedUntil - Delay
    <2>1. x = r /\ x.bannedUntil \in Nat /\ x.bannedUntil <= now + BanDuration
      BY <1>3, <1>12, TypedHash
    <2>2. /\ h.bannedUntil >= x.bannedUntil - Delay
          /\ h.bannedUntil > 0
      BY <1>2, <1>4, <1>12, <2>1, TimesAre
    <2>3. ttl > 0
      BY <1>2, <1>4, <1>7, <1>12, <2>1, <2>2, TimesAre
    <2>4. S = {g}
      BY <1>7, <1>9, <2>3
    <2>5. g.bannedUntil >= x.bannedUntil - Delay
      BY <1>8, <2>2, <2>3
    <2> QED  BY <2>4, <2>5
  <1> QED  BY <1>1, <1>11, <1>12
----------------------------------------------------------------------------
(* The invariant after a step, part by part.                                 *)
RedisInv ==
    /\ hash \in [RemoteIps -> SUBSET Hashes]
    /\ \A ip \in RemoteIps : \A h \in hash[ip] : h.ip = ip /\ h.expires > now
    /\ Bans
SendingInv ==
    /\ sending \in [RemoteIps -> [Times -> 0..MaxFailures]] /\ sent \in 0..MaxFailures
    /\ Scripts
CheckInv == check \in [RemoteIps -> Checks \union {NoCheck}] /\ Answered
DeletesInv == deletes \subseteq [ip : RemoteIps, at : Times] /\ Deletions
RestInv == remote \in BOOLEAN /\ faults \in 0..MaxFaults /\ Unused

LEMMA PartsOf == IInv => /\ LocalInv /\ RedisInv /\ SendingInv /\ CheckInv
                         /\ DeletesInv /\ RestInv
  BY DEF IInv, RemoteTypeOK, RedisInv, SendingInv, CheckInv, DeletesInv, RestInv

(* At most one record in each hash.                                          *)
LEMMA OneRecord ==
    ASSUME NEW S, \A g, h \in S : g = h
    PROVE  Cardinality(S) <= 1
  <1>1. CASE S = {}
    BY <1>1, FS_EmptySet
  <1>2. CASE S # {}
    <2>1. PICK h : S = {h}
      BY <1>2
    <2> QED  BY <2>1, FS_Singleton
  <1> QED  BY <1>1, <1>2

LEMMA Parts ==
    ASSUME LocalInv, RedisInv, SendingInv, CheckInv, DeletesInv, RestInv
    PROVE  IInv
  <1>1. \A ip \in RemoteIps : Cardinality(hash[ip]) <= 1
    BY OneRecord DEF RedisInv, Bans
  <1>2. RemoteTypeOK
    BY <1>1 DEF LocalInv, RedisInv, SendingInv, CheckInv, DeletesInv, RestInv, RemoteTypeOK
  <1> QED  BY <1>2 DEF IInv, RedisInv, SendingInv, CheckInv, DeletesInv, RestInv

LEMMA NextParts ==
    ASSUME LocalInv', RedisInv', SendingInv', CheckInv', DeletesInv', RestInv'
    PROVE  IInv'
  <1>1. \A ip \in RemoteIps : Cardinality(hash'[ip]) <= 1
    BY OneRecord DEF RedisInv, Bans
  <1>2. RemoteTypeOK'
    BY <1>1 DEF LocalInv, RedisInv, SendingInv, CheckInv, DeletesInv, RestInv, RemoteTypeOK
  <1> QED  BY <1>2 DEF IInv, RedisInv, SendingInv, CheckInv, DeletesInv, RestInv

(* Variables that do not change, while the clock does not.                   *)
LEMMA SameRedis ==
    ASSUME IInv, hash' = hash, now' = now
    PROVE  RedisInv' /\ RemoteHolds
  <1>1. RedisInv'
    BY PartsOf DEF RedisInv, Bans
  <1>2. ASSUME NEW ip \in RemoteIps, NEW h \in hash[ip]
        PROVE  h \in hash'[ip] /\ h.bannedUntil >= h.bannedUntil - Delay
    BY TypedHash, TimesAre
  <1>3. RemoteHolds
    BY <1>2 DEF RemoteHolds
  <1> QED  BY <1>1, <1>3

LEMMA SameSending ==
    ASSUME IInv, sending' = sending, sent' = sent, now' = now
    PROVE  SendingInv'
  BY PartsOf DEF SendingInv, Scripts

LEMMA SameCheck ==
    ASSUME IInv, check' = check, hash' = hash, now' = now
    PROVE  CheckInv'
  BY PartsOf DEF CheckInv, Answered, AsRead

LEMMA FewerDeletes ==
    ASSUME IInv, deletes' \subseteq deletes, hash' = hash, now' = now
    PROVE  DeletesInv'
  BY PartsOf DEF DeletesInv, Deletions, AsRead

LEMMA RemoteRest ==
    ASSUME IInv, remote, remote' = remote, faults' \in 0..MaxFaults
    PROVE  RestInv'
  BY DEF RestInv, Unused

LEMMA OutcomeIs ==
    ASSUME IInv, NEW executed, NEW failed \in BOOLEAN, Outcome(executed, failed)
    PROVE  faults' \in 0..MaxFaults
  BY PartsOf, RemoteBounds DEF Outcome, RestInv

(* One hash changes as by a script, or is deleted.                           *)
LEMMA HashChanges ==
    ASSUME IInv, NEW ip \in RemoteIps, NEW at \in Times, NEW S, Left(ip, at, S),
           hash' = [hash EXCEPT ![ip] = S], at <= now, now <= at + Delay,
           check' = check, deletes' \subseteq deletes, now' = now
    PROVE  RedisInv' /\ CheckInv' /\ DeletesInv'
  <1>1. /\ hash \in [RemoteIps -> SUBSET Hashes] /\ now \in Nat /\ at \in Nat
        /\ check \in [RemoteIps -> Checks \union {NoCheck}]
        /\ deletes \subseteq [ip : RemoteIps, at : Times]
    BY PartsOf, TypedHash, TimesAre DEF RedisInv, CheckInv, DeletesInv
  <1>2. /\ hash' \in [RemoteIps -> SUBSET Hashes]
        /\ hash'[ip] = S /\ \A o \in RemoteIps : o # ip => hash'[o] = hash[o]
    BY <1>1 DEF Left
  <1>3. RedisInv'
    <2>1. ASSUME NEW o \in RemoteIps
          PROVE  /\ \A g, h \in hash'[o] : g = h
                 /\ \A h \in hash'[o] :
                      /\ h.ip = o /\ h.expires > now'
                      /\ h.bannedUntil <= now' + BanDuration
                      /\ h.bannedUntil > 0 => h.expires >= h.bannedUntil
      <3>1. CASE o = ip
        BY <1>2, <3>1 DEF Left
      <3>2. CASE o # ip
        BY <1>2, <3>2, TypedHash
      <3> QED  BY <3>1, <3>2
    <2> QED  BY <1>2, <2>1 DEF RedisInv, Bans
  <1>4. ASSUME NEW o \in RemoteIps, NEW g \in hash'[o], NEW answer \in Nat, NEW since \in Int,
               \A h \in hash[o] : AsRead(h, answer, since), since <= at
        PROVE  AsRead(g, answer, since)
    <2>1. CASE \E h \in hash[o] : h.bannedUntil = g.bannedUntil
      BY <1>4, <2>1 DEF AsRead
    <2>2. CASE ~\E h \in hash[o] : h.bannedUntil = g.bannedUntil
      <3>1. o = ip
        BY <1>2, <2>2
      <3>2. g.bannedUntil = 0 \/ g.bannedUntil = at + BanDuration
        BY <1>2, <2>2, <3>1 DEF Left
      <3> QED  BY <1>1, <1>4, <3>2, TimesAre DEF AsRead
    <2> QED  BY <2>1, <2>2
  <1>5. CheckInv'
    <2>1. ASSUME NEW o \in RemoteIps, check[o] # NoCheck
          PROVE  /\ check[o].at <= now /\ now <= check[o].at + Delay
                 /\ check[o].answer >= 0 =>
                      \A h \in hash'[o] : AsRead(h, check[o].answer, check[o].at - Delay)
      <3>1. /\ check[o].at \in Nat /\ check[o].answer \in Int
            /\ check[o].at <= now /\ now <= check[o].at + Delay
        BY <2>1, TypedCheck
      <3>2. check[o].at - Delay \in Int /\ check[o].at - Delay <= at
        BY <1>1, <3>1, TimesAre
      <3>3. check[o].answer >= 0 => check[o].answer \in Nat
        BY <3>1
      <3>4. check[o].answer >= 0 =>
              \A h \in hash[o] : AsRead(h, check[o].answer, check[o].at - Delay)
        BY <2>1 DEF IInv, Answered
      <3> QED  BY <1>4, <3>1, <3>2, <3>3, <3>4
    <2> QED  BY <1>1, <2>1 DEF CheckInv, Answered
  <1>6. DeletesInv'
    <2>1. ASSUME NEW d \in deletes
          PROVE  /\ d.at <= now /\ now <= d.at + Delay
                 /\ \A h \in hash'[d.ip] : AsRead(h, d.at, d.at - 2 * Delay)
      <3>1. /\ d.ip \in RemoteIps /\ d.at \in Nat /\ d.at <= now /\ now <= d.at + Delay
            /\ \A h \in hash[d.ip] : AsRead(h, d.at, d.at - 2 * Delay)
        BY TypedDelete
      <3>2. d.at - 2 * Delay \in Int /\ d.at - 2 * Delay <= at
        BY <1>1, <3>1, TimesAre
      <3> QED  BY <1>4, <3>1, <3>2
    <2> QED  BY <1>1, <2>1 DEF DeletesInv, Deletions
  <1> QED  BY <1>3, <1>5, <1>6
----------------------------------------------------------------------------
(* The steps with a remote store.                                            *)
Keeps == IInv' /\ LocalHolds /\ RemoteHolds

LEMMA RecordKeeps ==
    ASSUME IInv, remote, remote' = remote, NEW ip \in RemoteIps, Record(ip)
    PROVE  Keeps
  <1>1. /\ sent < MaxFailures /\ sent' = sent + 1
        /\ sending' = [sending EXCEPT ![ip][now] = @ + 1]
        /\ hash' = hash /\ now' = now /\ check' = check /\ deletes' = deletes
        /\ faults' = faults /\ UNCHANGED vars
    BY DEF Record, redis, vars
  <1>2. LocalInv' /\ LocalHolds
    BY <1>1, LocalStep, PartsOf
  <1>3. /\ sending \in [RemoteIps -> [Times -> 0..MaxFailures]] /\ sent \in 0..MaxFailures
        /\ now \in Times /\ now \in Nat
        /\ \A o \in RemoteIps, t \in Times :
             /\ sending[o][t] <= sent
             /\ sending[o][t] > 0 => t <= now /\ now <= t + Delay
    BY PartsOf, TypedHash DEF SendingInv, Scripts
  <1>4. sent' \in 0..MaxFailures
    BY <1>1, <1>3
  <1>5. ASSUME NEW o \in RemoteIps, NEW t \in Times
        PROVE  /\ sending'[o][t] \in 0..MaxFailures /\ sending'[o][t] <= sent'
               /\ sending'[o][t] > 0 => t <= now /\ now <= t + Delay
    <2>1. sending[o] \in [Times -> 0..MaxFailures] /\ sending[o][t] \in 0..MaxFailures
      BY <1>3
    <2>2. sending'[o][t] = IF o = ip /\ t = now THEN sending[o][t] + 1 ELSE sending[o][t]
      BY <1>1, <1>3, <2>1
    <2> QED  BY <1>1, <1>3, <1>4, <2>1, <2>2, TimesAre
  <1>6. sending' \in [RemoteIps -> [Times -> 0..MaxFailures]]
    <2>1. DOMAIN sending' = RemoteIps /\ \A o \in RemoteIps : DOMAIN sending'[o] = Times
      BY <1>1, <1>3
    <2>2. sending' = [o \in RemoteIps |-> sending'[o]]
      BY <1>1, <1>3
    <2>3. \A o \in RemoteIps : sending'[o] = [t \in Times |-> sending'[o][t]]
      BY <1>1, <1>3
    <2>4. \A o \in RemoteIps : sending'[o] \in [Times -> 0..MaxFailures]
      BY <1>5, <2>3
    <2> QED  BY <2>2, <2>4
  <1>7. SendingInv'
    BY <1>1, <1>4, <1>5, <1>6 DEF SendingInv, Scripts
  <1>8. faults' \in 0..MaxFaults
    BY <1>1, PartsOf DEF RestInv
  <1> QED  BY <1>1, <1>2, <1>7, <1>8, SameRedis, SameCheck, FewerDeletes, RemoteRest, NextParts
           DEF Keeps

LEMMA RecordedKeeps ==
    ASSUME IInv, remote, remote' = remote, NEW ip \in RemoteIps, NEW at \in Times,
           Recorded(ip, at)
    PROVE  Keeps
  <1>1. /\ sending[ip][at] > 0 /\ sending' = [sending EXCEPT ![ip][at] = @ - 1]
        /\ check' = check /\ deletes' = deletes /\ sent' = sent
    BY DEF Recorded
  <1>2. PICK executed \in BOOLEAN, failed \in BOOLEAN :
          /\ Outcome(executed, failed)
          /\ IF executed THEN Script(ip, at) ELSE UNCHANGED redis
          /\ IF failed THEN RecordAuthFailure(ip) ELSE UNCHANGED vars
    BY DEF Recorded
  <1>3. ip \in Ips
    BY RemoteBounds
  <1>4. LocalInv' /\ LocalHolds /\ now' = now
    <2>1. CASE failed
      BY <1>2, <1>3, <2>1, RecordStep, PartsOf DEF RecordAuthFailure
    <2>2. CASE ~failed
      BY <1>2, <2>2, LocalStep, PartsOf DEF vars
    <2> QED  BY <2>1, <2>2
  <1>5. /\ sending \in [RemoteIps -> [Times -> 0..MaxFailures]] /\ sent \in 0..MaxFailures
        /\ now \in Times /\ now \in Nat
        /\ \A o \in RemoteIps, t \in Times :
             /\ sending[o][t] <= sent
             /\ sending[o][t] > 0 => t <= now /\ now <= t + Delay
    BY PartsOf, TypedHash DEF SendingInv, Scripts
  <1>6. ASSUME NEW o \in RemoteIps, NEW t \in Times
        PROVE  /\ sending'[o][t] \in 0..MaxFailures /\ sending'[o][t] <= sent'
               /\ sending'[o][t] > 0 => t <= now /\ now <= t + Delay
    <2>1. sending[o] \in [Times -> 0..MaxFailures] /\ sending[o][t] \in 0..MaxFailures
      BY <1>5
    <2>2. sending'[o][t] = IF o = ip /\ t = at THEN sending[o][t] - 1 ELSE sending[o][t]
      BY <1>1, <1>5, <2>1
    <2> QED  BY <1>1, <1>5, <2>1, <2>2, TimesAre
  <1>7. sending' \in [RemoteIps -> [Times -> 0..MaxFailures]]
    <2>1. sending' = [o \in RemoteIps |-> sending'[o]]
      BY <1>1, <1>5
    <2>2. \A o \in RemoteIps : sending'[o] = [t \in Times |-> sending'[o][t]]
      BY <1>1, <1>5
    <2>3. \A o \in RemoteIps : sending'[o] \in [Times -> 0..MaxFailures]
      BY <1>6, <2>2
    <2> QED  BY <2>1, <2>3
  <1>8. SendingInv'
    BY <1>1, <1>4, <1>5, <1>6, <1>7 DEF SendingInv, Scripts
  <1>9. RestInv'
    BY <1>2, OutcomeIs, RemoteRest
  <1>10. CASE executed
    <2>1. Script(ip, at)
      BY <1>2, <1>10
    <2>2. PICK S : /\ hash' = [hash EXCEPT ![ip] = S] /\ Left(ip, at, S)
                   /\ \A h \in hash[ip] : now < h.bannedUntil =>
                        \E kept \in S : kept.bannedUntil >= h.bannedUntil - Delay
      BY <1>1, <2>1, ScriptLeaves
    <2>3. RedisInv' /\ CheckInv' /\ DeletesInv'
      BY <1>1, <1>4, <1>5, <2>2, HashChanges
    <2>4. ASSUME NEW o \in RemoteIps, NEW h \in hash[o], now' < h.bannedUntil
          PROVE  \E kept \in hash'[o] : kept.bannedUntil >= h.bannedUntil - Delay
      <3>1. hash \in [RemoteIps -> SUBSET Hashes]
        BY PartsOf DEF RedisInv
      <3>2. CASE o = ip
        <4>1. hash'[ip] = S
          BY <2>2, <3>1
        <4> QED  BY <1>4, <2>2, <2>4, <3>2, <4>1
      <3>3. CASE o # ip
        <4>1. hash'[o] = hash[o]
          BY <2>2, <3>1, <3>3
        <4>2. h.bannedUntil >= h.bannedUntil - Delay
          BY TypedHash, TimesAre
        <4> QED  BY <4>1, <4>2
      <3> QED  BY <3>2, <3>3
    <2>5. RemoteHolds
      BY <2>4 DEF RemoteHolds
    <2> QED  BY <1>4, <1>8, <1>9, <2>3, <2>5, NextParts DEF Keeps
  <1>11. CASE ~executed
    <2>1. hash' = hash
      BY <1>2, <1>11 DEF redis
    <2> QED  BY <1>1, <1>4, <1>8, <1>9, <2>1, SameRedis, SameCheck, FewerDeletes, NextParts
             DEF Keeps
  <1> QED  BY <1>10, <1>11

(* The steps of a check, which leave the hashes and the scripts alone.       *)
LEMMA CheckStepKeeps ==
    ASSUME IInv, remote, remote' = remote, hash' = hash, now' = now, sending' = sending,
           sent' = sent, LocalInv', LocalHolds, CheckInv', DeletesInv', faults' \in 0..MaxFaults
    PROVE  Keeps
  BY SameRedis, SameSending, RemoteRest, NextParts DEF Keeps

LEMMA CheckKeeps ==
    ASSUME IInv, remote, remote' = remote, NEW ip \in RemoteIps, Check(ip)
    PROVE  Keeps
  <1>1. /\ check' = [check EXCEPT ![ip] = [at |-> now, answer |-> -1]]
        /\ hash' = hash /\ now' = now /\ sending' = sending /\ deletes' = deletes
        /\ sent' = sent /\ faults' = faults /\ UNCHANGED vars
    BY DEF Check, redis, vars
  <1>2. LocalInv' /\ LocalHolds
    BY <1>1, LocalStep, PartsOf
  <1>3. check \in [RemoteIps -> Checks \union {NoCheck}] /\ now \in Times /\ now \in Nat
    BY PartsOf, TypedHash DEF CheckInv
  <1>4. [at |-> now, answer |-> -1] \in Checks
    BY <1>3, TimesAre DEF Checks
  <1>5. /\ check' \in [RemoteIps -> Checks \union {NoCheck}]
        /\ check'[ip].at = now /\ check'[ip].answer = -1
        /\ \A o \in RemoteIps : o # ip => check'[o] = check[o]
    BY <1>1, <1>3, <1>4
  <1>6. ASSUME NEW o \in RemoteIps, check'[o] # NoCheck
        PROVE  /\ check'[o].at <= now /\ now <= check'[o].at + Delay
               /\ check'[o].answer >= 0 =>
                    \A h \in hash[o] : AsRead(h, check'[o].answer, check'[o].at - Delay)
    <2>1. CASE o = ip
      <3>1. ~(-1 >= 0)
        OBVIOUS
      <3> QED  BY <1>3, <1>5, <2>1, <3>1, TimesAre
    <2>2. CASE o # ip
      BY <1>5, <1>6, <2>2 DEF IInv, Answered
    <2> QED  BY <2>1, <2>2
  <1>7. CheckInv'
    BY <1>1, <1>5, <1>6 DEF CheckInv, Answered, AsRead
  <1>8. faults' \in 0..MaxFaults /\ DeletesInv'
    BY <1>1, PartsOf, FewerDeletes DEF RestInv
  <1> QED  BY <1>1, <1>2, <1>7, <1>8, CheckStepKeeps

LEMMA HashReadKeeps ==
    ASSUME IInv, remote, remote' = remote, NEW ip \in RemoteIps, HashRead(ip)
    PROVE  Keeps
  <1> DEFINE answer == IF hash[ip] = {} THEN 0 ELSE Read(ip, now).bannedUntil
  <1>1. /\ check[ip] # NoCheck
        /\ check' = [check EXCEPT ![ip].answer = answer]
        /\ hash' = hash /\ now' = now /\ sending' = sending /\ deletes' = deletes
        /\ sent' = sent /\ faults' = faults /\ UNCHANGED vars
    BY DEF HashRead, redis, vars
  <1>2. LocalInv' /\ LocalHolds
    BY <1>1, LocalStep, PartsOf
  <1>3. check \in [RemoteIps -> Checks \union {NoCheck}] /\ check[ip] \in Checks
    BY <1>1, PartsOf DEF CheckInv
  <1>4. /\ answer \in 0..(MaxTime + BanDuration)
        /\ \A h \in hash[ip] : h.bannedUntil \in Nat /\ h.bannedUntil = answer
    <2>1. CASE hash[ip] = {}
      BY <2>1, TimesAre
    <2>2. CASE hash[ip] # {}
      <3>1. Read(ip, now) \in hash[ip]
        BY <2>2 DEF Read
      <3>2. answer = Read(ip, now).bannedUntil
        BY <2>2
      <3> HIDE DEF answer
      <3> QED  BY <3>1, <3>2, TypedHash, TimesAre
    <2> QED  BY <2>1, <2>2
  <1> HIDE DEF answer
  <1>5. /\ [check[ip] EXCEPT !.answer = answer] \in Checks
        /\ [check[ip] EXCEPT !.answer = answer].at = check[ip].at
        /\ [check[ip] EXCEPT !.answer = answer].answer = answer
    <2>1. answer \in -1..(MaxTime + BanDuration)
      BY <1>4, TimesAre
    <2> QED  BY <1>3, <2>1 DEF Checks
  <1>6. /\ check' \in [RemoteIps -> Checks \union {NoCheck}]
        /\ check'[ip].at = check[ip].at /\ check'[ip].answer = answer
        /\ \A o \in RemoteIps : o # ip => check'[o] = check[o]
    BY <1>1, <1>3, <1>5
  <1>7. ASSUME NEW o \in RemoteIps, check'[o] # NoCheck
        PROVE  /\ check'[o].at <= now /\ now <= check'[o].at + Delay
               /\ check'[o].answer >= 0 =>
                    \A h \in hash[o] : AsRead(h, check'[o].answer, check'[o].at - Delay)
    <2>1. CASE o = ip
      <3>1. \A h \in hash[ip] : h.bannedUntil <= answer
        BY <1>4
      <3> QED  BY <1>1, <1>6, <2>1, <3>1, TypedCheck DEF AsRead
    <2>2. CASE o # ip
      BY <1>6, <1>7, <2>2 DEF IInv, Answered
    <2> QED  BY <2>1, <2>2
  <1>8. CheckInv'
    BY <1>1, <1>6, <1>7 DEF CheckInv, Answered, AsRead
  <1>9. faults' \in 0..MaxFaults /\ DeletesInv'
    BY <1>1, PartsOf, FewerDeletes DEF RestInv
  <1> QED  BY <1>1, <1>2, <1>8, <1>9, CheckStepKeeps

(* A check that ends.                                                        *)
LEMMA CheckEnds ==
    ASSUME IInv, NEW ip \in RemoteIps, check' = [check EXCEPT ![ip] = NoCheck],
           hash' = hash, now' = now
    PROVE  CheckInv'
  <1>1. check \in [RemoteIps -> Checks \union {NoCheck}]
    BY PartsOf DEF CheckInv
  <1>2. /\ check' \in [RemoteIps -> Checks \union {NoCheck}] /\ check'[ip] = NoCheck
        /\ \A o \in RemoteIps : o # ip => check'[o] = check[o]
    BY <1>1
  <1>3. ASSUME NEW o \in RemoteIps, check'[o] # NoCheck
        PROVE  /\ check'[o].at <= now /\ now <= check'[o].at + Delay
               /\ check'[o].answer >= 0 =>
                    \A h \in hash[o] : AsRead(h, check'[o].answer, check'[o].at - Delay)
    <2>1. check'[o] = check[o]
      BY <1>2, <1>3
    <2> QED  BY <1>3, <2>1 DEF IInv, Answered
  <1> QED  BY <1>2, <1>3 DEF CheckInv, Answered, AsRead

LEMMA CheckedKeeps ==
    ASSUME IInv, remote, remote' = remote, NEW ip \in RemoteIps, Checked(ip)
    PROVE  Keeps
  <1>1. /\ check[ip] # NoCheck /\ check[ip].answer >= 0
        /\ check' = [check EXCEPT ![ip] = NoCheck]
        /\ deletes' = IF DeletesBan(check[ip].answer)
                        THEN deletes \union {[ip |-> ip, at |-> now]} ELSE deletes
        /\ hash' = hash /\ now' = now /\ sending' = sending
        /\ sent' = sent /\ faults' = faults /\ UNCHANGED vars
    BY DEF Checked, redis, vars
  <1>2. LocalInv' /\ LocalHolds
    BY <1>1, LocalStep, PartsOf
  <1>3. CheckInv'
    BY <1>1, CheckEnds
  <1>4. DeletesInv'
    <2>1. CASE ~DeletesBan(check[ip].answer)
      BY <1>1, <2>1, FewerDeletes
    <2>2. CASE DeletesBan(check[ip].answer)
      <3> DEFINE new == [ip |-> ip, at |-> now]
      <3>1. /\ check[ip].at \in Nat /\ check[ip].answer \in Nat
            /\ check[ip].answer <= now
            /\ check[ip].at <= now /\ now <= check[ip].at + Delay
            /\ now \in Nat /\ now \in Times
        BY <1>1, <2>2, TypedCheck, TypedHash DEF DeletesBan
      <3>2. \A h \in hash[ip] : h.bannedUntil \in Nat
                                /\ AsRead(h, check[ip].answer, check[ip].at - Delay)
        BY <1>1, TypedHash DEF IInv, Answered
      <3>3. \A h \in hash[ip] : AsRead(h, now, now - 2 * Delay)
        BY <3>1, <3>2, TimesAre DEF AsRead
      <3>4. new \in [ip : RemoteIps, at : Times] /\ new.ip = ip /\ new.at = now
        BY <3>1
      <3>5. deletes' = deletes \union {new}
        BY <1>1, <2>2
      <3> HIDE DEF new
      <3>6. deletes' \subseteq [ip : RemoteIps, at : Times]
        BY <3>4, <3>5, PartsOf DEF DeletesInv
      <3>7. ASSUME NEW d \in deletes'
            PROVE  /\ d.at <= now /\ now <= d.at + Delay
                   /\ \A h \in hash[d.ip] : AsRead(h, d.at, d.at - 2 * Delay)
        <4>1. CASE d = new
          BY <3>1, <3>3, <3>4, <4>1, TimesAre
        <4>2. CASE d \in deletes
          BY <4>2, TypedDelete
        <4> QED  BY <3>5, <3>7, <4>1, <4>2
      <3> QED  BY <1>1, <3>6, <3>7 DEF DeletesInv, Deletions, AsRead
    <2> QED  BY <2>1, <2>2
  <1>5. faults' \in 0..MaxFaults
    BY <1>1, PartsOf DEF RestInv
  <1> QED  BY <1>1, <1>2, <1>3, <1>4, <1>5, CheckStepKeeps

LEMMA CheckFailsKeeps ==
    ASSUME IInv, remote, remote' = remote, NEW ip \in RemoteIps, CheckFails(ip)
    PROVE  Keeps
  <1>1. /\ check' = [check EXCEPT ![ip] = NoCheck] /\ Outcome(FALSE, TRUE)
        /\ IF BanExpired(ip) THEN IsAuthBanned(ip) ELSE UNCHANGED vars
        /\ hash' = hash /\ sending' = sending /\ deletes' = deletes /\ sent' = sent
    BY DEF CheckFails, redis
  <1>2. ip \in Ips
    BY RemoteBounds
  <1>3. LocalInv' /\ LocalHolds /\ now' = now
    <2>1. CASE BanExpired(ip)
      BY <1>1, <1>2, <2>1, IsAuthBannedStep, PartsOf DEF IsAuthBanned
    <2>2. CASE ~BanExpired(ip)
      BY <1>1, <2>2, LocalStep, PartsOf DEF vars
    <2> QED  BY <2>1, <2>2
  <1>4. CheckInv' /\ DeletesInv'
    BY <1>1, <1>3, CheckEnds, FewerDeletes
  <1>5. faults' \in 0..MaxFaults
    BY <1>1, OutcomeIs
  <1> QED  BY <1>1, <1>3, <1>4, <1>5, CheckStepKeeps

(* A DEL that passes a script may lift its ban, if that is young.            *)
LEMMA DeletedKeeps ==
    ASSUME IInv, remote, remote' = remote, NEW d \in deletes, Deleted(d)
    PROVE  Keeps
  <1>1. /\ deletes' = deletes \ {d} /\ hash' = [hash EXCEPT ![d.ip] = {}]
        /\ now' = now /\ sending' = sending /\ check' = check
        /\ sent' = sent /\ faults' = faults /\ UNCHANGED vars
    BY DEF Deleted, vars
  <1>2. LocalInv' /\ LocalHolds
    BY <1>1, LocalStep, PartsOf
  <1>3. /\ d.ip \in RemoteIps /\ d.at \in Nat /\ d.at <= now /\ now <= d.at + Delay
        /\ \A h \in hash[d.ip] : AsRead(h, d.at, d.at - 2 * Delay)
    BY TypedDelete
  <1>4. now \in Nat /\ now \in Times
    BY <1>3, TypedHash
  <1>5. RedisInv' /\ CheckInv' /\ DeletesInv'
    <2>1. Left(d.ip, now, {})
      BY DEF Left
    <2>2. now <= now /\ now <= now + Delay
      BY <1>4, TimesAre
    <2> QED  BY <1>1, <1>3, <1>4, <2>1, <2>2, HashChanges
  <1>6. SendingInv'
    BY <1>1, SameSending
  <1>7. RestInv'
    <2>1. faults' \in 0..MaxFaults
      BY <1>1, PartsOf DEF RestInv
    <2> QED  BY <2>1, RemoteRest
  <1>8. ASSUME NEW o \in RemoteIps, NEW h \in hash[o], now' < h.bannedUntil
        PROVE  \/ \E kept \in hash'[o] : kept.bannedUntil >= h.bannedUntil - Delay
               \/ now <= h.bannedUntil - BanDuration + 3 * Delay /\ deletes' # deletes
    <2>1. h.bannedUntil \in Nat
      BY TypedHash
    <2>2. CASE o = d.ip
      <3>1. AsRead(h, d.at, d.at - 2 * Delay)
        BY <1>3, <2>2
      <3>2. h.bannedUntil >= d.at - 2 * Delay + BanDuration
        BY <1>1, <1>3, <1>4, <1>8, <2>1, <3>1 DEF AsRead
      <3>3. now <= h.bannedUntil - BanDuration + 3 * Delay
        BY <1>3, <1>4, <2>1, <3>2, TimesAre
      <3>4. deletes' # deletes
        BY <1>1
      <3> QED  BY <3>3, <3>4
    <2>3. CASE o # d.ip
      <3>1. hash'[o] = hash[o]
        BY <1>1, <1>3, <2>3, PartsOf DEF RedisInv
      <3>2. h.bannedUntil >= h.bannedUntil - Delay
        BY <2>1, TimesAre
      <3> QED  BY <3>1, <3>2
    <2> QED  BY <2>2, <2>3
  <1>9. RemoteHolds
    BY <1>8 DEF RemoteHolds
  <1> QED  BY <1>2, <1>5, <1>6, <1>7, <1>9, NextParts DEF Keeps

LEMMA DeleteFailsKeeps ==
    ASSUME IInv, remote, remote' = remote, NEW d \in deletes, DeleteFails(d)
    PROVE  Keeps
  <1>1. /\ deletes' = deletes \ {d} /\ Outcome(FALSE, TRUE)
        /\ hash' = hash /\ now' = now /\ sending' = sending /\ check' = check
        /\ sent' = sent /\ UNCHANGED vars
    BY DEF DeleteFails, redis, vars
  <1>2. LocalInv' /\ LocalHolds
    BY <1>1, LocalStep, PartsOf
  <1>3. faults' \in 0..MaxFaults
    BY <1>1, OutcomeIs
  <1>4. CheckInv' /\ DeletesInv'
    BY <1>1, SameCheck, FewerDeletes
  <1> QED  BY <1>1, <1>2, <1>3, <1>4, CheckStepKeeps

LEMMA RemoteTickKeeps ==
    ASSUME IInv, remote, remote' = remote, RemoteTick
    PROVE  Keeps
  <1>1. /\ \A ip \in RemoteIps :
              /\ check[ip] # NoCheck => ~(now >= check[ip].at + Delay)
              /\ \A t \in Times : sending[ip][t] > 0 => ~(now >= t + Delay)
        /\ \A d \in deletes : ~(now >= d.at + Delay)
    BY DEF RemoteTick, Overdue
  <1>2. /\ hash' = [ip \in RemoteIps |-> {h \in hash[ip] : h.expires > now'}]
        /\ sending' = sending /\ check' = check /\ deletes' = deletes
        /\ sent' = sent /\ faults' = faults /\ Tick
    BY DEF RemoteTick, calls
  <1>3. LocalInv' /\ LocalHolds
    BY <1>2, TickStep, PartsOf
  <1>4. now' = now + 1 /\ now \in Nat /\ now' \in Times
    BY <1>2, <1>3, PartsOf, TypedMap, TimesAre DEF Tick, LocalInv, TypeOK
  <1>5. /\ hash \in [RemoteIps -> SUBSET Hashes]
        /\ \A ip \in RemoteIps : \A h \in hash[ip] :
             /\ h.ip = ip /\ h.bannedUntil \in Nat /\ h.expires \in Nat
             /\ h.bannedUntil <= now + BanDuration
             /\ h.bannedUntil > 0 => h.expires >= h.bannedUntil
    BY PartsOf, TypedHash DEF RedisInv
  <1>6. \A ip \in RemoteIps :
          /\ hash'[ip] \subseteq hash[ip]
          /\ \A h \in hash'[ip] : h.expires > now'
          /\ \A h \in hash[ip] : h.expires > now' => h \in hash'[ip]
    BY <1>2
  <1>7. RedisInv'
    <2>1. hash' \in [RemoteIps -> SUBSET Hashes]
      BY <1>2, <1>5
    <2>2. ASSUME NEW ip \in RemoteIps
          PROVE  /\ \A g, h \in hash'[ip] : g = h
                 /\ \A h \in hash'[ip] :
                      /\ h.ip = ip /\ h.expires > now'
                      /\ h.bannedUntil <= now' + BanDuration
                      /\ h.bannedUntil > 0 => h.expires >= h.bannedUntil
      <3>1. \A g, h \in hash[ip] : g = h
        BY TypedHash
      <3> QED  BY <1>4, <1>5, <1>6, <3>1, TimesAre
    <2> QED  BY <2>1, <2>2 DEF RedisInv, Bans
  <1>8. SendingInv'
    <2>1. ASSUME NEW ip \in RemoteIps, NEW t \in Times, sending[ip][t] > 0
          PROVE  t <= now' /\ now' <= t + Delay
      <3>1. t <= now /\ ~(now >= t + Delay) /\ t \in Nat
        BY <1>1, <2>1, PartsOf, TimesAre DEF SendingInv, Scripts
      <3> QED  BY <1>4, <3>1, TimesAre
    <2> QED  BY <1>2, <2>1, PartsOf DEF SendingInv, Scripts
  <1>9. CheckInv'
    <2>1. ASSUME NEW ip \in RemoteIps, check[ip] # NoCheck
          PROVE  /\ check[ip].at <= now' /\ now' <= check[ip].at + Delay
                 /\ check[ip].answer >= 0 =>
                      \A h \in hash'[ip] : AsRead(h, check[ip].answer, check[ip].at - Delay)
      <3>1. /\ check[ip].at \in Nat /\ check[ip].at <= now
            /\ ~(now >= check[ip].at + Delay)
        BY <1>1, <2>1, TypedCheck
      <3>2. check[ip].at <= now' /\ now' <= check[ip].at + Delay
        BY <1>4, <3>1, TimesAre
      <3>3. check[ip].answer >= 0 =>
              \A h \in hash[ip] : AsRead(h, check[ip].answer, check[ip].at - Delay)
        BY <2>1 DEF IInv, Answered
      <3> QED  BY <1>6, <3>2, <3>3
    <2> QED  BY <1>2, <2>1, PartsOf DEF CheckInv, Answered, AsRead
  <1>10. DeletesInv'
    <2>1. ASSUME NEW d \in deletes
          PROVE  /\ d.at <= now' /\ now' <= d.at + Delay
                 /\ \A h \in hash'[d.ip] : AsRead(h, d.at, d.at - 2 * Delay)
      <3>1. /\ d.ip \in RemoteIps /\ d.at \in Nat /\ d.at <= now
            /\ ~(now >= d.at + Delay)
            /\ \A h \in hash[d.ip] : AsRead(h, d.at, d.at - 2 * Delay)
        BY <1>1, TypedDelete
      <3>2. d.at <= now' /\ now' <= d.at + Delay
        BY <1>4, <3>1, TimesAre
      <3> QED  BY <1>6, <3>1, <3>2
    <2> QED  BY <1>2, <2>1, PartsOf DEF DeletesInv, Deletions, AsRead
  <1>11. RestInv'
    BY <1>2, PartsOf, RemoteRest DEF RestInv
  <1>12. ASSUME NEW ip \in RemoteIps, NEW h \in hash[ip], now' < h.bannedUntil
         PROVE  \E kept \in hash'[ip] : kept.bannedUntil >= h.bannedUntil - Delay
    <2>1. h.expires > now' /\ h.bannedUntil >= h.bannedUntil - Delay
      BY <1>4, <1>5, <1>12, TimesAre
    <2>2. h \in hash'[ip]
      BY <1>6, <2>1
    <2> QED  BY <2>1, <2>2
  <1>13. RemoteHolds
    BY <1>12 DEF RemoteHolds
  <1> QED  BY <1>3, <1>7, <1>8, <1>9, <1>10, <1>11, <1>13, NextParts DEF Keeps

(* Without a remote store Redis is not used.                                 *)
LEMMA LocalOnlyKeeps ==
    ASSUME IInv, ~remote, remote' = remote, Next, UNCHANGED <<redis, calls>>
    PROVE  Keeps
  <1>1. /\ hash' = hash /\ sending' = sending /\ check' = check /\ deletes' = deletes
        /\ sent' = sent /\ faults' = faults
    BY DEF redis, calls
  <1>2. LocalInv' /\ LocalHolds
    BY LocalStep, PartsOf
  <1>3. /\ deletes = {}
        /\ \A ip \in RemoteIps :
             /\ hash[ip] = {} /\ check[ip] = NoCheck
             /\ \A t \in Times : sending[ip][t] = 0
    BY DEF IInv, Unused
  <1>4. RedisInv' /\ RemoteHolds
    BY <1>1, <1>3, PartsOf DEF RedisInv, Bans, RemoteHolds
  <1>5. SendingInv'
    <2>1. \A ip \in RemoteIps, t \in Times : ~(sending[ip][t] > 0)
      BY <1>3
    <2> QED  BY <1>1, <2>1, PartsOf DEF SendingInv, Scripts
  <1>6. CheckInv'
    BY <1>1, <1>3, PartsOf DEF CheckInv, Answered
  <1>7. DeletesInv'
    BY <1>1, <1>3, PartsOf DEF DeletesInv, Deletions
  <1>8. RestInv'
    BY <1>1, PartsOf DEF RestInv, Unused
  <1> QED  BY <1>2, <1>4, <1>5, <1>6, <1>7, <1>8, NextParts DEF Keeps

LEMMA StutterKeeps ==
    ASSUME IInv, UNCHANGED allVars
    PROVE  Keeps
  <1>1. /\ hash' = hash /\ sending' = sending /\ check' = check /\ deletes' = deletes
        /\ sent' = sent /\ faults' = faults /\ remote' = remote /\ UNCHANGED vars
        /\ now' = now
    BY DEF allVars, redis, calls, vars
  <1>2. LocalInv' /\ LocalHolds
    BY <1>1, LocalStep, PartsOf
  <1>3. RestInv'
    BY <1>1, PartsOf DEF RestInv, Unused
  <1> QED  BY <1>1, <1>2, <1>3, SameRedis, SameSending, SameCheck, FewerDeletes, NextParts
           DEF Keeps

LEMMA StoreStep ==
    ASSUME IInv, [StoreNext]_allVars
    PROVE  Keeps
  <1>1. CASE UNCHANGED allVars
    BY <1>1, StutterKeeps
  <1>2. CASE StoreNext /\ ~remote
    BY <1>2, LocalOnlyKeeps DEF StoreNext
  <1>3. CASE StoreNext /\ remote
    <2>1. remote' = remote /\ RemoteNext
      BY <1>3 DEF StoreNext
    <2>2. ASSUME NEW ip \in RemoteIps, Record(ip)  PROVE Keeps
      BY <1>3, <2>1, <2>2, RecordKeeps
    <2>3. ASSUME NEW ip \in RemoteIps, NEW t \in Times, Recorded(ip, t)  PROVE Keeps
      BY <1>3, <2>1, <2>3, RecordedKeeps
    <2>4. ASSUME NEW ip \in RemoteIps, Check(ip)  PROVE Keeps
      BY <1>3, <2>1, <2>4, CheckKeeps
    <2>5. ASSUME NEW ip \in RemoteIps, HashRead(ip)  PROVE Keeps
      BY <1>3, <2>1, <2>5, HashReadKeeps
    <2>6. ASSUME NEW ip \in RemoteIps, Checked(ip)  PROVE Keeps
      BY <1>3, <2>1, <2>6, CheckedKeeps
    <2>7. ASSUME NEW ip \in RemoteIps, CheckFails(ip)  PROVE Keeps
      BY <1>3, <2>1, <2>7, CheckFailsKeeps
    <2>8. ASSUME NEW d \in deletes, Deleted(d)  PROVE Keeps
      BY <1>3, <2>1, <2>8, DeletedKeeps
    <2>9. ASSUME NEW d \in deletes, DeleteFails(d)  PROVE Keeps
      BY <1>3, <2>1, <2>9, DeleteFailsKeeps
    <2>10. CASE RemoteTick
      BY <1>3, <2>1, <2>10, RemoteTickKeeps
    <2> QED  BY <2>1, <2>2, <2>3, <2>4, <2>5, <2>6, <2>7, <2>8, <2>9, <2>10 DEF RemoteNext
  <1> QED  BY <1>1, <1>2, <1>3

LEMMA InitEstablishes ==
    ASSUME RemoteInit
    PROVE  IInv
  <1>1. /\ now = 1 /\ authFailures = <<>> /\ recorded = 0
        /\ failures = [ip \in Ips |-> [t \in Times |-> 0]]
        /\ remote \in BOOLEAN /\ deletes = {} /\ sent = 0 /\ faults = 0
        /\ hash = [ip \in RemoteIps |-> {}]
        /\ sending = [ip \in RemoteIps |-> [t \in Times |-> 0]]
        /\ check = [ip \in RemoteIps |-> NoCheck]
    BY DEF RemoteInit, Init, None
  <1>2. LocalInv
    <2>1. now \in Times /\ recorded \in 0..MaxFailures /\ 0 \in 0..MaxFailures
      BY <1>1 DEF Times
    <2>2. authFailures \in Seq(Records) /\ DOMAIN authFailures = {} /\ Len(authFailures) = 0
      BY <1>1
    <2>3. failures \in [Ips -> [Times -> 0..MaxFailures]]
      BY <1>1, <2>1
    <2>4. \A ip \in Ips, t \in Times : failures[ip][t] <= recorded
      BY <1>1
    <2>5. Len(authFailures) <= MaxEntries
      BY <2>2
    <2> QED  BY <2>1, <2>2, <2>3, <2>4, <2>5 DEF LocalInv, TypeOK
  <1>3. RedisInv
    BY <1>1 DEF RedisInv, Bans
  <1>4. SendingInv
    BY <1>1 DEF SendingInv, Scripts
  <1>5. CheckInv
    BY <1>1 DEF CheckInv, Answered
  <1>6. DeletesInv
    BY <1>1 DEF DeletesInv, Deletions
  <1>7. RestInv
    BY <1>1 DEF RestInv, Unused
  <1> QED  BY <1>2, <1>3, <1>4, <1>5, <1>6, <1>7, Parts
----------------------------------------------------------------------------
(* The strengthening of the properties below is inductive.                   *)
THEOREM AlwaysIInv == StoreSpec => []IInv
  <1>1. RemoteInit => IInv
    BY InitEstablishes
  <1>2. IInv /\ [StoreNext]_allVars => IInv'
    BY StoreStep DEF Keeps
  <1> QED  BY <1>1, <1>2, PTL DEF StoreSpec

(* The records of the Map and of Redis, and the commands on their way, are   *)
(* of their types: one record for an IP, at most MaxEntries in the Map.      *)
THEOREM TypeCorrect == StoreSpec => []RemoteTypeOK
  <1>1. IInv => RemoteTypeOK
    BY DEF IInv
  <1> QED  BY <1>1, AlwaysIInv, PTL

(* No call lifts or shortens a ban that has not ended, but the loss of the   *)
(* oldest record of a full Map; in Redis a script that is late, by at most   *)
(* the Delay, and a DEL on its way when the ban was set, for a ban younger   *)
(* than three of them.                                                       *)
THEOREM BansLast == StoreSpec => BansHold
  <1>1. IInv /\ [StoreNext]_allVars =>
          [\A r \in ToSet(authFailures) :
             now' < r.bannedUntil =>
                 \/ \E kept \in Of(authFailures', r.ip) : kept.bannedUntil >= r.bannedUntil
                 \/ /\ Len(authFailures) = MaxEntries /\ r = Head(authFailures)
                    /\ \E ip \in Ips \ {r.ip} : Of(authFailures, ip) = {}
                                              /\ Of(authFailures', ip) # {}]_vars
    BY StoreStep DEF Keeps, LocalHolds, Lost
  <1>2. IInv /\ [StoreNext]_allVars =>
          [\A ip \in RemoteIps : \A h \in hash[ip] :
             now' < h.bannedUntil =>
               \/ \E kept \in hash'[ip] : kept.bannedUntil >= h.bannedUntil - Delay
               \/ now <= h.bannedUntil - BanDuration + 3 * Delay
                  /\ deletes' # deletes]_allVars
    BY StoreStep DEF Keeps, RemoteHolds
  <1> QED  BY <1>1, <1>2, AlwaysIInv, PTL DEF StoreSpec, BansHold, BanHolds
----------------------------------------------------------------------------
(* What a record says of the failures f of its IP at a time: those it counts *)
(* are of its window, and those its ban is for of the window before the ban, *)
(* give or take what a script may be early.                                  *)
Near(s, early) == {u \in Times : s - early <= u /\ u <= s + Window}
Around(t, early) == {u \in Times : t - Window - early <= u /\ u <= t + early}
CountedBy(f, r, early, clock) ==
    /\ r.windowStart <= clock
    /\ r.count <= SumFunctionOnSet(f, Near(r.windowStart, early))
    /\ r.bannedUntil # 0 =>
         SumFunctionOnSet(f, Around(r.bannedUntil - BanDuration, early)) >= Threshold
Past(f, clock) == \A t \in Times : f[t] > 0 => t <= clock

LEMMA TimeSets ==
    ASSUME NEW S, S \subseteq Times
    PROVE  IsFiniteSet(S)
  <1>1. IsFiniteSet(Times)
    BY FS_Interval, TimesAre DEF Times
  <1> QED  BY <1>1, FS_Subset

LEMMA SumOfTimes ==
    ASSUME NEW f \in [Times -> Nat], NEW S, S \subseteq Times
    PROVE  SumFunctionOnSet(f, S) \in Nat
  <1>1. IsFiniteSet(S)
    BY TimeSets
  <1> QED  BY <1>1, SumNat

(* A failure, by the fields of the record before and after.                  *)
Fails(r, w, at) ==
    /\ w.ip = r.ip
    /\ at - r.windowStart > Window => w.count = 1 /\ w.windowStart = at
    /\ ~(at - r.windowStart > Window) =>
         w.count = r.count + 1 /\ w.windowStart = r.windowStart
    /\ w.bannedUntil = IF w.count >= Threshold THEN at + BanDuration ELSE r.bannedUntil
Numbers(r) == r.count \in Nat /\ r.windowStart \in Times /\ r.bannedUntil \in Nat

LEMMA FailureFields ==
    ASSUME NEW r, r \in Records \/ r \in Hashes, NEW at \in Times
    PROVE  Fails(r, WithFailure(r, at), at) /\ Numbers(r)
  <1> DEFINE c == Counted(r, at)
  <1>1. /\ c \in Records \/ c \in Hashes
        /\ c.ip = r.ip /\ c.bannedUntil = r.bannedUntil
        /\ at - r.windowStart > Window => c.count = 1 /\ c.windowStart = at
        /\ ~(at - r.windowStart > Window) =>
             c.count = r.count + 1 /\ c.windowStart = r.windowStart
    <2>1. LET b == [r EXCEPT !.count = 1, !.windowStart = at]
          IN  /\ b \in Records \/ b \in Hashes
              /\ b.ip = r.ip /\ b.bannedUntil = r.bannedUntil /\ b.count = 1
              /\ b.windowStart = at
      BY DEF Records, Hashes
    <2>2. LET b == [r EXCEPT !.count = @ + 1]
          IN  /\ b \in Records \/ b \in Hashes
              /\ b.ip = r.ip /\ b.bannedUntil = r.bannedUntil /\ b.count = r.count + 1
              /\ b.windowStart = r.windowStart
      BY DEF Records, Hashes
    <2> QED  BY <2>1, <2>2 DEF Counted
  <1> HIDE DEF c
  <1>2. LET b == [c EXCEPT !.bannedUntil = at + BanDuration]
        IN  /\ b.ip = c.ip /\ b.bannedUntil = at + BanDuration
            /\ b.count = c.count /\ b.windowStart = c.windowStart
    BY <1>1 DEF Records, Hashes
  <1>3. WithFailure(r, at) = IF c.count >= Threshold
                               THEN [c EXCEPT !.bannedUntil = at + BanDuration] ELSE c
    BY DEF WithFailure, BannedIfEnough, c
  <1>4. Numbers(r)
    BY TimesAre DEF Numbers, Records, Hashes
  <1> QED  BY <1>1, <1>2, <1>3, <1>4 DEF Fails

(* One more failure keeps what the record says.                              *)
LEMMA FailureCounts ==
    ASSUME NEW f \in [Times -> Nat], NEW r, NEW w, NEW at \in Times, Fails(r, w, at),
           Numbers(r), NEW early \in Nat, NEW clock \in Nat, at <= clock,
           clock <= at + early, Past(f, clock), CountedBy(f, r, early, clock)
    PROVE  /\ [f EXCEPT ![at] = @ + 1] \in [Times -> Nat]
           /\ Past([f EXCEPT ![at] = @ + 1], clock)
           /\ CountedBy([f EXCEPT ![at] = @ + 1], w, early, clock)
  <1> DEFINE g == [f EXCEPT ![at] = @ + 1]
  <1>1. /\ r.count \in Nat /\ r.windowStart \in Nat /\ r.bannedUntil \in Nat /\ at \in Nat
        /\ BanDuration \in Nat /\ Window \in Nat /\ Threshold \in Nat /\ Threshold > 1
    <2>1. BanDuration \in Nat /\ Window \in Nat /\ Threshold \in Nat /\ Threshold > 1
      OBVIOUS
    <2>2. r.count \in Nat /\ r.windowStart \in Times /\ r.bannedUntil \in Nat
      BY DEF Numbers
    <2> QED  BY <2>1, <2>2, TimesAre
  <1>2. /\ g \in [Times -> Nat] /\ g[at] = f[at] + 1
        /\ \A t \in Times : f[t] <= g[t] /\ (t # at => g[t] = f[t])
    OBVIOUS
  <1>3. Past(g, clock)
    BY <1>2 DEF Past
  <1> HIDE DEF g
  <1>4. ASSUME NEW A, A \subseteq Times
        PROVE  /\ SumFunctionOnSet(f, A) \in Nat /\ SumFunctionOnSet(g, A) \in Nat
               /\ SumFunctionOnSet(f, A) <= SumFunctionOnSet(g, A)
               /\ at \in A => SumFunctionOnSet(g, A) = SumFunctionOnSet(f, A) + 1
    <2>1. SumFunctionOnSet(f, A) \in Nat /\ SumFunctionOnSet(g, A) \in Nat
      BY <1>2, <1>4, SumOfTimes
    <2>2. /\ at \in A => SumFunctionOnSet(g, A) = SumFunctionOnSet(f, A) + 1
          /\ at \notin A => SumFunctionOnSet(g, A) = SumFunctionOnSet(f, A)
      <3>1. IsFiniteSet(A)
        BY <1>4, TimeSets
      <3>2. A \in SUBSET Times
        BY <1>4
      <3> QED  BY <1>2, <3>1, <3>2, SumMore
    <2> QED  BY <2>1, <2>2
  <1> DEFINE near == Near(w.windowStart, early)
  <1>5. near \subseteq Times /\ near = {u \in Times : w.windowStart - early <= u /\ u <= w.windowStart + Window}
    BY DEF Near
  <1>6. /\ w.windowStart <= clock /\ w.windowStart \in Nat /\ w.count \in Nat
        /\ w.count <= SumFunctionOnSet(g, near)
        /\ at - w.windowStart <= Window
    <2>1. CASE at - r.windowStart > Window
      <3>1. w.count = 1 /\ w.windowStart = at
        BY <2>1 DEF Fails
      <3>2. at \in near
        BY <1>1, <1>5, <3>1
      <3>3. SumFunctionOnSet(g, near) >= 1
        BY <1>4, <1>5, <3>2
      <3> QED  BY <1>1, <3>1, <3>3
    <2>2. CASE ~(at - r.windowStart > Window)
      <3>1. w.count = r.count + 1 /\ w.windowStart = r.windowStart
        BY <2>2 DEF Fails
      <3>2. r.windowStart <= clock /\ r.count <= SumFunctionOnSet(f, near)
        BY <3>1 DEF CountedBy
      <3>3. at \in near
        BY <1>1, <1>5, <2>2, <3>1, <3>2
      <3>4. /\ SumFunctionOnSet(f, near) \in Nat
            /\ SumFunctionOnSet(g, near) = SumFunctionOnSet(f, near) + 1
        BY <1>4, <1>5, <3>3
      <3> QED  BY <1>1, <2>2, <3>1, <3>2, <3>4
    <2> QED  BY <2>1, <2>2
  <1>7. ASSUME w.bannedUntil # 0
        PROVE  SumFunctionOnSet(g, Around(w.bannedUntil - BanDuration, early)) >= Threshold
    <2>1. CASE w.count >= Threshold
      <3>1. w.bannedUntil - BanDuration = at
        BY <1>1, <2>1 DEF Fails
      <3> DEFINE around == Around(at, early)
      <3>2. around \subseteq Times
            /\ around = {u \in Times : at - Window - early <= u /\ u <= at + early}
        BY DEF Around
      <3>3. ASSUME NEW u \in near, g[u] > 0
            PROVE  u \in around
        <4>1. u \in Nat /\ u \in Times /\ u <= clock /\ w.windowStart - early <= u
          BY <1>3, <1>5, <3>3, TimesAre DEF Past
        <4> QED  BY <1>1, <1>6, <3>2, <4>1
      <3> HIDE DEF around, near
      <3>4. IsFiniteSet(near) /\ IsFiniteSet(around)
        BY <1>5, <3>2, TimeSets
      <3>5. \A u \in near : g[u] \in Nat /\ g[u] <= g[u]
        BY <1>2, <1>5
      <3>6. \A u \in around : g[u] \in Nat
        BY <1>2, <3>2
      <3>7. SumFunctionOnSet(g, near) <= SumFunctionOnSet(g, around)
        BY <3>3, <3>4, <3>5, <3>6, SumCover
      <3>8. SumFunctionOnSet(g, near) \in Nat /\ SumFunctionOnSet(g, around) \in Nat
        BY <1>4, <1>5, <3>2
      <3>9. SumFunctionOnSet(g, around) >= Threshold
        BY <1>1, <1>6, <2>1, <3>7, <3>8
      <3> QED  BY <3>1, <3>9 DEF around
    <2>2. CASE ~(w.count >= Threshold)
      <3>1. w.bannedUntil = r.bannedUntil
        BY <2>2 DEF Fails
      <3> DEFINE around == Around(r.bannedUntil - BanDuration, early)
      <3>2. around \subseteq Times
        BY DEF Around
      <3>3. SumFunctionOnSet(f, around) >= Threshold
        BY <1>7, <3>1 DEF CountedBy
      <3> HIDE DEF around
      <3>4. /\ SumFunctionOnSet(f, around) \in Nat /\ SumFunctionOnSet(g, around) \in Nat
            /\ SumFunctionOnSet(f, around) <= SumFunctionOnSet(g, around)
        BY <1>4, <3>2
      <3>5. SumFunctionOnSet(g, around) >= Threshold
        BY <1>1, <3>3, <3>4
      <3> QED  BY <3>1, <3>5 DEF around
    <2> QED  BY <2>1, <2>2
  <1> QED  BY <1>2, <1>3, <1>6, <1>7 DEF CountedBy, g

----------------------------------------------------------------------------
(* How many failures there are since a time, of an IP with a record: none    *)
(* since a ban that the counter has reached the threshold for, else fewer    *)
(* than the counter since the start of its window, and in any window that    *)
(* has not ended at most those of a ban that was missed, of one that has     *)
(* been deleted and of the counter. Without a record the counter is gone.    *)
Since(f, s) == SumFunctionOnSet(f, {u \in Times : s <= u})
Few(f, r, clock) ==
    /\ r.count >= Threshold =>
         /\ r.bannedUntil # 0
         /\ \A u \in Times : f[u] > 0 => u <= r.bannedUntil - BanDuration
    /\ r.count < Threshold =>
         /\ \A s \in Int : s > r.windowStart => Since(f, s) <= r.count - 1
         /\ \A s \in Int : s + Window >= clock =>
              /\ r.bannedUntil = 0 => Since(f, s) <= r.count + 2 * Threshold - 3
              /\ r.bannedUntil # 0 /\ s > r.bannedUntil - BanDuration =>
                   Since(f, s) <= r.count + Threshold - 2
FewForgotten(f, clock) ==
    \A s \in Int : s + Window >= clock => Since(f, s) <= 2 * Threshold - 3

LEMMA Constants ==
    /\ BanDuration \in Nat /\ Window \in Nat /\ Window > 0
    /\ Threshold \in Nat /\ Threshold > 1 /\ Window < BanDuration
  BY WindowBeforeBan

LEMMA SinceIs ==
    ASSUME NEW f \in [Times -> Nat], NEW s \in Int
    PROVE  /\ Since(f, s) \in Nat
           /\ (\A u \in Times : f[u] > 0 => u < s) => Since(f, s) = 0
  <1> DEFINE S == {u \in Times : s <= u}
  <1>1. S \subseteq Times /\ Since(f, s) = SumFunctionOnSet(f, S)
    BY DEF Since
  <1>2. Since(f, s) \in Nat
    <2> HIDE DEF S
    <2> QED  BY <1>1, SumOfTimes
  <1>3. ASSUME \A u \in Times : f[u] > 0 => u < s
        PROVE  Since(f, s) = 0
    <2>1. IsFiniteSet(S) /\ IsFiniteSet({})
      BY <1>1, TimeSets, FS_EmptySet
    <2>2. \A u \in S : f[u] \in Nat
      OBVIOUS
    <2>3. \A u \in S : f[u] > 0 => FALSE
      <3>1. \A u \in S : u \in Times /\ u \in Nat /\ s <= u
        BY TimesAre
      <3> QED  BY <1>3, <3>1
    <2> HIDE DEF S
    <2>4. SumFunctionOnSet(f, S) <= SumFunctionOnSet(f, {})
      BY <2>1, <2>2, <2>3, SumCover
    <2>5. SumFunctionOnSet(f, {}) = 0
      BY <2>1, SumIs
    <2> QED  BY <1>1, <1>2, <2>4, <2>5
  <1> QED  BY <1>2, <1>3

(* One more failure at the time.                                             *)
LEMMA OneMore ==
    ASSUME NEW f \in [Times -> Nat], NEW at \in Times, Past(f, at)
    PROVE  LET g == [f EXCEPT ![at] = @ + 1]
           IN  /\ g \in [Times -> Nat] /\ Past(g, at)
               /\ \A s \in Int : /\ Since(f, s) \in Nat /\ Since(g, s) \in Nat
                                 /\ Since(g, s) <= Since(f, s) + 1
                                 /\ s > at => Since(g, s) = 0
  <1> DEFINE g == [f EXCEPT ![at] = @ + 1]
  <1>1. /\ g \in [Times -> Nat] /\ g[at] = f[at] + 1
        /\ \A t \in Times : t # at => g[t] = f[t]
    OBVIOUS
  <1> HIDE DEF g
  <1>2. at \in Nat
    BY TimesAre
  <1>3. Past(g, at)
    BY <1>1, <1>2 DEF Past
  <1>4. ASSUME NEW s \in Int
        PROVE  /\ Since(f, s) \in Nat /\ Since(g, s) \in Nat
               /\ Since(g, s) <= Since(f, s) + 1
               /\ s > at => Since(g, s) = 0
    <2> DEFINE S == {u \in Times : s <= u}
    <2>1. /\ S \in SUBSET Times /\ Since(f, s) = SumFunctionOnSet(f, S)
          /\ Since(g, s) = SumFunctionOnSet(g, S)
      BY DEF Since
    <2> HIDE DEF S
    <2>2. IsFiniteSet(S)
      BY <2>1, TimeSets
    <2>3. /\ at \in S => SumFunctionOnSet(g, S) = SumFunctionOnSet(f, S) + 1
          /\ at \notin S => SumFunctionOnSet(g, S) = SumFunctionOnSet(f, S)
      BY <1>1, <2>1, <2>2, SumMore
    <2>4. Since(f, s) \in Nat /\ Since(g, s) \in Nat
      BY <1>1, SinceIs
    <2>5. s > at => Since(g, s) = 0
      <3>1. ASSUME s > at, NEW u \in Times, g[u] > 0
            PROVE  u < s
        <4>1. u <= at /\ u \in Nat
          BY <1>3, <3>1, TimesAre DEF Past
        <4> QED  BY <1>2, <3>1, <4>1
      <3> QED  BY <1>1, <3>1, SinceIs
    <2> QED  BY <2>1, <2>3, <2>4, <2>5
  <1> QED  BY <1>1, <1>3, <1>4 DEF g

(* A failure keeps them few: of the record found, or of a new one.           *)
LEMMA FailureFew ==
    ASSUME NEW f \in [Times -> Nat], NEW r, NEW w, NEW at \in Times, Fails(r, w, at),
           Numbers(r), Past(f, at), r.windowStart <= at, Few(f, r, at)
    PROVE  Few([f EXCEPT ![at] = @ + 1], w, at)
  <1> DEFINE g == [f EXCEPT ![at] = @ + 1]
  <1>1. g \in [Times -> Nat] /\ Past(g, at)
    BY OneMore
  <1>2. \A s \in Int : /\ Since(f, s) \in Nat /\ Since(g, s) \in Nat
                       /\ Since(g, s) <= Since(f, s) + 1
                       /\ s > at => Since(g, s) = 0
    BY OneMore
  <1> HIDE DEF g
  <1>3. r.count \in Nat /\ r.windowStart \in Nat /\ r.bannedUntil \in Nat /\ at \in Nat
    <2>1. r.count \in Nat /\ r.windowStart \in Times /\ r.bannedUntil \in Nat
      BY DEF Numbers
    <2> QED  BY <2>1, TimesAre
  <1>4. CASE at - r.windowStart > Window
    <2>1. w.count = 1 /\ w.windowStart = at /\ w.bannedUntil = r.bannedUntil
      BY <1>4, Constants DEF Fails
    <2>2. ASSUME NEW s \in Int, s > w.windowStart
          PROVE  Since(g, s) <= w.count - 1
      BY <1>2, <1>3, <2>1, <2>2
    <2>3. ASSUME NEW s \in Int, s + Window >= at
          PROVE  /\ w.bannedUntil = 0 => Since(g, s) <= w.count + 2 * Threshold - 3
                 /\ w.bannedUntil # 0 /\ s > w.bannedUntil - BanDuration =>
                      Since(g, s) <= w.count + Threshold - 2
      <3>1. s > r.windowStart
        BY <1>3, <1>4, <2>3, Constants
      <3>2. /\ Since(f, s) \in Nat /\ Since(g, s) \in Nat /\ Since(g, s) <= Since(f, s) + 1
        BY <1>2
      <3>3. CASE r.count < Threshold
        <4>1. Since(f, s) <= r.count - 1
          BY <3>1, <3>3 DEF Few
        <4> QED  BY <1>3, <2>1, <3>2, <3>3, <4>1, Constants
      <3>4. CASE r.count >= Threshold
        <4>1. r.bannedUntil # 0
              /\ \A u \in Times : f[u] > 0 => u <= r.bannedUntil - BanDuration
          BY <3>4 DEF Few
        <4>2. ASSUME s > r.bannedUntil - BanDuration
              PROVE  Since(f, s) = 0
          <5>1. ASSUME NEW u \in Times, f[u] > 0
                PROVE  u < s
            <6>1. u <= r.bannedUntil - BanDuration /\ u \in Nat
              BY <4>1, <5>1, TimesAre
            <6> QED  BY <1>3, <4>2, <6>1, Constants
          <5> QED  BY <5>1, SinceIs
        <4> QED  BY <2>1, <3>2, <4>1, <4>2, Constants
      <3> QED  BY <1>3, <3>3, <3>4, Constants
    <2>4. ~(w.count >= Threshold)
      BY <2>1, Constants
    <2> QED  BY <2>2, <2>3, <2>4 DEF Few, g
  <1>5. CASE ~(at - r.windowStart > Window) /\ r.count + 1 >= Threshold
    <2>1. w.count = r.count + 1 /\ w.bannedUntil = at + BanDuration
      BY <1>5 DEF Fails
    <2>2. w.bannedUntil # 0 /\ w.bannedUntil - BanDuration = at /\ ~(w.count < Threshold)
      BY <1>3, <1>5, <2>1, Constants
    <2>3. \A u \in Times : g[u] > 0 => u <= at
      BY <1>1 DEF Past
    <2> QED  BY <2>2, <2>3 DEF Few, g
  <1>6. CASE ~(at - r.windowStart > Window) /\ ~(r.count + 1 >= Threshold)
    <2>1. /\ w.count = r.count + 1 /\ w.bannedUntil = r.bannedUntil
          /\ w.windowStart = r.windowStart
      BY <1>6 DEF Fails
    <2>2. ~(w.count >= Threshold) /\ r.count < Threshold
      BY <1>3, <1>6, <2>1, Constants
    <2>3. ASSUME NEW s \in Int, s > w.windowStart
          PROVE  Since(g, s) <= w.count - 1
      <3>1. Since(f, s) <= r.count - 1
        BY <2>1, <2>2, <2>3 DEF Few
      <3>2. Since(f, s) \in Nat /\ Since(g, s) \in Nat /\ Since(g, s) <= Since(f, s) + 1
        BY <1>2
      <3> QED  BY <1>3, <2>1, <3>1, <3>2
    <2>4. ASSUME NEW s \in Int, s + Window >= at
          PROVE  /\ w.bannedUntil = 0 => Since(g, s) <= w.count + 2 * Threshold - 3
                 /\ w.bannedUntil # 0 /\ s > w.bannedUntil - BanDuration =>
                      Since(g, s) <= w.count + Threshold - 2
      <3>1. /\ r.bannedUntil = 0 => Since(f, s) <= r.count + 2 * Threshold - 3
            /\ r.bannedUntil # 0 /\ s > r.bannedUntil - BanDuration =>
                 Since(f, s) <= r.count + Threshold - 2
        BY <2>2, <2>4 DEF Few
      <3>2. Since(f, s) \in Nat /\ Since(g, s) \in Nat /\ Since(g, s) <= Since(f, s) + 1
        BY <1>2
      <3> QED  BY <1>3, <2>1, <3>1, <3>2, Constants
    <2> QED  BY <2>2, <2>3, <2>4 DEF Few, g
  <1> QED  BY <1>4, <1>5, <1>6

LEMMA FirstFailureFew ==
    ASSUME NEW f \in [Times -> Nat], NEW w, NEW at \in Times, Past(f, at),
           w.count = 1, w.windowStart = at, w.bannedUntil = 0, FewForgotten(f, at)
    PROVE  Few([f EXCEPT ![at] = @ + 1], w, at)
  <1> DEFINE g == [f EXCEPT ![at] = @ + 1]
  <1>1. \A s \in Int : /\ Since(f, s) \in Nat /\ Since(g, s) \in Nat
                       /\ Since(g, s) <= Since(f, s) + 1
                       /\ s > at => Since(g, s) = 0
    BY OneMore
  <1> HIDE DEF g
  <1>2. ASSUME NEW s \in Int, s > w.windowStart
        PROVE  Since(g, s) <= w.count - 1
    BY <1>1, <1>2
  <1>3. ASSUME NEW s \in Int, s + Window >= at
        PROVE  Since(g, s) <= w.count + 2 * Threshold - 3
    <2>1. Since(f, s) <= 2 * Threshold - 3
      BY <1>3 DEF FewForgotten
    <2>2. Since(f, s) \in Nat /\ Since(g, s) \in Nat /\ Since(g, s) <= Since(f, s) + 1
      BY <1>1
    <2> QED  BY <2>1, <2>2, Constants
  <1>4. ~(w.count >= Threshold)
    BY Constants
  <1> QED  BY <1>2, <1>3, <1>4 DEF Few, g

(* A record that is deleted, by a check or by the sweep, leaves few.         *)
LEMMA ForgottenFew ==
    ASSUME NEW f \in [Times -> Nat], NEW r, NEW clock \in Nat, Numbers(r), Few(f, r, clock),
           \/ r.bannedUntil # 0 /\ clock >= r.bannedUntil
           \/ r.bannedUntil = 0 /\ clock - r.windowStart > Window * 2
    PROVE  FewForgotten(f, clock)
  <1>1. r.count \in Nat /\ r.windowStart \in Nat /\ r.bannedUntil \in Nat
    <2>1. r.count \in Nat /\ r.windowStart \in Times /\ r.bannedUntil \in Nat
      BY DEF Numbers
    <2> QED  BY <2>1, TimesAre
  <1> SUFFICES ASSUME NEW s \in Int, s + Window >= clock
               PROVE  Since(f, s) <= 2 * Threshold - 3
    BY DEF FewForgotten
  <1>2. Since(f, s) \in Nat
    BY SinceIs
  <1>3. CASE r.bannedUntil # 0 /\ clock >= r.bannedUntil
    <2>1. s > r.bannedUntil - BanDuration
      BY <1>1, <1>3, Constants
    <2>2. CASE r.count >= Threshold
      <3>1. \A u \in Times : f[u] > 0 => u <= r.bannedUntil - BanDuration
        BY <2>2 DEF Few
      <3>2. ASSUME NEW u \in Times, f[u] > 0
            PROVE  u < s
        <4>1. u <= r.bannedUntil - BanDuration /\ u \in Nat
          BY <3>1, <3>2, TimesAre
        <4> QED  BY <1>1, <2>1, <4>1, Constants
      <3>3. Since(f, s) = 0
        BY <3>2, SinceIs
      <3> QED  BY <3>3, Constants
    <2>3. CASE r.count < Threshold
      <3>1. Since(f, s) <= r.count + Threshold - 2
        BY <1>3, <2>1, <2>3 DEF Few
      <3> QED  BY <1>1, <1>2, <2>3, <3>1, Constants
    <2> QED  BY <1>1, <2>2, <2>3, Constants
  <1>4. CASE r.bannedUntil = 0 /\ clock - r.windowStart > Window * 2
    <2>1. r.count < Threshold
      <3>1. ~(r.count >= Threshold)
        BY <1>4 DEF Few
      <3> QED  BY <1>1, <3>1, Constants
    <2>2. s > r.windowStart
      BY <1>1, <1>4, Constants
    <2>3. Since(f, s) <= r.count - 1
      BY <2>1, <2>2 DEF Few
    <2> QED  BY <1>1, <1>2, <2>1, <2>3, Constants
  <1> QED  BY <1>3, <1>4

(* The clock, and a Map that has forgotten all failures of an IP.            *)
LEMMA FewLater ==
    ASSUME NEW f, NEW r, NEW clock \in Nat
    PROVE  /\ Few(f, r, clock) => Few(f, r, clock + 1)
           /\ FewForgotten(f, clock) => FewForgotten(f, clock + 1)
  <1>1. \A s \in Int : s + Window >= clock + 1 => s + Window >= clock
    BY Constants
  <1> QED  BY <1>1 DEF Few, FewForgotten

LEMMA NoneFew ==
    ASSUME NEW clock \in Nat
    PROVE  FewForgotten([t \in Times |-> 0], clock)
  <1>1. [t \in Times |-> 0] \in [Times -> Nat]
        /\ \A u \in Times : ~([t \in Times |-> 0][u] > 0)
    OBVIOUS
  <1>2. \A s \in Int : Since([t \in Times |-> 0], s) = 0
    BY <1>1, SinceIs
  <1> QED  BY <1>2, Constants DEF FewForgotten

(* Few are at most Unpunished within the last window, but during a ban.      *)
LEMMA FewUnpunished ==
    ASSUME NEW f \in [Times -> Nat], NEW clock \in Nat,
           \/ FewForgotten(f, clock)
           \/ \E r : Numbers(r) /\ Few(f, r, clock)
                     /\ (r.bannedUntil # 0 => clock >= r.bannedUntil)
    PROVE  SumFunctionOnSet(f, {u \in Times : u <= clock /\ clock <= u + Window}) <= Unpunished
  <1> DEFINE L == {u \in Times : u <= clock /\ clock <= u + Window}
             s == clock - Window
             S == {u \in Times : s <= u}
  <1>1. s \in Int /\ s + Window >= clock
    BY Constants
  <1>2. Since(f, s) \in Nat /\ Since(f, s) = SumFunctionOnSet(f, S)
    BY <1>1, SinceIs DEF Since
  <1>3. SumFunctionOnSet(f, L) <= Since(f, s)
    <2>1. L \subseteq Times /\ S \subseteq Times
      OBVIOUS
    <2>2. L \subseteq S
      BY TimesAre, Constants
    <2>3. \A u \in Times : f[u] \in Nat
      OBVIOUS
    <2> HIDE DEF L, S
    <2>4. IsFiniteSet(L) /\ IsFiniteSet(S)
      BY <2>1, TimeSets
    <2>5. \A u \in L : f[u] \in Nat /\ u \in S /\ f[u] <= f[u]
      BY <2>1, <2>2, <2>3
    <2>6. \A u \in S : f[u] \in Nat
      BY <2>1, <2>3
    <2>7. SumFunctionOnSet(f, L) <= SumFunctionOnSet(f, S)
      BY <2>4, <2>5, <2>6, SumCover
    <2> QED  BY <1>2, <2>7
  <1>4. SumFunctionOnSet(f, L) \in Nat
    BY SumOfTimes
  <1> HIDE DEF L, S
  <1>5. Since(f, s) <= 3 * Threshold - 4
    <2>1. CASE FewForgotten(f, clock)
      <3>1. Since(f, s) <= 2 * Threshold - 3
        BY <1>1, <2>1 DEF FewForgotten
      <3> QED  BY <1>2, <3>1, Constants
    <2>2. CASE \E r : Numbers(r) /\ Few(f, r, clock)
                     /\ (r.bannedUntil # 0 => clock >= r.bannedUntil)
      <3>1. PICK r : /\ Numbers(r) /\ Few(f, r, clock)
                     /\ r.bannedUntil # 0 => clock >= r.bannedUntil
        BY <2>2
      <3>2. r.count \in Nat /\ r.bannedUntil \in Nat
        BY <3>1 DEF Numbers
      <3>3. CASE r.bannedUntil = 0
        <4>1. r.count < Threshold
          <5>1. ~(r.count >= Threshold)
            BY <3>1, <3>3 DEF Few
          <5> QED  BY <3>2, <5>1, Constants
        <4>2. Since(f, s) <= r.count + 2 * Threshold - 3
          BY <1>1, <3>1, <3>3, <4>1 DEF Few
        <4> QED  BY <1>2, <3>2, <4>1, <4>2, Constants
      <3>4. CASE r.bannedUntil # 0
        <4>1. FewForgotten(f, clock)
          BY <3>1, <3>4, ForgottenFew
        <4>2. Since(f, s) <= 2 * Threshold - 3
          BY <1>1, <4>1 DEF FewForgotten
        <4> QED  BY <1>2, <4>2, Constants
      <3> QED  BY <3>3, <3>4
    <2> QED  BY <2>1, <2>2
  <1> QED  BY <1>2, <1>3, <1>4, <1>5, Constants DEF Unpunished, L

----------------------------------------------------------------------------
(* So it is in the Map and in Redis.                                         *)
MapCounts ==
    /\ \A ip \in Ips :
         /\ Past(failures[ip], now)
         /\ (\A i \in DOMAIN authFailures : authFailures[i].ip # ip) =>
              FewForgotten(failures[ip], now)
    /\ \A i \in DOMAIN authFailures :
         /\ CountedBy(failures[authFailures[i].ip], authFailures[i], 0, now)
         /\ Few(failures[authFailures[i].ip], authFailures[i], now)
HashCounts ==
    /\ counted \in [RemoteIps -> [Times -> Nat]]
    /\ \A ip \in RemoteIps :
         /\ Past(counted[ip], now)
         /\ \A h \in hash[ip] : CountedBy(counted[ip], h, Delay, now)
CountInv == MapCounts /\ HashCounts

LEMMA TypedFailures ==
    ASSUME LocalInv, NEW ip \in Ips
    PROVE  failures[ip] \in [Times -> Nat]
  <1>1. failures \in [Ips -> [Times -> 0..MaxFailures]]
    BY DEF LocalInv, TypeOK
  <1>2. failures[ip] \in [Times -> 0..MaxFailures]
    BY <1>1
  <1>3. 0..MaxFailures \subseteq Nat
    OBVIOUS
  <1> QED  BY <1>2, <1>3

LEMMA TypedRecord ==
    ASSUME LocalInv, NEW i \in DOMAIN authFailures
    PROVE  /\ authFailures[i] \in Records /\ authFailures[i].ip \in Ips
           /\ Numbers(authFailures[i]) /\ authFailures[i] \in ToSet(authFailures)
  <1>1. authFailures[i] \in Records
    BY TypedMap
  <1>2. authFailures[i].ip \in Ips
    BY <1>1 DEF Records
  <1>3. Numbers(authFailures[i])
    BY <1>1, TimesAre DEF Records, Numbers
  <1> QED  BY <1>1, <1>2, <1>3 DEF ToSet

(* Where the records of the Map with a record of the IP are from.            *)
LEMMA RecordMapFrom ==
    ASSUME LocalInv, NEW ip \in Ips
    PROVE  LET map == WithRecord(ip)
           IN  \A i \in DOMAIN map :
                 \/ map[i] = New(ip, now) /\ Of(authFailures, ip) = {}
                 \/ \E k \in DOMAIN authFailures : map[i] = authFailures[k] /\ (Evicts(ip) => k # 1)
  <1> DEFINE map == WithRecord(ip)
             new == New(ip, now)
  <1>1. /\ authFailures \in Seq(Records) /\ Len(authFailures) \in Nat
        /\ DOMAIN authFailures = 1..Len(authFailures) /\ now \in Times
    BY TypedMap
  <1>2. CASE Of(authFailures, ip) # {}
    <2>1. map = authFailures /\ ~Evicts(ip)
      BY <1>2 DEF WithRecord, Evicts
    <2> HIDE DEF map
    <2> QED  BY <2>1 DEF map
  <1>3. CASE Of(authFailures, ip) = {} /\ ~Evicts(ip)
    <2>1. map = Append(authFailures, new)
      BY <1>3 DEF WithRecord
    <2>2. new \in Records
      BY <1>1, TimesAre DEF New, Records
    <2> HIDE DEF new, map
    <2>3. \A i \in DOMAIN map : \/ map[i] = new
                                \/ i \in DOMAIN authFailures /\ map[i] = authFailures[i]
      BY <1>1, <2>1, <2>2
    <2> QED  BY <1>3, <2>3 DEF new, map
  <1>4. CASE Evicts(ip)
    <2>1. Of(authFailures, ip) = {} /\ Len(authFailures) >= MaxEntries
      BY <1>4 DEF Evicts
    <2>2. map = Append(Tail(authFailures), new)
      BY <1>4, <2>1 DEF WithRecord
    <2>3. new \in Records
      BY <1>1, TimesAre DEF New, Records
    <2>4. Len(authFailures) > 0
      BY <1>1, <2>1
    <2> DEFINE rest == Tail(authFailures)
    <2>5. /\ rest \in Seq(Records) /\ Len(rest) = Len(authFailures) - 1
          /\ DOMAIN rest = 1..(Len(authFailures) - 1)
          /\ \A i \in DOMAIN rest : rest[i] = authFailures[i + 1]
      BY <1>1, <2>4
    <2>6. \A i \in DOMAIN rest : i + 1 \in DOMAIN authFailures /\ i + 1 # 1
      BY <1>1, <2>5
    <2> HIDE DEF rest, new, map
    <2>7. \A i \in DOMAIN map : map[i] = new \/ (i \in DOMAIN rest /\ map[i] = rest[i])
      BY <2>2, <2>3, <2>5 DEF rest
    <2> QED  BY <2>1, <2>5, <2>6, <2>7 DEF new, map
  <1> QED  BY <1>2, <1>3, <1>4

LEMMA RecordCounts ==
    ASSUME LocalInv, MapCounts, NEW ip \in Ips, RecordAuthFailure(ip)
    PROVE  MapCounts'
  <1> DEFINE map == WithRecord(ip)
             forgotten == IF Evicts(ip) THEN {Head(authFailures).ip} ELSE {}
             more == [failures[ip] EXCEPT ![now] = @ + 1]
             zero == [t \in Times |-> 0]
  <1>1. /\ authFailures \in Seq(Records) /\ Distinct(authFailures)
        /\ Len(authFailures) \in Nat /\ now \in Times /\ now \in Nat
        /\ DOMAIN authFailures = 1..Len(authFailures)
    BY TypedMap, TimesAre
  <1>2. /\ now' = now
        /\ authFailures' = [i \in DOMAIN map |->
              IF map[i].ip = ip THEN WithFailure(map[i], now) ELSE map[i]]
        /\ failures' = [i \in Ips |->
              IF i \in forgotten THEN zero
              ELSE IF i = ip THEN more ELSE failures[i]]
    BY DEF RecordAuthFailure
  <1>3. /\ \A k \in DOMAIN authFailures :
             \/ \E i \in DOMAIN map : map[i] = authFailures[k]
             \/ k = 1 /\ Len(authFailures) = MaxEntries /\ Of(authFailures, ip) = {}
        /\ \E i \in DOMAIN map : map[i].ip = ip
    BY RecordMap
  <1>4. \A i \in DOMAIN map :
          \/ map[i] = New(ip, now) /\ Of(authFailures, ip) = {}
          \/ \E k \in DOMAIN authFailures : map[i] = authFailures[k] /\ (Evicts(ip) => k # 1)
    BY RecordMapFrom
  <1>5. Evicts(ip) => /\ Of(authFailures, ip) = {} /\ 1 \in DOMAIN authFailures
                      /\ Head(authFailures) = authFailures[1]
    <2>1. Evicts(ip) => Of(authFailures, ip) = {} /\ Len(authFailures) >= MaxEntries
      BY DEF Evicts
    <2> QED  BY <1>1, <2>1
  <1>6. forgotten = IF Evicts(ip) THEN {authFailures[1].ip} ELSE {}
    BY <1>5
  <1>7. ip \notin forgotten
    BY <1>5, <1>6, OfIs
  <1>8. failures[ip] \in [Times -> Nat] /\ Past(failures[ip], now)
    BY TypedFailures DEF MapCounts
  <1>9. more \in [Times -> Nat] /\ Past(more, now)
    BY <1>1, <1>8, OneMore
  <1> HIDE DEF map, forgotten, more, zero
  <1>10. failures'[ip] = more
    BY <1>2, <1>7
  <1>11. /\ DOMAIN authFailures' = DOMAIN map
         /\ \A i \in DOMAIN map : authFailures'[i] =
              IF map[i].ip = ip THEN WithFailure(map[i], now) ELSE map[i]
    BY <1>2
  <1>12. \A i \in DOMAIN map : map[i] \in Records /\ WithFailure(map[i], now).ip = map[i].ip
    <2>1. ASSUME NEW i \in DOMAIN map
          PROVE  map[i] \in Records
      <3>1. New(ip, now) \in Records
        BY <1>1, TimesAre DEF New, Records
      <3> QED  BY <1>4, <3>1, TypedRecord
    <2> QED  BY <1>1, <2>1, WithFailureIs
  <1>13. ASSUME NEW o \in Ips
         PROVE  /\ Past(failures'[o], now)
                /\ (\A i \in DOMAIN authFailures' : authFailures'[i].ip # o) =>
                     FewForgotten(failures'[o], now)
    <2>1. CASE o \in forgotten
      <3>1. failures'[o] = zero
        BY <1>2, <2>1
      <3>2. Past(zero, now) /\ FewForgotten(zero, now)
        BY <1>1, NoneFew DEF Past, zero
      <3> QED  BY <3>1, <3>2
    <2>2. CASE o = ip
      <3>1. ~(\A i \in DOMAIN authFailures' : authFailures'[i].ip # o)
        BY <1>3, <1>11, <1>12, <2>2
      <3> QED  BY <1>9, <1>10, <2>2, <3>1
    <2>3. CASE o \notin forgotten /\ o # ip
      <3>1. failures'[o] = failures[o] /\ Past(failures[o], now)
        BY <1>2, <2>3 DEF MapCounts
      <3>2. ASSUME \A i \in DOMAIN authFailures' : authFailures'[i].ip # o
            PROVE  FewForgotten(failures[o], now)
        <4>1. ASSUME NEW k \in DOMAIN authFailures, authFailures[k].ip = o
              PROVE  FALSE
          <5>1. ~\E i \in DOMAIN map : map[i] = authFailures[k]
            BY <1>11, <1>12, <3>2, <4>1
          <5>2. k = 1 /\ Len(authFailures) = MaxEntries /\ Of(authFailures, ip) = {}
            BY <1>3, <5>1
          <5>3. Evicts(ip)
            <6>1. Len(authFailures) >= MaxEntries
              BY <1>1, <5>2
            <6> QED  BY <5>2, <6>1 DEF Evicts
          <5> QED  BY <1>6, <2>3, <4>1, <5>2, <5>3
        <4> QED  BY <4>1 DEF MapCounts
      <3> QED  BY <3>1, <3>2
    <2> QED  BY <2>1, <2>2, <2>3
  <1>14. ASSUME NEW i \in DOMAIN map
         PROVE  /\ CountedBy(failures'[authFailures'[i].ip], authFailures'[i], 0, now)
                /\ Few(failures'[authFailures'[i].ip], authFailures'[i], now)
    <2>1. CASE map[i].ip = ip
      <3> DEFINE r == map[i]
                 w == WithFailure(r, now)
      <3>1. authFailures'[i] = w /\ w.ip = ip
        BY <1>11, <1>12, <2>1
      <3>2. Fails(r, w, now) /\ Numbers(r)
        BY <1>1, <1>12, FailureFields
      <3>3. CASE \E k \in DOMAIN authFailures : r = authFailures[k]
        <4>1. CountedBy(failures[ip], r, 0, now) /\ Few(failures[ip], r, now)
          BY <2>1, <3>3 DEF MapCounts
        <4> HIDE DEF r, w
        <4>2. r.windowStart <= now
          BY <4>1 DEF CountedBy
        <4>3. Few(more, w, now)
          BY <1>1, <1>8, <3>2, <4>1, <4>2, FailureFew DEF more
        <4>4. 0 \in Nat /\ now <= now /\ now <= now + 0
          BY <1>1
        <4>5. CountedBy(more, w, 0, now)
          BY <1>1, <1>8, <3>2, <4>1, <4>4, FailureCounts DEF more
        <4> QED  BY <1>10, <3>1, <4>3, <4>5
      <3>4. CASE ~\E k \in DOMAIN authFailures : r = authFailures[k]
        <4>1. r = New(ip, now) /\ Of(authFailures, ip) = {}
          BY <1>4, <3>4
        <4>2. \A k \in DOMAIN authFailures : authFailures[k].ip # ip
          BY <4>1, OfIs
        <4>3. FewForgotten(failures[ip], now)
          BY <4>2 DEF MapCounts
        <4>4. r.count = 0 /\ r.windowStart = now /\ r.bannedUntil = 0
          BY <4>1 DEF New
        <4>5. 0 \in Nat /\ now <= now /\ now <= now + 0 /\ ~(now - now > Window)
              /\ ~(0 + 1 >= Threshold) /\ 0 + 1 = 1
          BY <1>1, Constants
        <4> HIDE DEF r, w
        <4>6. w.count = 1 /\ w.windowStart = now /\ w.bannedUntil = 0
          BY <3>2, <4>4, <4>5 DEF Fails
        <4>7. Few(more, w, now)
          BY <1>1, <1>8, <4>3, <4>6, FirstFailureFew DEF more
        <4>8. CountedBy(failures[ip], r, 0, now)
          <5>1. Near(now, 0) \subseteq Times
            BY DEF Near
          <5>2. SumFunctionOnSet(failures[ip], Near(now, 0)) \in Nat
            BY <1>8, <5>1, SumOfTimes
          <5>3. 0 <= SumFunctionOnSet(failures[ip], Near(now, 0))
            BY <5>2
          <5> QED  BY <4>4, <4>5, <5>3 DEF CountedBy
        <4>9. CountedBy(more, w, 0, now)
          BY <1>1, <1>8, <3>2, <4>5, <4>8, FailureCounts DEF more
        <4> QED  BY <1>10, <3>1, <4>7, <4>9
      <3> QED  BY <3>3, <3>4
    <2>2. CASE map[i].ip # ip
      <3>1. authFailures'[i] = map[i]
        BY <1>11, <2>2
      <3>2. PICK k \in DOMAIN authFailures :
              map[i] = authFailures[k] /\ (Evicts(ip) => k # 1)
        BY <1>4, <2>2 DEF New
      <3>3. map[i].ip \notin forgotten
        BY <1>1, <1>5, <1>6, <3>2 DEF Distinct
      <3>4. map[i].ip \in Ips
        BY <3>2, TypedRecord
      <3>5. failures'[map[i].ip] = failures[map[i].ip]
        BY <1>2, <2>2, <3>3, <3>4
      <3> QED  BY <3>1, <3>2, <3>5 DEF MapCounts
    <2> QED  BY <2>1, <2>2
  <1> QED  BY <1>2, <1>11, <1>13, <1>14 DEF MapCounts

(* Records are deleted when they are forgettable.                            *)
LEMMA DeleteCounts ==
    ASSUME LocalInv, MapCounts, NEW K, authFailures' = Kept(authFailures, K),
           \A r \in ToSet(authFailures) : r \notin K =>
              \/ r.bannedUntil # 0 /\ now >= r.bannedUntil
              \/ r.bannedUntil = 0 /\ now - r.windowStart > Window * 2,
           UNCHANGED <<now, failures, recorded>>
    PROVE  MapCounts'
  <1>1. authFailures \in Seq(Records) /\ Distinct(authFailures) /\ now \in Nat
    BY TypedMap, TimesAre
  <1>2. /\ \A i \in DOMAIN authFailures' : \E j \in DOMAIN authFailures :
             authFailures'[i] = authFailures[j]
        /\ \A j \in DOMAIN authFailures : authFailures[j] \in K =>
             \E i \in DOMAIN authFailures' : authFailures'[i] = authFailures[j]
    BY <1>1, KeptRecords
  <1>3. ASSUME NEW ip \in Ips, \A i \in DOMAIN authFailures' : authFailures'[i].ip # ip
        PROVE  FewForgotten(failures[ip], now)
    <2>1. CASE \A i \in DOMAIN authFailures : authFailures[i].ip # ip
      BY <2>1 DEF MapCounts
    <2>2. CASE ~\A i \in DOMAIN authFailures : authFailures[i].ip # ip
      <3>1. PICK k \in DOMAIN authFailures : authFailures[k].ip = ip
        BY <2>2
      <3> DEFINE r == authFailures[k]
      <3>2. r \notin K
        BY <1>2, <1>3, <3>1
      <3>3. Numbers(r) /\ r \in ToSet(authFailures)
        BY TypedRecord
      <3>4. Few(failures[ip], r, now)
        BY <3>1 DEF MapCounts
      <3>5. \/ r.bannedUntil # 0 /\ now >= r.bannedUntil
            \/ r.bannedUntil = 0 /\ now - r.windowStart > Window * 2
        BY <3>2, <3>3
      <3>6. failures[ip] \in [Times -> Nat]
        BY TypedFailures
      <3> HIDE DEF r
      <3> QED  BY <1>1, <3>3, <3>4, <3>5, <3>6, ForgottenFew
    <2> QED  BY <2>1, <2>2
  <1>4. \A i \in DOMAIN authFailures' :
          /\ CountedBy(failures[authFailures'[i].ip], authFailures'[i], 0, now)
          /\ Few(failures[authFailures'[i].ip], authFailures'[i], now)
    BY <1>2 DEF MapCounts
  <1>5. now' = now /\ failures' = failures /\ \A ip \in Ips : Past(failures[ip], now)
    BY DEF MapCounts
  <1> QED  BY <1>3, <1>4, <1>5 DEF MapCounts

LEMMA LocalCounts ==
    ASSUME LocalInv, MapCounts, Next \/ UNCHANGED vars
    PROVE  MapCounts'
  <1>1. ASSUME NEW ip \in Ips, RecordAuthFailure(ip)
        PROVE  MapCounts'
    BY <1>1, RecordCounts
  <1>2. ASSUME NEW ip \in Ips, IsAuthBanned(ip)
        PROVE  MapCounts'
    <2> DEFINE K == {r \in ToSet(authFailures) : r.ip # ip}
    <2>1. authFailures' = Kept(authFailures, K) /\ UNCHANGED <<now, failures, recorded>>
      BY <1>2 DEF IsAuthBanned, Without
    <2>2. PICK e \in Of(authFailures, ip) : e.bannedUntil # 0 /\ now >= e.bannedUntil
      BY <1>2 DEF IsAuthBanned, BanExpired
    <2>3. PICK j \in DOMAIN authFailures : e = authFailures[j] /\ e.ip = ip
      BY OfIs
    <2>4. ASSUME NEW r \in ToSet(authFailures), r \notin K
          PROVE  r.bannedUntil # 0 /\ now >= r.bannedUntil
      <3>1. PICK k \in DOMAIN authFailures : r = authFailures[k]
        BY TypedMap
      <3>2. r.ip = ip
        BY <2>4
      <3>3. r = e
        BY <2>3, <3>1, <3>2, TypedMap DEF Distinct
      <3> QED  BY <2>2, <3>3
    <2> HIDE DEF K
    <2> QED  BY <2>1, <2>4, DeleteCounts
  <1>3. CASE EvictExpiredAuthFailures
    <2> DEFINE K == {r \in ToSet(authFailures) : ~Stale(r)}
    <2>1. authFailures' = Kept(authFailures, K) /\ UNCHANGED <<now, failures, recorded>>
      BY <1>3 DEF EvictExpiredAuthFailures
    <2>2. ASSUME NEW r \in ToSet(authFailures), r \notin K
          PROVE  \/ r.bannedUntil # 0 /\ now >= r.bannedUntil
                 \/ r.bannedUntil = 0 /\ now - r.windowStart > Window * 2
      <3>1. r \in Records /\ now \in Nat
        BY TypedMap, TimesAre
      <3>2. r.bannedUntil \in Nat
        BY <3>1, TimesAre DEF Records
      <3>3. Stale(r)
        BY <2>2
      <3> QED  BY <3>1, <3>2, <3>3, Constants DEF Stale
    <2> HIDE DEF K
    <2> QED  BY <2>1, <2>2, DeleteCounts
  <1>4. CASE Tick
    <2>1. now' = now + 1 /\ authFailures' = authFailures /\ failures' = failures
      BY <1>4 DEF Tick
    <2>2. now \in Nat
      BY TypedMap, TimesAre
    <2>3. ASSUME NEW ip \in Ips
          PROVE  /\ Past(failures[ip], now + 1)
                 /\ (\A i \in DOMAIN authFailures : authFailures[i].ip # ip) =>
                      FewForgotten(failures[ip], now + 1)
      <3>1. \A t \in Times : t <= now => t <= now + 1
        BY <2>2, TimesAre
      <3>2. Past(failures[ip], now + 1)
        BY <3>1 DEF MapCounts, Past
      <3> QED  BY <2>2, <3>2, FewLater DEF MapCounts
    <2>4. ASSUME NEW i \in DOMAIN authFailures
          PROVE  /\ CountedBy(failures[authFailures[i].ip], authFailures[i], 0, now + 1)
                 /\ Few(failures[authFailures[i].ip], authFailures[i], now + 1)
      <3>1. /\ CountedBy(failures[authFailures[i].ip], authFailures[i], 0, now)
            /\ Few(failures[authFailures[i].ip], authFailures[i], now)
        BY DEF MapCounts
      <3>2. authFailures[i].windowStart \in Nat
        BY TypedRecord, TimesAre DEF Numbers
      <3>3. authFailures[i].windowStart <= now + 1
        BY <2>2, <3>1, <3>2 DEF CountedBy
      <3>4. Few(failures[authFailures[i].ip], authFailures[i], now + 1)
        BY <2>2, <3>1, FewLater
      <3> QED  BY <3>1, <3>3, <3>4 DEF CountedBy
    <2> QED  BY <2>1, <2>3, <2>4 DEF MapCounts
  <1>5. CASE UNCHANGED vars
    <2>1. authFailures' = authFailures /\ now' = now /\ failures' = failures
      BY <1>5 DEF vars
    <2> QED  BY <2>1 DEF MapCounts
  <1> QED  BY <1>1, <1>2, <1>3, <1>4, <1>5 DEF Next

----------------------------------------------------------------------------
(* A script, and the steps that leave a hash alone or delete it.             *)
LEMMA ScriptCounts ==
    ASSUME IInv, HashCounts, NEW ip \in RemoteIps, NEW at \in Times, sending[ip][at] > 0,
           Script(ip, at), now' = now
    PROVE  HashCounts'
  <1> DEFINE r == Read(ip, at)
             w == WithFailure(r, at)
             ttl == TimeToLive(w, at)
             S == IF ttl <= 0 THEN {} ELSE {[w EXCEPT !.expires = now + ttl]}
             more == [counted[ip] EXCEPT ![at] = @ + 1]
  <1>1. /\ hash' = [hash EXCEPT ![ip] = S]
        /\ counted' = [counted EXCEPT ![ip][at] = @ + 1]
    BY DEF Script
  <1>2. /\ now \in Nat /\ at \in Nat /\ at <= now /\ now <= at + Delay /\ Delay \in Nat
    BY TypedHash, TimesAre DEF IInv, Scripts
  <1>3. counted[ip] \in [Times -> Nat] /\ Past(counted[ip], now)
    BY DEF HashCounts
  <1>4. r \in Hashes /\ CountedBy(counted[ip], r, Delay, now)
    <2>1. CASE hash[ip] = {}
      <3>1. r = NewHash(ip, at)
        BY <2>1 DEF Read
      <3>2. /\ r \in Hashes /\ r.count = 0 /\ r.windowStart = at /\ r.bannedUntil = 0
        BY <3>1, TypedHash, TimesAre DEF NewHash, Hashes
      <3>3. Near(at, Delay) \subseteq Times
        BY DEF Near
      <3>4. SumFunctionOnSet(counted[ip], Near(at, Delay)) \in Nat
        BY <1>3, <3>3, SumOfTimes
      <3>5. 0 <= SumFunctionOnSet(counted[ip], Near(at, Delay))
        BY <3>4
      <3> HIDE DEF r
      <3> QED  BY <1>2, <3>2, <3>5 DEF CountedBy
    <2>2. CASE hash[ip] # {}
      <3>1. r \in hash[ip]
        BY <2>2 DEF Read
      <3> QED  BY <3>1, TypedHash DEF HashCounts
    <2> QED  BY <2>1, <2>2
  <1>5. Fails(r, w, at) /\ Numbers(r) /\ w \in Hashes
    <2> HIDE DEF r
    <2> QED  BY <1>4, FailureFields, WithFailureOfHash
  <1> HIDE DEF r, w
  <1>6. /\ more \in [Times -> Nat] /\ Past(more, now) /\ CountedBy(more, w, Delay, now)
    BY <1>2, <1>3, <1>4, <1>5, FailureCounts
  <1>7. ASSUME NEW g \in S
        PROVE  CountedBy(more, g, Delay, now)
    <2>1. g = [w EXCEPT !.expires = now + ttl]
      BY <1>7
    <2> HIDE DEF ttl, S, more
    <2>2. /\ g.count = w.count /\ g.windowStart = w.windowStart
          /\ g.bannedUntil = w.bannedUntil
      BY <1>5, <2>1 DEF Hashes
    <2> QED  BY <1>6, <2>2 DEF CountedBy
  <1> HIDE DEF ttl, S
  <1>8. /\ counted' \in [RemoteIps -> [Times -> Nat]]
        /\ counted'[ip] = more
        /\ \A o \in RemoteIps : o # ip => counted'[o] = counted[o]
    <2>1. counted \in [RemoteIps -> [Times -> Nat]]
      BY DEF HashCounts
    <2>2. counted' = [counted EXCEPT ![ip] = more]
      BY <1>1, <2>1
    <2> HIDE DEF more
    <2> QED  BY <1>6, <2>1, <2>2
  <1> HIDE DEF more
  <1>9. /\ hash'[ip] = S /\ \A o \in RemoteIps : o # ip => hash'[o] = hash[o]
    BY <1>1, PartsOf DEF RedisInv
  <1>10. ASSUME NEW o \in RemoteIps
         PROVE  /\ Past(counted'[o], now)
                /\ \A h \in hash'[o] : CountedBy(counted'[o], h, Delay, now)
    <2>1. CASE o = ip
      BY <1>6, <1>7, <1>8, <1>9, <2>1
    <2>2. CASE o # ip
      BY <1>8, <1>9, <2>2 DEF HashCounts
    <2> QED  BY <2>1, <2>2
  <1> QED  BY <1>8, <1>10 DEF HashCounts

LEMMA FewerHashes ==
    ASSUME IInv, HashCounts, counted' = counted, now' = now \/ now' = now + 1,
           \A ip \in RemoteIps : hash'[ip] \subseteq hash[ip]
    PROVE  HashCounts'
  <1>1. now \in Nat /\ now' \in Nat /\ now <= now'
    <2>1. now \in Nat
      BY PartsOf, TypedMap, TimesAre
    <2> QED  BY <2>1
  <1>2. ASSUME NEW ip \in RemoteIps
        PROVE  /\ Past(counted[ip], now')
               /\ \A h \in hash'[ip] : CountedBy(counted[ip], h, Delay, now')
    <2>1. \A t \in Times : t <= now => t <= now'
      BY <1>1, TimesAre
    <2>2. Past(counted[ip], now')
      BY <2>1 DEF HashCounts, Past
    <2>3. ASSUME NEW h \in hash'[ip]
          PROVE  CountedBy(counted[ip], h, Delay, now')
      <3>1. CountedBy(counted[ip], h, Delay, now) /\ h \in Hashes
        BY <2>3, TypedHash DEF HashCounts
      <3>2. h.windowStart \in Nat
        BY <3>1, TimesAre DEF Hashes
      <3>3. h.windowStart <= now'
        BY <1>1, <3>1, <3>2 DEF CountedBy
      <3> QED  BY <3>1, <3>3 DEF CountedBy
    <2> QED  BY <2>2, <2>3
  <1> QED  BY <1>2 DEF HashCounts

LEMMA SameHashes ==
    ASSUME IInv, HashCounts, UNCHANGED redis, now' = now \/ now' = now + 1
    PROVE  HashCounts'
  BY FewerHashes DEF redis

LEMMA CountStep ==
    ASSUME IInv, CountInv, [StoreNext]_allVars
    PROVE  CountInv'
  <1> USE DEF CountInv
  <1>1. LocalInv
    BY PartsOf
  <1>2. CASE UNCHANGED allVars
    <2>1. UNCHANGED vars /\ UNCHANGED redis /\ now' = now
      BY <1>2 DEF allVars, vars
    <2> QED  BY <1>1, <2>1, LocalCounts, SameHashes
  <1>3. CASE StoreNext /\ ~remote
    <2>1. Next /\ UNCHANGED redis
      BY <1>3 DEF StoreNext
    <2>2. now' = now \/ now' = now + 1
      BY <2>1 DEF Next, RecordAuthFailure, IsAuthBanned, EvictExpiredAuthFailures, Tick
    <2> QED  BY <1>1, <2>1, <2>2, LocalCounts, SameHashes
  <1>4. CASE StoreNext /\ remote
    <2>1. RemoteNext
      BY <1>4 DEF StoreNext
    <2>2. ASSUME UNCHANGED vars, UNCHANGED redis
          PROVE  CountInv'
      BY <1>1, <2>2, LocalCounts, SameHashes DEF vars
    <2>3. ASSUME NEW ip \in RemoteIps, NEW at \in Times, Recorded(ip, at)
          PROVE  CountInv'
      <3>1. sending[ip][at] > 0 /\ ip \in Ips
        BY <2>3, RemoteBounds DEF Recorded
      <3>2. /\ Script(ip, at) \/ UNCHANGED redis
            /\ RecordAuthFailure(ip) \/ UNCHANGED vars
        BY <2>3, Zenon DEF Recorded
      <3>3. now' = now /\ (Next \/ UNCHANGED vars)
        BY <3>1, <3>2 DEF RecordAuthFailure, vars, Next
      <3> QED  BY <1>1, <3>1, <3>2, <3>3, LocalCounts, ScriptCounts, SameHashes
    <2>4. ASSUME NEW ip \in RemoteIps, CheckFails(ip)
          PROVE  CountInv'
      <3>1. (IsAuthBanned(ip) \/ UNCHANGED vars) /\ UNCHANGED redis /\ ip \in Ips
        BY <2>4, RemoteBounds DEF CheckFails, redis
      <3>2. now' = now /\ (Next \/ UNCHANGED vars)
        BY <3>1 DEF IsAuthBanned, vars, Next
      <3> QED  BY <1>1, <3>1, <3>2, LocalCounts, SameHashes
    <2>5. ASSUME NEW d \in deletes, Deleted(d)
          PROVE  CountInv'
      <3>1. /\ hash' = [hash EXCEPT ![d.ip] = {}] /\ counted' = counted /\ UNCHANGED vars
        BY <2>5 DEF Deleted
      <3>2. \A ip \in RemoteIps : hash'[ip] \subseteq hash[ip]
        BY <3>1, PartsOf DEF RedisInv
      <3>3. now' = now
        BY <3>1 DEF vars
      <3> QED  BY <1>1, <3>1, <3>2, <3>3, LocalCounts, FewerHashes
    <2>6. CASE RemoteTick
      <3>1. /\ Tick /\ hash' = [ip \in RemoteIps |-> {h \in hash[ip] : h.expires > now'}]
            /\ counted' = counted
        BY <2>6 DEF RemoteTick
      <3>2. \A ip \in RemoteIps : hash'[ip] \subseteq hash[ip]
        BY <3>1
      <3>3. Next /\ now' = now + 1
        BY <3>1 DEF Next, Tick
      <3> QED  BY <1>1, <3>1, <3>2, <3>3, LocalCounts, FewerHashes
    <2>7. ASSUME NEW ip \in RemoteIps, Record(ip) \/ Check(ip) \/ HashRead(ip) \/ Checked(ip)
          PROVE  CountInv'
      BY <2>2, <2>7 DEF Record, Check, HashRead, Checked
    <2>8. ASSUME NEW d \in deletes, DeleteFails(d)
          PROVE  CountInv'
      BY <2>2, <2>8 DEF DeleteFails
    <2> QED  BY <2>1, <2>3, <2>4, <2>5, <2>6, <2>7, <2>8 DEF RemoteNext
  <1> QED  BY <1>2, <1>3, <1>4

LEMMA InitCounts ==
    ASSUME RemoteInit
    PROVE  CountInv
  <1>1. /\ now = 1 /\ authFailures = <<>>
        /\ failures = [ip \in Ips |-> [t \in Times |-> 0]]
        /\ hash = [ip \in RemoteIps |-> {}]
        /\ counted = [ip \in RemoteIps |-> [t \in Times |-> 0]]
    BY DEF RemoteInit, Init, None
  <1>2. /\ FewForgotten([t \in Times |-> 0], 1) /\ Past([t \in Times |-> 0], 1)
    BY NoneFew DEF Past
  <1>3. MapCounts
    BY <1>1, <1>2 DEF MapCounts
  <1>4. HashCounts
    BY <1>1, <1>2 DEF HashCounts
  <1> QED  BY <1>3, <1>4 DEF CountInv

LEMMA AlwaysCounts == StoreSpec => [](IInv /\ CountInv)
  <1>1. RemoteInit => IInv /\ CountInv
    BY InitEstablishes, InitCounts
  <1>2. IInv /\ CountInv /\ [StoreNext]_allVars => (IInv /\ CountInv)'
    BY StoreStep, CountStep DEF Keeps
  <1> QED  BY <1>1, <1>2, PTL DEF StoreSpec

(* No IP is banned but for a threshold of failures within one window, nor in *)
(* Redis but for that many scripts within a window that is a Delay wider on  *)
(* either side: those of another IP, or of another time, are not counted.    *)
THEOREM BansAreDeserved == StoreSpec => []BansDeserved
  <1>1. ASSUME IInv, CountInv
        PROVE  BansDeserved
    <2>1. ASSUME NEW r \in ToSet(authFailures), r.bannedUntil # 0
          PROVE  FailuresBefore(r.ip, r.bannedUntil - BanDuration) >= Threshold
      <3>1. PICK k \in DOMAIN authFailures : r = authFailures[k]
        BY <1>1, PartsOf, TypedMap
      <3> DEFINE t == r.bannedUntil - BanDuration
      <3>2. SumFunctionOnSet(failures[r.ip], Around(t, 0)) >= Threshold
        BY <1>1, <2>1, <3>1 DEF CountInv, MapCounts, CountedBy
      <3>3. r.bannedUntil \in Nat
        BY <1>1, <3>1, PartsOf, TypedRecord DEF Numbers
      <3>4. t \in Int
        BY <3>3, Constants
      <3> HIDE DEF t
      <3>5. \A u \in Times : t - Window - 0 <= u /\ u <= t + 0 <=> u <= t /\ t <= u + Window
        BY <3>4, TimesAre, Constants
      <3>6. Around(t, 0) = {u \in Times : u <= t /\ t <= u + Window}
        BY <3>5 DEF Around
      <3> QED  BY <3>2, <3>6 DEF FailuresBefore, t
    <2>2. ASSUME NEW ip \in RemoteIps, NEW h \in hash[ip], h.bannedUntil # 0
          PROVE  SumFunctionOnSet(counted[ip], Around(h.bannedUntil - BanDuration, Delay)) >= Threshold
      BY <1>1, <2>2 DEF CountInv, HashCounts, CountedBy
    <2> QED  BY <2>1, <2>2 DEF BansDeserved, BanDeserved, Around
  <1> QED  BY <1>1, AlwaysCounts, PTL

(* An IP that is not banned has failed at most 3 * Threshold - 4 times       *)
(* within the last window, as far as the Map has not forgotten it: there is  *)
(* no sequence of failures, checks and sweeps that lets it fail more often.  *)
THEOREM BurstsAreBounded == StoreSpec => []BurstBounded
  <1>1. ASSUME IInv, CountInv
        PROVE  BurstBounded
    <2> SUFFICES ASSUME NEW ip \in Ips, ~Banned(ip)
                 PROVE  FailuresBefore(ip, now) <= Unpunished
      BY DEF BurstBounded
    <2>1. LocalInv /\ failures[ip] \in [Times -> Nat] /\ now \in Nat
      BY <1>1, PartsOf, TypedFailures, TypedMap, TimesAre
    <2>2. CASE \A i \in DOMAIN authFailures : authFailures[i].ip # ip
      <3>1. FewForgotten(failures[ip], now)
        BY <1>1, <2>2 DEF CountInv, MapCounts
      <3> QED  BY <2>1, <3>1, FewUnpunished DEF FailuresBefore
    <2>3. CASE ~\A i \in DOMAIN authFailures : authFailures[i].ip # ip
      <3>1. PICK k \in DOMAIN authFailures : authFailures[k].ip = ip
        BY <2>3
      <3> DEFINE r == authFailures[k]
      <3>2. Few(failures[ip], r, now)
        BY <1>1, <3>1 DEF CountInv, MapCounts
      <3>3. Numbers(r) /\ r \in Of(authFailures, ip)
        BY <2>1, <3>1, TypedRecord, OfIs
      <3>4. r.bannedUntil # 0 => now >= r.bannedUntil
        <4>1. r.bannedUntil # 0 => ~(now < r.bannedUntil)
          BY <3>3 DEF Banned
        <4>2. r.bannedUntil \in Nat
          BY <3>3 DEF Numbers
        <4> QED  BY <2>1, <4>1, <4>2
      <3> HIDE DEF r
      <3> QED  BY <2>1, <3>2, <3>3, <3>4, FewUnpunished DEF FailuresBefore
    <2> QED  BY <2>2, <2>3
  <1> QED  BY <1>1, AlwaysCounts, PTL
=============================================================================
