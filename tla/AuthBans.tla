------------------------------ MODULE AuthBans ------------------------------
(* The ban of IPs for repeated auth failures: recordAuthFailure and          *)
(* isAuthBanned of src/routes/ws.ts on the InMemoryStore of                  *)
(* src/middleware/shared-store.ts, with the sweep of stale records. The      *)
(* store's methods contain no await, so each is one step; failures come from *)
(* new connections and, without a ban check, from connected clients.         *)
EXTENDS Integers, Sequences, FiniteSets, SequencesExt, JsMap

CONSTANTS
    Ips,
    Window,       \* AUTH_FAILURE_WINDOW_MS
    Threshold,    \* AUTH_FAILURE_BAN_THRESHOLD
    BanDuration,  \* AUTH_FAILURE_BAN_DURATION_MS
    MaxEntries,   \* MAX_AUTH_FAILURE_ENTRIES
    MaxTime,      \* bound: the clock stops here
    MaxFailures   \* bound: failures of a behaviour

ASSUME BoundsPositive ==
    /\ Window \in Nat \ {0} /\ Threshold \in Nat \ {0, 1} /\ BanDuration \in Nat \ {0}
    /\ MaxEntries \in Nat \ {0} /\ MaxTime \in Nat \ {0} /\ MaxFailures \in Nat
(* 60 s < 300 s: the failures a ban was for are out of the window at its end.*)
ASSUME WindowBeforeBan == Window < BanDuration

VARIABLES
    now,          \* Date.now()
    authFailures, \* the Map, oldest first: [ip, count, windowStart, bannedUntil]
    failures,     \* history: failures[ip][t], those the Map had no eviction after
    recorded      \* history: how many failures there were

vars == <<now, authFailures, failures, recorded>>

Times == 0..MaxTime
Records == [ip : Ips, count : Nat, windowStart : Times,
            bannedUntil : 0..(MaxTime + BanDuration)]

TypeOK ==
    /\ now \in Times
    /\ authFailures \in Seq(Records)
    /\ \A i, j \in DOMAIN authFailures :
         authFailures[i].ip = authFailures[j].ip => i = j
    /\ Len(authFailures) <= MaxEntries
    /\ failures \in [Ips -> [Times -> 0..MaxFailures]]
    /\ recorded \in 0..MaxFailures

Init ==
    /\ now = 1   \* not 0, which stands for "never" in bannedUntil
    /\ authFailures = <<>>
    /\ failures = [ip \in Ips |-> [t \in Times |-> 0]]
    /\ recorded = 0

----------------------------------------------------------------------------
Of(map, ip) == {r \in ToSet(map) : r.ip = ip}
Without(map, ip) == Kept(map, {r \in ToSet(map) : r.ip # ip})

(* The record of an IP, appended to the Map if there is none; a full Map     *)
(* loses its oldest record, banned or not.                                   *)
New(ip, at) == [ip |-> ip, count |-> 0, windowStart |-> at, bannedUntil |-> 0]
Evicts(ip) == Of(authFailures, ip) = {} /\ Len(authFailures) >= MaxEntries
WithRecord(ip) ==
    IF Of(authFailures, ip) # {} THEN authFailures
    ELSE Append(IF Evicts(ip) THEN Tail(authFailures) ELSE authFailures, New(ip, now))

(* One more failure, at a time, in the record's window or in a new one.      *)
CountedForEver(r, at) == [r EXCEPT !.count = @ + 1]
Counted(r, at) ==
    IF at - r.windowStart > Window
      THEN [r EXCEPT !.count = 1, !.windowStart = at]
      ELSE [r EXCEPT !.count = @ + 1]

BannedIfMore(r, at) ==
    IF r.count > Threshold THEN [r EXCEPT !.bannedUntil = at + BanDuration] ELSE r
BannedIfEnough(r, at) ==
    IF r.count >= Threshold THEN [r EXCEPT !.bannedUntil = at + BanDuration] ELSE r
WithFailure(r, at) == BannedIfEnough(Counted(r, at), at)

RecordAuthFailure(ip) ==
    /\ recorded < MaxFailures /\ recorded' = recorded + 1
    /\ LET map == WithRecord(ip)
       IN authFailures' = [i \in DOMAIN map |->
              IF map[i].ip = ip THEN WithFailure(map[i], now) ELSE map[i]]
    /\ LET forgotten == IF Evicts(ip) THEN {Head(authFailures).ip} ELSE {}
       IN failures' = [i \in Ips |->
              IF i \in forgotten THEN [t \in Times |-> 0]
              ELSE IF i = ip THEN [failures[i] EXCEPT ![now] = @ + 1]
              ELSE failures[i]]
    /\ UNCHANGED now

Banned(ip) == \E r \in Of(authFailures, ip) : r.bannedUntil # 0 /\ now < r.bannedUntil

(* isAuthBanned, at the start of a connection: an expired ban is deleted.    *)
BanExpired(ip) ==
    \E r \in Of(authFailures, ip) : r.bannedUntil # 0 /\ now >= r.bannedUntil
IsAuthBanned(ip) ==
    /\ BanExpired(ip)
    /\ authFailures' = Without(authFailures, ip)
    /\ UNCHANGED <<now, failures, recorded>>

(* The sweep, an interval: a ban is kept one more ban duration, a record     *)
(* without a ban for two windows.                                            *)
Stale(r) == IF r.bannedUntil > 0 THEN now >= r.bannedUntil + BanDuration
                                 ELSE now - r.windowStart > Window * 2
EvictExpiredAuthFailures ==
    /\ \E r \in ToSet(authFailures) : Stale(r)
    /\ authFailures' = Kept(authFailures, {r \in ToSet(authFailures) : ~Stale(r)})
    /\ UNCHANGED <<now, failures, recorded>>

Tick == now < MaxTime /\ now' = now + 1 /\ UNCHANGED <<authFailures, failures, recorded>>

Next ==
    \/ \E ip \in Ips : RecordAuthFailure(ip) \/ IsAuthBanned(ip)
    \/ EvictExpiredAuthFailures
    \/ Tick

Spec == Init /\ [][Next]_vars
----------------------------------------------------------------------------
(* The failures of an IP in the Window that ends at time t.                  *)
FailuresBefore(ip, t) ==
    SumFunctionOnSet(failures[ip], {u \in Times : u <= t /\ t <= u + Window})

(* No IP is banned but for Threshold failures within one window: failures    *)
(* spread wider, and those of another IP, never add up to a ban.             *)
BanDeserved ==
    \A r \in ToSet(authFailures) :
        r.bannedUntil # 0 => FailuresBefore(r.ip, r.bannedUntil - BanDuration) >= Threshold

(* A ban lasts: until its end no check, sweep, further failure or new window *)
(* of the counter lifts or shortens it. What does is the loss of the record  *)
(* to the failure of another IP when the Map is full.                        *)
BanHolds ==
    [][\A r \in ToSet(authFailures) :
         now' < r.bannedUntil =>
             \/ \E kept \in Of(authFailures', r.ip) : kept.bannedUntil >= r.bannedUntil
             \/ /\ Len(authFailures) = MaxEntries /\ r = Head(authFailures)
                /\ \E ip \in Ips \ {r.ip} : Of(authFailures, ip) = {}
                                          /\ Of(authFailures', ip) # {}]_vars

(* The window of the counter is fixed, not the rolling one of ws.ts 118, and *)
(* isAuthBanned deletes what was counted since an expired ban with it. So an *)
(* IP can spend nearly three thresholds within one window and not be banned  *)
(* (26 failures of a threshold of 10), but no more, as far as the Map has    *)
(* not forgotten it.                                                         *)
Unpunished == 3 * Threshold - 4
BurstBounded ==
    \A ip \in Ips : ~Banned(ip) => FailuresBefore(ip, now) <= Unpunished
=============================================================================
