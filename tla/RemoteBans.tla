----------------------------- MODULE RemoteBans -----------------------------
(* The bans of AuthBans on the SharedStore that getSharedStore() chose: the  *)
(* InMemoryStore, or the UpstashStore, which keeps a hash with a TTL in      *)
(* Redis and repeats a call that failed on an InMemoryStore of its own (the  *)
(* variables of AuthBans are then those of this fallback). Calls to Redis    *)
(* are not ordered: recordAuthFailure is not awaited by its callers, and     *)
(* isAuthBanned deletes an expired ban by a command of its own.              *)
EXTENDS AuthBans

CONSTANTS
    RemoteIps,  \* bound: the IPs that are used with a remote store
    Delay,      \* within which a command is answered or has failed
    MaxFaults   \* bound: failed calls

ASSUME RemoteBounds == RemoteIps \subseteq Ips /\ Delay \in Nat /\ MaxFaults \in Nat

VARIABLES
    remote,   \* getSharedStore() is an UpstashStore
    hash,     \* hash[ip]: none or one record of Redis, with its expiry
    sending,  \* sending[ip][t]: recordAuthFailure scripts sent at time t
    check,    \* check[ip]: the isAuthBanned call in progress, if any
    deletes,  \* [ip, at]: the DEL commands on their way
    counted,  \* history: counted[ip][t], the scripts of time t Redis has executed
    sent,     \* history: how many scripts were sent
    faults    \* history: failed calls

redis == <<hash, counted>>
calls == <<sending, check, deletes, sent, faults>>
allVars == <<vars, remote, redis, calls>>

NoCheck == [at |-> -1, answer |-> -1]
Checks == [at : Times, answer : -1..(MaxTime + BanDuration)]  \* -1: not executed
None == [t \in Times |-> 0]

Hashes == [ip : Ips, count : Nat, windowStart : Times,
           bannedUntil : 0..(MaxTime + BanDuration), expires : Nat]

RemoteTypeOK ==
    /\ TypeOK
    /\ remote \in BOOLEAN
    /\ hash \in [RemoteIps -> SUBSET Hashes]
    /\ \A ip \in RemoteIps :
         /\ Cardinality(hash[ip]) <= 1
         /\ \A h \in hash[ip] : h.ip = ip /\ h.expires > now
    /\ check \in [RemoteIps -> Checks \union {NoCheck}]
    /\ sending \in [RemoteIps -> [Times -> 0..MaxFailures]]
    /\ sent \in 0..MaxFailures
    /\ deletes \subseteq [ip : RemoteIps, at : Times]
    /\ faults \in 0..MaxFaults

RemoteInit ==
    /\ Init
    /\ remote \in BOOLEAN
    /\ hash = [ip \in RemoteIps |-> {}]
    /\ sending = [ip \in RemoteIps |-> None] /\ counted = [ip \in RemoteIps |-> None]
    /\ check = [ip \in RemoteIps |-> NoCheck]
    /\ deletes = {}
    /\ sent = 0 /\ faults = 0

----------------------------------------------------------------------------
(* recordAuthFailure sends the script with the time of the failure.          *)
Record(ip) ==
    /\ sent < MaxFailures /\ sent' = sent + 1
    /\ sending' = [sending EXCEPT ![ip][now] = @ + 1]
    /\ UNCHANGED <<vars, redis, check, deletes, faults>>

(* The script: the record is read or made, counted and written back, to live *)
(* a ban duration longer than its ban, or two windows. Redis deletes a key   *)
(* at once whose time to live is not positive.                               *)
NewHash(ip, at) ==
    [ip |-> ip, count |-> 0, windowStart |-> at, bannedUntil |-> 0, expires |-> 0]
Read(ip, at) == IF hash[ip] = {} THEN NewHash(ip, at) ELSE CHOOSE h \in hash[ip] : TRUE
TimeToLive(h, at) == IF h.bannedUntil > 0 THEN h.bannedUntil - at + BanDuration
                                          ELSE Window * 2
Script(ip, at) ==
    LET h == WithFailure(Read(ip, at), at)
        ttl == TimeToLive(h, at)
    IN /\ hash' = [hash EXCEPT ![ip] =
            IF ttl <= 0 THEN {} ELSE {[h EXCEPT !.expires = now + ttl]}]
       /\ counted' = [counted EXCEPT ![ip][at] = @ + 1]

(* A call succeeds, or it fails, executed or not, and the fallback is used.  *)
Outcome(executed, failed) ==
    /\ executed \/ failed
    /\ failed => faults < MaxFaults
    /\ faults' = IF failed THEN faults + 1 ELSE faults

Recorded(ip, at) ==
    /\ sending[ip][at] > 0
    /\ sending' = [sending EXCEPT ![ip][at] = @ - 1]
    /\ \E executed, failed \in BOOLEAN :
         /\ Outcome(executed, failed)
         /\ IF executed THEN Script(ip, at) ELSE UNCHANGED redis
         /\ IF failed THEN RecordAuthFailure(ip) ELSE UNCHANGED vars
    /\ UNCHANGED <<check, deletes, sent>>

----------------------------------------------------------------------------
(* isAuthBanned sends HGET; Redis reads the ban, 0 for no record.            *)
Check(ip) ==
    /\ check[ip] = NoCheck
    /\ check' = [check EXCEPT ![ip] = [at |-> now, answer |-> -1]]
    /\ UNCHANGED <<vars, redis, sending, deletes, sent, faults>>

HashRead(ip) ==
    /\ check[ip] # NoCheck /\ check[ip].answer = -1
    /\ check' = [check EXCEPT ![ip].answer =
                   IF hash[ip] = {} THEN 0 ELSE Read(ip, now).bannedUntil]
    /\ UNCHANGED <<vars, redis, sending, deletes, sent, faults>>

(* The answer arrives; an expired ban is deleted without waiting for that.   *)
DeletesAnyBan(answer) == answer > 0
DeletesBan(answer) == answer > 0 /\ now >= answer
Checked(ip) ==
    /\ check[ip] # NoCheck /\ check[ip].answer >= 0
    /\ check' = [check EXCEPT ![ip] = NoCheck]
    /\ deletes' = IF DeletesBan(check[ip].answer)
                    THEN deletes \union {[ip |-> ip, at |-> now]} ELSE deletes
    /\ UNCHANGED <<vars, redis, sending, sent, faults>>

(* The call fails, and the fallback answers.                                 *)
CheckFails(ip) ==
    /\ check[ip] # NoCheck
    /\ check' = [check EXCEPT ![ip] = NoCheck]
    /\ Outcome(FALSE, TRUE)
    /\ IF BanExpired(ip) THEN IsAuthBanned(ip) ELSE UNCHANGED vars
    /\ UNCHANGED <<redis, sending, deletes, sent>>

Deleted(d) ==
    /\ d \in deletes
    /\ deletes' = deletes \ {d}
    /\ hash' = [hash EXCEPT ![d.ip] = {}]
    /\ UNCHANGED <<vars, counted, sending, check, sent, faults>>

(* A failed DEL is ignored.                                                  *)
DeleteFails(d) ==
    /\ d \in deletes
    /\ deletes' = deletes \ {d}
    /\ Outcome(FALSE, TRUE)
    /\ UNCHANGED <<vars, redis, sending, check, sent>>

(* Time goes on when no command is at the end of its delay; keys expire.     *)
Overdue(at) == now >= at + Delay
RemoteTick ==
    /\ \A ip \in RemoteIps :
         /\ check[ip] # NoCheck => ~Overdue(check[ip].at)
         /\ \A t \in Times : sending[ip][t] > 0 => ~Overdue(t)
    /\ \A d \in deletes : ~Overdue(d.at)
    /\ Tick
    /\ hash' = [ip \in RemoteIps |-> {h \in hash[ip] : h.expires > now'}]
    /\ UNCHANGED <<counted, calls>>

RemoteNext ==
    \/ \E ip \in RemoteIps :
         \/ Record(ip) \/ \E t \in Times : Recorded(ip, t)
         \/ Check(ip) \/ HashRead(ip) \/ Checked(ip) \/ CheckFails(ip)
    \/ \E d \in deletes : Deleted(d) \/ DeleteFails(d)
    \/ RemoteTick

StoreNext ==
    /\ IF remote THEN RemoteNext ELSE Next /\ UNCHANGED <<redis, calls>>
    /\ UNCHANGED remote

StoreSpec == RemoteInit /\ [][StoreNext]_allVars
----------------------------------------------------------------------------
(* A ban in Redis is set by Threshold failures within a window, stretched by *)
(* the time a script may be late; BanDeserved of the store in memory.        *)
BansDeserved ==
    /\ BanDeserved
    /\ \A ip \in RemoteIps : \A h \in hash[ip] :
         h.bannedUntil # 0 =>
           LET t == h.bannedUntil - BanDuration IN
           SumFunctionOnSet(counted[ip], {u \in Times :
               t - Window - Delay <= u /\ u <= t + Delay}) >= Threshold

(* A ban holds in Redis as well, with two exceptions in which commands pass  *)
(* each other: a script that is late sets the ban by its own, earlier time,  *)
(* and a DEL meant for an expired ban hits a new one - which is younger than *)
(* the three delays of the script, the HGET and the DEL.                     *)
BansHold ==
    /\ BanHolds
    /\ [][\A ip \in RemoteIps : \A h \in hash[ip] :
           now' < h.bannedUntil =>
             \/ \E kept \in hash'[ip] : kept.bannedUntil >= h.bannedUntil - Delay
             \/ now <= h.bannedUntil - BanDuration + 3 * Delay /\ deletes' # deletes]_allVars
=============================================================================
