--------------------------- MODULE WsConnections ---------------------------
(* Admission, auth upgrade and disconnect of WebSocket clients               *)
(* (src/routes/ws.ts) against the two per-IP connection counters of the      *)
(* SharedStore. The connection handler and the auth branch of the message    *)
(* handler await the store between what they check and what they do; an      *)
(* action here is the code from one await to the next.                       *)
(*   ~remote: InMemoryStore. An await costs a microtask, so nothing but the  *)
(*   handler itself runs until it ends - except that auth messages that      *)
(*   arrive in one chunk are all started before the first resumes.           *)
(*   remote: UpstashStore. An await is a round trip and anything may happen  *)
(*   meanwhile. A call may fail, whether or not Redis has executed it; it is *)
(*   then repeated on the process's own fallback store.                      *)
EXTENDS Integers, FiniteSets

CONSTANTS
    Conns,          \* sockets; one is used again once it is entirely gone
    RemoteConns,    \* bound: those that are used with a remote store
    Ips,
    IpOf,           \* [Conns -> Ips]
    AuthRequired,   \* WS_AUTH_REQUIRED
    AuthMessages,   \* how many auth messages of a client can be in progress
    MaxConnections, \* MAX_WS_CONNECTIONS
    MaxPerIp,       \* MAX_CONNECTIONS_PER_IP
    MaxUnauthPerIp, \* MAX_UNAUTHENTICATED_CONNECTIONS_PER_IP
    MaxFaults       \* bound: failed calls, crashes, expiries, overtaken upgrades

ASSUME ConnsFinite == IsFiniteSet(Conns) /\ IpOf \in [Conns -> Ips]
ASSUME RemoteConnsAreConns == RemoteConns \subseteq Conns
ASSUME ModeBoolean == AuthRequired \in BOOLEAN
ASSUME BudgetsPositive ==
    /\ AuthMessages \in Nat /\ MaxFaults \in Nat
    /\ MaxConnections \in Nat \ {0}
    /\ MaxPerIp \in Nat \ {0}
    /\ MaxUnauthPerIp \in Nat \ {0}

VARIABLES
    remote,        \* getSharedStore() is an UpstashStore, not an InMemoryStore
    sock,          \* readyState of the socket
    step,          \* what the connection handler awaits; "done" when it is over
    clients,       \* the Set of registered clients
    authenticated, \* client.authenticated
    initially,     \* client.initiallyAuthenticated
    upgrade,       \* upgrade[c][i]: what the i-th auth message of c awaits
    count,         \* count[<<kind, ip>>]: the SharedStore's connection counters
    fallback,      \* those of UpstashStore.fallback
    decrements,    \* decrements sent by close handlers and not yet executed
    faults,        \* history: failed calls, crashes, expiries, overtaken upgrades
    miscounts      \* history: miscounts[k], the events that may miscount k by one

vars == <<remote, sock, step, clients, authenticated, initially, upgrade, count,
          fallback, decrements, faults, miscounts>>
flags == <<authenticated, initially>>
store == <<remote, count, fallback, decrements, faults, miscounts>>

Kinds == {"auth", "unauth"}
Keys == Kinds \X Ips
Messages == 1..AuthMessages

Key(kind, c) == <<kind, IpOf[c]>>
Budget(kind) == IF kind = "auth" THEN MaxPerIp ELSE MaxUnauthPerIp

AdmissionSteps == {"ban", "auth count", "unauth count", "increment", "register"}
UpgradeSteps == {"auth count", "decrement", "increment", "mark"}

TypeOK ==
    /\ remote \in BOOLEAN
    /\ sock \in [Conns -> {"none", "open", "closing", "closed"}]
    /\ step \in [Conns -> AdmissionSteps \union {"done"}]
    /\ clients \subseteq Conns
    /\ authenticated \in [Conns -> BOOLEAN]
    /\ initially \in [Conns -> BOOLEAN]
    /\ upgrade \in [Conns -> [Messages -> UpgradeSteps \union {"none"}]]
    /\ {count, fallback, decrements, miscounts} \subseteq [Keys -> Nat]
    /\ faults \in 0..MaxFaults

All(x) == [c \in Conns |-> x]
Zero == [k \in Keys |-> 0]
Init ==
    /\ remote \in BOOLEAN
    /\ sock = All("none") /\ step = All("done") /\ clients = {}
    /\ authenticated = All(FALSE) /\ initially = All(FALSE)
    /\ upgrade = All([i \in Messages |-> "none"])
    /\ count = Zero /\ fallback = Zero /\ decrements = Zero
    /\ faults = 0 /\ miscounts = Zero

----------------------------------------------------------------------------
Upgrading(c) == \E i \in Messages : upgrade[c][i] # "none"

(* No handler is suspended at an await.                                      *)
Quiet == \A c \in Conns : step[c] = "done" /\ ~Upgrading(c)

(* An I/O event is handled between handlers; with a remote store that is     *)
(* also while some of them are suspended.                                    *)
IOEvent == remote \/ Quiet

(* An event after which the counters may be off.                             *)
Fault(happens) ==
    /\ happens => faults < MaxFaults
    /\ faults' = IF happens THEN faults + 1 ELSE faults

(* A suspended upgrade of c is overtaken, by c's close or by another upgrade *)
(* of c: both of c's counters may be off by one when it is done.             *)
Overtaken(c, happens) ==
    /\ Fault(happens)
    /\ miscounts' = [k \in Keys |->
         miscounts[k] + IF happens /\ k[2] = IpOf[c] THEN 1 ELSE 0]

(* getConnectionCount: an answer n, of the fallback if the call fails.       *)
Answers(kind, c) == {count[Key(kind, c)], fallback[Key(kind, c)]}
Counted(kind, c, n) ==
    /\ \E failed \in BOOLEAN :
         /\ failed => remote
         /\ Fault(failed)
         /\ n = IF failed THEN fallback[Key(kind, c)] ELSE count[Key(kind, c)]
    /\ UNCHANGED <<remote, count, fallback, decrements, miscounts>>

Plus(n, by) == IF n + by < 0 THEN 0 ELSE n + by  \* DEL below one

(* A counter changes by 1 or -1; a call that fails may have been executed    *)
(* and is repeated on the fallback.                                          *)
Written(k, by) ==
    \E executed, failed \in BOOLEAN :
        /\ executed \/ failed
        /\ failed => remote
        /\ Fault(failed)
        /\ count' = IF executed THEN [count EXCEPT ![k] = Plus(@, by)] ELSE count
        /\ fallback' = IF failed THEN [fallback EXCEPT ![k] = Plus(@, by)] ELSE fallback
        /\ miscounts' = IF failed THEN [miscounts EXCEPT ![k] = @ + 1] ELSE miscounts

Incremented(kind, c) ==
    Written(Key(kind, c), 1) /\ UNCHANGED <<remote, decrements>>
Decremented(kind, c) ==
    Written(Key(kind, c), -1) /\ UNCHANGED <<remote, decrements>>
GoTo(c, s) == step' = [step EXCEPT ![c] = s]

(* The limits as they are checked.                                           *)
FullOffByOne == Cardinality(clients) > MaxConnections
Full == Cardinality(clients) >= MaxConnections
Spent(kind, n) == n >= Budget(kind)

(* ws.close(1008): an open socket starts its closing handshake.              *)
StartCloseForgotten(c) == UNCHANGED sock
StartClose(c) == sock' = [sock EXCEPT ![c] = IF @ = "open" THEN "closing" ELSE @]

(* The handler returns without registering the socket.                       *)
Reject(c) == StartClose(c) /\ GoTo(c, "done")

(* connection, up to the first await: the server-wide limit is checked.      *)
Connect(c) ==
    /\ IOEvent
    /\ remote => c \in RemoteConns
    /\ sock[c] = "none" /\ step[c] = "done" /\ c \notin clients
    /\ IF Full
         THEN sock' = [sock EXCEPT ![c] = "closing"] /\ UNCHANGED step
         ELSE sock' = [sock EXCEPT ![c] = "open"] /\ GoTo(c, "ban")
    /\ UNCHANGED <<clients, flags, upgrade, store>>

(* isAuthBanned has answered; the token of the URL, if any, is verified.     *)
BanAnswered(c) ==
    /\ step[c] = "ban"
    /\ \/ Reject(c) /\ UNCHANGED flags
       \/ /\ \E valid \in BOOLEAN :
               /\ ~AuthRequired => valid
               /\ authenticated' = [authenticated EXCEPT ![c] = valid]
               /\ initially' = [initially EXCEPT ![c] = valid]
          /\ GoTo(c, "auth count")
          /\ UNCHANGED sock
    /\ UNCHANGED <<clients, upgrade, store>>

(* The auth count is there. It decides for an authenticated socket only; the *)
(* other one asks for the unauth count.                                      *)
AuthCountAnswered(c) ==
    /\ step[c] = "auth count"
    /\ \E n \in Answers("auth", c) :
         /\ Counted("auth", c, n)
         /\ IF ~authenticated[c]
              THEN GoTo(c, "unauth count") /\ UNCHANGED sock
              ELSE IF Spent("auth", n)
                     THEN Reject(c)
                     ELSE GoTo(c, "increment") /\ UNCHANGED sock
    /\ UNCHANGED <<clients, flags, upgrade>>

UnauthCountAnswered(c) ==
    /\ step[c] = "unauth count"
    /\ \E n \in Answers("unauth", c) :
         /\ Counted("unauth", c, n)
         /\ IF Spent("unauth", n)
              THEN Reject(c)
              ELSE GoTo(c, "increment") /\ UNCHANGED sock
    /\ UNCHANGED <<clients, flags, upgrade>>

(* The counter the socket was put into (initiallyAuthenticated).             *)
KindNow(c) == IF authenticated[c] THEN "auth" ELSE "unauth"
Kind(c) == IF initially[c] THEN "auth" ELSE "unauth"

(* The store executes the increment of the admission.                        *)
AdmissionIncrement(c) ==
    /\ step[c] = "increment"
    /\ Incremented(Kind(c), c)
    /\ GoTo(c, "register")
    /\ UNCHANGED <<sock, clients, flags, upgrade>>

(* The client is created and joins clients, its handlers are attached. No    *)
(* check is made again, of the limit or of the socket: of one that is closed *)
(* the client stays for ever, and so does its count.                         *)
Register(c) ==
    /\ step[c] = "register"
    /\ clients' = clients \union {c}
    /\ GoTo(c, "done")
    /\ miscounts' = IF sock[c] = "closed"
                      THEN [miscounts EXCEPT ![Key(Kind(c), c)] = @ + 1] ELSE miscounts
    /\ UNCHANGED <<sock, flags, upgrade, remote, count, fallback, decrements, faults>>

----------------------------------------------------------------------------
(* Local: the first auth message of a chunk arrives between handlers; those  *)
(* behind it are started before the first one resumes.                       *)
SameChunk(c) ==
    /\ \A d \in Conns : step[d] = "done" /\ (d # c => ~Upgrading(d))
    /\ \A i \in Messages : upgrade[c][i] \in {"none", "auth count"}

(* A valid auth message, up to its first await; the handlers of a client's   *)
(* messages are told apart by a number, the least that is free.              *)
AuthMessage(c) ==
    /\ IOEvent \/ SameChunk(c)
    /\ c \in clients /\ sock[c] \in {"open", "closing"}
    /\ authenticated' = [authenticated EXCEPT ![c] = TRUE]
    /\ \E i \in Messages :
         /\ upgrade[c][i] = "none" /\ \A j \in 1..(i - 1) : upgrade[c][j] # "none"
         /\ IF initially[c]
              THEN UNCHANGED upgrade
              ELSE upgrade' = [upgrade EXCEPT ![c][i] = "auth count"]
    /\ Overtaken(c, Upgrading(c) /\ ~initially[c])
    /\ UNCHANGED <<sock, step, clients, initially, remote, count, fallback, decrements>>

(* The auth count decides whether the client may change budget.              *)
UpgradeCountAnswered(c, i) ==
    /\ upgrade[c][i] = "auth count"
    /\ \E n \in Answers("auth", c) :
         /\ Counted("auth", c, n)
         /\ IF Spent("auth", n)
              THEN StartClose(c) /\ upgrade' = [upgrade EXCEPT ![c][i] = "none"]
              ELSE UNCHANGED sock /\ upgrade' = [upgrade EXCEPT ![c][i] = "decrement"]
    /\ UNCHANGED <<step, clients, flags>>

UpgradeDecrement(c, i) ==
    /\ upgrade[c][i] = "decrement"
    /\ Decremented("unauth", c)
    /\ upgrade' = [upgrade EXCEPT ![c][i] = "increment"]
    /\ UNCHANGED <<sock, step, clients, flags>>

UpgradeIncrement(c, i) ==
    /\ upgrade[c][i] = "increment"
    /\ Incremented("auth", c)
    /\ upgrade' = [upgrade EXCEPT ![c][i] = "mark"]
    /\ UNCHANGED <<sock, step, clients, flags>>

(* The last continuation sets initiallyAuthenticated.                        *)
UpgradeMark(c, i) ==
    /\ upgrade[c][i] = "mark"
    /\ initially' = [initially EXCEPT ![c] = TRUE]
    /\ upgrade' = [upgrade EXCEPT ![c][i] = "none"]
    /\ UNCHANGED <<sock, step, clients, authenticated, store>>

----------------------------------------------------------------------------
(* The peer's close frame, or a close by one of the server's timers.         *)
BeginClosing(c) ==
    /\ IOEvent
    /\ sock[c] = "open"
    /\ StartClose(c)
    /\ UNCHANGED <<step, clients, flags, upgrade, store>>

(* Close handlers' decrements are sent and not awaited: the in-memory store  *)
(* executes them at once, a remote one later. An upgrade of the client that  *)
(* is suspended goes on, moving a count that is no longer the client's.      *)
Released(c) ==
    /\ Overtaken(c, Upgrading(c))
    /\ IF remote
         THEN /\ decrements' = [decrements EXCEPT ![Key(Kind(c), c)] = @ + 1]
              /\ UNCHANGED count
         ELSE /\ count' = [count EXCEPT ![Key(Kind(c), c)] = Plus(@, -1)]
              /\ UNCHANGED decrements
    /\ UNCHANGED <<remote, fallback>>

(* The socket is gone; it may stand for another one when no handler is       *)
(* suspended that refers to it.                                              *)
Idle(c) == step[c] = "done" /\ ~Upgrading(c)
Gone(c) ==
    /\ sock' = [sock EXCEPT ![c] = IF Idle(c) THEN "none" ELSE "closed"]
    /\ authenticated' = [authenticated EXCEPT ![c] = @ /\ ~Idle(c)]
    /\ initially' = [initially EXCEPT ![c] = @ /\ ~Idle(c)]

(* The close handler of a registered client.                                 *)
CloseKeepingClient(c) ==
    /\ IOEvent
    /\ sock[c] \in {"open", "closing"} /\ c \in clients
    /\ sock' = [sock EXCEPT ![c] = "closed"]
    /\ Released(c)
    /\ UNCHANGED <<step, clients, flags, upgrade>>
Close(c) ==
    /\ IOEvent
    /\ sock[c] \in {"open", "closing"} /\ c \in clients
    /\ Gone(c)
    /\ clients' = clients \ {c}
    /\ Released(c)
    /\ UNCHANGED <<step, upgrade>>

(* The socket closes while it is being admitted or after it was rejected:    *)
(* no close handler is attached, nothing is undone.                          *)
CloseUnregistered(c) ==
    /\ IOEvent
    /\ sock[c] \in {"open", "closing"} /\ c \notin clients
    /\ Gone(c)
    /\ UNCHANGED <<step, clients, upgrade, store>>

(* A close handler's decrement reaches the remote store.                     *)
DecrementSettles(k) ==
    /\ decrements[k] > 0
    /\ decrements' = [decrements EXCEPT ![k] = @ - 1]
    /\ Written(k, -1)
    /\ UNCHANGED <<remote, sock, step, clients, flags, upgrade>>

Forget(c) ==
    /\ sock[c] = "closed" /\ Idle(c) /\ c \notin clients
    /\ Gone(c)
    /\ UNCHANGED <<step, clients, upgrade, store>>

(* Which counter a socket stands in: the admission's increment is executed   *)
(* before the client exists, and an upgrade leaves one counter for the other.*)
(* A client whose socket is closed stands in none.                           *)
CountedIn(c, kind) ==
    \/ step[c] = "register" /\ Kind(c) = kind
    \/ /\ c \in clients /\ sock[c] # "closed"
       /\ LET at(s) == \E i \in Messages : upgrade[c][i] = s
          IN  \/ at("mark") /\ kind = "auth"
              \/ ~at("mark") /\ ~at("increment") /\ Kind(c) = kind
Standing(k) == Cardinality({c \in Conns : k = Key(k[1], c) /\ CountedIn(c, k[1])})

(* The increment of k is executed and its handler does not know yet.         *)
Incrementing(k) ==
    \E c \in Conns :
        /\ k = Key(k[1], c)
        /\ \/ step[c] = "register" /\ Kind(c) = k[1]
           \/ k[1] = "auth" /\ \E i \in Messages : upgrade[c][i] = "mark"

(* Redis drops a counter a day after its last increment, whatever sockets    *)
(* still stand in it. There is no clock here: the day may be over, unless an *)
(* increment has just been executed - a call takes seconds at most.          *)
CountExpires(k) ==
    /\ remote /\ count[k] > 0 /\ ~Incrementing(k)
    /\ Fault(TRUE)
    /\ count' = [count EXCEPT ![k] = 0]
    /\ miscounts' = [miscounts EXCEPT ![k] = @ + Standing(k) + decrements[k]]
    /\ UNCHANGED <<remote, sock, step, clients, flags, upgrade, fallback, decrements>>

(* The process crashes and restarts with the same Redis: what it counted     *)
(* there stays, and so do decrements that had not left.                      *)
Crash ==
    /\ remote /\ faults < MaxFaults
    /\ sock' = All("none") /\ step' = All("done") /\ clients' = {}
    /\ authenticated' = All(FALSE) /\ initially' = All(FALSE)
    /\ upgrade' = All([i \in Messages |-> "none"])
    /\ fallback' = Zero /\ decrements' = Zero
    /\ faults' = faults + 1
    /\ miscounts' = [k \in Keys |-> miscounts[k] + Standing(k) + decrements[k]]
    /\ UNCHANGED <<remote, count>>

Admission(c) ==
    \/ Connect(c) \/ BanAnswered(c) \/ AuthCountAnswered(c)
    \/ UnauthCountAnswered(c) \/ AdmissionIncrement(c) \/ Register(c)

Upgrade(c) ==
    \/ AuthMessage(c)
    \/ \E i \in Messages :
         \/ UpgradeCountAnswered(c, i) \/ UpgradeDecrement(c, i)
         \/ UpgradeIncrement(c, i) \/ UpgradeMark(c, i)

Next ==
    \/ \E c \in Conns :
         \/ Admission(c) \/ Upgrade(c)
         \/ BeginClosing(c) \/ Close(c) \/ CloseUnregistered(c) \/ Forget(c)
    \/ \E k \in Keys : DecrementSettles(k) \/ CountExpires(k)
    \/ Crash

Spec == Init /\ [][Next]_vars
----------------------------------------------------------------------------
(* A per-IP counter is the number of sockets standing in it, plus the        *)
(* decrements on their way (ws.ts 1135-1149, "so the count stays accurate"): *)
(* nothing is taken twice or from the other counter. A failed call, a close  *)
(* that overtakes an upgrade, a second auth message during one, and a close  *)
(* during the admission, which leaks, miscount by at most one each; a crash  *)
(* and the expiry of a counter by what the process held in it. However these *)
(* combine, and whatever happens later, the error does not grow.             *)
CountsBalance ==
    \A k \in Keys :
        count[k] + fallback[k] - Standing(k) - decrements[k]
            \in -miscounts[k]..miscounts[k]

(* With the in-memory store the limits hold of the registered clients: the   *)
(* server-wide one, checked before the first await and never again, and the  *)
(* per-IP budgets, but for what pipelined auth messages have miscounted.     *)
LimitsHold ==
    ~remote =>
        /\ Cardinality(clients) <= MaxConnections
        /\ \A k \in Keys :
             Cardinality({c \in clients : k = Key(Kind(c), c)})
                 <= Budget(k[1]) + miscounts[k]

(* ... and a registered client has a socket whose close will unregister it.  *)
NoGhost == ~remote => \A c \in clients : sock[c] # "closed"

(* A client that authenticated by message is, once its handler has ended, in *)
(* the auth budget - or on its way out because there was no room in it.      *)
UpgradeSettles ==
    \A c \in clients :
        authenticated[c] /\ ~initially[c] /\ ~Upgrading(c) => sock[c] # "open"
=============================================================================
