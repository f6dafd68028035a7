------------------------------ MODULE WsTimers ------------------------------
(* The timers of one registered WebSocket client (src/routes/ws.ts): the     *)
(* heartbeat interval, the pong timeout and the auth timeout, against a peer *)
(* that answers pings in time until it falls silent for good.                *)
(* Time advances in units; a timer is the units it has left or Off. A timer  *)
(* that is due fires before time goes on: the module takes Node's timers to  *)
(* be punctual, which is what the code's 10 s inside 30 s relies on.         *)
EXTENDS Naturals

CONSTANTS
    Heartbeat,     \* HEARTBEAT_INTERVAL_MS
    PongWait,      \* PONG_TIMEOUT_MS
    AuthWait,      \* AUTH_TIMEOUT_MS
    CloseWait,     \* after which ws destroys a socket that does not finish closing
    AuthRequired   \* WS_AUTH_REQUIRED

WaitsPositive ==
    /\ Heartbeat \in Nat \ {0} /\ PongWait \in Nat \ {0}
    /\ AuthWait \in Nat \ {0} /\ CloseWait \in Nat \ {0}
(* 10 s < 30 s: a pong timeout is over before the next heartbeat sets one.   *)
PongBeforeHeartbeat == PongWait < Heartbeat

VARIABLES
    sock,           \* readyState, "gone" once close has been emitted
    authenticated,  \* client.authenticated
    isAlive,        \* client.isAlive
    pingInterval,   \* the heartbeat interval
    pongTimeout,    \* client.pongTimeout
    authTimeout,    \* client.authTimeout
    closeTimer,     \* ws's own timer of a closing handshake
    silent,         \* the peer is gone without a close frame
    asked,          \* a ping awaits its pong
    silentFor,      \* history: how long the peer has been silent
    age             \* history: how long the client is there without a token

timers == <<pingInterval, pongTimeout, authTimeout>>
peer == <<silent, asked>>
history == <<silentFor, age>>
vars == <<sock, authenticated, isAlive, timers, closeTimer, peer, history>>

Off == Heartbeat + PongWait + AuthWait + CloseWait  \* larger than any timer
Timer(n) == 0..n \union {Off}
Later(t) == IF t = Off THEN Off ELSE t - 1

(* History counters stop one past what the invariants allow.                 *)
MaxSilence == Heartbeat + PongWait + 1
MaxAge == AuthWait + 1
UpTo(n, bound) == IF n < bound THEN n + 1 ELSE bound

(* Types; an authenticated client has no auth timeout.                       *)
TypeOK ==
    /\ sock \in {"open", "closing", "gone"}
    /\ {authenticated, isAlive, silent, asked} \subseteq BOOLEAN
    /\ pingInterval \in Timer(Heartbeat)
    /\ pongTimeout \in Timer(PongWait)
    /\ authTimeout \in IF authenticated THEN {Off} ELSE Timer(AuthWait)
    /\ closeTimer \in IF sock = "closing" THEN 0..CloseWait ELSE {Off}
    /\ silentFor \in 0..MaxSilence /\ age \in 0..MaxAge

(* The client as the connection handler leaves it.                           *)
Init ==
    /\ sock = "open"
    /\ authenticated \in IF AuthRequired THEN BOOLEAN ELSE {TRUE}
    /\ isAlive = TRUE
    /\ pingInterval = Heartbeat /\ pongTimeout = Off
    /\ authTimeout = IF authenticated THEN Off ELSE AuthWait
    /\ closeTimer = Off
    /\ silent = FALSE /\ asked = FALSE
    /\ silentFor = 0 /\ age = 0

----------------------------------------------------------------------------
(* The server closes an open socket, which ws then destroys after wait.      *)
Closing(wait) ==
    IF sock = "open" THEN sock' = "closing" /\ closeTimer' = wait
                     ELSE UNCHANGED <<sock, closeTimer>>
Terminate == Closing(0)           \* ws.terminate()
StartClose == Closing(CloseWait)  \* ws.close(1008)

(* A pong, whether or not a ping asked for it.                               *)
PongUnnoticed ==
    /\ sock # "gone" /\ ~silent
    /\ asked' = FALSE /\ pongTimeout' = Off
    /\ UNCHANGED <<isAlive, sock, authenticated, pingInterval, authTimeout,
                   closeTimer, silent, history>>
Pong ==
    /\ sock # "gone" /\ ~silent
    /\ isAlive' = TRUE /\ asked' = FALSE
    /\ pongTimeout' = Off
    /\ UNCHANGED <<sock, authenticated, pingInterval, authTimeout, closeTimer,
                   silent, history>>

(* The heartbeat pings; without a pong since the last ping it stops and      *)
(* terminates instead.                                                       *)
HeartbeatOnly ==
    /\ pingInterval = 0
    /\ isAlive' = FALSE /\ asked' = (asked \/ sock = "open")
    /\ pingInterval' = Heartbeat
    /\ UNCHANGED <<sock, closeTimer, pongTimeout, authenticated, authTimeout,
                   silent, history>>
HeartbeatFires ==
    /\ pingInterval = 0
    /\ IF isAlive
         THEN /\ isAlive' = FALSE /\ asked' = (asked \/ sock = "open")
              /\ pingInterval' = Heartbeat /\ pongTimeout' = PongWait
              /\ UNCHANGED <<sock, closeTimer>>
         ELSE /\ pingInterval' = Off /\ pongTimeout' = Off
              /\ Terminate
              /\ UNCHANGED <<isAlive, asked>>
    /\ UNCHANGED <<authenticated, authTimeout, silent, history>>

(* The pong timeout: it looks at isAlive, not at which ping it belongs to.   *)
PongTimeoutFires ==
    /\ pongTimeout = 0
    /\ pongTimeout' = Off
    /\ IF isAlive THEN UNCHANGED <<pingInterval, sock, closeTimer>>
                  ELSE pingInterval' = Off /\ Terminate
    /\ UNCHANGED <<isAlive, authenticated, authTimeout, peer, history>>

(* The auth timeout closes a client that is still not authenticated.         *)
AuthTimeoutOnlyRecords ==
    /\ authTimeout = 0
    /\ authTimeout' = Off
    /\ UNCHANGED <<sock, closeTimer, authenticated, isAlive, pingInterval,
                   pongTimeout, peer, history>>
AuthTimeoutFires ==
    /\ authTimeout = 0
    /\ authTimeout' = Off
    /\ IF authenticated THEN UNCHANGED <<sock, closeTimer>> ELSE StartClose
    /\ UNCHANGED <<authenticated, isAlive, pingInterval, pongTimeout, peer, history>>

(* A valid auth message clears the auth timeout; when the auth budget of the *)
(* IP is spent the client is closed instead of upgraded.                     *)
AuthMessage ==
    /\ sock # "gone" /\ ~silent
    /\ authenticated' = TRUE
    /\ authTimeout' = Off
    /\ StartClose \/ UNCHANGED <<sock, closeTimer>>
    /\ UNCHANGED <<isAlive, pingInterval, pongTimeout, peer, history>>

(* The close event, by the peer's close or at the end of a closing handshake *)
(* (a silent peer's ends with ws's timer). The handler clears the timers.    *)
Close ==
    /\ sock # "gone"
    /\ ~silent \/ closeTimer = 0
    /\ sock' = "gone" /\ closeTimer' = Off
    /\ pingInterval' = Off /\ pongTimeout' = Off /\ authTimeout' = Off
    /\ UNCHANGED <<authenticated, isAlive, peer, history>>

(* The peer vanishes without closing (a half-open connection).               *)
FallSilent ==
    /\ sock # "gone" /\ ~silent
    /\ silent' = TRUE
    /\ UNCHANGED <<sock, authenticated, isAlive, timers, closeTimer, asked, history>>

(* Time goes on when no timer is due. A peer that is not silent answers a    *)
(* ping before its timeout.                                                  *)
Due == 0 \in {pingInterval, pongTimeout, authTimeout, closeTimer}
Tick ==
    /\ sock # "gone" \/ pingInterval # Off
    /\ ~Due
    /\ ~silent /\ asked /\ sock = "open" => pongTimeout # 1
    /\ pingInterval' = Later(pingInterval)
    /\ pongTimeout' = Later(pongTimeout)
    /\ authTimeout' = Later(authTimeout)
    /\ closeTimer' = Later(closeTimer)
    /\ silentFor' = IF silent THEN UpTo(silentFor, MaxSilence) ELSE 0
    /\ age' = IF authenticated THEN 0 ELSE UpTo(age, MaxAge)
    /\ UNCHANGED <<sock, authenticated, isAlive, peer>>

TimerFires == HeartbeatFires \/ PongTimeoutFires \/ AuthTimeoutFires

Next ==
    \/ Pong \/ AuthMessage \/ FallSilent
    \/ HeartbeatFires \/ PongTimeoutFires \/ AuthTimeoutFires
    \/ Close
    \/ Tick

(* Timers fire, time goes on, and ws emits close for a socket it destroys.   *)
Fairness ==
    /\ WF_vars(TimerFires) /\ WF_vars(Tick)
    /\ WF_vars(closeTimer = 0 /\ Close)

Spec == Init /\ [][Next]_vars /\ Fairness
----------------------------------------------------------------------------
(* A peer that vanished without a close frame is terminated within one       *)
(* heartbeat and one pong timeout, wherever in the cycle it vanished.        *)
SilenceBounded == sock = "open" /\ silent => silentFor <= Heartbeat + PongWait

(* With WS_AUTH_REQUIRED no client stays open without a valid token past the *)
(* auth timeout.                                                             *)
UnauthenticatedBounded == sock = "open" /\ ~authenticated => age <= AuthWait

=============================================================================
