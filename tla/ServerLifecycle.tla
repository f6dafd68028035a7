-------------------------- MODULE ServerLifecycle --------------------------
(* The server process (src/index.ts): the database check with its retries,   *)
(* the servers, and the graceful shutdown with its forced exit, composed     *)
(* with one WebSocket client and its timers (WsTimers) that may connect,     *)
(* leave or fall silent at any moment, and with HTTP requests in progress.   *)
(* A shutdown is a coroutine of its own for each signal: it is cut at its    *)
(* awaits and two of them interleave. wss.close and server.close are those   *)
(* of ws and of Node: they wait for what is open and fail once closed.       *)
EXTENDS Naturals

CONSTANTS
    Heartbeat, PongWait, AuthWait, CloseWait, AuthRequired,  \* of WsTimers
    Signals,          \* SIGTERM, SIGINT, an uncaught exception: shutdown calls
    ShutdownTimeout,  \* SHUTDOWN_TIMEOUT_MS
    MaxAttempts,      \* DB_VERIFY_MAX_RETRIES
    MaxRequests       \* bound: HTTP requests in progress

ASSUME LifecyclePositive ==
    /\ ShutdownTimeout \in Nat \ {0} /\ MaxAttempts \in Nat \ {0}
    /\ MaxRequests \in Nat
(* 10 s < 30 s: the forced exit comes before ws gives up on a closing socket.*)
ASSUME ForcedBeforeClosed == ShutdownTimeout < CloseWait

VARIABLES
    sock, authenticated, isAlive, pingInterval, pongTimeout, authTimeout,
    closeTimer, silent, asked, silentFor, age,  \* the client, see WsTimers
    stage,      \* of the start; "serving" once the signal handlers are there
    attempt,    \* of the database check
    step,       \* what shutdown(signal) awaits
    force,      \* its forceExit timer
    wss, http,  \* the two servers
    requests,   \* HTTP requests in progress
    listening,  \* the eventBus listeners and price timers are there
    exit,       \* why the process has exited
    alerted,    \* history: FALSE once an alert of a shutdown has failed
    room        \* history: TimeLeft when the clients were first closed

clientVars == <<sock, authenticated, isAlive, pingInterval, pongTimeout,
                authTimeout, closeTimer, silent, asked, silentFor, age>>
start == <<stage, attempt>>
shut == <<step, force, alerted, room>>
servers == <<wss, http, listening>>
vars == <<clientVars, start, shut, servers, requests, exit>>

Client == INSTANCE WsTimers

ASSUME ClientWaits == Client!WaitsPositive /\ Client!PongBeforeHeartbeat

Off == ShutdownTimeout + 1
Later(t) == IF t = Off THEN Off ELSE t - 1

TypeOK ==
    /\ Client!TypeOK
    /\ stage \in {"verifying", "retrying", "alerting", "serving"}
    /\ attempt \in 1..MaxAttempts
    /\ step \in [Signals -> {"none", "flush", "alert", "close ws", "close http"}]
    /\ force \in [Signals -> 0..Off]
    /\ wss \in {"none", "open", "closing", "closed"}
    /\ http \in {"none", "open", "closing"}
    /\ requests \in 0..MaxRequests
    /\ {listening, alerted} \subseteq BOOLEAN
    /\ exit \in {"no", "killed", "no database", "complete", "failed", "forced"}
    /\ room \in 0..Off

NoClient(auth) ==
    /\ authenticated = auth /\ isAlive = TRUE
    /\ pingInterval = Client!Off /\ pongTimeout = Client!Off
    /\ authTimeout = Client!Off /\ closeTimer = Client!Off
    /\ silent = FALSE /\ asked = FALSE /\ silentFor = 0 /\ age = 0

Init ==
    /\ sock = "gone" /\ NoClient(TRUE)
    /\ stage = "verifying" /\ attempt = 1
    /\ step = [s \in Signals |-> "none"] /\ force = [s \in Signals |-> Off]
    /\ wss = "none" /\ http = "none" /\ listening = FALSE
    /\ requests = 0
    /\ exit = "no" /\ alerted = TRUE /\ room = Off

----------------------------------------------------------------------------
(* verifyDatabaseConnection: the query answers or fails; after the last      *)
(* attempt an alert is sent, and the process exits however that ends.        *)
Verified ==
    /\ stage = "verifying"
    /\ stage' = "serving"
    /\ wss' = "open" /\ http' = "open" /\ listening' = TRUE
    /\ UNCHANGED <<clientVars, attempt, shut, requests, exit>>

NotVerified ==
    /\ stage = "verifying"
    /\ stage' = IF attempt < MaxAttempts THEN "retrying" ELSE "alerting"
    /\ UNCHANGED <<clientVars, attempt, shut, servers, requests, exit>>

Retry ==
    /\ stage = "retrying"
    /\ stage' = "verifying"
    /\ attempt' = IF attempt < MaxAttempts THEN attempt + 1 ELSE attempt
    /\ UNCHANGED <<clientVars, shut, servers, requests, exit>>

GiveUp ==
    /\ stage = "alerting"
    /\ exit' = "no database"
    /\ UNCHANGED <<clientVars, start, shut, servers, requests>>

(* A signal before the handlers are registered has Node's default effect.    *)
Killed ==
    /\ stage # "serving"
    /\ exit' = "killed"
    /\ UNCHANGED <<clientVars, start, shut, servers, requests>>

----------------------------------------------------------------------------
(* What happens meanwhile: a client connects, its handler and its timers     *)
(* run, requests come and go.                                                *)
Connect ==
    /\ wss = "open" /\ sock = "gone"
    /\ sock' = "open"
    /\ authenticated' \in IF AuthRequired THEN BOOLEAN ELSE {TRUE}
    /\ isAlive' = TRUE
    /\ pingInterval' = Heartbeat /\ pongTimeout' = Client!Off
    /\ authTimeout' = IF authenticated' THEN Client!Off ELSE AuthWait
    /\ closeTimer' = Client!Off
    /\ silent' = FALSE /\ asked' = FALSE /\ silentFor' = 0 /\ age' = 0
    /\ UNCHANGED <<start, shut, servers, requests, exit>>

ClientSteps ==
    /\ \/ Client!Pong \/ Client!AuthMessage \/ Client!FallSilent
       \/ Client!HeartbeatFires \/ Client!PongTimeoutFires
       \/ Client!AuthTimeoutFires \/ Client!Close
    /\ UNCHANGED <<start, shut, servers, requests, exit>>

RequestArrives ==
    /\ http = "open" /\ requests < MaxRequests
    /\ requests' = requests + 1
    /\ UNCHANGED <<clientVars, start, shut, servers, exit>>

RequestEnds ==
    /\ requests > 0
    /\ requests' = requests - 1
    /\ UNCHANGED <<clientVars, start, shut, servers, exit>>

----------------------------------------------------------------------------
(* shutdown(signal): the forced exit is armed, Sentry is flushed.            *)
SignalUnforced(s) ==
    /\ stage = "serving" /\ step[s] = "none"
    /\ step' = [step EXCEPT ![s] = "flush"]
    /\ UNCHANGED <<clientVars, start, force, alerted, room, servers, requests, exit>>
Signal(s) ==
    /\ stage = "serving" /\ step[s] = "none"
    /\ step' = [step EXCEPT ![s] = "flush"]
    /\ force' = [force EXCEPT ![s] = ShutdownTimeout]
    /\ UNCHANGED <<clientVars, start, alerted, room, servers, requests, exit>>

Flushed(s) ==
    /\ step[s] = "flush"
    /\ step' = [step EXCEPT ![s] = "alert"]
    /\ UNCHANGED <<clientVars, start, force, alerted, room, servers, requests, exit>>

(* Every open socket is sent a close frame.                                  *)
ClientsLeftOpen == UNCHANGED clientVars
ClientsClosed ==
    /\ Client!StartClose
    /\ UNCHANGED <<authenticated, isAlive, pingInterval, pongTimeout, authTimeout,
                   silent, asked, silentFor, age>>

(* Until the first of the armed timers forces the exit.                     *)
TimeLeft == CHOOSE t \in 0..Off :
              (\E s \in Signals : force[s] = t) /\ (\A s \in Signals : t <= force[s])

(* The alert is out: listeners and price timers go, clients are closed and   *)
(* wss.close is called, which fails when the server is closed already.       *)
Alerted(s) ==
    /\ step[s] = "alert"
    /\ listening' = FALSE
    /\ ClientsClosed
    /\ room' = IF room = Off THEN TimeLeft ELSE room
    /\ IF wss = "closed"
         THEN exit' = "failed" /\ UNCHANGED <<wss, step>>
         ELSE /\ wss' = "closing" /\ step' = [step EXCEPT ![s] = "close ws"]
              /\ UNCHANGED exit
    /\ UNCHANGED <<start, force, alerted, http, requests>>

(* The alert fails: the shutdown ends before it has closed anything.         *)
AlertFails(s) ==
    /\ step[s] = "alert"
    /\ alerted' = FALSE
    /\ exit' = "failed"
    /\ UNCHANGED <<clientVars, start, step, force, room, servers, requests>>

(* ws emits close when no client is left; every shutdown that awaited it     *)
(* calls server.close.                                                       *)
WssIdleAtOnce == wss = "closing"
WssIdle == wss = "closing" /\ sock = "gone"
WssClosed ==
    /\ WssIdle
    /\ wss' = "closed" /\ http' = "closing"
    /\ step' = [s \in Signals |->
                  IF step[s] = "close ws" THEN "close http" ELSE step[s]]
    /\ UNCHANGED <<clientVars, start, force, alerted, room, listening, requests, exit>>

(* Node closes the server when no request is in progress: the first callback *)
(* has no error, and its continuation exits.                                 *)
HttpClosed ==
    /\ http = "closing" /\ requests = 0
    /\ exit' = "complete"
    /\ UNCHANGED <<clientVars, start, shut, servers, requests>>

ForceExit(s) ==
    /\ force[s] = 0
    /\ exit' = "forced"
    /\ UNCHANGED <<clientVars, start, shut, servers, requests>>

(* Time goes on when no timer is due and no event is waiting to be emitted.  *)
(* A peer that is not silent answers a close frame within a unit.            *)
Tick ==
    /\ stage = "serving"
    /\ \A s \in Signals : force[s] # 0
    /\ ~WssIdle /\ ~(http = "closing" /\ requests = 0)
    /\ sock = "closing" /\ ~silent => closeTimer \in {0, CloseWait}
    /\ IF sock = "gone" THEN UNCHANGED clientVars ELSE Client!Tick
    /\ force' = [s \in Signals |-> Later(force[s])]
    /\ UNCHANGED <<start, step, alerted, room, servers, requests, exit>>

Running == exit = "no"

Next ==
    /\ Running
    /\ \/ Verified \/ NotVerified \/ Retry \/ GiveUp \/ Killed
       \/ Connect \/ ClientSteps \/ RequestArrives \/ RequestEnds
       \/ \E s \in Signals :
            Signal(s) \/ Flushed(s) \/ Alerted(s) \/ AlertFails(s) \/ ForceExit(s)
       \/ WssClosed \/ HttpClosed
       \/ Tick

(* A query of the database check and an alert at its end settle, the delay   *)
(* between attempts ends; timers fire, time goes on; a peer that is not      *)
(* silent answers pings and close frames, and ws destroys a silent one.      *)
(* Nothing is assumed of a shutdown's flush and alert.                       *)
TimerFires ==
    /\ Running /\ Client!TimerFires
    /\ UNCHANGED <<start, shut, servers, requests, exit>>
PingAnswered ==
    /\ Running /\ asked /\ Client!Pong
    /\ UNCHANGED <<start, shut, servers, requests, exit>>
HandshakeEnds ==
    /\ Running /\ sock = "closing" /\ Client!Close
    /\ UNCHANGED <<start, shut, servers, requests, exit>>
Fairness ==
    /\ WF_vars(Running /\ (Verified \/ NotVerified)) /\ WF_vars(Running /\ Retry)
    /\ WF_vars(Running /\ GiveUp)
    /\ WF_vars(TimerFires) /\ WF_vars(PingAnswered) /\ WF_vars(HandshakeEnds)
    /\ WF_vars(Running /\ WssClosed) /\ WF_vars(Running /\ HttpClosed)
    /\ WF_vars(Running /\ \E s \in Signals : ForceExit(s))
    /\ WF_vars(Running /\ Tick)

Spec == Init /\ [][Next]_vars /\ Fairness
----------------------------------------------------------------------------
(* Of WsTimers, with clients that come and go and shutdowns: silent peers    *)
(* and peers without a token are cut off in time.                            *)
SilenceBounded == Client!SilenceBounded
UnauthenticatedBounded == Client!UnauthenticatedBounded

(* The heartbeat gives up on silent peers only, whenever pongs come.         *)
ResponsiveSurvives ==
    [][pingInterval # Client!Off /\ pingInterval' = Client!Off =>
         silent \/ sock # "open" \/ sock' = "gone"]_vars

(* Exit code 0 means that nothing was cut off: every client has had its      *)
(* close handler, every request its answer, and no listener or price timer   *)
(* is left - also when two shutdowns have run through each other, and for a  *)
(* client that connected while the first one awaited its alert.              *)
CompleteExit ==
    exit = "complete" =>
        /\ sock = "gone" /\ {pingInterval, pongTimeout, authTimeout} = {Client!Off}
        /\ requests = 0 /\ ~listening

(* An exit with code 1 has one of three reasons: a failed alert, a second    *)
(* shutdown that found the WebSocket server closed, or the timeout - and with*)
(* time left after the close frames the timeout never cuts off a peer that   *)
(* answers: only a silent one or a request holds the shutdown up.            *)
ExitExplained ==
    /\ exit = "failed" =>
         \/ ~alerted
         \/ \E s, t \in Signals : s # t /\ step[s] # "none" /\ step[t] # "none"
    /\ exit = "forced" /\ room \in 2..ShutdownTimeout => sock = "gone" \/ silent

(* A shutdown ends, whatever clients, requests, Sentry and the alert do.     *)
ShutdownEnds == (\E s \in Signals : step[s] # "none") ~> ~Running
=============================================================================
