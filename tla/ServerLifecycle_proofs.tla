----------------------- MODULE ServerLifecycle_proofs -----------------------
(* Proofs about ServerLifecycle: first the timers of the client, which the   *)
(* rest of the process can only start and close, then the shutdowns.         *)
EXTENDS ServerLifecycle, WellFoundedInduction, TLAPS

USE ClientWaits, LifecyclePositive, ForcedBeforeClosed
    DEF Client!WaitsPositive, Client!PongBeforeHeartbeat, Client!Off, Off

(* What a client's timers have left, and how it adds up with the time since  *)
(* its peer fell silent, or since it is there without a token. A pong        *)
(* timeout is over before the next heartbeat; while the peer answers pings,  *)
(* it is never due.                                                          *)
ClientTimed ==
    /\ ~silent => silentFor = 0
    /\ sock = "gone" => {pingInterval, pongTimeout, authTimeout} = {Client!Off}
    /\ sock = "open" =>
         /\ pingInterval # Client!Off
         /\ isAlive => silentFor + pingInterval <= Heartbeat
         /\ ~isAlive =>
              /\ pongTimeout # Client!Off /\ pongTimeout < pingInterval
              /\ silentFor + pongTimeout <= Heartbeat + PongWait
              /\ silent \/ (asked /\ pongTimeout > 0)
         /\ ~authenticated =>
              authTimeout # Client!Off /\ age + authTimeout <= AuthWait

ClientInv == Client!TypeOK /\ ClientTimed

LEMMA ClientInit == Init => ClientInv
  <1> SUFFICES ASSUME Init PROVE ClientInv  OBVIOUS
  <1> USE DEF Init, NoClient
  <1>0. {authenticated, isAlive, silent, asked} \subseteq BOOLEAN
    BY Zenon
  <1>1. Client!TypeOK
    BY <1>0 DEF Client!TypeOK, Client!Timer, Client!MaxSilence, Client!MaxAge
  <1>2. ClientTimed
    BY DEF ClientTimed
  <1> QED  BY <1>1, <1>2 DEF ClientInv

(* What the timers, the peer and the clock do to the client.                 *)
LEMMA ClientStep ==
    ASSUME ClientInv,
           \/ Client!Pong \/ Client!AuthMessage \/ Client!FallSilent
           \/ Client!HeartbeatFires \/ Client!PongTimeoutFires
           \/ Client!AuthTimeoutFires \/ Client!Close \/ Client!Tick
    PROVE  ClientInv'
  <1> USE DEF ClientInv, ClientTimed, Client!TypeOK, Client!Timer, Client!MaxSilence,
              Client!MaxAge, Client!timers, Client!peer, Client!history
  <1>1. CASE Client!Pong
    <2>1. {authenticated', isAlive', silent', asked'} \subseteq BOOLEAN
      BY <1>1, Zenon DEF Client!Pong
    <2>2. Client!TypeOK'
      BY <1>1, <2>1 DEF Client!Pong
    <2>3. ClientTimed'
      BY <1>1 DEF Client!Pong
    <2> QED  BY <2>2, <2>3
  <1>2. CASE Client!AuthMessage
    <2>1. Client!TypeOK'
      BY <1>2 DEF Client!AuthMessage, Client!StartClose, Client!Closing
    <2>2. ClientTimed'
      BY <1>2 DEF Client!AuthMessage, Client!StartClose, Client!Closing
    <2> QED  BY <2>1, <2>2
  <1>3. CASE Client!FallSilent
    BY <1>3 DEF Client!FallSilent
  <1>4. CASE Client!HeartbeatFires
    <2>0. {authenticated', isAlive', silent', asked'} \subseteq BOOLEAN
      <3>1. isAlive' = FALSE \/ isAlive' = isAlive
        BY <1>4, Zenon DEF Client!HeartbeatFires
      <3>2. asked' = (asked \/ sock = "open") \/ asked' = asked
        BY <1>4, Zenon DEF Client!HeartbeatFires
      <3>3. isAlive' \in BOOLEAN /\ asked' \in BOOLEAN
        BY <3>1, <3>2, Zenon
      <3> QED  BY <1>4, <3>3, Zenon DEF Client!HeartbeatFires
    <2>1. Client!TypeOK'
      BY <1>4, <2>0 DEF Client!HeartbeatFires, Client!Terminate, Client!Closing
    <2>2. ClientTimed'
      BY <1>4 DEF Client!HeartbeatFires, Client!Terminate, Client!Closing
    <2> QED  BY <2>1, <2>2
  <1>5. CASE Client!PongTimeoutFires
    <2>1. Client!TypeOK'
      BY <1>5 DEF Client!PongTimeoutFires, Client!Terminate, Client!Closing
    <2>2. ClientTimed'
      BY <1>5 DEF Client!PongTimeoutFires, Client!Terminate, Client!Closing
    <2> QED  BY <2>1, <2>2
  <1>6. CASE Client!AuthTimeoutFires
    BY <1>6 DEF Client!AuthTimeoutFires, Client!StartClose, Client!Closing
  <1>7. CASE Client!Close
    BY <1>7 DEF Client!Close
  <1>8. CASE Client!Tick
    <2>1. /\ Client!Later(pingInterval) \in Client!Timer(Heartbeat)
          /\ Client!Later(pongTimeout) \in Client!Timer(PongWait)
          /\ Client!Later(authTimeout) \in Client!Timer(AuthWait)
          /\ authenticated => Client!Later(authTimeout) = Client!Off
          /\ Client!Later(closeTimer) \in IF sock = "closing" THEN 0..CloseWait
                                          ELSE {Client!Off}
      BY <1>8 DEF Client!Tick, Client!Later, Client!Due
    <2>2. Client!TypeOK'
      BY <1>8, <2>1 DEF Client!Tick, Client!UpTo
    <2>3. CASE sock = "open"
      <3>1. pingInterval > 0 /\ pongTimeout > 0 /\ authTimeout > 0
        BY <1>8 DEF Client!Tick, Client!Due
      <3>2. ClientTimed'
        BY <1>8, <2>3, <3>1 DEF Client!Tick, Client!Later, Client!UpTo
      <3> QED  BY <2>2, <3>2
    <2>4. CASE sock # "open"
      BY <1>8, <2>2, <2>4 DEF Client!Tick, Client!Later, Client!UpTo
    <2> QED  BY <2>3, <2>4
  <1> QED  BY <1>1, <1>2, <1>3, <1>4, <1>5, <1>6, <1>7, <1>8

----------------------------------------------------------------------------
(* How far the shutdowns are, by the state of the WebSocket server.          *)
StageExact ==
    /\ stage # "serving" =>
         /\ wss = "none" /\ sock = "gone" /\ ~listening
         /\ \A s \in Signals : step[s] = "none"
    /\ wss = "none" => http = "none"
    /\ http = "closing" => wss = "closed"
    /\ wss \in {"closing", "closed"} => sock # "open" /\ ~listening
    /\ wss = "closing" => \E s \in Signals : step[s] = "close ws"
    /\ wss = "closed" => sock = "gone" /\ \E s \in Signals : step[s] = "close http"

(* A shutdown has its forced exit ahead. From the first close frames on, a   *)
(* closing peer that answers lets at most one unit of that time pass.        *)
ForceAhead ==
    /\ \A s \in Signals : step[s] # "none" => force[s] <= ShutdownTimeout
    /\ room # Off =>
         /\ wss \in {"closing", "closed"}
         /\ sock = "closing" /\ ~silent => \A s \in Signals :
              force[s] + 1 >= room /\ (closeTimer = CloseWait => force[s] >= room)

IInv ==
    /\ TypeOK /\ ClientTimed /\ StageExact /\ ForceAhead
    /\ CompleteExit /\ ExitExplained

LEMMA Init_IInv == Init => IInv
  <1> SUFFICES ASSUME Init PROVE IInv  OBVIOUS
  <1>1. Client!TypeOK /\ ClientTimed
    BY ClientInit DEF ClientInv
  <1>2. TypeOK
    <2>1. {listening, alerted} \subseteq BOOLEAN
      BY Zenon DEF Init
    <2> QED  BY <1>1, <2>1 DEF Init, TypeOK
  <1>3. StageExact /\ ForceAhead /\ CompleteExit /\ ExitExplained
    BY DEF Init, StageExact, ForceAhead, CompleteExit, ExitExplained
  <1> QED  BY <1>1, <1>2, <1>3 DEF IInv

(* A nonempty set of numbers has a least one.                                *)
LEMMA Least ==
    ASSUME NEW T \in SUBSET Nat, T # {}
    PROVE  \E x \in T : \A y \in T : x <= y
  <1> DEFINE R == {ss \in Nat \X Nat : ss[1] < ss[2]}
  <1>1. IsWellFoundedOn(R, Nat)
    <2>1. R = OpToRel(<, Nat)  BY DEF OpToRel
    <2> QED  BY <2>1, NatLessThanWellFounded
  <1>2. PICK x \in T : \A y \in T : ~(<<y, x>> \in R)
    <2> HIDE DEF R
    <2> QED  BY <1>1, WFMin
  <1>3. \A y \in T : ~(y < x)  BY <1>2
  <1> QED  BY <1>3

(* TimeLeft is the least of the forced exits' times.                         *)
LEMMA TimeLeftLeast ==
    ASSUME force \in [Signals -> 0..Off], NEW s \in Signals
    PROVE  /\ TimeLeft \in 0..Off
           /\ \A t \in Signals : TimeLeft <= force[t]
  <1> DEFINE Times == {force[t] : t \in Signals}
  <1>1. Times \in SUBSET Nat /\ Times # {}
    OBVIOUS
  <1>2. PICK x \in Times : \A y \in Times : x <= y
    <2> HIDE DEF Times
    <2> QED  BY <1>1, Least
  <1>3. /\ x \in 0..Off
        /\ \E t \in Signals : force[t] = x
        /\ \A t \in Signals : x <= force[t]
    BY <1>2
  <1> QED  BY <1>3 DEF TimeLeft

(* Nothing but a connection opens a socket; a peer that is silent stays so.  *)
LEMMA ClientStaysShut ==
    ASSUME sock # "open",
           \/ Client!Pong \/ Client!AuthMessage \/ Client!FallSilent
           \/ Client!HeartbeatFires \/ Client!PongTimeoutFires
           \/ Client!AuthTimeoutFires \/ Client!Close
    PROVE  /\ sock' # "open" /\ (sock = "gone" => sock' = "gone")
           /\ sock' = "closing" => sock = "closing" /\ closeTimer' = closeTimer
           /\ silent => silent'
  BY DEF Client!Pong, Client!AuthMessage, Client!FallSilent, Client!HeartbeatFires,
         Client!PongTimeoutFires, Client!AuthTimeoutFires, Client!Close,
         Client!StartClose, Client!Terminate, Client!Closing, Client!peer, Client!history

LEMMA ConnectInv == ASSUME ClientInv, Connect PROVE ClientInv'
  <1> USE DEF Connect
  <1>1. authenticated' \in BOOLEAN
    <2>1. CASE AuthRequired  BY <2>1, Zenon
    <2>2. CASE ~AuthRequired
      <3>1. authenticated' \in {TRUE}  BY <2>2, Zenon
      <3> QED  BY <3>1, Zenon
    <2> QED  BY <2>1, <2>2
  <1>2. {authenticated', isAlive', silent', asked'} \subseteq BOOLEAN
    BY <1>1, Zenon
  <1>3. Client!TypeOK'
    BY <1>2 DEF Client!TypeOK, Client!Timer, Client!MaxSilence, Client!MaxAge
  <1>4. ClientTimed'
    BY <1>2 DEF ClientTimed
  <1> QED  BY <1>3, <1>4 DEF ClientInv

----------------------------------------------------------------------------
(* The types and the client's timers, action by action.                      *)
LEMMA SameClient == ASSUME ClientInv, UNCHANGED clientVars PROVE ClientInv'
  BY DEF ClientInv, ClientTimed, Client!TypeOK, clientVars

LEMMA ClosedClient == ASSUME ClientInv, ClientsClosed PROVE ClientInv'
  <1> USE DEF ClientInv, ClientsClosed, Client!StartClose, Client!Closing
  <1>1. Client!TypeOK'
    BY DEF Client!TypeOK
  <1>2. ClientTimed'
    BY DEF ClientTimed
  <1> QED  BY <1>1, <1>2

LEMMA ClientInvStep == ASSUME ClientInv, Next PROVE ClientInv'
  <1>1. CASE UNCHANGED clientVars
    BY <1>1, SameClient
  <1>2. CASE Connect
    BY <1>2, ConnectInv
  <1>3. CASE ClientSteps
    BY <1>3, ClientStep DEF ClientSteps
  <1>4. CASE ClientsClosed
    BY <1>4, ClosedClient
  <1>5. CASE Client!Tick
    BY <1>5, ClientStep
  <1>6. \/ UNCHANGED clientVars \/ Connect \/ ClientSteps \/ ClientsClosed
        \/ Client!Tick
    BY DEF Next, Verified, NotVerified, Retry, GiveUp, Killed, RequestArrives,
           RequestEnds, Signal, Flushed, Alerted, AlertFails, ForceExit, WssClosed,
           HttpClosed, Tick
  <1> QED  BY <1>1, <1>2, <1>3, <1>4, <1>5, <1>6

LEMMA CountersStep ==
    ASSUME IInv, Next
    PROVE  /\ attempt' \in 1..MaxAttempts
           /\ requests' \in 0..MaxRequests
           /\ force' \in [Signals -> 0..Off]
  <1>0. /\ attempt \in 1..MaxAttempts
        /\ requests \in 0..MaxRequests
        /\ force \in [Signals -> 0..Off]
    BY DEF IInv, TypeOK
  <1>1. /\ Retry \/ attempt' = attempt
        /\ RequestArrives \/ RequestEnds \/ requests' = requests
        /\ (\E s \in Signals : Signal(s)) \/ Tick \/ force' = force
    BY DEF Next, Verified, NotVerified, GiveUp, Killed, Connect, ClientSteps,
           RequestArrives, RequestEnds, Signal, Flushed, Alerted, AlertFails,
           Retry, Tick, ForceExit, WssClosed, HttpClosed, start, shut
  <1>2. attempt' \in 1..MaxAttempts
    BY <1>0, <1>1 DEF Retry
  <1>3. requests' \in 0..MaxRequests
    BY <1>0, <1>1 DEF RequestArrives, RequestEnds
  <1>4. CASE \E s \in Signals : Signal(s)
    BY <1>0, <1>2, <1>3, <1>4 DEF Signal
  <1>5. CASE Tick
    BY <1>0, <1>2, <1>3, <1>5 DEF Tick, Later
  <1> QED  BY <1>0, <1>1, <1>2, <1>3, <1>4, <1>5

LEMMA TypeStep == ASSUME IInv, Next PROVE TypeOK'
  <1>0. Client!TypeOK'
    BY ClientInvStep DEF IInv, TypeOK, ClientInv
  <1>b. {listening, alerted}' \subseteq BOOLEAN
    <2>1. listening' \in {listening, TRUE, FALSE} /\ alerted' \in {alerted, FALSE}
      BY DEF Next, Verified, NotVerified, Retry, GiveUp, Killed, Connect, ClientSteps,
             RequestArrives, RequestEnds, Signal, Flushed, Alerted, AlertFails,
             ForceExit, WssClosed, HttpClosed, Tick, shut, servers
    <2> QED  BY <2>1, Zenon DEF IInv, TypeOK
  <1> USE <1>0, <1>b, CountersStep DEF IInv, TypeOK, start, shut, servers
  <1>1. CASE Verified
    BY <1>1 DEF Verified
  <1>2. CASE NotVerified
    BY <1>2 DEF NotVerified
  <1>3. CASE Retry
    BY <1>3 DEF Retry
  <1>4. CASE GiveUp
    BY <1>4 DEF GiveUp
  <1>5. CASE Killed
    BY <1>5 DEF Killed
  <1>6. CASE Connect
    BY <1>6 DEF Connect
  <1>7. CASE ClientSteps
    BY <1>7 DEF ClientSteps
  <1>8. CASE RequestArrives
    BY <1>8 DEF RequestArrives
  <1>9. CASE RequestEnds
    BY <1>9 DEF RequestEnds
  <1>10. ASSUME NEW s \in Signals, Signal(s)
        PROVE  TypeOK'
    BY <1>10 DEF Signal
  <1>11. ASSUME NEW s \in Signals, Flushed(s)
        PROVE  TypeOK'
    BY <1>11 DEF Flushed
  <1>12. ASSUME NEW s \in Signals, Alerted(s)
        PROVE  TypeOK'
    BY <1>12, TimeLeftLeast DEF Alerted
  <1>13. ASSUME NEW s \in Signals, AlertFails(s)
        PROVE  TypeOK'
    BY <1>13 DEF AlertFails
  <1>14. ASSUME NEW s \in Signals, ForceExit(s)
        PROVE  TypeOK'
    BY <1>14 DEF ForceExit
  <1>15. CASE WssClosed
    BY <1>15 DEF WssClosed
  <1>16. CASE HttpClosed
    BY <1>16 DEF HttpClosed
  <1>17. CASE Tick
    BY <1>17 DEF Tick
  <1> QED  BY <1>1, <1>2, <1>3, <1>4, <1>5, <1>6, <1>7, <1>8, <1>9, <1>10, <1>11, <1>12, <1>13, <1>14, <1>15, <1>16, <1>17 DEF Next

(* The servers and the shutdowns go on together.                             *)
LEMMA StageStep == ASSUME IInv, Next PROVE StageExact'
  <1>0. /\ step \in [Signals -> {"none", "flush", "alert", "close ws", "close http"}]
        /\ wss \in {"none", "open", "closing", "closed"}
        /\ StageExact
    BY DEF IInv, TypeOK
  <1> USE <1>0 DEF StageExact, start, shut, servers
  <1>1. CASE Verified
    BY <1>1 DEF Verified, clientVars
  <1>2. CASE NotVerified \/ Retry \/ GiveUp \/ Killed
    <2>1. /\ UNCHANGED <<sock, wss, http, listening, step>>
          /\ stage # "serving"
      BY <1>2 DEF NotVerified, Retry, GiveUp, Killed, clientVars
    <2> QED  BY <2>1
  <1>3. CASE Connect
    BY <1>3 DEF Connect
  <1>4. CASE ClientSteps
    <2>1. sock # "open" => sock' # "open" /\ (sock = "gone" => sock' = "gone")
      BY <1>4, ClientStaysShut DEF ClientSteps
    <2> QED  BY <1>4, <2>1 DEF ClientSteps
  <1>5. CASE RequestArrives \/ RequestEnds
    <2>1. UNCHANGED <<stage, sock, wss, http, listening, step>>
      BY <1>5 DEF RequestArrives, RequestEnds, clientVars
    <2> QED  BY <2>1
  <1>6. ASSUME NEW s \in Signals, Signal(s)
        PROVE  StageExact'
    BY <1>6 DEF Signal, clientVars
  <1>7. ASSUME NEW s \in Signals, Flushed(s)
        PROVE  StageExact'
    BY <1>7 DEF Flushed, clientVars
  <1>8. ASSUME NEW s \in Signals, Alerted(s)
        PROVE  StageExact'
    <2>1. sock' # "open" /\ (sock = "gone" => sock' = "gone")
      BY <1>8 DEF Alerted, ClientsClosed, Client!StartClose, Client!Closing
    <2>2. CASE wss = "closed"
      BY <1>8, <2>1, <2>2 DEF Alerted
    <2>3. CASE wss # "closed"
      <3>1. step'[s] = "close ws" /\ wss' = "closing" /\ ~listening'
        BY <1>8, <2>3 DEF Alerted
      <3> QED  BY <1>8, <2>1, <2>3, <3>1 DEF Alerted
    <2> QED  BY <2>2, <2>3
  <1>9. ASSUME NEW s \in Signals, AlertFails(s) \/ ForceExit(s)
        PROVE  StageExact'
    <2>1. UNCHANGED <<stage, sock, wss, http, listening, step>>
      BY <1>9 DEF AlertFails, ForceExit, clientVars
    <2> QED  BY <2>1
  <1>10. CASE WssClosed
    <2>1. PICK s \in Signals : step[s] = "close ws"
      BY <1>10 DEF WssClosed, WssIdle
    <2>2. step'[s] = "close http"
      BY <1>10, <2>1 DEF WssClosed
    <2> QED  BY <1>10, <2>2 DEF WssClosed, WssIdle, clientVars
  <1>11. CASE HttpClosed
    BY <1>11 DEF HttpClosed, clientVars
  <1>12. CASE Tick
    <2>1. sock' = sock
      BY <1>12 DEF Tick, Client!Tick, clientVars
    <2> QED  BY <1>12, <2>1 DEF Tick
  <1> QED  BY <1>1, <1>2, <1>3, <1>4, <1>5, <1>6, <1>7, <1>8, <1>9, <1>10, <1>11,
              <1>12 DEF Next

(* Once the clients are closed, one that answers leaves the timers time.     *)
LEMMA ForceStep == ASSUME IInv, Next PROVE ForceAhead'
  <1>s. DOMAIN step = Signals /\ step = [s \in Signals |-> step[s]]
    BY DEF IInv, TypeOK
  <1>f. force \in [Signals -> 0..Off]
    BY DEF IInv, TypeOK
  <1>r. room \in 0..Off
    BY DEF IInv, TypeOK
  <1>c. sock = "closing" => closeTimer \in 0..CloseWait
    BY DEF IInv, TypeOK, Client!TypeOK
  <1>a. ForceAhead /\ StageExact
    BY DEF IInv
  <1>b. \A s \in Signals : step[s] # "none" => force[s] <= ShutdownTimeout
    BY <1>a, Zenon DEF ForceAhead
  <1>d. room # Off => wss \in {"closing", "closed"}
    BY <1>a, Zenon DEF ForceAhead
  <1>e. room # Off /\ sock = "closing" /\ ~silent => \A s \in Signals :
          force[s] + 1 >= room /\ (closeTimer = CloseWait => force[s] >= room)
    BY <1>a, Zenon DEF ForceAhead
  <1> USE DEF ForceAhead, start, shut, servers
  <1>1. CASE \/ Verified \/ NotVerified \/ Retry \/ GiveUp \/ Killed
             \/ RequestArrives \/ RequestEnds \/ HttpClosed
    BY <1>1, <1>a DEF Verified, NotVerified, Retry, GiveUp, Killed, RequestArrives,
                      RequestEnds, HttpClosed, clientVars, StageExact
  <1>2. CASE Connect
    BY <1>2, <1>a DEF Connect
  <1>3. CASE ClientSteps
    <2>1. sock # "open" =>
            /\ sock' = "closing" => sock = "closing" /\ closeTimer' = closeTimer
            /\ silent => silent'
      BY <1>3, ClientStaysShut DEF ClientSteps
    <2> QED  BY <1>3, <2>1, <1>a DEF ClientSteps, StageExact
  <1>4. ASSUME NEW s \in Signals, Signal(s)
        PROVE  ForceAhead'
    <2>1. /\ UNCHANGED <<sock, silent, closeTimer, wss, room>>
          /\ step' = [step EXCEPT ![s] = "flush"]
          /\ force' = [force EXCEPT ![s] = ShutdownTimeout]
      BY <1>4 DEF Signal, clientVars
    <2>2. \A t \in Signals : step'[t] # "none" => t = s \/ step[t] # "none"
      BY <1>s, <2>1
    <2>3. \A t \in Signals : force'[t] = IF t = s THEN ShutdownTimeout ELSE force[t]
      BY <1>f, <2>1
    <2>4. \A t \in Signals : step'[t] # "none" => force'[t] <= ShutdownTimeout
      BY <1>b, <2>2, <2>3
    <2>5. room # Off => room <= ShutdownTimeout
      BY <1>r
    <2>6. ASSUME room # Off, sock = "closing", ~silent, NEW t \in Signals
          PROVE  force'[t] + 1 >= room /\ (closeTimer = CloseWait => force'[t] >= room)
      BY <1>r, <1>e, <2>3, <2>5, <2>6
    <2> QED  BY <1>d, <2>1, <2>4, <2>6
  <1>5. ASSUME NEW s \in Signals, Flushed(s) \/ AlertFails(s) \/ ForceExit(s)
        PROVE  ForceAhead'
    <2>1. /\ UNCHANGED <<sock, silent, closeTimer, wss, room, force>>
          /\ \A t \in Signals : step'[t] # "none" => step[t] # "none"
      BY <1>s, <1>5 DEF Flushed, AlertFails, ForceExit, clientVars
    <2> QED  BY <1>a, <2>1
  <1>6. ASSUME NEW s \in Signals, Alerted(s)
        PROVE  ForceAhead'
    <2>1. /\ \A t \in Signals : step'[t] # "none" => step[t] # "none"
          /\ force' = force /\ silent' = silent
          /\ wss' \in {"closing", "closed"}
      BY <1>s, <1>6 DEF Alerted, ClientsClosed
    <2>2. CASE room = Off
      <3>1. room' = TimeLeft
        BY <1>6, <2>2 DEF Alerted
      <3>2. \A t \in Signals : room' <= force'[t]
        BY <1>f, <2>1, <3>1, TimeLeftLeast
      <3>3. \A t \in Signals : force'[t] \in Nat /\ room' \in Nat
        BY <1>f, <2>1, <3>1, TimeLeftLeast
      <3> QED  BY <1>a, <2>1, <3>2, <3>3
    <2>3. CASE room # Off
      <3>1. room' = room /\ sock # "open"
        BY <1>6, <1>a, <2>3 DEF Alerted, StageExact
      <3>2. sock' = sock /\ closeTimer' = closeTimer
        BY <1>6, <3>1 DEF Alerted, ClientsClosed, Client!StartClose, Client!Closing
      <3> QED  BY <1>a, <2>1, <2>3, <3>1, <3>2
    <2> QED  BY <2>2, <2>3
  <1>7. CASE WssClosed
    BY <1>7, <1>a DEF WssClosed, WssIdle, clientVars
  <1>8. CASE Tick
    <2>1. \A t \in Signals : /\ force[t] \in Nat /\ force'[t] \in Nat
                             /\ force'[t] <= force[t] /\ force'[t] + 1 >= force[t]
      BY <1>f, <1>8 DEF Tick, Later
    <2>2. step' = step /\ room' = room /\ wss' = wss /\ sock' = sock /\ silent' = silent
      BY <1>8 DEF Tick, Client!Tick, clientVars, Client!peer
    <2>3. sock = "closing" /\ ~silent => closeTimer = CloseWait /\ closeTimer' # CloseWait
      <3>1. sock = "closing" /\ ~silent => closeTimer = CloseWait
        BY <1>8 DEF Tick, Client!Tick, Client!Due
      <3>2. sock = "closing" => closeTimer' = Client!Later(closeTimer)
        BY <1>8 DEF Tick, Client!Tick
      <3> QED  BY <1>c, <3>1, <3>2 DEF Client!Later
    <2>4. \A t \in Signals : step'[t] # "none" => force'[t] <= ShutdownTimeout
      BY <1>f, <1>b, <2>1, <2>2
    <2>5. ASSUME room' # Off, sock' = "closing", ~silent', NEW t \in Signals
          PROVE  force'[t] + 1 >= room' /\ (closeTimer' = CloseWait => force'[t] >= room')
      BY <1>f, <1>r, <1>e, <2>1, <2>2, <2>3, <2>5
    <2>6. room' # Off => wss' \in {"closing", "closed"}
      BY <1>a, <2>2
    <2> QED  BY <2>4, <2>5, <2>6
  <1> QED  BY <1>1, <1>2, <1>3, <1>4, <1>5, <1>6, <1>7, <1>8 DEF Next

(* The exits.                                                                *)
LEMMA ExitStep == ASSUME IInv, Next PROVE CompleteExit' /\ ExitExplained'
  <1> USE DEF Next, Running
  <1>1. ASSUME exit' = "complete" PROVE CompleteExit'
    <2>1. HttpClosed
      BY <1>1 DEF Verified, NotVerified, Retry, GiveUp, Killed, Connect, ClientSteps,
                  RequestArrives, RequestEnds, Signal, Flushed, Alerted, AlertFails,
                  ForceExit, WssClosed, Tick
    <2> QED  BY <2>1 DEF HttpClosed, IInv, StageExact, ClientTimed, CompleteExit,
                         clientVars, servers
  <1>2. ASSUME exit' = "failed"
        PROVE  \/ ~alerted'
               \/ \E s, t \in Signals : s # t /\ step'[s] # "none" /\ step'[t] # "none"
    <2>1. PICK s \in Signals : Alerted(s) \/ AlertFails(s)
      BY <1>2 DEF Verified, NotVerified, Retry, GiveUp, Killed, Connect, ClientSteps,
                  RequestArrives, RequestEnds, Signal, Flushed, HttpClosed,
                  ForceExit, WssClosed, Tick
    <2>2. CASE AlertFails(s)
      BY <2>2 DEF AlertFails
    <2>3. CASE Alerted(s)
      <3>1. wss = "closed" /\ step' = step /\ step[s] = "alert"
        BY <1>2, <2>3 DEF Alerted
      <3>2. PICK t \in Signals : step[t] = "close http"
        BY <3>1 DEF IInv, StageExact
      <3> QED  BY <3>1, <3>2
    <2> QED  BY <2>1, <2>2, <2>3
  <1>3. ASSUME exit' = "forced", room' \in 2..ShutdownTimeout
        PROVE  sock' = "gone" \/ silent'
    <2>1. PICK s \in Signals : ForceExit(s)
      BY <1>3 DEF Verified, NotVerified, Retry, GiveUp, Killed, Connect, ClientSteps,
                  RequestArrives, RequestEnds, Signal, Flushed, Alerted, AlertFails,
                  HttpClosed, WssClosed, Tick
    <2>2. force[s] = 0 /\ room' = room /\ sock' = sock /\ silent' = silent
      BY <2>1 DEF ForceExit, shut, clientVars
    <2>3. room # Off /\ ~(force[s] + 1 >= room)
      BY <1>3, <2>2
    <2>4. sock # "open" /\ ~(sock = "closing" /\ ~silent)
      BY <2>3 DEF IInv, ForceAhead, StageExact
    <2>5. sock \in {"open", "closing", "gone"}
      BY DEF IInv, TypeOK, Client!TypeOK
    <2> QED  BY <2>2, <2>4, <2>5
  <1> QED  BY <1>1, <1>2, <1>3 DEF CompleteExit, ExitExplained

LEMMA IInvStep == IInv /\ [Next]_vars => IInv'
  <1> SUFFICES ASSUME IInv, [Next]_vars PROVE IInv'  OBVIOUS
  <1>1. CASE Next
    BY <1>1, ClientInvStep, TypeStep, StageStep, ForceStep, ExitStep
       DEF IInv, TypeOK, ClientInv
  <1>2. CASE UNCHANGED vars
    <2>1. Client!TypeOK' /\ ClientTimed'
      BY <1>2, SameClient DEF vars, IInv, TypeOK, ClientInv
    <2>2. TypeOK'
      BY <1>2, <2>1 DEF vars, clientVars, start, shut, servers, IInv, TypeOK
    <2>3. StageExact' /\ ForceAhead'
      BY <1>2 DEF vars, clientVars, start, shut, servers, IInv, StageExact, ForceAhead
    <2>4. CompleteExit' /\ ExitExplained'
      BY <1>2 DEF vars, clientVars, start, shut, servers, IInv, CompleteExit, ExitExplained
    <2> QED  BY <2>1, <2>2, <2>3, <2>4 DEF IInv
  <1> QED  BY <1>1, <1>2

(* The strengthening of the properties below is inductive.                   *)
THEOREM AlwaysIInv == Spec => []IInv
  BY Init_IInv, IInvStep, PTL DEF Spec
----------------------------------------------------------------------------
(* The types of the whole composition hold forever: every timer is within    *)
(* what it was set to or off, whatever the shutdowns do to the client.       *)
THEOREM TypeCorrect == Spec => []TypeOK
  <1>1. IInv => TypeOK  BY DEF IInv
  <1> QED  BY <1>1, AlwaysIInv, PTL

(* A peer that vanished without a close frame is terminated within one       *)
(* heartbeat and one pong timeout (setupHeartbeat), for all values of the    *)
(* two with the pong timeout the shorter.                                    *)
THEOREM SilenceIsBounded == Spec => []SilenceBounded
  <1>1. IInv => SilenceBounded
    <2> SUFFICES ASSUME IInv, sock = "open", silent
                 PROVE  silentFor <= Heartbeat + PongWait
      BY DEF SilenceBounded, Client!SilenceBounded
    <2>1. /\ pingInterval \in 0..Heartbeat \union {Client!Off}
          /\ pongTimeout \in 0..PongWait \union {Client!Off}
          /\ silentFor \in 0..Client!MaxSilence
      BY DEF IInv, TypeOK, Client!TypeOK, Client!Timer
    <2>2. isAlive => pingInterval # Client!Off /\ silentFor + pingInterval <= Heartbeat
      BY DEF IInv, ClientTimed
    <2>3. ~isAlive => /\ pongTimeout # Client!Off
                      /\ silentFor + pongTimeout <= Heartbeat + PongWait
      BY DEF IInv, ClientTimed
    <2> QED  BY <2>1, <2>2, <2>3 DEF Client!MaxSilence
  <1> QED  BY <1>1, AlwaysIInv, PTL

(* No client stays open without a valid token past the auth timeout.         *)
THEOREM UnauthenticatedIsBounded == Spec => []UnauthenticatedBounded
  <1>1. IInv => UnauthenticatedBounded
    <2> SUFFICES ASSUME IInv, sock = "open", ~authenticated
                 PROVE  age <= AuthWait
      BY DEF UnauthenticatedBounded, Client!UnauthenticatedBounded
    <2>1. authTimeout \in 0..AuthWait \union {Client!Off} /\ age \in 0..Client!MaxAge
      BY DEF IInv, TypeOK, Client!TypeOK, Client!Timer
    <2>2. authTimeout # Client!Off /\ age + authTimeout <= AuthWait
      BY DEF IInv, ClientTimed
    <2> QED  BY <2>1, <2>2 DEF Client!MaxAge
  <1> QED  BY <1>1, AlwaysIInv, PTL

(* Exit code 0 means that nothing was cut off, for any number of shutdowns   *)
(* that run through each other.                                              *)
THEOREM ExitIsComplete == Spec => []CompleteExit
  <1>1. IInv => CompleteExit  BY DEF IInv
  <1> QED  BY <1>1, AlwaysIInv, PTL

(* An exit with code 1 has one of its three reasons, and the forced exit     *)
(* never cuts off a peer that answers the close frame.                       *)
THEOREM ExitIsExplained == Spec => []ExitExplained
  <1>1. IInv => ExitExplained  BY DEF IInv
  <1> QED  BY <1>1, AlwaysIInv, PTL

(* The heartbeat never gives up on a peer that answers its pings, however    *)
(* the timers, unasked pongs and shutdowns are interleaved.                  *)
THEOREM ResponsiveIsKept == Spec => ResponsiveSurvives
  <1> DEFINE Kept == pingInterval # Client!Off /\ pingInterval' = Client!Off =>
                       silent \/ sock # "open" \/ sock' = "gone"
  <1>1. IInv /\ [Next]_vars => [Kept]_vars
    <2> SUFFICES ASSUME IInv, Next, pingInterval # Client!Off,
                        pingInterval' = Client!Off, ~silent, sock = "open"
                 PROVE  sock' = "gone"
      OBVIOUS
    <2>1. /\ pingInterval \in 0..Heartbeat
          /\ pongTimeout \in 0..PongWait \union {Client!Off}
      BY DEF IInv, TypeOK, Client!TypeOK, Client!Timer
    <2>2. ~isAlive => pongTimeout < pingInterval /\ pongTimeout > 0
      BY DEF IInv, ClientTimed
    <2>3. ~Connect
      BY DEF Connect
    <2>4. ~Client!Tick
      BY <2>1 DEF Client!Tick, Client!Due, Client!Later
    <2>5. ~UNCHANGED clientVars /\ ~ClientsClosed
      BY DEF clientVars, ClientsClosed
    <2>6. ClientSteps
      BY <2>3, <2>4, <2>5
         DEF Next, Verified, NotVerified, Retry, GiveUp, Killed, RequestArrives,
             RequestEnds, Signal, Flushed, Alerted, AlertFails, ForceExit,
             WssClosed, HttpClosed, Tick
    <2>7. ~Client!HeartbeatFires
      BY <2>1, <2>2 DEF Client!HeartbeatFires
    <2>8. ~Client!PongTimeoutFires
      BY <2>1, <2>2 DEF Client!PongTimeoutFires
    <2>9. /\ ~Client!Pong /\ ~Client!AuthMessage /\ ~Client!FallSilent
          /\ ~Client!AuthTimeoutFires
      BY DEF Client!Pong, Client!AuthMessage, Client!FallSilent,
             Client!AuthTimeoutFires, Client!timers
    <2> QED  BY <2>6, <2>7, <2>8, <2>9 DEF ClientSteps, Client!Close
  <1> QED  BY <1>1, AlwaysIInv, PTL DEF Spec, ResponsiveSurvives
=============================================================================
