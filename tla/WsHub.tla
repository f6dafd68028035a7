------------------------------- MODULE WsHub -------------------------------
(* The subscription hub of src/routes/ws.ts: the channels each client is     *)
(* subscribed to, the index connectionsPerSlab the broadcasts iterate over,  *)
(* the counter globalSubscriptionCount the limits are checked against, and   *)
(* the 500 ms batching of price events (pendingPriceUpdates and              *)
(* priceUpdateTimers).                                                       *)
(* Every handler here runs without an await between the state it reads and   *)
(* the state it writes, so a handler is one action. The awaits of admission  *)
(* and of the auth upgrade are in WsConnections; this module sees of them    *)
(* only that a client appears, is authenticated, starts closing, is gone.    *)
EXTENDS Integers, FiniteSets

CONSTANTS
    Clients,       \* WsClient objects; one is reused once its socket is gone
    Slabs,         \* well-formed slab addresses (sanitizeSlabAddress accepts)
    BlockedSlabs,  \* the ones isBlockedSlab refuses
    TokenSlabs,    \* what verifyWsToken can return: slabs, NoSlab if unbound
    NoSlab,        \* authenticatedSlab = undefined
    AuthRequired,  \* WS_AUTH_REQUIRED
    MaxPerSlab,    \* MAX_CONNECTIONS_PER_SLAB
    MaxPerClient,  \* MAX_SUBSCRIPTIONS_PER_CLIENT
    MaxGlobal,     \* MAX_GLOBAL_SUBSCRIPTIONS
    MaxPerMessage  \* MAX_CHANNELS_PER_MESSAGE

ASSUME ClientsFinite == IsFiniteSet(Clients)
ASSUME SlabsFinite == IsFiniteSet(Slabs) /\ BlockedSlabs \subseteq Slabs
ASSUME TokensBind == NoSlab \notin Slabs /\ TokenSlabs \subseteq Slabs \union {NoSlab}
ASSUME AuthRequiredBoolean == AuthRequired \in BOOLEAN
ASSUME LimitsPositive ==
    /\ MaxPerSlab \in Nat \ {0}
    /\ MaxPerClient \in Nat \ {0}
    /\ MaxGlobal \in Nat \ {0}
    /\ MaxPerMessage \in Nat \ {0}

VARIABLES
    sock,           \* readyState of a registered client's socket
    authenticated,  \* client.authenticated
    boundTo,        \* client.authenticatedSlab
    subs,           \* client.subscriptions
    slabClients,    \* connectionsPerSlab; no entry is the empty set
    globalSubs,     \* globalSubscriptionCount
    pending,        \* keys of pendingPriceUpdates
    timers,         \* keys of priceUpdateTimers
    armed,          \* slabs a Node timer will still call flushPriceUpdate for
    listening,      \* the eventBus listeners are registered
    owed            \* history: who has not been handed the newest price event

vars == <<sock, authenticated, boundTo, subs, slabClients, globalSubs,
          pending, timers, armed, listening, owed>>

batching == <<pending, timers, armed>>
identity == <<authenticated, boundTo>>

ChannelTypes == {"price", "trades", "funding"}
Channels == ChannelTypes \X Slabs

(* Channels of slab s, and slabs of a set of channels (getClientSlabs).      *)
ChannelsOf(s) == ChannelTypes \X {s}
SlabsOf(chs) == {ch[2] : ch \in chs}

(* Who a broadcast on <<t, s>> is sent to: it walks the index, not clients.  *)
RecipientsWrongChannel(t, s) ==
    {c \in slabClients[s] : sock[c] = "open" /\ <<"trades", s>> \in subs[c]}
Recipients(t, s) ==
    {c \in slabClients[s] : sock[c] = "open" /\ <<t, s>> \in subs[c]}

TypeOK ==
    /\ sock \in [Clients -> {"gone", "open", "closing"}]
    /\ authenticated \in [Clients -> BOOLEAN]
    /\ boundTo \in [Clients -> Slabs \union {NoSlab}]
    /\ subs \in [Clients -> SUBSET Channels]
    /\ slabClients \in [Slabs -> SUBSET Clients]
    /\ globalSubs \in Nat
    /\ pending \subseteq Slabs /\ timers \subseteq Slabs /\ armed \subseteq Slabs
    /\ listening \in BOOLEAN
    /\ owed \subseteq Clients \X Slabs

Init ==
    /\ sock = [c \in Clients |-> "gone"]
    /\ authenticated = [c \in Clients |-> FALSE]
    /\ boundTo = [c \in Clients |-> NoSlab]
    /\ subs = [c \in Clients |-> {}]
    /\ slabClients = [s \in Slabs |-> {}]
    /\ globalSubs = 0
    /\ pending = {} /\ timers = {} /\ armed = {}
    /\ listening = TRUE
    /\ owed = {}

----------------------------------------------------------------------------
(* The slabs of S whose last client is c.                                    *)
EmptiedNever(c, S) == {}
EmptiedAlways(c, S) == S
Emptied(c, S) == {s \in S : slabClients[s] = {c}}

(* removeClientFromSlab for each slab of S: an emptied entry is deleted, and *)
(* with it the slab's pending update and its timer, which is cleared.        *)
RemoveClientFromSlabs(c, S) ==
    /\ slabClients' = [s \in Slabs |-> IF s \in S THEN slabClients[s] \ {c}
                                                  ELSE slabClients[s]]
    /\ pending' = pending \ Emptied(c, S)
    /\ timers' = timers \ Emptied(c, S)
    /\ armed' = armed \ (Emptied(c, S) \intersect timers)

(* addClientToSlab for each slab of S.                                       *)
AddClientToSlabs(c, S) ==
    slabClients' = [s \in Slabs |-> IF s \in S THEN slabClients[s] \union {c}
                                               ELSE slabClients[s]]

(* The end of admission: the client is created and joins clients. Without    *)
(* WS_AUTH_REQUIRED it is authenticated; otherwise iff its token was valid.  *)
Register(c) ==
    /\ sock[c] = "gone"
    /\ sock' = [sock EXCEPT ![c] = "open"]
    /\ \/ /\ authenticated' = [authenticated EXCEPT ![c] = ~AuthRequired]
          /\ boundTo' = [boundTo EXCEPT ![c] = NoSlab]
       \/ /\ AuthRequired
          /\ authenticated' = [authenticated EXCEPT ![c] = TRUE]
          /\ \E slab \in TokenSlabs : boundTo' = [boundTo EXCEPT ![c] = slab]
    /\ UNCHANGED <<subs, slabClients, globalSubs, batching, listening, owed>>

(* A valid auth message. A client bound to one slab is refused another one.  *)
Authenticate(c) ==
    /\ sock[c] # "gone"
    /\ \E slab \in TokenSlabs :
         /\ ~ /\ authenticated[c] /\ boundTo[c] # NoSlab
              /\ slab # NoSlab /\ slab # boundTo[c]
         /\ boundTo' = [boundTo EXCEPT ![c] = slab]
    /\ authenticated' = [authenticated EXCEPT ![c] = TRUE]
    /\ UNCHANGED <<sock, subs, slabClients, globalSubs, batching, listening, owed>>

(* The gates every subscription passes: authentication, blocklist, binding.  *)
MayUseUnauthenticated(c, s) ==
    sock[c] # "gone" /\ s \notin BlockedSlabs /\ boundTo[c] \in {NoSlab, s}
MayUseAnySlab(c, s) ==
    sock[c] # "gone" /\ (AuthRequired => authenticated[c]) /\ s \notin BlockedSlabs
MayUse(c, s) ==
    /\ sock[c] # "gone"
    /\ AuthRequired => authenticated[c]
    /\ s \notin BlockedSlabs
    /\ boundTo[c] \in {NoSlab, s}

(* The two subscription limits leave room for n more channels of c.          *)
HasRoomOffByOne(c, n) ==
    globalSubs + n <= MaxGlobal + 1 /\ Cardinality(subs[c]) + n <= MaxPerClient
HasRoom(c, n) ==
    globalSubs + n <= MaxGlobal /\ Cardinality(subs[c]) + n <= MaxPerClient

(* The subscribe message with a channels array. accepted is what the loop    *)
(* adds, whatever the order of the array: an entry that is malformed, held   *)
(* already, or refused by a gate or a limit adds nothing. The limit of a     *)
(* slab counts clients and is checked at each channel, so a second channel   *)
(* of one slab must find room after the first has put the client there.      *)
SubscribeChannels(c) ==
    \E accepted \in SUBSET (Channels \ subs[c]) :
        /\ accepted # {}
        /\ Cardinality(accepted) <= MaxPerMessage
        /\ HasRoom(c, Cardinality(accepted))
        /\ \A s \in SlabsOf(accepted) :
             /\ MayUse(c, s)
             /\ Cardinality(slabClients[s]) < MaxPerSlab
             /\ Cardinality(accepted \intersect ChannelsOf(s)) > 1
                  => Cardinality(slabClients[s] \union {c}) < MaxPerSlab
        /\ subs' = [subs EXCEPT ![c] = @ \union accepted]
        /\ globalSubs' = globalSubs + Cardinality(accepted)
        /\ AddClientToSlabs(c, SlabsOf(accepted))
        /\ UNCHANGED <<sock, identity, batching, listening, owed>>

(* The order in which the legacy subscribe adds a slab's channels.           *)
LegacyOrder ==
    {<<"price", "trades">>, <<"price", "funding">>, <<"trades", "funding">>}

(* The legacy subscribe message {slabAddress}: the slab's limit is checked   *)
(* once, then price, trades and funding are added in this order while both   *)
(* subscription limits leave room.                                           *)
SubscribeSlab(c, s) ==
    /\ MayUse(c, s)
    /\ Cardinality(slabClients[s]) < MaxPerSlab
    /\ LET missing == ChannelsOf(s) \ subs[c]
       IN \E added \in SUBSET missing :
            /\ added # {}
            /\ HasRoom(c, Cardinality(added))
            /\ added # missing => ~HasRoom(c, Cardinality(added) + 1)
            /\ \A ch \in added, earlier \in missing :
                 <<earlier[1], ch[1]>> \in LegacyOrder => earlier \in added
            /\ subs' = [subs EXCEPT ![c] = @ \union added]
            /\ globalSubs' = globalSubs + Cardinality(added)
    /\ AddClientToSlabs(c, {s})
    /\ UNCHANGED <<sock, identity, batching, listening, owed>>

(* The slabs c has left when it drops these channels: those of which it      *)
(* holds no other channel.                                                   *)
SlabsTouched(c, dropped) == SlabsOf(dropped)
SlabsLeft(c, dropped) == SlabsOf(dropped) \ SlabsOf(subs[c] \ dropped)

(* The unsubscribe message with a channels array; dropped are the entries    *)
(* that the client held.                                                     *)
UnsubscribeChannels(c) ==
    /\ sock[c] # "gone"
    /\ AuthRequired => authenticated[c]
    /\ \E dropped \in SUBSET subs[c] :
         /\ dropped # {}
         /\ Cardinality(dropped) <= MaxPerClient
         /\ subs' = [subs EXCEPT ![c] = @ \ dropped]
         /\ globalSubs' = globalSubs - Cardinality(dropped)
         /\ RemoveClientFromSlabs(c, SlabsLeft(c, dropped))
         /\ owed' = {p \in owed : ~(p[1] = c /\ <<"price", p[2]>> \in dropped)}
    /\ UNCHANGED <<sock, identity, listening>>

(* The channels of s that c holds.                                           *)
HeldOf(c, s) == subs[c] \intersect ChannelsOf(s)

(* The legacy unsubscribe message {slabAddress}: it leaves the slab whether  *)
(* or not it held a channel of it.                                           *)
UnsubscribeSlab(c, s) ==
    /\ sock[c] # "gone"
    /\ AuthRequired => authenticated[c]
    /\ subs' = [subs EXCEPT ![c] = @ \ HeldOf(c, s)]
    /\ globalSubs' = globalSubs - Cardinality(HeldOf(c, s))
    /\ RemoveClientFromSlabs(c, {s})
    /\ owed' = owed \ {<<c, s>>}
    /\ UNCHANGED <<sock, identity, listening>>

(* The socket leaves OPEN: the peer's close frame, or ws.close/ws.terminate  *)
(* by a timeout, the heartbeat, a refused upgrade or the shutdown. Messages  *)
(* already on the wire are still handled; nothing is sent any more.          *)
StartClosing(c) ==
    /\ sock[c] = "open"
    /\ sock' = [sock EXCEPT ![c] = "closing"]
    /\ owed' = {p \in owed : p[1] # c}
    /\ UNCHANGED <<identity, subs, slabClients, globalSubs, batching, listening>>

(* Math.max(0, globalSubscriptionCount - client.subscriptions.size).         *)
CountKept(c) == globalSubs
CountWithout(c) ==
    IF globalSubs >= Cardinality(subs[c]) THEN globalSubs - Cardinality(subs[c]) ELSE 0

(* The close handler. The WsClient object is dropped with its subscriptions. *)
Close(c) ==
    /\ sock[c] # "gone"
    /\ sock' = [sock EXCEPT ![c] = "gone"]
    /\ RemoveClientFromSlabs(c, SlabsOf(subs[c]))
    /\ globalSubs' = CountWithout(c)
    /\ subs' = [subs EXCEPT ![c] = {}]
    /\ authenticated' = [authenticated EXCEPT ![c] = FALSE]
    /\ boundTo' = [boundTo EXCEPT ![c] = NoSlab]
    /\ owed' = {p \in owed : p[1] # c}
    /\ UNCHANGED listening

(* The price.updated listener. A slab nobody is in is skipped; otherwise the *)
(* event overwrites the pending one and arms a timer unless there is one.    *)
(* owed counts who should hear of it from the subscriptions themselves.      *)
PriceUpdated(s) ==
    /\ listening
    /\ IF slabClients[s] = {}
         THEN UNCHANGED batching
         ELSE /\ pending' = pending \union {s}
              /\ timers' = timers \union {s}
              /\ armed' = IF s \in timers THEN armed ELSE armed \union {s}
    /\ owed' = owed \union
         {p \in Clients \X {s} : sock[p[1]] = "open" /\ <<"price", s>> \in subs[p[1]]}
    /\ UNCHANGED <<sock, identity, subs, slabClients, globalSubs, listening>>

(* The timer fires and flushPriceUpdate(s) runs. With nothing pending it     *)
(* returns before it forgets the timer.                                      *)
FlushPriceUpdate(s) ==
    /\ s \in armed
    /\ armed' = armed \ {s}
    /\ IF s \in pending
         THEN /\ pending' = pending \ {s}
              /\ timers' = timers \ {s}
              /\ owed' = owed \ (Recipients("price", s) \X {s})
         ELSE UNCHANGED <<pending, timers, owed>>
    /\ UNCHANGED <<sock, identity, subs, slabClients, globalSubs, listening>>

(* cleanupPriceUpdateTimers and cleanupEventBusListeners, back to back in    *)
(* the shutdown. Clients are closed one by one afterwards.                   *)
Cleanup ==
    /\ listening
    /\ listening' = FALSE
    /\ pending' = {} /\ timers' = {} /\ armed' = armed \ timers
    /\ owed' = {}
    /\ UNCHANGED <<sock, identity, subs, slabClients, globalSubs>>

Next ==
    \/ \E c \in Clients :
         \/ Register(c) \/ Authenticate(c) \/ StartClosing(c) \/ Close(c)
         \/ SubscribeChannels(c) \/ UnsubscribeChannels(c)
         \/ \E s \in Slabs : SubscribeSlab(c, s) \/ UnsubscribeSlab(c, s)
    \/ \E s \in Slabs : PriceUpdated(s) \/ FlushPriceUpdate(s)
    \/ Cleanup

(* An armed Node timer fires.                                                *)
Fairness == \A s \in Slabs : WF_vars(FlushPriceUpdate(s))

Spec == Init /\ [][Next]_vars /\ Fairness
----------------------------------------------------------------------------
(* The index broadcasts walk is exactly the subscriptions seen from the      *)
(* other side: whatever order clients subscribe, unsubscribe by either       *)
(* protocol and disconnect in, connectionsPerSlab lists the clients holding  *)
(* some channel of the slab (a missing one gets no broadcast, an extra one   *)
(* pins the entry, and its limit, for ever).                                 *)
SlabIndexExact ==
    \A s \in Slabs : slabClients[s] = {c \in Clients : s \in SlabsOf(subs[c])}

(* globalSubscriptionCount is the number of subscriptions held, so the       *)
(* server-wide limit neither leaks capacity nor lets it be exceeded.         *)
SubscriptionPairs == {p \in Clients \X Channels : p[2] \in subs[p[1]]}
SubCountExact == globalSubs = Cardinality(SubscriptionPairs)

(* The three subscription limits hold of the sets themselves, also after the *)
(* second and third channel a single message adds.                           *)
WithinLimits ==
    /\ Cardinality(SubscriptionPairs) <= MaxGlobal
    /\ \A c \in Clients : Cardinality(subs[c]) <= MaxPerClient
    /\ \A s \in Slabs : Cardinality(slabClients[s]) <= MaxPerSlab

(* The pending map, the timer map and the Node timers agree: a slab with a   *)
(* pending price has one timer that will flush it, a timer never fires for a *)
(* slab nobody is in, and none is left behind by the last client of a slab   *)
(* or by the shutdown's cleanup.                                             *)
TimersExact ==
    /\ pending = timers /\ timers = armed
    /\ \A s \in armed : listening /\ slabClients[s] # {}

(* A price event a subscriber has not been handed is still pending and will  *)
(* be flushed: coalescing, other clients' departures and the batching timer  *)
(* lose no last price (priceUpdatedListener, flushPriceUpdate,               *)
(* removeClientFromSlab).                                                    *)
NoLostUpdate ==
    \A p \in owed :
        /\ p[2] \in pending \intersect armed
        /\ p[1] \in Recipients("price", p[2])

(* The slab-binding invariant the auth handler's comment speaks of (ws.ts    *)
(* 794-795): a client whose token is bound to a market holds subscriptions   *)
(* of that market only.                                                      *)
SlabBinding ==
    \A c \in Clients : boundTo[c] # NoSlab => SlabsOf(subs[c]) \subseteq {boundTo[c]}

(* With WS_AUTH_REQUIRED a client that never presented a token holds no      *)
(* subscription and appears in no slab's index, closing sockets included.    *)
AuthGate ==
    AuthRequired => \A c \in Clients : ~authenticated[c] =>
        subs[c] = {} /\ \A s \in Slabs : c \notin slabClients[s]

(* The hub implements the price feed: listening is having the price channel  *)
(* on an open socket.                                                        *)
Listens == {p \in Clients \X Slabs :
              sock[p[1]] = "open" /\ <<"price", p[2]>> \in subs[p[1]]}
Feed == INSTANCE PriceFeed WITH listens <- Listens, serving <- listening
ImplementsPriceFeed == Feed!Spec
=============================================================================
