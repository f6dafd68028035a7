----------------------------- MODULE PriceFeed -----------------------------
(* What the WebSocket price feed of src/routes/ws.ts promises its clients,   *)
(* with no index, no counter, no pending map and no timer: a price event of  *)
(* a slab is owed to every open client subscribed to the slab's price        *)
(* channel, and whoever stays open and subscribed is handed it, in the one   *)
(* batch that serves every client the slab still owes.                       *)
(* A hand-over is the attempt to send: ws.ts drops a message of a client     *)
(* whose socket buffer is over MAX_BUFFER_BYTES, and so may the feed.        *)
EXTENDS Naturals

CONSTANTS Clients, Slabs

VARIABLES
    listens,  \* <<c, s>>: open client c is subscribed to price:s
    owed,     \* <<c, s>>: c has not yet been handed the newest price of s
    serving   \* FALSE once the server has begun to shut down

vars == <<listens, owed, serving>>

Pairs == Clients \X Slabs

TypeOK ==
    /\ listens \subseteq Pairs
    /\ owed \subseteq Pairs
    /\ serving \in BOOLEAN

Init ==
    /\ listens = {}
    /\ owed = {}
    /\ serving = TRUE

(* A client comes to listen to some slabs and stops listening to others.     *)
(* What it no longer listens to is no longer owed to it.                     *)
ChangeListening(c) ==
    \E now \in SUBSET Slabs :
        /\ listens' = {p \in listens : p[1] # c} \union ({c} \X now)
        /\ owed' = owed \intersect listens'
        /\ UNCHANGED serving

(* A price event of s is owed to everyone who listens to s.                  *)
Publish(s) ==
    /\ serving
    /\ owed' = owed \union {p \in listens : p[2] = s}
    /\ UNCHANGED <<listens, serving>>

(* One batch hands the newest price of s to everyone it is owed to.          *)
HandOver(s) ==
    /\ owed' = {p \in owed : p[2] # s}
    /\ UNCHANGED <<listens, serving>>

(* A shutdown publishes nothing more and drops what has not been sent.       *)
Stop ==
    /\ serving' = FALSE
    /\ owed' = {}
    /\ UNCHANGED listens

Next ==
    \/ \E c \in Clients : ChangeListening(c)
    \/ \E s \in Slabs : Publish(s) \/ HandOver(s)
    \/ Stop

Fairness == \A s \in Slabs : WF_vars(HandOver(s))

Spec == Init /\ [][Next]_vars /\ Fairness
=============================================================================
