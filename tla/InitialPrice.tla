---------------------------- MODULE InitialPrice ----------------------------
(* What one WebSocket client is shown of the price of one slab, from two     *)
(* sources that are not ordered: the price read from market_stats after a    *)
(* subscribe (src/routes/ws.ts), and the batched broadcasts of the inserts   *)
(* that the OraclePriceBroadcaster (src/services/) gets from Supabase        *)
(* Realtime. Other slabs matter only for their queries, which a subscribe    *)
(* message makes one after the other. Prices are told by their number; the   *)
(* indexer, an external service, writes both tables. Time is in units, a     *)
(* timer is the units it has left or Off.                                    *)
EXTENDS Naturals, Sequences

CONSTANTS
    Handlers,    \* bound: subscribe messages in progress
    MaxChannels, \* bound: price channels of a subscribe message
    Timeout,     \* WS_INITIAL_PRICE_QUERY_TIMEOUT_MS
    Batch,       \* PRICE_BATCH_INTERVAL_MS
    MaxPrices    \* bound: prices of the slab

ASSUME WaitsPositive ==
    /\ Timeout \in Nat \ {0} /\ Batch \in Nat \ {0}
    /\ MaxChannels \in Nat \ {0} /\ MaxPrices \in Nat
ASSUME BatchBeforeTimeout == Batch <= Timeout  \* 500 ms, 3 s

VARIABLES
    newest,      \* the price in market_stats, 0 for none
    outdated,    \* history: outdated[p]: how long p is not the newest
    channel,     \* the broadcaster's Realtime channel
    inserts,     \* prices on their way in it
    batched,     \* pendingPriceUpdates of the slab, 0 for none
    timer,       \* priceUpdateTimers of the slab
    open,        \* the client's socket is OPEN
    subscribed,  \* the client subscribes to the slab's price channel
    queue,       \* queue[h]: a subscribe message's queries up to the slab's
    left,        \* left[h]: of the timeout of its present query
    read,        \* read[h]: what the slab's query has read
    shown,       \* history: the greatest price sent since the subscription
    dropped,     \* history: the greatest one dropped, the send buffer being full
    lag,         \* history: how long the last price sent was outdated when sent
    missed,      \* history: a source failed since the subscription
    away,        \* history: how long the slab is not subscribed to
    late         \* history: the greatest such time at which a price was sent

world == <<newest, outdated, channel, inserts>>
batches == <<batched, timer>>
client == <<open, subscribed>>
handling == <<queue, left, read>>
sends == <<shown, dropped, lag, late>>
priceVars == <<world, batches, client, handling, sends, missed, away>>

Off == Batch + 1
Unread == MaxPrices + 1
Longest == MaxChannels * Timeout + 1  \* histories stop here
Older(n) == IF n < Longest THEN n + 1 ELSE n

PriceTypeOK ==
    /\ newest \in 0..MaxPrices /\ outdated \in [0..MaxPrices -> 0..Longest]
    /\ channel \in {"idle", "joined", "down", "failed"}
    /\ inserts \in Seq(1..MaxPrices)
    /\ batched \in 0..MaxPrices /\ timer \in 0..Off
    /\ {open, subscribed, missed} \subseteq BOOLEAN
    /\ queue \in [Handlers -> 0..MaxChannels]
    /\ left \in [Handlers -> 0..Timeout] /\ read \in [Handlers -> 0..Unread]
    /\ {shown, dropped} \subseteq 0..MaxPrices
    /\ {lag, away, late} \subseteq 0..Longest

PriceInit ==
    /\ newest = 0 /\ outdated = [p \in 0..MaxPrices |-> 0]
    /\ channel = "idle" /\ inserts = <<>>
    /\ batched = 0 /\ timer = Off
    /\ open = TRUE /\ subscribed = FALSE
    /\ queue = [h \in Handlers |-> 0]
    /\ left = [h \in Handlers |-> 0] /\ read = [h \in Handlers |-> Unread]
    /\ shown = 0 /\ dropped = 0 /\ lag = 0 /\ missed = FALSE /\ away = 0 /\ late = 0

----------------------------------------------------------------------------
(* start() of the broadcaster: a failure is logged and start is not called   *)
(* again. Realtime may drop the channel and join it again by itself; what is *)
(* inserted meanwhile is not delivered later.                                *)
Start ==
    /\ channel = "idle"
    /\ channel' \in {"joined", "failed"}
    /\ UNCHANGED <<newest, outdated, inserts, batches, client, handling, sends, missed, away>>

ChannelDrops ==
    /\ channel = "joined"
    /\ channel' = "down" /\ inserts' = <<>>
    /\ missed' = (missed \/ subscribed)
    /\ UNCHANGED <<newest, outdated, batches, client, handling, sends, away>>

ChannelJoins ==
    /\ channel = "down"
    /\ channel' = "joined"
    /\ UNCHANGED <<newest, outdated, inserts, batches, client, handling, sends, missed, away>>

(* The indexer writes a price.                                               *)
Insert ==
    /\ newest < MaxPrices
    /\ newest' = newest + 1
    /\ inserts' = IF channel = "joined" THEN Append(inserts, newest') ELSE inserts
    /\ missed' = (missed \/ (subscribed /\ channel # "joined"))
    /\ UNCHANGED <<outdated, channel, batches, client, handling, sends, away>>

(* Plausible bug for the checks: the price that is pending stays.            *)
PriceArrivesKeepingFirst ==
    /\ inserts # <<>>
    /\ inserts' = Tail(inserts)
    /\ IF subscribed /\ timer = Off
         THEN batched' = Head(inserts) /\ timer' = Batch
         ELSE UNCHANGED batches
    /\ UNCHANGED <<newest, outdated, channel, client, handling, sends, missed, away>>

(* The insert arrives, "price.updated" is published and its listener run: it *)
(* is dropped if nobody subscribes to the slab, else it replaces what is     *)
(* pending, and the batch timer is set if it is not.                         *)
PriceArrives ==
    /\ inserts # <<>>
    /\ inserts' = Tail(inserts)
    /\ IF subscribed
         THEN batched' = Head(inserts) /\ timer' = IF timer = Off THEN Batch ELSE timer
         ELSE UNCHANGED batches
    /\ UNCHANGED <<newest, outdated, channel, client, handling, sends, missed, away>>

----------------------------------------------------------------------------
(* A price message: it is dropped when the socket is not open, or when more  *)
(* than MAX_BUFFER_BYTES of it wait to be sent - which depends on the peer   *)
(* and on all else it is sent, and is either here.                           *)
Larger(m, n) == IF m < n THEN n ELSE m
Send(p) ==
    IF ~open
      THEN UNCHANGED sends
      ELSE \/ /\ shown' = Larger(shown, p)
              /\ lag' = outdated[p]
              /\ late' = Larger(late, away)
              /\ UNCHANGED dropped
           \/ /\ dropped' = Larger(dropped, p)
              /\ UNCHANGED <<shown, lag, late>>

FlushPrice ==
    /\ timer = 0
    /\ timer' = Off /\ batched' = 0
    /\ IF subscribed THEN Send(batched) ELSE UNCHANGED sends
    /\ UNCHANGED <<world, client, handling, missed, away>>

(* A subscription: what was sent before does not count for it.               *)
Subscribed(failed) ==
    /\ open /\ ~subscribed
    /\ subscribed' = TRUE
    /\ shown' = 0 /\ dropped' = 0 /\ missed' = failed /\ away' = 0
    /\ UNCHANGED <<world, batches, open, lag, late>>

(* A subscribe message: its new channels are subscribed to at once, then the *)
(* price of each is queried, the slab's after up to MaxChannels - 1 others.  *)
Subscribe(h) ==
    /\ queue[h] = 0
    /\ Subscribed(FALSE)
    /\ \E n \in 1..MaxChannels : queue' = [queue EXCEPT ![h] = n]
    /\ left' = [left EXCEPT ![h] = Timeout]
    /\ UNCHANGED read

(* The legacy form queries no initial price.                                 *)
SubscribeLegacy == Subscribed(TRUE) /\ UNCHANGED handling

Unsubscribe ==
    /\ open /\ subscribed
    /\ subscribed' = FALSE
    /\ UNCHANGED <<world, batches, open, handling, sends, missed, away>>

ClientCloses ==
    /\ open
    /\ open' = FALSE /\ subscribed' = FALSE
    /\ UNCHANGED <<world, batches, handling, sends, missed, away>>

----------------------------------------------------------------------------
(* A query of a slab before ours is over, or ours is and the rest does not   *)
(* matter.                                                                   *)
NextQuery(h) ==
    /\ queue' = [queue EXCEPT ![h] = @ - 1]
    /\ left' = [left EXCEPT ![h] = IF queue[h] > 1 THEN Timeout ELSE 0]
    /\ read' = [read EXCEPT ![h] = Unread]

OtherQueryEnds(h) ==
    /\ queue[h] > 1
    /\ NextQuery(h)
    /\ UNCHANGED <<world, batches, client, sends, missed, away>>

(* Supabase reads the row.                                                   *)
QueryRead(h) ==
    /\ queue[h] = 1 /\ read[h] = Unread
    /\ read' = [read EXCEPT ![h] = newest]
    /\ UNCHANGED <<world, batches, client, queue, left, sends, missed, away>>

(* Its answer arrives and is sent, if there is a price; nothing is checked   *)
(* again.                                                                    *)
QueryAnswered(h) ==
    /\ queue[h] = 1 /\ read[h] # Unread
    /\ IF read[h] = 0 THEN UNCHANGED sends ELSE Send(read[h])
    /\ NextQuery(h)
    /\ UNCHANGED <<world, batches, client, missed, away>>

(* It fails, at the latest when the abort signal fires.                      *)
QueryFails(h) ==
    /\ queue[h] = 1
    /\ missed' = TRUE
    /\ NextQuery(h)
    /\ UNCHANGED <<world, batches, client, sends, away>>

(* Time goes on when no timer is due; a query ends at its abort signal, and  *)
(* Realtime delivers within a unit.                                          *)
AbortedNever(h) == FALSE  \* plausible bug: queries without a timeout
Aborted(h) == queue[h] > 0 /\ left[h] = 0
Tick ==
    /\ inserts = <<>> /\ timer # 0
    /\ \A h \in Handlers : ~Aborted(h)
    /\ timer' = IF timer = Off THEN Off ELSE timer - 1
    /\ left' = [h \in Handlers |-> IF left[h] > 0 THEN left[h] - 1 ELSE 0]
    /\ outdated' = [p \in 0..MaxPrices |-> IF p < newest THEN Older(outdated[p]) ELSE 0]
    /\ away' = IF subscribed THEN 0 ELSE Older(away)
    /\ UNCHANGED <<newest, channel, inserts, batched, client, queue, read, sends, missed>>

PriceNext ==
    \/ Start \/ ChannelDrops \/ ChannelJoins
    \/ Insert \/ PriceArrives \/ FlushPrice
    \/ SubscribeLegacy \/ Unsubscribe \/ ClientCloses
    \/ \E h \in Handlers :
         \/ Subscribe(h)
         \/ OtherQueryEnds(h) \/ QueryRead(h) \/ QueryAnswered(h) \/ QueryFails(h)
    \/ Tick

PriceSpec == PriceInit /\ [][PriceNext]_priceVars
----------------------------------------------------------------------------
(* The initial price may be sent after a newer broadcast, and then stays     *)
(* until the next insert; but no price sent has been outdated for longer     *)
(* than the timeout of a query.                                              *)
RegressionBounded == lag <= Timeout

(* Between the two sources nothing is lost: when all queries and batches are *)
(* over and neither a query nor the channel failed since the subscription,   *)
(* the client has been shown the newest price - because the subscription is  *)
(* there before the query is sent - unless it was too slow for that price:   *)
(* its send buffer was full when the newest price itself was to be sent      *)
(* (safeSend, flushPriceUpdate). Older ones that were dropped do not matter. *)
Settled ==
    /\ open /\ subscribed /\ ~missed
    /\ channel = "joined" /\ inserts = <<>> /\ timer = Off
    /\ \A h \in Handlers : queue[h] = 0
NothingLost == Settled => newest \in {shown, dropped}

(* A price may still come after the channel is unsubscribed, from a message  *)
(* whose queries are in progress, but only until these have timed out one    *)
(* after the other.                                                          *)
QuietAfterUnsubscribe == late <= MaxChannels * Timeout
=============================================================================
