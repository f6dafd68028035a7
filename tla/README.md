# percolator-api in TLA+

A verification development of the HTTP and WebSocket API of percolator-api.
Paths are relative to the repository; `ws.ts` is `src/routes/ws.ts`,
`shared-store.ts` is `src/middleware/shared-store.ts`, and so on.
`PROJECT.json` lists, for every definition, the source lines it stands for.

The server is one Node process per replica. Handlers interleave at their awaits
and nowhere else, so the grain of every model is: **one action per stretch of
code between two awaits**. What runs outside the process (the database, RPC and
price services, Redis, the peer of a socket) answers, fails or is late.

## 1. Inventory

| Component | State | Operations | Interacts with | Correct when |
|---|---|---|---|---|
| WebSocket hub (`ws.ts`) | `clients`, `client.subscriptions`, `connectionsPerSlab`, `globalSubscriptionCount`, `pendingPriceUpdates`, `priceUpdateTimers` | two subscribe and two unsubscribe protocols, auth, close, price event, flush, cleanup | event bus, broadcaster, shutdown | index and counter agree with the subscriptions; limits hold; no owed price is lost; auth and slab binding gate subscriptions |
| Admission, auth upgrade, disconnect (`ws.ts`) | `clients.size`, per-IP auth and unauth counters, `initiallyAuthenticated` | connection handler (3 awaits on each path), auth message (3 awaits), close | shared store | counters balance; connection limits hold; no client outlives its socket |
| Heartbeat and auth timers (`ws.ts`) | ping interval, pong timeout, auth timeout, `isAlive` | ping, pong, timeouts, close | `ws` library | silent peers leave, responsive ones stay, no timer is left behind |
| Initial price (`ws.ts`) | none | one query per price channel after a subscribe reply | database, flush | how old a sent price may be, and that none is lost, is bounded |
| Token verification (`ws.ts`) | none | HMAC and expiry | | pure |
| Auth-failure bans (`ws.ts`, `shared-store.ts`) | failure records with window and ban | record, check, sweep | WebSocket admission | bans are deserved and hold |
| Rate limiting (`rate-limit.ts`, `shared-store.ts`) | fixed-window buckets in a bounded Map | check, sweep | every HTTP route | what a window lets through is bounded, nobody else's requests count |
| Shared store on Upstash (`shared-store.ts`) | Redis keys, fallback store of the process | command with timeout, fallback | bans, limits, counters | the error is no larger than the faults |
| Response cache (`cache.ts`) | Map of responses, least recently used first | get, set, evict, ETag | routes | bounded age and size |
| Database fallback (`db-cache-fallback.ts`) | `dbCache` | query, keep, fall back | database, response cache | bounded staleness, marked |
| Oracle router (`oracle-router.ts`) | `cache`, `inflight` | request, settle, evict | `resolvePrice` (external) | coalescing, bounded staleness, monotone |
| Oracle price broadcaster (`OraclePriceBroadcaster.ts`) | channel, status | start, callbacks, stop | Supabase, event bus | every insert of a joined channel reaches the hub |
| RPC timeout and fallback (`rpc-timeout.ts`, `rpc-fallback.ts`) | timers | race, retry on the second connection | RPC nodes | answers once, in time |
| Server lifecycle (`index.ts`) | shutdown coroutines, timers | database check, signals, shutdown | all | terminates, in order |
| Client IP, IP blocklist | none | trusted-proxy rule in three copies, CIDR match | limits, bans | same rule everywhere, exact match |
| ADL rankings (`adl.ts`) | 15 s cache | trigger, ranking | RPC | ranks who is in profit, in order |
| Health (`health.ts`) | 5 s cache | check | RPC, database | bounded age |
| Candles (`candles.ts`) | none | bucketing | database | bars of the trades asked for |
| Funding, prices, open interest, insurance | none of their own | queries, parameters | database, caches | the rows asked for |
| Markets, trades, crank, stats | none of their own | queries behind the caches | both caches | as the caches |
| Chart | cache of OHLCV | relay | external API | as its source |
| Slab validation, API keys, headers, docs | none | stateless | routes | pure |

What is hard here: admission and upgrade change several counters across awaits,
some of them on a remote store whose calls fail half-way; the subscription state
is held three times over; timers race messages; caches are judged after awaits
and stacked on each other; fixed windows and bounded Maps give way at their
edges; shutdowns overlap. `PROJECT.json` "hazards" lists each of these at its
line, with the properties about it, or a note where there is none.

## 2. Modules

**WsHub** (`ws.ts` 96-182, 355-587, 623-685, 792-1205) is the core. A client is a
record spread over functions: `sock`, `authenticated`, `boundTo`, `subs`; with
the index, the counter, the pending map, the timer map and, apart from the map,
the Node timers (`armed`), so that a forgotten `clearTimeout` or `delete` is
visible. Each message handler is one action: it contains no await between what
it reads and what it writes. `SubscribeChannels` adds the channels of one
message one by one under the three limits, `SubscribeSlab` is the older
protocol, which checks once and adds three channels. The history variable
`owed` says who has not been handed the newest price event; it is fed from the
subscriptions, the code's broadcasts from the index, so that the two are
compared. A client object whose socket is gone is reused.

**PriceFeed** is the abstract specification: while the feed serves, a price event
is owed to every listener, hand-overs serve all who are owed at once, and what
is owed is handed over or the listener leaves. It knows no index, no timer and
no counter. `WsHub` implements it with
`listens` = open sockets holding the price channel and `serving` = `listening`.

**WsConnections** (`ws.ts` 589-692, 809-848, 1120-1165; `shared-store.ts` 179-190,
361-417) cuts admission, upgrade and close at their awaits over the per-IP
counters. The variable `remote` is the choice `getSharedStore()` makes at the
start. In memory the store's promises are settled already, so no socket event
comes between two awaits of a handler - but auth messages that arrive in one
chunk start together. On Redis each call is a step and anything comes between;
a call may fail, executed or not, and is then repeated on the process's own
`fallback` counters; a counter may expire (`CountExpires`: a day after its last
increment, hence never while one has just been executed); the process may crash
and restart with the same Redis. The history `miscounts` adds up what each fault
explains. A socket that closes before the close handler is attached becomes a
*ghost*: its client stays, stands in no counter, and the count it leaves behind is
charged to `miscounts`. A socket that is entirely gone is used again.

**WsTimers** (`ws.ts` 672-745, 810-836, 1120-1134) is one client's timers in
discrete time against a peer that may fall silent. A timer that is due fires
before time goes on. **ServerLifecycle** (`index.ts` 261-398) runs it as `Client`
inside the process: the database check with its retries; signals and uncaught
exceptions, each starting a shutdown coroutine of its own that is cut at its
awaits; `wss.close` and `server.close`, which wait for what is open and fail once
closed; the forced exit; a client that connects, leaves and falls silent at any
time; and requests in progress.

**AuthBans** (`ws.ts` 116-160, `shared-store.ts` 192-240) is the failure Map with
its fixed window, ban, eviction and sweep. Its history is the failures
themselves. **RemoteBans** extends it by the store in Redis (`shared-store.ts`
431-493): scripts that are not awaited and carry the time they were sent, the
HGET of a check and the separate DEL of an expired ban, expiry of keys, and
failed calls, for which AuthBans itself is the fallback.

**RateLimit** (`rate-limit.ts`, `shared-store.ts` 114-176, 295-360) is the Map of
buckets with its eviction of at most `ScanLimit` looked at, the sweep, and the
script of Upstash with its fallback. A script carries the time at which its request
was sent and is executed later (`Delay`), possibly after the call was given up at
`Timeout` and the fallback has decided (the phase "abandoned"). The read limit
only: the write limit is unreachable behind the 405 of `index.ts` 142-151.
Times are kept relative to `now`, which makes the model finite without a bound
on time; `MaxCount` stands for every larger count.

**RpcRoutes** (`adl.ts`, `health.ts`, `rpc-timeout.ts`, `rpc-fallback.ts`) is the
two routes that ask an RPC node: the race of a call with its timer, the one
retry on the fallback connection, the call that lost and settles later, and the
two caches. Data is told by its age.

**InitialPrice** (`ws.ts` 223-266, 487-535, 953-1010; `OraclePriceBroadcaster.ts`)
is the price of one slab as one client sees it: inserts through a Realtime
channel that drops and joins, batches, and the queries a subscribe message makes
one after the other, each with its timeout. A price that is sent while the socket's
send buffer is full is dropped (`bufferedAmount`, `ws.ts` 225 and 441), which the history
`dropped` keeps apart from what was `shown`.

**JsMap** has the filter `Kept` on sequences, of which a JavaScript Map, as the
sequence of its entries, is one: `OracleRouter`, `RpcRoutes`, `CachedRoute`, `AuthBans`
and `RateLimit` delete entries with it, `ClientIp` drops the blank items of a header and
`Candles` takes the rows in a range.

**OracleRouter** (`oracle-router.ts`) and **CachedRoute** (`cache.ts`,
`db-cache-fallback.ts`) model requests cut at their awaits over the caches as
sequences, since Map order decides what is evicted. A result is the number of
the upstream call, or the time of the database read, that it came from.

**ClientIp**, **Candles**, **AdlRanking** and **FundingQuery** are handlers that
compute, as operators. **Handlers** lets a process answer one request after the
other with them; its properties are reference definitions that do not follow the
code's steps (a CIDR match bit by bit against the code's signed shifts and masks; a
bar as the set of its trades against the code's loop over rows; a ranking by
cross-multiplied profits, without the rounding). A v17 slab, whose accounts are
elsewhere, and one that does not parse are answered 400 before anything is computed; one of which
only the accounts cannot be read has the state of the trigger and no ranks. The
query for candles may fail. **Histories** is the three histories that are cut off at a
number of rows.

The `MC*` modules only name symmetry sets, the IPs of connections and the inputs
of `Handlers`. Definitions such as `FullOffByOne` or `EpochSeconds`, each right
before the definition it is a variant of, are the plausible mistakes the
properties are tried against; nothing else refers to them.

## 3. Runs

| Run | Shows |
|---|---|
| `hub_safety` | three clients, two slabs, open server: exact index and counter, limits, timers, no lost price |
| `hub_feed` | tokens required and bound: both gates, refinement of PriceFeed with its liveness |
| `connections` | both stores, failing calls, pipelined auth messages, closes during an admission, expiring counters, crashes: the counters are off by at most what these explain; in memory the limits hold and there are no ghosts |
| `lifecycle` | silent and unauthenticated peers leave in time, responsive ones never by the heartbeat; exit code 0 cuts nothing off, code 1 has one of three reasons, every shutdown ends |
| `oracle_router` | coalescing, bounded and monotone answers, every request answered |
| `cached_route` | the age of an answer is bounded over both caches together |
| `auth_bans` | bans are deserved and hold; 3 x threshold - 4 failures within a window is the most that goes unpunished; on Redis, what late scripts and deletes can still do |
| `rate_limit` | 2 x limit - 1 requests in a window in memory, 5 x limit - 2 on Redis; refusals are deserved; Retry-After is right to a second |
| `adl_route` | the age of an answer, the wait for it (two timeouts, and a query for health), and the order of eviction |
| `initial_price` | a sent price has been outdated for at most one query timeout, the last one is lost only to a full send buffer, and an unsubscribed client hears no more after the queries' timeouts |
| `handlers` | blocklist, client address, candles, rankings and funding parameters equal their reference definitions |
| `price_history` (violated) | a market's history is its oldest prices once there are more than the query's limit |

### The disagreement

`prices.ts` 66 orders by timestamp ascending and takes the first 1500 rows, so a
market with more prices is shown its oldest 1500 for ever; `src/openapi.yaml` 406
promises the last updates, and the comment above the query speaks of the limit
as if it kept the newest. `open-interest.ts` (100 rows) and `candles.ts` (50000) cut
off the same end, `insurance.ts` the other.

Further behaviours met while modelling, without a run of their own:

* An open client may subscribe to two markets and be bound to one afterwards:
  the guard of `ws.ts` 794 covers slab-to-slab changes, not unbound-to-slab ones.
  With `WS_AUTH_REQUIRED` and tokens that all carry a slab the binding holds, and
  is proved (`BindingHolds`).
* On a remote store `clients.size` is compared before the first await only (`ws.ts`
  609): sockets that arrive together all pass. `LimitsHold` is about the
  in-memory store for that reason, and so is `NoGhost`. A close that comes between
  an upgrade's awaits (`ws.ts` 834) takes the count from the wrong counter:
  `CountsBalance` charges it to `miscounts`. A close during the admission leaves a
  client without a socket and a count that nothing takes back.
* A counter in Redis expires 24 hours after its last increment (`shared-store.ts` 387), also
  while sockets stand in it: the IP then has its whole budget again, and the closes of
  the old sockets take down what new ones count.
* An open client whose send buffer holds more than `MAX_BUFFER_BYTES` when a batch is
  flushed loses that price (`ws.ts` 441); nothing sends it again, so until the next insert
  it keeps an older one.
* `cacheMiddleware` (`cache.ts` 120) keeps the Content-Type only, so the staleness
  headers of `db-cache-fallback.ts` 31 are lost in the response cache.
* `shared-store.ts` 63 and `ws.ts` 118 call windows rolling that are fixed; the
  exact prices are `RateBounded` and `BurstBounded`.
* The oracle's size check evicts the oldest entry also when the mint to be
  written is in the Map already. The ADL cache's `set` over an expired entry keeps
  its old place, so it is evicted before its turn.
* `/funding/:slab/history` ignores `limit` when `since` is given; "2024" as `since`
  is read as an epoch and refused.
* An `X-Forwarded-For` of blanks between commas gives HTTP status 400, while the upgrade takes
  the address of the socket. With the item "::ffff:", which normalises to nothing, neither
  finds an address.
* The prefix of a CIDR entry may be any number from 0 to 32 (`ip-blocklist.ts` 62): 10.0.0.0/8.5
  acts as /9, 10.0.0.0/ as /0, which refuses every address, and what follows a second slash is ignored.
* A utilisation threshold of 0 turns that ADL trigger off.
* `/markets/stats` does not leave out blocked slabs, as its siblings do.

### Bounds

* `WsHubSafety`: 3 clients, 2 slabs, limits 2 per slab, 3 per client, 5 in all, 2
  per message. Every limit is reached by some client while another is below
  it, and the global one cannot be reached by one client. `WsHubFeed`: a third,
  blocked slab and two clients, one bound to each market.
* `WsConnections`: two connections of one IP and, with the in-memory store, a third of
  another, which shares `clients.size` only; limits of 2 in all and 1 of each kind per IP,
  so that on Redis two sockets can pass one check together and each limit is reached
  while another is not; two auth messages at once; two faults (failed calls, expiries,
  crashes, overtaken upgrades). Two are enough for one to hit the other's repair; counters
  are kept per key, so a further one adds to `miscounts` as the second does.
* `ServerLifecycle`: 6 : 2 : 1 units keeps the order of the code's 30 s heartbeat,
  10 s pong timeout and 5 s auth timeout; a closing handshake of 6 (30 s) against
  a forced exit of 2 (10 s). Two shutdowns are the fewest that overlap.
* `OracleRouter`: `MaxTime = 5` > `Ttl + MaxStale` = 3, so entries live, go stale and
  expire during a call; `MaxCalls = 3` per mint; a cache of one entry and two
  mints makes every second write evict. `CachedRoute` likewise.
* `AuthBans`: `MaxTime = 9` spans a window, a ban and what comes after it; at
  `Threshold = 2` the four failures are a ban and a second one, and more than `BurstBounded`
  lets pass. A Map of one record makes every second IP evict. Redis is run with one IP, since keys are
  independent there, a delay of 1 and one failed call.
* `RateLimit`: `Limit = 2`, `Window = 4`, `Timeout = 1`, `Delay = 2` keep the order of the
  code's (2 s for an answer and 5 s for an execution, within the 60 s window); three IPs over two buckets and a
  scan of two entries reach each way of evicting. No bound on time.
* `RpcRoutes`: four slabs, one blocked, over a cache of three entries; two requests
  at once, timeouts longer than the query. No bound on time: ages saturate.
* `InitialPrice`: two subscribe messages of up to two channels, a timeout of two
  batches, two prices.
* `Handlers`: addresses of two parts of two bits have the top bit, the prefixes 0
  and Width, every half between them and every shift. The half stands for every fraction but those so
  small that 32 less the fraction is 32 in a double; up to four trades over five instants with a limit of
  three rows; three accounts.
* `Histories`: limits of 3 and 2 rows, five rows in the table.

`CHECK_DEADLOCK FALSE` stands where the model may really stop: at `MaxTime`
(`OracleRouter`, `CachedRoute`, `AuthBans`), when the process has exited
(`ServerLifecycle`), when every socket is a ghost (`WsConnections`), and when the
prices are used up (`InitialPrice`).

### Fairness

* `WsHub`: an armed Node timer fires. Nothing is assumed of clients or prices.
* `ServerLifecycle`: a query of the database check settles and the delay after it
  ends; due timers fire, time passes; a peer that is not silent answers pings and
  close frames; `ws` destroys the socket of one that does not; the close
  callbacks and the forced exit run. Nothing is assumed of the Sentry flush, the
  alert, requests or clients.
* `OracleRouter`: the upstream call settles, as its abort signal makes it; a
  settled promise resumes who awaits it (the microtask queue drains).
* The others state safety only. Where they are about time (`AnsweredInTime`,
  `RegressionBounded`) it is a timer that is due that keeps time from going on.

## 4. Proofs

Each `*_proofs` module extends the modules it is about. In all of them one lemma
says that the initial states establish the inductive invariant, one lemma per action (or
group of actions) that it is kept, and the theorems follow from it. They hold for every
value of the constants that the assumptions of section 4.12 admit: any number of clients,
IPs, requests and entries, any waits, any bound on time.

| Module | Theorems (properties of the runs) |
|---|---|
| `WsHub_proofs` | `IndexCorrect` (`SlabIndexExact`), `CountCorrect` (`SubCountExact`), `LimitsCorrect` (`WithinLimits`), `TimersCorrect` (`TimersExact`), `UpdatesSurvive` (`NoLostUpdate`), `AuthGateHolds` (`AuthGate`), `BindingHolds` (`SlabBinding`), `HubImplementsFeed`; of InitialPrice `RegressionIsBounded` (`RegressionBounded`), `NothingIsLost` (`NothingLost`), `QuietIsKept` (`QuietAfterUnsubscribe`) |
| `WsConnections_proofs` | `CountsStayBalanced` (`CountsBalance`), `LimitsAlwaysHold` (`LimitsHold`), `NoGhostStays` (`NoGhost`), `UpgradesSettle` (`UpgradeSettles`) |
| `ServerLifecycle_proofs` | `SilenceIsBounded`, `UnauthenticatedIsBounded`, `ExitIsComplete` (`CompleteExit`), `ExitIsExplained` (`ExitExplained`), and the action property `ResponsiveIsKept` (`ResponsiveSurvives`) |
| `OracleRouter_proofs` | `CallsAreCoalesced` (`CallsCoalesced`), `AnswersStayInDate` (`AnswersInDate`), and the action property `AnswersNeverGoBack` (`AnswersMonotone`) |
| `Routes_proofs` | of Handlers `BlocklistIsExact` (`BlocklistExact`), `AddressIsTrusted` (`TrustedAddress`), `CandlesAreExact` (`CandlesExact`), `RankingsAreFair` (`RankingFair`), `SinceIsUnderstood` (`SinceUnderstood`); of RpcRoutes `AgeIsBounded` (`AgeBounded`), `AlwaysAnsweredInTime` (`AnsweredInTime`), `EvictsLeastRecentlyUsed` (`LeastRecentlyUsedFirst`); of CachedRoute `AnswerAgeIsBounded` (`AnswerAgeBounded`) |
| `RateLimit_proofs` | `RateIsBounded` (`RateBounded`), `RefusalsAreDeserved` (`RefusalDeserved`), `RetryAfterIsClose` (`RetryAfterClose`) |
| `RemoteBans_proofs` | the action property `BansLast` (`BansHold`, of AuthBans and of Redis), `BansAreDeserved` (`BansDeserved`), `BurstsAreBounded` (`BurstBounded`) |

Each also proves that the variables keep their types (`TypeCorrect`, `CachedTypesCorrect`,
`HandlersTypesCorrect`), and `JsMap_proofs` holds the lemmas about Maps and sums.

### 4.1 The hub

`SlabIndexExact` alone is not inductive, since a close handler
visits only the slabs of the client's own subscriptions. `Structure` adds the
shape of the maps and `GoneHasNothing`, that a departed client holds nothing
(so that a reused object starts clean), and is inductive: one step per
action. `SubCountExact` is inductive on top of `Structure`, with lemmas on the
cardinality of what a handler adds or drops; it gives `TypeOK`, since the
counter's floor at zero never bites. The limits follow action by action
from the count, `TimersExact /\ NoLostUpdate` from the index, and the two gates by
invariants (`GateInv`, `BoundInv`) that also say who may hold a binding.
`BindingHolds` assumes `AuthRequired` and `NoSlab \notin TokenSlabs`; without
them it fails, as described above. The refinement (each initial state and step of the
hub is one of PriceFeed, or stutters) needs `Structure` and
`TimersExact /\ NoLostUpdate`: a flush must reach everyone PriceFeed owes.

### 4.2 Connections

`LifeInv` says where a socket is in its life: being admitted, or registered, or
neither, with flags that agree until it is registered (`Shape`); and that with the
in-memory store a handler runs alone until it ends (`Alone`), which is why what an
admission has checked still holds when it registers, and why no client is
registered after its socket has closed.

`CountsBalance` needs two bounds on each counter instead of one (`Balanced`): a
close that overtakes an upgrade leaves the upgrade's later steps to be counted, so
the invariant adds the decrements and increments that upgrades still owe
(`OwedAt`) and the clients that an upgrade is going to count as authenticated and
has not counted yet (`ComingAt`). A socket that closed during its admission stands in its counter until
it is registered, and is then charged to `miscounts` (`RegisterBalanced`); an expiry charges what
stood in the counter and what was on its way to it (`ExpiresBalanced`), for which `Balanced` also
says that upgrades owe no more decrements than sockets stand there, or were miscounted. The fallback counters have bounds of their own, since a decrement of
a counter that is 0 is lost. `LimitsHold` takes both and, in memory, says that
every client stands for a place in its counter (`Backed`), that an upgrade past
the check of the budget holds one more (`Passed`), and that one upgrade of an IP at
a time is between its awaits, but for pipelined messages, which are miscounted.

### 4.3 Lifecycle

The client's timers first (`ClientTimed`): while it is open the heartbeat runs,
silence and what the heartbeat or the pong timeout has left add up to at most the
bound, a pong timeout ends before the next heartbeat, and is never due while the
peer answers. Whatever the process does, it only connects or closes the client.
Then the shutdowns: `StageExact` ties each coroutine's stage to what is
already closed, `ForceAhead` ties a client that is closing to the time the forced
exit has left, so that only a silent peer can outlast it.

### 4.4 Initial price

`Delivery` orders what is on its way (the last insert in the channel is the newest,
nothing pending, read, shown or dropped is newer), `Underway` is `NothingLost` before
things have settled: something is still to show the newest price, or it was the
newest that was dropped. `Fresh` and
`Quiet` are budgets: how outdated a price is and what is left until it is sent add
up to at most the timeout, and the same for the queries of one message after an
unsubscribe. `Fresh` needs that a batch is no longer than a query's timeout
(`BatchBeforeTimeout`, 500 ms against 3 s): with longer batches the
bound would be the batch.

### 4.5 Oracle router

`OneCall`: the one call under way is the last issued, and who waits waits for it.
`OneResult`: of each mint a single result can still be answered, wherever it is
kept (the cache, or an entry that a request took before it awaited a call), it is
not older than what was served, and older than the call in flight. Hence answers
never go back, which neither the cache nor the requests show on their own.

### 4.6 RPC routes

`Timed` adds up what an attempt has taken and has left over both attempts and
the query. `Ordered` relates the Map to the log of its uses: the same slabs, and an
entry that is not stored in place was used before all that follow it. A hit moves
an entry to the end of both, a store moves it in the log only, an eviction takes the
first of the Map, and the order of the others has to survive each.

### 4.7 Cached routes

`CachedInv` is one budget for a body wherever it is: what a query has read is at most as old
as the query has run; a result kept in `dbCache` was one query old when it was kept, and is
given out for an hour; a response that is stored in the response cache was at most that old,
and is given out for a TTL. A request carries what it took from either cache over its
awaits, with the same budgets. That a body passes through both caches, one after the
other, is why the bound is their sum.

### 4.8 Rate limit

What a window lets through is a sum over the history, `Within(f, n)` for the last n units.
For the Map a bucket that is open says that its count is what was let through since it began
(`Opened`), and one that is over that less than the limit was let through in the window
before (`Closed`); no stretch of that length meets more than two buckets, nor both of them
whole: 2 x limit - 1.

In Redis a script that is executed late counts on in a window that it shortens, and its
reply is let through later still. `CallFits` relates each reply under way to the hash: it is
of the hash's window or of one that began earlier, by how much its lag says. `WindowsFit` is
the bound itself in the form that is inductive: whatever was let through in the last n
units, with the replies that are going to be, is of the hash's window and of the j windows
before it that can reach into them. For n = Window, j is 2 (`CommandsQuick`), which makes 3 x limit - 1,
and with the fallback Map's 2 x limit - 1 this is the 5 x limit - 2 of `RateBounded`.

`RefusalDeserved` is the same invariant read the other way: a bucket that refuses counts
requests of this window that were let through. `RetryAfterClose` keeps, from the answer on,
the difference between the time told and the bucket's rest below a second (`Close`).

### 4.9 Handlers

The process keeps no state, so that `HandlersInv` only says which requests there are and that
the answer is what the operators compute; the theorems are about the operators.

*Blocklist.* The code's integers are sets of bits: each part contributes its own, the shift
moves them, and the sum of the powers of two of a set of bits determines the set. An AND with the
mask of a prefix keeps the bits from Width - prefix on, also the sign, and two
words are equal when their bits are. A shift count is cut to an integer, so that a fractional prefix
compares one bit more than its whole part (`CountIs`). *Address.* The items a proxy has appended are the last
of the header, whatever comes before them, blank items are dropped in front of them
only, and from the right the depth-th is the first proxy's peer.

*Candles.* `AreBars` states the loop after n rows; by the least n for which it would fail, each
bar is the one of the trades of its bucket among the first n rows (`Collected`). The rows are the
first trades of the range (`RowsAre`), and since the table is in the order of time buckets ascend with
the rows: only the last bar can lack trades that the limit has cut off. `SortedKeys` ascends and misses
none, by counting the smaller keys. *Rankings.* `x \div y` lies between two multiples of y
(`Divided`), which bounds what rounding to millionths can turn round. *since.* A
number below the threshold is in seconds, and no instant of the accepted years is on the
wrong side of it (`EpochsApart`).

### 4.10 Bans

In the Map: no record's ban ends later than one that starts now, which makes a
further failure never shorten a ban, and the sweep and the check delete only records whose
ban is over. In Redis a ban and the commands on their way are related: a script or a DEL
is at most `Delay` old (`Scripts`, `Deletions`), and for an HGET that has been answered and for a
DEL, every ban in the hash is either the one it has seen expire or was set after
it (`AsRead`) and is therefore young - `Delay` for the script, the HGET and the DEL
each, which are the three delays of `BansHold`.

What the counters mean is a second invariant on top of that one (`CountInv`), over sums of
the histories of failures. `CountedBy` says what a record promises: its count is at
most the failures within its window, and its ban is for a threshold of them within the
window before it, in Redis a `Delay` wider on either side. One lemma, `FailureCounts`, shows that a
failure keeps this, for the Map (where none is late) and for the script (which may be).
`BansDeserved` follows. `BurstBounded` needs the converse, that a record has not lost
more than so many: `Few` bounds the failures since any time by the counter, which has all since its
window started, by one threshold for a ban that ended and by another for a ban that was
missed, and `FewForgotten` says what of this is left when a check or the sweep
has deleted the record. That the three do not add up to more rests on
`WindowBeforeBan`: when a ban ends, the failures it was for are out of the window.

### 4.11 Maps and sums

`JsMap` has the one operator on Maps that deletes entries, `Kept`. It is
a recursive function, not `SelectSeq`, whose definition the provers do not
unfold, nor a RECURSIVE operator, of which they know nothing.
`KeptPlaces` says for all Maps that the entries that stay are those that should, in
their order. The library's induction over the natural numbers takes an operator as a parameter
and cannot be used; the proof takes the least number of entries for which the statement would fail
(`LeastOf`, from the well-foundedness of the numbers).

The sums of failures, of requests let through, of bits and of volumes are `SumFunctionOnSet` of
the community modules. Of a set of finite sets one is the
least (`LeastSet`), and from this, as for Maps, what the proofs need of a sum: that it exists
and is any of its terms and the sum of the others (`SumSplit`), that it is at most another
with its terms or greater ones (`SumCover`), and what one term more does (`SumMore`).

### 4.12 Assumptions and findings

All assumptions on constants are named, stand in the module that declares the constants, and are
evaluated by TLC in the runs. Most say that a number is natural or positive. Those
that relate constants are the code's own: `ForcedBeforeClosed` (10 s < 30 s),
`PongBeforeHeartbeat` (10 s < 30 s), `BatchBeforeTimeout` (500 ms, 3 s), `WindowBeforeBan`
(60 s < 300 s), `CommandsQuick` (2 s + 5 s < 60 s), `EpochsApart` (no instant of the accepted
years is written in seconds as one of them is in milliseconds), `TokensBind`, `RoutesKnown`. `InputsTyped`
says of what kind the requests of `Handlers` are: any addresses, trades, accounts, instants.

What the proofs found in the models: `CountedIn` was a CASE whose
arms overlapped, of which TLC takes the first and the provers may take any (it
is a disjunction now); the clock of `AuthBans` starts at 1, so its bound has to be
positive; `ExitExplained` counted signals with a cardinality where two different
ones say the same; the type invariants of `RpcRoutes` and `RemoteBans` did not say
what the functions of the requests and calls range over. `RateLimit` gave up a
call and its script together, so that a script executed after the fallback had decided was
missing: a request could be counted twice, and the bound is now proved with it. The reference for a CIDR match followed
the code's integers and is now about bits.

### 4.13 Only model-checked

* Liveness and ENABLED, out of the prover's reach: the fairness half of
  `ImplementsPriceFeed`, `ShutdownEnds`, `Answered`.
* `Histories`, whose run is violated by a definite behaviour.

No module declares a RECURSIVE operator: recursion is in recursive functions, and induction
over them takes the least number for which a statement would fail.

## 5. Not modelled

* Token verification, slab validation, API keys, headers, Sentry and the
  documentation route keep no state: the models take their outcome as an input.
* The chart relays an external service's bars through a cache of its own; the
  sanitising of rows in markets, trades and stats is statement by statement.
* `stop` of the broadcaster: nothing calls it. How `/health` puts its verdict
  together. The layout of a slab's bytes.
* Message parsing, sizes and the per-client message limit of the hub: they only
  decide whether a handler runs.
* Timers that fire late (a stalled event loop), and two queries of one key that
  answer out of order in `dbCache`; both are listed as hazards with a note.
* `resolvePrice`, the database, Redis, Realtime and `ws` are external and modelled by
  what the code sees of them. The digest of an ETag is left out: a 304 is an
  answer with the cached body.

## 6. Plan

Done, in this order: WsHub with PriceFeed and its proofs, OracleRouter,
CachedRoute, AuthBans, WsConnections and WsTimers; then the store on Redis
(RemoteBans, RateLimit, the remote half of WsConnections), ServerLifecycle over
WsTimers, RpcRoutes, InitialPrice, and the handlers that compute.

Proved, in this order: the hub, ServerLifecycle with WsTimers, InitialPrice,
WsConnections (life, balance, limits), OracleRouter, RpcRoutes, RemoteBans with
AuthBans, CachedRoute, RateLimit, Handlers. Every safety property of a passing run is now
a theorem.

Theorems next: what WsHub and WsConnections promise together, once they are composed.

Modules next: `WsServer`, composing WsHub with WsConnections, whose registration
and close are the first and last steps of a hub client; the chart's cache; the
per-client message limit.
