------------------------------ MODULE Handlers ------------------------------
(* A process that answers one request after the other with the handlers that *)
(* compute: the blocklist and the client's address (ClientIp), candles       *)
(* (Candles), ADL rankings (AdlRanking), and the parameters of the funding   *)
(* history (FundingQuery). The configuration a process reads at its start    *)
(* (blocklist, proxy depth, threshold) is part of the request, so that one   *)
(* behaviour meets them all. The properties compare each answer with a       *)
(* definition of what it should be that does not follow the code's steps.    *)
EXTENDS ClientIp, Candles, AdlRanking, FundingQuery

CONSTANTS
    ListedIps,    \* addresses that a blocklist's entries are made of
    ClientIps,    \* addresses of peers
    Depths,       \* TRUSTED_PROXY_DEPTH
    WrittenItems, \* what a client may have put into X-Forwarded-For itself
    MaxWritten,   \* bound: how many of them
    Ats,          \* instants of trades, in fractions of a second
    Prices, Sizes,
    MaxTrades,    \* bound: trades in the table
    Resolutions,  \* RES_TO_SECONDS
    Ranges,       \* <<from, to>> of a request for candles
    Amounts, Caps, Funds, Accounts, Slots, Thresholds,
    Instants,     \* instants asked for as since
    Limits        \* the parameter limit

Tradelike == [at : Nat, price : Int, size : Int]
Accountlike == [position : Int, pnl : Int, capital : Nat]
Fundlike == [balance : Nat, feeRevenue : Nat]
Iplike == [mapped : BOOLEAN, parts : Seq(Int)]

(* A peer has an address, an item of a header may be none.                   *)
ASSUME InputsTyped ==
    /\ ListedIps \subseteq Iplike /\ ClientIps \subseteq Iplike
    /\ WrittenItems \subseteq Iplike /\ Depths \subseteq Nat /\ MaxWritten \in Nat
    /\ \A ip \in ClientIps : ip.parts # <<>>
    /\ Ats \subseteq Nat /\ Prices \subseteq Int /\ Sizes \subseteq Int
    /\ MaxTrades \in Nat
    /\ Resolutions \subseteq Nat \ {0} /\ Ranges \subseteq Nat \X Nat
    /\ Accounts \subseteq Accountlike /\ Funds \subseteq Fundlike
    /\ Amounts \subseteq Int /\ Caps \subseteq Int /\ Thresholds \subseteq Nat
    /\ Instants \subseteq Int /\ Limits \subseteq Int

VARIABLES
    request,      \* the request being answered
    answer        \* its answer

handlerVars == <<request, answer>>

None == [route |-> "none"]

HandlersInit == request = None /\ answer = None

-----------------------------------------------------------------------------
(* Requests                                                                  *)

Entries ==
    {Exact(ip) : ip \in ListedIps} \union
    {Cidr(ip, prefix) :
       ip \in ListedIps, prefix \in {NaN, Blank} \union 0..(Halves * Width + 1)}

(* The header as it arrives: each of the proxies has added the address of    *)
(* its peer to what came in, and the last of them is on the socket. depth of *)
(* them are there, as configured, or the client has come past them.          *)
Arriving(list, written, client, depth, proxies) ==
    [route |-> "address", list |-> list, client |-> client, depth |-> depth,
     proxied |-> depth = Len(proxies),
     forwarded |-> IF proxies = <<>> THEN written
                   ELSE written \o <<client>> \o SubSeq(proxies, 1, Len(proxies) - 1),
     socket |-> IF proxies = <<>> THEN client ELSE proxies[Len(proxies)]]

ReceiveFromListed ==
    \E entry \in Entries, client \in ClientIps :
      request' = Arriving(<<entry>>, <<>>, client, 1, <<Text(FALSE)>>)

ReceiveThroughProxies ==
    \E ip \in ClientIps, client \in ClientIps, depth \in Depths,
       written \in BoundedSeq(WrittenItems, MaxWritten) :
      \E proxies \in {<<>>} \union [1..depth -> {Text(FALSE), ip}] :
        request' = Arriving(<<Cidr(client, NaN), Exact(ip)>>, written, client, depth, proxies)

(* The rows of the table are ordered by created_at.                          *)
ReceiveCandles ==
    \E n \in 0..MaxTrades, range \in Ranges, bucketSeconds \in Resolutions :
    \E at \in {at \in [1..n -> Ats] : \A i \in 2..n : at[i - 1] <= at[i]},
       price \in [1..n -> Prices], size \in Sizes :
      request' = [route |-> "candles", bucketSeconds |-> bucketSeconds,
                  from |-> range[1], to |-> range[2],
                  trades |-> [i \in 1..n |->
                                [at |-> at[i], price |-> price[i], size |-> size]]]

ReceiveRankings ==
    \E accounts \in [Slots -> Accounts], layout \in Layouts :
      request' = [route |-> "rankings", threshold |-> 0,
                  slab |-> [pnlPosTot |-> 2, maxPnlCap |-> 1,
                            fund |-> [balance |-> 0, feeRevenue |-> 0],
                            layout |-> layout, accounts |-> accounts]]

ReceiveTrigger ==
    \E tot \in Amounts, cap \in Caps, fund \in Funds, threshold \in Thresholds,
       account \in Accounts :
      request' = [route |-> "rankings", threshold |-> threshold,
                  slab |-> [pnlPosTot |-> tot, maxPnlCap |-> cap, fund |-> fund,
                            layout |-> "slab", accounts |-> [slot \in Slots |-> account]]]

(* since as a date, in seconds or in milliseconds; a limit that is a number, *)
(* absent, or other text.                                                    *)
Written(instant, form) ==
    CASE form = "date" -> DateParam(instant)
      [] form = "milliseconds" -> NumberParam(instant)
      [] form = "seconds" -> NumberParam(instant \div Milliseconds)

ReceiveFunding ==
    \E instant \in Instants, form \in {"date", "milliseconds", "seconds"},
       limit \in {NoParam, OtherParam} \union {NumberParam(n) : n \in Limits} :
      /\ form = "seconds" => instant % Milliseconds = 0
      /\ request' = [route |-> "funding", meant |-> instant,
                     since |-> Written(instant, form), limit |-> limit]

Receive ==
    /\ request = None
    /\ \/ ReceiveFromListed \/ ReceiveThroughProxies
       \/ ReceiveCandles
       \/ ReceiveRankings \/ ReceiveTrigger
       \/ ReceiveFunding
    /\ UNCHANGED answer

-----------------------------------------------------------------------------
(* Answers                                                                   *)

AnswerAddress ==
    /\ request.route = "address"
    /\ LET http == GetClientIp(request.forwarded, request.socket, request.depth)
           upgrade == GetUpgradeIp(request.forwarded, request.socket, request.depth)
       IN  answer' = [route |-> "address", http |-> http, upgrade |-> upgrade,
                      verdict |-> HttpVerdict(request.list, http),
                      upgradeVerdict |-> UpgradeVerdict(request.list, upgrade)]

(* The query may fail.                                                       *)
AnswerCandles ==
    /\ request.route = "candles"
    /\ \E udf \in {GetCandles(request.trades, request.from, request.to,
                              request.bucketSeconds), ErrorResponse} :
         answer' = [route |-> "candles", udf |-> udf]

AnswerRankings ==
    /\ request.route = "rankings"
    /\ \E response \in RankingResponses(request.slab, request.threshold) :
         answer' = [route |-> "rankings", response |-> response]

AnswerFunding ==
    /\ request.route = "funding"
    /\ answer' = [route |-> "funding",
                  history |-> GetHistory(request.since, request.limit),
                  historySince |-> GetHistorySince(request.since, request.limit)]

Reply ==
    /\ answer = None
    /\ AnswerAddress \/ AnswerCandles \/ AnswerRankings \/ AnswerFunding
    /\ UNCHANGED request

Finish == answer # None /\ request' = None /\ answer' = None

HandlersNext == Receive \/ Reply \/ Finish

HandlersSpec == HandlersInit /\ [][HandlersNext]_handlerVars

-----------------------------------------------------------------------------
(* Properties                                                                *)

HandlersTypeOK ==
    /\ answer # None => request # None /\ answer.route = request.route
    /\ request.route \in {"none", "address", "candles", "rankings", "funding"}

IsDotted(parts) ==
    Len(parts) = Parts /\ \A i \in DOMAIN parts : Number(parts[i]) \in 0..(PartSize - 1)

(* The k-th bit of a dotted address, from 0, the most significant first.     *)
BitOf(parts, k) ==
    (Number(parts[k \div PartBits + 1]) \div PowerOf2[PartBits - 1 - (k % PartBits)]) % 2

(* How many bits of an address a CIDR entry compares: its prefix, or the     *)
(* next whole number.                                                        *)
Compared(prefix) == (prefix + 1) \div Halves

Names(entry, ip) ==
    LET addr == entry.addr
        prefix == Number(entry.prefix)
    IN  IF entry.type = "exact"
        THEN IsDotted(addr.parts) /\ ip.parts = addr.parts
        ELSE /\ prefix \in 0..(Halves * Width) /\ ~addr.mapped
             /\ IsDotted(addr.parts) /\ IsDotted(ip.parts)
             /\ \A k \in 0..(Compared(prefix) - 1) :
                  BitOf(addr.parts, k) = BitOf(ip.parts, k)

(* The blocklist refuses exactly the clients that an entry of it names. A    *)
(* CIDR entry names those whose first prefix bits are the entry's, whatever  *)
(* its other bits: JavaScript's signed shifts and masks get the top bit and  *)
(* the prefixes 0 and 32 right. It is not checked further: a prefix like 8.5 *)
(* counts as 9, a missing one as 0, which names every dotted address, and a  *)
(* second slash and what follows it as absent. An exact entry names its      *)
(* address with or without ::ffff:. Only an entry whose address is not       *)
(* dotted, or whose prefix is no number from 0 to 32, refuses nobody.        *)
BlocklistExact ==
    answer.route = "address" /\ answer.http # Nothing
      => LET named == \E i \in DOMAIN request.list : Names(request.list[i], answer.http)
         IN  answer.verdict = (IF named THEN "403" ELSE "next")

(* Behind as many proxies as are configured the client is the peer of the    *)
(* first of them, whatever the client has written into the header itself.    *)
(* And past the proxies too HTTP and an upgrade, which keep copies of the    *)
(* code, give the same address and the same verdict, unless HTTP finds none: *)
(* the upgrade then finds none either or takes the socket's.                 *)
TrustedAddress ==
    answer.route = "address" =>
      /\ request.proxied => answer.http = NormalizeIp(request.client)
      /\ answer.http # Nothing =>
           answer.upgrade = answer.http /\ answer.upgradeVerdict = answer.verdict
      /\ answer.http = Nothing =>
           answer.upgrade \in {Nothing, NormalizeIp(request.socket)}

(* The trades whose price is finite that are in a range of the request and   *)
(* in the bar that starts at time.                                           *)
BarTrades(time) ==
    {i \in DOMAIN request.trades :
       /\ request.trades[i].price # NotFinite
       /\ request.trades[i].at \in (request.from * Second)..(request.to * Second)
       /\ request.trades[i].at >= time * Second
       /\ request.trades[i].at < (time + request.bucketSeconds) * Second}

IsBarOf(bar, trades) ==
    LET price(i) == request.trades[i].price
        prices == {price(i) : i \in trades}
        volume == [i \in DOMAIN request.trades |-> AbsOf(request.trades[i].size)]
    IN  /\ trades # {}
        /\ bar.o = price(Min(trades)) /\ bar.c = price(Max(trades))
        /\ bar.h = Max(prices) /\ bar.l = Min(prices)
        /\ bar.v = SumFunctionOnSet(volume, trades)

(* The candles are those of the trades asked for, their times ascend, and    *)
(* none is missing; when the query's limit cuts the trades off, that is true *)
(* of all but the last bar and of the time up to there.                      *)
CandlesExact ==
    answer.route = "candles" /\ answer.udf.s # "error" =>
      LET udf == answer.udf
          asked == {i \in DOMAIN request.trades :
                      request.trades[i].at \in (request.from * Second)..(request.to * Second)}
          whole == Cardinality(asked) <= MaxRows
          starts == {time \in 0..request.to : time % request.bucketSeconds = 0}
          kept == {udf.t[i] : i \in DOMAIN udf.t}
      IN  /\ \A i \in 2..Len(udf.t) : udf.t[i - 1] < udf.t[i]
          /\ \A i \in DOMAIN udf.t :
               whole \/ i < Len(udf.t) => IsBarOf(udf.bars[udf.t[i]], BarTrades(udf.t[i]))
          /\ \A time \in starts : BarTrades(time) # {} =>
               \/ time \in kept
               \/ ~whole /\ \A other \in kept : other < time
          /\ udf.s = "no_data" <=> asked = {}

(* Every position open and in profit has one rank, and rounding down never   *)
(* puts a position in front of one whose profit on its capital is larger by  *)
(* a millionth, or is the same on a larger profit.                           *)
FairOrder(accounts, order) ==
    LET capital(i) == Max({accounts[i].capital, 1})
        lead(i, j) == accounts[i].pnl * capital(j) - accounts[j].pnl * capital(i)
    IN  /\ \A i \in DOMAIN accounts :
             Cardinality({r \in DOMAIN order : order[r] = i})
               = (IF accounts[i].position # 0 /\ accounts[i].pnl > 0 THEN 1 ELSE 0)
        /\ \A q, r \in DOMAIN order : q < r =>
             LET i == order[q]
                 j == order[r]
             IN  /\ lead(j, i) * Millionths < capital(i) * capital(j)
                 /\ lead(j, i) = 0 => accounts[i].pnl >= accounts[j].pnl

(* A market that keeps its accounts elsewhere (v17), or whose data does not  *)
(* parse, is refused. Of another, deleveraging is due exactly when the       *)
(* profit passes its cap or at least the threshold's share of the insurance  *)
(* is used, whether or not its accounts can be read; and exactly if it is    *)
(* due and they can, the positions are ranked, in a fair order.              *)
RankingFair ==
    answer.route = "rankings" =>
      LET slab == request.slab
          response == answer.response
          used == slab.fund.feeRevenue - slab.fund.balance
      IN  \/ slab.layout \in {"v17", "unparsable"} /\ response.status = 400
          \/ /\ slab.layout \in {"unranked", "slab"} /\ response.status = 200
             /\ response.adlNeeded <=>
                  \/ slab.maxPnlCap > 0 /\ slab.pnlPosTot - slab.maxPnlCap > 0
                  \/ /\ request.threshold > 0 /\ slab.fund.feeRevenue > 0
                     /\ used * Bps >= request.threshold * slab.fund.feeRevenue
             /\ IF response.adlNeeded /\ slab.layout = "slab"
                  THEN FairOrder(slab.accounts, response.rankings)
                  ELSE response.rankings = <<>>

(* An instant of the accepted years is the same instant as a date, in        *)
(* seconds and in milliseconds, to both routes, every other date is refused, *)
(* and no query is left without a limit.                                     *)
SinceUnderstood ==
    answer.route = "funding" =>
      LET queries == {answer.history, answer.historySince}
      IN  /\ request.meant \in Years =>
               \A query \in queries : query.status = 200 /\ query.since = request.meant
          /\ request.since.as = "date" /\ request.meant \notin Years =>
               \A query \in queries : query.status = 400
          /\ \A query \in queries : query.status = 200 => query.rows \in 1..MaxRowsAsked
=============================================================================
