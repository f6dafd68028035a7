--------------------------- MODULE Routes_proofs ---------------------------
(* Proofs about the handlers of routes. Handlers: who a request is from and  *)
(* who is refused, how positions are ranked, what since means. RpcRoutes:    *)
(* how old what it answers can be, how long a request can take, and the      *)
(* order of the Map. CachedRoute: how old a body is that went through both   *)
(* of its caches.                                                            *)
EXTENDS RpcRoutes, CachedRoute, Handlers, JsMap_proofs, SequenceTheorems

Slab == [pnlPosTot : Int, maxPnlCap : Int, fund : Fundlike, layout : Layouts,
         accounts : [Slots -> Accountlike]]

(* When deleveraging is due, without rounding.                               *)
Due(slab, threshold) ==
    \/ slab.maxPnlCap > 0 /\ slab.pnlPosTot - slab.maxPnlCap > 0
    \/ /\ threshold > 0 /\ slab.fund.feeRevenue > 0
       /\ (slab.fund.feeRevenue - slab.fund.balance) * Bps >= threshold * slab.fund.feeRevenue

(* How far a's profit on its capital is ahead of b's, times both capitals.   *)
Lead(a, b) == a.pnl * Capital(b) - b.pnl * Capital(a)

LEMMA Divided ==
    ASSUME NEW x \in Int, NEW d \in Nat, d > 0
    PROVE  /\ x \div d \in Int
           /\ d * (x \div d) <= x /\ x < d * (x \div d) + d
           /\ x >= 0 => x \div d >= 0
  OBVIOUS

LEMMA DividedAtLeast ==
    ASSUME NEW x \in Int, NEW d \in Nat, d > 0, NEW t \in Int
    PROVE  x \div d >= t <=> x >= t * d
  <1> DEFINE q == x \div d
  <1>1. q \in Int /\ d * q <= x /\ x < d * q + d
    BY Divided
  <1> HIDE DEF q
  <1>2. CASE q >= t
    <2>1. d * q >= d * t
      BY <1>1, <1>2
    <2> QED  BY <1>1, <1>2, <2>1 DEF q
  <1>3. CASE q < t
    <2>1. q + 1 <= t
      BY <1>1, <1>3
    <2>2. d * (q + 1) <= d * t
      BY <1>1, <2>1
    <2>3. d * (q + 1) = d * q + d
      BY <1>1
    <2>4. x < t * d
      BY <1>1, <2>2, <2>3
    <2> QED  BY <1>1, <1>3, <2>4 DEF q
  <1> QED  BY <1>1, <1>2, <1>3

LEMMA TriggerIsExact ==
    ASSUME NEW slab \in Slab, NEW threshold \in Nat
    PROVE  AdlNeeded(slab, threshold) <=> Due(slab, threshold)
  <1> DEFINE fee == slab.fund.feeRevenue
             taken == fee - slab.fund.balance
             consumed == IF fee > slab.fund.balance THEN taken ELSE 0
  <1>1. fee \in Nat /\ slab.fund.balance \in Nat /\ slab.maxPnlCap \in Int /\ slab.pnlPosTot \in Int
    BY DEF Slab, Fundlike
  <1>2. CapExceeded(slab) <=> slab.maxPnlCap > 0 /\ slab.pnlPosTot - slab.maxPnlCap > 0
    BY <1>1 DEF CapExceeded
  <1>3. ASSUME threshold > 0
        PROVE  UtilizationBps(slab.fund) >= threshold
                 <=> fee > 0 /\ taken * Bps >= threshold * fee
    <2>1. CASE fee = 0
      BY <1>1, <1>3, <2>1 DEF UtilizationBps
    <2>2. CASE fee > 0
      <3> DEFINE bps == (consumed * Bps) \div fee
      <3>1. UtilizationBps(slab.fund) = IF bps > Bps THEN Bps ELSE bps
        BY <1>1, <2>2 DEF UtilizationBps
      <3>2. taken \in Int /\ consumed \in Nat /\ taken <= consumed /\ consumed <= fee
        BY <1>1
      <3>3. Bps \in Nat /\ Bps > 0 /\ consumed * Bps \in Nat /\ taken * Bps \in Int
            /\ threshold * fee \in Nat /\ fee \in Nat
        <4> HIDE DEF taken, consumed
        <4> QED  BY <1>1, <3>2, ScalesPositive
      <3>7. taken > 0 => consumed = taken
        BY <1>1
      <3>8. taken <= 0 => consumed = 0
        BY <1>1
      <3> HIDE DEF fee, taken, consumed
      <3>4. bps >= threshold <=> consumed * Bps >= threshold * fee
        BY <2>2, <3>3, DividedAtLeast
      <3>5. bps \in Int /\ ~(bps > Bps)
        <4>1. bps \in Int /\ fee * bps <= consumed * Bps
          BY <2>2, <3>3, Divided
        <4>2. consumed * Bps <= fee * Bps
          BY <3>2, <3>3
        <4>3. fee * Bps \in Nat /\ fee * bps \in Int
          BY <3>3, <4>1
        <4> HIDE DEF bps
        <4>4. ASSUME bps > Bps PROVE FALSE
          <5>1. bps >= Bps + 1
            BY <3>3, <4>1, <4>4
          <5>2. fee * bps >= fee * (Bps + 1)
            BY <3>3, <4>1, <5>1
          <5>3. fee * (Bps + 1) = fee * Bps + fee
            BY <3>3
          <5> QED  BY <2>2, <3>3, <4>1, <4>2, <4>3, <5>2, <5>3
        <4> QED  BY <4>1, <4>4
      <3>6. consumed * Bps >= threshold * fee <=> taken * Bps >= threshold * fee
        <4>1. CASE taken > 0
          BY <3>7, <4>1
        <4>2. CASE taken <= 0
          <5>1. consumed = 0 /\ consumed * Bps = 0
            BY <3>3, <3>8, <4>2
          <5>2. taken * Bps <= 0
            BY <3>2, <3>3, <4>2
          <5>3. threshold * fee > 0
            BY <1>3, <2>2, <3>3
          <5> QED  BY <3>3, <5>1, <5>2, <5>3
        <4> QED  BY <3>2, <4>1, <4>2
      <3> HIDE DEF bps
      <3> QED  BY <2>2, <3>1, <3>4, <3>5, <3>6
    <2> QED  BY <1>1, <2>1, <2>2
  <1> QED  BY <1>2, <1>3 DEF AdlNeeded, UtilizationTriggered, Due

LEMMA CapitalIs ==
    ASSUME NEW a \in Accountlike
    PROVE  Capital(a) \in Nat /\ Capital(a) > 0 /\ Max({a.capital, 1}) = Capital(a)
  <1>1. a.capital \in Nat
    BY DEF Accountlike
  <1>2. Capital(a) \in {a.capital, 1} /\ \A y \in {a.capital, 1} : Capital(a) >= y
    BY <1>1 DEF Capital
  <1>3. \A x \in {a.capital, 1} : (\A y \in {a.capital, 1} : x >= y) => x = Capital(a)
    BY <1>1, <1>2
  <1> QED  BY <1>1, <1>2, <1>3 DEF Max, Capital

(* Rounding down: who is not ahead by a millionth may be in front.           *)
LEMMA RoundingIsSmall ==
    ASSUME NEW a \in Accountlike, NEW b \in Accountlike, PnlPct(a) >= PnlPct(b)
    PROVE  Lead(b, a) * Millionths < Capital(a) * Capital(b)
  <1> DEFINE A == Capital(a)
             B == Capital(b)
             M == Millionths
             x == a.pnl * M
             y == b.pnl * M
             p == x \div A
             q == y \div B
  <1>1. A \in Nat /\ A > 0 /\ B \in Nat /\ B > 0
    BY CapitalIs
  <1>2. M \in Nat /\ a.pnl \in Int /\ b.pnl \in Int /\ x \in Int /\ y \in Int
    BY ScalesPositive DEF Accountlike
  <1>3. p \in Int /\ A * p <= x /\ x < A * p + A
    BY <1>1, <1>2, Divided
  <1>4. q \in Int /\ B * q <= y /\ y < B * q + B
    BY <1>1, <1>2, Divided
  <1>5. p >= q
    BY DEF PnlPct
  <1>6. Lead(b, a) * M = y * A - x * B
    BY <1>1, <1>2 DEF Lead
  <1> HIDE DEF A, B, M, x, y, p, q
  <1>7. B * (A * p) <= B * x /\ B * (A * p) >= B * (A * q)
    BY <1>1, <1>2, <1>3, <1>4, <1>5
  <1>8. A * y < A * (B * q + B)
    BY <1>1, <1>2, <1>4
  <1>9. A * (B * q + B) = B * (A * q) + A * B /\ A * y = y * A /\ B * x = x * B
    BY <1>1, <1>2, <1>4
  <1>10. y * A - x * B < A * B
    BY <1>1, <1>2, <1>3, <1>4, <1>7, <1>8, <1>9
  <1> QED  BY <1>6, <1>10 DEF A, B, M

(* Who has the same profit on its capital has the same rounded one.          *)
LEMMA EqualsRoundEqually ==
    ASSUME NEW a \in Accountlike, NEW b \in Accountlike, Lead(b, a) = 0
    PROVE  PnlPct(a) = PnlPct(b)
  <1> DEFINE A == Capital(a)
             B == Capital(b)
             M == Millionths
             x == a.pnl * M
             y == b.pnl * M
             p == x \div A
             q == y \div B
  <1>1. A \in Nat /\ A > 0 /\ B \in Nat /\ B > 0
    BY CapitalIs
  <1>2. M \in Nat /\ a.pnl \in Int /\ b.pnl \in Int /\ x \in Int /\ y \in Int
    BY ScalesPositive DEF Accountlike
  <1>3. p \in Int /\ A * p <= x /\ x < A * p + A
    BY <1>1, <1>2, Divided
  <1>4. q \in Int /\ B * q <= y /\ y < B * q + B
    BY <1>1, <1>2, Divided
  <1>5. y * A = x * B
    <2>1. b.pnl * A = a.pnl * B
      <3>1. b.pnl * A - a.pnl * B = 0
        BY DEF Lead
      <3> HIDE DEF A, B
      <3>2. b.pnl * A \in Int /\ a.pnl * B \in Int
        BY <1>1, <1>2
      <3> QED  BY <3>1, <3>2
    <2>2. y * A = M * (b.pnl * A) /\ x * B = M * (a.pnl * B)
      BY <1>1, <1>2
    <2> QED  BY <2>1, <2>2
  <1>6. PnlPct(a) = p /\ PnlPct(b) = q
    BY DEF PnlPct
  <1> HIDE DEF A, B, M, x, y, p, q
  <1> DEFINE C == A * B
  <1>7. /\ B * (A * p) <= B * x /\ B * x < B * (A * p + A)
        /\ A * (B * q) <= A * y /\ A * y < A * (B * q + B)
    BY <1>1, <1>2, <1>3, <1>4
  <1>8. /\ B * (A * p) = C * p /\ B * (A * p + A) = C * (p + 1)
        /\ A * (B * q) = C * q /\ A * (B * q + B) = C * (q + 1)
        /\ B * x = x * B /\ A * y = y * A /\ C \in Nat /\ C > 0
    BY <1>1, <1>2, <1>3, <1>4
  <1> HIDE DEF C
  <1>9. C * p < C * (q + 1) /\ C * q < C * (p + 1)
    BY <1>1, <1>2, <1>3, <1>4, <1>5, <1>7, <1>8
  <1>10. \A m, n \in Int : C * m < C * n => m < n
    BY <1>8
  <1>11. p < q + 1 /\ q < p + 1
    BY <1>3, <1>4, <1>9, <1>10
  <1> QED  BY <1>3, <1>4, <1>6, <1>11

(* What a response has to be.                                                *)
LEMMA RankingIsFair ==
    ASSUME NEW slab \in Slab, NEW threshold \in Nat,
           NEW response \in RankingResponses(slab, threshold),
           slab.layout \notin {"v17", "unparsable"}
    PROVE  LET accounts == slab.accounts
               order == response.rankings
           IN  /\ slab.layout \in {"unranked", "slab"} /\ response.status = 200
               /\ response.adlNeeded <=> Due(slab, threshold)
               /\ ~(response.adlNeeded /\ slab.layout = "slab") => order = <<>>
               /\ response.adlNeeded /\ slab.layout = "slab" =>
                    /\ \A i \in DOMAIN accounts :
                         Cardinality({r \in DOMAIN order : order[r] = i})
                           = (IF accounts[i].position # 0 /\ accounts[i].pnl > 0 THEN 1 ELSE 0)
                    /\ \A r \in DOMAIN order : order[r] \in DOMAIN accounts
                    /\ \A q, r \in DOMAIN order : q < r =>
                         ~RanksBefore(accounts[order[r]], accounts[order[q]])
  <1> DEFINE accounts == slab.accounts
             order == response.rankings
             ranked == Profitable(accounts)
  <1>1. /\ response.adlNeeded = AdlNeeded(slab, threshold)
        /\ response.status = 200
        /\ order \in IF AdlNeeded(slab, threshold) /\ slab.layout = "slab"
                       THEN Rankings(accounts) ELSE {<<>>}
    BY DEF RankingResponses
  <1>2. slab.layout \in {"unranked", "slab"}
    BY DEF Slab, Layouts
  <1>3. ASSUME AdlNeeded(slab, threshold), slab.layout = "slab"
        PROVE  /\ \A i \in DOMAIN accounts :
                    Cardinality({r \in DOMAIN order : order[r] = i})
                      = (IF accounts[i].position # 0 /\ accounts[i].pnl > 0 THEN 1 ELSE 0)
               /\ \A r \in DOMAIN order : order[r] \in DOMAIN accounts
               /\ \A q, r \in DOMAIN order : q < r =>
                    ~RanksBefore(accounts[order[r]], accounts[order[q]])
    <2>1. order \in Rankings(accounts)
      BY <1>1, <1>3
    <2>2. /\ order \in [1..Cardinality(ranked) -> ranked] /\ IsInjective(order)
          /\ \A t \in ranked : \E r \in 1..Cardinality(ranked) : order[r] = t
          /\ \A i, j \in DOMAIN order :
               RanksBefore(accounts[order[i]], accounts[order[j]]) => i < j
      <3> HIDE DEF order, accounts
      <3> QED  BY <2>1 DEF Rankings, Bijection, Injection, Surjection
    <2>3. ranked \subseteq DOMAIN accounts
      BY DEF Profitable
    <2>4. ASSUME NEW i \in DOMAIN accounts
          PROVE  Cardinality({r \in DOMAIN order : order[r] = i})
                   = (IF accounts[i].position # 0 /\ accounts[i].pnl > 0 THEN 1 ELSE 0)
      <3>1. i \in ranked <=> accounts[i].position # 0 /\ accounts[i].pnl > 0
        BY <2>4 DEF Profitable
      <3> HIDE DEF order, ranked, accounts
      <3>2. CASE i \in ranked
        <4>1. PICK r \in DOMAIN order : order[r] = i
          BY <2>2, <3>2
        <4>2. {s \in DOMAIN order : order[s] = i} = {r}
          BY <2>2, <4>1 DEF IsInjective
        <4> QED  BY <3>1, <3>2, <4>2, FS_Singleton
      <3>3. CASE i \notin ranked
        <4>1. {s \in DOMAIN order : order[s] = i} = {}
          BY <2>2, <3>3
        <4> QED  BY <3>1, <3>3, <4>1, FS_EmptySet
      <3> QED  BY <3>2, <3>3
    <2>5. \A q, r \in DOMAIN order : q < r => ~RanksBefore(accounts[order[r]], accounts[order[q]])
      <3> HIDE DEF order, ranked, accounts
      <3>1. DOMAIN order \subseteq Int
        BY <2>2
      <3>2. SUFFICES ASSUME NEW q \in DOMAIN order, NEW r \in DOMAIN order, q < r,
                            RanksBefore(accounts[order[r]], accounts[order[q]])
                     PROVE  FALSE
        OBVIOUS
      <3>3. r < q
        BY <2>2, <3>2
      <3> QED  BY <3>1, <3>2, <3>3
    <2> HIDE DEF order, ranked, accounts
    <2> QED  BY <2>2, <2>3, <2>4, <2>5
  <1>4. AdlNeeded(slab, threshold) <=> Due(slab, threshold)
    BY TriggerIsExact
  <1> HIDE DEF order, accounts
  <1>5. ~(AdlNeeded(slab, threshold) /\ slab.layout = "slab") => order = <<>>
    BY <1>1
  <1> QED  BY <1>1, <1>2, <1>3, <1>4, <1>5 DEF order, accounts

-----------------------------------------------------------------------------
(* The parameters of the funding history.                                    *)
LimitParams == {NoParam, OtherParam} \union {NumberParam(n) : n \in Int}
Forms == {"date", "milliseconds", "seconds"}

LEMMA RowsInRange ==
    ASSUME NEW limit \in LimitParams
    PROVE  RowLimit(limit) \in 1..MaxRowsAsked
  <1>1. /\ DefaultRows \in 1..MaxRowsAsked /\ MaxRowsAsked \in Nat /\ MaxRowsAsked > 0
    BY RowsPositive
  <1>2. CASE limit.as # "number" \/ limit.number <= 0
    BY <1>1, <1>2 DEF RowLimit
  <1>3. CASE ~(limit.as # "number" \/ limit.number <= 0)
    <2>1. PICK n \in Int : limit = NumberParam(n)
      BY <1>3 DEF LimitParams, NoParam, OtherParam
    <2>2. limit.number = n /\ n > 0
      BY <1>3, <2>1 DEF NumberParam
    <2> DEFINE s == {n, MaxRowsAsked}
               least == IF n <= MaxRowsAsked THEN n ELSE MaxRowsAsked
    <2>3. least \in s /\ \A y \in s : least <= y
      BY <1>1
    <2>4. \A x \in s : (\A y \in s : x <= y) => x = least
      BY <1>1
    <2>5. Min(s) = least
      BY <2>3, <2>4 DEF Min
    <2>6. RowLimit(limit) = Min(s)
      BY <1>3, <2>2 DEF RowLimit
    <2> QED  BY <1>1, <2>2, <2>5, <2>6
  <1> QED  BY <1>2, <1>3

LEMMA SinceIs ==
    ASSUME NEW instant \in Int, NEW form \in Forms,
           form = "seconds" => instant % Milliseconds = 0
    PROVE  LET since == Written(instant, form)
           IN  /\ since # NoParam
               /\ instant \in Years => Since(since) = instant /\ instant # Invalid
               /\ since.as = "date" /\ instant \notin Years => Since(since) = Invalid
               /\ Since(since) = Invalid \/ Since(since) \in Years
  <1> DEFINE since == Written(instant, form)
  <1>1. /\ form = "date" => since = DateParam(instant)
        /\ form = "milliseconds" => since = NumberParam(instant)
        /\ form = "seconds" => since = NumberParam(instant \div Milliseconds)
    BY DEF Written
  <1>2. since # NoParam
    BY <1>1 DEF DateParam, NumberParam, NoParam, Forms
  <1>3. Since(since) = Invalid \/ Since(since) \in Years
    BY DEF Since
  <1>4. CASE form = "date"
    <2>1. since.as = "date" /\ since.instant = instant
      BY <1>1, <1>4 DEF DateParam
    <2> HIDE DEF since
    <2>2. Since(since) = IF instant \in Years THEN instant ELSE Invalid
      BY <2>1 DEF Since
    <2>3. instant \in Years => instant # Invalid
      BY EpochsApart DEF Invalid
    <2> QED  BY <1>2, <1>3, <2>2, <2>3 DEF since
  <1>5. CASE form = "milliseconds"
    <2>1. since.as = "number" /\ since.number = instant
      BY <1>1, <1>5 DEF NumberParam
    <2> HIDE DEF since
    <2>2. ASSUME instant \in Years PROVE Since(since) = instant /\ instant # Invalid
      <3>1. instant > 0 /\ Epoch(instant) = instant
        BY <2>2, EpochsApart DEF Epoch
      <3> QED  BY <2>1, <2>2, <3>1 DEF Since, Invalid
    <2> QED  BY <1>2, <1>3, <2>1, <2>2 DEF since
  <1>6. CASE form = "seconds"
    <2> DEFINE n == instant \div Milliseconds
    <2>1. since.as = "number" /\ since.number = n
      BY <1>1, <1>6 DEF NumberParam
    <2> HIDE DEF since
    <2>2. ASSUME instant \in Years PROVE Since(since) = instant /\ instant # Invalid
      <3>1. n \in 1..EpochSplit /\ EpochSplit \in Nat /\ Milliseconds \in Nat /\ Milliseconds > 0
            /\ instant \in Nat
        BY <2>2, EpochsApart
      <3>2. instant % Milliseconds = 0
        BY <1>6
      <3>3. n * Milliseconds = instant
        <4> DEFINE d == Milliseconds
        <4>1. \A x \in Int : x = d * (x \div d) + (x % d)
          BY <3>1
        <4>2. instant = d * n
          BY <3>1, <3>2, <4>1
        <4> HIDE DEF n
        <4> QED  BY <3>1, <4>2
      <3> HIDE DEF n
      <3>4. n > 0 /\ Epoch(n) = instant
        BY <3>1, <3>3 DEF Epoch
      <3> QED  BY <2>1, <2>2, <3>1, <3>4 DEF Since, Invalid
    <2> QED  BY <1>2, <1>3, <2>1, <2>2 DEF since
  <1> QED  BY <1>4, <1>5, <1>6 DEF Forms

(* Both routes.                                                              *)
LEMMA QueriesAre ==
    ASSUME NEW instant \in Int, NEW form \in Forms,
           form = "seconds" => instant % Milliseconds = 0, NEW limit \in LimitParams,
           NEW query \in {GetHistory(Written(instant, form), limit),
                         GetHistorySince(Written(instant, form), limit)}
    PROVE  /\ instant \in Years => query.status = 200 /\ query.since = instant
           /\ Written(instant, form).as = "date" /\ instant \notin Years => query.status = 400
           /\ query.status = 200 => query.rows \in 1..MaxRowsAsked
  <1> DEFINE since == Written(instant, form)
  <1>1. /\ since # NoParam
        /\ instant \in Years => Since(since) = instant /\ instant # Invalid
        /\ since.as = "date" /\ instant \notin Years => Since(since) = Invalid
    BY SinceIs
  <1>2. RowLimit(limit) \in 1..MaxRowsAsked /\ MaxRowsAsked \in 1..MaxRowsAsked
    BY RowsInRange, RowsPositive
  <1> HIDE DEF since
  <1>3. PICK rows \in 1..MaxRowsAsked :
          query = IF Since(since) = Invalid THEN Refused ELSE Queried(Since(since), rows)
    BY <1>1, <1>2 DEF GetHistory, GetHistorySince, since
  <1>4. CASE Since(since) = Invalid
    <2>1. query.status = 400
      BY <1>3, <1>4 DEF Refused
    <2> QED  BY <1>1, <1>4, <2>1 DEF since
  <1>5. CASE Since(since) # Invalid
    <2>1. query.status = 200 /\ query.since = Since(since) /\ query.rows = rows
      BY <1>3, <1>5 DEF Queried
    <2> QED  BY <1>1, <1>5, <2>1 DEF since
  <1> QED  BY <1>4, <1>5
-----------------------------------------------------------------------------
LEMMA DividedIs ==
    ASSUME NEW d \in Nat, d > 0, NEW q \in Int, NEW r \in Nat, r < d
    PROVE  (d * q + r) \div d = q /\ (d * q + r) % d = r
  <1> DEFINE x == d * q + r
             p == x \div d
  <1>1. x \in Int /\ p \in Int /\ d * p <= x /\ x < d * p + d
    BY Divided
  <1>2. x % d \in Int /\ x = d * p + (x % d)
    <2>1. \A y \in Int : y % d \in Int /\ y = d * (y \div d) + (y % d)
      OBVIOUS
    <2> QED  BY <1>1, <2>1
  <1>3. d * q <= x /\ x < d * q + d
    OBVIOUS
  <1> HIDE DEF p
  <1>4. d * p < d * q + d /\ d * q < d * p + d /\ d * q + d = d * (q + 1) /\ d * p + d = d * (p + 1)
    <2> HIDE DEF x
    <2> QED  BY <1>1, <1>3
  <1>5. p < q + 1 /\ q < p + 1
    <2>1. \A m, n \in Int : d * m < d * n => m < n
      OBVIOUS
    <2> QED  BY <1>1, <1>4, <2>1
  <1>6. p = q
    BY <1>1, <1>5
  <1> QED  BY <1>2, <1>6 DEF p

-----------------------------------------------------------------------------
LEMMA WidthIs ==
    /\ PartBits \in Nat /\ PartBits > 0 /\ Parts \in Nat /\ Parts > 0
    /\ Width \in Nat /\ PartBits <= Width
  <1>1. PartBits \in Nat /\ PartBits > 0 /\ Parts \in Nat /\ Parts > 0
    BY SizesPositive
  <1>2. PartBits * Parts \in Nat /\ PartBits * Parts >= PartBits * 1
    BY <1>1
  <1> QED  BY <1>1, <1>2 DEF Width

(* Induction over the places of the bits.                                    *)
LEMMA UpToWidth ==
    ASSUME NEW T, 0 \in T, \A n \in 0..(Width - 1) : n \in T => n + 1 \in T
    PROVE  \A n \in 0..Width : n \in T
  <1> DEFINE R == {n \in Nat : n <= Width /\ n \notin T}
  <1> SUFFICES ASSUME R # {} PROVE FALSE
    BY WidthIs
  <1>1. PICK n \in R : \A y \in R : n <= y
    <2>1. R \in SUBSET Nat
      OBVIOUS
    <2> HIDE DEF R
    <2> QED  BY <2>1, LeastOf
  <1>2. n # 0 /\ n \in Nat /\ n <= Width /\ n \notin T
    BY <1>1
  <1>3. n - 1 \in 0..(Width - 1) /\ n - 1 \notin R
    BY <1>1, <1>2, WidthIs
  <1>4. n - 1 \in T
    BY <1>2, <1>3, WidthIs
  <1>5. (n - 1) + 1 \in T
    BY <1>3, <1>4
  <1> QED  BY <1>2, <1>5

IsPower(f, n) == f = [i \in 0..n |-> IF i = 0 THEN 1 ELSE 2 * f[i - 1]]

(* The recursive function PowerOf2 exists.                                   *)
LEMMA PowerExists == \E f : IsPower(f, Width)
  <1> DEFINE T == {n \in 0..Width : \E f : IsPower(f, n)}
  <1>1. 0 \in T
    <2>1. IsPower([i \in 0..0 |-> 1], 0)
      BY DEF IsPower
    <2> QED  BY <2>1, WidthIs
  <1>2. ASSUME NEW n \in 0..(Width - 1), n \in T
        PROVE  n + 1 \in T
    <2>1. PICK f : IsPower(f, n)
      BY <1>2
    <2> DEFINE g == [i \in 0..(n + 1) |-> IF i = n + 1 THEN 2 * f[n] ELSE f[i]]
    <2>2. n \in Nat /\ n + 1 \in 0..Width
      BY WidthIs
    <2>3. ASSUME NEW i \in 0..(n + 1)
          PROVE  g[i] = IF i = 0 THEN 1 ELSE 2 * g[i - 1]
      <3>1. CASE i = n + 1
        <4>1. g[n] = f[n] /\ g[i] = 2 * f[n] /\ i - 1 = n /\ i # 0
          BY <2>2, <3>1
        <4> QED  BY <4>1
      <3>2. CASE i # n + 1
        <4>1. i \in 0..n /\ g[i] = f[i]
          BY <2>2, <3>2
        <4>2. f[i] = IF i = 0 THEN 1 ELSE 2 * f[i - 1]
          BY <2>1, <4>1 DEF IsPower
        <4>3. i # 0 => g[i - 1] = f[i - 1]
          BY <2>2, <4>1
        <4> QED  BY <4>1, <4>2, <4>3
      <3> QED  BY <3>1, <3>2
    <2>4. IsPower(g, n + 1)
      BY <2>3 DEF IsPower
    <2> QED  BY <2>2, <2>4
  <1> HIDE DEF T
  <1>3. Width \in T
    BY <1>1, <1>2, UpToWidth, WidthIs
  <1> QED  BY <1>3 DEF T

LEMMA PowerIs ==
    /\ PowerOf2[0] = 1 /\ DOMAIN PowerOf2 = 0..Width
    /\ \A n \in 0..(Width - 1) : PowerOf2[n + 1] = 2 * PowerOf2[n]
    /\ \A n \in 0..Width : PowerOf2[n] \in Nat /\ PowerOf2[n] > 0
  <1> DEFINE f == PowerOf2
  <1>1. IsPower(PowerOf2, Width)
    <2> DEFINE g == CHOOSE g : IsPower(g, Width)
    <2>1. IsPower(g, Width)
      BY PowerExists
    <2>2. PowerOf2 = g
      BY DEF PowerOf2, IsPower
    <2> QED  BY <2>1, <2>2
  <1>2. /\ DOMAIN PowerOf2 = 0..Width
        /\ \A n \in 0..Width : PowerOf2[n] = IF n = 0 THEN 1 ELSE 2 * PowerOf2[n - 1]
    BY <1>1 DEF IsPower
  <1>3. PowerOf2[0] = 1
    BY <1>2, WidthIs
  <1>4. \A n \in 0..(Width - 1) : PowerOf2[n + 1] = 2 * PowerOf2[n]
    <2> TAKE n \in 0..(Width - 1)
    <2>1. n + 1 \in 0..Width /\ n + 1 # 0 /\ (n + 1) - 1 = n
      BY WidthIs
    <2>2. PowerOf2[n + 1] = 2 * PowerOf2[(n + 1) - 1]
      BY <1>2, <2>1
    <2> QED  BY <2>1, <2>2
  <1> DEFINE T == {n \in 0..Width : PowerOf2[n] \in Nat /\ PowerOf2[n] > 0}
  <1>5. 0 \in T
    BY <1>3, WidthIs
  <1>6. ASSUME NEW n \in 0..(Width - 1), n \in T PROVE n + 1 \in T
    BY <1>4, <1>6, WidthIs
  <1> HIDE DEF T
  <1>7. \A n \in 0..Width : n \in T
    BY <1>5, <1>6, UpToWidth
  <1> QED  BY <1>2, <1>3, <1>4, <1>7 DEF T

LEMMA PowersMultiply ==
    ASSUME NEW a \in Nat, NEW b \in Nat, a + b <= Width
    PROVE  PowerOf2[a + b] = PowerOf2[a] * PowerOf2[b]
  <1> DEFINE T == {n \in 0..Width : a + n <= Width => PowerOf2[a + n] = PowerOf2[a] * PowerOf2[n]}
  <1>1. a \in 0..Width /\ b \in 0..Width
    BY WidthIs
  <1>2. 0 \in T
    <2>1. PowerOf2[a + 0] = PowerOf2[a] * PowerOf2[0]
      BY <1>1, PowerIs
    <2> QED  BY <2>1, WidthIs
  <1>3. ASSUME NEW n \in 0..(Width - 1), n \in T PROVE n + 1 \in T
    <2>1. SUFFICES ASSUME a + (n + 1) <= Width
                   PROVE  PowerOf2[a + (n + 1)] = PowerOf2[a] * PowerOf2[n + 1]
      BY WidthIs
    <2>2. a + n \in 0..(Width - 1) /\ a + (n + 1) = (a + n) + 1 /\ n \in 0..Width
      BY <2>1, WidthIs
    <2>3. PowerOf2[a + n] = PowerOf2[a] * PowerOf2[n]
      BY <1>3, <2>2, WidthIs
    <2>4. PowerOf2[(a + n) + 1] = 2 * PowerOf2[a + n] /\ PowerOf2[n + 1] = 2 * PowerOf2[n]
      BY <2>2, PowerIs
    <2>5. PowerOf2[a] \in Nat /\ PowerOf2[n] \in Nat
      BY <1>1, <2>2, PowerIs
    <2>6. \A x, y \in Nat : 2 * (x * y) = x * (2 * y)
      OBVIOUS
    <2>7. PowerOf2[(a + n) + 1] = 2 * (PowerOf2[a] * PowerOf2[n])
      BY <2>3, <2>4
    <2>8. PowerOf2[(a + n) + 1] = PowerOf2[a] * (2 * PowerOf2[n])
      BY <2>5, <2>6, <2>7
    <2> QED  BY <2>2, <2>4, <2>8
  <1> HIDE DEF T
  <1>4. b \in T
    BY <1>1, <1>2, <1>3, UpToWidth
  <1> QED  BY <1>4 DEF T
-----------------------------------------------------------------------------
(* The number with the bits of B below k.                                    *)
Places2 == 0..(Width - 1)
Low(B, k) == SumFunctionOnSet(PowerOf2, B \intersect 0..(k - 1))

LEMMA LowIs ==
    ASSUME NEW B
    PROVE  /\ Low(B, 0) = 0
           /\ \A n \in Places2 : Low(B, n + 1) = Low(B, n) + (IF n \in B THEN PowerOf2[n] ELSE 0)
           /\ \A n \in 0..Width : Low(B, n) \in Nat
  <1>1. ASSUME NEW n \in 0..Width
        PROVE  /\ IsFiniteSet(B \intersect 0..(n - 1)) /\ Low(B, n) \in Nat
               /\ \A i \in B \intersect 0..(n - 1) : PowerOf2[i] \in Nat
    <2>1. IsFiniteSet(0..(n - 1))
      <3>1. 0 \in Int /\ n - 1 \in Int
        BY WidthIs
      <3> QED  BY <3>1, FS_Interval
    <2>2. IsFiniteSet(B \intersect 0..(n - 1))
      BY <2>1, FS_Subset
    <2>3. \A i \in B \intersect 0..(n - 1) : PowerOf2[i] \in Nat
      BY PowerIs, WidthIs
    <2> QED  BY <2>2, <2>3, SumNat DEF Low
  <1>2. Low(B, 0) = 0
    <2>1. B \intersect 0..(0 - 1) = {}
      OBVIOUS
    <2> QED  BY <2>1, SumIs, FS_EmptySet DEF Low
  <1>3. ASSUME NEW n \in Places2
        PROVE  Low(B, n + 1) = Low(B, n) + (IF n \in B THEN PowerOf2[n] ELSE 0)
    <2>1. n \in Nat /\ n + 1 \in 0..Width /\ n \in 0..Width
      BY WidthIs DEF Places2
    <2> DEFINE S == B \intersect 0..((n + 1) - 1)
               R == B \intersect 0..(n - 1)
    <2>2. IsFiniteSet(S) /\ \A i \in S : PowerOf2[i] \in Nat
      BY <1>1, <2>1
    <2>3. CASE n \in B
      <3>1. n \in S /\ S \ {n} = R
        BY <2>1, <2>3
      <3>2. Low(B, n + 1) = SumFunctionOnSet(PowerOf2, S) /\ Low(B, n) = SumFunctionOnSet(PowerOf2, R)
        BY DEF Low
      <3> HIDE DEF S, R
      <3>3. SumFunctionOnSet(PowerOf2, S) = PowerOf2[n] + SumFunctionOnSet(PowerOf2, R)
        BY <2>2, <3>1, SumSplit
      <3>4. Low(B, n) \in Nat /\ PowerOf2[n] \in Nat
        BY <1>1, <2>1, PowerIs
      <3> QED  BY <2>3, <3>2, <3>3, <3>4
    <2>4. CASE n \notin B
      <3>1. S = R
        BY <2>1, <2>4
      <3>2. Low(B, n + 1) = SumFunctionOnSet(PowerOf2, S) /\ Low(B, n) = SumFunctionOnSet(PowerOf2, R)
        BY DEF Low
      <3>3. Low(B, n) \in Nat
        BY <1>1, <2>1
      <3> HIDE DEF S, R
      <3>4. Low(B, n + 1) = Low(B, n) + 0
        BY <3>1, <3>2, <3>3
      <3> QED  BY <2>4, <3>4
    <2> QED  BY <2>3, <2>4
  <1> QED  BY <1>1, <1>2, <1>3

LEMMA LowBelow ==
    ASSUME NEW B, NEW n \in 0..Width
    PROVE  Low(B, n) < PowerOf2[n]
  <1> DEFINE T == {k \in 0..Width : Low(B, k) < PowerOf2[k]}
  <1>1. 0 \in T
    BY LowIs, PowerIs, WidthIs
  <1>2. ASSUME NEW k \in 0..(Width - 1), k \in T PROVE k + 1 \in T
    <2>1. Low(B, k + 1) = Low(B, k) + (IF k \in B THEN PowerOf2[k] ELSE 0)
      BY LowIs DEF Places2
    <2>0. k \in 0..Width
      BY WidthIs
    <2>2. PowerOf2[k + 1] = 2 * PowerOf2[k] /\ PowerOf2[k] \in Nat /\ Low(B, k) \in Nat
      <3>1. PowerOf2[k + 1] = 2 * PowerOf2[k] /\ PowerOf2[k] \in Nat
        BY <2>0, PowerIs
      <3>2. Low(B, k) \in Nat
        BY <2>0, LowIs
      <3> QED  BY <3>1, <3>2
    <2>3. Low(B, k) < PowerOf2[k] /\ k + 1 \in 0..Width
      BY <1>2, WidthIs
    <2> QED  BY <2>1, <2>2, <2>3
  <1> HIDE DEF T
  <1>3. n \in T
    BY <1>1, <1>2, UpToWidth
  <1> QED  BY <1>3 DEF T

(* What is added above i is a multiple of its power.                         *)
LEMMA LowSplits ==
    ASSUME NEW B, NEW i \in 0..Width
    PROVE  \E h \in Nat : Low(B, Width) = PowerOf2[i] * h + Low(B, i)
  <1> DEFINE P(k) == \E h \in Nat : Low(B, k) = PowerOf2[i] * h + Low(B, i)
             T == {k \in 0..Width : i <= k => P(k)}
  <1>0. i \in Nat /\ PowerOf2[i] \in Nat /\ Low(B, i) \in Nat
    <2>1. i \in Nat /\ PowerOf2[i] \in Nat
      BY WidthIs, PowerIs
    <2>2. Low(B, i) \in Nat
      BY LowIs
    <2> QED  BY <2>1, <2>2
  <1>a. P(i)
    <2>1. Low(B, i) = PowerOf2[i] * 0 + Low(B, i)
      BY <1>0
    <2> QED  BY <2>1
  <1>1. 0 \in T
    BY <1>0, <1>a, WidthIs
  <1>2. ASSUME NEW k \in 0..(Width - 1), k \in T PROVE k + 1 \in T
    <2>0. k + 1 \in 0..Width /\ k \in 0..Width /\ k \in Nat
      BY WidthIs
    <2>1. SUFFICES ASSUME i <= k + 1 PROVE P(k + 1)
      BY <2>0
    <2>2. CASE i = k + 1
      BY <1>a, <2>2
    <2>3. CASE i <= k
      <3>1. PICK h \in Nat : Low(B, k) = PowerOf2[i] * h + Low(B, i)
        BY <1>2, <2>3
      <3>2. PowerOf2[k] = PowerOf2[i] * PowerOf2[k - i] /\ PowerOf2[k - i] \in Nat
        <4>1. k - i \in Nat /\ i + (k - i) = k /\ k - i \in 0..Width
          BY <1>0, <2>0, <2>3, WidthIs
        <4>2. PowerOf2[i + (k - i)] = PowerOf2[i] * PowerOf2[k - i]
          BY <1>0, <2>0, <4>1, PowersMultiply
        <4> QED  BY <4>1, <4>2, PowerIs
      <3>3. Low(B, k + 1) = Low(B, k) + (IF k \in B THEN PowerOf2[k] ELSE 0)
        BY LowIs DEF Places2
      <3>4. CASE k \in B
        <4>1. \A p, q \in Nat, l \in Nat : (p * h + l) + p * q = p * (h + q) + l
          OBVIOUS
        <4>2. Low(B, k + 1) = (PowerOf2[i] * h + Low(B, i)) + PowerOf2[i] * PowerOf2[k - i]
          BY <3>1, <3>2, <3>3, <3>4
        <4>3. Low(B, k + 1) = PowerOf2[i] * (h + PowerOf2[k - i]) + Low(B, i)
          BY <1>0, <3>2, <4>1, <4>2
        <4> QED  BY <3>2, <4>3
      <3>5. CASE k \notin B
        <4>1. Low(B, k) \in Nat
          BY <2>0, LowIs
        <4>2. Low(B, k + 1) = Low(B, k)
          BY <3>3, <3>5, <4>1
        <4> QED  BY <3>1, <4>2
      <3> QED  BY <3>4, <3>5
    <2> QED  BY <1>0, <2>0, <2>1, <2>2, <2>3
  <1> HIDE DEF T
  <1>3. Width \in T
    BY <1>1, <1>2, UpToWidth, WidthIs
  <1> QED  BY <1>0, <1>3, WidthIs DEF T

LEMMA SizeIs == Size \in Nat /\ Size > 0
  BY PowerIs, WidthIs DEF Size

LEMMA UnsignedIs ==
    ASSUME NEW n \in Int
    PROVE  /\ Unsigned(n) \in 0..(Size - 1)
           /\ Signed(n) \in Int /\ Unsigned(Signed(n)) = Unsigned(n)
           /\ n \in 0..(Size - 1) => Unsigned(n) = n
  <1>1. \A x \in Int : x % Size \in 0..(Size - 1)
    BY SizeIs
  <1>2. ASSUME NEW x \in 0..(Size - 1) PROVE x % Size = x /\ (x - Size) % Size = x
    <2>1. x \in Nat /\ x < Size
      BY SizeIs
    <2>2. (Size * 0 + x) % Size = x /\ (Size * (-1) + x) % Size = x
      BY <2>1, SizeIs, DividedIs
    <2>3. Size * 0 + x = x /\ Size * (-1) + x = x - Size
      BY <2>1, SizeIs
    <2> QED  BY <2>2, <2>3
  <1>3. Unsigned(n) \in 0..(Size - 1)
    BY <1>1 DEF Unsigned
  <1>4. Signed(n) = Unsigned(n) \/ Signed(n) = Unsigned(n) - Size
    BY DEF Signed
  <1>5. Unsigned(Signed(n)) = Unsigned(n)
    BY <1>2, <1>3, <1>4 DEF Unsigned
  <1> QED  BY <1>2, <1>3, <1>4, <1>5, SizeIs DEF Unsigned

LEMMA BitsOfUnsigned ==
    ASSUME NEW n \in Int
    PROVE  BitsOf(Unsigned(n)) = BitsOf(n) /\ BitsOf(Signed(n)) = BitsOf(n)
  <1>1. Unsigned(Unsigned(n)) = Unsigned(n) /\ Unsigned(Signed(n)) = Unsigned(n)
    BY UnsignedIs
  <1> QED  BY <1>1 DEF BitsOf

(* A number made of bits has these bits.                                     *)
LEMMA BitsOfWithBits ==
    ASSUME NEW B \in SUBSET Places2
    PROVE  WithBits(B) \in Int /\ BitsOf(WithBits(B)) = B
  <1> DEFINE x == SumFunctionOnSet(PowerOf2, B)
  <1>1. x = Low(B, Width)
    <2>1. B \intersect 0..(Width - 1) = B
      BY DEF Places2
    <2> QED  BY <2>1 DEF Low
  <1>2. x \in 0..(Size - 1) /\ x \in Int
    <2>1. Low(B, Width) \in Nat /\ Low(B, Width) < Size
      BY LowIs, LowBelow, WidthIs DEF Size
    <2> QED  BY <1>1, <2>1, SizeIs
  <1>3. WithBits(B) \in Int /\ BitsOf(WithBits(B)) = BitsOf(x)
    BY <1>2, UnsignedIs, BitsOfUnsigned DEF WithBits
  <1>4. Unsigned(x) = x
    BY <1>2, UnsignedIs
  <1>5. ASSUME NEW i \in 0..(Width - 1)
        PROVE  (x \div PowerOf2[i]) % 2 = IF i \in B THEN 1 ELSE 0
    <2>0. i \in 0..Width /\ i + 1 \in 0..Width /\ i \in Places2
      BY WidthIs DEF Places2
    <2> DEFINE p == PowerOf2[i]
               l == Low(B, i)
               b == IF i \in B THEN 1 ELSE 0
    <2>1. p \in Nat /\ p > 0 /\ l \in Nat /\ l < p /\ b \in {0, 1}
      BY <2>0, PowerIs, LowIs, LowBelow
    <2>2. PICK h \in Nat : Low(B, Width) = PowerOf2[i + 1] * h + Low(B, i + 1)
      BY <2>0, LowSplits
    <2>3. PowerOf2[i + 1] = 2 * p /\ Low(B, i + 1) = l + p * b
      <3>1. Low(B, i + 1) = Low(B, i) + (IF i \in B THEN PowerOf2[i] ELSE 0)
        BY <2>0, LowIs
      <3>2. PowerOf2[i + 1] = 2 * p
        BY PowerIs
      <3>3. p * b = IF i \in B THEN PowerOf2[i] ELSE 0
        BY <2>1
      <3> QED  BY <3>1, <3>2, <3>3
    <2>4. x = p * (2 * h + b) + l
      <3>1. x = (2 * p) * h + (l + p * b)
        BY <1>1, <2>2, <2>3
      <3> HIDE DEF p, l, b, x
      <3> QED  BY <2>1, <3>1
    <2>5. 2 * h + b \in Nat /\ (2 * h + b) % 2 = b
      BY <2>1
    <2> HIDE DEF p, l, b, x
    <2>6. x \div p = 2 * h + b
      BY <2>1, <2>4, <2>5, DividedIs
    <2>7. (x \div p) % 2 = b
      BY <2>5, <2>6
    <2> QED  BY <2>7 DEF p, b
  <1> HIDE DEF x
  <1>6. BitsOf(x) = B
    <2>1. ASSUME NEW i \in 0..(Width - 1) PROVE (Unsigned(x) \div PowerOf2[i]) % 2 = 1 <=> i \in B
      BY <1>4, <1>5
    <2> QED  BY <2>1 DEF BitsOf, Places2
  <1> QED  BY <1>3, <1>6
-----------------------------------------------------------------------------
(* Bits that are shifted.                                                    *)
LEMMA BitsOfShl ==
    ASSUME NEW p \in 0..(PartSize - 1), NEW s \in 0..(Width - PartBits)
    PROVE  /\ Shl(p, s) \in Int
           /\ BitsOf(Shl(p, s)) =
                {j \in Places2 : j >= s /\ (p \div PowerOf2[j - s]) % 2 = 1}
  <1> DEFINE d == PowerOf2[s]
             x == p * d
  <1>1. s \in Nat /\ s < Width /\ s % Width = s /\ s \in 0..Width /\ PartBits \in 0..Width
    <2>1. s \in Nat /\ s < Width
      BY WidthIs
    <2>2. (Width * 0 + s) % Width = s /\ Width * 0 + s = s
      BY <2>1, WidthIs, DividedIs
    <2> QED  BY <2>1, <2>2, WidthIs
  <1>2. PartSize \in Nat /\ PartSize > 0 /\ d \in Nat /\ d > 0 /\ p \in Nat /\ p < PartSize
    BY <1>1, PowerIs DEF PartSize
  <1>3. PartSize * d <= Size
    <2>1. PartBits + s \in 0..Width /\ Width - (PartBits + s) \in 0..Width
      BY <1>1, WidthIs
    <2>2. PowerOf2[PartBits + s] = PartSize * d
      BY <1>1, <2>1, PowersMultiply, WidthIs DEF PartSize
    <2> DEFINE rest == Width - (PartBits + s)
    <2>3. PowerOf2[(PartBits + s) + rest] = PowerOf2[PartBits + s] * PowerOf2[rest]
      BY <2>1, PowersMultiply, WidthIs
    <2>4. (PartBits + s) + rest = Width
      BY <1>1, WidthIs
    <2>5. PowerOf2[rest] \in Nat /\ PowerOf2[rest] > 0
      BY <2>1, PowerIs
    <2>6. PartSize * d \in Nat
      BY <1>2
    <2>7. Size = (PartSize * d) * PowerOf2[rest]
      BY <2>2, <2>3, <2>4 DEF Size
    <2> HIDE DEF d, rest
    <2> QED  BY <2>5, <2>6, <2>7
  <1>4. x \in 0..(Size - 1) /\ p \in 0..(Size - 1)
    <2>1. x < PartSize * d /\ x \in Nat /\ p <= x
      BY <1>2
    <2> QED  BY <1>2, <1>3, <2>1, SizeIs
  <1>5. Shl(p, s) = Signed(x)
    BY <1>1, <1>4, UnsignedIs DEF Shl
  <1>6. Shl(p, s) \in Int /\ BitsOf(Shl(p, s)) = BitsOf(x) /\ Unsigned(x) = x
    BY <1>4, <1>5, UnsignedIs, BitsOfUnsigned
  <1>7. ASSUME NEW j \in 0..(Width - 1), j >= s
        PROVE  x \div PowerOf2[j] = p \div PowerOf2[j - s]
    <2> DEFINE e == PowerOf2[j - s]
    <2>1. j - s \in Nat /\ s + (j - s) = j /\ j \in 0..Width /\ j - s \in 0..Width
      BY <1>1, <1>7, WidthIs
    <2>2. PowerOf2[j] = d * e /\ e \in Nat /\ e > 0
      <3>1. PowerOf2[s + (j - s)] = PowerOf2[s] * PowerOf2[j - s]
        BY <1>1, <2>1, PowersMultiply, WidthIs
      <3> QED  BY <2>1, <3>1, PowerIs
    <2> DEFINE q == p \div e
               r == p % e
    <2>3. q \in Nat /\ r \in Nat /\ r < e /\ p = e * q + r
      <3> HIDE DEF e
      <3>1. \A y \in Nat : /\ y \div e \in Nat /\ y % e \in Nat /\ y % e < e
                          /\ y = e * (y \div e) + (y % e)
        BY <2>2
      <3> QED  BY <1>2, <3>1
    <2> HIDE DEF q, r, d, e
    <2>4. x = (d * e) * q + d * r /\ d * e \in Nat /\ d * e > 0 /\ d * r \in Nat /\ d * r < d * e
      <3>1. \A u, v, w, z \in Nat : (v * w + z) * u = (u * v) * w + u * z
        OBVIOUS
      <3>2. x = (d * e) * q + d * r
        BY <1>2, <2>2, <2>3, <3>1
      <3>3. d * e \in Nat /\ d * e > 0 /\ d * r \in Nat /\ d * r < d * e
        BY <1>2, <2>2, <2>3
      <3> QED  BY <3>2, <3>3
    <2>5. \A D \in Nat, R \in Nat : D > 0 /\ R < D => (D * q + R) \div D = q
      BY <2>3, DividedIs
    <2>6. x \div (d * e) = q
      BY <2>4, <2>5
    <2> QED  BY <2>2, <2>6 DEF q, e
  <1>8. ASSUME NEW j \in 0..(Width - 1), j < s
        PROVE  (x \div PowerOf2[j]) % 2 = 0
    <2> DEFINE f == PowerOf2[j]
               e == PowerOf2[s - j - 1]
    <2>1. s - j - 1 \in Nat /\ s - j - 1 \in 0..Width /\ j + 1 \in 0..Width /\ j \in 0..Width
          /\ (j + 1) + (s - j - 1) = s /\ j \in Nat
      BY <1>1, <1>8, WidthIs
    <2>2. f \in Nat /\ f > 0 /\ e \in Nat /\ PowerOf2[j + 1] = 2 * f
      BY <2>1, PowerIs
    <2>3. PowerOf2[(j + 1) + (s - j - 1)] = PowerOf2[j + 1] * e
      BY <1>1, <2>1, PowersMultiply
    <2>4. d = (2 * f) * e
      BY <2>1, <2>2, <2>3
    <2> HIDE DEF f, e, d
    <2> DEFINE h == p * e
    <2>5. x = f * (2 * h) + 0 /\ h \in Nat /\ 2 * h \in Int
      <3>1. \A u, v, w \in Nat : u * ((2 * v) * w) = v * (2 * (u * w))
        OBVIOUS
      <3>2. x = f * (2 * h)
        BY <1>2, <2>2, <2>4, <3>1
      <3>3. h \in Nat
        BY <1>2, <2>2
      <3>4. 2 * h \in Int /\ f * (2 * h) \in Int
        <4> HIDE DEF h
        <4> QED  BY <2>2, <3>3
      <3> QED  BY <3>2, <3>3, <3>4
    <2> HIDE DEF h, x
    <2>6. x \div f = 2 * h
      BY <2>2, <2>5, DividedIs
    <2>7. (2 * h) % 2 = 0
      BY <2>5
    <2> QED  BY <2>6, <2>7 DEF f
  <1> HIDE DEF x
  <1>9. BitsOf(x) = {j \in Places2 : j >= s /\ (p \div PowerOf2[j - s]) % 2 = 1}
    <2>1. ASSUME NEW j \in 0..(Width - 1)
          PROVE  (Unsigned(x) \div PowerOf2[j]) % 2 = 1
                   <=> j >= s /\ (p \div PowerOf2[j - s]) % 2 = 1
      <3>1. CASE j >= s
        BY <1>6, <1>7, <3>1
      <3>2. CASE j < s
        BY <1>6, <1>8, <3>2
      <3> QED  BY <1>1, <3>1, <3>2
    <2> QED  BY <2>1 DEF BitsOf, Places2
  <1> QED  BY <1>6, <1>9

(* A prefix that is no whole number counts as the next one.                  *)
LEMMA CountIs ==
    ASSUME NEW prefix \in 0..(Halves * Width)
    PROVE  /\ Compared(prefix) \in 0..Width /\ Count(prefix) = Width - Compared(prefix)
           /\ Compared(prefix) = 0 <=> prefix = 0
  BY WidthIs DEF Compared, Count, Halves

(* The mask has the bits from there on.                                      *)
LEMMA BitsOfMask ==
    ASSUME NEW prefix \in 0..(Halves * Width)
    PROVE  /\ Mask(prefix) \in Int
           /\ BitsOf(Mask(prefix)) = {j \in Places2 : j >= Width - Compared(prefix)}
  <1> DEFINE compared == Compared(prefix)
  <1>0. /\ compared \in 0..Width /\ Count(prefix) = Width - compared
        /\ compared = 0 <=> prefix = 0
    BY CountIs
  <1> HIDE DEF compared
  <1>1. CASE prefix = 0
    <2>1. Mask(prefix) = 0
      BY <1>1 DEF Mask
    <2>2. Unsigned(0) = 0
      BY UnsignedIs, SizeIs
    <2>3. \A i \in Places2 : (0 \div PowerOf2[i]) % 2 = 0
      <3> TAKE i \in Places2
      <3>1. PowerOf2[i] \in Nat /\ PowerOf2[i] > 0
        BY PowerIs, WidthIs DEF Places2
      <3>2. 0 \div PowerOf2[i] = 0
        BY <3>1
      <3> QED  BY <3>2
    <2>4. BitsOf(0) = {}
      BY <2>2, <2>3 DEF BitsOf, Places2
    <2>5. {j \in Places2 : j >= Width - compared} = {}
      BY <1>0, <1>1, WidthIs DEF Places2
    <2> QED  BY <2>1, <2>4, <2>5 DEF compared
  <1>2. CASE prefix # 0
    <2> DEFINE c == Width - compared
               d == PowerOf2[c]
               B == {j \in Places2 : j >= c}
    <2>1. c \in 0..(Width - 1) /\ c \in 0..Width /\ c % Width = c
      <3>1. c \in Nat /\ c < Width
        BY <1>0, <1>2, WidthIs
      <3>2. (Width * 0 + c) % Width = c /\ Width * 0 + c = c
        BY <3>1, WidthIs, DividedIs
      <3> QED  BY <3>1, <3>2, WidthIs
    <2>2. d \in Nat /\ d > 0 /\ d <= Size /\ Size \in Nat /\ Size > 0
      <3> DEFINE rest == PowerOf2[compared]
      <3>1. PowerOf2[c + compared] = d * rest /\ c + compared = Width
        BY <1>0, <2>1, PowersMultiply, WidthIs
      <3>2. rest \in Nat /\ rest > 0 /\ d \in Nat /\ d > 0
        BY <1>0, <2>1, PowerIs
      <3> HIDE DEF d, rest, c
      <3> QED  BY <3>1, <3>2, SizeIs DEF Size
    <2>3. Unsigned(-1) = Size - 1
      <3>1. (Size * (-1) + (Size - 1)) % Size = Size - 1
        BY SizeIs, DividedIs
      <3>2. Size * (-1) + (Size - 1) = -1
        BY SizeIs
      <3> QED  BY <3>1, <3>2 DEF Unsigned
    <2>4. Unsigned((Size - 1) * d) = Size - d
      <3> HIDE DEF d
      <3>1. Size - d \in Nat /\ Size - d < Size /\ d - 1 \in Int
        BY <2>2
      <3>2. (Size * (d - 1) + (Size - d)) % Size = Size - d
        BY <2>2, <3>1, DividedIs
      <3>3. \A u, v \in Nat : u * (v - 1) + (u - v) = (u - 1) * v
        OBVIOUS
      <3>4. Size * (d - 1) + (Size - d) = (Size - 1) * d
        BY <2>2, <3>3
      <3> QED  BY <3>2, <3>4 DEF Unsigned
    <2>5. Mask(prefix) = Size - d
      <3>1. (Size - 1) * d \in Int
        <4> HIDE DEF d
        <4> QED  BY <2>2
      <3>2. Shl(-1, c) = Signed((Size - 1) * d)
        BY <2>1, <2>3 DEF Shl
      <3>3. Unsigned(Signed((Size - 1) * d)) = Size - d
        BY <2>4, <3>1, UnsignedIs
      <3> QED  BY <1>0, <1>2, <3>2, <3>3 DEF Mask
    <2>6. \A n \in 0..Width : n >= c => Low(B, n) = PowerOf2[n] - d
      <3> DEFINE T == {n \in 0..Width : /\ n >= c => Low(B, n) = PowerOf2[n] - d
                                        /\ n < c => Low(B, n) = 0}
      <3>1. 0 \in T
        <4>1. Low(B, 0) = 0
          BY LowIs
        <4>2. 0 >= c => PowerOf2[0] - d = 0
          BY <2>1, PowerIs
        <4> QED  BY <4>1, <4>2, WidthIs
      <3>2. ASSUME NEW n \in 0..(Width - 1), n \in T PROVE n + 1 \in T
        <4>1. n + 1 \in 0..Width /\ n \in 0..Width /\ n \in Places2
          BY WidthIs DEF Places2
        <4>2. Low(B, n + 1) = Low(B, n) + (IF n \in B THEN PowerOf2[n] ELSE 0)
          BY <4>1, LowIs
        <4>3. PowerOf2[n + 1] = 2 * PowerOf2[n] /\ PowerOf2[n] \in Nat
          BY <4>1, PowerIs
        <4>4. CASE n >= c
          <5>1. n \in B /\ n + 1 >= c
            BY <2>1, <4>1, <4>4
          <5>2. Low(B, n) = PowerOf2[n] - d
            BY <3>2, <4>4
          <5>3. Low(B, n + 1) = PowerOf2[n + 1] - d
            <6> HIDE DEF B, d
            <6> QED  BY <2>2, <4>2, <4>3, <5>1, <5>2
          <5> QED  BY <2>1, <4>1, <5>1, <5>3
        <4>5. CASE n < c
          <5>1. n \notin B /\ Low(B, n) = 0
            BY <2>1, <3>2, <4>1, <4>5
          <5>2. Low(B, n + 1) = 0
            BY <4>2, <5>1
          <5>3. n + 1 >= c => n + 1 = c /\ PowerOf2[n + 1] - d = 0
            <6>1. n + 1 >= c => n + 1 = c
              BY <2>1, <4>1, <4>5
            <6> QED  BY <2>2, <6>1
          <5> QED  BY <4>1, <5>2, <5>3
        <4> QED  BY <2>1, <4>1, <4>4, <4>5
      <3> HIDE DEF T
      <3>3. \A n \in 0..Width : n \in T
        BY <3>1, <3>2, UpToWidth
      <3> QED  BY <3>3 DEF T
    <2>7. WithBits(B) = Signed(Size - d)
      <3>1. B \intersect 0..(Width - 1) = B /\ Width \in 0..Width /\ Width >= c
        BY <2>1, WidthIs DEF Places2
      <3>2. SumFunctionOnSet(PowerOf2, B) = Size - d
        BY <2>6, <3>1 DEF Low, Size
      <3> QED  BY <3>2 DEF WithBits
    <2>8. BitsOf(WithBits(B)) = B
      <3>1. B \in SUBSET Places2
        OBVIOUS
      <3> HIDE DEF B
      <3> QED  BY <3>1, BitsOfWithBits
    <2>9. Size - d \in Int
      BY <2>2
    <2>10. BitsOf(Signed(Size - d)) = BitsOf(Size - d)
      BY <2>9, BitsOfUnsigned
    <2> QED  BY <2>5, <2>7, <2>8, <2>9, <2>10 DEF compared
  <1> QED  BY <1>1, <1>2
-----------------------------------------------------------------------------
(* The bit of a dotted address at place j, from the least significant one.   *)
BitAt(parts, j) ==
    (Number(parts[Parts - (j \div PartBits)]) \div PowerOf2[j % PartBits]) % 2

(* A place is one in a part.                                                 *)
LEMMA PlaceIs ==
    ASSUME NEW i \in 1..Parts, NEW t \in 0..(PartBits - 1)
    PROVE  LET j == PartBits * (Parts - i) + t
           IN  /\ j \in Places2 /\ Parts - (j \div PartBits) = i /\ j % PartBits = t
               /\ PartBits * (Parts - i) \in 0..(Width - PartBits)
  <1> DEFINE q == Parts - i
             j == PartBits * q + t
  <1>1. q \in Nat /\ t \in Nat /\ t < PartBits /\ q <= Parts - 1 /\ Parts - q = i
    BY WidthIs
  <1> HIDE DEF q
  <1>2. j \div PartBits = q /\ j % PartBits = t
    BY <1>1, WidthIs, DividedIs
  <1>3. PartBits * q \in Nat /\ PartBits * q <= PartBits * (Parts - 1)
    BY <1>1, WidthIs
  <1>4. PartBits * (Parts - 1) = Width - PartBits
    BY WidthIs DEF Width
  <1>5. j \in Places2
    BY <1>1, <1>3, <1>4, WidthIs DEF Places2
  <1> QED  BY <1>1, <1>2, <1>3, <1>4, <1>5, WidthIs DEF q

LEMMA PlaceOf ==
    ASSUME NEW j \in Places2
    PROVE  LET i == Parts - (j \div PartBits)
               t == j % PartBits
           IN  /\ i \in 1..Parts /\ t \in 0..(PartBits - 1) /\ j = PartBits * (Parts - i) + t
  <1> DEFINE q == j \div PartBits
             t == j % PartBits
  <1>1. j \in Nat /\ j < PartBits * Parts
    BY WidthIs DEF Places2, Width
  <1>2. q \in Nat /\ t \in Nat /\ t < PartBits /\ j = PartBits * q + t
    <2>1. \A y \in Nat : /\ y \div PartBits \in Nat /\ y % PartBits \in Nat /\ y % PartBits < PartBits
                        /\ y = PartBits * (y \div PartBits) + (y % PartBits)
      BY WidthIs
    <2> QED  BY <1>1, <2>1
  <1> HIDE DEF q, t
  <1>3. q < Parts
    <2>1. PartBits * q < PartBits * Parts
      BY <1>1, <1>2, WidthIs
    <2>2. \A m, n \in Int : PartBits * m < PartBits * n => m < n
      BY WidthIs
    <2> QED  BY <1>2, <2>1, <2>2, WidthIs
  <1>4. Parts - q \in 1..Parts /\ Parts - (Parts - q) = q
    BY <1>2, <1>3, WidthIs
  <1> QED  BY <1>2, <1>4, WidthIs DEF q, t

LEMMA PowerGrows ==
    ASSUME NEW a \in 0..Width, NEW b \in 0..Width, a <= b
    PROVE  PowerOf2[a] <= PowerOf2[b]
  <1>1. b - a \in Nat /\ b - a \in 0..Width /\ a + (b - a) = b /\ a \in Nat
    BY WidthIs
  <1>2. PowerOf2[a + (b - a)] = PowerOf2[a] * PowerOf2[b - a]
    BY <1>1, PowersMultiply, WidthIs
  <1>3. /\ PowerOf2[a] \in Nat /\ PowerOf2[b - a] \in Nat /\ PowerOf2[b - a] > 0
    BY <1>1, PowerIs
  <1>4. \A u, v \in Nat : v > 0 => u <= u * v
    OBVIOUS
  <1> QED  BY <1>1, <1>2, <1>3, <1>4

LEMMA DottedParts ==
    ASSUME NEW parts \in Seq(Int), IsDotted(parts), NEW i \in 1..Parts
    PROVE  Number(parts[i]) \in 0..(PartSize - 1)
  <1>1. Len(parts) = Parts /\ DOMAIN parts = 1..Len(parts)
    BY DEF IsDotted
  <1> QED  BY <1>1 DEF IsDotted

LEMMA BitsOfJoined ==
    ASSUME NEW parts \in Seq(Int), IsDotted(parts)
    PROVE  /\ Joined(parts) \in Int
           /\ BitsOf(Joined(parts)) = {j \in Places2 : BitAt(parts, j) = 1}
  <1> DEFINE p(i) == Number(parts[i])
             s(i) == PartBits * (Parts - i)
             S(i) == BitsOf(Shl(p(i), s(i)))
             B == {j \in Places2 : BitAt(parts, j) = 1}
  <1>1. ASSUME NEW i \in 1..Parts
        PROVE  /\ p(i) \in 0..(PartSize - 1) /\ s(i) \in 0..(Width - PartBits)
               /\ S(i) = {j \in Places2 : j >= s(i) /\ (p(i) \div PowerOf2[j - s(i)]) % 2 = 1}
    <2>1. p(i) \in 0..(PartSize - 1)
      BY DottedParts
    <2>2. s(i) \in 0..(Width - PartBits)
      <3>1. 0 \in 0..(PartBits - 1)
        BY WidthIs
      <3> QED  BY <3>1, PlaceIs
    <2> HIDE DEF p, s
    <2>3. BitsOf(Shl(p(i), s(i))) =
            {j \in Places2 : j >= s(i) /\ (p(i) \div PowerOf2[j - s(i)]) % 2 = 1}
      BY <2>1, <2>2, BitsOfShl
    <2> QED  BY <2>1, <2>2, <2>3
  <1>2. ASSUME NEW j \in Places2
        PROVE  j \in B <=> \E i \in 1..Parts : j \in S(i)
    <2> DEFINE k == Parts - (j \div PartBits)
               t == j % PartBits
    <2>1. k \in 1..Parts /\ t \in 0..(PartBits - 1) /\ j = s(k) + t
      BY PlaceOf
    <2>2. j \in B <=> (p(k) \div PowerOf2[t]) % 2 = 1
      BY DEF BitAt
    <2>3. s(k) \in Nat /\ j - s(k) = t /\ j >= s(k)
      <3>1. s(k) \in 0..(Width - PartBits)
        BY <1>1, <2>1
      <3> HIDE DEF s, k, t
      <3> QED  BY <2>1, <3>1, WidthIs
    <2>4. j \in B <=> j \in S(k)
      <3>1. j \in S(k) <=> (p(k) \div PowerOf2[j - s(k)]) % 2 = 1
        <4> HIDE DEF S, p, s, k, t
        <4> QED  BY <1>1, <2>1, <2>3
      <3> HIDE DEF S, p, s, k, t, B
      <3> QED  BY <2>2, <2>3, <3>1
    <2>5. ASSUME NEW i \in 1..Parts, j \in S(i)
          PROVE  i = k
      <3> DEFINE n == j - s(i)
      <3>1. /\ p(i) \in 0..(PartSize - 1) /\ s(i) \in 0..(Width - PartBits)
            /\ j >= s(i) /\ (p(i) \div PowerOf2[j - s(i)]) % 2 = 1
        <4> HIDE DEF S, p, s
        <4> QED  BY <1>1, <2>5
      <3>2. n \in Nat /\ n \in 0..Width
        <4> HIDE DEF s, p
        <4> QED  BY <3>1, WidthIs DEF Places2
      <3>3. CASE n >= PartBits
        <4>1. PartSize <= PowerOf2[n]
          BY <3>2, <3>3, PowerGrows, WidthIs DEF PartSize
        <4>2. PowerOf2[n] \in Nat /\ PowerOf2[n] > 0 /\ PartSize \in Nat
          BY <3>2, PowerIs, WidthIs DEF PartSize
        <4>3. p(i) \in Nat /\ p(i) < PowerOf2[n]
          <5> HIDE DEF p, n
          <5> QED  BY <3>1, <4>1, <4>2
        <4> HIDE DEF p, n
        <4>4. (PowerOf2[n] * 0 + p(i)) \div PowerOf2[n] = 0 /\ PowerOf2[n] * 0 + p(i) = p(i)
          <5>1. \A d \in Nat, r \in Nat : d > 0 /\ r < d => (d * 0 + r) \div d = 0
            <6>1. 0 \in Int
              OBVIOUS
            <6> QED  BY <6>1, DividedIs
          <5>2. \A d \in Nat, r \in Nat : d * 0 + r = r
            OBVIOUS
          <5> QED  BY <4>2, <4>3, <5>1, <5>2
        <4>5. p(i) \div PowerOf2[n] = 0
          BY <4>4
        <4> QED  BY <3>1, <4>5 DEF n
      <3>4. CASE n < PartBits
        <4>1. n \in 0..(PartBits - 1) /\ j = s(i) + n
          <5> HIDE DEF s, p
          <5> QED  BY <3>1, <3>2, <3>4, WidthIs DEF Places2
        <4>2. Parts - ((s(i) + n) \div PartBits) = i
          <5> HIDE DEF n
          <5> QED  BY <4>1, PlaceIs
        <4> QED  BY <4>1, <4>2
      <3>5. PartBits \in Nat
        BY WidthIs
      <3> HIDE DEF n
      <3> QED  BY <3>2, <3>3, <3>4, <3>5
    <2> HIDE DEF B, S, k
    <2> QED  BY <2>1, <2>4, <2>5
  <1>3. UNION {S(i) : i \in 1..Parts} = B
    <2>1. \A i \in 1..Parts : S(i) \subseteq Places2
      <3> HIDE DEF S, p, s
      <3> QED  BY <1>1
    <2>2. B \subseteq Places2
      OBVIOUS
    <2> HIDE DEF S, B
    <2> QED  BY <1>2, <2>1, <2>2
  <1>4. Joined(parts) = WithBits(UNION {S(i) : i \in 1..Parts})
    BY DEF Joined
  <1>5. B \in SUBSET Places2
    OBVIOUS
  <1> HIDE DEF S, B
  <1> QED  BY <1>3, <1>4, <1>5, BitsOfWithBits DEF B

(* IpToInt reads the dotted addresses.                                       *)
LEMMA IpToIntIs ==
    ASSUME NEW ip \in Iplike
    PROVE  /\ IpToInt(ip) # -1 <=> ~ip.mapped /\ IsDotted(ip.parts)
           /\ IpToInt(ip) # -1 =>
                /\ IpToInt(ip) \in Int
                /\ BitsOf(IpToInt(ip)) = {j \in Places2 : BitAt(ip.parts, j) = 1}
  <1>1. ip.mapped \in BOOLEAN /\ ip.parts \in Seq(Int)
    BY DEF Iplike
  <1>2. PartSize \in Int
    BY PowerIs, WidthIs DEF PartSize
  <1>3. \A i \in DOMAIN ip.parts : Number(ip.parts[i]) \in Int
    BY <1>1 DEF Number
  <1>4. IsDotted(ip.parts) <=>
          ~(\/ Len(ip.parts) # Parts
            \/ \E i \in DOMAIN ip.parts :
                 Number(ip.parts[i]) < 0 \/ Number(ip.parts[i]) >= PartSize)
    BY <1>2, <1>3 DEF IsDotted
  <1>5. CASE ~ip.mapped /\ IsDotted(ip.parts)
    <2>1. IpToInt(ip) = Unsigned(Joined(ip.parts))
      BY <1>4, <1>5 DEF IpToInt
    <2>2. /\ Joined(ip.parts) \in Int
          /\ BitsOf(Joined(ip.parts)) = {j \in Places2 : BitAt(ip.parts, j) = 1}
      BY <1>1, <1>5, BitsOfJoined
    <2>3. IpToInt(ip) \in 0..(Size - 1) /\ BitsOf(IpToInt(ip)) = BitsOf(Joined(ip.parts))
      BY <2>1, <2>2, UnsignedIs, BitsOfUnsigned
    <2>4. IpToInt(ip) # -1 /\ IpToInt(ip) \in Int
      BY <2>3, SizeIs
    <2> QED  BY <1>5, <2>2, <2>3, <2>4
  <1>6. CASE ~(~ip.mapped /\ IsDotted(ip.parts))
    <2>1. IpToInt(ip) = -1
      BY <1>4, <1>6 DEF IpToInt
    <2> QED  BY <1>6, <2>1
  <1> QED  BY <1>5, <1>6
-----------------------------------------------------------------------------
(* An entry of the blocklist matches whom it names.                          *)
Entrylike == [type : {"exact"}, addr : Iplike] \union [type : {"cidr"}, addr : Iplike, prefix : Int]

(* The k-th bit from the front is at the place that many from the end.       *)
LEMMA FrontBits ==
    ASSUME NEW parts, NEW k \in 0..(Width - 1)
    PROVE  Width - 1 - k \in Places2 /\ BitOf(parts, k) = BitAt(parts, Width - 1 - k)
  <1> DEFINE j == Width - 1 - k
             i == Parts - (j \div PartBits)
             t == j % PartBits
  <1>1. j \in Places2
    BY WidthIs DEF Places2
  <1>2. i \in 1..Parts /\ t \in 0..(PartBits - 1) /\ j = PartBits * (Parts - i) + t
    BY <1>1, PlaceOf
  <1> HIDE DEF i, t
  <1>3. k = PartBits * (i - 1) + (PartBits - 1 - t)
    <2>1. \A u, v, w \in Int : u * v - 1 - (u * (v - w) + t) = u * (w - 1) + (u - 1 - t)
      BY <1>2, WidthIs
    <2>2. k = Width - 1 - j
      BY WidthIs
    <2>3. k = PartBits * Parts - 1 - (PartBits * (Parts - i) + t)
      BY <1>2, <2>2 DEF Width
    <2>4. PartBits \in Int /\ Parts \in Int /\ i \in Int
      BY <1>2, WidthIs
    <2> QED  BY <2>1, <2>3, <2>4
  <1>4. k \div PartBits = i - 1 /\ k % PartBits = PartBits - 1 - t
    <2>1. i - 1 \in Int /\ PartBits - 1 - t \in Nat /\ PartBits - 1 - t < PartBits
      BY <1>2, WidthIs
    <2> QED  BY <1>3, <2>1, WidthIs, DividedIs
  <1>5. k \div PartBits + 1 = i /\ PartBits - 1 - (k % PartBits) = t
    BY <1>2, <1>4, WidthIs
  <1>6. BitOf(parts, k) = (Number(parts[i]) \div PowerOf2[t]) % 2
    BY <1>5 DEF BitOf
  <1>7. BitAt(parts, j) = (Number(parts[i]) \div PowerOf2[t]) % 2
    BY DEF BitAt, i, t
  <1> QED  BY <1>1, <1>6, <1>7

LEMMA BitsAreBits ==
    ASSUME NEW parts \in Seq(Int), IsDotted(parts), NEW j \in Places2
    PROVE  BitAt(parts, j) \in {0, 1}
  <1>1. Parts - (j \div PartBits) \in 1..Parts /\ j % PartBits \in 0..(PartBits - 1)
    BY PlaceOf
  <1>2. Number(parts[Parts - (j \div PartBits)]) \in Int
    BY <1>1, DottedParts
  <1>3. PowerOf2[j % PartBits] \in Nat /\ PowerOf2[j % PartBits] > 0
    BY <1>1, PowerIs, WidthIs
  <1>4. \A x \in Int, d \in Nat : d > 0 => (x \div d) % 2 \in {0, 1}
    <2> TAKE x \in Int, d \in Nat
    <2>1. d > 0 => x \div d \in Int
      BY Divided
    <2> QED  BY <2>1
  <1> QED  BY <1>2, <1>3, <1>4 DEF BitAt

(* Masks leave the first bits, and these decide.                             *)
LEMMA MaskedAgree ==
    ASSUME NEW m \in Int, NEW n \in Int, NEW prefix \in 0..(Halves * Width)
    PROVE  Unsigned(Masked(m, Mask(prefix))) = Unsigned(Masked(n, Mask(prefix)))
             <=> \A j \in Places2 : j >= Width - Compared(prefix) => (j \in BitsOf(m) <=> j \in BitsOf(n))
  <1> DEFINE F == {j \in Places2 : j >= Width - Compared(prefix)}
             M == BitsOf(m) \intersect F
             N == BitsOf(n) \intersect F
  <1>1. BitsOf(Mask(prefix)) = F
    BY BitsOfMask
  <1>2. Masked(m, Mask(prefix)) = WithBits(M) /\ Masked(n, Mask(prefix)) = WithBits(N)
    BY <1>1 DEF Masked
  <1>3. M \in SUBSET Places2 /\ N \in SUBSET Places2
    OBVIOUS
  <1>4. M = N <=> \A j \in Places2 : j >= Width - Compared(prefix) => (j \in BitsOf(m) <=> j \in BitsOf(n))
    OBVIOUS
  <1> HIDE DEF M, N, F
  <1>5. /\ WithBits(M) \in Int /\ BitsOf(WithBits(M)) = M
        /\ WithBits(N) \in Int /\ BitsOf(WithBits(N)) = N
    BY <1>3, BitsOfWithBits
  <1>6. BitsOf(Unsigned(WithBits(M))) = M /\ BitsOf(Unsigned(WithBits(N))) = N
    BY <1>5, BitsOfUnsigned
  <1> QED  BY <1>2, <1>4, <1>6

LEMMA MatchesNamed ==
    ASSUME NEW entry \in Entrylike, NEW ip \in Iplike, ~ip.mapped
    PROVE  Valid(entry) /\ Matches(Parsed(entry), ip) <=> Names(entry, ip)
  <1> DEFINE addr == entry.addr
             prefix == Number(entry.prefix)
  <1>1. addr \in Iplike /\ entry.type \in {"exact", "cidr"}
    BY DEF Entrylike
  <1>2. CASE entry.type = "exact"
    <2> DEFINE plain == NormalizeIp(addr)
    <2>1. plain \in Iplike /\ plain.parts = addr.parts /\ plain.mapped = FALSE
      BY <1>1 DEF NormalizeIp, Address, Iplike
    <2>2. Valid(entry) <=> IsDotted(addr.parts)
      BY <1>2, <2>1, IpToIntIs DEF Valid
    <2>3. Matches(Parsed(entry), ip) <=> ip = plain
      BY <1>2 DEF Matches, Parsed
    <2>4. ip = plain <=> ip.parts = addr.parts
      BY <2>1 DEF Iplike
    <2> QED  BY <1>2, <2>2, <2>3, <2>4 DEF Names
  <1>3. CASE entry.type = "cidr"
    <2>1. Valid(entry) <=> prefix \in 0..(Halves * Width) /\ ~addr.mapped /\ IsDotted(addr.parts)
      BY <1>1, <1>3, IpToIntIs DEF Valid
    <2>2. IpToInt(ip) # -1 <=> IsDotted(ip.parts)
      BY IpToIntIs
    <2>3. Matches(Parsed(entry), ip) <=>
            /\ IpToInt(ip) # -1
            /\ Unsigned(Masked(IpToInt(ip), Mask(prefix)))
                 = Unsigned(Masked(IpToInt(addr), Mask(prefix)))
      BY <1>3 DEF Matches, Parsed
    <2>4. ASSUME prefix \in 0..(Halves * Width), ~addr.mapped, IsDotted(addr.parts), IsDotted(ip.parts)
          PROVE  Unsigned(Masked(IpToInt(ip), Mask(prefix)))
                     = Unsigned(Masked(IpToInt(addr), Mask(prefix)))
                   <=> \A k \in 0..(Compared(prefix) - 1) : BitOf(addr.parts, k) = BitOf(ip.parts, k)
      <3>1. /\ IpToInt(ip) \in Int /\ IpToInt(addr) \in Int
            /\ BitsOf(IpToInt(ip)) = {j \in Places2 : BitAt(ip.parts, j) = 1}
            /\ BitsOf(IpToInt(addr)) = {j \in Places2 : BitAt(addr.parts, j) = 1}
        BY <1>1, <2>2, <2>4, IpToIntIs
      <3>2. ip.parts \in Seq(Int) /\ addr.parts \in Seq(Int)
        BY <1>1 DEF Iplike
      <3>3. \A j \in Places2 : BitAt(ip.parts, j) \in {0, 1} /\ BitAt(addr.parts, j) \in {0, 1}
        BY <2>4, <3>2, BitsAreBits
      <3> HIDE DEF addr, prefix
      <3>4. Unsigned(Masked(IpToInt(ip), Mask(prefix))) = Unsigned(Masked(IpToInt(addr), Mask(prefix)))
              <=> \A j \in Places2 : j >= Width - Compared(prefix) =>
                    (j \in BitsOf(IpToInt(ip)) <=> j \in BitsOf(IpToInt(addr)))
        BY <2>4, <3>1, MaskedAgree
      <3>5. (\A j \in Places2 : j >= Width - Compared(prefix) =>
                    (j \in BitsOf(IpToInt(ip)) <=> j \in BitsOf(IpToInt(addr))))
              <=> \A j \in Places2 : j >= Width - Compared(prefix) => BitAt(ip.parts, j) = BitAt(addr.parts, j)
        BY <3>1, <3>3
      <3>6. (\A j \in Places2 : j >= Width - Compared(prefix) => BitAt(ip.parts, j) = BitAt(addr.parts, j))
              <=> \A k \in 0..(Compared(prefix) - 1) : BitOf(addr.parts, k) = BitOf(ip.parts, k)
        <4>1. ASSUME \A j \in Places2 : j >= Width - Compared(prefix) => BitAt(ip.parts, j) = BitAt(addr.parts, j),
                     NEW k \in 0..(Compared(prefix) - 1)
              PROVE  BitOf(addr.parts, k) = BitOf(ip.parts, k)
          <5>1. k \in 0..(Width - 1) /\ Width - 1 - k >= Width - Compared(prefix)
            BY <2>4, CountIs, WidthIs
          <5> QED  BY <4>1, <5>1, FrontBits
        <4>2. ASSUME \A k \in 0..(Compared(prefix) - 1) : BitOf(addr.parts, k) = BitOf(ip.parts, k),
                     NEW j \in Places2, j >= Width - Compared(prefix)
              PROVE  BitAt(ip.parts, j) = BitAt(addr.parts, j)
          <5> DEFINE k == Width - 1 - j
          <5>1. k \in 0..(Width - 1) /\ k \in 0..(Compared(prefix) - 1) /\ Width - 1 - k = j
            BY <2>4, <4>2, CountIs, WidthIs DEF Places2
          <5> HIDE DEF k
          <5>2. BitOf(addr.parts, k) = BitAt(addr.parts, j) /\ BitOf(ip.parts, k) = BitAt(ip.parts, j)
            BY <5>1, FrontBits
          <5> QED  BY <4>2, <5>1, <5>2
        <4> QED  BY <4>1, <4>2
      <3> QED  BY <3>4, <3>5, <3>6
    <2>5. Names(entry, ip) <=>
            /\ prefix \in 0..(Halves * Width) /\ ~addr.mapped
            /\ IsDotted(addr.parts) /\ IsDotted(ip.parts)
            /\ \A k \in 0..(Compared(prefix) - 1) : BitOf(addr.parts, k) = BitOf(ip.parts, k)
      BY <1>3 DEF Names
    <2> HIDE DEF addr, prefix
    <2> QED  BY <2>1, <2>2, <2>3, <2>4, <2>5
  <1> QED  BY <1>1, <1>2, <1>3

(* Of a sequence, what is kept, and what became of it.                       *)
LEMMA KeptThere ==
    ASSUME NEW S, NEW s \in Seq(S), NEW K
    PROVE  LET t == Kept(s, K)
           IN  /\ t \in Seq(S)
               /\ \A i \in DOMAIN t : t[i] \in K /\ \E j \in DOMAIN s : t[i] = s[j]
               /\ \A j \in DOMAIN s : s[j] \in K => \E i \in DOMAIN t : t[i] = s[j]
  <1> DEFINE t == Kept(s, K)
  <1>1. t \in Seq(S)
    BY KeptPlaces
  <1>2. PICK place : Places(s, K, t, Len(s), place)
    BY KeptPlaces
  <1>3. DOMAIN t = 1..Len(t) /\ DOMAIN s = 1..Len(s)
    BY <1>1
  <1> HIDE DEF t
  <1>4. /\ \A i \in DOMAIN t : place[i] \in DOMAIN s /\ t[i] = s[place[i]] /\ t[i] \in K
        /\ \A j \in DOMAIN s : s[j] \in K => \E i \in DOMAIN t : place[i] = j
    BY <1>2, <1>3 DEF Places
  <1>5. /\ \A i \in DOMAIN t : t[i] \in K /\ \E j \in DOMAIN s : t[i] = s[j]
        /\ \A j \in DOMAIN s : s[j] \in K => \E i \in DOMAIN t : t[i] = s[j]
    BY <1>4
  <1> QED  BY <1>1, <1>5 DEF t

LEMMA BlockedNamed ==
    ASSUME NEW list \in Seq(Entrylike), NEW ip \in Iplike, ~ip.mapped
    PROVE  IsBlocked(list, ip) <=> \E i \in DOMAIN list : Names(list[i], ip)
  <1> DEFINE K == {entry \in ToSet(list) : Valid(entry)}
             kept == Kept(list, K)
  <1>1. /\ kept \in Seq(Entrylike)
        /\ \A i \in DOMAIN kept : kept[i] \in K /\ \E j \in DOMAIN list : kept[i] = list[j]
        /\ \A j \in DOMAIN list : list[j] \in K => \E i \in DOMAIN kept : kept[i] = list[j]
    <2> HIDE DEF K
    <2> QED  BY KeptThere
  <1>2. \A j \in DOMAIN list : list[j] \in K <=> Valid(list[j])
    BY DEF ToSet
  <1>3. /\ DOMAIN ParsedBlocklist(list) = DOMAIN kept
        /\ \A i \in DOMAIN kept : ParsedBlocklist(list)[i] = Parsed(kept[i])
    BY DEF ParsedBlocklist
  <1>4. \A j \in DOMAIN list : list[j] \in Entrylike
    OBVIOUS
  <1> HIDE DEF K, kept
  <1>5. IsBlocked(list, ip) <=> \E i \in DOMAIN kept : Matches(Parsed(kept[i]), ip)
    BY <1>3 DEF IsBlocked
  <1>6. (\E i \in DOMAIN kept : Matches(Parsed(kept[i]), ip))
          <=> \E j \in DOMAIN list : Valid(list[j]) /\ Matches(Parsed(list[j]), ip)
    <2>1. ASSUME NEW i \in DOMAIN kept, Matches(Parsed(kept[i]), ip)
          PROVE  \E j \in DOMAIN list : Valid(list[j]) /\ Matches(Parsed(list[j]), ip)
      <3>1. PICK j \in DOMAIN list : kept[i] = list[j]
        BY <1>1
      <3> QED  BY <1>1, <1>2, <2>1, <3>1
    <2>2. ASSUME NEW j \in DOMAIN list, Valid(list[j]), Matches(Parsed(list[j]), ip)
          PROVE  \E i \in DOMAIN kept : Matches(Parsed(kept[i]), ip)
      <3>1. PICK i \in DOMAIN kept : kept[i] = list[j]
        BY <1>1, <1>2, <2>2
      <3> QED  BY <2>2, <3>1
    <2> QED  BY <2>1, <2>2
  <1>7. \A j \in DOMAIN list : Valid(list[j]) /\ Matches(Parsed(list[j]), ip) <=> Names(list[j], ip)
    BY <1>4, MatchesNamed
  <1> QED  BY <1>5, <1>6, <1>7

(* When the last of a sequence are all kept, each stays where it is, counted *)
(* from the end.                                                             *)
LEMMA LastKept ==
    ASSUME NEW S, NEW s \in Seq(S), NEW K, NEW d \in Nat, d > 0, d <= Len(s),
           \A j \in (Len(s) - d + 1)..Len(s) : s[j] \in K
    PROVE  LET t == Kept(s, K)
           IN  Len(t) >= d /\ t[Len(t) - d + 1] = s[Len(s) - d + 1]
  <1> DEFINE t == Kept(s, K)
             n == Len(s)
             m == Len(t)
  <1>1. t \in Seq(S) /\ m \in Nat /\ n \in Nat
    BY KeptPlaces
  <1>2. PICK place : Places(s, K, t, n, place)
    BY KeptPlaces
  <1>3. /\ place \in [1..m -> 1..n]
        /\ \A i \in 1..m : t[i] = s[place[i]]
        /\ \A i, j \in 1..m : i < j => place[i] < place[j]
        /\ \A j \in 1..n : s[j] \in K => \E i \in 1..m : place[i] = j
    BY <1>2 DEF Places
  <1> HIDE DEF t, m, n
  <1> DEFINE There(k) == k \in Nat /\ k < d => m - k \in 1..m /\ place[m - k] = n - k
             T == {k \in Nat : ~There(k)}
  <1>4. \A j \in (n - d + 1)..n : j \in 1..n /\ s[j] \in K
    BY <1>1 DEF n
  <1>5. ASSUME NEW k \in Nat, \A l \in Nat : l < k => There(l)
        PROVE  There(k)
    <2>1. SUFFICES ASSUME k < d PROVE m - k \in 1..m /\ place[m - k] = n - k
      OBVIOUS
    <2>2. PICK i \in 1..m : place[i] = n - k
      <3>1. n - k \in (n - d + 1)..n
        BY <1>1, <2>1
      <3> QED  BY <1>3, <1>4, <3>1
    <2>3. k > 0 => m - (k - 1) \in 1..m /\ place[m - (k - 1)] = n - (k - 1)
      BY <1>5, <2>1
    <2>4. i <= m - k
      <3>1. CASE k = 0
        BY <1>1, <2>2, <3>1
      <3>2. CASE k > 0
        <4>1. ASSUME i >= m - (k - 1) PROVE FALSE
          <5>1. place[i] >= place[m - (k - 1)]
            <6>1. CASE i = m - (k - 1)
              BY <2>3, <3>2, <6>1, <1>1
            <6>2. CASE i > m - (k - 1)
              BY <1>1, <1>3, <2>2, <2>3, <3>2, <6>2
            <6> QED  BY <1>1, <4>1, <6>1, <6>2
          <5> QED  BY <1>1, <2>2, <2>3, <3>2, <5>1
        <4> QED  BY <1>1, <2>2, <4>1
      <3> QED  BY <3>1, <3>2
    <2>5. m - k \in 1..m
      BY <1>1, <2>2, <2>4
    <2>6. ASSUME i < m - k PROVE FALSE
      <3>1. place[m - k] > n - k /\ place[m - k] \in 1..n
        BY <1>1, <1>3, <2>2, <2>5, <2>6
      <3>2. CASE k = 0
        BY <1>1, <3>1, <3>2
      <3>3. CASE k > 0
        <4>1. place[m - k] < place[m - (k - 1)]
          BY <1>1, <1>3, <2>3, <2>5, <3>3
        <4> QED  BY <1>1, <2>3, <3>1, <3>3, <4>1
      <3> QED  BY <3>2, <3>3
    <2>7. i = m - k
      BY <1>1, <2>4, <2>6
    <2> QED  BY <2>2, <2>5, <2>7
  <1>6. T = {}
    <2>1. SUFFICES ASSUME T # {} PROVE FALSE
      OBVIOUS
    <2>2. PICK k \in T : \A l \in T : k <= l
      BY <2>1, LeastOf
    <2>3. \A l \in Nat : l < k => There(l)
      BY <2>2
    <2> QED  BY <1>5, <2>2, <2>3
  <1>7. There(d - 1)
    BY <1>6
  <1>8. m - (d - 1) \in 1..m /\ place[m - (d - 1)] = n - (d - 1)
    BY <1>7
  <1>9. m >= d /\ m - (d - 1) = m - d + 1 /\ n - (d - 1) = n - d + 1
    BY <1>1, <1>8
  <1> QED  BY <1>3, <1>8, <1>9 DEF t, m, n

-----------------------------------------------------------------------------
(* The client's address.                                                     *)

LEMMA FromTheRightIs ==
    ASSUME NEW S, NEW ips \in Seq(S), NEW depth \in Nat, depth > 0, ips # <<>>
    PROVE  /\ \E i \in DOMAIN ips : FromTheRight(ips, depth) = ips[i]
           /\ Len(ips) >= depth => FromTheRight(ips, depth) = ips[Len(ips) - depth + 1]
  <1> DEFINE i == (IF Len(ips) > depth THEN Len(ips) - depth ELSE 0) + 1
  <1>1. Len(ips) \in Nat /\ Len(ips) > 0 /\ DOMAIN ips = 1..Len(ips)
    OBVIOUS
  <1>2. i \in DOMAIN ips /\ (Len(ips) >= depth => i = Len(ips) - depth + 1)
    BY <1>1
  <1>3. FromTheRight(ips, depth) = ips[i]
    BY DEF FromTheRight
  <1> HIDE DEF i
  <1> QED  BY <1>2, <1>3

LEMMA ListedIs ==
    ASSUME NEW forwarded \in Seq(Iplike)
    PROVE  /\ Listed(forwarded) \in Seq(Iplike)
           /\ \A i \in DOMAIN Listed(forwarded) : Listed(forwarded)[i] # Nothing
           /\ forwarded \in {Absent, <<Nothing>>} => Listed(forwarded) = <<>>
  <1> DEFINE K == ToSet(forwarded) \ {Nothing}
             t == Kept(forwarded, K)
  <1>1. /\ t \in Seq(Iplike)
        /\ \A i \in DOMAIN t : t[i] \in K /\ \E j \in DOMAIN forwarded : t[i] = forwarded[j]
    <2> HIDE DEF K
    <2> QED  BY KeptThere
  <1>2. \A i \in DOMAIN t : t[i] # Nothing
    BY <1>1
  <1>3. ASSUME forwarded \in {Absent, <<Nothing>>}
        PROVE  t = <<>>
    <2>1. \A j \in DOMAIN forwarded : forwarded[j] = Nothing
      BY <1>3 DEF Absent
    <2>2. DOMAIN t = {}
      <3> HIDE DEF K, t
      <3> QED  BY <1>1, <1>2, <2>1
    <2>3. Len(t) \in Nat /\ DOMAIN t = 1..Len(t)
      BY <1>1
    <2>4. Len(t) = 0
      <3> HIDE DEF t
      <3> QED  BY <2>2, <2>3
    <2> QED  BY <1>1, <2>4
  <1> QED  BY <1>1, <1>2, <1>3 DEF Listed

LEMMA NormalizedOnce ==
    ASSUME NEW ip
    PROVE  NormalizeIp(NormalizeIp(ip)) = NormalizeIp(ip)
  BY DEF NormalizeIp, Address

(* The header is not empty and names somebody: both copies take the same.    *)
LEMMA SameAddress ==
    ASSUME NEW forwarded \in Seq(Iplike), NEW socket \in Iplike, NEW depth \in Nat
    PROVE  LET http == GetClientIp(forwarded, socket, depth)
               upgrade == GetUpgradeIp(forwarded, socket, depth)
           IN  /\ http # Nothing => upgrade = http
               /\ http = Nothing => upgrade \in {Nothing, NormalizeIp(socket)}
  <1> DEFINE ips == Listed(forwarded)
             ip == FromTheRight(ips, depth)
  <1>1. /\ ips \in Seq(Iplike) /\ \A i \in DOMAIN ips : ips[i] # Nothing
        /\ forwarded \in {Absent, <<Nothing>>} => ips = <<>>
    BY ListedIs
  <1>2. ips = <<>> => ip = Nothing
    BY DEF FromTheRight
  <1>3. depth # 0 /\ ips # <<>> => ip # Nothing
    <2> HIDE DEF ips, ip
    <2>1. SUFFICES ASSUME depth > 0, ips # <<>> PROVE FromTheRight(ips, depth) # Nothing
      BY DEF ip
    <2> QED  BY <1>1, <2>1, FromTheRightIs
  <1>4. NormalizeIp(Nothing) = Nothing
    BY DEF NormalizeIp, Nothing, Address
  <1>5. /\ GetClientIp(forwarded, socket, depth)
             = IF depth = 0 \/ forwarded \in {Absent, <<Nothing>>}
               THEN NormalizeIp(socket) ELSE NormalizeIp(ip)
        /\ GetUpgradeIp(forwarded, socket, depth)
             = NormalizeIp(IF depth = 0 \/ forwarded = Absent \/ ip = Nothing
                           THEN socket ELSE ip)
    BY DEF GetClientIp, GetUpgradeIp
  <1> HIDE DEF ips, ip
  <1>6. CASE depth = 0 \/ forwarded \in {Absent, <<Nothing>>}
    BY <1>1, <1>2, <1>5, <1>6
  <1>7. CASE ~(depth = 0 \/ forwarded \in {Absent, <<Nothing>>})
    BY <1>1, <1>2, <1>3, <1>4, <1>5, <1>7
  <1> QED  BY <1>6, <1>7

LEMMA SameVerdict ==
    ASSUME NEW list, NEW ip, ip # Nothing, NormalizeIp(ip) = ip
    PROVE  /\ UpgradeVerdict(list, ip) = HttpVerdict(list, ip)
           /\ HttpVerdict(list, ip) = IF IsBlocked(list, ip) THEN "403" ELSE "next"
  <1>1. ParsedBlocklist(list) = <<>> => ~IsBlocked(list, ip)
    BY DEF IsBlocked
  <1> QED  BY <1>1 DEF UpgradeVerdict, HttpVerdict

LEMMA FirstPeerTaken ==
    ASSUME NEW forwarded \in Seq(Iplike), NEW socket \in Iplike, NEW depth \in Nat,
           depth > 0, Len(forwarded) >= depth,
           \A j \in (Len(forwarded) - depth + 1)..Len(forwarded) : forwarded[j] # Nothing
    PROVE  GetClientIp(forwarded, socket, depth)
             = NormalizeIp(forwarded[Len(forwarded) - depth + 1])
  <1> DEFINE n == Len(forwarded)
             K == ToSet(forwarded) \ {Nothing}
             t == Listed(forwarded)
  <1>1. n \in Nat /\ n >= depth /\ DOMAIN forwarded = 1..n
    OBVIOUS
  <1>2. \A j \in (n - depth + 1)..n : forwarded[j] \in K
    BY <1>1 DEF ToSet
  <1>3. t \in Seq(Iplike) /\ (forwarded \in {Absent, <<Nothing>>} => t = <<>>)
    BY ListedIs
  <1>4. Len(t) >= depth /\ t[Len(t) - depth + 1] = forwarded[n - depth + 1]
    <2> HIDE DEF K
    <2> QED  BY <1>1, <1>2, LastKept DEF Listed, K
  <1>5. t # <<>>
    BY <1>4
  <1> HIDE DEF t, n
  <1>6. FromTheRight(t, depth) = forwarded[n - depth + 1]
    BY <1>3, <1>4, <1>5, FromTheRightIs
  <1>7. ~(depth = 0 \/ forwarded \in {Absent, <<Nothing>>})
    BY <1>3, <1>5
  <1> QED  BY <1>6, <1>7 DEF GetClientIp, t, n

-----------------------------------------------------------------------------
(* The candles.                                                              *)

(* The multiples of a number are that number apart.                          *)
LEMMA MultiplesApart ==
    ASSUME NEW d \in Nat, d > 0, NEW u \in Int, NEW v \in Int, d * u < d * v
    PROVE  d * u + d <= d * v
  <1>1. u < v
    <2>1. ASSUME v <= u PROVE FALSE
      <3>1. d * v <= d * u
        BY <2>1
      <3>2. d * v \in Int /\ d * u \in Int
        OBVIOUS
      <3> QED  BY <3>1, <3>2
    <2> QED  BY <2>1
  <1>2. d * (u + 1) <= d * v
    BY <1>1
  <1>3. d * (u + 1) = d * u + d
    OBVIOUS
  <1> QED  BY <1>2, <1>3

LEMMA MultipleIs ==
    ASSUME NEW n \in Nat, NEW d \in Nat, d > 0
    PROVE  n % d = 0 <=> \E u \in Int : n = d * u
  <1> DEFINE q == n \div d
             r == n - d * q
  <1>0. q \in Int /\ d * q <= n /\ n < d * q + d
    BY Divided
  <1>1. r \in Nat /\ r < d /\ d * q + r = n /\ d * q \in Int
    <2> HIDE DEF q
    <2> QED  BY <1>0
  <1> HIDE DEF q, r
  <1>2. ASSUME n % d = 0 PROVE \E u \in Int : n = d * u
    <2>1. (d * q + r) % d = r
      BY <1>0, <1>1, DividedIs
    <2>2. n % d = r
      BY <1>1, <2>1, Zenon
    <2>3. r = 0
      BY <1>2, <2>2, Zenon
    <2>4. n = d * q
      BY <1>1, <2>3
    <2> QED  BY <1>0, <2>4
  <1>3. ASSUME NEW u \in Int, n = d * u PROVE n % d = 0
    <2>1. (d * u + 0) % d = 0
      BY DividedIs
    <2>2. d * u + 0 = n
      BY <1>3
    <2> QED  BY <2>1, <2>2
  <1> QED  BY <1>2, <1>3

(* Which bar a trade is in.                                                  *)
LEMMA BucketIs ==
    ASSUME NEW trade \in Tradelike, NEW b \in Nat, b > 0
    PROVE  LET k == BucketOf(trade, b)
           IN  /\ k \in Nat /\ k % b = 0
               /\ k * Second <= trade.at /\ trade.at < (k + b) * Second
  <1> DEFINE S == Second
             x == trade.at
             q == x \div S
             v == q \div b
             k == v * b
  <1>1. S \in Nat /\ S > 0 /\ x \in Nat
    BY SizesInNat DEF Tradelike
  <1>2. q \in Int /\ S * q <= x /\ x < S * q + S /\ q >= 0
    BY <1>1, Divided
  <1>3. v \in Int /\ b * v <= q /\ q < b * v + b /\ v >= 0
    <2> HIDE DEF q
    <2> QED  BY <1>2, Divided
  <1>4. BucketOf(trade, b) = k
    BY DEF BucketOf
  <1> HIDE DEF S, x, q, v
  <1>5. k = b * v /\ k \in Nat
    BY <1>3
  <1>6. k % b = 0
    BY <1>3, <1>5, MultipleIs
  <1> HIDE DEF k
  <1>7. k <= q /\ q + 1 <= k + b
    BY <1>2, <1>3, <1>5
  <1>8. k * S <= q * S /\ (q + 1) * S <= (k + b) * S
    BY <1>1, <1>2, <1>5, <1>7
  <1>9. q * S = S * q /\ (q + 1) * S = S * q + S /\ S * q \in Int /\ k * S \in Int
        /\ (k + b) * S \in Int
    BY <1>1, <1>2, <1>5
  <1>10. k * S <= x /\ x < (k + b) * S
    BY <1>1, <1>2, <1>8, <1>9
  <1> QED  BY <1>4, <1>5, <1>6, <1>10 DEF S, x

LEMMA BucketsApart ==
    ASSUME NEW b \in Nat, b > 0, NEW x \in Nat, NEW y \in Nat,
           NEW j \in Nat, j % b = 0, j * Second <= x, x < (j + b) * Second,
           NEW k \in Nat, k % b = 0, k * Second <= y, y < (k + b) * Second,
           x <= y
    PROVE  j <= k
  <1>1. SUFFICES ASSUME k < j PROVE FALSE
    OBVIOUS
  <1>2. PICK u \in Int, v \in Int : k = b * u /\ j = b * v
    BY MultipleIs
  <1>3. k + b <= j
    BY <1>1, <1>2, MultiplesApart
  <1>4. Second \in Nat
    BY SizesInNat
  <1>5. (k + b) * Second <= j * Second /\ (k + b) * Second \in Int /\ j * Second \in Int
    BY <1>3, <1>4
  <1> QED  BY <1>5

(* The bar that starts at time has the trades of the bucket time.            *)
LEMMA InBucket ==
    ASSUME NEW trade \in Tradelike, NEW b \in Nat, b > 0, NEW time \in Nat, time % b = 0
    PROVE  trade.at >= time * Second /\ trade.at < (time + b) * Second
             <=> BucketOf(trade, b) = time
  <1> DEFINE k == BucketOf(trade, b)
  <1>1. k \in Nat /\ k % b = 0 /\ k * Second <= trade.at /\ trade.at < (k + b) * Second
    BY BucketIs
  <1>2. trade.at \in Nat
    BY DEF Tradelike
  <1>3. time * Second \in Int /\ k * Second \in Int
    BY <1>1, SizesInNat
  <1> HIDE DEF k
  <1>4. ASSUME trade.at >= time * Second, trade.at < (time + b) * Second
        PROVE  k = time
    <2>1. time * Second <= trade.at
      BY <1>2, <1>3, <1>4
    <2>2. time <= k /\ k <= time
      BY <1>1, <1>2, <1>4, <2>1, BucketsApart
    <2> QED  BY <1>1, <2>2
  <1>5. ASSUME k = time PROVE trade.at >= time * Second /\ trade.at < (time + b) * Second
    BY <1>1, <1>2, <1>3, <1>5
  <1> QED  BY <1>4, <1>5 DEF k

LEMMA BucketsAscend ==
    ASSUME NEW first \in Tradelike, NEW later \in Tradelike, first.at <= later.at,
           NEW b \in Nat, b > 0
    PROVE  BucketOf(first, b) <= BucketOf(later, b)
  <1> DEFINE j == BucketOf(first, b)
             k == BucketOf(later, b)
  <1>1. /\ j \in Nat /\ j % b = 0 /\ j * Second <= first.at /\ first.at < (j + b) * Second
        /\ k \in Nat /\ k % b = 0 /\ k * Second <= later.at /\ later.at < (k + b) * Second
    BY BucketIs
  <1>2. first.at \in Nat /\ later.at \in Nat
    BY DEF Tradelike
  <1> HIDE DEF j, k
  <1>3. j <= k
    BY <1>1, <1>2, BucketsApart
  <1> QED  BY <1>3 DEF j, k

(* A set of numbers in order.                                                *)
LEMMA SortedKeysAre ==
    ASSUME NEW S \in SUBSET Int, IsFiniteSet(S)
    PROVE  LET t == SortedKeys(S)
           IN  /\ DOMAIN t = 1..Len(t) /\ Len(t) = Cardinality(S)
               /\ \A i \in DOMAIN t : t[i] \in S
               /\ \A i, j \in DOMAIN t : i < j => t[i] < t[j]
               /\ \A x \in S : \E i \in DOMAIN t : t[i] = x
  <1> DEFINE n == Cardinality(S)
             Below(x) == {y \in S : y < x}
             rank == [x \in S |-> Cardinality(Below(x))]
             f == [x \in S |-> rank[x] + 1]
             t == SortedKeys(S)
  <1>1. n \in Nat
    BY FS_CardinalityType
  <1>2. ASSUME NEW x \in S
        PROVE  rank[x] \in Nat /\ rank[x] < n /\ IsFiniteSet(Below(x))
    <2>1. Below(x) \in SUBSET (S \ {x}) /\ Below(x) \in SUBSET S
      OBVIOUS
    <2>2. IsFiniteSet(S \ {x}) /\ Cardinality(S \ {x}) = n - 1
      BY FS_RemoveElement
    <2> HIDE DEF Below
    <2>3. IsFiniteSet(Below(x)) /\ Cardinality(Below(x)) <= n - 1 /\ Cardinality(Below(x)) \in Nat
      BY <2>1, <2>2, FS_Subset, FS_CardinalityType
    <2>4. rank[x] = Cardinality(Below(x))
      OBVIOUS
    <2> HIDE DEF rank, n
    <2> QED  BY <1>1, <2>3, <2>4
  <1>3. ASSUME NEW x \in S, NEW y \in S, x < y
        PROVE  rank[x] < rank[y]
    <2>1. x \notin Below(x) /\ Below(x) \union {x} \in SUBSET Below(y)
      <3>1. x \in Int /\ y \in Int /\ \A z \in S : z \in Int
        OBVIOUS
      <3>2. x \notin Below(x) /\ x \in Below(y)
        BY <1>3, <3>1
      <3>3. \A z \in Below(x) : z \in Below(y)
        BY <1>3, <3>1
      <3> HIDE DEF Below
      <3> QED  BY <3>2, <3>3
    <2>2. IsFiniteSet(Below(x)) /\ IsFiniteSet(Below(y)) /\ rank[x] \in Nat /\ rank[y] \in Nat
      BY <1>2
    <2> HIDE DEF Below
    <2>3. Cardinality(Below(x) \union {x}) = Cardinality(Below(x)) + 1
      BY <2>1, <2>2, FS_AddElement
    <2>4. Cardinality(Below(x) \union {x}) <= Cardinality(Below(y))
      BY <2>1, <2>2, FS_Subset
    <2>5. rank[x] = Cardinality(Below(x)) /\ rank[y] = Cardinality(Below(y))
      OBVIOUS
    <2> HIDE DEF rank
    <2> QED  BY <2>2, <2>3, <2>4, <2>5
  <1>4. \A i \in 1..n : t[i] = CHOOSE x \in S : Cardinality(Below(x)) = i - 1
    BY DEF SortedKeys
  <1>5. DOMAIN t = 1..n /\ Len(t) = n
    BY <1>1 DEF SortedKeys
  <1> HIDE DEF t, n
  <1>6. f \in Injection(S, 1..n)
    <2>1. f \in [S -> 1..n]
      BY <1>1, <1>2
    <2>2. ASSUME NEW x \in S, NEW y \in S, x # y
          PROVE  f[x] # f[y]
      <3>1. x < y \/ y < x
        BY <2>2
      <3>2. rank[x] # rank[y] /\ rank[x] \in Nat /\ rank[y] \in Nat
        BY <1>2, <1>3, <3>1
      <3>3. f[x] = rank[x] + 1 /\ f[y] = rank[y] + 1
        OBVIOUS
      <3> HIDE DEF f, rank
      <3> QED  BY <3>2, <3>3
    <2> HIDE DEF f
    <2> QED  BY <2>1, <2>2 DEF Injection, IsInjective
  <1>7. f \in Surjection(S, 1..n)
    <2>1. IsFiniteSet(1..n) /\ Cardinality(1..n) = n
      BY <1>1, FS_Interval
    <2> HIDE DEF f
    <2> QED  BY <1>6, <2>1, FS_Injection DEF n
  <1>8. ASSUME NEW i \in 1..n
        PROVE  t[i] \in S /\ rank[t[i]] = i - 1
    <2>1. PICK x \in S : f[x] = i
      <3> HIDE DEF f
      <3> QED  BY <1>7 DEF Surjection
    <2>2. Cardinality(Below(x)) = i - 1
      <3>1. rank[x] \in Nat /\ f[x] = rank[x] + 1 /\ rank[x] = Cardinality(Below(x))
        BY <1>2
      <3> HIDE DEF f, rank, Below
      <3> QED  BY <2>1, <3>1
    <2>3. t[i] \in S /\ Cardinality(Below(t[i])) = i - 1
      <3> HIDE DEF Below
      <3> QED  BY <1>4, <2>2
    <2>4. rank[t[i]] = Cardinality(Below(t[i]))
      BY <2>3
    <2> QED  BY <2>3, <2>4
  <1> HIDE DEF rank
  <1>9. ASSUME NEW i \in 1..n, NEW j \in 1..n, i < j
        PROVE  t[i] < t[j]
    <2>1. t[i] \in S /\ rank[t[i]] = i - 1 /\ t[j] \in S /\ rank[t[j]] = j - 1
      BY <1>8
    <2>2. rank[t[i]] < rank[t[j]]
      BY <1>1, <1>9, <2>1
    <2> DEFINE x == t[i]
               y == t[j]
    <2>3. x \in S /\ y \in S /\ rank[x] < rank[y] /\ rank[x] \in Int /\ rank[y] \in Int
      BY <1>1, <2>1, <2>2
    <2> HIDE DEF x, y
    <2>4. ~(y < x) /\ x # y /\ x \in Int /\ y \in Int
      BY <1>3, <2>3
    <2> QED  BY <2>4 DEF x, y
  <1>10. ASSUME NEW x \in S
         PROVE  \E i \in 1..n : t[i] = x
    <2>1. rank[x] \in Nat /\ rank[x] < n
      BY <1>2
    <2>2. rank[x] + 1 \in 1..n /\ (rank[x] + 1) - 1 = rank[x]
      BY <1>1, <2>1
    <2> DEFINE i == rank[x] + 1
    <2>3. t[i] \in S /\ rank[t[i]] = rank[x]
      BY <1>8, <2>2
    <2> DEFINE y == t[i]
    <2>6. y \in S /\ rank[y] = rank[x] /\ rank[x] \in Int
      BY <2>1, <2>3
    <2> HIDE DEF y, i
    <2>4. ~(y < x) /\ ~(x < y) /\ x \in Int /\ y \in Int
      BY <1>3, <2>6
    <2>5. t[i] = x
      BY <2>4 DEF y
    <2> QED  BY <2>2, <2>5 DEF i
  <1> QED  BY <1>5, <1>8, <1>9, <1>10 DEF t, n

Barlike == [o : Int, h : Int, l : Int, c : Int, v : Nat]
Volume(trades) == [i \in DOMAIN trades |-> AbsOf(trades[i].size)]

(* bar is that of the trades in T.                                           *)
IsBar(trades, bar, T) ==
    /\ bar \in Barlike
    /\ \E i \in T : bar.o = trades[i].price /\ \A j \in T : i <= j
    /\ \E i \in T : bar.c = trades[i].price /\ \A j \in T : j <= i
    /\ \E i \in T : bar.h = trades[i].price /\ \A j \in T : trades[j].price <= bar.h
    /\ \E i \in T : bar.l = trades[i].price /\ \A j \in T : bar.l <= trades[j].price
    /\ bar.v = SumFunctionOnSet(Volume(trades), T)

LEMMA TradesTyped ==
    ASSUME NEW trades \in Seq(Tradelike)
    PROVE  /\ IsFiniteSet(DOMAIN trades)
           /\ \A i \in DOMAIN trades : /\ i \in Nat /\ trades[i] \in Tradelike
                                       /\ trades[i].price \in Int
                                       /\ AbsOf(trades[i].size) \in Nat
                                       /\ Volume(trades)[i] = AbsOf(trades[i].size)
  <1>1. DOMAIN trades = 1..Len(trades) /\ Len(trades) \in Nat
    OBVIOUS
  <1>2. IsFiniteSet(DOMAIN trades)
    BY <1>1, FS_Interval
  <1>3. \A i \in DOMAIN trades : i \in Nat /\ trades[i] \in Tradelike
    BY <1>1
  <1>4. \A t \in Tradelike : t.price \in Int /\ AbsOf(t.size) \in Nat
    BY DEF Tradelike, AbsOf
  <1> QED  BY <1>2, <1>3, <1>4 DEF Volume

LEMMA OpenedIs ==
    ASSUME NEW trades \in Seq(Tradelike), NEW j \in DOMAIN trades
    PROVE  IsBar(trades, Opened(trades[j]), {j})
  <1> DEFINE bar == Opened(trades[j])
             vol == Volume(trades)
  <1>1. /\ j \in Nat /\ trades[j].price \in Int /\ AbsOf(trades[j].size) \in Nat
        /\ vol[j] = AbsOf(trades[j].size)
    BY TradesTyped
  <1>2. SumFunctionOnSet(vol, {j}) = AbsOf(trades[j].size)
    <2>1. IsFiniteSet({j}) /\ IsFiniteSet({}) /\ {j} \ {j} = {}
      BY FS_Singleton, FS_EmptySet
    <2> HIDE DEF vol
    <2>2. \A x \in {j} : vol[x] \in Nat
      BY <1>1
    <2>3. SumFunctionOnSet(vol, {j}) = vol[j] + SumFunctionOnSet(vol, {j} \ {j})
      BY <2>1, <2>2, SumSplit
    <2>4. SumFunctionOnSet(vol, {j} \ {j}) = 0
      <3>1. SumFunctionOnSet(vol, {}) = 0
        BY <2>1, SumIs
      <3> QED  BY <2>1, <3>1, Zenon
    <2>5. vol[j] \in Nat
      BY <2>2
    <2>6. SumFunctionOnSet(vol, {j}) = vol[j]
      BY <2>3, <2>4, <2>5
    <2> QED  BY <1>1, <2>6
  <1>3. /\ bar.o = trades[j].price /\ bar.h = trades[j].price /\ bar.l = trades[j].price
        /\ bar.c = trades[j].price /\ bar.v = AbsOf(trades[j].size)
        /\ bar \in Barlike
    BY <1>1 DEF Opened, Barlike
  <1> HIDE DEF bar, vol
  <1>4. IsBar(trades, bar, {j})
    BY <1>1, <1>2, <1>3 DEF IsBar, vol
  <1> QED  BY <1>4 DEF bar

LEMMA MergedIs ==
    ASSUME NEW trades \in Seq(Tradelike), NEW T \in SUBSET DOMAIN trades,
           NEW bar, IsBar(trades, bar, T), NEW j \in DOMAIN trades, \A i \in T : i < j
    PROVE  IsBar(trades, Merged(bar, trades[j]), T \union {j})
  <1> DEFINE new == Merged(bar, trades[j])
             vol == Volume(trades)
             p == trades[j].price
             U == T \union {j}
  <1>1. /\ j \in Nat /\ p \in Int /\ AbsOf(trades[j].size) \in Nat
        /\ IsFiniteSet(T) /\ IsFiniteSet(U)
        /\ \A i \in U : i \in Nat /\ trades[i].price \in Int /\ vol[i] \in Nat
        /\ vol[j] = AbsOf(trades[j].size)
    <2>1. IsFiniteSet(DOMAIN trades) /\ U \in SUBSET DOMAIN trades
      BY TradesTyped
    <2>2. IsFiniteSet(T) /\ IsFiniteSet(U)
      BY <2>1, FS_Subset
    <2>3. \A i \in DOMAIN trades : /\ i \in Nat /\ trades[i].price \in Int
                                   /\ AbsOf(trades[i].size) \in Nat
                                   /\ vol[i] = AbsOf(trades[i].size)
      BY TradesTyped
    <2> HIDE DEF vol, U
    <2> QED  BY <2>1, <2>2, <2>3
  <1>2. /\ bar \in Barlike /\ bar.h \in Int /\ bar.l \in Int /\ bar.v \in Nat
        /\ bar.v = SumFunctionOnSet(vol, T)
    BY DEF IsBar, Barlike
  <1>3. /\ new \in Barlike
        /\ new.o = bar.o /\ new.c = p /\ new.v = bar.v + AbsOf(trades[j].size)
        /\ new.h = (IF p > bar.h THEN p ELSE bar.h)
        /\ new.l = (IF p < bar.l THEN p ELSE bar.l)
    <2> DEFINE x == AbsOf(trades[j].size)
               h == IF p > bar.h THEN p ELSE bar.h
               l == IF p < bar.l THEN p ELSE bar.l
    <2>1. new = [bar EXCEPT !.h = h, !.l = l, !.c = p, !.v = bar.v + x]
      BY DEF Merged
    <2>2. h \in Int /\ l \in Int /\ bar.v + x \in Nat
      BY <1>1, <1>2
    <2> HIDE DEF new, h, l, p, x
    <2>3. /\ new \in Barlike /\ new.o = bar.o /\ new.c = p /\ new.v = bar.v + x
          /\ new.h = h /\ new.l = l
      BY <1>1, <1>2, <2>1, <2>2 DEF Barlike
    <2> QED  BY <2>3 DEF h, l, x
  <1>4. new.v = SumFunctionOnSet(vol, U)
    <2>1. j \notin T
      BY <1>1
    <2>2. U \ {j} = T /\ j \in U
      BY <2>1
    <2> HIDE DEF vol, U, new, p
    <2>3. SumFunctionOnSet(vol, U) = vol[j] + SumFunctionOnSet(vol, U \ {j})
      BY <1>1, <2>2, SumSplit
    <2>4. SumFunctionOnSet(vol, U \ {j}) = bar.v
      BY <1>2, <2>2
    <2>5. vol[j] \in Nat /\ vol[j] = AbsOf(trades[j].size) /\ bar.v \in Nat
      BY <1>1, <1>2, <2>2
    <2> QED  BY <1>3, <2>3, <2>4, <2>5
  <1>5. /\ \E i \in T : bar.o = trades[i].price /\ \A k \in T : i <= k
        /\ \E i \in T : bar.h = trades[i].price /\ \A k \in T : trades[k].price <= bar.h
        /\ \E i \in T : bar.l = trades[i].price /\ \A k \in T : bar.l <= trades[k].price
    BY DEF IsBar
  <1>6. \A i \in T : i < j /\ i \in U
    OBVIOUS
  <1>7. j \in U /\ \A i \in U : i \in T \/ i = j
    OBVIOUS
  <1> HIDE DEF new, vol, U
  <1>8. \E i \in U : new.o = trades[i].price /\ \A k \in U : i <= k
    <2>1. PICK i \in T : bar.o = trades[i].price /\ \A k \in T : i <= k
      BY <1>5
    <2>2. i <= j
      BY <1>1, <1>6, <2>1
    <2> QED  BY <1>3, <1>6, <1>7, <2>1, <2>2
  <1>9. \E i \in U : new.c = trades[i].price /\ \A k \in U : k <= i
    <2>1. \A k \in U : k <= j
      BY <1>1, <1>6, <1>7
    <2> QED  BY <1>3, <1>7, <2>1
  <1>10. \E i \in U : new.h = trades[i].price /\ \A k \in U : trades[k].price <= new.h
    <2>1. PICK i \in T : bar.h = trades[i].price /\ \A k \in T : trades[k].price <= bar.h
      BY <1>5
    <2>2. i \in U /\ i \in Nat
      BY <1>1, <1>6
    <2>3. CASE p > bar.h
      <3>1. new.h = p
        BY <1>3, <2>3
      <3>2. \A k \in U : trades[k].price <= p
        BY <1>1, <1>2, <1>7, <2>1, <2>3
      <3> QED  BY <1>7, <3>1, <3>2
    <2>4. CASE ~(p > bar.h)
      <3>1. new.h = bar.h
        BY <1>3, <2>4
      <3>2. \A k \in U : trades[k].price <= bar.h
        BY <1>1, <1>2, <1>7, <2>1, <2>4
      <3> QED  BY <2>1, <2>2, <3>1, <3>2
    <2> QED  BY <2>3, <2>4
  <1>11. \E i \in U : new.l = trades[i].price /\ \A k \in U : new.l <= trades[k].price
    <2>1. PICK i \in T : bar.l = trades[i].price /\ \A k \in T : bar.l <= trades[k].price
      BY <1>5
    <2>2. i \in U /\ i \in Nat
      BY <1>1, <1>6
    <2>3. CASE p < bar.l
      <3>1. new.l = p
        BY <1>3, <2>3
      <3>2. \A k \in U : p <= trades[k].price
        BY <1>1, <1>2, <1>7, <2>1, <2>3
      <3> QED  BY <1>7, <3>1, <3>2
    <2>4. CASE ~(p < bar.l)
      <3>1. new.l = bar.l
        BY <1>3, <2>4
      <3>2. \A k \in U : bar.l <= trades[k].price
        BY <1>1, <1>2, <1>7, <2>1, <2>4
      <3> QED  BY <2>1, <2>2, <3>1, <3>2
    <2> QED  BY <2>3, <2>4
  <1> QED  BY <1>3, <1>4, <1>8, <1>9, <1>10, <1>11 DEF IsBar, new, vol, U

(* What the definition of the candles says of a bar.                         *)
LEMMA LeastIs ==
    ASSUME NEW S \in SUBSET Int, NEW m \in S, \A x \in S : m <= x
    PROVE  Min(S) = m
  <1>1. \A x \in S : (\A y \in S : x <= y) => x = m
    OBVIOUS
  <1> QED  BY <1>1 DEF Min

LEMMA GreatestIs ==
    ASSUME NEW S \in SUBSET Int, NEW m \in S, \A x \in S : x <= m
    PROVE  Max(S) = m
  <1>1. \A x \in S : (\A y \in S : x >= y) => x = m
    OBVIOUS
  <1>2. \A y \in S : m >= y
    OBVIOUS
  <1> QED  BY <1>1, <1>2 DEF Max

LEMMA BarIsOf ==
    ASSUME NEW bar, request.trades \in Seq(Tradelike), NEW T \in SUBSET DOMAIN request.trades,
           IsBar(request.trades, bar, T)
    PROVE  IsBarOf(bar, T)
  <1> DEFINE trades == request.trades
             prices == {trades[i].price : i \in T}
  <1>1. T \subseteq Int /\ prices \subseteq Int
    BY TradesTyped
  <1>2. PICK i \in T : bar.o = trades[i].price /\ \A j \in T : i <= j
    BY DEF IsBar
  <1>3. PICK k \in T : bar.c = trades[k].price /\ \A j \in T : j <= k
    BY DEF IsBar
  <1>4. /\ \E h \in T : bar.h = trades[h].price /\ \A j \in T : trades[j].price <= bar.h
        /\ \E l \in T : bar.l = trades[l].price /\ \A j \in T : bar.l <= trades[j].price
        /\ bar.v = SumFunctionOnSet(Volume(trades), T)
    BY DEF IsBar
  <1>5. bar.h \in prices /\ bar.l \in prices
    BY <1>4
  <1>6. \A x \in prices : x <= bar.h /\ bar.l <= x
    BY <1>4
  <1>7. Min(T) = i /\ Max(T) = k
    BY <1>1, <1>2, <1>3, LeastIs, GreatestIs
  <1>8. Max(prices) = bar.h /\ Min(prices) = bar.l
    <2> HIDE DEF prices
    <2> QED  BY <1>1, <1>5, <1>6, LeastIs, GreatestIs
  <1> QED  BY <1>2, <1>3, <1>4, <1>7, <1>8 DEF IsBarOf, Volume

(* f[n] has the bars of the first n rows.                                    *)
BarsStep(rows, b, f, n) == IF n = 0 THEN <<>> ELSE Gathered(f[n - 1], rows[n], b)
AreBars(rows, b, f, n) == f = [i \in 0..n |-> BarsStep(rows, b, f, i)]

LEMMA BarsExist ==
    ASSUME NEW rows, NEW b, NEW m \in Nat
    PROVE  \E f : AreBars(rows, b, f, m)
  <1> DEFINE T == {n \in Nat : ~\E f : AreBars(rows, b, f, n)}
  <1> SUFFICES ASSUME T # {} PROVE FALSE
    OBVIOUS
  <1>1. PICK n \in T : \A y \in T : n <= y
    <2>1. T \in SUBSET Nat
      OBVIOUS
    <2> HIDE DEF T
    <2> QED  BY <2>1, LeastOf
  <1>2. n # 0
    <2>1. AreBars(rows, b, [i \in 0..0 |-> <<>>], 0)
      BY DEF AreBars, BarsStep
    <2> QED  BY <2>1
  <1>3. PICK f : AreBars(rows, b, f, n - 1)
    <2>1. n - 1 \in Nat /\ n - 1 \notin T
      BY <1>1, <1>2
    <2> QED  BY <2>1
  <1> DEFINE g == [i \in 0..n |-> IF i = n THEN BarsStep(rows, b, f, n) ELSE f[i]]
  <1>4. AreBars(rows, b, g, n)
    <2>1. ASSUME NEW i \in 0..n
          PROVE  g[i] = BarsStep(rows, b, g, i)
      <3>1. CASE i = n
        BY <1>2, <3>1 DEF BarsStep
      <3>2. CASE i # n
        <4>1. g[i] = f[i] /\ i \in 0..(n - 1)
          BY <3>2
        <4>2. f[i] = BarsStep(rows, b, f, i)
          BY <1>3, <4>1 DEF AreBars
        <4>3. i # 0 => f[i - 1] = g[i - 1]
          BY <3>2
        <4> QED  BY <4>1, <4>2, <4>3 DEF BarsStep
      <3> QED  BY <3>1, <3>2
    <2> QED  BY <2>1 DEF AreBars
  <1> QED  BY <1>4

LEMMA BarsUnfold ==
    ASSUME NEW rows, NEW b, Len(rows) \in Nat
    PROVE  \E f : /\ Bars(rows, b) = f[Len(rows)] /\ f[0] = <<>>
                  /\ \A n \in 1..Len(rows) : f[n] = Gathered(f[n - 1], rows[n], b)
  <1> DEFINE g == CHOOSE f : AreBars(rows, b, f, Len(rows))
  <1>1. AreBars(rows, b, g, Len(rows))
    BY BarsExist
  <1>2. Bars(rows, b) = g[Len(rows)]
    BY DEF Bars, AreBars, BarsStep
  <1> HIDE DEF g
  <1>3. \A n \in 0..Len(rows) : g[n] = BarsStep(rows, b, g, n)
    BY <1>1 DEF AreBars
  <1>4. g[0] = <<>>
    BY <1>3 DEF BarsStep
  <1>5. \A n \in 1..Len(rows) : g[n] = Gathered(g[n - 1], rows[n], b)
    BY <1>3 DEF BarsStep
  <1> QED  BY <1>2, <1>4, <1>5

(* Of the trades in T those of the bar k.                                    *)
Within(trades, T, b, k) ==
    {i \in T : trades[i].price # NotFinite /\ BucketOf(trades[i], b) = k}

Collected(trades, bars, T, b) ==
    /\ DOMAIN bars = {BucketOf(trades[i], b) : i \in {j \in T : trades[j].price # NotFinite}}
    /\ \A k \in DOMAIN bars : IsBar(trades, bars[k], Within(trades, T, b, k))

LEMMA OneMore ==
    ASSUME NEW trades \in Seq(Tradelike), NEW T \in SUBSET DOMAIN trades, NEW b,
           NEW bars, Collected(trades, bars, T, b),
           NEW j \in DOMAIN trades, \A i \in T : i < j
    PROVE  Collected(trades, Gathered(bars, trades[j], b), T \union {j}, b)
  <1> DEFINE new == Gathered(bars, trades[j], b)
             k == BucketOf(trades[j], b)
             U == T \union {j}
             In(S, l) == Within(trades, S, b, l)
  <1>1. CASE trades[j].price = NotFinite
    <2>1. new = bars
      BY <1>1 DEF Gathered
    <2>2. \A l : In(U, l) = In(T, l)
      BY <1>1 DEF Within
    <2>3. {i \in U : trades[i].price # NotFinite} = {i \in T : trades[i].price # NotFinite}
      BY <1>1
    <2> HIDE DEF U, new
    <2>4. Collected(trades, new, U, b)
      BY <2>1, <2>2, <2>3 DEF Collected
    <2> QED  BY <2>4 DEF new, U
  <1>2. CASE trades[j].price # NotFinite
    <2>1. /\ DOMAIN new = DOMAIN bars \union {k}
          /\ \A l \in DOMAIN new :
               new[l] = IF l # k THEN bars[l]
                        ELSE IF l \in DOMAIN bars THEN Merged(bars[l], trades[j])
                        ELSE Opened(trades[j])
      BY <1>2 DEF Gathered
    <2>2. \A l : In(U, l) = IF l = k THEN In(T, l) \union {j} ELSE In(T, l)
      BY <1>2 DEF Within
    <2>3. DOMAIN bars = {BucketOf(trades[i], b) : i \in {i \in T : trades[i].price # NotFinite}}
      BY DEF Collected
    <2>4. k \notin DOMAIN bars => In(T, k) = {}
      BY <2>3 DEF Within
    <2>5. {i \in U : trades[i].price # NotFinite}
            = {i \in T : trades[i].price # NotFinite} \union {j}
      BY <1>2
    <2>6. DOMAIN new = {BucketOf(trades[i], b) : i \in {i \in U : trades[i].price # NotFinite}}
      <3> HIDE DEF new
      <3> QED  BY <2>1, <2>3, <2>5
    <2> HIDE DEF new, U, k
    <2>7. ASSUME NEW l \in DOMAIN new
          PROVE  IsBar(trades, new[l], In(U, l))
      <3>1. CASE l # k
        <4>1. l \in DOMAIN bars /\ new[l] = bars[l] /\ In(U, l) = In(T, l)
          BY <2>1, <2>2, <3>1
        <4> QED  BY <4>1 DEF Collected
      <3>2. CASE l = k /\ l \in DOMAIN bars
        <4>1. new[l] = Merged(bars[l], trades[j]) /\ In(U, l) = In(T, l) \union {j}
          BY <2>1, <2>2, <3>2
        <4>2. In(T, l) \in SUBSET DOMAIN trades /\ \A i \in In(T, l) : i < j
          BY DEF Within
        <4>3. IsBar(trades, bars[l], In(T, l))
          BY <3>2 DEF Collected
        <4> HIDE DEF In
        <4> QED  BY <4>1, <4>2, <4>3, MergedIs
      <3>3. CASE l = k /\ l \notin DOMAIN bars
        <4>1. new[l] = Opened(trades[j]) /\ In(U, l) = {j}
          BY <2>1, <2>2, <2>4, <3>3
        <4> QED  BY <4>1, OpenedIs
      <3> QED  BY <3>1, <3>2, <3>3
    <2>8. Collected(trades, new, U, b)
      BY <2>6, <2>7 DEF Collected
    <2> QED  BY <2>8 DEF new, U
  <1> QED  BY <1>1, <1>2

(* The bars of rows that stand at the places place in the table.             *)
LEMMA BarsAre ==
    ASSUME NEW trades \in Seq(Tradelike), NEW b, NEW rows, NEW r \in Nat, Len(rows) = r,
           NEW place \in [1..r -> DOMAIN trades],
           \A i, j \in 1..r : i < j => place[i] < place[j],
           \A i \in 1..r : rows[i] = trades[place[i]]
    PROVE  Collected(trades, Bars(rows, b), {place[i] : i \in 1..r}, b)
  <1>1. PICK f : /\ Bars(rows, b) = f[r] /\ f[0] = <<>>
                 /\ \A n \in 1..r : f[n] = Gathered(f[n - 1], rows[n], b)
    <2>1. Len(rows) = r /\ Len(rows) \in Nat
      OBVIOUS
    <2>2. \E f : /\ Bars(rows, b) = f[Len(rows)] /\ f[0] = <<>>
                 /\ \A n \in 1..Len(rows) : f[n] = Gathered(f[n - 1], rows[n], b)
      BY <2>1, BarsUnfold
    <2> QED  BY <2>1, <2>2, Zenon
  <1> DEFINE T(n) == {place[i] : i \in 1..n}
             Done(n) == n <= r => Collected(trades, f[n], T(n), b)
             Bad == {n \in Nat : ~Done(n)}
  <1>2. Done(0)
    <2>1. T(0) = {} /\ DOMAIN f[0] = {}
      BY <1>1
    <2> HIDE DEF T
    <2> QED  BY <2>1 DEF Collected
  <1>3. ASSUME NEW n \in Nat, n > 0, Done(n - 1)
        PROVE  Done(n)
    <2>1. SUFFICES ASSUME n <= r PROVE Collected(trades, f[n], T(n), b)
      OBVIOUS
    <2>2. n \in 1..r /\ n - 1 \in 0..r
      BY <1>3, <2>1
    <2>3. Collected(trades, f[n - 1], T(n - 1), b)
      BY <1>3, <2>1
    <2>4. T(n - 1) \in SUBSET DOMAIN trades /\ place[n] \in DOMAIN trades
      BY <2>2
    <2>5. \A i \in T(n - 1) : i < place[n]
      BY <2>2
    <2>6. T(n) = T(n - 1) \union {place[n]}
      <3>1. 1..n = (1..(n - 1)) \union {n}
        BY <2>2
      <3> QED  BY <3>1
    <2>7. f[n] = Gathered(f[n - 1], trades[place[n]], b)
      BY <1>1, <2>2
    <2> HIDE DEF T
    <2> QED  BY <2>3, <2>4, <2>5, <2>6, <2>7, OneMore
  <1> HIDE DEF Done
  <1>4. Bad = {}
    <2>1. SUFFICES ASSUME Bad # {} PROVE FALSE
      OBVIOUS
    <2>2. PICK n \in Bad : \A l \in Bad : n <= l
      BY <2>1, LeastOf
    <2>3. n > 0
      BY <1>2, <2>2
    <2>4. n - 1 \in Nat /\ n - 1 \notin Bad
      BY <2>2, <2>3
    <2> QED  BY <1>3, <2>2, <2>3, <2>4
  <1>5. Done(r)
    BY <1>4
  <1> QED  BY <1>1, <1>5 DEF Done

InRange(trades, from, to) ==
    {i \in DOMAIN trades : trades[i].at \in (from * Second)..(to * Second)}

(* The query: the oldest trades that are asked for, as many as it may return.*)
LEMMA RowsAre ==
    ASSUME NEW trades \in Seq(Tradelike), NEW from \in Nat, NEW to \in Nat
    PROVE  LET asked == InRange(trades, from, to)
               m == Cardinality(asked)
               r == IF m <= MaxRows THEN m ELSE MaxRows
               rows == Rows(trades, from, to)
           IN  /\ m \in Nat /\ Len(rows) = r /\ (rows = <<>> <=> r = 0)
               /\ \E place \in [1..m -> DOMAIN trades] :
                    /\ \A i, j \in 1..m : i < j => place[i] < place[j]
                    /\ \A i \in 1..m : place[i] \in asked
                    /\ \A i \in asked : \E j \in 1..m : place[j] = i
                    /\ \A i \in 1..r : rows[i] = trades[place[i]]
  <1> DEFINE asked == InRange(trades, from, to)
             K == {t \in ToSet(trades) : t.at \in (from * Second)..(to * Second)}
             found == Kept(trades, K)
             n == Len(found)
             rows == Rows(trades, from, to)
  <1>1. found \in Seq(Tradelike) /\ n \in Nat
    BY KeptPlaces
  <1>2. PICK place : Places(trades, K, found, Len(trades), place)
    BY KeptPlaces
  <1>3. DOMAIN trades = 1..Len(trades) /\ \A i \in DOMAIN trades : i \in Nat
    OBVIOUS
  <1>4. \A i \in DOMAIN trades : trades[i] \in K <=> i \in asked
    BY DEF ToSet, InRange
  <1> HIDE DEF found, K, asked
  <1>5. /\ place \in [1..n -> DOMAIN trades]
        /\ \A i, j \in 1..n : i < j => place[i] < place[j]
        /\ \A i \in 1..n : found[i] = trades[place[i]] /\ place[i] \in asked
        /\ \A i \in asked : i \in DOMAIN trades /\ \E j \in 1..n : place[j] = i
    <2>1. place \in [1..n -> DOMAIN trades]
      BY <1>2, <1>3 DEF Places
    <2>2. asked \subseteq DOMAIN trades
      BY DEF asked, InRange
    <2> QED  BY <1>2, <1>3, <1>4, <2>1, <2>2 DEF Places
  <1>6. Cardinality(asked) = n
    <2>1. place \in [1..n -> asked]
      BY <1>5
    <2>2. \A i, j \in 1..n : i # j => place[i] # place[j]
      <3>1. ASSUME NEW i \in 1..n, NEW j \in 1..n, i # j
            PROVE  place[i] # place[j]
        <4>1. place[i] \in Nat /\ place[j] \in Nat
          BY <1>3, <1>5
        <4>2. i < j \/ j < i
          BY <3>1
        <4>3. place[i] < place[j] \/ place[j] < place[i]
          BY <1>5, <4>2
        <4> QED  BY <4>1, <4>3
      <3> QED  BY <3>1
    <2>3. \A i \in asked : \E j \in 1..n : place[j] = i
      BY <1>5
    <2>4. place \in Bijection(1..n, asked)
      BY <2>1, <2>2, <2>3 DEF Bijection, Injection, Surjection, IsInjective
    <2>5. IsFiniteSet(1..n) /\ Cardinality(1..n) = n
      <3>1. n \in Int /\ n >= 0
        BY <1>1
      <3> HIDE DEF n
      <3>2. IsFiniteSet(1..n) /\ Cardinality(1..n) = IF 1 > n THEN 0 ELSE n - 1 + 1
        BY <3>1, FS_Interval
      <3> QED  BY <3>1, <3>2
    <2> QED  BY <2>4, <2>5, FS_Bijection DEF ExistsBijection
  <1> DEFINE r == IF n <= MaxRows THEN n ELSE MaxRows
  <1>7. r \in Nat /\ r <= n /\ MaxRows \in Nat
    BY <1>1, SizesInNat
  <1>8. Min({n, MaxRows}) = r
    <2>1. {n, MaxRows} \in SUBSET Int /\ r \in {n, MaxRows} /\ \A x \in {n, MaxRows} : r <= x
      BY <1>1, <1>7
    <2> HIDE DEF r
    <2> QED  BY <2>1, LeastIs
  <1>9. rows = SubSeq(found, 1, r)
    BY <1>8 DEF Rows, found, K
  <1> HIDE DEF r, rows
  <1>10. Len(rows) = r /\ \A i \in 1..r : rows[i] = found[i]
    BY <1>1, <1>7, <1>9
  <1>11. rows = <<>> <=> r = 0
    <2>1. rows \in Seq(Tradelike)
      BY <1>1, <1>7, <1>9
    <2> QED  BY <1>10, <2>1
  <1>12. \A i \in 1..r : rows[i] = trades[place[i]]
    BY <1>5, <1>7, <1>10, <1>1
  <1>13. /\ Cardinality(asked) \in Nat /\ Len(rows) = r /\ (rows = <<>> <=> r = 0)
         /\ place \in [1..n -> DOMAIN trades]
         /\ \A i, j \in 1..n : i < j => place[i] < place[j]
         /\ \A i \in 1..n : place[i] \in asked
         /\ \A i \in asked : \E j \in 1..n : place[j] = i
    BY <1>1, <1>5, <1>6, <1>10, <1>11
  <1> QED  BY <1>6, <1>12, <1>13 DEF asked, r, rows

(* The table is in the order of its instants, each with each.                *)
LEMMA TradesAscend ==
    ASSUME NEW trades \in Seq(Tradelike),
           \A i \in 2..Len(trades) : trades[i - 1].at <= trades[i].at,
           NEW i \in DOMAIN trades, NEW j \in DOMAIN trades, i <= j
    PROVE  trades[i].at <= trades[j].at
  <1> DEFINE Up(d) == i + d \in DOMAIN trades => trades[i].at <= trades[i + d].at
             Bad == {d \in Nat : ~Up(d)}
  <1>1. /\ DOMAIN trades = 1..Len(trades) /\ Len(trades) \in Nat /\ i \in Nat /\ j \in Nat
        /\ \A k \in DOMAIN trades : trades[k].at \in Nat
    <2>1. DOMAIN trades = 1..Len(trades) /\ Len(trades) \in Nat
      OBVIOUS
    <2>2. \A k \in DOMAIN trades : trades[k] \in Tradelike
      OBVIOUS
    <2>3. \A t \in Tradelike : t.at \in Nat
      BY DEF Tradelike
    <2> QED  BY <2>1, <2>2, <2>3
  <1>2. Up(0)
    BY <1>1
  <1>3. ASSUME NEW d \in Nat, d > 0, Up(d - 1)
        PROVE  Up(d)
    <2>1. SUFFICES ASSUME i + d \in DOMAIN trades PROVE trades[i].at <= trades[i + d].at
      OBVIOUS
    <2>2. i + d \in 2..Len(trades) /\ (i + d) - 1 = i + (d - 1) /\ i + (d - 1) \in DOMAIN trades
      BY <1>1, <1>3, <2>1
    <2>3. trades[i + (d - 1)].at <= trades[i + d].at
      BY <2>2
    <2>4. trades[i].at <= trades[i + (d - 1)].at
      BY <1>3, <2>2
    <2> QED  BY <1>1, <2>1, <2>2, <2>3, <2>4
  <1> HIDE DEF Up
  <1>4. Bad = {}
    <2>1. SUFFICES ASSUME Bad # {} PROVE FALSE
      OBVIOUS
    <2>2. PICK d \in Bad : \A l \in Bad : d <= l
      BY <2>1, LeastOf
    <2>3. d > 0
      BY <1>2, <2>2
    <2>4. d - 1 \in Nat /\ d - 1 \notin Bad
      BY <2>2, <2>3
    <2> QED  BY <1>3, <2>2, <2>3, <2>4
  <1>5. j - i \in Nat /\ i + (j - i) = j
    BY <1>1
  <1>6. Up(j - i)
    BY <1>4, <1>5
  <1> QED  BY <1>5, <1>6 DEF Up

CandlesAsked(r) ==
    /\ r.trades \in Seq(Tradelike)
    /\ \A i \in 2..Len(r.trades) : r.trades[i - 1].at <= r.trades[i].at
    /\ r.from \in Nat /\ r.to \in Nat /\ r.bucketSeconds \in Nat /\ r.bucketSeconds > 0

LEMMA KeysAre ==
    ASSUME NEW trades \in Seq(Tradelike), NEW T \in SUBSET DOMAIN trades,
           NEW b \in Nat, b > 0, NEW bars, Collected(trades, bars, T, b)
    PROVE  /\ IsFiniteSet(DOMAIN bars) /\ DOMAIN bars \subseteq Nat
           /\ \A k \in DOMAIN bars : k % b = 0
           /\ \A i \in T : trades[i].price # NotFinite => BucketOf(trades[i], b) \in DOMAIN bars
  <1> DEFINE F == {j \in T : trades[j].price # NotFinite}
             f == [i \in F |-> BucketOf(trades[i], b)]
             keys == DOMAIN bars
  <1>1. keys = {BucketOf(trades[i], b) : i \in F}
    BY DEF Collected
  <1>2. IsFiniteSet(F)
    <2>1. IsFiniteSet(DOMAIN trades) /\ F \in SUBSET DOMAIN trades
      BY TradesTyped
    <2> HIDE DEF F
    <2> QED  BY <2>1, FS_Subset
  <1>3. \A i \in F : trades[i] \in Tradelike
    BY TradesTyped
  <1>4. \A i \in F : BucketOf(trades[i], b) \in Nat /\ BucketOf(trades[i], b) % b = 0
    <2> HIDE DEF F
    <2> QED  BY <1>3, BucketIs
  <1> HIDE DEF F, keys
  <1>5. f \in [F -> keys] /\ \A k \in keys : \E i \in F : f[i] = k
    BY <1>1
  <1>6. f \in Surjection(F, keys)
    <2> HIDE DEF f
    <2> QED  BY <1>5 DEF Surjection
  <1>7. IsFiniteSet(keys)
    <2> HIDE DEF f
    <2> QED  BY <1>2, <1>6, FS_Surjection
  <1>8. keys \subseteq Nat /\ \A k \in keys : k % b = 0
    BY <1>1, <1>4, Zenon
  <1>9. \A i \in T : trades[i].price # NotFinite => BucketOf(trades[i], b) \in keys
    BY <1>1 DEF F
  <1> QED  BY <1>7, <1>8, <1>9 DEF keys

LEMMA BarTradesAre ==
    ASSUME CandlesAsked(request), NEW time \in Nat, time % request.bucketSeconds = 0
    PROVE  BarTrades(time)
             = Within(request.trades, InRange(request.trades, request.from, request.to),
                      request.bucketSeconds, time)
  <1> DEFINE trades == request.trades
             b == request.bucketSeconds
             In(i) == trades[i].at \in (request.from * Second)..(request.to * Second)
             There(i) == /\ trades[i].at >= time * Second
                         /\ trades[i].at < (time + b) * Second
  <1>1. trades \in Seq(Tradelike) /\ b \in Nat /\ b > 0
    BY DEF CandlesAsked
  <1>2. \A i \in DOMAIN trades : There(i) <=> BucketOf(trades[i], b) = time
    <2>1. \A i \in DOMAIN trades : trades[i] \in Tradelike
      BY <1>1, TradesTyped
    <2>2. time % b = 0
      OBVIOUS
    <2> HIDE DEF trades, b
    <2> QED  BY <1>1, <2>1, <2>2, InBucket
  <1>3. BarTrades(time) = {i \in DOMAIN trades : trades[i].price # NotFinite /\ In(i) /\ There(i)}
    BY DEF BarTrades
  <1>4. Within(trades, InRange(trades, request.from, request.to), b, time)
          = {i \in DOMAIN trades : /\ trades[i].price # NotFinite /\ In(i)
                                   /\ BucketOf(trades[i], b) = time}
    BY DEF Within, InRange
  <1> HIDE DEF In, There
  <1> QED  BY <1>2, <1>3, <1>4

LEMMA CandlesAre ==
    ASSUME CandlesAsked(request),
           answer.udf = GetCandles(request.trades, request.from, request.to,
                                   request.bucketSeconds)
    PROVE  CandlesExact
  <1> DEFINE trades == request.trades
             b == request.bucketSeconds
             from == request.from
             to == request.to
             udf == answer.udf
             asked == InRange(trades, from, to)
             m == Cardinality(asked)
             r == IF m <= MaxRows THEN m ELSE MaxRows
             rows == Rows(trades, from, to)
             bars == Bars(rows, b)
             keys == DOMAIN bars
             whole == m <= MaxRows
             t == SortedKeys(keys)
  <1>1. SUFFICES ASSUME udf.s # "error" PROVE CandlesExact
    BY DEF CandlesExact
  <1>2. udf = [s |-> IF rows = <<>> THEN "no_data" ELSE "ok", t |-> t, bars |-> bars]
    BY <1>1 DEF GetCandles, BucketCandles, ErrorResponse
  <1>3. /\ trades \in Seq(Tradelike) /\ from \in Nat /\ to \in Nat /\ b \in Nat /\ b > 0
        /\ \A i \in 2..Len(trades) : trades[i - 1].at <= trades[i].at
    BY DEF CandlesAsked
  <1>4. asked \subseteq DOMAIN trades /\ \A i \in DOMAIN trades : i \in Nat /\ trades[i] \in Tradelike
    BY <1>3, TradesTyped DEF InRange
  <1>5. ASSUME NEW i \in DOMAIN trades, NEW j \in DOMAIN trades, i <= j
        PROVE  BucketOf(trades[i], b) <= BucketOf(trades[j], b)
    <2> HIDE DEF trades, b
    <2>1. trades[i].at <= trades[j].at
      BY <1>3, <1>5, TradesAscend
    <2> QED  BY <1>3, <1>4, <2>1, BucketsAscend
  <1>6. ASSUME NEW time \in Nat, time % b = 0
        PROVE  BarTrades(time) = Within(trades, asked, b, time)
    BY <1>6, BarTradesAre
  <1>7. /\ m \in Nat /\ Len(rows) = r /\ (rows = <<>> <=> r = 0)
        /\ \E place \in [1..m -> DOMAIN trades] :
             /\ \A i, j \in 1..m : i < j => place[i] < place[j]
             /\ \A i \in 1..m : place[i] \in asked
             /\ \A i \in asked : \E j \in 1..m : place[j] = i
             /\ \A i \in 1..r : rows[i] = trades[place[i]]
    <2> HIDE DEF trades, from, to
    <2> QED  BY <1>3, RowsAre
  <1>8. PICK place \in [1..m -> DOMAIN trades] :
             /\ \A i, j \in 1..m : i < j => place[i] < place[j]
             /\ \A i \in 1..m : place[i] \in asked
             /\ \A i \in asked : \E j \in 1..m : place[j] = i
             /\ \A i \in 1..r : rows[i] = trades[place[i]]
    BY <1>7
  <1> DEFINE T == {place[i] : i \in 1..r}
  <1> HIDE DEF trades, b, from, to, udf, asked, m, rows, bars, t
  <1>9. r \in Nat /\ r <= m /\ m \in Nat /\ MaxRows \in Nat /\ MaxRows > 0
        /\ (whole => r = m) /\ (~whole => r < m)
    BY <1>7, SizesInNat
  <1>10. T \in SUBSET asked /\ T \in SUBSET DOMAIN trades
    BY <1>4, <1>8, <1>9
  <1>11. Collected(trades, bars, T, b)
    <2> DEFINE p == [i \in 1..r |-> place[i]]
    <2>1. 1..r \subseteq 1..m
      BY <1>9
    <2>2. /\ p \in [1..r -> DOMAIN trades]
          /\ \A i, j \in 1..r : i < j => p[i] < p[j]
          /\ \A i \in 1..r : rows[i] = trades[p[i]]
      BY <1>8, <2>1
    <2>3. T = {p[i] : i \in 1..r}
      OBVIOUS
    <2> HIDE DEF p, r, T
    <2> QED  BY <1>3, <1>7, <1>9, <2>2, <2>3, BarsAre DEF bars
  <1>12. /\ IsFiniteSet(keys) /\ keys \subseteq Nat /\ \A k \in keys : k % b = 0
         /\ \A i \in T : trades[i].price # NotFinite => BucketOf(trades[i], b) \in keys
    <2> HIDE DEF T
    <2> QED  BY <1>3, <1>10, <1>11, KeysAre
  <1>13. /\ DOMAIN t = 1..Len(t) /\ Len(t) = Cardinality(keys) /\ Cardinality(keys) \in Nat
         /\ \A i \in DOMAIN t : t[i] \in keys
         /\ \A i, j \in DOMAIN t : i < j => t[i] < t[j]
         /\ \A x \in keys : \E i \in DOMAIN t : t[i] = x
    <2> HIDE DEF keys
    <2>1. keys \in SUBSET Int
      BY <1>12
    <2> QED  BY <1>12, <2>1, SortedKeysAre, FS_CardinalityType DEF t
  <1> HIDE DEF r, T, keys
  (* A trade asked for that no row is comes after all that are.              *)
  <1>14. ASSUME NEW i \in asked, i \notin T
         PROVE  ~whole /\ \A k \in keys : k <= BucketOf(trades[i], b)
    <2>1. PICK j \in 1..m : place[j] = i
      BY <1>8
    <2>2. j > r /\ j \in Nat
      BY <1>9, <1>14, <2>1 DEF T
    <2>3. ~whole
      BY <1>9, <2>1, <2>2
    <2>4. ASSUME NEW k \in keys
          PROVE  k <= BucketOf(trades[i], b)
      <3>1. PICK l \in T : k = BucketOf(trades[l], b)
        BY <1>11 DEF Collected, keys
      <3>2. PICK n \in 1..r : l = place[n]
        BY DEF T
      <3>3. n \in 1..m /\ n < j
        BY <1>9, <2>1, <2>2
      <3>4. place[n] < place[j] /\ l \in DOMAIN trades /\ i \in DOMAIN trades
        BY <1>4, <1>8, <1>10, <2>1, <3>2, <3>3
      <3>5. l <= i
        BY <1>4, <2>1, <3>2, <3>4
      <3> QED  BY <1>5, <3>1, <3>4, <3>5
    <2> QED  BY <2>3, <2>4
  <1>15. ASSUME NEW k \in keys, whole \/ \E c \in keys : k < c
         PROVE  IsBarOf(bars[k], BarTrades(k))
    <2>1. Within(trades, T, b, k) = Within(trades, asked, b, k)
      <3>1. ASSUME NEW i \in asked, BucketOf(trades[i], b) = k
            PROVE  i \in T
        <4>1. ASSUME i \notin T PROVE FALSE
          <5>1. ~whole /\ \A c \in keys : c <= k
            BY <1>14, <3>1, <4>1
          <5> QED  BY <1>12, <1>15, <5>1
        <4> QED  BY <4>1
      <3> QED  BY <1>10, <3>1 DEF Within
    <2>2. BarTrades(k) = Within(trades, T, b, k)
      BY <1>6, <1>12, <2>1
    <2>3. IsBar(trades, bars[k], BarTrades(k))
      BY <1>11, <2>2 DEF Collected, keys
    <2>4. BarTrades(k) \in SUBSET DOMAIN trades
      BY <1>10, <2>2 DEF Within
    <2> QED  BY <1>3, <2>3, <2>4, BarIsOf DEF trades
  <1>16. /\ udf.t = t /\ udf.bars = bars
         /\ udf.s = "no_data" <=> rows = <<>>
    BY <1>2
  <1>17. {udf.t[i] : i \in DOMAIN udf.t} = keys
    BY <1>13, <1>16
  <1>18. \A i \in 2..Len(udf.t) : udf.t[i - 1] < udf.t[i]
    <2>1. ASSUME NEW i \in 2..Len(t)
          PROVE  t[i - 1] < t[i]
      <3>1. i - 1 \in DOMAIN t /\ i \in DOMAIN t /\ i - 1 < i
        BY <1>13
      <3> QED  BY <1>13, <3>1
    <2> QED  BY <1>16, <2>1
  <1>19. ASSUME NEW i \in DOMAIN t, whole \/ i < Len(t)
         PROVE  IsBarOf(bars[t[i]], BarTrades(t[i]))
    <2>1. t[i] \in keys
      BY <1>13
    <2>2. i < Len(t) => \E c \in keys : t[i] < c
      <3>1. SUFFICES ASSUME i < Len(t) PROVE \E c \in keys : t[i] < c
        OBVIOUS
      <3>2. i + 1 \in DOMAIN t /\ i < i + 1
        BY <1>13, <3>1
      <3>3. t[i + 1] \in keys /\ t[i] < t[i + 1]
        BY <1>13, <3>2
      <3> QED  BY <3>3
    <2> QED  BY <1>15, <1>19, <2>1, <2>2
  <1>20. ASSUME NEW time \in Nat, time % b = 0, BarTrades(time) # {}
         PROVE  \/ time \in keys
                \/ ~whole /\ \A other \in keys : other < time
    <2>1. PICK i \in asked : trades[i].price # NotFinite /\ BucketOf(trades[i], b) = time
      BY <1>6, <1>20 DEF Within
    <2>2. CASE i \in T
      BY <1>12, <2>1, <2>2
    <2>3. CASE i \notin T
      <3>1. ~whole /\ \A k \in keys : k <= time
        BY <1>14, <2>1, <2>3
      <3> QED  BY <1>12, <3>1
    <2> QED  BY <2>2, <2>3
  <1>21. udf.s = "no_data" <=> asked = {}
    <2>1. rows = <<>> <=> m = 0
      BY <1>7, <1>9 DEF r
    <2>2. IsFiniteSet(asked)
      BY <1>3, <1>4, TradesTyped, FS_Subset
    <2>3. m = 0 <=> asked = {}
      BY <2>2, FS_EmptySet DEF m
    <2> QED  BY <1>16, <2>1, <2>3
  <1>22. whole <=> Cardinality({i \in DOMAIN request.trades :
                    request.trades[i].at \in (request.from * Second)..(request.to * Second)})
                 <= MaxRows
    BY DEF m, asked, trades, from, to, InRange
  <1>23. asked = {i \in DOMAIN request.trades :
                    request.trades[i].at \in (request.from * Second)..(request.to * Second)}
    BY DEF asked, trades, from, to, InRange
  <1> HIDE DEF whole
  <1>24. /\ \A i \in DOMAIN udf.t :
              whole \/ i < Len(udf.t) => IsBarOf(udf.bars[udf.t[i]], BarTrades(udf.t[i]))
         /\ \A time \in {time \in 0..request.to : time % request.bucketSeconds = 0} :
              BarTrades(time) # {} =>
                \/ time \in keys
                \/ ~whole /\ \A other \in keys : other < time
    <2>1. \A time \in 0..request.to : time \in Nat
      BY <1>3 DEF to
    <2> QED  BY <1>16, <1>19, <1>20, <2>1 DEF b
  <1> QED  BY <1>17, <1>18, <1>21, <1>22, <1>23, <1>24 DEF CandlesExact, udf

-----------------------------------------------------------------------------
(* The process that answers.                                                 *)

AddressAsked(r) ==
    /\ r.list \in Seq(Entrylike) /\ r.forwarded \in Seq(Iplike)
    /\ r.socket \in Iplike /\ r.client \in Iplike /\ r.depth \in Nat
    /\ r.proxied /\ r.depth = 0 => r.socket = r.client
    /\ r.proxied /\ r.depth > 0 =>
         /\ Len(r.forwarded) >= r.depth
         /\ r.forwarded[Len(r.forwarded) - r.depth + 1] = r.client
         /\ \A j \in (Len(r.forwarded) - r.depth + 1)..Len(r.forwarded) :
              r.forwarded[j] # Nothing

RankingsAsked(r) == r.slab \in Slab /\ r.threshold \in Nat

FundingAsked(r) ==
    /\ r.meant \in Int /\ r.limit \in LimitParams
    /\ \E form \in Forms :
         /\ r.since = Written(r.meant, form)
         /\ form = "seconds" => r.meant % Milliseconds = 0

Asked(r) ==
    /\ r.route \in {"none", "address", "candles", "rankings", "funding"}
    /\ r.route = "address" => AddressAsked(r)
    /\ r.route = "candles" => CandlesAsked(r)
    /\ r.route = "rankings" => RankingsAsked(r)
    /\ r.route = "funding" => FundingAsked(r)

Answered(r, a) ==
    /\ a # None => a.route # "none" /\ a.route = r.route
    /\ a.route = "address" =>
         /\ a.http = GetClientIp(r.forwarded, r.socket, r.depth)
         /\ a.upgrade = GetUpgradeIp(r.forwarded, r.socket, r.depth)
         /\ a.verdict = HttpVerdict(r.list, a.http)
         /\ a.upgradeVerdict = UpgradeVerdict(r.list, a.upgrade)
    /\ a.route = "candles" =>
         a.udf \in {GetCandles(r.trades, r.from, r.to, r.bucketSeconds), ErrorResponse}
    /\ a.route = "rankings" => a.response \in RankingResponses(r.slab, r.threshold)
    /\ a.route = "funding" =>
         /\ a.history = GetHistory(r.since, r.limit)
         /\ a.historySince = GetHistorySince(r.since, r.limit)

HandlersInv == Asked(request) /\ Answered(request, answer)

LEMMA NothingAnswered ==
    ASSUME NEW r
    PROVE  Answered(r, None)
  BY DEF Answered, None

LEMMA ArrivingAsked ==
    ASSUME NEW list \in Seq(Entrylike), NEW written \in Seq(Iplike), NEW client \in ClientIps,
           NEW depth \in Nat, NEW proxies \in Seq(Iplike),
           proxies = <<>> \/ Len(proxies) = depth,
           \A i \in DOMAIN proxies : proxies[i] # Nothing
    PROVE  Asked(Arriving(list, written, client, depth, proxies))
  <1> DEFINE r == Arriving(list, written, client, depth, proxies)
             n == Len(proxies)
             rest == SubSeq(proxies, 1, n - 1)
             met == written \o <<client>> \o rest
  <1>1. client \in Iplike /\ client # Nothing
    BY InputsTyped DEF Nothing, Address
  <1>2. /\ r.route = "address" /\ r.list = list /\ r.client = client /\ r.depth = depth
        /\ r.proxied = (depth = n)
        /\ r.forwarded = (IF proxies = <<>> THEN written ELSE met)
        /\ r.socket = (IF proxies = <<>> THEN client ELSE proxies[n])
    BY DEF Arriving
  <1> HIDE DEF r
  <1>3. CASE proxies = <<>>
    <2>1. n = 0
      BY <1>3
    <2>3. r.forwarded = written /\ r.socket = client
      BY <1>2, <1>3
    <2> HIDE DEF n
    <2>2. ~(r.proxied /\ r.depth > 0)
      <3>1. r.proxied <=> depth = 0
        BY <1>2, <2>1 DEF n
      <3> QED  BY <1>2, <3>1
    <2> QED  BY <1>1, <1>2, <2>1, <2>2, <2>3 DEF Asked, AddressAsked, r
  <1>4. CASE proxies # <<>>
    <2>1. n \in Nat /\ n > 0 /\ n = depth /\ DOMAIN proxies = 1..n
      BY <1>4
    <2>2. rest \in Seq(Iplike) /\ Len(rest) = n - 1 /\ \A i \in 1..(n - 1) : rest[i] = proxies[i]
      BY <2>1
    <2> HIDE DEF rest
    <2>3. /\ met \in Seq(Iplike) /\ Len(met) = Len(written) + 1 + (n - 1)
          /\ met[Len(written) + 1] = client
          /\ \A j \in (Len(written) + 2)..Len(met) : met[j] = rest[j - Len(written) - 1]
      <3> DEFINE front == written \o <<client>>
      <3>1. /\ front \in Seq(Iplike) /\ Len(front) = Len(written) + 1
            /\ front[Len(written) + 1] = client
        BY <1>1
      <3> HIDE DEF front
      <3>2. /\ front \o rest \in Seq(Iplike) /\ Len(front \o rest) = Len(front) + Len(rest)
            /\ \A j \in 1..Len(front) : (front \o rest)[j] = front[j]
            /\ \A j \in (Len(front) + 1)..(Len(front) + Len(rest)) :
                 (front \o rest)[j] = rest[j - Len(front)]
        <4>1. Len(front) \in Nat /\ Len(rest) \in Nat
          BY <2>2, <3>1
        <4>2. /\ front \o rest \in Seq(Iplike) /\ Len(front \o rest) = Len(front) + Len(rest)
              /\ \A j \in 1..(Len(front) + Len(rest)) :
                   (front \o rest)[j] = IF j <= Len(front) THEN front[j] ELSE rest[j - Len(front)]
          BY <2>2, <3>1, ConcatProperties
        <4> QED  BY <4>1, <4>2
      <3>3. met = front \o rest
        BY DEF front
      <3> HIDE DEF met
      <3>4. Len(written) \in Nat
        OBVIOUS
      <3>5. ASSUME NEW j \in (Len(written) + 2)..Len(met)
            PROVE  met[j] = rest[j - Len(written) - 1]
        <4>1. j \in (Len(front) + 1)..(Len(front) + Len(rest))
          BY <2>1, <2>2, <3>1, <3>2, <3>3, <3>4, <3>5
        <4>2. j - Len(front) = j - Len(written) - 1
          BY <3>1, <3>4, <4>1
        <4> QED  BY <3>2, <3>3, <4>1, <4>2
      <3>6. Len(written) + 1 \in 1..Len(front)
        BY <3>1, <3>4
      <3> QED  BY <2>1, <2>2, <3>1, <3>2, <3>3, <3>5, <3>6
    <2>4. Len(written) \in Nat
      OBVIOUS
    <2> DEFINE m == Len(met)
    <2> HIDE DEF met
    <2>5. m - depth + 1 = Len(written) + 1 /\ m >= depth
      BY <2>1, <2>3, <2>4
    <2>6. ASSUME NEW j \in (m - depth + 1)..m
          PROVE  met[j] # Nothing
      <3>1. CASE j = Len(written) + 1
        BY <1>1, <2>3, <3>1
      <3>2. CASE j # Len(written) + 1
        <4>1. j \in (Len(written) + 2)..m /\ j - Len(written) - 1 \in 1..(n - 1)
          BY <2>1, <2>3, <2>4, <2>5, <3>2
        <4>2. met[j] = proxies[j - Len(written) - 1] /\ j - Len(written) - 1 \in DOMAIN proxies
          BY <2>1, <2>2, <2>3, <4>1
        <4> QED  BY <4>2
      <3> QED  BY <3>1, <3>2
    <2>7. proxies[n] \in Iplike
      BY <2>1
    <2>8. r.forwarded = met /\ r.socket = proxies[n]
      BY <1>2, <1>4
    <2>9. AddressAsked(r)
      <3> HIDE DEF n
      <3>1. r.forwarded \in Seq(Iplike) /\ r.socket \in Iplike /\ r.client \in Iplike
        BY <1>1, <1>2, <2>3, <2>7, <2>8
      <3>2. /\ Len(r.forwarded) >= r.depth
            /\ r.forwarded[Len(r.forwarded) - r.depth + 1] = r.client
        BY <1>2, <2>3, <2>5, <2>8
      <3>3. \A j \in (Len(r.forwarded) - r.depth + 1)..Len(r.forwarded) : r.forwarded[j] # Nothing
        BY <1>2, <2>6, <2>8
      <3>4. r.list \in Seq(Entrylike) /\ r.depth \in Nat /\ r.depth > 0
        BY <1>2, <2>1
      <3> QED  BY <3>1, <3>2, <3>3, <3>4 DEF AddressAsked
    <2> QED  BY <1>2, <2>9 DEF Asked, r
  <1> QED  BY <1>3, <1>4

LEMMA EntriesTyped == Entries \subseteq Entrylike
  <1>1. Width \in Int /\ NaN \in Int /\ Blank \in Int
    BY WidthIs DEF NaN, Blank
  <1>2. \A ip \in ListedIps : Exact(ip) \in Entrylike
    BY InputsTyped DEF Exact, Entrylike
  <1>3. \A ip \in ListedIps, prefix \in Int : Cidr(ip, prefix) \in Entrylike
    BY InputsTyped DEF Cidr, Entrylike
  <1>4. {NaN, Blank} \union 0..(Halves * Width + 1) \subseteq Int
    BY <1>1 DEF Halves
  <1> QED  BY <1>2, <1>3, <1>4 DEF Entries

LEMMA OneListed ==
    ASSUME NEW P, NEW p \in P
    PROVE  <<p>> \in [1..1 -> P]
  <1>1. <<p>> \in Seq(P) /\ Len(<<p>>) = 1
    OBVIOUS
  <1> QED  BY <1>1

LEMMA ProxiesListed ==
    ASSUME NEW n \in Nat, NEW P, NEW proxies \in [1..n -> P], P \subseteq Iplike,
           \A p \in P : p # Nothing
    PROVE  /\ proxies \in Seq(Iplike) /\ Len(proxies) = n
           /\ \A i \in DOMAIN proxies : proxies[i] # Nothing
  <1>1. proxies \in Seq(Iplike)
    OBVIOUS
  <1>2. DOMAIN proxies = 1..n /\ \A i \in 1..n : proxies[i] \in P
    OBVIOUS
  <1>3. Len(proxies) = n
    BY <1>1, <1>2
  <1> QED  BY <1>1, <1>2, <1>3

LEMMA HandlersInit_Inv == HandlersInit => HandlersInv
  BY DEF HandlersInit, HandlersInv, Asked, Answered, None

LEMMA AskedReceived == ASSUME Receive PROVE Asked(request')
  <1>1. CASE ReceiveFromListed
    <2>1. PICK entry \in Entries, client \in ClientIps :
            request' = Arriving(<<entry>>, <<>>, client, 1, <<Text(FALSE)>>)
      BY <1>1 DEF ReceiveFromListed
    <2>2. <<entry>> \in Seq(Entrylike) /\ <<>> \in Seq(Iplike)
      BY EntriesTyped
    <2>3. Text(FALSE) \in Iplike /\ Text(FALSE) # Nothing
      BY DEF Text, Nothing, Address, Iplike, NaN
    <2> DEFINE proxies == <<Text(FALSE)>>
    <2>4. /\ proxies \in Seq(Iplike) /\ Len(proxies) = 1
          /\ \A i \in DOMAIN proxies : proxies[i] # Nothing
      <3> DEFINE P == {Text(FALSE)}
      <3>1. Text(FALSE) \in P /\ P \subseteq Iplike /\ \A p \in P : p # Nothing
        BY <2>3
      <3> HIDE DEF P
      <3>3. proxies \in [1..1 -> P]
        BY <3>1, OneListed
      <3> HIDE DEF proxies
      <3> QED  BY <3>1, <3>3, ProxiesListed
    <2> HIDE DEF proxies
    <2>5. Asked(Arriving(<<entry>>, <<>>, client, 1, proxies))
      BY <2>2, <2>4, ArrivingAsked
    <2> QED  BY <2>1, <2>5 DEF proxies
  <1>2. CASE ReceiveThroughProxies
    <2>1. PICK ip \in ClientIps, client \in ClientIps, depth \in Depths,
               written \in BoundedSeq(WrittenItems, MaxWritten) :
            \E proxies \in {<<>>} \union [1..depth -> {Text(FALSE), ip}] :
              request' = Arriving(<<Cidr(client, NaN), Exact(ip)>>, written, client, depth, proxies)
      BY <1>2 DEF ReceiveThroughProxies
    <2>2. PICK proxies \in {<<>>} \union [1..depth -> {Text(FALSE), ip}] :
            request' = Arriving(<<Cidr(client, NaN), Exact(ip)>>, written, client, depth, proxies)
      BY <2>1
    <2>3. Text(FALSE) \in Iplike /\ Text(FALSE) # Nothing
      BY DEF Text, Nothing, Address, Iplike, NaN
    <2>4. ip \in Iplike /\ ip # Nothing /\ client \in Iplike
      BY InputsTyped DEF Nothing, Address
    <2>5. depth \in Nat
      BY InputsTyped
    <2>6. Cidr(client, NaN) \in Entrylike /\ Exact(ip) \in Entrylike
      BY <2>4 DEF Cidr, Exact, Entrylike, NaN
    <2>7. <<Cidr(client, NaN), Exact(ip)>> \in Seq(Entrylike)
      BY <2>6
    <2>8. written \in Seq(Iplike)
      <3>1. PICK m \in 0..MaxWritten : written \in [1..m -> WrittenItems]
        BY DEF BoundedSeq, SeqOf
      <3>2. WrittenItems \subseteq Iplike /\ m \in Nat
        BY InputsTyped
      <3> QED  BY <3>1, <3>2
    <2>9. /\ proxies \in Seq(Iplike) /\ (proxies = <<>> \/ Len(proxies) = depth)
          /\ \A i \in DOMAIN proxies : proxies[i] # Nothing
      <3>1. CASE proxies = <<>>
        BY <3>1
      <3>2. CASE proxies \in [1..depth -> {Text(FALSE), ip}]
        <4> DEFINE P == {Text(FALSE), ip}
        <4>1. P \subseteq Iplike /\ \A p \in P : p # Nothing
          BY <2>3, <2>4
        <4> HIDE DEF P
        <4>2. proxies \in [1..depth -> P]
          BY <3>2 DEF P
        <4> QED  BY <2>5, <4>1, <4>2, ProxiesListed
      <3> QED  BY <3>1, <3>2
    <2> QED  BY <2>2, <2>5, <2>7, <2>8, <2>9, ArrivingAsked
  <1>3. CASE ReceiveCandles
    <2>1. PICK n \in 0..MaxTrades, range \in Ranges, bucketSeconds \in Resolutions :
            \E at \in {at \in [1..n -> Ats] : \A i \in 2..n : at[i - 1] <= at[i]},
               price \in [1..n -> Prices], size \in Sizes :
              request' = [route |-> "candles", bucketSeconds |-> bucketSeconds,
                          from |-> range[1], to |-> range[2],
                          trades |-> [i \in 1..n |->
                                        [at |-> at[i], price |-> price[i], size |-> size]]]
      BY <1>3 DEF ReceiveCandles
    <2>2. PICK at \in {at \in [1..n -> Ats] : \A i \in 2..n : at[i - 1] <= at[i]},
               price \in [1..n -> Prices], size \in Sizes :
              request' = [route |-> "candles", bucketSeconds |-> bucketSeconds,
                          from |-> range[1], to |-> range[2],
                          trades |-> [i \in 1..n |->
                                        [at |-> at[i], price |-> price[i], size |-> size]]]
      BY <2>1
    <2> DEFINE trades == [i \in 1..n |-> [at |-> at[i], price |-> price[i], size |-> size]]
    <2>3. /\ request'.route = "candles" /\ request'.trades = trades
          /\ request'.from = range[1] /\ request'.to = range[2]
          /\ request'.bucketSeconds = bucketSeconds
      BY <2>2
    <2>4. /\ n \in Nat /\ range[1] \in Nat /\ range[2] \in Nat
          /\ bucketSeconds \in Nat /\ bucketSeconds > 0
      BY InputsTyped
    <2>5. /\ \A i \in 1..n : trades[i] \in Tradelike
          /\ \A i \in 2..n : trades[i - 1].at <= trades[i].at
      <3>1. \A i \in 1..n : at[i] \in Nat /\ price[i] \in Int /\ size \in Int
        BY InputsTyped
      <3>2. \A i \in 2..n : i - 1 \in 1..n /\ i \in 1..n /\ at[i - 1] <= at[i]
        BY <2>4
      <3> QED  BY <3>1, <3>2 DEF Tradelike
    <2>6. trades \in Seq(Tradelike) /\ Len(trades) = n
      <3>1. trades \in [1..n -> Tradelike]
        BY <2>5
      <3> HIDE DEF trades
      <3>2. trades \in Seq(Tradelike)
        BY <2>4, <3>1
      <3>3. DOMAIN trades = 1..n /\ DOMAIN trades = 1..Len(trades) /\ Len(trades) \in Nat
        BY <3>1, <3>2
      <3> QED  BY <2>4, <3>2, <3>3
    <2> HIDE DEF trades
    <2>7. CandlesAsked(request')
      BY <2>3, <2>4, <2>5, <2>6 DEF CandlesAsked
    <2> QED  BY <2>3, <2>7 DEF Asked
  <1>4. CASE ReceiveRankings
    <2>1. PICK accounts \in [Slots -> Accounts], layout \in Layouts :
            request' = [route |-> "rankings", threshold |-> 0,
                        slab |-> [pnlPosTot |-> 2, maxPnlCap |-> 1,
                                  fund |-> [balance |-> 0, feeRevenue |-> 0],
                                  layout |-> layout, accounts |-> accounts]]
      BY <1>4 DEF ReceiveRankings
    <2>2. accounts \in [Slots -> Accountlike]
      BY InputsTyped
    <2>3. /\ request'.route = "rankings" /\ request'.threshold = 0
          /\ request'.slab = [pnlPosTot |-> 2, maxPnlCap |-> 1,
                              fund |-> [balance |-> 0, feeRevenue |-> 0],
                              layout |-> layout, accounts |-> accounts]
      BY <2>1
    <2>4. request'.slab \in Slab
      BY <2>2, <2>3 DEF Slab, Fundlike
    <2> QED  BY <2>3, <2>4 DEF Asked, RankingsAsked
  <1>5. CASE ReceiveTrigger
    <2>1. PICK tot \in Amounts, cap \in Caps, fund \in Funds, threshold \in Thresholds,
               account \in Accounts :
            request' = [route |-> "rankings", threshold |-> threshold,
                        slab |-> [pnlPosTot |-> tot, maxPnlCap |-> cap, fund |-> fund,
                                  layout |-> "slab", accounts |-> [slot \in Slots |-> account]]]
      BY <1>5 DEF ReceiveTrigger
    <2>2. /\ tot \in Int /\ cap \in Int /\ fund \in Fundlike /\ threshold \in Nat
          /\ [slot \in Slots |-> account] \in [Slots -> Accountlike]
      BY InputsTyped
    <2>3. /\ request'.route = "rankings" /\ request'.threshold = threshold
          /\ request'.slab = [pnlPosTot |-> tot, maxPnlCap |-> cap, fund |-> fund,
                              layout |-> "slab", accounts |-> [slot \in Slots |-> account]]
      BY <2>1
    <2>4. request'.slab \in Slab
      BY <2>2, <2>3 DEF Slab, Layouts
    <2> QED  BY <2>2, <2>3, <2>4 DEF Asked, RankingsAsked
  <1>6. CASE ReceiveFunding
    <2>1. PICK instant \in Instants, form \in Forms,
               limit \in {NoParam, OtherParam} \union {NumberParam(n) : n \in Limits} :
            /\ form = "seconds" => instant % Milliseconds = 0
            /\ request' = [route |-> "funding", meant |-> instant,
                           since |-> Written(instant, form), limit |-> limit]
      BY <1>6 DEF ReceiveFunding, Forms
    <2>2. instant \in Int /\ limit \in LimitParams
      BY InputsTyped DEF LimitParams
    <2>3. /\ request'.route = "funding" /\ request'.meant = instant
          /\ request'.since = Written(instant, form) /\ request'.limit = limit
      BY <2>1
    <2> QED  BY <2>1, <2>2, <2>3 DEF Asked, FundingAsked
  <1> QED  BY <1>1, <1>2, <1>3, <1>4, <1>5, <1>6 DEF Receive

LEMMA AnswersInv == ASSUME HandlersInv, Reply PROVE HandlersInv'
  <1>1. request' = request
    BY DEF Reply
  <1>2. Answered(request, answer')
    <2>1. CASE AnswerAddress
      BY <2>1 DEF AnswerAddress, Answered
    <2>2. CASE AnswerCandles
      BY <2>2 DEF AnswerCandles, Answered
    <2>3. CASE AnswerRankings
      BY <2>3 DEF AnswerRankings, Answered
    <2>4. CASE AnswerFunding
      BY <2>4 DEF AnswerFunding, Answered
    <2> QED  BY <2>1, <2>2, <2>3, <2>4 DEF Reply
  <1> QED  BY <1>1, <1>2 DEF HandlersInv

LEMMA HandlersInductive == HandlersInv /\ [HandlersNext]_handlerVars => HandlersInv'
  <1> SUFFICES ASSUME HandlersInv, [HandlersNext]_handlerVars PROVE HandlersInv'
    OBVIOUS
  <1>1. CASE Receive
    <2>1. request = None /\ answer' = answer
      BY <1>1 DEF Receive
    <2>2. answer = None
      BY <2>1 DEF HandlersInv, Answered, None
    <2> QED  BY <1>1, <2>1, <2>2, AskedReceived, NothingAnswered DEF HandlersInv
  <1>2. CASE Reply
    BY <1>2, AnswersInv
  <1>3. CASE Finish
    BY <1>3 DEF Finish, HandlersInv, Asked, Answered, None
  <1>4. CASE UNCHANGED handlerVars
    BY <1>4 DEF handlerVars, HandlersInv
  <1> QED  BY <1>1, <1>2, <1>3, <1>4 DEF HandlersNext

THEOREM HandlersInvariant == HandlersSpec => []HandlersInv
  BY HandlersInit_Inv, HandlersInductive, PTL DEF HandlersSpec

LEMMA HandlersTyped == HandlersInv => HandlersTypeOK
  BY DEF HandlersInv, Asked, Answered, HandlersTypeOK, None

THEOREM HandlersTypesCorrect == HandlersSpec => []HandlersTypeOK
  BY HandlersInvariant, HandlersTyped, PTL

LEMMA ClientIs ==
    ASSUME NEW forwarded \in Seq(Iplike), NEW socket \in Iplike, NEW depth \in Nat
    PROVE  LET ip == GetClientIp(forwarded, socket, depth)
           IN  ip \in Iplike /\ ~ip.mapped /\ NormalizeIp(ip) = ip
  <1> DEFINE ips == Listed(forwarded)
  <1>1. ips \in Seq(Iplike)
    BY ListedIs
  <1>2. Nothing \in Iplike
    BY DEF Nothing, Address, Iplike
  <1>3. depth # 0 => FromTheRight(ips, depth) \in Iplike
    <2>1. CASE ips = <<>>
      BY <1>2, <2>1 DEF FromTheRight
    <2>2. CASE ips # <<>>
      <3> HIDE DEF ips
      <3> QED  BY <1>1, <2>2, FromTheRightIs
    <2> QED  BY <2>1, <2>2
  <1>4. \A ip \in Iplike : /\ NormalizeIp(ip) \in Iplike /\ ~NormalizeIp(ip).mapped
                         /\ NormalizeIp(NormalizeIp(ip)) = NormalizeIp(ip)
    BY DEF NormalizeIp, Address, Iplike
  <1> HIDE DEF ips
  <1> QED  BY <1>3, <1>4 DEF GetClientIp, ips

(* A blocklist refuses exactly whom its entries name (BlocklistExact).       *)
THEOREM BlocklistIsExact == HandlersSpec => []BlocklistExact
  <1>1. ASSUME HandlersInv PROVE BlocklistExact
    <2>1. SUFFICES ASSUME answer.route = "address", answer.http # Nothing
                   PROVE  answer.verdict
                            = (IF \E i \in DOMAIN request.list : Names(request.list[i], answer.http)
                               THEN "403" ELSE "next")
      BY DEF BlocklistExact
    <2>2. AddressAsked(request) /\ Answered(request, answer)
      BY <1>1, <2>1 DEF HandlersInv, Asked, Answered, None
    <2>3. /\ answer.http = GetClientIp(request.forwarded, request.socket, request.depth)
          /\ answer.verdict = HttpVerdict(request.list, answer.http)
      BY <2>1, <2>2 DEF Answered
    <2>7. /\ request.forwarded \in Seq(Iplike) /\ request.socket \in Iplike
          /\ request.depth \in Nat
      BY <2>2 DEF AddressAsked
    <2>4. answer.http \in Iplike /\ ~answer.http.mapped /\ NormalizeIp(answer.http) = answer.http
      <3> DEFINE ip == GetClientIp(request.forwarded, request.socket, request.depth)
      <3>1. ip \in Iplike /\ ~ip.mapped /\ NormalizeIp(ip) = ip
        BY <2>7, ClientIs
      <3> HIDE DEF ip
      <3>2. answer.http = ip
        BY <2>3 DEF ip
      <3> QED  BY <3>1, <3>2
    <2>5. answer.verdict = IF IsBlocked(request.list, answer.http) THEN "403" ELSE "next"
      BY <2>1, <2>3, <2>4, SameVerdict
    <2>6. IsBlocked(request.list, answer.http)
            <=> \E i \in DOMAIN request.list : Names(request.list[i], answer.http)
      BY <2>2, <2>4, BlockedNamed DEF AddressAsked
    <2> QED  BY <2>5, <2>6
  <1> QED  BY <1>1, HandlersInvariant, PTL

(* Behind the proxies that are configured the client is the peer of the      *)
(* first, and both copies of the code agree (TrustedAddress).                *)
THEOREM AddressIsTrusted == HandlersSpec => []TrustedAddress
  <1>1. ASSUME HandlersInv PROVE TrustedAddress
    <2>1. SUFFICES ASSUME answer.route = "address"
                   PROVE  /\ request.proxied => answer.http = NormalizeIp(request.client)
                          /\ answer.http # Nothing =>
                               answer.upgrade = answer.http
                                 /\ answer.upgradeVerdict = answer.verdict
                          /\ answer.http = Nothing =>
                               answer.upgrade \in {Nothing, NormalizeIp(request.socket)}
      BY DEF TrustedAddress
    <2>2. AddressAsked(request) /\ Answered(request, answer)
      BY <1>1, <2>1 DEF HandlersInv, Asked, Answered, None
    <2>3. /\ answer.http = GetClientIp(request.forwarded, request.socket, request.depth)
          /\ answer.upgrade = GetUpgradeIp(request.forwarded, request.socket, request.depth)
          /\ answer.verdict = HttpVerdict(request.list, answer.http)
          /\ answer.upgradeVerdict = UpgradeVerdict(request.list, answer.upgrade)
      BY <2>1, <2>2 DEF Answered
    <2>4. /\ request.forwarded \in Seq(Iplike) /\ request.socket \in Iplike
          /\ request.depth \in Nat
      BY <2>2 DEF AddressAsked
    <2>5. NormalizeIp(answer.http) = answer.http
      BY <2>3, <2>4, ClientIs
    <2>6. /\ answer.http # Nothing => answer.upgrade = answer.http
          /\ answer.http = Nothing => answer.upgrade \in {Nothing, NormalizeIp(request.socket)}
      BY <2>3, <2>4, SameAddress
    <2>7. answer.http # Nothing => answer.upgradeVerdict = answer.verdict
      BY <2>3, <2>5, <2>6, SameVerdict
    <2>8. request.proxied => answer.http = NormalizeIp(request.client)
      <3>1. CASE request.depth = 0
        BY <2>2, <2>3, <3>1 DEF AddressAsked, GetClientIp
      <3>2. CASE request.depth # 0
        <4> DEFINE f == request.forwarded
                   d == request.depth
        <4>1. d \in Nat /\ d > 0 /\ f \in Seq(Iplike)
          BY <2>4, <3>2
        <4>2. request.proxied =>
                /\ Len(f) >= d /\ f[Len(f) - d + 1] = request.client
                /\ \A j \in (Len(f) - d + 1)..Len(f) : f[j] # Nothing
          BY <2>2, <4>1 DEF AddressAsked
        <4> HIDE DEF f, d
        <4>3. request.proxied => GetClientIp(f, request.socket, d) = NormalizeIp(request.client)
          BY <2>4, <4>1, <4>2, FirstPeerTaken
        <4> QED  BY <2>3, <4>3 DEF f, d
      <3> QED  BY <3>1, <3>2
    <2> QED  BY <2>6, <2>7, <2>8
  <1> QED  BY <1>1, HandlersInvariant, PTL

(* A v17 or unreadable market is refused; of another, positions are ranked   *)
(* when deleveraging is due, and fairly (RankingFair).                       *)
THEOREM RankingsAreFair == HandlersSpec => []RankingFair
  <1>1. ASSUME HandlersInv PROVE RankingFair
    <2> DEFINE slab == request.slab
               accounts == slab.accounts
               response == answer.response
               order == response.rankings
    <2>1. SUFFICES ASSUME answer.route = "rankings" PROVE RankingFair
      BY DEF RankingFair
    <2>2. /\ slab \in Slab /\ request.threshold \in Nat
          /\ response \in RankingResponses(slab, request.threshold)
      BY <1>1, <2>1 DEF HandlersInv, Asked, RankingsAsked, Answered, None
    <2>3. CASE slab.layout \in {"v17", "unparsable"}
      <3>1. response.status = 400
        BY <2>2, <2>3 DEF RankingResponses
      <3> QED  BY <2>3, <3>1 DEF RankingFair
    <2>4. SUFFICES ASSUME slab.layout \notin {"v17", "unparsable"} PROVE RankingFair
      BY <2>3
    <2>5. /\ slab.layout \in {"unranked", "slab"} /\ response.status = 200
          /\ response.adlNeeded <=> Due(slab, request.threshold)
          /\ ~(response.adlNeeded /\ slab.layout = "slab") => order = <<>>
          /\ response.adlNeeded /\ slab.layout = "slab" =>
               /\ \A i \in DOMAIN accounts :
                    Cardinality({r \in DOMAIN order : order[r] = i})
                      = (IF accounts[i].position # 0 /\ accounts[i].pnl > 0 THEN 1 ELSE 0)
               /\ \A r \in DOMAIN order : order[r] \in DOMAIN accounts
               /\ \A q, r \in DOMAIN order : q < r =>
                    ~RanksBefore(accounts[order[r]], accounts[order[q]])
      <3> HIDE DEF slab, response
      <3> QED  BY <2>2, <2>4, RankingIsFair
    <2>6. \A i \in DOMAIN accounts : accounts[i] \in Accountlike
      BY <2>2 DEF Slab
    <2>7. \A i \in DOMAIN accounts : Max({accounts[i].capital, 1}) = Capital(accounts[i])
      BY <2>6, CapitalIs
    <2>8. ASSUME response.adlNeeded, slab.layout = "slab",
                 NEW q \in DOMAIN order, NEW r \in DOMAIN order, q < r
          PROVE  LET i == order[q]
                     j == order[r]
                     capital(k) == Max({accounts[k].capital, 1})
                     lead(k, l) == accounts[k].pnl * capital(l) - accounts[l].pnl * capital(k)
                 IN  /\ lead(j, i) * Millionths < capital(i) * capital(j)
                     /\ lead(j, i) = 0 => accounts[i].pnl >= accounts[j].pnl
      <3> DEFINE a == accounts[order[q]]
                 b == accounts[order[r]]
      <3>1. a \in Accountlike /\ b \in Accountlike /\ ~RanksBefore(b, a)
        BY <2>5, <2>6, <2>8
      <3>2. Max({a.capital, 1}) = Capital(a) /\ Max({b.capital, 1}) = Capital(b)
        BY <3>1, CapitalIs
      <3> HIDE DEF a, b
      <3>3. /\ PnlPct(a) \in Int /\ PnlPct(b) \in Int /\ a.pnl \in Int /\ b.pnl \in Int
        <4>1. /\ Capital(a) \in Nat /\ Capital(a) > 0 /\ Capital(b) \in Nat /\ Capital(b) > 0
              /\ a.pnl \in Int /\ b.pnl \in Int /\ Millionths \in Nat
          BY <3>1, CapitalIs, ScalesPositive DEF Accountlike
        <4>2. a.pnl * Millionths \in Int /\ b.pnl * Millionths \in Int
          BY <4>1
        <4> QED  BY <4>1, <4>2, Divided DEF PnlPct
      <3>4. PnlPct(a) >= PnlPct(b) /\ (PnlPct(a) = PnlPct(b) => a.pnl >= b.pnl)
        BY <3>1, <3>3 DEF RanksBefore
      <3>5. Lead(b, a) * Millionths < Capital(a) * Capital(b)
        BY <3>1, <3>4, RoundingIsSmall
      <3>6. Lead(b, a) = 0 => a.pnl >= b.pnl
        BY <3>1, <3>4, EqualsRoundEqually
      <3> QED  BY <3>2, <3>5, <3>6 DEF Lead, a, b
    <2>9. response.adlNeeded /\ slab.layout = "slab" => FairOrder(accounts, order)
      BY <2>5, <2>8 DEF FairOrder
    <2> HIDE DEF accounts, order
    <2>10. IF response.adlNeeded /\ slab.layout = "slab"
             THEN FairOrder(accounts, order) ELSE order = <<>>
      BY <2>5, <2>9
    <2> QED  BY <2>1, <2>5, <2>10 DEF RankingFair, Due, accounts, order
  <1> QED  BY <1>1, HandlersInvariant, PTL

(* An instant means the same however it is written (SinceUnderstood).        *)
THEOREM SinceIsUnderstood == HandlersSpec => []SinceUnderstood
  <1>1. ASSUME HandlersInv PROVE SinceUnderstood
    <2>1. SUFFICES ASSUME answer.route = "funding" PROVE SinceUnderstood
      BY DEF SinceUnderstood
    <2>2. /\ FundingAsked(request)
          /\ answer.history = GetHistory(request.since, request.limit)
          /\ answer.historySince = GetHistorySince(request.since, request.limit)
      BY <1>1, <2>1 DEF HandlersInv, Asked, Answered, None
    <2>3. PICK form \in Forms :
            /\ request.since = Written(request.meant, form)
            /\ form = "seconds" => request.meant % Milliseconds = 0
      BY <2>2 DEF FundingAsked
    <2>4. request.meant \in Int /\ request.limit \in LimitParams
      BY <2>2 DEF FundingAsked
    <2>5. \A query \in {answer.history, answer.historySince} :
            /\ request.meant \in Years => query.status = 200 /\ query.since = request.meant
            /\ request.since.as = "date" /\ request.meant \notin Years => query.status = 400
            /\ query.status = 200 => query.rows \in 1..MaxRowsAsked
      BY <2>2, <2>3, <2>4, QueriesAre
    <2> QED  BY <2>5 DEF SinceUnderstood
  <1> QED  BY <1>1, HandlersInvariant, PTL

(* The candles are those of the trades asked for (CandlesExact).             *)
THEOREM CandlesAreExact == HandlersSpec => []CandlesExact
  <1>1. ASSUME HandlersInv PROVE CandlesExact
    <2>1. SUFFICES ASSUME answer.route = "candles" PROVE CandlesExact
      BY DEF CandlesExact
    <2>2. CandlesAsked(request) /\ Answered(request, answer)
      BY <1>1, <2>1 DEF HandlersInv, Asked, Answered, None
    <2>3. CASE answer.udf = GetCandles(request.trades, request.from, request.to,
                                       request.bucketSeconds)
      BY <2>2, <2>3, CandlesAre
    <2>4. CASE answer.udf = ErrorResponse
      BY <2>4 DEF CandlesExact, ErrorResponse
    <2> QED  BY <2>1, <2>2, <2>3, <2>4 DEF Answered
  <1> QED  BY <1>1, HandlersInvariant, PTL

-----------------------------------------------------------------------------
(* What an attempt or a query has left, and what went before it.             *)
Timed ==
    \A r \in Requests :
        /\ stage[r] = "idle" => waited[r] = 0
        /\ Trying(r) => elapsed[r] + timer[r] = Timeout
        /\ stage[r] = "primary" => waited[r] + timer[r] <= Timeout
        /\ stage[r] = "fallback" => waited[r] + timer[r] <= 2 * Timeout
        /\ stage[r] = "db" =>
             /\ route[r] = "health" /\ timer[r] <= DbWait
             /\ age[r] + timer[r] <= Timeout + DbWait
             /\ waited[r] + timer[r] <= 2 * Timeout + DbWait

(* A log, of which a is followed by b.                                       *)
Before(log, a, b) ==
    \E m, n \in DOMAIN log : m < n /\ log[m] = a /\ log[n] = b

(* A Map and the log of its uses, the last one last: the same slabs, and in  *)
(* the same order, unless an entry was stored in place.                      *)
Ordered(map, log) ==
    /\ map \in Seq(Entry) /\ log \in Seq(Slabs)
    /\ \A i, j \in DOMAIN map : map[i].slab = map[j].slab => i = j
    /\ \A i, j \in DOMAIN log : log[i] = log[j] => i = j
    /\ \A i \in DOMAIN map : \E m \in DOMAIN log : log[m] = map[i].slab
    /\ \A m \in DOMAIN log : \E i \in DOMAIN map : map[i].slab = log[m]
    /\ \A i, j \in DOMAIN map :
         i < j /\ ~map[i].inPlace => Before(log, map[i].slab, map[j].slab)

(* The invariant, by what it is about.                                       *)
MapInv ==
    /\ Ordered(adlCache, used) /\ Len(adlCache) <= MaxEntries
    /\ \A i \in DOMAIN adlCache : adlCache[i].fresh > 0 =>
         adlCache[i].age + adlCache[i].fresh <= AdlTtl + Timeout
HealthInv ==
    /\ cachedHealth \subseteq [age : 0..MaxAge, fresh : 1..HealthTtl]
    /\ \A h \in cachedHealth : h.age + h.fresh <= HealthTtl + Timeout + DbWait
Stages == {"idle", "primary", "fallback", "db"}
RequestInv ==
    /\ route \in [Requests -> Routes] /\ stage \in [Requests -> Stages]
    /\ timer \in [Requests -> 0..(Timeout + DbWait)]
    /\ elapsed \in [Requests -> 0..Timeout] /\ late \in [Requests -> BOOLEAN]
    /\ age \in [Requests -> 0..MaxAge] /\ waited \in [Requests -> 0..MaxAge]
    /\ Timed
IInv == MapInv /\ HealthInv /\ RequestInv
-----------------------------------------------------------------------------
USE WaitsNatural, RoutesKnown

(* A slab, if it is there, is taken out of the log: the order of the others  *)
(* stays.                                                                    *)
LEMMA LogWithout ==
    ASSUME NEW log \in Seq(Slabs), \A i, j \in DOMAIN log : log[i] = log[j] => i = j,
           NEW K
    PROVE  LET rest == Kept(log, K)
           IN  /\ rest \in Seq(Slabs)
               /\ \A i, j \in DOMAIN rest : rest[i] = rest[j] => i = j
               /\ \A m \in DOMAIN rest : rest[m] \in K /\ \E i \in DOMAIN log : log[i] = rest[m]
               /\ \A m \in DOMAIN log : log[m] \in K =>
                    \E i \in DOMAIN rest : rest[i] = log[m]
               /\ \A a, b \in K : Before(log, a, b) => Before(rest, a, b)
  <1> DEFINE rest == Kept(log, K)
  <1>1. rest \in Seq(Slabs) /\ \E place : Places(log, K, rest, Len(log), place)
    BY KeptPlaces
  <1>2. PICK place : Places(log, K, rest, Len(log), place)
    BY <1>1
  <1> HIDE DEF rest
  <1>3. DOMAIN rest = 1..Len(rest) /\ DOMAIN log = 1..Len(log)
        /\ Len(rest) \in Nat /\ Len(log) \in Nat
    BY <1>1
  <1>4. \A i \in DOMAIN rest : /\ place[i] \in DOMAIN log
                               /\ rest[i] = log[place[i]] /\ rest[i] \in K
    BY <1>2, <1>3 DEF Places
  <1>5. \A i, j \in DOMAIN rest : i < j => place[i] < place[j]
    BY <1>2, <1>3 DEF Places
  <1>6. \A m \in DOMAIN log : log[m] \in K => \E i \in DOMAIN rest : place[i] = m
    BY <1>2, <1>3 DEF Places
  <1>7. ASSUME NEW i \in DOMAIN rest, NEW j \in DOMAIN rest, rest[i] = rest[j]
        PROVE  i = j
    <2>1. place[i] = place[j] /\ place[i] \in Nat
      BY <1>3, <1>4, <1>7
    <2> QED  BY <1>3, <1>5, <2>1
  <1>8. ASSUME NEW a \in K, NEW b \in K, Before(log, a, b)
        PROVE  Before(rest, a, b)
    <2>1. PICK m \in DOMAIN log, n \in DOMAIN log : m < n /\ log[m] = a /\ log[n] = b
      BY <1>8 DEF Before
    <2>2. PICK i \in DOMAIN rest, j \in DOMAIN rest : place[i] = m /\ place[j] = n
      BY <1>6, <2>1
    <2>3. m \in Nat /\ n \in Nat /\ i \in Nat /\ j \in Nat
      BY <1>3
    <2>4. i # j /\ ~(j < i)
      BY <1>5, <2>1, <2>2, <2>3
    <2>5. i < j
      BY <2>3, <2>4
    <2> QED  BY <1>4, <2>1, <2>2, <2>5 DEF Before
  <1>9. /\ \A m \in DOMAIN rest : rest[m] \in K /\ \E i \in DOMAIN log : log[i] = rest[m]
        /\ \A m \in DOMAIN log : log[m] \in K => \E i \in DOMAIN rest : rest[i] = log[m]
    BY <1>4, <1>6
  <1> QED  BY <1>1, <1>7, <1>8, <1>9 DEF rest

(* A slab is used: it is the last one of the log.                            *)
LEMMA LogUsed ==
    ASSUME NEW log \in Seq(Slabs), \A i, j \in DOMAIN log : log[i] = log[j] => i = j,
           NEW slab \in Slabs
    PROVE  LET new == MovedLast(log, slab)
           IN  /\ new \in Seq(Slabs)
               /\ \A i, j \in DOMAIN new : new[i] = new[j] => i = j
               /\ \E m \in DOMAIN new : new[m] = slab
               /\ \A m \in DOMAIN new : new[m] = slab \/ \E i \in DOMAIN log : log[i] = new[m]
               /\ \A m \in DOMAIN log : \E i \in DOMAIN new : new[i] = log[m]
               /\ \A m \in DOMAIN log : log[m] # slab => Before(new, log[m], slab)
               /\ \A a, b : a # slab /\ b # slab /\ Before(log, a, b) => Before(new, a, b)
  <1> DEFINE K == ToSet(log) \ {slab}
             rest == Kept(log, K)
             new == MovedLast(log, slab)
  <1>1. /\ rest \in Seq(Slabs)
        /\ \A i, j \in DOMAIN rest : rest[i] = rest[j] => i = j
        /\ \A m \in DOMAIN rest : rest[m] \in K /\ \E i \in DOMAIN log : log[i] = rest[m]
        /\ \A m \in DOMAIN log : log[m] \in K => \E i \in DOMAIN rest : rest[i] = log[m]
        /\ \A a, b \in K : Before(log, a, b) => Before(rest, a, b)
    BY LogWithout
  <1>2. new = Append(rest, slab)
    BY DEF MovedLast
  <1>3. \A m \in DOMAIN log : log[m] \in K <=> log[m] # slab
    BY DEF ToSet
  <1>4. \A m \in DOMAIN rest : rest[m] # slab
    BY <1>1
  <1> HIDE DEF K, rest, new
  <1>5. /\ new \in Seq(Slabs) /\ Len(rest) \in Nat
        /\ DOMAIN rest = 1..Len(rest) /\ DOMAIN new = 1..(Len(rest) + 1)
        /\ new[Len(rest) + 1] = slab
        /\ \A i \in DOMAIN rest : i \in DOMAIN new /\ new[i] = rest[i] /\ i < Len(rest) + 1
        /\ \A i \in DOMAIN new : i = Len(rest) + 1 \/ i \in DOMAIN rest
        /\ Len(rest) + 1 \in DOMAIN new
    BY <1>1, <1>2
  <1>6. \A i, j \in DOMAIN new : new[i] = new[j] => i = j
    BY <1>1, <1>4, <1>5
  <1>7. \A m \in DOMAIN new : new[m] = slab \/ \E i \in DOMAIN log : log[i] = new[m]
    BY <1>1, <1>5
  <1>8. \A m \in DOMAIN log : \E i \in DOMAIN new : new[i] = log[m]
    BY <1>1, <1>3, <1>5
  <1>9. ASSUME NEW m \in DOMAIN log, log[m] # slab
        PROVE  Before(new, log[m], slab)
    <2>1. PICK i \in DOMAIN rest : rest[i] = log[m]
      BY <1>1, <1>3, <1>9
    <2> QED  BY <1>5, <2>1 DEF Before
  <1>10. ASSUME NEW a, NEW b, a # slab, b # slab, Before(log, a, b)
         PROVE  Before(new, a, b)
    <2>1. a \in K /\ b \in K
      BY <1>3, <1>10 DEF Before
    <2>2. Before(rest, a, b)
      BY <1>1, <1>10, <2>1
    <2> QED  BY <1>5, <2>2 DEF Before
  <1> QED  BY <1>5, <1>6, <1>7, <1>8, <1>9, <1>10 DEF new
-----------------------------------------------------------------------------
(* What happens to the Map and its log: a hit, an eviction, a new entry, one *)
(* over an older one, and the time that passes.                              *)
LEMMA HitEntry ==
    ASSUME NEW e \in Entry
    PROVE  LET hit == [e EXCEPT !.inPlace = FALSE]
           IN  hit \in Entry /\ hit.slab = e.slab
  BY DEF Entry

LEMMA OrderedHit ==
    ASSUME NEW map, NEW log, Ordered(map, log), NEW k \in DOMAIN map
    PROVE  LET e == map[k]
               new == Append(Kept(map, ToSet(map) \ {e}), [e EXCEPT !.inPlace = FALSE])
           IN  Ordered(new, MovedLast(log, e.slab)) /\ Len(new) <= Len(map)
  <1> DEFINE e == map[k]
             hit == [e EXCEPT !.inPlace = FALSE]
             K == ToSet(map) \ {e}
             rest == Kept(map, K)
             new == Append(rest, hit)
             newLog == MovedLast(log, e.slab)
  <1>1. /\ map \in Seq(Entry) /\ log \in Seq(Slabs)
        /\ \A i, j \in DOMAIN map : map[i].slab = map[j].slab => i = j
        /\ \A i, j \in DOMAIN log : log[i] = log[j] => i = j
        /\ \A i \in DOMAIN map : \E m \in DOMAIN log : log[m] = map[i].slab
        /\ \A m \in DOMAIN log : \E i \in DOMAIN map : map[i].slab = log[m]
        /\ \A i, j \in DOMAIN map :
             i < j /\ ~map[i].inPlace => Before(log, map[i].slab, map[j].slab)
    BY DEF Ordered
  <1>20. \A i, j \in DOMAIN map : map[i].slab = map[j].slab => i = j
    BY <1>1
  <1>21. \A i \in DOMAIN map : \E m \in DOMAIN log : log[m] = map[i].slab
    BY <1>1
  <1>22. \A i, j \in DOMAIN map :
           i < j /\ ~map[i].inPlace => Before(log, map[i].slab, map[j].slab)
    BY <1>1
  <1>2. e \in Entry /\ e.slab \in Slabs
    <2>1. e \in Entry
      BY <1>1
    <2> QED  BY <2>1 DEF Entry
  <1>3. hit \in Entry /\ hit.slab = e.slab
    BY <1>2, HitEntry
  <1>4. /\ newLog \in Seq(Slabs)
        /\ \A i, j \in DOMAIN newLog : newLog[i] = newLog[j] => i = j
        /\ \E m \in DOMAIN newLog : newLog[m] = e.slab
        /\ \A m \in DOMAIN newLog :
             newLog[m] = e.slab \/ \E i \in DOMAIN log : log[i] = newLog[m]
        /\ \A m \in DOMAIN log : \E i \in DOMAIN newLog : newLog[i] = log[m]
        /\ \A m \in DOMAIN log : log[m] # e.slab => Before(newLog, log[m], e.slab)
        /\ \A a, b : a # e.slab /\ b # e.slab /\ Before(log, a, b) => Before(newLog, a, b)
    BY <1>1, <1>2, LogUsed
  <1>5. rest \in Seq(Entry) /\ \E place : Places(map, K, rest, Len(map), place)
    BY <1>1, KeptPlaces
  <1>6. PICK place : Places(map, K, rest, Len(map), place)
    BY <1>5
  <1>7. \A i \in DOMAIN map : map[i] \in K <=> i # k
    BY <1>1 DEF ToSet
  <1> HIDE DEF e, hit, K, rest, newLog
  <1>8. DOMAIN rest = 1..Len(rest) /\ DOMAIN map = 1..Len(map)
        /\ Len(rest) \in Nat /\ Len(map) \in Nat
    BY <1>1, <1>5
  <1>9. \A i \in DOMAIN rest : /\ place[i] \in DOMAIN map /\ place[i] # k
                               /\ rest[i] = map[place[i]]
    BY <1>6, <1>7, <1>8 DEF Places
  <1>10. \A i, j \in DOMAIN rest : i < j => place[i] < place[j]
    BY <1>6, <1>8 DEF Places
  <1>11. \A m \in DOMAIN map : m # k => \E i \in DOMAIN rest : place[i] = m
    BY <1>6, <1>7, <1>8 DEF Places
  <1>12. /\ new \in Seq(Entry) /\ DOMAIN new = 1..(Len(rest) + 1)
         /\ new[Len(rest) + 1] = hit /\ Len(rest) + 1 \in DOMAIN new
         /\ \A i \in DOMAIN rest : i \in DOMAIN new /\ new[i] = rest[i] /\ i < Len(rest) + 1
         /\ \A i \in DOMAIN new : i = Len(rest) + 1 \/ i \in DOMAIN rest
    BY <1>3, <1>5, <1>8
  <1> HIDE DEF new
  <1>13. \A i \in DOMAIN map : map[i].slab = e.slab <=> i = k
    BY <1>1 DEF e
  <1>14. ASSUME NEW i \in DOMAIN new, NEW j \in DOMAIN new, new[i].slab = new[j].slab
         PROVE  i = j
    <2>1. \A x \in DOMAIN rest : new[x].slab # e.slab
      BY <1>9, <1>12, <1>13
    <2>2. CASE i \in DOMAIN rest /\ j \in DOMAIN rest
      <3>1. /\ new[i] = map[place[i]] /\ new[j] = map[place[j]]
            /\ place[i] \in DOMAIN map /\ place[j] \in DOMAIN map
        BY <1>9, <1>12, <2>2
      <3>3. map[place[i]].slab = map[place[j]].slab
        BY <1>14, <3>1
      <3>2. place[i] = place[j] /\ place[i] \in Nat
        BY <1>8, <1>20, <3>1, <3>3
      <3> QED  BY <1>8, <1>10, <2>2, <3>2
    <2> QED  BY <1>3, <1>12, <1>14, <2>1, <2>2
  <1>15. ASSUME NEW i \in DOMAIN new
         PROVE  \E m \in DOMAIN newLog : newLog[m] = new[i].slab
    <2>1. CASE i \in DOMAIN rest
      <3>1. new[i] = map[place[i]] /\ place[i] \in DOMAIN map
        BY <1>9, <1>12, <2>1
      <3>2. PICK m \in DOMAIN log : log[m] = new[i].slab
        BY <1>21, <3>1
      <3> QED  BY <1>4, <3>2
    <2> QED  BY <1>3, <1>4, <1>12, <2>1
  <1>16. ASSUME NEW m \in DOMAIN newLog
         PROVE  \E i \in DOMAIN new : new[i].slab = newLog[m]
    <2>1. CASE newLog[m] = e.slab
      BY <1>3, <1>12, <2>1
    <2>2. CASE newLog[m] # e.slab
      <3>3. PICK n \in DOMAIN log : log[n] = newLog[m]
        BY <1>4, <2>2
      <3>1. PICK i \in DOMAIN map : map[i].slab = newLog[m]
        BY <1>1, <3>3
      <3>2. i # k
        BY <1>13, <2>2, <3>1
      <3> QED  BY <1>9, <1>11, <1>12, <3>1, <3>2
    <2> QED  BY <2>1, <2>2
  <1>17. ASSUME NEW i \in DOMAIN new, NEW j \in DOMAIN new, i < j, ~new[i].inPlace
         PROVE  Before(newLog, new[i].slab, new[j].slab)
    <2>1. i \in DOMAIN rest
      BY <1>8, <1>12, <1>17
    <2>2. /\ new[i] = map[place[i]] /\ place[i] \in DOMAIN map
          /\ new[i].slab # e.slab
      BY <1>9, <1>12, <1>13, <2>1
    <2>3. CASE j = Len(rest) + 1
      <3>1. new[j].slab = e.slab
        BY <1>3, <1>12, <2>3
      <3>2. PICK m \in DOMAIN log : log[m] = new[i].slab
        BY <1>1, <2>2, SMTT(30)
      <3> QED  BY <1>4, <2>2, <3>1, <3>2
    <2>4. CASE j \in DOMAIN rest
      <3>1. /\ new[j] = map[place[j]] /\ place[j] \in DOMAIN map
            /\ new[j].slab # e.slab /\ place[i] < place[j]
        BY <1>9, <1>10, <1>12, <1>13, <1>17, <2>1, <2>4
      <3>3. ~map[place[i]].inPlace
        BY <1>17, <2>2
      <3>2. Before(log, new[i].slab, new[j].slab)
        BY <1>22, <2>2, <3>1, <3>3
      <3> QED  BY <1>4, <2>2, <3>1, <3>2
    <2> QED  BY <1>12, <2>3, <2>4
  <1>18. Ordered(new, newLog)
    BY <1>4, <1>12, <1>14, <1>15, <1>16, <1>17 DEF Ordered
  <1>19. Len(new) <= Len(map)
    <2>1. \E j \in 1..Len(map) : map[j] \notin K
      BY <1>7, <1>8
    <2>2. Len(rest) < Len(map)
      BY <1>1, <2>1, KeptPlaces DEF rest
    <2>3. Len(new) = Len(rest) + 1
      BY <1>5 DEF new
    <2> QED  BY <1>8, <2>2, <2>3
  <1> QED  BY <1>18, <1>19 DEF new, newLog, rest, hit, e, K

LEMMA OrderedTail ==
    ASSUME NEW map, NEW log, Ordered(map, log), map # <<>>
    PROVE  /\ Ordered(Tail(map), Kept(log, ToSet(log) \ {Head(map).slab}))
           /\ Len(Tail(map)) = Len(map) - 1
  <1> DEFINE first == Head(map).slab
             K == ToSet(log) \ {first}
             rest == Kept(log, K)
             t == Tail(map)
  <1>1. map \in Seq(Entry) /\ log \in Seq(Slabs)
    BY DEF Ordered
  <1>2. \A i, j \in DOMAIN map : map[i].slab = map[j].slab => i = j
    BY DEF Ordered
  <1>3. \A i, j \in DOMAIN log : log[i] = log[j] => i = j
    BY DEF Ordered
  <1>4. \A i \in DOMAIN map : \E m \in DOMAIN log : log[m] = map[i].slab
    BY DEF Ordered
  <1>5. \A m \in DOMAIN log : \E i \in DOMAIN map : map[i].slab = log[m]
    BY DEF Ordered
  <1>6. \A i, j \in DOMAIN map :
          i < j /\ ~map[i].inPlace => Before(log, map[i].slab, map[j].slab)
    BY DEF Ordered
  <1>7. /\ t \in Seq(Entry) /\ Len(map) \in Nat /\ Len(t) = Len(map) - 1
        /\ DOMAIN map = 1..Len(map) /\ DOMAIN t = 1..(Len(map) - 1)
        /\ first = map[1].slab /\ 1 \in DOMAIN map
        /\ \A i \in DOMAIN t : t[i] = map[i + 1] /\ i + 1 \in DOMAIN map /\ i + 1 # 1
    BY <1>1
  <1>8. \A i \in DOMAIN map : i = 1 \/ (i - 1 \in DOMAIN t /\ t[i - 1] = map[i])
    BY <1>7
  <1>9. rest \in Seq(Slabs)
    BY <1>1, <1>3, LogWithout
  <1>10. \A i, j \in DOMAIN rest : rest[i] = rest[j] => i = j
    BY <1>1, <1>3, LogWithout
  <1>11. \A m \in DOMAIN rest : rest[m] \in K /\ \E i \in DOMAIN log : log[i] = rest[m]
    BY <1>1, <1>3, LogWithout
  <1>12. \A m \in DOMAIN log : log[m] \in K => \E i \in DOMAIN rest : rest[i] = log[m]
    BY <1>1, <1>3, LogWithout
  <1>13. \A a, b \in K : Before(log, a, b) => Before(rest, a, b)
    BY <1>1, <1>3, LogWithout
  <1>14. \A m \in DOMAIN log : log[m] \in K <=> log[m] # first
    BY DEF ToSet
  <1>15. \A x \in K : x # first
    OBVIOUS
  <1> HIDE DEF first, K, rest, t
  <1>16. \A i \in DOMAIN t : t[i].slab # first /\ t[i].slab \in K
    <2> SUFFICES ASSUME NEW i \in DOMAIN t
                 PROVE  t[i].slab # first /\ t[i].slab \in K
      OBVIOUS
    <2>1. t[i].slab # first
      BY <1>2, <1>7
    <2>2. PICK m \in DOMAIN log : log[m] = t[i].slab
      BY <1>4, <1>7
    <2> QED  BY <1>14, <2>1, <2>2
  <1>17. ASSUME NEW i \in DOMAIN t, NEW j \in DOMAIN t, t[i].slab = t[j].slab
         PROVE  i = j
    <2>1. i + 1 = j + 1
      BY <1>2, <1>7, <1>17
    <2> QED  BY <1>7, <2>1
  <1>18. ASSUME NEW i \in DOMAIN t
         PROVE  \E m \in DOMAIN rest : rest[m] = t[i].slab
    <2>1. PICK m \in DOMAIN log : log[m] = t[i].slab
      BY <1>4, <1>7
    <2> QED  BY <1>12, <1>16, <2>1
  <1>19. ASSUME NEW m \in DOMAIN rest
         PROVE  \E i \in DOMAIN t : t[i].slab = rest[m]
    <2>1. PICK i \in DOMAIN map : map[i].slab = rest[m]
      BY <1>5, <1>11
    <2>2. i # 1
      BY <1>7, <1>11, <1>15, <2>1
    <2> QED  BY <1>8, <2>1, <2>2
  <1>20. ASSUME NEW i \in DOMAIN t, NEW j \in DOMAIN t, i < j, ~t[i].inPlace
         PROVE  Before(rest, t[i].slab, t[j].slab)
    <2>1. i + 1 < j + 1
      BY <1>7, <1>20
    <2>2. Before(log, t[i].slab, t[j].slab)
      BY <1>6, <1>7, <1>20, <2>1
    <2> QED  BY <1>13, <1>16, <2>2
  <1>21. Ordered(t, rest)
    BY <1>7, <1>9, <1>10, <1>17, <1>18, <1>19, <1>20 DEF Ordered
  <1> QED  BY <1>7, <1>21 DEF t, rest, K, first

LEMMA OrderedNew ==
    ASSUME NEW map, NEW log, Ordered(map, log), NEW slab \in Slabs,
           NEW e \in Entry, e.slab = slab, \A i \in DOMAIN map : map[i].slab # slab
    PROVE  Ordered(Append(map, e), MovedLast(log, slab))
  <1> DEFINE new == Append(map, e)
             newLog == MovedLast(log, slab)
  <1>1. map \in Seq(Entry) /\ log \in Seq(Slabs)
    BY DEF Ordered
  <1>2. \A i, j \in DOMAIN map : map[i].slab = map[j].slab => i = j
    BY DEF Ordered
  <1>3. \A i, j \in DOMAIN log : log[i] = log[j] => i = j
    BY DEF Ordered
  <1>4. \A i \in DOMAIN map : \E m \in DOMAIN log : log[m] = map[i].slab
    BY DEF Ordered
  <1>5. \A m \in DOMAIN log : \E i \in DOMAIN map : map[i].slab = log[m]
    BY DEF Ordered
  <1>6. \A i, j \in DOMAIN map :
          i < j /\ ~map[i].inPlace => Before(log, map[i].slab, map[j].slab)
    BY DEF Ordered
  <1>7. newLog \in Seq(Slabs)
    BY <1>1, <1>3, LogUsed
  <1>8. \A i, j \in DOMAIN newLog : newLog[i] = newLog[j] => i = j
    BY <1>1, <1>3, LogUsed
  <1>9. \E m \in DOMAIN newLog : newLog[m] = slab
    BY <1>1, <1>3, LogUsed
  <1>10. \A m \in DOMAIN newLog :
           newLog[m] = slab \/ \E i \in DOMAIN log : log[i] = newLog[m]
    BY <1>1, <1>3, LogUsed
  <1>11. \A m \in DOMAIN log : \E i \in DOMAIN newLog : newLog[i] = log[m]
    BY <1>1, <1>3, LogUsed
  <1>12. \A m \in DOMAIN log : log[m] # slab => Before(newLog, log[m], slab)
    BY <1>1, <1>3, LogUsed
  <1>13. \A a, b : a # slab /\ b # slab /\ Before(log, a, b) => Before(newLog, a, b)
    BY <1>1, <1>3, LogUsed
  <1>14. /\ new \in Seq(Entry) /\ Len(map) \in Nat
         /\ DOMAIN map = 1..Len(map) /\ DOMAIN new = 1..(Len(map) + 1)
         /\ new[Len(map) + 1] = e /\ Len(map) + 1 \in DOMAIN new
         /\ \A i \in DOMAIN map : i \in DOMAIN new /\ new[i] = map[i] /\ i < Len(map) + 1
         /\ \A i \in DOMAIN new : i = Len(map) + 1 \/ i \in DOMAIN map
    BY <1>1
  <1> HIDE DEF new, newLog
  <1>15. ASSUME NEW i \in DOMAIN new, NEW j \in DOMAIN new, new[i].slab = new[j].slab
         PROVE  i = j
    BY <1>2, <1>14, <1>15
  <1>16. ASSUME NEW i \in DOMAIN new
         PROVE  \E m \in DOMAIN newLog : newLog[m] = new[i].slab
    <2>1. CASE i \in DOMAIN map
      <3>1. PICK m \in DOMAIN log : log[m] = new[i].slab
        BY <1>4, <1>14, <2>1
      <3> QED  BY <1>11, <3>1
    <2>2. CASE i = Len(map) + 1
      BY <1>9, <1>14, <2>2
    <2> QED  BY <1>14, <2>1, <2>2
  <1>17. ASSUME NEW m \in DOMAIN newLog
         PROVE  \E i \in DOMAIN new : new[i].slab = newLog[m]
    <2>1. CASE newLog[m] = slab
      BY <1>14, <2>1
    <2>2. CASE newLog[m] # slab
      <3>1. PICK n \in DOMAIN log : log[n] = newLog[m]
        BY <1>10, <2>2
      <3>2. PICK i \in DOMAIN map : map[i].slab = log[n]
        BY <1>5
      <3> QED  BY <1>14, <3>1, <3>2
    <2> QED  BY <2>1, <2>2
  <1>18. ASSUME NEW i \in DOMAIN new, NEW j \in DOMAIN new, i < j, ~new[i].inPlace
         PROVE  Before(newLog, new[i].slab, new[j].slab)
    <2>1. i \in DOMAIN map /\ new[i] = map[i]
      BY <1>14, <1>18
    <2>2. CASE j = Len(map) + 1
      <3>1. PICK m \in DOMAIN log : log[m] = new[i].slab
        BY <1>4, <2>1
      <3> QED  BY <1>12, <1>14, <2>1, <2>2, <3>1
    <2>3. CASE j \in DOMAIN map
      <3>1. new[j] = map[j]
        BY <1>14, <2>3
      <3>2. Before(log, map[i].slab, map[j].slab)
        BY <1>6, <1>18, <2>1, <2>3
      <3> QED  BY <1>13, <2>1, <2>3, <3>1, <3>2
    <2> QED  BY <1>14, <2>2, <2>3
  <1>19. Ordered(new, newLog)
    BY <1>7, <1>8, <1>14, <1>15, <1>16, <1>17, <1>18 DEF Ordered
  <1> QED  BY <1>19 DEF new, newLog

LEMMA OrderedOver ==
    ASSUME NEW map, NEW log, Ordered(map, log), NEW slab \in Slabs,
           NEW e \in Entry, e.slab = slab, e.inPlace,
           NEW k \in DOMAIN map, map[k].slab = slab,
           NEW new \in Seq(Entry), DOMAIN new = DOMAIN map,
           \A i \in DOMAIN map : new[i] = IF map[i].slab = slab THEN e ELSE map[i]
    PROVE  Ordered(new, MovedLast(log, slab))
  <1> DEFINE newLog == MovedLast(log, slab)
  <1>1. map \in Seq(Entry) /\ log \in Seq(Slabs)
    BY DEF Ordered
  <1>2. \A i, j \in DOMAIN map : map[i].slab = map[j].slab => i = j
    BY DEF Ordered
  <1>3. \A i, j \in DOMAIN log : log[i] = log[j] => i = j
    BY DEF Ordered
  <1>4. \A i \in DOMAIN map : \E m \in DOMAIN log : log[m] = map[i].slab
    BY DEF Ordered
  <1>5. \A m \in DOMAIN log : \E i \in DOMAIN map : map[i].slab = log[m]
    BY DEF Ordered
  <1>6. \A i, j \in DOMAIN map :
          i < j /\ ~map[i].inPlace => Before(log, map[i].slab, map[j].slab)
    BY DEF Ordered
  <1>7. newLog \in Seq(Slabs)
    BY <1>1, <1>3, LogUsed
  <1>8. \A i, j \in DOMAIN newLog : newLog[i] = newLog[j] => i = j
    BY <1>1, <1>3, LogUsed
  <1>9. \E m \in DOMAIN newLog : newLog[m] = slab
    BY <1>1, <1>3, LogUsed
  <1>10. \A m \in DOMAIN newLog :
           newLog[m] = slab \/ \E i \in DOMAIN log : log[i] = newLog[m]
    BY <1>1, <1>3, LogUsed
  <1>11. \A m \in DOMAIN log : \E i \in DOMAIN newLog : newLog[i] = log[m]
    BY <1>1, <1>3, LogUsed, SMTT(30)
  <1>12. \A m \in DOMAIN log : log[m] # slab => Before(newLog, log[m], slab)
    BY <1>1, <1>3, LogUsed
  <1>13. \A a, b : a # slab /\ b # slab /\ Before(log, a, b) => Before(newLog, a, b)
    BY <1>1, <1>3, LogUsed
  <1> HIDE DEF newLog
  <1>14. \A i \in DOMAIN map : new[i].slab = map[i].slab
    OBVIOUS
  <1>15. \A i, j \in DOMAIN new : new[i].slab = new[j].slab => i = j
    BY <1>2, <1>14
  <1>16. ASSUME NEW i \in DOMAIN new
         PROVE  \E m \in DOMAIN newLog : newLog[m] = new[i].slab
    <2>1. PICK m \in DOMAIN log : log[m] = new[i].slab
      BY <1>4, <1>14
    <2> QED  BY <1>11, <2>1
  <1>17. ASSUME NEW m \in DOMAIN newLog
         PROVE  \E i \in DOMAIN new : new[i].slab = newLog[m]
    <2>1. CASE newLog[m] = slab
      BY <1>14, <2>1
    <2>2. CASE newLog[m] # slab
      <3>1. PICK n \in DOMAIN log : log[n] = newLog[m]
        BY <1>10, <2>2
      <3>2. PICK i \in DOMAIN map : map[i].slab = log[n]
        BY <1>5
      <3> QED  BY <1>14, <3>1, <3>2
    <2> QED  BY <2>1, <2>2
  <1>18. ASSUME NEW i \in DOMAIN new, NEW j \in DOMAIN new, i < j, ~new[i].inPlace
         PROVE  Before(newLog, new[i].slab, new[j].slab)
    <2>1. map[i].slab # slab /\ new[i] = map[i]
      BY <1>18
    <2>2. CASE map[j].slab = slab
      <3>1. PICK m \in DOMAIN log : log[m] = new[i].slab
        BY <1>4, <2>1
      <3> QED  BY <1>12, <1>14, <2>1, <2>2, <3>1
    <2>3. CASE map[j].slab # slab
      <3>2. Before(log, map[i].slab, map[j].slab)
        BY <1>6, <1>18, <2>1
      <3> QED  BY <1>13, <1>14, <2>1, <2>3, <3>2
    <2> QED  BY <2>2, <2>3
  <1>19. Ordered(new, newLog)
    BY <1>7, <1>8, <1>15, <1>16, <1>17, <1>18 DEF Ordered
  <1> QED  BY <1>19 DEF newLog

LEMMA OrderedOlder ==
    ASSUME NEW map, NEW log, Ordered(map, log),
           NEW new \in Seq(Entry), DOMAIN new = DOMAIN map,
           \A i \in DOMAIN map : new[i].slab = map[i].slab /\ new[i].inPlace = map[i].inPlace
    PROVE  Ordered(new, log)
  <1>1. map \in Seq(Entry) /\ log \in Seq(Slabs)
    BY DEF Ordered
  <1>2. \A i, j \in DOMAIN map : map[i].slab = map[j].slab => i = j
    BY DEF Ordered
  <1>3. \A i, j \in DOMAIN log : log[i] = log[j] => i = j
    BY DEF Ordered
  <1>4. \A i \in DOMAIN map : \E m \in DOMAIN log : log[m] = map[i].slab
    BY DEF Ordered
  <1>5. \A m \in DOMAIN log : \E i \in DOMAIN map : map[i].slab = log[m]
    BY DEF Ordered
  <1>6. \A i, j \in DOMAIN map :
          i < j /\ ~map[i].inPlace => Before(log, map[i].slab, map[j].slab)
    BY DEF Ordered
  <1>7. \A i, j \in DOMAIN new : new[i].slab = new[j].slab => i = j
    BY <1>2
  <1>8. \A i \in DOMAIN new : \E m \in DOMAIN log : log[m] = new[i].slab
    BY <1>4
  <1>9. \A m \in DOMAIN log : \E i \in DOMAIN new : new[i].slab = log[m]
    BY <1>5
  <1>10. \A i, j \in DOMAIN new :
           i < j /\ ~new[i].inPlace => Before(log, new[i].slab, new[j].slab)
    BY <1>6
  <1> QED  BY <1>1, <1>3, <1>7, <1>8, <1>9, <1>10 DEF Ordered

(* Nothing is evicted.                                                       *)
LEMMA OrderedSame ==
    ASSUME NEW map, NEW log, Ordered(map, log)
    PROVE  Ordered(map, Kept(log, ToSet(log) \ {}))
  <1> DEFINE K == ToSet(log) \ {}
             rest == Kept(log, K)
  <1>1. map \in Seq(Entry) /\ log \in Seq(Slabs)
    BY DEF Ordered
  <1>2. \A i, j \in DOMAIN map : map[i].slab = map[j].slab => i = j
    BY DEF Ordered
  <1>3. \A i, j \in DOMAIN log : log[i] = log[j] => i = j
    BY DEF Ordered
  <1>4. \A i \in DOMAIN map : \E m \in DOMAIN log : log[m] = map[i].slab
    BY DEF Ordered
  <1>5. \A m \in DOMAIN log : \E i \in DOMAIN map : map[i].slab = log[m]
    BY DEF Ordered
  <1>6. \A i, j \in DOMAIN map :
          i < j /\ ~map[i].inPlace => Before(log, map[i].slab, map[j].slab)
    BY DEF Ordered
  <1>7. rest \in Seq(Slabs)
    BY <1>1, <1>3, LogWithout
  <1>8. \A i, j \in DOMAIN rest : rest[i] = rest[j] => i = j
    BY <1>1, <1>3, LogWithout
  <1>9. \A m \in DOMAIN rest : rest[m] \in K /\ \E i \in DOMAIN log : log[i] = rest[m]
    BY <1>1, <1>3, LogWithout
  <1>10. \A m \in DOMAIN log : log[m] \in K => \E i \in DOMAIN rest : rest[i] = log[m]
    BY <1>1, <1>3, LogWithout
  <1>11. \A a, b \in K : Before(log, a, b) => Before(rest, a, b)
    BY <1>1, <1>3, LogWithout
  <1>12. \A m \in DOMAIN log : log[m] \in K
    BY DEF ToSet
  <1> HIDE DEF K, rest
  <1>13. \A i \in DOMAIN map : \E m \in DOMAIN rest : rest[m] = map[i].slab
    BY <1>4, <1>10, <1>12
  <1>14. \A m \in DOMAIN rest : \E i \in DOMAIN map : map[i].slab = rest[m]
    BY <1>5, <1>9
  <1>15. \A i, j \in DOMAIN map :
           i < j /\ ~map[i].inPlace => Before(rest, map[i].slab, map[j].slab)
    <2>1. \A i \in DOMAIN map : map[i].slab \in K
      BY <1>4, <1>12
    <2> QED  BY <1>6, <1>11, <2>1
  <1>16. Ordered(map, rest)
    BY <1>1, <1>2, <1>7, <1>8, <1>13, <1>14, <1>15 DEF Ordered
  <1> QED  BY <1>16 DEF rest, K

(* What storing a result leaves: the other entries as they were.             *)
LEMMA StoredIs ==
    ASSUME Ordered(adlCache, used), Len(adlCache) <= MaxEntries,
           NEW slab \in Slabs, NEW a \in 0..MaxAge, Stored(slab, a)
    PROVE  /\ Ordered(adlCache', used') /\ Len(adlCache') <= MaxEntries
           /\ \A i \in DOMAIN adlCache' :
                \/ adlCache'[i].age = a /\ adlCache'[i].fresh = AdlTtl
                \/ \E j \in DOMAIN adlCache : adlCache'[i] = adlCache[j]
  <1> DEFINE full == Len(adlCache) >= MaxEntries
             room == IF full THEN Tail(adlCache) ELSE adlCache
             gone == IF full THEN {Head(adlCache).slab} ELSE {}
             old == {i \in DOMAIN room : room[i].slab = slab}
             new == [slab |-> slab, age |-> a, fresh |-> AdlTtl, inPlace |-> old # {}]
             log == Kept(used, ToSet(used) \ gone)
  <1>1. /\ adlCache' = IF old = {} THEN Append(room, new)
                       ELSE [i \in DOMAIN room |-> IF i \in old THEN new ELSE room[i]]
        /\ used' = MovedLast(log, slab)
    BY DEF Stored
  <1>2. adlCache \in Seq(Entry) /\ Len(adlCache) \in Nat
    BY DEF Ordered
  <1>3. /\ Ordered(room, log) /\ Len(room) < MaxEntries
        /\ \A i \in DOMAIN room : \E j \in DOMAIN adlCache : room[i] = adlCache[j]
    <2>1. CASE full
      <3>1. adlCache # <<>>
        BY <1>2, <2>1
      <3>2. room = Tail(adlCache) /\ log = Kept(used, ToSet(used) \ {Head(adlCache).slab})
        BY <2>1
      <3>3. Ordered(room, log) /\ Len(room) = Len(adlCache) - 1
        BY <3>1, <3>2, OrderedTail
      <3>4. \A i \in DOMAIN room : room[i] = adlCache[i + 1] /\ i + 1 \in DOMAIN adlCache
        <4> HIDE DEF room
        <4> QED  BY <1>2, <3>1, <3>2
      <3> QED  BY <1>2, <3>3, <3>4
    <2>2. CASE ~full
      <3>1. room = adlCache /\ log = Kept(used, ToSet(used) \ {})
        BY <2>2
      <3> HIDE DEF room, log
      <3>2. Ordered(room, log)
        BY <3>1, OrderedSame
      <3> QED  BY <1>2, <2>2, <3>1, <3>2
    <2> QED  BY <2>1, <2>2
  <1> HIDE DEF room, log
  <1>4. new \in Entry /\ new.slab = slab /\ new.age = a /\ new.fresh = AdlTtl
        /\ new.inPlace = (old # {})
    BY DEF Entry
  <1> HIDE DEF new
  <1>5. room \in Seq(Entry) /\ Len(room) \in Nat /\ DOMAIN room = 1..Len(room)
    BY <1>3 DEF Ordered
  <1>6. CASE old = {}
    <2>1. \A i \in DOMAIN room : room[i].slab # slab
      BY <1>6
    <2>2. adlCache' = Append(room, new)
      BY <1>1, <1>6
    <2>3. Ordered(adlCache', used')
      BY <1>1, <1>3, <1>4, <2>1, <2>2, OrderedNew
    <2>4. /\ Len(adlCache') = Len(room) + 1
          /\ \A i \in DOMAIN adlCache' :
               adlCache'[i] = new \/ (i \in DOMAIN room /\ adlCache'[i] = room[i])
      BY <1>4, <1>5, <2>2
    <2> QED  BY <1>3, <1>4, <1>5, <2>3, <2>4
  <1>7. CASE old # {}
    <2>1. PICK k \in DOMAIN room : room[k].slab = slab
      BY <1>7
    <2>2. adlCache' = [i \in DOMAIN room |-> IF i \in old THEN new ELSE room[i]]
      BY <1>1, <1>7
    <2>3. /\ DOMAIN adlCache' = DOMAIN room
          /\ \A i \in DOMAIN room :
               adlCache'[i] = IF room[i].slab = slab THEN new ELSE room[i]
      BY <2>2
    <2>4. adlCache' \in Seq(Entry) /\ Len(adlCache') = Len(room)
      <3>1. \A i \in 1..Len(room) : (IF i \in old THEN new ELSE room[i]) \in Entry
        BY <1>4, <1>5
      <3> QED  BY <1>5, <2>2, <3>1
    <2>5. new.inPlace
      BY <1>4, <1>7, Zenon
    <2> HIDE DEF old
    <2>6. Ordered(adlCache', MovedLast(log, slab))
      BY <1>3, <1>4, <2>1, <2>3, <2>4, <2>5, OrderedOver
    <2>7. \A i \in DOMAIN adlCache' : adlCache'[i] = new \/ adlCache'[i] = room[i]
      BY <2>3
    <2>8. used' = MovedLast(log, slab)
      BY <1>1
    <2>9. Ordered(adlCache', used')
      BY <2>6, <2>8
    <2> QED  BY <1>3, <1>4, <1>5, <2>3, <2>4, <2>7, <2>9
  <1> QED  BY <1>6, <1>7

LEMMA OrderedTyped ==
    ASSUME Ordered(adlCache, used)
    PROVE  /\ adlCache \in Seq(Entry) /\ used \in Seq(Slabs)
           /\ NoneTwice(SlabsOf(adlCache)) /\ NoneTwice(used)
           /\ ToSet(SlabsOf(adlCache)) = ToSet(used)
  <1>1. ToSet(SlabsOf(adlCache)) = ToSet(used)
    <2>1. \A i \in DOMAIN adlCache : \E m \in DOMAIN used : used[m] = adlCache[i].slab
      BY DEF Ordered
    <2>2. \A m \in DOMAIN used : \E i \in DOMAIN adlCache : adlCache[i].slab = used[m]
      BY DEF Ordered
    <2>3. ToSet(SlabsOf(adlCache)) = {adlCache[i].slab : i \in DOMAIN adlCache}
      BY DEF ToSet, SlabsOf
    <2>4. ToSet(used) = {used[m] : m \in DOMAIN used}
      BY DEF ToSet
    <2> QED  BY <2>1, <2>2, <2>3, <2>4
  <1> QED  BY <1>1 DEF Ordered, NoneTwice, SlabsOf
-----------------------------------------------------------------------------
(* What happens to the requests.                                             *)
LEMMA Horizon ==
    /\ Timeout \in Nat /\ DbWait \in Nat /\ AdlTtl \in Nat /\ HealthTtl \in Nat
    /\ Timeout >= 1 /\ AdlTtl >= 1 /\ HealthTtl >= 1
    /\ MaxAge \in Nat /\ MaxAge > 2 * Timeout + DbWait
  BY DEF MaxAge

(* A request whose stage is set, the others left alone.                      *)
LEMMA OneRequest ==
    ASSUME RequestInv, NEW r \in Requests, NEW ro \in Routes, NEW s \in Stages,
           NEW ti \in 0..(Timeout + DbWait), NEW el \in 0..Timeout,
           NEW ag \in 0..MaxAge, NEW wa \in 0..MaxAge,
           \/ s = "idle" /\ wa = 0
           \/ s = "primary" /\ el + ti = Timeout /\ wa + ti <= Timeout
           \/ s = "fallback" /\ el + ti = Timeout /\ wa + ti <= 2 * Timeout
           \/ /\ s = "db" /\ ro = "health" /\ ti <= DbWait
              /\ ag + ti <= Timeout + DbWait /\ wa + ti <= 2 * Timeout + DbWait,
           route' = [route EXCEPT ![r] = ro], stage' = [stage EXCEPT ![r] = s],
           timer' = [timer EXCEPT ![r] = ti], elapsed' = [elapsed EXCEPT ![r] = el],
           age' = [age EXCEPT ![r] = ag], waited' = [waited EXCEPT ![r] = wa],
           late' \in [Requests -> BOOLEAN]
    PROVE  RequestInv'
  <1>1. /\ route' \in [Requests -> Routes] /\ stage' \in [Requests -> Stages]
        /\ timer' \in [Requests -> 0..(Timeout + DbWait)]
        /\ elapsed' \in [Requests -> 0..Timeout]
        /\ age' \in [Requests -> 0..MaxAge] /\ waited' \in [Requests -> 0..MaxAge]
    BY DEF RequestInv
  <1>2. /\ route'[r] = ro /\ stage'[r] = s /\ timer'[r] = ti
        /\ elapsed'[r] = el /\ age'[r] = ag /\ waited'[r] = wa
    BY DEF RequestInv
  <1>3. \A q \in Requests : q # r =>
          /\ route'[q] = route[q] /\ stage'[q] = stage[q] /\ timer'[q] = timer[q]
          /\ elapsed'[q] = elapsed[q] /\ age'[q] = age[q] /\ waited'[q] = waited[q]
    BY DEF RequestInv
  <1>4. Timed
    BY DEF RequestInv
  <1>5. ASSUME NEW q \in Requests
        PROVE  /\ stage'[q] = "idle" => waited'[q] = 0
               /\ stage'[q] \in {"primary", "fallback"} => elapsed'[q] + timer'[q] = Timeout
               /\ stage'[q] = "primary" => waited'[q] + timer'[q] <= Timeout
               /\ stage'[q] = "fallback" => waited'[q] + timer'[q] <= 2 * Timeout
               /\ stage'[q] = "db" =>
                    /\ route'[q] = "health" /\ timer'[q] <= DbWait
                    /\ age'[q] + timer'[q] <= Timeout + DbWait
                    /\ waited'[q] + timer'[q] <= 2 * Timeout + DbWait
    <2>1. CASE q = r
      BY <1>2, <2>1
    <2>2. CASE q # r
      BY <1>3, <1>4, <2>2 DEF Timed, Trying
    <2> QED  BY <2>1, <2>2
  <1>6. Timed'
    BY <1>5 DEF Timed, Trying
  <1> QED  BY <1>1, <1>6 DEF RequestInv

LEMMA Responds ==
    ASSUME RequestInv, NEW r \in Requests, NEW ro \in Routes, Respond(r),
           route' = [route EXCEPT ![r] = ro], late' \in [Requests -> BOOLEAN]
    PROVE  RequestInv'
  <1>1. "idle" \in Stages /\ 0 \in 0..(Timeout + DbWait) /\ 0 \in 0..Timeout /\ 0 \in 0..MaxAge
    BY Horizon DEF Stages
  <1> QED  BY <1>1, OneRequest DEF Respond, Goto

LEMMA Attempts ==
    ASSUME RequestInv, NEW r \in Requests, NEW ro \in Routes, NEW which, Attempt(r, which),
           \/ which = "primary" /\ stage[r] = "idle"
           \/ which = "fallback" /\ stage[r] = "primary",
           route' = [route EXCEPT ![r] = ro], late' \in [Requests -> BOOLEAN]
    PROVE  RequestInv'
  <1>1. /\ which \in Stages /\ Timeout \in 0..(Timeout + DbWait) /\ 0 \in 0..Timeout
        /\ 0 + Timeout = Timeout
    BY Horizon DEF Stages
  <1>2. age[r] \in 0..MaxAge /\ waited[r] \in 0..MaxAge /\ timer[r] \in Nat
    BY Horizon DEF RequestInv
  <1>3. /\ age' = [age EXCEPT ![r] = age[r]] /\ waited' = [waited EXCEPT ![r] = waited[r]]
    BY DEF RequestInv, Attempt
  <1>4. /\ which = "primary" => waited[r] + Timeout <= Timeout
        /\ which = "fallback" => waited[r] + Timeout <= 2 * Timeout
    BY <1>2, Horizon DEF RequestInv, Timed
  <1> QED  BY <1>1, <1>2, <1>3, <1>4, OneRequest DEF Attempt, Goto

LEMMA Checks ==
    ASSUME RequestInv, NEW r \in Requests, Trying(r), route[r] = "health",
           NEW a \in 0..Timeout, RpcChecked(r, a), UNCHANGED route,
           late' \in [Requests -> BOOLEAN]
    PROVE  RequestInv'
  <1>1. /\ "db" \in Stages /\ DbWait \in 0..(Timeout + DbWait) /\ 0 \in 0..Timeout
        /\ a \in 0..MaxAge /\ DbWait <= DbWait /\ a + DbWait <= Timeout + DbWait
        /\ route[r] \in Routes
    BY Horizon DEF Stages, RequestInv
  <1>2. waited[r] \in 0..MaxAge /\ timer[r] \in Nat
    BY Horizon DEF RequestInv
  <1>3. /\ route' = [route EXCEPT ![r] = route[r]]
        /\ waited' = [waited EXCEPT ![r] = waited[r]]
    BY DEF RequestInv, RpcChecked
  <1>4. waited[r] + DbWait <= 2 * Timeout + DbWait
    BY <1>2, Horizon DEF RequestInv, Timed, Trying
  <1> QED  BY <1>1, <1>2, <1>3, <1>4, OneRequest DEF RpcChecked, Goto
-----------------------------------------------------------------------------
(* The steps of a request.                                                   *)
LEMMA RequestSteps ==
    ASSUME IInv, NEW r \in Requests,
           \/ \E slab \in Slabs : AdlRequest(r, slab)
           \/ HealthRequest(r)
    PROVE  IInv'
  <1>1. MapInv /\ HealthInv /\ RequestInv
    BY DEF IInv
  <1>2. ASSUME NEW slab \in Slabs, AdlRequest(r, slab)
        PROVE  IInv'
    <2>1. /\ slab \in Routes /\ stage[r] = "idle" /\ late' \in [Requests -> BOOLEAN]
          /\ route' = [route EXCEPT ![r] = slab] /\ cachedHealth' = cachedHealth
      BY <1>1, <1>2 DEF AdlRequest, Routes, RequestInv
    <2>2. HealthInv'
      BY <1>1, <2>1 DEF HealthInv
    <2>3. ASSUME NEW e \in ToSet(adlCache), Hit(e), Respond(r)
          PROVE  IInv'
      <3>1. PICK k \in DOMAIN adlCache : e = adlCache[k]
        BY DEF ToSet
      <3>2. adlCache \in Seq(Entry) /\ Len(adlCache) \in Nat
        BY <1>1 DEF MapInv, Ordered
      <3>3. /\ adlCache' = Append(Kept(adlCache, ToSet(adlCache) \ {e}),
                                 [e EXCEPT !.inPlace = FALSE])
            /\ used' = MovedLast(used, e.slab)
        BY <2>3 DEF Hit
      <3>4. Ordered(adlCache', used') /\ Len(adlCache') <= Len(adlCache)
        BY <1>1, <3>1, <3>3, OrderedHit DEF MapInv
      <3>5. \A i \in DOMAIN adlCache' : \E j \in DOMAIN adlCache :
               /\ adlCache'[i].age = adlCache[j].age
               /\ adlCache'[i].fresh = adlCache[j].fresh
        <4> DEFINE rest == Kept(adlCache, ToSet(adlCache) \ {e})
                   hit == [e EXCEPT !.inPlace = FALSE]
        <4>1. rest \in Seq(Entry) /\ \A i \in DOMAIN rest : \E j \in DOMAIN adlCache :
                                       rest[i] = adlCache[j]
          <5>1. PICK place : Places(adlCache, ToSet(adlCache) \ {e}, rest, Len(adlCache), place)
            BY <3>2, KeptPlaces
          <5>2. rest \in Seq(Entry)
            BY <3>2, KeptPlaces
          <5> HIDE DEF rest
          <5> QED  BY <3>2, <5>1, <5>2, SMTT(30) DEF Places
        <4>2. e \in Entry
          BY <3>1, <3>2
        <4>3. hit.age = e.age /\ hit.fresh = e.fresh /\ hit \in Entry
          BY <4>2 DEF Entry
        <4> HIDE DEF rest, hit
        <4>4. adlCache' = Append(rest, hit)
          BY <3>3 DEF rest, hit
        <4>5. \A i \in DOMAIN adlCache' :
                 adlCache'[i] = hit \/ (i \in DOMAIN rest /\ adlCache'[i] = rest[i])
          BY <4>1, <4>3, <4>4
        <4> QED  BY <3>1, <4>1, <4>3, <4>5
      <3>6. Len(adlCache') <= MaxEntries
        BY <1>1, <3>2, <3>4 DEF MapInv, Ordered
      <3>7. MapInv'
        BY <1>1, <3>4, <3>5, <3>6 DEF MapInv
      <3>8. RequestInv'
        BY <1>1, <2>1, <2>3, Responds
      <3> QED  BY <2>2, <3>7, <3>8 DEF IInv
    <2>4. CASE /\ IF slab \in Blocked THEN Respond(r) ELSE Attempt(r, "primary")
               /\ UNCHANGED <<adlCache, used>>
      <3>1. MapInv'
        BY <1>1, <2>4 DEF MapInv
      <3>2. RequestInv'
        BY <1>1, <2>1, <2>4, Responds, Attempts
      <3> QED  BY <2>2, <3>1, <3>2 DEF IInv
    <2> QED  BY <1>2, <2>3, <2>4 DEF AdlRequest
  <1>3. CASE HealthRequest(r)
    <2>1. /\ "health" \in Routes /\ stage[r] = "idle" /\ late' \in [Requests -> BOOLEAN]
          /\ route' = [route EXCEPT ![r] = "health"] /\ cachedHealth' = cachedHealth
          /\ adlCache' = adlCache /\ used' = used
          /\ IF cachedHealth # {} THEN Respond(r) ELSE Attempt(r, "primary")
      BY <1>1, <1>3 DEF HealthRequest, Routes, RequestInv, caches
    <2>2. HealthInv' /\ MapInv'
      BY <1>1, <2>1 DEF HealthInv, MapInv
    <2>3. RequestInv'
      BY <1>1, <2>1, Responds, Attempts
    <2> QED  BY <2>2, <2>3 DEF IInv
  <1> QED  BY <1>2, <1>3

LEMMA AnswersStep ==
    ASSUME IInv, NEW r \in Requests, Answers(r)
    PROVE  IInv'
  <1>1. MapInv /\ HealthInv /\ RequestInv
    BY DEF IInv
  <1>2. PICK a \in 0..elapsed[r] :
          IF route[r] = "health" THEN RpcChecked(r, a) ELSE SlabFetched(r, a)
    BY DEF Answers, Fulfilled
  <1>3. /\ Trying(r) /\ late' \in [Requests -> BOOLEAN] /\ cachedHealth' = cachedHealth
        /\ route' = route /\ route' = [route EXCEPT ![r] = route[r]]
    BY <1>1 DEF Answers, Fulfilled, RequestInv
  <1>4. a \in 0..Timeout /\ a \in 0..MaxAge /\ route[r] \in Routes
    BY <1>1, Horizon DEF RequestInv
  <1>5. HealthInv'
    BY <1>1, <1>3 DEF HealthInv
  <1>6. CASE route[r] = "health"
    <2>1. RpcChecked(r, a) /\ adlCache' = adlCache /\ used' = used
      BY <1>2, <1>6 DEF RpcChecked
    <2>2. MapInv'
      BY <1>1, <2>1 DEF MapInv
    <2>3. RequestInv'
      BY <1>1, <1>3, <1>4, <1>6, <2>1, Checks
    <2> QED  BY <1>5, <2>2, <2>3 DEF IInv
  <1>7. CASE route[r] # "health"
    <2>1. route[r] \in Slabs /\ SlabFetched(r, a)
      BY <1>2, <1>4, <1>7 DEF Routes
    <2>2. RequestInv'
      BY <1>1, <1>3, <1>4, <2>1, Responds DEF SlabFetched
    <2>3. CASE Stored(route[r], a)
      <3>1. /\ Ordered(adlCache', used') /\ Len(adlCache') <= MaxEntries
            /\ \A i \in DOMAIN adlCache' :
                 \/ adlCache'[i].age = a /\ adlCache'[i].fresh = AdlTtl
                 \/ \E j \in DOMAIN adlCache : adlCache'[i] = adlCache[j]
        BY <1>1, <1>4, <2>1, <2>3, StoredIs DEF MapInv
      <3>2. a + AdlTtl <= AdlTtl + Timeout
        BY <1>4
      <3>3. MapInv'
        BY <1>1, <3>1, <3>2 DEF MapInv
      <3> QED  BY <1>5, <2>2, <3>3 DEF IInv
    <2>4. CASE UNCHANGED <<adlCache, used>>
      <3>1. MapInv'
        BY <1>1, <2>4 DEF MapInv
      <3> QED  BY <1>5, <2>2, <3>1 DEF IInv
    <2> QED  BY <2>1, <2>3, <2>4 DEF SlabFetched
  <1> QED  BY <1>6, <1>7

LEMMA FailsStep ==
    ASSUME IInv, NEW r \in Requests, Trying(r), Fails(r), late' \in [Requests -> BOOLEAN]
    PROVE  IInv'
  <1>1. MapInv /\ HealthInv /\ RequestInv
    BY DEF IInv
  <1>2. /\ cachedHealth' = cachedHealth /\ route' = route
        /\ route' = [route EXCEPT ![r] = route[r]] /\ route[r] \in Routes
    BY <1>1 DEF Fails, RequestInv
  <1>3. adlCache' = adlCache /\ used' = used
    BY DEF Fails, RpcChecked
  <1>4. HealthInv' /\ MapInv'
    BY <1>1, <1>2, <1>3 DEF HealthInv, MapInv
  <1>5. CASE stage[r] = "primary" /\ Attempt(r, "fallback")
    BY <1>1, <1>2, <1>4, <1>5, Attempts DEF IInv
  <1>6. CASE route[r] = "health" /\ RpcChecked(r, 0)
    <2>1. 0 \in 0..Timeout
      BY Horizon
    <2>2. RequestInv'
      BY <1>1, <1>2, <1>6, <2>1, Checks
    <2> QED  BY <1>4, <2>2 DEF IInv
  <1>7. CASE Respond(r)
    BY <1>1, <1>2, <1>4, <1>7, Responds DEF IInv
  <1> QED  BY <1>5, <1>6, <1>7 DEF Fails

(* The answer shows the RPC check, which has aged while the query ran.       *)
LEMMA DbStep ==
    ASSUME IInv, NEW r \in Requests, DbChecked(r)
    PROVE  IInv'
  <1>1. MapInv /\ HealthInv /\ RequestInv
    BY DEF IInv
  <1>2. /\ stage[r] = "db" /\ cachedHealth' = {[age |-> age[r], fresh |-> HealthTtl]}
        /\ Respond(r) /\ adlCache' = adlCache /\ used' = used
        /\ route' = route /\ late' = late
    BY DEF DbChecked
  <1>3. /\ route' = [route EXCEPT ![r] = route[r]] /\ route[r] \in Routes
        /\ late' \in [Requests -> BOOLEAN]
    BY <1>1, <1>2 DEF RequestInv
  <1>4. RequestInv' /\ MapInv'
    BY <1>1, <1>2, <1>3, Responds DEF MapInv
  <1>5. age[r] \in 0..MaxAge /\ age[r] <= Timeout + DbWait
    <2>1. age[r] + timer[r] <= Timeout + DbWait
      BY <1>1, <1>2 DEF RequestInv, Timed
    <2> QED  BY <1>1, <2>1, Horizon DEF RequestInv
  <1>6. HealthInv'
    <2> DEFINE h == [age |-> age[r], fresh |-> HealthTtl]
    <2>1. h \in [age : 0..MaxAge, fresh : 1..HealthTtl]
      BY <1>5, Horizon
    <2>2. h.age + h.fresh <= HealthTtl + Timeout + DbWait
      BY <1>5, Horizon
    <2> HIDE DEF h
    <2>3. cachedHealth' = {h}
      BY <1>2 DEF h
    <2> QED  BY <2>1, <2>2, <2>3 DEF HealthInv
  <1> QED  BY <1>4, <1>6 DEF IInv

LEMMA LateStep ==
    ASSUME IInv, NEW r \in Requests, LateAnswer(r)
    PROVE  IInv'
  <1>1. MapInv /\ HealthInv /\ RequestInv
    BY DEF IInv
  <1>2. /\ adlCache' = adlCache /\ cachedHealth' = cachedHealth /\ used' = used
        /\ route' = route /\ stage' = stage /\ timer' = timer /\ elapsed' = elapsed
        /\ age' = age /\ waited' = waited
        /\ late' = [late EXCEPT ![r] = FALSE]
    BY DEF LateAnswer, caches
  <1>3. MapInv' /\ HealthInv'
    BY <1>1, <1>2 DEF MapInv, HealthInv
  <1>4. RequestInv'
    BY <1>1, <1>2 DEF RequestInv, Timed, Trying
  <1> QED  BY <1>3, <1>4 DEF IInv

(* Time: what a datum ages, its entry loses; what a request waits, its timer *)
(* loses.                                                                    *)
LEMMA OlderIs ==
    ASSUME NEW n \in 0..MaxAge
    PROVE  Older(n) \in 0..MaxAge /\ Older(n) <= n + 1
  BY Horizon DEF Older

LEMMA OlderEntry ==
    ASSUME NEW e \in Entry
    PROVE  LET new == [e EXCEPT !.age = IF e.fresh > 1 THEN Older(@) ELSE 0, !.fresh = Less(@)]
           IN  /\ new \in Entry /\ new.slab = e.slab /\ new.inPlace = e.inPlace
               /\ new.fresh > 0 =>
                    /\ e.fresh > 0
                    /\ \A bound \in Nat : e.age + e.fresh <= bound
                                             => new.age + new.fresh <= bound
  <1> DEFINE a == IF e.fresh > 1 THEN Older(e.age) ELSE 0
             f == Less(e.fresh)
             new == [e EXCEPT !.age = a, !.fresh = f]
  <1>1. e.age \in 0..MaxAge /\ e.fresh \in 0..AdlTtl /\ MaxAge \in Nat /\ AdlTtl \in Nat
    BY Horizon DEF Entry
  <1>2. f \in 0..AdlTtl /\ (f > 0 => e.fresh > 1 /\ f = e.fresh - 1)
    BY <1>1 DEF Less
  <1>3. a \in 0..MaxAge /\ (e.fresh > 1 => a <= e.age + 1)
    BY <1>1, OlderIs
  <1> HIDE DEF a, f
  <1>4. /\ new \in Entry /\ new.slab = e.slab /\ new.inPlace = e.inPlace
        /\ new.age = a /\ new.fresh = f
    BY <1>2, <1>3 DEF Entry
  <1> HIDE DEF new
  <1>5. new.fresh > 0 =>
          /\ e.fresh > 0
          /\ \A bound \in Nat : e.age + e.fresh <= bound => new.age + new.fresh <= bound
    BY <1>1, <1>2, <1>3, <1>4
  <1> QED  BY <1>4, <1>5 DEF new, a, f

LEMMA TickStep ==
    ASSUME IInv, Tick
    PROVE  IInv'
  <1>1. MapInv /\ HealthInv /\ RequestInv
    BY DEF IInv
  <1>2. MapInv'
    <2> DEFINE New(e) ==
                 [e EXCEPT !.age = IF e.fresh > 1 THEN Older(@) ELSE 0, !.fresh = Less(@)]
    <2>1. adlCache \in Seq(Entry) /\ Ordered(adlCache, used) /\ used' = used
      BY <1>1 DEF MapInv, Ordered, Tick
    <2>2. adlCache' = [i \in DOMAIN adlCache |-> New(adlCache[i])]
      BY DEF Tick
    <2>3. \A e \in Entry :
             /\ New(e) \in Entry /\ New(e).slab = e.slab /\ New(e).inPlace = e.inPlace
             /\ New(e).fresh > 0 =>
                  /\ e.fresh > 0
                  /\ \A bound \in Nat : e.age + e.fresh <= bound
                                           => New(e).age + New(e).fresh <= bound
      BY OlderEntry
    <2> HIDE DEF New
    <2>4. \A i \in DOMAIN adlCache : adlCache[i] \in Entry
      BY <2>1
    <2>5. DOMAIN adlCache = 1..Len(adlCache) /\ Len(adlCache) \in Nat
      BY <2>1
    <2>6. /\ adlCache' \in Seq(Entry) /\ DOMAIN adlCache' = DOMAIN adlCache
          /\ Len(adlCache') = Len(adlCache)
          /\ \A i \in DOMAIN adlCache : adlCache'[i] = New(adlCache[i])
      BY <2>2, <2>3, <2>4, <2>5
    <2>7. Ordered(adlCache', used')
      BY <2>1, <2>3, <2>4, <2>6, OrderedOlder
    <2>8. AdlTtl + Timeout \in Nat
      BY Horizon
    <2>9. ASSUME NEW i \in DOMAIN adlCache, adlCache'[i].fresh > 0
          PROVE  adlCache'[i].age + adlCache'[i].fresh <= AdlTtl + Timeout
      <3>1. adlCache[i].fresh > 0
        BY <2>3, <2>4, <2>6, <2>9
      <3>2. adlCache[i].age + adlCache[i].fresh <= AdlTtl + Timeout
        BY <1>1, <3>1 DEF MapInv
      <3> QED  BY <2>3, <2>4, <2>6, <2>8, <2>9, <3>2
    <2> QED  BY <1>1, <2>6, <2>7, <2>9 DEF MapInv
  <1>3. HealthInv'
    <2> SUFFICES ASSUME NEW n \in cachedHealth'
                 PROVE  /\ n \in [age : 0..MaxAge, fresh : 1..HealthTtl]
                        /\ n.age + n.fresh <= HealthTtl + Timeout + DbWait
      BY DEF HealthInv
    <2>1. PICK h \in cachedHealth :
             h.fresh > 1 /\ n = [age |-> Older(h.age), fresh |-> h.fresh - 1]
      BY DEF Tick
    <2>2. /\ h.age \in 0..MaxAge /\ h.fresh \in 1..HealthTtl
          /\ h.age + h.fresh <= HealthTtl + Timeout + DbWait
      BY <1>1 DEF HealthInv
    <2>3. n.age = Older(h.age) /\ n.fresh = h.fresh - 1
      BY <2>1
    <2>4. Older(h.age) \in 0..MaxAge /\ Older(h.age) <= h.age + 1
      BY <2>2, OlderIs
    <2>5. h.fresh - 1 \in 1..HealthTtl
      BY <2>1, <2>2, Horizon
    <2>6. n \in [age : 0..MaxAge, fresh : 1..HealthTtl]
      BY <2>1, <2>4, <2>5
    <2> QED  BY <2>2, <2>3, <2>4, <2>6, Horizon
  <1>4. RequestInv'
    <2>1. /\ \A r \in Requests : stage[r] # "idle" => timer[r] > 0
          /\ timer' = [r \in Requests |-> Less(timer[r])]
          /\ elapsed' = [r \in Requests |-> IF Trying(r) THEN elapsed[r] + 1 ELSE 0]
          /\ age' = [r \in Requests |-> IF stage[r] = "db" THEN Older(age[r]) ELSE 0]
          /\ waited' = [r \in Requests |->
                          IF stage[r] = "idle" THEN 0 ELSE Older(waited[r])]
          /\ route' = route /\ stage' = stage /\ late' = late
      BY DEF Tick
    <2>2. ASSUME NEW r \in Requests
          PROVE  /\ Less(timer[r]) \in 0..(Timeout + DbWait)
                 /\ stage[r] # "idle" => Less(timer[r]) = timer[r] - 1
                 /\ Trying(r) => elapsed[r] + 1 \in 0..Timeout
                 /\ Older(age[r]) \in 0..MaxAge /\ Older(age[r]) <= age[r] + 1
                 /\ Older(waited[r]) \in 0..MaxAge /\ Older(waited[r]) <= waited[r] + 1
      <3>1. /\ timer[r] \in 0..(Timeout + DbWait) /\ elapsed[r] \in 0..Timeout
            /\ age[r] \in 0..MaxAge /\ waited[r] \in 0..MaxAge
        BY <1>1 DEF RequestInv
      <3>2. Less(timer[r]) = IF timer[r] > 0 THEN timer[r] - 1 ELSE 0
        BY DEF Less
      <3>3. Trying(r) => elapsed[r] + timer[r] = Timeout /\ stage[r] # "idle"
        BY <1>1 DEF RequestInv, Timed, Trying
      <3> QED  BY <2>1, <3>1, <3>2, <3>3, OlderIs, Horizon
    <2>3. 0 \in 0..Timeout /\ 0 \in 0..MaxAge
      BY Horizon
    <2>4. /\ timer' \in [Requests -> 0..(Timeout + DbWait)]
          /\ elapsed' \in [Requests -> 0..Timeout]
          /\ age' \in [Requests -> 0..MaxAge] /\ waited' \in [Requests -> 0..MaxAge]
      BY <2>1, <2>2, <2>3
    <2>5. ASSUME NEW q \in Requests
          PROVE  /\ stage[q] = "idle" => waited'[q] = 0
                 /\ stage[q] \in {"primary", "fallback"} => elapsed'[q] + timer'[q] = Timeout
                 /\ stage[q] = "primary" => waited'[q] + timer'[q] <= Timeout
                 /\ stage[q] = "fallback" => waited'[q] + timer'[q] <= 2 * Timeout
                 /\ stage[q] = "db" =>
                      /\ route[q] = "health" /\ timer'[q] <= DbWait
                      /\ age'[q] + timer'[q] <= Timeout + DbWait
                      /\ waited'[q] + timer'[q] <= 2 * Timeout + DbWait
      <3>1. /\ timer[q] \in Nat /\ elapsed[q] \in Nat /\ age[q] \in Nat /\ waited[q] \in Nat
        BY <1>1, Horizon DEF RequestInv
      <3>2. /\ timer'[q] = Less(timer[q])
            /\ elapsed'[q] = IF Trying(q) THEN elapsed[q] + 1 ELSE 0
            /\ age'[q] = IF stage[q] = "db" THEN Older(age[q]) ELSE 0
            /\ waited'[q] = IF stage[q] = "idle" THEN 0 ELSE Older(waited[q])
        BY <2>1
      <3>3. Older(age[q]) \in Nat /\ Older(waited[q]) \in Nat
        BY <2>2, Horizon
      <3>4. /\ stage[q] \in {"primary", "fallback"} => elapsed[q] + timer[q] = Timeout
            /\ stage[q] = "primary" => waited[q] + timer[q] <= Timeout
            /\ stage[q] = "fallback" => waited[q] + timer[q] <= 2 * Timeout
            /\ stage[q] = "db" =>
                 /\ route[q] = "health" /\ timer[q] <= DbWait
                 /\ age[q] + timer[q] <= Timeout + DbWait
                 /\ waited[q] + timer[q] <= 2 * Timeout + DbWait
        BY <1>1 DEF RequestInv, Timed, Trying
      <3>5. Trying(q) <=> stage[q] \in {"primary", "fallback"}
        BY DEF Trying
      <3>6. stage[q] # "idle" => timer'[q] = timer[q] - 1
        BY <2>2, <3>2
      <3> QED  BY <2>2, <3>1, <3>2, <3>3, <3>4, <3>5, <3>6, Horizon
    <2>6. Timed'
      BY <2>1, <2>5 DEF Timed, Trying
    <2> QED  BY <1>1, <2>1, <2>4, <2>6 DEF RequestInv
  <1> QED  BY <1>2, <1>3, <1>4 DEF IInv
-----------------------------------------------------------------------------
LEMMA Initially == Init => IInv
  <1> SUFFICES ASSUME Init PROVE IInv
    OBVIOUS
  <1>1. <<>> \in Seq(Entry) /\ <<>> \in Seq(Slabs) /\ DOMAIN <<>> = {} /\ Len(<<>>) = 0
    OBVIOUS
  <1>2. MapInv
    BY <1>1 DEF Init, MapInv, Ordered
  <1>3. HealthInv
    BY DEF Init, HealthInv
  <1>4. /\ 0 \in 0..(Timeout + DbWait) /\ 0 \in 0..Timeout /\ 0 \in 0..MaxAge
    BY Horizon
  <1>5. RequestInv
    BY <1>4 DEF Init, RequestInv, Timed, Trying, Routes, Stages
  <1> QED  BY <1>2, <1>3, <1>5 DEF IInv

LEMMA StepKeeps == IInv /\ [Next]_vars => IInv'
  <1> SUFFICES ASSUME IInv, [Next]_vars PROVE IInv'
    OBVIOUS
  <1>1. ASSUME NEW r \in Requests, Rejects(r) \/ TimesOut(r)
        PROVE  IInv'
    <2>1. late' \in [Requests -> BOOLEAN]
      BY <1>1 DEF Rejects, TimesOut, IInv, RequestInv
    <2> QED  BY <1>1, <2>1, FailsStep DEF Rejects, TimesOut
  <1>2. CASE UNCHANGED vars
    <2>1. /\ adlCache' = adlCache /\ cachedHealth' = cachedHealth /\ used' = used
          /\ route' = route /\ stage' = stage /\ timer' = timer /\ elapsed' = elapsed
          /\ age' = age /\ waited' = waited /\ late' = late
      BY <1>2 DEF vars, caches
    <2>2. MapInv' /\ HealthInv'
      BY <2>1 DEF IInv, MapInv, HealthInv
    <2>3. RequestInv'
      BY <2>1 DEF IInv, RequestInv, Timed, Trying
    <2> QED  BY <2>2, <2>3 DEF IInv
  <1> QED  BY <1>1, <1>2, RequestSteps, AnswersStep, LateStep, DbStep, TickStep DEF Next
-----------------------------------------------------------------------------
(* The strengthening of the properties below is inductive.                   *)
THEOREM AlwaysIInv == Spec => []IInv
  BY Initially, StepKeeps, PTL DEF Spec

(* Every reachable state has the types of the model; the Map and the history *)
(* of its uses have the same slabs, and neither has one twice.               *)
THEOREM TypeCorrect == Spec => []TypeOK
  <1>1. IInv => TypeOK
    BY OrderedTyped DEF IInv, MapInv, HealthInv, RequestInv, Stages, TypeOK
  <1> QED  BY <1>1, AlwaysIInv, PTL

(* No cached answer is older than the TTL and one timeout (and a query, for  *)
(* /health): attempts and their fallbacks do not add up.                     *)
THEOREM AgeIsBounded == Spec => []AgeBounded
  <1>1. IInv => AgeBounded
    <2> SUFFICES ASSUME IInv PROVE AgeBounded
      OBVIOUS
    <2>1. \A e \in ToSet(adlCache) : \E i \in DOMAIN adlCache : e = adlCache[i]
      BY DEF ToSet
    <2> QED  BY <2>1 DEF IInv, MapInv, HealthInv, AgeBounded
  <1> QED  BY <1>1, AlwaysIInv, PTL

(* No request takes longer than two timeouts (and a query, for /health).     *)
THEOREM AlwaysAnsweredInTime == Spec => []AnsweredInTime
  <1>1. IInv => AnsweredInTime
    <2> SUFFICES ASSUME IInv, NEW r \in Requests
                 PROVE  waited[r] <= 2 * Timeout + (IF route[r] = "health" THEN DbWait ELSE 0)
      BY DEF AnsweredInTime
    <2>1. stage[r] \in Stages /\ waited[r] \in Nat /\ timer[r] \in Nat
      BY Horizon DEF IInv, RequestInv
    <2>2. /\ stage[r] = "idle" => waited[r] = 0
          /\ stage[r] = "primary" => waited[r] + timer[r] <= Timeout
          /\ stage[r] = "fallback" => waited[r] + timer[r] <= 2 * Timeout
          /\ stage[r] = "db" => /\ route[r] = "health"
                                /\ waited[r] + timer[r] <= 2 * Timeout + DbWait
      BY DEF IInv, RequestInv, Timed
    <2> QED  BY <2>1, <2>2, Horizon DEF Stages
  <1> QED  BY <1>1, AlwaysIInv, PTL

(* The Map is in the order of use but for entries stored over older ones.    *)
THEOREM EvictsLeastRecentlyUsed == Spec => []LeastRecentlyUsedFirst
  <1>1. IInv => LeastRecentlyUsedFirst
    BY DEF IInv, MapInv, Ordered, Before, LeastRecentlyUsedFirst
  <1> QED  BY <1>1, AlwaysIInv, PTL
-----------------------------------------------------------------------------
(* CachedRoute: what a body may still age, wherever it is. A kept result is  *)
(* one query old when it is kept; a stored response, one query and the hour. *)
Bodies(map, t) ==
    /\ map \in Seq(Response)
    /\ \A i, j \in DOMAIN map : map[i].url = map[j].url => i = j
    /\ \A i \in DOMAIN map :
         /\ map[i].read <= t
         /\ map[i].timestamp <= map[i].read + QueryWait + MaxStale
KeptInv ==
    /\ dbCache \in SUBSET [read : Times, timestamp : Times]
    /\ \A k, l \in dbCache : k = l
    /\ \A k \in dbCache : k.read <= now /\ k.timestamp <= k.read + QueryWait
GetsInv ==
    /\ req \in [Gets -> {Idle} \union Pending]
    /\ \A r \in Gets : req[r] # Idle =>
         /\ req[r].since <= now /\ now <= req[r].since + QueryWait
         /\ req[r].read <= now
         /\ req[r].phase # "storing" => req[r].since <= req[r].read
         /\ req[r].phase = "storing" => now <= req[r].read + QueryWait + MaxStale
CachedInv ==
    /\ now \in Times /\ oldest \in Times
    /\ Bodies(cache, now) /\ KeptInv /\ GetsInv /\ AnswerAgeBounded
-----------------------------------------------------------------------------
USE BoundsPositive

LEMMA CachedTimes ==
    /\ Times = 0..MaxTime /\ MaxTime \in Nat
    /\ Ttl \in Nat /\ MaxStale \in Nat /\ QueryWait \in Nat
    /\ MaxResponses \in Nat /\ MaxResponses > 0
  BY DEF Times

LEMMA BodiesLater ==
    ASSUME NEW map, NEW t \in Times, NEW u \in Times, t <= u, Bodies(map, t)
    PROVE  Bodies(map, u)
  <1>1. \A i \in DOMAIN map : map[i] \in Response
    BY DEF Bodies
  <1>2. \A i \in DOMAIN map : map[i].read <= u
    BY <1>1, CachedTimes DEF Bodies, Response
  <1> QED  BY <1>2 DEF Bodies

(* Deleting a URL, ...                                                       *)
LEMMA BodiesWithout ==
    ASSUME NEW t, NEW map, Bodies(map, t), NEW u
    PROVE  LET rest == Without(map, u)
           IN  Bodies(rest, t) /\ \A i \in DOMAIN rest : rest[i].url # u
  <1> DEFINE K == {e \in Response : e.url # u}
             rest == Kept(map, K)
  <1>1. /\ map \in Seq(Response)
        /\ \A i, j \in DOMAIN map : map[i].url = map[j].url => i = j
        /\ \A i \in DOMAIN map :
             /\ map[i].read <= t
             /\ map[i].timestamp <= map[i].read + QueryWait + MaxStale
    BY DEF Bodies
  <1>2. rest \in Seq(Response) /\ \E place : Places(map, K, rest, Len(map), place)
    BY <1>1, KeptPlaces
  <1>3. PICK place : Places(map, K, rest, Len(map), place)
    BY <1>2
  <1>4. Without(map, u) = rest
    BY DEF Without
  <1>5. \A x \in K : x.url # u
    OBVIOUS
  <1> HIDE DEF K, rest
  <1>6. DOMAIN rest = 1..Len(rest) /\ DOMAIN map = 1..Len(map) /\ Len(rest) \in Nat
    BY <1>1, <1>2
  <1>7. \A i \in DOMAIN rest :
          place[i] \in DOMAIN map /\ rest[i] = map[place[i]] /\ rest[i] \in K
    BY <1>3, <1>6 DEF Places
  <1>8. ASSUME NEW i \in DOMAIN rest, NEW j \in DOMAIN rest, rest[i].url = rest[j].url
        PROVE  i = j
    <2>1. map[place[i]].url = map[place[j]].url
      BY <1>7, <1>8
    <2>2. place[i] = place[j] /\ place[i] \in Nat
      BY <1>1, <1>6, <1>7, <2>1
    <2>3. (i < j => place[i] < place[j]) /\ (j < i => place[j] < place[i])
      BY <1>3, <1>6 DEF Places
    <2> QED  BY <1>6, <2>2, <2>3
  <1>9. \A i \in DOMAIN rest :
          /\ rest[i].read <= t
          /\ rest[i].timestamp <= rest[i].read + QueryWait + MaxStale
    BY <1>1, <1>7
  <1>10. Bodies(rest, t)
    BY <1>2, <1>8, <1>9 DEF Bodies
  <1>11. \A i \in DOMAIN rest : rest[i].url # u
    BY <1>5, <1>7
  <1> QED  BY <1>4, <1>10, <1>11

(* ... adding one, ...                                                       *)
LEMMA BodiesAppend ==
    ASSUME NEW t, NEW map, Bodies(map, t), NEW e \in Response,
           e.read <= t, e.timestamp <= e.read + QueryWait + MaxStale,
           \A i \in DOMAIN map : map[i].url # e.url
    PROVE  Bodies(Append(map, e), t)
  <1> DEFINE m == Append(map, e)
  <1>1. map \in Seq(Response) /\ Len(map) \in Nat /\ DOMAIN map = 1..Len(map)
    BY DEF Bodies
  <1>2. /\ m \in Seq(Response) /\ DOMAIN m = 1..(Len(map) + 1) /\ m[Len(map) + 1] = e
        /\ \A i \in DOMAIN map : m[i] = map[i]
    BY <1>1
  <1> HIDE DEF m
  <1>3. \A i \in DOMAIN m : i = Len(map) + 1 \/ i \in DOMAIN map
    BY <1>1, <1>2
  <1>4. \A i, j \in DOMAIN m : m[i].url = m[j].url => i = j
    BY <1>2, <1>3 DEF Bodies
  <1>5. \A i \in DOMAIN m :
          m[i].read <= t /\ m[i].timestamp <= m[i].read + QueryWait + MaxStale
    BY <1>2, <1>3 DEF Bodies
  <1> QED  BY <1>2, <1>4, <1>5 DEF Bodies, m

(* ... and what set does: the oldest make room, and a URL has one entry.     *)
LEMMA BodiesRoom ==
    ASSUME NEW t, NEW map, Bodies(map, t)
    PROVE  Bodies(MakeRoom(map), t)
  <1> DEFINE a == Len(map) - MaxResponses + 2
             m == SubSeq(map, a, Len(map))
  <1>1. map \in Seq(Response) /\ Len(map) \in Nat /\ DOMAIN map = 1..Len(map)
    BY DEF Bodies
  <1>2. CASE Len(map) >= MaxResponses
    <2>1. a \in Int /\ a >= 2 /\ a <= Len(map) + 1
      BY <1>1, <1>2, CachedTimes
    <2> HIDE DEF a
    <2>2. \A i \in a..Len(map) : map[i] \in Response
      BY <1>1, <2>1
    <2>3. /\ m \in Seq(Response) /\ Len(m) = IF a <= Len(map) THEN Len(map) - a + 1 ELSE 0
          /\ \A i \in 1..(Len(map) - a + 1) : m[i] = map[a + i - 1]
      BY <1>1, <2>1, <2>2, SubSeqProperties
    <2> HIDE DEF m
    <2>4. DOMAIN m = 1..Len(m) /\ Len(m) = Len(map) - a + 1
      BY <1>1, <2>1, <2>3
    <2>5. \A i \in DOMAIN m : a + i - 1 \in DOMAIN map /\ m[i] = map[a + i - 1]
      BY <1>1, <2>1, <2>3, <2>4
    <2>6. ASSUME NEW i \in DOMAIN m, NEW j \in DOMAIN m, m[i].url = m[j].url
          PROVE  i = j
      <3>1. a + i - 1 = a + j - 1
        BY <2>5, <2>6 DEF Bodies
      <3> QED  BY <2>1, <2>4, <3>1
    <2>7. \A i \in DOMAIN m :
            m[i].read <= t /\ m[i].timestamp <= m[i].read + QueryWait + MaxStale
      BY <2>5 DEF Bodies
    <2>8. Bodies(m, t)
      BY <2>3, <2>6, <2>7 DEF Bodies
    <2> QED  BY <1>2, <2>8 DEF MakeRoom, a, m
  <1>3. CASE ~(Len(map) >= MaxResponses)
    BY <1>3 DEF MakeRoom
  <1> QED  BY <1>2, <1>3

LEMMA BodiesSet ==
    ASSUME NEW t, NEW map, Bodies(map, t), NEW e \in Response,
           e.read <= t, e.timestamp <= e.read + QueryWait + MaxStale
    PROVE  Bodies(SetEntry(map, e), t)
  <1>1. map \in Seq(Response) /\ Len(map) \in Nat /\ DOMAIN map = 1..Len(map)
    BY DEF Bodies
  <1>2. \A i \in DOMAIN map : map[i].url = e.url => map[i] \in EntriesOf(map, e.url)
    BY DEF EntriesOf, ToSet
  <1>3. CASE EntriesOf(map, e.url) = {}
    BY <1>2, <1>3, BodiesAppend DEF SetEntry
  <1>4. CASE EntriesOf(map, e.url) # {}
    <2> DEFINE m == [i \in DOMAIN map |-> IF map[i].url = e.url THEN e ELSE map[i]]
    <2>1. m \in Seq(Response) /\ DOMAIN m = DOMAIN map
      BY <1>1
    <2>2. \A i \in DOMAIN map : m[i].url = map[i].url /\ m[i] \in {e, map[i]}
      OBVIOUS
    <2> HIDE DEF m
    <2>3. Bodies(m, t)
      BY <2>1, <2>2 DEF Bodies
    <2> QED  BY <1>4, <2>3 DEF SetEntry, m
  <1> QED  BY <1>3, <1>4
-----------------------------------------------------------------------------
LEMMA GetIs ==
    ASSUME CachedInv, NEW r \in Gets, req[r] # Idle
    PROVE  /\ req[r] \in Pending /\ req[r].url \in Urls
           /\ req[r].since \in Times /\ req[r].read \in Times
  BY DEF CachedInv, GetsInv, Pending

(* One GET goes on, at the same time.                                        *)
LEMMA GetsStep ==
    ASSUME CachedInv, now' = now, NEW r \in Gets, NEW p \in {Idle} \union Pending,
           req' = [req EXCEPT ![r] = p],
           p # Idle => /\ p.since <= now /\ now <= p.since + QueryWait /\ p.read <= now
                       /\ p.phase # "storing" => p.since <= p.read
                       /\ p.phase = "storing" => now <= p.read + QueryWait + MaxStale
    PROVE  GetsInv'
  <1>1. req \in [Gets -> {Idle} \union Pending]
    BY DEF CachedInv, GetsInv
  <1>2. req' \in [Gets -> {Idle} \union Pending]
    BY <1>1
  <1>3. \A s \in Gets : req'[s] = IF s = r THEN p ELSE req[s]
    BY <1>1
  <1>4. \A s \in Gets : req'[s] # Idle =>
         /\ req'[s].since <= now /\ now <= req'[s].since + QueryWait
         /\ req'[s].read <= now
         /\ req'[s].phase # "storing" => req'[s].since <= req'[s].read
         /\ req'[s].phase = "storing" => now <= req'[s].read + QueryWait + MaxStale
    BY <1>3 DEF CachedInv, GetsInv
  <1> QED  BY <1>2, <1>4 DEF GetsInv

(* A body is answered.                                                       *)
LEMMA AnswerInTime ==
    ASSUME CachedInv, NEW read \in Times, read <= now,
           now <= read + QueryWait + MaxStale + Ttl, Answer(read)
    PROVE  oldest' \in Times /\ AnswerAgeBounded'
  BY CachedTimes DEF CachedInv, Answer, AnswerAgeBounded

LEMMA HitStep ==
    ASSUME CachedInv, NEW u \in Urls, CacheHit(u)
    PROVE  CachedInv'
  <1>1. PICK e \in EntriesOf(cache, u) :
          /\ Live(e) /\ cache' = Append(Without(cache, u), e) /\ Answer(e.read)
          /\ now' = now /\ dbCache' = dbCache /\ req' = req
    BY DEF CacheHit
  <1>2. Bodies(cache, now) /\ now \in Times
    BY DEF CachedInv
  <1>3. /\ e \in Response /\ e.url = u /\ e.read <= now
        /\ e.timestamp <= e.read + QueryWait + MaxStale
    <2>1. PICK i \in DOMAIN cache : e = cache[i] /\ e.url = u
      BY <1>1 DEF EntriesOf, ToSet
    <2> QED  BY <1>2, <2>1 DEF Bodies
  <1>4. Bodies(cache', now)
    BY <1>1, <1>2, <1>3, BodiesWithout, BodiesAppend
  <1>5. e.read \in Times /\ e.timestamp \in Times
    BY <1>3 DEF Response
  <1>6. now <= e.read + QueryWait + MaxStale + Ttl
    BY <1>1, <1>2, <1>3, <1>5, CachedTimes DEF Live
  <1>7. oldest' \in Times /\ AnswerAgeBounded'
    BY <1>1, <1>3, <1>5, <1>6, AnswerInTime
  <1>8. KeptInv' /\ GetsInv'
    BY <1>1 DEF CachedInv, KeptInv, GetsInv
  <1> QED  BY <1>1, <1>2, <1>4, <1>7, <1>8 DEF CachedInv

LEMMA MissStep ==
    ASSUME CachedInv, NEW u \in Urls, NEW r \in Gets, CacheMiss(r, u)
    PROVE  CachedInv'
  <1> DEFINE p == [phase |-> "querying", url |-> u, since |-> now, read |-> now]
  <1>1. /\ cache' = Without(cache, u) /\ req' = [req EXCEPT ![r] = p]
        /\ now' = now /\ dbCache' = dbCache /\ oldest' = oldest
    BY DEF CacheMiss
  <1>2. now \in Times /\ Bodies(cache, now)
    BY DEF CachedInv
  <1>3. p \in Pending /\ p.since = now /\ p.read = now /\ p.phase = "querying"
    BY <1>2 DEF Pending
  <1>4. now <= now /\ now <= now + QueryWait
    BY <1>2, CachedTimes
  <1> HIDE DEF p
  <1>5. GetsInv'
    BY <1>1, <1>3, <1>4, GetsStep
  <1>6. Bodies(cache', now)
    BY <1>1, <1>2, BodiesWithout
  <1>7. KeptInv' /\ AnswerAgeBounded'
    BY <1>1 DEF CachedInv, KeptInv, AnswerAgeBounded
  <1> QED  BY <1>1, <1>5, <1>6, <1>7 DEF CachedInv

LEMMA ReadsStep ==
    ASSUME CachedInv, NEW r \in Gets, DatabaseReads(r)
    PROVE  CachedInv'
  <1> DEFINE p == [[req[r] EXCEPT !.phase = "read"] EXCEPT !.read = now]
  <1>1. /\ req[r] # Idle /\ req[r].phase = "querying"
        /\ cache' = cache /\ now' = now /\ dbCache' = dbCache /\ oldest' = oldest
    BY DEF DatabaseReads
  <1>2. req' = [req EXCEPT ![r] = p]
    BY DEF DatabaseReads, CachedInv, GetsInv
  <1>3. now \in Times /\ req[r] \in Pending
    BY <1>1, GetIs DEF CachedInv
  <1>4. p \in Pending /\ p.since = req[r].since /\ p.read = now /\ p.phase = "read"
    BY <1>3 DEF Pending
  <1>5. req[r].since <= now /\ now <= req[r].since + QueryWait /\ now <= now
    BY <1>1, <1>3, CachedTimes DEF CachedInv, GetsInv
  <1> HIDE DEF p
  <1>6. GetsInv'
    BY <1>1, <1>2, <1>4, <1>5, GetsStep
  <1> QED  BY <1>1, <1>6 DEF CachedInv, KeptInv, AnswerAgeBounded

LEMMA QuerySucceedsStep ==
    ASSUME CachedInv, NEW r \in Gets, QuerySucceeds(r)
    PROVE  CachedInv'
  <1> DEFINE p == [req[r] EXCEPT !.phase = "storing"]
             k == [read |-> req[r].read, timestamp |-> now]
  <1>1. /\ req[r] # Idle /\ req[r].phase = "read" /\ dbCache' = {k}
        /\ cache' = cache /\ now' = now /\ oldest' = oldest
    BY DEF QuerySucceeds
  <1>2. req' = [req EXCEPT ![r] = p]
    BY DEF QuerySucceeds, CachedInv, GetsInv
  <1>3. now \in Times /\ req[r] \in Pending /\ req[r].read \in Times /\ req[r].since \in Times
    BY <1>1, GetIs DEF CachedInv
  <1>4. /\ p \in Pending /\ p.since = req[r].since /\ p.read = req[r].read
        /\ p.phase = "storing"
    BY <1>3 DEF Pending
  <1>5. /\ req[r].since <= now /\ now <= req[r].since + QueryWait
        /\ req[r].read <= now /\ req[r].since <= req[r].read
    BY <1>1 DEF CachedInv, GetsInv
  <1>6. now <= req[r].read + QueryWait /\ now <= req[r].read + QueryWait + MaxStale
    BY <1>3, <1>5, CachedTimes
  <1>7. KeptInv'
    BY <1>1, <1>3, <1>5, <1>6 DEF KeptInv
  <1> HIDE DEF p
  <1>8. GetsInv'
    BY <1>1, <1>2, <1>4, <1>5, <1>6, GetsStep
  <1> QED  BY <1>1, <1>7, <1>8 DEF CachedInv, AnswerAgeBounded

LEMMA QueryFailsStep ==
    ASSUME CachedInv, NEW r \in Gets, QueryFails(r)
    PROVE  CachedInv'
  <1>1. /\ req[r] # Idle
        /\ cache' = cache /\ now' = now /\ dbCache' = dbCache /\ oldest' = oldest
    BY DEF QueryFails
  <1>2. GetsInv'
    <2>1. CASE \E k \in dbCache : Usable(k)
      <3>1. PICK k \in dbCache : FallsBack(r, k)
        BY <2>1 DEF QueryFails
      <3> DEFINE p == [[req[r] EXCEPT !.phase = "storing"] EXCEPT !.read = k.read]
      <3>2. req' = [req EXCEPT ![r] = p]
        BY <3>1 DEF FallsBack, CachedInv, GetsInv
      <3>3. /\ now \in Times /\ k.read \in Times /\ k.timestamp \in Times /\ k.read <= now
            /\ k.timestamp <= k.read + QueryWait
        BY DEF CachedInv, KeptInv
      <3>4. now <= k.read + QueryWait + MaxStale
        BY <3>1, <3>3, CachedTimes DEF FallsBack, Usable
      <3>5. req[r] \in Pending /\ req[r].since <= now /\ now <= req[r].since + QueryWait
        BY <1>1, GetIs DEF CachedInv, GetsInv
      <3>6. /\ p \in Pending /\ p.since = req[r].since /\ p.read = k.read
            /\ p.phase = "storing"
        BY <3>3, <3>5 DEF Pending
      <3> HIDE DEF p
      <3> QED  BY <1>1, <3>2, <3>3, <3>4, <3>5, <3>6, GetsStep
    <2>2. CASE ~\E k \in dbCache : Usable(k)
      BY <1>1, <2>2, GetsStep DEF QueryFails
    <2> QED  BY <2>1, <2>2
  <1> QED  BY <1>1, <1>2 DEF CachedInv, KeptInv, AnswerAgeBounded

LEMMA StoreStep ==
    ASSUME CachedInv, NEW r \in Gets, StoreAndReply(r)
    PROVE  CachedInv'
  <1> DEFINE e == ResponseOf(r)
  <1>1. /\ req[r] # Idle /\ req[r].phase = "storing"
        /\ cache' = SetEntry(MakeRoom(cache), e) /\ Answer(req[r].read)
        /\ req' = [req EXCEPT ![r] = Idle] /\ now' = now /\ dbCache' = dbCache
    BY DEF StoreAndReply
  <1>2. /\ now \in Times /\ req[r].url \in Urls /\ req[r].read \in Times
        /\ Bodies(cache, now)
    BY <1>1, GetIs DEF CachedInv
  <1>3. req[r].read <= now /\ now <= req[r].read + QueryWait + MaxStale
    BY <1>1 DEF CachedInv, GetsInv
  <1>4. e \in Response /\ e.read = req[r].read /\ e.timestamp = now
    BY <1>2 DEF ResponseOf, Response
  <1> HIDE DEF e
  <1>5. Bodies(cache', now)
    BY <1>1, <1>2, <1>3, <1>4, BodiesRoom, BodiesSet
  <1>6. now <= req[r].read + QueryWait + MaxStale + Ttl
    BY <1>2, <1>3, CachedTimes
  <1>7. oldest' \in Times /\ AnswerAgeBounded'
    BY <1>1, <1>2, <1>3, <1>6, AnswerInTime
  <1>8. GetsInv'
    BY <1>1, GetsStep
  <1>9. KeptInv'
    BY <1>1 DEF CachedInv, KeptInv
  <1> QED  BY <1>1, <1>2, <1>5, <1>7, <1>8, <1>9 DEF CachedInv

LEMMA CachedTickStep ==
    ASSUME CachedInv, CachedTick
    PROVE  CachedInv'
  <1>1. /\ now < MaxTime /\ now' = now + 1 /\ cache' = cache /\ dbCache' = dbCache
        /\ req' = req /\ oldest' = oldest
        /\ \A r \in Gets : req[r] # Idle =>
             req[r].phase # "storing" /\ now < req[r].since + QueryWait
    BY DEF CachedTick
  <1>2. now \in Times /\ now' \in Times /\ now <= now'
    BY <1>1, CachedTimes DEF CachedInv
  <1>3. Bodies(cache', now')
    BY <1>1, <1>2, BodiesLater DEF CachedInv
  <1>4. KeptInv'
    <2>1. \A k \in dbCache : k.read \in Times /\ k.read <= now
      BY DEF CachedInv, KeptInv
    <2>2. \A k \in dbCache : k.read <= now'
      BY <1>1, <1>2, <2>1, CachedTimes
    <2> QED  BY <1>1, <2>2 DEF CachedInv, KeptInv
  <1>5. ASSUME NEW r \in Gets, req[r] # Idle
        PROVE  /\ req[r].since <= now' /\ now' <= req[r].since + QueryWait
               /\ req[r].read <= now' /\ req[r].phase # "storing"
               /\ req[r].since <= req[r].read
    <2>1. req[r].since \in Times /\ req[r].read \in Times
      BY <1>5, GetIs
    <2>2. /\ req[r].since <= now /\ req[r].read <= now /\ req[r].phase # "storing"
          /\ now < req[r].since + QueryWait /\ req[r].since <= req[r].read
      BY <1>1, <1>5 DEF CachedInv, GetsInv
    <2> QED  BY <1>1, <1>2, <2>1, <2>2, CachedTimes
  <1>6. GetsInv'
    BY <1>1, <1>5 DEF CachedInv, GetsInv
  <1> QED  BY <1>1, <1>2, <1>3, <1>4, <1>6 DEF CachedInv, AnswerAgeBounded

LEMMA CachedInvStep == CachedInv /\ [CachedNext]_cachedVars => CachedInv'
  <1> SUFFICES ASSUME CachedInv, [CachedNext]_cachedVars PROVE CachedInv'
    OBVIOUS
  <1>1. ASSUME NEW u \in Urls, CacheHit(u) PROVE CachedInv'
    BY <1>1, HitStep
  <1>2. ASSUME NEW u \in Urls, NEW r \in Gets, CacheMiss(r, u) PROVE CachedInv'
    BY <1>2, MissStep
  <1>3. ASSUME NEW r \in Gets, DatabaseReads(r) PROVE CachedInv'
    BY <1>3, ReadsStep
  <1>4. ASSUME NEW r \in Gets, QuerySucceeds(r) PROVE CachedInv'
    BY <1>4, QuerySucceedsStep
  <1>5. ASSUME NEW r \in Gets, QueryFails(r) PROVE CachedInv'
    BY <1>5, QueryFailsStep
  <1>6. ASSUME NEW r \in Gets, StoreAndReply(r) PROVE CachedInv'
    BY <1>6, StoreStep
  <1>7. CASE CachedTick
    BY <1>7, CachedTickStep
  <1>8. CASE UNCHANGED cachedVars
    BY <1>8 DEF cachedVars, CachedInv, KeptInv, GetsInv, AnswerAgeBounded
  <1> QED  BY <1>1, <1>2, <1>3, <1>4, <1>5, <1>6, <1>7, <1>8 DEF CachedNext

LEMMA CachedInitInv == CachedInit => CachedInv
  <1> SUFFICES ASSUME CachedInit PROVE CachedInv
    OBVIOUS
  <1>1. /\ now = 0 /\ cache = <<>> /\ dbCache = {} /\ oldest = 0
        /\ req = [r \in Gets |-> Idle]
    BY DEF CachedInit
  <1>2. now \in Times /\ oldest \in Times /\ AnswerAgeBounded
    BY <1>1, CachedTimes DEF AnswerAgeBounded
  <1>3. Bodies(cache, now)
    <2>1. <<>> \in Seq(Response) /\ DOMAIN <<>> = {}
      OBVIOUS
    <2> QED  BY <1>1, <2>1 DEF Bodies
  <1>4. KeptInv
    BY <1>1 DEF KeptInv
  <1>5. \A r \in Gets : req[r] = Idle
    BY <1>1
  <1>6. GetsInv
    BY <1>1, <1>5 DEF GetsInv
  <1> QED  BY <1>2, <1>3, <1>4, <1>6 DEF CachedInv

(* However the two caches feed each other, no client is given data that left *)
(* the database longer ago than one query, the hour of the fallback and one  *)
(* TTL (cache.ts, db-cache-fallback.ts), for any number of URLs and requests *)
(* and any size of the caches.                                               *)
THEOREM AnswerAgeIsBounded == CachedSpec => []AnswerAgeBounded
  <1>1. CachedInv => AnswerAgeBounded
    BY DEF CachedInv
  <1> QED  BY <1>1, CachedInitInv, CachedInvStep, PTL DEF CachedSpec

(* The state of the two caches and of the requests has its types.            *)
THEOREM CachedTypesCorrect == CachedSpec => []CachedTypeOK
  <1>1. CachedInv => CachedTypeOK
    BY DEF CachedInv, Bodies, KeptInv, GetsInv, CachedTypeOK
  <1> QED  BY <1>1, CachedInitInv, CachedInvStep, PTL DEF CachedSpec
=============================================================================
