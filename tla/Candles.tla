------------------------------ MODULE Candles ------------------------------
(* GET /candles/:slab of src/routes/candles.ts: the trades of a range, the   *)
(* oldest MaxRows of them, gathered into bars. Time is counted in fractions  *)
(* of a second, of which a created_at has some.                              *)
EXTENDS Integers, Sequences, FiniteSets, SequencesExt, FiniteSetsExt, JsMap

CONSTANTS
    Second,     \* 1000: fractions of a second
    MaxRows     \* MAX_BARS * 10

ASSUME SizesInNat == Second \in Nat \ {0} /\ MaxRows \in Nat \ {0}

(* A price (or size: either drops the trade) that is no finite number.       *)
NotFinite == -1

(* The query: gte, lte, order, limit.                                        *)
Rows(trades, from, to) ==
    LET inRange == Kept(trades, {t \in ToSet(trades) :
                                   t.at \in (from * Second)..(to * Second)})
    IN  SubSeq(inRange, 1, Min({Len(inRange), MaxRows}))

BucketOf(trade, bucketSeconds) ==
    ((trade.at \div Second) \div bucketSeconds) * bucketSeconds

AbsOf(n) == IF n < 0 THEN -n ELSE n

Opened(trade) ==
    [o |-> trade.price, h |-> trade.price, l |-> trade.price, c |-> trade.price,
     v |-> AbsOf(trade.size)]

(* Mutant: a low that is compared with the open.                             *)
MergedHighOrLow(bar, trade) ==
    [bar EXCEPT !.h = IF trade.price > bar.h THEN trade.price ELSE bar.h,
                !.l = IF trade.price < bar.o THEN trade.price ELSE bar.l,
                !.c = trade.price,
                !.v = bar.v + AbsOf(trade.size)]

Merged(bar, trade) ==
    [bar EXCEPT !.h = IF trade.price > bar.h THEN trade.price ELSE bar.h,
                !.l = IF trade.price < bar.l THEN trade.price ELSE bar.l,
                !.c = trade.price,
                !.v = bar.v + AbsOf(trade.size)]

(* bars: a Map from the start of a bucket.                                   *)
Gathered(bars, trade, bucketSeconds) ==
    LET bucket == BucketOf(trade, bucketSeconds)
    IN  IF trade.price = NotFinite
        THEN bars
        ELSE [b \in DOMAIN bars \union {bucket} |->
                IF b # bucket THEN bars[b]
                ELSE IF b \in DOMAIN bars THEN Merged(bars[b], trade) ELSE Opened(trade)]

Bars(rows, bucketSeconds) ==
    LET bars[n \in 0..Len(rows)] ==
            IF n = 0 THEN <<>> ELSE Gathered(bars[n - 1], rows[n], bucketSeconds)
    IN  bars[Len(rows)]

(* The least first: each key has as many below it as are in front of it.     *)
SortedKeys(keys) ==
    [i \in 1..Cardinality(keys) |->
       CHOOSE k \in keys : Cardinality({other \in keys : other < k}) = i - 1]

BucketCandles(rows, bucketSeconds) ==
    LET bars == Bars(rows, bucketSeconds)
    IN  [s |-> IF rows = <<>> THEN "no_data" ELSE "ok",
         t |-> SortedKeys(DOMAIN bars),
         bars |-> bars]

(* A response of status 400 or 500.                                          *)
ErrorResponse == [s |-> "error", t |-> <<>>, bars |-> <<>>]

(* The handler: 400, or the bars of the rows the query returned.             *)
GetCandles(trades, from, to, bucketSeconds) ==
    IF to <= from
    THEN ErrorResponse
    ELSE BucketCandles(Rows(trades, from, to), bucketSeconds)
=============================================================================
