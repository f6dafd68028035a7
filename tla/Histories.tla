----------------------------- MODULE Histories -----------------------------
(* The histories of a market: GET /prices/:slab, /open-interest/:slab and    *)
(* /insurance/:slab of src/routes/prices.ts, open-interest.ts, insurance.ts. *)
(* The indexer adds rows, each later than those before; a row may hold a     *)
(* value no chart can show, and a query may fail.                            *)
EXTENDS Integers, Sequences, FiniteSets, SequencesExt

CONSTANTS
    PriceRows,      \* 1500
    RecordRows,     \* 100, of open interest and of insurance
    Promised,       \* 100: the updates that openapi.yaml speaks of
    MaxRowsInTable  \* bound: rows the indexer adds

VARIABLES
    table,    \* the rows of a market, oldest first: is the value sane?
    answer    \* of the last request: its route, status and rows, by their place

vars == <<table, answer>>

Init == table = <<>> /\ answer = [route |-> "none"]

(* order("timestamp", ascending) with limit, and its reverse.                *)
Oldest(rows) == SelectSeq([i \in DOMAIN table |-> i], LAMBDA i : i <= rows)
Newest(rows) ==
    Reverse(SelectSeq([i \in DOMAIN table |-> i], LAMBDA i : i > Len(table) - rows))
Sane(rows) == SelectSeq(rows, LAMBDA i : table[i])

Insert ==
    /\ Len(table) < MaxRowsInTable
    /\ \E sane \in BOOLEAN : table' = Append(table, sane)
    /\ UNCHANGED answer

Reply(route, rows) ==
    /\ answer' = [route |-> route, status |-> 200, rows |-> rows, of |-> Len(table)]
    /\ UNCHANGED table

GetPrices == Reply("prices", Sane(Oldest(PriceRows)))
GetOpenInterest == Reply("open-interest", Sane(Oldest(RecordRows)))
GetInsurance == Reply("insurance", Newest(RecordRows))

(* A query fails, or, prices apart, the market has no row in market_stats.   *)
Fail ==
    /\ \E route \in {"prices", "open-interest", "insurance"}, status \in {404, 500} :
         /\ route = "prices" => status = 500
         /\ answer' = [route |-> route, status |-> status]
    /\ UNCHANGED table

Next == Insert \/ GetPrices \/ GetOpenInterest \/ GetInsurance \/ Fail

Spec == Init /\ [][Next]_vars

-----------------------------------------------------------------------------
TypeOK ==
    /\ table \in Seq(BOOLEAN) /\ Len(table) <= MaxRowsInTable
    /\ answer.route \in {"none", "prices", "open-interest", "insurance"}

(* "Returns the last 100 oracle price updates" (src/openapi.yaml): of the    *)
(* prices a chart can show that were there at the request, the last ones are *)
(* in the answer.                                                            *)
LastPricesReturned ==
    answer.route = "prices" /\ answer.status = 200 =>
      LET sane == {i \in 1..answer.of : table[i]}
      IN  \A i \in sane :
            Cardinality({j \in sane : j > i}) < Promised
              => \E k \in DOMAIN answer.rows : answer.rows[k] = i
=============================================================================
