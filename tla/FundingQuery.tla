---------------------------- MODULE FundingQuery ----------------------------
(* What GET /funding/:slab/history and /historySince of                      *)
(* src/routes/funding.ts make of the parameters since and limit. An instant  *)
(* is a number of milliseconds.                                              *)
EXTENDS Integers, FiniteSetsExt

CONSTANTS
    Milliseconds,  \* in a second: 1000
    EpochSplit,    \* 1e12: a larger number is an epoch in milliseconds
    Years,         \* the instants of the years 2020 to 2100
    DefaultRows,   \* 100
    MaxRowsAsked   \* MAX_ROWS

ASSUME RowsPositive ==
    DefaultRows \in Nat \ {0} /\ MaxRowsAsked \in Nat /\ DefaultRows <= MaxRowsAsked
(* 2020 is past 1e12 ms, and 2100 in seconds is not past 1e12.               *)
ASSUME EpochsApart ==
    /\ Milliseconds \in Nat \ {0} /\ EpochSplit \in Nat
    /\ \A instant \in Years : /\ instant \in Nat /\ instant > EpochSplit
                              /\ instant \div Milliseconds \in 1..EpochSplit

(* A query parameter: absent (or empty, which is as falsy), a number, text   *)
(* that Date reads as an instant, or other text. What is a number is never   *)
(* read as a date, "2024" neither.                                           *)
NoParam == [as |-> "absent"]
NumberParam(n) == [as |-> "number", number |-> n]
DateParam(instant) == [as |-> "date", instant |-> instant]
OtherParam == [as |-> "other"]

Invalid == -1

(* Mutant: seconds only.                                                     *)
EpochSeconds(n) == n * Milliseconds

Epoch(n) == IF n > EpochSplit THEN n ELSE n * Milliseconds

(* Date reads "0" and "-5" too, as days before 2020.                         *)
Since(param) ==
    LET instant == CASE param.as = "number" /\ param.number > 0 -> Epoch(param.number)
                     [] param.as = "date" -> param.instant
                     [] OTHER -> Invalid
    IN  IF instant \in Years THEN instant ELSE Invalid

(* parseInt: a number is cut to an integer, other text is NaN.               *)
RowLimit(param) ==
    IF param.as # "number" \/ param.number <= 0 THEN DefaultRows
    ELSE Min({param.number, MaxRowsAsked})

Refused == [status |-> 400]
Queried(since, rows) == [status |-> 200, since |-> since, rows |-> rows]

GetHistorySince(since, limit) ==
    IF since = NoParam \/ Since(since) = Invalid THEN Refused
    ELSE Queried(Since(since), RowLimit(limit))

(* With since the limit is not looked at again.                              *)
GetHistory(since, limit) ==
    IF since = NoParam THEN Queried(Invalid, RowLimit(limit))
    ELSE IF Since(since) = Invalid THEN Refused
    ELSE Queried(Since(since), MaxRowsAsked)
=============================================================================
