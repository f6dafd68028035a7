----------------------------- MODULE AdlRanking -----------------------------
(* The answer of GET /api/adl/rankings from what a slab holds:               *)
(* computeInsuranceUtilizationBps, rankProfitablePositions and the trigger   *)
(* of src/routes/adl.ts. All of it is BigInt: exact, division rounding down. *)
(* When the bytes are read, from where, and how long the answer is kept is   *)
(* modelled in RpcRoutes.                                                    *)
EXTENDS Integers, FiniteSets, Functions

CONSTANTS
    Bps,         \* 10_000
    Millionths   \* 1_000_000

ASSUME ScalesPositive == Bps \in Nat \ {0} /\ Millionths \in Nat \ {0}

(* engine.insuranceFund: a market's balance may exceed what fees brought in. *)
UtilizationBps(fund) ==
    IF fund.feeRevenue = 0 THEN 0
    ELSE LET consumed == IF fund.feeRevenue > fund.balance
                         THEN fund.feeRevenue - fund.balance ELSE 0
             bps == (consumed * Bps) \div fund.feeRevenue
         IN  IF bps > Bps THEN Bps ELSE bps

CapExceeded(slab) == slab.maxPnlCap > 0 /\ slab.pnlPosTot > slab.maxPnlCap

UtilizationTriggered(slab, threshold) ==
    threshold > 0 /\ UtilizationBps(slab.fund) >= threshold

AdlNeeded(slab, threshold) ==
    CapExceeded(slab) \/ UtilizationTriggered(slab, threshold)

Capital(account) == IF account.capital > 0 THEN account.capital ELSE 1

(* Mutant: rounded before it is scaled.                                      *)
PnlPctRounded(account) == (account.pnl \div Capital(account)) * Millionths

PnlPct(account) == (account.pnl * Millionths) \div Capital(account)

Profitable(accounts) ==
    {i \in DOMAIN accounts : accounts[i].position # 0 /\ accounts[i].pnl > 0}

(* The comparator never says that two are equal: of two that are, it puts    *)
(* last whichever it is given first, and either may end in front.            *)
RanksBefore(a, b) ==
    \/ PnlPct(a) > PnlPct(b)
    \/ PnlPct(a) = PnlPct(b) /\ a.pnl > b.pnl

Rankings(accounts) ==
    LET ranked == Profitable(accounts)
    IN  {order \in Bijection(1..Cardinality(ranked), ranked) :
           \A i, j \in DOMAIN order :
             RanksBefore(accounts[order[i]], accounts[order[j]]) => i < j}

(* What the bytes are to the SDK: a v17 market group, whose accounts are not *)
(* in it; nothing that parseEngine and parseConfig read; a slab these read   *)
(* but whose accounts they do not; or a slab.                                *)
Layouts == {"v17", "unparsable", "unranked", "slab"}

(* The answer from the bytes on. Without the accounts it still has the state *)
(* of the trigger.                                                           *)
RankingResponses(slab, threshold) ==
    IF slab.layout \in {"v17", "unparsable"} THEN {[status |-> 400]} ELSE
    {[status |-> 200,
      capExceeded |-> CapExceeded(slab),
      adlNeeded |-> AdlNeeded(slab, threshold),
      excess |-> IF CapExceeded(slab) THEN slab.pnlPosTot - slab.maxPnlCap ELSE 0,
      rankings |-> order] :
     order \in IF AdlNeeded(slab, threshold) /\ slab.layout = "slab"
                 THEN Rankings(slab.accounts) ELSE {<<>>}}
=============================================================================
