----------------------------- MODULE MCHandlers -----------------------------
(* Small inputs for Handlers: addresses of two parts of two bits, tables of  *)
(* four trades of which a query returns three, three accounts.               *)
EXTENDS Handlers

MCListedIps ==
    {Address(mapped, <<a, b>>) : mapped \in BOOLEAN, a \in 0..4, b \in {Blank} \union 0..3}
      \union {Text(FALSE), Address(FALSE, <<1>>)}
MCClientIps ==
    {Address(mapped, <<a, b>>) : mapped \in BOOLEAN, a \in {0, 1, 3}, b \in {0, 2, 3}}
      \union {Text(FALSE)}
MCWrittenItems == {Nothing, Address(TRUE, <<>>), Text(TRUE), Address(FALSE, <<1, 2>>)}
MCRanges == {<<0, 1>>, <<0, 2>>, <<1, 2>>, <<1, 1>>}
MCAccounts == [position : {0, 1}, pnl : {-1, 1, 3, 4}, capital : {0, 2, 3}]
MCFunds == [balance : 0..4, feeRevenue : 0..4]
MCPrices == {NotFinite, 1, 2, 3}
MCSizes == {-2, 1}
MCLimits == {-1, 0, 1, 3, 4}
MCInstants == 15..105
MCYears == 20..100
=============================================================================
