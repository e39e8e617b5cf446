------------------------------ MODULE MCOrderFlow ------------------------------
(***************************************************************************)
(* Instances of OrderFlow, and a documented statement it does not keep.    *)
(***************************************************************************)
EXTENDS OrderFlow

Limit(u, s, f, p, q, m) ==
    [user |-> u, side |-> s, type |-> "L", tif |-> f, price |-> p, qty |-> q, stp |-> m]
Market(u, s, f, q, m) ==
    [user |-> u, side |-> s, type |-> "M", tif |-> f, price |-> 0, qty |-> q, stp |-> m]

Three == 1 .. 3
Two == 1 .. 2

\* Limit orders that reach each other, and a market order that may rest.
FlowRequests ==
    {Limit("u", "B", "G", 2, 2, "N"), Market("u", "B", "G", 1, "N"),
     Limit("v", "S", "G", 2, 1, "N"), Limit("v", "S", "I", 1, 3, "N")}

FlowFunds == [u \in Users |-> [a \in Assets |-> 5]]

-------------------------------------------------------------------------------
\* openspec portfolio: "Fill releases locked, transfers asset".
Supply(a) == MapThenSumSet(LAMBDA u : pgAvailable[u][a] + pgLocked[u][a], Users)
InitialSupply(a) == MapThenSumSet(LAMBDA u : InitialFunds[u][a], Users)

SupplyConserved == \A a \in Assets : Supply(a) = InitialSupply(a)
================================================================================
