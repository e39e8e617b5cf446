------------------------------ MODULE MCColdStart ------------------------------
(***************************************************************************)
(* Instance of ColdStart for TLC.  A worker start raises the base asset.   *)
(***************************************************************************)
EXTENDS ColdStart

Limit(u, s, f, p, q, m) ==
    [user |-> u, side |-> s, type |-> "L", tif |-> f, price |-> p, qty |-> q, stp |-> m]

Two == 1 .. 2

ColdRequests == {Limit("u", "B", "G", 2, 2, "N"), Limit("u", "S", "G", 2, 1, "N")}

\* Two bids, or a bid and an ask that trade.
BidInit == ColdInit /\ order[1].side = "B"

BidSpec == BidInit /\ [][ColdNext]_coldVars

ColdFunds == [u \in Users |-> [a \in Assets |-> 4]]
ColdSeeds == [u \in Users |-> [a \in Assets |-> IF a = "base" THEN 6 ELSE 4]]
================================================================================
