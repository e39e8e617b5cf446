----------------------------- MODULE MCMatchOrder -----------------------------
(***************************************************************************)
(* Instances of MatchOrder for TLC.  Each set of requests concentrates on  *)
(* one question; the funds are chosen so that some orders cannot be paid.  *)
(***************************************************************************)
EXTENDS MatchOrder

Limit(u, s, f, p, q, m) ==
    [user |-> u, side |-> s, type |-> "L", tif |-> f, price |-> p, qty |-> q, stp |-> m]
Market(u, s, f, q, m) ==
    [user |-> u, side |-> s, type |-> "M", tif |-> f, price |-> 0, qty |-> q, stp |-> m]

Three == 1 .. 3
Four == 1 .. 4

\* Limit orders of two users at two prices, good till cancelled or IOC; one user
\* on both sides with every self-trade mode; market orders of both kinds.
TradingRequests ==
    {Limit("u", "B", "G", p, q, "N") : p \in {1, 2}, q \in {1, 2}}
    \cup {Limit("v", "S", "G", p, q, "N") : p \in {1, 2}, q \in {1, 2}}
    \cup {Limit("v", "S", "I", 1, 3, "N")}
    \cup {Limit("u", "B", "G", 2, 2, m) : m \in {"CM", "CT", "CB"}}
    \cup {Limit("u", "S", "G", 1, 1, m) : m \in {"N", "CM", "CB"}}
    \cup {Market("u", "B", f, 2, "N") : f \in {"G", "I"}}
    \cup {Market("v", "S", "G", 1, "N")}

\* The maintenance commands need few kinds of orders, but real crossings.
UpkeepRequests ==
    {Limit("u", "B", "G", 2, 2, "N")} \cup {Limit("v", "S", "G", p, 1, "N") : p \in {1, 2}}

\* Four orders, one of them a bid, one an ask at a price of its own; they arrive in
\* any order.
UpkeepInit ==
    /\ Init
    /\ order[1].price = 1 /\ order[4].side = "B"
    /\ \A o \in {2, 3} : order[o].price = 2

UpkeepSpec == UpkeepInit /\ [][Next]_vars

AmpleFunds == [u \in Users |-> [a \in Assets |-> 20]]
TightFunds == [u \in Users |-> [a \in Assets |-> 4]]
===============================================================================
