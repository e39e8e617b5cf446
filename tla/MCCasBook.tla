------------------------------- MODULE MCCasBook -------------------------------
(***************************************************************************)
(* Instance of CasBook.                                                    *)
(***************************************************************************)
EXTENDS CasBook

Limit(u, s, f, p, q, m) ==
    [user |-> u, side |-> s, type |-> "L", tif |-> f, price |-> p, qty |-> q, stp |-> m]

Three == 1 .. 3

CasRequests ==
    {Limit("u", "B", "G", 2, 2, "N"), Limit("v", "S", "G", 2, 1, "N"),
     Limit("u", "S", "I", 1, 3, "CM"),
     [user |-> "v", side |-> "S", type |-> "M", tif |-> "G", price |-> 0, qty |-> 2, stp |-> "CB"]}

CasFunds == [u \in Users |-> [a \in Assets |-> IF a = "quote" THEN 8 ELSE 3]]
===============================================================================
