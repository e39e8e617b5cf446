----------------------------- MODULE MCQueueWorker -----------------------------
(***************************************************************************)
(* Instances of QueueWorker, and the documented statement it does not keep.*)
(***************************************************************************)
EXTENDS QueueWorker

Limit(u, s, f, p, q) ==
    [user |-> u, side |-> s, type |-> "L", tif |-> f, price |-> p, qty |-> q, stp |-> "N"]

Three == 1 .. 3
One == {1}

DatabaseRequests == {Limit("u", "B", "G", 2, 2), Limit("v", "S", "I", 2, 1)}
RestingRequest == {Limit("u", "B", "G", 2, 2)}

WorkerFunds == [u \in Users |-> [a \in Assets |-> 5]]
OneCancelAll == [c \in {1} |-> "u"]
NoCancelAll == [c \in {} |-> "u"]

-------------------------------------------------------------------------------
\* openspec orders: after DELETE /api/orders/{order_id} "the order is eventually
\* removed from the book".
DeleteRemoves ==
    \A o \in OrderIds : deletes[o] = "posted" ~> o \notin zset[order[o].side]
===============================================================================
