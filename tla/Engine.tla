-------------------------------- MODULE Engine --------------------------------
(***************************************************************************)
(* The matching engine in Rust, match_order of engine.rs: a pure function  *)
(* from an incoming order and the sorted opposite side of the book to the  *)
(* trades and the orders that change.  The state of the loop is the        *)
(* record the function returns, with a flag for "break".                   *)
(* The list stp_cancelled repeats orders of the others and is left out.    *)
(* An order is a record id, user, side, type, tif, price, stp, remaining,  *)
(* status.  A resting order with price 0 has price None: a market order or *)
(* a limit order that was loaded with price_i = 0.                         *)
(***************************************************************************)
EXTENDS Integers, Sequences, Functions

\* A limit order never matches a resting order without a price.
price_matches(i, r) ==
    \/ i.type = "M"
    \/ /\ r.price # 0
       /\ IF i.side = "B" THEN i.price >= r.price ELSE i.price <= r.price

\* FOK pre-check: everything that matches by price counts, own orders included.
FokLiquidity(i, rs) ==
    SumFunctionOnSet([k \in DOMAIN rs |-> IF price_matches(i, rs[k]) THEN rs[k].remaining ELSE 0],
                     DOMAIN rs)

EffectiveTif(i) == IF i.type = "M" THEN "I" ELSE i.tif

\* Only the incoming order's mode is looked at.
SelfTrade(i, r) == i.user = r.user /\ i.stp # "N"

\* Cancel the taker, the maker or both; only CM goes on with the next order.
PreventSelfTrade(s, r) ==
    LET mode == s.incoming.stp
    IN  [s EXCEPT
           !.incoming.status = IF mode \in {"CT", "CB"} THEN "C" ELSE @,
           !.book_updates = IF mode \in {"CM", "CB"}
                            THEN Append(@, [r EXCEPT !.status = "C"]) ELSE @,
           !.stop = mode \in {"CT", "CB"}]

StatusAfterFill(left) == IF left = 0 THEN "F" ELSE "PF"

\* The resting price, or the incoming one when the resting order has none.
fill_price(i, r) == IF r.price = 0 THEN i.price ELSE r.price

FillAgainst(s, r) ==
    LET i == s.incoming
        fill_qty == IF i.remaining < r.remaining THEN i.remaining ELSE r.remaining
    IN  [s EXCEPT
           !.trades = @ \cup {[taker |-> i.id, maker |-> r.id,
                               price |-> fill_price(i, r), qty |-> fill_qty]},
           !.incoming.remaining = @ - fill_qty,
           !.incoming.status = StatusAfterFill(i.remaining - fill_qty),
           !.book_updates = Append(@, [r EXCEPT
               !.remaining = @ - fill_qty,
               !.status = StatusAfterFill(r.remaining - fill_qty)])]

\* Faulty variant: the loop does not stop when nothing remains.
ConsiderPastEnd(s, r) ==
    IF s.stop \/ ~price_matches(s.incoming, r)
    THEN [s EXCEPT !.stop = TRUE]
    ELSE IF SelfTrade(s.incoming, r) THEN PreventSelfTrade(s, r) ELSE FillAgainst(s, r)

\* One iteration of the loop.
Consider(s, r) ==
    IF s.stop \/ s.incoming.remaining = 0 \/ ~price_matches(s.incoming, r)
    THEN [s EXCEPT !.stop = TRUE]
    ELSE IF SelfTrade(s.incoming, r) THEN PreventSelfTrade(s, r) ELSE FillAgainst(s, r)

\* Time in force, after the loop.
ApplyTif(s) ==
    IF s.incoming.remaining > 0 /\ s.incoming.status # "C"
    THEN [s EXCEPT !.incoming.status =
             IF EffectiveTif(s.incoming) # "G" THEN "C"
             ELSE IF s.trades = {} THEN "N" ELSE @]
    ELSE s

Untouched(i) == [incoming |-> i, trades |-> {}, book_updates |-> <<>>, stop |-> FALSE]

\* The loop: walk[k] is its state after k resting orders.
Walk(i, rs) ==
    LET walk[k \in 0 .. Len(rs)] ==
          IF k = 0 THEN Untouched(i) ELSE Consider(walk[k - 1], rs[k])
    IN  walk

\* Faulty variant: no FOK pre-check.
match_order_unchecked(i, rs) == ApplyTif(Walk(i, rs)[Len(rs)])

match_order(i, rs) ==
    IF i.tif = "F" /\ FokLiquidity(i, rs) < i.remaining
    THEN [Untouched(i) EXCEPT !.incoming.status = "C"]
    ELSE ApplyTif(Walk(i, rs)[Len(rs)])

-------------------------------------------------------------------------------
\* Reference: which positions of the book an order may take, and how much of
\* each, said without a loop.
Reachable(i, rs) ==
    {k \in DOMAIN rs :
        /\ \A j \in 1 .. k : price_matches(i, rs[j])
        /\ i.stp \in {"CT", "CB"} => \A j \in 1 .. k : rs[j].user # i.user
        /\ i.stp = "CM" => rs[k].user # i.user}

TakenBefore(i, rs, k) ==
    SumFunctionOnSet([j \in DOMAIN rs |-> rs[j].remaining], {j \in Reachable(i, rs) : j < k})

Share(i, rs, k) ==
    LET rest == i.remaining - TakenBefore(i, rs, k)
    IN  IF rest < rs[k].remaining THEN rest ELSE rs[k].remaining

ReferenceTrades(i, rs) ==
    IF i.tif = "F" /\ FokLiquidity(i, rs) < i.remaining THEN {}
    ELSE {[taker |-> i.id, maker |-> rs[k].id, price |-> fill_price(i, rs[k]),
           qty |-> Share(i, rs, k)] :
             k \in {j \in Reachable(i, rs) : TakenBefore(i, rs, j) < i.remaining}}
===============================================================================
