--------------------------- MODULE MatchOrderClaims ---------------------------
(***************************************************************************)
(* A statement the repository's documents make about the book and that the *)
(* script does not keep: its run finds a counterexample.  placedAt is a    *)
(* history variable: the version at which an order was placed, i.e. its    *)
(* arrival order.                                                          *)
(***************************************************************************)
EXTENDS MCMatchOrder

VARIABLE placedAt

ClaimsInit == Init /\ placedAt = [o \in OrderIds |-> 0]

RecordArrival ==
    placedAt' = [o \in OrderIds |->
        IF o \in zset'[order[o].side] \ zset[order[o].side] THEN version' ELSE placedAt[o]]

ClaimsSpec == ClaimsInit /\ [][Script /\ RecordArrival]_<<vars, placedAt>>

\* openspec matching: "Equal price: earliest order (by insertion time) matches
\* first".  At equal score the sorted set orders by id, and ids are random.
EarliestFirst ==
    [][\A t \in trades' \ trades :
          \A x \in Resting(order[t.maker].side) :
              Score(x) = Score(t.maker) => placedAt[t.maker] <= placedAt[x]]_<<vars, placedAt>>
===============================================================================
