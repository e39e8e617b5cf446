------------------------------ MODULE Settlement ------------------------------
(***************************************************************************)
(* The PostgreSQL tables and what both order paths share: how a match moves*)
(* balances and rows, and the order book snapshot published afterwards.    *)
(* The gateway (OrderFlow) and the queue worker (QueueWorker) send the same*)
(* SQL, in different transactions.                                         *)
(***************************************************************************)
EXTENDS MatchOrder, FiniteSetsExt

CONSTANT SnapshotLimit   \* orders per side read by the snapshot (50 in the code)

ASSUME SnapshotLimitAssumption == SnapshotLimit \in Nat \ {0}

VARIABLES
    row,         \* row[o]: remaining and status of o in table orders
    pgTrades,    \* table trades
    pgAvailable, \* table balances
    pgLocked

tables == <<row, pgTrades, pgAvailable, pgLocked>>

NoRow == [remaining |-> 0, status |-> ""]
Open(r) == r.status \in {"N", "PF"}

-------------------------------------------------------------------------------
\* Aggregated price levels of the first SnapshotLimit members of each side.
Top(s) == {r \in zset[s] : Cardinality({x \in zset[s] : Before(x, r)}) < SnapshotLimit}
Level(s, p) == {o \in Top(s) : hash[o].remaining > 0 /\ order[o].price = p}

Depth(s, p) == SumFunctionOnSet([o \in Level(s, p) |-> hash[o].remaining], Level(s, p))

Snapshot ==
    UNION {{<<s, order[o].price, Depth(s, order[o].price)>> :
              o \in {x \in Top(s) : hash[x].remaining > 0}} : s \in Sides}

TradesOf(o) == {t \in trades : t.taker = o}

PartyOn(s, t) == IF order[t.taker].side = s THEN order[t.taker].user ELSE order[t.maker].user

\* What a trade moves of an asset; the buyer pays quote, the seller base.
Moved(a, t) == IF a = "quote" THEN t.price * t.qty ELSE t.qty
Payer(a, t) == IF a = "quote" THEN PartyOn("B", t) ELSE PartyOn("S", t)
Payee(a, t) == IF a = "quote" THEN PartyOn("S", t) ELSE PartyOn("B", t)

LockedDec(T, u, a) == SumFunctionOnSet([t \in T |-> Moved(a, t)], {t \in T : Payer(a, t) = u})
AvailInc(T, u, a) == SumFunctionOnSet([t \in T |-> Moved(a, t)], {t \in T : Payee(a, t) = u})

\* Release of what a cancelled order leaves over.
Leftover(o, u, a) ==
    IF reply[o].status \in {"C", "F"} /\ u = order[o].user /\ a = LockAsset(o)
    THEN IF order[o].side = "B" THEN order[o].price * reply[o].remaining
                                ELSE reply[o].remaining
    ELSE 0

\* GREATEST(n, 0)
Greatest0(n) == IF n > 0 THEN n ELSE 0

\* Faulty variants: every fill closes the row; every fill is reported complete.
AppliedCloses(r, q) == [remaining |-> 0, status |-> "F"]
AppliedFilled(r, q) == [remaining |-> Greatest0(r.remaining - q), status |-> "F"]

\* UPDATE of a resting order hit by trade t; rows not open are not touched.
Applied(r, q) ==
    [remaining |-> Greatest0(r.remaining - q),
     status |-> IF Greatest0(r.remaining - q) = 0 THEN "F" ELSE "PF"]

TablesInit ==
    /\ row = [o \in OrderIds |-> NoRow]
    /\ pgTrades = {}
    /\ pgAvailable = InitialFunds
    /\ pgLocked = [u \in Users |-> [a \in Assets |-> 0]]

-------------------------------------------------------------------------------
\* The database never shows less than the book still holds, in whatever order
\* the transactions or their statements commit and whichever of them are lost: a
\* row may lag behind the book, it never runs ahead of it.
RowNeverBelowBook ==
    \A o \in OrderIds : row[o] # NoRow => row[o].remaining >= Left(o)

\* An order recorded as Filled has really traded its whole quantity.
FilledRowIsFilled ==
    \A o \in OrderIds : row[o].status = "F" => filled[o] = order[o].qty
===============================================================================
