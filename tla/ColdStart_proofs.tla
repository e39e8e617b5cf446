--------------------------- MODULE ColdStart_proofs ---------------------------
(***************************************************************************)
(* Theorems about ColdStart: what a seeding and reset_all leave behind, and*)
(* that a restart lets no order trade more than its quantity.              *)
(***************************************************************************)
EXTENDS ColdStart, OrderFlow_proofs

-------------------------------------------------------------------------------
(* How far a program has come.  A program is known by the task it is at.   *)

Task(s) == IF s = <<>> THEN "none" ELSE Head(s)
Doing(c, t) == Task(todo[c]) = t

GatewaySteps ==
    {<<>>, GatewayProgram, <<"orders", "pairs", "ticker">>, <<"pairs", "ticker">>, <<"ticker">>}

WorkerSteps ==
    {<<>>, WorkerProgram, <<"pairs", "empty", "orders", "ticker", "serve", "balances">>,
     <<"empty", "orders", "ticker", "serve", "balances">>,
     <<"orders", "ticker", "serve", "balances">>, <<"ticker", "serve", "balances">>,
     <<"serve", "balances">>, <<"balances">>}

ResetSteps ==
    {<<>>, ResetAll, <<"credit", "balances", "clear">>, <<"balances", "clear">>, <<"clear">>}

LEMMA GatewayTasks ==
    /\ GatewayProgram \in GatewaySteps /\ Task(GatewayProgram) = "balances"
    /\ <<>> \in GatewaySteps
    /\ \A s \in GatewaySteps :
         /\ Task(s) \in {"none", "balances", "orders", "pairs", "ticker"}
         /\ s = <<>> <=> Task(s) = "none"
         /\ s # <<>> => Tail(s) \in GatewaySteps
         /\ Task(s) = "balances" => Task(Tail(s)) = "orders"
         /\ Task(s) = "orders" => Task(Tail(s)) = "pairs"
         /\ Task(s) = "pairs" => Task(Tail(s)) = "ticker"
         /\ Task(s) = "ticker" => Task(Tail(s)) = "none"
  BY DEF GatewaySteps, GatewayProgram, Task

LEMMA WorkerTasks ==
    /\ WorkerProgram \in WorkerSteps /\ Task(WorkerProgram) = "topup"
    /\ <<>> \in WorkerSteps
    /\ \A s \in WorkerSteps :
         /\ Task(s) \in {"none", "topup", "pairs", "empty", "orders", "ticker", "serve", "balances"}
         /\ s = <<>> <=> Task(s) = "none"
         /\ s # <<>> => Tail(s) \in WorkerSteps
         /\ Task(s) = "topup" => Task(Tail(s)) = "pairs"
         /\ Task(s) = "pairs" => Task(Tail(s)) = "empty"
         /\ Task(s) = "empty" => Task(Tail(s)) = "orders"
         /\ Task(s) = "orders" => Task(Tail(s)) = "ticker"
         /\ Task(s) = "ticker" => Task(Tail(s)) = "serve"
         /\ Task(s) = "serve" => Task(Tail(s)) = "balances"
         /\ Task(s) = "balances" => Task(Tail(s)) = "none"
  BY DEF WorkerSteps, WorkerProgram, Task

LEMMA ResetTasks ==
    /\ ResetAll \in ResetSteps /\ Task(ResetAll) = "truncate"
    /\ <<>> \in ResetSteps
    /\ \A s \in ResetSteps :
         /\ Task(s) \in {"none", "truncate", "credit", "balances", "clear"}
         /\ s = <<>> <=> Task(s) = "none"
         /\ s # <<>> => Tail(s) \in ResetSteps
         /\ Task(s) = "truncate" => Task(Tail(s)) = "credit"
         /\ Task(s) = "credit" => Task(Tail(s)) = "balances"
         /\ Task(s) = "balances" => Task(Tail(s)) = "clear"
         /\ Task(s) = "clear" => Task(Tail(s)) = "none"
  BY DEF ResetSteps, ResetAll, Task

LEMMA AtTask ==
    ASSUME NEW c \in Containers, NEW t, At(c, t)
    PROVE  pc = "idle" /\ todo[c] # <<>> /\ Doing(c, t)
  BY DEF At, Idle, Doing, Task

-------------------------------------------------------------------------------
(* The invariant of a seeding and of reset_all.                            *)

\* A function of a user and an asset.
Grid(f) == f = [u \in Users |-> [a \in Assets |-> f[u][a]]]

Shape ==
    /\ order \in [OrderIds -> Requests]
    /\ zset = [s \in Sides |-> zset[s]]
    /\ hash = [o \in OrderIds |-> hash[o]]
    /\ Grid(available) /\ Grid(locked)
    /\ Grid(pgAvailable) /\ Grid(pgLocked)
    /\ todo = [c \in Containers |-> todo[c]]
    /\ rows = [c \in Containers |-> rows[c]]
    /\ adding = [c \in Containers |-> adding[c]]

\* Only a task that reads has rows in hand.
TidyAt(c) ==
    /\ rows[c] # {} => \E t \in {"topup", "balances", "orders", "ticker", "credit"} : Doing(c, t)
    /\ adding[c] => Doing(c, "orders") /\ rows[c] # {}

Tidy == \A c \in Containers : TidyAt(c)

\* What is already as in the database.
OrderDone(o) == o \in zset[order[o].side] /\ hash[o] = row[o]
OrdersDone == \A o \in OpenGtc : OrderDone(o)
\* An account that run_seed has raised may have been read before.
Near(u, a, v) ==
    \/ v = pgAvailable[u][a]
    \/ <<u, a>> \in raised /\ pgAvailable[u][a] > v

AccountDone(u, a) == Near(u, a, available[u][a]) /\ locked[u][a] = pgLocked[u][a]
FundsDone == \A u \in Users, a \in Assets : AccountDone(u, a)

OrderRow(o) == [id |-> o, left |-> row[o]]
RowOf(r, u, a) ==
    r.account = <<u, a>> /\ r.locked = pgLocked[u][a] /\ Near(u, a, r.available)

\* c holds rows of the tables, and whatever it does not hold is done.
FundsInHand(c) ==
    Doing(c, "balances") /\ rows[c] # {} =>
        /\ \A r \in rows[c] : \E u \in Users, a \in Assets : RowOf(r, u, a)
        /\ \A u \in Users, a \in Assets : AccountDone(u, a) \/ \E r \in rows[c] : RowOf(r, u, a)

OrdersInHand(c) ==
    Doing(c, "orders") /\ rows[c] # {} =>
        /\ rows[c] \subseteq OrderRows
        /\ \A o \in OpenGtc : OrderDone(o) \/ OrderRow(o) \in rows[c]
        /\ adding[c] => \A r \in rows[c] : Oldest(c, r) => r.id \in zset[order[r.id].side]

\* A container that seeds.  The balances come first in a gateway, last in a worker.
SeedOk(c) ==
    /\ FundsInHand(c)
    /\ OrdersInHand(c)
    /\ Doing(c, "ticker") => rows[c] \subseteq {pgTrades}
    /\ Doing(c, "topup") => rows[c] \subseteq Users \X Assets
    /\ c \in Gateways =>
          /\ todo[c] \in GatewaySteps
          /\ Task(todo[c]) \in {"orders", "pairs", "ticker"} => FundsDone
          /\ Task(todo[c]) \in {"pairs", "ticker"} => OrdersDone
    /\ c \in Workers =>
          /\ todo[c] \in WorkerSteps
          /\ Task(todo[c]) \in {"ticker", "serve", "balances"} => OrdersDone
          /\ Task(todo[c]) \in {"empty", "orders", "ticker", "serve", "balances"} =>
                "worker" \in sentinel

\* An account is raised once: run_seed never lowers one, and nothing else runs.
RaisedOnce ==
    \A u \in Users, a \in Assets : <<u, a>> \in raised => pgAvailable[u][a] = SeedFunds[u][a]

Seeded ==
    /\ RaisedOnce
    /\ \A s \in Sides : zset[s] \subseteq {o \in OpenGtc : order[o].side = s}
    /\ "gateway" \in sentinel => OrdersDone /\ FundsDone
    /\ restored => OrdersDone /\ FundsDone /\ ("worker" \in sentinel \/ ticker = pgTrades)

SeedInv == calm = "wiped" => Seeded /\ \A c \in Containers : SeedOk(c)

\* The container that runs reset_all, if it still does.
ResetOk(c) ==
    /\ todo[c] \in ResetSteps
    /\ FundsInHand(c)
    /\ Task(todo[c]) \in {"credit", "balances", "clear"} => OpenGtc = {} /\ pgTrades = {}
    /\ Doing(c, "clear") => FundsDone
    /\ ~Idle(c) => ~restored

Cleared ==
    /\ OpenGtc = {} /\ pgTrades = {}
    /\ FundsDone
    /\ unswept \/ ((\A s \in Sides : zset[s] = {}) /\ ticker = {})

ResetInv ==
    calm = "reset" =>
        /\ \A c \in Containers : ResetOk(c)
        /\ \A c, d \in Containers : Idle(c) \/ Idle(d) \/ c = d
        /\ restored => Cleared

Calms == calm \in {"wiped", "reset", ""}

ColdInv == Shape /\ Tidy /\ Calms /\ SeedInv /\ ResetInv

-------------------------------------------------------------------------------
(* The functions keep their domains.                                       *)

LEMMA SetCell ==
    ASSUME NEW f, Grid(f), NEW x, NEW y, NEW v, NEW g, g = [f EXCEPT ![x][y] = v]
    PROVE  Grid(g) /\ \A u \in Users, a \in Assets :
                         g[u][a] = IF u = x /\ a = y THEN v ELSE f[u][a]
<1>1. f = [u \in Users |-> [a \in Assets |-> f[u][a]]]
  BY DEF Grid
<1>2. g = [u \in Users |-> IF u = x THEN [f[x] EXCEPT ![y] = v] ELSE f[u]]
  BY <1>1
<1>3. \A u \in Users : f[u] = [a \in Assets |-> f[u][a]]
  BY <1>1
<1>4. \A u \in Users : g[u] = [a \in Assets |-> IF u = x /\ a = y THEN v ELSE f[u][a]]
  <2> SUFFICES ASSUME NEW u \in Users
               PROVE  g[u] = [a \in Assets |-> IF u = x /\ a = y THEN v ELSE f[u][a]]
    OBVIOUS
  <2>1. CASE u = x
    <3>1. g[u] = [f[u] EXCEPT ![y] = v]
      BY <1>2, <2>1
    <3> QED
      BY <1>3, <2>1, <3>1
  <2>2. CASE u # x
    <3>1. g[u] = f[u]
      BY <1>2, <2>2
    <3>2. [a \in Assets |-> IF u = x /\ a = y THEN v ELSE f[u][a]] = [a \in Assets |-> f[u][a]]
      BY <2>2
    <3> QED
      BY <1>3, <3>1, <3>2
  <2> QED
    BY <2>1, <2>2
<1>5. \A u \in Users, a \in Assets : g[u][a] = IF u = x /\ a = y THEN v ELSE f[u][a]
  <2> SUFFICES ASSUME NEW u \in Users, NEW a \in Assets
               PROVE  g[u][a] = IF u = x /\ a = y THEN v ELSE f[u][a]
    OBVIOUS
  <2> DEFINE h == [b \in Assets |-> IF u = x /\ b = y THEN v ELSE f[u][b]]
  <2>1. g[u] = h
    BY <1>4
  <2>2. h[a] = IF u = x /\ a = y THEN v ELSE f[u][a]
    OBVIOUS
  <2> HIDE DEF h
  <2> QED
    BY <2>1, <2>2
<1>6. g = [u \in Users |-> g[u]]
  BY <1>2
<1>7. \A u \in Users : g[u] = [a \in Assets |-> g[u][a]]
  BY <1>4, <1>5
<1> QED
  BY <1>5, <1>6, <1>7 DEF Grid

LEMMA SideOf == Shape => \A o \in OrderIds : order[o].side \in Sides
  BY RequestsAssumption DEF Shape, OrderType

\* A container changes its own program only.
LEMMA Elsewhere ==
    ASSUME Shape, NEW c \in Containers, Seeding(c) \/ Administration(c) \/ Crash(c)
    PROVE  /\ todo' = [d \in Containers |-> IF d = c THEN todo'[c] ELSE todo[d]]
           /\ rows' = [d \in Containers |-> IF d = c THEN rows'[c] ELSE rows[d]]
           /\ adding' = [d \in Containers |-> IF d = c THEN adding'[c] ELSE adding[d]]
<1>1. /\ todo = [d \in Containers |-> todo[d]]
      /\ rows = [d \in Containers |-> rows[d]]
      /\ adding = [d \in Containers |-> adding[d]]
  BY DEF Shape
<1>2. /\ todo' = todo \/ \E s : todo' = [todo EXCEPT ![c] = s]
      /\ rows' = rows \/ \E s : rows' = [rows EXCEPT ![c] = s]
      /\ adding' = adding \/ \E s : adding' = [adding EXCEPT ![c] = s]
  <2>1. Advance(c) => \E s : todo' = [todo EXCEPT ![c] = s]
    BY DEF Advance
  <2>2. \A r : Written(c, r) =>
          /\ todo' = todo \/ \E s : todo' = [todo EXCEPT ![c] = s]
          /\ \E s : rows' = [rows EXCEPT ![c] = s]
    BY <2>1 DEF Written
  <2>3. \A r : Read(c, r) =>
          /\ todo' = todo \/ \E s : todo' = [todo EXCEPT ![c] = s]
          /\ \E s : rows' = [rows EXCEPT ![c] = s]
    BY <2>1 DEF Read
  <2>4. CASE BootGateway(c) \/ BootBlind(c) \/ BootWorker(c)
    BY <2>4 DEF BootGateway, BootBlind, BootWorker
  <2>5. CASE ReadBalances(c) \/ ReadOrders(c) \/ StartCredit(c) \/ StartTopUp(c)
    BY <2>5, <2>3 DEF ReadBalances, ReadOrders, StartCredit, StartTopUp
  <2>6. CASE WriteBalance(c) \/ Credit(c) \/ TopUp(c)
    BY <2>6, <2>2 DEF WriteBalance, Credit, TopUp
  <2>7. CASE WriteOrder(c)
    BY <2>7, <2>2 DEF WriteOrder
  <2>8. CASE AddOrder(c)
    BY <2>8 DEF AddOrder
  <2>9. CASE SetPairs(c) \/ SetEmpty(c) \/ Truncate(c) \/ Clear(c) \/ ClearFails(c)
    BY <2>9, <2>1 DEF SetPairs, SetEmpty, Truncate, Clear, ClearFails
  <2>10. CASE ReadTicker(c) \/ WriteTicker(c) \/ Serve(c)
    BY <2>10, <2>1 DEF ReadTicker, WriteTicker, Serve
  <2>11. CASE \E p \in {ResetAll, TruncateOrders, ResetBalances} : Admin(c, p)
    BY <2>11 DEF Admin
  <2>12. CASE Crash(c)
    BY <2>12 DEF Crash
  <2> QED
    BY <2>4, <2>5, <2>6, <2>7, <2>8, <2>9, <2>10, <2>11, <2>12 DEF Seeding, Administration
<1>3. ASSUME NEW f, f = [d \in Containers |-> f[d]], NEW g,
             g = f \/ \E s : g = [f EXCEPT ![c] = s]
      PROVE  g = [d \in Containers |-> IF d = c THEN g[c] ELSE f[d]]
  <2>1. CASE g = f
    BY <1>3, <2>1
  <2>2. ASSUME NEW s, g = [f EXCEPT ![c] = s]
        PROVE  g = [d \in Containers |-> IF d = c THEN g[c] ELSE f[d]]
    BY <1>3, <2>2
  <2> QED
    BY <1>3, <2>1, <2>2
<1> QED
  BY <1>1, <1>2, <1>3

\* What the steps of the containers do to the stores.
LEMMA StoreSteps ==
    ASSUME Shape, NEW c \in Containers, Seeding(c) \/ Administration(c) \/ Crash(c)
    PROVE  /\ order' = order
           /\ \/ zset' = zset
              \/ \E s, z : zset' = [zset EXCEPT ![s] = z]
              \/ zset' = [s \in Sides |-> {}]
           /\ hash' = hash \/ \E o, h : hash' = [hash EXCEPT ![o] = h]
           /\ Grid(available') /\ Grid(locked')
           /\ Grid(pgAvailable') /\ Grid(pgLocked')
<1>0. /\ Grid(available) /\ Grid(locked)
      /\ Grid(pgAvailable) /\ Grid(pgLocked)
  BY DEF Shape
<1>1. CASE \/ BootGateway(c) \/ BootBlind(c) \/ BootWorker(c) \/ ReadBalances(c) \/ ReadOrders(c)
           \/ SetPairs(c) \/ ReadTicker(c) \/ WriteTicker(c) \/ Serve(c) \/ StartCredit(c)
           \/ StartTopUp(c) \/ ClearFails(c) \/ Crash(c)
           \/ \E p \in {ResetAll, TruncateOrders, ResetBalances} : Admin(c, p)
  <2>1. UNCHANGED flowVars
    BY <1>1 DEF BootGateway, BootBlind, BootWorker, ReadBalances, ReadOrders, SetPairs, ReadTicker,
                WriteTicker, Serve, StartCredit, StartTopUp, ClearFails, Crash, Admin
  <2> QED
    BY <1>0, <2>1 DEF flowVars, vars, book, funds, pg, tables
<1>2. CASE SetEmpty(c) \/ Truncate(c)
  <2>1. UNCHANGED <<vars, pgAvailable, pgLocked>>
    BY <1>2 DEF SetEmpty, Truncate, pg, tables
  <2> QED
    BY <1>0, <2>1 DEF vars, book, funds
<1>3. CASE WriteBalance(c)
  <2>1. PICK r \in rows[c] :
           /\ available' = [available EXCEPT ![r.account[1]][r.account[2]] = r.available]
           /\ locked' = [locked EXCEPT ![r.account[1]][r.account[2]] = r.locked]
    BY <1>3 DEF WriteBalance
  <2>2. Grid(available') /\ Grid(locked')
    BY <1>0, <2>1, SetCell
  <2>3. UNCHANGED <<order, zset, hash, pgAvailable, pgLocked>>
    BY <1>3 DEF WriteBalance, book, pg, tables
  <2> QED
    BY <1>0, <2>2, <2>3
<1>4. CASE Credit(c)
  <2>1. PICK k \in rows[c] :
           /\ pgAvailable' = [pgAvailable EXCEPT ![k[1]][k[2]] = InitialFunds[k[1]][k[2]]]
           /\ pgLocked' = [pgLocked EXCEPT ![k[1]][k[2]] = 0]
    BY <1>4 DEF Credit
  <2> DEFINE x == k[1]
             y == k[2]
             v == InitialFunds[k[1]][k[2]]
  <2>2. Grid(pgAvailable') /\ Grid(pgLocked')
    <3>1. pgAvailable' = [pgAvailable EXCEPT ![x][y] = v] /\ pgLocked' = [pgLocked EXCEPT ![x][y] = 0]
      BY <2>1
    <3> HIDE DEF x, y, v
    <3> QED
      BY <1>0, <3>1, SetCell
  <2>3. UNCHANGED <<order, zset, hash, available, locked>>
    BY <1>4 DEF Credit, vars, book, funds
  <2> QED
    BY <1>0, <2>2, <2>3
<1>5. CASE AddOrder(c)
  BY <1>0, <1>5 DEF AddOrder, funds, pg, tables
<1>6. CASE WriteOrder(c)
  BY <1>0, <1>6 DEF WriteOrder, funds, pg, tables
<1>7. CASE Clear(c)
  BY <1>0, <1>7 DEF Clear, funds, pg, tables
<1>8. CASE TopUp(c)
  <2>1. PICK k \in rows[c] : \/ pgAvailable' = [pgAvailable EXCEPT ![k[1]][k[2]] = SeedFunds[k[1]][k[2]]]
                            \/ pgAvailable' = pgAvailable
    BY <1>8 DEF TopUp
  <2> DEFINE x == k[1]
             y == k[2]
             v == SeedFunds[k[1]][k[2]]
  <2>2. Grid(pgAvailable')
    <3>1. pgAvailable' = [pgAvailable EXCEPT ![x][y] = v] \/ pgAvailable' = pgAvailable
      BY <2>1
    <3> HIDE DEF x, y, v
    <3>2. CASE pgAvailable' = pgAvailable
      BY <1>0, <3>2
    <3>3. CASE pgAvailable' = [pgAvailable EXCEPT ![x][y] = v]
      BY <1>0, <3>3, SetCell
    <3> QED
      BY <3>1, <3>2, <3>3
  <2>3. UNCHANGED <<order, zset, hash, available, locked, pgLocked>>
    BY <1>8 DEF TopUp, vars, book, funds
  <2> QED
    BY <1>0, <2>2, <2>3
<1> QED
  BY <1>1, <1>2, <1>3, <1>4, <1>5, <1>6, <1>7, <1>8 DEF Seeding, Administration

LEMMA TradingStores ==
    ASSUME Shape, Trading
    PROVE  Shape'
<1>1. UNCHANGED <<todo, rows, adding>>
  BY DEF Trading, starters
<1>2. CASE \E o \in OrderIds : Persist(o) \/ PersistFails(o)
  <2>1. UNCHANGED <<order, zset, hash, available, locked>>
    BY <1>2 DEF Persist, PersistFails, vars, book, funds
  <2>2. Grid(pgAvailable') /\ Grid(pgLocked')
    <3>1. CASE UNCHANGED <<pgAvailable, pgLocked>>
      BY <3>1 DEF Shape, Grid
    <3>2. ASSUME NEW o \in OrderIds, Persist(o) PROVE Grid(pgAvailable') /\ Grid(pgLocked')
      BY <3>2 DEF Persist, Grid
    <3> QED
      BY <1>2, <3>1, <3>2 DEF PersistFails, pg, tables
  <2> QED
    BY <1>1, <2>1, <2>2 DEF Shape, Grid
<1>3. CASE Script /\ UNCHANGED pg
  <2>1. UNCHANGED <<order, pgAvailable, pgLocked>>
    BY <1>3 DEF pg, tables, Script, Reject, Begin, Visit, SkipGhost, LeaveLoop, CancelMaker, Trade, Finish
  <2>2. zset' = [s \in Sides |-> zset'[s]] /\ hash' = [o \in OrderIds |-> hash'[o]]
    BY <1>3 DEF Shape, Script, Reject, Begin, Visit, SkipGhost, LeaveLoop, CancelMaker, Trade, Finish,
                book, ZRem, Del
  <2>3. Grid(available') /\ Grid(locked')
    <3>1. CASE UNCHANGED funds
      BY <3>1 DEF funds, Shape, Grid
    <3>2. ASSUME NEW o \in OrderIds, Begin(o) PROVE Grid(available') /\ Grid(locked')
      <4>1. Grid(available) /\ Grid(locked)
        BY DEF Shape
      <4> DEFINE u == order[o].user
                 a == LockAsset(o)
                 v == available[u][a] - Locking(o)
                 w == locked[u][a] + Locking(o)
      <4>2. /\ available' = [available EXCEPT ![u][a] = v]
            /\ locked' = [locked EXCEPT ![u][a] = w]
        BY <3>2 DEF Begin
      <4> HIDE DEF u, a, v, w
      <4> QED
        BY <4>1, <4>2, SetCell
    <3> QED
      BY <1>3, <3>1, <3>2 DEF Script, Reject, Visit, SkipGhost, LeaveLoop, CancelMaker, Trade, Finish
  <2> QED
    BY <1>1, <2>1, <2>2, <2>3 DEF Shape, Grid
<1> QED
  BY <1>2, <1>3 DEF Trading

LEMMA ShapeNext == Shape /\ [ColdNext]_coldVars => Shape'
<1> SUFFICES ASSUME Shape, [ColdNext]_coldVars PROVE Shape'
  OBVIOUS
<1>1. CASE Trading
  BY <1>1, TradingStores
<1>2. ASSUME NEW c \in Containers, Seeding(c) \/ Administration(c) \/ Crash(c)
      PROVE  Shape'
  <2>1. /\ todo' = [d \in Containers |-> todo'[d]]
        /\ rows' = [d \in Containers |-> rows'[d]]
        /\ adding' = [d \in Containers |-> adding'[d]]
    BY <1>2, Elsewhere
  <2>3. Grid(available') /\ Grid(locked') /\ Grid(pgAvailable') /\ Grid(pgLocked')
    BY <1>2, StoreSteps
  <2>4. zset' = [s \in Sides |-> zset'[s]] /\ hash' = [o \in OrderIds |-> hash'[o]]
    BY <1>2, StoreSteps DEF Shape
  <2>5. order' \in [OrderIds -> Requests]
    BY <1>2, StoreSteps DEF Shape
  <2> QED
    BY <2>1, <2>3, <2>4, <2>5 DEF Shape, Grid
<1>3. CASE Wipe
  BY <1>3 DEF Wipe, Shape, Grid, pg, tables, starters
<1>4. CASE UNCHANGED coldVars
  BY <1>4 DEF coldVars, flowVars, vars, book, funds, pg, tables, cold, starters, Shape, Grid
<1> QED
  BY <1>1, <1>2, <1>3, <1>4 DEF ColdNext

-------------------------------------------------------------------------------
(* Rows in hand.                                                           *)

\* A container that has no rows to write holds none.
LEMMA EmptyHanded ==
    ASSUME Tidy, NEW c \in Containers,
           Task(todo[c]) \in {"none", "pairs", "empty", "serve", "truncate", "clear"}
    PROVE  rows[c] = {} /\ ~adding[c]
  BY DEF Tidy, TidyAt, Doing

LEMMA AdvanceFacts ==
    ASSUME Shape, NEW c \in Containers, Advance(c)
    PROVE  /\ todo'[c] = Tail(todo[c])
           /\ restored' = (restored \/ (calm # "" /\ Tail(todo[c]) = <<>>))
  BY DEF Shape, Advance

\* Either the task goes on or its program advances empty-handed.
LEMMA WrittenFacts ==
    ASSUME Shape, NEW c \in Containers, NEW r, r \in rows[c], Written(c, r)
    PROVE  /\ rows'[c] = rows[c] \ {r}
           /\ \/ rows'[c] # {} /\ UNCHANGED <<todo, restored>>
              \/ rows'[c] = {} /\ Advance(c)
  BY DEF Shape, Written

LEMMA ReadFacts ==
    ASSUME Shape, NEW c \in Containers, NEW result, Read(c, result)
    PROVE  /\ rows'[c] = result
           /\ \/ rows'[c] # {} /\ UNCHANGED <<todo, restored>>
              \/ rows'[c] = {} /\ Advance(c)
  BY DEF Shape, Read

LEMMA TidyNext ==
    ASSUME Shape, Tidy, [ColdNext]_coldVars
    PROVE  Tidy'
<1>1. CASE Trading \/ Wipe \/ UNCHANGED coldVars
  <2>1. UNCHANGED <<todo, rows, adding>>
    BY <1>1 DEF Trading, Wipe, coldVars, cold, starters
  <2> QED
    BY <2>1 DEF Tidy, TidyAt, Doing
<1>2. ASSUME NEW c \in Containers, Seeding(c) \/ Administration(c) \/ Crash(c)
      PROVE  Tidy'
  <2>1. \A d \in Containers \ {c} : TidyAt(d)'
    <3>1. \A d \in Containers \ {c} :
             todo'[d] = todo[d] /\ rows'[d] = rows[d] /\ adding'[d] = adding[d]
      BY <1>2, Elsewhere
    <3> QED
      BY <3>1 DEF Tidy, TidyAt, Doing
  <2>2. TidyAt(c)'
    <3>2. ASSUME rows'[c] = {}, ~adding'[c] PROVE TidyAt(c)'
      BY <3>2 DEF TidyAt
    <3>3. ASSUME todo' = todo, ~adding'[c], NEW t \in {"topup", "balances", "orders", "ticker", "credit"},
                 Doing(c, t)
          PROVE  TidyAt(c)'
      BY <3>3 DEF TidyAt, Doing
    <3>4. CASE \/ BootGateway(c) \/ BootBlind(c) \/ BootWorker(c)
               \/ \E p \in {ResetAll, TruncateOrders, ResetBalances} : Admin(c, p)
      <4>1. Idle(c) /\ UNCHANGED <<rows, adding>>
        BY <3>4 DEF BootGateway, BootBlind, BootWorker, Admin
      <4> QED
        BY <3>2, <4>1, EmptyHanded DEF Idle, Task
    <3>5. CASE SetPairs(c) \/ SetEmpty(c) \/ Serve(c) \/ Truncate(c) \/ Clear(c) \/ ClearFails(c)
      <4>1. /\ At(c, "pairs") \/ At(c, "empty") \/ At(c, "serve") \/ At(c, "truncate") \/ At(c, "clear")
            /\ UNCHANGED <<rows, adding>>
        BY <3>5 DEF SetPairs, SetEmpty, Serve, Truncate, Clear, ClearFails
      <4> QED
        BY <3>2, <4>1, EmptyHanded, AtTask DEF Doing
    <3>6. CASE ReadBalances(c) \/ ReadOrders(c) \/ StartCredit(c) \/ StartTopUp(c)
      <4>1. /\ At(c, "balances") \/ At(c, "orders") \/ At(c, "credit") \/ At(c, "topup")
            /\ rows[c] = {} /\ adding' = adding
            /\ \E r : Read(c, r)
        BY <3>6 DEF ReadBalances, ReadOrders, StartCredit, StartTopUp
      <4>2. ~adding'[c]
        BY <4>1 DEF Tidy, TidyAt
      <4> QED
        BY <3>2, <3>3, <4>1, <4>2, AtTask, ReadFacts
    <3>7. CASE ReadTicker(c)
      <4>1. At(c, "ticker") /\ rows[c] = {} /\ UNCHANGED <<todo, adding>>
        BY <3>7 DEF ReadTicker
      <4> QED
        BY <3>3, <4>1, AtTask DEF Tidy, TidyAt
    <3>8. CASE WriteBalance(c) \/ Credit(c) \/ TopUp(c)
      <4>1. /\ At(c, "balances") \/ At(c, "credit") \/ At(c, "topup")
            /\ \E r \in rows[c] : Written(c, r)
            /\ adding' = adding
        BY <3>8 DEF WriteBalance, Credit, TopUp
      <4>2. ~adding'[c]
        BY <4>1, AtTask DEF Tidy, TidyAt, Doing
      <4> QED
        BY <3>2, <3>3, <4>1, <4>2, AtTask, WrittenFacts
    <3>9. CASE WriteOrder(c)
      <4>1. At(c, "orders") /\ (\E r \in rows[c] : Written(c, r)) /\ ~adding'[c]
        BY <3>9 DEF WriteOrder, Shape
      <4> QED
        BY <3>2, <3>3, <4>1, AtTask, WrittenFacts
    <3>10. CASE AddOrder(c)
      <4>1. At(c, "orders") /\ rows[c] # {} /\ UNCHANGED <<todo, rows>>
        BY <3>10 DEF AddOrder
      <4> QED
        BY <4>1, AtTask DEF TidyAt, Doing
    <3>11. CASE WriteTicker(c)
      <4>1. At(c, "ticker") /\ rows'[c] = {} /\ adding' = adding
        BY <3>11 DEF WriteTicker, Shape
      <4> QED
        BY <3>2, <4>1, AtTask DEF Tidy, TidyAt, Doing
    <3>12. CASE Crash(c)
      BY <3>2, <3>12 DEF Crash, Shape
    <3> QED
      BY <1>2, <3>4, <3>5, <3>6, <3>7, <3>8, <3>9, <3>10, <3>11, <3>12 DEF Seeding, Administration
  <2> QED
    BY <2>1, <2>2 DEF Tidy
<1> QED
  BY <1>1, <1>2 DEF ColdNext

-------------------------------------------------------------------------------
(* Seeding.  While it goes on the database stands still but for what       *)
(* run_seed raises, and Valkey only comes closer to it.                    *)

Grow ==
    /\ UNCHANGED <<order, row, pgTrades, pgLocked>>
    /\ \A u \in Users, a \in Assets : \A v : Near(u, a, v) => Near(u, a, v)'
    /\ \A s \in Sides : zset[s] \subseteq zset'[s]
    /\ \A o \in OpenGtc : hash[o] = row[o] => hash'[o] = row[o]
    /\ \A u \in Users, a \in Assets : AccountDone(u, a) => AccountDone(u, a)'
    /\ sentinel \subseteq sentinel'

\* Only what the database has open comes on the book.
OnlyOpen == \A s \in Sides : zset[s] \subseteq {o \in OpenGtc : order[o].side = s}

Kept == OnlyOpen /\ RaisedOnce

LEMMA GrowKeeps ==
    ASSUME Shape, Grow
    PROVE  /\ OpenGtc' = OpenGtc /\ OrderRows' = OrderRows
           /\ \A r : \A u \in Users, a \in Assets : RowOf(r, u, a) => RowOf(r, u, a)'
           /\ \A o \in OpenGtc : OrderDone(o) => OrderDone(o)'
           /\ OrdersDone => OrdersDone'
           /\ FundsDone => FundsDone'
<1>1. OpenGtc' = OpenGtc
  BY DEF Grow, OpenGtc
<1>2. OrderRows' = OrderRows
  BY <1>1 DEF Grow, OrderRows
<1>3. \A o \in OpenGtc : OrderDone(o) => OrderDone(o)'
  <2>1. \A o \in OpenGtc : order[o].side \in Sides
    BY SideOf DEF OpenGtc
  <2> QED
    BY <2>1 DEF Grow, OrderDone
<1>4. OrdersDone => OrdersDone'
  BY <1>1, <1>3 DEF OrdersDone
<1>5. FundsDone => FundsDone'
  BY DEF Grow, FundsDone
<1>6. \A r : \A u \in Users, a \in Assets : RowOf(r, u, a) => RowOf(r, u, a)'
  BY DEF Grow, RowOf
<1> QED
  BY <1>1, <1>2, <1>3, <1>4, <1>5, <1>6

\* Nothing has changed for a container that did not move.
LEMMA SeedFrame ==
    ASSUME Shape, Grow, NEW d \in Containers, SeedOk(d),
           todo'[d] = todo[d], rows'[d] = rows[d], adding'[d] = adding[d]
    PROVE  SeedOk(d)'
<1>1. /\ OpenGtc' = OpenGtc /\ OrderRows' = OrderRows
      /\ \A r : \A u \in Users, a \in Assets : RowOf(r, u, a) => RowOf(r, u, a)'
      /\ \A o \in OpenGtc : OrderDone(o) => OrderDone(o)'
      /\ OrdersDone => OrdersDone'
      /\ FundsDone => FundsDone'
  BY GrowKeeps
<1>2. /\ \A t : Doing(d, t)' <=> Doing(d, t)
      /\ Task(todo'[d]) = Task(todo[d])
  BY DEF Doing, Task
<1>3. FundsInHand(d)'
  <2> SUFFICES ASSUME Doing(d, "balances"), rows[d] # {}
               PROVE  /\ \A r \in rows[d] : \E u \in Users, a \in Assets : RowOf(r, u, a)'
                      /\ \A u \in Users, a \in Assets :
                            AccountDone(u, a)' \/ \E r \in rows[d] : RowOf(r, u, a)'
    BY <1>2 DEF FundsInHand
  <2>1. /\ \A r \in rows[d] : \E u \in Users, a \in Assets : RowOf(r, u, a)
        /\ \A u \in Users, a \in Assets :
              AccountDone(u, a) \/ \E r \in rows[d] : RowOf(r, u, a)
    BY DEF SeedOk, FundsInHand
  <2>2. \A u \in Users, a \in Assets : AccountDone(u, a) => AccountDone(u, a)'
    BY DEF Grow
  <2> QED
    BY <1>1, <2>1, <2>2
<1>4. OrdersInHand(d)'
  <2>1. \A o : OrderRow(o)' = OrderRow(o)
    BY DEF Grow, OrderRow
  <2>2. \A r \in OrderRows : order[r.id].side \in Sides
    BY SideOf DEF OrderRows, OpenGtc
  <2>3. \A r : Oldest(d, r)' <=> Oldest(d, r)
    BY DEF Oldest
  <2>4. SUFFICES ASSUME Doing(d, "orders"), rows[d] # {}
                 PROVE  /\ rows[d] \subseteq OrderRows
                        /\ \A o \in OpenGtc : OrderDone(o)' \/ OrderRow(o) \in rows[d]
                        /\ adding[d] => \A r \in rows[d] : Oldest(d, r) => r.id \in zset'[order[r.id].side]
    BY <1>1, <1>2, <2>1, <2>3 DEF OrdersInHand, Grow
  <2> QED
    BY <1>1, <2>2, <2>4 DEF SeedOk, OrdersInHand, Grow
<1>5. /\ "worker" \in sentinel => "worker" \in sentinel'
      /\ pgTrades' = pgTrades
  BY DEF Grow
<1> QED
  BY <1>1, <1>2, <1>3, <1>4, <1>5 DEF SeedOk

LEMMA SeededKept ==
    ASSUME Shape, Grow, Seeded, Kept', UNCHANGED <<sentinel, ticker, restored>>
    PROVE  Seeded'
  BY GrowKeeps DEF Seeded, Kept, OnlyOpen, Grow

\* The step from one task to the next.
LEMMA SeedAdvance ==
    ASSUME Shape, Grow, Seeded, Kept', NEW c \in Containers, SeedOk(c),
           todo[c] # <<>>, todo'[c] = Tail(todo[c]), rows'[c] = {},
           restored' => restored \/ Tail(todo[c]) = <<>>,
           Doing(c, "balances") => FundsDone',
           Doing(c, "orders") => OrdersDone',
           ~Doing(c, "pairs") => sentinel' = sentinel,
           Doing(c, "pairs") /\ c \in Gateways => sentinel' = sentinel \cup {"gateway"},
           Doing(c, "pairs") /\ c \in Workers => sentinel' = sentinel \cup {"worker"},
           Doing(c, "ticker") => ticker' = pgTrades,
           ticker' = ticker \/ Doing(c, "ticker") \/ Doing(c, "empty")
    PROVE  Seeded' /\ SeedOk(c)'
<1>1. /\ OpenGtc' = OpenGtc
      /\ OrdersDone => OrdersDone'
      /\ FundsDone => FundsDone'
      /\ pgTrades' = pgTrades /\ sentinel \subseteq sentinel'
  BY GrowKeeps DEF Grow
<1>2. c \in Gateways \/ c \in Workers
  BY DEF Containers
<1>3. ~(c \in Gateways /\ c \in Workers)
  BY ColdAssumption
<1>4. FundsInHand(c)' /\ OrdersInHand(c)'
  BY DEF FundsInHand, OrdersInHand
<1>5. Task(<<>>) = "none"
  BY DEF Task
<1>6. CASE c \in Gateways
  <2>1. /\ todo[c] \in GatewaySteps
        /\ Task(todo[c]) \in {"orders", "pairs", "ticker"} => FundsDone
        /\ Task(todo[c]) \in {"pairs", "ticker"} => OrdersDone
    BY <1>6 DEF SeedOk
  <2>2. /\ Task(todo[c]) \in {"none", "balances", "orders", "pairs", "ticker"}
        /\ Task(todo[c]) # "none"
        /\ todo'[c] \in GatewaySteps
        /\ Task(todo[c]) = "balances" => Task(todo'[c]) = "orders"
        /\ Task(todo[c]) = "orders" => Task(todo'[c]) = "pairs"
        /\ Task(todo[c]) = "pairs" => Task(todo'[c]) = "ticker"
        /\ Task(todo[c]) = "ticker" => Task(todo'[c]) = "none"
    BY <2>1, GatewayTasks
  <2>3. Tail(todo[c]) = <<>> => Doing(c, "ticker")
    BY <1>5, <2>2 DEF Doing
  <2>4. /\ Task(todo'[c]) \in {"orders", "pairs", "ticker"} => FundsDone'
        /\ Task(todo'[c]) \in {"pairs", "ticker"} => OrdersDone'
    BY <1>1, <2>1, <2>2 DEF Doing
  <2>5. SeedOk(c)'
    BY <1>3, <1>4, <1>6, <2>2, <2>4 DEF SeedOk
  <2>6. "gateway" \in sentinel' => OrdersDone' /\ FundsDone'
    BY <1>1, <1>6, <2>1 DEF Seeded, Doing
  <2>7. restored' => OrdersDone' /\ FundsDone' /\ ("worker" \in sentinel' \/ ticker' = pgTrades')
    BY <1>1, <2>1, <2>2, <2>3 DEF Seeded, Doing
  <2> QED
    BY <2>5, <2>6, <2>7 DEF Seeded, Kept, OnlyOpen
<1>7. CASE c \in Workers
  <2>1. /\ todo[c] \in WorkerSteps
        /\ Task(todo[c]) \in {"ticker", "serve", "balances"} => OrdersDone
        /\ Task(todo[c]) \in {"empty", "orders", "ticker", "serve", "balances"} =>
                "worker" \in sentinel
    BY <1>7 DEF SeedOk
  <2>2. /\ Task(todo[c]) \in {"none", "topup", "pairs", "empty", "orders", "ticker", "serve", "balances"}
        /\ Task(todo[c]) # "none"
        /\ todo'[c] \in WorkerSteps
        /\ Task(todo[c]) = "topup" => Task(todo'[c]) = "pairs"
        /\ Task(todo[c]) = "pairs" => Task(todo'[c]) = "empty"
        /\ Task(todo[c]) = "empty" => Task(todo'[c]) = "orders"
        /\ Task(todo[c]) = "orders" => Task(todo'[c]) = "ticker"
        /\ Task(todo[c]) = "ticker" => Task(todo'[c]) = "serve"
        /\ Task(todo[c]) = "serve" => Task(todo'[c]) = "balances"
        /\ Task(todo[c]) = "balances" => Task(todo'[c]) = "none"
    BY <2>1, WorkerTasks
  <2>3. Tail(todo[c]) = <<>> => Doing(c, "balances")
    BY <1>5, <2>2 DEF Doing
  <2>4. /\ Task(todo'[c]) \in {"ticker", "serve", "balances"} => OrdersDone'
        /\ Doing(c, "topup") \/ "worker" \in sentinel'
        /\ Doing(c, "topup") => Task(todo'[c]) = "pairs"
    BY <1>1, <1>7, <2>1, <2>2 DEF Doing
  <2>5. SeedOk(c)'
    BY <1>3, <1>4, <1>7, <2>2, <2>4 DEF SeedOk
  <2>6. "gateway" \in sentinel' => OrdersDone' /\ FundsDone'
    BY <1>1, <1>7, <2>1, <2>2 DEF Seeded, Doing
  <2>7. restored' => OrdersDone' /\ FundsDone' /\ ("worker" \in sentinel' \/ ticker' = pgTrades')
    BY <1>1, <2>1, <2>2, <2>3, <2>4 DEF Seeded, Doing
  <2> QED
    BY <2>5, <2>6, <2>7 DEF Seeded, Kept, OnlyOpen
<1> QED
  BY <1>2, <1>6, <1>7

LEMMA SeedStay ==
    ASSUME Shape, Grow, NEW c \in Containers, SeedOk(c), todo'[c] = todo[c],
           FundsInHand(c)', OrdersInHand(c)', Doing(c, "ticker") => rows'[c] \subseteq {pgTrades},
           Doing(c, "topup") => rows'[c] \subseteq Users \X Assets
    PROVE  SeedOk(c)'
<1>1. /\ OrdersDone => OrdersDone'
      /\ FundsDone => FundsDone'
      /\ pgTrades' = pgTrades
      /\ "worker" \in sentinel => "worker" \in sentinel'
  BY GrowKeeps DEF Grow
<1>2. /\ \A t : Doing(c, t)' <=> Doing(c, t)
      /\ Task(todo'[c]) = Task(todo[c])
  BY DEF Doing, Task
<1> QED
  BY <1>1, <1>2 DEF SeedOk

\* Steps that touch neither store.
LEMMA QuietGrows ==
    ASSUME Shape, Seeded, UNCHANGED <<order, book, funds, tables, raised>>,
           sentinel \subseteq sentinel'
    PROVE  Grow /\ Kept'
<1>1. UNCHANGED <<order, zset, hash, available, locked, row, pgTrades, pgAvailable, pgLocked>>
  BY DEF book, funds, tables
<1>2. OpenGtc' = OpenGtc
  BY <1>1 DEF OpenGtc
<1>3. \A u \in Users, a \in Assets : \A v : Near(u, a, v)' <=> Near(u, a, v)
  BY <1>1 DEF Near
<1>4. \A u \in Users, a \in Assets : AccountDone(u, a) => AccountDone(u, a)'
  BY <1>1, <1>3 DEF AccountDone
<1>5. RaisedOnce'
  BY <1>1 DEF Seeded, RaisedOnce
<1> QED
  BY <1>1, <1>2, <1>3, <1>4, <1>5 DEF Grow, Kept, OnlyOpen, Seeded

\* What holds before every step of a seeding, and what such a step achieves.
SeedPre(c) == Shape /\ Tidy /\ calm = "wiped" /\ Seeded /\ SeedOk(c)
SeedPost(c) == Grow /\ Seeded' /\ SeedOk(c)'

LEMMA SeedStart ==
    ASSUME NEW c \in Containers, SeedPre(c),
           BootGateway(c) \/ BootBlind(c) \/ BootWorker(c) \/ Crash(c)
    PROVE  SeedPost(c)
<1>1. /\ UNCHANGED <<flowVars, sentinel, ticker, restored, raised>>
      /\ Crash(c) \/ (Idle(c) /\ UNCHANGED <<rows, adding>>)
      /\ \/ todo' = todo
         \/ todo' = [todo EXCEPT ![c] = <<>>] /\ rows' = [rows EXCEPT ![c] = {}]
         \/ c \in Gateways /\ todo' = [todo EXCEPT ![c] = GatewayProgram]
         \/ c \in Workers /\ todo' = [todo EXCEPT ![c] = WorkerProgram]
  BY DEF BootGateway, BootBlind, BootWorker, Crash, notes
<1>2. Grow /\ Kept'
  BY <1>1, QuietGrows DEF SeedPre, flowVars, vars, pg
<1>3. Seeded'
  BY <1>1, <1>2, SeededKept DEF SeedPre
<1>4. rows'[c] = {}
  <2>1. CASE Crash(c)
    BY <2>1 DEF Crash, SeedPre, Shape
  <2>2. CASE Idle(c) /\ UNCHANGED <<rows, adding>>
    BY <2>2, EmptyHanded DEF SeedPre, Idle, Task
  <2> QED
    BY <1>1, <2>1, <2>2
<1>5. \/ todo'[c] = todo[c]
      \/ todo'[c] = <<>>
      \/ c \in Gateways /\ todo'[c] = GatewayProgram
      \/ c \in Workers /\ todo'[c] = WorkerProgram
  BY <1>1 DEF SeedPre, Shape
<1>6. SeedOk(c)'
  <2>1. FundsInHand(c)' /\ OrdersInHand(c)'
    BY <1>4 DEF FundsInHand, OrdersInHand
  <2>2. CASE todo'[c] = todo[c]
    BY <1>2, <1>4, <2>1, <2>2, SeedStay DEF SeedPre
  <2>3. CASE todo'[c] = <<>>
    <3>1. Task(todo'[c]) = "none"
      BY <2>3 DEF Task
    <3> QED
      BY <1>4, <2>1, <2>3, <3>1, GatewayTasks, WorkerTasks DEF SeedOk, Doing
  <2>4. CASE c \in Gateways /\ todo'[c] = GatewayProgram
    <3>1. Task(todo'[c]) = "balances" /\ todo'[c] \in GatewaySteps /\ c \notin Workers
      BY <2>4, GatewayTasks, ColdAssumption
    <3> QED
      BY <1>4, <2>1, <2>4, <3>1 DEF SeedOk, Doing
  <2>5. CASE c \in Workers /\ todo'[c] = WorkerProgram
    <3>1. Task(todo'[c]) = "topup" /\ todo'[c] \in WorkerSteps /\ c \notin Gateways
      BY <2>5, WorkerTasks, ColdAssumption
    <3> QED
      BY <1>4, <2>1, <2>5, <3>1 DEF SeedOk, Doing
  <2> QED
    BY <1>5, <2>2, <2>3, <2>4, <2>5
<1> QED
  BY <1>2, <1>3, <1>6 DEF SeedPost

LEMMA SeedKeys ==
    ASSUME NEW c \in Containers, SeedPre(c),
           SetPairs(c) \/ SetEmpty(c) \/ Serve(c) \/ WriteTicker(c)
    PROVE  SeedPost(c)
<1>1. /\ At(c, "pairs") \/ At(c, "empty") \/ At(c, "serve") \/ At(c, "ticker")
      /\ UNCHANGED <<order, book, funds, tables, raised>>
      /\ \/ Advance(c)
         \/ todo' = [todo EXCEPT ![c] = Tail(@)] /\ restored' = restored
  BY DEF SetPairs, SetEmpty, Serve, WriteTicker, flowVars, vars, pg, notes
<1>2. /\ sentinel \subseteq sentinel'
      /\ SetPairs(c) \/ sentinel' = sentinel
  BY DEF SetPairs, SetEmpty, Serve, WriteTicker
<1>3. Grow /\ Kept'
  BY <1>1, <1>2, QuietGrows DEF SeedPre
<1>4. todo[c] # <<>> /\ todo'[c] = Tail(todo[c])
  BY <1>1, AtTask DEF Advance, SeedPre, Shape
<1>5. rows'[c] = {}
  <2>1. CASE WriteTicker(c)
    BY <2>1 DEF WriteTicker, SeedPre, Shape
  <2>2. CASE SetPairs(c) \/ SetEmpty(c) \/ Serve(c)
    <3>1. (At(c, "pairs") \/ At(c, "empty") \/ At(c, "serve")) /\ rows' = rows
      BY <2>2 DEF SetPairs, SetEmpty, Serve
    <3> QED
      BY <3>1, AtTask, EmptyHanded DEF SeedPre, Doing
  <2> QED
    BY <2>1, <2>2
<1>6. restored' => restored \/ Tail(todo[c]) = <<>>
  BY <1>1 DEF Advance
<1>7. ~Doing(c, "balances") /\ ~Doing(c, "orders")
  BY <1>1, AtTask DEF Doing
<1>8. /\ Doing(c, "pairs") => SetPairs(c)
      /\ SetPairs(c) => Doing(c, "pairs")
      /\ Doing(c, "ticker") => WriteTicker(c)
      /\ WriteTicker(c) => Doing(c, "ticker")
      /\ SetEmpty(c) => Doing(c, "empty")
  BY AtTask DEF SetPairs, SetEmpty, Serve, WriteTicker, Doing
<1>9. /\ ~Doing(c, "pairs") => sentinel' = sentinel
      /\ Doing(c, "pairs") /\ c \in Gateways => sentinel' = sentinel \cup {"gateway"}
      /\ Doing(c, "pairs") /\ c \in Workers => sentinel' = sentinel \cup {"worker"}
  BY <1>2, <1>8, ColdAssumption DEF SetPairs
<1>10. /\ Doing(c, "ticker") => ticker' = pgTrades
       /\ ticker' = ticker \/ Doing(c, "ticker") \/ Doing(c, "empty")
  <2>1. WriteTicker(c) => ticker' = pgTrades
    BY <1>8 DEF WriteTicker, SeedPre, SeedOk
  <2>2. ticker' = ticker \/ WriteTicker(c) \/ SetEmpty(c)
    BY DEF SetPairs, Serve
  <2> QED
    BY <1>8, <2>1, <2>2
<1> QED
  BY <1>3, <1>4, <1>5, <1>6, <1>7, <1>9, <1>10, SeedAdvance DEF SeedPre, SeedPost

LEMMA SeedReadTicker ==
    ASSUME NEW c \in Containers, SeedPre(c), ReadTicker(c)
    PROVE  SeedPost(c)
<1>1. /\ UNCHANGED <<flowVars, sentinel, ticker, restored, raised>> /\ todo' = todo
      /\ Doing(c, "ticker") /\ ~Doing(c, "topup") /\ rows'[c] = {pgTrades}
  BY AtTask DEF ReadTicker, SeedPre, Shape, notes, Doing
<1>2. Grow /\ Kept'
  BY <1>1, QuietGrows DEF SeedPre, flowVars, vars, pg
<1>3. Seeded'
  BY <1>1, <1>2, SeededKept DEF SeedPre
<1>4. FundsInHand(c)' /\ OrdersInHand(c)'
  BY <1>1 DEF FundsInHand, OrdersInHand, Doing
<1> QED
  BY <1>1, <1>2, <1>3, <1>4, SeedStay DEF SeedPre, SeedPost

\* One HSET of a balance, in a seeding or in reset_all.
LEMMA OneAccount ==
    ASSUME Shape, NEW c \in Containers, WriteBalance(c)
    PROVE  \E r \in rows[c] :
             /\ Written(c, r)
             /\ \A u \in Users, a \in Assets :
                  /\ available'[u][a] = IF u = r.account[1] /\ a = r.account[2]
                                        THEN r.available ELSE available[u][a]
                  /\ locked'[u][a] = IF u = r.account[1] /\ a = r.account[2]
                                     THEN r.locked ELSE locked[u][a]
<1>1. PICK r \in rows[c] :
         /\ available' = [available EXCEPT ![r.account[1]][r.account[2]] = r.available]
         /\ locked' = [locked EXCEPT ![r.account[1]][r.account[2]] = r.locked]
         /\ Written(c, r)
  BY DEF WriteBalance
<1> DEFINE x == r.account[1]
           y == r.account[2]
           v == r.available
           w == r.locked
<1>2. /\ available' = [available EXCEPT ![x][y] = v] /\ locked' = [locked EXCEPT ![x][y] = w]
      /\ Written(c, r)
  BY <1>1
<1>3. Grid(available) /\ Grid(locked)
  BY DEF Shape
<1> HIDE DEF x, y, v, w
<1>4. ASSUME NEW u \in Users, NEW a \in Assets
      PROVE  available'[u][a] = IF u = x /\ a = y THEN v ELSE available[u][a]
  BY <1>2, <1>3 DEF Grid
<1>5. ASSUME NEW u \in Users, NEW a \in Assets
      PROVE  locked'[u][a] = IF u = x /\ a = y THEN w ELSE locked[u][a]
  BY <1>2, <1>3 DEF Grid
<1> QED
  BY <1>2, <1>4, <1>5 DEF x, y, v, w

LEMMA BalanceWrite ==
    ASSUME Shape, NEW c \in Containers, FundsInHand(c), Doing(c, "balances"), WriteBalance(c)
    PROVE  /\ \A u \in Users, a \in Assets : AccountDone(u, a) => AccountDone(u, a)'
           /\ FundsInHand(c)'
           /\ \/ rows'[c] # {} /\ UNCHANGED <<todo, restored>>
              \/ rows'[c] = {} /\ Advance(c) /\ FundsDone'
<1>1. PICK r \in rows[c] :
        /\ Written(c, r)
        /\ \A u \in Users, a \in Assets :
             /\ available'[u][a] = IF u = r.account[1] /\ a = r.account[2]
                                   THEN r.available ELSE available[u][a]
             /\ locked'[u][a] = IF u = r.account[1] /\ a = r.account[2]
                                THEN r.locked ELSE locked[u][a]
  BY OneAccount
<1>2. /\ rows'[c] = rows[c] \ {r}
      /\ \/ rows'[c] # {} /\ UNCHANGED <<todo, restored>>
         \/ rows'[c] = {} /\ Advance(c)
  BY <1>1, WrittenFacts
<1>3. UNCHANGED <<pgAvailable, pgLocked, raised>>
  BY DEF WriteBalance, pg, tables, notes
<1>4. PICK x \in Users, y \in Assets : RowOf(r, x, y)
  BY DEF FundsInHand
<1>5. /\ r.account[1] = x /\ r.account[2] = y
      /\ Near(x, y, r.available) /\ r.locked = pgLocked[x][y]
  BY <1>4 DEF RowOf
<1>6. \A u \in Users, a \in Assets :
        /\ available'[u][a] = IF u = x /\ a = y THEN r.available ELSE available[u][a]
        /\ locked'[u][a] = IF u = x /\ a = y THEN pgLocked[x][y] ELSE locked[u][a]
  BY <1>1, <1>5
<1>7. /\ \A u \in Users, a \in Assets : \A v : Near(u, a, v)' <=> Near(u, a, v)
      /\ \A q : \A u \in Users, a \in Assets : RowOf(q, u, a)' <=> RowOf(q, u, a)
  <2>1. \A u \in Users, a \in Assets : \A v : Near(u, a, v)' <=> Near(u, a, v)
    BY <1>3 DEF Near
  <2> QED
    BY <1>3, <2>1 DEF RowOf
<1>8. AccountDone(x, y)'
  BY <1>3, <1>5, <1>6, <1>7 DEF AccountDone
<1>9. \A u \in Users, a \in Assets : AccountDone(u, a) => AccountDone(u, a)'
  <2> SUFFICES ASSUME NEW u \in Users, NEW a \in Assets, AccountDone(u, a), ~(u = x /\ a = y)
               PROVE  AccountDone(u, a)'
    BY <1>8
  <2>1. available'[u][a] = available[u][a] /\ locked'[u][a] = locked[u][a]
    BY <1>6
  <2> QED
    BY <1>3, <1>7, <2>1 DEF AccountDone
<1>10. \A u \in Users, a \in Assets : RowOf(r, u, a) => u = x /\ a = y
  BY <1>4 DEF RowOf
<1>11. \A u \in Users, a \in Assets : AccountDone(u, a)' \/ \E q \in rows'[c] : RowOf(q, u, a)'
  <2> SUFFICES ASSUME NEW u \in Users, NEW a \in Assets, ~AccountDone(u, a), ~(u = x /\ a = y)
               PROVE  \E q \in rows'[c] : RowOf(q, u, a)'
    BY <1>8, <1>9
  <2>1. PICK q \in rows[c] : RowOf(q, u, a)
    BY DEF FundsInHand
  <2>2. q # r
    BY <1>10, <2>1
  <2> QED
    BY <1>2, <1>7, <2>1, <2>2
<1>12. \A q \in rows'[c] : \E u \in Users, a \in Assets : RowOf(q, u, a)'
  BY <1>2, <1>7 DEF FundsInHand
<1>13. rows'[c] = {} => FundsDone'
  BY <1>11 DEF FundsDone
<1> QED
  BY <1>2, <1>9, <1>11, <1>12, <1>13 DEF FundsInHand

LEMMA BalanceRead ==
    ASSUME NEW c \in Containers, rows'[c] = AccountRows, UNCHANGED <<pgAvailable, pgLocked>>
    PROVE  FundsInHand(c)' /\ (rows'[c] = {} => FundsDone')
<1> DEFINE A(u, a) ==
             [account |-> <<u, a>>, available |-> pgAvailable[u][a], locked |-> pgLocked[u][a]]
<1>1. \A u \in Users, a \in Assets :
         /\ A(u, a).account = <<u, a>> /\ A(u, a).locked = pgLocked'[u][a]
         /\ A(u, a).available = pgAvailable'[u][a]
  OBVIOUS
<1>2. /\ \A u \in Users, a \in Assets : A(u, a) \in rows'[c]
      /\ \A r \in rows'[c] : \E u \in Users, a \in Assets : r = A(u, a)
  BY DEF AccountRows
<1> HIDE DEF A
<1>3. /\ \A r \in rows'[c] : \E u \in Users, a \in Assets : RowOf(r, u, a)'
      /\ \A u \in Users, a \in Assets : \E r \in rows'[c] : RowOf(r, u, a)'
  BY <1>1, <1>2 DEF RowOf, Near
<1>4. rows'[c] = {} => FundsDone'
  BY <1>3 DEF FundsDone
<1> QED
  BY <1>3, <1>4 DEF FundsInHand

LEMMA SeedReadBalances ==
    ASSUME NEW c \in Containers, SeedPre(c), ReadBalances(c)
    PROVE  SeedPost(c)
<1>1. /\ UNCHANGED <<flowVars, sentinel, ticker, raised>>
      /\ Doing(c, "balances") /\ todo[c] # <<>>
      /\ Read(c, AccountRows)
  BY AtTask DEF ReadBalances, notes
<1>2. Grow /\ Kept'
  BY <1>1, QuietGrows DEF SeedPre, flowVars, vars, pg
<1>3. /\ rows'[c] = AccountRows
      /\ \/ rows'[c] # {} /\ UNCHANGED <<todo, restored>>
         \/ rows'[c] = {} /\ Advance(c)
  BY <1>1, ReadFacts DEF SeedPre
<1>4. FundsInHand(c)' /\ (rows'[c] = {} => FundsDone')
  BY <1>1, <1>3, BalanceRead DEF flowVars, pg, tables
<1>5. ~Doing(c, "orders") /\ ~Doing(c, "pairs") /\ ~Doing(c, "ticker") /\ ~Doing(c, "topup")
  BY <1>1 DEF Doing
<1>6. CASE UNCHANGED <<todo, restored>>
  <2>1. OrdersInHand(c)'
    BY <1>5, <1>6 DEF OrdersInHand, Doing
  <2> QED
    BY <1>1, <1>2, <1>4, <1>5, <1>6, <2>1, SeedStay, SeededKept DEF SeedPre, SeedPost
<1>7. CASE rows'[c] = {} /\ Advance(c)
  <2>1. todo'[c] = Tail(todo[c]) /\ (restored' => restored \/ Tail(todo[c]) = <<>>)
    BY <1>7, AdvanceFacts DEF SeedPre
  <2> QED
    BY <1>1, <1>2, <1>4, <1>5, <1>7, <2>1, SeedAdvance DEF SeedPre, SeedPost
<1> QED
  BY <1>3, <1>6, <1>7

LEMMA SeedWriteBalance ==
    ASSUME NEW c \in Containers, SeedPre(c), WriteBalance(c)
    PROVE  SeedPost(c)
<1>1. /\ UNCHANGED <<order, zset, hash, row, pgTrades, pgAvailable, pgLocked, sentinel, ticker>>
      /\ raised' = raised /\ Doing(c, "balances") /\ todo[c] # <<>>
  BY AtTask DEF WriteBalance, book, pg, tables, notes
<1>2. /\ \A u \in Users, a \in Assets : AccountDone(u, a) => AccountDone(u, a)'
      /\ FundsInHand(c)'
      /\ \/ rows'[c] # {} /\ UNCHANGED <<todo, restored>>
         \/ rows'[c] = {} /\ Advance(c) /\ FundsDone'
  BY <1>1, BalanceWrite DEF SeedPre, SeedOk
<1>3. Grow /\ Kept'
  <2>1. OpenGtc' = OpenGtc
    BY <1>1 DEF OpenGtc
  <2>2. RaisedOnce' /\ \A u \in Users, a \in Assets : \A v : Near(u, a, v) => Near(u, a, v)'
    BY <1>1 DEF Near, RaisedOnce, SeedPre, Seeded
  <2> QED
    BY <1>1, <1>2, <2>1, <2>2 DEF Grow, Kept, OnlyOpen, SeedPre, Seeded
<1>4. ~Doing(c, "orders") /\ ~Doing(c, "pairs") /\ ~Doing(c, "ticker") /\ ~Doing(c, "topup")
  BY <1>1 DEF Doing
<1>5. CASE UNCHANGED <<todo, restored>>
  <2>1. OrdersInHand(c)'
    BY <1>4, <1>5 DEF OrdersInHand, Doing
  <2> QED
    BY <1>1, <1>2, <1>3, <1>4, <1>5, <2>1, SeedStay, SeededKept DEF SeedPre, SeedPost
<1>6. CASE rows'[c] = {} /\ Advance(c) /\ FundsDone'
  <2>1. todo'[c] = Tail(todo[c]) /\ (restored' => restored \/ Tail(todo[c]) = <<>>)
    BY <1>6, AdvanceFacts DEF SeedPre
  <2> QED
    BY <1>1, <1>2, <1>3, <1>4, <1>6, <2>1, SeedAdvance DEF SeedPre, SeedPost
<1> QED
  BY <1>2, <1>5, <1>6

LEMMA OrderRowFacts ==
    /\ \A r \in OrderRows : /\ r.id \in OpenGtc /\ r.id \in OrderIds
                            /\ r.left = row[r.id] /\ r = OrderRow(r.id)
    /\ \A o \in OpenGtc : OrderRow(o) \in OrderRows /\ OrderRow(o).id = o
  BY DEF OrderRows, OrderRow, OpenGtc

LEMMA SeedReadOrders ==
    ASSUME NEW c \in Containers, SeedPre(c), ReadOrders(c)
    PROVE  SeedPost(c)
<1>1. /\ UNCHANGED <<flowVars, sentinel, ticker, adding, raised>>
      /\ Doing(c, "orders") /\ todo[c] # <<>> /\ rows[c] = {}
      /\ Read(c, OrderRows)
  BY AtTask DEF ReadOrders
<1>2. Grow /\ Kept'
  BY <1>1, QuietGrows DEF SeedPre, flowVars, vars, pg
<1>3. /\ rows'[c] = OrderRows
      /\ \/ rows'[c] # {} /\ UNCHANGED <<todo, restored>>
         \/ rows'[c] = {} /\ Advance(c)
  BY <1>1, ReadFacts DEF SeedPre
<1>4. ~Doing(c, "balances") /\ ~Doing(c, "pairs") /\ ~Doing(c, "ticker") /\ ~Doing(c, "topup")
  BY <1>1 DEF Doing
<1>5. OpenGtc' = OpenGtc /\ OrderRows' = OrderRows /\ \A o : OrderRow(o)' = OrderRow(o)
  BY <1>2, GrowKeeps DEF SeedPre, Grow, OrderRow
<1>6. ~adding'[c]
  BY <1>1 DEF SeedPre, Tidy, TidyAt
<1>7. CASE UNCHANGED <<todo, restored>>
  <2>1. OrdersInHand(c)'
    BY <1>3, <1>5, <1>6, OrderRowFacts DEF OrdersInHand
  <2>2. FundsInHand(c)'
    BY <1>4, <1>7 DEF FundsInHand, Doing
  <2> QED
    BY <1>1, <1>2, <1>4, <1>7, <2>1, <2>2, SeedStay, SeededKept DEF SeedPre, SeedPost
<1>8. CASE rows'[c] = {} /\ Advance(c)
  <2>1. todo'[c] = Tail(todo[c]) /\ (restored' => restored \/ Tail(todo[c]) = <<>>)
    BY <1>8, AdvanceFacts DEF SeedPre
  <2>2. OrdersDone'
    BY <1>3, <1>5, <1>8, OrderRowFacts DEF OrdersDone
  <2> QED
    BY <1>1, <1>2, <1>4, <1>8, <2>1, <2>2, SeedAdvance DEF SeedPre, SeedPost
<1> QED
  BY <1>3, <1>7, <1>8

LEMMA SeedAddOrder ==
    ASSUME NEW c \in Containers, SeedPre(c), AddOrder(c)
    PROVE  SeedPost(c)
<1>1. /\ UNCHANGED <<order, hash, available, locked, row, pgTrades, pgAvailable, pgLocked>>
      /\ UNCHANGED <<sentinel, ticker, restored, todo, rows, raised>>
      /\ Doing(c, "orders")
  BY AtTask DEF AddOrder, funds, pg, tables, notes
<1>2. PICK r \in rows[c] :
         Oldest(c, r) /\ zset' = [zset EXCEPT ![order[r.id].side] = @ \cup {r.id}]
  BY DEF AddOrder
<1>3. rows[c] \subseteq OrderRows /\ rows[c] # {}
  BY <1>1, <1>2 DEF SeedPre, SeedOk, OrdersInHand
<1>4. r.id \in OpenGtc /\ r.id \in OrderIds
  BY <1>3, OrderRowFacts
<1>5. order[r.id].side \in Sides
  BY <1>4, SideOf DEF SeedPre
<1>6. \A s \in Sides : zset'[s] = IF s = order[r.id].side THEN zset[s] \cup {r.id} ELSE zset[s]
  BY <1>2, <1>5 DEF SeedPre, Shape
<1>7. OpenGtc' = OpenGtc /\ OrderRows' = OrderRows /\ \A o : OrderRow(o)' = OrderRow(o)
  <2>1. OpenGtc' = OpenGtc
    BY <1>1 DEF OpenGtc
  <2> QED
    BY <1>1, <2>1 DEF OrderRows, OrderRow
<1>8. Grow /\ Kept'
  <2>0. RaisedOnce' /\ \A u \in Users, a \in Assets : \A v : Near(u, a, v) <=> Near(u, a, v)'
    BY <1>1 DEF Near, RaisedOnce, SeedPre, Seeded
  <2>1. \A u \in Users, a \in Assets : AccountDone(u, a) => AccountDone(u, a)'
    BY <1>1, <2>0 DEF AccountDone
  <2>2. \A s \in Sides : zset[s] \subseteq {o \in OpenGtc : order[o].side = s}
    BY DEF SeedPre, Seeded
  <2>3. OnlyOpen'
    <3> SUFFICES ASSUME NEW s \in Sides, NEW o \in zset'[s]
                 PROVE  o \in OpenGtc /\ order[o].side = s
      BY <1>1, <1>7 DEF OnlyOpen
    <3>1. o \in zset[s] \/ (s = order[r.id].side /\ o = r.id)
      BY <1>6
    <3>2. o \in zset[s] => o \in OpenGtc /\ order[o].side = s
      BY <2>2
    <3> QED
      BY <1>4, <3>1, <3>2
  <2>4. Grow
    BY <1>1, <1>6, <2>0, <2>1 DEF Grow
  <2> QED
    BY <2>0, <2>3, <2>4 DEF Kept
<1>9. FundsInHand(c)' /\ ~Doing(c, "ticker") /\ ~Doing(c, "topup")
  BY <1>1 DEF FundsInHand, Doing
<1>10. OrdersInHand(c)'
  <2>1. \A o \in OpenGtc : OrderDone(o)' \/ OrderRow(o) \in rows'[c]
    BY <1>1, <1>3, <1>8, GrowKeeps DEF SeedPre, SeedOk, OrdersInHand
  <2>2. ASSUME NEW x \in rows[c], Oldest(c, x) PROVE x.id \in zset'[order[x.id].side]
    <3>1. x.id <= r.id /\ r.id <= x.id /\ x.id \in Nat /\ r.id \in Nat
      BY <1>2, <1>3, <2>2, OrderRowFacts, OrderIdsAssumption DEF Oldest
    <3>2. x.id = r.id
      BY <3>1
    <3> QED
      BY <1>5, <1>6, <3>2
  <2>3. \A x : Oldest(c, x)' <=> Oldest(c, x)
    BY <1>1 DEF Oldest
  <2> QED
    BY <1>1, <1>3, <1>7, <2>1, <2>2, <2>3 DEF OrdersInHand
<1> QED
  BY <1>1, <1>8, <1>9, <1>10, SeedStay, SeededKept DEF SeedPre, SeedPost

LEMMA SeedWriteOrder ==
    ASSUME NEW c \in Containers, SeedPre(c), WriteOrder(c)
    PROVE  SeedPost(c)
<1>1. /\ UNCHANGED <<order, zset, available, locked, row, pgTrades, pgAvailable, pgLocked>>
      /\ UNCHANGED <<sentinel, ticker, raised>>
      /\ Doing(c, "orders") /\ todo[c] # <<>> /\ adding[c] /\ ~adding'[c]
  BY AtTask DEF WriteOrder, funds, pg, tables, SeedPre, Shape, notes
<1>2. PICK r \in rows[c] :
         Oldest(c, r) /\ hash' = [hash EXCEPT ![r.id] = r.left] /\ Written(c, r)
  BY DEF WriteOrder
<1>3. /\ rows[c] \subseteq OrderRows
      /\ \A o \in OpenGtc : OrderDone(o) \/ OrderRow(o) \in rows[c]
      /\ r.id \in zset[order[r.id].side]
  BY <1>1, <1>2 DEF SeedPre, SeedOk, OrdersInHand
<1>4. r.id \in OpenGtc /\ r.id \in OrderIds /\ r.left = row[r.id] /\ r = OrderRow(r.id)
  BY <1>3, OrderRowFacts
<1>5. \A o \in OrderIds : hash'[o] = IF o = r.id THEN row[o] ELSE hash[o]
  BY <1>2, <1>4 DEF SeedPre, Shape
<1>6. OpenGtc' = OpenGtc /\ OrderRows' = OrderRows /\ \A o : OrderRow(o)' = OrderRow(o)
  <2>1. OpenGtc' = OpenGtc
    BY <1>1 DEF OpenGtc
  <2> QED
    BY <1>1, <2>1 DEF OrderRows, OrderRow
<1>7. Grow /\ Kept'
  <2>0. RaisedOnce' /\ \A u \in Users, a \in Assets : \A v : Near(u, a, v) <=> Near(u, a, v)'
    BY <1>1 DEF Near, RaisedOnce, SeedPre, Seeded
  <2>1. \A u \in Users, a \in Assets : AccountDone(u, a) => AccountDone(u, a)'
    BY <1>1, <2>0 DEF AccountDone
  <2>2. \A s \in Sides : zset[s] \subseteq {o \in OpenGtc : order[o].side = s}
    BY DEF SeedPre, Seeded
  <2>3. OpenGtc \subseteq OrderIds
    BY DEF OpenGtc
  <2> QED
    BY <1>1, <1>5, <1>6, <2>0, <2>1, <2>2, <2>3 DEF Grow, Kept, OnlyOpen
<1>8. /\ rows'[c] = rows[c] \ {r}
      /\ \/ rows'[c] # {} /\ UNCHANGED <<todo, restored>>
         \/ rows'[c] = {} /\ Advance(c)
  BY <1>2, WrittenFacts DEF SeedPre
<1>9. \A o \in OpenGtc : OrderDone(o)' \/ OrderRow(o) \in rows'[c]
  <2>1. OrderDone(r.id)'
    BY <1>1, <1>3, <1>4, <1>5 DEF OrderDone
  <2>2. \A o \in OpenGtc : OrderRow(o) = r => o = r.id
    BY OrderRowFacts
  <2>3. \A o \in OpenGtc : OrderDone(o) => OrderDone(o)'
    BY <1>7, GrowKeeps DEF SeedPre
  <2> QED
    BY <1>3, <1>8, <2>1, <2>2, <2>3
<1>10. ~Doing(c, "balances") /\ ~Doing(c, "pairs") /\ ~Doing(c, "ticker") /\ ~Doing(c, "topup")
  BY <1>1 DEF Doing
<1>11. CASE UNCHANGED <<todo, restored>>
  <2>1. OrdersInHand(c)'
    BY <1>1, <1>3, <1>6, <1>8, <1>9 DEF OrdersInHand
  <2>2. FundsInHand(c)'
    BY <1>10, <1>11 DEF FundsInHand, Doing
  <2> QED
    BY <1>1, <1>7, <1>10, <1>11, <2>1, <2>2, SeedStay, SeededKept DEF SeedPre, SeedPost
<1>12. CASE rows'[c] = {} /\ Advance(c)
  <2>1. todo'[c] = Tail(todo[c]) /\ (restored' => restored \/ Tail(todo[c]) = <<>>)
    BY <1>12, AdvanceFacts DEF SeedPre
  <2>2. OrdersDone'
    BY <1>6, <1>9, <1>12 DEF OrdersDone
  <2> QED
    BY <1>1, <1>7, <1>10, <1>12, <2>1, <2>2, SeedAdvance DEF SeedPre, SeedPost
<1> QED
  BY <1>8, <1>11, <1>12

\* run_seed: the accounts already loaded stay behind those it raises.
LEMMA SeedTopUp ==
    ASSUME NEW c \in Containers, SeedPre(c), StartTopUp(c) \/ TopUp(c)
    PROVE  SeedPost(c)
<1>1. /\ UNCHANGED <<order, zset, hash, available, locked, row, pgTrades, pgLocked, sentinel, ticker>>
      /\ Doing(c, "topup") /\ todo[c] # <<>>
  BY AtTask DEF StartTopUp, TopUp, flowVars, vars, book, funds, pg, tables
<1>2. rows[c] \subseteq Users \X Assets
  BY <1>1 DEF SeedPre, SeedOk
<1>3. /\ \/ rows'[c] # {} /\ UNCHANGED <<todo, restored>>
         \/ rows'[c] = {} /\ Advance(c)
      /\ rows'[c] \subseteq Users \X Assets
  <2>1. CASE StartTopUp(c)
    BY <2>1, ReadFacts DEF StartTopUp, SeedPre
  <2>2. CASE TopUp(c)
    <3>1. PICK k \in rows[c] : Written(c, k)
      BY <2>2 DEF TopUp
    <3> QED
      BY <1>2, <3>1, WrittenFacts DEF SeedPre
  <2> QED
    BY <2>1, <2>2
<1>4. \/ UNCHANGED <<pgAvailable, raised>>
      \/ \E x \in Users, y \in Assets :
            /\ SeedFunds[x][y] > pgAvailable[x][y]
            /\ pgAvailable' = [pgAvailable EXCEPT ![x][y] = SeedFunds[x][y]]
            /\ raised' = raised \cup {<<x, y>>}
  <2>1. CASE StartTopUp(c)
    BY <2>1 DEF StartTopUp, flowVars, pg, tables, notes
  <2>2. CASE TopUp(c)
    <3>1. PICK k \in rows[c] :
             IF SeedFunds[k[1]][k[2]] > pgAvailable[k[1]][k[2]]
             THEN /\ pgAvailable' = [pgAvailable EXCEPT ![k[1]][k[2]] = SeedFunds[k[1]][k[2]]]
                  /\ raised' = raised \cup {k}
             ELSE UNCHANGED <<pgAvailable, raised>>
      BY <2>2 DEF TopUp
    <3>2. PICK x \in Users, y \in Assets : k = <<x, y>>
      BY <1>2
    <3>3. k[1] = x /\ k[2] = y
      BY <3>2
    <3> QED
      BY <3>1, <3>2, <3>3
  <2> QED
    BY <2>1, <2>2
<1>5. /\ RaisedOnce'
      /\ \A u \in Users, a \in Assets : \A v : Near(u, a, v) => Near(u, a, v)'
  <2>1. CASE UNCHANGED <<pgAvailable, raised>>
    BY <2>1 DEF Near, RaisedOnce, SeedPre, Seeded
  <2>2. ASSUME NEW x \in Users, NEW y \in Assets,
               SeedFunds[x][y] > pgAvailable[x][y],
               pgAvailable' = [pgAvailable EXCEPT ![x][y] = SeedFunds[x][y]],
               raised' = raised \cup {<<x, y>>}
        PROVE  /\ RaisedOnce'
               /\ \A u \in Users, a \in Assets : \A v : Near(u, a, v) => Near(u, a, v)'
    <3> DEFINE w == SeedFunds[x][y]
    <3>1. Grid(pgAvailable)
      BY DEF SeedPre, Shape
    <3>2. \A u \in Users, a \in Assets :
             pgAvailable'[u][a] = IF u = x /\ a = y THEN SeedFunds[x][y] ELSE pgAvailable[u][a]
      <4>1. pgAvailable' = [pgAvailable EXCEPT ![x][y] = w]
        BY <2>2
      <4> HIDE DEF w
      <4>2. ASSUME NEW u \in Users, NEW a \in Assets
            PROVE  pgAvailable'[u][a] = IF u = x /\ a = y THEN w ELSE pgAvailable[u][a]
        BY <3>1, <4>1 DEF Grid
      <4> QED
        BY <4>2 DEF w
    <3>3. RaisedOnce
      BY DEF SeedPre, Seeded
    <3>4. <<x, y>> \notin raised
      <4>1. SeedFunds[x][y] \in Nat
        BY ColdAssumption
      <4> QED
        BY <2>2, <3>3, <4>1 DEF RaisedOnce
    <3>5. RaisedOnce'
      BY <2>2, <3>2, <3>3 DEF RaisedOnce
    <3>6. ASSUME NEW u \in Users, NEW a \in Assets, NEW v, Near(u, a, v)
          PROVE  Near(u, a, v)'
      <4>1. CASE u = x /\ a = y
        <5>1. v = pgAvailable[x][y]
          BY <3>4, <3>6, <4>1 DEF Near
        <5>2. pgAvailable'[x][y] > v
          BY <2>2, <3>2, <5>1
        <5> QED
          BY <2>2, <4>1, <5>2 DEF Near
      <4>2. CASE ~(u = x /\ a = y)
        <5>1. pgAvailable'[u][a] = pgAvailable[u][a]
          BY <3>2, <4>2
        <5> QED
          BY <2>2, <3>6, <5>1 DEF Near
      <4> QED
        BY <4>1, <4>2
    <3> QED
      BY <3>5, <3>6
  <2> QED
    BY <1>4, <2>1, <2>2
<1>6. Grow /\ Kept'
  <2>1. OpenGtc' = OpenGtc
    BY <1>1 DEF OpenGtc
  <2>2. \A u \in Users, a \in Assets : AccountDone(u, a) => AccountDone(u, a)'
    BY <1>1, <1>5 DEF AccountDone
  <2> QED
    BY <1>1, <1>5, <2>1, <2>2 DEF Grow, Kept, OnlyOpen, SeedPre, Seeded
<1>7. ~Doing(c, "balances") /\ ~Doing(c, "orders") /\ ~Doing(c, "pairs") /\ ~Doing(c, "ticker")
  BY <1>1 DEF Doing
<1>8. CASE UNCHANGED <<todo, restored>>
  <2>1. FundsInHand(c)' /\ OrdersInHand(c)'
    BY <1>7, <1>8 DEF FundsInHand, OrdersInHand, Doing
  <2> QED
    BY <1>1, <1>3, <1>6, <1>7, <1>8, <2>1, SeedStay, SeededKept DEF SeedPre, SeedPost
<1>9. CASE rows'[c] = {} /\ Advance(c)
  <2>1. todo'[c] = Tail(todo[c]) /\ (restored' => restored \/ Tail(todo[c]) = <<>>)
    BY <1>9, AdvanceFacts DEF SeedPre
  <2> QED
    BY <1>1, <1>6, <1>7, <1>9, <2>1, SeedAdvance DEF SeedPre, SeedPost
<1> QED
  BY <1>3, <1>8, <1>9

\* Nothing but a seeding happens while Valkey is calm after it was wiped.
LEMMA SeedNoAdmin ==
    ASSUME NEW c \in Containers, SeedPre(c)
    PROVE  ~Truncate(c) /\ ~StartCredit(c) /\ ~Credit(c) /\ ~Clear(c) /\ ~ClearFails(c)
<1>1. Task(todo[c]) \in {"none", "topup", "balances", "orders", "pairs", "ticker", "empty", "serve"}
  <2>1. c \in Gateways \/ c \in Workers
    BY DEF Containers
  <2> QED
    BY <2>1, GatewayTasks, WorkerTasks DEF SeedPre, SeedOk
<1>2. ~Doing(c, "truncate") /\ ~Doing(c, "credit") /\ ~Doing(c, "clear")
  BY <1>1 DEF Doing
<1> QED
  BY <1>2, AtTask DEF Truncate, StartCredit, Credit, Clear, ClearFails

LEMMA SeedContainer ==
    ASSUME ColdInv, NEW c \in Containers, Seeding(c) \/ Administration(c) \/ Crash(c)
    PROVE  SeedInv'
<1> SUFFICES ASSUME calm' = "wiped" PROVE Seeded' /\ \A d \in Containers : SeedOk(d)'
  BY DEF SeedInv
<1>1. ASSUME NEW p \in {ResetAll, TruncateOrders, ResetBalances}, Admin(c, p) PROVE FALSE
  BY <1>1 DEF Admin
<1>2. calm = "wiped"
  <2>1. CASE BootGateway(c) \/ BootBlind(c) \/ BootWorker(c) \/ Crash(c)
    BY <2>1 DEF BootGateway, BootBlind, BootWorker, Crash, StillCalm
  <2>2. CASE \/ StartTopUp(c) \/ TopUp(c)
             \/ ReadBalances(c) \/ ReadOrders(c) \/ SetPairs(c) \/ SetEmpty(c) \/ ReadTicker(c)
             \/ WriteTicker(c) \/ Serve(c) \/ WriteBalance(c) \/ AddOrder(c) \/ WriteOrder(c)
    BY <2>2 DEF StartTopUp, TopUp, ReadBalances, ReadOrders, SetPairs, SetEmpty, ReadTicker, WriteTicker, Serve,
                WriteBalance, AddOrder, WriteOrder
  <2>3. CASE Truncate(c) \/ StartCredit(c) \/ Credit(c) \/ Clear(c) \/ ClearFails(c)
    BY <2>3 DEF Truncate, StartCredit, Credit, Clear, ClearFails
  <2> QED
    BY <1>1, <2>1, <2>2, <2>3 DEF Seeding, Administration
<1>3. SeedPre(c) /\ \A d \in Containers : SeedOk(d)
  BY <1>2 DEF SeedPre, ColdInv, SeedInv
<1>4. SeedPost(c)
  <2>1. CASE BootGateway(c) \/ BootBlind(c) \/ BootWorker(c) \/ Crash(c)
    BY <1>3, <2>1, SeedStart
  <2>2. CASE SetPairs(c) \/ SetEmpty(c) \/ Serve(c) \/ WriteTicker(c)
    BY <1>3, <2>2, SeedKeys
  <2>3. CASE ReadTicker(c) \/ ReadBalances(c) \/ WriteBalance(c)
    BY <1>3, <2>3, SeedReadTicker, SeedReadBalances, SeedWriteBalance
  <2>4. CASE ReadOrders(c) \/ AddOrder(c) \/ WriteOrder(c)
    BY <1>3, <2>4, SeedReadOrders, SeedAddOrder, SeedWriteOrder
  <2>5. CASE StartTopUp(c) \/ TopUp(c)
    BY <1>3, <2>5, SeedTopUp
  <2> QED
    BY <1>1, <1>3, <2>1, <2>2, <2>3, <2>4, <2>5, SeedNoAdmin DEF Seeding, Administration
<1>5. \A d \in Containers \ {c} : SeedOk(d)'
  <2>1. \A d \in Containers \ {c} :
           todo'[d] = todo[d] /\ rows'[d] = rows[d] /\ adding'[d] = adding[d]
    BY Elsewhere DEF ColdInv
  <2> QED
    BY <1>3, <1>4, <2>1, SeedFrame DEF SeedPost, SeedPre
<1> QED
  BY <1>4, <1>5 DEF SeedPost

LEMMA SeedWipe ==
    ASSUME ColdInv, Wipe
    PROVE  SeedInv'
<1> SUFFICES ASSUME calm' = "wiped" PROVE Seeded' /\ \A d \in Containers : SeedOk(d)'
  BY DEF SeedInv
<1>1. /\ zset' = [s \in Sides |-> {}]
      /\ sentinel' = {} /\ restored' = FALSE /\ raised' = {} /\ UNCHANGED <<todo, rows>>
      /\ AllIdle
  BY DEF Wipe, starters
<1>2. Seeded'
  BY <1>1 DEF Seeded, RaisedOnce
<1>3. \A d \in Containers : todo'[d] = <<>> /\ Task(todo'[d]) = "none" /\ rows'[d] = {}
  <2>1. \A d \in Containers : todo[d] = <<>> /\ Task(todo[d]) = "none"
    BY <1>1 DEF AllIdle, Idle, Task
  <2>2. Tidy
    BY DEF ColdInv
  <2> QED
    BY <1>1, <2>1, <2>2, EmptyHanded
<1>4. \A d \in Containers : SeedOk(d)'
  BY <1>3, GatewayTasks, WorkerTasks DEF SeedOk, FundsInHand, OrdersInHand, Doing
<1> QED
  BY <1>2, <1>4

\* Orders are traded: calm only lasts if neither store has changed.
LEMMA StillWhileCalm ==
    ASSUME Trading, calm' # ""
    PROVE  /\ UNCHANGED <<order, zset, hash, available, locked, row, pgTrades, pgAvailable, pgLocked>>
           /\ UNCHANGED <<todo, rows, adding, sentinel, ticker, restored, calm, raised, unswept>>
<1>1. UNCHANGED <<book, funds, tables, pc, calm>>
  BY DEF Trading
<1>2. order' = order
  BY DEF Trading, Script, Reject, Begin, Visit, SkipGhost, LeaveLoop, CancelMaker, Trade, Finish,
         Persist, PersistFails, vars
<1> QED
  BY <1>1, <1>2 DEF Trading, book, funds, tables, starters

LEMMA SeedQuiet ==
    ASSUME ColdInv, Trading \/ UNCHANGED coldVars
    PROVE  SeedInv'
<1> SUFFICES ASSUME calm' = "wiped" PROVE Seeded' /\ \A d \in Containers : SeedOk(d)'
  BY DEF SeedInv
<1>1. /\ UNCHANGED <<order, zset, hash, available, locked, row, pgTrades, pgAvailable, pgLocked>>
      /\ UNCHANGED <<todo, rows, adding, sentinel, ticker, restored, calm, raised>>
  <2>1. CASE Trading
    BY <2>1, StillWhileCalm
  <2>2. CASE UNCHANGED coldVars
    BY <2>2 DEF coldVars, flowVars, vars, book, funds, pg, tables, cold, starters, notes
  <2> QED
    BY <2>1, <2>2
<1>2. Seeded /\ \A d \in Containers : SeedOk(d)
  BY <1>1 DEF ColdInv, SeedInv
<1>3. Grow /\ Kept'
  BY <1>1, <1>2, QuietGrows DEF ColdInv, book, funds, tables
<1>4. Seeded'
  BY <1>1, <1>2, <1>3, SeededKept DEF ColdInv
<1>5. \A d \in Containers : SeedOk(d)'
  BY <1>1, <1>2, <1>3, SeedFrame DEF ColdInv
<1> QED
  BY <1>4, <1>5

LEMMA SeedInvNext ==
    ASSUME ColdInv, [ColdNext]_coldVars
    PROVE  SeedInv'
  BY SeedContainer, SeedWipe, SeedQuiet DEF ColdNext

-------------------------------------------------------------------------------
(* reset_all, run by one container while all others are idle.              *)

ResetPre(c) == Shape /\ Tidy /\ calm = "reset" /\ ResetOk(c) /\ todo[c] # <<>>
ResetPost(c) == ResetOk(c)' /\ (restored' => Cleared')

LEMMA ResetAdvance ==
    ASSUME NEW c \in Containers, ResetPre(c),
           todo'[c] = Tail(todo[c]), rows'[c] = {},
           restored' => restored \/ Tail(todo[c]) = <<>>,
           OpenGtc' = {}, pgTrades' = {},
           Doing(c, "balances") => FundsDone',
           Doing(c, "clear") => Cleared'
    PROVE  ResetPost(c)
<1>1. /\ todo[c] \in ResetSteps /\ todo[c] # <<>> /\ ~restored
  BY DEF ResetPre, ResetOk, Idle
<1>2. /\ Task(todo[c]) \in {"none", "truncate", "credit", "balances", "clear"}
      /\ Task(todo[c]) # "none"
      /\ todo'[c] \in ResetSteps
      /\ Task(todo[c]) = "truncate" => Task(todo'[c]) = "credit"
      /\ Task(todo[c]) = "credit" => Task(todo'[c]) = "balances"
      /\ Task(todo[c]) = "balances" => Task(todo'[c]) = "clear"
      /\ Task(todo[c]) = "clear" => Task(todo'[c]) = "none"
  BY <1>1, ResetTasks
<1>3. Task(<<>>) = "none"
  BY DEF Task
<1>4. restored' => todo'[c] = <<>> /\ Doing(c, "clear")
  BY <1>1, <1>2, <1>3 DEF Doing
<1>5. FundsInHand(c)'
  BY DEF FundsInHand
<1>6. Doing(c, "clear")' => FundsDone'
  BY <1>2 DEF Doing
<1> QED
  BY <1>1, <1>2, <1>4, <1>5, <1>6 DEF ResetPost, ResetOk, Idle

LEMMA ResetStay ==
    ASSUME NEW c \in Containers, ResetPre(c), UNCHANGED <<todo, restored>>,
           OpenGtc' = {}, pgTrades' = {}, FundsInHand(c)', ~Doing(c, "clear")
    PROVE  ResetPost(c)
<1>1. todo[c] \in ResetSteps /\ ~restored
  BY DEF ResetPre, ResetOk, Idle
<1> QED
  BY <1>1 DEF ResetPost, ResetOk, Doing

LEMMA ResetTruncate ==
    ASSUME NEW c \in Containers, ResetPre(c), Truncate(c)
    PROVE  ResetPost(c)
<1>1. /\ row' = [o \in OrderIds |-> NoRow] /\ pgTrades' = {} /\ rows' = rows
      /\ Doing(c, "truncate") /\ Advance(c)
  BY AtTask DEF Truncate
<1>2. OpenGtc' = {}
  BY <1>1 DEF OpenGtc, Open, NoRow
<1>3. rows'[c] = {}
  BY <1>1, EmptyHanded DEF ResetPre, Doing
<1>4. todo'[c] = Tail(todo[c]) /\ (restored' => restored \/ Tail(todo[c]) = <<>>)
  BY <1>1, AdvanceFacts DEF ResetPre
<1>5. ~Doing(c, "balances") /\ ~Doing(c, "clear")
  BY <1>1 DEF Doing
<1> QED
  BY <1>1, <1>2, <1>3, <1>4, <1>5, ResetAdvance

LEMMA ResetCredit ==
    ASSUME NEW c \in Containers, ResetPre(c), StartCredit(c) \/ Credit(c)
    PROVE  ResetPost(c)
<1>1. /\ UNCHANGED <<order, row, pgTrades>>
      /\ Doing(c, "credit")
      /\ (\E k \in rows[c] : Written(c, k)) \/ Read(c, Users \X Assets)
  BY AtTask DEF StartCredit, Credit, flowVars, vars, pg, tables
<1>2. OpenGtc' = {} /\ pgTrades' = {}
  <2>1. OpenGtc' = OpenGtc
    BY <1>1 DEF OpenGtc
  <2> QED
    BY <1>1, <2>1 DEF ResetPre, ResetOk, Doing
<1>3. \/ rows'[c] # {} /\ UNCHANGED <<todo, restored>>
      \/ rows'[c] = {} /\ Advance(c)
  BY <1>1, WrittenFacts, ReadFacts DEF ResetPre
<1>4. ~Doing(c, "balances") /\ ~Doing(c, "clear")
  BY <1>1 DEF Doing
<1>5. CASE UNCHANGED <<todo, restored>>
  <2>1. FundsInHand(c)'
    BY <1>4, <1>5 DEF FundsInHand, Doing
  <2> QED
    BY <1>2, <1>4, <1>5, <2>1, ResetStay
<1>6. CASE rows'[c] = {} /\ Advance(c)
  <2>1. todo'[c] = Tail(todo[c]) /\ (restored' => restored \/ Tail(todo[c]) = <<>>)
    BY <1>6, AdvanceFacts DEF ResetPre
  <2> QED
    BY <1>2, <1>4, <1>6, <2>1, ResetAdvance
<1> QED
  BY <1>3, <1>5, <1>6

LEMMA ResetFunds ==
    ASSUME NEW c \in Containers, ResetPre(c), ReadBalances(c) \/ WriteBalance(c)
    PROVE  ResetPost(c)
<1>1. /\ UNCHANGED <<order, row, pgTrades, pgAvailable, pgLocked>>
      /\ Doing(c, "balances")
  BY AtTask DEF ReadBalances, WriteBalance, flowVars, vars, pg, tables
<1>2. OpenGtc' = {} /\ pgTrades' = {}
  <2>1. OpenGtc' = OpenGtc
    BY <1>1 DEF OpenGtc
  <2> QED
    BY <1>1, <2>1 DEF ResetPre, ResetOk, Doing
<1>3. /\ FundsInHand(c)'
      /\ \/ rows'[c] # {} /\ UNCHANGED <<todo, restored>>
         \/ rows'[c] = {} /\ Advance(c) /\ FundsDone'
  <2>1. CASE WriteBalance(c)
    BY <1>1, <2>1, BalanceWrite DEF ResetPre, ResetOk
  <2>2. CASE ReadBalances(c)
    <3>1. Read(c, AccountRows)
      BY <2>2 DEF ReadBalances
    <3>2. /\ rows'[c] = AccountRows
          /\ \/ rows'[c] # {} /\ UNCHANGED <<todo, restored>>
             \/ rows'[c] = {} /\ Advance(c)
      BY <3>1, ReadFacts DEF ResetPre
    <3> QED
      BY <1>1, <3>2, BalanceRead
  <2> QED
    BY <2>1, <2>2
<1>4. ~Doing(c, "clear")
  BY <1>1 DEF Doing
<1>5. CASE UNCHANGED <<todo, restored>>
  BY <1>2, <1>3, <1>4, <1>5, ResetStay
<1>6. CASE rows'[c] = {} /\ Advance(c) /\ FundsDone'
  <2>1. todo'[c] = Tail(todo[c]) /\ (restored' => restored \/ Tail(todo[c]) = <<>>)
    BY <1>6, AdvanceFacts DEF ResetPre
  <2> QED
    BY <1>2, <1>4, <1>6, <2>1, ResetAdvance
<1> QED
  BY <1>3, <1>5, <1>6

\* The DEL, and the DEL that fails unnoticed.
LEMMA ResetClear ==
    ASSUME NEW c \in Containers, ResetPre(c), Clear(c) \/ ClearFails(c)
    PROVE  ResetPost(c)
<1>1. /\ UNCHANGED <<order, row, pgTrades, pgAvailable, pgLocked, available, locked, rows, raised>>
      /\ Doing(c, "clear") /\ Advance(c)
      /\ unswept' \/ (zset' = [s \in Sides |-> {}] /\ ticker' = {})
  BY AtTask DEF Clear, ClearFails, flowVars, vars, funds, pg, tables, notes
<1>2. OpenGtc' = {} /\ pgTrades' = {}
  <2>1. OpenGtc' = OpenGtc
    BY <1>1 DEF OpenGtc
  <2> QED
    BY <1>1, <2>1 DEF ResetPre, ResetOk, Doing
<1>3. FundsDone'
  BY <1>1 DEF ResetPre, ResetOk, FundsDone, AccountDone, Near
<1>4. Cleared'
  BY <1>1, <1>2, <1>3 DEF Cleared
<1>5. rows'[c] = {}
  BY <1>1, EmptyHanded DEF ResetPre, Doing
<1>6. todo'[c] = Tail(todo[c]) /\ (restored' => restored \/ Tail(todo[c]) = <<>>)
  BY <1>1, AdvanceFacts DEF ResetPre
<1> QED
  BY <1>2, <1>3, <1>4, <1>5, <1>6, ResetAdvance

LEMMA ResetStart ==
    ASSUME Shape, Tidy, NEW c \in Containers, NEW p, Admin(c, p), calm' = "reset"
    PROVE  ResetInv'
<1>1. /\ todo' = [todo EXCEPT ![c] = ResetAll] /\ rows' = rows
      /\ \A d \in Containers : todo[d] = <<>>
      /\ restored' = FALSE
  BY DEF Admin, AllIdle, Idle
<1>2. \A d \in Containers : todo'[d] = IF d = c THEN ResetAll ELSE <<>>
  BY <1>1 DEF Shape
<1>3. \A d \in Containers : rows'[d] = {}
  BY <1>1, EmptyHanded DEF Task
<1>4. Task(<<>>) = "none"
  BY DEF Task
<1>5. \A d \in Containers : ResetOk(d)'
  BY <1>1, <1>2, <1>3, <1>4, ResetTasks DEF ResetOk, FundsInHand, Doing
<1>6. \A d, e \in Containers : todo'[d] = <<>> \/ todo'[e] = <<>> \/ d = e
  BY <1>2
<1> QED
  BY <1>1, <1>5, <1>6 DEF ResetInv, Idle

\* Nothing happened.
LEMMA ResetFrame ==
    ASSUME ResetInv, calm = "reset", UNCHANGED <<todo, rows, restored, ticker, raised, unswept>>,
           UNCHANGED <<order, zset, hash, available, locked, row, pgTrades, pgAvailable, pgLocked>>
    PROVE  ResetInv'
<1>1. /\ OpenGtc' = OpenGtc
      /\ \A r, u, a : RowOf(r, u, a)' <=> RowOf(r, u, a)
      /\ \A u, a : AccountDone(u, a)' <=> AccountDone(u, a)
      /\ FundsDone' <=> FundsDone
  BY DEF OpenGtc, RowOf, Near, AccountDone, FundsDone
<1>2. \A d \in Containers : ResetOk(d)'
  <2> SUFFICES ASSUME NEW d \in Containers PROVE ResetOk(d)'
    OBVIOUS
  <2>1. ResetOk(d)
    BY DEF ResetInv
  <2>2. \A t : Doing(d, t)' <=> Doing(d, t)
    BY DEF Doing
  <2>3. FundsInHand(d)'
    BY <1>1, <2>1, <2>2 DEF ResetOk, FundsInHand
  <2> QED
    BY <1>1, <2>1, <2>2, <2>3 DEF ResetOk, Idle
<1>3. Cleared => Cleared'
  BY <1>1 DEF Cleared
<1> QED
  BY <1>2, <1>3 DEF ResetInv, Idle

LEMMA ResetContainer ==
    ASSUME ColdInv, NEW c \in Containers, Seeding(c) \/ Administration(c) \/ Crash(c)
    PROVE  ResetInv'
<1> SUFFICES ASSUME calm' = "reset" PROVE ResetInv'
  BY DEF ResetInv
<1>1. ASSUME NEW p \in {ResetAll, TruncateOrders, ResetBalances}, Admin(c, p) PROVE ResetInv'
  BY <1>1, ResetStart DEF ColdInv
<1>2. CASE BootGateway(c) \/ BootBlind(c) \/ BootWorker(c) \/ Crash(c)
  <2>1. /\ UNCHANGED <<todo, rows, restored, ticker, raised, unswept, flowVars>> /\ calm = "reset"
    BY <1>2 DEF BootGateway, BootBlind, BootWorker, Crash, StillCalm, notes
  <2> QED
    BY <2>1, ResetFrame DEF ColdInv, flowVars, vars, book, funds, pg, tables
<1>3. CASE \/ ReadBalances(c) \/ ReadOrders(c) \/ SetPairs(c) \/ SetEmpty(c) \/ ReadTicker(c)
           \/ WriteTicker(c) \/ Serve(c) \/ WriteBalance(c) \/ AddOrder(c) \/ WriteOrder(c)
           \/ Truncate(c) \/ StartCredit(c) \/ Credit(c) \/ Clear(c) \/ ClearFails(c)
           \/ StartTopUp(c) \/ TopUp(c)
  <2>1. /\ calm = "reset" /\ \E t : At(c, t)
    BY <1>3 DEF ReadBalances, ReadOrders, SetPairs, SetEmpty, ReadTicker, WriteTicker, Serve,
                WriteBalance, AddOrder, WriteOrder, Truncate, StartCredit, Credit, Clear,
                ClearFails, StartTopUp, TopUp
  <2>2. todo[c] # <<>>
    BY <2>1, AtTask
  <2>3. /\ ResetPre(c)
        /\ \A d \in Containers \ {c} : todo[d] = <<>>
    BY <2>1, <2>2 DEF ResetPre, ColdInv, ResetInv, Idle
  <2>4. Task(todo[c]) \in {"truncate", "credit", "balances", "clear", "none"}
    BY <2>3, ResetTasks DEF ResetPre, ResetOk
  <2>5. /\ ~Doing(c, "orders") /\ ~Doing(c, "pairs") /\ ~Doing(c, "empty")
        /\ ~Doing(c, "ticker") /\ ~Doing(c, "serve") /\ ~Doing(c, "topup")
    BY <2>4 DEF Doing
  <2>6. \/ Truncate(c) \/ StartCredit(c) \/ Credit(c) \/ Clear(c) \/ ClearFails(c)
        \/ ReadBalances(c) \/ WriteBalance(c)
    BY <1>3, <2>5, AtTask DEF ReadOrders, SetPairs, SetEmpty, ReadTicker, WriteTicker, Serve,
                              AddOrder, WriteOrder, StartTopUp, TopUp
  <2>7. ResetPost(c)
    BY <2>3, <2>6, ResetTruncate, ResetCredit, ResetFunds, ResetClear
  <2>8. \A d \in Containers \ {c} : todo'[d] = <<>> /\ rows'[d] = {}
    <3>1. \A d \in Containers \ {c} : todo'[d] = todo[d] /\ rows'[d] = rows[d]
      BY Elsewhere DEF ColdInv
    <3>2. Tidy
      BY DEF ColdInv
    <3> QED
      BY <2>3, <3>1, <3>2, EmptyHanded DEF Task
  <2>9. \A d \in Containers \ {c} : ResetOk(d)'
    <3>1. Task(<<>>) = "none"
      BY DEF Task
    <3> QED
      BY <2>8, <3>1, ResetTasks DEF ResetOk, FundsInHand, Doing, Idle
  <2> QED
    BY <2>7, <2>8, <2>9 DEF ResetInv, ResetPost, Idle
<1> QED
  BY <1>1, <1>2, <1>3 DEF Seeding, Administration

LEMMA ResetInvNext ==
    ASSUME ColdInv, [ColdNext]_coldVars
    PROVE  ResetInv'
<1>1. CASE Trading \/ UNCHANGED coldVars
  <2> SUFFICES ASSUME calm' = "reset" PROVE ResetInv'
    BY DEF ResetInv
  <2>1. CASE Trading
    BY <2>1, StillWhileCalm, ResetFrame DEF ColdInv
  <2>2. CASE UNCHANGED coldVars
    BY <2>2, ResetFrame DEF ColdInv, coldVars, flowVars, vars, book, funds, pg, tables, cold, starters,
                                notes
  <2> QED
    BY <1>1, <2>1, <2>2
<1>2. CASE Wipe
  BY <1>2 DEF Wipe, ResetInv
<1> QED
  BY <1>1, <1>2, ResetContainer DEF ColdNext

LEMMA CalmsNext == Calms /\ [ColdNext]_coldVars => Calms'
<1> SUFFICES ASSUME Calms, [ColdNext]_coldVars PROVE Calms'
  OBVIOUS
<1>1. CASE Trading \/ Wipe \/ UNCHANGED coldVars
  BY <1>1 DEF Trading, Wipe, coldVars, cold, Calms
<1>2. ASSUME NEW c \in Containers, Seeding(c) \/ Administration(c) \/ Crash(c) PROVE Calms'
  <2>1. CASE BootGateway(c) \/ BootBlind(c) \/ BootWorker(c) \/ Crash(c)
    BY <2>1 DEF BootGateway, BootBlind, BootWorker, Crash, StillCalm, Calms
  <2>2. CASE \/ StartTopUp(c) \/ TopUp(c)
             \/ ReadBalances(c) \/ ReadOrders(c) \/ SetPairs(c) \/ SetEmpty(c) \/ ReadTicker(c)
             \/ WriteTicker(c) \/ Serve(c) \/ WriteBalance(c) \/ AddOrder(c) \/ WriteOrder(c)
    BY <2>2 DEF StartTopUp, TopUp, ReadBalances, ReadOrders, SetPairs, SetEmpty, ReadTicker, WriteTicker, Serve,
                WriteBalance, AddOrder, WriteOrder, Calms
  <2>3. CASE \/ Truncate(c) \/ StartCredit(c) \/ Credit(c) \/ Clear(c) \/ ClearFails(c)
             \/ \E p \in {ResetAll, TruncateOrders, ResetBalances} : Admin(c, p)
    BY <2>3 DEF Truncate, StartCredit, Credit, Clear, ClearFails, Admin, Calms
  <2> QED
    BY <1>2, <2>1, <2>2, <2>3 DEF Seeding, Administration
<1> QED
  BY <1>1, <1>2 DEF ColdNext

LEMMA ColdInvInit == ColdInit => ColdInv
<1> SUFFICES ASSUME ColdInit PROVE ColdInv
  OBVIOUS
<1>1. Shape
  BY InitialFundsAssumption DEF ColdInit, FlowInit, Init, TablesInit, Shape, Grid
<1>2. Tidy /\ Calms /\ SeedInv /\ ResetInv
  BY DEF ColdInit, Calms, Tidy, TidyAt, SeedInv, ResetInv
<1> QED
  BY <1>1, <1>2 DEF ColdInv

LEMMA ColdInvNext == ColdInv /\ [ColdNext]_coldVars => ColdInv'
  BY ShapeNext, TidyNext, CalmsNext, SeedInvNext, ResetInvNext DEF ColdInv

\* What is done is as in the tables.
LEMMA DoneIsTable ==
    /\ Shape /\ OrdersDone /\ OnlyOpen => BookIsTable
    /\ Shape /\ FundsDone => FundsAreTable
<1>1. ASSUME Shape, OrdersDone, OnlyOpen PROVE BookIsTable
  <2>1. \A o \in OpenGtc : o \in zset[order[o].side] /\ hash[o] = row[o]
    BY <1>1 DEF OrdersDone, OrderDone
  <2>2. \A s \in Sides : zset[s] = {o \in OpenGtc : order[o].side = s}
    BY <1>1, <2>1 DEF OnlyOpen
  <2> QED
    BY <2>1, <2>2 DEF BookIsTable
<1>2. ASSUME Shape, FundsDone PROVE FundsAreTable
  <2>1. /\ Grid(locked) /\ Grid(pgLocked)
        /\ \A u \in Users, a \in Assets :
             Near(u, a, available[u][a]) /\ locked[u][a] = pgLocked[u][a]
    BY <1>2 DEF Shape, FundsDone, AccountDone
  <2>2. locked = pgLocked
    BY <2>1 DEF Grid
  <2> QED
    BY <2>1, <2>2 DEF FundsAreTable, Near
<1> QED
  BY <1>1, <1>2

\* After Valkey was emptied, a seeding that has run to its end has rebuilt the
\* book, the balances and the ticker of the database, with the exception of the
\* balances that run_seed raised there in the meantime, which are behind; reset_all
\* leaves the same balances and, unless its DEL failed unnoticed, an empty book in
\* both stores: for every number of containers, started, dying and starting again
\* in any order.
THEOREM SeedingRestoresTables == ColdSpec => []RestoredIsTable
<1>1. ColdInv => RestoredIsTable
  <2> SUFFICES ASSUME ColdInv, calm # "", restored
               PROVE  FundsAreTable /\ (unswept \/ (BookIsTable /\ TickerIsTable))
    BY DEF RestoredIsTable
  <2>1. CASE calm = "wiped"
    <3>1. /\ OrdersDone /\ FundsDone /\ OnlyOpen
          /\ "worker" \in sentinel \/ ticker = pgTrades
      BY <2>1 DEF ColdInv, SeedInv, Seeded, OnlyOpen
    <3> QED
      BY <3>1, DoneIsTable DEF ColdInv, TickerIsTable
  <2>2. CASE calm = "reset"
    <3>1. Cleared
      BY <2>2 DEF ColdInv, ResetInv
    <3>2. FundsDone /\ (unswept \/ (OrdersDone /\ OnlyOpen /\ ticker = pgTrades))
      BY <3>1 DEF Cleared, OrdersDone, OnlyOpen
    <3> QED
      BY <3>2, DoneIsTable DEF ColdInv, TickerIsTable
  <2>3. calm \in {"wiped", "reset", ""}
    BY DEF ColdInv, Calms
  <2> QED
    BY <2>1, <2>2, <2>3
<1> QED
  BY <1>1, ColdInvInit, ColdInvNext, PTL DEF ColdSpec

\* A gateway that finds cache:pairs set by a gateway finds a complete book and
\* all balances, even if the one that set it has died; a balance is behind the
\* database only if a worker's run_seed raised it there.
THEOREM SkippingIsSafe == ColdSpec => []SkipIsSafe
<1>1. ColdInv => SkipIsSafe
  <2> SUFFICES ASSUME ColdInv, calm = "wiped", "gateway" \in sentinel
               PROVE  BookIsTable /\ FundsAreTable
    BY DEF SkipIsSafe
  <2>1. OrdersDone /\ FundsDone /\ OnlyOpen
    BY DEF ColdInv, SeedInv, Seeded, OnlyOpen
  <2> QED
    BY <2>1, DoneIsTable DEF ColdInv
<1> QED
  BY <1>1, ColdInvInit, ColdInvNext, PTL DEF ColdSpec

-------------------------------------------------------------------------------
(* No order trades more than its quantity after a restart.                 *)

\* A row that waits to be written back: its order was reported open, and what the
\* row has left is what the order has not traded.
Truthful(r) ==
    /\ r.id \in OrderIds
    /\ r.left \in HashType
    /\ reply[r.id].status \in {"N", "PF"}
    /\ filled[r.id] + r.left.remaining = order[r.id].qty

Pending(c) == Doing(c, "orders") /\ rows[c] # {}

\* Rows are truthful, and no script runs while they wait.
RowsTruthful ==
    \A c \in Containers :
        Pending(c) => pc = "idle" /\ \A r \in rows[c] : Truthful(r)

RefillInv == Shape /\ Tidy /\ (~lossy => FlowInv /\ RowsTruthful)

\* The book is refilled or emptied between two scripts.
LEMMA BookRefilled ==
    ASSUME BookInv, pc = "idle", UNCHANGED <<order, reply, history, script, dropping, sweep>>,
           version' \in Nat,
           zset' \in [Sides -> SUBSET OrderIds],
           hash' \in [OrderIds -> HashType],
           \A s \in Sides : \A o \in zset'[s] :
              order[o].side = s /\ reply[o].status \in {"N", "PF"},
           \A o \in OrderIds : hash'[o] = hash[o] \/ hash'[o].remaining = 0
              \/ (reply[o].status \in {"N", "PF"} /\ filled[o] + hash'[o].remaining = order[o].qty)
    PROVE  BookInv'
<1>1. UNCHANGED <<order, reply, filled, trades, pc, taker, cands, remaining, status, dropping,
                  sweepList, sweepGone, unanswered, cut>>
  BY DEF history, script, sweep
<1>2. BookType'
  BY <1>1 DEF BookInv, BookType
<1>3. \A o \in OrderIds : reply[o].status \in {"N", "PF"} => reply[o] # NotSubmitted
  BY DEF NotSubmitted
<1>4. MembersSubmitted'
  <2>1. \A s \in Sides : zset'[s] \subseteq OrderIds
    OBVIOUS
  <2> QED
    BY <1>1, <1>3, <2>1 DEF BookInv, Accounting, MembersSubmitted
<1>5. TakerIsNew' /\ OpenBook'
  BY <1>1 DEF TakerIsNew, OpenBook
<1>6. FillsAccounted'
  BY <1>1 DEF BookInv, Accounting, FillsAccounted
<1>7. TradesCounted' /\ \A o \in OrderIds : Reported(o)'
  <2>1. \A o \in OrderIds : TakenBy(o)' = TakenBy(o) /\ MadeBy(o)' = MadeBy(o)
    BY <1>1 DEF TakenBy, MadeBy
  <2>2. Taken' = Taken
    BY <1>1 DEF Taken, Submitted
  <2>3. TradesCounted'
    BY <1>1, <2>1, <2>2 DEF BookInv, TradesCounted
  <2>4. \A o \in OrderIds : Reported(o)'
    BY <1>1, <2>1 DEF BookInv, Reported
  <2> QED
    BY <2>3, <2>4
<1> QED
  BY <1>2, <1>4, <1>5, <1>6, <1>7 DEF BookInv, Accounting

LEMMA TablesKept ==
    ASSUME FlowInv, BookInv', UNCHANGED <<row, pgTrades, missed, phase, reply, trades>>
    PROVE  FlowInv'
<1>1. \A o \in OrderIds : Shown(o)' = Shown(o)
  BY DEF Shown
<1> QED
  BY <1>1 DEF FlowInv, TablesType, MissedForGood, RowTells

\* A row that shows all fills of its order tells what is left of it.
LEMMA UpToDateRow ==
    ASSUME FlowInv, Lagging = {}, NEW r \in OrderRows
    PROVE  Truthful(r)
<1>1. /\ r.id \in OrderIds /\ r.left = row[r.id]
      /\ Open(row[r.id]) /\ FillsNotInRow(r.id) = {}
  BY OrderRowFacts DEF OpenGtc, Lagging
<1> DEFINE o == r.id
<1>2. row[o] # NoRow
  <2>1. NoRow.status \notin {"N", "PF"}
    BY DEF NoRow
  <2> QED
    BY <1>1, <2>1 DEF Open
<1>3. BookInv /\ reply[o].status \in OrderStatuses /\ row[o] \in ReplyType
  BY <1>1, <1>2 DEF FlowInv, TablesType
<1>4. Shown(o) = {t \in trades : t.maker = o}
  BY <1>1 DEF Shown, FillsNotInRow, FlowInv, TablesType
<1>5. /\ row[o].remaining = reply[o].remaining - MadeBy(o)
      /\ row[o].status \in {"N", "PF"}
      /\ reply[o].status # "C"
      /\ row[o].remaining # 0
  <2>1. /\ row[o].remaining = reply[o].remaining - Units(Shown(o))
        /\ row[o].status = "C" <=> reply[o].status = "C"
        /\ row[o].status # "C" => (row[o].status = "F" <=> row[o].remaining = 0)
    BY <1>1, <1>2 DEF FlowInv, RowTells
  <2>2. row[o].status \in {"N", "PF"}
    BY <1>1 DEF Open
  <2>3. Units(Shown(o)) = MadeBy(o)
    BY <1>4 DEF MadeBy
  <2> QED
    BY <2>1, <2>2, <2>3
<1>6. /\ MadeBy(o) \in Nat /\ reply[o].remaining \in Nat
      /\ filled[o] = order[o].qty - reply[o].remaining + MadeBy(o)
  BY <1>1, <1>3, <1>5, MakerBound DEF OrderStatuses
<1>7. row[o].remaining \in Nat
  BY <1>3 DEF ReplyType
<1>8. reply[o].status # "F"
  <2> SUFFICES ASSUME reply[o].status = "F" PROVE FALSE
    OBVIOUS
  <2>1. reply[o].remaining = 0
    BY <1>1, <1>3 DEF BookInv, Reported
  <2> QED
    BY <1>5, <1>6, <1>7, <2>1
<1>9. order[o].qty \in Nat
  BY <1>1, <1>3, OrderFields DEF BookInv, BookType
<1>10. filled[o] + row[o].remaining = order[o].qty
  BY <1>5, <1>6, <1>7, <1>9
<1>11. row[o] \in HashType
  BY <1>3, <1>5, <1>7 DEF ReplyType, HashType
<1> QED
  BY <1>1, <1>3, <1>5, <1>8, <1>10, <1>11 DEF Truthful, OrderStatuses

\* The steps of the order path.
LEMMA RefillTrading ==
    ASSUME RefillInv, Trading, ~lossy'
    PROVE  FlowInv' /\ RowsTruthful'
<1>1. /\ FlowInv /\ RowsTruthful /\ UNCHANGED <<todo, rows>>
      /\ pc' = pc \/ ~\E c \in Containers : ~Idle(c) /\ Head(todo[c]) = "orders" /\ rows[c] # {}
  BY DEF RefillInv, Trading, starters
<1>2. pc' # pc => \A c \in Containers : ~Pending(c)
  BY <1>1 DEF Pending, Doing, Idle, Task
<1>3. BookInv /\ BookType /\ Accounting
  BY <1>1 DEF FlowInv, BookInv
<1>4. CASE Script /\ UNCHANGED <<clientKey, phase, pg, snap, cached>>
  <2>1. FlowInv' /\ [Next]_vars
    BY <1>1, <1>4, FlowInvScript DEF Next
  <2>2. CASE \E c \in Containers : Pending(c)
    <3>1. pc = "idle" /\ pc' = pc
      BY <1>1, <1>2, <2>2 DEF RowsTruthful
    <3>2. UNCHANGED <<order, filled>>
      BY <1>4, <3>1 DEF Script, Reject, Begin, Visit, SkipGhost, LeaveLoop, CancelMaker, Trade,
                        AtCandidate, Finish, history, script
    <3>3. \A o \in OrderIds : reply[o].status \in {"N", "PF"} => reply'[o] = reply[o]
      BY <1>3, <2>1, ReplyIsFinal DEF NotSubmitted
    <3>4. \A r : Truthful(r) => Truthful(r)'
      BY <3>2, <3>3 DEF Truthful
    <3>5. \A c \in Containers : Pending(c)' <=> Pending(c)
      BY <1>1 DEF Pending, Doing
    <3> QED
      BY <1>1, <2>1, <3>1, <3>4, <3>5 DEF RowsTruthful
  <2>3. CASE ~\E c \in Containers : Pending(c)
    <3>1. \A c \in Containers : Pending(c)' <=> Pending(c)
      BY <1>1 DEF Pending, Doing
    <3> QED
      BY <2>1, <2>3, <3>1 DEF RowsTruthful
  <2> QED
    BY <2>2, <2>3
<1>5. CASE \E o \in OrderIds : Persist(o) \/ PersistFails(o)
  <2>1. vars' = vars
    BY <1>5 DEF Persist, PersistFails
  <2>2. FlowInv'
    <3>1. ASSUME NEW o \in OrderIds, Persist(o) PROVE FlowInv'
      BY <1>1, <3>1, FlowInvPersist
    <3>2. ASSUME NEW o \in OrderIds, PersistFails(o) PROVE FlowInv'
      <4>1. phase' = [phase EXCEPT ![o] = "answered"] /\ UNCHANGED pg
        BY <3>2 DEF PersistFails
      <4>2. phase \in [OrderIds -> {"received", "persisted", "snapshot", "answered", "dead"}]
        BY <1>1 DEF FlowInv, TablesType
      <4>3. /\ phase' \in [OrderIds -> {"received", "persisted", "snapshot", "answered", "dead"}]
            /\ \A x \in OrderIds : phase[x] # "received" => phase'[x] # "received"
        BY <4>1, <4>2
      <4> QED
        BY <1>1, <2>1, <4>1, <4>3, FlowInvQuiet
    <3> QED
      BY <1>5, <3>1, <3>2
  <2>3. UNCHANGED <<pc, order, reply, filled>>
    BY <2>1 DEF vars, script, history
  <2>4. RowsTruthful'
    BY <1>1, <2>3 DEF RowsTruthful, Pending, Doing, Truthful
  <2> QED
    BY <2>2, <2>4
<1> QED
  BY <1>4, <1>5 DEF Trading

\* The steps of a container leave the history of the orders alone and never
\* happen inside a script.
LEMMA ContainerStep ==
    ASSUME NEW c \in Containers, Seeding(c) \/ Administration(c) \/ Crash(c)
    PROVE  /\ pc = "idle" /\ UNCHANGED <<order, reply, history, script, dropping, sweep, phase>>
           /\ lossy => lossy'
<1>1. CASE BootGateway(c) \/ BootBlind(c) \/ BootWorker(c) \/ Crash(c)
  BY <1>1 DEF BootGateway, BootBlind, BootWorker, Crash, flowVars, vars, notes
<1>2. CASE \/ ReadBalances(c) \/ SetPairs(c) \/ ReadTicker(c) \/ WriteTicker(c) \/ Serve(c)
           \/ StartCredit(c) \/ StartTopUp(c) \/ ClearFails(c)
  <2>1. pc = "idle" /\ UNCHANGED <<flowVars, lossy>>
    BY <1>2 DEF ReadBalances, SetPairs, ReadTicker, WriteTicker, Serve, StartCredit, StartTopUp,
                ClearFails, At, notes
  <2> QED
    BY <2>1 DEF flowVars, vars
<1>3. CASE SetEmpty(c) \/ WriteBalance(c) \/ AddOrder(c) \/ WriteOrder(c)
  BY <1>3 DEF SetEmpty, WriteBalance, AddOrder, WriteOrder, At, vars, notes
<1>4. CASE Truncate(c) \/ Credit(c) \/ Clear(c) \/ TopUp(c)
  BY <1>4 DEF Truncate, Credit, Clear, TopUp, At, vars, notes
<1>5. CASE \E p \in {ResetAll, TruncateOrders, ResetBalances} : Admin(c, p)
  <2>1. pc = "idle" /\ UNCHANGED <<flowVars, lossy>>
    BY <1>5 DEF Admin
  <2> QED
    BY <2>1 DEF flowVars, vars
<1>6. CASE ReadOrders(c)
  <2>1. pc = "idle" /\ UNCHANGED flowVars /\ (lossy => lossy')
    BY <1>6, Zenon DEF ReadOrders, At
  <2> QED
    BY <2>1 DEF flowVars, vars
<1> QED
  BY <1>1, <1>2, <1>3, <1>4, <1>5, <1>6 DEF Seeding, Administration

\* Only the SELECT of the orders adds rows that wait.
LEMMA PendingKept ==
    ASSUME Shape, Tidy, NEW c \in Containers, Seeding(c) \/ Administration(c) \/ Crash(c),
           ~ReadOrders(c)
    PROVE  Pending(c)' => Pending(c) /\ rows'[c] \subseteq rows[c]
<1> SUFFICES ASSUME Pending(c)' PROVE Pending(c) /\ rows'[c] \subseteq rows[c]
  OBVIOUS
<1>0. rows'[c] # {} /\ Task(todo'[c]) = "orders"
  BY DEF Pending, Doing
<1>1. CASE \/ BootGateway(c) \/ BootBlind(c) \/ BootWorker(c)
           \/ \E p \in {ResetAll, TruncateOrders, ResetBalances} : Admin(c, p)
  <2>1. Idle(c) /\ rows' = rows
    BY <1>1 DEF BootGateway, BootBlind, BootWorker, Admin
  <2> QED
    BY <1>0, <2>1, EmptyHanded DEF Idle, Task
<1>2. CASE SetPairs(c) \/ SetEmpty(c) \/ Serve(c) \/ Truncate(c) \/ Clear(c) \/ ClearFails(c)
  <2>1. /\ At(c, "pairs") \/ At(c, "empty") \/ At(c, "serve") \/ At(c, "truncate") \/ At(c, "clear")
        /\ rows' = rows
    BY <1>2 DEF SetPairs, SetEmpty, Serve, Truncate, Clear, ClearFails
  <2> QED
    BY <1>0, <2>1, EmptyHanded, AtTask DEF Doing
<1>3. CASE ReadBalances(c) \/ StartCredit(c) \/ StartTopUp(c)
  <2>1. (At(c, "balances") \/ At(c, "credit") \/ At(c, "topup")) /\ \E r : Read(c, r)
    BY <1>3 DEF ReadBalances, StartCredit, StartTopUp
  <2>2. todo' = todo
    BY <1>0, <2>1, ReadFacts
  <2> QED
    BY <1>0, <2>1, <2>2, AtTask DEF Doing
<1>4. CASE ReadTicker(c)
  BY <1>0, <1>4, AtTask DEF ReadTicker, Doing
<1>5. CASE WriteBalance(c) \/ Credit(c) \/ TopUp(c)
  <2>1. /\ At(c, "balances") \/ At(c, "credit") \/ At(c, "topup")
        /\ \E r \in rows[c] : Written(c, r)
    BY <1>5 DEF WriteBalance, Credit, TopUp
  <2>2. todo' = todo
    BY <1>0, <2>1, WrittenFacts
  <2> QED
    BY <1>0, <2>1, <2>2, AtTask DEF Doing
<1>6. CASE WriteOrder(c)
  <2>1. At(c, "orders") /\ \E r \in rows[c] : Written(c, r)
    BY <1>6 DEF WriteOrder
  <2>2. rows'[c] \subseteq rows[c]
    BY <2>1, WrittenFacts
  <2> QED
    BY <2>1, <2>2, AtTask DEF Pending
<1>7. CASE AddOrder(c)
  BY <1>7 DEF AddOrder, Pending, Doing
<1>8. CASE WriteTicker(c) \/ Crash(c)
  BY <1>0, <1>8 DEF WriteTicker, Crash, Shape
<1> QED
  BY <1>1, <1>2, <1>3, <1>4, <1>5, <1>6, <1>7, <1>8 DEF Seeding, Administration

LEMMA RefillRows ==
    ASSUME RefillInv, NEW c \in Containers, Seeding(c) \/ Administration(c) \/ Crash(c), ~lossy'
    PROVE  RowsTruthful'
<1>1. /\ pc = "idle" /\ UNCHANGED <<order, reply, filled, pc>> /\ ~lossy
  BY ContainerStep DEF history, script
<1>2. FlowInv /\ RowsTruthful /\ Shape /\ Tidy
  BY <1>1 DEF RefillInv
<1>3. \A r : Truthful(r)' <=> Truthful(r)
  BY <1>1 DEF Truthful
<1>4. ASSUME NEW d \in Containers \ {c}, Pending(d)' PROVE \A r \in rows'[d] : Truthful(r)
  <2>1. todo'[d] = todo[d] /\ rows'[d] = rows[d]
    BY <1>2, Elsewhere
  <2>2. Pending(d)
    BY <1>4, <2>1 DEF Pending, Doing
  <2> QED
    BY <1>2, <2>1, <2>2 DEF RowsTruthful
<1>5. ASSUME Pending(c)' PROVE \A r \in rows'[c] : Truthful(r)
  <2>1. CASE ReadOrders(c)
    <3>1. Lagging = {}
      BY <2>1, Zenon DEF ReadOrders
    <3>2. rows'[c] = OrderRows
      BY <1>2, <2>1, ReadFacts DEF ReadOrders
    <3> QED
      BY <1>2, <3>1, <3>2, UpToDateRow
  <2>2. CASE ~ReadOrders(c)
    <3>1. Pending(c) /\ rows'[c] \subseteq rows[c]
      BY <1>2, <1>5, <2>2, PendingKept
    <3> QED
      BY <1>2, <3>1 DEF RowsTruthful
  <2> QED
    BY <2>1, <2>2
<1> QED
  BY <1>1, <1>3, <1>4, <1>5 DEF RowsTruthful

LEMMA RefillStores ==
    ASSUME RefillInv, NEW c \in Containers, Seeding(c) \/ Administration(c) \/ Crash(c), ~lossy'
    PROVE  FlowInv'
<1>1. /\ pc = "idle" /\ UNCHANGED <<order, reply, history, script, dropping, sweep, phase>> /\ ~lossy
  BY ContainerStep
<1>2. FlowInv /\ BookInv /\ RowsTruthful /\ Shape /\ Tidy
  BY <1>1 DEF RefillInv, FlowInv
<1>3. /\ order \in [OrderIds -> Requests] /\ version \in Nat
      /\ zset \in [Sides -> SUBSET OrderIds] /\ hash \in [OrderIds -> HashType]
      /\ \A s \in Sides : \A o \in zset[s] :
            order[o].side = s /\ reply[o].status \in {"N", "PF"}
  BY <1>2 DEF BookInv, BookType, OpenBook, Accounting, MembersSubmitted
<1>4. ASSUME BookInv', UNCHANGED <<row, pgTrades, missed>> PROVE FlowInv'
  BY <1>1, <1>2, <1>4, TablesKept DEF history
<1>5. ASSUME UNCHANGED <<zset, hash, version>> PROVE BookInv'
  BY <1>1, <1>2, <1>3, <1>5, BookRefilled
<1>6. CASE \/ BootGateway(c) \/ BootBlind(c) \/ BootWorker(c) \/ Crash(c)
           \/ ReadBalances(c) \/ ReadOrders(c) \/ SetPairs(c) \/ ReadTicker(c) \/ WriteTicker(c)
           \/ Serve(c) \/ StartCredit(c) \/ StartTopUp(c) \/ ClearFails(c)
           \/ \E p \in {ResetAll, TruncateOrders, ResetBalances} : Admin(c, p)
  <2>1. UNCHANGED flowVars
    BY <1>6 DEF BootGateway, BootBlind, BootWorker, Crash, ReadBalances, ReadOrders, SetPairs,
                ReadTicker, WriteTicker, Serve, StartCredit, StartTopUp, ClearFails, Admin
  <2> QED
    BY <1>4, <1>5, <2>1 DEF flowVars, vars, book, pg, tables
<1>7. CASE SetEmpty(c) \/ WriteBalance(c) \/ Credit(c) \/ TopUp(c)
  <2>1. UNCHANGED <<zset, hash, version, row, pgTrades, missed>>
    BY <1>7 DEF SetEmpty, WriteBalance, Credit, TopUp, vars, book, pg, tables
  <2> QED
    BY <1>4, <1>5, <2>1
<1>8. CASE Truncate(c)
  <2>1. /\ row' = [o \in OrderIds |-> NoRow] /\ pgTrades' = {} /\ missed' = {}
        /\ UNCHANGED <<zset, hash, version>>
    BY <1>8 DEF Truncate, vars, book
  <2>2. BookInv'
    BY <1>5, <2>1
  <2>3. phase' \in [OrderIds -> {"received", "persisted", "snapshot", "answered", "dead"}]
    BY <1>1, <1>2 DEF FlowInv, TablesType
  <2> QED
    BY <2>1, <2>2, <2>3 DEF FlowInv, TablesType, MissedForGood, RowTells
<1>9. CASE Clear(c)
  <2>1. /\ zset' = [s \in Sides |-> {}] /\ version' = 0
        /\ UNCHANGED <<hash, row, pgTrades, missed>>
    BY <1>9 DEF Clear, pg, tables
  <2>2. BookInv'
    BY <1>1, <1>2, <1>3, <2>1, BookRefilled
  <2> QED
    BY <1>4, <2>1, <2>2
<1>10. CASE AddOrder(c)
  <2>1. /\ UNCHANGED <<hash, version, row, pgTrades, missed>> /\ Doing(c, "orders")
    BY <1>10, AtTask DEF AddOrder, pg, tables
  <2>2. PICK r \in rows[c] : zset' = [zset EXCEPT ![order[r.id].side] = @ \cup {r.id}]
    BY <1>10 DEF AddOrder
  <2>3. Truthful(r)
    BY <1>2, <2>1 DEF RowsTruthful, Pending
  <2>4. /\ r.id \in OrderIds /\ order[r.id].side \in Sides
        /\ reply[r.id].status \in {"N", "PF"}
    BY <1>2, <2>3, SideOf DEF Truthful
  <2>5. \A s \in Sides : zset'[s] = IF s = order[r.id].side THEN zset[s] \cup {r.id} ELSE zset[s]
    BY <1>3, <2>2, <2>4
  <2>6. zset' \in [Sides -> SUBSET OrderIds]
    BY <1>3, <2>2, <2>4
  <2>7. \A s \in Sides : \A o \in zset'[s] : order[o].side = s /\ reply[o].status \in {"N", "PF"}
    <3> SUFFICES ASSUME NEW s \in Sides, NEW o \in zset'[s]
                 PROVE  order[o].side = s /\ reply[o].status \in {"N", "PF"}
      OBVIOUS
    <3>1. o \in zset[s] \/ (s = order[r.id].side /\ o = r.id)
      BY <2>5
    <3> QED
      BY <1>3, <2>4, <3>1
  <2>8. BookInv'
    BY <1>1, <1>2, <1>3, <2>1, <2>6, <2>7, BookRefilled
  <2> QED
    BY <1>4, <2>1, <2>8
<1>11. CASE WriteOrder(c)
  <2>1. /\ UNCHANGED <<zset, version, row, pgTrades, missed>> /\ Doing(c, "orders")
    BY <1>11, AtTask DEF WriteOrder, pg, tables
  <2>2. PICK r \in rows[c] : hash' = [hash EXCEPT ![r.id] = r.left]
    BY <1>11 DEF WriteOrder
  <2>3. Truthful(r)
    BY <1>2, <2>1 DEF RowsTruthful, Pending
  <2>4. hash' \in [OrderIds -> HashType]
    BY <1>3, <2>2, <2>3 DEF Truthful
  <2>5. \A o \in OrderIds : hash'[o] = hash[o] \/ (o = r.id /\ hash'[o] = r.left)
    BY <1>3, <2>2
  <2>6. \A o \in OrderIds : hash'[o] = hash[o]
          \/ (reply[o].status \in {"N", "PF"} /\ filled[o] + hash'[o].remaining = order[o].qty)
    BY <2>3, <2>5 DEF Truthful
  <2>7. BookInv'
    BY <1>1, <1>2, <1>3, <2>1, <2>4, <2>6, BookRefilled
  <2> QED
    BY <1>4, <2>1, <2>7
<1> QED
  BY <1>6, <1>7, <1>8, <1>9, <1>10, <1>11 DEF Seeding, Administration

LEMMA RefillWipe ==
    ASSUME RefillInv, Wipe, ~lossy'
    PROVE  FlowInv' /\ RowsTruthful'
<1>1. /\ pc = "idle" /\ UNCHANGED <<order, reply, history, script, dropping, sweep, phase, pg>>
      /\ UNCHANGED <<todo, rows, lossy>>
      /\ zset' = [s \in Sides |-> {}] /\ hash' = [o \in OrderIds |-> NoHash] /\ version' = 0
  BY DEF Wipe, starters
<1>2. FlowInv /\ BookInv /\ RowsTruthful
  BY <1>1 DEF RefillInv, FlowInv
<1>3. /\ zset' \in [Sides -> SUBSET OrderIds] /\ hash' \in [OrderIds -> HashType]
      /\ \A o \in OrderIds : hash'[o].remaining = 0
      /\ \A s \in Sides : zset'[s] = {}
  BY <1>1, NoHashType
<1>4. BookInv'
  BY <1>1, <1>2, <1>3, BookRefilled
<1>5. FlowInv'
  BY <1>1, <1>2, <1>4, TablesKept DEF history, pg, tables
<1>6. UNCHANGED <<pc, order, reply, filled>>
  BY <1>1 DEF script, history
<1>7. RowsTruthful'
  BY <1>1, <1>2, <1>6 DEF RowsTruthful, Pending, Doing, Truthful
<1> QED
  BY <1>5, <1>7

LEMMA RefillInvNext == RefillInv /\ [ColdNext]_coldVars => RefillInv'
<1> SUFFICES ASSUME RefillInv, [ColdNext]_coldVars PROVE RefillInv'
  OBVIOUS
<1>1. Shape' /\ Tidy'
  BY ShapeNext, TidyNext DEF RefillInv
<1>2. ASSUME ~lossy' PROVE FlowInv' /\ RowsTruthful'
  <2>1. CASE UNCHANGED coldVars
    <3>1. UNCHANGED <<vars, phase, pg, todo, rows, lossy>>
      BY <2>1 DEF coldVars, flowVars, cold, starters, notes
    <3>2. FlowInv /\ RowsTruthful
      BY <1>2, <3>1 DEF RefillInv
    <3>3. FlowInv'
      BY <3>1, <3>2, FlowInvScript
    <3>4. UNCHANGED <<pc, order, reply, filled>>
      BY <3>1 DEF vars, script, history
    <3>5. RowsTruthful'
      BY <3>1, <3>2, <3>4 DEF RowsTruthful, Pending, Doing, Truthful
    <3> QED
      BY <3>3, <3>5
  <2>2. CASE Trading
    BY <1>2, <2>2, RefillTrading
  <2>3. CASE Wipe
    BY <1>2, <2>3, RefillWipe
  <2>4. CASE \E c \in Containers : Seeding(c) \/ Administration(c) \/ Crash(c)
    BY <1>2, <2>4, RefillStores, RefillRows
  <2> QED
    BY <2>1, <2>2, <2>3, <2>4 DEF ColdNext
<1> QED
  BY <1>1, <1>2 DEF RefillInv

\* However often containers seed, die and start again, Valkey is emptied and admin
\* commands run next to the order path: as long as no seeding read rows that
\* lacked fills and no script ran between its SELECT and its writes, no order
\* trades more than its quantity.
THEOREM RestartsNeverOverfill == ColdSpec => []RestartNeverOverfills
<1>1. ColdInit => RefillInv
  <2> SUFFICES ASSUME ColdInit PROVE RefillInv
    OBVIOUS
  <2>1. Shape /\ Tidy
    BY ColdInvInit DEF ColdInv
  <2>2. FlowInv
    BY FlowInvInit DEF ColdInit
  <2>3. RowsTruthful
    BY DEF ColdInit, RowsTruthful, Pending
  <2> QED
    BY <2>1, <2>2, <2>3 DEF RefillInv
<1>2. RefillInv => RestartNeverOverfills
  <2> SUFFICES ASSUME RefillInv, ~lossy, NEW o \in OrderIds
               PROVE  filled[o] + Left(o) <= order[o].qty
    BY DEF RestartNeverOverfills
  <2>1. BookType /\ Accounting
    BY DEF RefillInv, FlowInv, BookInv
  <2> QED
    BY <2>1, AccountingImplies DEF QuantityAccounted
<1> QED
  BY <1>1, <1>2, RefillInvNext, PTL DEF ColdSpec
===============================================================================
