------------------------------- MODULE ColdStart -------------------------------
(***************************************************************************)
(* How Valkey is filled from PostgreSQL and emptied again.  A gateway      *)
(* container seeds when it finds no cache:pairs (get_state), the worker    *)
(* process always does, in another order (main of the api crate), and the  *)
(* admin commands truncate_orders, reset_all and reset_balances rewrite    *)
(* both stores.  Each of these is a program: a sequence of tasks, each task*)
(* a SELECT or a list of commands that are sent one by one.  Programs of   *)
(* several containers run at the same time and next to the order path of   *)
(* OrderFlow; a container may die, Valkey may lose all its data.           *)
(*                                                                         *)
(* Once a match is in the database this module is done with it: publishing *)
(* the book is in OrderFlow and CacheFeed.  state:reset_version is written *)
(* and read but never compared, and is left out.                           *)
(***************************************************************************)
EXTENDS OrderFlow, Sequences

CONSTANTS
    Gateways,   \* gateway containers
    Workers,    \* worker processes
    SeedFunds,  \* what run_seed raises each account to; 0 for those it does not touch
    MaxEvents,  \* bound: losses of Valkey's data and admin commands
    MaxCrashes  \* bound: containers that die, probes that fail

ASSUME ColdAssumption ==
    /\ Gateways \cap Workers = {}
    /\ SeedFunds \in [Users -> [Assets -> Nat]]
    /\ {MaxEvents, MaxCrashes} \subseteq Nat

VARIABLES
    up,         \* containers that serve orders
    todo,       \* todo[c]: tasks c still has to do, the running one first
    rows,       \* rows[c]: what the running task has read and not yet written
    adding,     \* adding[c]: c is between ZADD and HSET of save_order_to_book
    sentinel,   \* who has set cache:pairs; empty if the key is missing
    ticker,     \* the trades that cache:ticker:{pair} summarises
    calm,       \* history: nothing but seeding since Valkey was "wiped", nothing
                \* at all since a "reset" began; "" otherwise
    restored,   \* history: a seeding or reset_all has run to its end since then
    lossy,      \* history: the database a seeding read was behind the book
    raised,     \* history: accounts that run_seed has raised in the database since
    unswept,    \* history: the DEL of an admin command since then has failed
    events, crashes

starters == <<up, todo, rows, adding>>
notes == <<lossy, raised, unswept>>
cold == <<starters, sentinel, ticker, calm, restored, notes, events, crashes>>
coldVars == <<flowVars, cold>>

Containers == Gateways \cup Workers

\* Faulty variant: the sentinel is set first.
GatewayProgramEarly == <<"pairs", "balances", "orders", "ticker">>

GatewayProgram == <<"balances", "orders", "pairs", "ticker">>
WorkerProgram == <<"topup", "pairs", "empty", "orders", "ticker", "serve", "balances">>
ResetAll == <<"truncate", "credit", "balances", "clear">>
TruncateOrders == <<"truncate", "clear">>
ResetBalances == <<"credit", "balances">>

Idle(c) == todo[c] = <<>>
AllIdle == \A c \in Containers : Idle(c)
At(c, t) == pc = "idle" /\ ~Idle(c) /\ Head(todo[c]) = t

\* The rows of table balances.
AccountRows ==
    {[account |-> <<u, a>>, available |-> pgAvailable[u][a], locked |-> pgLocked[u][a]] :
       u \in Users, a \in Assets}

\* What seed_orderbook_from_pg selects, and those of it whose row lags behind.
OpenGtc == {o \in OrderIds : Open(row[o]) /\ order[o].tif = "G"}
Lagging == {o \in OpenGtc : FillsNotInRow(o) # {}}
OrderRows == {[id |-> o, left |-> row[o]] : o \in OpenGtc}

\* The orders are written back by age, the balances in no particular order.
Oldest(c, r) == r \in rows[c] /\ \A x \in rows[c] : r.id <= x.id

-------------------------------------------------------------------------------
\* A system in use; Lambda has any of its containers running, or none.
ColdInit ==
    /\ FlowInit
    /\ up \in SUBSET Gateways
    /\ todo = [c \in Containers |-> <<>>]
    /\ rows = [c \in Containers |-> {}]
    /\ adding = [c \in Containers |-> FALSE]
    /\ sentinel = {"gateway"}
    /\ ticker = {}
    /\ calm = "" /\ restored = FALSE
    /\ lossy = FALSE /\ raised = {} /\ unswept = FALSE
    /\ events = 0 /\ crashes = 0

\* The running task is over; the last task of a seeding or of reset_all is noted.
Advance(c) ==
    /\ todo' = [todo EXCEPT ![c] = Tail(@)]
    /\ up' = IF Tail(todo[c]) = <<>> THEN up \cup {c} ELSE up
    /\ restored' = (restored \/ (calm # "" /\ Tail(todo[c]) = <<>>))

\* One of the rows is written; with the last one the task is over.
Written(c, r) ==
    /\ rows' = [rows EXCEPT ![c] = @ \ {r}]
    /\ IF rows[c] = {r} THEN Advance(c) ELSE UNCHANGED <<todo, up, restored>>

Read(c, result) ==
    /\ rows' = [rows EXCEPT ![c] = result]
    /\ IF result = {} THEN Advance(c) ELSE UNCHANGED <<todo, up, restored>>

-------------------------------------------------------------------------------
\* A reset is disturbed by a seeding, which may write back the rows of before,
\* and by the death of the container that runs it.
StillCalm == calm' = IF calm = "wiped" THEN "wiped" ELSE ""

\* A gateway container starts: EXISTS cache:pairs.
BootGateway(c) ==
    /\ c \in Gateways \ up /\ pc = "idle" /\ Idle(c)
    /\ IF sentinel # {}
       THEN up' = up \cup {c} /\ UNCHANGED <<todo, calm>>
       ELSE todo' = [todo EXCEPT ![c] = GatewayProgram] /\ StillCalm /\ UNCHANGED up
    /\ UNCHANGED <<flowVars, rows, adding, sentinel, ticker, restored, notes, events, crashes>>

\* The EXISTS fails and counts as "no": the container seeds a book in use.
BootBlind(c) ==
    /\ c \in Gateways \ up /\ pc = "idle" /\ Idle(c)
    /\ crashes < MaxCrashes
    /\ crashes' = crashes + 1
    /\ todo' = [todo EXCEPT ![c] = GatewayProgram]
    /\ StillCalm
    /\ UNCHANGED <<flowVars, up, rows, adding, sentinel, ticker, restored, notes, events>>

BootWorker(c) ==
    /\ c \in Workers \ up /\ pc = "idle" /\ Idle(c)
    /\ todo' = [todo EXCEPT ![c] = WorkerProgram]
    /\ StillCalm
    /\ UNCHANGED <<flowVars, up, rows, adding, sentinel, ticker, restored, notes, events, crashes>>

\* run_seed: one INSERT ... ON CONFLICT DO UPDATE SET available =
\* GREATEST(available, seed) per user and asset, at every start of a worker.
StartTopUp(c) ==
    /\ At(c, "topup") /\ rows[c] = {}
    /\ Read(c, Users \X Assets)
    /\ UNCHANGED <<flowVars, adding, sentinel, ticker, calm, notes, events, crashes>>

TopUp(c) ==
    /\ At(c, "topup")
    /\ \E k \in rows[c] :
          /\ IF SeedFunds[k[1]][k[2]] > pgAvailable[k[1]][k[2]]
             THEN /\ pgAvailable' = [pgAvailable EXCEPT ![k[1]][k[2]] = SeedFunds[k[1]][k[2]]]
                  /\ raised' = raised \cup {k}
             ELSE UNCHANGED <<pgAvailable, raised>>
          /\ Written(c, k)
    /\ UNCHANGED <<vars, clientKey, phase, row, pgTrades, pgLocked, missed, snap, cached, adding,
                   sentinel, ticker, calm, lossy, unswept, events, crashes>>

\* init_balances_from_pg: SELECT, then one HSET per row.
ReadBalances(c) ==
    /\ At(c, "balances") /\ rows[c] = {}
    /\ Read(c, AccountRows)
    /\ UNCHANGED <<flowVars, adding, sentinel, ticker, calm, notes, events, crashes>>

WriteBalance(c) ==
    /\ At(c, "balances")
    /\ \E r \in rows[c] :
          /\ available' = [available EXCEPT ![r.account[1]][r.account[2]] = r.available]
          /\ locked' = [locked EXCEPT ![r.account[1]][r.account[2]] = r.locked]
          /\ Written(c, r)
    /\ UNCHANGED <<order, book, version, reply, history, script, dropping, sweep, clientKey, phase,
                   pg, snap, cached, adding, sentinel, ticker, calm, notes, events, crashes>>

\* seed_orderbook_from_pg: SELECT the open GTC orders.
ReadOrders(c) ==
    /\ At(c, "orders") /\ rows[c] = {}
    /\ Read(c, OrderRows)
    /\ lossy' = (lossy \/ Lagging # {})
    /\ UNCHANGED <<flowVars, adding, sentinel, ticker, calm, raised, unswept, events, crashes>>

\* save_order_to_book: ZADD and HSET in a pipeline.
AddOrder(c) ==
    /\ At(c, "orders") /\ ~adding[c]
    /\ \E r \in rows[c] :
          /\ Oldest(c, r)
          /\ zset' = [zset EXCEPT ![order[r.id].side] = @ \cup {r.id}]
    /\ adding' = [adding EXCEPT ![c] = TRUE]
    /\ UNCHANGED <<order, hash, funds, version, reply, history, script, dropping, sweep, clientKey,
                   phase, pg, snap, cached, up, todo, rows, sentinel, ticker, calm, restored, notes,
                   events, crashes>>

\* Faulty variant: the whole quantity is put on the book.
WriteOrderFull(c) ==
    /\ At(c, "orders") /\ adding[c]
    /\ \E r \in rows[c] :
          /\ Oldest(c, r)
          /\ hash' = [hash EXCEPT ![r.id] = [r.left EXCEPT !.remaining = order[r.id].qty]]
          /\ Written(c, r)
    /\ adding' = [adding EXCEPT ![c] = FALSE]
    /\ UNCHANGED <<order, zset, funds, version, reply, history, script, dropping, sweep, clientKey,
                   phase, pg, snap, cached, sentinel, ticker, calm, notes, events, crashes>>

WriteOrder(c) ==
    /\ At(c, "orders") /\ adding[c]
    /\ \E r \in rows[c] :
          /\ Oldest(c, r)
          /\ hash' = [hash EXCEPT ![r.id] = r.left]
          /\ Written(c, r)
    /\ adding' = [adding EXCEPT ![c] = FALSE]
    /\ UNCHANGED <<order, zset, funds, version, reply, history, script, dropping, sweep, clientKey,
                   phase, pg, snap, cached, sentinel, ticker, calm, notes, events, crashes>>

\* seed_pairs_cache: from now on other gateways skip the seeding.
SetPairs(c) ==
    /\ At(c, "pairs")
    /\ sentinel' = sentinel \cup {IF c \in Gateways THEN "gateway" ELSE "worker"}
    /\ Advance(c)
    /\ UNCHANGED <<flowVars, rows, adding, ticker, calm, notes, events, crashes>>

\* initialize_cache_keys: SET of empty caches.
SetEmpty(c) ==
    /\ At(c, "empty")
    /\ cached' = {}
    /\ ticker' = {}
    /\ Advance(c)
    /\ UNCHANGED <<vars, clientKey, phase, pg, snap, rows, adding, sentinel, calm, notes, events,
                   crashes>>

\* seed_ticker_from_pg: the queries, then SET.
ReadTicker(c) ==
    /\ At(c, "ticker") /\ rows[c] = {}
    /\ rows' = [rows EXCEPT ![c] = {pgTrades}]
    /\ UNCHANGED <<flowVars, up, todo, adding, sentinel, ticker, calm, restored, notes, events, crashes>>

WriteTicker(c) ==
    /\ At(c, "ticker")
    /\ ticker' \in rows[c]
    /\ rows' = [rows EXCEPT ![c] = {}]
    /\ Advance(c)
    /\ UNCHANGED <<flowVars, adding, sentinel, calm, notes, events, crashes>>

\* The consumers are spawned; main goes on to the balances.
Serve(c) ==
    /\ At(c, "serve")
    /\ todo' = [todo EXCEPT ![c] = Tail(@)]
    /\ up' = up \cup {c}
    /\ UNCHANGED <<flowVars, rows, adding, sentinel, ticker, calm, restored, notes, events, crashes>>

-------------------------------------------------------------------------------
\* internal_manage: a container that is up runs an admin command.  After
\* reset_all nothing of the old state should be left.
Admin(c, program) ==
    /\ c \in Gateways \cap up /\ pc = "idle" /\ Idle(c)
    /\ events < MaxEvents
    /\ events' = events + 1
    /\ todo' = [todo EXCEPT ![c] = program]
    /\ calm' = IF program = ResetAll /\ AllIdle THEN "reset" ELSE ""
    /\ restored' = FALSE /\ raised' = {} /\ unswept' = FALSE
    /\ UNCHANGED <<flowVars, up, rows, adding, sentinel, ticker, lossy, crashes>>

\* TRUNCATE orders CASCADE takes the trades along.
Truncate(c) ==
    /\ At(c, "truncate")
    /\ row' = [o \in OrderIds |-> NoRow]
    /\ pgTrades' = {}
    /\ missed' = {}
    /\ Advance(c)
    /\ UNCHANGED <<vars, clientKey, phase, pgAvailable, pgLocked, snap, cached, rows, adding,
                   sentinel, ticker, calm, notes, events, crashes>>

\* One INSERT ... ON CONFLICT DO UPDATE per user and asset.
StartCredit(c) ==
    /\ At(c, "credit") /\ rows[c] = {}
    /\ Read(c, Users \X Assets)
    /\ UNCHANGED <<flowVars, adding, sentinel, ticker, calm, notes, events, crashes>>

Credit(c) ==
    /\ At(c, "credit")
    /\ \E k \in rows[c] :
          /\ pgAvailable' = [pgAvailable EXCEPT ![k[1]][k[2]] = InitialFunds[k[1]][k[2]]]
          /\ pgLocked' = [pgLocked EXCEPT ![k[1]][k[2]] = 0]
          /\ Written(c, k)
    /\ UNCHANGED <<vars, clientKey, phase, row, pgTrades, missed, snap, cached, adding, sentinel,
                   ticker, calm, notes, events, crashes>>

\* DEL of the pair's book, version, caches and queue; the order hashes stay.
Clear(c) ==
    /\ At(c, "clear")
    /\ zset' = [s \in Sides |-> {}]
    /\ version' = 0
    /\ cached' = {}
    /\ ticker' = {}
    /\ Advance(c)
    /\ UNCHANGED <<order, hash, funds, reply, history, script, dropping, sweep, clientKey, phase,
                   pg, snap, rows, adding, sentinel, calm, notes, events, crashes>>

\* No connection, or the DEL fails: unwrap_or(()), and the answer is ok all the same.
ClearFails(c) ==
    /\ At(c, "clear")
    /\ crashes < MaxCrashes
    /\ crashes' = crashes + 1
    /\ unswept' = TRUE
    /\ Advance(c)
    /\ UNCHANGED <<flowVars, rows, adding, sentinel, ticker, calm, lossy, raised, events>>

-------------------------------------------------------------------------------
\* Valkey loses its data (a new ElastiCache instance, a restart without a dump).
Wipe ==
    /\ pc = "idle"
    /\ events < MaxEvents
    /\ events' = events + 1
    /\ zset' = [s \in Sides |-> {}]
    /\ hash' = [o \in OrderIds |-> NoHash]
    /\ available' = [u \in Users |-> [a \in Assets |-> 0]]
    /\ locked' = [u \in Users |-> [a \in Assets |-> 0]]
    /\ version' = 0
    /\ sentinel' = {} /\ ticker' = {} /\ cached' = {}
    /\ calm' = IF AllIdle THEN "wiped" ELSE ""
    /\ restored' = FALSE /\ raised' = {} /\ unswept' = FALSE
    /\ UNCHANGED <<order, reply, history, script, dropping, sweep, clientKey, phase, pg, snap,
                   starters, lossy, crashes>>

\* A container dies in the middle of its program or while it serves; or a command
\* of the program fails, which ends the program.  After a failed admin command
\* the container goes on serving.
Crash(c) ==
    /\ pc = "idle"
    /\ c \in up \/ ~Idle(c)
    /\ crashes < MaxCrashes
    /\ crashes' = crashes + 1
    /\ \/ up' = up \ {c}
       \/ c \in Gateways \cap up /\ ~Idle(c) /\ UNCHANGED up
    /\ todo' = [todo EXCEPT ![c] = <<>>]
    /\ rows' = [rows EXCEPT ![c] = {}]
    /\ adding' = [adding EXCEPT ![c] = FALSE]
    /\ StillCalm
    /\ UNCHANGED <<flowVars, sentinel, ticker, restored, notes, events>>

\* The order path: some container takes the order, its EVAL runs, the match is
\* committed or given up.  A match while orders are being written back from rows
\* read before it makes the seeding lossy.
Trading ==
    /\ \/ /\ Script
          /\ pc = "idle" => up # {}
          /\ UNCHANGED <<clientKey, phase, pg, snap, cached>>
       \/ \E o \in OrderIds : Persist(o) \/ PersistFails(o)
    /\ calm' = IF UNCHANGED <<book, funds, tables, pc>> THEN calm ELSE ""
    /\ lossy' = (lossy \/ (pc' # pc /\ \E c \in Containers : ~Idle(c) /\ Head(todo[c]) = "orders"
                                                                      /\ rows[c] # {}))
    /\ UNCHANGED <<starters, sentinel, ticker, restored, raised, unswept, events, crashes>>

Seeding(c) ==
    \/ BootGateway(c) \/ BootBlind(c) \/ BootWorker(c) \/ StartTopUp(c) \/ TopUp(c)
    \/ ReadBalances(c) \/ ReadOrders(c) \/ SetPairs(c) \/ SetEmpty(c) \/ ReadTicker(c)
    \/ WriteTicker(c) \/ Serve(c) \/ WriteBalance(c) \/ AddOrder(c) \/ WriteOrder(c)

Administration(c) ==
    \/ \E p \in {ResetAll, TruncateOrders, ResetBalances} : Admin(c, p)
    \/ Truncate(c) \/ StartCredit(c) \/ Credit(c) \/ Clear(c) \/ ClearFails(c)

ColdNext ==
    \/ Trading
    \/ \E c \in Containers : Seeding(c) \/ Administration(c) \/ Crash(c)
    \/ Wipe

ColdSpec == ColdInit /\ [][ColdNext]_coldVars

-------------------------------------------------------------------------------
BookIsTable ==
    /\ \A s \in Sides : zset[s] = {o \in OpenGtc : order[o].side = s}
    /\ \A o \in OpenGtc : hash[o] = row[o]

\* An account that run_seed has raised may have been loaded before: Valkey then
\* holds less than the table, never more.
FundsAreTable ==
    /\ locked = pgLocked
    /\ \A u \in Users, a \in Assets :
          \/ available[u][a] = pgAvailable[u][a]
          \/ <<u, a>> \in raised /\ pgAvailable[u][a] > available[u][a]

TickerIsTable == "worker" \notin sentinel => ticker = pgTrades

\* After Valkey was emptied, a seeding that runs to its end rebuilds exactly the
\* open GTC orders, the balances and the ticker of the database, however many
\* containers seed at the same time and whichever die half-way; and reset_all
\* leaves the same balances in both stores and, unless its DEL failed unnoticed,
\* the same empty book.  (As long as nothing is traded meanwhile.  A worker blanks
\* the ticker first, and leaves it so if it dies.)
RestoredIsTable ==
    (calm # "" /\ restored) =>
        /\ FundsAreTable
        /\ unswept \/ (BookIsTable /\ TickerIsTable)

\* A gateway that finds cache:pairs may skip the seeding: if a gateway set it, the
\* book and the balances are complete, even if the one that set it died at once
\* and workers that start afterwards raise balances in the database.
SkipIsSafe ==
    (calm = "wiped" /\ "gateway" \in sentinel) => BookIsTable /\ FundsAreTable

\* A restart lets no order trade more than its quantity, unless the rows it read
\* lacked fills of resting orders (a commit that failed or had not happened yet)
\* or an order was matched between the SELECT and the writes.
RestartNeverOverfills ==
    lossy \/ \A o \in OrderIds : filled[o] + Left(o) <= order[o].qty
===============================================================================
