# Verification of the serverless matching engine

TLA+ models of the order book, the two order paths, start-up, the market data
feeds and the locking of this repository, checked with TLC on small instances; all the
invariants and action properties are also proved with TLAPS for every instance. Paths are
relative to the repository root.

## 1. The system

Clients send orders over HTTP to a *gateway* (AWS Lambda, or a local server).
The book of a trading pair lives in Valkey; a Lua script matches an order
atomically; PostgreSQL keeps orders, trades and balances; cached market data is
pushed to browsers.

| Component | State it keeps | Operations | Interacts with |
|---|---|---|---|
| Matching script `crates/shared/src/lua/match_order.lua`, called by `match_order_lua` in `cache.rs` | sorted sets `book:{pair}:bids/asks`, hashes `order:{id}` (1 h time to live), `version:{pair}`, `balance:{user}:{asset}` | one EVAL: lock the balance, fetch up to 50 candidates, walk them, apply time in force, place the rest | every writer of the same keys |
| Book maintenance `cache.rs`, `gateway/src/routes.rs` | the same keys | hash expiry, `remove_order_from_book`, `sweep_stale_orders`, admin resets, reseeding | the script, between EVALs |
| Inline order path `gateway/src/worker.rs`, `create_order` | one Lambda invocation per order | EVAL, one transaction (`persist_order`), snapshot, publish, answer | script, PostgreSQL, cache; other invocations |
| Queue worker `api/src/worker.rs` | queues `queue:orders:{pair}`, `queue:cancellations` | consumers, `process_queued_order`, `process_cancellation` | script, batch persistence |
| Batch persistence `api/src/routes.rs` | mpsc channel of jobs | `process_persist_batch`, `process_persist_job` | PostgreSQL |
| Compare-and-swap book `cache.rs` | `version:{pair}` | two-phase write, compare | book keys |
| Rust engine `engine.rs` | none (pure) | `match_order` | tests and the compare-and-swap path |
| Cold start `cache.rs`, `get_state` in `gateway/src/worker.rs`, `api/src/main.rs` | the sentinel `cache:pairs` | `run_seed` (worker), `init_balances_from_pg`, `seed_orderbook_from_pg`, `seed_ticker_from_pg`, the admin resets | raises balances in PostgreSQL, overwrites Valkey from PostgreSQL |
| Pair lock `lock.rs` | `book:{pair}:lock`, `book:{pair}:fence` | `acquire_lock`, `release_lock`, `LockGuard` | its callers (today: the integration tests) |
| Cache feed `gateway/src/lib.rs`, debouncer in `api/src/worker.rs` | `cache:*` keys, broadcast channels, dirty flags | publish, subscribe, poll, coalesce | browsers |
| WebSocket handler `ws-handler/src/main.rs`, `push_ws_updates` in `gateway/src/worker.rs` | `ws:connections`, `ws:subs:{channel}`, `ws:conn:{id}` | connect, subscribe, unsubscribe, disconnect, push | inline path, API Gateway |

What is hard: invocations interleave between their EVAL, their commit and their
publishing; an invocation may die or fail at each point; hashes expire under
the sorted sets; maintenance and seeding are many round trips next to live
trading; pub/sub messages get lost, broadcasts are throttled; handlers of one
WebSocket connection run in different Lambdas; the lock's key may expire under
its holder. `PROJECT.json` lists these hazards line by line.

What makes each part correct:

* script: no fill beyond an order's quantity, best price first, limits and
  self-trade modes respected, no match left undone, funds behind every order,
  a truthful reply;
* maintenance: it may withdraw an order, never change or revive one; the sweep
  takes ghosts only;
* queue path: no order or job falls between two stages, a trade is paid once, a
  cancelled order never trades again, the pipeline drains;
* compare-and-swap: a lost race changes nothing the winner relies on, nothing that is done comes back;
* cold start: what is rebuilt is what the database says, up to balances that
  `run_seed` raises there, and no order is rebuilt with more than it has left;
* feeds: no signal is lost, everybody ends up with the newest value, a
  subscription leaves no gap, dead connections go away;
* order path: the database agrees with the book up to fills that can be named;
  published books are books that existed; an order is executed once;
* lock: one holder, nobody else's key deleted, an attempt to get it ends.

## 2. Modules

| Module | Models |
|---|---|
| `Exchange` | abstract specification: orders are accepted, executed in compatible pairs, withdrawn |
| `MatchOrder` | the script as a step machine, expiry, cancellation and sweep; its properties; the refinement of `Exchange` |
| `MCMatchOrder` | instances |
| `MatchOrderClaims` | one documented statement about the book that does not hold |
| `MatchOrder_proofs` | lemmas about sums over finite sets; the theorems about `MatchOrder`, among them the refinement of `Exchange` |
| `Settlement` | the PostgreSQL tables and the balance, row and snapshot rules both order paths share |
| `OrderFlow` | extends `Settlement` with the gateway's concurrent invocations and the cache |
| `OrderFlow_proofs` | the theorems about `OrderFlow` |
| `MCOrderFlow` | instances and one documented statement that does not hold |
| `QueueWorker` | extends `Settlement` with the queue, the worker's tasks, its writers and cancellations |
| `QueueWorker_proofs` | the theorems about `QueueWorker` |
| `MCQueueWorker` | instances and one documented statement that does not hold |
| `PairLock`, `MCPairLock`, `PairLock_proofs` | the lock, its instance, its theorems |
| `Engine` | `match_order` of `engine.rs`, its loop as a recursive function over the book, and a reference definition of its trades |
| `CasBook`, `MCCasBook`, `CasBook_proofs` | extends `MatchOrder` and `Engine` with callers of the compare-and-swap path; its instance; its theorems and those about the engine |
| `ColdStart`, `MCColdStart`, `ColdStart_proofs` | extends `OrderFlow` with containers that start, seed, reset and die; its instance; its theorems |
| `CacheFeed`, `CacheFeed_proofs` | one cache key from the data to the browsers: publishers, pub/sub, poller, broadcast; its theorems |
| `WsSubscriptions`, `MCWsSubscriptions`, `WsSubscriptions_proofs` | the serverless WebSocket feed: subscription sets and pushes; its instance; its theorems |

### MatchOrder and the script

`zset` holds the members of the two sorted sets and `hash` the mutable fields of
`order:{id}`; immutable fields are read from `order`, which is the request
(the hash never disagrees with it: the script writes it from the same
arguments). Order ids are numbers because a sorted set breaks ties by the bytes
of the member, and the score is the price, negated for bids. Amounts are small
integers instead of numbers scaled by 10^8; nothing here depends on the scale.

Valkey runs a script alone, so the script is split into steps only to keep it
readable: `Begin` or `Reject` (lines 42-86), one of `SkipGhost`, `LeaveLoop`,
`CancelMaker`, `Trade` per iteration (91-192), `Finish` (194-246). Everybody else
waits for `pc = "idle"`. A market order passes `price_i = 0`, locks nothing when
it buys, and rests at score 0 when it is GTC and not filled, as in the code.
`filled`, `trades` and `cut` are history: `cut` holds the orders for which LIMIT left
eligible members unfetched, whose remainder may rest across the book.

`ExpireHash` may happen to any hash at any time: the model has no clock.
`RemoveZrem`/`RemoveDel` are the two commands of the pipeline, which is not a
transaction; they may be sent for any order once reported open, because
`process_cancellation` decides from the database, which may be behind. The
sweep is `SweepScan` (ZRANGE), then `SweepExists` and `SweepZrem` for each member;
`SweepExistsFails` is `unwrap_or(false)`, `SweepZremFails` is `unwrap_or(())`.
Requests that validation refuses and FOK orders never reach the script.

### OrderFlow and the inline path

`phase[o]` follows one invocation: `received`, then the EVAL (the steps of
`MatchOrder`), `Persist` (the whole transaction, all its statements), `TakeSnapshot`,
`Publish`, `answered`. A transaction is one step: PostgreSQL runs the statements at
read committed, and the only statement that reads rows of other transactions is
the UPDATE of the makers; if it does not see a maker's row because the INSERT
has not committed, the outcome is the one of the other commit order.
`PersistFails` is also what happens when the reply of the EVAL is lost.
`Die` may happen after the EVAL; before it nothing has changed. `missed` is a
history variable.

### QueueWorker and the queue path

An order moves from `queue` to `held` (the consumer's batch), to `tasks` (it has a
permit), through the EVAL, and then as a job to `channel` and `writing` (the persist
worker, one transaction per batch) or, when the channel is full, to `direct` (a
spawned writer, one transaction per statement). `WriteBatch` is all the statements of
`process_persist_batch` in their order; the last UPDATE writes the order's own
values again and undoes the decrement of a maker in the same batch, and
`DirectOwn` does the same for a maker that traded, or was cancelled, meanwhile.
`CancelList`, `CancelRead`, `CancelZrem`, `CancelDel`, `CancelUpdate` and `CancelRelease` are the round
trips of a `cancel_all`. The requests for single orders (DELETE, PUT) carry no
user id, so `ConsumeDelete` finds no row; `modify` with a replacement order has no
producer and is left out.

`PopLost`, `Refuse`, `EvalLost`, `WriteBatchFails`, `DirectFails` and `CancelFails`
are the failures; `MaxFaults` bounds how many happen in a behaviour. A crash of the
whole worker is a prefix of these behaviours; what follows a restart is in
`ColdStart`. Steps of the worker wait for `pc = "idle"`; none of them
reads what a script has half written, so this loses no outcome. The debouncer reads
the book and writes a cache key nobody here reads; it is in `CacheFeed`.

### PairLock

Tasks call `acquire_lock`; SET and INCR are separate steps; a failed command may or
may not have had its effect (`SetError`, `IncrError`); a dropped guard leaves a
`Cleanup` that may run at any later time, or never; `Expire` may hit any key.
A release whose command fails is a `Crash` of a holding task: the key stays.

### Engine and CasBook

`Engine!Walk` applies `Consider` (one turn of the loop) to one order of the sorted book
after another; the record it carries is `MatchResult` with a flag for `break`. `ReferenceTrades` says
without a loop which positions are reachable and how much of each is taken.
A caller of `CasBook` locks its balance, loads version, ids and hashes (one step per
command), matches, writes the hashes it will place (`PreWrite`, phase 1) and runs the
CAS script (`Commit` or `Conflict`). No caller is left in the repository; the protocol
around the library functions is the one of ADR 004 and of the comments at
`cache.rs:1008-1015`, and its steps are marked external. "Caller should retry" (`cache.rs:897`)
is left to the caller: after `Conflict` it may load again or `GiveUp`, which is also a failure or
death anywhere, and nothing obliges it to do either. Scripts and cancellations run at the same time. `spoiled`, `onceHere` and
`withdrawn` are history.

### ColdStart

What a container does is a program, a sequence of tasks: `GatewayProgram` (`get_state`,
when `cache:pairs` is missing), `WorkerProgram` (`main`: `run_seed`, then the sentinel, then the
book, the consumers started before the balances), `ResetAll`, `TruncateOrders` and `ResetBalances` (`internal_manage`).
A task is a SELECT followed by one command per row: orders are written by age (`Oldest`),
balances in whatever order PostgreSQL returned them; `AddOrder` and `WriteOrder` are the
two commands of `save_order_to_book`. `StartTopUp` and `TopUp` are `run_seed` (`api/src/main.rs:259-303`):
every start of a worker raises each row of `balances` to the seed amount (`GREATEST`), also
after a gateway has loaded the row into Valkey. `reset_all` credits 10 BTC, the next worker start makes it
10000 in PostgreSQL only, until the worker loads the balances at the end of its program. `ClearFails` is the DEL of
an admin command that fails (or gets no connection): the code ignores it and answers ok. Programs interleave with each other and with
`Trading`, the order path of `OrderFlow` up to its commit. `Wipe` is a Valkey that has
lost its data, `Crash` a container that dies or whose program fails, `BootBlind` the failed
EXISTS that counts as "no". `calm`, `restored`, `lossy`, `raised` and `unswept` are history: they say whether
anything but seeding happened since the wipe, whether a seeding read rows that
lacked fills, which accounts `run_seed` has raised and whether a DEL has failed since then.

### CacheFeed

A value is the number of changes of the data it shows. `mode` selects who publishes:
every inline invocation, the worker's debouncer (`Signal`, `Wake`), or the refresh worker.
SET and PUBLISH are separate steps; `wire` is what is under way to the subscriber
(`Receive`), lost by `Unlink`. `update()` is `SendWatch` and `Cast`, since the subscriber and
the poller run it on different threads. Clients in `direct` subscribe before they
read the latest value, the others after (`ReadsFirst`). `fresh` is history: the last value
broadcast and the values the gateway's REST answers have shown since. `ChangeSilently` is a change of the book that no
code path announces.

### WsSubscriptions

An invocation is the list of commands it still has to send: `handle_connect`,
`handle_default` (from `Subscribe` and `Unsubscribe`), `handle_disconnect`, `push_ws_updates`;
SMEMBERS and GET replace the rest of the list by what follows from their answer.
One command is one step, so invocations interleave at every command. `Abort` is an error
propagated by `?` or a dead Lambda, `Ignore` an error that is logged or defaulted,
`Lapse` the end of a key's lifetime, `CloseUnseen` a `$disconnect` that never comes.

## 3. Runs

`tlc -config X.cfg M` for each run of `PROJECT.json`.

| Run | Bounds | Shows |
|---|---|---|
| `script_trading` | 3 orders of 18 kinds, prices 1-2, quantities 1-3, funds 4 | type, uncrossed book, backing funds, truthful replies, limits, self-trade modes, best price first, refinement |
| `book_upkeep` | 4 limit orders, fetch limit 2, all maintenance at any moment | only orders whose fetch was cut short rest across the book; accounting, the sweep, refinement |
| `flow_main` | 3 invocations, failures, warmup orders, market orders that rest, a client key used twice | the lag of the database is exactly the named fills, no crossed book is published |
| `lock_faults` | 2 workers, 3 calls, 2 attempts, every fault | exclusion, keys, tokens, `acquire_lock` returns |
| `worker_database` | 3 orders of 2 kinds, batches of 2, 2 permits, channel of 1, writes of 2, one cancellation, one failure | the database never runs ahead of the book, each trade is paid once, a cancelled order never trades, no job is lost between stages, the pipeline drains |
| `cas_book` | 3 orders of 4 kinds: one through the script, two callers, one of them FOK | the engine meets its reference, orders no abandoned attempt touched stay accounted for, FOK is all or nothing, only cancelled orders come back |
| `cold_start` | 1 gateway, 1 worker, 2 bids or a bid and an ask, one wipe or admin command, one crash or swallowed failure | a seeding rebuilds the tables but for raised accounts, `reset_all` leaves equal balances, the gateway's sentinel may be trusted, no overfill after a restart unless rows lacked fills |
| `cache_feed` | 3 modes, 2 publishers, 1 client of either kind, 2 changes, channel of 1, one failure | no signal is forgotten, a client that subscribes first and has emptied its channel shows nothing stale, everyone catches up |
| `ws_subs` | 1 connection, 2 handlers, 1 pusher, 2 channels, 2 messages, one failure or expiry | no gap in the feed, every set gets a lifetime, failures take no channel away, dead connections go |
| `claim_fifo` | 3 orders | *violated*: equal price is not time priority |
| `flow_supply` | 2 invocations, no failures | *violated*: a trade creates money in PostgreSQL |
| `worker_delete` | 1 order, no failures | *violated*: a DELETE never removes its order |

Three orders are enough for two makers, a taker, a ghost before a live order,
an order cancelled while another is matched, and two transactions that overtake
a third. The effect of `LIMIT 0 50` is in `book_upkeep`: the fetch takes two of up to three
makers and ghosts; order 1 is an ask with a price of its own and order 4 a bid, and the orders arrive in any
sequence. Elsewhere `FetchLimit` equals the number of orders. Two workers
and three calls give an expired holder, its successor and a worker that comes
back. Ids are not symmetric (ties are broken by them) and no symmetry is used.
In `worker_database` the second job fills the channel and the third goes to a writer of
its own, a batch may hold a maker and its taker, and the third order may be
rejected for want of funds. In `cas_book` two callers conflict with each other, with a
script and with a cancellation. In `cold_start` a gateway and a worker seed at the same
time and either may die in between and start again; the gateway may also not have been running before. A channel of one in
`cache_feed` makes every second broadcast overtake a slow client. In `ws_subs` two handlers
of one connection, which may be a subscription and a `$disconnect`, run beside a push;
connections share no key but the channel sets, in which each has its own member. Pushes
do not overlap there: two pushers and two handlers at once are too many states.
Deadlock is not checked: when all orders have been submitted, or all calls made,
the system rests.

Fairness. `PairLock!FairSpec`: the runtime keeps polling a running `acquire_lock`; keys need not
expire. `QueueWorker!WorkerSpec`: while some task
of the worker can go on, some task does (weaker than the runtime's promise to
poll each); clients owe nothing. `CacheFeed!FeedSpec`: tasks of the runtimes run, intervals elapse, the
subscriber's loop reconnects; data need not change and clients need not come.
`WsSubscriptions!WsSpec`: a Lambda that has started goes on to its end or fails;
`ClosedGoes` has as its hypothesis that orders keep coming. Nothing else is assumed
fair: holders need not release and dropped guards need not be cleaned up.

Every property of a passing run has a mutant in `PROJECT.json`: a "faulty
variant" defined beside the definition it replaces, under which TLC finds the
property violated.

### Other differences between code and documents

Met while modelling, visible in the models and not searched for by a run of
their own:

* a fetch that returns 50 orders, ghosts included, ends the matching; the
  remainder rests across live orders (`cut` in `MatchOrder`; `match_order.lua:82`; `matching/spec.md:82`
  excludes missed matches, ADR 004 calls the case rare);
* a GTC order leaves the market after an hour without being cancelled
  (`match_order.lua:231`; `docs/specs/features.md:16`), and its row stays open;
* cancellation is not part of the script and does not change the version
  (`cache.rs:400`; `matching/spec.md:74-88`);
* an EXISTS that fails makes the sweep remove a live order (`routes.rs:1047`, against
  the comment at 1031);
* Valkey balances stay locked after a fill, and what was bought is not credited (`match_order.lua:67`;
  `matching/spec.md:154-157`);
* a GTC market order that finds no liquidity rests at price 0
  (`match_order.lua:213`; `matching/spec.md:48`: "A market order SHALL NOT rest in
  the book.");
* a repeated request with one client_order_id is matched again: only the INSERT
  looks at the key (`gateway/src/worker.rs:506`;
  `crates/shared/migrations/003_idempotency.sql:1`: "client_order_id per user
  prevents duplicate order submission.");
* an invocation whose transaction fails answers 201 (`routes.rs:324`;
  `matching/spec.md:109`);
* snapshots are published out of order, and a taker that is cancelled after
  cancelling its maker publishes nothing (`worker.rs:723`, `:668`;
  `market-data/spec.md:96`);
* a maker whose INSERT commits after its taker's transaction keeps the quantity
  it was placed with (`gateway/src/worker.rs:617`, against the comment at 616);
* a maker in the same batch as its taker gets its old quantity back, since step
  5 of the batch writes absolute values after step 4 (`api/src/routes.rs:225`; the
  comment at 765 says Postgres is synced with the book);
* a cancellation releases the quantity it read at the beginning, also when a
  fill or another cancellation came in between, and takes it off a locked
  column that nothing increments (`api/src/worker.rs:767`);
* nothing republishes the book after a cancellation (`api/src/worker.rs:755`);
* `release_lock` ignores its fence argument, so a late background release deletes
  a later key of the same worker (`lock.rs:121`, against the comment at 119);
* the lock's owner may have a lower fence than an expired holder, since SET and
  INCR are two commands (`lock.rs:84`, against the comment at 19-21).

Compare-and-swap path and engine:

* order hashes are written before the version is compared, so an attempt that
  loses leaves a wrong quantity behind, and the order is over- or underfilled
  later (`cache.rs:1086`; `spoiled` in `CasBook`);
* a pair without a version key never matches: `tostring(false)` is not "0"
  (`cache.rs:978`);
* a cancellation does not move the version, so a late write puts a cancelled order
  back (`cache.rs:400`);
* FOK orders are said to take this path (`cache.rs:1014`, ADR 004:47), but the
  gateway cancels them (`gateway/src/worker.rs:345`);
* a FOK order that meets orders of its own user passes the pre-check, trades a part
  and is cancelled (`engine.rs:44`; `docs/specs/matching-engine.md:46`);
* a limit price is checked against the tick size but not against zero
  (`gateway/src/worker.rs:475`); below zero the FOK pre-check and the loop of the engine disagree
  (`PositivePrices` in section 4);
* the engine looks at the taker's self-trade mode only, the script also at the
  maker's (`engine.rs:81`, `match_order.lua:132`).

Cold start:

* the reset version is written and read but never compared
  (`gateway/src/worker.rs:36`, `routes.rs:1083`);
* "The first Lambda to cold-start seeds; subsequent ones skip"
  (`gateway/src/worker.rs:98`): the sentinel is set near the end, so all that start
  before that seed too, which `RestoredIsTable` shows to be harmless while nothing trades;
* the worker sets the sentinel first; if it dies, gateways skip a seeding that
  has not happened (`api/src/main.rs:126`);
* a failed EXISTS, or a worker that restarts, seeds a book in use: fills that are
  not in the database come back, and so do makers cancelled by self-trade
  prevention (`gateway/src/worker.rs:105`);
* the consumers run before the balances are loaded, which then overwrites what the
  first orders locked (`api/src/main.rs:227`); `available` in PostgreSQL is not reduced
  by open orders, nor `locked` increased, so seeded balances reserve nothing for them;
* `run_seed` raises `available` at every worker start, also of users who have spent it
  (`api/src/main.rs:292`); until that worker loads the balances, Valkey has less than PostgreSQL;
* the worker blanks the published books at its start and the next order
  republishes them (`api/src/main.rs:340`);
* `reset_all` leaves the order hashes (`routes.rs:988`), and the whole book if its DEL fails, since
  that failure is ignored (`routes.rs:987-1000`).

Feeds:

* two inline invocations may publish in the wrong order and leave the older
  book in the key until the next order (`gateway/src/worker.rs:723`);
* a key that is deleted stays in the gateways' memory (`lib.rs:158` skips it);
* a direct client may show its snapshot and then an older queued value;
* stream clients miss what is broadcast between their snapshot and their
  subscription, until the next broadcast or poll (`routes.rs:613`, `:791`);
* the task of a multiplexed socket sends snapshots into a channel of 256 that only
  it drains (`routes.rs:788`);
* `cache:orders:{user}` is never written and nobody sends on the gateway's
  `order_events_tx`, so these two feeds stay empty.

WebSocket handler:

* the lifetime of `ws:subs` is refreshed by subscriptions only: after an hour
  without one, live clients of a channel silently lose it (`ws-handler/src/main.rs:219`);
* concurrent pushes may send an older value after a newer one;
* dead connections on channels that are never pushed go away by expiry only, and
  never if the EXPIRE was lost; a failed SMEMBERS in `handle_disconnect` deletes the
  reverse map and leaves the entries (`ws-handler/src/main.rs:131`).

## 4. Theorems

Each theorem is about a whole specification (all actions, failures included) and
every value of the constants that the named assumptions of its module allow:
any number of orders, users, invocations, tasks and clients, any bound on failures
and retries, any queue, channel and batch size. Sets are assumed finite,
quantities and bounds natural and prices integers; anything more is a hypothesis of the theorem and is named below.
`tlapm M_proofs.tla` checks them.

### MatchOrder

* `TypeCorrect`: `TypeOK`. The delicate parts are the balances (the check
  precedes the subtraction) and `remaining` (a fill is a minimum).
* `FillsNeverExceedQuantity`: `QuantityAccounted`. It is not inductive. The
  invariant `Accounting` adds that members of a sorted set have been through the
  script and are on their own side (`MembersSubmitted`), that the running order is new
  and its candidates are on the other side (`TakerIsNew`), and states the sum for each
  hash, also of orders that are in a hash and in no sorted set, the state between
  the ZREM and the DEL of a cancellation (`FillsAccounted`).
* `LimitsAreRespected`, `SelfTradesArePrevented`: from the loop's tests and `TakerIsNew`
  (the maker is on the other side).
* `SweepTakesOnlyGhosts`: `SweepSparesLive`. The invariant `SweepKnown` says that what the
  sweep has listed has been submitted before: since ids are not reused, no
  `Finish` can make it live again.
* `BookStaysUncrossed`: `BookUncrossed`, for every fetch limit: of two live limit orders that
  cross, one was placed by a script whose fetch was cut short (`cut`). The invariant `WalkCovers` says
  that all candidates cross and that during a walk, unless its fetch was cut, every live
  crossing order of the other side is still among them; it rests on the lemma that the score bound of
  the fetch is the price test of the loop (`BoundIsCrossing`).
* `BestPriceTradesFirst`: the action property `BestPriceFirst`, for every fetch limit. What
  the fetch leaves out is behind everything it returns, and the walk visits candidates
  in order.
* `BookImplementsExchange`: the refinement of `Exchange`. Every step of the script,
  of a cancellation, of the expiry and of the sweep is a step of the abstract exchange or a
  stutter under the mapping of `MatchOrder`; `Accounting` makes the two views of an open
  quantity agree.
* `BookIsFunded`: `FundsBackBook`: what an owner has locked covers the live orders. Sums over an owner's
  orders. The invariant covers the order that is being matched, which has locked its funds and is in no sorted set yet.
* `ReplyIsTrue`: `ReplyMatchesTrades`: while a script runs, what its trades add up
  to and what it still wants is its quantity.

Sums are `SumFunctionOnSet` over finite sets. The first section of `MatchOrder_proofs` proves what
is needed (adding and removing one element, changing one value, monotonicity, bounds)
without induction over an operator: the least cardinality of a counterexample is contradicted.

`TypeOK` is used in two halves. `BookType` is about the book, the script and the history,
`FundsType` about the balances. The modules that extend `MatchOrder` need the first only: there
balances are not always natural numbers (a seeding copies what PostgreSQL says, a caller
unlocks in two commands), and no result about the book depends on them.

### OrderFlow

Every step is a step of `MatchOrder` or leaves the book alone, so its invariants hold here
too. `FlowInv` adds that an order's row and trades appear together when its first phase
ends (`TablesType`), that a fill recorded before its maker has a row is missed for good
(`MissedForGood`), and that a row is the reply less the fills it shows (`RowTells`).

* `RowLagIsExplained`: a row differs from the book by exactly the fills not recorded in it.
  The proof showed that the status of a row says "Filled" exactly when nothing remains only for rows that
  are not Cancelled; `RowLagExplained` says so.
* `RowsTrailBook`, `FilledRowsAreFilled`: consequences, with `FillsNeverExceedQuantity`.
* `PublishedIsUncrossed`: `PublishedBookUncrossed`, for every fetch limit and with market orders that
  rest: levels of orders in `cut` and the level without a price are excused, all others are uncrossed.
  `PublishInv` says so of every snapshot in the hands of an invocation (`SnapshotsUncrossed`); `cut` only
  grows (`CutGrows`), so it does not matter when the snapshot is published.

### QueueWorker

* `NoJobIsLost`: `NoJobLost`. `PipeInv`: an order is in one of the stages only (`OnePlace`),
  before the EVAL in the queue, after it as a job (`StageMatchesReply`); `AllPlaced` says that a
  matched order is in a stage, lost or in its row.
* `CancelledTradesNoMore`: the action property `NoFillAfterCancel`. `CancelledOffBook`: an order whose
  row is Cancelled, or whose cancellation has sent its ZREM, is in no sorted set. A step of the
  worker is, for the book, a step of `MatchOrder` or a cancellation that gives up between its two
  commands (`BookMove`).
* `QueueRowsTrailBook`, `QueueFilledRowsAreFilled`: `RowsCover` bounds a row from below:
  it has lost no fills but those of orders whose writer has passed its third statement. Step 5
  of a batch and `DirectOwn` write old values again, so rows are not equal to anything simple.
* `TradesAreCreditedOnce`: `CreditedOnce`. `PaidOnce`: an order whose job is waiting,
  or with a writer before its trades, has no recorded trade yet.

### Engine and CasBook

`EngineTradesByReference`: `EngineMeetsReference`, for every book of any length a caller has loaded, whether
anything is traded on it or not (a killed FOK or IOC too). The loop is a
recursive function, so two loop invariants are carried from one resting order to the next
(`WalkBalanced`, `WalkByPriority`); that they hold at the end follows from the least turn
at which one would fail.

- `Balanced`: the trades so far and what the order still wants make up its quantity;
  each updated order is one of the book, once, and its fill and its remainder
  are what it had.
- `ByPriority`: what the order still wants is its quantity less all it may take of the
  orders passed, and its trades are those of the reference up to there. An order that blocks
  the walk (price, or self-trade prevention of the taker) stops it for good.

The other theorems are about callers that race. `CasInv` consists of

- `Snapshot`: what a caller holds is a piece of the book in its order, each order within its limit
  and once on the book; the result is that of the engine on it. The version it holds is not
  newer than the pair's.
- `Places`: an order that is not done is not on the book and not filled, and the script's
  running order is accounted for.
- `Ledger`: for orders whose hash no uncommitted attempt has overwritten, fills and hash
  add up to the quantity, also when the hash is in no sorted set (between the ZREM and the DEL of a
  cancellation); this is `CleanAccounted` and what makes it inductive.
- `Fresh(o) => UpToDate(o)`: if the version is still the one `o` has read and no script runs,
  then every order it has loaded is on the book or was cancelled, and unless someone else has
  overwritten it (`CleanFor`), its fills are those of the loaded copy. This is where the version
  check is used: `Commit` is possible only to a caller that is `Fresh`, and a commit
  or a script that changes the book in between makes it stale. Two callers with the same snapshot
  cannot both commit.

From it follow

* `VersionProtectsFills`: `CleanAccounted`;
* `NothingComesBack`: the action property `NoResurrection`: what a fresh caller places is its own
  order or one that is on the book or was cancelled;
* `FillOrKill`: `FokAllOrNothing`, with `FokInv`: a fill-or-kill order is never on the book, so only its
  own match fills it. The hypothesis `PositivePrices` (limit prices are above zero) is
  needed: a market ask rests at score 0, so a limit ask below zero would be listed before it and
  others after it; the pre-check counts these, and the loop stops at the market ask, to
  which a limit order does not match. No code refuses such a price.

### ColdStart

* `SeedingRestoresTables` (`RestoredIsTable`) and `SkippingIsSafe` (`SkipIsSafe`) from `ColdInv`. After a wipe
  `SeedInv` says of each container how far its program has come and what
  is therefore already as in the tables (`SeedOk`), and of the rows it has read that they are rows of the
  current tables and that whatever is not among them is done (`FundsInHand`, `OrdersInHand`). A balance may be
  `Near` the table only, that is, equal or read before `run_seed` raised it; that this is so of at most one older
  value rests on `RaisedOnce`: a raised account is at its seed amount and is not raised again. It is
  the last fact that survives the death of a container: what it has not written,
  the next one reads again. `Seeded` keeps what a sentinel set by a gateway and a completed
  seeding stand for. During `reset_all`, `ResetInv` says that one container at most is at work, and
  what its steps have emptied, the book only if its DEL has not failed (`unswept`). `Tidy` says that only a task that reads has rows in hand.
* `RestartsNeverOverfill`: `RestartNeverOverfills` from `RefillInv`. As long as no seeding was lossy, all of
  `FlowInv` holds, with seeding, wipes and resets among the steps, and the rows in hand are
  `Truthful`: fills and remainder make up the quantity, and no script runs until they are
  written, so writing them back keeps the book accounted for.

### PairLock

* `LockExcludes`: `MutualExclusion`, for any worker ids, shared ones included. `LockInv` numbers
  the calls and says which call set the key last, which are under way and which left a
  background release behind.
* `KeyIsNotStolen`: the action property `KeyLostOnlyByExpiry`, with the hypothesis `DistinctWorkers`: the release
  compares worker ids, so two tasks with one id may release each other's key.
* `TokensDiffer`: `TokensUnique`: tokens are 1, the fallback, or at most the counter (`TokensIssued`), which
  only grows.

### CacheFeed

* `DebouncerForgetsNothing`: `QuietBookPublished`. `NewsIsSomewhere`: the last change is
  a stored permit, a signal to come, with the task, which has still to read, holds the value or
  has written it; `OnlyTheTask`: in this mode nobody else writes the key.
* `DirectClientsAreFresh`: `CaughtUpIsFresh`. `QueuesEndFresh`: what a client has not shown yet ends in
  the last value broadcast or one that REST has shown since, also when the channel overflows, and a
  client with nothing left shows such a value. It needs the order in which the client subscribes and reads:
  one that reads first (`ReadsFirst`) may show an older value until the next broadcast.

### WsSubscriptions

For any finite sets of connections and channels, any messages, any number of
handlers and pushers at the same time, and any number of failures and expiries.
The proofs rest on what a plan, the list of commands an invocation still has to
send, looks like at any time. `Ordered` is the invariant:

- `AllFit`: every command speaks of connections it may speak of. SADD lists and a
  post addresses only connections that have been accepted; what a pusher removes,
  or remembers as stale, belongs to a connection that is closed.
- `OneAccept`: at most one invocation will accept a connection, so an aborted
  `$connect` closes no other.
- `PlansInOrder`: after SADD of a key its EXPIRE is still to come (`Lasting`); after SADD
  of a connection to a channel the GET and post of its snapshot are
  (`SnapshotFollows`); a post follows the GET of its channel with only posts between
  them, unless that GET has been done and the value is held (`LaterRead`).

`Whole` plans, the ones handlers start with or put in front of the rest, are closed
under concatenation, which carries `PlansInOrder` through the loops of the code
(`FlattenSeq`). Flattening is proved about with the least counterexample among its
partial results.

`NothingUnsubscribes` (`OpenKeepsChannels`, an action property) and `EverySetExpires`
(`SetsExpire`) follow from `Ordered`. `SubscribersMissNothing` (`ListedIsServed`) needs
more: that somebody still has a post to send is not enough, because the value
held may be old. `Served` says that the invocation will list the subscribers, or
will post a value it has still to read, or holds the newest one; `ValuesBounded`, that no value
held or sent is newer than the cache's. `FeedInv` is `Ordered`, `ValuesBounded` and `Served`.

### Only model-checked

Liveness: `AttemptEnds`, `PipelineDrains`, `EveryoneCatchesUp`, `ClosedGoes`. TLAPS has no proof of liveness under fairness. The instances
of section 3 are the evidence for these.

## 5. Plan

All parts of the system that carry its own logic have a module, and every invariant and
action property of a passing run is a theorem. What is left is liveness, which is out of
the prover's reach, and larger instances for it; new code paths (a caller of the compare-and-swap
path, a producer of replacement orders) would be added to `CasBook` and `QueueWorker`.

## 6. Not modelled

HTTP read handlers (they change nothing), metrics, configuration, connection
pools, stream helpers used by tests only, the web front end, the load test and
deployment scripts. Decimal formatting and scaling: amounts are integers, so the
loss of digits in Lua's `tostring` above 10^14 is not visible. The order in which
PostgreSQL locks rows: it is the planner's, and the transaction it aborts in a
deadlock is `PersistFails` or `WriteBatchFails`. The admin commands `run_migrations`, `exec_sql` and `query`: their SQL is
not part of the code. The legacy `queue:orders`, replacement orders of `modify` (no
producer sends either), the portfolio caches and the per-user channels of the
socket handlers. Time: backoff, time to live and timeouts are
nondeterministic.
