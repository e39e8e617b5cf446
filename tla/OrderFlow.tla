------------------------------- MODULE OrderFlow -------------------------------
(***************************************************************************)
(* The inline order path of the gateway (ORDER_DISPATCH_MODE=inline): every*)
(* POST /api/orders runs process_order in its own Lambda invocation, and   *)
(* the invocations run concurrently.  After the EVAL of MatchOrder an      *)
(* invocation commits one PostgreSQL transaction (persist_order), then     *)
(* reads a book snapshot and publishes it.  Between any two of these steps *)
(* other invocations run, and an invocation may fail or die.               *)
(*                                                                         *)
(* The book is trading only here (no expiry, sweep or cancellation: inline *)
(* mode has no consumer of queue:cancellations).  A transaction is one     *)
(* step: an UPDATE that does not see a row another transaction has not yet *)
(* committed behaves as if it ran before that transaction.                 *)
(***************************************************************************)
EXTENDS Settlement

CONSTANT ClientKeys  \* client_order_id values; "none" is absent, "warmup" marks a warmup order

VARIABLES
    clientKey,   \* clientKey[o]: client_order_id sent with o; never changes
    phase,       \* phase[o]: how far the invocation processing o has come
    missed,      \* history: fills whose resting-order UPDATE found no row
    snap,        \* snap[o]: the snapshot held in memory by the invocation of o
    cached       \* cache:orderbook:{pair}

pg == <<tables, missed>>
flowVars == <<vars, clientKey, phase, pg, snap, cached>>

-------------------------------------------------------------------------------
\* Unique index on (user_id, client_order_id): INSERT ... ON CONFLICT DO NOTHING.
DuplicateKey(o) ==
    /\ clientKey[o] # "none"
    /\ \E x \in OrderIds \ {o} :
          row[x] # NoRow /\ clientKey[x] = clientKey[o] /\ order[x].user = order[o].user

\* Faulty variant: the makers' rows are not updated.
RowAfterInsertOnly(o, x) ==
    IF x # o \/ DuplicateKey(o) THEN row[x] ELSE reply[o]

\* Row x once the transaction of o has committed.
RowAfter(o, x) ==
    IF x = o THEN IF DuplicateKey(o) THEN row[o] ELSE reply[o]
    ELSE IF Open(row[x]) /\ \E t \in TradesOf(o) : t.maker = x
         THEN Applied(row[x], (CHOOSE t \in TradesOf(o) : t.maker = x).qty)
         ELSE row[x]

-------------------------------------------------------------------------------
FlowInit ==
    /\ Init
    /\ clientKey \in [OrderIds -> ClientKeys]
    /\ phase = [o \in OrderIds |-> "received"]
    /\ TablesInit
    /\ missed = {}
    /\ snap = [o \in OrderIds |-> {}]
    /\ cached = {}

\* The EVAL returned to the invocation.
Matched(o) == phase[o] = "received" /\ reply[o].status \in OrderStatuses

\* INSUFFICIENT_BALANCE is an error of match_order_lua: process_order stops, and
\* create_order logs the error and answers 201.
AnswerRejected(o) ==
    /\ phase[o] = "received"
    /\ reply[o] = Rejected
    /\ phase' = [phase EXCEPT ![o] = "answered"]
    /\ UNCHANGED <<vars, clientKey, pg, snap, cached>>

\* persist_order: one transaction.
Persist(o) ==
    /\ Matched(o)
    /\ clientKey[o] # "warmup"
    /\ row' = [x \in OrderIds |-> RowAfter(o, x)]
    /\ pgTrades' = pgTrades \cup TradesOf(o)
    /\ pgLocked' = [u \in Users |-> [a \in Assets |->
          Greatest0(Greatest0(pgLocked[u][a] - LockedDec(TradesOf(o), u, a)) - Leftover(o, u, a))]]
    /\ pgAvailable' = [u \in Users |-> [a \in Assets |->
          pgAvailable[u][a] + AvailInc(TradesOf(o), u, a) + Leftover(o, u, a)]]
    /\ missed' = missed \cup {t \in TradesOf(o) : row[t.maker] = NoRow}
    /\ phase' = [phase EXCEPT ![o] = "persisted"]
    /\ UNCHANGED <<vars, clientKey, snap, cached>>

\* Warmup orders match like any other but are not written to the database.
SkipPersist(o) ==
    /\ Matched(o)
    /\ clientKey[o] = "warmup"
    /\ phase' = [phase EXCEPT ![o] = "persisted"]
    /\ UNCHANGED <<vars, clientKey, pg, snap, cached>>

\* The transaction fails and is rolled back; process_order returns the error and
\* create_order answers 201 all the same.
PersistFails(o) ==
    /\ Matched(o)
    /\ clientKey[o] # "warmup"
    /\ phase' = [phase EXCEPT ![o] = "answered"]
    /\ UNCHANGED <<vars, clientKey, pg, snap, cached>>

\* update_cache_after_processing returns early when it sees no book change.
NothingToPublish(o) == TradesOf(o) = {} /\ reply[o].status \notin {"N", "PF"}

SkipCache(o) ==
    /\ phase[o] = "persisted"
    /\ NothingToPublish(o)
    /\ phase' = [phase EXCEPT ![o] = "answered"]
    /\ UNCHANGED <<vars, clientKey, pg, snap, cached>>

\* orderbook_snapshot_lua is one EVAL; the database reads follow it.
TakeSnapshot(o) ==
    /\ phase[o] = "persisted"
    /\ ~NothingToPublish(o)
    /\ pc = "idle"
    /\ snap' = [snap EXCEPT ![o] = Snapshot]
    /\ phase' = [phase EXCEPT ![o] = "snapshot"]
    /\ UNCHANGED <<vars, clientKey, pg, cached>>

\* Faulty variant: the new levels are merged into the published book.
PublishMerged(o) ==
    /\ phase[o] = "snapshot"
    /\ pc = "idle"
    /\ cached' = cached \cup snap[o]
    /\ snap' = [snap EXCEPT ![o] = {}]
    /\ phase' = [phase EXCEPT ![o] = "answered"]
    /\ UNCHANGED <<vars, clientKey, pg>>

\* set_and_publish_batch, then the answer.
Publish(o) ==
    /\ phase[o] = "snapshot"
    /\ pc = "idle"
    /\ cached' = snap[o]
    /\ snap' = [snap EXCEPT ![o] = {}]
    /\ phase' = [phase EXCEPT ![o] = "answered"]
    /\ UNCHANGED <<vars, clientKey, pg>>

\* The snapshot, a database read or the publishing fails: process_order logs it
\* and the client is answered; the old cache value stays.
CacheFails(o) ==
    /\ phase[o] \in {"persisted", "snapshot"}
    /\ ~NothingToPublish(o)
    /\ phase' = [phase EXCEPT ![o] = "answered"]
    /\ snap' = [snap EXCEPT ![o] = {}]
    /\ UNCHANGED <<vars, clientKey, pg, cached>>

\* The Lambda times out or is killed after its EVAL: memory is gone, no answer.
Die(o) ==
    /\ phase[o] \in {"persisted", "snapshot"} \/ Matched(o)
    /\ phase' = [phase EXCEPT ![o] = "dead"]
    /\ snap' = [snap EXCEPT ![o] = {}]
    /\ UNCHANGED <<vars, clientKey, pg, cached>>

Invocation(o) ==
    \/ AnswerRejected(o)
    \/ Persist(o)
    \/ SkipPersist(o)
    \/ SkipCache(o)
    \/ TakeSnapshot(o)
    \/ Publish(o)

Failure(o) == PersistFails(o) \/ CacheFails(o) \/ Die(o)

FlowNext ==
    \/ Script /\ UNCHANGED <<clientKey, phase, pg, snap, cached>>
    \/ \E o \in OrderIds : Invocation(o) \/ Failure(o)

FlowSpec == FlowInit /\ [][FlowNext]_flowVars

\* Without failures: what remains is the concurrency of healthy invocations.
HealthyNext ==
    \/ Script /\ UNCHANGED <<clientKey, phase, pg, snap, cached>>
    \/ \E o \in OrderIds : Invocation(o)

HealthySpec == FlowInit /\ [][HealthyNext]_flowVars

-------------------------------------------------------------------------------
\* The fills of o that its row does not show.
FillsNotInRow(o) == {t \in trades : t.maker = o /\ (t \notin pgTrades \/ t \in missed)}

\* The exact lag of a row: it is behind by the fills whose transaction has not
\* committed and by those whose transaction committed before the row was inserted
\* (which are never made up), and by nothing else.  A row that is not cancelled
\* says it is filled exactly when nothing remains of it.
RowLagExplained ==
    \A o \in OrderIds :
        row[o] # NoRow =>
            /\ row[o].remaining =
                  reply[o].remaining
                    - Units({t \in trades : t.maker = o} \ FillsNotInRow(o))
            /\ row[o].status # "C" => (row[o].status = "F" <=> row[o].remaining = 0)

\* What subscribers see may be old, but its two sides belong to one moment: if a
\* published bid reaches a published ask, one of the two is the level of an order
\* whose fetch was cut short.  Level 0 is that of market orders that rest.
PublishedBookUncrossed ==
    \A b, a \in cached :
        (b[1] = "B" /\ a[1] = "S" /\ 0 \notin {b[2], a[2]} /\ b[2] >= a[2]) =>
            \E o \in cut : <<order[o].side, order[o].price>> \in {<<b[1], b[2]>>, <<a[1], a[2]>>}
===============================================================================
