------------------------------ MODULE QueueWorker ------------------------------
(***************************************************************************)
(* The queue path (ORDER_DISPATCH_MODE=queue): the gateway pushes orders to*)
(* queue:orders:{pair} and cancellations to queue:cancellations, and one   *)
(* worker process consumes both for a pair.  An order passes through the   *)
(* consumer's batch, a task that holds a permit, the EVAL, and a bounded   *)
(* channel to the persist worker, which writes whole batches in one        *)
(* transaction; when the channel is full the task spawns a writer of its   *)
(* own, which uses one transaction per statement.  The debouncer that      *)
(* republishes the book afterwards is in CacheFeed.                        *)
(*                                                                         *)
(* Every step here waits for pc = "idle": it reads or writes nothing that a*)
(* running script touches half-way, so the order of the two is immaterial. *)
(* Metrics, events to sockets and the portfolio refresh are left out, and  *)
(* so are client_order_ids (see OrderFlow) and the legacy queue:orders,    *)
(* which nothing writes to.                                                *)
(***************************************************************************)
EXTENDS Settlement, Sequences

CONSTANTS
    BatchMax,     \* orders the consumer pops at once (10 in the code)
    Permits,      \* orders of a pair in flight (3)
    ChannelCap,   \* capacity of the persist channel (1000)
    WriteMax,     \* jobs in one persist transaction (50)
    CancelPermits,\* cancellations in flight (5)
    CancelAlls,   \* ids of the DELETE /api/orders requests
    CancelUser,   \* CancelUser[c]: the user of request c
    MaxCancels,   \* bound: DELETE and PUT requests, of single orders and of all
    MaxFaults     \* bound: failures in one behaviour

ASSUME WorkerAssumption ==
    /\ {BatchMax, Permits, ChannelCap, WriteMax, CancelPermits} \subseteq Nat \ {0}
    /\ CancelUser \in [CancelAlls -> Users]
    /\ MaxCancels \in Nat /\ MaxFaults \in Nat

\* DELETE and PUT /api/orders/{id} send no user_id and the worker reads it as "",
\* which is no user's id.
ASSUME NoNamelessUser == "" \notin Users

VARIABLES
    queue,     \* queue:orders:{pair}, next order first
    held,      \* popped orders that wait for a permit
    tasks,     \* orders whose task holds a permit
    channel,   \* persist jobs on their way to the persist worker
    writing,   \* the batch the persist worker is writing
    direct,    \* direct[o]: next statement of the writer spawned for o; "" if none
    deletes,   \* deletes[o]: state of the DELETE or PUT of order o
    cancel,    \* cancel[c]: state of the cancel_all task c
    lost,      \* history: orders given up before they reached the database
    released,  \* history: what releases have added to available in PostgreSQL
    faults     \* history: number of failures so far

pipeline == <<queue, held, tasks>>
writers == <<channel, writing, direct>>
cancels == <<deletes, cancel>>
past == <<lost, released>>
workerVars == <<vars, tables, pipeline, writers, cancels, past, faults>>

NoCancel == [step |-> "", list |-> {}, cur |-> 0, left |-> 0]

-------------------------------------------------------------------------------
WorkerInit ==
    /\ Init
    /\ TablesInit
    /\ queue = <<>> /\ held = <<>> /\ tasks = {}
    /\ channel = <<>> /\ writing = <<>>
    /\ direct = [o \in OrderIds |-> ""]
    /\ deletes = [o \in OrderIds |-> ""]
    /\ cancel = [c \in CancelAlls |-> NoCancel]
    /\ lost = {}
    /\ released = [u \in Users |-> [a \in Assets |-> 0]]
    /\ faults = 0

-------------------------------------------------------------------------------
Everywhere == {queue[i] : i \in DOMAIN queue} \cup {held[i] : i \in DOMAIN held} \cup tasks

\* POST /api/orders: LPUSH.
Enqueue(o) ==
    /\ pc = "idle"
    /\ o \notin Everywhere \cup lost
    /\ reply[o] = NotSubmitted
    /\ queue' = Append(queue, o)
    /\ UNCHANGED <<vars, tables, held, tasks, writers, cancels, past>>

\* pair_order_consumer: BRPOP, then RPOP up to the batch size; a failed RPOP ends
\* the batch early.
PopBatch(n) ==
    /\ pc = "idle"
    /\ held = <<>>
    /\ n <= Len(queue)
    /\ held' = SubSeq(queue, 1, n)
    /\ queue' = SubSeq(queue, n + 1, Len(queue))
    /\ UNCHANGED <<vars, tables, tasks, writers, cancels, past>>

\* The answer of a BRPOP or RPOP is lost, and with it the order.
PopLost ==
    /\ pc = "idle"
    /\ held = <<>>
    /\ queue # <<>>
    /\ lost' = lost \cup {Head(queue)}
    /\ queue' = Tail(queue)
    /\ UNCHANGED <<vars, tables, held, tasks, writers, cancels, released>>

\* The consumer waits for a permit and spawns the task.
SpawnTask ==
    /\ pc = "idle"
    /\ held # <<>>
    /\ Cardinality(tasks) < Permits
    /\ tasks' = tasks \cup {Head(held)}
    /\ held' = Tail(held)
    /\ UNCHANGED <<vars, tables, queue, writers, cancels, past>>

\* process_queued_order up to the EVAL.
Eval ==
    /\ \/ \E o \in tasks : Reject(o) \/ Begin(o)
       \/ \E r \in OrderIds : Visit(r)
       \/ Finish
    /\ UNCHANGED <<tables, pipeline, writers, cancels, past>>

\* A message that does not parse or validate, an FOK order, or a connection that
\* fails before the EVAL: the task ends and nothing is written anywhere.
Refuse(o) ==
    /\ pc = "idle"
    /\ o \in tasks
    /\ reply[o] = NotSubmitted
    /\ tasks' = tasks \ {o}
    /\ lost' = lost \cup {o}
    /\ UNCHANGED <<vars, tables, queue, held, writers, cancels, released>>

\* Faulty variant: a rejected order keeps its permit.
TaskRejectedKeepsPermit(o) ==
    /\ pc = "idle"
    /\ o \in tasks
    /\ reply[o] = Rejected
    /\ UNCHANGED workerVars

\* INSUFFICIENT_BALANCE.
TaskRejected(o) ==
    /\ pc = "idle"
    /\ o \in tasks
    /\ reply[o] = Rejected
    /\ tasks' = tasks \ {o}
    /\ UNCHANGED <<vars, tables, queue, held, writers, cancels, past>>

Matched(o) == pc = "idle" /\ o \in tasks /\ reply[o].status \in OrderStatuses

\* The EVAL ran and its answer is lost: no job.
EvalLost(o) ==
    /\ Matched(o)
    /\ tasks' = tasks \ {o}
    /\ lost' = lost \cup {o}
    /\ UNCHANGED <<vars, tables, queue, held, writers, cancels, released>>

\* try_send of the persist job, end of the task.
SendJob(o) ==
    /\ Matched(o)
    /\ Len(channel) < ChannelCap
    /\ channel' = Append(channel, o)
    /\ tasks' = tasks \ {o}
    /\ UNCHANGED <<vars, tables, queue, held, writing, direct, cancels, past>>

\* Faulty variant: a full channel drops the job.
SpawnDirectDrops(o) ==
    /\ Matched(o)
    /\ Len(channel) >= ChannelCap
    /\ tasks' = tasks \ {o}
    /\ UNCHANGED <<vars, tables, queue, held, writers, cancels, past>>

\* The channel is full: a task of its own writes the job.
SpawnDirect(o) ==
    /\ Matched(o)
    /\ Len(channel) >= ChannelCap
    /\ direct' = [direct EXCEPT ![o] = "insert"]
    /\ tasks' = tasks \ {o}
    /\ UNCHANGED <<vars, tables, queue, held, channel, writing, cancels, past>>

-------------------------------------------------------------------------------
SomeTrades(T, x) == {t \in T : t.maker = x}
HitBy(T, x) == Units(SomeTrades(T, x))

\* The UPDATEs of the makers hit by the trades T.  One after the other they take
\* off the sum: once a row is at 0 it is closed and no longer touched.
MakersUpdated(r, T) ==
    [x \in OrderIds |->
        IF Open(r[x]) /\ SomeTrades(T, x) # {} THEN Applied(r[x], HitBy(T, x)) ELSE r[x]]

ReleasedTo(O, u, a) == SumFunctionOnSet([o \in O |-> Leftover(o, u, a)], O)

\* One balance row: the UPSERT writes it when a trade of T credits or debits it,
\* the release when an order of O leaves something over.
LockedAfter(T, O, u, a) ==
    LET paid == IF \E t \in T : u \in {Payer(a, t), Payee(a, t)}
                THEN Greatest0(pgLocked[u][a] - LockedDec(T, u, a)) ELSE pgLocked[u][a]
    IN  IF \E o \in O : reply[o].status \in {"C", "F"} /\ reply[o].remaining # 0
                        /\ order[o].user = u /\ LockAsset(o) = a
        THEN Greatest0(paid - ReleasedTo(O, u, a)) ELSE paid

\* Record the trades T, pay for them, release what the orders O leave over.
Settle(T, O) ==
    /\ pgTrades' = pgTrades \cup T
    /\ pgLocked' = [u \in Users |-> [a \in Assets |-> LockedAfter(T, O, u, a)]]
    /\ pgAvailable' = [u \in Users |-> [a \in Assets |->
                         pgAvailable[u][a] + AvailInc(T, u, a) + ReleasedTo(O, u, a)]]
    /\ released' = [u \in Users |-> [a \in Assets |-> released[u][a] + ReleasedTo(O, u, a)]]

\* Faulty variant: the jobs stay in the channel.
DrainChannelKeeps ==
    /\ pc = "idle"
    /\ writing = <<>>
    /\ channel # <<>>
    /\ writing' = SubSeq(channel, 1, MinOf(WriteMax, Len(channel)))
    /\ UNCHANGED <<vars, tables, pipeline, channel, direct, cancels, past>>

\* The persist worker takes what is in the channel, up to WriteMax jobs.
DrainChannel ==
    /\ pc = "idle"
    /\ writing = <<>>
    /\ channel # <<>>
    /\ writing' = SubSeq(channel, 1, MinOf(WriteMax, Len(channel)))
    /\ channel' = SubSeq(channel, MinOf(WriteMax, Len(channel)) + 1, Len(channel))
    /\ UNCHANGED <<vars, tables, pipeline, direct, cancels, past>>

\* process_persist_batch: INSERT the orders, record and pay the trades, UPDATE the
\* makers, then write the orders' own values again, release.
WriteBatch ==
    LET jobs == {writing[i] : i \in DOMAIN writing}
        T == UNION {TradesOf(o) : o \in jobs}
        makers == MakersUpdated([o \in OrderIds |-> IF o \in jobs THEN reply[o] ELSE row[o]], T)
    IN  /\ pc = "idle"
        /\ writing # <<>>
        /\ row' = [o \in OrderIds |-> IF o \in jobs THEN reply[o] ELSE makers[o]]
        /\ Settle(T, jobs)
        /\ writing' = <<>>
        /\ UNCHANGED <<vars, pipeline, channel, direct, cancels, lost>>

\* The transaction fails: the batch is logged and dropped.
WriteBatchFails ==
    /\ pc = "idle"
    /\ writing # <<>>
    /\ lost' = lost \cup {writing[i] : i \in DOMAIN writing}
    /\ writing' = <<>>
    /\ UNCHANGED <<vars, tables, pipeline, channel, direct, cancels, released>>

\* process_persist_job: the same statements, each in a transaction of its own.
DirectInsert(o) ==
    /\ pc = "idle"
    /\ direct[o] = "insert"
    /\ row' = [row EXCEPT ![o] = reply[o]]
    /\ direct' = [direct EXCEPT ![o] = "trades"]
    /\ UNCHANGED <<vars, pgTrades, pgAvailable, pgLocked, pipeline, channel, writing, cancels, past>>

DirectTrades(o) ==
    /\ pc = "idle"
    /\ direct[o] = "trades"
    /\ Settle(TradesOf(o), {})
    /\ direct' = [direct EXCEPT ![o] = "makers"]
    /\ UNCHANGED <<vars, row, pipeline, channel, writing, cancels, lost>>

DirectMakers(o) ==
    /\ pc = "idle"
    /\ direct[o] = "makers"
    /\ row' = MakersUpdated(row, TradesOf(o))
    /\ direct' = [direct EXCEPT ![o] = "own"]
    /\ UNCHANGED <<vars, pgTrades, pgAvailable, pgLocked, pipeline, channel, writing, cancels, past>>

DirectOwn(o) ==
    /\ pc = "idle"
    /\ direct[o] = "own"
    /\ row' = [row EXCEPT ![o] = reply[o]]
    /\ direct' = [direct EXCEPT ![o] = "release"]
    /\ UNCHANGED <<vars, pgTrades, pgAvailable, pgLocked, pipeline, channel, writing, cancels, past>>

DirectRelease(o) ==
    /\ pc = "idle"
    /\ direct[o] = "release"
    /\ Settle({}, {o})
    /\ direct' = [direct EXCEPT ![o] = ""]
    /\ UNCHANGED <<vars, row, pipeline, channel, writing, cancels, lost>>

\* A statement fails: the rest of the job is given up, what was written stays.
DirectFails(o) ==
    /\ pc = "idle"
    /\ direct[o] # ""
    /\ direct' = [direct EXCEPT ![o] = ""]
    /\ lost' = IF direct[o] = "insert" THEN lost \cup {o} ELSE lost
    /\ UNCHANGED <<vars, tables, pipeline, channel, writing, cancels, released>>

-------------------------------------------------------------------------------
MayCancel ==
    Cardinality({o \in OrderIds : deletes[o] # ""})
        + Cardinality({c \in CancelAlls : cancel[c].step # ""}) < MaxCancels

\* DELETE or PUT /api/orders/{id} is posted.
PostDelete(o) ==
    /\ pc = "idle"
    /\ deletes[o] = ""
    /\ MayCancel
    /\ reply[o].status \in {"N", "PF"}
    /\ deletes' = [deletes EXCEPT ![o] = "posted"]
    /\ UNCHANGED <<vars, tables, pipeline, writers, cancel, past>>

\* process_cancellation selects WHERE id = o AND user_id = '': it finds no row.
ConsumeDelete(o) ==
    /\ pc = "idle"
    /\ deletes[o] = "posted"
    /\ deletes' = [deletes EXCEPT ![o] = "done"]
    /\ UNCHANGED <<vars, tables, pipeline, writers, cancel, past>>

Cancelling == {c \in CancelAlls : cancel[c].step \notin {"", "posted", "done"}}

\* DELETE /api/orders?user_id=u is posted.
PostCancelAll(c) ==
    /\ pc = "idle"
    /\ cancel[c].step = ""
    /\ MayCancel
    /\ cancel' = [cancel EXCEPT ![c].step = "posted"]
    /\ UNCHANGED <<vars, tables, pipeline, writers, deletes, past>>

\* The task starts: SELECT the user's open orders.
CancelList(c) ==
    /\ pc = "idle"
    /\ cancel[c].step = "posted"
    /\ Cardinality(Cancelling) < CancelPermits
    /\ cancel' = [cancel EXCEPT ![c].step = "next",
                    ![c].list = {o \in OrderIds : Open(row[o]) /\ order[o].user = CancelUser[c]}]
    /\ UNCHANGED <<vars, tables, pipeline, writers, deletes, past>>

\* Each is read again and skipped when it is no longer open.
CancelRead(c, o) ==
    /\ pc = "idle"
    /\ cancel[c].step = "next"
    /\ o \in cancel[c].list
    /\ LET rest == cancel[c].list \ {o}
       IN  cancel' = [cancel EXCEPT ![c] =
              IF Open(row[o])
              THEN [step |-> "zrem", list |-> rest, cur |-> o, left |-> row[o].remaining]
              ELSE [cancel[c] EXCEPT !.list = rest]]
    /\ UNCHANGED <<vars, tables, pipeline, writers, deletes, past>>

CancelDone(c) ==
    /\ pc = "idle"
    /\ cancel[c].step = "next"
    /\ cancel[c].list = {}
    /\ cancel' = [cancel EXCEPT ![c].step = "done"]
    /\ UNCHANGED <<vars, tables, pipeline, writers, deletes, past>>

\* remove_order_from_book.
CancelZrem(c) ==
    /\ cancel[c].step = "zrem"
    /\ RemoveZrem(cancel[c].cur)
    /\ cancel' = [cancel EXCEPT ![c].step = "del"]
    /\ UNCHANGED <<tables, pipeline, writers, deletes, lost, released>>

CancelDel(c) ==
    /\ cancel[c].step = "del"
    /\ RemoveDel(cancel[c].cur)
    /\ cancel' = [cancel EXCEPT ![c].step = "update"]
    /\ UNCHANGED <<tables, pipeline, writers, deletes, past>>

\* Faulty variant: the row may be closed while the order is still on the book.
CancelUpdateEarly(c) ==
    /\ pc = "idle"
    /\ cancel[c].step \in {"zrem", "update"}
    /\ row[cancel[c].cur].status # "C"
    /\ row' = [row EXCEPT ![cancel[c].cur] = [remaining |-> 0, status |-> "C"]]
    /\ cancel' = [cancel EXCEPT ![c].step = IF @ = "zrem" THEN "zrem" ELSE "release"]
    /\ UNCHANGED <<vars, pgTrades, pgAvailable, pgLocked, pipeline, writers, deletes, past>>

\* UPDATE by id only: whatever the row says by now, it is Cancelled with nothing left.
CancelUpdate(c) ==
    /\ pc = "idle"
    /\ cancel[c].step = "update"
    /\ row' = [row EXCEPT ![cancel[c].cur] = [remaining |-> 0, status |-> "C"]]
    /\ cancel' = [cancel EXCEPT ![c].step = "release"]
    /\ UNCHANGED <<vars, pgTrades, pgAvailable, pgLocked, pipeline, writers, deletes, past>>

CancelAmount(c) ==
    IF order[cancel[c].cur].side = "B" THEN order[cancel[c].cur].price * cancel[c].left
                                       ELSE cancel[c].left

\* UPDATE balances without GREATEST: locked may become negative.
CancelRelease(c) ==
    LET u == order[cancel[c].cur].user
        a == LockAsset(cancel[c].cur)
    IN  /\ pc = "idle"
        /\ cancel[c].step = "release"
        /\ pgLocked' = [pgLocked EXCEPT ![u][a] = @ - CancelAmount(c)]
        /\ pgAvailable' = [pgAvailable EXCEPT ![u][a] = @ + CancelAmount(c)]
        /\ released' = [released EXCEPT ![u][a] = @ + CancelAmount(c)]
        /\ cancel' = [cancel EXCEPT ![c].step = "next", ![c].cur = 0, ![c].left = 0]
        /\ UNCHANGED <<vars, row, pgTrades, pipeline, writers, deletes, lost>>

\* A command or statement fails: this order is given up, the next one follows.
CancelFails(c) ==
    /\ pc = "idle"
    /\ cancel[c].step \in {"zrem", "del", "update", "release"}
    /\ cancel' = [cancel EXCEPT ![c].step = "next", ![c].cur = 0, ![c].left = 0]
    /\ dropping' = IF cancel[c].step = "del" THEN dropping \ {cancel[c].cur} ELSE dropping
    /\ UNCHANGED <<order, book, funds, version, reply, history, script, sweep, tables, pipeline,
                   writers, deletes, past>>

-------------------------------------------------------------------------------
Consume ==
    \/ \E n \in 1 .. BatchMax : PopBatch(n)
    \/ SpawnTask
    \/ Eval
    \/ \E o \in OrderIds : TaskRejected(o) \/ SendJob(o)

ConsumeFault == PopLost \/ \E o \in OrderIds : Refuse(o) \/ EvalLost(o)

Write ==
    \/ \E o \in OrderIds : SpawnDirect(o) \/ DirectInsert(o) \/ DirectTrades(o)
                           \/ DirectMakers(o) \/ DirectOwn(o) \/ DirectRelease(o)
    \/ DrainChannel
    \/ WriteBatch

WriteFault == WriteBatchFails \/ \E o \in OrderIds : DirectFails(o)

CancelAll ==
    \E c \in CancelAlls :
        \/ CancelList(c) \/ CancelDone(c) \/ CancelZrem(c) \/ CancelDel(c)
        \/ CancelUpdate(c) \/ CancelRelease(c)
        \/ \E o \in OrderIds : CancelRead(c, o)

CancelFault == \E c \in CancelAlls : CancelFails(c)

Fails == faults < MaxFaults /\ faults' = faults + 1

Work ==
    \/ (Consume \/ Write \/ CancelAll \/ \E o \in OrderIds : ConsumeDelete(o)) /\ UNCHANGED faults
    \/ (ConsumeFault \/ WriteFault \/ CancelFault) /\ Fails

Clients ==
    /\ (\E o \in OrderIds : Enqueue(o) \/ PostDelete(o)) \/ (\E c \in CancelAlls : PostCancelAll(c))
    /\ UNCHANGED faults

WorkerNext == Clients \/ Work

\* As long as a task can go on, some task does; clients owe nothing.
WorkerSpec == WorkerInit /\ [][WorkerNext]_workerVars /\ WF_workerVars(Work)

-------------------------------------------------------------------------------
\* Balances in PostgreSQL are credited once for every recorded trade, and for
\* nothing else but a release, although a job may go through the channel or
\* through a writer of its own and may stop half-way.
CreditedOnce ==
    \A u \in Users, a \in Assets :
        pgAvailable[u][a] = InitialFunds[u][a] + AvailInc(pgTrades, u, a) + released[u][a]

\* Once the database says Cancelled, the order never trades again: it is off the
\* book before its row is closed.
NoFillAfterCancel ==
    [][\A o \in OrderIds : row[o].status = "C" => filled'[o] = filled[o]]_workerVars

\* No matched order falls between the stages: until its row is written it is with
\* its task, in the channel, in the batch or with a writer of its own, and it
\* leaves them only for the database or in a failure.
NoJobLost ==
    \A o \in OrderIds :
        reply[o].status \in OrderStatuses =>
            \/ o \in tasks \cup lost \/ direct[o] = "insert" \/ row[o] # NoRow
            \/ \E i \in DOMAIN channel : channel[i] = o
            \/ \E i \in DOMAIN writing : writing[i] = o

Busy ==
    \/ queue # <<>> \/ held # <<>> \/ tasks # {} \/ channel # <<>> \/ writing # <<>>
    \/ \E o \in OrderIds : direct[o] # ""
    \/ Cancelling # {}

\* The pipeline always drains: permits come back, a full channel blocks nobody,
\* and a cancellation comes to its end, whatever fails on the way.
PipelineDrains == Busy ~> ~Busy
===============================================================================
