-------------------------- MODULE QueueWorker_proofs --------------------------
(***************************************************************************)
(* Theorems about the queue path of QueueWorker: an order and its persist  *)
(* job are in one place at a time, no job is lost between the stages, the  *)
(* database is paid once for a trade, and what it shows is never ahead of  *)
(* the book.                                                               *)
(***************************************************************************)
EXTENDS QueueWorker, MatchOrder_proofs, SequenceTheorems

-------------------------------------------------------------------------------
(* Sequences without repetition: queue, batch and channel.                 *)

LEMMA SeqFacts ==
    ASSUME NEW S, NEW s \in Seq(S)
    PROVE  /\ DOMAIN s = 1 .. Len(s) /\ Len(s) \in Nat
           /\ \A i \in 1 .. Len(s) : s[i] \in S
           /\ Range(s) \subseteq S
BY LenProperties DEF Range

LEMMA AppendRange ==
    ASSUME NEW S, NEW s \in Seq(S), NEW x \in S
    PROVE  /\ Append(s, x) \in Seq(S)
           /\ Range(Append(s, x)) = Range(s) \cup {x}
           /\ (IsInjective(s) /\ x \notin Range(s)) => IsInjective(Append(s, x))
<1> DEFINE t == Append(s, x)
<1>1. /\ t \in Seq(S) /\ Len(t) = Len(s) + 1
      /\ \A i \in 1 .. Len(s) : t[i] = s[i]
      /\ t[Len(s) + 1] = x
  BY AppendProperties
<1> HIDE DEF t
<1>2. /\ DOMAIN s = 1 .. Len(s) /\ Len(s) \in Nat
      /\ DOMAIN t = 1 .. Len(s) + 1
  BY <1>1, SeqFacts
<1>3. \A i \in 1 .. Len(s) + 1 : i \in 1 .. Len(s) \/ i = Len(s) + 1
  BY <1>2
<1>4. Range(t) \subseteq Range(s) \cup {x}
  BY <1>1, <1>2, <1>3 DEF Range
<1>5. Range(s) \cup {x} \subseteq Range(t)
  <2>1. Len(s) + 1 \in 1 .. Len(s) + 1 /\ \A i \in 1 .. Len(s) : i \in 1 .. Len(s) + 1
    BY <1>2
  <2> QED
    BY <1>1, <1>2, <2>1 DEF Range
<1>6. (IsInjective(s) /\ x \notin Range(s)) => IsInjective(t)
  BY <1>1, <1>2, <1>3 DEF IsInjective, Range
<1> QED
  BY <1>1, <1>4, <1>5, <1>6 DEF t

\* Cutting a sequence in two.
LEMMA SplitRange ==
    ASSUME NEW S, NEW s \in Seq(S), NEW n \in Nat, n <= Len(s)
    PROVE  /\ SubSeq(s, 1, n) \in Seq(S) /\ SubSeq(s, n + 1, Len(s)) \in Seq(S)
           /\ Range(SubSeq(s, 1, n)) \cup Range(SubSeq(s, n + 1, Len(s))) = Range(s)
           /\ IsInjective(s) =>
                /\ IsInjective(SubSeq(s, 1, n)) /\ IsInjective(SubSeq(s, n + 1, Len(s)))
                /\ Range(SubSeq(s, 1, n)) \cap Range(SubSeq(s, n + 1, Len(s))) = {}
<1> DEFINE a == SubSeq(s, 1, n)
           b == SubSeq(s, n + 1, Len(s))
<1>1. /\ DOMAIN s = 1 .. Len(s) /\ Len(s) \in Nat
      /\ \A i \in 1 .. Len(s) : s[i] \in S
  BY SeqFacts
<1>2. /\ a \in Seq(S) /\ Len(a) = n
      /\ \A i \in 1 .. n : a[i] = s[i]
  <2>1. \A i \in 1 .. n : s[i] \in S
    BY <1>1
  <2>2. /\ a \in Seq(S) /\ Len(a) = IF 1 <= n THEN n - 1 + 1 ELSE 0
        /\ \A i \in 1 .. n - 1 + 1 : a[i] = s[1 + i - 1]
    BY <2>1, SubSeqProperties
  <2> HIDE DEF a
  <2> QED
    BY <2>2
<1>3. /\ b \in Seq(S) /\ Len(b) = Len(s) - n
      /\ \A i \in 1 .. Len(s) - n : b[i] = s[n + i]
  <2>1. \A i \in n + 1 .. Len(s) : s[i] \in S
    BY <1>1
  <2>2. n + 1 \in Int /\ Len(s) \in Int
    BY <1>1
  <2>3. /\ b \in Seq(S) /\ Len(b) = IF n + 1 <= Len(s) THEN Len(s) - (n + 1) + 1 ELSE 0
        /\ \A i \in 1 .. Len(s) - (n + 1) + 1 : b[i] = s[(n + 1) + i - 1]
    BY <2>1, <2>2, SubSeqProperties
  <2> HIDE DEF b
  <2>4. Len(b) = Len(s) - n
    <3>1. \A k \in Nat : n <= k =>
            (IF n + 1 <= k THEN k - (n + 1) + 1 ELSE 0) = k - n
      OBVIOUS
    <3> QED
      BY <1>1, <2>3, <3>1
  <2>5. \A i \in 1 .. Len(s) - n :
          i \in 1 .. Len(s) - (n + 1) + 1 /\ (n + 1) + i - 1 = n + i
    BY <1>1
  <2> QED
    BY <2>3, <2>4, <2>5
<1> HIDE DEF a, b
<1>4. DOMAIN a = 1 .. n /\ DOMAIN b = 1 .. Len(s) - n
  BY <1>2, <1>3, SeqFacts
<1>5. Range(a) \cup Range(b) \subseteq Range(s)
  <2>1. \A i \in 1 .. n : i \in 1 .. Len(s)
    BY <1>1
  <2>2. \A i \in 1 .. Len(s) - n : n + i \in 1 .. Len(s)
    BY <1>1
  <2>3. \A i \in DOMAIN a : a[i] \in Range(s)
    BY <1>1, <1>2, <1>4, <2>1 DEF Range
  <2>4. \A i \in DOMAIN b : b[i] \in Range(s)
    BY <1>1, <1>3, <1>4, <2>2 DEF Range
  <2> QED
    BY <2>3, <2>4 DEF Range
<1>6. Range(s) \subseteq Range(a) \cup Range(b)
  <2> SUFFICES ASSUME NEW i \in 1 .. Len(s) PROVE s[i] \in Range(a) \cup Range(b)
    BY <1>1 DEF Range
  <2>1. CASE i <= n
    <3>1. i \in 1 .. n
      BY <2>1
    <3> QED
      BY <1>2, <1>4, <3>1 DEF Range
  <2>2. CASE i > n
    <3>1. i - n \in 1 .. Len(s) - n /\ n + (i - n) = i
      BY <1>1, <2>2
    <3>2. b[i - n] = s[i]
      BY <1>3, <3>1
    <3> QED
      BY <1>4, <3>1, <3>2 DEF Range
  <2> QED
    BY <1>1, <2>1, <2>2
<1>7. ASSUME IsInjective(s)
      PROVE  IsInjective(a) /\ IsInjective(b) /\ Range(a) \cap Range(b) = {}
  <2>1. IsInjective(a)
    BY <1>1, <1>2, <1>4, <1>7 DEF IsInjective
  <2>2. IsInjective(b)
    <3> SUFFICES ASSUME NEW i \in 1 .. Len(s) - n, NEW j \in 1 .. Len(s) - n, b[i] = b[j]
                 PROVE  i = j
      BY <1>4 DEF IsInjective
    <3>1. n + i \in DOMAIN s /\ n + j \in DOMAIN s /\ s[n + i] = s[n + j]
      BY <1>1, <1>3
    <3>2. n + i = n + j
      BY <1>7, <3>1 DEF IsInjective
    <3> QED
      BY <1>1, <3>2
  <2>3. \A i \in 1 .. n, j \in 1 .. Len(s) - n : a[i] # b[j]
    <3> SUFFICES ASSUME NEW i \in 1 .. n, NEW j \in 1 .. Len(s) - n, a[i] = b[j]
                 PROVE  FALSE
      OBVIOUS
    <3>1. i \in DOMAIN s /\ n + j \in DOMAIN s /\ s[i] = s[n + j]
      BY <1>1, <1>2, <1>3
    <3>2. i = n + j
      BY <1>7, <3>1 DEF IsInjective
    <3> QED
      BY <3>2
  <2> QED
    BY <1>4, <2>1, <2>2, <2>3 DEF Range
<1> QED
  BY <1>2, <1>3, <1>5, <1>6, <1>7 DEF a, b

LEMMA HeadRange ==
    ASSUME NEW S, NEW s \in Seq(S), s # <<>>
    PROVE  /\ Head(s) \in S /\ Tail(s) \in Seq(S)
           /\ Range(s) = Range(Tail(s)) \cup {Head(s)}
           /\ IsInjective(s) => IsInjective(Tail(s)) /\ Head(s) \notin Range(Tail(s))
<1> DEFINE t == Tail(s)
<1>1. /\ DOMAIN s = 1 .. Len(s) /\ Len(s) \in Nat /\ Len(s) > 0
  BY SeqFacts, EmptySeq
<1>2. /\ Head(s) \in S /\ t \in Seq(S) /\ Len(t) = Len(s) - 1
      /\ \A i \in 1 .. Len(s) - 1 : t[i] = s[i + 1]
  BY HeadTailProperties
<1>3. Head(s) = s[1]
  BY DEF Head
<1> HIDE DEF t
<1>4. DOMAIN t = 1 .. Len(s) - 1
  BY <1>2, SeqFacts
<1>5. Range(t) \cup {s[1]} \subseteq Range(s)
  <2>1. 1 \in 1 .. Len(s) /\ \A i \in 1 .. Len(s) - 1 : i + 1 \in 1 .. Len(s)
    BY <1>1
  <2> QED
    BY <1>1, <1>2, <1>4, <2>1 DEF Range
<1>6. Range(s) \subseteq Range(t) \cup {s[1]}
  <2> SUFFICES ASSUME NEW i \in 1 .. Len(s), i # 1 PROVE s[i] \in Range(t)
    BY <1>1 DEF Range
  <2>1. i - 1 \in 1 .. Len(s) - 1 /\ (i - 1) + 1 = i
    BY <1>1
  <2>2. t[i - 1] = s[i]
    BY <1>2, <2>1
  <2> QED
    BY <1>4, <2>1, <2>2 DEF Range
<1>7. IsInjective(s) => IsInjective(t)
  <2> SUFFICES ASSUME IsInjective(s), NEW i \in 1 .. Len(s) - 1, NEW j \in 1 .. Len(s) - 1,
                      t[i] = t[j]
               PROVE  i = j
    BY <1>4 DEF IsInjective
  <2>1. i + 1 \in DOMAIN s /\ j + 1 \in DOMAIN s /\ s[i + 1] = s[j + 1]
    BY <1>1, <1>2
  <2>2. i + 1 = j + 1
    BY <2>1 DEF IsInjective
  <2> QED
    BY <2>2
<1>8. IsInjective(s) => s[1] \notin Range(t)
  <2>1. IsInjective(s) => \A i \in 1 .. Len(s) - 1 : t[i] # s[1]
    BY <1>1, <1>2 DEF IsInjective
  <2> QED
    BY <1>4, <2>1 DEF Range
<1> QED
  BY <1>2, <1>3, <1>5, <1>6, <1>7, <1>8 DEF t

-------------------------------------------------------------------------------
(* The inductive invariant.                                                *)

WriterSteps == {"", "insert", "trades", "makers", "own", "release"}

PipelineType ==
    /\ queue \in Seq(OrderIds) /\ held \in Seq(OrderIds) /\ tasks \subseteq OrderIds
    /\ channel \in Seq(OrderIds) /\ writing \in Seq(OrderIds)
    /\ direct \in [OrderIds -> WriterSteps]

\* An order is in the queue, in the consumer's batch or with one task, and its
\* persist job in the channel, in the batch being written or with one writer.
OnePlace ==
    /\ IsInjective(queue) /\ IsInjective(held) /\ IsInjective(channel)
    /\ Range(queue) \cap Range(held) = {}
    /\ (Range(queue) \cup Range(held)) \cap tasks = {}
    /\ Range(channel) \cap Range(writing) = {}
    /\ (Range(channel) \cup Range(writing)) \cap tasks = {}
    /\ \A o \in OrderIds :
          direct[o] # "" => o \notin tasks \cup Range(channel) \cup Range(writing)

\* Before the EVAL an order is queued, after it a job; in between its task has it.
StageMatchesReply ==
    /\ pc = "walk" => taker \in tasks
    /\ \A o \in Range(queue) \cup Range(held) : reply[o] = NotSubmitted
    /\ \A o \in Range(channel) \cup Range(writing) : reply[o].status \in OrderStatuses
    /\ \A o \in OrderIds : direct[o] # "" => reply[o].status \in OrderStatuses

\* A row belongs to a matched order, and a cancelled order has no open row.
RowsMatchReplies ==
    /\ row \in [OrderIds -> ReplyType \cup {NoRow}]
    /\ \A o \in OrderIds :
          row[o] # NoRow =>
              /\ row[o].status \in OrderStatuses /\ reply[o].status \in OrderStatuses
              /\ reply[o].status = "C" => row[o].status = "C"

CancelType ==
    cancel \in [CancelAlls ->
                   [step : {"", "posted", "next", "zrem", "del", "update", "release", "done"},
                    list : SUBSET OrderIds, cur : OrderIds \cup {0}, left : Nat]]

OffBook(o) == \A s \in Sides : o \notin zset[s]

\* An order is off the book for good before its row is closed.
CancelledOffBook ==
    /\ \A o \in OrderIds :
          row[o].status = "C" => reply[o].status \in OrderStatuses /\ OffBook(o)
    /\ \A c \in CancelAlls :
          /\ cancel[c].step \in {"zrem", "del", "update", "release"} => cancel[c].cur \in OrderIds
          /\ cancel[c].step \in {"del", "update", "release"} =>
                reply[cancel[c].cur].status \in OrderStatuses /\ OffBook(cancel[c].cur)

Waiting(o) == o \in tasks \cup Range(channel) \cup Range(writing)

\* The trades of o have not been recorded, or not been taken off the makers' rows.
Unpaid(o) == Waiting(o) \/ direct[o] \in {"insert", "trades"}
Unshown(o) == Waiting(o) \/ direct[o] \in {"insert", "trades", "makers"}

PaidOnce ==
    /\ pgAvailable \in [Users -> [Assets -> Int]] /\ released \in [Users -> [Assets -> Int]]
    /\ pgTrades \subseteq trades
    /\ \A t \in pgTrades : ~Unpaid(t.taker)

\* The fills of o that its row may show.
Shown(o) == {t \in trades : t.maker = o /\ ~Unshown(t.taker)}

\* A row that is not cancelled has lost nothing but those.
RowsCover ==
    \A o \in OrderIds :
        row[o] # NoRow /\ row[o].status # "C" =>
            /\ row[o].remaining >= reply[o].remaining - Units(Shown(o))
            /\ row[o].status = "F" => row[o].remaining = 0

-------------------------------------------------------------------------------
(* What the worker's steps are for the book.                               *)

\* A step of MatchOrder, or a cancellation gives up between its two commands.
BookMove ==
    \/ [Next]_vars
    \/ /\ UNCHANGED <<order, book, funds, version, reply, history, script, sweep>>
       /\ dropping' \subseteq dropping

LEMMA WorkerMoves ==
    ASSUME PipelineType, CancelledOffBook, [WorkerNext]_workerVars
    PROVE  BookMove
<1>1. CASE Eval
  <2>1. Script
    BY <1>1 DEF Eval, Script, PipelineType
  <2> QED
    BY <2>1 DEF BookMove, Next
<1>2. ASSUME NEW c \in CancelAlls, CancelZrem(c) \/ CancelDel(c) PROVE BookMove
  <2>1. cancel[c].cur \in OrderIds
    BY <1>2 DEF CancelledOffBook, CancelZrem, CancelDel
  <2>2. RemoveZrem(cancel[c].cur) \/ RemoveDel(cancel[c].cur)
    BY <1>2 DEF CancelZrem, CancelDel
  <2>3. Maintenance
    BY <2>1, <2>2 DEF Maintenance
  <2> QED
    BY <2>3 DEF BookMove, Next
<1>3. ASSUME NEW c \in CancelAlls, CancelFails(c) PROVE BookMove
  BY <1>3 DEF CancelFails, BookMove
<1>4. CASE vars' = vars
  BY <1>4 DEF BookMove
<1>5. CASE ConsumeFault \/ WriteFault
  BY <1>4, <1>5 DEF ConsumeFault, WriteFault, PopLost, Refuse, EvalLost, WriteBatchFails, DirectFails
<1>6. CASE Clients
  BY <1>4, <1>6 DEF Clients, Enqueue, PostDelete, PostCancelAll
<1>7. CASE Consume
  BY <1>1, <1>4, <1>7 DEF Consume, PopBatch, SpawnTask, TaskRejected, SendJob
<1>8. CASE Write
  BY <1>4, <1>8 DEF Write, SpawnDirect, DirectInsert, DirectTrades, DirectMakers, DirectOwn,
                    DirectRelease, DrainChannel, WriteBatch
<1>9. CASE CancelAll
  BY <1>2, <1>4, <1>9 DEF CancelAll, CancelList, CancelDone, CancelUpdate, CancelRelease, CancelRead
<1>10. CASE \E o \in OrderIds : ConsumeDelete(o)
  BY <1>4, <1>10 DEF ConsumeDelete
<1>11. CASE UNCHANGED workerVars
  BY <1>4, <1>11 DEF workerVars
<1> QED
  BY <1>3, <1>5, <1>6, <1>7, <1>8, <1>9, <1>10, <1>11 DEF WorkerNext, Work, CancelFault

LEMMA BookMoveInv == BookInv /\ BookMove => BookInv'
<1> SUFFICES ASSUME BookInv, BookMove PROVE BookInv'
  OBVIOUS
<1>1. CASE [Next]_vars
  BY <1>1, BookInvNext
<1>2. CASE UNCHANGED <<order, book, funds, version, reply, history, script, sweep>>
           /\ dropping' \subseteq dropping
  <2>1. UNCHANGED <<order, zset, hash, available, locked, version, reply, filled, trades, cut, pc,
                    taker, cands, remaining, status, sweepList, sweepGone, unanswered>>
    BY <1>2 DEF book, funds, history, script, sweep
  <2>2. BookType'
    BY <1>2, <2>1 DEF BookInv, BookType
  <2>3. Accounting'
    BY <2>1 DEF BookInv, Accounting, MembersSubmitted, TakerIsNew, FillsAccounted
  <2>4. OpenBook'
    BY <2>1 DEF BookInv, OpenBook
  <2>5. TradesCounted'
    BY <2>1 DEF BookInv, TradesCounted, Taken, Submitted, TakenBy, MadeBy
  <2>6. \A o \in OrderIds : Reported(o)'
    BY <2>1 DEF BookInv, Reported, TakenBy
  <2> QED
    BY <2>2, <2>3, <2>4, <2>5, <2>6 DEF BookInv
<1> QED
  BY <1>1, <1>2 DEF BookMove

LEMMA ReplyKept ==
    ASSUME BookInv, BookMove, NEW o \in OrderIds, reply[o] # NotSubmitted
    PROVE  reply'[o] = reply[o]
BY ReplyIsFinal DEF BookInv, BookMove

LEMMA TradesKept ==
    ASSUME BookInv, BookMove
    PROVE  trades \subseteq trades'
BY TradesOnlyGrow DEF BookInv, BookMove, history

\* An order leaves the book for good.
LEMMA OffBookKept ==
    ASSUME BookInv, BookMove, NEW o \in OrderIds, reply[o] # NotSubmitted, OffBook(o)
    PROVE  OffBook(o)'
<1>1. BookType /\ zset \in [Sides -> SUBSET OrderIds]
  BY DEF BookInv, BookType
<1>2. CASE Finish
  <2>1. taker # o
    BY <1>2 DEF Finish, BookInv, Accounting, TakerIsNew
  <2> QED
    BY <1>1, <1>2, <2>1 DEF Finish, OffBook, book
<1>3. CASE \E x \in OrderIds : Reject(x) \/ Begin(x)
  BY <1>3 DEF Reject, Begin, OffBook, book
<1>4. ASSUME NEW r \in OrderIds, Trade(r) PROVE OffBook(o)'
  <2>1. \A s \in Sides : zset'[s] \subseteq zset[s]
    BY <1>1, <1>4, ZRemShrinks DEF Trade
  <2> QED
    BY <2>1 DEF OffBook
<1>5. CASE \/ \E r \in OrderIds : SkipGhost(r) \/ LeaveLoop(r) \/ CancelMaker(r)
           \/ Maintenance
           \/ SweepFault
           \/ UNCHANGED vars
  <2>1. \A s \in Sides : zset'[s] \subseteq zset[s]
    BY <1>1, <1>5, RemovalsShrink DEF BookShrinks
  <2> QED
    BY <2>1 DEF OffBook
<1>6. CASE UNCHANGED book
  BY <1>6 DEF OffBook, book
<1> QED
  BY <1>2, <1>3, <1>4, <1>5, <1>6 DEF BookMove, Next, Script, Visit

-------------------------------------------------------------------------------
(* An order and its job are in one place at a time.                        *)

PipeInv == PipelineType /\ OnePlace /\ StageMatchesReply

LEMMA NothingLeft == <<>> \in Seq(OrderIds) /\ Range(<<>>) = {} /\ IsInjective(<<>>)
<1>1. <<>> \in Seq(OrderIds) /\ Len(<<>>) = 0
  BY EmptySeq
<1>2. DOMAIN <<>> = {}
  BY <1>1, SeqFacts
<1> QED
  BY <1>1, <1>2 DEF Range, IsInjective

LEMMA PipeInvInit == WorkerInit => PipeInv
BY NothingLeft
DEF WorkerInit, Init, PipeInv, PipelineType, OnePlace, StageMatchesReply, WriterSteps

LEMMA EnqueuePipe ==
    ASSUME PipeInv, NEW o \in OrderIds, Enqueue(o)
    PROVE  PipeInv'
<1>1. /\ queue' = Append(queue, o) /\ reply[o] = NotSubmitted /\ pc = "idle"
      /\ UNCHANGED <<held, tasks, channel, writing, direct, pc, taker, reply>>
  BY DEF Enqueue, vars, script, writers
<1>2. o \notin Range(queue) \cup Range(held) \cup tasks
  BY DEF Enqueue, Everywhere, Range
<1>3. queue' \in Seq(OrderIds) /\ Range(queue') = Range(queue) \cup {o} /\ IsInjective(queue')
  BY <1>1, <1>2, AppendRange DEF PipeInv, PipelineType, OnePlace
<1>4. PipelineType'
  BY <1>1, <1>3 DEF PipeInv, PipelineType
<1>5. OnePlace'
  BY <1>1, <1>2, <1>3 DEF PipeInv, OnePlace
<1>6. StageMatchesReply'
  BY <1>1, <1>3 DEF PipeInv, StageMatchesReply
<1> QED
  BY <1>4, <1>5, <1>6 DEF PipeInv

LEMMA PopPipe ==
    ASSUME PipeInv, PopLost \/ \E n \in 1 .. BatchMax : PopBatch(n)
    PROVE  PipeInv'
<1>1. queue \in Seq(OrderIds) /\ IsInjective(queue) /\ Range(<<>>) = {}
  BY NothingLeft DEF PipeInv, PipelineType, OnePlace
<1>2. /\ held = <<>> /\ pc = "idle"
      /\ UNCHANGED <<tasks, channel, writing, direct, pc, taker, reply>>
  BY DEF PopLost, PopBatch, vars, script, writers
<1>3. /\ queue' \in Seq(OrderIds) /\ held' \in Seq(OrderIds)
      /\ Range(queue') \cup Range(held') \subseteq Range(queue)
      /\ Range(queue') \cap Range(held') = {}
      /\ IsInjective(queue') /\ IsInjective(held')
  <2>1. CASE PopLost
    <3>1. queue # <<>> /\ queue' = Tail(queue) /\ held' = held
      BY <2>1 DEF PopLost
    <3>2. Range(queue') \subseteq Range(queue) /\ queue' \in Seq(OrderIds) /\ IsInjective(queue')
      BY <1>1, <3>1, HeadRange
    <3> QED
      BY <1>2, <3>1, <3>2, NothingLeft
  <2>2. ASSUME NEW n \in 1 .. BatchMax, PopBatch(n)
        PROVE  /\ queue' \in Seq(OrderIds) /\ held' \in Seq(OrderIds)
               /\ Range(queue') \cup Range(held') \subseteq Range(queue)
               /\ Range(queue') \cap Range(held') = {}
               /\ IsInjective(queue') /\ IsInjective(held')
    <3>1. /\ n \in Nat /\ n <= Len(queue) /\ held' = SubSeq(queue, 1, n)
          /\ queue' = SubSeq(queue, n + 1, Len(queue))
      BY <2>2, WorkerAssumption DEF PopBatch
    <3> QED
      BY <1>1, <3>1, SplitRange
  <2> QED
    BY <2>1, <2>2
<1>4. PipelineType'
  BY <1>2, <1>3 DEF PipeInv, PipelineType
<1>5. OnePlace'
  BY <1>2, <1>3 DEF PipeInv, OnePlace
<1>6. StageMatchesReply'
  BY <1>2, <1>3 DEF PipeInv, StageMatchesReply
<1> QED
  BY <1>4, <1>5, <1>6 DEF PipeInv

LEMMA SpawnTaskPipe ==
    ASSUME PipeInv, SpawnTask
    PROVE  PipeInv'
<1> DEFINE o == Head(held)
<1>1. /\ held # <<>> /\ tasks' = tasks \cup {o} /\ held' = Tail(held) /\ pc = "idle"
      /\ UNCHANGED <<queue, channel, writing, direct, pc, taker, reply>>
  BY DEF SpawnTask, vars, script, writers
<1>2. /\ o \in OrderIds /\ held' \in Seq(OrderIds) /\ Range(held) = Range(held') \cup {o}
      /\ IsInjective(held') /\ o \notin Range(held')
  BY <1>1, HeadRange DEF PipeInv, PipelineType, OnePlace
<1> HIDE DEF o
<1>3. reply[o] = NotSubmitted
  BY <1>2 DEF PipeInv, StageMatchesReply
<1>4. o \notin Range(channel) \cup Range(writing) /\ direct[o] = ""
  BY <1>2, <1>3, RejectedReply DEF PipeInv, StageMatchesReply
<1>5. PipelineType'
  BY <1>1, <1>2 DEF PipeInv, PipelineType
<1>6. OnePlace'
  BY <1>1, <1>2, <1>4 DEF PipeInv, OnePlace
<1>7. StageMatchesReply'
  BY <1>1, <1>2 DEF PipeInv, StageMatchesReply
<1> QED
  BY <1>5, <1>6, <1>7 DEF PipeInv

LEMMA EvalPipe ==
    ASSUME PipeInv, BookInv, Eval
    PROVE  PipeInv'
<1>1. UNCHANGED <<queue, held, tasks, channel, writing, direct>>
  BY DEF Eval, pipeline, writers
<1>2. \A o \in OrderIds \ tasks : reply'[o] = reply[o]
  <2>1. CASE \E o \in tasks : Reject(o) \/ Begin(o)
    BY <2>1 DEF Reject, Begin, BookInv, BookType
  <2>2. CASE Finish
    <3>1. taker \in tasks
      BY <2>2 DEF Finish, PipeInv, StageMatchesReply
    <3> QED
      BY <2>2, <3>1 DEF Finish, BookInv, BookType
  <2>3. CASE \E r \in OrderIds : Visit(r)
    BY <2>3 DEF Visit, SkipGhost, LeaveLoop, CancelMaker, Trade
  <2> QED
    BY <2>1, <2>2, <2>3 DEF Eval
<1>3. pc' = "walk" => taker' \in tasks
  <2>1. CASE \E o \in tasks : Reject(o) \/ Begin(o)
    BY <2>1 DEF Reject, Begin, script
  <2>2. CASE Finish
    BY <2>2 DEF Finish
  <2>3. CASE \E r \in OrderIds : Visit(r)
    BY <2>3 DEF Visit, SkipGhost, LeaveLoop, CancelMaker, Trade, AtCandidate, PipeInv,
                StageMatchesReply
  <2> QED
    BY <2>1, <2>2, <2>3 DEF Eval
<1>4. \A s \in {queue, held, channel, writing} : Range(s) \subseteq OrderIds
  BY SeqFacts DEF PipeInv, PipelineType
<1>5. PipelineType' /\ OnePlace'
  BY <1>1 DEF PipeInv, PipelineType, OnePlace
<1>6. StageMatchesReply'
  BY <1>1, <1>2, <1>3, <1>4 DEF PipeInv, StageMatchesReply, OnePlace
<1> QED
  BY <1>5, <1>6 DEF PipeInv

\* A task ends, with or without a job.
LEMMA TaskEndsPipe ==
    ASSUME PipeInv, NEW o \in OrderIds,
           Refuse(o) \/ TaskRejected(o) \/ EvalLost(o) \/ SendJob(o) \/ SpawnDirect(o)
    PROVE  PipeInv'
<1>1. /\ tasks' = tasks \ {o} /\ o \in tasks /\ pc = "idle"
      /\ UNCHANGED <<queue, held, writing, pc, taker, reply>>
  BY DEF Refuse, TaskRejected, EvalLost, SendJob, SpawnDirect, Matched, vars, script, writers
<1>2. CASE Refuse(o) \/ TaskRejected(o) \/ EvalLost(o)
  <2>1. UNCHANGED <<channel, direct>>
    BY <1>2 DEF Refuse, TaskRejected, EvalLost, writers
  <2> QED
    BY <1>1, <2>1 DEF PipeInv, PipelineType, OnePlace, StageMatchesReply
<1>3. CASE SendJob(o)
  <2>1. channel' = Append(channel, o) /\ direct' = direct /\ reply[o].status \in OrderStatuses
    BY <1>3 DEF SendJob, Matched
  <2>2. o \notin Range(channel) \cup Range(writing) /\ direct[o] = ""
    BY <1>1 DEF PipeInv, OnePlace
  <2>3. /\ channel' \in Seq(OrderIds) /\ Range(channel') = Range(channel) \cup {o}
        /\ IsInjective(channel')
    BY <2>1, <2>2, AppendRange DEF PipeInv, PipelineType, OnePlace
  <2>4. PipelineType'
    BY <1>1, <2>1, <2>3 DEF PipeInv, PipelineType
  <2>5. OnePlace'
    BY <1>1, <2>1, <2>2, <2>3 DEF PipeInv, OnePlace
  <2>6. StageMatchesReply'
    BY <1>1, <2>1, <2>3 DEF PipeInv, StageMatchesReply
  <2> QED
    BY <2>4, <2>5, <2>6 DEF PipeInv
<1>4. CASE SpawnDirect(o)
  <2>1. /\ direct' = [direct EXCEPT ![o] = "insert"] /\ channel' = channel
        /\ reply[o].status \in OrderStatuses
    BY <1>4 DEF SpawnDirect, Matched
  <2>2. o \notin Range(channel) \cup Range(writing)
    BY <1>1 DEF PipeInv, OnePlace
  <2>3. direct \in [OrderIds -> WriterSteps]
    BY DEF PipeInv, PipelineType
  <2>4. PipelineType'
    BY <1>1, <2>1 DEF PipeInv, PipelineType, WriterSteps
  <2>5. OnePlace'
    BY <1>1, <2>1, <2>2, <2>3 DEF PipeInv, OnePlace
  <2>6. StageMatchesReply'
    BY <1>1, <2>1, <2>3 DEF PipeInv, StageMatchesReply
  <2> QED
    BY <2>4, <2>5, <2>6 DEF PipeInv
<1> QED
  BY <1>2, <1>3, <1>4

LEMMA DrainPipe ==
    ASSUME PipeInv, DrainChannel
    PROVE  PipeInv'
<1> DEFINE n == MinOf(WriteMax, Len(channel))
<1>1. /\ writing = <<>> /\ writing' = SubSeq(channel, 1, n)
      /\ channel' = SubSeq(channel, n + 1, Len(channel))
      /\ UNCHANGED <<queue, held, tasks, direct, pc, taker, reply>>
  BY DEF DrainChannel, vars, script, pipeline
<1>2. channel \in Seq(OrderIds) /\ IsInjective(channel)
  BY DEF PipeInv, PipelineType, OnePlace
<1>3. n \in Nat /\ n <= Len(channel)
  BY <1>2, SeqFacts, WorkerAssumption DEF MinOf
<1> HIDE DEF n
<1>4. /\ writing' \in Seq(OrderIds) /\ channel' \in Seq(OrderIds)
      /\ Range(writing') \cup Range(channel') = Range(channel)
      /\ Range(writing') \cap Range(channel') = {} /\ IsInjective(channel')
  BY <1>1, <1>2, <1>3, SplitRange
<1>5. PipelineType'
  BY <1>1, <1>4 DEF PipeInv, PipelineType
<1>6. OnePlace'
  BY <1>1, <1>4 DEF PipeInv, OnePlace
<1>7. StageMatchesReply'
  BY <1>1, <1>4 DEF PipeInv, StageMatchesReply
<1> QED
  BY <1>5, <1>6, <1>7 DEF PipeInv

LEMMA WritePipe ==
    ASSUME PipeInv, \/ WriteBatch \/ WriteBatchFails
                    \/ \E o \in OrderIds : \/ DirectInsert(o) \/ DirectTrades(o) \/ DirectMakers(o)
                                           \/ DirectOwn(o) \/ DirectRelease(o) \/ DirectFails(o)
    PROVE  PipeInv'
<1>1. UNCHANGED <<queue, held, tasks, channel, pc, taker, reply>>
  BY DEF WriteBatch, WriteBatchFails, DirectInsert, DirectTrades, DirectMakers, DirectOwn,
         DirectRelease, DirectFails, vars, script, pipeline
<1>2. CASE WriteBatch \/ WriteBatchFails
  <2>1. writing' = <<>> /\ direct' = direct
    BY <1>2 DEF WriteBatch, WriteBatchFails
  <2>2. writing' \in Seq(OrderIds) /\ Range(writing') = {}
    BY <2>1, NothingLeft
  <2> QED
    BY <1>1, <2>1, <2>2 DEF PipeInv, PipelineType, OnePlace, StageMatchesReply
<1>3. ASSUME NEW o \in OrderIds, \/ DirectInsert(o) \/ DirectTrades(o) \/ DirectMakers(o)
                                 \/ DirectOwn(o) \/ DirectRelease(o) \/ DirectFails(o)
      PROVE  PipeInv'
  <2>1. direct[o] # "" /\ writing' = writing
    BY <1>3 DEF DirectInsert, DirectTrades, DirectMakers, DirectOwn, DirectRelease, DirectFails
  <2>2. PICK d \in WriterSteps : direct' = [direct EXCEPT ![o] = d]
    BY <1>3 DEF DirectInsert, DirectTrades, DirectMakers, DirectOwn, DirectRelease, DirectFails,
                WriterSteps
  <2>3. direct \in [OrderIds -> WriterSteps]
    BY DEF PipeInv, PipelineType
  <2>4. \A x \in OrderIds : direct'[x] # "" => direct[x] # ""
    BY <2>1, <2>2, <2>3
  <2> QED
    BY <1>1, <2>1, <2>2, <2>3, <2>4 DEF PipeInv, PipelineType, OnePlace, StageMatchesReply
<1> QED
  BY <1>2, <1>3

\* Steps of clients and of cancellations leave the pipeline alone.
LEMMA CancelsAside ==
    ASSUME \/ \E o \in OrderIds : PostDelete(o) \/ ConsumeDelete(o)
           \/ \E c \in CancelAlls : PostCancelAll(c)
           \/ CancelAll
           \/ CancelFault
    PROVE  UNCHANGED <<pipeline, writers, reply, pc, taker, lost, order, filled, trades>>
BY DEF PostDelete, ConsumeDelete, PostCancelAll, CancelAll, CancelFault, CancelList, CancelDone,
       CancelZrem, CancelDel, CancelUpdate, CancelRelease, CancelRead, CancelFails, RemoveZrem,
       RemoveDel, vars, script, history, past

LEMMA PipeInvNext ==
    ASSUME PipeInv, BookInv, [WorkerNext]_workerVars
    PROVE  PipeInv'
<1>1. CASE UNCHANGED <<pipeline, writers, reply, pc, taker>>
  BY <1>1 DEF pipeline, writers, PipeInv, PipelineType, OnePlace, StageMatchesReply
<1>2. CASE Clients \/ CancelAll \/ CancelFault \/ \E o \in OrderIds : ConsumeDelete(o)
  BY <1>1, <1>2, CancelsAside, EnqueuePipe DEF Clients
<1>3. CASE Consume \/ ConsumeFault
  BY <1>3, PopPipe, SpawnTaskPipe, EvalPipe, TaskEndsPipe DEF Consume, ConsumeFault
<1>4. CASE Write \/ WriteFault
  BY <1>4, TaskEndsPipe, DrainPipe, WritePipe DEF Write, WriteFault
<1>5. CASE UNCHANGED workerVars
  BY <1>1, <1>5 DEF workerVars, vars, script
<1> QED
  BY <1>2, <1>3, <1>4, <1>5 DEF WorkerNext, Work

-------------------------------------------------------------------------------
(* How orders and jobs move from stage to stage.                           *)

LEMMA WaitingMoves ==
    ASSUME PipeInv, [WorkerNext]_workerVars, NEW o \in OrderIds
    PROVE  /\ Waiting(o)' => Waiting(o) \/ o \in Range(held)
           /\ (Waiting(o) /\ ~Waiting(o)') =>
                 \/ TaskRejected(o) \/ SpawnDirect(o) \/ o \in lost'
                 \/ WriteBatch /\ o \in Range(writing)
           /\ lost \subseteq lost'
<1> USE DEF Waiting
<1>1. CASE UNCHANGED <<pipeline, writers, lost>>
  BY <1>1 DEF pipeline, writers
<1>2. CASE \E x \in OrderIds : Enqueue(x)
  BY <1>2 DEF Enqueue, writers, past
<1>3. CASE PopLost \/ \E n \in 1 .. BatchMax : PopBatch(n)
  BY <1>3 DEF PopLost, PopBatch, writers, past
<1>4. CASE SpawnTask
  <2>1. held # <<>> /\ tasks' = tasks \cup {Head(held)} /\ UNCHANGED <<channel, writing, lost>>
    BY <1>4 DEF SpawnTask, writers, past
  <2>2. Head(held) \in Range(held)
    BY <2>1, HeadRange DEF PipeInv, PipelineType
  <2> QED
    BY <2>1, <2>2
<1>5. CASE Eval
  BY <1>5 DEF Eval, pipeline, writers, past
<1>6. ASSUME NEW x \in OrderIds,
             Refuse(x) \/ TaskRejected(x) \/ EvalLost(x) \/ SendJob(x) \/ SpawnDirect(x)
      PROVE  /\ Waiting(o)' => Waiting(o)
             /\ (Waiting(o) /\ ~Waiting(o)') =>
                   \/ TaskRejected(o) \/ SpawnDirect(o) \/ o \in lost'
             /\ lost \subseteq lost'
  <2>1. tasks' = tasks \ {x} /\ x \in tasks /\ writing' = writing
    BY <1>6 DEF Refuse, TaskRejected, EvalLost, SendJob, SpawnDirect, Matched, writers
  <2>2. CASE SendJob(x)
    <3>1. Range(channel') = Range(channel) \cup {x} /\ lost' = lost
      BY <2>2, AppendRange DEF SendJob, past, PipeInv, PipelineType
    <3> QED
      BY <2>1, <3>1
  <2>3. CASE ~SendJob(x)
    <3>1. channel' = channel /\ (x \in lost' \/ TaskRejected(x) \/ SpawnDirect(x))
          /\ lost \subseteq lost'
      BY <1>6, <2>3 DEF Refuse, TaskRejected, EvalLost, SpawnDirect, writers, past
    <3> QED
      BY <2>1, <3>1
  <2> QED
    BY <2>2, <2>3
<1>7. CASE DrainChannel
  <2> DEFINE n == MinOf(WriteMax, Len(channel))
  <2>1. /\ writing = <<>> /\ writing' = SubSeq(channel, 1, n)
        /\ channel' = SubSeq(channel, n + 1, Len(channel)) /\ UNCHANGED <<tasks, lost>>
    BY <1>7 DEF DrainChannel, pipeline, past
  <2>2. channel \in Seq(OrderIds)
    BY DEF PipeInv, PipelineType
  <2>3. n \in Nat /\ n <= Len(channel)
    BY <2>2, SeqFacts, WorkerAssumption DEF MinOf
  <2> HIDE DEF n
  <2>4. Range(writing') \cup Range(channel') = Range(channel) /\ Range(writing) = {}
    BY <2>1, <2>2, <2>3, SplitRange, NothingLeft
  <2> QED
    BY <2>1, <2>4
<1>8. CASE WriteBatch \/ WriteBatchFails
  <2>1. writing' = <<>> /\ UNCHANGED <<tasks, channel>>
    BY <1>8 DEF WriteBatch, WriteBatchFails, pipeline
  <2>2. Range(writing') = {}
    BY <2>1, NothingLeft
  <2>3. CASE WriteBatch
    <3>1. lost' = lost
      BY <2>3 DEF WriteBatch
    <3> QED
      BY <2>1, <2>2, <2>3, <3>1
  <2>4. CASE WriteBatchFails
    <3>1. lost' = lost \cup Range(writing)
      BY <2>4 DEF WriteBatchFails, Range
    <3> QED
      BY <2>1, <2>2, <3>1
  <2> QED
    BY <1>8, <2>3, <2>4
<1>9. CASE \E x \in OrderIds : \/ DirectInsert(x) \/ DirectTrades(x) \/ DirectMakers(x)
                               \/ DirectOwn(x) \/ DirectRelease(x) \/ DirectFails(x)
  <2>1. UNCHANGED <<tasks, channel, writing>> /\ lost \subseteq lost'
    BY <1>9 DEF DirectInsert, DirectTrades, DirectMakers, DirectOwn, DirectRelease, DirectFails,
                pipeline, past
  <2> QED
    BY <2>1
<1>10. CASE Clients \/ CancelAll \/ CancelFault \/ \E x \in OrderIds : ConsumeDelete(x)
  BY <1>1, <1>2, <1>10, CancelsAside DEF Clients
<1>11. CASE UNCHANGED workerVars
  BY <1>1, <1>11 DEF workerVars, past
<1>12. CASE Consume \/ ConsumeFault
  BY <1>3, <1>4, <1>5, <1>6, <1>12 DEF Consume, ConsumeFault
<1>13. CASE Write \/ WriteFault
  BY <1>6, <1>7, <1>8, <1>9, <1>13 DEF Write, WriteFault
<1> QED
  BY <1>10, <1>11, <1>12, <1>13 DEF WorkerNext, Work

\* A writer goes through its statements in order, or stops.
LEMMA WriterMoves ==
    ASSUME PipeInv, [WorkerNext]_workerVars, NEW o \in OrderIds
    PROVE  \/ direct'[o] = direct[o]
           \/ SpawnDirect(o) /\ o \in tasks /\ direct'[o] = "insert"
           \/ DirectInsert(o) /\ direct[o] = "insert" /\ direct'[o] = "trades"
           \/ DirectTrades(o) /\ direct[o] = "trades" /\ direct'[o] = "makers"
           \/ DirectMakers(o) /\ direct[o] = "makers" /\ direct'[o] = "own"
           \/ DirectOwn(o) /\ direct[o] = "own" /\ direct'[o] = "release"
           \/ DirectRelease(o) /\ direct[o] = "release" /\ direct'[o] = ""
           \/ direct[o] # "" /\ direct'[o] = "" /\ (direct[o] = "insert" => o \in lost')
<1>1. direct \in [OrderIds -> WriterSteps]
  BY DEF PipeInv, PipelineType
<1>2. CASE direct' = direct
  BY <1>2
<1>3. CASE Clients \/ CancelAll \/ CancelFault \/ \E x \in OrderIds : ConsumeDelete(x)
  BY <1>2, <1>3, CancelsAside DEF Clients, Enqueue, writers
<1>4. CASE UNCHANGED workerVars
  BY <1>2, <1>4 DEF workerVars, writers
<1>5. CASE Consume \/ ConsumeFault
  BY <1>2, <1>5 DEF Consume, ConsumeFault, PopLost, PopBatch, SpawnTask, Eval, Refuse, TaskRejected,
                    EvalLost, SendJob, writers
<1>6. CASE DrainChannel \/ WriteBatch \/ WriteBatchFails
  BY <1>2, <1>6 DEF DrainChannel, WriteBatch, WriteBatchFails
<1>7. ASSUME NEW x \in OrderIds, x # o,
             \/ SpawnDirect(x) \/ DirectInsert(x) \/ DirectTrades(x) \/ DirectMakers(x)
             \/ DirectOwn(x) \/ DirectRelease(x) \/ DirectFails(x)
      PROVE  direct'[o] = direct[o]
  BY <1>1, <1>7 DEF SpawnDirect, DirectInsert, DirectTrades, DirectMakers, DirectOwn,
                    DirectRelease, DirectFails
<1>8. CASE SpawnDirect(o)
  BY <1>1, <1>8 DEF SpawnDirect, Matched
<1>9. CASE DirectInsert(o) \/ DirectTrades(o) \/ DirectMakers(o)
  BY <1>1, <1>9 DEF DirectInsert, DirectTrades, DirectMakers
<1>10. CASE DirectOwn(o) \/ DirectRelease(o)
  BY <1>1, <1>10 DEF DirectOwn, DirectRelease
<1>11. CASE DirectFails(o)
  BY <1>1, <1>11 DEF DirectFails
<1>12. CASE Write \/ WriteFault
  BY <1>6, <1>7, <1>8, <1>9, <1>10, <1>11, <1>12 DEF Write, WriteFault
<1> QED
  BY <1>3, <1>4, <1>5, <1>12 DEF WorkerNext, Work

-------------------------------------------------------------------------------
(* How a row changes.                                                      *)

CancelledRow == [remaining |-> 0, status |-> "C"]

\* The trades T are taken off the row of x, and their jobs will not do it again.
Deducted(x, T) ==
    /\ Open(row[x])
    /\ row'[x] = Applied(row[x], HitBy(T, x))
    /\ T \subseteq trades
    /\ \A t \in T : ~Unshown(t.taker)' /\ Unshown(t.taker)

LEMMA TradersAreOrders ==
    ASSUME BookInv, NEW t \in trades
    PROVE  t.taker \in OrderIds /\ t.maker \in OrderIds
BY DEF BookInv, BookType, TradeType

\* The statements that write rows.
LEMMA RowWriters ==
    ASSUME [WorkerNext]_workerVars
    PROVE  \/ row' = row
           \/ WriteBatch
           \/ \E o \in OrderIds : DirectMakers(o) \/ DirectInsert(o) \/ DirectOwn(o)
           \/ \E c \in CancelAlls : CancelUpdate(c)
<1>1. CASE Clients \/ CancelFault \/ \E o \in OrderIds : ConsumeDelete(o)
  BY <1>1 DEF Clients, Enqueue, PostDelete, PostCancelAll, CancelFault, CancelFails,
              ConsumeDelete, tables
<1>2. CASE CancelAll
  BY <1>2 DEF CancelAll, CancelList, CancelDone, CancelZrem, CancelDel, CancelRelease,
              CancelRead, tables
<1>3. CASE Consume \/ ConsumeFault
  BY <1>3 DEF Consume, ConsumeFault, PopLost, PopBatch, SpawnTask, Eval, Refuse, TaskRejected,
              EvalLost, SendJob, tables
<1>4. CASE Write \/ WriteFault
  BY <1>4 DEF Write, WriteFault, SpawnDirect, DirectTrades, DirectRelease, DrainChannel,
              WriteBatchFails, DirectFails, tables
<1>5. CASE UNCHANGED workerVars
  BY <1>5 DEF workerVars, tables
<1> QED
  BY <1>1, <1>2, <1>3, <1>4, <1>5 DEF WorkerNext, Work

LEMMA RowChanges ==
    ASSUME PipeInv, BookInv, RowsMatchReplies, [WorkerNext]_workerVars, NEW x \in OrderIds
    PROVE  \/ row'[x] = row[x]
           \/ row'[x] = reply[x] /\ reply[x].status \in OrderStatuses
           \/ \E T : Deducted(x, T)
           \/ /\ row'[x] = CancelledRow
              /\ \E c \in CancelAlls : cancel[c].step = "update" /\ cancel[c].cur = x
<1>0. DOMAIN row = OrderIds
  BY DEF RowsMatchReplies
<1>1. CASE row' = row
  BY <1>1
<1>2. CASE WriteBatch
  <2> DEFINE jobs == Range(writing)
             T == UNION {TradesOf(o) : o \in jobs}
             before == [o \in OrderIds |-> IF o \in jobs THEN reply[o] ELSE row[o]]
  <2>1. /\ row' = [o \in OrderIds |-> IF o \in jobs THEN reply[o] ELSE MakersUpdated(before, T)[o]]
        /\ writing' = <<>> /\ UNCHANGED <<tasks, channel, direct>>
    BY <1>2 DEF WriteBatch, pipeline, Range
  <2>2. CASE x \in jobs
    BY <2>1, <2>2 DEF PipeInv, StageMatchesReply
  <2>3. CASE x \notin jobs
    <3>1. before[x] = row[x]
      BY <2>3
    <3>2. row'[x] = IF Open(row[x]) /\ SomeTrades(T, x) # {} THEN Applied(row[x], HitBy(T, x))
                                                             ELSE row[x]
      BY <2>1, <2>3, <3>1 DEF MakersUpdated
    <3>3. \A t \in T : t \in trades /\ t.taker \in jobs
      BY DEF TradesOf
    <3>4. \A o \in jobs : Unshown(o) /\ ~Unshown(o)'
      <4>1. Range(writing') = {}
        BY <2>1, NothingLeft
      <4>2. jobs \subseteq OrderIds
        BY SeqFacts DEF PipeInv, PipelineType
      <4>3. \A o \in jobs : o \notin tasks /\ o \notin Range(channel) /\ direct[o] = ""
        BY <4>2 DEF PipeInv, OnePlace
      <4> QED
        BY <2>1, <4>1, <4>3 DEF Unshown, Waiting
    <3> HIDE DEF T, jobs, before
    <3> QED
      BY <3>2, <3>3, <3>4 DEF Deducted
  <2> QED
    BY <2>2, <2>3
<1>3. ASSUME NEW o \in OrderIds, DirectMakers(o)
      PROVE  row'[x] = row[x] \/ \E T : Deducted(x, T)
  <2> DEFINE T == TradesOf(o)
  <2>1. /\ row'[x] = IF Open(row[x]) /\ SomeTrades(T, x) # {} THEN Applied(row[x], HitBy(T, x))
                                                              ELSE row[x]
        /\ direct[o] = "makers" /\ direct' = [direct EXCEPT ![o] = "own"]
        /\ UNCHANGED <<tasks, channel, writing>>
    BY <1>3 DEF DirectMakers, MakersUpdated, pipeline
  <2>2. direct'[o] = "own" /\ ~Waiting(o)
    BY <2>1 DEF PipeInv, PipelineType, OnePlace, Waiting
  <2>3. Unshown(o) /\ ~Unshown(o)'
    BY <2>1, <2>2 DEF Unshown, Waiting
  <2>4. \A t \in T : t \in trades /\ t.taker = o
    BY DEF TradesOf
  <2> HIDE DEF T
  <2> QED
    BY <2>1, <2>3, <2>4 DEF Deducted
<1>4. ASSUME NEW o \in OrderIds, DirectInsert(o) \/ DirectOwn(o)
      PROVE  row'[x] = row[x] \/ (row'[x] = reply[x] /\ reply[x].status \in OrderStatuses)
  <2>1. direct[o] # "" /\ row' = [row EXCEPT ![o] = reply[o]]
    BY <1>4 DEF DirectInsert, DirectOwn
  <2>2. reply[o].status \in OrderStatuses
    BY <2>1 DEF PipeInv, StageMatchesReply
  <2> QED
    BY <1>0, <2>1, <2>2
<1>5. ASSUME NEW c \in CancelAlls, CancelUpdate(c)
      PROVE  \/ row'[x] = row[x]
             \/ /\ row'[x] = CancelledRow
                /\ cancel[c].step = "update" /\ cancel[c].cur = x
  BY <1>0, <1>5 DEF CancelUpdate, CancelledRow
<1> QED
  BY <1>1, <1>2, <1>3, <1>4, <1>5, RowWriters

LEMMA RowIsFunction ==
    ASSUME row = [x \in OrderIds |-> row[x]], [WorkerNext]_workerVars
    PROVE  row' = [x \in OrderIds |-> row'[x]]
<1>1. CASE WriteBatch
  BY <1>1 DEF WriteBatch
<1>2. ASSUME NEW o \in OrderIds, DirectMakers(o) \/ DirectInsert(o) \/ DirectOwn(o)
      PROVE  row' = [x \in OrderIds |-> row'[x]]
  BY <1>2 DEF DirectMakers, MakersUpdated, DirectInsert, DirectOwn
<1>3. ASSUME NEW c \in CancelAlls, CancelUpdate(c)
      PROVE  row' = [x \in OrderIds |-> row'[x]]
  BY <1>3 DEF CancelUpdate
<1> QED
  BY <1>1, <1>2, <1>3, RowWriters

\* What a deduction leaves.
LEMMA AppliedRow ==
    ASSUME NEW r \in ReplyType, NEW q \in Nat
    PROVE  /\ Applied(r, q) \in ReplyType
           /\ Applied(r, q).status \in {"F", "PF"}
           /\ Applied(r, q).remaining >= r.remaining - q
           /\ Applied(r, q).status = "F" => Applied(r, q).remaining = 0
<1>1. r.remaining \in Nat
  BY DEF ReplyType
<1>2. Greatest0(r.remaining - q) \in Nat /\ Greatest0(r.remaining - q) >= r.remaining - q
  BY <1>1 DEF Greatest0
<1>3. Applied(r, q) = [remaining |-> Greatest0(r.remaining - q),
                       status |-> IF Greatest0(r.remaining - q) = 0 THEN "F" ELSE "PF"]
  BY DEF Applied
<1> HIDE DEF Greatest0
<1> QED
  BY <1>2, <1>3 DEF ReplyType, Statuses, OrderStatuses

LEMMA NoRowIsNoReply ==
    /\ NoRow.status = "" /\ NoRow.remaining = 0
    /\ \A r : r.status \in OrderStatuses => r # NoRow
<1>1. NoRow.status = "" /\ NoRow.remaining = 0
  BY DEF NoRow
<1>2. "" \notin OrderStatuses
  BY DEF OrderStatuses
<1> QED
  BY <1>1, <1>2

\* The deducted fills are fills of the maker.
LEMMA HitByNat ==
    ASSUME BookInv, NEW x \in OrderIds, NEW T, T \subseteq trades
    PROVE  HitBy(T, x) \in Nat
BY MadeFacts DEF HitBy, SomeTrades

-------------------------------------------------------------------------------
(* Rows and cancellations.                                                 *)

RowInv == PipeInv /\ BookInv /\ RowsMatchReplies /\ CancelType /\ CancelledOffBook

LEMMA RowInvInit == WorkerInit => RowInv
<1> SUFFICES ASSUME WorkerInit PROVE RowInv
  OBVIOUS
<1>1. PipeInv /\ BookInv
  BY PipeInvInit, BookInvInit DEF WorkerInit
<1>2. NoRow.status # "C"
  BY NoRowIsNoReply
<1>3. RowsMatchReplies
  BY DEF WorkerInit, TablesInit, RowsMatchReplies
<1>4. CancelType
  BY DEF WorkerInit, CancelType, NoCancel
<1>5. CancelledOffBook
  BY <1>2 DEF WorkerInit, TablesInit, CancelledOffBook, NoCancel
<1> QED
  BY <1>1, <1>3, <1>4, <1>5 DEF RowInv

LEMMA RowsMatchRepliesNext ==
    ASSUME RowInv, [WorkerNext]_workerVars
    PROVE  RowsMatchReplies'
<1>1. BookMove
  BY WorkerMoves DEF RowInv, PipeInv
<1>2. \A x \in OrderIds : reply[x].status \in OrderStatuses => reply'[x] = reply[x]
  BY <1>1, ReplyKept, RejectedReply DEF RowInv
<1>3. ASSUME NEW x \in OrderIds
      PROVE  /\ row'[x] \in ReplyType \cup {NoRow}
             /\ row'[x] # NoRow =>
                  /\ row'[x].status \in OrderStatuses /\ reply[x].status \in OrderStatuses
                  /\ reply[x].status = "C" => row'[x].status = "C"
  <2>1. /\ row[x] \in ReplyType \cup {NoRow} /\ reply[x] \in ReplyType
        /\ row[x] # NoRow =>
              /\ row[x].status \in OrderStatuses /\ reply[x].status \in OrderStatuses
              /\ reply[x].status = "C" => row[x].status = "C"
    BY DEF RowInv, RowsMatchReplies, BookInv, BookType
  <2>2. CASE row'[x] = row[x]
    BY <2>1, <2>2
  <2>3. CASE row'[x] = reply[x] /\ reply[x].status \in OrderStatuses
    BY <2>1, <2>3
  <2>4. ASSUME NEW T, Deducted(x, T)
        PROVE  /\ row'[x] \in ReplyType /\ row'[x].status \in OrderStatuses
               /\ reply[x].status \in OrderStatuses /\ reply[x].status # "C"
    <3>1. row[x] # NoRow /\ row[x].status # "C" /\ row[x] \in ReplyType
      BY <2>1, <2>4, NoRowIsNoReply DEF Deducted, Open
    <3>2. HitBy(T, x) \in Nat
      BY <2>4, HitByNat DEF Deducted, RowInv
    <3>3. row'[x] \in ReplyType /\ row'[x].status \in {"F", "PF"}
      BY <2>4, <3>1, <3>2, AppliedRow DEF Deducted
    <3> QED
      BY <2>1, <3>1, <3>3 DEF OrderStatuses
  <2>5. CASE row'[x] = CancelledRow /\ \E c \in CancelAlls :
                cancel[c].step = "update" /\ cancel[c].cur = x
    <3>1. reply[x].status \in OrderStatuses
      BY <2>5 DEF RowInv, CancelledOffBook
    <3>2. CancelledRow \in ReplyType /\ CancelledRow.status = "C"
      BY DEF CancelledRow, ReplyType, Statuses, OrderStatuses
    <3> QED
      BY <2>5, <3>1, <3>2 DEF OrderStatuses
  <2> QED
    BY <2>2, <2>3, <2>4, <2>5, RowChanges DEF RowInv
<1>4. row' = [x \in OrderIds |-> row'[x]]
  <2>1. row = [x \in OrderIds |-> row[x]]
    BY DEF RowInv, RowsMatchReplies
  <2> QED
    BY <2>1, RowIsFunction
<1>5. row' \in [OrderIds -> ReplyType \cup {NoRow}]
  BY <1>3, <1>4
<1> QED
  BY <1>2, <1>3, <1>5 DEF RowsMatchReplies

\* The actions that move a cancellation.
LEMMA CancelMoves ==
    ASSUME [WorkerNext]_workerVars
    PROVE  \/ cancel' = cancel
           \/ \E c \in CancelAlls :
                 \/ PostCancelAll(c) \/ CancelList(c) \/ CancelDone(c) \/ CancelZrem(c)
                 \/ CancelDel(c) \/ CancelUpdate(c) \/ CancelRelease(c) \/ CancelFails(c)
                 \/ \E o \in OrderIds : CancelRead(c, o)
<1>1. CASE Clients \/ CancelFault \/ \E o \in OrderIds : ConsumeDelete(o)
  BY <1>1 DEF Clients, Enqueue, PostDelete, CancelFault, ConsumeDelete, cancels
<1>2. CASE CancelAll
  BY <1>2 DEF CancelAll
<1>3. CASE Consume \/ ConsumeFault
  BY <1>3 DEF Consume, ConsumeFault, PopLost, PopBatch, SpawnTask, Eval, Refuse, TaskRejected,
              EvalLost, SendJob, cancels
<1>4. CASE Write \/ WriteFault
  BY <1>4 DEF Write, WriteFault, SpawnDirect, DirectInsert, DirectTrades, DirectMakers, DirectOwn,
              DirectRelease, DrainChannel, WriteBatch, WriteBatchFails, DirectFails, cancels
<1>5. CASE UNCHANGED workerVars
  BY <1>5 DEF workerVars, cancels
<1> QED
  BY <1>1, <1>2, <1>3, <1>4, <1>5 DEF WorkerNext, Work

\* Removing a member of one sorted set takes the order off the book.
LEMMA ZremTakesOff ==
    ASSUME BookInv, NEW o \in OrderIds, RemoveZrem(o)
    PROVE  /\ OffBook(o)' /\ reply[o].status \in OrderStatuses /\ reply' = reply
<1>1. zset \in [Sides -> SUBSET OrderIds] /\ order[o].side \in Sides
  BY OrderFields DEF BookInv, BookType
<1>2. zset' = [zset EXCEPT ![order[o].side] = @ \ {o}] /\ reply' = reply
      /\ reply[o].status \in {"N", "PF"}
  BY DEF RemoveZrem, ZRem
<1>3. \A s \in Sides : o \in zset[s] => s = order[o].side
  BY DEF BookInv, Accounting, MembersSubmitted
<1> QED
  BY <1>1, <1>2, <1>3 DEF OffBook, OrderStatuses

CancelSteps == {"", "posted", "next", "zrem", "del", "update", "release", "done"}

\* A cancellation as it may be in the next state.
GoodCancel(r) ==
    /\ r \in [step : CancelSteps, list : SUBSET OrderIds, cur : OrderIds \cup {0}, left : Nat]
    /\ r.step \in {"zrem", "del", "update", "release"} => r.cur \in OrderIds
    /\ r.step \in {"del", "update", "release"} =>
          reply'[r.cur].status \in OrderStatuses /\ \A s \in Sides : r.cur \notin zset'[s]

LEMMA CancelNext ==
    ASSUME RowInv, [WorkerNext]_workerVars, NEW c \in CancelAlls
    PROVE  GoodCancel(cancel'[c])
<1>1. BookMove
  BY WorkerMoves DEF RowInv, PipeInv
<1>2. GoodCancel(cancel[c])
  <2>1. /\ cancel[c] \in [step : CancelSteps, list : SUBSET OrderIds, cur : OrderIds \cup {0},
                          left : Nat]
        /\ cancel[c].step \in {"zrem", "del", "update", "release"} => cancel[c].cur \in OrderIds
        /\ cancel[c].step \in {"del", "update", "release"} =>
              reply[cancel[c].cur].status \in OrderStatuses /\ OffBook(cancel[c].cur)
    BY DEF RowInv, CancelType, CancelledOffBook, CancelSteps
  <2>2. ASSUME NEW o \in OrderIds, reply[o].status \in OrderStatuses, OffBook(o)
        PROVE  reply'[o].status \in OrderStatuses /\ \A s \in Sides : o \notin zset'[s]
    <3>1. reply[o] # NotSubmitted
      BY <2>2, RejectedReply
    <3>2. OffBook(o)' /\ reply'[o] = reply[o]
      BY <1>1, <2>2, <3>1, ReplyKept, OffBookKept DEF RowInv
    <3> QED
      BY <2>2, <3>2 DEF OffBook
  <2> QED
    BY <2>1, <2>2 DEF GoodCancel
<1>3. cancel = [d \in CancelAlls |-> cancel[d]]
  BY DEF RowInv, CancelType
<1>4. CASE cancel'[c] = cancel[c]
  BY <1>2, <1>4
<1>5. ASSUME NEW d \in CancelAlls \ {c},
             \/ PostCancelAll(d) \/ CancelList(d) \/ CancelDone(d) \/ CancelZrem(d)
             \/ CancelDel(d) \/ CancelUpdate(d) \/ CancelRelease(d) \/ CancelFails(d)
             \/ \E o \in OrderIds : CancelRead(d, o)
      PROVE  cancel'[c] = cancel[c]
  BY <1>3, <1>5 DEF PostCancelAll, CancelList, CancelDone, CancelZrem, CancelDel, CancelUpdate,
                    CancelRelease, CancelFails, CancelRead
<1>6. CASE PostCancelAll(c) \/ CancelDone(c)
  <2>1. PICK t \in {"posted", "done"} : cancel'[c] = [cancel[c] EXCEPT !.step = t]
    BY <1>3, <1>6 DEF PostCancelAll, CancelDone
  <2> QED
    BY <1>2, <2>1 DEF GoodCancel, CancelSteps
<1>7. CASE CancelList(c)
  <2>1. PICK l \in SUBSET OrderIds : cancel'[c] = [cancel[c] EXCEPT !.step = "next", !.list = l]
    BY <1>3, <1>7 DEF CancelList
  <2> QED
    BY <1>2, <2>1 DEF GoodCancel, CancelSteps
<1>8. ASSUME NEW o \in OrderIds, CancelRead(c, o) PROVE GoodCancel(cancel'[c])
  <2>1. cancel[c].step = "next"
    BY <1>8 DEF CancelRead
  <2>2. row[o].remaining \in Nat
    <3>1. row[o] \in ReplyType \/ row[o] = NoRow
      BY DEF RowInv, RowsMatchReplies
    <3>2. CASE row[o] \in ReplyType
      BY <3>2 DEF ReplyType
    <3>3. CASE row[o] = NoRow
      <4>1. NoRow.remaining = 0
        BY DEF NoRow
      <4> QED
        BY <3>3, <4>1
    <3> QED
      BY <3>1, <3>2, <3>3
  <2>3. CASE Open(row[o])
    <3>1. cancel'[c] = [step |-> "zrem", list |-> cancel[c].list \ {o}, cur |-> o,
                        left |-> row[o].remaining]
      BY <1>3, <1>8, <2>3 DEF CancelRead
    <3>2. cancel[c].list \ {o} \in SUBSET OrderIds
      BY <1>2 DEF GoodCancel
    <3> QED
      BY <2>2, <3>1, <3>2 DEF GoodCancel, CancelSteps
  <2>4. CASE ~Open(row[o])
    <3>1. cancel'[c] = [cancel[c] EXCEPT !.list = cancel[c].list \ {o}]
      BY <1>3, <1>8, <2>4 DEF CancelRead
    <3> QED
      BY <1>2, <2>1, <3>1 DEF GoodCancel, CancelSteps
  <2> QED
    BY <2>3, <2>4
<1>9. CASE CancelZrem(c)
  <2>1. cancel[c].step = "zrem" /\ cancel'[c] = [cancel[c] EXCEPT !.step = "del"]
        /\ RemoveZrem(cancel[c].cur)
    BY <1>3, <1>9 DEF CancelZrem
  <2>2. cancel[c].cur \in OrderIds
    BY <1>2, <2>1 DEF GoodCancel
  <2>3. /\ reply'[cancel[c].cur].status \in OrderStatuses
        /\ \A s \in Sides : cancel[c].cur \notin zset'[s]
    <3>1. \A o \in OrderIds :
            RemoveZrem(o) => /\ \A s \in Sides : o \notin zset'[s]
                             /\ reply'[o].status \in OrderStatuses
      BY ZremTakesOff DEF RowInv, OffBook
    <3> QED
      BY <2>1, <2>2, <3>1
  <2> QED
    BY <1>2, <2>1, <2>2, <2>3 DEF GoodCancel, CancelSteps
<1>10. CASE CancelDel(c) \/ CancelUpdate(c)
  <2>1. PICK t \in {"update", "release"} : cancel'[c] = [cancel[c] EXCEPT !.step = t]
        /\ cancel[c].step \in {"del", "update"}
    BY <1>3, <1>10 DEF CancelDel, CancelUpdate
  <2> QED
    BY <1>2, <2>1 DEF GoodCancel, CancelSteps
<1>11. CASE CancelRelease(c) \/ CancelFails(c)
  <2>1. cancel'[c] = [cancel[c] EXCEPT !.step = "next", !.cur = 0, !.left = 0]
    BY <1>3, <1>11 DEF CancelRelease, CancelFails
  <2>2. cancel'[c] = [step |-> "next", list |-> cancel[c].list, cur |-> 0, left |-> 0]
    BY <1>2, <2>1 DEF GoodCancel
  <2>3. cancel[c].list \in SUBSET OrderIds
    BY <1>2 DEF GoodCancel
  <2> QED
    BY <2>2, <2>3 DEF GoodCancel, CancelSteps
<1> QED
  BY <1>4, <1>5, <1>6, <1>7, <1>8, <1>9, <1>10, <1>11, CancelMoves

LEMMA RowInvNext == RowInv /\ [WorkerNext]_workerVars => RowInv'
<1> SUFFICES ASSUME RowInv, [WorkerNext]_workerVars PROVE RowInv'
  OBVIOUS
<1>1. BookMove
  BY WorkerMoves DEF RowInv, PipeInv
<1>2. BookInv' /\ PipeInv'
  BY <1>1, BookMoveInv, PipeInvNext DEF RowInv
<1>3. RowsMatchReplies'
  BY RowsMatchRepliesNext
<1>4. ASSUME NEW o \in OrderIds, reply[o].status \in OrderStatuses, OffBook(o)
      PROVE  reply'[o].status \in OrderStatuses /\ OffBook(o)'
  <2>1. reply[o] # NotSubmitted
    BY <1>4, RejectedReply
  <2> QED
    BY <1>1, <1>4, <2>1, ReplyKept, OffBookKept DEF RowInv
<1>5. ASSUME NEW o \in OrderIds, row'[o].status = "C"
      PROVE  reply[o].status \in OrderStatuses /\ OffBook(o)
  <2>1. CASE row'[o] = row[o]
    BY <1>5, <2>1 DEF RowInv, CancelledOffBook
  <2>2. CASE row'[o] = reply[o] /\ reply[o].status \in OrderStatuses
    BY <1>5, <2>2 DEF RowInv, BookInv, OpenBook, OffBook
  <2>3. ASSUME NEW T, Deducted(o, T) PROVE FALSE
    <3>1. row[o] \in ReplyType
      BY <2>3, NoRowIsNoReply DEF Deducted, Open, RowInv, RowsMatchReplies
    <3>2. row'[o].status \in {"F", "PF"}
      BY <2>3, <3>1, HitByNat, AppliedRow DEF Deducted, RowInv
    <3> QED
      BY <1>5, <3>2
  <2>4. CASE \E c \in CancelAlls : cancel[c].step = "update" /\ cancel[c].cur = o
    BY <2>4 DEF RowInv, CancelledOffBook
  <2> QED
    BY <2>1, <2>2, <2>3, <2>4, RowChanges DEF RowInv
<1>6. \A c \in CancelAlls : GoodCancel(cancel'[c])
  BY CancelNext
<1>7. cancel' = [c \in CancelAlls |-> cancel'[c]]
  <2>1. cancel = [c \in CancelAlls |-> cancel[c]]
    BY DEF RowInv, CancelType
  <2> QED
    BY <2>1, CancelMoves DEF PostCancelAll, CancelList, CancelDone, CancelZrem, CancelDel,
       CancelUpdate, CancelRelease, CancelFails, CancelRead
<1>8. CancelType'
  BY <1>6, <1>7 DEF CancelType, GoodCancel, CancelSteps
<1>9. CancelledOffBook'
  <2>1. \A o \in OrderIds :
          row'[o].status = "C" => reply'[o].status \in OrderStatuses /\ \A s \in Sides : o \notin zset'[s]
    BY <1>4, <1>5 DEF OffBook
  <2> QED
    BY <1>6, <2>1 DEF CancelledOffBook, GoodCancel, OffBook
<1> QED
  BY <1>2, <1>3, <1>8, <1>9 DEF RowInv

-------------------------------------------------------------------------------
(* No job is lost between the stages.                                      *)

\* Where the job of o is, or what became of it.
Placed(o) == Waiting(o) \/ o \in lost \/ direct[o] = "insert" \/ row[o] # NoRow

AllPlaced == \A o \in OrderIds : reply[o].status \in OrderStatuses => Placed(o)

LEMMA RowStays ==
    ASSUME RowInv, [WorkerNext]_workerVars, NEW o \in OrderIds, row[o] # NoRow
    PROVE  row'[o] # NoRow
<1>1. CASE row'[o] = row[o]
  BY <1>1
<1>2. CASE row'[o] = reply[o] /\ reply[o].status \in OrderStatuses
  BY <1>2, NoRowIsNoReply
<1>3. ASSUME NEW T, Deducted(o, T) PROVE row'[o] # NoRow
  <2>1. row[o] \in ReplyType
    BY DEF RowInv, RowsMatchReplies
  <2>2. row'[o].status \in OrderStatuses
    BY <1>3, <2>1, HitByNat, AppliedRow DEF Deducted, RowInv, OrderStatuses
  <2> QED
    BY <2>2, NoRowIsNoReply
<1>4. CASE row'[o] = CancelledRow
  <2>1. CancelledRow.status \in OrderStatuses
    BY DEF CancelledRow, OrderStatuses
  <2> QED
    BY <1>4, <2>1, NoRowIsNoReply
<1> QED
  BY <1>1, <1>2, <1>3, <1>4, RowChanges DEF RowInv

\* Only the running script's order gets a matched reply, and its task has it.
LEMMA NewReplies ==
    ASSUME RowInv, [WorkerNext]_workerVars, NEW o \in OrderIds,
           reply'[o].status \in OrderStatuses, reply[o].status \notin OrderStatuses
    PROVE  o \in tasks'
<1>1. reply'[o] # reply[o]
  OBVIOUS
<1>2. Eval
  <2>1. CASE vars' = vars
    BY <1>1, <2>1 DEF vars
  <2>2. CASE Clients \/ CancelAll \/ CancelFault \/ \E x \in OrderIds : ConsumeDelete(x)
    BY <1>1, <2>1, <2>2, CancelsAside DEF Clients, Enqueue
  <2>3. CASE ConsumeFault \/ WriteFault
    BY <2>1, <2>3 DEF ConsumeFault, WriteFault, PopLost, Refuse, EvalLost, WriteBatchFails,
                      DirectFails
  <2>4. CASE Consume
    BY <2>1, <2>4 DEF Consume, PopBatch, SpawnTask, TaskRejected, SendJob
  <2>5. CASE Write
    BY <2>1, <2>5 DEF Write, SpawnDirect, DirectInsert, DirectTrades, DirectMakers, DirectOwn,
                      DirectRelease, DrainChannel, WriteBatch
  <2>6. CASE UNCHANGED workerVars
    BY <2>1, <2>6 DEF workerVars
  <2> QED
    BY <2>2, <2>3, <2>4, <2>5, <2>6 DEF WorkerNext, Work
<1>3. tasks' = tasks
  BY <1>2 DEF Eval, pipeline
<1>4. CASE \E x \in tasks : Reject(x) \/ Begin(x)
  <2>1. PICK x \in tasks : Reject(x) \/ Begin(x)
    BY <1>4
  <2>2. reply'[o] # reply[o] => o = x
    BY <2>1 DEF Reject, Begin, RowInv, BookInv, BookType
  <2> QED
    BY <1>1, <1>3, <2>2
<1>5. CASE Finish
  <2>1. taker \in tasks
    BY <1>5 DEF Finish, RowInv, PipeInv, StageMatchesReply
  <2>2. reply'[o] # reply[o] => o = taker
    BY <1>5 DEF Finish, RowInv, BookInv, BookType
  <2> QED
    BY <1>1, <1>3, <2>1, <2>2
<1>6. CASE \E r \in OrderIds : Visit(r)
  BY <1>1, <1>6 DEF Visit, SkipGhost, LeaveLoop, CancelMaker, Trade
<1> QED
  BY <1>2, <1>4, <1>5, <1>6 DEF Eval

LEMMA AllPlacedNext ==
    ASSUME RowInv, AllPlaced, [WorkerNext]_workerVars
    PROVE  AllPlaced'
<1> SUFFICES ASSUME NEW o \in OrderIds, reply'[o].status \in OrderStatuses
             PROVE  Placed(o)'
  BY DEF AllPlaced
<1>1. CASE reply[o].status \notin OrderStatuses
  BY <1>1, NewReplies DEF Placed, Waiting
<1>2. CASE reply[o].status \in OrderStatuses
  <2>1. PipeInv /\ BookInv /\ RowsMatchReplies
    BY DEF RowInv
  <2>2. CASE row[o] # NoRow
    BY <2>2, RowStays DEF Placed
  <2>3. CASE o \in lost
    BY <2>1, <2>3, WaitingMoves DEF Placed
  <2>4. CASE Waiting(o)
    <3>1. CASE TaskRejected(o)
      BY <1>2, <3>1, RejectedReply DEF TaskRejected
    <3>2. CASE SpawnDirect(o)
      <4>1. direct'[o] = "insert"
        BY <2>1, <3>2 DEF SpawnDirect, PipeInv, PipelineType
      <4> QED
        BY <4>1 DEF Placed
    <3>3. CASE WriteBatch /\ o \in Range(writing)
      <4>1. row'[o] = reply[o]
        BY <3>3 DEF WriteBatch, Range
      <4> QED
        BY <1>2, <4>1, NoRowIsNoReply DEF Placed
    <3> QED
      BY <2>1, <2>4, <3>1, <3>2, <3>3, WaitingMoves DEF Placed
  <2>5. CASE direct[o] = "insert"
    <3>1. \/ direct'[o] = "insert" \/ o \in lost' \/ DirectInsert(o)
      BY <2>1, <2>5, WriterMoves
    <3>2. CASE DirectInsert(o)
      <4>1. row'[o] = reply[o]
        BY <2>1, <3>2 DEF DirectInsert, RowsMatchReplies
      <4> QED
        BY <1>2, <4>1, NoRowIsNoReply DEF Placed
    <3> QED
      BY <3>1, <3>2 DEF Placed
  <2> QED
    BY <1>2, <2>2, <2>3, <2>4, <2>5 DEF AllPlaced, Placed
<1> QED
  BY <1>1, <1>2

\* However the stages interleave and whichever of them fail, a matched order is
\* with its task, on its way to a writer, in the database or given up in a
\* failure: no order falls between two stages.
THEOREM NoJobIsLost == WorkerSpec => []NoJobLost
<1>1. WorkerInit => RowInv /\ AllPlaced
  <2>1. WorkerInit => AllPlaced
    BY RejectedReply DEF WorkerInit, Init, AllPlaced
  <2> QED
    BY <2>1, RowInvInit
<1>2. RowInv /\ AllPlaced /\ [WorkerNext]_workerVars => RowInv' /\ AllPlaced'
  BY RowInvNext, AllPlacedNext
<1>3. AllPlaced => NoJobLost
  BY DEF AllPlaced, Placed, Waiting, NoJobLost, Range
<1> QED
  BY <1>1, <1>2, <1>3, PTL DEF WorkerSpec

-------------------------------------------------------------------------------
(* A cancelled row means that trading is over.                             *)

LEMMA OffBookTradesNoMore ==
    ASSUME BookInv, BookMove, NEW o \in OrderIds, reply[o].status \in OrderStatuses, OffBook(o)
    PROVE  filled'[o] = filled[o]
<1>1. CASE \E x \in OrderIds : Reject(x) \/ Begin(x)
  BY <1>1 DEF Reject, Begin, history
<1>2. CASE Finish
  BY <1>2 DEF Finish, history
<1>3. ASSUME NEW r \in OrderIds, Trade(r) PROVE filled'[o] = filled[o]
  <2>1. pc = "walk" /\ r \in cands
    BY <1>3 DEF Trade, AtCandidate
  <2>2. r \in zset[order[r].side] /\ order[r].side \in Sides
    BY <2>1, OrderFields DEF BookInv, OpenBook, BookType
  <2>3. reply[taker] = NotSubmitted
    BY <2>1 DEF BookInv, Accounting, TakerIsNew
  <2>4. o # r /\ o # taker
    BY <2>2, <2>3, RejectedReply DEF OffBook
  <2> QED
    BY <1>3, <2>4 DEF Trade, BookInv, BookType
<1>4. CASE \/ \E r \in OrderIds : SkipGhost(r) \/ LeaveLoop(r) \/ CancelMaker(r)
           \/ Maintenance
           \/ SweepFault
           \/ UNCHANGED vars
  BY <1>4, RemovalsShrink DEF BookInv
<1>5. CASE UNCHANGED history
  BY <1>5 DEF history
<1> QED
  BY <1>1, <1>2, <1>3, <1>4, <1>5 DEF BookMove, Next, Script, Visit

\* The row of an order is closed only after remove_order_from_book has taken the
\* order off the book, so an order the database calls Cancelled does not trade.
THEOREM CancelledTradesNoMore == WorkerSpec => NoFillAfterCancel
<1>1. RowInv /\ [WorkerNext]_workerVars
        => [\A o \in OrderIds : row[o].status = "C" => filled'[o] = filled[o]]_workerVars
  <2> SUFFICES ASSUME RowInv, [WorkerNext]_workerVars, NEW o \in OrderIds, row[o].status = "C"
               PROVE  filled'[o] = filled[o]
    OBVIOUS
  <2>1. BookMove /\ BookInv
    BY WorkerMoves DEF RowInv, PipeInv
  <2>2. reply[o].status \in OrderStatuses /\ OffBook(o)
    BY DEF RowInv, CancelledOffBook
  <2> QED
    BY <2>1, <2>2, OffBookTradesNoMore
<1> QED
  BY <1>1, RowInvInit, RowInvNext, PTL DEF WorkerSpec, NoFillAfterCancel

-------------------------------------------------------------------------------
(* A job is written once.                                                  *)

\* A job that has done a statement does not get it back.
LEMMA DoneIsDone ==
    ASSUME PipeInv, BookInv, [WorkerNext]_workerVars, NEW t \in trades
    PROVE  /\ ~Unpaid(t.taker) => ~Unpaid(t.taker)'
           /\ ~Unshown(t.taker) => ~Unshown(t.taker)'
<1> DEFINE y == t.taker
<1>1. y \in OrderIds /\ y \in Taken
  BY TradersAreOrders DEF BookInv, TradesCounted
<1>2. y \notin Range(held)
  <2> SUFFICES ASSUME y \in Range(held) PROVE FALSE
    OBVIOUS
  <2>1. reply[y] = NotSubmitted /\ y \notin tasks
    BY DEF PipeInv, StageMatchesReply, OnePlace
  <2>2. pc = "walk" /\ taker = y
    BY <1>1, <2>1 DEF Taken, Submitted
  <2> QED
    BY <2>1, <2>2 DEF PipeInv, StageMatchesReply
<1> HIDE DEF y
<1>3. Waiting(y)' => Waiting(y)
  BY <1>1, <1>2, WaitingMoves
<1>4. direct'[y] \in {"insert", "trades"} => direct[y] \in {"insert", "trades"} \/ Waiting(y)
  BY <1>1, WriterMoves DEF Waiting
<1>5. direct'[y] \in {"insert", "trades", "makers"} =>
        direct[y] \in {"insert", "trades", "makers"} \/ Waiting(y)
  BY <1>1, WriterMoves DEF Waiting
<1> QED
  BY <1>3, <1>4, <1>5 DEF Unpaid, Unshown, y

-------------------------------------------------------------------------------
(* What the rows show.                                                     *)

LEMMA RowsCoverNext ==
    ASSUME RowInv, RowsCover, [WorkerNext]_workerVars
    PROVE  RowsCover'
<1> SUFFICES ASSUME NEW x \in OrderIds, row'[x] # NoRow, row'[x].status # "C"
             PROVE  /\ row'[x].remaining >= reply'[x].remaining - Units(Shown(x)')
                    /\ row'[x].status = "F" => row'[x].remaining = 0
  BY DEF RowsCover
<1>1. PipeInv /\ BookInv /\ RowsMatchReplies /\ RowInv' /\ BookInv' /\ BookMove
  BY RowInvNext, WorkerMoves DEF RowInv, PipeInv
<1>2. /\ trades \subseteq trades'
      /\ \A t \in trades : ~Unshown(t.taker) => ~Unshown(t.taker)'
  BY <1>1, TradesKept, DoneIsDone
<1>3. Shown(x) \subseteq Shown(x)'
  BY <1>2 DEF Shown
<1>4. /\ Shown(x)' \subseteq {t \in trades' : t.maker = x}
      /\ Shown(x) \subseteq {t \in trades : t.maker = x}
  BY DEF Shown
<1>5. /\ IsFiniteSet(Shown(x)') /\ Shown(x)' \subseteq TradeType /\ Units(Shown(x)') \in Nat
      /\ IsFiniteSet(Shown(x)) /\ Shown(x) \subseteq TradeType /\ Units(Shown(x)) \in Nat
  <2>1. IsFiniteSet({t \in trades' : t.maker = x}) /\ {t \in trades' : t.maker = x} \subseteq TradeType
    <3>1. IsFiniteSet(trades') /\ trades' \subseteq TradeType
      BY <1>1 DEF BookInv, TradesCounted, BookType
    <3> QED
      BY <3>1, FS_Subset
  <2>2. IsFiniteSet(Shown(x)') /\ Shown(x)' \subseteq TradeType
    BY <1>4, <2>1, FS_Subset
  <2>3. IsFiniteSet(Shown(x)) /\ Shown(x) \subseteq TradeType
    BY <1>3, <2>2, FS_Subset
  <2> QED
    BY <2>2, <2>3, UnitsNat
<1>6. reply[x].remaining \in Nat /\ reply[x] \in ReplyType
  BY <1>1 DEF BookInv, BookType, ReplyType
<1>7. reply'[x] = reply[x]
  <2>1. reply[x].status \in OrderStatuses
    <3>1. CASE \E T : Deducted(x, T)
      <4>1. row[x] # NoRow
        BY <3>1, NoRowIsNoReply DEF Deducted, Open
      <4> QED
        BY <1>1, <4>1 DEF RowsMatchReplies
    <3>2. CASE row'[x] = row[x]
      BY <1>1, <3>2 DEF RowsMatchReplies
    <3>3. CASE row'[x] = CancelledRow
      BY <3>3 DEF CancelledRow
    <3> QED
      BY <1>1, <3>1, <3>2, <3>3, RowChanges
  <2> QED
    BY <1>1, <2>1, ReplyKept, RejectedReply
<1>8. CASE row'[x] = row[x]
  <2>1. row[x].remaining >= reply[x].remaining - Units(Shown(x))
        /\ (row[x].status = "F" => row[x].remaining = 0)
    BY <1>8 DEF RowsCover
  <2>2. Units(Shown(x)) <= Units(Shown(x)')
    BY <1>3, <1>5, UnitsSubset
  <2>3. row[x].remaining \in Nat
    <3>1. row[x] \in ReplyType
      BY <1>1, <1>8 DEF RowsMatchReplies
    <3> QED
      BY <3>1 DEF ReplyType
  <2> QED
    BY <1>5, <1>6, <1>7, <1>8, <2>1, <2>2, <2>3
<1>9. CASE row'[x] = reply[x] /\ reply[x].status \in OrderStatuses
  <2>1. reply[x].status = "F" => reply[x].remaining = 0
    BY <1>1 DEF BookInv, Reported
  <2> QED
    BY <1>5, <1>6, <1>7, <1>9, <2>1
<1>10. ASSUME NEW T, Deducted(x, T)
       PROVE  /\ row'[x].remaining >= reply'[x].remaining - Units(Shown(x)')
              /\ row'[x].status = "F" => row'[x].remaining = 0
  <2> DEFINE hit == SomeTrades(T, x)
  <2>1. row[x] # NoRow /\ row[x].status # "C" /\ row[x] \in ReplyType
    BY <1>1, <1>10, NoRowIsNoReply DEF Deducted, Open, RowsMatchReplies
  <2>2. HitBy(T, x) \in Nat /\ HitBy(T, x) = Units(hit)
    BY <1>1, <1>10, HitByNat DEF Deducted, HitBy
  <2>3. /\ row'[x].remaining >= row[x].remaining - HitBy(T, x)
        /\ row'[x].status = "F" => row'[x].remaining = 0
        /\ row'[x] \in ReplyType
    BY <1>10, <2>1, <2>2, AppliedRow DEF Deducted
  <2>4. row[x].remaining >= reply[x].remaining - Units(Shown(x))
    BY <2>1 DEF RowsCover
  <2>5. hit \cap Shown(x) = {} /\ hit \subseteq Shown(x)'
    <3>1. \A t \in hit : t \in trades /\ t.maker = x /\ Unshown(t.taker) /\ ~Unshown(t.taker)'
      BY <1>10 DEF Deducted, SomeTrades
    <3> QED
      BY <1>2, <3>1 DEF Shown
  <2> HIDE DEF hit
  <2>6. Units(Shown(x)) + Units(hit) <= Units(Shown(x)')
    <3>1. IsFiniteSet(hit) /\ hit \subseteq TradeType
      BY <1>5, <2>5, FS_Subset
    <3>2. Units(Shown(x) \cup hit) = Units(Shown(x)) + Units(hit)
      <4>1. Shown(x) \cap hit = {}
        BY <2>5
      <4> QED
        BY <1>5, <3>1, <4>1, UnitsDisjoint
    <3>3. Shown(x) \cup hit \subseteq Shown(x)'
      BY <1>3, <2>5
    <3>4. Units(Shown(x) \cup hit) <= Units(Shown(x)')
      BY <1>5, <3>3, UnitsSubset
    <3> QED
      BY <3>2, <3>4
  <2>7. row[x].remaining \in Nat /\ row'[x].remaining \in Nat
    BY <2>1, <2>3 DEF ReplyType
  <2> QED
    BY <1>5, <1>6, <1>7, <2>2, <2>3, <2>4, <2>6, <2>7
<1>11. row'[x] # CancelledRow
  BY DEF CancelledRow
<1> QED
  BY <1>1, <1>8, <1>9, <1>10, <1>11, RowChanges

RowsInv == RowInv /\ RowsCover

LEMMA RowsInvInit == WorkerInit => RowsInv
BY RowInvInit DEF WorkerInit, TablesInit, RowsInv, RowsCover

LEMMA RowsInvNext == RowsInv /\ [WorkerNext]_workerVars => RowsInv'
BY RowInvNext, RowsCoverNext DEF RowsInv

\* The row of an order, what is left of it and what it has traded.
LEMMA RowAndBook ==
    ASSUME RowsInv, NEW o \in OrderIds, row[o] # NoRow
    PROVE  /\ row[o].remaining >= Left(o)
           /\ row[o].status = "F" => filled[o] = order[o].qty
<1>1. /\ BookInv /\ row[o] \in ReplyType /\ row[o].status \in OrderStatuses
      /\ reply[o].status \in OrderStatuses
      /\ reply[o].status = "C" => row[o].status = "C"
  BY DEF RowsInv, RowInv, RowsMatchReplies
<1>2. row[o].remaining \in Nat /\ order[o].qty \in Nat /\ filled[o] \in Nat
  BY <1>1, OrderFields DEF ReplyType, BookInv, BookType
<1>3. CASE row[o].status = "C"
  <2>1. OffBook(o) /\ order[o].side \in Sides /\ ~(pc = "walk" /\ taker = o)
    BY <1>1, <1>3, OrderFields, RejectedReply
    DEF RowsInv, RowInv, CancelledOffBook, BookInv, BookType, Accounting, TakerIsNew
  <2>2. Left(o) = 0
    BY <2>1 DEF Left, OffBook
  <2> QED
    BY <1>2, <1>3, <2>2
<1>4. CASE row[o].status # "C"
  <2>1. /\ row[o].remaining >= reply[o].remaining - Units(Shown(o))
        /\ row[o].status = "F" => row[o].remaining = 0
    BY <1>4 DEF RowsInv, RowsCover
  <2>2. Units(Shown(o)) \in Nat /\ Units(Shown(o)) <= MadeBy(o)
    <3>1. Shown(o) \subseteq {t \in trades : t.maker = o}
      BY DEF Shown
    <3> QED
      BY <1>1, <3>1, MadeFacts
  <2>3. reply[o].status \in {"N", "PF", "F"}
    BY <1>1, <1>4 DEF OrderStatuses
  <2>4. /\ MadeBy(o) \in Nat /\ reply[o].remaining \in Nat /\ Left(o) \in Nat
        /\ filled[o] = order[o].qty - reply[o].remaining + MadeBy(o)
        /\ MadeBy(o) + Left(o) <= reply[o].remaining
    BY <1>1, <2>3, MakerBound
  <2> QED
    BY <1>2, <2>1, <2>2, <2>4
<1> QED
  BY <1>3, <1>4

\* On the queue path the database never shows less than the book still holds,
\* whichever jobs are late, lost or half written.
THEOREM QueueRowsTrailBook == WorkerSpec => []RowNeverBelowBook
<1>1. RowsInv => RowNeverBelowBook
  BY RowAndBook DEF RowNeverBelowBook
<1> QED
  BY <1>1, RowsInvInit, RowsInvNext, PTL DEF WorkerSpec

\* On the queue path an order recorded as Filled has traded its whole quantity.
THEOREM QueueFilledRowsAreFilled == WorkerSpec => []FilledRowIsFilled
<1>1. RowsInv => FilledRowIsFilled
  <2>1. NoRow.status # "F"
    BY NoRowIsNoReply
  <2> QED
    BY <2>1, RowAndBook DEF FilledRowIsFilled
<1> QED
  BY <1>1, RowsInvInit, RowsInvNext, PTL DEF WorkerSpec

-------------------------------------------------------------------------------
(* A trade is paid once.                                                   *)

\* The statements that write balances.
LEMMA BalanceWriters ==
    ASSUME [WorkerNext]_workerVars
    PROVE  \/ UNCHANGED <<pgTrades, pgAvailable, released>>
           \/ WriteBatch
           \/ \E o \in OrderIds : DirectTrades(o) \/ DirectRelease(o)
           \/ \E c \in CancelAlls : CancelRelease(c)
<1>1. CASE Clients \/ CancelFault \/ \E o \in OrderIds : ConsumeDelete(o)
  BY <1>1 DEF Clients, Enqueue, PostDelete, PostCancelAll, CancelFault, CancelFails,
              ConsumeDelete, tables, past
<1>2. CASE CancelAll
  BY <1>2 DEF CancelAll, CancelList, CancelDone, CancelZrem, CancelDel, CancelUpdate, CancelRead,
              tables, past
<1>3. CASE Consume \/ ConsumeFault
  BY <1>3 DEF Consume, ConsumeFault, PopLost, PopBatch, SpawnTask, Eval, Refuse, TaskRejected,
              EvalLost, SendJob, tables, past
<1>4. CASE Write \/ WriteFault
  BY <1>4 DEF Write, WriteFault, SpawnDirect, DirectInsert, DirectMakers, DirectOwn, DrainChannel,
              WriteBatchFails, DirectFails, tables, past
<1>5. CASE UNCHANGED workerVars
  BY <1>5 DEF workerVars, tables, past
<1> QED
  BY <1>1, <1>2, <1>3, <1>4, <1>5 DEF WorkerNext, Work

LEMMA OrderKept ==
    ASSUME BookInv, BookMove
    PROVE  order' = order
<1>1. CASE \E x \in OrderIds : Reject(x) \/ Begin(x) \/ Trade(x)
  BY <1>1 DEF Reject, Begin, Trade
<1>2. CASE Finish
  BY <1>2 DEF Finish
<1>3. CASE \/ \E r \in OrderIds : SkipGhost(r) \/ LeaveLoop(r) \/ CancelMaker(r)
           \/ Maintenance
           \/ SweepFault
           \/ UNCHANGED vars
  BY <1>3, RemovalsShrink DEF BookInv
<1> QED
  BY <1>1, <1>2, <1>3 DEF BookMove, Next, Script, Visit

LEMMA MovedInt ==
    ASSUME BookInv, NEW a, NEW t \in trades
    PROVE  Moved(a, t) \in Int
<1>1. t.price \in Int /\ t.qty \in Int
  BY DEF BookInv, BookType, TradeType
<1>2. t.price * t.qty \in Int
  BY <1>1
<1> QED
  BY <1>1, <1>2 DEF Moved

\* Credits add up over disjoint sets of trades.
LEMMA CreditsAdd ==
    ASSUME BookInv, NEW S, S \subseteq trades, NEW T, T \subseteq trades, S \cap T = {},
           NEW u, NEW a
    PROVE  /\ AvailInc(S, u, a) \in Int /\ AvailInc(T, u, a) \in Int
           /\ AvailInc(S \cup T, u, a) = AvailInc(S, u, a) + AvailInc(T, u, a)
<1> DEFINE f == [t \in S \cup T |-> Moved(a, t)]
           g == [t \in S |-> Moved(a, t)]
           h == [t \in T |-> Moved(a, t)]
           PS == {t \in S : Payee(a, t) = u}
           PT == {t \in T : Payee(a, t) = u}
<1>1. \A t \in S \cup T : Moved(a, t) \in Int
  BY MovedInt
<1>2. /\ PS \cap PT = {} /\ {t \in S \cup T : Payee(a, t) = u} = PS \cup PT
      /\ PS \subseteq S /\ PT \subseteq T
  OBVIOUS
<1>3. IsFiniteSet(PS) /\ IsFiniteSet(PT)
  <2>1. IsFiniteSet(trades)
    BY DEF BookInv, TradesCounted
  <2>2. PS \subseteq trades /\ PT \subseteq trades
    OBVIOUS
  <2> QED
    BY <2>1, <2>2, FS_Subset
<1>4. /\ AvailInc(S, u, a) = SumFunctionOnSet(g, PS)
      /\ AvailInc(T, u, a) = SumFunctionOnSet(h, PT)
      /\ AvailInc(S \cup T, u, a) = SumFunctionOnSet(f, PS \cup PT)
  BY <1>2 DEF AvailInc
<1>5. /\ \A t \in PS : f[t] \in Int /\ g[t] = f[t]
      /\ \A t \in PT : f[t] \in Int /\ h[t] = f[t]
  BY <1>1, <1>2
<1> HIDE DEF f, g, h, PS, PT
<1>6. SumFunctionOnSet(f, PS) = SumFunctionOnSet(g, PS)
  BY <1>3, <1>5, SumSame
<1>7. SumFunctionOnSet(f, PT) = SumFunctionOnSet(h, PT)
  BY <1>3, <1>5, SumSame
<1>8. SumFunctionOnSet(f, PS \cup PT) = SumFunctionOnSet(f, PS) + SumFunctionOnSet(f, PT)
  BY <1>2, <1>3, <1>5, SumDisjoint
<1>9. SumFunctionOnSet(f, PS) \in Int /\ SumFunctionOnSet(f, PT) \in Int
  BY <1>3, <1>5, SumInt
<1> QED
  BY <1>4, <1>6, <1>7, <1>8, <1>9

\* An order leaves a whole number over.
LEMMA ReleasedInt ==
    ASSUME BookInv, NEW O, O \subseteq OrderIds, NEW u, NEW a
    PROVE  ReleasedTo(O, u, a) \in Int
<1>1. ASSUME NEW o \in OrderIds PROVE Leftover(o, u, a) \in Int
  <2>1. order[o].price \in Int /\ reply[o].remaining \in Int
    BY OrderFields DEF BookInv, BookType, ReplyType
  <2>2. order[o].price * reply[o].remaining \in Int
    BY <2>1
  <2> QED
    BY <2>1, <2>2 DEF Leftover
<1> DEFINE f == [o \in O |-> Leftover(o, u, a)]
<1>2. \A o \in O : f[o] \in Int
  BY <1>1
<1>3. IsFiniteSet(O)
  BY FS_Subset, OrderIdsAssumption
<1>4. ReleasedTo(O, u, a) = SumFunctionOnSet(f, O)
  BY DEF ReleasedTo
<1> HIDE DEF f
<1> QED
  BY <1>2, <1>3, <1>4, SumInt

PayInv == RowInv /\ PaidOnce /\ CreditedOnce

\* The balance statements of a job or of a batch.
LEMMA SettlePays ==
    ASSUME PayInv, order' = order, NEW T, T \subseteq trades, T \cap pgTrades = {},
           NEW O, O \subseteq OrderIds, Settle(T, O)
    PROVE  /\ pgAvailable' \in [Users -> [Assets -> Int]]
           /\ released' \in [Users -> [Assets -> Int]]
           /\ CreditedOnce'
<1>1. BookInv /\ pgTrades \subseteq trades
      /\ pgAvailable \in [Users -> [Assets -> Int]] /\ released \in [Users -> [Assets -> Int]]
  BY DEF PayInv, RowInv, PaidOnce
<1>2. ASSUME NEW u \in Users, NEW a \in Assets
      PROVE  /\ pgAvailable'[u][a] = pgAvailable[u][a] + AvailInc(T, u, a) + ReleasedTo(O, u, a)
             /\ released'[u][a] = released[u][a] + ReleasedTo(O, u, a)
             /\ AvailInc(pgTrades', u, a) = AvailInc(pgTrades, u, a) + AvailInc(T, u, a)
             /\ AvailInc(T, u, a) \in Int /\ AvailInc(pgTrades, u, a) \in Int
             /\ ReleasedTo(O, u, a) \in Int
  <2>1. pgTrades' = pgTrades \cup T /\ pgTrades \cap T = {}
    BY DEF Settle
  <2>2. /\ AvailInc(T, u, a) \in Int /\ AvailInc(pgTrades, u, a) \in Int
        /\ AvailInc(pgTrades \cup T, u, a) = AvailInc(pgTrades, u, a) + AvailInc(T, u, a)
    <3>1. \A S, R \in SUBSET trades : S \cap R = {} =>
            /\ AvailInc(S, u, a) \in Int /\ AvailInc(R, u, a) \in Int
            /\ AvailInc(S \cup R, u, a) = AvailInc(S, u, a) + AvailInc(R, u, a)
      BY <1>1, CreditsAdd
    <3> QED
      BY <1>1, <2>1, <3>1
  <2>3. ReleasedTo(O, u, a) \in Int
    BY <1>1, ReleasedInt
  <2> QED
    BY <2>1, <2>2, <2>3 DEF Settle
<1>3. \A u \in Users, a \in Assets :
        pgAvailable[u][a] \in Int /\ released[u][a] \in Int /\ InitialFunds[u][a] \in Int
  BY <1>1, InitialFundsAssumption
<1>4. /\ pgAvailable' \in [Users -> [Assets -> Int]]
      /\ released' \in [Users -> [Assets -> Int]]
  <2>1. \A u \in Users, a \in Assets :
          pgAvailable'[u][a] \in Int /\ released'[u][a] \in Int
    BY <1>2, <1>3
  <2>2. /\ pgAvailable' = [u \in Users |-> [a \in Assets |-> pgAvailable'[u][a]]]
        /\ released' = [u \in Users |-> [a \in Assets |-> released'[u][a]]]
    BY DEF Settle
  <2> QED
    BY <2>1, <2>2
<1>5. CreditedOnce'
  <2> SUFFICES ASSUME NEW u \in Users, NEW a \in Assets
               PROVE  pgAvailable'[u][a] =
                        InitialFunds[u][a] + AvailInc(pgTrades, u, a)' + released'[u][a]
    BY DEF CreditedOnce
  <2>1. AvailInc(pgTrades, u, a)' = AvailInc(pgTrades', u, a)
    BY DEF AvailInc, Payee, PartyOn
  <2>2. pgAvailable[u][a] = InitialFunds[u][a] + AvailInc(pgTrades, u, a) + released[u][a]
    BY DEF PayInv, CreditedOnce
  <2> QED
    BY <1>2, <1>3, <2>1, <2>2
<1> QED
  BY <1>4, <1>5

LEMMA PayInvInit == WorkerInit => PayInv
<1> SUFFICES ASSUME WorkerInit PROVE PayInv
  OBVIOUS
<1>1. /\ pgTrades = {} /\ trades = {} /\ pgAvailable = InitialFunds
      /\ released = [u \in Users |-> [a \in Assets |-> 0]]
  BY DEF WorkerInit, TablesInit, Init
<1>2. PaidOnce
  BY <1>1, InitialFundsAssumption DEF PaidOnce
<1>3. ASSUME NEW u \in Users, NEW a \in Assets
      PROVE  pgAvailable[u][a] = InitialFunds[u][a] + AvailInc(pgTrades, u, a) + released[u][a]
  <2>1. {t \in {} : Payee(a, t) = u} = {}
    OBVIOUS
  <2>2. AvailInc({}, u, a) = 0
    BY <2>1, SumEmpty DEF AvailInc
  <2> QED
    BY <1>1, <2>2, InitialFundsAssumption
<1> QED
  BY <1>2, <1>3, RowInvInit DEF PayInv, CreditedOnce

LEMMA PayInvNext == PayInv /\ [WorkerNext]_workerVars => PayInv'
<1> SUFFICES ASSUME PayInv, [WorkerNext]_workerVars PROVE PayInv'
  OBVIOUS
<1>1. RowInv /\ PipeInv /\ BookInv /\ RowInv' /\ BookMove
  BY RowInvNext, WorkerMoves DEF PayInv, RowInv, PipeInv
<1>2. order' = order /\ trades \subseteq trades'
  BY <1>1, OrderKept, TradesKept
<1>3. \A t \in trades : ~Unpaid(t.taker) => ~Unpaid(t.taker)'
  BY <1>1, DoneIsDone
<1>4. /\ pgTrades \subseteq trades /\ \A t \in pgTrades : ~Unpaid(t.taker)
      /\ pgAvailable \in [Users -> [Assets -> Int]] /\ released \in [Users -> [Assets -> Int]]
  BY DEF PayInv, PaidOnce
<1>5. ASSUME NEW T, T \subseteq trades, \A t \in T : Unpaid(t.taker) /\ ~Unpaid(t.taker)',
             NEW O, O \subseteq OrderIds, Settle(T, O)
      PROVE  PayInv'
  <2>1. T \cap pgTrades = {}
    BY <1>4, <1>5
  <2>2. /\ pgAvailable' \in [Users -> [Assets -> Int]] /\ released' \in [Users -> [Assets -> Int]]
        /\ CreditedOnce'
    BY <1>2, <1>5, <2>1, SettlePays
  <2>3. pgTrades' = pgTrades \cup T
    BY <1>5 DEF Settle
  <2>4. pgTrades' \subseteq trades' /\ \A t \in pgTrades' : ~Unpaid(t.taker)'
    BY <1>2, <1>3, <1>4, <1>5, <2>3
  <2> QED
    BY <1>1, <2>2, <2>4 DEF PayInv, PaidOnce
<1>6. CASE UNCHANGED <<pgTrades, pgAvailable, released>>
  <2>1. PaidOnce'
    BY <1>2, <1>3, <1>4, <1>6 DEF PaidOnce
  <2>2. \A u, a : AvailInc(pgTrades, u, a)' = AvailInc(pgTrades, u, a)
    BY <1>2, <1>6 DEF AvailInc, Payee, PartyOn
  <2>3. CreditedOnce'
    BY <1>6, <2>2 DEF PayInv, CreditedOnce
  <2> QED
    BY <1>1, <2>1, <2>3 DEF PayInv
<1>7. CASE WriteBatch
  <2> DEFINE jobs == Range(writing)
             T == UNION {TradesOf(o) : o \in jobs}
  <2>1. Settle(T, jobs) /\ writing' = <<>> /\ UNCHANGED <<tasks, channel, direct>>
    BY <1>7 DEF WriteBatch, pipeline, Range
  <2>2. jobs \subseteq OrderIds
    BY <1>1, SeqFacts DEF PipeInv, PipelineType
  <2>3. \A o \in jobs : o \notin tasks /\ o \notin Range(channel) /\ direct[o] = ""
    BY <1>1, <2>2 DEF PipeInv, OnePlace
  <2>4. \A o \in jobs : Unpaid(o) /\ ~Unpaid(o)'
    BY <2>1, <2>3, NothingLeft DEF Unpaid, Waiting
  <2>5. T \subseteq trades /\ \A t \in T : t.taker \in jobs
    BY DEF TradesOf
  <2> HIDE DEF T, jobs
  <2> QED
    BY <1>5, <2>1, <2>2, <2>4, <2>5
<1>8. ASSUME NEW o \in OrderIds, DirectTrades(o) PROVE PayInv'
  <2> DEFINE T == TradesOf(o)
  <2>1. /\ Settle(T, {}) /\ direct[o] = "trades" /\ direct' = [direct EXCEPT ![o] = "makers"]
        /\ UNCHANGED <<tasks, channel, writing>>
    BY <1>8 DEF DirectTrades, pipeline
  <2>2. direct'[o] = "makers" /\ ~Waiting(o)
    BY <1>1, <2>1 DEF PipeInv, PipelineType, OnePlace, Waiting
  <2>3. Unpaid(o) /\ ~Unpaid(o)'
    BY <2>1, <2>2 DEF Unpaid, Waiting
  <2>4. T \subseteq trades /\ \A t \in T : t.taker = o
    BY DEF TradesOf
  <2> HIDE DEF T
  <2> QED
    BY <1>5, <2>1, <2>3, <2>4
<1>9. ASSUME NEW o \in OrderIds, DirectRelease(o) PROVE PayInv'
  BY <1>5, <1>9 DEF DirectRelease
<1>10. ASSUME NEW c \in CancelAlls, CancelRelease(c) PROVE PayInv'
  <2> DEFINE v == order[cancel[c].cur].user
             b == LockAsset(cancel[c].cur)
             m == CancelAmount(c)
  <2>1. cancel[c].cur \in OrderIds /\ cancel[c].left \in Nat
    BY <1>1, <1>10 DEF CancelRelease, RowInv, CancelledOffBook, CancelType
  <2>2. v \in Users /\ b \in Assets /\ m \in Int
    <3>1. order[cancel[c].cur].user \in Users /\ order[cancel[c].cur].price \in Int
      BY <1>1, <2>1, OrderFields DEF BookInv, BookType
    <3>2. order[cancel[c].cur].price * cancel[c].left \in Int /\ cancel[c].left \in Int
      BY <2>1, <3>1
    <3> QED
      BY <3>1, <3>2 DEF LockAsset, Assets, CancelAmount
  <2>3. /\ pgAvailable' = [pgAvailable EXCEPT ![v][b] = @ + m]
        /\ released' = [released EXCEPT ![v][b] = @ + m] /\ pgTrades' = pgTrades
    BY <1>10 DEF CancelRelease
  <2> HIDE DEF v, b, m
  <2>4. /\ pgAvailable' \in [Users -> [Assets -> Int]] /\ released' \in [Users -> [Assets -> Int]]
    BY <1>4, <2>2, <2>3
  <2>5. PaidOnce'
    BY <1>2, <1>3, <1>4, <2>3, <2>4 DEF PaidOnce
  <2>6. CreditedOnce'
    <3> SUFFICES ASSUME NEW u \in Users, NEW a \in Assets
                 PROVE  pgAvailable'[u][a] =
                          InitialFunds[u][a] + AvailInc(pgTrades, u, a)' + released'[u][a]
      BY DEF CreditedOnce
    <3>1. AvailInc(pgTrades, u, a)' = AvailInc(pgTrades, u, a)
      BY <1>2, <2>3 DEF AvailInc, Payee, PartyOn
    <3>2. pgAvailable[u][a] = InitialFunds[u][a] + AvailInc(pgTrades, u, a) + released[u][a]
      BY DEF PayInv, CreditedOnce
    <3>3. AvailInc(pgTrades, u, a) \in Int /\ InitialFunds[u][a] \in Int
          /\ pgAvailable[u][a] \in Int /\ released[u][a] \in Int
      <4>1. \A S \in SUBSET trades : AvailInc(S, u, a) \in Int
        <5> SUFFICES ASSUME NEW S \in SUBSET trades PROVE AvailInc(S, u, a) \in Int
          OBVIOUS
        <5>1. {} \subseteq trades /\ S \cap {} = {}
          OBVIOUS
        <5> QED
          BY <1>1, <5>1, CreditsAdd
      <4>2. pgAvailable[u][a] \in Int /\ released[u][a] \in Int /\ InitialFunds[u][a] \in Int
        BY <1>4, InitialFundsAssumption
      <4> QED
        BY <1>4, <4>1, <4>2
    <3>4. CASE u = v /\ a = b
      <4>1. pgAvailable'[u][a] = pgAvailable[u][a] + m /\ released'[u][a] = released[u][a] + m
        BY <1>4, <2>2, <2>3, <3>4
      <4> QED
        BY <2>2, <3>1, <3>2, <3>3, <4>1
    <3>5. CASE ~(u = v /\ a = b)
      <4>1. pgAvailable'[u][a] = pgAvailable[u][a] /\ released'[u][a] = released[u][a]
        BY <1>4, <2>2, <2>3, <3>5
      <4> QED
        BY <3>1, <3>2, <4>1
    <3> QED
      BY <3>4, <3>5
  <2> QED
    BY <1>1, <2>5, <2>6 DEF PayInv
<1> QED
  BY <1>6, <1>7, <1>8, <1>9, <1>10, BalanceWriters

\* On the queue path PostgreSQL credits every recorded trade once, and nothing
\* else but releases, whether its job went through the channel, through a writer
\* of its own, or stopped half-way.
THEOREM TradesAreCreditedOnce == WorkerSpec => []CreditedOnce
<1>1. PayInv => CreditedOnce
  BY DEF PayInv
<1> QED
  BY <1>1, PayInvInit, PayInvNext, PTL DEF WorkerSpec
===============================================================================
