--------------------------- MODULE CacheFeed_proofs ---------------------------
(***************************************************************************)
(* Proofs about CacheFeed: the debouncer forgets no signal, and a client   *)
(* that subscribes before it reads misses no broadcast.  Both hold for any *)
(* number of publishers and clients, any capacity of the channel and any   *)
(* number of changes and failures.                                         *)
(***************************************************************************)
EXTENDS CacheFeed, SequenceTheorems, TLAPS

PubSteps == {"idle", "read", "set", "publish"}
ClientSteps == {"away", "joining", "live"}

ClientStates == [step : ClientSteps, shown : Nat, queue : Seq(Nat)]

\* The type of the state both arguments work with.
FeedType ==
    /\ src \in Nat /\ unsent \in Nat /\ key \in Nat /\ watch \in Nat /\ polled \in Nat
    /\ dirty \in BOOLEAN /\ blind \in BOOLEAN
    /\ pub \in [Publishers -> [step : PubSteps, val : Nat]]
    /\ wire \in Seq(Nat)
    /\ casting \in [Updaters -> Nat]
    /\ client \in [Clients -> ClientStates]
    /\ direct \in SUBSET Clients

\* In debounced mode only the debouncer publishes.
OnlyTheTask ==
    mode = "debounced" => \A p \in Publishers : p # TheTask => pub[p] = Asleep

\* Where the news of the last change is: stored, still to be signalled, or with
\* the task, which has read it, holds it or has written it.
NewsIsSomewhere ==
    (mode = "debounced" /\ ~blind) =>
        \/ dirty
        \/ unsent > 0
        \/ pub[TheTask].step = "read"
        \/ pub[TheTask].step = "set" /\ pub[TheTask].val = src
        \/ pub[TheTask].step \in {"publish", "idle"} /\ key = src

\* What a direct client has subscribed to and not shown ends in a fresh value; with
\* nothing left, it shows one.  One that is away has no channel.
EndsFresh(k, F) ==
    /\ k.queue # <<>> => k.step # "away" /\ k.queue[Len(k.queue)] \in F
    /\ (k.step = "live" /\ k.queue = <<>>) => k.shown \in F

QueuesEndFresh == watch \in fresh /\ \A c \in direct : EndsFresh(client[c], fresh)

-------------------------------------------------------------------------------
\* One debouncer task exists.
LEMMA TheTaskExists == TheTask \in Publishers
BY FeedAssumption DEF FeedAssumption, TheTask

\* Adding to a receiver's queue: the new value is last, whether or not the oldest
\* had to go.
LEMMA EnqueuedIsLast ==
    ASSUME NEW q \in Seq(Nat), NEW v \in Nat
    PROVE  /\ Enqueued(q, v) \in Seq(Nat)
           /\ Enqueued(q, v) # <<>>
           /\ Enqueued(q, v)[Len(Enqueued(q, v))] = v
<1>1. ASSUME NEW r \in Seq(Nat)
      PROVE  /\ Append(r, v) \in Seq(Nat)
             /\ Append(r, v) # <<>>
             /\ Append(r, v)[Len(Append(r, v))] = v
    <2>1. Append(r, v) \in Seq(Nat) /\ Len(Append(r, v)) = Len(r) + 1 /\ Len(r) \in Nat
        OBVIOUS
    <2>2. Append(r, v)[Len(r) + 1] = v
        OBVIOUS
    <2>3. Append(r, v) # <<>>
        BY <2>1, EmptySeq
    <2> QED BY <2>1, <2>2, <2>3
<1>2. CASE Len(q) >= ChannelCap
    <2>1. q # <<>>
        BY <1>2, FeedAssumption DEF FeedAssumption
    <2>2. Tail(q) \in Seq(Nat)
        BY <2>1
    <2> QED BY <1>2, <2>2, <1>1 DEF Enqueued
<1>3. CASE ~(Len(q) >= ChannelCap)
    BY <1>3, <1>1 DEF Enqueued
<1> QED BY <1>2, <1>3

\* Taking the oldest value from a queue: what is left still ends in the same value,
\* and when nothing is left that value is the one taken.
LEMMA DeliveredIsLast ==
    ASSUME NEW q \in Seq(Nat), q # <<>>
    PROVE  /\ Head(q) \in Nat
           /\ Tail(q) \in Seq(Nat)
           /\ Tail(q) # <<>> => Tail(q)[Len(Tail(q))] = q[Len(q)]
           /\ Tail(q) = <<>> => Head(q) = q[Len(q)]
<1>1. /\ Head(q) = q[1] /\ Head(q) \in Nat
      /\ Tail(q) \in Seq(Nat)
      /\ Len(Tail(q)) = Len(q) - 1
      /\ Len(q) \in Nat /\ Len(q) > 0
      /\ \A i \in 1 .. Len(q) - 1 : Tail(q)[i] = q[i + 1]
    OBVIOUS
<1>2. Tail(q) # <<>> => Tail(q)[Len(Tail(q))] = q[Len(q)]
    <2>1. HAVE Tail(q) # <<>>
    <2>2. Len(Tail(q)) # 0
        BY <1>1, <2>1
    <2>3. Len(q) - 1 \in 1 .. Len(q) - 1
        BY <1>1, <2>2
    <2> QED BY <1>1, <2>3
<1>3. Tail(q) = <<>> => Head(q) = q[Len(q)]
    <2>1. HAVE Tail(q) = <<>>
    <2>2. Len(Tail(q)) = 0
        BY <2>1, EmptySeq
    <2> QED BY <1>1, <2>2
<1> QED BY <1>1, <1>2, <1>3

-------------------------------------------------------------------------------
LEMMA FeedTypeInit == FeedInit => FeedType
<1> HAVE FeedInit
<1>1. Away \in ClientStates
    BY EmptySeq DEF Away, ClientStates, ClientSteps
<1>2. client \in [Clients -> ClientStates] /\ direct \in SUBSET Clients
    BY <1>1 DEF FeedInit
<1>3. pub \in [Publishers -> [step : PubSteps, val : Nat]]
    BY DEF FeedInit, Asleep, PubSteps
<1>4. wire \in Seq(Nat) /\ casting \in [Updaters -> Nat]
    BY EmptySeq DEF FeedInit
<1> QED BY <1>2, <1>3, <1>4 DEF FeedInit, FeedType

\* What each step leaves alone is grouped as the code's parts are; the definitions
\* below unfold the groups.
LEMMA FeedTypeStep == FeedType /\ [FeedNext]_feedVars => FeedType'
<1> SUFFICES ASSUME FeedType, [FeedNext]_feedVars
             PROVE  FeedType'
    OBVIOUS
<1> USE DEF FeedType, source, valkey, gateway
<1>1. CASE Change
    <2>1. CASE ChangeQueued BY <2>1 DEF ChangeQueued
    <2>2. CASE ChangeStored BY <2>2 DEF ChangeStored
    <2>3. CASE ChangeSilently BY <2>3 DEF ChangeSilently
    <2>4. ASSUME NEW p \in Publishers, ChangeInline(p) PROVE FeedType'
        <3>1. src' \in Nat
            BY <2>4 DEF ChangeInline
        <3>2. pub[p] \in [step : PubSteps, val : Nat]
            OBVIOUS
        <3>3. pub' \in [Publishers -> [step : PubSteps, val : Nat]]
            BY <2>4, <3>2 DEF ChangeInline, PubSteps
        <3> QED BY <2>4, <3>1, <3>3 DEF ChangeInline
    <2> QED BY <1>1, <2>1, <2>2, <2>3, <2>4 DEF Change
<1>2. CASE Signal
    BY <1>2 DEF Signal
<1>3. CASE Failure
    <2>1. CASE SignalLost BY <2>1 DEF SignalLost
    <2>2. CASE ClearKey BY <2>2 DEF ClearKey
    <2>3. CASE Unlink BY <2>3 DEF Unlink
    <2>4. ASSUME NEW p \in Publishers, PublishFails(p) PROVE FeedType'
        BY <2>4 DEF PublishFails, Asleep, PubSteps
    <2> QED BY <1>3, <2>1, <2>2, <2>3, <2>4 DEF Failure
<1>4. ASSUME NEW p \in Publishers, Publishing(p) \/ Refresh(p) PROVE FeedType'
    <2>1. CASE Wake(p) BY <2>1 DEF Wake, PubSteps
    <2>2. CASE ReadSource(p) BY <2>2 DEF ReadSource, PubSteps
    <2>3. CASE SetKey(p) BY <2>3 DEF SetKey, PubSteps
    <2>4. CASE PublishValue(p) BY <2>4 DEF PublishValue, Asleep, PubSteps
    <2>5. CASE Refresh(p) BY <2>5 DEF Refresh, PubSteps
    <2> QED BY <1>4, <2>1, <2>2, <2>3, <2>4, <2>5 DEF Publishing
<1>5. CASE Link
    BY <1>5 DEF Link
<1>6. CASE Receive
    <2>1. Head(wire) \in Nat /\ Tail(wire) \in Seq(Nat)
        BY <1>6, HeadTailProperties DEF Receive
    <2> QED BY <1>6, <2>1 DEF Receive, SendWatch, Updaters
<1>7. CASE PollGet
    BY <1>7 DEF PollGet
<1>8. CASE PollUpdate
    BY <1>8 DEF PollUpdate, SendWatch, Updaters
<1>9. CASE Tick
    BY <1>9 DEF Tick
<1>10. ASSUME NEW t \in Updaters, Cast(t) PROVE FeedType'
    <2>1. casting[t] \in Nat /\ casting' \in [Updaters -> Nat]
        BY <1>10 DEF Cast
    <2>2. client' \in [Clients -> ClientStates]
        <3>1. CASE ~cool BY <1>10, <3>1 DEF Cast
        <3>2. CASE cool
            <4>1. \A c \in Clients : Enqueued(client[c].queue, casting[t]) \in Seq(Nat)
                BY <2>1, EnqueuedIsLast DEF ClientStates
            <4>2. ASSUME NEW c \in Clients PROVE client'[c] \in ClientStates
                <5>1. client[c] \in ClientStates
                    OBVIOUS
                <5>2. client'[c] = [client[c] EXCEPT
                          !.queue = IF Subscribed(c) THEN Enqueued(client[c].queue, casting[t])
                                                     ELSE client[c].queue]
                    BY <1>10, <3>2, <5>1 DEF Cast, ClientStates
                <5> QED BY <2>1, <4>1, <5>1, <5>2 DEF ClientStates
            <4>3. client' = [c \in Clients |-> client'[c]]
                BY <1>10, <3>2 DEF Cast
            <4> QED BY <4>2, <4>3
        <3> QED BY <3>1, <3>2
    <2> QED BY <1>10, <2>1, <2>2 DEF Cast
<1>11. ASSUME NEW c \in Clients, Join(c) \/ Joined(c) \/ Deliver(c) \/ Leave(c)
       PROVE  FeedType'
    <2> USE DEF ClientStates, ClientSteps
    <2>1. CASE Join(c) BY <2>1 DEF Join
    <2>2. CASE Joined(c) BY <2>2 DEF Joined
    <2>3. CASE Deliver(c)
        <3>1. client[c].queue \in Seq(Nat) /\ client[c].queue # <<>>
            BY <2>3 DEF Deliver
        <3>2. Head(client[c].queue) \in Nat /\ Tail(client[c].queue) \in Seq(Nat)
            BY <3>1, DeliveredIsLast
        <3> QED BY <2>3, <3>2 DEF Deliver
    <2>4. CASE Leave(c) BY <2>4 DEF Leave, Away
    <2> QED BY <1>11, <2>1, <2>2, <2>3, <2>4
<1>12. CASE UNCHANGED feedVars
    BY <1>12 DEF feedVars
<1> QED
    BY <1>1, <1>2, <1>3, <1>4, <1>5, <1>6, <1>7, <1>8, <1>9, <1>10, <1>11, <1>12 DEF FeedNext

-------------------------------------------------------------------------------
\* The steps that the debouncer's argument does not see.
LEMMA ElsewhereNewsStays ==
    ASSUME UNCHANGED <<mode, src, unsent, dirty, pub, key, blind>>,
           OnlyTheTask, NewsIsSomewhere
    PROVE  OnlyTheTask' /\ NewsIsSomewhere'
BY DEF OnlyTheTask, NewsIsSomewhere

LEMMA NewsStep ==
    ASSUME FeedType, OnlyTheTask, NewsIsSomewhere, [FeedNext]_feedVars
    PROVE  OnlyTheTask' /\ NewsIsSomewhere'
<1> USE TheTaskExists
<1> USE DEF source, valkey, gateway
<1>1. CASE Change
    <2>1. CASE ChangeQueued
        BY <2>1 DEF ChangeQueued, OnlyTheTask, NewsIsSomewhere, FeedType
    <2>2. CASE ChangeStored
        BY <2>2 DEF ChangeStored, OnlyTheTask, NewsIsSomewhere
    <2>3. CASE ChangeSilently
        BY <2>3 DEF ChangeSilently, OnlyTheTask, NewsIsSomewhere
    <2>4. ASSUME NEW p \in Publishers, ChangeInline(p) PROVE OnlyTheTask' /\ NewsIsSomewhere'
        BY <2>4 DEF ChangeInline, OnlyTheTask, NewsIsSomewhere
    <2> QED BY <1>1, <2>1, <2>2, <2>3, <2>4 DEF Change
<1>2. CASE Signal
    BY <1>2 DEF Signal, OnlyTheTask, NewsIsSomewhere
<1>3. CASE Failure
    <2>1. CASE SignalLost BY <2>1 DEF SignalLost, OnlyTheTask, NewsIsSomewhere
    <2>2. CASE ClearKey BY <2>2 DEF ClearKey, OnlyTheTask, NewsIsSomewhere
    <2>3. CASE Unlink BY <2>3, ElsewhereNewsStays DEF Unlink
    <2>4. ASSUME NEW p \in Publishers, PublishFails(p) PROVE OnlyTheTask' /\ NewsIsSomewhere'
        BY <2>4 DEF PublishFails, OnlyTheTask, NewsIsSomewhere, FeedType
    <2> QED BY <1>3, <2>1, <2>2, <2>3, <2>4 DEF Failure
<1>4. ASSUME NEW p \in Publishers, Publishing(p) \/ Refresh(p)
      PROVE  OnlyTheTask' /\ NewsIsSomewhere'
    <2>1. CASE Wake(p)
        BY <2>1 DEF Wake, OnlyTheTask, NewsIsSomewhere, FeedType
    <2>2. CASE ReadSource(p)
        <3>1. mode = "debounced" => p = TheTask
            BY <2>2 DEF ReadSource, OnlyTheTask, Asleep
        <3> QED BY <2>2, <3>1 DEF ReadSource, OnlyTheTask, NewsIsSomewhere, FeedType
    <2>3. CASE SetKey(p)
        <3>1. mode = "debounced" => p = TheTask
            BY <2>3 DEF SetKey, OnlyTheTask, Asleep
        <3> QED BY <2>3, <3>1 DEF SetKey, OnlyTheTask, NewsIsSomewhere, FeedType
    <2>4. CASE PublishValue(p)
        <3>1. mode = "debounced" => p = TheTask
            BY <2>4 DEF PublishValue, OnlyTheTask, Asleep
        <3> QED BY <2>4, <3>1 DEF PublishValue, OnlyTheTask, NewsIsSomewhere, FeedType, Asleep
    <2>5. CASE Refresh(p)
        BY <2>5 DEF Refresh, OnlyTheTask, NewsIsSomewhere
    <2> QED BY <1>4, <2>1, <2>2, <2>3, <2>4, <2>5 DEF Publishing
<1>5. CASE Link \/ Receive \/ PollGet \/ PollUpdate \/ Tick
    BY <1>5, ElsewhereNewsStays DEF Link, Receive, PollGet, PollUpdate, Tick
<1>6. CASE \E t \in Updaters : Cast(t)
    BY <1>6, ElsewhereNewsStays DEF Cast
<1>7. CASE \E c \in Clients : Join(c) \/ Joined(c) \/ Deliver(c) \/ Leave(c)
    BY <1>7, ElsewhereNewsStays DEF Join, Joined, Deliver, Leave
<1>8. CASE UNCHANGED feedVars
    BY <1>8, ElsewhereNewsStays DEF feedVars
<1> QED
    BY <1>1, <1>2, <1>3, <1>4, <1>5, <1>6, <1>7, <1>8 DEF FeedNext

\* The debouncer forgets no signal, however matches, signals, the read of the book
\* and the write of the key interleave: a change that comes while the task works
\* leaves a permit or a task that will signal, so that a sleeping task with no
\* permit and no signal to come means that the key shows the book.
THEOREM DebouncerForgetsNothing == FeedSpec => []QuietBookPublished
<1>1. FeedInit => FeedType /\ OnlyTheTask /\ NewsIsSomewhere
    <2>1. FeedInit => OnlyTheTask /\ NewsIsSomewhere
        BY TheTaskExists DEF FeedInit, OnlyTheTask, NewsIsSomewhere, Asleep
    <2> QED BY <2>1, FeedTypeInit
<1>2. /\ FeedType /\ OnlyTheTask /\ NewsIsSomewhere
      /\ [FeedNext]_feedVars
      => FeedType' /\ OnlyTheTask' /\ NewsIsSomewhere'
    BY FeedTypeStep, NewsStep
<1>3. FeedType /\ OnlyTheTask /\ NewsIsSomewhere => QuietBookPublished
    BY TheTaskExists DEF FeedType, NewsIsSomewhere, QuietBookPublished, Asleep
<1> QED BY <1>1, <1>2, <1>3, PTL DEF FeedSpec

-------------------------------------------------------------------------------
\* A client that subscribes first reads the latest value, which is fresh, or finds
\* what was broadcast in between in its channel; a broadcast reaches every channel.
LEMMA FreshStep ==
    ASSUME FeedType, QueuesEndFresh, [FeedNext]_feedVars
    PROVE  QueuesEndFresh'
<1> USE DEF source, valkey, gateway
<1>0. ASSUME UNCHANGED <<direct, client>>, fresh \subseteq fresh', watch' \in fresh'
      PROVE  QueuesEndFresh'
    BY <1>0 DEF QueuesEndFresh, EndsFresh
<1>1. CASE Change \/ Signal \/ Failure
    <2>1. UNCHANGED <<direct, client, fresh, watch>>
        BY <1>1 DEF Change, ChangeQueued, ChangeStored, ChangeSilently, ChangeInline, Signal,
                    Failure, SignalLost, ClearKey, Unlink, PublishFails
    <2> QED BY <1>0, <2>1 DEF QueuesEndFresh
<1>2. CASE \E p \in Publishers : Publishing(p) \/ Refresh(p)
    <2>1. UNCHANGED <<direct, client, fresh, watch>>
        BY <1>2 DEF Publishing, Wake, ReadSource, SetKey, PublishValue, Refresh
    <2> QED BY <1>0, <2>1 DEF QueuesEndFresh
<1>3. CASE Link \/ PollGet \/ Tick
    <2>1. UNCHANGED <<direct, client, fresh, watch>>
        BY <1>3 DEF Link, PollGet, Tick
    <2> QED BY <1>0, <2>1 DEF QueuesEndFresh
<1>4. CASE Receive \/ PollUpdate
    <2>1. UNCHANGED <<direct, client>> /\ fresh \subseteq fresh' /\ watch' \in fresh'
        BY <1>4 DEF Receive, PollUpdate, SendWatch
    <2> QED BY <1>0, <2>1
<1>5. ASSUME NEW t \in Updaters, Cast(t) PROVE QueuesEndFresh'
    <2>1. CASE ~cool BY <1>0, <1>5, <2>1 DEF Cast, QueuesEndFresh
    <2>2. CASE cool
        <3>0. direct' = direct /\ watch' = watch /\ fresh' = {casting[t], watch}
            BY <1>5, <2>2 DEF Cast
        <3> SUFFICES ASSUME NEW c \in direct
                     PROVE  EndsFresh(client'[c], fresh')
            BY <3>0 DEF QueuesEndFresh, EndsFresh
        <3>1. c \in Clients /\ client[c] \in ClientStates /\ EndsFresh(client[c], fresh)
            BY DEF FeedType, QueuesEndFresh
        <3>2. CASE ~Subscribed(c)
            <4>1. client'[c] = client[c] /\ client[c].step = "away"
                BY <1>5, <2>2, <3>1, <3>2 DEF Cast, ClientStates, ClientSteps, Subscribed, ReadsFirst
            <4> QED BY <3>1, <4>1 DEF EndsFresh
        <3>3. CASE Subscribed(c)
            <4>1. /\ client'[c].queue = Enqueued(client[c].queue, casting[t])
                  /\ client'[c].step = client[c].step /\ client[c].step # "away"
                BY <1>5, <2>2, <3>1, <3>3 DEF Cast, ClientStates, Subscribed
            <4>2. casting[t] \in Nat /\ client[c].queue \in Seq(Nat)
                BY <3>1 DEF FeedType, ClientStates
            <4> QED BY <3>0, <4>1, <4>2, EnqueuedIsLast DEF EndsFresh
        <3> QED BY <3>2, <3>3
    <2> QED BY <2>1, <2>2
<1>6. ASSUME NEW d \in Clients, Join(d) \/ Joined(d) \/ Deliver(d) \/ Leave(d)
      PROVE  QueuesEndFresh'
    <2>1. /\ UNCHANGED <<direct, fresh, watch>>
          /\ \A c \in Clients \ {d} : client'[c] = client[c]
        BY <1>6 DEF FeedType, Join, Joined, Deliver, Leave
    <2>2. d \in direct => EndsFresh(client'[d], fresh)
        <3> SUFFICES ASSUME d \in direct
                     PROVE  EndsFresh(client'[d], fresh)
            OBVIOUS
        <3>1. client[d] \in ClientStates /\ EndsFresh(client[d], fresh) /\ watch \in fresh
            BY DEF FeedType, QueuesEndFresh
        <3>2. CASE Join(d)
            BY <3>2 DEF Join, FeedType, EndsFresh
        <3>3. CASE Joined(d)
            BY <3>1, <3>3 DEF Joined, FeedType, EndsFresh, ClientStates, ReadsFirst
        <3>4. CASE Deliver(d)
            <4> DEFINE q == client[d].queue
            <4>1. q \in Seq(Nat) /\ q # <<>> /\ client[d].step = "live"
                BY <3>1, <3>4 DEF Deliver, ClientStates
            <4>2. q[Len(q)] \in fresh
                BY <3>1, <4>1 DEF EndsFresh
            <4>3. /\ client'[d].queue = Tail(q) /\ client'[d].shown = Head(q)
                  /\ client'[d].step = "live"
                BY <3>1, <3>4, <4>1 DEF Deliver, FeedType, ClientStates
            <4> HIDE DEF q
            <4> QED BY <4>1, <4>2, <4>3, DeliveredIsLast DEF EndsFresh
        <3>5. CASE Leave(d)
            BY <3>5 DEF Leave, FeedType, Away, EndsFresh
        <3> QED BY <1>6, <3>2, <3>3, <3>4, <3>5
    <2> QED BY <2>1, <2>2 DEF FeedType, QueuesEndFresh
<1>7. CASE UNCHANGED feedVars
    BY <1>0, <1>7 DEF feedVars, QueuesEndFresh
<1> QED
    BY <1>1, <1>2, <1>3, <1>4, <1>5, <1>6, <1>7 DEF FeedNext

\* cache_broadcast_ws subscribes and only then reads the latest value: a client with
\* nothing left in its channel shows the last value broadcast or one that REST has
\* shown since, whichever broadcasts fell between the two halves of joining and
\* however often the channel overflowed.
THEOREM DirectClientsAreFresh == FeedSpec => []CaughtUpIsFresh
<1>1. FeedInit => FeedType /\ QueuesEndFresh
    <2>1. FeedInit => QueuesEndFresh
        BY DEF FeedInit, QueuesEndFresh, EndsFresh, Away
    <2> QED BY <2>1, FeedTypeInit
<1>2. FeedType /\ QueuesEndFresh /\ [FeedNext]_feedVars => FeedType' /\ QueuesEndFresh'
    BY FeedTypeStep, FreshStep
<1>3. QueuesEndFresh => CaughtUpIsFresh
    BY DEF QueuesEndFresh, EndsFresh, CaughtUpIsFresh
<1> QED BY <1>1, <1>2, <1>3, PTL DEF FeedSpec

===============================================================================
