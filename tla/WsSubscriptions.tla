---------------------------- MODULE WsSubscriptions ----------------------------
(***************************************************************************)
(* The serverless WebSocket feed: API Gateway keeps the sockets, Lambda    *)
(* invocations of ws-handler keep three kinds of sets in Valkey, and every *)
(* processed order pushes the pair's cache values to the connections       *)
(* listed (push_ws_updates).                                               *)
(*                                                                         *)
(* An invocation is a list of the commands it still has to send; one       *)
(* command is one step, and invocations interleave freely, those of one    *)
(* connection included.  A cache value is the number of times its key was  *)
(* written; 0 is a missing key.                                            *)
(***************************************************************************)
EXTENDS Integers, Sequences, FiniteSets, SequencesExt

CONSTANTS
    Conns,         \* connection ids; API Gateway never uses one twice
    Channels,      \* channel names a client may send
    PairChannels,  \* the channels of the pair, in the order they are pushed
    Messages,      \* what a client may send: [subscribe, unsubscribe]; to leave a channel
                   \* of another name changes nothing and is left out
    Writes,        \* the cache keys an order may write: orderbook and trades with
                   \* or without ticker, or none
    Handlers,      \* concurrent invocations of ws-handler
    Pushers,       \* concurrent invocations that process an order
    MaxWrites,     \* bound: writes of a cache key
    MaxMessages,   \* bound: messages sent
    MaxFaults      \* bound: failures, and keys that expire

Pushed == ToSet(PairChannels)

ASSUME WsAssumption ==
    /\ IsFiniteSet(Conns) /\ IsFiniteSet(Channels)
    /\ PairChannels \in Seq(Channels)
    /\ Messages \subseteq [subscribe : Seq(STRING), unsubscribe : Seq(Channels)]
    /\ Handlers \cap Pushers = {}
    /\ Writes \subseteq SUBSET Pushed
    /\ {MaxWrites, MaxMessages, MaxFaults} \subseteq Nat

VARIABLES
    sock,    \* sock[c]: API Gateway's view of the connection
    store,   \* store[k]: the set at Valkey key k, {} when there is no key
    ttl,     \* the keys that will expire
    val,     \* val[ch]: the value at cache:{ch}
    proc,    \* proc[p]: what invocation p still has to do
    best,    \* best[c][ch]: the newest value sent to c
    missed,  \* history: <<c, ch>> whose last value was lost in a failure
    leaked,  \* history: keys whose EXPIRE was lost in a failure
    sent, faults

wsVars == <<sock, store, ttl, val, proc, best, missed, leaked, sent, faults>>

Procs == Handlers \cup Pushers

\* ws:connections, ws:subs:{channel}, ws:conn:{connectionId}.
Connections == <<"connections">>
Subs(ch) == <<"subs", ch>>
Conn(c) == <<"conn", c>>
Keys == {Connections} \cup {Subs(ch) : ch \in Channels} \cup {Conn(c) : c \in Conns}

Idle == [plan |-> <<>>, val |-> 0, gone |-> {}]

WsInit ==
    /\ sock = [c \in Conns |-> "none"]
    /\ store = [k \in Keys |-> {}]
    /\ ttl = {}
    /\ val = [ch \in Channels |-> 0]
    /\ proc = [p \in Procs |-> Idle]
    /\ best = [c \in Conns |-> [ch \in Channels |-> 0]]
    /\ missed = {} /\ leaked = {}
    /\ sent = 0 /\ faults = 0

-------------------------------------------------------------------------------
\* Commands.
sadd(k, x) == [do |-> "sadd", key |-> k, arg |-> x]
srem(k, x) == [do |-> "srem", key |-> k, arg |-> x]
expire(k) == [do |-> "expire", key |-> k]
del(k) == [do |-> "del", key |-> k]
get(ch) == [do |-> "get", ch |-> ch]
post(c, ch) == [do |-> "post", conn |-> c, ch |-> ch]
channelsOf(c) == [do |-> "channelsOf", conn |-> c]
subscribersOf(ch) == [do |-> "subscribersOf", ch |-> ch]
accept(c) == [do |-> "accept", conn |-> c]
reap(ch) == [do |-> "reap", ch |-> ch]

\* A name of other characters, or one that is too long, is none of Channels.
is_valid_channel(ch) == ch \in Channels

handle_connect(c) == <<sadd(Connections, c), expire(Connections), accept(c)>>

\* Faulty variants: the snapshot is read first; the keys' lifetime is set first.
SubscribeSnapshotFirst(c, ch) ==
    <<get(ch), post(c, ch), sadd(Subs(ch), c), sadd(Conn(c), ch), expire(Conn(c)), expire(Subs(ch))>>
SubscribeExpireFirst(c, ch) ==
    <<expire(Conn(c)), expire(Subs(ch)), sadd(Subs(ch), c), sadd(Conn(c), ch), get(ch), post(c, ch)>>

\* One turn of the loop in handle_subscribe.
Subscribe(c, ch) ==
    <<sadd(Subs(ch), c), sadd(Conn(c), ch), expire(Conn(c)), expire(Subs(ch)), get(ch), post(c, ch)>>

\* One turn of the loop in handle_unsubscribe.
Unsubscribe(c, ch) == <<srem(Subs(ch), c), srem(Conn(c), ch)>>

\* Turns with a bad name do nothing.
handle_default(c, msg) ==
    FlattenSeq([i \in DOMAIN msg.subscribe |->
                   IF is_valid_channel(msg.subscribe[i]) THEN Subscribe(c, msg.subscribe[i]) ELSE <<>>]
               \o [i \in DOMAIN msg.unsubscribe |-> Unsubscribe(c, msg.unsubscribe[i])])

handle_disconnect(c) == <<srem(Connections, c), channelsOf(c), del(Conn(c))>>

\* The loop in push_ws_updates: reap stands for the loop over stale_conns.
push_ws_updates ==
    FlattenSeq([i \in DOMAIN PairChannels |->
                   <<subscribersOf(PairChannels[i]), reap(PairChannels[i])>>])

\* Faulty variant: the reverse map is taken to name every channel.
RemoveStaleByMap(c, ch) == <<srem(Connections, c), channelsOf(c), del(Conn(c))>>

\* What is done for a connection that is gone.
RemoveStale(c, ch) ==
    <<srem(Connections, c), srem(Subs(ch), c), channelsOf(c), del(Conn(c))>>

-------------------------------------------------------------------------------
Doing(p, what) == proc[p].plan # <<>> /\ Head(proc[p].plan).do = what
Cmd(p) == Head(proc[p].plan)
Free(p) == proc[p].plan = <<>>
Fault == faults < MaxFaults /\ faults' = faults + 1

\* Invocation p goes on with plan, holding value v and the stale connections g.
GoesOn(p, plan, v, g) ==
    proc' = [proc EXCEPT ![p] =
                IF plan = <<>> THEN Idle ELSE [plan |-> plan, val |-> v, gone |-> g]]
Proceed(p, plan) == GoesOn(p, plan, proc[p].val, proc[p].gone)
NextCmd(p) == Proceed(p, Tail(proc[p].plan))

\* A set without members is no key, so it has no lifetime either.
SetKey(k, members) ==
    /\ store' = [store EXCEPT ![k] = members]
    /\ ttl' = IF members = {} THEN ttl \ {k} ELSE ttl
    /\ leaked' = IF members = {} THEN leaked \ {k} ELSE leaked

Sadd(p) ==
    /\ Doing(p, "sadd")
    /\ SetKey(Cmd(p).key, store[Cmd(p).key] \cup {Cmd(p).arg})
    /\ NextCmd(p)
    /\ UNCHANGED <<sock, val, best, missed, sent, faults>>

Srem(p) ==
    /\ Doing(p, "srem")
    /\ SetKey(Cmd(p).key, store[Cmd(p).key] \ {Cmd(p).arg})
    /\ NextCmd(p)
    /\ UNCHANGED <<sock, val, best, missed, sent, faults>>

Del(p) ==
    /\ Doing(p, "del")
    /\ SetKey(Cmd(p).key, {})
    /\ NextCmd(p)
    /\ UNCHANGED <<sock, val, best, missed, sent, faults>>

\* EXPIRE of a key that does not exist does nothing.
Expire(p) ==
    /\ Doing(p, "expire")
    /\ ttl' = IF store[Cmd(p).key] = {} THEN ttl ELSE ttl \cup {Cmd(p).key}
    /\ leaked' = leaked \ {Cmd(p).key}
    /\ NextCmd(p)
    /\ UNCHANGED <<sock, store, val, best, missed, sent, faults>>

\* SMEMBERS ws:conn:{id}: the connection leaves each channel named.
ChannelsOf(p) ==
    /\ Doing(p, "channelsOf")
    /\ LET c == Cmd(p).conn
           chs == SetToSeq(store[Conn(c)])
       IN Proceed(p, [i \in DOMAIN chs |-> srem(Subs(chs[i]), c)] \o Tail(proc[p].plan))
    /\ UNCHANGED <<sock, store, ttl, val, best, missed, leaked, sent, faults>>

\* SMEMBERS ws:subs:{channel}: with no members the channel is done.
SubscribersOf(p) ==
    /\ Doing(p, "subscribersOf")
    /\ LET ch == Cmd(p).ch
           members == SetToSeq(store[Subs(ch)])
       IN Proceed(p, (IF members = <<>> THEN <<>>
                      ELSE <<get(ch)>> \o [i \in DOMAIN members |-> post(members[i], ch)])
                        \o Tail(proc[p].plan))
    /\ UNCHANGED <<sock, store, ttl, val, best, missed, leaked, sent, faults>>

\* plan without the posts it starts with.
SkipPosts(plan) ==
    LET rest == {i \in DOMAIN plan : plan[i].do # "post"}
    IN IF rest = {} THEN <<>>
       ELSE SubSeq(plan, CHOOSE i \in rest : \A j \in rest : i <= j, Len(plan))

\* GET of the cache key; a missing value is not sent.
Get(p) ==
    /\ Doing(p, "get")
    /\ LET v == val[Cmd(p).ch]
       IN GoesOn(p, IF v = 0 THEN SkipPosts(Tail(proc[p].plan)) ELSE Tail(proc[p].plan),
                 v, proc[p].gone)
    /\ UNCHANGED <<sock, store, ttl, val, best, missed, leaked, sent, faults>>

\* post_to_connection.  A closed connection is gone: a pusher remembers it, the
\* subscribe handler only logs it.
Post(p) ==
    /\ Doing(p, "post")
    /\ LET c == Cmd(p).conn
           ch == Cmd(p).ch
           v == proc[p].val
           gone == sock[c] # "open"
       IN /\ GoesOn(p, Tail(proc[p].plan), v,
                    IF gone /\ p \in Pushers THEN proc[p].gone \cup {c} ELSE proc[p].gone)
          /\ best' = IF ~gone /\ v > best[c][ch] THEN [best EXCEPT ![c][ch] = v] ELSE best
          /\ missed' = IF ~gone /\ v = val[ch] THEN missed \ {<<c, ch>>} ELSE missed
    /\ UNCHANGED <<sock, store, ttl, val, leaked, sent, faults>>

\* The posts of a channel are done; the stale connections are removed.
Reap(p) ==
    /\ Doing(p, "reap")
    /\ LET gone == SetToSeq(proc[p].gone)
       IN GoesOn(p, FlattenSeq([i \in DOMAIN gone |-> RemoveStale(gone[i], Cmd(p).ch)])
                       \o Tail(proc[p].plan), 0, {})
    /\ UNCHANGED <<sock, store, ttl, val, best, missed, leaked, sent, faults>>

-------------------------------------------------------------------------------
Start(p, plan) == Free(p) /\ GoesOn(p, plan, 0, {})

Connect(p, c) ==
    /\ sock[c] = "none"
    /\ sock' = [sock EXCEPT ![c] = "opening"]
    /\ Start(p, handle_connect(c))
    /\ UNCHANGED <<store, ttl, val, best, missed, leaked, sent, faults>>

\* The handler of $connect has returned 200, so API Gateway opens the connection.
Accept(p) ==
    /\ Doing(p, "accept")
    /\ sock' = [sock EXCEPT ![Cmd(p).conn] = "open"]
    /\ NextCmd(p)
    /\ UNCHANGED <<store, ttl, val, best, missed, leaked, sent, faults>>

\* Messages of one connection are handled concurrently.
Send(p, c, msg) ==
    /\ sock[c] = "open" /\ sent < MaxMessages
    /\ sent' = sent + 1
    /\ Start(p, handle_default(c, msg))
    /\ UNCHANGED <<sock, store, ttl, val, best, missed, leaked, faults>>

Close(p, c) ==
    /\ sock[c] = "open"
    /\ sock' = [sock EXCEPT ![c] = "closed"]
    /\ Start(p, handle_disconnect(c))
    /\ UNCHANGED <<store, ttl, val, best, missed, leaked, sent, faults>>

\* $disconnect is best effort.
CloseUnseen(c) ==
    /\ Fault
    /\ sock[c] = "open"
    /\ sock' = [sock EXCEPT ![c] = "closed"]
    /\ UNCHANGED <<store, ttl, val, proc, best, missed, leaked, sent>>

\* An order has been processed: its cache writes (of some of the pair's keys, or
\* none when the book has not changed), then the push.
Order(p, written) ==
    /\ \A ch \in written : val[ch] < MaxWrites
    /\ val' = [ch \in Channels |-> IF ch \in written THEN val[ch] + 1 ELSE val[ch]]
    /\ Start(p, push_ws_updates)
    /\ UNCHANGED <<sock, store, ttl, best, missed, leaked, sent, faults>>

\* An hour has passed since the last EXPIRE.  ws:connections, which lives for a
\* day after the last $connect, is read by nobody and does not expire here.
Lapse(k) ==
    /\ Fault
    /\ k \in ttl
    /\ SetKey(k, {})
    /\ UNCHANGED <<sock, val, proc, best, missed, sent>>

\* The values that commands of plan would send.
Owed(plan) ==
    UNION {CASE plan[i].do = "post" -> {<<plan[i].conn, plan[i].ch>>}
             [] plan[i].do = "subscribersOf" -> Conns \X {plan[i].ch}
             [] OTHER -> {} : i \in DOMAIN plan}

\* The keys that commands of plan would give a lifetime.
ToExpire(plan) == {plan[i].key : i \in {j \in DOMAIN plan : plan[j].do = "expire"}}

\* A command's error ends the handler, or the invocation dies; API Gateway
\* refuses a connection whose handler has failed.
Abort(p) ==
    /\ Fault
    /\ ~Free(p)
    /\ proc' = [proc EXCEPT ![p] = Idle]
    /\ missed' = missed \cup Owed(proc[p].plan)
    /\ leaked' = leaked \cup ToExpire(proc[p].plan)
    /\ sock' = [c \in Conns |-> IF accept(c) \in ToSet(proc[p].plan) THEN "closed" ELSE sock[c]]
    /\ UNCHANGED <<store, ttl, val, best, sent>>

\* Faulty variant: any error of a post makes a connection stale.
IgnoreAsGone(p) ==
    /\ Fault
    /\ ~Free(p)
    /\ p \in Pushers /\ Cmd(p).do = "post"
    /\ GoesOn(p, Tail(proc[p].plan), proc[p].val, proc[p].gone \cup {Cmd(p).conn})
    /\ missed' = missed \cup {<<Cmd(p).conn, Cmd(p).ch>>}
    /\ UNCHANGED <<sock, store, ttl, val, best, leaked, sent>>

\* An error that is logged or ignored: those of GET and of a post, of SMEMBERS
\* (taken to be empty) and, in a pusher, of every other command.
Ignore(p) ==
    /\ Fault
    /\ ~Free(p)
    /\ p \in Pushers \/ Cmd(p).do \in {"get", "post", "channelsOf"}
    /\ Cmd(p).do # "reap"
    /\ LET rest == IF Cmd(p).do = "get" THEN SkipPosts(Tail(proc[p].plan)) ELSE Tail(proc[p].plan)
       IN /\ Proceed(p, rest)
          /\ missed' = missed \cup (Owed(proc[p].plan) \ Owed(rest))
    /\ UNCHANGED <<sock, store, ttl, val, best, leaked, sent>>

-------------------------------------------------------------------------------
Step(p) ==
    \/ Sadd(p) \/ Srem(p) \/ Del(p) \/ Expire(p)
    \/ ChannelsOf(p) \/ SubscribersOf(p) \/ Get(p) \/ Post(p) \/ Reap(p) \/ Accept(p)

WsNext ==
    \/ \E p \in Procs : Step(p) \/ Abort(p) \/ Ignore(p)
    \/ \E p \in Handlers, c \in Conns :
          Connect(p, c) \/ Close(p, c) \/ \E msg \in Messages : Send(p, c, msg)
    \/ \E c \in Conns : CloseUnseen(c)
    \/ \E p \in Pushers, written \in Writes : Order(p, written)
    \/ \E k \in Keys \ {Connections} : Lapse(k)

\* An invocation that has started goes on; nothing else need happen.
WsSpec == WsInit /\ [][WsNext]_wsVars /\ \A p \in Procs : WF_wsVars(Step(p))

-------------------------------------------------------------------------------
\* A connection that is listed has been sent the newest value, or somebody is
\* still to send it: subscribing before, between or after a write and the steps of
\* its push leaves no gap (SADD comes before the snapshot's GET, SET
\* before the push's SMEMBERS).  A value lost in a failure is excepted.
ListedIsServed ==
    \A c \in Conns, ch \in Pushed :
        (sock[c] = "open" /\ c \in store[Subs(ch)] /\ <<c, ch>> \notin missed)
            => \/ best[c][ch] = val[ch]
               \/ \E p \in Procs : <<c, ch>> \in Owed(proc[p].plan)

\* Every set in Valkey gets a lifetime, however handlers interleave: one without
\* is about to get it, or the command was lost in a failure.
SetsExpire ==
    \A k \in Keys :
        store[k] # {} => \/ k \in ttl \/ k \in leaked
                         \/ \E p \in Procs : k \in ToExpire(proc[p].plan)

\* An open connection loses a channel only by a message of its own or because
\* the set expires; pushes that fail or invocations that die never take it away.
OpenKeepsChannels ==
    [][\A c \in Conns, ch \in Channels :
          (sock[c] = "open" /\ c \in store[Subs(ch)] /\ c \notin store'[Subs(ch)])
              => \/ \E p \in Handlers : Doing(p, "srem") /\ Cmd(p) = srem(Subs(ch), c)
                 \/ Subs(ch) \in ttl /\ store'[Subs(ch)] = {}]_wsVars

\* As long as orders keep coming, a closed connection is off every channel of the
\* pair in the end, although $disconnect may be lost, the reverse map may miss
\* channels, and a late subscribe may list a connection that is already closed.
ClosedGoes ==
    (\A ch \in Pushed : []<>(val[ch] # 0 /\ \E p \in Pushers :
                                Doing(p, "subscribersOf") /\ Cmd(p).ch = ch))
        => <>[](\A c \in Conns, ch \in Pushed : sock[c] = "closed" => c \notin store[Subs(ch)])
===============================================================================
