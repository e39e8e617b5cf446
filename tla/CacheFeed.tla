------------------------------- MODULE CacheFeed -------------------------------
(***************************************************************************)
(* One cache key on its way from the data to the browsers: a publisher     *)
(* reads the data, SETs the key and PUBLISHes the value; the gateway's     *)
(* subscriber and its fallback poller pass values to update(), which keeps *)
(* the latest for REST (watch) and broadcasts, throttled, to sockets.      *)
(*                                                                         *)
(* A value is the number of changes of the data it shows; 0 is "no value". *)
(* Who publishes depends on the key and on the dispatch mode:              *)
(*   "inline"     each order invocation republishes the book itself;       *)
(*   "debounced"  the worker's debouncer does, after a signal;             *)
(*   "periodic"   the refresh worker republishes trades and tickers.       *)
(***************************************************************************)
EXTENDS Integers, Sequences

CONSTANTS
    Publishers,  \* tasks that may publish the key
    Clients,     \* browsers
    ChannelCap,  \* capacity of the broadcast channel (64)
    MaxChanges,  \* bound: changes of the data
    MaxWire,     \* bound: messages between Valkey and the subscriber
    MaxFaults    \* bound: failures

ASSUME FeedAssumption ==
    /\ Publishers # {}
    /\ ChannelCap \in Nat \ {0}
    /\ {MaxChanges, MaxWire, MaxFaults} \subseteq Nat

VARIABLES
    mode,       \* who publishes; never changes
    direct,     \* clients of /ws/orderbook and /ws/trades, the others are clients
                \* of /ws/stream and /api/stream; never changes
    src,        \* the data in the book or the database
    unsent,     \* orders that have changed the book and not yet signalled it
    dirty,      \* the debouncer's stored permit
    pub,        \* pub[p]: what publisher p is doing and the value it holds
    key,        \* the cache key in Valkey
    wire,       \* messages on their way to the subscriber
    linked,     \* the subscriber is connected
    watch,      \* the value REST handlers see
    casting,    \* casting[t]: what task t has sent to watch and not yet broadcast
    cool,       \* 100 ms have passed since the last broadcast
    polled,     \* the value the poller has read and not yet applied
    tired,      \* the poller waits for its next tick
    fresh,      \* history: the last value broadcast and what REST has shown since
    client,     \* client[c]: state of client c
    blind,      \* history: the key misses a change nobody will publish
    faults

source == <<src, unsent, dirty>>
valkey == <<key, wire>>
gateway == <<watch, fresh, casting, cool, polled, tired>>
feedVars == <<mode, direct, source, pub, valkey, linked, gateway, client, blind, faults>>

Modes == {"inline", "debounced", "periodic"}
Updaters == {"subscriber", "poller"}

\* The worker runs one debouncer task for a pair, and one refresh task.
TheTask == CHOOSE p \in Publishers : TRUE

Asleep == [step |-> "idle", val |-> 0]
Away == [step |-> "away", shown |-> 0, queue |-> <<>>]

FeedInit ==
    /\ mode \in Modes /\ direct \in SUBSET Clients
    /\ src = 0 /\ unsent = 0 /\ dirty = FALSE
    /\ pub = [p \in Publishers |-> Asleep]
    /\ key = 0 /\ wire = <<>>
    /\ linked = FALSE
    /\ watch = 0 /\ fresh = {0}
    /\ casting = [t \in Updaters |-> 0] /\ cool = FALSE /\ polled = 0 /\ tired = FALSE
    /\ client = [c \in Clients |-> Away]
    /\ blind = FALSE /\ faults = 0

Fault == faults < MaxFaults /\ faults' = faults + 1

-------------------------------------------------------------------------------
\* An order matches in the worker; its task will signal the debouncer.
ChangeQueued ==
    /\ mode = "debounced" /\ src < MaxChanges
    /\ src' = src + 1
    /\ unsent' = unsent + 1
    /\ UNCHANGED <<mode, direct, dirty, pub, valkey, linked, gateway, client, blind, faults>>

\* An order matches in a gateway invocation, which goes on to publish.
ChangeInline(p) ==
    /\ mode = "inline" /\ src < MaxChanges
    /\ pub[p] = Asleep
    /\ src' = src + 1
    /\ pub' = [pub EXCEPT ![p].step = "read"]
    /\ UNCHANGED <<mode, direct, unsent, dirty, valkey, linked, gateway, client, blind, faults>>

\* A trade is committed.
ChangeStored ==
    /\ mode = "periodic" /\ src < MaxChanges
    /\ src' = src + 1
    /\ UNCHANGED <<mode, direct, unsent, dirty, pub, valkey, linked, gateway, client, blind, faults>>

\* The book changes and nobody is told: a cancellation, an expiry, a taker that
\* self-trade prevention cancels together with resting orders.
ChangeSilently ==
    /\ mode # "periodic" /\ src < MaxChanges
    /\ src' = src + 1
    /\ blind' = TRUE
    /\ UNCHANGED <<mode, direct, unsent, dirty, pub, valkey, linked, gateway, client, faults>>

\* mark_dirty: notify_one stores at most one permit.
Signal ==
    /\ unsent > 0
    /\ unsent' = unsent - 1
    /\ dirty' = TRUE
    /\ UNCHANGED <<mode, direct, src, pub, valkey, linked, gateway, client, blind, faults>>

\* The answer of the EVAL is lost, so the task ends without a signal.
SignalLost ==
    /\ Fault
    /\ unsent > 0
    /\ unsent' = unsent - 1
    /\ blind' = TRUE
    /\ UNCHANGED <<mode, direct, src, dirty, pub, valkey, linked, gateway, client>>

\* The one debouncer task takes the permit, then sleeps to let more changes come.
Wake(p) ==
    /\ mode = "debounced" /\ dirty
    /\ p = TheTask /\ pub[p] = Asleep
    /\ dirty' = FALSE
    /\ pub' = [pub EXCEPT ![p].step = "read"]
    /\ UNCHANGED <<mode, direct, src, unsent, valkey, linked, gateway, client, blind, faults>>

\* The refresh worker's interval.
Refresh(p) ==
    /\ mode = "periodic"
    /\ p = TheTask /\ pub[p] = Asleep
    /\ pub' = [pub EXCEPT ![p].step = "read"]
    /\ UNCHANGED <<mode, direct, source, valkey, linked, gateway, client, blind, faults>>

\* The snapshot EVAL, or the queries.
ReadSource(p) ==
    /\ pub[p].step = "read"
    /\ pub' = [pub EXCEPT ![p] = [step |-> "set", val |-> src]]
    /\ blind' = FALSE
    /\ UNCHANGED <<mode, direct, source, valkey, linked, gateway, client, faults>>

SetKey(p) ==
    /\ pub[p].step = "set"
    /\ key' = pub[p].val
    /\ pub' = [pub EXCEPT ![p].step = "publish"]
    /\ UNCHANGED <<mode, direct, source, wire, linked, gateway, client, blind, faults>>

\* Faulty variant: the signal is cleared when the work is done.
PublishValueClears(p) ==
    /\ pub[p].step = "publish"
    /\ Len(wire) < MaxWire
    /\ wire' = IF linked THEN Append(wire, pub[p].val) ELSE wire
    /\ pub' = [pub EXCEPT ![p] = Asleep]
    /\ dirty' = FALSE
    /\ UNCHANGED <<mode, direct, src, unsent, key, linked, gateway, client, blind, faults>>

\* A message nobody listens to is gone.
PublishValue(p) ==
    /\ pub[p].step = "publish"
    /\ Len(wire) < MaxWire
    /\ wire' = IF linked THEN Append(wire, pub[p].val) ELSE wire
    /\ pub' = [pub EXCEPT ![p] = Asleep]
    /\ UNCHANGED <<mode, direct, source, key, linked, gateway, client, blind, faults>>

\* A command fails: the error is logged, the rest is not sent.
PublishFails(p) ==
    /\ Fault
    /\ pub[p] # Asleep
    /\ pub' = [pub EXCEPT ![p] = Asleep]
    /\ blind' = TRUE
    /\ UNCHANGED <<mode, direct, source, valkey, linked, gateway, client>>

\* reset_all and truncate_orders delete the key.
ClearKey ==
    /\ Fault
    /\ key' = 0
    /\ blind' = TRUE
    /\ UNCHANGED <<mode, direct, source, pub, wire, linked, gateway, client>>

-------------------------------------------------------------------------------
\* Faulty variant: everyone reads the latest value and then subscribes.
ReadsFirstAlways(c) == TRUE

\* The order in which a client joins: cache_broadcast_ws subscribes and then reads
\* the latest value, sse_stream and handle_multiplexed_ws the other way round.
ReadsFirst(c) == c \notin direct

Subscribed(c) ==
    client[c].step = "live" \/ (client[c].step = "joining" /\ ~ReadsFirst(c))

\* A receiver that lags loses its oldest values.
Enqueued(q, v) == IF Len(q) >= ChannelCap THEN Append(Tail(q), v) ELSE Append(q, v)

\* The first half of CacheBroadcasts::update, by the subscriber or the poller:
\* REST sees the value at once.
SendWatch(t, v) ==
    /\ casting[t] = 0
    /\ watch' = v
    /\ fresh' = fresh \cup {v}
    /\ casting' = [casting EXCEPT ![t] = v]

\* The second half, under last_broadcast's mutex.  The two tasks run on different
\* threads, so the other one's update may come between.
Cast(t) ==
    /\ casting[t] # 0
    /\ casting' = [casting EXCEPT ![t] = 0]
    /\ IF cool
       THEN /\ client' = [c \in Clients |->
                  [client[c] EXCEPT !.queue = IF Subscribed(c) THEN Enqueued(@, casting[t]) ELSE @]]
            /\ fresh' = {casting[t], watch}
            /\ cool' = FALSE
       ELSE UNCHANGED <<client, fresh, cool>>
    /\ UNCHANGED <<mode, direct, source, pub, valkey, linked, watch, polled, tired, blind, faults>>

Link ==
    /\ ~linked
    /\ linked' = TRUE
    /\ UNCHANGED <<mode, direct, source, pub, valkey, gateway, client, blind, faults>>

\* The connection ends; what was under way is lost.
Unlink ==
    /\ Fault
    /\ linked
    /\ linked' = FALSE
    /\ wire' = <<>>
    /\ UNCHANGED <<mode, direct, source, pub, key, gateway, client, blind>>

Receive ==
    /\ wire # <<>>
    /\ wire' = Tail(wire)
    /\ SendWatch("subscriber", Head(wire))
    /\ UNCHANGED <<mode, direct, source, pub, key, linked, cool, polled, tired, client, blind, faults>>

\* spawn_fallback_poller and the warm-up: GET, later update; a missing key is
\* skipped.  The poller's interval (30 s) is longer than the throttle's.
PollGet ==
    /\ ~tired /\ polled = 0
    /\ key # 0
    /\ polled' = key
    /\ UNCHANGED <<mode, direct, source, pub, valkey, linked, watch, fresh, casting, cool, tired, client,
                   blind, faults>>

\* Faulty variant: the poller refreshes REST only.
PollUpdateWatch ==
    /\ polled # 0
    /\ polled' = 0
    /\ tired' = TRUE
    /\ watch' = polled
    /\ fresh' = fresh \cup {polled}
    /\ UNCHANGED <<mode, direct, source, pub, valkey, linked, casting, cool, client, blind, faults>>

PollUpdate ==
    /\ polled # 0
    /\ polled' = 0
    /\ tired' = TRUE
    /\ SendWatch("poller", polled)
    /\ UNCHANGED <<mode, direct, source, pub, valkey, linked, cool, client, blind, faults>>

\* Time passes.
Tick ==
    /\ ~cool \/ tired
    /\ cool' = TRUE /\ tired' = FALSE
    /\ UNCHANGED <<mode, direct, source, pub, valkey, linked, watch, fresh, casting, polled, client,
                   blind, faults>>

-------------------------------------------------------------------------------
\* The first half of joining: read the latest value, or subscribe.
Join(c) ==
    /\ client[c].step = "away"
    /\ client' = [client EXCEPT ![c] =
          [step |-> "joining", shown |-> IF ReadsFirst(c) THEN watch ELSE 0, queue |-> <<>>]]
    /\ UNCHANGED <<mode, direct, source, pub, valkey, linked, gateway, blind, faults>>

\* The second half.
Joined(c) ==
    /\ client[c].step = "joining"
    /\ client' = [client EXCEPT ![c].step = "live",
                    ![c].shown = IF ReadsFirst(c) THEN @ ELSE watch]
    /\ UNCHANGED <<mode, direct, source, pub, valkey, linked, gateway, blind, faults>>

Deliver(c) ==
    /\ client[c].step = "live"
    /\ client[c].queue # <<>>
    /\ client' = [client EXCEPT ![c].shown = Head(client[c].queue), ![c].queue = Tail(@)]
    /\ UNCHANGED <<mode, direct, source, pub, valkey, linked, gateway, blind, faults>>

\* The socket is closed.
Leave(c) ==
    /\ client[c].step # "away"
    /\ client' = [client EXCEPT ![c] = Away]
    /\ UNCHANGED <<mode, direct, source, pub, valkey, linked, gateway, blind, faults>>

-------------------------------------------------------------------------------
Change == ChangeQueued \/ ChangeStored \/ ChangeSilently \/ \E p \in Publishers : ChangeInline(p)

Publishing(p) == Wake(p) \/ ReadSource(p) \/ SetKey(p) \/ PublishValue(p)

Failure == SignalLost \/ ClearKey \/ Unlink \/ \E p \in Publishers : PublishFails(p)

FeedNext ==
    \/ Change \/ Signal \/ Failure
    \/ \E p \in Publishers : Publishing(p) \/ Refresh(p)
    \/ Link \/ Receive \/ PollGet \/ PollUpdate \/ Tick
    \/ \E t \in Updaters : Cast(t)
    \/ \E c \in Clients : Join(c) \/ Joined(c) \/ Deliver(c) \/ Leave(c)

\* Tasks of the runtimes run, intervals elapse, the subscriber reconnects and
\* sockets are written to.  Orders and clients need not come.
FeedSpec ==
    /\ FeedInit
    /\ [][FeedNext]_feedVars
    /\ WF_feedVars(Signal)
    /\ \A p \in Publishers : WF_feedVars(Publishing(p))
    /\ WF_feedVars(\E p \in Publishers : Refresh(p))
    /\ WF_feedVars(Link)
    /\ WF_feedVars(Receive)
    /\ WF_feedVars(PollGet) /\ WF_feedVars(PollUpdate)
    /\ \A t \in Updaters : WF_feedVars(Cast(t))
    /\ WF_feedVars(Tick)
    /\ \A c \in Clients : WF_feedVars(Deliver(c))

-------------------------------------------------------------------------------
\* The debouncer forgets no signal: when it sleeps with none stored and no task
\* is between its match and its signal, the key shows the book, unless the book
\* changed in a way that nobody signals or the last rebuild failed.
QuietBookPublished ==
    (mode = "debounced" /\ ~dirty /\ unsent = 0 /\ ~blind
       /\ \A p \in Publishers : pub[p] = Asleep)
        => key = src

\* Reading after subscribing closes the gap: a direct client that has worked off
\* its channel shows the last value broadcast, or one that REST showed after it,
\* whatever was broadcast while it joined and however far it lagged.
CaughtUpIsFresh ==
    \A c \in direct :
        (client[c].step = "live" /\ client[c].queue = <<>>) => client[c].shown \in fresh

\* When changes stop, REST and every client end up with the value of the key,
\* although messages get lost, broadcasts are throttled, a poll may apply a value
\* that is already old, and stream clients subscribe after their snapshot.  What
\* the refresh worker republishes is then the data, whatever failed before.
EveryoneCatchesUp ==
    <>[](/\ key # 0 => /\ watch = key
                       /\ \A c \in Clients : client[c].step = "live" => client[c].shown = key
         /\ mode = "periodic" => key = src)

===============================================================================
