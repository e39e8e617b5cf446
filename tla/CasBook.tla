-------------------------------- MODULE CasBook --------------------------------
(***************************************************************************)
(* Optimistic concurrency on the book: orders in OccIds are matched by the *)
(* engine in Rust on a snapshot of the book and written back with          *)
(* apply_book_mutations_cas, while the other orders go through the script  *)
(* of MatchOrder and cancellations remove orders.  The protocol around the *)
(* library functions is the documented one (lock the balance, load the     *)
(* book, match, compare-and-swap, on a conflict load again): no caller of  *)
(* it is left in the repository.                                           *)
(*                                                                         *)
(* A pipeline is not a transaction: every command of it is a step of its   *)
(* own.  The hashes a caller will place are written before the version is  *)
(* compared, so a conflict leaves them behind.                             *)
(***************************************************************************)
EXTENDS MatchOrder, Engine

CONSTANTS
    OccIds,   \* orders that take the optimistic path
    FokIds    \* those of them that are fill-or-kill

ASSUME OccAssumption == FokIds \subseteq OccIds /\ OccIds \subseteq OrderIds

VARIABLES
    call,     \* call[o]: the caller working on o
    spoiled,  \* history: orders whose hash a given-up attempt has overwritten
    onceHere, \* history: orders that have been on the book
    withdrawn \* history: orders that remove_order_from_book has taken off

casHistory == <<spoiled, onceHere, withdrawn>>
casVars == <<vars, call, casHistory>>

NoCall ==
    [step |-> "new", ver |-> 0, ids |-> <<>>, orders |-> <<>>, result |-> <<>>, written |-> 0]

\* The script and the caller both turn order[o] into what they match.
AsOrder(o, tif, left, st) ==
    [id |-> o, user |-> order[o].user, side |-> order[o].side, type |-> order[o].type,
     tif |-> tif, price |-> order[o].price, stp |-> order[o].stp,
     remaining |-> left, status |-> st]

Incoming(o) == AsOrder(o, IF o \in FokIds THEN "F" ELSE order[o].tif, order[o].qty, "N")

IsUpsert(r) == r.status \notin {"F", "C"}
Rest(res) == res.incoming.remaining > 0 /\ IsUpsert(res.incoming)

\* The orders a match has changed: those of the book, then the caller's own.
Touched(o) == Append(call[o].result[1].book_updates, call[o].result[1].incoming)

\* Which of them are written before the CAS, in the order of the pipeline.
Upserts(o) ==
    {k \in DOMAIN Touched(o) :
        IF k = Len(Touched(o)) THEN Rest(call[o].result[1]) ELSE IsUpsert(Touched(o)[k])}

\* Every action notes which orders are on the book afterwards.
Note == onceHere' = onceHere \cup UNION {zset'[s] : s \in Sides}

-------------------------------------------------------------------------------
CasInit ==
    /\ Init
    /\ call = [o \in OccIds |-> NoCall]
    /\ spoiled = {} /\ onceHere = {} /\ withdrawn = {}

\* lock_balance_redis: one EVAL.
LockFunds(o) ==
    /\ pc = "idle"
    /\ call[o].step = "new"
    /\ IF Affordable(o)
       THEN /\ available' = [available EXCEPT ![order[o].user][LockAsset(o)] = @ - Locking(o)]
            /\ locked' = [locked EXCEPT ![order[o].user][LockAsset(o)] = @ + Locking(o)]
            /\ call' = [call EXCEPT ![o].step = "version"]
            /\ UNCHANGED reply
       ELSE /\ call' = [call EXCEPT ![o].step = "ended"]
            /\ reply' = [reply EXCEPT ![o] = Rejected]
            /\ UNCHANGED funds
    /\ UNCHANGED <<order, book, version, history, script, dropping, sweep, casHistory>>

\* load_order_book_snapshot: GET version.
LoadVersion(o) ==
    /\ pc = "idle"
    /\ call[o].step = "version"
    /\ call' = [call EXCEPT ![o] = [NoCall EXCEPT !.step = "ids", !.ver = version]]
    /\ UNCHANGED <<vars, casHistory>>

\* Members of a sorted set as Valkey lists them.
Listed(S) ==
    {q \in [1 .. Cardinality(S) -> S] : \A j, k \in DOMAIN q : j < k => Before(q[j], q[k])}

\* ZRANGEBYSCORE up to the limit price, best first.
LoadIds(o) ==
    /\ pc = "idle"
    /\ call[o].step = "ids"
    /\ \E q \in Listed({r \in zset[Opposite(order[o].side)] : WithinBound(o, r)}) :
          call' = [call EXCEPT ![o].step = "load", ![o].ids = q]
    /\ UNCHANGED <<vars, casHistory>>

\* HMGET of one order; a missing hash is skipped.
LoadOrder(o) ==
    /\ pc = "idle"
    /\ call[o].step = "load"
    /\ call[o].ids # <<>>
    /\ LET r == Head(call[o].ids)
       IN  call' = [call EXCEPT ![o].ids = Tail(@),
              ![o].orders = IF hash[r] = NoHash THEN @
                            ELSE Append(@, AsOrder(r, order[r].tif, hash[r].remaining,
                                                   hash[r].status))]
    /\ UNCHANGED <<vars, casHistory>>

\* Match in memory.  Without a change of the book there is nothing to write.
Matched(o) ==
    /\ pc = "idle"
    /\ call[o].step = "load"
    /\ call[o].ids = <<>>
    /\ LET res == match_order(Incoming(o), call[o].orders)
       IN  IF res.book_updates = <<>> /\ ~Rest(res)
           THEN /\ call' = [call EXCEPT ![o] = [NoCall EXCEPT !.step = "unlock"]]
                /\ reply' = [reply EXCEPT ![o] = [remaining |-> res.incoming.remaining,
                                                 status |-> res.incoming.status]]
           ELSE /\ call' = [call EXCEPT ![o].step = "write", ![o].result = <<res>>]
                /\ UNCHANGED reply
    /\ UNCHANGED <<order, book, funds, version, history, script, dropping, sweep, casHistory>>

Unwritten(o) == {k \in Upserts(o) : k > call[o].written}

\* Phase 1: HSET of the next order to be placed.
PreWrite(o) ==
    /\ pc = "idle"
    /\ call[o].step = "write"
    /\ \E k \in Unwritten(o) :
          /\ \A j \in Unwritten(o) : k <= j
          /\ LET r == Touched(o)[k]
             IN  hash' = [hash EXCEPT ![r.id] = [remaining |-> r.remaining, status |-> r.status]]
          /\ call' = [call EXCEPT ![o].written = k]
    /\ UNCHANGED <<order, zset, funds, version, reply, history, script, dropping, sweep,
                   casHistory>>

\* The hashes an unfinished attempt of o has written.
PreWritten(o) ==
    IF call[o].step = "write" THEN {Touched(o)[k].id : k \in Upserts(o) \ Unwritten(o)} ELSE {}

\* Faulty variant: no comparison.
VersionMatchesAlways(o) == TRUE

\* tostring(false) is "false": without a version key every attempt conflicts.
VersionMatches(o) == version # 0 /\ version = call[o].ver

AtCas(o) == pc = "idle" /\ call[o].step = "write" /\ Unwritten(o) = {}

FillOf(T, x) == Units({t \in T : x \in {t.taker, t.maker}})

\* Phase 2: the CAS script.
Commit(o) ==
    LET res == call[o].result[1]
        removed == {res.book_updates[k].id : k \in {j \in DOMAIN res.book_updates :
                                                      ~IsUpsert(res.book_updates[j])}}
        placed == {Touched(o)[k].id : k \in Upserts(o)}
    IN  /\ AtCas(o)
        /\ VersionMatches(o)
        /\ zset' = [s \in Sides |->
                      (zset[s] \ removed) \cup {x \in placed : order[x].side = s}]
        /\ hash' = [x \in OrderIds |-> IF x \in removed THEN NoHash ELSE hash[x]]
        /\ version' = version + 1
        /\ trades' = trades \cup res.trades
        /\ filled' = [x \in OrderIds |-> filled[x] + FillOf(res.trades, x)]
        /\ reply' = [reply EXCEPT ![o] = [remaining |-> res.incoming.remaining,
                                          status |-> res.incoming.status]]
        /\ call' = [call EXCEPT ![o] = [NoCall EXCEPT !.step = "unlock"]]
        /\ Note
        /\ UNCHANGED <<order, funds, cut, script, dropping, sweep, spoiled, withdrawn>>

\* VERSION_CONFLICT: the caller loads the book again.  What it pre-wrote stays.
Conflict(o) ==
    /\ AtCas(o)
    /\ ~VersionMatches(o)
    /\ spoiled' = spoiled \cup PreWritten(o)
    /\ call' = [call EXCEPT ![o] = [NoCall EXCEPT !.step = "version"]]
    /\ UNCHANGED <<vars, onceHere, withdrawn>>

\* What a cancelled order leaves over.
Over(o) ==
    IF reply[o].status # "C" THEN 0
    ELSE IF order[o].side = "B" THEN order[o].price * reply[o].remaining
    ELSE reply[o].remaining

\* unlock_balance_redis: two HINCRBY.
UnlockAvailable(o) ==
    /\ pc = "idle"
    /\ call[o].step = "unlock"
    /\ available' = [available EXCEPT ![order[o].user][LockAsset(o)] = @ + Over(o)]
    /\ call' = [call EXCEPT ![o].step = "unlocking"]
    /\ UNCHANGED <<order, book, locked, version, reply, history, script, dropping, sweep,
                   casHistory>>

UnlockLocked(o) ==
    /\ pc = "idle"
    /\ call[o].step = "unlocking"
    /\ locked' = [locked EXCEPT ![order[o].user][LockAsset(o)] = @ - Over(o)]
    /\ call' = [call EXCEPT ![o].step = "ended"]
    /\ UNCHANGED <<order, book, available, version, reply, history, script, dropping, sweep,
                   casHistory>>

\* A command fails or the caller dies: its funds stay locked, its hashes stay.
GiveUp(o) ==
    /\ pc = "idle"
    /\ call[o].step \notin {"new", "ended"}
    /\ spoiled' = spoiled \cup PreWritten(o)
    /\ call' = [call EXCEPT ![o] = [NoCall EXCEPT !.step = "ended"]]
    /\ UNCHANGED <<vars, onceHere, withdrawn>>

Caller(o) ==
    \/ LockFunds(o) \/ LoadVersion(o) \/ LoadIds(o) \/ LoadOrder(o) \/ Matched(o)
    \/ PreWrite(o) \/ Commit(o) \/ Conflict(o) \/ UnlockAvailable(o) \/ UnlockLocked(o)

\* The orders that go through the script.
Scripted ==
    /\ \/ \E o \in OrderIds \ OccIds : Reject(o) \/ Begin(o)
       \/ \E r \in OrderIds : Visit(r)
       \/ Finish
    /\ Note
    /\ UNCHANGED <<call, spoiled, withdrawn>>

Cancellation ==
    \/ \E o \in OrderIds :
          RemoveZrem(o) /\ withdrawn' = withdrawn \cup {o} /\ UNCHANGED <<call, spoiled, onceHere>>
    \/ \E o \in OrderIds : RemoveDel(o) /\ UNCHANGED <<call, casHistory>>

CasNext ==
    \/ Scripted
    \/ Cancellation
    \/ \E o \in OccIds : Caller(o) \/ GiveUp(o)

CasSpec == CasInit /\ [][CasNext]_casVars

-------------------------------------------------------------------------------
\* The engine trades exactly what price-time priority, the self-trade mode and
\* the FOK pre-check allow, on every book a caller has loaded, whether or not
\* anything is written afterwards, and what it reports of the incoming order
\* agrees with the trades.
EngineMeetsReference ==
    \A o \in OccIds :
        (call[o].step = "load" /\ call[o].ids = <<>>) =>
            LET res == match_order(Incoming(o), call[o].orders)
            IN  /\ res.trades = ReferenceTrades(Incoming(o), call[o].orders)
                /\ res.incoming.remaining + FillOf(res.trades, o) = order[o].qty

\* Nothing is filled twice or forgotten, although callers race with each other
\* and with the script: the version check protects every order, except those
\* whose hash was overwritten by an attempt that has not (or not yet) committed.
CleanAccounted ==
    \A x \in OrderIds \ (spoiled \cup UNION {PreWritten(o) : o \in OccIds}) :
        /\ filled[x] <= order[x].qty
        /\ (x \in zset[order[x].side] /\ Live(x) /\ ~(pc = "walk" /\ taker = x))
              => filled[x] + hash[x].remaining = order[x].qty

\* A fill-or-kill order that meets no order of its own user trades completely or
\* not at all, over all its attempts.
FokAllOrNothing ==
    \A o \in FokIds :
        (call[o].step = "ended" /\ (order[o].stp = "N"
            \/ \A x \in OrderIds \ {o} : order[x].user # order[o].user))
            => filled[o] \in {0, order[o].qty}

\* A late write never puts an order back on the book that was filled or removed
\* by self-trade prevention.  One that was cancelled meanwhile may come back:
\* remove_order_from_book does not move the version.
NoResurrection ==
    [][\A x \in OrderIds : \A s \in Sides :
          (x \in zset'[s] /\ x \notin zset[s] /\ x \in onceHere) => x \in withdrawn]_casVars
===============================================================================
