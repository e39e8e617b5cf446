------------------------------ MODULE MatchOrder ------------------------------
(***************************************************************************)
(* The order book of one pair in Valkey and everything that writes it      *)
(* while the system runs: the matching script match_order.lua, the expiry  *)
(* of resting-order hashes, remove_order_from_book (cancellation) and the  *)
(* sweep_stale_orders command.                                             *)
(*                                                                         *)
(* Valkey runs a script alone.  The script is a small machine here: Begin  *)
(* is everything before its loop, one Visit step is one iteration, Finish  *)
(* is everything after it.  All other writers wait for pc = "idle", so an  *)
(* EVAL is atomic for them, as in Valkey.  Order ids stand for UUIDs; they *)
(* are numbers because a sorted set orders members of equal score by the   *)
(* bytes of the member.                                                    *)
(***************************************************************************)
EXTENDS Integers, FiniteSets, Functions

CONSTANTS
    OrderIds,     \* ids the clients' orders will get
    Users,
    Requests,     \* what clients may submit
    FetchLimit,   \* LIMIT of ZRANGEBYSCORE (50 in the script)
    InitialFunds  \* [Users -> [Assets -> Nat]]: balances loaded from PostgreSQL

Sides == {"B", "S"}
Assets == {"base", "quote"}
StpModes == {"N", "CM", "CT", "CB"}
OrderStatuses == {"N", "PF", "F", "C"}

\* A validated Order as it reaches match_order_lua; FOK never gets there.  A
\* market order has no price and is passed with price_i = 0.
OrderType ==
    [user : Users, side : Sides, type : {"L", "M"}, tif : {"G", "I"},
     price : Int, qty : Nat \ {0}, stp : StpModes]

ASSUME OrderIdsAssumption == OrderIds \subseteq Nat /\ IsFiniteSet(OrderIds)
ASSUME RequestsAssumption ==
    /\ Requests \subseteq OrderType
    /\ \A q \in Requests : q.type = "M" => q.price = 0
ASSUME FetchLimitAssumption == FetchLimit \in Nat \ {0}
ASSUME InitialFundsAssumption == InitialFunds \in [Users -> [Assets -> Nat]]

VARIABLES
    order,      \* order[o]: the request submitted under id o; never changes
    zset,       \* zset[s]: members of book:{pair}:bids ("B") / :asks ("S")
    hash,       \* hash[o]: the mutable fields of order:{o}; NoHash if the key is gone
    available,  \* balance:{user}:{asset} available
    locked,     \* balance:{user}:{asset} locked
    version,    \* version:{pair}
    reply,      \* reply[o]: what the EVAL for o returned
    filled,     \* filled[o]: units of o traded so far
    trades,     \* every trade returned by an EVAL
    cut,        \* history: orders whose LIMIT left eligible members unfetched
    pc, taker, cands, remaining, status,  \* the running script: its locals
    dropping,   \* orders between the ZREM and the DEL of remove_order_from_book
    sweepList,  \* members the sweep has listed and not yet looked at
    sweepGone,  \* the member the sweep takes for a ghost and will ZREM
    unanswered  \* history: that member, if its EXISTS failed

book == <<zset, hash>>
funds == <<available, locked>>
script == <<pc, taker, cands, remaining, status>>
sweep == <<sweepList, sweepGone, unanswered>>
history == <<filled, trades, cut>>
vars == <<order, book, funds, version, reply, history, script, dropping, sweep>>

\* HMGET of a missing key reads as remaining 0 and no status.
NoHash == [remaining |-> 0, status |-> ""]
NotSubmitted == [remaining |-> 0, status |-> "-"]
Rejected == [remaining |-> 0, status |-> "INSUFFICIENT_BALANCE"]

-------------------------------------------------------------------------------
Opposite(s) == IF s = "B" THEN "S" ELSE "B"

\* Faulty variant: bids not negated.
ScoreUnsigned(o) == order[o].price

\* Sorted-set scores: bids are stored negated, so the best order is first.
Score(o) == IF order[o].side = "B" THEN -order[o].price ELSE order[o].price

Before(x, y) == Score(x) < Score(y) \/ (Score(x) = Score(y) /\ x < y)

\* Faulty variant: the bound excludes the taker's own price.
WithinBoundStrict(o, r) ==
    \/ order[o].type = "M"
    \/ Score(r) < (IF order[o].side = "B" THEN order[o].price ELSE -order[o].price)

\* Upper bound of the fetch: a limit order sees scores up to its own price,
\* a market order sees all.
WithinBound(o, r) ==
    \/ order[o].type = "M"
    \/ Score(r) <= (IF order[o].side = "B" THEN order[o].price ELSE -order[o].price)

Eligible(o) == {r \in zset[Opposite(order[o].side)] : WithinBound(o, r)}

\* ZRANGEBYSCORE opp -inf max_score LIMIT 0 FetchLimit
Fetch(o) ==
    {r \in Eligible(o) : Cardinality({x \in Eligible(o) : Before(x, r)}) < FetchLimit}

LockAsset(o) == IF order[o].side = "B" THEN "quote" ELSE "base"

\* Faulty variant: a buyer locks the price of one unit.
LockAmountPerUnit(o) == IF order[o].side = "B" THEN order[o].price ELSE order[o].qty

LockAmount(o) ==
    IF order[o].side = "B" THEN order[o].price * order[o].qty ELSE order[o].qty

\* Faulty variant: no balance check.
AffordableUnchecked(o) == TRUE

\* A market buy (price 0) locks nothing.
Affordable(o) ==
    LockAmount(o) > 0 => available[order[o].user][LockAsset(o)] >= LockAmount(o)

Locking(o) == IF LockAmount(o) > 0 THEN LockAmount(o) ELSE 0

Live(o) == hash[o].status \notin {"F", "C"} /\ hash[o].remaining > 0
Resting(s) == {o \in zset[s] : Live(o)}

Crosses(o, r) ==
    \/ order[o].type = "M"
    \/ order[o].side = "B" /\ order[o].price >= order[r].price
    \/ order[o].side = "S" /\ order[o].price <= order[r].price

\* Faulty variant: the maker's mode is ignored.
StpModeTakerOnly(o, r) == IF order[o].user # order[r].user THEN "N" ELSE order[o].stp

\* The taker's own mode, or the maker's when the taker has none.
StpMode(o, r) ==
    IF order[o].user # order[r].user THEN "N"
    ELSE IF order[o].stp # "N" THEN order[o].stp ELSE order[r].stp

\* Faulty variant: the taker's price, also when the taker has none.
TradePriceTaker(o, r) == order[o].price

\* The maker's price; if the maker is a market order, the taker's.
TradePrice(o, r) == IF order[r].type = "M" THEN order[o].price ELSE order[r].price

MinOf(a, b) == IF a < b THEN a ELSE b

\* What one iteration of the loop does with candidate r.
Outcome(r) ==
    CASE ~Live(r) -> "ghost"
      [] Live(r) /\ ~Crosses(taker, r) -> "stop"
      [] OTHER -> StpMode(taker, r)

\* The units that change hands in the trades T.
Units(T) == SumFunctionOnSet([t \in T |-> t.qty], T)

ZRem(s, o) == zset' = [zset EXCEPT ![s] = @ \ {o}]
Del(o) == hash' = [hash EXCEPT ![o] = NoHash]

-------------------------------------------------------------------------------
Init ==
    /\ order \in [OrderIds -> Requests]
    /\ zset = [s \in Sides |-> {}]
    /\ hash = [o \in OrderIds |-> NoHash]
    /\ available = InitialFunds
    /\ locked = [u \in Users |-> [a \in Assets |-> 0]]
    /\ version = 0
    /\ reply = [o \in OrderIds |-> NotSubmitted]
    /\ filled = [o \in OrderIds |-> 0]
    /\ trades = {}
    /\ cut = {}
    /\ pc = "idle" /\ taker = 0 /\ cands = {} /\ remaining = 0 /\ status = "-"
    /\ dropping = {}
    /\ sweepList = {}
    /\ sweepGone = {}
    /\ unanswered = {}

-------------------------------------------------------------------------------
\* The balance check at the head of the script fails: nothing is written.
Reject(o) ==
    /\ pc = "idle"
    /\ reply[o] = NotSubmitted
    /\ ~Affordable(o)
    /\ reply' = [reply EXCEPT ![o] = Rejected]
    /\ UNCHANGED <<order, book, funds, version, history, script, dropping, sweep>>

\* Lock the balance, fetch the candidates.
Begin(o) ==
    /\ pc = "idle"
    /\ reply[o] = NotSubmitted
    /\ Affordable(o)
    /\ available' = [available EXCEPT ![order[o].user][LockAsset(o)] = @ - Locking(o)]
    /\ locked' = [locked EXCEPT ![order[o].user][LockAsset(o)] = @ + Locking(o)]
    /\ pc' = "walk"
    /\ taker' = o
    /\ cands' = Fetch(o)
    /\ cut' = IF Fetch(o) = Eligible(o) THEN cut ELSE cut \cup {o}
    /\ remaining' = order[o].qty
    /\ status' = "N"
    /\ UNCHANGED <<order, book, version, reply, filled, trades, dropping, sweep>>

\* r is the next id of the fetched list and the loop goes on.
AtCandidate(r) ==
    /\ pc = "walk"
    /\ remaining > 0
    /\ r \in cands
    /\ \A x \in cands \ {r} : Before(r, x)

SkipGhost(r) ==
    /\ AtCandidate(r)
    /\ Outcome(r) = "ghost"
    /\ cands' = cands \ {r}
    /\ UNCHANGED <<order, book, funds, version, reply, history, pc, taker,
                   remaining, status, dropping, sweep>>

\* match_break: either the price no longer crosses, or self-trade prevention
\* cancels the taker ("CT"), with "CB" the maker too.
LeaveLoop(r) ==
    /\ AtCandidate(r)
    /\ Outcome(r) \in {"stop", "CT", "CB"}
    /\ cands' = {}
    /\ remaining' = IF Outcome(r) = "stop" THEN remaining ELSE 0
    /\ status' = IF Outcome(r) = "stop" THEN status ELSE "C"
    /\ IF Outcome(r) = "CB"
       THEN ZRem(order[r].side, r) /\ Del(r)
       ELSE UNCHANGED book
    /\ UNCHANGED <<order, funds, version, reply, history, pc, taker, dropping, sweep>>

CancelMaker(r) ==
    /\ AtCandidate(r)
    /\ Outcome(r) = "CM"
    /\ ZRem(order[r].side, r)
    /\ Del(r)
    /\ cands' = cands \ {r}
    /\ UNCHANGED <<order, funds, version, reply, history, pc, taker, remaining,
                   status, dropping, sweep>>

\* Faulty variants: the fill ignores what the maker, or the taker, has left.
FillTaker(r) == remaining
FillMaker(r) == hash[r].remaining

Fill(r) == MinOf(remaining, hash[r].remaining)

Trade(r) ==
    /\ AtCandidate(r)
    /\ Outcome(r) = "N"
    /\ remaining' = remaining - Fill(r)
    /\ IF hash[r].remaining - Fill(r) <= 0
       THEN ZRem(order[r].side, r) /\ Del(r)
       ELSE /\ hash' = [hash EXCEPT ![r] = [remaining |-> hash[r].remaining - Fill(r),
                                            status |-> "PF"]]
            /\ UNCHANGED zset
    /\ filled' = [filled EXCEPT ![taker] = @ + Fill(r), ![r] = @ + Fill(r)]
    /\ trades' = trades \cup {[taker |-> taker, maker |-> r,
                               price |-> TradePrice(taker, r), qty |-> Fill(r)]}
    /\ cands' = cands \ {r}
    /\ UNCHANGED <<order, funds, version, reply, cut, pc, taker, status, dropping, sweep>>

\* Faulty variant: any fill is reported as a complete one.
FinalStatusAnyFill ==
    CASE status = "C" -> "C"
      [] status # "C" /\ remaining < order[taker].qty -> "F"
      [] OTHER -> IF order[taker].tif = "I" THEN "C" ELSE "N"

\* The status the script returns, IOC rule included.
FinalStatus ==
    CASE status = "C" -> "C"
      [] status # "C" /\ remaining <= 0 -> "F"
      [] status # "C" /\ remaining > 0 /\ order[taker].tif = "I" -> "C"
      [] OTHER -> IF remaining < order[taker].qty THEN "PF" ELSE "N"

Rests == order[taker].tif = "G" /\ remaining > 0 /\ FinalStatus # "C"

\* After the loop: time in force, placing the rest, the version, the reply.
Finish ==
    /\ pc = "walk"
    /\ remaining <= 0 \/ cands = {}
    /\ IF Rests
       THEN /\ zset' = [zset EXCEPT ![order[taker].side] = @ \cup {taker}]
            /\ hash' = [hash EXCEPT ![taker] = [remaining |-> remaining,
                                                status |-> FinalStatus]]
       ELSE UNCHANGED book
    /\ version' = version + 1
    /\ reply' = [reply EXCEPT ![taker] = [remaining |-> remaining, status |-> FinalStatus]]
    /\ pc' = "idle" /\ taker' = 0 /\ cands' = {} /\ remaining' = 0 /\ status' = "-"
    /\ UNCHANGED <<order, funds, history, dropping, sweep>>

Visit(r) == SkipGhost(r) \/ LeaveLoop(r) \/ CancelMaker(r) \/ Trade(r)

-------------------------------------------------------------------------------
\* EXPIRE 3600 on the hash; the sorted-set member stays behind.  Keys do not
\* expire while a script runs.
ExpireHash(o) ==
    /\ pc = "idle"
    /\ hash[o] # NoHash
    /\ Del(o)
    /\ UNCHANGED <<order, zset, funds, version, reply, history, script, dropping, sweep>>

\* remove_order_from_book: a pipeline of two commands, not a transaction, sent
\* for an order that was reported open (process_cancellation reads that from
\* the database, so the order may meanwhile have traded away).
RemoveZrem(o) ==
    /\ pc = "idle"
    /\ reply[o].status \in {"N", "PF"}
    /\ o \notin dropping
    /\ ZRem(order[o].side, o)
    /\ dropping' = dropping \cup {o}
    /\ UNCHANGED <<order, hash, funds, version, reply, history, script, sweep>>

RemoveDel(o) ==
    /\ pc = "idle"
    /\ o \in dropping
    /\ Del(o)
    /\ dropping' = dropping \ {o}
    /\ UNCHANGED <<order, zset, funds, version, reply, history, script, sweep>>

\* sweep_stale_orders: ZRANGE 0 -1 of one side, then EXISTS and ZREM for each.
SweepScan(s) ==
    /\ pc = "idle"
    /\ sweepList = {} /\ sweepGone = {}
    /\ sweepList' = zset[s]
    /\ UNCHANGED <<order, book, funds, version, reply, history, script, dropping, sweepGone,
                   unanswered>>

\* Faulty variant: members are marked without asking for their hash.
SweepExistsBlind(o) ==
    /\ pc = "idle"
    /\ sweepGone = {}
    /\ o \in sweepList
    /\ sweepList' = sweepList \ {o}
    /\ sweepGone' = {o}
    /\ UNCHANGED <<order, book, funds, version, reply, history, script, dropping, unanswered>>

SweepExists(o) ==
    /\ pc = "idle"
    /\ sweepGone = {}
    /\ o \in sweepList
    /\ sweepList' = sweepList \ {o}
    /\ sweepGone' = IF hash[o] = NoHash THEN {o} ELSE {}
    /\ UNCHANGED <<order, book, funds, version, reply, history, script, dropping, unanswered>>

SweepZrem(o) ==
    /\ pc = "idle"
    /\ o \in sweepGone
    /\ ZRem(order[o].side, o)
    /\ sweepGone' = {}
    /\ unanswered' = {}
    /\ UNCHANGED <<order, hash, funds, version, reply, history, script, dropping, sweepList>>

\* A command of the sweep fails.  An EXISTS without an answer counts as "no"
\* (unwrap_or(false)), a failed ZREM is forgotten.
SweepExistsFails(o) ==
    /\ sweepGone = {}
    /\ o \in sweepList
    /\ sweepList' = sweepList \ {o}
    /\ sweepGone' = {o}
    /\ unanswered' = {o}
    /\ UNCHANGED <<order, book, funds, version, reply, history, script, dropping>>

SweepZremFails(o) ==
    /\ o \in sweepGone
    /\ sweepGone' = {}
    /\ unanswered' = {}
    /\ UNCHANGED <<order, book, funds, version, reply, history, script, dropping, sweepList>>

-------------------------------------------------------------------------------
Script == (\E o \in OrderIds : Reject(o) \/ Begin(o) \/ Visit(o)) \/ Finish

Maintenance ==
    \/ \E o \in OrderIds : ExpireHash(o) \/ RemoveZrem(o) \/ RemoveDel(o)
                           \/ SweepExists(o) \/ SweepZrem(o)
    \/ \E s \in Sides : SweepScan(s)

SweepFault == \E o \in OrderIds : SweepExistsFails(o) \/ SweepZremFails(o)

Next == Script \/ Maintenance \/ SweepFault

Spec == Init /\ [][Next]_vars

\* Trading only, for instances with more orders.
TradingSpec == Init /\ [][Script]_vars

-------------------------------------------------------------------------------
Statuses == OrderStatuses \cup {"-", "INSUFFICIENT_BALANCE"}
HashType == [remaining : Nat, status : {"", "N", "PF"}]
ReplyType == [remaining : Nat, status : Statuses]
TradeType == [taker : OrderIds, maker : OrderIds, price : Int, qty : Nat]

\* Types of the Valkey keys and of the script's locals.  Balances in Nat is the
\* balance gate: locking never drives an available balance below zero.
TypeOK ==
    /\ order \in [OrderIds -> Requests]
    /\ zset \in [Sides -> SUBSET OrderIds]
    /\ hash \in [OrderIds -> HashType]
    /\ available \in [Users -> [Assets -> Nat]]
    /\ locked \in [Users -> [Assets -> Nat]]
    /\ version \in Nat
    /\ reply \in [OrderIds -> ReplyType]
    /\ filled \in [OrderIds -> Nat]
    /\ trades \subseteq TradeType
    /\ cut \in SUBSET OrderIds
    /\ pc \in {"idle", "walk"}
    /\ pc = "walk" => taker \in OrderIds
    /\ cands \in SUBSET OrderIds
    /\ remaining \in Nat
    /\ status \in {"-", "N", "C"}
    /\ dropping \in SUBSET OrderIds
    /\ sweepList \in SUBSET OrderIds
    /\ sweepGone \in SUBSET OrderIds
    /\ unanswered \in SUBSET OrderIds

\* The quantity of an order that can still trade.
Left(o) ==
    IF pc = "walk" /\ taker = o THEN remaining
    ELSE IF o \in zset[order[o].side] THEN hash[o].remaining ELSE 0

Submitted(o) == reply[o] # NotSubmitted \/ (pc = "walk" /\ taker = o)

\* No fills beyond order quantity, and none forgotten: what an order has traded
\* and what it may still trade never exceed its quantity, and add up to it as
\* long as the order is on the book or the script is matching it.
QuantityAccounted ==
    \A o \in OrderIds :
        /\ filled[o] + Left(o) <= order[o].qty
        /\ (o \in zset[order[o].side] /\ Live(o)) => filled[o] + Left(o) = order[o].qty
        /\ (pc = "walk" /\ taker = o /\ status # "C") => filled[o] + Left(o) = order[o].qty
        /\ ~Submitted(o) => filled[o] = 0

\* Between two EVALs the book is crossed only by orders whose fetch was cut short:
\* every other live limit bid is below every other live limit ask, whatever
\* expired, was cancelled or swept around them.  The LIMIT is the only way in
\* which the script misses a match, and it counts ghosts too.
BookUncrossed ==
    pc = "idle" =>
        \A b \in Resting("B") \ cut, a \in Resting("S") \ cut :
            (order[b].type = "L" /\ order[a].type = "L") => order[b].price < order[a].price

\* A trade never takes a maker while a live order of that side has a better
\* price, whatever ghosts, cancellations and self-trade rules the walk met.
BestPriceFirst ==
    [][\A t \in trades' \ trades :
          \A x \in Resting(order[t.maker].side) :
              IF order[x].side = "B" THEN order[t.maker].price >= order[x].price
                                     ELSE order[t.maker].price <= order[x].price]_vars

\* A limit order never trades at a price worse than its limit, as taker or maker.
LimitRespected ==
    \A t \in trades : \A o \in {t.taker, t.maker} :
        order[o].type = "L" =>
            IF order[o].side = "B" THEN t.price <= order[o].price
                                   ELSE t.price >= order[o].price

\* Two orders of one user trade only when neither asked for self-trade
\* prevention (the script falls back on the maker's mode).
SelfTradePrevented ==
    \A t \in trades :
        order[t.taker].user = order[t.maker].user =>
            order[t.taker].stp = "N" /\ order[t.maker].stp = "N"

\* The balance gate: whatever is live on the book or being matched is covered
\* by funds the owner has locked.
Needed(o) == IF order[o].side = "B" THEN order[o].price * Left(o) ELSE Left(o)
Held(u, a) == {o \in OrderIds : order[o].user = u /\ LockAsset(o) = a}

FundsBackBook ==
    \A u \in Users, a \in Assets :
        SumFunctionOnSet([o \in OrderIds |-> Needed(o)], {o \in Held(u, a) : Needed(o) > 0})
            <= locked[u][a]

\* The reply and the trades it lists tell the same story: an order that was not
\* cancelled by self-trade prevention traded exactly qty - remaining as a taker,
\* F is reported for nothing less than the full quantity.
TakenBy(o) == Units({t \in trades : t.taker = o})

ReplyMatchesTrades ==
    \A o \in OrderIds :
        /\ (reply[o].status \in {"N", "PF", "F"} \/ (reply[o].status = "C" /\ reply[o].remaining > 0))
             => TakenBy(o) = order[o].qty - reply[o].remaining
        /\ reply[o].status = "F" => reply[o].remaining = 0
        /\ reply[o].status \in {"-", "INSUFFICIENT_BALANCE"} /\ taker # o => TakenBy(o) = 0

\* What the sweep found without a hash is never live when its ZREM runs, although
\* scripts place and fill orders between the two commands.  A live order is in
\* danger only from an EXISTS that failed.
SweepSparesLive == \A o \in sweepGone \ unanswered : ~Live(o)

-------------------------------------------------------------------------------
\* The script implements the abstract exchange: an iteration that trades is one
\* Execute, an order that leaves the book any other way is one Withdraw.
Exch == INSTANCE Exchange WITH
    accepted <- {o \in OrderIds : Submitted(o) /\ reply[o] # Rejected},
    left <- [o \in OrderIds |-> Left(o)],
    executed <- filled

\* Every behaviour of the book maps to one of the abstract exchange.
ImplementsExchange == Exch!Spec
===============================================================================
