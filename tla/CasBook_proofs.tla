---------------------------- MODULE CasBook_proofs ----------------------------
(***************************************************************************)
(* Theorems about the engine in Rust and the optimistic callers of         *)
(* CasBook, for every set of orders, users, requests and funds and every   *)
(* choice of the orders that take the optimistic path.                     *)
(***************************************************************************)
EXTENDS CasBook, MatchOrder_proofs, SequenceTheorems

-------------------------------------------------------------------------------
(* The engine: one match as a loop over a snapshot.                        *)

\* What the engine takes and returns.
EngineOrders ==
    [id : OrderIds, user : Users, side : Sides, type : {"L", "M"}, tif : {"G", "I", "F"},
     price : Int, stp : StpModes, remaining : Nat, status : {""} \cup OrderStatuses]

MatchResults ==
    [incoming : EngineOrders, trades : SUBSET TradeType, book_updates : Seq(EngineOrders),
     stop : BOOLEAN]

\* A non-empty set of natural numbers has a least member.
LEMMA LeastNatural ==
    ASSUME NEW T, T \subseteq Nat, T # {}
    PROVE  \E n \in T : \A m \in T : n <= m
<1>1. PICK b \in T : TRUE
  OBVIOUS
<1> DEFINE I == {0 .. m : m \in {x \in T : x <= b}}
           J == 0 .. b
<1>2. IsFiniteSet(J)
  BY FS_Interval
<1>3. I \subseteq SUBSET J /\ I # {}
  OBVIOUS
<1>4. PICK U \in I : \A V \in I : V \subseteq U => V = U
  <2> HIDE DEF I, J
  <2> QED
    BY <1>2, <1>3, MinimalSubset
<1>5. PICK n \in T : n <= b /\ U = 0 .. n
  OBVIOUS
<1>6. ASSUME NEW m \in T, ~(n <= m) PROVE FALSE
  <2>1. m \in Nat /\ n \in Nat /\ b \in Nat /\ m < n /\ m <= b
    BY <1>5, <1>6
  <2>2. 0 .. m \in I
    BY <2>1
  <2>3. 0 .. m \subseteq U
    BY <1>5, <2>1
  <2>4. 0 .. m = 0 .. n
    BY <1>4, <1>5, <2>2, <2>3
  <2>5. n \in 0 .. n /\ n \notin 0 .. m
    BY <2>1
  <2> QED
    BY <2>4, <2>5
<1> QED
  BY <1>6

-------------------------------------------------------------------------------
(* The loop of the engine: its function exists, so its equations hold.      *)

\* f are the states of the loop over the first n orders of rs.
IsWalk(f, i, rs, n) ==
    f = [k \in 0 .. n |-> IF k = 0 THEN Untouched(i) ELSE Consider(f[k - 1], rs[k])]

LEMMA WalkExists ==
    ASSUME NEW i, NEW rs
    PROVE  \A n \in Nat : \E f : IsWalk(f, i, rs, n)
<1> DEFINE bad == {n \in Nat : ~\E f : IsWalk(f, i, rs, n)}
<1> SUFFICES ASSUME bad # {} PROVE FALSE
  OBVIOUS
<1>1. bad \subseteq Nat
  OBVIOUS
<1>2. PICK n \in bad : \A m \in bad : n <= m
  <2> HIDE DEF bad
  <2> QED
    BY <1>1, LeastNatural
<1>3. n # 0
  <2> DEFINE f == [k \in 0 .. 0 |-> Untouched(i)]
  <2>1. f = [k \in 0 .. 0 |-> IF k = 0 THEN Untouched(i) ELSE Consider(f[k - 1], rs[k])]
    OBVIOUS
  <2>2. IsWalk(f, i, rs, 0)
    BY <2>1 DEF IsWalk
  <2> QED
    BY <1>2, <2>2
<1>4. PICK g : IsWalk(g, i, rs, n - 1)
  BY <1>2, <1>3
<1> DEFINE f == [k \in 0 .. n |-> IF k = n THEN Consider(g[n - 1], rs[n]) ELSE g[k]]
           h == [k \in 0 .. n |-> IF k = 0 THEN Untouched(i) ELSE Consider(f[k - 1], rs[k])]
<1>5. n \in Nat /\ n > 0 /\ n - 1 \in 0 .. n /\ n \in 0 .. n
  BY <1>2, <1>3
<1>6. ASSUME NEW k \in 0 .. n - 1
      PROVE  g[k] = IF k = 0 THEN Untouched(i) ELSE Consider(g[k - 1], rs[k])
  BY <1>4 DEF IsWalk
<1>7. ASSUME NEW k \in 0 .. n PROVE f[k] = h[k]
  <2>1. CASE k = 0
    <3>1. f[k] = g[k] /\ 0 \in 0 .. n - 1
      BY <1>5, <2>1
    <3> QED
      BY <1>6, <2>1, <3>1
  <2>2. CASE k = n
    <3>1. f[n - 1] = g[n - 1]
      BY <1>5
    <3>2. f[n] = Consider(g[n - 1], rs[n]) /\ h[n] = Consider(f[n - 1], rs[n])
      BY <1>5
    <3> QED
      BY <2>2, <3>1, <3>2
  <2>3. CASE k # 0 /\ k # n
    <3>1. k \in 0 .. n - 1 /\ k - 1 \in 0 .. n /\ k - 1 # n
      BY <1>5, <2>3
    <3>2. f[k] = g[k] /\ f[k - 1] = g[k - 1]
      BY <2>3, <3>1
    <3>3. h[k] = Consider(f[k - 1], rs[k])
      BY <2>3
    <3> QED
      BY <1>6, <2>3, <3>1, <3>2, <3>3
  <2> QED
    BY <2>1, <2>2, <2>3
<1>8. f = h
  <2>1. f = [k \in 0 .. n |-> f[k]] /\ h = [k \in 0 .. n |-> h[k]]
    OBVIOUS
  <2>2. [k \in 0 .. n |-> f[k]] = [k \in 0 .. n |-> h[k]]
    <3> HIDE DEF f, h
    <3> QED
      BY <1>7
  <2> HIDE DEF f, h
  <2> QED
    BY <2>1, <2>2
<1>9. IsWalk(f, i, rs, n)
  <2> HIDE DEF f
  <2> QED
    BY <1>8 DEF IsWalk
<1> QED
  BY <1>2, <1>9

\* The states of the loop, one after the other.
LEMMA WalkSteps ==
    ASSUME NEW i, NEW rs, Len(rs) \in Nat
    PROVE  /\ Walk(i, rs)[0] = Untouched(i)
           /\ \A k \in 1 .. Len(rs) : Walk(i, rs)[k] = Consider(Walk(i, rs)[k - 1], rs[k])
<1> DEFINE w == CHOOSE f : IsWalk(f, i, rs, Len(rs))
<1>1. Walk(i, rs) = w
  BY DEF Walk, IsWalk
<1>2. IsWalk(w, i, rs, Len(rs))
  BY WalkExists
<1> HIDE DEF w
<1>3. \A k \in 0 .. Len(rs) :
        w[k] = IF k = 0 THEN Untouched(i) ELSE Consider(w[k - 1], rs[k])
  BY <1>2 DEF IsWalk
<1>4. 0 \in 0 .. Len(rs) /\ \A k \in 1 .. Len(rs) : k \in 0 .. Len(rs) /\ k # 0
  OBVIOUS
<1> QED
  BY <1>1, <1>3, <1>4

-------------------------------------------------------------------------------
(* One iteration of the loop.                                              *)

\* The fields of an order that matching leaves alone.
SameOrder(a, b) ==
    /\ a.id = b.id /\ a.user = b.user /\ a.side = b.side /\ a.type = b.type
    /\ a.tif = b.tif /\ a.price = b.price /\ a.stp = b.stp

Halts(s, r) == s.stop \/ s.incoming.remaining = 0 \/ ~price_matches(s.incoming, r)

LEMMA HaltStep ==
    ASSUME NEW s \in MatchResults, NEW r \in EngineOrders, Halts(s, r)
    PROVE  /\ Consider(s, r) \in MatchResults
           /\ Consider(s, r).incoming = s.incoming
           /\ Consider(s, r).trades = s.trades
           /\ Consider(s, r).book_updates = s.book_updates
           /\ Consider(s, r).stop = TRUE
<1>1. Consider(s, r) = [s EXCEPT !.stop = TRUE]
  BY DEF Halts, Consider
<1> QED
  BY <1>1 DEF MatchResults

LEMMA PreventStep ==
    ASSUME NEW s \in MatchResults, NEW r \in EngineOrders, ~Halts(s, r), SelfTrade(s.incoming, r)
    PROVE  /\ Consider(s, r) \in MatchResults
           /\ SameOrder(Consider(s, r).incoming, s.incoming)
           /\ Consider(s, r).incoming.remaining = s.incoming.remaining
           /\ s.incoming.status \in OrderStatuses => Consider(s, r).incoming.status \in OrderStatuses
           /\ Consider(s, r).trades = s.trades
           /\ Consider(s, r).book_updates =
                 IF s.incoming.stp \in {"CM", "CB"}
                 THEN Append(s.book_updates, [r EXCEPT !.status = "C"]) ELSE s.book_updates
           /\ Consider(s, r).stop = (s.incoming.stp \in {"CT", "CB"})
<1> DEFINE i == s.incoming
           j == [i EXCEPT !.status = IF i.stp \in {"CT", "CB"} THEN "C" ELSE @]
           b == IF i.stp \in {"CM", "CB"}
                THEN Append(s.book_updates, [r EXCEPT !.status = "C"]) ELSE s.book_updates
           q == (i.stp \in {"CT", "CB"})
<1>1. i \in EngineOrders /\ s.book_updates \in Seq(EngineOrders) /\ s.trades \in SUBSET TradeType
  BY DEF MatchResults
<1>2. /\ j \in EngineOrders /\ SameOrder(j, i) /\ j.remaining = i.remaining
      /\ i.status \in OrderStatuses => j.status \in OrderStatuses
  BY <1>1 DEF EngineOrders, SameOrder, OrderStatuses
<1>3. [r EXCEPT !.status = "C"] \in EngineOrders
  BY DEF EngineOrders, OrderStatuses
<1>4. b \in Seq(EngineOrders)
  BY <1>1, <1>3
<1>5. Consider(s, r) = [s EXCEPT !.incoming = j, !.book_updates = b, !.stop = q]
  BY DEF Halts, Consider, PreventSelfTrade, MatchResults
<1>6. q \in BOOLEAN
  OBVIOUS
<1> HIDE DEF j, b, q
<1> QED
  BY <1>1, <1>2, <1>4, <1>5, <1>6 DEF MatchResults, b, q

\* An order after a fill.
LEMMA Revalued ==
    ASSUME NEW i \in EngineOrders, NEW m \in Nat, NEW st \in {""} \cup OrderStatuses
    PROVE  LET j == [i EXCEPT !.remaining = m, !.status = st]
           IN  j \in EngineOrders /\ SameOrder(j, i) /\ j.remaining = m /\ j.status = st
BY DEF EngineOrders, SameOrder

FillQty(i, r) == IF i.remaining < r.remaining THEN i.remaining ELSE r.remaining

LEMMA FillStep ==
    ASSUME NEW s \in MatchResults, NEW r \in EngineOrders, ~Halts(s, r), ~SelfTrade(s.incoming, r)
    PROVE  LET t == Consider(s, r)
               q == FillQty(s.incoming, r)
           IN  /\ t \in MatchResults
               /\ SameOrder(t.incoming, s.incoming)
               /\ t.incoming.remaining = s.incoming.remaining - q
               /\ t.incoming.status \in OrderStatuses
               /\ t.trades = s.trades \cup {[taker |-> s.incoming.id, maker |-> r.id,
                                             price |-> fill_price(s.incoming, r), qty |-> q]}
               /\ t.book_updates = Append(s.book_updates,
                    [r EXCEPT !.remaining = r.remaining - q,
                              !.status = StatusAfterFill(r.remaining - q)])
               /\ t.stop = FALSE
               /\ q \in Nat /\ q <= r.remaining /\ q <= s.incoming.remaining
               /\ [taker |-> s.incoming.id, maker |-> r.id,
                   price |-> fill_price(s.incoming, r), qty |-> q] \in TradeType
<1> DEFINE i == s.incoming
           q == FillQty(i, r)
           j == [i EXCEPT !.remaining = i.remaining - q, !.status = StatusAfterFill(i.remaining - q)]
           u == [r EXCEPT !.remaining = r.remaining - q, !.status = StatusAfterFill(r.remaining - q)]
           b == Append(s.book_updates, u)
           n == [taker |-> i.id, maker |-> r.id, price |-> fill_price(i, r), qty |-> q]
           T == s.trades \cup {n}
<1>1. i \in EngineOrders /\ s.book_updates \in Seq(EngineOrders) /\ s.trades \in SUBSET TradeType
  BY DEF MatchResults
<1>2. i.remaining \in Nat /\ r.remaining \in Nat /\ i.id \in OrderIds /\ r.id \in OrderIds
      /\ i.price \in Int /\ r.price \in Int
  BY <1>1 DEF EngineOrders
<1>3. q \in Nat /\ q <= r.remaining /\ q <= i.remaining
  BY <1>2 DEF FillQty
<1>4. StatusAfterFill(i.remaining - q) \in OrderStatuses /\ StatusAfterFill(r.remaining - q) \in OrderStatuses
  BY DEF StatusAfterFill, OrderStatuses
<1>a. i.remaining - q \in Nat /\ r.remaining - q \in Nat
  BY <1>2, <1>3
<1>5. /\ j \in EngineOrders /\ SameOrder(j, i) /\ j.remaining = i.remaining - q
      /\ j.status \in OrderStatuses
  <2> DEFINE m == i.remaining - q
             st == StatusAfterFill(i.remaining - q)
  <2>1. m \in Nat /\ st \in OrderStatuses
    BY <1>4, <1>a
  <2> HIDE DEF m, st
  <2>2. LET k == [i EXCEPT !.remaining = m, !.status = st]
        IN  k \in EngineOrders /\ SameOrder(k, i) /\ k.remaining = m /\ k.status = st
    BY <1>1, <2>1 DEF EngineOrders, SameOrder
  <2> QED
    BY <2>1, <2>2 DEF m, st
<1>6. u \in EngineOrders
  BY <1>4, <1>a, Revalued
<1>7. b \in Seq(EngineOrders)
  BY <1>1, <1>6
<1>8. n \in TradeType
  BY <1>2, <1>3 DEF TradeType, fill_price
<1>9. T \in SUBSET TradeType
  BY <1>1, <1>8
<1>10. s.stop = FALSE
  BY DEF Halts, MatchResults
<1>11. Consider(s, r) = [s EXCEPT !.trades = T, !.incoming = j, !.book_updates = b]
  <2>1. Consider(s, r) = FillAgainst(s, r)
    BY DEF Halts, Consider
  <2>2. FillAgainst(s, r) = [s EXCEPT !.trades = T, !.incoming = j, !.book_updates = b]
    BY DEF FillAgainst, FillQty, MatchResults
  <2> QED
    BY <2>1, <2>2
<1> HIDE DEF j, u, b, T, n
<1>12. [s EXCEPT !.trades = T, !.incoming = j, !.book_updates = b] \in MatchResults
  BY <1>5, <1>7, <1>9 DEF MatchResults
<1>13. /\ Consider(s, r).incoming = j /\ Consider(s, r).trades = T
       /\ Consider(s, r).book_updates = b /\ Consider(s, r).stop = s.stop
  BY <1>11 DEF MatchResults
<1> QED
  BY <1>3, <1>5, <1>8, <1>10, <1>11, <1>12, <1>13 DEF u, b, T, n
-------------------------------------------------------------------------------
(* The states of the loop have their types.                                *)

LEMMA SameOrderTrans ==
    ASSUME NEW a, NEW b, NEW c, SameOrder(a, b), SameOrder(b, c)
    PROVE  SameOrder(a, c)
BY DEF SameOrder

\* A state of the loop for the incoming order i.
WalkType(i, s) ==
    s \in MatchResults /\ SameOrder(s.incoming, i) /\ s.incoming.status \in OrderStatuses

LEMMA UntouchedType ==
    ASSUME NEW i \in EngineOrders, i.status \in OrderStatuses
    PROVE  WalkType(i, Untouched(i))
BY DEF WalkType, Untouched, MatchResults, SameOrder

LEMMA ConsiderType ==
    ASSUME NEW i \in EngineOrders, NEW s, WalkType(i, s), NEW r \in EngineOrders
    PROVE  WalkType(i, Consider(s, r))
<1>1. s \in MatchResults /\ SameOrder(s.incoming, i) /\ s.incoming.status \in OrderStatuses
  BY DEF WalkType
<1>2. CASE Halts(s, r)
  BY <1>1, <1>2, HaltStep DEF WalkType
<1>3. CASE ~Halts(s, r) /\ SelfTrade(s.incoming, r)
  <2>1. /\ Consider(s, r) \in MatchResults /\ SameOrder(Consider(s, r).incoming, s.incoming)
        /\ Consider(s, r).incoming.status \in OrderStatuses
    BY <1>1, <1>3, PreventStep
  <2> QED
    BY <1>1, <2>1, SameOrderTrans DEF WalkType
<1>4. CASE ~Halts(s, r) /\ ~SelfTrade(s.incoming, r)
  <2>1. /\ Consider(s, r) \in MatchResults /\ SameOrder(Consider(s, r).incoming, s.incoming)
        /\ Consider(s, r).incoming.status \in OrderStatuses
    BY <1>1, <1>4, FillStep
  <2> QED
    BY <1>1, <2>1, SameOrderTrans DEF WalkType
<1> QED
  BY <1>2, <1>3, <1>4

LEMMA WalkTypes ==
    ASSUME NEW i \in EngineOrders, i.status \in OrderStatuses, NEW rs \in Seq(EngineOrders)
    PROVE  \A k \in 0 .. Len(rs) : WalkType(i, Walk(i, rs)[k])
<1> DEFINE bad == {k \in 0 .. Len(rs) : ~WalkType(i, Walk(i, rs)[k])}
<1> SUFFICES ASSUME bad # {} PROVE FALSE
  OBVIOUS
<1>0. Len(rs) \in Nat
  OBVIOUS
<1>1. bad \subseteq Nat
  OBVIOUS
<1>2. PICK k \in bad : \A m \in bad : k <= m
  <2> HIDE DEF bad
  <2> QED
    BY <1>1, LeastNatural
<1>3. k # 0
  BY <1>0, <1>2, WalkSteps, UntouchedType
<1>4. k \in 1 .. Len(rs) /\ k - 1 \in 0 .. Len(rs) /\ ~(k <= k - 1)
  BY <1>2, <1>3
<1>5. WalkType(i, Walk(i, rs)[k - 1])
  BY <1>2, <1>4
<1>6. rs[k] \in EngineOrders
  BY <1>4
<1>7. Walk(i, rs)[k] = Consider(Walk(i, rs)[k - 1], rs[k])
  BY <1>0, <1>4, WalkSteps
<1> QED
  BY <1>2, <1>5, <1>6, <1>7, ConsiderType
-------------------------------------------------------------------------------
(* What the trades of a match take from an order.                          *)

LEMMA FillOfNat ==
    ASSUME NEW T, IsFiniteSet(T), T \subseteq TradeType, NEW x
    PROVE  FillOf(T, x) \in Nat
<1>1. IsFiniteSet({t \in T : x \in {t.taker, t.maker}})
  BY FS_Subset
<1> QED
  BY <1>1, UnitsNat DEF FillOf

LEMMA FillOfNone ==
    ASSUME NEW T, NEW x, \A t \in T : x \notin {t.taker, t.maker}
    PROVE  FillOf(T, x) = 0
<1>1. {t \in T : x \in {t.taker, t.maker}} = {}
  OBVIOUS
<1> QED
  BY <1>1, UnitsEmpty DEF FillOf

LEMMA FillOfAdd ==
    ASSUME NEW T, IsFiniteSet(T), T \subseteq TradeType, NEW t \in TradeType, t \notin T, NEW x
    PROVE  FillOf(T \cup {t}, x) =
             IF x \in {t.taker, t.maker} THEN FillOf(T, x) + t.qty ELSE FillOf(T, x)
<1> DEFINE S == {u \in T : x \in {u.taker, u.maker}}
<1>1. IsFiniteSet(S) /\ S \subseteq TradeType /\ t \notin S
  BY FS_Subset
<1>2. CASE x \in {t.taker, t.maker}
  <2>1. {u \in T \cup {t} : x \in {u.taker, u.maker}} = S \cup {t}
    BY <1>2
  <2>2. Units(S \cup {t}) = Units(S) + t.qty
    <3> HIDE DEF S
    <3> QED
      BY <1>1, UnitsAdd
  <2> QED
    BY <1>2, <2>1, <2>2 DEF FillOf
<1>3. CASE x \notin {t.taker, t.maker}
  <2>1. {u \in T \cup {t} : x \in {u.taker, u.maker}} = S
    BY <1>3
  <2> QED
    BY <1>3, <2>1 DEF FillOf
<1> QED
  BY <1>2, <1>3

-------------------------------------------------------------------------------
(* The trades and the changed orders of a match belong together.           *)

\* The orders of the book are different ones, and none is the incoming order.
EngineInput(i, rs) ==
    /\ i \in EngineOrders /\ i.status \in OrderStatuses
    /\ rs \in Seq(EngineOrders)
    /\ \A j, k \in DOMAIN rs : rs[j].id = rs[k].id => j = k
    /\ \A k \in DOMAIN rs : rs[k].id # i.id

\* u is what the trades T have made of the resting order r.
Changed(T, r, u) ==
    /\ SameOrder(u, r)
    /\ \/ u.status = "C" /\ FillOf(T, r.id) = 0
       \/ u.status = StatusAfterFill(u.remaining) /\ FillOf(T, r.id) + u.remaining = r.remaining

\* After the first k orders of the book.
Balanced(i, rs, k, s) ==
    /\ IsFiniteSet(s.trades)
    /\ FillOf(s.trades, i.id) + s.incoming.remaining = i.remaining
    /\ \A t \in s.trades : t.taker = i.id /\ \E j \in 1 .. k : t.maker = rs[j].id
    /\ \A m \in DOMAIN s.book_updates :
          \E j \in 1 .. k : Changed(s.trades, rs[j], s.book_updates[m])
    /\ \A m, l \in DOMAIN s.book_updates : s.book_updates[m].id = s.book_updates[l].id => m = l
    /\ \A t \in s.trades : \E m \in DOMAIN s.book_updates : s.book_updates[m].id = t.maker

LEMMA UntouchedBalanced ==
    ASSUME NEW i, NEW rs, EngineInput(i, rs)
    PROVE  Balanced(i, rs, 0, Untouched(i))
<1>1. IsFiniteSet({}) /\ FillOf({}, i.id) = 0
  BY FS_EmptySet, FillOfNone
<1>2. i.remaining \in Nat
  BY DEF EngineInput, EngineOrders
<1> QED
  BY <1>1, <1>2 DEF Balanced, Untouched

LEMMA AppendFacts ==
    ASSUME NEW S, NEW b \in Seq(S), NEW u \in S
    PROVE  /\ DOMAIN Append(b, u) = DOMAIN b \cup {Len(b) + 1}
           /\ \A m \in DOMAIN b : Append(b, u)[m] = b[m]
           /\ Append(b, u)[Len(b) + 1] = u
           /\ Len(b) + 1 \notin DOMAIN b
           /\ Len(Append(b, u)) = Len(b) + 1
OBVIOUS

\* An iteration that appends one order to the changed ones.
LEMMA BalancedAppend ==
    ASSUME NEW i, NEW rs, EngineInput(i, rs), NEW k \in 1 .. Len(rs),
           NEW s \in MatchResults, Balanced(i, rs, k - 1, s),
           NEW t, NEW u \in EngineOrders,
           t.book_updates = Append(s.book_updates, u),
           Changed(t.trades, rs[k], u),
           IsFiniteSet(t.trades),
           FillOf(t.trades, i.id) + t.incoming.remaining = i.remaining,
           \A x \in t.trades : x \in s.trades \/ (x.taker = i.id /\ x.maker = rs[k].id),
           \A j \in 1 .. (k - 1) : FillOf(t.trades, rs[j].id) = FillOf(s.trades, rs[j].id)
    PROVE  Balanced(i, rs, k, t)
<1> DEFINE b == s.book_updates
           B == t.book_updates
           l == Len(b) + 1
<1>1. b \in Seq(EngineOrders)
  BY DEF MatchResults
<1>2. /\ DOMAIN B = DOMAIN b \cup {l} /\ l \notin DOMAIN b /\ B[l] = u
      /\ \A m \in DOMAIN b : B[m] = b[m]
  BY <1>1, AppendFacts
<1>3. Len(rs) \in Nat /\ DOMAIN rs = 1 .. Len(rs)
  BY DEF EngineInput
<1>4. 1 .. (k - 1) \subseteq 1 .. k /\ k \in 1 .. k /\ k \notin 1 .. (k - 1) /\ 1 .. k \subseteq DOMAIN rs
  BY <1>3
<1>5. u.id = rs[k].id
  BY DEF Changed, SameOrder
<1>6. \A j \in 1 .. (k - 1) : rs[j].id # u.id
  BY <1>4, <1>5 DEF EngineInput
<1>7. ASSUME NEW m \in DOMAIN b
      PROVE  (\E j \in 1 .. (k - 1) : Changed(t.trades, rs[j], b[m])) /\ b[m].id # u.id
  <2>1. PICK j \in 1 .. (k - 1) : Changed(s.trades, rs[j], b[m])
    BY <1>7 DEF Balanced
  <2>2. Changed(t.trades, rs[j], b[m]) /\ b[m].id = rs[j].id
    BY <2>1 DEF Changed, SameOrder
  <2> QED
    BY <1>6, <2>2
<1> HIDE DEF b, B, l
<1>8. \A m \in DOMAIN B : \E j \in 1 .. k : Changed(t.trades, rs[j], B[m])
  BY <1>2, <1>4, <1>7
<1>9. \A m, n \in DOMAIN B : B[m].id = B[n].id => m = n
  <2>1. \A m, n \in DOMAIN b : b[m].id = b[n].id => m = n
    BY DEF Balanced, b
  <2> QED
    BY <1>2, <1>7, <2>1
<1>10. \A x \in t.trades : x.taker = i.id /\ \E j \in 1 .. k : x.maker = rs[j].id
  BY <1>4 DEF Balanced
<1>11. \A x \in t.trades : \E m \in DOMAIN B : B[m].id = x.maker
  <2>1. \A x \in s.trades : \E m \in DOMAIN b : b[m].id = x.maker
    BY DEF Balanced, b
  <2> QED
    BY <1>2, <1>5, <2>1
<1> QED
  BY <1>8, <1>9, <1>10, <1>11 DEF Balanced, B

LEMMA ConsiderBalanced ==
    ASSUME NEW i, NEW rs, EngineInput(i, rs), NEW k \in 1 .. Len(rs),
           NEW s, WalkType(i, s), Balanced(i, rs, k - 1, s)
    PROVE  Balanced(i, rs, k, Consider(s, rs[k]))
<1> DEFINE r == rs[k]
           t == Consider(s, r)
<1>1. s \in MatchResults /\ SameOrder(s.incoming, i)
  BY DEF WalkType
<1>2. rs \in Seq(EngineOrders) /\ Len(rs) \in Nat /\ DOMAIN rs = 1 .. Len(rs) /\ k \in DOMAIN rs
  BY DEF EngineInput
<1>3. r \in EngineOrders
  BY <1>2
<1>4. 1 .. (k - 1) \subseteq 1 .. k /\ k \in 1 .. k /\ k \notin 1 .. (k - 1) /\ 1 .. k \subseteq DOMAIN rs
  BY <1>2
<1>5. /\ \A j \in 1 .. (k - 1) : rs[j].id # r.id
      /\ \A j \in 1 .. k : rs[j].id # i.id
  BY <1>2, <1>4 DEF EngineInput
<1>6. \A u \in s.trades : u.taker # r.id /\ u.maker # r.id
  BY <1>4, <1>5 DEF Balanced
<1>7. FillOf(s.trades, r.id) = 0
  BY <1>6, FillOfNone
<1>8. s.incoming.id = i.id
  BY <1>1 DEF SameOrder
<1>b. /\ s.book_updates \in Seq(EngineOrders) /\ s.trades \subseteq TradeType
      /\ s.incoming.remaining \in Nat
  BY <1>1 DEF MatchResults, EngineOrders
<1>c. \A m \in DOMAIN s.book_updates : s.book_updates[m].id # r.id
  BY <1>4, <1>5 DEF Balanced, Changed, SameOrder
<1>9. CASE Halts(s, r)
  <2>1. /\ t.incoming = s.incoming /\ t.trades = s.trades /\ t.book_updates = s.book_updates
    BY <1>1, <1>3, <1>9, HaltStep
  <2> HIDE DEF r, t
  <2>2. Balanced(i, rs, k, t)
    BY <1>4, <2>1 DEF Balanced
  <2> QED
    BY <2>2 DEF t, r
<1>10. CASE ~Halts(s, r) /\ SelfTrade(s.incoming, r)
  <2>1. /\ t.incoming.remaining = s.incoming.remaining /\ t.trades = s.trades
        /\ t.book_updates = IF s.incoming.stp \in {"CM", "CB"}
             THEN Append(s.book_updates, [r EXCEPT !.status = "C"]) ELSE s.book_updates
    BY <1>1, <1>3, <1>10, PreventStep
  <2> DEFINE u == [r EXCEPT !.status = "C"]
  <2>2. u.status = "C" /\ SameOrder(u, r) /\ u.id = r.id
    BY <1>3 DEF EngineOrders, SameOrder
  <2>3. Changed(t.trades, r, u)
    BY <1>7, <2>1, <2>2 DEF Changed
  <2>4. CASE s.incoming.stp \notin {"CM", "CB"}
    <3>1. t.book_updates = s.book_updates
      BY <2>1, <2>4
    <3> HIDE DEF r, t
    <3>2. Balanced(i, rs, k, t)
      BY <1>4, <2>1, <3>1 DEF Balanced
    <3> QED
      BY <3>2 DEF t, r
  <2>5. CASE s.incoming.stp \in {"CM", "CB"}
    <3>1. t.book_updates = Append(s.book_updates, u)
      BY <2>1, <2>5
    <3>2. u \in EngineOrders
      BY <1>3 DEF EngineOrders, OrderStatuses
    <3>3. IsFiniteSet(t.trades) /\ FillOf(t.trades, i.id) + t.incoming.remaining = i.remaining
      BY <2>1 DEF Balanced
    <3> HIDE DEF t, u
    <3>4. Balanced(i, rs, k, t)
      BY <1>1, <2>1, <2>3, <3>1, <3>2, <3>3, BalancedAppend
    <3> QED
      BY <3>4 DEF t
  <2> QED
    BY <2>4, <2>5
<1>11. CASE ~Halts(s, r) /\ ~SelfTrade(s.incoming, r)
  <2> DEFINE q == FillQty(s.incoming, r)
             n == [taker |-> s.incoming.id, maker |-> r.id,
                   price |-> fill_price(s.incoming, r), qty |-> q]
             u == [r EXCEPT !.remaining = r.remaining - q, !.status = StatusAfterFill(r.remaining - q)]
  <2>1. /\ t.incoming.remaining = s.incoming.remaining - q
        /\ t.trades = s.trades \cup {n}
        /\ t.book_updates = Append(s.book_updates, u)
        /\ q \in Nat /\ q <= r.remaining /\ q <= s.incoming.remaining
        /\ n \in TradeType
    <3> HIDE DEF r
    <3> QED
      BY <1>1, <1>3, <1>11, FillStep
  <2>2. n.taker = i.id /\ n.maker = r.id /\ n.qty = q
    BY <1>8
  <2>3. r.remaining \in Nat /\ r.remaining - q \in Nat
        /\ StatusAfterFill(r.remaining - q) \in {""} \cup OrderStatuses
    <3> HIDE DEF q, r
    <3>1. r.remaining \in Nat
      BY <1>3 DEF EngineOrders
    <3>2. r.remaining - q \in Nat
      BY <2>1, <3>1
    <3> QED
      BY <3>1, <3>2 DEF StatusAfterFill, OrderStatuses
  <2>4. /\ u \in EngineOrders /\ SameOrder(u, r)
        /\ u.remaining = r.remaining - q /\ u.status = StatusAfterFill(r.remaining - q)
    <3> DEFINE v == r.remaining - q
               st == StatusAfterFill(r.remaining - q)
    <3>1. v \in Nat /\ st \in {""} \cup OrderStatuses
      BY <2>3
    <3> HIDE DEF v, st, r
    <3>2. LET w == [r EXCEPT !.remaining = v, !.status = st]
          IN  w \in EngineOrders /\ SameOrder(w, r) /\ w.remaining = v /\ w.status = st
      BY <1>3, <3>1 DEF EngineOrders, SameOrder
    <3> QED
      BY <3>2 DEF v, st
  <2> HIDE DEF q, n, u, t, r
  <2>5. n \notin s.trades /\ IsFiniteSet(s.trades)
    BY <1>6, <2>2 DEF Balanced
  <2>6. \A x : FillOf(t.trades, x) =
             IF x \in {n.taker, n.maker} THEN FillOf(s.trades, x) + n.qty ELSE FillOf(s.trades, x)
    <3>1. \A x : FillOf(s.trades \cup {n}, x) =
             IF x \in {n.taker, n.maker} THEN FillOf(s.trades, x) + n.qty ELSE FillOf(s.trades, x)
      BY <1>b, <2>1, <2>5, FillOfAdd
    <3> QED
      BY <2>1, <3>1
  <2>7. FillOf(t.trades, r.id) = q
    <3>1. FillOf(t.trades, r.id) = FillOf(s.trades, r.id) + n.qty
      BY <2>2, <2>6
    <3> QED
      BY <1>7, <2>1, <2>2, <3>1
  <2>8. Changed(t.trades, r, u)
    <3>1. FillOf(t.trades, r.id) + u.remaining = r.remaining
      <4>1. q \in Nat
        BY <2>1
      <4>2. u.remaining = r.remaining - q
        BY <2>4
      <4>3. r.remaining \in Nat
        BY <2>3
      <4> QED
        BY <2>7, <4>1, <4>2, <4>3
    <3> QED
      BY <2>4, <3>1 DEF Changed
  <2>9. FillOf(t.trades, i.id) + t.incoming.remaining = i.remaining
    <3>1. FillOf(t.trades, i.id) = FillOf(s.trades, i.id) + q
      BY <2>2, <2>6
    <3>2. FillOf(s.trades, i.id) \in Nat
      BY <1>b, <2>5, FillOfNat
    <3>3. FillOf(s.trades, i.id) + s.incoming.remaining = i.remaining
      BY DEF Balanced
    <3> QED
      BY <1>b, <2>1, <3>1, <3>2, <3>3
  <2>10. \A j \in 1 .. (k - 1) : FillOf(t.trades, rs[j].id) = FillOf(s.trades, rs[j].id)
    BY <1>4, <1>5, <2>2, <2>6
  <2>11. IsFiniteSet(t.trades)
    BY <2>1, <2>5, FS_AddElement
  <2>12. \A x \in t.trades : x \in s.trades \/ (x.taker = i.id /\ x.maker = rs[k].id)
    BY <2>1, <2>2 DEF r
  <2>13. Balanced(i, rs, k, t)
    BY <1>1, <2>1, <2>4, <2>8, <2>9, <2>10, <2>11, <2>12, BalancedAppend DEF r
  <2> QED
    BY <2>13 DEF t, r
<1> QED
  BY <1>9, <1>10, <1>11

LEMMA WalkBalanced ==
    ASSUME NEW i, NEW rs, EngineInput(i, rs)
    PROVE  \A k \in 0 .. Len(rs) : Balanced(i, rs, k, Walk(i, rs)[k])
<1> DEFINE bad == {k \in 0 .. Len(rs) : ~Balanced(i, rs, k, Walk(i, rs)[k])}
<1> SUFFICES ASSUME bad # {} PROVE FALSE
  OBVIOUS
<1>0. Len(rs) \in Nat
  BY DEF EngineInput
<1>1. bad \subseteq Nat
  BY <1>0
<1>2. PICK k \in bad : \A m \in bad : k <= m
  <2> HIDE DEF bad
  <2> QED
    BY <1>1, LeastNatural
<1>3. k # 0
  BY <1>0, <1>2, WalkSteps, UntouchedBalanced
<1>4. k \in 1 .. Len(rs) /\ k - 1 \in 0 .. Len(rs) /\ ~(k <= k - 1)
  BY <1>0, <1>2, <1>3
<1>5. Balanced(i, rs, k - 1, Walk(i, rs)[k - 1])
  BY <1>2, <1>4
<1>6. WalkType(i, Walk(i, rs)[k - 1])
  BY <1>4, WalkTypes DEF EngineInput
<1>7. Walk(i, rs)[k] = Consider(Walk(i, rs)[k - 1], rs[k])
  BY <1>0, <1>4, WalkSteps
<1> QED
  BY <1>2, <1>4, <1>5, <1>6, <1>7, ConsiderBalanced

-------------------------------------------------------------------------------
(* The loop trades by price-time priority.                                 *)

LEMMA SameTests ==
    ASSUME NEW i, NEW j, SameOrder(j, i), NEW r
    PROVE  /\ price_matches(j, r) <=> price_matches(i, r)
           /\ SelfTrade(j, r) <=> SelfTrade(i, r)
           /\ fill_price(j, r) = fill_price(i, r)
           /\ j.id = i.id /\ j.stp = i.stp
BY DEF SameOrder, price_matches, SelfTrade, fill_price

\* Nothing among the first k orders of the book ends the loop before they are used up.
Unblocked(i, rs, k) ==
    /\ \A j \in 1 .. k : price_matches(i, rs[j])
    /\ i.stp \in {"CT", "CB"} => \A j \in 1 .. k : rs[j].user # i.user

LEMMA UnblockedStep ==
    ASSUME NEW i, NEW rs, NEW k \in Nat, k >= 1
    PROVE  Unblocked(i, rs, k) <=>
             /\ Unblocked(i, rs, k - 1)
             /\ price_matches(i, rs[k])
             /\ i.stp \in {"CT", "CB"} => rs[k].user # i.user
<1>1. 1 .. k = (1 .. (k - 1)) \cup {k}
  OBVIOUS
<1> QED
  BY <1>1 DEF Unblocked

LEMMA ReachableIs ==
    ASSUME NEW i, NEW rs, EngineInput(i, rs), NEW k \in 1 .. Len(rs)
    PROVE  k \in Reachable(i, rs) <=>
             Unblocked(i, rs, k) /\ (i.stp = "CM" => rs[k].user # i.user)
<1>1. k \in DOMAIN rs
  BY DEF EngineInput
<1> QED
  BY <1>1 DEF Reachable, Unblocked

LEMMA TakenFacts ==
    ASSUME NEW i, NEW rs, EngineInput(i, rs)
    PROVE  /\ TakenBefore(i, rs, 1) = 0
           /\ \A k \in Nat : TakenBefore(i, rs, k) \in Nat
           /\ \A k \in 1 .. Len(rs) :
                 TakenBefore(i, rs, k + 1) =
                   TakenBefore(i, rs, k) + IF k \in Reachable(i, rs) THEN rs[k].remaining ELSE 0
           /\ \A k \in Nat, l \in Nat : k <= l => TakenBefore(i, rs, k) <= TakenBefore(i, rs, l)
<1> DEFINE f == [j \in DOMAIN rs |-> rs[j].remaining]
           R == Reachable(i, rs)
           B(k) == {j \in R : j < k}
<1>0. rs \in Seq(EngineOrders) /\ Len(rs) \in Nat /\ DOMAIN rs = 1 .. Len(rs)
  BY DEF EngineInput
<1>1. R \subseteq 1 .. Len(rs)
  BY <1>0 DEF Reachable
<1>2. \A j \in 1 .. Len(rs) : f[j] \in Nat /\ f[j] = rs[j].remaining
  <2> TAKE j \in 1 .. Len(rs)
  <2>1. rs[j] \in EngineOrders
    BY <1>0
  <2>2. rs[j].remaining \in Nat
    BY <2>1 DEF EngineOrders
  <2> QED
    BY <1>0, <2>2
<1>3. IsFiniteSet(R)
  <2>1. IsFiniteSet(1 .. Len(rs))
    BY <1>0, FS_Interval
  <2> QED
    BY <1>1, <2>1, FS_Subset
<1>4. \A k : TakenBefore(i, rs, k) = SumFunctionOnSet(f, B(k))
  BY DEF TakenBefore
<1>n. \A j \in R : j \in Nat /\ 1 <= j
  BY <1>0, <1>1
<1> HIDE DEF f, R
<1>5. \A k \in Nat : IsFiniteSet(B(k)) /\ B(k) \subseteq 1 .. Len(rs)
  BY <1>1, <1>3, FS_Subset
<1>6. \A k \in Nat : TakenBefore(i, rs, k) \in Nat
  <2> TAKE k \in Nat
  <2> DEFINE S == B(k)
  <2>1. IsFiniteSet(S) /\ \A x \in S : f[x] \in Nat
    BY <1>2, <1>5
  <2> HIDE DEF S
  <2>2. SumFunctionOnSet(f, S) \in Nat
    BY <2>1, SumNat
  <2> QED
    BY <1>4, <2>2 DEF S
<1>7. TakenBefore(i, rs, 1) = 0
  <2>1. B(1) = {}
    BY <1>n
  <2>2. SumFunctionOnSet(f, {}) = 0
    BY SumEmpty
  <2> QED
    BY <1>4, <2>1, <2>2
<1>8. ASSUME NEW k \in 1 .. Len(rs)
      PROVE  TakenBefore(i, rs, k + 1) =
               TakenBefore(i, rs, k) + IF k \in R THEN rs[k].remaining ELSE 0
  <2> DEFINE S == B(k)
  <2>0. k \in Nat /\ TakenBefore(i, rs, k) \in Nat
    BY <1>0, <1>6
  <2>1. IsFiniteSet(S) /\ k \notin S /\ \A y \in S \cup {k} : f[y] \in Int
    <3>1. IsFiniteSet(S) /\ S \subseteq 1 .. Len(rs)
      BY <1>5, <2>0
    <3>2. k \notin S
      BY <2>0
    <3> HIDE DEF S
    <3> QED
      BY <1>2, <3>1, <3>2
  <2>2. CASE k \in R
    <3>1. B(k + 1) = S \cup {k}
      <4>1. \A j \in R : j < k + 1 <=> j < k \/ j = k
        BY <1>n, <2>0
      <4>2. k < k + 1
        BY <2>0
      <4> QED
        BY <2>2, <4>1, <4>2
    <3>2. TakenBefore(i, rs, k + 1) = SumFunctionOnSet(f, S \cup {k})
          /\ TakenBefore(i, rs, k) = SumFunctionOnSet(f, S)
      BY <1>4, <3>1
    <3> HIDE DEF S
    <3>3. SumFunctionOnSet(f, S \cup {k}) = SumFunctionOnSet(f, S) + f[k]
      BY <2>1, SumAdd
    <3> QED
      BY <1>2, <2>2, <3>2, <3>3
  <2>3. CASE k \notin R
    <3>1. B(k + 1) = S
      BY <1>n, <2>0, <2>3
    <3>2. TakenBefore(i, rs, k + 1) = TakenBefore(i, rs, k)
      BY <1>4, <3>1
    <3> QED
      BY <2>0, <2>3, <3>2
  <2> QED
    BY <2>2, <2>3
<1>9. ASSUME NEW k \in Nat, NEW l \in Nat, k <= l
      PROVE  TakenBefore(i, rs, k) <= TakenBefore(i, rs, l)
  <2> DEFINE S == B(l)
             T == B(k)
  <2>1. IsFiniteSet(S) /\ T \in SUBSET S /\ \A x \in S : f[x] \in Nat
    <3>1. IsFiniteSet(S) /\ S \subseteq 1 .. Len(rs)
      BY <1>5
    <3>2. T \subseteq S
      BY <1>n, <1>9
    <3> HIDE DEF S, T
    <3> QED
      BY <1>2, <3>1, <3>2
  <2>2. TakenBefore(i, rs, k) = SumFunctionOnSet(f, T) /\ TakenBefore(i, rs, l) = SumFunctionOnSet(f, S)
    BY <1>4
  <2> HIDE DEF S, T
  <2> QED
    BY <2>1, <2>2, SumSubset
<1> QED
  BY <1>6, <1>7, <1>8, <1>9 DEF R
PriorityTrade(i, rs, j) ==
    [taker |-> i.id, maker |-> rs[j].id, price |-> fill_price(i, rs[j]), qty |-> Share(i, rs, j)]

\* The positions among the first k that price-time priority lets trade.
Served(i, rs, k) ==
    {j \in Reachable(i, rs) : j <= k /\ TakenBefore(i, rs, j) < i.remaining}

ByPriority(i, rs, k, s) ==
    /\ Unblocked(i, rs, k) =>
          /\ s.incoming.remaining =
                IF TakenBefore(i, rs, k + 1) < i.remaining
                THEN i.remaining - TakenBefore(i, rs, k + 1) ELSE 0
          /\ s.stop => s.incoming.remaining = 0
    /\ ~Unblocked(i, rs, k) => s.stop
    /\ s.trades = {PriorityTrade(i, rs, j) : j \in Served(i, rs, k)}

LEMMA UntouchedByPriority ==
    ASSUME NEW i, NEW rs, EngineInput(i, rs)
    PROVE  ByPriority(i, rs, 0, Untouched(i))
<1>1. TakenBefore(i, rs, 0 + 1) = 0
  BY TakenFacts
<1>2. i.remaining \in Nat
  BY DEF EngineInput, EngineOrders
<1>3. Unblocked(i, rs, 0)
  BY DEF Unblocked
<1>4. \A j \in Reachable(i, rs) : j \in Nat /\ 1 <= j
  BY DEF Reachable, EngineInput
<1>5. Served(i, rs, 0) = {}
  BY <1>4 DEF Served
<1>6. Untouched(i).incoming = i /\ Untouched(i).trades = {} /\ Untouched(i).stop = FALSE
  BY DEF Untouched
<1> QED
  BY <1>1, <1>2, <1>3, <1>5, <1>6 DEF ByPriority

\* Who is served among one more order.
LEMMA ServedStep ==
    ASSUME NEW i, NEW rs, EngineInput(i, rs), NEW k \in 1 .. Len(rs)
    PROVE  Served(i, rs, k) =
             IF k \in Reachable(i, rs) /\ TakenBefore(i, rs, k) < i.remaining
             THEN Served(i, rs, k - 1) \cup {k} ELSE Served(i, rs, k - 1)
<1>1. \A j \in Reachable(i, rs) : j \in Nat
  BY DEF Reachable, EngineInput
<1>2. k \in Nat
  BY DEF EngineInput
<1>3. \A j \in Reachable(i, rs) : (j <= k <=> j <= k - 1 \/ j = k)
  BY <1>1, <1>2
<1>4. k <= k
  BY <1>2
<1> QED
  BY <1>3, <1>4 DEF Served

LEMMA ConsiderByPriority ==
    ASSUME NEW i, NEW rs, EngineInput(i, rs), NEW k \in 1 .. Len(rs),
           NEW s, WalkType(i, s), ByPriority(i, rs, k - 1, s)
    PROVE  ByPriority(i, rs, k, Consider(s, rs[k]))
<1> DEFINE r == rs[k]
           t == Consider(s, r)
           Tk == TakenBefore(i, rs, k)
           Tn == TakenBefore(i, rs, k + 1)
           Q == i.remaining
           P(S) == {PriorityTrade(i, rs, j) : j \in S}
<1>1. s \in MatchResults /\ SameOrder(s.incoming, i)
  BY DEF WalkType
<1>2. rs \in Seq(EngineOrders) /\ Len(rs) \in Nat /\ k \in Nat /\ k >= 1 /\ (k - 1) + 1 = k
  BY DEF EngineInput
<1>3. r \in EngineOrders
  BY <1>2
<1>4. r.remaining \in Nat /\ Q \in Nat
  BY <1>3 DEF EngineOrders, EngineInput
<1>5. Tk \in Nat /\ Tn \in Nat /\ Tk <= Tn
      /\ Tn = Tk + IF k \in Reachable(i, rs) THEN r.remaining ELSE 0
  <2>1. \A m \in Nat : TakenBefore(i, rs, m) \in Nat
    BY TakenFacts
  <2>2. \A m \in 1 .. Len(rs) :
                 TakenBefore(i, rs, m + 1) =
                   TakenBefore(i, rs, m) + IF m \in Reachable(i, rs) THEN rs[m].remaining ELSE 0
    BY TakenFacts
  <2>3. k + 1 \in Nat
    BY <1>2
  <2>4. Tn = Tk + IF k \in Reachable(i, rs) THEN r.remaining ELSE 0
    BY <2>2
  <2>5. Tk \in Nat /\ Tn \in Nat
    BY <1>2, <2>1, <2>3
  <2> HIDE DEF Tk, Tn, r
  <2> QED
    BY <1>4, <2>4, <2>5
<1>6. /\ price_matches(s.incoming, r) <=> price_matches(i, r)
      /\ SelfTrade(s.incoming, r) <=> SelfTrade(i, r)
      /\ fill_price(s.incoming, r) = fill_price(i, r)
      /\ s.incoming.id = i.id /\ s.incoming.stp = i.stp
  BY <1>1, SameTests
<1>7. k \in Reachable(i, rs) <=> Unblocked(i, rs, k) /\ (i.stp = "CM" => r.user # i.user)
  BY ReachableIs
<1>8. Unblocked(i, rs, k) <=>
             /\ Unblocked(i, rs, k - 1)
             /\ price_matches(i, r)
             /\ i.stp \in {"CT", "CB"} => r.user # i.user
  BY <1>2, UnblockedStep
<1>9. /\ Unblocked(i, rs, k - 1) =>
            /\ s.incoming.remaining = IF Tk < Q THEN Q - Tk ELSE 0
            /\ s.stop => s.incoming.remaining = 0
      /\ ~Unblocked(i, rs, k - 1) => s.stop
      /\ s.trades = P(Served(i, rs, k - 1))
  BY <1>2 DEF ByPriority
<1>10. Served(i, rs, k) = IF k \in Reachable(i, rs) /\ Tk < Q
             THEN Served(i, rs, k - 1) \cup {k} ELSE Served(i, rs, k - 1)
  BY ServedStep
<1>11. s.incoming.remaining \in Nat /\ s.stop \in BOOLEAN
  BY <1>1 DEF MatchResults, EngineOrders
<1>12. i.stp \in StpModes
  BY DEF EngineInput, EngineOrders
<1>13. SUFFICES /\ Unblocked(i, rs, k) =>
                      /\ t.incoming.remaining = IF Tn < Q THEN Q - Tn ELSE 0
                      /\ t.stop => t.incoming.remaining = 0
                /\ ~Unblocked(i, rs, k) => t.stop
                /\ t.trades = P(Served(i, rs, k))
  BY DEF ByPriority
<1>14. CASE Halts(s, r)
  <2>1. t.incoming = s.incoming /\ t.trades = s.trades /\ t.stop = TRUE
    BY <1>1, <1>3, <1>14, HaltStep
  <2>2. s.stop \/ s.incoming.remaining = 0 \/ ~price_matches(i, r)
    BY <1>6, <1>14 DEF Halts
  <2> HIDE DEF r, t, Tk, Tn, Q, P
  <2>3. Unblocked(i, rs, k) => s.incoming.remaining = 0 /\ ~(Tk < Q)
    BY <1>4, <1>5, <1>8, <1>9, <2>2
  <2>4. Served(i, rs, k) = Served(i, rs, k - 1)
    BY <1>7, <1>10, <2>3
  <2>5. Unblocked(i, rs, k) => ~(Tn < Q)
    BY <1>4, <1>5, <2>3
  <2> QED
    BY <1>9, <2>1, <2>3, <2>4, <2>5
<1>15. CASE ~Halts(s, r) /\ SelfTrade(s.incoming, r)
  <2>1. /\ t.incoming.remaining = s.incoming.remaining /\ t.trades = s.trades
        /\ t.stop = (i.stp \in {"CT", "CB"})
    BY <1>1, <1>3, <1>6, <1>15, PreventStep
  <2>2. i.user = r.user /\ i.stp \in {"CM", "CT", "CB"}
    BY <1>6, <1>12, <1>15 DEF SelfTrade, StpModes
  <2>3. ~s.stop /\ Unblocked(i, rs, k - 1) /\ price_matches(i, r)
    BY <1>6, <1>9, <1>15 DEF Halts
  <2>4. k \notin Reachable(i, rs)
    BY <1>7, <1>8, <2>2
  <2>5. Tn = Tk /\ Served(i, rs, k) = Served(i, rs, k - 1)
    BY <1>5, <1>10, <2>4
  <2>6. Unblocked(i, rs, k) <=> ~(i.stp \in {"CT", "CB"})
    BY <1>8, <2>2, <2>3
  <2> HIDE DEF r, t, Tk, Tn, Q, P
  <2> QED
    BY <1>9, <2>1, <2>3, <2>5, <2>6
<1>16. CASE ~Halts(s, r) /\ ~SelfTrade(s.incoming, r)
  <2> DEFINE q == FillQty(s.incoming, r)
             n == [taker |-> s.incoming.id, maker |-> r.id,
                   price |-> fill_price(s.incoming, r), qty |-> q]
  <2>1. /\ t.incoming.remaining = s.incoming.remaining - q
        /\ t.trades = s.trades \cup {n}
        /\ t.stop = FALSE
    <3> HIDE DEF r
    <3> QED
      BY <1>1, <1>3, <1>16, FillStep
  <2>2. ~s.stop /\ Unblocked(i, rs, k - 1) /\ price_matches(i, r) /\ s.incoming.remaining # 0
    BY <1>6, <1>9, <1>16 DEF Halts
  <2>3. i.user # r.user \/ i.stp = "N"
    BY <1>6, <1>16 DEF SelfTrade
  <2>4. Unblocked(i, rs, k) /\ k \in Reachable(i, rs)
    BY <1>7, <1>8, <2>2, <2>3
  <2>5. Tk < Q /\ s.incoming.remaining = Q - Tk
    BY <1>9, <2>2
  <2>6. Tn = Tk + r.remaining
    BY <1>5, <2>4
  <2>7. Share(i, rs, k) = q
    BY <2>5 DEF Share, FillQty
  <2>8. n = PriorityTrade(i, rs, k)
    BY <1>6, <2>7 DEF PriorityTrade
  <2>9. Served(i, rs, k) = Served(i, rs, k - 1) \cup {k}
    BY <1>10, <2>4, <2>5
  <2>10. t.trades = P(Served(i, rs, k))
    <3>1. s.trades = P(Served(i, rs, k - 1))
      BY <1>9
    <3>2. t.trades = P(Served(i, rs, k - 1)) \cup {PriorityTrade(i, rs, k)}
      BY <2>1, <2>8, <3>1
    <3> HIDE DEF t
    <3> QED
      BY <2>9, <3>2
  <2>11. t.incoming.remaining = IF Tn < Q THEN Q - Tn ELSE 0
    <3>1. q = IF Q - Tk < r.remaining THEN Q - Tk ELSE r.remaining
      BY <2>5 DEF FillQty
    <3>2. t.incoming.remaining = (Q - Tk) - q
      BY <2>1, <2>5
    <3> HIDE DEF r, t, Tk, Tn, Q, P, q
    <3> QED
      BY <1>4, <1>5, <2>5, <2>6, <3>1, <3>2
  <2> HIDE DEF r, t, Tk, Tn, Q, P
  <2> QED
    BY <2>1, <2>4, <2>10, <2>11
<1> QED
  BY <1>14, <1>15, <1>16
LEMMA WalkByPriority ==
    ASSUME NEW i, NEW rs, EngineInput(i, rs)
    PROVE  \A k \in 0 .. Len(rs) : ByPriority(i, rs, k, Walk(i, rs)[k])
<1> DEFINE bad == {k \in 0 .. Len(rs) : ~ByPriority(i, rs, k, Walk(i, rs)[k])}
<1> SUFFICES ASSUME bad # {} PROVE FALSE
  OBVIOUS
<1>0. Len(rs) \in Nat
  BY DEF EngineInput
<1>1. bad \subseteq Nat
  BY <1>0
<1>2. PICK k \in bad : \A m \in bad : k <= m
  <2> HIDE DEF bad
  <2> QED
    BY <1>1, LeastNatural
<1>3. k # 0
  BY <1>0, <1>2, WalkSteps, UntouchedByPriority
<1>4. k \in 1 .. Len(rs) /\ k - 1 \in 0 .. Len(rs) /\ ~(k <= k - 1)
  BY <1>0, <1>2, <1>3
<1>5. ByPriority(i, rs, k - 1, Walk(i, rs)[k - 1])
  BY <1>2, <1>4
<1>6. WalkType(i, Walk(i, rs)[k - 1])
  BY <1>4, WalkTypes DEF EngineInput
<1>7. Walk(i, rs)[k] = Consider(Walk(i, rs)[k - 1], rs[k])
  BY <1>0, <1>4, WalkSteps
<1> QED
  BY <1>2, <1>4, <1>5, <1>6, <1>7, ConsiderByPriority

-------------------------------------------------------------------------------
(* What match_order returns.                                               *)

\* The status rules after the loop touch nothing but the status of the order.
LEMMA ApplyTifFacts ==
    ASSUME NEW i, NEW s, WalkType(i, s)
    PROVE  /\ WalkType(i, ApplyTif(s))
           /\ ApplyTif(s).incoming.remaining = s.incoming.remaining
           /\ ApplyTif(s).trades = s.trades
           /\ ApplyTif(s).book_updates = s.book_updates
           /\ Rest(ApplyTif(s)) => EffectiveTif(i) = "G"
<1>1. s \in MatchResults /\ SameOrder(s.incoming, i) /\ s.incoming.status \in OrderStatuses
  BY DEF WalkType
<1>2. CASE ~(s.incoming.remaining > 0 /\ s.incoming.status # "C")
  <2>1. ApplyTif(s) = s
    BY <1>2 DEF ApplyTif
  <2>2. ~Rest(s)
    BY <1>2 DEF Rest, IsUpsert
  <2> QED
    BY <2>1, <2>2
<1>3. CASE s.incoming.remaining > 0 /\ s.incoming.status # "C"
  <2> DEFINE st == IF EffectiveTif(s.incoming) # "G" THEN "C"
                   ELSE IF s.trades = {} THEN "N" ELSE s.incoming.status
  <2>1. ApplyTif(s) = [s EXCEPT !.incoming.status = st]
    BY <1>3 DEF ApplyTif
  <2>2. st \in OrderStatuses
    BY <1>1 DEF OrderStatuses
  <2>3. EffectiveTif(s.incoming) = EffectiveTif(i)
    BY <1>1 DEF SameOrder, EffectiveTif
  <2>4. EffectiveTif(i) # "G" => st = "C"
    BY <2>3
  <2> HIDE DEF st
  <2> DEFINE j == [s.incoming EXCEPT !.status = st]
  <2>5. /\ j \in EngineOrders /\ SameOrder(j, s.incoming) /\ j.status = st
        /\ j.remaining = s.incoming.remaining
    BY <1>1, <2>2 DEF EngineOrders, SameOrder, MatchResults
  <2>6. ApplyTif(s) = [s EXCEPT !.incoming = j]
    BY <1>1, <2>1 DEF MatchResults
  <2> HIDE DEF j
  <2>7. /\ ApplyTif(s) \in MatchResults /\ ApplyTif(s).incoming = j
        /\ ApplyTif(s).trades = s.trades /\ ApplyTif(s).book_updates = s.book_updates
    BY <1>1, <2>5, <2>6 DEF MatchResults
  <2>8. SameOrder(j, i)
    BY <1>1, <2>5, SameOrderTrans
  <2>9. Rest(ApplyTif(s)) => EffectiveTif(i) = "G"
    BY <2>4, <2>5, <2>7 DEF Rest, IsUpsert
  <2> QED
    BY <2>2, <2>5, <2>7, <2>8, <2>9 DEF WalkType
<1> QED
  BY <1>2, <1>3

\* The FOK pre-check has refused the order.
Refused(i, rs) == i.tif = "F" /\ FokLiquidity(i, rs) < i.remaining

LEMMA MatchOrderFacts ==
    ASSUME NEW i, NEW rs, EngineInput(i, rs)
    PROVE  LET res == match_order(i, rs)
           IN  /\ WalkType(i, res)
               /\ Balanced(i, rs, Len(rs), res)
               /\ Rest(res) => EffectiveTif(i) = "G"
               /\ res.trades = ReferenceTrades(i, rs)
               /\ Refused(i, rs) => res.trades = {}
               /\ ~Refused(i, rs) => res.incoming.remaining = Walk(i, rs)[Len(rs)].incoming.remaining
<1> DEFINE res == match_order(i, rs)
           w == Walk(i, rs)[Len(rs)]
<1>1. i \in EngineOrders /\ i.status \in OrderStatuses /\ Len(rs) \in Nat
      /\ Len(rs) \in 0 .. Len(rs) /\ DOMAIN rs = 1 .. Len(rs)
  BY DEF EngineInput
<1>2. CASE Refused(i, rs)
  <2> DEFINE u == Untouched(i)
             j == [i EXCEPT !.status = "C"]
  <2>1. res = [u EXCEPT !.incoming.status = "C"]
    BY <1>2 DEF match_order, Refused
  <2>2. /\ u \in MatchResults /\ u.incoming = i /\ u.trades = {} /\ u.book_updates = <<>>
    <3>1. u \in MatchResults
      BY <1>1, UntouchedType DEF WalkType
    <3> QED
      BY <3>1 DEF Untouched
  <2>4. j \in EngineOrders /\ SameOrder(j, i) /\ j.status = "C" /\ j.remaining = i.remaining
    BY <1>1 DEF EngineOrders, SameOrder, OrderStatuses
  <2> HIDE DEF u
  <2>3. res = [u EXCEPT !.incoming = j]
    BY <2>1, <2>2 DEF MatchResults
  <2> HIDE DEF j
  <2>5. res.incoming = j /\ res.trades = {} /\ res.book_updates = <<>> /\ res \in MatchResults
    BY <2>2, <2>3, <2>4 DEF MatchResults
  <2>6. WalkType(i, res)
    BY <2>4, <2>5 DEF WalkType, OrderStatuses
  <2>7. Balanced(i, rs, Len(rs), res)
    <3>1. IsFiniteSet({}) /\ FillOf({}, i.id) = 0
      BY FS_EmptySet, FillOfNone
    <3>2. i.remaining \in Nat
      BY <1>1 DEF EngineOrders
    <3> QED
      BY <2>4, <2>5, <3>1, <3>2 DEF Balanced
  <2>8. ~Rest(res)
    BY <2>4, <2>5 DEF Rest, IsUpsert
  <2>9. ReferenceTrades(i, rs) = {}
    BY <1>2 DEF ReferenceTrades, Refused
  <2> HIDE DEF res
  <2> QED
    BY <1>2, <2>5, <2>6, <2>7, <2>8, <2>9 DEF res
<1>3. CASE ~Refused(i, rs)
  <2>1. res = ApplyTif(w)
    BY <1>3 DEF match_order, Refused
  <2>2. WalkType(i, w)
    BY <1>1, WalkTypes DEF EngineInput
  <2>3. Balanced(i, rs, Len(rs), w)
    BY <1>1, WalkBalanced
  <2>4. ByPriority(i, rs, Len(rs), w)
    BY <1>1, WalkByPriority
  <2> HIDE DEF w
  <2>5. /\ WalkType(i, res)
        /\ Rest(res) => EffectiveTif(i) = "G"
        /\ res.incoming.remaining = w.incoming.remaining
        /\ res.trades = w.trades /\ res.book_updates = w.book_updates
    BY <2>1, <2>2, ApplyTifFacts
  <2> HIDE DEF res
  <2>6. Balanced(i, rs, Len(rs), res)
    BY <2>3, <2>5 DEF Balanced
  <2>7. \A j \in Reachable(i, rs) : j <= Len(rs)
    BY <1>1 DEF Reachable
  <2>8. Served(i, rs, Len(rs)) = {j \in Reachable(i, rs) : TakenBefore(i, rs, j) < i.remaining}
    BY <2>7 DEF Served
  <2>9. ReferenceTrades(i, rs) = {PriorityTrade(i, rs, j) : j \in Served(i, rs, Len(rs))}
    BY <1>3, <2>8 DEF ReferenceTrades, PriorityTrade, Refused
  <2>10. res.trades = ReferenceTrades(i, rs)
    BY <2>4, <2>5, <2>9 DEF ByPriority
  <2> QED
    BY <1>3, <2>5, <2>6, <2>10 DEF res, w
<1> QED
  BY <1>2, <1>3

-------------------------------------------------------------------------------
(* Fill or kill.                                                           *)

\* When nothing ends the loop early, an order that passed the pre-check is filled;
\* when the first order of the book ends it, nothing trades.
LEMMA FokFacts ==
    ASSUME NEW i, NEW rs, EngineInput(i, rs), i.tif = "F",
           \A k \in DOMAIN rs : i.stp = "N" \/ rs[k].user # i.user,
           \/ \A k \in DOMAIN rs : price_matches(i, rs[k])
           \/ 1 \in DOMAIN rs /\ ~price_matches(i, rs[1])
    PROVE  FillOf(match_order(i, rs).trades, i.id) \in {0, i.remaining}
<1> DEFINE res == match_order(i, rs)
           n == Len(rs)
<1>1. /\ WalkType(i, res) /\ Balanced(i, rs, n, res)
      /\ res.trades = ReferenceTrades(i, rs)
      /\ Refused(i, rs) => res.trades = {}
      /\ ~Refused(i, rs) => res.incoming.remaining = Walk(i, rs)[n].incoming.remaining
  BY MatchOrderFacts
<1>2. n \in Nat /\ DOMAIN rs = 1 .. n /\ n \in 0 .. n /\ i.remaining \in Nat /\ i.stp \in StpModes
  <2>1. n \in Nat /\ DOMAIN rs = 1 .. n /\ n \in 0 .. n
    BY DEF EngineInput
  <2>2. i \in EngineOrders
    BY DEF EngineInput
  <2> QED
    BY <2>1, <2>2 DEF EngineOrders
<1>3. FillOf({}, i.id) = 0
  BY FillOfNone
<1>4. CASE Refused(i, rs)
  BY <1>1, <1>3, <1>4
<1>5. CASE ~Refused(i, rs) /\ 1 \in DOMAIN rs /\ ~price_matches(i, rs[1])
  <2>1. \A k \in 1 .. n : 1 \in 1 .. k
    BY <1>2
  <2>2. Reachable(i, rs) = {}
    BY <1>2, <1>5, <2>1 DEF Reachable
  <2>3. ReferenceTrades(i, rs) = {}
    BY <1>5, <2>2 DEF ReferenceTrades
  <2> QED
    BY <1>1, <1>3, <2>3
<1>6. CASE ~Refused(i, rs) /\ \A k \in DOMAIN rs : price_matches(i, rs[k])
  <2> DEFINE f == [j \in DOMAIN rs |-> rs[j].remaining]
             g == [k \in DOMAIN rs |-> IF price_matches(i, rs[k]) THEN rs[k].remaining ELSE 0]
             T == TakenBefore(i, rs, n + 1)
  <2>1. \A k \in 1 .. n : rs[k].user # i.user \/ i.stp = "N"
    BY <1>2
  <2>2. Unblocked(i, rs, n)
    BY <1>2, <1>6, <2>1 DEF Unblocked
  <2>3. \A k \in 1 .. n : 1 .. k \subseteq 1 .. n
    BY <1>2
  <2>4. Reachable(i, rs) = 1 .. n
    BY <1>2, <1>6, <2>1, <2>3 DEF Reachable
  <2>5. {j \in Reachable(i, rs) : j < n + 1} = DOMAIN rs
    BY <1>2, <2>4
  <2>6. T = SumFunctionOnSet(f, DOMAIN rs)
    BY <2>5 DEF TakenBefore
  <2>7. f = g
    BY <1>6
  <2>8. FokLiquidity(i, rs) = SumFunctionOnSet(g, DOMAIN rs)
    BY DEF FokLiquidity
  <2>9. ~(T < i.remaining)
    <3> HIDE DEF T, f, g
    <3> QED
      BY <1>6, <2>6, <2>7, <2>8 DEF Refused
  <2>10. ByPriority(i, rs, n, Walk(i, rs)[n])
    BY <1>2, WalkByPriority
  <2>11. Walk(i, rs)[n].incoming.remaining = 0
    BY <2>2, <2>9, <2>10 DEF ByPriority
  <2>12. FillOf(res.trades, i.id) + 0 = i.remaining
    BY <1>1, <1>6, <2>11 DEF Balanced
  <2>13. FillOf(res.trades, i.id) \in Nat
    <3>1. IsFiniteSet(res.trades) /\ res.trades \subseteq TradeType
      BY <1>1 DEF Balanced, WalkType, MatchResults
    <3> HIDE DEF res
    <3> QED
      BY <3>1, FillOfNat
  <2> HIDE DEF res
  <2>14. FillOf(res.trades, i.id) = i.remaining
    BY <2>12, <2>13
  <2> QED
    BY <2>14 DEF res
<1> QED
  BY <1>4, <1>5, <1>6

-------------------------------------------------------------------------------
(* The inductive invariant of the protocol.                                *)

Steps == {"new", "version", "ids", "load", "write", "unlock", "unlocking", "ended"}

CallType ==
    [step : Steps, ver : Nat, ids : Seq(OrderIds), orders : Seq(EngineOrders),
     result : Seq(MatchResults), written : Nat]

CasType ==
    /\ call \in [OccIds -> CallType]
    /\ spoiled \in SUBSET OrderIds
    /\ onceHere \in SUBSET OrderIds
    /\ withdrawn \in SUBSET OrderIds

\* The order has not been placed or answered yet.
New(x) ==
    IF x \in OccIds THEN call[x].step \in {"new", "version", "ids", "load", "write"}
                    ELSE reply[x] = NotSubmitted

\* Nobody but o has overwritten the hash of x.
CleanFor(o, x) == x \notin spoiled /\ \A p \in OccIds \ {o} : x \notin PreWritten(p)

Clean(x) == x \notin spoiled /\ \A p \in OccIds : x \notin PreWritten(p)

\* An order o may have listed: it is or was on the other side, within o's limit.
Seen(o, x) ==
    /\ x \in onceHere
    /\ order[x].side = Opposite(order[o].side)
    /\ WithinBound(o, x)

\* What a caller holds is a piece of the book in its order.
Snapshot(o) ==
    LET c == call[o]
    IN  /\ c.ver <= version
        /\ c.step \notin {"load", "write"} => c.orders = <<>>
        /\ c.step # "write" => c.written = 0
        /\ \A k \in DOMAIN c.ids : Seen(o, c.ids[k])
        /\ \A k \in DOMAIN c.orders :
              /\ Seen(o, c.orders[k].id)
              /\ c.orders[k] = AsOrder(c.orders[k].id, order[c.orders[k].id].tif,
                                       c.orders[k].remaining, c.orders[k].status)
        /\ \A j, k \in DOMAIN c.ids : j < k => Before(c.ids[j], c.ids[k])
        /\ \A j, k \in DOMAIN c.orders : j < k => Before(c.orders[j].id, c.orders[k].id)
        /\ \A j \in DOMAIN c.orders, k \in DOMAIN c.ids : Before(c.orders[j].id, c.ids[k])
        /\ c.step = "write" => c.result = <<match_order(Incoming(o), c.orders)>>

\* Nothing is on the book before its time; the running script's order is accounted for.
Places ==
    /\ \A s \in Sides : \A x \in zset[s] : x \in onceHere /\ order[x].side = s
    /\ cands \subseteq onceHere
    /\ \A x \in OrderIds : New(x) => x \notin onceHere /\ (filled[x] = 0 \/ (pc = "walk" /\ taker = x))
    /\ pc = "walk" =>
          /\ taker \notin OccIds /\ reply[taker] = NotSubmitted
          /\ filled[taker] + remaining <= order[taker].qty
          /\ status # "C" => filled[taker] + remaining = order[taker].qty

Accounted(x) ==
    /\ filled[x] <= order[x].qty
    /\ hash[x] # NoHash => filled[x] + hash[x].remaining = order[x].qty
    /\ New(x) => hash[x] = NoHash

\* No order got through since o read the version.
Fresh(o) == pc = "idle" /\ call[o].ver = version

Around(x) == x \in zset[order[x].side] \/ x \in withdrawn

\* What a caller that is still up to date knows of the book.
UpToDate(o) ==
    LET c == call[o]
    IN  /\ \A k \in DOMAIN c.ids : Around(c.ids[k])
        /\ \A k \in DOMAIN c.orders :
              /\ Around(c.orders[k].id)
              /\ CleanFor(o, c.orders[k].id) =>
                    filled[c.orders[k].id] + c.orders[k].remaining = order[c.orders[k].id].qty
        /\ c.step = "write" =>
              \A k \in Upserts(o) \ Unwritten(o) :
                  LET r == Touched(o)[k]
                  IN  CleanFor(o, r.id) =>
                        hash[r.id] \in {NoHash, [remaining |-> r.remaining, status |-> r.status]}

\* What the version check protects.
Ledger == \A x \in OrderIds : Clean(x) => Accounted(x)

CasInv ==
    /\ BookType /\ CasType
    /\ \A o \in OccIds : Snapshot(o)
    /\ Places
    /\ Ledger
    /\ \A o \in OccIds : Fresh(o) => UpToDate(o)

-------------------------------------------------------------------------------
(* What a caller holds.                                                    *)

\* Scores order the book strictly.
LEMMA BeforeIrreflexive ==
    ASSUME order \in [OrderIds -> Requests], NEW x \in OrderIds
    PROVE  ~Before(x, x)
<1>1. order[x].price \in Int /\ x \in Nat
  BY OrderFields, OrderIdsAssumption
<1>2. Score(x) \in Int
  BY <1>1 DEF Score
<1> QED
  BY <1>1, <1>2 DEF Before

LEMMA AsOrderType ==
    ASSUME order \in [OrderIds -> Requests], NEW x \in OrderIds, NEW f \in {"G", "I", "F"},
           NEW q \in Nat, NEW st \in {""} \cup OrderStatuses
    PROVE  LET r == AsOrder(x, f, q, st)
           IN  /\ r \in EngineOrders
               /\ r.id = x /\ r.remaining = q /\ r.status = st /\ r.tif = f
               /\ r.user = order[x].user /\ r.side = order[x].side /\ r.type = order[x].type
               /\ r.price = order[x].price /\ r.stp = order[x].stp
<1>1. /\ order[x].price \in Int /\ order[x].side \in Sides /\ order[x].user \in Users
      /\ order[x].type \in {"L", "M"} /\ order[x].stp \in StpModes
  BY OrderFields
<1> QED
  BY <1>1 DEF AsOrder, EngineOrders

LEMMA IncomingType ==
    ASSUME order \in [OrderIds -> Requests], NEW o \in OccIds
    PROVE  LET r == Incoming(o)
           IN  /\ r \in EngineOrders
               /\ r.id = o /\ r.remaining = order[o].qty /\ r.status = "N"
               /\ r.user = order[o].user /\ r.side = order[o].side /\ r.type = order[o].type
               /\ r.price = order[o].price /\ r.stp = order[o].stp
               /\ r.tif = IF o \in FokIds THEN "F" ELSE order[o].tif
<1> DEFINE f == IF o \in FokIds THEN "F" ELSE order[o].tif
<1>1. o \in OrderIds
  BY OccAssumption
<1>2. f \in {"G", "I", "F"} /\ order[o].qty \in Nat /\ "N" \in {""} \cup OrderStatuses
  BY <1>1, OrderFields DEF OrderStatuses
<1>3. Incoming(o) = AsOrder(o, f, order[o].qty, "N")
  BY DEF Incoming
<1> HIDE DEF f
<1>4. LET r == AsOrder(o, f, order[o].qty, "N")
      IN  /\ r \in EngineOrders
          /\ r.id = o /\ r.remaining = order[o].qty /\ r.status = "N" /\ r.tif = f
          /\ r.user = order[o].user /\ r.side = order[o].side /\ r.type = order[o].type
          /\ r.price = order[o].price /\ r.stp = order[o].stp
  <2>1. /\ order[o].price \in Int /\ order[o].side \in Sides /\ order[o].user \in Users
        /\ order[o].type \in {"L", "M"} /\ order[o].stp \in StpModes
    BY <1>1, OrderFields
  <2> QED
    BY <1>1, <1>2, <2>1 DEF AsOrder, EngineOrders
<1> QED
  BY <1>3, <1>4 DEF f

LEMMA CallFields ==
    ASSUME CasType, NEW o \in OccIds
    PROVE  /\ call[o] \in CallType
           /\ call[o].step \in Steps /\ call[o].ver \in Nat /\ call[o].ids \in Seq(OrderIds)
           /\ call[o].orders \in Seq(EngineOrders) /\ call[o].result \in Seq(MatchResults)
           /\ call[o].written \in Nat
BY DEF CasType, CallType

\* The parts of a caller's snapshot one at a time.
LEMMA SnapshotRows ==
    ASSUME NEW o \in OccIds, Snapshot(o), NEW k \in DOMAIN call[o].orders
    PROVE  LET r == call[o].orders[k]
           IN  Seen(o, r.id) /\ r = AsOrder(r.id, order[r.id].tif, r.remaining, r.status)
BY DEF Snapshot

\* A snapshot is what the engine expects.
LEMMA SnapshotInput ==
    ASSUME BookType, CasType, NEW o \in OccIds, Snapshot(o), o \notin onceHere
    PROVE  EngineInput(Incoming(o), call[o].orders)
<1> DEFINE rs == call[o].orders
<1>1. order \in [OrderIds -> Requests]
  BY DEF BookType
<1>2. rs \in Seq(EngineOrders)
  BY CallFields
<1>3. Incoming(o) \in EngineOrders /\ Incoming(o).status \in OrderStatuses /\ Incoming(o).id = o
  BY <1>1, IncomingType DEF OrderStatuses
<1>4. \A k \in DOMAIN rs : rs[k].id \in onceHere /\ rs[k].id \in OrderIds
  BY SnapshotRows DEF Seen, CasType
<1>5. \A k \in DOMAIN rs : rs[k].id # Incoming(o).id
  BY <1>3, <1>4
<1>6. \A j, k \in DOMAIN rs : j < k => Before(rs[j].id, rs[k].id)
  BY DEF Snapshot
<1>7. \A k \in DOMAIN rs : k \in Nat
  BY <1>2
<1>8. ASSUME NEW j \in DOMAIN rs, NEW k \in DOMAIN rs, rs[j].id = rs[k].id, j # k PROVE FALSE
  <2>1. j \in Nat /\ k \in Nat
    BY <1>7
  <2>2. j < k \/ k < j
    BY <1>8, <2>1
  <2>3. Before(rs[j].id, rs[j].id)
    BY <1>6, <1>8, <2>2
  <2> QED
    BY <1>1, <1>4, <2>3, BeforeIrreflexive
<1> HIDE DEF rs
<1>9. EngineInput(Incoming(o), rs)
  BY <1>2, <1>3, <1>5, <1>8 DEF EngineInput
<1> QED
  BY <1>9 DEF rs

-------------------------------------------------------------------------------
(* What a caller is about to write.                                        *)

\* A caller that has matched and not yet committed.
Writing(o) ==
    /\ BookType /\ CasType /\ Snapshot(o)
    /\ o \in OccIds /\ o \notin onceHere
    /\ call[o].step = "write"

Result(o) == call[o].result[1]

LEMMA ResultFacts ==
    ASSUME NEW o, Writing(o)
    PROVE  /\ EngineInput(Incoming(o), call[o].orders)
           /\ Result(o) = match_order(Incoming(o), call[o].orders)
           /\ WalkType(Incoming(o), Result(o))
           /\ Balanced(Incoming(o), call[o].orders, Len(call[o].orders), Result(o))
           /\ Rest(Result(o)) => EffectiveTif(Incoming(o)) = "G"
           /\ Result(o).trades = ReferenceTrades(Incoming(o), call[o].orders)
<1>1. EngineInput(Incoming(o), call[o].orders)
  BY SnapshotInput DEF Writing
<1>2. Result(o) = match_order(Incoming(o), call[o].orders)
  BY DEF Writing, Snapshot, Result
<1> QED
  BY <1>1, <1>2, MatchOrderFacts

LEMMA ResultTypes ==
    ASSUME NEW o, Writing(o)
    PROVE  /\ Result(o) \in MatchResults
           /\ Result(o).incoming \in EngineOrders /\ Result(o).incoming.id = o
           /\ Result(o).incoming.status \in OrderStatuses
           /\ Result(o).incoming.remaining \in Nat
           /\ Result(o).book_updates \in Seq(EngineOrders)
           /\ Result(o).trades \subseteq TradeType /\ IsFiniteSet(Result(o).trades)
<1>1. /\ Result(o) \in MatchResults /\ SameOrder(Result(o).incoming, Incoming(o))
      /\ Result(o).incoming.status \in OrderStatuses
  BY ResultFacts DEF WalkType
<1>2. Incoming(o).id = o
  BY IncomingType DEF Writing, BookType
<1>3. Result(o).incoming \in EngineOrders /\ Result(o).book_updates \in Seq(EngineOrders)
      /\ Result(o).trades \subseteq TradeType
  BY <1>1 DEF MatchResults
<1>4. Result(o).incoming.remaining \in Nat
  BY <1>3 DEF EngineOrders
<1>5. IsFiniteSet(Result(o).trades)
  BY ResultFacts DEF Balanced
<1> QED
  BY <1>1, <1>2, <1>3, <1>4, <1>5 DEF SameOrder

LEMMA TouchedFacts ==
    ASSUME NEW o, Writing(o)
    PROVE  LET b == Result(o).book_updates
               l == Len(b) + 1
           IN  /\ DOMAIN Touched(o) = DOMAIN b \cup {l} /\ l \notin DOMAIN b
               /\ Touched(o)[l] = Result(o).incoming
               /\ \A k \in DOMAIN b : Touched(o)[k] = b[k]
               /\ Upserts(o) = {k \in DOMAIN b : IsUpsert(b[k])} \cup IF Rest(Result(o)) THEN {l} ELSE {}
<1> DEFINE b == Result(o).book_updates
           l == Len(b) + 1
<1>1. b \in Seq(EngineOrders) /\ Result(o).incoming \in EngineOrders
  BY ResultTypes
<1>2. Touched(o) = Append(b, Result(o).incoming)
  BY DEF Touched, Result
<1>3. /\ DOMAIN Touched(o) = DOMAIN b \cup {l} /\ l \notin DOMAIN b
      /\ Touched(o)[l] = Result(o).incoming
      /\ \A k \in DOMAIN b : Touched(o)[k] = b[k]
      /\ Len(Touched(o)) = l
  <2> HIDE DEF b
  <2> QED
    BY <1>1, <1>2, AppendFacts
<1> HIDE DEF b, l
<1>4. Upserts(o) = {k \in DOMAIN b : IsUpsert(b[k])} \cup IF Rest(Result(o)) THEN {l} ELSE {}
  <2>1. Upserts(o) = {k \in DOMAIN b \cup {l} :
                        IF k = l THEN Rest(Result(o)) ELSE IsUpsert(Touched(o)[k])}
    BY <1>3 DEF Upserts, Result
  <2> QED
    BY <1>3, <2>1
<1> QED
  BY <1>3, <1>4 DEF b, l

\* A row of the book and what became of it.
LEMMA ChangedRow ==
    ASSUME NEW o, Writing(o), NEW m \in DOMAIN Result(o).book_updates
    PROVE  LET u == Result(o).book_updates[m]
               T == Result(o).trades
           IN  /\ u \in EngineOrders
               /\ \E j \in DOMAIN call[o].orders :
                     /\ u.id = call[o].orders[j].id
                     /\ \/ u.status = "C" /\ FillOf(T, u.id) = 0
                        \/ /\ u.status = StatusAfterFill(u.remaining)
                           /\ FillOf(T, u.id) + u.remaining = call[o].orders[j].remaining
<1> DEFINE rs == call[o].orders
           u == Result(o).book_updates[m]
<1>1. u \in EngineOrders
  BY ResultTypes
<1>2. PICK j \in 1 .. Len(rs) : Changed(Result(o).trades, rs[j], u)
  BY ResultFacts DEF Balanced
<1>3. j \in DOMAIN rs
  BY CallFields DEF Writing
<1>4. u.id = rs[j].id
  BY <1>2 DEF Changed, SameOrder
<1> QED
  BY <1>1, <1>2, <1>3, <1>4 DEF Changed

\* What is written before the CAS: rows that stay open, and the order itself if it rests.
LEMMA UpsertFacts ==
    ASSUME NEW o, Writing(o), NEW k \in Upserts(o)
    PROVE  LET r == Touched(o)[k]
           IN  /\ r \in EngineOrders /\ r.id \in OrderIds
               /\ [remaining |-> r.remaining, status |-> r.status] \in HashType
               /\ \/ r = Result(o).incoming /\ r.id = o /\ Rest(Result(o))
                  \/ /\ r.id \in onceHere /\ r.id # o
                     /\ \E j \in DOMAIN call[o].orders :
                           /\ r.id = call[o].orders[j].id
                           /\ FillOf(Result(o).trades, r.id) + r.remaining = call[o].orders[j].remaining
<1> DEFINE b == Result(o).book_updates
           l == Len(b) + 1
           r == Touched(o)[k]
<1>1. /\ Touched(o)[l] = Result(o).incoming
      /\ \A m \in DOMAIN b : Touched(o)[m] = b[m]
      /\ Upserts(o) = {m \in DOMAIN b : IsUpsert(b[m])} \cup IF Rest(Result(o)) THEN {l} ELSE {}
  BY TouchedFacts
<1>2. ASSUME r \in EngineOrders, IsUpsert(r)
      PROVE  r.id \in OrderIds /\ [remaining |-> r.remaining, status |-> r.status] \in HashType
  <2>1. r.remaining \in Nat /\ r.status \in {"", "N", "PF"} /\ r.id \in OrderIds
    BY <1>2 DEF EngineOrders, OrderStatuses, IsUpsert
  <2> QED
    BY <2>1 DEF HashType
<1>3. CASE k = l /\ Rest(Result(o))
  <2>1. r = Result(o).incoming /\ r \in EngineOrders /\ r.id = o
    BY <1>1, <1>3, ResultTypes
  <2>2. IsUpsert(r)
    BY <1>3, <2>1 DEF Rest
  <2> QED
    BY <1>2, <1>3, <2>1, <2>2
<1>4. CASE k \in DOMAIN b /\ IsUpsert(b[k])
  <2>1. r = b[k]
    BY <1>1, <1>4
  <2>2. r \in EngineOrders
    BY <1>4, <2>1, ChangedRow
  <2>3. PICK j \in DOMAIN call[o].orders :
                     /\ r.id = call[o].orders[j].id
                     /\ \/ r.status = "C" /\ FillOf(Result(o).trades, r.id) = 0
                        \/ /\ r.status = StatusAfterFill(r.remaining)
                           /\ FillOf(Result(o).trades, r.id) + r.remaining = call[o].orders[j].remaining
    BY <1>4, <2>1, ChangedRow
  <2>4. r.status # "C"
    BY <1>4, <2>1 DEF IsUpsert
  <2>5. r.id \in onceHere /\ r.id # o
    BY <2>3, SnapshotRows DEF Writing, Seen
  <2> QED
    BY <1>2, <1>4, <2>1, <2>2, <2>3, <2>4, <2>5
<1> QED
  BY <1>1, <1>3, <1>4

LEMMA UpsertDistinct ==
    ASSUME NEW o, Writing(o), NEW k \in Upserts(o), NEW m \in Upserts(o),
           Touched(o)[k].id = Touched(o)[m].id
    PROVE  k = m
<1> DEFINE b == Result(o).book_updates
           l == Len(b) + 1
<1>1. /\ Touched(o)[l] = Result(o).incoming
      /\ \A n \in DOMAIN b : Touched(o)[n] = b[n]
      /\ Upserts(o) = {n \in DOMAIN b : IsUpsert(b[n])} \cup IF Rest(Result(o)) THEN {l} ELSE {}
  BY TouchedFacts
<1>2. Result(o).incoming.id = o
  BY ResultTypes
<1>3. \A n \in DOMAIN b : b[n].id # o
  <2> TAKE n \in DOMAIN b
  <2>1. \E j \in DOMAIN call[o].orders : b[n].id = call[o].orders[j].id
    BY ChangedRow
  <2> QED
    BY <2>1, SnapshotRows DEF Writing, Seen
<1>4. \A n, i \in DOMAIN b : b[n].id = b[i].id => n = i
  BY ResultFacts DEF Balanced
<1> HIDE DEF b, l
<1> QED
  BY <1>1, <1>2, <1>3, <1>4

-------------------------------------------------------------------------------
(* What depends on a caller, and on the orders, only.                      *)

LEMMA WriterKept ==
    ASSUME NEW p, call'[p] = call[p]
    PROVE  /\ Touched(p)' = Touched(p) /\ Upserts(p)' = Upserts(p)
           /\ Unwritten(p)' = Unwritten(p) /\ PreWritten(p)' = PreWritten(p)
BY DEF Touched, Upserts, Unwritten, PreWritten

LEMMA OrdersKept ==
    ASSUME order' = order
    PROVE  /\ \A x, y : Before(x, y)' <=> Before(x, y)
           /\ \A x, y : WithinBound(x, y)' <=> WithinBound(x, y)
           /\ \A x, f, q, s : AsOrder(x, f, q, s)' = AsOrder(x, f, q, s)
           /\ \A x : Incoming(x)' = Incoming(x)
BY DEF Before, Score, WithinBound, AsOrder, Incoming

LEMMA SeenKept ==
    ASSUME order' = order, onceHere \subseteq onceHere', NEW o, NEW x, Seen(o, x)
    PROVE  Seen(o, x)'
BY OrdersKept DEF Seen

LEMMA SnapshotKept ==
    ASSUME order' = order, onceHere \subseteq onceHere', CasType,
           version \in Nat, version' \in Nat, version <= version',
           NEW p \in OccIds, call'[p] = call[p], Snapshot(p)
    PROVE  Snapshot(p)'
<1>c. PICK c : c = call[p]
  OBVIOUS
<1>0. c.ver \in Nat
  BY <1>c, CallFields
<1>1. c.ver <= version'
  BY <1>0, <1>c DEF Snapshot
<1>2. \A k \in DOMAIN c.ids : Seen(p, c.ids[k])'
  BY <1>c, SeenKept DEF Snapshot
<1>3. \A k \in DOMAIN c.orders : Seen(p, c.orders[k].id)'
  BY <1>c, SeenKept DEF Snapshot
<1>4. \A k \in DOMAIN c.orders :
         c.orders[k] = AsOrder(c.orders[k].id, order[c.orders[k].id].tif,
                               c.orders[k].remaining, c.orders[k].status)'
  BY <1>c, OrdersKept DEF Snapshot
<1>5. \A j, k \in DOMAIN c.ids : j < k => Before(c.ids[j], c.ids[k])'
  BY <1>c, OrdersKept DEF Snapshot
<1>6. \A j, k \in DOMAIN c.orders : j < k => Before(c.orders[j].id, c.orders[k].id)'
  BY <1>c, OrdersKept DEF Snapshot
<1>7. \A j \in DOMAIN c.orders, k \in DOMAIN c.ids : Before(c.orders[j].id, c.ids[k])'
  BY <1>c, OrdersKept DEF Snapshot
<1>8. c.step = "write" => c.result = <<match_order(Incoming(p)', c.orders)>>
  BY <1>c, OrdersKept DEF Snapshot
<1>9. /\ c.step \notin {"load", "write"} => c.orders = <<>>
      /\ c.step # "write" => c.written = 0
  BY <1>c DEF Snapshot
<1>10. call'[p] = c
  BY <1>c
<1> QED
  BY <1>1, <1>2, <1>3, <1>4, <1>5, <1>6, <1>7, <1>8, <1>9, <1>10 DEF Snapshot

\* A caller that commits or is cut off holds nothing.
LEMMA EmptySnapshot ==
    ASSUME NEW p \in OccIds, version' \in Nat, NEW st, st # "write", NEW v \in Nat, v <= version',
           call'[p] = [NoCall EXCEPT !.step = st, !.ver = v]
    PROVE  /\ Snapshot(p)' /\ UpToDate(p)' /\ PreWritten(p)' = {} /\ call'[p].step = st
           /\ call'[p].ver = v
<1>1. /\ call'[p].step = st /\ call'[p].ver = v /\ call'[p].ids = <<>> /\ call'[p].orders = <<>>
      /\ call'[p].written = 0
  BY DEF NoCall
<1>2. DOMAIN <<>> = {}
  OBVIOUS
<1> QED
  BY <1>1, <1>2 DEF Snapshot, UpToDate, PreWritten

-------------------------------------------------------------------------------
(* Steps of a caller that leave the book to the others.                    *)

\* What every such step of o has in common: the sorted sets, the version and the fills
\* stand still, and a hash that changes is one of o's pre-written ones.
Aside(o) ==
    /\ UNCHANGED <<order, zset, filled, version, pc, taker, cands, remaining, status,
                   onceHere, withdrawn>>
    /\ \A p \in OccIds \ {o} : call'[p] = call[p]
    /\ \A x \in OrderIds : x \notin OccIds => reply'[x] = reply[x]
    /\ New(o)' => New(o)
    /\ spoiled \subseteq spoiled'
    /\ PreWritten(o) \subseteq PreWritten(o)' \cup spoiled'
    /\ \A x \in OrderIds : hash'[x] = hash[x] \/ x \in PreWritten(o)'

LEMMA AsideNew ==
    ASSUME NEW o \in OccIds, Aside(o), NEW x \in OrderIds, New(x)'
    PROVE  New(x)
BY DEF Aside, New

LEMMA AsideClean ==
    ASSUME NEW o \in OccIds, Aside(o), NEW x \in OrderIds
    PROVE  /\ Clean(x)' => Clean(x) /\ hash'[x] = hash[x]
           /\ \A p \in OccIds \ {o} : CleanFor(p, x)' => CleanFor(p, x) /\ hash'[x] = hash[x]
           /\ CleanFor(o, x)' => CleanFor(o, x)
<1>1. \A p \in OccIds \ {o} : PreWritten(p)' = PreWritten(p)
  BY WriterKept DEF Aside
<1> QED
  BY <1>1 DEF Aside, Clean, CleanFor

LEMMA AsidePlaces ==
    ASSUME NEW o \in OccIds, Aside(o), pc = "idle", Places
    PROVE  Places'
<1>1. UNCHANGED <<order, zset, filled, version, pc, taker, cands, remaining, status, onceHere>>
  BY DEF Aside
<1>2. \A x \in OrderIds : New(x)' => New(x)
  BY AsideNew
<1>3. \A x \in OrderIds : New(x)' =>
         x \notin onceHere' /\ (filled'[x] = 0 \/ (pc' = "walk" /\ taker' = x))
  BY <1>1, <1>2 DEF Places
<1> QED
  BY <1>1, <1>3 DEF Places

LEMMA AsideLedger ==
    ASSUME NEW o \in OccIds, Aside(o), Ledger
    PROVE  Ledger'
<1> SUFFICES ASSUME NEW x \in OrderIds, Clean(x)' PROVE Accounted(x)'
  BY DEF Ledger
<1>1. Clean(x) /\ hash'[x] = hash[x]
  BY AsideClean
<1>2. Accounted(x)
  BY <1>1 DEF Ledger
<1>3. filled' = filled /\ order' = order
  BY DEF Aside
<1>4. New(x)' => New(x)
  BY AsideNew
<1> QED
  BY <1>1, <1>2, <1>3, <1>4 DEF Accounted, NoHash

LEMMA AsideOthers ==
    ASSUME NEW o \in OccIds, Aside(o), BookType, CasType, NEW p \in OccIds, p # o, Snapshot(p),
           p \notin onceHere \/ call[p].step # "write",
           Fresh(p) => UpToDate(p)
    PROVE  Snapshot(p)' /\ (Fresh(p)' => UpToDate(p)')
<1>1. /\ UNCHANGED <<order, zset, filled, version, pc, onceHere, withdrawn>>
      /\ call'[p] = call[p]
  BY DEF Aside
<1>2. Snapshot(p)'
  BY <1>1, SnapshotKept DEF BookType
<1>3. ASSUME Fresh(p)' PROVE UpToDate(p)'
  <2>1. Fresh(p) /\ UpToDate(p)
    BY <1>1, <1>3 DEF Fresh
  <2>c. PICK c : c = call[p]
    OBVIOUS
  <2>2. \A x : Around(x)' <=> Around(x)
    BY <1>1 DEF Around
  <2>3. \A k \in DOMAIN c.orders : c.orders[k].id \in OrderIds
    <3>1. c.orders \in Seq(EngineOrders)
      BY <2>c, CallFields
    <3> TAKE k \in DOMAIN c.orders
    <3>2. c.orders[k] \in EngineOrders
      BY <3>1
    <3> QED
      BY <3>2 DEF EngineOrders
  <2>4. \A x \in OrderIds : CleanFor(p, x)' => CleanFor(p, x) /\ hash'[x] = hash[x]
    BY AsideClean
  <2>5. /\ \A k \in DOMAIN c.ids : Around(c.ids[k])'
        /\ \A k \in DOMAIN c.orders :
              /\ Around(c.orders[k].id)'
              /\ CleanFor(p, c.orders[k].id)' =>
                    filled'[c.orders[k].id] + c.orders[k].remaining = order'[c.orders[k].id].qty
    BY <1>1, <2>1, <2>2, <2>3, <2>4, <2>c DEF UpToDate
  <2>6. ASSUME c.step = "write", NEW k \in Upserts(p) \ Unwritten(p), NEW r, r = Touched(p)[k]
        PROVE  CleanFor(p, r.id)' =>
                 hash'[r.id] \in {NoHash, [remaining |-> r.remaining, status |-> r.status]}
    <3>1. Writing(p)
      BY <2>6, <2>c DEF Writing
    <3>2. r.id \in OrderIds
      BY <2>6, <3>1, UpsertFacts
    <3>3. CleanFor(p, r.id) => hash[r.id] \in {NoHash, [remaining |-> r.remaining, status |-> r.status]}
      BY <2>1, <2>6, <2>c DEF UpToDate
    <3> QED
      BY <2>4, <3>2, <3>3
  <2>7. Touched(p)' = Touched(p) /\ Upserts(p)' = Upserts(p) /\ Unwritten(p)' = Unwritten(p)
    BY <1>1, WriterKept
  <2>8. NoHash' = NoHash
    BY DEF NoHash
  <2> QED
    BY <1>1, <2>5, <2>6, <2>7, <2>8, <2>c DEF UpToDate
<1> QED
  BY <1>2, <1>3

LEMMA AsideInv ==
    ASSUME CasInv, NEW o \in OccIds, pc = "idle", Aside(o), BookType', CasType',
           Snapshot(o)', Fresh(o)' => UpToDate(o)'
    PROVE  CasInv'
<1>1. Places' /\ Ledger'
  BY AsidePlaces, AsideLedger DEF CasInv
<1>2. ASSUME NEW p \in OccIds PROVE Snapshot(p)' /\ (Fresh(p)' => UpToDate(p)')
  <2>1. CASE p = o
    BY <2>1
  <2>2. CASE p # o
    <3>1. call[p].step = "write" => New(p)
      BY DEF New
    <3>2. p \in OrderIds
      BY OccAssumption
    <3>3. p \notin onceHere \/ call[p].step # "write"
      BY <3>1, <3>2 DEF CasInv, Places
    <3> QED
      BY <2>2, <3>3, AsideOthers DEF CasInv
  <2> QED
    BY <2>1, <2>2
<1> QED
  BY <1>1, <1>2 DEF CasInv

\* A step that neither holds nor writes anything.
LEMMA RestepKeeps ==
    ASSUME CasInv, NEW o \in OccIds, Aside(o), NEW st, st \notin {"load", "write"},
           call[o].step \notin {"load", "write"},
           call'[o] = [call[o] EXCEPT !.step = st]
    PROVE  Snapshot(o)' /\ (Fresh(o)' => UpToDate(o)')
<1>c. PICK c : c = call[o]
  OBVIOUS
<1>d. PICK d : d = call'[o]
  OBVIOUS
<1>1. c \in CallType
  BY <1>c, CallFields DEF CasInv
<1>2. d.step = st /\ d.ver = c.ver /\ d.ids = c.ids /\ d.orders = c.orders /\ d.written = c.written
  BY <1>c, <1>d, <1>1 DEF CallType
<1>3. /\ UNCHANGED <<order, zset, filled, version, pc, onceHere, withdrawn>>
  BY DEF Aside
<1>4. Snapshot(o)
  BY DEF CasInv
<1>5. c.orders = <<>> /\ c.written = 0 /\ DOMAIN <<>> = {}
  BY <1>4, <1>c DEF Snapshot
<1>6. \A k \in DOMAIN c.ids : Seen(o, c.ids[k])'
  BY <1>3, <1>4, <1>c, SeenKept DEF Snapshot
<1>7. \A j, k \in DOMAIN c.ids : j < k => Before(c.ids[j], c.ids[k])'
  BY <1>3, <1>4, <1>c, OrdersKept DEF Snapshot
<1>8. c.ver <= version'
  BY <1>3, <1>4, <1>c DEF Snapshot
<1>9. Snapshot(o)'
  BY <1>2, <1>5, <1>6, <1>7, <1>8, <1>d DEF Snapshot
<1>10. ASSUME Fresh(o)' PROVE UpToDate(o)'
  <2>1. Fresh(o)
    BY <1>2, <1>3, <1>10, <1>c, <1>d DEF Fresh
  <2>2. \A k \in DOMAIN c.ids : Around(c.ids[k])
    BY <2>1, <1>c DEF CasInv, UpToDate
  <2>3. \A k \in DOMAIN c.ids : Around(c.ids[k])'
    BY <1>3, <2>2 DEF Around
  <2> QED
    BY <1>2, <1>5, <1>d, <2>3 DEF UpToDate
<1> QED
  BY <1>9, <1>10

LEMMA CallTyped ==
    ASSUME CasType, NEW o \in OccIds, NEW d \in CallType, call' = [call EXCEPT ![o] = d]
    PROVE  call' \in [OccIds -> CallType] /\ call'[o] = d
           /\ \A p \in OccIds \ {o} : call'[p] = call[p]
BY DEF CasType

LEMMA NoCallTyped ==
    ASSUME NEW st \in Steps, NEW v \in Nat
    PROVE  [NoCall EXCEPT !.step = st, !.ver = v] \in CallType
           /\ [NoCall EXCEPT !.step = st, !.ver = 0] = [NoCall EXCEPT !.step = st]
<1>1. <<>> \in Seq(OrderIds) /\ <<>> \in Seq(EngineOrders) /\ <<>> \in Seq(MatchResults)
  OBVIOUS
<1>2. [NoCall EXCEPT !.step = st] =
        [step |-> st, ver |-> 0, ids |-> <<>>, orders |-> <<>>, result |-> <<>>, written |-> 0]
  BY DEF NoCall
<1>3. ASSUME NEW n
      PROVE  [NoCall EXCEPT !.step = st, !.ver = n] =
               [step |-> st, ver |-> n, ids |-> <<>>, orders |-> <<>>, result |-> <<>>, written |-> 0]
  <2>1. [NoCall EXCEPT !.step = st, !.ver = n] = [[NoCall EXCEPT !.step = st] EXCEPT !.ver = n]
    OBVIOUS
  <2>2. [[step |-> st, ver |-> 0, ids |-> <<>>, orders |-> <<>>, result |-> <<>>, written |-> 0]
           EXCEPT !.ver = n] =
        [step |-> st, ver |-> n, ids |-> <<>>, orders |-> <<>>, result |-> <<>>, written |-> 0]
    OBVIOUS
  <2> QED
    BY <1>2, <2>1, <2>2
<1>4. [NoCall EXCEPT !.step = st, !.ver = v] \in CallType
  <2>1. [NoCall EXCEPT !.step = st, !.ver = v] =
          [step |-> st, ver |-> v, ids |-> <<>>, orders |-> <<>>, result |-> <<>>, written |-> 0]
    BY <1>3
  <2>2. [step |-> st, ver |-> v, ids |-> <<>>, orders |-> <<>>, result |-> <<>>, written |-> 0]
          \in CallType
    BY <1>1 DEF CallType
  <2> QED
    BY <2>1, <2>2
<1>5. [NoCall EXCEPT !.step = st, !.ver = 0] = [NoCall EXCEPT !.step = st]
  BY <1>2, <1>3
<1> QED
  BY <1>4, <1>5

-------------------------------------------------------------------------------
(* Funds, and steps after which a caller holds nothing.                    *)

LEMMA LockFundsKeeps ==
    ASSUME CasInv, NEW o \in OccIds, LockFunds(o)
    PROVE  CasInv'
<1>0. pc = "idle" /\ call[o].step = "new" /\ o \in OrderIds /\ CasType /\ BookType
  BY OccAssumption DEF LockFunds, CasInv
<1>1. PICK st \in {"version", "ended"} : call' = [call EXCEPT ![o].step = st]
  BY DEF LockFunds
<1> DEFINE d == [call[o] EXCEPT !.step = st]
<1>2. call[o] \in CallType
  BY <1>0, CallFields
<1>3. d \in CallType /\ d.step = st
  BY <1>2 DEF CallType, Steps
<1>4. call' = [call EXCEPT ![o] = d]
  BY <1>1
<1> HIDE DEF d
<1>5. call' \in [OccIds -> CallType] /\ call'[o] = d /\ \A p \in OccIds \ {o} : call'[p] = call[p]
  BY <1>0, <1>3, <1>4, CallTyped
<1>6. UNCHANGED <<order, zset, hash, version, filled, trades, cut, pc, taker, cands, remaining, status,
                  dropping, sweepList, sweepGone, unanswered, spoiled, onceHere, withdrawn>>
  BY DEF LockFunds, book, history, script, sweep, casHistory
<1>7. PreWritten(o) = {} /\ PreWritten(o)' = {}
  BY <1>0, <1>3, <1>5 DEF PreWritten
<1>8. reply' = reply \/ reply' = [reply EXCEPT ![o] = Rejected]
  BY DEF LockFunds
<1>9. Aside(o)
  <2>1. New(o)
    BY <1>0 DEF New
  <2>2. \A x \in OrderIds : x \notin OccIds => reply'[x] = reply[x]
    BY <1>0, <1>8 DEF BookType
  <2> QED
    BY <1>5, <1>6, <1>7, <2>1, <2>2 DEF Aside
<1>10. BookType'
  <2>1. reply' \in [OrderIds -> ReplyType]
    BY <1>0, <1>8 DEF BookType, Rejected, ReplyType, Statuses
  <2> QED
    BY <1>0, <1>6, <2>1 DEF BookType
<1>11. CasType'
  BY <1>0, <1>5, <1>6 DEF CasType
<1>12. Snapshot(o)' /\ (Fresh(o)' => UpToDate(o)')
  <2>1. call'[o] = [call[o] EXCEPT !.step = st]
    BY <1>5 DEF d
  <2>2. st \notin {"load", "write"} /\ call[o].step \notin {"load", "write"}
    BY <1>0
  <2> QED
    BY <1>9, <2>1, <2>2, RestepKeeps
<1> QED
  BY <1>0, <1>9, <1>10, <1>11, <1>12, AsideInv

\* The two halves of giving funds back.
LEMMA UnlockKeeps ==
    ASSUME CasInv, NEW o \in OccIds, UnlockAvailable(o) \/ UnlockLocked(o)
    PROVE  CasInv'
<1>0. pc = "idle" /\ call[o].step \in {"unlock", "unlocking"} /\ CasType /\ BookType
  BY DEF UnlockAvailable, UnlockLocked, CasInv
<1>1. PICK st \in {"unlocking", "ended"} : call' = [call EXCEPT ![o].step = st]
  BY DEF UnlockAvailable, UnlockLocked
<1> DEFINE d == [call[o] EXCEPT !.step = st]
<1>2. call[o] \in CallType
  BY <1>0, CallFields
<1>3. d \in CallType /\ d.step = st
  BY <1>2 DEF CallType, Steps
<1>4. call' = [call EXCEPT ![o] = d]
  BY <1>1
<1> HIDE DEF d
<1>5. call' \in [OccIds -> CallType] /\ call'[o] = d /\ \A p \in OccIds \ {o} : call'[p] = call[p]
  BY <1>0, <1>3, <1>4, CallTyped
<1>6. UNCHANGED <<order, zset, hash, version, reply, filled, trades, cut, pc, taker, cands, remaining,
                  status, dropping, sweepList, sweepGone, unanswered, spoiled, onceHere, withdrawn>>
  BY DEF UnlockAvailable, UnlockLocked, book, history, script, sweep, casHistory
<1>7. PreWritten(o) = {} /\ PreWritten(o)' = {}
  BY <1>0, <1>3, <1>5 DEF PreWritten
<1>9. Aside(o)
  <2>1. ~New(o)'
    BY <1>3, <1>5 DEF New
  <2> QED
    BY <1>5, <1>6, <1>7, <2>1 DEF Aside
<1>10. BookType'
  BY <1>0, <1>6 DEF BookType
<1>11. CasType'
  BY <1>0, <1>5, <1>6 DEF CasType
<1>12. Snapshot(o)' /\ (Fresh(o)' => UpToDate(o)')
  <2>1. call'[o] = [call[o] EXCEPT !.step = st]
    BY <1>5 DEF d
  <2>2. st \notin {"load", "write"} /\ call[o].step \notin {"load", "write"}
    BY <1>0
  <2> QED
    BY <1>9, <2>1, <2>2, RestepKeeps
<1> QED
  BY <1>0, <1>9, <1>10, <1>11, <1>12, AsideInv

\* The steps after which a caller holds nothing.
LEMMA LetGoKeeps ==
    ASSUME CasInv, NEW o \in OccIds, LoadVersion(o) \/ Conflict(o) \/ GiveUp(o)
    PROVE  CasInv'
<1>0. pc = "idle" /\ CasType /\ BookType /\ version \in Nat
  BY DEF LoadVersion, Conflict, GiveUp, AtCas, CasInv, BookType
<1>1. PICK st \in {"ids", "version", "ended"}, v \in {0, version} :
         call' = [call EXCEPT ![o] = [NoCall EXCEPT !.step = st, !.ver = v]]
  <2>1. \A st \in Steps : [NoCall EXCEPT !.step = st, !.ver = 0] = [NoCall EXCEPT !.step = st]
    BY NoCallTyped
  <2>2. {"ids", "version", "ended"} \subseteq Steps
    BY DEF Steps
  <2> QED
    BY <2>1, <2>2 DEF LoadVersion, Conflict, GiveUp
<1>2. st \in Steps /\ v \in Nat /\ v <= version /\ st # "write"
  BY <1>0 DEF Steps
<1> DEFINE d == [NoCall EXCEPT !.step = st, !.ver = v]
<1>3. d \in CallType
  BY <1>2, NoCallTyped
<1> HIDE DEF d
<1>4. call' \in [OccIds -> CallType] /\ call'[o] = d /\ \A p \in OccIds \ {o} : call'[p] = call[p]
  BY <1>0, <1>1, <1>3, CallTyped DEF d
<1>5. UNCHANGED <<vars, onceHere, withdrawn>>
  BY DEF LoadVersion, Conflict, GiveUp, casHistory
<1>6. UNCHANGED <<order, zset, hash, version, reply, filled, trades, cut, pc, taker, cands, remaining,
                  status, dropping, sweepList, sweepGone, unanswered>>
  BY <1>5 DEF vars, book, history, script, sweep
<1>7. Snapshot(o)' /\ UpToDate(o)' /\ PreWritten(o)' = {} /\ call'[o].step = st
  <2>1. version' \in Nat /\ v <= version'
    BY <1>0, <1>2, <1>6
  <2>2. call'[o] = [NoCall EXCEPT !.step = st, !.ver = v]
    BY <1>4 DEF d
  <2> QED
    BY <1>2, <2>1, <2>2, EmptySnapshot
<1>8. spoiled' = spoiled \cup PreWritten(o)
  <2>1. CASE LoadVersion(o)
    BY <2>1 DEF LoadVersion, PreWritten, casHistory
  <2> QED
    BY <2>1 DEF Conflict, GiveUp
<1>9. PreWritten(o) \subseteq OrderIds
  <2>1. CASE call[o].step # "write"
    BY <2>1 DEF PreWritten
  <2>2. CASE call[o].step = "write"
    <3>1. Writing(o)
      <4>1. New(o) /\ o \in OrderIds
        BY <2>2, OccAssumption DEF New
      <4>2. o \notin onceHere
        BY <4>1 DEF CasInv, Places
      <4> QED
        BY <2>2, <4>2 DEF Writing, CasInv
    <3>2. \A k \in Upserts(o) : Touched(o)[k].id \in OrderIds
      BY <3>1, UpsertFacts
    <3> QED
      BY <3>2 DEF PreWritten
  <2> QED
    BY <2>1, <2>2
<1>10. New(o)' => New(o)
  <2>1. CASE GiveUp(o)
    <3>1. call'[o].step = "ended"
      BY <2>1, <1>0 DEF GiveUp, NoCall, CasType
    <3> QED
      BY <3>1 DEF New
  <2>2. CASE LoadVersion(o) \/ Conflict(o)
    BY <2>2 DEF New, LoadVersion, Conflict, AtCas
  <2> QED
    BY <2>1, <2>2
<1>11. Aside(o)
  BY <1>4, <1>5, <1>6, <1>7, <1>8, <1>10 DEF Aside
<1>12. BookType'
  BY <1>0, <1>6 DEF BookType
<1>13. CasType'
  BY <1>0, <1>4, <1>5, <1>8, <1>9 DEF CasType
<1> QED
  BY <1>0, <1>7, <1>11, <1>12, <1>13, AsideInv

-------------------------------------------------------------------------------
(* Loading the book.                                                       *)

\* A caller that is reading: nothing but what it holds changes.
LEMMA ReadingStep ==
    ASSUME CasInv, NEW o \in OccIds, pc = "idle", UNCHANGED <<vars, casHistory>>,
           NEW d \in CallType, call' = [call EXCEPT ![o] = d],
           call[o].step \in {"ids", "load"}, d.step # "write"
    PROVE  /\ Aside(o) /\ BookType' /\ CasType'
           /\ call'[o] = d
           /\ UNCHANGED <<order, zset, hash, version, reply, filled, pc, spoiled, onceHere, withdrawn>>
           /\ PreWritten(o) = {}
<1>0. CasType /\ BookType
  BY DEF CasInv
<1>1. call' \in [OccIds -> CallType] /\ call'[o] = d /\ \A p \in OccIds \ {o} : call'[p] = call[p]
  BY <1>0, CallTyped
<1>2. UNCHANGED <<order, zset, hash, version, reply, filled, trades, cut, pc, taker, cands, remaining,
                  status, dropping, sweepList, sweepGone, unanswered, spoiled, onceHere, withdrawn>>
  BY DEF vars, book, history, script, sweep, casHistory
<1>3. PreWritten(o) = {} /\ PreWritten(o)' = {}
  BY <1>1 DEF PreWritten
<1>4. New(o)
  BY DEF New
<1>5. Aside(o)
  BY <1>1, <1>2, <1>3, <1>4 DEF Aside
<1>6. BookType'
  BY <1>0, <1>2 DEF BookType
<1>7. CasType'
  BY <1>0, <1>1, <1>2 DEF CasType
<1> QED
  BY <1>1, <1>2, <1>3, <1>5, <1>6, <1>7

\* What an up-to-date list of members is.
LEMMA ListedFacts ==
    ASSUME BookType, CasType, Places, NEW o \in OccIds,
           NEW q \in Listed({r \in zset[Opposite(order[o].side)] : WithinBound(o, r)})
    PROVE  /\ q \in Seq(OrderIds)
           /\ \A k \in DOMAIN q : Seen(o, q[k]) /\ Around(q[k])
           /\ \A j, k \in DOMAIN q : j < k => Before(q[j], q[k])
<1> DEFINE S == {r \in zset[Opposite(order[o].side)] : WithinBound(o, r)}
<1>1. o \in OrderIds /\ Opposite(order[o].side) \in Sides
  BY OccAssumption, OrderFields DEF BookType, Opposite, Sides
<1>2. S \subseteq OrderIds
  BY <1>1 DEF BookType
<1>3. \A x \in S : Seen(o, x) /\ Around(x)
  <2> TAKE x \in S
  <2>1. x \in onceHere /\ order[x].side = Opposite(order[o].side) /\ WithinBound(o, x)
    BY <1>1 DEF Places
  <2>2. x \in zset[order[x].side]
    BY <2>1
  <2> QED
    BY <2>1, <2>2 DEF Seen, Around
<1>4. IsFiniteSet(S)
  BY <1>2, OrderIdsAssumption, FS_Subset
<1>5. q \in Listed(S)
  OBVIOUS
<1> HIDE DEF S
<1>6. q \in [1 .. Cardinality(S) -> S] /\ \A j, k \in DOMAIN q : j < k => Before(q[j], q[k])
  BY <1>5 DEF Listed
<1>7. Cardinality(S) \in Nat
  BY <1>4, FS_CardinalityType
<1>8. q \in [1 .. Cardinality(S) -> OrderIds]
  BY <1>2, <1>6
<1>9. q \in Seq(OrderIds)
  BY <1>7, <1>8
<1> QED
  BY <1>3, <1>6, <1>9

LEMMA LoadIdsKeeps ==
    ASSUME CasInv, NEW o \in OccIds, LoadIds(o)
    PROVE  CasInv'
<1>0. pc = "idle" /\ call[o].step = "ids" /\ CasType /\ BookType /\ Places /\ Snapshot(o)
  BY DEF LoadIds, CasInv
<1>q. PICK q \in Listed({r \in zset[Opposite(order[o].side)] : WithinBound(o, r)}) :
         call' = [call EXCEPT ![o].step = "load", ![o].ids = q]
  BY DEF LoadIds
<1>c. PICK c : c = call[o]
  OBVIOUS
<1>1. /\ q \in Seq(OrderIds)
      /\ \A k \in DOMAIN q : Seen(o, q[k]) /\ Around(q[k])
      /\ \A j, k \in DOMAIN q : j < k => Before(q[j], q[k])
  BY <1>0, ListedFacts
<1>2. c \in CallType
  BY <1>0, <1>c, CallFields
<1>d. PICK d : d = [[c EXCEPT !.step = "load"] EXCEPT !.ids = q]
  OBVIOUS
<1>3. /\ d \in CallType
      /\ d.step = "load" /\ d.ver = c.ver /\ d.ids = q /\ d.orders = c.orders /\ d.written = c.written
  <2>1. PICK e : e = [c EXCEPT !.step = "load"]
    OBVIOUS
  <2>2. /\ e \in CallType
        /\ e.step = "load" /\ e.ver = c.ver /\ e.orders = c.orders /\ e.written = c.written
    BY <1>2, <2>1 DEF CallType, Steps
  <2>3. d = [e EXCEPT !.ids = q]
    BY <1>d, <2>1
  <2> QED
    BY <1>1, <2>2, <2>3 DEF CallType
<1>4. call' = [call EXCEPT ![o] = d]
  BY <1>0, <1>c, <1>d, <1>q, <1>2 DEF CasType, CallType
<1>5. UNCHANGED <<vars, casHistory>>
  BY DEF LoadIds
<1>6. /\ Aside(o) /\ BookType' /\ CasType' /\ call'[o] = d
      /\ UNCHANGED <<order, zset, hash, version, reply, filled, pc, spoiled, onceHere, withdrawn>>
  BY <1>0, <1>3, <1>4, <1>5, ReadingStep
<1>7. c.orders = <<>> /\ c.written = 0 /\ DOMAIN <<>> = {} /\ c.ver <= version'
  BY <1>0, <1>c, <1>6 DEF Snapshot
<1>8. \A k \in DOMAIN q : Seen(o, q[k])' /\ Around(q[k])'
  <2>1. \A k \in DOMAIN q : Seen(o, q[k])'
    BY <1>1, <1>6, SeenKept
  <2> QED
    BY <1>1, <1>6, <2>1 DEF Around
<1>9. \A j, k \in DOMAIN q : j < k => Before(q[j], q[k])'
  BY <1>1, <1>6, OrdersKept
<1>10. Snapshot(o)'
  BY <1>3, <1>6, <1>7, <1>8, <1>9 DEF Snapshot
<1>11. UpToDate(o)'
  BY <1>3, <1>6, <1>7, <1>8 DEF UpToDate
<1> QED
  BY <1>0, <1>6, <1>10, <1>11, AsideInv

LEMMA HeadTail ==
    ASSUME NEW S, NEW q \in Seq(S), q # <<>>
    PROVE  /\ Head(q) = q[1] /\ 1 \in DOMAIN q /\ Head(q) \in S
           /\ Tail(q) \in Seq(S)
           /\ \A k \in DOMAIN Tail(q) : k \in Nat /\ k + 1 \in DOMAIN q /\ 1 < k + 1
                                        /\ Tail(q)[k] = q[k + 1]
<1>1. Len(q) \in Nat /\ Len(q) # 0 /\ DOMAIN q = 1 .. Len(q)
  OBVIOUS
<1> QED
  BY <1>1

\* What o holds after it has read one more order.
Longer(o, r) ==
    IF hash[r] = NoHash THEN call[o].orders
    ELSE Append(call[o].orders, AsOrder(r, order[r].tif, hash[r].remaining, hash[r].status))

\* Reading one order keeps the rows in the order of the book, and each of them right.
LEMMA LongerFacts ==
    ASSUME CasInv, NEW o \in OccIds, call[o].step = "load", call[o].ids # <<>>
    PROVE  LET r == Head(call[o].ids)
               t == Tail(call[o].ids)
               rs == Longer(o, r)
           IN  /\ t \in Seq(OrderIds) /\ rs \in Seq(EngineOrders)
               /\ \A k \in DOMAIN t : Seen(o, t[k]) /\ (Fresh(o) => Around(t[k]))
               /\ \A k \in DOMAIN rs :
                     /\ Seen(o, rs[k].id)
                     /\ rs[k] = AsOrder(rs[k].id, order[rs[k].id].tif, rs[k].remaining, rs[k].status)
               /\ \A j, k \in DOMAIN t : j < k => Before(t[j], t[k])
               /\ \A j, k \in DOMAIN rs : j < k => Before(rs[j].id, rs[k].id)
               /\ \A j \in DOMAIN rs, k \in DOMAIN t : Before(rs[j].id, t[k])
               /\ Fresh(o) => \A k \in DOMAIN rs :
                     /\ Around(rs[k].id)
                     /\ CleanFor(o, rs[k].id) =>
                           filled[rs[k].id] + rs[k].remaining = order[rs[k].id].qty
<1>c. PICK c : c = call[o]
  OBVIOUS
<1>r. PICK r : r = Head(c.ids)
  OBVIOUS
<1>t. PICK t : t = Tail(c.ids)
  OBVIOUS
<1>0. BookType /\ CasType /\ Snapshot(o) /\ Ledger
  BY DEF CasInv
<1>1. c.ids \in Seq(OrderIds) /\ c.orders \in Seq(EngineOrders) /\ c.ids # <<>>
  BY <1>0, <1>c, CallFields
<1>2. /\ r = c.ids[1] /\ 1 \in DOMAIN c.ids /\ r \in OrderIds
      /\ t \in Seq(OrderIds)
      /\ \A k \in DOMAIN t : k \in Nat /\ k + 1 \in DOMAIN c.ids /\ 1 < k + 1
                             /\ t[k] = c.ids[k + 1]
  BY <1>r, <1>t, <1>1, HeadTail
<1>3. /\ \A k \in DOMAIN c.ids : Seen(o, c.ids[k])
      /\ \A k \in DOMAIN c.orders :
              /\ Seen(o, c.orders[k].id)
              /\ c.orders[k] = AsOrder(c.orders[k].id, order[c.orders[k].id].tif,
                                       c.orders[k].remaining, c.orders[k].status)
      /\ \A j, k \in DOMAIN c.ids : j < k => Before(c.ids[j], c.ids[k])
      /\ \A j, k \in DOMAIN c.orders : j < k => Before(c.orders[j].id, c.orders[k].id)
      /\ \A j \in DOMAIN c.orders, k \in DOMAIN c.ids : Before(c.orders[j].id, c.ids[k])
  BY <1>0, <1>c DEF Snapshot
<1>4. Fresh(o) => /\ \A k \in DOMAIN c.ids : Around(c.ids[k])
                  /\ \A k \in DOMAIN c.orders :
                       /\ Around(c.orders[k].id)
                       /\ CleanFor(o, c.orders[k].id) =>
                            filled[c.orders[k].id] + c.orders[k].remaining
                              = order[c.orders[k].id].qty
  BY <1>c DEF CasInv, UpToDate
<1>5. \A k \in DOMAIN t : Seen(o, t[k]) /\ (Fresh(o) => Around(t[k]))
  BY <1>2, <1>3, <1>4
<1>6. \A j, k \in DOMAIN t : j < k => Before(t[j], t[k])
  <2> TAKE j, k \in DOMAIN t
  <2> HAVE j < k
  <2>1. j + 1 < k + 1 /\ j + 1 \in DOMAIN c.ids /\ k + 1 \in DOMAIN c.ids
    BY <1>2
  <2> QED
    BY <1>2, <1>3, <2>1
<1>7. \A k \in DOMAIN t : Before(r, t[k])
  BY <1>2, <1>3
<1>8. \A j \in DOMAIN c.orders : Before(c.orders[j].id, r)
  BY <1>2, <1>3
<1>9. \A j \in DOMAIN c.orders, k \in DOMAIN t : Before(c.orders[j].id, t[k])
  BY <1>2, <1>3
<1>10. CASE hash[r] = NoHash
  <2>s. PICK rs : rs = c.orders
    OBVIOUS
  <2>1. Longer(o, r) = rs
    BY <1>10, <1>c, <2>s DEF Longer
  <2>2. /\ rs \in Seq(EngineOrders)
        /\ \A k \in DOMAIN rs :
              /\ Seen(o, rs[k].id)
              /\ rs[k] = AsOrder(rs[k].id, order[rs[k].id].tif, rs[k].remaining, rs[k].status)
        /\ \A j, k \in DOMAIN rs : j < k => Before(rs[j].id, rs[k].id)
        /\ \A j \in DOMAIN rs, k \in DOMAIN t : Before(rs[j].id, t[k])
    BY <1>1, <1>3, <1>9, <2>s
  <2>3. Fresh(o) => \A k \in DOMAIN rs :
                     /\ Around(rs[k].id)
                     /\ CleanFor(o, rs[k].id) =>
                           filled[rs[k].id] + rs[k].remaining = order[rs[k].id].qty
    BY <1>4, <2>s
  <2> QED
    BY <1>2, <1>5, <1>6, <2>1, <2>2, <2>3, <1>c, <1>r, <1>t
<1>11. CASE hash[r] # NoHash
  <2>a. PICK a : a = AsOrder(r, order[r].tif, hash[r].remaining, hash[r].status)
    OBVIOUS
  <2>s. PICK rs : rs = Append(c.orders, a)
    OBVIOUS
  <2>1. Longer(o, r) = rs
    BY <1>11, <1>c, <2>a, <2>s DEF Longer
  <2>2. a \in EngineOrders /\ a.id = r /\ a.remaining = hash[r].remaining /\ a.status = hash[r].status
        /\ a.tif = order[r].tif
    <3>1. hash[r].remaining \in Nat /\ hash[r].status \in {""} \cup OrderStatuses
      BY <1>0, <1>2, HashRemaining DEF BookType, OrderStatuses
    <3>2. order[r].tif \in {"G", "I", "F"} /\ order \in [OrderIds -> Requests]
      BY <1>0, <1>2, OrderFields DEF BookType
    <3>3. /\ order[r].price \in Int /\ order[r].side \in Sides /\ order[r].user \in Users
          /\ order[r].type \in {"L", "M"} /\ order[r].stp \in StpModes
      BY <1>2, <3>2, OrderFields
    <3> QED
      BY <1>2, <2>a, <3>1, <3>2, <3>3 DEF AsOrder, EngineOrders
  <2>3. a = AsOrder(a.id, order[a.id].tif, a.remaining, a.status)
    BY <2>2, <2>a
  <2>l. PICK l : l = Len(c.orders) + 1
    OBVIOUS
  <2>4. /\ DOMAIN rs = DOMAIN c.orders \cup {l} /\ \A m \in DOMAIN c.orders : rs[m] = c.orders[m]
        /\ rs[l] = a /\ l \notin DOMAIN c.orders /\ rs \in Seq(EngineOrders)
    BY <1>1, <2>2, <2>s, <2>l, AppendFacts
  <2>5. \A m \in DOMAIN c.orders : m < l /\ ~(l < m) /\ m \in Nat /\ ~(l < l)
    BY <1>1, <2>l
  <2>6. Seen(o, r) /\ (Fresh(o) => Around(r))
    BY <1>2, <1>3, <1>4
  <2>7. \A k \in DOMAIN rs :
                     /\ Seen(o, rs[k].id)
                     /\ rs[k] = AsOrder(rs[k].id, order[rs[k].id].tif, rs[k].remaining, rs[k].status)
    BY <1>3, <2>2, <2>3, <2>4, <2>6
  <2>8. ~(l < l)
    BY <1>1, <2>l
  <2>9. \A j, k \in DOMAIN rs : j < k => Before(rs[j].id, rs[k].id)
    BY <1>3, <1>8, <2>2, <2>4, <2>5, <2>8
  <2>10. \A j \in DOMAIN rs, k \in DOMAIN t : Before(rs[j].id, t[k])
    BY <1>7, <1>9, <2>2, <2>4
  <2>11. CleanFor(o, r) => filled[r] + hash[r].remaining = order[r].qty
    <3>1. PreWritten(o) = {}
      BY DEF PreWritten
    <3>2. CleanFor(o, r) => Clean(r)
      BY <3>1 DEF CleanFor, Clean
    <3> QED
      BY <1>0, <1>2, <1>11, <3>2 DEF Ledger, Accounted
  <2>12. Fresh(o) => \A k \in DOMAIN rs :
                     /\ Around(rs[k].id)
                     /\ CleanFor(o, rs[k].id) =>
                           filled[rs[k].id] + rs[k].remaining = order[rs[k].id].qty
    BY <1>4, <2>2, <2>4, <2>6, <2>11
  <2> QED
    BY <1>2, <1>5, <1>6, <2>1, <2>4, <2>7, <2>9, <2>10, <2>12, <1>c, <1>r, <1>t
<1> QED
  BY <1>10, <1>11

LEMMA LoadOrderKeeps ==
    ASSUME CasInv, NEW o \in OccIds, LoadOrder(o)
    PROVE  CasInv'
<1>0. pc = "idle" /\ call[o].step = "load" /\ call[o].ids # <<>> /\ CasType /\ BookType /\ Snapshot(o)
  BY DEF LoadOrder, CasInv
<1>c. PICK c : c = call[o]
  OBVIOUS
<1>r. PICK r : r = Head(c.ids)
  OBVIOUS
<1>t. PICK t : t = Tail(c.ids)
  OBVIOUS
<1>s. PICK rs : rs = Longer(o, r)
  OBVIOUS
<1>1. /\ t \in Seq(OrderIds) /\ rs \in Seq(EngineOrders)
      /\ \A k \in DOMAIN t : Seen(o, t[k]) /\ (Fresh(o) => Around(t[k]))
      /\ \A k \in DOMAIN rs :
                     /\ Seen(o, rs[k].id)
                     /\ rs[k] = AsOrder(rs[k].id, order[rs[k].id].tif, rs[k].remaining, rs[k].status)
      /\ \A j, k \in DOMAIN t : j < k => Before(t[j], t[k])
      /\ \A j, k \in DOMAIN rs : j < k => Before(rs[j].id, rs[k].id)
      /\ \A j \in DOMAIN rs, k \in DOMAIN t : Before(rs[j].id, t[k])
      /\ Fresh(o) => \A k \in DOMAIN rs :
                     /\ Around(rs[k].id)
                     /\ CleanFor(o, rs[k].id) =>
                           filled[rs[k].id] + rs[k].remaining = order[rs[k].id].qty
  BY <1>0, <1>c, <1>r, <1>t, <1>s, LongerFacts
<1>2. c \in CallType
  BY <1>0, <1>c, CallFields
<1>d. PICK d : d = [[c EXCEPT !.ids = t] EXCEPT !.orders = rs]
  OBVIOUS
<1>3. /\ d \in CallType
      /\ d.step = "load" /\ d.ver = c.ver /\ d.ids = t /\ d.orders = rs /\ d.written = c.written
  <2>1. PICK e : e = [c EXCEPT !.ids = t]
    OBVIOUS
  <2>2. /\ e \in CallType
        /\ e.step = "load" /\ e.ver = c.ver /\ e.ids = t /\ e.written = c.written
    BY <1>0, <1>c, <1>1, <1>2, <2>1 DEF CallType
  <2>3. d = [e EXCEPT !.orders = rs]
    BY <1>d, <2>1
  <2> QED
    BY <1>1, <2>2, <2>3 DEF CallType
<1>4. call' = [call EXCEPT ![o] = d]
  <2>1. call' = [call EXCEPT ![o].ids = Tail(@),
              ![o].orders = IF hash[r] = NoHash THEN @
                            ELSE Append(@, AsOrder(r, order[r].tif, hash[r].remaining,
                                                   hash[r].status))]
    BY <1>c, <1>r DEF LoadOrder
  <2>2. call' = [call EXCEPT ![o].ids = t, ![o].orders = rs]
    BY <1>0, <1>c, <1>t, <1>s, <2>1 DEF Longer, CasType, CallType
  <2> QED
    BY <1>0, <1>c, <1>d, <1>2, <2>2 DEF CasType, CallType
<1>5. UNCHANGED <<vars, casHistory>>
  BY DEF LoadOrder
<1>6. /\ Aside(o) /\ BookType' /\ CasType' /\ call'[o] = d
      /\ UNCHANGED <<order, zset, hash, version, reply, filled, pc, spoiled, onceHere, withdrawn>>
  BY <1>0, <1>3, <1>4, <1>5, ReadingStep
<1>7. c.written = 0 /\ c.ver <= version'
  BY <1>0, <1>c, <1>6 DEF Snapshot
<1>8. /\ \A k \in DOMAIN t : Seen(o, t[k])'
      /\ \A k \in DOMAIN rs : Seen(o, rs[k].id)'
  BY <1>1, <1>6, SeenKept
<1>9. /\ \A k \in DOMAIN rs :
            rs[k] = AsOrder(rs[k].id, order[rs[k].id].tif, rs[k].remaining, rs[k].status)'
      /\ \A j, k \in DOMAIN t : j < k => Before(t[j], t[k])'
      /\ \A j, k \in DOMAIN rs : j < k => Before(rs[j].id, rs[k].id)'
      /\ \A j \in DOMAIN rs, k \in DOMAIN t : Before(rs[j].id, t[k])'
  BY <1>1, <1>6, OrdersKept
<1>10. Snapshot(o)'
  BY <1>3, <1>6, <1>7, <1>8, <1>9 DEF Snapshot
<1>11. ASSUME Fresh(o)' PROVE UpToDate(o)'
  <2>1. Fresh(o)
    BY <1>3, <1>6, <1>11, <1>c DEF Fresh
  <2>2. \A x : Around(x)' <=> Around(x)
    BY <1>6 DEF Around
  <2>3. \A k \in DOMAIN rs : rs[k].id \in OrderIds
    <3> TAKE k \in DOMAIN rs
    <3>1. rs[k] \in EngineOrders
      BY <1>1
    <3> QED
      BY <3>1 DEF EngineOrders
  <2>4. \A x \in OrderIds : CleanFor(o, x)' => CleanFor(o, x)
    BY <1>6, AsideClean
  <2>5. \A k \in DOMAIN rs :
           /\ Around(rs[k].id)'
           /\ CleanFor(o, rs[k].id)' => filled'[rs[k].id] + rs[k].remaining = order'[rs[k].id].qty
    BY <1>1, <1>6, <2>1, <2>2, <2>3, <2>4
  <2>6. \A k \in DOMAIN t : Around(t[k])'
    BY <1>1, <2>1, <2>2
  <2> QED
    BY <1>3, <1>6, <2>5, <2>6 DEF UpToDate
<1> QED
  BY <1>0, <1>6, <1>10, <1>11, AsideInv

-------------------------------------------------------------------------------
(* Matching in memory, and the writes before the CAS.                      *)

\* What is needed to match in memory.
LEMMA MatchedFacts ==
    ASSUME CasInv, NEW o \in OccIds, call[o].step = "load"
    PROVE  LET res == match_order(Incoming(o), call[o].orders)
           IN  /\ res \in MatchResults
               /\ res.incoming \in EngineOrders /\ res.incoming.remaining \in Nat
               /\ res.incoming.status \in OrderStatuses
               /\ res.book_updates \in Seq(EngineOrders)
<1> DEFINE res == match_order(Incoming(o), call[o].orders)
<1>1. New(o) /\ o \in OrderIds
  BY OccAssumption DEF New
<1>2. BookType /\ CasType /\ Snapshot(o) /\ o \notin onceHere
  BY <1>1 DEF CasInv, Places
<1>3. EngineInput(Incoming(o), call[o].orders)
  BY <1>2, SnapshotInput
<1>4. WalkType(Incoming(o), res)
  BY <1>3, MatchOrderFacts
<1> HIDE DEF res
<1>5. res \in MatchResults /\ res.incoming.status \in OrderStatuses
  BY <1>4 DEF WalkType
<1>6. res.incoming \in EngineOrders /\ res.book_updates \in Seq(EngineOrders)
  BY <1>5 DEF MatchResults
<1>7. res.incoming.remaining \in Nat
  BY <1>6 DEF EngineOrders
<1> QED
  BY <1>5, <1>6, <1>7 DEF res

LEMMA MatchedKeeps ==
    ASSUME CasInv, NEW o \in OccIds, Matched(o)
    PROVE  CasInv'
<1>0. pc = "idle" /\ call[o].step = "load" /\ CasType /\ BookType /\ Snapshot(o) /\ o \in OrderIds
  BY OccAssumption DEF Matched, CasInv
<1>c. PICK c : c = call[o]
  OBVIOUS
<1>i. PICK i : i = Incoming(o)
  OBVIOUS
<1>r. PICK res : res = match_order(i, c.orders)
  OBVIOUS
<1>1. /\ res \in MatchResults /\ res.incoming \in EngineOrders /\ res.incoming.remaining \in Nat
      /\ res.incoming.status \in OrderStatuses /\ res.book_updates \in Seq(EngineOrders)
  BY <1>0, <1>c, <1>i, <1>r, MatchedFacts
<1>2. c \in CallType
  BY <1>0, <1>c, CallFields
<1>3. UNCHANGED <<order, zset, hash, version, filled, trades, cut, pc, taker, cands, remaining, status,
                  dropping, sweepList, sweepGone, unanswered, spoiled, onceHere, withdrawn>>
  BY DEF Matched, book, history, script, sweep, casHistory
<1>4. New(o) /\ PreWritten(o) = {}
  BY <1>0 DEF New, PreWritten
<1>5. CASE res.book_updates = <<>> /\ ~Rest(res)
  <2>1. /\ call' = [call EXCEPT ![o] = [NoCall EXCEPT !.step = "unlock"]]
        /\ reply' = [reply EXCEPT ![o] = [remaining |-> res.incoming.remaining,
                                          status |-> res.incoming.status]]
    BY <1>5, <1>c, <1>i, <1>r DEF Matched
  <2>d. PICK d : d = [NoCall EXCEPT !.step = "unlock"]
    OBVIOUS
  <2>2. d \in CallType /\ d = [NoCall EXCEPT !.step = "unlock", !.ver = 0]
    <3>1. "unlock" \in Steps /\ 0 \in Nat
      BY DEF Steps
    <3> QED
      BY <2>d, <3>1, NoCallTyped
  <2>3. call' \in [OccIds -> CallType] /\ call'[o] = d /\ \A p \in OccIds \ {o} : call'[p] = call[p]
    BY <1>0, <2>1, <2>2, <2>d, CallTyped
  <2>4. Snapshot(o)' /\ UpToDate(o)' /\ PreWritten(o)' = {} /\ call'[o].step = "unlock"
    <3>1. version' \in Nat /\ 0 <= version'
      BY <1>0, <1>3 DEF BookType
    <3>2. call'[o] = [NoCall EXCEPT !.step = "unlock", !.ver = 0]
      BY <2>2, <2>3
    <3> QED
      BY <3>1, <3>2, EmptySnapshot
  <2>5. Aside(o)
    <3>1. \A x \in OrderIds : x \notin OccIds => reply'[x] = reply[x]
      BY <1>0, <2>1 DEF BookType
    <3> QED
      BY <1>3, <1>4, <2>3, <2>4, <3>1 DEF Aside
  <2>6. BookType'
    <3>1. reply' \in [OrderIds -> ReplyType]
      BY <1>0, <1>1, <2>1 DEF BookType, ReplyType, Statuses
    <3> QED
      BY <1>0, <1>3, <3>1 DEF BookType
  <2>7. CasType'
    BY <1>0, <1>3, <2>3 DEF CasType
  <2> QED
    BY <1>0, <2>4, <2>5, <2>6, <2>7, AsideInv
<1>6. CASE ~(res.book_updates = <<>> /\ ~Rest(res))
  <2>1. /\ call' = [call EXCEPT ![o].step = "write", ![o].result = <<res>>]
        /\ reply' = reply
    BY <1>6, <1>c, <1>i, <1>r DEF Matched
  <2>d. PICK d : d = [[c EXCEPT !.step = "write"] EXCEPT !.result = <<res>>]
    OBVIOUS
  <2>2. /\ d \in CallType
        /\ d.step = "write" /\ d.ver = c.ver /\ d.ids = c.ids /\ d.orders = c.orders
        /\ d.written = c.written /\ d.result = <<res>>
    <3>1. PICK e : e = [c EXCEPT !.step = "write"]
      OBVIOUS
    <3>2. /\ e \in CallType
          /\ e.step = "write" /\ e.ver = c.ver /\ e.ids = c.ids /\ e.orders = c.orders
          /\ e.written = c.written
      BY <1>2, <3>1 DEF CallType, Steps
    <3>3. d = [e EXCEPT !.result = <<res>>]
      BY <2>d, <3>1
    <3>4. <<res>> \in Seq(MatchResults)
      BY <1>1
    <3>5. PICK w : w = <<res>>
      OBVIOUS
    <3>6. /\ [e EXCEPT !.result = w] \in CallType
          /\ [e EXCEPT !.result = w].step = "write" /\ [e EXCEPT !.result = w].ver = c.ver
          /\ [e EXCEPT !.result = w].ids = c.ids /\ [e EXCEPT !.result = w].orders = c.orders
          /\ [e EXCEPT !.result = w].written = c.written /\ [e EXCEPT !.result = w].result = w
      BY <3>2, <3>4, <3>5 DEF CallType
    <3> QED
      BY <3>3, <3>5, <3>6
  <2>3. call' = [call EXCEPT ![o] = d]
    BY <1>0, <1>c, <1>2, <2>1, <2>d DEF CasType, CallType
  <2>4. call' \in [OccIds -> CallType] /\ call'[o] = d /\ \A p \in OccIds \ {o} : call'[p] = call[p]
    BY <1>0, <2>2, <2>3, CallTyped
  <2>5. c.written = 0 /\ c.ver <= version'
    BY <1>0, <1>3, <1>c DEF Snapshot
  <2>6. Touched(o)' = Append(res.book_updates, res.incoming)
    BY <2>2, <2>4 DEF Touched
  <2>7. \A k \in Upserts(o)' : k > 0
    <3>1. \A k \in Upserts(o)' : k \in DOMAIN Append(res.book_updates, res.incoming)
      BY <2>6 DEF Upserts
    <3>2. \A k \in DOMAIN Append(res.book_updates, res.incoming) : k > 0
      BY <1>1
    <3> QED
      BY <3>1, <3>2
  <2>8. Unwritten(o)' = Upserts(o)'
    BY <2>2, <2>4, <2>5, <2>7 DEF Unwritten
  <2>9. PreWritten(o)' = {}
    BY <2>8 DEF PreWritten
  <2>10. Aside(o)
    BY <1>3, <1>4, <2>1, <2>4, <2>9 DEF Aside
  <2>11. BookType'
    BY <1>0, <1>3, <2>1 DEF BookType
  <2>12. CasType'
    BY <1>0, <1>3, <2>4 DEF CasType
  <2>13. /\ \A k \in DOMAIN c.ids : Seen(o, c.ids[k])'
         /\ \A k \in DOMAIN c.orders : Seen(o, c.orders[k].id)'
    BY <1>0, <1>3, <1>c, SeenKept DEF Snapshot
  <2>14. /\ \A k \in DOMAIN c.orders :
              c.orders[k] = AsOrder(c.orders[k].id, order[c.orders[k].id].tif,
                                    c.orders[k].remaining, c.orders[k].status)'
         /\ \A j, k \in DOMAIN c.ids : j < k => Before(c.ids[j], c.ids[k])'
         /\ \A j, k \in DOMAIN c.orders : j < k => Before(c.orders[j].id, c.orders[k].id)'
         /\ \A j \in DOMAIN c.orders, k \in DOMAIN c.ids : Before(c.orders[j].id, c.ids[k])'
    BY <1>0, <1>3, <1>c, OrdersKept DEF Snapshot
  <2>15. i = Incoming(o)'
    BY <1>3, <1>i, OrdersKept
  <2>16. Snapshot(o)'
    BY <1>r, <2>2, <2>4, <2>5, <2>13, <2>14, <2>15 DEF Snapshot
  <2>17. ASSUME Fresh(o)' PROVE UpToDate(o)'
    <3>1. Fresh(o)
      BY <1>3, <1>c, <2>2, <2>4, <2>17 DEF Fresh
    <3>2. UpToDate(o)
      BY <3>1 DEF CasInv
    <3>3. \A x : Around(x)' <=> Around(x)
      BY <1>3 DEF Around
    <3>4. \A k \in DOMAIN c.orders : c.orders[k].id \in OrderIds
      BY <1>0, <1>c, SnapshotRows DEF Seen, CasType
    <3>5. \A x \in OrderIds : CleanFor(o, x)' => CleanFor(o, x)
      BY <2>10, AsideClean
    <3>6. /\ \A k \in DOMAIN c.ids : Around(c.ids[k])'
          /\ \A k \in DOMAIN c.orders :
              /\ Around(c.orders[k].id)'
              /\ CleanFor(o, c.orders[k].id)' =>
                    filled'[c.orders[k].id] + c.orders[k].remaining = order'[c.orders[k].id].qty
      BY <1>3, <1>c, <3>2, <3>3, <3>4, <3>5 DEF UpToDate
    <3> QED
      BY <2>2, <2>4, <2>8, <3>6 DEF UpToDate
  <2> QED
    BY <1>0, <2>10, <2>11, <2>12, <2>16, <2>17, AsideInv
<1> QED
  BY <1>5, <1>6

LEMMA InvWriting ==
    ASSUME CasInv, NEW o \in OccIds, call[o].step = "write"
    PROVE  Writing(o) /\ New(o) /\ o \in OrderIds
<1>1. New(o) /\ o \in OrderIds
  BY OccAssumption DEF New
<1>2. o \notin onceHere
  BY <1>1 DEF CasInv, Places
<1> QED
  BY <1>1, <1>2 DEF Writing, CasInv

LEMMA UpsertPositions ==
    ASSUME NEW o, Writing(o)
    PROVE  Upserts(o) \subseteq Nat
<1>1. Touched(o) = Append(Result(o).book_updates, Result(o).incoming)
  BY DEF Touched, Result
<1>2. Result(o).book_updates \in Seq(EngineOrders)
  BY ResultTypes
<1>3. Touched(o) \in Seq(EngineOrders)
  BY <1>1, <1>2, ResultTypes
<1>4. DOMAIN Touched(o) \subseteq Nat
  BY <1>3
<1> QED
  BY <1>4 DEF Upserts

\* One hash is written, one more position is done.
LEMMA PreWriteStep ==
    ASSUME CasInv, NEW o \in OccIds, PreWrite(o)
    PROVE  \E k \in Unwritten(o) :
             /\ hash' = [hash EXCEPT ![Touched(o)[k].id] =
                           [remaining |-> Touched(o)[k].remaining, status |-> Touched(o)[k].status]]
             /\ call' = [call EXCEPT ![o] = [call[o] EXCEPT !.written = k]]
             /\ [call[o] EXCEPT !.written = k] \in CallType
             /\ Touched(o)' = Touched(o) /\ Upserts(o)' = Upserts(o)
             /\ Upserts(o)' \ Unwritten(o)' = (Upserts(o) \ Unwritten(o)) \cup {k}
<1>0. call[o].step = "write" /\ Writing(o) /\ CasType
  BY InvWriting DEF PreWrite, CasInv
<1>1. PICK k \in Unwritten(o) :
          /\ \A j \in Unwritten(o) : k <= j
          /\ hash' = [hash EXCEPT ![Touched(o)[k].id] =
                        [remaining |-> Touched(o)[k].remaining, status |-> Touched(o)[k].status]]
          /\ call' = [call EXCEPT ![o].written = k]
  BY DEF PreWrite
<1>2. Upserts(o) \subseteq Nat /\ k \in Upserts(o) /\ k \in Nat /\ k > call[o].written
      /\ call[o].written \in Nat
  BY <1>0, UpsertPositions, CallFields DEF Unwritten
<1>c. PICK c : c = call[o]
  OBVIOUS
<1>d. PICK d : d = [c EXCEPT !.written = k]
  OBVIOUS
<1>3. c \in CallType
  BY <1>0, <1>c, CallFields
<1>4. d \in CallType /\ d.result = c.result /\ d.written = k
  BY <1>2, <1>3, <1>d DEF CallType
<1>5. call' = [call EXCEPT ![o] = d]
  BY <1>1, <1>c, <1>d
<1>6. call'[o] = d
  BY <1>0, <1>5 DEF CasType
<1>7. Touched(o)' = Touched(o) /\ Upserts(o)' = Upserts(o)
  <2>1. Touched(o)' = Touched(o)
    BY <1>4, <1>6, <1>c DEF Touched
  <2> QED
    BY <1>4, <1>6, <1>c, <2>1 DEF Upserts
<1>8. Unwritten(o)' = {j \in Upserts(o) : j > k}
  BY <1>4, <1>6, <1>7 DEF Unwritten
<1>9. Unwritten(o) = {j \in Upserts(o) : j > c.written}
  BY <1>c DEF Unwritten
<1>10. \A j \in Upserts(o) : (j \notin Unwritten(o)' <=> j \notin Unwritten(o) \/ j = k)
  <2> TAKE j \in Upserts(o)
  <2>1. j \in Nat
    BY <1>2
  <2>2. CASE j > c.written
    BY <1>1, <1>2, <1>8, <1>9, <1>c, <2>1, <2>2
  <2>3. CASE ~(j > c.written)
    BY <1>1, <1>2, <1>8, <1>9, <1>c, <2>1, <2>3
  <2> QED
    BY <2>2, <2>3
<1>11. Upserts(o)' \ Unwritten(o)' = (Upserts(o) \ Unwritten(o)) \cup {k}
  BY <1>2, <1>7, <1>10
<1> QED
  BY <1>1, <1>4, <1>5, <1>7, <1>11, <1>c, <1>d

LEMMA PreWriteKeeps ==
    ASSUME CasInv, NEW o \in OccIds, PreWrite(o)
    PROVE  CasInv'
<1>0. /\ pc = "idle" /\ call[o].step = "write" /\ Writing(o) /\ CasType /\ BookType /\ Snapshot(o)
      /\ New(o) /\ o \in OrderIds
  BY InvWriting DEF PreWrite, CasInv
<1>1. PICK k \in Unwritten(o) :
             /\ hash' = [hash EXCEPT ![Touched(o)[k].id] =
                           [remaining |-> Touched(o)[k].remaining, status |-> Touched(o)[k].status]]
             /\ call' = [call EXCEPT ![o] = [call[o] EXCEPT !.written = k]]
             /\ [call[o] EXCEPT !.written = k] \in CallType
             /\ Touched(o)' = Touched(o) /\ Upserts(o)' = Upserts(o)
             /\ Upserts(o)' \ Unwritten(o)' = (Upserts(o) \ Unwritten(o)) \cup {k}
  BY PreWriteStep
<1>c. PICK c : c = call[o]
  OBVIOUS
<1>d. PICK d : d = [c EXCEPT !.written = k]
  OBVIOUS
<1>r. PICK r : r = Touched(o)[k]
  OBVIOUS
<1>h. PICK h : h = [remaining |-> r.remaining, status |-> r.status]
  OBVIOUS
<1>2. k \in Upserts(o) /\ r.id \in OrderIds /\ h \in HashType
  BY <1>0, <1>r, <1>h, UpsertFacts DEF Unwritten
<1>3. hash' = [hash EXCEPT ![r.id] = h]
  BY <1>1, <1>r, <1>h
<1>4. /\ hash' \in [OrderIds -> HashType] /\ hash'[r.id] = h
      /\ \A x \in OrderIds : x # r.id => hash'[x] = hash[x]
  BY <1>0, <1>2, <1>3 DEF BookType
<1>5. call' \in [OccIds -> CallType] /\ call'[o] = d /\ \A p \in OccIds \ {o} : call'[p] = call[p]
  BY <1>0, <1>1, <1>c, <1>d, CallTyped
<1>6. UNCHANGED <<order, zset, version, reply, filled, trades, cut, pc, taker, cands, remaining,
                  status, dropping, sweepList, sweepGone, unanswered, spoiled, onceHere, withdrawn>>
  BY DEF PreWrite, book, history, script, sweep, casHistory
<1>7. c \in CallType
  BY <1>0, <1>c, CallFields
<1>8. /\ d.step = "write" /\ d.ver = c.ver /\ d.ids = c.ids /\ d.orders = c.orders
      /\ d.result = c.result
  BY <1>0, <1>c, <1>d, <1>7 DEF CallType
<1>9. PreWritten(o) \cup {r.id} = PreWritten(o)'
  <2>1. PreWritten(o) = {Touched(o)[m].id : m \in Upserts(o) \ Unwritten(o)}
    BY <1>0 DEF PreWritten
  <2>2. PreWritten(o)' = {Touched(o)[m].id : m \in (Upserts(o) \ Unwritten(o)) \cup {k}}
    <3>1. call'[o].step = "write"
      BY <1>5, <1>8
    <3>2. PreWritten(o)' = {Touched(o)'[m].id : m \in Upserts(o)' \ Unwritten(o)'}
      BY <3>1 DEF PreWritten
    <3> QED
      BY <1>1, <3>2
  <2> QED
    BY <2>1, <2>2, <1>r
<1>10. Aside(o)
  <2>1. \A x \in OrderIds : hash'[x] = hash[x] \/ x \in PreWritten(o)'
    BY <1>4, <1>9
  <2> QED
    BY <1>0, <1>5, <1>6, <1>9, <2>1 DEF Aside
<1>11. BookType'
  BY <1>0, <1>4, <1>6 DEF BookType
<1>12. CasType'
  BY <1>0, <1>5, <1>6 DEF CasType
<1>13. Snapshot(o)'
  <2>1. /\ \A m \in DOMAIN c.ids : Seen(o, c.ids[m])'
        /\ \A m \in DOMAIN c.orders : Seen(o, c.orders[m].id)'
    BY <1>0, <1>6, <1>c, SeenKept DEF Snapshot
  <2>2. /\ \A m \in DOMAIN c.orders :
              c.orders[m] = AsOrder(c.orders[m].id, order[c.orders[m].id].tif,
                                    c.orders[m].remaining, c.orders[m].status)'
        /\ \A j, m \in DOMAIN c.ids : j < m => Before(c.ids[j], c.ids[m])'
        /\ \A j, m \in DOMAIN c.orders : j < m => Before(c.orders[j].id, c.orders[m].id)'
        /\ \A j \in DOMAIN c.orders, m \in DOMAIN c.ids : Before(c.orders[j].id, c.ids[m])'
    BY <1>0, <1>6, <1>c, OrdersKept DEF Snapshot
  <2>3. c.result = <<match_order(Incoming(o), c.orders)>> /\ c.ver <= version'
    BY <1>0, <1>6, <1>c DEF Snapshot
  <2>4. Incoming(o)' = Incoming(o)
    BY <1>6, OrdersKept
  <2> QED
    BY <1>5, <1>8, <2>1, <2>2, <2>3, <2>4 DEF Snapshot
<1>14. ASSUME Fresh(o)' PROVE UpToDate(o)'
  <2>1. Fresh(o)
    BY <1>5, <1>6, <1>8, <1>14, <1>c DEF Fresh
  <2>2. UpToDate(o)
    BY <2>1 DEF CasInv
  <2>3. \A x : Around(x)' <=> Around(x)
    BY <1>6 DEF Around
  <2>4. \A m \in DOMAIN c.orders : c.orders[m].id \in OrderIds
    BY <1>0, <1>c, SnapshotRows DEF Seen, CasType
  <2>5. \A x \in OrderIds : CleanFor(o, x)' => CleanFor(o, x)
    BY <1>10, AsideClean
  <2>6. /\ \A m \in DOMAIN c.ids : Around(c.ids[m])'
        /\ \A m \in DOMAIN c.orders :
              /\ Around(c.orders[m].id)'
              /\ CleanFor(o, c.orders[m].id)' =>
                    filled'[c.orders[m].id] + c.orders[m].remaining = order'[c.orders[m].id].qty
    BY <1>6, <1>c, <2>2, <2>3, <2>4, <2>5 DEF UpToDate
  <2>7. ASSUME NEW m \in (Upserts(o) \ Unwritten(o)) \cup {k}, NEW u, u = Touched(o)[m],
               CleanFor(o, u.id)'
        PROVE  hash'[u.id] \in {NoHash, [remaining |-> u.remaining, status |-> u.status]}
    <3>1. CASE m = k
      BY <1>4, <1>r, <1>h, <2>7, <3>1
    <3>2. CASE m # k
      <4>1. m \in Upserts(o) /\ m \in Upserts(o) \ Unwritten(o)
        BY <2>7, <3>2
      <4>2. u.id # r.id
        BY <1>0, <1>2, <1>r, <2>7, <3>2, <4>1, UpsertDistinct
      <4>3. u.id \in OrderIds
        BY <1>0, <2>7, <4>1, UpsertFacts
      <4>4. CleanFor(o, u.id)
        BY <2>5, <2>7, <4>3
      <4>5. hash[u.id] \in {NoHash, [remaining |-> u.remaining, status |-> u.status]}
        BY <1>0, <2>2, <2>7, <4>1, <4>4 DEF UpToDate
      <4> QED
        BY <1>4, <4>2, <4>3, <4>5
    <3> QED
      BY <3>1, <3>2
  <2>8. NoHash' = NoHash
    BY DEF NoHash
  <2> QED
    BY <1>1, <1>5, <1>8, <2>6, <2>7, <2>8 DEF UpToDate
<1> QED
  BY <1>0, <1>10, <1>11, <1>12, <1>13, <1>14, AsideInv

-------------------------------------------------------------------------------
(* The CAS.                                                                *)

\* What the CAS takes off the book, and what it places.
Gone(o) ==
    {Result(o).book_updates[k].id : k \in {j \in DOMAIN Result(o).book_updates :
                                             ~IsUpsert(Result(o).book_updates[j])}}
Kept(o) == {Touched(o)[k].id : k \in Upserts(o)}

ChangedIds(o) == {Result(o).book_updates[k].id : k \in DOMAIN Result(o).book_updates}

\* The ids a match is about: its own, and orders that were on the book.
LEMMA CommitIds ==
    ASSUME NEW o, Writing(o)
    PROVE  /\ ChangedIds(o) \subseteq onceHere /\ Gone(o) \subseteq ChangedIds(o)
           /\ Kept(o) \subseteq ChangedIds(o) \cup {o}
           /\ o \in Kept(o) => Rest(Result(o))
           /\ onceHere \subseteq OrderIds /\ o \in OrderIds /\ o \notin onceHere
           /\ \A x : x # o /\ x \notin ChangedIds(o) => FillOf(Result(o).trades, x) = 0
<1> DEFINE b == Result(o).book_updates
           l == Len(b) + 1
<1>0. o \in OrderIds /\ o \notin onceHere /\ onceHere \subseteq OrderIds /\ o \in OccIds /\ Snapshot(o)
  BY OccAssumption DEF Writing, CasType
<1>1. ChangedIds(o) \subseteq onceHere
  <2>1. ASSUME NEW k \in DOMAIN b PROVE b[k].id \in onceHere
    <3>1. \E j \in DOMAIN call[o].orders : b[k].id = call[o].orders[j].id
      BY ChangedRow
    <3> QED
      BY <1>0, <3>1, SnapshotRows DEF Seen
  <2> QED
    BY <2>1 DEF ChangedIds
<1>2. /\ Touched(o)[l] = Result(o).incoming
      /\ \A n \in DOMAIN b : Touched(o)[n] = b[n]
      /\ Upserts(o) = {n \in DOMAIN b : IsUpsert(b[n])} \cup IF Rest(Result(o)) THEN {l} ELSE {}
      /\ Result(o).incoming.id = o
  BY TouchedFacts, ResultTypes
<1>3. Kept(o) \subseteq ChangedIds(o) \cup {o} /\ (o \in Kept(o) => Rest(Result(o)))
  <2>1. ASSUME NEW k \in Upserts(o)
        PROVE  Touched(o)[k].id \in ChangedIds(o) \/ (Touched(o)[k].id = o /\ Rest(Result(o)))
    <3>1. CASE k \in DOMAIN b
      BY <1>2, <3>1 DEF ChangedIds
    <3>2. CASE k = l /\ Rest(Result(o))
      BY <1>2, <3>2
    <3> HIDE DEF b, l
    <3>3. k \in DOMAIN b \/ (k = l /\ Rest(Result(o)))
      BY <1>2, <2>1
    <3> QED
      BY <3>1, <3>2, <3>3
  <2> QED
    BY <1>0, <1>1, <2>1 DEF Kept
<1>4. Gone(o) \subseteq ChangedIds(o)
  BY DEF Gone, ChangedIds
<1>5. ASSUME NEW x, x # o, x \notin ChangedIds(o) PROVE FillOf(Result(o).trades, x) = 0
  <2>1. Incoming(o).id = o
    BY IncomingType DEF Writing, BookType
  <2>2. \A t \in Result(o).trades : t.taker = o /\ \E m \in DOMAIN b : b[m].id = t.maker
    BY <2>1, ResultFacts DEF Balanced
  <2>3. \A t \in Result(o).trades : x \notin {t.taker, t.maker}
    BY <1>5, <2>2 DEF ChangedIds
  <2> QED
    BY <2>3, FillOfNone
<1> QED
  BY <1>0, <1>1, <1>3, <1>4, <1>5

\* What a committing caller will have done to an order of the book.
LEMMA CommitRow ==
    ASSUME CasInv, NEW o \in OccIds, AtCas(o), Fresh(o),
           NEW x \in ChangedIds(o), CleanFor(o, x)
    PROVE  LET f == filled[x] + FillOf(Result(o).trades, x)
           IN  /\ f \in Nat /\ f <= order[x].qty
               /\ (x \notin Gone(o) /\ hash[x] # NoHash) => f + hash[x].remaining = order[x].qty
<1>0. /\ call[o].step = "write" /\ Unwritten(o) = {} /\ Writing(o) /\ CasType /\ BookType /\ Snapshot(o)
      /\ UpToDate(o)
  BY InvWriting DEF AtCas, CasInv
<1>b. PICK b : b = Result(o).book_updates
  OBVIOUS
<1>rs. PICK rs : rs = call[o].orders
  OBVIOUS
<1>T. PICK T : T = Result(o).trades
  OBVIOUS
<1>1. PICK m \in DOMAIN b : b[m].id = x
  BY <1>b DEF ChangedIds
<1>u. PICK u : u = b[m]
  OBVIOUS
<1>2. /\ u \in EngineOrders
      /\ \E j \in DOMAIN rs :
            /\ u.id = rs[j].id
            /\ \/ u.status = "C" /\ FillOf(T, u.id) = 0
               \/ /\ u.status = StatusAfterFill(u.remaining)
                  /\ FillOf(T, u.id) + u.remaining = rs[j].remaining
  BY <1>0, <1>b, <1>rs, <1>T, <1>u, ChangedRow
<1>3. PICK j \in DOMAIN rs :
            /\ u.id = rs[j].id
            /\ \/ u.status = "C" /\ FillOf(T, u.id) = 0
               \/ /\ u.status = StatusAfterFill(u.remaining)
                  /\ FillOf(T, u.id) + u.remaining = rs[j].remaining
  BY <1>2
<1>4. x \in OrderIds /\ u.remaining \in Nat /\ u.id = x
  BY <1>0, <1>1, <1>2, <1>u, CommitIds DEF EngineOrders
<1>5. rs[j].remaining \in Nat
  <2>1. rs \in Seq(EngineOrders)
    BY <1>0, <1>rs, CallFields
  <2>2. rs[j] \in EngineOrders
    BY <2>1
  <2> QED
    BY <2>2 DEF EngineOrders
<1>6. filled[x] + rs[j].remaining = order[x].qty
  BY <1>0, <1>3, <1>4, <1>rs DEF UpToDate
<1>7. filled[x] \in Nat /\ order[x].qty \in Nat /\ hash[x].remaining \in Nat
  BY <1>0, <1>4, OrderFields, HashRemaining DEF BookType
<1>8. FillOf(T, x) \in Nat
  BY <1>0, <1>T, ResultTypes, FillOfNat
<1>f. PICK f : f = FillOf(T, x)
  OBVIOUS
<1>9. CASE u.status = "C" /\ f = 0
  <2>1. x \in Gone(o)
    <3>1. ~IsUpsert(b[m])
      BY <1>9, <1>u DEF IsUpsert
    <3> QED
      BY <1>1, <1>b, <3>1 DEF Gone
  <2>2. filled[x] + f \in Nat /\ filled[x] + f <= order[x].qty
    BY <1>5, <1>6, <1>7, <1>9
  <2> QED
    BY <2>1, <2>2, <1>f, <1>T
<1>10. CASE u.status = StatusAfterFill(u.remaining) /\ f + u.remaining = rs[j].remaining
  <2>1. filled[x] + f \in Nat /\ filled[x] + f <= order[x].qty
        /\ filled[x] + f + u.remaining = order[x].qty
    BY <1>4, <1>5, <1>6, <1>7, <1>8, <1>10, <1>f
  <2>2. ASSUME x \notin Gone(o), hash[x] # NoHash PROVE hash[x].remaining = u.remaining
    <3>1. IsUpsert(b[m])
      BY <1>1, <1>b, <2>2 DEF Gone
    <3>2. m \in Upserts(o) /\ Touched(o)[m] = u
      BY <1>0, <1>b, <1>u, <3>1, TouchedFacts
    <3>3. m \in Upserts(o) \ Unwritten(o)
      BY <1>0, <3>2
    <3>4. hash[x] \in {NoHash, [remaining |-> u.remaining, status |-> u.status]}
      BY <1>0, <1>4, <3>2, <3>3 DEF UpToDate
    <3>5. hash[x] = [remaining |-> u.remaining, status |-> u.status]
      BY <2>2, <3>4
    <3> QED
      BY <3>5
  <2> QED
    BY <2>1, <2>2, <1>f, <1>T
<1> QED
  BY <1>3, <1>4, <1>9, <1>10, <1>f

\* What a committing caller will have done to its own order.
LEMMA CommitOwn ==
    ASSUME CasInv, NEW o \in OccIds, AtCas(o), Fresh(o), CleanFor(o, o)
    PROVE  LET f == filled[o] + FillOf(Result(o).trades, o)
           IN  /\ f \in Nat /\ f <= order[o].qty
               /\ hash[o] # NoHash => f + hash[o].remaining = order[o].qty
<1>0. /\ call[o].step = "write" /\ Unwritten(o) = {} /\ Writing(o) /\ CasType /\ BookType /\ Snapshot(o)
      /\ UpToDate(o) /\ New(o) /\ o \in OrderIds /\ pc = "idle"
  BY InvWriting DEF AtCas, CasInv
<1>i. PICK i : i = Result(o).incoming
  OBVIOUS
<1>f. PICK f : f = FillOf(Result(o).trades, o)
  OBVIOUS
<1>1. filled[o] = 0
  BY <1>0 DEF CasInv, Places
<1>2. f + i.remaining = order[o].qty
  <2>1. Incoming(o).id = o /\ Incoming(o).remaining = order[o].qty
    BY <1>0, IncomingType DEF BookType
  <2> QED
    BY <1>0, <1>i, <1>f, <2>1, ResultFacts DEF Balanced
<1>3. f \in Nat /\ i.remaining \in Nat /\ order[o].qty \in Nat /\ i.id = o
  BY <1>0, <1>f, <1>i, ResultTypes, FillOfNat, OrderFields DEF BookType
<1>4. filled[o] + f = f /\ f <= order[o].qty
  BY <1>1, <1>2, <1>3
<1>5. ASSUME hash[o] # NoHash PROVE hash[o].remaining = i.remaining
  <2>1. CASE Rest(Result(o))
    <3>l. PICK l : l = Len(Result(o).book_updates) + 1
      OBVIOUS
    <3>1. l \in Upserts(o) /\ Touched(o)[l] = i
      BY <1>0, <1>i, <2>1, <3>l, TouchedFacts
    <3>2. l \in Upserts(o) \ Unwritten(o)
      BY <1>0, <3>1
    <3>3. hash[o] \in {NoHash, [remaining |-> i.remaining, status |-> i.status]}
      BY <1>0, <1>3, <3>1, <3>2 DEF UpToDate
    <3>4. hash[o] = [remaining |-> i.remaining, status |-> i.status]
      BY <1>5, <3>3
    <3> QED
      BY <3>4
  <2>2. CASE ~Rest(Result(o))
    <3>1. o \notin Kept(o)
      BY <1>0, <2>2, CommitIds
    <3>2. o \notin PreWritten(o)
      BY <3>1 DEF PreWritten, Kept
    <3>3. Clean(o)
      BY <3>2 DEF CleanFor, Clean
    <3> QED
      BY <1>0, <1>5, <3>3 DEF CasInv, Ledger, Accounted
  <2> QED
    BY <2>1, <2>2
<1> QED
  BY <1>2, <1>3, <1>4, <1>5, <1>f

\* The effect of the CAS, part by part.
LEMMA CommitStep ==
    ASSUME CasInv, NEW o \in OccIds, Commit(o)
    PROVE  /\ AtCas(o) /\ Fresh(o) /\ Writing(o) /\ New(o) /\ o \in OrderIds
           /\ zset' = [s \in Sides |-> (zset[s] \ Gone(o)) \cup {x \in Kept(o) : order[x].side = s}]
           /\ hash' = [x \in OrderIds |-> IF x \in Gone(o) THEN NoHash ELSE hash[x]]
           /\ version' = version + 1
           /\ trades' = trades \cup Result(o).trades
           /\ filled' = [x \in OrderIds |-> filled[x] + FillOf(Result(o).trades, x)]
           /\ call' = [call EXCEPT ![o] = [NoCall EXCEPT !.step = "unlock"]]
           /\ UNCHANGED <<order, cut, pc, taker, cands, remaining, status, dropping, sweepList,
                          sweepGone, unanswered, spoiled, withdrawn>>
           /\ onceHere' = onceHere \cup UNION {zset'[s] : s \in Sides}
<1>1. AtCas(o) /\ VersionMatches(o) /\ call[o].step = "write" /\ pc = "idle"
  BY DEF Commit, AtCas
<1>2. Fresh(o)
  BY <1>1 DEF VersionMatches, Fresh
<1>3. Writing(o) /\ New(o) /\ o \in OrderIds
  BY <1>1, InvWriting
<1> QED
  BY <1>1, <1>2, <1>3 DEF Commit, Gone, Kept, Result, Note, script, sweep, funds

LEMMA CommitTypes ==
    ASSUME CasInv, NEW o \in OccIds, Commit(o)
    PROVE  BookType' /\ CasType'
<1>0. /\ Writing(o) /\ o \in OrderIds /\ BookType /\ CasType
      /\ Gone(o) \subseteq OrderIds /\ Kept(o) \subseteq OrderIds
  <2>1. Writing(o) /\ o \in OrderIds /\ BookType /\ CasType
    BY CommitStep DEF CasInv
  <2> QED
    BY <2>1, CommitIds
<1>1. zset' \in [Sides -> SUBSET OrderIds]
  BY <1>0, CommitStep DEF BookType
<1>2. hash' \in [OrderIds -> HashType]
  BY <1>0, CommitStep, NoHashType DEF BookType
<1>3. filled' \in [OrderIds -> Nat]
  <2>1. \A x \in OrderIds : FillOf(Result(o).trades, x) \in Nat
    BY <1>0, ResultTypes, FillOfNat
  <2>2. \A x \in OrderIds : filled[x] + FillOf(Result(o).trades, x) \in Nat
    BY <1>0, <2>1 DEF BookType
  <2> QED
    BY <2>2, CommitStep
<1>4. reply' \in [OrderIds -> ReplyType]
  <2>1. reply' = [reply EXCEPT ![o] = [remaining |-> Result(o).incoming.remaining,
                                       status |-> Result(o).incoming.status]]
    BY DEF Commit, Result
  <2>2. Result(o).incoming.remaining \in Nat /\ Result(o).incoming.status \in OrderStatuses
    BY <1>0, ResultTypes
  <2>3. [remaining |-> Result(o).incoming.remaining, status |-> Result(o).incoming.status] \in ReplyType
    BY <2>2 DEF ReplyType, Statuses
  <2> QED
    BY <1>0, <2>1, <2>3 DEF BookType
<1>5. trades' \subseteq TradeType
  BY <1>0, CommitStep, ResultTypes DEF BookType
<1>6. version' \in Nat
  BY <1>0, CommitStep DEF BookType
<1>7. BookType'
  <2>1. UNCHANGED <<order, cut, pc, taker, cands, remaining, status, dropping, sweepList,
                          sweepGone, unanswered>>
    BY CommitStep
  <2> QED
    BY <1>0, <1>1, <1>2, <1>3, <1>4, <1>5, <1>6, <2>1 DEF BookType
<1>8. call' \in [OccIds -> CallType]
  <2>1. "unlock" \in Steps /\ 0 \in Nat
    BY DEF Steps
  <2>2. [NoCall EXCEPT !.step = "unlock"] \in CallType
    BY <2>1, NoCallTyped
  <2> QED
    BY <1>0, <2>2, CommitStep DEF CasType
<1>9. onceHere' \subseteq OrderIds
  <2>1. UNION {zset'[s] : s \in Sides} \subseteq OrderIds
    BY <1>1
  <2> QED
    BY <1>0, <2>1, CommitStep DEF CasType
<1>10. CasType'
  <2>1. UNCHANGED <<spoiled, withdrawn>>
    BY CommitStep
  <2> QED
    BY <1>0, <1>8, <1>9, <2>1 DEF CasType
<1> QED
  BY <1>7, <1>10

\* Who is new, and whose hash is clean, after the CAS.
LEMMA CommitCallers ==
    ASSUME CasInv, NEW o \in OccIds, Commit(o)
    PROVE  /\ call'[o].step = "unlock" /\ Snapshot(o)' /\ UpToDate(o)' /\ PreWritten(o)' = {}
           /\ \A p \in OccIds \ {o} : call'[p] = call[p] /\ PreWritten(p)' = PreWritten(p)
           /\ \A x \in OrderIds : New(x)' => New(x) /\ x # o
           /\ \A x \in OrderIds : Clean(x)' => CleanFor(o, x)
<1>0. CasType /\ BookType /\ o \in OrderIds /\ version \in Nat
  BY OccAssumption DEF CasInv, BookType
<1>1. call' = [call EXCEPT ![o] = [NoCall EXCEPT !.step = "unlock"]] /\ version' = version + 1
      /\ spoiled' = spoiled
  BY CommitStep
<1>2. [NoCall EXCEPT !.step = "unlock"] = [NoCall EXCEPT !.step = "unlock", !.ver = 0]
      /\ [NoCall EXCEPT !.step = "unlock"] \in CallType
  <2>1. "unlock" \in Steps /\ 0 \in Nat
    BY DEF Steps
  <2> QED
    BY <2>1, NoCallTyped
<1>3. call'[o] = [NoCall EXCEPT !.step = "unlock", !.ver = 0]
      /\ \A p \in OccIds \ {o} : call'[p] = call[p]
  BY <1>0, <1>1, <1>2, CallTyped
<1>4. call'[o].step = "unlock" /\ Snapshot(o)' /\ UpToDate(o)' /\ PreWritten(o)' = {}
  <2>1. version' \in Nat /\ 0 <= version'
    BY <1>0, <1>1
  <2> QED
    BY <1>3, <2>1, EmptySnapshot
<1>5. \A p \in OccIds \ {o} : PreWritten(p)' = PreWritten(p)
  BY <1>3, WriterKept
<1>6. \A x \in OrderIds : x \notin OccIds => reply'[x] = reply[x]
  BY <1>0 DEF Commit, BookType
<1>7. \A x \in OrderIds : New(x)' => New(x) /\ x # o
  BY <1>3, <1>4, <1>6 DEF New
<1>8. \A x \in OrderIds : Clean(x)' => CleanFor(o, x)
  BY <1>1, <1>5 DEF Clean, CleanFor
<1> QED
  BY <1>3, <1>4, <1>5, <1>7, <1>8

LEMMA CommitPlaces ==
    ASSUME CasInv, NEW o \in OccIds, Commit(o)
    PROVE  Places'
<1>0. Places /\ BookType /\ CasType /\ Writing(o) /\ pc = "idle"
  BY CommitStep DEF CasInv, Fresh
<1>1. /\ order' = order /\ cands' = cands /\ pc' = pc
      /\ onceHere' = onceHere \cup UNION {zset'[s] : s \in Sides}
      /\ zset' = [s \in Sides |-> (zset[s] \ Gone(o)) \cup {x \in Kept(o) : order[x].side = s}]
      /\ filled' = [x \in OrderIds |-> filled[x] + FillOf(Result(o).trades, x)]
  BY CommitStep
<1>2. \A s \in Sides : \A x \in zset'[s] : x \in onceHere' /\ order'[x].side = s
  BY <1>0, <1>1 DEF Places
<1>3. cands' \subseteq onceHere'
  BY <1>0, <1>1 DEF Places
<1>4. ASSUME NEW x \in OrderIds, New(x)'
      PROVE  x \notin onceHere' /\ filled'[x] = 0
  <2>1. New(x) /\ x # o
    BY <1>4, CommitCallers
  <2>2. x \notin onceHere /\ filled[x] = 0
    BY <1>0, <2>1 DEF Places
  <2>3. x \notin ChangedIds(o) /\ x \notin Kept(o)
    BY <1>0, <2>1, <2>2, CommitIds
  <2>4. FillOf(Result(o).trades, x) = 0
    BY <1>0, <2>1, <2>3, CommitIds
  <2>5. \A s \in Sides : x \notin zset'[s]
    BY <1>0, <1>1, <2>2, <2>3 DEF Places
  <2> QED
    BY <1>1, <2>2, <2>4, <2>5
<1> QED
  BY <1>0, <1>1, <1>2, <1>3, <1>4 DEF Places

LEMMA CommitLedger ==
    ASSUME CasInv, NEW o \in OccIds, Commit(o)
    PROVE  Ledger'
<1>0. Ledger /\ BookType /\ CasType /\ Writing(o) /\ AtCas(o) /\ Fresh(o) /\ o \in OrderIds
  BY CommitStep DEF CasInv
<1>1. /\ order' = order
      /\ hash' = [x \in OrderIds |-> IF x \in Gone(o) THEN NoHash ELSE hash[x]]
      /\ filled' = [x \in OrderIds |-> filled[x] + FillOf(Result(o).trades, x)]
      /\ NoHash' = NoHash
  BY CommitStep DEF NoHash
<1> SUFFICES ASSUME NEW x \in OrderIds, Clean(x)' PROVE Accounted(x)'
  BY DEF Ledger
<1>2. CleanFor(o, x)
  BY CommitCallers
<1>3. /\ filled'[x] = filled[x] + FillOf(Result(o).trades, x)
      /\ hash'[x] = IF x \in Gone(o) THEN NoHash ELSE hash[x]
  BY <1>1
<1>4. Gone(o) \subseteq ChangedIds(o) /\ o \notin ChangedIds(o) /\ Kept(o) \subseteq ChangedIds(o) \cup {o}
      /\ ChangedIds(o) \subseteq onceHere
  BY <1>0, CommitIds
<1>5. CASE x \in ChangedIds(o)
  <2>1. ~New(x)'
    <3>1. x \in onceHere
      BY <1>4, <1>5
    <3>2. ~New(x)
      BY <3>1 DEF CasInv, Places
    <3> QED
      BY <3>2, CommitCallers
  <2>2. /\ filled'[x] <= order[x].qty
        /\ hash'[x] # NoHash => filled'[x] + hash'[x].remaining = order[x].qty
    BY <1>0, <1>2, <1>3, <1>5, CommitRow
  <2> QED
    BY <1>1, <2>1, <2>2 DEF Accounted
<1>6. CASE x = o
  <2>1. ~New(x)'
    BY <1>6, CommitCallers
  <2>2. hash'[x] = hash[x]
    BY <1>3, <1>4, <1>6
  <2>3. /\ filled'[x] <= order[x].qty
        /\ hash'[x] # NoHash => filled'[x] + hash'[x].remaining = order[x].qty
    BY <1>0, <1>2, <1>3, <1>6, <2>2, CommitOwn
  <2> QED
    BY <1>1, <2>1, <2>3 DEF Accounted
<1>7. CASE x # o /\ x \notin ChangedIds(o)
  <2>1. FillOf(Result(o).trades, x) = 0
    BY <1>0, <1>7, CommitIds
  <2>2. filled'[x] = filled[x] /\ hash'[x] = hash[x]
    BY <1>0, <1>3, <1>4, <1>7, <2>1 DEF BookType
  <2>3. x \notin PreWritten(o)
    BY <1>4, <1>7 DEF PreWritten, Kept
  <2>4. Clean(x)
    BY <1>2, <2>3 DEF CleanFor, Clean
  <2>5. Accounted(x)
    BY <1>0, <2>4 DEF Ledger
  <2>6. New(x)' => New(x)
    BY CommitCallers
  <2> QED
    BY <1>1, <2>2, <2>5, <2>6 DEF Accounted
<1> QED
  BY <1>5, <1>6, <1>7

LEMMA CommitKeeps ==
    ASSUME CasInv, NEW o \in OccIds, Commit(o)
    PROVE  CasInv'
<1>1. BookType' /\ CasType' /\ Places' /\ Ledger'
  BY CommitTypes, CommitPlaces, CommitLedger
<1>2. /\ order' = order /\ onceHere \subseteq onceHere' /\ version' = version + 1
      /\ version \in Nat /\ CasType
  BY CommitStep DEF CasInv, BookType
<1>3. ASSUME NEW p \in OccIds PROVE Snapshot(p)' /\ (Fresh(p)' => UpToDate(p)')
  <2>1. CASE p = o
    BY <2>1, CommitCallers
  <2>2. CASE p # o
    <3>1. call'[p] = call[p] /\ Snapshot(p)
      BY <2>2, CommitCallers DEF CasInv
    <3>2. version' \in Nat /\ version <= version'
      BY <1>2
    <3>3. Snapshot(p)'
      BY <1>2, <3>1, <3>2, SnapshotKept
    <3>4. call[p].ver \in Nat /\ call[p].ver <= version
      BY <1>2, <3>1, CallFields DEF Snapshot
    <3>5. call'[p].ver # version'
      BY <1>2, <3>1, <3>4
    <3> QED
      BY <3>3, <3>5 DEF Fresh
  <2> QED
    BY <2>1, <2>2
<1> QED
  BY <1>1, <1>3 DEF CasInv

-------------------------------------------------------------------------------
(* Steps of the script and of a cancellation: the callers stand still.     *)

\* What such a step leaves to the callers.
Bystander ==
    /\ UNCHANGED <<order, call, spoiled>>
    /\ withdrawn \subseteq withdrawn' /\ withdrawn' \subseteq OrderIds
    /\ onceHere \subseteq onceHere' /\ onceHere' \subseteq OrderIds
    /\ version' \in Nat /\ version <= version'

LEMMA BystanderFacts ==
    ASSUME CasInv, Bystander
    PROVE  /\ CasType'
           /\ \A p \in OccIds : Snapshot(p)' /\ call[p].ver \in Nat /\ call[p].ver <= version
           /\ \A x : Clean(x)' <=> Clean(x)
           /\ \A p, x : CleanFor(p, x)' <=> CleanFor(p, x)
<1>0. CasType /\ BookType /\ version \in Nat
  BY DEF CasInv, BookType
<1>1. UNCHANGED <<order, call, spoiled>>
  BY DEF Bystander
<1>2. CasType'
  BY <1>0, <1>1 DEF CasType, Bystander
<1>3. \A p \in OccIds : Snapshot(p)'
  BY <1>0, <1>1, SnapshotKept DEF CasInv, Bystander
<1>4. \A p : PreWritten(p)' = PreWritten(p)
  BY <1>1, WriterKept
<1>5. \A p \in OccIds : call[p].ver \in Nat /\ call[p].ver <= version
  BY <1>0, CallFields DEF CasInv, Snapshot
<1>6. /\ \A x : Clean(x)' <=> Clean(x)
      /\ \A p, x : CleanFor(p, x)' <=> CleanFor(p, x)
  BY <1>1, <1>4 DEF Clean, CleanFor
<1> QED
  BY <1>2, <1>3, <1>5, <1>6

\* While the script runs, and when it has moved the version, nobody is up to date.
LEMMA BystanderStale ==
    ASSUME CasInv, Bystander, pc' = "walk" \/ version' = version + 1
    PROVE  \A p \in OccIds : ~Fresh(p)'
<1> SUFFICES ASSUME NEW p \in OccIds, Fresh(p)' PROVE FALSE
  OBVIOUS
<1>1. pc' = "idle" /\ call'[p].ver = version'
  BY DEF Fresh
<1>2. call[p].ver \in Nat /\ call[p].ver <= version /\ call'[p] = call[p] /\ version \in Nat
  BY BystanderFacts DEF Bystander, CasInv, BookType
<1> QED
  BY <1>1, <1>2

\* Otherwise they stay as up to date as they were.
LEMMA BystanderQuiet ==
    ASSUME CasInv, Bystander, UNCHANGED <<version, filled, pc>>,
           \A x \in OrderIds : Around(x) => Around(x)',
           \A x \in OrderIds : hash'[x] \in {hash[x], NoHash}
    PROVE  \A p \in OccIds : Fresh(p)' => UpToDate(p)'
<1> SUFFICES ASSUME NEW p \in OccIds, Fresh(p)' PROVE UpToDate(p)'
  OBVIOUS
<1>c. PICK c : c = call[p]
  OBVIOUS
<1>0. CasType /\ BookType /\ call'[p] = call[p] /\ order' = order /\ call'[p] = c /\ NoHash' = NoHash
  BY <1>c DEF CasInv, Bystander, NoHash
<1>1. Fresh(p) /\ UpToDate(p)
  BY <1>0 DEF Fresh, CasInv
<1>2. c.ids \in Seq(OrderIds) /\ c.orders \in Seq(EngineOrders)
  BY <1>0, <1>c, CallFields
<1>3. \A k \in DOMAIN c.ids : c.ids[k] \in OrderIds
  BY <1>2
<1>4. \A k \in DOMAIN c.orders : c.orders[k].id \in OrderIds
  <2> TAKE k \in DOMAIN c.orders
  <2>1. c.orders[k] \in EngineOrders
    BY <1>2
  <2> QED
    BY <2>1 DEF EngineOrders
<1>5. \A x : CleanFor(p, x)' <=> CleanFor(p, x)
  BY BystanderFacts
<1>6. /\ \A k \in DOMAIN c.ids : Around(c.ids[k])'
      /\ \A k \in DOMAIN c.orders :
            /\ Around(c.orders[k].id)'
            /\ CleanFor(p, c.orders[k].id)' =>
                  filled'[c.orders[k].id] + c.orders[k].remaining = order'[c.orders[k].id].qty
  BY <1>0, <1>1, <1>3, <1>4, <1>5, <1>c DEF UpToDate
<1>7. ASSUME c.step = "write", NEW k \in Upserts(p) \ Unwritten(p), NEW r, r = Touched(p)[k],
             CleanFor(p, r.id)'
      PROVE  hash'[r.id] \in {NoHash, [remaining |-> r.remaining, status |-> r.status]}
  <2>1. Writing(p)
    BY <1>7, <1>c, InvWriting
  <2>2. r.id \in OrderIds
    BY <1>7, <2>1, UpsertFacts
  <2>3. hash[r.id] \in {NoHash, [remaining |-> r.remaining, status |-> r.status]}
    BY <1>1, <1>5, <1>7, <1>c DEF UpToDate
  <2> QED
    BY <2>2, <2>3
<1>8. Touched(p)' = Touched(p) /\ Upserts(p)' = Upserts(p) /\ Unwritten(p)' = Unwritten(p)
  BY <1>0, WriterKept
<1> QED
  BY <1>0, <1>6, <1>7, <1>8 DEF UpToDate

LEMMA BystanderInv ==
    ASSUME CasInv, Bystander, BookType', Places', Ledger',
           \A p \in OccIds : Fresh(p)' => UpToDate(p)'
    PROVE  CasInv'
BY BystanderFacts DEF CasInv

\* An order the step does not trade.
LEMMA AccountedKept ==
    ASSUME CasInv, Bystander, NEW x \in OrderIds, Clean(x)', New(x)' => New(x),
           filled'[x] = filled[x], hash'[x] \in {hash[x], NoHash}
    PROVE  Accounted(x)'
<1>1. Accounted(x) /\ order' = order /\ NoHash' = NoHash
  BY BystanderFacts DEF CasInv, Ledger, Bystander, NoHash
<1> QED
  BY <1>1 DEF Accounted

\* Who is new does not depend on the script's steps before the last.
LEMMA NewKept ==
    ASSUME UNCHANGED <<call, reply>>
    PROVE  \A x : New(x)' <=> New(x)
BY DEF New

-------------------------------------------------------------------------------
(* Cancellation, and steps that change nothing.                            *)

LEMMA QuietKeeps ==
    ASSUME CasInv, Bystander, BookType', UNCHANGED <<version, filled, pc, onceHere>>, pc = "idle",
           cands' \subseteq cands,
           \A x \in OrderIds : New(x)' => New(x),
           \A s \in Sides : zset'[s] \subseteq zset[s],
           \A x \in OrderIds : Around(x) => Around(x)',
           \A x \in OrderIds : hash'[x] \in {hash[x], NoHash}
    PROVE  CasInv'
<1>1. \A p \in OccIds : Fresh(p)' => UpToDate(p)'
  BY BystanderQuiet
<1>2. Ledger'
  BY AccountedKept DEF Ledger
<1>3. Places'
  <2>1. Places /\ order' = order /\ pc' = "idle"
    BY DEF CasInv, Bystander
  <2> QED
    BY <2>1 DEF Places
<1> QED
  BY <1>1, <1>2, <1>3, BystanderInv

LEMMA ZsetNoted ==
    ASSUME Places, BookType', CasType, Note
    PROVE  /\ onceHere \subseteq onceHere' /\ onceHere' \subseteq OrderIds
           /\ \A s \in Sides : \A x \in zset'[s] : x \in onceHere'
           /\ \A x \in onceHere' : x \in onceHere \/ \E s \in Sides : x \in zset'[s]
<1>1. \A s \in Sides : zset'[s] \subseteq OrderIds
  BY DEF BookType
<1> QED
  BY <1>1 DEF Note, CasType

LEMMA CancellationKeeps ==
    ASSUME CasInv, Cancellation
    PROVE  CasInv'
<1>0. BookType /\ CasType
  BY DEF CasInv
<1>1. ASSUME NEW o \in OrderIds, RemoveZrem(o), withdrawn' = withdrawn \cup {o},
             UNCHANGED <<call, spoiled, onceHere>>
      PROVE  CasInv'
  <2>1. BookType'
    BY <1>0, <1>1, BookTypeNext DEF Next, Maintenance
  <2>2. /\ pc = "idle" /\ zset' = [zset EXCEPT ![order[o].side] = @ \ {o}]
        /\ UNCHANGED <<order, hash, version, reply, filled, pc, cands>>
    BY <1>1 DEF RemoveZrem, ZRem, history, script
  <2>3. Bystander
    BY <1>0, <1>1, <2>2 DEF Bystander, CasType, BookType
  <2>4. \A s \in Sides : zset'[s] \subseteq zset[s]
    BY <1>0, <2>2 DEF BookType
  <2>5. ASSUME NEW x \in OrderIds, Around(x) PROVE Around(x)'
    <3>1. CASE x = o
      BY <1>1, <3>1 DEF Around
    <3>2. CASE x # o
      <4>1. order[x].side \in Sides
        BY <1>0, OrderFields DEF BookType
      <4>2. x \in zset[order[x].side] => x \in zset'[order[x].side]
        BY <1>0, <2>2, <3>2, <4>1 DEF BookType
      <4> QED
        BY <1>1, <2>2, <2>5, <4>2 DEF Around
    <3> QED
      BY <3>1, <3>2
  <2>6. \A x : New(x)' <=> New(x)
    BY <1>1, <2>2, NewKept
  <2> QED
    BY <1>1, <2>1, <2>2, <2>3, <2>4, <2>5, <2>6, QuietKeeps
<1>2. ASSUME NEW o \in OrderIds, RemoveDel(o), UNCHANGED <<call, casHistory>>
      PROVE  CasInv'
  <2>1. BookType'
    BY <1>0, <1>2, BookTypeNext DEF Next, Maintenance
  <2>2. /\ pc = "idle" /\ hash' = [hash EXCEPT ![o] = NoHash]
        /\ UNCHANGED <<order, zset, version, reply, filled, pc, cands>>
        /\ UNCHANGED <<spoiled, onceHere, withdrawn>>
    BY <1>2 DEF RemoveDel, Del, history, script, casHistory
  <2>3. Bystander
    BY <1>0, <1>2, <2>2 DEF Bystander, CasType, BookType
  <2>4. \A x \in OrderIds : hash'[x] \in {hash[x], NoHash}
    BY <1>0, <2>2 DEF BookType
  <2>5. \A x : Around(x) => Around(x)'
    BY <2>2 DEF Around
  <2>6. \A x : New(x)' <=> New(x)
    BY <1>2, <2>2, NewKept
  <2> QED
    BY <2>1, <2>2, <2>3, <2>4, <2>5, <2>6, QuietKeeps
<1> QED
  BY <1>1, <1>2 DEF Cancellation

-------------------------------------------------------------------------------
(* The script.                                                             *)

LEMMA ScriptStep ==
    ASSUME CasInv, Scripted
    PROVE  /\ BookType' /\ UNCHANGED <<order, call, spoiled, withdrawn>>
           /\ onceHere \subseteq onceHere' /\ onceHere' \subseteq OrderIds
           /\ \A s \in Sides : \A x \in zset'[s] : x \in onceHere'
           /\ \A x \in onceHere' : x \in onceHere \/ \E s \in Sides : x \in zset'[s]
<1>1. Script
  BY DEF Scripted, Script
<1>2. BookType'
  BY <1>1, BookTypeNext DEF CasInv, Next
<1>3. order' = order
  BY <1>1 DEF Script, Reject, Begin, Visit, SkipGhost, LeaveLoop, CancelMaker, Trade, Finish
<1>4. Note /\ UNCHANGED <<call, spoiled, withdrawn>>
  BY DEF Scripted
<1> QED
  BY <1>2, <1>3, <1>4, ZsetNoted DEF CasInv

\* The parts of Places in which the script's steps differ.
LEMMA PlacesByParts ==
    ASSUME CasInv, Scripted,
           \A s \in Sides : \A x \in zset'[s] : x \in zset[s] \/ (x = taker /\ s = order[taker].side),
           cands' \subseteq onceHere,
           \A x \in OrderIds : New(x)' => /\ New(x)
                                          /\ \A s \in Sides : x \in zset'[s] => x \in zset[s]
                                          /\ filled'[x] = 0 \/ (pc' = "walk" /\ taker' = x),
           pc' = "walk" =>
             /\ taker' \notin OccIds /\ reply'[taker'] = NotSubmitted
             /\ filled'[taker'] + remaining' <= order'[taker'].qty
             /\ status' # "C" => filled'[taker'] + remaining' = order'[taker'].qty
    PROVE  Places'
<1>0. Places
  BY DEF CasInv
<1>1. \A s \in Sides : \A x \in zset'[s] : x \in onceHere' /\ order'[x].side = s
  BY <1>0, ScriptStep DEF Places
<1>2. cands' \subseteq onceHere'
  BY ScriptStep
<1>3. \A x \in OrderIds : New(x)' => x \notin onceHere'
  BY <1>0, ScriptStep DEF Places
<1> QED
  BY <1>1, <1>2, <1>3 DEF Places

LEMMA ScriptBystander ==
    ASSUME CasInv, Scripted, version' \in {version, version + 1}
    PROVE  Bystander
<1>1. version \in Nat /\ CasType
  BY DEF CasInv, BookType
<1> QED
  BY <1>1, ScriptStep DEF Bystander, CasType

LEMMA RejectKeeps ==
    ASSUME CasInv, Scripted, NEW o \in OrderIds \ OccIds, Reject(o)
    PROVE  CasInv'
<1>0. BookType /\ Places /\ CasType
  BY DEF CasInv
<1>1. /\ pc = "idle" /\ reply[o] = NotSubmitted /\ reply' = [reply EXCEPT ![o] = Rejected]
      /\ UNCHANGED <<order, zset, hash, version, filled, pc, cands>>
  BY DEF Reject, book, history, script
<1>2. Bystander /\ BookType' /\ call' = call
  BY <1>1, ScriptStep, ScriptBystander
<1>3. \A x \in OrderIds : New(x)' => New(x)
  <2>1. \A x \in OrderIds : x # o => reply'[x] = reply[x]
    BY <1>0, <1>1 DEF BookType
  <2> QED
    BY <1>1, <1>2, <2>1 DEF New
<1>4. onceHere' = onceHere
  <2>1. \A x \in onceHere' : x \in onceHere \/ \E s \in Sides : x \in zset[s]
    BY <1>1, ScriptStep
  <2>2. onceHere' \subseteq onceHere
    BY <1>0, <2>1 DEF Places
  <2> QED
    BY <2>2, ScriptStep
<1>5. \A x : Around(x) => Around(x)'
  BY <1>1, ScriptStep DEF Around
<1> QED
  BY <1>1, <1>2, <1>3, <1>4, <1>5, QuietKeeps

LEMMA BeginKeeps ==
    ASSUME CasInv, Scripted, NEW o \in OrderIds \ OccIds, Begin(o)
    PROVE  CasInv'
<1>0. BookType /\ Places /\ CasType
  BY DEF CasInv
<1>1. /\ pc = "idle" /\ reply[o] = NotSubmitted /\ pc' = "walk" /\ taker' = o
      /\ cands' = Fetch(o) /\ remaining' = order[o].qty
      /\ UNCHANGED <<order, zset, hash, version, reply, filled>>
  BY DEF Begin, book, history
<1>2. Bystander /\ BookType' /\ call' = call
  BY <1>1, ScriptStep, ScriptBystander
<1>3. \A x : New(x)' <=> New(x)
  BY <1>1, <1>2, NewKept
<1>4. New(o) /\ filled[o] = 0 /\ order[o].qty \in Nat
  <2>1. New(o)
    BY <1>1 DEF New
  <2> QED
    BY <1>0, <1>1, <2>1, OrderFields DEF Places, BookType
<1>5. cands' \subseteq onceHere
  <2>1. Opposite(order[o].side) \in Sides
    BY <1>0, OrderFields DEF BookType, Opposite, Sides
  <2>2. Fetch(o) \subseteq zset[Opposite(order[o].side)]
    BY DEF Fetch, Eligible
  <2> QED
    BY <1>0, <1>1, <2>1, <2>2 DEF Places
<1>6. \A x \in OrderIds : New(x)' => filled'[x] = 0
  BY <1>0, <1>1, <1>3 DEF Places
<1>7. filled'[o] + remaining' = order'[o].qty
  BY <1>1, <1>4
<1>8. filled'[o] + remaining' <= order'[o].qty
  BY <1>1, <1>4
<1>9. Places'
  BY <1>1, <1>3, <1>5, <1>6, <1>7, <1>8, PlacesByParts
<1>10. Ledger'
  BY <1>1, <1>2, <1>3, AccountedKept DEF Ledger
<1>11. \A p \in OccIds : ~Fresh(p)'
  BY <1>1, <1>2, BystanderStale
<1> QED
  BY <1>2, <1>9, <1>10, <1>11, BystanderInv

\* The running script's order is not on the book.
LEMMA TakerIsNotThere ==
    ASSUME CasInv, pc = "walk"
    PROVE  /\ taker \in OrderIds /\ taker \notin OccIds /\ New(taker) /\ taker \notin onceHere
           /\ filled[taker] + remaining <= order[taker].qty
           /\ status # "C" => filled[taker] + remaining = order[taker].qty
           /\ Clean(taker) => hash[taker] = NoHash
<1>1. taker \in OrderIds /\ taker \notin OccIds /\ reply[taker] = NotSubmitted
  BY DEF CasInv, BookType, Places
<1>2. New(taker)
  BY <1>1 DEF New
<1> QED
  BY <1>1, <1>2 DEF CasInv, Places, Ledger, Accounted

\* The steps of the loop that trade nothing.
LEMMA LookKeeps ==
    ASSUME CasInv, Scripted, NEW r \in OrderIds, SkipGhost(r) \/ LeaveLoop(r) \/ CancelMaker(r)
    PROVE  CasInv'
<1>0. BookType /\ Places /\ CasType
  BY DEF CasInv
<1>1. /\ pc = "walk" /\ pc' = "walk" /\ taker' = taker /\ cands' \subseteq cands
      /\ UNCHANGED <<order, version, reply, filled>>
  BY DEF SkipGhost, LeaveLoop, CancelMaker, AtCandidate, history
<1>2. \A s \in Sides : zset'[s] \subseteq zset[s]
  BY <1>0 DEF SkipGhost, LeaveLoop, CancelMaker, ZRem, BookType, book
<1>3. \A x \in OrderIds : hash'[x] \in {hash[x], NoHash}
  BY <1>0 DEF SkipGhost, LeaveLoop, CancelMaker, Del, BookType, book
<1>4. /\ remaining' \in {remaining, 0}
      /\ status' # "C" => remaining' = remaining /\ status # "C"
  BY DEF SkipGhost, LeaveLoop, CancelMaker
<1>5. Bystander /\ BookType' /\ call' = call
  BY <1>1, ScriptStep, ScriptBystander
<1>6. \A x : New(x)' <=> New(x)
  BY <1>1, <1>5, NewKept
<1>7. Places'
  <2>1. /\ taker \in OrderIds /\ taker \notin OccIds /\ reply[taker] = NotSubmitted
        /\ filled[taker] + remaining <= order[taker].qty
        /\ status # "C" => filled[taker] + remaining = order[taker].qty
    BY <1>0, <1>1 DEF Places, BookType
  <2>2. filled[taker] \in Nat /\ remaining \in Nat /\ order[taker].qty \in Nat
    BY <1>0, <2>1, OrderFields DEF BookType
  <2>3. filled[taker] + remaining' <= order[taker].qty
    BY <1>4, <2>1, <2>2
  <2>4. \A x \in OrderIds : New(x)' => filled'[x] = 0 \/ (pc' = "walk" /\ taker' = x)
    BY <1>0, <1>1, <1>6 DEF Places
  <2>5. cands' \subseteq onceHere
    BY <1>0, <1>1 DEF Places
  <2> QED
    BY <1>1, <1>2, <1>4, <1>6, <2>1, <2>3, <2>4, <2>5, PlacesByParts
<1>8. Ledger'
  BY <1>1, <1>3, <1>5, <1>6, AccountedKept DEF Ledger
<1>9. \A p \in OccIds : ~Fresh(p)'
  BY <1>1, <1>5, BystanderStale
<1> QED
  BY <1>5, <1>7, <1>8, <1>9, BystanderInv

LEMMA TradeKeeps ==
    ASSUME CasInv, Scripted, NEW r \in OrderIds, Trade(r)
    PROVE  CasInv'
<1>0. BookType /\ Places /\ CasType
  BY DEF CasInv
<1>1. /\ pc = "walk" /\ pc' = "walk" /\ taker' = taker /\ cands' \subseteq cands /\ r \in cands
      /\ remaining' = remaining - Fill(r) /\ status' = status
      /\ UNCHANGED <<order, version, reply>> /\ AtCandidate(r)
  BY DEF Trade, AtCandidate
<1>2. Live(r)
  BY OutcomeLive DEF Trade
<1>3. Fill(r) \in Nat /\ Fill(r) <= remaining /\ Fill(r) <= hash[r].remaining
  BY <1>0, <1>1, <1>2, FillBounds
<1>4. /\ taker \in OrderIds /\ taker \notin OccIds /\ New(taker) /\ taker \notin onceHere
      /\ filled[taker] + remaining <= order[taker].qty
      /\ status # "C" => filled[taker] + remaining = order[taker].qty
      /\ Clean(taker) => hash[taker] = NoHash
  BY <1>1, TakerIsNotThere
<1>5. r \in onceHere /\ r # taker /\ ~New(r)
  BY <1>0, <1>1, <1>4 DEF Places
<1>6. \A x \in OrderIds :
        filled'[x] = IF x = taker \/ x = r THEN filled[x] + Fill(r) ELSE filled[x]
  BY <1>0, <1>4, <1>5 DEF Trade, BookType
<1>7. \A s \in Sides : zset'[s] \subseteq zset[s]
  BY <1>0, ZRemShrinks DEF Trade, BookType
<1>8. \A x \in OrderIds : filled[x] \in Nat /\ order[x].qty \in Nat /\ hash[x].remaining \in Nat
  BY <1>0, OrderFields, HashRemaining DEF BookType
<1>9. /\ hash'[r] = NoHash \/ hash'[r].remaining = hash[r].remaining - Fill(r)
      /\ \A x \in OrderIds : x # r => hash'[x] = hash[x]
  <2>h. hash \in [OrderIds -> HashType]
    BY <1>0 DEF BookType
  <2>1. CASE hash[r].remaining - Fill(r) <= 0
    <3>1. hash' = [hash EXCEPT ![r] = NoHash]
      BY <2>1 DEF Trade, Del
    <3> QED
      BY <2>h, <3>1
  <2>2. CASE ~(hash[r].remaining - Fill(r) <= 0)
    <3>1. hash' = [hash EXCEPT ![r] = [remaining |-> hash[r].remaining - Fill(r),
                                        status |-> "PF"]]
      BY <2>2 DEF Trade
    <3> QED
      BY <2>h, <3>1
  <2> QED
    BY <2>1, <2>2
<1>10. Bystander /\ BookType' /\ call' = call
  BY <1>1, ScriptStep, ScriptBystander
<1>11. \A x : New(x)' <=> New(x)
  BY <1>1, <1>10, NewKept
<1>12. /\ filled'[taker] + remaining' <= order[taker].qty
       /\ status # "C" => filled'[taker] + remaining' = order[taker].qty
  <2>1. filled'[taker] = filled[taker] + Fill(r) /\ remaining \in Nat
    BY <1>0, <1>4, <1>6 DEF BookType
  <2>2. filled'[taker] + remaining' = filled[taker] + remaining
    BY <1>1, <1>3, <1>4, <1>8, <2>1
  <2> QED
    BY <1>4, <2>2
<1>13. Places'
  <2>1. reply[taker] = NotSubmitted
    BY <1>0, <1>1 DEF Places
  <2>2. ASSUME NEW x \in OrderIds, New(x)' PROVE filled'[x] = 0 \/ (pc' = "walk" /\ taker' = x)
    <3>1. x # r /\ New(x)
      BY <1>5, <1>11, <2>2
    <3> QED
      BY <1>0, <1>1, <1>6, <3>1 DEF Places
  <2>3. cands' \subseteq onceHere
    BY <1>0, <1>1 DEF Places
  <2> QED
    BY <1>1, <1>4, <1>7, <1>11, <1>12, <2>1, <2>2, <2>3, PlacesByParts
<1>14. ASSUME NEW x \in OrderIds, Clean(x)' PROVE Accounted(x)'
  <2>0. Clean(x) /\ NoHash' = NoHash
    BY <1>10, <1>14, BystanderFacts DEF NoHash
  <2>1. CASE x = r
    <3>1. hash[r] # NoHash
      BY <1>2, NoHashType DEF Live
    <3>2. filled[r] + hash[r].remaining = order[r].qty
      BY <2>0, <2>1, <3>1 DEF CasInv, Ledger, Accounted
    <3>3. filled'[r] = filled[r] + Fill(r)
      BY <1>6
    <3>4. filled'[r] <= order[r].qty
      BY <1>3, <1>8, <3>2, <3>3
    <3>5. hash'[r] # NoHash => filled'[r] + hash'[r].remaining = order[r].qty
      BY <1>3, <1>8, <1>9, <3>2, <3>3
    <3> QED
      BY <1>1, <1>5, <1>11, <2>0, <2>1, <3>4, <3>5 DEF Accounted
  <2>2. CASE x = taker
    <3>1. hash'[taker] = NoHash
      BY <1>4, <1>5, <1>9, <2>0, <2>2
    <3>2. filled'[taker] <= order[taker].qty
      <4>1. filled'[taker] \in Nat /\ remaining' \in Nat
        BY <1>4, <1>10 DEF BookType
      <4> QED
        BY <1>4, <1>8, <1>12, <4>1
    <3> QED
      BY <1>1, <2>0, <2>2, <3>1, <3>2 DEF Accounted
  <2>3. CASE x # r /\ x # taker
    <3>1. filled'[x] = filled[x] /\ hash'[x] = hash[x]
      BY <1>6, <1>9, <2>3
    <3> QED
      BY <1>10, <1>11, <1>14, <3>1, AccountedKept
  <2> QED
    BY <2>1, <2>2, <2>3
<1>15. Ledger'
  BY <1>14 DEF Ledger
<1>16. \A p \in OccIds : ~Fresh(p)'
  BY <1>1, <1>10, BystanderStale
<1> QED
  BY <1>10, <1>13, <1>15, <1>16, BystanderInv

LEMMA FinishKeeps ==
    ASSUME CasInv, Scripted, Finish
    PROVE  CasInv'
<1>0. BookType /\ Places /\ CasType
  BY DEF CasInv
<1>1. /\ pc = "walk" /\ pc' = "idle" /\ cands' = {} /\ version' = version + 1
      /\ UNCHANGED <<order, filled>>
  BY DEF Finish, history
<1>2. /\ taker \in OrderIds /\ taker \notin OccIds /\ New(taker) /\ taker \notin onceHere
      /\ filled[taker] + remaining <= order[taker].qty
      /\ status # "C" => filled[taker] + remaining = order[taker].qty
      /\ Clean(taker) => hash[taker] = NoHash
  BY <1>1, TakerIsNotThere
<1>3. \A x \in OrderIds : x # taker => reply'[x] = reply[x] /\ hash'[x] = hash[x]
  BY <1>0, <1>2 DEF Finish, BookType, book
<1>4. reply'[taker] # NotSubmitted
  <2>1. reply'[taker] = [remaining |-> remaining, status |-> FinalStatus]
    BY <1>0, <1>2 DEF Finish, BookType
  <2> QED
    BY <1>0, <1>1, <2>1, FinalReply
<1>5. \A s \in Sides : \A x \in zset'[s] : x \in zset[s] \/ (x = taker /\ s = order[taker].side)
  BY <1>0 DEF Finish, BookType, book
<1>6. \/ hash'[taker] = hash[taker]
      \/ Rests /\ hash'[taker].remaining = remaining
  BY <1>0, <1>2 DEF Finish, BookType, book
<1>7. Bystander /\ BookType' /\ call' = call
  BY <1>1, ScriptStep, ScriptBystander
<1>8. \A x \in OrderIds : New(x)' => New(x) /\ x # taker
  BY <1>2, <1>3, <1>4, <1>7 DEF New
<1>9. Places'
  <2>1. \A x \in OrderIds : New(x)' => filled'[x] = 0
    BY <1>0, <1>1, <1>8 DEF Places
  <2>2. \A x \in OrderIds : New(x)' => \A s \in Sides : x \in zset'[s] => x \in zset[s]
    BY <1>5, <1>8
  <2> QED
    BY <1>1, <1>5, <1>8, <2>1, <2>2, PlacesByParts
<1>10. ASSUME NEW x \in OrderIds, Clean(x)' PROVE Accounted(x)'
  <2>0. Clean(x) /\ NoHash' = NoHash
    BY <1>7, <1>10, BystanderFacts DEF NoHash
  <2>1. CASE x = taker
    <3>1. filled[taker] \in Nat /\ remaining \in Nat /\ order[taker].qty \in Nat
      BY <1>0, <1>2, OrderFields DEF BookType
    <3>2. filled[taker] <= order[taker].qty
      BY <1>2, <3>1
    <3>3. hash'[taker] # NoHash => filled[taker] + hash'[taker].remaining = order[taker].qty
      <4>1. Rests => status # "C"
        BY <1>0, <1>1, FinalReply
      <4> QED
        BY <1>2, <1>6, <2>0, <2>1, <4>1
    <3> QED
      BY <1>1, <1>8, <2>0, <2>1, <3>2, <3>3 DEF Accounted
  <2>2. CASE x # taker
    BY <1>1, <1>3, <1>7, <1>8, <1>10, <2>2, AccountedKept
  <2> QED
    BY <2>1, <2>2
<1>11. Ledger'
  BY <1>10 DEF Ledger
<1>12. \A p \in OccIds : ~Fresh(p)'
  BY <1>1, <1>7, BystanderStale
<1> QED
  BY <1>7, <1>9, <1>11, <1>12, BystanderInv

LEMMA ScriptedKeeps ==
    ASSUME CasInv, Scripted
    PROVE  CasInv'
BY RejectKeeps, BeginKeeps, LookKeeps, TradeKeeps, FinishKeeps DEF Scripted, Visit

-------------------------------------------------------------------------------
(* The theorems.                                                           *)

LEMMA CasInvInit == CasInit => CasInv
<1> SUFFICES ASSUME CasInit PROVE CasInv
  OBVIOUS
<1>1. Init /\ BookType
  BY BookTypeInit DEF CasInit
<1>2. /\ zset = [s \in Sides |-> {}] /\ hash = [o \in OrderIds |-> NoHash]
      /\ reply = [o \in OrderIds |-> NotSubmitted] /\ filled = [o \in OrderIds |-> 0]
      /\ cands = {} /\ pc = "idle" /\ version = 0
      /\ call = [o \in OccIds |-> NoCall] /\ spoiled = {} /\ onceHere = {} /\ withdrawn = {}
  BY DEF CasInit, Init
<1>3. /\ NoCall.step = "new" /\ NoCall.ver = 0 /\ NoCall.ids = <<>> /\ NoCall.orders = <<>>
      /\ NoCall.written = 0 /\ DOMAIN <<>> = {}
  BY DEF NoCall
<1>4. CasType
  <2>1. "new" \in Steps /\ 0 \in Nat
    BY DEF Steps
  <2>2. <<>> \in Seq(OrderIds) /\ <<>> \in Seq(EngineOrders) /\ <<>> \in Seq(MatchResults)
    OBVIOUS
  <2>3. NoCall \in CallType
    BY <2>1, <2>2 DEF NoCall, CallType
  <2> QED
    BY <1>2, <2>3 DEF CasType
<1>5. \A o \in OccIds : Snapshot(o) /\ UpToDate(o)
  BY <1>2, <1>3 DEF Snapshot, UpToDate
<1>6. Places
  BY <1>2 DEF Places
<1>7. Ledger
  <2>1. \A x \in OrderIds : order[x].qty \in Nat
    BY <1>1, OrderFields DEF BookType
  <2> QED
    BY <1>2, <2>1 DEF Ledger, Accounted
<1> QED
  BY <1>1, <1>4, <1>5, <1>6, <1>7 DEF CasInv

LEMMA CasInvStutter ==
    ASSUME CasInv, UNCHANGED casVars
    PROVE  CasInv'
<1>1. /\ UNCHANGED <<order, zset, hash, version, reply, filled, trades, cut, pc, taker, cands, remaining,
                     status, dropping, sweepList, sweepGone, unanswered>>
      /\ UNCHANGED <<call, spoiled, onceHere, withdrawn>>
  BY DEF casVars, casHistory, vars, book, history, script, sweep
<1>2. BookType /\ Places /\ Ledger /\ CasType
  BY DEF CasInv
<1>3. Bystander
  BY <1>1, <1>2 DEF Bystander, CasType, BookType
<1>4. BookType'
  BY <1>1, <1>2 DEF BookType
<1>5. \A x : New(x)' <=> New(x)
  BY <1>1, NewKept
<1>6. Ledger'
  BY <1>1, <1>3, <1>5, AccountedKept DEF Ledger
<1>7. Places'
  <2>1. NotSubmitted' = NotSubmitted
    BY DEF NotSubmitted
  <2> QED
    BY <1>1, <1>2, <1>5, <2>1 DEF Places
<1>8. \A p \in OccIds : Fresh(p)' => UpToDate(p)'
  <2>1. \A x : Around(x)' <=> Around(x)
    BY <1>1 DEF Around
  <2> QED
    BY <1>1, <1>3, <2>1, BystanderQuiet
<1> QED
  BY <1>3, <1>4, <1>6, <1>7, <1>8, BystanderInv

LEMMA CasInvNext ==
    ASSUME CasInv, [CasNext]_casVars
    PROVE  CasInv'
<1>1. ASSUME NEW o \in OccIds, Caller(o) \/ GiveUp(o) PROVE CasInv'
  BY <1>1, LockFundsKeeps, LetGoKeeps, LoadIdsKeeps, LoadOrderKeeps, MatchedKeeps, PreWriteKeeps,
     CommitKeeps, UnlockKeeps DEF Caller
<1> QED
  BY <1>1, ScriptedKeeps, CancellationKeeps, CasInvStutter DEF CasNext

LEMMA CasInvHolds == CasSpec => []CasInv
<1>1. CasInv /\ [CasNext]_casVars => CasInv'
  BY CasInvNext
<1> QED
  BY <1>1, CasInvInit, PTL DEF CasSpec

\* Whatever book a caller has loaded, match_order of engine.rs trades exactly what
\* price-time priority, the self-trade mode and the FOK pre-check allow, and what it
\* reports of the incoming order agrees with the trades, also when the order is killed
\* and nothing is written.
THEOREM EngineTradesByReference == CasSpec => []EngineMeetsReference
<1>1. CasInv => EngineMeetsReference
  <2> SUFFICES ASSUME CasInv, NEW o \in OccIds, call[o].step = "load"
               PROVE  LET res == match_order(Incoming(o), call[o].orders)
                      IN  /\ res.trades = ReferenceTrades(Incoming(o), call[o].orders)
                          /\ res.incoming.remaining + FillOf(res.trades, o) = order[o].qty
    BY DEF EngineMeetsReference
  <2>0. PICK res : res = match_order(Incoming(o), call[o].orders)
    OBVIOUS
  <2>1. BookType /\ CasType /\ Snapshot(o) /\ o \in OrderIds /\ o \notin onceHere
    BY OccAssumption DEF CasInv, Places, New
  <2>2. Incoming(o).id = o /\ Incoming(o).remaining = order[o].qty
    BY <2>1, IncomingType DEF BookType
  <2>3. /\ res \in MatchResults
        /\ IsFiniteSet(res.trades)
        /\ FillOf(res.trades, o) + res.incoming.remaining = order[o].qty
        /\ res.trades = ReferenceTrades(Incoming(o), call[o].orders)
    <3>1. EngineInput(Incoming(o), call[o].orders)
      BY <2>1, SnapshotInput
    <3> QED
      BY <2>0, <2>2, <3>1, MatchOrderFacts DEF WalkType, Balanced
  <2>4. FillOf(res.trades, o) \in Nat /\ res.incoming.remaining \in Nat
    BY <2>3, FillOfNat DEF MatchResults, EngineOrders
  <2>5. res.incoming.remaining + FillOf(res.trades, o) = order[o].qty
    BY <2>3, <2>4
  <2> QED
    BY <2>0, <2>3, <2>5
<1> QED
  BY <1>1, CasInvHolds, PTL

\* The version check of the CAS script protects every order whose hash was not
\* overwritten by an attempt that has not committed: none of them is filled beyond its
\* quantity, and on the book none of their quantity is lost.
THEOREM VersionProtectsFills == CasSpec => []CleanAccounted
<1>1. CasInv => CleanAccounted
  <2> SUFFICES ASSUME CasInv, NEW x \in OrderIds,
                      x \notin spoiled \cup UNION {PreWritten(o) : o \in OccIds}
               PROVE  /\ filled[x] <= order[x].qty
                      /\ Live(x) => filled[x] + hash[x].remaining = order[x].qty
    BY DEF CleanAccounted
  <2>1. Clean(x)
    BY DEF Clean
  <2>2. Accounted(x)
    BY <2>1 DEF CasInv, Ledger
  <2>3. Live(x) => hash[x] # NoHash
    BY NoHashType DEF Live
  <2> QED
    BY <2>2, <2>3 DEF Accounted
<1> QED
  BY <1>1, CasInvHolds, PTL

\* Only the CAS and the end of the script place an order.
LEMMA PlacedAnew ==
    ASSUME CasInv, [CasNext]_casVars, NEW x \in OrderIds, NEW s \in Sides,
           x \in zset'[s], x \notin zset[s], x \in onceHere
    PROVE  x \in withdrawn
<1>0. BookType /\ Places /\ CasType
  BY DEF CasInv
<1>1. ASSUME NEW o \in OccIds, Commit(o) PROVE x \in withdrawn
  <2>1. Writing(o) /\ Fresh(o) /\ UpToDate(o) /\ call[o].step = "write"
    BY <1>1, CommitStep DEF CasInv, Writing
  <2>2. x \in Kept(o) /\ order[x].side = s
    BY <1>1, CommitStep
  <2>3. x \in ChangedIds(o)
    BY <2>1, <2>2, CommitIds
  <2>4. PICK m \in DOMAIN Result(o).book_updates : x = Result(o).book_updates[m].id
    BY <2>3 DEF ChangedIds
  <2>5. PICK j \in DOMAIN call[o].orders : x = call[o].orders[j].id
    <3>1. \E j \in DOMAIN call[o].orders : Result(o).book_updates[m].id = call[o].orders[j].id
      BY <2>1, ChangedRow
    <3> QED
      BY <2>4, <3>1
  <2>6. Around(x)
    BY <2>1, <2>5 DEF UpToDate
  <2> QED
    BY <2>2, <2>6 DEF Around
<1>2. ASSUME Scripted PROVE FALSE
  <2>1. ASSUME Finish PROVE FALSE
    <3>1. x = taker /\ pc = "walk"
      BY <1>0, <2>1 DEF Finish, BookType, book
    <3> QED
      BY <3>1, TakerIsNotThere
  <2>2. CASE \E r \in OrderIds : Visit(r)
    <3>1. zset'[s] \subseteq zset[s]
      BY <1>0, <2>2 DEF Visit, SkipGhost, LeaveLoop, CancelMaker, Trade, ZRem, BookType, book
    <3> QED
      BY <3>1
  <2>3. CASE \E o \in OrderIds \ OccIds : Reject(o) \/ Begin(o)
    BY <2>3 DEF Reject, Begin, book
  <2> QED
    BY <1>2, <2>1, <2>2, <2>3 DEF Scripted
<1>3. ASSUME Cancellation PROVE FALSE
  <2>1. zset'[s] \subseteq zset[s]
    BY <1>0, <1>3 DEF Cancellation, RemoveZrem, RemoveDel, ZRem, BookType
  <2> QED
    BY <2>1
<1>4. ASSUME NEW o \in OccIds, Caller(o) \/ GiveUp(o), ~Commit(o) PROVE FALSE
  <2>1. zset' = zset
    BY <1>4 DEF Caller, GiveUp, LockFunds, LoadVersion, LoadIds, LoadOrder, Matched, PreWrite,
       Conflict, UnlockAvailable, UnlockLocked, vars, book
  <2> QED
    BY <2>1
<1>5. ASSUME UNCHANGED casVars PROVE FALSE
  BY <1>5 DEF casVars, vars, book
<1> QED
  BY <1>1, <1>2, <1>3, <1>4, <1>5 DEF CasNext

\* An order that was filled or cancelled by self-trade prevention is never placed
\* again, by the script or by a late write of a caller.
THEOREM NothingComesBack == CasSpec => NoResurrection
<1>1. CasInv /\ [CasNext]_casVars
        => [\A x \in OrderIds : \A s \in Sides :
              (x \in zset'[s] /\ x \notin zset[s] /\ x \in onceHere) => x \in withdrawn]_casVars
  BY PlacedAnew
<1> QED
  BY <1>1, CasInvHolds, PTL DEF CasSpec, NoResurrection

-------------------------------------------------------------------------------
(* Fill or kill, over all attempts.                                        *)

\* Prices as the exchange means them; no code enforces it.
PositivePrices == \A q \in Requests : q.type = "L" => q.price > 0

MeetsNobody(o) ==
    order[o].stp = "N" \/ \A x \in OrderIds \ {o} : order[x].user # order[o].user

\* A fill-or-kill order is never on the book, so it trades in its own match only.
FokInv ==
    \A o \in FokIds :
        /\ o \notin onceHere
        /\ MeetsNobody(o) => filled[o] \in {0, order[o].qty}

\* What a limit order lists crosses its price, unless it has none; and an order without
\* a price is listed first or not at all.
LEMMA ListedCrosses ==
    ASSUME PositivePrices, BookType, CasType, NEW o \in OccIds, Snapshot(o)
    PROVE  LET rs == call[o].orders
           IN  \/ \A k \in DOMAIN rs : price_matches(Incoming(o), rs[k])
               \/ 1 \in DOMAIN rs /\ ~price_matches(Incoming(o), rs[1])
<1>i. PICK i : i = Incoming(o)
  OBVIOUS
<1>r. PICK rs : rs = call[o].orders
  OBVIOUS
<1>0. order \in [OrderIds -> Requests] /\ o \in OrderIds
  BY OccAssumption DEF BookType
<1>1. i.type = order[o].type /\ i.side = order[o].side /\ i.price = order[o].price
  BY <1>0, <1>i, IncomingType
<1>2. /\ order[o].type \in {"L", "M"} /\ order[o].side \in Sides /\ order[o].price \in Int
      /\ order[o].type = "L" => order[o].price > 0
  BY <1>0, OrderFields DEF PositivePrices
<1>3. rs \in Seq(EngineOrders) /\ \A k \in DOMAIN rs : k \in Nat /\ k >= 1 /\ 1 \in DOMAIN rs
  <2>1. rs \in Seq(EngineOrders)
    BY <1>r, CallFields
  <2> QED
    BY <2>1
<1>4. ASSUME NEW k \in DOMAIN rs
      PROVE  LET x == rs[k].id
             IN  /\ x \in OrderIds /\ rs[k].type = order[x].type /\ rs[k].price = order[x].price
                 /\ order[x].side = Opposite(order[o].side) /\ WithinBound(o, x)
                 /\ order[x].type \in {"L", "M"} /\ order[x].price \in Int
                 /\ order[x].type = "M" => order[x].price = 0
                 /\ order[x].type = "L" => order[x].price > 0
  <2>x. PICK x : x = rs[k].id
    OBVIOUS
  <2>1. Seen(o, x) /\ rs[k] = AsOrder(x, order[x].tif, rs[k].remaining, rs[k].status)
    BY <1>r, <2>x, SnapshotRows
  <2>2. x \in OrderIds /\ order[x].side = Opposite(order[o].side) /\ WithinBound(o, x)
    BY <2>1 DEF Seen, CasType
  <2>3. rs[k].type = order[x].type /\ rs[k].price = order[x].price
    BY <2>1 DEF AsOrder
  <2>4. order[x] \in Requests /\ order[x].type \in {"L", "M"} /\ order[x].price \in Int
    BY <1>0, <2>2, OrderFields
  <2>5. /\ order[x].type = "M" => order[x].price = 0
        /\ order[x].type = "L" => order[x].price > 0
    BY <2>4, RequestsAssumption DEF PositivePrices
  <2> QED
    BY <2>2, <2>3, <2>4, <2>5, <2>x
<1>5. CASE i.type = "M"
  BY <1>5, <1>i, <1>r DEF price_matches
<1>6. CASE i.type = "L" /\ \A k \in DOMAIN rs : rs[k].type = "L"
  <2>1. ASSUME NEW k \in DOMAIN rs PROVE price_matches(i, rs[k])
    <3>x. PICK x : x = rs[k].id
      OBVIOUS
    <3>1. /\ rs[k].price = order[x].price /\ order[x].price \in Int /\ order[x].price > 0
          /\ order[x].side = Opposite(order[o].side) /\ WithinBound(o, x)
      BY <1>4, <1>6, <3>x
    <3>2. CASE order[o].side = "B"
      <4>1. order[x].side = "S" /\ order[x].price <= order[o].price
        BY <1>1, <1>6, <3>1, <3>2 DEF Opposite, WithinBound, Score
      <4> QED
        BY <1>1, <1>2, <3>1, <3>2, <4>1 DEF price_matches
    <3>3. CASE order[o].side = "S"
      <4>1. order[x].side = "B" /\ -order[x].price <= -order[o].price
        BY <1>1, <1>6, <3>1, <3>3 DEF Opposite, WithinBound, Score
      <4>2. order[o].price <= order[x].price
        BY <1>2, <3>1, <4>1
      <4> QED
        BY <1>1, <3>1, <3>3, <4>2 DEF price_matches
    <3> QED
      BY <1>2, <3>2, <3>3 DEF Sides
  <2> QED
    BY <2>1, <1>i, <1>r
<1>7. ASSUME i.type = "L", NEW k \in DOMAIN rs, rs[k].type # "L"
      PROVE  1 \in DOMAIN rs /\ ~price_matches(i, rs[1])
  <2>x. PICK x : x = rs[k].id
    OBVIOUS
  <2>y. PICK y : y = rs[1].id
    OBVIOUS
  <2>1. 1 \in DOMAIN rs /\ k \in Nat /\ k >= 1
    BY <1>3
  <2>2. /\ order[x].price = 0 /\ order[x].side = Opposite(order[o].side) /\ WithinBound(o, x)
    BY <1>4, <1>7, <2>x
  <2>3. /\ rs[1].price = order[y].price /\ order[y].price \in Int
        /\ order[y].side = Opposite(order[o].side) /\ order[y].price >= 0
    BY <1>4, <2>1, <2>y
  <2>4. order[o].side # "S"
    <3> SUFFICES ASSUME order[o].side = "S" PROVE FALSE
      OBVIOUS
    <3>1. order[x].side = "B" /\ -order[x].price <= -order[o].price
      BY <1>1, <1>7, <2>2 DEF Opposite, WithinBound, Score
    <3> QED
      BY <1>1, <1>2, <1>7, <2>2, <3>1
  <2>5. order[x].side = "S" /\ order[y].side = "S"
    BY <1>2, <2>2, <2>3, <2>4 DEF Sides, Opposite
  <2>6. CASE k = 1
    BY <1>1, <1>7, <2>1, <2>2, <2>3, <2>6, <2>x, <2>y DEF price_matches
  <2>7. CASE k # 1
    <3>1. 1 < k
      BY <2>1, <2>7
    <3>2. Before(y, x)
      BY <1>7, <1>r, <2>1, <2>x, <2>y, <3>1 DEF Snapshot
    <3>3. Score(x) = 0 /\ Score(y) = order[y].price
      BY <2>2, <2>5 DEF Score
    <3>4. rs[1].price = 0
      BY <2>3, <3>2, <3>3 DEF Before
    <3> QED
      BY <1>7, <2>1, <3>4 DEF price_matches
  <2> QED
    BY <2>6, <2>7
<1> QED
  BY <1>1, <1>2, <1>5, <1>6, <1>7, <1>i, <1>r

LEMMA FokFill ==
    ASSUME PositivePrices, CasInv, NEW o \in FokIds, call[o].step = "write"
    PROVE  /\ ~Rest(Result(o))
           /\ MeetsNobody(o) => FillOf(Result(o).trades, o) \in {0, order[o].qty}
<1>0. o \in OccIds /\ o \in OrderIds
  BY OccAssumption
<1>1. Writing(o) /\ BookType /\ CasType /\ Snapshot(o) /\ o \notin onceHere
  BY <1>0, InvWriting DEF Writing
<1>i. PICK i : i = Incoming(o)
  OBVIOUS
<1>r. PICK rs : rs = call[o].orders
  OBVIOUS
<1>2. i.tif = "F" /\ i.id = o /\ i.remaining = order[o].qty /\ i.user = order[o].user /\ i.stp = order[o].stp
  BY <1>0, <1>1, <1>i, IncomingType DEF BookType
<1>3. EngineInput(i, rs) /\ Result(o) = match_order(i, rs)
  BY <1>1, <1>i, <1>r, ResultFacts
<1>4. ~Rest(Result(o))
  BY <1>1, <1>2, <1>i, ResultFacts DEF EffectiveTif
<1>5. ASSUME MeetsNobody(o) PROVE FillOf(Result(o).trades, o) \in {0, order[o].qty}
  <2>1. \A k \in DOMAIN rs : i.stp = "N" \/ rs[k].user # i.user
    <3> TAKE k \in DOMAIN rs
    <3>x. PICK x : x = rs[k].id
      OBVIOUS
    <3>1. Seen(o, x) /\ rs[k] = AsOrder(x, order[x].tif, rs[k].remaining, rs[k].status)
      BY <1>0, <1>1, <1>r, <3>x, SnapshotRows
    <3>2. x \in OrderIds \ {o} /\ rs[k].user = order[x].user
      <4>1. x \in onceHere
        BY <3>1 DEF Seen
      <4>2. x \in OrderIds \ {o}
        BY <1>1, <4>1 DEF CasType
      <4>3. rs[k].user = order[x].user
        BY <3>1 DEF AsOrder
      <4> QED
        BY <4>2, <4>3
    <3> QED
      BY <1>2, <1>5, <3>2 DEF MeetsNobody
  <2>2. \/ \A k \in DOMAIN rs : price_matches(i, rs[k])
        \/ 1 \in DOMAIN rs /\ ~price_matches(i, rs[1])
    BY <1>0, <1>1, <1>i, <1>r, ListedCrosses
  <2>3. FillOf(match_order(i, rs).trades, i.id) \in {0, i.remaining}
    BY <1>2, <1>3, <2>1, <2>2, FokFacts
  <2> QED
    BY <1>2, <1>3, <2>3
<1> QED
  BY <1>4, <1>5

\* Fills and places change only where FokInv looks.
LEMMA FokKept ==
    ASSUME FokInv, order' = order, \A o \in FokIds : filled'[o] = filled[o] /\ (o \in onceHere' => o \in onceHere)
    PROVE  FokInv'
BY DEF FokInv, MeetsNobody

LEMMA FokNext ==
    ASSUME PositivePrices, CasInv, FokInv, [CasNext]_casVars
    PROVE  FokInv'
<1>0. BookType /\ CasType /\ Places /\ FokIds \subseteq OccIds /\ FokIds \subseteq OrderIds
  BY OccAssumption DEF CasInv
<1>1. ASSUME NEW p \in OccIds, Commit(p) PROVE FokInv'
  <2>0. Writing(p) /\ New(p) /\ call[p].step = "write" /\ order' = order /\ filled[p] = 0
    <3>1. Writing(p) /\ New(p) /\ order' = order /\ pc = "idle" /\ p \in OrderIds
      BY <1>1, CommitStep DEF Fresh
    <3> QED
      BY <1>0, <3>1 DEF Writing, Places
  <2>1. ASSUME NEW o \in FokIds
        PROVE  o \notin onceHere' /\ (MeetsNobody(o)' => filled'[o] \in {0, order'[o].qty})
    <3>1. o \in OrderIds /\ o \notin onceHere /\ (MeetsNobody(o) => filled[o] \in {0, order[o].qty})
      BY <1>0 DEF FokInv
    <3>2. filled'[o] = filled[o] + FillOf(Result(p).trades, o)
      BY <1>1, <3>1, CommitStep
    <3>3. o \notin Kept(p)
      <4>1. CASE o = p
        <5>1. ~Rest(Result(o))
          BY <2>0, <4>1, FokFill
        <5> QED
          BY <2>0, <4>1, <5>1, CommitIds
      <4>2. CASE o # p
        BY <2>0, <3>1, <4>2, CommitIds
      <4> QED
        BY <4>1, <4>2
    <3>4. o \notin onceHere'
      <4>1. \A s \in Sides : o \notin zset[s]
        BY <1>0, <3>1 DEF Places
      <4>2. \A s \in Sides : o \notin zset'[s]
        BY <1>1, <3>3, <4>1, CommitStep
      <4> QED
        BY <1>1, <3>1, <4>2, CommitStep
    <3>5. MeetsNobody(o)' <=> MeetsNobody(o)
      BY <2>0 DEF MeetsNobody
    <3>6. CASE o = p
      <4>1. MeetsNobody(o) => FillOf(Result(o).trades, o) \in {0, order[o].qty}
        BY <2>0, <3>6, FokFill
      <4>2. order[o].qty \in Nat
        BY <1>0, <3>1, OrderFields DEF BookType
      <4>3. MeetsNobody(o) => filled'[o] \in {0, order[o].qty}
        BY <2>0, <3>2, <3>6, <4>1, <4>2
      <4> QED
        BY <2>0, <3>4, <3>5, <4>3
    <3>7. CASE o # p
      <4>1. o \notin ChangedIds(p)
        BY <2>0, <3>1, CommitIds
      <4>2. FillOf(Result(p).trades, o) = 0
        BY <2>0, <3>7, <4>1, CommitIds
      <4>3. filled'[o] = filled[o]
        BY <1>0, <3>1, <3>2, <4>2 DEF BookType
      <4> QED
        BY <2>0, <3>1, <3>4, <3>5, <4>3
    <3> QED
      BY <3>6, <3>7
  <2> QED
    BY <2>1 DEF FokInv
<1>2. ASSUME Scripted PROVE FokInv'
  <2>0. order' = order
    BY <1>2, ScriptStep
  <2>1. CasInv'
    BY <1>2, ScriptedKeeps
  <2>2. ASSUME NEW o \in FokIds PROVE filled'[o] = filled[o]
    <3>1. o \in OrderIds /\ o \in OccIds /\ o \notin onceHere
      BY <1>0 DEF FokInv
    <3>2. ASSUME NEW r \in OrderIds, Trade(r) PROVE filled'[o] = filled[o]
      <4>1. pc = "walk" /\ r \in cands
        BY <3>2 DEF Trade, AtCandidate
      <4>2. o # taker /\ o # r
        BY <1>0, <3>1, <4>1, TakerIsNotThere DEF Places
      <4> QED
        BY <1>0, <3>1, <3>2, <4>2 DEF Trade, BookType
    <3> QED
      BY <1>2, <3>2 DEF Scripted, Visit, Reject, Begin, SkipGhost, LeaveLoop, CancelMaker, Finish,
         history
  <2>3. ASSUME NEW o \in FokIds, o \in onceHere' PROVE o \in onceHere
    <3>1. o \in OrderIds /\ o \in OccIds /\ o \notin onceHere
      BY <1>0 DEF FokInv
    <3>2. PICK s \in Sides : o \in zset'[s]
      BY <1>2, <2>3, <3>1, ScriptStep
    <3>3. o \notin zset[s]
      BY <1>0, <3>1 DEF Places
    <3>4. CASE Finish
      <4>1. o = taker /\ pc = "walk"
        BY <1>0, <3>2, <3>3, <3>4 DEF Finish, BookType, book
      <4> QED
        BY <3>1, <4>1, TakerIsNotThere
    <3>5. CASE \E r \in OrderIds : Visit(r)
      <4>1. zset'[s] \subseteq zset[s]
        BY <1>0, <3>5 DEF Visit, SkipGhost, LeaveLoop, CancelMaker, Trade, ZRem, BookType, book
      <4> QED
        BY <3>2, <3>3, <4>1
    <3>6. CASE \E p \in OrderIds \ OccIds : Reject(p) \/ Begin(p)
      BY <3>2, <3>3, <3>6 DEF Reject, Begin, book
    <3> QED
      BY <1>2, <3>4, <3>5, <3>6 DEF Scripted
  <2> QED
    BY <2>0, <2>2, <2>3, FokKept
<1>3. ASSUME Cancellation PROVE FokInv'
  <2>1. UNCHANGED <<order, filled, onceHere>>
    BY <1>3 DEF Cancellation, RemoveZrem, RemoveDel, history, casHistory
  <2> QED
    BY <2>1, FokKept
<1>4. ASSUME NEW p \in OccIds, Caller(p) \/ GiveUp(p), ~Commit(p) PROVE FokInv'
  <2>1. UNCHANGED <<order, filled, onceHere>>
    BY <1>4 DEF Caller, GiveUp, LockFunds, LoadVersion, LoadIds, LoadOrder, Matched, PreWrite,
       Conflict, UnlockAvailable, UnlockLocked, vars, history, casHistory
  <2> QED
    BY <2>1, FokKept
<1>5. ASSUME UNCHANGED casVars PROVE FokInv'
  <2>1. UNCHANGED <<order, filled, onceHere>>
    BY <1>5 DEF casVars, vars, history, casHistory
  <2> QED
    BY <2>1, FokKept
<1> QED
  BY <1>1, <1>2, <1>3, <1>4, <1>5 DEF CasNext

\* A fill-or-kill order that meets no order of its own user is filled completely or
\* not at all, over all its attempts, if the prices of limit orders are positive.  With
\* a limit price below zero an ask without a price is listed between limit asks: the
\* pre-check counts what lies behind it and the loop stops at it.
THEOREM FillOrKill ==
    ASSUME PositivePrices
    PROVE  CasSpec => []FokAllOrNothing
<1>1. CasInit => FokInv
  <2> SUFFICES ASSUME CasInit PROVE FokInv
    OBVIOUS
  <2>1. filled = [o \in OrderIds |-> 0] /\ onceHere = {}
    BY DEF CasInit, Init
  <2>2. FokIds \subseteq OrderIds
    BY OccAssumption
  <2> QED
    BY <2>1, <2>2 DEF FokInv
<1>2. CasInv /\ FokInv /\ [CasNext]_casVars => FokInv'
  BY FokNext
<1>3. FokInv => FokAllOrNothing
  BY DEF FokInv, FokAllOrNothing, MeetsNobody
<1> QED
  BY <1>1, <1>2, <1>3, CasInvHolds, PTL DEF CasSpec
===============================================================================
