-------------------------- MODULE MatchOrder_proofs --------------------------
(***************************************************************************)
(* Theorems about the order book of MatchOrder, for every set of orders,   *)
(* users, requests, funds and every fetch limit.                           *)
(***************************************************************************)
EXTENDS MatchOrder, FiniteSetTheorems, TLAPS

-------------------------------------------------------------------------------
(* SumFunctionOnSet(f, S), the sum of f[x] for x in a finite set S.  It is *)
(* a fold in an unspecified order, so that even "add the value of any one  *)
(* element" has to be proved.                                              *)

\* Induction on finite sets: a set of subsets has a minimal member.
LEMMA MinimalSubset ==
    ASSUME NEW S, IsFiniteSet(S), NEW T, T \subseteq SUBSET S, T # {}
    PROVE  \E U \in T : \A V \in T : V \subseteq U => V = U
<1>1. IsWellFoundedOn(StrictSubsetOrdering(S), SUBSET S)
  BY FS_StrictSubsetOrderingWellFounded, FS_FiniteSubsetsOfFinite
<1>2. PICK U \in T : \A V \in T : ~(<<V, U>> \in StrictSubsetOrdering(S))
  BY <1>1, WFMin
<1>3. ASSUME NEW V \in T, V \subseteq U, V # U PROVE FALSE
  <2>1. <<V, U>> \in StrictSubsetOrdering(S)
    BY <1>3 DEF StrictSubsetOrdering
  <2> QED
    BY <1>2, <2>1
<1> QED
  BY <1>3

-------------------------------------------------------------------------------
(* The fold has a solution, and all solutions agree.                       *)

Pick(s) == CHOOSE x \in s : TRUE

LEMMA PickIn == ASSUME NEW s, s # {} PROVE Pick(s) \in s
BY DEF Pick

\* g computes the sums of f over the subsets of S.
SumsUp(g, f, S) ==
    g = [s \in SUBSET S |-> IF s = {} THEN 0 ELSE f[Pick(s)] + g[s \ {Pick(s)}]]

LEMMA SumUnfold ==
    ASSUME NEW f, NEW S
    PROVE  SumFunctionOnSet(f, S) = (CHOOSE g : SumsUp(g, f, S))[S]
BY DEF SumFunctionOnSet, FoldFunctionOnSet, MapThenFoldSet, SumsUp, Pick

LEMMA SumsUpStep ==
    ASSUME NEW f, NEW S, NEW g, SumsUp(g, f, S), NEW s \in SUBSET S
    PROVE  g[s] = IF s = {} THEN 0 ELSE f[Pick(s)] + g[s \ {Pick(s)}]
<1> DEFINE h == [t \in SUBSET S |-> IF t = {} THEN 0 ELSE f[Pick(t)] + g[t \ {Pick(t)}]]
<1>1. g = h
  BY DEF SumsUp
<1>2. h[s] = IF s = {} THEN 0 ELSE f[Pick(s)] + g[s \ {Pick(s)}]
  OBVIOUS
<1> HIDE DEF h
<1> QED
  BY <1>1, <1>2

LEMMA SolutionsAgree ==
    ASSUME NEW f, NEW V, IsFiniteSet(V), NEW W, NEW g, NEW h,
           SumsUp(g, f, V), SumsUp(h, f, W)
    PROVE  \A s \in SUBSET V : s \subseteq W => g[s] = h[s]
<1> DEFINE bad == {s \in SUBSET V : s \subseteq W /\ g[s] # h[s]}
<1> SUFFICES ASSUME bad # {} PROVE FALSE
  OBVIOUS
<1>0. bad \subseteq SUBSET V
  OBVIOUS
<1> HIDE DEF bad
<1>1. PICK s \in bad : \A t \in bad : t \subseteq s => t = s
  BY <1>0, MinimalSubset
<1> USE DEF bad
<1>2. s \in SUBSET V /\ s \in SUBSET W /\ g[s] # h[s]
  OBVIOUS
<1>3. /\ g[s] = IF s = {} THEN 0 ELSE f[Pick(s)] + g[s \ {Pick(s)}]
      /\ h[s] = IF s = {} THEN 0 ELSE f[Pick(s)] + h[s \ {Pick(s)}]
  BY <1>2, SumsUpStep
<1>4. s # {}
  BY <1>2, <1>3
<1>5. Pick(s) \in s
  BY <1>4, PickIn
<1>6. s \ {Pick(s)} \notin bad
  BY <1>1, <1>5
<1>7. g[s \ {Pick(s)}] = h[s \ {Pick(s)}]
  BY <1>2, <1>6
<1> QED
  BY <1>2, <1>3, <1>4, <1>7

LEMMA SolutionExists ==
    ASSUME NEW f, NEW S, IsFiniteSet(S)
    PROVE  \E g : SumsUp(g, f, S)
<1> DEFINE bad == {s \in SUBSET S : ~\E g : SumsUp(g, f, s)}
<1> SUFFICES ASSUME bad # {} PROVE FALSE
  OBVIOUS
<1>0. bad \subseteq SUBSET S
  OBVIOUS
<1> HIDE DEF bad
<1>1. PICK U \in bad : \A t \in bad : t \subseteq U => t = U
  BY <1>0, MinimalSubset
<1> USE DEF bad
<1> DEFINE G(t) == CHOOSE g : SumsUp(g, f, t)
           h == [s \in SUBSET U |-> IF s = {} THEN 0 ELSE f[Pick(s)] + G(s \ {Pick(s)})[s \ {Pick(s)}]]
<1>2. ASSUME NEW t \in SUBSET U, t # U PROVE SumsUp(G(t), f, t)
  <2>1. t \notin bad /\ t \in SUBSET S
    BY <1>1, <1>2
  <2>2. \E g : SumsUp(g, f, t)
    BY <2>1
  <2> QED
    BY <2>2
<1> HIDE DEF G
<1>3. ASSUME NEW t \in SUBSET U, t # U PROVE h[t] = G(t)[t]
  <2>1. G(t)[t] = IF t = {} THEN 0 ELSE f[Pick(t)] + G(t)[t \ {Pick(t)}]
    BY <1>2, <1>3, SumsUpStep
  <2>2. CASE t = {}
    BY <2>1, <2>2
  <2>3. CASE t # {}
    <3>1. Pick(t) \in t
      BY <2>3, PickIn
    <3> DEFINE u == t \ {Pick(t)}
    <3>2. u \in SUBSET U /\ u # U /\ u \subseteq t /\ IsFiniteSet(u)
      BY <1>3, <3>1, FS_Subset
    <3>3. SumsUp(G(u), f, u) /\ SumsUp(G(t), f, t)
      BY <1>2, <1>3, <3>2
    <3>4. u \in SUBSET u
      OBVIOUS
    <3>5. G(u)[u] = G(t)[u]
      BY <3>2, <3>3, <3>4, SolutionsAgree
    <3>6. h[t] = f[Pick(t)] + G(u)[u]
      BY <2>3
    <3> QED
      BY <2>1, <2>3, <3>5, <3>6
  <2> QED
    BY <2>2, <2>3
<1>4. ASSUME NEW s \in SUBSET U
      PROVE  h[s] = IF s = {} THEN 0 ELSE f[Pick(s)] + h[s \ {Pick(s)}]
  <2>1. CASE s = {}
    BY <2>1
  <2>2. CASE s # {}
    <3>1. Pick(s) \in s
      BY <2>2, PickIn
    <3>2. s \ {Pick(s)} \in SUBSET U /\ s \ {Pick(s)} # U
      BY <3>1
    <3>3. h[s \ {Pick(s)}] = G(s \ {Pick(s)})[s \ {Pick(s)}]
      BY <1>3, <3>2
    <3>4. h[s] = f[Pick(s)] + G(s \ {Pick(s)})[s \ {Pick(s)}]
      BY <2>2
    <3> QED
      BY <2>2, <3>3, <3>4
  <2> QED
    BY <2>1, <2>2
<1> DEFINE k == [s \in SUBSET U |-> IF s = {} THEN 0 ELSE f[Pick(s)] + h[s \ {Pick(s)}]]
<1>5. h = k
  <2>1. \A s \in SUBSET U : h[s] = k[s]
    BY <1>4
  <2>2. DOMAIN h = SUBSET U /\ DOMAIN k = SUBSET U /\ h = [s \in SUBSET U |-> h[s]]
        /\ k = [s \in SUBSET U |-> k[s]]
    OBVIOUS
  <2> HIDE DEF h, k
  <2> QED
    BY <2>1, <2>2
<1>6. SumsUp(h, f, U)
  <2> HIDE DEF h
  <2> QED
    BY <1>5 DEF SumsUp
<1> HIDE DEF h
<1> QED
  BY <1>1, <1>6

-------------------------------------------------------------------------------
(* The sum itself.                                                         *)

LEMMA SumEmpty == ASSUME NEW f PROVE SumFunctionOnSet(f, {}) = 0
<1>1. \E g : SumsUp(g, f, {})
  BY SolutionExists, FS_EmptySet
<1> DEFINE g == CHOOSE g : SumsUp(g, f, {})
<1>2. SumsUp(g, f, {})
  BY <1>1
<1> HIDE DEF g
<1>3. g[{}] = 0
  BY <1>2, SumsUpStep
<1> QED
  BY <1>3, SumUnfold DEF g

LEMMA SumPick ==
    ASSUME NEW f, NEW S, IsFiniteSet(S), S # {}
    PROVE  SumFunctionOnSet(f, S) = f[Pick(S)] + SumFunctionOnSet(f, S \ {Pick(S)})
<1> DEFINE T == S \ {Pick(S)}
           g == CHOOSE g : SumsUp(g, f, S)
           h == CHOOSE h : SumsUp(h, f, T)
<1>1. T \subseteq S /\ IsFiniteSet(T)
  BY FS_Subset
<1>2. (\E q : SumsUp(q, f, S)) /\ (\E q : SumsUp(q, f, T))
  BY <1>1, SolutionExists
<1>3. SumsUp(g, f, S) /\ SumsUp(h, f, T)
  BY <1>2
<1>4. SumFunctionOnSet(f, S) = g[S] /\ SumFunctionOnSet(f, T) = h[T]
  BY SumUnfold
<1> HIDE DEF g, h
<1>5. g[S] = f[Pick(S)] + g[T]
  BY <1>3, SumsUpStep
<1>6. h[T] = g[T]
  BY <1>1, <1>3, SolutionsAgree
<1> QED
  BY <1>4, <1>5, <1>6

\* A sum of integers is an integer, one of natural numbers is a natural number.
LEMMA SumInt ==
    ASSUME NEW f, NEW S, IsFiniteSet(S), \A x \in S : f[x] \in Int
    PROVE  SumFunctionOnSet(f, S) \in Int
<1> DEFINE bad == {s \in SUBSET S : SumFunctionOnSet(f, s) \notin Int}
<1> SUFFICES ASSUME bad # {} PROVE FALSE
  OBVIOUS
<1>1. bad \subseteq SUBSET S
  OBVIOUS
<1> HIDE DEF bad
<1>2. PICK s \in bad : \A t \in bad : t \subseteq s => t = s
  BY <1>1, MinimalSubset
<1> USE DEF bad
<1>3. s # {} /\ IsFiniteSet(s)
  <2>1. s # {}
    <3>1. ASSUME s = {} PROVE FALSE
      <4>1. SumFunctionOnSet(f, s) = 0
        BY <3>1, SumEmpty
      <4> QED
        BY <1>2, <4>1
    <3> QED
      BY <3>1
  <2> QED
    BY <2>1, FS_Subset
<1>4. Pick(s) \in s
  BY <1>3, PickIn
<1>5. SumFunctionOnSet(f, s \ {Pick(s)}) \in Int
  BY <1>2, <1>4
<1>6. f[Pick(s)] \in Int
  BY <1>4
<1> QED
  BY <1>3, <1>5, <1>6, SumPick

LEMMA SumNat ==
    ASSUME NEW f, NEW S, IsFiniteSet(S), \A x \in S : f[x] \in Nat
    PROVE  SumFunctionOnSet(f, S) \in Nat
<1> DEFINE bad == {s \in SUBSET S : SumFunctionOnSet(f, s) \notin Nat}
<1> SUFFICES ASSUME bad # {} PROVE FALSE
  OBVIOUS
<1>1. bad \subseteq SUBSET S
  OBVIOUS
<1> HIDE DEF bad
<1>2. PICK s \in bad : \A t \in bad : t \subseteq s => t = s
  BY <1>1, MinimalSubset
<1> USE DEF bad
<1>3. s # {} /\ IsFiniteSet(s)
  <2>1. s # {}
    <3>1. ASSUME s = {} PROVE FALSE
      <4>1. SumFunctionOnSet(f, s) = 0
        BY <3>1, SumEmpty
      <4> QED
        BY <1>2, <4>1
    <3> QED
      BY <3>1
  <2> QED
    BY <2>1, FS_Subset
<1>4. Pick(s) \in s
  BY <1>3, PickIn
<1>5. SumFunctionOnSet(f, s \ {Pick(s)}) \in Nat
  BY <1>2, <1>4
<1>6. f[Pick(s)] \in Nat
  BY <1>4
<1> QED
  BY <1>3, <1>5, <1>6, SumPick

\* Any element may be taken out of the sum, not only the one the fold picks.
LEMMA SumElement ==
    ASSUME NEW f, NEW S, IsFiniteSet(S), \A x \in S : f[x] \in Int, NEW x \in S
    PROVE  SumFunctionOnSet(f, S) = f[x] + SumFunctionOnSet(f, S \ {x})
<1> DEFINE Sum(s) == SumFunctionOnSet(f, s)
           bad == {s \in SUBSET S : \E y \in s : Sum(s) # f[y] + Sum(s \ {y})}
<1> SUFFICES ASSUME bad # {} PROVE FALSE
  OBVIOUS
<1>1. bad \subseteq SUBSET S
  OBVIOUS
<1> HIDE DEF bad
<1>2. PICK s \in bad : \A t \in bad : t \subseteq s => t = s
  BY <1>1, MinimalSubset
<1> USE DEF bad
<1>3. PICK y \in s : Sum(s) # f[y] + Sum(s \ {y})
  BY <1>2
<1> DEFINE p == Pick(s)
           r == (s \ {p}) \ {y}
<1>4. s \subseteq S /\ s # {} /\ IsFiniteSet(s)
  BY <1>3, FS_Subset
<1>5. p \in s
  BY <1>4, PickIn
<1>6. Sum(s) = f[p] + Sum(s \ {p})
  BY <1>4, SumPick
<1>7. y # p
  BY <1>3, <1>6
<1>8. s \ {p} \notin bad /\ s \ {y} \notin bad
  BY <1>2, <1>5
<1>9. Sum(s \ {p}) = f[y] + Sum(r)
  BY <1>4, <1>7, <1>8
<1>10. Sum(s \ {y}) = f[p] + Sum(r)
  <2>1. (s \ {y}) \ {p} = r
    OBVIOUS
  <2>2. Sum(s \ {y}) = f[p] + Sum((s \ {y}) \ {p})
    BY <1>4, <1>5, <1>7, <1>8
  <2> QED
    BY <2>1, <2>2
<1>11. f[p] \in Int /\ f[y] \in Int /\ Sum(r) \in Int
  <2>1. r \subseteq S /\ IsFiniteSet(r)
    BY <1>4, FS_Subset
  <2> QED
    BY <1>4, <1>5, <2>1, SumInt
<1> HIDE DEF p, r, Sum
<1> QED
  BY <1>3, <1>6, <1>9, <1>10, <1>11

LEMMA SumAdd ==
    ASSUME NEW f, NEW S, IsFiniteSet(S), NEW x, x \notin S, \A y \in S \cup {x} : f[y] \in Int
    PROVE  SumFunctionOnSet(f, S \cup {x}) = SumFunctionOnSet(f, S) + f[x]
<1>1. IsFiniteSet(S \cup {x})
  BY FS_AddElement
<1>2. SumFunctionOnSet(f, S \cup {x}) = f[x] + SumFunctionOnSet(f, (S \cup {x}) \ {x})
  BY <1>1, SumElement
<1>3. (S \cup {x}) \ {x} = S
  OBVIOUS
<1>4. SumFunctionOnSet(f, S) \in Int /\ f[x] \in Int
  BY SumInt
<1>5. SumFunctionOnSet(f, S \cup {x}) = f[x] + SumFunctionOnSet(f, S)
  BY <1>2, <1>3
<1> QED
  BY <1>4, <1>5

\* Only the values on S count, and smaller values make a smaller sum.
LEMMA SumCompare ==
    ASSUME NEW f, NEW g, NEW S, IsFiniteSet(S),
           \A x \in S : f[x] \in Int /\ g[x] \in Int /\ f[x] <= g[x]
    PROVE  SumFunctionOnSet(f, S) <= SumFunctionOnSet(g, S)
<1> DEFINE F(s) == SumFunctionOnSet(f, s)
           G(s) == SumFunctionOnSet(g, s)
           bad == {s \in SUBSET S : ~(F(s) <= G(s))}
<1> SUFFICES ASSUME bad # {} PROVE FALSE
  OBVIOUS
<1>1. bad \subseteq SUBSET S
  OBVIOUS
<1> HIDE DEF bad
<1>2. PICK s \in bad : \A t \in bad : t \subseteq s => t = s
  BY <1>1, MinimalSubset
<1> USE DEF bad
<1>3. s # {} /\ IsFiniteSet(s)
  <2>1. s # {}
    <3>1. ASSUME s = {} PROVE FALSE
      <4>1. F(s) = 0 /\ G(s) = 0
        BY <3>1, SumEmpty
      <4> QED
        BY <1>2, <4>1
    <3> QED
      BY <3>1
  <2> QED
    BY <2>1, FS_Subset
<1> DEFINE p == Pick(s)
           r == s \ {p}
<1>4. p \in s
  BY <1>3, PickIn
<1>5. F(r) <= G(r)
  BY <1>2, <1>4
<1>6. F(s) = f[p] + F(r) /\ G(s) = g[p] + G(r)
  BY <1>3, SumPick
<1>7. F(r) \in Int /\ G(r) \in Int
  <2>1. r \subseteq S /\ IsFiniteSet(r)
    BY <1>3, FS_Subset
  <2> QED
    BY <2>1, SumInt
<1>8. f[p] \in Int /\ g[p] \in Int /\ f[p] <= g[p]
  BY <1>4
<1>9. ~(F(s) <= G(s))
  BY <1>2
<1> HIDE DEF p, r, F, G
<1> QED
  BY <1>5, <1>6, <1>7, <1>8, <1>9

LEMMA SumSame ==
    ASSUME NEW f, NEW g, NEW S, IsFiniteSet(S), \A x \in S : f[x] \in Int /\ g[x] = f[x]
    PROVE  SumFunctionOnSet(f, S) = SumFunctionOnSet(g, S)
<1>1. SumFunctionOnSet(f, S) \in Int /\ SumFunctionOnSet(g, S) \in Int
  BY SumInt
<1>2. SumFunctionOnSet(f, S) <= SumFunctionOnSet(g, S)
      /\ SumFunctionOnSet(g, S) <= SumFunctionOnSet(f, S)
  BY SumCompare
<1> QED
  BY <1>1, <1>2

\* The sum over two disjoint sets.
LEMMA SumDisjoint ==
    ASSUME NEW f, NEW S, IsFiniteSet(S), NEW T, IsFiniteSet(T), S \cap T = {},
           \A x \in S \cup T : f[x] \in Int
    PROVE  SumFunctionOnSet(f, S \cup T) = SumFunctionOnSet(f, S) + SumFunctionOnSet(f, T)
<1> DEFINE Sum(s) == SumFunctionOnSet(f, s)
           bad == {t \in SUBSET T : Sum(S \cup t) # Sum(S) + Sum(t)}
<1> SUFFICES ASSUME bad # {} PROVE FALSE
  OBVIOUS
<1>1. bad \subseteq SUBSET T
  OBVIOUS
<1> HIDE DEF bad
<1>2. PICK t \in bad : \A u \in bad : u \subseteq t => u = t
  BY <1>1, MinimalSubset
<1> USE DEF bad
<1>3. t \subseteq T /\ IsFiniteSet(t) /\ IsFiniteSet(S \cup t)
  BY FS_Subset, FS_Union
<1>4. Sum(S) \in Int
  BY SumInt
<1>5. t # {}
  <2>1. ASSUME t = {} PROVE FALSE
    <3>1. Sum(t) = 0 /\ Sum(S \cup t) = Sum(S)
      BY <2>1, SumEmpty
    <3>2. Sum(S \cup t) # Sum(S) + Sum(t)
      BY <1>2
    <3> HIDE DEF Sum
    <3> QED
      BY <1>4, <3>1, <3>2
  <2> QED
    BY <2>1
<1> DEFINE p == Pick(t)
           r == t \ {p}
<1>6. p \in t
  BY <1>5, PickIn
<1>7. Sum(S \cup r) = Sum(S) + Sum(r)
  BY <1>2, <1>6
<1>8. Sum(t) = f[p] + Sum(r)
  BY <1>3, <1>5, SumPick
<1>9. Sum(S \cup t) = f[p] + Sum(S \cup r)
  <2>1. (S \cup t) \ {p} = S \cup r
    BY <1>3, <1>6
  <2>2. p \in S \cup t /\ \A x \in S \cup t : f[x] \in Int
    BY <1>3, <1>6
  <2>3. Sum(S \cup t) = f[p] + Sum((S \cup t) \ {p})
    BY <1>3, <2>2, SumElement
  <2> QED
    BY <2>1, <2>3
<1>10. f[p] \in Int /\ Sum(r) \in Int
  <2>1. r \subseteq T /\ IsFiniteSet(r)
    BY <1>3, FS_Subset
  <2> QED
    BY <1>3, <1>6, <2>1, SumInt
<1>11. Sum(S \cup t) # Sum(S) + Sum(t)
  BY <1>2
<1> HIDE DEF p, r, Sum
<1> QED
  BY <1>4, <1>7, <1>8, <1>9, <1>10, <1>11

\* More terms, none of them negative, make no smaller sum.
LEMMA SumSubset ==
    ASSUME NEW f, NEW S, IsFiniteSet(S), NEW T \in SUBSET S, \A x \in S : f[x] \in Nat
    PROVE  SumFunctionOnSet(f, T) <= SumFunctionOnSet(f, S)
<1>1. IsFiniteSet(T) /\ IsFiniteSet(S \ T)
  BY FS_Subset
<1>2. SumFunctionOnSet(f, T) \in Nat /\ SumFunctionOnSet(f, S \ T) \in Nat
  BY <1>1, SumNat
<1>3. T \cup (S \ T) = S /\ T \cap (S \ T) = {}
  OBVIOUS
<1>4. \A x \in T \cup (S \ T) : f[x] \in Int
  OBVIOUS
<1>5. SumFunctionOnSet(f, T \cup (S \ T)) = SumFunctionOnSet(f, T) + SumFunctionOnSet(f, S \ T)
  BY <1>1, <1>3, <1>4, SumDisjoint
<1>6. SumFunctionOnSet(f, S) = SumFunctionOnSet(f, T) + SumFunctionOnSet(f, S \ T)
  BY <1>3, <1>5
<1> QED
  BY <1>2, <1>6

-------------------------------------------------------------------------------
\* The types of everything but the balances.  Balances are natural numbers as long
\* as only the script moves them; what else holds of the book needs no more than this.
BookType ==
    /\ order \in [OrderIds -> Requests]
    /\ zset \in [Sides -> SUBSET OrderIds]
    /\ hash \in [OrderIds -> HashType]
    /\ version \in Nat
    /\ reply \in [OrderIds -> ReplyType]
    /\ filled \in [OrderIds -> Nat]
    /\ trades \subseteq TradeType
    /\ cut \in SUBSET OrderIds
    /\ pc \in {"idle", "walk"}
    /\ pc = "walk" => taker \in OrderIds
    /\ cands \in SUBSET OrderIds
    /\ remaining \in Nat
    /\ status \in {"-", "N", "C"}
    /\ dropping \in SUBSET OrderIds
    /\ sweepList \in SUBSET OrderIds
    /\ sweepGone \in SUBSET OrderIds
    /\ unanswered \in SUBSET OrderIds

FundsType == available \in [Users -> [Assets -> Nat]] /\ locked \in [Users -> [Assets -> Nat]]

LEMMA TypeParts == TypeOK <=> BookType /\ FundsType
BY DEF TypeOK, BookType, FundsType

-------------------------------------------------------------------------------
(* Facts about the operators.                                              *)

\* The fields of a submitted order have their types.
LEMMA OrderFields ==
    ASSUME order \in [OrderIds -> Requests], NEW o \in OrderIds
    PROVE  /\ order[o] \in Requests
           /\ order[o].qty \in Nat /\ order[o].qty > 0
           /\ order[o].price \in Int
           /\ order[o].side \in Sides
           /\ order[o].user \in Users
           /\ order[o].tif \in {"G", "I"}
           /\ order[o].type \in {"L", "M"}
           /\ order[o].stp \in StpModes
BY RequestsAssumption DEF OrderType

\* What is locked is a natural number the owner has available.
LEMMA LockingBound ==
    ASSUME order \in [OrderIds -> Requests],
           available \in [Users -> [Assets -> Nat]],
           NEW o \in OrderIds
    PROVE  /\ Locking(o) \in Nat
           /\ LockAsset(o) \in Assets
           /\ Affordable(o) => Locking(o) <= available[order[o].user][LockAsset(o)]
<1>1. order[o].qty \in Nat /\ order[o].price \in Int /\ order[o].user \in Users
  BY OrderFields
<1>2. LockAmount(o) \in Int
  BY <1>1 DEF LockAmount
<1>3. LockAsset(o) \in Assets
  BY DEF LockAsset, Assets
<1>4. available[order[o].user][LockAsset(o)] \in Nat
  BY <1>1, <1>3
<1> QED
  BY <1>2, <1>3, <1>4 DEF Locking, Affordable

\* A fill is at least one unit and no more than either side has left.
LEMMA FillBounds ==
    ASSUME BookType, NEW r \in OrderIds, AtCandidate(r), Live(r)
    PROVE  /\ Fill(r) \in Nat
           /\ 1 <= Fill(r)
           /\ Fill(r) <= remaining
           /\ Fill(r) <= hash[r].remaining
<1>1. remaining \in Nat /\ remaining > 0
  BY DEF BookType, AtCandidate
<1>2. hash[r].remaining \in Nat /\ hash[r].remaining > 0
  BY DEF BookType, HashType, Live
<1> QED
  BY <1>1, <1>2 DEF Fill, MinOf

\* A candidate whose outcome is not "ghost" is live.
LEMMA OutcomeLive ==
    ASSUME NEW r, Outcome(r) # "ghost"
    PROVE  Live(r)
BY DEF Outcome

\* The outcome says what was found: nothing live, no crossing, or the self-trade
\* mode to apply.
LEMMA OutcomeCases ==
    ASSUME BookType, pc = "walk", NEW r \in OrderIds
    PROVE  /\ Outcome(r) = "ghost" => ~Live(r)
           /\ Outcome(r) = "stop" => ~Crosses(taker, r)
           /\ Outcome(r) = "N" => Live(r) /\ Crosses(taker, r) /\ StpMode(taker, r) = "N"
<1>1. order[taker].stp \in StpModes /\ order[r].stp \in StpModes
  BY OrderFields DEF BookType
<1>2. StpMode(taker, r) \in StpModes
  BY <1>1 DEF StpMode, StpModes
<1>3. CASE ~Live(r)
  BY <1>3 DEF Outcome
<1>4. CASE Live(r) /\ ~Crosses(taker, r)
  BY <1>4 DEF Outcome
<1>5. CASE Live(r) /\ Crosses(taker, r)
  <2>1. Outcome(r) = StpMode(taker, r)
    BY <1>5 DEF Outcome
  <2> QED
    BY <1>2, <1>5, <2>1 DEF StpModes
<1> QED
  BY <1>3, <1>4, <1>5

-------------------------------------------------------------------------------
(* Type correctness.                                                       *)

LEMMA NoHashType == NoHash \in HashType /\ NoHash.remaining = 0
BY DEF NoHash, HashType

LEMMA HashRemaining ==
    ASSUME hash \in [OrderIds -> HashType], NEW o \in OrderIds
    PROVE  hash[o].remaining \in Nat /\ hash[o].status \in {"", "N", "PF"}
BY DEF HashType

LEMMA BookTypeInit == Init => BookType
<1> SUFFICES ASSUME Init PROVE BookType
  OBVIOUS
<1>1. hash \in [OrderIds -> HashType]
  BY NoHashType DEF Init
<1>2. reply \in [OrderIds -> ReplyType]
  BY DEF Init, NotSubmitted, ReplyType, Statuses
<1>3. zset \in [Sides -> SUBSET OrderIds] /\ filled \in [OrderIds -> Nat]
  BY DEF Init
<1> QED
  BY <1>1, <1>2, <1>3 DEF Init, BookType

\* Removing an order, by whichever command, keeps the types of the book.
LEMMA RemovalTypes ==
    ASSUME NEW o \in OrderIds, NEW s
    PROVE  /\ zset \in [Sides -> SUBSET OrderIds] /\ ZRem(s, o)
                => zset' \in [Sides -> SUBSET OrderIds]
           /\ hash \in [OrderIds -> HashType] /\ Del(o)
                => hash' \in [OrderIds -> HashType]
BY NoHashType DEF ZRem, Del

LEMMA BookTypeNext == BookType /\ [Next]_vars => BookType'
<1> SUFFICES ASSUME BookType, [Next]_vars
             PROVE  BookType'
  OBVIOUS
<1>a. order \in [OrderIds -> Requests]
  BY DEF BookType
<1>z. zset \in [Sides -> SUBSET OrderIds]
  BY DEF BookType
<1>h. hash \in [OrderIds -> HashType]
  BY DEF BookType
<1>f. filled \in [OrderIds -> Nat] /\ trades \subseteq TradeType
  BY DEF BookType
<1>r. reply \in [OrderIds -> ReplyType]
  BY DEF BookType
<1>w. pc = "walk" => taker \in OrderIds
  BY DEF BookType
<1>1. ASSUME NEW o \in OrderIds, Reject(o) PROVE BookType'
  <2>1. reply' \in [OrderIds -> ReplyType]
    BY <1>1, <1>r DEF Reject, Rejected, ReplyType, Statuses
  <2> QED
    BY <1>1, <2>1 DEF Reject, BookType, book, funds, history, script, sweep
<1>2. ASSUME NEW o \in OrderIds, Begin(o) PROVE BookType'
  <2>1. cands' \in SUBSET OrderIds
    BY <1>2, <1>a, <1>z, OrderFields DEF Begin, Fetch, Eligible, Opposite, Sides
  <2>2. remaining' \in Nat
    BY <1>2, <1>a, OrderFields DEF Begin
  <2> QED
    BY <1>2, <2>1, <2>2 DEF Begin, BookType, book, history, sweep
<1>3. ASSUME NEW r \in OrderIds, SkipGhost(r) PROVE BookType'
  BY <1>3 DEF SkipGhost, BookType, book, funds, history, sweep
<1>4. ASSUME NEW r \in OrderIds, LeaveLoop(r) PROVE BookType'
  <2>1. zset' \in [Sides -> SUBSET OrderIds] /\ hash' \in [OrderIds -> HashType]
    BY <1>4, <1>z, <1>h, RemovalTypes DEF LeaveLoop, book
  <2>2. remaining' \in Nat /\ status' \in {"-", "N", "C"}
    BY <1>4 DEF LeaveLoop, BookType
  <2> QED
    BY <1>4, <2>1, <2>2 DEF LeaveLoop, BookType, funds, history, sweep
<1>5. ASSUME NEW r \in OrderIds, CancelMaker(r) PROVE BookType'
  <2>1. zset' \in [Sides -> SUBSET OrderIds] /\ hash' \in [OrderIds -> HashType]
    BY <1>5, <1>z, <1>h, RemovalTypes DEF CancelMaker
  <2> QED
    BY <1>5, <2>1 DEF CancelMaker, BookType, funds, history, sweep
<1>6. ASSUME NEW r \in OrderIds, Trade(r) PROVE BookType'
  <2>1. AtCandidate(r) /\ Live(r) /\ taker \in OrderIds
    BY <1>6, <1>w, OutcomeLive DEF Trade, AtCandidate
  <2>2. Fill(r) \in Nat /\ Fill(r) <= remaining /\ Fill(r) <= hash[r].remaining
    BY <2>1, FillBounds
  <2>3. remaining' \in Nat
    BY <1>6, <2>2 DEF Trade, BookType
  <2>4. zset' \in [Sides -> SUBSET OrderIds]
    BY <1>6, <1>z, RemovalTypes DEF Trade
  <2>5. hash' \in [OrderIds -> HashType]
    <3>1. hash[r].remaining \in Nat
      BY <1>h, HashRemaining
    <3>2. [remaining |-> hash[r].remaining - Fill(r), status |-> "PF"] \in HashType
      BY <2>2, <3>1 DEF HashType
    <3> QED
      BY <1>6, <1>h, <3>2, RemovalTypes DEF Trade
  <2>6. filled' \in [OrderIds -> Nat]
    BY <1>6, <1>f, <2>1, <2>2 DEF Trade
  <2>7. TradePrice(taker, r) \in Int
    BY <1>a, <2>1, OrderFields DEF TradePrice
  <2>8. trades' \subseteq TradeType
    BY <1>6, <1>f, <2>1, <2>2, <2>7 DEF Trade, TradeType
  <2> QED
    BY <1>6, <2>3, <2>4, <2>5, <2>6, <2>8 DEF Trade, BookType, funds, sweep
<1>7. CASE Finish
  <2>1. taker \in OrderIds /\ remaining \in Nat
    BY <1>7 DEF Finish, BookType
  <2>2. order[taker].side \in Sides /\ order[taker].tif \in {"G", "I"}
        /\ order[taker].qty \in Nat
    BY <1>a, <2>1, OrderFields
  <2>3. FinalStatus \in OrderStatuses
    BY <2>1, <2>2 DEF FinalStatus, OrderStatuses
  <2>4. Rests => FinalStatus \in {"N", "PF"}
    BY <2>1, <2>2 DEF FinalStatus, Rests
  <2>5. zset' \in [Sides -> SUBSET OrderIds]
    BY <1>7, <1>z, <2>1, <2>2 DEF Finish, book
  <2>6. hash' \in [OrderIds -> HashType]
    <3>1. Rests => [remaining |-> remaining, status |-> FinalStatus] \in HashType
      BY <2>1, <2>4 DEF HashType
    <3> QED
      BY <1>7, <1>h, <2>1, <3>1 DEF Finish, book
  <2>7. reply' \in [OrderIds -> ReplyType]
    <3>1. [remaining |-> remaining, status |-> FinalStatus] \in ReplyType
      BY <2>1, <2>3 DEF ReplyType, Statuses
    <3> QED
      BY <1>7, <1>r, <2>1, <3>1 DEF Finish
  <2>8. version' \in Nat
    BY <1>7 DEF Finish, BookType
  <2>9. pc' = "idle" /\ cands' = {} /\ remaining' = 0 /\ status' = "-"
    BY <1>7 DEF Finish
  <2> QED
    BY <1>7, <2>5, <2>6, <2>7, <2>8, <2>9 DEF Finish, BookType, funds, history, sweep
<1>8. ASSUME NEW o \in OrderIds, ExpireHash(o) PROVE BookType'
  <2>1. hash' \in [OrderIds -> HashType]
    BY <1>8, <1>h, RemovalTypes DEF ExpireHash
  <2> QED
    BY <1>8, <2>1 DEF ExpireHash, BookType, funds, history, script, sweep
<1>9. ASSUME NEW o \in OrderIds, RemoveZrem(o) PROVE BookType'
  <2>1. zset' \in [Sides -> SUBSET OrderIds]
    BY <1>9, <1>z, RemovalTypes DEF RemoveZrem
  <2> QED
    BY <1>9, <2>1 DEF RemoveZrem, BookType, funds, history, script, sweep
<1>10. ASSUME NEW o \in OrderIds, RemoveDel(o) PROVE BookType'
  <2>1. hash' \in [OrderIds -> HashType]
    BY <1>10, <1>h, RemovalTypes DEF RemoveDel
  <2> QED
    BY <1>10, <2>1 DEF RemoveDel, BookType, funds, history, script, sweep
<1>11. ASSUME NEW s \in Sides, SweepScan(s) PROVE BookType'
  BY <1>11 DEF SweepScan, BookType, book, funds, history, script
<1>12. ASSUME NEW o \in OrderIds, SweepExists(o) \/ SweepExistsFails(o) PROVE BookType'
  BY <1>12 DEF SweepExists, SweepExistsFails, BookType, book, funds, history, script
<1>13. ASSUME NEW o \in OrderIds, SweepZrem(o) PROVE BookType'
  <2>1. zset' \in [Sides -> SUBSET OrderIds]
    BY <1>13, <1>z, RemovalTypes DEF SweepZrem
  <2> QED
    BY <1>13, <2>1 DEF SweepZrem, BookType, funds, history, script
<1>14. ASSUME NEW o \in OrderIds, SweepZremFails(o) PROVE BookType'
  BY <1>14 DEF SweepZremFails, BookType, book, funds, history, script
<1>15. CASE UNCHANGED vars
  BY <1>15 DEF BookType, vars, book, funds, history, script, sweep
<1> QED
  BY <1>1, <1>2, <1>3, <1>4, <1>5, <1>6, <1>7, <1>8, <1>9, <1>10, <1>11, <1>12, <1>13,
     <1>14, <1>15
  DEF Next, Script, Visit, Maintenance, SweepFault

LEMMA TypeInit == Init => TypeOK
<1>1. Init => FundsType
  BY InitialFundsAssumption DEF Init, FundsType
<1> QED
  BY <1>1, BookTypeInit, TypeParts

LEMMA FundsTypeNext == BookType /\ FundsType /\ [Next]_vars => FundsType'
<1> SUFFICES ASSUME BookType, FundsType, [Next]_vars PROVE FundsType'
  OBVIOUS
<1>1. ASSUME NEW o \in OrderIds, Begin(o) PROVE FundsType'
  <2> DEFINE u == order[o].user
             a == LockAsset(o)
             q == Locking(o)
  <2>1. u \in Users /\ a \in Assets /\ q \in Nat /\ q <= available[u][a]
    BY <1>1, LockingBound, OrderFields DEF Begin, BookType, FundsType
  <2>2. available' = [available EXCEPT ![u][a] = @ - q] /\ locked' = [locked EXCEPT ![u][a] = @ + q]
    BY <1>1 DEF Begin
  <2> HIDE DEF u, a, q
  <2>3. available' \in [Users -> [Assets -> Nat]]
    BY <2>1, <2>2 DEF FundsType
  <2>4. locked' \in [Users -> [Assets -> Nat]]
    BY <2>1, <2>2 DEF FundsType
  <2> QED
    BY <2>3, <2>4 DEF FundsType
<1>2. ASSUME UNCHANGED funds PROVE FundsType'
  BY <1>2 DEF FundsType, funds
<1>3. ASSUME NEW o \in OrderIds, Reject(o) \/ Visit(o) PROVE FundsType'
  <2>1. UNCHANGED funds
    BY <1>3 DEF Reject, Visit, SkipGhost, LeaveLoop, CancelMaker, Trade
  <2> QED
    BY <1>2, <2>1
<1>4. ASSUME Finish \/ Maintenance \/ SweepFault \/ UNCHANGED vars PROVE FundsType'
  <2>1. UNCHANGED funds
    BY <1>4 DEF Finish, Maintenance, SweepFault, ExpireHash, RemoveZrem, RemoveDel, SweepScan,
                SweepExists, SweepZrem, SweepExistsFails, SweepZremFails, vars
  <2> QED
    BY <1>2, <2>1
<1> QED
  BY <1>1, <1>3, <1>4 DEF Next, Script

LEMMA TypeNext == TypeOK /\ [Next]_vars => TypeOK'
BY BookTypeNext, FundsTypeNext DEF TypeOK, BookType, FundsType

\* Every value the script and its neighbours keep in Valkey has its type; in
\* particular no balance and no remaining quantity ever becomes negative.
THEOREM TypeCorrect == Spec => []TypeOK
BY TypeInit, TypeNext, PTL DEF Spec

-------------------------------------------------------------------------------
(* No order trades more than its quantity.                                 *)

\* Whatever is in the book, or has something left in its hash, went through the
\* script before; a sorted set only holds orders of its side.
MembersSubmitted ==
    /\ \A s \in Sides : \A o \in zset[s] : order[o].side = s /\ reply[o] # NotSubmitted
    /\ \A o \in OrderIds : hash[o].remaining > 0 => reply[o] # NotSubmitted

\* The running script's order is new and its candidates are on the other side,
\* so it never meets itself.
TakerIsNew ==
    pc = "walk" =>
        /\ reply[taker] = NotSubmitted
        /\ \A r \in cands : order[r].side # order[taker].side /\ reply[r] # NotSubmitted
        /\ status \in {"N", "C"}
        /\ status = "C" => remaining = 0

FillsAccounted ==
    /\ \A o \in OrderIds : filled[o] <= order[o].qty
    /\ \A o \in OrderIds :
          hash[o].remaining > 0 => filled[o] + hash[o].remaining = order[o].qty
    /\ \A o \in OrderIds :
          (reply[o] = NotSubmitted /\ ~(pc = "walk" /\ taker = o)) => filled[o] = 0
    /\ (pc = "walk" /\ status = "N") => filled[taker] + remaining = order[taker].qty

Accounting == MembersSubmitted /\ TakerIsNew /\ FillsAccounted

\* The part of the book that can still trade does not grow.
BookShrinks ==
    /\ \A s \in Sides : zset'[s] \subseteq zset[s]
    /\ \A o \in OrderIds : hash'[o] = hash[o] \/ hash'[o].remaining = 0

LEMMA ZRemShrinks ==
    ASSUME zset \in [Sides -> SUBSET OrderIds], NEW t, NEW o, ZRem(t, o)
    PROVE  \A s \in Sides : zset'[s] \subseteq zset[s]
BY DEF ZRem

LEMMA DelShrinks ==
    ASSUME hash \in [OrderIds -> HashType], NEW r \in OrderIds, Del(r)
    PROVE  \A o \in OrderIds : hash'[o] = hash[o] \/ hash'[o].remaining = 0
BY NoHashType DEF Del

\* Every step other than Reject, Begin, Trade and Finish takes orders away at most.
LEMMA RemovalsShrink ==
    ASSUME BookType,
           \/ \E r \in OrderIds : SkipGhost(r) \/ LeaveLoop(r) \/ CancelMaker(r)
           \/ Maintenance
           \/ SweepFault
           \/ UNCHANGED vars
    PROVE  /\ BookShrinks
           /\ UNCHANGED <<order, reply, filled, trades, pc, taker>>
           /\ cands' \subseteq cands
           /\ \/ status' = status /\ remaining' = remaining
              \/ status' = "C" /\ remaining' = 0
<1>z. zset \in [Sides -> SUBSET OrderIds]
  BY DEF BookType
<1>h. hash \in [OrderIds -> HashType]
  BY DEF BookType
<1>1. ASSUME NEW r \in OrderIds, SkipGhost(r) \/ CancelMaker(r)
      PROVE  BookShrinks
  BY <1>1, <1>z, <1>h, ZRemShrinks, DelShrinks DEF SkipGhost, CancelMaker, BookShrinks, book
<1>2. ASSUME NEW r \in OrderIds, LeaveLoop(r)
      PROVE  BookShrinks
  BY <1>2, <1>z, <1>h, ZRemShrinks, DelShrinks DEF LeaveLoop, BookShrinks, book
<1>3. ASSUME NEW o \in OrderIds, ExpireHash(o) \/ RemoveDel(o)
      PROVE  BookShrinks
  BY <1>3, <1>z, <1>h, DelShrinks DEF ExpireHash, RemoveDel, BookShrinks
<1>4. ASSUME NEW o \in OrderIds, RemoveZrem(o) \/ SweepZrem(o)
      PROVE  BookShrinks
  BY <1>4, <1>z, <1>h, ZRemShrinks DEF RemoveZrem, SweepZrem, BookShrinks
<1>5. ASSUME UNCHANGED book
      PROVE  BookShrinks
  BY <1>5 DEF BookShrinks, book
<1>6. BookShrinks
  BY <1>1, <1>2, <1>3, <1>4, <1>5
  DEF Maintenance, SweepFault, SweepScan, SweepExists, SweepExistsFails, SweepZremFails, vars
<1>7. UNCHANGED <<order, reply, filled, trades, pc, taker>>
  BY DEF SkipGhost, LeaveLoop, CancelMaker, Maintenance, SweepFault, ExpireHash, RemoveZrem,
         RemoveDel, SweepScan, SweepExists, SweepZrem, SweepExistsFails, SweepZremFails,
         vars, history, script
<1>8. cands' \subseteq cands
  BY DEF SkipGhost, LeaveLoop, CancelMaker, Maintenance, SweepFault, ExpireHash, RemoveZrem,
         RemoveDel, SweepScan, SweepExists, SweepZrem, SweepExistsFails, SweepZremFails,
         vars, script
<1>9. \/ status' = status /\ remaining' = remaining
      \/ status' = "C" /\ remaining' = 0
  BY DEF SkipGhost, LeaveLoop, CancelMaker, Maintenance, SweepFault, ExpireHash, RemoveZrem,
         RemoveDel, SweepScan, SweepExists, SweepZrem, SweepExistsFails, SweepZremFails,
         vars, script
<1> QED
  BY <1>6, <1>7, <1>8, <1>9

LEMMA AccountingInit == Init => Accounting
<1> SUFFICES ASSUME Init PROVE Accounting
  OBVIOUS
<1>1. \A o \in OrderIds : order[o].qty \in Nat /\ order[o].qty > 0
  BY OrderFields DEF Init
<1>2. MembersSubmitted
  BY NoHashType DEF Init, MembersSubmitted
<1>3. TakerIsNew
  BY DEF Init, TakerIsNew
<1>4. FillsAccounted
  BY <1>1, NoHashType DEF Init, FillsAccounted
<1> QED
  BY <1>2, <1>3, <1>4 DEF Accounting

LEMMA AccountingShrink ==
    ASSUME BookType, Accounting, BookShrinks,
           UNCHANGED <<order, reply, filled, pc, taker>>,
           cands' \subseteq cands,
           \/ status' = status /\ remaining' = remaining
           \/ status' = "C" /\ remaining' = 0
    PROVE  Accounting'
<1>1. MembersSubmitted'
  BY DEF Accounting, MembersSubmitted, BookShrinks
<1>2. TakerIsNew'
  BY DEF Accounting, TakerIsNew
<1>3. FillsAccounted'
  BY DEF Accounting, FillsAccounted, BookShrinks
<1> QED
  BY <1>1, <1>2, <1>3 DEF Accounting

LEMMA AccountingReject ==
    ASSUME BookType, Accounting, NEW o \in OrderIds, Reject(o)
    PROVE  Accounting'
<1>1. /\ reply' = [reply EXCEPT ![o] = Rejected]
      /\ reply[o] = NotSubmitted /\ pc = "idle" /\ pc' = "idle"
      /\ UNCHANGED <<order, zset, hash, filled>>
  BY DEF Reject, book, history, script
<1>2. \A x \in OrderIds : reply'[x] = IF x = o THEN Rejected ELSE reply[x]
  BY <1>1 DEF BookType
<1>3. Rejected # NotSubmitted
  BY DEF Rejected, NotSubmitted
<1>z. \A s \in Sides : zset[s] \subseteq OrderIds
  BY DEF BookType
<1>4. MembersSubmitted'
  BY <1>1, <1>2, <1>3, <1>z DEF Accounting, MembersSubmitted
<1>5. TakerIsNew'
  BY <1>1 DEF TakerIsNew
<1>6. FillsAccounted'
  BY <1>1, <1>2, <1>3 DEF Accounting, FillsAccounted
<1> QED
  BY <1>4, <1>5, <1>6 DEF Accounting

LEMMA FetchFacts ==
    ASSUME BookType, NEW o \in OrderIds, NEW r \in Fetch(o)
    PROVE  r \in zset[Opposite(order[o].side)] /\ WithinBound(o, r) /\ r \in OrderIds
<1>1. Opposite(order[o].side) \in Sides
  BY OrderFields DEF BookType, Opposite, Sides
<1> QED
  BY <1>1 DEF Fetch, Eligible, BookType

LEMMA AccountingBegin ==
    ASSUME BookType, Accounting, NEW o \in OrderIds, Begin(o)
    PROVE  Accounting'
<1>1. /\ reply[o] = NotSubmitted /\ pc = "idle"
      /\ pc' = "walk" /\ taker' = o /\ cands' = Fetch(o)
      /\ remaining' = order[o].qty /\ status' = "N"
      /\ UNCHANGED <<order, zset, hash, reply, filled>>
  BY DEF Begin, book, history
<1>2. order[o].side \in Sides /\ order[o].qty \in Nat
  BY OrderFields DEF BookType
<1>3. MembersSubmitted'
  BY <1>1 DEF Accounting, MembersSubmitted
<1>4. TakerIsNew'
  <2>1. \A r \in Fetch(o) : order[r].side # order[o].side /\ reply[r] # NotSubmitted
    BY <1>2, FetchFacts DEF Accounting, MembersSubmitted, Opposite, Sides
  <2> QED
    BY <1>1, <2>1 DEF TakerIsNew
<1>5. filled[o] = 0
  BY <1>1 DEF Accounting, FillsAccounted
<1>6. FillsAccounted'
  BY <1>1, <1>2, <1>5 DEF Accounting, FillsAccounted
<1> QED
  BY <1>3, <1>4, <1>6 DEF Accounting

LEMMA AccountingTrade ==
    ASSUME BookType, Accounting, NEW r \in OrderIds, Trade(r)
    PROVE  Accounting'
<1>1. /\ pc = "walk" /\ r \in cands /\ taker \in OrderIds /\ AtCandidate(r) /\ Live(r)
      /\ remaining \in Nat /\ remaining > 0
  BY OutcomeLive DEF Trade, AtCandidate, BookType
<1>2. Fill(r) \in Nat /\ Fill(r) <= remaining /\ Fill(r) <= hash[r].remaining
  BY <1>1, FillBounds
<1>3. r # taker /\ status = "N"
  BY <1>1 DEF Accounting, TakerIsNew
<1>4. hash[r].remaining \in Nat /\ hash[r].remaining > 0
  BY <1>1 DEF BookType, HashType, Live
<1>5. /\ remaining' = remaining - Fill(r)
      /\ cands' \subseteq cands
      /\ UNCHANGED <<order, reply, pc, taker, status>>
  BY DEF Trade
<1>6. \A o \in OrderIds :
        filled'[o] = IF o = taker \/ o = r THEN filled[o] + Fill(r) ELSE filled[o]
  BY <1>1, <1>3 DEF Trade, BookType
<1>7. \A s \in Sides : zset'[s] \subseteq zset[s]
  BY ZRemShrinks DEF Trade, BookType
<1>8. /\ hash'[r].remaining = hash[r].remaining - Fill(r)
      /\ \A o \in OrderIds : o # r => hash'[o] = hash[o]
  <2>h. hash \in [OrderIds -> HashType]
    BY DEF BookType
  <2>1. CASE hash[r].remaining - Fill(r) <= 0
    <3>1. hash' = [hash EXCEPT ![r] = NoHash]
      BY <2>1 DEF Trade, Del
    <3>2. hash[r].remaining - Fill(r) = 0
      BY <1>2, <1>4, <2>1
    <3> QED
      BY <2>h, <3>1, <3>2, NoHashType
  <2>2. CASE ~(hash[r].remaining - Fill(r) <= 0)
    <3>1. hash' = [hash EXCEPT ![r] = [remaining |-> hash[r].remaining - Fill(r),
                                        status |-> "PF"]]
      BY <2>2 DEF Trade
    <3> QED
      BY <2>h, <3>1
  <2> QED
    BY <2>1, <2>2
<1>9. \A o \in OrderIds : filled[o] \in Nat /\ order[o].qty \in Nat /\ hash[o].remaining \in Nat
  BY OrderFields, HashRemaining DEF BookType
<1>10. MembersSubmitted'
  <2>1. \A s \in Sides : \A o \in zset'[s] : order'[o].side = s /\ reply'[o] # NotSubmitted
    BY <1>5, <1>7 DEF Accounting, MembersSubmitted
  <2>2. \A o \in OrderIds : hash'[o].remaining > 0 => reply'[o] # NotSubmitted
    BY <1>4, <1>5, <1>8 DEF Accounting, MembersSubmitted
  <2> QED
    BY <2>1, <2>2 DEF MembersSubmitted
<1>11. TakerIsNew'
  BY <1>3, <1>5 DEF Accounting, TakerIsNew
<1>12. FillsAccounted'
  <2>1. filled[taker] + remaining = order[taker].qty
    BY <1>1, <1>3 DEF Accounting, FillsAccounted
  <2>2. filled[r] + hash[r].remaining = order[r].qty
    BY <1>4 DEF Accounting, FillsAccounted
  <2>3. hash[taker].remaining = 0
    BY <1>1, <1>9 DEF Accounting, MembersSubmitted, TakerIsNew
  <2>4. \A o \in OrderIds : filled'[o] <= order'[o].qty
    BY <1>1, <1>2, <1>5, <1>6, <1>9, <2>1, <2>2 DEF Accounting, FillsAccounted
  <2>5. \A o \in OrderIds :
          hash'[o].remaining > 0 => filled'[o] + hash'[o].remaining = order'[o].qty
    BY <1>1, <1>2, <1>3, <1>5, <1>6, <1>8, <1>9, <2>2, <2>3 DEF Accounting, FillsAccounted
  <2>6. \A o \in OrderIds :
          (reply'[o] = NotSubmitted /\ ~(pc' = "walk" /\ taker' = o)) => filled'[o] = 0
    BY <1>1, <1>4, <1>5, <1>6 DEF Accounting, FillsAccounted, MembersSubmitted
  <2>7. filled'[taker'] + remaining' = order'[taker'].qty
    BY <1>1, <1>2, <1>5, <1>6, <1>9, <2>1
  <2> QED
    BY <2>4, <2>5, <2>6, <2>7 DEF FillsAccounted
<1> QED
  BY <1>10, <1>11, <1>12 DEF Accounting

\* What the script reports is one of the four statuses, so the reply is final.
LEMMA FinalReply ==
    ASSUME BookType, pc = "walk"
    PROVE  /\ FinalStatus \in OrderStatuses
           /\ [remaining |-> remaining, status |-> FinalStatus] # NotSubmitted
           /\ Rests => FinalStatus \in {"N", "PF"} /\ status # "C" /\ remaining > 0
<1>1. order[taker].tif \in {"G", "I"} /\ order[taker].qty \in Nat /\ remaining \in Nat
  BY OrderFields DEF BookType
<1>2. FinalStatus \in OrderStatuses
  BY <1>1 DEF FinalStatus, OrderStatuses
<1>3. Rests => FinalStatus \in {"N", "PF"} /\ status # "C" /\ remaining > 0
  BY <1>1 DEF FinalStatus, Rests
<1> QED
  BY <1>2, <1>3 DEF OrderStatuses, NotSubmitted

LEMMA AccountingFinish ==
    ASSUME BookType, Accounting, Finish
    PROVE  Accounting'
<1>1. pc = "walk" /\ pc' = "idle" /\ taker \in OrderIds /\ UNCHANGED <<order, filled>>
  BY DEF Finish, BookType, history
<1>2. \A x \in OrderIds : x # taker => reply'[x] = reply[x]
  BY <1>1 DEF Finish, BookType
<1>3. reply'[taker] # NotSubmitted
  <2>1. reply'[taker] = [remaining |-> remaining, status |-> FinalStatus]
    BY <1>1 DEF Finish, BookType
  <2> QED
    BY <1>1, <2>1, FinalReply
<1>4. \A s \in Sides : \A o \in zset'[s] : o \in zset[s] \/ (o = taker /\ s = order[taker].side)
  BY DEF Finish, BookType, book
<1>5. \A o \in OrderIds : o # taker => hash'[o] = hash[o]
  BY DEF Finish, BookType, book
<1>6. \/ hash'[taker] = hash[taker]
      \/ Rests /\ hash'[taker].remaining = remaining
  BY <1>1 DEF Finish, BookType, book
<1>z. \A s \in Sides : zset[s] \subseteq OrderIds
  BY DEF BookType
<1>7. MembersSubmitted'
  <2>1. \A s \in Sides : \A o \in zset'[s] : order'[o].side = s /\ reply'[o] # NotSubmitted
    BY <1>1, <1>2, <1>3, <1>4, <1>z DEF Accounting, MembersSubmitted
  <2>2. \A o \in OrderIds : hash'[o].remaining > 0 => reply'[o] # NotSubmitted
    BY <1>2, <1>3, <1>5 DEF Accounting, MembersSubmitted
  <2> QED
    BY <2>1, <2>2 DEF MembersSubmitted
<1>8. TakerIsNew'
  BY <1>1 DEF TakerIsNew
<1>9. FillsAccounted'
  <2>1. Rests => filled[taker] + remaining = order[taker].qty
    BY <1>1, FinalReply DEF Accounting, FillsAccounted, TakerIsNew
  <2>2. \A o \in OrderIds :
          hash'[o].remaining > 0 => filled'[o] + hash'[o].remaining = order'[o].qty
    BY <1>1, <1>5, <1>6, <2>1 DEF Accounting, FillsAccounted
  <2>3. \A o \in OrderIds :
          (reply'[o] = NotSubmitted /\ ~(pc' = "walk" /\ taker' = o)) => filled'[o] = 0
    BY <1>1, <1>2, <1>3 DEF Accounting, FillsAccounted
  <2> QED
    BY <1>1, <2>2, <2>3 DEF Accounting, FillsAccounted
<1> QED
  BY <1>7, <1>8, <1>9 DEF Accounting

LEMMA AccountingNext ==
    ASSUME BookType, Accounting, [Next]_vars
    PROVE  Accounting'
<1>1. CASE \E o \in OrderIds : Reject(o)
  BY <1>1, AccountingReject
<1>2. CASE \E o \in OrderIds : Begin(o)
  BY <1>2, AccountingBegin
<1>3. CASE \E r \in OrderIds : Trade(r)
  BY <1>3, AccountingTrade
<1>4. CASE Finish
  BY <1>4, AccountingFinish
<1>5. CASE \/ \E r \in OrderIds : SkipGhost(r) \/ LeaveLoop(r) \/ CancelMaker(r)
           \/ Maintenance
           \/ SweepFault
           \/ UNCHANGED vars
  BY <1>5, RemovalsShrink, AccountingShrink
<1> QED
  BY <1>1, <1>2, <1>3, <1>4, <1>5 DEF Next, Script, Visit

\* The strengthened invariant gives the property.
LEMMA AccountingImplies ==
    ASSUME BookType, Accounting
    PROVE  QuantityAccounted
<1> SUFFICES ASSUME NEW o \in OrderIds
             PROVE  /\ filled[o] + Left(o) <= order[o].qty
                    /\ (o \in zset[order[o].side] /\ Live(o)) => filled[o] + Left(o) = order[o].qty
                    /\ (pc = "walk" /\ taker = o /\ status # "C")
                          => filled[o] + Left(o) = order[o].qty
                    /\ ~Submitted(o) => filled[o] = 0
  BY DEF QuantityAccounted
<1>1. /\ filled[o] \in Nat /\ order[o].qty \in Nat /\ hash[o].remaining \in Nat
      /\ order[o].side \in Sides
  BY OrderFields, HashRemaining DEF BookType
<1>2. CASE pc = "walk" /\ taker = o
  <2>1. o \notin zset[order[o].side]
    BY <1>1, <1>2 DEF Accounting, MembersSubmitted, TakerIsNew
  <2>2. Left(o) = remaining /\ Submitted(o)
    BY <1>2 DEF Left, Submitted
  <2>3. status = "C" => remaining = 0
    BY <1>2 DEF Accounting, TakerIsNew
  <2>4. status # "C" => filled[o] + remaining = order[o].qty
    BY <1>2 DEF Accounting, TakerIsNew, FillsAccounted
  <2>5. filled[o] <= order[o].qty
    BY DEF Accounting, FillsAccounted
  <2> QED
    BY <1>1, <2>1, <2>2, <2>3, <2>4, <2>5
<1>3. CASE ~(pc = "walk" /\ taker = o)
  <2>1. Left(o) = IF o \in zset[order[o].side] THEN hash[o].remaining ELSE 0
    BY <1>3 DEF Left
  <2>2. hash[o].remaining > 0 => filled[o] + hash[o].remaining = order[o].qty
    BY DEF Accounting, FillsAccounted
  <2>3. filled[o] <= order[o].qty /\ (~Submitted(o) => filled[o] = 0)
    BY <1>3 DEF Accounting, FillsAccounted, Submitted
  <2> QED
    BY <1>1, <1>3, <2>1, <2>2, <2>3 DEF Live
<1> QED
  BY <1>2, <1>3

\* However scripts, expiries, cancellations and sweeps interleave, no order ever
\* trades more than its quantity, and a live order has traded exactly what it no
\* longer offers.
THEOREM FillsNeverExceedQuantity == Spec => []QuantityAccounted
<1>1. Init => BookType /\ Accounting
  BY BookTypeInit, AccountingInit
<1>2. BookType /\ Accounting /\ [Next]_vars => (BookType /\ Accounting)'
  BY BookTypeNext, AccountingNext
<1>3. BookType /\ Accounting => QuantityAccounted
  BY AccountingImplies
<1> QED
  BY <1>1, <1>2, <1>3, PTL DEF Spec

-------------------------------------------------------------------------------
(* Every trade respects the limits and the self-trade rules of both sides. *)

TradesFair == LimitRespected /\ SelfTradePrevented

LEMMA NewTradeFair ==
    ASSUME BookType, Accounting, TradesFair, NEW r \in OrderIds, Trade(r)
    PROVE  TradesFair'
<1>1. pc = "walk" /\ r \in cands /\ taker \in OrderIds
  BY DEF Trade, AtCandidate, BookType
<1>2. Crosses(taker, r) /\ StpMode(taker, r) = "N"
  BY <1>1, OutcomeCases DEF Trade
<1>3. order[r].side # order[taker].side
  BY <1>1 DEF Accounting, TakerIsNew
<1>4. /\ order[r].price \in Int /\ order[taker].price \in Int
      /\ order[r].side \in Sides /\ order[taker].side \in Sides
      /\ order[r].type \in {"L", "M"} /\ order[taker].type \in {"L", "M"}
  BY <1>1, OrderFields DEF BookType
<1>5. order' = order
  BY DEF Trade
<1> DEFINE t == [taker |-> taker, maker |-> r, price |-> TradePrice(taker, r), qty |-> Fill(r)]
<1>6. trades' = trades \cup {t}
  BY DEF Trade
<1>7. t.taker = taker /\ t.maker = r /\ t.price = TradePrice(taker, r)
  OBVIOUS
<1> HIDE DEF t
<1>8. LimitRespected'
  <2>1. order[taker].type = "L" =>
            IF order[taker].side = "B" THEN t.price <= order[taker].price
                                       ELSE t.price >= order[taker].price
    BY <1>2, <1>3, <1>4, <1>7 DEF Crosses, TradePrice, Sides
  <2>2. order[r].type = "L" =>
            IF order[r].side = "B" THEN t.price <= order[r].price
                                   ELSE t.price >= order[r].price
    BY <1>4, <1>7 DEF TradePrice
  <2> QED
    BY <1>5, <1>6, <1>7, <2>1, <2>2 DEF TradesFair, LimitRespected
<1>9. SelfTradePrevented'
  <2>1. order[taker].user = order[r].user => order[taker].stp = "N" /\ order[r].stp = "N"
    BY <1>2 DEF StpMode
  <2> QED
    BY <1>5, <1>6, <1>7, <2>1 DEF TradesFair, SelfTradePrevented
<1> QED
  BY <1>8, <1>9 DEF TradesFair

LEMMA TradesFairNext ==
    ASSUME BookType, Accounting, TradesFair, [Next]_vars
    PROVE  TradesFair'
<1>1. CASE \E r \in OrderIds : Trade(r)
  BY <1>1, NewTradeFair
<1>2. CASE UNCHANGED <<order, trades>>
  BY <1>2 DEF TradesFair, LimitRespected, SelfTradePrevented
<1>3. CASE \E o \in OrderIds : Reject(o) \/ Begin(o)
  BY <1>2, <1>3 DEF Reject, Begin, history
<1>4. CASE Finish
  BY <1>2, <1>4 DEF Finish, history
<1>5. CASE \/ \E r \in OrderIds : SkipGhost(r) \/ LeaveLoop(r) \/ CancelMaker(r)
           \/ Maintenance
           \/ SweepFault
           \/ UNCHANGED vars
  BY <1>2, <1>5, RemovalsShrink
<1> QED
  BY <1>1, <1>3, <1>4, <1>5 DEF Next, Script, Visit

LEMMA TradesAreFair == Spec => []TradesFair
<1>1. Init => BookType /\ Accounting /\ TradesFair
  BY BookTypeInit, AccountingInit DEF Init, TradesFair, LimitRespected, SelfTradePrevented
<1>2. BookType /\ Accounting /\ TradesFair /\ [Next]_vars => (BookType /\ Accounting /\ TradesFair)'
  BY BookTypeNext, AccountingNext, TradesFairNext
<1> QED
  BY <1>1, <1>2, PTL DEF Spec

\* No limit order ever trades beyond its limit, as taker or maker, also when it
\* meets a market order that rests without a price.
THEOREM LimitsAreRespected == Spec => []LimitRespected
<1>1. TradesFair => LimitRespected
  BY DEF TradesFair
<1> QED
  BY <1>1, TradesAreFair, PTL

\* Two orders of one user trade only when neither of them, taker or maker, asks
\* for self-trade prevention.
THEOREM SelfTradesArePrevented == Spec => []SelfTradePrevented
<1>1. TradesFair => SelfTradePrevented
  BY DEF TradesFair
<1> QED
  BY <1>1, TradesAreFair, PTL

-------------------------------------------------------------------------------
(* The sweep.                                                              *)

\* What the sweep has listed went through the script, so it cannot be placed
\* again; what it has marked has nothing left.
SweepKnown ==
    /\ \A o \in sweepList \cup sweepGone : reply[o] # NotSubmitted
    /\ \A o \in sweepGone \ unanswered : hash[o].remaining = 0

LEMMA SweepKnownNext ==
    ASSUME BookType, Accounting, SweepKnown, [Next]_vars
    PROVE  SweepKnown'
<1>s. sweepList \subseteq OrderIds /\ sweepGone \subseteq OrderIds
  BY DEF BookType
<1>h. \A o \in OrderIds : hash[o].remaining \in Nat
  BY HashRemaining DEF BookType
<1>1. ASSUME NEW o \in OrderIds, Reject(o) PROVE SweepKnown'
  <2>1. UNCHANGED <<hash, sweepList, sweepGone, unanswered>>
        /\ \A x \in OrderIds : reply'[x] = reply[x] \/ reply'[x] = Rejected
    BY <1>1 DEF Reject, book, sweep, BookType
  <2> QED
    BY <1>s, <2>1 DEF SweepKnown, Rejected, NotSubmitted
<1>2. ASSUME NEW o \in OrderIds, Begin(o) PROVE SweepKnown'
  BY <1>2 DEF Begin, book, sweep, SweepKnown
<1>3. ASSUME NEW r \in OrderIds, Trade(r) PROVE SweepKnown'
  <2>1. Live(r) /\ UNCHANGED <<reply, sweepList, sweepGone, unanswered>>
    BY <1>3, OutcomeLive DEF Trade, sweep
  <2>2. r \notin sweepGone \ unanswered
    BY <1>h, <2>1 DEF Live, SweepKnown
  <2>3. \A o \in OrderIds : o # r => hash'[o] = hash[o]
    BY <1>3 DEF Trade, Del, BookType
  <2> QED
    BY <1>s, <2>1, <2>2, <2>3 DEF SweepKnown
<1>4. CASE Finish
  <2>1. UNCHANGED <<sweepList, sweepGone, unanswered>> /\ pc = "walk"
    BY <1>4 DEF Finish, sweep
  <2>2. taker \in OrderIds /\ taker \notin sweepList \cup sweepGone
    BY <2>1 DEF SweepKnown, Accounting, TakerIsNew, BookType
  <2>3. \A o \in OrderIds : o # taker => hash'[o] = hash[o] /\ reply'[o] = reply[o]
    BY <1>4 DEF Finish, BookType, book
  <2> QED
    BY <1>s, <2>1, <2>2, <2>3 DEF SweepKnown
<1>5. ASSUME BookShrinks, UNCHANGED <<reply, sweepList, sweepGone, unanswered>> PROVE SweepKnown'
  BY <1>5, <1>s DEF SweepKnown, BookShrinks
<1>6. ASSUME NEW r \in OrderIds, SkipGhost(r) \/ LeaveLoop(r) \/ CancelMaker(r)
      PROVE  SweepKnown'
  <2>1. UNCHANGED <<sweepList, sweepGone, unanswered>>
    BY <1>6 DEF SkipGhost, LeaveLoop, CancelMaker, sweep
  <2> QED
    BY <1>5, <1>6, <2>1, RemovalsShrink
<1>7. ASSUME NEW o \in OrderIds, ExpireHash(o) \/ RemoveZrem(o) \/ RemoveDel(o)
      PROVE  SweepKnown'
  <2>1. UNCHANGED <<sweepList, sweepGone, unanswered>>
    BY <1>7 DEF ExpireHash, RemoveZrem, RemoveDel, sweep
  <2> QED
    BY <1>5, <1>7, <2>1, RemovalsShrink DEF Maintenance
<1>8. ASSUME NEW s \in Sides, SweepScan(s) PROVE SweepKnown'
  BY <1>8 DEF SweepScan, SweepKnown, Accounting, MembersSubmitted, book
<1>9. ASSUME NEW o \in OrderIds, SweepExists(o) PROVE SweepKnown'
  BY <1>9, NoHashType DEF SweepExists, SweepKnown, book
<1>10. ASSUME NEW o \in OrderIds, SweepZrem(o) PROVE SweepKnown'
  BY <1>10 DEF SweepZrem, SweepKnown
<1>12. ASSUME NEW o \in OrderIds, SweepExistsFails(o) \/ SweepZremFails(o) PROVE SweepKnown'
  BY <1>12 DEF SweepExistsFails, SweepZremFails, SweepKnown, book
<1>11. CASE UNCHANGED vars
  BY <1>11 DEF vars, book, sweep, SweepKnown
<1> QED
  BY <1>1, <1>2, <1>3, <1>4, <1>6, <1>7, <1>8, <1>9, <1>10, <1>11, <1>12
  DEF Next, SweepFault, Script, Visit, Maintenance

\* sweep_stale_orders never removes a live order whose EXISTS was answered,
\* although any number of scripts may run between its EXISTS and its ZREM.
THEOREM SweepTakesOnlyGhosts == Spec => []SweepSparesLive
<1>1. Init => BookType /\ Accounting /\ SweepKnown
  BY BookTypeInit, AccountingInit DEF Init, SweepKnown
<1>2. BookType /\ Accounting /\ SweepKnown /\ [Next]_vars => (BookType /\ Accounting /\ SweepKnown)'
  BY BookTypeNext, AccountingNext, SweepKnownNext
<1>3. SweepKnown => SweepSparesLive
  BY DEF SweepKnown, SweepSparesLive, Live
<1> QED
  BY <1>1, <1>2, <1>3, PTL DEF Spec

-------------------------------------------------------------------------------
(* The book is crossed only by orders whose fetch was cut short.           *)

Uncrossed ==
    \A b \in Resting("B") \ cut, a \in Resting("S") \ cut :
        (order[b].type = "L" /\ order[a].type = "L") => order[b].price < order[a].price

\* All candidates cross, and unless the LIMIT cut the fetch no live crossing order
\* has been left out.
WalkCovers ==
    pc = "walk" =>
        /\ \A r \in cands : Crosses(taker, r)
        /\ (taker \notin cut /\ status = "N" /\ remaining > 0) =>
              \A x \in Resting(Opposite(order[taker].side)) : Crosses(taker, x) => x \in cands

\* The score bound of the fetch and the price test of the loop agree.
LEMMA BoundIsCrossing ==
    ASSUME order \in [OrderIds -> Requests],
           NEW o \in OrderIds, NEW r \in OrderIds, order[r].side = Opposite(order[o].side)
    PROVE  Crosses(o, r) <=> WithinBound(o, r)
<1>1. /\ order[o].type \in {"L", "M"} /\ order[o].side \in Sides
      /\ order[o].price \in Int /\ order[r].price \in Int
  BY OrderFields
<1> QED
  BY <1>1 DEF Crosses, WithinBound, Score, Opposite, Sides

LEMMA RestingShrinks ==
    ASSUME BookType, BookShrinks, NEW s \in Sides
    PROVE  Resting(s)' \subseteq Resting(s)
<1>1. zset[s] \subseteq OrderIds /\ zset'[s] \subseteq zset[s]
  BY DEF BookType, BookShrinks
<1>2. ASSUME NEW o \in OrderIds, Live(o)' PROVE Live(o)
  BY <1>2 DEF Live, BookShrinks
<1> QED
  BY <1>1, <1>2 DEF Resting

LEMMA UncrossedShrink ==
    ASSUME BookType, Uncrossed, BookShrinks, UNCHANGED <<order, cut>>
    PROVE  Uncrossed'
<1>1. Resting("B")' \subseteq Resting("B") /\ Resting("S")' \subseteq Resting("S")
  BY RestingShrinks DEF Sides
<1> QED
  BY <1>1 DEF Uncrossed

\* A trade takes from both books only.
LEMMA TradeBook ==
    ASSUME BookType, NEW r \in OrderIds, Trade(r)
    PROVE  /\ \A s \in Sides : Resting(s)' \subseteq Resting(s)
           /\ remaining' > 0 => \A s \in Sides : r \notin Resting(s)'
<1>1. AtCandidate(r) /\ Live(r)
  BY OutcomeLive DEF Trade
<1>2. hash[r].remaining \in Nat /\ remaining \in Nat /\ hash \in [OrderIds -> HashType]
  BY HashRemaining DEF BookType
<1>3. \A s \in Sides : zset'[s] \subseteq zset[s] /\ zset[s] \subseteq OrderIds
  BY ZRemShrinks DEF Trade, BookType
<1>4. \A o \in OrderIds : o # r => hash'[o] = hash[o]
  BY <1>2 DEF Trade, Del
<1>5. \A s \in Sides : Resting(s)' \subseteq Resting(s)
  BY <1>1, <1>3, <1>4 DEF Resting, Live
<1>6. ASSUME remaining' > 0 PROVE hash[r].remaining - Fill(r) <= 0
  BY <1>2, <1>6 DEF Trade, Fill, MinOf
<1>7. ASSUME remaining' > 0 PROVE hash'[r] = NoHash
  BY <1>2, <1>6, <1>7 DEF Trade, Del
<1> QED
  BY <1>5, <1>7, NoHashType DEF Resting, Live

LEMMA UncrossedNext ==
    ASSUME BookType, Accounting, Uncrossed, WalkCovers, [Next]_vars
    PROVE  Uncrossed' /\ WalkCovers'
<1>a. order \in [OrderIds -> Requests]
  BY DEF BookType
<1>1. ASSUME NEW o \in OrderIds, Reject(o) PROVE Uncrossed' /\ WalkCovers'
  <2>1. UNCHANGED <<order, zset, hash, cut>> /\ pc' = "idle"
    BY <1>1 DEF Reject, book, history, script
  <2> QED
    BY <2>1 DEF Uncrossed, WalkCovers, Resting, Live
<1>2. ASSUME NEW o \in OrderIds, Begin(o) PROVE Uncrossed' /\ WalkCovers'
  <2>1. /\ UNCHANGED <<order, zset, hash>> /\ taker' = o /\ cands' = Fetch(o)
        /\ cut \subseteq cut' /\ (o \notin cut' => Fetch(o) = Eligible(o))
    BY <1>2 DEF Begin, book
  <2>2. Opposite(order[o].side) \in Sides
    BY <1>a, OrderFields DEF Opposite, Sides
  <2>3. \A r \in zset[Opposite(order[o].side)] :
          r \in OrderIds /\ order[r].side = Opposite(order[o].side)
    BY <2>2 DEF BookType, Accounting, MembersSubmitted
  <2>4. \A r \in Fetch(o) : Crosses(o, r)
    BY <1>a, <2>3, FetchFacts, BoundIsCrossing
  <2>5. o \notin cut' =>
          \A x \in zset[Opposite(order[o].side)] : Crosses(o, x) => x \in Fetch(o)
    BY <1>a, <2>1, <2>3, BoundIsCrossing DEF Eligible
  <2>6. Uncrossed'
    BY <2>1 DEF Uncrossed, Resting, Live
  <2>7. WalkCovers'
    BY <2>1, <2>4, <2>5 DEF WalkCovers, Resting, Live, Crosses
  <2> QED
    BY <2>6, <2>7
<1>3. ASSUME NEW r \in OrderIds, Trade(r) PROVE Uncrossed' /\ WalkCovers'
  <2>1. UNCHANGED <<order, cut, pc, taker, status>> /\ cands' = cands \ {r} /\ pc = "walk"
        /\ taker \in OrderIds /\ remaining > 0
    BY <1>3 DEF Trade, AtCandidate, BookType
  <2>2. \A s \in Sides : Resting(s)' \subseteq Resting(s)
    BY <1>3, TradeBook
  <2>3. remaining' > 0 => \A s \in Sides : r \notin Resting(s)'
    BY <1>3, TradeBook
  <2>4. Opposite(order[taker].side) \in Sides
    BY <1>a, <2>1, OrderFields DEF Opposite, Sides
  <2>5. Uncrossed'
    BY <2>1, <2>2 DEF Uncrossed, Sides
  <2>6. \A x \in cands : Crosses(taker, x)
    BY <2>1 DEF WalkCovers
  <2>7. \A x : Crosses(taker, x)' <=> Crosses(taker, x)
    BY <2>1 DEF Crosses
  <2>8. (taker \notin cut /\ status' = "N" /\ remaining' > 0) =>
          \A x \in Resting(Opposite(order[taker].side))' : Crosses(taker, x) => x \in cands'
    BY <2>1, <2>2, <2>3, <2>4 DEF WalkCovers
  <2>9. WalkCovers'
    BY <2>1, <2>6, <2>7, <2>8 DEF WalkCovers
  <2> QED
    BY <2>5, <2>9
<1>4. CASE Finish
  <2>1. /\ pc = "walk" /\ pc' = "idle" /\ taker \in OrderIds
        /\ UNCHANGED <<order, cut>>
    BY <1>4 DEF Finish, BookType, history
  <2>2. CASE ~Rests
    <3>1. UNCHANGED <<zset, hash>>
      BY <1>4, <2>2 DEF Finish, book
    <3> QED
      BY <2>1, <3>1 DEF Uncrossed, WalkCovers, Resting, Live
  <2>3. CASE Rests
    <3>1. status # "C" /\ remaining > 0 /\ remaining \in Nat
      BY <2>1, <2>3, FinalReply DEF BookType
    <3>2. status = "N" /\ cands = {}
      BY <1>4, <2>1, <3>1 DEF Finish, Accounting, TakerIsNew
    <3>3. order[taker].side \in Sides /\ order[taker].price \in Int
      BY <1>a, <2>1, OrderFields
    <3>4. taker \notin cut => \A x \in Resting(Opposite(order[taker].side)) : ~Crosses(taker, x)
      BY <2>1, <3>1, <3>2 DEF WalkCovers
    <3>5. \A s \in Sides : Resting(s)' \subseteq
            Resting(s) \cup (IF s = order[taker].side THEN {taker} ELSE {})
      <4>1. \A s \in Sides : zset[s] \subseteq OrderIds /\
              zset'[s] = IF s = order[taker].side THEN zset[s] \cup {taker} ELSE zset[s]
        BY <1>4, <2>3 DEF Finish, BookType
      <4>2. \A o \in OrderIds : o # taker => hash'[o] = hash[o]
        BY <1>4, <2>3 DEF Finish, BookType
      <4>3. \A s \in Sides : taker \in zset[s] => s = order[taker].side
        BY DEF Accounting, MembersSubmitted
      <4> QED
        BY <4>1, <4>2, <4>3 DEF Resting, Live
    <3>6. \A s \in Sides : \A x \in Resting(s) : order[x].price \in Int
      BY <1>a, OrderFields DEF Resting, BookType
    <3>7. CASE order[taker].side = "B"
      <4>1. (order[taker].type = "L" /\ taker \notin cut) =>
              \A a \in Resting("S") : order[taker].price < order[a].price
        BY <3>3, <3>4, <3>6, <3>7 DEF Crosses, Opposite, Sides
      <4>2. /\ Resting("B")' \subseteq Resting("B") \cup {taker}
            /\ Resting("S")' \subseteq Resting("S")
        BY <3>5, <3>7 DEF Sides
      <4> QED
        BY <2>1, <4>1, <4>2 DEF Uncrossed, WalkCovers
    <3>8. CASE order[taker].side = "S"
      <4>1. (order[taker].type = "L" /\ taker \notin cut) =>
              \A b \in Resting("B") : order[b].price < order[taker].price
        BY <3>3, <3>4, <3>6, <3>8 DEF Crosses, Opposite, Sides
      <4>2. /\ Resting("S")' \subseteq Resting("S") \cup {taker}
            /\ Resting("B")' \subseteq Resting("B")
        BY <3>5, <3>8 DEF Sides
      <4> QED
        BY <2>1, <4>1, <4>2 DEF Uncrossed, WalkCovers
    <3> QED
      BY <3>3, <3>7, <3>8 DEF Sides
  <2> QED
    BY <2>2, <2>3
<1>5. CASE \/ \E r \in OrderIds : SkipGhost(r) \/ LeaveLoop(r) \/ CancelMaker(r)
           \/ Maintenance
           \/ SweepFault
           \/ UNCHANGED vars
  <2>1. /\ BookShrinks
        /\ UNCHANGED <<order, pc, taker>>
        /\ cands' \subseteq cands
        /\ \/ status' = status /\ remaining' = remaining
           \/ status' = "C" /\ remaining' = 0
    BY <1>5, RemovalsShrink
  <2>c. cut' = cut
    BY <1>5
    DEF SkipGhost, LeaveLoop, CancelMaker, Maintenance, SweepFault, ExpireHash, RemoveZrem,
        RemoveDel, SweepScan, SweepExists, SweepZrem, SweepExistsFails, SweepZremFails, vars,
        history
  <2>2. Uncrossed'
    BY <2>1, <2>c, UncrossedShrink
  <2>3. ASSUME pc = "walk" PROVE Opposite(order[taker].side) \in Sides
    BY <1>a, <2>3, OrderFields DEF Opposite, Sides, BookType
  <2>4. ASSUME pc = "walk", status' = "N", remaining' > 0
        PROVE  \A x \in cands \ cands' : x \notin Resting(Opposite(order[taker].side))'
    <3>1. ASSUME NEW r \in OrderIds, SkipGhost(r)
          PROVE  \A x \in cands \ cands' : x \notin Resting(Opposite(order[taker].side))'
      <4>1. ~Live(r) /\ cands' = cands \ {r} /\ UNCHANGED hash
        BY <2>4, <3>1, OutcomeCases DEF SkipGhost, book
      <4> QED
        BY <4>1 DEF Resting, Live
    <3>2. ASSUME NEW r \in OrderIds, CancelMaker(r)
          PROVE  \A x \in cands \ cands' : x \notin Resting(Opposite(order[taker].side))'
      BY <3>2, NoHashType DEF CancelMaker, Del, Resting, Live, BookType
    <3>3. ASSUME NEW r \in OrderIds, LeaveLoop(r)
          PROVE  FALSE
      <4>1. Crosses(taker, r)
        BY <2>4, <3>3 DEF LeaveLoop, AtCandidate, WalkCovers
      <4> QED
        BY <2>4, <3>3, <4>1, OutcomeCases DEF LeaveLoop
    <3>4. ASSUME Maintenance \/ SweepFault \/ UNCHANGED vars
          PROVE  cands' = cands
      BY <3>4
      DEF Maintenance, SweepFault, ExpireHash, RemoveZrem, RemoveDel, SweepScan, SweepExists,
          SweepZrem, SweepExistsFails, SweepZremFails, vars, script
    <3> QED
      BY <1>5, <3>1, <3>2, <3>3, <3>4
  <2>5. \A x : Crosses(taker, x)' <=> Crosses(taker, x)
    BY <2>1 DEF Crosses
  <2>6. ASSUME pc = "walk", taker \notin cut, status' = "N", remaining' > 0,
               NEW x \in Resting(Opposite(order[taker].side))', Crosses(taker, x)
        PROVE  x \in cands'
    <3>1. x \in Resting(Opposite(order[taker].side))
      BY <2>1, <2>3, <2>6, RestingShrinks
    <3>2. x \in cands
      BY <2>1, <2>6, <3>1 DEF WalkCovers
    <3> QED
      BY <2>4, <2>6, <3>2
  <2>7. WalkCovers'
    BY <2>1, <2>c, <2>5, <2>6 DEF WalkCovers
  <2> QED
    BY <2>2, <2>7
<1> QED
  BY <1>1, <1>2, <1>3, <1>4, <1>5 DEF Next, Script, Visit

\* Whatever the LIMIT of the fetch, the script leaves a match undone only for an
\* order whose fetch was cut short: between two EVALs every other live limit bid is
\* below every other live limit ask, however many ghosts and market orders there are.
THEOREM BookStaysUncrossed == Spec => []BookUncrossed
<1>1. Init => BookType /\ Accounting /\ Uncrossed /\ WalkCovers
  BY BookTypeInit, AccountingInit DEF Init, Uncrossed, WalkCovers, Resting, Sides
<1>2. BookType /\ Accounting /\ Uncrossed /\ WalkCovers /\ [Next]_vars
        => (BookType /\ Accounting /\ Uncrossed /\ WalkCovers)'
  BY BookTypeNext, AccountingNext, UncrossedNext
<1>3. Uncrossed => BookUncrossed
  BY DEF Uncrossed, BookUncrossed
<1> QED
  BY <1>1, <1>2, <1>3, PTL DEF Spec

-------------------------------------------------------------------------------
(* The best price trades first.                                            *)

\* No live order outside the candidates comes before one of them.
WalkOrdered ==
    (pc = "walk" /\ remaining > 0) =>
        \A r \in cands, x \in Resting(Opposite(order[taker].side)) \ cands : Before(r, x)

\* Scores and then ids order any two orders.
LEMMA BeforeIsTotal ==
    ASSUME order \in [OrderIds -> Requests]
    PROVE  /\ \A x, y \in OrderIds : x # y => Before(x, y) \/ Before(y, x)
           /\ \A x, y, z \in OrderIds : Before(x, y) /\ Before(y, z) => Before(x, z)
<1>1. \A x \in OrderIds : Score(x) \in Int /\ x \in Int
  BY OrderFields, OrderIdsAssumption DEF Score
<1> QED
  BY <1>1 DEF Before

\* Whatever the LIMIT, the fetch cuts the sorted set at one place.
LEMMA FetchIsPrefix ==
    ASSUME BookType, Accounting, NEW o \in OrderIds, NEW r \in Fetch(o),
           NEW x \in zset[Opposite(order[o].side)], x \notin Fetch(o)
    PROVE  Before(r, x)
<1> DEFINE eligible == {y \in zset[Opposite(order[o].side)] : WithinBound(o, y)}
           ahead(z) == {y \in eligible : Before(y, z)}
<1>1. Opposite(order[o].side) \in Sides /\ order[o].price \in Int
  BY OrderFields DEF BookType, Opposite, Sides
<1>2. zset[Opposite(order[o].side)] \subseteq OrderIds
  BY <1>1 DEF BookType
<1>3. r \in eligible /\ r \in OrderIds /\ x \in OrderIds /\ r # x
  BY <1>2, FetchFacts
<1>4. Score(r) \in Int /\ Score(x) \in Int
  BY <1>3, OrderFields DEF Score, BookType
<1>5. CASE x \notin eligible
  BY <1>1, <1>3, <1>4, <1>5 DEF WithinBound, Before
<1>6. CASE x \in eligible
  <2>1. Cardinality(ahead(r)) < FetchLimit /\ ~(Cardinality(ahead(x)) < FetchLimit)
    BY <1>6 DEF Fetch, Eligible
  <2> SUFFICES ASSUME Before(x, r) PROVE FALSE
    BY <1>3, BeforeIsTotal DEF BookType
  <2>2. ahead(x) \subseteq ahead(r)
    BY <1>2, <1>3, BeforeIsTotal DEF BookType
  <2>3. IsFiniteSet(ahead(r))
    BY <1>2, OrderIdsAssumption, FS_Subset
  <2>4. IsFiniteSet(ahead(x)) /\ Cardinality(ahead(x)) <= Cardinality(ahead(r))
    BY <2>2, <2>3, FS_Subset
  <2>5. Cardinality(ahead(x)) \in Nat /\ Cardinality(ahead(r)) \in Nat
    BY <2>3, <2>4, FS_CardinalityType
  <2> QED
    BY <2>1, <2>4, <2>5, FetchLimitAssumption
<1> QED
  BY <1>5, <1>6

\* A candidate the walk leaves behind without a trade is not live, unless the
\* walk is over.
LEMMA CandidatesLeave ==
    ASSUME BookType, pc = "walk",
           \/ \E r \in OrderIds : SkipGhost(r) \/ LeaveLoop(r) \/ CancelMaker(r)
           \/ Maintenance
           \/ SweepFault
           \/ UNCHANGED vars
    PROVE  \/ cands' = {}
           \/ \A x \in cands \ cands' : \A s \in Sides : x \notin Resting(s)'
<1>1. ASSUME NEW r \in OrderIds, SkipGhost(r)
      PROVE  \A x \in cands \ cands' : \A s \in Sides : x \notin Resting(s)'
  <2>1. ~Live(r) /\ cands' = cands \ {r} /\ UNCHANGED hash
    BY <1>1, OutcomeCases DEF SkipGhost, book
  <2> QED
    BY <2>1 DEF Resting, Live
<1>2. ASSUME NEW r \in OrderIds, CancelMaker(r)
      PROVE  \A x \in cands \ cands' : \A s \in Sides : x \notin Resting(s)'
  BY <1>2, NoHashType DEF CancelMaker, Del, Resting, Live, BookType
<1>3. ASSUME NEW r \in OrderIds, LeaveLoop(r)
      PROVE  cands' = {}
  BY <1>3 DEF LeaveLoop
<1>4. ASSUME Maintenance \/ SweepFault \/ UNCHANGED vars
      PROVE  cands' = cands
  BY <1>4
  DEF Maintenance, SweepFault, ExpireHash, RemoveZrem, RemoveDel, SweepScan, SweepExists,
      SweepZrem, SweepExistsFails, SweepZremFails, vars, script
<1> QED
  BY <1>1, <1>2, <1>3, <1>4

LEMMA WalkOrderedNext ==
    ASSUME BookType, Accounting, WalkOrdered, [Next]_vars
    PROVE  WalkOrdered'
<1>a. order \in [OrderIds -> Requests]
  BY DEF BookType
<1>t. ASSUME pc = "walk" PROVE Opposite(order[taker].side) \in Sides
  BY <1>a, <1>t, OrderFields DEF Opposite, Sides, BookType
<1>1. ASSUME NEW o \in OrderIds, Reject(o) PROVE WalkOrdered'
  BY <1>1 DEF Reject, script, WalkOrdered
<1>2. ASSUME NEW o \in OrderIds, Begin(o) PROVE WalkOrdered'
  <2>1. UNCHANGED <<order, zset, hash>> /\ taker' = o /\ cands' = Fetch(o)
    BY <1>2 DEF Begin, book
  <2>2. \A r \in Fetch(o), x \in zset[Opposite(order[o].side)] \ Fetch(o) : Before(r, x)
    BY FetchIsPrefix
  <2> QED
    BY <2>1, <2>2 DEF WalkOrdered, Resting, Live, Before, Score
<1>3. ASSUME NEW r \in OrderIds, Trade(r) PROVE WalkOrdered'
  <2>1. UNCHANGED <<order, taker>> /\ cands' = cands \ {r} /\ pc = "walk" /\ remaining > 0
    BY <1>3 DEF Trade, AtCandidate
  <2>2. \A s \in Sides : Resting(s)' \subseteq Resting(s)
    BY <1>3, TradeBook
  <2>3. remaining' > 0 => \A s \in Sides : r \notin Resting(s)'
    BY <1>3, TradeBook
  <2> QED
    BY <1>t, <2>1, <2>2, <2>3 DEF WalkOrdered, Before, Score
<1>4. CASE Finish
  BY <1>4 DEF Finish, WalkOrdered
<1>5. CASE \/ \E r \in OrderIds : SkipGhost(r) \/ LeaveLoop(r) \/ CancelMaker(r)
           \/ Maintenance
           \/ SweepFault
           \/ UNCHANGED vars
  <2>1. /\ BookShrinks
        /\ UNCHANGED <<order, pc, taker>>
        /\ cands' \subseteq cands
        /\ remaining' = remaining \/ remaining' = 0
    BY <1>5, RemovalsShrink
  <2>2. \A s \in Sides : Resting(s)' \subseteq Resting(s)
    BY <2>1, RestingShrinks
  <2>3. ASSUME pc = "walk"
        PROVE  \/ cands' = {}
               \/ \A x \in cands \ cands' : \A s \in Sides : x \notin Resting(s)'
    BY <1>5, <2>3, CandidatesLeave
  <2> QED
    BY <1>t, <2>1, <2>2, <2>3 DEF WalkOrdered, Before, Score
<1> QED
  BY <1>1, <1>2, <1>3, <1>4, <1>5 DEF Next, Script, Visit

\* The maker of a new trade is the best live order of its side.
LEMMA TradeTakesBest ==
    ASSUME BookType, Accounting, WalkOrdered, [Next]_vars,
           NEW t \in trades' \ trades, NEW x \in Resting(order[t.maker].side)
    PROVE  IF order[x].side = "B" THEN order[t.maker].price >= order[x].price
                                  ELSE order[t.maker].price <= order[x].price
<1>1. PICK r \in OrderIds : Trade(r)
  <2>1. CASE \E o \in OrderIds : Reject(o) \/ Begin(o)
    BY <2>1 DEF Reject, Begin, history
  <2>2. CASE Finish
    BY <2>2 DEF Finish, history
  <2>3. CASE \/ \E r \in OrderIds : SkipGhost(r) \/ LeaveLoop(r) \/ CancelMaker(r)
             \/ Maintenance
             \/ SweepFault
             \/ UNCHANGED vars
    BY <2>3, RemovalsShrink
  <2> QED
    BY <2>1, <2>2, <2>3 DEF Next, Script, Visit
<1>2. t.maker = r
  BY <1>1 DEF Trade
<1>3. pc = "walk" /\ remaining > 0 /\ r \in cands /\ taker \in OrderIds
      /\ \A y \in cands \ {r} : Before(r, y)
  BY <1>1 DEF Trade, AtCandidate, BookType
<1>4. order[r].side \in Sides /\ order[taker].side \in Sides
  BY <1>3, OrderFields DEF BookType
<1>5. order[r].side = Opposite(order[taker].side)
  BY <1>3, <1>4 DEF Accounting, TakerIsNew, Opposite, Sides
<1>6. x = r \/ Before(r, x)
  BY <1>2, <1>3, <1>5 DEF WalkOrdered
<1>7. x \in OrderIds /\ order[x].side = order[r].side
  BY <1>2, <1>4 DEF Resting, BookType, Accounting, MembersSubmitted
<1>8. order[x].price \in Int /\ order[r].price \in Int
  BY <1>7, OrderFields DEF BookType
<1> QED
  BY <1>2, <1>4, <1>6, <1>7, <1>8 DEF Before, Score, Sides

\* Whatever the LIMIT of the fetch, and whatever ghosts, cancellations and
\* self-trade rules the walk meets, a trade never takes a maker while a live
\* order of that side has a better price.
THEOREM BestPriceTradesFirst == Spec => BestPriceFirst
<1>1. Init => BookType /\ Accounting /\ WalkOrdered
  BY BookTypeInit, AccountingInit DEF Init, WalkOrdered
<1>2. BookType /\ Accounting /\ WalkOrdered /\ [Next]_vars
        => (BookType /\ Accounting /\ WalkOrdered)'
  BY BookTypeNext, AccountingNext, WalkOrderedNext
<1>3. BookType /\ Accounting /\ WalkOrdered /\ [Next]_vars
        => [\A t \in trades' \ trades :
              \A x \in Resting(order[t.maker].side) :
                  IF order[x].side = "B" THEN order[t.maker].price >= order[x].price
                                         ELSE order[t.maker].price <= order[x].price]_vars
  BY TradeTakesBest
<1> QED
  BY <1>1, <1>2, <1>3, PTL DEF Spec, BestPriceFirst

-------------------------------------------------------------------------------
(* The script implements the abstract exchange.                            *)

\* Only orders that were reported open are on the book, and the candidates are
\* still there when the loop comes to them.
OpenBook ==
    /\ \A s \in Sides : \A o \in zset[s] : reply[o].status \in {"N", "PF"}
    /\ pc = "walk" => \A r \in cands : r \in zset[order[r].side]

LEMMA RejectedReply == Rejected # NotSubmitted /\ Rejected.status \notin OrderStatuses
                       /\ NotSubmitted.status \notin OrderStatuses
BY DEF Rejected, NotSubmitted, OrderStatuses

\* What leaves the sorted sets while the script runs leaves the candidates too.
LEMMA CandidatesOnBook ==
    ASSUME BookType, OpenBook, pc = "walk",
           \/ \E r \in OrderIds : SkipGhost(r) \/ LeaveLoop(r) \/ CancelMaker(r) \/ Trade(r)
           \/ Maintenance
           \/ SweepFault
           \/ UNCHANGED vars
    PROVE  \A x \in cands' : x \in zset'[order[x].side]
<1>z. zset \in [Sides -> SUBSET OrderIds] /\ cands \subseteq OrderIds
  BY DEF BookType
<1>o. \A x \in cands : x \in zset[order[x].side] /\ order[x].side \in Sides
  BY OrderFields DEF OpenBook, BookType
<1>1. ASSUME NEW r \in OrderIds, ZRem(order[r].side, r), cands' = cands \ {r}
      PROVE  \A x \in cands' : x \in zset'[order[x].side]
  BY <1>1, <1>z, <1>o DEF ZRem
<1>2. ASSUME NEW r \in OrderIds, Trade(r)
      PROVE  \A x \in cands' : x \in zset'[order[x].side]
  BY <1>1, <1>2, <1>o DEF Trade
<1>3. ASSUME NEW r \in OrderIds, SkipGhost(r) \/ CancelMaker(r)
      PROVE  \A x \in cands' : x \in zset'[order[x].side]
  BY <1>1, <1>3, <1>o DEF SkipGhost, CancelMaker, book
<1>4. ASSUME NEW r \in OrderIds, LeaveLoop(r)
      PROVE  cands' = {}
  BY <1>4 DEF LeaveLoop
<1>5. ASSUME Maintenance
      PROVE  FALSE
  BY <1>5 DEF Maintenance, ExpireHash, RemoveZrem, RemoveDel, SweepScan, SweepExists, SweepZrem
<1>6. ASSUME SweepFault \/ UNCHANGED vars
      PROVE  UNCHANGED <<cands, zset>>
  BY <1>6 DEF SweepFault, SweepExistsFails, SweepZremFails, vars, book, script
<1> QED
  BY <1>2, <1>3, <1>4, <1>5, <1>6, <1>o

LEMMA OpenBookNext ==
    ASSUME BookType, Accounting, OpenBook, [Next]_vars
    PROVE  OpenBook'
<1>z. \A s \in Sides : zset[s] \subseteq OrderIds
  BY DEF BookType
<1>1. ASSUME NEW o \in OrderIds, Reject(o) PROVE OpenBook'
  <2>1. UNCHANGED <<zset>> /\ pc' = "idle" /\ reply[o] = NotSubmitted
    BY <1>1 DEF Reject, book, script
  <2>2. \A x \in OrderIds : x # o => reply'[x] = reply[x]
    BY <1>1 DEF Reject, BookType
  <2>3. \A s \in Sides : o \notin zset[s]
    BY <2>1 DEF Accounting, MembersSubmitted
  <2> QED
    BY <1>z, <2>1, <2>2, <2>3 DEF OpenBook
<1>2. ASSUME NEW o \in OrderIds, Begin(o) PROVE OpenBook'
  <2>1. UNCHANGED <<zset, reply, order>> /\ cands' = Fetch(o)
    BY <1>2 DEF Begin, book
  <2>2. \A r \in Fetch(o) : r \in zset[order[r].side]
    <3>1. Opposite(order[o].side) \in Sides
      BY OrderFields DEF BookType, Opposite, Sides
    <3> QED
      BY <3>1, FetchFacts DEF Accounting, MembersSubmitted
  <2> QED
    BY <2>1, <2>2 DEF OpenBook
<1>3. CASE Finish
  <2>1. pc = "walk" /\ pc' = "idle" /\ taker \in OrderIds
    BY <1>3 DEF Finish, BookType
  <2>2. \A x \in OrderIds : x # taker => reply'[x] = reply[x]
    BY <1>3 DEF Finish, BookType
  <2>3. reply'[taker].status = FinalStatus
    BY <1>3, <2>1 DEF Finish, BookType
  <2>4. CASE ~Rests
    <3>1. zset' = zset
      BY <1>3, <2>4 DEF Finish, book
    <3>2. \A s \in Sides : taker \notin zset[s]
      BY <2>1 DEF Accounting, MembersSubmitted, TakerIsNew
    <3> QED
      BY <1>z, <2>1, <2>2, <3>1, <3>2 DEF OpenBook
  <2>5. CASE Rests
    <3>1. FinalStatus \in {"N", "PF"}
      BY <2>1, <2>5, FinalReply
    <3>2. \A s \in Sides : zset'[s] \subseteq zset[s] \cup {taker}
      BY <1>3, <2>5 DEF Finish, BookType
    <3> QED
      BY <1>z, <2>1, <2>2, <2>3, <3>1, <3>2 DEF OpenBook
  <2> QED
    BY <2>4, <2>5
<1>4. CASE \/ \E r \in OrderIds : SkipGhost(r) \/ LeaveLoop(r) \/ CancelMaker(r) \/ Trade(r)
           \/ Maintenance
           \/ SweepFault
           \/ UNCHANGED vars
  <2>1. UNCHANGED <<order, reply, pc>>
    BY <1>4, RemovalsShrink DEF Trade
  <2>2. \A s \in Sides : zset'[s] \subseteq zset[s]
    <3>1. ASSUME NEW r \in OrderIds, Trade(r)
          PROVE  \A s \in Sides : zset'[s] \subseteq zset[s]
      BY <3>1, ZRemShrinks DEF Trade, BookType
    <3> QED
      BY <1>4, <3>1, RemovalsShrink DEF BookShrinks
  <2>3. pc = "walk" => \A x \in cands' : x \in zset'[order[x].side]
    BY <1>4, CandidatesOnBook
  <2> QED
    BY <2>1, <2>2, <2>3 DEF OpenBook
<1> QED
  BY <1>1, <1>2, <1>3, <1>4 DEF Next, Script, Visit

\* The orders the exchange has taken on, as the refinement mapping sees them.
Taken == {o \in OrderIds : Submitted(o) /\ reply[o] # Rejected}

\* Only an order that was taken on has something left.
LEMMA LeftIsTaken ==
    ASSUME BookType, Accounting, OpenBook, NEW o \in OrderIds
    PROVE  /\ Left(o) \in Nat
           /\ Left(o) # 0 => o \in Taken
<1>1. order[o].side \in Sides /\ hash[o].remaining \in Nat /\ remaining \in Nat
  BY OrderFields, HashRemaining DEF BookType
<1>2. CASE pc = "walk" /\ taker = o
  BY <1>1, <1>2, RejectedReply DEF Left, Taken, Submitted, Accounting, TakerIsNew
<1>3. CASE ~(pc = "walk" /\ taker = o)
  <2>1. Left(o) # 0 => o \in zset[order[o].side]
    BY <1>3 DEF Left
  <2> QED
    BY <1>1, <1>3, <2>1, RejectedReply DEF Left, Taken, Submitted, OpenBook, OrderStatuses
<1> QED
  BY <1>2, <1>3

\* Losing what is left, and nothing else, is a withdrawal.
LEMMA LossIsWithdrawal ==
    ASSUME BookType, Accounting, OpenBook,
           UNCHANGED <<order, filled, Taken>>,
           \A o \in OrderIds : Left(o)' = Left(o) \/ Left(o)' = 0
    PROVE  Exch!Next
<1> DEFINE W == {o \in OrderIds : Left(o) # 0 /\ Left(o)' = 0}
<1>1. W \subseteq Taken
  BY LeftIsTaken
<1>2. [o \in OrderIds |-> Left(o)]'
        = [o \in OrderIds |-> IF o \in W THEN 0 ELSE [x \in OrderIds |-> Left(x)][o]]
  OBVIOUS
<1>3. Exch!Withdraw(W)
  BY <1>1, <1>2 DEF Exch!Withdraw, Taken
<1> QED
  BY <1>3 DEF Exch!Next

LEMMA RefinementInit == Init => Exch!Init
<1> SUFFICES ASSUME Init PROVE Exch!Init
  OBVIOUS
<1>1. {o \in OrderIds : Submitted(o) /\ reply[o] # Rejected} = {}
  BY DEF Init, Submitted
<1>2. [o \in OrderIds |-> Left(o)] = [o \in OrderIds |-> 0]
  <2>1. \A o \in OrderIds : order[o].side \in Sides
    BY OrderFields DEF Init
  <2> QED
    BY <2>1 DEF Init, Left
<1> QED
  BY <1>1, <1>2 DEF Init, Exch!Init

LEMMA RejectRefines ==
    ASSUME BookType, Accounting, NEW o \in OrderIds, Reject(o)
    PROVE  UNCHANGED Exch!xvars
<1>1. UNCHANGED <<order, zset, hash, filled, pc, taker, remaining>> /\ pc = "idle"
      /\ reply[o] = NotSubmitted
  BY DEF Reject, book, history, script
<1>2. \A x \in OrderIds : reply'[x] = IF x = o THEN Rejected ELSE reply[x]
  BY DEF Reject, BookType
<1>3. Taken' = Taken
  BY <1>1, <1>2, RejectedReply DEF Taken, Submitted
<1>4. \A x \in OrderIds : Left(x)' = Left(x)
  BY <1>1 DEF Left
<1> QED
  BY <1>1, <1>3, <1>4 DEF Exch!xvars, Taken

LEMMA BeginRefines ==
    ASSUME BookType, Accounting, NEW o \in OrderIds, Begin(o)
    PROVE  Exch!Next
<1>1. /\ UNCHANGED <<order, zset, hash, filled, reply>> /\ pc = "idle"
      /\ reply[o] = NotSubmitted
      /\ pc' = "walk" /\ taker' = o /\ remaining' = order[o].qty
  BY DEF Begin, book, history
<1>2. o \notin Taken /\ Taken' = Taken \cup {o}
  BY <1>1, RejectedReply DEF Taken, Submitted
<1>3. \A x \in OrderIds : Left(x)' = IF x = o THEN order[o].qty ELSE Left(x)
  BY <1>1 DEF Left
<1>4. [x \in OrderIds |-> Left(x)]' = [[x \in OrderIds |-> Left(x)] EXCEPT ![o] = order[o].qty]
  BY <1>3
<1>5. Exch!Accept(o)
  BY <1>1, <1>2, <1>4 DEF Exch!Accept, Taken
<1> QED
  BY <1>5 DEF Exch!Next

\* What a trade does to what is left of the orders.
LEMMA TradeLeft ==
    ASSUME BookType, Accounting, OpenBook, NEW r \in OrderIds, Trade(r)
    PROVE  /\ taker \in OrderIds /\ taker # r
           /\ Left(taker) = remaining /\ Left(r) = hash[r].remaining
           /\ \A x \in OrderIds :
                Left(x)' = IF x \in {taker, r} THEN Left(x) - Fill(r) ELSE Left(x)
           /\ \A x \in OrderIds :
                filled'[x] = IF x \in {taker, r} THEN filled[x] + Fill(r) ELSE filled[x]
<1>1. /\ pc = "walk" /\ r \in cands /\ taker \in OrderIds /\ AtCandidate(r) /\ Live(r)
      /\ remaining \in Nat
  BY OutcomeLive DEF Trade, AtCandidate, BookType
<1>2. taker # r
  BY <1>1 DEF Accounting, TakerIsNew
<1>3. Fill(r) \in Nat /\ Fill(r) <= remaining /\ Fill(r) <= hash[r].remaining
  BY <1>1, FillBounds
<1>4. hash[r].remaining \in Nat /\ hash \in [OrderIds -> HashType]
  BY HashRemaining DEF BookType
<1>5. \A x \in OrderIds : order[x].side \in Sides
  BY OrderFields DEF BookType
<1>6. r \in zset[order[r].side]
  BY <1>1 DEF OpenBook
<1>7. Left(taker) = remaining /\ Left(r) = hash[r].remaining
  BY <1>1, <1>2, <1>6 DEF Left
<1>8. UNCHANGED <<order, pc, taker>> /\ remaining' = remaining - Fill(r)
  BY DEF Trade
<1>9. \A x \in OrderIds : x = taker => Left(x)' = Left(x) - Fill(r)
  BY <1>1, <1>7, <1>8 DEF Left
<1>10. ASSUME NEW x \in OrderIds, x # taker
       PROVE  Left(x)' = IF x = r THEN Left(x) - Fill(r) ELSE Left(x)
  <2>1. CASE hash[r].remaining - Fill(r) <= 0
    <3>1. zset' = [zset EXCEPT ![order[r].side] = @ \ {r}] /\ hash' = [hash EXCEPT ![r] = NoHash]
      BY <2>1 DEF Trade, ZRem, Del
    <3>2. zset'[order[x].side] =
            IF order[x].side = order[r].side THEN zset[order[x].side] \ {r}
                                             ELSE zset[order[x].side]
      BY <1>5, <3>1 DEF BookType
    <3>3. CASE x = r
      <4>1. Left(x)' = 0
        BY <1>8, <1>10, <3>2, <3>3 DEF Left
      <4> QED
        BY <1>3, <1>4, <1>7, <2>1, <3>3, <4>1
    <3>4. CASE x # r
      <4>1. hash'[x] = hash[x] /\ (x \in zset'[order[x].side] <=> x \in zset[order[x].side])
        BY <1>4, <3>1, <3>2, <3>4
      <4> QED
        BY <1>8, <1>10, <3>4, <4>1 DEF Left
    <3> QED
      BY <3>3, <3>4
  <2>2. CASE ~(hash[r].remaining - Fill(r) <= 0)
    <3>1. zset' = zset /\ hash' = [hash EXCEPT ![r] = [remaining |-> hash[r].remaining - Fill(r),
                                                       status |-> "PF"]]
      BY <2>2 DEF Trade
    <3>2. hash'[x].remaining =
            IF x = r THEN hash[r].remaining - Fill(r) ELSE hash[x].remaining
      BY <1>4, <3>1
    <3> QED
      BY <1>6, <1>7, <1>8, <1>10, <3>1, <3>2 DEF Left
  <2> QED
    BY <2>1, <2>2
<1>11. \A x \in OrderIds :
         filled'[x] = IF x \in {taker, r} THEN filled[x] + Fill(r) ELSE filled[x]
  BY <1>1, <1>2 DEF Trade, BookType
<1> QED
  BY <1>1, <1>2, <1>7, <1>9, <1>10, <1>11

LEMMA TradeRefines ==
    ASSUME BookType, Accounting, OpenBook, NEW r \in OrderIds, Trade(r)
    PROVE  Exch!Next
<1>1. pc = "walk" /\ r \in cands /\ AtCandidate(r) /\ Live(r)
  BY OutcomeLive DEF Trade, AtCandidate
<1>2. /\ Fill(r) \in Nat /\ 1 <= Fill(r) /\ Fill(r) <= remaining
      /\ Fill(r) <= hash[r].remaining
  BY <1>1, FillBounds
<1>3. /\ taker \in OrderIds /\ taker # r
      /\ Left(taker) = remaining /\ Left(r) = hash[r].remaining
  BY TradeLeft
<1>4. \A x \in OrderIds :
        /\ Left(x)' = IF x \in {taker, r} THEN Left(x) - Fill(r) ELSE Left(x)
        /\ filled'[x] = IF x \in {taker, r} THEN filled[x] + Fill(r) ELSE filled[x]
  BY TradeLeft
<1>5. UNCHANGED <<order, reply, pc, taker>>
  BY DEF Trade
<1>6. Taken' = Taken
  BY <1>5 DEF Taken, Submitted
<1>7. \A x \in {taker, r} :
        x \in Taken /\ Left(x) \in Nat /\ Fill(r) <= Left(x) /\ Fill(r) <= order[x].qty
  <2>1. \A x \in {taker, r} : x \in Taken /\ Left(x) \in Nat /\ Fill(r) <= Left(x)
    BY <1>2, <1>3, LeftIsTaken
  <2>2. \A x \in {taker, r} :
          filled[x] + Left(x) <= order[x].qty /\ filled[x] \in Nat /\ order[x].qty \in Nat
    BY <1>3, AccountingImplies, OrderFields DEF QuantityAccounted, BookType
  <2> QED
    BY <1>2, <2>1, <2>2
<1>8. Crosses(taker, r)
  BY <1>1, OutcomeCases DEF Trade
<1>9. /\ order[taker].side \in Sides /\ order[r].side \in Sides
      /\ order[taker].type \in {"L", "M"} /\ order[r].type \in {"L", "M"}
      /\ order[taker].price \in Int /\ order[r].price \in Int
      /\ order[r].side # order[taker].side
  BY <1>1, <1>3, OrderFields DEF BookType, Accounting, TakerIsNew
<1> DEFINE b == IF order[taker].side = "B" THEN taker ELSE r
           s == IF order[taker].side = "B" THEN r ELSE taker
<1>10. b \in OrderIds /\ s \in OrderIds /\ b # s /\ {b, s} = {taker, r}
  BY <1>3
<1>11. Exch!Compatible(b, s)
  BY <1>8, <1>9 DEF Exch!Compatible, Crosses, Sides
<1> HIDE DEF b, s
<1>12. [x \in OrderIds |-> Left(x)]'
         = [[x \in OrderIds |-> Left(x)] EXCEPT ![b] = @ - Fill(r), ![s] = @ - Fill(r)]
  BY <1>4, <1>10
<1>13. filled' = [filled EXCEPT ![b] = @ + Fill(r), ![s] = @ + Fill(r)]
  <2>1. filled \in [OrderIds -> Nat] /\ filled' \in [OrderIds -> Nat]
    BY BookTypeNext DEF BookType, Next, Script, Visit
  <2> QED
    BY <1>4, <1>10, <2>1
<1>14. Exch!Execute(b, s, Fill(r))
  <2>1. {b, s} \subseteq Taken
    BY <1>7, <1>10
  <2>2. Fill(r) \in 1 .. Left(b) /\ Fill(r) <= Left(s)
    BY <1>2, <1>7, <1>10
  <2> QED
    BY <1>5, <1>6, <1>10, <1>11, <1>12, <1>13, <2>1, <2>2 DEF Exch!Execute, Taken
<1>15. Fill(r) \in 1 .. order[b].qty
  <2>1. Fill(r) <= order[b].qty /\ order[b].qty \in Nat
    BY <1>7, <1>10, OrderFields DEF BookType
  <2> QED
    BY <1>2, <2>1
<1> QED
  BY <1>10, <1>14, <1>15 DEF Exch!Next

\* The rest of an order is placed on the book as it is, or withdrawn.
LEMMA FinishRefines ==
    ASSUME BookType, Accounting, OpenBook, Finish
    PROVE  Exch!Next
<1>1. pc = "walk" /\ pc' = "idle" /\ taker \in OrderIds /\ UNCHANGED <<order, filled>>
  BY DEF Finish, BookType, history
<1>2. \A x \in OrderIds : x # taker => reply'[x] = reply[x]
  BY <1>1 DEF Finish, BookType
<1>3. reply'[taker].status = FinalStatus /\ FinalStatus \in OrderStatuses
  BY <1>1, FinalReply DEF Finish, BookType
<1>4. reply[taker] = NotSubmitted
  BY <1>1 DEF Accounting, TakerIsNew
<1>5. Taken' = Taken
  BY <1>1, <1>2, <1>3, <1>4, RejectedReply DEF Taken, Submitted
<1>6. \A x \in OrderIds : order[x].side \in Sides
  BY OrderFields DEF BookType
<1>7. \A x \in OrderIds : x # taker =>
        hash'[x] = hash[x] /\ (x \in zset'[order[x].side] <=> x \in zset[order[x].side])
  BY <1>1, <1>6 DEF Finish, BookType, book
<1>8. Left(taker) = remaining
  BY <1>1 DEF Left
<1>9. CASE Rests
  <2>1. taker \in zset'[order[taker].side] /\ hash'[taker].remaining = remaining
    BY <1>1, <1>6, <1>9 DEF Finish, BookType
  <2>2. \A x \in OrderIds : Left(x)' = Left(x)
    BY <1>1, <1>7, <1>8, <2>1 DEF Left
  <2> QED
    BY <1>1, <1>5, <2>2, LossIsWithdrawal
<1>10. CASE ~Rests
  <2>1. taker \notin zset'[order[taker].side]
    BY <1>1, <1>4, <1>6, <1>10 DEF Finish, book, Accounting, MembersSubmitted
  <2>2. \A x \in OrderIds : Left(x)' = Left(x) \/ Left(x)' = 0
    BY <1>1, <1>7, <2>1 DEF Left
  <2> QED
    BY <1>1, <1>5, <2>2, LossIsWithdrawal
<1> QED
  BY <1>9, <1>10

LEMMA StepRefines ==
    ASSUME BookType, Accounting, OpenBook, [Next]_vars
    PROVE  [Exch!Next]_(Exch!xvars)
<1>1. CASE \E o \in OrderIds : Reject(o)
  BY <1>1, RejectRefines
<1>2. CASE \E o \in OrderIds : Begin(o)
  BY <1>2, BeginRefines
<1>3. CASE \E r \in OrderIds : Trade(r)
  BY <1>3, TradeRefines
<1>4. CASE Finish
  BY <1>4, FinishRefines
<1>5. CASE \/ \E r \in OrderIds : SkipGhost(r) \/ LeaveLoop(r) \/ CancelMaker(r)
           \/ Maintenance
           \/ SweepFault
           \/ UNCHANGED vars
  <2>1. /\ BookShrinks
        /\ UNCHANGED <<order, reply, filled, pc, taker>>
        /\ remaining' = remaining \/ remaining' = 0
    BY <1>5, RemovalsShrink
  <2>2. Taken' = Taken
    BY <2>1 DEF Taken, Submitted
  <2>3. \A o \in OrderIds : order[o].side \in Sides
    BY OrderFields DEF BookType
  <2>4. \A o \in OrderIds : Left(o)' = Left(o) \/ Left(o)' = 0
    BY <2>1, <2>3 DEF Left, BookShrinks
  <2> QED
    BY <2>1, <2>2, <2>4, LossIsWithdrawal
<1> QED
  BY <1>1, <1>2, <1>3, <1>4, <1>5 DEF Next, Script, Visit

\* match_order.lua, the cancellations, the expiry and the sweep together implement
\* the abstract exchange: an order is accepted once with its full quantity, trades
\* unit for unit at compatible prices, or is withdrawn and never comes back.
THEOREM BookImplementsExchange == Spec => ImplementsExchange
<1>1. Init => Exch!Init /\ BookType /\ Accounting /\ OpenBook
  BY RefinementInit, BookTypeInit, AccountingInit DEF Init, OpenBook
<1>2. BookType /\ Accounting /\ OpenBook /\ [Next]_vars => (BookType /\ Accounting /\ OpenBook)'
  BY BookTypeNext, AccountingNext, OpenBookNext
<1>3. BookType /\ Accounting /\ OpenBook /\ [Next]_vars => [Exch!Next]_(Exch!xvars)
  BY StepRefines
<1> QED
  BY <1>1, <1>2, <1>3, PTL DEF Spec, ImplementsExchange, Exch!Spec

-------------------------------------------------------------------------------
(* The funds behind the book.                                              *)

\* Only Begin takes an order on and moves funds.
LEMMA TakenSteady ==
    ASSUME BookType, Accounting, [Next]_vars, ~\E o \in OrderIds : Begin(o)
    PROVE  Taken' = Taken /\ UNCHANGED <<order, available, locked>>
<1>1. CASE \E o \in OrderIds : Reject(o)
  <2>1. PICK o \in OrderIds : Reject(o)
    BY <1>1
  <2>2. /\ UNCHANGED <<order, available, locked, pc, taker>> /\ pc = "idle"
        /\ reply[o] = NotSubmitted
    BY <2>1 DEF Reject, funds, script
  <2>3. \A x \in OrderIds : reply'[x] = IF x = o THEN Rejected ELSE reply[x]
    BY <2>1 DEF Reject, BookType
  <2> QED
    BY <2>2, <2>3, RejectedReply DEF Taken, Submitted
<1>2. CASE Finish
  <2>1. pc = "walk" /\ pc' = "idle" /\ taker \in OrderIds /\ UNCHANGED <<order, available, locked>>
    BY <1>2 DEF Finish, BookType, funds
  <2>2. \A x \in OrderIds : x # taker => reply'[x] = reply[x]
    BY <1>2, <2>1 DEF Finish, BookType
  <2>3. reply'[taker].status = FinalStatus /\ FinalStatus \in OrderStatuses
    BY <1>2, <2>1, FinalReply DEF Finish, BookType
  <2>4. reply[taker] = NotSubmitted
    BY <2>1 DEF Accounting, TakerIsNew
  <2> QED
    BY <2>1, <2>2, <2>3, <2>4, RejectedReply DEF Taken, Submitted
<1>3. CASE \/ \E r \in OrderIds : SkipGhost(r) \/ LeaveLoop(r) \/ CancelMaker(r)
           \/ Maintenance
           \/ SweepFault
           \/ UNCHANGED vars
  <2>1. UNCHANGED <<order, reply, pc, taker>>
    BY <1>3, RemovalsShrink
  <2>2. UNCHANGED <<available, locked>>
    BY <1>3
    DEF SkipGhost, LeaveLoop, CancelMaker, Maintenance, SweepFault, ExpireHash, RemoveZrem,
        RemoveDel, SweepScan, SweepExists, SweepZrem, SweepExistsFails, SweepZremFails,
        vars, funds
  <2> QED
    BY <2>1, <2>2 DEF Taken, Submitted
<1>4. CASE \E r \in OrderIds : Trade(r)
  BY <1>4 DEF Trade, Taken, Submitted, funds
<1> QED
  BY <1>1, <1>2, <1>3, <1>4 DEF Next, Script, Visit

LEMMA BeginTakes ==
    ASSUME BookType, NEW o \in OrderIds, Begin(o)
    PROVE  o \notin Taken /\ Taken' = Taken \cup {o}
<1>1. /\ reply' = reply /\ reply[o] = NotSubmitted
      /\ pc = "idle" /\ pc' = "walk" /\ taker' = o
  BY DEF Begin
<1> QED
  BY <1>1, RejectedReply DEF Taken, Submitted

\* The script unlocks nothing, so what is locked is what the orders taken on have
\* locked when they came.
Lockings == [o \in OrderIds |-> Locking(o)]

LockedExactly ==
    \A u \in Users, a \in Assets :
        /\ available[u][a] + locked[u][a] = InitialFunds[u][a]
        /\ locked[u][a] = SumFunctionOnSet(Lockings, Held(u, a) \cap Taken)

LEMMA LockedExactlyInit == Init => LockedExactly
<1> SUFFICES ASSUME Init, NEW u \in Users, NEW a \in Assets
             PROVE  /\ available[u][a] + locked[u][a] = InitialFunds[u][a]
                    /\ locked[u][a] = SumFunctionOnSet(Lockings, Held(u, a) \cap Taken)
  BY DEF LockedExactly
<1>1. Held(u, a) \cap Taken = {}
  BY DEF Init, Taken, Submitted
<1>2. SumFunctionOnSet(Lockings, Held(u, a) \cap Taken) = 0
  BY <1>1, SumEmpty
<1> QED
  BY <1>2, InitialFundsAssumption DEF Init

LEMMA LockedExactlyNext ==
    ASSUME BookType, FundsType, Accounting, LockedExactly, [Next]_vars
    PROVE  LockedExactly'
<1>1. ASSUME order' = order
      PROVE  Lockings' = Lockings /\ \A u, a : Held(u, a)' = Held(u, a)
  BY <1>1 DEF Lockings, Locking, LockAmount, Held, LockAsset
<1>2. CASE ~\E o \in OrderIds : Begin(o)
  <2>1. Taken' = Taken /\ UNCHANGED <<order, available, locked>>
    BY <1>2, TakenSteady
  <2>2. Lockings' = Lockings /\ \A u, a : Held(u, a)' = Held(u, a)
    BY <1>1, <2>1
  <2> QED
    BY <2>1, <2>2 DEF LockedExactly
<1>3. ASSUME NEW o \in OrderIds, Begin(o) PROVE LockedExactly'
  <2> DEFINE v == order[o].user
             b == LockAsset(o)
             q == Locking(o)
  <2>1. q \in Nat /\ b \in Assets /\ v \in Users
    BY LockingBound, OrderFields DEF BookType, FundsType
  <2>2. /\ available' = [available EXCEPT ![v][b] = @ - q]
        /\ locked' = [locked EXCEPT ![v][b] = @ + q]
        /\ order' = order
    BY <1>3 DEF Begin
  <2>3. Lockings' = Lockings /\ \A u, a : Held(u, a)' = Held(u, a)
    BY <1>1, <2>2
  <2>4. o \notin Taken /\ Taken' = Taken \cup {o}
    BY <1>3, BeginTakes
  <2>5. \A u, a : o \in Held(u, a) <=> (u = v /\ a = b)
    BY DEF Held
  <2>6. Lockings[o] = q /\ \A x \in OrderIds : Lockings[x] \in Int
    BY LockingBound DEF Lockings, BookType, FundsType
  <2> HIDE DEF v, b, q
  <2> SUFFICES ASSUME NEW u \in Users, NEW a \in Assets
               PROVE  /\ available'[u][a] + locked'[u][a] = InitialFunds[u][a]
                      /\ locked'[u][a] = SumFunctionOnSet(Lockings, Held(u, a) \cap Taken')
    BY <2>3 DEF LockedExactly
  <2>7. /\ available[u][a] \in Nat /\ locked[u][a] \in Nat
        /\ available[u][a] + locked[u][a] = InitialFunds[u][a]
        /\ locked[u][a] = SumFunctionOnSet(Lockings, Held(u, a) \cap Taken)
    BY DEF BookType, FundsType, LockedExactly
  <2>8. CASE u = v /\ a = b
    <3>1. available'[u][a] = available[u][a] - q /\ locked'[u][a] = locked[u][a] + q
      BY <2>1, <2>2, <2>8 DEF BookType, FundsType
    <3> DEFINE K == Held(u, a) \cap Taken
    <3>2. Held(u, a) \cap Taken' = K \cup {o} /\ o \notin K
      BY <2>4, <2>5, <2>8
    <3>3. IsFiniteSet(K) /\ \A x \in K \cup {o} : Lockings[x] \in Int
      BY <2>6, OrderIdsAssumption, FS_Subset DEF Held
    <3>4. SumFunctionOnSet(Lockings, K \cup {o}) = SumFunctionOnSet(Lockings, K) + q
      BY <2>6, <3>2, <3>3, SumAdd
    <3>5. locked'[u][a] = SumFunctionOnSet(Lockings, Held(u, a) \cap Taken')
      BY <2>7, <3>1, <3>2, <3>4
    <3> QED
      BY <2>1, <2>7, <3>1, <3>5
  <2>9. CASE ~(u = v /\ a = b)
    <3>1. available'[u][a] = available[u][a] /\ locked'[u][a] = locked[u][a]
      BY <2>1, <2>2, <2>9 DEF BookType, FundsType
    <3>2. Held(u, a) \cap Taken' = Held(u, a) \cap Taken
      BY <2>4, <2>5, <2>9
    <3> QED
      BY <2>7, <3>1, <3>2
  <2> QED
    BY <2>8, <2>9
<1> QED
  BY <1>2, <1>3

\* p * l, when it is positive, grows with l.
LEMMA ProductBound ==
    ASSUME NEW p \in Int, NEW l \in Nat, NEW q \in Nat, l <= q, p * l > 0
    PROVE  l # 0 /\ p * q > 0 /\ p * l <= p * q
<1>1. l # 0
  OBVIOUS
<1>2. p > 0
  <2>1. ASSUME p <= 0 PROVE p * l <= 0
    BY <2>1, SMT
  <2> QED
    BY <2>1
<1>3. PICK d \in Nat : q = l + d
  <2>1. q - l \in Nat /\ q = l + (q - l)
    OBVIOUS
  <2> QED
    BY <2>1
<1>4. p * q = p * l + p * d
  BY <1>3
<1>5. p * d >= 0 /\ p * d \in Int /\ p * l \in Int
  BY <1>2
<1> QED
  BY <1>1, <1>4, <1>5

\* What an order still needs never exceeds what it has locked.
LEMMA NeededIsLocked ==
    ASSUME BookType, Accounting, OpenBook, NEW o \in OrderIds
    PROVE  /\ Needed(o) \in Int
           /\ Needed(o) > 0 => o \in Taken /\ Needed(o) <= Locking(o)
<1>1. order[o].price \in Int /\ order[o].qty \in Nat /\ filled[o] \in Nat
  BY OrderFields DEF BookType
<1>2. Left(o) \in Nat /\ (Left(o) # 0 => o \in Taken)
  BY LeftIsTaken
<1>3. Left(o) <= order[o].qty
  <2>1. filled[o] + Left(o) <= order[o].qty
    BY AccountingImplies DEF QuantityAccounted
  <2> QED
    BY <1>1, <1>2, <2>1
<1>4. CASE order[o].side = "B"
  <2>1. Needed(o) = order[o].price * Left(o) /\ LockAmount(o) = order[o].price * order[o].qty
    BY <1>4 DEF Needed, LockAmount
  <2>2. Needed(o) > 0 => Left(o) # 0 /\ LockAmount(o) > 0 /\ Needed(o) <= LockAmount(o)
    BY <1>1, <1>2, <1>3, <2>1, ProductBound
  <2>3. Needed(o) \in Int
    BY <1>1, <1>2, <2>1
  <2> QED
    BY <1>2, <2>2, <2>3 DEF Locking
<1>5. CASE order[o].side # "B"
  BY <1>1, <1>2, <1>3, <1>5 DEF Needed, Locking, LockAmount
<1> QED
  BY <1>4, <1>5

LEMMA FundsBackBookHolds ==
    ASSUME BookType, FundsType, Accounting, OpenBook, LockedExactly
    PROVE  FundsBackBook
<1> SUFFICES ASSUME NEW u \in Users, NEW a \in Assets
             PROVE  SumFunctionOnSet([o \in OrderIds |-> Needed(o)],
                                     {o \in Held(u, a) : Needed(o) > 0}) <= locked[u][a]
  BY DEF LockedExactly, FundsBackBook
<1> DEFINE needs == [o \in OrderIds |-> Needed(o)]
           N == {o \in Held(u, a) : Needed(o) > 0}
           K == Held(u, a) \cap Taken
<1>1. N \subseteq K /\ K \subseteq OrderIds
  BY NeededIsLocked DEF Held
<1>2. IsFiniteSet(K) /\ IsFiniteSet(N)
  BY <1>1, OrderIdsAssumption, FS_Subset
<1>3. \A o \in OrderIds : Lockings[o] \in Nat
  BY LockingBound DEF Lockings, BookType, FundsType
<1>4. \A o \in N : needs[o] \in Int /\ Lockings[o] \in Int /\ needs[o] <= Lockings[o]
  BY <1>1, <1>3, NeededIsLocked DEF Lockings, Held
<1>5. locked[u][a] = SumFunctionOnSet(Lockings, K)
  BY DEF LockedExactly
<1> HIDE DEF needs, N, K
<1>6. SumFunctionOnSet(needs, N) <= SumFunctionOnSet(Lockings, N)
  BY <1>2, <1>4, SumCompare
<1>7. SumFunctionOnSet(Lockings, N) <= SumFunctionOnSet(Lockings, K)
  BY <1>1, <1>2, <1>3, SumSubset
<1>8. /\ SumFunctionOnSet(needs, N) \in Int /\ SumFunctionOnSet(Lockings, N) \in Int
      /\ SumFunctionOnSet(Lockings, K) \in Int
  BY <1>1, <1>2, <1>3, <1>4, SumInt
<1>9. SumFunctionOnSet(needs, N) <= locked[u][a]
  BY <1>5, <1>6, <1>7, <1>8
<1> QED
  BY <1>9 DEF needs, N

\* Whatever is live on the book or being matched is covered by funds its owner has
\* locked.  (The script never takes anything off locked again, so no fill and no
\* cancellation can break this.)
THEOREM BookIsFunded == Spec => []FundsBackBook
<1>1. Init => BookType /\ FundsType /\ Accounting /\ OpenBook /\ LockedExactly
  BY TypeInit, TypeParts, AccountingInit, LockedExactlyInit DEF Init, OpenBook
<1>2. BookType /\ FundsType /\ Accounting /\ OpenBook /\ LockedExactly /\ [Next]_vars
        => (BookType /\ FundsType /\ Accounting /\ OpenBook /\ LockedExactly)'
  BY BookTypeNext, FundsTypeNext, AccountingNext, OpenBookNext, LockedExactlyNext
<1>3. BookType /\ FundsType /\ Accounting /\ OpenBook /\ LockedExactly => FundsBackBook
  BY FundsBackBookHolds
<1> QED
  BY <1>1, <1>2, <1>3, PTL DEF Spec

-------------------------------------------------------------------------------
(* The units of a set of trades.                                           *)

LEMMA UnitsEmpty == Units({}) = 0
BY SumEmpty DEF Units

LEMMA UnitsNat ==
    ASSUME NEW T, IsFiniteSet(T), T \subseteq TradeType
    PROVE  Units(T) \in Nat
<1>1. \A t \in T : [x \in T |-> x.qty][t] \in Nat
  BY DEF TradeType
<1> QED
  BY <1>1, SumNat DEF Units

LEMMA UnitsDisjoint ==
    ASSUME NEW S, IsFiniteSet(S), S \subseteq TradeType,
           NEW T, IsFiniteSet(T), T \subseteq TradeType, S \cap T = {}
    PROVE  Units(S \cup T) = Units(S) + Units(T)
<1> DEFINE f == [x \in S \cup T |-> x.qty]
           g == [x \in S |-> x.qty]
           h == [x \in T |-> x.qty]
<1>1. /\ \A x \in S \cup T : f[x] \in Int
      /\ \A x \in S : f[x] \in Int /\ g[x] = f[x]
      /\ \A x \in T : f[x] \in Int /\ h[x] = f[x]
  BY DEF TradeType
<1>2. Units(S \cup T) = SumFunctionOnSet(f, S \cup T)
      /\ Units(S) = SumFunctionOnSet(g, S) /\ Units(T) = SumFunctionOnSet(h, T)
  BY DEF Units
<1> HIDE DEF f, g, h
<1>3. SumFunctionOnSet(f, S) = SumFunctionOnSet(g, S)
  BY <1>1, SumSame
<1>4. SumFunctionOnSet(f, T) = SumFunctionOnSet(h, T)
  BY <1>1, SumSame
<1>5. SumFunctionOnSet(f, S \cup T) = SumFunctionOnSet(f, S) + SumFunctionOnSet(f, T)
  BY <1>1, SumDisjoint
<1> QED
  BY <1>2, <1>3, <1>4, <1>5

LEMMA UnitsOne ==
    ASSUME NEW t \in TradeType
    PROVE  Units({t}) = t.qty
<1> DEFINE f == [x \in {t} |-> x.qty]
<1>1. f[t] = t.qty /\ t.qty \in Nat
  BY DEF TradeType
<1> HIDE DEF f
<1>2. IsFiniteSet({}) /\ {} \cup {t} = {t}
  BY FS_EmptySet
<1>3. SumFunctionOnSet(f, {} \cup {t}) = SumFunctionOnSet(f, {}) + f[t]
  BY <1>1, <1>2, SumAdd
<1>4. SumFunctionOnSet(f, {}) = 0
  BY SumEmpty
<1>5. SumFunctionOnSet(f, {t}) = t.qty
  BY <1>1, <1>2, <1>3, <1>4
<1> QED
  BY <1>5 DEF Units, f

LEMMA UnitsAdd ==
    ASSUME NEW T, IsFiniteSet(T), T \subseteq TradeType, NEW t \in TradeType, t \notin T
    PROVE  Units(T \cup {t}) = Units(T) + t.qty
<1>1. IsFiniteSet({t})
  BY FS_Singleton
<1> QED
  BY <1>1, UnitsOne, UnitsDisjoint

LEMMA UnitsSubset ==
    ASSUME NEW T, IsFiniteSet(T), T \subseteq TradeType, NEW S \in SUBSET T
    PROVE  Units(T) = Units(S) + Units(T \ S) /\ Units(S) <= Units(T)
<1>1. IsFiniteSet(S) /\ IsFiniteSet(T \ S)
  BY FS_Subset
<1>2. S \cup (T \ S) = T /\ S \cap (T \ S) = {}
  OBVIOUS
<1>3. Units(S \cup (T \ S)) = Units(S) + Units(T \ S)
  BY <1>1, <1>2, UnitsDisjoint
<1>4. Units(S) \in Nat /\ Units(T \ S) \in Nat
  BY <1>1, UnitsNat
<1>5. Units(T) = Units(S) + Units(T \ S)
  BY <1>2, <1>3
<1> QED
  BY <1>4, <1>5

-------------------------------------------------------------------------------
(* The reply and the trades tell the same story.                           *)

MadeBy(o) == Units({t \in trades : t.maker = o})

\* Every trade is counted once for each side; its taker was taken on, its maker was
\* reported open before; the running script meets no maker twice.
TradesCounted ==
    /\ IsFiniteSet(trades)
    /\ \A t \in trades :
          t.taker \in Taken /\ reply[t.maker].status \in {"N", "PF"} /\ t.qty > 0
    /\ \A t, u \in trades : (t.taker = u.taker /\ t.maker = u.maker) => t = u
    /\ pc = "walk" => \A t \in trades : t.taker = taker => t.maker \notin cands
    /\ \A o \in OrderIds : filled[o] = TakenBy(o) + MadeBy(o)

\* What was reported stays true: later trades of an order are not its own.
Reported(o) ==
    /\ (reply[o].status \in {"N", "PF", "F"} \/ (reply[o].status = "C" /\ reply[o].remaining > 0))
         => TakenBy(o) = order[o].qty - reply[o].remaining
    /\ reply[o].status = "F" => reply[o].remaining = 0
    /\ reply[o].status \in {"N", "PF"} => reply[o].remaining > 0
    /\ reply[o] \in {NotSubmitted, Rejected} \/ reply[o].status \in OrderStatuses

LEMMA TradeSplit ==
    ASSUME BookType, IsFiniteSet(trades), NEW o \in OrderIds
    PROVE  /\ IsFiniteSet({t \in trades : t.taker = o}) /\ TakenBy(o) \in Nat
           /\ IsFiniteSet({t \in trades : t.maker = o}) /\ MadeBy(o) \in Nat
<1>1. {t \in trades : t.taker = o} \subseteq TradeType /\ {t \in trades : t.maker = o} \subseteq TradeType
  BY DEF BookType
<1>2. IsFiniteSet({t \in trades : t.taker = o}) /\ IsFiniteSet({t \in trades : t.maker = o})
  BY FS_Subset
<1> QED
  BY <1>1, <1>2, UnitsNat DEF TakenBy, MadeBy

LEMMA TradesCountedInit == Init => TradesCounted /\ \A o \in OrderIds : Reported(o)
<1> SUFFICES ASSUME Init PROVE TradesCounted /\ \A o \in OrderIds : Reported(o)
  OBVIOUS
<1>1. \A o \in OrderIds : TakenBy(o) = 0 /\ MadeBy(o) = 0
  <2>1. \A o : {t \in trades : t.taker = o} = {} /\ {t \in trades : t.maker = o} = {}
    BY DEF Init
  <2> QED
    BY <2>1, UnitsEmpty DEF TakenBy, MadeBy
<1>2. \A o \in OrderIds : reply[o].status = "-"
  BY DEF Init, NotSubmitted
<1> QED
  BY <1>1, <1>2, FS_EmptySet DEF Init, TradesCounted, Reported

\* A new trade is new, and adds its units to one taker and one maker.
LEMMA TradeCounted ==
    ASSUME BookType, Accounting, OpenBook, TradesCounted, NEW r \in OrderIds, Trade(r)
    PROVE  /\ TradesCounted'
           /\ taker \in OrderIds
           /\ \A o \in OrderIds : o # taker => TakenBy(o)' = TakenBy(o)
<1>1. /\ pc = "walk" /\ r \in cands /\ taker \in OrderIds /\ AtCandidate(r) /\ Live(r)
  BY OutcomeLive DEF Trade, AtCandidate, BookType
<1> DEFINE t == [taker |-> taker, maker |-> r, price |-> TradePrice(taker, r), qty |-> Fill(r)]
<1>2. trades' = trades \cup {t} /\ t.taker = taker /\ t.maker = r /\ t.qty = Fill(r)
  BY DEF Trade
<1>3. t \in TradeType
  <2>1. trades' \subseteq TradeType
    BY BookTypeNext DEF BookType, Next, Script, Visit
  <2> QED
    BY <1>2, <2>1
<1> HIDE DEF t
<1>4. t \notin trades
  BY <1>1, <1>2 DEF TradesCounted
<1>5. \A o \in OrderIds :
        filled'[o] = IF o \in {taker, r} THEN filled[o] + Fill(r) ELSE filled[o]
  BY TradeLeft
<1>6. taker # r
  BY TradeLeft
<1>7. ASSUME NEW o \in OrderIds
      PROVE  TakenBy(o)' = IF o = taker THEN TakenBy(o) + Fill(r) ELSE TakenBy(o)
  <2> DEFINE T == {x \in trades : x.taker = o}
  <2>1. {x \in trades' : x.taker = o} = IF o = taker THEN T \cup {t} ELSE T
    BY <1>2
  <2>2. IsFiniteSet(T) /\ T \subseteq TradeType /\ t \notin T
    BY <1>4, TradeSplit DEF TradesCounted, BookType
  <2>3. Units(T \cup {t}) = Units(T) + Fill(r)
    BY <1>2, <1>3, <2>2, UnitsAdd
  <2> QED
    BY <2>1, <2>3 DEF TakenBy
<1>8. ASSUME NEW o \in OrderIds
      PROVE  MadeBy(o)' = IF o = r THEN MadeBy(o) + Fill(r) ELSE MadeBy(o)
  <2> DEFINE T == {x \in trades : x.maker = o}
  <2>1. {x \in trades' : x.maker = o} = IF o = r THEN T \cup {t} ELSE T
    BY <1>2
  <2>2. IsFiniteSet(T) /\ T \subseteq TradeType /\ t \notin T
    BY <1>4, TradeSplit DEF TradesCounted, BookType
  <2>3. Units(T \cup {t}) = Units(T) + Fill(r)
    BY <1>2, <1>3, <2>2, UnitsAdd
  <2> QED
    BY <2>1, <2>3 DEF MadeBy
<1>9. Fill(r) \in Nat /\ Fill(r) > 0
  BY <1>1, FillBounds
<1>10. \A o \in OrderIds : filled'[o] = TakenBy(o)' + MadeBy(o)'
  <2> SUFFICES ASSUME NEW o \in OrderIds PROVE filled'[o] = TakenBy(o)' + MadeBy(o)'
    OBVIOUS
  <2>1. filled[o] = TakenBy(o) + MadeBy(o) /\ TakenBy(o) \in Nat /\ MadeBy(o) \in Nat
    BY TradeSplit DEF TradesCounted
  <2> QED
    BY <1>5, <1>6, <1>7, <1>8, <1>9, <2>1
<1>11. IsFiniteSet(trades')
  BY <1>2, FS_AddElement DEF TradesCounted
<1>12. UNCHANGED <<reply, pc, taker>> /\ cands' = cands \ {r} /\ Taken' = Taken
  BY DEF Trade, Taken, Submitted
<1>13. taker \in Taken /\ reply[r].status \in {"N", "PF"}
  <2>1. order[r].side \in Sides /\ r \in zset[order[r].side]
    BY <1>1, OrderFields DEF BookType, OpenBook
  <2> QED
    BY <1>1, <2>1, RejectedReply DEF Taken, Submitted, OpenBook, Accounting, TakerIsNew
<1>14. \A x, y \in trades' : (x.taker = y.taker /\ x.maker = y.maker) => x = y
  BY <1>1, <1>2 DEF TradesCounted
<1>15. TradesCounted'
  BY <1>2, <1>9, <1>10, <1>11, <1>12, <1>13, <1>14 DEF TradesCounted
<1> QED
  BY <1>1, <1>7, <1>15

LEMMA TradesCountedNext ==
    ASSUME BookType, Accounting, OpenBook, TradesCounted, \A o \in OrderIds : Reported(o),
           [Next]_vars
    PROVE  TradesCounted' /\ \A o \in OrderIds : Reported(o)'
<1>q. \A o \in OrderIds : order[o].qty \in Nat
  BY OrderFields DEF BookType
<1>t. \A t \in trades : t.taker \in OrderIds /\ t.maker \in OrderIds
  BY DEF BookType, TradeType
<1>1. ASSUME UNCHANGED <<order, trades, filled>>
      PROVE  /\ \A o \in OrderIds : TakenBy(o)' = TakenBy(o) /\ MadeBy(o)' = MadeBy(o)
             /\ IsFiniteSet(trades')
             /\ \A o \in OrderIds : filled'[o] = TakenBy(o)' + MadeBy(o)'
  BY <1>1 DEF TakenBy, MadeBy, TradesCounted
<1>2. ASSUME NEW o \in OrderIds, Reject(o)
      PROVE  TradesCounted' /\ \A x \in OrderIds : Reported(x)'
  <2>1. /\ UNCHANGED <<order, trades, filled>> /\ pc' = "idle" /\ reply[o] = NotSubmitted
        /\ ~\E x \in OrderIds : Begin(x)
    BY <1>2 DEF Reject, history, script, Begin
  <2>2. \A x \in OrderIds : reply'[x] = IF x = o THEN Rejected ELSE reply[x]
    BY <1>2 DEF Reject, BookType
  <2>3. Taken' = Taken
    BY <2>1, TakenSteady
  <2>4. \A t \in trades : reply'[t.maker] = reply[t.maker]
    BY <1>t, <2>1, <2>2 DEF TradesCounted, NotSubmitted
  <2>5. TradesCounted'
    BY <1>1, <2>1, <2>3, <2>4 DEF TradesCounted
  <2>6. \A x \in OrderIds : Reported(x)'
    BY <1>1, <2>1, <2>2 DEF Reported, Rejected
  <2> QED
    BY <2>5, <2>6
<1>3. ASSUME NEW o \in OrderIds, Begin(o)
      PROVE  TradesCounted' /\ \A x \in OrderIds : Reported(x)'
  <2>1. UNCHANGED <<order, trades, filled, reply>> /\ taker' = o
    BY <1>3 DEF Begin, history
  <2>2. o \notin Taken /\ Taken' = Taken \cup {o}
    BY <1>3, BeginTakes
  <2>3. TradesCounted'
    BY <1>1, <2>1, <2>2 DEF TradesCounted
  <2>4. \A x \in OrderIds : Reported(x)'
    BY <1>1, <2>1 DEF Reported
  <2> QED
    BY <2>3, <2>4
<1>4. ASSUME NEW r \in OrderIds, Trade(r)
      PROVE  TradesCounted' /\ \A x \in OrderIds : Reported(x)'
  <2>1. TradesCounted' /\ \A o \in OrderIds : o # taker => TakenBy(o)' = TakenBy(o)
    BY <1>4, TradeCounted
  <2>2. UNCHANGED <<order, reply>> /\ pc = "walk"
    BY <1>4 DEF Trade, AtCandidate
  <2>3. reply[taker].status = "-"
    BY <2>2 DEF Accounting, TakerIsNew, NotSubmitted
  <2> QED
    BY <2>1, <2>2, <2>3 DEF Reported
<1>5. CASE Finish
  <2>1. /\ pc = "walk" /\ pc' = "idle" /\ taker \in OrderIds
        /\ UNCHANGED <<order, trades, filled>> /\ ~\E x \in OrderIds : Begin(x)
    BY <1>5 DEF Finish, BookType, history, Begin
  <2>2. \A x \in OrderIds : x # taker => reply'[x] = reply[x]
    BY <1>5, <2>1 DEF Finish, BookType
  <2>3. reply'[taker] = [remaining |-> remaining, status |-> FinalStatus]
    BY <1>5, <2>1 DEF Finish, BookType
  <2>4. reply[taker] = NotSubmitted
    BY <2>1 DEF Accounting, TakerIsNew
  <2>5. Taken' = Taken
    BY <2>1, TakenSteady
  <2>6. \A t \in trades : reply'[t.maker] = reply[t.maker]
    BY <1>t, <2>2, <2>4 DEF TradesCounted, NotSubmitted
  <2>7. TradesCounted'
    BY <1>1, <2>1, <2>5, <2>6 DEF TradesCounted
  <2>8. TakenBy(taker) = filled[taker]
    <3>1. {t \in trades : t.maker = taker} = {}
      BY <2>4 DEF TradesCounted, NotSubmitted
    <3>2. MadeBy(taker) = 0
      BY <3>1, UnitsEmpty DEF MadeBy
    <3>3. filled[taker] = TakenBy(taker) + MadeBy(taker) /\ TakenBy(taker) \in Nat
      BY <2>1, TradeSplit DEF TradesCounted
    <3> QED
      BY <3>2, <3>3
  <2>9. \A x \in OrderIds : TakenBy(x)' = TakenBy(x)
    BY <1>1, <2>1
  <2>10. remaining \in Nat /\ status \in {"N", "C"} /\ order[taker].tif \in {"G", "I"}
    BY <2>1, OrderFields DEF BookType, Accounting, TakerIsNew
  <2>11. status = "C" => FinalStatus = "C" /\ remaining = 0
    BY <2>1 DEF FinalStatus, Accounting, TakerIsNew
  <2>12. status = "N" => filled[taker] + remaining = order[taker].qty
    BY <2>1 DEF Accounting, FillsAccounted
  <2>13. status = "N" => /\ FinalStatus = "F" => remaining = 0
                         /\ FinalStatus \in {"N", "PF"} => remaining > 0
    BY <2>10 DEF FinalStatus
  <2>14. filled[taker] \in Nat
    BY <2>1 DEF BookType
  <2>15. \A x \in OrderIds : x = taker => Reported(x)'
    BY <1>q, <2>1, <2>3, <2>8, <2>9, <2>10, <2>11, <2>12, <2>13, <2>14, FinalReply DEF Reported
  <2>16. \A x \in OrderIds : x # taker => Reported(x)'
    BY <2>1, <2>2, <2>9 DEF Reported
  <2> QED
    BY <2>7, <2>15, <2>16
<1>6. CASE \/ \E r \in OrderIds : SkipGhost(r) \/ LeaveLoop(r) \/ CancelMaker(r)
           \/ Maintenance
           \/ SweepFault
           \/ UNCHANGED vars
  <2>1. UNCHANGED <<order, reply, filled, trades, pc, taker>> /\ cands' \subseteq cands
    BY <1>6, RemovalsShrink
  <2>2. Taken' = Taken
    BY <2>1 DEF Taken, Submitted
  <2> QED
    BY <1>1, <2>1, <2>2 DEF TradesCounted, Reported
<1> QED
  BY <1>2, <1>3, <1>4, <1>5, <1>6 DEF Next, Script, Visit

\* All that is known of a book and its history, for the components that use it.
BookInv ==
    /\ BookType /\ Accounting /\ OpenBook /\ TradesCounted
    /\ \A o \in OrderIds : Reported(o)

LEMMA BookInvInit == Init => BookInv
BY BookTypeInit, AccountingInit, TradesCountedInit DEF Init, OpenBook, BookInv

LEMMA BookInvNext == BookInv /\ [Next]_vars => BookInv'
BY BookTypeNext, AccountingNext, OpenBookNext, TradesCountedNext DEF BookInv

LEMMA ReplyMatchesTradesHolds ==
    ASSUME BookType, TradesCounted, \A o \in OrderIds : Reported(o)
    PROVE  ReplyMatchesTrades
<1> SUFFICES ASSUME NEW o \in OrderIds,
                    reply[o].status \in {"-", "INSUFFICIENT_BALANCE"}, taker # o
             PROVE  TakenBy(o) = 0
  BY DEF ReplyMatchesTrades, Reported
<1>1. o \notin Taken
  BY DEF Taken, Submitted, Reported, OrderStatuses
<1>2. {t \in trades : t.taker = o} = {}
  BY <1>1 DEF TradesCounted
<1> QED
  BY <1>2, UnitsEmpty DEF TakenBy

\* What match_order.lua returns is what it did: unless self-trade prevention
\* cancelled it, an order has traded exactly its quantity less the remainder
\* reported, and a rejected one nothing.
THEOREM ReplyIsTrue == Spec => []ReplyMatchesTrades
<1>1. BookInv => ReplyMatchesTrades
  BY ReplyMatchesTradesHolds DEF BookInv
<1> QED
  BY <1>1, BookInvInit, BookInvNext, PTL DEF Spec

-------------------------------------------------------------------------------
(* What the paths that persist an order need to know of the book.          *)

\* A reply of the script is final.
LEMMA ReplyIsFinal ==
    ASSUME BookType, Accounting, [Next]_vars, NEW o \in OrderIds, reply[o] # NotSubmitted
    PROVE  reply'[o] = reply[o]
<1>1. CASE \E x \in OrderIds : Reject(x)
  BY <1>1 DEF Reject, BookType
<1>2. CASE \E x \in OrderIds : Begin(x)
  BY <1>2 DEF Begin
<1>3. CASE Finish
  <2>1. taker # o
    BY <1>3 DEF Finish, Accounting, TakerIsNew
  <2> QED
    BY <1>3, <2>1 DEF Finish, BookType
<1>4. CASE \E r \in OrderIds : Trade(r)
  BY <1>4 DEF Trade
<1>5. CASE \/ \E r \in OrderIds : SkipGhost(r) \/ LeaveLoop(r) \/ CancelMaker(r)
           \/ Maintenance
           \/ SweepFault
           \/ UNCHANGED vars
  BY <1>5, RemovalsShrink
<1> QED
  BY <1>1, <1>2, <1>3, <1>4, <1>5 DEF Next, Script, Visit

LEMMA TradesOnlyGrow ==
    ASSUME BookType, [Next]_vars
    PROVE  trades \subseteq trades'
<1>1. CASE \E x \in OrderIds : Reject(x) \/ Begin(x)
  BY <1>1 DEF Reject, Begin, history
<1>2. CASE Finish
  BY <1>2 DEF Finish, history
<1>3. CASE \E r \in OrderIds : Trade(r)
  BY <1>3 DEF Trade
<1>4. CASE \/ \E r \in OrderIds : SkipGhost(r) \/ LeaveLoop(r) \/ CancelMaker(r)
           \/ Maintenance
           \/ SweepFault
           \/ UNCHANGED vars
  BY <1>4, RemovalsShrink
<1> QED
  BY <1>1, <1>2, <1>3, <1>4 DEF Next, Script, Visit

\* Of an order that was not cancelled, the fills as a maker are what its reply no
\* longer has, less what is left.
LEMMA MakerBound ==
    ASSUME BookInv, NEW o \in OrderIds, reply[o].status \in {"N", "PF", "F"}
    PROVE  /\ MadeBy(o) \in Nat /\ reply[o].remaining \in Nat
           /\ filled[o] = order[o].qty - reply[o].remaining + MadeBy(o)
           /\ MadeBy(o) + Left(o) <= reply[o].remaining
           /\ Left(o) \in Nat
<1>1. /\ order[o].qty \in Nat /\ filled[o] \in Nat /\ reply[o].remaining \in Nat
  BY OrderFields DEF BookInv, BookType, ReplyType
<1>2. TakenBy(o) \in Nat /\ MadeBy(o) \in Nat /\ filled[o] = TakenBy(o) + MadeBy(o)
  BY TradeSplit DEF BookInv, TradesCounted
<1>3. TakenBy(o) = order[o].qty - reply[o].remaining
  BY DEF BookInv, Reported
<1>4. filled[o] + Left(o) <= order[o].qty
  BY AccountingImplies DEF BookInv, QuantityAccounted
<1>5. Left(o) \in Nat
  BY LeftIsTaken DEF BookInv
<1> QED
  BY <1>1, <1>2, <1>3, <1>4, <1>5

LEMMA MadeFacts ==
    ASSUME BookInv, NEW S, NEW o \in OrderIds, S \subseteq {t \in trades : t.maker = o}
    PROVE  /\ IsFiniteSet(S) /\ S \subseteq TradeType /\ Units(S) \in Nat
           /\ Units(S) <= MadeBy(o)
<1>1. IsFiniteSet({t \in trades : t.maker = o})
  BY TradeSplit DEF BookInv, TradesCounted
<1>2. {t \in trades : t.maker = o} \subseteq TradeType
  BY DEF BookInv, BookType
<1> QED
  BY <1>1, <1>2, FS_Subset, UnitsNat, UnitsSubset DEF MadeBy
===============================================================================
