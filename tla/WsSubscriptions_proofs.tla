------------------------ MODULE WsSubscriptions_proofs ------------------------
(***************************************************************************)
(* Proofs about WsSubscriptions, for any number of connections, channels,  *)
(* handlers and pushers that run at the same time, any messages and any    *)
(* number of failures and expiries: the feed has no gap, every set gets a  *)
(* lifetime, and an open connection loses no channel by a failure.         *)
(***************************************************************************)
EXTENDS WsSubscriptions, FiniteSetTheorems, SequenceTheorems, WellFoundedInduction, TLAPS

-------------------------------------------------------------------------------
(* Sequences.                                                              *)

LEMMA LeastOf ==
    ASSUME NEW S \in SUBSET Nat, S # {}
    PROVE  \E n \in S : \A k \in S : n <= k
<1>1. PICK n \in S : \A k \in S : ~(<<k, n>> \in OpToRel(<, Nat))
    BY NatLessThanWellFounded, WFMin
<1>2. \A k \in S : ~(k < n)
    BY <1>1 DEF OpToRel
<1> QED BY <1>2

\* f joins the first sequences of ss, one after the other.
Joins(f, ss, n) ==
    /\ f = [i \in 1 .. n |-> f[i]]
    /\ \A i \in 1 .. n : f[i] = IF i = 1 THEN ss[i] ELSE f[i - 1] \o ss[i]

JoinSteps(f, ss, n) ==
    \A i \in 1 .. n : /\ i = 1 => f[i] = ss[i]
                      /\ i # 1 => i - 1 \in 1 .. n /\ f[i] = f[i - 1] \o ss[i]

LEMMA JoinStep ==
    ASSUME NEW f, NEW ss, NEW n \in Nat, Joins(f, ss, n)
    PROVE  JoinSteps(f, ss, n)
<1> SUFFICES ASSUME NEW i \in 1 .. n
             PROVE  /\ i = 1 => f[i] = ss[i]
                    /\ i # 1 => i - 1 \in 1 .. n /\ f[i] = f[i - 1] \o ss[i]
    BY DEF JoinSteps
<1>1. f[i] = IF i = 1 THEN ss[i] ELSE f[i - 1] \o ss[i]
    BY DEF Joins
<1>2. i # 1 => i - 1 \in 1 .. n
    OBVIOUS
<1> QED BY <1>1, <1>2

LEMMA JoinExists ==
    ASSUME NEW U, NEW ss \in Seq(Seq(U)), NEW n \in 1 .. Len(ss)
    PROVE  \E f : Joins(f, ss, n)
<1> DEFINE bad == {m \in 1 .. Len(ss) : ~\E f : Joins(f, ss, m)}
<1> SUFFICES ASSUME bad # {} PROVE FALSE
    OBVIOUS
<1>1. PICK m \in bad : \A k \in bad : m <= k
    <2>1. bad \in SUBSET Nat
        OBVIOUS
    <2> HIDE DEF bad
    <2> QED BY <2>1, LeastOf
<1>2. m \in 1 .. Len(ss) /\ ~\E f : Joins(f, ss, m)
    OBVIOUS
<1>3. \A k \in 1 .. Len(ss) : k < m => \E f : Joins(f, ss, k)
    BY <1>1, <1>2
<1> HIDE DEF bad
<1>4. CASE m = 1
    <2>1. Joins([i \in 1 .. 1 |-> ss[i]], ss, 1)
        BY DEF Joins
    <2> QED BY <1>2, <1>4, <2>1
<1>5. CASE m # 1
    <2>1. m - 1 \in 1 .. Len(ss) /\ m - 1 < m
        BY <1>2, <1>5
    <2>2. PICK f : Joins(f, ss, m - 1)
        BY <1>3, <2>1
    <2> DEFINE g == [i \in 1 .. m |-> IF i = m THEN f[m - 1] \o ss[m] ELSE f[i]]
    <2>3. ASSUME NEW i \in 1 .. m
          PROVE  g[i] = IF i = 1 THEN ss[i] ELSE g[i - 1] \o ss[i]
        <3>1. CASE i = m
            <4>1. m - 1 \in 1 .. m /\ m - 1 # m
                BY <1>2, <1>5
            <4>2. g[m] = f[m - 1] \o ss[m] /\ g[m - 1] = f[m - 1]
                BY <3>1, <4>1
            <4> QED BY <3>1, <4>2, <1>5
        <3>2. CASE i # m
            <4>1. i \in 1 .. m - 1
                BY <3>2, <1>2
            <4>2. g[i] = f[i] /\ (i # 1 => g[i - 1] = f[i - 1])
                BY <4>1, <1>2
            <4>3. f[i] = IF i = 1 THEN ss[i] ELSE f[i - 1] \o ss[i]
                BY <2>2, <4>1 DEF Joins
            <4> QED BY <4>2, <4>3
        <3> QED BY <3>1, <3>2
    <2>4. g = [i \in 1 .. m |-> g[i]]
        OBVIOUS
    <2> HIDE DEF g
    <2>5. Joins(g, ss, m)
        BY <2>3, <2>4 DEF Joins
    <2> QED BY <1>2, <2>5
<1> QED BY <1>4, <1>5

LEMMA FlattenJoins ==
    ASSUME NEW U, NEW ss \in Seq(Seq(U)), ss # <<>>
    PROVE  \E f : Joins(f, ss, Len(ss)) /\ FlattenSeq(ss) = f[Len(ss)]
<1>1. Len(ss) \in Nat \ {0}
    BY EmptySeq
<1>2. \E f : Joins(f, ss, Len(ss))
    BY <1>1, JoinExists
<1> DEFINE R(f) == f = [i \in 1 .. Len(ss) |-> IF i = 1 THEN ss[i] ELSE f[i - 1] \o ss[i]]
<1>3. \E f : R(f)
    BY <1>2 DEF Joins
<1>4. R(CHOOSE f : R(f))
    BY <1>3
<1> DEFINE h == CHOOSE f : R(f)
<1>5. FlattenSeq(ss) = h[Len(ss)]
    BY <1>1 DEF FlattenSeq
<1>6. ASSUME NEW f, R(f) PROVE Joins(f, ss, Len(ss))
    BY <1>6 DEF Joins
<1>7. Joins(h, ss, Len(ss))
    BY <1>4, <1>6
<1> QED BY <1>5, <1>7

\* A set of sequences that is closed under concatenation contains what a sequence
\* of its members flattens to.
LEMMA FlattenStays ==
    ASSUME NEW U, NEW W \in SUBSET Seq(U), <<>> \in W,
           \A s, t \in W : s \o t \in W,
           NEW ss \in Seq(W)
    PROVE  FlattenSeq(ss) \in W
<1>1. CASE ss = <<>>
    <2>1. FlattenSeq(ss) = ss
        BY <1>1, EmptySeq DEF FlattenSeq
    <2> QED BY <1>1, <2>1
<1>2. CASE ss # <<>>
    <2>1. ss \in Seq(Seq(U))
        BY SeqMonotonic
    <2>2. PICK f : Joins(f, ss, Len(ss)) /\ FlattenSeq(ss) = f[Len(ss)]
        BY <1>2, <2>1, FlattenJoins
    <2>0. Len(ss) \in Nat
        BY LenProperties
    <2>s. JoinSteps(f, ss, Len(ss))
        BY <2>0, <2>2, JoinStep
    <2> DEFINE bad == {n \in 1 .. Len(ss) : f[n] \notin W}
    <2>3. ASSUME bad # {} PROVE FALSE
        <3>1. PICK n \in bad : \A k \in bad : n <= k
            <4>1. bad \in SUBSET Nat
                OBVIOUS
            <4> HIDE DEF bad
            <4> QED BY <2>3, <4>1, LeastOf
        <3>2. n \in 1 .. Len(ss) /\ f[n] \notin W /\ ss[n] \in W
            BY ElementOfSeq
        <3>4. n # 1 /\ n - 1 \in 1 .. Len(ss) /\ f[n] = f[n - 1] \o ss[n]
            BY <2>s, <3>2 DEF JoinSteps
        <3>5. f[n - 1] \in W
            <4>1. n - 1 \notin bad
                <5>1. ~(n <= n - 1)
                    BY <3>2
                <5> HIDE DEF bad
                <5> QED BY <3>1, <5>1
            <4> QED BY <3>4, <4>1
        <3> QED BY <3>2, <3>4, <3>5
    <2>4. Len(ss) \in 1 .. Len(ss)
        BY <1>2, EmptySeq
    <2> QED BY <2>2, <2>3, <2>4
<1> QED BY <1>1, <1>2

\* Nothing is lost in flattening.
LEMMA FlattenKeeps ==
    ASSUME NEW U, NEW ss \in Seq(Seq(U)), NEW n \in DOMAIN ss, NEW i \in DOMAIN ss[n]
    PROVE  \E j \in DOMAIN FlattenSeq(ss) : FlattenSeq(ss)[j] = ss[n][i]
<1>0. Len(ss) \in Nat /\ n \in 1 .. Len(ss) /\ ss # <<>>
    BY LenProperties, EmptySeq
<1>1. PICK f : Joins(f, ss, Len(ss)) /\ FlattenSeq(ss) = f[Len(ss)]
    BY <1>0, FlattenJoins
<1>s. JoinSteps(f, ss, Len(ss))
    BY <1>0, <1>1, JoinStep
<1> DEFINE bad == {m \in n .. Len(ss) : ~(f[m] \in Seq(U) /\ \E j \in DOMAIN f[m] : f[m][j] = ss[n][i])}
<1>2. \A m \in 1 .. Len(ss) : f[m] \in Seq(U)
    <2> DEFINE ill == {m \in 1 .. Len(ss) : f[m] \notin Seq(U)}
    <2> SUFFICES ASSUME ill # {} PROVE FALSE
        OBVIOUS
    <2>1. PICK m \in ill : \A k \in ill : m <= k
        <3>1. ill \in SUBSET Nat
            OBVIOUS
        <3> HIDE DEF ill
        <3> QED BY <3>1, LeastOf
    <2>2. m \in 1 .. Len(ss) /\ f[m] \notin Seq(U) /\ ss[m] \in Seq(U)
        BY ElementOfSeq
    <2>4. m # 1 /\ m - 1 \in 1 .. Len(ss) /\ f[m] = f[m - 1] \o ss[m]
        BY <1>s, <2>2 DEF JoinSteps
    <2>5. f[m - 1] \in Seq(U)
        <3>1. m - 1 \notin ill
            <4>1. ~(m <= m - 1)
                BY <2>2
            <4> HIDE DEF ill
            <4> QED BY <2>1, <4>1
        <3> QED BY <2>4, <3>1
    <2> QED BY <2>2, <2>4, <2>5
<1>3. ASSUME bad # {} PROVE FALSE
    <2>1. PICK m \in bad : \A k \in bad : m <= k
        <3>1. bad \in SUBSET Nat
            BY <1>0
        <3> HIDE DEF bad
        <3> QED BY <1>3, <3>1, LeastOf
    <2>2. m \in n .. Len(ss) /\ ~\E j \in DOMAIN f[m] : f[m][j] = ss[n][i]
        BY <1>2, <1>0
    <2>3. m \in 1 .. Len(ss) /\ ss[m] \in Seq(U) /\ ss[n] \in Seq(U)
        BY <2>2, <1>0, ElementOfSeq
    <2>4. CASE m = 1
        <3>1. n = m /\ f[m] = ss[n]
            <4>1. n = m
                BY <1>0, <2>2, <2>4
            <4> QED BY <1>s, <2>3, <2>4, <4>1 DEF JoinSteps
        <3> QED BY <2>2, <3>1
    <2>5. CASE m # 1
        <3>1. m - 1 \in 1 .. Len(ss) /\ f[m] = f[m - 1] \o ss[m] /\ f[m - 1] \in Seq(U)
            BY <1>s, <1>2, <2>3, <2>5 DEF JoinSteps
        <3>2. /\ \A j \in 1 .. Len(f[m - 1]) : j \in DOMAIN f[m] /\ f[m][j] = f[m - 1][j]
              /\ \A j \in 1 .. Len(ss[m]) :
                    /\ Len(f[m - 1]) + j \in DOMAIN f[m]
                    /\ f[m][Len(f[m - 1]) + j] = ss[m][j]
            <4> DEFINE a == f[m - 1]  b == ss[m]
            <4>1. a \in Seq(U) /\ b \in Seq(U) /\ f[m] = a \o b
                BY <3>1, <2>3
            <4> HIDE DEF a, b
            <4>2. /\ Len(a) \in Nat /\ Len(b) \in Nat /\ Len(a \o b) = Len(a) + Len(b)
                  /\ DOMAIN (a \o b) = 1 .. Len(a) + Len(b)
                  /\ \A j \in 1 .. Len(a) + Len(b) :
                        (a \o b)[j] = IF j <= Len(a) THEN a[j] ELSE b[j - Len(a)]
                BY <4>1, ConcatProperties, LenProperties
            <4>3. \A j \in 1 .. Len(a) : j \in DOMAIN (a \o b) /\ (a \o b)[j] = a[j]
                BY <4>2
            <4>4. ASSUME NEW j \in 1 .. Len(b)
                  PROVE  Len(a) + j \in DOMAIN (a \o b) /\ (a \o b)[Len(a) + j] = b[j]
                <5>1. Len(a) + j \in 1 .. Len(a) + Len(b) /\ ~(Len(a) + j <= Len(a)) /\ (Len(a) + j) - Len(a) = j
                    BY <4>2
                <5> QED BY <4>2, <5>1
            <4> QED BY <4>1, <4>3, <4>4 DEF a, b
        <3>3. CASE m = n
            BY <3>2, <3>3, <2>2, <2>3, LenProperties
        <3>4. CASE m # n
            <4>0. m - 1 \in n .. Len(ss) /\ ~(m <= m - 1)
                BY <2>2, <3>4, <1>0
            <4>1. m - 1 \notin bad
                <5> HIDE DEF bad
                <5> QED BY <2>1, <4>0
            <4>2. PICK j \in DOMAIN f[m - 1] : f[m - 1][j] = ss[n][i]
                BY <4>0, <4>1, <3>1
            <4>3. j \in 1 .. Len(f[m - 1])
                BY <3>1, <4>2, LenProperties
            <4> QED BY <2>2, <3>2, <4>2, <4>3
        <3> QED BY <3>3, <3>4
    <2> QED BY <2>4, <2>5
<1>4. Len(ss) \in n .. Len(ss)
    BY <1>0
<1> QED BY <1>1, <1>3, <1>4

\* SetToSeq lists the members of a finite set, and only those.
LEMMA SetToSeqLists ==
    ASSUME NEW S, IsFiniteSet(S)
    PROVE  /\ SetToSeq(S) \in Seq(S)
           /\ \A x \in S : \E i \in DOMAIN SetToSeq(S) : SetToSeq(S)[i] = x
<1> DEFINE n == Cardinality(S)
<1>1. n \in Nat /\ ExistsBijection(1 .. n, S)
    BY FS_CardinalityType
<1>2. \E f \in [1 .. n -> S] : IsInjective(f)
    BY <1>1 DEF ExistsBijection, Bijection, Injection, IsInjective
<1>3. SetToSeq(S) \in [1 .. n -> S] /\ IsInjective(SetToSeq(S))
    BY <1>2 DEF SetToSeq
<1>4. SetToSeq(S) \in Injection(1 .. n, S)
    BY <1>3 DEF Injection, IsInjective
<1>5. Cardinality(1 .. n) = n
    BY <1>1, FS_Interval
<1>6. SetToSeq(S) \in Surjection(1 .. n, S)
    BY <1>4, <1>5, FS_Injection
<1>7. \A x \in S : \E i \in 1 .. n : SetToSeq(S)[i] = x
    BY <1>6 DEF Surjection
<1>8. SetToSeq(S) \in Seq(S)
    BY <1>1, <1>3, SeqDef
<1> QED BY <1>3, <1>7, <1>8

-------------------------------------------------------------------------------
(* Plans.                                                                  *)

Members == Conns \cup Channels

Commands ==
         {sadd(k, x) : k \in Keys, x \in Members} \cup {srem(k, x) : k \in Keys, x \in Members}
    \cup {expire(k) : k \in Keys} \cup {del(k) : k \in Keys}
    \cup {get(ch) : ch \in Channels} \cup {post(c, ch) : c \in Conns, ch \in Channels}
    \cup {channelsOf(c) : c \in Conns} \cup {subscribersOf(ch) : ch \in Channels}
    \cup {accept(c) : c \in Conns} \cup {reap(ch) : ch \in Channels}

\* What is added to a set gives it a lifetime later.
Lasting(plan) ==
    \A i \in DOMAIN plan : plan[i].do = "sadd" =>
        \E j \in DOMAIN plan : j > i /\ plan[j].do = "expire" /\ plan[j].key = plan[i].key

\* Everything before position i is a post: a post at i sends the value already read.
FirstRun(plan, i) == \A k \in 1 .. i - 1 : plan[k].do = "post"

\* The post at position i follows, after other posts, a read of its channel.
ReadFor(plan, i) ==
    \E j \in 1 .. i - 1 : /\ plan[j].do = "get" /\ plan[j].ch = plan[i].ch
                          /\ \A k \in j + 1 .. i - 1 : plan[k].do = "post"

AllRead(plan) == \A i \in DOMAIN plan : plan[i].do = "post" => ReadFor(plan, i)
LaterRead(plan) ==
    \A i \in DOMAIN plan : plan[i].do = "post" => FirstRun(plan, i) \/ ReadFor(plan, i)

\* A subscription is followed by the channel's snapshot.
SnapshotFollows(plan) ==
    \A i \in DOMAIN plan : \A ch \in Channels :
        (plan[i].do = "sadd" /\ plan[i].key = Subs(ch)) =>
            \E j \in DOMAIN plan : /\ j > i /\ j + 1 \in DOMAIN plan
                                   /\ plan[j] = get(ch)
                                   /\ plan[j + 1] = post(plan[i].arg, ch)

\* The plans that invocations start with, and those that SMEMBERS puts in front.
Whole == {s \in Seq(Commands) : Lasting(s) /\ AllRead(s) /\ SnapshotFollows(s)}

\* t is what is left of plan after its first m commands.
Suffix(t, plan, m) ==
    /\ t \in Seq(Commands)
    /\ Len(t) + m = Len(plan)
    /\ \A i \in 1 .. Len(t) : t[i] = plan[i + m]

\* No post of plan belongs to a read in the past.
NoOpenPost(plan) == plan # <<>> => plan[1].do # "post"

-------------------------------------------------------------------------------
(* Facts about commands and plans.                                         *)

Kinds == {"sadd", "srem", "expire", "del", "get", "post", "channelsOf", "subscribersOf",
          "accept", "reap"}

LEMMA KeysDiffer ==
    /\ \A ch \in Channels : Subs(ch) # Connections /\ Subs(ch) \in Keys
    /\ \A c \in Conns : Conn(c) # Connections /\ Conn(c) \in Keys
    /\ \A ch \in Channels, c \in Conns : Subs(ch) # Conn(c)
    /\ \A ch, dh \in Channels : Subs(ch) = Subs(dh) => ch = dh
    /\ \A c, d \in Conns : Conn(c) = Conn(d) => c = d
    /\ Connections \in Keys
BY DEF Subs, Conn, Connections, Keys

\* A command is what its kind and its fields say.
LEMMA CommandFields ==
    ASSUME NEW x \in Commands
    PROVE  /\ x.do \in Kinds
           /\ x.do \in {"sadd", "srem"} => x.key \in Keys /\ x.arg \in Members
           /\ x.do \in {"expire", "del"} => x.key \in Keys
           /\ x.do \in {"get", "post", "subscribersOf", "reap"} => x.ch \in Channels
           /\ x.do \in {"post", "channelsOf", "accept"} => x.conn \in Conns
           /\ x.do = "srem" => x = srem(x.key, x.arg)
           /\ x.do = "get" => x = get(x.ch)
           /\ x.do = "post" => x = post(x.conn, x.ch)
           /\ x.do = "subscribersOf" => x = subscribersOf(x.ch)
           /\ x.do = "accept" => x = accept(x.conn)
<1> USE DEF Kinds
<1>1. CASE x \in {sadd(k, y) : k \in Keys, y \in Members}
    BY <1>1 DEF sadd
<1>2. CASE x \in {srem(k, y) : k \in Keys, y \in Members}
    BY <1>2 DEF srem
<1>3. CASE x \in {expire(k) : k \in Keys} \cup {del(k) : k \in Keys}
    BY <1>3 DEF expire, del
<1>4. CASE x \in {get(ch) : ch \in Channels}
    BY <1>4 DEF get
<1>5. CASE x \in {post(c, ch) : c \in Conns, ch \in Channels}
    BY <1>5 DEF post
<1>6. CASE x \in {channelsOf(c) : c \in Conns} \cup {subscribersOf(ch) : ch \in Channels}
    BY <1>6 DEF channelsOf, subscribersOf
<1>7. CASE x \in {accept(c) : c \in Conns} \cup {reap(ch) : ch \in Channels}
    BY <1>7 DEF accept, reap
<1> QED BY <1>1, <1>2, <1>3, <1>4, <1>5, <1>6, <1>7 DEF Commands

LEMMA CommandsTyped ==
    /\ \A k \in Keys, y \in Members : sadd(k, y) \in Commands /\ srem(k, y) \in Commands
    /\ \A k \in Keys : expire(k) \in Commands /\ del(k) \in Commands
    /\ \A ch \in Channels : /\ get(ch) \in Commands /\ subscribersOf(ch) \in Commands
                            /\ reap(ch) \in Commands
    /\ \A c \in Conns : channelsOf(c) \in Commands /\ accept(c) \in Commands
    /\ \A c \in Conns, ch \in Channels : post(c, ch) \in Commands
BY DEF Commands

LEMMA PlanDomain ==
    ASSUME NEW plan \in Seq(Commands)
    PROVE  /\ Len(plan) \in Nat /\ DOMAIN plan = 1 .. Len(plan)
           /\ \A i \in DOMAIN plan : i \in Nat /\ i >= 1 /\ i <= Len(plan) /\ plan[i] \in Commands
           /\ plan = <<>> <=> Len(plan) = 0
BY LenProperties, EmptySeq, ElementOfSeq

LEMMA TailIsSuffix ==
    ASSUME NEW plan \in Seq(Commands), plan # <<>>
    PROVE  /\ Suffix(Tail(plan), plan, 1)
           /\ Head(plan) = plan[1] /\ Head(plan) \in Commands
           /\ 1 \in DOMAIN plan
BY HeadTailProperties, PlanDomain DEF Suffix

\* SkipPosts drops posts only, and leaves none in front.
LEMMA SkipPostsIsSuffix ==
    ASSUME NEW plan \in Seq(Commands)
    PROVE  \E m \in 0 .. Len(plan) :
              /\ Suffix(SkipPosts(plan), plan, m)
              /\ \A i \in 1 .. m : plan[i].do = "post"
              /\ NoOpenPost(SkipPosts(plan))
<1> DEFINE rest == {i \in DOMAIN plan : plan[i].do # "post"}
<1>0. Len(plan) \in Nat /\ DOMAIN plan = 1 .. Len(plan)
    BY PlanDomain
<1>1. CASE rest = {}
    <2>1. SkipPosts(plan) = <<>>
        BY <1>1 DEF SkipPosts
    <2>2. <<>> \in Seq(Commands) /\ Len(<<>>) = 0
        BY EmptySeq
    <2>3. Suffix(<<>>, plan, Len(plan))
        BY <1>0, <2>2 DEF Suffix
    <2>4. \A i \in 1 .. Len(plan) : plan[i].do = "post"
        BY <1>0, <1>1
    <2> QED BY <1>0, <2>1, <2>3, <2>4 DEF NoOpenPost
<1>2. CASE rest # {}
    <2> DEFINE n == CHOOSE i \in rest : \A j \in rest : i <= j
    <2>1. \E i \in rest : \A j \in rest : i <= j
        <3>1. rest \in SUBSET Nat
            BY <1>0
        <3> HIDE DEF rest
        <3> QED BY <1>2, <3>1, LeastOf
    <2>2. n \in rest /\ \A j \in rest : n <= j
        BY <2>1
    <2>3. SkipPosts(plan) = SubSeq(plan, n, Len(plan))
        BY <1>2 DEF SkipPosts
    <2> HIDE DEF n
    <2>4. n \in 1 .. Len(plan) /\ plan[n].do # "post"
        BY <1>0, <2>2
    <2>5. \A i \in 1 .. n - 1 : plan[i].do = "post"
        BY <1>0, <2>2, <2>4
    <2> DEFINE t == SubSeq(plan, n, Len(plan))
    <2>6. /\ t \in Seq(Commands) /\ Len(t) = Len(plan) - n + 1
          /\ \A i \in 1 .. Len(plan) - n + 1 : t[i] = plan[n + i - 1]
        <3>1. \A i \in n .. Len(plan) : plan[i] \in Commands
            BY <1>0, <2>4, PlanDomain
        <3> QED BY <1>0, <2>4, <3>1, SubSeqProperties
    <2> HIDE DEF t
    <2>7. Suffix(t, plan, n - 1)
        BY <1>0, <2>4, <2>6 DEF Suffix
    <2>8. t[1].do # "post"
        BY <1>0, <2>4, <2>6
    <2>9. n - 1 \in 0 .. Len(plan)
        BY <1>0, <2>4
    <2> QED BY <2>3, <2>5, <2>7, <2>8, <2>9 DEF NoOpenPost, t
<1> QED BY <1>1, <1>2

\* What a plan promises, the rest of it promises.
LEMMA SuffixKeeps ==
    ASSUME NEW plan \in Seq(Commands), NEW t, NEW m \in Nat, Suffix(t, plan, m)
    PROVE  /\ \A i \in DOMAIN t : i + m \in DOMAIN plan /\ t[i] = plan[i + m]
           /\ \A i \in DOMAIN plan : i > m => i - m \in DOMAIN t /\ t[i - m] = plan[i]
           /\ Lasting(plan) => Lasting(t)
           /\ LaterRead(plan) => LaterRead(t)
           /\ SnapshotFollows(plan) => SnapshotFollows(t)
<1>0. /\ t \in Seq(Commands) /\ Len(plan) \in Nat /\ Len(t) \in Nat /\ Len(t) + m = Len(plan)
      /\ DOMAIN plan = 1 .. Len(plan) /\ DOMAIN t = 1 .. Len(t)
      /\ \A i \in 1 .. Len(t) : t[i] = plan[i + m]
    BY PlanDomain DEF Suffix
<1>1. \A i \in DOMAIN t : i + m \in DOMAIN plan /\ t[i] = plan[i + m]
    BY <1>0
<1>2. ASSUME NEW i \in DOMAIN plan, i > m
      PROVE  i - m \in DOMAIN t /\ t[i - m] = plan[i]
    <2>1. i - m \in 1 .. Len(t) /\ (i - m) + m = i
        BY <1>0, <1>2
    <2> QED BY <1>0, <2>1
<1>3. Lasting(plan) => Lasting(t)
    <2> SUFFICES ASSUME Lasting(plan), NEW i \in DOMAIN t, t[i].do = "sadd"
                 PROVE  \E j \in DOMAIN t : j > i /\ t[j].do = "expire" /\ t[j].key = t[i].key
        BY DEF Lasting
    <2>1. i + m \in DOMAIN plan /\ t[i] = plan[i + m]
        BY <1>1
    <2>2. PICK j \in DOMAIN plan : /\ j > i + m /\ plan[j].do = "expire"
                                   /\ plan[j].key = plan[i + m].key
        BY <2>1 DEF Lasting
    <2>3. j > m /\ j - m > i
        BY <1>0, <2>2
    <2>4. j - m \in DOMAIN t /\ t[j - m] = plan[j]
        BY <1>2, <2>3
    <2> QED BY <2>1, <2>2, <2>3, <2>4
<1>4. LaterRead(plan) => LaterRead(t)
    <2> SUFFICES ASSUME LaterRead(plan), NEW i \in DOMAIN t, t[i].do = "post"
                 PROVE  FirstRun(t, i) \/ ReadFor(t, i)
        BY DEF LaterRead
    <2>1. i + m \in DOMAIN plan /\ t[i] = plan[i + m] /\ i \in 1 .. Len(t)
        BY <1>0, <1>1
    <2>2. \A k \in 1 .. i - 1 : t[k] = plan[k + m]
        BY <1>0, <2>1
    <2>3. CASE FirstRun(plan, i + m)
        <3>1. \A k \in 1 .. i - 1 : k + m \in 1 .. (i + m) - 1
            BY <1>0, <2>1
        <3> QED BY <2>2, <2>3, <3>1 DEF FirstRun
    <2>4. CASE ReadFor(plan, i + m)
        <3>1. PICK j \in 1 .. (i + m) - 1 :
                 /\ plan[j].do = "get" /\ plan[j].ch = plan[i + m].ch
                 /\ \A k \in j + 1 .. (i + m) - 1 : plan[k].do = "post"
            BY <2>4 DEF ReadFor
        <3>2. CASE j <= m
            <4>1. \A k \in 1 .. i - 1 : k + m \in j + 1 .. (i + m) - 1
                BY <1>0, <2>1, <3>2
            <4> QED BY <2>2, <3>1, <4>1 DEF FirstRun
        <3>3. CASE j > m
            <4>0. i \in Nat /\ j \in Nat /\ j - m \in 1 .. i - 1 /\ (j - m) + m = j
                BY <1>0, <2>1, <3>3
            <4>1. /\ j - m \in 1 .. i - 1 /\ (j - m) + m = j
                  /\ \A k \in (j - m) + 1 .. i - 1 : k \in 1 .. i - 1 /\ k + m \in j + 1 .. (i + m) - 1
                BY <4>0, <3>3
            <4>2. t[j - m] = plan[j]
                BY <2>2, <4>1
            <4> QED BY <2>1, <2>2, <3>1, <4>1, <4>2 DEF ReadFor
        <3> QED BY <1>0, <3>2, <3>3
    <2> QED BY <2>1, <2>3, <2>4 DEF LaterRead
<1>5. SnapshotFollows(plan) => SnapshotFollows(t)
    <2> SUFFICES ASSUME SnapshotFollows(plan), NEW i \in DOMAIN t, NEW ch \in Channels,
                        t[i].do = "sadd", t[i].key = Subs(ch)
                 PROVE  \E j \in DOMAIN t : /\ j > i /\ j + 1 \in DOMAIN t
                                            /\ t[j] = get(ch) /\ t[j + 1] = post(t[i].arg, ch)
        BY DEF SnapshotFollows
    <2>1. i + m \in DOMAIN plan /\ t[i] = plan[i + m]
        BY <1>1
    <2>2. PICK j \in DOMAIN plan :
             /\ j > i + m /\ j + 1 \in DOMAIN plan
             /\ plan[j] = get(ch) /\ plan[j + 1] = post(plan[i + m].arg, ch)
        BY <2>1 DEF SnapshotFollows
    <2>3. j > m /\ j - m > i /\ j + 1 > m /\ (j + 1) - m = (j - m) + 1
        BY <1>0, <2>2
    <2>4. /\ j - m \in DOMAIN t /\ t[j - m] = plan[j]
          /\ (j - m) + 1 \in DOMAIN t /\ t[(j - m) + 1] = plan[j + 1]
        BY <1>2, <2>2, <2>3
    <2> QED BY <2>1, <2>2, <2>3, <2>4
<1> QED BY <1>1, <1>2, <1>3, <1>4, <1>5

\* Without an open post in front, every post will have its read.
LEMMA NothingOpen ==
    ASSUME NEW plan \in Seq(Commands), LaterRead(plan), NoOpenPost(plan)
    PROVE  AllRead(plan)
<1> SUFFICES ASSUME NEW i \in DOMAIN plan, plan[i].do = "post"
             PROVE  ReadFor(plan, i)
    BY DEF AllRead
<1>1. i \in 1 .. Len(plan) /\ plan # <<>> /\ Len(plan) \in Nat
    BY PlanDomain
<1>2. i # 1
    BY <1>1 DEF NoOpenPost
<1>3. 1 \in 1 .. i - 1
    BY <1>1, <1>2
<1>4. ~FirstRun(plan, i)
    BY <1>1, <1>3 DEF FirstRun, NoOpenPost
<1> QED BY <1>4 DEF LaterRead

\* A post that has its read to come does not send a value already read.
LEMMA ReadIsLater ==
    ASSUME NEW plan \in Seq(Commands), NEW i \in DOMAIN plan, ReadFor(plan, i)
    PROVE  ~FirstRun(plan, i)
BY DEF ReadFor, FirstRun

\* After a command that is neither a read nor a post no post is open.
LEMMA OtherClosesPosts ==
    ASSUME NEW plan \in Seq(Commands), plan # <<>>, LaterRead(plan),
           plan[1].do \notin {"get", "post"}
    PROVE  NoOpenPost(Tail(plan))
<1> SUFFICES ASSUME Tail(plan) # <<>>, Tail(plan)[1].do = "post"
             PROVE  FALSE
    BY DEF NoOpenPost
<1>1. Suffix(Tail(plan), plan, 1)
    BY TailIsSuffix
<1>2. 1 \in 1 .. Len(Tail(plan))
    BY <1>1, PlanDomain DEF Suffix
<1>3. Tail(plan)[1] = plan[2] /\ 2 \in DOMAIN plan
    BY <1>1, <1>2, PlanDomain DEF Suffix
<1>4. FirstRun(plan, 2) \/ ReadFor(plan, 2)
    BY <1>3 DEF LaterRead
<1> QED BY <1>4 DEF FirstRun, ReadFor

\* Positions in a concatenation.
LEMMA Positions ==
    ASSUME NEW s \in Seq(Commands), NEW t \in Seq(Commands)
    PROVE  /\ s \o t \in Seq(Commands)
           /\ Len(s) \in Nat
           /\ \A i \in DOMAIN s : i \in DOMAIN (s \o t) /\ (s \o t)[i] = s[i]
           /\ \A i \in DOMAIN t : Len(s) + i \in DOMAIN (s \o t) /\ (s \o t)[Len(s) + i] = t[i]
           /\ \A i \in DOMAIN (s \o t) :
                 \/ i \in DOMAIN s
                 \/ i > Len(s) /\ i - Len(s) \in DOMAIN t
<1>1. /\ Len(s) \in Nat /\ Len(t) \in Nat
      /\ DOMAIN s = 1 .. Len(s) /\ DOMAIN t = 1 .. Len(t)
      /\ s \o t \in Seq(Commands) /\ DOMAIN (s \o t) = 1 .. Len(s) + Len(t)
      /\ \A i \in 1 .. Len(s) + Len(t) : (s \o t)[i] = IF i <= Len(s) THEN s[i] ELSE t[i - Len(s)]
    BY ConcatProperties, PlanDomain
<1> DEFINE u == s \o t
<1> HIDE DEF u
<1>2. /\ Len(s) \in Nat /\ Len(t) \in Nat
      /\ DOMAIN s = 1 .. Len(s) /\ DOMAIN t = 1 .. Len(t)
      /\ u \in Seq(Commands) /\ DOMAIN u = 1 .. Len(s) + Len(t)
      /\ \A i \in 1 .. Len(s) + Len(t) : u[i] = IF i <= Len(s) THEN s[i] ELSE t[i - Len(s)]
    BY <1>1 DEF u
<1>3. \A i \in DOMAIN s : i \in DOMAIN u /\ u[i] = s[i]
    BY <1>2
<1>4. ASSUME NEW i \in DOMAIN t PROVE Len(s) + i \in DOMAIN u /\ u[Len(s) + i] = t[i]
    <2>1. Len(s) + i \in 1 .. Len(s) + Len(t) /\ ~(Len(s) + i <= Len(s)) /\ (Len(s) + i) - Len(s) = i
        BY <1>2
    <2> QED BY <1>2, <2>1
<1>5. \A i \in DOMAIN u : i \in DOMAIN s \/ (i > Len(s) /\ i - Len(s) \in DOMAIN t)
    BY <1>2
<1> QED BY <1>2, <1>3, <1>4, <1>5 DEF u

\* What two plans promise, they promise one after the other.
LEMMA ConcatKeeps ==
    ASSUME NEW s \in Seq(Commands), NEW t \in Seq(Commands)
    PROVE  /\ Lasting(s) /\ Lasting(t) => Lasting(s \o t)
           /\ AllRead(s) /\ AllRead(t) => AllRead(s \o t)
           /\ SnapshotFollows(s) /\ SnapshotFollows(t) => SnapshotFollows(s \o t)
<1> DEFINE u == s \o t  n == Len(s)
<1>1. /\ u \in Seq(Commands) /\ n \in Nat
      /\ \A i \in DOMAIN s : i \in DOMAIN u /\ u[i] = s[i]
      /\ \A i \in DOMAIN t : n + i \in DOMAIN u /\ u[n + i] = t[i]
      /\ \A i \in DOMAIN u : i \in DOMAIN s \/ (i > n /\ i - n \in DOMAIN t)
    BY Positions
<1>2. /\ DOMAIN s = 1 .. n /\ DOMAIN t = 1 .. Len(t) /\ Len(t) \in Nat
      /\ \A i \in DOMAIN u : i \in Nat
    BY <1>1, PlanDomain
<1> HIDE DEF u, n
<1>3. ASSUME NEW i \in DOMAIN u, i > n, i - n \in DOMAIN t
      PROVE  u[i] = t[i - n]
    <2>1. n + (i - n) = i
        BY <1>1, <1>2
    <2> QED BY <1>1, <1>3, <2>1
<1>4. Lasting(s) /\ Lasting(t) => Lasting(u)
    <2> SUFFICES ASSUME Lasting(s), Lasting(t), NEW i \in DOMAIN u, u[i].do = "sadd"
                 PROVE  \E j \in DOMAIN u : j > i /\ u[j].do = "expire" /\ u[j].key = u[i].key
        BY DEF Lasting
    <2>1. CASE i \in DOMAIN s
        BY <1>1, <2>1 DEF Lasting
    <2>2. CASE i > n /\ i - n \in DOMAIN t
        <3>1. u[i] = t[i - n]
            BY <1>3, <2>2
        <3>2. PICK j \in DOMAIN t : j > i - n /\ t[j].do = "expire" /\ t[j].key = t[i - n].key
            BY <2>2, <3>1 DEF Lasting
        <3>3. n + j > i
            BY <1>1, <1>2, <3>2
        <3> QED BY <1>1, <3>1, <3>2, <3>3
    <2> QED BY <1>1, <2>1, <2>2
<1>5. AllRead(s) /\ AllRead(t) => AllRead(u)
    <2> SUFFICES ASSUME AllRead(s), AllRead(t), NEW i \in DOMAIN u, u[i].do = "post"
                 PROVE  ReadFor(u, i)
        BY DEF AllRead
    <2>1. CASE i \in DOMAIN s
        <3>1. PICK j \in 1 .. i - 1 : /\ s[j].do = "get" /\ s[j].ch = s[i].ch
                                      /\ \A k \in j + 1 .. i - 1 : s[k].do = "post"
            BY <1>1, <2>1 DEF AllRead, ReadFor
        <3>2. j \in DOMAIN s /\ \A k \in j + 1 .. i - 1 : k \in DOMAIN s
            BY <1>1, <1>2, <2>1
        <3> QED BY <1>1, <2>1, <3>1, <3>2 DEF ReadFor
    <2>2. CASE i > n /\ i - n \in DOMAIN t
        <3>1. u[i] = t[i - n]
            BY <1>3, <2>2
        <3>2. PICK j \in 1 .. (i - n) - 1 :
                 /\ t[j].do = "get" /\ t[j].ch = t[i - n].ch
                 /\ \A k \in j + 1 .. (i - n) - 1 : t[k].do = "post"
            BY <2>2, <3>1 DEF AllRead, ReadFor
        <3>3. n + j \in 1 .. i - 1 /\ j \in DOMAIN t
            BY <1>1, <1>2, <2>2
        <3>4. ASSUME NEW k \in (n + j) + 1 .. i - 1 PROVE u[k].do = "post"
            <4>0. i \in Nat /\ j \in Nat /\ n \in Nat /\ i - n \in 1 .. Len(t) /\ Len(t) \in Nat
                BY <1>1, <1>2, <2>2
            <4>1. /\ k - n \in j + 1 .. (i - n) - 1 /\ k - n \in 1 .. Len(t) /\ n + (k - n) = k
                BY <4>0
            <4>2. u[k] = t[k - n]
                BY <1>1, <1>2, <4>1
            <4> QED BY <3>2, <4>1, <4>2
        <3>5. u[n + j] = t[j]
            BY <1>1, <3>3
        <3> QED BY <3>1, <3>2, <3>3, <3>4, <3>5 DEF ReadFor
    <2> QED BY <1>1, <2>1, <2>2
<1>6. SnapshotFollows(s) /\ SnapshotFollows(t) => SnapshotFollows(u)
    <2> SUFFICES ASSUME SnapshotFollows(s), SnapshotFollows(t), NEW i \in DOMAIN u,
                        NEW ch \in Channels, u[i].do = "sadd", u[i].key = Subs(ch)
                 PROVE  \E j \in DOMAIN u : /\ j > i /\ j + 1 \in DOMAIN u
                                            /\ u[j] = get(ch) /\ u[j + 1] = post(u[i].arg, ch)
        BY DEF SnapshotFollows
    <2>1. CASE i \in DOMAIN s
        <3>1. u[i] = s[i]
            BY <1>1, <2>1
        <3>2. PICK j \in DOMAIN s : /\ j > i /\ j + 1 \in DOMAIN s
                                    /\ s[j] = get(ch) /\ s[j + 1] = post(s[i].arg, ch)
            BY <2>1, <3>1 DEF SnapshotFollows
        <3>3. /\ j \in DOMAIN u /\ u[j] = s[j] /\ j + 1 \in DOMAIN u /\ u[j + 1] = s[j + 1]
            BY <1>1, <3>2
        <3> QED BY <3>1, <3>2, <3>3
    <2>2. CASE i > n /\ i - n \in DOMAIN t
        <3>1. u[i] = t[i - n]
            BY <1>3, <2>2
        <3>2. PICK j \in DOMAIN t : /\ j > i - n /\ j + 1 \in DOMAIN t
                                    /\ t[j] = get(ch) /\ t[j + 1] = post(t[i - n].arg, ch)
            BY <2>2, <3>1 DEF SnapshotFollows
        <3>3. n + j > i /\ n + (j + 1) = (n + j) + 1
            BY <1>1, <1>2, <3>2
        <3>4. /\ n + j \in DOMAIN u /\ u[n + j] = t[j]
              /\ (n + j) + 1 \in DOMAIN u /\ u[(n + j) + 1] = t[j + 1]
            BY <1>1, <3>2, <3>3
        <3> QED BY <3>1, <3>2, <3>3, <3>4
    <2> QED BY <1>1, <2>1, <2>2
<1> QED BY <1>4, <1>5, <1>6 DEF u

LEMMA WholeConcat ==
    /\ <<>> \in Whole
    /\ \A s, t \in Whole : s \o t \in Whole
<1>1. <<>> \in Whole
    <2>1. <<>> \in Seq(Commands) /\ DOMAIN (<<>>) = {}
        BY EmptySeq
    <2> QED BY <2>1 DEF Whole, Lasting, AllRead, SnapshotFollows
<1>2. ASSUME NEW s \in Whole, NEW t \in Whole PROVE s \o t \in Whole
    BY ConcatKeeps, Positions DEF Whole
<1> QED BY <1>1, <1>2

-------------------------------------------------------------------------------
(* The invariants.                                                         *)

ProcStates == [plan : Seq(Commands), val : Nat, gone : SUBSET Conns]
SockStates == {"none", "opening", "open", "closed"}

StoreTyped ==
    /\ store \in [Keys -> SUBSET Members]
    /\ \A ch \in Channels : store[Subs(ch)] \subseteq Conns
    /\ \A c \in Conns : store[Conn(c)] \subseteq Channels

WsType ==
    /\ sock \in [Conns -> SockStates]
    /\ StoreTyped
    /\ val \in [Channels -> Nat]
    /\ proc \in [Procs -> ProcStates]
    /\ best \in [Conns -> [Channels -> Nat]]

\* The connection has been accepted; it may be closed by now.
Met(sk, c) == sk[c] \in {"open", "closed"}

IsEntry(k, x) ==
    \/ k = Connections /\ x \in Conns
    \/ \E ch \in Channels : k = Subs(ch) /\ x \in Conns
    \/ \E c \in Conns : k = Conn(c) /\ x \in Channels

\* What a command x of invocation p may be, and what it says about the connections
\* when their states are sk.
Fits(sk, p, x) ==
    /\ x.do = "sadd" => IsEntry(x.key, x.arg)
    /\ \A ch \in Channels : (x.do = "sadd" /\ x.key = Subs(ch)) => Met(sk, x.arg)
    /\ x.do = "del" => \E c \in Conns : x.key = Conn(c)
    /\ x.do = "accept" => sk[x.conn] = "opening"
    /\ x.do = "post" => Met(sk, x.conn)
    /\ p \in Pushers =>
          /\ x.do \notin {"sadd", "expire", "accept"}
          /\ x.do = "srem" => x.arg \in Conns /\ sk[x.arg] = "closed"
          /\ x.do = "channelsOf" => sk[x.conn] = "closed"

AllFit ==
    \A p \in Procs : /\ \A i \in DOMAIN proc[p].plan : Fits(sock, p, proc[p].plan[i])
                     /\ \A c \in proc[p].gone : sock[c] = "closed"

\* One invocation will accept a connection, once.
OneAccept ==
    \A p, q \in Procs : \A i \in DOMAIN proc[p].plan, j \in DOMAIN proc[q].plan :
        (proc[p].plan[i].do = "accept" /\ proc[q].plan[j].do = "accept"
            /\ proc[p].plan[i].conn = proc[q].plan[j].conn) => p = q /\ i = j

ListedMet == \A ch \in Channels : \A c \in store[Subs(ch)] : Met(sock, c)

PlansInOrder ==
    \A p \in Procs : /\ Lasting(proc[p].plan)
                     /\ LaterRead(proc[p].plan)
                     /\ SnapshotFollows(proc[p].plan)

\* No value comes from the future.
ValuesBounded ==
    /\ \A c \in Conns, ch \in Channels : best[c][ch] <= val[ch]
    /\ \A p \in Procs : \A i \in DOMAIN proc[p].plan :
          (proc[p].plan[i].do = "post" /\ FirstRun(proc[p].plan, i))
              => proc[p].val <= val[proc[p].plan[i].ch]

\* Invocation p is going to send c the newest value of ch: it will list the
\* subscribers, or it will post a value that it will read or that is the newest.
WillServe(p, c, ch) ==
    \E i \in DOMAIN proc[p].plan :
        \/ proc[p].plan[i] = subscribersOf(ch)
        \/ /\ proc[p].plan[i] = post(c, ch)
           /\ FirstRun(proc[p].plan, i) => proc[p].val = val[ch]

Served ==
    \A c \in Conns, ch \in Pushed :
        (sock[c] = "open" /\ c \in store[Subs(ch)] /\ <<c, ch>> \notin missed)
            => best[c][ch] = val[ch] \/ \E p \in Procs : WillServe(p, c, ch)

-------------------------------------------------------------------------------
(* The plans of the handlers.                                              *)

\* A command that a handler sends for a message of connection c.
Own(c, x) ==
    /\ x.do \in {"sadd", "srem", "expire", "get", "post"}
    /\ x.do = "sadd" => IsEntry(x.key, x.arg)
    /\ \A ch \in Channels : (x.do = "sadd" /\ x.key = Subs(ch)) => x.arg = c
    /\ x.do = "post" => x.conn = c

\* A command that removes one of the connections G.
Removal(G, x) ==
    /\ x.do \in {"srem", "channelsOf", "del"}
    /\ x.do = "srem" => x.arg \in G
    /\ x.do = "channelsOf" => x.conn \in G
    /\ x.do = "del" => \E c \in Conns : x.key = Conn(c)

OwnPlans(c) == {s \in Whole : \A i \in DOMAIN s : Own(c, s[i])}
Removals(G) == {s \in Whole : \A i \in DOMAIN s : Removal(G, s[i])}
PushPlans == {s \in Whole : \A i \in DOMAIN s : s[i].do \in {"subscribersOf", "reap"}}

\* Plans that add nothing and post nothing.
LEMMA QuietPlans ==
    ASSUME NEW s \in Seq(Commands), \A i \in DOMAIN s : s[i].do \notin {"sadd", "post"}
    PROVE  s \in Whole
BY DEF Whole, Lasting, AllRead, SnapshotFollows

LEMMA WholeIsSeq == Whole \in SUBSET Seq(Commands)
BY DEF Whole

\* A condition on every command passes to concatenations.
LEMMA EveryConcat ==
    ASSUME NEW s \in Whole, NEW t \in Whole
    PROVE  \A i \in DOMAIN (s \o t) : \/ \E j \in DOMAIN s : (s \o t)[i] = s[j]
                                      \/ \E j \in DOMAIN t : (s \o t)[i] = t[j]
<1> TAKE i \in DOMAIN (s \o t)
<1>0. s \in Seq(Commands) /\ t \in Seq(Commands)
    BY DEF Whole
<1>1. CASE i \in DOMAIN s
    BY <1>0, <1>1, Positions
<1>2. CASE i > Len(s) /\ i - Len(s) \in DOMAIN t
    <2>1. Len(s) \in Nat /\ Len(s) + (i - Len(s)) = i
        BY <1>0, <1>2, PlanDomain, Positions
    <2> QED BY <1>0, <1>2, <2>1, Positions
<1> QED BY <1>0, <1>1, <1>2, Positions

LEMMA SubscribeIsOwn ==
    ASSUME NEW c \in Conns, NEW ch \in Channels
    PROVE  Subscribe(c, ch) \in OwnPlans(c)
<1> DEFINE s == Subscribe(c, ch)
<1>1. /\ c \in Members /\ ch \in Members /\ Subs(ch) \in Keys /\ Conn(c) \in Keys
    BY KeysDiffer DEF Members
<1>2. /\ sadd(Subs(ch), c) \in Commands /\ sadd(Conn(c), ch) \in Commands
      /\ expire(Conn(c)) \in Commands /\ expire(Subs(ch)) \in Commands
      /\ get(ch) \in Commands /\ post(c, ch) \in Commands
    BY <1>1, CommandsTyped
<1>3. /\ s \in Seq(Commands) /\ DOMAIN s = 1 .. 6
      /\ s[1] = sadd(Subs(ch), c) /\ s[2] = sadd(Conn(c), ch) /\ s[3] = expire(Conn(c))
      /\ s[4] = expire(Subs(ch)) /\ s[5] = get(ch) /\ s[6] = post(c, ch)
    BY <1>2 DEF Subscribe
<1> HIDE DEF s
<1>4. /\ s[1].do = "sadd" /\ s[1].key = Subs(ch) /\ s[1].arg = c
      /\ s[2].do = "sadd" /\ s[2].key = Conn(c) /\ s[2].arg = ch
      /\ s[3].do = "expire" /\ s[3].key = Conn(c)
      /\ s[4].do = "expire" /\ s[4].key = Subs(ch)
      /\ s[5].do = "get" /\ s[5].ch = ch
      /\ s[6].do = "post" /\ s[6].conn = c /\ s[6].ch = ch
    BY <1>3 DEF sadd, expire, get, post
<1>5. \A i \in DOMAIN s : i \in {1, 2, 3, 4, 5, 6}
    BY <1>3
<1>6. Lasting(s)
    BY <1>3, <1>4, <1>5 DEF Lasting
<1>7. AllRead(s)
    <2>1. ReadFor(s, 6)
        BY <1>4 DEF ReadFor
    <2> QED BY <1>4, <1>5, <2>1 DEF AllRead
<1>8. SnapshotFollows(s)
    <2> SUFFICES ASSUME NEW i \in DOMAIN s, NEW dh \in Channels, s[i].do = "sadd", s[i].key = Subs(dh)
                 PROVE  \E j \in DOMAIN s : /\ j > i /\ j + 1 \in DOMAIN s
                                            /\ s[j] = get(dh) /\ s[j + 1] = post(s[i].arg, dh)
        BY DEF SnapshotFollows
    <2>1. i = 1 \/ i = 2
        BY <1>4, <1>5
    <2>2. i # 2
        BY <1>4, KeysDiffer
    <2>3. i = 1 /\ dh = ch
        BY <1>4, <2>1, <2>2, KeysDiffer
    <2>4. 5 \in DOMAIN s /\ 5 > i /\ 5 + 1 \in DOMAIN s /\ s[5] = get(dh) /\ s[5 + 1] = post(s[i].arg, dh)
        BY <1>3, <1>4, <2>3
    <2> QED BY <2>4
<1>9. ASSUME NEW i \in DOMAIN s PROVE Own(c, s[i])
    <2>1. IsEntry(Subs(ch), c) /\ IsEntry(Conn(c), ch)
        BY DEF IsEntry
    <2>2. CASE i = 1
        BY <1>4, <2>1, <2>2 DEF Own
    <2>3. CASE i = 2
        BY <1>4, <2>1, <2>3, KeysDiffer DEF Own
    <2>4. CASE i \in {3, 4, 5, 6}
        BY <1>4, <2>4 DEF Own
    <2> QED BY <1>5, <2>2, <2>3, <2>4
<1> QED BY <1>3, <1>6, <1>7, <1>8, <1>9 DEF OwnPlans, Whole, s

LEMMA UnsubscribeIsOwn ==
    ASSUME NEW c \in Conns, NEW ch \in Channels
    PROVE  Unsubscribe(c, ch) \in OwnPlans(c)
<1> DEFINE s == Unsubscribe(c, ch)
<1>1. srem(Subs(ch), c) \in Commands /\ srem(Conn(c), ch) \in Commands
    BY KeysDiffer, CommandsTyped DEF Members
<1>2. /\ s \in Seq(Commands) /\ DOMAIN s = 1 .. 2
      /\ s[1] = srem(Subs(ch), c) /\ s[2] = srem(Conn(c), ch)
    BY <1>1 DEF Unsubscribe
<1> HIDE DEF s
<1>3. \A i \in DOMAIN s : s[i].do = "srem"
    <2>1. \A i \in DOMAIN s : i = 1 \/ i = 2
        BY <1>2
    <2> QED BY <1>2, <2>1 DEF srem
<1>4. s \in Whole
    BY <1>2, <1>3, QuietPlans
<1> QED BY <1>3, <1>4 DEF OwnPlans, Own, s

LEMMA DefaultIsOwn ==
    ASSUME NEW c \in Conns, NEW msg \in Messages
    PROVE  handle_default(c, msg) \in OwnPlans(c)
<1>1. msg.subscribe \in Seq(STRING) /\ msg.unsubscribe \in Seq(Channels)
    BY WsAssumption DEF WsAssumption
<1> DEFINE a == [i \in DOMAIN msg.subscribe |->
                    IF is_valid_channel(msg.subscribe[i]) THEN Subscribe(c, msg.subscribe[i]) ELSE <<>>]
           b == [i \in DOMAIN msg.unsubscribe |-> Unsubscribe(c, msg.unsubscribe[i])]
<1>2. /\ OwnPlans(c) \in SUBSET Seq(Commands) /\ <<>> \in OwnPlans(c)
      /\ \A s, t \in OwnPlans(c) : s \o t \in OwnPlans(c)
    <2>1. OwnPlans(c) \in SUBSET Seq(Commands)
        BY WholeIsSeq DEF OwnPlans
    <2>2. <<>> \in OwnPlans(c)
        BY WholeConcat, EmptySeq DEF OwnPlans
    <2>3. ASSUME NEW s \in OwnPlans(c), NEW t \in OwnPlans(c) PROVE s \o t \in OwnPlans(c)
        <3>1. s \in Whole /\ t \in Whole /\ s \o t \in Whole
            BY WholeConcat DEF OwnPlans
        <3>2. \A i \in DOMAIN (s \o t) : Own(c, (s \o t)[i])
            BY <3>1, EveryConcat DEF OwnPlans
        <3> QED BY <3>1, <3>2 DEF OwnPlans
    <2> QED BY <2>1, <2>2, <2>3
<1>3. a \in Seq(OwnPlans(c))
    <2>1. Len(msg.subscribe) \in Nat /\ DOMAIN msg.subscribe = 1 .. Len(msg.subscribe)
        BY <1>1, LenProperties
    <2>2. \A i \in DOMAIN msg.subscribe : a[i] \in OwnPlans(c)
        BY <1>2, SubscribeIsOwn DEF is_valid_channel
    <2>3. a \in [1 .. Len(msg.subscribe) -> OwnPlans(c)]
        BY <2>1, <2>2
    <2> QED BY <2>1, <2>3, SeqDef
<1>4. b \in Seq(OwnPlans(c))
    <2>1. Len(msg.unsubscribe) \in Nat /\ DOMAIN msg.unsubscribe = 1 .. Len(msg.unsubscribe)
        BY <1>1, LenProperties
    <2>2. \A i \in DOMAIN msg.unsubscribe : b[i] \in OwnPlans(c)
        BY <1>1, <2>1, UnsubscribeIsOwn, ElementOfSeq
    <2>3. b \in [1 .. Len(msg.unsubscribe) -> OwnPlans(c)]
        BY <2>1, <2>2
    <2> QED BY <2>1, <2>3, SeqDef
<1> HIDE DEF a, b
<1>5. a \o b \in Seq(OwnPlans(c))
    BY <1>3, <1>4, ConcatProperties
<1>6. FlattenSeq(a \o b) \in OwnPlans(c)
    BY <1>2, <1>5, FlattenStays
<1> QED BY <1>6 DEF handle_default, a, b

LEMMA ConnectIsWhole ==
    ASSUME NEW c \in Conns
    PROVE  /\ handle_connect(c) \in Whole
           /\ \A i \in DOMAIN handle_connect(c) : LET x == handle_connect(c)[i] IN
                 /\ x.do \in {"sadd", "expire", "accept"}
                 /\ x.do = "sadd" => x.key = Connections /\ x.arg = c
                 /\ x.do = "accept" => x.conn = c /\ i = 3
<1> DEFINE s == handle_connect(c)
<1>1. sadd(Connections, c) \in Commands /\ expire(Connections) \in Commands /\ accept(c) \in Commands
    BY KeysDiffer, CommandsTyped DEF Members
<1>2. /\ s \in Seq(Commands) /\ DOMAIN s = 1 .. 3
      /\ s[1] = sadd(Connections, c) /\ s[2] = expire(Connections) /\ s[3] = accept(c)
    BY <1>1 DEF handle_connect
<1> HIDE DEF s
<1>3. /\ s[1].do = "sadd" /\ s[1].key = Connections /\ s[1].arg = c
      /\ s[2].do = "expire" /\ s[2].key = Connections
      /\ s[3].do = "accept" /\ s[3].conn = c
    BY <1>2 DEF sadd, expire, accept
<1>4. \A i \in DOMAIN s : i \in {1, 2, 3}
    BY <1>2
<1>5. Lasting(s)
    BY <1>2, <1>3, <1>4 DEF Lasting
<1>6. AllRead(s)
    BY <1>3, <1>4 DEF AllRead
<1>7. SnapshotFollows(s)
    BY <1>3, <1>4, KeysDiffer DEF SnapshotFollows
<1>8. s \in Whole
    BY <1>2, <1>5, <1>6, <1>7 DEF Whole
<1> QED BY <1>3, <1>4, <1>8 DEF s

LEMMA DisconnectIsWhole ==
    ASSUME NEW c \in Conns
    PROVE  handle_disconnect(c) \in Removals({c})
<1> DEFINE s == handle_disconnect(c)
<1>1. srem(Connections, c) \in Commands /\ channelsOf(c) \in Commands /\ del(Conn(c)) \in Commands
    BY KeysDiffer, CommandsTyped DEF Members
<1>2. /\ s \in Seq(Commands) /\ DOMAIN s = 1 .. 3
      /\ s[1] = srem(Connections, c) /\ s[2] = channelsOf(c) /\ s[3] = del(Conn(c))
    BY <1>1 DEF handle_disconnect
<1> HIDE DEF s
<1>3. /\ s[1].do = "srem" /\ s[1].arg = c /\ s[2].do = "channelsOf" /\ s[2].conn = c
      /\ s[3].do = "del" /\ s[3].key = Conn(c)
    BY <1>2 DEF srem, channelsOf, del
<1>4. \A i \in DOMAIN s : i \in {1, 2, 3}
    BY <1>2
<1>5. \A i \in DOMAIN s : Removal({c}, s[i])
    BY <1>3, <1>4 DEF Removal
<1>6. s \in Whole
    BY <1>2, <1>5, QuietPlans DEF Removal
<1> QED BY <1>5, <1>6 DEF Removals, s

LEMMA RemoveStaleIsRemoval ==
    ASSUME NEW G \in SUBSET Conns, NEW c \in G, NEW ch \in Channels
    PROVE  RemoveStale(c, ch) \in Removals(G)
<1> DEFINE s == RemoveStale(c, ch)
<1>1. /\ srem(Connections, c) \in Commands /\ srem(Subs(ch), c) \in Commands
      /\ channelsOf(c) \in Commands /\ del(Conn(c)) \in Commands
    BY KeysDiffer, CommandsTyped DEF Members
<1>2. /\ s \in Seq(Commands) /\ DOMAIN s = 1 .. 4
      /\ s[1] = srem(Connections, c) /\ s[2] = srem(Subs(ch), c)
      /\ s[3] = channelsOf(c) /\ s[4] = del(Conn(c))
    BY <1>1 DEF RemoveStale
<1> HIDE DEF s
<1>3. /\ s[1].do = "srem" /\ s[1].arg = c /\ s[2].do = "srem" /\ s[2].arg = c
      /\ s[3].do = "channelsOf" /\ s[3].conn = c
      /\ s[4].do = "del" /\ s[4].key = Conn(c)
    BY <1>2 DEF srem, channelsOf, del
<1>4. \A i \in DOMAIN s : i \in {1, 2, 3, 4}
    BY <1>2
<1>5. \A i \in DOMAIN s : Removal(G, s[i])
    BY <1>3, <1>4 DEF Removal
<1>6. s \in Whole
    BY <1>2, <1>5, QuietPlans DEF Removal
<1> QED BY <1>5, <1>6 DEF Removals, s

LEMMA ReapIsRemoval ==
    ASSUME NEW G \in SUBSET Conns, NEW ch \in Channels
    PROVE  LET gone == SetToSeq(G)
           IN  FlattenSeq([i \in DOMAIN gone |-> RemoveStale(gone[i], ch)]) \in Removals(G)
<1> DEFINE gone == SetToSeq(G)
           a == [i \in DOMAIN gone |-> RemoveStale(gone[i], ch)]
<1>1. gone \in Seq(G)
    <2>1. IsFiniteSet(G)
        BY WsAssumption, FS_Subset DEF WsAssumption
    <2> QED BY <2>1, SetToSeqLists
<1>2. /\ Removals(G) \in SUBSET Seq(Commands) /\ <<>> \in Removals(G)
      /\ \A s, t \in Removals(G) : s \o t \in Removals(G)
    <2>1. Removals(G) \in SUBSET Seq(Commands)
        BY WholeIsSeq DEF Removals
    <2>2. <<>> \in Removals(G)
        BY WholeConcat, EmptySeq DEF Removals
    <2>3. ASSUME NEW s \in Removals(G), NEW t \in Removals(G) PROVE s \o t \in Removals(G)
        <3>1. s \in Whole /\ t \in Whole /\ s \o t \in Whole
            BY WholeConcat DEF Removals
        <3>2. \A i \in DOMAIN (s \o t) : Removal(G, (s \o t)[i])
            BY <3>1, EveryConcat DEF Removals
        <3> QED BY <3>1, <3>2 DEF Removals
    <2> QED BY <2>1, <2>2, <2>3
<1>3. a \in Seq(Removals(G))
    <2>1. Len(gone) \in Nat /\ DOMAIN gone = 1 .. Len(gone)
        BY <1>1, LenProperties
    <2>2. \A i \in DOMAIN gone : gone[i] \in G
        BY <1>1, <2>1, ElementOfSeq
    <2> HIDE DEF gone
    <2>3. \A i \in DOMAIN gone : a[i] \in Removals(G)
        BY <2>2, RemoveStaleIsRemoval
    <2>4. a \in [1 .. Len(gone) -> Removals(G)]
        BY <2>1, <2>3
    <2> QED BY <2>1, <2>4, SeqDef
<1> HIDE DEF a
<1>4. FlattenSeq(a) \in Removals(G)
    BY <1>2, <1>3, FlattenStays
<1> QED BY <1>4 DEF a

LEMMA PushIsWhole ==
    /\ push_ws_updates \in PushPlans
    /\ \A ch \in Pushed : \E i \in DOMAIN push_ws_updates : push_ws_updates[i] = subscribersOf(ch)
<1> DEFINE a == [i \in DOMAIN PairChannels |->
                    <<subscribersOf(PairChannels[i]), reap(PairChannels[i])>>]
<1>1. /\ PairChannels \in Seq(Channels) /\ Len(PairChannels) \in Nat
      /\ DOMAIN PairChannels = 1 .. Len(PairChannels)
      /\ \A i \in DOMAIN PairChannels : PairChannels[i] \in Channels
    BY WsAssumption, LenProperties, ElementOfSeq DEF WsAssumption
<1>2. /\ PushPlans \in SUBSET Seq(Commands) /\ <<>> \in PushPlans
      /\ \A s, t \in PushPlans : s \o t \in PushPlans
    <2>1. PushPlans \in SUBSET Seq(Commands)
        BY WholeIsSeq DEF PushPlans
    <2>2. <<>> \in PushPlans
        BY WholeConcat, EmptySeq DEF PushPlans
    <2>3. ASSUME NEW s \in PushPlans, NEW t \in PushPlans PROVE s \o t \in PushPlans
        <3>1. s \in Whole /\ t \in Whole /\ s \o t \in Whole
            BY WholeConcat DEF PushPlans
        <3>2. \A i \in DOMAIN (s \o t) : (s \o t)[i].do \in {"subscribersOf", "reap"}
            BY <3>1, EveryConcat DEF PushPlans
        <3> QED BY <3>1, <3>2 DEF PushPlans
    <2> QED BY <2>1, <2>2, <2>3
<1>3. ASSUME NEW ch \in Channels
      PROVE  <<subscribersOf(ch), reap(ch)>> \in PushPlans
    <2> DEFINE s == <<subscribersOf(ch), reap(ch)>>
    <2>1. s \in Seq(Commands) /\ DOMAIN s = 1 .. 2 /\ s[1] = subscribersOf(ch) /\ s[2] = reap(ch)
        BY CommandsTyped
    <2> HIDE DEF s
    <2>2. \A i \in DOMAIN s : i = 1 \/ i = 2
        BY <2>1
    <2>3. \A i \in DOMAIN s : s[i].do \in {"subscribersOf", "reap"}
        BY <2>1, <2>2 DEF subscribersOf, reap
    <2>4. s \in Whole
        BY <2>1, <2>3, QuietPlans
    <2> QED BY <2>3, <2>4 DEF PushPlans, s
<1>4. a \in Seq(PushPlans)
    <2>1. \A i \in DOMAIN PairChannels : a[i] \in PushPlans
        BY <1>1, <1>3
    <2>2. a \in [1 .. Len(PairChannels) -> PushPlans]
        BY <1>1, <2>1
    <2> QED BY <1>1, <2>2, SeqDef
<1>5. FlattenSeq(a) \in PushPlans
    <2> HIDE DEF a
    <2> QED BY <1>2, <1>4, FlattenStays
<1>6. ASSUME NEW ch \in Pushed
      PROVE  \E i \in DOMAIN FlattenSeq(a) : FlattenSeq(a)[i] = subscribersOf(ch)
    <2>1. PICK n \in DOMAIN PairChannels : PairChannels[n] = ch
        BY DEF Pushed, ToSet
    <2>2. n \in DOMAIN a /\ 1 \in DOMAIN a[n] /\ a[n][1] = subscribersOf(ch)
        BY <2>1
    <2>3. a \in Seq(Seq(Commands))
        BY <1>2, <1>4, SeqMonotonic
    <2> HIDE DEF a
    <2> QED BY <2>2, <2>3, FlattenKeeps
<1> QED BY <1>5, <1>6 DEF push_ws_updates

-------------------------------------------------------------------------------
(* How an invocation goes on.                                              *)

\* Invocation p has done the first m commands of its plan (all but the first are
\* posts it skips), goes on with the rest t, and puts pre in front.
MovesBy(p, pre, t, m) ==
    /\ proc[p].plan # <<>>
    /\ pre \in Whole /\ m \in Nat \ {0}
    /\ Suffix(t, proc[p].plan, m)
    /\ proc'[p].plan = pre \o t
    /\ (pre # <<>> \/ m # 1 \/ proc[p].plan[1].do \notin {"get", "post"}) => NoOpenPost(t)
    /\ \A i \in 2 .. m : proc[p].plan[i].do = "post"
    /\ m # 1 => proc[p].plan[1].do = "get"
    /\ \A i \in DOMAIN pre : Fits(sock, p, pre[i]) /\ pre[i].do # "accept"
    /\ \A c \in proc'[p].gone : sock[c] = "closed"
    /\ \A q \in Procs : q # p => proc'[q] = proc[q]
    /\ proc' \in [Procs -> ProcStates]

Moves(p) == \E pre, t, m : MovesBy(p, pre, t, m)

LEMMA GoesOnFacts ==
    ASSUME WsType, NEW p \in Procs
    PROVE  \A n \in Seq(Commands), v \in Nat, g \in SUBSET Conns : GoesOn(p, n, v, g) =>
              /\ proc' \in [Procs -> ProcStates]
              /\ proc'[p].plan = n
              /\ n # <<>> => proc'[p].val = v
              /\ proc'[p].gone \subseteq g
              /\ \A q \in Procs : q # p => proc'[q] = proc[q]
<1> TAKE n \in Seq(Commands), v \in Nat, g \in SUBSET Conns
<1> HAVE GoesOn(p, n, v, g)
<1>1. CASE n = <<>>
    <2>1. Idle \in ProcStates /\ Idle.plan = <<>> /\ Idle.gone = {}
        BY EmptySeq DEF Idle, ProcStates
    <2>2. proc' = [proc EXCEPT ![p] = Idle]
        BY <1>1 DEF GoesOn
    <2> QED BY <1>1, <2>1, <2>2 DEF WsType
<1>2. CASE n # <<>>
    <2> DEFINE r == [plan |-> n, val |-> v, gone |-> g]
    <2>1. r \in ProcStates /\ r.plan = n /\ r.val = v /\ r.gone = g
        BY DEF ProcStates
    <2>2. proc' = [proc EXCEPT ![p] = r]
        BY <1>2 DEF GoesOn
    <2> HIDE DEF r
    <2> QED BY <2>1, <2>2 DEF WsType
<1> QED BY <1>1, <1>2

LEMMA PlanTyped ==
    ASSUME WsType, NEW p \in Procs
    PROVE  /\ proc[p].plan \in Seq(Commands) /\ proc[p].val \in Nat /\ proc[p].gone \in SUBSET Conns
           /\ proc[p].plan # <<>> =>
                 /\ 1 \in DOMAIN proc[p].plan
                 /\ Cmd(p) = proc[p].plan[1] /\ Cmd(p) \in Commands
                 /\ Tail(proc[p].plan) \in Seq(Commands)
                 /\ Suffix(Tail(proc[p].plan), proc[p].plan, 1)
<1>1. /\ proc[p].plan \in Seq(Commands) /\ proc[p].val \in Nat /\ proc[p].gone \in SUBSET Conns
    BY DEF WsType, ProcStates
<1>2. \A plan \in Seq(Commands) : plan # <<>> =>
         /\ 1 \in DOMAIN plan /\ Head(plan) = plan[1] /\ Head(plan) \in Commands
         /\ Suffix(Tail(plan), plan, 1) /\ Tail(plan) \in Seq(Commands)
    BY TailIsSuffix DEF Suffix
<1> QED BY <1>1, <1>2 DEF Cmd

\* One command is done, and nothing else changes in the plan.
LEMMA TailMoves ==
    ASSUME WsType, PlansInOrder, NEW p \in Procs, proc[p].plan # <<>>
    PROVE  \A v \in Nat, g \in SUBSET Conns :
              (GoesOn(p, Tail(proc[p].plan), v, g) /\ \A c \in g : sock[c] = "closed")
                  => MovesBy(p, <<>>, Tail(proc[p].plan), 1)
<1> TAKE v \in Nat, g \in SUBSET Conns
<1> HAVE GoesOn(p, Tail(proc[p].plan), v, g) /\ \A c \in g : sock[c] = "closed"
<1> DEFINE plan == proc[p].plan
<1>0. \A n \in Seq(Commands), w \in Nat, h \in SUBSET Conns : GoesOn(p, n, w, h) =>
         /\ proc' \in [Procs -> ProcStates] /\ proc'[p].plan = n
         /\ proc'[p].gone \subseteq h
         /\ \A q \in Procs : q # p => proc'[q] = proc[q]
    BY GoesOnFacts
<1>1. plan \in Seq(Commands) /\ Tail(plan) \in Seq(Commands) /\ Suffix(Tail(plan), plan, 1)
    BY PlanTyped
<1>2. /\ proc' \in [Procs -> ProcStates] /\ proc'[p].plan = Tail(plan)
      /\ proc'[p].gone \subseteq g
      /\ \A q \in Procs : q # p => proc'[q] = proc[q]
    BY <1>0, <1>1
<1>3. <<>> \o Tail(plan) = Tail(plan) /\ <<>> \in Whole /\ DOMAIN (<<>>) = {}
    BY <1>1, ConcatEmptySeq, WholeConcat
<1>4. plan[1].do \notin {"get", "post"} => NoOpenPost(Tail(plan))
    <2>1. \A pl \in Seq(Commands) :
             (pl # <<>> /\ LaterRead(pl) /\ pl[1].do \notin {"get", "post"}) => NoOpenPost(Tail(pl))
        BY OtherClosesPosts
    <2> QED BY <1>1, <2>1 DEF PlansInOrder
<1>5. 1 \in Nat \ {0} /\ 2 .. 1 = {}
    OBVIOUS
<1> QED BY <1>1, <1>2, <1>3, <1>4, <1>5 DEF MovesBy

\* A value that is missing, or whose GET failed, is not posted.
LEMMA SkipMoves ==
    ASSUME WsType, PlansInOrder, NEW p \in Procs, proc[p].plan # <<>>, proc[p].plan[1].do = "get"
    PROVE  \A v \in Nat, g \in SUBSET Conns :
              (GoesOn(p, SkipPosts(Tail(proc[p].plan)), v, g) /\ \A c \in g : sock[c] = "closed")
                  => \E t, m : MovesBy(p, <<>>, t, m) /\ NoOpenPost(t) /\ proc'[p].plan = t
<1> TAKE v \in Nat, g \in SUBSET Conns
<1> HAVE GoesOn(p, SkipPosts(Tail(proc[p].plan)), v, g) /\ \A c \in g : sock[c] = "closed"
<1> DEFINE plan == proc[p].plan
           rest == Tail(plan)
           t == SkipPosts(rest)
<1>0. \A n \in Seq(Commands), w \in Nat, h \in SUBSET Conns : GoesOn(p, n, w, h) =>
         /\ proc' \in [Procs -> ProcStates] /\ proc'[p].plan = n
         /\ proc'[p].gone \subseteq h
         /\ \A q \in Procs : q # p => proc'[q] = proc[q]
    BY GoesOnFacts
<1>1. plan \in Seq(Commands) /\ rest \in Seq(Commands) /\ Suffix(rest, plan, 1)
    BY PlanTyped
<1>2. \A pl \in Seq(Commands) : \E m \in 0 .. Len(pl) :
         /\ Suffix(SkipPosts(pl), pl, m) /\ \A i \in 1 .. m : pl[i].do = "post"
         /\ NoOpenPost(SkipPosts(pl))
    BY SkipPostsIsSuffix
<1>3. PICK m \in 0 .. Len(rest) : /\ Suffix(t, rest, m) /\ \A i \in 1 .. m : rest[i].do = "post"
                                  /\ NoOpenPost(t)
    BY <1>1, <1>2
<1> HIDE DEF plan, rest, t
<1>4. /\ Len(rest) \in Nat /\ Len(plan) \in Nat /\ Len(t) \in Nat /\ t \in Seq(Commands)
      /\ Len(rest) + 1 = Len(plan) /\ Len(t) + m = Len(rest)
      /\ \A i \in 1 .. Len(rest) : rest[i] = plan[i + 1]
      /\ \A i \in 1 .. Len(t) : t[i] = rest[i + m]
    BY <1>1, <1>3, PlanDomain DEF Suffix
<1>5. Suffix(t, plan, m + 1)
    <2>1. ASSUME NEW i \in 1 .. Len(t) PROVE t[i] = plan[i + (m + 1)]
        <3>1. i + m \in 1 .. Len(rest) /\ (i + m) + 1 = i + (m + 1)
            BY <1>4
        <3> QED BY <1>4, <3>1
    <2>2. Len(t) + (m + 1) = Len(plan)
        BY <1>4
    <2> QED BY <1>4, <2>1, <2>2 DEF Suffix
<1>6. ASSUME NEW i \in 2 .. m + 1 PROVE plan[i].do = "post"
    <2>1. i - 1 \in 1 .. m /\ i - 1 \in 1 .. Len(rest) /\ (i - 1) + 1 = i
        BY <1>4
    <2>2. rest[i - 1] = plan[i]
        BY <1>4, <2>1
    <2> QED BY <1>3, <2>1, <2>2
<1>7. /\ proc' \in [Procs -> ProcStates] /\ proc'[p].plan = t
      /\ proc'[p].gone \subseteq g
      /\ \A q \in Procs : q # p => proc'[q] = proc[q]
    BY <1>0, <1>4 DEF t, rest, plan
<1>8. <<>> \o t = t /\ <<>> \in Whole /\ DOMAIN (<<>>) = {}
    BY <1>4, ConcatEmptySeq, WholeConcat
<1>9. m + 1 \in Nat \ {0}
    BY <1>4
<1>10. MovesBy(p, <<>>, t, m + 1)
    BY <1>3, <1>5, <1>6, <1>7, <1>8, <1>9 DEF MovesBy, plan
<1> QED BY <1>3, <1>7, <1>10

\* SMEMBERS, and the end of a channel's posts, put commands in front.
LEMMA PrefixMoves ==
    ASSUME WsType, PlansInOrder, NEW p \in Procs, proc[p].plan # <<>>,
           proc[p].plan[1].do \notin {"get", "post"}
    PROVE  \A pre \in Whole, v \in Nat, g \in SUBSET Conns :
              (/\ GoesOn(p, pre \o Tail(proc[p].plan), v, g)
               /\ \A c \in g : sock[c] = "closed"
               /\ \A i \in DOMAIN pre : Fits(sock, p, pre[i]) /\ pre[i].do # "accept")
                  => MovesBy(p, pre, Tail(proc[p].plan), 1)
<1> TAKE pre \in Whole, v \in Nat, g \in SUBSET Conns
<1> HAVE /\ GoesOn(p, pre \o Tail(proc[p].plan), v, g)
         /\ \A c \in g : sock[c] = "closed"
         /\ \A i \in DOMAIN pre : Fits(sock, p, pre[i]) /\ pre[i].do # "accept"
<1> DEFINE plan == proc[p].plan
<1>0. \A n \in Seq(Commands), w \in Nat, h \in SUBSET Conns : GoesOn(p, n, w, h) =>
         /\ proc' \in [Procs -> ProcStates] /\ proc'[p].plan = n
         /\ proc'[p].gone \subseteq h
         /\ \A q \in Procs : q # p => proc'[q] = proc[q]
    BY GoesOnFacts
<1>1. plan \in Seq(Commands) /\ Tail(plan) \in Seq(Commands) /\ Suffix(Tail(plan), plan, 1)
    BY PlanTyped
<1>2. \A s, t \in Seq(Commands) : s \o t \in Seq(Commands)
    BY Positions
<1>3. pre \o Tail(plan) \in Seq(Commands)
    BY <1>1, <1>2, WholeIsSeq
<1>4. /\ proc' \in [Procs -> ProcStates] /\ proc'[p].plan = pre \o Tail(plan)
      /\ proc'[p].gone \subseteq g
      /\ \A q \in Procs : q # p => proc'[q] = proc[q]
    BY <1>0, <1>3
<1>5. NoOpenPost(Tail(plan))
    <2>1. \A pl \in Seq(Commands) :
             (pl # <<>> /\ LaterRead(pl) /\ pl[1].do \notin {"get", "post"}) => NoOpenPost(Tail(pl))
        BY OtherClosesPosts
    <2> QED BY <1>1, <2>1 DEF PlansInOrder
<1>6. 1 \in Nat \ {0} /\ 2 .. 1 = {}
    OBVIOUS
<1> QED BY <1>1, <1>4, <1>5, <1>6 DEF MovesBy

\* What is left of a plan, with a whole plan in front of it, is in order again; no
\* command is done but the first m, and every other keeps its place.
LEMMA PlanGoesOn ==
    ASSUME NEW plan \in Seq(Commands), Lasting(plan), LaterRead(plan), SnapshotFollows(plan),
           NEW pre \in Whole, NEW t, NEW m \in Nat \ {0}, Suffix(t, plan, m),
           pre # <<>> => NoOpenPost(t)
    PROVE  /\ pre \o t \in Seq(Commands) /\ Len(pre) \in Nat
           /\ Lasting(pre \o t) /\ LaterRead(pre \o t) /\ SnapshotFollows(pre \o t)
           /\ NoOpenPost(t) => AllRead(pre \o t)
           /\ \A i \in DOMAIN pre : i \in DOMAIN (pre \o t) /\ (pre \o t)[i] = pre[i]
           /\ \A i \in DOMAIN (pre \o t) :
                 \/ i \in DOMAIN pre /\ (pre \o t)[i] = pre[i]
                 \/ /\ i > Len(pre) /\ i + (m - Len(pre)) \in DOMAIN plan
                    /\ (pre \o t)[i] = plan[i + (m - Len(pre))]
           /\ \A j \in DOMAIN plan : j > m =>
                 /\ Len(pre) + (j - m) \in DOMAIN (pre \o t)
                 /\ (pre \o t)[Len(pre) + (j - m)] = plan[j]
<1> DEFINE n == pre \o t
<1>1. /\ pre \in Seq(Commands) /\ t \in Seq(Commands)
      /\ Lasting(pre) /\ AllRead(pre) /\ SnapshotFollows(pre)
    BY DEF Whole, Suffix
<1>2. /\ \A i \in DOMAIN t : i + m \in DOMAIN plan /\ t[i] = plan[i + m]
      /\ \A i \in DOMAIN plan : i > m => i - m \in DOMAIN t /\ t[i - m] = plan[i]
      /\ Lasting(t) /\ LaterRead(t) /\ SnapshotFollows(t)
    BY SuffixKeeps
<1>3. /\ n \in Seq(Commands) /\ Len(pre) \in Nat
      /\ \A i \in DOMAIN pre : i \in DOMAIN n /\ n[i] = pre[i]
      /\ \A i \in DOMAIN t : Len(pre) + i \in DOMAIN n /\ n[Len(pre) + i] = t[i]
      /\ \A i \in DOMAIN n : i \in DOMAIN pre \/ (i > Len(pre) /\ i - Len(pre) \in DOMAIN t)
    BY <1>1, Positions
<1>4. NoOpenPost(t) => AllRead(t)
    BY <1>1, <1>2, NothingOpen
<1>5. /\ Lasting(n) /\ SnapshotFollows(n)
      /\ NoOpenPost(t) => AllRead(n)
    BY <1>1, <1>2, <1>4, ConcatKeeps
<1>6. LaterRead(n)
    <2>1. CASE pre = <<>>
        <3>1. n = t
            BY <1>1, <2>1, ConcatEmptySeq
        <3> QED BY <1>2, <3>1
    <2>2. CASE pre # <<>>
        BY <1>5, <2>2 DEF AllRead, LaterRead
    <2> QED BY <2>1, <2>2
<1> HIDE DEF n
<1>7. ASSUME NEW i \in DOMAIN n
      PROVE  \/ i \in DOMAIN pre /\ n[i] = pre[i]
             \/ /\ i > Len(pre) /\ i + (m - Len(pre)) \in DOMAIN plan
                /\ n[i] = plan[i + (m - Len(pre))]
    <2>1. CASE i > Len(pre) /\ i - Len(pre) \in DOMAIN t
        <3>1. i \in Nat
            BY <1>3, PlanDomain
        <3>2. Len(pre) + (i - Len(pre)) = i /\ (i - Len(pre)) + m = i + (m - Len(pre))
            BY <1>3, <3>1
        <3> QED BY <1>2, <1>3, <2>1, <3>2
    <2> QED BY <1>3, <2>1
<1>8. \A j \in DOMAIN plan : j > m =>
         Len(pre) + (j - m) \in DOMAIN n /\ n[Len(pre) + (j - m)] = plan[j]
    BY <1>2, <1>3
<1> QED BY <1>3, <1>5, <1>6, <1>7, <1>8 DEF n

LEMMA MovedPlan ==
    ASSUME WsType, PlansInOrder, NEW p \in Procs, NEW pre, NEW t, NEW m, MovesBy(p, pre, t, m)
    PROVE  /\ pre \in Seq(Commands) /\ m \in Nat \ {0} /\ Len(pre) \in Nat
           /\ proc[p].plan \in Seq(Commands) /\ proc'[p].plan \in Seq(Commands)
           /\ Lasting(proc'[p].plan) /\ LaterRead(proc'[p].plan) /\ SnapshotFollows(proc'[p].plan)
           /\ NoOpenPost(t) => AllRead(proc'[p].plan)
           /\ \A i \in DOMAIN pre : i \in DOMAIN proc'[p].plan /\ proc'[p].plan[i] = pre[i]
           /\ \A i \in DOMAIN proc'[p].plan :
                 \/ i \in DOMAIN pre /\ proc'[p].plan[i] = pre[i]
                 \/ /\ i > Len(pre) /\ i + (m - Len(pre)) \in DOMAIN proc[p].plan
                    /\ proc'[p].plan[i] = proc[p].plan[i + (m - Len(pre))]
           /\ \A j \in DOMAIN proc[p].plan : j > m =>
                 /\ Len(pre) + (j - m) \in DOMAIN proc'[p].plan
                 /\ proc'[p].plan[Len(pre) + (j - m)] = proc[p].plan[j]
<1> DEFINE plan == proc[p].plan  n == proc'[p].plan
<1>1. plan \in Seq(Commands) /\ Lasting(plan) /\ LaterRead(plan) /\ SnapshotFollows(plan)
    BY PlanTyped DEF PlansInOrder
<1>2. /\ pre \in Whole /\ m \in Nat \ {0} /\ Suffix(t, plan, m) /\ n = pre \o t
      /\ pre # <<>> => NoOpenPost(t)
    BY DEF MovesBy
<1>3. pre \in Seq(Commands)
    BY <1>2 DEF Whole
<1> HIDE DEF plan, n
<1>4. /\ pre \o t \in Seq(Commands) /\ Len(pre) \in Nat
      /\ Lasting(pre \o t) /\ LaterRead(pre \o t) /\ SnapshotFollows(pre \o t)
      /\ NoOpenPost(t) => AllRead(pre \o t)
      /\ \A i \in DOMAIN pre : i \in DOMAIN (pre \o t) /\ (pre \o t)[i] = pre[i]
      /\ \A i \in DOMAIN (pre \o t) :
            \/ i \in DOMAIN pre /\ (pre \o t)[i] = pre[i]
            \/ /\ i > Len(pre) /\ i + (m - Len(pre)) \in DOMAIN plan
               /\ (pre \o t)[i] = plan[i + (m - Len(pre))]
      /\ \A j \in DOMAIN plan : j > m =>
            /\ Len(pre) + (j - m) \in DOMAIN (pre \o t)
            /\ (pre \o t)[Len(pre) + (j - m)] = plan[j]
    BY <1>1, <1>2, PlanGoesOn
<1>5. /\ n \in Seq(Commands) /\ Len(pre) \in Nat
      /\ Lasting(n) /\ LaterRead(n) /\ SnapshotFollows(n)
      /\ NoOpenPost(t) => AllRead(n)
      /\ \A i \in DOMAIN pre : i \in DOMAIN n /\ n[i] = pre[i]
      /\ \A i \in DOMAIN n :
            \/ i \in DOMAIN pre /\ n[i] = pre[i]
            \/ /\ i > Len(pre) /\ i + (m - Len(pre)) \in DOMAIN plan
               /\ n[i] = plan[i + (m - Len(pre))]
      /\ \A j \in DOMAIN plan : j > m =>
            /\ Len(pre) + (j - m) \in DOMAIN n
            /\ n[Len(pre) + (j - m)] = plan[j]
    BY <1>2, <1>4
<1> QED BY <1>1, <1>2, <1>3, <1>5 DEF plan, n

\* A command that is neither the first nor a post is still to be sent.
LEMMA MovesKeepCommands ==
    ASSUME WsType, PlansInOrder, NEW p \in Procs, NEW pre, NEW t, NEW m, MovesBy(p, pre, t, m),
           NEW j \in DOMAIN proc[p].plan, j # 1, proc[p].plan[j].do # "post"
    PROVE  \E i \in DOMAIN proc'[p].plan : proc'[p].plan[i] = proc[p].plan[j]
<1>1. proc[p].plan \in Seq(Commands) /\ m \in Nat \ {0}
    BY MovedPlan
<1>2. j \in Nat /\ j >= 1
    BY <1>1, PlanDomain
<1>3. j \notin 2 .. m
    BY DEF MovesBy
<1>4. j > m
    BY <1>1, <1>2, <1>3
<1> QED BY <1>4, MovedPlan

LEMMA InOrderNext ==
    ASSUME WsType, PlansInOrder, NEW p \in Procs, Moves(p)
    PROVE  PlansInOrder'
<1>1. PICK pre, t, m : MovesBy(p, pre, t, m)
    BY DEF Moves
<1>2. Lasting(proc'[p].plan) /\ LaterRead(proc'[p].plan) /\ SnapshotFollows(proc'[p].plan)
    BY <1>1, MovedPlan
<1>3. \A q \in Procs : q # p => proc'[q] = proc[q]
    BY <1>1 DEF MovesBy
<1> QED BY <1>2, <1>3 DEF PlansInOrder

-------------------------------------------------------------------------------
(* Connections only go forward.                                            *)

SockStep ==
    \A c \in Conns : /\ Met(sock, c) => Met(sock', c)
                     /\ sock[c] = "closed" => sock'[c] = "closed"

\* The commands of p after a step are new ones, or those of before, moved by n places.
Shifts(p, n) ==
    \A i \in DOMAIN proc'[p].plan :
        \/ Fits(sock', p, proc'[p].plan[i]) /\ proc'[p].plan[i].do # "accept"
        \/ i + n \in DOMAIN proc[p].plan /\ proc'[p].plan[i] = proc[p].plan[i + n]

GoneClosed == \A p \in Procs : \A c \in proc[p].gone : sock[c] = "closed"

AcceptsWait ==
    \A p \in Procs : \A i \in DOMAIN proc[p].plan :
        proc[p].plan[i].do = "accept" => sock[proc[p].plan[i].conn] = "opening"

\* Whatever a command says about a connection stays true, but that it is opening.
LEMMA FitStays ==
    ASSUME SockStep, NEW p, NEW x \in Commands, Fits(sock, p, x),
           x.do = "accept" => sock'[x.conn] = "opening"
    PROVE  Fits(sock', p, x)
<1>1. /\ x.do = "srem" /\ p \in Pushers => x.arg \in Conns
      /\ x.do \in {"post", "channelsOf", "accept"} => x.conn \in Conns
    BY CommandFields DEF Fits
<1>2. ASSUME NEW ch \in Channels, x.do = "sadd", x.key = Subs(ch) PROVE x.arg \in Conns
    BY <1>2, KeysDiffer DEF Fits, IsEntry
<1> QED BY <1>1, <1>2 DEF Fits, SockStep

LEMMA ShiftsKeepFit ==
    ASSUME WsType, WsType', AllFit, OneAccept, SockStep, GoneClosed', AcceptsWait',
           \A p \in Procs : \E n \in Int : Shifts(p, n)
    PROVE  AllFit' /\ OneAccept'
<1>1. \A p \in Procs : proc[p].plan \in Seq(Commands) /\ proc'[p].plan \in Seq(Commands)
    BY DEF WsType, ProcStates
<1>2. \A p \in Procs : \A i \in DOMAIN proc'[p].plan : i \in Int /\ proc'[p].plan[i] \in Commands
    BY <1>1, PlanDomain
<1>3. ASSUME NEW p \in Procs, NEW i \in DOMAIN proc'[p].plan
      PROVE  Fits(sock', p, proc'[p].plan[i])
    <2> DEFINE x == proc'[p].plan[i]
    <2>0. PICK n \in Int : Shifts(p, n)
        OBVIOUS
    <2>1. CASE \E j \in DOMAIN proc[p].plan : x = proc[p].plan[j]
        <3>1. Fits(sock, p, x)
            BY <2>1 DEF AllFit
        <3>2. x \in Commands /\ (x.do = "accept" => sock'[x.conn] = "opening")
            BY <1>2 DEF AcceptsWait
        <3>3. Fits(sock', p, x)
            <4> HIDE DEF x
            <4> QED BY <3>1, <3>2, FitStays
        <3> QED BY <3>3
    <2> QED BY <2>0, <2>1 DEF Shifts
<1>4. AllFit'
    BY <1>3 DEF AllFit, GoneClosed
<1>5. ASSUME NEW p \in Procs, NEW q \in Procs,
             NEW i \in DOMAIN proc'[p].plan, NEW j \in DOMAIN proc'[q].plan,
             proc'[p].plan[i].do = "accept", proc'[q].plan[j].do = "accept",
             proc'[p].plan[i].conn = proc'[q].plan[j].conn
      PROVE  p = q /\ i = j
    <2>1. PICK n \in Int : Shifts(p, n)
        OBVIOUS
    <2>2. PICK k \in Int : Shifts(q, k)
        OBVIOUS
    <2>3. i + n \in DOMAIN proc[p].plan /\ proc'[p].plan[i] = proc[p].plan[i + n]
        BY <1>5, <2>1 DEF Shifts
    <2>4. j + k \in DOMAIN proc[q].plan /\ proc'[q].plan[j] = proc[q].plan[j + k]
        BY <1>5, <2>2 DEF Shifts
    <2>5. p = q /\ i + n = j + k
        BY <1>5, <2>3, <2>4 DEF OneAccept
    <2>6. j + n \in DOMAIN proc[p].plan /\ proc'[p].plan[j] = proc[p].plan[j + n]
        BY <1>5, <2>1, <2>5 DEF Shifts
    <2>7. i + n = j + n
        BY <1>5, <2>3, <2>5, <2>6 DEF OneAccept
    <2>8. i \in Int /\ j \in Int
        BY <1>2
    <2>9. i = j
        <3>1. \A a, b, d \in Int : a + d = b + d => a = b
            OBVIOUS
        <3> QED BY <2>7, <2>8, <3>1, Zenon
    <2> QED BY <2>5, <2>9
<1>6. OneAccept'
    BY <1>5 DEF OneAccept
<1> QED BY <1>4, <1>6

\* An invocation that goes on while the connections stay as they are.
LEMMA MovesKeepFit ==
    ASSUME WsType, WsType', AllFit, OneAccept, PlansInOrder, NEW p \in Procs, Moves(p), sock' = sock
    PROVE  AllFit' /\ OneAccept'
<1>1. PICK pre, t, m : MovesBy(p, pre, t, m)
    BY DEF Moves
<1>2. SockStep
    BY DEF SockStep
<1>3. /\ \A q \in Procs : q # p => proc'[q] = proc[q]
      /\ \A c \in proc'[p].gone : sock[c] = "closed"
      /\ \A i \in DOMAIN pre : Fits(sock, p, pre[i]) /\ pre[i].do # "accept"
    BY <1>1 DEF MovesBy
<1>4. /\ m \in Nat /\ Len(pre) \in Nat
      /\ \A i \in DOMAIN proc'[p].plan :
            \/ i \in DOMAIN pre /\ proc'[p].plan[i] = pre[i]
            \/ /\ i + (m - Len(pre)) \in DOMAIN proc[p].plan
               /\ proc'[p].plan[i] = proc[p].plan[i + (m - Len(pre))]
    BY <1>1, MovedPlan
<1>5. Shifts(p, m - Len(pre)) /\ m - Len(pre) \in Int
    BY <1>3, <1>4 DEF Shifts
<1>6. ASSUME NEW q \in Procs, q # p PROVE Shifts(q, 0)
    <2>1. \A i \in DOMAIN proc[q].plan : i + 0 = i
        BY PlanTyped, PlanDomain
    <2> QED BY <1>3, <1>6, <2>1 DEF Shifts
<1>7. \A q \in Procs : \E n \in Int : Shifts(q, n)
    BY <1>5, <1>6
<1>8. GoneClosed'
    BY <1>3 DEF GoneClosed, AllFit
<1>9. AcceptsWait'
    <2>1. ASSUME NEW q \in Procs, NEW i \in DOMAIN proc'[q].plan, proc'[q].plan[i].do = "accept"
          PROVE  sock[proc'[q].plan[i].conn] = "opening"
        <3>1. \E j \in DOMAIN proc[q].plan : proc'[q].plan[i] = proc[q].plan[j]
            BY <1>3, <1>4, <2>1
        <3> QED BY <2>1, <3>1 DEF AllFit, Fits
    <2> QED BY <2>1 DEF AcceptsWait
<1> QED BY <1>2, <1>7, <1>8, <1>9, ShiftsKeepFit

-------------------------------------------------------------------------------
(* The steps that go on.                                                   *)

Ordered == WsType /\ AllFit /\ OneAccept /\ ListedMet /\ PlansInOrder

LEMMA DoingFacts ==
    ASSUME WsType, AllFit, NEW p \in Procs, ~Free(p)
    PROVE  /\ proc[p].plan # <<>> /\ 1 \in DOMAIN proc[p].plan
           /\ proc[p].plan[1] = Cmd(p) /\ Cmd(p) \in Commands
           /\ Fits(sock, p, Cmd(p))
           /\ proc[p].val \in Nat /\ proc[p].gone \in SUBSET Conns
           /\ \A c \in proc[p].gone : sock[c] = "closed"
BY PlanTyped DEF Free, AllFit

\* One command is done and the invocation keeps what it holds.
LEMMA NextMoves ==
    ASSUME Ordered, NEW p \in Procs, ~Free(p), NextCmd(p)
    PROVE  MovesBy(p, <<>>, Tail(proc[p].plan), 1)
<1>1. proc[p].plan # <<>> /\ proc[p].val \in Nat /\ proc[p].gone \in SUBSET Conns
    BY DoingFacts DEF Ordered
<1>2. \A c \in proc[p].gone : sock[c] = "closed"
    BY DoingFacts DEF Ordered
<1>3. GoesOn(p, Tail(proc[p].plan), proc[p].val, proc[p].gone)
    BY DEF NextCmd, Proceed
<1> QED BY <1>1, <1>2, <1>3, TailMoves DEF Ordered

LEMMA PostMoves ==
    ASSUME Ordered, NEW p \in Procs, Post(p)
    PROVE  /\ MovesBy(p, <<>>, Tail(proc[p].plan), 1)
           /\ proc'[p].plan # <<>> => proc'[p].val = proc[p].val
<1> DEFINE c == Cmd(p).conn
           g == IF sock[c] # "open" /\ p \in Pushers THEN proc[p].gone \cup {c} ELSE proc[p].gone
<1>1. ~Free(p) /\ Cmd(p).do = "post"
    BY DEF Post, Doing, Free, Cmd
<1>2. /\ proc[p].plan # <<>> /\ proc[p].val \in Nat /\ proc[p].gone \in SUBSET Conns
      /\ Cmd(p) \in Commands /\ Fits(sock, p, Cmd(p)) /\ \A d \in proc[p].gone : sock[d] = "closed"
    BY <1>1, DoingFacts DEF Ordered
<1>3. c \in Conns /\ Met(sock, c)
    BY <1>1, <1>2, CommandFields DEF Fits
<1>4. g \in SUBSET Conns /\ \A d \in g : sock[d] = "closed"
    BY <1>2, <1>3 DEF Met
<1>5. GoesOn(p, Tail(proc[p].plan), proc[p].val, g)
    BY DEF Post
<1> HIDE DEF g
<1>6. MovesBy(p, <<>>, Tail(proc[p].plan), 1)
    BY <1>2, <1>4, <1>5, TailMoves DEF Ordered
<1>7. Tail(proc[p].plan) \in Seq(Commands)
    BY <1>2, PlanTyped DEF Ordered
<1>8. proc'[p].plan = Tail(proc[p].plan) /\ (Tail(proc[p].plan) # <<>> => proc'[p].val = proc[p].val)
    BY <1>2, <1>4, <1>5, <1>7, GoesOnFacts DEF Ordered
<1> QED BY <1>6, <1>8

\* GET: the value is read and all that follows is kept, or it is missing and its
\* posts are skipped.
LEMMA GetMoves ==
    ASSUME Ordered, NEW p \in Procs, Get(p)
    PROVE  \/ /\ MovesBy(p, <<>>, Tail(proc[p].plan), 1)
              /\ proc'[p].plan # <<>> => proc'[p].val = val[Cmd(p).ch]
           \/ /\ val[Cmd(p).ch] = 0
              /\ \E t, m : MovesBy(p, <<>>, t, m) /\ NoOpenPost(t)
<1> DEFINE v == val[Cmd(p).ch]
<1>1. ~Free(p) /\ Cmd(p).do = "get"
    BY DEF Get, Doing, Free, Cmd
<1>2. /\ proc[p].plan # <<>> /\ proc[p].gone \in SUBSET Conns /\ proc[p].plan[1] = Cmd(p)
      /\ Cmd(p) \in Commands /\ \A d \in proc[p].gone : sock[d] = "closed"
    BY <1>1, DoingFacts DEF Ordered
<1>3. v \in Nat
    BY <1>1, <1>2, CommandFields DEF Ordered, WsType
<1>4. CASE v = 0
    <2>1. GoesOn(p, SkipPosts(Tail(proc[p].plan)), v, proc[p].gone)
        BY <1>4 DEF Get
    <2> HIDE DEF v
    <2>2. \E t, m : MovesBy(p, <<>>, t, m) /\ NoOpenPost(t)
        BY <1>1, <1>2, <1>3, <2>1, SkipMoves DEF Ordered
    <2> QED BY <1>4, <2>2 DEF v
<1>5. CASE v # 0
    <2>1. GoesOn(p, Tail(proc[p].plan), v, proc[p].gone)
        BY <1>5 DEF Get
    <2> HIDE DEF v
    <2>2. MovesBy(p, <<>>, Tail(proc[p].plan), 1)
        BY <1>2, <1>3, <2>1, TailMoves DEF Ordered
    <2>3. Tail(proc[p].plan) \in Seq(Commands)
        BY <1>2, PlanTyped DEF Ordered
    <2>4. proc'[p].plan = Tail(proc[p].plan) /\ (Tail(proc[p].plan) # <<>> => proc'[p].val = v)
        <3>1. \A n \in Seq(Commands), w \in Nat, h \in SUBSET Conns :
                 GoesOn(p, n, w, h) => proc'[p].plan = n /\ (n # <<>> => proc'[p].val = w)
            BY GoesOnFacts DEF Ordered
        <3> QED BY <1>2, <1>3, <2>1, <2>3, <3>1
    <2> QED BY <2>2, <2>4 DEF v
<1> QED BY <1>4, <1>5

LEMMA ChannelsOfMoves ==
    ASSUME Ordered, NEW p \in Procs, ChannelsOf(p)
    PROVE  \E pre \in Whole : MovesBy(p, pre, Tail(proc[p].plan), 1)
<1> DEFINE c == Cmd(p).conn
           chs == SetToSeq(store[Conn(c)])
           pre == [i \in DOMAIN chs |-> srem(Subs(chs[i]), c)]
<1>1. ~Free(p) /\ Cmd(p).do = "channelsOf"
    BY DEF ChannelsOf, Doing, Free, Cmd
<1>2. /\ proc[p].plan # <<>> /\ proc[p].val \in Nat /\ proc[p].gone \in SUBSET Conns
      /\ proc[p].plan[1] = Cmd(p)
      /\ Cmd(p) \in Commands /\ Fits(sock, p, Cmd(p)) /\ \A d \in proc[p].gone : sock[d] = "closed"
    BY <1>1, DoingFacts DEF Ordered
<1>3. c \in Conns /\ (p \in Pushers => sock[c] = "closed")
    BY <1>1, <1>2, CommandFields DEF Fits
<1>4. store[Conn(c)] \subseteq Channels /\ IsFiniteSet(store[Conn(c)])
    BY <1>3, WsAssumption, FS_Subset DEF Ordered, WsType, StoreTyped, WsAssumption
<1>5. chs \in Seq(Channels)
    BY <1>4, SetToSeqLists, SeqMonotonic
<1> HIDE DEF chs
<1>6. Len(chs) \in Nat /\ DOMAIN chs = 1 .. Len(chs) /\ \A i \in DOMAIN chs : chs[i] \in Channels
    BY <1>5, LenProperties, ElementOfSeq
<1>7. \A i \in DOMAIN chs : pre[i] \in Commands
    BY <1>3, <1>6, KeysDiffer, CommandsTyped DEF Members
<1>8. pre \in Seq(Commands)
    <2>1. pre \in [1 .. Len(chs) -> Commands]
        BY <1>6, <1>7
    <2> QED BY <1>6, <2>1, SeqDef
<1>9. \A i \in DOMAIN pre : pre[i].do = "srem" /\ pre[i].arg = c
    BY DEF srem
<1>10. GoesOn(p, pre \o Tail(proc[p].plan), proc[p].val, proc[p].gone)
    BY DEF ChannelsOf, Proceed, chs
<1> HIDE DEF pre
<1>11. pre \in Whole
    BY <1>8, <1>9, QuietPlans
<1>12. \A i \in DOMAIN pre : Fits(sock, p, pre[i]) /\ pre[i].do # "accept"
    BY <1>3, <1>9 DEF Fits
<1>13. MovesBy(p, pre, Tail(proc[p].plan), 1)
    BY <1>1, <1>2, <1>10, <1>11, <1>12, PrefixMoves DEF Ordered
<1> QED BY <1>11, <1>13

\* SMEMBERS of a channel: every member listed gets a post, after one read.
LEMMA SubscribersOfMoves ==
    ASSUME Ordered, NEW p \in Procs, SubscribersOf(p)
    PROVE  \E pre \in Whole :
              /\ MovesBy(p, pre, Tail(proc[p].plan), 1)
              /\ \A c \in store[Subs(Cmd(p).ch)] : \E i \in DOMAIN pre : pre[i] = post(c, Cmd(p).ch)
<1> DEFINE ch == Cmd(p).ch
           members == SetToSeq(store[Subs(ch)])
           posts == [i \in DOMAIN members |-> post(members[i], ch)]
           pre == IF members = <<>> THEN <<>> ELSE <<get(ch)>> \o posts
<1>1. ~Free(p) /\ Cmd(p).do = "subscribersOf"
    BY DEF SubscribersOf, Doing, Free, Cmd
<1>2. /\ proc[p].plan # <<>> /\ proc[p].val \in Nat /\ proc[p].gone \in SUBSET Conns
      /\ proc[p].plan[1] = Cmd(p)
      /\ Cmd(p) \in Commands /\ \A d \in proc[p].gone : sock[d] = "closed"
    BY <1>1, DoingFacts DEF Ordered
<1>3. ch \in Channels
    BY <1>1, <1>2, CommandFields
<1>4. /\ store[Subs(ch)] \subseteq Conns /\ IsFiniteSet(store[Subs(ch)])
      /\ \A c \in store[Subs(ch)] : Met(sock, c)
    BY <1>3, WsAssumption, FS_Subset DEF Ordered, WsType, StoreTyped, WsAssumption, ListedMet
<1>5. /\ members \in Seq(store[Subs(ch)])
      /\ \A c \in store[Subs(ch)] : \E i \in DOMAIN members : members[i] = c
    BY <1>4, SetToSeqLists
<1>g. GoesOn(p, pre \o Tail(proc[p].plan), proc[p].val, proc[p].gone)
    BY DEF SubscribersOf, Proceed
<1> HIDE DEF members, ch
<1>6. /\ Len(members) \in Nat /\ DOMAIN members = 1 .. Len(members)
      /\ \A i \in DOMAIN members : members[i] \in Conns /\ Met(sock, members[i])
    BY <1>4, <1>5, LenProperties, ElementOfSeq
<1>7. /\ posts \in Seq(Commands)
      /\ DOMAIN posts = DOMAIN members /\ \A i \in DOMAIN posts : posts[i] = post(members[i], ch)
    <2>1. \A i \in DOMAIN members : posts[i] \in Commands
        BY <1>3, <1>6, CommandsTyped
    <2>2. posts \in [1 .. Len(members) -> Commands]
        BY <1>6, <2>1
    <2> QED BY <1>6, <2>2, SeqDef
<1> HIDE DEF posts
<1>8. <<get(ch)>> \in Seq(Commands) /\ Len(<<get(ch)>>) = 1 /\ DOMAIN <<get(ch)>> = 1 .. 1
    BY <1>3, CommandsTyped
<1> DEFINE u == <<get(ch)>> \o posts
<1>9. /\ u \in Seq(Commands) /\ u[1] = get(ch)
      /\ \A i \in DOMAIN posts : 1 + i \in DOMAIN u /\ u[1 + i] = posts[i]
      /\ \A i \in DOMAIN u : i = 1 \/ (i > 1 /\ i - 1 \in DOMAIN posts)
    <2> DEFINE g == <<get(ch)>>
    <2>1. g \in Seq(Commands) /\ Len(g) = 1 /\ DOMAIN g = 1 .. 1 /\ g[1] = get(ch)
        BY <1>8
    <2> HIDE DEF g
    <2>2. 1 \in DOMAIN g /\ \A i \in DOMAIN g : i = 1
        BY <2>1
    <2>3. /\ g \o posts \in Seq(Commands)
          /\ \A i \in DOMAIN g : i \in DOMAIN (g \o posts) /\ (g \o posts)[i] = g[i]
          /\ \A i \in DOMAIN posts :
                Len(g) + i \in DOMAIN (g \o posts) /\ (g \o posts)[Len(g) + i] = posts[i]
          /\ \A i \in DOMAIN (g \o posts) :
                i \in DOMAIN g \/ (i > Len(g) /\ i - Len(g) \in DOMAIN posts)
        BY <1>7, <2>1, Positions
    <2>4. u = g \o posts
        BY DEF g
    <2> HIDE DEF u
    <2> QED BY <2>1, <2>2, <2>3, <2>4
<1> HIDE DEF u
<1>10. ASSUME NEW i \in DOMAIN u, i > 1
       PROVE  i - 1 \in DOMAIN members /\ u[i] = post(members[i - 1], ch)
    <2>1. i - 1 \in DOMAIN posts /\ i \in Nat
        BY <1>9, <1>10, PlanDomain
    <2>2. 1 + (i - 1) = i
        BY <2>1
    <2> QED BY <1>7, <1>9, <2>1, <2>2
<1>11. u \in Whole
    <2>1. \A i \in DOMAIN u : i \in Nat /\ i >= 1 /\ i <= Len(u)
        BY <1>9, PlanDomain
    <2>2. \A i \in DOMAIN u : u[i].do # "sadd"
        <3>1. u[1].do = "get"
            BY <1>9 DEF get
        <3>2. \A i \in DOMAIN u : i > 1 => u[i].do = "post"
            BY <1>10 DEF post
        <3> QED BY <1>9, <3>1, <3>2
    <2>3. Lasting(u) /\ SnapshotFollows(u)
        BY <2>2 DEF Lasting, SnapshotFollows
    <2>4. ASSUME NEW i \in DOMAIN u, u[i].do = "post" PROVE ReadFor(u, i)
        <3>1. u[1].do = "get" /\ u[1].ch = ch
            BY <1>9 DEF get
        <3>2. i > 1
            BY <1>9, <2>4, <3>1
        <3>3. u[i].ch = ch
            BY <1>10, <3>2 DEF post
        <3>4. 1 \in 1 .. i - 1 /\ \A k \in 1 + 1 .. i - 1 : k \in DOMAIN u /\ k > 1
            <4>1. DOMAIN u = 1 .. Len(u) /\ Len(u) \in Nat
                BY <1>9, PlanDomain
            <4> QED BY <2>1, <3>2, <4>1
        <3>5. \A k \in 1 + 1 .. i - 1 : u[k].do = "post"
            BY <1>10, <3>4 DEF post
        <3> QED BY <3>1, <3>3, <3>4, <3>5 DEF ReadFor
    <2>5. AllRead(u)
        BY <2>4 DEF AllRead
    <2> QED BY <1>9, <2>3, <2>5 DEF Whole
<1>12. \A i \in DOMAIN u : Fits(sock, p, u[i]) /\ u[i].do # "accept"
    <2>1. Fits(sock, p, get(ch)) /\ get(ch).do # "accept"
        BY DEF get, Fits
    <2>2. \A i \in DOMAIN members : Fits(sock, p, post(members[i], ch)) /\ post(members[i], ch).do # "accept"
        BY <1>6 DEF post, Fits
    <2> QED BY <1>9, <1>10, <2>1, <2>2
<1>13. CASE members = <<>>
    <2>1. pre = <<>> /\ <<>> \in Whole /\ DOMAIN (<<>>) = {}
        BY <1>13, WholeConcat, EmptySeq
    <2>2. MovesBy(p, <<>>, Tail(proc[p].plan), 1)
        BY <1>1, <1>2, <1>g, <2>1, PrefixMoves DEF Ordered
    <2>3. store[Subs(ch)] = {}
        BY <1>5, <1>6, <1>13, EmptySeq
    <2> QED BY <2>1, <2>2, <2>3 DEF ch
<1>14. CASE members # <<>>
    <2>1. pre = u
        BY <1>14 DEF u
    <2> HIDE DEF pre
    <2>2. MovesBy(p, u, Tail(proc[p].plan), 1)
        BY <1>1, <1>2, <1>g, <1>11, <1>12, <2>1, PrefixMoves DEF Ordered
    <2>3. ASSUME NEW c \in store[Subs(ch)] PROVE \E i \in DOMAIN u : u[i] = post(c, ch)
        <3>1. PICK i \in DOMAIN members : members[i] = c
            BY <1>5
        <3> QED BY <1>7, <1>9, <3>1
    <2> QED BY <1>11, <2>2, <2>3 DEF ch
<1> QED BY <1>13, <1>14

LEMMA ReapMoves ==
    ASSUME Ordered, NEW p \in Procs, Reap(p)
    PROVE  \E pre \in Whole : MovesBy(p, pre, Tail(proc[p].plan), 1)
<1> DEFINE G == proc[p].gone
           gone == SetToSeq(G)
           pre == FlattenSeq([i \in DOMAIN gone |-> RemoveStale(gone[i], Cmd(p).ch)])
<1>1. ~Free(p) /\ Cmd(p).do = "reap"
    BY DEF Reap, Doing, Free, Cmd
<1>2. /\ proc[p].plan # <<>> /\ G \in SUBSET Conns /\ proc[p].plan[1] = Cmd(p)
      /\ Cmd(p) \in Commands /\ \A d \in G : sock[d] = "closed"
    BY <1>1, DoingFacts DEF Ordered
<1>3. Cmd(p).ch \in Channels
    BY <1>1, <1>2, CommandFields
<1>4. \A H \in SUBSET Conns, ch \in Channels :
         FlattenSeq([i \in DOMAIN SetToSeq(H) |-> RemoveStale(SetToSeq(H)[i], ch)]) \in Removals(H)
    BY ReapIsRemoval
<1>5. pre \in Removals(G)
    BY <1>2, <1>3, <1>4
<1>6. GoesOn(p, pre \o Tail(proc[p].plan), 0, {})
    BY DEF Reap
<1> HIDE DEF pre, G
<1>7. pre \in Whole /\ \A i \in DOMAIN pre : Removal(G, pre[i])
    BY <1>5 DEF Removals
<1>8. \A i \in DOMAIN pre : Fits(sock, p, pre[i]) /\ pre[i].do # "accept"
    BY <1>2, <1>7 DEF Fits, Removal
<1>9. MovesBy(p, pre, Tail(proc[p].plan), 1)
    <2>1. \A s \in Whole, v \in Nat, g \in SUBSET Conns :
             (/\ GoesOn(p, s \o Tail(proc[p].plan), v, g)
              /\ \A c \in g : sock[c] = "closed"
              /\ \A i \in DOMAIN s : Fits(sock, p, s[i]) /\ s[i].do # "accept")
                 => MovesBy(p, s, Tail(proc[p].plan), 1)
        BY <1>1, <1>2, PrefixMoves DEF Ordered
    <2>2. 0 \in Nat /\ {} \in SUBSET Conns /\ \A c \in {} : sock[c] = "closed"
        OBVIOUS
    <2> QED BY <1>6, <1>7, <1>8, <2>1, <2>2
<1> QED BY <1>7, <1>9

\* An error that is passed over.
LEMMA IgnoreMoves ==
    ASSUME Ordered, NEW p \in Procs, Ignore(p)
    PROVE  \/ /\ Cmd(p).do # "get"
              /\ MovesBy(p, <<>>, Tail(proc[p].plan), 1)
              /\ proc'[p].plan = Tail(proc[p].plan)
              /\ missed' = missed \cup (Owed(proc[p].plan) \ Owed(proc'[p].plan))
              /\ proc'[p].plan # <<>> => proc'[p].val = proc[p].val
           \/ /\ Cmd(p).do = "get"
              /\ missed' = missed \cup (Owed(proc[p].plan) \ Owed(proc'[p].plan))
              /\ \E t, m : MovesBy(p, <<>>, t, m) /\ NoOpenPost(t)
<1>1. ~Free(p)
    BY DEF Ignore
<1>2. /\ proc[p].plan # <<>> /\ proc[p].val \in Nat /\ proc[p].gone \in SUBSET Conns
      /\ proc[p].plan[1] = Cmd(p) /\ \A d \in proc[p].gone : sock[d] = "closed"
    BY <1>1, DoingFacts DEF Ordered
<1>3. CASE Cmd(p).do = "get"
    <2>1. /\ GoesOn(p, SkipPosts(Tail(proc[p].plan)), proc[p].val, proc[p].gone)
          /\ missed' = missed \cup (Owed(proc[p].plan) \ Owed(SkipPosts(Tail(proc[p].plan))))
        BY <1>3 DEF Ignore, Proceed
    <2>2. \E t, m : MovesBy(p, <<>>, t, m) /\ NoOpenPost(t)
        BY <1>2, <1>3, <2>1, SkipMoves DEF Ordered
    <2>3. Tail(proc[p].plan) \in Seq(Commands)
        BY <1>2, PlanTyped DEF Ordered
    <2>4. SkipPosts(Tail(proc[p].plan)) \in Seq(Commands)
        BY <2>3, SkipPostsIsSuffix DEF Suffix
    <2>5. proc'[p].plan = SkipPosts(Tail(proc[p].plan))
        BY <1>2, <2>1, <2>4, GoesOnFacts DEF Ordered
    <2> QED BY <1>3, <2>1, <2>2, <2>5
<1>4. CASE Cmd(p).do # "get"
    <2>1. /\ GoesOn(p, Tail(proc[p].plan), proc[p].val, proc[p].gone)
          /\ missed' = missed \cup (Owed(proc[p].plan) \ Owed(Tail(proc[p].plan)))
        BY <1>4 DEF Ignore, Proceed
    <2>2. MovesBy(p, <<>>, Tail(proc[p].plan), 1)
        BY <1>2, <2>1, TailMoves DEF Ordered
    <2>3. Tail(proc[p].plan) \in Seq(Commands)
        BY <1>2, PlanTyped DEF Ordered
    <2>4. proc'[p].plan = Tail(proc[p].plan) /\ (Tail(proc[p].plan) # <<>> => proc'[p].val = proc[p].val)
        <3>1. \A n \in Seq(Commands), w \in Nat, h \in SUBSET Conns :
                 GoesOn(p, n, w, h) => proc'[p].plan = n /\ (n # <<>> => proc'[p].val = w)
            BY GoesOnFacts DEF Ordered
        <3> QED BY <1>2, <2>1, <2>3, <3>1
    <2> QED BY <1>4, <2>1, <2>2, <2>4
<1> QED BY <1>3, <1>4

-------------------------------------------------------------------------------
(* Ordered is inductive.                                                   *)

\* Listed connections stay accepted.
LEMMA ListedMetStays ==
    ASSUME StoreTyped, ListedMet, SockStep, store' = store
    PROVE  ListedMet'
BY DEF StoreTyped, ListedMet, SockStep

\* What SREM, DEL and expiry do to the sets.
LEMMA SetKeyShrinks ==
    ASSUME StoreTyped, ListedMet, NEW k \in Keys, NEW S \in SUBSET store[k], SetKey(k, S), sock' = sock
    PROVE  /\ StoreTyped' /\ ListedMet'
           /\ store'[k] = S
           /\ \A j \in Keys : j # k => store'[j] = store[j]
<1>1. /\ store'[k] = S /\ \A j \in Keys : j # k => store'[j] = store[j]
      /\ store' \in [Keys -> SUBSET Members]
    BY DEF SetKey, StoreTyped
<1>2. \A j \in Keys : store'[j] \subseteq store[j]
    BY <1>1
<1>3. \A ch \in Channels : Subs(ch) \in Keys
    BY KeysDiffer
<1>4. \A c \in Conns : Conn(c) \in Keys
    BY KeysDiffer
<1>5. StoreTyped'
    BY <1>1, <1>2, <1>3, <1>4 DEF StoreTyped
<1>6. ListedMet'
    BY <1>2, <1>3 DEF ListedMet
<1> QED BY <1>1, <1>5, <1>6

\* What SADD does to them.
LEMMA SetKeyGrows ==
    ASSUME StoreTyped, ListedMet, NEW k \in Keys, NEW x \in Members, IsEntry(k, x),
           \A ch \in Channels : k = Subs(ch) => Met(sock, x),
           SetKey(k, store[k] \cup {x}), sock' = sock
    PROVE  /\ StoreTyped' /\ ListedMet'
           /\ store'[k] = store[k] \cup {x} /\ ttl' = ttl /\ leaked' = leaked
           /\ \A j \in Keys : j # k => store'[j] = store[j]
<1>1. /\ store'[k] = store[k] \cup {x} /\ \A j \in Keys : j # k => store'[j] = store[j]
      /\ store' \in [Keys -> SUBSET Members]
      /\ ttl' = ttl /\ leaked' = leaked
    BY DEF SetKey, StoreTyped
<1>2. ASSUME NEW ch \in Channels
      PROVE  store'[Subs(ch)] \subseteq Conns /\ \A c \in store'[Subs(ch)] : Met(sock, c)
    <2>1. Subs(ch) \in Keys /\ store[Subs(ch)] \subseteq Conns /\ \A c \in store[Subs(ch)] : Met(sock, c)
        BY KeysDiffer DEF StoreTyped, ListedMet
    <2>2. k = Subs(ch) => x \in Conns /\ Met(sock, x)
        BY KeysDiffer DEF IsEntry
    <2> QED BY <1>1, <2>1, <2>2
<1>3. ASSUME NEW c \in Conns
      PROVE  store'[Conn(c)] \subseteq Channels
    <2>1. Conn(c) \in Keys /\ store[Conn(c)] \subseteq Channels
        BY KeysDiffer DEF StoreTyped
    <2>2. k = Conn(c) => x \in Channels
        BY KeysDiffer DEF IsEntry
    <2> QED BY <1>1, <2>1, <2>2
<1>4. StoreTyped'
    BY <1>1, <1>2, <1>3 DEF StoreTyped
<1>5. ListedMet'
    BY <1>2 DEF ListedMet
<1> QED BY <1>1, <1>4, <1>5

\* An invocation that starts.
LEMMA StartFacts ==
    ASSUME WsType, NEW p \in Procs, NEW plan \in Seq(Commands), GoesOn(p, plan, 0, {})
    PROVE  /\ proc' \in [Procs -> ProcStates] /\ proc'[p].plan = plan /\ proc'[p].gone = {}
           /\ \A q \in Procs : q # p => proc'[q] = proc[q]
<1>1. \A n \in Seq(Commands), v \in Nat, g \in SUBSET Conns : GoesOn(p, n, v, g) =>
         /\ proc' \in [Procs -> ProcStates] /\ proc'[p].plan = n /\ proc'[p].gone \subseteq g
         /\ \A q \in Procs : q # p => proc'[q] = proc[q]
    BY GoesOnFacts
<1>2. 0 \in Nat /\ {} \in SUBSET Conns
    OBVIOUS
<1>3. /\ proc' \in [Procs -> ProcStates] /\ proc'[p].plan = plan /\ proc'[p].gone \subseteq {}
      /\ \A q \in Procs : q # p => proc'[q] = proc[q]
    BY <1>1, <1>2
<1> QED BY <1>3

\* When one command is done, every other moves up by one place.
LEMMA TailMoved ==
    ASSUME WsType, PlansInOrder, NEW p \in Procs, NEW t, MovesBy(p, <<>>, t, 1)
    PROVE  \A i \in DOMAIN proc'[p].plan :
              /\ i \in Nat /\ i + 1 \in DOMAIN proc[p].plan /\ i + 1 # 1
              /\ proc'[p].plan[i] = proc[p].plan[i + 1]
<1> DEFINE e == <<>>
<1>1. Len(e) = 0 /\ DOMAIN e = {}
    BY EmptySeq
<1> HIDE DEF e
<1>2. MovesBy(p, e, t, 1)
    BY DEF e
<1>3. /\ proc'[p].plan \in Seq(Commands)
      /\ \A i \in DOMAIN proc'[p].plan :
            \/ i \in DOMAIN e /\ proc'[p].plan[i] = e[i]
            \/ /\ i > Len(e) /\ i + (1 - Len(e)) \in DOMAIN proc[p].plan
               /\ proc'[p].plan[i] = proc[p].plan[i + (1 - Len(e))]
    BY <1>2, MovedPlan
<1> SUFFICES ASSUME NEW i \in DOMAIN proc'[p].plan
             PROVE  /\ i \in Nat /\ i + 1 \in DOMAIN proc[p].plan /\ i + 1 # 1
                    /\ proc'[p].plan[i] = proc[p].plan[i + 1]
    OBVIOUS
<1>4. i \in Nat /\ i >= 1
    BY <1>3, PlanDomain
<1>5. i + (1 - Len(e)) = i + 1 /\ i + 1 # 1
    BY <1>1, <1>4
<1> QED BY <1>1, <1>3, <1>4, <1>5

LEMMA MovesOrdered ==
    ASSUME Ordered, NEW p \in Procs, Moves(p), sock' = sock, StoreTyped', ListedMet',
           val' = val, best' \in [Conns -> [Channels -> Nat]]
    PROVE  Ordered'
<1>1. proc' \in [Procs -> ProcStates]
    BY DEF Moves, MovesBy
<1>2. WsType'
    BY <1>1 DEF Ordered, WsType
<1> QED BY <1>2, MovesKeepFit, InOrderNext DEF Ordered

\* An invocation that starts with a plan of new commands.
LEMMA StartOrdered ==
    ASSUME Ordered, NEW p \in Procs, NEW plan \in Whole, Start(p, plan),
           \A i \in DOMAIN plan : Fits(sock', p, plan[i]) /\ plan[i].do # "accept",
           SockStep, sock' \in [Conns -> SockStates], val' \in [Channels -> Nat],
           \A c \in Conns : sock[c] = "opening" => sock'[c] = "opening",
           UNCHANGED <<store, best>>
    PROVE  Ordered'
<1>1. plan \in Seq(Commands) /\ Lasting(plan) /\ LaterRead(plan) /\ SnapshotFollows(plan)
    BY DEF Whole, AllRead, LaterRead
<1>2. /\ proc' \in [Procs -> ProcStates] /\ proc'[p].plan = plan /\ proc'[p].gone = {}
      /\ \A q \in Procs : q # p => proc'[q] = proc[q]
    BY <1>1, StartFacts DEF Ordered, Start
<1>3. WsType'
    BY <1>2 DEF Ordered, WsType, StoreTyped
<1>4. PlansInOrder'
    BY <1>1, <1>2 DEF Ordered, PlansInOrder
<1>5. ListedMet'
    BY ListedMetStays DEF Ordered, WsType
<1>6. ASSUME NEW q \in Procs PROVE \E n \in Int : Shifts(q, n)
    <2>1. CASE q = p
        BY <1>2, <2>1 DEF Shifts
    <2>2. CASE q # p
        <3>1. \A i \in DOMAIN proc[q].plan : i + 0 = i
            BY PlanTyped, PlanDomain DEF Ordered
        <3>2. Shifts(q, 0)
            BY <1>2, <2>2, <3>1 DEF Shifts
        <3> QED BY <3>2
    <2> QED BY <2>1, <2>2
<1>7. GoneClosed'
    <2>1. \A q \in Procs : proc[q].gone \in SUBSET Conns
        BY PlanTyped DEF Ordered
    <2> QED BY <1>2, <2>1 DEF GoneClosed, Ordered, AllFit, SockStep
<1>8. AcceptsWait'
    <2>1. ASSUME NEW q \in Procs, NEW i \in DOMAIN proc'[q].plan, proc'[q].plan[i].do = "accept"
          PROVE  sock'[proc'[q].plan[i].conn] = "opening"
        <3>1. q # p /\ i \in DOMAIN proc[q].plan /\ proc'[q].plan[i] = proc[q].plan[i]
            BY <1>2, <2>1
        <3>2. proc[q].plan[i] \in Commands
            BY <3>1, PlanTyped, PlanDomain DEF Ordered
        <3>3. proc[q].plan[i].conn \in Conns /\ sock[proc[q].plan[i].conn] = "opening"
            BY <2>1, <3>1, <3>2, CommandFields DEF Ordered, AllFit, Fits
        <3> QED BY <3>1, <3>3
    <2> QED BY <2>1 DEF AcceptsWait
<1>9. AllFit' /\ OneAccept'
    BY <1>3, <1>6, <1>7, <1>8, ShiftsKeepFit DEF Ordered
<1> QED BY <1>3, <1>4, <1>5, <1>9 DEF Ordered

LEMMA ConnectOrdered ==
    ASSUME Ordered, NEW p \in Handlers, NEW c \in Conns, Connect(p, c)
    PROVE  Ordered'
<1> DEFINE plan == handle_connect(c)
<1>0. p \in Procs /\ p \notin Pushers
    BY WsAssumption DEF WsAssumption, Procs
<1>1. /\ sock[c] = "none" /\ sock' = [sock EXCEPT ![c] = "opening"]
      /\ proc[p].plan = <<>> /\ GoesOn(p, plan, 0, {})
      /\ UNCHANGED <<store, val, best>>
    BY DEF Connect, Start, Free
<1>2. /\ plan \in Whole
      /\ \A i \in DOMAIN plan :
            /\ plan[i].do \in {"sadd", "expire", "accept"}
            /\ plan[i].do = "sadd" => plan[i].key = Connections /\ plan[i].arg = c
            /\ plan[i].do = "accept" => plan[i].conn = c /\ i = 3
    BY ConnectIsWhole
<1> HIDE DEF plan
<1>3. plan \in Seq(Commands) /\ Lasting(plan) /\ LaterRead(plan) /\ SnapshotFollows(plan)
    BY <1>2 DEF Whole, AllRead, LaterRead
<1>4. /\ proc' \in [Procs -> ProcStates] /\ proc'[p].plan = plan /\ proc'[p].gone = {}
      /\ \A q \in Procs : q # p => proc'[q] = proc[q]
    BY <1>0, <1>1, <1>3, StartFacts DEF Ordered
<1>5. /\ sock' \in [Conns -> SockStates] /\ sock'[c] = "opening"
      /\ \A d \in Conns : d # c => sock'[d] = sock[d]
    BY <1>1 DEF Ordered, WsType, SockStates
<1>6. SockStep
    BY <1>1, <1>5 DEF SockStep, Met
<1>7. WsType'
    BY <1>1, <1>4, <1>5 DEF Ordered, WsType, StoreTyped
<1>8. PlansInOrder'
    BY <1>3, <1>4 DEF Ordered, PlansInOrder
<1>9. ListedMet'
    BY <1>1, <1>6, ListedMetStays DEF Ordered, WsType
<1>10. ASSUME NEW q \in Procs, q # p, NEW i \in DOMAIN proc[q].plan
       PROVE  /\ proc[q].plan[i] \in Commands /\ Fits(sock, q, proc[q].plan[i])
              /\ proc[q].plan[i].do = "accept" =>
                    proc[q].plan[i].conn # c /\ sock'[proc[q].plan[i].conn] = "opening"
    <2>1. proc[q].plan[i] \in Commands /\ Fits(sock, q, proc[q].plan[i])
        BY PlanTyped, PlanDomain DEF Ordered, AllFit
    <2>2. proc[q].plan[i].do = "accept" =>
             proc[q].plan[i].conn \in Conns /\ sock[proc[q].plan[i].conn] = "opening"
        BY <2>1, CommandFields DEF Fits
    <2> QED BY <1>1, <1>5, <2>1, <2>2
<1>11. \A q \in Procs : \A i \in DOMAIN proc'[q].plan : Fits(sock', q, proc'[q].plan[i])
    <2>1. ASSUME NEW q \in Procs, NEW i \in DOMAIN proc[q].plan, q # p
          PROVE  Fits(sock', q, proc[q].plan[i])
        BY <1>6, <1>10, <2>1, FitStays
    <2>2. ASSUME NEW i \in DOMAIN plan PROVE Fits(sock', p, plan[i])
        BY <1>0, <1>2, <1>5, KeysDiffer DEF Fits, IsEntry
    <2> QED BY <1>4, <2>1, <2>2
<1>12. AllFit'
    <2>1. \A q \in Procs : proc[q].gone \in SUBSET Conns
        BY PlanTyped DEF Ordered
    <2> QED BY <1>4, <1>6, <1>11, <2>1 DEF Ordered, AllFit, SockStep
<1>13. OneAccept'
    <2>1. ASSUME NEW q \in Procs, NEW r \in Procs,
                 NEW i \in DOMAIN proc'[q].plan, NEW j \in DOMAIN proc'[r].plan,
                 proc'[q].plan[i].do = "accept", proc'[r].plan[j].do = "accept",
                 proc'[q].plan[i].conn = proc'[r].plan[j].conn
          PROVE  q = r /\ i = j
        <3>1. CASE q = p /\ r = p
            BY <1>2, <1>4, <2>1, <3>1
        <3>2. CASE q # p /\ r # p
            BY <1>4, <2>1, <3>2 DEF Ordered, OneAccept
        <3>3. CASE q = p /\ r # p
            BY <1>2, <1>4, <1>10, <2>1, <3>3
        <3>4. CASE q # p /\ r = p
            BY <1>2, <1>4, <1>10, <2>1, <3>4
        <3> QED BY <3>1, <3>2, <3>3, <3>4
    <2> QED BY <2>1 DEF OneAccept
<1> QED BY <1>7, <1>8, <1>9, <1>12, <1>13 DEF Ordered

LEMMA AcceptOrdered ==
    ASSUME Ordered, NEW p \in Procs, Accept(p)
    PROVE  /\ Ordered'
           /\ \A c \in Conns : sock'[c] # sock[c] => sock[c] = "opening"
           /\ MovesBy(p, <<>>, Tail(proc[p].plan), 1)
<1> DEFINE c == Cmd(p).conn
<1>1. /\ ~Free(p) /\ Cmd(p).do = "accept" /\ NextCmd(p)
      /\ sock' = [sock EXCEPT ![c] = "open"]
      /\ UNCHANGED <<store, val, best>>
    BY DEF Accept, Doing, Free, Cmd
<1>2. /\ proc[p].plan[1] = Cmd(p) /\ 1 \in DOMAIN proc[p].plan
      /\ Cmd(p) \in Commands /\ Fits(sock, p, Cmd(p))
    BY <1>1, DoingFacts DEF Ordered
<1>3. c \in Conns /\ sock[c] = "opening"
    BY <1>1, <1>2, CommandFields DEF Fits
<1>4. /\ sock' \in [Conns -> SockStates] /\ sock'[c] = "open"
      /\ \A d \in Conns : d # c => sock'[d] = sock[d]
    BY <1>1, <1>3 DEF Ordered, WsType, SockStates
<1>5. SockStep
    BY <1>3, <1>4 DEF SockStep, Met
<1>6. MovesBy(p, <<>>, Tail(proc[p].plan), 1)
    BY <1>1, NextMoves
<1>7. /\ proc' \in [Procs -> ProcStates]
      /\ \A q \in Procs : q # p => proc'[q] = proc[q]
      /\ \A d \in proc'[p].gone : sock[d] = "closed"
    BY <1>6 DEF MovesBy
<1>8. \A i \in DOMAIN proc'[p].plan : /\ i + 1 \in DOMAIN proc[p].plan /\ i + 1 # 1
                                      /\ proc'[p].plan[i] = proc[p].plan[i + 1]
    BY <1>6, TailMoved DEF Ordered
<1>9. WsType'
    BY <1>1, <1>4, <1>7 DEF Ordered, WsType, StoreTyped
<1>10. PlansInOrder'
    BY <1>6, InOrderNext DEF Ordered, Moves
<1>11. ListedMet'
    BY <1>1, <1>5, ListedMetStays DEF Ordered, WsType
<1>12. ASSUME NEW q \in Procs PROVE \E n \in Int : Shifts(q, n)
    <2>1. CASE q = p
        <3>1. Shifts(p, 1)
            BY <1>8 DEF Shifts
        <3> QED BY <2>1, <3>1
    <2>2. CASE q # p
        <3>1. \A i \in DOMAIN proc[q].plan : i + 0 = i
            BY PlanTyped, PlanDomain DEF Ordered
        <3>2. Shifts(q, 0)
            BY <1>7, <2>2, <3>1 DEF Shifts
        <3> QED BY <3>2
    <2> QED BY <2>1, <2>2
<1>13. GoneClosed'
    <2>1. \A q \in Procs : proc[q].gone \in SUBSET Conns /\ proc'[q].gone \in SUBSET Conns
        BY <1>9, PlanTyped DEF Ordered, WsType, ProcStates
    <2>2. \A q \in Procs : \A d \in proc'[q].gone : sock[d] = "closed"
        BY <1>7 DEF Ordered, AllFit
    <2> QED BY <1>5, <2>1, <2>2 DEF GoneClosed, SockStep
<1>14. AcceptsWait'
    <2>1. ASSUME NEW q \in Procs, NEW i \in DOMAIN proc'[q].plan, proc'[q].plan[i].do = "accept"
          PROVE  sock'[proc'[q].plan[i].conn] = "opening"
        <3>1. PICK j \in DOMAIN proc[q].plan : /\ proc'[q].plan[i] = proc[q].plan[j]
                                               /\ q = p => j # 1
            BY <1>7, <1>8, <2>1
        <3>2. proc[q].plan[j] \in Commands
            BY <3>1, PlanTyped, PlanDomain DEF Ordered
        <3>3. proc[q].plan[j].conn \in Conns /\ sock[proc[q].plan[j].conn] = "opening"
            BY <2>1, <3>1, <3>2, CommandFields DEF Ordered, AllFit, Fits
        <3>4. proc[q].plan[j].conn # c
            BY <1>1, <1>2, <2>1, <3>1 DEF Ordered, OneAccept
        <3> QED BY <1>4, <3>1, <3>3, <3>4
    <2> QED BY <2>1 DEF AcceptsWait
<1>15. AllFit' /\ OneAccept'
    BY <1>5, <1>9, <1>12, <1>13, <1>14, ShiftsKeepFit DEF Ordered
<1> QED BY <1>3, <1>4, <1>6, <1>9, <1>10, <1>11, <1>15 DEF Ordered

\* Invocations that stay as they are while connections go forward.
LEMMA QuietOrdered ==
    ASSUME Ordered, proc' = proc, SockStep, sock' \in [Conns -> SockStates],
           \A c \in Conns : sock[c] = "opening" => sock'[c] = "opening",
           StoreTyped', ListedMet', UNCHANGED <<val, best>>
    PROVE  Ordered'
<1>1. WsType' /\ PlansInOrder'
    BY DEF Ordered, WsType, PlansInOrder
<1>2. ASSUME NEW q \in Procs PROVE \E n \in Int : Shifts(q, n)
    <2>1. \A i \in DOMAIN proc[q].plan : i + 0 = i
        BY PlanTyped, PlanDomain DEF Ordered
    <2>2. Shifts(q, 0)
        BY <2>1 DEF Shifts
    <2> QED BY <2>2
<1>3. GoneClosed'
    <2>1. \A q \in Procs : proc[q].gone \in SUBSET Conns
        BY PlanTyped DEF Ordered
    <2> QED BY <2>1 DEF GoneClosed, Ordered, AllFit, SockStep
<1>4. AcceptsWait'
    <2>1. ASSUME NEW q \in Procs, NEW i \in DOMAIN proc[q].plan, proc[q].plan[i].do = "accept"
          PROVE  sock'[proc[q].plan[i].conn] = "opening"
        <3>1. proc[q].plan[i] \in Commands
            BY PlanTyped, PlanDomain DEF Ordered
        <3>2. proc[q].plan[i].conn \in Conns /\ sock[proc[q].plan[i].conn] = "opening"
            BY <2>1, <3>1, CommandFields DEF Ordered, AllFit, Fits
        <3> QED BY <3>2
    <2> QED BY <2>1 DEF AcceptsWait
<1>5. AllFit' /\ OneAccept'
    BY <1>1, <1>2, <1>3, <1>4, ShiftsKeepFit DEF Ordered
<1> QED BY <1>1, <1>5 DEF Ordered

LEMMA AbortOrdered ==
    ASSUME Ordered, NEW p \in Procs, Abort(p)
    PROVE  Ordered' /\ \A c \in Conns : sock'[c] = "open" => sock[c] = "open"
<1>1. /\ proc' = [proc EXCEPT ![p] = Idle]
      /\ sock' = [c \in Conns |-> IF accept(c) \in ToSet(proc[p].plan) THEN "closed" ELSE sock[c]]
      /\ UNCHANGED <<store, val, best>>
    BY DEF Abort
<1>2. Idle \in ProcStates /\ Idle.plan = <<>> /\ Idle.gone = {} /\ DOMAIN (<<>>) = {}
    BY EmptySeq DEF Idle, ProcStates
<1>3. /\ proc' \in [Procs -> ProcStates] /\ proc'[p] = Idle
      /\ \A q \in Procs : q # p => proc'[q] = proc[q]
    BY <1>1, <1>2 DEF Ordered, WsType
<1>4. sock' \in [Conns -> SockStates] /\ \A c \in Conns : sock'[c] = sock[c] \/ sock'[c] = "closed"
    BY <1>1 DEF Ordered, WsType, SockStates
<1>5. SockStep
    BY <1>4 DEF SockStep, Met
<1>6. WsType'
    BY <1>1, <1>3, <1>4 DEF Ordered, WsType, StoreTyped
<1>7. PlansInOrder'
    BY <1>2, <1>3 DEF Ordered, PlansInOrder, Lasting, LaterRead, SnapshotFollows
<1>8. ListedMet'
    BY <1>1, <1>5, ListedMetStays DEF Ordered, WsType
<1>9. ASSUME NEW q \in Procs PROVE \E n \in Int : Shifts(q, n)
    <2>1. CASE q = p
        BY <1>2, <1>3, <2>1 DEF Shifts
    <2>2. CASE q # p
        <3>1. \A i \in DOMAIN proc[q].plan : i + 0 = i
            BY PlanTyped, PlanDomain DEF Ordered
        <3>2. Shifts(q, 0)
            BY <1>3, <2>2, <3>1 DEF Shifts
        <3> QED BY <3>2
    <2> QED BY <2>1, <2>2
<1>10. GoneClosed'
    <2>1. \A q \in Procs : proc[q].gone \in SUBSET Conns
        BY PlanTyped DEF Ordered
    <2> QED BY <1>2, <1>3, <1>5, <2>1 DEF GoneClosed, Ordered, AllFit, SockStep
<1>11. AcceptsWait'
    <2>1. ASSUME NEW q \in Procs, NEW i \in DOMAIN proc'[q].plan, proc'[q].plan[i].do = "accept"
          PROVE  sock'[proc'[q].plan[i].conn] = "opening"
        <3>1. q # p /\ i \in DOMAIN proc[q].plan /\ proc'[q].plan[i] = proc[q].plan[i]
            BY <1>2, <1>3, <2>1
        <3> DEFINE d == proc[q].plan[i].conn
        <3>2. proc[q].plan[i] \in Commands
            BY <3>1, PlanTyped, PlanDomain DEF Ordered
        <3>3. d \in Conns /\ sock[d] = "opening"
            BY <2>1, <3>1, <3>2, CommandFields DEF Ordered, AllFit, Fits
        <3>4. ASSUME accept(d) \in ToSet(proc[p].plan) PROVE FALSE
            <4>1. PICK j \in DOMAIN proc[p].plan : proc[p].plan[j] = accept(d)
                BY <3>4 DEF ToSet
            <4>2. proc[p].plan[j].do = "accept" /\ proc[p].plan[j].conn = d
                BY <4>1 DEF accept
            <4> QED BY <2>1, <3>1, <4>2 DEF Ordered, OneAccept
        <3> QED BY <1>1, <3>1, <3>3, <3>4
    <2> QED BY <2>1 DEF AcceptsWait
<1>12. AllFit' /\ OneAccept'
    BY <1>5, <1>6, <1>9, <1>10, <1>11, ShiftsKeepFit DEF Ordered
<1> QED BY <1>4, <1>6, <1>7, <1>8, <1>12 DEF Ordered

\* The commands that change a set, and what they find there.
LEMMA SaddFacts ==
    ASSUME Ordered, NEW p \in Procs, Sadd(p)
    PROVE  LET k == Cmd(p).key  x == Cmd(p).arg IN
           /\ Cmd(p) = proc[p].plan[1] /\ 1 \in DOMAIN proc[p].plan /\ Cmd(p).do = "sadd"
           /\ k \in Keys /\ x \in Members
           /\ MovesBy(p, <<>>, Tail(proc[p].plan), 1)
           /\ StoreTyped' /\ ListedMet'
           /\ store'[k] = store[k] \cup {x} /\ ttl' = ttl /\ leaked' = leaked
           /\ \A j \in Keys : j # k => store'[j] = store[j]
<1> DEFINE k == Cmd(p).key
           x == Cmd(p).arg
<1>1. /\ ~Free(p) /\ Cmd(p).do = "sadd" /\ NextCmd(p)
      /\ SetKey(k, store[k] \cup {x}) /\ sock' = sock
    BY DEF Sadd, Doing, Free, Cmd
<1>2. /\ proc[p].plan[1] = Cmd(p) /\ 1 \in DOMAIN proc[p].plan
      /\ Cmd(p) \in Commands /\ Fits(sock, p, Cmd(p))
    BY <1>1, DoingFacts DEF Ordered
<1>3. /\ k \in Keys /\ x \in Members /\ IsEntry(k, x)
      /\ \A ch \in Channels : k = Subs(ch) => Met(sock, x)
    BY <1>1, <1>2, CommandFields DEF Fits
<1>4. MovesBy(p, <<>>, Tail(proc[p].plan), 1)
    BY <1>1, NextMoves
<1>5. StoreTyped /\ ListedMet
    BY DEF Ordered, WsType
<1> HIDE DEF k, x
<1>6. /\ StoreTyped' /\ ListedMet'
      /\ store'[k] = store[k] \cup {x} /\ ttl' = ttl /\ leaked' = leaked
      /\ \A j \in Keys : j # k => store'[j] = store[j]
    BY <1>1, <1>3, <1>5, SetKeyGrows
<1> QED BY <1>1, <1>2, <1>3, <1>4, <1>6 DEF k, x

\* SREM and DEL.
LEMMA RemoveFacts ==
    ASSUME Ordered, NEW p \in Procs, Srem(p) \/ Del(p)
    PROVE  LET k == Cmd(p).key IN
           /\ Cmd(p) = proc[p].plan[1] /\ Cmd(p) \in Commands /\ Fits(sock, p, Cmd(p))
           /\ Cmd(p).do = IF Srem(p) THEN "srem" ELSE "del"
           /\ k \in Keys
           /\ MovesBy(p, <<>>, Tail(proc[p].plan), 1)
           /\ StoreTyped' /\ ListedMet'
           /\ \E S \in SUBSET store[k] : SetKey(k, S)
           /\ Srem(p) => store'[k] = store[k] \ {Cmd(p).arg}
           /\ \A j \in Keys : j # k => store'[j] = store[j]
<1> DEFINE k == Cmd(p).key
           S == IF Srem(p) THEN store[k] \ {Cmd(p).arg} ELSE {}
<1>1. /\ ~Free(p) /\ Cmd(p).do = (IF Srem(p) THEN "srem" ELSE "del") /\ NextCmd(p)
      /\ SetKey(k, S) /\ sock' = sock
    <2>1. CASE Srem(p)
        BY <2>1 DEF Srem, Doing, Free, Cmd
    <2>2. CASE ~Srem(p)
        BY <2>2 DEF Del, Doing, Free, Cmd
    <2> QED BY <2>1, <2>2
<1>2. /\ proc[p].plan[1] = Cmd(p) /\ Cmd(p) \in Commands /\ Fits(sock, p, Cmd(p))
    BY <1>1, DoingFacts DEF Ordered
<1>3. k \in Keys
    BY <1>1, <1>2, CommandFields
<1>4. MovesBy(p, <<>>, Tail(proc[p].plan), 1)
    BY <1>1, NextMoves
<1>5. StoreTyped /\ ListedMet /\ S \in SUBSET store[k]
    BY DEF Ordered, WsType
<1>s. Srem(p) => S = store[k] \ {Cmd(p).arg}
    OBVIOUS
<1> HIDE DEF k, S
<1>6. /\ StoreTyped' /\ ListedMet' /\ store'[k] = S
      /\ \A j \in Keys : j # k => store'[j] = store[j]
    BY <1>1, <1>3, <1>5, SetKeyShrinks
<1>7. \E T \in SUBSET store[k] : SetKey(k, T)
    BY <1>1, <1>5
<1> QED BY <1>1, <1>2, <1>3, <1>4, <1>6, <1>7, <1>s DEF k

LEMMA LapseFacts ==
    ASSUME Ordered, NEW k \in Keys, Lapse(k)
    PROVE  /\ StoreTyped' /\ ListedMet' /\ store'[k] = {} /\ k \in ttl
           /\ \A j \in Keys : j # k => store'[j] = store[j]
<1>1. StoreTyped /\ ListedMet /\ {} \in SUBSET store[k] /\ SetKey(k, {}) /\ sock' = sock /\ k \in ttl
    BY DEF Ordered, WsType, Lapse
<1> QED BY <1>1, SetKeyShrinks

\* A command that sends and changes nothing but its own invocation, or a post.
LEMMA OtherMoves ==
    ASSUME Ordered, NEW p \in Procs,
           \/ Expire(p) \/ ChannelsOf(p) \/ SubscribersOf(p) \/ Get(p) \/ Post(p) \/ Reap(p) \/ Ignore(p)
    PROVE  /\ Moves(p) /\ sock' = sock /\ store' = store /\ val' = val
           /\ proc[p].plan[1] = Cmd(p) /\ Cmd(p) \in Commands /\ Fits(sock, p, Cmd(p))
           /\ ~Expire(p) => Cmd(p).do # "expire" /\ ttl' = ttl /\ leaked' = leaked
<1>0. sock' = sock /\ store' = store /\ val' = val /\ ~Free(p)
    BY DEF Expire, ChannelsOf, SubscribersOf, Get, Post, Reap, Ignore, Doing, Free
<1>1. proc[p].plan[1] = Cmd(p) /\ Cmd(p) \in Commands /\ Fits(sock, p, Cmd(p))
    BY <1>0, DoingFacts DEF Ordered
<1>2. CASE Expire(p)
    <2>1. NextCmd(p)
        BY <1>2 DEF Expire
    <2>2. MovesBy(p, <<>>, Tail(proc[p].plan), 1)
        BY <1>0, <2>1, NextMoves
    <2> QED BY <1>0, <1>1, <1>2, <2>2 DEF Moves
<1>3. CASE Ignore(p)
    <2>1. Moves(p)
        BY <1>3, IgnoreMoves DEF Moves
    <2>2. Cmd(p).do # "expire" /\ ttl' = ttl /\ leaked' = leaked
        BY <1>1, <1>3 DEF Ignore, Fits
    <2> QED BY <1>0, <1>1, <2>1, <2>2
<1>4. CASE ChannelsOf(p) \/ SubscribersOf(p) \/ Get(p) \/ Post(p) \/ Reap(p)
    <2>1. Moves(p)
        BY <1>4, ChannelsOfMoves, SubscribersOfMoves, GetMoves, PostMoves, ReapMoves DEF Moves
    <2>2. Cmd(p).do # "expire" /\ ttl' = ttl /\ leaked' = leaked
        BY <1>4 DEF ChannelsOf, SubscribersOf, Get, Post, Reap, Doing, Cmd
    <2> QED BY <1>0, <1>1, <2>1, <2>2
<1> QED BY <1>2, <1>3, <1>4

\* Only a post changes what has been sent.
LEMMA BestTyped ==
    ASSUME Ordered, NEW p \in Procs,
           \/ Expire(p) \/ ChannelsOf(p) \/ SubscribersOf(p) \/ Get(p) \/ Post(p) \/ Reap(p) \/ Ignore(p)
    PROVE  /\ best' \in [Conns -> [Channels -> Nat]]
           /\ ~Post(p) => best' = best
<1>1. CASE ~Post(p)
    BY <1>1 DEF Expire, ChannelsOf, SubscribersOf, Get, Reap, Ignore, Ordered, WsType
<1>2. CASE Post(p)
    <2>1. ~Free(p) /\ Cmd(p).do = "post"
        BY <1>2 DEF Post, Doing, Free, Cmd
    <2>2. Cmd(p).conn \in Conns /\ Cmd(p).ch \in Channels /\ proc[p].val \in Nat
        BY <2>1, DoingFacts, CommandFields DEF Ordered
    <2>3. best \in [Conns -> [Channels -> Nat]]
        BY DEF Ordered, WsType
    <2>4. \/ best' = best
          \/ best' = [best EXCEPT ![Cmd(p).conn][Cmd(p).ch] = proc[p].val]
        BY <1>2 DEF Post
    <2> QED BY <1>2, <2>2, <2>3, <2>4
<1> QED BY <1>1, <1>2

\* Fits of the plans that invocations start with.
LEMMA StartFits ==
    ASSUME NEW c \in Conns, NEW sk
    PROVE  /\ \A p \in Handlers : \A x : Own(c, x) /\ Met(sk, c) => Fits(sk, p, x) /\ x.do # "accept"
           /\ \A p \in Handlers : \A x : Removal({c}, x) => Fits(sk, p, x) /\ x.do # "accept"
           /\ \A p \in Procs : \A x : x.do \in {"subscribersOf", "reap"} => Fits(sk, p, x) /\ x.do # "accept"
<1>1. \A p \in Handlers : p \notin Pushers
    BY WsAssumption DEF WsAssumption
<1> QED BY <1>1 DEF Own, Removal, Fits

LEMMA OrderedNext ==
    ASSUME Ordered, [WsNext]_wsVars
    PROVE  Ordered'
<1>0. StoreTyped /\ ListedMet /\ WsType
    BY DEF Ordered, WsType
<1>1. ASSUME NEW p \in Procs, Sadd(p) PROVE Ordered'
    <2>1. Moves(p) /\ StoreTyped' /\ ListedMet'
        BY <1>1, SaddFacts DEF Moves
    <2>2. sock' = sock /\ val' = val /\ best' \in [Conns -> [Channels -> Nat]]
        BY <1>0, <1>1 DEF Sadd, WsType
    <2> QED BY <2>1, <2>2, MovesOrdered
<1>2. ASSUME NEW p \in Procs, Srem(p) \/ Del(p) PROVE Ordered'
    <2>1. Moves(p) /\ StoreTyped' /\ ListedMet'
        BY <1>2, RemoveFacts DEF Moves
    <2>2. sock' = sock /\ val' = val /\ best' \in [Conns -> [Channels -> Nat]]
        BY <1>0, <1>2 DEF Srem, Del, WsType
    <2> QED BY <2>1, <2>2, MovesOrdered
<1>3. ASSUME NEW p \in Procs,
             \/ Expire(p) \/ ChannelsOf(p) \/ SubscribersOf(p) \/ Get(p) \/ Post(p) \/ Reap(p) \/ Ignore(p)
      PROVE  Ordered'
    <2>1. Moves(p) /\ sock' = sock /\ store' = store /\ val' = val
        BY <1>3, OtherMoves
    <2>2. StoreTyped' /\ ListedMet'
        BY <1>0, <2>1 DEF StoreTyped, ListedMet
    <2> QED BY <1>3, <2>1, <2>2, BestTyped, MovesOrdered
<1>4. ASSUME NEW p \in Procs, Accept(p) PROVE Ordered'
    BY <1>4, AcceptOrdered
<1>5. ASSUME NEW p \in Procs, Abort(p) PROVE Ordered'
    BY <1>5, AbortOrdered
<1>6. ASSUME NEW p \in Handlers, NEW c \in Conns, Connect(p, c) PROVE Ordered'
    BY <1>6, ConnectOrdered
<1>7. ASSUME NEW p \in Handlers, NEW c \in Conns, Close(p, c) PROVE Ordered'
    <2>1. /\ sock[c] = "open" /\ sock' = [sock EXCEPT ![c] = "closed"]
          /\ Start(p, handle_disconnect(c)) /\ UNCHANGED <<store, val, best>> /\ p \in Procs
        BY <1>7 DEF Close, Procs
    <2>2. /\ sock' \in [Conns -> SockStates] /\ sock'[c] = "closed"
          /\ \A d \in Conns : d # c => sock'[d] = sock[d]
        BY <1>0, <2>1 DEF WsType, SockStates
    <2>3. SockStep /\ \A d \in Conns : sock[d] = "opening" => sock'[d] = "opening"
        BY <2>1, <2>2 DEF SockStep, Met
    <2>4. /\ handle_disconnect(c) \in Whole
          /\ \A i \in DOMAIN handle_disconnect(c) : Removal({c}, handle_disconnect(c)[i])
        BY DisconnectIsWhole DEF Removals
    <2>5. \A i \in DOMAIN handle_disconnect(c) :
             Fits(sock', p, handle_disconnect(c)[i]) /\ handle_disconnect(c)[i].do # "accept"
        BY <2>4, StartFits
    <2>6. val' \in [Channels -> Nat]
        BY <1>0, <2>1 DEF WsType
    <2> QED BY <2>1, <2>2, <2>3, <2>4, <2>5, <2>6, StartOrdered
<1>8. ASSUME NEW p \in Handlers, NEW c \in Conns, NEW msg \in Messages, Send(p, c, msg) PROVE Ordered'
    <2> DEFINE plan == handle_default(c, msg)
    <2>1. /\ sock[c] = "open" /\ sock' = sock
          /\ Start(p, plan) /\ UNCHANGED <<store, val, best>> /\ p \in Procs
        BY <1>8 DEF Send, Procs
    <2>2. plan \in Whole /\ \A i \in DOMAIN plan : Own(c, plan[i])
        BY DefaultIsOwn DEF OwnPlans
    <2> HIDE DEF plan
    <2>3. Met(sock', c)
        BY <2>1 DEF Met
    <2>4. \A i \in DOMAIN plan : Fits(sock', p, plan[i]) /\ plan[i].do # "accept"
        BY <2>2, <2>3, StartFits
    <2>5. SockStep /\ sock' \in [Conns -> SockStates] /\ val' \in [Channels -> Nat]
        BY <1>0, <2>1 DEF SockStep, WsType
    <2>6. \A d \in Conns : sock[d] = "opening" => sock'[d] = "opening"
        BY <2>1
    <2> QED BY <2>1, <2>2, <2>4, <2>5, <2>6, StartOrdered
<1>9. ASSUME NEW p \in Pushers, NEW written \in Writes, Order(p, written) PROVE Ordered'
    <2> DEFINE plan == push_ws_updates
    <2>1. /\ val' = [ch \in Channels |-> IF ch \in written THEN val[ch] + 1 ELSE val[ch]]
          /\ Start(p, plan) /\ UNCHANGED <<sock, store, best>> /\ p \in Procs
        BY <1>9 DEF Order, Procs
    <2>2. plan \in Whole /\ \A i \in DOMAIN plan : plan[i].do \in {"subscribersOf", "reap"}
        BY PushIsWhole DEF PushPlans
    <2> HIDE DEF plan
    <2>4. \A i \in DOMAIN plan : Fits(sock', p, plan[i]) /\ plan[i].do # "accept"
        BY <2>1, <2>2 DEF Fits
    <2>5. SockStep /\ sock' \in [Conns -> SockStates] /\ val' \in [Channels -> Nat]
        BY <1>0, <2>1 DEF SockStep, WsType
    <2>6. \A d \in Conns : sock[d] = "opening" => sock'[d] = "opening"
        BY <2>1
    <2> QED BY <2>1, <2>2, <2>4, <2>5, <2>6, StartOrdered
<1>10. ASSUME NEW c \in Conns, CloseUnseen(c) PROVE Ordered'
    <2>1. /\ sock[c] = "open" /\ sock' = [sock EXCEPT ![c] = "closed"]
          /\ UNCHANGED <<store, val, best, proc>>
        BY <1>10 DEF CloseUnseen
    <2>2. /\ sock' \in [Conns -> SockStates] /\ sock'[c] = "closed"
          /\ \A d \in Conns : d # c => sock'[d] = sock[d]
        BY <1>0, <2>1 DEF WsType, SockStates
    <2>3. SockStep /\ \A d \in Conns : sock[d] = "opening" => sock'[d] = "opening"
        BY <2>1, <2>2 DEF SockStep, Met
    <2>4. StoreTyped' /\ ListedMet'
        BY <1>0, <2>1, <2>3, ListedMetStays DEF StoreTyped
    <2> QED BY <2>1, <2>2, <2>3, <2>4, QuietOrdered
<1>11. ASSUME NEW k \in Keys, Lapse(k) PROVE Ordered'
    <2>1. StoreTyped' /\ ListedMet'
        BY <1>11, LapseFacts
    <2>2. UNCHANGED <<sock, val, best, proc>>
        BY <1>11 DEF Lapse
    <2>3. SockStep /\ sock' \in [Conns -> SockStates]
        BY <1>0, <2>2 DEF SockStep, WsType
    <2> QED BY <2>1, <2>2, <2>3, QuietOrdered
<1>12. CASE UNCHANGED wsVars
    <2>1. UNCHANGED <<sock, store, val, best, proc>>
        BY <1>12 DEF wsVars
    <2>2. SockStep /\ sock' \in [Conns -> SockStates]
        BY <1>0, <2>1 DEF SockStep, WsType
    <2>3. StoreTyped' /\ ListedMet'
        BY <1>0, <2>1 DEF StoreTyped, ListedMet
    <2> QED BY <2>1, <2>2, <2>3, QuietOrdered
<1> QED
    BY <1>1, <1>2, <1>3, <1>4, <1>5, <1>6, <1>7, <1>8, <1>9, <1>10, <1>11, <1>12 DEF WsNext, Step

LEMMA OrderedInit == WsInit => Ordered
<1> SUFFICES ASSUME WsInit PROVE Ordered
    OBVIOUS
<1>1. Idle \in ProcStates /\ Idle.plan = <<>> /\ Idle.gone = {} /\ DOMAIN (<<>>) = {}
    BY EmptySeq DEF Idle, ProcStates
<1>2. \A p \in Procs : proc[p] = Idle
    BY DEF WsInit
<1>3. \A k \in Keys : store[k] = {}
    BY DEF WsInit
<1>4. \A ch \in Channels : store[Subs(ch)] = {}
    BY <1>3, KeysDiffer
<1>5. \A c \in Conns : store[Conn(c)] = {}
    BY <1>3, KeysDiffer
<1>6. WsType
    BY <1>1, <1>4, <1>5 DEF WsInit, WsType, StoreTyped, SockStates
<1>7. AllFit /\ OneAccept /\ PlansInOrder
    BY <1>1, <1>2 DEF AllFit, OneAccept, PlansInOrder, Lasting, LaterRead, SnapshotFollows
<1>8. ListedMet
    BY <1>4 DEF ListedMet
<1> QED BY <1>6, <1>7, <1>8 DEF Ordered

-------------------------------------------------------------------------------
(* Every set gets a lifetime.                                              *)

LEMMA WillExpire ==
    ASSUME NEW plan, NEW k
    PROVE  k \in ToExpire(plan) <=> \E i \in DOMAIN plan : plan[i].do = "expire" /\ plan[i].key = k
BY DEF ToExpire

\* A lifetime that is to be set still is, unless the first command sets it.
LEMMA ExpireStays ==
    ASSUME Ordered, NEW p \in Procs, Moves(p), NEW k,
           proc[p].plan[1].do = "expire" => proc[p].plan[1].key # k
    PROVE  (\E q \in Procs : k \in ToExpire(proc[q].plan)) => \E q \in Procs : k \in ToExpire(proc'[q].plan)
<1> SUFFICES ASSUME NEW q \in Procs, k \in ToExpire(proc[q].plan)
             PROVE  k \in ToExpire(proc'[q].plan)
    OBVIOUS
<1>1. PICK pre, t, m : MovesBy(p, pre, t, m)
    BY DEF Moves
<1>2. CASE q # p
    BY <1>1, <1>2 DEF MovesBy
<1>3. CASE q = p
    <2>1. PICK j \in DOMAIN proc[p].plan : proc[p].plan[j].do = "expire" /\ proc[p].plan[j].key = k
        BY <1>3, WillExpire
    <2>2. j # 1
        BY <2>1
    <2>3. \E i \in DOMAIN proc'[p].plan : proc'[p].plan[i] = proc[p].plan[j]
        BY <1>1, <2>1, <2>2, MovesKeepCommands DEF Ordered
    <2> QED BY <1>3, <2>1, <2>3, WillExpire
<1> QED BY <1>2, <1>3

LEMMA SetsExpireNext ==
    ASSUME Ordered, SetsExpire, [WsNext]_wsVars
    PROVE  SetsExpire'
<1> SUFFICES ASSUME NEW k \in Keys, store'[k] # {}
             PROVE  k \in ttl' \/ k \in leaked' \/ \E q \in Procs : k \in ToExpire(proc'[q].plan)
    BY DEF SetsExpire
<1> DEFINE Lives == k \in ttl \/ k \in leaked \/ \E q \in Procs : k \in ToExpire(proc[q].plan)
<1>0. store[k] # {} => Lives
    BY DEF SetsExpire
<1>1. ASSUME NEW p \in Procs, Sadd(p)
      PROVE  k \in ttl' \/ k \in leaked' \/ \E q \in Procs : k \in ToExpire(proc'[q].plan)
    <2>1. /\ Cmd(p) = proc[p].plan[1] /\ 1 \in DOMAIN proc[p].plan /\ Cmd(p).do = "sadd"
          /\ MovesBy(p, <<>>, Tail(proc[p].plan), 1) /\ ttl' = ttl /\ leaked' = leaked
          /\ \A j \in Keys : j # Cmd(p).key => store'[j] = store[j]
        BY <1>1, SaddFacts
    <2>2. CASE k = Cmd(p).key
        <3>1. PICK j \in DOMAIN proc[p].plan :
                 j > 1 /\ proc[p].plan[j].do = "expire" /\ proc[p].plan[j].key = k
            BY <2>1, <2>2 DEF Ordered, PlansInOrder, Lasting
        <3>2. \E i \in DOMAIN proc'[p].plan : proc'[p].plan[i] = proc[p].plan[j]
            BY <2>1, <3>1, MovesKeepCommands DEF Ordered
        <3>3. k \in ToExpire(proc'[p].plan)
            BY <3>1, <3>2, WillExpire
        <3> QED BY <3>3
    <2>3. CASE k # Cmd(p).key
        <3>1. Lives /\ Moves(p)
            BY <1>0, <2>1, <2>3 DEF Moves
        <3> QED BY <2>1, <3>1, ExpireStays
    <2> QED BY <2>2, <2>3
<1>2. ASSUME NEW p \in Procs, Srem(p) \/ Del(p)
      PROVE  k \in ttl' \/ k \in leaked' \/ \E q \in Procs : k \in ToExpire(proc'[q].plan)
    <2>1. /\ Cmd(p) = proc[p].plan[1] /\ Cmd(p).do \in {"srem", "del"} /\ Cmd(p).key \in Keys
          /\ MovesBy(p, <<>>, Tail(proc[p].plan), 1)
          /\ \A j \in Keys : j # Cmd(p).key => store'[j] = store[j]
        BY <1>2, RemoveFacts
    <2>2. PICK S \in SUBSET store[Cmd(p).key] : SetKey(Cmd(p).key, S)
        BY <1>2, RemoveFacts
    <2>3. store'[Cmd(p).key] = S
        BY <2>1, <2>2 DEF SetKey, Ordered, WsType, StoreTyped
    <2>4. store[k] # {} /\ (k \in ttl => k \in ttl') /\ (k \in leaked => k \in leaked')
        BY <2>1, <2>2, <2>3 DEF SetKey
    <2>5. Lives /\ Moves(p)
        BY <1>0, <2>1, <2>4 DEF Moves
    <2> QED BY <2>1, <2>4, <2>5, ExpireStays
<1>3. ASSUME NEW p \in Procs, Expire(p)
      PROVE  k \in ttl' \/ k \in leaked' \/ \E q \in Procs : k \in ToExpire(proc'[q].plan)
    <2>1. Moves(p) /\ store' = store /\ proc[p].plan[1] = Cmd(p)
        BY <1>3, OtherMoves
    <2>2. /\ ttl' = (IF store[Cmd(p).key] = {} THEN ttl ELSE ttl \cup {Cmd(p).key})
          /\ leaked' = leaked \ {Cmd(p).key}
        BY <1>3 DEF Expire
    <2>3. CASE k = Cmd(p).key
        BY <2>1, <2>2, <2>3
    <2>4. CASE k # Cmd(p).key
        <3>1. Lives
            BY <1>0, <2>1
        <3>2. (k \in ttl => k \in ttl') /\ (k \in leaked => k \in leaked')
            BY <2>2, <2>4
        <3> QED BY <2>1, <2>4, <3>1, <3>2, ExpireStays
    <2> QED BY <2>3, <2>4
<1>4. ASSUME NEW p \in Procs,
             \/ ChannelsOf(p) \/ SubscribersOf(p) \/ Get(p) \/ Post(p) \/ Reap(p) \/ Ignore(p),
             ~Expire(p)
      PROVE  k \in ttl' \/ k \in leaked' \/ \E q \in Procs : k \in ToExpire(proc'[q].plan)
    <2>1. /\ Moves(p) /\ store' = store /\ proc[p].plan[1] = Cmd(p)
          /\ Cmd(p).do # "expire" /\ ttl' = ttl /\ leaked' = leaked
        BY <1>4, OtherMoves
    <2> QED BY <1>0, <2>1, ExpireStays
<1>5. ASSUME NEW p \in Procs, Accept(p)
      PROVE  k \in ttl' \/ k \in leaked' \/ \E q \in Procs : k \in ToExpire(proc'[q].plan)
    <2>1. /\ Moves(p) /\ store' = store /\ ttl' = ttl /\ leaked' = leaked
        BY <1>5, AcceptOrdered DEF Accept, Moves
    <2>2. ~Free(p) /\ Cmd(p).do = "accept"
        BY <1>5 DEF Accept, Doing, Free, Cmd
    <2>3. proc[p].plan[1] = Cmd(p)
        BY <2>2, DoingFacts DEF Ordered
    <2> QED BY <1>0, <2>1, <2>2, <2>3, ExpireStays
<1>6. ASSUME NEW p \in Procs, Abort(p)
      PROVE  k \in ttl' \/ k \in leaked' \/ \E q \in Procs : k \in ToExpire(proc'[q].plan)
    <2>1. /\ proc' = [proc EXCEPT ![p] = Idle] /\ store' = store /\ ttl' = ttl
          /\ leaked' = leaked \cup ToExpire(proc[p].plan)
        BY <1>6 DEF Abort
    <2>2. \A q \in Procs : q # p => proc'[q] = proc[q]
        BY <2>1 DEF Ordered, WsType
    <2> QED BY <1>0, <2>1, <2>2
<1>7. ASSUME NEW p \in Procs, NEW plan \in Seq(Commands), Start(p, plan), UNCHANGED <<store, ttl, leaked>>
      PROVE  k \in ttl' \/ k \in leaked' \/ \E q \in Procs : k \in ToExpire(proc'[q].plan)
    <2>1. GoesOn(p, plan, 0, {}) /\ proc[p].plan = <<>>
        BY <1>7 DEF Start, Free
    <2>2. \A q \in Procs : q # p => proc'[q] = proc[q]
        BY <2>1, StartFacts DEF Ordered
    <2>3. k \notin ToExpire(proc[p].plan)
        BY <2>1, EmptySeq DEF ToExpire
    <2> QED BY <1>0, <1>7, <2>2, <2>3
<1>8. ASSUME NEW j \in Keys, Lapse(j)
      PROVE  k \in ttl' \/ k \in leaked' \/ \E q \in Procs : k \in ToExpire(proc'[q].plan)
    <2>1. store'[j] = {} /\ (k # j => store'[k] = store[k])
        BY <1>8, LapseFacts
    <2>2. proc' = proc /\ ttl' = ttl \ {j} /\ leaked' = leaked \ {j}
        BY <1>8 DEF Lapse, SetKey
    <2> QED BY <1>0, <2>1, <2>2
<1>9. ASSUME UNCHANGED <<store, ttl, leaked, proc>>
      PROVE  k \in ttl' \/ k \in leaked' \/ \E q \in Procs : k \in ToExpire(proc'[q].plan)
    BY <1>0, <1>9
<1>10. ASSUME NEW p \in Handlers, NEW c \in Conns,
              Connect(p, c) \/ Close(p, c) \/ \E msg \in Messages : Send(p, c, msg)
       PROVE  \E plan \in Seq(Commands) : Start(p, plan) /\ UNCHANGED <<store, ttl, leaked>>
    <2>1. /\ handle_connect(c) \in Seq(Commands) /\ handle_disconnect(c) \in Seq(Commands)
          /\ \A msg \in Messages : handle_default(c, msg) \in Seq(Commands)
        BY ConnectIsWhole, DisconnectIsWhole, DefaultIsOwn, WholeIsSeq DEF Removals, OwnPlans
    <2> QED BY <1>10, <2>1 DEF Connect, Close, Send
<1>11. ASSUME NEW p \in Pushers, NEW written \in Writes, Order(p, written)
       PROVE  \E plan \in Seq(Commands) : Start(p, plan) /\ UNCHANGED <<store, ttl, leaked>>
    <2>1. push_ws_updates \in Seq(Commands)
        BY PushIsWhole, WholeIsSeq DEF PushPlans
    <2> QED BY <1>11, <2>1 DEF Order
<1>12. Handlers \subseteq Procs /\ Pushers \subseteq Procs
    BY DEF Procs
<1>13. (\E c \in Conns : CloseUnseen(c)) \/ UNCHANGED wsVars => UNCHANGED <<store, ttl, leaked, proc>>
    BY DEF CloseUnseen, wsVars
<1> HIDE DEF Lives
<1> QED
    BY <1>1, <1>2, <1>3, <1>4, <1>5, <1>6, <1>7, <1>8, <1>9, <1>10, <1>11, <1>12, <1>13
    DEF WsNext, Step

\* Every set in Valkey gets a lifetime, however the handlers of any number of
\* connections interleave: a set without one is about to get it, or the EXPIRE was lost
\* in a failure.
THEOREM EverySetExpires == WsSpec => []SetsExpire
<1>1. WsInit => SetsExpire
    BY DEF WsInit, SetsExpire
<1> QED BY <1>1, OrderedInit, OrderedNext, SetsExpireNext, PTL DEF WsSpec

-------------------------------------------------------------------------------
(* An open connection keeps its channels.                                  *)

LEMMA KeepsChannelsNext ==
    ASSUME Ordered, [WsNext]_wsVars
    PROVE  \A c \in Conns, ch \in Channels :
              (sock[c] = "open" /\ c \in store[Subs(ch)] /\ c \notin store'[Subs(ch)])
                  => \/ \E p \in Handlers : Doing(p, "srem") /\ Cmd(p) = srem(Subs(ch), c)
                     \/ Subs(ch) \in ttl /\ store'[Subs(ch)] = {}
<1> SUFFICES ASSUME NEW c \in Conns, NEW ch \in Channels,
                    sock[c] = "open", c \in store[Subs(ch)], c \notin store'[Subs(ch)]
             PROVE  \/ \E p \in Handlers : Doing(p, "srem") /\ Cmd(p) = srem(Subs(ch), c)
                    \/ Subs(ch) \in ttl /\ store'[Subs(ch)] = {}
    OBVIOUS
<1>0. Subs(ch) \in Keys
    BY KeysDiffer
<1>1. ASSUME NEW p \in Procs, Sadd(p) PROVE FALSE
    BY <1>0, <1>1, SaddFacts
<1>2. ASSUME NEW p \in Procs, Srem(p)
      PROVE  \E q \in Handlers : Doing(q, "srem") /\ Cmd(q) = srem(Subs(ch), c)
    <2>1. /\ Cmd(p) \in Commands /\ Fits(sock, p, Cmd(p)) /\ Cmd(p).do = "srem"
          /\ store'[Cmd(p).key] = store[Cmd(p).key] \ {Cmd(p).arg}
          /\ \A j \in Keys : j # Cmd(p).key => store'[j] = store[j]
        BY <1>2, RemoveFacts
    <2>2. Cmd(p).key = Subs(ch) /\ Cmd(p).arg = c
        BY <1>0, <2>1
    <2>3. Cmd(p) = srem(Subs(ch), c)
        BY <2>1, <2>2, CommandFields
    <2>4. p \notin Pushers
        BY <2>1, <2>2 DEF Fits
    <2>5. p \in Handlers /\ Doing(p, "srem")
        BY <1>2, <2>4 DEF Srem, Procs
    <2> QED BY <2>3, <2>5
<1>3. ASSUME NEW p \in Procs, Del(p), ~Srem(p) PROVE FALSE
    <2>1. /\ Fits(sock, p, Cmd(p)) /\ Cmd(p).do = "del"
          /\ \A j \in Keys : j # Cmd(p).key => store'[j] = store[j]
        BY <1>3, RemoveFacts
    <2>2. Cmd(p).key # Subs(ch)
        BY <2>1, KeysDiffer DEF Fits
    <2> QED BY <1>0, <2>1, <2>2
<1>4. ASSUME NEW k \in Keys, Lapse(k) PROVE Subs(ch) \in ttl /\ store'[Subs(ch)] = {}
    BY <1>0, <1>4, LapseFacts
<1>5. ASSUME store' = store PROVE FALSE
    BY <1>5
<1>6. ASSUME NEW p \in Procs,
             \/ Expire(p) \/ ChannelsOf(p) \/ SubscribersOf(p) \/ Get(p) \/ Post(p) \/ Reap(p)
             \/ Accept(p) \/ Ignore(p) \/ Abort(p)
      PROVE  store' = store
    BY <1>6 DEF Expire, ChannelsOf, SubscribersOf, Get, Post, Reap, Accept, Ignore, Abort
<1>7. ASSUME NEW p \in Handlers, NEW d \in Conns,
             Connect(p, d) \/ Close(p, d) \/ \E msg \in Messages : Send(p, d, msg)
      PROVE  store' = store
    BY <1>7 DEF Connect, Close, Send
<1>8. (\E d \in Conns : CloseUnseen(d)) \/ (\E p \in Pushers, w \in Writes : Order(p, w))
         \/ UNCHANGED wsVars => store' = store
    BY DEF CloseUnseen, Order, wsVars
<1> QED BY <1>1, <1>2, <1>3, <1>4, <1>5, <1>6, <1>7, <1>8 DEF WsNext, Step

\* An open connection loses a channel by a message of its own, or because the set
\* expires: no push, whatever fails in it, and no invocation that dies takes it away.
THEOREM NothingUnsubscribes == WsSpec => OpenKeepsChannels
<1> DEFINE Keeps == \A c \in Conns, ch \in Channels :
              (sock[c] = "open" /\ c \in store[Subs(ch)] /\ c \notin store'[Subs(ch)])
                  => \/ \E p \in Handlers : Doing(p, "srem") /\ Cmd(p) = srem(Subs(ch), c)
                     \/ Subs(ch) \in ttl /\ store'[Subs(ch)] = {}
<1>1. Ordered /\ [WsNext]_wsVars => Keeps
    BY KeepsChannelsNext
<1> HIDE DEF Keeps
<1>2. WsSpec => [][Keeps]_wsVars
    BY <1>1, OrderedInit, OrderedNext, PTL DEF WsSpec
<1> QED BY <1>2 DEF Keeps, OpenKeepsChannels

-------------------------------------------------------------------------------
(* The feed has no gap.                                                    *)

\* What an invocation holds after a step is what its next posts are to send.
HoldsRead(p) ==
    proc'[p].plan # <<>> =>
        /\ proc[p].plan[1].do = "post" => proc'[p].val = proc[p].val
        /\ proc[p].plan[1].do = "get" =>
              proc'[p].val = val[proc[p].plan[1].ch] \/ AllRead(proc'[p].plan)

\* In a plan whose posts come right after a read, a post that follows only posts
\* belongs to that read.
LEMMA ReadAtOne ==
    ASSUME NEW plan \in Seq(Commands), LaterRead(plan), NEW i \in DOMAIN plan, i # 1,
           plan[i].do = "post", plan[1].do = "get", \A k \in 2 .. i - 1 : plan[k].do = "post"
    PROVE  plan[1].ch = plan[i].ch
<1>1. i \in Nat /\ i >= 2 /\ 1 \in 1 .. i - 1
    BY PlanDomain
<1>2. ~FirstRun(plan, i)
    BY <1>1 DEF FirstRun
<1>3. PICK j \in 1 .. i - 1 : /\ plan[j].do = "get" /\ plan[j].ch = plan[i].ch
                              /\ \A k \in j + 1 .. i - 1 : plan[k].do = "post"
    BY <1>2 DEF LaterRead, ReadFor
<1>4. j = 1
    <2>1. j \in 2 .. i - 1 \/ j = 1
        BY <1>1
    <2> QED BY <1>3, <2>1
<1> QED BY <1>3, <1>4

\* A post that sends the value held: it was such a post before, or its read has just
\* been done.
LEMMA OpenPosts ==
    ASSUME Ordered, NEW p \in Procs, NEW pre, NEW t, NEW m, MovesBy(p, pre, t, m), HoldsRead(p),
           NEW i \in DOMAIN proc'[p].plan, proc'[p].plan[i].do = "post", FirstRun(proc'[p].plan, i)
    PROVE  /\ pre = <<>> /\ m = 1
           /\ i + 1 \in DOMAIN proc[p].plan /\ proc'[p].plan[i] = proc[p].plan[i + 1]
           /\ \/ FirstRun(proc[p].plan, i + 1) /\ proc'[p].val = proc[p].val
              \/ proc'[p].val = val[proc'[p].plan[i].ch]
<1> DEFINE plan == proc[p].plan  n == proc'[p].plan
<1>1. /\ plan \in Seq(Commands) /\ n \in Seq(Commands) /\ LaterRead(plan)
      /\ NoOpenPost(t) => AllRead(n)
    BY MovedPlan DEF Ordered, PlansInOrder
<1>2. ~AllRead(n)
    <2>1. \A s \in Seq(Commands) : \A j \in DOMAIN s : ReadFor(s, j) => ~FirstRun(s, j)
        BY ReadIsLater
    <2> QED BY <1>1, <2>1 DEF AllRead
<1>3. pre = <<>> /\ m = 1 /\ plan[1].do \in {"get", "post"}
    BY <1>1, <1>2 DEF MovesBy
<1>4. Len(<<>>) = 0 /\ DOMAIN (<<>>) = {}
    BY EmptySeq
<1>5. \A j \in DOMAIN n : j > 0 /\ j + (1 - 0) \in DOMAIN plan /\ n[j] = plan[j + (1 - 0)]
    BY <1>3, <1>4, MovedPlan DEF Ordered
<1>6. n # <<>>
    BY <1>4
<1>7. \A j \in DOMAIN n : j \in Nat /\ j >= 1 /\ j <= Len(n)
    BY <1>1, PlanDomain
<1>d. DOMAIN n = 1 .. Len(n) /\ Len(n) \in Nat
    BY <1>1, PlanDomain
<1>r. HoldsRead(p) /\ n[i].do = "post" /\ FirstRun(n, i) /\ i \in DOMAIN n
    OBVIOUS
<1>h. /\ plan[1].do = "post" => proc'[p].val = proc[p].val
      /\ plan[1].do = "get" => proc'[p].val = val[plan[1].ch]
    BY <1>2, <1>6 DEF HoldsRead
<1> HIDE DEF plan, n
<1>8. \A j \in DOMAIN n : j + 1 \in DOMAIN plan /\ n[j] = plan[j + 1]
    BY <1>5, <1>7
<1>9. \A k \in 2 .. i : plan[k].do = "post"
    <2> SUFFICES ASSUME NEW k \in 2 .. i PROVE plan[k].do = "post"
        OBVIOUS
    <2>1. k - 1 \in 1 .. i - 1 /\ k - 1 \in 1 .. Len(n) /\ (k - 1) + 1 = k
        BY <1>7, <1>d, <1>r
    <2>2. n[k - 1].do = "post" /\ n[k - 1] = plan[k]
        BY <1>8, <1>d, <1>r, <2>1 DEF FirstRun
    <2> QED BY <2>2
<1>10. i \in Nat /\ (i + 1) - 1 = i /\ i + 1 # 1 /\ i >= 1
    BY <1>7, <1>r
<1>11. CASE plan[1].do = "post"
    <2>1. \A k \in 1 .. i : k = 1 \/ k \in 2 .. i
        BY <1>10
    <2>2. FirstRun(plan, i + 1)
        BY <1>9, <1>10, <1>11, <2>1 DEF FirstRun
    <2> QED BY <1>3, <1>8, <1>h, <1>r, <1>11, <2>2 DEF plan, n
<1>12. CASE plan[1].do = "get"
    <2>1. i + 1 \in DOMAIN plan /\ plan[i + 1] = n[i]
        BY <1>8, <1>r
    <2>2. plan[1].ch = plan[i + 1].ch
        BY <1>1, <1>9, <1>10, <1>12, <1>r, <2>1, ReadAtOne DEF n, plan
    <2> QED BY <1>3, <1>h, <1>12, <2>1, <2>2 DEF plan, n
<1> QED BY <1>3, <1>11, <1>12

LEMMA StepHoldsRead ==
    ASSUME Ordered, NEW p \in Procs, Step(p) \/ Ignore(p)
    PROVE  /\ \E pre, t, m : MovesBy(p, pre, t, m)
           /\ HoldsRead(p)
           /\ val' = val
<1>0. ~Free(p)
    BY DEF Step, Sadd, Srem, Del, Expire, ChannelsOf, SubscribersOf, Get, Post, Reap, Accept, Ignore,
           Doing, Free
<1>1. proc[p].plan[1] = Cmd(p)
    BY <1>0, DoingFacts DEF Ordered
<1>2. CASE Sadd(p) \/ Srem(p) \/ Del(p) \/ Expire(p) \/ Accept(p)
    <2>1. NextCmd(p) /\ Cmd(p).do \notin {"get", "post"} /\ val' = val
        BY <1>2 DEF Sadd, Srem, Del, Expire, Accept, Doing, Cmd
    <2>2. MovesBy(p, <<>>, Tail(proc[p].plan), 1)
        BY <1>0, <2>1, NextMoves
    <2> QED BY <1>1, <2>1, <2>2 DEF HoldsRead
<1>3. CASE ChannelsOf(p) \/ SubscribersOf(p) \/ Reap(p)
    <2>1. Cmd(p).do \notin {"get", "post"} /\ val' = val
        BY <1>3 DEF ChannelsOf, SubscribersOf, Reap, Doing, Cmd
    <2>2. \E pre : MovesBy(p, pre, Tail(proc[p].plan), 1)
        BY <1>3, ChannelsOfMoves, SubscribersOfMoves, ReapMoves
    <2> QED BY <1>1, <2>1, <2>2 DEF HoldsRead
<1>4. CASE Post(p)
    <2>1. Cmd(p).do = "post" /\ val' = val
        BY <1>4 DEF Post, Doing, Cmd
    <2> QED BY <1>1, <1>4, <2>1, PostMoves DEF HoldsRead
<1>5. CASE Get(p)
    <2>1. Cmd(p).do = "get" /\ val' = val
        BY <1>5 DEF Get, Doing, Cmd
    <2>2. CASE /\ MovesBy(p, <<>>, Tail(proc[p].plan), 1)
               /\ proc'[p].plan # <<>> => proc'[p].val = val[Cmd(p).ch]
        BY <1>1, <2>1, <2>2 DEF HoldsRead
    <2>3. CASE \E t, m : MovesBy(p, <<>>, t, m) /\ NoOpenPost(t)
        <3>1. PICK t, m : MovesBy(p, <<>>, t, m) /\ NoOpenPost(t)
            BY <2>3
        <3>2. AllRead(proc'[p].plan)
            BY <3>1, MovedPlan DEF Ordered
        <3> QED BY <1>1, <2>1, <3>1, <3>2 DEF HoldsRead
    <2> QED BY <1>5, <2>2, <2>3, GetMoves
<1>6. CASE Ignore(p)
    <2>1. val' = val
        BY <1>6 DEF Ignore
    <2>2. CASE /\ Cmd(p).do # "get"
               /\ MovesBy(p, <<>>, Tail(proc[p].plan), 1)
               /\ proc'[p].plan # <<>> => proc'[p].val = proc[p].val
        BY <1>1, <2>1, <2>2 DEF HoldsRead
    <2>3. CASE Cmd(p).do = "get" /\ \E t, m : MovesBy(p, <<>>, t, m) /\ NoOpenPost(t)
        <3>1. PICK t, m : MovesBy(p, <<>>, t, m) /\ NoOpenPost(t)
            BY <2>3
        <3>2. AllRead(proc'[p].plan)
            BY <3>1, MovedPlan DEF Ordered
        <3> QED BY <1>1, <2>1, <2>3, <3>1, <3>2 DEF HoldsRead
    <2> QED BY <1>6, <2>2, <2>3, IgnoreMoves
<1> QED BY <1>2, <1>3, <1>4, <1>5, <1>6 DEF Step

\* A post sends at most the newest value.
LEMMA PostFacts ==
    ASSUME Ordered, ValuesBounded, NEW p \in Procs, Post(p)
    PROVE  LET c == Cmd(p).conn  ch == Cmd(p).ch  v == proc[p].val IN
           /\ c \in Conns /\ ch \in Channels /\ v \in Nat /\ v <= val[ch]
           /\ proc[p].plan[1] = Cmd(p) /\ Cmd(p) = post(c, ch)
           /\ \A d \in Conns, eh \in Channels :
                 /\ best'[d][eh] >= best[d][eh] /\ best'[d][eh] <= val[eh]
                 /\ d = c /\ eh = ch /\ sock[c] = "open" => best'[d][eh] >= v
           /\ missed' = IF sock[c] = "open" /\ v = val[ch] THEN missed \ {<<c, ch>>} ELSE missed
<1> DEFINE c == Cmd(p).conn
           ch == Cmd(p).ch
           v == proc[p].val
<1>1. ~Free(p) /\ Cmd(p).do = "post"
    BY DEF Post, Doing, Free, Cmd
<1>2. /\ proc[p].plan[1] = Cmd(p) /\ 1 \in DOMAIN proc[p].plan /\ Cmd(p) \in Commands /\ v \in Nat
    BY <1>1, DoingFacts DEF Ordered
<1>3. c \in Conns /\ ch \in Channels /\ Cmd(p) = post(c, ch)
    BY <1>1, <1>2, CommandFields
<1>4. v <= val[ch]
    <2>1. FirstRun(proc[p].plan, 1)
        BY DEF FirstRun
    <2> QED BY <1>1, <1>2, <2>1 DEF ValuesBounded
<1>5. /\ best' = IF sock[c] = "open" /\ v > best[c][ch] THEN [best EXCEPT ![c][ch] = v] ELSE best
      /\ missed' = IF sock[c] = "open" /\ v = val[ch] THEN missed \ {<<c, ch>>} ELSE missed
    BY DEF Post
<1>6. /\ best \in [Conns -> [Channels -> Nat]] /\ val \in [Channels -> Nat]
      /\ \A d \in Conns, eh \in Channels : best[d][eh] <= val[eh]
    BY DEF Ordered, WsType, ValuesBounded
<1> HIDE DEF c, ch, v
<1>7. ASSUME NEW d \in Conns, NEW eh \in Channels
      PROVE  /\ best'[d][eh] >= best[d][eh] /\ best'[d][eh] <= val[eh]
             /\ d = c /\ eh = ch /\ sock[c] = "open" => best'[d][eh] >= v
    <2>0. best[d][eh] \in Nat /\ val[eh] \in Nat /\ best[d][eh] <= val[eh] /\ best[c][ch] \in Nat
        BY <1>3, <1>6
    <2>1. CASE sock[c] = "open" /\ v > best[c][ch]
        <3>1. best'[d][eh] = IF d = c /\ eh = ch THEN v ELSE best[d][eh]
            BY <1>3, <1>5, <1>6, <2>1
        <3> QED BY <1>2, <1>4, <2>0, <2>1, <3>1
    <2>2. CASE ~(sock[c] = "open" /\ v > best[c][ch])
        <3>1. best'[d][eh] = best[d][eh]
            BY <1>5, <2>2
        <3> QED BY <1>2, <2>0, <2>2, <3>1
    <2> QED BY <2>1, <2>2
<1> QED BY <1>2, <1>3, <1>4, <1>5, <1>7 DEF c, ch, v

LEMMA StepValues ==
    ASSUME Ordered, ValuesBounded, NEW p \in Procs, Step(p) \/ Ignore(p)
    PROVE  ValuesBounded'
<1>1. PICK pre, t, m : MovesBy(p, pre, t, m)
    BY StepHoldsRead
<1>2. HoldsRead(p) /\ val' = val
    BY StepHoldsRead
<1>3. \A q \in Procs : q # p => proc'[q] = proc[q]
    BY <1>1 DEF MovesBy
<1>4. ASSUME NEW c \in Conns, NEW ch \in Channels PROVE best'[c][ch] <= val'[ch]
    <2>1. CASE Post(p)
        BY <1>2, <2>1, PostFacts
    <2>2. CASE ~Post(p)
        <3>1. best' = best
            BY <2>2 DEF Step, Sadd, Srem, Del, Expire, ChannelsOf, SubscribersOf, Get, Reap, Accept, Ignore
        <3> QED BY <1>2, <3>1 DEF ValuesBounded
    <2> QED BY <2>1, <2>2
<1>5. ASSUME NEW q \in Procs, NEW i \in DOMAIN proc'[q].plan,
             proc'[q].plan[i].do = "post", FirstRun(proc'[q].plan, i)
      PROVE  proc'[q].val <= val'[proc'[q].plan[i].ch]
    <2>1. CASE q # p
        BY <1>2, <1>3, <1>5, <2>1 DEF ValuesBounded
    <2>2. CASE q = p
        <3>1. /\ i + 1 \in DOMAIN proc[p].plan /\ proc'[p].plan[i] = proc[p].plan[i + 1]
              /\ \/ FirstRun(proc[p].plan, i + 1) /\ proc'[p].val = proc[p].val
                 \/ proc'[p].val = val[proc'[p].plan[i].ch]
            BY <1>1, <1>2, <1>5, <2>2, OpenPosts
        <3>2. CASE FirstRun(proc[p].plan, i + 1) /\ proc'[p].val = proc[p].val
            BY <1>2, <1>5, <2>2, <3>1, <3>2 DEF ValuesBounded
        <3>3. CASE proc'[p].val = val[proc'[p].plan[i].ch]
            <4>1. proc'[p].plan[i] \in Commands
                BY <1>1, <2>2, MovedPlan, PlanDomain DEF Ordered
            <4>2. val[proc'[p].plan[i].ch] \in Nat
                BY <1>5, <2>2, <4>1, CommandFields DEF Ordered, WsType
            <4> QED BY <1>2, <2>2, <3>3, <4>2
        <3> QED BY <3>1, <3>2, <3>3
    <2> QED BY <2>1, <2>2
<1> QED BY <1>4, <1>5 DEF ValuesBounded

\* An invocation that starts, or is gone, holds no value.
LEMMA StartValues ==
    ASSUME Ordered, ValuesBounded, NEW p \in Procs, AllRead(proc'[p].plan),
           proc'[p].plan \in Seq(Commands),
           \A q \in Procs : q # p => proc'[q] = proc[q], best' = best,
           val' \in [Channels -> Nat], \A ch \in Channels : val'[ch] >= val[ch]
    PROVE  ValuesBounded'
<1>1. ASSUME NEW c \in Conns, NEW ch \in Channels PROVE best'[c][ch] <= val'[ch]
    <2>1. best[c][ch] \in Nat /\ val[ch] \in Nat /\ val'[ch] \in Nat
        BY DEF Ordered, WsType
    <2> QED BY <2>1 DEF ValuesBounded
<1>2. ASSUME NEW q \in Procs, NEW i \in DOMAIN proc'[q].plan,
             proc'[q].plan[i].do = "post", FirstRun(proc'[q].plan, i)
      PROVE  proc'[q].val <= val'[proc'[q].plan[i].ch]
    <2>1. CASE q = p
        <3>1. ReadFor(proc'[p].plan, i)
            BY <1>2, <2>1 DEF AllRead
        <3>2. \A s \in Seq(Commands) : \A j \in DOMAIN s : ReadFor(s, j) => ~FirstRun(s, j)
            BY ReadIsLater
        <3> QED BY <1>2, <2>1, <3>1, <3>2
    <2>2. CASE q # p
        <3>1. proc'[q] = proc[q] /\ i \in DOMAIN proc[q].plan
            BY <1>2, <2>2
        <3>2. proc[q].val <= val[proc[q].plan[i].ch]
            BY <1>2, <3>1 DEF ValuesBounded
        <3>3. proc[q].plan[i] \in Commands /\ proc[q].val \in Nat
            BY <3>1, PlanTyped, PlanDomain DEF Ordered
        <3>4. proc[q].plan[i].ch \in Channels
            BY <1>2, <3>1, <3>3, CommandFields
        <3>5. val[proc[q].plan[i].ch] \in Nat /\ val'[proc[q].plan[i].ch] \in Nat
            BY <3>4 DEF Ordered, WsType
        <3> QED BY <3>1, <3>2, <3>3, <3>4, <3>5
    <2> QED BY <2>1, <2>2
<1> QED BY <1>1, <1>2 DEF ValuesBounded

LEMMA OwedMeans ==
    ASSUME NEW plan \in Seq(Commands), NEW c \in Conns, NEW ch \in Channels
    PROVE  <<c, ch>> \in Owed(plan) <=>
              \E i \in DOMAIN plan : plan[i] = subscribersOf(ch) \/ plan[i] = post(c, ch)
<1> DEFINE O(i) == CASE plan[i].do = "post" -> {<<plan[i].conn, plan[i].ch>>}
                     [] plan[i].do = "subscribersOf" -> Conns \X {plan[i].ch}
                     [] OTHER -> {}
<1>1. <<c, ch>> \in Owed(plan) <=> \E i \in DOMAIN plan : <<c, ch>> \in O(i)
    BY DEF Owed
<1>2. ASSUME NEW i \in DOMAIN plan
      PROVE  <<c, ch>> \in O(i) <=> plan[i] = subscribersOf(ch) \/ plan[i] = post(c, ch)
    <2>1. plan[i] \in Commands
        BY PlanDomain
    <2>2. CASE plan[i].do = "post"
        <3>1. O(i) = {<<plan[i].conn, plan[i].ch>>}
            BY <2>2
        <3>2. plan[i] = post(plan[i].conn, plan[i].ch) /\ plan[i] # subscribersOf(ch)
            BY <2>1, <2>2, CommandFields DEF subscribersOf
        <3>3. plan[i] = post(c, ch) => plan[i].conn = c /\ plan[i].ch = ch
            BY DEF post
        <3> HIDE DEF O
        <3> QED BY <3>1, <3>2, <3>3
    <2>3. CASE plan[i].do = "subscribersOf"
        <3>1. O(i) = Conns \X {plan[i].ch}
            BY <2>3
        <3>2. plan[i] = subscribersOf(plan[i].ch) /\ plan[i] # post(c, ch)
            BY <2>1, <2>3, CommandFields DEF post
        <3>3. plan[i] = subscribersOf(ch) => plan[i].ch = ch
            BY DEF subscribersOf
        <3> HIDE DEF O
        <3> QED BY <3>1, <3>2, <3>3
    <2>4. CASE plan[i].do # "post" /\ plan[i].do # "subscribersOf"
        <3>1. O(i) = {}
            BY <2>4
        <3>2. plan[i] # subscribersOf(ch) /\ plan[i] # post(c, ch)
            BY <2>4 DEF subscribersOf, post
        <3> HIDE DEF O
        <3> QED BY <3>1, <3>2
    <2> QED BY <2>2, <2>3, <2>4
<1> HIDE DEF O
<1> QED BY <1>1, <1>2

\* Whoever is to serve a connection owes it a value.
LEMMA ServingOwes ==
    ASSUME Ordered, NEW p \in Procs, NEW c \in Conns, NEW ch \in Channels, WillServe(p, c, ch)
    PROVE  <<c, ch>> \in Owed(proc[p].plan)
<1>1. proc[p].plan \in Seq(Commands)
    BY PlanTyped DEF Ordered
<1>2. \A plan \in Seq(Commands) :
         (\E i \in DOMAIN plan : plan[i] = subscribersOf(ch) \/ plan[i] = post(c, ch))
             => <<c, ch>> \in Owed(plan)
    BY OwedMeans
<1> QED BY <1>1, <1>2 DEF WillServe

\* Before its reads, an invocation serves whatever it owes.
LEMMA OwingServes ==
    ASSUME NEW p \in Procs, NEW c \in Conns, NEW ch \in Channels,
           proc'[p].plan \in Seq(Commands), AllRead(proc'[p].plan), <<c, ch>> \in Owed(proc'[p].plan)
    PROVE  WillServe(p, c, ch)'
<1>1. \A plan \in Seq(Commands) : <<c, ch>> \in Owed(plan) =>
         \E i \in DOMAIN plan : plan[i] = subscribersOf(ch) \/ plan[i] = post(c, ch)
    BY OwedMeans
<1>2. PICK i \in DOMAIN proc'[p].plan :
         proc'[p].plan[i] = subscribersOf(ch) \/ proc'[p].plan[i] = post(c, ch)
    BY <1>1
<1>3. CASE proc'[p].plan[i] = subscribersOf(ch)
    BY <1>3 DEF WillServe
<1>4. CASE proc'[p].plan[i] = post(c, ch)
    <2>1. proc'[p].plan[i].do = "post"
        BY <1>4 DEF post
    <2>2. ReadFor(proc'[p].plan, i)
        BY <2>1 DEF AllRead
    <2>3. \A s \in Seq(Commands) : \A j \in DOMAIN s : ReadFor(s, j) => ~FirstRun(s, j)
        BY ReadIsLater
    <2>4. ~FirstRun(proc'[p].plan, i)
        BY <2>2, <2>3
    <2> QED BY <1>4, <2>4 DEF WillServe
<1> QED BY <1>2, <1>3, <1>4

\* Who was to serve a connection still is, but for what the first command does.
LEMMA ServeGoesOn ==
    ASSUME Ordered, NEW p \in Procs, NEW pre, NEW t, NEW m, MovesBy(p, pre, t, m), HoldsRead(p),
           val' = val, NEW c \in Conns, NEW ch \in Channels, WillServe(p, c, ch)
    PROVE  \/ WillServe(p, c, ch)'
           \/ proc[p].plan[1] = subscribersOf(ch)
           \/ proc[p].plan[1] = post(c, ch) /\ proc[p].val = val[ch]
           \/ proc[p].plan[1] = get(ch) /\ m # 1
<1> DEFINE plan == proc[p].plan  n == proc'[p].plan
<1>1. PICK i \in DOMAIN plan :
         plan[i] = subscribersOf(ch) \/ (plan[i] = post(c, ch) /\ (FirstRun(plan, i) => proc[p].val = val[ch]))
    BY DEF WillServe
<1>2. /\ plan \in Seq(Commands) /\ n \in Seq(Commands) /\ m \in Nat \ {0} /\ Len(pre) \in Nat
      /\ LaterRead(plan) /\ i \in Nat /\ i >= 1
      /\ \A j \in DOMAIN plan : j > m => Len(pre) + (j - m) \in DOMAIN n /\ n[Len(pre) + (j - m)] = plan[j]
    BY MovedPlan, PlanDomain DEF Ordered, PlansInOrder
<1>3. CASE plan[i] = subscribersOf(ch) /\ i # 1
    <2>1. plan[i].do # "post"
        BY <1>3 DEF subscribersOf
    <2>2. \E j \in DOMAIN n : n[j] = plan[i]
        BY <1>3, <2>1, MovesKeepCommands DEF Ordered
    <2> QED BY <1>3, <2>2 DEF WillServe
<1>4. CASE plan[i] = post(c, ch) /\ (FirstRun(plan, i) => proc[p].val = val[ch])
    <2>0. plan[i].do = "post" /\ plan[i].ch = ch
        BY <1>4 DEF post
    <2>1. CASE i = 1
        <3>1. FirstRun(plan, 1)
            BY DEF FirstRun
        <3> QED BY <1>4, <2>1, <3>1
    <2>2. CASE i > m
        <3> DEFINE j == Len(pre) + (i - m)
        <3>1. j \in DOMAIN n /\ n[j] = plan[i]
            BY <1>2, <2>2
        <3>2. CASE FirstRun(n, j)
            <4>1. /\ pre = <<>> /\ m = 1
                  /\ \/ FirstRun(plan, j + 1) /\ proc'[p].val = proc[p].val
                     \/ proc'[p].val = val[n[j].ch]
                <5> HIDE DEF j
                <5> QED BY <2>0, <3>1, <3>2, OpenPosts
            <4>2. Len(<<>>) = 0
                BY EmptySeq
            <4>3. j + 1 = i
                BY <1>2, <4>1, <4>2
            <4>4. proc'[p].val = val[ch]
                BY <1>4, <2>0, <3>1, <4>1, <4>3
            <4> HIDE DEF j
            <4> QED BY <1>4, <3>1, <4>4 DEF WillServe
        <3>3. CASE ~FirstRun(n, j)
            <4> HIDE DEF j
            <4> QED BY <1>4, <3>1, <3>3 DEF WillServe
        <3> QED BY <3>2, <3>3
    <2>3. CASE i # 1 /\ ~(i > m)
        <3>1. m # 1 /\ \A k \in 2 .. i - 1 : k \in 2 .. m
            BY <1>2, <2>3
        <3>2. plan[1].do = "get" /\ \A k \in 2 .. i - 1 : plan[k].do = "post"
            BY <3>1 DEF MovesBy
        <3>3. \A s \in Seq(Commands) : \A j \in DOMAIN s :
                 (/\ LaterRead(s) /\ j # 1 /\ s[j].do = "post" /\ s[1].do = "get"
                  /\ \A k \in 2 .. j - 1 : s[k].do = "post") => s[1].ch = s[j].ch
            BY ReadAtOne
        <3>4. plan[1].ch = ch
            BY <1>2, <2>0, <2>3, <3>2, <3>3
        <3>5. plan[1] \in Commands
            BY TailIsSuffix, <1>2 DEF MovesBy
        <3>6. plan[1] = get(ch)
            BY <3>2, <3>4, <3>5, CommandFields
        <3> QED BY <3>1, <3>6
    <2> QED BY <2>1, <2>2, <2>3
<1> QED BY <1>1, <1>3, <1>4

\* The invocation that takes a step serves the connection, or goes on to.
LEMMA StepServes ==
    ASSUME Ordered, ValuesBounded, NEW p \in Procs, Step(p) \/ Ignore(p),
           NEW c \in Conns, NEW ch \in Channels, WillServe(p, c, ch),
           sock[c] = "open", c \in store[Subs(ch)], <<c, ch>> \notin missed'
    PROVE  WillServe(p, c, ch)' \/ best'[c][ch] = val[ch]
<1>0. ~Free(p)
    BY DEF Step, Sadd, Srem, Del, Expire, ChannelsOf, SubscribersOf, Get, Post, Reap, Accept, Ignore,
           Doing, Free
<1>1. /\ proc[p].plan[1] = Cmd(p) /\ proc[p].plan \in Seq(Commands)
      /\ HoldsRead(p) /\ val' = val
    BY <1>0, DoingFacts, StepHoldsRead, PlanTyped DEF Ordered
<1>2. \A k \in Channels : subscribersOf(k).do = "subscribersOf" /\ get(k).do = "get" /\ post(c, k).do = "post"
    BY DEF subscribersOf, get, post
<1>t. best[c][ch] \in Nat /\ val[ch] \in Nat /\ best[c][ch] <= val[ch]
    BY DEF Ordered, WsType, ValuesBounded
<1>3. CASE Ignore(p)
    <2>1. missed' = missed \cup (Owed(proc[p].plan) \ Owed(proc'[p].plan))
        BY <1>3, IgnoreMoves
    <2>2. <<c, ch>> \in Owed(proc'[p].plan)
        BY <2>1, ServingOwes
    <2>3. CASE Cmd(p).do = "get"
        <3>1. PICK t, m : MovesBy(p, <<>>, t, m) /\ NoOpenPost(t)
            BY <1>3, <2>3, IgnoreMoves
        <3>2. AllRead(proc'[p].plan) /\ proc'[p].plan \in Seq(Commands)
            BY <3>1, MovedPlan DEF Ordered
        <3> QED BY <2>2, <3>2, OwingServes
    <2>4. CASE Cmd(p).do # "get"
        <3>1. MovesBy(p, <<>>, Tail(proc[p].plan), 1)
            BY <1>3, <2>4, IgnoreMoves
        <3>2. proc'[p].plan \in Seq(Commands)
            BY <3>1, MovedPlan DEF Ordered
        <3>3. CASE proc[p].plan[1] = subscribersOf(ch)
            <4>1. NoOpenPost(Tail(proc[p].plan))
                BY <1>2, <3>1, <3>3 DEF MovesBy
            <4>2. AllRead(proc'[p].plan)
                BY <3>1, <4>1, MovedPlan DEF Ordered
            <4> QED BY <2>2, <3>2, <4>2, OwingServes
        <3>4. CASE proc[p].plan[1] = post(c, ch) /\ proc[p].val = val[ch]
            <4>1. \A plan \in Seq(Commands) : <<c, ch>> \in Owed(plan) =>
                     \E i \in DOMAIN plan : plan[i] = subscribersOf(ch) \/ plan[i] = post(c, ch)
                BY OwedMeans
            <4>2. PICK i \in DOMAIN proc'[p].plan :
                     proc'[p].plan[i] = subscribersOf(ch) \/ proc'[p].plan[i] = post(c, ch)
                BY <2>2, <3>2, <4>1
            <4>3. CASE proc'[p].plan[i] = subscribersOf(ch)
                BY <4>3 DEF WillServe
            <4>4. CASE proc'[p].plan[i] = post(c, ch)
                <5>1. proc'[p].plan[i].do = "post" /\ proc'[p].plan[i].ch = ch
                    BY <4>4 DEF post
                <5>2. FirstRun(proc'[p].plan, i) =>
                         proc'[p].val = proc[p].val \/ proc'[p].val = val[proc'[p].plan[i].ch]
                    BY <1>1, <3>1, <5>1, OpenPosts
                <5>3. FirstRun(proc'[p].plan, i) => proc'[p].val = val'[ch]
                    BY <1>1, <3>4, <5>1, <5>2
                <5> QED BY <4>4, <5>3 DEF WillServe
            <4> QED BY <4>2, <4>3, <4>4
        <3> QED BY <1>1, <1>2, <2>4, <3>1, <3>3, <3>4, ServeGoesOn
    <2> QED BY <2>3, <2>4
<1>4. CASE Get(p)
    <2>1. Cmd(p).do = "get"
        BY <1>4 DEF Get, Doing, Cmd
    <2>2. CASE MovesBy(p, <<>>, Tail(proc[p].plan), 1)
        BY <1>1, <1>2, <2>1, <2>2, ServeGoesOn
    <2>3. CASE val[Cmd(p).ch] = 0 /\ \E t, m : MovesBy(p, <<>>, t, m)
        <3>1. PICK t, m : MovesBy(p, <<>>, t, m)
            BY <2>3
        <3>2. WillServe(p, c, ch)' \/ proc[p].plan[1] = get(ch)
            BY <1>1, <1>2, <2>1, <3>1, ServeGoesOn
        <3>3. CASE proc[p].plan[1] = get(ch)
            <4>1. val[ch] = 0
                BY <1>1, <2>3, <3>3 DEF get
            <4>2. best' = best
                BY <1>4 DEF Get
            <4> QED BY <1>t, <4>1, <4>2
        <3> QED BY <3>2, <3>3
    <2> QED BY <1>4, <2>2, <2>3, GetMoves
<1>5. CASE SubscribersOf(p)
    <2>1. Cmd(p).do = "subscribersOf"
        BY <1>5 DEF SubscribersOf, Doing, Cmd
    <2>2. PICK pre \in Whole :
             /\ MovesBy(p, pre, Tail(proc[p].plan), 1)
             /\ \A d \in store[Subs(Cmd(p).ch)] : \E i \in DOMAIN pre : pre[i] = post(d, Cmd(p).ch)
        BY <1>5, SubscribersOfMoves
    <2>3. WillServe(p, c, ch)' \/ proc[p].plan[1] = subscribersOf(ch)
        BY <1>1, <1>2, <2>1, <2>2, ServeGoesOn
    <2>4. CASE proc[p].plan[1] = subscribersOf(ch)
        <3>1. Cmd(p).ch = ch
            BY <1>1, <2>4 DEF subscribersOf
        <3>2. PICK i \in DOMAIN pre : pre[i] = post(c, ch)
            BY <2>2, <3>1
        <3>3. NoOpenPost(Tail(proc[p].plan))
            BY <1>1, <2>1, <2>2 DEF MovesBy
        <3>4. /\ AllRead(proc'[p].plan) /\ proc'[p].plan \in Seq(Commands)
              /\ i \in DOMAIN proc'[p].plan /\ proc'[p].plan[i] = post(c, ch)
            BY <2>2, <3>2, <3>3, MovedPlan DEF Ordered
        <3>5. \A plan \in Seq(Commands) : (\E j \in DOMAIN plan : plan[j] = post(c, ch)) => <<c, ch>> \in Owed(plan)
            BY OwedMeans
        <3>6. <<c, ch>> \in Owed(proc'[p].plan)
            BY <3>4, <3>5
        <3> QED BY <3>4, <3>6, OwingServes
    <2> QED BY <2>3, <2>4
<1>6. CASE Post(p)
    <2>1. Cmd(p).do = "post"
        BY <1>6 DEF Post, Doing, Cmd
    <2>2. MovesBy(p, <<>>, Tail(proc[p].plan), 1)
        BY <1>6, PostMoves
    <2>3. WillServe(p, c, ch)' \/ (proc[p].plan[1] = post(c, ch) /\ proc[p].val = val[ch])
        BY <1>1, <1>2, <2>1, <2>2, ServeGoesOn
    <2>4. CASE proc[p].plan[1] = post(c, ch) /\ proc[p].val = val[ch]
        <3>1. Cmd(p).conn = c /\ Cmd(p).ch = ch
            BY <1>1, <2>4 DEF post
        <3>2. best'[c][ch] >= val[ch] /\ best'[c][ch] <= val[ch]
            BY <1>6, <2>4, <3>1, PostFacts
        <3>3. best'[c][ch] \in Nat
            BY <1>6, BestTyped
        <3> QED BY <1>t, <3>2, <3>3
    <2> QED BY <2>3, <2>4
<1>7. CASE Sadd(p) \/ Srem(p) \/ Del(p) \/ Expire(p) \/ Accept(p) \/ ChannelsOf(p) \/ Reap(p)
    <2>1. Cmd(p).do \notin {"subscribersOf", "post", "get"}
        BY <1>7 DEF Sadd, Srem, Del, Expire, Accept, ChannelsOf, Reap, Doing, Cmd
    <2>2. PICK pre, t, m : MovesBy(p, pre, t, m)
        BY StepHoldsRead
    <2> QED BY <1>1, <1>2, <2>1, <2>2, ServeGoesOn
<1> QED BY <1>3, <1>4, <1>5, <1>6, <1>7 DEF Step

LEMMA PushedAreChannels == Pushed \subseteq Channels
<1>1. PairChannels \in Seq(Channels)
    BY WsAssumption DEF WsAssumption
<1>2. \A i \in DOMAIN PairChannels : PairChannels[i] \in Channels
    BY <1>1, LenProperties, ElementOfSeq
<1> QED BY <1>2 DEF Pushed, ToSet

\* A connection that a step lists will be sent a snapshot; one that it takes off the
\* missed ones has just been sent the newest value.
LEMMA NewlyListed ==
    ASSUME Ordered, ValuesBounded, NEW p \in Procs, Step(p) \/ Ignore(p),
           NEW c \in Conns, NEW ch \in Channels,
           sock'[c] = "open", c \in store'[Subs(ch)], <<c, ch>> \notin missed'
    PROVE  \/ sock[c] = "open" /\ c \in store[Subs(ch)] /\ <<c, ch>> \notin missed
           \/ WillServe(p, c, ch)'
           \/ best'[c][ch] = val[ch]
<1>0. Subs(ch) \in Keys /\ best[c][ch] \in Nat /\ val[ch] \in Nat
    BY KeysDiffer DEF Ordered, WsType
<1>1. CASE Sadd(p)
    <2>1. /\ Cmd(p) = proc[p].plan[1] /\ 1 \in DOMAIN proc[p].plan /\ Cmd(p).do = "sadd"
          /\ MovesBy(p, <<>>, Tail(proc[p].plan), 1)
          /\ store'[Cmd(p).key] = store[Cmd(p).key] \cup {Cmd(p).arg}
          /\ \A j \in Keys : j # Cmd(p).key => store'[j] = store[j]
        BY <1>1, SaddFacts
    <2>2. sock' = sock /\ missed' = missed
        BY <1>1 DEF Sadd
    <2>3. CASE Cmd(p).key = Subs(ch) /\ Cmd(p).arg = c
        <3>1. PICK j \in DOMAIN proc[p].plan :
                 /\ j > 1 /\ j + 1 \in DOMAIN proc[p].plan
                 /\ proc[p].plan[j] = get(ch) /\ proc[p].plan[j + 1] = post(c, ch)
            BY <2>1, <2>3 DEF Ordered, PlansInOrder, SnapshotFollows
        <3>2. NoOpenPost(Tail(proc[p].plan))
            BY <2>1 DEF MovesBy
        <3>3. /\ AllRead(proc'[p].plan) /\ proc'[p].plan \in Seq(Commands)
              /\ j \in Nat /\ Len(<<>>) = 0
            BY <2>1, <3>1, <3>2, MovedPlan, PlanDomain, EmptySeq DEF Ordered
        <3>4. \E i \in DOMAIN proc'[p].plan : proc'[p].plan[i] = post(c, ch)
            <4>1. j + 1 > 1
                BY <3>1, <3>3
            <4> QED BY <2>1, <3>1, <4>1, MovedPlan DEF Ordered
        <3>5. \A plan \in Seq(Commands) : (\E k \in DOMAIN plan : plan[k] = post(c, ch)) => <<c, ch>> \in Owed(plan)
            BY OwedMeans
        <3>6. <<c, ch>> \in Owed(proc'[p].plan)
            BY <3>3, <3>4, <3>5
        <3> QED BY <3>3, <3>6, OwingServes
    <2>4. CASE ~(Cmd(p).key = Subs(ch) /\ Cmd(p).arg = c)
        BY <1>0, <2>1, <2>2, <2>4
    <2> QED BY <2>3, <2>4
<1>2. CASE Post(p)
    <2>1. sock' = sock /\ store' = store
        BY <1>2 DEF Post
    <2>2. CASE <<c, ch>> \in missed
        <3>1. /\ Cmd(p).conn = c /\ Cmd(p).ch = ch /\ proc[p].val = val[ch]
            BY <1>2, <2>2, PostFacts
        <3>2. best'[c][ch] >= val[ch] /\ best'[c][ch] <= val[ch]
            BY <1>2, <2>1, <3>1, PostFacts
        <3>3. best'[c][ch] \in Nat
            BY <1>2, BestTyped
        <3> QED BY <1>0, <3>2, <3>3
    <2> QED BY <2>1, <2>2
<1>3. CASE Srem(p) \/ Del(p)
    <2>1. PICK S \in SUBSET store[Cmd(p).key] : SetKey(Cmd(p).key, S)
        BY <1>3, RemoveFacts
    <2>2. \A j \in Keys : store'[j] \subseteq store[j]
        BY <2>1 DEF SetKey, Ordered, WsType, StoreTyped
    <2>3. sock' = sock /\ missed' = missed
        BY <1>3 DEF Srem, Del
    <2> QED BY <1>0, <2>2, <2>3
<1>4. CASE Accept(p)
    <2>1. store' = store /\ missed' = missed /\ (sock'[c] # sock[c] => sock[c] = "opening")
        BY <1>4, AcceptOrdered DEF Accept
    <2>2. Met(sock, c)
        BY <2>1 DEF Ordered, ListedMet
    <2> QED BY <2>1, <2>2 DEF Met
<1>5. CASE Expire(p) \/ ChannelsOf(p) \/ SubscribersOf(p) \/ Get(p) \/ Reap(p)
    BY <1>5 DEF Expire, ChannelsOf, SubscribersOf, Get, Reap
<1>6. CASE Ignore(p)
    <2>1. sock' = sock /\ store' = store /\ missed \subseteq missed'
        BY <1>6, IgnoreMoves DEF Ignore
    <2> QED BY <2>1
<1> QED BY <1>1, <1>2, <1>3, <1>4, <1>5, <1>6 DEF Step

LEMMA StepServed ==
    ASSUME Ordered, ValuesBounded, Served, NEW p \in Procs, Step(p) \/ Ignore(p)
    PROVE  Served'
<1> SUFFICES ASSUME NEW c \in Conns, NEW ch \in Pushed,
                    sock'[c] = "open", c \in store'[Subs(ch)], <<c, ch>> \notin missed'
             PROVE  best'[c][ch] = val'[ch] \/ \E q \in Procs : WillServe(q, c, ch)'
    BY DEF Served
<1>0. ch \in Channels /\ val' = val
    BY PushedAreChannels, StepHoldsRead
<1>1. \A q \in Procs : q # p => proc'[q] = proc[q]
    <2>1. PICK pre, t, m : MovesBy(p, pre, t, m)
        BY StepHoldsRead
    <2> QED BY <2>1 DEF MovesBy
<1>2. CASE sock[c] = "open" /\ c \in store[Subs(ch)] /\ <<c, ch>> \notin missed
    <2>1. best[c][ch] = val[ch] \/ \E q \in Procs : WillServe(q, c, ch)
        BY <1>2 DEF Served
    <2>2. CASE best[c][ch] = val[ch]
        <3>1. best'[c][ch] = val[ch]
            <4>1. CASE Post(p)
                <5>1. best'[c][ch] >= best[c][ch] /\ best'[c][ch] <= val[ch]
                    BY <1>0, <4>1, PostFacts
                <5>2. best'[c][ch] \in Nat /\ val[ch] \in Nat
                    BY <1>0, <4>1, BestTyped DEF Ordered, WsType
                <5> QED BY <2>2, <5>1, <5>2
            <4>2. CASE ~Post(p)
                BY <2>2, <4>2
                DEF Step, Sadd, Srem, Del, Expire, ChannelsOf, SubscribersOf, Get, Reap, Accept, Ignore
            <4> QED BY <4>1, <4>2
        <3> QED BY <1>0, <3>1
    <2>3. ASSUME NEW q \in Procs, q # p, WillServe(q, c, ch) PROVE WillServe(q, c, ch)'
        BY <1>0, <1>1, <2>3 DEF WillServe
    <2>4. CASE WillServe(p, c, ch)
        BY <1>0, <1>2, <2>4, StepServes
    <2> QED BY <2>1, <2>2, <2>3, <2>4
<1>3. CASE ~(sock[c] = "open" /\ c \in store[Subs(ch)] /\ <<c, ch>> \notin missed)
    BY <1>0, <1>3, NewlyListed
<1> QED BY <1>2, <1>3

\* Steps that list nobody, send nothing and end no plan but one whose posts count
\* as missed.
LEMMA QuietServed ==
    ASSUME Served, val' = val, best' = best, missed \subseteq missed',
           \A c \in Conns : sock'[c] = "open" => sock[c] = "open",
           \A ch \in Channels : store'[Subs(ch)] \subseteq store[Subs(ch)],
           \A q \in Procs, c \in Conns, ch \in Channels :
              WillServe(q, c, ch) => <<c, ch>> \in missed' \/ proc'[q] = proc[q]
    PROVE  Served'
<1> SUFFICES ASSUME NEW c \in Conns, NEW ch \in Pushed,
                    sock'[c] = "open", c \in store'[Subs(ch)], <<c, ch>> \notin missed'
             PROVE  best'[c][ch] = val'[ch] \/ \E q \in Procs : WillServe(q, c, ch)'
    BY DEF Served
<1>0. ch \in Channels
    BY PushedAreChannels
<1>1. best[c][ch] = val[ch] \/ \E q \in Procs : WillServe(q, c, ch)
    BY <1>0 DEF Served
<1>2. ASSUME NEW q \in Procs, WillServe(q, c, ch) PROVE WillServe(q, c, ch)'
    <2>1. proc'[q] = proc[q]
        BY <1>0, <1>2
    <2> QED BY <1>2, <2>1 DEF WillServe
<1> QED BY <1>1, <1>2

FeedInv == Ordered /\ ValuesBounded /\ Served

\* Invocations that start.
LEMMA StartServed ==
    ASSUME FeedInv, NEW p \in Procs, NEW plan \in Whole, Start(p, plan),
           \A c \in Conns : sock'[c] = "open" => sock[c] = "open",
           UNCHANGED <<store, val, best, missed>>
    PROVE  ValuesBounded' /\ Served'
<1>1. plan \in Seq(Commands) /\ AllRead(plan)
    BY DEF Whole
<1>2. /\ proc'[p].plan = plan /\ proc[p].plan = <<>>
      /\ \A q \in Procs : q # p => proc'[q] = proc[q]
    <2>1. GoesOn(p, plan, 0, {}) /\ proc[p].plan = <<>>
        BY DEF Start, Free
    <2> QED BY <1>1, <2>1, StartFacts DEF FeedInv, Ordered
<1>3. val' \in [Channels -> Nat] /\ \A ch \in Channels : val'[ch] >= val[ch]
    BY DEF FeedInv, Ordered, WsType
<1>4. ValuesBounded'
    BY <1>1, <1>2, <1>3, StartValues DEF FeedInv
<1>5. \A c \in Conns, ch \in Channels : ~WillServe(p, c, ch)
    BY <1>2, EmptySeq DEF WillServe
<1>6. Served'
    BY <1>2, <1>5, QuietServed DEF FeedInv
<1> QED BY <1>4, <1>6

LEMMA FeedInvNext ==
    ASSUME FeedInv, [WsNext]_wsVars
    PROVE  FeedInv'
<1>0. Ordered' /\ Ordered /\ ValuesBounded /\ Served
    BY OrderedNext DEF FeedInv
<1> SUFFICES ValuesBounded' /\ Served'
    BY <1>0 DEF FeedInv
<1>1. ASSUME NEW p \in Procs, Step(p) \/ Ignore(p) PROVE ValuesBounded' /\ Served'
    BY <1>0, <1>1, StepValues, StepServed
<1>2. ASSUME NEW p \in Procs, Abort(p) PROVE ValuesBounded' /\ Served'
    <2>1. /\ proc' = [proc EXCEPT ![p] = Idle] /\ UNCHANGED <<store, val, best>>
          /\ missed' = missed \cup Owed(proc[p].plan)
        BY <1>2 DEF Abort
    <2>2. \A c \in Conns : sock'[c] = "open" => sock[c] = "open"
        BY <1>0, <1>2, AbortOrdered
    <2>3. Idle.plan = <<>> /\ <<>> \in Seq(Commands) /\ DOMAIN (<<>>) = {}
        BY EmptySeq DEF Idle
    <2>4. /\ proc'[p] = Idle /\ \A q \in Procs : q # p => proc'[q] = proc[q]
        BY <1>0, <2>1 DEF Ordered, WsType
    <2>5. AllRead(proc'[p].plan) /\ proc'[p].plan \in Seq(Commands)
        BY <2>3, <2>4 DEF AllRead
    <2>6. val' \in [Channels -> Nat] /\ \A ch \in Channels : val'[ch] >= val[ch]
        BY <1>0, <2>1 DEF Ordered, WsType
    <2>7. ValuesBounded'
        BY <1>0, <2>1, <2>4, <2>5, <2>6, StartValues
    <2>8. \A c \in Conns, ch \in Channels : WillServe(p, c, ch) => <<c, ch>> \in missed'
        BY <1>0, <2>1, ServingOwes
    <2>9. Served'
        BY <1>0, <2>1, <2>2, <2>4, <2>8, QuietServed
    <2> QED BY <2>7, <2>9
<1>3. ASSUME NEW p \in Handlers, NEW c \in Conns,
             Connect(p, c) \/ Close(p, c) \/ \E msg \in Messages : Send(p, c, msg)
      PROVE  ValuesBounded' /\ Served'
    <2>1. /\ handle_connect(c) \in Whole /\ handle_disconnect(c) \in Whole
          /\ \A msg \in Messages : handle_default(c, msg) \in Whole
        BY ConnectIsWhole, DisconnectIsWhole, DefaultIsOwn DEF Removals, OwnPlans
    <2>2. PICK plan \in Whole : Start(p, plan)
        BY <1>3, <2>1 DEF Connect, Close, Send
    <2>3. UNCHANGED <<store, val, best, missed>>
        BY <1>3 DEF Connect, Close, Send
    <2>4. \A d \in Conns : sock'[d] = "open" => sock[d] = "open"
        BY <1>0, <1>3 DEF Connect, Close, Send, Ordered, WsType
    <2>5. p \in Procs
        BY DEF Procs
    <2> QED BY <2>2, <2>3, <2>4, <2>5, StartServed
<1>4. ASSUME NEW p \in Pushers, NEW written \in Writes, Order(p, written)
      PROVE  ValuesBounded' /\ Served'
    <2>1. /\ Start(p, push_ws_updates) /\ UNCHANGED <<sock, store, best, missed>> /\ p \in Procs
          /\ val' = [ch \in Channels |-> IF ch \in written THEN val[ch] + 1 ELSE val[ch]]
        BY <1>4 DEF Order, Procs
    <2>2. push_ws_updates \in Seq(Commands) /\ AllRead(push_ws_updates)
        BY PushIsWhole DEF PushPlans, Whole
    <2>3. /\ proc'[p].plan = push_ws_updates
          /\ \A q \in Procs : q # p => proc'[q] = proc[q]
        <3>1. GoesOn(p, push_ws_updates, 0, {})
            BY <2>1 DEF Start
        <3> QED BY <1>0, <2>1, <2>2, <3>1, StartFacts DEF Ordered
    <2>4. val' \in [Channels -> Nat] /\ \A ch \in Channels : val'[ch] >= val[ch]
        <3>1. val \in [Channels -> Nat]
            BY <1>0 DEF Ordered, WsType
        <3> QED BY <2>1, <3>1
    <2>5. ValuesBounded'
        BY <1>0, <2>1, <2>2, <2>3, <2>4, StartValues
    <2>6. \A c \in Conns, ch \in Pushed : WillServe(p, c, ch)'
        BY <2>3, PushIsWhole DEF WillServe
    <2>7. Served'
        BY <2>1, <2>6 DEF Served
    <2> QED BY <2>5, <2>7
<1>5. ASSUME proc' = proc, UNCHANGED <<val, best, missed>>,
             \A c \in Conns : sock'[c] = "open" => sock[c] = "open",
             \A ch \in Channels : store'[Subs(ch)] \subseteq store[Subs(ch)]
      PROVE  ValuesBounded' /\ Served'
    <2>1. ValuesBounded'
        BY <1>0, <1>5 DEF ValuesBounded
    <2>2. Served'
        BY <1>0, <1>5, QuietServed
    <2> QED BY <2>1, <2>2
<1>6. ASSUME NEW c \in Conns, CloseUnseen(c) PROVE ValuesBounded' /\ Served'
    <2>1. \A d \in Conns : sock'[d] = "open" => sock[d] = "open"
        BY <1>0, <1>6 DEF CloseUnseen, Ordered, WsType
    <2> QED BY <1>5, <1>6, <2>1 DEF CloseUnseen
<1>7. ASSUME NEW k \in Keys, Lapse(k) PROVE ValuesBounded' /\ Served'
    <2>1. \A ch \in Channels : store'[Subs(ch)] \subseteq store[Subs(ch)]
        BY <1>0, <1>7, LapseFacts, KeysDiffer
    <2>2. proc' = proc /\ UNCHANGED <<sock, val, best, missed>>
        BY <1>7 DEF Lapse
    <2> QED BY <1>5, <2>1, <2>2
<1>8. CASE UNCHANGED wsVars
    <2>1. proc' = proc /\ UNCHANGED <<sock, store, val, best, missed>>
        BY <1>8 DEF wsVars
    <2> QED BY <1>5, <2>1
<1> QED BY <1>1, <1>2, <1>3, <1>4, <1>6, <1>7, <1>8 DEF WsNext

\* A connection that is listed has been sent the newest value or somebody is still
\* to send it, for any number of handlers and pushers that interleave: SADD comes
\* before the snapshot's GET, and the cache is written before the push's SMEMBERS.
THEOREM SubscribersMissNothing == WsSpec => []ListedIsServed
<1>1. WsInit => FeedInv
    <2> SUFFICES ASSUME WsInit PROVE FeedInv
        OBVIOUS
    <2>1. Ordered
        BY OrderedInit
    <2>2. \A p \in Procs : proc[p].plan = <<>>
        BY DEF WsInit, Idle
    <2>3. ValuesBounded
        <3>1. \A c \in Conns, ch \in Channels : best[c][ch] = 0 /\ val[ch] = 0
            BY DEF WsInit
        <3> QED BY <2>2, <3>1, EmptySeq DEF ValuesBounded
    <2>4. Served
        <3>1. \A c \in Conns : sock[c] # "open"
            BY DEF WsInit
        <3> QED BY <3>1 DEF Served
    <2> QED BY <2>1, <2>3, <2>4 DEF FeedInv
<1>2. FeedInv => ListedIsServed
    BY ServingOwes, PushedAreChannels DEF FeedInv, Served, ListedIsServed
<1> QED BY <1>1, <1>2, FeedInvNext, PTL DEF WsSpec

===============================================================================
