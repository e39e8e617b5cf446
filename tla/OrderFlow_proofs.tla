--------------------------- MODULE OrderFlow_proofs ---------------------------
(***************************************************************************)
(* Theorems about the inline order path of OrderFlow: what PostgreSQL and  *)
(* the published book show while invocations run concurrently, fail or die.*)
(***************************************************************************)
EXTENDS OrderFlow, MatchOrder_proofs

-------------------------------------------------------------------------------
(* Whatever the invocations do, the book sees steps of MatchOrder only.    *)

LEMMA FlowStep ==
    ASSUME [FlowNext]_flowVars
    PROVE  /\ [Next]_vars
           /\ \/ Script /\ UNCHANGED <<clientKey, phase, pg, snap, cached>>
              \/ vars' = vars /\ \E o \in OrderIds : Invocation(o) \/ Failure(o)
              \/ UNCHANGED flowVars
<1>1. CASE Script /\ UNCHANGED <<clientKey, phase, pg, snap, cached>>
  BY <1>1 DEF Next
<1>2. ASSUME NEW o \in OrderIds, Invocation(o) \/ Failure(o)
      PROVE  vars' = vars
  BY <1>2
  DEF Invocation, Failure, AnswerRejected, Persist, SkipPersist, SkipCache, TakeSnapshot,
      Publish, PersistFails, CacheFails, Die
<1>3. CASE UNCHANGED flowVars
  BY <1>3 DEF flowVars
<1> QED
  BY <1>1, <1>2, <1>3 DEF FlowNext

-------------------------------------------------------------------------------
(* What the database shows.                                                *)

\* The trades that the row of o shows.
Shown(o) == {t \in pgTrades : t.maker = o /\ t \notin missed}

\* The tables hold only what happened: an order gets its row, and its trades are
\* recorded, by the transaction that ends its first phase.
TablesType ==
    /\ row \in [OrderIds -> ReplyType \cup {NoRow}]
    /\ phase \in [OrderIds -> {"received", "persisted", "snapshot", "answered", "dead"}]
    /\ pgTrades \subseteq trades
    /\ missed \subseteq pgTrades
    /\ \A t \in pgTrades : phase[t.taker] # "received"
    /\ \A o \in OrderIds :
          row[o] # NoRow => phase[o] # "received" /\ reply[o].status \in OrderStatuses

\* A fill recorded before its maker's row was there is missed for good.
MissedForGood == \A t \in pgTrades : row[t.maker] = NoRow => t \in missed

\* A row is the reply less the fills it shows, and its status follows.
RowTells ==
    \A o \in OrderIds :
        row[o] # NoRow =>
            /\ row[o].remaining = reply[o].remaining - Units(Shown(o))
            /\ row[o].status \in OrderStatuses
            /\ row[o].status = "C" <=> reply[o].status = "C"
            /\ row[o].status # "C" => (row[o].status = "F" <=> row[o].remaining = 0)

FlowInv == BookInv /\ TablesType /\ MissedForGood /\ RowTells

LEMMA FlowInvInit == FlowInit => FlowInv
<1> SUFFICES ASSUME FlowInit PROVE FlowInv
  OBVIOUS
<1>1. BookInv
  BY BookInvInit DEF FlowInit
<1>2. TablesType /\ MissedForGood /\ RowTells
  BY DEF FlowInit, TablesInit, TablesType, MissedForGood, RowTells, Init
<1> QED
  BY <1>1, <1>2 DEF FlowInv

\* The script changes no row and no reply that has a row.
LEMMA FlowInvScript ==
    ASSUME FlowInv, [Next]_vars, UNCHANGED <<phase, pg>>
    PROVE  FlowInv'
<1>1. BookInv /\ BookInv' /\ BookType /\ Accounting
  BY BookInvNext DEF FlowInv, BookInv
<1>2. UNCHANGED <<row, pgTrades, missed, phase>>
  BY DEF pg, tables
<1>3. \A o \in OrderIds : reply[o].status \in OrderStatuses => reply'[o] = reply[o]
  BY <1>1, ReplyIsFinal, RejectedReply
<1>4. TablesType'
  BY <1>1, <1>2, <1>3, TradesOnlyGrow DEF FlowInv, TablesType
<1>5. MissedForGood'
  BY <1>2 DEF FlowInv, MissedForGood
<1>6. RowTells'
  <2>1. \A o \in OrderIds : Shown(o)' = Shown(o)
    BY <1>2 DEF Shown
  <2>2. \A o \in OrderIds : row[o] # NoRow => reply'[o] = reply[o]
    BY <1>3 DEF FlowInv, TablesType
  <2> QED
    BY <1>2, <2>1, <2>2 DEF FlowInv, RowTells
<1> QED
  BY <1>1, <1>4, <1>5, <1>6 DEF FlowInv

\* Steps of an invocation other than its transaction.
LEMMA FlowInvQuiet ==
    ASSUME FlowInv, vars' = vars, UNCHANGED pg,
           phase' \in [OrderIds -> {"received", "persisted", "snapshot", "answered", "dead"}],
           \A o \in OrderIds : phase[o] # "received" => phase'[o] # "received"
    PROVE  FlowInv'
<1>1. BookInv /\ BookInv'
  BY BookInvNext DEF FlowInv
<1>2. UNCHANGED <<row, pgTrades, missed, reply, trades>>
  BY DEF pg, tables, vars, history
<1>3. \A t \in pgTrades : t.taker \in OrderIds
  BY DEF FlowInv, TablesType, BookInv, BookType, TradeType
<1>4. TablesType'
  BY <1>2, <1>3 DEF FlowInv, TablesType
<1>5. MissedForGood' /\ RowTells'
  <2>1. \A o \in OrderIds : Shown(o)' = Shown(o)
    BY <1>2 DEF Shown
  <2> QED
    BY <1>2, <2>1 DEF FlowInv, MissedForGood, RowTells
<1> QED
  BY <1>1, <1>4, <1>5 DEF FlowInv

\* The transaction of o, row by row.
LEMMA PersistRow ==
    ASSUME FlowInv, NEW o \in OrderIds, Persist(o), NEW x \in OrderIds
    PROVE  /\ row'[x] \in ReplyType \cup {NoRow}
           /\ row'[x] = NoRow => row[x] = NoRow
           /\ row'[x] # NoRow => row[x] # NoRow \/ x = o
           /\ row'[x] # NoRow =>
                /\ row'[x].remaining = reply[x].remaining - Units(Shown(x)')
                /\ row'[x].status \in OrderStatuses
                /\ row'[x].status = "C" <=> reply[x].status = "C"
                /\ row'[x].status # "C" => (row'[x].status = "F" <=> row'[x].remaining = 0)
<1>1. /\ phase[o] = "received" /\ reply[o].status \in OrderStatuses
      /\ row'[x] = RowAfter(o, x)
      /\ pgTrades' = pgTrades \cup TradesOf(o)
      /\ missed' = missed \cup {t \in TradesOf(o) : row[t.maker] = NoRow}
      /\ trades' = trades /\ reply' = reply
  BY DEF Persist, Matched, vars, history
<1>2. row[o] = NoRow /\ BookInv
  BY <1>1 DEF FlowInv, TablesType
<1>3. \A t \in TradesOf(o) : t \in trades /\ t \notin pgTrades /\ t \in TradeType
  BY <1>1 DEF TradesOf, FlowInv, TablesType, BookInv, BookType
<1>4. /\ reply[x] \in ReplyType /\ reply[x].remaining \in Nat
      /\ row[x] \in ReplyType \cup {NoRow} /\ row[x].remaining \in Nat
  <2>1. reply[x] \in ReplyType
    BY DEF FlowInv, BookInv, BookType
  <2>2. row[x] \in ReplyType \cup {NoRow}
    BY DEF FlowInv, TablesType
  <2>3. NoRow.remaining = 0
    BY DEF NoRow
  <2> QED
    BY <2>1, <2>2, <2>3 DEF ReplyType
<1>5. NoRow.status \notin OrderStatuses
  BY DEF NoRow, OrderStatuses
<1>6. Shown(x) \subseteq {t \in trades : t.maker = x}
  BY DEF Shown, FlowInv, TablesType
<1>7. CASE row[x] = NoRow
  <2>1. Shown(x) = {} /\ Shown(x)' = {}
    BY <1>1, <1>7 DEF Shown, FlowInv, MissedForGood
  <2>2. Units(Shown(x)') = 0
    BY <2>1, UnitsEmpty
  <2>3. row'[x] = NoRow \/ (x = o /\ row'[x] = reply[x])
    BY <1>1, <1>7, <1>5 DEF RowAfter, Open, OrderStatuses
  <2>4. Reported(x)
    BY <1>2 DEF BookInv
  <2> QED
    BY <1>1, <1>4, <1>5, <1>7, <2>2, <2>3, <2>4 DEF Reported, OrderStatuses
<1>8. CASE row[x] # NoRow /\ ~\E t \in TradesOf(o) : t.maker = x
  <2>1. row'[x] = row[x] /\ x # o
    BY <1>1, <1>2, <1>8 DEF RowAfter
  <2>2. Shown(x)' = Shown(x)
    BY <1>1, <1>3, <1>8 DEF Shown
  <2> QED
    BY <1>4, <1>8, <2>1, <2>2 DEF FlowInv, RowTells
<1>9. CASE row[x] # NoRow /\ \E t \in TradesOf(o) : t.maker = x
  <2>1. x # o
    BY <1>2, <1>9
  <2> DEFINE t == CHOOSE t \in TradesOf(o) : t.maker = x
  <2>2. t \in TradesOf(o) /\ t.maker = x
    BY <1>9
  <2> HIDE DEF t
  <2>3. \A u \in TradesOf(o) : u.maker = x => u = t
    BY <1>2, <1>3, <2>2 DEF TradesOf, BookInv, TradesCounted
  <2>4. reply[x].status \in {"N", "PF"} /\ t.qty \in Nat /\ t.qty > 0
    BY <1>2, <1>3, <2>2 DEF BookInv, TradesCounted, TradeType
  <2>5. Shown(x)' = Shown(x) \cup {t} /\ t \notin Shown(x)
    <3>1. t \notin missed /\ t \notin pgTrades
      BY <1>3, <2>2 DEF FlowInv, TablesType
    <3>2. t \notin missed'
      BY <1>1, <1>9, <2>2, <3>1
    <3>3. \A u \in pgTrades : u \notin TradesOf(o)
      BY <1>3
    <3> QED
      BY <1>1, <2>2, <2>3, <3>1, <3>2, <3>3 DEF Shown
  <2>6. /\ Units(Shown(x)) \in Nat
        /\ Units(Shown(x)') = Units(Shown(x)) + t.qty
        /\ Units(Shown(x)') <= reply[x].remaining
    <3>1. t \in {u \in trades : u.maker = x} /\ t \in TradeType
      BY <1>3, <2>2
    <3>2. IsFiniteSet(Shown(x)) /\ Shown(x) \subseteq TradeType /\ Units(Shown(x)) \in Nat
      BY <1>2, <1>6, MadeFacts
    <3>3. Units(Shown(x) \cup {t}) = Units(Shown(x)) + t.qty
      BY <2>5, <3>1, <3>2, UnitsAdd
    <3>4. Shown(x) \cup {t} \subseteq {u \in trades : u.maker = x}
      BY <1>6, <3>1
    <3>5. Units(Shown(x) \cup {t}) <= MadeBy(x) /\ Units(Shown(x) \cup {t}) \in Nat
      BY <1>2, <3>4, MadeFacts
    <3>6. /\ MadeBy(x) \in Nat /\ Left(x) \in Nat
          /\ MadeBy(x) + Left(x) <= reply[x].remaining
      BY <1>2, <2>4, MakerBound
    <3>7. Units(Shown(x) \cup {t}) <= reply[x].remaining
      BY <1>4, <3>5, <3>6
    <3> QED
      BY <2>5, <3>2, <3>3, <3>7
  <2>7. /\ row[x].remaining = reply[x].remaining - Units(Shown(x))
        /\ row[x].status \in OrderStatuses
        /\ row[x].status = "C" <=> reply[x].status = "C"
        /\ row[x].status # "C" => (row[x].status = "F" <=> row[x].remaining = 0)
    BY <1>9 DEF FlowInv, RowTells
  <2>8. row[x].status # "C" /\ reply[x].status # "C"
    BY <2>4, <2>7
  <2>9. row[x].remaining - t.qty >= 0 /\ row[x].remaining > 0
    BY <1>4, <2>4, <2>6, <2>7
  <2>10. Open(row[x])
    BY <2>7, <2>8, <2>9 DEF Open, OrderStatuses
  <2>11. row'[x] = Applied(row[x], t.qty)
    BY <1>1, <1>9, <2>1, <2>10 DEF RowAfter, t
  <2> DEFINE n == row[x].remaining - t.qty
  <2>12. n \in Nat /\ Greatest0(n) = n
    BY <1>4, <2>4, <2>9 DEF Greatest0
  <2>13. row'[x] = [remaining |-> n, status |-> IF n = 0 THEN "F" ELSE "PF"]
    BY <2>11, <2>12 DEF Applied
  <2>14. n = reply[x].remaining - Units(Shown(x)')
    BY <1>4, <2>4, <2>6, <2>7
  <2>15. row'[x] \in ReplyType
    BY <2>12, <2>13 DEF ReplyType, Statuses, OrderStatuses
  <2>16. row'[x] # NoRow
    <3>1. row'[x].status \in OrderStatuses
      BY <2>13 DEF OrderStatuses
    <3> QED
      BY <1>5, <3>1
  <2> HIDE DEF n
  <2> QED
    BY <1>9, <2>8, <2>13, <2>14, <2>15, <2>16 DEF OrderStatuses
<1> QED
  BY <1>7, <1>8, <1>9

LEMMA FlowInvPersist ==
    ASSUME FlowInv, NEW o \in OrderIds, Persist(o)
    PROVE  FlowInv'
<1>1. /\ phase[o] = "received" /\ reply[o].status \in OrderStatuses
      /\ row' = [x \in OrderIds |-> RowAfter(o, x)]
      /\ pgTrades' = pgTrades \cup TradesOf(o)
      /\ missed' = missed \cup {t \in TradesOf(o) : row[t.maker] = NoRow}
      /\ phase' = [phase EXCEPT ![o] = "persisted"]
      /\ UNCHANGED <<trades, reply>> /\ vars' = vars
  BY DEF Persist, Matched, vars, history
<1>2. BookInv /\ BookInv'
  BY <1>1, BookInvNext DEF FlowInv
<1>3. \A x \in OrderIds :
        /\ row'[x] \in ReplyType \cup {NoRow}
        /\ row'[x] = NoRow => row[x] = NoRow
        /\ row'[x] # NoRow => row[x] # NoRow \/ x = o
  BY PersistRow
<1>4. \A t \in trades : t.taker \in OrderIds /\ t.maker \in OrderIds
  BY <1>2 DEF BookInv, BookType, TradeType
<1>5. \A x \in OrderIds : phase'[x] = IF x = o THEN "persisted" ELSE phase[x]
  BY <1>1 DEF FlowInv, TablesType
<1>6. TablesType'
  <2>1. row' \in [OrderIds -> ReplyType \cup {NoRow}]
    BY <1>1, <1>3
  <2>2. phase' \in [OrderIds -> {"received", "persisted", "snapshot", "answered", "dead"}]
    BY <1>1 DEF FlowInv, TablesType
  <2>3. pgTrades' \subseteq trades' /\ missed' \subseteq pgTrades'
    BY <1>1 DEF FlowInv, TablesType, TradesOf
  <2>4. \A t \in pgTrades' : phase'[t.taker] # "received"
    BY <1>1, <1>4, <1>5 DEF FlowInv, TablesType, TradesOf
  <2>5. \A x \in OrderIds :
          row'[x] # NoRow => phase'[x] # "received" /\ reply'[x].status \in OrderStatuses
    BY <1>1, <1>3, <1>5 DEF FlowInv, TablesType
  <2> QED
    BY <2>1, <2>2, <2>3, <2>4, <2>5 DEF TablesType
<1>7. MissedForGood'
  <2>1. pgTrades \subseteq trades /\ TradesOf(o) \subseteq trades
    BY DEF FlowInv, TablesType, TradesOf
  <2> QED
    BY <1>1, <1>3, <1>4, <2>1 DEF FlowInv, MissedForGood
<1>8. RowTells'
  BY <1>1, PersistRow DEF RowTells
<1> QED
  BY <1>2, <1>6, <1>7, <1>8 DEF FlowInv

LEMMA FlowInvNext == FlowInv /\ [FlowNext]_flowVars => FlowInv'
<1> SUFFICES ASSUME FlowInv, [FlowNext]_flowVars PROVE FlowInv'
  OBVIOUS
<1>1. [Next]_vars
  BY FlowStep
<1>2. CASE UNCHANGED <<phase, pg>>
  BY <1>1, <1>2, FlowInvScript
<1>3. ASSUME NEW o \in OrderIds, Persist(o) PROVE FlowInv'
  BY <1>3, FlowInvPersist
<1>4. ASSUME NEW o \in OrderIds, vars' = vars, UNCHANGED pg,
             NEW p \in {"persisted", "snapshot", "answered", "dead"},
             phase' = [phase EXCEPT ![o] = p]
      PROVE  FlowInv'
  <2>1. phase \in [OrderIds -> {"received", "persisted", "snapshot", "answered", "dead"}]
    BY DEF FlowInv, TablesType
  <2>2. phase' \in [OrderIds -> {"received", "persisted", "snapshot", "answered", "dead"}]
        /\ \A x \in OrderIds : phase[x] # "received" => phase'[x] # "received"
    BY <1>4, <2>1
  <2> QED
    BY <1>4, <2>2, FlowInvQuiet
<1>5. ASSUME NEW o \in OrderIds, AnswerRejected(o) \/ SkipCache(o) \/ Publish(o)
                                 \/ PersistFails(o) \/ CacheFails(o)
      PROVE  FlowInv'
  <2>1. vars' = vars /\ UNCHANGED pg /\ phase' = [phase EXCEPT ![o] = "answered"]
    BY <1>5 DEF AnswerRejected, SkipCache, Publish, PersistFails, CacheFails
  <2> QED
    BY <1>4, <2>1
<1>6. ASSUME NEW o \in OrderIds, SkipPersist(o) \/ TakeSnapshot(o) \/ Die(o)
      PROVE  FlowInv'
  <2>1. /\ vars' = vars /\ UNCHANGED pg
        /\ \/ phase' = [phase EXCEPT ![o] = "persisted"]
           \/ phase' = [phase EXCEPT ![o] = "snapshot"]
           \/ phase' = [phase EXCEPT ![o] = "dead"]
    BY <1>6 DEF SkipPersist, TakeSnapshot, Die
  <2> QED
    BY <1>4, <2>1
<1> QED
  BY <1>2, <1>3, <1>5, <1>6, FlowStep DEF Invocation, Failure, flowVars

\* In every behaviour of the inline path, failures and deaths included, a row lags
\* behind the book by exactly the fills that are not recorded or were recorded
\* before the row was there.
THEOREM RowLagIsExplained == FlowSpec => []RowLagExplained
<1>1. FlowInv => RowLagExplained
  <2> SUFFICES ASSUME FlowInv, NEW o \in OrderIds, row[o] # NoRow
               PROVE  /\ row[o].remaining = reply[o].remaining
                            - Units({t \in trades : t.maker = o} \ FillsNotInRow(o))
                      /\ row[o].status # "C" => (row[o].status = "F" <=> row[o].remaining = 0)
    BY DEF RowLagExplained
  <2>1. {t \in trades : t.maker = o} \ FillsNotInRow(o) = Shown(o)
    BY DEF FlowInv, TablesType, FillsNotInRow, Shown
  <2> QED
    BY <2>1 DEF FlowInv, RowTells
<1> QED
  BY <1>1, FlowInvInit, FlowInvNext, PTL DEF FlowSpec

\* The row of an order, what is left of it and what it has traded.
LEMMA RowAndBook ==
    ASSUME FlowInv, NEW o \in OrderIds, row[o] # NoRow
    PROVE  /\ row[o].remaining >= Left(o)
           /\ row[o].status = "F" => filled[o] = order[o].qty
<1>1. BookInv /\ reply[o].status \in OrderStatuses
  BY DEF FlowInv, TablesType
<1>2. /\ row[o].remaining = reply[o].remaining - Units(Shown(o))
      /\ row[o].status \in OrderStatuses
      /\ row[o].status = "C" <=> reply[o].status = "C"
      /\ row[o].status # "C" => (row[o].status = "F" <=> row[o].remaining = 0)
  BY DEF FlowInv, RowTells
<1>3. Shown(o) \subseteq {t \in trades : t.maker = o}
  BY DEF Shown, FlowInv, TablesType
<1>4. Units(Shown(o)) \in Nat /\ Units(Shown(o)) <= MadeBy(o)
  BY <1>1, <1>3, MadeFacts
<1>5. reply[o].remaining \in Nat /\ order[o].qty \in Nat
  BY <1>1, OrderFields DEF BookInv, BookType, ReplyType
<1>6. CASE reply[o].status = "C"
  <2>1. Shown(o) = {}
    BY <1>1, <1>3, <1>6 DEF BookInv, TradesCounted
  <2>2. Units(Shown(o)) = 0
    BY <2>1, UnitsEmpty
  <2>3. Left(o) = 0
    <3>1. order[o].side \in Sides
      BY <1>1, OrderFields DEF BookInv, BookType
    <3>2. o \notin zset[order[o].side] /\ ~(pc = "walk" /\ taker = o)
      BY <1>1, <1>6, <3>1 DEF BookInv, OpenBook, Accounting, TakerIsNew, NotSubmitted
    <3> QED
      BY <3>2 DEF Left
  <2> QED
    BY <1>2, <1>5, <1>6, <2>2, <2>3
<1>7. CASE reply[o].status # "C"
  <2>1. /\ MadeBy(o) \in Nat /\ Left(o) \in Nat
        /\ filled[o] = order[o].qty - reply[o].remaining + MadeBy(o)
        /\ MadeBy(o) + Left(o) <= reply[o].remaining
    BY <1>1, <1>7, MakerBound DEF OrderStatuses
  <2> QED
    BY <1>2, <1>4, <1>5, <1>7, <2>1
<1> QED
  BY <1>6, <1>7

\* On the inline path the database never shows less than the book still holds.
THEOREM RowsTrailBook == FlowSpec => []RowNeverBelowBook
<1>1. FlowInv => RowNeverBelowBook
  BY RowAndBook DEF RowNeverBelowBook
<1> QED
  BY <1>1, FlowInvInit, FlowInvNext, PTL DEF FlowSpec

\* On the inline path an order recorded as Filled has traded its whole quantity.
THEOREM FilledRowsAreFilled == FlowSpec => []FilledRowIsFilled
<1>1. FlowInv => FilledRowIsFilled
  <2>1. NoRow.status # "F"
    BY DEF NoRow
  <2> QED
    BY <2>1, RowAndBook DEF FilledRowIsFilled
<1> QED
  BY <1>1, FlowInvInit, FlowInvNext, PTL DEF FlowSpec

-------------------------------------------------------------------------------
(* What subscribers see.                                                   *)

\* The levels of the orders whose fetch was cut short.
CutLevels == {<<order[o].side, order[o].price>> : o \in cut}

\* Bids reach asks only at a level of E or at 0, the level of market orders.
UncrossedLevels(L, E) ==
    \A b, a \in L :
        (b[1] = "B" /\ a[1] = "S" /\ 0 \notin {b[2], a[2]} /\ b[2] >= a[2]) =>
            <<b[1], b[2]>> \in E \/ <<a[1], a[2]>> \in E

\* The snapshots that invocations hold, and the published one.
SnapshotsUncrossed ==
    /\ UncrossedLevels(cached, CutLevels)
    /\ \A o \in OrderIds : UncrossedLevels(snap[o], CutLevels)

PublishInv ==
    /\ BookType /\ Accounting /\ Uncrossed /\ WalkCovers
    /\ snap = [o \in OrderIds |-> snap[o]]
    /\ SnapshotsUncrossed

\* What is excused stays excused.
LEMMA CutGrows ==
    ASSUME [Next]_vars
    PROVE  order' = order /\ cut \subseteq cut' /\ CutLevels \subseteq CutLevels'
<1>1. order' = order /\ cut \subseteq cut'
  <2>1. CASE \E o \in OrderIds : Reject(o) \/ Begin(o) \/ Visit(o)
    BY <2>1 DEF Reject, Begin, Visit, SkipGhost, LeaveLoop, CancelMaker, Trade, history
  <2>2. CASE Finish
    BY <2>2 DEF Finish, history
  <2>3. CASE Maintenance \/ SweepFault
    BY <2>3
    DEF Maintenance, SweepFault, ExpireHash, RemoveZrem, RemoveDel, SweepScan, SweepExists,
        SweepZrem, SweepExistsFails, SweepZremFails, history
  <2>4. CASE UNCHANGED vars
    BY <2>4 DEF vars, history
  <2> QED
    BY <2>1, <2>2, <2>3, <2>4 DEF Next, Script
<1> QED
  BY <1>1 DEF CutLevels

LEMMA MoreExcused ==
    ASSUME NEW L, NEW E, NEW F, E \subseteq F, UncrossedLevels(L, E)
    PROVE  UncrossedLevels(L, F)
BY DEF UncrossedLevels

\* A level of the snapshot other than 0 stands for a live limit order of its side
\* and price.
LEMMA LevelIsLive ==
    ASSUME BookType, Accounting, NEW l \in Snapshot, l[2] # 0
    PROVE  \E o \in Resting(l[1]) :
             /\ order[o].side = l[1] /\ order[o].price = l[2] /\ l[2] \in Int
             /\ order[o].type = "L" /\ l[1] \in Sides
<1>0. PICK s \in Sides : \E o \in Top(s) :
         hash[o].remaining > 0 /\ l = <<s, order[o].price, Depth(s, order[o].price)>>
  BY DEF Snapshot
<1>1. PICK o \in Top(s) :
         hash[o].remaining > 0 /\ l = <<s, order[o].price, Depth(s, order[o].price)>>
  BY <1>0
<1>2. o \in zset[s] /\ l[1] = s /\ l[2] = order[o].price
  BY <1>1 DEF Top
<1>3. o \in OrderIds /\ hash[o] \in HashType /\ order[o] \in Requests /\ order[o].side = s
  BY <1>2 DEF BookType, Accounting, MembersSubmitted
<1>4. Live(o)
  BY <1>1, <1>3 DEF Live, HashType
<1>5. order[o].type = "L" /\ order[o].price \in Int
  BY <1>2, <1>3, OrderFields, RequestsAssumption DEF BookType
<1> QED
  BY <1>2, <1>3, <1>4, <1>5 DEF Resting

LEMMA SnapshotUncrossed ==
    ASSUME BookType, Accounting, Uncrossed
    PROVE  UncrossedLevels(Snapshot, CutLevels)
<1> SUFFICES ASSUME NEW b \in Snapshot, NEW a \in Snapshot, b[1] = "B", a[1] = "S",
                    b[2] # 0, a[2] # 0, b[2] >= a[2]
             PROVE  <<b[1], b[2]>> \in CutLevels \/ <<a[1], a[2]>> \in CutLevels
  BY DEF UncrossedLevels
<1>1. PICK x \in Resting("B") : /\ order[x].side = "B" /\ order[x].price = b[2]
                                /\ b[2] \in Int /\ order[x].type = "L"
  BY LevelIsLive
<1>2. PICK y \in Resting("S") : /\ order[y].side = "S" /\ order[y].price = a[2]
                                /\ a[2] \in Int /\ order[y].type = "L"
  BY LevelIsLive
<1>3. x \in cut \/ y \in cut
  BY <1>1, <1>2 DEF Uncrossed
<1> QED
  BY <1>1, <1>2, <1>3 DEF CutLevels

LEMMA SnapshotsUncrossedNext ==
    ASSUME PublishInv, [FlowNext]_flowVars
    PROVE  snap' = [o \in OrderIds |-> snap'[o]] /\ SnapshotsUncrossed'
<1>0. CutLevels \subseteq CutLevels'
  BY FlowStep, CutGrows
<1>1. ASSUME NEW o \in OrderIds, NEW v, UncrossedLevels(v, CutLevels),
             snap' = [snap EXCEPT ![o] = v], UncrossedLevels(cached', CutLevels)
      PROVE  snap' = [x \in OrderIds |-> snap'[x]] /\ SnapshotsUncrossed'
  <2>1. \A x \in OrderIds : snap'[x] = IF x = o THEN v ELSE snap[x]
    BY <1>1 DEF PublishInv
  <2>2. snap' = [x \in OrderIds |-> snap'[x]]
    BY <1>1, <2>1 DEF PublishInv
  <2>3. \A x \in OrderIds : UncrossedLevels(snap'[x], CutLevels)
    BY <1>1, <2>1 DEF PublishInv, SnapshotsUncrossed
  <2>4. \A x \in OrderIds : UncrossedLevels(snap'[x], CutLevels')
    BY <1>0, <2>3, MoreExcused
  <2>5. UncrossedLevels(cached', CutLevels')
    BY <1>0, <1>1, MoreExcused
  <2> QED
    BY <2>2, <2>4, <2>5 DEF SnapshotsUncrossed
<1>2. UncrossedLevels({}, CutLevels)
  BY DEF UncrossedLevels
<1>3. /\ UncrossedLevels(cached, CutLevels)
      /\ \A o \in OrderIds : UncrossedLevels(snap[o], CutLevels)
  BY DEF PublishInv, SnapshotsUncrossed
<1>4. CASE UNCHANGED <<snap, cached>>
  <2>1. \A o \in OrderIds : UncrossedLevels(snap[o], CutLevels')
    BY <1>0, <1>3, MoreExcused
  <2>2. UncrossedLevels(cached, CutLevels')
    BY <1>0, <1>3, MoreExcused
  <2> QED
    BY <1>4, <2>1, <2>2 DEF PublishInv, SnapshotsUncrossed
<1>5. ASSUME NEW o \in OrderIds, TakeSnapshot(o)
      PROVE  snap' = [x \in OrderIds |-> snap'[x]] /\ SnapshotsUncrossed'
  <2>1. UncrossedLevels(Snapshot, CutLevels)
    BY SnapshotUncrossed DEF PublishInv
  <2>2. snap' = [snap EXCEPT ![o] = Snapshot] /\ cached' = cached
    BY <1>5 DEF TakeSnapshot
  <2> QED
    BY <1>1, <1>3, <2>1, <2>2
<1>6. ASSUME NEW o \in OrderIds, Publish(o) \/ CacheFails(o) \/ Die(o)
      PROVE  snap' = [x \in OrderIds |-> snap'[x]] /\ SnapshotsUncrossed'
  <2>1. snap' = [snap EXCEPT ![o] = {}] /\ (cached' = snap[o] \/ cached' = cached)
    BY <1>6 DEF Publish, CacheFails, Die
  <2> QED
    BY <1>1, <1>2, <1>3, <2>1
<1>7. ASSUME NEW o \in OrderIds, \/ AnswerRejected(o) \/ Persist(o) \/ SkipPersist(o)
                                 \/ SkipCache(o) \/ PersistFails(o)
      PROVE  UNCHANGED <<snap, cached>>
  BY <1>7 DEF AnswerRejected, Persist, SkipPersist, SkipCache, PersistFails
<1> QED
  BY <1>4, <1>5, <1>6, <1>7 DEF FlowNext, Invocation, Failure, flowVars

\* However late an invocation publishes what it read, and whatever happened on the
\* book meanwhile, a published bid reaches a published ask only at the level of an
\* order whose fetch was cut short, or at 0, where market orders rest.
THEOREM PublishedIsUncrossed == FlowSpec => []PublishedBookUncrossed
<1>1. FlowInit => PublishInv
  <2> SUFFICES ASSUME FlowInit PROVE PublishInv
    OBVIOUS
  <2>1. BookType /\ Accounting
    BY BookTypeInit, AccountingInit DEF FlowInit
  <2>2. Uncrossed /\ WalkCovers
    BY DEF FlowInit, Init, Uncrossed, WalkCovers, Resting, Sides
  <2>3. snap = [o \in OrderIds |-> snap[o]] /\ SnapshotsUncrossed
    BY DEF FlowInit, SnapshotsUncrossed, UncrossedLevels
  <2> QED
    BY <2>1, <2>2, <2>3 DEF PublishInv
<1>2. PublishInv /\ [FlowNext]_flowVars => PublishInv'
  <2> SUFFICES ASSUME PublishInv, [FlowNext]_flowVars PROVE PublishInv'
    OBVIOUS
  <2>1. [Next]_vars
    BY FlowStep
  <2>2. BookType' /\ Accounting' /\ Uncrossed' /\ WalkCovers'
    BY <2>1, BookTypeNext, AccountingNext, UncrossedNext DEF PublishInv
  <2> QED
    BY <2>2, SnapshotsUncrossedNext DEF PublishInv
<1>3. PublishInv => PublishedBookUncrossed
  BY DEF PublishInv, SnapshotsUncrossed, UncrossedLevels, CutLevels, PublishedBookUncrossed
<1> QED
  BY <1>1, <1>2, <1>3, PTL DEF FlowSpec
===============================================================================
