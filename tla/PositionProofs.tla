---------------------------- MODULE PositionProofs ----------------------------
(***************************************************************************)
(* Settled records, one position per trade, and the hold order that goes   *)
(* with it, for every instance: the inductive invariants RecordBooks,      *)
(* Positions and SafetyNet of TraderProperties.                            *)
(***************************************************************************)
EXTENDS SellProofs

(***************************************************************************)
(* Settled records                                                         *)
(***************************************************************************)

\* A new trade's record is open, and so is a restored one's.
LEMMA FirstRecords ==
  ASSUME NEW t \in Trade
  PROVE  OpenRecord(NewTrade) /\ OpenRecord(Bought(t)) /\ OpenRecord(InitiateBuy(NewTrade))
<1> USE DEF OpenRecord, Kind, SellKind
<1>1. OpenRecord(NewTrade) BY DEF NewTrade
<1>2. InitiateBuy(NewTrade) = [status |-> "Created",
        slot |-> [k \in Kind |-> IF k = "SimpleBuy" THEN "Open" ELSE "None"]]
  BY DEF InitiateBuy, NewTrade
<1>3. OpenRecord(InitiateBuy(NewTrade)) BY <1>2
<1>4. OpenRecord(Bought(t))
  <2> DEFINE r == ConfirmBuy(InitiateBuy(NewTrade))
             ks == Exits[t] \ {"Emergency"}
  <2>1. r \in TradeRecord BY NewTradeType, RecordTypes
  <2>2. r.status = "Active" BY NewTradeType, RecordTypes, StatusUpdates
  <2>3. \A k \in SellKind : r.slot[k] = "None"
    BY <1>2 DEF ConfirmBuy
  <2>4. Bought(t) = InitiateSell(r, ks) BY DEF Bought
  <2> HIDE DEF r, ks
  <2>5. \A k \in SellKind : InitiateSell(r, ks).slot[k] \in {"Open", r.slot[k]}
    BY <2>1 DEF InitiateSell, TradeRecord
  <2>6. InitiateSell(r, ks).status = r.status BY <2>1, StatusUpdates
  <2> QED BY <2>2, <2>3, <2>4, <2>5, <2>6
<1> QED BY <1>1, <1>3, <1>4

\* Confirming the buy and registering sells leave a record open.
LEMMA StaysOpen ==
  ASSUME NEW r \in TradeRecord, OpenRecord(r)
  PROVE  /\ OpenRecord(ConfirmBuy(r))
         /\ \A ks \in SUBSET SellKind : OpenRecord(InitiateSell(r, ks))
<1> USE DEF OpenRecord, TradeRecord
<1>1. OpenRecord(ConfirmBuy(r))
  <2>1. \A k \in SellKind : ConfirmBuy(r).slot[k] = r.slot[k]
    BY DEF ConfirmBuy, Kind, SellKind
  <2>2. ConfirmBuy(r).status = "Active" BY StatusUpdates
  <2> QED BY <2>1, <2>2
<1>2. ASSUME NEW ks \in SUBSET SellKind PROVE OpenRecord(InitiateSell(r, ks))
  <2>1. \A k \in SellKind : InitiateSell(r, ks).slot[k] \in {"Open", r.slot[k]}
    BY DEF InitiateSell, Kind
  <2>2. InitiateSell(r, ks).status = r.status BY StatusUpdates
  <2> QED BY <2>1, <2>2
<1> QED BY <1>1, <1>2

\* Failing an open record settles it.
LEMMA FailSettles ==
  ASSUME NEW r \in TradeRecord, OpenRecord(r)
  PROVE  SettledRecord(Fail(r))
<1> USE DEF TradeRecord
<1>1. Fail(r).status = "Error" BY StatusUpdates
<1>2. \A k \in Kind : Fail(r).slot[k] = IF r.slot[k] = "Open" THEN "Cancelled" ELSE r.slot[k]
  BY DEF Fail
<1>3. \A k \in SellKind : Fail(r).slot[k] # "Completed" BY <1>2 DEF OpenRecord, Kind
<1>4. \A k \in Kind : Fail(r).slot[k] # "Open" BY <1>2
<1> QED BY <1>1, <1>3, <1>4 DEF SettledRecord

\* A sell of an open and bought record settles it: the sell that went through is the only
\* one completed, every other one is cancelled.
LEMMA SellSettles ==
  ASSUME NEW r \in TradeRecord, OpenRecord(r), r.slot["SimpleBuy"] = "Completed",
         NEW k \in SellKind
  PROVE  SettledRecord(Archive(ConfirmSell(r, k)))
<1> USE DEF TradeRecord
<1> DEFINE q == ConfirmSell(r, k)
           a == Archive(q)
           done(x) == {l \in SellKind : x.slot[l] = "Completed"}
<1>0. k \in Kind /\ SellKind \subseteq Kind /\ "SimpleBuy" \in Kind \ SellKind
  BY DEF Kind, SellKind
<1>1. q \in TradeRecord BY <1>0, RecordTypes
<1>2. \A l \in Kind : q.slot[l] = IF l = k THEN "Completed" ELSE r.slot[l]
  BY <1>0 DEF ConfirmSell
<1>3. done(q) = {k} BY <1>0, <1>2 DEF OpenRecord
<1>4. a.status = "Completed" BY <1>0, StatusUpdates
<1> HIDE DEF q
<1>5. CompletedSellOrder(q) = k BY <1>3 DEF CompletedSellOrder, SellKind
<1>6. k # "None" BY DEF SellKind
<1>7. a = [q EXCEPT !.slot = [l \in Kind |->
             IF l \in SellKind \ {k} /\ @[l] # "None" THEN "Cancelled" ELSE @[l]]]
  BY <1>5, <1>6 DEF Archive
<1>8. \A l \in Kind : a.slot[l] =
        IF l \in SellKind \ {k} /\ q.slot[l] # "None" THEN "Cancelled" ELSE q.slot[l]
  BY <1>1, <1>7
<1> HIDE DEF a
<1>9. a.slot["SimpleBuy"] = "Completed" BY <1>0, <1>2, <1>8
<1>10. \A l \in Kind : a.slot[l] # "Open" BY <1>0, <1>2, <1>8 DEF Kind
<1>11. done(a) = {k} BY <1>0, <1>2, <1>8
<1>12. Cardinality(done(a)) = 1 BY <1>11, FS_Singleton
<1> QED BY <1>4, <1>9, <1>10, <1>12 DEF SettledRecord, a, q

\* What a step adds to the history: the record of a trade that is being saved.
LEMMA HistoryMoves ==
  ASSUME TypeOK, [Next]_vars
  PROVE  \/ history' = history
         \/ \E t \in BeingSaved : history' = Append(history, [trade |-> t, record |-> trade[t]])
<1> HIDE DEF Hook, Job, Slot, Entry
<1>1. CASE \E t \in Trade : Open(t)
  BY <1>1 DEF Open, OpenDrop, OpenOrder, OpenSend, OpenInsert
<1>2. CASE \E o \in Order : HookStart(o) BY <1>2 DEF HookStart
<1>3. CASE \E h \in hooks : HookStep(h)
  <2>1. PICK h \in hooks : HookStep(h) BY <1>3
  <2>2. CASE HookSave(h)
    <3>1. h.order.trade \in BeingSaved BY <2>2 DEF HookSave, BeingSaved, SavingHooks
    <3> QED BY <2>2, <3>1 DEF HookSave, SaveInHistory
  <2>3. CASE ~HookSave(h)
    BY <2>1, <2>3 DEF HookStep, HookBuy, HookRegister, HookOrder, HookSend, HookWatch,
                      HookSell, HookEvict, HookCancel
  <2> QED BY <2>2, <2>3
<1>4. CASE FailLoop
  BY <1>4 DEF FailLoop, FailTake, FailEvict, FailSave, SaveInHistory, BeingSaved
<1>5. CASE SellLoop \/ \E p \in Pool : MarketTick(p)
  BY <1>5 DEF SellLoop, SellRegister, SellOrder, SellSend, MarketTick
<1>6. CASE UNCHANGED traderVars BY <1>6 DEF traderVars
<1>7. CASE UNCHANGED vars BY <1>7 DEF vars, traderVars
<1> QED BY <1>1, <1>2, <1>3, <1>4, <1>5, <1>6, <1>7 DEF Next

\* Every step leaves a record open, settles it, or leaves it alone.
LEMMA RecordsKept ==
  ASSUME TypeOK, Books, Sells, RecordBooks, [Next]_vars
  PROVE  RecordBooks'
<1> HIDE DEF Hook, Job, Slot, Entry
<1>1. trade \in [Trade -> TradeRecord] /\ history \in Seq(Entry)
  BY SavedTypes DEF TypeOK, TraderTypeOK
<1>2. ASSUME NEW t \in Trade PROVE OpenRecord(trade'[t]) \/ SettledRecord(trade'[t])
  <2>1. trade[t] \in TradeRecord /\ (OpenRecord(trade[t]) \/ SettledRecord(trade[t]))
    BY <1>1 DEF RecordBooks
  <2>2. t \in active => OpenRecord(trade[t])
    BY <2>1 DEF Books, OpenBooks, SettledRecord
  <2>3. t \in active /\ Confirmed(t) =>
          \A k \in SellKind : SettledRecord(Archive(ConfirmSell(trade[t], k)))
    BY <2>1, <2>2, SellSettles DEF Confirmed
  <2> QED BY <2>1, <2>2, <2>3, RecordSteps, FirstRecords, StaysOpen, FailSettles
<1>3. \/ history' = history
      \/ \E t \in BeingSaved : history' = Append(history, [trade |-> t, record |-> trade[t]])
  BY HistoryMoves
<1>4. \A i \in DOMAIN history : SettledRecord(history[i].record)
  BY DEF RecordBooks, SettledRecords, ValuesOf
<1>5. \A i \in DOMAIN history' : SettledRecord(history'[i].record)
  <2>1. CASE history' = history BY <1>4, <2>1
  <2>2. ASSUME NEW t \in BeingSaved,
               history' = Append(history, [trade |-> t, record |-> trade[t]])
        PROVE  \A i \in DOMAIN history' : SettledRecord(history'[i].record)
    <3> DEFINE e == [trade |-> t, record |-> trade[t]]
    <3>1. t \in Trade BY SavedTypes
    <3>2. e \in Entry /\ e.record = trade[t] BY <1>1, <3>1 DEF Entry
    <3>3. SettledRecord(trade[t])
      BY <3>1 DEF Books, OpenBooks, RecordBooks, OpenRecord
    <3> HIDE DEF e
    <3>4. history' = Append(history, e) BY <2>2 DEF e
    <3> QED BY <1>1, <1>4, <3>2, <3>3, <3>4, HistoryAppend
  <2> QED BY <1>3, <2>1, <2>2
<1> QED BY <1>2, <1>5 DEF RecordBooks, SettledRecords, ValuesOf

LEMMA InitRecords == Init => RecordBooks
<1> SUFFICES ASSUME NEW l \in Layouts, ExecutorInit(l), TraderInit(l)
             PROVE  RecordBooks
  BY DEF Init
<1>1. \A t \in Trade : OpenRecord(trade[t]) BY FirstRecords DEF TraderInit
<1> QED BY <1>1 DEF RecordBooks, SettledRecords, ValuesOf, TraderInit

\* Every record, saved or not, is open or settled.
THEOREM RecordsInv == Spec => []RecordBooks
<1>1. TypeOK /\ Books /\ Sells /\ RecordBooks /\ [Next]_vars => RecordBooks' BY RecordsKept
<1> QED BY <1>1, InitRecords, TypeCorrect, BooksKept, SellsKept, PTL DEF Spec

\* Whatever races for a trade, the record that reaches the history says one thing: sold by
\* exactly one of its sells with the others cancelled, or failed and not sold.
THEOREM SavedSettled == Spec => []SettledRecords
BY RecordsInv, PTL DEF RecordBooks

(***************************************************************************)
(* One buy: where it waits, and how often it lands                         *)
(***************************************************************************)

\* What the actors know of the buy of t: its places, and the types they rest on.
LEMMA BuyTypes ==
  ASSUME TypeOK, NEW t \in Trade
  PROVE  /\ OrderOf(t, "SimpleBuy") \in Order
         /\ chan \in Seq(Order) /\ DOMAIN chan = 1..Len(chan) /\ Len(chan) \in Nat
         /\ queue \in [Slot -> Order \cup {NoOrder}] /\ free \in Seq(Slot)
         /\ keys \in [Trade -> Slot \cup {0}] /\ cancels \in Seq(Trade)
         /\ jobs \subseteq Job /\ bought \in [Trade -> Nat] /\ NoOrder \notin Order
<1> HIDE DEF Hook, Job, Slot, Entry
<1>1. OrderOf(t, "SimpleBuy") \in Order BY OrderOfType DEF Kind
<1>2. chan \in Seq(Order) BY DEF TypeOK, ExecutorTypeOK
<1>3. DOMAIN chan = 1..Len(chan) /\ Len(chan) \in Nat BY <1>2, LenProperties
<1> QED BY <1>1, <1>2, <1>3, ExecutorAssumption DEF TypeOK, ExecutorTypeOK

\* A step that moves no buy of t.
LEMMA BuyFrame ==
  ASSUME TypeOK, NEW t \in Trade, OneBuyOf(t),
         UNCHANGED <<InChan(t), InQueue(t), ToRun(t), bought>>,
         \/ opening'[t] = opening[t]
         \/ opening[t] \in {"detected", "send"}
            /\ opening'[t] \in {"detected", "send", "insert", "dropped"}
         \/ opening[t] = "insert" /\ opening'[t] = "opened"
  PROVE  OneBuyOf(t)' /\ BuyCount(t)' <= BuyCount(t)
<1> HIDE DEF Hook, Job, Slot, Entry
<1>1. OneBuyOf(t)' BY DEF OneBuyOf
<1>2. BuyAhead(t)' => BuyAhead(t) BY DEF BuyAhead, OneBuyOf
<1>3. bought[t] \in Nat BY BuyTypes
<1> QED BY <1>1, <1>2, <1>3 DEF BuyCount

\* Calls of the executor with another order move no buy of t.
LEMMA OtherCalls ==
  ASSUME TypeOK, NEW t \in Trade, NEW o \in Order, o # OrderOf(t, "SimpleBuy"),
         Pushed(o) \/ Sent(o) \/ ExecutorIdle
  PROVE  UNCHANGED <<InChan(t), InQueue(t), ToRun(t), bought>>
<1> HIDE DEF Hook, Job, Slot, Entry
<1>1. CASE Pushed(o) BY <1>1 DEF Pushed, Push, InChan, InQueue, ToRun
<1>2. CASE Sent(o)
  <2>1. chan' = Append(chan, o) /\ UNCHANGED <<queue, jobs, bought>> BY <1>2 DEF Sent, Send
  <2>2. /\ DOMAIN chan' = 1..(Len(chan) + 1) /\ chan'[Len(chan) + 1] = o
        /\ \A i \in 1..Len(chan) : chan'[i] = chan[i]
    <3>1. /\ chan' \in Seq(Order) /\ Len(chan') = Len(chan) + 1
          /\ \A i \in 1..Len(chan) : chan'[i] = chan[i]
          /\ chan'[Len(chan) + 1] = o
      BY <2>1, BuyTypes, AppendProperties
    <3> QED BY <3>1, LenProperties
  <2>3. InChan(t)' = InChan(t)
    <3>1. \A i \in DOMAIN chan' : i \in DOMAIN chan \/ i = Len(chan) + 1
      BY <2>2, BuyTypes
    <3>2. DOMAIN chan \subseteq DOMAIN chan' BY <2>2, BuyTypes
    <3> QED BY <2>2, <3>1, <3>2, BuyTypes DEF InChan
  <2> QED BY <2>1, <2>3 DEF InQueue, ToRun
<1>3. CASE ExecutorIdle BY <1>3 DEF ExecutorIdle, executorVars, InChan, InQueue, ToRun
<1> QED BY <1>1, <1>2, <1>3

\* The executor loop hands the buy on, or loses it.
LEMMA BuyThroughLoop ==
  ASSUME TypeOK, NEW t \in Trade, OneBuyOf(t), UNCHANGED traderVars,
         \/ Receive \/ TakeCancel
         \/ \E s \in Slot : Expire(s) \/ ExpireDisabled(s)
  PROVE  OneBuyOf(t)' /\ BuyCount(t)' <= BuyCount(t)
<1> HIDE DEF Hook, Job, Slot, Entry
<1> DEFINE buy == OrderOf(t, "SimpleBuy")
<1>0. bought' = bought /\ opening' = opening /\ bought[t] \in Nat
  BY BuyTypes DEF Receive, TakeCancel, Expire, ExpireDisabled, traderVars
<1>1. ASSUME OneBuyOf(t)', BuyAhead(t)' => BuyAhead(t)
      PROVE  OneBuyOf(t)' /\ BuyCount(t)' <= BuyCount(t)
  BY <1>0, <1>1 DEF BuyCount
<1>2. ASSUME NEW s \in Slot, Vacate(s)
      PROVE  InQueue(t)' = InQueue(t) \ {s}
  <2>1. buy # NoOrder BY BuyTypes
  <2> HIDE DEF buy
  <2>2. \A r \in Slot : queue'[r] = IF r = s THEN NoOrder ELSE queue[r]
    BY <1>2, BuyTypes DEF Vacate
  <2> QED BY <2>1, <2>2 DEF InQueue, buy
<1>3. CASE Receive
  <2> DEFINE s == Head(free)
  <2>1. /\ chan # <<>> /\ free # <<>> /\ chan' = Tail(chan) /\ jobs' = jobs
        /\ queue' = [queue EXCEPT ![s] = Head(chan)]
    BY <1>3 DEF Receive
  <2>2. s \in Slot BY <2>1, BuyTypes, HeadTailProperties
  <2>3. /\ Head(chan) = chan[1] /\ 1 \in DOMAIN chan
        /\ DOMAIN chan' = 1..(Len(chan) - 1)
        /\ \A i \in DOMAIN chan' : chan'[i] = chan[i + 1] /\ i + 1 \in DOMAIN chan
    <3>1. /\ Head(chan) = chan[1] /\ Len(chan) \in Nat \ {0}
          /\ Tail(chan) \in Seq(Order) /\ Len(Tail(chan)) = Len(chan) - 1
          /\ \A i \in 1..Len(Tail(chan)) : Tail(chan)[i] = chan[i + 1]
      BY <2>1, BuyTypes, HeadTailProperties, LenProperties, EmptySeq
    <3>2. DOMAIN Tail(chan) = 1..(Len(chan) - 1) BY <3>1, LenProperties
    <3> QED BY <2>1, <3>1, <3>2, BuyTypes
  <2>4. ToRun(t)' = ToRun(t) BY <2>1 DEF ToRun
  <2>5. \A i \in InChan(t)' : i + 1 \in InChan(t) /\ i \in Nat \ {0}
    BY <2>3, BuyTypes DEF InChan
  <2>6. CASE Head(chan) = buy
    <3>1. InChan(t) = {1} BY <2>3, <2>6 DEF InChan, OneBuyOf
    <3>2. InChan(t)' = {} BY <2>5, <3>1
    <3>3. InQueue(t) = {} /\ ToRun(t) = {} /\ opening[t] \notin {"detected", "send"}
      BY <3>1 DEF OneBuyOf
    <3>4. InQueue(t)' = {s} BY <2>1, <2>2, <2>6, <3>3, BuyTypes DEF InQueue
    <3>5. OneBuyOf(t)' BY <1>0, <2>4, <3>2, <3>3, <3>4 DEF OneBuyOf
    <3> QED BY <1>1, <3>1, <3>5 DEF BuyAhead
  <2>7. CASE Head(chan) # buy
    <3>1. InQueue(t)' \subseteq InQueue(t) BY <2>1, <2>2, <2>7, BuyTypes DEF InQueue
    <3>2. \A i, j \in InChan(t)' : i = j BY <2>5 DEF OneBuyOf
    <3>3. InChan(t)' # {} => InChan(t) # {} BY <2>5
    <3>4. OneBuyOf(t)' BY <1>0, <2>4, <3>1, <3>2, <3>3 DEF OneBuyOf
    <3>5. BuyAhead(t)' => BuyAhead(t) BY <1>0, <2>4, <3>1, <3>3 DEF BuyAhead
    <3> QED BY <1>1, <3>4, <3>5
  <2> QED BY <2>6, <2>7
<1>4. CASE InChan(t)' = InChan(t) /\ InQueue(t)' \subseteq InQueue(t) /\ ToRun(t)' = ToRun(t)
  <2>1. OneBuyOf(t)' BY <1>0, <1>4 DEF OneBuyOf
  <2>2. BuyAhead(t)' => BuyAhead(t) BY <1>0, <1>4 DEF BuyAhead
  <2> QED BY <1>1, <2>1, <2>2
<1>5. CASE TakeCancel
  <2> DEFINE s == keys[Head(cancels)]
  <2>1. chan' = chan /\ jobs' = jobs BY <1>5 DEF TakeCancel
  <2>2. CASE s # 0 /\ queue[s] # NoOrder
    <3>1. Head(cancels) \in Trade BY <1>5, BuyTypes, HeadTailProperties DEF TakeCancel
    <3>2. s \in Slot BY <2>2, <3>1, BuyTypes
    <3>3. Vacate(s) BY <1>5, <2>2 DEF TakeCancel
    <3>4. InQueue(t)' \subseteq InQueue(t) BY <1>2, <3>2, <3>3
    <3> QED BY <1>4, <2>1, <3>4 DEF InChan, ToRun
  <2>3. CASE ~(s # 0 /\ queue[s] # NoOrder)
    BY <1>4, <1>5, <2>1, <2>3 DEF TakeCancel, InChan, ToRun, InQueue
  <2> QED BY <2>2, <2>3
<1>6. ASSUME NEW s \in Slot, ExpireDisabled(s)
      PROVE  OneBuyOf(t)' /\ BuyCount(t)' <= BuyCount(t)
  <2>1. InQueue(t)' \subseteq InQueue(t) BY <1>2, <1>6 DEF ExpireDisabled
  <2> QED BY <1>4, <1>6, <2>1 DEF ExpireDisabled, InChan, ToRun
<1>7. ASSUME NEW s \in Slot, Expire(s)
      PROVE  OneBuyOf(t)' /\ BuyCount(t)' <= BuyCount(t)
  <2> DEFINE new(id) == [id |-> id, order |-> queue[s], pc |-> "run", ok |-> FALSE]
  <2>1. InQueue(t)' = InQueue(t) \ {s} /\ chan' = chan BY <1>2, <1>7 DEF Expire
  <2>2. PICK id \in JobId : jobs' = jobs \cup {new(id)} BY <1>7 DEF Expire
  <2>3. new(id).order = queue[s] /\ new(id).pc = "run" OBVIOUS
  <2> HIDE DEF new
  <2>4. InChan(t)' = InChan(t) BY <2>1 DEF InChan
  <2>5. CASE queue[s] = buy
    <3>1. InQueue(t) = {s} BY <2>5 DEF InQueue, OneBuyOf
    <3>2. InChan(t) = {} /\ ToRun(t) = {} /\ opening[t] \notin {"detected", "send"}
      BY <3>1 DEF OneBuyOf
    <3>3. ToRun(t)' = {new(id)} BY <2>2, <2>3, <2>5, <3>2 DEF ToRun
    <3>4. OneBuyOf(t)' BY <1>0, <2>1, <2>4, <3>1, <3>2, <3>3 DEF OneBuyOf
    <3> QED BY <1>1, <3>1, <3>4 DEF BuyAhead
  <2>6. CASE queue[s] # buy
    <3>1. ToRun(t)' = ToRun(t) BY <2>2, <2>3, <2>6 DEF ToRun
    <3> QED BY <1>4, <2>1, <2>4, <3>1
  <2> QED BY <2>5, <2>6
<1> QED BY <1>3, <1>5, <1>6, <1>7

\* A job that runs a buy uses it up: it lands once, or not at all.
LEMMA BuyThroughJob ==
  ASSUME TypeOK, NEW t \in Trade, OneBuyOf(t), UNCHANGED traderVars,
         NEW j \in jobs, JobStep(j)
  PROVE  OneBuyOf(t)' /\ BuyCount(t)' <= BuyCount(t)
<1> HIDE DEF Hook, Slot, Entry
<1> DEFINE buy == OrderOf(t, "SimpleBuy")
<1>0. /\ j \in Job /\ bought[t] \in Nat /\ bought \in [Trade -> Nat] /\ opening' = opening
      /\ j.order \in Order /\ j.order.trade \in Trade
      /\ UNCHANGED <<chan, queue>>
  <2>1. j \in Job /\ bought \in [Trade -> Nat] BY BuyTypes
  <2>2. j.order \in Order BY <2>1 DEF Job
  <2>3. UNCHANGED <<chan, queue>> BY DEF JobStep, Run, Report, Retain, Evict
  <2> QED BY <2>1, <2>2, <2>3, OrderParts DEF traderVars
<1>1. InChan(t)' = InChan(t) /\ InQueue(t)' = InQueue(t) BY <1>0 DEF InChan, InQueue
<1>2. ToRun(t)' \subseteq ToRun(t) \ {j}
  <2>1. PICK pc \in {"report", "retain", "evict"}, ok \in BOOLEAN :
          \/ jobs' = jobs \ {j}
          \/ jobs' = (jobs \ {j}) \cup {[j EXCEPT !.pc = pc]}
          \/ jobs' = (jobs \ {j}) \cup {[j EXCEPT !.pc = pc, !.ok = ok]}
    BY DEF JobStep, Run, Report, Retain, Evict, Goto, End
  <2>2. [j EXCEPT !.pc = pc].pc = pc /\ [j EXCEPT !.pc = pc, !.ok = ok].pc = pc
    BY <1>0 DEF Job
  <2>3. \A i \in jobs' : i \in jobs \ {j} \/ i.pc = pc BY <2>1, <2>2
  <2> QED BY <2>3 DEF ToRun
<1>3. OneBuyOf(t)' BY <1>0, <1>1, <1>2 DEF OneBuyOf
<1>4. BuyAhead(t)' => BuyAhead(t) BY <1>0, <1>1, <1>2 DEF BuyAhead
<1>5. CASE bought'[t] = bought[t] BY <1>0, <1>3, <1>4, <1>5 DEF BuyCount
<1>6. CASE bought'[t] # bought[t]
  <2>1. Run(j)
    BY <1>6 DEF JobStep, Report, Retain, Evict
  <2>2. /\ j.pc = "run" /\ j.order.kind = "SimpleBuy"
        /\ bought' = [bought EXCEPT ![j.order.trade] = @ + 1]
    BY <1>6, <2>1 DEF Run, Land
  <2>3. j.order.trade = t /\ bought'[t] = bought[t] + 1
    BY <1>0, <1>6, <2>2
  <2>4. j.order = buy BY <1>0, <2>2, <2>3 DEF Order, OrderOf
  <2>5. j \in ToRun(t) BY <2>2, <2>4 DEF ToRun
  <2>6. /\ InChan(t) = {} /\ InQueue(t) = {} /\ ToRun(t) = {j}
        /\ opening[t] \notin {"detected", "send"}
    BY <2>5 DEF OneBuyOf
  <2>7. BuyAhead(t) /\ ~BuyAhead(t)' BY <1>0, <1>1, <1>2, <2>6 DEF BuyAhead
  <2> QED BY <1>0, <1>3, <2>3, <2>7 DEF BuyCount
<1> QED BY <1>5, <1>6

\* The task that opens a trade sends its buy once, and no other trade's.
LEMMA BuyOpens ==
  ASSUME TypeOK, NEW t \in Trade, OneBuyOf(t), NEW u \in Trade, Open(u)
  PROVE  OneBuyOf(t)' /\ BuyCount(t)' <= BuyCount(t)
<1> HIDE DEF Hook, Job, Slot, Entry
<1> DEFINE buy == OrderOf(t, "SimpleBuy")
           other == OrderOf(u, "SimpleBuy")
<1>0. /\ other \in Order /\ bought[t] \in Nat
      /\ opening \in [Trade -> {"detected", "send", "insert", "opened", "dropped"}]
  BY BuyTypes DEF TypeOK, TraderTypeOK
<1>1. Pushed(other) \/ Sent(other) \/ ExecutorIdle
  BY DEF Open, OpenDrop, OpenOrder, OpenSend, OpenInsert
<1>2. \/ opening' = [opening EXCEPT ![u] = "dropped"] /\ opening[u] \in {"detected", "send"}
      \/ opening' = [opening EXCEPT ![u] = "send"] /\ opening[u] \in {"detected", "send"}
      \/ opening' = [opening EXCEPT ![u] = "insert"] /\ opening[u] \in {"detected", "send"}
      \/ opening' = [opening EXCEPT ![u] = "opened"] /\ opening[u] = "insert"
  BY DEF Open, OpenDrop, OpenOrder, OpenSend, OpenInsert
<1>3. CASE u # t
  <2>1. other # buy BY <1>3 DEF OrderOf
  <2>2. opening'[t] = opening[t] BY <1>0, <1>2, <1>3
  <2> HIDE DEF buy, other
  <2> QED BY <1>0, <1>1, <2>1, <2>2, OtherCalls, BuyFrame DEF buy
<1>4. CASE u = t /\ ~Sent(other)
  <2>1. UNCHANGED <<InChan(t), InQueue(t), ToRun(t), bought>>
    BY <1>1, <1>4 DEF Pushed, Push, ExecutorIdle, executorVars, InChan, InQueue, ToRun
  <2> QED BY <1>0, <1>2, <1>4, <2>1, BuyFrame
<1>5. CASE u = t /\ Sent(other)
  <2>1. opening[t] \in {"detected", "send"} /\ opening'[t] = "insert"
    <3>1. OpenSend(u) /\ opening' = [opening EXCEPT ![u] = "insert"]
      <4>1. ~ExecutorIdle
        <5>1. chan' = Append(chan, other) /\ chan \in Seq(Order)
          BY <1>5, BuyTypes DEF Sent, Send
        <5>2. Len(chan') = Len(chan) + 1 /\ Len(chan) \in Nat
          BY <1>0, <5>1, AppendProperties, LenProperties
        <5>3. chan' # chan BY <5>2
        <5> QED BY <5>3 DEF ExecutorIdle, executorVars
      <4>2. ~Pushed(other)
        <5>1. chan' = Append(chan, other) /\ chan \in Seq(Order)
          BY <1>5, BuyTypes DEF Sent, Send
        <5>2. Len(chan') = Len(chan) + 1 /\ Len(chan) \in Nat
          BY <1>0, <5>1, AppendProperties, LenProperties
        <5>3. chan' # chan BY <5>2
        <5> QED BY <5>3 DEF Pushed
      <4> QED BY <4>1, <4>2 DEF Open, OpenDrop, OpenOrder, OpenSend, OpenInsert
    <3> QED BY <1>0, <1>5, <3>1 DEF OpenSend
  <2>2. InChan(t) = {} /\ InQueue(t) = {} /\ ToRun(t) = {} BY <2>1 DEF OneBuyOf
  <2>3. chan' = Append(chan, buy) /\ UNCHANGED <<queue, jobs, bought>>
    BY <1>5 DEF Sent, Send
  <2>4. InChan(t)' \subseteq {Len(chan) + 1}
    <3>1. /\ chan' \in Seq(Order) /\ Len(chan') = Len(chan) + 1
          /\ \A i \in 1..Len(chan) : chan'[i] = chan[i]
      BY <2>3, BuyTypes, AppendProperties
    <3>2. DOMAIN chan' = 1..(Len(chan) + 1) BY <3>1, LenProperties
    <3>3. \A i \in DOMAIN chan' : i \in DOMAIN chan \/ i = Len(chan) + 1
      BY <3>2, BuyTypes
    <3> QED BY <2>2, <3>1, <3>3, BuyTypes DEF InChan
  <2>5. InQueue(t)' = {} /\ ToRun(t)' = {} BY <2>2, <2>3 DEF InQueue, ToRun
  <2>6. OneBuyOf(t)' BY <2>1, <2>4, <2>5 DEF OneBuyOf
  <2>7. BuyAhead(t) BY <2>1 DEF BuyAhead
  <2>8. bought'[t] = bought[t] BY <2>3
  <2> QED BY <1>0, <2>6, <2>7, <2>8 DEF BuyCount
<1> QED BY <1>3, <1>4, <1>5

\* The seller is busy with sells only.
LEMMA SellerStaysSelling ==
  ASSUME TypeOK, SellerSells, [Next]_vars
  PROVE  SellerSells'
<1> HIDE DEF Hook, Job, Slot, Entry
<1>1. CASE SellLoop
  <2>1. \A s \in selling : [s EXCEPT !.pc = "order"].order = s.order
                           /\ [s EXCEPT !.pc = "send"].order = s.order
    BY DEF TypeOK, TraderTypeOK
  <2>2. \/ selling' = {}
        \/ \E s \in selling : \/ selling' = {[s EXCEPT !.pc = "order"]}
                              \/ selling' = {[s EXCEPT !.pc = "send"]}
    BY <1>1 DEF SellLoop, SellRegister, SellOrder, SellSend
  <2> QED BY <2>1, <2>2 DEF SellerSells
<1>2. CASE \E p \in Pool : MarketTick(p)
  <2>1. PICK p \in Pool : MarketTick(p) BY <1>2
  <2>2. \A i \in DOMAIN arrival : Triggers(arrival[i]) \subseteq SellKind
    <3>1. \A i \in DOMAIN arrival : arrival[i] \in Trade
      BY ElementOfSeq, LenProperties DEF TypeOK, TraderTypeOK
    <3> QED BY <3>1, TradesAssumption DEF Triggers, SellKind
  <2> QED BY <2>1, <2>2 DEF MarketTick, SellerSells, OrderOf
<1>3. CASE selling' = selling BY <1>3 DEF SellerSells
<1>4. SellLoop \/ (\E p \in Pool : MarketTick(p)) \/ selling' = selling
  <2>1. CASE \E t \in Trade : Open(t)
    BY <2>1 DEF Open, OpenDrop, OpenOrder, OpenSend, OpenInsert
  <2>2. CASE \E o \in Order : HookStart(o) BY <2>2 DEF HookStart
  <2>3. CASE \E h \in hooks : HookStep(h)
    BY <2>3 DEF HookStep, HookBuy, HookRegister, HookOrder, HookSend, HookWatch, HookSell,
                HookEvict, HookCancel, HookSave
  <2>4. CASE FailLoop BY <2>4 DEF FailLoop, FailTake, FailEvict, FailSave
  <2>5. CASE UNCHANGED traderVars BY <2>5 DEF traderVars
  <2>6. CASE UNCHANGED vars BY <2>6 DEF vars, traderVars
  <2> QED BY <2>1, <2>2, <2>3, <2>4, <2>5, <2>6 DEF Next
<1> QED BY <1>1, <1>2, <1>3, <1>4

\* Every step keeps the buy of each trade in one place at most, and lands it at most once.
LEMMA OneBuyKept ==
  ASSUME TypeOK, OneBuy, [Next]_vars
  PROVE  OneBuy' /\ \A t \in Trade : BuyCount(t)' <= BuyCount(t)
<1> HIDE DEF Hook, Job, Slot, Entry
<1>1. SellerSells' BY SellerStaysSelling DEF OneBuy
<1>2. ASSUME NEW t \in Trade PROVE OneBuyOf(t)' /\ BuyCount(t)' <= BuyCount(t)
  <2> DEFINE buy == OrderOf(t, "SimpleBuy")
  <2>0. OneBuyOf(t) /\ buy \in Order BY BuyTypes DEF OneBuy
  <2>1. ASSUME NEW o \in Order, o.kind # "SimpleBuy", opening' = opening,
               Pushed(o) \/ Sent(o) \/ ExecutorIdle
        PROVE  OneBuyOf(t)' /\ BuyCount(t)' <= BuyCount(t)
    <3>1. o # buy BY <2>1 DEF OrderOf
    <3> QED BY <2>0, <2>1, <3>1, OtherCalls, BuyFrame
  <2>2. CASE \E u \in Trade : Open(u) BY <2>0, <2>2, BuyOpens
  <2>3. CASE UNCHANGED <<chan, queue, jobs, bought, opening>>
    <3>1. UNCHANGED <<InChan(t), InQueue(t), ToRun(t), bought>>
      BY <2>3 DEF InChan, InQueue, ToRun
    <3> QED BY <2>0, <2>3, <3>1, BuyFrame
  <2>4. CASE \E h \in hooks : HookStep(h)
    <3>1. PICK h \in hooks : HookStep(h) BY <2>4
    <3> DEFINE hold == OrderOf(h.order.trade, "HoldTime")
    <3>2. hold \in Order /\ hold.kind = "HoldTime"
      BY SavedTypes, OrderOfType DEF Kind, SellKind, OrderOf
    <3>3. opening' = opening /\ (\/ Pushed(hold) \/ Sent(hold) \/ ExecutorIdle
                                 \/ UNCHANGED <<chan, queue, jobs, bought>>)
      BY <3>1 DEF HookStep, HookBuy, HookRegister, HookOrder, HookSend, HookWatch, HookSell,
                  HookEvict, HookCancel, HookSave
    <3> HIDE DEF hold
    <3> QED BY <2>1, <2>3, <3>2, <3>3
  <2>5. CASE SellLoop
    <3>1. PICK s \in selling : Pushed(s.order) \/ Sent(s.order) \/ ExecutorIdle
      BY <2>5 DEF SellLoop, SellRegister, SellOrder, SellSend
    <3>2. s.order \in Order /\ s.order.kind # "SimpleBuy"
      BY DEF TypeOK, TraderTypeOK, OneBuy, SellerSells, SellKind
    <3>3. opening' = opening BY <2>5 DEF SellLoop, SellRegister, SellOrder, SellSend
    <3> QED BY <2>1, <3>1, <3>2, <3>3
  <2>6. CASE (\E o \in Order : HookStart(o)) \/ FailLoop \/ \E p \in Pool : MarketTick(p)
    BY <2>3, <2>6 DEF HookStart, FailLoop, FailTake, FailEvict, FailSave, MarketTick,
                      ExecutorIdle, executorVars
  <2>7. CASE UNCHANGED traderVars /\ (\/ Receive \/ TakeCancel
                                      \/ \E s \in Slot : Expire(s) \/ ExpireDisabled(s))
    BY <2>0, <2>7, BuyThroughLoop
  <2>8. CASE UNCHANGED traderVars /\ \E j \in jobs : JobStep(j) BY <2>0, <2>8, BuyThroughJob
  <2>9. CASE UNCHANGED vars BY <2>3, <2>9 DEF vars, executorVars, traderVars
  <2> QED BY <2>2, <2>4, <2>5, <2>6, <2>7, <2>8, <2>9 DEF Next, JobStep
<1> QED BY <1>1, <1>2 DEF OneBuy

(***************************************************************************)
(* Sells: they land on a position, and settle a trade only if they landed  *)
(***************************************************************************)

\* What lands, lands in a job; a sell needs a position to land on.
LEMMA Landings ==
  ASSUME TypeOK, [Next]_vars, NEW t \in Trade
  PROVE  /\ sold'[t] >= sold[t]
         /\ sold[t] <= bought[t] => sold'[t] <= bought'[t]
         /\ {bought[t], bought'[t], sold[t], sold'[t]} \subseteq Nat
<1> HIDE DEF Hook, Job, Slot, Entry
<1>1. /\ bought \in [Trade -> Nat] /\ sold \in [Trade -> Nat]
      /\ bought' \in [Trade -> Nat] /\ sold' \in [Trade -> Nat]
  BY NextType DEF TypeOK, ExecutorTypeOK
<1>2. CASE \E j \in jobs : Run(j)
  <2>1. PICK j \in jobs : Run(j) BY <1>2
  <2>2. CASE CanLand(j.order) /\ Land(j.order) BY <1>1, <2>2 DEF CanLand, Land
  <2>3. CASE UNCHANGED <<bought, sold>> BY <1>1, <2>3
  <2> QED BY <2>1, <2>2, <2>3 DEF Run
<1>3. CASE UNCHANGED <<bought, sold>> BY <1>1, <1>3
<1>4. UNCHANGED <<bought, sold>> \/ \E j \in jobs : Run(j)
  <2>1. CASE \E u \in Trade : Open(u)
    BY <2>1 DEF Open, OpenDrop, OpenOrder, OpenSend, OpenInsert, Pushed, Sent, ExecutorIdle, executorVars
  <2>2. CASE \E o \in Order : HookStart(o) BY <2>2 DEF HookStart
  <2>3. CASE \E h \in hooks : HookStep(h)
    BY <2>3 DEF HookStep, HookBuy, HookRegister, HookOrder, HookSend, HookWatch, HookSell,
                HookEvict, HookCancel, HookSave, Pushed, Sent, ExecutorIdle, executorVars
  <2>4. CASE FailLoop BY <2>4 DEF FailLoop, FailTake, FailEvict, FailSave, ExecutorIdle, executorVars
  <2>5. CASE SellLoop \/ \E p \in Pool : MarketTick(p)
    BY <2>5 DEF SellLoop, SellRegister, SellOrder, SellSend, MarketTick, Pushed, Sent,
                ExecutorIdle, executorVars
  <2>6. CASE Receive \/ TakeCancel \/ \E s \in Slot : Expire(s) \/ ExpireDisabled(s)
    BY <2>6 DEF Receive, TakeCancel, Expire, ExpireDisabled
  <2>7. CASE \E j \in jobs : Report(j) \/ Retain(j) \/ Evict(j)
    BY <2>7 DEF Report, Retain, Evict
  <2>8. CASE UNCHANGED vars BY <2>8 DEF vars, executorVars
  <2> QED BY <2>1, <2>2, <2>3, <2>4, <2>5, <2>6, <2>7, <2>8 DEF Next
<1> QED BY <1>2, <1>3, <1>4

\* Where a result can come from: a job that was told its swap landed.
LEMMA JobResults ==
  ASSUME TypeOK, NEW j \in jobs, JobStep(j)
  PROVE  /\ \A i \in jobs' :
              \/ i \in jobs
              \/ i.order = j.order /\ (i.ok => j.ok)
              \/ i.order = j.order /\ Run(j) /\ (i.ok => Land(j.order))
         /\ \A o \in Order : executed'[o] > 0 => executed[o] > 0 \/ (j.ok /\ j.order = o)
<1> HIDE DEF Hook, Slot, Entry
<1>1. j \in Job /\ j.order \in Order /\ jobs \subseteq Job /\ executed \in [Order -> Nat]
  BY DEF TypeOK, ExecutorTypeOK, Job
<1>2. ASSUME NEW i \in jobs', i \notin jobs
      PROVE  \/ i.order = j.order /\ (i.ok => j.ok)
             \/ i.order = j.order /\ Run(j) /\ (i.ok => Land(j.order))
  <2>1. CASE Run(j)
    <3>1. PICK ok \in BOOLEAN :
            /\ \/ CanLand(j.order) /\ Land(j.order)
               \/ ~ok /\ UNCHANGED <<bought, sold>>
            /\ jobs' = (jobs \ {j}) \cup {[j EXCEPT !.pc = "report", !.ok = ok]}
      BY <2>1 DEF Run
    <3>2. i = [j EXCEPT !.pc = "report", !.ok = ok] BY <1>2, <3>1
    <3>3. i.order = j.order /\ i.ok = ok BY <1>1, <3>2 DEF Job
    <3>4. i.ok => Land(j.order) BY <3>1, <3>3
    <3> QED BY <2>1, <3>3, <3>4
  <2>2. CASE ~Run(j)
    <3>1. PICK pc \in {"retain", "evict"} : i = [j EXCEPT !.pc = pc]
      BY <1>2, <2>2 DEF JobStep, Report, Retain, Evict, Goto, End
    <3>2. i.order = j.order /\ i.ok = j.ok BY <1>1, <3>1 DEF Job
    <3> QED BY <3>2
  <2> QED BY <2>1, <2>2
<1>3. ASSUME NEW o \in Order, executed'[o] > 0 PROVE executed[o] > 0 \/ (j.ok /\ j.order = o)
  <2>1. executed' = executed \/ (j.ok /\ executed' = [executed EXCEPT ![j.order] = @ + 1])
    BY DEF JobStep, Run, Report, Retain, Evict
  <2> HIDE DEF Job
  <2> QED BY <1>1, <1>3, <2>1
<1>4. \A i \in jobs' : \/ i \in jobs
                       \/ i.order = j.order /\ (i.ok => j.ok)
                       \/ i.order = j.order /\ Run(j) /\ (i.ok => Land(j.order))
  <2> TAKE i \in jobs'
  <2>1. CASE i \in jobs BY <2>1
  <2>2. CASE i \notin jobs BY <1>2, <2>2
  <2> QED BY <2>1, <2>2
<1> QED BY <1>3, <1>4

\* Only a sell that landed is reported as executed, settles its trade, and is saved.
LEMMA SalesStayLanded ==
  ASSUME TypeOK, Books, Sells, SalesLanded, [Next]_vars
  PROVE  SalesLanded'
<1> HIDE DEF Hook, Job, Slot, Entry
<1>0. /\ jobs \subseteq Job /\ executed \in [Order -> Nat] /\ trade \in [Trade -> TradeRecord]
      /\ \A j \in jobs : j.order \in Order /\ j.order.trade \in Trade
      /\ \A h \in hooks : h.order \in Order /\ h.order.trade \in Trade
      /\ \A o \in Order : o.trade \in Trade
      /\ history \in Seq(Entry)
  BY SavedTypes, OrderParts DEF TypeOK, ExecutorTypeOK, TraderTypeOK, Job
<1>1. \A t \in Trade : sold[t] > 0 => sold'[t] > 0
  <2> TAKE t \in Trade
  <2>1. sold[t] \in Nat /\ sold'[t] \in Nat /\ sold'[t] >= sold[t] BY Landings
  <2> QED BY <2>1
<1>2. ASSUME NEW t \in Trade, trade'[t].status = "Completed" PROVE sold[t] > 0
  <2>1. trade[t] \in TradeRecord BY <1>0
  <2>2. \A ks : InitiateSell(trade[t], ks).status = trade[t].status BY <2>1, StatusUpdates
  <2>3. ConfirmBuy(trade[t]).status = "Active" /\ Fail(trade[t]).status = "Error"
    BY <2>1, StatusUpdates
  <2>4. InitiateBuy(NewTrade).status = "Created"
    BY NewTradeType DEF InitiateBuy, NewTrade, TradeRecord
  <2>5. \/ trade'[t] = trade[t]
        \/ \E ks \in SUBSET SellKind : trade'[t] = InitiateSell(trade[t], ks)
        \/ \E h \in hooks : h.order.trade = t /\ h.order.kind \in SellKind
    BY <1>2, <2>3, <2>4, RecordSteps
  <2>6. CASE trade[t].status = "Completed" BY <2>6 DEF SalesLanded
  <2>7. CASE \E h \in hooks : h.order.trade = t /\ h.order.kind \in SellKind
    BY <2>7 DEF SalesLanded
  <2> QED BY <1>2, <2>2, <2>5, <2>6, <2>7
<1>3. ASSUME NEW i \in DOMAIN history', history'[i].record.status = "Completed"
      PROVE  sold'[history'[i].trade] > 0
  <2>0. ASSUME NEW k \in DOMAIN history, history[k].record.status = "Completed"
        PROVE  sold'[history[k].trade] > 0
    <3>1. history[k].trade \in Trade
      <4>1. history[k] \in Entry BY <1>0, ElementOfSeq, LenProperties
      <4> QED BY <4>1 DEF Entry
    <3> QED BY <1>1, <2>0, <3>1 DEF SalesLanded
  <2>1. CASE history' = history BY <1>3, <2>0, <2>1
  <2>2. ASSUME NEW t \in BeingSaved,
               history' = Append(history, [trade |-> t, record |-> trade[t]])
        PROVE  sold'[history'[i].trade] > 0
    <3> DEFINE e == [trade |-> t, record |-> trade[t]]
    <3>1. t \in Trade BY SavedTypes
    <3>2. e \in Entry /\ e.record = trade[t] /\ e.trade = t BY <1>0, <3>1 DEF Entry
    <3> HIDE DEF e
    <3>3. history' = Append(history, e) BY <2>2 DEF e
    <3>4. CASE i \in DOMAIN history
      BY <1>0, <1>3, <2>0, <3>2, <3>3, <3>4, HistoryAppend
    <3>5. CASE i = Len(history) + 1
      <4>1. history'[i] = e BY <1>0, <3>2, <3>3, <3>5, HistoryAppend
      <4>2. trade[t].status = "Completed" BY <1>3, <3>2, <4>1
      <4> QED BY <1>1, <3>1, <3>2, <4>1, <4>2 DEF SalesLanded
    <3> QED BY <1>0, <1>3, <3>2, <3>3, <3>4, <3>5, HistoryAppend
  <2> QED BY <2>1, <2>2, HistoryMoves
<1>4. ASSUME \A j \in jobs' : (j.order.kind \in SellKind /\ j.ok) => sold'[j.order.trade] > 0,
             \A o \in Order : (o.kind \in SellKind /\ executed'[o] > 0) => sold'[o.trade] > 0,
             \A h \in hooks' : h.order.kind \in SellKind => sold'[h.order.trade] > 0
      PROVE  SalesLanded'
  BY <1>1, <1>2, <1>3, <1>4 DEF SalesLanded
<1>5. /\ \A j \in jobs : (j.order.kind \in SellKind /\ j.ok) => sold'[j.order.trade] > 0
      /\ \A o \in Order : (o.kind \in SellKind /\ executed[o] > 0) => sold'[o.trade] > 0
      /\ \A h \in hooks : h.order.kind \in SellKind => sold'[h.order.trade] > 0
  BY <1>0, <1>1 DEF SalesLanded
<1>6. CASE UNCHANGED traderVars /\ \E j \in jobs : JobStep(j)
  <2>1. PICK j \in jobs : JobStep(j) BY <1>6
  <2>2. ASSUME NEW i \in jobs', i.order.kind \in SellKind, i.ok
        PROVE  sold'[i.order.trade] > 0
    <3>1. CASE i \in jobs BY <1>5, <2>2, <3>1
    <3>2. CASE i.order = j.order /\ j.ok BY <1>5, <2>2, <3>2
    <3>3. CASE i.order = j.order /\ Land(j.order)
      <4>1. sold \in [Trade -> Nat] BY DEF TypeOK, ExecutorTypeOK
      <4>2. sold' = [sold EXCEPT ![j.order.trade] = @ + 1] BY <2>2, <3>3 DEF Land, SellKind
      <4> QED BY <1>0, <3>3, <4>1, <4>2
    <3> QED BY <2>1, <2>2, <3>1, <3>2, <3>3, JobResults
  <2>3. \A o \in Order : (o.kind \in SellKind /\ executed'[o] > 0) => sold'[o.trade] > 0
    BY <1>5, <2>1, JobResults
  <2> QED BY <1>4, <1>5, <1>6, <2>2, <2>3 DEF traderVars
<1>7. CASE \E o \in Order : HookStart(o)
  <2>1. PICK o \in Order : HookStart(o) BY <1>7
  <2>2. \A q \in Order : executed'[q] > 0 => executed[q] > 0 BY <1>0, <2>1 DEF HookStart
  <2>3. \A h \in hooks' : h \in hooks \/ (h.order = o /\ executed[o] > 0) BY <2>1 DEF HookStart
  <2>4. jobs' = jobs BY <2>1 DEF HookStart
  <2> QED BY <1>4, <1>5, <2>2, <2>3, <2>4
<1>8. CASE \E h \in hooks : HookStep(h)
  <2>1. PICK h \in hooks : HookStep(h) BY <1>8
  <2>2. jobs' = jobs /\ executed' = executed
    BY <2>1 DEF HookStep, HookBuy, HookRegister, HookOrder, HookSend, HookWatch, HookSell,
                HookEvict, HookCancel, HookSave, Pushed, Sent, ExecutorIdle, executorVars
  <2>3. \A g \in hooks' : \E f \in hooks : g.order = f.order BY <2>1, HookKeepsOrder
  <2> QED BY <1>4, <1>5, <2>2, <2>3
<1>9. CASE UNCHANGED traderVars /\ \E s \in Slot : Expire(s)
  <2>1. PICK s \in Slot : Expire(s) BY <1>9
  <2>2. \A j \in jobs' : j \in jobs \/ ~j.ok BY <2>1 DEF Expire
  <2>3. executed' = executed /\ hooks' = hooks BY <1>9, <2>1 DEF Expire, traderVars
  <2> QED BY <1>4, <1>5, <2>2, <2>3
<1>10. CASE UNCHANGED <<jobs, executed, hooks>> BY <1>4, <1>5, <1>10
<1>11. CASE \/ \E t \in Trade : Open(t)
            \/ FailLoop \/ SellLoop \/ \E p \in Pool : MarketTick(p)
            \/ UNCHANGED traderVars /\ (\/ Receive \/ TakeCancel
                                       \/ \E s \in Slot : ExpireDisabled(s))
            \/ UNCHANGED vars
  <2>1. CASE \E t \in Trade : Open(t)
    BY <1>10, <2>1 DEF Open, OpenDrop, OpenOrder, OpenSend, OpenInsert, Pushed, Sent,
                       ExecutorIdle, executorVars
  <2>2. CASE FailLoop \/ SellLoop \/ \E p \in Pool : MarketTick(p)
    BY <1>10, <2>2 DEF FailLoop, FailTake, FailEvict, FailSave, SellLoop, SellRegister, SellOrder,
                       SellSend, MarketTick, Pushed, Sent, ExecutorIdle, executorVars
  <2>3. CASE UNCHANGED traderVars /\ (\/ Receive \/ TakeCancel
                                      \/ \E s \in Slot : ExpireDisabled(s))
    BY <1>10, <2>3 DEF Receive, TakeCancel, ExpireDisabled, traderVars
  <2>4. CASE UNCHANGED vars BY <1>10, <2>4 DEF vars, executorVars, traderVars
  <2> QED BY <1>11, <2>1, <2>2, <2>3, <2>4
<1> QED BY <1>6, <1>7, <1>8, <1>9, <1>11 DEF Next, JobStep

(***************************************************************************)
(* One position                                                            *)
(***************************************************************************)

\* A new trade has its one buy ahead, a restored one behind it; nothing has been sold.
LEMMA InitPositions == Init => Positions
<1> SUFFICES ASSUME NEW l \in Layouts, ExecutorInit(l), TraderInit(l)
             PROVE  Positions
  BY DEF Init
<1>1. SellerSells BY DEF TraderInit, SellerSells
<1>2. ASSUME NEW t \in Trade PROVE InChan(t) = {} /\ InQueue(t) = {} /\ ToRun(t) = {}
  <2>1. \A s \in Slot : queue[s] # OrderOf(t, "SimpleBuy")
    <3>1. OrderOf(t, "SimpleBuy") # NoOrder BY ExecutorAssumption, OrderOfType DEF Kind
    <3>2. \A u : OrderOf(u, "HoldTime") # OrderOf(t, "SimpleBuy") BY DEF OrderOf
    <3> QED BY <3>1, <3>2 DEF ExecutorInit
  <2> QED BY <2>1 DEF InChan, InQueue, ToRun, ExecutorInit
<1>3. ASSUME NEW t \in Trade PROVE OneBuyOf(t) /\ BuyCount(t) <= 1 /\ sold[t] <= bought[t]
  <2>1. OneBuyOf(t) BY <1>2 DEF OneBuyOf
  <2>2. BuyCount(t) = 1
    <3>1. BuyAhead(t) <=> t \notin Restored BY <1>2 DEF BuyAhead, TraderInit
    <3> QED BY <3>1 DEF BuyCount, ExecutorInit
  <2> QED BY <2>1, <2>2 DEF ExecutorInit
<1>4. SalesLanded
  <2>1. \A t \in Trade : trade[t].status # "Completed" BY RestoredRecords DEF TraderInit
  <2> QED BY <2>1 DEF SalesLanded, ExecutorInit, TraderInit
<1> QED BY <1>1, <1>3, <1>4 DEF Positions, OneBuy

\* No step adds a buy to the one a trade has, or sells what was not bought.
LEMMA PositionsKept ==
  ASSUME TypeOK, Books, Sells, Positions, [Next]_vars
  PROVE  Positions'
<1> HIDE DEF Hook, Job, Slot, Entry
<1>1. OneBuy' /\ \A t \in Trade : BuyCount(t)' <= BuyCount(t)
  BY OneBuyKept DEF Positions
<1>2. ASSUME NEW t \in Trade PROVE BuyCount(t)' <= 1 /\ sold'[t] <= bought'[t]
  <2>1. BuyCount(t) <= 1 /\ sold[t] <= bought[t] BY DEF Positions
  <2>2. sold'[t] <= bought'[t] BY <2>1, Landings
  <2>3. BuyCount(t) \in Nat /\ BuyCount(t)' \in Nat BY Landings DEF BuyCount
  <2> QED BY <1>1, <2>1, <2>2, <2>3
<1>3. SalesLanded' BY SalesStayLanded DEF Positions
<1> QED BY <1>1, <1>2, <1>3 DEF Positions

\* The buy of a trade waits in one place at most and never twice, and what was reported,
\* settled or saved as sold did sell.
THEOREM PositionsInv == Spec => []Positions
<1>1. TypeOK /\ Books /\ Sells /\ Positions /\ [Next]_vars => Positions' BY PositionsKept
<1> QED BY <1>1, InitPositions, TypeCorrect, BooksKept, SellsKept, PTL DEF Spec

\* However many orders race for a trade and however often their hooks are answered, its buy
\* lands at most once, one sell of it at most, and a trade saved as completed sold once.
THEOREM OnePositionKept == Spec => []OnePosition
<1>1. TypeOK /\ Positions => OnePosition
  <2> SUFFICES ASSUME TypeOK, Positions PROVE OnePosition
    OBVIOUS
  <2> HIDE DEF Hook, Job, Slot, Entry
  <2>1. ASSUME NEW t \in Trade
        PROVE  sold[t] <= bought[t] /\ bought[t] <= 1 /\ sold[t] \in Nat /\ bought[t] \in Nat
    <3>1. bought[t] \in Nat /\ sold[t] \in Nat BY DEF TypeOK, ExecutorTypeOK
    <3>2. sold[t] <= bought[t] /\ BuyCount(t) <= 1 BY DEF Positions
    <3>3. bought[t] <= BuyCount(t) BY <3>1 DEF BuyCount
    <3> QED BY <3>1, <3>2, <3>3 DEF BuyCount
  <2>2. ASSUME NEW i \in DOMAIN history, history[i].record.status = "Completed"
        PROVE  sold[history[i].trade] = 1
    <3>1. history[i].trade \in Trade
      <4>1. history[i] \in Entry BY SavedTypes, ElementOfSeq, LenProperties
      <4> QED BY <4>1 DEF Entry
    <3>2. sold[history[i].trade] > 0 BY <2>2 DEF Positions, SalesLanded
    <3> QED BY <2>1, <3>1, <3>2
  <2> QED BY <2>1, <2>2 DEF OnePosition, ValuesOf
<1> QED BY <1>1, PositionsInv, TypeCorrect, PTL

(***************************************************************************)
(* The hold order: what can lose it                                        *)
(***************************************************************************)

\* The values of a sequence with one more at its end.
LEMMA AppendValues ==
  ASSUME NEW S, NEW s \in Seq(S), NEW x \in S
  PROVE  ValuesOf(Append(s, x)) = ValuesOf(s) \cup {x}
BY AppendProperties, LenProperties DEF ValuesOf

\* A value of a sequence is its head or a value of its tail.
LEMMA HeadOrTail ==
  ASSUME NEW S, NEW s \in Seq(S), s # <<>>, NEW x \in ValuesOf(s)
  PROVE  x = Head(s) \/ x \in ValuesOf(Tail(s))
<1>1. PICK i \in DOMAIN s : s[i] = x BY DEF ValuesOf
<1>2. Head(s) = s[1] /\ Len(s) \in Nat \ {0} /\ DOMAIN s = 1..Len(s)
  BY HeadTailProperties, LenProperties, EmptySeq
<1>3. /\ Tail(s) \in Seq(S) /\ Len(Tail(s)) = Len(s) - 1
      /\ \A j \in 1..Len(Tail(s)) : Tail(s)[j] = s[j + 1]
  BY HeadTailProperties
<1>4. DOMAIN Tail(s) = 1..Len(Tail(s)) BY <1>3, LenProperties
<1>5. CASE i # 1
  <2>1. i - 1 \in 1..Len(Tail(s)) BY <1>1, <1>2, <1>3, <1>5
  <2>2. Tail(s)[i - 1] = x BY <1>1, <1>2, <1>3, <2>1
  <2> QED BY <1>4, <2>1, <2>2 DEF ValuesOf
<1> QED BY <1>1, <1>2, <1>5

\* What a step does to the delay queue: nothing, an insertion, or a removal.
LEMMA QueueMoves ==
  ASSUME TypeOK, [Next]_vars
  PROVE  \/ UNCHANGED <<queue, free>>
         \/ Receive
         \/ \E s \in Slot : queue[s] # NoOrder /\ Vacate(s)
<1> HIDE DEF Hook, Job, Slot, Entry
<1>1. CASE TakeCancel
  <2> DEFINE s == keys[Head(cancels)]
  <2>1. cancels \in Seq(Trade) /\ cancels # <<>> /\ keys \in [Trade -> Slot \cup {0}]
    BY <1>1 DEF TakeCancel, TypeOK, ExecutorTypeOK
  <2>2. s \in Slot \cup {0} BY <2>1, HeadTailProperties
  <2>3. IF s # 0 /\ queue[s] # NoOrder THEN Vacate(s) ELSE UNCHANGED <<queue, free>>
    BY <1>1 DEF TakeCancel
  <2> HIDE DEF s
  <2> QED BY <2>2, <2>3
<1>2. CASE \E s \in Slot : Expire(s) \/ ExpireDisabled(s)
  BY <1>2, ExecutorAssumption DEF Expire, ExpireDisabled
<1>3. CASE \E t \in Trade : Open(t)
  BY <1>3 DEF Open, OpenDrop, OpenOrder, OpenSend, OpenInsert, Pushed, Sent, ExecutorIdle, executorVars
<1>4. CASE \E o \in Order : HookStart(o) BY <1>4 DEF HookStart
<1>5. CASE \E h \in hooks : HookStep(h)
  BY <1>5 DEF HookStep, HookBuy, HookRegister, HookOrder, HookSend, HookWatch, HookSell,
              HookEvict, HookCancel, HookSave, Pushed, Sent, ExecutorIdle, executorVars
<1>6. CASE FailLoop
  BY <1>6 DEF FailLoop, FailTake, FailEvict, FailSave, ExecutorIdle, executorVars
<1>7. CASE SellLoop \/ \E p \in Pool : MarketTick(p)
  BY <1>7 DEF SellLoop, SellRegister, SellOrder, SellSend, MarketTick, Pushed, Sent,
              ExecutorIdle, executorVars
<1>8. CASE \E j \in jobs : JobStep(j)
  BY <1>8 DEF JobStep, Run, Report, Retain, Evict
<1>9. CASE UNCHANGED vars BY <1>9 DEF vars, executorVars
<1> QED BY <1>1, <1>2, <1>3, <1>4, <1>5, <1>6, <1>7, <1>8, <1>9 DEF Next, JobStep

\* An insertion takes a free entry, and a removal frees one that was not.
LEMMA FreeKept ==
  ASSUME TypeOK, FreeEntries, [Next]_vars
  PROVE  FreeEntries'
<1> HIDE DEF Hook, Job, Slot, Entry
<1>1. free \in Seq(Slot) /\ DOMAIN free = 1..Len(free) /\ Len(free) \in Nat
      /\ queue \in [Slot -> Order \cup {NoOrder}]
  BY LenProperties DEF TypeOK, ExecutorTypeOK
<1>2. CASE UNCHANGED <<queue, free>> BY <1>2 DEF FreeEntries
<1>3. CASE Receive
  <2>1. free # <<>> /\ free' = Tail(free) /\ queue' = [queue EXCEPT ![Head(free)] = Head(chan)]
    BY <1>3 DEF Receive
  <2>2. Head(free) = free[1] /\ 1 \in DOMAIN free
    BY <1>1, <2>1, HeadTailProperties, EmptySeq
  <2>3. \A i \in DOMAIN free' : i \in Nat \ {0} /\ i + 1 \in DOMAIN free /\ free'[i] = free[i + 1]
    <3>1. /\ Tail(free) \in Seq(Slot) /\ Len(Tail(free)) = Len(free) - 1
          /\ \A i \in 1..Len(Tail(free)) : Tail(free)[i] = free[i + 1]
      BY <1>1, <2>1, HeadTailProperties
    <3>2. DOMAIN free' = 1..(Len(free) - 1) BY <2>1, <3>1, LenProperties
    <3> QED BY <1>1, <2>1, <3>1, <3>2
  <2>4. \A i \in DOMAIN free' : free'[i] # free[1]
    BY <2>2, <2>3 DEF FreeEntries
  <2>5. \A i \in DOMAIN free' : free'[i] \in Slot BY <1>1, <2>3
  <2>6. \A i \in DOMAIN free' : queue'[free'[i]] = NoOrder
    BY <1>1, <2>1, <2>2, <2>3, <2>4, <2>5 DEF FreeEntries
  <2>7. \A i, j \in DOMAIN free' : free'[i] = free'[j] => i = j
    BY <2>3 DEF FreeEntries
  <2> QED BY <2>6, <2>7 DEF FreeEntries
<1>4. ASSUME NEW s \in Slot, queue[s] # NoOrder, Vacate(s) PROVE FreeEntries'
  <2>1. free' = <<s>> \o free /\ queue' = [queue EXCEPT ![s] = NoOrder]
    BY <1>4 DEF Vacate
  <2>2. <<s>> \in Seq(Slot) /\ Len(<<s>>) = 1 /\ <<s>>[1] = s OBVIOUS
  <2>3. /\ free' \in Seq(Slot) /\ Len(free') = 1 + Len(free) /\ free'[1] = s
        /\ \A i \in 2..(1 + Len(free)) : free'[i] = free[i - 1]
    BY <1>1, <2>1, <2>2, ConcatProperties
  <2>4. DOMAIN free' = 1..(1 + Len(free)) BY <2>3, LenProperties
  <2>5. \A i \in DOMAIN free' : i = 1 \/ (i - 1 \in DOMAIN free /\ free'[i] = free[i - 1])
    BY <1>1, <2>3, <2>4
  <2>6. \A i \in DOMAIN free' : i \in Nat \ {0} /\ free'[i] \in Slot BY <1>1, <2>3, <2>4
  <2>7. \A i \in DOMAIN free : free[i] # s BY <1>4 DEF FreeEntries
  <2>8. \A i \in DOMAIN free' : queue'[free'[i]] = NoOrder
    BY <1>1, <2>1, <2>3, <2>5, <2>6 DEF FreeEntries
  <2>9. \A i, j \in DOMAIN free' : free'[i] = free'[j] => i = j
    BY <2>3, <2>5, <2>6, <2>7 DEF FreeEntries
  <2> QED BY <2>8, <2>9 DEF FreeEntries
<1> QED BY <1>2, <1>3, <1>4, QueueMoves

\* A cancellation is of a trade that was taken out, and no trade comes back.
LEMMA CancelsKept ==
  ASSUME TypeOK, Books, CancelsSettled, [Next]_vars
  PROVE  CancelsSettled'
<1> HIDE DEF Hook, Job, Slot, Entry
<1>1. cancels \in Seq(Trade) BY DEF TypeOK, ExecutorTypeOK
<1>2. \/ cancels' = cancels
      \/ cancels # <<>> /\ cancels' = Tail(cancels)
      \/ \E h \in SavingHooks : cancels' = Append(cancels, h.order.trade)
  <2>1. CASE \E t \in Trade : Open(t)
    BY <2>1 DEF Open, OpenDrop, OpenOrder, OpenSend, OpenInsert, Pushed, Sent, ExecutorIdle, executorVars
  <2>2. CASE \E o \in Order : HookStart(o) BY <2>2 DEF HookStart
  <2>3. CASE \E h \in hooks : HookStep(h)
    BY <2>3 DEF HookStep, HookBuy, HookRegister, HookOrder, HookSend, HookWatch, HookSell,
                HookEvict, HookCancel, HookSave, Pushed, Sent, ExecutorIdle, executorVars,
                SendCancel, SavingHooks
  <2>4. CASE FailLoop
    BY <2>4 DEF FailLoop, FailTake, FailEvict, FailSave, ExecutorIdle, executorVars
  <2>5. CASE SellLoop \/ \E p \in Pool : MarketTick(p)
    BY <2>5 DEF SellLoop, SellRegister, SellOrder, SellSend, MarketTick, Pushed, Sent,
                ExecutorIdle, executorVars
  <2>6. CASE Receive \/ TakeCancel \/ \E s \in Slot : Expire(s) \/ ExpireDisabled(s)
    BY <2>6 DEF Receive, TakeCancel, Expire, ExpireDisabled
  <2>7. CASE \E j \in jobs : JobStep(j) BY <2>7 DEF JobStep, Run, Report, Retain, Evict
  <2>8. CASE UNCHANGED vars BY <2>8 DEF vars, executorVars
  <2> QED BY <2>1, <2>2, <2>3, <2>4, <2>5, <2>6, <2>7, <2>8 DEF Next, JobStep
<1>3. \A t \in ValuesOf(cancels)' : t \in ValuesOf(cancels) \/ t \in BeingSaved
  <2>1. CASE cancels' = cancels BY <2>1 DEF ValuesOf
  <2>2. CASE cancels # <<>> /\ cancels' = Tail(cancels)
    <3>1. ValuesOf(Tail(cancels)) \subseteq ValuesOf(cancels) BY <1>1, <2>2, TailValues
    <3> QED BY <2>2, <3>1 DEF ValuesOf
  <2>3. ASSUME NEW h \in SavingHooks, cancels' = Append(cancels, h.order.trade)
        PROVE  ValuesOf(cancels)' \subseteq ValuesOf(cancels) \cup BeingSaved
    <3>1. h.order.trade \in Trade /\ h.order.trade \in BeingSaved
      BY SavedTypes DEF SavingHooks, BeingSaved
    <3>2. ValuesOf(Append(cancels, h.order.trade)) = ValuesOf(cancels) \cup {h.order.trade}
      BY <1>1, <3>1, AppendValues
    <3> QED BY <2>3, <3>1, <3>2 DEF ValuesOf
  <2> QED BY <1>2, <2>1, <2>2, <2>3
<1>4. ASSUME NEW t \in ValuesOf(cancels)' PROVE t \notin active' /\ opening'[t] = "opened"
  <2>1. t \notin active /\ opening[t] = "opened"
    BY <1>3 DEF CancelsSettled, Books, OpenBooks
  <2>2. t \in Trade
    BY <1>1, <1>3, SavedTypes DEF ValuesOf
  <2> QED BY <2>1, <2>2, OpenedForGood
<1> QED BY <1>4 DEF CancelsSettled

\* An order the executor has stays with it through the calls of the tasks.
LEMMA LiveThroughCalls ==
  ASSUME TypeOK, NEW q \in Order, Pushed(q) \/ Sent(q) \/ ExecutorIdle,
         NEW o \in Order, Live(o)
  PROVE  Live(o)'
<1> HIDE DEF Hook, Job, Slot, Entry
<1>1. ValuesOf(chan) \subseteq ValuesOf(chan)'
  <2>1. CASE Sent(q)
    <3>1. chan \in Seq(Order) /\ chan' = Append(chan, q)
      BY <2>1 DEF Sent, Send, TypeOK, ExecutorTypeOK
    <3>2. ValuesOf(Append(chan, q)) = ValuesOf(chan) \cup {q} BY <3>1, AppendValues
    <3> QED BY <3>1, <3>2 DEF ValuesOf
  <2>2. CASE Pushed(q) \/ ExecutorIdle
    BY <2>2 DEF Pushed, ExecutorIdle, executorVars, ValuesOf
  <2> QED BY <2>1, <2>2
<1>2. UNCHANGED <<queue, jobs, executed, failed>>
  BY DEF Pushed, Sent, ExecutorIdle, executorVars
<1> QED BY <1>1, <1>2 DEF Live, InTransit, Queued, Reported, ValuesOf

\* So it does through its job, whose result is reported.
LEMMA LiveThroughJob ==
  ASSUME TypeOK, NEW j \in jobs, JobStep(j), NEW o \in Order, Live(o)
  PROVE  Live(o)'
<1> HIDE DEF Hook, Slot, Entry
<1>1. /\ j \in Job /\ j.order \in Order
      /\ executed \in [Order -> Nat] /\ failed \in Seq(Order)
  BY DEF TypeOK, ExecutorTypeOK, Job
<1>2. UNCHANGED <<chan, queue>> BY DEF JobStep, Run, Report, Retain, Evict
<1>3. Reported(o) => Reported(o)'
  <2>1. \/ executed' = executed
        \/ executed' = [executed EXCEPT ![j.order] = @ + 1]
    BY DEF JobStep, Run, Report, Retain, Evict
  <2>2. failed' = failed \/ failed' = Append(failed, j.order)
    BY DEF JobStep, Run, Report, Retain, Evict
  <2>3. executed[o] > 0 => executed'[o] > 0
    <3> HIDE DEF Job
    <3> QED BY <1>1, <2>1
  <2>4. ValuesOf(failed) \subseteq ValuesOf(failed)'
    <3>1. ValuesOf(Append(failed, j.order)) = ValuesOf(failed) \cup {j.order}
      BY <1>1, AppendValues
    <3> QED BY <2>2, <3>1 DEF ValuesOf
  <2> QED BY <2>3, <2>4 DEF Reported
<1>4. ASSUME NEW k \in jobs, k.order = o, k.pc \in {"run", "report"}
      PROVE  Live(o)'
  <2>1. CASE k # j
    <3>1. k \in jobs' BY <2>1 DEF JobStep, Run, Report, Retain, Evict, Goto, End
    <3> QED BY <1>4, <3>1 DEF Live
  <2>2. CASE k = j /\ Run(j)
    <3>1. PICK ok \in BOOLEAN :
            jobs' = (jobs \ {j}) \cup {[j EXCEPT !.pc = "report", !.ok = ok]}
      BY <2>2 DEF Run
    <3> DEFINE g == [j EXCEPT !.pc = "report", !.ok = ok]
    <3>2. g.order = o /\ g.pc = "report" BY <1>1, <1>4, <2>2 DEF Job
    <3>3. g \in jobs' BY <3>1
    <3> QED BY <3>2, <3>3 DEF Live
  <2>3. CASE k = j /\ Report(j)
    <3>1. CASE j.ok
      <4>1. executed' = [executed EXCEPT ![o] = @ + 1] BY <1>4, <2>3, <3>1 DEF Report
      <4>2. executed'[o] > 0 BY <1>1, <4>1
      <4> QED BY <4>2 DEF Live, Reported
    <3>2. CASE ~j.ok
      <4>1. failed' = Append(failed, o) BY <1>4, <2>3, <3>2 DEF Report
      <4>2. o \in ValuesOf(failed')
        BY <1>1, <4>1, AppendValues
      <4> QED BY <4>2 DEF Live, Reported, ValuesOf
    <3> QED BY <3>1, <3>2
  <2>4. CASE k = j /\ (Retain(j) \/ Evict(j)) BY <1>4, <2>4 DEF Retain, Evict
  <2> QED BY <2>1, <2>2, <2>3, <2>4 DEF JobStep
<1> QED BY <1>2, <1>3, <1>4 DEF Live, InTransit, Queued, ValuesOf

\* The loop hands on the hold order of an active trade, unless it ends or takes out the
\* order of another trade than the one it cancels.
LEMMA HoldThroughLoop ==
  ASSUME TypeOK, FreeEntries, CancelsSettled, OwnCancels, alive',
         NEW t \in active, Live(OrderOf(t, "HoldTime")),
         \/ Receive \/ TakeCancel
         \/ \E s \in Slot : Expire(s) \/ ExpireDisabled(s)
  PROVE  Live(OrderOf(t, "HoldTime"))'
<1> HIDE DEF Hook, Job, Slot, Entry
<1> DEFINE hold == OrderOf(t, "HoldTime")
<1>1. hold \in Order /\ hold.trade = t /\ hold.kind = "HoldTime" /\ NoOrder \notin Order
  BY SavedTypes, OrderOfType, ExecutorAssumption DEF OrderOf, Kind, SellKind
<1>2. /\ chan \in Seq(Order) /\ free \in Seq(Slot) /\ cancels \in Seq(Trade)
      /\ queue \in [Slot -> Order \cup {NoOrder}] /\ keys \in [Trade -> Slot \cup {0}]
  BY DEF TypeOK, ExecutorTypeOK
<1>10. Live(hold) OBVIOUS
<1> SUFFICES Live(hold)' OBVIOUS
<1> HIDE DEF hold
<1>3. UNCHANGED <<executed, failed>> /\ jobs \subseteq jobs'
  BY DEF Receive, TakeCancel, Expire, ExpireDisabled
<1>4. Reported(hold) \/ (\E j \in jobs : j.order = hold /\ j.pc \in {"run", "report"}) => Live(hold)'
  BY <1>3 DEF Live, Reported, ValuesOf
<1>5. CASE Receive
  <2>1. /\ chan # <<>> /\ free # <<>> /\ chan' = Tail(chan)
        /\ queue' = [queue EXCEPT ![Head(free)] = Head(chan)]
    BY <1>5 DEF Receive
  <2>2. Head(free) \in Slot /\ queue[Head(free)] = NoOrder
    BY <1>2, <2>1, HeadTailProperties, EmptySeq, LenProperties DEF FreeEntries
  <2>3. ASSUME hold \in ValuesOf(chan) PROVE InTransit(hold)'
    <3>1. hold = Head(chan) \/ hold \in ValuesOf(Tail(chan))
      BY <1>2, <2>1, <2>3, HeadOrTail
    <3>2. hold = Head(chan) => hold \in Queued' BY <1>1, <1>2, <2>1, <2>2 DEF Queued
    <3> QED BY <2>1, <3>1, <3>2 DEF InTransit, Queued, ValuesOf
  <2>4. ASSUME hold \in Queued PROVE InTransit(hold)'
    <3>1. PICK s \in Slot : queue[s] = hold BY <2>4 DEF Queued
    <3>2. queue'[s] = hold BY <1>1, <1>2, <2>1, <2>2, <3>1
    <3> QED BY <1>1, <3>2 DEF InTransit, Queued
  <2> QED BY <1>4, <1>10, <2>3, <2>4 DEF Live, InTransit
<1>6. ASSUME NEW r \in Slot, Vacate(r), queue[r] # hold, chan' = chan PROVE Live(hold)'
  <2>1. hold \in Queued => hold \in Queued'
    <3> SUFFICES ASSUME NEW s \in Slot, queue[s] = hold PROVE hold \in Queued'
      BY DEF Queued
    <3>1. queue'[s] = hold BY <1>2, <1>6 DEF Vacate
    <3> QED BY <1>1, <3>1 DEF Queued
  <2> QED BY <1>4, <1>6, <1>10, <2>1 DEF Live, InTransit, Queued, ValuesOf
<1>7. CASE TakeCancel
  <2> DEFINE u == Head(cancels)
             r == keys[u]
  <2>1. cancels # <<>> /\ chan' = chan BY <1>7 DEF TakeCancel
  <2>2. u \in Trade /\ u \in ValuesOf(cancels) BY <1>2, <2>1, HeadTailProperties, TailValues
  <2>3. r \in Slot \cup {0} BY <1>2, <2>2
  <2>4. IF r # 0 /\ queue[r] # NoOrder THEN Vacate(r) ELSE UNCHANGED <<queue, free>>
    BY <1>7 DEF TakeCancel
  <2>5. u # t BY <2>2 DEF CancelsSettled
  <2>6. r # 0 /\ queue[r] # NoOrder => queue[r].trade = u BY <2>1 DEF OwnCancels
  <2> HIDE DEF u, r
  <2>7. CASE r # 0 /\ queue[r] # NoOrder
    <3>1. r \in Slot /\ Vacate(r) BY <2>3, <2>4, <2>7
    <3>2. queue[r] # hold BY <1>1, <2>5, <2>6, <2>7
    <3> QED BY <1>6, <2>1, <3>1, <3>2
  <2>8. CASE ~(r # 0 /\ queue[r] # NoOrder)
    BY <1>4, <1>10, <2>1, <2>4, <2>8 DEF Live, InTransit, Queued, ValuesOf
  <2> QED BY <2>7, <2>8
<1>8. ASSUME NEW s \in Slot, Expire(s) PROVE Live(hold)'
  <2>1. Vacate(s) /\ chan' = chan BY <1>8 DEF Expire
  <2>2. CASE queue[s] = hold
    <3>1. PICK id \in JobId :
            jobs' = jobs \cup {[id |-> id, order |-> queue[s], pc |-> "run", ok |-> FALSE]}
      BY <1>8 DEF Expire
    <3> DEFINE j == [id |-> id, order |-> queue[s], pc |-> "run", ok |-> FALSE]
    <3>2. j \in jobs' /\ j.order = hold /\ j.pc = "run" BY <2>2, <3>1
    <3> QED BY <3>2 DEF Live
  <2>3. CASE queue[s] # hold BY <1>6, <2>1, <2>3
  <2> QED BY <2>2, <2>3
<1>9. ASSUME NEW s \in Slot, ExpireDisabled(s) PROVE Live(hold)'
  BY <1>9 DEF ExpireDisabled
<1> QED BY <1>5, <1>7, <1>8, <1>9

\* A hook that has the hold order in hand hands it on, unless the executor takes it for a
\* duplicate or is gone; and while it has not, its trade is active only until it is sold.
LEMMA HoldThroughHook ==
  ASSUME TypeOK, Books, Undisturbed, NEW t \in active, t \in active', Held(t),
         NEW h \in hooks, HookStep(h)
  PROVE  Held(t)'
<1> HIDE DEF Job, Slot, Entry
<1> DEFINE hold == OrderOf(t, "HoldTime")
<1>1. /\ t \in Trade /\ hold \in Order /\ h \in Hook
      /\ h.order.trade \in Trade
      /\ h.order.trade = t => OrderOf(h.order.trade, "HoldTime") = hold
  BY SavedTypes, OrderOfType DEF Kind, SellKind
<1>2. ASSUME Live(hold) PROVE Live(hold)'
  <2>1. OrderOf(h.order.trade, "HoldTime") \in Order BY <1>1, OrderOfType DEF Kind, SellKind
  <2>2. \/ \E q \in Order : Pushed(q) \/ Sent(q) \/ ExecutorIdle
        \/ UNCHANGED <<chan, queue, jobs, executed, failed>>
    BY <1>1, <2>1 DEF HookStep, HookBuy, HookRegister, HookOrder, HookSend, HookWatch, HookSell,
           HookEvict, HookCancel, HookSave
  <2> QED
    BY <1>1, <1>2, <2>2, LiveThroughCalls DEF Live, InTransit, Queued, Reported, ValuesOf
<1>3. ASSUME NEW g \in hooks,
             (g.order.trade = t /\ g.pc \in {"order", "send"}) \/ (g.order = hold /\ g.pc = "sell")
      PROVE  Held(t)'
  <2>0. g.order.trade = t BY <1>3 DEF OrderOf
  <2>1. CASE g # h
    <3>1. g \in hooks' BY <2>1, HookKeepsOrder
    <3> QED BY <1>3, <3>1 DEF Held
  <2>2. CASE g = h /\ g.pc = "order"
    <3>1. HookOrder(h)
      BY <2>2 DEF HookStep, HookBuy, HookRegister, HookSend, HookWatch, HookSell,
                  HookEvict, HookCancel, HookSave
    <3>2. ~Duplicate(OrderOf(h.order.trade, "HoldTime"))
      BY <2>2 DEF Undisturbed, FirstOrders
    <3>3. HookGoto(h, "send") BY <3>1, <3>2 DEF HookOrder
    <3> DEFINE f == [h EXCEPT !.pc = "send"]
    <3>4. f \in hooks' BY <3>3 DEF HookGoto
    <3>5. f.order.trade = t /\ f.pc = "send" BY <1>1, <2>0, <2>2 DEF Hook
    <3> QED BY <3>4, <3>5 DEF Held
  <2>3. CASE g = h /\ g.pc = "send"
    <3>1. HookSend(h)
      BY <2>3 DEF HookStep, HookBuy, HookRegister, HookOrder, HookWatch, HookSell,
                  HookEvict, HookCancel, HookSave
    <3>2. Sent(hold) BY <1>1, <2>0, <2>3, <3>1 DEF HookSend, Undisturbed
    <3>3. chan \in Seq(Order) /\ chan' = Append(chan, hold)
      BY <3>2 DEF Sent, Send, TypeOK, ExecutorTypeOK
    <3>4. hold \in ValuesOf(chan') BY <1>1, <3>3, AppendValues
    <3> QED BY <3>4 DEF Held, Live, InTransit, ValuesOf
  <2>4. CASE g = h /\ g.pc = "sell"
    <3>1. HookSell(h)
      BY <2>4 DEF HookStep, HookBuy, HookRegister, HookOrder, HookSend, HookWatch,
                  HookEvict, HookCancel, HookSave
    <3>2. Sellable(t) BY DEF Sellable, Found, Books, OpenBooks
    <3>3. active' = active \ {t} BY <2>0, <2>4, <3>1, <3>2 DEF HookSell
    <3> QED BY <3>3
  <2> QED BY <1>3, <2>1, <2>2, <2>3, <2>4
<1> QED BY <1>2, <1>3 DEF Held

\* The hold order of an active trade stays in somebody's hands.
LEMMA HeldStays ==
  ASSUME TypeOK, Books, Undisturbed, alive', FreeEntries, CancelsSettled, [Next]_vars,
         NEW t \in active, t \in active', Held(t)
  PROVE  Held(t)'
<1> HIDE DEF Hook, Job, Slot, Entry
<1> DEFINE hold == OrderOf(t, "HoldTime")
<1>1. t \in Trade /\ hold \in Order BY SavedTypes, OrderOfType DEF Kind, SellKind
<1>2. ASSUME hooks \subseteq hooks', Live(hold) => Live(hold)' PROVE Held(t)'
  BY <1>2 DEF Held
<1>3. ASSUME hooks' = hooks, \E q \in Order : Pushed(q) \/ Sent(q) \/ ExecutorIdle
      PROVE  Held(t)'
  BY <1>1, <1>2, <1>3, LiveThroughCalls
<1>4. CASE \E u \in Trade : Open(u)
  <2>1. PICK u \in Trade : Open(u) BY <1>4
  <2>2. OrderOf(u, "SimpleBuy") \in Order BY OrderOfType DEF Kind
  <2>3. /\ hooks' = hooks
        /\ Pushed(OrderOf(u, "SimpleBuy")) \/ Sent(OrderOf(u, "SimpleBuy")) \/ ExecutorIdle
    BY <2>1 DEF Open, OpenDrop, OpenOrder, OpenSend, OpenInsert
  <2> QED BY <1>3, <2>2, <2>3
<1>5. CASE \E o \in Order : HookStart(o)
  <2>1. PICK o \in Order : HookStart(o) BY <1>5
  <2>2. hooks \subseteq hooks' /\ UNCHANGED <<chan, queue, jobs, failed>>
    BY <2>1 DEF HookStart
  <2>3. executed \in [Order -> Nat] /\ executed' = [executed EXCEPT ![o] = @ - 1]
    BY <2>1 DEF HookStart, TypeOK, ExecutorTypeOK
  <2>4. CASE o # hold
    <3>1. executed'[hold] = executed[hold] BY <1>1, <2>3, <2>4
    <3>2. Live(hold) => Live(hold)'
      BY <2>2, <3>1 DEF Live, InTransit, Queued, Reported, ValuesOf
    <3> QED BY <1>2, <2>2, <3>2
  <2>5. CASE o = hold
    <3>1. Found(o.trade) /\ o.kind # "SimpleBuy" BY <2>5 DEF Found, OrderOf
    <3>2. PICK id \in HookId :
            hooks' = hooks \cup {[id |-> id, order |-> o,
                                  pc |-> IF o.kind = "SimpleBuy" THEN "buy" ELSE "sell"]}
      BY <2>1, <3>1 DEF HookStart
    <3> DEFINE g == [id |-> id, order |-> o,
                     pc |-> IF o.kind = "SimpleBuy" THEN "buy" ELSE "sell"]
    <3>3. g \in hooks' /\ g.order = hold /\ g.pc = "sell" BY <2>5, <3>1, <3>2
    <3> QED BY <3>3 DEF Held
  <2> QED BY <2>4, <2>5
<1>6. CASE \E h \in hooks : HookStep(h) BY <1>6, HoldThroughHook
<1>7. CASE FailLoop
  <2>1. CASE FailTake
    <3>1. /\ UNCHANGED <<chan, queue, jobs, executed, hooks>>
          /\ failed \in Seq(Order) /\ failed # <<>> /\ failed' = Tail(failed)
      BY <2>1 DEF FailTake, TypeOK, ExecutorTypeOK
    <3>2. Head(failed) # hold
      <4> SUFFICES ASSUME Head(failed) = hold PROVE FALSE OBVIOUS
      <4>1. Head(failed).trade = t BY DEF OrderOf
      <4>2. active' = active \ {t} BY <2>1, <4>1 DEF FailTake, Found
      <4> QED BY <4>2
    <3>3. hold \in ValuesOf(failed) => hold \in ValuesOf(failed)'
      <4>1. hold \in ValuesOf(failed) => hold \in ValuesOf(Tail(failed))
        BY <3>1, <3>2, HeadOrTail
      <4> QED BY <3>1, <4>1 DEF ValuesOf
    <3>4. Live(hold) => Live(hold)'
      BY <3>1, <3>3 DEF Live, InTransit, Queued, Reported, ValuesOf
    <3> QED BY <1>2, <3>1, <3>4
  <2>2. CASE FailEvict \/ FailSave
    BY <1>1, <1>3, <2>2 DEF FailEvict, FailSave
  <2> QED BY <1>7, <2>1, <2>2 DEF FailLoop
<1>8. CASE SellLoop \/ \E p \in Pool : MarketTick(p)
  <2>1. hooks' = hooks
    BY <1>8 DEF SellLoop, SellRegister, SellOrder, SellSend, MarketTick
  <2>2. \A s \in selling : s.order \in Order BY DEF TypeOK, TraderTypeOK
  <2>3. \E q \in Order : Pushed(q) \/ Sent(q) \/ ExecutorIdle
    BY <1>1, <1>8, <2>2 DEF SellLoop, SellRegister, SellOrder, SellSend, MarketTick
  <2> QED BY <1>3, <2>1, <2>3
<1>9. CASE /\ UNCHANGED traderVars
           /\ Receive \/ TakeCancel \/ \E s \in Slot : Expire(s) \/ ExpireDisabled(s)
  <2>1. hooks' = hooks BY <1>9 DEF traderVars
  <2> QED BY <1>2, <1>9, <2>1, HoldThroughLoop DEF Undisturbed
<1>10. CASE UNCHANGED traderVars /\ \E j \in jobs : JobStep(j)
  <2>1. hooks' = hooks BY <1>10 DEF traderVars
  <2> QED BY <1>1, <1>2, <1>10, <2>1, LiveThroughJob
<1>11. CASE UNCHANGED vars
  BY <1>1, <1>3, <1>11 DEF vars, traderVars, ExecutorIdle
<1> QED
  BY <1>4, <1>5, <1>6, <1>7, <1>8, <1>9, <1>10, <1>11 DEF Next, JobStep

\* The slot of the hold order, as the updates of a record leave it.
LEMMA HoldSlots ==
  ASSUME NEW r \in TradeRecord
  PROVE  /\ InitiateBuy(NewTrade).slot["HoldTime"] = "None"
         /\ ConfirmBuy(r).slot["HoldTime"] = r.slot["HoldTime"]
         /\ InitiateSell(r, {"Emergency"}).slot["HoldTime"] = r.slot["HoldTime"]
<1> USE DEF TradeRecord, Kind, SellKind
<1>1. InitiateBuy(NewTrade).slot["HoldTime"] = "None" BY DEF InitiateBuy, NewTrade
<1>2. ConfirmBuy(r).slot["HoldTime"] = r.slot["HoldTime"] BY DEF ConfirmBuy
<1>3. InitiateSell(r, {"Emergency"}).slot["HoldTime"] = r.slot["HoldTime"] BY DEF InitiateSell
<1> QED BY <1>1, <1>2, <1>3

\* A hold order is registered by a hook that goes on to send it.
LEMMA RegisteredIsHeld ==
  ASSUME TypeOK, [Next]_vars, NEW t \in active, t \in active',
         trade[t].slot["HoldTime"] # "Open", trade'[t].slot["HoldTime"] = "Open",
         opening[t] = "opened"
  PROVE  Held(t)'
<1> HIDE DEF Job, Slot, Entry
<1>1. t \in Trade /\ trade[t] \in TradeRecord BY SavedTypes DEF TypeOK, TraderTypeOK
<1>2. PICK h \in hooks : HookRegister(h) /\ h.order.trade = t
  BY <1>1, RecordMoves, HoldSlots
<1>3. HookGoto(h, "order") BY <1>2 DEF HookRegister, Found
<1> DEFINE f == [h EXCEPT !.pc = "order"]
<1>4. f \in hooks' BY <1>3 DEF HookGoto
<1>5. f.order.trade = t /\ f.pc = "order" BY <1>2, SavedTypes DEF Hook
<1> QED BY <1>4, <1>5 DEF Held

LEMMA HoldsKept ==
  ASSUME TypeOK, Books, Undisturbed, alive', SafetyNet, [Next]_vars
  PROVE  HoldsHeld'
<1> HIDE DEF Hook, Job, Slot, Entry
<1>1. \A t \in Trade : trade[t] \in TradeRecord BY DEF TypeOK, TraderTypeOK
<1>2. ASSUME NEW t \in Trade, opening'[t] # "opened"
      PROVE  trade'[t].slot["HoldTime"] # "Open"
  <2>1. opening[t] # "opened" BY <1>2, OpeningMoves
  <2>2. t \notin active BY <2>1 DEF Books, OpenBooks
  <2>3. trade'[t] = trade[t] \/ trade'[t] = InitiateBuy(NewTrade)
    BY <2>2, RecordMoves
  <2> QED BY <1>1, <2>1, <2>3, HoldSlots DEF SafetyNet, HoldsHeld
<1>3. ASSUME NEW t \in active', trade'[t].slot["HoldTime"] = "Open"
      PROVE  Held(t)'
  <2>1. t \in Trade BY <1>3, NextType, SavedTypes DEF TypeOK, TraderTypeOK
  <2>2. CASE t \notin active
    <3>1. opening[t] = "insert" BY <1>3, <2>1, <2>2, OpeningMoves
    <3>2. trade'[t] = trade[t] BY <2>1, <2>2, <3>1, RecordMoves
    <3> QED BY <1>3, <2>1, <3>1, <3>2 DEF SafetyNet, HoldsHeld
  <2>3. CASE t \in active /\ trade[t].slot["HoldTime"] = "Open"
    <3>1. Held(t) BY <2>3 DEF SafetyNet, HoldsHeld
    <3> QED BY <1>3, <2>3, <3>1, HeldStays DEF SafetyNet
  <2>4. CASE t \in active /\ trade[t].slot["HoldTime"] # "Open"
    <3>1. opening[t] = "opened" BY <2>4 DEF Books, OpenBooks
    <3> QED BY <1>3, <2>4, <3>1, RegisteredIsHeld
  <2> QED BY <2>2, <2>3, <2>4
<1> QED BY <1>2, <1>3 DEF HoldsHeld

\* A layout has a place for every restored trade.
LEMMA LayoutCovers ==
  ASSUME NEW l \in Layouts, NEW t \in Restored
  PROVE  \E s \in 1..RestoredCount : l[s] = t
<1>1. RestoredCount \in Nat /\ l \in [1..RestoredCount -> Restored] BY LayoutTypes
<1>2. IsFiniteSet(Restored) /\ Cardinality(Restored) = RestoredCount
  BY ExecutorAssumption DEF RestoredCount
<1>3. l \in Injection(1..RestoredCount, Restored)
  BY <1>1 DEF Layouts, Injection, IsInjective
<1>4. IsFiniteSet(1..RestoredCount) /\ Cardinality(1..RestoredCount) = RestoredCount
  BY <1>1, FS_Interval
<1>5. l \in Surjection(1..RestoredCount, Restored) BY <1>2, <1>3, <1>4, FS_Injection
<1> QED BY <1>5 DEF Surjection

LEMMA InitSafetyNet == Init => SafetyNet
<1> SUFFICES ASSUME NEW l \in Layouts, ExecutorInit(l), TraderInit(l)
             PROVE  SafetyNet
  BY DEF Init
<1>1. /\ RestoredCount \in Nat /\ RestoredCount <= Slots /\ Slots \in Nat
      /\ DOMAIN l = 1..RestoredCount /\ Restored \subseteq Trade
  BY LayoutTypes, ExecutorAssumption
<1>2. FreeEntries
  <2>1. /\ DOMAIN free = 1..(Slots - RestoredCount)
        /\ \A i \in 1..(Slots - RestoredCount) : free[i] = RestoredCount + i
    BY DEF ExecutorInit
  <2>2. \A s \in Slot : s \notin DOMAIN l => queue[s] = NoOrder BY DEF ExecutorInit
  <2> QED BY <1>1, <2>1, <2>2 DEF FreeEntries, Slot
<1>3. CancelsSettled BY DEF CancelsSettled, ExecutorInit, ValuesOf
<1>4. \A t \in Trade : opening[t] # "opened" => trade[t].slot["HoldTime"] # "Open"
  <2>1. NewTrade.slot["HoldTime"] = "None" BY DEF NewTrade, Kind, SellKind
  <2> QED BY <2>1 DEF TraderInit
<1>5. ASSUME NEW t \in active PROVE Held(t)
  <2>1. t \in Restored BY DEF TraderInit
  <2>2. PICK s \in 1..RestoredCount : l[s] = t BY <2>1, LayoutCovers
  <2>3. s \in Slot BY <1>1 DEF Slot
  <2>4. queue[s] = OrderOf(t, "HoldTime") BY <1>1, <2>2, <2>3 DEF ExecutorInit
  <2>5. OrderOf(t, "HoldTime") # NoOrder
    BY <1>1, <2>1, OrderOfType, ExecutorAssumption DEF Kind, SellKind
  <2> QED BY <2>3, <2>4, <2>5 DEF Held, Live, InTransit, Queued
<1> QED BY <1>2, <1>3, <1>4, <1>5 DEF SafetyNet, HoldsHeld

\* As long as the loop runs, no cancellation hits the order of another trade and no hold
\* order is taken for a duplicate, the hold order of an active trade is never lost: those
\* three are the only ways (the run stale_key shows the second).
THEOREM UndisturbedHolds == Spec /\ []Undisturbed => []HoldOrderInFlight
<1>1. TypeOK /\ Books /\ Undisturbed /\ Undisturbed' /\ SafetyNet /\ [Next]_vars => SafetyNet'
  BY FreeKept, CancelsKept, HoldsKept DEF SafetyNet, Undisturbed
<1>2. Books /\ Sells /\ TypeOK /\ SafetyNet => HoldOrderInFlight
  <2> SUFFICES ASSUME TypeOK, Sells, SafetyNet, NEW t \in active,
                      trade[t].slot["HoldTime"] = "Open"
               PROVE  \/ Live(OrderOf(t, "HoldTime")) \/ OrderOf(t, "HoldTime") \in Sending
                      \/ \E h \in hooks : h.order = OrderOf(t, "SimpleBuy") /\ h.pc = "order"
                      \/ \E h \in hooks : h.order = OrderOf(t, "HoldTime") /\ h.pc = "sell"
    BY DEF HoldOrderInFlight
  <2>1. Held(t) BY DEF SafetyNet, HoldsHeld
  <2>2. ASSUME NEW h \in hooks, h.order.trade = t, h.pc = "order"
        PROVE  h.order = OrderOf(t, "SimpleBuy")
    <3>1. h.order \in Order BY SavedTypes
    <3>2. h.order.kind = "SimpleBuy" BY <2>2 DEF Sells, HookStages
    <3> QED BY <2>2, <3>1, <3>2 DEF Order, OrderOf
  <2>3. ASSUME NEW h \in hooks, h.order.trade = t, h.pc = "send"
        PROVE  OrderOf(t, "HoldTime") \in Sending
    BY <2>3 DEF Sending
  <2> QED BY <2>1, <2>2, <2>3 DEF Held
<1> QED BY <1>1, <1>2, InitSafetyNet, TypeCorrect, BooksKept, SellsKept, PTL DEF Spec
=============================================================================
