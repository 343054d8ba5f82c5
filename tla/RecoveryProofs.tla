--------------------------- MODULE RecoveryProofs ---------------------------
(***************************************************************************)
(* What holds across restarts, whatever the moment of a crash and however  *)
(* old the files are: types, sells with their buys, open trades in the     *)
(* file, and how often a trade is bought and recorded as sold.             *)
(***************************************************************************)
EXTENDS Recovery, PositionProofs

\* What a restart may bring back, now or after the next save.
HeldOrders == LoadedOrders.orders \cup ordersSync.copy.orders
HeldTrades == LoadedTrades.trades \cup tradesSync.copy.trades

\* A file of orders is finite, and a call of save_trade_in_history handles records of calls.
DiskTypes ==
  /\ RecoveryTypeOK
  /\ IsFiniteSet(pending) /\ IsFiniteSet(HeldOrders)
  /\ \A w \in writers : w.call \in 1..Len(history) /\ w.got \in Seq(1..Len(history))

\* Every sell, and every record of a buy, in memory, in a copy or in a file, has its buy on
\* the chain.
BoughtSells ==
  /\ \A o \in Order : o.kind \in SellKind /\ (Present(o) \/ o \in HeldOrders) => bought[o.trade] > 0
  /\ BuysLanded
  /\ \A h \in hooks :
       h.order.kind = "SimpleBuy" <=> h.pc \in {"buy", "register", "order", "send", "watch"}
  /\ \A t \in Trade : trade[t].slot["SimpleBuy"] = "Completed" => bought[t] > 0
  /\ \A e \in HeldTrades : e.record.slot["SimpleBuy"] = "Completed" => bought[e.trade] > 0

\* A trade is unsettled until it leaves active_trades, and in what was copied of it; the copy
\* holds only trades of the pools that were copied.
OpenTrades ==
  /\ \A t \in active : opening[t] = "opened"
  /\ \A t \in Trade : t \in active \/ opening[t] \in {"detected", "send", "insert"} =>
       OpenRecord(trade[t])
  /\ \A e \in HeldTrades : OpenRecord(e.record)
  /\ \A e, f \in LoadedTrades.trades : e.trade = f.trade => e = f
  /\ \A e, f \in tradesSync.copy.trades : e.trade = f.trade => e = f
  /\ \A e \in tradesSync.copy.trades : PoolOf[e.trade] \notin tradesSync.todo

\* A buy that a restart may bring back belongs to a trade past its detection; a restart adds
\* a buy to those a trade has only if it finds one there.
BuysLeft ==
  /\ OneBuy
  /\ \A o \in pending \cup HeldOrders : o.kind = "SimpleBuy" => opening[o.trade] # "detected"
  /\ \A t \in Trade : BuyCount(t) <= 1 + reloads[t]

\* Since the last restart, one task at most saves a trade, and none that is still active; the
\* failed-orders loop saves trades that failed.
Saving ==
  /\ \A t \in BeingSaved : t \notin active /\ opening[t] = "opened"
  /\ \A g, h \in SavingHooks : g.order.trade = h.order.trade => g = h
  /\ \A f \in failing : trade[f.order.trade].status = "Error"

\* A sell of t that landed is on its way to its hook.
SoldAhead(t) ==
  \/ \E j \in jobs : j.order.trade = t /\ j.order.kind \in SellKind /\ j.ok /\ j.pc = "report"
  \/ \E k \in SellKind : executed[OrderOf(t, k)] > 0
  \/ \E h \in hooks : h.order.trade = t /\ h.pc = "sell"

\* The trade may yet be saved as completed without another sell landing.
MaySave(t) ==
  \/ SoldAhead(t) /\ (t \in active \/ opening[t] # "opened")
  \/ \E h \in SavingHooks : h.order.trade = t

SavedSales(t) ==
  {i \in DOMAIN history : history[i].trade = t /\ history[i].record.status = "Completed"}
SaleCount(t) == Cardinality(SavedSales(t)) + (IF MaySave(t) THEN 1 ELSE 0)

SalesCounted == \A t \in Trade : SaleCount(t) <= sold[t]

(***************************************************************************)
(* Types of the files                                                      *)
(***************************************************************************)

\* What a restart loads, be the file readable or not.
LEMMA LoadedTypes ==
  ASSUME RecoveryTypeOK
  PROVE  /\ LoadedTrades \in TradesFile /\ LoadedOrders \in OrdersFile
         /\ Loaded \subseteq Trade
         /\ \A t \in Loaded : \E e \in LoadedTrades.trades :
              e.trade = t /\ e.record \in TradeRecord /\ LoadedRecord(t) = e.record
<1>1. LoadedTrades \in TradesFile
  <2>1. NoTrades \in TradesFile BY DEF NoTrades, TradesFile
  <2>2. Readable(activeFile) => activeFile \in TradesFile
    BY DEF RecoveryTypeOK, Readable, Unreadable
  <2> QED BY <2>1, <2>2 DEF LoadedTrades
<1>2. LoadedOrders \in OrdersFile
  <2>1. NoOrders \in OrdersFile BY DEF NoOrders, OrdersFile
  <2>2. Readable(pendingFile) => pendingFile \in OrdersFile
    BY DEF RecoveryTypeOK, Readable, Unreadable
  <2> QED BY <2>1, <2>2 DEF LoadedOrders
<1>3. LoadedTrades.trades \subseteq [trade : Trade, record : TradeRecord]
  BY <1>1 DEF TradesFile
<1>4. ASSUME NEW t \in Loaded
      PROVE  \E e \in LoadedTrades.trades :
               e.trade = t /\ e.record \in TradeRecord /\ LoadedRecord(t) = e.record
  <2> DEFINE e == CHOOSE f \in LoadedTrades.trades : f.trade = t
  <2>1. e \in LoadedTrades.trades /\ e.trade = t BY <1>4 DEF Loaded
  <2>2. LoadedRecord(t) = e.record BY DEF LoadedRecord
  <2> HIDE DEF e
  <2>3. e.record \in TradeRecord BY <1>3, <2>1
  <2> QED BY <2>1, <2>2, <2>3
<1>5. Loaded \subseteq Trade BY <1>3 DEF Loaded
<1> QED BY <1>1, <1>2, <1>4, <1>5

\* Calls of order() add one order at most, and a buy only for a trade just detected.
LEMMA PendingGrows ==
  ASSUME TypeOK, [Next]_vars
  PROVE  \/ pending' \subseteq pending
         \/ \E o \in Order :
              /\ pending' \subseteq pending \cup {o}
              /\ o.kind = "SimpleBuy" /\ SellerSells => opening'[o.trade] = "send"
<1> HIDE DEF Hook, Job, Slot, Entry
<1>1. CASE \E t \in Trade : Open(t)
  <2>1. PICK t \in Trade : Open(t) BY <1>1
  <2>2. CASE OpenOrder(t) /\ Pushed(OrderOf(t, "SimpleBuy")) /\ opening'[t] = "send"
    <3>1. OrderOf(t, "SimpleBuy") \in Order /\ OrderOf(t, "SimpleBuy").trade = t
      BY OrderOfType DEF Kind, OrderOf
    <3> QED BY <2>2, <3>1, CallAdds
  <2>3. CASE pending' = pending BY <2>3
  <2>4. ASSUME OpenOrder(t), opening' = [opening EXCEPT ![t] = "send"] PROVE opening'[t] = "send"
    BY <2>4 DEF TypeOK, TraderTypeOK
  <2> QED BY <2>1, <2>2, <2>3, <2>4 DEF Open, OpenDrop, OpenOrder, OpenSend, OpenInsert, Sent,
                                        ExecutorIdle, executorVars
<1>2. CASE \E h \in hooks : HookStep(h)
  <2>1. PICK h \in hooks : HookStep(h) BY <1>2
  <2> DEFINE hold == OrderOf(h.order.trade, "HoldTime")
  <2>2. hold \in Order /\ hold.kind = "HoldTime"
    BY SavedTypes, OrderOfType DEF Kind, SellKind, OrderOf
  <2>3. Pushed(hold) \/ pending' = pending
    BY <2>1 DEF HookStep, HookBuy, HookRegister, HookOrder, HookSend, HookWatch, HookSell,
                HookEvict, HookCancel, HookSave, Sent, ExecutorIdle, executorVars
  <2> HIDE DEF hold
  <2> QED BY <2>2, <2>3, CallAdds
<1>3. CASE SellLoop
  <2>1. PICK s \in selling : Pushed(s.order) \/ pending' = pending
    BY <1>3 DEF SellLoop, SellRegister, SellOrder, SellSend, Sent, ExecutorIdle, executorVars
  <2>2. s.order \in Order BY DEF TypeOK, TraderTypeOK
  <2>3. SellerSells => s.order.kind # "SimpleBuy" BY DEF SellerSells, SellKind
  <2> QED BY <2>1, <2>2, <2>3, CallAdds
<1>4. CASE (\E o \in Order : HookStart(o)) \/ FailLoop \/ \E p \in Pool : MarketTick(p)
  BY <1>4 DEF HookStart, FailLoop, FailTake, FailEvict, FailSave, MarketTick, ExecutorIdle,
              executorVars
<1>5. CASE Receive \/ TakeCancel \/ \E s \in Slot : Expire(s) \/ ExpireDisabled(s)
  BY <1>5 DEF Receive, TakeCancel, Expire, ExpireDisabled
<1>6. CASE \E j \in jobs : Run(j) \/ Report(j) \/ Retain(j) \/ Evict(j)
  BY <1>6 DEF Run, Report, Retain, Evict, Retained
<1>7. CASE UNCHANGED vars BY <1>7 DEF vars, executorVars
<1> QED BY <1>1, <1>2, <1>3, <1>4, <1>5, <1>6, <1>7 DEF Next

\* The history grows by one record at a time.
LEMMA HistoryGrows ==
  ASSUME TypeOK, [Next]_vars
  PROVE  /\ Len(history) \in Nat /\ Len(history') \in Nat
         /\ history' = history \/ Len(history') = Len(history) + 1
         /\ 1..Len(history) \subseteq 1..Len(history')
<1>1. history \in Seq(Entry) /\ history' \in Seq(Entry) 
  BY NextType DEF TypeOK, TraderTypeOK, Entry
<1>2. history' = history \/ Len(history') = Len(history) + 1
  <2>1. ASSUME NEW t \in BeingSaved, history' = Append(history, [trade |-> t, record |-> trade[t]])
        PROVE  Len(history') = Len(history) + 1
    <3>1. t \in Trade /\ trade[t] \in TradeRecord BY SavedTypes DEF TypeOK, TraderTypeOK
    <3>2. [trade |-> t, record |-> trade[t]] \in Entry BY <3>1 DEF Entry
    <3> QED BY <1>1, <2>1, <3>2, AppendProperties
  <2> QED BY <2>1, HistoryMoves
<1>3. Len(history) \in Nat /\ Len(history') \in Nat BY <1>1, LenProperties
<1> QED BY <1>2, <1>3

\* Numbers of calls stay numbers of calls while the history grows.
LEMMA MoreCalls ==
  ASSUME NEW S, NEW T, S \subseteq T, NEW s \in Seq(S)
  PROVE  s \in Seq(T)
<1>1. Len(s) \in Nat /\ s \in [1..Len(s) -> S] BY LenProperties
<1>2. s \in [1..Len(s) -> T] BY <1>1
<1> QED BY <1>1, <1>2, SeqDef

LEMMA InitDisk == RecoveryInit => DiskTypes
<1> SUFFICES ASSUME RecoveryInit PROVE DiskTypes OBVIOUS
<1>1. TypeOK BY InitType DEF RecoveryInit
<1>2. activeFile \in TradesFile
  <2>1. \A t \in active : [trade |-> t, record |-> trade[t]] \in [trade : Trade, record : TradeRecord]
    BY <1>1 DEF TypeOK, TraderTypeOK
  <2>2. activePools \subseteq Pool BY <1>1 DEF TypeOK, TraderTypeOK
  <2> QED BY <2>1, <2>2 DEF RecoveryInit, TradesFile
<1>3. pendingFile \in OrdersFile
  BY <1>1 DEF RecoveryInit, OrdersFile, TypeOK, ExecutorTypeOK
<1>4. IsFiniteSet(pending)
  <2>1. PICK l \in Layouts : ExecutorInit(l) BY DEF RecoveryInit, Init
  <2> DEFINE f == [t \in Restored |-> OrderOf(t, "HoldTime")]
  <2>2. pending = {OrderOf(t, "HoldTime") : t \in Restored} BY <2>1 DEF ExecutorInit
  <2>3. f \in Surjection(Restored, pending) BY <2>2 DEF Surjection
  <2> QED BY <2>3, ExecutorAssumption, FS_Surjection
<1>5. IsFiniteSet(HeldOrders)
  <2>1. LoadedOrders.orders \subseteq pending BY DEF RecoveryInit, LoadedOrders, NoOrders
  <2>2. ordersSync.copy.orders = {} BY DEF RecoveryInit, IdleOrdersSync, NoOrders
  <2> QED BY <1>4, <2>1, <2>2, FS_Subset DEF HeldOrders
<1>6. /\ tradesSync \in [todo : SUBSET Pool, copy : TradesFile, left : 0..MaxSaves]
      /\ ordersSync \in [todo : SUBSET Pool, copy : OrdersFile, left : 0..MaxSaves]
  BY RecoveryAssumption DEF RecoveryInit, IdleTradesSync, IdleOrdersSync, NoTrades, NoOrders,
                            TradesFile, OrdersFile
<1>7. historyFile \in Seq(1..Len(history)) BY EmptySeq DEF RecoveryInit
<1>8. crashes \in 0..MaxCrashes /\ reloads \in [Trade -> Nat]
  BY RecoveryAssumption DEF RecoveryInit
<1> QED BY <1>1, <1>2, <1>3, <1>4, <1>5, <1>6, <1>7, <1>8
        DEF RecoveryInit, DiskTypes, RecoveryTypeOK

\* What the timer of the active trades does to its copy and its file.
LEMMA TradesSyncMoves ==
  ASSUME RecoveryTypeOK, TradesSync
  PROVE  /\ UNCHANGED vars
         /\ \/ \E p \in tradesSync.todo :
                 /\ tradesSync'.todo = tradesSync.todo \ {p}
                 /\ tradesSync'.copy = CopyTrades(tradesSync.copy, p)
                 /\ activeFile' \in {activeFile, Empty}
            \/ activeFile' = tradesSync.copy /\ tradesSync'.copy = NoTrades
         /\ tradesSync' \in [todo : SUBSET Pool, copy : TradesFile, left : 0..MaxSaves]
<1>1. tradesSync \in [todo : SUBSET Pool, copy : TradesFile, left : 0..MaxSaves]
  BY DEF RecoveryTypeOK
<1>2. ASSUME NEW p \in tradesSync.todo,
             tradesSync' = [tradesSync EXCEPT !.todo = @ \ {p}, !.copy = CopyTrades(@, p)]
      PROVE  /\ tradesSync'.todo = tradesSync.todo \ {p}
             /\ tradesSync'.copy = CopyTrades(tradesSync.copy, p)
             /\ tradesSync' \in [todo : SUBSET Pool, copy : TradesFile, left : 0..MaxSaves]
  <2>1. tradesSync'.todo = tradesSync.todo \ {p} /\ tradesSync'.left = tradesSync.left
        /\ tradesSync'.copy = CopyTrades(tradesSync.copy, p)
    BY <1>1, <1>2
  <2>2. p \in Pool /\ tradesSync.copy \in TradesFile BY <1>1
  <2>3. Records(p) \subseteq [trade : Trade, record : TradeRecord]
    BY DEF Records, Vec, RecoveryTypeOK, TypeOK, TraderTypeOK
  <2>4. CopyTrades(tradesSync.copy, p) \in TradesFile BY <2>2, <2>3 DEF CopyTrades, TradesFile
  <2> QED BY <1>1, <1>2, <2>1, <2>4
<1>3. ASSUME tradesSync.left > 0, tradesSync' = IdleTradesSync(tradesSync.left - 1)
      PROVE  /\ tradesSync'.copy = NoTrades
             /\ tradesSync' \in [todo : SUBSET Pool, copy : TradesFile, left : 0..MaxSaves]
  <2>1. NoTrades \in TradesFile BY DEF NoTrades, TradesFile
  <2>2. tradesSync.left - 1 \in 0..MaxSaves BY <1>1, <1>3, RecoveryAssumption
  <2> QED BY <1>3, <2>1, <2>2 DEF IdleTradesSync
<1> QED BY <1>2, <1>3 DEF TradesSync

\* What the timer of the pending orders does to its copy and its file.
LEMMA OrdersSyncMoves ==
  ASSUME RecoveryTypeOK, OrdersSync
  PROVE  /\ UNCHANGED vars
         /\ \/ \E p \in ordersSync.todo :
                 /\ ordersSync'.copy = CopyOrders(ordersSync.copy, p)
                 /\ pendingFile' \in {pendingFile, Empty}
            \/ pendingFile' = ordersSync.copy /\ ordersSync'.copy = NoOrders
         /\ ordersSync' \in [todo : SUBSET Pool, copy : OrdersFile, left : 0..MaxSaves]
<1>1. ordersSync \in [todo : SUBSET Pool, copy : OrdersFile, left : 0..MaxSaves]
  BY DEF RecoveryTypeOK
<1>2. ASSUME NEW p \in ordersSync.todo,
             ordersSync' = [ordersSync EXCEPT !.todo = @ \ {p}, !.copy = CopyOrders(@, p)]
      PROVE  /\ ordersSync'.copy = CopyOrders(ordersSync.copy, p)
             /\ ordersSync' \in [todo : SUBSET Pool, copy : OrdersFile, left : 0..MaxSaves]
  <2>1. ordersSync'.todo = ordersSync.todo \ {p} /\ ordersSync'.left = ordersSync.left
        /\ ordersSync'.copy = CopyOrders(ordersSync.copy, p)
    BY <1>1, <1>2
  <2>2. p \in Pool /\ ordersSync.copy \in OrdersFile BY <1>1
  <2>3. pending \subseteq Order BY DEF RecoveryTypeOK, TypeOK, ExecutorTypeOK
  <2>4. CopyOrders(ordersSync.copy, p) \in OrdersFile BY <2>2, <2>3 DEF CopyOrders, OrdersFile
  <2> QED BY <1>1, <1>2, <2>1, <2>4
<1>3. ASSUME ordersSync.left > 0, ordersSync' = IdleOrdersSync(ordersSync.left - 1)
      PROVE  /\ ordersSync'.copy = NoOrders
             /\ ordersSync' \in [todo : SUBSET Pool, copy : OrdersFile, left : 0..MaxSaves]
  <2>1. NoOrders \in OrdersFile BY DEF NoOrders, OrdersFile
  <2>2. ordersSync.left - 1 \in 0..MaxSaves BY <1>1, <1>3, RecoveryAssumption
  <2> QED BY <1>3, <2>1, <2>2 DEF IdleOrdersSync
<1> QED BY <1>2, <1>3 DEF OrdersSync

\* A save takes over what is in memory, a restart nothing.
LEMMA HeldMoves ==
  ASSUME RecoveryTypeOK, [RecoveryNext]_recoveryVars
  PROVE  /\ HeldOrders' \subseteq HeldOrders \cup pending
         /\ HeldTrades' \subseteq HeldTrades \cup {[trade |-> t, record |-> trade[t]] : t \in active}
<1>1. CASE UNCHANGED <<activeFile, pendingFile, tradesSync, ordersSync>>
  BY <1>1 DEF HeldOrders, HeldTrades, LoadedOrders, LoadedTrades
<1>2. CASE TradesSync
  <2>1. HeldOrders' = HeldOrders BY <1>2 DEF TradesSync, HeldOrders, LoadedOrders
  <2>2. ASSUME NEW p, tradesSync'.copy = CopyTrades(tradesSync.copy, p),
               activeFile' \in {activeFile, Empty}
        PROVE  HeldTrades' \subseteq HeldTrades \cup {[trade |-> t, record |-> trade[t]] : t \in active}
    <3>1. LoadedTrades'.trades \subseteq LoadedTrades.trades
      BY <2>2 DEF LoadedTrades, Readable, Unreadable, NoTrades
    <3>2. tradesSync'.copy.trades \subseteq tradesSync.copy.trades \cup Records(p)
      BY <2>2 DEF CopyTrades
    <3> QED BY <3>1, <3>2 DEF HeldTrades, Records, Vec
  <2>3. ASSUME activeFile' = tradesSync.copy, tradesSync'.copy = NoTrades
        PROVE  HeldTrades' \subseteq HeldTrades
    BY <2>3 DEF HeldTrades, LoadedTrades, NoTrades
  <2> QED BY <1>2, <2>1, <2>2, <2>3, TradesSyncMoves
<1>3. CASE OrdersSync
  <2>1. HeldTrades' = HeldTrades BY <1>3 DEF OrdersSync, HeldTrades, LoadedTrades
  <2>2. ASSUME NEW p, ordersSync'.copy = CopyOrders(ordersSync.copy, p),
               pendingFile' \in {pendingFile, Empty}
        PROVE  HeldOrders' \subseteq HeldOrders \cup pending
    <3>1. LoadedOrders'.orders \subseteq LoadedOrders.orders
      BY <2>2 DEF LoadedOrders, Readable, Unreadable, NoOrders
    <3>2. ordersSync'.copy.orders \subseteq ordersSync.copy.orders \cup pending
      BY <2>2 DEF CopyOrders
    <3> QED BY <3>1, <3>2 DEF HeldOrders
  <2>3. ASSUME pendingFile' = ordersSync.copy, ordersSync'.copy = NoOrders
        PROVE  HeldOrders' \subseteq HeldOrders
    BY <2>3 DEF HeldOrders, LoadedOrders, NoOrders
  <2> QED BY <1>3, <2>1, <2>2, <2>3, OrdersSyncMoves
<1>4. CASE Crash
  <2>1. UNCHANGED <<activeFile, pendingFile>> BY <1>4 DEF Crash, fileVars
  <2>2. tradesSync'.copy.trades = {} /\ ordersSync'.copy.orders = {}
    BY <1>4 DEF Crash, IdleTradesSync, IdleOrdersSync, NoTrades, NoOrders
  <2> QED BY <2>1, <2>2 DEF HeldOrders, HeldTrades, LoadedOrders, LoadedTrades
<1>5. CASE Work BY <1>1, <1>5 DEF Work, fileVars
<1>6. CASE \E w \in writers : SaveStep(w) BY <1>1, <1>6 DEF SaveStep
<1>7. CASE UNCHANGED recoveryVars BY <1>1, <1>7 DEF recoveryVars, diskVars, fileVars
<1> QED BY <1>2, <1>3, <1>4, <1>5, <1>6, <1>7 DEF RecoveryNext

\* A restart gives every variable of the trader and the executor a value of its type.
LEMMA CrashTypes ==
  ASSUME DiskTypes, Crash
  PROVE  TypeOK' /\ IsFiniteSet(pending')
<1> HIDE DEF Hook, Job, Slot, Entry
<1>0. RecoveryTypeOK /\ TypeOK BY DEF DiskTypes, RecoveryTypeOK
<1> DEFINE os == LoadedOrders.orders
           n == Cardinality(os)
<1>1. os \subseteq Order /\ LoadedOrders.pools \subseteq Pool
  BY <1>0, LoadedTypes DEF OrdersFile
<1>2. IsFiniteSet(os) BY FS_Subset DEF DiskTypes, HeldOrders
<1>3. n \in Nat /\ n <= Slots BY <1>2, FS_CardinalityType DEF Crash, RestartExecutor
<1>4. 1..n \subseteq Slot BY <1>3, ExecutorAssumption DEF Slot
<1>5. ExecutorTypeOK'
  <2>1. PICK l \in [1..n -> os] :
          /\ queue' = QueueLoaded(l)
          /\ keys' = [t \in Trade |-> PlaceIn(l, OrderOf(t, "HoldTime"))]
    BY DEF Crash, RestartExecutor
  <2>2. queue' \in [Slot -> Order \cup {NoOrder}] BY <1>1, <2>1 DEF QueueLoaded
  <2>3. keys' \in [Trade -> Slot \cup {0}]
    <3>1. ASSUME NEW o PROVE PlaceIn(l, o) \in Slot \cup {0}
      <4>1. CASE \E s \in DOMAIN l : l[s] = o BY <1>4, <2>1, <4>1 DEF PlaceIn
      <4>2. CASE ~\E s \in DOMAIN l : l[s] = o BY <4>2 DEF PlaceIn
      <4> QED BY <4>1, <4>2
    <3> QED BY <2>1, <3>1
  <2>4. free' \in Seq(Slot)
    <3>1. PICK m \in Nat : m = Slots - n BY <1>3, ExecutorAssumption
    <3>2. free' = [i \in 1..m |-> n + i] BY <3>1 DEF Crash, RestartExecutor
    <3>3. \A i \in 1..m : n + i \in Slot BY <1>3, <3>1, ExecutorAssumption DEF Slot
    <3>4. free' \in [1..m -> Slot] BY <3>2, <3>3
    <3> QED BY <3>1, <3>4, SeqDef
  <2>5. pending' = os /\ pendingPools' = LoadedOrders.pools BY DEF Crash, RestartExecutor
  <2>6. chan' \in Seq(Order) /\ cancels' \in Seq(Trade) /\ failed' \in Seq(Order)
    BY EmptySeq DEF Crash, RestartExecutor
  <2>7. /\ executed' \in [Order -> Nat] /\ jobs' \subseteq Job /\ alive' \in BOOLEAN
        /\ UNCHANGED <<bought, sold>>
    BY DEF Crash, RestartExecutor
  <2> QED BY <1>0, <1>1, <2>2, <2>3, <2>4, <2>5, <2>6, <2>7 DEF ExecutorTypeOK, TypeOK
<1>6. TraderTypeOK'
  <2>1. Loaded \subseteq Trade /\ LoadedTrades.pools \subseteq Pool
    BY <1>0, LoadedTypes DEF TradesFile
  <2>2. trade' \in [Trade -> TradeRecord]
    <3>1. \A t \in Loaded : LoadedRecord(t) \in TradeRecord BY <1>0, LoadedTypes
    <3>2. trade' = [t \in Trade |-> IF t \in Loaded THEN LoadedRecord(t) ELSE trade[t]]
      BY DEF Crash, RestartTrader
    <3> QED BY <1>0, <3>1, <3>2 DEF TypeOK, TraderTypeOK
  <2>3. opening' \in [Trade -> {"detected", "send", "insert", "opened", "dropped"}]
    BY DEF Crash, RestartTrader
  <2> QED BY <1>0, <2>1, <2>2, <2>3 DEF Crash, RestartTrader, TypeOK, TraderTypeOK
<1>7. IsFiniteSet(pending') BY <1>2 DEF Crash, RestartExecutor
<1> QED BY <1>5, <1>6, <1>7 DEF TypeOK

\* A step of a call of save_trade_in_history.
LEMMA SaveTypes ==
  ASSUME DiskTypes, NEW w \in writers, SaveStep(w)
  PROVE  /\ historyFile' \in Seq(1..Len(history)) \cup Unreadable
         /\ saved' \subseteq 1..Len(history)
         /\ writers' \subseteq Writer
         /\ \A v \in writers' : v.call \in 1..Len(history) /\ v.got \in Seq(1..Len(history))
<1> DEFINE calls == 1..Len(history)
<1>1. /\ historyFile \in Seq(calls) \cup Unreadable /\ saved \subseteq calls
      /\ writers \subseteq Writer
      /\ \A v \in writers : v.call \in calls /\ v.got \in Seq(calls)
  BY DEF DiskTypes, RecoveryTypeOK
<1>2. w \in Writer /\ w.call \in calls /\ w.got \in Seq(calls) BY <1>1
<1>3. calls \subseteq Nat
  <2>1. Len(history) \in Nat BY HistoryGrows DEF DiskTypes, RecoveryTypeOK
  <2> QED BY <2>1
<1> HIDE DEF calls
<1>4. CASE ReadHistory(w)
  <2>1. writers' = (writers \ {w}) \cup (IF Readable(historyFile) THEN {WithContent(w)} ELSE {})
        /\ UNCHANGED <<historyFile, saved>>
    BY <1>4 DEF ReadHistory
  <2>2. ASSUME Readable(historyFile)
        PROVE  WithContent(w) \in Writer /\ WithContent(w).call \in calls
               /\ WithContent(w).got \in Seq(calls)
    <3>1. historyFile \in Seq(calls) BY <1>1, <2>2 DEF Readable
    <3>2. historyFile \in Seq(Nat) BY <1>3, <3>1, MoreCalls
    <3>3. WithContent(w).call = w.call /\ WithContent(w).got = historyFile
      BY <1>2 DEF WithContent, Writer
    <3>4. WithContent(w) \in Writer BY <1>2, <3>2 DEF WithContent, Writer
    <3> QED BY <1>2, <3>1, <3>3, <3>4
  <2> QED BY <1>1, <2>1, <2>2 DEF calls
<1>5. CASE OpenHistory(w)
  <2> DEFINE v == [w EXCEPT !.pc = "write"]
  <2>1. v \in Writer /\ v.call = w.call /\ v.got = w.got BY <1>2 DEF Writer
  <2>2. writers' = (writers \ {w}) \cup {v} /\ historyFile' = Empty /\ saved' = saved
    BY <1>5 DEF OpenHistory
  <2> HIDE DEF v
  <2> QED BY <1>1, <1>2, <2>1, <2>2 DEF calls, Unreadable
<1>6. CASE WriteHistory(w)
  <2>1. Append(w.got, w.call) \in Seq(calls) BY <1>2, AppendProperties
  <2>2. historyFile' \in {Append(w.got, w.call), Garbled} BY <1>6 DEF WriteHistory
  <2>3. writers' = writers \ {w} /\ saved' = saved \cup {w.call} BY <1>6 DEF WriteHistory
  <2> QED BY <1>1, <1>2, <2>1, <2>2, <2>3 DEF calls, Unreadable
<1> QED BY <1>4, <1>5, <1>6 DEF SaveStep

LEMMA NextDisk == DiskTypes /\ [RecoveryNext]_recoveryVars => DiskTypes'
<1> SUFFICES ASSUME DiskTypes, [RecoveryNext]_recoveryVars PROVE DiskTypes' OBVIOUS
<1> HIDE DEF Hook, Job, Slot, Entry
<1>0. RecoveryTypeOK /\ TypeOK BY DEF DiskTypes, RecoveryTypeOK
<1>1. IsFiniteSet(HeldOrders')
  <2>1. HeldOrders' \subseteq HeldOrders \cup pending BY <1>0, HeldMoves
  <2>2. IsFiniteSet(HeldOrders \cup pending) BY FS_Union DEF DiskTypes
  <2> QED BY <2>1, <2>2, FS_Subset
<1>2. ASSUME UNCHANGED vars PROVE TypeOK' /\ IsFiniteSet(pending') /\ history' = history
  <2>1. TypeOK' BY <1>0, <1>2, NextType
  <2> QED BY <1>2, <2>1 DEF DiskTypes, vars, executorVars, traderVars
<1>3. CASE Work
  <2>1. Next /\ UNCHANGED <<fileVars, tradesSync, ordersSync, saved, started, crashes, reloads>>
    BY <1>3 DEF Work
  <2>2. TypeOK' BY <1>0, <2>1, NextType
  <2>3. IsFiniteSet(pending')
    <3>1. CASE pending' \subseteq pending BY <3>1, FS_Subset DEF DiskTypes
    <3>2. ASSUME NEW o \in Order, pending' \subseteq pending \cup {o} PROVE IsFiniteSet(pending')
      <4>1. IsFiniteSet(pending \cup {o}) BY FS_AddElement DEF DiskTypes
      <4> QED BY <3>2, <4>1, FS_Subset
    <3> QED BY <1>0, <2>1, <3>1, <3>2, PendingGrows
  <2>4. Len(history) \in Nat /\ Len(history') \in Nat
        /\ (history' = history \/ Len(history') = Len(history) + 1)
        /\ 1..Len(history) \subseteq 1..Len(history')
    BY <1>0, <2>1, HistoryGrows
  <2>5. historyFile' \in Seq(1..Len(history')) \cup Unreadable
    BY <1>0, <2>1, <2>4, MoreCalls DEF RecoveryTypeOK, fileVars
  <2>6. \A w \in writers : w.call \in 1..Len(history') /\ w.got \in Seq(1..Len(history'))
    BY <2>4, MoreCalls DEF DiskTypes
  <2>7. ASSUME NEW by \in {"hook", "loop"}, Len(history') = Len(history) + 1
        PROVE  LET w == [call |-> Len(history'), pc |-> "read", got |-> <<>>, by |-> by]
               IN  /\ w \in Writer /\ w.call \in 1..Len(history')
                   /\ w.got \in Seq(1..Len(history'))
    BY <2>4, <2>7, EmptySeq DEF Writer
  <2>8. /\ writers' \subseteq Writer
        /\ \A w \in writers' : w.call \in 1..Len(history') /\ w.got \in Seq(1..Len(history'))
    <3>1. writers \subseteq Writer BY <1>0 DEF RecoveryTypeOK
    <3>2. CASE history' = history BY <1>3, <2>6, <3>1, <3>2 DEF Work
    <3>3. CASE history' # history
      <4>1. PICK by \in {"hook", "loop"} :
              writers' = writers \cup {[call |-> Len(history'), pc |-> "read", got |-> <<>>, by |-> by]}
        BY <1>3, <3>3 DEF Work
      <4> QED BY <2>4, <2>6, <2>7, <3>1, <3>3, <4>1
    <3> QED BY <3>2, <3>3
  <2> QED BY <1>0, <1>1, <2>1, <2>2, <2>3, <2>4, <2>5, <2>8
          DEF DiskTypes, RecoveryTypeOK, fileVars
<1>4. CASE TradesSync
  <2>1. activeFile' \in TradesFile \cup {Empty}
    BY <1>0, <1>4, TradesSyncMoves DEF RecoveryTypeOK
  <2> QED BY <1>0, <1>1, <1>2, <1>4, <2>1, TradesSyncMoves DEF TradesSync, DiskTypes, RecoveryTypeOK
<1>5. CASE OrdersSync
  <2>1. pendingFile' \in OrdersFile \cup {Empty}
    BY <1>0, <1>5, OrdersSyncMoves DEF RecoveryTypeOK
  <2> QED BY <1>0, <1>1, <1>2, <1>5, <2>1, OrdersSyncMoves DEF OrdersSync, DiskTypes, RecoveryTypeOK
<1>6. CASE \E w \in writers : SaveStep(w)
  <2>1. PICK w \in writers : SaveStep(w) BY <1>6
  <2>2. UNCHANGED <<vars, activeFile, pendingFile, tradesSync, ordersSync, started, crashes, reloads>>
    BY <2>1 DEF SaveStep
  <2> QED BY <1>0, <1>1, <1>2, <2>1, <2>2, SaveTypes DEF DiskTypes, RecoveryTypeOK
<1>7. CASE Crash
  <2>1. TypeOK' /\ IsFiniteSet(pending') BY <1>7, CrashTypes
  <2>2. history' = history BY <1>7 DEF Crash, RestartTrader
  <2>3. started' \in BOOLEAN BY <1>7 DEF Crash, RestartTrader
  <2>4. crashes' \in 0..MaxCrashes BY <1>0, <1>7, RecoveryAssumption DEF Crash, RecoveryTypeOK
  <2>5. reloads' \in [Trade -> Nat] BY <1>0, <1>7 DEF Crash, RecoveryTypeOK
  <2>6. /\ tradesSync' \in [todo : SUBSET Pool, copy : TradesFile, left : 0..MaxSaves]
        /\ ordersSync' \in [todo : SUBSET Pool, copy : OrdersFile, left : 0..MaxSaves]
    BY <1>0, <1>7 DEF Crash, RecoveryTypeOK, IdleTradesSync, IdleOrdersSync, NoTrades, NoOrders,
                      TradesFile, OrdersFile
  <2> QED BY <1>0, <1>1, <1>7, <2>1, <2>2, <2>3, <2>4, <2>5, <2>6
          DEF Crash, DiskTypes, RecoveryTypeOK, fileVars
<1>8. CASE UNCHANGED recoveryVars
  BY <1>0, <1>1, <1>2, <1>8 DEF recoveryVars, diskVars, fileVars, DiskTypes, RecoveryTypeOK
<1> QED BY <1>3, <1>4, <1>5, <1>6, <1>7, <1>8 DEF RecoveryNext

\* In every reachable state, whatever the crashes: every variable has its type, what a restart
\* loads is finite, and the history file holds numbers of calls that were made.
THEOREM DiskTyped == RecoverySpec => []DiskTypes
BY InitDisk, NextDisk, PTL DEF RecoverySpec

\* Every variable keeps its type through saves, crashes and restarts.
THEOREM RecoveryTypes == RecoverySpec => []RecoveryTypeOK
BY DiskTyped, PTL DEF DiskTypes

(***************************************************************************)
(* Sells have their buys                                                   *)
(***************************************************************************)

\* A buy on the chain stays there, through steps and restarts.
LEMMA StaysBought ==
  ASSUME RecoveryTypeOK, [RecoveryNext]_recoveryVars, NEW t \in Trade
  PROVE  bought[t] \in Nat /\ bought'[t] \in Nat /\ bought'[t] >= bought[t]
<1>0. TypeOK /\ bought \in [Trade -> Nat] BY DEF RecoveryTypeOK, TypeOK, ExecutorTypeOK
<1>1. CASE Work
  <2>1. [Next]_vars BY <1>1 DEF Work
  <2>2. bought' \in [Trade -> Nat] BY <1>0, <2>1, NextType DEF TypeOK, ExecutorTypeOK
  <2> QED BY <1>0, <2>1, <2>2, BoughtGrows
<1>2. CASE Crash BY <1>0, <1>2 DEF Crash, RestartExecutor
<1>3. CASE UNCHANGED vars BY <1>0, <1>3 DEF vars, executorVars
<1>4. TradesSync \/ OrdersSync \/ (\E w \in writers : SaveStep(w)) \/ UNCHANGED recoveryVars
        => UNCHANGED vars
  BY DEF TradesSync, OrdersSync, SaveStep, recoveryVars
<1> QED BY <1>1, <1>2, <1>3, <1>4 DEF RecoveryNext

\* A sell that a step of the tasks brings in is one of a trade that was bought.
LEMMA SellsOfBought ==
  ASSUME TypeOK, BoughtSells, [Next]_vars,
         NEW o \in Order, o.kind \in SellKind, Present(o)'
  PROVE  bought[o.trade] > 0
<1>1. Present(o) => bought[o.trade] > 0 BY DEF BoughtSells
<1>2. CASE \E h \in hooks : HookStep(h)
  <2>1. PICK h \in hooks : HookStep(h) BY <1>2
  <2>2. h.pc \in {"order", "send"} => bought[h.order.trade] > 0
    BY DEF BoughtSells, BuysLanded
  <2> QED BY <1>1, <2>1, <2>2, HookSends
<1>3. CASE SellLoop \/ \E p \in Pool : MarketTick(p)
  <2>1. Present(o) \/ trade[o.trade].slot["SimpleBuy"] = "Completed" BY <1>3, SellerSends
  <2> QED BY <1>1, <2>1, OrderParts DEF BoughtSells
<1>4. CASE \/ \E t \in Trade : Open(t)
           \/ \E q \in Order : HookStart(q)
           \/ FailLoop
  BY <1>1, <1>4, OthersAdd
<1>5. CASE UNCHANGED traderVars /\ (\/ Receive \/ TakeCancel
                                    \/ \E s \in Slot : Expire(s) \/ ExpireDisabled(s))
  BY <1>1, <1>5, LoopMoves
<1>6. CASE UNCHANGED traderVars /\ \E j \in jobs : JobStep(j) BY <1>1, <1>6, JobMoves
<1>7. CASE UNCHANGED vars
  BY <1>1, <1>7 DEF vars, executorVars, traderVars, Present, Queued, Executing, ValuesOf
<1> QED BY <1>2, <1>3, <1>4, <1>5, <1>6, <1>7 DEF Next, JobStep

\* A trade knows of its buy only from the hook that saw it executed.
LEMMA KnownBuys ==
  ASSUME TypeOK, BoughtSells, [Next]_vars, NEW t \in Trade,
         trade'[t].slot["SimpleBuy"] = "Completed"
  PROVE  bought[t] > 0
<1> DEFINE r == trade[t]
<1>1. r \in TradeRecord BY DEF TypeOK, TraderTypeOK
<1>2. r.slot["SimpleBuy"] = "Completed" => bought[t] > 0 BY DEF BoughtSells
<1>3. \A h \in hooks : (h.pc = "buy" /\ h.order.trade = t) => bought[t] > 0
  BY DEF BoughtSells, BuysLanded
<1>4. \A h \in hooks : h.pc = "sell" => h.order.kind \in SellKind
  <2>1. \A h \in hooks : h.order.kind \in Kind BY SavedTypes, OrderParts
  <2> QED BY <2>1 DEF BoughtSells, Kind
<1>5. \/ trade'[t] = r
      \/ trade'[t] = InitiateBuy(NewTrade)
      \/ bought[t] > 0
      \/ \E ks \in SUBSET SellKind : trade'[t] = InitiateSell(r, ks)
      \/ \E k \in SellKind : trade'[t] = Archive(ConfirmSell(r, k))
      \/ trade'[t] = Fail(r)
  BY <1>3, <1>4, RecordMoves
<1> HIDE DEF r
<1> QED BY <1>1, <1>2, <1>5, NewTradeType, BuySlots

LEMMA InitBought == RecoveryInit => BoughtSells
<1> SUFFICES ASSUME RecoveryInit PROVE BoughtSells OBVIOUS
<1>1. Init /\ TypeOK BY InitType DEF RecoveryInit
<1>2. Sells BY <1>1, InitSells
<1>3. hooks = {} BY <1>1 DEF Init, TraderInit
<1>4. \A o \in HeldOrders : o \in pending
  BY DEF RecoveryInit, HeldOrders, LoadedOrders, NoOrders, IdleOrdersSync
<1>5. \A e \in HeldTrades : \E t \in active : e = [trade |-> t, record |-> trade[t]]
  BY DEF RecoveryInit, HeldTrades, LoadedTrades, NoTrades, IdleTradesSync
<1>6. \A t \in Trade : trade[t].slot["SimpleBuy"] = "Completed" => bought[t] > 0
  BY <1>2 DEF Sells, Statuses
<1>7. active \subseteq Trade BY <1>1 DEF TypeOK, TraderTypeOK
<1>8. \A o \in Order : o.kind \in SellKind /\ Present(o) => bought[o.trade] > 0
  BY <1>2 DEF Sells, SellsConfirmed, Confirmed
<1>9. \A o \in pending : Present(o) BY DEF Present
<1> QED BY <1>2, <1>3, <1>4, <1>5, <1>6, <1>7, <1>8, <1>9 DEF BoughtSells, Sells

LEMMA NextBought ==
  ASSUME RecoveryTypeOK, BoughtSells, [RecoveryNext]_recoveryVars
  PROVE  BoughtSells'
<1>0. TypeOK BY DEF RecoveryTypeOK
<1>1. \A t \in Trade : bought[t] > 0 => bought'[t] > 0
  <2>1. \A m, n \in Nat : n >= m /\ m > 0 => n > 0 OBVIOUS
  <2> QED BY <2>1, StaysBought
<1>2. HeldOrders' \subseteq HeldOrders \cup pending
      /\ HeldTrades' \subseteq HeldTrades \cup {[trade |-> t, record |-> trade[t]] : t \in active}
  BY HeldMoves
<1>3. \A o \in Order : o.kind \in SellKind /\ o \in HeldOrders' => bought'[o.trade] > 0
  <2>1. \A o \in pending : Present(o) BY DEF Present
  <2> QED BY <1>1, <1>2, <2>1, OrderParts DEF BoughtSells
<1>4. HeldTrades \subseteq [trade : Trade, record : TradeRecord]
  BY LoadedTypes DEF HeldTrades, RecoveryTypeOK, TradesFile
<1>5. \A e \in HeldTrades' : e.record.slot["SimpleBuy"] = "Completed" => bought'[e.trade] > 0
  <2>1. active \subseteq Trade BY <1>0 DEF TypeOK, TraderTypeOK
  <2>2. \A e \in HeldTrades : e.trade \in Trade BY <1>4
  <2> QED BY <1>1, <1>2, <2>1, <2>2 DEF BoughtSells
<1>6. CASE [Next]_vars
  <2>1. \A o \in Order : o.kind \in SellKind /\ Present(o)' => bought'[o.trade] > 0
    BY <1>0, <1>1, <1>6, SellsOfBought, OrderParts
  <2>2. BuysLanded' BY <1>0, <1>6, BuysStayLanded DEF BoughtSells
  <2>3. \A g \in hooks' : g.order.kind = "SimpleBuy" <=> g.pc \in BuyPc
    <3>1. ASSUME NEW g \in hooks', g \notin hooks
          PROVE  g.order.kind = "SimpleBuy" <=> g.pc \in BuyPc
      BY <1>0, <1>6, <3>1, HookOrigins DEF BoughtSells, BuyPc
    <3> QED BY <3>1 DEF BoughtSells, BuyPc
  <2>4. \A t \in Trade : trade'[t].slot["SimpleBuy"] = "Completed" => bought'[t] > 0
    BY <1>0, <1>1, <1>6, KnownBuys
  <2> QED BY <1>3, <1>5, <2>1, <2>2, <2>3, <2>4 DEF BoughtSells, BuyPc
<1>7. CASE Crash
  <2>1. LoadedOrders.orders \subseteq HeldOrders BY DEF HeldOrders
  <2>2. ASSUME NEW o \in Order, Present(o)' PROVE o \in HeldOrders
    <3>1. /\ pending' = LoadedOrders.orders /\ chan' = <<>> /\ jobs' = {} /\ failed' = <<>>
          /\ executed' = [q \in Order |-> 0] /\ hooks' = {} /\ selling' = {}
      BY <1>7 DEF Crash, RestartExecutor, RestartTrader
    <3>2. Queued' \subseteq LoadedOrders.orders
      <4> DEFINE os == LoadedOrders.orders
                 n == Cardinality(os)
      <4>1. PICK l \in [1..n -> os] : queue' = QueueLoaded(l)
        BY <1>7 DEF Crash, RestartExecutor
      <4> QED BY <4>1 DEF QueueLoaded, Queued
    <3> QED BY <2>1, <2>2, <3>1, <3>2 DEF Present, ValuesOf, Executing
  <2>3. \A o \in Order : o.kind \in SellKind /\ Present(o)' => bought'[o.trade] > 0
    BY <1>1, <2>2, OrderParts DEF BoughtSells
  <2>4. BuysLanded'
    <3>1. jobs' = {} /\ hooks' = {} /\ executed' = [q \in Order |-> 0]
      BY <1>7 DEF Crash, RestartExecutor, RestartTrader
    <3>2. \A t \in Trade : executed'[OrderOf(t, "SimpleBuy")] = 0
      BY <3>1, OrderOfType DEF Kind
    <3> QED BY <3>1, <3>2 DEF BuysLanded
  <2>5. ASSUME NEW t \in Trade, trade'[t].slot["SimpleBuy"] = "Completed"
        PROVE  bought'[t] > 0
    <3>1. trade'[t] = IF t \in Loaded THEN LoadedRecord(t) ELSE trade[t]
      BY <1>7 DEF Crash, RestartTrader
    <3>2. CASE t \in Loaded
      <4>1. PICK e \in LoadedTrades.trades : e.trade = t /\ LoadedRecord(t) = e.record
        BY <3>2, LoadedTypes
      <4> QED BY <1>1, <2>5, <3>1, <3>2, <4>1 DEF BoughtSells, HeldTrades
    <3>3. CASE t \notin Loaded BY <1>1, <2>5, <3>1, <3>3 DEF BoughtSells
    <3> QED BY <3>2, <3>3
  <2>6. hooks' = {} BY <1>7 DEF Crash, RestartTrader
  <2> QED BY <1>3, <1>5, <2>3, <2>4, <2>5, <2>6 DEF BoughtSells
<1>8. Work \/ TradesSync \/ OrdersSync \/ (\E w \in writers : SaveStep(w)) \/ UNCHANGED recoveryVars
        => [Next]_vars
  BY DEF Work, TradesSync, OrdersSync, SaveStep, recoveryVars
<1> QED BY <1>6, <1>7, <1>8 DEF RecoveryNext

\* Through every restart, from however old a file: an order that sells is somewhere, in memory,
\* in a copy or in a file, only if its trade has been bought.
THEOREM BoughtSellsKept == RecoverySpec => []BoughtSells
BY InitBought, NextBought, RecoveryTypes, PTL DEF RecoverySpec

\* A restart never executes a sell for a trade that was not bought.
THEOREM RestartSellsBought == RecoverySpec => []SellsAreBought
<1>1. RecoveryTypeOK /\ BoughtSells => SellsAreBought
  <2>1. RecoveryTypeOK => LoadedOrders.orders \subseteq Order
    BY LoadedTypes DEF OrdersFile
  <2> QED BY <2>1 DEF SellsAreBought, BoughtSells, HeldOrders
<1> QED BY <1>1, BoughtSellsKept, RecoveryTypes, PTL

(***************************************************************************)
(* The trades in the file are open                                         *)
(***************************************************************************)

\* The tasks settle no record of a trade that stays active or is still being opened.
LEMMA StepKeepsOpen ==
  ASSUME TypeOK, OpenTrades, [Next]_vars, NEW t \in Trade
  PROVE  /\ t \in active' => opening'[t] = "opened"
         /\ t \in active' \/ opening'[t] \in {"detected", "send", "insert"} => OpenRecord(trade'[t])
<1> DEFINE r == trade[t]
<1>1. r \in TradeRecord BY DEF TypeOK, TraderTypeOK
<1>2. t \in active => opening[t] = "opened" BY DEF OpenTrades
<1>3. t \in active => opening'[t] = "opened" BY <1>2, OpenedForGood
<1>4. t \in active' => opening'[t] = "opened" BY <1>3, OpeningMoves
<1>5. ASSUME t \in active' \/ opening'[t] \in {"detected", "send", "insert"}
      PROVE  OpenRecord(trade'[t])
  <2>1. t \in active \/ opening[t] \in {"detected", "send", "insert"} BY <1>5, OpeningMoves
  <2>2. OpenRecord(r) BY <2>1 DEF OpenTrades
  <2>3. ~(t \in active /\ t \notin active') BY <1>3, <1>5
  <2>4. \/ trade'[t] = r
        \/ trade'[t] = InitiateBuy(NewTrade)
        \/ trade'[t] = ConfirmBuy(r)
        \/ \E ks \in SUBSET SellKind : trade'[t] = InitiateSell(r, ks)
    BY <2>3, RecordMoves
  <2> HIDE DEF r
  <2> QED BY <1>1, <2>2, <2>4, FirstRecords, StaysOpen
<1> QED BY <1>4, <1>5

LEMMA InitOpen == RecoveryInit => OpenTrades
<1> SUFFICES ASSUME RecoveryInit PROVE OpenTrades OBVIOUS
<1>1. Init /\ TypeOK BY InitType DEF RecoveryInit
<1>2. \A t \in active : opening[t] = "opened" BY <1>1, ExecutorAssumption DEF Init, TraderInit
<1>3. \A t \in Trade : OpenRecord(trade[t]) BY <1>1, FirstRecords DEF Init, TraderInit
<1>4. LoadedTrades.trades \subseteq {[trade |-> t, record |-> trade[t]] : t \in active}
  BY DEF RecoveryInit, LoadedTrades, NoTrades
<1>5. tradesSync.copy.trades = {} BY DEF RecoveryInit, IdleTradesSync, NoTrades
<1>6. active \subseteq Trade BY <1>1 DEF TypeOK, TraderTypeOK
<1> QED BY <1>2, <1>3, <1>4, <1>5, <1>6 DEF OpenTrades, HeldTrades

\* The copy takes each trade once, with the rest of its pool.
LEMMA CopyOnce ==
  ASSUME RecoveryTypeOK, OpenTrades, TradesSync
  PROVE  /\ \A e, f \in LoadedTrades'.trades : e.trade = f.trade => e = f
         /\ \A e, f \in tradesSync'.copy.trades : e.trade = f.trade => e = f
         /\ \A e \in tradesSync'.copy.trades : PoolOf[e.trade] \notin tradesSync'.todo
<1>1. CASE activeFile' = tradesSync.copy /\ tradesSync'.copy = NoTrades
  BY <1>1 DEF OpenTrades, LoadedTrades, NoTrades
<1>2. ASSUME NEW p \in tradesSync.todo,
             tradesSync'.todo = tradesSync.todo \ {p},
             tradesSync'.copy = CopyTrades(tradesSync.copy, p),
             activeFile' \in {activeFile, Empty}
      PROVE  /\ \A e, f \in LoadedTrades'.trades : e.trade = f.trade => e = f
             /\ \A e, f \in tradesSync'.copy.trades : e.trade = f.trade => e = f
             /\ \A e \in tradesSync'.copy.trades : PoolOf[e.trade] \notin tradesSync'.todo
  <2>1. LoadedTrades'.trades \subseteq LoadedTrades.trades
    BY <1>2 DEF LoadedTrades, Readable, Unreadable, NoTrades
  <2>2. tradesSync'.copy.trades \subseteq tradesSync.copy.trades \cup Records(p)
    BY <1>2 DEF CopyTrades
  <2>3. \A e \in Records(p) : PoolOf[e.trade] = p /\ e = [trade |-> e.trade, record |-> trade[e.trade]]
    BY DEF Records, Vec
  <2>4. \A e \in tradesSync.copy.trades : PoolOf[e.trade] # p BY <1>2 DEF OpenTrades
  <2>5. \A e, f \in Records(p) : e.trade = f.trade => e = f BY <2>3
  <2>6. \A e, f \in tradesSync'.copy.trades : e.trade = f.trade => e = f
    BY <2>2, <2>3, <2>4, <2>5 DEF OpenTrades
  <2>7. \A e \in tradesSync'.copy.trades : PoolOf[e.trade] \notin tradesSync'.todo
    BY <1>2, <2>2, <2>3 DEF OpenTrades
  <2> QED BY <2>1, <2>6, <2>7 DEF OpenTrades
<1> QED BY <1>1, <1>2, TradesSyncMoves

LEMMA NextOpen ==
  ASSUME RecoveryTypeOK, OpenTrades, [RecoveryNext]_recoveryVars
  PROVE  OpenTrades'
<1>0. TypeOK /\ active \subseteq Trade BY DEF RecoveryTypeOK, TypeOK, TraderTypeOK
<1>1. \A e \in HeldTrades' : OpenRecord(e.record)
  BY <1>0, HeldMoves DEF OpenTrades
<1>2. /\ \A e, f \in LoadedTrades'.trades : e.trade = f.trade => e = f
      /\ \A e, f \in tradesSync'.copy.trades : e.trade = f.trade => e = f
      /\ \A e \in tradesSync'.copy.trades : PoolOf[e.trade] \notin tradesSync'.todo
  <2>1. CASE TradesSync BY <2>1, CopyOnce
  <2>2. CASE UNCHANGED <<activeFile, tradesSync>> BY <2>2 DEF OpenTrades, LoadedTrades
  <2>3. CASE Crash
    <3>1. activeFile' = activeFile /\ tradesSync'.copy.trades = {}
      BY <2>3 DEF Crash, fileVars, IdleTradesSync, NoTrades
    <3> QED BY <3>1 DEF OpenTrades, LoadedTrades
  <2>4. Work \/ OrdersSync \/ (\E w \in writers : SaveStep(w)) \/ UNCHANGED recoveryVars
          => UNCHANGED <<activeFile, tradesSync>>
    BY DEF Work, OrdersSync, SaveStep, recoveryVars, diskVars, fileVars
  <2> QED BY <2>1, <2>2, <2>3, <2>4 DEF RecoveryNext
<1>3. /\ \A t \in active' : opening'[t] = "opened"
      /\ \A t \in Trade : t \in active' \/ opening'[t] \in {"detected", "send", "insert"} =>
           OpenRecord(trade'[t])
  <2>1. CASE [Next]_vars
    <3>1. active' \subseteq Trade BY <1>0, <2>1, NextType DEF TypeOK, TraderTypeOK
    <3> QED BY <1>0, <2>1, <3>1, StepKeepsOpen
  <2>2. CASE Crash
    <3>1. active' = Loaded /\ Loaded \subseteq Trade
      BY <2>2, LoadedTypes DEF Crash, RestartTrader
    <3>2. \A t \in Trade :
            /\ trade'[t] = (IF t \in Loaded THEN LoadedRecord(t) ELSE trade[t])
            /\ opening'[t] = IF t \in Loaded THEN "opened"
                             ELSE IF opening[t] = "detected" THEN "detected" ELSE "dropped"
      BY <2>2 DEF Crash, RestartTrader
    <3>3. \A t \in Loaded : OpenRecord(LoadedRecord(t))
      BY LoadedTypes DEF OpenTrades, HeldTrades
    <3> QED BY <3>1, <3>2, <3>3 DEF OpenTrades
  <2>3. Work \/ TradesSync \/ OrdersSync \/ (\E w \in writers : SaveStep(w))
          \/ UNCHANGED recoveryVars => [Next]_vars
    BY DEF Work, TradesSync, OrdersSync, SaveStep, recoveryVars
  <2> QED BY <2>1, <2>2, <2>3 DEF RecoveryNext
<1> QED BY <1>1, <1>2, <1>3 DEF OpenTrades

\* In every reachable state a trade is unsettled for as long as a restart may bring it back.
THEOREM OpenTradesKept == RecoverySpec => []OpenTrades
BY InitOpen, NextOpen, RecoveryTypes, PTL DEF RecoverySpec

\* The file of active trades holds each trade once, unsettled, and with its buy on the chain if
\* the trade knows of it, whenever it was written.
THEOREM FileStaysOpen == RecoverySpec => []FileHoldsOpenTrades
<1>1. OpenTrades /\ BoughtSells => FileHoldsOpenTrades
  BY DEF OpenTrades, BoughtSells, FileHoldsOpenTrades, HeldTrades, OpenRecord
<1> QED BY <1>1, OpenTradesKept, BoughtSellsKept, PTL

(***************************************************************************)
(* How often a trade is bought                                             *)
(***************************************************************************)

LEMMA InitBuys == RecoveryInit => BuysLeft
<1> SUFFICES ASSUME RecoveryInit PROVE BuysLeft OBVIOUS
<1>1. Init /\ Positions BY InitPositions DEF RecoveryInit
<1>2. \A o \in pending : o.kind = "HoldTime" BY <1>1 DEF Init, ExecutorInit, OrderOf
<1>3. \A o \in HeldOrders : o \in pending
  BY DEF RecoveryInit, HeldOrders, LoadedOrders, NoOrders, IdleOrdersSync
<1>4. \A t \in Trade : reloads[t] = 0 BY DEF RecoveryInit
<1>5. \A t \in Trade : BuyCount(t) <= 1 + reloads[t] BY <1>1, <1>4 DEF Positions
<1> QED BY <1>1, <1>2, <1>3, <1>5 DEF BuysLeft, Positions

\* Between restarts nothing adds a buy to those a trade has.
LEMMA StepKeepsBuys ==
  ASSUME RecoveryTypeOK, BuysLeft, [Next]_vars, reloads' = reloads,
         HeldOrders' \subseteq HeldOrders \cup pending
  PROVE  BuysLeft'
<1>0. TypeOK /\ TypeOK' BY NextType DEF RecoveryTypeOK
<1>1. OneBuy' /\ \A t \in Trade : BuyCount(t)' <= BuyCount(t)
  BY <1>0, OneBuyKept DEF BuysLeft
<1>2. HeldOrders \subseteq Order /\ pending \subseteq Order
  BY <1>0, LoadedTypes DEF HeldOrders, RecoveryTypeOK, OrdersFile, TypeOK, ExecutorTypeOK
<1>3. ASSUME NEW o \in pending' \cup HeldOrders', o.kind = "SimpleBuy"
      PROVE  opening'[o.trade] # "detected"
  <2>1. CASE o \in HeldOrders \cup pending
    <3>1. o.trade \in Trade /\ opening[o.trade] # "detected"
      BY <1>2, <1>3, <2>1, OrderParts DEF BuysLeft
    <3> QED BY <1>0, <3>1, OpeningMoves
  <2>2. CASE o \notin HeldOrders \cup pending
    <3>1. o \in pending' BY <1>3, <2>2
    <3>2. SellerSells BY DEF BuysLeft, OneBuy
    <3> QED BY <1>0, <1>3, <2>2, <3>1, <3>2, PendingGrows
  <2> QED BY <2>1, <2>2
<1>4. ASSUME NEW t \in Trade PROVE BuyCount(t)' <= 1 + reloads'[t]
  <2>1. bought[t] \in Nat /\ bought'[t] \in Nat /\ reloads[t] \in Nat
    BY <1>0 DEF TypeOK, ExecutorTypeOK, RecoveryTypeOK
  <2>2. BuyCount(t) \in Nat /\ BuyCount(t)' \in Nat BY <2>1 DEF BuyCount
  <2>3. BuyCount(t) <= 1 + reloads[t] /\ BuyCount(t)' <= BuyCount(t) /\ reloads'[t] = reloads[t]
    BY <1>1 DEF BuysLeft
  <2> QED BY <2>1, <2>2, <2>3
<1> QED BY <1>1, <1>3, <1>4 DEF BuysLeft

\* A restart finds the buy of a trade once, or not at all; one that landed already counts.
LEMMA CrashKeepsBuys ==
  ASSUME RecoveryTypeOK, BuysLeft, Crash, HeldOrders' \subseteq HeldOrders \cup pending
  PROVE  BuysLeft'
<1> HIDE DEF Slot
<1> DEFINE os == LoadedOrders.orders
           n == Cardinality(os)
<1>1. os \subseteq Order /\ os \subseteq HeldOrders
  BY LoadedTypes DEF HeldOrders, OrdersFile
<1>2. /\ pending' = os /\ chan' = <<>> /\ jobs' = {} /\ bought' = bought /\ selling' = {}
      /\ reloads' = [t \in Trade |-> IF OrderOf(t, "SimpleBuy") \in os /\ bought[t] > 0
                                     THEN reloads[t] + 1 ELSE reloads[t]]
      /\ opening' = [t \in Trade |-> IF t \in Loaded THEN "opened"
                                     ELSE IF opening[t] = "detected" THEN "detected"
                                     ELSE "dropped"]
  BY DEF Crash, RestartExecutor, RestartTrader
<1>3. PICK l \in [1..n -> os] :
        /\ \A i, j \in 1..n : l[i] = l[j] => i = j
        /\ queue' = QueueLoaded(l)
  BY DEF Crash, RestartExecutor
<1>4. \A t \in Trade : opening'[t] # "send" /\ (opening'[t] = "detected" => opening[t] = "detected")
  BY <1>2
<1>5. ASSUME NEW t \in Trade
      PROVE  /\ InChan(t)' = {} /\ ToRun(t)' = {}
             /\ \A r, s \in InQueue(t)' : r = s
             /\ InQueue(t)' # {} => OrderOf(t, "SimpleBuy") \in os
  <2> DEFINE buy == OrderOf(t, "SimpleBuy")
  <2>1. buy # NoOrder BY OrderOfType, ExecutorAssumption DEF Kind
  <2> HIDE DEF buy
  <2>2. \A s \in InQueue(t)' : s \in 1..n /\ l[s] = buy
    BY <1>3, <2>1 DEF InQueue, QueueLoaded, buy
  <2> QED BY <1>2, <1>3, <2>2 DEF InChan, ToRun, buy
<1>6. \A t \in Trade : OrderOf(t, "SimpleBuy") \in os => opening[t] # "detected"
  BY <1>1 DEF BuysLeft, OrderOf
<1>7. OneBuy'
  <2>1. \A t \in Trade : OneBuyOf(t)' BY <1>4, <1>5, <1>6 DEF OneBuyOf
  <2> QED BY <1>2, <2>1 DEF OneBuy, SellerSells
<1>8. ASSUME NEW t \in Trade PROVE BuyCount(t)' <= 1 + reloads'[t]
  <2>1. bought[t] \in Nat /\ reloads[t] \in Nat
    BY DEF RecoveryTypeOK, TypeOK, ExecutorTypeOK
  <2>2. BuyAhead(t)' => opening[t] = "detected" \/ OrderOf(t, "SimpleBuy") \in os
    BY <1>4, <1>5 DEF BuyAhead
  <2>3. opening[t] = "detected" => BuyAhead(t) BY DEF BuyAhead
  <2>4. bought[t] + (IF BuyAhead(t) THEN 1 ELSE 0) <= 1 + reloads[t]
    BY DEF BuysLeft, BuyCount
  <2>5. BuyCount(t)' = bought[t] + (IF BuyAhead(t)' THEN 1 ELSE 0) BY <1>2 DEF BuyCount
  <2>6. reloads'[t] = IF OrderOf(t, "SimpleBuy") \in os /\ bought[t] > 0
                      THEN reloads[t] + 1 ELSE reloads[t]
    BY <1>2
  <2>7. CASE ~BuyAhead(t)'
    <3>1. BuyCount(t)' = bought[t] BY <2>1, <2>5, <2>7
    <3>2. bought[t] <= 1 + reloads[t] BY <2>1, <2>4
    <3>3. reloads'[t] \in Nat /\ reloads[t] <= reloads'[t] BY <2>1, <2>6
    <3> HIDE DEF os
    <3> QED BY <2>1, <3>1, <3>2, <3>3
  <2>8. CASE BuyAhead(t)' /\ opening[t] = "detected"
    <3>1. BuyCount(t)' = bought[t] + 1 BY <2>5, <2>8
    <3>2. bought[t] + 1 <= 1 + reloads[t] BY <2>1, <2>3, <2>4, <2>8
    <3>3. reloads'[t] \in Nat /\ reloads[t] <= reloads'[t] BY <2>1, <2>6
    <3> HIDE DEF os
    <3> QED BY <2>1, <3>1, <3>2, <3>3
  <2>9. CASE BuyAhead(t)' /\ OrderOf(t, "SimpleBuy") \in os
    <3>1. BuyCount(t)' = bought[t] + 1 BY <2>5, <2>9
    <3>2. CASE bought[t] = 0 BY <2>1, <2>6, <3>1, <3>2
    <3>3. CASE bought[t] > 0
      <4>1. reloads'[t] = reloads[t] + 1 BY <2>6, <2>9, <3>3
      <4>2. bought[t] <= 1 + reloads[t] BY <2>1, <2>4
      <4> QED BY <2>1, <3>1, <4>1, <4>2
    <3> QED BY <2>1, <3>2, <3>3
  <2> QED BY <2>2, <2>7, <2>8, <2>9
<1>9. \A o \in pending' \cup HeldOrders' : o.kind = "SimpleBuy" => opening'[o.trade] # "detected"
  <2>1. HeldOrders \subseteq Order /\ pending \subseteq Order
    BY LoadedTypes DEF HeldOrders, RecoveryTypeOK, OrdersFile, TypeOK, ExecutorTypeOK
  <2>2. \A o \in HeldOrders \cup pending : o.kind = "SimpleBuy" => opening[o.trade] # "detected"
    BY DEF BuysLeft
  <2>3. pending' \cup HeldOrders' \subseteq HeldOrders \cup pending BY <1>1, <1>2
  <2> QED BY <1>4, <2>1, <2>2, <2>3, OrderParts
<1> QED BY <1>7, <1>8, <1>9 DEF BuysLeft

\* In every reachable state a trade has one buy at most to come, and those that landed beyond
\* the first are paid for by restarts that found a landed one pending.
THEOREM BuysCounted == RecoverySpec => []BuysLeft
<1>1. RecoveryTypeOK /\ BuysLeft /\ [RecoveryNext]_recoveryVars => BuysLeft'
  <2> SUFFICES ASSUME RecoveryTypeOK, BuysLeft, [RecoveryNext]_recoveryVars PROVE BuysLeft'
    OBVIOUS
  <2>1. HeldOrders' \subseteq HeldOrders \cup pending BY HeldMoves
  <2>2. CASE Crash BY <2>1, <2>2, CrashKeepsBuys
  <2>3. Work \/ TradesSync \/ OrdersSync \/ (\E w \in writers : SaveStep(w))
          \/ UNCHANGED recoveryVars => [Next]_vars /\ reloads' = reloads
    BY DEF Work, TradesSync, OrdersSync, SaveStep, recoveryVars
  <2> QED BY <2>1, <2>2, <2>3, StepKeepsBuys DEF RecoveryNext
<1> QED BY <1>1, InitBuys, RecoveryTypes, PTL DEF RecoverySpec

\* However often the process dies and whatever the age of the files, the buy of a trade lands
\* once, and once more at most per restart that found it landed and still pending.
THEOREM BoughtAgainOnlyByRestart == RecoverySpec => []BoughtAgainByRestart
<1>1. RecoveryTypeOK /\ BuysLeft => BoughtAgainByRestart
  <2> SUFFICES ASSUME RecoveryTypeOK, BuysLeft, NEW t \in Trade
               PROVE  bought[t] <= 1 + reloads[t]
    BY DEF BoughtAgainByRestart
  <2>1. bought[t] \in Nat /\ reloads[t] \in Nat
    BY DEF RecoveryTypeOK, TypeOK, ExecutorTypeOK
  <2>2. bought[t] + (IF BuyAhead(t) THEN 1 ELSE 0) <= 1 + reloads[t]
    BY DEF BuysLeft, BuyCount
  <2> QED BY <2>1, <2>2
<1> QED BY <1>1, BuysCounted, RecoveryTypes, PTL

(***************************************************************************)
(* How often a trade is recorded as sold                                   *)
(***************************************************************************)

\* The failed-orders loop settles the trades it takes out as failed.
LEMMA FailingMoves ==
  ASSUME TypeOK, [Next]_vars, NEW f \in failing'
  PROVE  \/ \E g \in failing : g.order = f.order
         \/ LET t == f.order.trade
            IN  t \in active /\ t \notin active' /\ trade'[t].status = "Error"
<1>1. CASE FailTake
  <2> DEFINE o == Head(failed)
             t == o.trade
  <2>1. CASE t \in active
    <3>1. /\ trade' = [trade EXCEPT ![t] = Fail(@)] /\ active' = active \ {t}
          /\ failing' = {[order |-> o, pc |-> IF Vec(PoolOf[t]) = {t} THEN "evict" ELSE "save"]}
      BY <1>1, <2>1 DEF FailTake, Found
    <3>2. f.order = o BY <3>1
    <3>3. trade \in [Trade -> TradeRecord] /\ t \in Trade
      BY <2>1 DEF TypeOK, TraderTypeOK
    <3>4. trade'[t] = Fail(trade[t]) /\ trade[t] \in TradeRecord BY <3>1, <3>3
    <3>5. trade'[t].status = "Error" BY <3>4, StatusUpdates
    <3> QED BY <2>1, <3>1, <3>2, <3>5
  <2>2. CASE t \notin active BY <1>1, <2>2 DEF FailTake, Found
  <2> QED BY <2>1, <2>2
<1>2. CASE FailEvict
  <2>1. PICK g \in failing : failing' = {[g EXCEPT !.pc = "save"]} BY <1>2 DEF FailEvict
  <2>2. f.order = g.order BY <2>1 DEF TypeOK, TraderTypeOK
  <2> QED BY <2>2
<1>3. CASE FailSave BY <1>3 DEF FailSave
<1>4. CASE \E t \in Trade : Open(t)
  BY <1>4 DEF Open, OpenDrop, OpenOrder, OpenSend, OpenInsert
<1>5. CASE \E o \in Order : HookStart(o) BY <1>5 DEF HookStart
<1>6. CASE \E h \in hooks : HookStep(h)
  BY <1>6 DEF HookStep, HookBuy, HookRegister, HookOrder, HookSend, HookWatch, HookSell,
              HookEvict, HookCancel, HookSave
<1>7. CASE SellLoop \/ \E p \in Pool : MarketTick(p)
  BY <1>7 DEF SellLoop, SellRegister, SellOrder, SellSend, MarketTick
<1>8. CASE UNCHANGED traderVars BY <1>8 DEF traderVars
<1>9. CASE UNCHANGED vars BY <1>9 DEF vars, traderVars
<1> QED BY <1>1, <1>2, <1>3, <1>4, <1>5, <1>6, <1>7, <1>8, <1>9 DEF Next, FailLoop

\* A hook that saves was one that saved, or it has just settled its trade.
LEMMA SavingStarts ==
  ASSUME TypeOK, [Next]_vars, NEW g \in SavingHooks', g \notin SavingHooks
  PROVE  \E h \in hooks :
           /\ g.order = h.order /\ hooks' = (hooks \ {h}) \cup {g} /\ g \notin hooks
           /\ \/ h \in SavingHooks
              \/ /\ h.pc = "sell" /\ h.order.trade \in active
                 /\ h.order.trade \notin active'
<1>1. g \in hooks' /\ g \notin hooks /\ g.pc \in {"evict", "cancel", "save"} BY DEF SavingHooks
<1>2. PICK h \in hooks :
        /\ g.order = h.order /\ hooks' = (hooks \ {h}) \cup {g}
        /\ h \in SavingHooks \/ (HookSell(h) /\ Sellable(h.order.trade))
  BY <1>1, HookOrigins
<1>3. HookSell(h) /\ Sellable(h.order.trade)
        => h.pc = "sell" /\ h.order.trade \in active /\ h.order.trade \notin active'
  BY DEF HookSell, Sellable, Found
<1> QED BY <1>1, <1>2, <1>3

\* One task at most saves a trade, and for good: it is not active again.
LEMMA StepKeepsSaving ==
  ASSUME TypeOK, OpenTrades, Saving, [Next]_vars
  PROVE  Saving'
<1>0. /\ \A h \in hooks : h.order.trade \in Trade
      /\ \A f \in failing : f.order.trade \in Trade
  BY SavedTypes
<1>1. ASSUME NEW t \in BeingSaved PROVE t \in Trade /\ t \notin active' /\ opening'[t] = "opened"
  <2>1. t \in Trade BY SavedTypes
  <2>2. t \notin active /\ opening[t] = "opened" BY DEF Saving
  <2> QED BY <2>1, <2>2, OpenedForGood
<1>2. ASSUME NEW t \in Trade, t \in active, t \notin active'
      PROVE  t \notin active' /\ opening'[t] = "opened"
  <2>1. opening[t] = "opened" BY <1>2 DEF OpenTrades
  <2> QED BY <1>2, <2>1, OpenedForGood
<1>3. ASSUME NEW t \in BeingSaved' PROVE t \notin active' /\ opening'[t] = "opened"
  <2>1. CASE \E g \in SavingHooks' : t = g.order.trade
    <3>1. PICK g \in SavingHooks' : t = g.order.trade BY <2>1
    <3>2. CASE g \in SavingHooks BY <1>1, <3>1, <3>2 DEF BeingSaved
    <3>3. CASE g \notin SavingHooks
      <4>1. PICK h \in hooks :
              /\ g.order = h.order
              /\ h \in SavingHooks \/ (h.order.trade \in active /\ h.order.trade \notin active')
        BY <3>3, SavingStarts
      <4> QED BY <1>0, <1>1, <1>2, <3>1, <4>1 DEF BeingSaved
    <3> QED BY <3>2, <3>3
  <2>2. CASE \E f \in failing' : t = f.order.trade
    <3>1. PICK f \in failing' : t = f.order.trade BY <2>2
    <3>2. CASE \E g \in failing : g.order = f.order BY <1>1, <3>1, <3>2 DEF BeingSaved
    <3>3. CASE t \in active /\ t \notin active'
      <4>1. t \in Trade BY <3>3 DEF TypeOK, TraderTypeOK
      <4> QED BY <1>2, <3>3, <4>1
    <3> QED BY <3>1, <3>2, <3>3, FailingMoves
  <2> QED BY <2>1, <2>2 DEF BeingSaved
<1>4. ASSUME NEW g \in SavingHooks', NEW h \in SavingHooks', g.order.trade = h.order.trade
      PROVE  g = h
  <2>1. CASE g \in SavingHooks /\ h \in SavingHooks BY <1>4, <2>1 DEF Saving
  <2>2. ASSUME NEW a \in SavingHooks', NEW b \in SavingHooks', a \notin SavingHooks,
               a.order.trade = b.order.trade
        PROVE  a = b
    <3>1. PICK c \in hooks :
            /\ a.order = c.order /\ hooks' = (hooks \ {c}) \cup {a}
            /\ c \in SavingHooks \/ c.order.trade \in active
      BY <2>2, SavingStarts
    <3> SUFFICES ASSUME a # b PROVE FALSE OBVIOUS
    <3>2. b \in hooks /\ b # c BY <3>1 DEF SavingHooks
    <3>3. b \in SavingHooks BY <3>2 DEF SavingHooks
    <3>4. c \notin SavingHooks BY <2>2, <3>1, <3>2, <3>3 DEF Saving
    <3>5. b.order.trade \notin active BY <3>3 DEF Saving, BeingSaved
    <3> QED BY <2>2, <3>1, <3>4, <3>5
  <2> QED BY <1>4, <2>1, <2>2
<1>5. ASSUME NEW f \in failing' PROVE trade'[f.order.trade].status = "Error"
  <2>1. CASE \E g \in failing : g.order = f.order
    <3>1. PICK g \in failing : g.order = f.order BY <2>1
    <3> DEFINE t == g.order.trade
    <3>2. t \in Trade /\ t \notin active /\ opening[t] = "opened" /\ trade[t].status = "Error"
      BY <1>0 DEF Saving, BeingSaved
    <3>3. trade'[t] = trade[t] BY <3>2, RecordMoves
    <3> QED BY <3>1, <3>2, <3>3
  <2> QED BY <2>1, FailingMoves
<1> QED BY <1>3, <1>4, <1>5 DEF Saving

\* In every reachable state one task at most is about to save a trade.
THEOREM SavingKept == RecoverySpec => []Saving
<1>1. RecoveryInit => Saving
  BY DEF RecoveryInit, Init, TraderInit, Saving, BeingSaved, SavingHooks
<1>2. RecoveryTypeOK /\ OpenTrades /\ Saving /\ [RecoveryNext]_recoveryVars => Saving'
  <2> SUFFICES ASSUME RecoveryTypeOK, OpenTrades, Saving, [RecoveryNext]_recoveryVars
               PROVE  Saving'
    OBVIOUS
  <2>1. CASE [Next]_vars BY <2>1, StepKeepsSaving DEF RecoveryTypeOK
  <2>2. CASE Crash
    <3>1. hooks' = {} /\ failing' = {} BY <2>2 DEF Crash, RestartTrader
    <3> QED BY <3>1 DEF Saving, BeingSaved, SavingHooks
  <2>3. Work \/ TradesSync \/ OrdersSync \/ (\E w \in writers : SaveStep(w))
          \/ UNCHANGED recoveryVars => [Next]_vars
    BY DEF Work, TradesSync, OrdersSync, SaveStep, recoveryVars
  <2> QED BY <2>1, <2>2, <2>3 DEF RecoveryNext
<1> QED BY <1>1, <1>2, OpenTradesKept, RecoveryTypes, PTL DEF RecoverySpec

\* Another sell is on its way to a hook only after it landed.
LEMMA SalesAhead ==
  ASSUME TypeOK, [Next]_vars, NEW t \in Trade, SoldAhead(t)'
  PROVE  SoldAhead(t) \/ sold'[t] = sold[t] + 1
<1> HIDE DEF Hook, Job, Slot
<1>0. /\ jobs \subseteq Job /\ sold \in [Trade -> Nat] /\ executed \in [Order -> Nat]
      /\ \A j \in jobs : j \in Job /\ j.order \in Order
      /\ \A k \in SellKind : OrderOf(t, k) \in Order
  BY OrderOfType DEF TypeOK, ExecutorTypeOK, Job, Kind
<1>1. ASSUME NEW i \in jobs', i.order.trade = t, i.order.kind \in SellKind, i.ok,
             i.pc = "report"
      PROVE  SoldAhead(t) \/ sold'[t] = sold[t] + 1
  <2>1. CASE i \in jobs BY <1>1, <2>1 DEF SoldAhead
  <2>2. ASSUME NEW j \in jobs, Run(j), i \notin jobs PROVE sold'[t] = sold[t] + 1
    <3>1. PICK ok \in BOOLEAN :
            /\ \/ CanLand(j.order) /\ Land(j.order)
               \/ ~ok /\ UNCHANGED <<bought, sold>>
            /\ jobs' = (jobs \ {j}) \cup {[j EXCEPT !.pc = "report", !.ok = ok]}
      BY <2>2 DEF Run
    <3>2. i = [j EXCEPT !.pc = "report", !.ok = ok] BY <2>2, <3>1
    <3>3. i.order = j.order /\ i.ok = ok BY <1>0, <3>2 DEF Job
    <3>4. Land(j.order) BY <1>1, <3>1, <3>3
    <3>5. j.order.kind # "SimpleBuy" BY <1>1, <3>3 DEF SellKind
    <3>6. sold' = [sold EXCEPT ![t] = @ + 1] BY <1>1, <3>3, <3>4, <3>5 DEF Land
    <3> QED BY <1>0, <3>6
  <2>3. CASE \E j \in jobs : Report(j) \/ Retain(j) \/ Evict(j)
    <3>1. PICK j \in jobs : Report(j) \/ Retain(j) \/ Evict(j) BY <2>3
    <3>2. \A g \in jobs' : g \in jobs \/ \E pc \in {"retain", "evict"} : g = [j EXCEPT !.pc = pc]
      BY <3>1 DEF Report, Retain, Evict, Goto, End
    <3>3. \A pc \in {"retain", "evict"} : [j EXCEPT !.pc = pc].pc = pc BY <1>0 DEF Job
    <3>4. i \in jobs BY <1>1, <3>2, <3>3
    <3> QED BY <2>1, <3>4
  <2>4. CASE \E s \in Slot : Expire(s) BY <1>1, <2>1, <2>4 DEF Expire
  <2>5. CASE jobs' = jobs BY <2>1, <2>5
  <2>6. CASE \E u \in Trade : Open(u)
    BY <2>5, <2>6 DEF Open, OpenDrop, OpenOrder, OpenSend, OpenInsert, Pushed, Sent, ExecutorIdle,
                      executorVars
  <2>7. CASE (\E h \in hooks : HookStep(h)) \/ \E o \in Order : HookStart(o)
    BY <2>5, <2>7 DEF HookStart, HookStep, HookBuy, HookRegister, HookOrder, HookSend, HookWatch,
                      HookSell, HookEvict, HookCancel, HookSave, Pushed, Sent, ExecutorIdle,
                      executorVars
  <2>8. CASE FailLoop \/ SellLoop \/ \E p \in Pool : MarketTick(p)
    BY <2>5, <2>8 DEF FailLoop, FailTake, FailEvict, FailSave, SellLoop, SellRegister, SellOrder,
                      SellSend, MarketTick, Pushed, Sent, ExecutorIdle, executorVars
  <2>9. CASE Receive \/ TakeCancel \/ (\E s \in Slot : ExpireDisabled(s)) \/ UNCHANGED vars
    BY <2>5, <2>9 DEF Receive, TakeCancel, ExpireDisabled, vars, executorVars
  <2> QED BY <2>1, <2>2, <2>3, <2>4, <2>6, <2>7, <2>8, <2>9 DEF Next
<1>2. ASSUME NEW k \in SellKind, executed'[OrderOf(t, k)] > 0
      PROVE  SoldAhead(t)
  <2> DEFINE o == OrderOf(t, k)
  <2>1. o \in Order /\ o.trade = t /\ o.kind = k BY <1>0 DEF OrderOf
  <2> HIDE DEF o
  <2>2. executed[o] > 0 => SoldAhead(t) BY DEF SoldAhead, o
  <2>3. CASE \E j \in jobs : JobStep(j)
    <3>1. PICK j \in jobs : JobStep(j) BY <2>3
    <3>2. executed' = executed
            \/ (j.pc = "report" /\ j.ok /\ executed' = [executed EXCEPT ![j.order] = @ + 1])
      BY <3>1 DEF JobStep, Run, Report, Retain, Evict
    <3>3. executed[o] > 0 \/ (j.pc = "report" /\ j.ok /\ j.order = o)
      BY <1>0, <1>2, <2>1, <3>2 DEF o
    <3> QED BY <2>1, <2>2, <3>3 DEF SoldAhead
  <2>4. CASE \E q \in Order : HookStart(q)
    <3>1. PICK q \in Order : executed' = [executed EXCEPT ![q] = @ - 1] /\ executed[q] > 0
      BY <2>4 DEF HookStart
    <3>2. executed[o] > 0 BY <1>0, <1>2, <2>1, <3>1 DEF o
    <3> QED BY <2>2, <3>2
  <2>5. CASE executed' = executed BY <1>2, <2>2, <2>5 DEF o
  <2>6. CASE \E u \in Trade : Open(u)
    BY <2>5, <2>6 DEF Open, OpenDrop, OpenOrder, OpenSend, OpenInsert, Pushed, Sent, ExecutorIdle,
                      executorVars
  <2>7. CASE \E h \in hooks : HookStep(h)
    BY <2>5, <2>7 DEF HookStep, HookBuy, HookRegister, HookOrder, HookSend, HookWatch,
                      HookSell, HookEvict, HookCancel, HookSave, Pushed, Sent, ExecutorIdle,
                      executorVars
  <2>8. CASE FailLoop \/ SellLoop \/ \E p \in Pool : MarketTick(p)
    BY <2>5, <2>8 DEF FailLoop, FailTake, FailEvict, FailSave, SellLoop, SellRegister, SellOrder,
                      SellSend, MarketTick, Pushed, Sent, ExecutorIdle, executorVars
  <2>9. CASE \/ Receive \/ TakeCancel
             \/ \E s \in Slot : Expire(s) \/ ExpireDisabled(s)
             \/ UNCHANGED vars
    BY <2>5, <2>9 DEF Receive, TakeCancel, Expire, ExpireDisabled, vars, executorVars
  <2> QED BY <2>3, <2>4, <2>6, <2>7, <2>8, <2>9 DEF Next, JobStep
<1>3. ASSUME NEW g \in hooks', g.order.trade = t, g.pc = "sell"
      PROVE  SoldAhead(t)
  <2>1. CASE g \in hooks BY <1>3, <2>1 DEF SoldAhead
  <2>2. CASE g \notin hooks
    <3>1. g.order \in Order /\ executed[g.order] > 0 /\ g.order.kind # "SimpleBuy"
      BY <1>3, <2>2, HookOrigins
    <3>2. g.order.kind \in SellKind /\ g.order = OrderOf(t, g.order.kind)
      BY <1>3, <3>1 DEF Order, Kind, OrderOf
    <3> QED BY <3>1, <3>2 DEF SoldAhead
  <2> QED BY <2>1, <2>2
<1> QED BY <1>1, <1>2, <1>3 DEF SoldAhead

\* A trade that may be saved as completed could be so before, or a sell of it has just landed.
LEMMA MaySaveMoves ==
  ASSUME TypeOK, [Next]_vars, NEW t \in Trade, MaySave(t)'
  PROVE  MaySave(t) \/ sold'[t] = sold[t] + 1
<1>1. CASE SoldAhead(t)' /\ (t \in active' \/ opening'[t] # "opened")
  <2>1. SoldAhead(t) \/ sold'[t] = sold[t] + 1 BY <1>1, SalesAhead
  <2>2. t \in active \/ opening[t] # "opened" BY <1>1, OpeningMoves
  <2> QED BY <2>1, <2>2 DEF MaySave
<1>2. CASE \E g \in SavingHooks' : g.order.trade = t
  <2>1. PICK g \in SavingHooks' : g.order.trade = t BY <1>2
  <2>2. CASE g \in SavingHooks BY <2>1, <2>2 DEF MaySave
  <2>3. CASE g \notin SavingHooks
    <3>1. PICK h \in hooks :
            /\ g.order = h.order
            /\ h \in SavingHooks \/ (h.pc = "sell" /\ h.order.trade \in active)
      BY <2>3, SavingStarts
    <3> QED BY <2>1, <3>1 DEF MaySave, SoldAhead
  <2> QED BY <2>2, <2>3
<1> QED BY <1>1, <1>2 DEF MaySave

\* The records saved as completed are finitely many.
LEMMA SalesFinite ==
  ASSUME TypeOK, NEW t \in Trade
  PROVE  IsFiniteSet(SavedSales(t)) /\ Cardinality(SavedSales(t)) \in Nat
<1>1. history \in Seq(Entry) BY SavedTypes
<1>2. DOMAIN history = 1..Len(history) /\ Len(history) \in Nat BY <1>1, LenProperties
<1>3. IsFiniteSet(1..Len(history)) BY <1>2, FS_Interval
<1>4. IsFiniteSet(SavedSales(t)) BY <1>2, <1>3, FS_Subset DEF SavedSales
<1> QED BY <1>4, FS_CardinalityType

\* What saving the record of t adds to the sales of u.
LEMMA SalesAppend ==
  ASSUME TypeOK, NEW t \in Trade, SaveInHistory(t), NEW u \in Trade
  PROVE  /\ IsFiniteSet(SavedSales(u))
         /\ SavedSales(u)' = IF t = u /\ trade[t].status = "Completed"
                             THEN SavedSales(u) \cup {Len(history) + 1} ELSE SavedSales(u)
         /\ Len(history) + 1 \notin SavedSales(u)
<1> DEFINE e == [trade |-> t, record |-> trade[t]]
<1>1. history \in Seq(Entry) /\ trade[t] \in TradeRecord BY SavedTypes DEF TypeOK, TraderTypeOK
<1>2. e \in Entry /\ e.trade = t /\ e.record = trade[t] BY <1>1 DEF Entry
<1>3. history' = Append(history, e) BY DEF SaveInHistory
<1> HIDE DEF e
<1>4. /\ DOMAIN history' = DOMAIN history \cup {Len(history) + 1}
      /\ Len(history) + 1 \notin DOMAIN history
      /\ \A i \in DOMAIN history : history'[i] = history[i]
      /\ history'[Len(history) + 1] = e
  BY <1>1, <1>2, <1>3, HistoryAppend
<1>5. IsFiniteSet(SavedSales(u)) BY SalesFinite
<1>6. SavedSales(u)' = {i \in DOMAIN history' :
                          history'[i].trade = u /\ history'[i].record.status = "Completed"}
  BY DEF SavedSales
<1>7. SavedSales(u)' = IF t = u /\ trade[t].status = "Completed"
                       THEN SavedSales(u) \cup {Len(history) + 1} ELSE SavedSales(u)
  BY <1>2, <1>4, <1>6 DEF SavedSales
<1> QED BY <1>4, <1>5, <1>7 DEF SavedSales

\* Whoever saves a trade: a hook that is then through with it, or the failed-orders loop.
LEMMA WhoSaves ==
  ASSUME TypeOK, [Next]_vars, history' # history
  PROVE  \/ \E h \in hooks : HookSave(h)
         \/ FailSave
<1>1. CASE \E t \in Trade : Open(t)
  BY <1>1 DEF Open, OpenDrop, OpenOrder, OpenSend, OpenInsert
<1>2. CASE \E o \in Order : HookStart(o) BY <1>2 DEF HookStart
<1>3. CASE \E h \in hooks : HookStep(h)
  BY <1>3 DEF HookStep, HookBuy, HookRegister, HookOrder, HookSend, HookWatch, HookSell,
              HookEvict, HookCancel
<1>4. CASE FailLoop BY <1>4 DEF FailLoop, FailTake, FailEvict
<1>5. CASE SellLoop \/ \E p \in Pool : MarketTick(p)
  BY <1>5 DEF SellLoop, SellRegister, SellOrder, SellSend, MarketTick
<1>6. CASE UNCHANGED traderVars BY <1>6 DEF traderVars
<1>7. CASE UNCHANGED vars BY <1>7 DEF vars, traderVars
<1> QED BY <1>1, <1>2, <1>3, <1>4, <1>5, <1>6, <1>7 DEF Next

\* Counting: nothing is added, or what is added was counted ahead.
LEMMA StepKeepsSales ==
  ASSUME TypeOK, Saving, SalesCounted, [Next]_vars
  PROVE  SalesCounted'
<1> SUFFICES ASSUME NEW t \in Trade PROVE SaleCount(t)' <= sold'[t] BY DEF SalesCounted
<1> DEFINE n == Cardinality(SavedSales(t))
<1>1. sold[t] \in Nat /\ sold'[t] \in Nat /\ sold'[t] >= sold[t] BY Landings
<1>2. IsFiniteSet(SavedSales(t)) /\ n \in Nat BY SalesFinite
<1>3. n + (IF MaySave(t) THEN 1 ELSE 0) <= sold[t] BY DEF SalesCounted, SaleCount
<1>4. SaleCount(t)' = Cardinality(SavedSales(t)') + (IF MaySave(t)' THEN 1 ELSE 0)
  BY DEF SaleCount
<1>5. MaySave(t)' => MaySave(t) \/ sold'[t] = sold[t] + 1 BY MaySaveMoves
<1>6. CASE SavedSales(t)' = SavedSales(t)
  <2>1. Cardinality(SavedSales(t)') = n BY <1>6
  <2> HIDE DEF n
  <2>2. CASE ~MaySave(t)'
    <3>1. SaleCount(t)' = n /\ n <= sold[t] BY <1>2, <1>3, <1>1, <1>4, <2>1, <2>2
    <3> QED BY <1>1, <1>2, <3>1
  <2>3. CASE MaySave(t)' /\ MaySave(t)
    <3>1. SaleCount(t)' = n + 1 /\ n + 1 <= sold[t] BY <1>3, <1>4, <2>1, <2>3
    <3> QED BY <1>1, <1>2, <3>1
  <2>4. CASE MaySave(t)' /\ sold'[t] = sold[t] + 1
    <3>1. SaleCount(t)' = n + 1 BY <1>4, <2>1, <2>4
    <3>2. n <= sold[t] BY <1>1, <1>2, <1>3
    <3> QED BY <1>1, <1>2, <2>4, <3>1, <3>2
  <2> QED BY <1>5, <2>2, <2>3, <2>4
<1>7. CASE history' = history BY <1>6, <1>7 DEF SavedSales
<1>8. ASSUME NEW h \in hooks, HookSave(h) PROVE SaleCount(t)' <= sold'[t]
  <2> DEFINE u == h.order.trade
  <2>1. u \in Trade /\ SaveInHistory(u) BY <1>8, SavedTypes DEF HookSave
  <2>2. CASE SavedSales(t)' = SavedSales(t) BY <1>6, <2>2
  <2>3. CASE SavedSales(t)' # SavedSales(t)
    <3>1. /\ t = u /\ SavedSales(t)' = SavedSales(t) \cup {Len(history) + 1}
          /\ Len(history) + 1 \notin SavedSales(t)
      BY <2>1, <2>3, SalesAppend
    <3>2. Cardinality(SavedSales(t)') = n + 1 BY <1>2, <3>1, FS_AddElement
    <3>3. h \in SavingHooks BY <1>8 DEF HookSave, SavingHooks
    <3>4. MaySave(t) BY <3>1, <3>3 DEF MaySave
    <3>5. ~MaySave(t)'
      <4>1. hooks' = hooks \ {h} /\ UNCHANGED <<active, opening>> BY <1>8 DEF HookSave, HookEnd
      <4>2. \A g \in SavingHooks' : g \in SavingHooks /\ g # h BY <4>1 DEF SavingHooks
      <4>3. \A g \in SavingHooks' : g.order.trade # t BY <3>1, <3>3, <4>2 DEF Saving
      <4>4. t \notin active /\ opening[t] = "opened" BY <3>1, <3>3 DEF Saving, BeingSaved
      <4> QED BY <4>1, <4>3, <4>4 DEF MaySave
    <3>6. SaleCount(t)' = n + 1 /\ n + 1 <= sold[t]
      <4> HIDE DEF n
      <4> QED BY <1>2, <1>3, <1>4, <3>2, <3>4, <3>5
    <3> HIDE DEF n
    <3> QED BY <1>1, <1>2, <3>6
  <2> QED BY <2>2, <2>3
<1>9. CASE FailSave
  <2>1. PICK f \in failing : SaveInHistory(f.order.trade) BY <1>9 DEF FailSave
  <2>2. f.order.trade \in Trade /\ trade[f.order.trade].status # "Completed"
    BY SavedTypes DEF Saving
  <2>3. SavedSales(t)' = SavedSales(t) BY <2>1, <2>2, SalesAppend
  <2> QED BY <1>6, <2>3
<1> QED BY <1>7, <1>8, <1>9, WhoSaves

\* In every reachable state a trade was saved as completed, or may yet be, no more often than
\* its sells landed.
THEOREM SalesCountedKept == RecoverySpec => []SalesCounted
<1>1. RecoveryInit => SalesCounted
  <2> SUFFICES ASSUME RecoveryInit, NEW t \in Trade PROVE SaleCount(t) <= sold[t]
    BY DEF SalesCounted
  <2>1. /\ history = <<>> /\ hooks = {} /\ jobs = {} /\ executed = [o \in Order |-> 0]
        /\ sold[t] = 0
    BY DEF RecoveryInit, Init, ExecutorInit, TraderInit
  <2>2. SavedSales(t) = {} BY <2>1 DEF SavedSales
  <2>3. \A k \in SellKind : executed[OrderOf(t, k)] = 0 BY <2>1, OrderOfType DEF Kind
  <2>4. ~MaySave(t) BY <2>1, <2>3 DEF MaySave, SoldAhead, SavingHooks
  <2>5. Cardinality(SavedSales(t)) = 0 BY <2>2, FS_EmptySet
  <2> QED BY <2>1, <2>4, <2>5 DEF SaleCount
<1>2. RecoveryTypeOK /\ Saving /\ SalesCounted /\ [RecoveryNext]_recoveryVars => SalesCounted'
  <2> SUFFICES ASSUME RecoveryTypeOK, Saving, SalesCounted, [RecoveryNext]_recoveryVars
               PROVE  SalesCounted'
    OBVIOUS
  <2>1. CASE [Next]_vars BY <2>1, StepKeepsSales DEF RecoveryTypeOK
  <2>2. CASE Crash
    <3> SUFFICES ASSUME NEW t \in Trade PROVE SaleCount(t)' <= sold'[t] BY DEF SalesCounted
    <3>1. /\ hooks' = {} /\ jobs' = {} /\ executed' = [o \in Order |-> 0]
          /\ UNCHANGED <<history, sold>>
      BY <2>2 DEF Crash, RestartExecutor, RestartTrader
    <3>2. \A k \in SellKind : executed'[OrderOf(t, k)] = 0 BY <3>1, OrderOfType DEF Kind
    <3>3. ~MaySave(t)' BY <3>1, <3>2 DEF MaySave, SoldAhead, SavingHooks
    <3>4. SavedSales(t)' = SavedSales(t) BY <3>1 DEF SavedSales
    <3> DEFINE n == Cardinality(SavedSales(t))
    <3>5. SaleCount(t)' = n + 0 BY <3>3, <3>4 DEF SaleCount
    <3>6. n + (IF MaySave(t) THEN 1 ELSE 0) <= sold[t] BY DEF SalesCounted, SaleCount
    <3>7. sold[t] \in Nat BY DEF RecoveryTypeOK, TypeOK, ExecutorTypeOK
    <3>8. n \in Nat BY SalesFinite DEF RecoveryTypeOK
    <3> HIDE DEF n
    <3> QED BY <3>1, <3>5, <3>6, <3>7, <3>8
  <2>3. Work \/ TradesSync \/ OrdersSync \/ (\E w \in writers : SaveStep(w))
          \/ UNCHANGED recoveryVars => [Next]_vars
    BY DEF Work, TradesSync, OrdersSync, SaveStep, recoveryVars
  <2> QED BY <2>1, <2>2, <2>3 DEF RecoveryNext
<1> QED BY <1>1, <1>2, SavingKept, RecoveryTypes, PTL DEF RecoverySpec

\* However often a trade is restored, sold and archived, it is saved as completed once per
\* sell that landed at most.
THEOREM SalesRecorded == RecoverySpec => []SalesRecordedOnce
<1>1. RecoveryTypeOK /\ SalesCounted => SalesRecordedOnce
  <2> SUFFICES ASSUME RecoveryTypeOK, SalesCounted, NEW t \in Trade
               PROVE  Cardinality(SavedSales(t)) <= sold[t]
    BY DEF SalesRecordedOnce, SavedSales
  <2> DEFINE n == Cardinality(SavedSales(t))
  <2>1. IsFiniteSet(SavedSales(t)) /\ n \in Nat BY SalesFinite DEF RecoveryTypeOK
  <2>2. n + (IF MaySave(t) THEN 1 ELSE 0) <= sold[t] BY DEF SalesCounted, SaleCount
  <2>3. sold[t] \in Nat BY DEF RecoveryTypeOK, TypeOK, ExecutorTypeOK
  <2> HIDE DEF n
  <2>4. n <= sold[t] BY <2>1, <2>2, <2>3
  <2> QED BY <2>4 DEF n
<1> QED BY <1>1, SalesCountedKept, RecoveryTypes, PTL

(***************************************************************************)
(* When the history keeps what was saved in it                             *)
(***************************************************************************)

\* No two calls of save_trade_in_history are under way at once.
Alone == \A v, w \in writers : v = w

\* What a call has read holds what was saved before it, and the file is empty until the call
\* fills it.
HistoryBooks ==
  /\ HistoryKept
  /\ \A w \in writers :
       /\ w.pc \in {"open", "write"} => saved \subseteq ValuesOf(w.got)
       /\ w.pc = "write" => historyFile = Empty

\* A call that is alone hands on what it read.
LEMMA SaveKeepsHistory ==
  ASSUME DiskTypes, HistoryBooks, Alone, NEW w \in writers, SaveStep(w)
  PROVE  HistoryBooks'
<1> DEFINE calls == 1..Len(history)
<1>1. w \in Writer /\ w.call \in calls /\ w.got \in Seq(calls) /\ writers = {w}
  BY DEF DiskTypes, RecoveryTypeOK, Alone
<1> HIDE DEF calls
<1>2. CASE ReadHistory(w)
  <2>1. UNCHANGED <<historyFile, saved>> BY <1>2 DEF ReadHistory
  <2>2. writers' = IF Readable(historyFile) THEN {WithContent(w)} ELSE {}
    BY <1>1, <1>2 DEF ReadHistory
  <2>3. WithContent(w).pc = "open" /\ WithContent(w).got = historyFile
    BY <1>1 DEF WithContent, Writer
  <2> QED BY <2>1, <2>2, <2>3 DEF HistoryBooks, HistoryKept
<1>3. CASE OpenHistory(w)
  <2> DEFINE v == [w EXCEPT !.pc = "write"]
  <2>1. v.got = w.got /\ saved \subseteq ValuesOf(w.got)
    BY <1>1, <1>3 DEF Writer, OpenHistory, HistoryBooks
  <2>2. writers' = {v} /\ historyFile' = Empty /\ saved' = saved
    BY <1>1, <1>3 DEF OpenHistory
  <2> HIDE DEF v
  <2> QED BY <2>1, <2>2 DEF HistoryBooks, HistoryKept, Readable, Unreadable
<1>4. CASE WriteHistory(w)
  <2>1. historyFile = Empty /\ saved \subseteq ValuesOf(w.got)
    BY <1>4 DEF WriteHistory, HistoryBooks
  <2>2. historyFile' = Append(w.got, w.call) /\ saved' = saved \cup {w.call} /\ writers' = {}
    BY <1>1, <1>4, <2>1 DEF WriteHistory
  <2>3. ValuesOf(Append(w.got, w.call)) = ValuesOf(w.got) \cup {w.call} BY <1>1, AppendValues
  <2> QED BY <2>1, <2>2, <2>3 DEF HistoryBooks, HistoryKept
<1> QED BY <1>2, <1>3, <1>4 DEF SaveStep

\* As long as no two saves overlap, no record whose save returned is lost, whatever the crashes:
\* a call that is cut off leaves a file that does not parse, never one that lacks a record. (Two
\* that overlap lose one: run lost_history.)
THEOREM AloneKeepsHistory == RecoverySpec /\ []Alone => []HistoryKept
<1>1. RecoveryInit => HistoryBooks
  BY DEF RecoveryInit, HistoryBooks, HistoryKept
<1>2. DiskTypes /\ HistoryBooks /\ Alone /\ [RecoveryNext]_recoveryVars => HistoryBooks'
  <2> SUFFICES ASSUME DiskTypes, HistoryBooks, Alone, [RecoveryNext]_recoveryVars
               PROVE  HistoryBooks'
    OBVIOUS
  <2>1. CASE Work
    <3>1. UNCHANGED <<historyFile, saved>> BY <2>1 DEF Work, fileVars
    <3>2. \A w \in writers' : w \in writers \/ w.pc = "read" BY <2>1 DEF Work
    <3> QED BY <3>1, <3>2 DEF HistoryBooks, HistoryKept
  <2>2. CASE \E w \in writers : SaveStep(w) BY <2>2, SaveKeepsHistory
  <2>3. CASE Crash
    <3>1. UNCHANGED <<historyFile, saved>> /\ writers' = {} BY <2>3 DEF Crash, fileVars
    <3> QED BY <3>1 DEF HistoryBooks, HistoryKept
  <2>4. CASE TradesSync \/ OrdersSync \/ UNCHANGED recoveryVars
    <3>1. UNCHANGED <<historyFile, saved, writers>>
      BY <2>4 DEF TradesSync, OrdersSync, recoveryVars, diskVars, fileVars
    <3> QED BY <3>1 DEF HistoryBooks, HistoryKept
  <2> QED BY <2>1, <2>2, <2>3, <2>4 DEF RecoveryNext
<1>3. HistoryBooks => HistoryKept BY DEF HistoryBooks
<1> QED BY <1>1, <1>2, <1>3, DiskTyped, PTL DEF RecoverySpec
=============================================================================
