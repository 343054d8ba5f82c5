----------------------------- MODULE TraderProofs -----------------------------
(***************************************************************************)
(* Theorems about the trader composed with the executor, for any number of *)
(* trades, pools, slots and channel capacities.                            *)
(***************************************************************************)
EXTENDS TraderProperties, SequenceTheorems, FiniteSetTheorems, TLAPS

USE DEF OrderOf, PoolOfOrder

(***************************************************************************)
(* Types of the operators                                                  *)
(***************************************************************************)

\* An order of a trade is an order.
LEMMA OrderOfType ==
  ASSUME NEW t \in Trade, NEW k \in Kind
  PROVE  OrderOf(t, k) \in Order
BY DEF Order

\* The parts of an order, and the pool it trades in.
LEMMA OrderParts ==
  ASSUME NEW o \in Order
  PROVE  o.trade \in Trade /\ o.kind \in Kind /\ PoolOfOrder(o) \in Pool
BY TradesAssumption DEF Order

\* Every update of a trade's record yields a record.
LEMMA RecordTypes ==
  ASSUME NEW r \in TradeRecord
  PROVE  /\ r.status = "Created" => InitiateBuy(r) \in TradeRecord
         /\ \A ks \in SUBSET SellKind : InitiateSell(r, ks) \in TradeRecord
         /\ ConfirmBuy(r) \in TradeRecord
         /\ \A k \in Kind : ConfirmSell(r, k) \in TradeRecord
         /\ Archive(r) \in TradeRecord
         /\ Fail(r) \in TradeRecord
<1> USE DEF TradeRecord, TradeStatus, SlotStatus
<1>1. r.status = "Created" => InitiateBuy(r) \in TradeRecord BY DEF InitiateBuy, Kind
<1>2. \A ks \in SUBSET SellKind : InitiateSell(r, ks) \in TradeRecord
  BY DEF InitiateSell, Kind, SellKind
<1>3. ConfirmBuy(r) \in TradeRecord BY DEF ConfirmBuy, Kind
<1>4. \A k \in Kind : ConfirmSell(r, k) \in TradeRecord BY DEF ConfirmSell, Kind
<1>5. Archive(r) \in TradeRecord
  <2> DEFINE done == CompletedSellOrder(r)
  <2>1. CASE done = "None" BY <2>1 DEF Archive
  <2>2. CASE done # "None" BY <2>2 DEF Archive, Kind, SellKind
  <2> QED BY <2>1, <2>2
<1>6. Fail(r) \in TradeRecord BY DEF Fail
<1> QED BY <1>1, <1>2, <1>3, <1>4, <1>5, <1>6

\* A new trade has a record, and so has a restored one.
LEMMA NewTradeType == NewTrade \in TradeRecord /\ InitiateBuy(NewTrade) \in TradeRecord
<1>1. NewTrade \in TradeRecord BY DEF NewTrade, TradeRecord, TradeStatus, SlotStatus, Kind
<1>2. NewTrade.status = "Created" BY DEF NewTrade
<1> QED BY <1>1, <1>2, RecordTypes

LEMMA BoughtType ==
  ASSUME NEW t \in Trade
  PROVE  Bought(t) \in TradeRecord
<1> DEFINE ks == Exits[t] \ {"Emergency"}
<1>1. ks \in SUBSET SellKind BY TradesAssumption
<1>2. InitiateBuy(NewTrade) \in TradeRecord BY NewTradeType
<1>3. ConfirmBuy(InitiateBuy(NewTrade)) \in TradeRecord BY <1>2, RecordTypes
<1>4. InitiateSell(ConfirmBuy(InitiateBuy(NewTrade)), ks) \in TradeRecord
  BY <1>3, RecordTypes, <1>1
<1> QED BY <1>4 DEF Bought

(***************************************************************************)
(* Type correctness                                                        *)
(***************************************************************************)

USE DEF Slot

\* The number of restored trades, and what a layout and its places are.
LEMMA LayoutTypes ==
  ASSUME NEW l \in Layouts
  PROVE  /\ RestoredCount \in Nat /\ RestoredCount <= Slots
         /\ l \in [1..RestoredCount -> Restored]
         /\ \A t \in Trade : PlaceIn(l, t) \in Slot \cup {0}
<1>1. RestoredCount \in Nat /\ RestoredCount <= Slots
  BY ExecutorAssumption, FS_CardinalityType DEF RestoredCount
<1>2. l \in [1..RestoredCount -> Restored] BY DEF Layouts
<1>3. ASSUME NEW t \in Trade PROVE PlaceIn(l, t) \in Slot \cup {0}
  <2>1. DOMAIN l \subseteq Slot BY <1>1, <1>2, ExecutorAssumption
  <2>2. CASE \E s \in DOMAIN l : l[s] = t BY <2>1, <2>2 DEF PlaceIn
  <2>3. CASE ~\E s \in DOMAIN l : l[s] = t BY <2>3 DEF PlaceIn
  <2> QED BY <2>2, <2>3
<1> QED BY <1>1, <1>2, <1>3

LEMMA InitType == Init => TypeOK
<1> SUFFICES ASSUME NEW l \in Layouts, ExecutorInit(l), TraderInit(l)
             PROVE  TypeOK
  BY DEF Init
<1>1. Restored \subseteq Trade BY ExecutorAssumption
<1>2. \A t \in Restored : OrderOf(t, "HoldTime") \in Order
  BY <1>1, OrderOfType DEF Kind, SellKind
<1>3. ExecutorTypeOK
  <2>1. pending \subseteq Order BY <1>2 DEF ExecutorInit
  <2>2. pendingPools \subseteq Pool BY <1>1, TradesAssumption DEF ExecutorInit
  <2>3. queue \in [Slot -> Order \cup {NoOrder}]
    BY <1>2, LayoutTypes DEF ExecutorInit
  <2>4. free \in Seq(Slot)
    <3>1. \A i \in 1..(Slots - RestoredCount) : RestoredCount + i \in Slot
      BY LayoutTypes, ExecutorAssumption
    <3>2. PICK n \in Nat : n = Slots - RestoredCount BY LayoutTypes, ExecutorAssumption
    <3>3. free = [i \in 1..n |-> RestoredCount + i] BY <3>2 DEF ExecutorInit
    <3>4. free \in [1..n -> Slot] BY <3>1, <3>2, <3>3
    <3> QED BY <3>4, SeqDef
  <2>5. keys \in [Trade -> Slot \cup {0}] BY LayoutTypes DEF ExecutorInit
  <2>6. jobs \subseteq Job /\ executed \in [Order -> Nat] BY DEF ExecutorInit
  <2>7. bought \in [Trade -> Nat] /\ sold \in [Trade -> Nat] BY DEF ExecutorInit
  <2>8. chan \in Seq(Order) /\ cancels \in Seq(Trade) /\ failed \in Seq(Order)
    BY EmptySeq DEF ExecutorInit
  <2>9. alive \in BOOLEAN BY DEF ExecutorInit
  <2> QED BY <2>1, <2>2, <2>3, <2>4, <2>5, <2>6, <2>7, <2>8, <2>9 DEF ExecutorTypeOK
<1>4. TraderTypeOK
  <2>1. trade \in [Trade -> TradeRecord] BY NewTradeType, BoughtType DEF TraderInit
  <2>2. arrival \in Seq(Trade)
    <3>1. arrival \in [1..RestoredCount -> Trade] BY <1>1, LayoutTypes DEF TraderInit
    <3> QED BY <3>1, LayoutTypes, SeqDef
  <2>3. history \in Seq([trade : Trade, record : TradeRecord]) BY EmptySeq DEF TraderInit
  <2>4. opening \in [Trade -> {"detected", "send", "insert", "opened", "dropped"}]
    BY DEF TraderInit
  <2>5. active \subseteq Trade /\ activePools \subseteq Pool /\ watched \subseteq Pool
    BY <1>1, TradesAssumption DEF TraderInit
  <2> QED BY <2>1, <2>2, <2>3, <2>4, <2>5 DEF TraderInit, TraderTypeOK
<1> QED BY <1>3, <1>4 DEF TypeOK

USE DEF Job, Hook

\* The steps of the executor loop.
LEMMA LoopTypes ==
  ASSUME ExecutorTypeOK,
         \/ Receive \/ TakeCancel
         \/ \E s \in Slot : Expire(s) \/ ExpireDisabled(s)
  PROVE  ExecutorTypeOK'
<1> USE DEF ExecutorTypeOK
<1>1. CASE Receive
  <2>1. Head(chan) \in Order /\ Tail(chan) \in Seq(Order) BY <1>1 DEF Receive
  <2>2. Head(free) \in Slot /\ Tail(free) \in Seq(Slot)
    BY <1>1, HeadTailProperties DEF Receive
  <2>3. Head(chan).trade \in Trade BY <2>1, OrderParts
  <2> QED BY <1>1, <2>1, <2>2, <2>3 DEF Receive
<1>2. ASSUME NEW s \in Slot, Vacate(s)
      PROVE  queue' \in [Slot -> Order \cup {NoOrder}] /\ free' \in Seq(Slot)
  BY <1>2 DEF Vacate
<1>3. CASE TakeCancel
  <2>1. Head(cancels) \in Trade /\ Tail(cancels) \in Seq(Trade) BY <1>3 DEF TakeCancel
  <2>2. keys' \in [Trade -> Slot \cup {0}] BY <1>3, <2>1 DEF TakeCancel
  <2> DEFINE s == keys[Head(cancels)]
  <2>3. queue' \in [Slot -> Order \cup {NoOrder}] /\ free' \in Seq(Slot)
    <3>1. CASE s # 0 /\ queue[s] # NoOrder
      <4>1. s \in Slot /\ Vacate(s) BY <1>3, <2>1, <3>1 DEF TakeCancel
      <4> QED BY <1>2, <4>1
    <3>2. CASE ~(s # 0 /\ queue[s] # NoOrder) BY <1>3, <3>2 DEF TakeCancel
    <3> QED BY <3>1, <3>2
  <2> QED BY <1>3, <2>1, <2>2, <2>3 DEF TakeCancel
<1>4. ASSUME NEW s \in Slot, Expire(s) PROVE ExecutorTypeOK'
  <2>1. queue[s] \in Order BY <1>4 DEF Expire
  <2>2. jobs' \subseteq Job
    <3> DEFINE new(id) == [id |-> id, order |-> queue[s], pc |-> "run", ok |-> FALSE]
    <3>1. PICK id \in JobId : jobs' = jobs \cup {new(id)} BY <1>4 DEF Expire
    <3>2. new(id) \in Job BY <2>1
    <3> HIDE DEF new
    <3>3. jobs \subseteq Job OBVIOUS
    <3> HIDE DEF Job
    <3> QED BY <3>1, <3>2, <3>3
  <2>3. Vacate(s) BY <1>4 DEF Expire
  <2> QED BY <1>2, <1>4, <2>2, <2>3 DEF Expire
<1>5. ASSUME NEW s \in Slot, ExpireDisabled(s) PROVE ExecutorTypeOK'
  <2>1. Vacate(s) BY <1>5 DEF ExpireDisabled
  <2> QED BY <1>2, <1>5, <2>1 DEF ExpireDisabled
<1> QED BY <1>1, <1>3, <1>4, <1>5

\* The steps of a job.
LEMMA JobTypes ==
  ASSUME ExecutorTypeOK, NEW j \in jobs, JobStep(j)
  PROVE  ExecutorTypeOK'
<1> USE DEF ExecutorTypeOK
<1>1. j \in Job /\ j.order \in Order /\ j.order.trade \in Trade BY OrderParts
<1>2. ASSUME NEW pc \in {"run", "report", "retain", "evict"}, NEW ok \in BOOLEAN
      PROVE  [j EXCEPT !.pc = pc] \in Job /\ [j EXCEPT !.pc = pc, !.ok = ok] \in Job
  BY <1>1
<1>3. CASE Run(j)
  <2>1. jobs' \subseteq Job
    <3>1. PICK ok \in BOOLEAN : jobs' = (jobs \ {j}) \cup {[j EXCEPT !.pc = "report", !.ok = ok]}
      BY <1>3 DEF Run
    <3>2. [j EXCEPT !.pc = "report", !.ok = ok] \in Job BY <1>2
    <3> HIDE DEF Job
    <3> QED BY <3>1, <3>2
  <2>2. bought' \in [Trade -> Nat] /\ sold' \in [Trade -> Nat]
    <3>1. CASE UNCHANGED <<bought, sold>> BY <3>1
    <3>2. CASE Land(j.order)
      <4>1. bought[j.order.trade] + 1 \in Nat /\ sold[j.order.trade] + 1 \in Nat BY <1>1
      <4> QED BY <1>1, <3>2, <4>1 DEF Land
    <3> QED BY <1>3, <3>1, <3>2 DEF Run
  <2> QED BY <1>3, <2>1, <2>2 DEF Run
<1>4. CASE Report(j)
  <2>1. jobs' \subseteq Job
    <3>1. jobs' = (jobs \ {j}) \cup {[j EXCEPT !.pc = "retain"]} BY <1>4 DEF Report, Goto
    <3>2. [j EXCEPT !.pc = "retain"] \in Job BY <1>1
    <3> HIDE DEF Job
    <3> QED BY <3>1, <3>2
  <2>2. executed' \in [Order -> Nat] /\ failed' \in Seq(Order)
    <3>1. CASE j.ok
      <4>1. executed[j.order] + 1 \in Nat BY <1>1
      <4>2. executed' = [executed EXCEPT ![j.order] = @ + 1] /\ failed' = failed
        BY <1>4, <3>1 DEF Report
      <4> HIDE DEF Job
      <4> QED BY <4>1, <4>2
    <3>2. CASE ~j.ok
      <4>1. Append(failed, j.order) \in Seq(Order) BY <1>1, AppendProperties
      <4>2. failed' = Append(failed, j.order) /\ executed' = executed
        BY <1>4, <3>2 DEF Report
      <4> QED BY <4>1, <4>2
    <3> QED BY <3>1, <3>2
  <2> QED BY <1>4, <2>1, <2>2 DEF Report
<1>5. CASE Retain(j)
  <2>1. jobs' \subseteq Job
    <3>1. End(j) \/ Goto(j, "evict") BY <1>5 DEF Retain
    <3>2. [j EXCEPT !.pc = "evict"] \in Job BY <1>1
    <3> QED BY <3>1, <3>2 DEF Goto, End
  <2>2. pending' \subseteq Order BY <1>5 DEF Retain, Retained
  <2> QED BY <1>5, <2>1, <2>2 DEF Retain
<1>6. CASE Evict(j) BY <1>6 DEF Evict, End
<1> QED BY <1>3, <1>4, <1>5, <1>6 DEF JobStep

\* The operations the executor offers its callers, and steps that call none.
LEMMA CallTypes ==
  ASSUME ExecutorTypeOK, NEW o \in Order, Pushed(o) \/ Sent(o) \/ ExecutorIdle
  PROVE  ExecutorTypeOK'
<1> USE DEF ExecutorTypeOK
<1>1. CASE Pushed(o) BY <1>1, OrderParts DEF Pushed, Push
<1>2. CASE Sent(o)
  <2>1. Append(chan, o) \in Seq(Order) BY AppendProperties
  <2> QED BY <1>2, <2>1 DEF Sent, Send
<1>3. CASE ExecutorIdle BY <1>3 DEF ExecutorIdle, executorVars
<1> QED BY <1>1, <1>2, <1>3

LEMMA IdleTypes ==
  ASSUME ExecutorTypeOK, ExecutorIdle
  PROVE  ExecutorTypeOK'
BY DEF ExecutorTypeOK, ExecutorIdle, executorVars

\* Opening a trade.
LEMMA OpenTypes ==
  ASSUME TypeOK, NEW t \in Trade, Open(t)
  PROVE  TypeOK'
<1> USE DEF TypeOK, TraderTypeOK
<1> HIDE DEF Hook, Job
<1>1. OrderOf(t, "SimpleBuy") \in Order BY OrderOfType DEF Kind
<1>2. CASE OpenDrop(t) BY <1>2, IdleTypes DEF OpenDrop
<1>3. CASE OpenOrder(t)
  <2>1. ExecutorTypeOK' BY <1>1, <1>3, CallTypes DEF OpenOrder
  <2>2. InitiateBuy(NewTrade) \in TradeRecord BY NewTradeType
  <2> QED BY <1>3, <2>1, <2>2 DEF OpenOrder
<1>4. CASE OpenSend(t)
  <2>1. ExecutorTypeOK' BY <1>1, <1>4, CallTypes DEF OpenSend
  <2> QED BY <1>4, <2>1 DEF OpenSend
<1>5. CASE OpenInsert(t)
  <2>1. ExecutorTypeOK' BY <1>5, IdleTypes DEF OpenInsert
  <2>2. PoolOf[t] \in Pool BY TradesAssumption
  <2>3. arrival' \in Seq(Trade) BY <1>5, AppendProperties DEF OpenInsert
  <2> QED BY <1>5, <2>1, <2>2, <2>3 DEF OpenInsert
<1> QED BY <1>2, <1>3, <1>4, <1>5 DEF Open

\* The places a hook can go to.
LEMMA HookMoves ==
  ASSUME hooks \subseteq Hook, NEW h \in hooks
  PROVE  /\ h.order \in Order /\ h.order.trade \in Trade /\ h.order.kind \in Kind
         /\ PoolOfOrder(h.order) \in Pool
         /\ HookEnd(h) => hooks' \subseteq Hook
         /\ \A pc \in {"register", "order", "send", "watch", "evict", "cancel", "save"} :
              HookGoto(h, pc) => hooks' \subseteq Hook
<1>1. h.order \in Order BY DEF Hook
<1>2. ASSUME NEW pc \in {"register", "order", "send", "watch", "evict", "cancel", "save"}
      PROVE  [h EXCEPT !.pc = pc] \in Hook
  BY DEF Hook
<1> QED BY <1>1, <1>2, OrderParts DEF HookGoto, HookEnd

\* A hook after a buy.
LEMMA BuyHookTypes ==
  ASSUME TypeOK, NEW h \in hooks,
         \/ HookBuy(h) \/ HookRegister(h) \/ HookOrder(h) \/ HookSend(h) \/ HookWatch(h)
  PROVE  TypeOK'
<1> USE DEF TypeOK, TraderTypeOK
<1> HIDE DEF Hook, Job
<1> DEFINE t == h.order.trade
           hold == OrderOf(t, "HoldTime")
<1>1. hold \in Order BY HookMoves, OrderOfType DEF Kind, SellKind
<1>2. CASE HookBuy(h)
  <2>1. ConfirmBuy(trade[t]) \in TradeRecord BY HookMoves, RecordTypes
  <2>2. trade' \in [Trade -> TradeRecord] BY <1>2, <2>1 DEF HookBuy
  <2> QED BY <1>2, <2>2, HookMoves, IdleTypes DEF HookBuy
<1>3. CASE HookRegister(h)
  <2>1. Exits[t] \ {"Emergency"} \in SUBSET SellKind BY HookMoves, TradesAssumption
  <2>2. InitiateSell(trade[t], Exits[t] \ {"Emergency"}) \in TradeRecord
    BY <2>1, HookMoves, RecordTypes
  <2>3. trade' \in [Trade -> TradeRecord] BY <1>3, <2>2 DEF HookRegister
  <2>4. HookGoto(h, "order") \/ HookGoto(h, "watch") BY <1>3 DEF HookRegister
  <2> QED BY <1>3, <2>3, <2>4, HookMoves, IdleTypes DEF HookRegister
<1>4. CASE HookOrder(h)
  <2>1. ExecutorTypeOK' BY <1>1, <1>4, CallTypes DEF HookOrder
  <2>2. HookGoto(h, "send") \/ HookGoto(h, "watch") BY <1>4 DEF HookOrder
  <2> QED BY <1>4, <2>1, <2>2, HookMoves DEF HookOrder
<1>5. CASE HookSend(h)
  <2>1. ExecutorTypeOK' BY <1>1, <1>5, CallTypes DEF HookSend
  <2>2. HookGoto(h, "watch") \/ HookEnd(h) BY <1>5 DEF HookSend
  <2> QED BY <1>5, <2>1, <2>2, HookMoves DEF HookSend
<1>6. CASE HookWatch(h)
  <2>1. watched' \subseteq Pool BY <1>6, HookMoves DEF HookWatch
  <2> QED BY <1>6, <2>1, HookMoves, IdleTypes DEF HookWatch
<1> QED BY <1>2, <1>3, <1>4, <1>5, <1>6

\* A hook after a sell.
LEMMA SellHookTypes ==
  ASSUME TypeOK, NEW h \in hooks,
         HookSell(h) \/ HookEvict(h) \/ HookCancel(h) \/ HookSave(h)
  PROVE  TypeOK'
<1> USE DEF TypeOK, TraderTypeOK
<1> HIDE DEF Hook, Job
<1> DEFINE t == h.order.trade
<1>1. AfterRemoval(h) \in {"cancel", "save"} BY DEF AfterRemoval
<1>2. CASE HookSell(h)
  <2>1. CASE Sellable(t)
    <3>1. Archive(ConfirmSell(trade[t], h.order.kind)) \in TradeRecord
      BY HookMoves, RecordTypes
    <3>2. trade' \in [Trade -> TradeRecord] BY <1>2, <2>1, <3>1 DEF HookSell
    <3>3. hooks' \subseteq Hook BY <1>1, <1>2, <2>1, HookMoves DEF HookSell
    <3>4. active' \subseteq Trade BY <1>2, <2>1 DEF HookSell
    <3> QED BY <1>2, <3>2, <3>3, <3>4, IdleTypes DEF HookSell
  <2>2. CASE ~Sellable(t) BY <1>2, <2>2, HookMoves, IdleTypes DEF HookSell
  <2> QED BY <2>1, <2>2
<1>3. CASE HookEvict(h)
  <2>1. hooks' \subseteq Hook BY <1>1, <1>3, HookMoves DEF HookEvict
  <2> QED BY <1>3, <2>1, IdleTypes DEF HookEvict, EvictPool
<1>4. CASE HookCancel(h)
  <2>1. hooks' \subseteq Hook BY <1>4, HookMoves DEF HookCancel
  <2>2. cancels' \in Seq(Trade)
    <3>1. Append(cancels, t) \in Seq(Trade) BY HookMoves, AppendProperties DEF ExecutorTypeOK
    <3> QED BY <1>4, <3>1 DEF HookCancel, SendCancel, ExecutorTypeOK
  <2>3. ExecutorTypeOK' BY <1>4, <2>2 DEF HookCancel, ExecutorTypeOK
  <2> QED BY <1>4, <2>1, <2>3 DEF HookCancel
<1>5. CASE HookSave(h)
  <2>1. [trade |-> t, record |-> trade[t]] \in [trade : Trade, record : TradeRecord]
    BY HookMoves
  <2>2. history' \in Seq([trade : Trade, record : TradeRecord])
    BY <1>5, <2>1, AppendProperties DEF HookSave, SaveInHistory
  <2> QED BY <1>5, <2>2, HookMoves, IdleTypes DEF HookSave
<1> QED BY <1>2, <1>3, <1>4, <1>5

\* A hook starts.
LEMMA HookStartTypes ==
  ASSUME TypeOK, NEW o \in Order, HookStart(o)
  PROVE  TypeOK'
<1> USE DEF TypeOK, TraderTypeOK
<1> HIDE DEF Hook, Job
<1>1. executed' \in [Order -> Nat]
  <2>1. executed[o] - 1 \in Nat BY DEF HookStart, ExecutorTypeOK
  <2> QED BY <2>1 DEF HookStart, ExecutorTypeOK
<1>2. hooks' \subseteq Hook
  <2> DEFINE new(id) == [id |-> id, order |-> o,
                         pc |-> IF o.kind = "SimpleBuy" THEN "buy" ELSE "sell"]
  <2>1. \A id \in HookId : new(id) \in Hook BY DEF Hook
  <2>2. hooks' = hooks \/ \E id \in HookId : hooks' = hooks \cup {new(id)} BY DEF HookStart
  <2> HIDE DEF new
  <2> QED BY <2>1, <2>2
<1>3. ExecutorTypeOK' BY <1>1 DEF HookStart, ExecutorTypeOK
<1> QED BY <1>2, <1>3 DEF HookStart

\* The loop over failed orders.
LEMMA FailTypes ==
  ASSUME TypeOK, FailLoop
  PROVE  TypeOK'
<1> USE DEF TypeOK, TraderTypeOK
<1> HIDE DEF Hook, Job
<1>1. CASE FailTake
  <2> DEFINE o == Head(failed)
  <2>1. o \in Order /\ failed' \in Seq(Order)
    BY <1>1, HeadTailProperties DEF FailTake, ExecutorTypeOK
  <2>2. o.trade \in Trade BY <2>1, OrderParts
  <2>3. ExecutorTypeOK' BY <1>1, <2>1 DEF FailTake, ExecutorTypeOK
  <2>4. Fail(trade[o.trade]) \in TradeRecord BY <2>2, RecordTypes
  <2> HIDE DEF o
  <2>5. trade' \in [Trade -> TradeRecord] BY <1>1, <2>2, <2>4 DEF FailTake, o
  <2>6. failing' \subseteq [order : Order, pc : {"evict", "save"}]
    BY <1>1, <2>1 DEF FailTake, o
  <2> QED BY <1>1, <2>3, <2>5, <2>6 DEF FailTake
<1>2. CASE FailEvict
  <2>1. failing' \subseteq [order : Order, pc : {"evict", "save"}] BY <1>2 DEF FailEvict
  <2> QED BY <1>2, <2>1, IdleTypes DEF FailEvict, EvictPool
<1>3. CASE FailSave
  <2>1. PICK f \in failing : SaveInHistory(f.order.trade) BY <1>3 DEF FailSave
  <2>2. f.order.trade \in Trade BY OrderParts
  <2>3. [trade |-> f.order.trade, record |-> trade[f.order.trade]]
          \in [trade : Trade, record : TradeRecord]
    BY <2>2
  <2>4. history' \in Seq([trade : Trade, record : TradeRecord])
    BY <2>1, <2>3, AppendProperties DEF SaveInHistory
  <2> QED BY <1>3, <2>4, IdleTypes DEF FailSave
<1> QED BY <1>1, <1>2, <1>3 DEF FailLoop

\* The loop over market data.
LEMMA SellTypes ==
  ASSUME TypeOK, SellLoop \/ \E p \in Pool : MarketTick(p)
  PROVE  TypeOK'
<1> USE DEF TypeOK, TraderTypeOK
<1> HIDE DEF Hook, Job
<1>1. \A s \in selling : s.order \in Order /\ s.order.trade \in Trade BY OrderParts
<1>2. CASE SellRegister
  <2>1. PICK s \in selling :
          /\ selling' = {[s EXCEPT !.pc = "order"]}
          /\ trade' = IF Found(s.order.trade)
                      THEN [trade EXCEPT ![s.order.trade] = InitiateSell(@, {"Emergency"})]
                      ELSE trade
    BY <1>2 DEF SellRegister
  <2>2. InitiateSell(trade[s.order.trade], {"Emergency"}) \in TradeRecord
    BY <1>1, RecordTypes DEF SellKind
  <2>3. trade' \in [Trade -> TradeRecord] BY <1>1, <2>1, <2>2
  <2>4. selling' \subseteq [order : Order, pc : {"register", "order", "send"}] BY <2>1
  <2> QED BY <1>2, <2>3, <2>4, IdleTypes DEF SellRegister
<1>3. CASE SellOrder
  <2>1. PICK s \in selling :
          \/ Pushed(s.order) /\ selling' = {[s EXCEPT !.pc = "send"]}
          \/ ExecutorIdle /\ selling' = {}
    BY <1>3 DEF SellOrder
  <2>2. ExecutorTypeOK' BY <1>1, <2>1, CallTypes
  <2>3. selling' \subseteq [order : Order, pc : {"register", "order", "send"}] BY <2>1
  <2> QED BY <1>3, <2>2, <2>3 DEF SellOrder
<1>4. CASE SellSend
  <2>1. ExecutorTypeOK' BY <1>1, <1>4, CallTypes DEF SellSend
  <2> QED BY <1>4, <2>1 DEF SellSend
<1>5. CASE \E p \in Pool : MarketTick(p)
  <2>1. PICK p \in Pool : MarketTick(p) BY <1>5
  <2>2. PICK i \in DOMAIN arrival, k \in SellKind :
          selling' = {[order |-> OrderOf(arrival[i], k),
                       pc |-> IF k = "Emergency" THEN "register" ELSE "order"]}
    <3>1. \A t \in Trade : Triggers(t) \subseteq SellKind
      BY TradesAssumption DEF Triggers, SellKind
    <3>2. \A i \in DOMAIN arrival : arrival[i] \in Trade BY ElementOfSeq, LenProperties
    <3> QED BY <2>1, <3>1, <3>2 DEF MarketTick
  <2>3. OrderOf(arrival[i], k) \in Order
    BY OrderOfType, ElementOfSeq, LenProperties DEF Kind
  <2>4. selling' \subseteq [order : Order, pc : {"register", "order", "send"}]
    BY <2>2, <2>3
  <2> QED BY <2>1, <2>4, IdleTypes DEF MarketTick
<1> QED BY <1>2, <1>3, <1>4, <1>5 DEF SellLoop

\* Every step keeps the types.
LEMMA NextType ==
  ASSUME TypeOK, [Next]_vars
  PROVE  TypeOK'
<1> HIDE DEF Hook, Job, Slot
<1>1. ASSUME UNCHANGED traderVars, ExecutorTypeOK' PROVE TypeOK'
  BY <1>1 DEF TypeOK, TraderTypeOK, traderVars
<1>2. CASE \E t \in Trade : Open(t) BY <1>2, OpenTypes
<1>3. CASE \E o \in Order : HookStart(o) BY <1>3, HookStartTypes
<1>4. CASE \E h \in hooks : HookStep(h) BY <1>4, BuyHookTypes, SellHookTypes DEF HookStep
<1>5. CASE FailLoop BY <1>5, FailTypes
<1>6. CASE SellLoop \/ \E p \in Pool : MarketTick(p) BY <1>6, SellTypes
<1>7. CASE UNCHANGED traderVars /\ (\/ Receive \/ TakeCancel
                                    \/ \E s \in Slot : Expire(s) \/ ExpireDisabled(s))
  BY <1>1, <1>7, LoopTypes DEF TypeOK
<1>8. CASE UNCHANGED traderVars /\ \E j \in jobs : JobStep(j)
  BY <1>1, <1>8, JobTypes DEF TypeOK
<1>9. CASE UNCHANGED vars
  <2>1. ExecutorTypeOK' BY <1>9, IdleTypes DEF vars, ExecutorIdle, TypeOK
  <2> QED BY <1>1, <1>9, <2>1 DEF vars
<1> QED BY <1>2, <1>3, <1>4, <1>5, <1>6, <1>7, <1>8, <1>9 DEF Next, JobStep

\* Every variable keeps its type, for every set of trades, pools and bounds.
THEOREM TypeCorrect == Spec => []TypeOK
BY InitType, NextType, PTL DEF Spec

(***************************************************************************)
(* The books: who is active, who is being saved, what the history holds    *)
(***************************************************************************)

Entry == [trade : Trade, record : TradeRecord]
USE DEF Entry

\* What appending to the history does to the saved trades.
LEMMA HistoryAppend ==
  ASSUME history \in Seq(Entry), NEW e \in Entry, history' = Append(history, e)
  PROVE  /\ DOMAIN history' = DOMAIN history \cup {Len(history) + 1}
         /\ Len(history) + 1 \notin DOMAIN history
         /\ \A i \in DOMAIN history : history'[i] = history[i]
         /\ history'[Len(history) + 1] = e
         /\ Archived' = Archived \cup {e.trade}
<1>1. /\ Len(history) \in Nat /\ DOMAIN history = 1..Len(history)
      /\ history' \in Seq(Entry) /\ Len(history') = Len(history) + 1
      /\ DOMAIN history' = 1..(Len(history) + 1)
  BY LenProperties, AppendProperties
<1>2. \A i \in DOMAIN history : history'[i] = history[i] BY <1>1, AppendProperties
<1>3. history'[Len(history) + 1] = e BY AppendProperties
<1>4. DOMAIN history' = DOMAIN history \cup {Len(history) + 1} BY <1>1
<1>5. Len(history) + 1 \notin DOMAIN history BY <1>1
<1>6. Archived' = Archived \cup {e.trade}
  BY <1>2, <1>3, <1>4 DEF Archived, ValuesOf
<1> QED BY <1>2, <1>3, <1>4, <1>5, <1>6

\* Trades that are active, being saved or archived are trades.
LEMMA SavedTypes ==
  ASSUME TypeOK
  PROVE  /\ active \subseteq Trade /\ hooks \subseteq Hook /\ history \in Seq(Entry)
         /\ \A h \in hooks : h.order \in Order /\ h.order.trade \in Trade
         /\ \A f \in failing : f.order \in Order /\ f.order.trade \in Trade
         /\ BeingSaved \cup Archived \subseteq Trade
<1>1. active \subseteq Trade /\ hooks \subseteq Hook /\ history \in Seq(Entry)
  BY DEF TypeOK, TraderTypeOK
<1>2. \A h \in hooks : h.order \in Order /\ h.order.trade \in Trade
  BY <1>1, HookMoves
<1>3. \A f \in failing : f.order \in Order /\ f.order.trade \in Trade
  BY OrderParts DEF TypeOK, TraderTypeOK
<1>4. \A i \in DOMAIN history : history[i].trade \in Trade
  <2>1. \A i \in DOMAIN history : history[i] \in Entry BY <1>1, ElementOfSeq, LenProperties
  <2> QED BY <2>1
<1>5. {h.order.trade : h \in SavingHooks} \subseteq Trade BY <1>2 DEF SavingHooks
<1>6. {f.order.trade : f \in failing} \subseteq Trade BY <1>3
<1>7. Archived \subseteq Trade BY <1>4 DEF Archived, ValuesOf
<1> QED BY <1>1, <1>2, <1>3, <1>5, <1>6, <1>7 DEF BeingSaved

\* Steps that start or end no saving, and at most take trades out of active_trades.
LEMMA BooksFrame ==
  ASSUME Books, active' \subseteq active, opening' = opening,
         \A t \in Trade : trade'[t].status = trade[t].status,
         TypeOK, SavingHooks' = SavingHooks, UNCHANGED <<failing, history>>
  PROVE  Books'
<1>1. BeingSaved' = BeingSaved BY DEF BeingSaved
<1>2. Archived' = Archived BY DEF Archived, ValuesOf
<1>3. active \subseteq Trade BY DEF TypeOK, TraderTypeOK
<1>4. BeingSaved \cup Archived \subseteq Trade BY SavedTypes
<1>5. OpenBooks'
  <2>1. \A t \in active' : opening'[t] = "opened" /\ trade'[t].status \in {"Created", "Active"}
    BY <1>3 DEF Books, OpenBooks
  <2>2. \A t \in Trade : opening'[t] # "opened" => trade'[t].status = "Created"
    BY DEF Books, OpenBooks
  <2>3. \A t \in BeingSaved \cup Archived :
          /\ t \notin active'
          /\ opening'[t] = "opened"
          /\ trade'[t].status \in {"Completed", "Error"}
    BY <1>4 DEF Books, OpenBooks
  <2> QED BY <1>1, <1>2, <2>1, <2>2, <2>3 DEF OpenBooks
<1>6. SaveBooks' BY <1>1, <1>2 DEF Books, SaveBooks
<1> QED BY <1>5, <1>6 DEF Books

\* A move of a hook that saves nothing to a place where it saves nothing.
LEMMA SavingFrame ==
  ASSUME NEW h \in hooks, h \notin SavingHooks, hooks \subseteq Hook,
         \/ HookEnd(h)
         \/ \E pc \in {"register", "order", "send", "watch"} : HookGoto(h, pc)
  PROVE  SavingHooks' = SavingHooks
<1>1. CASE HookEnd(h) BY <1>1 DEF SavingHooks, HookEnd
<1>2. ASSUME NEW pc \in {"register", "order", "send", "watch"}, HookGoto(h, pc)
      PROVE  SavingHooks' = SavingHooks
  <2> DEFINE g == [h EXCEPT !.pc = pc]
  <2>1. g.pc = pc BY DEF Hook
  <2>2. hooks' = (hooks \ {h}) \cup {g} BY <1>2 DEF HookGoto
  <2> HIDE DEF g
  <2> QED BY <2>1, <2>2 DEF SavingHooks
<1> QED BY <1>1, <1>2

LEMMA InitBooks == Init => Books
<1> SUFFICES ASSUME NEW l \in Layouts, ExecutorInit(l), TraderInit(l)
             PROVE  Books
  BY DEF Init
<1>1. BeingSaved = {} BY DEF TraderInit, BeingSaved, SavingHooks
<1>2. Archived = {} BY DEF TraderInit, Archived, ValuesOf
<1>3. Restored \subseteq Trade BY ExecutorAssumption
<1>4. \A t \in Trade : Bought(t).status = "Active" /\ NewTrade.status = "Created"
  <2>1. \A t \in Trade : ConfirmBuy(InitiateBuy(NewTrade)).status = "Active"
    BY NewTradeType, RecordTypes DEF ConfirmBuy, TradeRecord
  <2>2. ConfirmBuy(InitiateBuy(NewTrade)) \in TradeRecord BY NewTradeType, RecordTypes
  <2> QED BY <2>1, <2>2 DEF Bought, InitiateSell, NewTrade, TradeRecord
<1>5. OpenBooks BY <1>1, <1>2, <1>3, <1>4 DEF TraderInit, OpenBooks
<1>6. SaveBooks BY <1>1, <1>2 DEF TraderInit, SaveBooks, SavingHooks
<1> QED BY <1>5, <1>6 DEF Books

\* Opening a trade: only an unopened trade changes, and it is in nobody's books.
LEMMA OpenKeepsBooks ==
  ASSUME TypeOK, Books, NEW t \in Trade, Open(t)
  PROVE  Books'
<1> HIDE DEF Hook, Job
<1>1. SavingHooks' = SavingHooks /\ UNCHANGED <<failing, history>>
  BY DEF Open, OpenDrop, OpenOrder, OpenSend, OpenInsert, SavingHooks
<1>2. BeingSaved' = BeingSaved /\ Archived' = Archived
  BY <1>1 DEF BeingSaved, Archived, ValuesOf
<1>3. SaveBooks' BY <1>1, <1>2 DEF Books, SaveBooks
<1>4. opening[t] # "opened" /\ opening \in [Trade -> {"detected", "send", "insert", "opened", "dropped"}]
  BY DEF Open, OpenDrop, OpenOrder, OpenSend, OpenInsert, TypeOK, TraderTypeOK
<1>5. t \notin active \cup BeingSaved \cup Archived /\ trade[t].status = "Created"
  BY <1>4 DEF Books, OpenBooks
<1>6. \A u \in Trade : trade'[u].status = trade[u].status
  <2>1. InitiateBuy(NewTrade).status = "Created"
    BY NewTradeType DEF InitiateBuy, NewTrade, TradeRecord
  <2>2. trade \in [Trade -> TradeRecord] BY DEF TypeOK, TraderTypeOK
  <2>3. trade' = trade \/ trade' = [trade EXCEPT ![t] = InitiateBuy(NewTrade)]
    BY DEF Open, OpenDrop, OpenOrder, OpenSend, OpenInsert
  <2> QED BY <1>5, <2>1, <2>2, <2>3
<1>7. \A u \in Trade : u # t => opening'[u] = opening[u]
  <2>1. \/ opening' = [opening EXCEPT ![t] = "dropped"]
        \/ opening' = [opening EXCEPT ![t] = "send"]
        \/ opening' = [opening EXCEPT ![t] = "insert"]
        \/ opening' = [opening EXCEPT ![t] = "opened"]
    BY DEF Open, OpenDrop, OpenOrder, OpenSend, OpenInsert
  <2> QED BY <1>4, <2>1
<1>8. active' = active \/ (active' = active \cup {t} /\ opening'[t] = "opened")
  BY <1>4 DEF Open, OpenDrop, OpenOrder, OpenSend, OpenInsert
<1>9. OpenBooks'
  <2>1. \A u \in active' : opening'[u] = "opened" /\ trade'[u].status \in {"Created", "Active"}
    BY <1>5, <1>6, <1>7, <1>8, SavedTypes DEF Books, OpenBooks
  <2>2. \A u \in Trade : opening'[u] # "opened" => trade'[u].status = "Created"
    BY <1>5, <1>6, <1>7 DEF Books, OpenBooks
  <2>3. \A u \in BeingSaved \cup Archived :
          u \notin active' /\ opening'[u] = "opened" /\ trade'[u].status \in {"Completed", "Error"}
    BY <1>5, <1>6, <1>7, <1>8, SavedTypes DEF Books, OpenBooks
  <2> QED BY <1>2, <2>1, <2>2, <2>3 DEF OpenBooks
<1> QED BY <1>3, <1>9 DEF Books

\* Registering sell orders leaves the status alone, confirming a buy makes it Active.
LEMMA StatusUpdates ==
  ASSUME NEW r \in TradeRecord
  PROVE  /\ \A ks : InitiateSell(r, ks).status = r.status
         /\ ConfirmBuy(r).status = "Active"
         /\ Fail(r).status = "Error"
         /\ \A k \in Kind : Archive(ConfirmSell(r, k)).status = "Completed"
<1>1. \A ks : InitiateSell(r, ks).status = r.status BY DEF InitiateSell, TradeRecord
<1>2. ConfirmBuy(r).status = "Active" BY DEF ConfirmBuy, TradeRecord
<1>3. Fail(r).status = "Error" BY DEF Fail, TradeRecord
<1>4. \A k \in Kind : Archive(ConfirmSell(r, k)).status = "Completed" BY DEF Archive, ConfirmSell, TradeRecord
<1> QED BY <1>1, <1>2, <1>3, <1>4

\* A hook after a buy saves nothing, and no status of an active trade leaves
\* Created and Active.
LEMMA BuyHookKeepsBooks ==
  ASSUME TypeOK, Books, NEW h \in hooks,
         \/ HookBuy(h) \/ HookRegister(h) \/ HookOrder(h) \/ HookSend(h) \/ HookWatch(h)
  PROVE  Books'
<1> HIDE DEF Hook, Job
<1> DEFINE t == h.order.trade
<1>1. h \notin SavingHooks
  BY DEF HookBuy, HookRegister, HookOrder, HookSend, HookWatch, SavingHooks
<1>2. SavingHooks' = SavingHooks
  <2>1. \/ HookEnd(h)
        \/ HookGoto(h, "register") \/ HookGoto(h, "order")
        \/ HookGoto(h, "send") \/ HookGoto(h, "watch")
    BY DEF HookBuy, HookRegister, HookOrder, HookSend, HookWatch
  <2> QED BY <1>1, <2>1, SavingFrame, SavedTypes
<1>3. UNCHANGED <<active, opening, failing, history>>
  BY DEF HookBuy, HookRegister, HookOrder, HookSend, HookWatch
<1>4. t \in Trade /\ trade \in [Trade -> TradeRecord]
  BY SavedTypes DEF TypeOK, TraderTypeOK
<1>5. CASE ~HookBuy(h)
  <2>1. trade' = trade \/ trade' = [trade EXCEPT ![t] = InitiateSell(@, Exits[t] \ {"Emergency"})]
    BY <1>5 DEF HookRegister, HookOrder, HookSend, HookWatch
  <2>2. \A u \in Trade : trade'[u].status = trade[u].status BY <1>4, <2>1, StatusUpdates
  <2> QED BY <1>2, <1>3, <2>2, BooksFrame
<1>6. CASE HookBuy(h)
  <2>1. BeingSaved' = BeingSaved /\ Archived' = Archived
    BY <1>2, <1>3 DEF BeingSaved, Archived, ValuesOf
  <2>2. SaveBooks' BY <1>2, <1>3, <2>1 DEF Books, SaveBooks
  <2>3. trade' = trade \/ (t \in active /\ trade' = [trade EXCEPT ![t] = ConfirmBuy(@)])
    BY <1>6 DEF HookBuy, Found
  <2>4. \A u \in Trade : \/ trade'[u].status = trade[u].status
                         \/ u \in active /\ trade'[u].status = "Active"
    BY <1>4, <2>3, StatusUpdates
  <2>5. OpenBooks'
    <3>1. \A u \in active : opening[u] = "opened" /\ trade'[u].status \in {"Created", "Active"}
      BY <2>4, SavedTypes DEF Books, OpenBooks
    <3>2. \A u \in Trade : opening[u] # "opened" => trade'[u].status = "Created"
      BY <2>4 DEF Books, OpenBooks
    <3>3. \A u \in BeingSaved \cup Archived :
            u \notin active /\ opening[u] = "opened" /\ trade'[u].status \in {"Completed", "Error"}
      BY <2>4, SavedTypes DEF Books, OpenBooks
    <3> QED BY <1>3, <2>1, <3>1, <3>2, <3>3 DEF OpenBooks
  <2> QED BY <2>2, <2>5 DEF Books
<1> QED BY <1>5, <1>6

\* A trade that is taken out of active_trades and settled is in nobody's books before.
LEMMA SettleBooks ==
  ASSUME TypeOK, Books, NEW t \in active, NEW r \in TradeRecord,
         r.status \in {"Completed", "Error"},
         trade' = [trade EXCEPT ![t] = r], active' = active \ {t},
         UNCHANGED <<opening, history>>,
         BeingSaved' = BeingSaved \cup {t}
  PROVE  /\ t \notin BeingSaved \cup Archived
         /\ OpenBooks' /\ BeingSaved' \cap Archived' = {} /\ Archived' = Archived
<1>1. t \in Trade /\ trade \in [Trade -> TradeRecord] BY SavedTypes DEF TypeOK, TraderTypeOK
<1>2. t \notin BeingSaved \cup Archived /\ opening[t] = "opened" BY DEF Books, OpenBooks
<1>3. Archived' = Archived BY DEF Archived, ValuesOf
<1>4. \A u \in Trade : trade'[u] = IF u = t THEN r ELSE trade[u] BY <1>1
<1>5. OpenBooks'
  <2>1. \A u \in active' : opening'[u] = "opened" /\ trade'[u].status \in {"Created", "Active"}
    BY <1>4, SavedTypes DEF Books, OpenBooks
  <2>2. \A u \in Trade : opening'[u] # "opened" => trade'[u].status = "Created"
    BY <1>2, <1>4 DEF Books, OpenBooks
  <2>3. \A u \in BeingSaved \cup Archived \cup {t} :
          u \notin active' /\ opening'[u] = "opened" /\ trade'[u].status \in {"Completed", "Error"}
    BY <1>1, <1>2, <1>4, SavedTypes DEF Books, OpenBooks
  <2> QED BY <1>3, <2>1, <2>2, <2>3 DEF OpenBooks
<1> QED BY <1>2, <1>3, <1>5 DEF Books, SaveBooks

\* Moves of a hook that is saving: its trade stays in the books as long as it saves.
LEMMA SavingMoves ==
  ASSUME TypeOK, Books, NEW h \in SavingHooks, UNCHANGED <<failing, history>>,
         NEW pc \in {"evict", "cancel", "save"}, HookGoto(h, pc)
  PROVE  BeingSaved' = BeingSaved /\ SaveBooks'
<1> DEFINE g == [h EXCEPT !.pc = pc]
<1>1. h \in hooks /\ g.order = h.order /\ g.pc = pc BY SavedTypes DEF SavingHooks, Hook
<1>2. hooks' = (hooks \ {h}) \cup {g} BY DEF HookGoto
<1> HIDE DEF g, Hook, Job
<1>3. SavingHooks' = (SavingHooks \ {h}) \cup {g} BY <1>1, <1>2 DEF SavingHooks
<1>4. BeingSaved' = BeingSaved BY <1>1, <1>3 DEF BeingSaved
<1>5. Archived' = Archived BY DEF Archived, ValuesOf
<1>6. \A a, b \in SavingHooks' : a.order.trade = b.order.trade => a = b
  BY <1>1, <1>3 DEF Books, SaveBooks
<1>7. \A f \in failing : \A a \in SavingHooks' : f.order.trade # a.order.trade
  BY <1>1, <1>3 DEF Books, SaveBooks
<1> QED BY <1>4, <1>5, <1>6, <1>7 DEF Books, SaveBooks

\* A hook after a sell.
LEMMA SellHookKeepsBooks ==
  ASSUME TypeOK, Books, NEW h \in hooks,
         HookSell(h) \/ HookEvict(h) \/ HookCancel(h) \/ HookSave(h)
  PROVE  Books'
<1> DEFINE t == h.order.trade
<1>1. t \in Trade /\ trade \in [Trade -> TradeRecord] /\ h.order.kind \in Kind /\ h \in Hook
  BY SavedTypes, OrderParts DEF TypeOK, TraderTypeOK
<1>2. AfterRemoval(h) \in {"cancel", "save"} BY DEF AfterRemoval
<1>3. ASSUME HookEvict(h) \/ HookCancel(h) PROVE Books'
  <2>1. h \in SavingHooks BY <1>3 DEF HookEvict, HookCancel, SavingHooks
  <2>2. HookGoto(h, "cancel") \/ HookGoto(h, "save")
    BY <1>2, <1>3 DEF HookEvict, HookCancel
  <2>3. UNCHANGED <<failing, history, opening, trade>> /\ active' \subseteq active
    BY <1>3 DEF HookEvict, HookCancel, EvictPool
  <2>4. BeingSaved' = BeingSaved /\ SaveBooks' BY <2>1, <2>2, <2>3, SavingMoves
  <2>5. Archived' = Archived BY <2>3 DEF Archived, ValuesOf
  <2>6. OpenBooks' BY <2>3, <2>4, <2>5 DEF Books, OpenBooks
  <2> QED BY <2>4, <2>6 DEF Books
<1>4. CASE HookSell(h) /\ ~Sellable(t)
  <2>1. h \notin SavingHooks BY <1>4 DEF HookSell, SavingHooks
  <2>2. SavingHooks' = SavingHooks
    BY <1>4, <2>1, SavedTypes, SavingFrame DEF HookSell
  <2> QED BY <1>4, <2>2, BooksFrame DEF HookSell
<1>5. CASE HookSell(h) /\ Sellable(t)
  <2> DEFINE r == Archive(ConfirmSell(trade[t], h.order.kind))
  <2>1. /\ t \in active /\ h \notin SavingHooks
        /\ trade' = [trade EXCEPT ![t] = r] /\ active' = active \ {t}
        /\ UNCHANGED <<opening, failing, history>>
    BY <1>5 DEF HookSell, Sellable, Found, SavingHooks
  <2>2. PICK pc \in {"evict", "cancel", "save"} : HookGoto(h, pc)
    BY <1>2, <1>5 DEF HookSell
  <2> DEFINE g == [h EXCEPT !.pc = pc]
  <2>3. g.order = h.order /\ g.pc = pc BY <1>1 DEF Hook
  <2>4. r \in TradeRecord /\ r.status = "Completed"
    <3>1. r \in TradeRecord BY <1>1, RecordTypes
    <3>2. r.status = "Completed" BY <1>1, StatusUpdates
    <3> QED BY <3>1, <3>2
  <2>5. hooks' = (hooks \ {h}) \cup {g} BY <2>2 DEF HookGoto
  <2> HIDE DEF g, r, Hook, Job
  <2>6. SavingHooks' = SavingHooks \cup {g} BY <2>1, <2>3, <2>5 DEF SavingHooks
  <2>7. BeingSaved' = BeingSaved \cup {t} BY <2>1, <2>3, <2>6 DEF BeingSaved
  <2>8. /\ t \notin BeingSaved \cup Archived
        /\ OpenBooks' /\ BeingSaved' \cap Archived' = {} /\ Archived' = Archived
    BY <2>1, <2>4, <2>7, SettleBooks
  <2>9. \A a \in SavingHooks : a.order.trade # t BY <2>8 DEF BeingSaved
  <2>10. \A a \in failing : a.order.trade # t BY <2>8 DEF BeingSaved
  <2>11. \A a, b \in SavingHooks' : a.order.trade = b.order.trade => a = b
    BY <2>3, <2>6, <2>9 DEF Books, SaveBooks
  <2>12. \A f \in failing : \A a \in SavingHooks' : f.order.trade # a.order.trade
    BY <2>3, <2>6, <2>10 DEF Books, SaveBooks
  <2>13. SaveBooks' BY <2>1, <2>8, <2>11, <2>12 DEF Books, SaveBooks
  <2> QED BY <2>8, <2>13 DEF Books
<1>6. CASE HookSave(h)
  <2> DEFINE e == [trade |-> t, record |-> trade[t]]
  <2>1. /\ h \in SavingHooks /\ e \in Entry /\ history' = Append(history, e)
        /\ hooks' = hooks \ {h} /\ UNCHANGED <<opening, trade, active, failing>>
    BY <1>1, <1>6 DEF HookSave, SaveInHistory, HookEnd, SavingHooks
  <2> HIDE DEF e, Hook, Job
  <2>2. SavingHooks' = SavingHooks \ {h} BY <2>1 DEF SavingHooks
  <2>3. e.trade = t BY DEF e
  <2>4. Archived' = Archived \cup {t} BY <2>1, <2>3, SavedTypes, HistoryAppend
  <2>5. t \in BeingSaved /\ t \notin Archived
    <3>1. t \in BeingSaved BY <2>1 DEF BeingSaved
    <3> QED BY <3>1 DEF Books, SaveBooks
  <2>6. \A a \in SavingHooks' : a.order.trade # t
    BY <2>1, <2>2 DEF Books, SaveBooks
  <2>7. \A f \in failing : f.order.trade # t BY <2>1 DEF Books, SaveBooks
  <2>8. BeingSaved' = BeingSaved \ {t} BY <2>1, <2>2, <2>6, <2>7 DEF BeingSaved
  <2>9. OpenBooks' BY <2>1, <2>4, <2>5, <2>8 DEF Books, OpenBooks
  <2>10. \A i \in DOMAIN history : history[i].trade # t BY <2>5 DEF Archived, ValuesOf
  <2>11. \A i, j \in DOMAIN history' : history'[i].trade = history'[j].trade => i = j
    BY <2>1, <2>3, <2>10, SavedTypes, HistoryAppend DEF Books, SaveBooks
  <2>12. BeingSaved' \cap Archived' = {} BY <2>4, <2>8 DEF Books, SaveBooks
  <2>13. SaveBooks' BY <2>1, <2>2, <2>11, <2>12 DEF Books, SaveBooks
  <2> QED BY <2>9, <2>13 DEF Books
<1> QED BY <1>3, <1>4, <1>5, <1>6 DEF HookSell

\* The loop over failed orders.
LEMMA FailKeepsBooks ==
  ASSUME TypeOK, Books, FailLoop
  PROVE  Books'
<1> HIDE DEF Hook, Job
<1>1. SavingHooks' = SavingHooks /\ opening' = opening
  BY DEF FailLoop, FailTake, FailEvict, FailSave, SavingHooks
<1>2. CASE FailTake
  <2> DEFINE o == Head(failed)
  <2>1. o \in Order /\ o.trade \in Trade /\ trade \in [Trade -> TradeRecord]
    BY <1>2, HeadTailProperties, OrderParts DEF FailTake, TypeOK, ExecutorTypeOK, TraderTypeOK
  <2>2. CASE ~Found(o.trade) BY <1>1, <1>2, <2>2, BooksFrame DEF FailTake
  <2>3. CASE Found(o.trade)
    <3>1. /\ o.trade \in active /\ failing = {} /\ active' = active \ {o.trade}
          /\ trade' = [trade EXCEPT ![o.trade] = Fail(@)] /\ UNCHANGED <<opening, history>>
      BY <1>2, <2>3 DEF FailTake, Found
    <3>2. Fail(trade[o.trade]) \in TradeRecord /\ Fail(trade[o.trade]).status = "Error"
      BY <2>1, RecordTypes, StatusUpdates
    <3> DEFINE f == [order |-> o, pc |-> IF Vec(PoolOf[o.trade]) = {o.trade}
                                         THEN "evict" ELSE "save"]
    <3>3. failing' = {f} /\ f.order = o BY <1>2, <2>3 DEF FailTake
    <3> HIDE DEF o, f
    <3>4. BeingSaved' = BeingSaved \cup {o.trade} BY <1>1, <3>1, <3>3 DEF BeingSaved
    <3>5. /\ o.trade \notin BeingSaved \cup Archived
          /\ OpenBooks' /\ BeingSaved' \cap Archived' = {} /\ Archived' = Archived
      BY <3>1, <3>2, <3>4, SettleBooks
    <3>6. \A h \in SavingHooks : h.order.trade # o.trade BY <3>5 DEF BeingSaved
    <3>7. SaveBooks' BY <1>1, <3>1, <3>3, <3>5, <3>6 DEF Books, SaveBooks
    <3> QED BY <3>5, <3>7 DEF Books
  <2> QED BY <2>2, <2>3
<1>3. CASE FailEvict
  <2>1. PICK f \in failing : failing' = {[f EXCEPT !.pc = "save"]} BY <1>3 DEF FailEvict
  <2> DEFINE g == [f EXCEPT !.pc = "save"]
  <2>2. g.order = f.order BY DEF TypeOK, TraderTypeOK
  <2>3. failing = {f} BY DEF Books, SaveBooks
  <2> HIDE DEF g
  <2>4. failing' = {g} BY <2>1 DEF g
  <2>5. BeingSaved' = BeingSaved BY <1>1, <2>2, <2>3, <2>4 DEF BeingSaved
  <2>6. UNCHANGED <<trade, history>> /\ active' \subseteq active
    BY <1>3 DEF FailEvict, EvictPool
  <2>7. Archived' = Archived BY <2>6 DEF Archived, ValuesOf
  <2>8. OpenBooks' BY <1>1, <2>5, <2>6, <2>7 DEF Books, OpenBooks
  <2>9. SaveBooks' BY <1>1, <2>2, <2>3, <2>4, <2>5, <2>6, <2>7 DEF Books, SaveBooks
  <2> QED BY <2>8, <2>9 DEF Books
<1>4. CASE FailSave
  <2>1. PICK f \in failing : SaveInHistory(f.order.trade) BY <1>4 DEF FailSave
  <2> DEFINE t == f.order.trade
             e == [trade |-> t, record |-> trade[t]]
  <2>2. t \in Trade /\ e \in Entry BY SavedTypes DEF TypeOK, TraderTypeOK
  <2>3. history' = Append(history, e) /\ failing' = {} /\ UNCHANGED <<trade, active>>
    BY <1>4, <2>1 DEF FailSave, SaveInHistory
  <2>4. failing = {f} BY DEF Books, SaveBooks
  <2>5. e.trade = t OBVIOUS
  <2> HIDE DEF e
  <2>6. Archived' = Archived \cup {t} BY <2>2, <2>3, <2>5, SavedTypes, HistoryAppend
  <2>7. t \in BeingSaved /\ t \notin Archived
    <3>1. t \in BeingSaved BY DEF BeingSaved
    <3> QED BY <3>1 DEF Books, SaveBooks
  <2>8. \A h \in SavingHooks : h.order.trade # t BY DEF Books, SaveBooks
  <2>9. BeingSaved' = BeingSaved \ {t} BY <1>1, <2>3, <2>4, <2>8 DEF BeingSaved
  <2>10. OpenBooks' BY <1>1, <2>3, <2>6, <2>7, <2>9 DEF Books, OpenBooks
  <2>11. \A i \in DOMAIN history : history[i].trade # t BY <2>7 DEF Archived, ValuesOf
  <2>12. \A i, j \in DOMAIN history' : history'[i].trade = history'[j].trade => i = j
    BY <2>2, <2>3, <2>5, <2>11, SavedTypes, HistoryAppend DEF Books, SaveBooks
  <2>13. BeingSaved' \cap Archived' = {} BY <2>6, <2>9 DEF Books, SaveBooks
  <2>14. SaveBooks' BY <1>1, <2>3, <2>12, <2>13 DEF Books, SaveBooks
  <2> QED BY <2>10, <2>14 DEF Books
<1> QED BY <1>2, <1>3, <1>4 DEF FailLoop

\* Every step keeps the books.
LEMMA NextBooks ==
  ASSUME TypeOK, Books, [Next]_vars
  PROVE  Books'
<1> HIDE DEF Hook, Job, Slot
<1>1. CASE UNCHANGED traderVars
  BY <1>1, BooksFrame DEF traderVars, SavingHooks
<1>2. CASE \E t \in Trade : Open(t) BY <1>2, OpenKeepsBooks
<1>3. CASE \E o \in Order : HookStart(o)
  <2>1. PICK o \in Order : HookStart(o) BY <1>3
  <2>2. SavingHooks' = SavingHooks
    <3> DEFINE new(id) == [id |-> id, order |-> o,
                           pc |-> IF o.kind = "SimpleBuy" THEN "buy" ELSE "sell"]
    <3>1. \A id \in HookId : new(id).pc \in {"buy", "sell"} OBVIOUS
    <3>2. hooks' = hooks \/ \E id \in HookId : hooks' = hooks \cup {new(id)}
      BY <2>1 DEF HookStart
    <3> HIDE DEF new
    <3> QED BY <3>1, <3>2 DEF SavingHooks
  <2> QED BY <2>1, <2>2, BooksFrame DEF HookStart
<1>4. CASE \E h \in hooks : HookStep(h)
  BY <1>4, BuyHookKeepsBooks, SellHookKeepsBooks DEF HookStep
<1>5. CASE FailLoop BY <1>5, FailKeepsBooks
<1>6. CASE SellLoop \/ \E p \in Pool : MarketTick(p)
  <2>1. UNCHANGED <<active, opening, hooks, failing, history>>
    BY <1>6 DEF SellLoop, SellRegister, SellOrder, SellSend, MarketTick
  <2>2. \A t \in Trade : trade'[t].status = trade[t].status
    <3>1. trade' = trade \/ \E s \in selling :
            trade' = [trade EXCEPT ![s.order.trade] = InitiateSell(@, {"Emergency"})]
      BY <1>6 DEF SellLoop, SellRegister, SellOrder, SellSend, MarketTick
    <3>2. trade \in [Trade -> TradeRecord] BY DEF TypeOK, TraderTypeOK
    <3> QED BY <3>1, <3>2, StatusUpdates
  <2>3. SavingHooks' = SavingHooks BY <2>1 DEF SavingHooks
  <2> QED BY <2>1, <2>2, <2>3, BooksFrame
<1>7. CASE UNCHANGED vars BY <1>1, <1>7 DEF vars
<1> QED BY <1>1, <1>2, <1>3, <1>4, <1>5, <1>6, <1>7 DEF Next

\* The books are kept in every reachable state.
THEOREM BooksKept == Spec => []Books
<1>1. TypeOK /\ Books /\ [Next]_vars => Books' BY NextBooks
<1> QED BY <1>1, InitBooks, TypeCorrect, PTL DEF Spec

\* However the sells of a trade race, succeed and fail, it is saved at most once, after it
\* left active_trades for good.
THEOREM SavedOnce == Spec => []ArchivedOnce
<1>1. Books => ArchivedOnce BY DEF Books, OpenBooks, SaveBooks, ArchivedOnce
<1> QED BY <1>1, BooksKept, PTL
==============================================================================
