------------------------------ MODULE SellProofs ------------------------------
(***************************************************************************)
(* No sell before its buy, for every instance: the inductive invariant     *)
(* Sells of TraderProperties, on top of the types and the books.           *)
(***************************************************************************)
EXTENDS TraderProofs

(***************************************************************************)
(* Records                                                                 *)
(***************************************************************************)

\* What the updates of a record do to the slot of the buy order.
LEMMA BuySlots ==
  ASSUME NEW r \in TradeRecord
  PROVE  /\ InitiateBuy(r).slot["SimpleBuy"] = "Open"
         /\ ConfirmBuy(r).slot["SimpleBuy"] = "Completed"
         /\ \A ks \in SUBSET SellKind :
              InitiateSell(r, ks).slot["SimpleBuy"] = r.slot["SimpleBuy"]
         /\ \A k \in SellKind :
              Archive(ConfirmSell(r, k)).slot["SimpleBuy"] = r.slot["SimpleBuy"]
         /\ Fail(r).slot["SimpleBuy"] = "Completed" <=> r.slot["SimpleBuy"] = "Completed"
<1> USE DEF TradeRecord, Kind
<1>0. "SimpleBuy" \notin SellKind BY DEF SellKind
<1>1. InitiateBuy(r).slot["SimpleBuy"] = "Open" BY DEF InitiateBuy
<1>2. ConfirmBuy(r).slot["SimpleBuy"] = "Completed" BY DEF ConfirmBuy
<1>3. \A ks \in SUBSET SellKind : InitiateSell(r, ks).slot["SimpleBuy"] = r.slot["SimpleBuy"]
  BY <1>0 DEF InitiateSell
<1>4. ASSUME NEW k \in SellKind
      PROVE  Archive(ConfirmSell(r, k)).slot["SimpleBuy"] = r.slot["SimpleBuy"]
  <2> DEFINE q == ConfirmSell(r, k)
             done == CompletedSellOrder(q)
  <2>1. q \in TradeRecord BY RecordTypes
  <2>2. q.slot["SimpleBuy"] = r.slot["SimpleBuy"] BY <1>0 DEF ConfirmSell
  <2> HIDE DEF q
  <2>3. Archive(q).slot["SimpleBuy"] = q.slot["SimpleBuy"]
    <3>1. CASE done = "None" BY <3>1 DEF Archive
    <3>2. CASE done # "None" BY <1>0, <2>1, <3>2 DEF Archive
    <3> QED BY <3>1, <3>2
  <2> QED BY <2>2, <2>3 DEF q
<1>5. Fail(r).slot["SimpleBuy"] = "Completed" <=> r.slot["SimpleBuy"] = "Completed"
  BY DEF Fail
<1> QED BY <1>1, <1>2, <1>3, <1>4, <1>5

\* The ways the record of a trade can change in one step, and who changes it.
LEMMA RecordMoves ==
  ASSUME TypeOK, [Next]_vars, NEW t \in Trade
  PROVE  \/ trade'[t] = trade[t]
         \/ opening[t] = "detected" /\ trade'[t] = InitiateBuy(NewTrade)
         \/ /\ t \in active /\ trade'[t] = ConfirmBuy(trade[t])
            /\ \E h \in hooks : h.pc = "buy" /\ h.order.trade = t
         \/ /\ t \in active
            /\ \E ks \in SUBSET SellKind :
                 /\ trade'[t] = InitiateSell(trade[t], ks)
                 /\ ks = {"Emergency"} \/ \E h \in hooks : HookRegister(h) /\ h.order.trade = t
         \/ /\ t \in active /\ t \notin active'
            /\ \E h \in hooks :
                 /\ h.pc = "sell" /\ h.order.trade = t
                 /\ trade'[t] = Archive(ConfirmSell(trade[t], h.order.kind))
         \/ t \in active /\ t \notin active' /\ trade'[t] = Fail(trade[t])
<1> HIDE DEF Hook, Job, Slot, Entry
<1>1. trade \in [Trade -> TradeRecord] BY DEF TypeOK, TraderTypeOK
<1>2. CASE \E u \in Trade : Open(u)
  <2>1. PICK u \in Trade : Open(u) BY <1>2
  <2>2. CASE OpenOrder(u) BY <1>1, <2>2 DEF OpenOrder
  <2>3. CASE ~OpenOrder(u) BY <2>1, <2>3 DEF Open, OpenDrop, OpenSend, OpenInsert
  <2> QED BY <2>2, <2>3
<1>3. CASE \E h \in hooks : HookStep(h)
  <2>1. PICK h \in hooks : HookStep(h) BY <1>3
  <2>2. h.order \in Order /\ h.order.trade \in Trade BY SavedTypes
  <2>3. CASE HookBuy(h) BY <1>1, <2>3 DEF HookBuy, Found
  <2>4. CASE HookRegister(h)
    <3> DEFINE u == h.order.trade
               ks == Exits[u] \ {"Emergency"}
    <3>1. ks \in SUBSET SellKind BY <2>2, TradesAssumption
    <3>2. \/ trade' = trade
          \/ u \in active /\ trade' = [trade EXCEPT ![u] = InitiateSell(@, ks)]
      BY <2>4 DEF HookRegister, Found
    <3> HIDE DEF ks
    <3> QED BY <1>1, <2>4, <3>1, <3>2
  <2>5. CASE HookSell(h)
    <3>1. \/ trade' = trade
          \/ /\ h.order.trade \in active /\ active' = active \ {h.order.trade}
             /\ trade' = [trade EXCEPT ![h.order.trade] =
                            Archive(ConfirmSell(@, h.order.kind))]
      BY <2>5 DEF HookSell, Sellable, Found
    <3>2. h.pc = "sell" BY <2>5 DEF HookSell
    <3>3. CASE trade' = trade BY <3>3
    <3>4. CASE trade' # trade
      <4>1. CASE t = h.order.trade BY <1>1, <3>1, <3>2, <3>4, <4>1
      <4>2. CASE t # h.order.trade BY <1>1, <3>1, <3>4, <4>2
      <4> QED BY <4>1, <4>2
    <3> QED BY <3>3, <3>4
  <2>6. CASE ~(HookBuy(h) \/ HookRegister(h) \/ HookSell(h))
    BY <2>1, <2>6 DEF HookStep, HookOrder, HookSend, HookWatch, HookEvict, HookCancel, HookSave
  <2> QED BY <2>3, <2>4, <2>5, <2>6
<1>4. CASE FailLoop
  BY <1>1, <1>4 DEF FailLoop, FailTake, FailEvict, FailSave, Found
<1>5. CASE SellLoop
  <2>1. trade' = trade \/ \E s \in selling :
          /\ s.order.trade \in active
          /\ trade' = [trade EXCEPT ![s.order.trade] = InitiateSell(@, {"Emergency"})]
    BY <1>5 DEF SellLoop, SellRegister, SellOrder, SellSend, Found
  <2>2. {"Emergency"} \in SUBSET SellKind BY DEF SellKind
  <2> QED BY <1>1, <2>1, <2>2
<1>6. CASE trade' = trade BY <1>6
<1>7. QED
  BY <1>2, <1>3, <1>4, <1>5, <1>6
     DEF Next, HookStart, MarketTick, traderVars, vars

\* The same, with what the sells being in order adds: who is bought, and that only a
\* sell settles a trade as completed.
LEMMA RecordSteps ==
  ASSUME TypeOK, Books, Sells, [Next]_vars, NEW t \in Trade
  PROVE  \/ trade'[t] = trade[t]
         \/ opening[t] = "detected" /\ trade'[t] = InitiateBuy(NewTrade)
         \/ t \in active /\ bought[t] > 0 /\ trade'[t] = ConfirmBuy(trade[t])
         \/ t \in active /\ \E ks \in SUBSET SellKind : trade'[t] = InitiateSell(trade[t], ks)
         \/ /\ t \in active /\ Confirmed(t)
            /\ \E h \in hooks :
                 /\ h.order.trade = t /\ h.order.kind \in SellKind
                 /\ trade'[t] = Archive(ConfirmSell(trade[t], h.order.kind))
         \/ t \in active /\ trade'[t] = Fail(trade[t])
<1> HIDE DEF Hook, Job, Slot, Entry
<1>1. \A h \in hooks : h.order \in Order /\ h.order.kind \in Kind
  BY SavedTypes, OrderParts
<1>2. ASSUME NEW h \in hooks, h.pc = "buy" PROVE bought[h.order.trade] > 0
  BY <1>2 DEF Sells, HookStages, BuysLanded
<1>3. ASSUME NEW h \in hooks, h.pc = "sell"
      PROVE  h.order.kind \in SellKind /\ Confirmed(h.order.trade)
  <2>1. h.order.kind # "SimpleBuy" BY <1>3 DEF Sells, HookStages
  <2>2. h.order.kind \in SellKind BY <1>1, <2>1 DEF Kind
  <2> QED BY <1>1, <2>2 DEF Sells, SellsConfirmed, Present
<1>4. CASE /\ t \in active
           /\ \E h \in hooks :
                /\ h.pc = "sell" /\ h.order.trade = t
                /\ trade'[t] = Archive(ConfirmSell(trade[t], h.order.kind))
  <2>1. PICK h \in hooks :
          /\ h.pc = "sell" /\ h.order.trade = t
          /\ trade'[t] = Archive(ConfirmSell(trade[t], h.order.kind))
    BY <1>4
  <2>2. h.order.kind \in SellKind /\ Confirmed(t) BY <1>3, <2>1
  <2> QED BY <1>4, <2>1, <2>2
<1> QED BY <1>2, <1>4, RecordMoves

\* A landed buy stays landed.
LEMMA BoughtGrows ==
  ASSUME TypeOK, [Next]_vars, NEW t \in Trade
  PROVE  bought'[t] >= bought[t]
<1> HIDE DEF Hook, Job, Slot, Entry
<1>1. bought \in [Trade -> Nat] BY DEF TypeOK, ExecutorTypeOK
<1>2. CASE \E j \in jobs : Run(j)
  <2>1. PICK j \in jobs : Run(j) BY <1>2
  <2>2. bought' = bought \/ bought' = [bought EXCEPT ![j.order.trade] = @ + 1]
    BY <2>1 DEF Run, Land
  <2> QED BY <1>1, <2>2
<1>3. CASE bought' = bought BY <1>1, <1>3
<1>4. bought' = bought \/ \E j \in jobs : Run(j)
  <2>1. CASE \E u \in Trade : Open(u)
    BY <2>1 DEF Open, OpenDrop, OpenOrder, OpenSend, OpenInsert, Pushed, Sent, ExecutorIdle, executorVars
  <2>2. CASE \E o \in Order : HookStart(o) BY <2>2 DEF HookStart
  <2>3. CASE \E h \in hooks : HookStep(h)
    BY <2>3 DEF HookStep, HookBuy, HookRegister, HookOrder, HookSend, HookWatch, HookSell,
                HookEvict, HookCancel, HookSave, Pushed, Sent, ExecutorIdle, executorVars
  <2>4. CASE FailLoop BY <2>4 DEF FailLoop, FailTake, FailEvict, FailSave, ExecutorIdle, executorVars
  <2>5. CASE SellLoop \/ \E p \in Pool : MarketTick(p)
    BY <2>5 DEF SellLoop, SellRegister, SellOrder, SellSend, MarketTick, Pushed, Sent,
                ExecutorIdle, executorVars
  <2>6. CASE Receive \/ TakeCancel \/ \E s \in Slot : Expire(s) \/ ExpireDisabled(s)
    BY <2>6 DEF Receive, TakeCancel, Expire, ExpireDisabled
  <2>7. CASE \E j \in jobs : Report(j) \/ Retain(j) \/ Evict(j)
    BY <2>7 DEF Report, Retain, Evict
  <2>8. CASE UNCHANGED vars BY <2>8 DEF vars, executorVars
  <2> QED BY <2>1, <2>2, <2>3, <2>4, <2>5, <2>6, <2>7, <2>8 DEF Next
<1> QED BY <1>2, <1>3, <1>4

\* The record of a trade and its buy move on together.
LEMMA StatusesKept ==
  ASSUME TypeOK, Books, Sells, [Next]_vars
  PROVE  Statuses'
<1> SUFFICES ASSUME NEW t \in Trade
             PROVE  /\ trade'[t].slot["SimpleBuy"] = "Completed" =>
                         bought'[t] > 0 /\ trade'[t].status # "Created"
                    /\ trade'[t].status = "Active" => trade'[t].slot["SimpleBuy"] = "Completed"
  BY DEF Statuses
<1> DEFINE r == trade[t]
<1>1. r \in TradeRecord /\ bought[t] \in Nat /\ bought'[t] \in Nat
  BY NextType DEF TypeOK, ExecutorTypeOK, TraderTypeOK
<1>2. bought'[t] >= bought[t] BY BoughtGrows
<1>3. /\ r.slot["SimpleBuy"] = "Completed" => bought[t] > 0 /\ r.status # "Created"
      /\ r.status = "Active" => r.slot["SimpleBuy"] = "Completed"
  BY DEF Sells, Statuses
<1> HIDE DEF r
<1>4. \/ trade'[t] = r
      \/ trade'[t] = InitiateBuy(NewTrade)
      \/ bought[t] > 0 /\ trade'[t] = ConfirmBuy(r)
      \/ \E ks \in SUBSET SellKind : trade'[t] = InitiateSell(r, ks)
      \/ Confirmed(t) /\ \E k \in SellKind : trade'[t] = Archive(ConfirmSell(r, k))
      \/ trade'[t] = Fail(r)
  BY RecordSteps DEF r
<1>5. CASE trade'[t] = r BY <1>1, <1>2, <1>3, <1>5
<1>6. CASE trade'[t] = InitiateBuy(NewTrade)
  <2>1. InitiateBuy(NewTrade).slot["SimpleBuy"] = "Open" BY NewTradeType, BuySlots
  <2>2. InitiateBuy(NewTrade).status = "Created"
    BY NewTradeType DEF InitiateBuy, NewTrade, TradeRecord
  <2> QED BY <1>6, <2>1, <2>2
<1>7. CASE bought[t] > 0 /\ trade'[t] = ConfirmBuy(r)
  <2>1. ConfirmBuy(r).status = "Active" BY <1>1, StatusUpdates
  <2>2. ConfirmBuy(r).slot["SimpleBuy"] = "Completed" BY <1>1, BuySlots
  <2> QED BY <1>1, <1>2, <1>7, <2>1, <2>2
<1>8. CASE \E ks \in SUBSET SellKind : trade'[t] = InitiateSell(r, ks)
  <2>1. PICK ks \in SUBSET SellKind : trade'[t] = InitiateSell(r, ks) BY <1>8
  <2>2. InitiateSell(r, ks).status = r.status BY <1>1, StatusUpdates
  <2>3. InitiateSell(r, ks).slot["SimpleBuy"] = r.slot["SimpleBuy"] BY <1>1, BuySlots
  <2> QED BY <1>1, <1>2, <1>3, <2>1, <2>2, <2>3
<1>9. CASE Confirmed(t) /\ \E k \in SellKind : trade'[t] = Archive(ConfirmSell(r, k))
  <2>1. PICK k \in SellKind : trade'[t] = Archive(ConfirmSell(r, k)) BY <1>9
  <2>2. Archive(ConfirmSell(r, k)).status = "Completed" BY <1>1, StatusUpdates DEF Kind
  <2>3. bought[t] > 0 BY <1>9 DEF Confirmed
  <2> QED BY <1>1, <1>2, <2>1, <2>2, <2>3
<1>10. CASE trade'[t] = Fail(r)
  <2>1. Fail(r).status = "Error" BY <1>1, StatusUpdates
  <2>2. Fail(r).slot["SimpleBuy"] = "Completed" <=> r.slot["SimpleBuy"] = "Completed"
    BY <1>1, BuySlots
  <2> QED BY <1>1, <1>2, <1>3, <1>10, <2>1, <2>2
<1> QED BY <1>4, <1>5, <1>6, <1>7, <1>8, <1>9, <1>10

\* A confirmed buy stays confirmed.
LEMMA ConfirmedStays ==
  ASSUME TypeOK, Books, Sells, [Next]_vars, NEW t \in Trade, Confirmed(t)
  PROVE  Confirmed(t)'
<1> DEFINE r == trade[t]
<1>1. r \in TradeRecord /\ bought[t] \in Nat /\ bought'[t] \in Nat
  BY NextType DEF TypeOK, ExecutorTypeOK, TraderTypeOK
<1>2. bought'[t] > 0 BY <1>1, BoughtGrows DEF Confirmed
<1>3. opening[t] # "detected" BY DEF Books, OpenBooks, Confirmed
<1>4. r.slot["SimpleBuy"] = "Completed" BY DEF Confirmed
<1>5. \/ trade'[t] = r
      \/ trade'[t] = ConfirmBuy(r)
      \/ \E ks \in SUBSET SellKind : trade'[t] = InitiateSell(r, ks)
      \/ \E k \in SellKind : trade'[t] = Archive(ConfirmSell(r, k))
      \/ trade'[t] = Fail(r)
  BY <1>3, RecordSteps
<1> HIDE DEF r
<1>6. trade'[t].slot["SimpleBuy"] = "Completed" BY <1>1, <1>4, <1>5, BuySlots
<1>7. trade'[t].status # "Created" BY <1>6, StatusesKept DEF Statuses
<1> QED BY <1>2, <1>6, <1>7 DEF Confirmed
(***************************************************************************)
(* Orders: where they come from                                            *)
(***************************************************************************)

\* The orders an operation of the executor, called with o, can add.
LEMMA CallAdds ==
  ASSUME TypeOK, NEW o \in Order, Pushed(o) \/ Sent(o) \/ ExecutorIdle
  PROVE  /\ pending' \subseteq pending \cup {o}
         /\ ValuesOf(chan)' \subseteq ValuesOf(chan) \cup {o}
         /\ UNCHANGED <<queue, jobs, executed, failed, bought>>
<1> HIDE DEF Hook, Job, Slot, Entry
<1>1. CASE Pushed(o) BY <1>1 DEF Pushed, Push, ValuesOf
<1>2. CASE Sent(o)
  <2>1. chan \in Seq(Order) BY DEF TypeOK, ExecutorTypeOK
  <2>2. chan' = Append(chan, o) BY <1>2 DEF Sent, Send
  <2>3. ValuesOf(Append(chan, o)) \subseteq ValuesOf(chan) \cup {o}
    BY <2>1, AppendProperties, LenProperties DEF ValuesOf
  <2> QED BY <1>2, <2>2, <2>3 DEF Sent, Send, ValuesOf
<1>3. CASE ExecutorIdle BY <1>3 DEF ExecutorIdle, executorVars, ValuesOf
<1> QED BY <1>1, <1>2, <1>3

\* Taking the head of a sequence adds no value.
LEMMA TailValues ==
  ASSUME NEW S, NEW s \in Seq(S), s # <<>>
  PROVE  Head(s) \in ValuesOf(s) /\ ValuesOf(Tail(s)) \subseteq ValuesOf(s)
<1>1. Head(s) = s[1] /\ Len(s) \in Nat \ {0} /\ DOMAIN s = 1..Len(s)
  BY HeadTailProperties, LenProperties, EmptySeq
<1>2. /\ Tail(s) \in Seq(S) /\ Len(Tail(s)) = Len(s) - 1
      /\ \A i \in 1..Len(Tail(s)) : Tail(s)[i] = s[i + 1]
  BY HeadTailProperties
<1>3. DOMAIN Tail(s) = 1..Len(Tail(s)) BY <1>2, LenProperties
<1> QED BY <1>1, <1>2, <1>3 DEF ValuesOf

\* The executor loop only moves orders on.
LEMMA LoopMoves ==
  ASSUME TypeOK, UNCHANGED traderVars, NEW o \in Order, Present(o)',
         \/ Receive \/ TakeCancel
         \/ \E s \in Slot : Expire(s) \/ ExpireDisabled(s)
  PROVE  Present(o)
<1> HIDE DEF Hook
<1>1. /\ queue \in [Slot -> Order \cup {NoOrder}] /\ chan \in Seq(Order) /\ free \in Seq(Slot)
      /\ cancels \in Seq(Trade) /\ keys \in [Trade -> Slot \cup {0}] /\ NoOrder \notin Order
  BY ExecutorAssumption DEF TypeOK, ExecutorTypeOK
<1>2. UNCHANGED <<pending, executed, failed, hooks, selling>>
  BY DEF Receive, TakeCancel, Expire, ExpireDisabled, traderVars
<1> HIDE DEF Slot
<1>3. ASSUME NEW s \in Slot, Vacate(s) PROVE Queued' \subseteq Queued
  BY <1>1, <1>3 DEF Vacate, Queued
<1>4. CASE Receive
  <2>1. ValuesOf(chan)' \subseteq ValuesOf(chan) /\ Head(chan) \in ValuesOf(chan)
    BY <1>1, <1>4, TailValues DEF Receive, ValuesOf
  <2>2. Queued' \subseteq Queued \cup {Head(chan)} BY <1>1, <1>4 DEF Receive, Queued
  <2>3. jobs' = jobs BY <1>4 DEF Receive
  <2> QED BY <1>2, <2>1, <2>2, <2>3 DEF Present, Executing, ValuesOf
<1>5. CASE TakeCancel
  <2> DEFINE s == keys[Head(cancels)]
  <2>1. Queued' \subseteq Queued
    <3>1. CASE s # 0 /\ queue[s] # NoOrder
      <4>1. s \in Slot /\ Vacate(s) BY <1>1, <1>5, <3>1 DEF TakeCancel
      <4> QED BY <1>3, <4>1
    <3>2. CASE ~(s # 0 /\ queue[s] # NoOrder) BY <1>5, <3>2 DEF TakeCancel, Queued
    <3> QED BY <3>1, <3>2
  <2>2. chan' = chan /\ jobs' = jobs BY <1>5 DEF TakeCancel
  <2> QED BY <1>2, <2>1, <2>2 DEF Present, Executing, ValuesOf
<1>6. ASSUME NEW s \in Slot, Expire(s) PROVE Present(o)
  <2>1. Queued' \subseteq Queued /\ chan' = chan BY <1>3, <1>6 DEF Expire
  <2>2. Executing' \subseteq Executing \cup {queue[s]}
    <3>1. PICK id \in JobId :
            jobs' = jobs \cup {[id |-> id, order |-> queue[s], pc |-> "run", ok |-> FALSE]}
      BY <1>6 DEF Expire
    <3> QED BY <3>1 DEF Executing
  <2>3. queue[s] \in Queued BY <1>1, <1>6 DEF Expire, Queued
  <2> QED BY <1>2, <2>1, <2>2, <2>3 DEF Present, ValuesOf
<1>7. ASSUME NEW s \in Slot, ExpireDisabled(s) PROVE Present(o)
  <2>1. Queued' \subseteq Queued /\ chan' = chan /\ jobs' = jobs
    BY <1>3, <1>7 DEF ExpireDisabled
  <2> QED BY <1>2, <2>1 DEF Present, Executing, ValuesOf
<1> QED BY <1>4, <1>5, <1>6, <1>7

\* So does a job.
LEMMA JobMoves ==
  ASSUME TypeOK, UNCHANGED traderVars, NEW o \in Order, Present(o)',
         NEW j \in jobs, JobStep(j)
  PROVE  Present(o)
<1> HIDE DEF Hook, Slot
<1>1. j.order \in Order /\ j.order \in Executing /\ executed \in [Order -> Nat]
      /\ failed \in Seq(Order)
  BY DEF TypeOK, ExecutorTypeOK, Executing, Job
<1>2. UNCHANGED <<chan, queue, hooks, selling>>
  BY DEF JobStep, Run, Report, Retain, Evict, traderVars
<1>3. pending' \subseteq pending
  BY DEF JobStep, Run, Report, Retain, Evict, Retained
<1>4. Executing' \subseteq Executing
  <2>1. End(j) \/ \E g : g.order = j.order /\ jobs' = (jobs \ {j}) \cup {g}
    <3>1. \A pc : [j EXCEPT !.pc = pc].order = j.order
      BY DEF TypeOK, ExecutorTypeOK
    <3>2. \A pc, ok : [j EXCEPT !.pc = pc, !.ok = ok].order = j.order
      BY DEF TypeOK, ExecutorTypeOK
    <3> QED BY <3>1, <3>2 DEF JobStep, Run, Report, Retain, Evict, Goto
  <2> QED BY <1>1, <2>1 DEF Executing, End
<1>5. executed'[o] > 0 => executed[o] > 0 \/ o = j.order
  <2>1. executed' = executed \/ executed' = [executed EXCEPT ![j.order] = @ + 1]
    BY DEF JobStep, Run, Report, Retain, Evict
  <2> HIDE DEF Job
  <2> QED BY <1>1, <2>1
<1>6. ValuesOf(failed)' \subseteq ValuesOf(failed) \cup {j.order}
  <2>1. failed' = failed \/ failed' = Append(failed, j.order)
    BY DEF JobStep, Run, Report, Retain, Evict
  <2>2. ValuesOf(Append(failed, j.order)) \subseteq ValuesOf(failed) \cup {j.order}
    BY <1>1, AppendProperties, LenProperties DEF ValuesOf
  <2> QED BY <2>1, <2>2 DEF ValuesOf
<1> HIDE DEF Job
<1> QED BY <1>1, <1>2, <1>3, <1>4, <1>5, <1>6 DEF Present, Queued, ValuesOf

\* A hook that moves keeps its order, and a hook step adds no hook.
LEMMA HookKeepsOrder ==
  ASSUME TypeOK, NEW h \in hooks, HookStep(h)
  PROVE  \/ hooks' = hooks \ {h}
         \/ \E g \in Hook : /\ g.order = h.order /\ hooks' = (hooks \ {h}) \cup {g}
                            /\ HookGoto(h, g.pc)
                            /\ g.pc \in {"register", "order", "send", "watch", "evict",
                                        "cancel", "save"}
<1> DEFINE Places == {"register", "order", "send", "watch", "evict", "cancel", "save"}
<1>1. h \in Hook BY DEF TypeOK, TraderTypeOK
<1>2. HookEnd(h) \/ \E pc \in Places : HookGoto(h, pc)
  <2>1. AfterRemoval(h) \in {"cancel", "save"} BY DEF AfterRemoval
  <2> QED
    BY <2>1 DEF HookStep, HookBuy, HookRegister, HookOrder, HookSend, HookWatch, HookSell,
                HookEvict, HookCancel, HookSave
<1>3. ASSUME NEW pc \in Places, HookGoto(h, pc)
      PROVE  \E g \in Hook : /\ g.order = h.order /\ hooks' = (hooks \ {h}) \cup {g}
                            /\ HookGoto(h, g.pc) /\ g.pc \in Places
  <2> DEFINE g == [h EXCEPT !.pc = pc]
  <2>1. g \in Hook /\ g.order = h.order /\ g.pc = pc BY <1>1 DEF Hook
  <2>2. hooks' = (hooks \ {h}) \cup {g} BY <1>3 DEF HookGoto
  <2> HIDE DEF g
  <2> QED BY <1>3, <2>1, <2>2
<1> QED BY <1>2, <1>3 DEF HookEnd

\* A hook gives the executor nothing but the hold order of its trade.
LEMMA HookSends ==
  ASSUME TypeOK, NEW h \in hooks, HookStep(h), NEW o \in Order, Present(o)'
  PROVE  Present(o) \/ (h.pc \in {"order", "send"} /\ o.trade = h.order.trade)
<1> DEFINE hold == OrderOf(h.order.trade, "HoldTime")
<1>1. h.order.trade \in Trade /\ hold \in Order /\ hold.trade = h.order.trade
  BY SavedTypes, OrderOfType DEF Kind, SellKind, OrderOf
<1>2. \/ Pushed(hold) /\ h.pc = "order"
      \/ Sent(hold) /\ h.pc = "send"
      \/ UNCHANGED <<pending, chan, queue, jobs, executed, failed>>
  BY DEF HookStep, HookBuy, HookRegister, HookOrder, HookSend, HookWatch, HookSell,
         HookEvict, HookCancel, HookSave, ExecutorIdle, executorVars
<1>3. \A g \in hooks' : \E f \in hooks : f.order = g.order BY HookKeepsOrder
<1>4. selling' = selling
  BY DEF HookStep, HookBuy, HookRegister, HookOrder, HookSend, HookWatch, HookSell,
         HookEvict, HookCancel, HookSave
<1>5. CASE (Pushed(hold) /\ h.pc = "order") \/ (Sent(hold) /\ h.pc = "send")
  <2>1. CASE o = hold BY <1>1, <1>5, <2>1
  <2>2. CASE o # hold
    <3>1. /\ o \in pending' => o \in pending
          /\ o \in ValuesOf(chan)' => o \in ValuesOf(chan)
          /\ UNCHANGED <<queue, jobs, executed, failed>>
      BY <1>1, <1>5, <2>2, CallAdds
    <3> QED BY <1>3, <1>4, <3>1 DEF Present, Queued, Executing, ValuesOf
  <2> QED BY <2>1, <2>2
<1>6. CASE UNCHANGED <<pending, chan, queue, jobs, executed, failed>>
  BY <1>3, <1>4, <1>6 DEF Present, Queued, Executing, ValuesOf
<1> QED BY <1>2, <1>5, <1>6

\* The seller gives the executor nothing but sells of trades whose buy is completed.
LEMMA SellerSends ==
  ASSUME TypeOK, SellLoop \/ \E p \in Pool : MarketTick(p),
         NEW o \in Order, Present(o)'
  PROVE  Present(o) \/ trade[o.trade].slot["SimpleBuy"] = "Completed"
<1>0. hooks' = hooks BY DEF SellLoop, SellRegister, SellOrder, SellSend, MarketTick
<1>1. \A s \in selling : s.order \in Order BY DEF TypeOK, TraderTypeOK
<1>2. CASE SellLoop
  <2>1. PICK s \in selling : /\ Pushed(s.order) \/ Sent(s.order) \/ ExecutorIdle
                             /\ \A r \in selling' : r.order = s.order
    <3>1. CASE SellSend BY <3>1 DEF SellSend
    <3>2. CASE SellRegister \/ SellOrder
      <4>1. PICK s \in selling :
              /\ \/ selling' = {[s EXCEPT !.pc = "order"]}
                 \/ selling' = {[s EXCEPT !.pc = "send"]}
                 \/ selling' = {}
              /\ Pushed(s.order) \/ ExecutorIdle
        BY <3>2 DEF SellRegister, SellOrder
      <4>2. [s EXCEPT !.pc = "order"].order = s.order /\ [s EXCEPT !.pc = "send"].order = s.order
        BY DEF TypeOK, TraderTypeOK
      <4> QED BY <4>1, <4>2
    <3> QED BY <1>2, <3>1, <3>2 DEF SellLoop
  <2>2. /\ pending' \subseteq pending \cup {s.order}
        /\ ValuesOf(chan)' \subseteq ValuesOf(chan) \cup {s.order}
        /\ UNCHANGED <<queue, jobs, executed, failed>>
    BY <1>1, <2>1, CallAdds
  <2> QED BY <1>0, <2>1, <2>2 DEF Present, Queued, Executing, ValuesOf
<1>3. CASE \E p \in Pool : MarketTick(p)
  <2>1. PICK p \in Pool : MarketTick(p) BY <1>3
  <2>2. PICK i \in DOMAIN arrival, k \in SellKind :
          /\ arrival[i] \in Trade
          /\ Ready(arrival[i])
          /\ selling' = {[order |-> OrderOf(arrival[i], k),
                          pc |-> IF k = "Emergency" THEN "register" ELSE "order"]}
    <3>1. \A t \in Trade : Triggers(t) \subseteq SellKind
      BY TradesAssumption DEF Triggers, SellKind
    <3>2. arrival \in Seq(Trade) BY DEF TypeOK, TraderTypeOK
    <3>3. DOMAIN arrival = 1..Len(arrival) /\ Len(arrival) \in Nat
          /\ \A i \in DOMAIN arrival : arrival[i] \in Trade
      BY <3>2, ElementOfSeq, LenProperties
    <3>4. PICK i \in DOMAIN arrival :
            /\ arrival[i] \in Vec(p)
            /\ \A j \in 1..i : arrival[j] \in Vec(p) => Ready(arrival[j])
            /\ \E k \in Triggers(arrival[i]) :
                 selling' = {[order |-> OrderOf(arrival[i], k),
                              pc |-> IF k = "Emergency" THEN "register" ELSE "order"]}
      BY <2>1 DEF MarketTick
    <3>5. i \in 1..i BY <3>3
    <3> QED BY <3>1, <3>3, <3>4, <3>5
  <2>3. trade[arrival[i]].slot["SimpleBuy"] = "Completed" BY <2>2 DEF Ready
  <2>4. \A s \in selling' : trade[s.order.trade].slot["SimpleBuy"] = "Completed"
    BY <2>2, <2>3 DEF OrderOf
  <2>5. ExecutorIdle BY <2>1 DEF MarketTick
  <2> QED BY <1>0, <2>4, <2>5 DEF ExecutorIdle, executorVars, Present, Queued, Executing, ValuesOf
<1> QED BY <1>2, <1>3

\* The other steps of the trader: a buy is sent, a result received, a failure handled.
LEMMA OthersAdd ==
  ASSUME TypeOK, NEW o \in Order, o.kind \in SellKind, Present(o)',
         \/ \E t \in Trade : Open(t)
         \/ \E q \in Order : HookStart(q)
         \/ FailLoop
  PROVE  Present(o)
<1>1. CASE \E t \in Trade : Open(t)
  <2>1. PICK t \in Trade : Open(t) BY <1>1
  <2> DEFINE buy == OrderOf(t, "SimpleBuy")
  <2>2. buy \in Order /\ buy # o
    <3>1. buy \in Order BY OrderOfType DEF Kind
    <3>2. buy.kind = "SimpleBuy" BY DEF OrderOf
    <3> QED BY <3>1, <3>2 DEF SellKind
  <2>3. Pushed(buy) \/ Sent(buy) \/ ExecutorIdle
    <3>1. CASE OpenOrder(t) BY <3>1 DEF OpenOrder
    <3>2. CASE OpenDrop(t) BY <3>2 DEF OpenDrop
    <3>3. CASE OpenSend(t) BY <3>3 DEF OpenSend
    <3>4. CASE OpenInsert(t) BY <3>4 DEF OpenInsert
    <3> QED BY <2>1, <3>1, <3>2, <3>3, <3>4 DEF Open
  <2>4. /\ o \in pending' => o \in pending
        /\ o \in ValuesOf(chan)' => o \in ValuesOf(chan)
        /\ UNCHANGED <<queue, jobs, executed, failed>>
    BY <2>2, <2>3, CallAdds
  <2>5. UNCHANGED <<hooks, selling>>
    BY <2>1 DEF Open, OpenDrop, OpenOrder, OpenSend, OpenInsert
  <2> QED BY <2>4, <2>5 DEF Present, Queued, Executing, ValuesOf
<1>2. ASSUME NEW q \in Order, HookStart(q) PROVE Present(o)
  <2>1. executed \in [Order -> Nat] BY DEF TypeOK, ExecutorTypeOK
  <2>2. executed[q] > 0 /\ (executed'[o] > 0 => executed[o] > 0)
    BY <1>2, <2>1 DEF HookStart
  <2>3. \A h \in hooks' : h \in hooks \/ h.order = q
    BY <1>2 DEF HookStart
  <2>4. UNCHANGED <<pending, chan, queue, jobs, failed, selling>> BY <1>2 DEF HookStart
  <2> QED BY <2>2, <2>3, <2>4 DEF Present, Queued, Executing, ValuesOf
<1>3. CASE FailLoop
  <2>1. UNCHANGED <<pending, chan, queue, jobs, executed, hooks, selling>>
    BY <1>3 DEF FailLoop, FailTake, FailEvict, FailSave, ExecutorIdle, executorVars
  <2>2. ValuesOf(failed)' \subseteq ValuesOf(failed)
    <3>1. failed \in Seq(Order) BY DEF TypeOK, ExecutorTypeOK
    <3>2. failed' = failed \/ (failed # <<>> /\ failed' = Tail(failed))
      BY <1>3 DEF FailLoop, FailTake, FailEvict, FailSave, ExecutorIdle, executorVars
    <3>3. failed # <<>> => ValuesOf(Tail(failed)) \subseteq ValuesOf(failed)
      BY <3>1, TailValues
    <3> QED BY <3>2, <3>3 DEF ValuesOf
  <2> QED BY <2>1, <2>2 DEF Present, Queued, Executing, ValuesOf
<1> QED BY <1>1, <1>2, <1>3

\* No step brings in a sell order whose buy is not confirmed.
LEMMA SellsStayConfirmed ==
  ASSUME TypeOK, Books, Sells, [Next]_vars
  PROVE  SellsConfirmed'
<1> SUFFICES ASSUME NEW o \in Order, o.kind \in SellKind, Present(o)'
             PROVE  Confirmed(o.trade)'
  BY DEF SellsConfirmed
<1>1. Present(o) \/ Confirmed(o.trade)
  <2>1. CASE \E h \in hooks : HookStep(h)
    <3>1. PICK h \in hooks : HookStep(h) BY <2>1
    <3>2. h.pc \in {"order", "send"} => Confirmed(h.order.trade) BY DEF Sells, HookStages
    <3> QED BY <3>1, <3>2, HookSends
  <2>2. CASE SellLoop \/ \E p \in Pool : MarketTick(p)
    <3>1. Present(o) \/ trade[o.trade].slot["SimpleBuy"] = "Completed" BY <2>2, SellerSends
    <3> QED BY <3>1, OrderParts DEF Confirmed, Sells, Statuses
  <2>3. CASE \/ \E t \in Trade : Open(t)
             \/ \E q \in Order : HookStart(q)
             \/ FailLoop
    BY <2>3, OthersAdd
  <2>4. CASE UNCHANGED traderVars /\ (\/ Receive \/ TakeCancel
                                      \/ \E s \in Slot : Expire(s) \/ ExpireDisabled(s))
    BY <2>4, LoopMoves
  <2>5. CASE UNCHANGED traderVars /\ \E j \in jobs : JobStep(j) BY <2>5, JobMoves
  <2>6. CASE UNCHANGED vars
    BY <2>6 DEF vars, executorVars, traderVars, Present, Queued, Executing, ValuesOf
  <2> QED BY <2>1, <2>2, <2>3, <2>4, <2>5, <2>6 DEF Next, JobStep
<1>2. Confirmed(o.trade) BY <1>1 DEF Sells, SellsConfirmed
<1> QED BY <1>2, ConfirmedStays, OrderParts

(***************************************************************************)
(* Landed buys and the stages of a hook                                    *)
(***************************************************************************)

\* The stages of a hook that was started for a buy.
BuyPc == {"buy", "register", "order", "send", "watch"}

\* A step of a job reports a buy as executed only if it landed.
LEMMA JobLands ==
  ASSUME TypeOK, BuysLanded, NEW j \in jobs, JobStep(j), UNCHANGED hooks,
         \A t \in Trade : bought'[t] >= bought[t]
  PROVE  BuysLanded'
<1>1. /\ j \in Job /\ j.order \in Order /\ j.order.trade \in Trade /\ jobs \subseteq Job
      /\ bought \in [Trade -> Nat] /\ executed \in [Order -> Nat]
      /\ bought' \in [Trade -> Nat]
  <2>1. j \in Job /\ jobs \subseteq Job /\ bought \in [Trade -> Nat] /\ executed \in [Order -> Nat]
    BY DEF TypeOK, ExecutorTypeOK
  <2>2. j.order \in Order /\ j.order.trade \in Trade BY <2>1, OrderParts DEF Job
  <2>3. bought' \in [Trade -> Nat] BY JobTypes DEF TypeOK, ExecutorTypeOK
  <2> QED BY <2>1, <2>2, <2>3
<1>2. \A t \in Trade : bought[t] > 0 => bought'[t] > 0 BY <1>1
<1>3. ASSUME NEW g \in jobs', g.order.kind = "SimpleBuy", g.ok
      PROVE  bought'[g.order.trade] > 0
  <2>1. CASE g \in jobs
    <3>1. g.order.trade \in Trade BY <1>1, <2>1, OrderParts DEF Job
    <3> QED BY <1>2, <1>3, <2>1, <3>1 DEF BuysLanded
  <2>2. CASE g \notin jobs /\ Run(j)
    <3>1. PICK ok \in BOOLEAN :
            /\ \/ CanLand(j.order) /\ Land(j.order)
               \/ ~ok /\ UNCHANGED <<bought, sold>>
            /\ jobs' = (jobs \ {j}) \cup {[j EXCEPT !.pc = "report", !.ok = ok]}
      BY <2>2 DEF Run
    <3>2. g = [j EXCEPT !.pc = "report", !.ok = ok] BY <2>2, <3>1
    <3>3. g.order = j.order /\ g.ok = ok BY <1>1, <3>2 DEF Job
    <3>4. Land(j.order) BY <1>3, <3>1, <3>3
    <3>5. bought' = [bought EXCEPT ![j.order.trade] = @ + 1] BY <1>3, <3>3, <3>4 DEF Land
    <3> QED BY <1>1, <3>3, <3>5
  <2>3. CASE g \notin jobs /\ ~Run(j)
    <3>1. PICK pc \in {"retain", "evict"} : g = [j EXCEPT !.pc = pc]
      BY <2>3 DEF JobStep, Report, Retain, Evict, Goto, End
    <3>2. g.order = j.order /\ g.ok = j.ok BY <1>1, <3>1 DEF Job
    <3> QED BY <1>1, <1>2, <1>3, <3>2 DEF BuysLanded
  <2> QED BY <2>1, <2>2, <2>3
<1>4. ASSUME NEW t \in Trade, executed'[OrderOf(t, "SimpleBuy")] > 0
      PROVE  bought'[t] > 0
  <2> DEFINE buy == OrderOf(t, "SimpleBuy")
  <2>1. buy \in Order BY OrderOfType DEF Kind
  <2>2. buy.trade = t /\ buy.kind = "SimpleBuy" BY DEF OrderOf
  <2> HIDE DEF buy
  <2>3. executed'[buy] = executed[buy] \/ (j.ok /\ j.order = buy)
    <3>1. executed' = executed \/ (j.ok /\ executed' = [executed EXCEPT ![j.order] = @ + 1])
      BY DEF JobStep, Run, Report, Retain, Evict
    <3> QED BY <1>1, <2>1, <3>1
  <2>4. CASE executed'[buy] = executed[buy] BY <1>2, <1>4, <2>4 DEF BuysLanded, buy
  <2>5. CASE j.ok /\ j.order = buy BY <1>2, <2>2, <2>5 DEF BuysLanded
  <2> QED BY <2>3, <2>4, <2>5
<1>5. ASSUME NEW h \in hooks, h.order.kind = "SimpleBuy"
      PROVE  bought'[h.order.trade] > 0
  BY <1>2, <1>5, SavedTypes DEF BuysLanded
<1> QED BY <1>3, <1>4, <1>5 DEF BuysLanded

\* A buy reported as executed did land, in every step.
LEMMA BuysStayLanded ==
  ASSUME TypeOK, BuysLanded, [Next]_vars
  PROVE  BuysLanded'
<1>0. /\ bought \in [Trade -> Nat] /\ bought' \in [Trade -> Nat] /\ executed \in [Order -> Nat]
      /\ jobs \subseteq Job
      /\ \A j \in jobs : j.order \in Order /\ j.order.trade \in Trade
  <2>1. TypeOK' BY NextType
  <2> QED BY <2>1, OrderParts DEF TypeOK, ExecutorTypeOK, Job
<1>1. \A t \in Trade : bought'[t] >= bought[t] BY BoughtGrows
<1>2. \A t \in Trade : bought[t] > 0 => bought'[t] > 0 BY <1>0, <1>1
<1>4. ASSUME \A j \in jobs' : j \in jobs \/ ~j.ok,
             \A t \in Trade : executed'[OrderOf(t, "SimpleBuy")] > 0 =>
                               executed[OrderOf(t, "SimpleBuy")] > 0,
             \A h \in hooks' : \/ \E g \in hooks : h.order = g.order
                              \/ /\ h.order \in Order
                                 /\ executed[h.order] > 0
      PROVE  BuysLanded'
  <2>1. \A j \in jobs' : (j.order.kind = "SimpleBuy" /\ j.ok) => bought'[j.order.trade] > 0
    BY <1>0, <1>2, <1>4 DEF BuysLanded
  <2>2. \A t \in Trade : executed'[OrderOf(t, "SimpleBuy")] > 0 => bought'[t] > 0
    BY <1>2, <1>4 DEF BuysLanded
  <2>3. ASSUME NEW h \in hooks', h.order.kind = "SimpleBuy"
        PROVE  bought'[h.order.trade] > 0
    <3>1. CASE \E g \in hooks : h.order = g.order
      BY <1>2, <2>3, <3>1, SavedTypes DEF BuysLanded
    <3>2. CASE h.order \in Order /\ executed[h.order] > 0
      <4>1. h.order = OrderOf(h.order.trade, "SimpleBuy") /\ h.order.trade \in Trade
        BY <2>3, <3>2 DEF Order, OrderOf
      <4> QED BY <1>2, <3>2, <4>1 DEF BuysLanded
    <3> QED BY <1>4, <3>1, <3>2
  <2> QED BY <2>1, <2>2, <2>3 DEF BuysLanded
<1>5. CASE UNCHANGED traderVars /\ \E j \in jobs : JobStep(j)
  BY <1>1, <1>5, JobLands DEF traderVars
<1>6. CASE UNCHANGED traderVars /\ \E s \in Slot : Expire(s)
  <2>1. PICK s \in Slot : Expire(s) BY <1>6
  <2>2. \A j \in jobs' : j \in jobs \/ ~j.ok BY <2>1 DEF Expire
  <2>3. executed' = executed /\ hooks' = hooks BY <1>6, <2>1 DEF Expire, traderVars
  <2> QED BY <1>4, <2>2, <2>3
<1>7. CASE \E o \in Order : HookStart(o)
  <2>1. PICK o \in Order : HookStart(o) BY <1>7
  <2>2. jobs' = jobs BY <2>1 DEF HookStart
  <2>3. \A q \in Order : executed'[q] > 0 => executed[q] > 0
    BY <1>0, <2>1 DEF HookStart
  <2>4. \A h \in hooks' : h \in hooks \/ (h.order = o /\ executed[o] > 0)
    BY <2>1 DEF HookStart
  <2>5. \A t \in Trade : OrderOf(t, "SimpleBuy") \in Order BY OrderOfType DEF Kind
  <2> QED BY <1>4, <2>2, <2>3, <2>4, <2>5
<1>8. CASE \E h \in hooks : HookStep(h)
  <2>1. PICK h \in hooks : HookStep(h) BY <1>8
  <2>2. jobs' = jobs /\ executed' = executed
    BY <2>1 DEF HookStep, HookBuy, HookRegister, HookOrder, HookSend, HookWatch, HookSell,
                HookEvict, HookCancel, HookSave, Pushed, Sent, ExecutorIdle, executorVars
  <2>3. \A g \in hooks' : \E f \in hooks : g.order = f.order BY <2>1, HookKeepsOrder
  <2> QED BY <1>4, <2>2, <2>3
<1>9. CASE \/ \E t \in Trade : Open(t)
           \/ FailLoop \/ SellLoop \/ \E p \in Pool : MarketTick(p)
           \/ UNCHANGED traderVars /\ (\/ Receive \/ TakeCancel
                                      \/ \E s \in Slot : ExpireDisabled(s))
           \/ UNCHANGED vars
  <2>1. UNCHANGED <<jobs, executed, hooks>>
    <3>1. CASE \E t \in Trade : Open(t)
      BY <3>1 DEF Open, OpenDrop, OpenOrder, OpenSend, OpenInsert, Pushed, Sent, ExecutorIdle, executorVars
    <3>2. CASE FailLoop \/ SellLoop \/ \E p \in Pool : MarketTick(p)
      BY <3>2 DEF FailLoop, FailTake, FailEvict, FailSave, SellLoop, SellRegister, SellOrder,
                  SellSend, MarketTick, Pushed, Sent, ExecutorIdle, executorVars
    <3>3. CASE UNCHANGED traderVars /\ (\/ Receive \/ TakeCancel
                                        \/ \E s \in Slot : ExpireDisabled(s))
      BY <3>3 DEF Receive, TakeCancel, ExpireDisabled, traderVars
    <3>4. CASE UNCHANGED vars BY <3>4 DEF vars, executorVars, traderVars
    <3> QED BY <1>9, <3>1, <3>2, <3>3, <3>4
  <2> QED BY <1>4, <2>1
<1> QED BY <1>5, <1>6, <1>7, <1>8, <1>9 DEF Next, JobStep

\* A trade becomes active at the end of its opening, and is not opened twice.
LEMMA OpeningMoves ==
  ASSUME TypeOK, [Next]_vars, NEW t \in Trade
  PROVE  /\ t \in active' => t \in active \/ (opening[t] = "insert" /\ opening'[t] = "opened")
         /\ opening'[t] \in {"detected", "send", "insert"} =>
              opening[t] \in {"detected", "send", "insert"}
         /\ opening'[t] = "detected" => opening[t] = "detected"
         /\ opening[t] = "opened" => opening'[t] = "opened"
<1>1. CASE \E u \in Trade : Open(u)
  <2>1. PICK u \in Trade : Open(u) BY <1>1
  <2>2. \/ /\ opening[u] \in {"detected", "send"} /\ active' = active
           /\ \E to \in {"send", "insert", "dropped"} : opening' = [opening EXCEPT ![u] = to]
        \/ /\ opening[u] = "insert" /\ active' = active \cup {u}
           /\ opening' = [opening EXCEPT ![u] = "opened"]
    BY <2>1 DEF Open, OpenDrop, OpenOrder, OpenSend, OpenInsert
  <2>3. opening \in [Trade -> {"detected", "send", "insert", "opened", "dropped"}]
    BY DEF TypeOK, TraderTypeOK
  <2> QED BY <2>2, <2>3
<1>2. CASE ~\E u \in Trade : Open(u)
  <2>1. opening' = opening /\ active' \subseteq active
    <3>1. CASE \E o \in Order : HookStart(o) BY <3>1 DEF HookStart
    <3>2. CASE \E h \in hooks : HookStep(h)
      BY <3>2 DEF HookStep, HookBuy, HookRegister, HookOrder, HookSend, HookWatch, HookSell,
                  HookEvict, HookCancel, HookSave, EvictPool
    <3>3. CASE FailLoop \/ SellLoop \/ \E p \in Pool : MarketTick(p)
      BY <3>3 DEF FailLoop, FailTake, FailEvict, FailSave, EvictPool, SellLoop, SellRegister,
                  SellOrder, SellSend, MarketTick
    <3>4. CASE UNCHANGED traderVars BY <3>4 DEF traderVars
    <3>5. CASE UNCHANGED vars BY <3>5 DEF vars, traderVars
    <3> QED BY <1>2, <3>1, <3>2, <3>3, <3>4, <3>5 DEF Next
  <2> QED BY <2>1
<1> QED BY <1>1, <1>2

\* A trade that is open stays so, and does not come back to active_trades.
LEMMA OpenedForGood ==
  ASSUME TypeOK, [Next]_vars, NEW t \in Trade, opening[t] = "opened"
  PROVE  opening'[t] = "opened" /\ (t \in active' => t \in active)
BY OpeningMoves

\* Where a hook stands: after the start of its task, or one stage further.
LEMMA HookOrigins ==
  ASSUME TypeOK, [Next]_vars, NEW g \in hooks', g \notin hooks
  PROVE  \/ /\ g.order \in Order /\ g.order.trade \in active /\ opening' = opening
            /\ g.pc = IF g.order.kind = "SimpleBuy" THEN "buy" ELSE "sell"
            /\ executed[g.order] > 0
         \/ \E h \in hooks :
              /\ g.order = h.order /\ hooks' = (hooks \ {h}) \cup {g}
              /\ g.pc \notin {"buy", "sell"}
              /\ h.pc \in BuyPc <=> g.pc \in BuyPc
              /\ g.pc = "register" => HookBuy(h)
              /\ g.pc = "order" => HookRegister(h) /\ h.order.trade \in active
              /\ g.pc = "send" => h.pc = "order"
              /\ g.pc \in {"evict", "cancel", "save"} =>
                   h \in SavingHooks \/ (HookSell(h) /\ Sellable(h.order.trade))
<1>0. \A h \in hooks : h \in Hook /\ h.order \in Order /\ h.order.trade \in Trade
  BY SavedTypes
<1>1. CASE \E o \in Order : HookStart(o)
  <2>1. PICK o \in Order : HookStart(o) BY <1>1
  <2>2. PICK id \in HookId :
          hooks' = hooks \cup {[id |-> id, order |-> o,
                                pc |-> IF o.kind = "SimpleBuy" THEN "buy" ELSE "sell"]}
    BY <2>1 DEF HookStart
  <2>3. g.order = o /\ g.pc = IF o.kind = "SimpleBuy" THEN "buy" ELSE "sell" BY <2>2
  <2>4. o.trade \in active BY <2>1 DEF HookStart, Found
  <2>5. opening' = opening /\ executed[o] > 0 BY <2>1 DEF HookStart
  <2> QED BY <2>3, <2>4, <2>5
<1>2. CASE \E h \in hooks : HookStep(h)
  <2>1. PICK h \in hooks : HookStep(h) BY <1>2
  <2>2. PICK f \in Hook : /\ f.order = h.order /\ hooks' = (hooks \ {h}) \cup {f}
                         /\ f.pc \in {"register", "order", "send", "watch", "evict",
                                     "cancel", "save"}
    BY <2>1, HookKeepsOrder
  <2>3. g = f BY <2>2
  <2>4. ASSUME NEW pc, HookGoto(h, pc) PROVE g.pc = pc
    <3>1. g = [h EXCEPT !.pc = pc] BY <2>4 DEF HookGoto
    <3> QED BY <1>0, <3>1 DEF Hook
  <2>5. ~HookEnd(h) BY DEF HookEnd
  <2>6. /\ h.pc \in BuyPc <=> g.pc \in BuyPc
        /\ g.pc = "register" => HookBuy(h)
        /\ g.pc = "order" => HookRegister(h) /\ h.order.trade \in active
        /\ g.pc = "send" => h.pc = "order"
        /\ g.pc \in {"evict", "cancel", "save"} =>
             h \in SavingHooks \/ (HookSell(h) /\ Sellable(h.order.trade))
    <3> USE DEF BuyPc, SavingHooks
    <3>1. CASE HookBuy(h) BY <2>4, <3>1 DEF HookBuy
    <3>2. CASE HookRegister(h) BY <2>4, <3>2 DEF HookRegister, Found
    <3>3. CASE HookOrder(h) BY <2>4, <3>3 DEF HookOrder
    <3>4. CASE HookSend(h) BY <2>4, <2>5, <3>4 DEF HookSend
    <3>5. CASE HookWatch(h) BY <2>5, <3>5 DEF HookWatch
    <3>6. CASE HookSell(h) BY <2>4, <2>5, <3>6 DEF HookSell, AfterRemoval
    <3>7. CASE HookEvict(h) BY <2>4, <3>7 DEF HookEvict, AfterRemoval
    <3>8. CASE HookCancel(h) BY <2>4, <3>8 DEF HookCancel
    <3>9. CASE HookSave(h) BY <2>5, <3>9 DEF HookSave
    <3> QED BY <2>1, <3>1, <3>2, <3>3, <3>4, <3>5, <3>6, <3>7, <3>8, <3>9 DEF HookStep
  <2> QED BY <2>2, <2>3, <2>6
<1>3. CASE ~((\E o \in Order : HookStart(o)) \/ \E h \in hooks : HookStep(h))
  <2>1. hooks' = hooks
    <3>1. CASE \E t \in Trade : Open(t)
      BY <3>1 DEF Open, OpenDrop, OpenOrder, OpenSend, OpenInsert
    <3>2. CASE FailLoop \/ SellLoop \/ \E p \in Pool : MarketTick(p)
      BY <3>2 DEF FailLoop, FailTake, FailEvict, FailSave, SellLoop, SellRegister, SellOrder,
                  SellSend, MarketTick
    <3>3. CASE UNCHANGED traderVars BY <3>3 DEF traderVars
    <3>4. CASE UNCHANGED vars BY <3>4 DEF vars, traderVars
    <3> QED BY <1>3, <3>1, <3>2, <3>3, <3>4 DEF Next
  <2> QED BY <2>1
<1> QED BY <1>1, <1>2, <1>3

\* A hook goes through its stages with what its trade must know at each of them.
LEMMA StagesKept ==
  ASSUME TypeOK, Books, Sells, [Next]_vars
  PROVE  HookStages'
<1>0. \A h \in hooks : h \in Hook /\ h.order \in Order /\ h.order.trade \in Trade
  BY SavedTypes
<1>1. ASSUME NEW g \in hooks
      PROVE  /\ opening'[g.order.trade] = "opened"
             /\ g.order.kind = "SimpleBuy" <=> g.pc \in BuyPc
             /\ g.pc = "register" /\ g.order.trade \in active' => Confirmed(g.order.trade)'
             /\ g.pc \in {"order", "send"} => Confirmed(g.order.trade)'
  <2>1. opening[g.order.trade] = "opened" BY DEF Sells, HookStages
  <2>2. opening'[g.order.trade] = "opened" /\ (g.order.trade \in active' => g.order.trade \in active)
    BY <1>0, <2>1, OpenedForGood
  <2>3. Confirmed(g.order.trade) => Confirmed(g.order.trade)' BY <1>0, ConfirmedStays
  <2> QED BY <2>2, <2>3 DEF Sells, HookStages, BuyPc
<1>2. ASSUME NEW g \in hooks', g \notin hooks
      PROVE  /\ opening'[g.order.trade] = "opened"
             /\ g.order.kind = "SimpleBuy" <=> g.pc \in BuyPc
             /\ g.pc = "register" /\ g.order.trade \in active' => Confirmed(g.order.trade)'
             /\ g.pc \in {"order", "send"} => Confirmed(g.order.trade)'
  <2>1. CASE /\ g.order \in Order /\ g.order.trade \in active /\ opening' = opening
             /\ g.pc = IF g.order.kind = "SimpleBuy" THEN "buy" ELSE "sell"
    BY <2>1 DEF Books, OpenBooks, BuyPc
  <2>2. ASSUME NEW h \in hooks, g.order = h.order,
               h.pc \in BuyPc <=> g.pc \in BuyPc,
               g.pc = "register" => HookBuy(h),
               g.pc = "order" => HookRegister(h) /\ h.order.trade \in active,
               g.pc = "send" => h.pc = "order"
        PROVE  /\ opening'[g.order.trade] = "opened"
               /\ g.order.kind = "SimpleBuy" <=> g.pc \in BuyPc
               /\ g.pc = "register" /\ g.order.trade \in active' => Confirmed(g.order.trade)'
               /\ g.pc \in {"order", "send"} => Confirmed(g.order.trade)'
    <3> DEFINE t == h.order.trade
    <3>1. t \in Trade /\ opening'[t] = "opened" BY <1>0, <1>1
    <3>2. g.pc = "register" /\ t \in active' => Confirmed(t)'
      <4> SUFFICES ASSUME HookBuy(h), t \in active' PROVE Confirmed(t)'
        BY <2>2
      <4>1. t \in active BY DEF HookBuy
      <4>2. trade' = [trade EXCEPT ![t] = ConfirmBuy(@)] BY <4>1 DEF HookBuy, Found
      <4>3. trade[t] \in TradeRecord /\ trade'[t] = ConfirmBuy(trade[t])
        BY <3>1, <4>2 DEF TypeOK, TraderTypeOK
      <4>4. trade'[t].slot["SimpleBuy"] = "Completed" /\ trade'[t].status = "Active"
        BY <4>3, BuySlots, StatusUpdates
      <4>5. bought'[t] > 0 BY <3>1, <4>4, StatusesKept DEF Statuses
      <4> QED BY <4>4, <4>5 DEF Confirmed
    <3>3. g.pc \in {"order", "send"} => Confirmed(t)'
      <4>1. g.pc = "order" => Confirmed(t)
        BY <2>2 DEF HookRegister, Sells, HookStages
      <4>2. g.pc = "send" => Confirmed(t) BY <2>2 DEF Sells, HookStages
      <4> QED BY <3>1, <4>1, <4>2, ConfirmedStays
    <3> QED BY <1>1, <2>2, <3>1, <3>2, <3>3
  <2> QED BY <1>2, <2>1, <2>2, HookOrigins
<1> QED BY <1>1, <1>2 DEF HookStages, BuyPc

(***************************************************************************)
(* The theorem                                                             *)
(***************************************************************************)

\* A restored trade is bought, and its buy is confirmed.
LEMMA RestoredRecords ==
  ASSUME NEW t \in Trade
  PROVE  /\ Bought(t).status = "Active" /\ Bought(t).slot["SimpleBuy"] = "Completed"
         /\ NewTrade.status = "Created" /\ NewTrade.slot["SimpleBuy"] = "None"
<1> DEFINE r == InitiateBuy(NewTrade)
           ks == Exits[t] \ {"Emergency"}
<1>1. r \in TradeRecord /\ ConfirmBuy(r) \in TradeRecord BY NewTradeType, RecordTypes
<1>2. ks \in SUBSET SellKind BY TradesAssumption
<1>3. Bought(t) = InitiateSell(ConfirmBuy(r), ks) BY DEF Bought
<1> HIDE DEF r, ks
<1>4. ConfirmBuy(r).status = "Active" /\ ConfirmBuy(r).slot["SimpleBuy"] = "Completed"
  BY <1>1, StatusUpdates, BuySlots
<1>5. Bought(t).status = "Active" /\ Bought(t).slot["SimpleBuy"] = "Completed"
  BY <1>1, <1>2, <1>3, <1>4, StatusUpdates, BuySlots
<1>6. NewTrade.status = "Created" /\ NewTrade.slot["SimpleBuy"] = "None" BY DEF NewTrade, Kind
<1> QED BY <1>5, <1>6

LEMMA InitSells == Init => Sells
<1> SUFFICES ASSUME NEW l \in Layouts, ExecutorInit(l), TraderInit(l)
             PROVE  Sells
  BY DEF Init
<1>0. Restored \subseteq Trade BY ExecutorAssumption
<1>1. Statuses BY <1>0, RestoredRecords DEF Statuses, ExecutorInit, TraderInit
<1>2. \A t \in Restored : Confirmed(t)
  BY <1>0, RestoredRecords DEF Confirmed, ExecutorInit, TraderInit
<1>3. SellsConfirmed
  <2>1. ASSUME NEW o \in Order, Present(o) PROVE o.trade \in Restored
    <3>1. o \in pending \cup Queued
      BY <2>1 DEF Present, ExecutorInit, TraderInit, ValuesOf, Executing
    <3>2. o \in Queued => \E s \in DOMAIN l : o = OrderOf(l[s], "HoldTime")
      BY DEF ExecutorInit, Queued
    <3>3. \A s \in DOMAIN l : l[s] \in Restored BY LayoutTypes
    <3> QED BY <3>1, <3>2, <3>3 DEF ExecutorInit, OrderOf
  <2> QED BY <1>2, <2>1 DEF SellsConfirmed
<1>4. BuysLanded
  <2>1. \A t \in Trade : executed[OrderOf(t, "SimpleBuy")] = 0
    BY OrderOfType DEF ExecutorInit, Kind
  <2> QED BY <2>1 DEF BuysLanded, ExecutorInit, TraderInit
<1>5. HookStages BY DEF HookStages, TraderInit
<1> QED BY <1>1, <1>3, <1>4, <1>5 DEF Sells

\* In every reachable state, an order that sells is somewhere only if the buy of its
\* trade is confirmed, and every hook knows what its stage promises.
THEOREM SellsKept == Spec => []Sells
<1>1. TypeOK /\ Books /\ Sells /\ [Next]_vars => Sells'
  BY SellsStayConfirmed, BuysStayLanded, StagesKept, StatusesKept DEF Sells
<1> QED BY <1>1, InitSells, TypeCorrect, BooksKept, PTL DEF Spec

\* No sell order reaches the executor before the buy of its trade has landed and been
\* confirmed, whatever the channels, queues and jobs it goes through.
THEOREM BuyBeforeSell == Spec => []SellNeedsBuy
<1>1. TypeOK /\ Sells => SellNeedsBuy
  <2> SUFFICES ASSUME TypeOK, Sells, NEW o \in Order, o.kind \in SellKind,
                      o \in pending \cup Sending \cup Executing \/ Live(o)
               PROVE  bought[o.trade] > 0 /\ trade[o.trade].slot["SimpleBuy"] = "Completed"
    BY DEF SellNeedsBuy
  <2>1. Present(o) => Confirmed(o.trade) BY DEF Sells, SellsConfirmed
  <2>2. Live(o) => Present(o)
    BY DEF Live, InTransit, Reported, Present, Executing
  <2>3. o \in Sending => Confirmed(o.trade)
    <3>1. CASE \E t \in Trade : o = OrderOf(t, "SimpleBuy") BY <3>1 DEF OrderOf, SellKind
    <3>2. CASE \E h \in hooks : h.pc = "send" /\ o = OrderOf(h.order.trade, "HoldTime")
      BY <3>2 DEF OrderOf, Sells, HookStages
    <3>3. CASE \E s \in selling : o = s.order BY <2>1, <3>3 DEF Present
    <3> QED BY <3>1, <3>2, <3>3 DEF Sending
  <2> QED BY <2>1, <2>2, <2>3 DEF Present, Confirmed
<1> QED BY <1>1, TypeCorrect, SellsKept, PTL
=============================================================================
