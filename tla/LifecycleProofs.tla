--------------------------- MODULE LifecycleProofs ---------------------------
(***************************************************************************)
(* The trader and the executor implement TradeLifecycle, for every         *)
(* instance: initial states map to initial states, and every step maps to  *)
(* a step of a trade's life or to none.                                    *)
(***************************************************************************)
EXTENDS SellProofs

\* Initially a trade is unknown, or restored and held.
LEMMA InitImplements == Init => Lifecycle!Init
<1> SUFFICES ASSUME NEW l \in Layouts, ExecutorInit(l), TraderInit(l)
             PROVE  Lifecycle!Init
  BY DEF Init
<1>1. \A t \in Trade : StageOf(t) \in {"unknown", "holding"}
  BY RestoredRecords DEF TraderInit, StageOf, StageName
<1>2. Stages \in [Trade -> {"unknown", "holding"}] BY <1>1 DEF Stages
<1>3. Ledger = <<>>
  <2>1. history = <<>> BY DEF TraderInit
  <2> QED BY <2>1 DEF Ledger
<1> QED BY <1>2, <1>3 DEF Lifecycle!Init

\* A step that changes neither the history nor the stage of a trade is no step of its life.
LEMMA Stutter ==
  ASSUME UNCHANGED history, \A t \in Trade : StageOf(t)' = StageOf(t)
  PROVE  UNCHANGED <<Stages, Ledger>>
BY DEF Stages, Ledger

\* A step that changes the stage of one trade is a move in its life.
LEMMA OneMoves ==
  ASSUME UNCHANGED history, NEW u \in Trade, NEW from, NEW to,
         \A t \in Trade : t # u => StageOf(t)' = StageOf(t),
         StageOf(u) \in from, StageOf(u)' = to
  PROVE  Lifecycle!Move(u, from, to)
<1>1. Stages[u] \in from BY DEF Stages
<1>2. Stages' = [Stages EXCEPT ![u] = to] BY DEF Stages
<1>3. Ledger' = Ledger BY DEF Ledger
<1> QED BY <1>1, <1>2, <1>3 DEF Lifecycle!Move

\* Saving a settled trade that is not saved yet records its outcome.
LEMMA SaveRecords ==
  ASSUME TypeOK, NEW t \in Trade, SaveInHistory(t), t \notin Archived,
         opening[t] = "opened", trade[t].status \in {"Completed", "Error"},
         UNCHANGED <<opening, trade>>
  PROVE  Lifecycle!Record(t)
<1> DEFINE e == [trade |-> t, record |-> trade[t]]
           x == [trade |-> t, outcome |-> StageOf(t)]
           Any == {OutcomeOf(d) : d \in Entry}
<1>1. e \in Entry /\ history \in Seq(Entry) /\ history' = Append(history, e)
  BY DEF SaveInHistory, TypeOK, TraderTypeOK, Entry
<1>2. OutcomeOf(e) = x BY DEF OutcomeOf, StageOf
<1>3. Stages[t] \in Lifecycle!Settled
  BY DEF Stages, StageOf, StageName, Lifecycle!Settled
<1>4. ~Lifecycle!Recorded(t)
  <2>1. \A i \in DOMAIN history : history[i].trade # t BY DEF Archived, ValuesOf
  <2> QED BY <2>1 DEF Lifecycle!Recorded, Ledger, OutcomeOf
<1>5. x \in Any BY <1>1, <1>2
<1> HIDE DEF e, x
<1>6. /\ Len(history) \in Nat /\ DOMAIN history = 1..Len(history)
      /\ DOMAIN history' = 1..(Len(history) + 1)
      /\ \A i \in 1..Len(history) : history'[i] = history[i] /\ history[i] \in Entry
      /\ history'[Len(history) + 1] = e
  BY <1>1, HistoryAppend, LenProperties, ElementOfSeq, AppendProperties
<1> HIDE DEF Any
<1>7. /\ Ledger \in [1..Len(history) -> Any]
      /\ Ledger' \in [1..(Len(history) + 1) -> Any]
      /\ \A i \in 1..Len(history) : Ledger'[i] = Ledger[i]
      /\ Ledger'[Len(history) + 1] = x
  BY <1>2, <1>5, <1>6 DEF Ledger, Any
<1>8. Ledger \in Seq(Any) /\ Ledger' \in Seq(Any) /\ Len(Ledger) = Len(history)
      /\ Len(Ledger') = Len(history) + 1
  BY <1>6, <1>7, SeqDef, LenProperties
<1>9. Ledger' = Append(Ledger, x)
  <2>1. /\ Append(Ledger, x) \in Seq(Any) /\ Len(Append(Ledger, x)) = Len(history) + 1
        /\ \A i \in 1..Len(history) : Append(Ledger, x)[i] = Ledger[i]
        /\ Append(Ledger, x)[Len(history) + 1] = x
    BY <1>5, <1>8, AppendProperties
  <2>2. \A i \in 1..(Len(history) + 1) : Ledger'[i] = Append(Ledger, x)[i]
    BY <1>6, <1>7, <2>1
  <2> QED BY <1>8, <2>1, <2>2, SeqEqual
<1>10. Stages' = Stages BY DEF Stages, StageOf
<1>11. x = [trade |-> t, outcome |-> Stages[t]] BY DEF x, Stages
<1> QED BY <1>3, <1>4, <1>9, <1>10, <1>11 DEF Lifecycle!Record

\* Only the steps below change the history, or what an open trade's record says.
LEMMA StageKept ==
  ASSUME TypeOK, NEW t \in Trade,
         opening'[t] = opening[t] \/ (opening[t] # "opened" /\ opening'[t] # "opened"),
         trade'[t].status = trade[t].status \/ opening'[t] # "opened"
  PROVE  StageOf(t)' = StageOf(t)
BY DEF StageOf

\* Opening a trade: it is entered when it gets into active_trades.
LEMMA OpenImplements ==
  ASSUME TypeOK, Books, NEW u \in Trade, Open(u)
  PROVE  [Lifecycle!Next]_Lifecycle!vars
<1>1. /\ opening \in [Trade -> {"detected", "send", "insert", "opened", "dropped"}]
      /\ trade \in [Trade -> TradeRecord]
  BY DEF TypeOK, TraderTypeOK
<1>2. UNCHANGED history BY DEF Open, OpenDrop, OpenOrder, OpenSend, OpenInsert
<1>3. opening[u] # "opened" /\ trade[u].status = "Created"
  BY DEF Open, OpenDrop, OpenOrder, OpenSend, OpenInsert, Books, OpenBooks
<1>4. \A t \in Trade : t # u => StageOf(t)' = StageOf(t)
  <2>1. /\ \E to \in {"send", "insert", "opened", "dropped"} :
             opening' = [opening EXCEPT ![u] = to]
        /\ trade' = trade \/ trade' = [trade EXCEPT ![u] = InitiateBuy(NewTrade)]
    BY DEF Open, OpenDrop, OpenOrder, OpenSend, OpenInsert
  <2>2. \A t \in Trade : t # u => opening'[t] = opening[t] /\ trade'[t] = trade[t]
    BY <1>1, <2>1
  <2> QED BY <2>2, StageKept
<1>5. CASE OpenInsert(u)
  <2>1. opening'[u] = "opened" /\ trade'[u] = trade[u] BY <1>1, <1>5 DEF OpenInsert
  <2>2. StageOf(u) = "unknown" /\ StageOf(u)' = "entered"
    BY <1>3, <2>1 DEF StageOf, StageName
  <2>3. Lifecycle!Move(u, {"unknown"}, "entered") BY <1>2, <1>4, <2>2, OneMoves
  <2> QED BY <2>3 DEF Lifecycle!Enter, Lifecycle!Next
<1>6. CASE ~OpenInsert(u)
  <2>1. opening'[u] # "opened" BY <1>1, <1>6 DEF Open, OpenDrop, OpenOrder, OpenSend
  <2>2. StageOf(u)' = StageOf(u) BY <1>3, <2>1, StageKept
  <2> QED BY <1>2, <1>4, <2>2, Stutter DEF Lifecycle!vars
<1> QED BY <1>5, <1>6

\* The step of a hook: a buy is confirmed, a sell settles the trade, a save records it.
LEMMA HookImplements ==
  ASSUME TypeOK, Books, Sells, NEW h \in hooks, HookStep(h)
  PROVE  [Lifecycle!Next]_Lifecycle!vars
<1> DEFINE u == h.order.trade
<1>1. u \in Trade /\ trade \in [Trade -> TradeRecord] /\ opening' = opening
      /\ h.order.kind \in Kind /\ h.order \in Order
  BY SavedTypes, OrderParts
     DEF TypeOK, TraderTypeOK, HookStep, HookBuy, HookRegister, HookOrder, HookSend, HookWatch,
         HookSell, HookEvict, HookCancel, HookSave
<1>2. CASE HookSave(h)
  <2>1. h \in SavingHooks BY <1>2 DEF HookSave, SavingHooks
  <2>2. u \in BeingSaved BY <2>1 DEF BeingSaved
  <2>3. u \notin Archived /\ opening[u] = "opened" /\ trade[u].status \in {"Completed", "Error"}
    BY <2>2 DEF Books, OpenBooks, SaveBooks
  <2>4. Lifecycle!Record(u) BY <1>1, <1>2, <2>3, SaveRecords DEF HookSave
  <2> QED BY <1>1, <2>4 DEF Lifecycle!Next
<1>3. CASE HookBuy(h) /\ u \in active
  <2>1. trade' = [trade EXCEPT ![u] = ConfirmBuy(@)] /\ UNCHANGED history
    BY <1>3 DEF HookBuy, Found
  <2>2. trade'[u].status = "Active" /\ \A t \in Trade : t # u => trade'[t] = trade[t]
    BY <1>1, <2>1, StatusUpdates
  <2>3. \A t \in Trade : t # u => StageOf(t)' = StageOf(t) BY <1>1, <2>2, StageKept
  <2>4. opening[u] = "opened" /\ trade[u].status \in {"Created", "Active"}
    BY <1>3 DEF Books, OpenBooks
  <2>5. CASE trade[u].status = "Active"
    <3>1. StageOf(u)' = StageOf(u) BY <1>1, <2>2, <2>5, StageKept
    <3> QED BY <2>1, <2>3, <3>1, Stutter DEF Lifecycle!vars
  <2>6. CASE trade[u].status = "Created"
    <3>1. StageOf(u) = "entered" /\ StageOf(u)' = "holding"
      BY <1>1, <2>2, <2>4, <2>6 DEF StageOf, StageName
    <3>2. Lifecycle!Move(u, {"entered"}, "holding") BY <1>1, <2>1, <2>3, <3>1, OneMoves
    <3> QED BY <1>1, <3>2 DEF Lifecycle!Buy, Lifecycle!Next
  <2> QED BY <2>4, <2>5, <2>6
<1>4. CASE HookSell(h) /\ Sellable(u)
  <2> DEFINE r == Archive(ConfirmSell(trade[u], h.order.kind))
  <2>1. trade' = [trade EXCEPT ![u] = r] /\ UNCHANGED history /\ u \in active
    BY <1>4 DEF HookSell, Sellable, Found
  <2>2. r.status = "Completed" BY <1>1, StatusUpdates
  <2> HIDE DEF r
  <2>3. trade'[u] = r /\ \A t \in Trade : t # u => trade'[t] = trade[t] BY <1>1, <2>1
  <2>4. \A t \in Trade : t # u => StageOf(t)' = StageOf(t) BY <1>1, <2>3, StageKept
  <2>5. Confirmed(u)
    <3>1. h.order.kind \in SellKind BY <1>1, <1>4 DEF HookSell, Sells, HookStages, Kind
    <3> QED BY <1>1, <3>1 DEF Sells, SellsConfirmed, Present
  <2>6. opening[u] = "opened" /\ trade[u].status = "Active"
    BY <2>1, <2>5 DEF Books, OpenBooks, Confirmed
  <2>7. StageOf(u) = "holding" /\ StageOf(u)' = "sold"
    BY <1>1, <2>2, <2>3, <2>6 DEF StageOf, StageName
  <2>8. Lifecycle!Move(u, {"holding"}, "sold") BY <1>1, <2>1, <2>4, <2>7, OneMoves
  <2> QED BY <1>1, <2>8 DEF Lifecycle!Sell, Lifecycle!Next
<1>5. CASE ~(\/ HookSave(h) \/ (HookBuy(h) /\ u \in active)
             \/ (HookSell(h) /\ Sellable(u)))
  <2>1. /\ UNCHANGED history
        /\ \/ trade' = trade
           \/ trade' = [trade EXCEPT ![u] = InitiateSell(@, Exits[u] \ {"Emergency"})]
    BY <1>5 DEF HookStep, HookBuy, HookRegister, HookOrder, HookSend, HookWatch, HookSell,
                HookEvict, HookCancel, HookSave, Found
  <2>2. \A t \in Trade : trade'[t].status = trade[t].status BY <1>1, <2>1, StatusUpdates
  <2>3. \A t \in Trade : StageOf(t)' = StageOf(t) BY <1>1, <2>2, StageKept
  <2> QED BY <2>1, <2>3, Stutter DEF Lifecycle!vars
<1> QED BY <1>2, <1>3, <1>4, <1>5

\* The failed-orders loop: a failure settles the trade, a save records it.
LEMMA FailImplements ==
  ASSUME TypeOK, Books, FailLoop
  PROVE  [Lifecycle!Next]_Lifecycle!vars
<1>1. trade \in [Trade -> TradeRecord] /\ opening' = opening
  BY DEF TypeOK, TraderTypeOK, FailLoop, FailTake, FailEvict, FailSave
<1>2. CASE FailSave
  <2>1. PICK f \in failing : SaveInHistory(f.order.trade) BY <1>2 DEF FailSave
  <2> DEFINE u == f.order.trade
  <2>2. u \in Trade /\ u \in BeingSaved BY SavedTypes DEF BeingSaved
  <2>3. u \notin Archived /\ opening[u] = "opened" /\ trade[u].status \in {"Completed", "Error"}
    BY <2>2 DEF Books, OpenBooks, SaveBooks
  <2>4. Lifecycle!Record(u) BY <1>1, <1>2, <2>1, <2>2, <2>3, SaveRecords DEF FailSave
  <2> QED BY <2>2, <2>4 DEF Lifecycle!Next
<1>3. CASE FailTake /\ Found(Head(failed).trade)
  <2>1. PICK u \in Trade : u = Head(failed).trade
    BY <1>3, HeadTailProperties, OrderParts DEF FailTake, TypeOK, ExecutorTypeOK
  <2>2. trade' = [trade EXCEPT ![u] = Fail(@)] /\ UNCHANGED history /\ u \in active
    BY <1>3, <2>1 DEF FailTake, Found
  <2>3. trade'[u].status = "Error" /\ \A t \in Trade : t # u => trade'[t] = trade[t]
    BY <1>1, <2>1, <2>2, StatusUpdates
  <2>4. \A t \in Trade : t # u => StageOf(t)' = StageOf(t) BY <1>1, <2>3, StageKept
  <2>5. opening[u] = "opened" /\ trade[u].status \in {"Created", "Active"}
    BY <2>2 DEF Books, OpenBooks
  <2>6. StageOf(u) \in {"entered", "holding"} /\ StageOf(u)' = "failed"
    BY <1>1, <2>3, <2>5 DEF StageOf, StageName
  <2>7. Lifecycle!Move(u, {"entered", "holding"}, "failed") BY <2>1, <2>2, <2>4, <2>6, OneMoves
  <2> QED BY <2>1, <2>7 DEF Lifecycle!Fail, Lifecycle!Next
<1>4. CASE ~(FailSave \/ (FailTake /\ Found(Head(failed).trade)))
  <2>1. UNCHANGED <<history, trade>> BY <1>4 DEF FailLoop, FailTake, FailEvict
  <2>2. \A t \in Trade : StageOf(t)' = StageOf(t) BY <1>1, <2>1, StageKept
  <2> QED BY <2>1, <2>2, Stutter DEF Lifecycle!vars
<1> QED BY <1>2, <1>3, <1>4

\* Every step is a step of TradeLifecycle or a stutter.
LEMMA NextImplements ==
  ASSUME TypeOK, Books, Sells, [Next]_vars
  PROVE  [Lifecycle!Next]_Lifecycle!vars
<1>1. CASE \E u \in Trade : Open(u) BY <1>1, OpenImplements
<1>2. CASE \E h \in hooks : HookStep(h) BY <1>2, HookImplements
<1>3. CASE FailLoop BY <1>3, FailImplements
<1>4. CASE SellLoop
  <2>1. UNCHANGED <<history, opening>>
    BY <1>4 DEF SellLoop, SellRegister, SellOrder, SellSend
  <2>2. trade' = trade \/ \E s \in selling :
          trade' = [trade EXCEPT ![s.order.trade] = InitiateSell(@, {"Emergency"})]
    BY <1>4 DEF SellLoop, SellRegister, SellOrder, SellSend
  <2>3. trade \in [Trade -> TradeRecord] BY DEF TypeOK, TraderTypeOK
  <2>4. \A t \in Trade : trade'[t].status = trade[t].status BY <2>2, <2>3, StatusUpdates
  <2>5. \A t \in Trade : StageOf(t)' = StageOf(t) BY <2>1, <2>4, StageKept
  <2> QED BY <2>1, <2>5, Stutter DEF Lifecycle!vars
<1>5. CASE UNCHANGED <<history, opening, trade>>
  <2>1. \A t \in Trade : StageOf(t)' = StageOf(t) BY <1>5, StageKept
  <2> QED BY <1>5, <2>1, Stutter DEF Lifecycle!vars
<1> QED
  BY <1>1, <1>2, <1>3, <1>4, <1>5 DEF Next, HookStart, MarketTick, traderVars, vars

\* The trader and the executor implement the life of a trade: entered, bought, then sold or
\* failed, never back, and one outcome in the ledger.
THEOREM TraderImplementsLifecycle == Spec => ImplementsLifecycle
<1>1. TypeOK /\ Books /\ Sells /\ [Next]_vars => [Lifecycle!Next]_Lifecycle!vars
  BY NextImplements
<1> QED
  BY <1>1, InitImplements, TypeCorrect, BooksKept, SellsKept, PTL
     DEF Spec, ImplementsLifecycle, Lifecycle!Spec
==============================================================================
