-------------------------- MODULE TraderProperties --------------------------
(***************************************************************************)
(* What the trader and the executor owe their user.                        *)
(***************************************************************************)
EXTENDS Trader

ValuesOf(s) == {s[i] : i \in DOMAIN s}

\* Where an order can be while the executor still has work to do for it.
Executing == {j.order : j \in jobs}
Queued == {queue[s] : s \in Slot} \ {NoOrder}
InTransit(o) == o \in ValuesOf(chan) \cup Queued
Reported(o) == executed[o] > 0 \/ o \in ValuesOf(failed)
Live(o) ==
  \/ InTransit(o)
  \/ \E j \in jobs : j.order = o /\ j.pc \in {"run", "report"}
  \/ Reported(o)

\* Calls of order() between the push into the cache and the send to the loop.
Sending ==
  {OrderOf(t, "SimpleBuy") : t \in {u \in Trade : opening[u] = "send"}}
    \cup {OrderOf(h.order.trade, "HoldTime") : h \in {g \in hooks : g.pc = "send"}}
    \cup {s.order : s \in {r \in selling : r.pc = "send"}}

\* Trades that left active_trades and whose call of save_trade_in_history is to come.
SavingHooks == {h \in hooks : h.pc \in {"evict", "cancel", "save"}}
BeingSaved == {h.order.trade : h \in SavingHooks} \cup {f.order.trade : f \in failing}

Archived == {e.trade : e \in ValuesOf(history)}

----------------------------------------------------------------------------

\* A trade is saved in the history at most once, however many of its sells succeed or
\* fail, and only after it left active_trades for good (trade.rs:539-622, mod.rs:197-226).
ArchivedOnce ==
  /\ \A i, j \in DOMAIN history : history[i].trade = history[j].trade => i = j
  /\ \A t \in BeingSaved \cup Archived : t \notin active /\ opening[t] = "opened"
  /\ BeingSaved \cap Archived = {}

\* What the record of a settled trade says: sold once, or failed and not sold at all.
SettledRecord(r) ==
  LET done == {k \in SellKind : r.slot[k] = "Completed"}
  IN  /\ \A k \in Kind : r.slot[k] # "Open"
      /\ \/ r.status = "Completed" /\ r.slot["SimpleBuy"] = "Completed" /\ Cardinality(done) = 1
         \/ r.status = "Error" /\ done = {}

\* A saved trade is settled: no order of it is left open, a completed trade has a
\* confirmed buy and exactly one completed sell, a failed one has no completed sell
\* (sell, archive and fail in trade.rs).
SettledRecords == \A e \in ValuesOf(history) : SettledRecord(e.record)

\* The executor is never given a sell order before the buy of its trade has landed on the
\* chain and been confirmed in the trade, through any channel, queue or job.
SellNeedsBuy ==
  \A o \in Order :
    (o.kind \in SellKind /\ (o \in pending \cup Sending \cup Executing \/ Live(o)))
      => bought[o.trade] > 0 /\ trade[o.trade].slot["SimpleBuy"] = "Completed"

\* One position per trade: its buy lands at most once, and at most one of the sell orders
\* racing for it lands; a trade saved as completed did sell.
OnePosition ==
  /\ \A t \in Trade : sold[t] <= bought[t] /\ bought[t] <= 1
  /\ \A e \in ValuesOf(history) : e.record.status = "Completed" => sold[e.trade] = 1

\* The safety net of a bought trade: its hold order, once registered, is on its way, being
\* executed or reported, for as long as the trade is active (trade.rs:500-511).
HoldOrderInFlight ==
  \A t \in active :
    LET hold == OrderOf(t, "HoldTime")
    IN  trade[t].slot["HoldTime"] = "Open" =>
          \/ Live(hold) \/ hold \in Sending
          \/ \E h \in hooks : h.order = OrderOf(t, "SimpleBuy") /\ h.pc = "order"
          \/ \E h \in hooks : h.order = hold /\ h.pc = "sell"

\* A buy that went through is never lost: once its job and its hook are through, an
\* opened trade knows that it is bought (mod.rs:270-275: "For buy orders, it confirms the
\* buy for the trade and schedules the sell orders").
BoughtIsConfirmed ==
  \A t \in active :
    LET buy == OrderOf(t, "SimpleBuy")
        handled == ~Live(buy) /\ ~\E h \in hooks : h.order = buy
    IN  bought[t] > 0 /\ handled => trade[t].slot["SimpleBuy"] = "Completed"

\* An active trade with a hold order is settled in the end, and saved in the history: that
\* order goes through or fails, unless another settles the trade first (mod.rs:160-228), or the
\* loop of the executor has ended.
Settles ==
  \A t \in Trade : "HoldTime" \in Exits[t] => (t \in active ~> t \in Archived \/ ~alive)

\* The trade as its user sees it: every step of the tasks is one of TradeLifecycle or none.
StageName == [Created |-> "entered", Active |-> "holding", Completed |-> "sold", Error |-> "failed"]
StageOf(t) == IF opening[t] = "opened" THEN StageName[trade[t].status] ELSE "unknown"
OutcomeOf(e) == [trade |-> e.trade, outcome |-> StageName[e.record.status]]

Stages == [t \in Trade |-> StageOf(t)]
Ledger == [i \in DOMAIN history |-> OutcomeOf(history[i])]
Lifecycle == INSTANCE TradeLifecycle WITH stage <- Stages, ledger <- Ledger

\* The tasks of the trader and the executor, whatever their interleaving, implement the
\* life of a trade: no sell of a trade not bought, no way back, one saved outcome.
ImplementsLifecycle == Lifecycle!Spec

\* "Marks the trade as failed and cancels all orders" (trade.rs:223): once a failed trade is
\* saved, its hold order does not wait for its time in the delay queue, unless its
\* cancellation is on its way to the loop.
FailCancelsHold ==
  \A e \in ValuesOf(history) :
    e.record.status = "Error" /\ OrderOf(e.trade, "HoldTime") \in Queued
      => e.trade \in ValuesOf(cancels)

(***************************************************************************)
(* The inductive invariants behind the theorems of TraderProofs            *)
(***************************************************************************)

\* A trade is active only between its opening and its settlement, and settled when a task
\* holds it to save it.
OpenBooks ==
  /\ \A t \in active : opening[t] = "opened" /\ trade[t].status \in {"Created", "Active"}
  /\ \A t \in Trade : opening[t] # "opened" => trade[t].status = "Created"
  /\ \A t \in BeingSaved \cup Archived :
       /\ t \notin active
       /\ opening[t] = "opened"
       /\ trade[t].status \in {"Completed", "Error"}

\* No two tasks hold the same trade to save it, and none holds a saved one.
SaveBooks ==
  /\ \A g, h \in SavingHooks : g.order.trade = h.order.trade => g = h
  /\ \A f, g \in failing : f = g
  /\ \A f \in failing : \A h \in SavingHooks : f.order.trade # h.order.trade
  /\ BeingSaved \cap Archived = {}
  /\ \A i, j \in DOMAIN history : history[i].trade = history[j].trade => i = j

Books == OpenBooks /\ SaveBooks

\* The buy of t landed, and its trade knows.
Confirmed(t) ==
  /\ bought[t] > 0
  /\ trade[t].slot["SimpleBuy"] = "Completed"
  /\ trade[t].status # "Created"

\* Everywhere an order can be: in the executor, with a hook, or with the seller.
Present(o) ==
  \/ o \in pending \cup ValuesOf(chan) \cup Queued \cup Executing \cup ValuesOf(failed)
  \/ executed[o] > 0
  \/ \E h \in hooks : h.order = o
  \/ \E s \in selling : s.order = o

\* No sell order is anywhere unless the buy of its trade is confirmed.
SellsConfirmed ==
  \A o \in Order : o.kind \in SellKind /\ Present(o) => Confirmed(o.trade)

\* A buy reported as executed did land.
BuysLanded ==
  /\ \A j \in jobs : (j.order.kind = "SimpleBuy" /\ j.ok) => bought[j.order.trade] > 0
  /\ \A t \in Trade : executed[OrderOf(t, "SimpleBuy")] > 0 => bought[t] > 0
  /\ \A h \in hooks : h.order.kind = "SimpleBuy" => bought[h.order.trade] > 0

\* Where a hook stands says what its order is, and what its trade knows; its trade is open.
HookStages ==
  \A h \in hooks :
    /\ opening[h.order.trade] = "opened"
    /\ h.order.kind = "SimpleBuy" <=> h.pc \in {"buy", "register", "order", "send", "watch"}
    /\ h.pc = "register" /\ h.order.trade \in active => Confirmed(h.order.trade)
    /\ h.pc \in {"order", "send"} => Confirmed(h.order.trade)

\* The record of a trade moves on together with its buy.
Statuses ==
  \A t \in Trade :
    /\ trade[t].slot["SimpleBuy"] = "Completed" => bought[t] > 0 /\ trade[t].status # "Created"
    /\ trade[t].status = "Active" => trade[t].slot["SimpleBuy"] = "Completed"

Sells == SellsConfirmed /\ BuysLanded /\ HookStages /\ Statuses

\* A record of a trade that is not settled: it has sold nothing.
OpenRecord(r) ==
  r.status \in {"Created", "Active"} /\ \A k \in SellKind : r.slot[k] # "Completed"

\* A record goes from open to settled in one step, and is saved when it is settled.
RecordBooks ==
  /\ \A t \in Trade : OpenRecord(trade[t]) \/ SettledRecord(trade[t])
  /\ SettledRecords

\* Where the buy of t waits to be executed.
InChan(t) == {i \in DOMAIN chan : chan[i] = OrderOf(t, "SimpleBuy")}
InQueue(t) == {s \in Slot : queue[s] = OrderOf(t, "SimpleBuy")}
ToRun(t) == {j \in jobs : j.order = OrderOf(t, "SimpleBuy") /\ j.pc = "run"}

\* It waits in one place at most, and nowhere before it is sent.
OneBuyOf(t) ==
  /\ \A i, j \in InChan(t) : i = j
  /\ \A r, s \in InQueue(t) : r = s
  /\ \A i, j \in ToRun(t) : i = j
  /\ InChan(t) # {} => InQueue(t) = {} /\ ToRun(t) = {}
  /\ InQueue(t) # {} => ToRun(t) = {}
  /\ opening[t] \in {"detected", "send"} => InChan(t) = {} /\ InQueue(t) = {} /\ ToRun(t) = {}

\* The seller is never busy with a buy.
SellerSells == \A s \in selling : s.order.kind \in SellKind

OneBuy == SellerSells /\ \A t \in Trade : OneBuyOf(t)

\* The buy of t may still land.
BuyAhead(t) ==
  \/ opening[t] \in {"detected", "send"}
  \/ InChan(t) # {} \/ InQueue(t) # {} \/ ToRun(t) # {}

\* Buys landed, and the one that may still land.
BuyCount(t) == bought[t] + (IF BuyAhead(t) THEN 1 ELSE 0)

\* A sell reported as executed did land.
SalesLanded ==
  /\ \A j \in jobs : (j.order.kind \in SellKind /\ j.ok) => sold[j.order.trade] > 0
  /\ \A o \in Order : (o.kind \in SellKind /\ executed[o] > 0) => sold[o.trade] > 0
  /\ \A h \in hooks : h.order.kind \in SellKind => sold[h.order.trade] > 0
  /\ \A t \in Trade : trade[t].status = "Completed" => sold[t] > 0
  /\ \A i \in DOMAIN history : history[i].record.status = "Completed" => sold[history[i].trade] > 0

Positions ==
  /\ OneBuy
  /\ \A t \in Trade : BuyCount(t) <= 1 /\ sold[t] <= bought[t]
  /\ SalesLanded

\* What can lose a hold order: the loop ends, a cancellation finds the key of an entry that
\* has the order of another trade by now, or an order of its kind is pending in the pool.
OwnCancels ==
  cancels # <<>> =>
    LET t == Head(cancels)
    IN  keys[t] # 0 /\ queue[keys[t]] # NoOrder => queue[keys[t]].trade = t

FirstOrders ==
  \A h \in hooks : h.pc = "order" => ~Duplicate(OrderOf(h.order.trade, "HoldTime"))

Undisturbed == alive /\ OwnCancels /\ FirstOrders

\* A free entry of the delay queue is empty, and free once.
FreeEntries ==
  /\ \A i, j \in DOMAIN free : free[i] = free[j] => i = j
  /\ \A i \in DOMAIN free : queue[free[i]] = NoOrder

\* Only the hold order of a settled trade is cancelled.
CancelsSettled == \A t \in ValuesOf(cancels) : t \notin active /\ opening[t] = "opened"

\* The executor has the hold order of t, or a hook has it in hand.
Held(t) ==
  LET hold == OrderOf(t, "HoldTime")
  IN  \/ Live(hold)
      \/ \E h \in hooks : h.order.trade = t /\ h.pc \in {"order", "send"}
      \/ \E h \in hooks : h.order = hold /\ h.pc = "sell"

\* A hold order is registered once its trade is open, and held as long as it is active.
HoldsHeld ==
  /\ \A t \in Trade : opening[t] # "opened" => trade[t].slot["HoldTime"] # "Open"
  /\ \A t \in active : trade[t].slot["HoldTime"] = "Open" => Held(t)

SafetyNet == FreeEntries /\ CancelsSettled /\ HoldsHeld
=============================================================================
