------------------------------- MODULE Trader -------------------------------
(***************************************************************************)
(* The trader (src/src/trader/mod.rs, trade.rs, seller.rs) composed with   *)
(* the executor.  Its tasks are: one opening task per detected pool, one   *)
(* hook per executed order (process_order), the loop over failed orders,   *)
(* and the loop over market data (try_to_sell).  A step ends where the     *)
(* code releases a map lock or awaits.                                     *)
(***************************************************************************)
EXTENDS Executor

CONSTANTS
  HookId   \* bound: how many hooks of one order run at once

ASSUME TraderAssumption == HookId \subseteq Nat

VARIABLES
  opening,     \* per trade: how far the task that opens it has come
  trade,       \* the record of each trade; while active, the one in active_trades
  active,      \* the trades in active_trades
  activePools, \* the pools that have an entry in that map, be its Vec empty
  arrival,     \* the trades in the order they were pushed into active_trades
  hooks,       \* the process_order tasks
  failing,     \* the failed order the failed-orders loop is busy with, if any
  selling,     \* the sell order try_to_sell is busy with, if any
  watched,     \* the pools the market monitor was ever asked to watch
  history      \* calls of save_trade_in_history: the trade and its record

traderVars == <<opening, trade, active, activePools, arrival, hooks, failing,
                selling, watched, history>>
vars == <<executorVars, traderVars>>

Hook == [id : HookId, order : Order,
         pc : {"buy", "register", "order", "send", "watch",
               "sell", "evict", "cancel", "save"}]

TraderTypeOK ==
  /\ opening \in [Trade -> {"detected", "send", "insert", "opened", "dropped"}]
  /\ trade \in [Trade -> TradeRecord]
  /\ active \subseteq Trade
  /\ activePools \subseteq Pool
  /\ arrival \in Seq(Trade)
  /\ hooks \subseteq Hook
  /\ failing \subseteq [order : Order, pc : {"evict", "save"}]
  /\ selling \subseteq [order : Order, pc : {"register", "order", "send"}]
  /\ watched \subseteq Pool
  /\ history \in Seq([trade : Trade, record : TradeRecord])

TypeOK == ExecutorTypeOK /\ TraderTypeOK

\* A trade as the backup holds it: bought, its sell orders registered.
Bought(t) == InitiateSell(ConfirmBuy(InitiateBuy(NewTrade)), Exits[t] \ {"Emergency"})

TraderInit(l) ==
  /\ opening = [t \in Trade |-> IF t \in Restored THEN "opened" ELSE "detected"]
  /\ trade = [t \in Trade |-> IF t \in Restored THEN Bought(t) ELSE NewTrade]
  /\ active = Restored
  /\ activePools = {PoolOf[t] : t \in Restored}
  /\ arrival = l
  /\ hooks = {}
  /\ failing = {}
  /\ selling = {}
  /\ watched = {PoolOf[t] : t \in Restored}
  /\ history = <<>>

Init == \E l \in Layouts : ExecutorInit(l) /\ TraderInit(l)

\* A lookup bug: only a trade that is not bought yet is found.
FoundUnbought(t) == t \in active /\ trade[t].status = "Created"

\* The lookup of a trade by its id in the Vec of its pool.
Found(t) == t \in active

Vec(p) == {t \in active : PoolOf[t] = p}

\* What a step of the trader that calls no executor operation leaves alone.
ExecutorIdle == UNCHANGED executorVars
Pushed(o) ==
  /\ Push(o)
  /\ UNCHANGED <<chan, queue, free, keys, cancels, alive, jobs, executed, failed, bought, sold>>
Sent(o) ==
  /\ Send(o)
  /\ UNCHANGED <<pending, pendingPools, queue, free, keys, cancels, alive, jobs,
                 executed, failed, bought, sold>>

(***************************************************************************)
(* Opening a trade: process_detected_pool and create_buy_order             *)
(***************************************************************************)

HasExit(t) == Exits[t] \cap {"HoldTime", "TakeProfit", "StopLoss"} # {}

OpenDrop(t) ==
  /\ opening[t] = "detected"
  /\ ~HasExit(t)
  /\ opening' = [opening EXCEPT ![t] = "dropped"]
  /\ ExecutorIdle
  /\ UNCHANGED <<trade, active, activePools, arrival, hooks, failing, selling, watched, history>>

\* The buy order goes to the executor before the trade is in active_trades.
OpenOrder(t) ==
  LET buy == OrderOf(t, "SimpleBuy")
  IN  /\ opening[t] = "detected"
      /\ HasExit(t)
      /\ trade' = [trade EXCEPT ![t] = InitiateBuy(NewTrade)]
      /\ \/ /\ Pushed(buy)
            /\ opening' = [opening EXCEPT ![t] = "send"]
         \/ /\ Duplicate(buy)
            /\ opening' = [opening EXCEPT ![t] = "insert"]
            /\ ExecutorIdle
      /\ UNCHANGED <<active, activePools, arrival, hooks, failing, selling, watched, history>>

OpenSend(t) ==
  /\ opening[t] = "send"
  /\ \/ Sent(OrderOf(t, "SimpleBuy")) /\ opening' = [opening EXCEPT ![t] = "insert"]
     \/ ~alive /\ ExecutorIdle /\ opening' = [opening EXCEPT ![t] = "dropped"]
  /\ UNCHANGED <<trade, active, activePools, arrival, hooks, failing, selling, watched, history>>

OpenInsert(t) ==
  /\ opening[t] = "insert"
  /\ opening' = [opening EXCEPT ![t] = "opened"]
  /\ active' = active \cup {t}
  /\ activePools' = activePools \cup {PoolOf[t]}
  /\ arrival' = Append(arrival, t)
  /\ ExecutorIdle
  /\ UNCHANGED <<trade, hooks, failing, selling, watched, history>>

(***************************************************************************)
(* Hooks: process_order, update_trade_after_buy, update_trade_after_sell   *)
(***************************************************************************)

HookGoto(h, pc) == hooks' = (hooks \ {h}) \cup {[h EXCEPT !.pc = pc]}
HookEnd(h) == hooks' = hooks \ {h}

IdleHook(o, id) ==
  /\ \A h \in hooks : h.order = o => h.id # id
  /\ \A i \in HookId : i < id => \E h \in hooks : h.order = o /\ h.id = i

\* Receives an executed order, spawns its hook, and looks the trade up.
HookStart(o) ==
  /\ executed[o] > 0
  /\ executed' = [executed EXCEPT ![o] = @ - 1]
  /\ IF Found(o.trade)
     THEN \E id \in HookId :
            /\ IdleHook(o, id)
            /\ hooks' = hooks \cup {[id |-> id, order |-> o,
                          pc |-> IF o.kind = "SimpleBuy" THEN "buy" ELSE "sell"]}
     ELSE UNCHANGED hooks
  /\ UNCHANGED <<pending, pendingPools, chan, queue, free, keys, cancels, alive, jobs,
                 failed, bought, sold, opening, trade, active, activePools, arrival, failing,
                 selling, watched, history>>

HookBuy(h) ==
  LET t == h.order.trade
  IN  /\ h.pc = "buy"
      /\ trade' = IF Found(t) THEN [trade EXCEPT ![t] = ConfirmBuy(@)] ELSE trade
      /\ HookGoto(h, "register")
      /\ ExecutorIdle
      /\ UNCHANGED <<opening, active, activePools, arrival, failing, selling, watched, history>>

\* Registers the sell orders the strategy asks for; only the hold order is sent.
HookRegister(h) ==
  LET t == h.order.trade
      sells == Exits[t] \ {"Emergency"}
  IN  /\ h.pc = "register"
      /\ IF Found(t)
         THEN /\ trade' = [trade EXCEPT ![t] = InitiateSell(@, sells)]
              /\ HookGoto(h, IF trade'[t].slot["HoldTime"] # "None" THEN "order" ELSE "watch")
         ELSE UNCHANGED trade /\ HookGoto(h, "watch")
      /\ ExecutorIdle
      /\ UNCHANGED <<opening, active, activePools, arrival, failing, selling, watched, history>>

HookOrder(h) ==
  LET hold == OrderOf(h.order.trade, "HoldTime")
  IN  /\ h.pc = "order"
      /\ \/ Pushed(hold) /\ HookGoto(h, "send")
         \/ Duplicate(hold) /\ ExecutorIdle /\ HookGoto(h, "watch")
      /\ UNCHANGED <<opening, trade, active, activePools, arrival, failing, selling,
                     watched, history>>

HookSend(h) ==
  /\ h.pc = "send"
  /\ \/ Sent(OrderOf(h.order.trade, "HoldTime")) /\ HookGoto(h, "watch")
     \/ ~alive /\ ExecutorIdle /\ HookEnd(h)
  /\ UNCHANGED <<opening, trade, active, activePools, arrival, failing, selling,
                 watched, history>>

HookWatch(h) ==
  /\ h.pc = "watch"
  /\ watched' = IF Exits[h.order.trade] \cap {"TakeProfit", "StopLoss"} # {}
                THEN watched \cup {PoolOfOrder(h.order)} ELSE watched
  /\ HookEnd(h)
  /\ ExecutorIdle
  /\ UNCHANGED <<opening, trade, active, activePools, arrival, failing, selling, history>>

\* After a sell that was not the hold order, the hold order is cancelled.
AfterRemoval(h) ==
  IF h.order.kind # "HoldTime" /\ trade[h.order.trade].slot["HoldTime"] # "None"
  THEN "cancel" ELSE "save"

\* A bug in the hook of a sell: it trusts the lookup process_order made before the lock.
SellableOnce(t) == opening[t] = "opened"

\* The trade is still there, and sell() accepts the order.
Sellable(t) == Found(t) /\ trade[t].status # "Completed"

\* Confirms the sell, archives the trade and takes it out, under one lock.
HookSell(h) ==
  LET t == h.order.trade
  IN  /\ h.pc = "sell"
      /\ IF Sellable(t)
         THEN /\ trade' = [trade EXCEPT ![t] = Archive(ConfirmSell(@, h.order.kind))]
              /\ active' = active \ {t}
              /\ HookGoto(h, IF Vec(PoolOf[t]) = {t} THEN "evict" ELSE AfterRemoval(h))
         ELSE HookEnd(h) /\ UNCHANGED <<trade, active>>
      /\ ExecutorIdle
      /\ UNCHANGED <<opening, activePools, arrival, failing, selling, watched, history>>

\* Removes the pool's entry, found empty before its lock was released.
EvictPool(p) ==
  /\ active' = active \ Vec(p)
  /\ activePools' = activePools \ {p}

HookEvict(h) ==
  /\ h.pc = "evict"
  /\ EvictPool(PoolOfOrder(h.order))
  /\ HookGoto(h, AfterRemoval(h))
  /\ ExecutorIdle
  /\ UNCHANGED <<opening, trade, arrival, failing, selling, watched, history>>

HookCancel(h) ==
  /\ h.pc = "cancel"
  /\ \/ SendCancel(h.order.trade)
     \/ ~alive /\ UNCHANGED cancels
  /\ HookGoto(h, "save")
  /\ UNCHANGED <<pending, pendingPools, chan, queue, free, keys, alive, jobs, executed,
                 failed, bought, sold, opening, trade, active, activePools, arrival, failing,
                 selling, watched, history>>

SaveInHistory(t) == history' = Append(history, [trade |-> t, record |-> trade[t]])

HookSave(h) ==
  /\ h.pc = "save"
  /\ SaveInHistory(h.order.trade)
  /\ HookEnd(h)
  /\ ExecutorIdle
  /\ UNCHANGED <<opening, trade, active, activePools, arrival, failing, selling, watched>>

(***************************************************************************)
(* The loop over failed orders                                             *)
(***************************************************************************)

\* Fails the trade and takes it out, under one lock.
FailTake ==
  /\ failing = {} /\ failed # <<>>
  /\ failed' = Tail(failed)
  /\ LET o == Head(failed)
         t == o.trade
     IN  IF Found(t)
         THEN /\ trade' = [trade EXCEPT ![t] = Fail(@)]
              /\ active' = active \ {t}
              /\ failing' = {[order |-> o,
                              pc |-> IF Vec(PoolOf[t]) = {t} THEN "evict" ELSE "save"]}
         ELSE UNCHANGED <<trade, active, failing>>
  /\ UNCHANGED <<pending, pendingPools, chan, queue, free, keys, cancels, alive, jobs,
                 executed, bought, sold, opening, activePools, arrival, hooks, selling,
                 watched, history>>

FailEvict ==
  /\ \E f \in failing :
       /\ f.pc = "evict"
       /\ EvictPool(PoolOfOrder(f.order))
       /\ failing' = {[f EXCEPT !.pc = "save"]}
  /\ ExecutorIdle
  /\ UNCHANGED <<opening, trade, arrival, hooks, selling, watched, history>>

FailSave ==
  /\ \E f \in failing :
       /\ f.pc = "save"
       /\ SaveInHistory(f.order.trade)
  /\ failing' = {}
  /\ ExecutorIdle
  /\ UNCHANGED <<opening, trade, active, activePools, arrival, hooks, selling, watched>>

(***************************************************************************)
(* The loop over market data: try_to_sell                                  *)
(***************************************************************************)

\* The trade can be evaluated: its buy is confirmed.
Ready(t) == trade[t].status # "Completed" /\ trade[t].slot["SimpleBuy"] = "Completed"

\* Sell kinds a price can trigger for t.
Triggers(t) ==
  {k \in {"TakeProfit", "StopLoss"} : trade[t].slot[k] # "None"}
    \cup (Exits[t] \cap {"Emergency"})

\* A price for pool p: the trades are evaluated in the order they were pushed, up to
\* the first one that is not ready or whose sell is triggered.
MarketTick(p) ==
  /\ selling = {}
  /\ p \in watched
  /\ \E i \in DOMAIN arrival :
       /\ arrival[i] \in Vec(p)
       /\ \A j \in 1..i : arrival[j] \in Vec(p) => Ready(arrival[j])
       /\ \E k \in Triggers(arrival[i]) :
            selling' = {[order |-> OrderOf(arrival[i], k),
                         pc |-> IF k = "Emergency" THEN "register" ELSE "order"]}
  /\ ExecutorIdle
  /\ UNCHANGED <<opening, trade, active, activePools, arrival, hooks, failing, watched, history>>

SellRegister ==
  /\ \E s \in selling :
       /\ s.pc = "register"
       /\ trade' = IF Found(s.order.trade)
                   THEN [trade EXCEPT ![s.order.trade] = InitiateSell(@, {"Emergency"})]
                   ELSE trade
       /\ selling' = {[s EXCEPT !.pc = "order"]}
  /\ ExecutorIdle
  /\ UNCHANGED <<opening, active, activePools, arrival, hooks, failing, watched, history>>

SellOrder ==
  /\ \E s \in selling :
       /\ s.pc = "order"
       /\ \/ Pushed(s.order) /\ selling' = {[s EXCEPT !.pc = "send"]}
          \/ Duplicate(s.order) /\ ExecutorIdle /\ selling' = {}
  /\ UNCHANGED <<opening, trade, active, activePools, arrival, hooks, failing, watched, history>>

SellSend ==
  /\ \E s \in selling :
       /\ s.pc = "send"
       /\ Sent(s.order) \/ (~alive /\ ExecutorIdle)
  /\ selling' = {}
  /\ UNCHANGED <<opening, trade, active, activePools, arrival, hooks, failing, watched, history>>

Open(t) == OpenDrop(t) \/ OpenOrder(t) \/ OpenSend(t) \/ OpenInsert(t)

HookStep(h) ==
  \/ HookBuy(h) \/ HookRegister(h) \/ HookOrder(h) \/ HookSend(h) \/ HookWatch(h)
  \/ HookSell(h) \/ HookEvict(h) \/ HookCancel(h) \/ HookSave(h)

FailLoop == FailTake \/ FailEvict \/ FailSave
SellLoop == SellRegister \/ SellOrder \/ SellSend

Next ==
  \/ \E t \in Trade : Open(t)
  \/ \E o \in Order : HookStart(o)
  \/ \E h \in hooks : HookStep(h)
  \/ FailLoop
  \/ SellLoop
  \/ \E p \in Pool : MarketTick(p)
  \/ Receive /\ UNCHANGED traderVars
  \/ TakeCancel /\ UNCHANGED traderVars
  \/ \E s \in Slot :
       \/ Expire(s) /\ UNCHANGED traderVars
       \/ ExpireDisabled(s) /\ UNCHANGED traderVars
  \/ \E j \in jobs :
       \/ Run(j) /\ UNCHANGED traderVars
       \/ Report(j) /\ UNCHANGED traderVars
       \/ Retain(j) /\ UNCHANGED traderVars
       \/ Evict(j) /\ UNCHANGED traderVars

Spec == Init /\ [][Next]_vars

(***************************************************************************)
(* Fairness: tokio schedules every task that can run, a delay comes to an  *)
(* end, and so does execute_order.  Nothing is assumed of the detector and *)
(* of prices.  Job and hook steps are told apart by their order, so that   *)
(* one order cannot starve another.                                        *)
(***************************************************************************)

\* The orders there can be: the buys, and the sells of the strategies.
PossibleOrder == {o \in Order : o.kind \in {"SimpleBuy"} \cup Exits[o.trade]}

JobStep(j) == Run(j) \/ Report(j) \/ Retain(j) \/ Evict(j)

\* Of the tasks that take an order from the channel to its end.
OrderFairness ==
  /\ WF_vars(Receive /\ UNCHANGED traderVars)
  /\ WF_vars(TakeCancel /\ UNCHANGED traderVars)
  /\ \A s \in Slot : WF_vars((Expire(s) \/ ExpireDisabled(s)) /\ UNCHANGED traderVars)
  /\ \A o \in PossibleOrder :
       /\ WF_vars(\E j \in jobs : j.order = o /\ JobStep(j) /\ UNCHANGED traderVars)
       /\ WF_vars(HookStart(o))
       /\ WF_vars(\E h \in hooks : h.order = o /\ HookStep(h))
  /\ WF_vars(FailLoop)

Fairness ==
  /\ OrderFairness
  /\ WF_vars(SellLoop)
  /\ \A t \in Trade : WF_vars(OpenSend(t) \/ OpenInsert(t))

FairSpec == Spec /\ Fairness
=============================================================================
