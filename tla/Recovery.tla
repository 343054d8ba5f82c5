------------------------------ MODULE Recovery ------------------------------
(***************************************************************************)
(* The trader and the executor with their files: active trades and history *)
(* (src/src/trader/backup.rs), pending orders (src/src/executor/backup.rs) *)
(* and the start that loads them (Trader::new, Executor::new).  A file is  *)
(* written by emptying it and then filling it; a crash may come between.   *)
(* `let _ = mutex.lock().await` holds no lock, so no step waits for one.   *)
(***************************************************************************)
EXTENDS TraderProperties

CONSTANTS
  MaxCrashes,  \* bound: how often the process dies
  MaxSaves,    \* bound: how often each file of a timer is saved
  Empty,       \* a file truncated and not yet filled: it does not parse
  Garbled      \* a file two writers filled over each other: it does not parse

ASSUME RecoveryAssumption == MaxCrashes \in Nat /\ MaxSaves \in Nat

VARIABLES
  activeFile,   \* active_trades.json
  pendingFile,  \* pending_orders.json
  historyFile,  \* trades_history.json: the calls whose record it holds
  tradesSync,   \* trades_auto_sync: pools yet to be copied, the copy, saves left
  ordersSync,   \* pending_auto_sync, the same
  writers,      \* calls of save_trade_in_history that have not returned
  saved,        \* calls of save_trade_in_history that wrote their record and returned
  started,      \* FALSE when Trader::new panicked after it had started the executor
  crashes,
  reloads       \* per trade: restarts that found its landed buy among the pending orders

fileVars == <<activeFile, pendingFile, historyFile>>
diskVars == <<fileVars, tradesSync, ordersSync, writers, saved>>
recoveryVars == <<vars, diskVars, started, crashes, reloads>>

Unreadable == {Empty, Garbled}
Readable(f) == f \notin Unreadable

TradesFile == [pools : SUBSET Pool, trades : SUBSET [trade : Trade, record : TradeRecord]]
OrdersFile == [pools : SUBSET Pool, orders : SUBSET Order]
Writer == [call : Nat, by : {"hook", "loop"}, pc : {"read", "open", "write"}, got : Seq(Nat)]

RecoveryTypeOK ==
  /\ TypeOK
  /\ activeFile \in TradesFile \cup {Empty}
  /\ pendingFile \in OrdersFile \cup {Empty}
  /\ historyFile \in Seq(1..Len(history)) \cup Unreadable
  /\ tradesSync \in [todo : SUBSET Pool, copy : TradesFile, left : 0..MaxSaves]
  /\ ordersSync \in [todo : SUBSET Pool, copy : OrdersFile, left : 0..MaxSaves]
  /\ writers \subseteq Writer
  /\ saved \subseteq 1..Len(history)
  /\ started \in BOOLEAN
  /\ crashes \in 0..MaxCrashes
  /\ reloads \in [Trade -> Nat]

\* A bug in the copy: trades taken out of the Vec are still copied.
RecordsOfAll(p) ==
  {[trade |-> t, record |-> trade[t]] : t \in {u \in ValuesOf(arrival) : PoolOf[u] = p}}

\* The Vec of pool p with the records of its trades.
Records(p) == {[trade |-> t, record |-> trade[t]] : t \in Vec(p)}

NoTrades == [pools |-> {}, trades |-> {}]
NoOrders == [pools |-> {}, orders |-> {}]
IdleTradesSync(n) == [todo |-> Pool, copy |-> NoTrades, left |-> n]
IdleOrdersSync(n) == [todo |-> Pool, copy |-> NoOrders, left |-> n]

RecoveryInit ==
  /\ Init
  /\ activeFile = [pools |-> activePools,
                   trades |-> {[trade |-> t, record |-> trade[t]] : t \in active}]
  /\ pendingFile = [pools |-> pendingPools, orders |-> pending]
  /\ historyFile = <<>>
  /\ tradesSync = IdleTradesSync(MaxSaves)
  /\ ordersSync = IdleOrdersSync(MaxSaves)
  /\ writers = {} /\ saved = {}
  /\ started = TRUE
  /\ crashes = 0
  /\ reloads = [t \in Trade |-> 0]

(***************************************************************************)
(* The tasks of the trader and the executor; a save in the history starts  *)
(* a call, and the failed-orders loop waits for the one it made.           *)
(***************************************************************************)

Work ==
  /\ Next
  /\ ~started => UNCHANGED <<opening, selling>>
  /\ Len(failed') < Len(failed) => \A w \in writers : w.by # "loop"
  /\ writers' = IF history' = history THEN writers
                ELSE writers \cup {[call |-> Len(history'), pc |-> "read", got |-> <<>>,
                                    by |-> IF hooks' = hooks THEN "loop" ELSE "hook"]}
  /\ UNCHANGED <<fileVars, tradesSync, ordersSync, saved, started, crashes, reloads>>

(***************************************************************************)
(* The auto-save tasks: copy one map entry after the other, empty the      *)
(* file, fill it.  Between the last copy and the emptying nothing awaits.  *)
(***************************************************************************)

CopyTrades(copy, p) ==
  IF p \in activePools
  THEN [pools |-> copy.pools \cup {p}, trades |-> copy.trades \cup Records(p)] ELSE copy

TradesSync ==
  /\ tradesSync.left > 0
  /\ \/ \E p \in tradesSync.todo :
          /\ tradesSync' = [tradesSync EXCEPT !.todo = @ \ {p}, !.copy = CopyTrades(@, p)]
          /\ activeFile' = IF tradesSync.todo = {p} THEN Empty ELSE activeFile
     \/ /\ tradesSync.todo = {}
        /\ activeFile' = tradesSync.copy
        /\ tradesSync' = IdleTradesSync(tradesSync.left - 1)
  /\ UNCHANGED <<vars, pendingFile, historyFile, ordersSync, writers, saved, started,
                 crashes, reloads>>

CopyOrders(copy, p) ==
  IF p \in pendingPools
  THEN [pools |-> copy.pools \cup {p},
        orders |-> copy.orders \cup {o \in pending : PoolOfOrder(o) = p}] ELSE copy

OrdersSync ==
  /\ ordersSync.left > 0
  /\ \/ \E p \in ordersSync.todo :
          /\ ordersSync' = [ordersSync EXCEPT !.todo = @ \ {p}, !.copy = CopyOrders(@, p)]
          /\ pendingFile' = IF ordersSync.todo = {p} THEN Empty ELSE pendingFile
     \/ /\ ordersSync.todo = {}
        /\ pendingFile' = ordersSync.copy
        /\ ordersSync' = IdleOrdersSync(ordersSync.left - 1)
  /\ UNCHANGED <<vars, activeFile, historyFile, tradesSync, writers, saved, started,
                 crashes, reloads>>

(***************************************************************************)
(* save_trade_in_history: read the file, empty it, fill it                 *)
(***************************************************************************)

\* A bug in the reading: the records found are not kept.
ReadNothing(w) == [w EXCEPT !.pc = "open"]

WithContent(w) == [w EXCEPT !.pc = "open", !.got = historyFile]

\* A file that does not parse ends the call, with nothing saved.
ReadHistory(w) ==
  /\ w.pc = "read"
  /\ writers' = (writers \ {w}) \cup (IF Readable(historyFile) THEN {WithContent(w)} ELSE {})
  /\ UNCHANGED <<historyFile, saved>>

OpenHistory(w) ==
  /\ w.pc = "open"
  /\ historyFile' = Empty
  /\ writers' = (writers \ {w}) \cup {[w EXCEPT !.pc = "write"]}
  /\ UNCHANGED saved

\* Over what another writer filled in since, the end of the longer text remains.
WriteHistory(w) ==
  LET own == Append(w.got, w.call)
  IN  /\ w.pc = "write"
      /\ historyFile' \in IF historyFile = Empty THEN {own} ELSE {own, Garbled}
      /\ writers' = writers \ {w}
      /\ saved' = saved \cup {w.call}

SaveStep(w) ==
  /\ ReadHistory(w) \/ OpenHistory(w) \/ WriteHistory(w)
  /\ UNCHANGED <<vars, activeFile, pendingFile, tradesSync, ordersSync, started, crashes, reloads>>

(***************************************************************************)
(* The process dies and is started again                                   *)
(***************************************************************************)

LoadedTrades == IF Readable(activeFile) THEN activeFile ELSE NoTrades
LoadedOrders == IF Readable(pendingFile) THEN pendingFile ELSE NoOrders
Loaded == {e.trade : e \in LoadedTrades.trades}
LoadedRecord(t) == (CHOOSE e \in LoadedTrades.trades : e.trade = t).record

\* A bug in Executor::new: the loaded orders are cached and not put in the queue.
QueueNothing(l) == [s \in Slot |-> NoOrder]

\* Every loaded order is put in the delay queue, in the order of the map.
QueueLoaded(l) == [s \in Slot |-> IF s \in DOMAIN l THEN l[s] ELSE NoOrder]

RestartExecutor ==
  LET n == Cardinality(LoadedOrders.orders)
  IN  /\ n <= Slots
      /\ pending' = LoadedOrders.orders
      /\ pendingPools' = LoadedOrders.pools
      /\ \E l \in [1..n -> LoadedOrders.orders] :
           /\ \A i, j \in 1..n : l[i] = l[j] => i = j
           /\ queue' = QueueLoaded(l)
           /\ keys' = [t \in Trade |-> PlaceIn(l, OrderOf(t, "HoldTime"))]
      /\ free' = [i \in 1..(Slots - n) |-> n + i]
      /\ chan' = <<>> /\ cancels' = <<>> /\ failed' = <<>>
      /\ executed' = [o \in Order |-> 0]
      /\ jobs' = {}
      /\ alive' = TRUE
      /\ UNCHANGED <<bought, sold>>

\* start_market_monitor looks at the first trade of every Vec, and panics if there is none.
\* A trade is pushed once, and a file keeps the order of its Vec: arrival stays true.
RestartTrader ==
  /\ active' = Loaded
  /\ activePools' = LoadedTrades.pools
  /\ trade' = [t \in Trade |-> IF t \in Loaded THEN LoadedRecord(t) ELSE trade[t]]
  /\ opening' = [t \in Trade |-> IF t \in Loaded THEN "opened"
                                 ELSE IF opening[t] = "detected" THEN "detected" ELSE "dropped"]
  /\ hooks' = {} /\ failing' = {} /\ selling' = {}
  /\ watched' = LoadedTrades.pools
  /\ started' = (LoadedTrades.pools = {PoolOf[t] : t \in Loaded})
  /\ UNCHANGED <<arrival, history>>

Crash ==
  /\ crashes < MaxCrashes
  /\ crashes' = crashes + 1
  /\ RestartExecutor
  /\ RestartTrader
  /\ reloads' = [t \in Trade |->
       IF OrderOf(t, "SimpleBuy") \in LoadedOrders.orders /\ bought[t] > 0
       THEN reloads[t] + 1 ELSE reloads[t]]
  /\ tradesSync' = IdleTradesSync(tradesSync.left)
  /\ ordersSync' = IdleOrdersSync(ordersSync.left)
  /\ writers' = {}
  /\ UNCHANGED <<fileVars, saved>>

RecoveryNext ==
  \/ Work
  \/ TradesSync
  \/ OrdersSync
  \/ \E w \in writers : SaveStep(w)
  \/ Crash

RecoverySpec == RecoveryInit /\ [][RecoveryNext]_recoveryVars

\* Nothing is assumed of the timers; a call of save_trade_in_history returns.
RecoveryFairness ==
  /\ OrderFairness
  /\ WF_recoveryVars(\E w \in writers : SaveStep(w))

RecoveryFairSpec == RecoverySpec /\ RecoveryFairness

----------------------------------------------------------------------------

\* A history that can be read holds every record whose save has returned
\* (trader/backup.rs:193-245), through concurrent saves and through a crash.
HistoryKept == Readable(historyFile) => saved \subseteq ValuesOf(historyFile)

\* No restart executes a sell for a trade that was never bought: a sell order in memory or
\* in the file has its buy on the chain, however old the files are (executor.rs:121-130).
SellsAreBought ==
  /\ \A o \in Order : o.kind \in SellKind /\ Present(o) => bought[o.trade] > 0
  /\ \A o \in LoadedOrders.orders : o.kind \in SellKind => bought[o.trade] > 0

\* What the file of active trades says would be true of a restart from it: each trade once
\* and unsettled, and one that knows of its buy has it on the chain.
FileHoldsOpenTrades ==
  \A e \in LoadedTrades.trades :
    /\ \A f \in LoadedTrades.trades : e.trade = f.trade => e = f
    /\ e.record.status \in {"Created", "Active"}
    /\ e.record.slot["SimpleBuy"] = "Completed" => bought[e.trade] > 0
    /\ \A k \in SellKind : e.record.slot[k] # "Completed"

\* A trade is saved as completed once per sell that landed, however often it is restored;
\* saving it as completed twice would count its profit twice in the history.
SalesRecordedOnce ==
  \A t \in Trade :
    Cardinality({i \in DOMAIN history :
      history[i].trade = t /\ history[i].record.status = "Completed"}) <= sold[t]

\* A buy lands again only if a restart found it, landed already, among the pending orders.
BoughtAgainByRestart == \A t \in Trade : bought[t] <= 1 + reloads[t]

\* After the last crash, a trade whose hold order was loaded with it is settled.
LoadedHoldSettles ==
  \A t \in Trade :
    (crashes = MaxCrashes /\ t \in active /\ OrderOf(t, "HoldTime") \in pending)
      ~> t \notin active
=============================================================================
