# Verification of the Supersonic Sniper trader

The repository is a trading bot for Raydium pools on Solana: it detects new
pools, opens a trade in those a strategy accepts, and sells what it bought on a
timer (hold time), at a price (take profit, stop loss) or when nothing moves
(volatility filter). This directory holds TLA+ models of the parts where the
bot can go wrong without anyone noticing: the detector that takes each new pool
once, the choice of a strategy, the tasks that carry a trade from its detection
to the history, the order executor between them, the files that outlive a crash,
and the monitor that brings the prices.

Paths below are relative to `src/src/`.

## 1. Inventory

| component | state it keeps | operations | talks to |
|---|---|---|---|
| Detector (`detector/`) | caches of processed and initialised pools, watchlist of mints | subscription loops with their retries, join of the two messages about a pool, fetch of its data | sends each accepted pool once to the trader (channel) |
| Trader (`trader/mod.rs`, `trade.rs`) | `active_trades`: pool -> Vec of trades | open a trade, hooks of executed orders, loop over failed orders | executor (calls, two result channels), monitor (calls), backup (calls) |
| Seller (`trader/seller.rs`) | none; a snapshot of a pool's trades | `try_to_sell` on every price | reads and writes `active_trades`, calls the executor |
| Strategy (`trader/strategy.rs`) | none | `choose_strategy`, `is_condition_met` | called before a trade is opened |
| Executor (`executor/executor.rs`) | `pending_orders`: pool -> Vec of orders; delay queue; `order_keys`; channels | `order`, `cancel_order`, the loop, one task per expired order | chain clients; sends results to the trader |
| Order execution (`execute_order`, `swap.rs`) | attempt counter | build, send, confirm, read the outcome | RPC, TPU, Jito |
| Backups (`trader/backup.rs`, `executor/backup.rs`) | three JSON files | auto-save every few seconds, load at start, append to the history | read the two maps |
| Market monitor (`market/`) | watchlist with its two channels, subscription, price cache | add and remove a pool, account updates, one task each | broadcasts prices to the seller |
| Chain clients (`jito/`, `bloxroute/`, `solana/`, `raydium/`) | none | encoding, HTTP | - |
| Start, configuration, info (`main.rs`, `config.rs`, `info/`, `wallet.rs`) | none after start | - | - |

What is hard in it:

* **Concurrency.** Every executed order gets a task of its own (a *hook*), so
  do every detected pool and every expired order. All of them work on
  `active_trades` and `pending_orders`, `DashMap`s locked per entry: a task
  locks, changes, unlocks, and looks again later.
* **Ordering.** Successes and failures travel in different channels with
  different consumers; hooks of one channel run in any order; cancellations have
  a channel of their own.
* **Failure.** Any order can fail, also after its swap has landed; an executor
  type may be disabled, which ends the executor loop.
* **Time.** A hold order expires whenever its delay is over, also while another
  sell of the same trade is being executed.
* **Crashes.** Three files are written by different tasks at different times,
  each by emptying it first. A restart believes whatever it finds.
* **Streams.** What is told by two streams arrives in any order; a subscription
  ends and comes back with what happened in between lost; a broadcast receiver
  that lags gets an error, and the loops here end at the first.

What makes each part correct: the trader settles each trade once and saves it
once, with a consistent record; the executor never has a sell order whose buy
is not confirmed, never loses a live hold order and never sells a position
twice; the backups neither lose nor duplicate a trade; the monitor watches a
pool exactly while a trade needs it; the detector passes each pool on once; a
strategy is chosen only if all of its conditions hold.

## 2. Modules

| module | what it is |
|---|---|
| `Trades` | the data: orders (trade and kind), the record of a trade with its status and five order slots, and the methods of `Trade` as functions on that record |
| `Executor` | the executor's state and steps: `order()` and `cancel_order()` as steps of the caller, the branches of the loop's `select!`, a job from `execute_order` to its clean-up |
| `Trader` | the state and the steps of opening tasks, hooks, failed-orders loop and market-data loop, composed with the executor: `Init`, `Next`, `Spec`, `FairSpec` |
| `TradeLifecycle` | the abstract specification: unknown, entered, holding, sold or failed, and one entry in the ledger after that |
| `TraderProperties` | the properties, the refinement mapping, and the inductive invariants |
| `TraderProofs` | proofs: types, and the books of trades that lead to one save per trade |
| `SellProofs` | proofs: no sell order before the buy of its trade is confirmed |
| `PositionProofs` | proofs: saved records are settled, one position per trade, the hold order of an undisturbed trade |
| `LifecycleProofs` | proofs: the tasks implement `TradeLifecycle` |
| `ExecuteOrder` | one execution of an order (`execute_order`) for the orders of one trade: the loop of blockhash, message, broadcast and confirmation with its attempts, the lookup of the metadata, and the chain under it |
| `Swap` | the abstract specification of executions: bought once, sold once, executed only if swapped |
| `ExecuteOrderProofs` | proofs: limits, invariant and the implementation of `Swap` |
| `Recovery` | the trader and the executor with their three files, the two auto-save tasks, `save_trade_in_history` step by step, crash and restart |
| `RecoveryProofs` | proofs: types, sells, open trades, repeated buys, recorded sales and the history over any number of crashes |
| `Decision` | `choose_strategy` and `is_condition_met` as operators, and as reference what the configuration says a strategy asks for |
| `Detector` | the subscription loops of PubSub and Bloxroute, the two caches, the receiver, the tasks that fetch a pool's data, the channel to the trader and the decision at its end |
| `DetectorProofs` | proofs: types, each pool once, only new pools, never without the base source, what a chosen strategy stands on |
| `Monitor` | the watchlist with its channels and tasks, the subscription, the tasks of account updates, the price cache, and of the trader what calls the monitor |
| `MonitorProofs` | proofs: types, no pool is forgotten in the watchlist, the order of prices |
| `MCTrader`, `MCExecuteOrder`, `MCRecovery`, `MCDetector`, `MCMonitor` | constants for TLC |

`Trader` composes `Executor` and `Trades`; `Recovery` composes all of `Trader`
with the files. `Detector` and `Monitor` stand beside them: the detector meets
the trader in one channel, whose receiving end is in `Detector`, and the monitor
meets it in three calls and one channel, which are in `Monitor` with as much of
the trader as decides when they happen. Nothing in `Trader` depends on what
passes there except that a pool comes once (`PassedOnce`) and that a price may
come at any time.

How the state corresponds to the code:

* `pending` / `pendingPools` are the entries of `pending_orders` and the pools
  that have one (an entry can be empty); `active`, `activePools` and `arrival`
  are the same for `active_trades`, `arrival` giving the order of the Vec.
* `trade[t]` is the record of a trade. While `t` is in `active` it is the copy
  in the map; before that the local of the opening task; after it the clone
  that will be saved. Its type says what Rust's cannot: a created trade has no completed
  buy, an active one has (`TradeRecord`).
* `chan`, `cancels` and `failed` are the bounded channels `delay_queue_tx`,
  `queue_cancel_tx` and `failed_orders_tx`. `executed` counts, per order, the
  results between the job that sends them and the hook that looks the trade up:
  a task is spawned for each, so their order is lost anyway.
* `queue`, `free` and `keys` are tokio's `DelayQueue` as the loop uses it: a
  slab whose entry is reused by the next insertion, and the map from order to
  entry. Only hold orders are ever cancelled, so `keys` has theirs alone.
* `jobs` and `hooks` are tasks with a program counter. `bought` and `sold` count
  the swaps that landed on the chain.

In `ExecuteOrder`, `pc[o]` is the place of an execution in the loop,
`attempts[o]` is `send_tx_attempts`, `lookups[o]` the counter of
`get_transaction_metadata`, `cur[o]` numbers the transactions broadcast, `tx`
says what the network made of each, and `account` is the wallet's token account,
which the buy creates (and fails if it is there) and a sell closes. A retry with
the same blockhash is the same transaction again; with a new one it is
another transaction, and the first may still land (`Send`). A status that cannot be
fetched (`ConfirmError`), a blockhash that got too old and an answer that was
lost all count as a failed attempt, whatever became of the transaction.

A step ends where the code releases a lock or awaits; what happens under one
lock is one action. Examples: `HookSell` is the confirmation, the archiving
and the removal of the trade under one `get_mut`; `HookEvict` is the removal of
the pool's entry after that lock was dropped; `Push` and `Send` are the two
halves of `order()`.

Abstractions: amounts, prices and times are left out. A delay may be over at
any time (`Expire`), a price may trigger any registered exit at any time
(`MarketTick`), `execute_order` may land or not and report success or failure
(`Run`), except that success means that the swap landed and that a sell cannot
land without tokens (`CanLand`). An error after the swap landed is possible, as
in the code (metadata or balance not found). `Run` is the whole of
`ExecuteOrder` in one step. Its outcomes are those of `Swap`: a landing or none,
then success only if it landed. `Swap` also lets a transaction land after its
order was reported as failed; `Run` has that landing before the report, which
loses nothing: of all steps only the landing of another sell of the trade
depends on it, and no other sell can have landed between the two. Two orders of
one trade are taken for two transactions: a take profit without a paid executor
and the hold order would be the same one if they met in one blockhash. A
restored trade is one found in the backup as active with its hold order pending,
in a file order chosen by `Layouts`; the detector passes each pool on once per
run (`detector/mod.rs:179-184`, `PassedOnce`), so two trades of one pool arise
only as a restored one and a fresh one, and restored trades are in different pools.

In `Recovery` every step of `Trader` is one of `Work`. `tradesSync` and
`ordersSync` are the auto-save tasks: one map entry is copied per step, then the
file is emptied and filled. `writers` are the calls of `save_trade_in_history`:
read, empty, fill, with no lock between them, since `let _ =` drops the guard
(`trader/backup.rs:197`). The file of active trades is a set of trades with
their records: its order within a pool only matters as `arrival`, which a restart
leaves as it was. `Crash` keeps the files and the chain and rebuilds the
rest as `Executor::new` and `Trader::new` do: every loaded order goes into the
delay queue, with a key if it is a hold order. A file caught empty does not
parse and counts as none. A shutdown (`main.rs:59`) is a `Crash` too, because
`main` waits for neither the savers nor the hooks. `started` is FALSE when a pool
was saved with an empty Vec: `start_market_monitor` panics on it
(`trader/mod.rs:239`), and the executor works on without a seller or a detector.
A transaction in flight that lands after the crash is taken as landing before it.
The files of a restart are of different times, so it may find a position without
its trade, or a buy that has landed already; `reloads` counts those.

In `Detector`, `pc[l]` and `attempts[l]` are the place and the counter of each
subscription loop. `logs` holds the logs of `initialize2` not yet read; a pool
created while nobody is subscribed is heard of by nobody. `Update` is an account
update of any pool, old ones too. `ReceivePool` is the whole of the receiver's
turn, which awaits nothing; `FetchData` the results of a pool's task, in the order
in which `update_pool_by_results` takes them; `Decide` is `choose_strategy` on
what arrived, defaults included. Modelled as they are: a pool whose data could
not be fetched is passed on all the same; any of several fitting strategies is
chosen (a `HashMap` is walked); the loop over logs starts over without waiting
or counting after its stream ends; when Bloxroute fails the detector ends,
although `detector/raydium.rs:497-498` has it continue with PubSub.
`power` of a pool says whether `10^decimals` fits (`detector/mod.rs:281-303`); if it
does not, a build that checks for overflow panics in the task of the pool, which is
lost (`FetchPanics`); the release build goes on with whatever number comes out
(`Wrong`), unless the power is zero: then it divides by it and its panic ends the program
(`FetchAborts`; `panic = 'abort'`, `Cargo.toml:77`). Amounts that do not parse count as reserves
that were not fetched. The `unwrap` of an opening time out of range
(`detector/raydium.rs:453`, 661) is left out.

In `Monitor` a broadcast channel is the log of what was sent and how much of it
the one receiver has read. `state[p]` counts the changes of a pool's reserves on the
chain, so that a price is told from an older one; `begun` of a price is how
many had been sent when its task looked at the cache. `leaving` are the trades taken
out whose hook has still to remove the pool. `executing` is the loop of the executor as
the hooks meet it: once it has returned, because the program is cancelled or
an order asks for an executor that is switched off (`executor/executor.rs:161-166`), the hook of
a trade with a hold time fails to hand over that order and returns before it has added
the pool (`SkipAdd`, `trader/trade.rs:507-509`). Modelled as they are: the reserves
are those of the time of the fetch, not of the update; the balances of the vaults are read by
calls of their own (`Fetch`), so that one may be older than the other; prices are skipped for
the time of the TTL (1000 ms, where the comment at `market/monitor.rs:797` says five seconds);
both loops of the watchlist and the seller's loop end for good when they lag.

## 3. Runs

| run | configuration | question | result |
|---|---|---|---|
| `trade_life` | a fresh trade with hold order and take profit, and one that is dropped | type; saved once; settled record; no sell before its buy; one position; hold order never lost | holds |
| `settle` | a restored trade with hold and emergency order, a fresh one whose buy is disabled; fairness | saved once, consistent and one position for both; a trade with a hold order is settled and saved in the end, unless the executor dies; the tasks implement `TradeLifecycle` | holds |
| `execution` | a buy and two sells at once, two attempts each | limits; `ExecuteOrder` implements `Swap`; every execution ends | holds |
| `restart` | one trade with a hold order, its three files, one crash anywhere | the history keeps what was saved; no sell without a buy; the file is a possible past; a sale is recorded once; a buy is repeated only by a restart that loaded it; a loaded hold order settles its trade | holds |
| `intake` | a new and an old pool, both modes, four strategies; fairness | each pool once; only new ones; never without the base source; the strategy suits in all but the age; a renounced mint is tradable; shutdown ends; a fetched pool whose numbers fit is decided on | holds |
| `watch` | a restored and a fresh trade in one pool, one vault; fairness | no pool is forgotten in the watchlist; order of prices; a held pool is watched, unless its removal was called for or the executor is gone; prices come back | holds |
| `no_tip` | a sell with a paid executor and no bribe | every execution ends | violated |
| `fail_keeps_hold` | one restored trade | the hold order of a trade saved as failed does not wait in the delay queue | violated |
| `stale_key` | a restored and a fresh trade in two pools | a hold order is never lost | violated |
| `buy_before_insert` | one fresh trade | a landed buy is confirmed | violated |
| `lost_history` | two restored trades in two pools, no crash | the history keeps what was saved | violated |
| `missed_pool` | one new pool | a pool skipped as old is old | violated |

Every passing property has a mutant: a plausible bug in a function of the model
(the operators whose comment begins "A bug" or "A lookup bug") that the run
detects.

Bounds. Channels have capacity 1 instead of 20, 10, 30 or more: a full channel
is reached at once, and every state with more room only lets a waiting task go
earlier. `Slots` is 2: two orders are in the queue together, and an entry is
reused; it is 1 in `settle`, where the question is what becomes of each order.
`JobId` and `HookId` have one element: a second task of the same order waits for
the end of the first, while tasks of different orders run at once. The theorems
drop this bound. One or two trades are enough for the interleavings inside a
trade and for those between neighbours of a pool or of the slab. In `execution` a
sell has two attempts instead of ten and two lookups instead of five: with two, a
transaction of each sell is resent while the first is still on its way, and the
theorems of `ExecuteOrderProofs` hold for any limits.

In `restart`, `MaxCrashes` and `MaxSaves` are 1: a crash sees of each file only
its last save, and that save may be at any time before; a second crash would
start from files of the same kind. `LoadedHoldSettles` speaks of the time after
the last crash. In `intake` and `watch`, `MaxAttempts` is 2 where the code has 5:
a loop fails once and goes on, fails and gives up, or is subscribed in between;
`NeverBlind` needs a limit above one (with one, a loop whose stream ends would
be over at once), which the modules assume. `watch` has two updates per pool, so
that an older price can come after a newer one, and two trades in one pool, so
that one leaves while the other stays; two trades of a pool are always a restored and a
fresh one (`PassedOnce`). It has one vault: `OverlapOnly` speaks of each vault by itself, and what
the call for the other adds is a wait before the price is sent, which may take any time
as it is; `PricesOverlapOnly` is proved for any set of vaults. Deadlock is not checked: when every trade
is settled or the program is cancelled nothing is left to do.

Fairness (`Fairness` in `Trader`). The tokio scheduler runs every task that can
run: weak fairness for the loop's branches, for the opening task after its
order, for the jobs and hooks of each order, for the failed-orders loop and for
the seller once it has decided. The delay of a queued order ends, hence `Expire`
is fair; `Run` is fair on the assumption that `execute_order` returns, which
depends on the RPC node answering; `execution` shows it where a message can be
built, `no_tip` that it is wrong where it cannot. The fairness of `ExecuteOrder`
is that of its task, of a node that answers in the end, and of blockhashes that
get old; none is assumed of errors, landings or rejections. Nothing is assumed
of the detector, of prices or of a disabled executor.

`Recovery` takes from it `OrderFairness`, the tasks that carry an order from the
channel to its end, and that a call of `save_trade_in_history` returns; nothing
of the timers. In `Detector` every task that can run does, and an attempt to
subscribe comes to an end. Two steps have strong fairness: `select!` picks one
of its ready branches at random, so a loop that finds the token cancelled again and again
takes that branch in the end (`Unsubscribe`, `TraderStops`), and tokio's mpsc
channel serves waiting senders in their order (`SendPool`). In `Monitor` the
tasks of the watchlist and the subscription are fair; nothing is assumed of trades
and of the chain.

### What the violations show

* `no_tip`: a strategy that uses Jito and sets no bribe has swaps that cannot be
  built (`executor/swap.rs:174`); the loop starts over without counting
  (`executor/executor.rs:411`), for ever, and the order is never reported.
* `fail_keeps_hold`: a take profit that fails while the hold order is in the delay queue
  makes the trade failed and saved (`trader/mod.rs:204-226`). The record in the history has
  the hold order as cancelled; nothing takes it out of the queue, and when its time
  comes it sells without a record, if the position is still there. `trade.rs:223` says that all orders are cancelled.
* `stale_key`: `order_keys` keeps the keys of expired orders
  (`executor/executor.rs:148-155`); a cancellation that comes late takes out
  whatever order uses the slab entry now. `trade_life` shows that a trade on
  its own does not lose its hold order.
* `buy_before_insert`: the order is sent at `trader/mod.rs:391`, the trade is
  inserted at 403-409; a buy executed in between is dropped by its hook
  (309-312).
* `lost_history`: two trades that settle together are saved by two hooks. Both
  read the file, both append, and the second write drops the record of the first:
  `let _ = mutex.lock().await` (`trader/backup.rs:197`) drops its guard at once.
  The same interleaving can leave a text that no longer parses, and then every
  later save fails (`trader/backup.rs:214`). `restart` shows that with one
  writer at a time nothing is lost, a crash included.
* `missed_pool`: the account stream tells of a new pool at once, the loop over logs
  only after it fetched the transaction (`detector/raydium.rs:243-258`). The receiver marks
  the pool as processed before it looks whether it is initialised
  (`detector/mod.rs:183`, 214), so a pool whose messages come in that order
  is skipped for good.

Where the code and its configuration disagree without a run of their own.
`max_delay_since_detect` is said of every pool (`config.rs:83-85`, `src/config/default.yml:70-71`:
"the bot will not trade"), and `choose_strategy` compares it only for a pool
with an opening time (`trader/strategy.rs:62`); a pool without one is traded at any age.
`Rejects` has the guard, `Suits` says nothing of the age, and so neither does `ChosenSuits`.
`default.yml:58-59` has a condition ignored whose value is 0 or left out; the code
compares with 0 all the same, takes 0 for reserves and supplies left out, and
rejects every pool if no price is given (`strategy.rs:131-162`): it
rejects more pools than asked, which `ChosenSuits` allows.

Other behaviour a reader may not expect, which the models have and no property
forbids: between the release of a pool's lock and the removal of its
entry (`trader/trade.rs:595`, 602) a trade pushed in between is lost with it; the
failed-orders loop removes the pool from the watchlist while another trade of it
is active (`trader/mod.rs:224`), and the two channels of the watchlist may be read in
either order (`market/monitor.rs:209`), so `HeldIsWatched` and `WatchedIsExplained` except a
pool whose removal was called for: they catch a removal never called for, an addition
that is lost, not these two; a hold order that sells before its hook has added the pool
leaves the pool watched (`trade.rs:407`, 515), which is why
`WatchedIsExplained` accepts a removal read before the addition; after an early
return of `run_app`, `main` waits for Ctrl-C.

## 4. Theorems

Proved by TLAPS for every set of trades, pools and strategies, all capacities
and limits, any number of restored trades, of jobs, hooks and tasks:

| theorem | module | says |
|---|---|---|
| `TypeCorrect` | `TraderProofs` | `Spec => []TypeOK` |
| `BooksKept` | `TraderProofs` | `Spec => []Books` |
| `SavedOnce` | `TraderProofs` | `Spec => []ArchivedOnce` |
| `SellsKept` | `SellProofs` | `Spec => []Sells` |
| `BuyBeforeSell` | `SellProofs` | `Spec => []SellNeedsBuy` |
| `RecordsInv`, `SavedSettled` | `PositionProofs` | `Spec => []RecordBooks`, `Spec => []SettledRecords` |
| `PositionsInv`, `OnePositionKept` | `PositionProofs` | `Spec => []Positions`, `Spec => []OnePosition` |
| `UndisturbedHolds` | `PositionProofs` | `Spec /\ []Undisturbed => []HoldOrderInFlight` |
| `TraderImplementsLifecycle` | `LifecycleProofs` | `Spec => ImplementsLifecycle` |
| `InvKept`, `ExecutionTypes` | `ExecuteOrderProofs` | `Spec => []Inv`, `Spec => []TypeOK` of `ExecuteOrder` |
| `ExecuteImplementsSwap` | `ExecuteOrderProofs` | `Spec => ImplementsSwap` |
| `TypeCorrect` | `DetectorProofs` | `Spec => []TypeOK` of `Detector` |
| `AtMostOncePassed` | `DetectorProofs` | `Spec => []PassedOnce` |
| `OldPoolsStayOut` | `DetectorProofs` | `Spec => []OnlyInitialized` |
| `BaseSourceKept` | `DetectorProofs` | `Spec => []NeverBlind` |
| `DecisionsKept` | `DetectorProofs` | `Spec => []Decisions` |
| `ChoiceSuits` | `DetectorProofs` | `Spec => []ChosenSuits` |
| `RenouncedHasKeys` | `DetectorProofs` | `Spec => []RenouncedIsTradable` |
| `RecoveryTypes` | `RecoveryProofs` | `RecoverySpec => []RecoveryTypeOK` |
| `BoughtSellsKept`, `RestartSellsBought` | `RecoveryProofs` | `RecoverySpec => []BoughtSells`, `RecoverySpec => []SellsAreBought` |
| `OpenTradesKept`, `FileStaysOpen` | `RecoveryProofs` | `RecoverySpec => []OpenTrades`, `RecoverySpec => []FileHoldsOpenTrades` |
| `BuysCounted`, `BoughtAgainOnlyByRestart` | `RecoveryProofs` | `RecoverySpec => []BuysLeft`, `RecoverySpec => []BoughtAgainByRestart` |
| `SalesCountedKept`, `SalesRecorded` | `RecoveryProofs` | `RecoverySpec => []SalesCounted`, `RecoverySpec => []SalesRecordedOnce` |
| `AloneKeepsHistory` | `RecoveryProofs` | `RecoverySpec /\ []Alone => []HistoryKept` |
| `WatchTypeCorrect` | `MonitorProofs` | `Spec => []WatchTypeOK` |
| `NothingForgotten` | `MonitorProofs` | `Spec => []WatchedIsExplained` |
| `PricesOverlapOnly` | `MonitorProofs` | `Spec => []OverlapOnly` |

**Saved once.** `ArchivedOnce` is not inductive: it says nothing of the steps
between the removal of a trade from the map and its save. `Books` adds them.
`OpenBooks`: a trade in the map is opened and neither completed nor failed; one
that is held for saving, or saved, is out of the map, opened, and settled.
`SaveBooks`: no two tasks hold the same trade, and none holds a saved one. The
argument: a task comes to hold a trade only by taking it out of the map under
the lock, in `HookSell` or `FailTake`; nobody puts a trade in that was opened
before; a save ends the task. Each group of actions has a lemma
(`OpenKeepsBooks`, `BuyHookKeepsBooks`, `SellHookKeepsBooks`,
`FailKeepsBooks`), all other steps leave the variables of `Books` alone
(`BooksFrame`).

**No sell before its buy.** `SellNeedsBuy` speaks of the orders in the executor;
it holds because of what the hooks and the seller know when they call it, some
steps earlier and without a lock since. `Sells` writes that down.
`SellsConfirmed` covers every place an order can be in, the caller's included
(`Present`); `BuysLanded` follows a landed buy through the job's result, the
count of results and the hook; `HookStages` says which order a hook carries at
each of its steps and what its trade knows by then, across the waits;
`Statuses` ties the status of a record to its buy slot. The argument has three
parts. A confirmed trade stays confirmed, whatever a sell, a failure or an
archiving does to its record (`ConfirmedStays`). An order in a place was there
before, or was put there by one of the few steps that add one (`LoopMoves`,
`JobMoves`, `HookSends`, `SellerSends`, `OthersAdd`), and those steps read a
confirmed record. A step of a hook finds what the step before it left
(`StagesKept`).

**Settled records.** `SettledRecords` speaks of the history, where records come from
`trade`, so the invariant needed is about the records on their way there.
`RecordBooks` says that there is nothing between open and settled: a record has
sold nothing and is created or active, or it has everything a saved one must have.
`RecordMoves` names the few ways a record changes (with the buy, the registration, an
exit initiated, the sale, the failure); each takes an open record to an open or to a settled
one, and none touches a settled one, because only an active trade is changed and
`Books` has active trades unsettled. A sale is settled because its order had a
confirmed buy (`Sells`).

**One position.** `OnePosition` counts landings, so `Positions` counts what may
still land. A buy waits in one place at most (`OneBuyOf`: before it is sent, in the channel, in
the queue, or with a job that has not run), and `BuyCount`, the buys landed and the one
that may, never grows; it starts at one. That a sell lands no more often than
the buy is the chain's doing (`CanLand`); that a trade is completed only after one landed
is the code's (`SalesLanded`: job, result, hook, record, history).

**The hold order.** `HoldOrderInFlight` is violated for two trades (`stale_key`), so
the theorem says what it takes: `Undisturbed`, three conditions on the
executor that a reader can check in a scenario. The loop runs; the
cancellation at the head of its channel finds the order of its own trade, or none, under its
key; and a hook about to call `order()` does not find a hold order pending in the
pool. `stale_key` violates the second. Without the third, `order()` takes the hold
order for one of another trade in the same pool (`executor/executor.rs:257`). Without the
first, nothing is executed. The strengthening `SafetyNet` says that the slab is
sound (`FreeEntries`: a free entry is empty and free once, so `Receive` overwrites
nothing), that cancellations are of settled trades only, and where a registered hold
order is. The condition excludes no ordinary execution: two trades in two pools
have 51,588 states under it in a run of their own.

**The life of a trade.** `TradeLifecycle` is reached through the mapping in
`TraderProperties`: a trade's stage is read off its status, and the ledger off the
history. `LifecycleProofs` shows that `Init` maps to its initial states and each
step of `Next` to one of its actions or to a stutter (`NextImplements`), from
`TypeOK`, `Books` and `Sells`. Both invariants are needed: a sell hook moves a trade
from holding to sold, never from entered, because its order needed a confirmed
buy (`SellsConfirmed`); a failure finds a trade that is not settled, and a save
one that is settled and not yet in the ledger (`Books`).

**One swap each way.** The promise of `Swap` rests on two different things. A
sell needs the token account and closes it, so the chain lets only one land. A
buy would be allowed again once the position is sold; that it lands once is due
to the code, which gives it a single attempt. `Inv` of `ExecuteOrder` says so in
three parts: `Counted` (before an attempt no more was broadcast than attempts
were counted, so the buy has at most one transaction), `Broadcasts` (nothing is
with the network that was not broadcast, and who returned success saw its own
transaction land), `Position` (the account is there from the buy to the only
sell that landed).

**Each pool once, and only new ones.** `PassedOnce` counts places; `OnePass` says
what makes the count right: a pool in any of them (being fetched, waiting to be
sent, sent) is in `processed`, and it is in one of them once. The
receiver is the only step that adds a pool, and it adds one that was not in
`processed`, where it puts it in the same step. `NewOnly` adds where a message
comes from: with PubSub all have that source, so the check against
`initialized` applies to each, and that cache only grows.

**Never blind.** `NeverBlind` alone does not exclude that a loop ends because its
stream did: `StreamEnds` gives up without cancelling anything. `LoopsTried` says
that a subscribed loop has its counter at zero, so with a limit above one it never
gives up there.

**What a chosen strategy stands on.** A decision is made from what arrived for the pool,
some steps earlier. `Decisions` carries that
through the tasks and the channel: the mint of a pool is taken over only after its
reserves and the keys of its market (`Taken`), and what the trader chose, it chose for
what it received (`Decided`). `ChoiceSuits` then compares `is_condition_met` with what the
configuration asks for, condition by condition, in all but the age of the pool; it takes
any operator and any values left out. `RenouncedHasKeys` follows a default:
a mint that was not fetched counts as not renounced.

**Restarts.** The invariants of `Spec` do not survive a crash as they are: a trade
saved before it may be active again. `RecoveryProofs` has invariants of its own, each about
memory, copies under way and files together, so that `Crash` is one more step
that keeps them. `BoughtSells`: whatever sell or confirmed buy is held anywhere has
its buy on the chain, which keeps its landings. `OpenTrades`: a trade is in a
copy or a file once, and as it was while it was open; it uses that a trade enters
the copy when its pool is taken from `todo`. `BuysLeft`: `BuyCount` grows only
when a restart finds the buy in the file of orders, and that restart is counted
in `reloads`. `SalesCounted` is the same argument for sales: the completed records
of a trade, and one more if a landed sell is on its way to be recorded, are no
more than its landed sells; a crash can only lose the one on its way. All steps of `Trader`
enter as lemmas of `SellProofs` and `PositionProofs` (`RecordMoves`, `LoopMoves`,
`OtherCalls`), which assume types and not the invariants of `Spec`.

**The history.** `HistoryKept` is violated by two writers (`lost_history`), so it
is proved while no two calls are under way at once (`Alone`), over any number of crashes:
what a call has read holds what was saved before (`HistoryBooks`), and a file caught
empty by a crash is one that cannot be read, of which the property says nothing.

**The watchlist.** A pool is watched because somebody sent it, some time ago.
`Accounted` therefore speaks not only of `watchlist` but of every addition in the
channel and every hook about to send one. It rests on two facts: a pool becomes
one of these only while it has a trade (`NewlyWatched`), and a pool that is
explained stays so (`ExplainedStays`): the step that takes its last trade leaves
a hook behind that will call for the removal, and a call is never taken back.

**The order of prices.** The invariant follows a task: a balance it has
is at least as new as that of every price sent before it looked at the
cache (`Newer`, `FetchedAfter`), because no price is newer than the chain
(`PricesArePast`) and the chain only moves on. When it sends, the only prices it
can be older than were sent while it was under way.

The assumptions used are those of `Trades`, `Executor`, `Trader`, `ExecuteOrder`,
`Recovery`, `Detector` and `Monitor` (`TradesAssumption`, `ExecutorAssumption`,
`TraderAssumption`, `ExecuteOrderAssumption`, `RecoveryAssumption`, `DetectorAssumption`,
`StrategyAssumption`, `MonitorAssumption`), which TLC evaluates in every run of the
module. `StrategyAssumption` gives the types of strategies and facts and asks
nothing else of them; that `Wrong` is not empty says that an overflow gives some number.

Only model-checked. Liveness is out of the prover's reach: `Settles`,
`EveryExecutionEnds`, `LoadedHoldSettles`, `ShutsDown`, `FetchedIsDecided`,
`HeldIsWatched`, `PricesComeBack`. Every invariant a passing run checks has a
theorem; two of them, `HoldOrderInFlight` and `HistoryKept`, hold in the code only under a
condition, and are proved under it. Whether the first and the third part of
`Undisturbed` follow from the constants (no executor disabled, every trade in a pool
of its own) is not proved; the second does not, as `stale_key` shows.

## 5. Plan

The order is that of the harm done by a mistake.

1. `Trades`, `Executor`, `Trader`, `TradeLifecycle` and their proofs: done.
2. `ExecuteOrder`, `Swap` and their proofs: done.
3. `Recovery`: files, crash and restart: done.
4. `Monitor` and its proofs: done.
5. `Detector`, `Decision` and the proofs of the detector: done.
6. Proofs of the settled records, the one position, the hold order, the decisions
   and of `Recovery`: done.
7. To do: the hold order of trades that are each in a pool of their own, without the condition
   on duplicates; an abstract specification of the intake (a pool is unknown, taken,
   decided or dropped) that `Detector` implements.

## 6. Not modelled

* Encoding and decoding of accounts, instructions and transactions; HTTP and
  websocket clients (`jito/`, `bloxroute/`, `solana/`, `raydium/instructions.rs`):
  formats without state. Where a call may fail, the model lets it.
* Configuration, wallet, info commands, logging: read once, or output only.
  `load_trades_history` is used by the info commands alone.
* The monitor's stream of reserves through Bloxroute (`market/monitor.rs:445-766`): its
  call is commented out (186-194). Building a transaction through Bloxroute is a
  mock in the code.
* The end of the executor by the cancel token: the models of trades let the
  process die (`Crash`) instead of winding down.
* The detector as a program of its own: its channel of pools has no reader then.
* Numbers: prices, reserves and supplies are small naturals, so rounding is not
  seen. The overflow of `10^decimals` is (section 2).
* `max_open_trades` is read by nothing (`config.rs:71`).
