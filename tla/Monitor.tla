------------------------------ MODULE Monitor ------------------------------
(***************************************************************************)
(* The market monitor (src/src/market/monitor.rs): the watchlist and the   *)
(* two tasks that keep it, the subscription, and one task per account      *)
(* update.  Of the trader, only what calls the monitor: its start, the     *)
(* hooks, the failed-orders loop, and the loop that reads the prices.      *)
(***************************************************************************)
EXTENDS Naturals, Sequences, FiniteSets

CONSTANTS
  Pool, Trade, PoolOf,
  Loads,        \* sets of trades the backup may hold
  Triggered,    \* trades whose strategy has a take profit or a stop loss
  Timed,        \* trades whose strategy has a hold time
  Vault,        \* the vaults of a pool: their balances are its reserves
  WatchCap,     \* capacity of the channels of the watchlist
  MarketCap,    \* capacity of the channel of prices
  MaxAttempts,  \* MAX_SUBSCRIPTION_RETRIES
  MaxUpdates    \* bound: the updates of each pool

ASSUME MonitorAssumption ==
  /\ PoolOf \in [Trade -> Pool] /\ Loads \subseteq SUBSET Trade /\ Triggered \subseteq Trade
  /\ Timed \subseteq Trade
  /\ WatchCap \in Nat \ {0} /\ MarketCap \in Nat \ {0}
  /\ MaxAttempts \in Nat \ {0, 1} /\ MaxUpdates \in [Pool -> Nat]

VARIABLES
  starting,   \* pools start_market_monitor has still to add
  fresh,      \* trades that are not in active_trades yet
  active,     \* the trades in active_trades
  confirmed,  \* trades whose buy is confirmed
  adding,     \* buy hooks that have still to add their pool
  leaving,    \* trades taken out whose hook has still to see to the pool
  executing,  \* the executor takes orders: its loop has not returned
  adds,       \* channel of pools to watch
  removals,   \* channel of pools to forget
  adder,      \* the task that reads adds runs
  remover,    \* the task that reads removals runs
  watchlist,
  pc,         \* the subscription loop
  attempts,
  cancelled,  \* the cancel token
  state,      \* per pool: how many times its reserves have changed
  tasks,      \* the tasks of account updates
  cached,     \* pools whose cached price is not older than the TTL
  prices,     \* channel of prices
  seller      \* the trader's loop over prices runs

traderVars == <<starting, fresh, active, confirmed, adding, leaving, executing>>
watchVars == <<adds, removals, adder, remover, watchlist>>
loopVars == <<pc, attempts, cancelled>>
priceVars == <<state, tasks, cached, prices, seller>>
vars == <<traderVars, watchVars, loopVars, priceVars>>

Vec(p) == {t \in active : PoolOf[t] = p}
PoolsOf(S) == {PoolOf[t] : t \in S}

\* A broadcast channel with one receiver: what was sent, and how much of it was received.
Channel(S) == {c \in [log : Seq(S), read : Nat] : c.read <= Len(c.log)}
NewChannel == [log |-> <<>>, read |-> 0]
Put(c, x) == [c EXCEPT !.log = Append(@, x)]
ReadOn(c) == [c EXCEPT !.read = @ + 1]
Unread(c) == {c.log[i] : i \in c.read + 1 .. Len(c.log)}
Received(c) == {c.log[i] : i \in 1 .. c.read}
Next1(c) == c.log[c.read + 1]
Ready(c) == c.read < Len(c.log)
Lagged(c, cap) == Len(c.log) - c.read > cap

\* A price: the reserves it was computed from, each as old as the call that read it, and how
\* many prices had been sent when its task looked at the cache.
Price == [pool : Pool, of : [Vault -> Nat], begun : Nat]
Task == [pool : Pool, update : Nat, of : [Vault -> Nat], got : SUBSET Vault, begun : Nat,
         pc : {"check", "fetch"}]

WatchTypeOK ==
  /\ starting \subseteq Pool /\ fresh \subseteq Trade /\ active \subseteq Trade
  /\ confirmed \subseteq Trade /\ adding \subseteq Trade
  /\ leaving \subseteq [trade : Trade, last : BOOLEAN, failed : BOOLEAN]
  /\ adds \in Channel(Pool) /\ removals \in Channel(Pool) /\ prices \in Channel(Price)
  /\ executing \in BOOLEAN /\ adder \in BOOLEAN /\ remover \in BOOLEAN /\ seller \in BOOLEAN
  /\ watchlist \subseteq Pool /\ cached \subseteq Pool
  /\ pc \in {"off", "connect", "up", "done", "panic"} /\ attempts \in 0..MaxAttempts
  /\ cancelled \in BOOLEAN
  /\ state \in [Pool -> Nat] /\ (\A p \in Pool : state[p] <= MaxUpdates[p])
  /\ tasks \subseteq Task

Init ==
  /\ active \in Loads
  /\ starting = PoolsOf(active)
  /\ fresh = Trade \ active
  /\ confirmed = active
  /\ adding = {} /\ leaving = {} /\ executing = TRUE
  /\ adds = NewChannel /\ removals = NewChannel /\ prices = NewChannel
  /\ adder = TRUE /\ remover = TRUE /\ seller = TRUE
  /\ watchlist = {} /\ cached = {} /\ tasks = {}
  /\ pc = "off" /\ attempts = 0 /\ cancelled = FALSE
  /\ state = [p \in Pool |-> 0]

(***************************************************************************)
(* The trader's calls                                                      *)
(***************************************************************************)

AddToWatchlist(p) == adds' = Put(adds, p) /\ UNCHANGED <<removals, adder, remover, watchlist>>
RemoveFromWatchlist(p) == removals' = Put(removals, p) /\ UNCHANGED <<adds, adder, remover, watchlist>>

Evicting(p) == \E l \in leaving : l.last /\ PoolOf[l.trade] = p

\* The executor runs already: a pool may have lost its trades.  An entry with an empty Vec
\* makes the loop panic, and nothing after it is started.
AddInitial(p) ==
  /\ p \in starting /\ pc = "off"
  /\ \/ /\ Vec(p) # {}
        /\ AddToWatchlist(p)
        /\ starting' = starting \ {p}
        /\ UNCHANGED loopVars
     \/ /\ Vec(p) = {} /\ ~Evicting(p)
        /\ starting' = starting \ {p}
        /\ UNCHANGED <<watchVars, loopVars>>
     \/ /\ Vec(p) = {} /\ Evicting(p)
        /\ pc' = "panic"
        /\ UNCHANGED <<starting, watchVars, attempts, cancelled>>
  /\ UNCHANGED <<fresh, active, confirmed, adding, leaving, executing, priceVars>>

StartMonitor ==
  /\ pc = "off" /\ starting = {}
  /\ pc' = "connect"
  /\ UNCHANGED <<traderVars, watchVars, attempts, cancelled, priceVars>>

Insert(t) ==
  /\ t \in fresh
  /\ fresh' = fresh \ {t}
  /\ active' = active \cup {t}
  /\ UNCHANGED <<starting, confirmed, adding, leaving, executing, watchVars, loopVars, priceVars>>

\* update_trade_after_buy: the hold order goes out before the pool is added.
ConfirmBuy(t) ==
  /\ t \in active \ confirmed
  /\ confirmed' = confirmed \cup {t}
  /\ adding' = IF t \in Triggered THEN adding \cup {t} ELSE adding
  /\ UNCHANGED <<starting, fresh, active, leaving, executing, watchVars, loopVars, priceVars>>

AddAfterBuy(t) ==
  /\ t \in adding
  /\ AddToWatchlist(PoolOf[t])
  /\ adding' = adding \ {t}
  /\ UNCHANGED <<starting, fresh, active, confirmed, leaving, executing, loopVars, priceVars>>

\* The loop of the executor returns: the program is cancelled, or an order asks for an executor
\* that is switched off (executor.rs:161-166).
ExecutorStops ==
  /\ executing
  /\ executing' = FALSE
  /\ UNCHANGED <<starting, fresh, active, confirmed, adding, leaving, watchVars, loopVars, priceVars>>

\* The hold order cannot be handed over to the executor, and the hook returns before the pool
\* is added.
SkipAdd(t) ==
  /\ t \in adding \cap Timed
  /\ ~executing
  /\ adding' = adding \ {t}
  /\ UNCHANGED <<starting, fresh, active, confirmed, leaving, executing, watchVars, loopVars,
                 priceVars>>

TakeOut(t, failed) ==
  /\ active' = active \ {t}
  /\ leaving' = leaving \cup {[trade |-> t, last |-> Vec(PoolOf[t]) = {t}, failed |-> failed]}
  /\ UNCHANGED <<starting, fresh, confirmed, adding, executing, watchVars, loopVars, priceVars>>

Sell(t) == t \in active \cap confirmed /\ TakeOut(t, FALSE)
FailTrade(t) == t \in active /\ TakeOut(t, TRUE)

\* A bug in the failed-orders loop: it forgets the watchlist.
RemovesAfterSellOnly(l) == l.last /\ ~l.failed

\* A sell removes the pool of the last trade, a failure any pool.
Removes(l) == l.last \/ l.failed

\* The entry of the pool goes with whatever is in it by now.
LeavePool(l) ==
  LET p == PoolOf[l.trade]
  IN  /\ l \in leaving
      /\ leaving' = leaving \ {l}
      /\ active' = IF l.last THEN active \ Vec(p) ELSE active
      /\ IF Removes(l) THEN RemoveFromWatchlist(p) ELSE UNCHANGED watchVars
      /\ UNCHANGED <<starting, fresh, confirmed, adding, executing, loopVars, priceVars>>

(***************************************************************************)
(* The watchlist                                                           *)
(***************************************************************************)

\* A bug in the loop: a pool that is not watched is skipped, instead of one that is.
InsertIfWatched(p) == watchlist

InsertPool(p) == watchlist \cup {p}

\* Both loops end at the first error, and a receiver that lags behind gets one.
AddLoop ==
  /\ adder /\ Ready(adds)
  /\ IF Lagged(adds, WatchCap)
     THEN adder' = FALSE /\ UNCHANGED <<adds, watchlist>>
     ELSE /\ watchlist' = InsertPool(Next1(adds))
          /\ adds' = ReadOn(adds)
          /\ UNCHANGED adder
  /\ UNCHANGED <<removals, remover, traderVars, loopVars, priceVars>>

RemoveLoop ==
  /\ remover /\ Ready(removals)
  /\ IF Lagged(removals, WatchCap)
     THEN remover' = FALSE /\ UNCHANGED <<removals, watchlist>>
     ELSE /\ watchlist' = watchlist \ {Next1(removals)}
          /\ removals' = ReadOn(removals)
          /\ UNCHANGED remover
  /\ UNCHANGED <<adds, adder, traderVars, loopVars, priceVars>>

(***************************************************************************)
(* The subscription                                                        *)
(***************************************************************************)

\* A bug in handle_attempt: one attempt too many.
GivesUpLate == attempts + 1 > MaxAttempts

GivesUp == attempts + 1 >= MaxAttempts

\* A bug in the loop: it returns at the last attempt, as the Bloxroute loop does.
ReturnAtLast ==
  /\ attempts' = attempts + 1
  /\ pc' = IF GivesUp THEN "done" ELSE "connect"
  /\ UNCHANGED cancelled

\* Whatever ends the loop cancels the program.
FailedAttempt ==
  /\ attempts' = attempts + 1
  /\ pc' = IF GivesUp THEN "done" ELSE "connect"
  /\ cancelled' = (cancelled \/ GivesUp)

Subscribe ==
  /\ pc = "connect"
  /\ \/ pc' = "up" /\ attempts' = 0 /\ UNCHANGED cancelled
     \/ FailedAttempt
  /\ UNCHANGED <<traderVars, watchVars, priceVars>>

StreamEnds ==
  /\ pc = "up"
  /\ FailedAttempt
  /\ UNCHANGED <<traderVars, watchVars, priceVars>>

Unsubscribe ==
  /\ pc = "up" /\ cancelled
  /\ pc' = "done"
  /\ UNCHANGED <<attempts, cancelled, traderVars, watchVars, priceVars>>

Cancel ==
  /\ ~cancelled
  /\ cancelled' = TRUE
  /\ UNCHANGED <<pc, attempts, traderVars, watchVars, priceVars>>

(***************************************************************************)
(* Account updates and prices                                              *)
(***************************************************************************)

NewTask(p, n) ==
  [pool |-> p, update |-> n, of |-> [v \in Vault |-> 0], got |-> {}, begun |-> 0, pc |-> "check"]

\* The reserves of p change on the chain; the subscription, if there is one, tells.
Update(p) ==
  /\ state[p] < MaxUpdates[p]
  /\ state' = [state EXCEPT ![p] = @ + 1]
  /\ tasks' = IF pc # "up" THEN tasks
              ELSE tasks \cup {NewTask(p, state'[p])}
  /\ UNCHANGED <<cached, prices, seller, traderVars, watchVars, loopVars>>

TaskEnds(k) == tasks' = tasks \ {k}
TaskGoes(k, to) == tasks' = (tasks \ {k}) \cup {to}

Begin(k) == [k EXCEPT !.begun = Len(prices.log), !.pc = "fetch"]

CheckWatched(k) ==
  /\ k.pc = "check"
  /\ IF k.pool \in watchlist /\ k.pool \notin cached
     THEN TaskGoes(k, Begin(k))
     ELSE TaskEnds(k)
  /\ UNCHANGED <<state, cached, prices, seller, traderVars, watchVars, loopVars>>

\* A bug in the handler: the price is the one the update was about.
ReservesOfUpdate(k) == k.update

Reserves(k) == state[k.pool]
Fetch(k, v) == [k EXCEPT !.of = [@ EXCEPT ![v] = Reserves(k)], !.got = @ \cup {v}]

\* The balances of the vaults are read by calls of their own, made at once; if one fails all
\* are made again (liquidity.rs:213-240), and these are the last of them.
FetchReserves(k) ==
  /\ k.pc = "fetch" /\ k.got # Vault
  /\ TaskEnds(k) \/ \E v \in Vault \ k.got : TaskGoes(k, Fetch(k, v))
  /\ UNCHANGED <<state, cached, prices, seller, traderVars, watchVars, loopVars>>

\* check_liquidity may fail; without a receiver the price is neither sent nor cached.
SendPrice(k) ==
  /\ k.pc = "fetch" /\ k.got = Vault
  /\ TaskEnds(k)
  /\ \/ UNCHANGED <<prices, cached>>
     \/ /\ seller
        /\ prices' = Put(prices, [pool |-> k.pool, of |-> k.of, begun |-> k.begun])
        /\ cached' = cached \cup {k.pool}
  /\ UNCHANGED <<state, seller, traderVars, watchVars, loopVars>>

\* PRICE_CACHE_TTL is over.
ExpirePrice(p) ==
  /\ p \in cached
  /\ cached' = cached \ {p}
  /\ UNCHANGED <<state, tasks, prices, seller, traderVars, watchVars, loopVars>>

\* The trader's loop, which calls try_to_sell, ends like those of the watchlist.
TakePrice ==
  /\ seller /\ Ready(prices)
  /\ IF Lagged(prices, MarketCap)
     THEN seller' = FALSE /\ UNCHANGED prices
     ELSE prices' = ReadOn(prices) /\ UNCHANGED seller
  /\ UNCHANGED <<state, tasks, cached, traderVars, watchVars, loopVars>>

TaskStep(k) == CheckWatched(k) \/ FetchReserves(k) \/ SendPrice(k)

Next ==
  \/ \E p \in Pool : AddInitial(p) \/ Update(p) \/ ExpirePrice(p)
  \/ StartMonitor
  \/ \E t \in Trade :
       Insert(t) \/ ConfirmBuy(t) \/ AddAfterBuy(t) \/ SkipAdd(t) \/ Sell(t) \/ FailTrade(t)
  \/ ExecutorStops
  \/ \E l \in leaving : LeavePool(l)
  \/ AddLoop \/ RemoveLoop
  \/ Subscribe \/ StreamEnds \/ Unsubscribe \/ Cancel
  \/ \E k \in tasks : TaskStep(k)
  \/ TakePrice

Spec == Init /\ [][Next]_vars

(***************************************************************************)
(* Every task that can run does, and an attempt to subscribe comes to an   *)
(* end.  Nothing is assumed of trades and of the chain.                    *)
(***************************************************************************)
Fairness ==
  /\ WF_vars(\E p \in Pool : AddInitial(p))
  /\ WF_vars(StartMonitor)
  /\ \A t \in Trade : WF_vars(AddAfterBuy(t))
  /\ WF_vars(AddLoop) /\ WF_vars(RemoveLoop)
  /\ WF_vars(Subscribe)

FairSpec == Spec /\ Fairness

----------------------------------------------------------------------------

\* A pool whose last trade has left is never forgotten: it is watched on only if its removal
\* is still to be called or to be read, or was read before the addition (trade.rs:599-604,
\* mod.rs:223-224, monitor.rs:209-292).
WatchedIsExplained ==
  \A p \in watchlist :
    \/ Vec(p) # {}
    \/ p \in PoolsOf({l.trade : l \in leaving}) \cup Unread(removals) \cup Received(removals)

\* The trader may see an older balance after a newer one only if both were being fetched at
\* once: the task of the older looked at the cache before the newer was sent.
OverlapOnly ==
  \A i, j \in DOMAIN prices.log :
    LET x == prices.log[i]
        y == prices.log[j]
    IN  i < j /\ x.pool = y.pool /\ (\E v \in Vault : x.of[v] > y.of[v]) => y.begun < i

\* The pool of a bought trade with a take profit or a stop loss is watched in the end, and stays
\* so while the trade is active and nobody asks for its removal, if the task of the watchlist
\* keeps up: another trade of the pool that is sold leaves it watched.  A trade with a hold
\* time needs the executor's loop for it (trade.rs:505-522, 599-604, mod.rs:238-245).
HeldIsWatched ==
  \A t \in Triggered :
    t \in active \cap confirmed ~>
      [](\/ PoolOf[t] \in watchlist
         \/ t \notin active
         \/ PoolOf[t] \in Unread(removals) \cup Received(removals)
         \/ t \in Timed /\ ~executing
         \/ ~adder \/ pc = "panic" \/ cancelled)

\* The program does not go on without prices: the subscription comes up again, or the
\* program is cancelled (monitor.rs:307-441).
PricesComeBack == pc = "connect" ~> pc = "up" \/ cancelled
=============================================================================
