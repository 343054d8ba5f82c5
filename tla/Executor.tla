------------------------------ MODULE Executor ------------------------------
(***************************************************************************)
(* The order executor (src/src/executor/executor.rs): the pending cache,   *)
(* the channel into the executor loop, the delay queue with its key map,   *)
(* the cancel channel, and the job spawned for every expired order.        *)
(* The module has no Next of its own: order() and cancel_order() are steps *)
(* of their callers, and Trader.tla composes both sides.  A pending order  *)
(* restored from disk is in the delay queue from the start.                *)
(***************************************************************************)
EXTENDS Trades

CONSTANTS
  Slots,     \* bound: how many slab entries the delay queue grows to
  ChanCap,   \* capacity of delay_queue_tx
  CancelCap, \* capacity of queue_cancel_tx
  FailCap,   \* capacity of failed_orders_tx
  JobId,     \* bound: how many jobs of one order there are at once
  Restored,  \* trades found active, with their hold order pending, in the backup files
  Disabled,  \* orders whose executor type is not enabled in the configuration
  NoOrder    \* an empty slab entry

ASSUME ExecutorAssumption ==
  /\ Slots \in Nat \ {0}
  /\ ChanCap \in Nat \ {0} /\ CancelCap \in Nat \ {0} /\ FailCap \in Nat \ {0}
  /\ JobId \subseteq Nat
  /\ Restored \subseteq {t \in Trade : "HoldTime" \in Exits[t]}
  /\ \A t, u \in Restored : PoolOf[t] = PoolOf[u] => t = u
  /\ IsFiniteSet(Restored) /\ Cardinality(Restored) <= Slots
  /\ Disabled \subseteq Order
  /\ NoOrder \notin Order

Slot == 1..Slots

VARIABLES
  pending,  \* the pending_orders cache; the Vec of a pool is its part of the set
  pendingPools, \* the pools that have an entry in that map, be its Vec empty
  chan,     \* orders sent to the loop and not yet received
  queue,    \* the delay queue: what each slab entry holds
  free,     \* the slab's list of vacant entries, the next one to use first
  keys,     \* order_keys, of hold orders (no other is ever cancelled): the slab entry
            \* the key names, 0 when there is none
  cancels,  \* the trades whose hold order is sent to be cancelled
  alive,    \* FALSE once the loop has returned
  jobs,     \* the spawned execution tasks
  executed, \* per order: results in the executed channel and tasks yet to look at them
  failed,   \* the failed_orders channel
  bought,   \* per trade: buys that landed on the chain
  sold      \* per trade: sells that landed on the chain

executorVars == <<pending, pendingPools, chan, queue, free, keys, cancels, alive,
                  jobs, executed, failed, bought, sold>>

Job == [id : JobId, order : Order, pc : {"run", "report", "retain", "evict"},
        ok : BOOLEAN]

ExecutorTypeOK ==
  /\ pending \subseteq Order
  /\ pendingPools \subseteq Pool
  /\ chan \in Seq(Order)
  /\ queue \in [Slot -> Order \cup {NoOrder}]
  /\ free \in Seq(Slot)
  /\ keys \in [Trade -> Slot \cup {0}]
  /\ cancels \in Seq(Trade)
  /\ alive \in BOOLEAN
  /\ jobs \subseteq Job
  /\ executed \in [Order -> Nat]
  /\ failed \in Seq(Order)
  /\ bought \in [Trade -> Nat]
  /\ sold \in [Trade -> Nat]

\* The files are read in an order of their own: a layout lists the restored trades.
RestoredCount == Cardinality(Restored)
Layouts ==
  {l \in [1..RestoredCount -> Restored] :
     \A i, j \in 1..RestoredCount : l[i] = l[j] => i = j}

PlaceIn(l, t) ==
  IF \E s \in DOMAIN l : l[s] = t THEN CHOOSE s \in DOMAIN l : l[s] = t ELSE 0

ExecutorInit(l) ==
  /\ pending = {OrderOf(t, "HoldTime") : t \in Restored}
  /\ pendingPools = {PoolOf[t] : t \in Restored}
  /\ chan = <<>>
  /\ queue = [s \in Slot |-> IF s \in DOMAIN l THEN OrderOf(l[s], "HoldTime") ELSE NoOrder]
  /\ free = [i \in 1..(Slots - RestoredCount) |-> RestoredCount + i]
  /\ keys = [t \in Trade |-> PlaceIn(l, t)]
  /\ cancels = <<>>
  /\ alive = TRUE
  /\ jobs = {}
  /\ executed = [o \in Order |-> 0]
  /\ failed = <<>>
  /\ bought = [t \in Trade |-> IF t \in Restored THEN 1 ELSE 0]
  /\ sold = [t \in Trade |-> 0]

(***************************************************************************)
(* order() and cancel_order(), as steps of the task that calls them        *)
(***************************************************************************)

\* A bug in order(): anything pending for the pool counts as a duplicate.
DuplicateInPool(o) == \E q \in pending : PoolOfOrder(q) = PoolOfOrder(o)

\* The same kind is already pending for the pool: order() returns Ok and drops it.
Duplicate(o) ==
  \E q \in pending : PoolOfOrder(q) = PoolOfOrder(o) /\ q.kind = o.kind

\* Under the lock of the pool's entry.
Push(o) ==
  /\ ~Duplicate(o)
  /\ pending' = pending \cup {o}
  /\ pendingPools' = pendingPools \cup {PoolOfOrder(o)}

\* Waits while the channel is full.
Send(o) ==
  /\ alive
  /\ Len(chan) < ChanCap
  /\ chan' = Append(chan, o)

SendCancel(t) ==
  /\ alive
  /\ Len(cancels) < CancelCap
  /\ cancels' = Append(cancels, t)

(***************************************************************************)
(* The executor loop: the branches of its select!                          *)
(***************************************************************************)

\* A bug in the loop: an expired entry stays in the queue.
VacateNothing(s) ==
  /\ queue' = [queue EXCEPT ![s] = @]
  /\ free' = <<s>> \o free

\* A slab reuses the entry vacated last.
Vacate(s) ==
  /\ queue' = [queue EXCEPT ![s] = NoOrder]
  /\ free' = <<s>> \o free

Receive ==
  /\ alive
  /\ chan # <<>> /\ free # <<>>
  /\ chan' = Tail(chan)
  /\ queue' = [queue EXCEPT ![Head(free)] = Head(chan)]
  /\ keys' = IF Head(chan).kind = "HoldTime"
             THEN [keys EXCEPT ![Head(chan).trade] = Head(free)] ELSE keys
  /\ free' = Tail(free)
  /\ UNCHANGED <<pending, pendingPools, cancels, alive, jobs, executed, failed, bought, sold>>

\* The key of an order that has expired is still in the map, and the slab entry
\* it names may hold another order by now.
TakeCancel ==
  /\ alive
  /\ cancels # <<>>
  /\ cancels' = Tail(cancels)
  /\ keys' = [keys EXCEPT ![Head(cancels)] = 0]
  /\ LET s == keys[Head(cancels)]
     IN  IF s # 0 /\ queue[s] # NoOrder THEN Vacate(s) ELSE UNCHANGED <<queue, free>>
  /\ UNCHANGED <<pending, pendingPools, chan, alive, jobs, executed, failed, bought, sold>>

\* Jobs of one order are told apart by a number, the lowest that is not taken.
IdleJob(o, id) ==
  /\ \A j \in jobs : j.order = o => j.id # id
  /\ \A i \in JobId : i < id => \E j \in jobs : j.order = o /\ j.id = i

\* The delay of the order in s is over: a job is spawned for it.
Expire(s) ==
  /\ alive
  /\ queue[s] \in Order \ Disabled
  /\ Vacate(s)
  /\ \E id \in JobId :
       /\ IdleJob(queue[s], id)
       /\ jobs' = jobs \cup {[id |-> id, order |-> queue[s], pc |-> "run", ok |-> FALSE]}
  /\ UNCHANGED <<pending, pendingPools, chan, keys, cancels, alive, executed, failed, bought, sold>>

\* The order asks for an executor that is not enabled: the loop returns, and with
\* it go the queue and the receiving ends of both channels.
ExpireDisabled(s) ==
  /\ alive
  /\ queue[s] \in Disabled
  /\ Vacate(s)
  /\ alive' = FALSE
  /\ UNCHANGED <<pending, pendingPools, chan, keys, cancels, jobs, executed, failed, bought, sold>>

(***************************************************************************)
(* A job: execute_order, the report of its result, the clean-up            *)
(***************************************************************************)

Goto(j, pc) == jobs' = (jobs \ {j}) \cup {[j EXCEPT !.pc = pc]}
End(j) == jobs' = jobs \ {j}

\* The swap can land on the chain: a sell needs the tokens of its buy.
CanLand(o) == o.kind = "SimpleBuy" \/ bought[o.trade] > sold[o.trade]

Land(o) ==
  IF o.kind = "SimpleBuy"
  THEN bought' = [bought EXCEPT ![o.trade] = @ + 1] /\ UNCHANGED sold
  ELSE sold' = [sold EXCEPT ![o.trade] = @ + 1] /\ UNCHANGED bought

\* execute_order as seen from outside.  Success means that the swap has landed;
\* an error may also follow a swap that landed (its metadata was not found).
Run(j) ==
  /\ j.pc = "run"
  /\ \E ok \in BOOLEAN :
       /\ \/ CanLand(j.order) /\ Land(j.order)
          \/ ~ok /\ UNCHANGED <<bought, sold>>
       /\ jobs' = (jobs \ {j}) \cup {[j EXCEPT !.pc = "report", !.ok = ok]}
  /\ UNCHANGED <<pending, pendingPools, chan, queue, free, keys, cancels, alive, executed, failed>>

\* A bug in the job: whatever came back is reported as executed.
ReportExecuted(j) ==
  /\ j.pc = "report"
  /\ executed' = [executed EXCEPT ![j.order] = @ + 1]
  /\ Goto(j, "retain")
  /\ UNCHANGED <<pending, pendingPools, chan, queue, free, keys, cancels, alive, failed, bought, sold>>

Report(j) ==
  /\ j.pc = "report"
  /\ IF j.ok
     THEN executed' = [executed EXCEPT ![j.order] = @ + 1] /\ UNCHANGED failed
     ELSE Len(failed) < FailCap /\ failed' = Append(failed, j.order) /\ UNCHANGED executed
  /\ Goto(j, "retain")
  /\ UNCHANGED <<pending, pendingPools, chan, queue, free, keys, cancels, alive, bought, sold>>

\* Drops every pending order of the job's trade.
Retained(j) == {o \in pending : o.trade # j.order.trade}

Retain(j) ==
  /\ j.pc = "retain"
  /\ IF PoolOfOrder(j.order) \in pendingPools
     THEN /\ pending' = Retained(j)
          /\ IF \E o \in pending' : PoolOfOrder(o) = PoolOfOrder(j.order)
             THEN End(j) ELSE Goto(j, "evict")
     ELSE End(j) /\ UNCHANGED pending
  /\ UNCHANGED <<pendingPools, chan, queue, free, keys, cancels, alive, executed, failed, bought, sold>>

\* Removes the pool's entry, found empty before its lock was released.
Evict(j) ==
  /\ j.pc = "evict"
  /\ pending' = {o \in pending : PoolOfOrder(o) # PoolOfOrder(j.order)}
  /\ pendingPools' = pendingPools \ {PoolOfOrder(j.order)}
  /\ End(j)
  /\ UNCHANGED <<chan, queue, free, keys, cancels, alive, executed, failed, bought, sold>>
=============================================================================
