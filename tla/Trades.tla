------------------------------- MODULE Trades -------------------------------
(***************************************************************************)
(* The data of a trade (src/src/trader/trade.rs) and of its orders         *)
(* (src/src/executor/order.rs).  Amounts, prices, mints and timestamps are *)
(* left out: what is kept is the life of a trade, its status and the       *)
(* status of the order in each of its five slots.                          *)
(***************************************************************************)
EXTENDS Naturals, Sequences, FiniteSets

CONSTANTS
  Trade,    \* trades the detector can ask for
  Pool,     \* AMM pools
  PoolOf,   \* the pool of each trade
  Exits     \* per trade: the sell kinds its strategy switches on

SellKind == {"HoldTime", "TakeProfit", "StopLoss", "Emergency"}
Kind == {"SimpleBuy"} \cup SellKind

\* hold_time > 0, take_profit > 0, stop_loss > 0, volatility_filter.enabled
ASSUME TradesAssumption ==
  /\ PoolOf \in [Trade -> Pool]
  /\ Exits \in [Trade -> SUBSET SellKind]

\* An order is known by its trade and kind: a trade never holds two orders of a kind.
Order == [trade : Trade, kind : Kind]
OrderOf(t, k) == [trade |-> t, kind |-> k]
PoolOfOrder(o) == PoolOf[o.trade]

TradeStatus == {"Created", "Active", "Completed", "Error"}
SlotStatus == {"None", "Open", "Completed", "Cancelled"}

\* The status and the slot of the buy order agree: the status "Active" comes with the
\* completed buy, and "Created" goes with it.
TradeRecord ==
  {r \in [status : TradeStatus, slot : [Kind -> SlotStatus]] :
     /\ r.status = "Created" => r.slot["SimpleBuy"] # "Completed"
     /\ r.status = "Active" => r.slot["SimpleBuy"] = "Completed"}

NewTrade == [status |-> "Created", slot |-> [k \in Kind |-> "None"]]
InitiateBuy(r) == [r EXCEPT !.slot["SimpleBuy"] = "Open"]
InitiateSell(r, ks) ==
  [r EXCEPT !.slot = [k \in Kind |-> IF k \in ks THEN "Open" ELSE @[k]]]

\* A bug in buy: the status moves on, the registered order stays.
ConfirmBuyStatusOnly(r) == [r EXCEPT !.status = "Active"]

\* A bug in buy: the slot is filled, the status does not move on.
ConfirmBuyKeepsStatus(r) == [r EXCEPT !.slot["SimpleBuy"] = "Completed"]

\* The confirmed buy order replaces the registered one.
ConfirmBuy(r) == [r EXCEPT !.status = "Active", !.slot["SimpleBuy"] = "Completed"]

ConfirmSell(r, k) == [r EXCEPT !.status = "Completed", !.slot[k] = "Completed"]

\* A bug in get_completed_sell_order: the emergency order is forgotten.
CompletedButEmergency(r) ==
  LET done == {k \in SellKind \ {"Emergency"} : r.slot[k] = "Completed"}
  IN  IF done = {} THEN "None" ELSE CHOOSE k \in done : TRUE

\* The completed sell order, searched in the order of get_completed_sell_order.
CompletedSellOrder(r) ==
  LET done == {k \in SellKind : r.slot[k] = "Completed"}
  IN  IF "TakeProfit" \in done THEN "TakeProfit"
      ELSE IF "HoldTime" \in done THEN "HoldTime"
      ELSE IF "StopLoss" \in done THEN "StopLoss"
      ELSE IF "Emergency" \in done THEN "Emergency" ELSE "None"

\* A bug in archive: the slots of the orders that did not sell stay as they are.
ArchiveNothing(r) == r

\* Every other sell order of the trade is cancelled.
Archive(r) ==
  LET done == CompletedSellOrder(r)
  IN  IF done = "None" THEN r
      ELSE [r EXCEPT !.slot = [k \in Kind |->
             IF k \in SellKind \ {done} /\ @[k] # "None" THEN "Cancelled" ELSE @[k]]]

\* A bug in fail: the orders are cancelled, the status is not updated.
FailKeepsStatus(r) ==
  [r EXCEPT !.slot = [k \in Kind |-> IF @[k] = "Open" THEN "Cancelled" ELSE @[k]]]

\* Every order that is not completed is cancelled.
Fail(r) ==
  [r EXCEPT !.status = "Error",
            !.slot = [k \in Kind |-> IF @[k] = "Open" THEN "Cancelled" ELSE @[k]]]
=============================================================================
