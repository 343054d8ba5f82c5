--------------------------- MODULE MCExecuteOrder ---------------------------
(* Constants for TLC: a buy and two sells, paid, unpaid and mocked executors. *)
EXTENDS ExecuteOrder

CONSTANTS buy, hold, profit

TwoSells == {hold, profit}
NoOrders == {}
Profit == {profit}
=============================================================================
