------------------------------ MODULE MCTrader ------------------------------
(* Constants for TLC: one trade, or two, with the exits of their strategies. *)
EXTENDS TraderProperties, TLC

CONSTANTS t1, t2, p1, p2

OnePool == [t \in Trade |-> p1]
TwoPools == t1 :> p1 @@ t2 :> p2

HoldOnly == [t \in Trade |-> {"HoldTime"}]
HoldAndEmergency == t1 :> {"HoldTime", "Emergency"} @@ t2 :> {"StopLoss"}
HoldAndProfit ==
  [t \in Trade |-> IF t = t1 THEN {"HoldTime", "TakeProfit"} ELSE {"Emergency"}]
Mixed == t1 :> {"HoldTime", "TakeProfit"} @@ t2 :> {"HoldTime"}

NoneDisabled == {}
NoBuy == {OrderOf(t2, "SimpleBuy")}
OneId == {1}
=============================================================================
