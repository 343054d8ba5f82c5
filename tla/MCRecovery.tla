----------------------------- MODULE MCRecovery -----------------------------
(* Constants for TLC: one trade and a crash, or two trades and none. *)
EXTENDS Recovery, TLC

CONSTANTS t1, t2, p1, p2

OnePool == [t \in Trade |-> p1]
TwoPools == t1 :> p1 @@ t2 :> p2
HoldOnly == [t \in Trade |-> {"HoldTime"}]
NoneDisabled == {}
OneId == {1}
=============================================================================
