-------------------------------- MODULE Swap --------------------------------
(***************************************************************************)
(* What an executed order promises: a position is bought once and sold     *)
(* once, an order reported as executed did swap, and its report is final.  *)
(* A failed order may have swapped, or may still swap after its report.    *)
(***************************************************************************)
EXTENDS Naturals

CONSTANTS
  Buy,    \* the order that buys the position
  Sells   \* the orders racing to sell it

VARIABLES
  swaps,  \* the swaps that landed: an order and the number of its transaction
  result  \* per order: what execute_order returned

vars == <<swaps, result>>

Orders == {Buy} \cup Sells

Swapped(o) == \E s \in swaps : s[1] = o

TypeOK ==
  /\ swaps \subseteq Orders \X Nat
  /\ result \in [Orders -> {"running", "ok", "failed"}]

Init ==
  /\ swaps = {}
  /\ result = [o \in Orders |-> "running"]

CanSwap(o) ==
  IF o = Buy THEN ~Swapped(Buy) ELSE Swapped(Buy) /\ \A s \in Sells : ~Swapped(s)

Land(o) ==
  /\ CanSwap(o)
  /\ \E s \in swaps' : s[1] = o /\ s \notin swaps /\ swaps' = swaps \cup {s}
  /\ UNCHANGED result

\* A sell is executed only after its buy was reported as executed.
Ends(o, res) ==
  /\ result[o] = "running"
  /\ o = Buy \/ result[Buy] = "ok"
  /\ result' = [result EXCEPT ![o] = res]
  /\ UNCHANGED swaps

Succeed(o) == Swapped(o) /\ Ends(o, "ok")
Fail(o) == Ends(o, "failed")

Next == \E o \in Orders : Land(o) \/ Succeed(o) \/ Fail(o)

Spec == Init /\ [][Next]_vars
=============================================================================
