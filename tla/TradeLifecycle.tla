--------------------------- MODULE TradeLifecycle ---------------------------
(***************************************************************************)
(* What the trader promises of a trade, whatever happens inside: a trade   *)
(* is entered, bought, then sold or failed, never moves back, and its      *)
(* outcome goes to the ledger once, after it is settled.                   *)
(***************************************************************************)
EXTENDS Naturals, Sequences

CONSTANT Trade

VARIABLES
  stage,   \* per trade: how far it has come
  ledger   \* the outcomes saved, in the order they were saved

vars == <<stage, ledger>>

Settled == {"sold", "failed"}
Stage == {"unknown", "entered", "holding"} \cup Settled

TypeOK ==
  /\ stage \in [Trade -> Stage]
  /\ ledger \in Seq([trade : Trade, outcome : Settled])

\* A trade may have been entered and bought before a restart.
Init ==
  /\ stage \in [Trade -> {"unknown", "holding"}]
  /\ ledger = <<>>

Move(t, from, to) ==
  /\ stage[t] \in from
  /\ stage' = [stage EXCEPT ![t] = to]
  /\ UNCHANGED ledger

Enter(t) == Move(t, {"unknown"}, "entered")
Buy(t) == Move(t, {"entered"}, "holding")
Sell(t) == Move(t, {"holding"}, "sold")
Fail(t) == Move(t, {"entered", "holding"}, "failed")

Recorded(t) == \E i \in DOMAIN ledger : ledger[i].trade = t

Record(t) ==
  /\ stage[t] \in Settled
  /\ ~Recorded(t)
  /\ ledger' = Append(ledger, [trade |-> t, outcome |-> stage[t]])
  /\ UNCHANGED stage

Next == \E t \in Trade : Enter(t) \/ Buy(t) \/ Sell(t) \/ Fail(t) \/ Record(t)

Spec == Init /\ [][Next]_vars
=============================================================================
