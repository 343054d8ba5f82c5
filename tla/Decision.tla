------------------------------ MODULE Decision ------------------------------
(***************************************************************************)
(* The choice of a strategy for a pool (src/src/trader/strategy.rs), and   *)
(* what the comments of the configuration (src/src/config.rs) say it is.   *)
(* Prices, reserves and supplies are small numbers.                        *)
(***************************************************************************)
EXTENDS Naturals, Sequences

CONSTANT Absent   \* an optional field of the configuration that is not set

\* A condition: its operator, which may be any text, its target value and its range, each of
\* them optional.
Compares == {"gt", "gte", "lt", "lte", "eq"}
Condition ==
  [op : Compares \cup {"in", "other", Absent}, target : Nat \cup {Absent},
   range : Seq(Nat) \cup {Absent}]

NoCondition == [op |-> Absent, target |-> Absent, range |-> Absent]

\* A bug in is_condition_met: "gt" lets the target itself through.
IsConditionMetLoose(c, v) ==
  \/ c.target = Absent
  \/ c.op = "gt" /\ v < c.target

\* is_condition_met is TRUE when the condition is not met, or when there is no target.
IsConditionMet(c, v) ==
  \/ c.target = Absent
  \/ c.op = "gt" /\ v <= c.target
  \/ c.op = "gte" /\ v < c.target
  \/ c.op = "lt" /\ v >= c.target
  \/ c.op = "lte" /\ v > c.target
  \/ c.op = "eq" /\ v # c.target
  \/ c.op = "in" /\ (c.range = Absent \/ Len(c.range) # 2)
  \/ c.op = "in" /\ c.range # Absent /\ (v < c.range[1] \/ v > c.range[2])

\* unwrap_or(0.0): only the price keeps its missing target.
OrZero(c) == IF c.target = Absent THEN [c EXCEPT !.target = 0] ELSE c

\* What a strategy asks of a pool, and what is known of one.
Strategy ==
  [freezable : BOOLEAN, renounced : BOOLEAN, mutable : BOOLEAN \cup {Absent},
   quote : {"WSOL", "USDC", Absent}, maxDelay : Nat,
   price : Condition, reservesQuote : Condition, reservesBase : Condition, supply : Condition]

\* power: whether 10^decimals of the token fits in 64 bits, wraps around, or wraps to zero;
\* opens: it has an opening time; age: how long ago it was detected.
Fact ==
  [power : {"fits", "wraps", "zero"},
   freezable : BOOLEAN, renounced : BOOLEAN, mutable : BOOLEAN, quote : {"WSOL", "USDC", "other"},
   opens : BOOLEAN, age : Nat, price : Nat, reservesQuote : Nat, reservesBase : Nat, supply : Nat]

\* choose_strategy goes on to the next strategy.
Rejects(s, d) ==
  \/ s.freezable # d.freezable
  \/ s.renounced # d.renounced
  \/ s.mutable # Absent /\ s.mutable # d.mutable
  \/ s.quote \in {"WSOL", "USDC"} /\ s.quote # d.quote
  \/ d.opens /\ d.age > s.maxDelay
  \/ IsConditionMet(s.price, d.price)
  \/ IsConditionMet(OrZero(s.reservesQuote), d.reservesQuote)
  \/ IsConditionMet(OrZero(s.reservesBase), d.reservesBase)
  \/ IsConditionMet(OrZero(s.supply), d.supply)

\* The strategies are in a HashMap: the first that is not rejected may be any of them.
Choices(strategies, d) == {n \in DOMAIN strategies : ~Rejects(strategies[n], d)}

(***************************************************************************)
(* The reference: what the comments of the configuration say a strategy    *)
(* asks for, condition by condition (config.rs:76-117, default.yml:58-105) *)
(***************************************************************************)

Between(r) == r[1]..r[2]

\* A condition whose value is commented out is ignored (default.yml:58-59).
Asks(c) ==
  \/ c.op \in Compares /\ c.target # Absent
  \/ c.op = "in" /\ c.range # Absent

Fulfils(c, v) ==
  Asks(c) =>
    \/ c.op = "gt" /\ v > c.target
    \/ c.op = "gte" /\ v >= c.target
    \/ c.op = "lt" /\ v < c.target
    \/ c.op = "lte" /\ v <= c.target
    \/ c.op = "eq" /\ v = c.target
    \/ c.op = "in" /\ v \in Between(c.range)

\* All but max_delay_since_detect: an older pool is not traded, say config.rs:83-85 and
\* default.yml:70-71, but Rejects lets it pass if it has no opening time.
Suits(s, d) ==
  /\ s.freezable = d.freezable /\ s.renounced = d.renounced
  /\ s.mutable \in {Absent, d.mutable}
  /\ s.quote \in {Absent, d.quote}
  /\ Fulfils(s.price, d.price)
  /\ Fulfils(s.reservesQuote, d.reservesQuote)
  /\ Fulfils(s.reservesBase, d.reservesBase)
  /\ Fulfils(s.supply, d.supply)
=============================================================================
