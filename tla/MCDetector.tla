----------------------------- MODULE MCDetector -----------------------------
(* Constants for TLC: pools, what is true of them, and some strategies. *)
EXTENDS Detector, TLC

CONSTANTS n1, o1

NewAndOld == {n1, o1}
OnlyNew == {n1}

Token ==
  [power |-> "fits", freezable |-> FALSE, renounced |-> TRUE, mutable |-> FALSE, quote |-> "WSOL",
   opens |-> TRUE, age |-> 0, price |-> 20, reservesQuote |-> 4, reservesBase |-> 3, supply |-> 5]
SomeTokens ==
  {Token, [Token EXCEPT !.renounced = FALSE, !.mutable = TRUE],
   [Token EXCEPT !.freezable = TRUE], [Token EXCEPT !.reservesQuote = 3, !.opens = FALSE],
   [Token EXCEPT !.power = "wraps"], [Token EXCEPT !.power = "zero"]}
TokenFacts == n1 :> SomeTokens @@ o1 :> {Token}

Above(n) == [op |-> "gt", target |-> n, range |-> Absent]
Within(a, b) == [op |-> "in", target |-> 0, range |-> <<a, b>>]
Careful ==
  [freezable |-> FALSE, renounced |-> TRUE, mutable |-> FALSE, quote |-> "WSOL", maxDelay |-> 8,
   price |-> Above(0), reservesQuote |-> Above(3), reservesBase |-> NoCondition,
   supply |-> Within(5, 9)]
\* An unknown operator rejects no pool, a price left out rejects every pool.
Bold == [Careful EXCEPT !.renounced = FALSE, !.mutable = Absent, !.reservesQuote = Above(0),
                        !.supply = [op |-> "other", target |-> 1, range |-> Absent]]
NoPrice == [Bold EXCEPT !.price = [op |-> "gt", target |-> Absent, range |-> Absent]]
Picky == [Bold EXCEPT !.supply = Above(5)]
SomeStrategies == [careful |-> Careful, bold |-> Bold, picky |-> Picky, noPrice |-> NoPrice]
OneWrong == {[price |-> 0, reservesBase |-> 1, supply |-> 7]}
SomeAges == {1, 9}
BothModes == {"pubsub", "bloxroute"}
PubSubOnly == {"pubsub"}
=============================================================================
