---------------------------- MODULE ExecuteOrder ----------------------------
(***************************************************************************)
(* execute_order (src/src/executor/executor.rs) with its helpers           *)
(* handle_attempt, get_transaction_metadata and the broadcasts: the loop   *)
(* that builds, sends and confirms a transaction, for the orders of one    *)
(* trade: its buy, and the sells executed at the same time afterwards.     *)
(***************************************************************************)
EXTENDS Naturals

CONSTANTS
  Buy,              \* the buy order of the trade
  Sells,            \* its sell orders
  MaxSendTxRetries, \* MAX_SEND_TX_RETRIES
  MaxRetries,       \* MAX_RETRIES of get_transaction_metadata
  Tipless           \* orders that ask for a paid executor and have no bribe

Orders == {Buy} \cup Sells

ASSUME ExecuteOrderAssumption ==
  /\ Buy \notin Sells
  /\ MaxSendTxRetries \in Nat \ {0} /\ MaxRetries \in Nat \ {0}
  /\ Tipless \subseteq Orders

VARIABLES
  pc,        \* per order: where its execution stands
  attempts,  \* send_tx_attempts
  lookups,   \* attempts of get_transaction_metadata
  cur,       \* the number of the last transaction broadcast, 0 before the first
  tx,        \* what became of each transaction
  account    \* whether the wallet has the token account of the position

vars == <<pc, attempts, lookups, cur, tx, account>>
execVars == <<pc, attempts, lookups, cur>>

Stage == {"idle", "blockhash", "build", "send", "confirm", "lookup", "ok", "failed"}
TxNo == 1..MaxSendTxRetries

\* A transaction is lost when no leader got it, and expired with its blockhash.
TxState == {"none", "lost", "flight", "landed", "rejected", "expired"}

Init ==
  /\ pc = [o \in Orders |-> "idle"]
  /\ attempts = [o \in Orders |-> 0]
  /\ lookups = [o \in Orders |-> 0]
  /\ cur = [o \in Orders |-> 0]
  /\ tx = [o \in Orders |-> [n \in TxNo |-> "none"]]
  /\ account = FALSE

\* A bug: the limit of sells for every order.
SameMaxAttempts(o) == MaxSendTxRetries

\* We try only once when buy, and retry N times when sell.
MaxAttempts(o) == IF o = Buy THEN 1 ELSE MaxSendTxRetries

\* A bug in handle_attempt: one attempt too many.
GivesUpLate(n, max) == n > max

GivesUp(n, max) == n >= max

\* handle_attempt counts the attempt, and fails the order or lets it start over.
CountAttempt(o) ==
  /\ attempts' = [attempts EXCEPT ![o] = @ + 1]
  /\ pc' = [pc EXCEPT ![o] =
       IF GivesUp(attempts[o] + 1, MaxAttempts(o)) THEN "failed" ELSE "blockhash"]

HandleAttempt(o) == CountAttempt(o) /\ UNCHANGED <<lookups, cur>>

Goto(o, stage) ==
  /\ pc' = [pc EXCEPT ![o] = stage]
  /\ UNCHANGED <<attempts, lookups, cur>>

(***************************************************************************)
(* The loop                                                                *)
(***************************************************************************)

\* The trader orders a sell only once its hook has seen the buy executed.
Start(o) ==
  /\ pc[o] = "idle"
  /\ o = Buy \/ pc[Buy] = "ok"
  /\ Goto(o, "blockhash")
  /\ UNCHANGED <<tx, account>>

\* A blockhash that cannot be fetched is fetched again.
GetBlockhash(o) ==
  /\ pc[o] = "blockhash"
  /\ Goto(o, "build")
  /\ UNCHANGED <<tx, account>>

\* A paid executor needs a tip; the other errors of the two builders do not occur.
CanBuild(o) == o \notin Tipless

\* A message that cannot be built starts the loop over, and counts as no attempt.
Build(o) ==
  /\ pc[o] = "build"
  /\ Goto(o, IF CanBuild(o) THEN "send" ELSE "blockhash")
  /\ UNCHANGED <<tx, account>>

\* With the blockhash of the last transaction the new one is that transaction again.
SameBlockhash(o) == cur[o] # 0 /\ tx[o][cur[o]] # "expired"

\* What the network has of transaction n once it is broadcast, or not.
Broadcast(o, n, delivered) ==
  tx' = [tx EXCEPT ![o][n] =
    IF @ \in {"landed", "rejected", "flight"} THEN @
    ELSE IF delivered THEN "flight" ELSE "lost"]

\* The answer may be lost although the transaction is not, and the other way round; the
\* broadcast to Bloxroute is a mock that delivers nothing and succeeds.
Send(o) ==
  /\ pc[o] = "send"
  /\ \E n \in {cur[o], cur[o] + 1}, delivered \in BOOLEAN :
       /\ n = cur[o] => SameBlockhash(o)
       /\ Broadcast(o, n, delivered)
       /\ cur' = [cur EXCEPT ![o] = n]
       /\ \/ pc' = [pc EXCEPT ![o] = "confirm"] /\ UNCHANGED attempts
          \/ CountAttempt(o)
  /\ UNCHANGED <<lookups, account>>

\* A bug: waiting for the status of a transaction whose blockhash is too old.
ConfirmWithoutTimeout(o) ==
  /\ pc[o] = "confirm"
  /\ \/ tx[o][cur[o]] = "landed" /\ Goto(o, "lookup")
     \/ tx[o][cur[o]] = "rejected" /\ (Goto(o, "failed") \/ HandleAttempt(o))
  /\ UNCHANGED <<tx, account>>

\* The status of the transaction is known, or it has none and its blockhash is too old.
\* A rejection fails the order, but for a pool that is not open yet (code 22).
Confirm(o) ==
  /\ pc[o] = "confirm"
  /\ \/ tx[o][cur[o]] = "landed" /\ Goto(o, "lookup")
     \/ tx[o][cur[o]] = "rejected" /\ (Goto(o, "failed") \/ HandleAttempt(o))
     \/ tx[o][cur[o]] = "expired" /\ HandleAttempt(o)
  /\ UNCHANGED <<tx, account>>

\* The node does not answer: the fate of the transaction is unknown.
ConfirmError(o) ==
  /\ pc[o] = "confirm"
  /\ HandleAttempt(o)
  /\ UNCHANGED <<tx, account>>

\* The order is confirmed if the metadata shows its tokens.
Lookup(o) ==
  /\ pc[o] = "lookup"
  /\ Goto(o, "ok") \/ Goto(o, "failed")
  /\ UNCHANGED <<tx, account>>

\* Metadata not found: tried again after a while.
LookupError(o) ==
  /\ pc[o] = "lookup"
  /\ lookups' = [lookups EXCEPT ![o] = @ + 1]
  /\ pc' = [pc EXCEPT ![o] = IF GivesUp(lookups[o] + 1, MaxRetries) THEN "failed" ELSE @]
  /\ UNCHANGED <<attempts, cur, tx, account>>

(***************************************************************************)
(* The chain                                                               *)
(***************************************************************************)

\* The buy creates the token account and fails if there is one; a sell needs it, sells
\* what it holds and closes it.
CanLand(o) == IF o = Buy THEN ~account ELSE account

Land(o, n) ==
  /\ tx[o][n] = "flight"
  /\ CanLand(o)
  /\ tx' = [tx EXCEPT ![o][n] = "landed"]
  /\ account' = (o = Buy)
  /\ UNCHANGED execVars

\* Slippage, a closed pool, no tokens left.
Reject(o, n) ==
  /\ tx[o][n] = "flight"
  /\ tx' = [tx EXCEPT ![o][n] = "rejected"]
  /\ UNCHANGED <<execVars, account>>

Expire(o, n) ==
  /\ tx[o][n] \in {"lost", "flight"}
  /\ tx' = [tx EXCEPT ![o][n] = "expired"]
  /\ UNCHANGED <<execVars, account>>

----------------------------------------------------------------------------

Execute(o) ==
  \/ Start(o) \/ GetBlockhash(o) \/ Build(o) \/ Send(o)
  \/ Confirm(o) \/ ConfirmError(o) \/ Lookup(o) \/ LookupError(o)

Chain(o) == \E n \in TxNo : Land(o, n) \/ Reject(o, n) \/ Expire(o, n)

Next == \E o \in Orders : Execute(o) \/ Chain(o)

Spec == Init /\ [][Next]_vars

\* The task of an order runs, the node answers in the end, and a blockhash gets old.
\* Nothing is assumed of the node's errors or of what the chain accepts.
Fairness ==
  \A o \in Orders :
    /\ WF_vars(GetBlockhash(o)) /\ WF_vars(Build(o)) /\ WF_vars(Send(o))
    /\ WF_vars(Confirm(o)) /\ WF_vars(Lookup(o))
    /\ \A n \in TxNo : WF_vars(Expire(o, n))

FairSpec == Spec /\ Fairness

(***************************************************************************)
(* Properties                                                              *)
(***************************************************************************)

\* The counters stay within the limits of handle_attempt, and no execution broadcasts more
\* transactions than it has attempts (executor.rs:333, error.rs:5-20).
TypeOK ==
  /\ pc \in [Orders -> Stage]
  /\ attempts \in [Orders -> Nat] /\ lookups \in [Orders -> 0..MaxRetries]
  /\ cur \in [Orders -> Nat]
  /\ \A o \in Orders : attempts[o] <= MaxAttempts(o) /\ cur[o] <= MaxAttempts(o)
  /\ tx \in [Orders -> [TxNo -> TxState]]
  /\ account \in BOOLEAN

\* An execution ends: a buy is tried only once and a sell N times (executor.rs:332), so that
\* the order is reported to the trader as executed or failed in the end.
EveryExecutionEnds == \A o \in Orders : (pc[o] # "idle") ~> (pc[o] \in {"ok", "failed"})

Swaps == {s \in Orders \X TxNo : tx[s[1]][s[2]] = "landed"}
ResultOf(o) == IF pc[o] \in {"ok", "failed"} THEN pc[o] ELSE "running"
Results == [o \in Orders |-> ResultOf(o)]
S == INSTANCE Swap WITH swaps <- Swaps, result <- Results

\* Whatever is resent after a lost answer or a timeout, a position is bought once and sold
\* once, and an order reported as executed did swap.
ImplementsSwap == S!Spec

(***************************************************************************)
(* The inductive invariant behind the theorems                             *)
(***************************************************************************)

\* Before an attempt no more was broadcast than attempts were counted, and one is left.
Counted ==
  \A o \in Orders :
    /\ pc[o] \in {"idle", "blockhash", "build", "send"} =>
         cur[o] <= attempts[o] /\ attempts[o] < MaxAttempts(o)
    /\ pc[o] = "confirm" =>
         /\ cur[o] \in 1..(attempts[o] + 1)
         /\ attempts[o] < MaxAttempts(o)
    /\ pc[o] \notin {"ok", "failed"} => lookups[o] < MaxRetries

\* Only what was broadcast is with the network, and who looks a transaction up, or returned
\* success, saw its own land.
Landed(o) == \E n \in TxNo : tx[o][n] = "landed"
Broadcasts ==
  \A o \in Orders :
    /\ \A n \in TxNo : tx[o][n] # "none" => n <= cur[o]
    /\ pc[o] \in {"lookup", "ok"} => Landed(o)

\* The token account is there from the buy to the first sell that lands, the only one.
Position ==
  /\ account <=> Landed(Buy) /\ \A s \in Sells : ~Landed(s)
  /\ \A s \in Sells : (Landed(s) => Landed(Buy)) /\ (pc[s] # "idle" => pc[Buy] = "ok")

Inv == TypeOK /\ Counted /\ Broadcasts /\ Position
=============================================================================
