-------------------------- MODULE ExecuteOrderProofs --------------------------
(***************************************************************************)
(* Types, the inductive invariant and the implementation of Swap, for any  *)
(* number of sells and any limits of attempts.                             *)
(***************************************************************************)
EXTENDS ExecuteOrder, TLAPS

USE ExecuteOrderAssumption DEF Orders, TxNo

LEMMA Limits == \A o \in Orders : MaxAttempts(o) \in 1..MaxSendTxRetries
BY DEF MaxAttempts

LEMMA InitInv == Init => Inv
<1> SUFFICES ASSUME Init PROVE Inv OBVIOUS
<1> USE DEF Init
<1>1. TypeOK
  <2>1. account \in BOOLEAN OBVIOUS
  <2>2. tx \in [Orders -> [TxNo -> TxState]] BY DEF TxState
  <2>3. pc \in [Orders -> Stage] BY DEF Stage
  <2> QED BY <2>1, <2>2, <2>3, Limits DEF TypeOK
<1>2. Counted BY Limits DEF Counted
<1>3. \A o \in Orders : ~Landed(o) BY DEF Landed
<1>4. Broadcasts BY <1>3 DEF Broadcasts
<1>5. Position BY <1>3 DEF Position
<1> QED BY <1>1, <1>2, <1>4, <1>5 DEF Inv

(***************************************************************************)
(* The executions                                                          *)
(***************************************************************************)

\* Steps of an execution that broadcast nothing: they count what they must.
LEMMA ExecuteTypes ==
  ASSUME TypeOK, Counted, NEW o \in Orders,
         Start(o) \/ GetBlockhash(o) \/ Build(o) \/ Confirm(o) \/ ConfirmError(o)
           \/ Lookup(o) \/ LookupError(o)
  PROVE  TypeOK' /\ Counted' /\ UNCHANGED <<cur, tx, account>>
<1> USE Limits DEF TypeOK, Stage, Counted, Goto
<1>0. UNCHANGED <<cur, tx, account>>
  BY DEF Start, GetBlockhash, Build, Confirm, ConfirmError, Lookup, LookupError, HandleAttempt
<1>1. CASE Start(o) \/ GetBlockhash(o) \/ Build(o)
  BY <1>0, <1>1 DEF Start, GetBlockhash, Build
<1>2. CASE pc[o] = "confirm" /\ HandleAttempt(o)
  <2>1. attempts[o] \in Nat /\ attempts[o] + 1 <= MaxAttempts(o) /\ lookups' = lookups
    BY <1>2 DEF HandleAttempt
  <2>2. attempts' = [attempts EXCEPT ![o] = attempts[o] + 1]
    BY <1>2 DEF HandleAttempt, CountAttempt
  <2>3. pc' = [pc EXCEPT ![o] = "failed"]
          \/ (pc' = [pc EXCEPT ![o] = "blockhash"] /\ attempts[o] + 1 < MaxAttempts(o))
    <3>1. MaxAttempts(o) \in Nat BY Limits
    <3>2. pc' = [pc EXCEPT ![o] =
            IF attempts[o] + 1 >= MaxAttempts(o) THEN "failed" ELSE "blockhash"]
      BY <1>2 DEF HandleAttempt, CountAttempt, GivesUp
    <3>3. CASE attempts[o] + 1 >= MaxAttempts(o) BY <3>2, <3>3
    <3>4. CASE ~(attempts[o] + 1 >= MaxAttempts(o))
      <4>1. \A a, b \in Nat : ~(a + 1 >= b) => a + 1 < b OBVIOUS
      <4>2. attempts[o] + 1 < MaxAttempts(o) BY <2>1, <3>1, <3>4, <4>1
      <4> QED BY Zenon, <3>2, <3>4, <4>2
    <3> QED BY <3>3, <3>4
  <2>4. TypeOK'
    <3>1. pc' \in [Orders -> Stage] BY <2>3
    <3>2. attempts' \in [Orders -> Nat] BY <2>1, <2>2
    <3>3. \A q \in Orders : attempts'[q] <= MaxAttempts(q) BY <2>1, <2>2
    <3> QED BY <1>0, <2>1, <3>1, <3>2, <3>3
  <2>5. Counted'
    <3>1. attempts'[o] = attempts[o] + 1 /\ cur[o] <= attempts[o] + 1 BY <1>2, <2>2
    <3>2. \A q \in Orders : q # o => pc'[q] = pc[q] /\ attempts'[q] = attempts[q] BY <2>2, <2>3
    <3>3. pc'[o] \in {"blockhash", "failed"}
          /\ (pc'[o] = "blockhash" => attempts'[o] < MaxAttempts(o)) BY <2>3, <3>1
    <3> QED BY <1>0, <1>2, <2>1, <3>1, <3>2, <3>3
  <2> QED BY <1>0, <2>4, <2>5
<1>3. CASE pc[o] = "confirm" /\ (Goto(o, "lookup") \/ Goto(o, "failed"))
  BY <1>0, <1>3
<1>4. CASE Lookup(o) BY <1>0, <1>4 DEF Lookup
<1>5. CASE LookupError(o)
  <2>0. pc[o] = "lookup" /\ attempts' = attempts BY <1>5 DEF LookupError
  <2>1. lookups[o] + 1 <= MaxRetries
    <3>1. lookups[o] < MaxRetries /\ lookups[o] \in 0..MaxRetries BY <2>0
    <3> QED BY <3>1
  <2>2. lookups' \in [Orders -> 0..MaxRetries] BY <1>5, <2>1 DEF LookupError
  <2>3. pc' \in [Orders -> Stage] BY <1>5 DEF LookupError
  <2>4. pc'[o] = "failed" \/ (pc'[o] = "lookup" /\ lookups'[o] < MaxRetries)
    BY <1>5, <2>0, <2>1 DEF LookupError, GivesUp
  <2>5. \A q \in Orders : q # o => pc'[q] = pc[q] /\ lookups'[q] = lookups[q]
    BY <1>5 DEF LookupError
  <2> QED BY <1>0, <2>0, <2>1, <2>2, <2>3, <2>4, <2>5
<1> QED BY <1>1, <1>2, <1>3, <1>4, <1>5 DEF Confirm, ConfirmError

\* They leave the transactions alone: only Confirm needs to have seen one land.
LEMMA ExecuteInv ==
  ASSUME Inv, NEW o \in Orders,
         Start(o) \/ GetBlockhash(o) \/ Build(o) \/ Confirm(o) \/ ConfirmError(o)
           \/ Lookup(o) \/ LookupError(o)
  PROVE  Inv'
<1>0. TypeOK' /\ Counted' /\ UNCHANGED <<cur, tx, account>> BY ExecuteTypes DEF Inv
<1>1. \A q \in Orders : Landed(q)' <=> Landed(q) BY <1>0 DEF Landed
<1>2. pc \in [Orders -> Stage] BY DEF Inv, TypeOK
<1>3. \A q \in Orders : q # o => pc'[q] = pc[q]
  BY <1>2 DEF Start, GetBlockhash, Build, Confirm, ConfirmError, Lookup, LookupError,
              HandleAttempt, CountAttempt, Goto
<1>4. pc'[o] \in {"lookup", "ok"} => Landed(o)
  <2>1. CASE pc[o] = "lookup" BY <2>1 DEF Inv, Broadcasts
  <2>2. CASE pc[o] # "lookup"
    <3>1. pc'[o] \in {"lookup", "ok"} => Confirm(o) /\ tx[o][cur[o]] = "landed"
      BY <1>2, <2>2 DEF Start, GetBlockhash, Build, Confirm, ConfirmError, Lookup, LookupError,
                        HandleAttempt, CountAttempt, Goto
    <3>2. Confirm(o) => cur[o] \in TxNo
      BY Limits DEF Inv, TypeOK, Counted, Confirm
    <3> QED BY <3>1, <3>2 DEF Landed
  <2> QED BY <2>1, <2>2
<1>5. Broadcasts'
  BY <1>0, <1>1, <1>3, <1>4 DEF Inv, Broadcasts
<1>6. pc[o] \notin {"ok", "failed"}
  BY DEF Start, GetBlockhash, Build, Confirm, ConfirmError, Lookup, LookupError
<1>7. \A s \in Sells : pc'[s] # "idle" => pc'[Buy] = "ok"
  <2> SUFFICES ASSUME NEW s \in Sells, pc'[s] # "idle" PROVE pc'[Buy] = "ok" OBVIOUS
  <2>1. CASE pc[s] # "idle" BY <1>3, <1>6, <2>1 DEF Inv, Position
  <2>2. CASE pc[s] = "idle"
    <3>1. o = s BY <1>3, <2>2
    <3>2. Start(o)
      BY <2>2, <3>1 DEF Start, GetBlockhash, Build, Confirm, ConfirmError, Lookup, LookupError
    <3> QED BY <1>3, <3>1, <3>2 DEF Start
  <2> QED BY <2>1, <2>2
<1>8. Position' BY <1>0, <1>1, <1>7 DEF Inv, Position
<1> QED BY <1>0, <1>5, <1>8 DEF Inv

\* A broadcast is a new transaction within the attempts, or the last one again, and it does
\* not undo what the chain decided.
LEMMA SendInv ==
  ASSUME Inv, NEW o \in Orders, Send(o)
  PROVE  Inv' /\ \A q \in Orders, n \in TxNo : tx'[q][n] = "landed" <=> tx[q][n] = "landed"
<1> USE Limits DEF Inv
<1>0. PICK n \in {cur[o], cur[o] + 1}, delivered \in BOOLEAN :
        /\ n = cur[o] => SameBlockhash(o)
        /\ Broadcast(o, n, delivered)
        /\ cur' = [cur EXCEPT ![o] = n]
        /\ \/ pc' = [pc EXCEPT ![o] = "confirm"] /\ UNCHANGED attempts
           \/ CountAttempt(o)
  BY Zenon DEF Send
<1>1. /\ n \in Nat /\ (n = cur[o] + 1 \/ (n = cur[o] /\ n # 0))
      /\ Broadcast(o, n, delivered)
      /\ cur' = [cur EXCEPT ![o] = n]
      /\ \/ pc' = [pc EXCEPT ![o] = "confirm"] /\ UNCHANGED attempts
         \/ CountAttempt(o)
  BY <1>0 DEF SameBlockhash, TypeOK
<1>2. pc[o] = "send" /\ UNCHANGED <<lookups, account>> BY DEF Send
<1>3. n \in 1..(attempts[o] + 1) /\ n <= MaxAttempts(o) /\ n \in TxNo
  <2>1. cur[o] \in Nat /\ attempts[o] \in Nat BY DEF TypeOK
  <2>2. cur[o] <= attempts[o] /\ attempts[o] < MaxAttempts(o) BY <1>2 DEF Counted
  <2> QED BY <1>1, <2>1, <2>2
<1>4. TypeOK'
  <2>1. pc' \in [Orders -> Stage] BY <1>1 DEF TypeOK, Stage, CountAttempt
  <2>2. cur' \in [Orders -> Nat] BY <1>1 DEF TypeOK
  <2>5. attempts' \in [Orders -> Nat] BY <1>1 DEF TypeOK, CountAttempt
  <2>3. \A q \in Orders : attempts'[q] <= MaxAttempts(q) /\ cur'[q] <= MaxAttempts(q)
    BY <1>1, <1>2, <1>3 DEF TypeOK, CountAttempt, Counted
  <2>4. tx' \in [Orders -> [TxNo -> TxState]] BY <1>1 DEF TypeOK, Broadcast, TxState
  <2> QED BY <1>2, <2>1, <2>2, <2>3, <2>4, <2>5 DEF TypeOK
<1>5. \A q \in Orders, m \in TxNo :
        /\ tx'[q][m] = "landed" <=> tx[q][m] = "landed"
        /\ tx'[q][m] # tx[q][m] => q = o /\ m = n
  BY <1>1, <1>3 DEF TypeOK, Broadcast
<1>6. /\ pc'[o] \in {"confirm", "blockhash", "failed"} /\ cur'[o] = n
      /\ \A q \in Orders : q # o =>
           pc'[q] = pc[q] /\ attempts'[q] = attempts[q] /\ cur'[q] = cur[q]
  BY <1>1 DEF TypeOK, CountAttempt
<1>7. Counted'
  <2>1. CASE pc' = [pc EXCEPT ![o] = "confirm"] /\ UNCHANGED attempts
    BY <1>2, <1>3, <1>6, <2>1 DEF TypeOK, Counted
  <2>2. CASE CountAttempt(o)
    <3>1. attempts'[o] = attempts[o] + 1 /\ attempts[o] \in Nat BY <2>2 DEF TypeOK, CountAttempt
    <3>2. pc'[o] = "blockhash" => attempts'[o] < MaxAttempts(o)
      BY <2>2, <3>1 DEF TypeOK, CountAttempt, GivesUp
    <3>3. pc'[o] \in {"blockhash", "failed"} BY <2>2 DEF TypeOK, CountAttempt
    <3> QED BY <1>2, <1>3, <1>6, <3>1, <3>2, <3>3 DEF Counted
  <2> QED BY <1>1, <2>1, <2>2
<1>8. \A q \in Orders : Landed(q)' <=> Landed(q) BY <1>5 DEF Landed
<1>9. Broadcasts'
  <2>1. cur[o] <= n BY <1>1 DEF TypeOK
  <2>2. \A q \in Orders, m \in TxNo : tx'[q][m] # "none" => m <= cur'[q]
    <3> SUFFICES ASSUME NEW q \in Orders, NEW m \in TxNo, tx'[q][m] # "none"
                 PROVE  m <= cur'[q]
      OBVIOUS
    <3>1. CASE q = o /\ m = n BY <1>3, <1>6, <3>1
    <3>2. CASE q # o BY <1>5, <1>6, <3>2 DEF Broadcasts
    <3>3. CASE q = o /\ m # n
      <4>1. m <= cur[o] BY <1>5, <3>3 DEF Broadcasts
      <4> QED BY <1>3, <1>6, <2>1, <3>3, <4>1 DEF TypeOK
    <3> QED BY <3>1, <3>2, <3>3
  <2> QED BY <1>6, <1>8, <2>2 DEF Broadcasts
<1>10. Position' BY <1>2, <1>6, <1>8 DEF Position
<1> QED BY <1>4, <1>5, <1>7, <1>9, <1>10

(***************************************************************************)
(* The chain                                                               *)
(***************************************************************************)

\* What the chain does to a transaction leaves the executions alone.
LEMMA ChainFrame ==
  ASSUME Inv, NEW o \in Orders, NEW n \in TxNo, NEW st \in TxState \ {"none"},
         tx[o][n] \in {"lost", "flight"}, tx' = [tx EXCEPT ![o][n] = st],
         account' \in BOOLEAN, UNCHANGED execVars
  PROVE  TypeOK' /\ Counted' /\ Broadcasts'
<1> USE DEF execVars
<1>1. tx \in [Orders -> [TxNo -> TxState]] BY DEF Inv, TypeOK
<1>2. tx' \in [Orders -> [TxNo -> TxState]] BY <1>1
<1>3. TypeOK' BY <1>2 DEF Inv, TypeOK
<1>4. Counted' BY DEF Inv, Counted
<1>5. \A q \in Orders, m \in TxNo : tx'[q][m] # tx[q][m] => q = o /\ m = n BY <1>1
<1>6. \A q \in Orders : Landed(q) => Landed(q)' BY <1>5 DEF Landed
<1>7. n <= cur[o] BY DEF Inv, Broadcasts
<1>8. Broadcasts' BY <1>5, <1>6, <1>7 DEF Inv, Broadcasts
<1> QED BY <1>3, <1>4, <1>8

\* A swap lands only when Swap allows it.
LEMMA LandInv ==
  ASSUME Inv, NEW o \in Orders, NEW n \in TxNo, Land(o, n)
  PROVE  /\ Inv'
         /\ IF o = Buy THEN ~Landed(Buy) ELSE Landed(Buy) /\ \A s \in Sells : ~Landed(s)
<1>1. tx \in [Orders -> [TxNo -> TxState]] BY DEF Inv, TypeOK
<1>2. tx' = [tx EXCEPT ![o][n] = "landed"] /\ tx[o][n] = "flight" BY DEF Land
<1>3. TypeOK' /\ Counted' /\ Broadcasts'
  BY <1>2, ChainFrame DEF Land, TxState
<1>4. Landed(o)' BY <1>1, <1>2 DEF Landed
<1>5. \A q \in Orders : q # o => (Landed(q)' <=> Landed(q)) BY <1>1, <1>2 DEF Landed
<1>6. UNCHANGED pc BY DEF Land, execVars
<1>7. CASE o = Buy
  <2>1. n = 1 /\ \A m \in TxNo : tx[o][m] # "none" => m = 1
    <3>1. cur[Buy] \in Nat /\ cur[Buy] <= 1 BY <1>7 DEF Inv, TypeOK, MaxAttempts
    <3>2. \A m \in TxNo : tx[Buy][m] # "none" => m <= cur[Buy] BY <1>7 DEF Inv, Broadcasts
    <3>3. \A m \in TxNo : m \in Nat \ {0} OBVIOUS
    <3> QED BY <1>2, <1>7, <3>1, <3>2, <3>3
  <2>2. ~Landed(Buy) BY <1>2, <1>7, <2>1 DEF Landed
  <2>3. account' = TRUE BY <1>7 DEF Land
  <2>4. \A s \in Sells : ~Landed(s) BY <2>2 DEF Inv, Position
  <2>5. \A s \in Sells : s # o /\ ~Landed(s)' BY <1>5, <1>7, <2>4
  <2>6. Position' BY <1>4, <1>6, <1>7, <2>3, <2>5 DEF Inv, Position
  <2> QED BY <1>3, <1>7, <2>2, <2>6 DEF Inv
<1>8. CASE o # Buy
  <2>1. account /\ o \in Sells BY <1>8 DEF Land, CanLand
  <2>2. Landed(Buy) /\ \A s \in Sells : ~Landed(s) BY <2>1 DEF Inv, Position
  <2>3. account' = FALSE BY <1>8 DEF Land
  <2>4. Landed(Buy)' BY <1>5, <1>8, <2>2
  <2>5. Position' BY <1>4, <1>6, <2>1, <2>3, <2>4 DEF Inv, Position
  <2> QED BY <1>3, <1>8, <2>2, <2>5 DEF Inv
<1> QED BY <1>7, <1>8

\* A rejection or an expiry leaves what landed.
LEMMA DropInv ==
  ASSUME Inv, NEW o \in Orders, NEW n \in TxNo, Reject(o, n) \/ Expire(o, n)
  PROVE  Inv' /\ \A q \in Orders, m \in TxNo : tx'[q][m] = "landed" <=> tx[q][m] = "landed"
<1>1. tx \in [Orders -> [TxNo -> TxState]] /\ account \in BOOLEAN BY DEF Inv, TypeOK
<1>2. PICK st \in {"rejected", "expired"} : tx' = [tx EXCEPT ![o][n] = st]
  BY DEF Reject, Expire
<1>3. UNCHANGED <<execVars, account>> /\ tx[o][n] \in {"lost", "flight"} BY DEF Reject, Expire
<1>4. TypeOK' /\ Counted' /\ Broadcasts' BY <1>1, <1>2, <1>3, ChainFrame DEF TxState
<1>5. \A q \in Orders, m \in TxNo : tx'[q][m] = "landed" <=> tx[q][m] = "landed"
  BY <1>1, <1>2, <1>3
<1>6. \A q \in Orders : Landed(q)' <=> Landed(q) BY <1>5 DEF Landed
<1>7. Position' BY <1>3, <1>6 DEF Inv, Position, execVars
<1> QED BY <1>4, <1>5, <1>7 DEF Inv

(***************************************************************************)
(* The theorems                                                            *)
(***************************************************************************)

\* The attempts, the transactions and the position of an order, in every state.
THEOREM InvKept == Spec => []Inv
<1>1. Inv /\ [Next]_vars => Inv'
  <2> SUFFICES ASSUME Inv, [Next]_vars PROVE Inv' OBVIOUS
  <2>1. CASE UNCHANGED vars
    BY <2>1 DEF vars, Inv, TypeOK, Counted, Broadcasts, Position, Landed
  <2>2. ASSUME NEW o \in Orders, Execute(o) PROVE Inv'
    BY <2>2, ExecuteInv, SendInv DEF Execute
  <2>3. ASSUME NEW o \in Orders, Chain(o) PROVE Inv'
    BY <2>3, LandInv, DropInv DEF Chain
  <2> QED BY <2>1, <2>2, <2>3 DEF Next
<1> QED BY <1>1, InitInv, PTL DEF Spec

\* The counters of an execution stay within their limits.
THEOREM ExecutionTypes == Spec => []TypeOK
BY InvKept, PTL DEF Inv

\* A step that changes no landed swap and no result is a stutter of Swap.
LEMMA SwapStutter ==
  ASSUME Inv, \A q \in Orders, m \in TxNo : tx'[q][m] = "landed" <=> tx[q][m] = "landed",
         \A q \in Orders : ResultOf(q)' = ResultOf(q)
  PROVE  UNCHANGED S!vars
<1>1. Swaps' = Swaps BY DEF Swaps
<1>2. Results' = Results BY DEF Results
<1> QED BY <1>1, <1>2 DEF S!vars

LEMMA SwappedIsLanded == \A o \in Orders : S!Swapped(o) <=> Landed(o)
<1> TAKE o \in Orders
<1>1. ASSUME S!Swapped(o) PROVE Landed(o)
  BY <1>1 DEF S!Swapped, Swaps, Landed
<1>2. ASSUME Landed(o) PROVE S!Swapped(o)
  <2>1. PICK n \in TxNo : tx[o][n] = "landed" BY <1>2 DEF Landed
  <2>2. <<o, n>> \in Swaps /\ <<o, n>>[1] = o BY <2>1 DEF Swaps
  <2> QED BY <2>2 DEF S!Swapped
<1> QED BY <1>1, <1>2

\* A landing is one swap more, allowed by Swap.
LEMMA LandImplements ==
  ASSUME Inv, NEW o \in Orders, NEW n \in TxNo, Land(o, n)
  PROVE  S!Land(o)
<1> DEFINE s == <<o, n>>
<1>1. tx \in [Orders -> [TxNo -> TxState]] BY DEF Inv, TypeOK
<1>2. tx' = [tx EXCEPT ![o][n] = "landed"] /\ tx[o][n] = "flight" /\ pc' = pc
  BY DEF Land, execVars
<1>3. \A q \in Orders, m \in TxNo :
        tx'[q][m] = "landed" <=> (tx[q][m] = "landed" \/ (q = o /\ m = n))
  BY <1>1, <1>2
<1>4. Swaps' = Swaps \cup {s}
  BY <1>3 DEF Swaps
<1>5. s \in Swaps' /\ s \notin Swaps /\ s[1] = o BY <1>2, <1>4 DEF Swaps
<1>6. UNCHANGED Results BY <1>2 DEF Results, ResultOf
<1>7. S!CanSwap(o) BY LandInv, SwappedIsLanded DEF S!CanSwap
<1> HIDE DEF s
<1> QED BY <1>4, <1>5, <1>6, <1>7 DEF S!Land

\* A step of an execution ends it with a report that Swap allows, or shows nothing.
LEMMA ExecuteImplements ==
  ASSUME Inv, NEW o \in Orders, Execute(o)
  PROVE  [S!Next]_S!vars
<1>1. Inv' BY ExecuteInv, SendInv DEF Execute
<1>2. \A q \in Orders, m \in TxNo : tx'[q][m] = "landed" <=> tx[q][m] = "landed"
  BY ExecuteTypes, SendInv DEF Execute, Inv
<1>3. Swaps' = Swaps BY <1>2 DEF Swaps
<1>4. pc \in [Orders -> Stage] /\ pc' \in [Orders -> Stage] BY <1>1 DEF Inv, TypeOK
<1>5. pc[o] \notin {"ok", "failed"} /\ \A q \in Orders : q # o => pc'[q] = pc[q]
  BY <1>4 DEF Execute, Start, GetBlockhash, Build, Send, Confirm, ConfirmError, Lookup,
              LookupError, HandleAttempt, CountAttempt, Goto
<1>6. CASE pc'[o] \notin {"ok", "failed"}
  <2>1. \A q \in Orders : ResultOf(q)' = ResultOf(q) BY <1>5, <1>6 DEF ResultOf
  <2> QED BY <1>2, <2>1, SwapStutter
<1>7. CASE pc'[o] \in {"ok", "failed"}
  <2>1. Results[o] = "running" BY <1>5 DEF Results, ResultOf
  <2>2. Results' = [Results EXCEPT ![o] = pc'[o]]
    BY <1>5, <1>7 DEF Results, ResultOf
  <2>3. pc[o] # "idle"
    BY <1>4, <1>7 DEF Execute, Start, GetBlockhash, Build, Send, Confirm, ConfirmError, Lookup,
                      LookupError, Goto
  <2>4. o = Buy \/ Results[Buy] = "ok" BY <2>3 DEF Inv, Position, Results, ResultOf
  <2>5. S!Ends(o, pc'[o]) BY <1>3, <2>1, <2>2, <2>4 DEF S!Ends
  <2>6. CASE pc'[o] = "failed" BY <2>5, <2>6 DEF S!Fail, S!Next, S!Orders
  <2>7. CASE pc'[o] = "ok"
    <3>1. Landed(o)' BY <1>1, <2>7 DEF Inv, Broadcasts
    <3>2. S!Swapped(o) BY <1>2, <3>1, SwappedIsLanded DEF Landed
    <3> QED BY <2>5, <2>7, <3>2 DEF S!Succeed, S!Next, S!Orders
  <2> QED BY <1>7, <2>6, <2>7
<1> QED BY <1>6, <1>7

\* An order's execution implements Swap: bought once, sold once, and executed only if swapped,
\* whatever is resent, lost, late or rejected.
THEOREM ExecuteImplementsSwap == Spec => ImplementsSwap
<1>1. Init => S!Init
  <2> SUFFICES ASSUME Init PROVE S!Init OBVIOUS
  <2>1. Swaps = {} BY DEF Init, Swaps
  <2>2. Results = [o \in S!Orders |-> "running"] BY DEF Init, Results, ResultOf, S!Orders
  <2> QED BY <2>1, <2>2 DEF S!Init
<1>2. Inv /\ [Next]_vars => [S!Next]_S!vars
  <2> SUFFICES ASSUME Inv, [Next]_vars PROVE [S!Next]_S!vars OBVIOUS
  <2>1. CASE UNCHANGED vars BY <2>1, SwapStutter DEF vars, ResultOf
  <2>2. ASSUME NEW o \in Orders, Execute(o) PROVE [S!Next]_S!vars
    BY <2>2, ExecuteImplements
  <2>3. ASSUME NEW o \in Orders, NEW n \in TxNo, Land(o, n) PROVE [S!Next]_S!vars
    BY <2>3, LandImplements DEF S!Next, S!Orders
  <2>4. ASSUME NEW o \in Orders, NEW n \in TxNo, Reject(o, n) \/ Expire(o, n)
        PROVE  [S!Next]_S!vars
    <3>1. UNCHANGED pc BY <2>4 DEF Reject, Expire, execVars
    <3> QED BY <2>4, <3>1, DropInv, SwapStutter DEF ResultOf
  <2> QED BY <2>1, <2>2, <2>3, <2>4 DEF Next, Chain
<1> QED BY <1>1, <1>2, InvKept, PTL DEF Spec, ImplementsSwap, S!Spec
=============================================================================
