---------------------------- MODULE MonitorProofs ----------------------------
(***************************************************************************)
(* Theorems about the market monitor, for any number of trades and pools   *)
(* and any capacities of its channels.                                     *)
(***************************************************************************)
EXTENDS Monitor, SequenceTheorems, TLAPS

(***************************************************************************)
(* Channels                                                                *)
(***************************************************************************)

\* What was sent is kept, and the new message comes last.
LEMMA PutIntoChannel ==
  ASSUME NEW S, NEW c \in Channel(S), NEW x \in S
  PROVE  /\ Put(c, x) \in Channel(S)
         /\ Len(c.log) \in Nat /\ Len(Put(c, x).log) = Len(c.log) + 1
         /\ \A i \in 1..Len(c.log) : Put(c, x).log[i] = c.log[i] /\ c.log[i] \in S
         /\ Put(c, x).log[Len(c.log) + 1] = x
<1>1. c.log \in Seq(S) /\ c.read \in Nat /\ c.read <= Len(c.log) BY DEF Channel
<1>2. Put(c, x) = [log |-> Append(c.log, x), read |-> c.read] BY DEF Put, Channel
<1>3. /\ Append(c.log, x) \in Seq(S)
      /\ Len(c.log) \in Nat /\ Len(Append(c.log, x)) = Len(c.log) + 1
      /\ \A i \in 1..Len(c.log) : Append(c.log, x)[i] = c.log[i] /\ c.log[i] \in S
      /\ Append(c.log, x)[Len(c.log) + 1] = x
  BY <1>1, ElementOfSeq
<1> QED BY <1>1, <1>2, <1>3 DEF Channel

\* The next message of a channel was sent, and reading it changes nothing else.
LEMMA ReadFromChannel ==
  ASSUME NEW S, NEW c \in Channel(S), Ready(c)
  PROVE  /\ ReadOn(c) \in Channel(S)
         /\ ReadOn(c).log = c.log
         /\ Next1(c) \in S
         /\ \E i \in 1..Len(c.log) : Next1(c) = c.log[i]
<1>1. c.log \in Seq(S) /\ c.read \in Nat /\ c.read + 1 \in 1..Len(c.log)
  BY DEF Channel, Ready
<1>2. ReadOn(c) = [log |-> c.log, read |-> c.read + 1] BY DEF Channel, ReadOn
<1> QED BY <1>1, <1>2, ElementOfSeq DEF Channel, Next1

LEMMA EmptyChannel ==
  ASSUME NEW S
  PROVE  NewChannel \in Channel(S) /\ Len(NewChannel.log) = 0
BY EmptySeq DEF NewChannel, Channel

\* A task that goes on to the reserves.
LEMMA BeginStep ==
  ASSUME NEW k \in Task, Len(prices.log) \in Nat
  PROVE  /\ Begin(k) \in Task
         /\ Begin(k).begun = Len(prices.log) /\ Begin(k).pc = "fetch"
         /\ Begin(k).pool = k.pool /\ Begin(k).of = k.of /\ Begin(k).got = k.got
<1>1. PICK p \in Pool, u \in Nat, f \in [Vault -> Nat], g \in SUBSET Vault, b \in Nat,
           c \in {"check", "fetch"} :
        k = [pool |-> p, update |-> u, of |-> f, got |-> g, begun |-> b, pc |-> c]
  BY DEF Task
<1> DEFINE l == Len(prices.log)
<1>2. [k EXCEPT !.begun = l]
      = [pool |-> p, update |-> u, of |-> f, got |-> g, begun |-> l, pc |-> c]
  BY <1>1
<1>3. [[pool |-> p, update |-> u, of |-> f, got |-> g, begun |-> l, pc |-> c]
         EXCEPT !.pc = "fetch"]
      = [pool |-> p, update |-> u, of |-> f, got |-> g, begun |-> l, pc |-> "fetch"]
  OBVIOUS
<1>4. Begin(k) = [[k EXCEPT !.begun = l] EXCEPT !.pc = "fetch"] BY DEF Begin
<1>5. Begin(k) = [pool |-> p, update |-> u, of |-> f, got |-> g, begun |-> l, pc |-> "fetch"]
  BY <1>2, <1>3, <1>4, Zenon
<1> QED BY <1>1, <1>5 DEF Task

\* A task that has got one more balance.
LEMMA FetchStep ==
  ASSUME NEW k \in Task, NEW v \in Vault, Reserves(k) \in Nat
  PROVE  /\ Fetch(k, v) \in Task
         /\ Fetch(k, v).begun = k.begun /\ Fetch(k, v).pool = k.pool /\ Fetch(k, v).pc = k.pc
         /\ Fetch(k, v).of = [k.of EXCEPT ![v] = Reserves(k)]
         /\ Fetch(k, v).got = k.got \cup {v}
<1>1. PICK p \in Pool, u \in Nat, f \in [Vault -> Nat], g \in SUBSET Vault, b \in Nat,
           c \in {"check", "fetch"} :
        k = [pool |-> p, update |-> u, of |-> f, got |-> g, begun |-> b, pc |-> c]
  BY DEF Task
<1> DEFINE h == [f EXCEPT ![v] = Reserves(k)]
           e == g \cup {v}
<1>2. h \in [Vault -> Nat] /\ e \in SUBSET Vault OBVIOUS
<1>3. k.of = f /\ k.got = g BY <1>1
<1>4. Fetch(k, v) = [[k EXCEPT !.of = h] EXCEPT !.got = e] BY <1>3 DEF Fetch
<1> HIDE DEF h, e
<1>5. [k EXCEPT !.of = h]
      = [pool |-> p, update |-> u, of |-> h, got |-> g, begun |-> b, pc |-> c]
  BY <1>1
<1>6. [[pool |-> p, update |-> u, of |-> h, got |-> g, begun |-> b, pc |-> c] EXCEPT !.got = e]
      = [pool |-> p, update |-> u, of |-> h, got |-> e, begun |-> b, pc |-> c]
  OBVIOUS
<1>7. Fetch(k, v) = [pool |-> p, update |-> u, of |-> h, got |-> e, begun |-> b, pc |-> c]
  BY <1>4, <1>5, <1>6, Zenon
<1>8. Fetch(k, v) \in Task BY <1>2, <1>7 DEF Task
<1>9. /\ Fetch(k, v).begun = k.begun /\ Fetch(k, v).pool = k.pool /\ Fetch(k, v).pc = k.pc
      /\ Fetch(k, v).of = h /\ Fetch(k, v).got = e
  BY <1>1, <1>7
<1> QED BY <1>3, <1>8, <1>9 DEF h, e

\* A new task has nothing yet.
LEMMA NewTaskTyped ==
  ASSUME NEW p \in Pool, NEW n \in Nat
  PROVE  NewTask(p, n) \in Task /\ NewTask(p, n).begun = 0 /\ NewTask(p, n).got = {}
<1>1. [v \in Vault |-> 0] \in [Vault -> Nat] OBVIOUS
<1> QED BY <1>1 DEF NewTask, Task

(***************************************************************************)
(* Type correctness                                                        *)
(***************************************************************************)

\* A loop that is still trying has attempts left.
Trying == pc \in {"off", "connect", "up"} => attempts < MaxAttempts

WatchTyped == WatchTypeOK /\ Trying

LEMMA InitWatchTyped == Init => WatchTyped
<1> SUFFICES ASSUME Init PROVE WatchTyped OBVIOUS
<1>1. active \subseteq Trade /\ PoolsOf(active) \subseteq Pool
  BY MonitorAssumption DEF Init, PoolsOf
<1>2. adds \in Channel(Pool) /\ removals \in Channel(Pool) /\ prices \in Channel(Price)
  BY EmptyChannel DEF Init
<1>3. state \in [Pool -> Nat] /\ \A p \in Pool : state[p] <= MaxUpdates[p]
  BY MonitorAssumption DEF Init
<1>4. attempts \in 0..MaxAttempts /\ Trying BY MonitorAssumption DEF Init, Trying
<1> QED BY <1>1, <1>2, <1>3, <1>4 DEF Init, WatchTyped, WatchTypeOK

\* A failed attempt leaves the counter in its range, and the loop stops at the limit.
LEMMA FailedAttemptTyped ==
  ASSUME WatchTyped, pc \in {"connect", "up"}, FailedAttempt
  PROVE  /\ attempts' \in 0..MaxAttempts
         /\ pc' \in {"connect", "done"} /\ cancelled' \in BOOLEAN
         /\ Trying'
<1>1. attempts \in Nat /\ attempts < MaxAttempts /\ MaxAttempts \in Nat
  BY MonitorAssumption DEF WatchTyped, WatchTypeOK, Trying
<1>2. cancelled' \in BOOLEAN BY DEF WatchTyped, WatchTypeOK, FailedAttempt
<1>3. CASE GivesUp BY <1>1, <1>2, <1>3 DEF FailedAttempt, Trying, GivesUp
<1>4. CASE ~GivesUp BY <1>1, <1>2, <1>4 DEF FailedAttempt, Trying, GivesUp
<1> QED BY <1>3, <1>4

LEMMA BeginFetchTyped ==
  ASSUME WatchTypeOK, NEW k \in tasks
  PROVE  /\ k \in Task /\ Len(prices.log) \in Nat /\ Reserves(k) \in Nat
         /\ Begin(k) \in Task /\ \A v \in Vault : Fetch(k, v) \in Task
<1>1. k \in Task BY DEF WatchTypeOK
<1>2. k.pool \in Pool BY <1>1 DEF Task
<1>3. Len(prices.log) \in Nat BY DEF WatchTypeOK, Channel
<1>4. Reserves(k) \in Nat BY <1>2 DEF WatchTypeOK, Reserves
<1> QED BY <1>1, <1>3, <1>4, BeginStep, FetchStep

LEMMA NextWatchTyped == WatchTyped /\ [Next]_vars => WatchTyped'
<1> SUFFICES ASSUME WatchTyped, [Next]_vars PROVE WatchTyped' OBVIOUS
<1> USE DEF WatchTyped
<1>1. ASSUME NEW p \in Pool, AddInitial(p) PROVE WatchTyped'
  <2>1. CASE AddToWatchlist(p) /\ starting' = starting \ {p} /\ UNCHANGED loopVars
    BY <1>1, <2>1, PutIntoChannel
    DEF AddInitial, AddToWatchlist, WatchTypeOK, Trying, loopVars, priceVars
  <2>2. CASE starting' = starting \ {p} /\ UNCHANGED <<watchVars, loopVars>>
    BY <1>1, <2>2 DEF AddInitial, WatchTypeOK, Trying, watchVars, loopVars, priceVars
  <2>3. CASE pc' = "panic" /\ UNCHANGED <<starting, watchVars, attempts, cancelled>>
    BY <1>1, <2>3 DEF AddInitial, WatchTypeOK, Trying, watchVars, priceVars
  <2> QED BY <1>1, <2>1, <2>2, <2>3 DEF AddInitial
<1>2. ASSUME NEW p \in Pool, Update(p) PROVE WatchTyped'
  <2>1. state' \in [Pool -> Nat] /\ \A q \in Pool : state'[q] <= MaxUpdates[q]
    <3>1. state' = [state EXCEPT ![p] = @ + 1] /\ state[p] < MaxUpdates[p] BY <1>2 DEF Update
    <3>2. MaxUpdates \in [Pool -> Nat] BY MonitorAssumption
    <3>3. state \in [Pool -> Nat] /\ \A q \in Pool : state[q] <= MaxUpdates[q]
      BY DEF WatchTypeOK
    <3>4. state' \in [Pool -> Nat] BY <3>1, <3>3
    <3>5. ASSUME NEW q \in Pool PROVE state'[q] <= MaxUpdates[q]
      <4>1. CASE q = p BY <3>1, <3>2, <3>3, <4>1
      <4>2. CASE q # p BY <3>1, <3>3, <4>2
      <4> QED BY <4>1, <4>2
    <3> QED BY <3>4, <3>5
  <2>2. tasks' \subseteq Task
    BY <1>2, <2>1, NewTaskTyped DEF Update, WatchTypeOK
  <2> QED BY <1>2, <2>1, <2>2
      DEF Update, WatchTypeOK, Trying, traderVars, watchVars, loopVars
<1>3. ASSUME NEW p \in Pool, ExpirePrice(p) PROVE WatchTyped'
  BY <1>3 DEF ExpirePrice, WatchTypeOK, Trying, traderVars, watchVars, loopVars
<1>4. ASSUME StartMonitor PROVE WatchTyped'
  BY <1>4 DEF StartMonitor, WatchTypeOK, Trying, traderVars, watchVars, priceVars
<1>5. ASSUME NEW t \in Trade, Insert(t) PROVE WatchTyped'
  BY <1>5 DEF Insert, WatchTypeOK, Trying, watchVars, loopVars, priceVars
<1>6. ASSUME NEW t \in Trade, ConfirmBuy(t) PROVE WatchTyped'
  BY <1>6 DEF ConfirmBuy, WatchTypeOK, Trying, watchVars, loopVars, priceVars
<1>7. ASSUME NEW t \in Trade, AddAfterBuy(t) PROVE WatchTyped'
  <2>1. PoolOf[t] \in Pool BY MonitorAssumption
  <2> QED BY <1>7, <2>1, PutIntoChannel
      DEF AddAfterBuy, AddToWatchlist, WatchTypeOK, Trying, loopVars, priceVars
<1>8. ASSUME NEW t \in Trade, SkipAdd(t) PROVE WatchTyped'
  BY <1>8 DEF SkipAdd, WatchTypeOK, Trying, watchVars, loopVars, priceVars
<1>9. ASSUME NEW t \in Trade, Sell(t) \/ FailTrade(t) PROVE WatchTyped'
  <2>1. PICK f \in BOOLEAN : TakeOut(t, f) BY <1>9 DEF Sell, FailTrade
  <2>2. leaving' \subseteq [trade : Trade, last : BOOLEAN, failed : BOOLEAN]
    <3> DEFINE last == Vec(PoolOf[t]) = {t}
    <3>1. leaving' = leaving \cup {[trade |-> t, last |-> last, failed |-> f]}
      BY <2>1 DEF TakeOut
    <3>2. CASE last
      <4>1. leaving' = leaving \cup {[trade |-> t, last |-> TRUE, failed |-> f]}
        BY <3>1, <3>2
      <4>2. [trade |-> t, last |-> TRUE, failed |-> f]
              \in [trade : Trade, last : BOOLEAN, failed : BOOLEAN]
        OBVIOUS
      <4>3. leaving \subseteq [trade : Trade, last : BOOLEAN, failed : BOOLEAN]
        BY DEF WatchTypeOK
      <4> HIDE DEF last
      <4> QED BY <4>1, <4>2, <4>3
    <3>3. CASE ~last
      <4>1. leaving' = leaving \cup {[trade |-> t, last |-> FALSE, failed |-> f]}
        BY <3>1, <3>3
      <4>2. [trade |-> t, last |-> FALSE, failed |-> f]
              \in [trade : Trade, last : BOOLEAN, failed : BOOLEAN]
        OBVIOUS
      <4>3. leaving \subseteq [trade : Trade, last : BOOLEAN, failed : BOOLEAN]
        BY DEF WatchTypeOK
      <4> HIDE DEF last
      <4> QED BY <4>1, <4>2, <4>3
    <3> QED BY <3>2, <3>3
  <2> QED BY <2>1, <2>2
      DEF TakeOut, WatchTypeOK, Trying, watchVars, loopVars, priceVars
<1>10. ASSUME NEW l \in leaving, LeavePool(l) PROVE WatchTyped'
  <2>1. PoolOf[l.trade] \in Pool BY MonitorAssumption DEF WatchTypeOK
  <2>2. active' \subseteq Trade /\ leaving' \subseteq leaving
    BY <1>10 DEF LeavePool, WatchTypeOK
  <2>3. CASE Removes(l)
    BY <1>10, <2>1, <2>2, <2>3, PutIntoChannel
    DEF LeavePool, RemoveFromWatchlist, WatchTypeOK, Trying, loopVars, priceVars
  <2>4. CASE ~Removes(l)
    BY <1>10, <2>2, <2>4 DEF LeavePool, WatchTypeOK, Trying, watchVars, loopVars, priceVars
  <2> QED BY <2>3, <2>4
<1>11. ASSUME AddLoop PROVE WatchTyped'
  <2>1. adds' \in Channel(Pool) /\ watchlist' \subseteq Pool /\ adder' \in BOOLEAN
    BY <1>11, ReadFromChannel DEF AddLoop, InsertPool, WatchTypeOK
  <2> QED BY <1>11, <2>1 DEF AddLoop, WatchTypeOK, Trying, traderVars, loopVars, priceVars
<1>12. ASSUME RemoveLoop PROVE WatchTyped'
  <2>1. removals' \in Channel(Pool) /\ watchlist' \subseteq Pool /\ remover' \in BOOLEAN
    BY <1>12, ReadFromChannel DEF RemoveLoop, WatchTypeOK
  <2> QED BY <1>12, <2>1 DEF RemoveLoop, WatchTypeOK, Trying, traderVars, loopVars, priceVars
<1>13. ASSUME Subscribe PROVE WatchTyped'
  <2>1. CASE pc' = "up" /\ attempts' = 0 /\ UNCHANGED cancelled
    BY <1>13, <2>1, MonitorAssumption
    DEF Subscribe, WatchTypeOK, Trying, traderVars, watchVars, priceVars
  <2>2. CASE FailedAttempt
    BY <1>13, <2>2, FailedAttemptTyped
    DEF Subscribe, WatchTypeOK, traderVars, watchVars, priceVars
  <2> QED BY <1>13, <2>1, <2>2 DEF Subscribe
<1>14. ASSUME StreamEnds PROVE WatchTyped'
  BY <1>14, FailedAttemptTyped
  DEF StreamEnds, WatchTypeOK, traderVars, watchVars, priceVars
<1>15. ASSUME Unsubscribe \/ Cancel PROVE WatchTyped'
  BY <1>15 DEF Unsubscribe, Cancel, WatchTypeOK, Trying, traderVars, watchVars, priceVars
<1>21. ASSUME ExecutorStops PROVE WatchTyped'
  BY <1>21 DEF ExecutorStops, WatchTypeOK, Trying, watchVars, loopVars, priceVars
<1>16. ASSUME NEW k \in tasks, CheckWatched(k) PROVE WatchTyped'
  <2>1. Begin(k) \in Task BY BeginFetchTyped
  <2>2. tasks' \subseteq Task
    BY <1>16, <2>1 DEF CheckWatched, TaskEnds, TaskGoes, WatchTypeOK
  <2> QED BY <1>16, <2>2 DEF CheckWatched, WatchTypeOK, Trying, traderVars, watchVars, loopVars
<1>17. ASSUME NEW k \in tasks, FetchReserves(k) PROVE WatchTyped'
  <2>1. \A v \in Vault : Fetch(k, v) \in Task BY BeginFetchTyped
  <2>2. tasks' \subseteq Task
    BY <1>17, <2>1 DEF FetchReserves, TaskEnds, TaskGoes, WatchTypeOK
  <2> QED BY <1>17, <2>2 DEF FetchReserves, WatchTypeOK, Trying, traderVars, watchVars, loopVars
<1>18. ASSUME NEW k \in tasks, SendPrice(k) PROVE WatchTyped'
  <2>1. [pool |-> k.pool, of |-> k.of, begun |-> k.begun] \in Price /\ k.pool \in Pool
    BY DEF WatchTypeOK, Task, Price
  <2>2. prices' \in Channel(Price) /\ cached' \subseteq Pool
    BY <1>18, <2>1, PutIntoChannel DEF SendPrice, WatchTypeOK
  <2> QED BY <1>18, <2>2
      DEF SendPrice, TaskEnds, WatchTypeOK, Trying, traderVars, watchVars, loopVars
<1>19. ASSUME TakePrice PROVE WatchTyped'
  <2>1. prices' \in Channel(Price) /\ seller' \in BOOLEAN
    BY <1>19, ReadFromChannel DEF TakePrice, WatchTypeOK
  <2> QED BY <1>19, <2>1 DEF TakePrice, WatchTypeOK, Trying, traderVars, watchVars, loopVars
<1>20. ASSUME UNCHANGED vars PROVE WatchTyped'
  BY <1>20 DEF vars, traderVars, watchVars, loopVars, priceVars, WatchTypeOK, Trying
<1> QED BY <1>1, <1>2, <1>3, <1>4, <1>5, <1>6, <1>7, <1>8, <1>9, <1>10, <1>11, <1>12, <1>13,
           <1>14, <1>15, <1>16, <1>17, <1>18, <1>19, <1>20, <1>21 DEF Next, TaskStep

\* Every variable keeps its type, and a loop that gives up has used its attempts
\* (monitor.rs:209-292, 307-441).
THEOREM WatchTypeCorrect == Spec => []WatchTypeOK
<1>1. Spec => []WatchTyped BY InitWatchTyped, NextWatchTyped, PTL DEF Spec
<1>2. WatchTyped => WatchTypeOK BY DEF WatchTyped
<1> QED BY <1>1, <1>2, PTL

(***************************************************************************)
(* The watchlist                                                           *)
(***************************************************************************)

\* The pools whose removal was ever called for.
Requested == {removals.log[i] : i \in 1..Len(removals.log)}

\* Why pool p may be watched: it has a trade, or its removal is still to come, or has come.
Explained(p) ==
  \/ Vec(p) # {}
  \/ \E l \in leaving : Removes(l) /\ PoolOf[l.trade] = p
  \/ p \in Requested

\* What is watched, what was ever sent to be watched, and what a hook is about to send.
MayBeWatched(p) ==
  \/ p \in watchlist
  \/ \E i \in 1..Len(adds.log) : adds.log[i] = p
  \/ \E t \in adding : PoolOf[t] = p

Accounted == \A p \in Pool : MayBeWatched(p) => Explained(p)

\* A call for the removal of a pool is never taken back.
LEMMA RequestsStay ==
  ASSUME WatchTypeOK, NEW q \in Pool, RemoveFromWatchlist(q)
  PROVE  Requested' = Requested \cup {q}
<1> DEFINE n == Len(removals.log)
<1>1. /\ n \in Nat /\ Len(removals'.log) = n + 1
      /\ \A i \in 1..n : removals'.log[i] = removals.log[i]
      /\ removals'.log[n + 1] = q
  BY PutIntoChannel DEF RemoveFromWatchlist, WatchTypeOK
<1>2. 1..(n + 1) = (1..n) \cup {n + 1} BY <1>1
<1> QED BY <1>1, <1>2 DEF Requested

\* The step that takes out the last trade of a pool leaves its removal to be called, and the
\* step that calls it puts it in the channel.
LEMMA ExplainedStays ==
  ASSUME WatchTypeOK, [Next]_vars, NEW p \in Pool, Explained(p)
  PROVE  Explained(p)'
<1> USE DEF Explained, Vec
<1>1. CASE UNCHANGED <<active, leaving, removals>>
  BY <1>1 DEF Requested
<1>2. ASSUME NEW q \in Pool, AddInitial(q) PROVE Explained(p)'
  BY <1>1, <1>2 DEF AddInitial, AddToWatchlist, watchVars
<1>3. ASSUME NEW t \in Trade, Insert(t) PROVE Explained(p)'
  BY <1>3 DEF Insert, Requested, watchVars
<1>4. ASSUME NEW t \in Trade, Sell(t) \/ FailTrade(t) PROVE Explained(p)'
  <2>1. PICK f \in BOOLEAN : TakeOut(t, f) BY <1>4 DEF Sell, FailTrade
  <2>2. Requested' = Requested /\ leaving \subseteq leaving'
    BY <2>1 DEF TakeOut, Requested, watchVars
  <2>3. CASE Vec(p) = {t} /\ PoolOf[t] = p
    <3> DEFINE l == [trade |-> t, last |-> TRUE, failed |-> f]
    <3>1. l \in leaving' BY <2>1, <2>3 DEF TakeOut
    <3>2. Removes(l) /\ PoolOf[l.trade] = p BY <2>3 DEF Removes
    <3> QED BY <3>1, <3>2
  <2>4. CASE ~(Vec(p) = {t} /\ PoolOf[t] = p) /\ Vec(p) # {}
    <3>1. PICK u \in Vec(p) : u # t BY <2>4
    <3> QED BY <2>1, <3>1 DEF TakeOut
  <2>5. CASE Vec(p) = {} BY <2>2, <2>5
  <2> QED BY <2>3, <2>4, <2>5
<1>5. ASSUME NEW l \in leaving, LeavePool(l) PROVE Explained(p)'
  <2>1. PoolOf[l.trade] \in Pool BY MonitorAssumption DEF WatchTypeOK
  <2>2. CASE PoolOf[l.trade] = p /\ Removes(l)
    BY <1>5, <2>1, <2>2, RequestsStay DEF LeavePool
  <2>3. CASE ~(PoolOf[l.trade] = p /\ Removes(l))
    <3>1. Requested \subseteq Requested'
      <4>1. CASE Removes(l) BY <1>5, <2>1, <4>1, RequestsStay DEF LeavePool
      <4>2. CASE ~Removes(l) BY <1>5, <4>2 DEF LeavePool, Requested, watchVars
      <4> QED BY <4>1, <4>2
    <3>2. Vec(p) \subseteq Vec(p)' BY <1>5, <2>3 DEF LeavePool, Removes
    <3>3. leaving' = leaving \ {l} BY <1>5 DEF LeavePool
    <3> QED BY <2>3, <3>1, <3>2, <3>3
  <2> QED BY <2>2, <2>3
<1>6. ASSUME RemoveLoop PROVE Explained(p)'
  <2>1. removals'.log = removals.log
    BY <1>6, ReadFromChannel DEF RemoveLoop, WatchTypeOK
  <2> QED BY <1>6, <2>1 DEF RemoveLoop, Requested, traderVars
<1>7. ASSUME NEW t \in Trade, ConfirmBuy(t) \/ AddAfterBuy(t) \/ SkipAdd(t) PROVE Explained(p)'
  BY <1>1, <1>7 DEF ConfirmBuy, AddAfterBuy, SkipAdd, AddToWatchlist, watchVars
<1>8. ASSUME NEW q \in Pool, Update(q) \/ ExpirePrice(q) PROVE Explained(p)'
  BY <1>1, <1>8 DEF Update, ExpirePrice, traderVars, watchVars
<1>9. ASSUME NEW k \in tasks, TaskStep(k) PROVE Explained(p)'
  BY <1>1, <1>9
  DEF TaskStep, CheckWatched, FetchReserves, SendPrice, traderVars, watchVars
<1>10. CASE \/ StartMonitor \/ ExecutorStops \/ AddLoop \/ Subscribe \/ StreamEnds \/ Unsubscribe
           \/ Cancel \/ TakePrice
  BY <1>1, <1>10
  DEF StartMonitor, ExecutorStops, AddLoop, Subscribe, StreamEnds, Unsubscribe, Cancel, TakePrice, traderVars,
      watchVars
<1>11. CASE UNCHANGED vars
  BY <1>1, <1>11 DEF vars, traderVars, watchVars
<1> QED BY <1>2, <1>3, <1>4, <1>5, <1>6, <1>7, <1>8, <1>9, <1>10, <1>11 DEF Next

\* A pool comes to be watched only through a trade that is in its Vec at that time.
LEMMA NewlyWatched ==
  ASSUME WatchTypeOK, [Next]_vars, NEW p \in Pool, MayBeWatched(p)'
  PROVE  MayBeWatched(p) \/ Vec(p) # {}
<1> USE DEF MayBeWatched
<1>1. CASE UNCHANGED <<watchlist, adds, adding>>
  BY <1>1
<1>2. ASSUME NEW q \in Pool, AddToWatchlist(q), adding' \subseteq adding,
             q = p => Vec(p) # {} \/ \E t \in adding : PoolOf[t] = p
      PROVE  MayBeWatched(p) \/ Vec(p) # {}
  <2> DEFINE n == Len(adds.log)
  <2>1. /\ n \in Nat /\ Len(adds'.log) = n + 1
        /\ \A i \in 1..n : adds'.log[i] = adds.log[i]
        /\ adds'.log[n + 1] = q
    BY <1>2, PutIntoChannel DEF AddToWatchlist, WatchTypeOK
  <2>2. UNCHANGED watchlist BY <1>2 DEF AddToWatchlist
  <2>3. ASSUME NEW i \in 1..Len(adds'.log), adds'.log[i] = p PROVE i \in 1..n \/ q = p
    <3>1. i \in 1..n \/ i = n + 1 BY <2>1
    <3> QED BY <2>1, <2>3, <3>1
  <2>4. ASSUME NEW i \in 1..n PROVE adds'.log[i] = adds.log[i] BY <2>1
  <2> HIDE DEF n
  <2> QED BY <1>2, <2>2, <2>3, <2>4 DEF n
<1>3. ASSUME NEW q \in Pool, AddInitial(q) PROVE MayBeWatched(p) \/ Vec(p) # {}
  BY <1>1, <1>2, <1>3 DEF AddInitial, watchVars
<1>4. ASSUME NEW t \in Trade, ConfirmBuy(t) PROVE MayBeWatched(p) \/ Vec(p) # {}
  BY <1>4 DEF ConfirmBuy, watchVars, Vec
<1>5. ASSUME NEW t \in Trade, AddAfterBuy(t) PROVE MayBeWatched(p) \/ Vec(p) # {}
  <2>1. PoolOf[t] \in Pool BY MonitorAssumption
  <2> QED BY <1>2, <1>5, <2>1 DEF AddAfterBuy
<1>6. ASSUME NEW t \in Trade, SkipAdd(t) PROVE MayBeWatched(p) \/ Vec(p) # {}
  BY <1>6 DEF SkipAdd, watchVars
<1>7. ASSUME NEW t \in Trade, Insert(t) \/ Sell(t) \/ FailTrade(t)
      PROVE  MayBeWatched(p) \/ Vec(p) # {}
  BY <1>1, <1>7 DEF Insert, Sell, FailTrade, TakeOut, watchVars
<1>8. ASSUME NEW l \in leaving, LeavePool(l) PROVE MayBeWatched(p) \/ Vec(p) # {}
  BY <1>1, <1>8 DEF LeavePool, RemoveFromWatchlist, watchVars
<1>9. ASSUME AddLoop PROVE MayBeWatched(p) \/ Vec(p) # {}
  <2>1. UNCHANGED adding BY <1>9 DEF AddLoop, traderVars
  <2>2. CASE UNCHANGED <<adds, watchlist>> BY <2>1, <2>2
  <2>3. CASE adds' = ReadOn(adds) /\ watchlist' = watchlist \cup {Next1(adds)}
    <3>1. adds'.log = adds.log /\ \E i \in 1..Len(adds.log) : Next1(adds) = adds.log[i]
      BY <1>9, <2>3, ReadFromChannel DEF AddLoop, WatchTypeOK
    <3> QED BY <2>1, <2>3, <3>1
  <2> QED BY <1>9, <2>2, <2>3 DEF AddLoop, InsertPool
<1>10. ASSUME RemoveLoop PROVE MayBeWatched(p) \/ Vec(p) # {}
  BY <1>10 DEF RemoveLoop, traderVars
<1>11. ASSUME NEW q \in Pool, Update(q) \/ ExpirePrice(q) PROVE MayBeWatched(p) \/ Vec(p) # {}
  BY <1>1, <1>11 DEF Update, ExpirePrice, traderVars, watchVars
<1>12. ASSUME NEW k \in tasks, TaskStep(k) PROVE MayBeWatched(p) \/ Vec(p) # {}
  BY <1>1, <1>12
  DEF TaskStep, CheckWatched, FetchReserves, SendPrice, traderVars, watchVars
<1>13. CASE \/ StartMonitor \/ ExecutorStops \/ Subscribe \/ StreamEnds \/ Unsubscribe \/ Cancel
           \/ TakePrice
  BY <1>1, <1>13
  DEF StartMonitor, ExecutorStops, Subscribe, StreamEnds, Unsubscribe, Cancel, TakePrice, traderVars, watchVars
<1>14. CASE UNCHANGED vars
  BY <1>1, <1>14 DEF vars, traderVars, watchVars
<1> QED BY <1>3, <1>4, <1>5, <1>6, <1>7, <1>8, <1>9, <1>10, <1>11, <1>12, <1>13, <1>14 DEF Next

LEMMA InitAccounted == Init => Accounted
BY EmptyChannel DEF Init, Accounted, MayBeWatched, NewChannel

LEMMA NextAccounted == WatchTypeOK /\ Accounted /\ [Next]_vars => Accounted'
<1> SUFFICES ASSUME WatchTypeOK, Accounted, [Next]_vars, NEW p \in Pool, MayBeWatched(p)'
             PROVE  Explained(p)'
  BY DEF Accounted
<1>1. MayBeWatched(p) \/ Vec(p) # {} BY NewlyWatched
<1>2. Explained(p) BY <1>1 DEF Accounted, Explained
<1> QED BY <1>2, ExplainedStays

LEMMA AccountedImplies == WatchTypeOK /\ Accounted => WatchedIsExplained
<1> SUFFICES ASSUME WatchTypeOK, Accounted, NEW p \in watchlist, Vec(p) = {}
             PROVE  p \in PoolsOf({l.trade : l \in leaving}) \cup Unread(removals)
                            \cup Received(removals)
  BY DEF WatchedIsExplained
<1>1. Explained(p) BY DEF Accounted, MayBeWatched, WatchTypeOK
<1>2. CASE \E l \in leaving : Removes(l) /\ PoolOf[l.trade] = p
  BY <1>2 DEF PoolsOf
<1>3. CASE p \in Requested
  <2>1. removals.read \in Nat /\ Len(removals.log) \in Nat BY DEF WatchTypeOK, Channel
  <2>2. PICK i \in 1..Len(removals.log) : p = removals.log[i] BY <1>3 DEF Requested
  <2>3. i \in 1..removals.read \/ i \in removals.read + 1 .. Len(removals.log)
    BY <2>1, <2>2
  <2> QED BY <2>2, <2>3 DEF Unread, Received
<1> QED BY <1>1, <1>2, <1>3 DEF Explained

\* No pool is watched without a trade in it, or a removal on its way or done, whatever the
\* order in which the tasks read the two channels (trade.rs:599-604, mod.rs:223-224,
\* monitor.rs:209-292).
THEOREM NothingForgotten == Spec => []WatchedIsExplained
<1>1. Spec => []WatchTypeOK BY WatchTypeCorrect
<1>2. Spec => []Accounted BY <1>1, InitAccounted, NextAccounted, PTL DEF Spec
<1> QED BY <1>1, <1>2, AccountedImplies, PTL

(***************************************************************************)
(* The order of prices                                                     *)
(***************************************************************************)

Sent(n) == prices.log[n]

\* Reserves only change: a price is never of reserves the chain has not had yet.
PricesArePast ==
  \A i \in 1..Len(prices.log), v \in Vault : Sent(i).of[v] <= state[Sent(i).pool]

\* A task that has a balance has a newer one than every price sent before it began.
Newer(k) ==
  \A v \in k.got :
    /\ k.of[v] <= state[k.pool]
    /\ \A i \in 1..k.begun : Sent(i).pool = k.pool => Sent(i).of[v] <= k.of[v]

Unfetched(k) == k.pc = "check" => k.got = {}

FetchedAfter == \A k \in tasks : k.begun <= Len(prices.log) /\ Newer(k) /\ Unfetched(k)

PricesOrdered == WatchTypeOK /\ PricesArePast /\ FetchedAfter /\ OverlapOnly

LEMMA PriceParts ==
  ASSUME WatchTypeOK
  PROVE  /\ Len(prices.log) \in Nat /\ DOMAIN prices.log = 1..Len(prices.log)
         /\ \A i \in 1..Len(prices.log) :
              /\ Sent(i).pool \in Pool /\ Sent(i).begun \in Nat
              /\ \A v \in Vault : Sent(i).of[v] \in Nat
         /\ \A k \in tasks :
              /\ k \in Task /\ k.pool \in Pool /\ k.begun \in Nat /\ k.got \subseteq Vault
              /\ k.of \in [Vault -> Nat]
<1>1. prices.log \in Seq(Price) BY DEF WatchTypeOK, Channel
<1>2. Len(prices.log) \in Nat /\ DOMAIN prices.log = 1..Len(prices.log) BY <1>1
<1>3. \A i \in 1..Len(prices.log) : Sent(i) \in Price BY <1>1, ElementOfSeq DEF Sent
<1>4. \A k \in tasks : k \in Task BY DEF WatchTypeOK
<1> QED BY <1>2, <1>3, <1>4 DEF Price, Task

\* What the steps that touch neither the chain, nor the tasks, nor the sent prices keep.
LEMMA PricesKept ==
  ASSUME PricesOrdered, WatchTypeOK', UNCHANGED <<state, tasks>>, prices'.log = prices.log
  PROVE  PricesOrdered'
BY DEF PricesOrdered, PricesArePast, FetchedAfter, Newer, Unfetched, OverlapOnly, Sent

LEMMA InitPricesOrdered == Init => PricesOrdered
<1> SUFFICES ASSUME Init PROVE PricesOrdered OBVIOUS
<1>1. WatchTypeOK BY InitWatchTyped DEF WatchTyped
<1>2. prices.log = <<>> /\ tasks = {} BY DEF Init, NewChannel
<1> QED BY <1>1, <1>2 DEF PricesOrdered, PricesArePast, FetchedAfter, OverlapOnly

\* A change of the reserves makes no price newer than the chain.
LEMMA UpdateKeepsOrder ==
  ASSUME PricesOrdered, WatchTypeOK', NEW p \in Pool, Update(p)
  PROVE  PricesOrdered'
<1> USE DEF PricesOrdered
<1>1. UNCHANGED prices BY DEF Update
<1>2. \A q \in Pool : state[q] \in Nat /\ state'[q] \in Nat /\ state[q] <= state'[q]
  <2>1. state' = [state EXCEPT ![p] = @ + 1] BY DEF Update
  <2> QED BY <2>1 DEF WatchTypeOK
<1>3. PricesArePast'
  <2> SUFFICES ASSUME NEW i \in 1..Len(prices.log), NEW v \in Vault
               PROVE  Sent(i).of[v] <= state'[Sent(i).pool]
    BY <1>1 DEF PricesArePast, Sent
  <2>1. Sent(i).pool \in Pool /\ Sent(i).of[v] \in Nat BY PriceParts
  <2>2. Sent(i).of[v] <= state[Sent(i).pool] BY DEF PricesArePast
  <2> QED BY <1>2, <2>1, <2>2
<1>4. FetchedAfter'
  <2> SUFFICES ASSUME NEW k \in tasks'
               PROVE  /\ k.begun <= Len(prices.log)
                      /\ \A v \in k.got :
                           /\ k.of[v] <= state'[k.pool]
                           /\ \A i \in 1..k.begun :
                                Sent(i).pool = k.pool => Sent(i).of[v] <= k.of[v]
                      /\ Unfetched(k)
    BY <1>1 DEF FetchedAfter, Newer, Unfetched, Sent
  <2>1. CASE k \in tasks
    <3>1. k.pool \in Pool /\ \A v \in k.got : k.of[v] \in Nat BY <2>1, PriceParts
    <3> QED BY <1>2, <2>1, <3>1 DEF FetchedAfter, Newer
  <2>2. CASE k \notin tasks
    <3>1. k = NewTask(p, state'[p]) BY <2>2 DEF Update
    <3> QED BY <1>2, <3>1, NewTaskTyped, PriceParts DEF Unfetched
  <2> QED BY <2>1, <2>2
<1>5. OverlapOnly' BY <1>1 DEF OverlapOnly
<1> QED BY <1>3, <1>4, <1>5

\* A step that leaves the prices and the chain alone, and adds at most one task.
LEMMA TaskKeepsOrder ==
  ASSUME PricesOrdered, WatchTypeOK', UNCHANGED <<state, prices>>,
         NEW to, tasks' \subseteq tasks \cup {to}, to.begun <= Len(prices.log), Newer(to),
         Unfetched(to)
  PROVE  PricesOrdered'
<1>1. FetchedAfter' BY DEF PricesOrdered, FetchedAfter, Newer, Unfetched, Sent
<1> QED BY <1>1 DEF PricesOrdered, PricesArePast, OverlapOnly, Sent

LEMMA CheckKeepsOrder ==
  ASSUME PricesOrdered, WatchTypeOK', NEW k \in tasks, CheckWatched(k)
  PROVE  PricesOrdered'
<1> DEFINE n == Len(prices.log)
<1>1. k \in Task /\ n \in Nat /\ k.pc = "check" BY BeginFetchTyped DEF PricesOrdered, CheckWatched
<1>2. /\ Begin(k).begun = n /\ Begin(k).pool = k.pool
      /\ Begin(k).of = k.of /\ Begin(k).got = k.got
  BY <1>1, BeginStep
<1>3. tasks' \subseteq tasks \cup {Begin(k)} BY DEF CheckWatched, TaskEnds, TaskGoes
<1>4. UNCHANGED <<state, prices>> BY DEF CheckWatched
<1>5. k.got = {} BY <1>1 DEF PricesOrdered, FetchedAfter, Unfetched
<1>6. Newer(Begin(k)) /\ Unfetched(Begin(k)) BY <1>2, <1>5 DEF Newer, Unfetched
<1> QED BY <1>6, <1>1, <1>2, <1>3, <1>4, <1>5, TaskKeepsOrder

LEMMA FetchKeepsOrder ==
  ASSUME PricesOrdered, WatchTypeOK', NEW k \in tasks, FetchReserves(k)
  PROVE  PricesOrdered'
<1>1. /\ k \in Task /\ Len(prices.log) \in Nat /\ Reserves(k) \in Nat
      /\ k.pool \in Pool /\ k.begun \in Nat /\ k.got \subseteq Vault /\ k.of \in [Vault -> Nat]
      /\ k.pc = "fetch"
  BY BeginFetchTyped, PriceParts DEF PricesOrdered, FetchReserves
<1>2. k.begun <= Len(prices.log) /\ Newer(k) /\ Unfetched(k) BY DEF PricesOrdered, FetchedAfter
<1>3. UNCHANGED <<state, prices>> BY DEF FetchReserves
<1>4. CASE TaskEnds(k) BY <1>2, <1>3, <1>4, TaskKeepsOrder DEF TaskEnds
<1>5. ASSUME NEW v \in Vault, TaskGoes(k, Fetch(k, v)) PROVE PricesOrdered'
  <2> DEFINE to == Fetch(k, v)
  <2>1. /\ to.begun = k.begun /\ to.pool = k.pool /\ to.got = k.got \cup {v}
        /\ to.pc = "fetch"
        /\ to.of = [k.of EXCEPT ![v] = state[k.pool]]
    BY <1>1, FetchStep DEF Reserves
  <2>2. to.of[v] = state[k.pool] /\ \A u \in k.got \ {v} : to.of[u] = k.of[u]
    BY <1>1, <2>1
  <2>3. state[k.pool] \in Nat BY <1>1 DEF Reserves
  <2>4. ASSUME NEW i \in 1..k.begun, Sent(i).pool = k.pool PROVE Sent(i).of[v] <= state[k.pool]
    <3>1. i \in 1..Len(prices.log) BY <1>1, <1>2
    <3> QED BY <2>4, <3>1 DEF PricesOrdered, PricesArePast
  <2> HIDE DEF to
  <2>5. Newer(to)
    <3> SUFFICES ASSUME NEW u \in to.got
                 PROVE  /\ to.of[u] <= state[to.pool]
                        /\ \A i \in 1..to.begun : Sent(i).pool = to.pool => Sent(i).of[u] <= to.of[u]
      BY DEF Newer
    <3>1. CASE u = v BY <2>1, <2>2, <2>3, <2>4, <3>1
    <3>2. CASE u # v
      <4>1. u \in k.got \ {v} BY <2>1, <3>2
      <4> QED BY <1>2, <2>1, <2>2, <4>1 DEF Newer
    <3> QED BY <3>1, <3>2
  <2>6. tasks' \subseteq tasks \cup {to} BY <1>5 DEF TaskGoes, to
  <2>7. Unfetched(to) BY <2>1 DEF Unfetched
  <2> QED BY <1>2, <1>3, <2>1, <2>5, <2>6, <2>7, TaskKeepsOrder
<1> QED BY <1>4, <1>5 DEF FetchReserves

\* A price that is sent is newer than every one sent before its task began.
LEMMA SendKeepsOrder ==
  ASSUME PricesOrdered, WatchTypeOK', NEW k \in tasks, SendPrice(k)
  PROVE  PricesOrdered'
<1> USE DEF PricesOrdered
<1> DEFINE n == Len(prices.log)
           x == [pool |-> k.pool, of |-> k.of, begun |-> k.begun]
<1>1. UNCHANGED state /\ tasks' \subseteq tasks BY DEF SendPrice, TaskEnds
<1>2. CASE UNCHANGED prices
  <2>1. FetchedAfter' BY <1>1, <1>2 DEF FetchedAfter, Newer, Unfetched, Sent
  <2>2. PricesArePast' BY <1>1, <1>2 DEF PricesArePast, Sent
  <2>3. OverlapOnly' BY <1>2 DEF OverlapOnly
  <2> QED BY <2>1, <2>2, <2>3
<1>3. CASE prices' = Put(prices, x)
  <2>1. /\ k.pool \in Pool /\ k.of \in [Vault -> Nat] /\ k.begun \in Nat /\ x \in Price
        /\ k.got = Vault
    BY PriceParts DEF Price, SendPrice
  <2>2. /\ n \in Nat /\ Len(prices'.log) = n + 1 /\ prices'.log[n + 1] = x
        /\ \A i \in 1..n : prices'.log[i] = prices.log[i]
    BY <1>3, <2>1, PutIntoChannel DEF WatchTypeOK
  <2>3. \A i \in 1..(n + 1) : i \in 1..n \/ i = n + 1 BY <2>2
  <2>4. DOMAIN prices'.log = 1..(n + 1)
    <3>1. prices'.log \in Seq(Price) BY DEF WatchTypeOK, Channel
    <3> QED BY <2>2, <3>1
  <2>5. (\A v \in Vault : k.of[v] <= state[k.pool]) /\ k.begun <= n
    BY <2>1 DEF FetchedAfter, Newer
  <2>6. \A i \in 1..n, v \in Vault :
          i <= k.begun /\ Sent(i).pool = k.pool => Sent(i).of[v] <= k.of[v]
    BY <2>1, <2>2 DEF FetchedAfter, Newer
  <2>7. PricesArePast'
    <3> SUFFICES ASSUME NEW i \in 1..(n + 1), NEW v \in Vault
                 PROVE  prices'.log[i].of[v] <= state[prices'.log[i].pool]
      BY <1>1, <2>2 DEF PricesArePast, Sent
    <3>1. CASE i \in 1..n BY <2>2, <3>1 DEF PricesArePast, Sent
    <3>2. CASE i = n + 1 BY <2>2, <2>5, <3>2
    <3> QED BY <2>3, <3>1, <3>2
  <2>8. FetchedAfter'
    <3> SUFFICES ASSUME NEW m \in tasks
                 PROVE  /\ m.begun <= n + 1 /\ Unfetched(m)
                        /\ \A v \in m.got :
                             /\ m.of[v] <= state[m.pool]
                             /\ \A i \in 1..m.begun :
                                  prices'.log[i].pool = m.pool => prices'.log[i].of[v] <= m.of[v]
      BY <1>1, <2>2 DEF FetchedAfter, Newer, Unfetched, Sent
    <3>1. m.begun \in Nat /\ m.begun <= n BY PriceParts DEF FetchedAfter
    <3>2. \A i \in 1..m.begun : prices'.log[i] = prices.log[i]
      <4>1. \A i \in 1..m.begun : i \in 1..n BY <2>2, <3>1
      <4> QED BY <2>2, <4>1
    <3>3. Newer(m) /\ Unfetched(m) BY DEF FetchedAfter
    <3>4. ASSUME NEW v \in m.got, NEW i \in 1..m.begun, prices'.log[i].pool = m.pool
          PROVE  prices'.log[i].of[v] <= m.of[v]
      <4>1. prices'.log[i] = Sent(i) BY <3>2 DEF Sent
      <4> QED BY <3>3, <3>4, <4>1 DEF Newer
    <3>5. \A v \in m.got : m.of[v] <= state[m.pool] BY <3>3 DEF Newer
    <3>6. m.begun <= n + 1
      <4> HIDE DEF n
      <4> QED BY <2>2, <3>1
    <3> QED BY <3>3, <3>4, <3>5, <3>6
  <2>9. OverlapOnly'
    <3> SUFFICES ASSUME NEW i \in 1..(n + 1), NEW j \in 1..(n + 1), i < j, NEW v \in Vault,
                        prices'.log[i].pool = prices'.log[j].pool,
                        prices'.log[i].of[v] > prices'.log[j].of[v]
                 PROVE  prices'.log[j].begun < i
      BY <2>4 DEF OverlapOnly
    <3>1. i \in 1..n BY <2>2, <2>3
    <3>2. prices'.log[i] = Sent(i) /\ Sent(i).of[v] \in Nat BY <2>2, <3>1, PriceParts DEF Sent
    <3>3. CASE j \in 1..n
      <4>1. prices'.log[j] = prices.log[j] BY <2>2, <3>3
      <4>2. i \in DOMAIN prices.log /\ j \in DOMAIN prices.log BY <3>1, <3>3, PriceParts
      <4> QED BY <3>2, <4>1, <4>2 DEF OverlapOnly, Sent
    <3>4. CASE j = n + 1
      <4>1. prices'.log[j] = x BY <2>2, <3>4
      <4>2. ~(i <= k.begun) BY <2>1, <2>6, <3>1, <3>2, <4>1
      <4> QED BY <2>1, <3>1, <4>1, <4>2
    <3> QED BY <2>3, <3>3, <3>4
  <2> QED BY <2>7, <2>8, <2>9
<1> QED BY <1>2, <1>3 DEF SendPrice

LEMMA NextPricesOrdered == PricesOrdered /\ WatchTypeOK' /\ [Next]_vars => PricesOrdered'
<1> SUFFICES ASSUME PricesOrdered, WatchTypeOK', [Next]_vars PROVE PricesOrdered' OBVIOUS
<1>1. CASE UNCHANGED priceVars
  BY <1>1, PricesKept DEF priceVars
<1>2. ASSUME NEW p \in Pool, AddInitial(p) \/ Update(p) \/ ExpirePrice(p) PROVE PricesOrdered'
  <2>1. CASE AddInitial(p) BY <1>1, <2>1 DEF AddInitial
  <2>2. CASE Update(p) BY <2>2, UpdateKeepsOrder
  <2>3. CASE ExpirePrice(p) BY <2>3, PricesKept DEF ExpirePrice
  <2> QED BY <1>2, <2>1, <2>2, <2>3
<1>3. ASSUME NEW t \in Trade,
             Insert(t) \/ ConfirmBuy(t) \/ AddAfterBuy(t) \/ SkipAdd(t) \/ Sell(t) \/ FailTrade(t)
      PROVE  PricesOrdered'
  BY <1>1, <1>3 DEF Insert, ConfirmBuy, AddAfterBuy, SkipAdd, Sell, FailTrade, TakeOut
<1>4. ASSUME NEW l \in leaving, LeavePool(l) PROVE PricesOrdered'
  BY <1>1, <1>4 DEF LeavePool
<1>5. CASE \/ StartMonitor \/ ExecutorStops \/ AddLoop \/ RemoveLoop \/ Subscribe \/ StreamEnds
          \/ Unsubscribe \/ Cancel
  BY <1>1, <1>5
  DEF StartMonitor, ExecutorStops, AddLoop, RemoveLoop, Subscribe, StreamEnds, Unsubscribe, Cancel
<1>6. ASSUME NEW k \in tasks, TaskStep(k) PROVE PricesOrdered'
  BY <1>6, CheckKeepsOrder, FetchKeepsOrder, SendKeepsOrder DEF TaskStep
<1>7. ASSUME TakePrice PROVE PricesOrdered'
  <2>1. prices'.log = prices.log
    BY <1>7, ReadFromChannel DEF TakePrice, PricesOrdered, WatchTypeOK
  <2> QED BY <1>7, <2>1, PricesKept DEF TakePrice
<1>8. CASE UNCHANGED vars BY <1>1, <1>8 DEF vars
<1> QED BY <1>2, <1>3, <1>4, <1>5, <1>6, <1>7, <1>8 DEF Next

\* Of two prices of a pool the older comes second only if its task had looked at the cache
\* before the newer was sent (monitor.rs:339-385, 797-841).
THEOREM PricesOverlapOnly == Spec => []OverlapOnly
<1>1. Spec => []WatchTypeOK BY WatchTypeCorrect
<1>2. Spec => []PricesOrdered BY <1>1, InitPricesOrdered, NextPricesOrdered, PTL DEF Spec
<1>3. PricesOrdered => OverlapOnly BY DEF PricesOrdered
<1> QED BY <1>2, <1>3, PTL
=============================================================================
