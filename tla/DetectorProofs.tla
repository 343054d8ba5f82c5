--------------------------- MODULE DetectorProofs ---------------------------
(***************************************************************************)
(* Theorems about the detector, for any pools, strategies, capacities of   *)
(* its channels and any limit of attempts above one.                       *)
(***************************************************************************)
EXTENDS Detector, SequenceTheorems, FiniteSetTheorems, TLAPS

(***************************************************************************)
(* The tasks of pools                                                      *)
(***************************************************************************)

\* A task ends with the data of its pool or loses it, alone or with the program.
LEMMA DataTaskSteps ==
  ASSUME NEW m \in fetching, DataTask(m)
  PROVE  /\ UNCHANGED <<mode, chain, created, pc, attempts, logs, initialized, cancelled,
                         processed, skipped, passed, received>>
         /\ running' \in {running, FALSE} /\ trading' \in {trading, FALSE}
         /\ internal' \in {internal, <<>>} /\ pools' \in {pools, <<>>}
         /\ fetching' \subseteq fetching \ {m}
         /\ \/ fetched' \subseteq fetched
            \/ \E ok \in SUBSET Part : fetched' = fetched \cup {Data(m, ok)}
BY DEF DataTask, FetchData, FetchPanics, FetchAborts, loopVars

LEMMA DataPool ==
  ASSUME NEW m, NEW ok
  PROVE  Data(m, ok).pool = m.pool /\ Data(m, ok).known = UpdateByResults(m.source, ok)
BY DEF Data

(***************************************************************************)
(* The subscription loops                                                  *)
(***************************************************************************)

\* A loop that is not over has attempts left, and one that is subscribed has all of them; only
\* the loop over logs loads a transaction, the one of the log it read last.
LoopsTried ==
  /\ pc \in [AnyLoop -> {"connect", "up", "load", "done"}]
  /\ attempts \in [AnyLoop -> 0..MaxAttempts]
  /\ cancelled \in BOOLEAN
  /\ \A l \in AnyLoop :
       /\ pc[l] # "done" => attempts[l] < MaxAttempts
       /\ pc[l] \in {"up", "load"} /\ l # "bloxroute" => attempts[l] = 0
       /\ pc[l] = "load" => l = "logs"
       /\ pc[l] = "done" /\ l # "bloxroute" => cancelled

LoopVars == <<pc, attempts, cancelled>>

LEMMA InitLoopsTried == Init => LoopsTried
<1> SUFFICES ASSUME Init PROVE LoopsTried OBVIOUS
<1>1. MaxAttempts \in Nat /\ MaxAttempts > 1 BY DetectorAssumption
<1>2. pc = [l \in AnyLoop |-> "connect"] /\ attempts = [l \in AnyLoop |-> 0] /\ ~cancelled
  BY DEF Init
<1>3. cancelled \in BOOLEAN BY DEF Init
<1>4. attempts \in [AnyLoop -> 0..MaxAttempts] BY <1>1, <1>2
<1> QED BY <1>1, <1>2, <1>3, <1>4 DEF LoopsTried

\* The program is cancelled with the last attempt; a subscription that ends has one left.
LEMMA LoopStep ==
  ASSUME LoopsTried, NEW l \in AnyLoop, Loop(l)
  PROVE  LoopsTried'
<1>1. MaxAttempts \in Nat /\ MaxAttempts > 1 BY DetectorAssumption
<1>2. \A k \in AnyLoop : attempts[k] \in Nat /\ attempts[k] <= MaxAttempts
  BY <1>1 DEF LoopsTried
<1>3. CASE Subscribe(l)
  BY <1>1, <1>3 DEF Subscribe, At, Goto, ResetAttempts, LoopsTried
<1>4. CASE SubscribeFails(l)
  <2>1. pc[l] = "connect" /\ attempts[l] < MaxAttempts
    BY <1>4 DEF SubscribeFails, At, LoopsTried
  <2>2. attempts' = [attempts EXCEPT ![l] = @ + 1] BY <1>4 DEF SubscribeFails, CountAttempt
  <2>3. attempts' \in [AnyLoop -> 0..MaxAttempts] BY <1>1, <1>2, <2>1, <2>2 DEF LoopsTried
  <2>4. CASE ~GivesUp(l) /\ UNCHANGED <<pc, cancelled>>
    BY <1>1, <1>2, <2>1, <2>2, <2>3, <2>4 DEF GivesUp, LoopsTried
  <2>5. CASE GivesUp(l) /\ Goto(l, "done") /\ cancelled' = CancelAfter(l)
    BY <1>1, <1>2, <2>1, <2>2, <2>3, <2>5 DEF Goto, CancelAfter, LoopsTried
  <2> QED BY <1>4, <2>4, <2>5 DEF SubscribeFails
<1>5. CASE StreamEnds(l) /\ l = "logs"
  BY <1>1, <1>5 DEF StreamEnds, At, Goto, LoopsTried
<1>6. CASE StreamEnds(l) /\ l # "logs"
  <2>1. pc[l] \in {"up", "load"} /\ attempts[l] < MaxAttempts
    BY <1>6 DEF StreamEnds, At, LoopsTried
  <2>2. attempts' = [attempts EXCEPT ![l] = @ + 1] /\ UNCHANGED cancelled
    BY <1>6 DEF StreamEnds, CountAttempt
  <2>3. attempts' \in [AnyLoop -> 0..MaxAttempts] BY <1>1, <1>2, <2>1, <2>2 DEF LoopsTried
  <2>4. CASE GivesUp(l)
    <3>1. pc' = [pc EXCEPT ![l] = "done"] BY <1>6, <2>4 DEF StreamEnds, Goto
    <3>2. l = "bloxroute" BY <1>1, <2>1, <2>4 DEF GivesUp, LoopsTried
    <3> QED BY <2>2, <2>3, <3>1, <3>2 DEF LoopsTried
  <2>5. CASE ~GivesUp(l)
    <3>1. pc' = [pc EXCEPT ![l] = "connect"] BY <1>6, <2>5 DEF StreamEnds, Goto
    <3>2. attempts[l] + 1 < MaxAttempts BY <1>1, <1>2, <2>5 DEF GivesUp
    <3> QED BY <2>2, <2>3, <3>1, <3>2 DEF LoopsTried
  <2> QED BY <2>4, <2>5
<1>7. CASE Unsubscribe(l)
  BY <1>1, <1>7 DEF Unsubscribe, At, Goto, LoopsTried
<1> QED BY <1>3, <1>4, <1>5, <1>6, <1>7 DEF Loop

LEMMA NextLoopsTried == LoopsTried /\ [Next]_vars => LoopsTried'
<1> SUFFICES ASSUME LoopsTried, [Next]_vars PROVE LoopsTried' OBVIOUS
<1>1. CASE UNCHANGED LoopVars BY <1>1 DEF LoopVars, LoopsTried
<1>2. CASE \E l \in AnyLoop : Loop(l) BY <1>2, LoopStep
<1>3. CASE BloxrouteRefused
  BY <1>3 DEF BloxrouteRefused, At, Goto, LoopsTried, AnyLoop
<1>4. CASE Cancel BY <1>4 DEF Cancel, LoopsTried
<1>5. CASE ReadLog BY <1>5 DEF ReadLog, At, Goto, LoopsTried, AnyLoop
<1>6. CASE LoadInitialized BY <1>6 DEF LoadInitialized, At, Goto, LoopsTried, AnyLoop
<1>7. CASE Finish \/ \E p \in Pool : Create(p)
  BY <1>1, <1>7 DEF Finish, Create, LoopVars
<1>8. CASE (\E l \in AnyLoop, p \in Pool : Update(l, p)) \/ ReceivePool \/ Decide \/ TraderStops
  BY <1>1, <1>8 DEF Update, ReceivePool, Decide, TraderStops, loopVars, LoopVars
<1>9. CASE (\E m \in fetching : DataTask(m)) \/ (\E d \in fetched : SendPool(d))
  BY <1>1, <1>9, DataTaskSteps DEF SendPool, loopVars, LoopVars
<1>10. CASE UNCHANGED vars BY <1>1, <1>10 DEF vars, LoopVars
<1> QED BY <1>2, <1>3, <1>4, <1>5, <1>6, <1>7, <1>8, <1>9, <1>10 DEF Next

LEMMA AlwaysLoopsTried == Spec => []LoopsTried
BY InitLoopsTried, NextLoopsTried, PTL DEF Spec

\* The program does not go on without a subscription to its base source of pools, because a
\* loop that was subscribed has its attempts back when the stream ends (raydium.rs:278-425,
\* error.rs).
THEOREM BaseSourceKept == Spec => []NeverBlind
<1>1. LoopsTried => NeverBlind BY DEF LoopsTried, NeverBlind, Loops, AnyLoop
<1> QED BY <1>1, AlwaysLoopsTried, PTL

(***************************************************************************)
(* Type correctness                                                        *)
(***************************************************************************)

\* A transaction is loaded for a log that was read.
Typed == TypeOK /\ (pc["logs"] = "load" => logs # <<>>)

LEMMA InitTyped == Init => Typed
<1> SUFFICES ASSUME Init PROVE Typed OBVIOUS
<1>1. pc \in [AnyLoop -> {"connect", "up", "load", "done"}] /\ pc["logs"] # "load"
  BY DEF Init, AnyLoop
<1>2. attempts \in [AnyLoop -> 0..MaxAttempts] BY InitLoopsTried DEF LoopsTried
<1>3. /\ logs \in Seq(Fresh) /\ internal \in Seq(Message) /\ Len(internal) <= InternalCap
      /\ pools \in Seq(Detected) /\ Len(pools) <= PoolCap
  BY DetectorAssumption, EmptySeq DEF Init
<1>4. passed \in [Pool -> Nat] BY DEF Init
<1>5. mode \in Modes /\ \A p \in Pool : chain[p] \in Facts[p] BY DEF Init
<1> QED BY <1>1, <1>2, <1>3, <1>4, <1>5 DEF Init, Typed, TypeOK

\* What the steps of the loops keep of the types.
LEMMA LoopTyped ==
  ASSUME Typed, LoopsTried', UNCHANGED <<mode, chain, initialized, pipeVars>>,
         created' \subseteq Pool, logs' \in Seq(Fresh), running' \in BOOLEAN,
         pc'["logs"] = "load" => logs' # <<>>
  PROVE  Typed'
BY DEF Typed, TypeOK, LoopsTried, pipeVars

\* What the steps of the receiver, of the tasks and of the trader keep.
LEMMA PipeTyped ==
  ASSUME Typed, UNCHANGED loopVars,
         processed' \subseteq Pool, skipped' \subseteq processed',
         internal' \in Seq(Message), Len(internal') <= InternalCap,
         fetching' \subseteq Message, fetched' \subseteq Detected,
         pools' \in Seq(Detected), Len(pools') <= PoolCap,
         passed' \in [Pool -> Nat], trading' \in BOOLEAN
  PROVE  Typed'
BY DEF Typed, TypeOK, loopVars

\* What a node returns for a pool is a set of the parts there are.
LEMMA UpdateTyped ==
  ASSUME NEW source, NEW ok \in SUBSET Part
  PROVE  UpdateByResults(source, ok) \subseteq Part
BY DEF UpdateByResults, Results, Part

LEMMA NextTyped == Typed /\ LoopsTried /\ LoopsTried' /\ [Next]_vars => Typed'
<1> SUFFICES ASSUME Typed, LoopsTried, LoopsTried', [Next]_vars PROVE Typed' OBVIOUS
<1> USE DEF Typed
<1>1. ASSUME NEW l \in AnyLoop, Loop(l) PROVE Typed'
  <2>1. /\ UNCHANGED <<mode, chain, initialized, pipeVars, created, running>>
        /\ logs' = logs \/ (l = "logs" /\ logs' = <<>> /\ pc'["logs"] = "connect")
    BY <1>1 DEF Loop, Subscribe, SubscribeFails, StreamEnds, Unsubscribe, Goto, TypeOK, AnyLoop
  <2>2. pc'["logs"] = "load" => pc["logs"] = "load"
    BY <1>1
    DEF Loop, Subscribe, SubscribeFails, StreamEnds, Unsubscribe, Goto, TypeOK, AnyLoop
  <2>3. logs' \in Seq(Fresh) BY <2>1, EmptySeq DEF TypeOK
  <2> QED BY <2>1, <2>2, <2>3, LoopTyped DEF TypeOK
<1>2. CASE BloxrouteRefused
  <2>1. pc'["logs"] = pc["logs"] BY <1>2 DEF BloxrouteRefused, Goto, TypeOK, AnyLoop
  <2> QED BY <1>2, <2>1, LoopTyped DEF BloxrouteRefused, TypeOK
<1>3. CASE Cancel BY <1>3, LoopTyped DEF Cancel, TypeOK
<1>4. CASE Finish
  <2>1. internal' \in Seq(Message) /\ Len(internal') <= InternalCap
    BY <1>4, DetectorAssumption, EmptySeq DEF Finish
  <2> QED BY <1>4, <2>1 DEF Finish, TypeOK
<1>5. ASSUME NEW p \in Pool, Create(p) PROVE Typed'
  <2>1. p \in Fresh BY <1>5 DEF Create
  <2>2. logs' \in Seq(Fresh) /\ (logs' = <<>> => logs = <<>>)
    <3>1. logs' = logs \/ logs' = Append(logs, p) BY <1>5 DEF Create
    <3>2. logs \in Seq(Fresh) BY DEF TypeOK
    <3>3. Append(logs, p) \in Seq(Fresh) /\ Append(logs, p) # <<>> BY <2>1, <3>2
    <3> QED BY <3>1, <3>2, <3>3
  <2> QED BY <1>5, <2>2, LoopTyped DEF Create, TypeOK
<1>6. CASE ReadLog BY <1>6, LoopTyped DEF ReadLog, TypeOK
<1>7. CASE LoadInitialized
  <2>1. logs # <<>> BY <1>7 DEF LoadInitialized, At
  <2>2. Head(logs) \in Fresh /\ Tail(logs) \in Seq(Fresh) BY <2>1 DEF TypeOK
  <2>3. pc'["logs"] = "up" BY <1>7 DEF LoadInitialized, Goto, TypeOK, AnyLoop
  <2> QED BY <1>7, <2>2, <2>3 DEF LoadInitialized, TypeOK, pipeVars, LoopsTried
<1>8. ASSUME NEW l \in AnyLoop, NEW p \in Pool, Update(l, p) PROVE Typed'
  <2>1. mode \in {"pubsub", "bloxroute"} BY DetectorAssumption DEF TypeOK
  <2>2. [pool |-> p, source |-> mode] \in Message BY <2>1 DEF Message
  <2>3. internal' \in Seq(Message) /\ Len(internal') <= InternalCap
    <3>1. internal \in Seq(Message) /\ Len(internal) < InternalCap /\ InternalCap \in Nat
      BY <1>8, DetectorAssumption DEF Update, TypeOK
    <3>2. internal' = Append(internal, [pool |-> p, source |-> mode]) BY <1>8 DEF Update
    <3> QED BY <2>2, <3>1, <3>2
  <2> QED BY <1>8, <2>3, PipeTyped DEF Update, TypeOK
<1>9. CASE ReceivePool
  <2>1. internal # <<>> /\ internal' = Tail(internal) BY <1>9 DEF ReceivePool
  <2>2. Head(internal) \in Message /\ internal' \in Seq(Message) /\ Len(internal') <= InternalCap
    BY <2>1, DetectorAssumption DEF TypeOK
  <2>3. Head(internal).pool \in Pool BY <2>2 DEF Message
  <2>4. processed' \subseteq Pool /\ skipped' \subseteq processed'
    BY <1>9, <2>3 DEF ReceivePool, Process, TypeOK
  <2>5. fetching' \subseteq Message BY <1>9, <2>2 DEF ReceivePool, TypeOK
  <2> QED BY <1>9, <2>2, <2>4, <2>5, PipeTyped DEF ReceivePool, TypeOK
<1>10. ASSUME NEW m \in fetching, DataTask(m) PROVE Typed'
  <2>1. m.pool \in Pool /\ m.source \in {"pubsub", "bloxroute"} BY DEF TypeOK, Message
  <2>2. fetched' \subseteq Detected
    <3>1. CASE fetched' \subseteq fetched BY <3>1 DEF TypeOK
    <3>2. ASSUME NEW ok \in SUBSET Part, fetched' = fetched \cup {Data(m, ok)}
          PROVE  fetched' \subseteq Detected
      <4>1. UpdateByResults(m.source, ok) \in SUBSET Part BY UpdateTyped
      <4> QED BY <2>1, <3>2, <4>1 DEF Data, Detected, TypeOK
    <3> QED BY <1>10, <3>1, <3>2, DataTaskSteps
  <2>3. /\ internal' \in Seq(Message) /\ Len(internal') <= InternalCap
        /\ pools' \in Seq(Detected) /\ Len(pools') <= PoolCap
    <3>1. internal' \in {internal, <<>>} /\ pools' \in {pools, <<>>} BY <1>10, DataTaskSteps
    <3>2. /\ internal \in Seq(Message) /\ Len(internal) <= InternalCap
          /\ pools \in Seq(Detected) /\ Len(pools) <= PoolCap
      BY DEF TypeOK
    <3>3. /\ <<>> \in Seq(Message) /\ Len(<<>>) <= InternalCap
          /\ <<>> \in Seq(Detected) /\ Len(<<>>) <= PoolCap
      BY DetectorAssumption, EmptySeq
    <3>4. internal' \in Seq(Message) /\ Len(internal') <= InternalCap BY <3>1, <3>2, <3>3
    <3>5. pools' \in Seq(Detected) /\ Len(pools') <= PoolCap BY <3>1, <3>2, <3>3
    <3> QED BY <3>4, <3>5
  <2>4. /\ UNCHANGED <<mode, chain, created, pc, attempts, logs, initialized, cancelled,
                        processed, skipped, passed, received>>
        /\ running' \in BOOLEAN /\ trading' \in BOOLEAN /\ fetching' \subseteq Message
    BY <1>10, DataTaskSteps DEF TypeOK
  <2> QED BY <2>2, <2>3, <2>4 DEF TypeOK
<1>11. ASSUME NEW d \in fetched, SendPool(d) PROVE Typed'
  <2>1. d \in Detected /\ d.pool \in Pool BY DEF TypeOK, Detected
  <2>2. pools' \in Seq(Detected) /\ Len(pools') <= PoolCap
    <3>1. pools \in Seq(Detected) /\ Len(pools) <= PoolCap /\ PoolCap \in Nat
      BY DetectorAssumption DEF TypeOK
    <3>2. CASE UNCHANGED pools BY <3>1, <3>2
    <3>3. CASE pools' = Append(pools, d) /\ Len(pools) < PoolCap BY <2>1, <3>1, <3>3
    <3> QED BY <1>11, <3>2, <3>3 DEF SendPool
  <2>3. passed' \in [Pool -> Nat] BY <1>11, <2>1 DEF SendPool, TypeOK
  <2> QED BY <1>11, <2>2, <2>3, PipeTyped DEF SendPool, TypeOK
<1>12. CASE Decide
  <2>1. pools # <<>> /\ pools' = Tail(pools) BY <1>12 DEF Decide
  <2>2. pools' \in Seq(Detected) /\ Len(pools') <= PoolCap
    BY <2>1, DetectorAssumption DEF TypeOK
  <2> QED BY <1>12, <2>2, PipeTyped DEF Decide, TypeOK
<1>13. CASE TraderStops
  <2>1. pools' \in Seq(Detected) /\ Len(pools') <= PoolCap
    BY <1>13, DetectorAssumption, EmptySeq DEF TraderStops
  <2> QED BY <1>13, <2>1, PipeTyped DEF TraderStops, TypeOK
<1>14. CASE UNCHANGED vars BY <1>14 DEF vars, TypeOK
<1> QED BY <1>1, <1>2, <1>3, <1>4, <1>5, <1>6, <1>7, <1>8, <1>9, <1>10, <1>11, <1>12, <1>13,
           <1>14 DEF Next

\* Every variable keeps its type: no channel outgrows its capacity, a skipped pool is a
\* processed one, and a log is taken only when there is one.
THEOREM TypeCorrect == Spec => []TypeOK
<1>1. Spec => []Typed BY AlwaysLoopsTried, InitTyped, NextTyped, PTL DEF Spec
<1> QED BY <1>1, PTL DEF Typed

(***************************************************************************)
(* One pool, one trade                                                     *)
(***************************************************************************)

\* A pool that is being fetched or was passed on is in the cache of processed pools, and is
\* not in two of these places, nor twice in one.
OnePass ==
  /\ \A m \in fetching : m.pool \in processed /\ passed[m.pool] = 0
  /\ \A d \in fetched : d.pool \in processed /\ passed[d.pool] = 0
  /\ \A m, n \in fetching : m.pool = n.pool => m = n
  /\ \A d, e \in fetched : d.pool = e.pool => d = e
  /\ \A m \in fetching, d \in fetched : m.pool # d.pool
  /\ \A p \in Pool : passed[p] \in {0, 1} /\ (passed[p] = 1 => p \in processed)

LEMMA InitOnePass == Init => OnePass
BY DEF Init, OnePass

LEMMA NextOnePass == TypeOK /\ OnePass /\ [Next]_vars => OnePass'
<1> SUFFICES ASSUME TypeOK, OnePass, [Next]_vars PROVE OnePass' OBVIOUS
<1>1. CASE UNCHANGED <<processed, fetching, fetched, passed>> BY <1>1 DEF OnePass
<1>2. CASE ReceivePool
  <2> DEFINE m == Head(internal)
  <2>1. UNCHANGED <<fetched, passed>> BY <1>2 DEF ReceivePool, loopVars
  <2>2. CASE m.pool \in processed
    BY <1>1, <1>2, <2>1, <2>2 DEF ReceivePool
  <2>3. CASE m.pool \notin processed
    <3>1. processed' = processed \cup {m.pool} /\ fetching' \subseteq fetching \cup {m}
      BY <1>2, <2>3 DEF ReceivePool, Process
    <3>2. m \in Message BY <1>2 DEF ReceivePool, TypeOK
    <3>3. m.pool \in Pool BY <3>2 DEF Message
    <3>4. passed[m.pool] = 0 BY <2>3, <3>3 DEF OnePass
    <3>5. \A n \in fetching : n.pool # m.pool BY <2>3 DEF OnePass
    <3>6. \A d \in fetched : d.pool # m.pool BY <2>3 DEF OnePass
    <3> HIDE DEF m
    <3> QED BY <2>1, <3>1, <3>3, <3>4, <3>5, <3>6 DEF OnePass
  <2> QED BY <2>2, <2>3
<1>3. ASSUME NEW m \in fetching, DataTask(m) PROVE OnePass'
  <2>1. fetching' \subseteq fetching \ {m} /\ UNCHANGED <<processed, passed>>
    BY <1>3, DataTaskSteps
  <2>2. CASE fetched' \subseteq fetched BY <2>1, <2>2 DEF OnePass
  <2>3. ASSUME NEW ok \in SUBSET Part, fetched' = fetched \cup {Data(m, ok)}
        PROVE  OnePass'
    <3> DEFINE d == Data(m, ok)
    <3>1. d.pool = m.pool BY DataPool
    <3>2. \A e \in fetched : e.pool # m.pool BY DEF OnePass
    <3>3. \A n \in fetching' : n.pool # m.pool BY <2>1 DEF OnePass
    <3> HIDE DEF d
    <3>4. fetched' = fetched \cup {d} BY <2>3 DEF d
    <3> QED BY <2>1, <3>1, <3>2, <3>3, <3>4 DEF OnePass
  <2> QED BY <1>3, <2>2, <2>3, DataTaskSteps
<1>4. ASSUME NEW d \in fetched, SendPool(d) PROVE OnePass'
  <2>1. fetched' = fetched \ {d} /\ UNCHANGED <<processed, fetching>> BY <1>4 DEF SendPool
  <2>2. d.pool \in Pool /\ d.pool \in processed /\ passed[d.pool] = 0
    BY DEF TypeOK, Detected, OnePass
  <2>3. CASE UNCHANGED passed BY <2>1, <2>3 DEF OnePass
  <2>4. CASE passed' = [passed EXCEPT ![d.pool] = @ + 1]
    <3>1. passed'[d.pool] = 1 /\ \A p \in Pool : p # d.pool => passed'[p] = passed[p]
      BY <2>2, <2>4 DEF TypeOK
    <3>2. \A m \in fetching : m.pool # d.pool /\ m.pool \in Pool
      BY DEF OnePass, TypeOK, Message
    <3>3. \A e \in fetched' : e.pool # d.pool /\ e.pool \in Pool
      BY <2>1 DEF OnePass, TypeOK, Detected
    <3> QED BY <2>1, <2>2, <3>1, <3>2, <3>3 DEF OnePass
  <2> QED BY <1>4, <2>3, <2>4 DEF SendPool
<1>5. CASE \E l \in AnyLoop : Loop(l)
  BY <1>1, <1>5 DEF Loop, Subscribe, SubscribeFails, StreamEnds, Unsubscribe, pipeVars
<1>6. CASE BloxrouteRefused \/ Cancel \/ Finish \/ ReadLog \/ LoadInitialized
  BY <1>1, <1>6 DEF BloxrouteRefused, Cancel, Finish, ReadLog, LoadInitialized, pipeVars
<1>7. CASE \E p \in Pool : Create(p) BY <1>1, <1>7 DEF Create, pipeVars
<1>8. CASE (\E l \in AnyLoop, p \in Pool : Update(l, p)) \/ Decide \/ TraderStops
  BY <1>1, <1>8 DEF Update, Decide, TraderStops
<1>9. CASE UNCHANGED vars BY <1>1, <1>9 DEF vars
<1> QED BY <1>2, <1>3, <1>4, <1>5, <1>6, <1>7, <1>8, <1>9 DEF Next

LEMMA OnePassImplies == OnePass => PassedOnce
<1> SUFFICES ASSUME OnePass, NEW p \in Pool
             PROVE  passed[p] + Cardinality(InFlight(p)) <= 1
  BY DEF PassedOnce
<1>1. CASE InFlight(p) = {}
  <2>1. Cardinality(InFlight(p)) = 0 BY <1>1, FS_EmptySet
  <2> QED BY <2>1 DEF OnePass
<1>2. CASE InFlight(p) # {}
  <2>1. PICK x \in InFlight(p) : TRUE BY <1>2
  <2>2. \A y \in InFlight(p) : y = x BY <2>1 DEF InFlight, OnePass
  <2>3. Cardinality(InFlight(p)) = 1
    <3>1. InFlight(p) = {x} BY <2>1, <2>2
    <3> QED BY <3>1, FS_Singleton
  <2>4. passed[p] = 0 BY <2>1 DEF InFlight, OnePass
  <2> QED BY <2>3, <2>4
<1> QED BY <1>1, <1>2

\* However many messages of however many streams there are about a pool, the trader gets it at
\* most once, because it is put in the cache before anything is awaited
\* (detector/mod.rs:158-249).
THEOREM AtMostOncePassed == Spec => []PassedOnce
<1>1. Spec => []OnePass BY TypeCorrect, InitOnePass, NextOnePass, PTL DEF Spec
<1> QED BY <1>1, OnePassImplies, PTL

(***************************************************************************)
(* Only new pools                                                          *)
(***************************************************************************)

\* Messages come from the stream of the mode; of PubSub, only initialised pools get further.
NewOnly ==
  mode = "pubsub" =>
    /\ \A i \in 1..Len(internal) : internal[i].source = "pubsub"
    /\ \A m \in fetching : m.pool \in initialized
    /\ \A d \in fetched : d.pool \in initialized
    /\ \A p \in Pool : passed[p] > 0 => p \in initialized

LEMMA InitNewOnly == Init => NewOnly
BY DEF Init, NewOnly

LEMMA NextNewOnly == TypeOK /\ NewOnly /\ [Next]_vars => NewOnly'
<1> SUFFICES ASSUME TypeOK, NewOnly, [Next]_vars, mode' = "pubsub" PROVE NewOnly'
  BY DEF NewOnly
<1>1. CASE UNCHANGED <<mode, internal, fetching, fetched, passed>> /\ initialized \subseteq initialized'
  BY <1>1 DEF NewOnly
<1>2. CASE Finish
  BY <1>2, EmptySeq DEF Finish, NewOnly
<1>3. ASSUME NEW l \in AnyLoop, NEW p \in Pool, Update(l, p) PROVE NewOnly'
  <2>1. /\ internal' = Append(internal, [pool |-> p, source |-> mode])
        /\ UNCHANGED <<mode, initialized, fetching, fetched, passed>>
    BY <1>3 DEF Update, loopVars
  <2>2. \A i \in 1..Len(internal') : internal'[i].source = "pubsub"
    <3> DEFINE m == [pool |-> p, source |-> mode]
               n == Len(internal)
    <3>1. n \in Nat /\ Len(internal') = n + 1 /\ internal'[n + 1] = m
          /\ \A i \in 1..n : internal'[i] = internal[i]
      <4>1. mode \in {"pubsub", "bloxroute"} BY DetectorAssumption DEF TypeOK
      <4>2. m \in Message BY <4>1 DEF Message
      <4> QED BY <2>1, <4>2 DEF TypeOK
    <3>2. \A i \in 1..n : internal[i].source = "pubsub" BY <2>1 DEF NewOnly
    <3>3. \A i \in 1..(n + 1) : i \in 1..n \/ i = n + 1 BY <3>1
    <3>4. m.source = "pubsub" BY <2>1
    <3> HIDE DEF m, n
    <3> QED BY <3>1, <3>2, <3>3, <3>4
  <2> QED BY <2>1, <2>2 DEF NewOnly
<1>4. CASE ReceivePool
  <2> DEFINE m == Head(internal)
  <2>1. /\ internal # <<>> /\ internal' = Tail(internal)
        /\ UNCHANGED <<mode, initialized, fetched, passed>>
    BY <1>4 DEF ReceivePool, loopVars
  <2>2. mode = "pubsub" BY <2>1
  <2>3. /\ m = internal[1] /\ Len(internal) \in Nat \ {0} /\ Len(internal') = Len(internal) - 1
        /\ \A i \in 1..Len(internal') : internal'[i] = internal[i + 1]
    BY <2>1 DEF TypeOK
  <2>4. m.source = "pubsub" BY <2>2, <2>3 DEF NewOnly
  <2>5. \A i \in 1..Len(internal') : internal'[i].source = "pubsub"
    <3>1. \A i \in 1..Len(internal') : i + 1 \in 1..Len(internal) BY <2>3
    <3> QED BY <2>2, <2>3, <3>1 DEF NewOnly
  <2>6. fetching' \subseteq fetching \/ (fetching' \subseteq fetching \cup {m} /\ m.pool \in initialized)
    BY <1>4, <2>4 DEF ReceivePool, OldPool
  <2> HIDE DEF m
  <2> QED BY <2>1, <2>2, <2>5, <2>6 DEF NewOnly
<1>5. ASSUME NEW m \in fetching, DataTask(m) PROVE NewOnly'
  <2>1. /\ fetching' \subseteq fetching /\ UNCHANGED <<mode, initialized, passed>>
        /\ internal' = internal \/ Len(internal') = 0
    BY <1>5, DataTaskSteps, EmptySeq
  <2>2. CASE fetched' \subseteq fetched BY <2>1, <2>2 DEF NewOnly
  <2>3. ASSUME NEW ok \in SUBSET Part, fetched' = fetched \cup {Data(m, ok)}
        PROVE  NewOnly'
    BY <2>1, <2>3, DataPool DEF NewOnly
  <2> QED BY <1>5, <2>2, <2>3, DataTaskSteps
<1>6. ASSUME NEW d \in fetched, SendPool(d) PROVE NewOnly'
  <2>1. fetched' \subseteq fetched /\ UNCHANGED <<mode, initialized, internal, fetching>>
    BY <1>6 DEF SendPool, loopVars
  <2>2. \A p \in Pool : passed'[p] = passed[p] \/ p = d.pool
    BY <1>6 DEF SendPool, TypeOK
  <2>3. d.pool \in initialized BY <2>1 DEF NewOnly
  <2> QED BY <2>1, <2>2, <2>3 DEF NewOnly
<1>7. CASE \E l \in AnyLoop : Loop(l)
  BY <1>1, <1>7 DEF Loop, Subscribe, SubscribeFails, StreamEnds, Unsubscribe, pipeVars
<1>8. CASE BloxrouteRefused \/ Cancel \/ ReadLog \/ LoadInitialized
  BY <1>1, <1>8 DEF BloxrouteRefused, Cancel, ReadLog, LoadInitialized, pipeVars
<1>9. CASE \E p \in Pool : Create(p) BY <1>1, <1>9 DEF Create, pipeVars
<1>10. CASE Decide \/ TraderStops BY <1>1, <1>10 DEF Decide, TraderStops, loopVars
<1>11. CASE UNCHANGED vars BY <1>1, <1>11 DEF vars
<1> QED BY <1>2, <1>3, <1>4, <1>5, <1>6, <1>7, <1>8, <1>9, <1>10, <1>11 DEF Next

LEMMA NewOnlyImplies == NewOnly => OnlyInitialized
BY DEF NewOnly, OnlyInitialized, InFlight

\* With PubSub the trader gets no pool whose initialize2 was not seen while the program ran,
\* whichever of the two messages about it comes first (detector/mod.rs:179-216).
THEOREM OldPoolsStayOut == Spec => []OnlyInitialized
<1>1. Spec => []NewOnly BY TypeCorrect, InitNewOnly, NextNewOnly, PTL DEF Spec
<1> QED BY <1>1, NewOnlyImplies, PTL

(***************************************************************************)
(* The strategy chosen                                                     *)
(***************************************************************************)

\* What its target is makes no difference to a condition on a range.
LEMMA RangeIsMet ==
  ASSUME NEW c \in Condition, NEW z, z.op = "in", z.range = c.range, c.range # Absent,
         NEW v \in Nat, ~IsConditionMet(z, v)
  PROVE  v \in Between(c.range)
<1>1. Len(c.range) = 2 /\ ~(v < c.range[1] \/ v > c.range[2]) BY DEF IsConditionMet
<1>2. c.range \in Seq(Nat) BY DEF Condition
<1>3. c.range[1] \in Nat /\ c.range[2] \in Nat BY <1>1, <1>2
<1> QED BY <1>1, <1>3 DEF Between

\* A condition that lets a value pass is fulfilled by it, with or without its default.
LEMMA MetIsFulfilled ==
  ASSUME NEW c \in Condition, NEW v \in Nat, ~IsConditionMet(c, v) \/ ~IsConditionMet(OrZero(c), v)
  PROVE  Fulfils(c, v)
<1>1. CASE ~Asks(c) BY <1>1 DEF Fulfils
<1>2. CASE c.op \in Compares /\ c.target # Absent
  <2>1. c.target \in Nat BY <1>2 DEF Condition
  <2>2. ~IsConditionMet(c, v) BY <1>2 DEF OrZero
  <2> QED BY <1>2, <2>1, <2>2 DEF IsConditionMet, Fulfils, Compares
<1>3. CASE c.op = "in" /\ c.range # Absent
  <2>1. OrZero(c).op = "in" /\ OrZero(c).range = c.range BY <1>3 DEF OrZero, Condition
  <2>2. v \in Between(c.range) BY <1>3, <2>1, RangeIsMet
  <2> QED BY <1>3, <2>2 DEF Fulfils
<1> QED BY <1>1, <1>2, <1>3 DEF Asks

\* A strategy that does not reject a pool suits it.
LEMMA NotRejectedSuits ==
  ASSUME NEW s \in Strategy, NEW d \in Fact, ~Rejects(s, d)
  PROVE  Suits(s, d)
<1>1. /\ {s.price, s.reservesQuote, s.reservesBase, s.supply} \subseteq Condition
      /\ {d.price, d.reservesQuote, d.reservesBase, d.supply} \subseteq Nat
      /\ s.quote \in {"WSOL", "USDC", Absent}
  BY DEF Strategy, Fact
<1>2. /\ Fulfils(s.price, d.price) /\ Fulfils(s.reservesQuote, d.reservesQuote)
      /\ Fulfils(s.reservesBase, d.reservesBase) /\ Fulfils(s.supply, d.supply)
  BY <1>1, MetIsFulfilled DEF Rejects
<1>3. /\ s.freezable = d.freezable /\ s.renounced = d.renounced
      /\ s.mutable \in {Absent, d.mutable} /\ s.quote \in {Absent, d.quote}
  BY <1>1 DEF Rejects
<1> QED BY <1>2, <1>3 DEF Suits

\* Numbers that fit are computed as they are; numbers that do not are numbers still.
LEMMA ComputedTyped ==
  ASSUME TypeOK, NEW d \in Detected, NEW w \in Wrong
  PROVE  /\ Computed(d, w) \in Fact
         /\ chain[d.pool].power = "fits" => Computed(d, w) = chain[d.pool]
<1>1. chain[d.pool] \in Fact BY StrategyAssumption DEF TypeOK, Detected
<1>2. w.price \in Nat /\ w.reservesBase \in Nat /\ w.supply \in Nat BY StrategyAssumption
<1>3. chain[d.pool].power = "fits" => ~Overflows(d) BY DEF Overflows
<1> QED BY <1>1, <1>2, <1>3 DEF Computed, Fact

\* Complete data whose numbers fit is what the chain says; without the mint no mint is renounced.
LEMMA ReceivedData ==
  ASSUME TypeOK, NEW d \in Detected, NEW age \in Ages, NEW w \in Wrong
  PROVE  /\ d.known = Part /\ chain[d.pool].power = "fits" =>
              AsReceived(d, age, w) = [chain[d.pool] EXCEPT !.age = age]
         /\ "mint" \notin d.known => ~AsReceived(d, age, w).renounced
<1> DEFINE f == Computed(d, w)
           scaled == d.source = "pubsub" \/ "mint" \in d.known
           If(part, v, default) == IF part \in d.known THEN v ELSE default
           price == If("reserves", IF scaled THEN f.price ELSE f.price \div Scale, 0)
           quote == If("reserves", f.reservesQuote, 0)
           base == If("reserves", IF scaled THEN f.reservesBase ELSE f.reservesBase * Scale, 0)
           supply == If("mint", f.supply, 0)
           freezable == If("mint", f.freezable, FALSE)
           renounced == If("mint", f.renounced, FALSE)
           mutable == If("metadata", f.mutable, FALSE)
           g == [f EXCEPT !.price = price, !.reservesQuote = quote, !.reservesBase = base,
                          !.supply = supply, !.freezable = freezable, !.renounced = renounced,
                          !.mutable = mutable, !.age = age]
<1>1. f \in Fact BY ComputedTyped
<1>2. AsReceived(d, age, w) = g BY DEF AsReceived
<1>3. d.known = Part =>
        /\ price = f.price /\ quote = f.reservesQuote /\ base = f.reservesBase
        /\ supply = f.supply /\ freezable = f.freezable /\ renounced = f.renounced
        /\ mutable = f.mutable
  BY DEF Part
<1>4. "mint" \notin d.known => renounced = FALSE OBVIOUS
<1>5. chain[d.pool].power = "fits" => f = chain[d.pool] BY ComputedTyped
<1> HIDE DEF f, price, quote, base, supply, freezable, renounced, mutable
<1>6. /\ g.renounced = renounced
      /\ (/\ price = f.price /\ quote = f.reservesQuote /\ base = f.reservesBase
          /\ supply = f.supply /\ freezable = f.freezable /\ renounced = f.renounced
          /\ mutable = f.mutable) => g = [f EXCEPT !.age = age]
  BY <1>1 DEF Fact
<1> HIDE DEF g
<1> QED BY <1>2, <1>3, <1>4, <1>5, <1>6

\* The mint is taken over only with the reserves and the keys of the market before it, on its
\* way to the trader too, and what the trader chose, it chose for what it received.
Taken(k) == "mint" \in k => {"reserves", "market"} \subseteq k

Decided(r, d, age, w) ==
  /\ r.known = d.known
  /\ r.strategy = "none" \/ r.strategy \in Choices(Strategies, AsReceived(d, age, w))
  /\ r.data = AsReceived(d, age, w)

Decisions ==
  /\ \A d \in fetched : Taken(d.known)
  /\ \A i \in 1..Len(pools) : Taken(pools[i].known)
  /\ received = [p \in Pool |-> received[p]]
  /\ \A p \in Pool : received[p] # NotReceived =>
       \E d \in Detected, age \in Ages, w \in Wrong :
         d.pool = p /\ Taken(d.known) /\ Decided(received[p], d, age, w)

LEMMA InitDecisions == Init => Decisions
BY EmptySeq DEF Init, Decisions

LEMMA NextDecisions == TypeOK /\ Decisions /\ [Next]_vars => Decisions'
<1> SUFFICES ASSUME TypeOK, Decisions, [Next]_vars PROVE Decisions' OBVIOUS
<1>0. chain' = chain /\ \A d, age, w : AsReceived(d, age, w)' = AsReceived(d, age, w)
  <2>1. chain' = chain
    BY DEF Next, Loop, Subscribe, SubscribeFails, StreamEnds, Unsubscribe, BloxrouteRefused,
           Cancel, Finish, Create, ReadLog, LoadInitialized, Update, ReceivePool, DataTask,
           FetchData, FetchPanics, FetchAborts, SendPool, Decide, TraderStops, loopVars, vars
  <2> QED BY <2>1 DEF AsReceived, Computed, Overflows
<1>1. /\ received = [p \in Pool |-> received[p]]
      /\ pools \in Seq(Detected) /\ fetched \subseteq Detected
  BY DEF TypeOK, Decisions
<1>2. ASSUME \A d \in fetched' : Taken(d.known),
             \A i \in 1..Len(pools') : Taken(pools'[i].known),
             UNCHANGED received
      PROVE  Decisions'
  BY <1>0, <1>2 DEF Decisions, Decided
<1>3. CASE UNCHANGED <<fetched, pools, received>> BY <1>2, <1>3 DEF Decisions
<1>4. ASSUME NEW m \in fetching, DataTask(m) PROVE Decisions'
  <2>1. UNCHANGED received /\ \A i \in 1..Len(pools') : Taken(pools'[i].known)
    <3>1. UNCHANGED received /\ pools' \in {pools, <<>>} BY <1>4, DataTaskSteps
    <3>2. CASE pools' = pools BY <3>1, <3>2 DEF Decisions
    <3>3. CASE pools' = <<>> BY <3>1, <3>3, EmptySeq
    <3> QED BY <3>1, <3>2, <3>3
  <2>2. CASE fetched' \subseteq fetched BY <1>2, <2>1, <2>2 DEF Decisions
  <2>3. ASSUME NEW ok \in SUBSET Part, fetched' = fetched \cup {Data(m, ok)}
        PROVE  Decisions'
    <3>1. Taken(UpdateByResults(m.source, ok)) BY DEF Taken, UpdateByResults
    <3> QED BY <1>2, <2>1, <2>3, <3>1, DataPool DEF Decisions
  <2> QED BY <1>4, <2>2, <2>3, DataTaskSteps
<1>5. ASSUME NEW d \in fetched, SendPool(d) PROVE Decisions'
  <2>1. fetched' \subseteq fetched /\ UNCHANGED received BY <1>5 DEF SendPool
  <2>2. d \in Detected /\ Taken(d.known) BY <1>1 DEF Decisions
  <2>3. \A i \in 1..Len(pools') : Taken(pools'[i].known)
    <3>1. CASE UNCHANGED pools BY <3>1 DEF Decisions
    <3>2. CASE pools' = Append(pools, d)
      <4>1. /\ Len(pools') = Len(pools) + 1 /\ Len(pools) \in Nat
            /\ \A i \in 1..Len(pools) : pools'[i] = pools[i]
            /\ pools'[Len(pools) + 1] = d
        BY <1>1, <2>2, <3>2
      <4>2. \A i \in 1..Len(pools') : i \in 1..Len(pools) \/ i = Len(pools) + 1 BY <4>1
      <4> QED BY <2>2, <4>1, <4>2 DEF Decisions
    <3> QED BY <1>5, <3>1, <3>2 DEF SendPool
  <2> QED BY <1>2, <2>1, <2>3 DEF Decisions
<1>6. CASE Decide
  <2>1. pools # <<>> /\ pools' = Tail(pools) /\ fetched' = fetched BY <1>6 DEF Decide
  <2>2. /\ Len(pools) \in Nat \ {0} /\ Len(pools') = Len(pools) - 1
        /\ \A i \in 1..Len(pools') : pools'[i] = pools[i + 1]
        /\ Head(pools) = pools[1] /\ pools[1] \in Detected
    BY <1>1, <2>1
  <2>3. \A i \in 1..Len(pools') : Taken(pools'[i].known)
    <3>1. \A i \in 1..Len(pools') : i + 1 \in 1..Len(pools) BY <2>2
    <3> QED BY <2>2, <3>1 DEF Decisions
  <2> DEFINE d == Head(pools)
  <2>4. d \in Detected /\ d.pool \in Pool /\ Taken(d.known)
    BY <2>2 DEF Detected, Decisions
  <2>5. PICK age \in Ages, w \in Wrong :
          \E n \in IF Choices(Strategies, AsReceived(d, age, w)) = {} THEN {"none"}
                   ELSE Choices(Strategies, AsReceived(d, age, w)) :
            received' = [received EXCEPT ![d.pool] =
                          [known |-> d.known, data |-> AsReceived(d, age, w), strategy |-> n]]
    BY <1>6 DEF Decide
  <2>6. PICK n \in {"none"} \cup Choices(Strategies, AsReceived(d, age, w)) :
          received' = [received EXCEPT ![d.pool] =
                        [known |-> d.known, data |-> AsReceived(d, age, w), strategy |-> n]]
    BY <2>5
  <2> HIDE DEF d
  <2>7. received' = [p \in Pool |-> received'[p]] BY <1>1, <2>6
  <2>8. ASSUME NEW p \in Pool, received'[p] # NotReceived
        PROVE  \E e \in Detected, a \in Ages, v \in Wrong :
                 e.pool = p /\ Taken(e.known) /\ Decided(received'[p], e, a, v)
    <3>1. CASE p = d.pool
      <4>1. received'[p] = [known |-> d.known, data |-> AsReceived(d, age, w), strategy |-> n]
        BY <1>1, <2>6, <3>1
      <4>2. Decided(received'[p], d, age, w) BY <4>1 DEF Decided
      <4> QED BY <2>4, <3>1, <4>2
    <3>2. CASE p # d.pool
      <4>1. received'[p] = received[p] BY <1>1, <2>6, <3>2
      <4> QED BY <2>8, <4>1 DEF Decisions
    <3> QED BY <3>1, <3>2
  <2> QED BY <1>0, <2>1, <2>3, <2>7, <2>8 DEF Decisions, Decided
<1>7. CASE TraderStops
  BY <1>2, <1>7, EmptySeq DEF TraderStops, Decisions
<1>8. CASE \E l \in AnyLoop : Loop(l)
  BY <1>3, <1>8 DEF Loop, Subscribe, SubscribeFails, StreamEnds, Unsubscribe, pipeVars
<1>9. CASE BloxrouteRefused \/ Cancel \/ Finish \/ ReadLog \/ LoadInitialized
  BY <1>3, <1>9 DEF BloxrouteRefused, Cancel, Finish, ReadLog, LoadInitialized, pipeVars
<1>10. CASE \E p \in Pool : Create(p) BY <1>3, <1>10 DEF Create, pipeVars
<1>11. CASE (\E l \in AnyLoop, p \in Pool : Update(l, p)) \/ ReceivePool
  BY <1>3, <1>11 DEF Update, ReceivePool
<1>12. CASE UNCHANGED vars BY <1>3, <1>12 DEF vars
<1> QED BY <1>4, <1>5, <1>6, <1>7, <1>8, <1>9, <1>10, <1>11, <1>12 DEF Next

\* In every reachable state: what the trader got, it got in this order, and what it chose, it
\* chose for the data it got.
THEOREM DecisionsKept == Spec => []Decisions
BY TypeCorrect, InitDecisions, NextDecisions, PTL DEF Spec

\* Whatever the order in which the data of a pool arrives and whatever the strategies leave
\* out, the trader trades it only by a strategy whose every condition the pool fulfils, if all
\* of its data is there and its numbers fit; of its age nothing is said (strategy.rs:20-129).
THEOREM ChoiceSuits == Spec => []ChosenSuits
<1>1. TypeOK /\ Decisions => ChosenSuits
  <2> SUFFICES ASSUME TypeOK, Decisions, NEW p \in Pool, Traded(p), received[p].known = Part,
                      chain[p].power = "fits"
               PROVE  Suits(Strategies[received[p].strategy], chain[p])
    BY DEF ChosenSuits
  <2>1. PICK d \in Detected, age \in Ages, w \in Wrong :
          d.pool = p /\ Decided(received[p], d, age, w)
    BY DEF Decisions, Traded
  <2> DEFINE data == [chain[p] EXCEPT !.age = age]
             s == Strategies[received[p].strategy]
  <2>2. AsReceived(d, age, w) = data BY <2>1, ReceivedData DEF Decided
  <2>3. chain[p] \in Fact /\ age \in Nat BY StrategyAssumption DEF TypeOK
  <2>4. data \in Fact BY <2>3 DEF Fact
  <2>5. s \in Strategy /\ ~Rejects(s, data)
    BY <2>1, <2>2, StrategyAssumption DEF Decided, Traded, Choices
  <2>6. Suits(s, data)
    <3> HIDE DEF s, data
    <3> QED BY <2>4, <2>5, NotRejectedSuits
  <2> QED BY <2>3, <2>6 DEF Suits, Fact
<1> QED BY <1>1, TypeCorrect, DecisionsKept, PTL

\* A pool is traded by a strategy that asks for a renounced mint only when everything that a
\* swap in it needs was fetched: the results are taken in order, up to the first error
\* (detector/mod.rs:431-540).
THEOREM RenouncedHasKeys == Spec => []RenouncedIsTradable
<1>1. TypeOK /\ Decisions => RenouncedIsTradable
  <2> SUFFICES ASSUME TypeOK, Decisions, NEW p \in Pool, Traded(p),
                      Strategies[received[p].strategy].renounced
               PROVE  {"reserves", "market", "mint"} \subseteq received[p].known
    BY DEF RenouncedIsTradable
  <2>1. PICK d \in Detected, age \in Ages, w \in Wrong :
          d.pool = p /\ Taken(d.known) /\ Decided(received[p], d, age, w)
    BY DEF Decisions, Traded
  <2>2. ~Rejects(Strategies[received[p].strategy], AsReceived(d, age, w))
    BY <2>1 DEF Decided, Traded, Choices
  <2>3. AsReceived(d, age, w).renounced BY <2>2 DEF Rejects
  <2>4. "mint" \in d.known BY <2>3, ReceivedData
  <2> QED BY <2>1, <2>4 DEF Taken, Decided
<1> QED BY <1>1, TypeCorrect, DecisionsKept, PTL
=============================================================================
