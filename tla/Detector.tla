------------------------------ MODULE Detector ------------------------------
(***************************************************************************)
(* The detector (src/src/detector/mod.rs, raydium.rs): the subscription    *)
(* loops, the join of the two messages about a new pool, the tasks that    *)
(* fetch its data, and the trader's side of the channel, up to the choice  *)
(* of a strategy.                                                          *)
(***************************************************************************)
EXTENDS Decision, FiniteSets

CONSTANTS
  Pool,
  Fresh,        \* pools initialised while the program runs; the others are older
  Wanted,       \* pools with a token of the watchlist
  Facts,        \* per pool: what a node may say of it
  Scale,        \* 10^decimals of the tokens
  Wrong,        \* what comes out of a 10^decimals that wrapped around
  Strategies,   \* the strategies of the configuration, by name
  Ages,         \* how long ago a pool may have been detected
  InternalCap,  \* capacity of the channel to the receiver task
  PoolCap,      \* capacity of the channel to the trader
  MaxAttempts,  \* MAX_SUBSCRIPTION_RETRIES
  Modes,        \* "pubsub", "bloxroute": bloxroute.enabled
  NotReceived

ASSUME DetectorAssumption ==
  /\ Fresh \subseteq Pool /\ Wanted \subseteq Pool
  /\ InternalCap \in Nat \ {0} /\ PoolCap \in Nat \ {0} /\ MaxAttempts \in Nat \ {0, 1}
  /\ Modes \subseteq {"pubsub", "bloxroute"}

\* Nothing is asked of the strategies: any condition may lack its operator or its values.
ASSUME StrategyAssumption ==
  /\ \A n \in DOMAIN Strategies : Strategies[n] \in Strategy
  /\ \A p \in Pool : Facts[p] \subseteq Fact
  /\ Ages \subseteq Nat /\ Scale \in Nat \ {0}
  /\ Wrong \subseteq [price : Nat, reservesBase : Nat, supply : Nat] /\ Wrong # {}

VARIABLES
  mode,        \* where pools are detected
  chain,       \* per pool: what a node says of it
  created,     \* the pools on the chain
  pc,          \* per subscription loop: where it is
  attempts,    \* per subscription loop: its attempts
  logs,        \* logs of initialize2 on their way to the subscriber
  initialized, \* initialized_pool_cache
  processed,   \* processed_pool_cache
  skipped,     \* pools the receiver skipped as not initialised
  internal,    \* the channel to the receiver task
  fetching,    \* the tasks that fetch the data of a pool
  fetched,     \* the tasks that have it and send the pool to the trader
  pools,       \* the channel to the trader
  passed,      \* per pool: how often it was sent to the trader
  received,    \* per pool: what the trader received, and the strategy it chose
  cancelled,   \* the cancel token
  running,     \* detector::run has not returned
  trading      \* Trader::start has not returned

vars == <<mode, chain, created, pc, attempts, logs, initialized, processed, skipped, internal,
          fetching, fetched, pools, passed, received, cancelled, running, trading>>

Loops == IF mode = "bloxroute" THEN {"bloxroute"} ELSE {"logs", "accounts"}
AnyLoop == {"bloxroute", "logs", "accounts"}
Message == [pool : Pool, source : {"pubsub", "bloxroute"}]
Part == {"reserves", "market", "mint", "metadata"}
Detected == [pool : Pool, source : {"pubsub", "bloxroute"}, known : SUBSET Part]

TypeOK ==
  /\ mode \in Modes /\ \A p \in Pool : chain[p] \in Facts[p]
  /\ created \subseteq Pool
  /\ pc \in [AnyLoop -> {"connect", "up", "load", "done"}]
  /\ attempts \in [AnyLoop -> 0..MaxAttempts]
  /\ logs \in Seq(Fresh) /\ initialized \subseteq Fresh
  /\ processed \subseteq Pool /\ skipped \subseteq processed
  /\ internal \in Seq(Message) /\ Len(internal) <= InternalCap
  /\ fetching \subseteq Message /\ fetched \subseteq Detected
  /\ pools \in Seq(Detected) /\ Len(pools) <= PoolCap
  /\ passed \in [Pool -> Nat]
  /\ cancelled \in BOOLEAN /\ running \in BOOLEAN /\ trading \in BOOLEAN

Init ==
  /\ mode \in Modes
  /\ chain \in {f \in [Pool -> UNION {Facts[p] : p \in Pool}] : \A p \in Pool : f[p] \in Facts[p]}
  /\ created = Pool \ Fresh
  /\ pc = [l \in AnyLoop |-> "connect"]
  /\ attempts = [l \in AnyLoop |-> 0]
  /\ logs = <<>> /\ internal = <<>> /\ pools = <<>>
  /\ initialized = {} /\ processed = {} /\ skipped = {}
  /\ fetching = {} /\ fetched = {}
  /\ passed = [p \in Pool |-> 0]
  /\ received = [p \in Pool |-> NotReceived]
  /\ cancelled = FALSE /\ running = TRUE /\ trading = TRUE

pipeVars == <<processed, skipped, internal, fetching, fetched, pools, passed, received, trading>>
loopVars == <<mode, chain, created, pc, attempts, logs, initialized, cancelled, running>>

(***************************************************************************)
(* The subscription loops                                                  *)
(***************************************************************************)

\* A bug in the loops: the counter survives a successful subscription.
KeepAttempts(l) == attempts

ResetAttempts(l) == [attempts EXCEPT ![l] = 0]

CountAttempt(l) == attempts' = [attempts EXCEPT ![l] = @ + 1]

\* A bug in handle_attempt: one attempt too many.
GivesUpLate(l) == attempts[l] + 1 > MaxAttempts

\* handle_attempt, of error.rs: the limit is compared after the increment.
GivesUp(l) == attempts[l] + 1 >= MaxAttempts

At(l, pcs) == running /\ l \in Loops /\ pc[l] \in pcs
Goto(l, to) == pc' = [pc EXCEPT ![l] = to]

Subscribe(l) ==
  /\ At(l, {"connect"})
  /\ Goto(l, "up")
  /\ attempts' = ResetAttempts(l)
  /\ UNCHANGED <<mode, chain, created, logs, initialized, cancelled, running, pipeVars>>

\* A bug in the loops: the last attempt ends the loop and nothing else.
CancelNothing(l) == cancelled

\* The PubSub loops take the program with them, the Bloxroute loop does not.
CancelAfter(l) == cancelled \/ l # "bloxroute"

SubscribeFails(l) ==
  /\ At(l, {"connect"})
  /\ CountAttempt(l)
  /\ \/ ~GivesUp(l) /\ UNCHANGED <<pc, cancelled>>
     \/ GivesUp(l) /\ Goto(l, "done") /\ cancelled' = CancelAfter(l)
  /\ UNCHANGED <<mode, chain, created, logs, initialized, running, pipeVars>>

\* No URL, no token, or the request for the stream cannot be sent.
BloxrouteRefused ==
  /\ At("bloxroute", {"connect"})
  /\ Goto("bloxroute", "done")
  /\ UNCHANGED <<mode, chain, created, attempts, logs, initialized, cancelled, running, pipeVars>>

\* The subscription to logs starts over at once, the others after an attempt is counted.
StreamEnds(l) ==
  /\ At(l, {"up", "load"})
  /\ IF l = "logs" THEN Goto(l, "connect") /\ UNCHANGED attempts
     ELSE CountAttempt(l) /\ Goto(l, IF GivesUp(l) THEN "done" ELSE "connect")
  /\ logs' = IF l = "logs" THEN <<>> ELSE logs
  /\ UNCHANGED <<mode, chain, created, initialized, cancelled, running, pipeVars>>

\* A bug in the loops: after the unsubscription the loop goes round again.
UnsubscribeAndGoOn(l) ==
  /\ At(l, {"up", "load"})
  /\ cancelled
  /\ Goto(l, "connect")
  /\ UNCHANGED <<mode, chain, created, attempts, logs, initialized, cancelled, running, pipeVars>>

Unsubscribe(l) ==
  /\ At(l, {"up", "load"})
  /\ cancelled
  /\ Goto(l, "done")
  /\ UNCHANGED <<mode, chain, created, attempts, logs, initialized, cancelled, running, pipeVars>>

\* Ctrl-C, or another part of the program gives up.
Cancel ==
  /\ ~cancelled
  /\ cancelled' = TRUE
  /\ UNCHANGED <<mode, chain, created, pc, attempts, logs, initialized, running, pipeVars>>

\* start() returns, and with it detector::run and its receiver task.
Finish ==
  /\ running
  /\ \A l \in Loops : pc[l] = "done"
  /\ running' = FALSE
  /\ internal' = <<>>
  /\ UNCHANGED <<mode, chain, created, pc, attempts, logs, initialized, cancelled, processed,
                 skipped, fetching, fetched, pools, passed, received, trading>>

(***************************************************************************)
(* What the streams bring                                                  *)
(***************************************************************************)

\* A pool is initialised on the chain; nobody hears of it without a subscription.
Create(p) ==
  /\ p \in Fresh \ created
  /\ created' = created \cup {p}
  /\ logs' = IF mode = "pubsub" /\ pc["logs"] \in {"up", "load"} THEN Append(logs, p) ELSE logs
  /\ UNCHANGED <<mode, chain, pc, attempts, initialized, cancelled, running, pipeVars>>

\* The next log: its transaction is fetched.
ReadLog ==
  /\ At("logs", {"up"})
  /\ logs # <<>>
  /\ Goto("logs", "load")
  /\ UNCHANGED <<mode, chain, created, attempts, logs, initialized, cancelled, running, pipeVars>>

\* A transaction that cannot be fetched, or read, is skipped.
LoadInitialized ==
  /\ At("logs", {"load"})
  /\ initialized' \in {initialized, initialized \cup {Head(logs)}}
  /\ logs' = Tail(logs)
  /\ Goto("logs", "up")
  /\ UNCHANGED <<mode, chain, created, attempts, cancelled, running, pipeVars>>

\* An update of the account of any pool, or a new pool of the Bloxroute stream.
Update(l, p) ==
  /\ l # "logs" /\ At(l, {"up"})
  /\ p \in created /\ (l = "bloxroute" => p \in Fresh)
  /\ Len(internal) < InternalCap
  /\ internal' = Append(internal, [pool |-> p, source |-> mode])
  /\ UNCHANGED <<loopVars, processed, skipped, fetching, fetched, pools, passed, received, trading>>

(***************************************************************************)
(* The receiver task, and one task per pool                                *)
(***************************************************************************)

\* A bug in the receiver: a pool is looked up in the cache and not put in.
ProcessNothing(p) == processed

Process(p) == processed \cup {p}

\* A bug in the receiver: pools that are not initialised are taken too.
NeverOld(m) == FALSE

OldPool(m) == m.source = "pubsub" /\ m.pool \notin initialized

ReceivePool ==
  /\ running
  /\ internal # <<>>
  /\ internal' = Tail(internal)
  /\ LET m == Head(internal)
         new == m.pool \notin processed
         wanted == new /\ m.pool \in Wanted
     IN  /\ processed' = IF new THEN Process(m.pool) ELSE processed
         /\ skipped' = IF wanted /\ OldPool(m) THEN skipped \cup {m.pool} ELSE skipped
         /\ fetching' = IF wanted /\ ~OldPool(m) THEN fetching \cup {m} ELSE fetching
  /\ UNCHANGED <<loopVars, fetched, pools, passed, received, trading>>

\* Bloxroute sends the reserves and the keys of the market with the pool.
Results(source, ok) == IF source = "pubsub" THEN ok ELSE ok \cup {"reserves", "market"}

\* A bug in update_pool_by_results: a failed result does not end the update.
UpdateAll(source, ok) == Results(source, ok)

\* The results are taken in this order, and the first error ends the update.
UpdateByResults(source, ok) ==
  LET before == [reserves |-> {}, market |-> {"reserves"}, mint |-> {"reserves", "market"},
                 metadata |-> {"reserves", "market", "mint"}]
      have == Results(source, ok)
  IN  {x \in have : before[x] \subseteq have}

\* A bug in the task of a pool: it ends when something could not be fetched.
FetchDataOrEnd(m) ==
  /\ fetching' = fetching \ {m}
  /\ fetched' \in {fetched, fetched \cup {[pool |-> m.pool, source |-> m.source, known |-> Part]}}
  /\ UNCHANGED <<loopVars, processed, skipped, internal, pools, passed, received, trading>>

Data(m, ok) ==
  [pool |-> m.pool, source |-> m.source, known |-> UpdateByResults(m.source, ok)]

\* 10^decimals overflows: PubSub knows the decimals from the account of the pool, Bloxroute
\* from the mint.
Overflows(d) ==
  chain[d.pool].power # "fits" /\ (d.source = "pubsub" \/ "mint" \in d.known)

\* The release build goes on with a power that wrapped around.
FetchData(m) ==
  /\ fetching' = fetching \ {m}
  /\ \E ok \in SUBSET Part :
       /\ Overflows(Data(m, ok)) => chain[m.pool].power = "wraps"
       /\ fetched' = fetched \cup {Data(m, ok)}
  /\ UNCHANGED <<loopVars, processed, skipped, internal, pools, passed, received, trading>>

\* A build that checks for overflow: the task panics, and the pool is lost with it.
FetchPanics(m) ==
  /\ \E ok \in SUBSET Part : Overflows(Data(m, ok))
  /\ fetching' = fetching \ {m}
  /\ UNCHANGED <<loopVars, processed, skipped, internal, fetched, pools, passed, received, trading>>

\* The release build divides the supply by the power that wrapped to zero, and its panic is
\* the end of the program (panic = 'abort', Cargo.toml:77).
FetchAborts(m) ==
  /\ \E ok \in SUBSET Part : Overflows(Data(m, ok)) /\ chain[m.pool].power = "zero"
  /\ running' = FALSE /\ trading' = FALSE
  /\ internal' = <<>> /\ pools' = <<>> /\ fetching' = {} /\ fetched' = {}
  /\ UNCHANGED <<mode, chain, created, pc, attempts, logs, initialized, cancelled, processed,
                 skipped, passed, received>>

DataTask(m) == FetchData(m) \/ FetchPanics(m) \/ FetchAborts(m)

\* A pool found too late is dropped: the trader has closed the channel.
SendPool(d) ==
  /\ \/ /\ trading
        /\ Len(pools) < PoolCap
        /\ pools' = Append(pools, d)
        /\ passed' = [passed EXCEPT ![d.pool] = @ + 1]
     \/ ~trading /\ UNCHANGED <<pools, passed>>
  /\ fetched' = fetched \ {d}
  /\ UNCHANGED <<loopVars, processed, skipped, internal, fetching, received, trading>>

(***************************************************************************)
(* The trader's side                                                       *)
(***************************************************************************)

\* What the power that wrapped around goes into: the supply, and with Bloxroute the reserves.
Computed(d, w) ==
  LET f == chain[d.pool]
  IN  IF ~Overflows(d) THEN f
      ELSE IF d.source = "pubsub" THEN [f EXCEPT !.supply = w.supply]
      ELSE [f EXCEPT !.price = w.price, !.reservesBase = w.reservesBase, !.supply = w.supply]

\* What was not fetched keeps its default.  Bloxroute sends reserves without decimals,
\* which come with the mint of the token.
AsReceived(d, age, w) ==
  LET f == Computed(d, w)
      scaled == d.source = "pubsub" \/ "mint" \in d.known
      If(part, v, default) == IF part \in d.known THEN v ELSE default
  IN  [f EXCEPT
        !.price = If("reserves", IF scaled THEN @ ELSE @ \div Scale, 0),
        !.reservesQuote = If("reserves", @, 0),
        !.reservesBase = If("reserves", IF scaled THEN @ ELSE @ * Scale, 0),
        !.supply = If("mint", @, 0),
        !.freezable = If("mint", @, FALSE),
        !.renounced = If("mint", @, FALSE),
        !.mutable = If("metadata", @, FALSE),
        !.age = age]

\* A task of its own, but choose_strategy comes before its first wait.
Decide ==
  /\ trading
  /\ pools # <<>>
  /\ pools' = Tail(pools)
  /\ \E age \in Ages, w \in Wrong :
       LET d == Head(pools)
           data == AsReceived(d, age, w)
           names == Choices(Strategies, data)
       IN  \E n \in IF names = {} THEN {"none"} ELSE names :
             received' = [received EXCEPT ![d.pool] =
                           [known |-> d.known, data |-> data, strategy |-> n]]
  /\ UNCHANGED <<loopVars, processed, skipped, internal, fetching, fetched, passed, trading>>

\* Pools still in the channel go with the trader.
TraderStops ==
  /\ trading /\ cancelled
  /\ trading' = FALSE
  /\ pools' = <<>>
  /\ UNCHANGED <<loopVars, processed, skipped, internal, fetching, fetched, passed, received>>

Loop(l) ==
  Subscribe(l) \/ SubscribeFails(l) \/ StreamEnds(l) \/ Unsubscribe(l)

Next ==
  \/ \E l \in AnyLoop : Loop(l)
  \/ BloxrouteRefused
  \/ Cancel
  \/ Finish
  \/ \E p \in Pool : Create(p)
  \/ ReadLog
  \/ LoadInitialized
  \/ \E l \in AnyLoop, p \in Pool : Update(l, p)
  \/ ReceivePool
  \/ \E m \in fetching : DataTask(m)
  \/ \E d \in fetched : SendPool(d)
  \/ Decide
  \/ TraderStops

Spec == Init /\ [][Next]_vars

(***************************************************************************)
(* Every task that can run does; an attempt to subscribe comes to an end.  *)
(* select! picks one of its ready branches at random, so a loop that finds *)
(* the token cancelled again and again takes that branch.                  *)
(***************************************************************************)
Fairness ==
  /\ \A l \in AnyLoop :
       /\ WF_vars(Subscribe(l) \/ SubscribeFails(l))
       /\ SF_vars(Unsubscribe(l))
  /\ WF_vars(Finish)
  /\ WF_vars(ReceivePool)
  /\ \A p \in Pool :
       /\ WF_vars(\E m \in fetching : m.pool = p /\ DataTask(m))
       /\ SF_vars(\E d \in fetched : d.pool = p /\ SendPool(d))
  /\ WF_vars(Decide)
  /\ SF_vars(TraderStops)

FairSpec == Spec /\ Fairness

----------------------------------------------------------------------------

InFlight(p) == {m \in fetching : m.pool = p} \cup {d \in fetched : d.pool = p}
Traded(p) == received[p] # NotReceived /\ received[p].strategy # "none"

\* However many messages of however many streams there are about a pool, it is passed to the
\* trader at most once: a second trade of one pool would share its map entries.
PassedOnce == \A p \in Pool : passed[p] + Cardinality(InFlight(p)) <= 1

\* PubSub passes on a pool only if its initialize2 was seen while the program ran, whatever
\* the order of the two messages (detector/mod.rs:179-216).
OnlyInitialized ==
  mode = "pubsub" => \A p \in Pool : passed[p] > 0 \/ InFlight(p) # {} => p \in initialized

\* The program never goes on without its base source of pools: "if it fails the bot should
\* be gracefully exited" (raydium.rs:278-279).
NeverBlind == mode = "pubsub" /\ (\E l \in Loops : pc[l] = "done") => cancelled

\* The strategy chosen suits the pool as the chain has it, condition by condition, if all of
\* the data arrived and its numbers fit (strategy.rs:20-129).  The age of the pool is not among
\* the conditions: what the configuration promises of it the code does not keep, see Suits.
ChosenSuits ==
  \A p \in Pool : Traded(p) /\ received[p].known = Part /\ chain[p].power = "fits" =>
    Suits(Strategies[received[p].strategy], chain[p])

\* A strategy that asks for a renounced mint trades no pool whose data is incomplete in what
\* a swap needs: without the keys of the market the mint is not taken over either.
RenouncedIsTradable ==
  \A p \in Pool : Traded(p) /\ Strategies[received[p].strategy].renounced =>
    {"reserves", "market", "mint"} \subseteq received[p].known

\* Once cancelled, the detector and the trader return, whatever the subscriptions do
\* (main.rs:54-57 waits for both).
ShutsDown == cancelled ~> (~running /\ ~trading)

\* A pool whose data is being fetched is decided on in the end, unless the trader is gone; if
\* its numbers do not fit, its task may panic and the pool is lost (detector/mod.rs:281-303).
FetchedIsDecided ==
  \A p \in Pool :
    InFlight(p) # {} /\ chain[p].power = "fits" ~> (received[p] # NotReceived \/ ~trading)

\* A pool skipped because it is not in the cache of initialised pools is an old one, and does
\* not get into that cache afterwards (detector/mod.rs:212-216).
SkippedIsOld == skipped \cap initialized = {}
=============================================================================
