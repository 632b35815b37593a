------------------------------- MODULE TradeBridge -------------------------------
(***************************************************************************)
(* The Bot trade bridge (trade_bridge.rs) between the OKX trade streams and *)
(* the Bot decision path.  It keeps one stream per user for the instruments *)
(* of that user's Running Bots, a queue per user with the latest trade of   *)
(* each instrument, at most one loop per user that drains it into the       *)
(* decision path, and a clock for the users that have a stream.             *)
(*                                                                          *)
(* Two locks: streams (refresh, clock) and dispatches (enqueue, drain).     *)
(* What happens under one of them is one action; a stream's callback, the   *)
(* spawn of a loop, and the call of the sink are outside both.  Bots start, *)
(* stop and fault in other threads; a lifecycle command acts, then lists    *)
(* the Running Bots, then refreshes, each on its own.                       *)
(***************************************************************************)
EXTENDS Naturals, FiniteSets

CONSTANTS Users,
          Codes,
          CodeOrder,    \* BTreeMap order of the instrument codes
          Streams,      \* stream tasks; a task that is over may serve again
          NoStream,
          Threads,      \* blocking threads that may run a drain loop
          Slots,        \* lifecycle commands in progress at the same time
          MaxTrades,    \* bound: trades that reach a stream
          MaxChanges    \* bound: Bot starts, stops and faults

ASSUME BridgeAssumption ==
  /\ Users \cap Streams = {} /\ NoStream \notin Streams
  /\ CodeOrder \in [Codes -> Nat]
  /\ \A c, d \in Codes : CodeOrder[c] = CodeOrder[d] => c = d
  /\ MaxTrades \in Nat /\ MaxChanges \in Nat

Idle == [pc |-> "idle"]
Free == [state |-> "free"]
NoTrade == 0

\* What feeds the queues: the Bot streams, and a trade stream of the user
\* interface for each user.
Producers == Streams \cup Users

VARIABLES
  running,     \* the instruments of each user's Running Bots
  launched,    \* those that Paper Experiments launched since the last list
  changes,     \* how many changes of Bots the bound has seen
  slot,        \* each lifecycle command: idle, acted, or holding its list
  streams,     \* BotTradeBridge.streams: each user's entry
  task,        \* each stream task: whose, for which codes, and how far
  market,      \* how many trades have reached some stream
  call,        \* each producer's callback into the bridge
  pending,     \* TradeDispatchQueue.pending
  draining,    \* TradeDispatchQueue.running
  loop,        \* each blocking thread
  ticking,     \* the users the clock still calls in this round
  queued,      \* history: the trade each user's queue took last, by code
  handled      \* history: the trade each user's sink returned from last

bots == <<running, launched, changes>>
queues == <<pending, draining, queued>>
vars == <<bots, slot, streams, task, market, call, queues, loop, ticking, handled>>

Task == [state: {"free"}] \cup [state: {"live", "ended"}, user: Users, codes: SUBSET Codes]
Call == {Idle} \cup
        [pc: {"enqueue"}, user: Users, code: Codes, trade: Nat] \cup
        [pc: {"spawn"}, user: Users]
Loop == {Idle} \cup [pc: {"take"}, user: Users] \cup
        [pc: {"sink"}, user: Users, code: Codes, trade: Nat]
Slot == {Idle} \cup [pc: {"acted"}, user: Users] \cup
        [pc: {"listed"}, user: Users, codes: SUBSET Codes]

TypeOK ==
  /\ running \in [Users -> SUBSET Codes] /\ launched \in [Users -> SUBSET Codes]
  /\ changes \in Nat
  /\ slot \in [Slots -> Slot]
  /\ streams \in [Users -> Streams \cup {NoStream}]
  /\ task \in [Streams -> Task]
  /\ market \in Nat
  /\ call \in [Producers -> Call]
  /\ pending \in [Users -> [Codes -> Nat]] /\ draining \in [Users -> BOOLEAN]
  /\ loop \in [Threads -> Loop]
  /\ ticking \in SUBSET Users
  /\ queued \in [Users -> [Codes -> Nat]] /\ handled \in [Users -> [Codes -> Nat]]

Init ==
  /\ running = [u \in Users |-> {}] /\ launched = [u \in Users |-> {}] /\ changes = 0
  /\ slot = [s \in Slots |-> Idle]
  /\ streams = [u \in Users |-> NoStream]
  /\ task = [t \in Streams |-> Free]
  /\ market = 0
  /\ call = [p \in Producers |-> Idle]
  /\ pending = [u \in Users |-> [c \in Codes |-> NoTrade]]
  /\ draining = [u \in Users |-> FALSE]
  /\ loop = [w \in Threads |-> Idle]
  /\ ticking = {}
  /\ queued = [u \in Users |-> [c \in Codes |-> NoTrade]]
  /\ handled = [u \in Users |-> [c \in Codes |-> NoTrade]]

--------------------------------------------------------------------------------
(* Bots, in other threads *)

ChangeRunning(u, codes) ==
  /\ changes < MaxChanges
  /\ changes' = changes + 1
  /\ running' = [running EXCEPT ![u] = codes]
  /\ launched' = [launched EXCEPT ![u] = @ \cap codes]

\* complete_lifecycle_command: the action starts, resumes, pauses or stops one
\* Bot; an action that fails returns before the refresh.
CommandActs(s, u) ==
  /\ slot[s] = Idle
  /\ \E c \in Codes : \/ c \notin running[u] /\ ChangeRunning(u, running[u] \cup {c})
                      \/ c \in running[u] /\ ChangeRunning(u, running[u] \ {c})
  /\ slot' = [slot EXCEPT ![s] = [pc |-> "acted", user |-> u]]
  /\ UNCHANGED <<streams, task, market, call, queues, loop, ticking, handled>>

\* The supervisor's monitor faults a Bot; nothing refreshes the stream.
BotFaults(u) ==
  /\ \E c \in running[u] : ChangeRunning(u, running[u] \ {c})
  /\ UNCHANGED <<slot, streams, task, market, call, queues, loop, ticking, handled>>

\* launch_experiment calls start_experiment_bot, which is start_bot alone.
ExperimentLaunches(u) ==
  /\ changes < MaxChanges /\ changes' = changes + 1
  /\ \E c \in Codes \ running[u] :
       /\ running' = [running EXCEPT ![u] = @ \cup {c}]
       /\ launched' = [launched EXCEPT ![u] = @ \cup {c}]
  /\ UNCHANGED <<slot, streams, task, market, call, queues, loop, ticking, handled>>

\* running_bot_trade_codes, read from the Bot store without the streams lock.
CommandLists(s) ==
  /\ slot[s].pc = "acted"
  /\ slot' = [slot EXCEPT ![s] = [pc |-> "listed", user |-> slot[s].user,
                                  codes |-> running[slot[s].user]]]
  /\ launched' = [launched EXCEPT ![slot[s].user] = {}]
  /\ UNCHANGED <<running, changes, streams, task, market, call, queues, loop, ticking, handled>>

--------------------------------------------------------------------------------
(* Streams *)

\* refresh: keep a stream with the same codes, whatever became of its task;
\* else abort it, and start another for a non-empty set.
\* Mutant: any stream will do.
AnyStream(u, codes) == streams[u] # NoStream

Unchanged(u, codes) == streams[u] # NoStream /\ task[streams[u]].codes = codes

Dropped(u) == [t \in Streams |-> IF t = streams[u] THEN Free ELSE task[t]]
Unused == {t \in Streams : task[t] = Free /\ call[t] = Idle}

Refresh(s) ==
  /\ slot[s].pc = "listed"
  /\ LET u == slot[s].user
         codes == slot[s].codes
     IN \/ /\ Unchanged(u, codes)
           /\ UNCHANGED <<streams, task>>
        \/ /\ ~Unchanged(u, codes) /\ codes = {}
           /\ streams' = [streams EXCEPT ![u] = NoStream]
           /\ task' = Dropped(u)
        \/ /\ ~Unchanged(u, codes) /\ codes # {}
           /\ Unused # {}
           /\ LET t == CHOOSE i \in Unused : TRUE
              IN /\ task' = [Dropped(u) EXCEPT ![t] = [state |-> "live", user |-> u, codes |-> codes]]
                 /\ streams' = [streams EXCEPT ![u] = t]
  /\ slot' = [slot EXCEPT ![s] = Idle]
  /\ UNCHANGED <<bots, market, call, queues, loop, ticking, handled>>

\* stream_trades reconnects by itself; it returns when a trade or the stream's
\* health could not be stored.  Nobody looks at the task again.
StreamEnds(t) ==
  /\ task[t].state = "live" /\ call[t] = Idle
  /\ task' = [task EXCEPT ![t].state = "ended"]
  /\ UNCHANGED <<bots, slot, streams, market, call, queues, loop, ticking, handled>>

\* A trade reaches a producer, whose callback begins.  An abort does not wait
\* for a callback that has begun.
Receive(p, u, c) ==
  /\ call[p] = Idle
  /\ market < MaxTrades
  /\ market' = market + 1
  /\ call' = [call EXCEPT ![p] = [pc |-> "enqueue", user |-> u, code |-> c,
                                  trade |-> market + 1]]
  /\ UNCHANGED <<bots, slot, streams, task, queues, loop, ticking, handled>>

StreamTrade(t) ==
  task[t].state = "live" /\ \E c \in task[t].codes : Receive(t, task[t].user, c)

UiTrade(u) == \E c \in Codes : Receive(u, u, c)

--------------------------------------------------------------------------------
(* The dispatch queue *)

\* The queue after a trade of instrument c: the latest wins.
\* Mutant: the first one stays.
FirstWins(u, c, trade) ==
  [pending EXCEPT ![u][c] = IF @ = NoTrade THEN trade ELSE @]
LatestWins(u, c, trade) == [pending EXCEPT ![u][c] = trade]

\* Mutant: whoever enqueues spawns a loop.
AlwaysSpawn(u) == TRUE
ShouldSpawn(u) == ~draining[u]

\* enqueue_trade_dispatch under the lock: the latest trade of an instrument
\* wins, and whoever finds no loop running has to spawn one.
Enqueue(p) ==
  /\ call[p].pc = "enqueue"
  /\ LET u == call[p].user
     IN /\ pending' = LatestWins(u, call[p].code, call[p].trade)
        /\ queued' = [queued EXCEPT ![u][call[p].code] = call[p].trade]
        /\ draining' = [draining EXCEPT ![u] = TRUE]
        /\ call' = [call EXCEPT ![p] = IF ShouldSpawn(u) THEN [pc |-> "spawn", user |-> u]
                                       ELSE Idle]
  /\ UNCHANGED <<bots, slot, streams, task, market, loop, ticking, handled>>

IdleThreads == {w \in Threads : loop[w] = Idle}

Spawn(p) ==
  /\ call[p].pc = "spawn"
  /\ IdleThreads # {}
  /\ LET w == CHOOSE i \in IdleThreads : TRUE
     IN loop' = [loop EXCEPT ![w] = [pc |-> "take", user |-> call[p].user]]
  /\ call' = [call EXCEPT ![p] = Idle]
  /\ UNCHANGED <<bots, slot, streams, task, market, queues, ticking, handled>>

Waiting(u) == {c \in Codes : pending[u][c] # NoTrade}
FirstWaiting(u) == CHOOSE c \in Waiting(u) : \A d \in Waiting(u) : CodeOrder[c] <= CodeOrder[d]

\* The loop takes the first instrument in order ...
Take(w) ==
  /\ loop[w].pc = "take" /\ Waiting(loop[w].user) # {}
  /\ LET u == loop[w].user
         c == FirstWaiting(u)
     IN /\ loop' = [loop EXCEPT ![w] = [pc |-> "sink", user |-> u, code |-> c,
                                        trade |-> pending[u][c]]]
        /\ pending' = [pending EXCEPT ![u][c] = NoTrade]
  /\ UNCHANGED <<bots, slot, streams, task, market, call, draining, queued, ticking, handled>>

\* Mutant: the loop ends and leaves its flag.
StillDraining(u) == draining
Retired(u) == [draining EXCEPT ![u] = FALSE]

\* ... or retires, and says so under the same lock.
Retire(w) ==
  /\ loop[w].pc = "take" /\ Waiting(loop[w].user) = {}
  /\ loop' = [loop EXCEPT ![w] = Idle]
  /\ draining' = Retired(loop[w].user)
  /\ UNCHANGED <<bots, slot, streams, task, market, call, pending, queued, ticking, handled>>

\* The sink decides for every Bot of the instrument; its errors are ignored.
SinkReturns(w) ==
  /\ loop[w].pc = "sink"
  /\ handled' = [handled EXCEPT ![loop[w].user][loop[w].code] = loop[w].trade]
  /\ loop' = [loop EXCEPT ![w] = [pc |-> "take", user |-> loop[w].user]]
  /\ UNCHANGED <<bots, slot, streams, task, market, call, queues, ticking>>

--------------------------------------------------------------------------------
(* The clock: every 250 ms, the users that have a stream at that moment *)

\* Mutant: only the users whose stream task is still there.
StreamAlive == {u \in Users : streams[u] # NoStream /\ task[streams[u]].state = "live"}
Streamed == {u \in Users : streams[u] # NoStream}

ClockRound ==
  /\ ticking = {}
  /\ ticking' = Streamed
  /\ ticking' # {}
  /\ UNCHANGED <<bots, slot, streams, task, market, call, queues, loop, handled>>

ClockTick ==
  /\ \E u \in ticking : ticking' = ticking \ {u}
  /\ UNCHANGED <<bots, slot, streams, task, market, call, queues, loop, handled>>

--------------------------------------------------------------------------------
Next ==
  \/ \E u \in Users : \/ \E s \in Slots : CommandActs(s, u)
                      \/ BotFaults(u) \/ ExperimentLaunches(u) \/ UiTrade(u)
  \/ \E s \in Slots : CommandLists(s) \/ Refresh(s)
  \/ \E t \in Streams : StreamEnds(t) \/ StreamTrade(t)
  \/ \E p \in Producers : Enqueue(p) \/ Spawn(p)
  \/ \E w \in Threads : Take(w) \/ Retire(w) \/ SinkReturns(w)
  \/ ClockRound \/ ClockTick

\* A command that has begun goes on; the runtime runs callbacks, the blocking
\* pool runs its threads and the sink returns; the clock thread never stops.
Fairness ==
  /\ \A s \in Slots : WF_vars(CommandLists(s) \/ Refresh(s))
  /\ \A p \in Producers : WF_vars(Enqueue(p) \/ Spawn(p))
  /\ \A w \in Threads : WF_vars(Take(w) \/ Retire(w) \/ SinkReturns(w))
  /\ WF_vars(ClockRound) /\ WF_vars(ClockTick)

Spec == Init /\ [][Next]_vars /\ Fairness

--------------------------------------------------------------------------------
(* Properties *)

LoopsFor(u) == {w \in Threads : loop[w] # Idle /\ loop[w].user = u}
SpawnsFor(u) == {p \in Producers : call[p].pc = "spawn" /\ call[p].user = u}

\* A user's queue is drained by one loop at a time, there is one whenever
\* anything waits, and the flag says exactly whether one runs or is about to
\* be spawned (enqueue_trade_dispatch decides and retires under one lock).
OneDrainLoop ==
  \A u \in Users :
    /\ Cardinality(LoopsFor(u)) + Cardinality(SpawnsFor(u)) = (IF draining[u] THEN 1 ELSE 0)
    /\ Waiting(u) # {} => draining[u]

\* The last trade a user's queue took for an instrument is never lost: it still
\* waits, or is at the sink, or is the last one the sink returned from.
LatestTradeSurvives ==
  \A u \in Users, c \in Codes :
    \/ queued[u][c] = pending[u][c]
    \/ \E w \in LoopsFor(u) : /\ loop[w].pc = "sink" /\ loop[w].code = c
                              /\ loop[w].trade = queued[u][c]
    \/ pending[u][c] = NoTrade /\ handled[u][c] = queued[u][c]

\* A user has at most one stream that is neither aborted nor ended, and it is
\* the one the bridge remembers: no superseded stream keeps feeding the Bots.
OneStreamPerUser ==
  \A t \in Streams : task[t].state = "live" => streams[task[t].user] = t

\* The bridge is well formed: one loop per queue in use, one stream per user.
BridgeSound == TypeOK /\ OneDrainLoop /\ OneStreamPerUser

\* Between commands the stream covers every instrument a Running Bot trades,
\* but for the Bots an experiment has launched since (each successful command
\* ends with a refresh, launch_experiment does not).
Resting(u) == \A s \in Slots : slot[s] = Idle \/ slot[s].user # u
Covered(u) == IF streams[u] = NoStream THEN {} ELSE task[streams[u]].codes
StreamCoversStartedBots ==
  \A u \in Users : Resting(u) => running[u] \ launched[u] \subseteq Covered(u)

\* Every trade that waits is taken or replaced by a later one, and in the end
\* the queue is empty.
TradesAreDispatched ==
  \A u \in Users : Waiting(u) # {} ~> Waiting(u) = {}

\* A user whose started Bots keep Running is called by the clock for ever, trades or
\* not ("Closed-bar schedules must advance even when no trade arrives").
StartedBotsAreTicked ==
  \A u \in Users : <>[](running[u] # launched[u]) => []<>(u \in ticking)

===============================================================================
