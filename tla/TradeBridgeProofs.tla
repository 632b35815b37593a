--------------------------- MODULE TradeBridgeProofs ---------------------------
(***************************************************************************)
(* Proofs about TradeBridge, for any users, instruments, stream tasks,     *)
(* blocking threads and commands in progress.                              *)
(*                                                                         *)
(* The queue is safe because who decides to spawn, and who retires, does   *)
(* so under one lock with the queue: Drained says who the one drainer of a *)
(* queue is, without counting.  The streams are safe because an entry of   *)
(* the map always names a task of its user (Owned).  A stream covers the   *)
(* started Bots because a list not yet refreshed already does (Covering).  *)
(***************************************************************************)
EXTENDS TradeBridge, FiniteSetTheorems, WellFoundedInduction, TLAPS

\* One loop, or one callback about to spawn it, exactly while the flag is up.
Drained ==
  \A u \in Users :
    /\ \A v, w \in LoopsFor(u) : v = w
    /\ \A p, q \in SpawnsFor(u) : p = q
    /\ LoopsFor(u) = {} \/ SpawnsFor(u) = {}
    /\ draining[u] <=> LoopsFor(u) # {} \/ SpawnsFor(u) # {}
    /\ Waiting(u) # {} => draining[u]

\* An entry of the map names a task that is its user's, and live tasks have one.
Owned ==
  /\ OneStreamPerUser
  /\ \A u \in Users : streams[u] # NoStream =>
       task[streams[u]] # Free /\ task[streams[u]].user = u

\* What waits is what came last, and a trade at the sink that is not the last one
\* has the last one behind it.
Latest ==
  \A u \in Users, c \in Codes :
    /\ pending[u][c] \in {NoTrade, queued[u][c]}
    /\ \A w \in LoopsFor(u) :
         loop[w].pc = "sink" /\ loop[w].code = c
           => queued[u][c] \in {loop[w].trade, pending[u][c]}

Kept == Latest /\ LatestTradeSurvives
IInv == TypeOK /\ Drained /\ Owned /\ Kept

-------------------------------------------------------------------------------
(***************************************************************************)
(* Types.                                                                  *)
(***************************************************************************)

LEMMA InitTyped == Init => TypeOK
  BY BridgeAssumption
     DEF Init, TypeOK, Slot, Task, Call, Loop, Idle, Free, NoTrade, Producers

LEMMA BotsTyped ==
  ASSUME TypeOK, NEW u \in Users,
         (\E s \in Slots : CommandActs(s, u)) \/ BotFaults(u) \/ ExperimentLaunches(u)
  PROVE  TypeOK'
  <1>1. ASSUME NEW codes \in SUBSET Codes, ChangeRunning(u, codes)
        PROVE  /\ running' \in [Users -> SUBSET Codes] /\ launched' \in [Users -> SUBSET Codes]
               /\ changes' \in Nat
    BY <1>1 DEF ChangeRunning, TypeOK
  <1>2. ASSUME NEW s \in Slots, CommandActs(s, u) PROVE TypeOK'
    <2>1. \E codes \in SUBSET Codes : ChangeRunning(u, codes)
      BY <1>2 DEF CommandActs, TypeOK
    <2>2. slot' \in [Slots -> Slot]
      BY <1>2 DEF CommandActs, TypeOK, Slot
    <2> QED BY <1>1, <1>2, <2>1, <2>2 DEF CommandActs, TypeOK, queues
  <1>3. CASE BotFaults(u)
    <2>1. \E codes \in SUBSET Codes : ChangeRunning(u, codes)
      BY <1>3 DEF BotFaults, TypeOK
    <2> QED BY <1>1, <1>3, <2>1 DEF BotFaults, TypeOK, queues
  <1>4. CASE ExperimentLaunches(u)
    BY <1>4 DEF ExperimentLaunches, TypeOK, queues
  <1> QED BY <1>2, <1>3, <1>4

LEMMA CommandTyped ==
  ASSUME TypeOK, NEW s \in Slots, CommandLists(s) \/ Refresh(s)
  PROVE  TypeOK'
  <1>1. slot[s] \in Slot
    BY DEF TypeOK
  <1>2. CASE CommandLists(s)
    <2>1. slot[s].user \in Users
      BY <1>1, <1>2 DEF CommandLists, Slot, Idle
    <2>2. slot' \in [Slots -> Slot] /\ launched' \in [Users -> SUBSET Codes]
      BY <1>2, <2>1 DEF CommandLists, TypeOK, Slot
    <2> QED BY <1>2, <2>2 DEF CommandLists, TypeOK, queues
  <1>3. CASE Refresh(s)
    <2>1. slot[s].user \in Users /\ slot[s].codes \in SUBSET Codes
      BY <1>1, <1>3 DEF Refresh, Slot, Idle
    <2>2. Dropped(slot[s].user) \in [Streams -> Task]
      BY <2>1 DEF Dropped, TypeOK, Task, Free
    <2>3. task' \in [Streams -> Task] /\ streams' \in [Users -> Streams \cup {NoStream}]
      <3>1. CASE UNCHANGED <<streams, task>>
        BY <3>1 DEF TypeOK
      <3>2. CASE /\ streams' = [streams EXCEPT ![slot[s].user] = NoStream]
                 /\ task' = Dropped(slot[s].user)
        BY <2>1, <2>2, <3>2 DEF TypeOK
      <3>3. ASSUME NEW t \in Streams,
                   task' = [Dropped(slot[s].user) EXCEPT ![t] =
                     [state |-> "live", user |-> slot[s].user, codes |-> slot[s].codes]],
                   streams' = [streams EXCEPT ![slot[s].user] = t]
            PROVE  task' \in [Streams -> Task]
                   /\ streams' \in [Users -> Streams \cup {NoStream}]
        <4>1. [state |-> "live", user |-> slot[s].user, codes |-> slot[s].codes] \in Task
          BY <2>1 DEF Task
        <4> QED BY <2>1, <2>2, <3>3, <4>1 DEF TypeOK
      <3> DEFINE t == CHOOSE i \in Unused : TRUE
      <3>4. Unused # {} => t \in Streams
        BY DEF Unused
      <3> HIDE DEF t
      <3> QED BY <1>3, <3>1, <3>2, <3>3, <3>4 DEF Refresh, t
    <2>4. slot' \in [Slots -> Slot]
      BY <1>3 DEF Refresh, TypeOK, Slot
    <2> QED BY <1>3, <2>3, <2>4 DEF Refresh, TypeOK, bots, queues
  <1> QED BY <1>2, <1>3

LEMMA ReceiveTyped ==
  ASSUME TypeOK, NEW p \in Producers, NEW u \in Users, NEW c \in Codes, Receive(p, u, c)
  PROVE  TypeOK'
  <1>1. market' \in Nat /\ market + 1 \in Nat
    BY DEF Receive, TypeOK
  <1>2. call' \in [Producers -> Call]
    BY <1>1 DEF Receive, TypeOK, Call
  <1> QED BY <1>1, <1>2 DEF Receive, TypeOK, bots, queues

LEMMA StreamTyped ==
  ASSUME TypeOK, NEW t \in Streams, StreamEnds(t) \/ StreamTrade(t)
  PROVE  TypeOK'
  <1>1. task[t] \in Task
    BY DEF TypeOK
  <1>2. CASE StreamEnds(t)
    <2>1. [task[t] EXCEPT !.state = "ended"] \in Task
      BY <1>1, <1>2 DEF StreamEnds, Task
    <2>2. task' \in [Streams -> Task]
      BY <1>2, <2>1 DEF StreamEnds, TypeOK
    <2> QED BY <1>2, <2>2 DEF StreamEnds, TypeOK, bots, queues
  <1>3. CASE StreamTrade(t)
    <2>1. PICK c \in task[t].codes : Receive(t, task[t].user, c)
      BY <1>3 DEF StreamTrade
    <2>2. task[t].user \in Users /\ c \in Codes
      BY <1>1, <1>3 DEF StreamTrade, Task
    <2>3. t \in Producers
      BY DEF Producers
    <2> QED BY <2>1, <2>2, <2>3, ReceiveTyped
  <1> QED BY <1>2, <1>3

LEMMA ProducerTyped ==
  ASSUME TypeOK, NEW p \in Producers, Enqueue(p) \/ Spawn(p)
  PROVE  TypeOK'
  <1>1. call[p] \in Call
    BY DEF TypeOK
  <1>2. CASE Enqueue(p)
    <2>1. call[p].user \in Users /\ call[p].code \in Codes /\ call[p].trade \in Nat
      BY <1>1, <1>2 DEF Enqueue, Call, Idle
    <2>2. /\ pending' \in [Users -> [Codes -> Nat]] /\ queued' \in [Users -> [Codes -> Nat]]
          /\ draining' \in [Users -> BOOLEAN]
      BY <1>2, <2>1 DEF Enqueue, LatestWins, TypeOK
    <2>3. call' \in [Producers -> Call]
      BY <1>2, <2>1 DEF Enqueue, TypeOK, Call
    <2> QED BY <1>2, <2>2, <2>3 DEF Enqueue, TypeOK, bots
  <1>3. CASE Spawn(p)
    <2>1. call[p].user \in Users
      BY <1>1, <1>3 DEF Spawn, Call, Idle
    <2>2. PICK w \in Threads : loop' = [loop EXCEPT ![w] = [pc |-> "take", user |-> call[p].user]]
      BY <1>3 DEF Spawn, IdleThreads
    <2>3. [pc |-> "take", user |-> call[p].user] \in Loop
      BY <2>1 DEF Loop
    <2>4. loop' \in [Threads -> Loop]
      BY <2>2, <2>3 DEF TypeOK
    <2>5. call' \in [Producers -> Call]
      BY <1>3 DEF Spawn, TypeOK, Call
    <2> QED BY <1>3, <2>4, <2>5 DEF Spawn, TypeOK, bots, queues
  <1> QED BY <1>2, <1>3

\* Of the instruments that wait one is the first.
LEMMA FirstWaits ==
  ASSUME NEW u \in Users, Waiting(u) # {}
  PROVE  FirstWaiting(u) \in Waiting(u) /\ FirstWaiting(u) \in Codes
  <1> DEFINE ranks == {CodeOrder[c] : c \in Waiting(u)}
  <1>1. ranks \subseteq Nat /\ ranks # {}
    BY BridgeAssumption DEF Waiting
  <1>2. PICK least \in ranks : \A rank \in ranks : ~(<<rank, least>> \in OpToRel(<, Nat))
    BY <1>1, NatLessThanWellFounded, WFMin
  <1> HIDE DEF ranks
  <1>3. \A rank \in ranks : least <= rank
    <2>1. \A rank \in ranks : ~(rank < least)
      BY <1>1, <1>2, Zenon DEF OpToRel
    <2> QED BY <1>1, <2>1
  <1>4. PICK c \in Waiting(u) : CodeOrder[c] = least
    BY <1>2 DEF ranks
  <1>5. \A d \in Waiting(u) : CodeOrder[c] <= CodeOrder[d]
    BY <1>3, <1>4 DEF ranks
  <1>6. FirstWaiting(u) \in Waiting(u)
    BY <1>5 DEF FirstWaiting
  <1> QED BY <1>6 DEF Waiting

LEMMA LoopTyped ==
  ASSUME TypeOK, NEW w \in Threads, Take(w) \/ Retire(w) \/ SinkReturns(w)
  PROVE  TypeOK'
  <1>1. loop[w] \in Loop
    BY DEF TypeOK
  <1>2. loop[w].user \in Users
    BY <1>1 DEF Take, Retire, SinkReturns, Loop, Idle
  <1>3. CASE Take(w)
    <2> DEFINE u == loop[w].user
               c == FirstWaiting(u)
               taken == [pc |-> "sink", user |-> u, code |-> c, trade |-> pending[u][c]]
    <2>1. /\ loop' = [loop EXCEPT ![w] = taken] /\ pending' = [pending EXCEPT ![u][c] = NoTrade]
          /\ Waiting(u) # {}
      BY <1>3 DEF Take
    <2>2. u \in Users /\ c \in Codes
      BY <1>2, <2>1, FirstWaits
    <2> HIDE DEF u, c
    <2>3. taken \in Loop
      BY <2>2 DEF TypeOK, Loop
    <2> HIDE DEF taken
    <2>4. loop' \in [Threads -> Loop] /\ pending' \in [Users -> [Codes -> Nat]]
      BY <2>1, <2>2, <2>3 DEF TypeOK, NoTrade
    <2> QED BY <1>3, <2>4 DEF Take, TypeOK, bots
  <1>4. CASE Retire(w)
    BY <1>2, <1>4 DEF Retire, Retired, TypeOK, Loop, bots
  <1>5. CASE SinkReturns(w)
    <2>1. loop[w].code \in Codes /\ loop[w].trade \in Nat
      BY <1>1, <1>5 DEF SinkReturns, Loop, Idle
    <2> QED BY <1>2, <1>5, <2>1 DEF SinkReturns, TypeOK, Loop, bots, queues
  <1> QED BY <1>3, <1>4, <1>5

LEMMA NextTyped == TypeOK /\ [Next]_vars => TypeOK'
  <1> SUFFICES ASSUME TypeOK, [Next]_vars PROVE TypeOK'
    OBVIOUS
  <1>1. ASSUME NEW u \in Users, UiTrade(u) PROVE TypeOK'
    BY <1>1, ReceiveTyped DEF UiTrade, Producers
  <1>2. CASE ClockRound \/ ClockTick
    BY <1>2 DEF ClockRound, ClockTick, Streamed, TypeOK, bots, queues
  <1>3. CASE UNCHANGED vars
    BY <1>3 DEF vars, TypeOK, bots, queues
  <1> QED BY <1>1, <1>2, <1>3, BotsTyped, CommandTyped, StreamTyped, ProducerTyped, LoopTyped,
             Zenon DEF Next

-------------------------------------------------------------------------------
(***************************************************************************)
(* One drain loop per queue.                                               *)
(***************************************************************************)

\* What a thread and a callback are told by their program counter.
LEMMA Shapes ==
  ASSUME TypeOK
  PROVE  /\ \A w \in Threads : /\ loop[w] = Idle <=> loop[w].pc = "idle"
                               /\ loop[w] # Idle => loop[w].user \in Users
         /\ \A p \in Producers : /\ call[p] = Idle <=> call[p].pc = "idle"
                                 /\ call[p] # Idle => call[p].user \in Users
  <1>1. ASSUME NEW w \in Threads
        PROVE  /\ loop[w] = Idle <=> loop[w].pc = "idle"
               /\ loop[w] # Idle => loop[w].user \in Users
    <2>1. loop[w] \in Loop
      BY DEF TypeOK
    <2> QED BY <2>1 DEF Loop, Idle
  <1>2. ASSUME NEW p \in Producers
        PROVE  /\ call[p] = Idle <=> call[p].pc = "idle"
               /\ call[p] # Idle => call[p].user \in Users
    <2>1. call[p] \in Call
      BY DEF TypeOK
    <2> QED BY <2>1 DEF Call, Idle
  <1> QED BY <1>1, <1>2

LEMMA InitDrained == Init => Drained
  <1> SUFFICES ASSUME Init PROVE Drained
    OBVIOUS
  <1>1. \A u \in Users : LoopsFor(u) = {} /\ Waiting(u) = {} /\ ~draining[u]
    BY DEF Init, LoopsFor, Waiting
  <1>2. \A u \in Users : SpawnsFor(u) = {}
    BY DEF Init, SpawnsFor, Idle
  <1> QED BY <1>1, <1>2 DEF Drained

\* Drainers and flags that stay, and a queue that does not grow.
LEMMA StillDrained ==
  ASSUME Drained,
         \A u \in Users : /\ LoopsFor(u)' = LoopsFor(u) /\ SpawnsFor(u)' = SpawnsFor(u)
                          /\ draining'[u] = draining[u]
                          /\ Waiting(u)' # {} => Waiting(u) # {}
  PROVE  Drained'
  BY DEF Drained

LEMMA EnqueueDrained ==
  ASSUME TypeOK, Drained, NEW p \in Producers, Enqueue(p)
  PROVE  Drained'
  <1>1. PICK u \in Users : u = call[p].user
    BY Shapes DEF Enqueue, Idle
  <1>2. /\ draining' = [draining EXCEPT ![u] = TRUE] /\ UNCHANGED loop
        /\ pending' = [pending EXCEPT ![u][call[p].code] = call[p].trade]
        /\ call' = [call EXCEPT ![p] = IF ~draining[u] THEN [pc |-> "spawn", user |-> u]
                                       ELSE Idle]
        /\ call[p].pc = "enqueue"
    BY <1>1 DEF Enqueue, LatestWins, ShouldSpawn
  <1>3. \A x \in Users : LoopsFor(x)' = LoopsFor(x)
    BY <1>2 DEF LoopsFor
  <1>4. call \in [Producers -> Call]
    BY DEF TypeOK
  <1>5. \A q \in Producers \ {p} : call'[q] = call[q]
    BY <1>2, <1>4
  <1>6. call'[p] = IF ~draining[u] THEN [pc |-> "spawn", user |-> u] ELSE Idle
    BY <1>2, <1>4
  <1>7. \A x \in Users : SpawnsFor(x)' = IF x = u /\ ~draining[u] THEN SpawnsFor(x) \cup {p}
                                         ELSE SpawnsFor(x)
    BY <1>2, <1>5, <1>6 DEF SpawnsFor, Idle
  <1>8. draining'[u] /\ \A x \in Users \ {u} : draining'[x] = draining[x]
                                                /\ Waiting(x)' = Waiting(x)
    BY <1>1, <1>2 DEF TypeOK, Waiting
  <1>9. CASE draining[u]
    BY <1>1, <1>3, <1>7, <1>8, <1>9 DEF Drained
  <1>10. CASE ~draining[u]
    <2>1. LoopsFor(u) = {} /\ SpawnsFor(u) = {}
      BY <1>1, <1>10 DEF Drained
    <2>2. LoopsFor(u)' = {} /\ SpawnsFor(u)' = {p}
      BY <1>1, <1>3, <1>7, <1>10, <2>1
    <2>3. \A x \in Users \ {u} : LoopsFor(x)' = LoopsFor(x) /\ SpawnsFor(x)' = SpawnsFor(x)
      BY <1>3, <1>7
    <2> QED BY <1>1, <1>8, <2>2, <2>3 DEF Drained
  <1> QED BY <1>9, <1>10

LEMMA SpawnDrained ==
  ASSUME TypeOK, Drained, NEW p \in Producers, Spawn(p)
  PROVE  Drained'
  <1>1. PICK u \in Users : u = call[p].user /\ call[p].pc = "spawn" /\ p \in SpawnsFor(u)
    BY Shapes DEF Spawn, SpawnsFor, Idle
  <1>2. PICK w \in Threads : /\ loop[w] = Idle
                             /\ loop' = [loop EXCEPT ![w] = [pc |-> "take", user |-> u]]
    BY <1>1 DEF Spawn, IdleThreads
  <1>3. call' = [call EXCEPT ![p] = Idle] /\ UNCHANGED <<pending, draining>>
    BY DEF Spawn, queues
  <1>4. SpawnsFor(u) = {p} /\ LoopsFor(u) = {} /\ draining[u]
    BY <1>1 DEF Drained
  <1>5. /\ \A x \in Users : SpawnsFor(x)' = SpawnsFor(x) \ {p}
        /\ \A x \in Users \ {u} : p \notin SpawnsFor(x)
    BY <1>1, <1>3 DEF SpawnsFor, TypeOK, Idle
  <1>6. \A x \in Users : LoopsFor(x)' = IF x = u THEN LoopsFor(x) \cup {w} ELSE LoopsFor(x)
    <2>1. loop'[w] = [pc |-> "take", user |-> u] /\ \A v \in Threads \ {w} : loop'[v] = loop[v]
      BY <1>2 DEF TypeOK
    <2>2. loop'[w] # Idle /\ loop'[w].user = u
      BY <2>1 DEF Idle
    <2> QED BY <1>2, <2>1, <2>2 DEF LoopsFor
  <1>7. \A x \in Users : Waiting(x)' = Waiting(x) /\ draining'[x] = draining[x]
    BY <1>3 DEF Waiting
  <1>8. LoopsFor(u)' = {w} /\ SpawnsFor(u)' = {}
    BY <1>1, <1>4, <1>5, <1>6
  <1>9. \A x \in Users \ {u} : LoopsFor(x)' = LoopsFor(x) /\ SpawnsFor(x)' = SpawnsFor(x)
    BY <1>5, <1>6
  <1> QED BY <1>1, <1>4, <1>7, <1>8, <1>9 DEF Drained

LEMMA LoopDrained ==
  ASSUME TypeOK, Drained, NEW w \in Threads, Take(w) \/ Retire(w) \/ SinkReturns(w)
  PROVE  Drained'
  <1>1. PICK u \in Users : u = loop[w].user /\ loop[w] # Idle /\ w \in LoopsFor(u)
    BY Shapes DEF Take, Retire, SinkReturns, LoopsFor, Idle
  <1>2. LoopsFor(u) = {w} /\ SpawnsFor(u) = {} /\ draining[u]
    BY <1>1 DEF Drained
  <1>3. UNCHANGED call
    BY DEF Take, Retire, SinkReturns
  <1>4. \A x \in Users : SpawnsFor(x)' = SpawnsFor(x)
    BY <1>3 DEF SpawnsFor
  <1>5. CASE Take(w) \/ SinkReturns(w)
    <2>1. /\ loop'[w] # Idle /\ loop'[w].user = u
          /\ \A v \in Threads \ {w} : loop'[v] = loop[v]
      BY <1>1, <1>5 DEF Take, SinkReturns, TypeOK, Idle
    <2>2. \A x \in Users : LoopsFor(x)' = LoopsFor(x)
      BY <1>1, <2>1 DEF LoopsFor
    <2>3. \A x \in Users : Waiting(x)' \subseteq Waiting(x) /\ draining'[x] = draining[x]
      <3>1. CASE Take(w)
        BY <3>1, <1>1, FirstWaits DEF Take, Waiting, TypeOK
      <3>2. CASE SinkReturns(w)
        BY <3>2 DEF SinkReturns, queues, Waiting
      <3> QED BY <1>5, <3>1, <3>2
    <2> QED BY <1>4, <2>2, <2>3, StillDrained
  <1>6. CASE Retire(w)
    <2>1. /\ loop' = [loop EXCEPT ![w] = Idle] /\ draining' = [draining EXCEPT ![u] = FALSE]
          /\ UNCHANGED pending /\ Waiting(u) = {}
      BY <1>1, <1>6 DEF Retire, Retired
    <2>2. \A x \in Users : LoopsFor(x)' = LoopsFor(x) \ {w}
      BY <2>1 DEF LoopsFor, TypeOK
    <2>3. \A x \in Users \ {u} : w \notin LoopsFor(x)
      BY <1>1 DEF LoopsFor
    <2>4. \A x \in Users : Waiting(x)' = Waiting(x)
      BY <2>1 DEF Waiting
    <2>5. ~draining'[u] /\ \A x \in Users \ {u} : draining'[x] = draining[x]
      BY <1>1, <2>1 DEF TypeOK
    <2>6. LoopsFor(u)' = {} /\ \A x \in Users \ {u} : LoopsFor(x)' = LoopsFor(x)
      BY <1>1, <1>2, <2>2, <2>3
    <2> QED BY <1>2, <1>4, <2>1, <2>4, <2>5, <2>6 DEF Drained
  <1> QED BY <1>5, <1>6

LEMMA NextDrained == TypeOK /\ Drained /\ [Next]_vars => Drained'
  <1> SUFFICES ASSUME TypeOK, Drained, [Next]_vars PROVE Drained'
    OBVIOUS
  <1>1. ASSUME UNCHANGED <<call, loop, pending, draining>> PROVE Drained'
    BY <1>1, StillDrained DEF LoopsFor, SpawnsFor, Waiting
  <1>2. ASSUME NEW p \in Producers, NEW u, NEW c, Receive(p, u, c) PROVE Drained'
    <2>1. UNCHANGED <<loop, pending, draining>>
      BY <1>2 DEF Receive, queues
    <2>2. call'[p].pc = "enqueue" /\ call[p].pc = "idle"
          /\ \A q \in Producers \ {p} : call'[q] = call[q]
      BY <1>2 DEF Receive, TypeOK, Idle
    <2>3. \A x \in Users : SpawnsFor(x)' = SpawnsFor(x)
      BY <2>2 DEF SpawnsFor
    <2> QED BY <2>1, <2>3, StillDrained DEF LoopsFor, Waiting
  <1>3. ASSUME NEW u \in Users,
               (\E s \in Slots : CommandActs(s, u)) \/ BotFaults(u) \/ ExperimentLaunches(u)
        PROVE  Drained'
    BY <1>1, <1>3 DEF CommandActs, BotFaults, ExperimentLaunches, queues
  <1>4. ASSUME NEW s \in Slots, CommandLists(s) \/ Refresh(s) PROVE Drained'
    BY <1>1, <1>4 DEF CommandLists, Refresh, queues
  <1>5. ASSUME NEW t \in Streams, StreamEnds(t) \/ StreamTrade(t) PROVE Drained'
    BY <1>1, <1>2, <1>5 DEF StreamEnds, StreamTrade, queues, Producers
  <1>6. ASSUME NEW u \in Users, UiTrade(u) PROVE Drained'
    BY <1>2, <1>6 DEF UiTrade, Producers
  <1>7. CASE ClockRound \/ ClockTick \/ UNCHANGED vars
    BY <1>1, <1>7 DEF ClockRound, ClockTick, vars, queues
  <1> QED BY <1>3, <1>4, <1>5, <1>6, <1>7, EnqueueDrained, SpawnDrained, LoopDrained, Zenon
          DEF Next

\* With one drainer at most, counting drainers is asking whether there is one.
LEMMA Counted == Drained => OneDrainLoop
  <1> SUFFICES ASSUME Drained, NEW u \in Users
               PROVE  /\ Cardinality(LoopsFor(u)) + Cardinality(SpawnsFor(u))
                           = (IF draining[u] THEN 1 ELSE 0)
                      /\ Waiting(u) # {} => draining[u]
    BY DEF OneDrainLoop
  <1>1. Cardinality({}) = 0 /\ \A x : Cardinality({x}) = 1
    BY FS_EmptySet, FS_Singleton
  <1>2. CASE LoopsFor(u) # {}
    <2>1. PICK w : LoopsFor(u) = {w}
      BY <1>2 DEF Drained
    <2>2. SpawnsFor(u) = {} /\ draining[u]
      BY <1>2 DEF Drained
    <2>3. Cardinality(LoopsFor(u)) = 1 /\ Cardinality(SpawnsFor(u)) = 0
      BY <1>1, <2>1, <2>2, Zenon
    <2> QED BY <2>2, <2>3
  <1>3. CASE SpawnsFor(u) # {}
    <2>1. PICK p : SpawnsFor(u) = {p}
      BY <1>3 DEF Drained
    <2>2. LoopsFor(u) = {} /\ draining[u]
      BY <1>3 DEF Drained
    <2>3. Cardinality(LoopsFor(u)) = 0 /\ Cardinality(SpawnsFor(u)) = 1
      BY <1>1, <2>1, <2>2, Zenon
    <2> QED BY <2>2, <2>3
  <1>4. CASE LoopsFor(u) = {} /\ SpawnsFor(u) = {}
    <2>1. ~draining[u] /\ Waiting(u) = {}
      BY <1>4 DEF Drained
    <2> QED BY <1>1, <1>4, <2>1
  <1> QED BY <1>2, <1>3, <1>4

-------------------------------------------------------------------------------
(***************************************************************************)
(* One stream per user.                                                    *)
(***************************************************************************)

LEMMA RefreshOwned ==
  ASSUME TypeOK, Owned, NEW s \in Slots, Refresh(s)
  PROVE  Owned'
  <1>1. PICK u \in Users, codes \in SUBSET Codes : u = slot[s].user /\ codes = slot[s].codes
    <2>1. slot[s] \in Slot /\ slot[s].pc = "listed"
      BY DEF Refresh, TypeOK
    <2> QED BY <2>1 DEF Slot, Idle
  <1>2. CASE UNCHANGED <<streams, task>>
    BY <1>2 DEF Owned, OneStreamPerUser
  <1> DEFINE dropped == Dropped(u)
  <1>3. /\ dropped \in [Streams -> Task]
        /\ \A t \in Streams : dropped[t] = IF t = streams[u] THEN Free ELSE task[t]
        /\ Free.state = "free"
    BY DEF Dropped, TypeOK, Task, Free
  <1>4. \A t \in Streams : dropped[t].state = "live" =>
          task[t].state = "live" /\ t # streams[u] /\ task[t].user # u
    BY <1>3 DEF Owned, OneStreamPerUser
  <1>5. \A v \in Users \ {u} : streams[v] # NoStream => streams[v] # streams[u]
    BY DEF Owned
  <1>6. streams \in [Users -> Streams \cup {NoStream}] /\ task \in [Streams -> Task]
    BY DEF TypeOK
  <1>7. \A t \in Streams : task[t].state = "live" => task[t].user \in Users
    BY <1>6 DEF Task
  <1>8. CASE streams' = [streams EXCEPT ![u] = NoStream] /\ task' = dropped
    <2> HIDE DEF dropped
    <2>1. \A t \in Streams : task'[t].state = "live" => streams'[task'[t].user] = t
      BY <1>3, <1>4, <1>6, <1>7, <1>8 DEF Owned, OneStreamPerUser
    <2>2. \A v \in Users : streams'[v] # NoStream =>
            v # u /\ streams'[v] = streams[v] /\ task'[streams'[v]] = task[streams'[v]]
      BY <1>3, <1>5, <1>6, <1>8
    <2> QED BY <2>1, <2>2 DEF Owned, OneStreamPerUser
  <1>9. ASSUME NEW t \in Unused,
               task' = [dropped EXCEPT ![t] = [state |-> "live", user |-> u, codes |-> codes]],
               streams' = [streams EXCEPT ![u] = t]
        PROVE  Owned'
    <2> DEFINE serving == [state |-> "live", user |-> u, codes |-> codes]
    <2>1. t \in Streams /\ task[t] = Free /\ t # NoStream
      BY BridgeAssumption DEF Unused
    <2>2. serving.state = "live" /\ serving.user = u /\ serving # Free
      BY DEF Free
    <2> HIDE DEF dropped, serving
    <2>3. task'[t] = serving /\ \A i \in Streams \ {t} : task'[i] = dropped[i]
      BY <1>3, <1>9, <2>1 DEF serving
    <2>4. streams'[u] = t /\ \A v \in Users \ {u} : streams'[v] = streams[v]
      BY <1>6, <1>9
    <2>5. \A i \in Streams : task'[i].state = "live" => streams'[task'[i].user] = i
      <3>1. ASSUME NEW i \in Streams \ {t}, task'[i].state = "live"
            PROVE  streams'[task'[i].user] = i
        <4>1. task[i].state = "live" /\ i # streams[u] /\ task[i].user # u /\ task'[i] = task[i]
          BY <1>3, <1>4, <2>3, <3>1
        <4> QED BY <1>7, <2>4, <4>1 DEF Owned, OneStreamPerUser
      <3> QED BY <2>2, <2>3, <2>4, <3>1
    <2>6. \A v \in Users \ {u} : streams'[v] # NoStream =>
            task'[streams'[v]] # Free /\ task'[streams'[v]].user = v
      <3>1. ASSUME NEW v \in Users \ {u}, streams'[v] # NoStream
            PROVE  streams[v] \in Streams \ {t} /\ task[streams[v]] # Free
                   /\ task[streams[v]].user = v /\ streams[v] # streams[u]
        BY <1>5, <1>6, <2>1, <2>4, <3>1 DEF Owned
      <3> QED BY <1>3, <2>3, <2>4, <3>1
    <2> QED BY <2>2, <2>3, <2>4, <2>5, <2>6 DEF Owned, OneStreamPerUser
  <1>10. Unused # {} => (CHOOSE i \in Unused : TRUE) \in Unused
    OBVIOUS
  <1> HIDE DEF dropped
  <1> QED BY <1>1, <1>2, <1>8, <1>9, <1>10 DEF Refresh, dropped

LEMMA NextOwned == TypeOK /\ Owned /\ [Next]_vars => Owned'
  <1> SUFFICES ASSUME TypeOK, Owned, [Next]_vars PROVE Owned'
    OBVIOUS
  <1>1. ASSUME UNCHANGED <<streams, task>> PROVE Owned'
    BY <1>1 DEF Owned, OneStreamPerUser
  <1>2. ASSUME NEW t \in Streams, StreamEnds(t) PROVE Owned'
    <2>1. task[t] \in Task /\ task[t].state = "live"
      BY <1>2 DEF StreamEnds, TypeOK
    <2>2. /\ task'[t].state = "ended" /\ task'[t].user = task[t].user
          /\ \A i \in Streams \ {t} : task'[i] = task[i]
          /\ UNCHANGED streams
      BY <1>2, <2>1 DEF StreamEnds, TypeOK, Task
    <2>3. task'[t] # Free
      BY <2>2 DEF Free
    <2> QED BY <2>2, <2>3 DEF Owned, OneStreamPerUser, TypeOK
  <1>3. ASSUME NEW p, NEW u, NEW c, Receive(p, u, c) PROVE Owned'
    BY <1>1, <1>3 DEF Receive
  <1>4. ASSUME NEW u \in Users,
               (\E s \in Slots : CommandActs(s, u)) \/ BotFaults(u) \/ ExperimentLaunches(u)
                 \/ UiTrade(u)
        PROVE  Owned'
    BY <1>1, <1>3, <1>4 DEF CommandActs, BotFaults, ExperimentLaunches, UiTrade
  <1>5. ASSUME NEW s \in Slots, CommandLists(s) PROVE Owned'
    BY <1>1, <1>5 DEF CommandLists
  <1>6. ASSUME NEW t \in Streams, StreamTrade(t) PROVE Owned'
    BY <1>3, <1>6 DEF StreamTrade
  <1>7. ASSUME NEW p \in Producers, Enqueue(p) \/ Spawn(p) PROVE Owned'
    BY <1>1, <1>7 DEF Enqueue, Spawn
  <1>8. ASSUME NEW w \in Threads, Take(w) \/ Retire(w) \/ SinkReturns(w) PROVE Owned'
    BY <1>1, <1>8 DEF Take, Retire, SinkReturns
  <1>9. CASE ClockRound \/ ClockTick \/ UNCHANGED vars
    BY <1>1, <1>9 DEF ClockRound, ClockTick, vars
  <1> QED BY <1>2, <1>4, <1>5, <1>6, <1>7, <1>8, <1>9, RefreshOwned, Zenon DEF Next

-------------------------------------------------------------------------------
(***************************************************************************)
(* The latest trade of every instrument.                                   *)
(***************************************************************************)

\* The loops that have a trade of instrument c of user u at the sink.
AtSink(w, u, c) == loop[w].pc = "sink" /\ loop[w].user = u /\ loop[w].code = c

\* Kept, for one instrument.
KeptFor(u, c) ==
  /\ pending[u][c] \in {NoTrade, queued[u][c]}
  /\ \A w \in Threads : AtSink(w, u, c) => queued[u][c] \in {loop[w].trade, pending[u][c]}
  /\ \/ queued[u][c] = pending[u][c]
     \/ \E w \in Threads : AtSink(w, u, c) /\ loop[w].trade = queued[u][c]
     \/ pending[u][c] = NoTrade /\ handled[u][c] = queued[u][c]

LEMMA KeptForAll == Kept <=> \A u \in Users, c \in Codes : KeptFor(u, c)
  <1>1. \A u \in Users, c \in Codes, w \in Threads :
          AtSink(w, u, c) <=> w \in LoopsFor(u) /\ loop[w].pc = "sink" /\ loop[w].code = c
    BY DEF AtSink, LoopsFor, Idle
  <1>2. \A u \in Users : LoopsFor(u) \subseteq Threads
    BY DEF LoopsFor
  <1> QED BY <1>1, <1>2 DEF Kept, Latest, LatestTradeSurvives, KeptFor

LEMMA KeptForAllNext == Kept' <=> \A u \in Users, c \in Codes : KeptFor(u, c)'
  <1>1. (Kept <=> \A u \in Users, c \in Codes : KeptFor(u, c))'
    BY KeptForAll, PTL
  <1> QED BY <1>1

LEMMA InitKept == Init => Kept
  <1> SUFFICES ASSUME Init, NEW u \in Users, NEW c \in Codes PROVE KeptFor(u, c)
    BY KeptForAll
  <1>1. pending[u][c] = NoTrade /\ queued[u][c] = NoTrade /\ \A w \in Threads : ~AtSink(w, u, c)
    BY DEF Init, AtSink, Idle
  <1> QED BY <1>1 DEF KeptFor

LEMMA EnqueueKept ==
  ASSUME TypeOK, Kept, NEW p \in Producers, Enqueue(p)
  PROVE  Kept'
  <1> SUFFICES ASSUME NEW x \in Users, NEW d \in Codes PROVE KeptFor(x, d)'
    BY KeptForAllNext
  <1>1. PICK u \in Users, c \in Codes, trade \in Nat :
          /\ pending' = [pending EXCEPT ![u][c] = trade]
          /\ queued' = [queued EXCEPT ![u][c] = trade]
    <2>1. call[p] \in Call /\ call[p].pc = "enqueue"
      BY DEF Enqueue, TypeOK
    <2>2. call[p].user \in Users /\ call[p].code \in Codes /\ call[p].trade \in Nat
      BY <2>1 DEF Call, Idle
    <2> QED BY <2>2 DEF Enqueue, LatestWins
  <1>2. UNCHANGED <<loop, handled>>
    BY DEF Enqueue
  <1>3. CASE x = u /\ d = c
    BY <1>1, <1>3 DEF TypeOK, KeptFor
  <1>4. CASE ~(x = u /\ d = c)
    <2>1. pending'[x][d] = pending[x][d] /\ queued'[x][d] = queued[x][d]
      BY <1>1, <1>4 DEF TypeOK
    <2> QED BY <1>2, <2>1, KeptForAll DEF KeptFor, AtSink
  <1> QED BY <1>3, <1>4

\* A loop that begins or ends has nothing at the sink.
LEMMA EdgeKept ==
  ASSUME TypeOK, Kept, NEW w \in Threads, loop[w].pc # "sink", loop'[w].pc # "sink",
         \A v \in Threads \ {w} : loop'[v] = loop[v],
         UNCHANGED <<pending, queued, handled>>
  PROVE  Kept'
  <1> SUFFICES ASSUME NEW x \in Users, NEW d \in Codes PROVE KeptFor(x, d)'
    BY KeptForAllNext
  <1>1. \A v \in Threads : /\ AtSink(v, x, d)' <=> AtSink(v, x, d)
                           /\ AtSink(v, x, d) => loop'[v] = loop[v]
    BY DEF AtSink
  <1>2. KeptFor(x, d)
    BY KeptForAll
  <1> QED BY <1>1, <1>2 DEF KeptFor

LEMMA TakeKept ==
  ASSUME TypeOK, Drained, Kept, NEW w \in Threads, Take(w)
  PROVE  Kept'
  <1> SUFFICES ASSUME NEW x \in Users, NEW d \in Codes PROVE KeptFor(x, d)'
    BY KeptForAllNext
  <1>1. PICK u \in Users : u = loop[w].user /\ loop[w].pc = "take" /\ w \in LoopsFor(u)
    BY Shapes DEF Take, LoopsFor, Idle
  <1>2. PICK c \in Codes : c = FirstWaiting(u) /\ pending[u][c] # NoTrade
    BY <1>1, FirstWaits DEF Take, Waiting
  <1>3. /\ loop' = [loop EXCEPT ![w] = [pc |-> "sink", user |-> u, code |-> c,
                                        trade |-> pending[u][c]]]
        /\ pending' = [pending EXCEPT ![u][c] = NoTrade] /\ UNCHANGED <<queued, handled>>
    BY <1>1, <1>2 DEF Take
  <1>4. /\ loop'[w].pc = "sink" /\ loop'[w].user = u /\ loop'[w].code = c
        /\ loop'[w].trade = pending[u][c]
        /\ \A v \in Threads \ {w} : loop'[v] = loop[v]
    BY <1>3 DEF TypeOK
  <1>5. CASE x = u /\ d = c
    <2>1. pending[u][c] = queued[u][c] /\ pending'[u][c] = NoTrade
      BY <1>2, <1>3, KeptForAll DEF KeptFor, TypeOK
    <2>2. \A v \in Threads : AtSink(v, u, c)' => v = w
      <3>1. \A v \in Threads \ {w} : AtSink(v, u, c)' => v \in LoopsFor(u)
        BY <1>4 DEF AtSink, LoopsFor, Idle
      <3> QED BY <1>1, <3>1 DEF Drained
    <2>3. AtSink(w, u, c)' /\ loop'[w].trade = queued'[u][c]
      BY <1>3, <1>4, <2>1 DEF AtSink
    <2> QED BY <1>5, <2>1, <2>2, <2>3 DEF KeptFor
  <1>6. CASE ~(x = u /\ d = c)
    <2>1. pending'[x][d] = pending[x][d]
      BY <1>3, <1>6 DEF TypeOK
    <2>2. \A v \in Threads : /\ AtSink(v, x, d)' <=> AtSink(v, x, d)
                             /\ AtSink(v, x, d) => loop'[v] = loop[v]
      BY <1>1, <1>4, <1>6 DEF AtSink
    <2>3. KeptFor(x, d)
      BY KeptForAll
    <2> QED BY <1>3, <2>1, <2>2, <2>3 DEF KeptFor
  <1> QED BY <1>5, <1>6

LEMMA SinkReturnsKept ==
  ASSUME TypeOK, Drained, Kept, NEW w \in Threads, SinkReturns(w)
  PROVE  Kept'
  <1> SUFFICES ASSUME NEW x \in Users, NEW d \in Codes PROVE KeptFor(x, d)'
    BY KeptForAllNext
  <1>1. PICK u \in Users, c \in Codes, trade \in Nat :
          /\ AtSink(w, u, c) /\ w \in LoopsFor(u) /\ loop[w].trade = trade
          /\ handled' = [handled EXCEPT ![u][c] = trade]
    <2>1. loop[w] \in Loop /\ loop[w].pc = "sink"
      BY DEF SinkReturns, TypeOK
    <2>2. loop[w].user \in Users /\ loop[w].code \in Codes /\ loop[w].trade \in Nat
          /\ loop[w] # Idle
      BY <2>1 DEF Loop, Idle
    <2> QED BY <2>1, <2>2 DEF SinkReturns, AtSink, LoopsFor
  <1>2. /\ loop'[w].pc = "take" /\ \A v \in Threads \ {w} : loop'[v] = loop[v]
        /\ UNCHANGED <<pending, queued>>
    BY DEF SinkReturns, TypeOK, queues
  <1>3. KeptFor(x, d)
    BY KeptForAll
  <1>4. CASE x = u /\ d = c
    <2>1. handled'[u][c] = trade
      BY <1>1 DEF TypeOK
    <2>2. queued[u][c] \in {trade, pending[u][c]} /\ pending[u][c] \in {NoTrade, queued[u][c]}
      BY <1>1, <1>3, <1>4 DEF KeptFor
    <2>3. \A v \in Threads : AtSink(v, u, c)' => AtSink(v, u, c) /\ loop'[v] = loop[v]
      BY <1>2 DEF AtSink
    <2> QED BY <1>2, <1>3, <1>4, <2>1, <2>2, <2>3 DEF KeptFor
  <1>5. CASE ~(x = u /\ d = c)
    <2>1. handled'[x][d] = handled[x][d]
      BY <1>1, <1>5 DEF TypeOK
    <2>2. \A v \in Threads : /\ AtSink(v, x, d)' <=> AtSink(v, x, d)
                             /\ AtSink(v, x, d) => loop'[v] = loop[v]
      BY <1>1, <1>2, <1>5 DEF AtSink
    <2> QED BY <1>2, <1>3, <2>1, <2>2 DEF KeptFor
  <1> QED BY <1>4, <1>5

LEMMA NextKept == TypeOK /\ Drained /\ Kept /\ [Next]_vars => Kept'
  <1> SUFFICES ASSUME TypeOK, Drained, Kept, [Next]_vars PROVE Kept'
    OBVIOUS
  <1>1. ASSUME UNCHANGED <<loop, pending, queued, handled>> PROVE Kept'
    BY <1>1, KeptForAll, KeptForAllNext DEF KeptFor, AtSink
  <1>2. ASSUME NEW p, NEW u, NEW c, Receive(p, u, c) PROVE Kept'
    BY <1>1, <1>2 DEF Receive, queues
  <1>3. ASSUME NEW u \in Users,
               (\E s \in Slots : CommandActs(s, u)) \/ BotFaults(u) \/ ExperimentLaunches(u)
                 \/ UiTrade(u)
        PROVE  Kept'
    BY <1>1, <1>2, <1>3 DEF CommandActs, BotFaults, ExperimentLaunches, UiTrade, queues
  <1>4. ASSUME NEW s \in Slots, CommandLists(s) \/ Refresh(s) PROVE Kept'
    BY <1>1, <1>4 DEF CommandLists, Refresh, queues
  <1>5. ASSUME NEW t \in Streams, StreamEnds(t) \/ StreamTrade(t) PROVE Kept'
    BY <1>1, <1>2, <1>5 DEF StreamEnds, StreamTrade, queues
  <1>6. ASSUME NEW p \in Producers, Spawn(p) PROVE Kept'
    <2>1. PICK w \in Threads :
            loop[w] = Idle /\ loop' = [loop EXCEPT ![w] = [pc |-> "take", user |-> call[p].user]]
      BY <1>6 DEF Spawn, IdleThreads
    <2>2. /\ loop[w].pc # "sink" /\ loop'[w].pc # "sink"
          /\ \A v \in Threads \ {w} : loop'[v] = loop[v]
      BY <2>1 DEF TypeOK, Idle
    <2> QED BY <1>6, <2>2, EdgeKept DEF Spawn, queues
  <1>7. ASSUME NEW w \in Threads, Retire(w) PROVE Kept'
    <2>1. /\ loop[w].pc # "sink" /\ loop'[w].pc # "sink"
          /\ \A v \in Threads \ {w} : loop'[v] = loop[v]
      BY <1>7 DEF Retire, TypeOK, Idle
    <2> QED BY <1>7, <2>1, EdgeKept DEF Retire
  <1>8. CASE ClockRound \/ ClockTick \/ UNCHANGED vars
    BY <1>1, <1>8 DEF ClockRound, ClockTick, vars, queues
  <1> QED BY <1>3, <1>4, <1>5, <1>6, <1>7, <1>8, EnqueueKept, TakeKept, SinkReturnsKept, Zenon
          DEF Next

-------------------------------------------------------------------------------

\* The invariant of the bridge holds of every behaviour.
THEOREM BridgeInvariant == Spec => []IInv
  <1>1. Init => Owned
    BY DEF Init, Owned, OneStreamPerUser, Free
  <1>2. Init => IInv
    BY <1>1, InitTyped, InitDrained, InitKept DEF IInv
  <1>3. IInv /\ [Next]_vars => IInv'
    BY NextTyped, NextDrained, NextOwned, NextKept DEF IInv
  <1> QED BY <1>2, <1>3, PTL DEF Spec

\* However callbacks, loops, commands and faults interleave, a queue in use has
\* exactly one loop, present or about to be spawned, and a user one live stream, the
\* one the bridge remembers (enqueue_trade_dispatch, run_trade_dispatch, refresh).
THEOREM BridgeStaysSound == Spec => []BridgeSound
  <1>1. IInv => BridgeSound
    BY Counted DEF IInv, BridgeSound, Owned
  <1> QED BY <1>1, BridgeInvariant, PTL

\* The last trade a queue took for an instrument waits, is at the sink, or is the last
\* the sink returned from: trades are replaced by later ones, never lost.
THEOREM LatestTradeStays == Spec => []LatestTradeSurvives
  <1>1. IInv => LatestTradeSurvives
    BY DEF IInv, Kept
  <1> QED BY <1>1, BridgeInvariant, PTL

-------------------------------------------------------------------------------
(***************************************************************************)
(* The stream covers the started Bots, when the commands of a user come    *)
(* one after another.  Nothing orders two that overlap: the later list may *)
(* be refreshed first, and the earlier one then stays.                     *)
(***************************************************************************)

\* A user has at most one lifecycle command in progress.
OneCommand ==
  \A r, s \in Slots : slot[r] # Idle /\ slot[s] # Idle /\ slot[r].user = slot[s].user => r = s

\* The instruments a user's stream has to cover.
Needed(u) == running[u] \ launched[u]

\* A list not yet refreshed holds all of them; without a command the stream does.
Listed == \A s \in Slots : slot[s].pc = "listed" => Needed(slot[s].user) \subseteq slot[s].codes
Covering == Listed /\ StreamCoversStartedBots

LEMMA SlotShapes ==
  ASSUME TypeOK, NEW s \in Slots
  PROVE  /\ slot[s] = Idle <=> slot[s].pc = "idle"
         /\ slot[s] # Idle => slot[s].user \in Users
         /\ slot[s].pc = "listed" => slot[s].codes \in SUBSET Codes
  <1>1. slot[s] \in Slot
    BY DEF TypeOK
  <1> QED BY <1>1 DEF Slot, Idle

\* Fewer instruments are needed, and neither commands nor what is covered change.
LEMMA FewerNeeded ==
  ASSUME TypeOK, Covering, UNCHANGED slot,
         \A u \in Users : Needed(u)' \subseteq Needed(u) /\ Covered(u)' = Covered(u)
  PROVE  Covering'
  <1>1. Listed'
    <2>1. \A s \in Slots : slot[s].pc = "listed" => slot[s].user \in Users
      BY SlotShapes, Zenon DEF Idle
    <2> QED BY <2>1 DEF Covering, Listed
  <1>2. StreamCoversStartedBots'
    <2>1. \A u \in Users : Resting(u)' <=> Resting(u)
      BY DEF Resting
    <2>2. \A u \in Users : Needed(u) = running[u] \ launched[u]
                           /\ Needed(u)' = running'[u] \ launched'[u]
      BY DEF Needed
    <2> QED BY <2>1, <2>2 DEF Covering, StreamCoversStartedBots
  <1> QED BY <1>1, <1>2 DEF Covering

LEMMA BotsCovering ==
  ASSUME TypeOK, Covering, OneCommand', NEW u \in Users,
         (\E s \in Slots : CommandActs(s, u)) \/ BotFaults(u) \/ ExperimentLaunches(u)
  PROVE  Covering'
  <1>1. UNCHANGED <<streams, task>>
    BY DEF CommandActs, BotFaults, ExperimentLaunches
  <1>2. \A v \in Users : Covered(v)' = Covered(v)
    BY <1>1 DEF Covered
  <1>3. \A v \in Users \ {u} : Needed(v)' = Needed(v)
    BY DEF CommandActs, BotFaults, ExperimentLaunches, ChangeRunning, Needed, TypeOK
  <1>4. CASE BotFaults(u)
    <2>1. Needed(u)' \subseteq Needed(u)
      BY <1>4 DEF BotFaults, ChangeRunning, Needed, TypeOK
    <2> QED BY <1>2, <1>3, <1>4, <2>1, FewerNeeded DEF BotFaults
  <1>5. CASE ExperimentLaunches(u)
    <2>1. Needed(u)' \subseteq Needed(u)
      BY <1>5 DEF ExperimentLaunches, Needed, TypeOK
    <2> QED BY <1>2, <1>3, <1>5, <2>1, FewerNeeded DEF ExperimentLaunches
  <1>6. ASSUME NEW s \in Slots, CommandActs(s, u) PROVE Covering'
    <2>1. /\ slot'[s] = [pc |-> "acted", user |-> u] /\ \A r \in Slots \ {s} : slot'[r] = slot[r]
          /\ slot[s] = Idle
      BY <1>6 DEF CommandActs, TypeOK
    <2>2. slot'[s].pc = "acted" /\ slot'[s].user = u /\ slot'[s] # Idle
      BY <2>1 DEF Idle
    <2>3. \A r \in Slots \ {s} : slot[r] # Idle => slot[r].user \in Users \ {u}
      BY <2>1, <2>2, SlotShapes DEF OneCommand
    <2>4. Listed'
      <3> SUFFICES ASSUME NEW r \in Slots, slot'[r].pc = "listed"
                   PROVE  Needed(slot[r].user)' \subseteq slot[r].codes
                          /\ slot'[r] = slot[r]
        BY DEF Listed, Needed
      <3>1. r # s /\ slot'[r] = slot[r] /\ slot[r].user \in Users \ {u}
        BY <2>1, <2>2, <2>3 DEF Idle
      <3>2. Needed(slot[r].user)' = Needed(slot[r].user)
        <4>1. ASSUME NEW v \in Users \ {u} PROVE running'[v] \ launched'[v] = running[v] \ launched[v]
          BY <1>3, <4>1 DEF Needed
        <4> QED BY <3>1, <4>1 DEF CommandActs, Needed
      <3> QED BY <3>1, <3>2 DEF Covering, Listed
    <2>5. \A v \in Users : Resting(v)' => Resting(v) /\ v # u
      BY <2>1, <2>2 DEF Resting
    <2>6. StreamCoversStartedBots'
      BY <1>2, <1>3, <2>5 DEF Covering, StreamCoversStartedBots, Needed
    <2> QED BY <2>4, <2>6 DEF Covering
  <1> QED BY <1>4, <1>5, <1>6

LEMMA ListsCovering ==
  ASSUME TypeOK, Covering, OneCommand, NEW s \in Slots, CommandLists(s)
  PROVE  Covering'
  <1>1. PICK u \in Users : u = slot[s].user /\ slot[s] # Idle
    BY SlotShapes, Zenon DEF CommandLists, Idle
  <1>2. /\ slot'[s] = [pc |-> "listed", user |-> u, codes |-> running[u]]
        /\ \A r \in Slots \ {s} : slot'[r] = slot[r]
        /\ UNCHANGED <<running, streams, task>>
        /\ \A v \in Users \ {u} : launched'[v] = launched[v]
    BY <1>1 DEF CommandLists, TypeOK
  <1>3. slot'[s].pc = "listed" /\ slot'[s].user = u /\ slot'[s].codes = running[u]
        /\ slot'[s] # Idle
    BY <1>2 DEF Idle
  <1>4. Listed'
    <2> SUFFICES ASSUME NEW r \in Slots, slot'[r].pc = "listed"
                 PROVE  running[slot'[r].user] \ launched'[slot'[r].user] \subseteq slot'[r].codes
      BY <1>2 DEF Listed, Needed
    <2>1. CASE r = s
      BY <1>3, <2>1
    <2>2. CASE r # s
      <3>1. slot'[r] = slot[r] /\ slot[r] # Idle /\ slot[r].user \in Users
        BY <1>2, <2>2, SlotShapes DEF Idle
      <3>2. slot[r].user # u
        BY <1>1, <2>2, <3>1 DEF OneCommand
      <3> QED BY <1>2, <3>1, <3>2 DEF Covering, Listed, Needed
    <2> QED BY <2>1, <2>2
  <1>5. \A v \in Users : Resting(v)' => Resting(v) /\ v # u
    BY <1>1, <1>2, <1>3 DEF Resting
  <1>6. \A v \in Users : Covered(v)' = Covered(v)
    BY <1>2 DEF Covered
  <1>7. StreamCoversStartedBots'
    BY <1>2, <1>5, <1>6 DEF Covering, StreamCoversStartedBots
  <1> QED BY <1>4, <1>7 DEF Covering

\* A refresh leaves its user's stream with exactly the listed codes, and those of
\* the others alone.
LEMMA RefreshCovers ==
  ASSUME TypeOK, Owned, NEW s \in Slots, Refresh(s), NEW u \in Users, u = slot[s].user,
         NEW codes \in SUBSET Codes, codes = slot[s].codes
  PROVE  Covered(u)' = codes /\ \A v \in Users \ {u} : Covered(v)' = Covered(v)
  <1>1. streams \in [Users -> Streams \cup {NoStream}] /\ task \in [Streams -> Task]
        /\ NoStream \notin Streams
    BY BridgeAssumption DEF TypeOK
  <1>2. CASE Unchanged(u, codes) /\ UNCHANGED <<streams, task>>
    BY <1>2 DEF Unchanged, Covered
  <1> DEFINE dropped == Dropped(u)
  <1>3. dropped \in [Streams -> Task]
        /\ \A t \in Streams : dropped[t] = IF t = streams[u] THEN Free ELSE task[t]
    BY <1>1 DEF Dropped, Task, Free
  <1>4. \A v \in Users \ {u} : streams[v] # NoStream =>
          streams[v] \in Streams /\ streams[v] # streams[u] /\ task[streams[v]] # Free
    BY <1>1 DEF Owned
  <1> HIDE DEF dropped
  <1>5. CASE codes = {} /\ streams' = [streams EXCEPT ![u] = NoStream] /\ task' = dropped
    <2>1. streams'[u] = NoStream /\ \A v \in Users \ {u} : streams'[v] = streams[v]
      BY <1>1, <1>5
    <2>2. \A v \in Users \ {u} : streams[v] # NoStream => task'[streams[v]] = task[streams[v]]
      BY <1>3, <1>4, <1>5
    <2> QED BY <1>5, <2>1, <2>2 DEF Covered
  <1>6. ASSUME NEW t \in Unused,
               task' = [dropped EXCEPT ![t] = [state |-> "live", user |-> u, codes |-> codes]],
               streams' = [streams EXCEPT ![u] = t]
        PROVE  /\ Covered(u)' = codes
               /\ \A v \in Users \ {u} : Covered(v)' = Covered(v)
    <2>1. t \in Streams /\ task[t] = Free /\ t # NoStream
      BY <1>1 DEF Unused
    <2>2. streams'[u] = t /\ \A v \in Users \ {u} : streams'[v] = streams[v]
      BY <1>1, <1>6
    <2>3. task'[t].codes = codes /\ \A i \in Streams \ {t} : task'[i] = dropped[i]
      BY <1>3, <1>6, <2>1
    <2>4. \A v \in Users \ {u} : streams[v] # NoStream => task'[streams[v]] = task[streams[v]]
      BY <1>3, <1>4, <2>1, <2>3
    <2> QED BY <2>1, <2>2, <2>3, <2>4 DEF Covered
  <1>7. Unused # {} => (CHOOSE i \in Unused : TRUE) \in Unused
    OBVIOUS
  <1>8. \/ Unchanged(u, codes) /\ UNCHANGED <<streams, task>>
        \/ codes = {} /\ streams' = [streams EXCEPT ![u] = NoStream] /\ task' = dropped
        \/ \E t \in Unused :
             /\ task' = [dropped EXCEPT ![t] = [state |-> "live", user |-> u, codes |-> codes]]
             /\ streams' = [streams EXCEPT ![u] = t]
    BY <1>7 DEF Refresh, dropped
  <1> QED BY <1>2, <1>5, <1>6, <1>8

LEMMA RefreshCovering ==
  ASSUME TypeOK, Owned, Covering, NEW s \in Slots, Refresh(s)
  PROVE  Covering'
  <1>1. PICK u \in Users, codes \in SUBSET Codes :
          /\ u = slot[s].user /\ codes = slot[s].codes
          /\ slot[s].pc = "listed" /\ slot[s] # Idle
    BY SlotShapes, Zenon DEF Refresh, Idle
  <1>2. /\ slot'[s] = Idle /\ \A r \in Slots \ {s} : slot'[r] = slot[r]
        /\ UNCHANGED <<running, launched>>
    BY DEF Refresh, TypeOK, bots
  <1>3. Listed'
    BY <1>2 DEF Covering, Listed, Needed, Idle
  <1>4. Covered(u)' = codes /\ \A v \in Users \ {u} : Covered(v)' = Covered(v)
    BY <1>1, RefreshCovers
  <1>5. \A v \in Users \ {u} : Resting(v)' => Resting(v)
    BY <1>1, <1>2 DEF Resting
  <1>6. running[u] \ launched[u] \subseteq codes
    BY <1>1 DEF Covering, Listed, Needed
  <1>7. StreamCoversStartedBots'
    BY <1>2, <1>4, <1>5, <1>6 DEF Covering, StreamCoversStartedBots
  <1> QED BY <1>3, <1>7 DEF Covering

LEMMA NextCovering ==
  ASSUME TypeOK, Owned, OneCommand, OneCommand', Covering, [Next]_vars
  PROVE  Covering'
  <1>1. ASSUME UNCHANGED <<running, launched, slot, streams, task>> PROVE Covering'
    <2>1. \A u \in Users : Needed(u)' = Needed(u) /\ Covered(u)' = Covered(u)
      BY <1>1 DEF Needed, Covered
    <2> QED BY <1>1, <2>1, FewerNeeded
  <1>2. ASSUME NEW t \in Streams, StreamEnds(t) PROVE Covering'
    <2>1. task[t] \in Task /\ task[t].state = "live" /\ task \in [Streams -> Task]
      BY <1>2 DEF StreamEnds, TypeOK
    <2>2. task'[t].codes = task[t].codes /\ \A i \in Streams \ {t} : task'[i] = task[i]
      BY <1>2, <2>1 DEF StreamEnds, Task
    <2>3. UNCHANGED <<running, launched, slot, streams>>
      BY <1>2 DEF StreamEnds, bots
    <2>4. \A u \in Users : streams[u] # NoStream => streams[u] \in Streams
      BY DEF TypeOK
    <2>5. \A u \in Users : Covered(u)' = Covered(u)
      BY <2>2, <2>3, <2>4 DEF Covered
    <2>6. \A u \in Users : Needed(u)' = Needed(u)
      BY <2>3 DEF Needed
    <2> QED BY <2>3, <2>5, <2>6, FewerNeeded
  <1>3. ASSUME NEW p, NEW u, NEW c, Receive(p, u, c) PROVE Covering'
    BY <1>1, <1>3 DEF Receive, bots
  <1>4. ASSUME NEW u \in Users, UiTrade(u) PROVE Covering'
    BY <1>3, <1>4 DEF UiTrade
  <1>5. ASSUME NEW t \in Streams, StreamTrade(t) PROVE Covering'
    BY <1>3, <1>5 DEF StreamTrade
  <1>6. ASSUME NEW p \in Producers, Enqueue(p) \/ Spawn(p) PROVE Covering'
    BY <1>1, <1>6 DEF Enqueue, Spawn, bots
  <1>7. ASSUME NEW w \in Threads, Take(w) \/ Retire(w) \/ SinkReturns(w) PROVE Covering'
    BY <1>1, <1>7 DEF Take, Retire, SinkReturns, bots
  <1>8. CASE ClockRound \/ ClockTick \/ UNCHANGED vars
    BY <1>1, <1>8 DEF ClockRound, ClockTick, vars, bots
  <1> QED BY <1>2, <1>4, <1>5, <1>6, <1>7, <1>8, BotsCovering, ListsCovering, RefreshCovering,
             Zenon DEF Next

\* Between a user's commands, if they come one after another, the stream covers every
\* instrument its Running Bots trade, but for those experiments launched since
\* (complete_lifecycle_command, running_bot_trade_codes, refresh).
THEOREM StartedBotsStayCovered == Spec /\ []OneCommand => []StreamCoversStartedBots
  <1>1. Init => Covering
    <2> SUFFICES ASSUME Init PROVE Covering
      OBVIOUS
    <2>1. Listed
      BY DEF Init, Listed, Idle
    <2>2. StreamCoversStartedBots
      BY DEF Init, StreamCoversStartedBots
    <2> QED BY <2>1, <2>2 DEF Covering
  <1>2. IInv /\ OneCommand /\ OneCommand' /\ Covering /\ [Next]_vars => Covering'
    BY NextCovering DEF IInv
  <1>3. Covering => StreamCoversStartedBots
    BY DEF Covering
  <1> QED BY <1>1, <1>2, <1>3, BridgeInvariant, PTL DEF Spec

================================================================================
