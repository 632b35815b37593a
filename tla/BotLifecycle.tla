------------------------------- MODULE BotLifecycle -------------------------------
(***************************************************************************)
(* Bots, their Runtime Attempts and their Workers (bot_operations.rs,       *)
(* bot_supervisor.rs).  Two stores hold the lifecycle: the Bot store, which *)
(* is durable, and the supervisor's registry of Worker processes, which a   *)
(* restart empties.  A command (start, retry, pause, resume, stop, or a     *)
(* decision) holds the control lock from its first step to its last and     *)
(* moves both stores, one after the other.  The supervisor's monitor and    *)
(* the second half of Freeze All do not take that lock.                     *)
(*                                                                          *)
(* A command is the list of the steps it has left.  A step is one call of   *)
(* the supervisor or one write of the Bot store; a step that fails either   *)
(* ends the command or leaves it one step, "fail": terminate the Worker and *)
(* record the fault.                                                        *)
(***************************************************************************)
EXTENDS Naturals, Sequences, FiniteSets

CONSTANTS Bots,
          Keys, Key,         \* what a Bot leases: its account, or its instrument there
          NoBot,
          MaxAttempts,       \* bound: Runtime Attempts of a Bot
          MaxLaunches,       \* bound: Workers launched for a Bot
          MaxDeaths,         \* bound: Worker processes that die or fall silent
          MaxWriteFailures,  \* bound: writes of the Bot store that fail
          MaxCrashes         \* bound: restarts of the host

ASSUME BotAssumption ==
  /\ NoBot \notin Bots
  /\ Key \in [Bots -> Keys]
  /\ MaxAttempts \in Nat /\ MaxLaunches \in Nat /\ MaxDeaths \in Nat
  /\ MaxWriteFailures \in Nat /\ MaxCrashes \in Nat

Active == {"Starting", "Reconciling", "WarmingUp", "Running", "Pausing", "Paused", "Stopping"}
States == Active \cup {"Stopped", "Faulted"}

\* Mutant: any state follows any other.
Ungated(from, to) == TRUE

\* LifecycleState::permits_transition_to
Permits(from, to) ==
  \/ to = "Faulted" /\ from \in Active
  \/ <<from, to>> \in {<<"Starting", "Reconciling">>, <<"Reconciling", "WarmingUp">>,
                       <<"WarmingUp", "Running">>, <<"Running", "Pausing">>,
                       <<"Running", "Stopping">>, <<"Pausing", "Paused">>,
                       <<"Paused", "Reconciling">>, <<"Paused", "Stopping">>,
                       <<"Stopping", "Stopped">>}

NoWorker == [reg |-> 0]
Idle == [kind |-> "none"]
NoPause == [listed |-> {}, half |-> NoBot]

VARIABLES
  bot,       \* the Bot store: each Bot's current attempt
  lease,     \* bot_account_leases and bot_instrument_leases
  worker,    \* the supervisor's registry
  launches,  \* how many Workers each Bot has had: the next registration
  cmd,       \* the holder of the control lock
  captured,  \* faults the monitor has polled and not yet handled
  alert,     \* an unresolved Freeze All alert
  freeze,    \* how far Freeze All is
  pausing,   \* the host's pause of the user's Bots: those listed, and one half done
  raced,     \* history: a command and a pause by the host overlapped
  spent      \* the bounds: deaths, write failures, crashes

pauseVars == <<pausing, raced>>
vars == <<bot, lease, worker, launches, cmd, captured, alert, freeze, pauseVars, spent>>

Attempt == [id : Nat, state : States, recon : BOOLEAN, exposed : BOOLEAN]
Worker == [reg : Nat \ {0}, attempt : Nat, state : Active \cup {"Faulted"},
           alive : BOOLEAN, pending : BOOLEAN]
Step == [do : {"begin", "launch", "worker", "record", "reconcile", "unload", "complete",
               "decide", "gate", "submit", "fail"}, to : States]
Command == {Idle} \cup
           [kind : {"start", "retry", "pause", "resume", "stop", "decision"}, bot : Bots,
            todo : Seq(Step)]

TypeOK ==
  /\ bot \in [Bots -> Attempt]
  /\ lease \in [Keys -> Bots \cup {NoBot}]
  /\ worker \in [Bots -> Worker \cup {NoWorker}]
  /\ launches \in [Bots -> Nat]
  /\ cmd \in Command /\ (cmd # Idle => cmd.todo # <<>>)
  /\ captured \subseteq [bot : Bots, reg : Nat]
  /\ alert \in BOOLEAN
  /\ freeze \in {"idle", "bots", "workers"}
  /\ pausing \in [listed : SUBSET Bots, half : Bots \cup {NoBot}]
  /\ raced \in BOOLEAN
  /\ spent \in [deaths : Nat, failures : Nat, crashes : Nat]

Init ==
  /\ bot = [b \in Bots |-> [id |-> 0, state |-> "Stopped", recon |-> FALSE, exposed |-> FALSE]]
  /\ lease = [k \in Keys |-> NoBot]
  /\ worker = [b \in Bots |-> NoWorker]
  /\ launches = [b \in Bots |-> 0]
  /\ cmd = Idle /\ captured = {}
  /\ alert = FALSE /\ freeze = "idle"
  /\ pausing = NoPause /\ raced = FALSE
  /\ spent = [deaths |-> 0, failures |-> 0, crashes |-> 0]

WriteFails ==
  /\ spent.failures < MaxWriteFailures
  /\ spent' = [spent EXCEPT !.failures = @ + 1]

--------------------------------------------------------------------------------
(* Commands: what each one is made of *)

Do(step) == <<[do |-> step, to |-> "Stopped"]>>

\* transition_pair: the supervisor first, then the Bot store.
Pair(state) == <<[do |-> "worker", to |-> state], [do |-> "record", to |-> state]>>

Fail == Do("fail")

ToRunning == Pair("Reconciling") \o Do("reconcile") \o Pair("WarmingUp") \o Pair("Running")
StartScript == Do("begin") \o Do("launch") \o ToRunning
ResumeScript == Do("unload") \o Do("launch") \o ToRunning
PauseScript == Pair("Pausing") \o Do("reconcile") \o Pair("Paused")
StopScript(state) ==
  (IF state \in Active \ {"Stopping"} THEN Pair("Stopping") ELSE <<>>) \o
  (IF state \in Active THEN Do("unload") ELSE <<>>) \o Do("complete")

\* A command takes the control lock; one that is refused changes nothing.
Take(kind, b, script) ==
  /\ cmd = Idle
  /\ cmd' = [kind |-> kind, bot |-> b, todo |-> script]
  /\ raced' = (raced \/ pausing # NoPause)
  /\ UNCHANGED <<bot, lease, worker, launches, captured, alert, freeze, pausing, spent>>

Start(b) == ~alert /\ bot[b].state = "Stopped" /\ Take("start", b, StartScript)
Retry(b) == ~alert /\ bot[b].state = "Faulted" /\ Take("retry", b, StartScript)
Pause(b) == bot[b].state = "Running" /\ Take("pause", b, PauseScript)
Resume(b) == ~alert /\ bot[b].state = "Paused" /\ Take("resume", b, ResumeScript)
Stop(b) == bot[b].state # "Stopped" /\ Take("stop", b, StopScript(bot[b].state))
\* A tick of the clock or a trade.
Decision(b) == bot[b].state = "Running" /\ Take("decision", b, Do("decide"))

At(step) == cmd # Idle /\ Head(cmd.todo).do = step
\* Mutant: the control lock stays taken.
StillHeld == [cmd EXCEPT !.todo = Tail(@)]
Left == IF Len(cmd.todo) = 1 THEN Idle ELSE [cmd EXCEPT !.todo = Tail(@)]
GoesOn == cmd' = Left
\* Mutant: the error is returned, and nothing is terminated or recorded.
Abandons == cmd' = Idle
Fails == cmd' = [cmd EXCEPT !.todo = Fail]
Returns == cmd' = Idle

--------------------------------------------------------------------------------
(* Faults *)

\* fault_for_attempt: a fault of an earlier attempt changes nothing.
Faulted(a, id) ==
  IF a.id # id THEN a
  ELSE [a EXCEPT !.state = IF @ = "Stopped" THEN @ ELSE "Faulted", !.recon = TRUE]

\* Mutant: nobody remembers the fault that could not be recorded.
Forgotten(w) == [w EXCEPT !.state = "Faulted", !.alive = FALSE]
Retained(w) == [w EXCEPT !.state = "Faulted", !.alive = FALSE, !.pending = TRUE]

\* converge_fault under the registry lock: terminate, record, and forget the
\* entry only once the fault is durable.
Converge(b, id) ==
  \/ /\ bot' = [bot EXCEPT ![b] = Faulted(@, id)]
     /\ worker' = [worker EXCEPT ![b] = NoWorker]
     /\ UNCHANGED spent
  \/ /\ WriteFails
     /\ worker' = [worker EXCEPT ![b] = IF @ = NoWorker THEN @ ELSE Retained(@)]
     /\ UNCHANGED bot

FailStep ==
  /\ At("fail")
  /\ Converge(cmd.bot, bot[cmd.bot].id)
  /\ Returns
  /\ UNCHANGED <<lease, launches, captured, alert, freeze, pauseVars>>

--------------------------------------------------------------------------------
(* The steps of start, retry, pause and resume *)

\* Mutant: the lease of another Bot is taken over.
TakenOver(b) == TRUE
LeaseFree(b) == lease[Key[b]] \in {NoBot, b}

\* begin_attempt: the lease, then the record of a new attempt.
BeginStep ==
  /\ At("begin")
  /\ LET b == cmd.bot
     IN \/ ~LeaseFree(b) /\ Returns /\ UNCHANGED <<lease, bot, spent>>
        \/ /\ LeaseFree(b) /\ bot[b].id < MaxAttempts
           /\ lease' = [lease EXCEPT ![Key[b]] = b]
           /\ \/ /\ bot' = [bot EXCEPT ![b] = [id |-> @.id + 1, state |-> "Starting",
                                              recon |-> TRUE, exposed |-> FALSE]]
                 /\ GoesOn /\ UNCHANGED spent
              \/ WriteFails /\ Returns /\ UNCHANGED bot
  /\ UNCHANGED <<worker, launches, captured, alert, freeze, pauseVars>>

\* BotSupervisor::start: refused while an entry is registered and the Bot
\* active, which after begin_attempt it always is.  Resume ends there when it
\* cannot write that it replaced the Worker.
LaunchStep ==
  /\ At("launch")
  /\ LET b == cmd.bot
     IN \/ /\ worker[b] = NoWorker \/ bot[b].state \notin Active
           /\ launches[b] < MaxLaunches
           /\ launches' = [launches EXCEPT ![b] = @ + 1]
           /\ worker' = [worker EXCEPT ![b] =
                           [reg |-> launches[b] + 1, attempt |-> bot[b].id,
                            state |-> "Starting", alive |-> TRUE, pending |-> FALSE]]
           /\ \/ GoesOn /\ UNCHANGED spent
              \/ cmd.kind = "resume" /\ WriteFails /\ Returns
        \/ Fails /\ UNCHANGED <<worker, launches, spent>>
  /\ UNCHANGED <<bot, lease, captured, alert, freeze, pauseVars>>

\* BotSupervisor::transition: of the process's own attempt, dead or alive.
WorkerStep ==
  /\ At("worker")
  /\ LET b == cmd.bot
         to == Head(cmd.todo).to
     IN IF worker[b] # NoWorker /\ Permits(worker[b].state, to)
        THEN /\ worker' = [worker EXCEPT ![b].state = to]
             /\ GoesOn
        ELSE Fails /\ UNCHANGED worker
  /\ UNCHANGED <<bot, lease, launches, captured, alert, freeze, pauseVars, spent>>

\* BotStore::transition.  The evidence that follows WarmingUp ends the command
\* where it is when it cannot be written.
RecordStep ==
  /\ At("record")
  /\ LET b == cmd.bot
         to == Head(cmd.todo).to
     IN \/ /\ Permits(bot[b].state, to)
           /\ bot' = [bot EXCEPT ![b].state = to, ![b].recon = (to # "Running")]
           /\ \/ GoesOn /\ UNCHANGED spent
              \/ to = "WarmingUp" /\ WriteFails /\ Returns
        \/ ~Permits(bot[b].state, to) /\ Fails /\ UNCHANGED <<bot, spent>>
        \/ WriteFails /\ Fails /\ UNCHANGED bot
  /\ UNCHANGED <<lease, worker, launches, captured, alert, freeze, pauseVars>>

\* require_reconciled_account with the health evidence; evidence that cannot
\* be written ends the command where it is.
ReconcileStep ==
  /\ At("reconcile")
  /\ \/ (GoesOn \/ Fails) /\ UNCHANGED spent
     \/ WriteFails /\ Returns
  /\ UNCHANGED <<bot, lease, worker, launches, captured, alert, freeze, pauseVars>>

--------------------------------------------------------------------------------
(* The steps of stop *)

\* BotSupervisor::stop: the entry leaves the registry before anything else.
UnloadStep ==
  /\ At("unload")
  /\ LET b == cmd.bot
     IN /\ worker' = [worker EXCEPT ![b] = NoWorker]
        /\ (GoesOn /\ worker[b] # NoWorker) \/ Fails
  /\ UNCHANGED <<bot, lease, launches, captured, alert, freeze, pauseVars, spent>>

Releases(proven, exposed) == proven /\ ~exposed

\* The cancels, the reconciliation or the liquidation, and complete_stop.
CompleteStep ==
  /\ At("complete")
  /\ LET b == cmd.bot
         stopped(proven, exposed) ==
           [bot EXCEPT ![b].state = "Stopped", ![b].recon = ~proven, ![b].exposed = exposed]
     IN \/ UNCHANGED <<bot, lease, spent>>   \* the account did not answer
        \/ /\ bot' = [bot EXCEPT ![b] = Faulted(@, @.id)]   \* Flatten failed
           /\ UNCHANGED <<lease, spent>>
        \/ \E proven, exposed \in BOOLEAN :
             /\ bot' = stopped(proven, exposed)
             /\ IF Releases(proven, exposed)
                THEN \/ lease' = [lease EXCEPT ![Key[b]] = IF @ = b THEN NoBot ELSE @]
                        /\ UNCHANGED spent
                     \/ WriteFails /\ UNCHANGED lease
                ELSE UNCHANGED <<lease, spent>>
  /\ Returns
  /\ UNCHANGED <<worker, launches, captured, alert, freeze, pauseVars>>

--------------------------------------------------------------------------------
(* The steps of a decision *)

Drop(b) == worker' = [worker EXCEPT ![b] = NoWorker]

\* run_bot_decision: blocked, a duplicate, or without input it returns before the
\* Worker is asked, as it does after a Worker that has no target.
\* BotSupervisor::decision: a Worker that fails leaves the registry at once,
\* before its fault is recorded.  A missed deadline is recorded as a decision
\* first: when that fails nobody records the fault.
DecideStep ==
  /\ At("decide")
  /\ LET b == cmd.bot
         asked == worker[b] # NoWorker /\ worker[b].state = "Running"
     IN \/ Returns /\ UNCHANGED <<worker, spent>>
        \/ ~asked /\ Fails /\ UNCHANGED <<worker, spent>>
        \/ asked /\ Drop(b) /\ Fails /\ UNCHANGED spent
        \/ asked /\ worker[b].alive /\ Drop(b) /\ WriteFails /\ Returns
        \/ /\ asked /\ worker[b].alive
           /\ cmd' = [cmd EXCEPT !.todo = Do("gate") \o Do("submit")]
           /\ UNCHANGED <<worker, spent>>
  /\ UNCHANGED <<bot, lease, launches, captured, alert, freeze, pauseVars>>

\* account_blocks_new_risk
AccountBlocks(b) ==
  \E c \in Bots : Key[c] = Key[b] /\ (bot[c].state = "Faulted" \/ bot[c].recon)

\* new_risk_blocked as execute_target asks it: hard, soft (an experiment's
\* window or warmup), or permitted.  A reconciled and quiet account lifts the
\* block of a fault.
GateStep ==
  /\ At("gate")
  /\ LET b == cmd.bot
     IN \E quiet \in BOOLEAN :
          IF alert \/ (AccountBlocks(b) /\ ~quiet)
          THEN Drop(b) /\ Fails
          ELSE (Returns \/ GoesOn) /\ UNCHANGED worker
  /\ UNCHANGED <<bot, lease, launches, captured, alert, freeze, pauseVars, spent>>

\* Reconciliation, planning and submit_target_order: an error at any point,
\* after the order was sent too, faults the Bot.
SubmitStep ==
  /\ At("submit")
  /\ (Returns /\ UNCHANGED worker) \/ (Drop(cmd.bot) /\ Fails)
  /\ UNCHANGED <<bot, lease, launches, captured, alert, freeze, pauseVars, spent>>

--------------------------------------------------------------------------------
(* Workers and the monitor *)

\* The process exits, faults, or falls silent.
WorkerDies(b) ==
  /\ worker[b] # NoWorker /\ worker[b].alive /\ spent.deaths < MaxDeaths
  /\ worker' = [worker EXCEPT ![b].alive = FALSE]
  /\ spent' = [spent EXCEPT !.deaths = @ + 1]
  /\ UNCHANGED <<bot, lease, launches, cmd, captured, alert, freeze, pauseVars>>

\* poll_workers: a Worker found dead is terminated and says so once; a fault
\* that is retained is said again.
Found == {b \in Bots : worker[b] # NoWorker /\ ~worker[b].alive
                       /\ (worker[b].state # "Faulted" \/ worker[b].pending)}
Poll ==
  /\ captured = {} /\ Found # {}
  /\ captured' = {[bot |-> b, reg |-> worker[b].reg] : b \in Found}
  /\ worker' = [b \in Bots |-> IF b \in Found THEN [worker[b] EXCEPT !.state = "Faulted"]
                               ELSE worker[b]]
  /\ UNCHANGED <<bot, lease, launches, cmd, alert, freeze, pauseVars, spent>>

\* Mutant: whoever is registered for the Bot.
AnyRegistration(e) == worker[e.bot] # NoWorker
SameRegistration(e) == worker[e.bot].reg = e.reg

\* handle_worker_event: an event belongs to the registration it came from.
Handle ==
  /\ \E e \in captured :
       /\ captured' = captured \ {e}
       /\ IF SameRegistration(e) THEN Converge(e.bot, worker[e.bot].attempt)
          ELSE UNCHANGED <<bot, worker, spent>>
  /\ UNCHANGED <<lease, launches, cmd, alert, freeze, pauseVars>>

--------------------------------------------------------------------------------
(* The host pauses the user's Bots, beside any command *)

\* pause_bots_for_user lists the Bots and pauses those it saw Running.
PauseListed ==
  /\ pausing = NoPause /\ \E b \in Bots : bot[b].state = "Running"
  /\ pausing' = [NoPause EXCEPT !.listed = {b \in Bots : bot[b].state = "Running"}]
  /\ raced' = (raced \/ cmd # Idle)
  /\ UNCHANGED <<bot, lease, worker, launches, cmd, captured, alert, freeze, spent>>

\* A half that is refused ends the sweep: the Bot is faulted in its store, if
\* that can be written, and the registry is left as it is.
PauseRefused(b) ==
  /\ pausing' = NoPause
  /\ \/ bot' = [bot EXCEPT ![b] = Faulted(@, @.id)] /\ UNCHANGED spent
     \/ WriteFails /\ UNCHANGED bot

PauseWorker ==
  /\ pausing.half = NoBot
  /\ \E b \in pausing.listed :
       IF worker[b] # NoWorker /\ Permits(worker[b].state, "Pausing")
       THEN /\ worker' = [worker EXCEPT ![b].state = "Pausing"]
            /\ pausing' = [listed |-> pausing.listed \ {b}, half |-> b]
            /\ UNCHANGED <<bot, spent>>
       ELSE PauseRefused(b) /\ UNCHANGED worker
  /\ UNCHANGED <<lease, launches, cmd, captured, alert, freeze, raced>>

PauseRecord ==
  /\ pausing.half # NoBot
  /\ LET b == pausing.half
     IN IF Permits(bot[b].state, "Pausing")
        THEN \/ /\ bot' = [bot EXCEPT ![b].state = "Pausing", ![b].recon = TRUE]
                /\ pausing' = [pausing EXCEPT !.half = NoBot]
                /\ UNCHANGED spent
             \/ /\ WriteFails /\ pausing' = NoPause
                /\ bot' \in {bot, [bot EXCEPT ![b] = Faulted(@, @.id)]}
        ELSE PauseRefused(b)
  /\ UNCHANGED <<lease, worker, launches, cmd, captured, alert, freeze, raced>>

--------------------------------------------------------------------------------
(* Freeze All, its recovery, and a restart of the host *)

FreezeRequest ==
  /\ freeze = "idle"
  /\ alert' = TRUE /\ freeze' = "bots"
  /\ UNCHANGED <<bot, lease, worker, launches, cmd, captured, pauseVars, spent>>

\* Mutant: it does not wait for the command in progress.
ControlIgnored == TRUE
ControlFree == cmd = Idle

NotStopped == {b \in Bots : bot[b].state # "Stopped"}
FaultAll(bots) == [b \in Bots |-> IF b \in bots THEN Faulted(bot[b], bot[b].id) ELSE bot[b]]

\* BotStore::freeze_all, under the control lock; the first failure ends it.
FreezeBots ==
  /\ freeze = "bots" /\ ControlFree
  /\ \/ bot' = FaultAll(NotStopped) /\ freeze' = "workers" /\ UNCHANGED spent
     \/ /\ WriteFails /\ freeze' = "idle"
        /\ \E done \in SUBSET NotStopped : done # NotStopped /\ bot' = FaultAll(done)
  /\ UNCHANGED <<lease, worker, launches, cmd, captured, alert, pauseVars>>

\* BotSupervisor::freeze_all, under the registry lock.
FreezeWorkers ==
  /\ freeze = "workers"
  /\ worker' = [b \in Bots |-> NoWorker]
  /\ freeze' = "idle"
  /\ UNCHANGED <<bot, lease, launches, cmd, captured, alert, pauseVars, spent>>

\* recover_host_freeze, once the alert was acknowledged; nobody recovers a
\* freeze that has not returned.
Thaw ==
  /\ alert /\ freeze = "idle"
  /\ alert' = FALSE
  /\ UNCHANGED <<bot, lease, worker, launches, cmd, captured, freeze, pauseVars, spent>>

Restart ==
  /\ spent.crashes < MaxCrashes
  /\ spent' = [spent EXCEPT !.crashes = @ + 1]
  /\ worker' = [b \in Bots |-> NoWorker]
  /\ cmd' = Idle /\ captured' = {} /\ freeze' = "idle" /\ pausing' = NoPause
  /\ bot' = FaultAll({b \in Bots : bot[b].state \in Active})
  /\ UNCHANGED <<lease, launches, alert, raced>>

--------------------------------------------------------------------------------
CommandStep ==
  \/ BeginStep \/ LaunchStep \/ WorkerStep \/ RecordStep \/ ReconcileStep
  \/ UnloadStep \/ CompleteStep \/ DecideStep \/ GateStep \/ SubmitStep \/ FailStep

Next ==
  \/ \E b \in Bots : \/ Start(b) \/ Retry(b) \/ Pause(b) \/ Resume(b) \/ Stop(b)
                     \/ Decision(b) \/ WorkerDies(b)
  \/ CommandStep
  \/ Poll \/ Handle
  \/ PauseListed \/ PauseWorker \/ PauseRecord
  \/ FreezeRequest \/ FreezeBots \/ FreezeWorkers \/ Thaw \/ Restart

Spec == Init /\ [][Next]_vars

--------------------------------------------------------------------------------
(* Properties *)

AtRest == cmd = Idle /\ freeze = "idle" /\ pausing = NoPause

\* Between commands and pauses, as long as no write has failed and no pause by
\* the host overlapped a command, the Bot store and the registry say the same:
\* an active Bot has a Worker of its current attempt in the same state, or one
\* whose fault is on its way, and another Bot has none, or one like that.  A Bot
\* left Stopping because its account did not answer is the exception: its Worker
\* is gone (transition_pair, converge_fault, freeze_all, pause_bots_for_user).
StoresAgree ==
  AtRest /\ spent.failures = 0 /\ ~raced =>
    \A b \in Bots :
      IF bot[b].state \in Active \ {"Stopping"}
      THEN /\ worker[b] # NoWorker /\ worker[b].attempt = bot[b].id
           /\ worker[b].state \in {bot[b].state, "Faulted"}
      ELSE worker[b] = NoWorker \/ worker[b].state = "Faulted"

\* A Bot that is not Stopped, and one stopped with its position kept, holds the
\* lease of its account or instrument: no other Bot can start there
\* (begin_attempt, complete_stop, release_lease).
LeaseHeldWhileExposed ==
  \A b \in Bots : bot[b].state # "Stopped" \/ bot[b].exposed => lease[Key[b]] = b

\* An attempt that is Faulted or Stopped is never active again, however late a
\* command in progress writes its next state: only a new attempt is.
FaultIsFinal ==
  [][\A b \in Bots : bot[b].state \in {"Faulted", "Stopped"} /\ bot'[b].state \in Active
                       => bot'[b].id > bot[b].id]_vars

\* The monitor faults no Bot whose registered Worker is alive: what it polled of
\* a Worker that was replaced since does not reach the replacement
\* (handle_worker_event, converge_fault).
MonitorSparesLiveWorkers ==
  [][\A b \in Bots :
       captured' # captured /\ worker[b] # NoWorker /\ worker[b].alive /\ UNCHANGED spent.crashes
         => worker'[b] = worker[b] /\ bot'[b] = bot[b]]_vars

\* Once Freeze All has gone through, and until it is recovered, no Bot is
\* active and no Worker registered, whatever command was in progress when it
\* came; a write that failed is what may prevent it.
FrozenStaysDown ==
  alert /\ freeze = "idle" /\ spent.failures = 0 =>
    \A b \in Bots : bot[b].state \notin Active /\ worker[b] = NoWorker

\* A registered Worker that is dead is not forgotten, though the write of its
\* fault fails: the next poll finds it, or what was polled of it is still to be
\* handled (poll_workers, handle_worker_event, retain_fault).
DeadWorkersAreFound ==
  \A b \in Bots : worker[b] # NoWorker /\ ~worker[b].alive =>
    b \in Found \/ [bot |-> b, reg |-> worker[b].reg] \in captured

===============================================================================
