---------------------------- MODULE BotLifecycleProofs ----------------------------
(***************************************************************************)
(* Proofs about BotLifecycle, for any Bots, leases and bounds.              *)
(*                                                                         *)
(* Three facts carry them: which steps a command can have left (Planned),   *)
(* how one step may change a Bot's record (Evolves), and which states record *)
(* and Worker may be in before each step of a command (Agreement).          *)
(***************************************************************************)
EXTENDS BotLifecycle, SequenceTheorems, TLAPS

Completion == [do |-> "complete", to |-> "Stopped"]

\* The steps of every command but the last one of stop.
Plain == {x \in Step : x.do # "complete" /\ x.to # "Faulted"
                       /\ (x.do \in {"worker", "record"} => x.to \in Active)}

\* A command that may still complete a stop has a Bot that is not Stopped.
Planned ==
  \/ cmd = Idle
  \/ cmd # Idle /\ cmd.todo \in Seq(Plain)
  \/ /\ cmd # Idle /\ cmd.todo \in Seq(Plain \cup {Completion})
     /\ bot[cmd.bot].state # "Stopped"

\* What one step may make of the record of a Bot.
Evolves(a, x) ==
  \/ x = a
  \/ a.state = "Stopped" /\ x = [a EXCEPT !.recon = TRUE]
  \/ /\ a.state \in Active \cup {"Faulted"} /\ x.state = "Faulted"
     /\ x.id = a.id /\ x.exposed = a.exposed /\ x.recon = TRUE
  \/ a.state \in Active /\ x.state \in Active /\ x.id = a.id /\ x.exposed = a.exposed

-------------------------------------------------------------------------------
(***************************************************************************)
(* What commands are made of.                                              *)
(***************************************************************************)

LEMMA PlainSteps ==
  /\ Plain \subseteq Step
  /\ Completion \in Step /\ Plain \cup {Completion} \subseteq Step
  /\ Seq(Plain) \subseteq Seq(Step)
  /\ Seq(Plain \cup {Completion}) \subseteq Seq(Step)
  <1>1. Plain \subseteq Step /\ Completion \in Step
    BY DEF Plain, Completion, Step, States, Active
  <1> QED BY <1>1, SeqMonotonic DEF Completion

LEMMA Joined ==
  ASSUME NEW S, NEW s \in Seq(S), NEW t \in Seq(S)
  PROVE  s \o t \in Seq(S) /\ (t # <<>> => s \o t # <<>>)
  <1>1. s \o t \in Seq(S) /\ Len(s \o t) = Len(s) + Len(t)
    BY ConcatProperties
  <1>2. Len(s) \in Nat /\ Len(t) \in Nat /\ (t # <<>> => Len(t) # 0)
    BY EmptySeq, LenProperties
  <1> DEFINE st == s \o t
  <1>3. st \in Seq(S) /\ Len(st) = Len(s) + Len(t)
    BY <1>1
  <1> HIDE DEF st
  <1>4. t # <<>> => st # <<>>
    BY <1>2, <1>3
  <1> QED BY <1>3, <1>4 DEF st

LEMMA TailLeft ==
  ASSUME NEW S, NEW s \in Seq(S), s # <<>>
  PROVE  Tail(s) \in Seq(S) /\ (Len(s) # 1 => Tail(s) # <<>>)
  <1>1. Tail(s) \in Seq(S) /\ Len(Tail(s)) = Len(s) - 1
    BY HeadTailProperties
  <1>2. Len(s) \in Nat /\ (Tail(s) # <<>> \/ Len(Tail(s)) = 0)
    BY LenProperties, EmptySeq, <1>1
  <1> QED BY <1>1, <1>2

LEMMA Scripts ==
  /\ StartScript \in Seq(Plain) /\ StartScript # <<>>
  /\ ResumeScript \in Seq(Plain) /\ ResumeScript # <<>>
  /\ PauseScript \in Seq(Plain) /\ PauseScript # <<>>
  /\ Do("decide") \in Seq(Plain) /\ Do("decide") # <<>>
  /\ Fail \in Seq(Plain) /\ Fail # <<>>
  /\ Do("gate") \o Do("submit") \in Seq(Plain) /\ Do("gate") \o Do("submit") # <<>>
  /\ \A s \in States : /\ StopScript(s) \in Seq(Plain \cup {Completion})
                       /\ StopScript(s) # <<>>
  <1> DEFINE Runs == Seq(Plain) \ {<<>>}
             Endings == Seq(Plain \cup {Completion})
  <1>1. \A d \in {"begin", "launch", "reconcile", "unload", "decide", "gate", "submit", "fail"} :
          Do(d) \in Runs
    BY DEF Do, Plain, Step, States, Active
  <1>2. \A s \in Active : Pair(s) \in Runs
    BY DEF Pair, Plain, Step, States, Active
  <1>3. \A s, t \in Runs : s \o t \in Runs
    BY Joined
  <1>4. Seq(Plain) \subseteq Endings /\ <<>> \in Endings
    BY SeqMonotonic
  <1>5. \A s, t \in Endings : s \o t \in Endings /\ (t # <<>> => s \o t # <<>>)
    BY Joined
  <1>6. Do("begin") \in Runs /\ Do("launch") \in Runs /\ Do("reconcile") \in Runs
        /\ Do("unload") \in Runs /\ Do("decide") \in Runs /\ Do("gate") \in Runs
        /\ Do("submit") \in Runs /\ Do("fail") \in Runs
    BY <1>1
  <1>7. Pair("Reconciling") \in Runs /\ Pair("WarmingUp") \in Runs /\ Pair("Running") \in Runs
        /\ Pair("Pausing") \in Runs /\ Pair("Paused") \in Runs /\ Pair("Stopping") \in Runs
    BY <1>2 DEF Active
  <1>8. Do("complete") \in Endings /\ Do("complete") # <<>>
    BY DEF Do, Completion
  <1> HIDE DEF Runs, Endings
  <1>9. ToRunning \in Runs
    BY <1>3, <1>6, <1>7, Zenon DEF ToRunning
  <1>10. StartScript \in Runs /\ ResumeScript \in Runs
    BY <1>3, <1>6, <1>9, Zenon DEF StartScript, ResumeScript
  <1>11. PauseScript \in Runs
    BY <1>3, <1>6, <1>7, Zenon DEF PauseScript
  <1>12. Do("gate") \o Do("submit") \in Runs
    BY <1>3, <1>6, Zenon
  <1>13. Runs \subseteq Endings
    BY <1>4 DEF Runs
  <1>w. ASSUME NEW s \in States
         PROVE  StopScript(s) \in Endings /\ StopScript(s) # <<>>
    <2> DEFINE stopping == IF s \in Active \ {"Stopping"} THEN Pair("Stopping") ELSE <<>>
               unload == IF s \in Active THEN Do("unload") ELSE <<>>
    <2>1. stopping \in Endings /\ unload \in Endings
      BY <1>4, <1>6, <1>7, <1>13
    <2>2. StopScript(s) = stopping \o unload \o Do("complete")
      BY Zenon DEF StopScript
    <2> HIDE DEF stopping, unload
    <2> QED BY <1>5, <1>8, <2>1, <2>2, Zenon
  <1>15. \A s \in Runs : s \in Seq(Plain) /\ s # <<>>
    BY DEF Runs
  <1>16. Fail \in Runs
    BY <1>6, Zenon DEF Fail
  <1> QED BY <1>6, <1>10, <1>11, <1>12, <1>w, <1>15, <1>16, Zenon DEF Endings

-------------------------------------------------------------------------------
(***************************************************************************)
(* What one step does to the command.                                      *)
(***************************************************************************)

Submits == cmd' = [cmd EXCEPT !.todo = Do("gate") \o Do("submit")]

\* A step leaves the command a part of its steps, a step that is plain, or none.
LEMMA CommandMoves ==
  ASSUME TypeOK, cmd # Idle, GoesOn \/ Fails \/ Returns \/ Submits
  PROVE  /\ cmd' \in Command
         /\ cmd' # Idle => cmd'.todo # <<>> /\ cmd'.bot = cmd.bot
         /\ cmd.todo \in Seq(Plain) => cmd' = Idle \/ cmd'.todo \in Seq(Plain)
         /\ cmd.todo \in Seq(Plain \cup {Completion}) =>
              cmd' = Idle \/ cmd'.todo \in Seq(Plain \cup {Completion})
  <1>1. cmd \in Command /\ cmd.todo \in Seq(Step) /\ cmd.todo # <<>>
    BY DEF TypeOK, Command
  <1>2. \A S : cmd.todo \in Seq(S) =>
          /\ Tail(cmd.todo) \in Seq(S)
          /\ Len(cmd.todo) # 1 => Tail(cmd.todo) # <<>>
    BY <1>1, TailLeft
  <1> DEFINE With(todo) == [cmd EXCEPT !.todo = todo]
  <1>3. ASSUME NEW todo \in Seq(Step), todo # <<>>
        PROVE  /\ With(todo) \in Command /\ With(todo).todo = todo
               /\ With(todo).bot = cmd.bot
    BY <1>1, <1>3 DEF Command, Idle
  <1>4. CASE Returns
    BY <1>4 DEF Returns, Command
  <1>5. CASE GoesOn /\ cmd' # Idle
    <2>1. cmd' = With(Tail(cmd.todo)) /\ Len(cmd.todo) # 1
      BY <1>5 DEF GoesOn, Left
    <2> QED BY <1>1, <1>2, <1>3, <2>1
  <1>6. ASSUME NEW todo \in Seq(Plain), todo # <<>>, cmd' = With(todo)
        PROVE  /\ cmd' \in Command
               /\ cmd' # Idle => cmd'.todo # <<>> /\ cmd'.bot = cmd.bot
               /\ cmd'.todo \in Seq(Plain) /\ cmd'.todo \in Seq(Plain \cup {Completion})
    <2>1. todo \in Seq(Step) /\ todo \in Seq(Plain \cup {Completion})
      BY <1>6, PlainSteps, SeqMonotonic
    <2> QED BY <1>3, <1>6, <2>1
  <1>7. Fails => cmd' = With(Fail)
    BY DEF Fails
  <1>8. Submits => cmd' = With(Do("gate") \o Do("submit"))
    BY Zenon DEF Submits
  <1> HIDE DEF With
  <1>9. CASE Fails
    BY <1>6, <1>7, <1>9, Scripts
  <1>10. CASE Submits
    BY <1>6, <1>8, <1>10, Scripts, Zenon
  <1>11. CASE cmd' = Idle
    BY <1>11 DEF Command
  <1> QED BY <1>4, <1>5, <1>9, <1>10, <1>11

\* A command that is taken has all its steps before it.
LEMMA CommandTaken ==
  ASSUME TypeOK, NEW b \in Bots,
         Start(b) \/ Retry(b) \/ Pause(b) \/ Resume(b) \/ Stop(b) \/ Decision(b)
  PROVE  /\ cmd' \in Command /\ cmd' # Idle /\ cmd'.todo # <<>>
         /\ \/ cmd'.todo \in Seq(Plain)
            \/ cmd'.todo \in Seq(Plain \cup {Completion}) /\ bot[cmd'.bot].state # "Stopped"
         /\ UNCHANGED <<bot, lease, worker, launches, captured, alert, freeze, pausing, spent>>
         /\ raced' \in BOOLEAN /\ cmd = Idle
  <1>1. bot[b].state \in States
    BY DEF TypeOK, Attempt
  <1>2. ASSUME NEW k \in {"start", "retry", "pause", "resume", "stop", "decision"},
               NEW script \in Seq(Step), script # <<>>, Take(k, b, script)
        PROVE  /\ cmd' \in Command /\ cmd' # Idle /\ cmd'.todo = script /\ cmd'.bot = b
               /\ UNCHANGED <<bot, lease, worker, launches, captured, alert, freeze, pausing, spent>>
               /\ raced' \in BOOLEAN /\ cmd = Idle
    BY <1>2 DEF Take, Command, Idle, TypeOK
  <1>3. CASE Start(b)
    BY <1>2, <1>3, Scripts, PlainSteps DEF Start
  <1>4. CASE Retry(b)
    BY <1>2, <1>4, Scripts, PlainSteps DEF Retry
  <1>5. CASE Pause(b)
    BY <1>2, <1>5, Scripts, PlainSteps DEF Pause
  <1>6. CASE Resume(b)
    BY <1>2, <1>6, Scripts, PlainSteps DEF Resume
  <1>7. CASE Stop(b)
    BY <1>1, <1>2, <1>7, Scripts, PlainSteps DEF Stop
  <1>8. CASE Decision(b)
    BY <1>2, <1>8, Scripts, PlainSteps DEF Decision
  <1> QED BY <1>3, <1>4, <1>5, <1>6, <1>7, <1>8

-------------------------------------------------------------------------------
(***************************************************************************)
(* One step, by who takes it.                                              *)
(***************************************************************************)

Takes == \E b \in Bots : Start(b) \/ Retry(b) \/ Pause(b) \/ Resume(b) \/ Stop(b) \/ Decision(b)
Monitors == (\E b \in Bots : WorkerDies(b)) \/ Poll \/ Handle
Pauses == PauseListed \/ PauseWorker \/ PauseRecord
Freezes == FreezeRequest \/ FreezeBots \/ FreezeWorkers \/ Thaw

LEMMA WhoSteps ==
  ASSUME [Next]_vars
  PROVE  Takes \/ CommandStep \/ Monitors \/ Pauses \/ Freezes \/ Restart \/ UNCHANGED vars
  BY Zenon DEF Next, Takes, Monitors, Pauses, Freezes

\* Only the command itself, and a restart, change the command.
LEMMA CommandChanges ==
  /\ CommandStep => cmd # Idle /\ (GoesOn \/ Fails \/ Returns \/ Submits)
  /\ Monitors \/ Pauses \/ Freezes \/ UNCHANGED vars => cmd' = cmd
  /\ Restart => cmd' = Idle
  <1>1. CommandStep => cmd # Idle
    BY DEF CommandStep, At, BeginStep, LaunchStep, WorkerStep, RecordStep, ReconcileStep,
           UnloadStep, CompleteStep, DecideStep, GateStep, SubmitStep, FailStep
  <1>2. BeginStep => GoesOn \/ Returns
    BY DEF BeginStep
  <1>3. LaunchStep => GoesOn \/ Fails \/ Returns
    BY DEF LaunchStep
  <1>4. WorkerStep => GoesOn \/ Fails
    BY DEF WorkerStep
  <1>5. RecordStep => GoesOn \/ Fails \/ Returns
    BY DEF RecordStep
  <1>6. ReconcileStep => GoesOn \/ Fails \/ Returns
    BY DEF ReconcileStep
  <1>7. UnloadStep => GoesOn \/ Fails
    BY DEF UnloadStep
  <1>8. CompleteStep \/ FailStep => Returns
    BY DEF CompleteStep, FailStep
  <1>9. DecideStep => Fails \/ Returns \/ Submits
    BY Zenon DEF DecideStep, Submits
  <1>10. GateStep => GoesOn \/ Fails \/ Returns
    BY DEF GateStep
  <1>11. SubmitStep => Fails \/ Returns
    BY DEF SubmitStep
  <1>12. Monitors \/ Pauses \/ Freezes \/ UNCHANGED vars => cmd' = cmd
    BY DEF Monitors, WorkerDies, Poll, Handle, Pauses, PauseListed, PauseWorker, PauseRecord,
           Freezes, FreezeRequest, FreezeBots, FreezeWorkers, Thaw, vars
  <1>13. Restart => cmd' = Idle
    BY DEF Restart
  <1> QED BY <1>1, <1>2, <1>3, <1>4, <1>5, <1>6, <1>7, <1>8, <1>9, <1>10, <1>11, <1>12, <1>13
             DEF CommandStep

CommandOK == cmd \in Command /\ (cmd # Idle => cmd.todo # <<>>)

LEMMA CommandTyped ==
  ASSUME TypeOK, [Next]_vars
  PROVE  CommandOK'
  <1>1. CASE Takes
    BY <1>1, CommandTaken DEF Takes, CommandOK
  <1>2. CASE CommandStep
    BY <1>2, CommandChanges, CommandMoves DEF CommandOK
  <1>3. CASE Monitors \/ Pauses \/ Freezes \/ UNCHANGED vars
    BY <1>3, CommandChanges DEF TypeOK, CommandOK
  <1>4. CASE Restart
    BY <1>4, CommandChanges DEF CommandOK, Command
  <1> QED BY <1>1, <1>2, <1>3, <1>4, WhoSteps

-------------------------------------------------------------------------------
(***************************************************************************)
(* What one step does to a Bot's record.                                   *)
(***************************************************************************)

\* A new attempt, and the end of a stop.
Begins(c) == /\ BeginStep /\ cmd.bot = c
             /\ bot'[c] = [id |-> bot[c].id + 1, state |-> "Starting", recon |-> TRUE,
                           exposed |-> FALSE]
Completes(c) == /\ CompleteStep /\ cmd.bot = c
                /\ bot'[c].id = bot[c].id /\ bot'[c].state \in {"Stopped", "Faulted"}

LEMMA FaultedEvolves ==
  ASSUME NEW a \in Attempt, NEW id
  PROVE  Faulted(a, id) \in Attempt /\ Evolves(a, Faulted(a, id))
  BY DEF Attempt, Faulted, Evolves, States

\* The head of the command's steps.
LEMMA HeadStep ==
  ASSUME TypeOK, Planned, cmd # Idle
  PROVE  /\ cmd.bot \in Bots /\ Head(cmd.todo) \in Plain \cup {Completion}
         /\ Head(cmd.todo).do = "complete" => bot[cmd.bot].state # "Stopped"
  <1>1. cmd.bot \in Bots /\ cmd.todo # <<>> /\ cmd.todo \in Seq(Step)
    BY DEF TypeOK, Command
  <1>2. \A S : cmd.todo \in Seq(S) => Head(cmd.todo) \in S
    BY <1>1, HeadTailProperties
  <1> QED BY <1>1, <1>2 DEF Planned, Plain

LEMMA RecordChanges ==
  ASSUME TypeOK, Planned, [Next]_vars
  PROVE  /\ bot' \in [Bots -> Attempt]
         /\ \A c \in Bots : Evolves(bot[c], bot'[c]) \/ Begins(c) \/ Completes(c)
  <1> DEFINE Ok == /\ bot' \in [Bots -> Attempt]
                   /\ \A c \in Bots : Evolves(bot[c], bot'[c]) \/ Begins(c) \/ Completes(c)
  <1>1. bot \in [Bots -> Attempt]
    BY DEF TypeOK
  <1>2. CASE UNCHANGED bot
    BY <1>1, <1>2 DEF Evolves
  <1>3. ASSUME NEW b \in Bots, NEW a \in Attempt, bot' = [bot EXCEPT ![b] = a],
               Evolves(bot[b], a) \/ Begins(b) \/ Completes(b)
        PROVE  Ok
    BY <1>1, <1>3 DEF Evolves
  <1>4. ASSUME NEW bots \in SUBSET Bots, bot' = FaultAll(bots)
        PROVE  Ok
    <2>1. \A c \in Bots : bot'[c] \in Attempt /\ Evolves(bot[c], bot'[c])
      BY <1>1, <1>4, FaultedEvolves DEF FaultAll, Evolves
    <2>2. bot' = [c \in Bots |-> bot'[c]]
      BY <1>4 DEF FaultAll
    <2> QED BY <2>1, <2>2
  <1>5. ASSUME NEW b \in Bots, NEW id, bot' = [bot EXCEPT ![b] = Faulted(@, id)]
        PROVE  Ok
    BY <1>1, <1>3, <1>5, FaultedEvolves
  <1>6. CASE Takes
    BY <1>2, <1>6, CommandTaken DEF Takes
  <1>7. CASE CommandStep
    <2>1. cmd # Idle /\ cmd.bot \in Bots
      BY <1>7, CommandChanges, HeadStep
    <2> DEFINE b == cmd.bot
    <2>2. CASE BeginStep
      <3>1. CASE UNCHANGED bot
        BY <1>2, <3>1
      <3>2. CASE bot' = [bot EXCEPT ![b] = [id |-> @.id + 1, state |-> "Starting",
                                            recon |-> TRUE, exposed |-> FALSE]]
        <4> DEFINE a == [id |-> bot[b].id + 1, state |-> "Starting", recon |-> TRUE,
                         exposed |-> FALSE]
        <4>1. a \in Attempt
          BY <1>1, <2>1 DEF Attempt, States, Active
        <4>2. bot' = [bot EXCEPT ![b] = a] /\ bot'[b] = a
          BY <1>1, <2>1, <3>2
        <4> QED BY <1>3, <2>1, <2>2, <4>1, <4>2 DEF Begins
      <3> QED BY <2>2, <3>1, <3>2 DEF BeginStep
    <2>3. CASE RecordStep
      <3> DEFINE to == Head(cmd.todo).to
                 a == [bot[b] EXCEPT !.state = to, !.recon = (to # "Running")]
      <3>1. CASE UNCHANGED bot
        BY <1>2, <3>1
      <3>2. CASE Permits(bot[b].state, to)
                 /\ bot' = [bot EXCEPT ![b].state = to, ![b].recon = (to # "Running")]
        <4>1. to \in Active
          BY <2>1, <2>3, HeadStep DEF RecordStep, At, Plain, Completion
        <4>2. bot[b].state \in Active
          BY <3>2 DEF Permits, Active
        <4>3. a \in Attempt /\ Evolves(bot[b], a)
          BY <1>1, <2>1, <4>1, <4>2 DEF Attempt, States, Evolves
        <4>4. bot' = [bot EXCEPT ![b] = a]
          BY <1>1, <2>1, <3>2 DEF Attempt
        <4> QED BY <1>3, <2>1, <4>3, <4>4
      <3> QED BY <2>3, <3>1, <3>2 DEF RecordStep
    <2>4. CASE CompleteStep
      <3> DEFINE stopped(proven, exposed) ==
                   [bot[b] EXCEPT !.state = "Stopped", !.recon = ~proven, !.exposed = exposed]
      <3>1. CASE UNCHANGED bot
        BY <1>2, <3>1
      <3>2. CASE bot' = [bot EXCEPT ![b] = Faulted(@, @.id)]
        BY <1>5, <2>1, <3>2
      <3>3. ASSUME NEW proven \in BOOLEAN, NEW exposed \in BOOLEAN,
                   bot' = [bot EXCEPT ![b].state = "Stopped", ![b].recon = ~proven,
                                      ![b].exposed = exposed]
            PROVE  Ok
        <4>1. stopped(proven, exposed) \in Attempt
          BY <1>1, <2>1 DEF Attempt, States
        <4>2. bot' = [bot EXCEPT ![b] = stopped(proven, exposed)]
          BY <1>1, <2>1, <3>3 DEF Attempt
        <4>3. Completes(b)
          BY <1>1, <2>1, <2>4, <4>2 DEF Completes, Attempt
        <4> QED BY <1>3, <2>1, <4>1, <4>2, <4>3
      <3> QED BY <2>4, <3>1, <3>2, <3>3 DEF CompleteStep
    <2>5. CASE FailStep
      BY <1>2, <1>5, <2>1, <2>5 DEF FailStep, Converge
    <2> QED
      BY <1>2, <1>7, <2>2, <2>3, <2>4, <2>5
         DEF CommandStep, LaunchStep, WorkerStep, ReconcileStep, UnloadStep, DecideStep,
             GateStep, SubmitStep
  <1>8. CASE Monitors
    <2>1. ASSUME NEW e \in captured, Converge(e.bot, worker[e.bot].attempt)
          PROVE  Ok
      BY <1>2, <1>5, <2>1 DEF Converge, TypeOK
    <2> QED BY <1>2, <1>8, <2>1 DEF Monitors, WorkerDies, Poll, Handle
  <1>9. CASE Pauses
    <2>1. ASSUME NEW b \in Bots, PauseRefused(b)
          PROVE  Ok
      BY <1>2, <1>5, <2>1 DEF PauseRefused
    <2>2. CASE PauseWorker
      BY <1>2, <2>1, <2>2 DEF PauseWorker, TypeOK
    <2>3. CASE PauseRecord
      <3> DEFINE b == pausing.half
                 a == [bot[b] EXCEPT !.state = "Pausing", !.recon = TRUE]
      <3>1. b \in Bots
        BY <2>3 DEF PauseRecord, TypeOK
      <3>2. CASE /\ Permits(bot[b].state, "Pausing")
                 /\ bot' = [bot EXCEPT ![b].state = "Pausing", ![b].recon = TRUE]
        <4>1. a \in Attempt /\ Evolves(bot[b], a)
          BY <1>1, <3>1, <3>2 DEF Attempt, States, Active, Evolves, Permits
        <4>2. bot' = [bot EXCEPT ![b] = a]
          BY <1>1, <3>1, <3>2 DEF Attempt
        <4> QED BY <1>3, <3>1, <4>1, <4>2
      <3>3. CASE bot' \in {bot, [bot EXCEPT ![b] = Faulted(@, @.id)]}
        BY <1>2, <1>5, <3>1, <3>3
      <3> QED BY <2>1, <2>3, <3>1, <3>2, <3>3 DEF PauseRecord
    <2> QED BY <1>2, <1>9, <2>2, <2>3 DEF Pauses, PauseListed
  <1>10. CASE Freezes
    <2>1. NotStopped \in SUBSET Bots
      BY DEF NotStopped
    <2>2. CASE FreezeBots
      BY <1>4, <2>1, <2>2 DEF FreezeBots
    <2> QED BY <1>2, <1>10, <2>2 DEF Freezes, FreezeRequest, FreezeWorkers, Thaw
  <1>11. CASE Restart
    BY <1>4, <1>11 DEF Restart
  <1> QED BY <1>2, <1>6, <1>7, <1>8, <1>9, <1>10, <1>11, WhoSteps DEF vars

-------------------------------------------------------------------------------
(***************************************************************************)
(* Type correctness, with the plan of the command.                         *)
(***************************************************************************)

LEMMA PlannedKept ==
  ASSUME TypeOK, Planned, [Next]_vars
  PROVE  Planned'
  <1> DEFINE Kept == \A c \in Bots : bot[c].state # "Stopped" => bot'[c].state # "Stopped"
  <1>1. ~CompleteStep => Kept
    <2>1. ASSUME NEW c \in Bots, Evolves(bot[c], bot'[c]), bot[c].state # "Stopped"
          PROVE  bot'[c].state # "Stopped"
      BY <2>1 DEF Evolves, Active
    <2>2. ASSUME NEW c \in Bots, Begins(c)
          PROVE  bot'[c].state # "Stopped"
      BY <2>2 DEF Begins
    <2> QED BY <2>1, <2>2, RecordChanges DEF Completes
  <1>2. CASE Takes
    BY <1>2, CommandTaken DEF Takes, Planned
  <1>3. CASE CommandStep
    <2>1. cmd # Idle /\ (GoesOn \/ Fails \/ Returns \/ Submits)
      BY <1>3, CommandChanges
    <2>2. CASE CompleteStep
      BY <2>2 DEF CompleteStep, Returns, Planned
    <2>3. CASE ~CompleteStep
      <3>1. cmd' # Idle => cmd'.bot = cmd.bot /\ cmd.bot \in Bots
        BY <2>1, CommandMoves, HeadStep
      <3> QED BY <1>1, <2>1, <2>3, <3>1, CommandMoves DEF Planned
    <2> QED BY <2>2, <2>3
  <1>4. CASE Monitors \/ Pauses \/ Freezes \/ UNCHANGED vars
    <2>1. cmd' = cmd
      BY <1>4, CommandChanges
    <2>2. CASE cmd = Idle
      BY <2>1, <2>2 DEF Planned
    <2>3. CASE cmd # Idle
      <3>1. ~CompleteStep
        BY <2>1, <2>3 DEF CompleteStep, Returns
      <3> QED BY <1>1, <2>1, <2>3, <3>1, HeadStep DEF Planned
    <2> QED BY <2>2, <2>3
  <1>5. CASE Restart
    BY <1>5, CommandChanges DEF Planned
  <1> QED BY <1>2, <1>3, <1>4, <1>5, WhoSteps

Workers == [Bots -> Worker \cup {NoWorker}]

\* A step of the command leaves the other parts of the stores well typed.
LEMMA CommandStepTyped ==
  ASSUME TypeOK, Planned, CommandStep
  PROVE  /\ lease' \in [Keys -> Bots \cup {NoBot}]
         /\ worker' \in Workers
         /\ launches' \in [Bots -> Nat]
         /\ UNCHANGED <<captured, alert, freeze, pausing, raced>>
         /\ spent' \in [deaths : Nat, failures : Nat, crashes : Nat]
  <1>1. cmd # Idle /\ cmd.bot \in Bots /\ Key[cmd.bot] \in Keys
    BY CommandChanges, HeadStep, BotAssumption
  <1>2. WriteFails \/ UNCHANGED spent => spent' \in [deaths : Nat, failures : Nat, crashes : Nat]
    BY DEF WriteFails, TypeOK
  <1>3. Drop(cmd.bot) => worker' \in Workers
    BY DEF Drop, TypeOK, Workers
  <1> USE <1>1 DEF pauseVars
  <1>w. worker[cmd.bot] # NoWorker => worker[cmd.bot] \in Worker
    BY DEF TypeOK
  <1>4. CASE BeginStep
    BY <1>2, <1>4 DEF BeginStep, TypeOK, Workers
  <1>5. CASE LaunchStep
    <2>1. bot[cmd.bot].id \in Nat /\ launches[cmd.bot] \in Nat
      BY DEF TypeOK, Attempt
    <2> DEFINE w == [reg |-> launches[cmd.bot] + 1, attempt |-> bot[cmd.bot].id,
                     state |-> "Starting", alive |-> TRUE, pending |-> FALSE]
    <2>2. w \in Worker
      BY <2>1 DEF Worker, Active
    <2> HIDE DEF w
    <2>3. worker' \in {worker, [worker EXCEPT ![cmd.bot] = w]}
      BY <1>5 DEF LaunchStep, w
    <2>4. worker' \in Workers
      BY <2>2, <2>3 DEF TypeOK, Workers
    <2>5. launches' \in [Bots -> Nat]
      <3>1. \/ launches' = launches
            \/ launches' = [launches EXCEPT ![cmd.bot] = launches[cmd.bot] + 1]
        BY <1>5 DEF LaunchStep
      <3>2. launches \in [Bots -> Nat] /\ launches[cmd.bot] + 1 \in Nat
        BY <2>1 DEF TypeOK
      <3> QED BY <3>1, <3>2
    <2> QED BY <1>2, <1>5, <2>4, <2>5 DEF LaunchStep, TypeOK
  <1>6. CASE WorkerStep
    <2>1. Head(cmd.todo).to \in Active
      BY <1>6, HeadStep DEF WorkerStep, At, Plain, Completion
    <2> DEFINE w == [worker[cmd.bot] EXCEPT !.state = Head(cmd.todo).to]
    <2>2. worker' \in Workers
      <3>1. \/ worker' = worker
            \/ worker[cmd.bot] # NoWorker /\ worker' = [worker EXCEPT ![cmd.bot] = w]
        BY <1>6 DEF WorkerStep
      <3>2. worker[cmd.bot] # NoWorker => w \in Worker
        BY <1>w, <2>1 DEF Worker
      <3> HIDE DEF w
      <3> QED BY <3>1, <3>2 DEF TypeOK, Workers
    <2> QED BY <1>2, <1>6, <2>2 DEF WorkerStep, TypeOK
  <1>7. CASE RecordStep \/ ReconcileStep
    BY <1>2, <1>7 DEF RecordStep, ReconcileStep, TypeOK, Workers
  <1>8. CASE UnloadStep
    BY <1>2, <1>8 DEF UnloadStep, TypeOK, Workers
  <1>9. CASE CompleteStep
    <2>1. \/ UNCHANGED lease
          \/ lease' = [lease EXCEPT ![Key[cmd.bot]] = IF @ = cmd.bot THEN NoBot ELSE @]
      BY <1>9 DEF CompleteStep
    <2>2. lease' \in [Keys -> Bots \cup {NoBot}]
      BY <2>1 DEF TypeOK
    <2>3. /\ UNCHANGED <<worker, launches, captured, alert, freeze, pausing, raced>>
          /\ WriteFails \/ UNCHANGED spent
      BY <1>9 DEF CompleteStep
    <2> QED BY <1>2, <2>2, <2>3 DEF TypeOK, Workers
  <1>10. CASE DecideStep
    BY <1>2, <1>3, <1>10 DEF DecideStep, TypeOK, Workers
  <1>11. CASE GateStep
    BY <1>2, <1>3, <1>11 DEF GateStep, TypeOK, Workers
  <1>12. CASE SubmitStep
    BY <1>2, <1>3, <1>12 DEF SubmitStep, TypeOK, Workers
  <1>13. CASE FailStep
    <2>1. worker' \in Workers
      <3>1. worker[cmd.bot] # NoWorker => Retained(worker[cmd.bot]) \in Worker
        BY <1>w DEF Worker, Retained
      <3> QED BY <1>13, <3>1 DEF FailStep, Converge, TypeOK, Workers
    <2> QED BY <1>2, <1>13, <2>1 DEF FailStep, Converge, TypeOK
  <1> QED
    BY <1>4, <1>5, <1>6, <1>7, <1>8, <1>9, <1>10, <1>11, <1>12, <1>13 DEF CommandStep

LEMMA TypeKept ==
  ASSUME TypeOK, Planned, [Next]_vars
  PROVE  TypeOK'
  <1>1. bot' \in [Bots -> Attempt] /\ CommandOK'
    BY RecordChanges, CommandTyped
  <1>2. WriteFails \/ UNCHANGED spent => spent' \in [deaths : Nat, failures : Nat, crashes : Nat]
    BY DEF WriteFails, TypeOK
  <1>3. CASE Takes
    BY <1>1, <1>3, CommandTaken DEF Takes, TypeOK, CommandOK
  <1>4. CASE CommandStep
    BY <1>1, <1>4, CommandStepTyped DEF TypeOK, CommandOK, Workers
  <1>5. CASE Monitors
    <2> DEFINE Counted == spent' \in [deaths : Nat, failures : Nat, crashes : Nat]
    <2>1. ASSUME NEW b \in Bots, WorkerDies(b)
          PROVE  worker' \in Workers /\ UNCHANGED captured /\ Counted
      <3>1. worker[b] \in Worker
        BY <2>1 DEF TypeOK, WorkerDies
      <3>2. [worker[b] EXCEPT !.alive = FALSE] \in Worker
        BY <3>1 DEF Worker
      <3>3. worker' = [worker EXCEPT ![b] = [worker[b] EXCEPT !.alive = FALSE]]
        BY <2>1 DEF WorkerDies
      <3>4. worker' \in Workers
        BY <3>2, <3>3 DEF TypeOK, Workers
      <3>5. Counted
        <4>1. spent \in [deaths : Nat, failures : Nat, crashes : Nat]
          BY DEF TypeOK
        <4>2. spent' = [spent EXCEPT !.deaths = @ + 1]
          BY <2>1 DEF WorkerDies
        <4> QED BY <4>1, <4>2
      <3>6. UNCHANGED captured
        BY <2>1 DEF WorkerDies
      <3> QED BY <3>4, <3>5, <3>6
    <2>2. ASSUME Poll
          PROVE  worker' \in Workers /\ captured' \subseteq [bot : Bots, reg : Nat] /\ Counted
      <3>1. ASSUME NEW b \in Found
            PROVE  worker[b] \in Worker /\ [worker[b] EXCEPT !.state = "Faulted"] \in Worker
        <4>1. worker[b] \in Worker
          BY DEF Found, TypeOK
        <4> QED BY <4>1 DEF Worker
      <3>2. worker' \in Workers
        BY <2>2, <3>1 DEF Poll, TypeOK, Workers
      <3>3. \A b \in Found : b \in Bots /\ worker[b].reg \in Nat
        BY <3>1 DEF Found, Worker
      <3>4. captured' \subseteq [bot : Bots, reg : Nat]
        BY <2>2, <3>3 DEF Poll
      <3> QED BY <2>2, <3>2, <3>4 DEF Poll, TypeOK
    <2>3. ASSUME Handle
          PROVE  worker' \in Workers /\ captured' \subseteq [bot : Bots, reg : Nat] /\ Counted
      <3>1. PICK e \in captured : /\ captured' = captured \ {e}
                                  /\ \/ Converge(e.bot, worker[e.bot].attempt)
                                     \/ UNCHANGED <<bot, worker, spent>>
        BY <2>3 DEF Handle
      <3>2. e.bot \in Bots
        BY <3>1 DEF TypeOK
      <3>3. worker[e.bot] # NoWorker => Retained(worker[e.bot]) \in Worker
        <4>1. worker[e.bot] \in Worker \cup {NoWorker}
          BY <3>2 DEF TypeOK
        <4>2. ASSUME NEW w \in Worker  PROVE Retained(w) \in Worker
          BY DEF Worker, Retained
        <4> QED BY <4>1, <4>2
      <3>4. worker' \in Workers
        BY <3>1, <3>2, <3>3 DEF Converge, TypeOK, Workers
      <3>5. Counted
        BY <1>2, <3>1 DEF Converge
      <3> QED BY <3>1, <3>4, <3>5 DEF TypeOK
    <2>4. worker' \in Workers /\ captured' \subseteq [bot : Bots, reg : Nat] /\ Counted
      BY <1>5, <2>1, <2>2, <2>3 DEF Monitors, TypeOK
    <2>5. UNCHANGED <<lease, launches, alert, freeze, pausing, raced>>
      BY <1>5 DEF Monitors, WorkerDies, Poll, Handle, pauseVars
    <2> QED BY <1>1, <2>4, <2>5 DEF TypeOK, CommandOK, Workers
  <1>6. CASE Pauses
    <2>1. ASSUME NEW b \in Bots, worker[b] # NoWorker
          PROVE  [worker EXCEPT ![b].state = "Pausing"] \in Workers
      <3>1. worker[b] \in Worker
        BY <2>1 DEF TypeOK
      <3>2. [worker[b] EXCEPT !.state = "Pausing"] \in Worker
        BY <3>1 DEF Worker, Active
      <3> QED BY <3>2 DEF TypeOK, Workers
    <2>2. worker' \in Workers
      <3>1. UNCHANGED worker => worker' \in Workers
        BY DEF TypeOK, Workers
      <3> QED BY <1>6, <2>1, <3>1 DEF Pauses, PauseListed, PauseWorker, PauseRecord, TypeOK
    <2>3. pausing' \in [listed : SUBSET Bots, half : Bots \cup {NoBot}]
      BY <1>6 DEF Pauses, PauseListed, PauseWorker, PauseRecord, PauseRefused, NoPause, TypeOK
    <2>4. spent' \in [deaths : Nat, failures : Nat, crashes : Nat] /\ raced' \in BOOLEAN
      BY <1>2, <1>6 DEF Pauses, PauseListed, PauseWorker, PauseRecord, PauseRefused, TypeOK
    <2>5. UNCHANGED <<lease, launches, captured, alert, freeze>>
      BY <1>6 DEF Pauses, PauseListed, PauseWorker, PauseRecord
    <2> QED BY <1>1, <2>2, <2>3, <2>4, <2>5 DEF TypeOK, CommandOK, Workers
  <1>7. CASE Freezes
    BY <1>1, <1>2, <1>7
       DEF Freezes, FreezeRequest, FreezeBots, FreezeWorkers, Thaw, pauseVars, TypeOK, CommandOK
  <1>8. CASE Restart
    BY <1>1, <1>8 DEF Restart, TypeOK, CommandOK, NoPause
  <1>9. CASE UNCHANGED vars
    BY <1>9 DEF vars, pauseVars, TypeOK
  <1> QED BY <1>3, <1>4, <1>5, <1>6, <1>7, <1>8, <1>9, WhoSteps

LEMMA InitSound == Init => TypeOK /\ Planned
  <1> SUFFICES ASSUME Init PROVE TypeOK /\ Planned
    OBVIOUS
  <1>1. bot \in [Bots -> Attempt]
    BY DEF Init, Attempt, States
  <1>2. cmd \in Command /\ cmd = Idle
    BY DEF Init, Command
  <1>3. pausing \in [listed : SUBSET Bots, half : Bots \cup {NoBot}] /\ captured = {}
    BY DEF Init, NoPause
  <1> QED BY <1>1, <1>2, <1>3 DEF Init, TypeOK, Planned

(* Each component keeps to its type, and every command has a plan: steps before *)
(* the last one of a stop never need it, and a Bot whose stop is still to be    *)
(* completed is not Stopped (BotStore::command, stop_bot).                      *)
THEOREM LifecycleSound == Spec => [](TypeOK /\ Planned)
  <1>1. TypeOK /\ Planned /\ [Next]_vars => (TypeOK /\ Planned)'
    BY TypeKept, PlannedKept
  <1> QED BY <1>1, InitSound, PTL DEF Spec

(* Every variable keeps to its type. *)
THEOREM LifecycleTypeCorrect == Spec => []TypeOK
  BY LifecycleSound, PTL

-------------------------------------------------------------------------------
(***************************************************************************)
(* Leases, and the end of an attempt.                                      *)
(***************************************************************************)

Exposed(c) == bot[c].state # "Stopped" \/ bot[c].exposed

LEMMA LeaseChanges ==
  ASSUME TypeOK, Planned, [Next]_vars
  PROVE  UNCHANGED lease \/ BeginStep \/ CompleteStep
  <1>1. Takes => UNCHANGED lease
    BY CommandTaken DEF Takes
  <1>2. CommandStep => UNCHANGED lease \/ BeginStep \/ CompleteStep
    BY DEF CommandStep, LaunchStep, WorkerStep, RecordStep, ReconcileStep, UnloadStep,
           DecideStep, GateStep, SubmitStep, FailStep
  <1>3. Monitors \/ Pauses \/ Freezes \/ Restart \/ UNCHANGED vars => UNCHANGED lease
    BY DEF Monitors, WorkerDies, Poll, Handle, Pauses, PauseListed, PauseWorker, PauseRecord,
           Freezes, FreezeRequest, FreezeBots, FreezeWorkers, Thaw, Restart, vars
  <1> QED BY <1>1, <1>2, <1>3, WhoSteps

LEMMA LeaseKept ==
  ASSUME TypeOK, Planned, LeaseHeldWhileExposed, [Next]_vars
  PROVE  LeaseHeldWhileExposed'
  <1> SUFFICES ASSUME NEW c \in Bots, bot'[c].state # "Stopped" \/ bot'[c].exposed
               PROVE  lease'[Key[c]] = c
    BY DEF LeaseHeldWhileExposed
  <1>1. bot \in [Bots -> Attempt] /\ lease \in [Keys -> Bots \cup {NoBot}] /\ Key[c] \in Keys
        /\ c # NoBot
    BY BotAssumption DEF TypeOK
  <1>2. Exposed(c) => lease[Key[c]] = c
    BY DEF Exposed, LeaseHeldWhileExposed
  <1>3. Evolves(bot[c], bot'[c]) => Exposed(c)
    BY <1>1 DEF Evolves, Exposed, Attempt, States, Active
  <1>4. CASE BeginStep
    <2>1. cmd.bot \in Bots /\ Key[cmd.bot] \in Keys
      BY <1>4, HeadStep, BotAssumption DEF BeginStep, At
    <2>2. CASE ~LeaseFree(cmd.bot)
      BY <1>2, <1>4, <2>2 DEF BeginStep, Exposed
    <2>3. CASE LeaseFree(cmd.bot)
      <3>1. lease' = [lease EXCEPT ![Key[cmd.bot]] = cmd.bot]
        BY <1>4, <2>3 DEF BeginStep
      <3>2. c = cmd.bot \/ bot'[c] = bot[c]
        BY <1>1, <1>4, <2>1 DEF BeginStep
      <3>3. CASE c = cmd.bot
        BY <1>1, <2>1, <3>1, <3>3
      <3>4. CASE c # cmd.bot
        <4>1. lease[Key[c]] = c
          BY <1>2, <3>2, <3>4 DEF Exposed
        <4>2. Key[c] # Key[cmd.bot]
          BY <1>1, <2>3, <3>4, <4>1 DEF LeaseFree
        <4> QED BY <1>1, <2>1, <3>1, <4>1, <4>2
      <3> QED BY <3>3, <3>4
    <2> QED BY <2>2, <2>3
  <1>5. CASE CompleteStep
    <2>1. /\ cmd.bot \in Bots /\ Key[cmd.bot] \in Keys
          /\ bot[cmd.bot].state # "Stopped"
      BY <1>5, HeadStep, BotAssumption DEF CompleteStep, At
    <2>2. lease[Key[cmd.bot]] = cmd.bot
      BY <2>1 DEF LeaseHeldWhileExposed
    <2>3. CASE UNCHANGED lease
      <3>1. c # cmd.bot => bot'[c] = bot[c]
        BY <1>1, <1>5, <2>1 DEF CompleteStep
      <3> QED BY <1>2, <2>2, <2>3, <3>1 DEF Exposed
    <2>4. ASSUME NEW proven \in BOOLEAN, NEW exposed \in BOOLEAN, Releases(proven, exposed),
                 bot' = [bot EXCEPT ![cmd.bot].state = "Stopped", ![cmd.bot].recon = ~proven,
                                    ![cmd.bot].exposed = exposed],
                 lease' = [lease EXCEPT ![Key[cmd.bot]] = IF @ = cmd.bot THEN NoBot ELSE @]
          PROVE  lease'[Key[c]] = c
      <3>1. bot'[cmd.bot].state = "Stopped" /\ bot'[cmd.bot].exposed = FALSE
        BY <1>1, <2>1, <2>4 DEF Releases, Attempt
      <3>2. c # cmd.bot
        BY <3>1
      <3>3. bot'[c] = bot[c]
        BY <1>1, <2>1, <2>4, <3>2
      <3>4. lease[Key[c]] = c
        BY <1>2, <3>3 DEF Exposed
      <3>5. Key[c] # Key[cmd.bot]
        BY <2>2, <3>2, <3>4
      <3> QED BY <1>1, <2>1, <2>4, <3>4, <3>5
    <2> QED BY <1>5, <2>3, <2>4 DEF CompleteStep
  <1>6. CASE UNCHANGED lease /\ ~BeginStep /\ ~CompleteStep
    <2>1. Exposed(c)
      BY <1>3, <1>6, RecordChanges DEF Begins, Completes
    <2> QED BY <1>2, <1>6, <2>1
  <1> QED BY <1>4, <1>5, <1>6, LeaseChanges

(* A Bot that is not Stopped, or was stopped with its position kept, holds the   *)
(* lease of its account or instrument, so no other Bot can start there: through  *)
(* writes that fail, faults, freezes and restarts in the middle of any command   *)
(* (begin_attempt, complete_stop).  The invariant needs Planned: a stop that is  *)
(* still to be completed is the stop of a Bot that holds its lease.              *)
THEOREM LeaseStaysHeld == Spec => []LeaseHeldWhileExposed
  <1>1. Init => LeaseHeldWhileExposed
    BY DEF Init, LeaseHeldWhileExposed
  <1>2. TypeOK /\ Planned /\ LeaseHeldWhileExposed /\ [Next]_vars => LeaseHeldWhileExposed'
    BY LeaseKept
  <1> QED BY <1>1, <1>2, LifecycleSound, PTL DEF Spec

(* Whatever a command in progress, the monitor, a pause or a freeze writes late, *)
(* a Faulted or Stopped attempt is not active again: only a new attempt is.      *)
THEOREM FaultStaysFinal == Spec => FaultIsFinal
  <1> DEFINE Final == \A b \in Bots :
               bot[b].state \in {"Faulted", "Stopped"} /\ bot'[b].state \in Active
                 => bot'[b].id > bot[b].id
  <1>1. ASSUME TypeOK, Planned, [Next]_vars
        PROVE  Final
    <2> SUFFICES ASSUME NEW b \in Bots, bot[b].state \in {"Faulted", "Stopped"},
                        bot'[b].state \in Active
                 PROVE  bot'[b].id > bot[b].id
      OBVIOUS
    <2>1. bot[b] \in Attempt
      BY <1>1 DEF TypeOK
    <2>2. ~Evolves(bot[b], bot'[b])
      BY <2>1 DEF Evolves, Active, Attempt
    <2>3. ~Completes(b)
      BY DEF Completes, Active
    <2>4. Begins(b)
      BY <1>1, <2>2, <2>3, RecordChanges
    <2> QED BY <2>1, <2>4 DEF Begins, Attempt
  <1>2. TypeOK /\ Planned /\ [Next]_vars => [Final]_vars
    BY <1>1
  <1> QED BY <1>2, LifecycleSound, PTL DEF Spec, FaultIsFinal

-------------------------------------------------------------------------------
(***************************************************************************)
(* The registry and the monitor.                                           *)
(***************************************************************************)

\* A live Worker is not Faulted; registrations are counted; what the monitor
\* has polled is dead, or was replaced since.
Watched ==
  /\ \A b \in Bots : worker[b] # NoWorker =>
       /\ worker[b].alive => worker[b].state # "Faulted"
       /\ worker[b].reg <= launches[b]
  /\ \A e \in captured :
       /\ e.reg # 0 /\ e.reg <= launches[e.bot]
       /\ worker[e.bot].reg = e.reg => ~worker[e.bot].alive

\* A Worker that is kept: dead Workers stay dead, and a dead one can be found.
Stays(w, x) ==
  /\ w # NoWorker /\ x \in Worker /\ x.reg = w.reg
  /\ x.alive => w.alive /\ x.state # "Faulted"
  /\ x.alive \/ x.state # "Faulted" \/ x.pending

\* A Worker that is launched, with the next registration.
Launched(c) ==
  /\ launches' = [launches EXCEPT ![c] = @ + 1]
  /\ worker'[c] \in Worker /\ worker'[c].reg = launches[c] + 1
  /\ worker'[c].alive /\ worker'[c].state # "Faulted"

LEMMA WorkerChanges ==
  ASSUME TypeOK, Planned, Watched, [Next]_vars, ~Poll, NEW c \in Bots
  PROVE  /\ worker'[c] = worker[c] \/ worker'[c] = NoWorker \/ Stays(worker[c], worker'[c])
            \/ Launched(c)
         /\ UNCHANGED launches \/ (\E b \in Bots : Launched(b))
  <1>1. worker \in Workers /\ launches \in [Bots -> Nat]
    BY DEF TypeOK, Workers
  <1>2. ASSUME NEW b \in Bots, worker[b] # NoWorker
        PROVE  /\ worker[b] \in Worker
               /\ Stays(worker[b], Retained(worker[b]))
               /\ worker[b].alive => Stays(worker[b], [worker[b] EXCEPT !.alive = FALSE])
               /\ \A to \in Active : worker[b].state # "Faulted" =>
                    Stays(worker[b], [worker[b] EXCEPT !.state = to])
    <2>1. worker[b] \in Worker
      BY <1>1, <1>2 DEF Workers
    <2>2. worker[b].alive => worker[b].state # "Faulted"
      BY <1>2 DEF Watched
    <2>3. Stays(worker[b], Retained(worker[b]))
      BY <1>2, <2>1 DEF Stays, Retained, Worker
    <2>4. worker[b].alive => Stays(worker[b], [worker[b] EXCEPT !.alive = FALSE])
      BY <1>2, <2>1, <2>2 DEF Stays, Worker
    <2>5. ASSUME NEW to \in Active
          PROVE  worker[b].state # "Faulted" => Stays(worker[b], [worker[b] EXCEPT !.state = to])
      BY <1>2, <2>1, <2>2 DEF Stays, Worker, Active
    <2> QED BY <2>1, <2>3, <2>4, <2>5
  <1> DEFINE Ok == /\ \/ worker'[c] = worker[c] \/ worker'[c] = NoWorker
                      \/ Stays(worker[c], worker'[c]) \/ Launched(c)
                   /\ UNCHANGED launches \/ (\E b \in Bots : Launched(b))
  <1>3. ASSUME NEW b \in Bots, NEW w, worker' = [worker EXCEPT ![b] = w], UNCHANGED launches,
               w = worker[b] \/ w = NoWorker \/ Stays(worker[b], w)
        PROVE  Ok
    BY <1>1, <1>3 DEF Workers
  <1>4. CASE UNCHANGED <<worker, launches>>
    BY <1>4
  <1>5. CASE Takes
    BY <1>4, <1>5, CommandTaken DEF Takes
  <1>6. CASE CommandStep
    <2>1. cmd.bot \in Bots /\ bot[cmd.bot].id \in Nat /\ launches[cmd.bot] \in Nat
      BY <1>1, <1>6, CommandChanges, HeadStep DEF TypeOK, Attempt
    <2>2. CASE LaunchStep
      <3> DEFINE w == [reg |-> launches[cmd.bot] + 1, attempt |-> bot[cmd.bot].id,
                       state |-> "Starting", alive |-> TRUE, pending |-> FALSE]
      <3>1. w \in Worker /\ w.reg = launches[cmd.bot] + 1 /\ w.alive /\ w.state # "Faulted"
        BY <2>1 DEF Worker, Active
      <3>2. \/ UNCHANGED <<worker, launches>>
            \/ /\ worker' = [worker EXCEPT ![cmd.bot] = w]
               /\ launches' = [launches EXCEPT ![cmd.bot] = @ + 1]
        BY <2>2 DEF LaunchStep
      <3> HIDE DEF w
      <3>3. CASE /\ worker' = [worker EXCEPT ![cmd.bot] = w]
                 /\ launches' = [launches EXCEPT ![cmd.bot] = @ + 1]
        <4>1. Launched(cmd.bot)
          BY <1>1, <2>1, <3>1, <3>3 DEF Launched, Workers
        <4>2. c # cmd.bot => worker'[c] = worker[c]
          BY <1>1, <3>3 DEF Workers
        <4> QED BY <2>1, <4>1, <4>2
      <3> QED BY <1>4, <3>2, <3>3
    <2>3. CASE WorkerStep
      <3>1. Head(cmd.todo).to \in Active
        BY <2>3, HeadStep DEF WorkerStep, At, Plain, Completion
      <3>2. Permits(worker[cmd.bot].state, Head(cmd.todo).to) => worker[cmd.bot].state # "Faulted"
        BY DEF Permits, Active
      <3>3. CASE UNCHANGED worker
        BY <1>4, <2>3, <3>3 DEF WorkerStep
      <3>4. CASE /\ worker[cmd.bot] # NoWorker /\ Permits(worker[cmd.bot].state, Head(cmd.todo).to)
                 /\ worker' = [worker EXCEPT ![cmd.bot].state = Head(cmd.todo).to]
        <4>1. worker' = [worker EXCEPT ![cmd.bot] =
                           [worker[cmd.bot] EXCEPT !.state = Head(cmd.todo).to]]
          BY <3>4
        <4>2. UNCHANGED launches
          BY <2>3 DEF WorkerStep
        <4> QED BY <1>2, <1>3, <2>1, <3>1, <3>2, <3>4, <4>1, <4>2
      <3> QED BY <2>3, <3>3, <3>4 DEF WorkerStep
    <2>4. CASE FailStep
      <3>1. UNCHANGED launches
        BY <2>4 DEF FailStep
      <3> QED BY <1>2, <1>3, <1>4, <2>1, <2>4, <3>1 DEF FailStep, Converge
    <2>5. CASE UnloadStep \/ DecideStep \/ GateStep \/ SubmitStep
      <3>1. UNCHANGED launches /\ (UNCHANGED worker \/ worker' = [worker EXCEPT ![cmd.bot] = NoWorker])
        BY <2>5 DEF UnloadStep, DecideStep, GateStep, SubmitStep, Drop
      <3> QED BY <1>3, <1>4, <2>1, <3>1
    <2>6. CASE BeginStep \/ RecordStep \/ ReconcileStep \/ CompleteStep
      BY <1>4, <2>6 DEF BeginStep, RecordStep, ReconcileStep, CompleteStep
    <2> QED BY <1>6, <2>2, <2>3, <2>4, <2>5, <2>6 DEF CommandStep
  <1>7. CASE Monitors
    <2>1. ASSUME NEW b \in Bots, WorkerDies(b)
          PROVE  Ok
      <3>1. worker' = [worker EXCEPT ![b] = [worker[b] EXCEPT !.alive = FALSE]]
            /\ worker[b] # NoWorker /\ worker[b].alive /\ UNCHANGED launches
        BY <2>1 DEF WorkerDies
      <3> QED BY <1>2, <1>3, <3>1
    <2>2. ASSUME Handle
          PROVE  Ok
      <3>1. PICK e \in captured : \/ Converge(e.bot, worker[e.bot].attempt)
                                  \/ UNCHANGED <<bot, worker, spent>>
        BY <2>2 DEF Handle
      <3>2. e.bot \in Bots /\ UNCHANGED launches
        BY <2>2 DEF Handle, TypeOK
      <3> QED BY <1>2, <1>3, <1>4, <3>1, <3>2 DEF Converge
    <2> QED BY <1>7, <2>1, <2>2 DEF Monitors
  <1>8. CASE Pauses
    <2>1. UNCHANGED launches
      BY <1>8 DEF Pauses, PauseListed, PauseWorker, PauseRecord
    <2>2. ASSUME NEW b \in Bots, worker[b] # NoWorker, Permits(worker[b].state, "Pausing"),
                 worker' = [worker EXCEPT ![b].state = "Pausing"]
          PROVE  Ok
      <3>1. worker[b].state # "Faulted"
        BY <2>2 DEF Permits, Active
      <3>2. worker' = [worker EXCEPT ![b] = [worker[b] EXCEPT !.state = "Pausing"]]
        BY <2>2
      <3> QED BY <1>2, <1>3, <2>1, <2>2, <3>1, <3>2 DEF Active
    <2> QED BY <1>4, <1>8, <2>1, <2>2 DEF Pauses, PauseListed, PauseWorker, PauseRecord, TypeOK
  <1>9. CASE Freezes \/ Restart \/ UNCHANGED vars
    BY <1>1, <1>9
       DEF Freezes, FreezeRequest, FreezeBots, FreezeWorkers, Thaw, Restart, vars
  <1> QED BY <1>5, <1>6, <1>7, <1>8, <1>9, WhoSteps

\* What was polled stays polled until it is handled, or the host restarts.
LEMMA CapturedChanges ==
  ASSUME TypeOK, [Next]_vars, ~Poll
  PROVE  UNCHANGED captured \/ Handle \/ Restart
  <1>1. Takes => UNCHANGED captured
    BY CommandTaken DEF Takes
  <1>2. CommandStep => UNCHANGED captured
    BY DEF CommandStep, BeginStep, LaunchStep, WorkerStep, RecordStep, ReconcileStep, UnloadStep,
           CompleteStep, DecideStep, GateStep, SubmitStep, FailStep
  <1>3. Monitors => UNCHANGED captured \/ Handle
    BY DEF Monitors, WorkerDies
  <1>4. Pauses \/ Freezes \/ UNCHANGED vars => UNCHANGED captured
    BY DEF Pauses, PauseListed, PauseWorker, PauseRecord, Freezes, FreezeRequest, FreezeBots,
           FreezeWorkers, Thaw, vars
  <1> QED BY <1>1, <1>2, <1>3, <1>4, WhoSteps

LEMMA PollFinds ==
  ASSUME TypeOK, Watched, DeadWorkersAreFound, Poll
  PROVE  Watched' /\ DeadWorkersAreFound'
  <1>1. /\ worker \in Workers /\ UNCHANGED launches /\ Found \subseteq Bots
        /\ captured' = {[bot |-> b, reg |-> worker[b].reg] : b \in Found}
        /\ worker' = [b \in Bots |-> IF b \in Found THEN [worker[b] EXCEPT !.state = "Faulted"]
                                     ELSE worker[b]]
    BY DEF Poll, TypeOK, Workers, Found
  <1>2. ASSUME NEW b \in Bots
        PROVE  /\ b \in Found => /\ worker[b] \in Worker /\ ~worker[b].alive
                                 /\ worker'[b].reg = worker[b].reg /\ worker'[b] # NoWorker
                                 /\ ~worker'[b].alive
               /\ b \notin Found => worker'[b] = worker[b]
    <2>1. b \in Found => worker[b] \in Worker /\ ~worker[b].alive
      BY <1>1 DEF Found, Workers
    <2>2. b \in Found => worker'[b] = [worker[b] EXCEPT !.state = "Faulted"]
      BY <1>1
    <2>3. b \in Found => worker'[b].reg \in Nat \ {0}
      BY <2>1, <2>2 DEF Worker
    <2> QED BY <1>1, <2>1, <2>2 DEF Worker, NoWorker
  <1>3. ASSUME NEW e \in captured'
        PROVE  /\ e.reg # 0 /\ e.reg <= launches[e.bot]
               /\ worker'[e.bot].reg = e.reg => ~worker'[e.bot].alive
    <2>1. PICK b \in Found : e = [bot |-> b, reg |-> worker[b].reg]
      BY <1>1
    <2>2. b \in Bots /\ worker[b] # NoWorker /\ worker[b].reg \in Nat \ {0}
      BY <1>1, <1>2 DEF Found, Worker
    <2> QED BY <1>2, <2>1, <2>2 DEF Watched
  <1>4. ASSUME NEW b \in Bots, worker'[b] # NoWorker
        PROVE  /\ worker'[b].alive => worker'[b].state # "Faulted"
               /\ worker'[b].reg <= launches[b]
    <2>1. worker[b] # NoWorker
      BY <1>2, <1>4 DEF Found
    <2> QED BY <1>2, <2>1 DEF Watched
  <1>5. ASSUME NEW b \in Bots, worker'[b] # NoWorker, ~worker'[b].alive
        PROVE  b \in Found' \/ [bot |-> b, reg |-> worker'[b].reg] \in captured'
    <2>1. CASE b \in Found
      <3>1. [bot |-> b, reg |-> worker[b].reg] \in captured'
        BY <1>1, <2>1
      <3>2. worker'[b].reg = worker[b].reg
        BY <1>2, <2>1
      <3> QED BY <3>1, <3>2, Zenon
    <2>2. CASE b \notin Found
      <3>1. worker[b] # NoWorker /\ ~worker[b].alive
        BY <1>2, <1>5, <2>2
      <3> QED BY <2>2, <3>1 DEF DeadWorkersAreFound, Poll
    <2> QED BY <2>1, <2>2
  <1> QED BY <1>1, <1>3, <1>4, <1>5 DEF Watched, DeadWorkersAreFound

LEMMA WatchKept ==
  ASSUME TypeOK, Planned, Watched, DeadWorkersAreFound, [Next]_vars
  PROVE  Watched' /\ DeadWorkersAreFound'
  <1>1. CASE Poll
    BY <1>1, PollFinds
  <1>2. CASE ~Poll
    <2>1. \A b \in Bots : launches[b] \in Nat /\ (worker[b] # NoWorker => worker[b] \in Worker)
      BY DEF TypeOK
    <2>2. ASSUME NEW b \in Bots
          PROVE  launches'[b] \in Nat /\ launches'[b] >= launches[b]
      <3>1. UNCHANGED launches \/ \E x \in Bots : launches' = [launches EXCEPT ![x] = @ + 1]
        BY <1>2, WorkerChanges DEF Launched
      <3>2. launches \in [Bots -> Nat]
        BY DEF TypeOK
      <3> QED BY <3>1, <3>2
    <2>3. \A b \in Bots : /\ worker'[b] = worker[b] \/ worker'[b] = NoWorker
                             \/ Stays(worker[b], worker'[b]) \/ Launched(b)
      BY <1>2, WorkerChanges
    <2>4. ASSUME NEW b \in Bots, worker'[b] # NoWorker
          PROVE  /\ worker'[b].alive => worker'[b].state # "Faulted"
                 /\ worker'[b].reg <= launches'[b]
      <3>1. CASE worker'[b] = worker[b]
        <4>1. worker[b].reg \in Nat /\ worker[b].reg <= launches[b]
          BY <2>1, <2>4, <3>1 DEF Watched, Worker
        <4> QED BY <2>1, <2>2, <2>4, <3>1, <4>1 DEF Watched
      <3>2. CASE Stays(worker[b], worker'[b])
        <4>1. worker[b].reg \in Nat /\ worker[b].reg <= launches[b]
          BY <2>1, <3>2 DEF Watched, Worker, Stays
        <4> QED BY <2>1, <2>2, <3>2, <4>1 DEF Stays
      <3>3. CASE Launched(b)
        BY <2>1, <3>3 DEF Launched, TypeOK
      <3> QED BY <2>3, <2>4, <3>1, <3>2, <3>3
    <2>5. captured' \subseteq captured
      BY <1>2, CapturedChanges DEF Handle, Restart
    <2>6. ASSUME NEW e \in captured'
          PROVE  /\ e.reg # 0 /\ e.reg <= launches'[e.bot]
                 /\ worker'[e.bot].reg = e.reg => ~worker'[e.bot].alive
      <3>1. /\ e \in captured /\ e.bot \in Bots /\ e.reg \in Nat
            /\ e.reg # 0 /\ e.reg <= launches[e.bot]
            /\ worker[e.bot].reg = e.reg => ~worker[e.bot].alive
        BY <2>5, <2>6 DEF Watched, TypeOK
      <3>2. e.reg <= launches'[e.bot]
        BY <2>1, <2>2, <3>1
      <3>3. Launched(e.bot) => worker'[e.bot].reg # e.reg
        BY <2>1, <3>1 DEF Launched
      <3>4. worker'[e.bot] = NoWorker => worker'[e.bot].reg # e.reg
        BY <3>1 DEF NoWorker
      <3> QED BY <2>3, <3>1, <3>2, <3>3, <3>4 DEF Stays
    <2>7. ASSUME NEW b \in Bots, worker'[b] # NoWorker, ~worker'[b].alive
          PROVE  b \in Found' \/ [bot |-> b, reg |-> worker'[b].reg] \in captured'
      <3>1. CASE Stays(worker[b], worker'[b])
        BY <2>7, <3>1 DEF Stays, Found
      <3>2. CASE worker'[b] = worker[b]
        <4>1. b \in Found => b \in Found'
          BY <3>2 DEF Found
        <4>2. CASE [bot |-> b, reg |-> worker[b].reg] \in captured'
          BY <3>2, <4>2
        <4>3. CASE [bot |-> b, reg |-> worker[b].reg] \in captured \ captured'
          <5>1. CASE Restart
            BY <2>7, <5>1 DEF Restart
          <5>2. CASE Handle
            <6>1. PICK e \in captured :
                    /\ captured' = captured \ {e}
                    /\ IF SameRegistration(e) THEN Converge(e.bot, worker[e.bot].attempt)
                       ELSE UNCHANGED <<bot, worker, spent>>
              BY <5>2 DEF Handle
            <6>2. e.bot = b /\ SameRegistration(e)
              BY <4>3, <6>1 DEF SameRegistration
            <6>3. worker[b] # NoWorker /\ ~worker[b].alive
              BY <2>7, <3>2
            <6>4. \/ worker' = [worker EXCEPT ![b] = NoWorker]
                  \/ worker' = [worker EXCEPT ![b] = Retained(worker[b])]
              BY <6>1, <6>2, <6>3 DEF Converge
            <6>5. worker'[b] = Retained(worker[b])
              BY <2>7, <6>4 DEF TypeOK
            <6>6. Retained(worker[b]).pending
              BY <2>1, <6>3 DEF Retained, Worker
            <6> QED BY <2>7, <6>5, <6>6 DEF Found
          <5> QED BY <1>2, <4>3, <5>1, <5>2, CapturedChanges
        <4> QED BY <2>7, <3>2, <4>1, <4>2, <4>3 DEF DeadWorkersAreFound
      <3>3. CASE Launched(b)
        BY <2>7, <3>3 DEF Launched
      <3> QED BY <2>3, <2>7, <3>1, <3>2, <3>3
    <2> QED BY <2>4, <2>6, <2>7 DEF Watched, DeadWorkersAreFound
  <1> QED BY <1>1, <1>2

(* The registry of Workers and what the monitor polled of it fit together: a     *)
(* registration was counted, a Worker that is alive is not marked Faulted, and   *)
(* one that is dead is still to be found (BotSupervisor::start, poll_workers).   *)
THEOREM RegistrySound == Spec => [](Watched /\ DeadWorkersAreFound)
  <1>1. Init => Watched /\ DeadWorkersAreFound
    BY DEF Init, Watched, DeadWorkersAreFound
  <1>2. TypeOK /\ Planned /\ Watched /\ DeadWorkersAreFound /\ [Next]_vars
          => (Watched /\ DeadWorkersAreFound)'
    BY WatchKept
  <1> QED BY <1>1, <1>2, LifecycleSound, PTL DEF Spec

(* A dead Worker that is registered is never forgotten, though the write of its  *)
(* fault fails and commands, pauses and freezes come between the poll and its    *)
(* handling (poll_workers, converge_fault, retain_fault).  The invariant needs   *)
(* Watched: a live Worker is not marked Faulted, or its death would go unseen.   *)
THEOREM DeadWorkersStayFound == Spec => []DeadWorkersAreFound
  BY RegistrySound, PTL

(* What the monitor polled reaches no other Worker than the one it polled: the   *)
(* Bot of a live Worker is left as it is (handle_worker_event).  The invariant   *)
(* needs Watched: registrations are counted, so a replacement has another one.   *)
THEOREM MonitorStaysFair == Spec => MonitorSparesLiveWorkers
  <1> DEFINE Spared == \A b \in Bots :
               captured' # captured /\ worker[b] # NoWorker /\ worker[b].alive
               /\ UNCHANGED spent.crashes => worker'[b] = worker[b] /\ bot'[b] = bot[b]
  <1>1. ASSUME TypeOK, Watched, [Next]_vars
        PROVE  Spared
    <2> SUFFICES ASSUME NEW b \in Bots, captured' # captured, worker[b] # NoWorker,
                        worker[b].alive, UNCHANGED spent.crashes
                 PROVE  worker'[b] = worker[b] /\ bot'[b] = bot[b]
      BY Zenon
    <2>1. CASE Poll
      BY <1>1, <2>1 DEF Poll, Found, TypeOK
    <2>2. CASE Handle
      <3>1. PICK e \in captured :
              IF SameRegistration(e) THEN Converge(e.bot, worker[e.bot].attempt)
              ELSE UNCHANGED <<bot, worker, spent>>
        BY <2>2 DEF Handle
      <3>2. SameRegistration(e) => e.bot # b
        BY <1>1 DEF SameRegistration, Watched
      <3> QED BY <1>1, <3>1, <3>2 DEF Converge, TypeOK
    <2>3. ~Restart
      BY <1>1 DEF Restart, TypeOK
    <2> QED BY <1>1, <2>1, <2>2, <2>3, CapturedChanges
  <1>2. TypeOK /\ Watched /\ [Next]_vars => [Spared]_vars
    BY <1>1
  <1> QED BY <1>2, LifecycleSound, RegistrySound, PTL DEF Spec, MonitorSparesLiveWorkers

-------------------------------------------------------------------------------
(***************************************************************************)
(* Freeze All.                                                             *)
(***************************************************************************)

\* The Bots are frozen, and no write has failed.
Frozen == alert /\ freeze # "bots" /\ spent.failures = 0

\* Nothing is active, the only commands left complete a stop, and once the
\* Workers are frozen too none is registered.
FrozenDown ==
  Frozen => /\ \A b \in Bots : bot[b].state \notin Active
            /\ cmd # Idle => cmd.todo = Do("complete")
            /\ freeze = "idle" => \A b \in Bots : worker[b] = NoWorker

LEMMA AlertChanges ==
  ASSUME TypeOK, [Next]_vars
  PROVE  /\ UNCHANGED <<alert, freeze>> \/ Freezes \/ Restart
         /\ spent'.failures = 0 => spent.failures = 0
  <1>1. WriteFails => spent'.failures # 0
    BY DEF WriteFails, TypeOK
  <1>2. Takes => UNCHANGED <<alert, freeze, spent>>
    BY CommandTaken DEF Takes
  <1>3. CommandStep => UNCHANGED <<alert, freeze>> /\ (UNCHANGED spent \/ WriteFails)
    BY DEF CommandStep, BeginStep, LaunchStep, WorkerStep, RecordStep, ReconcileStep, UnloadStep,
           CompleteStep, DecideStep, GateStep, SubmitStep, FailStep, Converge
  <1>4. Monitors => UNCHANGED <<alert, freeze>> /\ (spent'.failures = spent.failures \/ WriteFails)
    BY DEF Monitors, WorkerDies, Poll, Handle, Converge, TypeOK
  <1>5. Pauses => UNCHANGED <<alert, freeze>> /\ (UNCHANGED spent \/ WriteFails)
    BY DEF Pauses, PauseListed, PauseWorker, PauseRecord, PauseRefused
  <1>6. Freezes => UNCHANGED spent \/ WriteFails
    BY DEF Freezes, FreezeRequest, FreezeBots, FreezeWorkers, Thaw
  <1>7. Restart => spent'.failures = spent.failures
    BY DEF Restart, TypeOK
  <1>8. UNCHANGED vars => UNCHANGED <<alert, freeze, spent>>
    BY DEF vars
  <1> QED BY <1>1, <1>2, <1>3, <1>4, <1>5, <1>6, <1>7, <1>8, WhoSteps

LEMMA StopOfInactive ==
  ASSUME NEW s, s \notin Active
  PROVE  StopScript(s) = Do("complete")
  <1>1. Do("complete") \in Seq({Completion})
    BY DEF Do, Completion
  <1>2. StopScript(s) = <<>> \o <<>> \o Do("complete")
    BY DEF StopScript
  <1>3. <<>> \o <<>> = <<>>
    BY ConcatEmptySeq, EmptySeq
  <1> QED BY <1>1, <1>2, <1>3, ConcatEmptySeq

LEMMA FrozenKept ==
  ASSUME TypeOK, Planned, Watched, FrozenDown, [Next]_vars
  PROVE  FrozenDown'
  <1> SUFFICES ASSUME Frozen'
               PROVE  /\ \A b \in Bots : bot'[b].state \notin Active
                      /\ cmd' # Idle => cmd'.todo = Do("complete")
                      /\ freeze' = "idle" => \A b \in Bots : worker'[b] = NoWorker
    BY DEF FrozenDown
  <1>1. spent.failures = 0
    BY AlertChanges DEF Frozen
  <1>2. CASE Restart
    <2>1. \A b \in Bots : bot'[b].state \notin Active
      BY <1>2 DEF Restart, FaultAll, Faulted, Active, TypeOK, Attempt
    <2> QED BY <1>2, <2>1 DEF Restart
  <1>3. CASE FreezeBots
    <2>1. bot' = FaultAll(NotStopped) /\ cmd = Idle /\ cmd' = Idle /\ freeze' = "workers"
      <3>1. ~WriteFails
        BY AlertChanges DEF WriteFails, Frozen, TypeOK
      <3> QED BY <1>3, <3>1 DEF FreezeBots, ControlFree
    <2>2. \A b \in Bots : bot'[b].state \notin Active
      BY <2>1 DEF FaultAll, NotStopped, Faulted, Active, TypeOK, Attempt
    <2> QED BY <2>1, <2>2
  <1>4. CASE Frozen /\ ~Restart
    <2>1. /\ \A b \in Bots : bot[b].state \notin Active
          /\ cmd # Idle => cmd.todo = Do("complete")
          /\ freeze = "idle" => \A b \in Bots : worker[b] = NoWorker
      BY <1>4 DEF FrozenDown
    <2>2. cmd # Idle => Head(cmd.todo).do = "complete"
      BY <2>1 DEF Do
    <2>3. CommandStep => CompleteStep
      BY <2>2 DEF CommandStep, At, BeginStep, LaunchStep, WorkerStep, RecordStep, ReconcileStep,
                  UnloadStep, DecideStep, GateStep, SubmitStep, FailStep
    <2>4. \A b \in Bots : bot'[b].state \notin Active
      <3>1. ~BeginStep
        BY <2>2 DEF BeginStep, At
      <3>2. ASSUME NEW b \in Bots, Evolves(bot[b], bot'[b])
            PROVE  bot'[b].state \notin Active
        BY <2>1, <3>2 DEF Evolves, Active, TypeOK, Attempt
      <3> QED BY <3>1, <3>2, RecordChanges DEF Begins, Completes, Active
    <2>5. cmd' # Idle => cmd'.todo = Do("complete")
      <3>1. CASE Takes
        <4>1. PICK b \in Bots : Stop(b)
          BY <1>4, <2>1, <3>1
             DEF Takes, Frozen, Start, Retry, Pause, Resume, Decision, Active
        <4> QED BY <2>1, <4>1, StopOfInactive DEF Stop, Take
      <3>2. CASE CommandStep
        BY <2>3, <3>2 DEF CompleteStep, Returns
      <3>3. CASE Monitors \/ Pauses \/ Freezes \/ UNCHANGED vars
        BY <2>1, <3>3, CommandChanges
      <3> QED BY <1>4, <3>1, <3>2, <3>3, WhoSteps
    <2>6. freeze' = "idle" => \A b \in Bots : worker'[b] = NoWorker
      <3>1. CASE FreezeWorkers
        BY <3>1 DEF FreezeWorkers
      <3>2. CASE ~FreezeWorkers /\ freeze' = "idle"
        <4>1. freeze = "idle"
          BY <1>4, <3>2, AlertChanges DEF Frozen, Freezes, FreezeRequest, FreezeBots, Thaw
        <4>2. ~Poll
          BY <2>1, <4>1 DEF Poll, Found
        <4>3. UNCHANGED launches
          <5>1. Takes => UNCHANGED launches
            BY CommandTaken DEF Takes
          <5>2. CommandStep => UNCHANGED launches
            BY <2>3 DEF CompleteStep
          <5>3. Monitors \/ Pauses \/ Freezes \/ UNCHANGED vars => UNCHANGED launches
            BY DEF Monitors, WorkerDies, Poll, Handle, Pauses, PauseListed, PauseWorker,
                   PauseRecord, Freezes, FreezeRequest, FreezeBots, FreezeWorkers, Thaw, vars
          <5> QED BY <1>4, <5>1, <5>2, <5>3, WhoSteps
        <4>4. \A b \in Bots : ~Launched(b)
          BY <4>3 DEF Launched, TypeOK
        <4> QED BY <2>1, <4>1, <4>2, <4>4, WorkerChanges DEF Stays
      <3> QED BY <3>1, <3>2
    <2> QED BY <2>4, <2>5, <2>6
  <1>5. Frozen \/ FreezeBots \/ Restart
    <2>1. CASE UNCHANGED <<alert, freeze>>
      BY <1>1, <2>1 DEF Frozen
    <2>2. CASE Freezes
      BY <1>1, <2>2 DEF Freezes, FreezeRequest, FreezeWorkers, Thaw, Frozen
    <2> QED BY <2>1, <2>2, AlertChanges
  <1> QED BY <1>2, <1>3, <1>4, <1>5

(* Once Freeze All has gone through, and until it is recovered, no Bot is active  *)
(* and no Worker registered, as long as no write of the Bot store failed: the    *)
(* command in progress when it came, a pause by the host and a late event of the *)
(* monitor bring none back (BotStore::freeze_all, BotSupervisor::freeze_all).    *)
THEOREM FreezeStaysDown == Spec => []FrozenStaysDown
  <1>1. Init => FrozenDown
    BY DEF Init, FrozenDown, Frozen
  <1>2. TypeOK /\ Planned /\ Watched /\ FrozenDown /\ [Next]_vars => FrozenDown'
    BY FrozenKept
  <1>3. FrozenDown => FrozenStaysDown
    BY DEF FrozenDown, Frozen, FrozenStaysDown
  <1> QED BY <1>1, <1>2, <1>3, LifecycleSound, RegistrySound, PTL DEF Spec

-------------------------------------------------------------------------------
(***************************************************************************)
(* The two stores, while a command is under way.                           *)
(***************************************************************************)

Acting == Active \ {"Stopping"}

\* What StoresAgree says of a Bot with record a and Worker w.
Match(a, w) ==
  IF a.state \in Acting
  THEN w # NoWorker /\ w.attempt = a.id /\ w.state \in {a.state, "Faulted"}
  ELSE w = NoWorker \/ w.state = "Faulted"

\* A pause by the host has reached the Worker and not yet the record.
Half(a, w) ==
  IF a.state \in Active
  THEN a.state = "Running" /\ w # NoWorker /\ w.attempt = a.id /\ w.state \in {"Pausing", "Faulted"}
  ELSE w = NoWorker \/ w.state = "Faulted"

\* A plan has the steps of a command by how many are left, and before each step
\* the states the record may have and the state of the Worker.
Entry(do, to, records, at) == [do |-> do, to |-> to, records |-> records, at |-> at]

Fresh == {"Starting", "Paused"}

RunPlan ==
  <<Entry("record", "Running", {"WarmingUp"}, "Running"),
    Entry("worker", "Running", {"WarmingUp"}, "WarmingUp"),
    Entry("record", "WarmingUp", {"Reconciling"}, "WarmingUp"),
    Entry("worker", "WarmingUp", {"Reconciling"}, "Reconciling"),
    Entry("reconcile", "Stopped", {"Reconciling"}, "Reconciling"),
    Entry("record", "Reconciling", Fresh, "Reconciling"),
    Entry("worker", "Reconciling", Fresh, "Starting"),
    Entry("launch", "Stopped", Fresh, "Starting")>>

PausePlan ==
  <<Entry("record", "Paused", {"Pausing"}, "Paused"),
    Entry("worker", "Paused", {"Pausing"}, "Pausing"),
    Entry("reconcile", "Stopped", {"Pausing"}, "Pausing"),
    Entry("record", "Pausing", {"Running"}, "Pausing"),
    Entry("worker", "Pausing", {"Running"}, "Running")>>

StopPlan ==
  <<Entry("complete", "Stopped", {}, "Stopping"), Entry("unload", "Stopped", {}, "Stopping"),
    Entry("record", "Stopping", {}, "Stopping"), Entry("worker", "Stopping", {}, "Stopping")>>

DecisionPlan ==
  <<Entry("submit", "Stopped", {}, "Running"), Entry("gate", "Stopped", {}, "Running")>>

\* The steps that are left are the last ones of a plan.
Ahead(todo, plan) ==
  /\ Len(todo) \in 1 .. Len(plan)
  /\ \A i \in 1 .. Len(todo) : /\ todo[i].do = plan[Len(todo) + 1 - i].do
                               /\ todo[i].to = plan[Len(todo) + 1 - i].to

InStep(a, w, entry) ==
  a.state \in Active => /\ a.state \in entry.records
                        /\ w # NoWorker /\ w.attempt = a.id /\ w.state \in {entry.at, "Faulted"}

\* The Bot of a command that has the steps todo left.
Entering(a, w, todo) ==
  /\ Len(todo) = 9 /\ Ahead(Tail(todo), RunPlan)
  /\ \/ Head(todo).do = "begin" /\ Match(a, w)
     \/ Head(todo).do = "unload" /\ (a.state \in Active => a.state \in Fresh)

Launching(a, todo) ==
  Ahead(todo, RunPlan) /\ Len(todo) = 8 /\ (a.state \in Active => a.state \in Fresh)

ComingUp(a, w, todo) ==
  Ahead(todo, RunPlan) /\ Len(todo) < 8 /\ InStep(a, w, RunPlan[Len(todo)])

Suspending(a, w, todo) ==
  Ahead(todo, PausePlan) /\ InStep(a, w, PausePlan[Len(todo)])

Ending(a, w, todo) ==
  /\ Ahead(todo, StopPlan)
  /\ Len(todo) <= 2 => a.state \notin Acting
  /\ Len(todo) = 1 => Match(a, w)

Deciding(a, w, todo) ==
  /\ (Len(todo) = 1 /\ Head(todo).do = "decide") \/ Ahead(todo, DecisionPlan)
  /\ Match(a, w)

Underway(a, w, todo) ==
  \/ Entering(a, w, todo) \/ Launching(a, todo) \/ ComingUp(a, w, todo)
  \/ Suspending(a, w, todo) \/ Ending(a, w, todo) \/ Deciding(a, w, todo)
  \/ todo = Fail

\* The Bot of the command, the Bot of half a pause, and any other.
Linked(b) ==
  IF cmd # Idle /\ cmd.bot = b THEN Underway(bot[b], worker[b], cmd.todo)
  ELSE IF pausing.half = b THEN Half(bot[b], worker[b])
  ELSE /\ Match(bot[b], worker[b])
       /\ b \in pausing.listed /\ bot[b].state \in Active => bot[b].state = "Running"

Clean == spent.failures = 0 /\ ~raced

Lined == freeze # "workers" => \A b \in Bots : Linked(b)

\* StoresAgree at every moment, for every Bot, and what a Freeze All in progress
\* and a pause by the host leave of it.
Agreement ==
  /\ freeze # "idle" => alert
  /\ Clean => /\ cmd = Idle \/ pausing = NoPause
              /\ pausing.half \notin pausing.listed
              /\ Lined
-------------------------------------------------------------------------------
(***************************************************************************)
(* Plans.                                                                  *)
(***************************************************************************)

\* A step less is the next entry of the plan.
LEMMA AheadMoves ==
  ASSUME NEW S, NEW todo \in Seq(S), NEW plan, Ahead(todo, plan)
  PROVE  /\ Len(todo) \in Nat \ {0} /\ Len(todo) <= Len(plan)
         /\ Head(todo).do = plan[Len(todo)].do /\ Head(todo).to = plan[Len(todo)].to
         /\ Len(todo) # 1 => Ahead(Tail(todo), plan) /\ Len(Tail(todo)) = Len(todo) - 1
  <1>1. Len(todo) \in Nat /\ todo # <<>>
    BY LenProperties, EmptySeq DEF Ahead
  <1>2. /\ Head(todo) = todo[1] /\ Tail(todo) \in Seq(S) /\ Len(Tail(todo)) = Len(todo) - 1
        /\ \A i \in 1 .. Len(Tail(todo)) : Tail(todo)[i] = todo[i + 1]
    BY <1>1, HeadTailProperties
  <1> QED BY <1>1, <1>2 DEF Ahead

LEMMA PlanLengths ==
  Len(RunPlan) = 8 /\ Len(PausePlan) = 5 /\ Len(StopPlan) = 4 /\ Len(DecisionPlan) = 2
  BY DEF RunPlan, PausePlan, StopPlan, DecisionPlan

\* Which step of a plan comes when.
LEMMA RunPlanSteps ==
  /\ RunPlan[1] = Entry("record", "Running", {"WarmingUp"}, "Running")
  /\ RunPlan[2] = Entry("worker", "Running", {"WarmingUp"}, "WarmingUp")
  /\ RunPlan[3] = Entry("record", "WarmingUp", {"Reconciling"}, "WarmingUp")
  /\ RunPlan[4] = Entry("worker", "WarmingUp", {"Reconciling"}, "Reconciling")
  /\ RunPlan[5] = Entry("reconcile", "Stopped", {"Reconciling"}, "Reconciling")
  /\ RunPlan[6] = Entry("record", "Reconciling", Fresh, "Reconciling")
  /\ RunPlan[7] = Entry("worker", "Reconciling", Fresh, "Starting")
  /\ RunPlan[8] = Entry("launch", "Stopped", Fresh, "Starting")
  BY DEF RunPlan

LEMMA PausePlanSteps ==
  /\ PausePlan[1] = Entry("record", "Paused", {"Pausing"}, "Paused")
  /\ PausePlan[2] = Entry("worker", "Paused", {"Pausing"}, "Pausing")
  /\ PausePlan[3] = Entry("reconcile", "Stopped", {"Pausing"}, "Pausing")
  /\ PausePlan[4] = Entry("record", "Pausing", {"Running"}, "Pausing")
  /\ PausePlan[5] = Entry("worker", "Pausing", {"Running"}, "Running")
  BY DEF PausePlan

LEMMA StopPlanSteps ==
  \A n \in 1 .. 4 :
    /\ StopPlan[n].do \in {"complete", "unload", "record", "worker"}
    /\ StopPlan[n].do = "complete" <=> n = 1
    /\ StopPlan[n].do = "unload" <=> n = 2
    /\ StopPlan[n].do = "record" <=> n = 3
    /\ n = 3 => StopPlan[n].to = "Stopping"
  BY DEF StopPlan, Entry

\* Stop is the same steps from wherever it starts: how many are left tells which.
LEMMA StopMoves ==
  ASSUME NEW todo \in Seq(Step), Ahead(todo, StopPlan)
  PROVE  /\ Len(todo) \in 1 .. 4
         /\ Head(todo).do \in {"complete", "unload", "record", "worker"}
         /\ Head(todo).do = "complete" <=> Len(todo) = 1
         /\ Head(todo).do = "unload" <=> Len(todo) = 2
         /\ Head(todo).do = "record" <=> Len(todo) = 3
         /\ Head(todo).do = "record" => Head(todo).to = "Stopping"
         /\ Len(todo) # 1 => Ahead(Tail(todo), StopPlan) /\ Len(Tail(todo)) = Len(todo) - 1
  <1>1. Len(todo) \in 1 .. 4
    BY PlanLengths DEF Ahead
  <1>2. /\ Head(todo).do = StopPlan[Len(todo)].do /\ Head(todo).to = StopPlan[Len(todo)].to
        /\ Len(todo) # 1 => Ahead(Tail(todo), StopPlan) /\ Len(Tail(todo)) = Len(todo) - 1
    BY AheadMoves, Zenon
  <1> DEFINE n == Len(todo)
             h == Head(todo)
  <1>3. n \in 1 .. 4 /\ h.do = StopPlan[n].do /\ h.to = StopPlan[n].to
    BY <1>1, <1>2
  <1> HIDE DEF n, h
  <1>4. /\ h.do \in {"complete", "unload", "record", "worker"}
        /\ h.do = "complete" <=> n = 1
        /\ h.do = "unload" <=> n = 2
        /\ h.do = "record" <=> n = 3
        /\ h.do = "record" => h.to = "Stopping"
    BY <1>3, StopPlanSteps
  <1> QED BY <1>1, <1>2, <1>4, Zenon DEF n, h

LEMMA DecisionPlanSteps == DecisionPlan[1].do = "submit" /\ DecisionPlan[2].do = "gate"
  BY DEF DecisionPlan, Entry

\* The head and the tail of a sequence that has one.
LEMMA Second ==
  ASSUME NEW S, NEW s \in Seq(S), NEW n \in Nat, Len(s) = n + 1
  PROVE  /\ Head(s) = s[1] /\ Len(Tail(s)) = n
         /\ \A i \in 1 .. n : Tail(s)[i] = s[i + 1]
  <1>1. s # <<>>
    BY EmptySeq
  <1> QED BY <1>1, HeadTailProperties

\* All but the first step of start and of resume are those of RunPlan.
LEMMA AfterFirst ==
  ASSUME NEW s \in Seq(Step), Len(s) = 9,
         \A i \in 1 .. 8 : /\ s[i + 1].do = RunPlan[9 - i].do
                           /\ s[i + 1].to = RunPlan[9 - i].to
  PROVE  Head(s) = s[1] /\ Ahead(Tail(s), RunPlan)
  <1>1. Len(s) = 8 + 1
    OBVIOUS
  <1>2. /\ Head(s) = s[1] /\ Len(Tail(s)) = 8
        /\ \A i \in 1 .. 8 : Tail(s)[i] = s[i + 1]
    BY <1>1, Second
  <1> DEFINE t == Tail(s)
  <1>3. Len(t) = 8
    BY <1>2
  <1>4. ASSUME NEW i \in 1 .. 8
        PROVE  t[i].do = RunPlan[9 - i].do /\ t[i].to = RunPlan[9 - i].to
    BY <1>2
  <1> HIDE DEF t
  <1>5. Ahead(t, RunPlan)
    BY <1>3, <1>4, PlanLengths DEF Ahead
  <1> QED BY <1>2, <1>5 DEF t

\* The commands, as plans.
LEMMA ScriptsPlanned ==
  /\ Len(StartScript) = 9 /\ Head(StartScript).do = "begin" /\ Ahead(Tail(StartScript), RunPlan)
  /\ Len(ResumeScript) = 9 /\ Head(ResumeScript).do = "unload" /\ Ahead(Tail(ResumeScript), RunPlan)
  /\ Len(PauseScript) = 5 /\ Ahead(PauseScript, PausePlan)
  /\ Len(Do("decide")) = 1 /\ Head(Do("decide")).do = "decide"
  /\ Ahead(Do("gate") \o Do("submit"), DecisionPlan) /\ Len(Do("gate") \o Do("submit")) = 2
  <1>1. /\ Len(ToRunning) = 7
        /\ \A i \in 1 .. 7 : /\ ToRunning[i].do = RunPlan[8 - i].do
                             /\ ToRunning[i].to = RunPlan[8 - i].to
    BY RunPlanSteps DEF ToRunning, Pair, Do, Entry
  <1>2. /\ Len(StartScript) = 9 /\ StartScript[1].do = "begin"
        /\ \A i \in 1 .. 8 : /\ StartScript[i + 1].do = RunPlan[9 - i].do
                             /\ StartScript[i + 1].to = RunPlan[9 - i].to
    BY <1>1, RunPlanSteps DEF StartScript, ToRunning, Pair, Do, Entry
  <1>3. /\ Len(ResumeScript) = 9 /\ ResumeScript[1].do = "unload"
        /\ \A i \in 1 .. 8 : /\ ResumeScript[i + 1].do = RunPlan[9 - i].do
                             /\ ResumeScript[i + 1].to = RunPlan[9 - i].to
    BY <1>1, RunPlanSteps DEF ResumeScript, ToRunning, Pair, Do, Entry
  <1>4. \A s \in Seq(Step) :
          /\ Len(s) = 9
          /\ \A i \in 1 .. 8 : /\ s[i + 1].do = RunPlan[9 - i].do
                              /\ s[i + 1].to = RunPlan[9 - i].to
          => Head(s) = s[1] /\ Ahead(Tail(s), RunPlan)
    BY AfterFirst
  <1>5. StartScript \in Seq(Step) /\ ResumeScript \in Seq(Step)
    BY Scripts, PlainSteps
  <1>6. Len(PauseScript) = 5 /\ Ahead(PauseScript, PausePlan)
    <2>1. Len(PauseScript) = 5
      BY DEF PauseScript, Pair, Do
    <2>2. \A i \in 1 .. 5 : /\ PauseScript[i].do = PausePlan[6 - i].do
                            /\ PauseScript[i].to = PausePlan[6 - i].to
      BY PausePlanSteps DEF PauseScript, Pair, Do, Entry
    <2> QED BY <2>1, <2>2, PlanLengths DEF Ahead
  <1>7. Len(Do("decide")) = 1 /\ Head(Do("decide")).do = "decide"
    BY DEF Do
  <1>8. Ahead(Do("gate") \o Do("submit"), DecisionPlan) /\ Len(Do("gate") \o Do("submit")) = 2
    BY DEF Do, Ahead, DecisionPlan, Entry
  <1> QED BY <1>2, <1>3, <1>4, <1>5, <1>6, <1>7, <1>8

\* Stop starts at the entry of StopPlan that the state calls for.
LEMMA StopPlanned ==
  ASSUME NEW s \in States
  PROVE  /\ Ahead(StopScript(s), StopPlan)
         /\ s \in Acting => Len(StopScript(s)) = 4
         /\ s = "Stopping" => Len(StopScript(s)) = 2
         /\ s \notin Active => Len(StopScript(s)) = 1
  <1>1. CASE s \in Acting
    <2>1. StopScript(s) = Pair("Stopping") \o Do("unload") \o Do("complete")
      BY <1>1 DEF StopScript, Acting
    <2>2. /\ Len(Pair("Stopping") \o Do("unload") \o Do("complete")) = 4
          /\ Ahead(Pair("Stopping") \o Do("unload") \o Do("complete"), StopPlan)
      BY DEF Ahead, StopPlan, Entry, Pair, Do
    <2> QED BY <1>1, <2>1, <2>2 DEF Acting
  <1>2. CASE s = "Stopping"
    <2>1. StopScript(s) = <<>> \o Do("unload") \o Do("complete")
      BY <1>2 DEF StopScript, Active
    <2>2. /\ Len(<<>> \o Do("unload") \o Do("complete")) = 2
          /\ Ahead(<<>> \o Do("unload") \o Do("complete"), StopPlan)
      BY DEF Ahead, StopPlan, Entry, Do
    <2> QED BY <1>2, <2>1, <2>2 DEF Acting, Active
  <1>3. CASE s \notin Active
    <2>1. StopScript(s) = Do("complete")
      BY <1>3, StopOfInactive
    <2>2. Len(Do("complete")) = 1 /\ Ahead(Do("complete"), StopPlan)
      BY DEF Ahead, StopPlan, Entry, Do
    <2> QED BY <1>3, <2>1, <2>2 DEF Acting, Active
  <1> QED BY <1>1, <1>2, <1>3 DEF Acting
-------------------------------------------------------------------------------
(***************************************************************************)
(* What keeps a Bot in step.                                               *)
(***************************************************************************)

\* A Worker that dies, or is found dead.
Follows(w, v) ==
  \/ v = w
  \/ /\ w # NoWorker /\ v # NoWorker
     /\ v.attempt = w.attempt /\ v.state \in {w.state, "Faulted"}

\* A Worker that is found dead keeps its Bot as it is linked.
LEMMA FollowingKeeps ==
  ASSUME NEW a, NEW w, NEW v, NEW todo, Follows(w, v)
  PROVE  /\ Match(a, w) => Match(a, v)
         /\ Half(a, w) => Half(a, v)
         /\ Underway(a, w, todo) => Underway(a, v, todo)
  <1>1. Match(a, w) => Match(a, v)
    BY DEF Match, Follows
  <1>2. Half(a, w) => Half(a, v)
    BY DEF Half, Follows
  <1>3. \A e : InStep(a, w, e) => InStep(a, v, e)
    BY DEF InStep, Follows
  <1> QED BY <1>1, <1>2, <1>3, Zenon
             DEF Underway, Entering, ComingUp, Suspending, Ending, Deciding

\* A fault that is recorded.
Down(a, x) ==
  /\ x.id = a.id
  /\ IF a.state \in Active THEN x.state = "Faulted" ELSE x.state \notin Active

LEMMA FaultedDown ==
  ASSUME NEW a \in Attempt, NEW id
  PROVE  IF a.id = id THEN Down(a, Faulted(a, id)) ELSE Faulted(a, id) = a
  BY DEF Attempt, Faulted, Down, States, Active

LEMMA DownMatches ==
  ASSUME NEW a, NEW x, NEW w, NEW todo, Down(a, x)
  PROVE  /\ x.state \notin Active
         /\ Match(x, NoWorker) /\ Half(x, NoWorker)
         /\ Underway(a, w, todo) => Underway(x, NoWorker, todo)
         /\ (w = NoWorker \/ w.state = "Faulted") => Match(x, w)
  <1>1. x.state \notin Active /\ x.state \notin Acting
    BY DEF Down, Active, Acting
  <1>2. Match(x, NoWorker) /\ Half(x, NoWorker) /\ \A e : InStep(x, NoWorker, e)
    BY <1>1 DEF Match, Half, InStep
  <1>3. (w = NoWorker \/ w.state = "Faulted") => Match(x, w)
    BY <1>1 DEF Match
  <1> QED BY <1>1, <1>2, <1>3, Zenon
             DEF Underway, Entering, Launching, ComingUp, Suspending, Ending, Deciding

\* A Worker of an earlier attempt may go: nothing rests on it.
LEMMA GoneMatches ==
  ASSUME NEW a, NEW w, NEW todo, w # NoWorker, w.attempt # a.id
  PROVE  /\ Match(a, w) => Match(a, NoWorker)
         /\ Half(a, w) => Half(a, NoWorker)
         /\ Underway(a, w, todo) => Underway(a, NoWorker, todo)
  <1>1. Match(a, w) => Match(a, NoWorker)
    BY DEF Match
  <1>2. Half(a, w) => Half(a, NoWorker)
    BY DEF Half
  <1>3. \A e : InStep(a, w, e) => InStep(a, NoWorker, e)
    BY DEF InStep
  <1> QED BY <1>1, <1>2, <1>3, Zenon
             DEF Underway, Entering, ComingUp, Suspending, Ending, Deciding

\* The event of a dead Worker, handled with no write failing.
LEMMA EventKeeps ==
  ASSUME NEW a \in Attempt, NEW w, NEW x, NEW todo, w # NoWorker, x = Faulted(a, w.attempt)
  PROVE  /\ Match(a, w) => Match(x, NoWorker)
         /\ Half(a, w) => Half(x, NoWorker)
         /\ Underway(a, w, todo) => Underway(x, NoWorker, todo)
         /\ x.state = a.state \/ x.state \notin Active
  <1>1. CASE a.id = w.attempt
    BY <1>1, FaultedDown, DownMatches
  <1>2. CASE a.id # w.attempt
    BY <1>2, FaultedDown, GoneMatches
  <1> QED BY <1>1, <1>2
-------------------------------------------------------------------------------
(***************************************************************************)
(* The steps of a command, as they go on.                                  *)
(***************************************************************************)

\* The Bot after a step that goes on: the command is at its end, or has one
\* step less.
Arrives(x, v, todo) ==
  IF Len(todo) = 1 THEN Match(x, v) ELSE Underway(x, v, Tail(todo))


\* Which steps the plans have at their head.
LEMMA HeadTells ==
  ASSUME NEW a, NEW w, NEW todo \in Seq(Step), todo # <<>>, Underway(a, w, todo)
  PROVE  /\ Head(todo).do = "begin" => Entering(a, w, todo)
         /\ Head(todo).do = "launch" => Launching(a, todo)
         /\ Head(todo).do \in {"worker", "record", "reconcile"} =>
              ComingUp(a, w, todo) \/ Suspending(a, w, todo) \/ Ending(a, w, todo)
         /\ Head(todo).do = "unload" => Entering(a, w, todo) \/ Ending(a, w, todo)
         /\ Head(todo).do = "complete" => Ending(a, w, todo)
         /\ Head(todo).do \in {"decide", "gate", "submit"} => Deciding(a, w, todo)
         /\ Head(todo).do = "fail" => todo = Fail
  <1>1. Entering(a, w, todo) => Head(todo).do \in {"begin", "unload"}
    BY DEF Entering
  <1>2. Launching(a, todo) => Head(todo).do = "launch"
    <2>1. RunPlan[8].do = "launch"
      BY RunPlanSteps DEF Entry
    <2> QED BY <2>1, AheadMoves DEF Launching
  <1>3. ComingUp(a, w, todo) => Head(todo).do \in {"worker", "record", "reconcile"}
    <2>1. \A n \in 1 .. 7 : RunPlan[n].do \in {"worker", "record", "reconcile"}
      BY RunPlanSteps DEF Entry
    <2> QED BY <2>1, AheadMoves DEF ComingUp
  <1>4. Suspending(a, w, todo) => Head(todo).do \in {"worker", "record", "reconcile"}
    <2>1. \A n \in 1 .. 5 : PausePlan[n].do \in {"worker", "record", "reconcile"}
      BY PausePlanSteps DEF Entry
    <2> QED BY <2>1, AheadMoves, PlanLengths DEF Suspending
  <1>5. Ending(a, w, todo) => Head(todo).do \in {"worker", "record", "unload", "complete"}
    BY StopMoves, Zenon DEF Ending
  <1>6. Deciding(a, w, todo) => Head(todo).do \in {"decide", "gate", "submit"}
    <2>1. \A n \in 1 .. 2 : DecisionPlan[n].do \in {"gate", "submit"}
      BY DecisionPlanSteps
    <2> QED BY <2>1, AheadMoves, PlanLengths DEF Deciding
  <1>7. todo = Fail => Head(todo).do = "fail"
    BY DEF Fail, Do
  <1> HIDE DEF Entering
  <1> QED BY <1>1, <1>2, <1>3, <1>4, <1>5, <1>6, <1>7 DEF Underway
\* How one entry of a plan leads to the next.
Flows(plan, n) ==
  /\ plan[n].do = "worker" =>
       n # 1 /\ plan[n - 1].records = plan[n].records /\ plan[n - 1].at = plan[n].to
  /\ plan[n].do = "record" =>
       /\ plan[n].at = plan[n].to /\ plan[n].to \in Acting
       /\ n # 1 => plan[n].to \in plan[n - 1].records /\ plan[n - 1].at = plan[n].to
  /\ plan[n].do = "reconcile" =>
       n # 1 /\ plan[n - 1].records = plan[n].records /\ plan[n - 1].at = plan[n].at

LEMMA PlansFlow ==
  /\ \A n \in 1 .. 7 : Flows(RunPlan, n)
  /\ \A n \in 1 .. 5 : Flows(PausePlan, n)
  <1>1. \A n \in 1 .. 7 : Flows(RunPlan, n)
    BY RunPlanSteps DEF Entry, Flows, Acting, Active
  <1>2. \A n \in 1 .. 5 : Flows(PausePlan, n)
    <2>1. Flows(PausePlan, 1) /\ Flows(PausePlan, 2)
      BY PausePlanSteps DEF Entry, Flows, Acting, Active
    <2>2. Flows(PausePlan, 3) /\ Flows(PausePlan, 4) /\ Flows(PausePlan, 5)
      BY PausePlanSteps DEF Entry, Flows, Acting, Active
    <2> QED BY <2>1, <2>2
  <1> QED BY <1>1, <1>2

\* Where a step takes record and Worker: the Worker's state, the record's, neither.
Moved(a, w, x, v, do, to) ==
  \/ do = "worker" /\ x = a /\ v # NoWorker /\ v.attempt = w.attempt /\ v.state = to
  \/ do = "record" /\ v = w /\ Permits(a.state, to) /\ x.id = a.id /\ x.state = to
  \/ do = "reconcile" /\ x = a /\ v = w

\* A step that goes on leads from one entry's states to the next one's.
LEMMA EntryMoves ==
  ASSUME NEW a, NEW w, NEW x, NEW v, NEW plan, NEW n \in Nat, Flows(plan, n),
         InStep(a, w, plan[n]), Moved(a, w, x, v, plan[n].do, plan[n].to)
  PROVE  IF n = 1 THEN Match(x, v) ELSE InStep(x, v, plan[n - 1])
  <1>1. CASE plan[n].do = "worker"
    BY <1>1 DEF Flows, InStep, Moved
  <1>2. CASE plan[n].do = "record"
    <2>1. a.state \in Active
      BY <1>2 DEF Moved, Permits, Active
    <2>2. /\ w # NoWorker /\ w.attempt = a.id /\ w.state \in {plan[n].to, "Faulted"}
          /\ v = w /\ x.id = a.id /\ x.state = plan[n].to /\ plan[n].to \in Acting
      BY <1>2, <2>1 DEF Flows, InStep, Moved
    <2> QED BY <1>2, <2>2 DEF Flows, InStep, Match
  <1>3. CASE plan[n].do = "reconcile"
    BY <1>3 DEF Flows, InStep, Moved
  <1> QED BY <1>1, <1>2, <1>3 DEF Moved

LEMMA PlanMoves ==
  ASSUME NEW a, NEW w, NEW x, NEW v, NEW todo \in Seq(Step), NEW plan, Ahead(todo, plan),
         Flows(plan, Len(todo)), InStep(a, w, plan[Len(todo)]),
         Moved(a, w, x, v, Head(todo).do, Head(todo).to)
  PROVE  /\ Len(todo) = 1 => Match(x, v)
         /\ Len(todo) # 1 => /\ Ahead(Tail(todo), plan) /\ Len(Tail(todo)) = Len(todo) - 1
                             /\ InStep(x, v, plan[Len(Tail(todo))])
  <1>1. /\ Len(todo) \in Nat
        /\ Head(todo).do = plan[Len(todo)].do /\ Head(todo).to = plan[Len(todo)].to
        /\ Len(todo) # 1 => Ahead(Tail(todo), plan) /\ Len(Tail(todo)) = Len(todo) - 1
    BY AheadMoves
  <1>2. IF Len(todo) = 1 THEN Match(x, v) ELSE InStep(x, v, plan[Len(todo) - 1])
    BY <1>1, EntryMoves
  <1> QED BY <1>1, <1>2

LEMMA RunLength ==
  ASSUME NEW todo, Ahead(todo, RunPlan), Len(todo) < 8
  PROVE  Len(todo) \in 1 .. 7
  <1>1. Len(todo) \in 1 .. Len(RunPlan)
    BY Zenon DEF Ahead
  <1>2. Len(RunPlan) = 8
    BY PlanLengths
  <1> DEFINE n == Len(todo)
             m == Len(RunPlan)
  <1>3. n \in 1 .. m /\ m = 8 /\ n < 8
    BY <1>1, <1>2
  <1> HIDE DEF n, m
  <1>4. n \in 1 .. 7
    BY <1>3
  <1> QED BY <1>4 DEF n

\* The steps that move one store, or neither, in any plan.
LEMMA MoveArrives ==
  ASSUME NEW a, NEW w, NEW x, NEW v, NEW todo \in Seq(Step), todo # <<>>,
         Underway(a, w, todo), Moved(a, w, x, v, Head(todo).do, Head(todo).to)
  PROVE  Arrives(x, v, todo)
  <1>1. ComingUp(a, w, todo) \/ Suspending(a, w, todo) \/ Ending(a, w, todo)
    BY HeadTells DEF Moved
  <1>2. CASE ComingUp(a, w, todo)
    <2>1. Ahead(todo, RunPlan) /\ Len(todo) \in 1 .. 7 /\ InStep(a, w, RunPlan[Len(todo)])
      BY <1>2, RunLength, Zenon DEF ComingUp
    <2>2. Flows(RunPlan, Len(todo))
      BY <2>1, PlansFlow
    <2>3. /\ Len(todo) = 1 => Match(x, v)
          /\ Len(todo) # 1 => /\ Ahead(Tail(todo), RunPlan) /\ Len(Tail(todo)) = Len(todo) - 1
                              /\ InStep(x, v, RunPlan[Len(Tail(todo))])
      BY <2>1, <2>2, PlanMoves
    <2>4. Len(todo) # 1 => ComingUp(x, v, Tail(todo))
      BY <2>1, <2>3 DEF ComingUp
    <2> QED BY <2>3, <2>4, Zenon DEF Arrives, Underway
  <1>3. CASE Suspending(a, w, todo)
    <2>1. Ahead(todo, PausePlan) /\ Len(todo) \in 1 .. 5 /\ InStep(a, w, PausePlan[Len(todo)])
      BY <1>3, PlanLengths DEF Suspending, Ahead
    <2>2. Flows(PausePlan, Len(todo))
      BY <2>1, PlansFlow
    <2>3. /\ Len(todo) = 1 => Match(x, v)
          /\ Len(todo) # 1 => /\ Ahead(Tail(todo), PausePlan)
                              /\ InStep(x, v, PausePlan[Len(Tail(todo))])
      BY <2>1, <2>2, PlanMoves
    <2> QED BY <2>3, Zenon DEF Arrives, Underway, Suspending
  <1>4. CASE Ending(a, w, todo)
    <2>1. Ahead(todo, StopPlan)
      BY <1>4 DEF Ending
    <2>2. /\ Len(todo) \in {3, 4} /\ Len(todo) # 1
          /\ Len(todo) = 3 => Head(todo).do = "record" /\ Head(todo).to = "Stopping"
      BY <2>1, StopMoves DEF Moved
    <2>3. Ahead(Tail(todo), StopPlan) /\ Len(Tail(todo)) = Len(todo) - 1
      BY <2>1, <2>2, StopMoves, Zenon
    <2>4. Len(todo) = 3 => x.state \notin Acting
      BY <2>2 DEF Moved, Acting
    <2> DEFINE t == Tail(todo)
               n == Len(todo)
    <2>5. Ahead(t, StopPlan) /\ Len(t) = n - 1 /\ n \in {3, 4} /\ (n = 3 => x.state \notin Acting)
      BY <2>2, <2>3, <2>4
    <2> HIDE DEF t, n
    <2>6. Ending(x, v, t) /\ n # 1
      BY <2>5 DEF Ending
    <2> QED BY <2>6, Zenon DEF Arrives, Underway, t, n
  <1> QED BY <1>1, <1>2, <1>3, <1>4

LEMMA BeginArrives ==
  ASSUME NEW a, NEW w, NEW x, NEW todo \in Seq(Step), todo # <<>>,
         Underway(a, w, todo), Head(todo).do = "begin"
  PROVE  Match(a, w) /\ (x.state = "Starting" => Arrives(x, w, todo))
  <1>1. Entering(a, w, todo)
    BY HeadTells
  <1>2. Match(a, w) /\ Len(todo) = 9 /\ Ahead(Tail(todo), RunPlan)
    BY <1>1 DEF Entering
  <1>3. Len(Tail(todo)) = 8
    BY <1>2, HeadTailProperties
  <1>4. x.state = "Starting" => Launching(x, Tail(todo))
    BY <1>2, <1>3 DEF Launching, Fresh
  <1> QED BY <1>2, <1>4 DEF Arrives, Underway

LEMMA UnloadArrives ==
  ASSUME NEW a, NEW w, NEW todo \in Seq(Step), todo # <<>>,
         Underway(a, w, todo), Head(todo).do = "unload"
  PROVE  Arrives(a, NoWorker, todo)
  <1>1. CASE Entering(a, w, todo)
    <2>1. /\ Len(todo) = 9 /\ Ahead(Tail(todo), RunPlan)
          /\ a.state \in Active => a.state \in Fresh
      BY <1>1 DEF Entering
    <2>2. Len(Tail(todo)) = 8
      BY <2>1, HeadTailProperties
    <2>3. Launching(a, Tail(todo))
      BY <2>1, <2>2 DEF Launching
    <2> QED BY <2>1, <2>3 DEF Arrives, Underway
  <1>2. CASE Ending(a, w, todo)
    <2>1. Ahead(todo, StopPlan)
      BY <1>2 DEF Ending
    <2>2. Len(todo) = 2
      BY <2>1, StopMoves
    <2>3. Ahead(Tail(todo), StopPlan) /\ Len(Tail(todo)) = 1
      BY <2>1, <2>2, StopMoves
    <2>4. a.state \notin Acting /\ Match(a, NoWorker)
      BY <1>2, <2>2 DEF Ending, Match
    <2>5. Ending(a, NoWorker, Tail(todo))
      BY <2>3, <2>4 DEF Ending
    <2> QED BY <2>2, <2>5 DEF Arrives, Underway
  <1> QED BY <1>1, <1>2, HeadTells

LEMMA LaunchArrives ==
  ASSUME NEW a, NEW w, NEW v, NEW todo \in Seq(Step), todo # <<>>,
         Underway(a, w, todo), Head(todo).do = "launch",
         v # NoWorker, v.attempt = a.id, v.state = "Starting"
  PROVE  Arrives(a, v, todo)
  <1>1. Launching(a, todo)
    BY HeadTells
  <1>2. Ahead(todo, RunPlan) /\ Len(todo) = 8 /\ (a.state \in Active => a.state \in Fresh)
    BY <1>1 DEF Launching
  <1>3. Ahead(Tail(todo), RunPlan) /\ Len(Tail(todo)) = Len(todo) - 1
    <2>1. Len(todo) # 1
      BY <1>2
    <2> QED BY <1>2, <2>1, AheadMoves, Zenon
  <1>4. InStep(a, v, RunPlan[7])
    BY <1>2, RunPlanSteps DEF InStep, Entry
  <1> DEFINE t == Tail(todo)
  <1>5. Ahead(t, RunPlan) /\ Len(t) = 7
    BY <1>2, <1>3
  <1> HIDE DEF t
  <1>6. ComingUp(a, v, t)
    BY <1>4, <1>5 DEF ComingUp
  <1> QED BY <1>2, <1>6 DEF Arrives, Underway, t

LEMMA CompleteArrives ==
  ASSUME NEW a, NEW w, NEW x, NEW todo \in Seq(Step), todo # <<>>,
         Underway(a, w, todo), Head(todo).do = "complete",
         x.state = a.state \/ x.state \in {"Stopped", "Faulted"}
  PROVE  Match(x, w)
  <1>1. Ending(a, w, todo)
    BY HeadTells
  <1>2. Ahead(todo, StopPlan)
    BY <1>1 DEF Ending
  <1>4. Len(todo) = 1
    BY <1>2, StopMoves
  <1>5. a.state \notin Acting /\ Match(a, w)
    BY <1>1, <1>4 DEF Ending
  <1> QED BY <1>5 DEF Match, Acting, Active

LEMMA DecisionArrives ==
  ASSUME NEW a, NEW w, NEW todo \in Seq(Step), todo # <<>>, Underway(a, w, todo)
  PROVE  /\ Head(todo).do \in {"decide", "gate", "submit"} => Match(a, w)
         /\ Head(todo).do = "gate" => Arrives(a, w, todo)
         /\ Head(todo).do = "decide" => Underway(a, w, Do("gate") \o Do("submit"))
  <1>1. ASSUME Head(todo).do \in {"decide", "gate", "submit"}
        PROVE  Match(a, w) /\ ((Len(todo) = 1 /\ Head(todo).do = "decide") \/ Ahead(todo, DecisionPlan))
    BY <1>1, HeadTells DEF Deciding
  <1>2. ASSUME Head(todo).do = "gate"
        PROVE  Arrives(a, w, todo)
    <2>1. Match(a, w) /\ Ahead(todo, DecisionPlan)
      BY <1>1, <1>2
    <2>2. Len(todo) # 1 => Ahead(Tail(todo), DecisionPlan)
      BY <2>1, AheadMoves
    <2> QED BY <2>1, <2>2 DEF Arrives, Underway, Deciding
  <1>3. ASSUME Head(todo).do = "decide"
        PROVE  Underway(a, w, Do("gate") \o Do("submit"))
    <2>1. Deciding(a, w, Do("gate") \o Do("submit"))
      BY <1>1, <1>3, ScriptsPlanned, Zenon DEF Deciding
    <2> QED BY <2>1, Zenon DEF Underway
  <1> QED BY <1>1, <1>2, <1>3
-------------------------------------------------------------------------------
(***************************************************************************)
(* One step of a command keeps its Bot in step.                            *)
(***************************************************************************)

\* The command is over and the stores match, or it is still under way.
Settled(x, v) ==
  IF cmd' = Idle THEN Match(x, v) ELSE cmd'.bot = cmd.bot /\ Underway(x, v, cmd'.todo)

LEMMA Rewritten ==
  ASSUME TypeOK, cmd # Idle, NEW todo
  PROVE  LET c == [cmd EXCEPT !.todo = todo]
         IN c.todo = todo /\ c.bot = cmd.bot /\ c # Idle
  BY DEF TypeOK, Command, Idle

\* The ways a step may end, and what each asks of the Bot.
LEMMA Settles ==
  ASSUME TypeOK, cmd # Idle, NEW x, NEW v
  PROVE  /\ Fails => Settled(x, v)
         /\ GoesOn /\ Arrives(x, v, cmd.todo) => Settled(x, v)
         /\ Returns /\ Match(x, v) => Settled(x, v)
         /\ Submits /\ Underway(x, v, Do("gate") \o Do("submit")) => Settled(x, v)
  <1>1. ASSUME NEW todo, cmd' = [cmd EXCEPT !.todo = todo], Underway(x, v, todo)
        PROVE  Settled(x, v)
    BY <1>1, Rewritten DEF Settled
  <1>2. Fails => Settled(x, v)
    <2>1. Underway(x, v, Fail)
      BY Zenon DEF Underway
    <2> QED BY <1>1, <2>1 DEF Fails
  <1>3. GoesOn /\ Arrives(x, v, cmd.todo) => Settled(x, v)
    <2>1. CASE Len(cmd.todo) = 1
      BY <2>1, Zenon DEF GoesOn, Left, Arrives, Settled
    <2>2. CASE Len(cmd.todo) # 1
      <3>1. GoesOn => cmd' = [cmd EXCEPT !.todo = Tail(cmd.todo)]
        BY <2>2, Zenon DEF GoesOn, Left
      <3>2. Arrives(x, v, cmd.todo) => Underway(x, v, Tail(cmd.todo))
        BY <2>2, Zenon DEF Arrives
      <3> QED BY <1>1, <3>1, <3>2, Zenon
    <2> QED BY <2>1, <2>2
  <1>4. Returns /\ Match(x, v) => Settled(x, v)
    BY Zenon DEF Returns, Settled
  <1>5. Submits /\ Underway(x, v, Do("gate") \o Do("submit")) => Settled(x, v)
    BY <1>1, Zenon DEF Submits
  <1> QED BY <1>2, <1>3, <1>4, <1>5

\* The step has no write that fails.
Unfailing == ~WriteFails

LEMMA WritesSucceed ==
  ASSUME TypeOK, spent'.failures = 0
  PROVE  Unfailing
  BY DEF WriteFails, TypeOK, Unfailing

\* The Bot of the command, as the lemmas about one step see it.
UnderCommand ==
  /\ cmd # Idle /\ cmd.bot \in Bots /\ cmd.todo \in Seq(Step) /\ cmd.todo # <<>>
  /\ bot[cmd.bot] \in Attempt /\ worker[cmd.bot] \in Worker \cup {NoWorker}
  /\ Underway(bot[cmd.bot], worker[cmd.bot], cmd.todo)

Settling == Settled(bot'[cmd.bot], worker'[cmd.bot])

\* The rest of the Bots, and of their Workers, is left alone.
Alone == \A c \in Bots : c # cmd.bot => bot'[c] = bot[c] /\ worker'[c] = worker[c]

LEMMA BeginSettles ==
  ASSUME TypeOK, UnderCommand, Unfailing, BeginStep
  PROVE  Settling /\ Alone
  <1> DEFINE b == cmd.bot
  <1>1. /\ b \in Bots /\ Head(cmd.todo).do = "begin" /\ cmd.todo \in Seq(Step) /\ cmd.todo # <<>>
        /\ Underway(bot[b], worker[b], cmd.todo) /\ UNCHANGED worker /\ cmd # Idle
    BY DEF BeginStep, At, UnderCommand
  <1>2. \/ Returns /\ UNCHANGED bot
        \/ /\ bot' = [bot EXCEPT ![b] = [id |-> @.id + 1, state |-> "Starting",
                                         recon |-> TRUE, exposed |-> FALSE]]
           /\ GoesOn
    BY DEF BeginStep, Unfailing
  <1>3. bot \in [Bots -> Attempt]
    BY DEF TypeOK
  <1>4. Match(bot[b], worker[b]) /\ \A x : x.state = "Starting" => Arrives(x, worker[b], cmd.todo)
    BY <1>1, BeginArrives
  <1>5. CASE Returns /\ UNCHANGED bot
    BY <1>1, <1>4, <1>5, Settles DEF Settling, Alone
  <1>6. CASE /\ bot' = [bot EXCEPT ![b] = [id |-> @.id + 1, state |-> "Starting",
                                           recon |-> TRUE, exposed |-> FALSE]]
             /\ GoesOn
    <2>1. bot'[b].state = "Starting" /\ \A c \in Bots : c # b => bot'[c] = bot[c]
      BY <1>1, <1>3, <1>6
    <2>2. Arrives(bot'[b], worker'[b], cmd.todo)
      BY <1>1, <1>4, <2>1
    <2>3. Settled(bot'[b], worker'[b])
      BY <1>1, <1>6, <2>2, Settles
    <2> QED BY <1>1, <2>1, <2>3 DEF Settling, Alone
  <1> QED BY <1>2, <1>5, <1>6

LEMMA LaunchSettles ==
  ASSUME TypeOK, UnderCommand, Unfailing, LaunchStep
  PROVE  Settling /\ Alone
  <1> DEFINE b == cmd.bot
             w == [reg |-> launches[b] + 1, attempt |-> bot[b].id, state |-> "Starting",
                   alive |-> TRUE, pending |-> FALSE]
  <1>1. /\ b \in Bots /\ Head(cmd.todo).do = "launch" /\ cmd.todo \in Seq(Step) /\ cmd.todo # <<>>
        /\ Underway(bot[b], worker[b], cmd.todo) /\ UNCHANGED bot /\ cmd # Idle
    BY DEF LaunchStep, At, UnderCommand
  <1>2. \/ Fails /\ UNCHANGED worker
        \/ worker' = [worker EXCEPT ![b] = w] /\ GoesOn
    BY DEF LaunchStep, Unfailing
  <1>3. worker \in Workers /\ launches[b] \in Nat /\ bot[b].id \in Nat
    BY <1>1 DEF TypeOK, Workers, Attempt
  <1>4. w # NoWorker /\ w.attempt = bot[b].id /\ w.state = "Starting"
    BY <1>3 DEF NoWorker
  <1> HIDE DEF w
  <1>5. CASE Fails /\ UNCHANGED worker
    BY <1>1, <1>5, Settles DEF Settling, Alone
  <1>6. CASE worker' = [worker EXCEPT ![b] = w] /\ GoesOn
    <2>1. worker'[b] = w /\ \A c \in Bots : c # b => worker'[c] = worker[c]
      BY <1>1, <1>3, <1>6 DEF Workers
    <2>2. Arrives(bot'[b], worker'[b], cmd.todo)
      BY <1>1, <1>4, <2>1, LaunchArrives
    <2>3. Settled(bot'[b], worker'[b])
      BY <1>1, <1>6, <2>2, Settles
    <2> QED BY <1>1, <2>1, <2>3 DEF Settling, Alone
  <1> QED BY <1>2, <1>5, <1>6

LEMMA WorkerSettles ==
  ASSUME TypeOK, UnderCommand, Unfailing, WorkerStep
  PROVE  Settling /\ Alone
  <1> DEFINE b == cmd.bot
             to == Head(cmd.todo).to
  <1>1. /\ b \in Bots /\ Head(cmd.todo).do = "worker" /\ cmd.todo \in Seq(Step) /\ cmd.todo # <<>>
        /\ Underway(bot[b], worker[b], cmd.todo) /\ UNCHANGED bot /\ cmd # Idle
    BY DEF WorkerStep, At, UnderCommand
  <1>2. \/ Fails /\ UNCHANGED worker
        \/ worker[b] # NoWorker /\ worker' = [worker EXCEPT ![b].state = to] /\ GoesOn
    BY DEF WorkerStep
  <1>3. worker \in Workers
    BY DEF TypeOK, Workers
  <1>5. CASE Fails /\ UNCHANGED worker
    BY <1>1, <1>5, Settles DEF Settling, Alone
  <1>6. CASE worker[b] # NoWorker /\ worker' = [worker EXCEPT ![b].state = to] /\ GoesOn
    <2>1. /\ worker[b] \in Worker /\ worker'[b] = [worker[b] EXCEPT !.state = to]
          /\ \A c \in Bots : c # b => worker'[c] = worker[c]
      BY <1>1, <1>3, <1>6 DEF Workers
    <2>2. worker'[b] # NoWorker /\ worker'[b].attempt = worker[b].attempt /\ worker'[b].state = to
      BY <2>1 DEF Worker, NoWorker
    <2>3. Moved(bot[b], worker[b], bot'[b], worker'[b], Head(cmd.todo).do, to)
      BY <1>1, <2>2 DEF Moved
    <2>4. Arrives(bot'[b], worker'[b], cmd.todo)
      BY <1>1, <2>3, MoveArrives
    <2>5. Settled(bot'[b], worker'[b])
      BY <1>1, <1>6, <2>4, Settles
    <2> QED BY <1>1, <2>1, <2>5 DEF Settling, Alone
  <1> QED BY <1>2, <1>5, <1>6

LEMMA RecordSettles ==
  ASSUME TypeOK, UnderCommand, Unfailing, RecordStep
  PROVE  Settling /\ Alone
  <1> DEFINE b == cmd.bot
             to == Head(cmd.todo).to
  <1>1. /\ b \in Bots /\ Head(cmd.todo).do = "record" /\ cmd.todo \in Seq(Step) /\ cmd.todo # <<>>
        /\ Underway(bot[b], worker[b], cmd.todo) /\ UNCHANGED worker /\ cmd # Idle
    BY DEF RecordStep, At, UnderCommand
  <1>2. \/ Fails /\ UNCHANGED bot
        \/ /\ Permits(bot[b].state, to) /\ GoesOn
           /\ bot' = [bot EXCEPT ![b].state = to, ![b].recon = (to # "Running")]
    BY DEF RecordStep, Unfailing
  <1>3. bot \in [Bots -> Attempt]
    BY DEF TypeOK
  <1>5. CASE Fails /\ UNCHANGED bot
    BY <1>1, <1>5, Settles DEF Settling, Alone
  <1>6. CASE /\ Permits(bot[b].state, to) /\ GoesOn
             /\ bot' = [bot EXCEPT ![b].state = to, ![b].recon = (to # "Running")]
    <2> DEFINE x == [bot[b] EXCEPT !.state = to, !.recon = (to # "Running")]
    <2>1. bot[b] \in Attempt /\ bot' = [bot EXCEPT ![b] = x]
      BY <1>1, <1>3, <1>6 DEF Attempt
    <2>2. x.id = bot[b].id /\ x.state = to
      BY <2>1 DEF Attempt
    <2> HIDE DEF x
    <2>3. bot'[b] = x /\ \A c \in Bots : c # b => bot'[c] = bot[c]
      BY <1>1, <1>3, <2>1
    <2>4. Moved(bot[b], worker[b], bot'[b], worker'[b], Head(cmd.todo).do, to)
      BY <1>1, <1>6, <2>2, <2>3 DEF Moved
    <2>5. Arrives(bot'[b], worker'[b], cmd.todo)
      BY <1>1, <2>4, MoveArrives
    <2>6. Settled(bot'[b], worker'[b])
      BY <1>1, <1>6, <2>5, Settles
    <2> QED BY <1>1, <2>3, <2>6 DEF Settling, Alone
  <1> QED BY <1>2, <1>5, <1>6

LEMMA ReconcileSettles ==
  ASSUME TypeOK, UnderCommand, Unfailing, ReconcileStep
  PROVE  Settling /\ Alone
  <1> DEFINE b == cmd.bot
  <1>1. /\ b \in Bots /\ Head(cmd.todo).do = "reconcile" /\ cmd.todo \in Seq(Step)
        /\ cmd.todo # <<>> /\ Underway(bot[b], worker[b], cmd.todo)
        /\ UNCHANGED bot /\ UNCHANGED worker /\ cmd # Idle
    BY DEF ReconcileStep, At, UnderCommand
  <1>2. Fails \/ GoesOn
    BY DEF ReconcileStep, Unfailing
  <1>3. Moved(bot[b], worker[b], bot[b], worker[b], Head(cmd.todo).do, Head(cmd.todo).to)
    BY <1>1 DEF Moved
  <1>4. Arrives(bot[b], worker[b], cmd.todo)
    BY <1>1, <1>3, MoveArrives
  <1>5. Settled(bot[b], worker[b])
    BY <1>1, <1>2, <1>4, Settles
  <1> QED BY <1>1, <1>5 DEF Settling, Alone

LEMMA UnloadSettles ==
  ASSUME TypeOK, UnderCommand, Unfailing, UnloadStep
  PROVE  Settling /\ Alone
  <1> DEFINE b == cmd.bot
  <1>1. /\ b \in Bots /\ Head(cmd.todo).do = "unload" /\ cmd.todo \in Seq(Step) /\ cmd.todo # <<>>
        /\ Underway(bot[b], worker[b], cmd.todo) /\ UNCHANGED bot /\ cmd # Idle
    BY DEF UnloadStep, At, UnderCommand
  <1>2. worker' = [worker EXCEPT ![b] = NoWorker] /\ (Fails \/ GoesOn)
    BY DEF UnloadStep
  <1>3. worker'[b] = NoWorker /\ \A c \in Bots : c # b => worker'[c] = worker[c]
    BY <1>1, <1>2 DEF TypeOK
  <1>4. Arrives(bot[b], NoWorker, cmd.todo)
    BY <1>1, UnloadArrives
  <1>5. Settled(bot[b], NoWorker)
    BY <1>1, <1>2, <1>4, Settles
  <1> QED BY <1>1, <1>3, <1>5 DEF Settling, Alone

LEMMA CompleteSettles ==
  ASSUME TypeOK, UnderCommand, Unfailing, CompleteStep
  PROVE  Settling /\ Alone
  <1> DEFINE b == cmd.bot
  <1>1. /\ b \in Bots /\ Head(cmd.todo).do = "complete" /\ cmd.todo \in Seq(Step)
        /\ cmd.todo # <<>> /\ Underway(bot[b], worker[b], cmd.todo)
        /\ UNCHANGED worker /\ cmd # Idle /\ Returns
    BY DEF CompleteStep, At, UnderCommand
  <1>2. bot \in [Bots -> Attempt]
    BY DEF TypeOK
  <1>3. /\ bot'[b].state = bot[b].state \/ bot'[b].state \in {"Stopped", "Faulted"}
        /\ \A c \in Bots : c # b => bot'[c] = bot[c]
    <2>1. CASE UNCHANGED bot
      BY <2>1
    <2>2. CASE bot' = [bot EXCEPT ![b] = Faulted(@, @.id)]
      <3>1. Faulted(bot[b], bot[b].id).state \in {"Stopped", "Faulted"}
        BY <1>1, <1>2 DEF Faulted, Attempt
      <3> QED BY <1>1, <1>2, <2>2, <3>1
    <2>3. ASSUME NEW proven \in BOOLEAN, NEW exposed \in BOOLEAN,
                 bot' = [bot EXCEPT ![b].state = "Stopped", ![b].recon = ~proven,
                                    ![b].exposed = exposed]
          PROVE  bot'[b].state = "Stopped" /\ \A c \in Bots : c # b => bot'[c] = bot[c]
      <3> DEFINE x == [bot[b] EXCEPT !.state = "Stopped", !.recon = ~proven, !.exposed = exposed]
      <3>1. bot[b] \in Attempt /\ bot' = [bot EXCEPT ![b] = x]
        BY <1>1, <1>2, <2>3 DEF Attempt
      <3>2. x.state = "Stopped"
        BY <3>1 DEF Attempt
      <3> HIDE DEF x
      <3> QED BY <1>1, <1>2, <3>1, <3>2
    <2> QED BY <2>1, <2>2, <2>3 DEF CompleteStep
  <1>4. Match(bot'[b], worker[b])
    BY <1>1, <1>3, CompleteArrives
  <1>5. Settled(bot'[b], worker[b])
    BY <1>1, <1>4, Settles
  <1> QED BY <1>1, <1>3, <1>5 DEF Settling, Alone

LEMMA DecisionSettles ==
  ASSUME TypeOK, UnderCommand, Unfailing, DecideStep \/ GateStep \/ SubmitStep
  PROVE  Settling /\ Alone
  <1> DEFINE b == cmd.bot
             do == Head(cmd.todo).do
  <1>1. /\ b \in Bots /\ cmd.todo \in Seq(Step) /\ cmd.todo # <<>>
        /\ Underway(bot[b], worker[b], cmd.todo) /\ UNCHANGED bot /\ cmd # Idle
        /\ do \in {"decide", "gate", "submit"}
    BY DEF DecideStep, GateStep, SubmitStep, At, UnderCommand
  <1>2. /\ Match(bot[b], worker[b])
        /\ do = "gate" => Arrives(bot[b], worker[b], cmd.todo)
        /\ do = "decide" => Underway(bot[b], worker[b], Do("gate") \o Do("submit"))
    BY <1>1, DecisionArrives
  <1>3. \/ Fails /\ (UNCHANGED worker \/ Drop(b))
        \/ Returns /\ UNCHANGED worker
        \/ do = "gate" /\ GoesOn /\ UNCHANGED worker
        \/ do = "decide" /\ Submits /\ UNCHANGED worker
    BY Zenon DEF DecideStep, GateStep, SubmitStep, At, Unfailing, Submits
  <1>4. Alone
    BY <1>1, <1>3 DEF Alone, Drop, TypeOK
  <1>5. CASE Fails
    BY <1>1, <1>4, <1>5, Settles DEF Settling
  <1>6. CASE UNCHANGED worker /\ (Returns \/ (do = "gate" /\ GoesOn) \/ (do = "decide" /\ Submits))
    <2>1. Settled(bot[b], worker[b])
      BY <1>1, <1>2, <1>6, Settles, Zenon
    <2> QED BY <1>1, <1>4, <1>6, <2>1 DEF Settling
  <1> QED BY <1>3, <1>4, <1>5, <1>6

LEMMA FailSettles ==
  ASSUME TypeOK, UnderCommand, Unfailing, FailStep
  PROVE  Settling /\ Alone
  <1> DEFINE b == cmd.bot
  <1>1. /\ b \in Bots /\ bot[b] \in Attempt /\ cmd # Idle /\ Returns
        /\ bot' = [bot EXCEPT ![b] = Faulted(@, @.id)]
        /\ worker' = [worker EXCEPT ![b] = NoWorker]
    BY DEF FailStep, UnderCommand, Converge, Unfailing
  <1>2. /\ bot'[b] = Faulted(bot[b], bot[b].id) /\ worker'[b] = NoWorker
        /\ \A c \in Bots : c # b => bot'[c] = bot[c] /\ worker'[c] = worker[c]
    BY <1>1 DEF TypeOK
  <1>3. Match(bot'[b], NoWorker)
    BY <1>1, <1>2, FaultedDown, DownMatches
  <1>4. Settled(bot'[b], worker'[b])
    BY <1>1, <1>2, <1>3, Settles
  <1> QED BY <1>2, <1>4 DEF Settling, Alone

LEMMA CommandSettles ==
  ASSUME TypeOK, UnderCommand, Unfailing, CommandStep
  PROVE  Settling /\ Alone
  BY BeginSettles, LaunchSettles, WorkerSettles, RecordSettles, ReconcileSettles, UnloadSettles,
     CompleteSettles, DecisionSettles, FailSettles DEF CommandStep
-------------------------------------------------------------------------------
(***************************************************************************)
(* The two stores, after one step.                                         *)
(***************************************************************************)

\* With no command and no pause by the host, every Bot's record and Worker match.
LEMMA RestMatches ==
  ASSUME NEW b \in Bots, Linked(b), ~(cmd # Idle /\ cmd.bot = b), pausing = NoPause
  PROVE  Match(bot[b], worker[b])
  <1>1. pausing.half # b
    BY BotAssumption DEF NoPause
  <1> QED BY <1>1, Zenon DEF Linked

LEMMA MatchLinks ==
  ASSUME NEW b \in Bots, Match(bot[b], worker[b])', ~(cmd # Idle /\ cmd.bot = b)',
         pausing' = NoPause
  PROVE  Linked(b)'
  <1>1. pausing'.half # b /\ b \notin pausing'.listed
    BY BotAssumption DEF NoPause
  <1> QED BY <1>1, Zenon DEF Linked

LEMMA TakenUnderway ==
  ASSUME TypeOK, NEW b \in Bots, Match(bot[b], worker[b]),
         Start(b) \/ Retry(b) \/ Pause(b) \/ Resume(b) \/ Stop(b) \/ Decision(b)
  PROVE  cmd'.bot = b /\ Underway(bot[b], worker[b], cmd'.todo)
  <1> DEFINE a == bot[b]
             w == worker[b]
  <1>1. a \in Attempt /\ a.state \in States
    BY DEF TypeOK, Attempt
  <1>2. ASSUME NEW k, NEW script, Take(k, b, script), Underway(a, w, script)
        PROVE  cmd'.bot = b /\ Underway(bot[b], worker[b], cmd'.todo)
    BY <1>2 DEF Take
  <1>3. CASE Start(b) \/ Retry(b)
    <2>1. Entering(a, w, StartScript)
      BY ScriptsPlanned, Zenon DEF Entering
    <2>2. Underway(a, w, StartScript)
      BY <2>1, Zenon DEF Underway
    <2> QED BY <1>2, <1>3, <2>2, Zenon DEF Start, Retry
  <1>4. CASE Resume(b)
    <2>1. a.state \in Fresh
      BY <1>4 DEF Resume, Fresh
    <2>2. Entering(a, w, ResumeScript)
      BY <2>1, ScriptsPlanned, Zenon DEF Entering
    <2>3. Underway(a, w, ResumeScript)
      BY <2>2, Zenon DEF Underway
    <2> QED BY <1>2, <1>4, <2>3, Zenon DEF Resume
  <1>5. CASE Pause(b)
    <2>1. InStep(a, w, PausePlan[5])
      BY <1>5, PausePlanSteps DEF Pause, InStep, Entry, Match, Acting, Active
    <2>2. Ahead(PauseScript, PausePlan) /\ Len(PauseScript) = 5
      BY ScriptsPlanned
    <2>3. Suspending(a, w, PauseScript)
      BY <2>1, <2>2, Zenon DEF Suspending
    <2>4. Underway(a, w, PauseScript)
      BY <2>3, Zenon DEF Underway
    <2> QED BY <1>2, <1>5, <2>4, Zenon DEF Pause
  <1>6. CASE Stop(b)
    <2> DEFINE script == StopScript(a.state)
               n == Len(script)
    <2>1. /\ Ahead(script, StopPlan)
          /\ a.state \in Acting => n = 4
          /\ a.state = "Stopping" => n = 2
          /\ a.state \notin Active => n = 1
      BY <1>1, StopPlanned
    <2>2. a.state \in Acting \/ a.state = "Stopping" \/ a.state \notin Active
      BY DEF Acting
    <2> HIDE DEF script
    <2>3. Ending(a, w, script)
      BY <2>1, <2>2 DEF Ending, Acting
    <2>4. Underway(a, w, script)
      BY <2>3, Zenon DEF Underway
    <2> QED BY <1>2, <1>6, <2>4, Zenon DEF Stop, script
  <1>7. CASE Decision(b)
    <2>1. Deciding(a, w, Do("decide"))
      BY ScriptsPlanned, Zenon DEF Deciding
    <2>2. Underway(a, w, Do("decide"))
      BY <2>1, Zenon DEF Underway
    <2> QED BY <1>2, <1>7, <2>2, Zenon DEF Decision
  <1> QED BY <1>3, <1>4, <1>5, <1>6, <1>7

\* What Agreement says of a clean history.
Agreed ==
  /\ cmd = Idle \/ pausing = NoPause
  /\ pausing.half \notin pausing.listed
  /\ Lined

LEMMA TakesAgree ==
  ASSUME TypeOK, Agreed, ~raced', Takes
  PROVE  Agreed'
  <1>1. PICK b \in Bots : Start(b) \/ Retry(b) \/ Pause(b) \/ Resume(b) \/ Stop(b) \/ Decision(b)
    BY DEF Takes
  <1>2. /\ UNCHANGED <<bot, worker, freeze, pausing>> /\ cmd = Idle
        /\ cmd' # Idle
    BY <1>1, CommandTaken
  <1>3. raced' = (raced \/ pausing # NoPause)
    BY <1>1 DEF Start, Retry, Pause, Resume, Stop, Decision, Take
  <1>4. pausing = NoPause
    BY <1>3
  <1>5. ASSUME freeze # "workers", NEW c \in Bots
        PROVE  Linked(c)'
    <2>1. Linked(c) /\ Linked(b)
      BY <1>5 DEF Agreed, Lined
    <2>2. Match(bot[c], worker[c]) /\ Match(bot[b], worker[b])
      BY <1>2, <1>4, <2>1, RestMatches
    <2>3. cmd'.bot = b /\ Underway(bot[b], worker[b], cmd'.todo)
      BY <1>1, <2>2, TakenUnderway
    <2>4. CASE c = b
      BY <1>2, <2>3, <2>4 DEF Linked
    <2>5. CASE c # b
      <3>1. Match(bot[c], worker[c])' /\ pausing' = NoPause
        BY <1>2, <1>4, <2>2
      <3> QED BY <2>3, <2>5, <3>1, MatchLinks
    <2> QED BY <2>4, <2>5
  <1> QED BY <1>2, <1>4, <1>5 DEF Agreed, Lined

LEMMA CommandAgrees ==
  ASSUME TypeOK, Agreed, Unfailing, CommandStep
  PROVE  Agreed'
  <1>1. cmd # Idle /\ pausing = NoPause
    BY CommandChanges DEF Agreed
  <1>2. UNCHANGED <<pausing, freeze>>
    BY DEF CommandStep, BeginStep, LaunchStep, WorkerStep, RecordStep, ReconcileStep, UnloadStep,
           CompleteStep, DecideStep, GateStep, SubmitStep, FailStep, pauseVars
  <1>3. /\ cmd.bot \in Bots /\ cmd.todo \in Seq(Step) /\ cmd.todo # <<>>
        /\ bot[cmd.bot] \in Attempt /\ worker[cmd.bot] \in Worker \cup {NoWorker}
    BY <1>1 DEF TypeOK, Command
  <1>4. ASSUME freeze # "workers"
        PROVE  UnderCommand
    <2>1. Linked(cmd.bot)
      BY <1>3, <1>4 DEF Agreed, Lined
    <2>2. Underway(bot[cmd.bot], worker[cmd.bot], cmd.todo)
      BY <1>1, <2>1, Zenon DEF Linked
    <2> QED BY <1>1, <1>3, <2>2 DEF UnderCommand
  <1>5. ASSUME freeze # "workers", NEW c \in Bots
        PROVE  Linked(c)'
    <2>1. Settling /\ Alone
      BY <1>4, <1>5, CommandSettles
    <2>2. pausing' = NoPause
      BY <1>1, <1>2
    <2>3. CASE c = cmd.bot /\ cmd' # Idle
      BY <2>1, <2>3, Zenon DEF Settling, Settled, Linked
    <2>4. CASE c = cmd.bot /\ cmd' = Idle
      <3>1. Match(bot[c], worker[c])'
        BY <2>1, <2>4, Zenon DEF Settling, Settled
      <3> QED BY <2>2, <2>4, <3>1, MatchLinks
    <2>5. CASE c # cmd.bot
      <3>1. Linked(c)
        BY <1>5 DEF Agreed, Lined
      <3>2. Match(bot[c], worker[c])
        BY <1>1, <2>5, <3>1, RestMatches
      <3>3. bot'[c] = bot[c] /\ worker'[c] = worker[c]
        BY <2>1, <2>5 DEF Alone
      <3>4. Match(bot[c], worker[c])'
        BY <3>2, <3>3
      <3>5. ~(cmd # Idle /\ cmd.bot = c)'
        BY <2>1, <2>5, Zenon DEF Settling, Settled
      <3> QED BY <2>2, <3>4, <3>5, MatchLinks
    <2> QED BY <2>3, <2>4, <2>5
  <1> QED BY <1>1, <1>2, <1>5 DEF Agreed, Lined

\* The three ways a Bot may be linked survive what keeps each of them.
Keeps(a, w, x, v) ==
  /\ Match(a, w) => Match(x, v)
  /\ Half(a, w) => Half(x, v)
  /\ \A todo : Underway(a, w, todo) => Underway(x, v, todo)
  /\ x.state = a.state \/ x.state \notin Active

LEMMA KeptLinks ==
  ASSUME NEW b \in Bots, Linked(b), Keeps(bot[b], worker[b], bot'[b], worker'[b]),
         UNCHANGED <<cmd, pausing>>
  PROVE  Linked(b)'
  BY DEF Linked, Keeps

LEMMA MonitorsAgree ==
  ASSUME TypeOK, Watched, Agreed, Unfailing, Monitors
  PROVE  Agreed'
  <1>1. UNCHANGED <<cmd, freeze, pausing>>
    BY DEF Monitors, WorkerDies, Poll, Handle, pauseVars
  <1>2. ASSUME NEW c \in Bots
        PROVE  Keeps(bot[c], worker[c], bot'[c], worker'[c])
    <2>1. ASSUME Follows(worker[c], worker'[c]), bot'[c] = bot[c]
          PROVE  Keeps(bot[c], worker[c], bot'[c], worker'[c])
      BY <2>1, FollowingKeeps DEF Keeps
    <2>2. worker \in Workers /\ bot[c] \in Attempt
      BY DEF TypeOK, Workers
    <2>3. ASSUME NEW b \in Bots, WorkerDies(b)
          PROVE  Keeps(bot[c], worker[c], bot'[c], worker'[c])
      <3>1. /\ worker[b] \in Worker /\ UNCHANGED bot
            /\ worker' = [worker EXCEPT ![b] = [worker[b] EXCEPT !.alive = FALSE]]
        BY <2>2, <2>3 DEF WorkerDies, Workers
      <3> DEFINE v == [worker[b] EXCEPT !.alive = FALSE]
      <3>2. Follows(worker[b], v)
        BY <2>3, <3>1 DEF Worker, NoWorker, Follows, WorkerDies
      <3> HIDE DEF v
      <3>3. worker'[c] = (IF c = b THEN v ELSE worker[c])
        BY <2>2, <3>1 DEF v, Workers
      <3>4. Follows(worker[c], worker'[c])
        BY <3>2, <3>3 DEF Follows
      <3> QED BY <2>1, <3>1, <3>4
    <2>4. CASE Poll
      <3>1. UNCHANGED bot /\ worker' = [b \in Bots |-> IF b \in Found
                                 THEN [worker[b] EXCEPT !.state = "Faulted"] ELSE worker[b]]
        BY <2>4 DEF Poll
      <3>2. CASE c \in Found
        <4>1. worker[c] \in Worker /\ worker'[c] = [worker[c] EXCEPT !.state = "Faulted"]
          BY <2>2, <3>1, <3>2 DEF Found, Workers
        <4>2. worker[c] # NoWorker /\ Follows(worker[c], worker'[c])
          BY <3>2, <4>1 DEF Worker, NoWorker, Follows, Found
        <4> QED BY <2>1, <3>1, <4>2
      <3>3. CASE c \notin Found
        BY <2>1, <3>1, <3>3 DEF Follows
      <3> QED BY <3>2, <3>3
    <2>5. CASE Handle
      <3>1. PICK e \in captured :
              IF SameRegistration(e) THEN Converge(e.bot, worker[e.bot].attempt)
              ELSE UNCHANGED <<bot, worker, spent>>
        BY <2>5 DEF Handle
      <3>2. e.bot \in Bots /\ e.reg # 0
        BY DEF TypeOK, Watched
      <3>3. CASE SameRegistration(e) /\ c = e.bot
        <4>1. worker[c] # NoWorker
          BY <3>2, <3>3 DEF SameRegistration, NoWorker
        <4>2. /\ bot' = [bot EXCEPT ![c] = Faulted(@, worker[c].attempt)]
              /\ worker' = [worker EXCEPT ![c] = NoWorker]
          BY <3>1, <3>3 DEF Converge, Unfailing
        <4>3. bot'[c] = Faulted(bot[c], worker[c].attempt) /\ worker'[c] = NoWorker
          BY <4>2 DEF TypeOK
        <4> QED BY <2>2, <4>1, <4>3, EventKeeps DEF Keeps
      <3>4. CASE ~(SameRegistration(e) /\ c = e.bot)
        <4>1. bot'[c] = bot[c] /\ worker'[c] = worker[c]
          BY <3>1, <3>2, <3>4 DEF Converge, TypeOK
        <4> QED BY <2>1, <4>1 DEF Follows
      <3> QED BY <3>3, <3>4
    <2> QED BY <2>3, <2>4, <2>5 DEF Monitors
  <1>3. ASSUME freeze # "workers", NEW c \in Bots
        PROVE  Linked(c)'
    <2>1. Linked(c)
      BY <1>3 DEF Agreed, Lined
    <2> QED BY <1>1, <1>2, <2>1, KeptLinks
  <1> QED BY <1>1, <1>3 DEF Agreed, Lined
\* A pause that is refused: the fault is recorded, and the sweep is over.
LEMMA RefusedAgrees ==
  ASSUME TypeOK, Agreed, Unfailing, NEW b \in Bots, PauseRefused(b),
         UNCHANGED <<worker, cmd, freeze>>, cmd = Idle,
         \A c \in Bots \ {b} : pausing.half # c,
         freeze # "workers" => worker[b] = NoWorker \/ worker[b].state = "Faulted"
  PROVE  Agreed'
  <1>1. pausing' = NoPause /\ bot' = [bot EXCEPT ![b] = Faulted(@, @.id)]
    BY DEF PauseRefused, Unfailing
  <1>2. bot \in [Bots -> Attempt]
    BY DEF TypeOK
  <1>3. bot'[b] = Faulted(bot[b], bot[b].id) /\ \A c \in Bots : c # b => bot'[c] = bot[c]
    BY <1>1, <1>2
  <1>4. Down(bot[b], bot'[b])
    BY <1>2, <1>3, FaultedDown
  <1>5. ASSUME freeze # "workers", NEW c \in Bots
        PROVE  Linked(c)'
    <2>1. CASE c = b
      <3>1. Match(bot[c], worker[c])'
        BY <1>4, <1>5, <2>1, DownMatches
      <3> QED BY <1>1, <3>1, MatchLinks
    <2>2. CASE c # b
      <3>1. Linked(c)
        BY <1>5 DEF Agreed, Lined
      <3>2. Match(bot[c], worker[c])
        BY <2>2, <3>1, Zenon DEF Linked
      <3>3. Match(bot[c], worker[c])'
        BY <1>3, <2>2, <3>2
      <3> QED BY <1>1, <3>3, MatchLinks
    <2> QED BY <2>1, <2>2
  <1> QED BY <1>1, <1>5 DEF Agreed, Lined, NoPause

LEMMA ListedAgrees ==
  ASSUME TypeOK, Agreed, ~raced', PauseListed
  PROVE  Agreed'
  <1>1. /\ UNCHANGED <<bot, worker, cmd, freeze>> /\ pausing = NoPause
        /\ pausing' = [listed |-> {b \in Bots : bot[b].state = "Running"}, half |-> NoBot]
        /\ raced' = (raced \/ cmd # Idle)
    BY DEF PauseListed, NoPause
  <1>2. cmd = Idle /\ cmd' = Idle
    BY <1>1
  <1>3. ASSUME freeze # "workers", NEW c \in Bots
        PROVE  Linked(c)'
    <2>1. Linked(c)
      BY <1>3 DEF Agreed, Lined
    <2>2. Match(bot[c], worker[c])
      BY <1>1, <1>2, <2>1, RestMatches
    <2>3. pausing'.half # c /\ (c \in pausing'.listed => bot[c].state = "Running")
      BY <1>1, BotAssumption
    <2> QED BY <1>1, <1>2, <2>2, <2>3, Zenon DEF Linked
  <1>4. pausing'.half \notin pausing'.listed
    BY <1>1, BotAssumption
  <1> QED BY <1>1, <1>2, <1>3, <1>4 DEF Agreed, Lined

LEMMA PauseWorkerAgrees ==
  ASSUME TypeOK, Agreed, Unfailing, PauseWorker
  PROVE  Agreed'
  <1>1. /\ pausing.half = NoBot /\ UNCHANGED <<cmd, freeze>>
        /\ pausing \in [listed : SUBSET Bots, half : Bots \cup {NoBot}]
    BY DEF PauseWorker, TypeOK
  <1>2. PICK b \in pausing.listed :
          IF worker[b] # NoWorker /\ Permits(worker[b].state, "Pausing")
          THEN /\ worker' = [worker EXCEPT ![b].state = "Pausing"]
               /\ pausing' = [listed |-> pausing.listed \ {b}, half |-> b]
               /\ UNCHANGED <<bot, spent>>
          ELSE PauseRefused(b) /\ UNCHANGED worker
    BY DEF PauseWorker
  <1>3. b \in Bots /\ cmd = Idle /\ cmd' = Idle /\ \A c \in Bots : pausing.half # c
    BY <1>1, <1>2, BotAssumption DEF Agreed, NoPause
  <1>4. worker \in Workers
    BY DEF TypeOK, Workers
  <1>5. freeze # "workers" =>
          /\ Match(bot[b], worker[b])
          /\ bot[b].state \in Active => bot[b].state = "Running"
    <2>1. freeze # "workers" => Linked(b)
      BY <1>3 DEF Agreed, Lined
    <2> QED BY <1>2, <1>3, <2>1, Zenon DEF Linked
  <1>6. CASE ~(worker[b] # NoWorker /\ Permits(worker[b].state, "Pausing"))
    <2>1. PauseRefused(b) /\ UNCHANGED worker
      BY <1>2, <1>6
    <2>2. freeze # "workers" => worker[b] = NoWorker \/ worker[b].state = "Faulted"
      BY <1>5, <1>6 DEF Match, Acting, Permits, Active
    <2> QED BY <1>1, <1>3, <2>1, <2>2, RefusedAgrees
  <1>7. CASE worker[b] # NoWorker /\ Permits(worker[b].state, "Pausing")
    <2>1. /\ worker' = [worker EXCEPT ![b].state = "Pausing"]
          /\ pausing' = [listed |-> pausing.listed \ {b}, half |-> b]
          /\ UNCHANGED bot
      BY <1>2, <1>7
    <2>2. /\ worker[b] \in Worker /\ worker'[b] = [worker[b] EXCEPT !.state = "Pausing"]
          /\ \A c \in Bots : c # b => worker'[c] = worker[c]
      BY <1>3, <1>4, <1>7, <2>1 DEF Workers
    <2>3. worker'[b] # NoWorker /\ worker'[b].attempt = worker[b].attempt
          /\ worker'[b].state = "Pausing"
      BY <2>2 DEF Worker, NoWorker
    <2>4. freeze # "workers" => Half(bot[b], worker[b])'
      <3>1. worker[b].state = "Running"
        BY <1>7 DEF Permits, Active
      <3>2. freeze # "workers" => bot[b].state = "Running" /\ worker[b].attempt = bot[b].id
        BY <1>5, <1>7, <3>1 DEF Match, Acting, Active
      <3> QED BY <2>1, <2>3, <3>2 DEF Half, Active
    <2>5. ASSUME freeze # "workers", NEW c \in Bots
          PROVE  Linked(c)'
      <3>1. CASE c = b
        BY <1>3, <2>1, <2>4, <2>5, <3>1 DEF Linked
      <3>2. CASE c # b
        <4>1. Linked(c)
          BY <2>5 DEF Agreed, Lined
        <4>2. /\ Match(bot[c], worker[c])
              /\ c \in pausing.listed /\ bot[c].state \in Active => bot[c].state = "Running"
          BY <1>3, <4>1, Zenon DEF Linked
        <4>3. bot'[c] = bot[c] /\ worker'[c] = worker[c] /\ pausing'.half # c
              /\ (c \in pausing'.listed => c \in pausing.listed)
          BY <2>1, <2>2, <3>2
        <4> QED BY <1>3, <4>2, <4>3, Zenon DEF Linked
      <3> QED BY <3>1, <3>2
    <2> QED BY <1>1, <1>3, <2>1, <2>5 DEF Agreed, Lined
  <1> QED BY <1>6, <1>7

LEMMA PauseRecordAgrees ==
  ASSUME TypeOK, Agreed, Unfailing, PauseRecord
  PROVE  Agreed'
  <1> DEFINE b == pausing.half
             x == [bot[b] EXCEPT !.state = "Pausing", !.recon = TRUE]
  <1>1. /\ b # NoBot /\ UNCHANGED <<worker, cmd, freeze>>
        /\ pausing \in [listed : SUBSET Bots, half : Bots \cup {NoBot}]
    BY DEF PauseRecord, TypeOK
  <1>2. b \in Bots /\ cmd = Idle /\ b \notin pausing.listed
    BY <1>1 DEF Agreed, NoPause
  <1>3. bot \in [Bots -> Attempt]
    BY DEF TypeOK
  <1>4. freeze # "workers" => Half(bot[b], worker[b])
    <2>1. freeze # "workers" => Linked(b)
      BY <1>2 DEF Agreed, Lined
    <2> QED BY <1>2, <2>1, Zenon DEF Linked
  <1>5. CASE ~Permits(bot[b].state, "Pausing")
    <2>1. PauseRefused(b)
      BY <1>5 DEF PauseRecord
    <2>2. freeze # "workers" => worker[b] = NoWorker \/ worker[b].state = "Faulted"
      BY <1>4, <1>5 DEF Half, Permits
    <2> QED BY <1>1, <1>2, <2>1, <2>2, RefusedAgrees
  <1>6. CASE Permits(bot[b].state, "Pausing")
    <2>1. /\ bot' = [bot EXCEPT ![b].state = "Pausing", ![b].recon = TRUE]
          /\ pausing' = [pausing EXCEPT !.half = NoBot]
      BY <1>6 DEF PauseRecord, Unfailing
    <2>2. bot[b] \in Attempt /\ bot' = [bot EXCEPT ![b] = x]
      BY <1>2, <1>3, <2>1 DEF Attempt
    <2>3. x.id = bot[b].id /\ x.state = "Pausing"
      BY <2>2 DEF Attempt
    <2> HIDE DEF x
    <2>4. bot'[b] = x /\ \A c \in Bots : c # b => bot'[c] = bot[c]
      BY <1>2, <1>3, <2>2
    <2>5. pausing'.half = NoBot /\ pausing'.listed = pausing.listed
      BY <1>1, <2>1
    <2>6. freeze # "workers" => Match(bot'[b], worker'[b])
      <3>1. bot[b].state \in Active
        BY <1>6 DEF Permits, Active
      <3> QED BY <1>1, <1>4, <2>3, <2>4, <3>1 DEF Match, Half, Acting, Active
    <2>7. ASSUME freeze # "workers", NEW c \in Bots
          PROVE  Linked(c)'
      <3>1. pausing'.half # c
        BY <2>5, BotAssumption
      <3>2. CASE c = b
        <4>1. c \notin pausing'.listed /\ Match(bot[c], worker[c])'
          BY <1>2, <2>5, <2>6, <2>7, <3>2
        <4> QED BY <1>1, <1>2, <3>1, <4>1, Zenon DEF Linked
      <3>3. CASE c # b
        <4>1. Linked(c)
          BY <2>7 DEF Agreed, Lined
        <4>2. /\ Match(bot[c], worker[c])
              /\ c \in pausing.listed /\ bot[c].state \in Active => bot[c].state = "Running"
          BY <1>2, <3>3, <4>1, Zenon DEF Linked
        <4>3. bot'[c] = bot[c]
          BY <2>4, <3>3
        <4> QED BY <1>1, <1>2, <2>5, <3>1, <4>2, <4>3, Zenon DEF Linked
      <3> QED BY <3>2, <3>3
    <2>8. pausing'.half \notin pausing'.listed
      BY <1>1, <2>5, BotAssumption
    <2> QED BY <1>1, <1>2, <2>7, <2>8 DEF Agreed, Lined
  <1> QED BY <1>5, <1>6

LEMMA FreezesAgree ==
  ASSUME TypeOK, Agreement, FrozenDown, Clean, Unfailing, Freezes
  PROVE  Agreed'
  <1>1. UNCHANGED <<cmd, pausing>> /\ Agreed
    BY DEF Freezes, FreezeRequest, FreezeBots, FreezeWorkers, Thaw, pauseVars, Agreement, Agreed
  <1>2. CASE FreezeRequest \/ Thaw
    <2>1. UNCHANGED <<bot, worker>> /\ freeze # "workers"
      BY <1>2 DEF FreezeRequest, Thaw
    <2>2. ASSUME NEW c \in Bots
          PROVE  Linked(c)'
      BY <1>1, <2>1 DEF Linked, Agreed, Lined
    <2> QED BY <1>1, <2>2 DEF Agreed, Lined
  <1>3. CASE FreezeBots
    <2>1. freeze' = "workers"
      BY <1>3 DEF FreezeBots, Unfailing
    <2> QED BY <1>1, <2>1 DEF Agreed, Lined
  <1>4. CASE FreezeWorkers
    <2>1. freeze = "workers" /\ UNCHANGED bot /\ worker' = [b \in Bots |-> NoWorker]
      BY <1>4 DEF FreezeWorkers
    <2>2. /\ \A b \in Bots : bot[b].state \notin Active
          /\ cmd # Idle => cmd.todo = Do("complete")
      BY <2>1 DEF FrozenDown, Frozen, Agreement, Clean
    <2>3. ASSUME NEW c \in Bots
          PROVE  Linked(c)'
      <3>1. bot[c].state \notin Active /\ bot'[c] = bot[c] /\ worker'[c] = NoWorker
        BY <2>1, <2>2
      <3>2. Match(bot[c], NoWorker) /\ Half(bot[c], NoWorker)
        BY <3>1 DEF Match, Half, Acting
      <3>3. cmd # Idle => Underway(bot[c], NoWorker, cmd.todo)
        <4>1. Ahead(StopScript("Stopped"), StopPlan) /\ Len(StopScript("Stopped")) = 1
              /\ StopScript("Stopped") = Do("complete")
          BY StopPlanned, StopOfInactive DEF States, Active
        <4>2. Ahead(Do("complete"), StopPlan)
          BY <4>1
        <4>3. Ending(bot[c], NoWorker, Do("complete"))
          BY <3>1, <3>2, <4>2 DEF Ending, Acting
        <4>4. Underway(bot[c], NoWorker, Do("complete"))
          BY <4>3, Zenon DEF Underway
        <4> QED BY <2>2, <4>4
      <3> QED BY <1>1, <3>1, <3>2, <3>3 DEF Linked
    <2> QED BY <1>1, <2>3 DEF Agreed, Lined
  <1> QED BY <1>2, <1>3, <1>4 DEF Freezes

LEMMA RestartAgrees ==
  ASSUME TypeOK, Restart
  PROVE  Agreed'
  <1>1. /\ cmd' = Idle /\ pausing' = NoPause
        /\ worker' = [b \in Bots |-> NoWorker]
        /\ bot' = FaultAll({b \in Bots : bot[b].state \in Active})
    BY DEF Restart
  <1>2. ASSUME NEW c \in Bots
        PROVE  Linked(c)'
    <2>1. bot'[c].state \notin Active
      BY <1>1 DEF FaultAll, Faulted, Active, TypeOK, Attempt
    <2>2. worker'[c] = NoWorker
      BY <1>1
    <2>3. Match(bot[c], worker[c])'
      BY <2>1, <2>2 DEF Match, Acting
    <2> QED BY <1>1, <2>3, MatchLinks
  <1>3. pausing'.half \notin pausing'.listed
    BY <1>1 DEF NoPause
  <1> QED BY <1>1, <1>2, <1>3 DEF Agreed, Lined

\* A history that is clean was clean before.
LEMMA CleanBefore ==
  ASSUME TypeOK, [Next]_vars, Clean'
  PROVE  Clean /\ Unfailing
  <1>1. spent.failures = 0 /\ Unfailing
    BY AlertChanges, WritesSucceed DEF Clean
  <1>2. Takes \/ Pauses => (raced => raced')
    BY DEF Takes, Start, Retry, Pause, Resume, Stop, Decision, Take, Pauses, PauseListed,
           PauseWorker, PauseRecord
  <1>3. CommandStep => UNCHANGED raced
    BY DEF CommandStep, BeginStep, LaunchStep, WorkerStep, RecordStep, ReconcileStep, UnloadStep,
           CompleteStep, DecideStep, GateStep, SubmitStep, FailStep, pauseVars
  <1>4. Monitors \/ Freezes \/ Restart \/ UNCHANGED vars => UNCHANGED raced
    BY DEF Monitors, WorkerDies, Poll, Handle, Freezes, FreezeRequest, FreezeBots, FreezeWorkers,
           Thaw, Restart, pauseVars, vars
  <1> QED BY <1>1, <1>2, <1>3, <1>4, WhoSteps DEF Clean

LEMMA AgreementKept ==
  ASSUME TypeOK, Planned, Watched, FrozenDown, Agreement, [Next]_vars
  PROVE  Agreement'
  <1>1. (freeze # "idle" => alert)'
    <2>1. CASE UNCHANGED <<alert, freeze>>
      BY <2>1 DEF Agreement
    <2>2. CASE Freezes \/ Restart
      BY <2>2 DEF Agreement, Freezes, FreezeRequest, FreezeBots, FreezeWorkers, Thaw, Restart
    <2> QED BY <2>1, <2>2, AlertChanges
  <1>2. ASSUME Clean'
        PROVE  Agreed'
    <2>1. Clean /\ Unfailing /\ ~raced'
      BY <1>2, CleanBefore DEF Clean
    <2>2. Agreed
      BY <2>1 DEF Agreement, Agreed
    <2>3. CASE Takes
      BY <2>1, <2>2, <2>3, TakesAgree
    <2>4. CASE CommandStep
      BY <2>1, <2>2, <2>4, CommandAgrees
    <2>5. CASE Monitors
      BY <2>1, <2>2, <2>5, MonitorsAgree
    <2>6. CASE Pauses
      BY <2>1, <2>2, <2>6, ListedAgrees, PauseWorkerAgrees, PauseRecordAgrees DEF Pauses
    <2>7. CASE Freezes
      BY <2>1, <2>7, FreezesAgree
    <2>8. CASE Restart
      BY <2>8, RestartAgrees
    <2>9. CASE UNCHANGED vars
      <3>1. ASSUME NEW c \in Bots, Linked(c)
            PROVE  Linked(c)'
        BY <2>9, <3>1 DEF Linked, vars, pauseVars
      <3> QED BY <2>2, <2>9, <3>1 DEF Agreed, Lined, vars, pauseVars
    <2> QED BY <2>3, <2>4, <2>5, <2>6, <2>7, <2>8, <2>9, WhoSteps
  <1> QED BY <1>1, <1>2 DEF Agreement, Agreed

(* As long as no write fails and no pause by the host overlaps a command, the Bot *)
(* store and the registry of Workers agree whenever nothing is in progress,       *)
(* however commands, the monitor, Freeze All, pauses and restarts interleave      *)
(* (transition_pair, converge_fault, freeze_all, pause_bots_for_user).  The       *)
(* invariant says at every step of every command which states the two may be in.  *)
THEOREM StoresStayAgreed == Spec => []StoresAgree
  <1>1. Init => Agreement
    <2> SUFFICES ASSUME Init
                 PROVE  Agreement
      OBVIOUS
    <2>1. ASSUME NEW c \in Bots
          PROVE  Linked(c)
      <3>1. bot[c].state = "Stopped" /\ worker[c] = NoWorker /\ cmd = Idle /\ pausing = NoPause
        BY DEF Init
      <3>2. Match(bot[c], worker[c])
        BY <3>1 DEF Match, Acting, Active
      <3>3. pausing.half # c /\ c \notin pausing.listed
        BY <3>1, BotAssumption DEF NoPause
      <3> QED BY <3>1, <3>2, <3>3, Zenon DEF Linked
    <2> QED BY <2>1 DEF Init, Agreement, Lined, NoPause
  <1>2. TypeOK /\ Planned /\ Watched /\ FrozenDown /\ Agreement /\ [Next]_vars => Agreement'
    BY AgreementKept
  <1>3. Agreement => StoresAgree
    <2> SUFFICES ASSUME Agreement, AtRest, spent.failures = 0, ~raced, NEW b \in Bots
                 PROVE  Match(bot[b], worker[b])
      BY Zenon DEF StoresAgree, Match, Acting
    <2>1. cmd = Idle /\ pausing = NoPause /\ Linked(b)
      BY DEF AtRest, Agreement, Clean, Lined
    <2> QED BY <2>1, RestMatches
  <1>4. Init => FrozenDown
    BY DEF Init, FrozenDown, Frozen
  <1>5. TypeOK /\ Planned /\ Watched /\ FrozenDown /\ [Next]_vars => FrozenDown'
    BY FrozenKept
  <1> QED BY <1>1, <1>2, <1>3, <1>4, <1>5, LifecycleSound, RegistrySound, PTL DEF Spec

===============================================================================
