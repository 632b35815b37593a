----------------------------- MODULE PaperExperiment -----------------------------
(***************************************************************************)
(* The supervised Paper Experiment (paper_experiment.rs): one Bot for each  *)
(* instrument, deployed and started together, observed inside one window,   *)
(* stopped together and reported.  The experiment is a row of a table.      *)
(* Every command of the user interface reads the row, works for seconds     *)
(* (it reconciles, starts and stops Bots, asks for prices) and then writes  *)
(* the WHOLE row back: the last writer wins.  The decisions of the Bots     *)
(* write the row too, when they find that every Bot has warmed up.          *)
(* A Bot's own commands and its decisions share the control lock of the Bot *)
(* store; the experiment's row has no lock.  All experiments here are of    *)
(* one user and one account.                                                *)
(***************************************************************************)
EXTENDS Naturals, FiniteSets

CONSTANTS Experiments, Instruments,
          Threads,          \* calls of the user interface that can overlap
          MaxDeploys,       \* bound: launches that deploy Bots
          MaxFaults,        \* bound: Bots that fail to start or stop, or fault
          MaxUserCommands,  \* bound: lifecycle commands for single Bots
          MaxCrashes,       \* bound: restarts of the host
          MaxReports        \* bound: reports

ASSUME ExperimentAssumption ==
  /\ Instruments # {} /\ IsFiniteSet(Instruments)
  /\ MaxDeploys \in Nat /\ MaxFaults \in Nat /\ MaxUserCommands \in Nat
  /\ MaxCrashes \in Nat /\ MaxReports \in Nat

\* A Bot is known by its deployment and its instrument.
Bots == (1..MaxDeploys) \X Instruments

Ended == {"Completed", "Incomplete"}
Observing == {"Preparing", "Armed", "Running"}
Current == Observing \cup {"Stopping"}
\* Mutant: an experiment whose stop is under way no longer occupies its account.
NotStopping == Observing
\* The states active_for_account selects.
Occupying == Current
ExperimentStates == {"None", "Draft"} \cup Current \cup Ended
Up == {"Running", "Paused"}

VARIABLES
  row,       \* the paper_experiments table
  bot,       \* each Bot: its state, warm-up, and whether the user began its attempt
  answered,  \* the recorded results of the experiment's stop commands
  decision,  \* the decision that holds the control lock
  call,      \* what each thread of the user interface is doing
  clock,     \* the observation window
  deploys, reports,
  meddled,   \* history: the user commanded a Bot of a launch in progress
  spent      \* the bounds: faults, user commands, crashes

vars == <<row, bot, answered, decision, call, clock, deploys, reports, meddled, spent>>

Row == [state : ExperimentStates, bots : SUBSET Bots, report : Nat, feedback : BOOLEAN]
NoRow == [state |-> "None", bots |-> {}, report |-> 0, feedback |-> FALSE]
Is(state, user) == [state |-> state, warm |-> FALSE, user |-> user]
Bot == [state : {"None", "Stopped", "Faulted"} \cup Up, warm : BOOLEAN, user : BOOLEAN]
Quiet == [do |-> "none"]
Work == [do : {"deploy", "start", "rollback", "refresh", "stopping", "stop", "report", "link",
               "feedback"},
         exp : Experiments, copy : Row, left : SUBSET Bots, started : SUBSET Bots,
         failed : BOOLEAN, report : BOOLEAN]
NoDecision == [do |-> "none"]
Decision == [do : {"decide", "arm", "run"}, bot : Bots, exp : Experiments, copy : Row]

TypeOK ==
  /\ row \in [Experiments -> Row]
  /\ bot \in [Bots -> Bot]
  /\ answered \in [Bots -> {"none", "stopped", "failed"}]
  /\ decision \in {NoDecision} \cup Decision
  /\ call \in [Threads -> {Quiet} \cup Work]
  /\ clock \in {"before", "open", "closed"}
  /\ deploys \in 0..MaxDeploys /\ reports \in 0..MaxReports
  /\ meddled \in BOOLEAN
  /\ spent \in [faults : 0..MaxFaults, commands : 0..MaxUserCommands, crashes : 0..MaxCrashes]

Init ==
  /\ row = [e \in Experiments |-> NoRow]
  /\ bot = [b \in Bots |-> Is("None", FALSE)]
  /\ answered = [b \in Bots |-> "none"]
  /\ decision = NoDecision
  /\ call = [t \in Threads |-> Quiet]
  /\ clock = "before"
  /\ deploys = 0 /\ reports = 0 /\ meddled = FALSE
  /\ spent = [faults |-> 0, commands |-> 0, crashes |-> 0]

--------------------------------------------------------------------------------
(* The Bots *)

\* Mutant: a lifecycle command does not wait for a decision in progress.
AnyTime == TRUE
\* A lifecycle command of a Bot waits for the control lock.
ControlFree == decision = NoDecision

Faults ==
  /\ spent.faults < MaxFaults
  /\ spent' = [spent EXCEPT !.faults = @ + 1]

Down(b) == bot' = [bot EXCEPT ![b] = Is("Faulted", FALSE)]
Begun(b, user) == bot' = [bot EXCEPT ![b] = Is("Running", user)]
Halted(b) == bot' = [bot EXCEPT ![b] = Is("Stopped", FALSE)]

\* The supervisor's monitor finds the Worker dead; it takes no control lock.
BotFaults(b) ==
  /\ bot[b].state \in Up
  /\ Faults /\ Down(b)
  /\ UNCHANGED <<row, answered, decision, call, clock, deploys, reports, meddled>>

Launching(b) ==
  \E t \in Threads : call[t].do \in {"start", "rollback"} /\ b \in call[t].copy.bots

UserCommand(b) ==
  /\ ControlFree
  /\ spent.commands < MaxUserCommands
  /\ spent' = [spent EXCEPT !.commands = @ + 1]
  /\ \/ bot[b].state \in {"Stopped", "Faulted"} /\ Begun(b, TRUE)
     \/ bot[b].state = "Running" /\ bot' = [bot EXCEPT ![b] = Is("Paused", @.user)]
     \/ bot[b].state = "Paused" /\ bot' = [bot EXCEPT ![b] = Is("Running", @.user)]
     \/ bot[b].state \in Up \cup {"Faulted"} /\ Halted(b)
  /\ meddled' = (meddled \/ Launching(b))
  /\ UNCHANGED <<row, answered, decision, call, clock, deploys, reports>>

--------------------------------------------------------------------------------
(* Decisions: the window gate, and arming the experiment *)

\* for_bot: an experiment that has ended no longer binds its Bots.
Binding(b) == {e \in Experiments : row[e].state \in Current /\ b \in row[e].bots}

\* decision_blocked, and a Worker that answers within its policy: the attempt is warm.
Decides(b) ==
  /\ decision = NoDecision
  /\ bot[b].state = "Running"
  /\ bot' = [bot EXCEPT ![b].warm = TRUE]
  /\ \E e \in Binding(b) :
       /\ row[e].state \in Observing /\ clock = "open"
       /\ decision' = [do |-> "decide", bot |-> b, exp |-> e, copy |-> NoRow]
  /\ UNCHANGED <<row, answered, call, clock, deploys, reports, meddled, spent>>

AllWarm(bots) == \A b \in bots : bot[b].state = "Running" /\ bot[b].warm

\* arm_if_all_bots_warmed reads the row again; otherwise the decision is over.
ArmReads ==
  /\ decision.do = "decide"
  /\ LET ready == {e \in Binding(decision.bot) :
                     row[e].state = "Preparing" /\ clock = "open" /\ AllWarm(row[e].bots)}
     IN  \/ \E e \in ready :
              decision' = [do |-> "arm", bot |-> decision.bot, exp |-> e, copy |-> row[e]]
         \/ ready = {} /\ decision' = NoDecision
  /\ UNCHANGED <<row, bot, answered, call, clock, deploys, reports, meddled, spent>>

\* It saves Armed and then Running, both from what it read.
ArmSaves(do, state) ==
  /\ decision.do = do
  /\ row' = [row EXCEPT ![decision.exp] = [decision.copy EXCEPT !.state = state]]
  /\ UNCHANGED <<bot, answered, call, clock, deploys, reports, meddled, spent>>
Arms == ArmSaves("arm", "Armed") /\ decision' = [decision EXCEPT !.do = "run"]
Runs == ArmSaves("run", "Running") /\ decision' = NoDecision

--------------------------------------------------------------------------------
(* Calls of the user interface: launch *)

Continue(t, work) == call' = [call EXCEPT ![t] = work]
Begin(t, do, e, copy, report) ==
  Continue(t, [do |-> do, exp |-> e, copy |-> copy, left |-> {}, started |-> {},
               failed |-> FALSE, report |-> report])
Enter(t, do, e, copy) == Begin(t, do, e, copy, FALSE)
Leave(t) == Continue(t, Quiet)
Saves(t, copy) == row' = [row EXCEPT ![call[t].exp] = copy]
InCall(t, do) == call[t].do = do

Create(e) ==
  /\ row[e].state = "None"
  /\ row' = [row EXCEPT ![e].state = "Draft"]
  /\ UNCHANGED <<bot, answered, decision, call, clock, deploys, reports, meddled, spent>>

\* The checks; the operational and account checks only refuse, like any GivesUp.
LaunchReads(t, e) ==
  /\ call[t] = Quiet
  /\ row[e].state = "Draft" /\ clock = "open"
  /\ \A x \in Experiments : row[x].state \notin Occupying
  /\ Enter(t, "deploy", e, row[e])
  /\ UNCHANGED <<row, bot, answered, decision, clock, deploys, reports, meddled, spent>>

\* A call that fails before its first write: reconciliation, prices, another check.
GivesUp(t) ==
  /\ call[t].do \in {"deploy", "refresh", "feedback"}
  /\ Leave(t)
  /\ UNCHANGED <<row, bot, answered, decision, clock, deploys, reports, meddled, spent>>

LaunchSaves(t) ==
  /\ InCall(t, "deploy") /\ deploys < MaxDeploys
  /\ deploys' = deploys + 1
  /\ LET fresh == {deploys'} \X Instruments
         saved == [call[t].copy EXCEPT !.state = "Preparing", !.bots = fresh]
     IN  /\ bot' = [b \in Bots |-> IF b \in fresh THEN Is("Stopped", FALSE) ELSE bot[b]]
         /\ Saves(t, saved)
         /\ Continue(t, [call[t] EXCEPT !.do = "start", !.copy = saved, !.left = fresh])
  /\ UNCHANGED <<answered, decision, clock, reports, meddled, spent>>

\* start_experiment_bot: the last Bot ends the launch, a failure begins the rollback.
LaunchStarts(t, b) ==
  /\ InCall(t, "start") /\ b \in call[t].left
  /\ ControlFree
  /\ \/ /\ bot[b].state = "Stopped" /\ Begun(b, FALSE)
        /\ IF call[t].left = {b} THEN Leave(t)
           ELSE Continue(t, [call[t] EXCEPT !.left = @ \ {b}, !.started = @ \cup {b}])
        /\ UNCHANGED spent
     \/ /\ bot[b].state = "Stopped" /\ Faults
        /\ Down(b) \/ UNCHANGED bot
        /\ Continue(t, [call[t] EXCEPT !.do = "rollback"])
     \/ /\ bot[b].state # "Stopped"
        /\ Continue(t, [call[t] EXCEPT !.do = "rollback"])
        /\ UNCHANGED <<bot, spent>>
  /\ UNCHANGED <<row, answered, decision, clock, deploys, reports, meddled>>

\* stop_bot under the control lock; a failing stop faults the Bot.
Stopped(b) == ControlFree /\ bot[b].state # "Stopped" /\ Halted(b) /\ UNCHANGED spent
StopFails(b) == ControlFree /\ bot[b].state # "Stopped" /\ Faults /\ Down(b)

\* Mutant: the rollback forgets the Bots it started.
Nothing(started) == {}
ToRollBack(started) == started

RollsBack(t, b) ==
  /\ InCall(t, "rollback") /\ b \in ToRollBack(call[t].started)
  /\ \/ bot[b].state = "Stopped" /\ UNCHANGED <<bot, spent>>
     \/ Stopped(b)
     \/ StopFails(b)
  /\ Continue(t, [call[t] EXCEPT !.started = @ \ {b}])
  /\ UNCHANGED <<row, answered, decision, clock, deploys, reports, meddled>>

LaunchFails(t) ==
  /\ InCall(t, "rollback") /\ ToRollBack(call[t].started) = {}
  /\ Saves(t, [call[t].copy EXCEPT !.state = "Incomplete"])
  /\ Leave(t)
  /\ UNCHANGED <<bot, answered, decision, clock, deploys, reports, meddled, spent>>

--------------------------------------------------------------------------------
(* Calls of the user interface: refresh and stop *)

Overdue(e) == row[e].state \in Observing /\ clock = "closed"

\* The page refreshes an experiment it has seen active, every 30 seconds.
\* report: a report was asked for, and the call goes on to it when it succeeds.
Refresh(t, e, report) ==
  /\ call[t] = Quiet /\ row[e].state \notin {"None", "Draft"} /\ ~Overdue(e)
  /\ Begin(t, "refresh", e, row[e], report)
  /\ UNCHANGED <<row, bot, answered, decision, clock, deploys, reports, meddled, spent>>

RefreshReads(t, e) == Refresh(t, e, FALSE)

RefreshSaves(t) ==
  /\ InCall(t, "refresh")
  /\ Saves(t, call[t].copy)
  /\ IF call[t].report THEN Continue(t, [call[t] EXCEPT !.do = "report"]) ELSE Leave(t)
  /\ UNCHANGED <<bot, answered, decision, clock, deploys, reports, meddled, spent>>

\* stop_experiment reads the row; the save of Stopping follows.
Stop(t, e, report) ==
  /\ call[t] = Quiet
  /\ Begin(t, "stopping", e, [row[e] EXCEPT !.state = "Stopping"], report)
  /\ UNCHANGED <<row, bot, answered, decision, clock, deploys, reports, meddled, spent>>

\* By the user, or by a refresh after the window.
Stoppable == Current
StopReads(t, e) == row[e].state \in Stoppable /\ Stop(t, e, FALSE)

\* Fewer Bots than instruments end the experiment at once.
StopSaves(t) ==
  /\ InCall(t, "stopping")
  /\ Saves(t, call[t].copy)
  /\ Continue(t, [call[t] EXCEPT !.do = "stop", !.left = call[t].copy.bots,
                                 !.failed = (call[t].copy.bots = {})])
  /\ UNCHANGED <<bot, answered, decision, clock, deploys, reports, meddled, spent>>

\* stop_experiment_bot: a Bot already Stopped needs no command; a command already
\* recorded is answered from the record.
StopsBot(t, b) ==
  /\ InCall(t, "stop") /\ b \in call[t].left
  /\ \/ /\ \/ bot[b].state = "Stopped"
           \/ ControlFree /\ bot[b].state # "Stopped" /\ answered[b] # "none"
        /\ Continue(t, [call[t] EXCEPT !.left = @ \ {b},
                                       !.failed = @ \/ (bot[b].state # "Stopped"
                                                        /\ answered[b] = "failed")])
        /\ UNCHANGED <<bot, answered, spent>>
     \/ /\ answered[b] = "none" /\ Stopped(b)
        /\ answered' = [answered EXCEPT ![b] = "stopped"]
        /\ Continue(t, [call[t] EXCEPT !.left = @ \ {b}])
     \/ /\ answered[b] = "none" /\ StopFails(b)
        /\ answered' = [answered EXCEPT ![b] = "failed"]
        /\ Continue(t, [call[t] EXCEPT !.left = @ \ {b}, !.failed = TRUE])
  /\ UNCHANGED <<row, decision, clock, deploys, reports, meddled>>

AllAnswered(t) == call[t].left = {}

\* Completed only when every Bot stopped and the account is quiet.  A report that
\* was asked for follows unless the call fails.
StopEnds(t) ==
  /\ InCall(t, "stop") /\ AllAnswered(t)
  /\ \E state \in Ended :
       /\ call[t].failed => state = "Incomplete"
       /\ Saves(t, [call[t].copy EXCEPT !.state = state])
  /\ \/ call[t].report /\ ~call[t].failed /\ Continue(t, [call[t] EXCEPT !.do = "report"])
     \/ Leave(t)
  /\ UNCHANGED <<bot, answered, decision, clock, deploys, reports, meddled, spent>>

--------------------------------------------------------------------------------
(* Calls of the user interface: report and feedback *)

ReportReads(t, e) ==
  \/ row[e].state \in Observing /\ Refresh(t, e, TRUE)
  \/ Overdue(e) /\ Stop(t, e, TRUE)
  \/ /\ call[t] = Quiet /\ row[e].state \notin Observing \cup {"None"}
     /\ Enter(t, "report", e, row[e])
     /\ UNCHANGED <<row, bot, answered, decision, clock, deploys, reports, meddled, spent>>

\* The row as it is now: only an ended experiment without a report gets one.
ReportTakes(t) ==
  /\ InCall(t, "report")
  /\ LET now == row[call[t].exp]
     IN  IF now.state \in Ended /\ now.report = 0
         THEN Continue(t, [call[t] EXCEPT !.do = "link", !.copy = now])
         ELSE Leave(t)
  /\ UNCHANGED <<row, bot, answered, decision, clock, deploys, reports, meddled, spent>>

\* save_report: the report, then the row that links it.
ReportSaves(t) ==
  /\ InCall(t, "link") /\ reports < MaxReports
  /\ reports' = reports + 1
  /\ Saves(t, [call[t].copy EXCEPT !.report = reports'])
  /\ Leave(t)
  /\ UNCHANGED <<bot, answered, decision, clock, deploys, meddled, spent>>

FeedbackReads(t, e) ==
  /\ call[t] = Quiet /\ row[e].report # 0 /\ ~row[e].feedback
  /\ Enter(t, "feedback", e, row[e])
  /\ UNCHANGED <<row, bot, answered, decision, clock, deploys, reports, meddled, spent>>

FeedbackSaves(t) ==
  /\ InCall(t, "feedback")
  /\ Saves(t, [call[t].copy EXCEPT !.feedback = TRUE])
  /\ Leave(t)
  /\ UNCHANGED <<bot, answered, decision, clock, deploys, reports, meddled, spent>>

--------------------------------------------------------------------------------
(* The host *)

Tick ==
  /\ clock # "closed"
  /\ clock' = IF clock = "before" THEN "open" ELSE "closed"
  /\ UNCHANGED <<row, bot, answered, decision, call, deploys, reports, meddled, spent>>

\* A restart loses the calls and the decision; recover_after_restart faults every
\* active attempt, and nothing recovers the experiment.
Restart ==
  /\ spent.crashes < MaxCrashes
  /\ spent' = [spent EXCEPT !.crashes = @ + 1]
  /\ bot' = [b \in Bots |-> IF bot[b].state \in Up THEN Is("Faulted", FALSE) ELSE bot[b]]
  /\ decision' = NoDecision
  /\ call' = [t \in Threads |-> Quiet]
  /\ UNCHANGED <<row, answered, clock, deploys, reports, meddled>>

BotStep == \E b \in Bots : BotFaults(b) \/ UserCommand(b) \/ Decides(b)
DecisionStep == ArmReads \/ Arms \/ Runs
LaunchStep(t) ==
  \/ \E e \in Experiments : LaunchReads(t, e)
  \/ LaunchSaves(t) \/ LaunchFails(t)
  \/ \E b \in Bots : LaunchStarts(t, b) \/ RollsBack(t, b)
StopStep(t) ==
  \/ \E e \in Experiments : RefreshReads(t, e) \/ StopReads(t, e)
  \/ RefreshSaves(t) \/ StopSaves(t) \/ StopEnds(t)
  \/ \E b \in Bots : StopsBot(t, b)
ReportStep(t) ==
  \/ \E e \in Experiments : ReportReads(t, e) \/ FeedbackReads(t, e)
  \/ ReportTakes(t) \/ ReportSaves(t) \/ FeedbackSaves(t)

Next ==
  \/ \E e \in Experiments : Create(e)
  \/ BotStep \/ DecisionStep
  \/ \E t \in Threads : LaunchStep(t) \/ StopStep(t) \/ ReportStep(t) \/ GivesUp(t)
  \/ Tick \/ Restart

Spec == Init /\ [][Next]_vars

--------------------------------------------------------------------------------
(* What must hold *)

(* An experiment that has ended stays as it ended, with the Bots it had, and a   *)
(* report once linked is never replaced: none of the copies of the row still     *)
(* held by a call or a decision is written back over it, as long as no Bot is    *)
(* commanded by the user while its launch is in progress.                        *)
EndedIsFinal ==
  [][\A e \in Experiments : ~meddled /\ row[e].state \in Ended =>
       /\ row'[e].state = row[e].state /\ row'[e].bots = row[e].bots
       /\ row[e].report # 0 => row'[e].report = row[e].report]_row

(* Reports "remain idempotently frozen once linked": an experiment keeps the      *)
(* report it has.                                                                *)
ReportStaysLinked ==
  [][\A e \in Experiments : row[e].report # 0 => row'[e].report = row[e].report]_row

(* An experiment that has ended runs nothing: no Bot of it is still in the       *)
(* attempt its launch began, whatever failed, faulted, restarted or was replayed *)
(* between the launch and the end.                                               *)
EndedMeansStopped ==
  \A e \in Experiments : row[e].state \in Ended =>
    \A b \in row[e].bots : bot[b].state \in Up => bot[b].user

(* One account has at most one experiment that is not over, through restarts in  *)
(* the middle of a launch or of a stop: two would share its money.  (Commands of *)
(* the user during a launch apart, as above.)                                    *)
OneCurrent ==
  ~meddled => \A e, f \in Experiments :
    row[e].state \in Current /\ row[f].state \in Current => e = f

(* The rows are well formed, with one experiment in progress per account.        *)
ExperimentsSound == TypeOK /\ OneCurrent

===============================================================================
