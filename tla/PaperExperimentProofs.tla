------------------------- MODULE PaperExperimentProofs -------------------------
(***************************************************************************)
(* What is proved of the supervised Paper Experiment, for every set of      *)
(* experiments and instruments and every value of the bounds.               *)
(*                                                                          *)
(* Types hold whatever overlaps.  The other theorems are about calls of the *)
(* user interface that do not overlap (OneThread), interleaved with the     *)
(* Bots, the decisions, the user's own commands and restarts.  They rest on *)
(* two invariants.  StopInv says who still knows each Bot that is up in an  *)
(* attempt a launch began: the launch that would roll it back, or the stop  *)
(* that still waits for it; and that each copy of a row names the Bots of   *)
(* the row.  RowInv says that each copy, when it is written, agrees with    *)
(* the row: decisions hold the control lock while they arm an experiment,   *)
(* so a stop that meets one has not answered any Bot, and a launch that is  *)
(* not disturbed has a Bot that is not up, which no decision arms.          *)
(***************************************************************************)
EXTENDS PaperExperiment, TLAPS

-------------------------------------------------------------------------------
\* What changing one part of a record makes of it

LEMMA WorkParts ==
  ASSUME NEW c \in Work
  PROVE  /\ c.do \in {"deploy", "start", "rollback", "refresh", "stopping", "stop", "report",
                      "link", "feedback"}
         /\ c.exp \in Experiments /\ c.copy \in Row
         /\ c.left \subseteq Bots /\ c.started \subseteq Bots
         /\ c.failed \in BOOLEAN /\ c.report \in BOOLEAN
         /\ c = [do |-> c.do, exp |-> c.exp, copy |-> c.copy, left |-> c.left,
                 started |-> c.started, failed |-> c.failed, report |-> c.report]
  BY DEF Work

LEMMA Busy ==
  ASSUME NEW c \in {Quiet} \cup Work, c.do # "none" PROVE c \in Work
  BY DEF Quiet

\* The parts of a call.
Parts(c) == [do |-> c.do, exp |-> c.exp, copy |-> c.copy, left |-> c.left,
             started |-> c.started, failed |-> c.failed, report |-> c.report]
PartNames == {"do", "exp", "copy", "left", "started", "failed", "report"}

LEMMA SetOne ==
  ASSUME NEW c, c = Parts(c), NEW part \in PartNames, NEW v
  PROVE  LET d == [c EXCEPT ![part] = v]
         IN  d = Parts(d) /\ d[part] = v /\ \A x \in PartNames \ {part} : d[x] = c[x]
  <1> DEFINE d == [c EXCEPT ![part] = v]
  <1>1. DOMAIN c = PartNames /\ c = [x \in DOMAIN c |-> c[x]]
    BY DEF Parts, PartNames
  <1>2. DOMAIN d = PartNames /\ d[part] = v /\ d = [x \in DOMAIN d |-> d[x]]
        /\ \A x \in PartNames \ {part} : d[x] = c[x]
    BY <1>1
  <1> HIDE DEF d
  <1>3. d = Parts(d)
    BY <1>2 DEF Parts, PartNames
  <1> QED BY <1>2, <1>3 DEF d

LEMMA SetDo ==
  ASSUME NEW c \in Work, NEW do
  PROVE  [c EXCEPT !.do = do]
           = [do |-> do, exp |-> c.exp, copy |-> c.copy, left |-> c.left,
              started |-> c.started, failed |-> c.failed, report |-> c.report]
  BY DEF Work

LEMMA SetStarted ==
  ASSUME NEW c \in Work, NEW started
  PROVE  [c EXCEPT !.started = started]
           = [do |-> c.do, exp |-> c.exp, copy |-> c.copy, left |-> c.left,
              started |-> started, failed |-> c.failed, report |-> c.report]
  BY DEF Work

LEMMA SetLeft ==
  ASSUME NEW c \in Work, NEW left
  PROVE  [c EXCEPT !.left = left]
           = [do |-> c.do, exp |-> c.exp, copy |-> c.copy, left |-> left,
              started |-> c.started, failed |-> c.failed, report |-> c.report]
  BY DEF Work

LEMMA SetLink ==
  ASSUME NEW c \in Work, NEW do, NEW copy
  PROVE  [c EXCEPT !.do = do, !.copy = copy]
           = [do |-> do, exp |-> c.exp, copy |-> copy, left |-> c.left,
              started |-> c.started, failed |-> c.failed, report |-> c.report]
  <1>0. c = Parts(c)
    BY WorkParts DEF Parts
  <1> DEFINE d1 == [c EXCEPT !.do = do]
             d2 == [d1 EXCEPT !.copy = copy]
  <1> HIDE DEF d1, d2
  <1>1. /\ d1 = Parts(d1) /\ d1.do = do
        /\ \A x \in PartNames \ {"do"} : d1[x] = c[x]
    BY <1>0, SetOne DEF d1, PartNames
  <1>2. /\ d2 = Parts(d2) /\ d2.copy = copy
        /\ \A x \in PartNames \ {"copy"} : d2[x] = d1[x]
    BY <1>1, SetOne DEF d2, PartNames
  <1> QED BY <1>1, <1>2 DEF d1, d2, Parts, PartNames

LEMMA SetTwo ==
  ASSUME NEW c \in Work, NEW left, NEW started
  PROVE  [c EXCEPT !.left = left, !.started = started]
           = [do |-> c.do, exp |-> c.exp, copy |-> c.copy, left |-> left,
              started |-> started, failed |-> c.failed, report |-> c.report]
  <1>0. c = Parts(c)
    BY WorkParts DEF Parts
  <1> DEFINE d1 == [c EXCEPT !.left = left]
             d2 == [d1 EXCEPT !.started = started]
  <1> HIDE DEF d1, d2
  <1>1. /\ d1 = Parts(d1) /\ d1.left = left
        /\ \A x \in PartNames \ {"left"} : d1[x] = c[x]
    BY <1>0, SetOne DEF d1, PartNames
  <1>2. /\ d2 = Parts(d2) /\ d2.started = started
        /\ \A x \in PartNames \ {"started"} : d2[x] = d1[x]
    BY <1>1, SetOne DEF d2, PartNames
  <1> QED BY <1>1, <1>2 DEF d1, d2, Parts, PartNames

LEMMA SetFailed ==
  ASSUME NEW c \in Work, NEW left, NEW failed
  PROVE  [c EXCEPT !.left = left, !.failed = failed]
           = [do |-> c.do, exp |-> c.exp, copy |-> c.copy, left |-> left,
              started |-> c.started, failed |-> failed, report |-> c.report]
  <1>0. c = Parts(c)
    BY WorkParts DEF Parts
  <1> DEFINE d1 == [c EXCEPT !.left = left]
             d2 == [d1 EXCEPT !.failed = failed]
  <1> HIDE DEF d1, d2
  <1>1. /\ d1 = Parts(d1) /\ d1.left = left
        /\ \A x \in PartNames \ {"left"} : d1[x] = c[x]
    BY <1>0, SetOne DEF d1, PartNames
  <1>2. /\ d2 = Parts(d2) /\ d2.failed = failed
        /\ \A x \in PartNames \ {"failed"} : d2[x] = d1[x]
    BY <1>1, SetOne DEF d2, PartNames
  <1> QED BY <1>1, <1>2 DEF d1, d2, Parts, PartNames

LEMMA SetStart ==
  ASSUME NEW c \in Work, NEW do, NEW copy, NEW left
  PROVE  [c EXCEPT !.do = do, !.copy = copy, !.left = left]
           = [do |-> do, exp |-> c.exp, copy |-> copy, left |-> left,
              started |-> c.started, failed |-> c.failed, report |-> c.report]
  <1>0. c = Parts(c)
    BY WorkParts DEF Parts
  <1> DEFINE d1 == [c EXCEPT !.do = do]
             d2 == [d1 EXCEPT !.copy = copy]
             d3 == [d2 EXCEPT !.left = left]
  <1> HIDE DEF d1, d2, d3
  <1>1. /\ d1 = Parts(d1) /\ d1.do = do
        /\ \A x \in PartNames \ {"do"} : d1[x] = c[x]
    BY <1>0, SetOne DEF d1, PartNames
  <1>2. /\ d2 = Parts(d2) /\ d2.copy = copy
        /\ \A x \in PartNames \ {"copy"} : d2[x] = d1[x]
    BY <1>1, SetOne DEF d2, PartNames
  <1>3. /\ d3 = Parts(d3) /\ d3.left = left
        /\ \A x \in PartNames \ {"left"} : d3[x] = d2[x]
    BY <1>2, SetOne DEF d3, PartNames
  <1> QED BY <1>1, <1>2, <1>3 DEF d1, d2, d3, Parts, PartNames

LEMMA SetStop ==
  ASSUME NEW c \in Work, NEW do, NEW left, NEW failed
  PROVE  [c EXCEPT !.do = do, !.left = left, !.failed = failed]
           = [do |-> do, exp |-> c.exp, copy |-> c.copy, left |-> left,
              started |-> c.started, failed |-> failed, report |-> c.report]
  <1>0. c = Parts(c)
    BY WorkParts DEF Parts
  <1> DEFINE d1 == [c EXCEPT !.do = do]
             d2 == [d1 EXCEPT !.left = left]
             d3 == [d2 EXCEPT !.failed = failed]
  <1> HIDE DEF d1, d2, d3
  <1>1. /\ d1 = Parts(d1) /\ d1.do = do
        /\ \A x \in PartNames \ {"do"} : d1[x] = c[x]
    BY <1>0, SetOne DEF d1, PartNames
  <1>2. /\ d2 = Parts(d2) /\ d2.left = left
        /\ \A x \in PartNames \ {"left"} : d2[x] = d1[x]
    BY <1>1, SetOne DEF d2, PartNames
  <1>3. /\ d3 = Parts(d3) /\ d3.failed = failed
        /\ \A x \in PartNames \ {"failed"} : d3[x] = d2[x]
    BY <1>2, SetOne DEF d3, PartNames
  <1> QED BY <1>1, <1>2, <1>3 DEF d1, d2, d3, Parts, PartNames

LEMMA SetRow ==
  ASSUME NEW r \in Row, NEW state
  PROVE  [r EXCEPT !.state = state]
           = [state |-> state, bots |-> r.bots, report |-> r.report, feedback |-> r.feedback]
  BY DEF Row

--------------------------------------------------------------------------------
(* The types of the rows, the Bots, the calls and the decision *)

LEMMA RowParts ==
  ASSUME NEW r \in Row, NEW state \in ExperimentStates
  PROVE  /\ [r EXCEPT !.state = state] \in Row
         /\ r.state \in ExperimentStates /\ r.bots \subseteq Bots /\ r.report \in Nat
         /\ r.feedback \in BOOLEAN
  BY DEF Row

LEMMA States ==
  /\ "None" \in ExperimentStates /\ "Draft" \in ExperimentStates
  /\ Current \subseteq ExperimentStates /\ Ended \subseteq ExperimentStates
  /\ Observing \subseteq Current
  BY DEF ExperimentStates, Current, Observing, Ended

LEMMA BotKinds ==
  /\ \A u \in BOOLEAN : /\ Is("Stopped", u) \in Bot /\ Is("Faulted", u) \in Bot
                        /\ Is("Running", u) \in Bot /\ Is("Paused", u) \in Bot
                        /\ Is("None", u) \in Bot
  /\ NoRow \in Row /\ ~("none" \in {"stopped", "failed"})
  BY DEF Is, Bot, Up, NoRow, Row, ExperimentStates

\* What every call of the user interface changes.
LEMMA CallType ==
  ASSUME TypeOK, NEW t \in Threads, NEW c \in {Quiet} \cup Work, Continue(t, c)
  PROVE  call' \in [Threads -> {Quiet} \cup Work]
  BY DEF TypeOK, Continue

LEMMA RowType ==
  ASSUME TypeOK, NEW e \in Experiments, NEW r \in Row, row' = [row EXCEPT ![e] = r]
  PROVE  row' \in [Experiments -> Row]
  BY DEF TypeOK

LEMMA BotType ==
  ASSUME TypeOK, NEW b \in Bots, NEW x \in Bot, bot' = [bot EXCEPT ![b] = x]
  PROVE  bot' \in [Bots -> Bot]
  BY DEF TypeOK

LEMMA SpentType ==
  ASSUME TypeOK
  PROVE  /\ Faults => spent' \in [faults : 0..MaxFaults, commands : 0..MaxUserCommands,
                                  crashes : 0..MaxCrashes]
         /\ spent.commands < MaxUserCommands /\ spent' = [spent EXCEPT !.commands = @ + 1]
              => spent' \in [faults : 0..MaxFaults, commands : 0..MaxUserCommands,
                             crashes : 0..MaxCrashes]
         /\ spent.crashes < MaxCrashes /\ spent' = [spent EXCEPT !.crashes = @ + 1]
              => spent' \in [faults : 0..MaxFaults, commands : 0..MaxUserCommands,
                             crashes : 0..MaxCrashes]
  BY ExperimentAssumption DEF TypeOK, Faults

LEMMA InWork ==
  ASSUME TypeOK, NEW t \in Threads, call[t].do # "none"
  PROVE  call[t] \in Work
  BY Busy DEF TypeOK

LEMMA BotStepType == ASSUME TypeOK, BotStep PROVE TypeOK'
  <1>1. ASSUME NEW b \in Bots, BotFaults(b) PROVE TypeOK'
    <2>1. bot' \in [Bots -> Bot]
      BY <1>1, BotType, BotKinds DEF BotFaults, Down
    <2>2. spent' \in [faults : 0..MaxFaults, commands : 0..MaxUserCommands,
                      crashes : 0..MaxCrashes]
      BY <1>1, SpentType DEF BotFaults
    <2> QED BY <1>1, <2>1, <2>2 DEF BotFaults, TypeOK
  <1>2. ASSUME NEW b \in Bots, UserCommand(b) PROVE TypeOK'
    <2>1. bot' \in [Bots -> Bot]
      <3>1. bot[b].user \in BOOLEAN
        BY DEF TypeOK, Bot
      <3> QED BY <1>2, <3>1, BotType, BotKinds DEF UserCommand, Begun, Halted
    <2>2. spent' \in [faults : 0..MaxFaults, commands : 0..MaxUserCommands,
                      crashes : 0..MaxCrashes]
      BY <1>2, SpentType DEF UserCommand
    <2>3. meddled' \in BOOLEAN
      BY <1>2, Zenon DEF UserCommand
    <2> QED BY <1>2, <2>1, <2>2, <2>3 DEF UserCommand, TypeOK
  <1>3. ASSUME NEW b \in Bots, Decides(b) PROVE TypeOK'
    <2>1. bot' \in [Bots -> Bot]
      <3>1. bot[b] \in Bot /\ [bot[b] EXCEPT !.warm = TRUE] \in Bot
        BY DEF TypeOK, Bot
      <3>2. bot' = [bot EXCEPT ![b] = [bot[b] EXCEPT !.warm = TRUE]]
        BY <1>3, Zenon DEF Decides
      <3> QED BY <3>1, <3>2, BotType
    <2>2. decision' \in Decision
      BY <1>3, BotKinds DEF Decides, Binding, Decision
    <2> QED BY <1>3, <2>1, <2>2 DEF Decides, TypeOK
  <1> QED BY <1>1, <1>2, <1>3 DEF BotStep

LEMMA DecisionStepType == ASSUME TypeOK, DecisionStep PROVE TypeOK'
  <1>1. decision \in Decision
    BY DEF DecisionStep, ArmReads, Arms, Runs, ArmSaves, NoDecision, TypeOK
  <1>2. decision' \in {NoDecision} \cup Decision
    <2>1. CASE ArmReads
      BY <1>1, <2>1 DEF ArmReads, Binding, Decision, TypeOK
    <2>2. CASE Arms
      BY <1>1, <2>2 DEF Arms, Decision
    <2>3. CASE Runs
      BY <2>3 DEF Runs
    <2> QED BY <2>1, <2>2, <2>3 DEF DecisionStep
  <1>3. row' \in [Experiments -> Row]
    <2>1. decision.exp \in Experiments /\ decision.copy \in Row
      BY <1>1 DEF Decision
    <2>2. "Armed" \in ExperimentStates /\ "Running" \in ExperimentStates
      BY DEF ExperimentStates, Current, Observing
    <2>3. CASE ArmReads
      BY <2>3 DEF ArmReads, TypeOK
    <2>4. CASE Arms \/ Runs
      BY <2>1, <2>2, <2>4, RowParts, RowType DEF Arms, Runs, ArmSaves
    <2> QED BY <2>3, <2>4 DEF DecisionStep
  <1> QED BY <1>2, <1>3 DEF DecisionStep, ArmReads, Arms, Runs, ArmSaves, TypeOK

--------------------------------------------------------------------------------
(* Every step keeps the types *)

\* What holds of the calls a thread begins.
LEMMA BeginIs ==
  ASSUME NEW do \in {"deploy", "refresh", "stopping", "report", "feedback"},
         NEW e \in Experiments, NEW copy \in Row, NEW report \in BOOLEAN
  PROVE  [do |-> do, exp |-> e, copy |-> copy, left |-> {}, started |-> {},
          failed |-> FALSE, report |-> report] \in Work
  BY DEF Work

LEMMA NoBots == \A d \in 1 .. MaxDeploys : {d} \X Instruments \in SUBSET Bots
  BY DEF Bots

LEMMA LaunchStepType == ASSUME TypeOK, NEW t \in Threads, LaunchStep(t) PROVE TypeOK'
  <1> DEFINE c == call[t]
  <1>1. ASSUME NEW e \in Experiments, LaunchReads(t, e) PROVE TypeOK'
    <2>1. row[e] \in Row
      BY DEF TypeOK
    <2>2. call' \in [Threads -> {Quiet} \cup Work]
      BY <1>1, <2>1, BeginIs, CallType DEF LaunchReads, Enter, Begin
    <2> QED BY <1>1, <2>2 DEF LaunchReads, TypeOK
  <1>2. CASE LaunchSaves(t)
    <2>1. c \in Work
      BY <1>2, InWork DEF LaunchSaves, InCall
    <2> DEFINE fresh == {deploys'} \X Instruments
               half == [c.copy EXCEPT !.state = "Preparing"]
               saved == [half EXCEPT !.bots = fresh]
    <2>2. deploys' \in 1 .. MaxDeploys
      BY <1>2, ExperimentAssumption DEF LaunchSaves, TypeOK
    <2>3. fresh \in SUBSET Bots
      BY <2>2, NoBots
    <2>4. half \in Row
      BY <2>1, WorkParts, RowParts DEF ExperimentStates, Current, Observing
    <2>5. /\ bot' = [b \in Bots |-> IF b \in fresh THEN Is("Stopped", FALSE) ELSE bot[b]]
          /\ row' = [row EXCEPT ![c.exp] = saved]
          /\ Continue(t, [c EXCEPT !.do = "start", !.copy = saved, !.left = fresh])
      BY <1>2, Zenon DEF LaunchSaves, Saves
    <2> HIDE DEF fresh, half
    <2>6. saved \in Row
      BY <2>3, <2>4 DEF Row
    <2> HIDE DEF saved, c
    <2>7. [c EXCEPT !.do = "start", !.copy = saved, !.left = fresh] \in Work
      BY <2>1, <2>3, <2>6, SetStart, WorkParts DEF Work
    <2>8. call' \in [Threads -> {Quiet} \cup Work]
      BY <2>5, <2>7, CallType
    <2>9. row' \in [Experiments -> Row]
      BY <2>1, <2>5, <2>6, WorkParts, RowType
    <2>10. bot' \in [Bots -> Bot]
      BY <2>5, BotKinds DEF TypeOK
    <2>11. UNCHANGED <<answered, decision, clock, reports, meddled, spent>>
      BY <1>2, Zenon DEF LaunchSaves
    <2>12. deploys' \in 0 .. MaxDeploys
      BY <2>2
    <2> QED BY <2>8, <2>9, <2>10, <2>11, <2>12 DEF TypeOK
  <1>3. ASSUME NEW b \in Bots, LaunchStarts(t, b) PROVE TypeOK'
    <2>1. c \in Work
      BY <1>3, InWork DEF LaunchStarts, InCall
    <2>2. /\ [c EXCEPT !.left = @ \ {b}, !.started = @ \cup {b}] \in Work
          /\ [c EXCEPT !.do = "rollback"] \in Work
      <3> HIDE DEF c
      <3>1. /\ [c EXCEPT !.left = c.left \ {b}, !.started = c.started \cup {b}] \in Work
            /\ [c EXCEPT !.do = "rollback"] \in Work
        BY <2>1, SetTwo, SetDo, WorkParts DEF Work
      <3>2. [c EXCEPT !.left = @ \ {b}, !.started = @ \cup {b}]
              = [c EXCEPT !.left = c.left \ {b}, !.started = c.started \cup {b}]
        BY <2>1 DEF Work
      <3> QED BY <3>1, <3>2
    <2>3. call' \in [Threads -> {Quiet} \cup Work]
      <3>1. \/ Continue(t, Quiet)
            \/ Continue(t, [c EXCEPT !.left = @ \ {b}, !.started = @ \cup {b}])
            \/ Continue(t, [c EXCEPT !.do = "rollback"])
        BY <1>3, Zenon DEF LaunchStarts, Leave
      <3> HIDE DEF c
      <3> QED BY <2>2, <3>1, CallType
    <2>4. bot' \in [Bots -> Bot]
      <3>1. bot' = [bot EXCEPT ![b] = Is("Running", FALSE)]
            \/ bot' = [bot EXCEPT ![b] = Is("Faulted", FALSE)] \/ bot' = bot
        BY <1>3, Zenon DEF LaunchStarts, Begun, Down
      <3> QED BY <3>1, BotKinds, BotType DEF TypeOK
    <2>5. spent' \in [faults : 0..MaxFaults, commands : 0..MaxUserCommands,
                      crashes : 0..MaxCrashes]
      <3>1. Faults \/ spent' = spent
        BY <1>3, Zenon DEF LaunchStarts
      <3> QED BY <3>1, SpentType DEF TypeOK
    <2> QED BY <1>3, <2>3, <2>4, <2>5 DEF LaunchStarts, TypeOK
  <1>4. ASSUME NEW b \in Bots, RollsBack(t, b) PROVE TypeOK'
    <2>1. c \in Work
      BY <1>4, InWork DEF RollsBack, InCall
    <2>2. [c EXCEPT !.started = @ \ {b}] \in Work
      <3> HIDE DEF c
      <3>1. [c EXCEPT !.started = c.started \ {b}] \in Work
        BY <2>1, SetStarted, WorkParts DEF Work
      <3> QED BY <3>1
    <2>3. call' \in [Threads -> {Quiet} \cup Work]
      <3>1. Continue(t, [c EXCEPT !.started = @ \ {b}])
        BY <1>4, Zenon DEF RollsBack
      <3> HIDE DEF c
      <3> QED BY <2>2, <3>1, CallType
    <2>4. bot' \in [Bots -> Bot]
      <3>1. bot' = [bot EXCEPT ![b] = Is("Stopped", FALSE)]
            \/ bot' = [bot EXCEPT ![b] = Is("Faulted", FALSE)] \/ bot' = bot
        BY <1>4, Zenon DEF RollsBack, Stopped, StopFails, Halted, Down
      <3> QED BY <3>1, BotKinds, BotType DEF TypeOK
    <2>5. spent' \in [faults : 0..MaxFaults, commands : 0..MaxUserCommands,
                      crashes : 0..MaxCrashes]
      <3>1. Faults \/ spent' = spent
        BY <1>4, Zenon DEF RollsBack, Stopped, StopFails
      <3> QED BY <3>1, SpentType DEF TypeOK
    <2> QED BY <1>4, <2>3, <2>4, <2>5 DEF RollsBack, TypeOK
  <1>5. CASE LaunchFails(t)
    <2>1. c \in Work
      BY <1>5, InWork DEF LaunchFails, InCall
    <2>2. row' \in [Experiments -> Row]
      <3>1. row' = [row EXCEPT ![c.exp] = [c.copy EXCEPT !.state = "Incomplete"]]
        BY <1>5, Zenon DEF LaunchFails, Saves
      <3> HIDE DEF c
      <3>2. c.exp \in Experiments /\ [c.copy EXCEPT !.state = "Incomplete"] \in Row
        BY <2>1, WorkParts, RowParts DEF ExperimentStates, Ended
      <3> QED BY <3>1, <3>2, RowType
    <2>3. call' \in [Threads -> {Quiet} \cup Work]
      BY <1>5, CallType DEF LaunchFails, Leave
    <2> QED BY <1>5, <2>2, <2>3 DEF LaunchFails, TypeOK
  <1> QED BY <1>1, <1>2, <1>3, <1>4, <1>5 DEF LaunchStep

LEMMA BeginType ==
  ASSUME TypeOK, NEW t \in Threads, NEW do \in {"deploy", "refresh", "stopping", "report", "feedback"},
         NEW e \in Experiments, NEW copy \in Row, NEW report \in BOOLEAN,
         Begin(t, do, e, copy, report)
  PROVE  call' \in [Threads -> {Quiet} \cup Work]
  BY BeginIs, CallType DEF Begin

LEMMA RefreshType ==
  ASSUME TypeOK, NEW t \in Threads, NEW e \in Experiments, NEW report \in BOOLEAN,
         Refresh(t, e, report) \/ Stop(t, e, report)
  PROVE  TypeOK'
  <1>1. row[e] \in Row
    BY DEF TypeOK
  <1>2. [row[e] EXCEPT !.state = "Stopping"] \in Row
    BY <1>1, RowParts DEF ExperimentStates, Current
  <1>3. call' \in [Threads -> {Quiet} \cup Work]
    BY <1>1, <1>2, BeginType DEF Refresh, Stop
  <1> QED BY <1>3 DEF Refresh, Stop, TypeOK

LEMMA StopStepType == ASSUME TypeOK, NEW t \in Threads, StopStep(t) PROVE TypeOK'
  <1> DEFINE c == call[t]
  <1>1. ASSUME NEW e \in Experiments, RefreshReads(t, e) \/ StopReads(t, e) PROVE TypeOK'
    BY <1>1, RefreshType DEF RefreshReads, StopReads
  <1>2. CASE RefreshSaves(t)
    <2>1. c \in Work
      BY <1>2, InWork DEF RefreshSaves, InCall
    <2>2. row' \in [Experiments -> Row]
      BY <1>2, <2>1, WorkParts, RowType DEF RefreshSaves, Saves
    <2>3. call' \in [Threads -> {Quiet} \cup Work]
      <3>1. Continue(t, [c EXCEPT !.do = "report"]) \/ Continue(t, Quiet)
        BY <1>2, Zenon DEF RefreshSaves, Leave
      <3> HIDE DEF c
      <3>2. [c EXCEPT !.do = "report"] \in Work
        BY <2>1, SetDo, WorkParts DEF Work
      <3> QED BY <3>1, <3>2, CallType
    <2> QED BY <1>2, <2>2, <2>3 DEF RefreshSaves, TypeOK
  <1>3. CASE StopSaves(t)
    <2>1. c \in Work
      BY <1>3, InWork DEF StopSaves, InCall
    <2>2. row' \in [Experiments -> Row]
      BY <1>3, <2>1, WorkParts, RowType DEF StopSaves, Saves
    <2>3. call' \in [Threads -> {Quiet} \cup Work]
      <3> DEFINE failed == (c.copy.bots = {})
      <3>1. Continue(t, [c EXCEPT !.do = "stop", !.left = c.copy.bots, !.failed = failed])
        BY <1>3, Zenon DEF StopSaves
      <3>2. failed \in BOOLEAN
        OBVIOUS
      <3> HIDE DEF c, failed
      <3>3. c.copy.bots \subseteq Bots
        BY <2>1, WorkParts DEF Row
      <3>4. [c EXCEPT !.do = "stop", !.left = c.copy.bots, !.failed = failed] \in Work
        BY <2>1, <3>2, <3>3, SetStop, WorkParts DEF Work
      <3> QED BY <3>1, <3>4, CallType
    <2> QED BY <1>3, <2>2, <2>3 DEF StopSaves, TypeOK
  <1>4. ASSUME NEW b \in Bots, StopsBot(t, b) PROVE TypeOK'
    <2>1. c \in Work
      BY <1>4, InWork DEF StopsBot, InCall
    <2>2. call' \in [Threads -> {Quiet} \cup Work]
      <3> DEFINE replayed == c.failed \/ (bot[b].state # "Stopped" /\ answered[b] = "failed")
      <3>1. \/ Continue(t, [c EXCEPT !.left = @ \ {b}, !.failed = @ \/ (bot[b].state # "Stopped" /\ answered[b] = "failed")])
            \/ Continue(t, [c EXCEPT !.left = @ \ {b}])
            \/ Continue(t, [c EXCEPT !.left = @ \ {b}, !.failed = TRUE])
        BY <1>4, Zenon DEF StopsBot
      <3>2. replayed \in BOOLEAN
        BY <2>1, WorkParts
      <3>3. [c EXCEPT !.left = @ \ {b}, !.failed = @ \/ (bot[b].state # "Stopped" /\ answered[b] = "failed")]
              = [c EXCEPT !.left = c.left \ {b}, !.failed = replayed]
        <4> HIDE DEF c
        <4> QED BY <2>1 DEF Work
      <3> HIDE DEF replayed, c
      <3>4. /\ [c EXCEPT !.left = c.left \ {b}, !.failed = replayed] \in Work
            /\ [c EXCEPT !.left = c.left \ {b}, !.failed = TRUE] \in Work
        BY <2>1, <3>2, SetFailed, WorkParts DEF Work
      <3>5. [c EXCEPT !.left = @ \ {b}] \in Work
        BY <2>1, SetLeft, WorkParts DEF Work
      <3>6. [c EXCEPT !.left = @ \ {b}, !.failed = TRUE]
              = [c EXCEPT !.left = c.left \ {b}, !.failed = TRUE]
        OBVIOUS
      <3> QED BY <3>1, <3>3, <3>4, <3>5, <3>6, CallType
    <2>3. bot' \in [Bots -> Bot]
      <3>1. bot' = [bot EXCEPT ![b] = Is("Stopped", FALSE)]
            \/ bot' = [bot EXCEPT ![b] = Is("Faulted", FALSE)] \/ bot' = bot
        BY <1>4, Zenon DEF StopsBot, Stopped, StopFails, Halted, Down
      <3> QED BY <3>1, BotKinds, BotType DEF TypeOK
    <2>4. spent' \in [faults : 0..MaxFaults, commands : 0..MaxUserCommands,
                      crashes : 0..MaxCrashes]
      <3>1. Faults \/ spent' = spent
        BY <1>4, Zenon DEF StopsBot, Stopped, StopFails
      <3> QED BY <3>1, SpentType DEF TypeOK
    <2>5. answered' \in [Bots -> {"none", "stopped", "failed"}]
      <3>1. \/ answered' = [answered EXCEPT ![b] = "stopped"]
            \/ answered' = [answered EXCEPT ![b] = "failed"] \/ answered' = answered
        BY <1>4, Zenon DEF StopsBot
      <3> QED BY <3>1 DEF TypeOK
    <2> QED BY <1>4, <2>2, <2>3, <2>4, <2>5 DEF StopsBot, TypeOK
  <1>5. CASE StopEnds(t)
    <2>1. c \in Work
      BY <1>5, InWork DEF StopEnds, InCall
    <2>2. row' \in [Experiments -> Row]
      <3>1. PICK state \in Ended : row' = [row EXCEPT ![c.exp] = [c.copy EXCEPT !.state = state]]
        BY <1>5, Zenon DEF StopEnds, Saves
      <3> HIDE DEF c
      <3>2. c.exp \in Experiments /\ [c.copy EXCEPT !.state = state] \in Row
        BY <2>1, WorkParts, RowParts, States
      <3> QED BY <3>1, <3>2, RowType
    <2>3. call' \in [Threads -> {Quiet} \cup Work]
      <3>1. Continue(t, [c EXCEPT !.do = "report"]) \/ Continue(t, Quiet)
        BY <1>5, Zenon DEF StopEnds, Leave
      <3> HIDE DEF c
      <3>2. [c EXCEPT !.do = "report"] \in Work
        BY <2>1, SetDo, WorkParts DEF Work
      <3> QED BY <3>1, <3>2, CallType
    <2> QED BY <1>5, <2>2, <2>3 DEF StopEnds, TypeOK
  <1> QED BY <1>1, <1>2, <1>3, <1>4, <1>5 DEF StopStep

LEMMA ReportStepType == ASSUME TypeOK, NEW t \in Threads, ReportStep(t) PROVE TypeOK'
  <1> DEFINE c == call[t]
  <1>1. ASSUME NEW e \in Experiments, ReportReads(t, e) PROVE TypeOK'
    <2>1. CASE Refresh(t, e, TRUE) \/ Stop(t, e, TRUE)
      BY <2>1, RefreshType
    <2>2. CASE ~(Refresh(t, e, TRUE) \/ Stop(t, e, TRUE))
      <3>1. /\ Begin(t, "report", e, row[e], FALSE)
            /\ UNCHANGED <<row, bot, answered, decision, clock, deploys, reports, meddled, spent>>
        BY <1>1, <2>2, Zenon DEF ReportReads, Enter
      <3>2. row[e] \in Row
        BY DEF TypeOK
      <3>3. call' \in [Threads -> {Quiet} \cup Work]
        BY <3>1, <3>2, BeginType
      <3> QED BY <3>1, <3>3 DEF TypeOK
    <2> QED BY <2>1, <2>2
  <1>2. ASSUME NEW e \in Experiments, FeedbackReads(t, e) PROVE TypeOK'
    <2>1. row[e] \in Row
      BY DEF TypeOK
    <2>2. call' \in [Threads -> {Quiet} \cup Work]
      BY <1>2, <2>1, BeginType DEF FeedbackReads, Enter
    <2> QED BY <1>2, <2>2 DEF FeedbackReads, TypeOK
  <1>3. CASE ReportTakes(t)
    <2>1. c \in Work
      BY <1>3, InWork DEF ReportTakes, InCall
    <2> DEFINE now == row[c.exp]
    <2>2. now \in Row
      BY <2>1, WorkParts DEF TypeOK
    <2>3. call' \in [Threads -> {Quiet} \cup Work]
      <3>1. Continue(t, [c EXCEPT !.do = "link", !.copy = now]) \/ Continue(t, Quiet)
        BY <1>3, Zenon DEF ReportTakes, Leave
      <3> HIDE DEF c, now
      <3>2. [c EXCEPT !.do = "link", !.copy = now] \in Work
        BY <2>1, <2>2, SetLink, WorkParts DEF Work
      <3> QED BY <3>1, <3>2, CallType
    <2> QED BY <1>3, <2>3 DEF ReportTakes, TypeOK
  <1>4. CASE ReportSaves(t)
    <2>1. c \in Work
      BY <1>4, InWork DEF ReportSaves, InCall
    <2>2. reports' \in 0 .. MaxReports
      BY <1>4, ExperimentAssumption DEF ReportSaves, TypeOK
    <2>3. row' = [row EXCEPT ![c.exp] = [c.copy EXCEPT !.report = reports']]
          /\ call' = [call EXCEPT ![t] = Quiet]
      BY <1>4, Zenon DEF ReportSaves, Saves, Leave, Continue
    <2> HIDE DEF c
    <2>4. c.exp \in Experiments /\ [c.copy EXCEPT !.report = reports'] \in Row
      BY <2>1, <2>2, WorkParts DEF Row
    <2>5. row' \in [Experiments -> Row]
      BY <2>3, <2>4, RowType
    <2>6. call' \in [Threads -> {Quiet} \cup Work]
      BY <2>3 DEF TypeOK
    <2> QED BY <1>4, <2>2, <2>5, <2>6 DEF ReportSaves, TypeOK
  <1>5. CASE FeedbackSaves(t)
    <2>1. c \in Work
      BY <1>5, InWork DEF FeedbackSaves, InCall
    <2>2. row' = [row EXCEPT ![c.exp] = [c.copy EXCEPT !.feedback = TRUE]]
          /\ call' = [call EXCEPT ![t] = Quiet]
      BY <1>5, Zenon DEF FeedbackSaves, Saves, Leave, Continue
    <2> HIDE DEF c
    <2>3. c.exp \in Experiments /\ [c.copy EXCEPT !.feedback = TRUE] \in Row
      BY <2>1, WorkParts DEF Row
    <2>4. row' \in [Experiments -> Row]
      BY <2>2, <2>3, RowType
    <2>5. call' \in [Threads -> {Quiet} \cup Work]
      BY <2>2 DEF TypeOK
    <2> QED BY <1>5, <2>4, <2>5 DEF FeedbackSaves, TypeOK
  <1> QED BY <1>1, <1>2, <1>3, <1>4, <1>5 DEF ReportStep

LEMMA InitType == ASSUME Init PROVE TypeOK
  <1>1. row \in [Experiments -> Row] /\ bot \in [Bots -> Bot]
    BY BotKinds DEF Init
  <1>2. /\ answered \in [Bots -> {"none", "stopped", "failed"}]
        /\ call \in [Threads -> {Quiet} \cup Work]
    BY DEF Init
  <1>3. spent \in [faults : 0..MaxFaults, commands : 0..MaxUserCommands,
                   crashes : 0..MaxCrashes]
    BY ExperimentAssumption DEF Init
  <1>4. /\ decision = NoDecision /\ clock = "before" /\ meddled = FALSE
        /\ deploys \in 0 .. MaxDeploys /\ reports \in 0 .. MaxReports
    BY ExperimentAssumption DEF Init
  <1> QED BY <1>1, <1>2, <1>3, <1>4 DEF TypeOK

\* Every record of the experiment has its type in every reachable state, for any number
\* of experiments, instruments and overlapping calls: no copy written back, and no step
\* of a launch or a stop, makes an ill-formed row (the rows of paper_experiment.rs).
THEOREM ExperimentTypeCorrect == Spec => []TypeOK
  <1>1. Init => TypeOK
    BY InitType
  <1>2. TypeOK /\ [Next]_vars => TypeOK'
    <2> SUFFICES ASSUME TypeOK, [Next]_vars PROVE TypeOK'
      OBVIOUS
    <2>1. ASSUME NEW e \in Experiments, Create(e) PROVE TypeOK'
      <3>1. row[e] \in Row
        BY DEF TypeOK
      <3>2. row' = [row EXCEPT ![e] = [row[e] EXCEPT !.state = "Draft"]]
        BY <2>1, Zenon DEF Create
      <3>3. row' \in [Experiments -> Row]
        BY <3>1, <3>2, RowParts, RowType, States
      <3> QED BY <2>1, <3>3 DEF Create, TypeOK
    <2>2. ASSUME NEW t \in Threads, GivesUp(t) PROVE TypeOK'
      <3>1. call' \in [Threads -> {Quiet} \cup Work]
        BY <2>2, CallType DEF GivesUp, Leave
      <3> QED BY <2>2, <3>1 DEF GivesUp, TypeOK
    <2>3. CASE Tick
      BY <2>3 DEF Tick, TypeOK
    <2>4. CASE Restart
      <3>1. bot' \in [Bots -> Bot]
        BY <2>4, BotKinds DEF Restart, TypeOK
      <3>2. spent' \in [faults : 0..MaxFaults, commands : 0..MaxUserCommands,
                        crashes : 0..MaxCrashes]
        BY <2>4, SpentType DEF Restart
      <3> QED BY <2>4, <3>1, <3>2 DEF Restart, TypeOK
    <2>5. CASE UNCHANGED vars
      BY <2>5 DEF vars, TypeOK
    <2> QED BY <2>1, <2>2, <2>3, <2>4, <2>5, BotStepType, DecisionStepType, LaunchStepType,
               StopStepType, ReportStepType DEF Next
  <1> QED BY <1>1, <1>2, PTL DEF Spec

--------------------------------------------------------------------------------
(* The invariant of stopping: what is up in an attempt a launch began, and who knows it *)

\* Calls of the user interface one at a time, as in the run experiment.  The page does not
\* promise it: its timer refreshes while a button's call is pending, and the run
\* experiment_refresh shows what an overlapping call loses.
OneThread == \A t, u \in Threads : t = u

\* A Bot up in the attempt its launch began.
Launched(b) == bot[b].state \in Up /\ ~bot[b].user

Untouched == {"None", "Draft"}
Arming == decision.do \in {"arm", "run"}
In(t, steps) == call[t].do \in steps
Launches == {"start", "rollback"}
Rewrites == {"refresh", "stopping", "stop", "link", "feedback"}

\* Bots not deployed yet are in no row and have no history.
BotsFresh ==
  \A b \in Bots : b[1] > deploys =>
    /\ bot[b].state = "None" /\ answered[b] = "none"
    /\ \A e \in Experiments : b \notin row[e].bots

\* No two experiments share a Bot.
BotsApart ==
  \A e, f \in Experiments : e # f => row[e].bots \cap row[f].bots = {}

\* A report belongs to an experiment that was launched.
ReportsLater == \A e \in Experiments : row[e].state \in Untouched => row[e].report = 0

\* A copy of a row that will be written back names the Bots of the row.
DecisionKnows ==
  Arming => LET e == decision.exp
            IN  /\ decision.copy.bots = row[e].bots /\ row[e].state \notin Untouched
                /\ decision.bot \in row[e].bots
                /\ \A b \in row[e].bots : bot[b].state \in Up \cup {"Faulted"}

CallKnows(t) ==
  LET e == call[t].exp
      copy == call[t].copy
  IN  /\ In(t, {"deploy"}) => row[e].state = "Draft" /\ call[t].started = {}
      /\ In(t, Launches \cup Rewrites) => copy.bots = row[e].bots
      /\ In(t, Rewrites) => row[e].state \notin Untouched /\ copy.state \notin Untouched
      /\ In(t, Launches) => row[e].state \in Observing

\* The attempts a launch began are those it would roll back.
LaunchRemembers(t) ==
  In(t, Launches) =>
    /\ call[t].left \subseteq call[t].copy.bots /\ call[t].started \subseteq call[t].copy.bots
    /\ \A b \in call[t].left : answered[b] = "none"
    /\ \A b \in call[t].copy.bots : Launched(b) => b \in call[t].started

\* A stop has dealt with the Bots it no longer waits for.
StopRemembers(t) ==
  In(t, {"stop"}) =>
    /\ call[t].left \subseteq call[t].copy.bots
    /\ \A b \in call[t].copy.bots \ call[t].left : ~Launched(b)

\* A Bot whose stop was answered is not in the attempt its launch began.
AnsweredStay == \A b \in Bots : answered[b] # "none" => ~Launched(b)

EndedCopies(t) ==
  In(t, Rewrites) /\ call[t].copy.state \in Ended =>
    \A b \in call[t].copy.bots : ~Launched(b)

CallSound(t) ==
  CallKnows(t) /\ LaunchRemembers(t) /\ StopRemembers(t) /\ EndedCopies(t)

StopInv ==
  /\ TypeOK /\ BotsFresh /\ BotsApart /\ ReportsLater /\ DecisionKnows /\ AnsweredStay
  /\ \A t \in Threads : CallSound(t)
  /\ EndedMeansStopped

\* A call that neither holds a copy nor launches is sound.
LEMMA CallQuiet ==
  ASSUME NEW t, call'[t].do \in {"none", "report"} PROVE CallSound(t)'
  BY DEF CallSound, CallKnows, LaunchRemembers, StopRemembers, EndedCopies, In, Launches, Rewrites

\* A step that begins no attempt.
LEMMA Settle ==
  ASSUME StopInv, TypeOK', deploys' = deploys,
         \A b \in Bots : Launched(b)' => Launched(b),
         \A b \in Bots : b[1] > deploys => bot'[b].state = "None" /\ answered'[b] = "none",
         \A e \in Experiments :
           /\ row'[e].bots = row[e].bots
           /\ row'[e].state \in Untouched => row'[e].report = 0
           /\ row'[e].state \in Ended /\ row[e].state \notin Ended =>
                \A b \in row[e].bots : ~Launched(b)',
         AnsweredStay', DecisionKnows', \A t \in Threads : CallSound(t)'
  PROVE  StopInv'
  <1>1. BotsFresh' /\ BotsApart' /\ ReportsLater'
    BY DEF StopInv, BotsFresh, BotsApart, ReportsLater
  <1>2. EndedMeansStopped'
    <2>1. \A e \in Experiments : row[e].bots \subseteq Bots
      BY DEF StopInv, TypeOK, Row
    <2>2. \A e \in Experiments : row[e].state \in Ended => \A b \in row[e].bots : ~Launched(b)
      BY DEF StopInv, EndedMeansStopped, Launched
    <2>3. \A e \in Experiments : row'[e].state \in Ended => \A b \in row'[e].bots : ~Launched(b)'
      BY <2>1, <2>2
    <2> QED BY <2>3 DEF EndedMeansStopped, Launched
  <1> QED BY <1>1, <1>2 DEF StopInv

\* The only call.
LEMMA TheCall ==
  ASSUME OneThread, NEW t \in Threads, CallSound(t)' PROVE \A u \in Threads : CallSound(u)'
  BY DEF OneThread

\* Steps of the Bots and of decisions that leave rows, calls and answers alone.
LEMMA BotsMove ==
  ASSUME StopInv, TypeOK', UNCHANGED <<row, call, answered, deploys>>,
         \A b \in Bots : Launched(b)' => Launched(b),
         \A b \in Bots : bot[b].state = "None" => bot'[b].state = "None",
         DecisionKnows'
  PROVE  StopInv'
  <1>1. \A b \in Bots : b[1] > deploys => bot'[b].state = "None" /\ answered'[b] = "none"
    BY DEF StopInv, BotsFresh
  <1>2. AnsweredStay'
    BY DEF StopInv, AnsweredStay
  <1>3. ASSUME NEW t \in Threads PROVE CallSound(t)'
    <2>1. In(t, Launches \cup Rewrites) => call[t] \in Work /\ call[t].copy.bots \subseteq Bots
      BY InWork, WorkParts, RowParts DEF StopInv, In, Launches, Rewrites, Row
    <2>2. CallSound(t)
      BY DEF StopInv
    <2>3. CallKnows(t)'
      BY <2>2 DEF CallSound, CallKnows, In
    <2>4. LaunchRemembers(t)'
      BY <2>1, <2>2 DEF CallSound, LaunchRemembers, In, Launches, Rewrites
    <2>5. StopRemembers(t)' /\ EndedCopies(t)'
      BY <2>1, <2>2 DEF CallSound, StopRemembers, EndedCopies, In, Launches, Rewrites
    <2> QED BY <2>3, <2>4, <2>5 DEF CallSound
  <1>4. \A e \in Experiments : row[e].state \in Untouched => row[e].report = 0
    BY DEF StopInv, ReportsLater
  <1> QED BY <1>1, <1>2, <1>3, <1>4, Settle

--------------------------------------------------------------------------------
(* Stopping: steps of the Bots, of the decisions and of the host *)

LEMMA DecisionBots ==
  ASSUME TypeOK, Arming
  PROVE  /\ decision \in Decision /\ decision.exp \in Experiments
         /\ decision.copy \in Row /\ decision.bot \in Bots
         /\ \A state : [decision.copy EXCEPT !.state = state]
              = [state |-> state, bots |-> decision.copy.bots, report |-> decision.copy.report,
                 feedback |-> decision.copy.feedback]
  <1>1. decision \in Decision
    BY DEF TypeOK, Arming, NoDecision
  <1>2. decision.exp \in Experiments /\ decision.copy \in Row /\ decision.bot \in Bots
    BY <1>1 DEF Decision
  <1> QED BY <1>1, <1>2, SetRow

LEMMA BotStepSafe == ASSUME StopInv, TypeOK', BotStep PROVE StopInv'
  <1> USE DEF Is
  <1>1. ASSUME NEW b \in Bots, BotFaults(b) PROVE StopInv'
    <2>1. /\ bot[b].state \in Up /\ bot' = [bot EXCEPT ![b] = Is("Faulted", FALSE)]
          /\ UNCHANGED <<row, call, answered, deploys, decision>>
      BY <1>1 DEF BotFaults, Down
    <2>2. \A x \in Bots : /\ Launched(x)' => Launched(x)
                          /\ bot[x].state = "None" => bot'[x].state = "None"
      BY <2>1 DEF Launched, Up, StopInv, TypeOK
    <2>3. DecisionKnows'
      BY <2>1 DEF StopInv, TypeOK, DecisionKnows, Arming
    <2> QED BY <2>1, <2>2, <2>3, BotsMove
  <1>2. ASSUME NEW b \in Bots, UserCommand(b) PROVE StopInv'
    <2>1. decision = NoDecision /\ UNCHANGED <<row, call, answered, deploys, decision>>
      BY <1>2 DEF UserCommand, ControlFree
    <2>2. \A x \in Bots : /\ Launched(x)' => Launched(x)
                          /\ bot[x].state = "None" => bot'[x].state = "None"
      BY <1>2 DEF UserCommand, Begun, Halted, Launched, Up, StopInv, TypeOK
    <2>3. DecisionKnows'
      BY <2>1 DEF DecisionKnows, Arming, NoDecision
    <2> QED BY <2>1, <2>2, <2>3, BotsMove
  <1>3. ASSUME NEW b \in Bots, Decides(b) PROVE StopInv'
    <2>1. /\ bot[b].state = "Running" /\ bot' = [bot EXCEPT ![b] = [bot[b] EXCEPT !.warm = TRUE]]
          /\ decision'.do = "decide"
          /\ UNCHANGED <<row, call, answered, deploys>>
      BY <1>3 DEF Decides
    <2>2. \A x \in Bots : bot'[x].state = bot[x].state /\ bot'[x].user = bot[x].user
      BY <2>1 DEF StopInv, TypeOK, Bot
    <2>3. DecisionKnows'
      BY <2>1 DEF DecisionKnows, Arming
    <2>4. \A x \in Bots : Launched(x)' => Launched(x)
      BY <2>2 DEF Launched
    <2> QED BY <2>1, <2>2, <2>3, <2>4, BotsMove
  <1> QED BY <1>1, <1>2, <1>3 DEF BotStep

LEMMA DecisionStepSafe == ASSUME StopInv, TypeOK', DecisionStep PROVE StopInv'
  <1>1. CASE ArmReads
    <2>1. UNCHANGED <<row, bot, call, answered, deploys>>
      BY <1>1 DEF ArmReads
    <2>2. DecisionKnows'
      <3>1. CASE decision' = NoDecision
        BY <3>1 DEF DecisionKnows, Arming, NoDecision
      <3>2. CASE decision' # NoDecision
        <4>1. PICK e \in Binding(decision.bot) :
                /\ row[e].state = "Preparing" /\ AllWarm(row[e].bots)
                /\ decision' = [do |-> "arm", bot |-> decision.bot, exp |-> e, copy |-> row[e]]
          BY <1>1, <3>2 DEF ArmReads
        <4>2. decision.bot \in row[e].bots /\ row[e].state \notin Untouched
              /\ \A b \in row[e].bots : bot[b].state = "Running"
          BY <4>1 DEF Binding, AllWarm, Untouched
        <4> QED BY <2>1, <4>1, <4>2 DEF DecisionKnows, Up
      <3> QED BY <3>1, <3>2
    <2>3. \A b \in Bots : Launched(b)' => Launched(b)
      BY <2>1 DEF Launched
    <2> QED BY <2>1, <2>2, <2>3, BotsMove
  <1>2. CASE Arms \/ Runs
    <2> DEFINE e == decision.exp
    <2>1. Arming /\ UNCHANGED <<bot, call, answered, deploys>>
      BY <1>2 DEF Arms, Runs, ArmSaves, Arming
    <2>2. decision \in Decision /\ e \in Experiments
      BY <2>1, DecisionBots DEF StopInv
    <2>3. PICK state \in {"Armed", "Running"} :
            row' = [row EXCEPT ![e] = [decision.copy EXCEPT !.state = state]]
      BY <1>2 DEF Arms, Runs, ArmSaves
    <2>4. /\ row[e].state \notin Untouched /\ decision.copy.bots = row[e].bots
          /\ decision.bot \in row[e].bots
          /\ \A b \in row[e].bots : bot[b].state \in Up \cup {"Faulted"}
      BY <2>1 DEF StopInv, DecisionKnows
    <2>5. /\ row'[e].state = state /\ row'[e].bots = row[e].bots
          /\ \A f \in Experiments : f # e => row'[f] = row[f]
      BY <2>1, <2>2, <2>3, <2>4, DecisionBots DEF StopInv, TypeOK
    <2>6. state \notin Untouched /\ state \notin Ended /\ state \in Observing /\ "Draft" \in Untouched
      BY DEF Untouched, Ended, Observing
    <2>7. DecisionKnows'
      <3>1. CASE Runs
        BY <3>1 DEF Runs, DecisionKnows, Arming, NoDecision
      <3>2. CASE Arms
        <4>1. decision' = [decision EXCEPT !.do = "run"]
          BY <3>2 DEF Arms
        <4>2. decision'.exp = e /\ decision'.copy = decision.copy /\ decision'.bot = decision.bot
          BY <2>2, <4>1 DEF Decision
        <4> HIDE DEF e
        <4> QED BY <2>1, <2>4, <2>5, <2>6, <4>2 DEF DecisionKnows, e
      <3> QED BY <1>2, <3>1, <3>2
    <2>8. ASSUME NEW t \in Threads PROVE CallSound(t)'
      <3>1. CallSound(t)
        BY DEF StopInv
      <3>2. In(t, {"deploy"} \cup Launches \cup Rewrites) => call[t] \in Work /\ call[t].exp \in Experiments
        BY InWork, WorkParts DEF StopInv, In, Launches, Rewrites
      <3> HIDE DEF e
      <3>3. CallKnows(t)'
        BY <2>1, <2>4, <2>5, <2>6, <3>1, <3>2 DEF CallSound, CallKnows, In, Launches, Rewrites
      <3>4. LaunchRemembers(t)' /\ StopRemembers(t)' /\ EndedCopies(t)'
        BY <2>1, <3>1 DEF CallSound, LaunchRemembers, StopRemembers, EndedCopies, In, Launched
      <3> QED BY <3>3, <3>4 DEF CallSound
    <2>9. AnsweredStay' /\ \A b \in Bots : Launched(b)' => Launched(b)
      BY <2>1 DEF StopInv, AnsweredStay, Launched
    <2>10. \A b \in Bots : b[1] > deploys => bot'[b].state = "None" /\ answered'[b] = "none"
      BY <2>1 DEF StopInv, BotsFresh
    <2>11. \A f \in Experiments :
             /\ row'[f].bots = row[f].bots
             /\ row'[f].state \in Untouched => row'[f].report = 0
             /\ row'[f].state \in Ended /\ row[f].state \notin Ended =>
                  \A b \in row[f].bots : ~Launched(b)'
      <3> HIDE DEF e
      <3> QED BY <2>5, <2>6 DEF StopInv, ReportsLater
    <2> QED BY <2>1, <2>7, <2>8, <2>9, <2>10, <2>11, Settle
  <1> QED BY <1>1, <1>2 DEF DecisionStep

LEMMA HostSafe ==
  ASSUME StopInv, TypeOK', Tick \/ Restart \/ \E e \in Experiments : Create(e)
  PROVE  StopInv'
  <1>1. CASE Tick
    <2>1. UNCHANGED <<row, bot, call, answered, deploys, decision>>
      BY <1>1 DEF Tick
    <2>2. DecisionKnows' /\ \A b \in Bots : Launched(b)' => Launched(b)
      BY <2>1 DEF StopInv, DecisionKnows, Arming, Launched
    <2> QED BY <2>1, <2>2, BotsMove
  <1>2. CASE Restart
    <2>1. /\ UNCHANGED <<row, answered, deploys>> /\ decision' = NoDecision
          /\ call' = [t \in Threads |-> Quiet]
          /\ \A b \in Bots : bot'[b] = IF bot[b].state \in Up THEN Is("Faulted", FALSE) ELSE bot[b]
      BY <1>2 DEF Restart
    <2>2. \A b \in Bots : ~Launched(b)' /\ (bot[b].state = "None" => bot'[b].state = "None")
      BY <2>1 DEF Launched, Is, Up
    <2>3. DecisionKnows'
      BY <2>1 DEF DecisionKnows, Arming, NoDecision
    <2>4. \A t \in Threads : CallSound(t)'
      BY <2>1, CallQuiet DEF Quiet
    <2>5. \A b \in Bots : b[1] > deploys => bot'[b].state = "None" /\ answered'[b] = "none"
      BY <2>1, <2>2 DEF StopInv, BotsFresh
    <2>6. AnsweredStay' /\ \A e \in Experiments : row[e].bots \subseteq Bots
      BY <2>2 DEF AnsweredStay, StopInv, TypeOK, Row
    <2>7. \A e \in Experiments : row[e].state \in Untouched => row[e].report = 0
      BY DEF StopInv, ReportsLater
    <2> QED BY <2>1, <2>2, <2>3, <2>4, <2>5, <2>6, <2>7, Settle
  <1>3. ASSUME NEW e \in Experiments, Create(e) PROVE StopInv'
    <2>1. /\ row[e].state = "None" /\ row' = [row EXCEPT ![e] = [row[e] EXCEPT !.state = "Draft"]]
          /\ UNCHANGED <<bot, call, answered, deploys, decision>>
      BY <1>3, Zenon DEF Create
    <2>2. row \in [Experiments -> Row] /\ row[e] \in Row
      BY DEF StopInv, TypeOK
    <2>3. /\ row'[e].state = "Draft" /\ row'[e].bots = row[e].bots /\ row'[e].report = row[e].report
          /\ \A f \in Experiments : f # e => row'[f] = row[f]
      BY <2>1, <2>2, SetRow
    <2>4. "Draft" \in Untouched /\ "None" \in Untouched /\ "Draft" \notin Ended
          /\ "None" \notin Observing
      BY DEF Untouched, Ended, Observing
    <2>5. DecisionKnows'
      BY <2>1, <2>3, <2>4 DEF StopInv, DecisionKnows, Arming
    <2>6. ASSUME NEW t \in Threads PROVE CallSound(t)'
      <3>1. CallSound(t)
        BY DEF StopInv
      <3>2. CallKnows(t)'
        BY <2>1, <2>3, <2>4, <3>1 DEF CallSound, CallKnows, In
      <3>3. LaunchRemembers(t)' /\ StopRemembers(t)' /\ EndedCopies(t)'
        BY <2>1, <3>1 DEF CallSound, LaunchRemembers, StopRemembers, EndedCopies, In, Launched
      <3> QED BY <3>2, <3>3 DEF CallSound
    <2>7. AnsweredStay' /\ \A b \in Bots : Launched(b)' => Launched(b)
      BY <2>1 DEF StopInv, AnsweredStay, Launched
    <2>8. \A b \in Bots : b[1] > deploys => bot'[b].state = "None" /\ answered'[b] = "none"
      BY <2>1 DEF StopInv, BotsFresh
    <2>9. \A f \in Experiments :
             /\ row'[f].bots = row[f].bots
             /\ row'[f].state \in Untouched => row'[f].report = 0
             /\ row'[f].state \in Ended /\ row[f].state \notin Ended =>
                  \A b \in row[f].bots : ~Launched(b)'
      BY <2>1, <2>3, <2>4 DEF StopInv, ReportsLater
    <2> QED BY <2>1, <2>5, <2>6, <2>7, <2>8, <2>9, Settle
  <1> QED BY <1>1, <1>2, <1>3

--------------------------------------------------------------------------------
(* Stopping: calls that read, and calls that write a row back *)

\* A step of a call that leaves rows and Bots alone.
LEMMA CallMoves ==
  ASSUME StopInv, TypeOK', OneThread, NEW t \in Threads, CallSound(t)',
         UNCHANGED <<row, bot, answered, decision, deploys>>
  PROVE  StopInv'
  <1>1. AnsweredStay' /\ DecisionKnows' /\ \A b \in Bots : Launched(b)' => Launched(b)
    BY DEF StopInv, AnsweredStay, DecisionKnows, Arming, Launched
  <1>2. \A b \in Bots : b[1] > deploys => bot'[b].state = "None" /\ answered'[b] = "none"
    BY DEF StopInv, BotsFresh
  <1>3. \A e \in Experiments : row[e].state \in Untouched => row[e].report = 0
    BY DEF StopInv, ReportsLater
  <1> QED BY <1>1, <1>2, <1>3, TheCall, Settle

\* A call that writes a row back, with the Bots it has.
LEMMA CallWrites ==
  ASSUME StopInv, TypeOK', OneThread, NEW t \in Threads, CallSound(t)',
         NEW e \in Experiments, NEW r, row' = [row EXCEPT ![e] = r],
         r.bots = row[e].bots, r.state \notin Untouched,
         r.state \in Ended => \A b \in r.bots : ~Launched(b),
         UNCHANGED <<bot, answered, decision, deploys>>
  PROVE  StopInv'
  <1>1. AnsweredStay' /\ \A b : Launched(b)' <=> Launched(b)
    BY DEF StopInv, AnsweredStay, Launched
  <1>2. row'[e] = r /\ \A f \in Experiments : f # e => row'[f] = row[f]
    BY DEF StopInv, TypeOK
  <1>3. DecisionKnows'
    <2>1. Arming => decision.exp \in Experiments
      BY DecisionBots DEF StopInv
    <2> QED BY <1>2, <2>1 DEF StopInv, DecisionKnows, Arming
  <1>4. \A b \in Bots : b[1] > deploys => bot'[b].state = "None" /\ answered'[b] = "none"
    BY DEF StopInv, BotsFresh
  <1>5. \A f \in Experiments :
          /\ row'[f].bots = row[f].bots
          /\ row'[f].state \in Untouched => row'[f].report = 0
          /\ row'[f].state \in Ended /\ row[f].state \notin Ended =>
               \A b \in row[f].bots : ~Launched(b)'
    BY <1>1, <1>2 DEF StopInv, ReportsLater
  <1> QED BY <1>1, <1>3, <1>4, <1>5, TheCall, Settle

\* What a thread begins to do is what call' says.
LEMMA NowIn ==
  ASSUME TypeOK, NEW t \in Threads, NEW c, Continue(t, c) PROVE call'[t] = c
  BY DEF Continue, TypeOK

LEMMA NowDoes ==
  ASSUME TypeOK, NEW t \in Threads, NEW c \in Work, NEW do, Continue(t, [c EXCEPT !.do = do])
  PROVE  call'[t].do = do
  <1>1. call'[t] = [c EXCEPT !.do = do]
    BY NowIn
  <1>2. [c EXCEPT !.do = do].do = do
    BY SetDo
  <1> QED BY <1>1, <1>2

LEMMA LeftIs == ASSUME TypeOK, NEW t \in Threads, Leave(t) PROVE call'[t].do = "none"
  BY NowIn DEF Leave, Quiet

LEMMA ReadSafe ==
  ASSUME StopInv, TypeOK', OneThread, NEW t \in Threads, NEW e \in Experiments,
         NEW do \in {"deploy", "refresh", "stopping", "report", "feedback"}, NEW copy,
         NEW report, Begin(t, do, e, copy, report),
         UNCHANGED <<row, bot, answered, decision, deploys>>,
         do = "deploy" => row[e].state = "Draft",
         do \in {"refresh", "stopping", "feedback"} =>
           /\ copy.bots = row[e].bots /\ row[e].state \notin Untouched
           /\ copy.state \notin Untouched
           /\ copy.state \in Ended => copy.state = row[e].state
  PROVE  StopInv'
  <1>1. /\ call'[t].do = do /\ call'[t].exp = e /\ call'[t].copy = copy
        /\ call'[t].started = {}
    BY NowIn DEF Begin, StopInv
  <1>2. row[e].state \in Ended => \A b \in row[e].bots : ~Launched(b)
    BY DEF StopInv, EndedMeansStopped, Launched
  <1>3. CallKnows(t)'
    BY <1>1 DEF CallKnows, In, Launches, Rewrites
  <1>4. LaunchRemembers(t)' /\ StopRemembers(t)' /\ EndedCopies(t)'
    BY <1>1, <1>2 DEF LaunchRemembers, StopRemembers, EndedCopies, In, Launches, Rewrites, Launched
  <1> QED BY <1>3, <1>4, CallMoves DEF CallSound

LEMMA RefreshSafe ==
  ASSUME StopInv, TypeOK', OneThread, NEW t \in Threads, NEW e \in Experiments, NEW report,
         \/ Refresh(t, e, report)
         \/ row[e].state \in Current /\ Stop(t, e, report)
  PROVE  StopInv'
  <1>1. row[e] \in Row
    BY DEF StopInv, TypeOK
  <1>2. CASE Refresh(t, e, report)
    BY <1>2, ReadSafe DEF Refresh, Untouched
  <1>3. CASE row[e].state \in Current /\ Stop(t, e, report)
    <2> DEFINE copy == [row[e] EXCEPT !.state = "Stopping"]
    <2>1. copy.bots = row[e].bots /\ copy.state = "Stopping"
      BY <1>1, SetRow
    <2>2. /\ Begin(t, "stopping", e, copy, report)
          /\ UNCHANGED <<row, bot, answered, decision, deploys>>
      BY <1>3 DEF Stop
    <2>3. row[e].state \notin Untouched /\ "Stopping" \notin Untouched \cup Ended
      BY <1>3 DEF Current, Observing, Untouched, Ended
    <2> HIDE DEF copy
    <2> QED BY <2>1, <2>2, <2>3, ReadSafe
  <1> QED BY <1>2, <1>3

\* The calls that only read.
LEMMA ReadStepsSafe ==
  ASSUME StopInv, TypeOK', OneThread, NEW t \in Threads, NEW e \in Experiments,
         LaunchReads(t, e) \/ RefreshReads(t, e) \/ StopReads(t, e) \/ ReportReads(t, e)
           \/ FeedbackReads(t, e)
  PROVE  StopInv'
  <1>1. CASE LaunchReads(t, e)
    BY <1>1, ReadSafe DEF LaunchReads, Enter
  <1>2. CASE RefreshReads(t, e) \/ StopReads(t, e)
    BY <1>2, RefreshSafe DEF RefreshReads, StopReads, Stoppable
  <1>3. CASE ReportReads(t, e)
    <2>1. CASE Refresh(t, e, TRUE) \/ (Overdue(e) /\ Stop(t, e, TRUE))
      BY <2>1, RefreshSafe DEF Overdue, Current
    <2>2. CASE Begin(t, "report", e, row[e], FALSE)
               /\ UNCHANGED <<row, bot, answered, decision, clock, deploys, reports, meddled, spent>>
      BY <2>2, ReadSafe
    <2> QED BY <1>3, <2>1, <2>2, Zenon DEF ReportReads, Enter
  <1>4. CASE FeedbackReads(t, e)
    <2>1. row[e].state \notin Untouched
      BY <1>4 DEF FeedbackReads, StopInv, ReportsLater
    <2> QED BY <1>4, <2>1, ReadSafe DEF FeedbackReads, Enter
  <1> QED BY <1>1, <1>2, <1>3, <1>4

LEMMA GivesUpSafe == ASSUME StopInv, TypeOK', OneThread, NEW t \in Threads, GivesUp(t) PROVE StopInv'
  <1>1. CallSound(t)'
    BY NowIn, CallQuiet DEF GivesUp, Leave, StopInv, Quiet
  <1> QED BY <1>1, CallMoves DEF GivesUp

\* What is known of a copy that a call writes back.
LEMMA CopyKnown ==
  ASSUME StopInv, NEW t \in Threads, In(t, Rewrites)
  PROVE  LET c == call[t] IN
         /\ c \in Work /\ c.exp \in Experiments /\ c.copy \in Row
         /\ c.copy.bots = row[c.exp].bots /\ c.copy.state \notin Untouched
         /\ row[c.exp].state \notin Untouched
         /\ c.copy.state \in Ended => \A b \in c.copy.bots : ~Launched(b)
  <1>1. call[t] \in Work
    BY InWork DEF StopInv, In, Rewrites
  <1>2. CallSound(t)
    BY DEF StopInv
  <1> QED BY <1>1, <1>2, WorkParts DEF CallSound, CallKnows, EndedCopies, In

LEMMA RefreshSavesSafe ==
  ASSUME StopInv, TypeOK', OneThread, NEW t \in Threads, RefreshSaves(t) PROVE StopInv'
  <1> DEFINE c == call[t]
  <1>1. In(t, Rewrites)
    BY DEF RefreshSaves, InCall, In, Rewrites
  <1>2. call'[t].do \in {"none", "report"}
    <2>1. Continue(t, [c EXCEPT !.do = "report"]) \/ Leave(t)
      BY Zenon DEF RefreshSaves
    <2>2. c \in Work /\ TypeOK
      BY <1>1, CopyKnown DEF StopInv
    <2> HIDE DEF c
    <2> QED BY <2>1, <2>2, NowDoes, LeftIs
  <1>3. row' = [row EXCEPT ![c.exp] = c.copy] /\ UNCHANGED <<bot, answered, decision, deploys>>
    BY DEF RefreshSaves, Saves
  <1>4. /\ c.exp \in Experiments /\ c.copy.bots = row[c.exp].bots /\ c.copy.state \notin Untouched
        /\ c.copy.state \in Ended => \A b \in c.copy.bots : ~Launched(b)
    BY <1>1, CopyKnown
  <1>5. CallSound(t)'
    BY <1>2, CallQuiet
  <1> HIDE DEF c
  <1> QED BY <1>3, <1>4, <1>5, CallWrites

LEMMA StopSavesSafe ==
  ASSUME StopInv, TypeOK', OneThread, NEW t \in Threads, StopSaves(t) PROVE StopInv'
  <1> DEFINE c == call[t]
             failed == (c.copy.bots = {})
  <1>1. In(t, Rewrites)
    BY DEF StopSaves, InCall, In, Rewrites
  <1>2. row' = [row EXCEPT ![c.exp] = c.copy] /\ UNCHANGED <<bot, answered, decision, deploys>>
    BY DEF StopSaves, Saves
  <1>3. Continue(t, [c EXCEPT !.do = "stop", !.left = c.copy.bots, !.failed = failed])
    BY Zenon DEF StopSaves
  <1> HIDE DEF failed
  <1>4. /\ call'[t].do = "stop" /\ call'[t].exp = c.exp /\ call'[t].copy = c.copy
        /\ call'[t].left = c.copy.bots
    <2>1. c \in Work
      BY <1>1, CopyKnown
    <2> DEFINE d == [c EXCEPT !.do = "stop", !.left = c.copy.bots, !.failed = failed]
    <2> HIDE DEF c
    <2>2. d.do = "stop" /\ d.exp = c.exp /\ d.copy = c.copy /\ d.left = c.copy.bots
      BY <2>1, SetStop
    <2> HIDE DEF d
    <2>3. call'[t] = d
      BY <1>3, NowIn DEF d, StopInv
    <2> QED BY <2>2, <2>3
  <1>5. /\ c.exp \in Experiments /\ c.copy.bots = row[c.exp].bots /\ c.copy.state \notin Untouched
        /\ c.copy.state \in Ended => \A b \in c.copy.bots : ~Launched(b)
    BY <1>1, CopyKnown
  <1> HIDE DEF c
  <1>6. row'[c.exp] = c.copy
    BY <1>2, <1>5 DEF StopInv, TypeOK
  <1>7. CallSound(t)'
    <2>1. CallKnows(t)'
      BY <1>4, <1>5, <1>6 DEF CallKnows, In, Launches, Rewrites
    <2>2. LaunchRemembers(t)' /\ StopRemembers(t)' /\ EndedCopies(t)'
      BY <1>2, <1>4, <1>5
         DEF LaunchRemembers, StopRemembers, EndedCopies, In, Launches, Rewrites, Launched
    <2> QED BY <2>1, <2>2 DEF CallSound
  <1> QED BY <1>2, <1>5, <1>7, CallWrites

LEMMA StopEndsSafe ==
  ASSUME StopInv, TypeOK', OneThread, NEW t \in Threads, StopEnds(t) PROVE StopInv'
  <1> DEFINE c == call[t]
  <1>1. In(t, Rewrites) /\ In(t, {"stop"}) /\ c.left = {}
    BY DEF StopEnds, AllAnswered, InCall, In, Rewrites
  <1>2. PICK state \in Ended : row' = [row EXCEPT ![c.exp] = [c.copy EXCEPT !.state = state]]
    BY Zenon DEF StopEnds, Saves
  <1>3. call'[t].do \in {"none", "report"}
    <2>1. Continue(t, [c EXCEPT !.do = "report"]) \/ Leave(t)
      BY Zenon DEF StopEnds
    <2>2. c \in Work /\ TypeOK
      BY <1>1, CopyKnown DEF StopInv
    <2> HIDE DEF c
    <2> QED BY <2>1, <2>2, NowDoes, LeftIs
  <1>4. \A b \in c.copy.bots : ~Launched(b)
    <2>1. StopRemembers(t)
      BY DEF StopInv, CallSound
    <2> QED BY <1>1, <2>1 DEF StopRemembers
  <1>5. /\ c.exp \in Experiments /\ c.copy.bots = row[c.exp].bots /\ c.copy \in Row
    BY <1>1, CopyKnown
  <1> HIDE DEF c
  <1> DEFINE r == [c.copy EXCEPT !.state = state]
  <1>6. r.bots = row[c.exp].bots /\ r.state = state /\ r.bots = c.copy.bots
    BY <1>5, SetRow
  <1>7. state \notin Untouched
    BY DEF Ended, Untouched
  <1>8. UNCHANGED <<bot, answered, decision, deploys>>
    BY DEF StopEnds
  <1> HIDE DEF r
  <1>9. row' = [row EXCEPT ![c.exp] = r]
    BY <1>2 DEF r
  <1>10. CallSound(t)'
    BY <1>3, CallQuiet
  <1> QED BY <1>4, <1>5, <1>6, <1>7, <1>8, <1>9, <1>10, CallWrites

LEMMA LaunchFailsSafe ==
  ASSUME StopInv, TypeOK', OneThread, NEW t \in Threads, LaunchFails(t) PROVE StopInv'
  <1> DEFINE c == call[t]
  <1>1. In(t, Launches) /\ c.started = {}
    BY DEF LaunchFails, ToRollBack, InCall, In, Launches
  <1>2. /\ row' = [row EXCEPT ![c.exp] = [c.copy EXCEPT !.state = "Incomplete"]]
        /\ Continue(t, Quiet)
        /\ UNCHANGED <<bot, answered, decision, deploys>>
    BY Zenon DEF LaunchFails, Saves, Leave
  <1>3. call'[t].do = "none"
    BY <1>2, NowIn DEF Quiet, StopInv
  <1>4. c \in Work /\ c.exp \in Experiments /\ c.copy \in Row
    BY <1>1, InWork, WorkParts DEF StopInv, In, Launches
  <1>5. /\ c.copy.bots = row[c.exp].bots
        /\ \A b \in c.copy.bots : ~Launched(b)
    BY <1>1 DEF StopInv, CallSound, CallKnows, LaunchRemembers, In
  <1> HIDE DEF c
  <1> DEFINE r == [c.copy EXCEPT !.state = "Incomplete"]
  <1>6. r.bots = c.copy.bots /\ r.state = "Incomplete"
    BY <1>4, SetRow
  <1>7. "Incomplete" \notin Untouched
    BY DEF Untouched
  <1> HIDE DEF r
  <1>8. row' = [row EXCEPT ![c.exp] = r]
    BY <1>2 DEF r
  <1>9. CallSound(t)'
    BY <1>3, CallQuiet
  <1>10. r.bots = row[c.exp].bots /\ r.state \notin Untouched /\ \A b \in r.bots : ~Launched(b)
    BY <1>5, <1>6, <1>7
  <1>11. UNCHANGED <<bot, answered, decision, deploys>>
    BY <1>2
  <1> QED BY <1>4, <1>8, <1>9, <1>10, <1>11, CallWrites

LEMMA ReportSavesSafe ==
  ASSUME StopInv, TypeOK', OneThread, NEW t \in Threads, ReportSaves(t) \/ FeedbackSaves(t)
  PROVE  StopInv'
  <1> DEFINE c == call[t]
             r == IF ReportSaves(t) THEN [c.copy EXCEPT !.report = reports']
                                    ELSE [c.copy EXCEPT !.feedback = TRUE]
  <1>1. In(t, Rewrites)
    BY DEF ReportSaves, FeedbackSaves, InCall, In, Rewrites
  <1>2. /\ row' = [row EXCEPT ![c.exp] = r] /\ Continue(t, Quiet)
        /\ UNCHANGED <<bot, answered, decision, deploys>>
    BY Zenon DEF ReportSaves, FeedbackSaves, Saves, Leave
  <1>3. call'[t].do = "none"
    BY <1>2, NowIn DEF Quiet, StopInv
  <1>4. /\ c.exp \in Experiments /\ c.copy \in Row /\ c.copy.bots = row[c.exp].bots
        /\ c.copy.state \notin Untouched
        /\ c.copy.state \in Ended => \A b \in c.copy.bots : ~Launched(b)
    BY <1>1, CopyKnown
  <1>5. r.bots = c.copy.bots /\ r.state = c.copy.state
    <2> HIDE DEF c
    <2> QED BY <1>4 DEF Row
  <1> HIDE DEF c, r
  <1>6. CallSound(t)'
    BY <1>3, CallQuiet
  <1> QED BY <1>2, <1>4, <1>5, <1>6, CallWrites

LEMMA ReportTakesSafe ==
  ASSUME StopInv, TypeOK', OneThread, NEW t \in Threads, ReportTakes(t) PROVE StopInv'
  <1> DEFINE c == call[t]
             now == row[c.exp]
  <1>1. UNCHANGED <<row, bot, answered, decision, deploys>>
    BY DEF ReportTakes
  <1>2. c \in Work
    BY InWork DEF StopInv, ReportTakes, InCall
  <1>3. c.exp \in Experiments
    BY <1>2, WorkParts
  <1>4. CASE Continue(t, Quiet)
    BY <1>1, <1>4, NowIn, CallQuiet, CallMoves DEF Quiet, StopInv
  <1>5. CASE now.state \in Ended /\ Continue(t, [c EXCEPT !.do = "link", !.copy = now])
    <2>1. \A b \in now.bots : ~Launched(b)
      BY <1>3, <1>5 DEF StopInv, EndedMeansStopped, Launched
    <2>2. call'[t].do = "link" /\ call'[t].exp = c.exp /\ call'[t].copy = now
      <3> DEFINE d == [c EXCEPT !.do = "link", !.copy = now]
      <3>1. call'[t] = d
        BY <1>5, NowIn DEF StopInv
      <3> HIDE DEF c, now
      <3>2. d.do = "link" /\ d.exp = c.exp /\ d.copy = now
        BY <1>2, SetLink
      <3> HIDE DEF d
      <3> QED BY <3>1, <3>2
    <2>3. now.state \notin Untouched
      BY <1>5 DEF Ended, Untouched
    <2> HIDE DEF c
    <2>4. CallKnows(t)'
      BY <1>1, <2>2, <2>3 DEF CallKnows, In, Launches, Rewrites
    <2>5. LaunchRemembers(t)' /\ StopRemembers(t)' /\ EndedCopies(t)'
      BY <1>1, <2>1, <2>2 DEF LaunchRemembers, StopRemembers, EndedCopies, In, Launches,
         Rewrites, Launched
    <2> QED BY <1>1, <2>4, <2>5, CallMoves DEF CallSound
  <1> QED BY <1>4, <1>5, Zenon DEF ReportTakes, Leave

--------------------------------------------------------------------------------
(* Stopping: calls that command a Bot *)

\* A step of a call on one Bot that begins no attempt.
LEMMA BotActs ==
  ASSUME StopInv, TypeOK', OneThread, NEW t \in Threads, CallSound(t)',
         NEW e \in Experiments, NEW b \in row[e].bots,
         UNCHANGED <<row, decision, deploys>>,
         bot' = bot \/ decision = NoDecision,
         \A x \in Bots : /\ Launched(x)' => Launched(x)
                         /\ x # b => bot'[x] = bot[x] /\ answered'[x] = answered[x],
         answered'[b] # "none" => ~Launched(b)'
  PROVE  StopInv'
  <1>1. \A x \in Bots : x[1] > deploys => bot'[x].state = "None" /\ answered'[x] = "none"
    BY DEF StopInv, BotsFresh
  <1>2. AnsweredStay'
    BY DEF StopInv, AnsweredStay
  <1>3. DecisionKnows'
    BY DEF StopInv, DecisionKnows, Arming, NoDecision
  <1>4. \A f \in Experiments : row[f].state \in Untouched => row[f].report = 0
    BY DEF StopInv, ReportsLater
  <1> QED BY <1>1, <1>2, <1>3, <1>4, TheCall, Settle

\* A Bot a command halted or faulted is not up.
LEMMA BotDown ==
  ASSUME TypeOK, NEW b \in Bots, Halted(b) \/ Down(b)
  PROVE  /\ ~Launched(b)' /\ bot'[b].state \in {"Stopped", "Faulted"}
         /\ \A x \in Bots : /\ x # b => bot'[x] = bot[x]
                            /\ Launched(x)' => Launched(x)
  BY DEF TypeOK, Halted, Down, Is, Launched, Up

LEMMA RollsBackSafe ==
  ASSUME StopInv, TypeOK', OneThread, NEW t \in Threads, NEW b \in Bots, RollsBack(t, b)
  PROVE  StopInv'
  <1> DEFINE c == call[t]
             left == c.started \ {b}
             d == [c EXCEPT !.started = left]
  <1>1. In(t, Launches) /\ c.do = "rollback" /\ b \in c.started
    BY DEF RollsBack, ToRollBack, InCall, In, Launches
  <1>2. Continue(t, d) /\ UNCHANGED <<row, answered, decision, deploys>>
    BY Zenon DEF RollsBack
  <1>3. c \in Work /\ c.exp \in Experiments /\ TypeOK
    BY <1>1, InWork, WorkParts DEF StopInv, In, Launches
  <1>4. /\ CallKnows(t) /\ LaunchRemembers(t) /\ c.copy.bots = row[c.exp].bots
        /\ c.started \subseteq c.copy.bots
    <2>1. CallKnows(t) /\ LaunchRemembers(t)
      BY DEF StopInv, CallSound
    <2> QED BY <1>1, <2>1 DEF CallKnows, LaunchRemembers, In
  <1>5. /\ bot' = bot \/ decision = NoDecision
        /\ ~Launched(b)'
        /\ \A x \in Bots : /\ x # b => bot'[x] = bot[x]
                           /\ Launched(x)' => Launched(x)
    <2>1. CASE bot[b].state = "Stopped" /\ UNCHANGED bot
      BY <2>1 DEF Launched, Up
    <2>2. CASE decision = NoDecision /\ (Halted(b) \/ Down(b))
      BY <1>3, <2>2, BotDown
    <2> QED BY <2>1, <2>2 DEF RollsBack, Stopped, StopFails, ControlFree
  <1> HIDE DEF c
  <1>6. d.do = c.do /\ d.exp = c.exp /\ d.copy = c.copy /\ d.left = c.left /\ d.started = left
    BY <1>3, SetStarted
  <1> HIDE DEF d
  <1>7. call'[t] = d
    BY <1>2, <1>3, NowIn
  <1>8. CallKnows(t)'
    BY <1>1, <1>2, <1>4, <1>6, <1>7 DEF CallKnows, In, Launches, Rewrites, c
  <1>9. LaunchRemembers(t)'
    <2>1. c.copy.bots \subseteq Bots
      BY <1>3, WorkParts DEF Row
    <2> QED BY <1>1, <1>2, <1>4, <1>5, <1>6, <1>7, <2>1 DEF LaunchRemembers, In, c
  <1>10. StopRemembers(t)' /\ EndedCopies(t)'
    BY <1>1, <1>6, <1>7 DEF StopRemembers, EndedCopies, In, Rewrites
  <1>11. b \in row[c.exp].bots /\ answered' = answered /\ (answered'[b] # "none" => ~Launched(b)')
    BY <1>1, <1>2, <1>4, <1>5
  <1>12. CallSound(t)'
    BY <1>8, <1>9, <1>10 DEF CallSound
  <1> QED BY <1>2, <1>3, <1>5, <1>11, <1>12, BotActs

LEMMA StopsBotSafe ==
  ASSUME StopInv, TypeOK', OneThread, NEW t \in Threads, NEW b \in Bots, StopsBot(t, b)
  PROVE  StopInv'
  <1> DEFINE c == call[t]
  <1>1. In(t, Rewrites) /\ In(t, {"stop"}) /\ c.do = "stop" /\ b \in c.left
    BY DEF StopsBot, InCall, In, Rewrites
  <1>2. UNCHANGED <<row, decision, deploys>>
    BY DEF StopsBot
  <1>3. c \in Work /\ c.exp \in Experiments /\ c.copy \in Row /\ TypeOK
        /\ c.copy.bots = row[c.exp].bots /\ c.copy.bots \subseteq Bots
    BY <1>1, CopyKnown DEF StopInv, Row
  <1>4. CallKnows(t) /\ StopRemembers(t) /\ EndedCopies(t) /\ c.left \subseteq c.copy.bots
    BY <1>1 DEF StopInv, CallSound, StopRemembers
  <1>5. /\ bot' = bot \/ decision = NoDecision
        /\ ~Launched(b)'
        /\ \A x \in Bots : /\ Launched(x)' => Launched(x)
                           /\ x # b => bot'[x] = bot[x] /\ answered'[x] = answered[x]
    <2>1. CASE bot[b].state = "Stopped" /\ UNCHANGED <<bot, answered>>
      BY <2>1 DEF Launched, Up
    <2>2. CASE answered[b] # "none" /\ UNCHANGED <<bot, answered>>
      <3>1. ~Launched(b)
        BY <2>2 DEF StopInv, AnsweredStay
      <3> QED BY <2>2, <3>1 DEF Launched
    <2>3. CASE /\ decision = NoDecision /\ (Halted(b) \/ Down(b))
               /\ \E v : answered' = [answered EXCEPT ![b] = v]
      <3>1. \A x \in Bots : x # b => answered'[x] = answered[x]
        BY <1>3, <2>3 DEF TypeOK
      <3>2. Halted(b) \/ Down(b)
        BY <2>3
      <3> QED BY <1>3, <2>3, <3>1, <3>2, BotDown
    <2>4. \/ bot[b].state = "Stopped" /\ UNCHANGED <<bot, answered>>
          \/ answered[b] # "none" /\ UNCHANGED <<bot, answered>>
          \/ /\ decision = NoDecision /\ (Halted(b) \/ Down(b))
             /\ \E v : answered' = [answered EXCEPT ![b] = v]
      BY Zenon DEF StopsBot, Stopped, StopFails, ControlFree
    <2> QED BY <2>1, <2>2, <2>3, <2>4
  <1>6. \E failed : Continue(t, [c EXCEPT !.left = c.left \ {b}, !.failed = failed])
                    \/ Continue(t, [c EXCEPT !.left = c.left \ {b}])
    BY Zenon DEF StopsBot
  <1>7. /\ call'[t].do = c.do /\ call'[t].exp = c.exp /\ call'[t].copy = c.copy
        /\ call'[t].left = c.left \ {b}
    <2> DEFINE left == c.left \ {b}
    <2>1. PICK failed : Continue(t, [c EXCEPT !.left = left, !.failed = failed])
                        \/ Continue(t, [c EXCEPT !.left = left])
      BY <1>6
    <2> HIDE DEF left, c
    <2>2. CASE Continue(t, [c EXCEPT !.left = left, !.failed = failed])
      <3> DEFINE d == [c EXCEPT !.left = left, !.failed = failed]
      <3>1. d.do = c.do /\ d.exp = c.exp /\ d.copy = c.copy /\ d.left = left
        BY <1>3, SetFailed
      <3> HIDE DEF d
      <3>2. call'[t] = d
        BY <1>3, <2>2, NowIn DEF d
      <3> QED BY <3>1, <3>2 DEF left
    <2>3. CASE Continue(t, [c EXCEPT !.left = left])
      <3> DEFINE d == [c EXCEPT !.left = left]
      <3>1. d.do = c.do /\ d.exp = c.exp /\ d.copy = c.copy /\ d.left = left
        BY <1>3, SetLeft
      <3> HIDE DEF d
      <3>2. call'[t] = d
        BY <1>3, <2>3, NowIn DEF d
      <3> QED BY <3>1, <3>2 DEF left
    <2> QED BY <2>1, <2>2, <2>3
  <1>8. CallKnows(t)' /\ LaunchRemembers(t)'
    BY <1>1, <1>2, <1>4, <1>7 DEF CallKnows, LaunchRemembers, In, Launches, Rewrites
  <1>9. StopRemembers(t)' /\ EndedCopies(t)'
    BY <1>1, <1>3, <1>4, <1>5, <1>7 DEF StopRemembers, EndedCopies, In, Rewrites
  <1>10. CallSound(t)' /\ b \in row[c.exp].bots
    BY <1>1, <1>3, <1>4, <1>8, <1>9 DEF CallSound
  <1> HIDE DEF c
  <1> QED BY <1>2, <1>3, <1>5, <1>10, BotActs

LEMMA LaunchStartsSafe ==
  ASSUME StopInv, TypeOK', OneThread, NEW t \in Threads, NEW b \in Bots, LaunchStarts(t, b)
  PROVE  StopInv'
  <1> DEFINE c == call[t]
             e == c.exp
             left == c.left \ {b}
             started == c.started \cup {b}
  <1>1. /\ In(t, Launches) /\ c.do = "start" /\ b \in c.left
        /\ decision = NoDecision /\ UNCHANGED <<row, answered, decision, deploys>>
    BY DEF LaunchStarts, InCall, In, Launches, ControlFree
  <1>2. c \in Work /\ e \in Experiments /\ TypeOK
    BY <1>1, InWork, WorkParts DEF StopInv, In, Launches
  <1>3. /\ CallKnows(t) /\ LaunchRemembers(t)
        /\ c.copy.bots = row[e].bots /\ row[e].state \in Observing
        /\ c.left \subseteq c.copy.bots /\ c.started \subseteq c.copy.bots
        /\ answered[b] = "none" /\ c.copy.bots \subseteq Bots
        /\ \A x \in c.copy.bots : Launched(x) => x \in c.started
    <2>1. CallKnows(t) /\ LaunchRemembers(t)
      BY DEF StopInv, CallSound
    <2>2. c.copy \in Row /\ c.copy.bots \subseteq Bots
      BY <1>2, WorkParts DEF Row
    <2> QED BY <1>1, <2>1, <2>2 DEF CallKnows, LaunchRemembers, In
  <1>4. CASE bot[b].state = "Stopped" /\ Begun(b, FALSE)
               /\ (Leave(t) \/ Continue(t, [c EXCEPT !.left = left, !.started = started]))
    <2>1. \A x \in Bots : x # b => bot'[x] = bot[x]
      BY <1>2, <1>4 DEF TypeOK, Begun
    <2>2. CallSound(t)'
      <3>1. CASE Leave(t)
        BY <1>2, <3>1, LeftIs, CallQuiet
      <3>2. CASE Continue(t, [c EXCEPT !.left = left, !.started = started])
        <4> DEFINE d == [c EXCEPT !.left = left, !.started = started]
        <4> HIDE DEF c, left, started
        <4>1. /\ d.do = c.do /\ d.exp = c.exp /\ d.copy = c.copy
              /\ d.left = left /\ d.started = started
          BY <1>2, SetTwo
        <4> HIDE DEF d
        <4>2. call'[t] = d
          BY <1>2, <3>2, NowIn DEF d
        <4>3. CallKnows(t)'
          BY <1>1, <1>3, <4>1, <4>2 DEF CallKnows, In, Launches, Rewrites, e
        <4>4. LaunchRemembers(t)'
          <5>1. \A x \in c.copy.bots : Launched(x)' => x \in started
            BY <1>3, <2>1 DEF Launched, started
          <5>2. left \subseteq c.copy.bots /\ started \subseteq c.copy.bots
            BY <1>1, <1>3 DEF left, started
          <5>3. \A x \in left : answered[x] = "none"
            BY <1>1, <1>3 DEF left, LaunchRemembers, c
          <5> QED BY <1>1, <4>1, <4>2, <5>1, <5>2, <5>3 DEF LaunchRemembers
        <4>5. StopRemembers(t)' /\ EndedCopies(t)'
          BY <1>1, <4>1, <4>2 DEF StopRemembers, EndedCopies, In, Rewrites
        <4> QED BY <4>3, <4>4, <4>5 DEF CallSound
      <3> QED BY <1>4, <3>1, <3>2
    <2>3. b \in row[e].bots
      BY <1>1, <1>3
    <2>4. BotsFresh'
      BY <1>1, <1>2, <2>1, <2>3 DEF StopInv, BotsFresh
    <2>5. BotsApart' /\ ReportsLater'
      BY <1>1 DEF StopInv, BotsApart, ReportsLater
    <2>6. DecisionKnows'
      BY <1>1 DEF DecisionKnows, Arming, NoDecision
    <2>7. AnsweredStay'
      BY <1>1, <1>3, <2>1 DEF StopInv, AnsweredStay, Launched
    <2>8. EndedMeansStopped'
      <3> SUFFICES ASSUME NEW f \in Experiments, row[f].state \in Ended, NEW x \in row[f].bots
                   PROVE  bot'[x].state \in Up => bot'[x].user
        BY <1>1 DEF EndedMeansStopped
      <3>1. f # e
        BY <1>3 DEF Observing, Ended
      <3>2. x # b /\ x \in Bots
        BY <1>2, <2>3, <3>1 DEF StopInv, BotsApart, TypeOK, Row
      <3> QED BY <2>1, <3>2 DEF StopInv, EndedMeansStopped
    <2> QED BY <2>2, <2>4, <2>5, <2>6, <2>7, <2>8, TheCall DEF StopInv
  <1>5. CASE (Down(b) \/ UNCHANGED bot) /\ Continue(t, [c EXCEPT !.do = "rollback"])
    <2>1. \A x \in Bots : /\ Launched(x)' => Launched(x)
                          /\ x # b => bot'[x] = bot[x] /\ answered'[x] = answered[x]
      <3>1. CASE Down(b)
        BY <1>1, <1>2, <3>1, BotDown
      <3>2. CASE UNCHANGED bot
        BY <1>1, <3>2 DEF Launched
      <3> QED BY <1>5, <3>1, <3>2
    <2> DEFINE d == [c EXCEPT !.do = "rollback"]
    <2> HIDE DEF c
    <2>2. /\ d.do = "rollback" /\ d.exp = c.exp /\ d.copy = c.copy
          /\ d.left = c.left /\ d.started = c.started
      BY <1>2, SetDo
    <2> HIDE DEF d
    <2>3. call'[t] = d
      BY <1>2, <1>5, NowIn DEF d
    <2>4. CallKnows(t)'
      BY <1>1, <1>3, <2>2, <2>3 DEF CallKnows, In, Launches, Rewrites, e
    <2>5. LaunchRemembers(t)'
      BY <1>1, <1>3, <2>1, <2>2, <2>3 DEF LaunchRemembers, In, c
    <2>6. StopRemembers(t)' /\ EndedCopies(t)'
      BY <2>2, <2>3 DEF StopRemembers, EndedCopies, In, Rewrites
    <2>7. CallSound(t)' /\ b \in row[e].bots /\ answered'[b] = "none"
      BY <1>1, <1>3, <2>4, <2>5, <2>6 DEF CallSound
    <2> HIDE DEF e
    <2> QED BY <1>1, <1>2, <2>1, <2>7, BotActs
  <1>6. \/ /\ bot[b].state = "Stopped" /\ Begun(b, FALSE)
           /\ (Leave(t) \/ Continue(t, [c EXCEPT !.left = left, !.started = started]))
        \/ (Down(b) \/ UNCHANGED bot) /\ Continue(t, [c EXCEPT !.do = "rollback"])
    BY Zenon DEF LaunchStarts
  <1> QED BY <1>4, <1>5, <1>6

--------------------------------------------------------------------------------
(* Stopping: the launch, and the theorem *)

LEMMA LaunchSavesSafe ==
  ASSUME StopInv, TypeOK', OneThread, NEW t \in Threads, LaunchSaves(t) PROVE StopInv'
  <1> DEFINE c == call[t]
             e == c.exp
             fresh == {deploys'} \X Instruments
             half == [c.copy EXCEPT !.state = "Preparing"]
             saved == [half EXCEPT !.bots = fresh]
             d == [c EXCEPT !.do = "start", !.copy = saved, !.left = fresh]
  <1>1. c.do = "deploy" /\ In(t, {"deploy"})
    BY DEF LaunchSaves, InCall, In
  <1>2. /\ deploys' = deploys + 1
        /\ bot' = [b \in Bots |-> IF b \in fresh THEN Is("Stopped", FALSE) ELSE bot[b]]
        /\ row' = [row EXCEPT ![e] = saved]
        /\ Continue(t, d)
        /\ UNCHANGED <<answered, decision>>
    BY Zenon DEF LaunchSaves, Saves
  <1>3. c \in Work /\ e \in Experiments /\ c.copy \in Row /\ TypeOK
    BY <1>1, InWork, WorkParts DEF StopInv
  <1>4. row[e].state = "Draft" /\ c.started = {}
    BY <1>1 DEF StopInv, CallSound, CallKnows
  <1>5. saved.bots = fresh /\ saved.state = "Preparing"
    <2>1. half = [state |-> "Preparing", bots |-> c.copy.bots, report |-> c.copy.report,
                  feedback |-> c.copy.feedback]
      BY <1>3, SetRow
    <2> HIDE DEF fresh, half
    <2> QED BY <2>1
  <1> HIDE DEF c, saved
  <1>6. /\ d.do = "start" /\ d.exp = e /\ d.copy = saved /\ d.left = fresh /\ d.started = {}
    BY <1>3, <1>4, SetStart
  <1> HIDE DEF d
  <1>7. call'[t] = d
    BY <1>2, <1>3, NowIn
  <1>8. row'[e] = saved /\ \A f \in Experiments : f # e => row'[f] = row[f]
    BY <1>2, <1>3 DEF TypeOK
  <1>9. deploys \in Nat /\ \A b \in Bots : b[1] \in Nat
    BY <1>3 DEF TypeOK, Bots
  <1>10. \A b \in fresh : b[1] = deploys + 1
    BY <1>2
  <1>11. \A b \in Bots : ~(b[1] > deploys) => b \notin fresh
    BY <1>9, <1>10
  <1>12. /\ \A b \in Bots : b \notin fresh => bot'[b] = bot[b]
         /\ \A b \in Bots : b \in fresh => bot'[b].state = "Stopped"
    BY <1>2 DEF Is
  <1>13. \A f \in Experiments : row[f].bots \subseteq Bots /\ row[f].bots \cap fresh = {}
    BY <1>3, <1>11 DEF StopInv, BotsFresh, TypeOK, Row
  <1>14. \A b \in Bots : b[1] > deploys' => b[1] > deploys /\ b \notin fresh
    BY <1>2, <1>9, <1>10
  <1> HIDE DEF fresh, e
  <1>15. BotsFresh'
    <2> SUFFICES ASSUME NEW b \in Bots, b[1] > deploys'
                 PROVE  /\ bot'[b].state = "None" /\ answered'[b] = "none"
                        /\ \A f \in Experiments : b \notin row'[f].bots
      BY DEF BotsFresh
    <2>1. /\ bot[b].state = "None" /\ answered[b] = "none" /\ b \notin fresh
          /\ \A f \in Experiments : b \notin row[f].bots
      BY <1>14 DEF StopInv, BotsFresh
    <2> QED BY <1>2, <1>5, <1>8, <1>12, <2>1
  <1>16. BotsApart'
    <2> SUFFICES ASSUME NEW f \in Experiments, NEW g \in Experiments, f # g
                 PROVE  row'[f].bots \cap row'[g].bots = {}
      BY DEF BotsApart
    <2>1. row[f].bots \cap row[g].bots = {}
      BY DEF StopInv, BotsApart
    <2> QED BY <1>5, <1>8, <1>13, <2>1
  <1>17. ReportsLater'
    BY <1>5, <1>8 DEF StopInv, ReportsLater, Untouched
  <1>18. DecisionKnows'
    <2> SUFFICES ASSUME Arming
                 PROVE  /\ decision.copy.bots = row'[decision.exp].bots
                        /\ row'[decision.exp].state \notin Untouched
                        /\ decision.bot \in row'[decision.exp].bots
                        /\ \A b \in row'[decision.exp].bots : bot'[b].state \in Up \cup {"Faulted"}
      BY <1>2 DEF DecisionKnows, Arming
    <2>1. decision.exp \in Experiments
      BY <1>3, DecisionBots
    <2>2. /\ decision.copy.bots = row[decision.exp].bots
          /\ row[decision.exp].state \notin Untouched
          /\ decision.bot \in row[decision.exp].bots
          /\ \A b \in row[decision.exp].bots : bot[b].state \in Up \cup {"Faulted"}
      BY DEF StopInv, DecisionKnows
    <2>3. decision.exp # e
      BY <1>4, <2>2 DEF Untouched
    <2>4. row'[decision.exp] = row[decision.exp]
      BY <1>8, <2>1, <2>3
    <2>5. \A b \in row[decision.exp].bots : bot'[b] = bot[b]
      BY <1>12, <1>13, <2>1
    <2> QED BY <2>2, <2>4, <2>5
  <1>19. AnsweredStay'
    BY <1>2, <1>12 DEF StopInv, AnsweredStay, Launched, Up
  <1>20. EndedMeansStopped'
    <2> SUFFICES ASSUME NEW f \in Experiments, row'[f].state \in Ended, NEW b \in row'[f].bots
                 PROVE  bot'[b].state \in Up => bot'[b].user
      BY DEF EndedMeansStopped
    <2>1. f # e
      BY <1>5, <1>8 DEF Ended
    <2>2. b \in row[f].bots /\ b \in Bots /\ row[f].state \in Ended
      BY <1>8, <1>13, <2>1
    <2>3. bot'[b] = bot[b]
      BY <1>12, <1>13, <2>2
    <2> QED BY <2>2, <2>3 DEF StopInv, EndedMeansStopped
  <1>21. CallSound(t)'
    <2>1. In(t, Launches)' /\ ~In(t, {"deploy"} \cup Rewrites)' /\ ~In(t, {"stop"})'
      BY <1>6, <1>7 DEF In, Launches, Rewrites
    <2>2. CallKnows(t)'
      BY <1>5, <1>6, <1>7, <1>8, <2>1 DEF CallKnows, In, Observing
    <2>3. LaunchRemembers(t)'
      <3>1. fresh \subseteq Bots
        <4>1. deploys' \in 1 .. MaxDeploys
          BY <1>2, <1>9 DEF TypeOK
        <4> QED BY <4>1, NoBots DEF fresh
      <3>2. \A b \in fresh : answered'[b] = "none"
        <4>1. \A b \in fresh : b[1] > deploys
          BY <1>9, <1>10
        <4> QED BY <1>2, <3>1, <4>1 DEF StopInv, BotsFresh
      <3>3. \A b \in fresh : ~Launched(b)'
        BY <1>12, <3>1 DEF Launched, Up
      <3> QED BY <1>5, <1>6, <1>7, <3>2, <3>3 DEF LaunchRemembers
    <2>4. StopRemembers(t)' /\ EndedCopies(t)'
      BY <2>1 DEF StopRemembers, EndedCopies, In
    <2> QED BY <2>2, <2>3, <2>4 DEF CallSound
  <1> QED BY <1>15, <1>16, <1>17, <1>18, <1>19, <1>20, <1>21, TheCall DEF StopInv

LEMMA StopInit == ASSUME Init, TypeOK PROVE StopInv
  <1>1. /\ row = [e \in Experiments |-> NoRow] /\ bot = [b \in Bots |-> Is("None", FALSE)]
        /\ answered = [b \in Bots |-> "none"] /\ decision = NoDecision
        /\ call = [t \in Threads |-> Quiet]
    BY DEF Init
  <1>2. \A e \in Experiments : row[e].state = "None" /\ row[e].bots = {} /\ row[e].report = 0
    BY <1>1 DEF NoRow
  <1>3. \A b \in Bots : bot[b].state = "None"
    BY <1>1 DEF Is
  <1>4. BotsFresh /\ BotsApart /\ ReportsLater
    BY <1>1, <1>2, <1>3 DEF BotsFresh, BotsApart, ReportsLater
  <1>5. DecisionKnows
    BY <1>1 DEF DecisionKnows, Arming, NoDecision
  <1>6. AnsweredStay
    BY <1>1 DEF AnsweredStay
  <1>7. EndedMeansStopped
    BY <1>2 DEF EndedMeansStopped
  <1>8. \A t \in Threads : CallSound(t)
    BY <1>1 DEF CallSound, CallKnows, LaunchRemembers, StopRemembers, EndedCopies, In, Launches,
       Rewrites, Quiet
  <1> QED BY <1>4, <1>5, <1>6, <1>7, <1>8 DEF StopInv

\* What no step changes stays as it was.
LEMMA StopStutters == ASSUME StopInv, TypeOK', UNCHANGED vars PROVE StopInv'
  <1>1. UNCHANGED <<row, bot, answered, decision, call, deploys>>
    BY DEF vars
  <1>2. DecisionKnows' /\ \A b \in Bots : Launched(b)' => Launched(b)
    BY <1>1 DEF StopInv, DecisionKnows, Arming, Launched
  <1> QED BY <1>1, <1>2, BotsMove

LEMMA StopNext == ASSUME StopInv, TypeOK', OneThread, [Next]_vars PROVE StopInv'
  <1>1. CASE BotStep \/ DecisionStep \/ Tick \/ Restart \/ \E e \in Experiments : Create(e)
    BY <1>1, BotStepSafe, DecisionStepSafe, HostSafe
  <1>2. ASSUME NEW t \in Threads, LaunchStep(t) PROVE StopInv'
    BY <1>2, ReadStepsSafe, LaunchSavesSafe, LaunchFailsSafe, LaunchStartsSafe, RollsBackSafe
       DEF LaunchStep
  <1>3. ASSUME NEW t \in Threads, StopStep(t) PROVE StopInv'
    BY <1>3, ReadStepsSafe, RefreshSavesSafe, StopSavesSafe, StopEndsSafe, StopsBotSafe
       DEF StopStep
  <1>4. ASSUME NEW t \in Threads, ReportStep(t) \/ GivesUp(t) PROVE StopInv'
    BY <1>4, ReadStepsSafe, ReportTakesSafe, ReportSavesSafe, GivesUpSafe DEF ReportStep
  <1>5. CASE UNCHANGED vars
    BY <1>5, StopStutters
  <1> QED BY <1>1, <1>2, <1>3, <1>4, <1>5 DEF Next

\* The invariant of stopping holds in every reachable state: the Bots of a row are its
\* own, each call and decision names the Bots of the row it will write back, and every
\* Bot up in an attempt a launch began is one that its launch or its stop still knows.
THEOREM StopsHold == ASSUME OneThread PROVE Spec => []StopInv
  <1>1. Init => StopInv
    BY InitType, StopInit
  <1>2. StopInv /\ TypeOK' /\ [Next]_vars => StopInv'
    BY StopNext
  <1> QED BY <1>1, <1>2, ExperimentTypeCorrect, PTL DEF Spec

\* An experiment that has ended runs nothing: whatever failed, faulted, restarted or was
\* answered from the record between its launch and its end, no Bot of it is still in the
\* attempt the launch began (stop_experiment, the rollback of launch).
THEOREM EndedRunsNothing == ASSUME OneThread PROVE Spec => []EndedMeansStopped
  <1>1. StopInv => EndedMeansStopped
    BY DEF StopInv
  <1> QED BY <1>1, StopsHold, PTL

--------------------------------------------------------------------------------
(* The invariant of the rows: what each copy of a row is still good for *)

\* A launch that no user disturbs has a Bot that is not up, so no decision arms it.
LaunchHolds(t) ==
  /\ In(t, {"start"}) => call[t].left # {} /\ \A b \in call[t].left : bot[b].state = "Stopped"
  /\ In(t, {"rollback"}) => \E b \in call[t].copy.bots : bot[b].state \in {"Stopped", "Faulted"}
  /\ In(t, Launches) /\ Arming => decision.exp # call[t].exp

\* A stop that meets a decision arming its experiment has not answered any Bot.
StopWaits(t) ==
  In(t, {"stop"}) =>
    /\ row[call[t].exp].state # "Preparing"
    /\ Arming /\ decision.exp = call[t].exp => call[t].left = call[t].copy.bots

\* What a call will write over the row as it is now.
CallCurrent(t) ==
  LET now == row[call[t].exp]
      copy == call[t].copy
  IN  /\ In(t, {"deploy"}) => \A e \in Experiments : row[e].state \notin Current
      /\ In(t, {"stopping", "stop"}) => now.state \in Current /\ copy.state = "Stopping"
      /\ In(t, {"refresh", "feedback"}) =>
           /\ copy.state \in Current => now.state \in Current
           /\ copy.state \in Ended \/ now.state \in Ended =>
                copy.state = now.state /\ copy.report = now.report
      /\ In(t, {"link"}) => copy.state = now.state /\ now.state \in Ended /\ now.report = 0

CallFits(t) == LaunchHolds(t) /\ StopWaits(t) /\ CallCurrent(t)

Single ==
  \A e, f \in Experiments : row[e].state \in Current /\ row[f].state \in Current => e = f

ArmsCurrent == Arming => row[decision.exp].state \in Current

RowsHold == Single /\ ArmsCurrent /\ \A t \in Threads : CallFits(t)

RowInv == ~meddled => RowsHold

LEMMA QuietFits ==
  ASSUME NEW t, call'[t].do \in {"none", "report"} PROVE CallFits(t)'
  BY DEF CallFits, LaunchHolds, StopWaits, CallCurrent, In, Launches

\* A step of a call that writes no row.
LEMMA FitMoves ==
  ASSUME OneThread, RowsHold, NEW t \in Threads, CallFits(t)', UNCHANGED <<row, decision>>
  PROVE  RowsHold'
  <1>1. Single' /\ ArmsCurrent'
    BY DEF RowsHold, Single, ArmsCurrent, Arming
  <1> QED BY <1>1 DEF RowsHold, OneThread

\* A step of a call that writes a row.
LEMMA FitWrites ==
  ASSUME OneThread, TypeOK, RowsHold, NEW t \in Threads, CallFits(t)', UNCHANGED decision,
         NEW e \in Experiments, NEW r, row' = [row EXCEPT ![e] = r],
         \/ r.state \notin Current
         \/ row[e].state \in Current
         \/ \A f \in Experiments : row[f].state \notin Current,
         Arming /\ decision.exp = e => r.state \in Current
  PROVE  RowsHold'
  <1>1. row'[e] = r /\ \A f \in Experiments : f # e => row'[f] = row[f]
    BY DEF TypeOK
  <1>2. Single'
    BY <1>1 DEF RowsHold, Single
  <1>3. ArmsCurrent'
    <2>1. Arming => decision.exp \in Experiments
      BY DecisionBots
    <2> QED BY <1>1, <2>1 DEF RowsHold, ArmsCurrent, Arming
  <1> QED BY <1>2, <1>3 DEF RowsHold, OneThread

\* Steps of Bots and decisions that write no row.
LEMMA FitBots ==
  ASSUME StopInv, RowsHold, UNCHANGED <<row, call>>, ArmsCurrent',
         \A t \in Threads : In(t, Launches) =>
           \A b \in call[t].copy.bots :
             /\ bot[b].state \in {"Stopped", "Faulted"} => bot'[b].state \in {"Stopped", "Faulted"}
             /\ bot[b].state = "Stopped" => bot'[b].state = "Stopped",
         \A t \in Threads : Arming' /\ In(t, Launches) => decision'.exp # call[t].exp,
         \A t \in Threads : Arming' /\ In(t, {"stop"}) /\ decision'.exp = call[t].exp =>
           call[t].left = call[t].copy.bots
  PROVE  RowsHold'
  <1>1. Single'
    BY DEF RowsHold, Single
  <1>2. ASSUME NEW t \in Threads PROVE CallFits(t)'
    <2>1. CallFits(t) /\ CallSound(t)
      BY DEF RowsHold, StopInv
    <2>2. LaunchHolds(t)'
      <3>1. In(t, Launches) => call[t].left \subseteq call[t].copy.bots
        BY <2>1 DEF CallSound, LaunchRemembers
      <3> QED BY <2>1, <3>1 DEF CallFits, LaunchHolds, In, Launches
    <2>3. StopWaits(t)' /\ CallCurrent(t)'
      BY <2>1 DEF CallFits, StopWaits, CallCurrent, In
    <2> QED BY <2>2, <2>3 DEF CallFits
  <1> QED BY <1>1, <1>2 DEF RowsHold

LEMMA BotStepFits ==
  ASSUME StopInv, RowsHold, BotStep, ~meddled' PROVE RowsHold'
  <1>0. TypeOK /\ \A t \in Threads : In(t, Launches) => call[t].copy.bots \subseteq Bots
    BY InWork, WorkParts DEF StopInv, In, Launches, Row
  <1>1. ASSUME NEW b \in Bots, BotFaults(b) PROVE RowsHold'
    <2>1. /\ bot[b].state \in Up /\ bot' = [bot EXCEPT ![b] = Is("Faulted", FALSE)]
          /\ UNCHANGED <<row, call, decision>>
      BY <1>1 DEF BotFaults, Down
    <2>2. \A x \in Bots :
            /\ bot[x].state \in {"Stopped", "Faulted"} => bot'[x].state \in {"Stopped", "Faulted"}
            /\ bot[x].state = "Stopped" => bot'[x].state = "Stopped"
      BY <1>0, <2>1 DEF TypeOK, Is, Up
    <2>3. ArmsCurrent' /\ Arming' = Arming
      BY <2>1 DEF RowsHold, ArmsCurrent, Arming
    <2>4. \A t \in Threads : Arming' /\ In(t, Launches) => decision'.exp # call[t].exp
      BY <2>1, <2>3 DEF RowsHold, CallFits, LaunchHolds
    <2>5. \A t \in Threads : Arming' /\ In(t, {"stop"}) /\ decision'.exp = call[t].exp =>
            call[t].left = call[t].copy.bots
      BY <2>1, <2>3 DEF RowsHold, CallFits, StopWaits
    <2> QED BY <1>0, <2>1, <2>2, <2>3, <2>4, <2>5, FitBots
  <1>2. ASSUME NEW b \in Bots, UserCommand(b) PROVE RowsHold'
    <2>1. /\ decision = NoDecision /\ UNCHANGED <<row, call, decision>>
          /\ ~Launching(b)
      BY <1>2 DEF UserCommand, ControlFree
    <2>2. \A x \in Bots : x # b => bot'[x] = bot[x]
      BY <1>0, <1>2 DEF UserCommand, Begun, Halted, TypeOK
    <2>3. \A t \in Threads : In(t, Launches) => b \notin call[t].copy.bots
      BY <2>1 DEF Launching, In, Launches
    <2>4. ~Arming' /\ ArmsCurrent'
      BY <2>1 DEF ArmsCurrent, Arming, NoDecision
    <2> QED BY <1>0, <2>1, <2>2, <2>3, <2>4, FitBots
  <1>3. ASSUME NEW b \in Bots, Decides(b) PROVE RowsHold'
    <2>1. /\ bot' = [bot EXCEPT ![b] = [bot[b] EXCEPT !.warm = TRUE]]
          /\ decision'.do = "decide" /\ UNCHANGED <<row, call>>
      BY <1>3 DEF Decides
    <2>2. \A x \in Bots : bot'[x].state = bot[x].state
      BY <1>0, <2>1 DEF TypeOK, Bot
    <2>3. ~Arming' /\ ArmsCurrent'
      BY <2>1 DEF ArmsCurrent, Arming
    <2> QED BY <1>0, <2>1, <2>2, <2>3, FitBots
  <1> QED BY <1>1, <1>2, <1>3 DEF BotStep

LEMMA ArmReadsFits == ASSUME StopInv, RowsHold, ArmReads PROVE RowsHold'
  <1>1. UNCHANGED <<row, call, bot>>
    BY DEF ArmReads
  <1>2. CASE decision' = NoDecision
    <2>1. ~Arming' /\ ArmsCurrent'
      BY <1>2 DEF ArmsCurrent, Arming, NoDecision
    <2> QED BY <1>1, <2>1, FitBots
  <1>3. CASE decision' # NoDecision
    <2>1. PICK e \in Binding(decision.bot) :
            /\ row[e].state = "Preparing" /\ AllWarm(row[e].bots)
            /\ decision' = [do |-> "arm", bot |-> decision.bot, exp |-> e, copy |-> row[e]]
      BY <1>3 DEF ArmReads
    <2>2. decision'.exp = e /\ row[e].state = "Preparing"
          /\ \A b \in row[e].bots : bot[b].state = "Running"
      BY <2>1 DEF AllWarm
    <2>3. ArmsCurrent'
      BY <1>1, <2>2 DEF ArmsCurrent, Current, Observing
    <2>4. ASSUME NEW t \in Threads, In(t, Launches) PROVE decision'.exp # call[t].exp
      <3>1. LaunchHolds(t) /\ CallKnows(t) /\ LaunchRemembers(t)
        BY DEF RowsHold, CallFits, StopInv, CallSound
      <3>2. call[t].copy.bots = row[call[t].exp].bots /\ call[t].left \subseteq call[t].copy.bots
        BY <2>4, <3>1 DEF CallKnows, LaunchRemembers, In
      <3>3. \E b \in call[t].copy.bots : bot[b].state # "Running"
        <4>1. CASE In(t, {"start"})
          <5>1. call[t].left # {} /\ \A b \in call[t].left : bot[b].state = "Stopped"
            BY <3>1, <4>1 DEF LaunchHolds
          <5> QED BY <3>2, <5>1
        <4>2. CASE In(t, {"rollback"})
          <5>1. \E b \in call[t].copy.bots : bot[b].state \in {"Stopped", "Faulted"}
            BY <3>1, <4>2 DEF LaunchHolds
          <5> QED BY <5>1
        <4> QED BY <2>4, <4>1, <4>2 DEF In, Launches
      <3> QED BY <2>2, <3>2, <3>3
    <2>5. ASSUME NEW t \in Threads, In(t, {"stop"}) PROVE decision'.exp # call[t].exp
      BY <2>2, <2>5 DEF RowsHold, CallFits, StopWaits
    <2> QED BY <1>1, <2>3, <2>4, <2>5, FitBots
  <1> QED BY <1>2, <1>3

LEMMA ArmSavesFits == ASSUME StopInv, RowsHold, Arms \/ Runs PROVE RowsHold'
  <1> DEFINE e == decision.exp
  <1>1. Arming /\ UNCHANGED <<bot, call>>
    BY DEF Arms, Runs, ArmSaves, Arming
  <1>2. decision \in Decision /\ e \in Experiments /\ TypeOK
    BY <1>1, DecisionBots DEF StopInv
  <1>3. PICK state \in {"Armed", "Running"} :
          row' = [row EXCEPT ![e] = [decision.copy EXCEPT !.state = state]]
    BY DEF Arms, Runs, ArmSaves
  <1>4. /\ row'[e].state = state /\ row[e].state \in Current
        /\ \A f \in Experiments : f # e => row'[f] = row[f]
    BY <1>1, <1>2, <1>3, DecisionBots DEF TypeOK, RowsHold, ArmsCurrent
  <1>5. /\ state \in Current /\ state \notin Ended /\ state # "Preparing"
        /\ \A s \in Current : s \notin Ended
    BY DEF Current, Observing, Ended
  <1>6. Arming' => decision'.exp = e
    BY <1>2 DEF Arms, Runs, Arming, NoDecision, Decision
  <1> HIDE DEF e
  <1>7. Single' /\ ArmsCurrent'
    BY <1>4, <1>5, <1>6 DEF RowsHold, Single, ArmsCurrent
  <1>8. ASSUME NEW t \in Threads PROVE CallFits(t)'
    <2>1. CallFits(t)
      BY DEF RowsHold
    <2>2. In(t, {"deploy"} \cup Launches \cup Rewrites) => call[t].exp \in Experiments
      BY InWork, WorkParts DEF StopInv, In, Launches, Rewrites
    <2>3. LaunchHolds(t)'
      BY <1>1, <1>6, <2>1 DEF CallFits, LaunchHolds, In, e
    <2>4. StopWaits(t)'
      <3>1. In(t, {"stop"}) => call[t].exp \in Experiments
        BY <2>2 DEF In, Rewrites
      <3> QED BY <1>1, <1>4, <1>5, <1>6, <2>1, <3>1 DEF CallFits, StopWaits, In, e
    <2>5. CallCurrent(t)'
      <3>1. In(t, {"deploy"})' => FALSE
        BY <1>1, <1>2, <1>4, <2>1 DEF CallFits, CallCurrent, In
      <3>2. In(t, {"stopping", "stop"})' =>
              row'[call'[t].exp].state \in Current /\ call'[t].copy.state = "Stopping"
        BY <1>1, <1>4, <1>5, <2>1, <2>2 DEF CallFits, CallCurrent, In, Rewrites
      <3>3. In(t, {"refresh", "feedback"})' =>
              /\ call'[t].copy.state \in Current => row'[call'[t].exp].state \in Current
              /\ call'[t].copy.state \in Ended \/ row'[call'[t].exp].state \in Ended =>
                   /\ call'[t].copy.state = row'[call'[t].exp].state
                   /\ call'[t].copy.report = row'[call'[t].exp].report
        BY <1>1, <1>4, <1>5, <2>1, <2>2 DEF CallFits, CallCurrent, In, Rewrites
      <3>4. In(t, {"link"})' =>
              /\ call'[t].copy.state = row'[call'[t].exp].state
              /\ row'[call'[t].exp].state \in Ended /\ row'[call'[t].exp].report = 0
        BY <1>1, <1>4, <1>5, <2>1, <2>2 DEF CallFits, CallCurrent, In, Rewrites
      <3> QED BY <3>1, <3>2, <3>3, <3>4 DEF CallCurrent
    <2> QED BY <2>3, <2>4, <2>5 DEF CallFits
  <1> QED BY <1>7, <1>8 DEF RowsHold

LEMMA HostFits ==
  ASSUME StopInv, RowsHold, Tick \/ Restart \/ \E e \in Experiments : Create(e)
  PROVE  RowsHold'
  <1>1. CASE Tick
    <2>1. UNCHANGED <<row, bot, call, decision>>
      BY <1>1 DEF Tick
    <2> QED BY <2>1 DEF RowsHold, Single, ArmsCurrent, Arming, CallFits, LaunchHolds, StopWaits,
                        CallCurrent, In
  <1>2. CASE Restart
    <2>1. UNCHANGED row /\ decision' = NoDecision /\ call' = [t \in Threads |-> Quiet]
      BY <1>2 DEF Restart
    <2>2. \A t \in Threads : CallFits(t)'
      BY <2>1, QuietFits DEF Quiet
    <2> QED BY <2>1, <2>2 DEF RowsHold, Single, ArmsCurrent, Arming, NoDecision
  <1>3. ASSUME NEW e \in Experiments, Create(e) PROVE RowsHold'
    <2>1. /\ row[e].state = "None" /\ row' = [row EXCEPT ![e] = [row[e] EXCEPT !.state = "Draft"]]
          /\ UNCHANGED <<bot, call, decision>>
      BY <1>3, Zenon DEF Create
    <2>2. row \in [Experiments -> Row] /\ row[e] \in Row /\ TypeOK
      BY DEF StopInv, TypeOK
    <2>3. /\ row'[e].state = "Draft"
          /\ \A f \in Experiments : f # e => row'[f] = row[f]
      BY <2>1, <2>2, SetRow
    <2>4. \A s \in {"None", "Draft"} : s \notin Current /\ s \notin Ended /\ s # "Preparing"
          /\ s \in Untouched
      BY DEF Current, Observing, Ended, Untouched
    <2>5. Single'
      BY <2>3, <2>4 DEF RowsHold, Single
    <2>6. ArmsCurrent'
      <3>1. Arming => decision.exp \in Experiments
        BY <2>2, DecisionBots
      <3> QED BY <2>1, <2>3, <2>4, <3>1 DEF RowsHold, ArmsCurrent, Arming
    <2>7. ASSUME NEW t \in Threads PROVE CallFits(t)'
      <3>1. CallFits(t) /\ CallKnows(t)
        BY DEF RowsHold, StopInv, CallSound
      <3>2. LaunchHolds(t)'
        BY <2>1, <3>1 DEF CallFits, LaunchHolds, In, Arming
      <3>3. In(t, Rewrites) => call[t].exp \in Experiments /\ call[t].exp # e
        <4>1. In(t, Rewrites) => call[t].exp \in Experiments
          BY <2>2, InWork, WorkParts DEF In, Rewrites
        <4>2. In(t, Rewrites) => row[call[t].exp].state \notin Untouched
          BY <3>1 DEF CallKnows
        <4> QED BY <2>1, <2>4, <4>1, <4>2
      <3>4. In(t, Rewrites) => row'[call[t].exp] = row[call[t].exp]
        BY <2>3, <3>3
      <3>5. StopWaits(t)'
        BY <2>1, <3>1, <3>4 DEF CallFits, StopWaits, In, Arming, Rewrites
      <3>6. CallCurrent(t)'
        <4>1. In(t, {"deploy"})' => \A f \in Experiments : row'[f].state \notin Current
          BY <2>1, <2>3, <2>4, <3>1 DEF CallFits, CallCurrent, In
        <4> QED BY <2>1, <3>1, <3>4, <4>1 DEF CallFits, CallCurrent, In, Rewrites
      <3> QED BY <3>2, <3>5, <3>6 DEF CallFits
    <2> QED BY <2>5, <2>6, <2>7 DEF RowsHold
  <1> QED BY <1>1, <1>2, <1>3

--------------------------------------------------------------------------------
(* The rows: calls that begin, and calls that write a row back *)

\* What EndedIsFinal says of a step.
EndedStays ==
  \A e \in Experiments : row[e].state \in Ended =>
    /\ row'[e].state = row[e].state /\ row'[e].bots = row[e].bots
    /\ row[e].report # 0 => row'[e].report = row[e].report

LEMMA StaysWritten ==
  ASSUME TypeOK, NEW e \in Experiments, NEW r, row' = [row EXCEPT ![e] = r],
         row[e].state \in Ended =>
           /\ r.state = row[e].state /\ r.bots = row[e].bots
           /\ row[e].report # 0 => r.report = row[e].report
  PROVE  EndedStays
  <1>1. row'[e] = r /\ \A f \in Experiments : f # e => row'[f] = row[f]
    BY DEF TypeOK
  <1> QED BY <1>1 DEF EndedStays

LEMMA NotBoth == \A s : (s \in Current => s \notin Ended) /\ (s \in Observing => s \in Current)
  BY DEF Current, Observing, Ended

LEMMA BeginFits ==
  ASSUME OneThread, StopInv, RowsHold, NEW t \in Threads, NEW e \in Experiments,
         NEW do \in {"deploy", "refresh", "stopping", "report", "feedback"}, NEW copy,
         NEW report, Begin(t, do, e, copy, report), UNCHANGED <<row, decision>>,
         do = "deploy" => \A x \in Experiments : row[x].state \notin Current,
         do \in {"refresh", "feedback"} => copy = row[e],
         do = "stopping" => row[e].state \in Current /\ copy.state = "Stopping"
  PROVE  RowsHold'
  <1>1. call'[t].do = do /\ call'[t].exp = e /\ call'[t].copy = copy
    BY NowIn DEF Begin, StopInv
  <1>2. CallFits(t)'
    BY <1>1 DEF CallFits, LaunchHolds, StopWaits, CallCurrent, In, Launches
  <1> QED BY <1>2, FitMoves

LEMMA RefreshFits ==
  ASSUME OneThread, StopInv, RowsHold, NEW t \in Threads, NEW e \in Experiments, NEW report,
         \/ Refresh(t, e, report)
         \/ row[e].state \in Current /\ Stop(t, e, report)
  PROVE  RowsHold'
  <1>1. CASE Refresh(t, e, report)
    BY <1>1, BeginFits DEF Refresh
  <1>2. CASE row[e].state \in Current /\ Stop(t, e, report)
    <2> DEFINE copy == [row[e] EXCEPT !.state = "Stopping"]
    <2>1. copy.state = "Stopping"
      BY SetRow DEF StopInv, TypeOK
    <2>2. Begin(t, "stopping", e, copy, report) /\ UNCHANGED <<row, decision>>
      BY <1>2 DEF Stop
    <2> HIDE DEF copy
    <2> QED BY <1>2, <2>1, <2>2, BeginFits
  <1> QED BY <1>1, <1>2

LEMMA ReadStepsFit ==
  ASSUME OneThread, StopInv, RowsHold, NEW t \in Threads, NEW e \in Experiments,
         LaunchReads(t, e) \/ RefreshReads(t, e) \/ StopReads(t, e) \/ ReportReads(t, e)
           \/ FeedbackReads(t, e)
  PROVE  RowsHold'
  <1>1. CASE LaunchReads(t, e)
    BY <1>1, BeginFits DEF LaunchReads, Enter, Occupying
  <1>2. CASE RefreshReads(t, e) \/ StopReads(t, e)
    BY <1>2, RefreshFits DEF RefreshReads, StopReads, Stoppable
  <1>3. CASE ReportReads(t, e)
    <2>1. CASE Refresh(t, e, TRUE) \/ (Overdue(e) /\ Stop(t, e, TRUE))
      BY <2>1, RefreshFits, NotBoth DEF Overdue
    <2>2. CASE Begin(t, "report", e, row[e], FALSE)
               /\ UNCHANGED <<row, bot, answered, decision, clock, deploys, reports, meddled, spent>>
      BY <2>2, BeginFits
    <2> QED BY <1>3, <2>1, <2>2, Zenon DEF ReportReads, Enter
  <1>4. CASE FeedbackReads(t, e)
    BY <1>4, BeginFits DEF FeedbackReads, Enter
  <1> QED BY <1>1, <1>2, <1>3, <1>4

LEMMA GivesUpFits ==
  ASSUME OneThread, StopInv, RowsHold, NEW t \in Threads, GivesUp(t) PROVE RowsHold'
  <1>1. CallFits(t)'
    BY LeftIs, QuietFits DEF GivesUp, StopInv
  <1> QED BY <1>1, FitMoves DEF GivesUp

LEMMA CopyBackFits ==
  ASSUME OneThread, StopInv, RowsHold, NEW t \in Threads, RefreshSaves(t) \/ FeedbackSaves(t)
  PROVE  RowsHold' /\ EndedStays
  <1> DEFINE c == call[t]
             r == IF RefreshSaves(t) THEN c.copy ELSE [c.copy EXCEPT !.feedback = TRUE]
             now == row[c.exp]
  <1>1. In(t, {"refresh", "feedback"}) /\ In(t, Rewrites)
    BY DEF RefreshSaves, FeedbackSaves, InCall, In, Rewrites
  <1>2. row' = [row EXCEPT ![c.exp] = r] /\ UNCHANGED decision
    BY Zenon DEF RefreshSaves, FeedbackSaves, Saves
  <1>3. call'[t].do \in {"none", "report"}
    <2>1. Continue(t, [c EXCEPT !.do = "report"]) \/ Leave(t)
      BY Zenon DEF RefreshSaves, FeedbackSaves
    <2>2. c \in Work /\ TypeOK
      BY <1>1, CopyKnown DEF StopInv
    <2> HIDE DEF c
    <2> QED BY <2>1, <2>2, NowDoes, LeftIs
  <1>4. /\ c.exp \in Experiments /\ c.copy \in Row /\ c.copy.bots = now.bots
        /\ c.copy.state \notin Untouched /\ TypeOK
    BY <1>1, CopyKnown DEF StopInv
  <1>5. /\ c.copy.state \in Current => now.state \in Current
        /\ c.copy.state \in Ended \/ now.state \in Ended =>
             c.copy.state = now.state /\ c.copy.report = now.report
    BY <1>1 DEF RowsHold, CallFits, CallCurrent
  <1>6. CallFits(t)'
    BY <1>3, QuietFits
  <1>7. r.state = c.copy.state /\ r.bots = c.copy.bots /\ r.report = c.copy.report
    <2> HIDE DEF c
    <2> QED BY <1>4 DEF Row
  <1>8. c.copy.state \in Current \cup Ended
    BY <1>4 DEF Row, ExperimentStates, Untouched
  <1> HIDE DEF c, r, now
  <1>9. r.state \notin Current \/ row[c.exp].state \in Current
    BY <1>5, <1>7 DEF now
  <1>10. Arming /\ decision.exp = c.exp => r.state \in Current
    BY <1>5, <1>7, <1>8, NotBoth DEF RowsHold, ArmsCurrent, now
  <1>11. RowsHold'
    BY <1>2, <1>4, <1>6, <1>9, <1>10, FitWrites
  <1>12. EndedStays
    BY <1>2, <1>4, <1>5, <1>7, StaysWritten DEF now
  <1> QED BY <1>11, <1>12

LEMMA StopSavesFits ==
  ASSUME OneThread, StopInv, RowsHold, NEW t \in Threads, StopSaves(t)
  PROVE  RowsHold' /\ EndedStays
  <1> DEFINE c == call[t]
             failed == (c.copy.bots = {})
             d == [c EXCEPT !.do = "stop", !.left = c.copy.bots, !.failed = failed]
  <1>1. In(t, Rewrites) /\ In(t, {"stopping", "stop"})
    BY DEF StopSaves, InCall, In, Rewrites
  <1>2. row' = [row EXCEPT ![c.exp] = c.copy] /\ UNCHANGED decision
    BY DEF StopSaves, Saves
  <1>3. Continue(t, d)
    BY Zenon DEF StopSaves
  <1>4. c \in Work /\ c.exp \in Experiments /\ TypeOK
    BY <1>1, CopyKnown DEF StopInv
  <1>5. row[c.exp].state \in Current /\ c.copy.state = "Stopping"
    BY <1>1 DEF RowsHold, CallFits, CallCurrent
  <1> HIDE DEF c, failed
  <1>6. d.do = "stop" /\ d.exp = c.exp /\ d.copy = c.copy /\ d.left = c.copy.bots
    BY <1>4, SetStop
  <1> HIDE DEF d
  <1>7. call'[t] = d
    BY <1>3, <1>4, NowIn
  <1>8. row'[c.exp] = c.copy
    BY <1>2, <1>4 DEF TypeOK
  <1>9. "Stopping" \in Current
    BY DEF Current
  <1>10. CallFits(t)'
    BY <1>5, <1>6, <1>7, <1>8, <1>9 DEF CallFits, LaunchHolds, StopWaits, CallCurrent, In, Launches
  <1>11. RowsHold'
    BY <1>2, <1>4, <1>5, <1>9, <1>10, FitWrites
  <1>12. EndedStays
    BY <1>2, <1>4, <1>5, NotBoth, StaysWritten
  <1> QED BY <1>11, <1>12

LEMMA StopEndsFits ==
  ASSUME OneThread, StopInv, RowsHold, NEW t \in Threads, StopEnds(t)
  PROVE  RowsHold' /\ EndedStays
  <1> DEFINE c == call[t]
  <1>1. In(t, Rewrites) /\ In(t, {"stop"}) /\ In(t, {"stopping", "stop"}) /\ c.left = {}
    BY DEF StopEnds, AllAnswered, InCall, In, Rewrites
  <1>2. PICK state \in Ended : row' = [row EXCEPT ![c.exp] = [c.copy EXCEPT !.state = state]]
    BY Zenon DEF StopEnds, Saves
  <1>3. c \in Work /\ c.exp \in Experiments /\ c.copy \in Row /\ TypeOK
        /\ c.copy.bots = row[c.exp].bots
    BY <1>1, CopyKnown DEF StopInv
  <1>4. call'[t].do \in {"none", "report"}
    <2>1. Continue(t, [c EXCEPT !.do = "report"]) \/ Leave(t)
      BY Zenon DEF StopEnds
    <2> HIDE DEF c
    <2> QED BY <1>3, <2>1, NowDoes, LeftIs
  <1>5. /\ row[c.exp].state \in Current
        /\ Arming /\ decision.exp = c.exp => c.copy.bots = {}
    BY <1>1 DEF RowsHold, CallFits, CallCurrent, StopWaits
  <1>6. ~(Arming /\ decision.exp = c.exp)
    BY <1>3, <1>5 DEF StopInv, DecisionKnows
  <1>7. UNCHANGED decision /\ CallFits(t)'
    BY <1>4, QuietFits DEF StopEnds
  <1> HIDE DEF c
  <1> DEFINE r == [c.copy EXCEPT !.state = state]
  <1>8. r.state = state
    BY <1>3, SetRow
  <1> HIDE DEF r
  <1>9. row' = [row EXCEPT ![c.exp] = r]
    BY <1>2 DEF r
  <1>10. RowsHold'
    BY <1>3, <1>5, <1>6, <1>7, <1>9, FitWrites
  <1>11. EndedStays
    BY <1>3, <1>5, <1>9, NotBoth, StaysWritten
  <1> QED BY <1>10, <1>11

LEMMA StopsBotFits ==
  ASSUME OneThread, StopInv, RowsHold, NEW t \in Threads, NEW b \in Bots, StopsBot(t, b)
  PROVE  RowsHold'
  <1> DEFINE c == call[t]
             left == c.left \ {b}
  <1>1. In(t, Rewrites) /\ In(t, {"stop"}) /\ c.do = "stop" /\ b \in c.left
        /\ UNCHANGED <<row, decision>>
    BY DEF StopsBot, InCall, In, Rewrites
  <1>2. c \in Work /\ TypeOK /\ c.copy.bots = row[c.exp].bots
    BY <1>1, CopyKnown DEF StopInv
  <1>3. CallFits(t) /\ StopRemembers(t)
    BY DEF RowsHold, StopInv, CallSound
  <1>4. ~(Arming /\ decision.exp = c.exp)
    <2>1. bot[b].state = "Stopped" \/ decision = NoDecision
      BY DEF StopsBot, Stopped, StopFails, ControlFree
    <2>2. b \in row[c.exp].bots
      BY <1>1, <1>2, <1>3 DEF StopRemembers
    <2>3. Arming /\ decision.exp = c.exp => bot[b].state # "Stopped"
      BY <2>2 DEF StopInv, DecisionKnows, Up
    <2> QED BY <2>1, <2>3 DEF Arming, NoDecision
  <1>5. \E failed : Continue(t, [c EXCEPT !.left = left, !.failed = failed])
                    \/ Continue(t, [c EXCEPT !.left = left])
    BY Zenon DEF StopsBot
  <1>6. call'[t].do = c.do /\ call'[t].exp = c.exp /\ call'[t].copy = c.copy
    <2>1. PICK failed : Continue(t, [c EXCEPT !.left = left, !.failed = failed])
                        \/ Continue(t, [c EXCEPT !.left = left])
      BY <1>5
    <2> HIDE DEF left, c
    <2>2. CASE Continue(t, [c EXCEPT !.left = left, !.failed = failed])
      <3> DEFINE d == [c EXCEPT !.left = left, !.failed = failed]
      <3>1. d.do = c.do /\ d.exp = c.exp /\ d.copy = c.copy
        BY <1>2, SetFailed
      <3> HIDE DEF d
      <3>2. call'[t] = d
        BY <1>2, <2>2, NowIn DEF d
      <3> QED BY <3>1, <3>2
    <2>3. CASE Continue(t, [c EXCEPT !.left = left])
      <3> DEFINE d == [c EXCEPT !.left = left]
      <3>1. d.do = c.do /\ d.exp = c.exp /\ d.copy = c.copy
        BY <1>2, SetLeft
      <3> HIDE DEF d
      <3>2. call'[t] = d
        BY <1>2, <2>3, NowIn DEF d
      <3> QED BY <3>1, <3>2
    <2> QED BY <2>1, <2>2, <2>3
  <1>7. CallFits(t)'
    BY <1>1, <1>3, <1>4, <1>6
       DEF CallFits, LaunchHolds, StopWaits, CallCurrent, In, Launches, Arming
  <1> QED BY <1>1, <1>7, FitMoves

LEMMA ReportTakesFits ==
  ASSUME OneThread, StopInv, RowsHold, NEW t \in Threads, ReportTakes(t) PROVE RowsHold'
  <1> DEFINE c == call[t]
             now == row[c.exp]
             d == [c EXCEPT !.do = "link", !.copy = now]
  <1>1. UNCHANGED <<row, decision>> /\ TypeOK
    BY DEF ReportTakes, StopInv
  <1>2. c \in Work
    BY InWork DEF StopInv, ReportTakes, InCall
  <1>3. CASE Leave(t)
    BY <1>1, <1>3, LeftIs, QuietFits, FitMoves
  <1>4. CASE now.state \in Ended /\ now.report = 0 /\ Continue(t, d)
    <2>1. call'[t] = d
      BY <1>1, <1>4, NowIn
    <2> HIDE DEF c, now
    <2>2. d.do = "link" /\ d.exp = c.exp /\ d.copy = now
      BY <1>2, SetLink
    <2> HIDE DEF d
    <2>3. CallFits(t)'
      BY <1>1, <1>4, <2>1, <2>2 DEF CallFits, LaunchHolds, StopWaits, CallCurrent, In, Launches, now
    <2> QED BY <1>1, <2>3, FitMoves
  <1> QED BY <1>3, <1>4, Zenon DEF ReportTakes

LEMMA ReportSavesFits ==
  ASSUME OneThread, StopInv, RowsHold, NEW t \in Threads, ReportSaves(t)
  PROVE  RowsHold' /\ EndedStays
  <1> DEFINE c == call[t]
             r == [c.copy EXCEPT !.report = reports']
  <1>1. In(t, Rewrites) /\ In(t, {"link"})
    BY DEF ReportSaves, InCall, In, Rewrites
  <1>2. row' = [row EXCEPT ![c.exp] = r] /\ Leave(t) /\ UNCHANGED decision
    BY Zenon DEF ReportSaves, Saves
  <1>3. c.exp \in Experiments /\ c.copy \in Row /\ c.copy.bots = row[c.exp].bots /\ TypeOK
    BY <1>1, CopyKnown DEF StopInv
  <1>4. c.copy.state = row[c.exp].state /\ row[c.exp].state \in Ended /\ row[c.exp].report = 0
    BY <1>1 DEF RowsHold, CallFits, CallCurrent
  <1>5. CallFits(t)'
    BY <1>2, <1>3, LeftIs, QuietFits
  <1> HIDE DEF c
  <1>6. r.state = c.copy.state /\ r.bots = c.copy.bots
    BY <1>3 DEF Row
  <1> HIDE DEF r
  <1>7. r.state \notin Current /\ ~(Arming /\ decision.exp = c.exp)
    BY <1>4, <1>6, NotBoth DEF RowsHold, ArmsCurrent
  <1>8. RowsHold'
    BY <1>2, <1>3, <1>5, <1>7, FitWrites
  <1>9. EndedStays
    BY <1>2, <1>3, <1>4, <1>6, StaysWritten
  <1> QED BY <1>8, <1>9

--------------------------------------------------------------------------------
(* The rows: launches, and the theorems *)

LEMMA LaunchSavesFits ==
  ASSUME OneThread, StopInv, RowsHold, NEW t \in Threads, LaunchSaves(t)
  PROVE  RowsHold' /\ EndedStays
  <1> DEFINE c == call[t]
             e == c.exp
             fresh == {deploys'} \X Instruments
             half == [c.copy EXCEPT !.state = "Preparing"]
             saved == [half EXCEPT !.bots = fresh]
             d == [c EXCEPT !.do = "start", !.copy = saved, !.left = fresh]
  <1>1. c.do = "deploy" /\ In(t, {"deploy"})
    BY DEF LaunchSaves, InCall, In
  <1>2. /\ deploys' = deploys + 1 /\ deploys < MaxDeploys
        /\ bot' = [b \in Bots |-> IF b \in fresh THEN Is("Stopped", FALSE) ELSE bot[b]]
        /\ row' = [row EXCEPT ![e] = saved]
        /\ Continue(t, d)
        /\ UNCHANGED <<answered, decision>>
    BY Zenon DEF LaunchSaves, Saves
  <1>3. c \in Work /\ e \in Experiments /\ TypeOK
    BY <1>1, InWork, WorkParts DEF StopInv
  <1>4. row[e].state = "Draft"
    BY <1>1 DEF StopInv, CallSound, CallKnows
  <1>5. \A f \in Experiments : row[f].state \notin Current
    BY <1>1 DEF RowsHold, CallFits, CallCurrent
  <1>6. ~Arming
    BY <1>3, <1>5, DecisionBots DEF RowsHold, ArmsCurrent
  <1> HIDE DEF c, saved
  <1>7. d.do = "start" /\ d.exp = e /\ d.copy = saved /\ d.left = fresh
    BY <1>3, SetStart
  <1> HIDE DEF d
  <1>8. call'[t] = d
    BY <1>2, <1>3, NowIn
  <1>9. fresh # {} /\ \A b \in fresh : bot'[b].state = "Stopped"
    <2>1. deploys' \in 1 .. MaxDeploys
      BY <1>2, <1>3, ExperimentAssumption DEF TypeOK
    <2>2. fresh \subseteq Bots
      BY <2>1, NoBots
    <2>3. PICK i \in Instruments : TRUE
      BY ExperimentAssumption
    <2>4. <<deploys', i>> \in fresh
      BY <2>3
    <2> QED BY <1>2, <2>2, <2>4 DEF Is
  <1> HIDE DEF fresh, e
  <1>10. CallFits(t)'
    BY <1>2, <1>6, <1>7, <1>8, <1>9 DEF CallFits, LaunchHolds, StopWaits, CallCurrent, In, Arming
  <1>11. RowsHold'
    BY <1>2, <1>3, <1>5, <1>6, <1>10, FitWrites
  <1>12. EndedStays
    BY <1>2, <1>3, <1>4, StaysWritten DEF Ended
  <1> QED BY <1>11, <1>12

LEMMA LaunchStartsFits ==
  ASSUME OneThread, StopInv, RowsHold, NEW t \in Threads, NEW b \in Bots, LaunchStarts(t, b)
  PROVE  RowsHold'
  <1> DEFINE c == call[t]
             left == c.left \ {b}
             started == c.started \cup {b}
  <1>1. /\ In(t, Launches) /\ In(t, {"start"}) /\ c.do = "start" /\ b \in c.left
        /\ decision = NoDecision /\ UNCHANGED <<row, decision>>
    BY DEF LaunchStarts, InCall, In, Launches, ControlFree
  <1>2. c \in Work /\ TypeOK /\ c.left \subseteq Bots
    BY <1>1, InWork, WorkParts DEF StopInv
  <1>3. /\ c.left \subseteq c.copy.bots
        /\ \A x \in c.left : bot[x].state = "Stopped"
    BY <1>1 DEF StopInv, CallSound, LaunchRemembers, RowsHold, CallFits, LaunchHolds
  <1>4. ~Arming'
    BY <1>1 DEF Arming, NoDecision
  <1>5. CASE Begun(b, FALSE) /\ c.left = {b} /\ Leave(t)
    BY <1>1, <1>2, <1>5, LeftIs, QuietFits, FitMoves
  <1>6. CASE /\ Begun(b, FALSE) /\ c.left # {b}
             /\ Continue(t, [c EXCEPT !.left = left, !.started = started])
    <2>1. \A x \in left : bot'[x].state = "Stopped"
      BY <1>2, <1>3, <1>6 DEF Begun, TypeOK
    <2>2. left # {}
      BY <1>1, <1>6
    <2> DEFINE d == [c EXCEPT !.left = left, !.started = started]
    <2> HIDE DEF c, left, started
    <2>3. d.do = c.do /\ d.left = left
      BY <1>2, SetTwo
    <2> HIDE DEF d
    <2>4. call'[t] = d
      BY <1>2, <1>6, NowIn DEF d
    <2>5. CallFits(t)'
      BY <1>1, <1>4, <2>1, <2>2, <2>3, <2>4 DEF CallFits, LaunchHolds, StopWaits, CallCurrent, In
    <2> QED BY <1>1, <2>5, FitMoves
  <1>7. CASE (Down(b) \/ UNCHANGED bot) /\ Continue(t, [c EXCEPT !.do = "rollback"])
    <2>1. bot'[b].state \in {"Stopped", "Faulted"}
      BY <1>1, <1>2, <1>3, <1>7, BotDown
    <2>2. b \in c.copy.bots
      BY <1>1, <1>3
    <2> DEFINE d == [c EXCEPT !.do = "rollback"]
    <2> HIDE DEF c
    <2>3. d.do = "rollback" /\ d.copy = c.copy
      BY <1>2, SetDo
    <2> HIDE DEF d
    <2>4. call'[t] = d
      BY <1>2, <1>7, NowIn DEF d
    <2>5. CallFits(t)'
      BY <1>4, <2>1, <2>2, <2>3, <2>4 DEF CallFits, LaunchHolds, StopWaits, CallCurrent, In
    <2> QED BY <1>1, <2>5, FitMoves
  <1>8. \/ Begun(b, FALSE) /\ c.left = {b} /\ Leave(t)
        \/ /\ Begun(b, FALSE) /\ c.left # {b}
           /\ Continue(t, [c EXCEPT !.left = left, !.started = started])
        \/ (Down(b) \/ UNCHANGED bot) /\ Continue(t, [c EXCEPT !.do = "rollback"])
    BY Zenon DEF LaunchStarts
  <1> QED BY <1>5, <1>6, <1>7, <1>8

LEMMA RollsBackFits ==
  ASSUME OneThread, StopInv, RowsHold, NEW t \in Threads, NEW b \in Bots, RollsBack(t, b)
  PROVE  RowsHold'
  <1> DEFINE c == call[t]
             left == c.started \ {b}
             d == [c EXCEPT !.started = left]
  <1>1. In(t, Launches) /\ In(t, {"rollback"}) /\ c.do = "rollback"
    BY DEF RollsBack, InCall, In, Launches
  <1>2. Continue(t, d) /\ UNCHANGED <<row, decision>>
    BY Zenon DEF RollsBack
  <1>3. c \in Work /\ TypeOK /\ c.copy.bots \subseteq Bots
    BY <1>1, InWork, WorkParts DEF StopInv, Row
  <1>4. /\ \E x \in c.copy.bots : bot[x].state \in {"Stopped", "Faulted"}
        /\ Arming => decision.exp # c.exp
    BY <1>1 DEF RowsHold, CallFits, LaunchHolds
  <1>5. \A x \in Bots : bot[x].state \in {"Stopped", "Faulted"} =>
                          bot'[x].state \in {"Stopped", "Faulted"}
    <2>1. CASE UNCHANGED bot
      BY <2>1
    <2>2. CASE Halted(b) \/ Down(b)
      BY <1>3, <2>2, BotDown
    <2> QED BY <2>1, <2>2 DEF RollsBack, Stopped, StopFails
  <1>6. \E x \in c.copy.bots : bot'[x].state \in {"Stopped", "Faulted"}
    BY <1>3, <1>4, <1>5
  <1> HIDE DEF c
  <1>7. d.do = c.do /\ d.exp = c.exp /\ d.copy = c.copy
    BY <1>3, SetStarted
  <1> HIDE DEF d
  <1>8. call'[t] = d
    BY <1>2, <1>3, NowIn
  <1>9. CallFits(t)'
    BY <1>1, <1>2, <1>4, <1>6, <1>7, <1>8
       DEF CallFits, LaunchHolds, StopWaits, CallCurrent, In, Arming
  <1> QED BY <1>2, <1>9, FitMoves

LEMMA LaunchFailsFits ==
  ASSUME OneThread, StopInv, RowsHold, NEW t \in Threads, LaunchFails(t)
  PROVE  RowsHold' /\ EndedStays
  <1> DEFINE c == call[t]
             r == [c.copy EXCEPT !.state = "Incomplete"]
  <1>1. In(t, Launches)
    BY DEF LaunchFails, InCall, In, Launches
  <1>2. row' = [row EXCEPT ![c.exp] = r] /\ Leave(t) /\ UNCHANGED decision
    BY Zenon DEF LaunchFails, Saves
  <1>3. c.exp \in Experiments /\ c.copy \in Row /\ TypeOK
    BY <1>1, InWork, WorkParts DEF StopInv, In, Launches
  <1>4. row[c.exp].state \in Observing /\ ~(Arming /\ decision.exp = c.exp)
    BY <1>1 DEF StopInv, CallSound, CallKnows, RowsHold, CallFits, LaunchHolds
  <1>5. CallFits(t)'
    BY <1>2, <1>3, LeftIs, QuietFits
  <1> HIDE DEF c, r
  <1>6. RowsHold'
    BY <1>2, <1>3, <1>4, <1>5, NotBoth, FitWrites
  <1>7. EndedStays
    BY <1>2, <1>3, <1>4, NotBoth, StaysWritten
  <1> QED BY <1>6, <1>7

LEMMA RowsInit == ASSUME Init, TypeOK PROVE RowsHold
  <1>1. /\ \A e \in Experiments : row[e].state = "None"
        /\ decision = NoDecision /\ \A t \in Threads : call[t] = Quiet
    BY DEF Init, NoRow
  <1>2. "None" \notin Current
    BY DEF Current, Observing
  <1>3. Single /\ ArmsCurrent
    BY <1>1, <1>2 DEF Single, ArmsCurrent, Arming, NoDecision
  <1>4. \A t \in Threads : CallFits(t)
    BY <1>1 DEF CallFits, LaunchHolds, StopWaits, CallCurrent, In, Launches, Quiet
  <1> QED BY <1>3, <1>4 DEF RowsHold

\* A step that writes no row.
LEMMA StaysSame == ASSUME UNCHANGED row PROVE EndedStays
  BY DEF EndedStays

LEMMA CreateStays ==
  ASSUME StopInv, NEW e \in Experiments, Create(e) PROVE EndedStays
  <1>1. row[e].state = "None" /\ row' = [row EXCEPT ![e] = [row[e] EXCEPT !.state = "Draft"]]
    BY Zenon DEF Create
  <1>2. TypeOK /\ row[e].state \notin Ended
    BY <1>1 DEF StopInv, Ended
  <1> QED BY <1>1, <1>2, StaysWritten

LEMMA ArmStays == ASSUME StopInv, RowsHold, Arms \/ Runs PROVE EndedStays
  <1>1. Arming /\ TypeOK
    BY DEF Arms, Runs, ArmSaves, Arming, StopInv
  <1>2. PICK state : row' = [row EXCEPT ![decision.exp] = [decision.copy EXCEPT !.state = state]]
    BY DEF Arms, Runs, ArmSaves
  <1>3. decision.exp \in Experiments /\ row[decision.exp].state \notin Ended
    BY <1>1, DecisionBots, NotBoth DEF RowsHold, ArmsCurrent
  <1> DEFINE r == [decision.copy EXCEPT !.state = state]
  <1> HIDE DEF r
  <1>4. row' = [row EXCEPT ![decision.exp] = r]
    BY <1>2 DEF r
  <1> QED BY <1>1, <1>3, <1>4, StaysWritten

\* Every step keeps the rows, and every ended experiment as it ended.
LEMMA RowsNext ==
  ASSUME OneThread, StopInv, RowsHold, ~meddled', [Next]_vars
  PROVE  RowsHold' /\ EndedStays
  <1>1. CASE BotStep
    <2>1. UNCHANGED row
      BY <1>1 DEF BotStep, BotFaults, UserCommand, Decides
    <2> QED BY <1>1, <2>1, BotStepFits, StaysSame
  <1>2. CASE DecisionStep
    <2>1. ArmReads => UNCHANGED row
      BY DEF ArmReads
    <2> QED BY <1>2, <2>1, ArmReadsFits, ArmSavesFits, ArmStays, StaysSame DEF DecisionStep
  <1>3. CASE Tick \/ Restart \/ \E e \in Experiments : Create(e)
    <2>1. Tick \/ Restart => UNCHANGED row
      BY DEF Tick, Restart
    <2> QED BY <1>3, <2>1, HostFits, CreateStays, StaysSame
  <1>4. ASSUME NEW t \in Threads, LaunchStep(t) PROVE RowsHold' /\ EndedStays
    <2>1. ASSUME NEW e \in Experiments, LaunchReads(t, e) PROVE RowsHold' /\ EndedStays
      BY <2>1, ReadStepsFit, StaysSame DEF LaunchReads
    <2>2. ASSUME NEW b \in Bots, LaunchStarts(t, b) \/ RollsBack(t, b)
          PROVE  RowsHold' /\ EndedStays
      BY <2>2, LaunchStartsFits, RollsBackFits, StaysSame DEF LaunchStarts, RollsBack
    <2> QED BY <1>4, <2>1, <2>2, LaunchSavesFits, LaunchFailsFits DEF LaunchStep
  <1>5. ASSUME NEW t \in Threads, StopStep(t) PROVE RowsHold' /\ EndedStays
    <2>1. ASSUME NEW e \in Experiments, RefreshReads(t, e) \/ StopReads(t, e)
          PROVE  RowsHold' /\ EndedStays
      BY <2>1, ReadStepsFit, StaysSame DEF RefreshReads, StopReads, Refresh, Stop
    <2>2. ASSUME NEW b \in Bots, StopsBot(t, b) PROVE RowsHold' /\ EndedStays
      BY <2>2, StopsBotFits, StaysSame DEF StopsBot
    <2> QED BY <1>5, <2>1, <2>2, CopyBackFits, StopSavesFits, StopEndsFits DEF StopStep
  <1>6. ASSUME NEW t \in Threads, ReportStep(t) \/ GivesUp(t) PROVE RowsHold' /\ EndedStays
    <2>1. ASSUME NEW e \in Experiments, ReportReads(t, e) \/ FeedbackReads(t, e)
          PROVE  RowsHold' /\ EndedStays
      <3>1. UNCHANGED row
        BY <2>1 DEF ReportReads, FeedbackReads, Refresh, Stop
      <3> QED BY <2>1, <3>1, ReadStepsFit, StaysSame
    <2>2. CASE ReportTakes(t) \/ GivesUp(t)
      BY <2>2, ReportTakesFits, GivesUpFits, StaysSame DEF ReportTakes, GivesUp
    <2> QED BY <1>6, <2>1, <2>2, CopyBackFits, ReportSavesFits DEF ReportStep
  <1>7. CASE UNCHANGED vars
    <2>1. UNCHANGED <<row, bot, decision, call>>
      BY <1>7 DEF vars
    <2>2. RowsHold'
      BY <2>1 DEF RowsHold, Single, ArmsCurrent, Arming, CallFits, LaunchHolds, StopWaits,
         CallCurrent, In
    <2> QED BY <2>1, <2>2, StaysSame
  <1> QED BY <1>1, <1>2, <1>3, <1>4, <1>5, <1>6, <1>7 DEF Next

\* Only a command of the user meddles with a launch.
LEMMA OnlyUsersMeddle ==
  ASSUME [Next]_vars
  PROVE  UNCHANGED meddled \/ \E b \in Bots : UserCommand(b)
  <1>1. CASE UNCHANGED vars
    BY <1>1 DEF vars
  <1>2. ASSUME NEW e \in Experiments, Create(e) PROVE UNCHANGED meddled
    BY <1>2 DEF Create
  <1>3. CASE BotStep
    BY <1>3 DEF BotStep, BotFaults, Decides
  <1>4. CASE DecisionStep
    BY <1>4 DEF DecisionStep, ArmReads, Arms, Runs, ArmSaves
  <1>5. ASSUME NEW t \in Threads, LaunchStep(t) PROVE UNCHANGED meddled
    BY <1>5 DEF LaunchStep, LaunchReads, LaunchSaves, LaunchStarts, LaunchFails, RollsBack
  <1>6. ASSUME NEW t \in Threads, StopStep(t) PROVE UNCHANGED meddled
    BY <1>6 DEF StopStep, RefreshReads, Refresh, StopReads, Stop, RefreshSaves, StopSaves,
       StopsBot, StopEnds
  <1>7. ASSUME NEW t \in Threads, ReportStep(t) PROVE UNCHANGED meddled
    BY <1>7 DEF ReportStep, ReportReads, Refresh, Stop, ReportTakes, ReportSaves,
       FeedbackReads, FeedbackSaves
  <1>8. ASSUME NEW t \in Threads, GivesUp(t) PROVE UNCHANGED meddled
    BY <1>8 DEF GivesUp
  <1>9. CASE Tick \/ Restart
    BY <1>9 DEF Tick, Restart
  <1> QED BY <1>1, <1>2, <1>3, <1>4, <1>5, <1>6, <1>7, <1>8, <1>9 DEF Next

\* A command of the user is remembered.
LEMMA Meddling == ASSUME TypeOK, [Next]_vars, meddled PROVE meddled'
  BY OnlyUsersMeddle DEF UserCommand

\* As long as no Bot is commanded during its launch, what each call and each decision will
\* write over its row agrees with the row as it is when it is written.
THEOREM RowsStayCurrent == ASSUME OneThread PROVE Spec => []RowInv
  <1>1. Init => RowInv
    BY InitType, RowsInit DEF RowInv
  <1>2. TypeOK /\ StopInv /\ RowInv /\ [Next]_vars => RowInv'
    BY Meddling, RowsNext DEF RowInv
  <1> QED BY <1>1, <1>2, ExperimentTypeCorrect, StopsHold, PTL DEF Spec

\* If calls of the user interface come one at a time, the rows are well formed, and an
\* account has at most one experiment that is not over (active_for_account) as long as the
\* user commanded no Bot of a launch in progress: through restarts in the middle of a launch
\* or a stop too.
THEOREM OneExperimentAtATime == ASSUME OneThread PROVE Spec => []ExperimentsSound
  <1>1. TypeOK /\ RowInv => ExperimentsSound
    BY DEF RowInv, RowsHold, Single, OneCurrent, ExperimentsSound
  <1> QED BY <1>1, ExperimentTypeCorrect, RowsStayCurrent, PTL

\* If calls of the user interface come one at a time, and as long as the user commanded no
\* Bot of a launch in progress, an experiment that has ended stays as it ended, with its Bots
\* and its linked report: no later call and no decision writes an older copy of the row over
\* it.  A refresh that overlaps a stop and a report does (save_experiment in
\* refresh_experiment), so OneThread cannot go.
THEOREM EndedStaysEnded == ASSUME OneThread PROVE Spec => EndedIsFinal
  <1>1. StopInv /\ RowInv /\ [Next]_vars =>
          [\A e \in Experiments : ~meddled /\ row[e].state \in Ended =>
             /\ row'[e].state = row[e].state /\ row'[e].bots = row[e].bots
             /\ row[e].report # 0 => row'[e].report = row[e].report]_row
    <2> SUFFICES ASSUME StopInv, RowInv, [Next]_vars, NEW e \in Experiments,
                        ~meddled, row[e].state \in Ended
                 PROVE  /\ row'[e].state = row[e].state /\ row'[e].bots = row[e].bots
                        /\ row[e].report # 0 => row'[e].report = row[e].report
      OBVIOUS
    <2>1. CASE ~meddled'
      BY <2>1, RowsNext DEF RowInv, EndedStays
    <2>2. CASE meddled'
      <3>1. UNCHANGED row
        BY <2>2, OnlyUsersMeddle DEF UserCommand
      <3> QED BY <3>1
    <2> QED BY <2>1, <2>2
  <1> QED BY <1>1, StopsHold, RowsStayCurrent, PTL DEF Spec, EndedIsFinal

================================================================================
