--------------------------- MODULE DatasetGeneration ---------------------------
(***************************************************************************)
(* Generation of signal datasets (dataset_generation) with the resets of   *)
(* local data that delete them (local_research.rs).  Attempts are rows of  *)
(* the database, each run by a thread of its own that can be told to stop; *)
(* a dataset is a file, named by its content, and two rows.                *)
(*                                                                         *)
(* One database mutex serialises most steps; files, cancellation flags and *)
(* the sets of blocked Users are not under it.  An action is what one      *)
(* holder of the mutex does; where files change before the transaction     *)
(* commits, the holder takes several steps, and the process may end        *)
(* between them.                                                           *)
(*                                                                         *)
(* Generation is deterministic, so a request without its User stands for   *)
(* the dataset it makes and for the snapshot it reads.  Rows of forecasts, *)
(* progress and diagnostics are left out, as are the other data a reset    *)
(* deletes and storage that fails outside the two transactions.            *)
(***************************************************************************)
EXTENDS Naturals, Sequences

CONSTANTS Users,
          Datasets,
          Resets,       \* threads that reset local data
          ResetOf,      \* reset -> its User and kind
          MaxAttempts,  \* bound: attempts created
          Budgets       \* bound: commands, failures and restarts, one of these
                        \* budgets per behaviour

Ids == 1 .. MaxAttempts
Commands == {"Start", "Retry", "Cancel", "Reset", "Download", "Failure", "Restart"}

ASSUME GenerationAssumption ==
  /\ MaxAttempts \in Nat
  /\ ResetOf \in [Resets -> [user : Users, kind : {"All", "MarketData"}]]
  /\ Budgets \subseteq [Commands -> Nat]

VARIABLES attempts,    \* durable: the rows, in order of creation; a deleted one stays
                       \* here as "deleted" and no query sees it
          content, access, snapshots,  \* durable: dataset rows, and who may read which
                       \* dataset and which snapshot
          files, staged,  \* durable: final files, and files a reset set aside
          registered, flagged,   \* attempts whose thread has not left, those told to stop
          cancelling,  \* cancel calls between the database and the flag
          step,        \* per attempt: next step of its thread
          blocked, resetting,    \* Users whose starts, whose market data are barred
          reset, awaited, moved, \* per reset: next step, attempts it waits for, files
                       \* it set aside
          left         \* what is left of the budget

rows == <<attempts, content, access, snapshots>>
disk == <<files, staged>>
runtime == <<registered, flagged, cancelling, step>>
resets == <<blocked, resetting, reset, awaited, moved>>
vars == <<rows, disk, runtime, resets, left>>

ActiveStatuses == {"pending", "running"}
Made(a) == <<attempts[a].user, attempts[a].data>>
WithStatus(a, status) == [attempts EXCEPT ![a].status = status]
Goto(a, next) == step' = [step EXCEPT ![a] = next]

Spend(command) ==
  /\ left[command] > 0
  /\ left' = [left EXCEPT ![command] = @ - 1]

\* The mutex is kept from the change of a file to the end of its transaction,
\* and by a reset until its barriers are lowered.
DatabaseFree ==
  /\ \A a \in Ids : step[a] \notin {"created", "reused"}
  /\ \A r \in Resets : reset[r] \notin {"commit", "finish", "leave"}

-------------------------------------------------------------------------------
\* Commands

\* A new row, its flag registered under the same lock, and its thread.
Create(u, d) ==
  /\ DatabaseFree /\ u \notin blocked /\ Len(attempts) < MaxAttempts
  /\ attempts' = Append(attempts, [user |-> u, data |-> d, status |-> "pending"])
  /\ registered' = registered \cup {Len(attempts')}
  /\ Goto(Len(attempts'), "start")
  /\ UNCHANGED <<content, access, snapshots, disk, flagged, cancelling, resets>>

\* The attempts a start of the same request returns instead of a new one.
Matching(u, d) ==
  {a \in DOMAIN attempts : /\ attempts[a].user = u /\ attempts[a].data = d
                           /\ attempts[a].status \in ActiveStatuses \cup {"completed"}}

Start(u, d) == Spend("Start") /\ Matching(u, d) = {} /\ Create(u, d)

Retry(a) ==
  /\ Spend("Retry") /\ attempts[a].status \in {"failed", "cancelled"}
  /\ Create(attempts[a].user, attempts[a].data)

\* A pending attempt is cancelled at once; of a running one only the flag is
\* raised, after the database was released.
Cancel(a) ==
  /\ Spend("Cancel") /\ DatabaseFree
  /\ attempts[a].status \in ActiveStatuses \cup {"cancelled"}
  /\ attempts' = IF attempts[a].status = "pending" THEN WithStatus(a, "cancelled")
                 ELSE attempts
  /\ cancelling' = cancelling \cup {a}
  /\ UNCHANGED <<content, access, snapshots, disk, registered, flagged, step, resets>>

RaiseFlag(a) ==
  /\ a \in cancelling
  /\ flagged' = flagged \cup ({a} \cap registered)
  /\ cancelling' = cancelling \ {a}
  /\ UNCHANGED <<rows, disk, registered, step, resets, left>>

Download(u, d) ==
  /\ Spend("Download") /\ DatabaseFree
  /\ snapshots' = snapshots \cup {<<u, d>>}
  /\ UNCHANGED <<attempts, content, access, disk, runtime, resets>>

-------------------------------------------------------------------------------
\* The thread of an attempt

\* Completed attempts of the same request whose dataset the User may read.
Reusable(a) ==
  {b \in DOMAIN attempts \ {a} : /\ Made(b) = Made(a) /\ attempts[b].status = "completed"
                                 /\ Made(b) \in access}

MarkRunning(a) ==
  /\ step[a] = "start" /\ DatabaseFree
  /\ \/ /\ attempts[a].status = "pending" /\ Reusable(a) # {}
        /\ attempts' = WithStatus(a, "completed") /\ Goto(a, "leave")
     \/ /\ attempts[a].status = "pending" /\ Reusable(a) = {}
        /\ attempts' = WithStatus(a, "running") /\ Goto(a, "read")
     \/ /\ attempts[a].status # "pending"
        /\ Goto(a, "leave") /\ UNCHANGED attempts
  /\ UNCHANGED <<content, access, snapshots, disk, registered, flagged, cancelling, resets,
                 left>>

\* generate, up to the bars being in memory.
ReadInputs(a) ==
  /\ step[a] = "read"
  /\ \/ a \in flagged /\ Goto(a, "error")
     \/ /\ a \notin flagged /\ DatabaseFree
        /\ Goto(a, IF Made(a) \in snapshots THEN "compute" ELSE "error")
  /\ UNCHANGED <<rows, disk, registered, flagged, cancelling, resets, left>>

\* generate, from the bars to its last look at the flag; the model may fail.
Compute(a) ==
  /\ step[a] = "compute"
  /\ \/ Goto(a, "error")
     \/ a \notin flagged /\ Goto(a, "publish")
  /\ UNCHANGED <<rows, disk, registered, flagged, cancelling, resets, left>>

\* Whether an error is a cancellation is read from the flag, not from the error.
JudgeError(a) ==
  /\ step[a] = "error"
  /\ Goto(a, IF a \in flagged THEN "cancel" ELSE "fail")
  /\ UNCHANGED <<rows, disk, registered, flagged, cancelling, resets, left>>

\* mark_cancelled_after_exit, record_failure and record_publication_failure.
RecordEnd(a, at, status) ==
  /\ step[a] = at /\ DatabaseFree /\ Goto(a, "leave")
  /\ attempts' = IF attempts[a].status = "running" THEN WithStatus(a, status) ELSE attempts
  /\ UNCHANGED <<content, access, snapshots, disk, registered, flagged, cancelling, resets,
                 left>>

\* Mutant: the flag is not looked at again.
BeginPublishUnasked(a) ==
  /\ step[a] = "publish" /\ DatabaseFree
  /\ Goto(a, IF attempts[a].data \in files THEN "reused" ELSE "created")
  /\ files' = files \cup {attempts[a].data}
  /\ UNCHANGED <<rows, staged, registered, flagged, cancelling, resets, left>>

\* publish_dataset up to its rows: the last look at the flag, then the file, which
\* may be there already.
BeginPublish(a) ==
  /\ step[a] = "publish" /\ DatabaseFree
  /\ \/ a \in flagged /\ Goto(a, "cancel") /\ UNCHANGED files
     \/ a \notin flagged /\ attempts[a].data \in files /\ Goto(a, "reused")
        /\ UNCHANGED files
     \/ a \notin flagged /\ attempts[a].data \notin files /\ Goto(a, "created")
        /\ files' = files \cup {attempts[a].data}
  /\ UNCHANGED <<rows, staged, registered, flagged, cancelling, resets, left>>

CommitPublish(a) ==
  /\ step[a] \in {"created", "reused"} /\ attempts[a].status = "running"
  /\ attempts' = WithStatus(a, "completed") /\ Goto(a, "leave")
  /\ content' = content \cup {attempts[a].data}
  /\ access' = access \cup {Made(a)}
  /\ UNCHANGED <<snapshots, disk, registered, flagged, cancelling, resets, left>>

\* The transaction fails, or the row is no longer running: a file that was
\* created for it is removed.
AbortPublish(a) ==
  /\ step[a] \in {"created", "reused"}
  \* no longer running only by two overlapping resets of one User's data
  /\ IF attempts[a].status = "running" THEN Spend("Failure") ELSE UNCHANGED left
  /\ files' = IF step[a] = "created" THEN files \ {attempts[a].data} ELSE files
  /\ Goto(a, "fail")
  /\ UNCHANGED <<rows, staged, registered, flagged, cancelling, resets>>

Leave(a) ==
  /\ step[a] = "leave" /\ Goto(a, "none")
  /\ registered' = registered \ {a}
  /\ UNCHANGED <<rows, disk, flagged, cancelling, resets, left>>

Thread(a) ==
  \/ MarkRunning(a) \/ ReadInputs(a) \/ Compute(a) \/ JudgeError(a)
  \/ RecordEnd(a, "cancel", "cancelled") \/ RecordEnd(a, "fail", "failed")
  \/ BeginPublish(a) \/ CommitPublish(a) \/ AbortPublish(a) \/ Leave(a)

-------------------------------------------------------------------------------
\* Reset of local data

UserOf(r) == ResetOf[r].user
All(r) == ResetOf[r].kind = "All"
ResetTo(r, next) == reset' = [reset EXCEPT ![r] = next]

\* The guard of a Reset All is dropped: the block of its User goes, whoever else
\* relies on it.
Unblocked(r) == IF All(r) THEN blocked \ {UserOf(r)} ELSE blocked

BeginReset(r) ==
  /\ reset[r] = "idle" /\ Spend("Reset")
  /\ \/ /\ All(r) /\ DatabaseFree /\ ResetTo(r, "flag")
        /\ blocked' = blocked \cup {UserOf(r)}
        /\ awaited' = [awaited EXCEPT ![r] =
             {a \in DOMAIN attempts : /\ attempts[a].user = UserOf(r)
                                      /\ attempts[a].status \in ActiveStatuses}]
     \/ ~All(r) /\ ResetTo(r, "enter") /\ UNCHANGED <<blocked, awaited>>
  /\ UNCHANGED <<rows, disk, runtime, resetting, moved>>

FlagAwaited(r) ==
  /\ reset[r] = "flag" /\ ResetTo(r, "await")
  /\ flagged' = flagged \cup (awaited[r] \cap registered)
  /\ UNCHANGED <<rows, disk, registered, cancelling, step, blocked, resetting, awaited,
                 moved, left>>

\* Mutant: the reset goes on though they have not stopped.
EndAwaitLate(r) ==
  /\ reset[r] = "await" /\ ResetTo(r, "enter")
  /\ UNCHANGED <<rows, disk, runtime, blocked, resetting, awaited, moved, left>>

\* The attempts stop, or they have not when the time is over.
EndAwait(r) ==
  /\ reset[r] = "await"
  /\ \/ awaited[r] \cap registered = {} /\ ResetTo(r, "enter") /\ UNCHANGED blocked
     \/ awaited[r] \cap registered # {} /\ ResetTo(r, "idle") /\ blocked' = Unblocked(r)
  /\ UNCHANGED <<rows, disk, runtime, resetting, awaited, moved, left>>

\* One reset of a User's market data at a time (begin_user_reset).
Enter(r) ==
  /\ reset[r] = "enter"
  /\ \/ /\ UserOf(r) \in resetting /\ ResetTo(r, "idle")
        /\ blocked' = Unblocked(r) /\ UNCHANGED resetting
     \/ /\ UserOf(r) \notin resetting /\ ResetTo(r, "stage")
        /\ resetting' = resetting \cup {UserOf(r)} /\ UNCHANGED blocked
  /\ UNCHANGED <<rows, disk, runtime, awaited, moved, left>>

\* Mutant: the files of every dataset the User may read.
AllReadable(u) == {d \in content : <<u, d>> \in access}

\* The datasets only this User may read.
Exclusive(u) ==
  {d \in content : <<u, d>> \in access /\ \A v \in Users \ {u} : <<v, d>> \notin access}

\* Files that are there are renamed; a name that is taken refuses the reset, and
\* so do, for market data, the User's datasets.
Stage(r) ==
  LET found == IF All(r) THEN Exclusive(UserOf(r)) \cap files ELSE {}
      refused == IF All(r) THEN found \cap staged # {}
                 ELSE \E d \in Datasets : <<UserOf(r), d>> \in access
  IN  /\ reset[r] = "stage" /\ DatabaseFree
      /\ \/ refused /\ ResetTo(r, "leave") /\ UNCHANGED <<files, staged, moved>>
         \/ /\ ~refused /\ ResetTo(r, "commit")
            /\ files' = files \ found /\ staged' = staged \cup found
            /\ moved' = [moved EXCEPT ![r] = found]
      /\ UNCHANGED <<rows, runtime, blocked, resetting, awaited, left>>

\* reset_all_okx and reset_market_data_okx: the rows.
CommitReset(r) ==
  LET u == UserOf(r)
  IN  /\ reset[r] = "commit" /\ ResetTo(r, "finish")
      /\ snapshots' = {s \in snapshots : s[1] # u}
      /\ \/ /\ All(r)
            /\ attempts' = [a \in DOMAIN attempts |->
                 IF attempts[a].user = u THEN [attempts[a] EXCEPT !.status = "deleted"]
                 ELSE attempts[a]]
            /\ access' = {s \in access : s[1] # u}
            /\ content' = {d \in content : \E v \in Users : <<v, d>> \in access'}
         \/ ~All(r) /\ UNCHANGED <<attempts, access, content>>
      /\ UNCHANGED <<disk, runtime, blocked, resetting, awaited, moved, left>>

\* The transaction fails: what was set aside is put back.
AbortReset(r) ==
  /\ reset[r] = "commit" /\ Spend("Failure") /\ ResetTo(r, "leave")
  /\ files' = files \cup moved[r] /\ staged' = staged \ moved[r]
  /\ UNCHANGED <<rows, runtime, blocked, resetting, awaited, moved>>

RemoveStaged(r) ==
  /\ reset[r] = "finish" /\ ResetTo(r, "leave")
  /\ staged' = staged \ moved[r]
  /\ UNCHANGED <<rows, files, runtime, blocked, resetting, awaited, moved, left>>

LeaveReset(r) ==
  /\ reset[r] = "leave" /\ ResetTo(r, "idle")
  /\ resetting' = resetting \ {UserOf(r)} /\ blocked' = Unblocked(r)
  /\ moved' = [moved EXCEPT ![r] = {}]
  /\ UNCHANGED <<rows, disk, runtime, awaited, left>>

ResetStep(r) ==
  \/ FlagAwaited(r) \/ EndAwait(r) \/ Enter(r) \/ Stage(r)
  \/ CommitReset(r) \/ AbortReset(r) \/ RemoveStaged(r) \/ LeaveReset(r)

-------------------------------------------------------------------------------
\* The process

NoSteps == [a \in Ids |-> "none"]
NoResets == [r \in Resets |-> "idle"]
NothingTaken == [r \in Resets |-> {}]

\* Mutant: unfinished attempts are left as they were.
RestartUnrecovered ==
  /\ Spend("Restart")
  /\ registered' = {} /\ flagged' = {} /\ cancelling' = {} /\ step' = NoSteps
  /\ blocked' = {} /\ resetting' = {}
  /\ reset' = NoResets /\ awaited' = NothingTaken /\ moved' = NothingTaken
  /\ UNCHANGED <<rows, disk>>

\* The application ends anywhere and starts again: what was pending or running is
\* failed (AttemptStore::initialize), and nothing looks at the files.
Restart ==
  /\ Spend("Restart")
  /\ attempts' = [a \in DOMAIN attempts |->
       IF attempts[a].status \in ActiveStatuses THEN [attempts[a] EXCEPT !.status = "failed"]
       ELSE attempts[a]]
  /\ registered' = {} /\ flagged' = {} /\ cancelling' = {} /\ step' = NoSteps
  /\ blocked' = {} /\ resetting' = {}
  /\ reset' = NoResets /\ awaited' = NothingTaken /\ moved' = NothingTaken
  /\ UNCHANGED <<content, access, snapshots, disk>>

Init ==
  /\ attempts = << >> /\ content = {} /\ access = {} /\ snapshots = Users \X Datasets
  /\ files = {} /\ staged = {}
  /\ registered = {} /\ flagged = {} /\ cancelling = {} /\ step = NoSteps
  /\ blocked = {} /\ resetting = {}
  /\ reset = NoResets /\ awaited = NothingTaken /\ moved = NothingTaken
  /\ left \in Budgets

Next ==
  \/ \E u \in Users, d \in Datasets : Start(u, d) \/ Download(u, d)
  \/ \E a \in DOMAIN attempts : Retry(a) \/ Cancel(a) \/ RaiseFlag(a) \/ Thread(a)
  \/ \E r \in Resets : BeginReset(r) \/ ResetStep(r)
  \/ Restart

\* Threads and calls that began go on; nobody must begin one.
Fairness ==
  /\ \A a \in Ids : WF_vars(a \in DOMAIN attempts /\ (RaiseFlag(a) \/ Thread(a)))
  /\ \A r \in Resets : WF_vars(ResetStep(r))

Spec == Init /\ [][Next]_vars /\ Fairness

-------------------------------------------------------------------------------

Statuses == {"pending", "running", "completed", "failed", "cancelled", "deleted"}
Steps == {"none", "start", "read", "compute", "error", "cancel", "fail", "publish",
          "created", "reused", "leave"}
ResetSteps == {"idle", "flag", "await", "enter", "stage", "commit", "finish", "leave"}

\* Shape of the state; the attempts that can be told to stop are those whose
\* thread is there.
TypeOK ==
  /\ attempts \in Seq([user : Users, data : Datasets, status : Statuses])
  /\ Len(attempts) <= MaxAttempts
  /\ content \subseteq Datasets /\ files \subseteq Datasets /\ staged \subseteq Datasets
  /\ access \subseteq Users \X Datasets /\ snapshots \subseteq Users \X Datasets
  /\ registered \subseteq Ids /\ flagged \subseteq Ids
  /\ cancelling \subseteq Ids /\ step \in [Ids -> Steps]
  /\ blocked \subseteq Users /\ resetting \subseteq Users
  /\ reset \in [Resets -> ResetSteps]
  /\ awaited \in [Resets -> SUBSET Ids] /\ moved \in [Resets -> SUBSET Datasets]
  /\ registered = {a \in Ids : step[a] # "none"}
  /\ left \in [Commands -> Nat]

\* A completed attempt answers every later start of its request, so what it made
\* must stay: its User may read the dataset, whose file is there or set aside by a
\* reset, whatever other Users delete, fails or is interrupted.
CompletedIsKept ==
  \A a \in DOMAIN attempts : attempts[a].status = "completed" =>
    /\ Made(a) \in access /\ attempts[a].data \in content
    /\ attempts[a].data \in files \cup staged

\* The state is well formed, and what was completed is there.
DatasetsSound == TypeOK /\ CompletedIsKept

\* "The reset transaction's outcome decides whether the staged files are removed or
\* restored" (stage_files): while no reset is in progress, what was completed has its
\* file under its own name, where it is read.
CompletedIsInPlace ==
  (\A r \in Resets : reset[r] = "idle") =>
    \A a \in DOMAIN attempts :
      attempts[a].status = "completed" => attempts[a].data \in files

\* A reset takes only what is its User's, and stopped: another User reads what he
\* could read, and no row goes while its attempt is pending or running.
ResetTakesOnlyItsOwn ==
  [][/\ \A u \in Users \ resetting, d \in Datasets : <<u, d>> \in access =>
          <<u, d>> \in access' /\ (d \in files \cup staged => d \in (files \cup staged)')
     /\ \A a \in DOMAIN attempts :
          attempts[a].status \in ActiveStatuses => attempts'[a].status # "deleted"]_vars

\* Every attempt comes to "exactly one terminal state" (CONTEXT.md), its thread
\* gone, so that a reset that waits for it can go on; a restart makes no exception.
Active(a) == a \in DOMAIN attempts /\ attempts[a].status \in ActiveStatuses
AttemptsEnd == \A a \in Ids : Active(a) ~> ~Active(a) /\ a \notin registered

\* "Cancellation wins before atomic publication begins": an attempt that is told to
\* stop before the last look at its flag ends Cancelled, neither Completed nor
\* Failed, whatever stops it; only the end of the process makes it otherwise.
Unpublished == {"read", "compute", "error", "publish"}
CancellationWins ==
  \A a \in Ids :
    a \in flagged /\ step[a] \in Unpublished
      ~> a \in DOMAIN attempts
           /\ (a \in flagged => attempts[a].status \in {"cancelled", "deleted"})

\* "Market Data Snapshots and any data referenced by a Dataset [...] remain [...]
\* deletion-locked" (ADR 0027): who may read a dataset may read its snapshot.
DatasetKeepsSnapshot == access \subseteq snapshots

===============================================================================
