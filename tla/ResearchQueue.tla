------------------------------ MODULE ResearchQueue ------------------------------
(***************************************************************************)
(* The Research Queue and the Python Research Control Plane that attaches  *)
(* to it: threads of the Host that create attempts and admit them to the   *)
(* durable journal, one worker that takes the journal in order and runs    *)
(* each attempt, cancellation, reset, shutdown and restart.                *)
(*                                                                         *)
(* Several locks, none held from one step of a thread to the next: the     *)
(* attempt store, the journal's database, the signal of the worker and the *)
(* reset barrier.  An action is what happens under one of them.            *)
(*                                                                         *)
(* One User, one kind of work: the Feature and Factor adapters keep their  *)
(* attempts in stores of their own.  Failing writes are left out.          *)
(***************************************************************************)
EXTENDS ResearchAttemptOps, FiniteSets

CONSTANTS Callers,      \* threads that create attempts
          Host,         \* the thread that starts the application
          Key,          \* caller -> what it asks to execute
          Waits,        \* callers that wait for the result of their attempt
          MaxAttempts,  \* bound: attempts created
          Budgets       \* bound: calls, cancels, resets, shutdowns, restarts, one
                        \* of these budgets per behaviour

Threads == Callers \cup {Host}

ASSUME QueueAssumption ==
  /\ Host \notin Callers /\ Waits \subseteq Callers
  /\ MaxAttempts \in Nat
  /\ Budgets \subseteq [{"Call", "Cancel", "Reset", "Shutdown", "Restart"} -> Nat]

VARIABLES attempts,   \* durable: the attempt store
          journal,    \* durable: the queue's entries by sequence, each with its
                      \* attempt and whether it is admitted or a tombstone
          signaled, shutdown,  \* the worker's signal
          attached,   \* the adapter is registered
          results,    \* completed results not yet handed over
          resetting,  \* the reset barrier
          pc, mine,   \* per thread: next step, its attempts
          worker, ticket,  \* the worker: next step, entry
          reset, listed,  \* the reset thread: next step, attempts it listed
          left        \* what is left of the budget

durable == <<attempts, journal>>
signal == <<signaled, shutdown>>
threads == <<pc, mine>>
work == <<worker, ticket>>
resets == <<resetting, reset, listed>>
vars == <<attempts, journal, signal, attached, results, threads, work, resets, left>>

Spend(command) ==
  /\ left[command] > 0
  /\ left' = [left EXCEPT ![command] = @ - 1]

Goto(t, step, todo) ==
  /\ pc' = [pc EXCEPT ![t] = step]
  /\ mine' = [mine EXCEPT ![t] = todo]

-------------------------------------------------------------------------------
\* Creating an attempt

\* Mutant: a request does not look at the reset barrier.
PassesAlways(c) == TRUE

\* A call that waits for its result goes around the barrier of a reset.
PassesBarrier(c) == resetting => c \in Waits

Create(c, store) ==
  /\ pc[Host] = "idle" /\ pc[c] = "idle" /\ Spend("Call") /\ PassesBarrier(c)
  /\ Len(store) <= MaxAttempts
  /\ attempts' = store
  /\ UNCHANGED <<journal, signal, attached, results, work, resets>>

StartAttempt(c) ==
  LET shared == Shared(attempts, Key[c])
  IN  \/ \E a \in shared : Create(c, attempts) /\ Goto(c, "admit", {a})
      \/ /\ shared = {}
         /\ Create(c, Append(attempts, NewAttempt(Key[c])))
         /\ Goto(c, "admit", {Len(attempts')})

\* A retry is a new attempt, whatever else is active.
RetryAttempt(c) ==
  /\ \E a \in DOMAIN attempts : attempts[a].status \in RetryableStatuses
                                /\ attempts[a].key = Key[c]
  /\ Create(c, Append(attempts, NewAttempt(Key[c])))
  /\ Goto(c, "admit", {Len(attempts')})

-------------------------------------------------------------------------------
\* Admission

CheckOpen(t) ==
  /\ pc[t] = "admit"
  /\ IF shutdown THEN Goto(t, "idle", {}) ELSE Goto(t, "insert", mine[t])
  /\ UNCHANGED <<durable, signal, attached, results, work, resets, left>>

\* Mutant: an attempt that is in the journal gets a second place.
AdmittedTwice(entries, a) == Append(entries, [attempt |-> a, admitted |-> TRUE])

\* A tombstone is admitted again at its old place.
Admitted(entries, a) ==
  IF \E e \in DOMAIN entries : entries[e].attempt = a
    THEN [e \in DOMAIN entries |-> IF entries[e].attempt = a
                                     THEN [entries[e] EXCEPT !.admitted = TRUE]
                                     ELSE entries[e]]
    ELSE Append(entries, [attempt |-> a, admitted |-> TRUE])

First(a, todo) == a \in todo /\ \A b \in todo : a <= b

Insert(t) ==
  /\ pc[t] = "insert"
  /\ \E a \in mine[t] : First(a, mine[t]) /\ journal' = Admitted(journal, a)
  /\ Goto(t, "wake", mine[t])
  /\ UNCHANGED <<attempts, signal, attached, results, work, resets, left>>

\* What a thread does once the worker has been told of its attempt.
AfterWake(t) ==
  IF t = Host
    THEN \E a \in mine[t] :
           /\ First(a, mine[t])
           /\ Goto(t, IF mine[t] = {a} THEN "attached" ELSE "admit", mine[t] \ {a})
    ELSE IF t \in Waits THEN Goto(t, "wait", mine[t]) ELSE Goto(t, "idle", {})

Wake(t) ==
  /\ pc[t] = "wake"
  /\ signaled' = TRUE
  /\ AfterWake(t)
  /\ UNCHANGED <<durable, shutdown, attached, results, work, resets, left>>

\* Mutant: a waiter takes a cancellation for something that still goes on.
GivesUpOnFailure(attempt) == attempt.status \in {"Failed", "Interrupted", "Removed"}

GivesUp(attempt) == attempt.status \in RetryableStatuses \cup {"Removed"}

\* The result is handed over once.  The deadline is looked at only while the
\* attempt is active, and by the time it is cancelled it may have ended.
AwaitResult(c) ==
  /\ pc[c] = "wait"
  /\ \E a \in mine[c] :
       \/ /\ a \in results /\ results' = results \ {a}
          /\ Goto(c, "idle", {})
       \/ /\ a \notin results /\ results' = results
          /\ GivesUp(attempts[a]) /\ Goto(c, "idle", {})
       \/ /\ a \notin results /\ results' = results
          /\ IsActive(attempts[a]) /\ Goto(c, "expire", {a})
  /\ UNCHANGED <<durable, signal, attached, work, resets, left>>

Expire(c) ==
  /\ pc[c] = "expire"
  /\ \E a \in mine[c] : attempts' = [attempts EXCEPT ![a] = CancelAttempt(@)]
  /\ Goto(c, "idle", {})
  /\ UNCHANGED <<journal, signal, attached, results, work, resets, left>>

-------------------------------------------------------------------------------
\* Attaching the adapter at start-up

PendingAttempts(store) == {a \in DOMAIN store : CanBegin(store[a])}

ReadPending ==
  /\ pc[Host] = "start"
  /\ Goto(Host, "register", PendingAttempts(attempts))
  /\ UNCHANGED <<durable, signal, attached, results, work, resets, left>>

\* The pending attempts are admitted one by one; the worker may run already.
Register ==
  /\ pc[Host] = "register"
  /\ attached' = TRUE
  /\ Goto(Host, IF mine[Host] = {} THEN "attached" ELSE "admit", mine[Host])
  /\ UNCHANGED <<durable, signal, results, work, resets, left>>

FinishAttach ==
  /\ pc[Host] = "attached"
  /\ signaled' = TRUE
  /\ Goto(Host, "idle", {})
  /\ UNCHANGED <<durable, shutdown, attached, results, work, resets, left>>

-------------------------------------------------------------------------------
\* The worker

\* Mutant: going to sleep clears the signal.
SignalLost == FALSE

\* A signal that came since the worker looked at the journal is still there.
SignalKept == signaled

FallAsleep ==
  /\ worker = "rest"
  /\ worker' = "wait" /\ signaled' = SignalKept
  /\ UNCHANGED <<durable, shutdown, attached, results, threads, ticket, resets, left>>

WaitForSignal ==
  /\ worker = "wait" /\ (signaled \/ shutdown)
  /\ IF shutdown THEN worker' = "stopped" /\ signaled' = signaled
                 ELSE worker' = "next" /\ signaled' = FALSE
  /\ UNCHANGED <<durable, shutdown, attached, results, threads, ticket, resets,
                 left>>

\* The admitted entry with the smallest sequence.
NextTicket ==
  /\ worker = "next"
  /\ LET admitted == {e \in DOMAIN journal : journal[e].admitted}
     IN  \/ /\ shutdown
            /\ worker' = "stopped" /\ ticket' = ticket
         \/ /\ ~shutdown /\ admitted = {}
            /\ worker' = "rest" /\ ticket' = ticket
         \/ /\ ~shutdown
            /\ \E e \in admitted : /\ \A f \in admitted : e <= f
                                   /\ ticket' = e
            /\ worker' = "dispatch"
  /\ UNCHANGED <<durable, signal, attached, results, threads, resets, left>>

Current == journal[ticket].attempt

\* Without its adapter an entry is retried later; one whose attempt ended, or was
\* removed, is stale.
Dispatch ==
  /\ worker = "dispatch"
  /\ LET attempt == attempts[Current]
     IN  worker' = IF ~attached THEN "retry"
                   ELSE IF attempt.status = "Pending" THEN "begin"
                   ELSE IF attempt.status = "Running" THEN "run"
                   ELSE "tombstone"
  /\ UNCHANGED <<durable, signal, attached, results, threads, ticket, resets,
                 left>>

BeginAttempt ==
  /\ worker = "begin"
  /\ IF CanBegin(attempts[Current])
       THEN /\ attempts' = [attempts EXCEPT ![Current] = Begin(@)]
            /\ worker' = "run"
       ELSE attempts' = attempts /\ worker' = "retry"
  /\ UNCHANGED <<journal, signal, attached, results, threads, ticket, resets,
                 left>>

\* The runner ends by itself with a result or a failure (or a result that is not
\* its own), at its limits, or because it was told to: by a
\* cancellation, by a reset that removed its attempt, or by the shutdown.
RunAttempt ==
  /\ worker = "run"
  /\ \/ worker' \in {"complete", "judge"}
     \/ /\ shutdown \/ attempts[Current].cancel \/ attempts[Current].status = "Removed"
        /\ worker' = "finish"
  /\ UNCHANGED <<durable, signal, attached, results, threads, ticket, resets, left>>

\* A result that lost against a cancellation ends the attempt as cancelled.
CompleteAttempt ==
  /\ worker = "complete"
  /\ LET attempt == attempts[Current]
     IN  IF CanComplete(attempt)
           THEN /\ attempts' = [attempts EXCEPT ![Current] = Complete(@)]
                /\ worker' = "publish"
           ELSE /\ attempts' = [attempts EXCEPT ![Current] = FinishCancel(@)]
                /\ worker' = "tombstone"
  /\ UNCHANGED <<journal, signal, attached, results, threads, ticket, resets,
                 left>>

PublishResult ==
  /\ worker = "publish"
  /\ results' = results \cup {Current}
  /\ worker' = "tombstone"
  /\ UNCHANGED <<durable, signal, attached, threads, ticket, resets, left>>

\* The cancellation is read first and acted upon later.
JudgeFailure ==
  /\ worker = "judge"
  /\ worker' = IF attempts[Current].cancel THEN "finish" ELSE "fail"
  /\ UNCHANGED <<durable, signal, attached, results, threads, ticket, resets,
                 left>>

EndAttempt ==
  /\ worker \in {"fail", "finish"}
  /\ attempts' = [attempts EXCEPT ![Current] =
                    IF worker = "fail" THEN Fail(@) ELSE FinishCancel(@)]
  /\ worker' = "tombstone"
  /\ UNCHANGED <<journal, signal, attached, results, threads, ticket, resets,
                 left>>

Consume ==
  /\ worker = "tombstone"
  /\ journal' = [journal EXCEPT ![ticket].admitted = FALSE]
  /\ worker' = "next" /\ ticket' = 0
  /\ UNCHANGED <<attempts, signal, attached, results, threads, resets, left>>

RetryLater ==
  /\ worker = "retry"
  /\ worker' = "rest" /\ ticket' = 0
  /\ signaled' = (signaled \/ ~shutdown)
  /\ UNCHANGED <<durable, shutdown, attached, results, threads, resets, left>>

-------------------------------------------------------------------------------
\* Cancellation and reset

Cancel ==
  /\ pc[Host] = "idle" /\ Spend("Cancel")
  /\ \E a \in ActiveAttempts(attempts) :
       attempts' = [attempts EXCEPT ![a] = CancelAttempt(@)]
  /\ signaled' = TRUE
  /\ UNCHANGED <<journal, shutdown, attached, results, threads, work, resets>>

RaiseBarrier ==
  /\ pc[Host] = "idle" /\ reset = "idle" /\ Spend("Reset")
  /\ resetting' = TRUE /\ reset' = "cancel"
  /\ UNCHANGED <<durable, signal, attached, results, threads, work, listed>>

CancelAll ==
  /\ reset = "cancel"
  /\ attempts' = CancelActive(attempts)
  /\ signaled' = TRUE
  /\ reset' = "await"
  /\ UNCHANGED <<journal, shutdown, attached, results, threads, work, resetting,
                 listed, left>>

NothingActive == ActiveAttempts(attempts) = {}

\* A reset waits for the work that began, up to a deadline.
AwaitEnd ==
  /\ reset = "await"
  /\ \/ NothingActive /\ reset' = "remove" /\ listed' = DOMAIN attempts
                      /\ resetting' = resetting
     \/ ~NothingActive /\ reset' = "idle" /\ resetting' = FALSE /\ listed' = {}
  /\ UNCHANGED <<durable, signal, attached, results, threads, work, left>>

RemoveAttempts ==
  /\ reset = "remove"
  /\ attempts' = RemoveAll(attempts)
  /\ reset' = "forget"
  /\ UNCHANGED <<journal, signal, attached, results, threads, work, resetting,
                 listed, left>>

ForgetResults ==
  /\ reset = "forget"
  /\ results' = results \ listed
  /\ reset' = "idle" /\ resetting' = FALSE /\ listed' = {}
  /\ UNCHANGED <<durable, signal, attached, threads, work, left>>

-------------------------------------------------------------------------------
\* The end of the process and its start

Shutdown ==
  /\ pc[Host] = "idle" /\ ~shutdown /\ Spend("Shutdown")
  /\ shutdown' = TRUE
  /\ UNCHANGED <<durable, signaled, attached, results, threads, work, resets>>

Started ==
  /\ signaled' = TRUE /\ shutdown' = FALSE /\ attached' = FALSE
  /\ results' = {} /\ resetting' = FALSE /\ reset' = "idle" /\ listed' = {}
  /\ pc' = [t \in Threads |-> IF t = Host THEN "start" ELSE "idle"]
  /\ mine' = [t \in Threads |-> {}]
  /\ worker' = "wait" /\ ticket' = 0

\* After a shutdown or out of nothing.
Restart ==
  /\ Spend("Restart")
  /\ attempts' = RecoverRunning(attempts)
  /\ journal' = journal
  /\ Started

Init ==
  /\ attempts = << >> /\ journal = << >>
  /\ signaled = TRUE /\ shutdown = FALSE /\ attached = FALSE
  /\ results = {} /\ resetting = FALSE /\ reset = "idle" /\ listed = {}
  /\ pc = [t \in Threads |-> IF t = Host THEN "start" ELSE "idle"]
  /\ mine = [t \in Threads |-> {}]
  /\ worker = "wait" /\ ticket = 0
  /\ left \in Budgets

Admit(t) == CheckOpen(t) \/ Insert(t) \/ Wake(t)

HostStep == ReadPending \/ Register \/ Admit(Host) \/ FinishAttach

CallerStep(c) == Admit(c) \/ AwaitResult(c) \/ Expire(c)

WorkerStep ==
  \/ FallAsleep \/ WaitForSignal \/ NextTicket \/ Dispatch \/ BeginAttempt \/ RunAttempt
  \/ CompleteAttempt \/ PublishResult \/ JudgeFailure \/ EndAttempt \/ Consume
  \/ RetryLater

ResetStep == CancelAll \/ AwaitEnd \/ RemoveAttempts \/ ForgetResults

Next ==
  \/ \E c \in Callers : StartAttempt(c) \/ RetryAttempt(c) \/ CallerStep(c)
  \/ HostStep \/ WorkerStep \/ ResetStep
  \/ Cancel \/ RaiseBarrier \/ Shutdown \/ Restart

\* Threads that began go on; nobody must call, cancel, reset or end the process.
Fairness ==
  /\ WF_vars(HostStep) /\ WF_vars(WorkerStep) /\ WF_vars(ResetStep)
  /\ \A c \in Callers : WF_vars(CallerStep(c))

Spec == Init /\ [][Next]_vars /\ Fairness

-------------------------------------------------------------------------------

Steps == {"start", "register", "attached", "idle", "admit", "insert", "wake", "wait",
          "expire"}
WorkerSteps == {"rest", "wait", "next", "dispatch", "begin", "run", "complete", "publish",
                "judge", "fail", "finish", "tombstone", "retry", "stopped"}

\* Shape of the state.  The worker holds a ticket of the journal from the moment
\* it read it, and an attempt has at most one entry.
TypeOK ==
  /\ \A a \in DOMAIN attempts : /\ attempts[a].status \in AttemptStatuses
                                /\ attempts[a].cancel \in BOOLEAN
  /\ \A e \in DOMAIN journal : /\ journal[e].attempt \in DOMAIN attempts
                               /\ journal[e].admitted \in BOOLEAN
  /\ \A e, f \in DOMAIN journal : journal[e].attempt = journal[f].attempt => e = f
  /\ {signaled, shutdown, attached, resetting} \subseteq BOOLEAN
  /\ results \subseteq DOMAIN attempts /\ listed \subseteq DOMAIN attempts
  /\ pc \in [Threads -> Steps]
  /\ mine \in [Threads -> SUBSET DOMAIN attempts]
  /\ worker \in WorkerSteps
  /\ worker \notin {"rest", "wait", "next", "stopped"} => ticket \in DOMAIN journal
  /\ reset \in {"idle", "cancel", "await", "remove", "forget"}

\* A cancellation that was taken wins against a result that comes later: what was
\* asked to stop is never completed and its result is never handed over.
CancelledNeverPublishes ==
  \A a \in DOMAIN attempts :
    attempts[a].cancel => attempts[a].status # "Completed" /\ a \notin results

\* The line of the journal: an entry's place is its sequence, and it stands in line
\* while it is admitted and its attempt is pending.
InLine == {e \in DOMAIN journal :
             journal[e].admitted /\ attempts[journal[e].attempt].status = "Pending"}
Places == [e \in DOMAIN journal |-> journal[e].attempt]
Waiting == {journal[e].attempt : e \in InLine}
Served == {a \in DOMAIN attempts : attempts[a].status = "Running"}

Line == INSTANCE AttemptLine WITH
  Attempts <- 1 .. MaxAttempts, places <- Places, waiting <- Waiting, served <- Served,
  open <- ~shutdown

\* The queue is one line for the device: in order of admission, one at a time,
\* each attempt at most once, and the first is served while the Host is up.
ServesOneLine == Line!Spec

Pending == {a \in DOMAIN attempts : attempts[a].status = "Pending"}

\* A pending attempt does not stay pending while the application runs.
PendingIsServed ==
  \A a \in 1 .. MaxAttempts : (a \in Pending) ~> (shutdown \/ a \notin Pending)

\* Whoever waits for an attempt gets its result, its failure or the deadline.
EveryWaiterReturns ==
  \A c \in Waits : (pc[c] = "wait") ~> (pc[c] = "idle")

\* A reset deletes attempts only when nothing of them is pending or running: of the
\* calls that pass the barrier.  Calls that wait for their result create theirs
\* around it.
ResetWaitsForWork ==
  [][\A a \in DOMAIN attempts :
       attempts[a].status \in ActiveStatuses /\ attempts[a].key \notin {Key[c] : c \in Waits}
         => attempts'[a].status # "Removed"]_vars

\* "User-scoped Reset blocks new work, waits for active work to exit" (ADR 0078): no
\* attempt is deleted while it is pending or running, whoever waits for it.
ResetWaitsForAllWork ==
  [][\A a \in DOMAIN attempts :
       attempts[a].status \in ActiveStatuses => attempts'[a].status # "Removed"]_vars

===============================================================================
