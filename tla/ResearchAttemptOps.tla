--------------------------- MODULE ResearchAttemptOps ---------------------------
(***************************************************************************)
(* Python Research Attempts (crate adaq-python-research) as operations on  *)
(* an attempt VALUE and on the sequence of all attempts, which AttemptStore *)
(* keeps under one lock and writes to its file with every change.          *)
(*                                                                         *)
(* The position in the sequence is the attempt's queue_sequence.  What an  *)
(* attempt executes (revision, environment, inputs, seed, policy) is one   *)
(* key: two requests are the same when their keys are equal.  Progress,    *)
(* logs and diagnostics are left out; a stale attempt counts as failed.    *)
(***************************************************************************)
EXTENDS Naturals, Sequences

ActiveStatuses == {"Pending", "Running"}
RetryableStatuses == {"Failed", "Cancelled", "Interrupted"}

\* "Removed" is an attempt a reset deleted from the store.
AttemptStatuses ==
  ActiveStatuses \cup RetryableStatuses \cup {"Completed", "Removed"}

NewAttempt(key) == [key |-> key, status |-> "Pending", cancel |-> FALSE]

IsActive(attempt) == attempt.status \in ActiveStatuses

ActiveAttempts(store) == {a \in DOMAIN store : IsActive(store[a])}

\* An active attempt at the same execution is shared, not repeated.
Shared(store, key) == {a \in ActiveAttempts(store) : store[a].key = key}

-------------------------------------------------------------------------------
\* Transitions: one that is not allowed leaves the attempt as it is.

CanBegin(attempt) == attempt.status = "Pending"

Begin(attempt) == [attempt EXCEPT !.status = "Running"]

\* Mutant: a late result is published over a requested cancellation.
CanCompleteLate(attempt) == attempt.status = "Running"

CanComplete(attempt) == attempt.status = "Running" /\ ~attempt.cancel

Complete(attempt) ==
  IF CanComplete(attempt) THEN [attempt EXCEPT !.status = "Completed"] ELSE attempt

Fail(attempt) ==
  IF IsActive(attempt) THEN [attempt EXCEPT !.status = "Failed"] ELSE attempt

CancelAttempt(attempt) ==
  CASE attempt.status = "Pending" -> [attempt EXCEPT !.status = "Cancelled"]
    [] attempt.status = "Running" -> [attempt EXCEPT !.cancel = TRUE]
    [] OTHER -> attempt

FinishCancel(attempt) ==
  IF attempt.status = "Running" /\ attempt.cancel
    THEN [attempt EXCEPT !.status = "Cancelled"]
    ELSE attempt

CancelActive(store) == [a \in DOMAIN store |-> CancelAttempt(store[a])]

\* Mutant: work that was running when the process ended is queued again.
ResumeRunning(store) ==
  [a \in DOMAIN store |->
     IF store[a].status = "Running" THEN NewAttempt(store[a].key) ELSE store[a]]

\* What was running when the process ended does not run again.
RecoverRunning(store) ==
  [a \in DOMAIN store |->
     LET attempt == store[a]
     IN  IF attempt.status # "Running" THEN attempt
         ELSE [attempt EXCEPT !.status = IF attempt.cancel THEN "Cancelled"
                                                           ELSE "Interrupted"]]

RemoveAll(store) == [a \in DOMAIN store |-> [store[a] EXCEPT !.status = "Removed"]]

===============================================================================
