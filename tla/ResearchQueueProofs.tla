--------------------------- MODULE ResearchQueueProofs ---------------------------
(***************************************************************************)
(* Proofs about ResearchQueue, for any set of callers and any bounds.      *)
(*                                                                         *)
(* The store changes in many actions but always by the same transitions of *)
(* one attempt, so the argument about it is made once (Evolves); what the   *)
(* threads, the worker and the results know of the store follows from it.  *)
(***************************************************************************)
EXTENDS ResearchQueue, SequenceTheorems, TLAPS

Keys == {Key[c] : c \in Callers}

AttemptRecords == [key : Keys, status : AttemptStatuses, cancel : BOOLEAN]

Entries == [attempt : Nat, admitted : BOOLEAN]

\* What was completed was not cancelled, and nothing cancels it any more.
Sealed(attempt) == ~attempt.cancel /\ attempt.status \in {"Completed", "Removed"}

CompletedUncancelled(attempt) == attempt.status = "Completed" => ~attempt.cancel

Sound(attempt) == attempt \in AttemptRecords /\ CompletedUncancelled(attempt)

-------------------------------------------------------------------------------
(***************************************************************************)
(* One attempt.                                                            *)
(***************************************************************************)

\* What a transition may make of an attempt.
Follows(new, old) == Sound(new) /\ (Sealed(old) => Sealed(new))

LEMMA StatusChange ==
  ASSUME NEW x, Sound(x), NEW status \in AttemptStatuses
  PROVE  LET y == [x EXCEPT !.status = status]
         IN  y \in AttemptRecords /\ y.status = status /\ y.cancel = x.cancel
  BY DEF Sound, AttemptRecords

\* Every transition of the store follows, each from the states it is allowed in.
LEMMA Transitions ==
  ASSUME NEW x, Sound(x)
  PROVE  /\ Follows(x, x)
         /\ CanBegin(x) => Follows(Begin(x), x)
         /\ Follows(Complete(x), x)
         /\ Follows(Fail(x), x)
         /\ Follows(CancelAttempt(x), x)
         /\ Follows(FinishCancel(x), x)
         /\ Follows([x EXCEPT !.status = "Removed"], x)
         /\ x.status = "Running" => \A s \in {"Cancelled", "Interrupted"} :
                                      Follows([x EXCEPT !.status = s], x)
  <1> USE DEF Follows, Sound, Sealed, CompletedUncancelled
  <1>1. {"Running", "Completed", "Failed", "Cancelled", "Interrupted", "Removed"}
          \subseteq AttemptStatuses
    BY DEF AttemptStatuses, ActiveStatuses, RetryableStatuses
  <1>2. Follows(x, x)
    OBVIOUS
  <1>3. CanBegin(x) => Follows(Begin(x), x)
    BY <1>1, StatusChange DEF CanBegin, Begin
  <1>4. Follows(Complete(x), x)
    BY <1>1, StatusChange DEF Complete, CanComplete
  <1>5. Follows(Fail(x), x)
    BY <1>1, StatusChange DEF Fail, IsActive, ActiveStatuses
  <1>6. Follows(CancelAttempt(x), x)
    <2>1. CASE x.status = "Running"
      <3>1. [x EXCEPT !.cancel = TRUE] \in AttemptRecords
            /\ [x EXCEPT !.cancel = TRUE].status = "Running"
        BY <2>1 DEF AttemptRecords
      <3> QED BY <2>1, <3>1 DEF CancelAttempt
    <2>2. CASE x.status = "Pending"
      BY <1>1, <2>2, StatusChange DEF CancelAttempt
    <2>3. CASE x.status \notin {"Pending", "Running"}
      BY <2>3 DEF CancelAttempt
    <2> QED BY <2>1, <2>2, <2>3
  <1>7. Follows(FinishCancel(x), x)
    BY <1>1, StatusChange DEF FinishCancel
  <1>8. Follows([x EXCEPT !.status = "Removed"], x)
    BY <1>1, StatusChange
  <1>9. x.status = "Running" => \A s \in {"Cancelled", "Interrupted"} :
                                  Follows([x EXCEPT !.status = s], x)
    BY <1>1, StatusChange
  <1> QED BY <1>2, <1>3, <1>4, <1>5, <1>6, <1>7, <1>8, <1>9

\* A completed attempt was running and nobody had asked to cancel it.
LEMMA CompletionSeals ==
  ASSUME NEW x, Sound(x), CanComplete(x) PROVE Sealed(Complete(x))
  BY StatusChange DEF CanComplete, Complete, Sealed, AttemptStatuses, Sound,
     AttemptRecords

-------------------------------------------------------------------------------
(***************************************************************************)
(* The store: a sequence that never shrinks and in which every attempt is   *)
(* sound; what was sealed stays sealed.                                    *)
(***************************************************************************)

StoreSound(store) ==
  store \in Seq(AttemptRecords) /\ \A a \in DOMAIN store : Sound(store[a])

Evolves(new, old) ==
  /\ StoreSound(new)
  /\ DOMAIN old \subseteq DOMAIN new
  /\ \A a \in DOMAIN old : Sealed(old[a]) => Sealed(new[a])

LEMMA SameLength ==
  ASSUME NEW S, NEW s \in Seq(S), NEW T, NEW f \in [DOMAIN s -> T] PROVE f \in Seq(T)
  <1>1. Len(s) \in Nat /\ f \in [1 .. Len(s) -> T]
    BY LenProperties
  <1> QED BY <1>1, SeqDef

\* Every attempt changed by a transition, or none.
LEMMA MapEvolves ==
  ASSUME NEW store, StoreSound(store), NEW new,
         new = [a \in DOMAIN store |-> new[a]],
         \A a \in DOMAIN store : Follows(new[a], store[a])
  PROVE  Evolves(new, store)
  <1>1. DOMAIN new = DOMAIN store /\ \A a \in DOMAIN new : Sound(new[a])
    BY DEF Follows
  <1>2. new \in [DOMAIN store -> AttemptRecords]
    BY <1>1 DEF Sound
  <1>3. new \in Seq(AttemptRecords)
    BY <1>2, SameLength DEF StoreSound
  <1> QED BY <1>1, <1>3 DEF Evolves, StoreSound, Follows

\* One attempt changed by a transition.
LEMMA UpdateEvolves ==
  ASSUME NEW store, StoreSound(store), NEW a \in DOMAIN store, NEW x,
         Follows(x, store[a])
  PROVE  Evolves([store EXCEPT ![a] = x], store)
  <1> DEFINE new == [store EXCEPT ![a] = x]
  <1>1. store = [b \in DOMAIN store |-> store[b]]
    BY LenProperties DEF StoreSound
  <1>2. /\ new = [b \in DOMAIN store |-> IF b = a THEN x ELSE store[b]]
        /\ \A b \in DOMAIN store : new[b] = IF b = a THEN x ELSE store[b]
    BY <1>1
  <1>3. new = [b \in DOMAIN store |-> new[b]]
    BY <1>2
  <1> HIDE DEF new
  <1>4. \A b \in DOMAIN store : Follows(new[b], store[b])
    BY <1>2, Transitions DEF StoreSound
  <1> QED BY <1>3, <1>4, MapEvolves DEF new

\* A new attempt at the end.
LEMMA AppendEvolves ==
  ASSUME NEW store, StoreSound(store), NEW c \in Callers
  PROVE  LET new == Append(store, NewAttempt(Key[c]))
         IN  Evolves(new, store) /\ Len(new) \in DOMAIN new
  <1> DEFINE x == NewAttempt(Key[c])
             new == Append(store, x)
  <1>1. x \in AttemptRecords /\ Sound(x)
    BY DEF NewAttempt, AttemptRecords, AttemptStatuses, ActiveStatuses, Keys, Sound,
       CompletedUncancelled
  <1>2. store \in Seq(AttemptRecords)
    BY DEF StoreSound
  <1> HIDE DEF x
  <1>3. /\ new \in Seq(AttemptRecords) /\ Len(new) = Len(store) + 1
        /\ \A a \in 1 .. Len(store) : new[a] = store[a]
        /\ new[Len(store) + 1] = x
    BY <1>1, <1>2
  <1>4. /\ Len(store) \in Nat /\ DOMAIN store = 1 .. Len(store)
        /\ DOMAIN new = 1 .. Len(store) + 1
    BY <1>2, <1>3, LenProperties
  <1> HIDE DEF new
  <1>5. \A a \in DOMAIN new : Sound(new[a])
    BY <1>1, <1>3, <1>4 DEF StoreSound
  <1>6. Evolves(new, store) /\ Len(new) \in DOMAIN new
    BY <1>3, <1>4, <1>5 DEF Evolves, StoreSound
  <1> QED BY <1>6 DEF new, x

\* The changes of the whole store.
LEMMA WholeStoreEvolves ==
  ASSUME NEW store, StoreSound(store)
  PROVE  /\ Evolves(store, store)
         /\ Evolves(CancelActive(store), store)
         /\ Evolves(RecoverRunning(store), store)
         /\ Evolves(RemoveAll(store), store)
  <1>1. Evolves(store, store)
    BY DEF Evolves
  <1>2. Evolves(CancelActive(store), store)
    <2> DEFINE new == CancelActive(store)
    <2>1. /\ new = [a \in DOMAIN store |-> new[a]]
          /\ \A a \in DOMAIN store : new[a] = CancelAttempt(store[a])
      BY DEF CancelActive
    <2> HIDE DEF new
    <2>2. \A a \in DOMAIN store : Follows(new[a], store[a])
      BY <2>1, Transitions DEF StoreSound
    <2> QED BY <2>1, <2>2, MapEvolves DEF new
  <1>3. Evolves(RecoverRunning(store), store)
    <2> DEFINE new == RecoverRunning(store)
    <2>1. /\ new = [a \in DOMAIN store |-> new[a]]
          /\ \A a \in DOMAIN store :
               /\ store[a].status # "Running" => new[a] = store[a]
               /\ store[a].status = "Running" =>
                    \E s \in {"Cancelled", "Interrupted"} :
                      new[a] = [store[a] EXCEPT !.status = s]
      BY DEF RecoverRunning
    <2> HIDE DEF new
    <2>2. ASSUME NEW a \in DOMAIN store PROVE Follows(new[a], store[a])
      <3>1. Sound(store[a])
        BY DEF StoreSound
      <3>2. CASE store[a].status # "Running"
        BY <2>1, <3>1, <3>2, Transitions
      <3>3. CASE store[a].status = "Running"
        <4>1. PICK s \in {"Cancelled", "Interrupted"} :
                new[a] = [store[a] EXCEPT !.status = s]
          BY <2>1, <3>3
        <4>2. Follows([store[a] EXCEPT !.status = s], store[a])
          BY <3>1, <3>3, Transitions
        <4> QED BY <4>1, <4>2
      <3> QED BY <3>2, <3>3
    <2> QED BY <2>1, <2>2, MapEvolves DEF new
  <1>4. Evolves(RemoveAll(store), store)
    <2> DEFINE new == RemoveAll(store)
    <2>1. /\ new = [a \in DOMAIN store |-> new[a]]
          /\ \A a \in DOMAIN store : new[a] = [store[a] EXCEPT !.status = "Removed"]
      BY DEF RemoveAll
    <2> HIDE DEF new
    <2>2. \A a \in DOMAIN store : Follows(new[a], store[a])
      BY <2>1, Transitions DEF StoreSound
    <2> QED BY <2>1, <2>2, MapEvolves DEF new
  <1> QED BY <1>1, <1>2, <1>3, <1>4

-------------------------------------------------------------------------------
(***************************************************************************)
(* The inductive invariant.  "Nobody is handed a cancelled result" is not   *)
(* inductive: the worker completes an attempt under the lock of the store   *)
(* and publishes it under another, so what it holds between the two must    *)
(* already be sealed, and what is sealed must never be cancelled again.     *)
(***************************************************************************)

JournalInv ==
  /\ journal \in Seq(Entries)
  /\ \A e \in DOMAIN journal : journal[e].attempt \in DOMAIN attempts
  /\ \A e, f \in DOMAIN journal : journal[e].attempt = journal[f].attempt => e = f

ThreadInv == pc \in [Threads -> Steps] /\ mine \in [Threads -> SUBSET DOMAIN attempts]

HoldsTicket == worker \notin {"rest", "wait", "next", "stopped"}

WorkerInv ==
  /\ worker \in WorkerSteps
  /\ HoldsTicket => ticket \in DOMAIN journal
  /\ worker = "publish" => Sealed(attempts[Current])

ResultInv == \A a \in results : a \in DOMAIN attempts /\ Sealed(attempts[a])

SignalInv ==
  /\ signaled \in BOOLEAN /\ shutdown \in BOOLEAN
  /\ attached \in BOOLEAN /\ resetting \in BOOLEAN

ResetInv ==
  /\ reset \in {"idle", "cancel", "await", "remove", "forget"}
  /\ listed \subseteq DOMAIN attempts

QueueInv ==
  /\ StoreSound(attempts) /\ JournalInv /\ ThreadInv /\ WorkerInv /\ ResultInv
  /\ SignalInv /\ ResetInv

LEMMA CurrentIsStored ==
  ASSUME JournalInv, WorkerInv, HoldsTicket PROVE Current \in DOMAIN attempts
  BY DEF JournalInv, WorkerInv, Current

\* Every step changes the store by transitions of its attempts.
LEMMA StoreStep ==
  ASSUME QueueInv, [Next]_vars PROVE Evolves(attempts', attempts)
  <1> USE DEF QueueInv
  <1>1. CASE attempts' = attempts
    BY <1>1, WholeStoreEvolves
  <1>2. ASSUME NEW c \in Callers, StartAttempt(c) \/ RetryAttempt(c)
        PROVE  Evolves(attempts', attempts)
    <2>1. attempts' = attempts \/ attempts' = Append(attempts, NewAttempt(Key[c]))
      BY <1>2 DEF StartAttempt, RetryAttempt, Create
    <2> QED BY <2>1, WholeStoreEvolves, AppendEvolves
  <1>3. ASSUME NEW c \in Callers, Expire(c) PROVE Evolves(attempts', attempts)
    <2>1. PICK a \in mine[c] : attempts' = [attempts EXCEPT ![a] = CancelAttempt(@)]
      BY <1>3 DEF Expire
    <2>2. a \in DOMAIN attempts
      BY <2>1 DEF ThreadInv, Threads
    <2> QED BY <2>1, <2>2, Transitions, UpdateEvolves DEF StoreSound
  <1>4. CASE BeginAttempt \/ CompleteAttempt \/ EndAttempt
    <2>1. HoldsTicket /\ Current \in DOMAIN attempts /\ Sound(attempts[Current])
      BY <1>4, CurrentIsStored
         DEF BeginAttempt, CompleteAttempt, EndAttempt, HoldsTicket, StoreSound
    <2>2. \/ attempts' = attempts
          \/ /\ CanBegin(attempts[Current])
             /\ attempts' = [attempts EXCEPT ![Current] = Begin(attempts[Current])]
          \/ attempts' = [attempts EXCEPT ![Current] = Complete(attempts[Current])]
          \/ attempts' = [attempts EXCEPT ![Current] = FinishCancel(attempts[Current])]
          \/ attempts' = [attempts EXCEPT ![Current] = Fail(attempts[Current])]
      BY <1>4 DEF BeginAttempt, CompleteAttempt, EndAttempt
    <2>3. \A x : Follows(x, attempts[Current])
                  => Evolves([attempts EXCEPT ![Current] = x], attempts)
      BY <2>1, UpdateEvolves
    <2>4. /\ CanBegin(attempts[Current])
               => Follows(Begin(attempts[Current]), attempts[Current])
          /\ Follows(Complete(attempts[Current]), attempts[Current])
          /\ Follows(FinishCancel(attempts[Current]), attempts[Current])
          /\ Follows(Fail(attempts[Current]), attempts[Current])
      BY <2>1, Transitions
    <2> QED BY <2>2, <2>3, <2>4, WholeStoreEvolves
  <1>5. CASE Cancel
    <2>1. PICK a \in ActiveAttempts(attempts) :
            attempts' = [attempts EXCEPT ![a] = CancelAttempt(@)]
      BY <1>5 DEF Cancel
    <2>2. a \in DOMAIN attempts
      BY <2>1 DEF ActiveAttempts
    <2> QED BY <2>1, <2>2, Transitions, UpdateEvolves DEF StoreSound
  <1>6. CASE CancelAll \/ RemoveAttempts \/ Restart
    BY <1>6, WholeStoreEvolves DEF CancelAll, RemoveAttempts, Restart
  <1>7. ASSUME NEW t \in Threads, Admit(t) PROVE attempts' = attempts
    BY <1>7 DEF Admit, CheckOpen, Insert, Wake, durable
  <1>8. ASSUME NEW c \in Callers, AwaitResult(c) PROVE attempts' = attempts
    BY <1>8 DEF AwaitResult, durable
  <1>9. ReadPending \/ Register \/ FinishAttach \/ RaiseBarrier \/ Shutdown
          => attempts' = attempts
    BY DEF ReadPending, Register, FinishAttach, RaiseBarrier, Shutdown, durable
  <1>10. WorkerStep => BeginAttempt \/ CompleteAttempt \/ EndAttempt \/ attempts' = attempts
    BY DEF WorkerStep, FallAsleep, WaitForSignal, NextTicket, Dispatch, RunAttempt,
       PublishResult, JudgeFailure, Consume, RetryLater, durable
  <1>11. AwaitEnd \/ ForgetResults => attempts' = attempts
    BY DEF AwaitEnd, ForgetResults, durable
  <1>12. CASE UNCHANGED vars
    BY <1>1, <1>12 DEF vars
  <1> QED BY <1>1, <1>2, <1>3, <1>4, <1>5, <1>6, <1>7, <1>8, <1>9, <1>10, <1>11, <1>12
          DEF Next, HostStep, CallerStep, ResetStep, Threads

\* Nobody but Insert and Consume writes the journal.
LEMMA JournalWriters ==
  ASSUME [Next]_vars
  PROVE  journal' = journal \/ (\E t \in Threads : Insert(t)) \/ Consume
  <1>1. ASSUME NEW c \in Callers, StartAttempt(c) \/ RetryAttempt(c) PROVE journal' = journal
    BY <1>1 DEF StartAttempt, RetryAttempt, Create
  <1>2. ASSUME NEW t \in Threads, Admit(t) PROVE journal' = journal \/ Insert(t)
    BY <1>2 DEF Admit, CheckOpen, Wake, durable
  <1>3. ASSUME NEW c \in Callers, AwaitResult(c) \/ Expire(c) PROVE journal' = journal
    BY <1>3 DEF AwaitResult, Expire, durable
  <1>4. ReadPending \/ Register \/ FinishAttach \/ Cancel \/ RaiseBarrier \/ Shutdown
          \/ Restart => journal' = journal
    BY DEF ReadPending, Register, FinishAttach, Cancel, RaiseBarrier, Shutdown, Restart,
       durable
  <1>5. WorkerStep => Consume \/ journal' = journal
    BY DEF WorkerStep, FallAsleep, WaitForSignal, NextTicket, Dispatch, BeginAttempt,
       RunAttempt, CompleteAttempt, PublishResult, JudgeFailure, EndAttempt, RetryLater,
       durable
  <1>6. ResetStep => journal' = journal
    BY DEF ResetStep, CancelAll, AwaitEnd, RemoveAttempts, ForgetResults, durable
  <1>7. UNCHANGED vars => journal' = journal
    BY DEF vars
  <1> QED BY <1>1, <1>2, <1>3, <1>4, <1>5, <1>6, <1>7
          DEF Next, HostStep, CallerStep, Threads

\* An admission adds one entry for an attempt that had none, or revives its own.
LEMMA AdmittedEntries ==
  ASSUME NEW entries \in Seq(Entries), NEW a \in Nat,
         \A e, f \in DOMAIN entries : entries[e].attempt = entries[f].attempt => e = f
  PROVE  LET new == Admitted(entries, a)
         IN  /\ new \in Seq(Entries)
             /\ DOMAIN entries \subseteq DOMAIN new
             /\ \A e \in DOMAIN entries : new[e].attempt = entries[e].attempt
             /\ \A e \in DOMAIN new \ DOMAIN entries : new[e].attempt = a
             /\ \A e, f \in DOMAIN new : new[e].attempt = new[f].attempt => e = f
  <1>1. DOMAIN entries = 1 .. Len(entries) /\ Len(entries) \in Nat
        /\ \A e \in DOMAIN entries : entries[e] \in Entries
    BY LenProperties
  <1>2. CASE \E e \in DOMAIN entries : entries[e].attempt = a
    <2> DEFINE new == [e \in DOMAIN entries |->
                         IF entries[e].attempt = a
                           THEN [entries[e] EXCEPT !.admitted = TRUE] ELSE entries[e]]
    <2>1. Admitted(entries, a) = new
      BY <1>2 DEF Admitted
    <2>2. \A e \in DOMAIN entries :
            new[e] \in Entries /\ new[e].attempt = entries[e].attempt
      BY <1>1 DEF Entries
    <2>3. new \in [DOMAIN entries -> Entries] /\ DOMAIN new = DOMAIN entries
      BY <2>2
    <2> HIDE DEF new
    <2>4. new \in Seq(Entries)
      BY <2>3, SameLength
    <2> QED BY <2>1, <2>2, <2>3, <2>4
  <1>3. CASE \A e \in DOMAIN entries : entries[e].attempt # a
    <2> DEFINE x == [attempt |-> a, admitted |-> TRUE]
               new == Append(entries, x)
    <2>1. Admitted(entries, a) = new
      BY <1>3 DEF Admitted
    <2>2. x \in Entries /\ x.attempt = a
      BY DEF Entries
    <2> HIDE DEF x
    <2>3. /\ new \in Seq(Entries) /\ Len(new) = Len(entries) + 1
          /\ \A e \in 1 .. Len(entries) : new[e] = entries[e]
          /\ new[Len(entries) + 1] = x
      BY <2>2
    <2>4. DOMAIN new = 1 .. Len(entries) + 1
      BY <1>1, <2>3, LenProperties
    <2> HIDE DEF new
    <2>5. \A e \in DOMAIN new \ DOMAIN entries : e = Len(entries) + 1 /\ new[e].attempt = a
      BY <1>1, <2>2, <2>3, <2>4
    <2>6. DOMAIN entries \subseteq DOMAIN new
          /\ \A e \in DOMAIN entries : new[e].attempt = entries[e].attempt
      BY <1>1, <2>3, <2>4
    <2>7. \A e, f \in DOMAIN new : new[e].attempt = new[f].attempt => e = f
      BY <1>3, <2>5, <2>6
    <2> QED BY <2>1, <2>3, <2>5, <2>6, <2>7
  <1> QED BY <1>2, <1>3

\* The journal keeps its entries and at most one of each attempt.
LEMMA JournalStep ==
  ASSUME QueueInv, [Next]_vars, Evolves(attempts', attempts)
  PROVE  /\ JournalInv'
         /\ DOMAIN journal \subseteq DOMAIN journal'
         /\ \A e \in DOMAIN journal : journal'[e].attempt = journal[e].attempt
  <1>1. JournalInv /\ DOMAIN attempts \subseteq DOMAIN attempts'
    BY DEF QueueInv, Evolves
  <1>2. CASE journal' = journal
    BY <1>1, <1>2 DEF JournalInv
  <1>3. ASSUME NEW t \in Threads, Insert(t)
        PROVE  /\ JournalInv'
               /\ DOMAIN journal \subseteq DOMAIN journal'
               /\ \A e \in DOMAIN journal : journal'[e].attempt = journal[e].attempt
    <2>1. PICK a \in mine[t] : journal' = Admitted(journal, a)
      BY <1>3 DEF Insert
    <2>2. a \in DOMAIN attempts
      BY <2>1 DEF QueueInv, ThreadInv
    <2>3. a \in Nat
      BY <2>2, LenProperties DEF QueueInv, StoreSound
    <2>4. /\ journal' \in Seq(Entries)
          /\ DOMAIN journal \subseteq DOMAIN journal'
          /\ \A e \in DOMAIN journal : journal'[e].attempt = journal[e].attempt
          /\ \A e \in DOMAIN journal' \ DOMAIN journal : journal'[e].attempt = a
          /\ \A e, f \in DOMAIN journal' :
               journal'[e].attempt = journal'[f].attempt => e = f
      BY <1>1, <2>1, <2>3, AdmittedEntries DEF JournalInv
    <2>5. \A e \in DOMAIN journal' : journal'[e].attempt \in DOMAIN attempts'
      BY <1>1, <2>2, <2>4 DEF JournalInv
    <2> QED BY <2>4, <2>5 DEF JournalInv
  <1>4. CASE Consume
    <2>1. /\ journal' = [journal EXCEPT ![ticket].admitted = FALSE]
          /\ ticket \in DOMAIN journal
      BY <1>4 DEF Consume, QueueInv, WorkerInv, HoldsTicket
    <2>2. DOMAIN journal = 1 .. Len(journal) /\ \A e \in DOMAIN journal : journal[e] \in Entries
      BY <1>1, LenProperties DEF JournalInv
    <2> DEFINE x == [journal[ticket] EXCEPT !.admitted = FALSE]
    <2>3. x \in Entries /\ x.attempt = journal[ticket].attempt
      BY <2>1, <2>2 DEF Entries
    <2>4. journal' = [journal EXCEPT ![ticket] = x]
      BY <2>1
    <2> HIDE DEF x
    <2>5. journal \in Seq(Entries) /\ ticket \in 1 .. Len(journal)
      BY <1>1, <2>1, <2>2 DEF JournalInv
    <2>6. /\ journal' \in Seq(Entries) /\ DOMAIN journal' = DOMAIN journal
          /\ \A e \in DOMAIN journal : journal'[e] = IF e = ticket THEN x ELSE journal[e]
      <3>1. [journal EXCEPT ![ticket] = x] \in Seq(Entries)
        BY <2>3, <2>5, ExceptSeq
      <3>2. \A e \in 1 .. Len(journal) :
              [journal EXCEPT ![ticket] = x][e] = IF e = ticket THEN x ELSE journal[e]
        BY <2>3, <2>5, ExceptSeq
      <3> QED BY <2>2, <2>4, <3>1, <3>2
    <2>7. \A e \in DOMAIN journal : journal'[e].attempt = journal[e].attempt
      BY <2>3, <2>6
    <2> QED BY <1>1, <2>6, <2>7 DEF JournalInv
  <1> QED BY <1>2, <1>3, <1>4, JournalWriters

-------------------------------------------------------------------------------
(***************************************************************************)
(* The threads.                                                            *)
(***************************************************************************)

LEMMA GotoKeeps ==
  ASSUME ThreadInv, DOMAIN attempts \subseteq DOMAIN attempts', NEW t \in Threads,
         NEW step \in Steps, NEW todo \in SUBSET DOMAIN attempts', Goto(t, step, todo)
  PROVE  ThreadInv'
  BY DEF ThreadInv, Goto

LEMMA ThreadStep ==
  ASSUME QueueInv, [Next]_vars, Evolves(attempts', attempts) PROVE ThreadInv'
  <1> DEFINE Moves == \E t \in Threads, step \in Steps, todo \in SUBSET DOMAIN attempts' :
                        Goto(t, step, todo)
  <1>1. ThreadInv /\ DOMAIN attempts \subseteq DOMAIN attempts'
    BY DEF QueueInv, Evolves
  <1>2. CASE UNCHANGED threads
    BY <1>1, <1>2 DEF ThreadInv, threads
  <1>3. CASE Moves
    BY <1>1, <1>3, GotoKeeps
  <1>4. CASE Restart
    <2>1. /\ pc' = [t \in Threads |-> IF t = Host THEN "start" ELSE "idle"]
          /\ mine' = [t \in Threads |-> {}]
      BY <1>4 DEF Restart, Started
    <2> QED BY <2>1 DEF ThreadInv, Steps
  <1>5. Host \in Threads /\ Callers \subseteq Threads
    BY DEF Threads
  <1>6. {"start", "register", "attached", "idle", "admit", "insert", "wake", "wait", "expire"}
          \subseteq Steps
    BY DEF Steps
  <1>7. \A t \in Threads : mine[t] \subseteq DOMAIN attempts'
    BY <1>1 DEF ThreadInv
  <1>8. ASSUME NEW c \in Callers, StartAttempt(c) \/ RetryAttempt(c) PROVE Moves
    <2>1. CASE \E a \in Shared(attempts, Key[c]) : Goto(c, "admit", {a})
      BY <1>1, <1>5, <1>6, <2>1 DEF Shared, ActiveAttempts
    <2>2. CASE /\ attempts' = Append(attempts, NewAttempt(Key[c]))
               /\ Goto(c, "admit", {Len(attempts')})
      <3>1. Len(attempts') \in DOMAIN attempts'
        BY <2>2, AppendEvolves DEF QueueInv
      <3> QED BY <1>5, <1>6, <2>2, <3>1
    <2> QED BY <1>8, <2>1, <2>2 DEF StartAttempt, RetryAttempt, Create
  <1>9. ASSUME NEW t \in Threads, Admit(t) PROVE Moves
    <2>1. CASE CheckOpen(t)
      BY <1>6, <1>7, <2>1 DEF CheckOpen
    <2>2. CASE Insert(t)
      BY <1>6, <1>7, <2>2 DEF Insert
    <2>3. CASE Wake(t)
      <3>1. AfterWake(t)
        BY <2>3 DEF Wake
      <3>2. CASE t = Host
        <4>1. PICK a \in mine[t] :
                Goto(t, IF mine[t] = {a} THEN "attached" ELSE "admit", mine[t] \ {a})
          BY <3>1, <3>2 DEF AfterWake
        <4>2. mine[t] \ {a} \in SUBSET DOMAIN attempts'
          BY <1>7
        <4> QED BY <1>6, <4>1, <4>2
      <3>3. CASE t # Host
        BY <1>6, <1>7, <3>1, <3>3 DEF AfterWake
      <3> QED BY <3>2, <3>3
    <2> QED BY <1>9, <2>1, <2>2, <2>3 DEF Admit
  <1>10. ASSUME NEW c \in Callers, AwaitResult(c) PROVE Moves
    <2>1. PICK a \in mine[c] : Goto(c, "idle", {}) \/ Goto(c, "expire", {a})
      BY <1>10 DEF AwaitResult
    <2>2. {a} \in SUBSET DOMAIN attempts' /\ {} \in SUBSET DOMAIN attempts'
      BY <1>5, <1>7, <2>1
    <2> QED BY <1>5, <1>6, <2>1, <2>2
  <1>11. ASSUME NEW c \in Callers, Expire(c) PROVE Moves
    BY <1>5, <1>6, <1>11 DEF Expire
  <1>12. ReadPending \/ Register \/ FinishAttach => Moves
    <2>1. PendingAttempts(attempts) \subseteq DOMAIN attempts'
      BY <1>1 DEF PendingAttempts
    <2>2. ReadPending => Goto(Host, "register", PendingAttempts(attempts))
      BY DEF ReadPending
    <2>3. FinishAttach => Goto(Host, "idle", {})
      BY DEF FinishAttach
    <2>4. Register => \E step \in {"attached", "admit"} : Goto(Host, step, mine[Host])
      BY DEF Register
    <2> QED BY <1>5, <1>6, <1>7, <2>1, <2>2, <2>3, <2>4
  <1>13. WorkerStep \/ ResetStep \/ Cancel \/ RaiseBarrier \/ Shutdown => UNCHANGED threads
    <2>1. WorkerStep => UNCHANGED threads
      BY DEF WorkerStep, FallAsleep, WaitForSignal, NextTicket, Dispatch, BeginAttempt,
         RunAttempt, CompleteAttempt, PublishResult, JudgeFailure, EndAttempt, Consume,
         RetryLater
    <2>2. ResetStep \/ Cancel \/ RaiseBarrier \/ Shutdown => UNCHANGED threads
      BY DEF ResetStep, CancelAll, AwaitEnd, RemoveAttempts, ForgetResults, Cancel,
         RaiseBarrier, Shutdown
    <2> QED BY <2>1, <2>2
  <1>14. UNCHANGED vars => UNCHANGED threads
    BY DEF vars
  <1> HIDE DEF Moves
  <1> QED BY <1>2, <1>3, <1>4, <1>5, <1>8, <1>9, <1>10, <1>11, <1>12, <1>13, <1>14
          DEF Next, HostStep, CallerStep

-------------------------------------------------------------------------------
(***************************************************************************)
(* The worker and the results.                                             *)
(***************************************************************************)

\* Only the worker moves itself, unless the process starts again.
LEMMA WorkerMovers ==
  ASSUME [Next]_vars PROVE UNCHANGED work \/ WorkerStep \/ Restart
  <1>1. ASSUME NEW c \in Callers, StartAttempt(c) \/ RetryAttempt(c) PROVE UNCHANGED work
    BY <1>1 DEF StartAttempt, RetryAttempt, Create
  <1>2. ASSUME NEW t \in Threads, Admit(t) PROVE UNCHANGED work
    BY <1>2 DEF Admit, CheckOpen, Insert, Wake
  <1>3. ASSUME NEW c \in Callers, AwaitResult(c) \/ Expire(c) PROVE UNCHANGED work
    BY <1>3 DEF AwaitResult, Expire
  <1>4. ReadPending \/ Register \/ FinishAttach \/ Cancel \/ RaiseBarrier \/ Shutdown
          \/ ResetStep => UNCHANGED work
    BY DEF ReadPending, Register, FinishAttach, Cancel, RaiseBarrier, Shutdown, ResetStep,
       CancelAll, AwaitEnd, RemoveAttempts, ForgetResults
  <1>5. UNCHANGED vars => UNCHANGED work
    BY DEF vars
  <1> QED BY <1>1, <1>2, <1>3, <1>4, <1>5 DEF Next, HostStep, CallerStep, Threads

\* The worker's ticket stays an entry, and what it is about to publish is sealed.
LEMMA WorkerStepInv ==
  ASSUME QueueInv, [Next]_vars, Evolves(attempts', attempts) PROVE WorkerInv'
  <1>1. /\ JournalInv /\ WorkerInv
        /\ DOMAIN journal \subseteq DOMAIN journal'
        /\ \A e \in DOMAIN journal : journal'[e].attempt = journal[e].attempt
    BY JournalStep DEF QueueInv
  <1>2. CASE UNCHANGED work
    <2>1. worker' = worker /\ ticket' = ticket
      BY <1>2 DEF work
    <2>2. worker = "publish" => /\ Current' = Current
                               /\ Current \in DOMAIN attempts
                               /\ Sealed(attempts[Current])
      BY <1>1, <2>1, CurrentIsStored DEF WorkerInv, HoldsTicket, Current
    <2>3. worker = "publish" => Sealed(attempts'[Current'])
      BY <2>2 DEF Evolves
    <2> QED BY <1>1, <2>1, <2>3 DEF WorkerInv, HoldsTicket
  <1>3. CASE CompleteAttempt
    <2>1. worker = "complete" /\ ticket' = ticket /\ journal' = journal
      BY <1>3 DEF CompleteAttempt
    <2>2. ticket \in DOMAIN journal /\ Current \in DOMAIN attempts /\ Current' = Current
      BY <1>1, <2>1, CurrentIsStored DEF WorkerInv, HoldsTicket, Current
    <2>3. CASE CanComplete(attempts[Current])
      <3>1. /\ attempts' = [attempts EXCEPT ![Current] = Complete(attempts[Current])]
            /\ worker' = "publish"
        BY <1>3, <2>3 DEF CompleteAttempt
      <3>2. Sound(attempts[Current])
        BY <2>2 DEF QueueInv, StoreSound
      <3>3. attempts = [a \in DOMAIN attempts |-> attempts[a]]
        BY LenProperties DEF QueueInv, StoreSound
      <3>4. attempts'[Current] = Complete(attempts[Current])
        BY <2>2, <3>1, <3>3
      <3>5. Sealed(attempts'[Current'])
        BY <2>2, <2>3, <3>2, <3>4, CompletionSeals
      <3> QED BY <2>1, <2>2, <3>1, <3>5 DEF WorkerInv, WorkerSteps, HoldsTicket
    <2>4. CASE ~CanComplete(attempts[Current])
      <3>1. worker' = "tombstone"
        BY <1>3, <2>4 DEF CompleteAttempt
      <3> QED BY <2>1, <2>2, <3>1 DEF WorkerInv, WorkerSteps, HoldsTicket
    <2> QED BY <2>3, <2>4
  <1>4. ASSUME worker' \in WorkerSteps \ {"publish"}, HoldsTicket' => ticket' \in DOMAIN journal
        PROVE  WorkerInv'
    BY <1>1, <1>4 DEF WorkerInv
  <1>5. CASE FallAsleep \/ WaitForSignal \/ Consume \/ RetryLater
    BY <1>4, <1>5 DEF FallAsleep, WaitForSignal, Consume, RetryLater, HoldsTicket, WorkerSteps
  <1>6. CASE NextTicket
    BY <1>4, <1>6 DEF NextTicket, HoldsTicket, WorkerSteps
  <1>7. CASE Dispatch \/ BeginAttempt \/ RunAttempt \/ PublishResult \/ JudgeFailure
             \/ EndAttempt
    <2>1. HoldsTicket /\ ticket' = ticket
      BY <1>7 DEF Dispatch, BeginAttempt, RunAttempt, PublishResult, JudgeFailure,
         EndAttempt, HoldsTicket
    <2>2. worker' \in WorkerSteps \ {"publish"}
      BY <1>7 DEF Dispatch, BeginAttempt, RunAttempt, PublishResult, JudgeFailure,
         EndAttempt, WorkerSteps
    <2> QED BY <1>1, <1>4, <2>1, <2>2 DEF WorkerInv
  <1>8. CASE Restart
    BY <1>4, <1>8 DEF Restart, Started, HoldsTicket, WorkerSteps
  <1> QED BY <1>2, <1>3, <1>5, <1>6, <1>7, <1>8, WorkerMovers DEF WorkerStep

\* Results are added only by the worker that publishes.
LEMMA ResultWriters ==
  ASSUME [Next]_vars PROVE results' \subseteq results \/ PublishResult
  <1>1. ASSUME NEW c \in Callers, StartAttempt(c) \/ RetryAttempt(c) PROVE results' = results
    BY <1>1 DEF StartAttempt, RetryAttempt, Create
  <1>2. ASSUME NEW t \in Threads, Admit(t) PROVE results' = results
    BY <1>2 DEF Admit, CheckOpen, Insert, Wake
  <1>3. ASSUME NEW c \in Callers, AwaitResult(c) \/ Expire(c) PROVE results' \subseteq results
    BY <1>3 DEF AwaitResult, Expire
  <1>4. ReadPending \/ Register \/ FinishAttach \/ Cancel \/ RaiseBarrier \/ Shutdown
          => results' = results
    BY DEF ReadPending, Register, FinishAttach, Cancel, RaiseBarrier, Shutdown
  <1>5. WorkerStep => PublishResult \/ results' = results
    BY DEF WorkerStep, FallAsleep, WaitForSignal, NextTicket, Dispatch, BeginAttempt,
       RunAttempt, CompleteAttempt, JudgeFailure, EndAttempt, Consume, RetryLater
  <1>6. ResetStep \/ Restart => results' \subseteq results
    BY DEF ResetStep, CancelAll, AwaitEnd, RemoveAttempts, ForgetResults, Restart, Started
  <1>7. UNCHANGED vars => results' = results
    BY DEF vars
  <1> QED BY <1>1, <1>2, <1>3, <1>4, <1>5, <1>6, <1>7
          DEF Next, HostStep, CallerStep, Threads

LEMMA ResultStep ==
  ASSUME QueueInv, [Next]_vars, Evolves(attempts', attempts) PROVE ResultInv'
  <1>1. ResultInv /\ DOMAIN attempts \subseteq DOMAIN attempts'
        /\ \A a \in DOMAIN attempts : Sealed(attempts[a]) => Sealed(attempts'[a])
    BY DEF QueueInv, Evolves
  <1>2. CASE results' \subseteq results
    BY <1>1, <1>2 DEF ResultInv
  <1>3. CASE PublishResult
    <2>1. worker = "publish" /\ results' = results \cup {Current}
      BY <1>3 DEF PublishResult
    <2>2. Current \in DOMAIN attempts /\ Sealed(attempts[Current])
      BY <2>1, CurrentIsStored DEF QueueInv, WorkerInv, HoldsTicket
    <2> QED BY <1>1, <2>1, <2>2 DEF ResultInv
  <1> QED BY <1>2, <1>3, ResultWriters

-------------------------------------------------------------------------------
(***************************************************************************)
(* The flags and the reset thread.                                         *)
(***************************************************************************)

LEMMA SignalStep ==
  ASSUME QueueInv, [Next]_vars PROVE SignalInv'
  <1> USE DEF QueueInv, SignalInv, signal, resets
  <1>1. ASSUME NEW c \in Callers, StartAttempt(c) \/ RetryAttempt(c) PROVE SignalInv'
    BY <1>1 DEF StartAttempt, RetryAttempt, Create
  <1>2. ASSUME NEW t \in Threads, Admit(t) PROVE SignalInv'
    BY <1>2 DEF Admit, CheckOpen, Insert, Wake
  <1>3. ASSUME NEW c \in Callers, AwaitResult(c) \/ Expire(c) PROVE SignalInv'
    BY <1>3 DEF AwaitResult, Expire
  <1>4. ReadPending \/ Register \/ FinishAttach \/ Cancel \/ RaiseBarrier \/ Shutdown
          => SignalInv'
    BY DEF ReadPending, Register, FinishAttach, Cancel, RaiseBarrier, Shutdown
  <1>5. WorkerStep => SignalInv'
    BY DEF WorkerStep, FallAsleep, SignalKept, WaitForSignal, NextTicket, Dispatch,
       BeginAttempt, RunAttempt, CompleteAttempt, PublishResult, JudgeFailure, EndAttempt,
       Consume, RetryLater
  <1>6. ResetStep \/ Restart => SignalInv'
    BY DEF ResetStep, CancelAll, AwaitEnd, RemoveAttempts, ForgetResults, Restart, Started
  <1>7. UNCHANGED vars => SignalInv'
    BY DEF vars
  <1> QED BY <1>1, <1>2, <1>3, <1>4, <1>5, <1>6, <1>7
          DEF Next, HostStep, CallerStep, Threads

LEMMA ResetStepInv ==
  ASSUME QueueInv, [Next]_vars, Evolves(attempts', attempts) PROVE ResetInv'
  <1>1. ResetInv /\ DOMAIN attempts \subseteq DOMAIN attempts'
    BY DEF QueueInv, Evolves
  <1>2. CASE UNCHANGED <<reset, listed>>
    BY <1>1, <1>2 DEF ResetInv
  <1>3. ASSUME NEW c \in Callers, StartAttempt(c) \/ RetryAttempt(c)
        PROVE  UNCHANGED <<reset, listed>>
    BY <1>3 DEF StartAttempt, RetryAttempt, Create, resets
  <1>4. ASSUME NEW t \in Threads, Admit(t) PROVE UNCHANGED <<reset, listed>>
    BY <1>4 DEF Admit, CheckOpen, Insert, Wake, resets
  <1>5. ASSUME NEW c \in Callers, AwaitResult(c) \/ Expire(c)
        PROVE  UNCHANGED <<reset, listed>>
    BY <1>5 DEF AwaitResult, Expire, resets
  <1>6. ReadPending \/ Register \/ FinishAttach \/ Cancel \/ Shutdown
          => UNCHANGED <<reset, listed>>
    BY DEF ReadPending, Register, FinishAttach, Cancel, Shutdown, resets
  <1>7. WorkerStep => UNCHANGED <<reset, listed>>
    BY DEF WorkerStep, FallAsleep, WaitForSignal, NextTicket, Dispatch, BeginAttempt,
       RunAttempt, CompleteAttempt, PublishResult, JudgeFailure, EndAttempt, Consume,
       RetryLater, resets
  <1>8. RaiseBarrier \/ ResetStep \/ Restart => ResetInv'
    BY <1>1 DEF ResetInv, RaiseBarrier, ResetStep, CancelAll, AwaitEnd, RemoveAttempts,
       ForgetResults, Restart, Started
  <1>9. UNCHANGED vars => UNCHANGED <<reset, listed>>
    BY DEF vars, resets
  <1> QED BY <1>2, <1>3, <1>4, <1>5, <1>6, <1>7, <1>8, <1>9
          DEF Next, HostStep, CallerStep, Threads

-------------------------------------------------------------------------------
LEMMA InitSound == Init => QueueInv
  <1> SUFFICES ASSUME Init PROVE QueueInv
    OBVIOUS
  <1>1. attempts = << >> /\ journal = << >>
    BY DEF Init
  <1>2. StoreSound(attempts)
    BY <1>1, EmptySeq DEF StoreSound
  <1>3. JournalInv
    BY <1>1, EmptySeq DEF JournalInv
  <1>4. ThreadInv
    BY DEF Init, ThreadInv, Steps
  <1>5. WorkerInv /\ ResultInv /\ SignalInv /\ ResetInv
    BY DEF Init, WorkerInv, HoldsTicket, WorkerSteps, ResultInv, SignalInv, ResetInv
  <1> QED BY <1>2, <1>3, <1>4, <1>5 DEF QueueInv

LEMMA StepSound == QueueInv /\ [Next]_vars => QueueInv'
  <1> SUFFICES ASSUME QueueInv, [Next]_vars PROVE QueueInv'
    OBVIOUS
  <1>1. Evolves(attempts', attempts)
    BY StoreStep
  <1>2. StoreSound(attempts)'
    BY <1>1 DEF Evolves, StoreSound
  <1>3. JournalInv' /\ ThreadInv' /\ WorkerInv' /\ ResultInv' /\ SignalInv' /\ ResetInv'
    BY <1>1, JournalStep, ThreadStep, WorkerStepInv, ResultStep, SignalStep, ResetStepInv
  <1> QED BY <1>2, <1>3 DEF QueueInv

\* The inductive invariant holds in every behaviour.
THEOREM QueueStaysSound == Spec => []QueueInv
  BY InitSound, StepSound, PTL DEF Spec

\* The state keeps its shape: in particular the worker always holds a ticket of the
\* journal and no attempt has two places in it.
THEOREM QueueTypeCorrect == Spec => []TypeOK
  <1>1. QueueInv => TypeOK
    <2> SUFFICES ASSUME QueueInv PROVE TypeOK
      OBVIOUS
    <2>1. \A a \in DOMAIN attempts : /\ attempts[a].status \in AttemptStatuses
                                    /\ attempts[a].cancel \in BOOLEAN
      BY DEF QueueInv, StoreSound, Sound, AttemptRecords
    <2>2. \A e \in DOMAIN journal : /\ journal[e].attempt \in DOMAIN attempts
                                   /\ journal[e].admitted \in BOOLEAN
      <3>1. journal \in Seq(Entries)
        BY DEF QueueInv, JournalInv
      <3>2. \A e \in DOMAIN journal : journal[e] \in Entries
        BY <3>1, LenProperties
      <3> QED BY <3>2 DEF QueueInv, JournalInv, Entries
    <2>3. {signaled, shutdown, attached, resetting} \subseteq BOOLEAN
      BY DEF QueueInv, SignalInv
    <2> QED BY <2>1, <2>2, <2>3
            DEF TypeOK, QueueInv, JournalInv, ThreadInv, WorkerInv, HoldsTicket, ResultInv,
                ResetInv
  <1> QED BY <1>1, QueueStaysSound, PTL

\* A cancellation that was taken wins: what was asked to stop is never completed and
\* its result is never handed over, whatever threads, resets and restarts do.
THEOREM CancellationWins == Spec => []CancelledNeverPublishes
  <1>1. QueueInv => CancelledNeverPublishes
    BY DEF QueueInv, StoreSound, Sound, CompletedUncancelled, ResultInv, Sealed,
       CancelledNeverPublishes
  <1> QED BY <1>1, QueueStaysSound, PTL

-------------------------------------------------------------------------------
(***************************************************************************)
(* A reset deletes what has ended.  It looked at the attempts before, under *)
(* another lock: what was not active then is not active now, because only a *)
(* new attempt is, and only callers that wait pass the barrier meanwhile.   *)
(***************************************************************************)

WaitKeys == {Key[c] : c \in Waits}

\* Neither queued again nor removed.
Ordinary(new, old) ==
  /\ new.key = old.key
  /\ IsActive(new) => IsActive(old)
  /\ new.status = "Removed" => old.status = "Removed"

BarrierInv ==
  /\ reset # "idle" => resetting
  /\ reset = "remove" => \A a \in ActiveAttempts(attempts) : attempts[a].key \in WaitKeys

LEMMA OrdinaryTransitions ==
  ASSUME NEW x, Sound(x)
  PROVE  /\ Ordinary(x, x)
         /\ CanBegin(x) => Ordinary(Begin(x), x)
         /\ Ordinary(Complete(x), x)
         /\ Ordinary(Fail(x), x)
         /\ Ordinary(CancelAttempt(x), x)
         /\ Ordinary(FinishCancel(x), x)
         /\ \A s \in {"Cancelled", "Interrupted"} : Ordinary([x EXCEPT !.status = s], x)
  <1> USE DEF Ordinary, IsActive, ActiveStatuses
  <1>1. x = [key |-> x.key, status |-> x.status, cancel |-> x.cancel]
    BY DEF Sound, AttemptRecords
  <1>2. \A s : LET y == [x EXCEPT !.status = s]
               IN  y.status = s /\ y.key = x.key
    BY <1>1
  <1>3. [x EXCEPT !.cancel = TRUE].status = x.status /\ [x EXCEPT !.cancel = TRUE].key = x.key
    BY <1>1
  <1>4. CanBegin(x) => Ordinary(Begin(x), x)
    BY <1>2 DEF CanBegin, Begin
  <1>5. Ordinary(Complete(x), x)
    BY <1>2 DEF Complete, CanComplete
  <1>6. Ordinary(Fail(x), x)
    BY <1>2 DEF Fail
  <1>7. Ordinary(CancelAttempt(x), x)
    BY <1>2, <1>3 DEF CancelAttempt
  <1>8. Ordinary(FinishCancel(x), x)
    BY <1>2 DEF FinishCancel
  <1>9. \A s \in {"Cancelled", "Interrupted"} : Ordinary([x EXCEPT !.status = s], x)
    BY <1>2
  <1> QED BY <1>4, <1>5, <1>6, <1>7, <1>8, <1>9

OrdinaryStore(new, old) ==
  DOMAIN new = DOMAIN old /\ \A a \in DOMAIN old : Ordinary(new[a], old[a])

LEMMA OrdinaryUpdate ==
  ASSUME NEW store, StoreSound(store), NEW a \in DOMAIN store, NEW x, Ordinary(x, store[a])
  PROVE  OrdinaryStore([store EXCEPT ![a] = x], store)
  <1>1. store = [b \in DOMAIN store |-> store[b]]
    BY LenProperties DEF StoreSound
  <1>2. \A b \in DOMAIN store : Ordinary(store[b], store[b])
    BY OrdinaryTransitions DEF StoreSound
  <1> QED BY <1>1, <1>2 DEF OrdinaryStore

LEMMA OrdinarySame ==
  ASSUME NEW store, StoreSound(store) PROVE OrdinaryStore(store, store)
  BY OrdinaryTransitions DEF StoreSound, OrdinaryStore

LEMMA OrdinaryStores ==
  ASSUME NEW store, StoreSound(store)
  PROVE  OrdinaryStore(CancelActive(store), store) /\ OrdinaryStore(RecoverRunning(store), store)
  <1>1. OrdinaryStore(CancelActive(store), store)
    BY OrdinaryTransitions DEF StoreSound, OrdinaryStore, CancelActive
  <1>2. ASSUME NEW a \in DOMAIN store PROVE Ordinary(RecoverRunning(store)[a], store[a])
    <2>1. /\ Ordinary(store[a], store[a])
          /\ \A s \in {"Cancelled", "Interrupted"} : Ordinary([store[a] EXCEPT !.status = s], store[a])
      BY OrdinaryTransitions DEF StoreSound
    <2>2. RecoverRunning(store)[a] \in {store[a], [store[a] EXCEPT !.status = "Cancelled"],
                                       [store[a] EXCEPT !.status = "Interrupted"]}
      BY DEF RecoverRunning
    <2> QED BY <2>1, <2>2
  <1>3. DOMAIN RecoverRunning(store) = DOMAIN store
    BY DEF RecoverRunning
  <1> QED BY <1>1, <1>2, <1>3 DEF OrdinaryStore

\* What a step does to the store: it creates an attempt behind the barrier, takes
\* ordinary transitions, or is the removal of a reset.
LEMMA StoreMoves ==
  ASSUME QueueInv, [Next]_vars
  PROVE  \/ OrdinaryStore(attempts', attempts)
         \/ \E c \in Callers : /\ attempts' = Append(attempts, NewAttempt(Key[c]))
                               /\ resetting => c \in Waits
                               /\ UNCHANGED <<resetting, reset>>
         \/ RemoveAttempts
  <1> USE DEF QueueInv
  <1>1. CASE attempts' = attempts
    BY <1>1, OrdinarySame
  <1>2. ASSUME NEW c \in Callers, StartAttempt(c) \/ RetryAttempt(c)
        PROVE  \/ attempts' = attempts
               \/ /\ attempts' = Append(attempts, NewAttempt(Key[c]))
                  /\ resetting => c \in Waits
                  /\ UNCHANGED <<resetting, reset>>
    BY <1>2 DEF StartAttempt, RetryAttempt, Create, PassesBarrier, resets
  <1>3. ASSUME NEW c \in Callers, Expire(c) PROVE OrdinaryStore(attempts', attempts)
    <2>1. PICK a \in mine[c] : attempts' = [attempts EXCEPT ![a] = CancelAttempt(@)]
      BY <1>3 DEF Expire
    <2>2. a \in DOMAIN attempts
      BY <2>1 DEF ThreadInv, Threads
    <2> QED BY <2>1, <2>2, OrdinaryTransitions, OrdinaryUpdate DEF StoreSound
  <1>4. CASE BeginAttempt \/ CompleteAttempt \/ EndAttempt
    <2>1. HoldsTicket /\ Current \in DOMAIN attempts /\ Sound(attempts[Current])
      BY <1>4, CurrentIsStored
         DEF BeginAttempt, CompleteAttempt, EndAttempt, HoldsTicket, StoreSound
    <2>2. \/ attempts' = attempts
          \/ /\ CanBegin(attempts[Current])
             /\ attempts' = [attempts EXCEPT ![Current] = Begin(attempts[Current])]
          \/ attempts' = [attempts EXCEPT ![Current] = Complete(attempts[Current])]
          \/ attempts' = [attempts EXCEPT ![Current] = FinishCancel(attempts[Current])]
          \/ attempts' = [attempts EXCEPT ![Current] = Fail(attempts[Current])]
      BY <1>4 DEF BeginAttempt, CompleteAttempt, EndAttempt
    <2>3. \A x : Ordinary(x, attempts[Current])
                  => OrdinaryStore([attempts EXCEPT ![Current] = x], attempts)
      BY <2>1, OrdinaryUpdate
    <2>4. /\ CanBegin(attempts[Current])
               => Ordinary(Begin(attempts[Current]), attempts[Current])
          /\ Ordinary(Complete(attempts[Current]), attempts[Current])
          /\ Ordinary(FinishCancel(attempts[Current]), attempts[Current])
          /\ Ordinary(Fail(attempts[Current]), attempts[Current])
      BY <2>1, OrdinaryTransitions
    <2> QED BY <2>2, <2>3, <2>4, OrdinarySame
  <1>5. CASE Cancel
    <2>1. PICK a \in ActiveAttempts(attempts) :
            attempts' = [attempts EXCEPT ![a] = CancelAttempt(@)]
      BY <1>5 DEF Cancel
    <2>2. a \in DOMAIN attempts
      BY <2>1 DEF ActiveAttempts
    <2> QED BY <2>1, <2>2, OrdinaryTransitions, OrdinaryUpdate DEF StoreSound
  <1>6. CASE CancelAll \/ Restart
    BY <1>6, OrdinaryStores DEF CancelAll, Restart
  <1>7. ASSUME NEW t \in Threads, Admit(t) PROVE attempts' = attempts
    BY <1>7 DEF Admit, CheckOpen, Insert, Wake, durable
  <1>8. ASSUME NEW c \in Callers, AwaitResult(c) PROVE attempts' = attempts
    BY <1>8 DEF AwaitResult, durable
  <1>9. ReadPending \/ Register \/ FinishAttach \/ RaiseBarrier \/ Shutdown
          => attempts' = attempts
    BY DEF ReadPending, Register, FinishAttach, RaiseBarrier, Shutdown, durable
  <1>10. WorkerStep => BeginAttempt \/ CompleteAttempt \/ EndAttempt \/ attempts' = attempts
    BY DEF WorkerStep, FallAsleep, WaitForSignal, NextTicket, Dispatch, RunAttempt,
       PublishResult, JudgeFailure, Consume, RetryLater, durable
  <1>11. AwaitEnd \/ ForgetResults => attempts' = attempts
    BY DEF AwaitEnd, ForgetResults, durable
  <1>12. UNCHANGED vars => attempts' = attempts
    BY DEF vars
  <1> QED BY <1>1, <1>2, <1>3, <1>4, <1>5, <1>6, <1>7, <1>8, <1>9, <1>10, <1>11, <1>12
          DEF Next, HostStep, CallerStep, ResetStep, Threads

\* Only the reset moves the reset, its barrier up for as long.
LEMMA ResetMoves ==
  ASSUME QueueInv, BarrierInv, [Next]_vars
  PROVE  \/ UNCHANGED <<resetting, reset>>
         \/ reset' = "idle"
         \/ reset' \in {"cancel", "await", "forget"} /\ resetting'
         \/ /\ reset = "await" /\ reset' = "remove" /\ UNCHANGED <<resetting, attempts>>
            /\ NothingActive
  <1> USE DEF BarrierInv
  <1>1. ASSUME NEW c \in Callers, StartAttempt(c) \/ RetryAttempt(c)
        PROVE  UNCHANGED <<resetting, reset>>
    BY <1>1 DEF StartAttempt, RetryAttempt, Create, resets
  <1>2. ASSUME NEW t \in Threads, Admit(t) PROVE UNCHANGED <<resetting, reset>>
    BY <1>2 DEF Admit, CheckOpen, Insert, Wake, resets
  <1>3. ASSUME NEW c \in Callers, AwaitResult(c) \/ Expire(c)
        PROVE  UNCHANGED <<resetting, reset>>
    BY <1>3 DEF AwaitResult, Expire, resets
  <1>4. ReadPending \/ Register \/ FinishAttach \/ Cancel \/ Shutdown
          => UNCHANGED <<resetting, reset>>
    BY DEF ReadPending, Register, FinishAttach, Cancel, Shutdown, resets
  <1>5. WorkerStep => UNCHANGED <<resetting, reset>>
    BY DEF WorkerStep, FallAsleep, WaitForSignal, NextTicket, Dispatch, BeginAttempt,
       RunAttempt, CompleteAttempt, PublishResult, JudgeFailure, EndAttempt, Consume,
       RetryLater, resets
  <1>6. RaiseBarrier => reset' = "cancel" /\ resetting'
    BY DEF RaiseBarrier
  <1>7. CancelAll => reset' = "await" /\ resetting'
    BY DEF CancelAll
  <1>8. AwaitEnd => \/ reset' = "idle"
                    \/ /\ reset = "await" /\ reset' = "remove" /\ UNCHANGED <<resetting, attempts>>
                       /\ NothingActive
    BY DEF AwaitEnd, durable
  <1>9. RemoveAttempts => reset' = "forget" /\ resetting'
    BY DEF RemoveAttempts
  <1>10. ForgetResults \/ Restart => reset' = "idle"
    BY DEF ForgetResults, Restart, Started
  <1>11. UNCHANGED vars => UNCHANGED <<resetting, reset>>
    BY DEF vars, resets
  <1> QED BY <1>1, <1>2, <1>3, <1>4, <1>5, <1>6, <1>7, <1>8, <1>9, <1>10, <1>11
          DEF Next, HostStep, CallerStep, ResetStep, Threads

LEMMA BarrierStep == QueueInv /\ BarrierInv /\ [Next]_vars => BarrierInv'
  <1> SUFFICES ASSUME QueueInv, BarrierInv, [Next]_vars PROVE BarrierInv'
    OBVIOUS
  <1>1. reset' # "idle" => resetting'
    BY ResetMoves DEF BarrierInv
  <1>2. ASSUME reset' = "remove", NEW a \in ActiveAttempts(attempts')
        PROVE  attempts'[a].key \in WaitKeys
    <2>1. CASE NothingActive /\ attempts' = attempts
      BY <1>2, <2>1 DEF NothingActive
    <2>2. CASE UNCHANGED <<resetting, reset>>
      <3>1. resetting /\ \A b \in ActiveAttempts(attempts) : attempts[b].key \in WaitKeys
        BY <1>2, <2>2 DEF BarrierInv
      <3>2. CASE OrdinaryStore(attempts', attempts)
        BY <1>2, <3>1, <3>2 DEF OrdinaryStore, Ordinary, ActiveAttempts
      <3>3. ASSUME NEW c \in Callers, attempts' = Append(attempts, NewAttempt(Key[c])), c \in Waits
            PROVE  attempts'[a].key \in WaitKeys
        <4>1. attempts \in Seq(AttemptRecords)
          BY DEF QueueInv, StoreSound
        <4>2. CASE a \in DOMAIN attempts
          <5>1. attempts'[a] = attempts[a]
            BY <3>3, <4>1, <4>2
          <5> QED BY <1>2, <3>1, <4>2, <5>1 DEF ActiveAttempts
        <4>3. CASE a \notin DOMAIN attempts
          <5>1. a = Len(attempts) + 1 /\ attempts'[a] = NewAttempt(Key[c])
            BY <1>2, <3>3, <4>1, <4>3 DEF ActiveAttempts
          <5> QED BY <3>3, <5>1 DEF NewAttempt, WaitKeys
        <4> QED BY <4>2, <4>3
      <3>4. ~RemoveAttempts
        BY <1>2, <2>2 DEF RemoveAttempts
      <3> QED BY <3>1, <3>2, <3>3, <3>4, StoreMoves
    <2> QED BY <1>2, <2>1, <2>2, ResetMoves
  <1> QED BY <1>1, <1>2 DEF BarrierInv

\* Of work asked for only by callers that pass the barrier, a reset deletes attempts that
\* ended, though it looked at them under another lock before.  Attempts for the work of
\* callers that wait for their result are created around the barrier, and may be deleted
\* while they are pending or running.
THEOREM ResetTakesWhatEnded == Spec => ResetWaitsForWork
  <1> DEFINE Waited ==
        \A a \in DOMAIN attempts :
          attempts[a].status \in ActiveStatuses /\ attempts[a].key \notin {Key[c] : c \in Waits}
            => attempts'[a].status # "Removed"
  <1>1. Init => BarrierInv
    BY DEF Init, BarrierInv
  <1>2. Spec => []BarrierInv
    BY <1>1, BarrierStep, QueueStaysSound, PTL DEF Spec
  <1>3. ASSUME QueueInv, BarrierInv, Next, NEW a \in DOMAIN attempts,
               attempts[a].status \in ActiveStatuses, attempts[a].key \notin WaitKeys
        PROVE  attempts'[a].status # "Removed"
    <2>1. CASE OrdinaryStore(attempts', attempts)
      BY <1>3, <2>1 DEF OrdinaryStore, Ordinary, ActiveStatuses
    <2>2. ASSUME NEW c \in Callers, attempts' = Append(attempts, NewAttempt(Key[c]))
          PROVE  attempts'[a].status # "Removed"
      <3>1. attempts \in Seq(AttemptRecords)
        BY <1>3 DEF QueueInv, StoreSound
      <3>2. attempts'[a] = attempts[a]
        BY <1>3, <2>2, <3>1
      <3> QED BY <1>3, <3>2 DEF ActiveStatuses
    <2>3. ~RemoveAttempts
      BY <1>3 DEF RemoveAttempts, BarrierInv, ActiveAttempts, IsActive
    <2> QED BY <1>3, <2>1, <2>2, <2>3, StoreMoves
  <1>4. QueueInv /\ BarrierInv /\ [Next]_vars => [Waited]_vars
    BY <1>3 DEF WaitKeys
  <1>5. Spec => [][Waited]_vars
    BY <1>2, <1>4, QueueStaysSound, PTL DEF Spec
  <1> QED BY <1>5 DEF ResetWaitsForWork

-------------------------------------------------------------------------------
(***************************************************************************)
(* The journal is one line (AttemptLine).  What the worker read of it under *)
(* one lock it acts upon under another, so the invariant says what stays    *)
(* true meanwhile: nothing is queued again, so nobody stands before the     *)
(* entry the worker holds, and what it passed needs no place any more.      *)
(***************************************************************************)

\* The steps in which the worker has begun an attempt and not ended it.
Serving == {"run", "complete", "judge", "fail", "finish"}

Stands(e) == attempts[journal[e].attempt].status = "Pending"

Bounded == DOMAIN attempts \subseteq 1 .. MaxAttempts

\* A tombstone is of an attempt that waits no more.
Tombstones == \A e \in DOMAIN journal : Stands(e) => journal[e].admitted

Ahead == HoldsTicket => \A e \in DOMAIN journal : e < ticket => ~Stands(e)

Begun == worker \in Serving \cup {"publish", "tombstone"} => ~Stands(ticket)

\* Only the attempt the worker serves is running, or the one a shutdown left so.
Alone ==
  /\ \A a, b \in Served : a = b
  /\ \A a \in Served : \/ worker \in Serving /\ a = Current
                       \/ shutdown /\ worker \in {"tombstone", "next", "stopped"}

\* The runner is told to end by a cancellation, a removal or the shutdown.
Told == worker = "finish" => shutdown \/ attempts[Current].cancel \/ Current \notin Served

LineInv == Bounded /\ Tombstones /\ Ahead /\ Begun /\ Alone /\ Told

\* What a transition may make of an attempt's place.
LEMMA LineTransitions ==
  ASSUME NEW x, Sound(x)
  PROVE  /\ CancelAttempt(x).status # "Pending"
         /\ CancelAttempt(x).status = "Running" => x.status = "Running"
         /\ x.cancel => CancelAttempt(x).cancel
         /\ Begin(x).status = "Running"
         /\ CanComplete(x) => Complete(x).status = "Completed"
         /\ Fail(x).status \notin ActiveStatuses
         /\ FinishCancel(x).status = "Pending" => x.status = "Pending"
         /\ FinishCancel(x).status = "Running" => x.status = "Running" /\ ~x.cancel
  <1>1. x = [key |-> x.key, status |-> x.status, cancel |-> x.cancel]
        /\ x.status \in AttemptStatuses
    BY DEF Sound, AttemptRecords
  <1>2. \A s : LET y == [x EXCEPT !.status = s] IN y.status = s /\ y.cancel = x.cancel
    BY <1>1
  <1>3. [x EXCEPT !.cancel = TRUE].status = x.status /\ [x EXCEPT !.cancel = TRUE].cancel
    BY <1>1
  <1>4. /\ CancelAttempt(x).status # "Pending"
        /\ CancelAttempt(x).status = "Running" => x.status = "Running"
        /\ x.cancel => CancelAttempt(x).cancel
    <2>1. CASE x.status = "Pending"
      <3>1. CancelAttempt(x) = [x EXCEPT !.status = "Cancelled"]
        BY <2>1 DEF CancelAttempt
      <3> QED BY <1>2, <2>1, <3>1
    <2>2. CASE x.status = "Running"
      BY <1>3, <2>2 DEF CancelAttempt
    <2>3. CASE x.status \notin {"Pending", "Running"}
      BY <2>3 DEF CancelAttempt
    <2> QED BY <2>1, <2>2, <2>3
  <1>5. Begin(x).status = "Running" /\ (CanComplete(x) => Complete(x).status = "Completed")
    BY <1>2 DEF Begin, Complete
  <1>6. Fail(x).status \notin ActiveStatuses
    BY <1>2 DEF Fail, IsActive, ActiveStatuses
  <1>7. /\ FinishCancel(x).status = "Pending" => x.status = "Pending"
        /\ FinishCancel(x).status = "Running" => x.status = "Running" /\ ~x.cancel
    BY <1>2 DEF FinishCancel
  <1> QED BY <1>4, <1>5, <1>6, <1>7

\* Cancellations of some attempts.
Cancels ==
  /\ DOMAIN attempts' = DOMAIN attempts
  /\ \A a \in DOMAIN attempts : attempts'[a] \in {attempts[a], CancelAttempt(attempts[a])}

Created(c) ==
  /\ attempts' = Append(attempts, NewAttempt(Key[c])) /\ Len(attempts') <= MaxAttempts

\* What a step does to the line: nothing, one of what callers, cancellations and resets
\* do to the store, an admission, a step of the worker, the end or the start.
LEMMA LineSteps ==
  ASSUME QueueInv, [Next]_vars
  PROVE  \/ /\ \/ UNCHANGED attempts
               \/ \E c \in Callers : Created(c)
               \/ Cancels
               \/ attempts' = RemoveAll(attempts)
            /\ UNCHANGED <<journal, shutdown, work>>
         \/ \E t \in Threads : Insert(t)
         \/ WorkerStep \/ Shutdown \/ Restart
  <1> USE DEF QueueInv
  <1>1. ASSUME NEW c \in Callers, StartAttempt(c) \/ RetryAttempt(c)
        PROVE  (UNCHANGED attempts \/ Created(c)) /\ UNCHANGED <<journal, shutdown, work>>
    BY <1>1 DEF StartAttempt, RetryAttempt, Create, Created, signal
  <1>2. ASSUME NEW t \in Threads, Admit(t)
        PROVE  Insert(t) \/ UNCHANGED <<attempts, journal, shutdown, work>>
    BY <1>2 DEF Admit, CheckOpen, Wake, durable, signal
  <1>3. ASSUME NEW c \in Callers, AwaitResult(c)
        PROVE  UNCHANGED <<attempts, journal, shutdown, work>>
    BY <1>3 DEF AwaitResult, durable, signal
  <1>4. ASSUME NEW a \in DOMAIN attempts, attempts' = [attempts EXCEPT ![a] = CancelAttempt(@)]
        PROVE  Cancels
    <2>1. attempts = [b \in DOMAIN attempts |-> attempts[b]]
      BY LenProperties DEF StoreSound
    <2> QED BY <1>4, <2>1 DEF Cancels
  <1>5. ASSUME NEW c \in Callers, Expire(c)
        PROVE  Cancels /\ UNCHANGED <<journal, shutdown, work>>
    <2>1. PICK a \in mine[c] : attempts' = [attempts EXCEPT ![a] = CancelAttempt(@)]
      BY <1>5 DEF Expire
    <2>2. a \in DOMAIN attempts
      BY <2>1 DEF ThreadInv, Threads
    <2> QED BY <1>4, <1>5, <2>1, <2>2 DEF Expire, signal
  <1>6. Cancel => Cancels /\ UNCHANGED <<journal, shutdown, work>>
    BY <1>4 DEF Cancel, ActiveAttempts
  <1>7. CancelAll => Cancels /\ UNCHANGED <<journal, shutdown, work>>
    BY DEF CancelAll, CancelActive, Cancels
  <1>8. RemoveAttempts => attempts' = RemoveAll(attempts) /\ UNCHANGED <<journal, shutdown, work>>
    BY DEF RemoveAttempts, signal
  <1>9. ReadPending \/ Register \/ FinishAttach \/ RaiseBarrier \/ AwaitEnd \/ ForgetResults
          => UNCHANGED <<attempts, journal, shutdown, work>>
    BY DEF ReadPending, Register, FinishAttach, RaiseBarrier, AwaitEnd, ForgetResults, durable,
       signal
  <1>10. UNCHANGED vars => UNCHANGED <<attempts, journal, shutdown, work>>
    BY DEF vars, signal
  <1> QED BY <1>1, <1>2, <1>3, <1>5, <1>6, <1>7, <1>8, <1>9, <1>10
          DEF Next, HostStep, CallerStep, ResetStep, Threads

\* Nothing is queued again, nothing begins.
Calm ==
  /\ \A a \in DOMAIN attempts :
       /\ a \in DOMAIN attempts'
       /\ attempts'[a].status = "Pending" => attempts[a].status = "Pending"
  /\ Served' \subseteq Served

\* One attempt of the store replaced.
LEMMA OneReplaced ==
  ASSUME QueueInv, NEW b \in DOMAIN attempts, NEW x, attempts' = [attempts EXCEPT ![b] = x]
  PROVE  /\ DOMAIN attempts' = DOMAIN attempts
         /\ \A a \in DOMAIN attempts : attempts'[a] = IF a = b THEN x ELSE attempts[a]
  <1>1. attempts = [a \in DOMAIN attempts |-> attempts[a]]
    BY LenProperties DEF QueueInv, StoreSound
  <1> QED BY <1>1

LEMMA CallersCalm ==
  ASSUME QueueInv, Bounded,
         \/ UNCHANGED attempts
         \/ \E c \in Callers : Created(c)
         \/ Cancels
         \/ attempts' = RemoveAll(attempts)
  PROVE  /\ Calm /\ Bounded'
         /\ \A a \in DOMAIN attempts : attempts[a].cancel => attempts'[a].cancel
  <1>1. \A a \in DOMAIN attempts : Sound(attempts[a]) /\ attempts[a] \in AttemptRecords
    BY DEF QueueInv, StoreSound, Sound
  <1>2. CASE UNCHANGED attempts
    BY <1>2 DEF Calm, Bounded, Served
  <1>3. ASSUME NEW c \in Callers, Created(c)
        PROVE  /\ Calm /\ Bounded'
               /\ \A a \in DOMAIN attempts : attempts[a].cancel => attempts'[a].cancel
    <2> DEFINE x == NewAttempt(Key[c])
    <2>1. attempts \in Seq(AttemptRecords)
      BY DEF QueueInv, StoreSound
    <2>2. x.status = "Pending"
      BY DEF NewAttempt
    <2>3. attempts' = Append(attempts, x) /\ Len(attempts') <= MaxAttempts
      BY <1>3 DEF Created
    <2> HIDE DEF x
    <2>4. /\ Len(attempts') = Len(attempts) + 1 /\ Len(attempts) \in Nat
          /\ DOMAIN attempts = 1 .. Len(attempts) /\ DOMAIN attempts' = 1 .. Len(attempts')
          /\ \A a \in DOMAIN attempts : attempts'[a] = attempts[a]
          /\ attempts'[Len(attempts) + 1] = x
      BY <2>1, <2>3, AppendProperties, LenProperties
    <2>5. \A a \in DOMAIN attempts' : a \in DOMAIN attempts \/ attempts'[a] = x
      BY <2>4
    <2>6. DOMAIN attempts \subseteq DOMAIN attempts' /\ Bounded'
      <3> DEFINE m == Len(attempts)
                 n == Len(attempts')
      <3>1. m \in Nat /\ n = m + 1 /\ n <= MaxAttempts /\ MaxAttempts \in Nat
        BY <2>3, <2>4, QueueAssumption
      <3>2. DOMAIN attempts = 1 .. m /\ DOMAIN attempts' = 1 .. n
        BY <2>4
      <3> HIDE DEF m, n
      <3>3. 1 .. m \subseteq 1 .. n /\ 1 .. n \subseteq 1 .. MaxAttempts
        BY <3>1
      <3> QED BY <3>2, <3>3 DEF Bounded
    <2> QED BY <2>2, <2>4, <2>5, <2>6 DEF Calm, Served
  <1>4. CASE Cancels
    <2>1. \A a \in DOMAIN attempts :
            /\ attempts'[a].status = "Pending" => attempts[a].status = "Pending"
            /\ attempts'[a].status = "Running" => attempts[a].status = "Running"
            /\ attempts[a].cancel => attempts'[a].cancel
      BY <1>1, <1>4, LineTransitions DEF Cancels
    <2> QED BY <1>4, <2>1 DEF Cancels, Calm, Bounded, Served
  <1>5. CASE attempts' = RemoveAll(attempts)
    <2>1. DOMAIN attempts' = DOMAIN attempts
          /\ \A a \in DOMAIN attempts : attempts'[a] = [attempts[a] EXCEPT !.status = "Removed"]
      BY <1>5 DEF RemoveAll
    <2>2. \A a \in DOMAIN attempts : attempts'[a].status = "Removed"
                                     /\ attempts'[a].cancel = attempts[a].cancel
      BY <1>1, <2>1 DEF AttemptRecords
    <2> QED BY <2>1, <2>2 DEF Calm, Bounded, Served
  <1> QED BY <1>2, <1>3, <1>4, <1>5

\* The worker begins its attempt, or ends it, or leaves the store alone.
LEMMA WorkerCalm ==
  ASSUME QueueInv, LineInv, WorkerStep
  PROVE  /\ DOMAIN attempts' = DOMAIN attempts
         /\ \A a \in DOMAIN attempts :
              attempts'[a].status = "Pending" => attempts[a].status = "Pending"
         /\ \/ Served' \subseteq Served
            \/ /\ BeginAttempt /\ worker' = "run" /\ attempts[Current].status = "Pending"
               /\ Served' = Served \cup {Current}
               /\ Current \in DOMAIN attempts /\ attempts'[Current].status = "Running"
               /\ \A a \in DOMAIN attempts \ {Current} : attempts'[a] = attempts[a]
  <1>1. CASE UNCHANGED attempts
    BY <1>1 DEF Served
  <1>2. CASE BeginAttempt \/ CompleteAttempt \/ EndAttempt
    <2>1. HoldsTicket /\ Current \in DOMAIN attempts /\ Sound(attempts[Current])
          /\ ticket \in DOMAIN journal
      BY <1>2, CurrentIsStored
         DEF BeginAttempt, CompleteAttempt, EndAttempt, HoldsTicket, StoreSound, QueueInv, WorkerInv
    <2> DEFINE x == attempts[Current]
    <2>2. ASSUME NEW y, attempts' = [attempts EXCEPT ![Current] = y],
                 y.status = "Pending" => x.status = "Pending",
                 y.status = "Running" => x.status = "Running"
          PROVE  /\ DOMAIN attempts' = DOMAIN attempts
                 /\ \A a \in DOMAIN attempts :
                      attempts'[a].status = "Pending" => attempts[a].status = "Pending"
                 /\ Served' \subseteq Served
      BY <2>1, <2>2, OneReplaced DEF Served
    <2>3. CASE BeginAttempt /\ CanBegin(x)
      <3>1. attempts' = [attempts EXCEPT ![Current] = Begin(x)] /\ worker' = "run"
        BY <2>3 DEF BeginAttempt
      <3>2. Begin(x).status = "Running" /\ x.status = "Pending"
        BY <2>1, <2>3, LineTransitions DEF CanBegin
      <3>3. /\ DOMAIN attempts' = DOMAIN attempts
            /\ \A a \in DOMAIN attempts : attempts'[a] = IF a = Current THEN Begin(x) ELSE attempts[a]
        BY <2>1, <3>1, OneReplaced
      <3> HIDE DEF x
      <3>4. Served' = Served \cup {Current}
        BY <2>1, <3>2, <3>3 DEF Served
      <3> QED BY <2>1, <2>3, <3>1, <3>2, <3>3, <3>4 DEF x
    <2>4. \/ UNCHANGED attempts
          \/ BeginAttempt /\ CanBegin(x)
          \/ CanComplete(x) /\ attempts' = [attempts EXCEPT ![Current] = Complete(x)]
          \/ attempts' = [attempts EXCEPT ![Current] = FinishCancel(x)]
          \/ attempts' = [attempts EXCEPT ![Current] = Fail(x)]
      BY <1>2 DEF BeginAttempt, CompleteAttempt, EndAttempt
    <2>5. /\ CanComplete(x) => Complete(x).status = "Completed"
          /\ FinishCancel(x).status = "Pending" => x.status = "Pending"
          /\ FinishCancel(x).status = "Running" => x.status = "Running"
          /\ Fail(x).status # "Pending" /\ Fail(x).status # "Running"
      BY <2>1, LineTransitions DEF ActiveStatuses
    <2> HIDE DEF x
    <2> QED BY <1>1, <2>2, <2>3, <2>4, <2>5
  <1> QED BY <1>1, <1>2 DEF WorkerStep, FallAsleep, WaitForSignal, NextTicket, Dispatch, RunAttempt,
             PublishResult, JudgeFailure, Consume, RetryLater, durable

\* An admission adds a place at the end, or leaves places as they are.
LEMMA InsertedEntries ==
  ASSUME QueueInv, NEW t \in Threads, Insert(t)
  PROVE  \E a \in DOMAIN attempts :
           \/ /\ \A e \in DOMAIN journal : journal[e].attempt # a
              /\ journal' = Append(journal, [attempt |-> a, admitted |-> TRUE])
           \/ /\ \E e \in DOMAIN journal : journal[e].attempt = a
              /\ DOMAIN journal' = DOMAIN journal
              /\ \A e \in DOMAIN journal : /\ journal'[e].attempt = journal[e].attempt
                                           /\ journal[e].admitted => journal'[e].admitted
  <1>1. PICK a \in mine[t] : journal' = Admitted(journal, a)
    BY DEF Insert
  <1>2. a \in DOMAIN attempts
    BY <1>1 DEF QueueInv, ThreadInv
  <1>3. CASE \E e \in DOMAIN journal : journal[e].attempt = a
    <2>1. journal' = [e \in DOMAIN journal |->
                        IF journal[e].attempt = a THEN [journal[e] EXCEPT !.admitted = TRUE]
                                                  ELSE journal[e]]
      BY <1>1, <1>3 DEF Admitted
    <2>2. \A e \in DOMAIN journal : journal[e] \in Entries
      BY LenProperties DEF QueueInv, JournalInv
    <2>3. \A e \in DOMAIN journal : /\ journal'[e].attempt = journal[e].attempt
                                    /\ journal[e].admitted => journal'[e].admitted
      BY <2>1, <2>2 DEF Entries
    <2>4. DOMAIN journal' = DOMAIN journal
      BY <2>1
    <2> QED BY <1>2, <1>3, <2>3, <2>4
  <1>4. CASE \A e \in DOMAIN journal : journal[e].attempt # a
    BY <1>1, <1>2, <1>4 DEF Admitted
  <1> QED BY <1>3, <1>4

\* No entry stands in line that did not before.
LEMMA StandsBefore ==
  ASSUME JournalInv, NEW e \in DOMAIN journal, e \in DOMAIN journal',
         journal'[e].attempt = journal[e].attempt,
         \A a \in DOMAIN attempts :
           attempts'[a].status = "Pending" => attempts[a].status = "Pending"
  PROVE  Stands(e)' => Stands(e)
  BY DEF Stands, JournalInv

LEMMA CallersLine ==
  ASSUME QueueInv, LineInv, Calm, Bounded', UNCHANGED <<journal, shutdown, work>>,
         \A a \in DOMAIN attempts : attempts[a].cancel => attempts'[a].cancel
  PROVE  LineInv'
  <1>1. \A e \in DOMAIN journal : Stands(e)' => Stands(e)
    BY StandsBefore DEF QueueInv, Calm
  <1>2. Tombstones' /\ Ahead'
    BY <1>1 DEF LineInv, Tombstones, Ahead, HoldsTicket, work
  <1>3. HoldsTicket => ticket \in DOMAIN journal /\ Current \in DOMAIN attempts
    BY CurrentIsStored DEF QueueInv, WorkerInv
  <1>4. Current' = Current
    BY DEF Current, work
  <1>5. Begun'
    BY <1>1, <1>3 DEF LineInv, Begun, HoldsTicket, Serving, work
  <1>6. Alone'
    BY <1>4 DEF LineInv, Alone, Calm, work
  <1>7. Told'
    BY <1>3, <1>4 DEF LineInv, Told, Calm, HoldsTicket, work
  <1> QED BY <1>2, <1>5, <1>6, <1>7 DEF LineInv

LEMMA InsertLine ==
  ASSUME QueueInv, LineInv, NEW t \in Threads, Insert(t)
  PROVE  LineInv'
  <1>1. UNCHANGED <<attempts, shutdown, work>>
    BY DEF Insert, signal
  <1>2. journal \in Seq(Entries) /\ DOMAIN journal = 1 .. Len(journal) /\ Len(journal) \in Nat
    BY LenProperties DEF QueueInv, JournalInv
  <1>3. /\ DOMAIN journal \subseteq DOMAIN journal'
        /\ \A e \in DOMAIN journal : /\ journal'[e].attempt = journal[e].attempt
                                     /\ journal[e].admitted => journal'[e].admitted
        /\ \A e \in DOMAIN journal' \ DOMAIN journal : journal'[e].admitted /\ e = Len(journal) + 1
    <2>1. PICK a \in DOMAIN attempts :
           \/ journal' = Append(journal, [attempt |-> a, admitted |-> TRUE])
           \/ /\ DOMAIN journal' = DOMAIN journal
              /\ \A e \in DOMAIN journal : /\ journal'[e].attempt = journal[e].attempt
                                           /\ journal[e].admitted => journal'[e].admitted
      BY InsertedEntries
    <2>2. CASE journal' = Append(journal, [attempt |-> a, admitted |-> TRUE])
      <3> DEFINE x == [attempt |-> a, admitted |-> TRUE]
      <3>1. x.admitted
        OBVIOUS
      <3>2. journal' = Append(journal, x)
        BY <2>2
      <3> HIDE DEF x
      <3>3. /\ DOMAIN journal' = 1 .. Len(journal) + 1
            /\ \A e \in 1 .. Len(journal) : journal'[e] = journal[e]
            /\ journal'[Len(journal) + 1] = x
        BY <1>2, <3>2, AppendProperties, LenProperties
      <3>4. \A e \in DOMAIN journal' : e \in DOMAIN journal \/ (journal'[e] = x /\ e = Len(journal) + 1)
        <4>1. \A e \in DOMAIN journal' : e \in DOMAIN journal \/ e = Len(journal) + 1
          BY <1>2, <3>3
        <4> QED BY <3>3, <4>1
      <3>5. DOMAIN journal \subseteq DOMAIN journal'
        BY <1>2, <3>3
      <3> QED BY <1>2, <3>1, <3>3, <3>4, <3>5
    <2> QED BY <2>1, <2>2
  <1>4. \A e \in DOMAIN journal : Stands(e)' = Stands(e)
    BY <1>1, <1>3 DEF Stands
  <1>5. Tombstones'
    BY <1>3, <1>4 DEF LineInv, Tombstones
  <1>6. HoldsTicket => ticket \in DOMAIN journal /\ Current' = Current
    BY <1>1, <1>3 DEF QueueInv, WorkerInv, Current, work
  <1>7. Ahead'
    <2> SUFFICES ASSUME HoldsTicket', NEW e \in DOMAIN journal', e < ticket' PROVE ~Stands(e)'
      BY DEF Ahead
    <2>1. HoldsTicket /\ ticket' = ticket /\ ticket \in 1 .. Len(journal)
      BY <1>1, <1>2, <1>6 DEF HoldsTicket, work
    <2>2. e \in DOMAIN journal
      BY <1>2, <1>3, <2>1
    <2> QED BY <1>4, <2>1, <2>2 DEF LineInv, Ahead
  <1>8. Begun'
    BY <1>1, <1>4, <1>6 DEF LineInv, Begun, HoldsTicket, Serving, work
  <1>9. Alone' /\ Told' /\ Bounded'
    <2>1. worker \in Serving \/ worker = "finish" => HoldsTicket
      BY DEF HoldsTicket, Serving
    <2> QED BY <1>1, <1>6, <2>1 DEF LineInv, Alone, Told, Bounded, Served, work
  <1> QED BY <1>5, <1>7, <1>8, <1>9 DEF LineInv

LEMMA WorkerLine ==
  ASSUME QueueInv, LineInv, WorkerStep
  PROVE  LineInv'
  <1>1. UNCHANGED shutdown
    BY DEF WorkerStep, FallAsleep, WaitForSignal, NextTicket, Dispatch, BeginAttempt, RunAttempt,
       CompleteAttempt, PublishResult, JudgeFailure, EndAttempt, Consume, RetryLater, signal
  <1>2. HoldsTicket => ticket \in DOMAIN journal /\ Current \in DOMAIN attempts
    BY CurrentIsStored DEF QueueInv, WorkerInv
  <1>3. DOMAIN journal' = DOMAIN journal
        /\ \A e \in DOMAIN journal : journal'[e].attempt = journal[e].attempt
    <2>1. WorkerStep => Next
      BY DEF Next
    <2>2. \A e \in DOMAIN journal : journal'[e].attempt = journal[e].attempt
      BY <2>1, StoreStep, JournalStep
    <2>3. journal' = journal \/ journal' = [journal EXCEPT ![ticket].admitted = FALSE]
      BY DEF WorkerStep, FallAsleep, WaitForSignal, NextTicket, Dispatch, BeginAttempt, RunAttempt,
         CompleteAttempt, PublishResult, JudgeFailure, EndAttempt, Consume, RetryLater, durable
    <2> QED BY <2>2, <2>3
  <1>4. \A e \in DOMAIN journal : Stands(e)' => Stands(e)
    BY <1>3, WorkerCalm, StandsBefore DEF QueueInv
  <1>5. Bounded'
    BY WorkerCalm DEF LineInv, Bounded
  <1>6. Tombstones'
    <2>1. CASE UNCHANGED journal
      BY <1>4, <2>1 DEF LineInv, Tombstones
    <2>2. CASE Consume
      <3>1. ticket \in DOMAIN journal /\ ~Stands(ticket)
        BY <1>2, <2>2 DEF Consume, HoldsTicket, LineInv, Begun
      <3>2. journal' = [journal EXCEPT ![ticket].admitted = FALSE]
        BY <2>2 DEF Consume
      <3>3. \A e \in DOMAIN journal \ {ticket} : journal'[e] = journal[e]
        BY <3>2
      <3> QED BY <1>3, <1>4, <3>1, <3>3 DEF LineInv, Tombstones
    <2> QED BY <2>1, <2>2
            DEF WorkerStep, FallAsleep, WaitForSignal, NextTicket, Dispatch, BeginAttempt,
                RunAttempt, CompleteAttempt, PublishResult, JudgeFailure, EndAttempt, RetryLater,
                durable
  <1>7. Ahead'
    <2>1. CASE HoldsTicket /\ ticket' = ticket
      BY <1>3, <1>4, <2>1 DEF LineInv, Ahead
    <2>2. CASE ~HoldsTicket'
      BY <2>2 DEF Ahead
    <2>3. CASE NextTicket /\ worker' = "dispatch"
      <3>1. /\ \A f \in DOMAIN journal : journal[f].admitted => ticket' <= f
            /\ ticket' \in DOMAIN journal /\ UNCHANGED <<attempts, journal>>
        BY <2>3 DEF NextTicket, durable
      <3>2. DOMAIN journal \subseteq Nat
        BY LenProperties DEF QueueInv, JournalInv
      <3>3. ASSUME NEW e \in DOMAIN journal, e < ticket' PROVE ~Stands(e)
        <4>1. ~journal[e].admitted
          BY <3>1, <3>2, <3>3
        <4> QED BY <4>1 DEF LineInv, Tombstones
      <3> QED BY <1>3, <1>4, <3>3 DEF Ahead
    <2>4. FallAsleep \/ WaitForSignal \/ Consume \/ RetryLater => ~HoldsTicket'
      BY DEF FallAsleep, WaitForSignal, Consume, RetryLater, HoldsTicket
    <2>5. Dispatch \/ BeginAttempt \/ RunAttempt \/ CompleteAttempt \/ PublishResult
            \/ JudgeFailure \/ EndAttempt => HoldsTicket /\ ticket' = ticket
      BY DEF Dispatch, BeginAttempt, RunAttempt, CompleteAttempt, PublishResult, JudgeFailure,
         EndAttempt, HoldsTicket
    <2>6. NextTicket => worker' = "dispatch" \/ ~HoldsTicket'
      BY DEF NextTicket, HoldsTicket
    <2> QED BY <2>1, <2>2, <2>3, <2>4, <2>5, <2>6 DEF WorkerStep
  <1>8. Begun'
    <2> SUFFICES ASSUME worker' \in Serving \cup {"publish", "tombstone"} PROVE ~Stands(ticket)'
      BY DEF Begun
    <2>1. CASE RunAttempt \/ CompleteAttempt \/ PublishResult \/ JudgeFailure \/ EndAttempt
      <3>1. worker \in Serving \cup {"publish"} /\ ticket' = ticket /\ HoldsTicket
        BY <2>1 DEF RunAttempt, CompleteAttempt, PublishResult, JudgeFailure, EndAttempt, Serving,
           HoldsTicket
      <3> QED BY <1>2, <1>4, <3>1 DEF LineInv, Begun, Stands
    <2>2. CASE Dispatch
      <3>1. ~Stands(ticket) /\ UNCHANGED <<attempts, journal, ticket>>
        BY <2>2 DEF Dispatch, Serving, Stands, Current, durable
      <3> QED BY <3>1 DEF Stands
    <2>3. CASE BeginAttempt
      <3>1. CanBegin(attempts[Current]) /\ HoldsTicket /\ UNCHANGED <<journal, ticket>>
        BY <2>3 DEF BeginAttempt, Serving, HoldsTicket
      <3>2. attempts' = [attempts EXCEPT ![Current] = Begin(attempts[Current])]
        BY <2>3, <3>1 DEF BeginAttempt
      <3>3. attempts'[Current].status = "Running"
        BY <1>2, <3>1, <3>2, OneReplaced, LineTransitions DEF QueueInv, StoreSound
      <3> QED BY <3>1, <3>3 DEF Stands, Current
    <2> QED BY <2>1, <2>2, <2>3
            DEF WorkerStep, FallAsleep, WaitForSignal, NextTicket, Consume, RetryLater, Serving
  <1>9. Alone'
    <2>1. CASE worker \in {"run", "judge"}
      <3>1. Served' \subseteq Served /\ worker' \in Serving /\ Current' = Current
        BY <2>1 DEF WorkerStep, FallAsleep, WaitForSignal, NextTicket, Dispatch, BeginAttempt,
           RunAttempt, CompleteAttempt, PublishResult, JudgeFailure, EndAttempt, Consume,
           RetryLater, Serving, Served, Current, durable
      <3> QED BY <2>1, <3>1 DEF LineInv, Alone, Serving
    <2>2. CASE worker \in {"complete", "fail", "finish"}
      <3> DEFINE x == attempts[Current]
      <3>1. HoldsTicket /\ Current \in DOMAIN attempts /\ Sound(x)
        BY <1>2, <2>2 DEF HoldsTicket, QueueInv, StoreSound
      <3>2. \/ CanComplete(x) /\ attempts' = [attempts EXCEPT ![Current] = Complete(x)]
            \/ worker = "complete" /\ ~CanComplete(x)
                 /\ attempts' = [attempts EXCEPT ![Current] = FinishCancel(x)]
            \/ worker = "finish" /\ attempts' = [attempts EXCEPT ![Current] = FinishCancel(x)]
            \/ attempts' = [attempts EXCEPT ![Current] = Fail(x)]
        BY <2>2 DEF WorkerStep, FallAsleep, WaitForSignal, NextTicket, Dispatch, BeginAttempt,
           RunAttempt, CompleteAttempt, PublishResult, JudgeFailure, EndAttempt, Consume,
           RetryLater
      <3>3. \A a \in DOMAIN attempts \ {Current} : attempts[a].status # "Running"
        BY <2>2 DEF LineInv, Alone, Served
      <3>4. /\ CanComplete(x) => Complete(x).status # "Running"
            /\ FinishCancel(x).status = "Running" => x.status = "Running" /\ ~x.cancel
            /\ Fail(x).status # "Running"
        BY <3>1, LineTransitions DEF ActiveStatuses
      <3>5. worker = "finish" => shutdown \/ x.cancel \/ x.status # "Running"
        BY <3>1 DEF LineInv, Told, Served
      <3> HIDE DEF x
      <3>6. \A a \in Served' : shutdown /\ a = Current /\ worker = "finish"
        <4>1. ASSUME NEW y, attempts' = [attempts EXCEPT ![Current] = y]
              PROVE  \A a \in Served' : a = Current /\ y.status = "Running"
          BY <3>1, <3>3, <4>1, OneReplaced DEF Served
        <4>2. ~CanComplete(x) => x.status # "Running" \/ x.cancel
          BY <3>1 DEF CanComplete, Sound, AttemptRecords
        <4> QED BY <3>2, <3>4, <3>5, <4>1, <4>2
      <3>7. worker = "finish" => worker' = "tombstone"
        BY DEF WorkerStep, FallAsleep, WaitForSignal, NextTicket, Dispatch, BeginAttempt,
           RunAttempt, CompleteAttempt, PublishResult, JudgeFailure, EndAttempt, Consume,
           RetryLater
      <3> QED BY <1>1, <3>6, <3>7 DEF Alone
    <2>3. CASE worker \in {"tombstone", "next", "stopped"} /\ shutdown
      <3>1. Served' \subseteq Served /\ worker' \in {"next", "stopped"}
        BY <2>3 DEF WorkerStep, FallAsleep, WaitForSignal, NextTicket, Dispatch, BeginAttempt,
           RunAttempt, CompleteAttempt, PublishResult, JudgeFailure, EndAttempt, Consume,
           RetryLater, Served, durable
      <3> QED BY <1>1, <2>3, <3>1 DEF LineInv, Alone, Serving
    <2>4. CASE /\ worker \notin Serving
               /\ ~(worker \in {"tombstone", "next", "stopped"} /\ shutdown)
      <3>1. Served = {}
        BY <2>4 DEF LineInv, Alone
      <3>2. \/ Served' = {}
            \/ Served' = {Current} /\ worker' = "run" /\ UNCHANGED <<journal, ticket>>
        BY <3>1, WorkerCalm DEF BeginAttempt
      <3> QED BY <3>2 DEF Alone, Serving, Current
    <2> QED BY <2>1, <2>2, <2>3, <2>4 DEF Serving
  <1>10. Told'
    <2> SUFFICES ASSUME worker' = "finish"
                 PROVE  shutdown' \/ attempts'[Current'].cancel \/ Current' \notin Served'
      BY DEF Told
    <2>1. /\ UNCHANGED <<attempts, Current>>
          /\ shutdown \/ attempts[Current].cancel \/ attempts[Current].status = "Removed"
      BY DEF WorkerStep, FallAsleep, WaitForSignal, NextTicket, Dispatch, BeginAttempt,
         RunAttempt, CompleteAttempt, PublishResult, JudgeFailure, EndAttempt, Consume,
         RetryLater, Current, durable
    <2> QED BY <1>1, <2>1 DEF Served
  <1> QED BY <1>5, <1>6, <1>7, <1>8, <1>9, <1>10 DEF LineInv

LEMMA EndsLine ==
  ASSUME QueueInv, LineInv, Shutdown \/ Restart
  PROVE  LineInv'
  <1>1. CASE Shutdown
    <2>1. UNCHANGED <<attempts, journal, work>> /\ shutdown'
      BY <1>1 DEF Shutdown, durable
    <2> QED BY <2>1
            DEF LineInv, Bounded, Tombstones, Ahead, Begun, Alone, Told, HoldsTicket, Stands, Served,
                Current, work
  <1>2. CASE Restart
    <2>1. /\ attempts' = RecoverRunning(attempts) /\ UNCHANGED journal
          /\ worker' = "wait"
      BY <1>2 DEF Restart, Started
    <2>2. \A a \in DOMAIN attempts : attempts[a] \in AttemptRecords
      BY DEF QueueInv, StoreSound, Sound
    <2>3. /\ DOMAIN attempts' = DOMAIN attempts
          /\ \A a \in DOMAIN attempts :
               /\ attempts'[a].status # "Running"
               /\ attempts'[a].status = "Pending" => attempts[a].status = "Pending"
      BY <2>1, <2>2 DEF RecoverRunning, AttemptRecords
    <2>4. Served' = {}
      BY <2>3 DEF Served
    <2>5. Bounded' /\ Tombstones'
      BY <2>1, <2>3 DEF LineInv, Bounded, Tombstones, Stands, QueueInv, JournalInv
    <2>6. Ahead' /\ Begun' /\ Alone' /\ Told'
      BY <2>1, <2>4 DEF Ahead, Begun, Alone, Told, HoldsTicket, Serving
    <2> QED BY <2>5, <2>6 DEF LineInv
  <1> QED BY <1>1, <1>2

LEMMA LineStep == QueueInv /\ LineInv /\ [Next]_vars => LineInv'
  <1> SUFFICES ASSUME QueueInv, LineInv, [Next]_vars PROVE LineInv'
    OBVIOUS
  <1>1. ASSUME \/ UNCHANGED attempts
               \/ \E c \in Callers : Created(c)
               \/ Cancels
               \/ attempts' = RemoveAll(attempts),
               UNCHANGED <<journal, shutdown, work>>
        PROVE  LineInv'
    BY <1>1, CallersCalm, CallersLine DEF LineInv
  <1> QED BY <1>1, InsertLine, WorkerLine, EndsLine, LineSteps

-------------------------------------------------------------------------------
(* The refinement: what each step is of the line. *)

\* Who stands in line are the entered attempts that are pending.
Entered == {journal[e].attempt : e \in DOMAIN journal}

LEMMA WhoWaits == Tombstones => Waiting = {a \in Entered : attempts[a].status = "Pending"}
  BY DEF Tombstones, Stands, Waiting, InLine, Entered

LEMMA WhoWaitsNext == Tombstones' => Waiting' = {a \in Entered' : attempts'[a].status = "Pending"}
  BY DEF Tombstones, Stands, Waiting, InLine, Entered

LEMMA KnownEntered == Line!Known = Entered
  BY DEF Line!Known, Places, Entered

\* A step that leaves the places and adds nobody to those who wait.
LEMMA PlacesStay ==
  ASSUME DOMAIN journal' = DOMAIN journal,
         \A e \in DOMAIN journal : journal'[e].attempt = journal[e].attempt
  PROVE  Places' = Places /\ Entered' = Entered
  BY DEF Places, Entered

LEMMA CallersServe ==
  ASSUME QueueInv, LineInv, LineInv',
         \/ UNCHANGED attempts
         \/ \E c \in Callers : Created(c)
         \/ Cancels
         \/ attempts' = RemoveAll(attempts),
         UNCHANGED <<journal, shutdown, work>>
  PROVE  [Line!Next]_(Line!vars)
  <1>1. Calm /\ Places' = Places /\ Entered' = Entered /\ Entered \subseteq DOMAIN attempts
    BY CallersCalm, PlacesStay DEF LineInv, QueueInv, JournalInv, Entered
  <1>2. Waiting = {a \in Entered : attempts[a].status = "Pending"}
        /\ Waiting' = {a \in Entered' : attempts'[a].status = "Pending"}
    BY WhoWaits, WhoWaitsNext DEF LineInv
  <1>3. CASE Served' = Served
    <2>1. Waiting' \subseteq Waiting
      BY <1>1, <1>2 DEF Calm
    <2>2. Line!Leave
      BY <1>1, <1>3, <2>1 DEF Line!Leave
    <2> QED BY <2>2 DEF Line!Next
  <1>4. CASE attempts' = RemoveAll(attempts)
    <2>1. \A a \in DOMAIN attempts : attempts[a] \in AttemptRecords
      BY DEF QueueInv, StoreSound, Sound
    <2>2. DOMAIN attempts' = DOMAIN attempts
          /\ \A a \in DOMAIN attempts : attempts'[a].status = "Removed"
      BY <1>4, <2>1 DEF RemoveAll, AttemptRecords
    <2>3. Served' = {} /\ Waiting' = {}
      BY <1>1, <1>2, <2>2 DEF Served
    <2>4. Line!Clear
      BY <1>1, <2>3 DEF Line!Clear
    <2> QED BY <2>4 DEF Line!Next
  <1>5. CASE Cancels
    <2>1. \A a \in DOMAIN attempts : attempts[a].status = "Running" =>
            CancelAttempt(attempts[a]).status = "Running"
      <3>1. ASSUME NEW a \in DOMAIN attempts, attempts[a].status = "Running"
            PROVE  CancelAttempt(attempts[a]).status = "Running"
        <4>1. CancelAttempt(attempts[a]) = [attempts[a] EXCEPT !.cancel = TRUE]
          BY <3>1 DEF CancelAttempt
        <4>2. attempts[a] \in AttemptRecords
          BY DEF QueueInv, StoreSound, Sound
        <4> QED BY <3>1, <4>1, <4>2 DEF AttemptRecords
      <3> QED BY <3>1
    <2>2. Served \subseteq Served'
      BY <1>5, <2>1 DEF Cancels, Served
    <2> QED BY <1>1, <1>3, <2>2 DEF Calm
  <1>6. ASSUME NEW c \in Callers, Created(c) PROVE Served' = Served
    <2> DEFINE x == NewAttempt(Key[c])
    <2>1. attempts \in Seq(AttemptRecords) /\ attempts' = Append(attempts, x)
      BY <1>6 DEF QueueInv, StoreSound, Created
    <2> HIDE DEF x
    <2>2. DOMAIN attempts \subseteq DOMAIN attempts'
          /\ \A a \in DOMAIN attempts : attempts'[a] = attempts[a]
      BY <2>1, AppendProperties, LenProperties
    <2> QED BY <1>1, <2>2 DEF Calm, Served
  <1>7. UNCHANGED attempts => Served' = Served
    BY DEF Served
  <1> QED BY <1>3, <1>4, <1>5, <1>6, <1>7

LEMMA InsertServe ==
  ASSUME QueueInv, LineInv, LineInv', NEW t \in Threads, Insert(t)
  PROVE  [Line!Next]_(Line!vars)
  <1>1. UNCHANGED <<attempts, shutdown>> /\ Served' = Served
    BY DEF Insert, signal, Served
  <1>2. Waiting = {a \in Entered : attempts[a].status = "Pending"}
        /\ Waiting' = {a \in Entered' : attempts'[a].status = "Pending"}
    BY WhoWaits, WhoWaitsNext DEF LineInv
  <1>3. PICK a \in DOMAIN attempts :
           \/ /\ \A e \in DOMAIN journal : journal[e].attempt # a
              /\ journal' = Append(journal, [attempt |-> a, admitted |-> TRUE])
           \/ /\ DOMAIN journal' = DOMAIN journal
              /\ \A e \in DOMAIN journal : journal'[e].attempt = journal[e].attempt
    BY InsertedEntries
  <1>4. CASE /\ DOMAIN journal' = DOMAIN journal
             /\ \A e \in DOMAIN journal : journal'[e].attempt = journal[e].attempt
    <2>1. Places' = Places /\ Entered' = Entered
      BY <1>4, PlacesStay
    <2>2. UNCHANGED Line!vars
      BY <1>1, <1>2, <2>1 DEF Line!vars
    <2> QED BY <2>2
  <1>5. CASE /\ \A e \in DOMAIN journal : journal[e].attempt # a
             /\ journal' = Append(journal, [attempt |-> a, admitted |-> TRUE])
    <2> DEFINE x == [attempt |-> a, admitted |-> TRUE]
               n == Len(journal)
    <2>1. x.attempt = a /\ journal' = Append(journal, x) /\ x \in Entries
      <3>1. a \in Nat
        BY LenProperties DEF QueueInv, StoreSound
      <3> QED BY <1>5, <3>1 DEF Entries
    <2>2. journal \in Seq(Entries) /\ n \in Nat /\ DOMAIN journal = 1 .. n
      BY LenProperties DEF QueueInv, JournalInv
    <2> HIDE DEF x
    <2>3. /\ DOMAIN journal' = 1 .. n + 1 /\ journal'[n + 1] = x
          /\ \A e \in 1 .. n : journal'[e] = journal[e]
      BY <2>1, <2>2, AppendProperties, LenProperties
    <2>4. Places' = Append(Places, a)
      <3> DEFINE longer == Append(Places, a)
      <3>1. Places \in [1 .. n -> Nat] /\ a \in Nat
        BY <2>2, LenProperties DEF Places, QueueInv, JournalInv, StoreSound, Entries
      <3>2. Places \in Seq(Nat) /\ Len(Places) = n
        BY <2>2, <3>1
      <3>3. /\ longer \in Seq(Nat) /\ Len(longer) = n + 1
            /\ \A e \in 1 .. n : longer[e] = journal[e].attempt
            /\ longer[n + 1] = a
        <4>1. \A e \in 1 .. n : Places[e] = journal[e].attempt
          BY <2>2 DEF Places
        <4> QED BY <3>1, <3>2, <4>1, AppendProperties
      <3>4. Places' = [e \in 1 .. n + 1 |-> journal'[e].attempt]
        BY <2>3 DEF Places
      <3>5. longer = [e \in 1 .. n + 1 |-> longer[e]]
        BY <2>2, <3>3, LenProperties
      <3>6. \A e \in 1 .. n + 1 : longer[e] = journal'[e].attempt
        <4>1. \A e \in 1 .. n + 1 : e \in 1 .. n \/ e = n + 1
          BY <2>2
        <4> QED BY <2>1, <2>3, <3>3, <4>1
      <3> HIDE DEF longer
      <3>7. longer = [e \in 1 .. n + 1 |-> journal'[e].attempt]
        BY <3>5, <3>6
      <3> QED BY <3>4, <3>7 DEF longer
    <2>5. a \notin Entered /\ Entered' = Entered \cup {a}
      <3>1. a \notin Entered
        BY <1>5 DEF Entered
      <3>2. 1 .. n + 1 = (1 .. n) \cup {n + 1}
        BY <2>2
      <3>3. Entered' = {journal'[e].attempt : e \in 1 .. n} \cup {x.attempt}
        BY <2>3, <3>2 DEF Entered
      <3>4. {journal'[e].attempt : e \in 1 .. n} = {journal[e].attempt : e \in 1 .. n}
        BY <2>3
      <3> QED BY <2>1, <2>2, <3>1, <3>3, <3>4 DEF Entered
    <2>6. Waiting' = IF attempts[a].status = "Pending" THEN Waiting \cup {a} ELSE Waiting
      BY <1>1, <1>2, <2>5
    <2>7. a \in 1 .. MaxAttempts
      BY DEF LineInv, Bounded
    <2>8. Line!Join(a) \/ Line!PassBy(a)
      BY <1>1, <2>4, <2>5, <2>6, KnownEntered DEF Line!Join, Line!PassBy
    <2> QED BY <2>7, <2>8 DEF Line!Next
  <1> QED BY <1>3, <1>4, <1>5

\* The attempt the worker begins is the first in line.
LEMMA TicketFirst ==
  ASSUME QueueInv, LineInv, HoldsTicket, attempts[Current].status = "Pending"
  PROVE  Current \in Waiting /\ Line!First(Current)
  <1>1. ticket \in DOMAIN journal /\ Stands(ticket)
    BY DEF QueueInv, WorkerInv, Stands, Current
  <1>2. Waiting = {a \in Entered : attempts[a].status = "Pending"}
    BY WhoWaits DEF LineInv
  <1>3. Current \in Waiting
    BY <1>1, <1>2 DEF Entered, Current
  <1>4. Places[ticket] = Current /\ ticket \in DOMAIN Places
    BY <1>1 DEF Places, Current
  <1>5. \A e \in DOMAIN Places : e < ticket => Places[e] \notin Waiting
    BY <1>2 DEF LineInv, Ahead, Stands, Places
  <1> QED BY <1>3, <1>4, <1>5 DEF Line!First

LEMMA WorkerServe ==
  ASSUME QueueInv, LineInv, LineInv', WorkerStep
  PROVE  [Line!Next]_(Line!vars)
  <1>1. UNCHANGED shutdown
    BY DEF WorkerStep, FallAsleep, WaitForSignal, NextTicket, Dispatch, BeginAttempt, RunAttempt,
       CompleteAttempt, PublishResult, JudgeFailure, EndAttempt, Consume, RetryLater, signal
  <1>2. Waiting = {a \in Entered : attempts[a].status = "Pending"}
        /\ Waiting' = {a \in Entered' : attempts'[a].status = "Pending"}
    BY WhoWaits, WhoWaitsNext DEF LineInv
  <1>3. Entered \subseteq DOMAIN attempts
    BY DEF Entered, QueueInv, JournalInv
  <1>4. Places' = Places /\ Entered' = Entered
    <2>1. CASE UNCHANGED journal
      BY <2>1 DEF Places, Entered
    <2>2. CASE Consume
      <3>1. journal' = [journal EXCEPT ![ticket].admitted = FALSE]
        BY <2>2 DEF Consume
      <3>2. WorkerStep => Next
        BY DEF Next
      <3>3. \A e \in DOMAIN journal : journal'[e].attempt = journal[e].attempt
        BY <3>2, StoreStep, JournalStep
      <3> QED BY <3>1, <3>3, PlacesStay
    <2> QED BY <2>1, <2>2
            DEF WorkerStep, FallAsleep, WaitForSignal, NextTicket, Dispatch, BeginAttempt,
                RunAttempt, CompleteAttempt, PublishResult, JudgeFailure, EndAttempt, RetryLater,
                durable
  <1>5. CASE UNCHANGED attempts
    <2>1. Waiting' = Waiting /\ Served' = Served
      BY <1>2, <1>4, <1>5 DEF Served
    <2> QED BY <1>1, <1>4, <2>1 DEF Line!vars
  <1>6. CASE BeginAttempt /\ attempts' # attempts
    <2>1. HoldsTicket /\ CanBegin(attempts[Current]) /\ Served = {}
      BY <1>6 DEF BeginAttempt, HoldsTicket, LineInv, Alone, Serving
    <2>2. /\ Served' = {Current} /\ Current \in DOMAIN attempts
          /\ attempts'[Current].status = "Running"
          /\ \A a \in DOMAIN attempts \ {Current} : attempts'[a] = attempts[a]
      <3> DEFINE x == attempts[Current]
      <3>1. Current \in DOMAIN attempts /\ Sound(x)
            /\ attempts' = [attempts EXCEPT ![Current] = Begin(x)]
        BY <1>6, <2>1, CurrentIsStored DEF BeginAttempt, QueueInv, StoreSound
      <3>2. Begin(x).status = "Running"
        BY <3>1, LineTransitions
      <3>3. /\ DOMAIN attempts' = DOMAIN attempts
            /\ \A a \in DOMAIN attempts : attempts'[a] = IF a = Current THEN Begin(x) ELSE attempts[a]
        BY <3>1, OneReplaced
      <3> HIDE DEF x
      <3>4. Served' = {Current}
        BY <2>1, <3>1, <3>2, <3>3 DEF Served
      <3> QED BY <3>1, <3>2, <3>3, <3>4
    <2>3. Current \in Waiting /\ Line!First(Current)
      BY <2>1, TicketFirst DEF CanBegin
    <2>4. Waiting' = Waiting \ {Current}
      BY <1>2, <1>3, <1>4, <2>2
    <2>5. Line!Serve
      BY <1>1, <1>4, <2>1, <2>2, <2>3, <2>4 DEF Line!Serve
    <2> QED BY <2>5 DEF Line!Next
  <1>7. CASE CompleteAttempt \/ EndAttempt
    <2>1. HoldsTicket /\ worker \in Serving
      BY <1>7 DEF CompleteAttempt, EndAttempt, HoldsTicket, Serving
    <2>2. Current \in DOMAIN attempts /\ attempts[Current].status # "Pending"
      BY <2>1, CurrentIsStored DEF QueueInv, LineInv, Begun, Stands, Current
    <2>3. PICK y : attempts' = [attempts EXCEPT ![Current] = y]
      BY <1>7 DEF CompleteAttempt, EndAttempt
    <2>4. \A a \in DOMAIN attempts \ {Current} : attempts'[a] = attempts[a]
      BY <2>2, <2>3, OneReplaced
    <2>5. /\ \A a \in DOMAIN attempts : attempts'[a].status = "Pending" => attempts[a].status = "Pending"
          /\ Served' \subseteq Served
      BY <1>7, WorkerCalm DEF BeginAttempt, CompleteAttempt, EndAttempt
    <2>6. Waiting' = Waiting
      BY <1>2, <1>3, <1>4, <2>2, <2>4, <2>5
    <2>7. CASE Served' = Served
      BY <1>1, <1>4, <2>6, <2>7 DEF Line!vars
    <2>8. CASE Served' # Served
      <3>1. Served # {} /\ Served' = {}
        BY <2>5, <2>8 DEF LineInv, Alone
      <3>2. Line!Finish
        BY <1>1, <1>4, <2>6, <3>1 DEF Line!Finish
      <3> QED BY <3>2 DEF Line!Next
    <2> QED BY <2>7, <2>8
  <1> QED BY <1>5, <1>6, <1>7
          DEF WorkerStep, FallAsleep, WaitForSignal, NextTicket, Dispatch, RunAttempt,
              PublishResult, JudgeFailure, Consume, RetryLater, durable

LEMMA EndsServe ==
  ASSUME QueueInv, LineInv, LineInv', Shutdown \/ Restart
  PROVE  [Line!Next]_(Line!vars)
  <1>1. UNCHANGED journal /\ Places' = Places /\ Entered' = Entered
    BY DEF Shutdown, Restart, durable, Places, Entered
  <1>2. Waiting = {a \in Entered : attempts[a].status = "Pending"}
        /\ Waiting' = {a \in Entered' : attempts'[a].status = "Pending"}
    BY WhoWaits, WhoWaitsNext DEF LineInv
  <1>3. CASE Shutdown
    <2>1. UNCHANGED attempts /\ shutdown' = TRUE
      BY <1>3 DEF Shutdown, durable
    <2>2. Waiting' = Waiting /\ Served' = Served
      BY <1>1, <1>2, <2>1 DEF Served
    <2>3. Line!Close
      BY <1>1, <2>1, <2>2 DEF Line!Close
    <2> QED BY <2>3 DEF Line!Next
  <1>4. CASE Restart
    <2>1. attempts' = RecoverRunning(attempts) /\ shutdown' = FALSE
      BY <1>4 DEF Restart, Started
    <2>2. \A a \in DOMAIN attempts : attempts[a] \in AttemptRecords
      BY DEF QueueInv, StoreSound, Sound
    <2>3. /\ DOMAIN attempts' = DOMAIN attempts
          /\ \A a \in DOMAIN attempts :
               /\ attempts'[a].status # "Running"
               /\ attempts'[a].status = "Pending" <=> attempts[a].status = "Pending"
      BY <2>1, <2>2 DEF RecoverRunning, AttemptRecords
    <2>4. Entered \subseteq DOMAIN attempts
      BY DEF Entered, QueueInv, JournalInv
    <2>5. Waiting' = Waiting /\ Served' = {}
      BY <1>1, <1>2, <2>3, <2>4 DEF Served
    <2>6. Line!Reopen
      BY <1>1, <2>1, <2>5 DEF Line!Reopen
    <2> QED BY <2>6 DEF Line!Next
  <1> QED BY <1>3, <1>4

\* The queue keeps one line for the device (AttemptLine), however callers, cancellations,
\* resets, shutdowns and restarts interleave with the worker: in order of admission, one
\* attempt at a time, each at most once.  That the first is served is left to the runs.
THEOREM QueueIsOneLine == Spec => Line!Orderly
  <1>1. Init => LineInv /\ Line!Init
    <2> SUFFICES ASSUME Init PROVE LineInv /\ Line!Init
      OBVIOUS
    <2>1. attempts = << >> /\ journal = << >> /\ shutdown = FALSE /\ worker = "wait"
      BY DEF Init
    <2>2. DOMAIN attempts = {} /\ DOMAIN journal = {}
      BY <2>1
    <2>3. Served = {} /\ Waiting = {} /\ Places = << >>
      BY <2>2 DEF Served, Waiting, InLine, Places
    <2>4. LineInv
      BY <2>1, <2>2, <2>3
         DEF LineInv, Bounded, Tombstones, Ahead, Begun, Alone, Told, HoldsTicket, Serving
    <2>5. Line!Init
      BY <2>1, <2>3 DEF Line!Init
    <2> QED BY <2>4, <2>5
  <1>2. Spec => []LineInv
    BY <1>1, LineStep, QueueStaysSound, PTL DEF Spec
  <1>3. QueueInv /\ LineInv /\ LineInv' /\ [Next]_vars => [Line!Next]_(Line!vars)
    <2> SUFFICES ASSUME QueueInv, LineInv, LineInv', [Next]_vars PROVE [Line!Next]_(Line!vars)
      OBVIOUS
    <2> QED BY LineSteps, CallersServe, InsertServe, WorkerServe, EndsServe
  <1> QED BY <1>1, <1>2, <1>3, QueueStaysSound, PTL DEF Spec, Line!Orderly

===============================================================================
