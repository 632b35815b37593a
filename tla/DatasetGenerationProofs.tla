------------------------ MODULE DatasetGenerationProofs ------------------------
(***************************************************************************)
(* Proofs about DatasetGeneration, for any Users, datasets, resets and     *)
(* bounds: what was completed is kept.                                     *)
(*                                                                         *)
(* Files change before the rows that name them, so the invariant has to    *)
(* say what holds in between, while one holder has the database mutex: the *)
(* file of an attempt about to be recorded is there, and what a reset set  *)
(* aside is nobody else's.                                                 *)
(***************************************************************************)
EXTENDS DatasetGeneration, SequenceTheorems, TLAPS

Row == [user : Users, data : Datasets, status : Statuses]

Publishing(a) == step[a] \in {"created", "reused"}
Deleting(r) == reset[r] \in {"commit", "finish", "leave"}
Completed(a) == a \in DOMAIN attempts /\ attempts[a].status = "completed"

\* At most one thread has changed files and keeps the mutex.
OneHolder ==
  /\ \A a, b \in Ids : Publishing(a) /\ Publishing(b) => a = b
  /\ \A r, s \in Resets : Deleting(r) /\ Deleting(s) => r = s
  /\ \A a \in Ids, r \in Resets : ~(Publishing(a) /\ Deleting(r))

\* The file of an attempt about to be recorded is there; if it was created for it,
\* whoever completed the same dataset has it set aside by a reset that ended.
Published ==
  \A a \in Ids : Publishing(a) =>
    /\ a \in DOMAIN attempts /\ attempts[a].data \in files
    /\ step[a] = "created" =>
         \A b \in Ids : Completed(b) /\ attempts[b].data = attempts[a].data
                          => attempts[b].data \in staged

\* What a reset set aside can be put back, and is of no completed attempt of
\* another User; once the rows are gone, of no completed attempt at all.
SetAside ==
  \A r \in Resets :
    /\ reset[r] = "commit" =>
         /\ ~All(r) => moved[r] = {}
         /\ \A b \in Ids : Completed(b) /\ attempts[b].data \in moved[r]
                             => attempts[b].user = UserOf(r)
    /\ reset[r] = "finish" =>
         \A b \in Ids : Completed(b) => attempts[b].data \notin moved[r]

Kept == CompletedIsKept /\ OneHolder /\ Published /\ SetAside
IInv == TypeOK /\ Kept

-------------------------------------------------------------------------------
(***************************************************************************)
(* The rows.                                                               *)
(***************************************************************************)

LEMMA Rows ==
  ASSUME TypeOK
  PROVE  /\ attempts \in Seq(Row) /\ Len(attempts) \in Nat
         /\ DOMAIN attempts = 1 .. Len(attempts) /\ DOMAIN attempts \subseteq Ids
         /\ \A a \in DOMAIN attempts : attempts[a] \in Row
  <1>1. attempts \in Seq(Row) /\ Len(attempts) <= MaxAttempts /\ MaxAttempts \in Nat
    BY GenerationAssumption DEF TypeOK, Row
  <1>2. Len(attempts) \in Nat /\ DOMAIN attempts = 1 .. Len(attempts)
    BY <1>1, LenProperties
  <1>3. DOMAIN attempts \subseteq Ids
    BY <1>1, <1>2 DEF Ids
  <1> QED BY <1>1, <1>2, <1>3, ElementOfSeq

\* A change of status leaves a row for every attempt, and the other rows alone.
LEMMA Marked ==
  ASSUME TypeOK, NEW a \in DOMAIN attempts, NEW status \in Statuses,
         NEW marked, marked = WithStatus(a, status)
  PROVE  /\ marked \in Seq(Row) /\ Len(marked) = Len(attempts)
         /\ DOMAIN marked = DOMAIN attempts
         /\ marked[a].status = status
         /\ marked[a].user = attempts[a].user /\ marked[a].data = attempts[a].data
         /\ \A b \in DOMAIN attempts \ {a} : marked[b] = attempts[b]
  <1> DEFINE row == [attempts[a] EXCEPT !.status = status]
  <1>1. /\ attempts \in Seq(Row) /\ a \in 1 .. Len(attempts)
        /\ DOMAIN attempts = 1 .. Len(attempts)
    BY Rows
  <1>2. /\ row \in Row /\ row.status = status
        /\ row.user = attempts[a].user /\ row.data = attempts[a].data
    BY Rows DEF Row
  <1>3. marked = [attempts EXCEPT ![a] = row]
    BY DEF WithStatus
  <1> HIDE DEF row
  <1>4. /\ marked \in Seq(Row) /\ Len(marked) = Len(attempts)
        /\ \A b \in 1 .. Len(attempts) : marked[b] = IF b = a THEN row ELSE attempts[b]
    BY <1>1, <1>2, <1>3, ExceptSeq
  <1> QED BY <1>1, <1>2, <1>3, <1>4

\* A new row comes after the others.
LEMMA Added ==
  ASSUME TypeOK, Len(attempts) < MaxAttempts, NEW row \in Row,
         NEW added, added = Append(attempts, row)
  PROVE  /\ added \in Seq(Row) /\ Len(added) <= MaxAttempts
         /\ Len(added) = Len(attempts) + 1 /\ Len(added) \in Ids
         /\ DOMAIN added = 1 .. Len(added)
         /\ \A b \in DOMAIN attempts : added[b] = attempts[b]
         /\ added[Len(added)] = row
  <1>1. attempts \in Seq(Row) /\ Len(attempts) \in Nat /\ MaxAttempts \in Nat
        /\ DOMAIN attempts = 1 .. Len(attempts)
    BY Rows, GenerationAssumption
  <1>2. /\ added \in Seq(Row) /\ Len(added) = Len(attempts) + 1
        /\ \A b \in 1 .. Len(attempts) : added[b] = attempts[b]
        /\ added[Len(attempts) + 1] = row
    BY <1>1, AppendProperties
  <1>3. DOMAIN added = 1 .. Len(added)
    BY <1>2, LenProperties
  <1> QED BY <1>1, <1>2, <1>3 DEF Ids

\* Other rows for the same attempts are rows.
LEMMA RowsMapped ==
  ASSUME TypeOK, NEW mapped \in [DOMAIN attempts -> Row]
  PROVE  mapped \in Seq(Row) /\ Len(mapped) <= MaxAttempts
  <1>1. Len(attempts) \in Nat /\ DOMAIN attempts = 1 .. Len(attempts)
    BY Rows
  <1>2. mapped \in Seq(Row)
    BY <1>1, SeqDef
  <1>3. DOMAIN mapped = 1 .. Len(mapped) /\ Len(mapped) \in Nat
    BY <1>2, LenProperties
  <1>4. 1 .. Len(mapped) = 1 .. Len(attempts)
    BY <1>1, <1>3
  <1>5. Len(mapped) = Len(attempts)
    BY <1>1, <1>3, <1>4
  <1> QED BY <1>2, <1>5 DEF TypeOK

-------------------------------------------------------------------------------
(***************************************************************************)
(* Types.                                                                  *)
(***************************************************************************)

LEMMA InitTyped == Init => TypeOK
  <1>1. <<>> \in Seq(Row) /\ Len(<<>>) = 0
    BY EmptySeq
  <1> QED BY <1>1, GenerationAssumption
          DEF Init, TypeOK, Row, NoSteps, NoResets, NothingTaken, Steps, ResetSteps

\* Spending leaves a budget.
LEMMA Spent ==
  ASSUME TypeOK, NEW c \in Commands, Spend(c)
  PROVE  left' \in [Commands -> Nat]
  BY DEF TypeOK, Spend

LEMMA CreateTyped ==
  ASSUME TypeOK, NEW u \in Users, NEW d \in Datasets, Create(u, d),
         left' \in [Commands -> Nat]
  PROVE  TypeOK'
  <1> DEFINE row == [user |-> u, data |-> d, status |-> "pending"]
  <1>1. row \in Row
    BY DEF Row, Statuses
  <1>2. /\ attempts' = Append(attempts, row) /\ Len(attempts) < MaxAttempts
        /\ registered' = registered \cup {Len(attempts')}
        /\ step' = [step EXCEPT ![Len(attempts')] = "start"]
    BY DEF Create, Goto
  <1> HIDE DEF row
  <1>3. attempts' \in Seq(Row) /\ Len(attempts') <= MaxAttempts /\ Len(attempts') \in Ids
    BY <1>1, <1>2, Added
  <1>4. step' \in [Ids -> Steps] /\ registered' \subseteq Ids
    BY <1>2, <1>3 DEF TypeOK, Steps
  <1>5. registered' = {a \in Ids : step'[a] # "none"}
    BY <1>2, <1>3 DEF TypeOK
  <1> QED BY <1>3, <1>4, <1>5 DEF TypeOK, Create, disk, resets, Row

\* The other actions change the rows or leave them, take threads to a step and
\* maybe out of the registry, and change sets of the right kind.
LEMMA StepTyped ==
  ASSUME TypeOK, NEW a \in DOMAIN attempts, NEW next \in Steps \ {"none"}, Goto(a, next),
         step[a] # "none", UNCHANGED registered
  PROVE  /\ step' \in [Ids -> Steps] /\ registered' \subseteq Ids
         /\ registered' = {b \in Ids : step'[b] # "none"}
  <1>1. a \in Ids
    BY Rows
  <1> QED BY <1>1 DEF TypeOK, Goto

LEMMA CommandTyped ==
  ASSUME TypeOK, NEW a \in DOMAIN attempts, Retry(a) \/ Cancel(a) \/ RaiseFlag(a)
  PROVE  TypeOK'
  <1>1. a \in Ids /\ attempts[a] \in Row
    BY Rows
  <1>2. CASE Retry(a)
    <2>1. left' \in [Commands -> Nat]
      BY <1>2, Spent DEF Retry, Commands
    <2>2. attempts[a].user \in Users /\ attempts[a].data \in Datasets
      BY <1>1 DEF Row
    <2> QED BY <1>2, <2>1, <2>2, CreateTyped DEF Retry
  <1>3. CASE Cancel(a)
    <2>1. left' \in [Commands -> Nat]
      BY <1>3, Spent DEF Cancel, Commands
    <2>2. attempts' \in Seq(Row) /\ Len(attempts') <= MaxAttempts
      <3>1. attempts' = attempts \/ attempts' = WithStatus(a, "cancelled")
        BY <1>3 DEF Cancel
      <3>2. CASE attempts' = WithStatus(a, "cancelled")
        BY <3>2, Marked DEF Statuses, TypeOK
      <3> QED BY <3>1, <3>2 DEF TypeOK, Row
    <2> QED BY <1>1, <1>3, <2>1, <2>2 DEF Cancel, TypeOK, Row, disk, resets
  <1>4. CASE RaiseFlag(a)
    BY <1>1, <1>4 DEF RaiseFlag, TypeOK, rows, disk, resets
  <1> QED BY <1>2, <1>3, <1>4

LEMMA ThreadTyped ==
  ASSUME TypeOK, NEW a \in DOMAIN attempts, Thread(a)
  PROVE  TypeOK'
  <1> DEFINE moves == \E next \in Steps \ {"none"} : Goto(a, next) /\ step[a] # "none"
                                                       /\ UNCHANGED registered
             marks == attempts' = attempts \/ \E s \in Statuses : attempts' = WithStatus(a, s)
  <1>1. a \in Ids /\ attempts[a] \in Row /\ attempts[a].data \in Datasets
        /\ Made(a) \in Users \X Datasets
    BY Rows DEF Row, Made
  <1>2. ASSUME moves
        PROVE  /\ step' \in [Ids -> Steps] /\ registered' \subseteq Ids
               /\ registered' = {b \in Ids : step'[b] # "none"}
    BY <1>2, StepTyped
  <1>3. ASSUME marks
        PROVE  attempts' \in Seq([user : Users, data : Datasets, status : Statuses])
               /\ Len(attempts') <= MaxAttempts
    BY <1>3, Marked DEF TypeOK, Row
  <1>4. CASE MarkRunning(a)
    <2>1. moves /\ marks
      BY <1>4 DEF MarkRunning, Steps, Statuses
    <2> QED BY <1>4, <2>1, <1>2, <1>3 DEF MarkRunning, TypeOK, disk, resets
  <1>5. CASE ReadInputs(a)
    <2>1. moves
      BY <1>5 DEF ReadInputs, Steps
    <2> QED BY <1>5, <2>1, <1>2 DEF ReadInputs, TypeOK, rows, disk, resets
  <1>6. CASE Compute(a)
    <2>1. moves
      BY <1>6 DEF Compute, Steps
    <2> QED BY <1>6, <2>1, <1>2 DEF Compute, TypeOK, rows, disk, resets
  <1>7. CASE JudgeError(a)
    <2>1. moves
      BY <1>7 DEF JudgeError, Steps
    <2> QED BY <1>7, <2>1, <1>2 DEF JudgeError, TypeOK, rows, disk, resets
  <1>8. CASE RecordEnd(a, "cancel", "cancelled") \/ RecordEnd(a, "fail", "failed")
    <2>1. moves /\ marks
      BY <1>8 DEF RecordEnd, Steps, Statuses
    <2> QED BY <1>8, <2>1, <1>2, <1>3 DEF RecordEnd, TypeOK, disk, resets
  <1>9. CASE BeginPublish(a)
    <2>1. moves
      BY <1>9 DEF BeginPublish, Steps
    <2> QED BY <1>1, <1>9, <2>1, <1>2 DEF BeginPublish, TypeOK, rows, resets
  <1>10. CASE CommitPublish(a)
    <2>1. moves /\ marks
      BY <1>10 DEF CommitPublish, Steps, Statuses
    <2> QED BY <1>1, <1>10, <2>1, <1>2, <1>3 DEF CommitPublish, TypeOK, disk, resets
  <1>11. CASE AbortPublish(a)
    <2>1. moves
      BY <1>11 DEF AbortPublish, Steps
    <2>2. left' \in [Commands -> Nat]
      BY <1>11, Spent DEF AbortPublish, Commands, TypeOK
    <2>3. files' \subseteq Datasets
      BY <1>11 DEF AbortPublish, TypeOK
    <2> QED BY <1>11, <2>1, <2>2, <2>3, <1>2 DEF AbortPublish, TypeOK, rows, resets
  <1>12. CASE Leave(a)
    <2>1. step' = [step EXCEPT ![a] = "none"] /\ registered' = registered \ {a}
      BY <1>12 DEF Leave, Goto
    <2>2. /\ step' \in [Ids -> Steps] /\ registered' \subseteq Ids
          /\ registered' = {b \in Ids : step'[b] # "none"}
      BY <1>1, <2>1 DEF TypeOK, Steps
    <2> QED BY <1>12, <2>2 DEF Leave, TypeOK, rows, disk, resets
  <1> QED BY <1>4, <1>5, <1>6, <1>7, <1>8, <1>9, <1>10, <1>11, <1>12, Zenon DEF Thread

LEMMA ResetTyped ==
  ASSUME TypeOK, NEW r \in Resets, BeginReset(r) \/ ResetStep(r)
  PROVE  TypeOK'
  <1> DEFINE moves == \E next \in ResetSteps : ResetTo(r, next)
  <1>1. DOMAIN attempts \subseteq Ids /\ UserOf(r) \in Users /\ Unblocked(r) \subseteq Users
    BY Rows, GenerationAssumption DEF UserOf, Unblocked, TypeOK
  <1>2. ASSUME moves PROVE reset' \in [Resets -> ResetSteps]
    BY <1>2 DEF ResetTo, TypeOK
  <1>3. CASE BeginReset(r)
    <2>1. moves
      BY <1>3 DEF BeginReset, ResetSteps
    <2>2. left' \in [Commands -> Nat]
      BY <1>3, Spent DEF BeginReset, Commands
    <2>3. blocked' \subseteq Users /\ awaited' \in [Resets -> SUBSET Ids]
      BY <1>1, <1>3 DEF BeginReset, TypeOK
    <2> QED BY <1>3, <2>1, <2>2, <2>3, <1>2 DEF BeginReset, TypeOK, rows, disk, runtime
  <1>4. CASE FlagAwaited(r)
    <2>1. moves
      BY <1>4 DEF FlagAwaited, ResetSteps
    <2> QED BY <1>4, <2>1, <1>2 DEF FlagAwaited, TypeOK, rows, disk
  <1>5. CASE EndAwait(r) \/ Enter(r)
    <2>1. moves
      BY <1>5 DEF EndAwait, Enter, ResetSteps
    <2> QED BY <1>1, <1>5, <2>1, <1>2 DEF EndAwait, Enter, TypeOK, rows, disk, runtime
  <1>6. CASE Stage(r)
    <2>1. moves
      BY <1>6 DEF Stage, ResetSteps
    <2>2. files' \subseteq Datasets /\ staged' \subseteq Datasets
          /\ moved' \in [Resets -> SUBSET Datasets]
      BY <1>6 DEF Stage, TypeOK
    <2> QED BY <1>6, <2>1, <2>2, <1>2 DEF Stage, TypeOK, rows, runtime
  <1>7. CASE CommitReset(r)
    <2>1. moves
      BY <1>7 DEF CommitReset, ResetSteps
    <2>2. snapshots' \subseteq Users \X Datasets /\ access' \subseteq Users \X Datasets
          /\ content' \subseteq Datasets
      BY <1>7 DEF CommitReset, TypeOK
    <2>3. attempts' \in Seq(Row) /\ Len(attempts') <= MaxAttempts
      <3>1. CASE ~All(r)
        BY <1>7, <3>1 DEF CommitReset, TypeOK, Row
      <3>2. CASE All(r)
        <4> DEFINE row(a) == IF attempts[a].user = UserOf(r)
                             THEN [attempts[a] EXCEPT !.status = "deleted"] ELSE attempts[a]
        <4>1. \A a \in DOMAIN attempts : row(a) \in Row
          BY Rows DEF Row, Statuses
        <4>2. attempts' = [a \in DOMAIN attempts |-> row(a)]
          BY <1>7, <3>2 DEF CommitReset
        <4> HIDE DEF row
        <4> QED BY <4>1, <4>2, RowsMapped
      <3> QED BY <3>1, <3>2
    <2> QED BY <1>7, <2>1, <2>2, <2>3, <1>2 DEF CommitReset, TypeOK, Row, disk, runtime
  <1>8. CASE AbortReset(r)
    <2>1. moves
      BY <1>8 DEF AbortReset, ResetSteps
    <2>2. left' \in [Commands -> Nat]
      BY <1>8, Spent DEF AbortReset, Commands
    <2> QED BY <1>8, <2>1, <2>2, <1>2 DEF AbortReset, TypeOK, rows, runtime
  <1>9. CASE RemoveStaged(r)
    <2>1. moves
      BY <1>9 DEF RemoveStaged, ResetSteps
    <2> QED BY <1>9, <2>1, <1>2 DEF RemoveStaged, TypeOK, rows, runtime
  <1>10. CASE LeaveReset(r)
    <2>1. moves
      BY <1>10 DEF LeaveReset, ResetSteps
    <2> QED BY <1>1, <1>10, <2>1, <1>2 DEF LeaveReset, TypeOK, rows, disk, runtime
  <1> QED BY <1>3, <1>4, <1>5, <1>6, <1>7, <1>8, <1>9, <1>10, Zenon DEF ResetStep

LEMMA RestartTyped ==
  ASSUME TypeOK, Restart
  PROVE  TypeOK'
  <1>1. attempts' \in Seq(Row) /\ Len(attempts') <= MaxAttempts
    <2> DEFINE row(a) == IF attempts[a].status \in ActiveStatuses
                         THEN [attempts[a] EXCEPT !.status = "failed"] ELSE attempts[a]
    <2>1. \A a \in DOMAIN attempts : row(a) \in Row
      BY Rows DEF Row, Statuses
    <2>2. attempts' = [a \in DOMAIN attempts |-> row(a)]
      BY DEF Restart
    <2> HIDE DEF row
    <2> QED BY <2>1, <2>2, RowsMapped
  <1>2. left' \in [Commands -> Nat]
    BY Spent DEF Restart, Commands
  <1>3. step' \in [Ids -> Steps] /\ \A a \in Ids : step'[a] = "none"
    BY DEF Restart, NoSteps, Steps
  <1>4. /\ reset' \in [Resets -> ResetSteps]
        /\ awaited' \in [Resets -> SUBSET Ids] /\ moved' \in [Resets -> SUBSET Datasets]
    BY DEF Restart, NoResets, NothingTaken, ResetSteps
  <1> QED BY <1>1, <1>2, <1>3, <1>4 DEF Restart, TypeOK, Row, disk

LEMMA NextTyped == TypeOK /\ [Next]_vars => TypeOK'
  <1> SUFFICES ASSUME TypeOK, [Next]_vars PROVE TypeOK'
    OBVIOUS
  <1>1. ASSUME NEW u \in Users, NEW d \in Datasets, Start(u, d) \/ Download(u, d)
        PROVE  TypeOK'
    <2>1. left' \in [Commands -> Nat]
      BY <1>1, Spent DEF Start, Download, Commands
    <2>2. CASE Start(u, d)
      BY <2>1, <2>2, CreateTyped DEF Start
    <2>3. CASE Download(u, d)
      BY <2>1, <2>3 DEF Download, TypeOK, disk, runtime, resets
    <2> QED BY <1>1, <2>2, <2>3
  <1>2. CASE UNCHANGED vars
    BY <1>2 DEF vars, TypeOK, rows, disk, runtime, resets
  <1> QED BY <1>1, <1>2, CommandTyped, ThreadTyped, ResetTyped, RestartTyped, Zenon DEF Next

-------------------------------------------------------------------------------
(***************************************************************************)
(* What was completed is kept.                                             *)
(***************************************************************************)

LEMMA InitKept == Init => Kept
  <1> SUFFICES ASSUME Init PROVE Kept
    OBVIOUS
  <1>1. DOMAIN attempts = {} /\ \A a \in Ids : ~Publishing(a)
    BY DEF Init, NoSteps, Publishing
  <1>2. \A r \in Resets : reset[r] = "idle"
    BY DEF Init, NoResets
  <1> QED BY <1>1, <1>2
          DEF Kept, CompletedIsKept, OneHolder, Published, SetAside, Deleting, Completed

\* Who takes the free mutex finds no other holder.
LEMMA Free ==
  ASSUME DatabaseFree
  PROVE  /\ \A a \in Ids : ~Publishing(a)
         /\ \A r \in Resets : ~Deleting(r)
  BY DEF DatabaseFree, Publishing, Deleting

\* What was completed is there, told with the definitions of this module.
LEMMA KeptRows ==
  ASSUME TypeOK
  PROVE  CompletedIsKept <=>
           \A a \in Ids : Completed(a) => /\ Made(a) \in access /\ attempts[a].data \in content
                                          /\ attempts[a].data \in files \cup staged
  <1>1. DOMAIN attempts \subseteq Ids
    BY Rows
  <1> QED BY <1>1 DEF CompletedIsKept, Completed

LEMMA KeptRowsNext ==
  ASSUME TypeOK'
  PROVE  CompletedIsKept' <=>
           \A a \in Ids : Completed(a)' => /\ Made(a)' \in access'
                                           /\ attempts'[a].data \in content'
                                           /\ attempts'[a].data \in files' \cup staged'
  <1>1. (DOMAIN attempts \subseteq Ids)'
    BY Rows, PTL
  <1> QED BY <1>1 DEF CompletedIsKept, Completed

\* A step that completes nothing, takes no mutex and changes no file.
LEMMA Quiet ==
  ASSUME TypeOK, TypeOK', Kept, UNCHANGED <<content, access, files, staged>>,
         \A a \in Ids : Completed(a)' => Completed(a) /\ attempts'[a].user = attempts[a].user
                                           /\ attempts'[a].data = attempts[a].data,
         \A a \in Ids : Publishing(a)' => step'[a] = step[a] /\ a \in DOMAIN attempts'
                                           /\ attempts'[a].data = attempts[a].data,
         \A r \in Resets : Deleting(r)' => reset'[r] = reset[r] /\ moved'[r] = moved[r]
  PROVE  Kept'
  <1>1. \A a \in Ids : Publishing(a)' => Publishing(a)
    BY DEF Publishing
  <1>2. \A r \in Resets : Deleting(r)' => Deleting(r)
    BY DEF Deleting
  <1>3. CompletedIsKept'
    BY KeptRows, KeptRowsNext DEF Kept, Made
  <1>4. OneHolder'
    BY <1>1, <1>2 DEF Kept, OneHolder
  <1>5. Published'
    BY <1>1 DEF Kept, Published
  <1>6. SetAside'
    BY DEF Kept, SetAside, Deleting, All, UserOf
  <1> QED BY <1>3, <1>4, <1>5, <1>6 DEF Kept

\* A status that changes leaves what the attempts are about.
LEMMA Recorded ==
  ASSUME TypeOK, NEW a \in DOMAIN attempts, NEW status \in Statuses,
         attempts' = attempts \/ attempts' = WithStatus(a, status)
  PROVE  /\ DOMAIN attempts' = DOMAIN attempts
         /\ \A b \in DOMAIN attempts : /\ attempts'[b].user = attempts[b].user
                                       /\ attempts'[b].data = attempts[b].data
                                       /\ Made(b)' = Made(b)
                                       /\ b # a => attempts'[b].status = attempts[b].status
         /\ attempts'[a].status \in {status, attempts[a].status}
         /\ attempts' # attempts => attempts'[a].status = status
  <1>1. CASE attempts' = attempts
    BY <1>1 DEF Made
  <1>2. CASE attempts' = WithStatus(a, status)
    BY <1>2, Marked DEF Made
  <1> QED BY <1>1, <1>2

\* Where a step of a thread may lead while it publishes nothing.
LEMMA Elsewhere ==
  ASSUME TypeOK, NEW a \in DOMAIN attempts, NEW next \in Steps, Goto(a, next)
  PROVE  /\ a \in Ids /\ step'[a] = next
         /\ \A b \in Ids \ {a} : step'[b] = step[b]
  BY Rows DEF Goto, TypeOK

LEMMA QuietThread ==
  ASSUME TypeOK, TypeOK', Kept, NEW a \in DOMAIN attempts,
         NEW next \in Steps \ {"created", "reused"}, Goto(a, next),
         NEW status \in Statuses \ {"completed"},
         attempts' = attempts \/ attempts' = WithStatus(a, status),
         UNCHANGED <<content, access, files, staged, reset, moved>>
  PROVE  Kept'
  <1>1. \A b \in Ids : Completed(b)' => Completed(b) /\ attempts'[b].user = attempts[b].user
                                          /\ attempts'[b].data = attempts[b].data
    BY Recorded DEF Completed
  <1>2. \A b \in Ids : Publishing(b)' => step'[b] = step[b] /\ b \in DOMAIN attempts'
                                          /\ attempts'[b].data = attempts[b].data
    BY Elsewhere, Recorded DEF Publishing, Kept, Published
  <1> QED BY <1>1, <1>2, Quiet

\* An attempt reuses what another one made.
LEMMA ReuseKept ==
  ASSUME TypeOK, TypeOK', Kept, NEW a \in DOMAIN attempts, DatabaseFree,
         Reusable(a) # {}, attempts' = WithStatus(a, "completed"), Goto(a, "leave"),
         UNCHANGED <<content, access, files, staged, reset, moved>>
  PROVE  Kept'
  <1>1. PICK b \in DOMAIN attempts \ {a} : Made(b) = Made(a) /\ attempts[b].status = "completed"
    BY DEF Reusable
  <1>2. /\ Made(a) \in access /\ attempts[a].data \in content
        /\ attempts[a].data \in files \cup staged
    BY <1>1 DEF Kept, CompletedIsKept, Made
  <1>3. /\ DOMAIN attempts' = DOMAIN attempts
        /\ \A c \in DOMAIN attempts : /\ Made(c)' = Made(c)
                                      /\ attempts'[c].data = attempts[c].data
                                      /\ c # a => attempts'[c].status = attempts[c].status
    BY Recorded DEF Statuses
  <1>4. CompletedIsKept'
    BY <1>2, <1>3 DEF Kept, CompletedIsKept
  <1>5. /\ \A c \in Ids : ~Publishing(c)'
        /\ \A r \in Resets : ~Deleting(r)'
    BY Free, Elsewhere DEF Publishing, Deleting, Steps
  <1> QED BY <1>4, <1>5 DEF Kept, OneHolder, Published, SetAside, Deleting

\* A file is there before its row; what was completed of it is set aside, if the
\* file was not there.
LEMMA BeginPublishKept ==
  ASSUME TypeOK, TypeOK', Kept, NEW a \in DOMAIN attempts, BeginPublish(a)
  PROVE  Kept'
  <1>1. UNCHANGED <<attempts, content, access, staged, reset, moved>>
    BY DEF BeginPublish, rows, resets
  <1>2. CASE a \in flagged
    BY <1>1, <1>2, QuietThread DEF BeginPublish, Steps, Statuses
  <1>3. CASE a \notin flagged
    <2>1. PICK next \in {"created", "reused"} :
            /\ Goto(a, next) /\ files' = files \cup {attempts[a].data}
            /\ next = "created" => attempts[a].data \notin files
      BY <1>3 DEF BeginPublish
    <2>2. /\ a \in Ids /\ step'[a] = next
          /\ \A b \in Ids \ {a} : ~Publishing(b)'
          /\ \A r \in Resets : ~Deleting(r)'
      BY <1>1, <2>1, Free, Elsewhere DEF BeginPublish, Publishing, Deleting, Steps
    <2>3. CompletedIsKept'
      BY <1>1, <2>1 DEF Kept, CompletedIsKept, Made
    <2>4. Published'
      <3>1. \A b \in Ids : Completed(b)' /\ attempts'[b].data = attempts'[a].data /\ next = "created"
                             => attempts'[b].data \in staged'
        BY <1>1, <2>1, KeptRows DEF Kept, Completed
      <3>2. a \in DOMAIN attempts' /\ attempts'[a].data \in files'
        BY <1>1, <2>1
      <3> QED BY <2>2, <3>1, <3>2 DEF Published
    <2> QED BY <2>2, <2>3, <2>4 DEF Kept, OneHolder, SetAside, Deleting
  <1> QED BY <1>2, <1>3

LEMMA CommitPublishKept ==
  ASSUME TypeOK, TypeOK', Kept, NEW a \in DOMAIN attempts, CommitPublish(a)
  PROVE  Kept'
  <1>1. /\ attempts' = WithStatus(a, "completed") /\ Goto(a, "leave")
        /\ content' = content \cup {attempts[a].data} /\ access' = access \cup {Made(a)}
        /\ UNCHANGED <<files, staged, reset, moved>> /\ Publishing(a)
    BY DEF CommitPublish, disk, resets, Publishing
  <1>2. a \in Ids /\ attempts[a].data \in files
    BY <1>1, Rows DEF Kept, Published
  <1>3. /\ DOMAIN attempts' = DOMAIN attempts
        /\ \A c \in DOMAIN attempts : /\ Made(c)' = Made(c)
                                      /\ attempts'[c].data = attempts[c].data
                                      /\ c # a => attempts'[c].status = attempts[c].status
    BY <1>1, Recorded DEF Statuses
  <1>4. CompletedIsKept'
    BY <1>1, <1>2, <1>3 DEF Kept, CompletedIsKept
  <1>5. /\ \A c \in Ids : ~Publishing(c)'
        /\ \A r \in Resets : ~Deleting(r)'
    BY <1>1, <1>2, Elsewhere DEF Kept, OneHolder, Publishing, Deleting, Steps
  <1> QED BY <1>4, <1>5 DEF Kept, OneHolder, Published, SetAside, Deleting

\* The file that is removed was made for this attempt alone.
LEMMA AbortPublishKept ==
  ASSUME TypeOK, TypeOK', Kept, NEW a \in DOMAIN attempts, AbortPublish(a)
  PROVE  Kept'
  <1>1. /\ Goto(a, "fail") /\ UNCHANGED <<attempts, content, access, staged, reset, moved>>
        /\ files' = (IF step[a] = "created" THEN files \ {attempts[a].data} ELSE files)
        /\ Publishing(a)
    BY DEF AbortPublish, rows, resets, Publishing
  <1>2. a \in Ids
    BY Rows
  <1>3. \A b \in Ids : Completed(b) => attempts[b].data \in files' \cup staged
    BY <1>1, <1>2, KeptRows DEF Kept, Published
  <1>4. CompletedIsKept'
    BY <1>1, <1>3, KeptRows, KeptRowsNext DEF Kept, Made, Completed
  <1>5. /\ \A c \in Ids : ~Publishing(c)'
        /\ \A r \in Resets : ~Deleting(r)'
    BY <1>1, <1>2, Elsewhere DEF Kept, OneHolder, Publishing, Deleting, Steps
  <1> QED BY <1>4, <1>5 DEF Kept, OneHolder, Published, SetAside, Deleting

LEMMA ThreadKept ==
  ASSUME TypeOK, TypeOK', Kept, NEW a \in DOMAIN attempts, Thread(a)
  PROVE  Kept'
  <1> DEFINE still == UNCHANGED <<content, access, files, staged, reset, moved>>
             elsewhere == \E next \in Steps \ {"created", "reused"} : Goto(a, next)
             unmade == attempts' = attempts
                         \/ \E s \in Statuses \ {"completed"} : attempts' = WithStatus(a, s)
  <1>1. ASSUME still, elsewhere, unmade PROVE Kept'
    <2>1. "failed" \in Statuses \ {"completed"}
      BY DEF Statuses
    <2> QED BY <1>1, <2>1, QuietThread
  <1>2. CASE MarkRunning(a)
    <2>1. still
      BY <1>2 DEF MarkRunning, disk, resets
    <2>2. CASE attempts[a].status = "pending" /\ Reusable(a) # {}
      BY <1>2, <2>1, <2>2, ReuseKept DEF MarkRunning
    <2>3. CASE ~(attempts[a].status = "pending" /\ Reusable(a) # {})
      <3>1. elsewhere /\ unmade
        BY <1>2, <2>3 DEF MarkRunning, Steps, Statuses
      <3> QED BY <1>1, <2>1, <3>1
    <2> QED BY <2>2, <2>3
  <1>3. CASE ReadInputs(a) \/ Compute(a) \/ JudgeError(a) \/ Leave(a)
    <2>1. still /\ unmade
      BY <1>3 DEF ReadInputs, Compute, JudgeError, Leave, rows, disk, resets
    <2>2. elsewhere
      BY <1>3 DEF ReadInputs, Compute, JudgeError, Leave, Steps
    <2> QED BY <1>1, <2>1, <2>2
  <1>4. CASE RecordEnd(a, "cancel", "cancelled") \/ RecordEnd(a, "fail", "failed")
    <2>1. still
      BY <1>4 DEF RecordEnd, disk, resets
    <2>2. elsewhere /\ unmade
      BY <1>4 DEF RecordEnd, Steps, Statuses
    <2> QED BY <1>1, <2>1, <2>2
  <1> QED BY <1>2, <1>3, <1>4, BeginPublishKept, CommitPublishKept, AbortPublishKept, Zenon
          DEF Thread

\* Where a step of a reset leads.
LEMMA ResetElsewhere ==
  ASSUME TypeOK, NEW r \in Resets, NEW next \in ResetSteps, ResetTo(r, next)
  PROVE  reset'[r] = next /\ \A s \in Resets \ {r} : reset'[s] = reset[s]
  BY DEF ResetTo, TypeOK

\* A reset sets aside what no other User can have completed.
LEMMA StageKept ==
  ASSUME TypeOK, TypeOK', Kept, NEW r \in Resets, Stage(r)
  PROVE  Kept'
  <1> DEFINE found == IF All(r) THEN Exclusive(UserOf(r)) \cap files ELSE {}
  <1>1. UNCHANGED <<attempts, content, access, step>> /\ DatabaseFree
    BY DEF Stage, rows, runtime
  <1>2. \A a \in Ids : ~Publishing(a)'
    BY <1>1, Free DEF Publishing
  <1>3. CASE ResetTo(r, "leave") /\ UNCHANGED <<files, staged, moved>>
    <2>1. reset'[r] = "leave" /\ \A s \in Resets \ {r} : ~Deleting(s)'
      BY <1>1, <1>3, Free, ResetElsewhere DEF Deleting, ResetSteps
    <2>2. CompletedIsKept'
      BY <1>1, <1>3 DEF Kept, CompletedIsKept, Made
    <2> QED BY <1>2, <2>1, <2>2 DEF Kept, OneHolder, Published, SetAside, Deleting
  <1>4. CASE /\ ResetTo(r, "commit") /\ files' = files \ found /\ staged' = staged \cup found
             /\ moved' = [moved EXCEPT ![r] = found]
    <2>1. reset'[r] = "commit" /\ \A s \in Resets \ {r} : ~Deleting(s)'
      BY <1>1, <1>4, Free, ResetElsewhere DEF Deleting, ResetSteps
    <2>2. moved'[r] = found
      BY <1>4 DEF TypeOK
    <2>3. ASSUME NEW b \in Ids, Completed(b), attempts[b].data \in found
          PROVE  attempts[b].user = UserOf(r)
      <3>1. Made(b) \in access /\ attempts[b].user \in Users
        BY <2>3, Rows, KeptRows DEF Kept, Completed, Row
      <3>2. attempts[b].data \in Exclusive(UserOf(r))
        BY <2>3
      <3> QED BY <3>1, <3>2 DEF Exclusive, Made
    <2>4. CompletedIsKept'
      <3>1. \A b \in DOMAIN attempts : attempts[b].status = "completed" =>
              attempts[b].data \in files' \cup staged'
        BY <1>4 DEF Kept, CompletedIsKept
      <3> QED BY <1>1, <3>1 DEF Kept, CompletedIsKept, Made
    <2>5. SetAside'
      <3>1. \A b \in Ids : Completed(b)' <=> Completed(b)
        BY <1>1 DEF Completed
      <3>2. ~All(r) => found = {}
        OBVIOUS
      <3> HIDE DEF found
      <3> QED BY <1>1, <2>1, <2>2, <2>3, <3>1, <3>2 DEF SetAside, Deleting, All, UserOf
    <2> QED BY <1>2, <2>1, <2>4, <2>5 DEF Kept, OneHolder, Published
  <1> QED BY <1>3, <1>4, Zenon DEF Stage

\* The rows go of what was set aside; what others completed has its rows still.
LEMMA CommitResetKept ==
  ASSUME TypeOK, TypeOK', Kept, NEW r \in Resets, CommitReset(r)
  PROVE  Kept'
  <1> DEFINE u == UserOf(r)
  <1>1. /\ ResetTo(r, "finish") /\ Deleting(r) /\ reset[r] = "commit"
        /\ UNCHANGED <<files, staged, step, moved>>
    BY DEF CommitReset, disk, runtime, Deleting
  <1>2. /\ reset'[r] = "finish" /\ \A s \in Resets \ {r} : ~Deleting(s)'
        /\ \A a \in Ids : ~Publishing(a)'
    BY <1>1, ResetElsewhere DEF Kept, OneHolder, Deleting, Publishing, ResetSteps
  <1>3. /\ OneHolder' /\ Published'
    BY <1>2 DEF OneHolder, Published
  <1>4. CASE ~All(r)
    <2>1. UNCHANGED <<attempts, access, content>>
      BY <1>4 DEF CommitReset
    <2>2. moved'[r] = {}
      BY <1>1, <1>4 DEF Kept, SetAside
    <2>3. CompletedIsKept'
      BY <1>1, <2>1 DEF Kept, CompletedIsKept, Made
    <2>4. SetAside'
      BY <1>2, <2>2 DEF SetAside, Deleting
    <2> QED BY <1>3, <2>3, <2>4 DEF Kept
  <1>5. CASE All(r)
    <2>1. /\ attempts' = [a \in DOMAIN attempts |->
                 IF attempts[a].user = u THEN [attempts[a] EXCEPT !.status = "deleted"]
                 ELSE attempts[a]]
          /\ access' = {s \in access : s[1] # u}
          /\ content' = {d \in content : \E v \in Users : <<v, d>> \in access'}
      BY <1>5 DEF CommitReset
    <2>2. ASSUME NEW b \in Ids, Completed(b)'
          PROVE  /\ Completed(b) /\ attempts[b].user # u /\ attempts'[b] = attempts[b]
                 /\ attempts[b].user \in Users
      <3>1. b \in DOMAIN attempts
        BY <2>1, <2>2 DEF Completed
      <3>2. attempts[b] \in Row
        BY <3>1, Rows
      <3>3. CASE attempts[b].user = u
        BY <2>1, <2>2, <3>1, <3>2, <3>3 DEF Completed, Row
      <3>4. CASE attempts[b].user # u
        BY <2>1, <2>2, <3>1, <3>2, <3>4 DEF Completed, Row
      <3> QED BY <3>3, <3>4
    <2>3. CompletedIsKept'
      <3>1. ASSUME NEW b \in Ids, Completed(b)'
            PROVE  /\ Made(b)' \in access' /\ attempts'[b].data \in content'
                   /\ attempts'[b].data \in files' \cup staged'
        <4>1. /\ Made(b) \in access /\ attempts[b].data \in content
              /\ attempts[b].data \in files \cup staged
          BY <2>2, <3>1, KeptRows DEF Kept
        <4>2. Made(b)' = Made(b) /\ Made(b)[1] # u
          BY <2>2, <3>1 DEF Made
        <4>3. Made(b) \in access'
          BY <2>1, <4>1, <4>2
        <4>4. <<attempts[b].user, attempts[b].data>> \in access' /\ attempts[b].user \in Users
          BY <2>2, <3>1, <4>3 DEF Made
        <4>5. attempts[b].data \in content'
          BY <2>1, <4>1, <4>4
        <4> QED BY <1>1, <2>2, <3>1, <4>1, <4>2, <4>3, <4>5
      <3> QED BY <3>1, KeptRowsNext
    <2>4. SetAside'
      <3>1. ASSUME NEW b \in Ids, Completed(b)'
            PROVE  attempts'[b].data \notin moved'[r]
        BY <1>1, <2>2, <3>1 DEF Kept, SetAside
      <3> QED BY <1>2, <3>1 DEF SetAside, Deleting
    <2> QED BY <1>3, <2>3, <2>4 DEF Kept
  <1> QED BY <1>4, <1>5

\* Putting back and removing what was set aside.
LEMMA EndStagedKept ==
  ASSUME TypeOK, TypeOK', Kept, NEW r \in Resets, AbortReset(r) \/ RemoveStaged(r)
  PROVE  Kept'
  <1>1. /\ ResetTo(r, "leave") /\ Deleting(r)
        /\ UNCHANGED <<attempts, content, access, step, moved>>
    BY DEF AbortReset, RemoveStaged, rows, runtime, Deleting
  <1>2. /\ reset'[r] = "leave" /\ \A s \in Resets \ {r} : ~Deleting(s)'
        /\ \A a \in Ids : ~Publishing(a)'
    BY <1>1, ResetElsewhere DEF Kept, OneHolder, Deleting, Publishing, ResetSteps
  <1>3. \A b \in Ids : Completed(b) => attempts[b].data \in files' \cup staged'
    <2>1. CASE AbortReset(r)
      BY <2>1, KeptRows DEF AbortReset, Kept
    <2>2. CASE RemoveStaged(r)
      BY <2>2, KeptRows DEF RemoveStaged, Kept, SetAside
    <2> QED BY <2>1, <2>2
  <1>4. CompletedIsKept'
    BY <1>1, <1>3, KeptRows, KeptRowsNext DEF Kept, Made, Completed
  <1> QED BY <1>2, <1>4 DEF Kept, OneHolder, Published, SetAside, Deleting

LEMMA ResetKept ==
  ASSUME TypeOK, TypeOK', Kept, NEW r \in Resets, BeginReset(r) \/ ResetStep(r)
  PROVE  Kept'
  <1>1. CASE BeginReset(r) \/ FlagAwaited(r) \/ EndAwait(r) \/ Enter(r) \/ LeaveReset(r)
    <2>1. UNCHANGED <<attempts, content, access, files, staged, step>>
      BY <1>1 DEF BeginReset, FlagAwaited, EndAwait, Enter, LeaveReset, rows, disk, runtime
    <2>2. PICK next \in ResetSteps \ {"commit", "finish", "leave"} : ResetTo(r, next)
      BY <1>1 DEF BeginReset, FlagAwaited, EndAwait, Enter, LeaveReset, ResetSteps
    <2>3. \A s \in Resets \ {r} : moved'[s] = moved[s]
      BY <1>1 DEF BeginReset, FlagAwaited, EndAwait, Enter, LeaveReset, TypeOK
    <2>4. \A s \in Resets : Deleting(s)' => reset'[s] = reset[s] /\ moved'[s] = moved[s]
      BY <2>2, <2>3, ResetElsewhere DEF Deleting
    <2>5. \A a \in Ids : Publishing(a) => a \in DOMAIN attempts
      BY DEF Kept, Published
    <2> QED BY <2>1, <2>4, <2>5, Quiet DEF Completed, Publishing
  <1> QED BY <1>1, StageKept, CommitResetKept, EndStagedKept, Zenon DEF ResetStep

LEMMA CreateKept ==
  ASSUME TypeOK, TypeOK', Kept, NEW u \in Users, NEW d \in Datasets, Create(u, d)
  PROVE  Kept'
  <1> DEFINE row == [user |-> u, data |-> d, status |-> "pending"]
             new == Len(attempts')
  <1>1. row \in Row
    BY DEF Row, Statuses
  <1>2. /\ attempts' = Append(attempts, row) /\ Len(attempts) < MaxAttempts
        /\ step' = [step EXCEPT ![new] = "start"] /\ DatabaseFree
        /\ UNCHANGED <<content, access, files, staged, reset, moved>>
    BY DEF Create, Goto, disk, resets
  <1>3. attempts'[new] = row /\ row.status = "pending"
    BY <1>1, <1>2, Added
  <1> HIDE DEF row
  <1>4. \A b \in Ids : Completed(b)' => Completed(b) /\ attempts'[b].user = attempts[b].user
                                          /\ attempts'[b].data = attempts[b].data
    <2>1. /\ DOMAIN attempts' = 1 .. Len(attempts) + 1 /\ DOMAIN attempts = 1 .. Len(attempts)
          /\ Len(attempts) \in Nat /\ new = Len(attempts) + 1
          /\ \A b \in DOMAIN attempts : attempts'[b] = attempts[b]
      BY <1>1, <1>2, Added, Rows
    <2>2. \A b \in DOMAIN attempts' : b = new \/ b \in DOMAIN attempts
      BY <2>1
    <2> HIDE DEF new
    <2> QED BY <1>3, <2>1, <2>2 DEF Completed
  <1>5. \A b \in Ids : ~Publishing(b)'
    BY <1>2, Free DEF Publishing, TypeOK
  <1>6. \A r \in Resets : Deleting(r)' => reset'[r] = reset[r] /\ moved'[r] = moved[r]
    BY <1>2
  <1> QED BY <1>2, <1>4, <1>5, <1>6, Quiet

LEMMA CommandKept ==
  ASSUME TypeOK, TypeOK', Kept, NEW a \in DOMAIN attempts,
         Retry(a) \/ Cancel(a) \/ RaiseFlag(a)
  PROVE  Kept'
  <1>1. CASE Retry(a)
    <2>1. attempts[a].user \in Users /\ attempts[a].data \in Datasets
      BY Rows DEF Row
    <2> QED BY <1>1, <2>1, CreateKept DEF Retry
  <1>2. CASE Cancel(a) \/ RaiseFlag(a)
    <2>1. /\ UNCHANGED <<content, access, files, staged, reset, moved, step>>
          /\ attempts' = attempts \/ attempts' = WithStatus(a, "cancelled")
      BY <1>2 DEF Cancel, RaiseFlag, rows, disk, resets
    <2>2. \A b \in Ids : Completed(b)' => Completed(b) /\ attempts'[b].user = attempts[b].user
                                            /\ attempts'[b].data = attempts[b].data
      BY <2>1, Recorded DEF Completed, Statuses
    <2>3. \A b \in Ids : Publishing(b)' => step'[b] = step[b] /\ b \in DOMAIN attempts'
                                            /\ attempts'[b].data = attempts[b].data
      BY <2>1, Recorded DEF Publishing, Kept, Published, Statuses
    <2> QED BY <2>1, <2>2, <2>3, Quiet
  <1> QED BY <1>1, <1>2

\* The process ends between a file and its row: the rows still say what is there.
LEMMA RestartKept ==
  ASSUME TypeOK, TypeOK', Kept, Restart
  PROVE  Kept'
  <1>1. /\ UNCHANGED <<content, access, files, staged>>
        /\ \A a \in Ids : ~Publishing(a)'
        /\ \A r \in Resets : ~Deleting(r)'
    BY DEF Restart, disk, NoSteps, NoResets, Publishing, Deleting
  <1>2. ASSUME NEW b \in Ids, Completed(b)'
        PROVE  /\ Completed(b) /\ attempts'[b].user = attempts[b].user
               /\ attempts'[b].data = attempts[b].data
    <2>1. /\ b \in DOMAIN attempts
          /\ attempts'[b] = IF attempts[b].status \in ActiveStatuses
                            THEN [attempts[b] EXCEPT !.status = "failed"] ELSE attempts[b]
      BY <1>2 DEF Restart, Completed
    <2>2. attempts[b] \in Row
      BY <2>1, Rows
    <2>3. CASE attempts[b].status \in ActiveStatuses
      BY <1>2, <2>1, <2>2, <2>3 DEF Completed, Row
    <2>4. CASE attempts[b].status \notin ActiveStatuses
      BY <1>2, <2>1, <2>4 DEF Completed
    <2> QED BY <2>3, <2>4
  <1> QED BY <1>1, <1>2, Quiet

LEMMA NextKept == TypeOK /\ TypeOK' /\ Kept /\ [Next]_vars => Kept'
  <1> SUFFICES ASSUME TypeOK, TypeOK', Kept, [Next]_vars PROVE Kept'
    OBVIOUS
  <1>1. ASSUME NEW u \in Users, NEW d \in Datasets, Start(u, d)
        PROVE  Kept'
    BY <1>1, CreateKept DEF Start
  <1>2. ASSUME UNCHANGED <<attempts, content, access, files, staged, reset, moved, step>>
        PROVE  Kept'
    <2>1. \A a \in Ids : Publishing(a) => a \in DOMAIN attempts
      BY DEF Kept, Published
    <2> QED BY <1>2, <2>1, Quiet DEF Completed, Publishing
  <1>3. ASSUME NEW u \in Users, NEW d \in Datasets, Download(u, d)
        PROVE  Kept'
    BY <1>2, <1>3 DEF Download, disk, runtime, resets
  <1>4. CASE UNCHANGED vars
    BY <1>2, <1>4 DEF vars, rows, disk, runtime, resets
  <1> QED BY <1>1, <1>3, <1>4, CommandKept, ThreadKept, ResetKept, RestartKept, Zenon
          DEF Next

\* The invariant of the component holds of every behaviour.
THEOREM Invariance == Spec => []IInv
  <1>1. Init => IInv
    BY InitTyped, InitKept DEF IInv
  <1>2. IInv /\ [Next]_vars => IInv'
    BY NextTyped, NextKept DEF IInv
  <1> QED BY <1>1, <1>2, PTL DEF Spec

\* Whatever is generated, retried, cancelled, reset, fails or is interrupted: the
\* dataset of a completed attempt is recorded, its User may read it, and its file
\* is there or set aside by a reset (publish_dataset, reset_all_okx,
\* AttemptStore::initialize).
THEOREM CompletedDatasetsStay == Spec => []DatasetsSound
  <1>1. IInv => DatasetsSound
    BY DEF IInv, Kept, DatasetsSound
  <1> QED BY <1>1, Invariance, PTL

-------------------------------------------------------------------------------
(***************************************************************************)
(* A reset takes what is its User's.  The files of a dataset do not follow *)
(* its attempts but its readers, who outlive them (a failed transaction, a  *)
(* deleted attempt), so the invariant is told of access here.              *)
(***************************************************************************)

Inside(r) == reset[r] \in {"stage", "commit", "finish", "leave"}

\* Resets past the barrier are of different Users, and bar theirs.
OnePerUser ==
  /\ \A r \in Resets : Inside(r) => UserOf(r) \in resetting
  /\ \A r, s \in Resets : Inside(r) /\ Inside(s) /\ UserOf(r) = UserOf(s) => r = s

\* What a User may read is there, also when a file about to be recorded is taken
\* away again, what a reset set aside put back, or removed.
CreatedIsUnread ==
  \A a \in Ids : step[a] = "created" =>
    \A s \in access : s[2] = attempts[a].data => s[2] \in staged
MovedIsItsOwn ==
  \A r \in Resets :
    /\ reset[r] = "commit" => \A s \in access : s[2] \in moved[r] => s[1] = UserOf(r)
    /\ reset[r] = "finish" => \A s \in access : s[2] \notin moved[r]
ReadableIsKept ==
  (\A s \in access : s[2] \in files \cup staged) /\ CreatedIsUnread /\ MovedIsItsOwn

\* What a reset does to its barrier.
LEMMA BarrierMoves ==
  ASSUME TypeOK, NEW r \in Resets, BeginReset(r) \/ ResetStep(r)
  PROVE  /\ \A s \in Resets \ {r} : reset'[s] = reset[s]
         /\ \/ ~Inside(r) /\ ~Inside(r)' /\ resetting' = resetting
            \/ /\ ~Inside(r) /\ UserOf(r) \notin resetting
               /\ resetting' = resetting \cup {UserOf(r)}
            \/ Inside(r) /\ resetting' = resetting
            \/ Inside(r) /\ ~Inside(r)' /\ resetting' = resetting \ {UserOf(r)}
  <1>1. \A next : ResetTo(r, next) => /\ reset'[r] = next
                                      /\ \A s \in Resets \ {r} : reset'[s] = reset[s]
    BY DEF ResetTo, TypeOK
  <1>2. CASE BeginReset(r) \/ FlagAwaited(r) \/ EndAwait(r)
    BY <1>1, <1>2 DEF BeginReset, FlagAwaited, EndAwait, Inside
  <1>3. CASE Enter(r)
    BY <1>1, <1>3 DEF Enter, Inside
  <1>4. CASE Stage(r)
    <2>1. reset[r] = "stage" /\ resetting' = resetting
          /\ (ResetTo(r, "leave") \/ ResetTo(r, "commit"))
      BY <1>4 DEF Stage
    <2> QED BY <1>1, <2>1 DEF Inside
  <1>5. CASE CommitReset(r)
    <2>1. reset[r] = "commit" /\ resetting' = resetting /\ ResetTo(r, "finish")
      BY <1>5 DEF CommitReset
    <2> QED BY <1>1, <2>1 DEF Inside
  <1>6. CASE AbortReset(r) \/ RemoveStaged(r) \/ LeaveReset(r)
    BY <1>1, <1>6 DEF AbortReset, RemoveStaged, LeaveReset, Inside
  <1> QED BY <1>2, <1>3, <1>4, <1>5, <1>6, Zenon DEF ResetStep

\* The other actions but a restart touch no reset.
LEMMA BarrierStays ==
  ASSUME [Next]_vars, ~Restart, \A r \in Resets : ~(BeginReset(r) \/ ResetStep(r))
  PROVE  UNCHANGED <<blocked, resetting, reset, awaited, moved>>
  <1>1. ASSUME NEW u \in Users, NEW d \in Datasets, Start(u, d) \/ Download(u, d)
        PROVE  UNCHANGED resets
    BY <1>1 DEF Start, Create, Download
  <1>2. ASSUME NEW a \in DOMAIN attempts, Retry(a) \/ Cancel(a) \/ RaiseFlag(a) PROVE UNCHANGED resets
    BY <1>2 DEF Retry, Create, Cancel, RaiseFlag
  <1>3. ASSUME NEW a \in DOMAIN attempts, Thread(a) PROVE UNCHANGED resets
    BY <1>3 DEF Thread, MarkRunning, ReadInputs, Compute, JudgeError, RecordEnd, BeginPublish,
       CommitPublish, AbortPublish, Leave
  <1>4. UNCHANGED vars => UNCHANGED resets
    BY DEF vars
  <1>5. UNCHANGED resets
    BY <1>1, <1>2, <1>3, <1>4 DEF Next
  <1> QED BY <1>5 DEF resets

LEMMA OnePerUserStep ==
  ASSUME TypeOK, OnePerUser, [Next]_vars PROVE OnePerUser'
  <1> USE DEF OnePerUser
  <1>1. CASE Restart
    BY <1>1 DEF Restart, NoResets, Inside
  <1>2. CASE UNCHANGED <<blocked, resetting, reset, awaited, moved>>
    BY <1>2 DEF Inside, UserOf
  <1>3. ASSUME NEW r \in Resets, BeginReset(r) \/ ResetStep(r) PROVE OnePerUser'
    <2>1. \A s \in Resets \ {r} : Inside(s)' <=> Inside(s)
      BY <1>3, BarrierMoves DEF Inside
    <2>2. \A s \in Resets : UserOf(s)' = UserOf(s)
      BY DEF UserOf
    <2>3. CASE ~Inside(r) /\ ~Inside(r)' /\ resetting' = resetting
      BY <2>1, <2>2, <2>3
    <2>4. CASE /\ ~Inside(r) /\ UserOf(r) \notin resetting
               /\ resetting' = resetting \cup {UserOf(r)}
      BY <2>1, <2>2, <2>4
    <2>5. CASE Inside(r) /\ resetting' = resetting
      BY <2>1, <2>2, <2>5
    <2>6. CASE Inside(r) /\ ~Inside(r)' /\ resetting' = resetting \ {UserOf(r)}
      BY <2>1, <2>2, <2>6
    <2> QED BY <1>3, <2>3, <2>4, <2>5, <2>6, BarrierMoves
  <1> QED BY <1>1, <1>2, <1>3, BarrierStays

\* A step that takes no mutex, and changes neither readers nor files.
LEMMA QuietReaders ==
  ASSUME ReadableIsKept, UNCHANGED <<access, files, staged>>,
         \A a \in Ids : step'[a] = "created" =>
            step[a] = "created" /\ attempts'[a].data = attempts[a].data,
         \A r \in Resets : reset'[r] \in {"commit", "finish"} =>
            reset'[r] = reset[r] /\ moved'[r] = moved[r]
  PROVE  ReadableIsKept'
  BY DEF ReadableIsKept, CreatedIsUnread, MovedIsItsOwn, UserOf

LEMMA CreateReaders ==
  ASSUME IInv, ReadableIsKept, NEW u \in Users, NEW d \in Datasets, Create(u, d)
  PROVE  ReadableIsKept'
  <1>1. /\ UNCHANGED <<access, files, staged, reset, moved>> /\ DatabaseFree
        /\ step' = [step EXCEPT ![Len(attempts')] = "start"]
    BY DEF Create, Goto, disk, resets
  <1>2. \A a \in Ids : step'[a] # "created"
    BY <1>1 DEF IInv, TypeOK, DatabaseFree
  <1> QED BY <1>1, <1>2, QuietReaders

LEMMA ThreadReaders ==
  ASSUME IInv, ReadableIsKept, NEW a \in DOMAIN attempts,
         Cancel(a) \/ RaiseFlag(a) \/ Thread(a)
  PROVE  ReadableIsKept'
  <1> USE DEF IInv
  <1>0. a \in Ids /\ TypeOK
    BY Rows
  <1>1. CASE /\ UNCHANGED <<access, files, staged, reset, moved>>
             /\ attempts' = attempts \/ \E s \in Statuses : attempts' = WithStatus(a, s)
             /\ UNCHANGED step \/ \E next \in Steps \ {"created"} : Goto(a, next)
    <2>1. \A b \in Ids : step'[b] = "created" => step[b] = "created"
      BY <1>0, <1>1, Elsewhere
    <2>2. \A b \in DOMAIN attempts : attempts'[b].data = attempts[b].data
      BY <1>0, <1>1, Recorded
    <2>3. \A b \in Ids : step[b] = "created" => b \in DOMAIN attempts
      BY DEF Kept, Published, Publishing
    <2> QED BY <1>1, <2>1, <2>2, <2>3, QuietReaders
  <1>2. CASE Cancel(a) \/ RaiseFlag(a)
    <2>1. "cancelled" \in Statuses
      BY DEF Statuses
    <2> QED BY <1>1, <1>2, <2>1 DEF Cancel, RaiseFlag, rows, disk, resets
  <1>3. CASE MarkRunning(a)
    BY <1>1, <1>3 DEF MarkRunning, disk, resets, Steps, Statuses
  <1>4. CASE ReadInputs(a) \/ Compute(a) \/ JudgeError(a) \/ Leave(a)
    BY <1>1, <1>4 DEF ReadInputs, Compute, JudgeError, Leave, rows, disk, resets, Steps
  <1>5. CASE RecordEnd(a, "cancel", "cancelled") \/ RecordEnd(a, "fail", "failed")
    BY <1>1, <1>5 DEF RecordEnd, disk, resets, Steps, Statuses
  <1>6. CASE BeginPublish(a)
    <2>1. UNCHANGED <<attempts, access, staged, reset, moved>> /\ DatabaseFree
      BY <1>6 DEF BeginPublish, rows, resets
    <2>2. CASE a \in flagged
      BY <1>1, <1>6, <2>1, <2>2 DEF BeginPublish, Steps
    <2>3. CASE a \notin flagged
      <3>1. PICK next \in {"created", "reused"} :
              /\ Goto(a, next) /\ files' = files \cup {attempts[a].data}
              /\ next = "created" => attempts[a].data \notin files
        BY <1>6, <2>3 DEF BeginPublish
      <3>2. step'[a] = next /\ \A b \in Ids \ {a} : step'[b] # "created"
        BY <1>0, <2>1, <3>1, Elsewhere DEF DatabaseFree, Steps
      <3>3. CreatedIsUnread'
        <4>1. next = "created" => \A s \in access : s[2] = attempts[a].data => s[2] \in staged
          BY <3>1 DEF ReadableIsKept
        <4> QED BY <2>1, <3>2, <4>1 DEF CreatedIsUnread
      <3>4. MovedIsItsOwn'
        BY <2>1 DEF ReadableIsKept, MovedIsItsOwn, UserOf
      <3> QED BY <2>1, <3>1, <3>3, <3>4 DEF ReadableIsKept
    <2> QED BY <2>2, <2>3
  <1>7. CASE CommitPublish(a)
    <2>1. /\ Goto(a, "leave") /\ access' = access \cup {Made(a)}
          /\ UNCHANGED <<files, staged, reset, moved>> /\ Publishing(a)
      BY <1>7 DEF CommitPublish, disk, resets, Publishing
    <2>2. attempts[a].data \in files
      BY <1>0, <2>1 DEF Kept, Published
    <2>3. \A s \in access' : s[2] \in files' \cup staged'
      BY <2>1, <2>2 DEF ReadableIsKept, Made
    <2>4. \A b \in Ids : step'[b] # "created"
      BY <1>0, <2>1, Elsewhere DEF Kept, OneHolder, Publishing, Steps
    <2>5. \A r \in Resets : ~Deleting(r)'
      BY <1>0, <2>1 DEF Kept, OneHolder, Deleting
    <2> QED BY <2>3, <2>4, <2>5 DEF ReadableIsKept, CreatedIsUnread, MovedIsItsOwn, Deleting
  <1>8. CASE AbortPublish(a)
    <2>1. /\ Goto(a, "fail") /\ UNCHANGED <<attempts, access, staged, reset, moved>>
          /\ files' = (IF step[a] = "created" THEN files \ {attempts[a].data} ELSE files)
          /\ Publishing(a)
      BY <1>8 DEF AbortPublish, rows, resets, Publishing
    <2>2. \A s \in access' : s[2] \in files' \cup staged'
      BY <1>0, <2>1 DEF ReadableIsKept, CreatedIsUnread
    <2>3. \A b \in Ids : step'[b] # "created"
      BY <1>0, <2>1, Elsewhere DEF Kept, OneHolder, Publishing, Steps
    <2>4. MovedIsItsOwn'
      BY <2>1 DEF ReadableIsKept, MovedIsItsOwn, UserOf
    <2> QED BY <2>2, <2>3, <2>4 DEF ReadableIsKept, CreatedIsUnread
  <1> QED BY <1>2, <1>3, <1>4, <1>5, <1>6, <1>7, <1>8, Zenon DEF Thread

LEMMA ResetReaders ==
  ASSUME IInv, ReadableIsKept, NEW r \in Resets, BeginReset(r) \/ ResetStep(r)
  PROVE  ReadableIsKept'
  <1> USE DEF IInv
  <1>0. TypeOK
    OBVIOUS
  <1>1. CASE BeginReset(r) \/ FlagAwaited(r) \/ EndAwait(r) \/ Enter(r) \/ LeaveReset(r)
    <2>1. UNCHANGED <<attempts, access, files, staged, step>>
      BY <1>1 DEF BeginReset, FlagAwaited, EndAwait, Enter, LeaveReset, rows, disk, runtime
    <2>2. PICK next \in ResetSteps \ {"commit", "finish", "leave"} : ResetTo(r, next)
      BY <1>1 DEF BeginReset, FlagAwaited, EndAwait, Enter, LeaveReset, ResetSteps
    <2>3. \A s \in Resets \ {r} : moved'[s] = moved[s]
      BY <1>1 DEF BeginReset, FlagAwaited, EndAwait, Enter, LeaveReset, TypeOK
    <2>4. \A s \in Resets : reset'[s] \in {"commit", "finish"}
                              => reset'[s] = reset[s] /\ moved'[s] = moved[s]
      BY <1>0, <2>2, <2>3, ResetElsewhere
    <2> QED BY <2>1, <2>4, QuietReaders
  <1>2. CASE Stage(r)
    <2> DEFINE found == IF All(r) THEN Exclusive(UserOf(r)) \cap files ELSE {}
    <2>1. UNCHANGED <<attempts, access, content, step>> /\ DatabaseFree
      BY <1>2 DEF Stage, rows, runtime
    <2>2. \A b \in Ids : step'[b] # "created"
      BY <2>1 DEF DatabaseFree
    <2>3. CASE ResetTo(r, "leave") /\ UNCHANGED <<files, staged, moved>>
      <3>1. \A s \in Resets : reset'[s] \notin {"commit", "finish"}
        BY <1>0, <2>1, <2>3, ResetElsewhere DEF DatabaseFree, ResetSteps
      <3> QED BY <2>1, <2>2, <2>3, <3>1, QuietReaders
    <2>4. CASE /\ ResetTo(r, "commit") /\ files' = files \ found /\ staged' = staged \cup found
               /\ moved' = [moved EXCEPT ![r] = found]
      <3>1. reset'[r] = "commit" /\ \A s \in Resets \ {r} : reset'[s] \notin {"commit", "finish"}
        BY <1>0, <2>1, <2>4, ResetElsewhere DEF DatabaseFree, ResetSteps
      <3>2. moved'[r] = found
        BY <2>4 DEF TypeOK
      <3>3. \A s \in access : s[2] \in found => s[1] = UserOf(r)
        <4>1. \A s \in access : s[1] \in Users /\ s = <<s[1], s[2]>>
          BY DEF TypeOK
        <4> QED BY <4>1 DEF Exclusive
      <3>4. \A s \in access' : s[2] \in files' \cup staged'
        BY <2>1, <2>4 DEF ReadableIsKept
      <3> HIDE DEF found
      <3>5. MovedIsItsOwn'
        BY <2>1, <3>1, <3>2, <3>3 DEF MovedIsItsOwn, UserOf
      <3> QED BY <2>2, <3>4, <3>5 DEF ReadableIsKept, CreatedIsUnread
    <2> QED BY <1>2, <2>3, <2>4, Zenon DEF Stage
  <1>3. CASE CommitReset(r) \/ AbortReset(r) \/ RemoveStaged(r)
    <2>1. UNCHANGED <<step, moved>> /\ Deleting(r)
      BY <1>3 DEF CommitReset, AbortReset, RemoveStaged, runtime, Deleting
    <2>2. PICK next \in {"finish", "leave"} :
            ResetTo(r, next) /\ (next = "finish" => CommitReset(r))
      BY <1>3 DEF CommitReset, AbortReset, RemoveStaged
    <2>3. reset'[r] = next /\ \A s \in Resets \ {r} : reset'[s] \notin {"commit", "finish"}
      BY <1>0, <2>1, <2>2, ResetElsewhere DEF Kept, OneHolder, Deleting, ResetSteps
    <2>4. \A b \in Ids : step'[b] # "created"
      BY <2>1 DEF Kept, OneHolder, Publishing
    <2>5. \A s \in access' : s[2] \in files' \cup staged'
      <3>1. CASE CommitReset(r)
        BY <3>1 DEF CommitReset, ReadableIsKept, disk
      <3>2. CASE AbortReset(r)
        BY <3>2 DEF AbortReset, ReadableIsKept, rows
      <3>3. CASE RemoveStaged(r)
        BY <3>3 DEF RemoveStaged, ReadableIsKept, MovedIsItsOwn, rows
      <3> QED BY <1>3, <3>1, <3>2, <3>3
    <2>6. CommitReset(r) => \A s \in access' : s[2] \notin moved[r]
      <3>1. SUFFICES ASSUME CommitReset(r), NEW s \in access' PROVE s[2] \notin moved[r]
        OBVIOUS
      <3>2. reset[r] = "commit" /\ (IF All(r) THEN access' = {t \in access : t[1] # UserOf(r)}
                                             ELSE access' = access)
        BY <3>1 DEF CommitReset
      <3>3. CASE All(r)
        BY <3>1, <3>2, <3>3 DEF ReadableIsKept, MovedIsItsOwn
      <3>4. CASE ~All(r)
        BY <3>1, <3>2, <3>4 DEF Kept, SetAside
      <3> QED BY <3>3, <3>4
    <2>7. MovedIsItsOwn'
      BY <2>1, <2>2, <2>3, <2>6 DEF MovedIsItsOwn
    <2> QED BY <2>4, <2>5, <2>7 DEF ReadableIsKept, CreatedIsUnread
  <1> QED BY <1>1, <1>2, <1>3, Zenon DEF ResetStep

LEMMA ReadersStep ==
  ASSUME IInv, ReadableIsKept, [Next]_vars PROVE ReadableIsKept'
  <1>1. ASSUME NEW u \in Users, NEW d \in Datasets, Start(u, d) PROVE ReadableIsKept'
    BY <1>1, CreateReaders DEF Start
  <1>2. ASSUME NEW u \in Users, NEW d \in Datasets, Download(u, d) PROVE ReadableIsKept'
    BY <1>2, QuietReaders DEF Download, disk, runtime, resets
  <1>3. ASSUME NEW a \in DOMAIN attempts, Retry(a) PROVE ReadableIsKept'
    <2>1. attempts[a].user \in Users /\ attempts[a].data \in Datasets
      BY Rows DEF IInv, Row
    <2> QED BY <1>3, <2>1, CreateReaders DEF Retry
  <1>4. CASE Restart
    BY <1>4, QuietReaders DEF Restart, disk, NoSteps, NoResets
  <1>5. CASE UNCHANGED vars
    BY <1>5, QuietReaders DEF vars, rows, disk, runtime, resets
  <1> QED BY <1>1, <1>2, <1>3, <1>4, <1>5, ThreadReaders, ResetReaders, Zenon DEF Next

-------------------------------------------------------------------------------
(***************************************************************************)
(* What a reset deletes has stopped: it bars its User's starts first, waits *)
(* for the threads of what was active then, and a thread leaves after its  *)
(* attempt ended.                                                          *)
(***************************************************************************)

AtWork == {"read", "compute", "error", "cancel", "fail", "publish", "created", "reused"}

\* An active attempt has its thread.
Attended ==
  \A a \in DOMAIN attempts :
    /\ attempts[a].status = "pending" => step[a] = "start"
    /\ attempts[a].status = "running" => step[a] \in AtWork

ActiveOf(u) ==
  {a \in DOMAIN attempts : attempts[a].user = u /\ attempts[a].status \in ActiveStatuses}

Barring(r) == reset[r] \in {"flag", "await", "enter", "stage", "commit"}

\* A Reset All bars its User's starts until the rows are gone, waits for all that was
\* active, and finds nothing active later.
StoppedFor(r) ==
  /\ Barring(r) => UserOf(r) \in blocked
  /\ reset[r] \in {"flag", "await"} => ActiveOf(UserOf(r)) \subseteq awaited[r]
  /\ reset[r] \in {"enter", "stage", "commit"} => ActiveOf(UserOf(r)) = {}
Stopped == \A r \in Resets : All(r) => StoppedFor(r)

\* One reset of all data at a time for each User: the block of a User does not know
\* who else relies on it.
OneResetAll ==
  \A r, s \in Resets : All(r) /\ All(s) /\ UserOf(r) = UserOf(s) => r = s

LEMMA AttendedMove ==
  ASSUME TypeOK, Attended, NEW a \in DOMAIN attempts, NEW next \in Steps, Goto(a, next),
         NEW status \in Statuses, attempts' = attempts \/ attempts' = WithStatus(a, status),
         attempts'[a].status = "pending" => next = "start",
         attempts'[a].status = "running" => next \in AtWork
  PROVE  Attended'
  <1>1. a \in Ids /\ step'[a] = next /\ \A b \in Ids \ {a} : step'[b] = step[b]
    BY Elsewhere
  <1>2. /\ DOMAIN attempts' = DOMAIN attempts /\ DOMAIN attempts \subseteq Ids
        /\ \A b \in DOMAIN attempts : b # a => attempts'[b].status = attempts[b].status
    BY Recorded, Rows
  <1> QED BY <1>1, <1>2 DEF Attended

LEMMA AttendedThread ==
  ASSUME TypeOK, Attended, NEW a \in DOMAIN attempts, Thread(a) PROVE Attended'
  <1>1. /\ attempts[a].status = "pending" => step[a] = "start"
        /\ attempts[a].status = "running" => step[a] \in AtWork
        /\ \A s \in Statuses : attempts' = WithStatus(a, s) => attempts'[a].status = s
    BY Marked DEF Attended
  <1>2. CASE MarkRunning(a)
    <2>1. CASE attempts' = WithStatus(a, "completed") /\ Goto(a, "leave")
      BY <1>1, <2>1, AttendedMove DEF Steps, Statuses
    <2>2. CASE attempts' = WithStatus(a, "running") /\ Goto(a, "read")
      BY <1>1, <2>2, AttendedMove DEF Steps, Statuses, AtWork
    <2>3. CASE attempts[a].status # "pending" /\ Goto(a, "leave") /\ UNCHANGED attempts
      <3>1. step[a] \notin AtWork /\ "failed" \in Statuses /\ "leave" \in Steps
        BY <1>2 DEF MarkRunning, AtWork, Statuses, Steps
      <3> QED BY <1>1, <2>3, <3>1, AttendedMove
    <2> QED BY <1>2, <2>1, <2>2, <2>3, Zenon DEF MarkRunning
  <1>3. CASE ReadInputs(a) \/ Compute(a) \/ JudgeError(a) \/ BeginPublish(a) \/ AbortPublish(a)
    <2>1. step[a] \in AtWork /\ attempts' = attempts /\ "failed" \in Statuses
          /\ \E next \in AtWork : Goto(a, next)
      BY <1>3 DEF ReadInputs, Compute, JudgeError, BeginPublish, AbortPublish, rows, AtWork,
         Statuses
    <2>2. AtWork \subseteq Steps /\ step[a] # "start"
      BY <2>1 DEF AtWork, Steps
    <2> QED BY <1>1, <2>1, <2>2, AttendedMove
  <1>4. CASE RecordEnd(a, "cancel", "cancelled") \/ RecordEnd(a, "fail", "failed")
    <2>1. PICK s \in {"cancelled", "failed"} :
            /\ Goto(a, "leave") /\ step[a] \in AtWork
            /\ attempts' = IF attempts[a].status = "running" THEN WithStatus(a, s) ELSE attempts
      BY <1>4 DEF RecordEnd, AtWork
    <2>2. "leave" \in Steps /\ s \in Statuses /\ step[a] # "start"
      BY <2>1 DEF AtWork, Steps, Statuses
    <2>3. attempts'[a].status \notin {"pending", "running"}
      BY <1>1, <2>1, <2>2
    <2> QED BY <2>1, <2>2, <2>3, AttendedMove
  <1>5. CASE CommitPublish(a)
    BY <1>1, <1>5, AttendedMove DEF CommitPublish, Steps, Statuses
  <1>6. CASE Leave(a)
    <2>1. step[a] = "leave" /\ attempts' = attempts /\ Goto(a, "none")
      BY <1>6 DEF Leave, rows
    <2>2. attempts'[a].status \notin {"pending", "running"} /\ "none" \in Steps
          /\ "failed" \in Statuses
      BY <1>1, <2>1 DEF AtWork, Steps, Statuses
    <2> QED BY <2>1, <2>2, AttendedMove
  <1> QED BY <1>2, <1>3, <1>4, <1>5, <1>6, Zenon DEF Thread

LEMMA AttendedCreate ==
  ASSUME TypeOK, Attended, NEW u \in Users, NEW d \in Datasets, Create(u, d) PROVE Attended'
  <1> DEFINE row == [user |-> u, data |-> d, status |-> "pending"]
             new == Len(attempts')
  <1>1. row \in Row
    BY DEF Row, Statuses
  <1>2. /\ attempts' = Append(attempts, row) /\ Len(attempts) < MaxAttempts
        /\ step' = [step EXCEPT ![new] = "start"]
    BY DEF Create, Goto
  <1>3. row.status = "pending"
    OBVIOUS
  <1> HIDE DEF row
  <1>4. /\ attempts'[new] = row /\ DOMAIN attempts' = 1 .. Len(attempts) + 1
        /\ new = Len(attempts) + 1 /\ new \in Ids
        /\ \A b \in DOMAIN attempts : attempts'[b] = attempts[b]
        /\ DOMAIN attempts = 1 .. Len(attempts) /\ Len(attempts) \in Nat
        /\ DOMAIN attempts \subseteq Ids
    BY <1>1, <1>2, Added, Rows
  <1>5. \A b \in DOMAIN attempts' : b = new \/ (b \in DOMAIN attempts /\ b # new)
    BY <1>4
  <1>6. step'[new] = "start" /\ \A b \in DOMAIN attempts : step'[b] = step[b]
    BY <1>2, <1>4 DEF TypeOK
  <1> HIDE DEF new
  <1> QED BY <1>3, <1>4, <1>5, <1>6 DEF Attended

LEMMA AttendedStep ==
  ASSUME TypeOK, Attended, [Next]_vars PROVE Attended'
  <1>1. CASE UNCHANGED <<attempts, step>>
    BY <1>1 DEF Attended
  <1>2. ASSUME NEW u \in Users, NEW d \in Datasets, Start(u, d) \/ Download(u, d)
        PROVE  Attended'
    BY <1>1, <1>2, AttendedCreate DEF Start, Download, runtime
  <1>3. ASSUME NEW a \in DOMAIN attempts, Retry(a) \/ Cancel(a) \/ RaiseFlag(a)
        PROVE  Attended'
    <2>1. attempts[a].user \in Users /\ attempts[a].data \in Datasets
      BY Rows DEF Row
    <2>2. CASE Retry(a)
      BY <2>1, <2>2, AttendedCreate DEF Retry
    <2>3. CASE Cancel(a)
      <3>1. step' = step /\ (attempts' = attempts \/ attempts' = WithStatus(a, "cancelled"))
        BY <2>3 DEF Cancel
      <3>2. CASE attempts' = WithStatus(a, "cancelled")
        <4>1. "cancelled" \in Statuses
          BY DEF Statuses
        <4>2. /\ DOMAIN attempts' = DOMAIN attempts /\ attempts'[a].status = "cancelled"
              /\ \A b \in DOMAIN attempts \ {a} : attempts'[b] = attempts[b]
          BY <3>2, <4>1, Marked
        <4> QED BY <3>1, <4>2 DEF Attended
      <3> QED BY <1>1, <3>1, <3>2
    <2>4. CASE RaiseFlag(a)
      BY <1>1, <2>4 DEF RaiseFlag, rows
    <2> QED BY <1>3, <2>2, <2>3, <2>4
  <1>4. ASSUME NEW r \in Resets, BeginReset(r) \/ ResetStep(r) PROVE Attended'
    <2>1. step' = step
      BY <1>4 DEF BeginReset, ResetStep, FlagAwaited, EndAwait, Enter, Stage, CommitReset,
         AbortReset, RemoveStaged, LeaveReset, runtime
    <2>2. CASE attempts' = attempts
      BY <1>1, <2>1, <2>2
    <2>3. CASE CommitReset(r) /\ attempts' # attempts
      <3>1. attempts' = [a \in DOMAIN attempts |->
                 IF attempts[a].user = UserOf(r) THEN [attempts[a] EXCEPT !.status = "deleted"]
                 ELSE attempts[a]]
        BY <2>3 DEF CommitReset
      <3>2. \A a \in DOMAIN attempts : attempts'[a].status \in {"deleted", attempts[a].status}
        BY <3>1, Rows DEF Row
      <3> QED BY <2>1, <3>1, <3>2 DEF Attended
    <2>4. CommitReset(r) \/ attempts' = attempts
      BY <1>4 DEF BeginReset, ResetStep, FlagAwaited, EndAwait, Enter, Stage,
         AbortReset, RemoveStaged, LeaveReset, rows
    <2> QED BY <2>2, <2>3, <2>4
  <1>5. CASE Restart
    <2>1. attempts' = [a \in DOMAIN attempts |->
             IF attempts[a].status \in ActiveStatuses THEN [attempts[a] EXCEPT !.status = "failed"]
             ELSE attempts[a]]
      BY <1>5 DEF Restart
    <2>2. \A a \in DOMAIN attempts' : attempts'[a].status \notin {"pending", "running"}
      BY <2>1, Rows DEF Row, ActiveStatuses
    <2> QED BY <2>2 DEF Attended
  <1>6. UNCHANGED vars => UNCHANGED <<attempts, step>>
    BY DEF vars, rows, runtime
  <1> QED BY <1>1, <1>2, <1>3, <1>4, <1>5, <1>6, AttendedThread, Zenon DEF Next

\* Only a new attempt becomes active, of a User that no reset bars.
LEMMA ActiveMoves ==
  ASSUME TypeOK, [Next]_vars, NEW u \in blocked PROVE ActiveOf(u)' \subseteq ActiveOf(u)
  <1>1. CASE attempts' = attempts
    BY <1>1 DEF ActiveOf
  <1>2. ASSUME NEW a \in DOMAIN attempts, NEW s \in Statuses \ {"pending"},
               attempts' = WithStatus(a, s), s = "running" => attempts[a].status = "pending"
        PROVE  ActiveOf(u)' \subseteq ActiveOf(u)
    BY <1>2, Marked DEF ActiveOf, ActiveStatuses
  <1>3. ASSUME NEW v \in Users, NEW d \in Datasets, Create(v, d)
        PROVE  ActiveOf(u)' \subseteq ActiveOf(u)
    <2> DEFINE row == [user |-> v, data |-> d, status |-> "pending"]
               new == Len(attempts')
    <2>1. row \in Row /\ row.user # u
      BY <1>3 DEF Row, Statuses, Create
    <2>2. attempts' = Append(attempts, row) /\ Len(attempts) < MaxAttempts
      BY <1>3 DEF Create
    <2> HIDE DEF row
    <2>3. /\ attempts'[new] = row /\ DOMAIN attempts' = 1 .. Len(attempts) + 1
          /\ new = Len(attempts) + 1
          /\ \A b \in DOMAIN attempts : attempts'[b] = attempts[b]
          /\ DOMAIN attempts = 1 .. Len(attempts) /\ Len(attempts) \in Nat
      BY <2>1, <2>2, Added, Rows
    <2>4. \A b \in DOMAIN attempts' : b = new \/ b \in DOMAIN attempts
      BY <2>3
    <2> HIDE DEF new
    <2> QED BY <2>1, <2>3, <2>4 DEF ActiveOf
  <1>4. ASSUME NEW v \in Users, NEW d \in Datasets, Start(v, d) \/ Download(v, d)
        PROVE  ActiveOf(u)' \subseteq ActiveOf(u)
    BY <1>1, <1>3, <1>4 DEF Start, Download
  <1>5. ASSUME NEW a \in DOMAIN attempts, Retry(a) \/ Cancel(a) \/ RaiseFlag(a)
        PROVE  ActiveOf(u)' \subseteq ActiveOf(u)
    <2>1. attempts[a].user \in Users /\ attempts[a].data \in Datasets
      BY Rows DEF Row
    <2>2. CASE Retry(a)
      BY <1>3, <2>1, <2>2 DEF Retry
    <2>3. CASE Cancel(a) \/ RaiseFlag(a)
      <3>1. attempts' = attempts \/ attempts' = WithStatus(a, "cancelled")
        BY <2>3 DEF Cancel, RaiseFlag, rows
      <3> QED BY <1>1, <1>2, <3>1 DEF Statuses
    <2> QED BY <1>5, <2>2, <2>3
  <1>6. ASSUME NEW a \in DOMAIN attempts, Thread(a) PROVE ActiveOf(u)' \subseteq ActiveOf(u)
    <2>1. \/ attempts' = attempts
          \/ \E s \in Statuses \ {"pending", "running"} : attempts' = WithStatus(a, s)
          \/ attempts' = WithStatus(a, "running") /\ attempts[a].status = "pending"
      BY <1>6 DEF Thread, MarkRunning, ReadInputs, Compute, JudgeError, RecordEnd, BeginPublish,
         CommitPublish, AbortPublish, Leave, rows, Statuses
    <2>2. "running" \in Statuses \ {"pending"}
      BY DEF Statuses
    <2> QED BY <1>1, <1>2, <2>1, <2>2
  <1>7. ASSUME NEW r \in Resets, BeginReset(r) \/ ResetStep(r)
        PROVE  ActiveOf(u)' \subseteq ActiveOf(u)
    <2>1. CommitReset(r) \/ attempts' = attempts
      BY <1>7 DEF BeginReset, ResetStep, FlagAwaited, EndAwait, Enter, Stage,
         AbortReset, RemoveStaged, LeaveReset, rows
    <2>2. CASE CommitReset(r) /\ attempts' # attempts
      <3>1. attempts' = [a \in DOMAIN attempts |->
                 IF attempts[a].user = UserOf(r) THEN [attempts[a] EXCEPT !.status = "deleted"]
                 ELSE attempts[a]]
        BY <2>2 DEF CommitReset
      <3>2. \A a \in DOMAIN attempts : /\ attempts'[a].status \in {"deleted", attempts[a].status}
                                       /\ attempts'[a].user = attempts[a].user
        BY <3>1, Rows DEF Row
      <3> QED BY <3>1, <3>2 DEF ActiveOf, ActiveStatuses
    <2> QED BY <1>1, <2>1, <2>2
  <1>8. CASE Restart
    <2>1. attempts' = [a \in DOMAIN attempts |->
             IF attempts[a].status \in ActiveStatuses THEN [attempts[a] EXCEPT !.status = "failed"]
             ELSE attempts[a]]
      BY <1>8 DEF Restart
    <2>2. \A a \in DOMAIN attempts' : attempts'[a].status \notin ActiveStatuses
      BY <2>1, Rows DEF Row, ActiveStatuses
    <2> QED BY <2>2 DEF ActiveOf
  <1>9. UNCHANGED vars => attempts' = attempts
    BY DEF vars, rows
  <1> QED BY <1>1, <1>4, <1>5, <1>6, <1>7, <1>8, <1>9, Zenon DEF Next

\* A reset keeps what it stopped.
LEMMA OwnResetStops ==
  ASSUME TypeOK, Attended, NEW r \in Resets, All(r), StoppedFor(r), BeginReset(r) \/ ResetStep(r),
         UserOf(r) \in blocked => ActiveOf(UserOf(r))' \subseteq ActiveOf(UserOf(r))
  PROVE  StoppedFor(r)'
  <1> DEFINE u == UserOf(r)
  <1>1. \A next : ResetTo(r, next) => reset'[r] = next
    BY DEF ResetTo, TypeOK
  <1>2. UserOf(r)' = u
    BY DEF UserOf
  <1>3. CASE BeginReset(r)
    <2>1. /\ reset'[r] = "flag" /\ blocked' = blocked \cup {u} /\ attempts' = attempts
          /\ awaited'[r] = ActiveOf(u)
      BY <1>1, <1>3 DEF BeginReset, rows, TypeOK, ActiveOf
    <2>2. ActiveOf(u)' = ActiveOf(u)
      BY <2>1 DEF ActiveOf
    <2> QED BY <1>2, <2>1, <2>2 DEF StoppedFor, Barring, ActiveOf
  <1>4. CASE FlagAwaited(r)
    <2>1. /\ reset[r] = "flag" /\ reset'[r] = "await"
          /\ UNCHANGED <<blocked, awaited, attempts>>
      BY <1>1, <1>4 DEF FlagAwaited, rows
    <2> QED BY <1>2, <2>1 DEF StoppedFor, Barring, ActiveOf
  <1>5. CASE EndAwait(r)
    <2>1. reset[r] = "await" /\ attempts' = attempts
      BY <1>5 DEF EndAwait, rows
    <2>2. CASE awaited[r] \cap registered = {} /\ reset'[r] = "enter" /\ blocked' = blocked
      <3>1. ActiveOf(u) \subseteq registered
        <4>1. \A a \in ActiveOf(u) : a \in Ids /\ step[a] # "none"
          BY Rows DEF Attended, ActiveOf, AtWork, ActiveStatuses
        <4> QED BY <4>1 DEF TypeOK
      <3>2. ActiveOf(u) = {}
        BY <2>1, <2>2, <3>1 DEF StoppedFor
      <3>3. ActiveOf(u)' = {}
        BY <2>1, <3>2 DEF ActiveOf
      <3> QED BY <1>2, <2>1, <2>2, <3>3 DEF StoppedFor, Barring, ActiveOf
    <2>3. CASE reset'[r] = "idle"
      BY <2>3 DEF StoppedFor, Barring
    <2> QED BY <1>1, <1>5, <2>2, <2>3 DEF EndAwait
  <1>6. CASE reset'[r] \in {"idle", "leave", "finish"}
    BY <1>6 DEF StoppedFor, Barring
  <1>7. CASE /\ reset[r] \in {"enter", "stage"} /\ reset'[r] \in {"stage", "commit"}
             /\ UNCHANGED <<blocked, attempts>>
    <2>1. ActiveOf(u)' = {} /\ u \in blocked
      BY <1>7 DEF StoppedFor, Barring, ActiveOf
    <2> QED BY <1>2, <1>7, <2>1 DEF StoppedFor, Barring, ActiveOf
  <1>8. CASE Enter(r)
    BY <1>1, <1>6, <1>7, <1>8 DEF Enter, rows
  <1>9. CASE Stage(r)
    BY <1>1, <1>6, <1>7, <1>9 DEF Stage, rows
  <1>10. CASE CommitReset(r) \/ AbortReset(r) \/ RemoveStaged(r) \/ LeaveReset(r)
    <2>1. reset'[r] \in {"idle", "leave", "finish"}
      BY <1>1, <1>10 DEF CommitReset, AbortReset, RemoveStaged, LeaveReset
    <2> QED BY <1>6, <2>1
  <1> QED BY <1>3, <1>4, <1>5, <1>8, <1>9, <1>10, Zenon DEF ResetStep

\* Another reset does not lift its block.
LEMMA OtherResetSpares ==
  ASSUME TypeOK, OneResetAll, NEW r \in Resets, NEW s \in Resets, r # s, All(r), StoppedFor(r),
         BeginReset(s) \/ ResetStep(s),
         UserOf(r) \in blocked => ActiveOf(UserOf(r))' \subseteq ActiveOf(UserOf(r))
  PROVE  StoppedFor(r)'
  <1>1. reset'[r] = reset[r]
    BY BarrierMoves
  <1>2. awaited'[r] = awaited[r]
    BY DEF BeginReset, ResetStep, FlagAwaited, EndAwait, Enter, Stage, CommitReset, AbortReset,
       RemoveStaged, LeaveReset, TypeOK
  <1>3. UserOf(r) \in Unblocked(s) <=> UserOf(r) \in blocked
    BY DEF OneResetAll, Unblocked
  <1>4. blocked' \in {blocked, blocked \cup {UserOf(s)}, Unblocked(s)}
    BY DEF BeginReset, ResetStep, FlagAwaited, EndAwait, Enter, Stage, CommitReset, AbortReset,
       RemoveStaged, LeaveReset
  <1>5. UserOf(r) \in blocked => UserOf(r) \in blocked'
    BY <1>3, <1>4
  <1>6. UserOf(r)' = UserOf(r) /\ ActiveOf(UserOf(r))' = {a \in DOMAIN attempts' :
           attempts'[a].user = UserOf(r) /\ attempts'[a].status \in ActiveStatuses}
    BY DEF UserOf, ActiveOf
  <1> QED BY <1>1, <1>2, <1>5, <1>6 DEF StoppedFor, Barring, ActiveOf, UserOf

LEMMA StoppedStep ==
  ASSUME TypeOK, OneResetAll, Attended, Stopped, [Next]_vars PROVE Stopped'
  <1> SUFFICES ASSUME NEW r \in Resets, All(r) PROVE StoppedFor(r)'
    BY DEF Stopped, All
  <1>1. StoppedFor(r) /\ (UserOf(r) \in blocked => ActiveOf(UserOf(r))' \subseteq ActiveOf(UserOf(r)))
    BY ActiveMoves DEF Stopped
  <1>2. CASE Restart
    BY <1>2 DEF Restart, NoResets, StoppedFor, Barring
  <1>3. CASE UNCHANGED <<blocked, resetting, reset, awaited, moved>>
    BY <1>1, <1>3 DEF StoppedFor, Barring, UserOf, ActiveOf
  <1>4. ASSUME NEW s \in Resets, BeginReset(s) \/ ResetStep(s) PROVE StoppedFor(r)'
    BY <1>1, <1>4, OwnResetStops, OtherResetSpares
  <1> QED BY <1>2, <1>3, <1>4, BarrierStays

-------------------------------------------------------------------------------
\* What a step takes from the readers of a dataset.
LEMMA ReadersSpared ==
  ASSUME IInv, ReadableIsKept, OnePerUser, [Next]_vars,
         NEW u \in Users \ resetting, NEW d \in Datasets, <<u, d>> \in access
  PROVE  <<u, d>> \in access' /\ (d \in files \cup staged => d \in (files \cup staged)')
  <1>1. <<u, d>> \in access'
    <2>1. CASE access \subseteq access'
      BY <2>1
    <2>2. ASSUME NEW r \in Resets, CommitReset(r) PROVE <<u, d>> \in access'
      <3>1. UserOf(r) # u
        BY <2>2 DEF CommitReset, OnePerUser, Inside
      <3> QED BY <2>2, <3>1 DEF CommitReset
    <2>3. ASSUME NEW r \in Resets, BeginReset(r) \/ ResetStep(r), ~CommitReset(r)
          PROVE  access' = access
      BY <2>3 DEF BeginReset, ResetStep, FlagAwaited, EndAwait, Enter, Stage,
         AbortReset, RemoveStaged, LeaveReset, rows
    <2>4. ASSUME NEW a \in DOMAIN attempts, Thread(a) PROVE access \subseteq access'
      BY <2>4 DEF Thread, MarkRunning, ReadInputs, Compute, JudgeError, RecordEnd, BeginPublish,
         CommitPublish, AbortPublish, Leave, rows
    <2>5. ASSUME NEW a \in DOMAIN attempts, Retry(a) \/ Cancel(a) \/ RaiseFlag(a)
          PROVE  access' = access
      BY <2>5 DEF Retry, Create, Cancel, RaiseFlag, rows
    <2>6. ASSUME NEW v \in Users, NEW e \in Datasets, Start(v, e) \/ Download(v, e)
          PROVE  access' = access
      BY <2>6 DEF Start, Create, Download
    <2>7. Restart \/ UNCHANGED vars => access' = access
      BY DEF Restart, vars, rows
    <2> QED BY <2>1, <2>2, <2>3, <2>4, <2>5, <2>6, <2>7 DEF Next
  <1>2. d \in (files \cup staged)'
    BY <1>1, ReadersStep DEF ReadableIsKept
  <1> QED BY <1>1, <1>2

\* No row goes while its attempt is active.
LEMMA ActiveSpared ==
  ASSUME TypeOK, Stopped, [Next]_vars, NEW a \in DOMAIN attempts,
         attempts[a].status \in ActiveStatuses
  PROVE  attempts'[a].status # "deleted"
  <1>1. CASE attempts' = attempts
    BY <1>1 DEF ActiveStatuses
  <1>2. ASSUME NEW b \in DOMAIN attempts, NEW s \in Statuses \ {"deleted"},
               attempts' = WithStatus(b, s)
        PROVE  attempts'[a].status # "deleted"
    BY <1>2, Marked DEF ActiveStatuses
  <1>3. ASSUME NEW v \in Users, NEW d \in Datasets, Create(v, d)
        PROVE  attempts'[a] = attempts[a]
    <2> DEFINE row == [user |-> v, data |-> d, status |-> "pending"]
    <2>1. row \in Row
      BY <1>3 DEF Row, Statuses
    <2>2. attempts' = Append(attempts, row) /\ Len(attempts) < MaxAttempts
      BY <1>3 DEF Create
    <2> HIDE DEF row
    <2> QED BY <2>1, <2>2, Added
  <1>4. ASSUME NEW v \in Users, NEW d \in Datasets, Start(v, d) \/ Download(v, d)
        PROVE  attempts'[a].status # "deleted"
    BY <1>1, <1>3, <1>4 DEF Start, Download, ActiveStatuses
  <1>5. ASSUME NEW b \in DOMAIN attempts, Retry(b) \/ Cancel(b) \/ RaiseFlag(b)
        PROVE  attempts'[a].status # "deleted"
    <2>1. attempts[b].user \in Users /\ attempts[b].data \in Datasets
      BY Rows DEF Row
    <2>2. CASE Retry(b)
      BY <1>3, <2>1, <2>2 DEF Retry, ActiveStatuses
    <2>3. CASE Cancel(b) \/ RaiseFlag(b)
      <3>1. attempts' = attempts \/ attempts' = WithStatus(b, "cancelled")
        BY <2>3 DEF Cancel, RaiseFlag, rows
      <3> QED BY <1>1, <1>2, <3>1 DEF Statuses
    <2> QED BY <1>5, <2>2, <2>3
  <1>6. ASSUME NEW b \in DOMAIN attempts, Thread(b) PROVE attempts'[a].status # "deleted"
    <2>1. attempts' = attempts \/ \E s \in Statuses \ {"deleted"} : attempts' = WithStatus(b, s)
      BY <1>6 DEF Thread, MarkRunning, ReadInputs, Compute, JudgeError, RecordEnd, BeginPublish,
         CommitPublish, AbortPublish, Leave, rows, Statuses
    <2> QED BY <1>1, <1>2, <2>1
  <1>7. ASSUME NEW r \in Resets, CommitReset(r) PROVE attempts'[a].status # "deleted"
    <2>1. CASE All(r)
      <3>1. attempts[a].user # UserOf(r)
        BY <1>7, <2>1 DEF CommitReset, Stopped, StoppedFor, ActiveOf
      <3> QED BY <1>7, <2>1, <3>1 DEF CommitReset, ActiveStatuses
    <2>2. CASE ~All(r)
      BY <1>1, <1>7, <2>2 DEF CommitReset
    <2> QED BY <2>1, <2>2
  <1>8. ASSUME NEW r \in Resets, BeginReset(r) \/ ResetStep(r), ~CommitReset(r)
        PROVE  attempts' = attempts
    BY <1>8 DEF BeginReset, ResetStep, FlagAwaited, EndAwait, Enter, Stage,
       AbortReset, RemoveStaged, LeaveReset, rows
  <1>9. CASE Restart
    BY <1>9, Rows DEF Restart, ActiveStatuses, Row
  <1>10. UNCHANGED vars => attempts' = attempts
    BY DEF vars, rows
  <1> QED BY <1>1, <1>4, <1>5, <1>6, <1>7, <1>8, <1>9, <1>10, Zenon DEF Next

\* What Users read survives the resets of others, overlapping ones included: nobody
\* loses access, and no file he may read goes.
THEOREM ReadersStay == Spec => [](OnePerUser /\ ReadableIsKept)
  <1>1. Init => OnePerUser /\ ReadableIsKept
    BY DEF Init, NoResets, NoSteps, OnePerUser, Inside, ReadableIsKept, CreatedIsUnread,
       MovedIsItsOwn
  <1>2. IInv /\ OnePerUser /\ ReadableIsKept /\ [Next]_vars => (OnePerUser /\ ReadableIsKept)'
    BY OnePerUserStep, ReadersStep DEF IInv
  <1> QED BY <1>1, <1>2, Invariance, PTL DEF Spec

\* A reset takes only what is its User's and stopped (begin_user_reset,
\* wait_for_user_attempts, reset_all_okx), if a User has one reset of all data at a time.
THEOREM ResetsSpareOthers ==
  ASSUME OneResetAll PROVE Spec => ResetTakesOnlyItsOwn
  <1> DEFINE Spared ==
        /\ \A u \in Users \ resetting, d \in Datasets : <<u, d>> \in access =>
             <<u, d>> \in access' /\ (d \in files \cup staged => d \in (files \cup staged)')
        /\ \A a \in DOMAIN attempts :
             attempts[a].status \in ActiveStatuses => attempts'[a].status # "deleted"
  <1>1. Init => Attended /\ Stopped
    BY DEF Init, NoResets, Attended, Stopped, StoppedFor, Barring
  <1>2. IInv /\ Attended /\ Stopped /\ [Next]_vars => (Attended /\ Stopped)'
    BY AttendedStep, StoppedStep DEF IInv
  <1>3. Spec => [](Attended /\ Stopped)
    BY <1>1, <1>2, Invariance, PTL DEF Spec
  <1>4. IInv /\ OnePerUser /\ ReadableIsKept /\ Stopped /\ [Next]_vars => [Spared]_vars
    BY ReadersSpared, ActiveSpared DEF IInv
  <1>5. Spec => [][Spared]_vars
    BY <1>3, <1>4, ReadersStay, Invariance, PTL DEF Spec
  <1> QED BY <1>5 DEF ResetTakesOnlyItsOwn

================================================================================
