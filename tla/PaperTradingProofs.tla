--------------------------- MODULE PaperTradingProofs ---------------------------
(***************************************************************************)
(* Proofs about PaperTrading, for any set of threads, requests and budgets. *)
(*                                                                         *)
(* A save writes what a thread made of the row it loaded, however old, so  *)
(* every invariant of the row is stated of the loaded copies as well.  The *)
(* last theorems are of commands one at a time (OneThread): with two, a    *)
(* save undoes what was saved since the load, and they do not hold.        *)
(***************************************************************************)
EXTENDS PaperTrading, SumTheorems

-------------------------------------------------------------------------------
(***************************************************************************)
(* The execution gate.  Every operation on it keeps it closed while some   *)
(* outcome is unknown.                                                     *)
(***************************************************************************)

Entry(e) == e = [outcome |-> e.outcome, local |-> e.local, remote |-> e.remote]

Journal(ops) == /\ ops = [o \in DOMAIN ops |-> ops[o]]
                /\ \A o \in DOMAIN ops : Entry(ops[o])

Unknown(ops) == \E o \in DOMAIN ops : ops[o].outcome = "Uncertain"

Gate(x) == x = [policy |-> x.policy, blocked |-> x.blocked, ops |-> x.ops]

Guarded(x) == /\ Gate(x)
              /\ Journal(x.ops)
              /\ Unknown(x.ops) => x.blocked

\* A gate put together from its fields is guarded if its flag covers its journal.
LEMMA Assemble ==
  ASSUME NEW x, NEW policy, NEW blocked, NEW ops,
         x = [policy |-> policy, blocked |-> blocked, ops |-> ops],
         Journal(ops), Unknown(ops) => blocked
  PROVE  Guarded(x)
  <1>1. x.policy = policy /\ x.blocked = blocked /\ x.ops = ops
    OBVIOUS
  <1> QED BY <1>1, Zenon DEF Guarded, Gate

\* The updates of one field of the gate.
LEMMA OneField ==
  ASSUME NEW x, Gate(x), NEW policy, NEW flag, NEW ops
  PROVE  /\ [x EXCEPT !.policy = policy]
              = [policy |-> policy, blocked |-> x.blocked, ops |-> x.ops]
         /\ [x EXCEPT !.blocked = flag]
              = [policy |-> x.policy, blocked |-> flag, ops |-> x.ops]
         /\ [x EXCEPT !.ops = ops]
              = [policy |-> x.policy, blocked |-> x.blocked, ops |-> ops]
  BY DEF Gate

\* The updates that set the flag with another field.
LEMMA FieldAndFlag ==
  ASSUME NEW x, Gate(x), NEW policy, NEW flag, NEW ops
  PROVE  /\ [x EXCEPT !.policy = policy, !.blocked = flag]
              = [policy |-> policy, blocked |-> flag, ops |-> x.ops]
         /\ [x EXCEPT !.ops = ops, !.blocked = flag]
              = [policy |-> x.policy, blocked |-> flag, ops |-> ops]
  <1> DEFINE y == [x EXCEPT !.ops = ops]
  <1> DEFINE z == [x EXCEPT !.policy = policy]
  <1>1. /\ y = [policy |-> x.policy, blocked |-> x.blocked, ops |-> ops]
        /\ z = [policy |-> policy, blocked |-> x.blocked, ops |-> x.ops]
    BY OneField
  <1>2. /\ [x EXCEPT !.ops = ops, !.blocked = flag] = [y EXCEPT !.blocked = flag]
        /\ [x EXCEPT !.policy = policy, !.blocked = flag] = [z EXCEPT !.blocked = flag]
    BY Zenon
  <1> HIDE DEF y, z
  <1>3. Gate(y) /\ Gate(z)
    BY <1>1 DEF Gate
  <1>4. /\ [y EXCEPT !.blocked = flag]
             = [policy |-> y.policy, blocked |-> flag, ops |-> y.ops]
        /\ [z EXCEPT !.blocked = flag]
             = [policy |-> z.policy, blocked |-> flag, ops |-> z.ops]
    BY <1>3, OneField
  <1> QED BY <1>1, <1>2, <1>4

\* What a guarded gate says of the model's own operator.
LEMMA GuardedSays ==
  ASSUME NEW x, Guarded(x) PROVE HasUncertainty(x) => x.blocked
  BY DEF Guarded, Unknown, HasUncertainty

\* Adding an entry to the journal, or replacing one.
LEMMA PutEntry ==
  ASSUME NEW ops, NEW o, NEW e, Journal(ops), Entry(e)
  PROVE  /\ Journal(Put(ops, o, e))
         /\ o \in DOMAIN Put(ops, o, e)
         /\ e.outcome # "Uncertain" => (Unknown(Put(ops, o, e)) => Unknown(ops))
  <1> DEFINE new == Put(ops, o, e)
  <1>1. /\ new = [q \in DOMAIN ops \cup {o} |-> IF q = o THEN e ELSE ops[q]]
        /\ DOMAIN new = DOMAIN ops \cup {o}
        /\ \A q \in DOMAIN new : new[q] = IF q = o THEN e ELSE ops[q]
    BY DEF Put
  <1>2. new = [q \in DOMAIN new |-> new[q]]
    BY <1>1
  <1> HIDE DEF new
  <1>3. \A q \in DOMAIN new : Entry(new[q])
    BY <1>1 DEF Journal
  <1>4. ASSUME e.outcome # "Uncertain", Unknown(new) PROVE Unknown(ops)
    <2>1. PICK q \in DOMAIN new : new[q].outcome = "Uncertain"
      BY <1>4 DEF Unknown
    <2>2. q # o /\ q \in DOMAIN ops
      BY <1>1, <1>4, <2>1
    <2> QED BY <1>1, <2>1, <2>2 DEF Unknown
  <1>5. o \in DOMAIN new
    BY <1>1
  <1>6. Journal(new)
    BY <1>2, <1>3 DEF Journal
  <1> QED BY <1>4, <1>5, <1>6 DEF new

\* Accepting the operations of a set: no outcome becomes unknown.
LEMMA AcceptEntries ==
  ASSUME NEW ops, NEW known, NEW new, Journal(ops),
         new = [o \in DOMAIN ops |-> IF o \in known
                                       THEN [ops[o] EXCEPT !.outcome = "Accepted"]
                                       ELSE ops[o]]
  PROVE  Journal(new) /\ (Unknown(new) => Unknown(ops))
  <1>1. DOMAIN new = DOMAIN ops /\ new = [o \in DOMAIN new |-> new[o]]
    OBVIOUS
  <1>2. \A o \in DOMAIN ops :
          LET e == [ops[o] EXCEPT !.outcome = "Accepted"]
          IN  Entry(e) /\ e.outcome = "Accepted"
    BY DEF Journal, Entry
  <1>3. \A o \in DOMAIN new :
          Entry(new[o]) /\ (new[o].outcome = "Uncertain" => new[o] = ops[o])
    BY <1>1, <1>2 DEF Journal
  <1> QED BY <1>1, <1>3 DEF Journal, Unknown

\* A new execution is guarded: nothing began.
LEMMA NewGuarded ==
  ASSUME NEW policy PROVE Guarded(NewExecution(policy))
  BY DEF Guarded, Gate, Journal, Unknown, NewExecution

\* Beginning an operation adds one whose outcome is not unknown.
LEMMA BeginGuarded ==
  ASSUME NEW x, NEW l, NEW o, Guarded(x) PROVE Guarded(Begin(x, l, o))
  <1> DEFINE e == Outcome("Accepted", {LocalId(l.nextId)}, {})
  <1>1. Entry(e) /\ e.outcome # "Uncertain"
    BY DEF Entry, Outcome
  <1>2. Begin(x, l, o) = [policy |-> x.policy, blocked |-> x.blocked,
                          ops |-> Put(x.ops, o, e)]
    BY DEF Begin, Guarded, Gate
  <1> HIDE DEF e
  <1>3. Journal(x.ops) /\ (Unknown(x.ops) => x.blocked)
    BY DEF Guarded
  <1>4. Journal(Put(x.ops, o, e)) /\ (Unknown(Put(x.ops, o, e)) => x.blocked)
    BY <1>1, <1>3, PutEntry
  <1> QED BY <1>2, <1>4, Assemble

\* Marking an operation closes the gate.
LEMMA MarkGuarded ==
  ASSUME NEW x, NEW o \in DOMAIN x.ops, Guarded(x)
  PROVE  Guarded(MarkUncertain(x, o))
  <1> DEFINE e == [x.ops[o] EXCEPT !.outcome = "Uncertain"]
  <1>1. Entry(e)
    <2>1. Entry(x.ops[o])
      BY DEF Guarded, Journal
    <2>2. e = Outcome("Uncertain", x.ops[o].local, x.ops[o].remote)
      BY <2>1 DEF Entry, Outcome
    <2> HIDE DEF e
    <2> QED BY <2>2 DEF Entry, Outcome
  <1>2. [x.ops EXCEPT ![o].outcome = "Uncertain"] = Put(x.ops, o, e)
    BY DEF Put, Guarded, Journal
  <1> HIDE DEF e
  <1>3. MarkUncertain(x, o)
          = [policy |-> x.policy, blocked |-> TRUE, ops |-> Put(x.ops, o, e)]
    <2>1. MarkUncertain(x, o) = [x EXCEPT !.ops = Put(x.ops, o, e), !.blocked = TRUE]
      BY <1>2, Zenon DEF MarkUncertain
    <2> QED BY <2>1, FieldAndFlag, ZenonT(40) DEF Guarded
  <1>4. Journal(Put(x.ops, o, e))
    BY <1>1, PutEntry DEF Guarded
  <1> QED BY <1>3, <1>4, Assemble

\* A recorded outcome is never an unknown one.
LEMMA RecordGuarded ==
  ASSUME NEW x, NEW o \in DOMAIN x.ops, NEW remote, NEW outcome,
         outcome # "Uncertain", Guarded(x)
  PROVE  Guarded(RecordOutcome(x, o, remote, outcome))
  <1> DEFINE e == Outcome(outcome, x.ops[o].local, remote)
  <1> DEFINE r == [x.ops EXCEPT ![o].remote = remote]
  <1> DEFINE ops == [r EXCEPT ![o].outcome = outcome]
  <1>1. Journal(x.ops) /\ Entry(x.ops[o]) /\ (Unknown(x.ops) => x.blocked)
    BY DEF Guarded, Journal
  <1>2. /\ r = [q \in DOMAIN x.ops |-> IF q = o THEN [x.ops[o] EXCEPT !.remote = remote]
                                                ELSE x.ops[q]]
        /\ [x.ops[o] EXCEPT !.remote = remote]
             = [outcome |-> x.ops[o].outcome, local |-> x.ops[o].local, remote |-> remote]
    BY <1>1 DEF Journal, Entry
  <1>3. ops = Put(x.ops, o, e)
    <2>1. r[o] = [outcome |-> x.ops[o].outcome, local |-> x.ops[o].local, remote |-> remote]
      BY <1>2
    <2> HIDE DEF r
    <2>2. [r[o] EXCEPT !.outcome = outcome] = e
      BY <2>1 DEF Outcome
    <2> HIDE DEF e
    <2>3. ops = [r EXCEPT ![o] = e]
      BY <2>2, Zenon
    <2>4. [r EXCEPT ![o] = e] = Put(x.ops, o, e)
      BY <1>2 DEF Put
    <2> QED BY <2>3, <2>4
  <1>4. RecordOutcome(x, o, remote, outcome)
          = [policy |-> x.policy, blocked |-> x.blocked, ops |-> ops]
    <2>1. RecordOutcome(x, o, remote, outcome) = [x EXCEPT !.ops = ops]
      BY Zenon DEF RecordOutcome
    <2> HIDE DEF ops
    <2> QED BY <2>1, OneField DEF Guarded
  <1>5. Entry(e) /\ e.outcome # "Uncertain"
    BY DEF Entry, Outcome
  <1> HIDE DEF e, ops
  <1>6. Journal(Put(x.ops, o, e)) /\ (Unknown(Put(x.ops, o, e)) => x.blocked)
    BY <1>1, <1>5, PutEntry
  <1> QED BY <1>3, <1>4, <1>6, Assemble

\* Losing track of a provider order closes the gate.
LEMMA LoseTrackGuarded ==
  ASSUME NEW x, NEW p, Guarded(x) PROVE Guarded(LoseTrack(x, p))
  <1> DEFINE e == Outcome("Accepted", {}, {p})
  <1> DEFINE y == [x EXCEPT !.ops = Put(@, LostTrack(p), e)]
  <1>1. Entry(e) /\ e.outcome # "Uncertain"
    BY DEF Entry, Outcome
  <1>2. LoseTrack(x, p) = MarkUncertain(y, LostTrack(p))
    BY DEF LoseTrack
  <1> HIDE DEF e
  <1>3. y = [policy |-> x.policy, blocked |-> x.blocked,
             ops |-> Put(x.ops, LostTrack(p), e)]
    BY DEF Guarded, Gate
  <1> HIDE DEF y
  <1>4. /\ Journal(x.ops) /\ (Unknown(x.ops) => x.blocked)
        /\ y.ops = Put(x.ops, LostTrack(p), e)
    BY <1>3 DEF Guarded
  <1>5. /\ Journal(Put(x.ops, LostTrack(p), e))
        /\ Unknown(Put(x.ops, LostTrack(p), e)) => x.blocked
        /\ LostTrack(p) \in DOMAIN y.ops
    BY <1>1, <1>4, PutEntry
  <1>6. Guarded(y)
    BY <1>3, <1>5, Assemble
  <1> QED BY <1>2, <1>5, <1>6, MarkGuarded

\* Evidence that ends an uncertainty makes no outcome unknown.
LEMMA EvidenceGuarded ==
  ASSUME NEW x, NEW p, NEW known, Guarded(x)
  PROVE  Guarded(ResolveUncertainty(x, p)) /\ Guarded(ResolveAbsence(x, known))
  <1>1. Journal(x.ops) /\ (Unknown(x.ops) => x.blocked)
    BY DEF Guarded
  <1>2. Guarded(ResolveUncertainty(x, p))
    <2> DEFINE ended == {o \in DOMAIN x.ops : x.ops[o].outcome = "Uncertain"
                                              /\ x.ops[o].remote = {p}}
    <2> DEFINE ops == [o \in DOMAIN x.ops |-> IF o \in ended
                                                THEN [x.ops[o] EXCEPT !.outcome = "Accepted"]
                                                ELSE x.ops[o]]
    <2>1. ResolveUncertainty(x, p)
            = [policy |-> x.policy, blocked |-> x.blocked, ops |-> ops]
      BY DEF ResolveUncertainty, Guarded, Gate
    <2>2. Journal(ops) /\ (Unknown(ops) => Unknown(x.ops))
      <3> HIDE DEF ended
      <3> QED BY <1>1, AcceptEntries
    <2> HIDE DEF ops
    <2> QED BY <1>1, <2>1, <2>2, Assemble
  <1>3. Guarded(ResolveAbsence(x, known))
    <2> DEFINE ops == [o \in DOMAIN x.ops |-> IF o \in known
                                                THEN [x.ops[o] EXCEPT !.outcome = "Accepted"]
                                                ELSE x.ops[o]]
    <2>1. ResolveAbsence(x, known)
            = [policy |-> x.policy, blocked |-> x.blocked, ops |-> ops]
      BY DEF ResolveAbsence, Guarded, Gate
    <2>2. Journal(ops) /\ (Unknown(ops) => Unknown(x.ops))
      BY <1>1, AcceptEntries
    <2> HIDE DEF ops
    <2> QED BY <1>1, <2>1, <2>2, Assemble
  <1> QED BY <1>2, <1>3

\* Reconciliation opens the gate only if no outcome is unknown.
LEMMA SettleGuarded ==
  ASSUME NEW x, NEW matches, Guarded(x) PROVE Guarded(Settle(x, matches))
  <1>1. Settle(x, matches) = [policy |-> x.policy,
                              blocked |-> ~matches \/ HasUncertainty(x),
                              ops |-> x.ops]
    BY DEF Settle, Guarded, Gate
  <1>2. Journal(x.ops) /\ (Unknown(x.ops) => ~matches \/ HasUncertainty(x))
    BY DEF Guarded, Unknown, HasUncertainty
  <1> QED BY <1>1, <1>2, Assemble

\* Closing the gate, for recovery or for a freeze, keeps the journal.
LEMMA BlockGuarded ==
  ASSUME NEW x, Guarded(x) PROVE Guarded(Block(x)) /\ Guarded(Freeze(x))
  <1>1. Block(x) = [policy |-> x.policy, blocked |-> TRUE, ops |-> x.ops]
    BY OneField, Zenon DEF Block, Guarded
  <1>2. Freeze(x) = [policy |-> [x.policy EXCEPT !.frozen = TRUE], blocked |-> TRUE,
                     ops |-> x.ops]
    <2>1. Freeze(x) = [x EXCEPT !.policy = [x.policy EXCEPT !.frozen = TRUE], !.blocked = TRUE]
      BY Zenon DEF Freeze
    <2> QED BY <2>1, FieldAndFlag, ZenonT(40) DEF Guarded
  <1>3. Journal(x.ops)
    BY DEF Guarded
  <1> QED BY <1>1, <1>2, <1>3, Assemble

\* Recovery opens the gate only if no outcome is unknown.
LEMMA UnfreezeGuarded ==
  ASSUME NEW x, Guarded(x), ~HasUncertainty(x) PROVE Guarded(Unfreeze(x))
  <1>1. Unfreeze(x) = [policy |-> [x.policy EXCEPT !.frozen = FALSE], blocked |-> FALSE,
                       ops |-> x.ops]
    <2>1. Unfreeze(x)
            = [x EXCEPT !.policy = [x.policy EXCEPT !.frozen = FALSE], !.blocked = FALSE]
      BY Zenon DEF Unfreeze
    <2> QED BY <2>1, FieldAndFlag, ZenonT(40) DEF Guarded
  <1>2. Journal(x.ops) /\ ~Unknown(x.ops)
    BY DEF Guarded, Unknown, HasUncertainty
  <1> QED BY <1>1, <1>2, Assemble

-------------------------------------------------------------------------------
(***************************************************************************)
(* The gate stays closed in every row a thread has loaded or saved.        *)
(***************************************************************************)

Row(r) == /\ r = [ledger |-> r.ledger, exec |-> r.exec, marker |-> r.marker]
          /\ Guarded(r.exec)

GuardedRows == /\ Row(db)
               /\ copy = [t \in Threads |-> copy[t]]
               /\ \A t \in Threads : \A mine \in copy[t] : Row(mine)

\* A step that leaves the row and the copies alone, or only drops copies.
LEMMA DropCopies ==
  ASSUME GuardedRows, Row(db'), copy' = [t \in Threads |-> copy'[t]],
         \A t \in Threads : copy'[t] \subseteq copy[t]
  PROVE  GuardedRows'
  BY DEF GuardedRows

\* Saving a guarded gate, or nothing, keeps every row guarded.
LEMMA SaveGuarded ==
  ASSUME NEW t \in Threads, GuardedRows
  PROVE  /\ \A l, x, step, locals :
              Save(t, l, x, step, locals) /\ Guarded(x) => GuardedRows'
         /\ \A step, locals : Return(t, step, locals) => GuardedRows'
  <1> SUFFICES ASSUME copy' = [copy EXCEPT ![t] = {}],
                      Row(db')
               PROVE  GuardedRows'
    <2>1. \A l, x, step, locals :
            Save(t, l, x, step, locals) /\ Guarded(x)
              => Row(db') /\ copy' = [copy EXCEPT ![t] = {}]
      <3> TAKE l, x, step, locals
      <3> HAVE Save(t, l, x, step, locals) /\ Guarded(x)
      <3>1. db' = [ledger |-> l, exec |-> x, marker |-> db.marker]
        BY DEF Save, GuardedRows, Row
      <3> QED BY <3>1 DEF Row, Save, Leave
    <2>2. \A step, locals :
            Return(t, step, locals) => Row(db') /\ copy' = [copy EXCEPT ![t] = {}]
      BY DEF Return, Leave, GuardedRows
    <2> QED BY <2>1, <2>2
  <1>1. copy' = [u \in Threads |-> copy'[u]] /\ \A u \in Threads : copy'[u] \subseteq copy[u]
    BY DEF GuardedRows
  <1> QED BY <1>1, DropCopies

\* A step of the store hands on, for the save, a gate that is still guarded.
LEMMA StoreStepGuarded ==
  ASSUME NEW t \in Threads, GuardedRows,
         \/ BeginOrder(t) \/ RecordOrderResult(t) \/ RetainUncertain(t)
         \/ RecordConfirmedRejection(t) \/ CancelLocalOrder(t) \/ SyncProviderOrder(t)
         \/ LoseOrder(t) \/ FreezeAccount(t) \/ RecoverAccount(t) \/ RecordSnapshot(t)
         \/ RequireAccountReconciliation(t) \/ RecoverAbsence(t)
  PROVE  GuardedRows'
  <1> USE SaveGuarded
  <1>1. \A mine \in copy[t] : Guarded(mine.exec)
    BY DEF GuardedRows, Row
  <1>2. ASSUME BeginOrder(t) PROVE GuardedRows'
    BY <1>1, <1>2, BeginGuarded DEF BeginOrder
  <1>3. ASSUME RecordOrderResult(t) PROVE GuardedRows'
    BY <1>1, <1>3, RecordGuarded DEF RecordOrderResult
  <1>4. ASSUME RetainUncertain(t) PROVE GuardedRows'
    BY <1>1, <1>4, MarkGuarded DEF RetainUncertain
  <1>5. ASSUME RecordConfirmedRejection(t) PROVE GuardedRows'
    BY <1>1, <1>5, RecordGuarded DEF RecordConfirmedRejection, CanReject
  <1>6. ASSUME CancelLocalOrder(t) PROVE GuardedRows'
    BY <1>1, <1>6 DEF CancelLocalOrder
  <1>7. ASSUME SyncProviderOrder(t) PROVE GuardedRows'
    <2>1. ASSUME NEW mine \in copy[t], NEW id, NEW p, NEW remote,
                 MergeOrder(t, mine, id, p, remote)
          PROVE  GuardedRows'
      BY <1>1, <2>1, BlockGuarded, EvidenceGuarded DEF MergeOrder
    <2> QED BY <1>7, <2>1 DEF SyncProviderOrder
  <1>8. ASSUME LoseOrder(t) PROVE GuardedRows'
    BY <1>1, <1>8, LoseTrackGuarded DEF LoseOrder
  <1>9. ASSUME FreezeAccount(t) PROVE GuardedRows'
    BY <1>1, <1>9, BlockGuarded DEF FreezeAccount
  <1>10. ASSUME RecoverAccount(t) PROVE GuardedRows'
    BY <1>1, <1>10, UnfreezeGuarded DEF RecoverAccount, CanRecover
  <1>11. ASSUME RecordSnapshot(t) PROVE GuardedRows'
    BY <1>1, <1>11, SettleGuarded DEF RecordSnapshot
  <1>12. ASSUME RequireAccountReconciliation(t) PROVE GuardedRows'
    BY <1>1, <1>12, SettleGuarded DEF RequireAccountReconciliation
  <1>13. ASSUME RecoverAbsence(t) PROVE GuardedRows'
    BY <1>1, <1>13, EvidenceGuarded, SettleGuarded DEF RecoverAbsence
  <1> QED BY <1>2, <1>3, <1>4, <1>5, <1>6, <1>7, <1>8, <1>9, <1>10, <1>11, <1>12, <1>13

\* The steps that write the row outside a save.
LEMMA OtherStepGuarded ==
  ASSUME NEW t \in Threads, GuardedRows,
         Load(t) \/ ClaimGate(t) \/ RecordOpenOrders(t) \/ CompleteReconciliation(t)
  PROVE  GuardedRows'
  <1>1. ASSUME Load(t) PROVE GuardedRows'
    <2>1. /\ db' = db
          /\ copy' = [u \in Threads |-> IF u = t THEN {db} ELSE copy[u]]
      BY <1>1 DEF Load, GuardedRows
    <2>2. \A u \in Threads : \A mine \in copy'[u] : Row(mine)
      BY <2>1 DEF GuardedRows
    <2> QED BY <2>1, <2>2 DEF GuardedRows
  <1>2. ASSUME ClaimGate(t) PROVE GuardedRows'
    <2>1. copy' = copy /\ (db' = db \/ db' = [db EXCEPT !.marker = TRUE])
      BY <1>2 DEF ClaimGate
    <2>2. Row(db')
      <3> DEFINE true == TRUE
      <3>1. db' = db \/ db' = [db EXCEPT !.marker = true]
        BY <2>1
      <3> HIDE DEF true
      <3> QED BY <3>1 DEF GuardedRows, Row
    <2> QED BY <2>1, <2>2 DEF GuardedRows
  <1>3. ASSUME RecordOpenOrders(t) PROVE GuardedRows'
    <2>1. PICK mine \in copy[t] :
            \/ \E l, step, locals : Save(t, l, mine.exec, step, locals)
            \/ \E l : /\ db' = [db EXCEPT !.exec = Block(mine.exec), !.ledger = l]
                      /\ copy' = [copy EXCEPT ![t] = {}]
      BY <1>3, Zenon DEF RecordOpenOrders
    <2>2. Guarded(mine.exec) /\ Guarded(Block(mine.exec))
      BY BlockGuarded DEF GuardedRows, Row
    <2>3. ASSUME NEW l, db' = [db EXCEPT !.exec = Block(mine.exec), !.ledger = l],
                 copy' = [copy EXCEPT ![t] = {}]
          PROVE  GuardedRows'
      <3>1. db' = [ledger |-> l, exec |-> Block(mine.exec), marker |-> db.marker]
        BY <2>3 DEF GuardedRows, Row
      <3>2. Row(db')
        BY <2>2, <3>1 DEF Row
      <3>3. copy' = [u \in Threads |-> copy'[u]] /\ \A u \in Threads : copy'[u] \subseteq copy[u]
        BY <2>3 DEF GuardedRows
      <3> QED BY <3>2, <3>3, DropCopies
    <2> QED BY <2>1, <2>2, <2>3, SaveGuarded
  <1>4. ASSUME CompleteReconciliation(t) PROVE GuardedRows'
    <2>1. copy' = copy /\ (db' = db \/ db' = [db EXCEPT !.marker = FALSE])
      BY <1>4 DEF CompleteReconciliation
    <2>2. Row(db')
      <3> DEFINE false == FALSE
      <3>1. db' = db \/ db' = [db EXCEPT !.marker = false]
        BY <2>1
      <3> HIDE DEF false
      <3> QED BY <3>1 DEF GuardedRows, Row
    <2> QED BY <2>1, <2>2 DEF GuardedRows
  <1> QED BY <1>1, <1>2, <1>3, <1>4

\* A restart closes the gate of the saved row and drops every copy.
LEMMA RestartGuarded ==
  ASSUME GuardedRows, Restart PROVE GuardedRows'
  <1>1. /\ db' = [ledger |-> RequireReconciliation(db.ledger), exec |-> Block(db.exec),
                  marker |-> db.marker]
        /\ copy' = [t \in Threads |-> {}]
    BY DEF Restart, GuardedRows, Row
  <1>2. Guarded(Block(db.exec))
    BY BlockGuarded DEF GuardedRows, Row
  <1> QED BY <1>1, <1>2 DEF GuardedRows, Row

\* Every row, saved or loaded, keeps its gate closed over an unknown outcome: no
\* interleaving of the threads, no stale save and no restart opens it.
THEOREM RowsStayGuarded == Spec => []GuardedRows
  <1>1. Init => GuardedRows
    BY NewGuarded DEF Init, GuardedRows, Row
  <1>2. GuardedRows /\ [Next]_vars => GuardedRows'
    <2> SUFFICES ASSUME GuardedRows, [Next]_vars PROVE GuardedRows'
      OBVIOUS
    <2>1. ASSUME UNCHANGED <<db, copy>> PROVE GuardedRows'
      BY <2>1 DEF GuardedRows
    <2>2. ASSUME NEW t \in Threads, Step(t) PROVE GuardedRows'
      <3>1. CASE \/ BeginOrder(t) \/ RecordOrderResult(t) \/ RetainUncertain(t)
                 \/ RecordConfirmedRejection(t) \/ CancelLocalOrder(t)
                 \/ SyncProviderOrder(t) \/ LoseOrder(t) \/ FreezeAccount(t)
                 \/ RecoverAccount(t) \/ RecordSnapshot(t)
                 \/ RequireAccountReconciliation(t) \/ RecoverAbsence(t)
        BY <3>1, StoreStepGuarded
      <3>2. CASE \/ Load(t) \/ ClaimGate(t) \/ RecordOpenOrders(t)
                 \/ CompleteReconciliation(t)
        BY <3>2, OtherStepGuarded
      <3>3. CASE \/ SubmitOrder(t) \/ Post(t) \/ CancelOrder(t) \/ RequestCancel(t)
                 \/ SyncOrder(t) \/ FetchOrder(t) \/ FetchTrades(t) \/ RecoverHost(t)
                 \/ ReconcileAccount(t) \/ ListOpenOrders(t) \/ FetchBalance(t)
                 \/ FindVanished(t) \/ ResolveNext(t)
        BY <2>1, <3>3, Zenon
        DEF SubmitOrder, Post, CancelOrder, RequestCancel, SyncOrder, ForIdentified,
            FetchOrder, FetchTrades, RecoverHost, ReconcileAccount, ListOpenOrders,
            FetchBalance, FindVanished, ResolveNext, store
      <3>4. CASE FreezeAll(t) \/ Acknowledge(t) \/ RecoverAlert(t)
        BY <2>1, <3>4 DEF FreezeAll, Acknowledge, RecoverAlert
      <3> QED BY <2>2, <3>1, <3>2, <3>3, <3>4 DEF Step
    <2>3. CASE ProviderFill \/ ProviderFinish
      BY <2>1, <2>3 DEF ProviderFill, ProviderFinish, store
    <2>4. CASE Restart
      BY <2>4, RestartGuarded
    <2>5. CASE UNCHANGED vars
      BY <2>1, <2>5 DEF vars
    <2> QED BY <2>2, <2>3, <2>4, <2>5 DEF Next
  <1> QED BY <1>1, <1>2, PTL DEF Spec

\* While the outcome of any submission is unknown the account takes no new risk.
THEOREM UncertaintyAlwaysBlocks == Spec => []UncertaintyBlocksRisk
  <1>1. GuardedRows => UncertaintyBlocksRisk
    BY GuardedSays DEF GuardedRows, Row, UncertaintyBlocksRisk
  <1> QED BY <1>1, RowsStayGuarded, PTL

-------------------------------------------------------------------------------
(***************************************************************************)
(* Folds over a row's ledger.  The model has two: the trades of an order   *)
(* recorded one after the other, and open orders imported.  One recursion  *)
(* stands for both, c says which, so what holds of it is proved once.      *)
(***************************************************************************)

FoldStep(c, x, l) ==
  IF c.trades THEN ApplyFill(l, Trade(c.o, c.p, x, c.id)) ELSE Import(l, x)

\* f gives the ledger that folding each subset of S over l leads to.
Folding(c, l, S, f) ==
  f = [s \in SUBSET S |-> IF s = {} THEN l
                          ELSE FoldStep(c, Pick(s), f[s \ {Pick(s)}])]

LEMMA FoldingUnique ==
  ASSUME NEW S, IsFiniteSet(S), NEW c, NEW l, NEW f, NEW g,
         Folding(c, l, S, f), Folding(c, l, S, g)
  PROVE  f = g
  <1> DEFINE G == {s \in SUBSET S : f[s] = g[s]}
  <1>1. {} \in G
    BY DEF Folding
  <1>2. ASSUME NEW T \in SUBSET S, T # {}, \A x \in T : T \ {x} \in G
        PROVE  T \in G
    <2>1. Pick(T) \in T
      BY <1>2, PickIn
    <2>2. /\ f[T] = FoldStep(c, Pick(T), f[T \ {Pick(T)}])
          /\ g[T] = FoldStep(c, Pick(T), g[T \ {Pick(T)}])
      BY <1>2 DEF Folding
    <2>3. f[T \ {Pick(T)}] = g[T \ {Pick(T)}]
      BY <1>2, <2>1
    <2> QED BY <2>2, <2>3
  <1> HIDE DEF G
  <1>3. \A s \in SUBSET S : s \in G
    BY <1>1, <1>2, SubsetInduction
  <1> QED BY <1>3 DEF G, Folding

LEMMA FoldingRestrict ==
  ASSUME NEW S, NEW c, NEW l, NEW f, Folding(c, l, S, f), NEW T \in SUBSET S
  PROVE  Folding(c, l, T, [s \in SUBSET T |-> f[s]])
  <1> DEFINE g == [s \in SUBSET T |-> f[s]]
  <1>1. ASSUME NEW s \in SUBSET T
        PROVE  g[s] = IF s = {} THEN l ELSE FoldStep(c, Pick(s), g[s \ {Pick(s)}])
    BY DEF Folding
  <1> QED BY <1>1, Zenon DEF Folding

\* The recursion has a solution, as that of a sum does.
LEMMA FoldingExists ==
  ASSUME NEW S, IsFiniteSet(S), NEW c, NEW l
  PROVE  \E f : Folding(c, l, S, f)
  <1> DEFINE K == {s \in SUBSET S : \E f : Folding(c, l, s, f)}
  <1>1. {} \in K
    <2>1. Folding(c, l, {}, [s \in SUBSET {} |-> l])
      BY Zenon DEF Folding
    <2> QED BY <2>1
  <1>2. ASSUME NEW T \in SUBSET S, T # {}, \A x \in T : T \ {x} \in K
        PROVE  T \in K
    <2>1. IsFiniteSet(T)
      BY FS_Subset
    <2> DEFINE G(x) == CHOOSE f : Folding(c, l, T \ {x}, f)
    <2>2. \A x \in T : Folding(c, l, T \ {x}, G(x))
      BY <1>2
    <2> DEFINE h == [s \in (SUBSET T) \ {T} |-> G(CHOOSE x \in T \ s : TRUE)[s]]
    <2> HIDE DEF G
    <2>3. ASSUME NEW x \in T, NEW y \in T, NEW s \in SUBSET T, x \notin s, y \notin s
          PROVE  G(x)[s] = G(y)[s]
      <3>1. s \in SUBSET (T \ {x}) /\ s \in SUBSET (T \ {y}) /\ IsFiniteSet(s)
        BY <2>3, <2>1, FS_Subset
      <3> DEFINE part(z) == [u \in SUBSET s |-> G(z)[u]]
      <3>2. ASSUME NEW z \in T, z \notin s
            PROVE  Folding(c, l, s, part(z))
        <4>1. Folding(c, l, T \ {z}, G(z)) /\ s \in SUBSET (T \ {z})
          BY <2>2, <3>2
        <4> QED BY <4>1, FoldingRestrict
      <3> HIDE DEF part
      <3>3. part(x) = part(y)
        <4>1. Folding(c, l, s, part(x)) /\ Folding(c, l, s, part(y))
          BY <2>3, <3>2
        <4> QED BY <3>1, <4>1, FoldingUnique
      <3> QED BY <3>3 DEF part
    <2>4. ASSUME NEW s \in SUBSET T, NEW x \in T \ s
          PROVE  h[s] = G(x)[s]
      <3> DEFINE y == CHOOSE y \in T \ s : TRUE
      <3>1. y \in T \ s
        BY <2>4
      <3> HIDE DEF y
      <3>2. h[s] = G(y)[s]
        BY <2>4, Zenon DEF y
      <3> QED BY <2>3, <3>1, <3>2
    <2> HIDE DEF h
    <2> DEFINE g == [s \in SUBSET T |->
                       IF s # T THEN h[s] ELSE
                       IF T = {} THEN l ELSE FoldStep(c, Pick(T), h[T \ {Pick(T)}])]
    <2>5. ASSUME NEW s \in SUBSET T
          PROVE  g[s] = IF s = {} THEN l ELSE FoldStep(c, Pick(s), g[s \ {Pick(s)}])
      <3>1. CASE s = T
        <4>1. Pick(T) \in T
          BY <1>2, PickIn
        <4>2. g[T] = FoldStep(c, Pick(T), h[T \ {Pick(T)}])
          BY <1>2
        <4>3. g[T \ {Pick(T)}] = h[T \ {Pick(T)}]
          BY <4>1
        <4> HIDE DEF g
        <4> QED BY <1>2, <3>1, <4>2, <4>3
      <3>2. CASE s # T
        <4>1. PICK x \in T : x \notin s
          BY <3>2
        <4>2. /\ g[s] = G(x)[s] /\ s \in SUBSET (T \ {x})
              /\ s # {} => g[s \ {Pick(s)}] = G(x)[s \ {Pick(s)}]
          BY <4>1, <3>2, <2>4, PickIn
        <4> HIDE DEF g
        <4>3. Folding(c, l, T \ {x}, G(x))
          BY <2>2
        <4>4. G(x)[s] = IF s = {} THEN l ELSE FoldStep(c, Pick(s), G(x)[s \ {Pick(s)}])
          BY <4>2, <4>3 DEF Folding
        <4> QED BY <4>2, <4>4
      <3> QED BY <3>1, <3>2
    <2>6. Folding(c, l, T, g)
      <3>1. g = [s \in SUBSET T |-> g[s]]
        OBVIOUS
      <3> HIDE DEF g
      <3> QED BY <2>5, <3>1 DEF Folding
    <2> QED BY <2>6
  <1> HIDE DEF K
  <1>3. \A s \in SUBSET S : s \in K
    BY <1>1, <1>2, SubsetInduction
  <1> QED BY <1>3 DEF K

\* The folds of the model are such functions, applied to the whole set.
LEMMA RecordTradesIs ==
  ASSUME NEW S, IsFiniteSet(S), NEW l, NEW o, NEW p, NEW id
  PROVE  \E f : /\ Folding([trades |-> TRUE, o |-> o, p |-> p, id |-> id], l, S, f)
                /\ RecordTrades(l, o, p, id, S) = f[S]
  <1> DEFINE c == [trades |-> TRUE, o |-> o, p |-> p, id |-> id]
             Solves(f) == f = [s \in SUBSET S |-> IF s = {} THEN l
                            ELSE ApplyFill(f[s \ {Pick(s)}], Trade(o, p, Pick(s), id))]
             g == CHOOSE g : Solves(g)
  <1>1. \A x, k : FoldStep(c, x, k) = ApplyFill(k, Trade(o, p, x, id))
    BY DEF FoldStep
  <1>2. PICK f : Folding(c, l, S, f)
    BY FoldingExists
  <1>3. RecordTrades(l, o, p, id, S) = g[S]
    BY DEF RecordTrades, FoldSet, MapThenFoldSet, Pick
  <1> HIDE DEF c
  <1>4. \A h : Folding(c, l, S, h) <=> Solves(h)
    BY <1>1 DEF Folding
  <1> HIDE DEF Solves
  <1>5. Solves(g)
    BY <1>2, <1>4
  <1> QED BY <1>3, <1>4, <1>5 DEF c

LEMMA ImportIs ==
  ASSUME NEW S, NEW l, NEW x, NEW T, IsFiniteSet(T),
         T = {entry \in S : MappedTo(x, entry.id) = {}}
  PROVE  \E f : /\ Folding([trades |-> FALSE], l, T, f)
                /\ ImportUnmapped(l, x, S) = f[T]
  <1> DEFINE c == [trades |-> FALSE]
             Solves(f) == f = [s \in SUBSET T |-> IF s = {} THEN l
                                 ELSE Import(f[s \ {Pick(s)}], Pick(s))]
             g == CHOOSE g : Solves(g)
  <1>1. \A y, k : FoldStep(c, y, k) = Import(k, y)
    BY DEF FoldStep
  <1>2. PICK f : Folding(c, l, T, f)
    BY FoldingExists
  <1>3. ImportUnmapped(l, x, S) = g[T]
    BY Zenon DEF ImportUnmapped, FoldSet, MapThenFoldSet, Pick
  <1> HIDE DEF c
  <1>4. \A h : Folding(c, l, T, h) <=> Solves(h)
    BY <1>1 DEF Folding
  <1> HIDE DEF Solves
  <1>5. Solves(g)
    BY <1>2, <1>4
  <1> QED BY <1>3, <1>4, <1>5 DEF c
-------------------------------------------------------------------------------
(***************************************************************************)
(* The ledger of a row, saved or loaded.                                   *)
(***************************************************************************)

LedgerFields == {"market", "cash", "positions", "reserved", "orders", "fills", "nextId",
                 "reconciliation"}

OrderFields == {"instrument", "side", "quantity", "filled", "price", "status"}

SoundOrder(order) == DOMAIN order = OrderFields /\ order.status \in Statuses

SoundOrders(orders) == \A id \in DOMAIN orders : SoundOrder(orders[id])

IsSequence(s) == s \in Seq({s[i] : i \in DOMAIN s})

\* Cash and positions belong to the provider, the ledger only keeps its orders
\* and fills.
Sound(l) == /\ DOMAIN l = LedgerFields
            /\ l.market = "Provider" /\ l.cash \in Int
            /\ l.reconciliation \in ReconciliationStates
            /\ SoundOrders(l.orders)
            /\ IsSequence(l.fills)

Pending(l) == l.reconciliation = "Required"

\* k is what an operation makes of l that neither records a fill nor ends the wait
\* for a reconciliation.
Keeps(l, k) == /\ Sound(k) /\ k.fills = l.fills
               /\ Pending(l) => Pending(k)

LEMMA SoundIsOrdered ==
  ASSUME NEW l, Sound(l), NEW k, DOMAIN k = LedgerFields, k.market = l.market,
         k.cash = l.cash, k.fills = l.fills, SoundOrders(k.orders),
         k.reconciliation \in ReconciliationStates
  PROVE  Sound(k)
  BY DEF Sound

LEMMA AppendIs ==
  ASSUME NEW s, IsSequence(s), NEW e
  PROVE  LET k == Append(s, e)
         IN  /\ IsSequence(k) /\ Len(s) \in Nat
             /\ DOMAIN s = 1 .. Len(s) /\ DOMAIN k = 1 .. (Len(s) + 1)
             /\ k[Len(s) + 1] = e /\ \A i \in DOMAIN s : k[i] = s[i]
  <1> DEFINE S == {s[i] : i \in DOMAIN s} \cup {e}
             k == Append(s, e)
  <1>1. s \in Seq(S) /\ e \in S
    <2>1. s \in Seq({s[i] : i \in DOMAIN s})
      BY DEF IsSequence
    <2> DEFINE R == {s[i] : i \in DOMAIN s}
    <2>2. s \in Seq(R) /\ R \subseteq S
      BY <2>1
    <2> HIDE DEF R, S
    <2>3. s \in Seq(S)
      BY <2>2
    <2> QED BY <2>3 DEF S
  <1> HIDE DEF S
  <1>2. /\ Len(s) \in Nat /\ DOMAIN s = 1 .. Len(s)
        /\ k \in Seq(S) /\ DOMAIN k = 1 .. (Len(s) + 1) /\ Len(k) = Len(s) + 1
        /\ k[Len(s) + 1] = e /\ \A i \in DOMAIN s : k[i] = s[i]
    BY <1>1
  <1>3. IsSequence(k)
    <2> DEFINE R == {k[i] : i \in DOMAIN k}
    <2> HIDE DEF k
    <2>1. \A i \in 1 .. Len(k) : k[i] \in R
      BY <1>2
    <2> HIDE DEF R
    <2>2. k \in Seq(R)
      BY <1>2, <2>1
    <2> QED BY <2>2 DEF IsSequence, R
  <1> QED BY <1>2, <1>3

LEMMA PutSound ==
  ASSUME NEW orders, SoundOrders(orders), NEW id, NEW order, SoundOrder(order)
  PROVE  SoundOrders(Put(orders, id, order))
  BY DEF SoundOrders, Put

\* The updates of an order that the operations make.
LEMMA OrderUpdates ==
  ASSUME NEW order, DOMAIN order = OrderFields, NEW filled, NEW status \in Statuses
  PROVE  /\ SoundOrder([order EXCEPT !.status = status])
         /\ SoundOrder([order EXCEPT !.filled = filled, !.status = status])
  BY DEF SoundOrder, OrderFields

LEMMA RequireKeeps ==
  ASSUME NEW l, Sound(l)
  PROVE  Keeps(l, RequireReconciliation(l)) /\ Pending(RequireReconciliation(l))
  BY DEF Sound, LedgerFields, Keeps, Pending, RequireReconciliation, ReconciliationStates

LEMMA SubmitKeeps ==
  ASSUME NEW l, Sound(l), NEW order, DOMAIN order = OrderFields
  PROVE  Keeps(l, Submit(l, order))
  <1> DEFINE new == [order EXCEPT !.filled = 0, !.status = "Accepted"]
             k == Submit(l, order)
  <1>1. SoundOrder(new)
    BY OrderUpdates DEF Statuses, OpenStatuses
  <1> HIDE DEF new
  <1>2. /\ DOMAIN k = LedgerFields /\ k.market = l.market /\ k.cash = l.cash
        /\ k.fills = l.fills /\ k.reconciliation = l.reconciliation
        /\ k.orders = Put(l.orders, LocalId(l.nextId), new)
    BY DEF Submit, Sound, LedgerFields, new
  <1> HIDE DEF k
  <1>3. SoundOrders(k.orders)
    BY <1>1, <1>2, PutSound DEF Sound
  <1> QED BY <1>2, <1>3, SoundIsOrdered DEF Keeps, Pending, k, Sound

LEMMA UpsertKeeps ==
  ASSUME NEW l, Sound(l), NEW id, NEW order, SoundOrder(order)
  PROVE  Keeps(l, Upsert(l, id, order))
  <1> DEFINE k == Upsert(l, id, order)
  <1>1. /\ DOMAIN k = LedgerFields /\ k.market = l.market /\ k.cash = l.cash
        /\ k.fills = l.fills /\ k.reconciliation = l.reconciliation
        /\ k.orders = Put(l.orders, id, order)
    BY DEF Upsert, Sound, LedgerFields
  <1> HIDE DEF k
  <1>2. SoundOrders(k.orders)
    BY <1>1, PutSound DEF Sound
  <1> QED BY <1>1, <1>2, SoundIsOrdered DEF Keeps, Pending, k, Sound

LEMMA CancelKeeps ==
  ASSUME NEW l, Sound(l), NEW id
  PROVE  Keeps(l, Cancel(l, id))
  <1> DEFINE k == Cancel(l, id)
             new == [l.orders[id] EXCEPT !.status = "Cancelled"]
             orders == [l.orders EXCEPT ![id] = new]
  <1>1. id \in DOMAIN l.orders => SoundOrder(new)
    BY OrderUpdates DEF Statuses, OpenStatuses, Sound, SoundOrders, SoundOrder
  <1>2. k = [l EXCEPT !.reserved = @ - OrderReserved(l.orders[id]), !.orders = orders]
    BY Zenon DEF Cancel
  <1> HIDE DEF new
  <1>3. SoundOrders(orders)
    BY <1>1 DEF Sound, SoundOrders
  <1> HIDE DEF orders
  <1>4. /\ DOMAIN k = LedgerFields /\ k.market = l.market /\ k.cash = l.cash
        /\ k.fills = l.fills /\ k.reconciliation = l.reconciliation
        /\ k.orders = orders
    <2> HIDE DEF k
    <2> QED BY <1>2 DEF Sound, LedgerFields
  <1> HIDE DEF k
  <1> QED BY <1>3, <1>4, SoundIsOrdered DEF Keeps, Pending, k, Sound

LEMMA SweepKeeps ==
  ASSUME NEW l, Sound(l), NEW active
  PROVE  Keeps(l, CancelMissing(l, active))
  <1> DEFINE k == CancelMissing(l, active)
             stale == {id \in DOMAIN l.orders \ active : IsOpen(l.orders[id])}
             orders == [id \in DOMAIN l.orders |->
                          IF id \in stale THEN [l.orders[id] EXCEPT !.status = "Cancelled"]
                                          ELSE l.orders[id]]
             left_ == l.reserved - Reserving(l.orders, stale)
  <1>1. SoundOrders(orders)
    <2>1. \A id \in DOMAIN l.orders : SoundOrder([l.orders[id] EXCEPT !.status = "Cancelled"])
      BY OrderUpdates DEF Statuses, OpenStatuses, Sound, SoundOrders, SoundOrder
    <2> HIDE DEF stale
    <2> QED BY <2>1 DEF SoundOrders, Sound
  <1>2. k = [l EXCEPT !.reserved = left_, !.orders = orders]
    BY Zenon DEF CancelMissing
  <1> HIDE DEF orders, k, left_
  <1>3. /\ DOMAIN k = LedgerFields /\ k.market = l.market /\ k.cash = l.cash
        /\ k.fills = l.fills /\ k.reconciliation = l.reconciliation
        /\ k.orders = orders
    BY <1>2 DEF Sound, LedgerFields
  <1> QED BY <1>1, <1>3, SoundIsOrdered DEF Keeps, Pending, k, Sound

LEMMA ReconcileSound ==
  ASSUME NEW l, Sound(l), NEW snapshot, snapshot.cash \in Int
  PROVE  Sound(Reconcile(l, snapshot)) /\ Reconcile(l, snapshot).fills = l.fills
  <1> DEFINE k == Reconcile(l, snapshot)
             new == IF Matches(l, snapshot) THEN "Reconciled" ELSE "Required"
  <1>1. new \in ReconciliationStates
    BY DEF ReconciliationStates
  <1>2. k = [l EXCEPT !.cash = snapshot.cash, !.positions = snapshot.positions,
                      !.reconciliation = new]
    BY Zenon DEF Reconcile
  <1> HIDE DEF new, k
  <1>3. /\ DOMAIN k = LedgerFields /\ k.market = l.market /\ k.cash = snapshot.cash
        /\ k.fills = l.fills /\ k.reconciliation = new /\ k.orders = l.orders
    BY <1>2 DEF Sound, LedgerFields
  <1> QED BY <1>1, <1>3 DEF Sound, k

LEMMA TerminateKeeps ==
  ASSUME NEW l, Sound(l), NEW id, id \in DOMAIN l.orders, NEW status
  PROVE  Keeps(l, Terminate(l, id, status))
  <1>1. Keeps(l, l)
    BY DEF Keeps
  <1>2. Keeps(l, Cancel(l, id))
    BY CancelKeeps
  <1>3. Keeps(l, Upsert(l, id, [l.orders[id] EXCEPT !.status = "Filled"]))
    <2>1. SoundOrder([l.orders[id] EXCEPT !.status = "Filled"])
      BY OrderUpdates DEF Statuses, OpenStatuses, Sound, SoundOrders, SoundOrder
    <2> QED BY <2>1, UpsertKeeps
  <1> QED BY <1>1, <1>2, <1>3 DEF Terminate

\* A fill is appended; the account, which is the provider's, is left alone.
LEMMA FillSound ==
  ASSUME NEW l, Sound(l), NEW fill, fill.order \in DOMAIN l.orders
  PROVE  LET k == ApplyFill(l, fill)
         IN  /\ Sound(k) /\ k.fills = Append(l.fills, fill)
             /\ DOMAIN k.orders = DOMAIN l.orders
             /\ Pending(l) => Pending(k)
  <1> DEFINE k == ApplyFill(l, fill)
             order == l.orders[fill.order]
             new == FilledOrder(order, fill)
             orders == [l.orders EXCEPT ![fill.order] = new]
             positions == FilledPositions(l, order, fill)
             reserved == FilledReserved(l, order, fill)
             fills == Append(l.fills, fill)
  <1>1. SoundOrder(new)
    <2>1. DOMAIN order = OrderFields
      BY DEF Sound, SoundOrders, SoundOrder
    <2> DEFINE status == IF order.filled + fill.quantity = order.quantity
                           THEN "Filled" ELSE "PartiallyFilled"
               filled == order.filled + fill.quantity
    <2>2. status \in Statuses
      BY DEF Statuses, OpenStatuses
    <2>3. new = [order EXCEPT !.filled = filled, !.status = status]
      BY Zenon DEF FilledOrder
    <2> HIDE DEF new, status, filled, order
    <2> QED BY <2>1, <2>2, <2>3, OrderUpdates
  <1>2. FilledCash(l, order.side, fill) = l.cash
    BY DEF FilledCash, Locally, Sound
  <1> DEFINE side == order.side
             cash == FilledCash(l, side, fill)
  <1>3. k = [l EXCEPT !.cash = cash, !.positions = positions,
                      !.reserved = reserved, !.orders = orders, !.fills = fills]
    BY Zenon DEF ApplyFill
  <1>4. IsSequence(fills)
    BY AppendIs DEF Sound
  <1>5. SoundOrders(orders) /\ DOMAIN orders = DOMAIN l.orders
    <2> HIDE DEF new
    <2> QED BY <1>1 DEF Sound, SoundOrders
  <1>6. cash = l.cash
    BY <1>2
  <1> HIDE DEF k, new, orders, positions, reserved, fills, cash
  <1>7. /\ DOMAIN k = LedgerFields /\ k.market = l.market /\ k.cash = cash
        /\ k.fills = fills /\ k.reconciliation = l.reconciliation /\ k.orders = orders
    BY <1>3 DEF Sound, LedgerFields
  <1>8. Sound(k)
    BY <1>4, <1>5, <1>6, <1>7 DEF Sound
  <1> QED BY <1>5, <1>7, <1>8 DEF k, fills, Pending

\* Trades of fills are all different.
Distinct(fills) ==
  \A i, j \in DOMAIN fills : fills[i].trade = fills[j].trade => i = j

\* Every fill has the trade of an older one, or one of the trades S of order p.
ComeFrom(fills, older, o, p, S) ==
  \A i \in DOMAIN fills : \/ \E j \in DOMAIN older : fills[i].trade = older[j].trade
                          \/ \E k \in S : fills[i].trade = <<o, p, k>>

LEMMA AppendComesFrom ==
  ASSUME NEW fills, IsSequence(fills), NEW older, NEW o, NEW p, NEW S, NEW x \in S,
         ComeFrom(fills, older, o, p, S \ {x}), Distinct(fills),
         \A j \in DOMAIN older : older[j].trade # <<o, p, x>>,
         NEW fill, fill.trade = <<o, p, x>>
  PROVE  /\ ComeFrom(Append(fills, fill), older, o, p, S)
         /\ Distinct(Append(fills, fill))
  <1> DEFINE k == Append(fills, fill)
             n == Len(fills)
  <1>1. /\ n \in Nat /\ DOMAIN fills = 1 .. n /\ DOMAIN k = 1 .. (n + 1)
        /\ k[n + 1] = fill /\ \A i \in DOMAIN fills : k[i] = fills[i]
    BY AppendIs
  <1> HIDE DEF k, n
  <1>2. ComeFrom(k, older, o, p, S)
    <2> SUFFICES ASSUME NEW i \in DOMAIN k
                 PROVE  \/ \E j \in DOMAIN older : k[i].trade = older[j].trade
                        \/ \E y \in S : k[i].trade = <<o, p, y>>
      BY DEF ComeFrom
    <2>1. CASE i = n + 1
      BY <1>1, <2>1
    <2>2. CASE i \in DOMAIN fills
      BY <1>1, <2>2 DEF ComeFrom
    <2> QED BY <1>1, <2>1, <2>2
  <1>3. \A i \in DOMAIN fills : fills[i].trade # <<o, p, x>>
    <2> SUFFICES ASSUME NEW i \in DOMAIN fills, fills[i].trade = <<o, p, x>> PROVE FALSE
      OBVIOUS
    <2>1. ~ \E j \in DOMAIN older : fills[i].trade = older[j].trade
      OBVIOUS
    <2>2. PICK y \in S \ {x} : fills[i].trade = <<o, p, y>>
      BY <2>1 DEF ComeFrom
    <2> QED BY <2>2
  <1>4. Distinct(k)
    <2> SUFFICES ASSUME NEW i \in DOMAIN k, NEW j \in DOMAIN k, k[i].trade = k[j].trade
                 PROVE  i = j
      BY DEF Distinct
    <2>1. CASE i \in DOMAIN fills /\ j \in DOMAIN fills
      BY <1>1, <2>1 DEF Distinct
    <2>2. CASE i = n + 1 \/ j = n + 1
      BY <1>1, <1>3, <2>2
    <2> QED BY <1>1, <2>1, <2>2
  <1> QED BY <1>2, <1>4 DEF k

\* The trades that are recorded are retained once each, beside what was there.
LEMMA RecordTradesKeeps ==
  ASSUME NEW l, Sound(l), NEW o, NEW p, NEW id, id \in DOMAIN l.orders,
         NEW S, IsFiniteSet(S), Distinct(l.fills),
         \A x \in S : \A j \in DOMAIN l.fills : l.fills[j].trade # <<o, p, x>>
  PROVE  LET k == RecordTrades(l, o, p, id, S)
         IN  /\ Sound(k) /\ DOMAIN k.orders = DOMAIN l.orders
             /\ Pending(l) => Pending(k)
             /\ ComeFrom(k.fills, l.fills, o, p, S) /\ Distinct(k.fills)
  <1> DEFINE c == [trades |-> TRUE, o |-> o, p |-> p, id |-> id]
             Good(k, T) == /\ Sound(k) /\ DOMAIN k.orders = DOMAIN l.orders
                           /\ Pending(l) => Pending(k)
                           /\ ComeFrom(k.fills, l.fills, o, p, T) /\ Distinct(k.fills)
  <1>1. \A x, k : FoldStep(c, x, k) = ApplyFill(k, Trade(o, p, x, id))
    BY DEF FoldStep
  <1>2. PICK f : Folding(c, l, S, f) /\ RecordTrades(l, o, p, id, S) = f[S]
    BY RecordTradesIs
  <1> HIDE DEF c
  <1> DEFINE G == {T \in SUBSET S : Good(f[T], T)}
  <1>3. {} \in G
    BY <1>2 DEF Folding, ComeFrom
  <1>4. ASSUME NEW T \in SUBSET S, T # {}, \A x \in T : T \ {x} \in G
        PROVE  T \in G
    <2> DEFINE x == Pick(T)
               k == f[T \ {x}]
               fill == Trade(o, p, x, id)
    <2>1. x \in T
      BY <1>4, PickIn
    <2>2. Good(k, T \ {x})
      BY <1>4, <2>1
    <2>3. f[T] = ApplyFill(k, fill)
      BY <1>1, <1>2, <1>4 DEF Folding
    <2>4. fill.order = id /\ fill.trade = <<o, p, x>>
      BY DEF Trade
    <2> HIDE DEF x, k, fill
    <2>5. /\ Sound(f[T]) /\ f[T].fills = Append(k.fills, fill)
          /\ DOMAIN f[T].orders = DOMAIN k.orders
          /\ Pending(k) => Pending(f[T])
      BY <2>2, <2>3, <2>4, FillSound
    <2>6. ComeFrom(f[T].fills, l.fills, o, p, T) /\ Distinct(f[T].fills)
      <3>1. /\ IsSequence(k.fills) /\ ComeFrom(k.fills, l.fills, o, p, T \ {x})
            /\ Distinct(k.fills)
        BY <2>2 DEF Sound
      <3>2. x \in T /\ \A j \in DOMAIN l.fills : l.fills[j].trade # <<o, p, x>>
        BY <2>1
      <3>3. /\ ComeFrom(Append(k.fills, fill), l.fills, o, p, T)
            /\ Distinct(Append(k.fills, fill))
        BY <2>4, <3>1, <3>2, AppendComesFrom
      <3> QED BY <2>5, <3>3
    <2> QED BY <2>2, <2>5, <2>6
  <1> HIDE DEF G
  <1>5. \A T \in SUBSET S : T \in G
    BY <1>3, <1>4, SubsetInduction
  <1> QED BY <1>2, <1>5 DEF G

\* Importing open orders records no fill.
LEMMA ImportsKeep ==
  ASSUME NEW l, Sound(l), NEW x, NEW S, IsFiniteSet(S),
         \A entry \in S : DOMAIN RequestOf(entry.id) = OrderFields
  PROVE  Keeps(l, ImportUnmapped(l, x, S))
  <1> DEFINE c == [trades |-> FALSE]
             U == {entry \in S : MappedTo(x, entry.id) = {}}
  <1>1. \A y, k : FoldStep(c, y, k) = Import(k, y)
    BY DEF FoldStep
  <1>2. /\ IsFiniteSet(U) /\ \A entry \in U : entry \in S
        /\ U = {entry \in S : MappedTo(x, entry.id) = {}}
    BY FS_Subset
  <1> HIDE DEF U
  <1>3. PICK f : Folding(c, l, U, f) /\ ImportUnmapped(l, x, S) = f[U]
    BY <1>2, ImportIs
  <1> HIDE DEF c
  <1> DEFINE G == {T \in SUBSET U : Keeps(l, f[T])}
  <1>4. {} \in G
    BY <1>3 DEF Folding, Keeps
  <1>5. ASSUME NEW T \in SUBSET U, T # {}, \A y \in T : T \ {y} \in G
        PROVE  T \in G
    <2> DEFINE y == Pick(T)
               k == f[T \ {y}]
               order == RequestOf(y.id)
               status == IF y.filled > 0 THEN "PartiallyFilled" ELSE "Accepted"
               filled == y.filled
               new == [order EXCEPT !.filled = filled, !.status = status]
    <2>1. y \in T /\ y \in S
      BY <1>2, <1>5, PickIn
    <2>2. Keeps(l, k)
      BY <1>5, <2>1
    <2>3. f[T] = Import(k, y)
      BY <1>1, <1>3, <1>5 DEF Folding
    <2>4. Import(k, y) = Upsert(k, ImportedId(y.id), new)
      BY Zenon DEF Import
    <2>5. SoundOrder(new)
      <3>1. DOMAIN order = OrderFields /\ status \in Statuses
        BY <2>1 DEF Statuses, OpenStatuses
      <3> HIDE DEF order, status, filled
      <3> QED BY <3>1, OrderUpdates
    <2> HIDE DEF y, k, new
    <2>6. Keeps(k, f[T])
      BY <2>2, <2>3, <2>4, <2>5, UpsertKeeps DEF Keeps
    <2> QED BY <2>2, <2>6 DEF Keeps
  <1> HIDE DEF G
  <1>6. \A T \in SUBSET U : T \in G
    <2>1. IsFiniteSet(U)
      BY <1>2
    <2> QED BY <2>1, <1>4, <1>5, SubsetInduction
  <1>7. U \in G
    BY <1>6
  <1> QED BY <1>3, <1>7 DEF G

-------------------------------------------------------------------------------
(***************************************************************************)
(* What the operations of the execution gate do to each of its fields.     *)
(***************************************************************************)

LEMMA BeginIs ==
  ASSUME NEW x, NEW l, NEW o, Guarded(x)
  PROVE  LET y == Begin(x, l, o)
         IN  /\ y.policy = x.policy /\ y.blocked = x.blocked
             /\ DOMAIN y.ops = DOMAIN x.ops \cup {o}
             /\ y.ops[o] = Outcome("Accepted", {LocalId(l.nextId)}, {})
             /\ \A q \in DOMAIN y.ops : q # o => y.ops[q] = x.ops[q]
  <1> DEFINE e == Outcome("Accepted", {LocalId(l.nextId)}, {})
  <1>1. Begin(x, l, o) = [policy |-> x.policy, blocked |-> x.blocked,
                          ops |-> Put(x.ops, o, e)]
    BY DEF Begin, Guarded, Gate
  <1> HIDE DEF e
  <1> QED BY <1>1 DEF Put, e

LEMMA MarkIs ==
  ASSUME NEW x, NEW o \in DOMAIN x.ops, Guarded(x)
  PROVE  LET y == MarkUncertain(x, o)
         IN  /\ y.policy = x.policy /\ y.blocked = TRUE /\ DOMAIN y.ops = DOMAIN x.ops
             /\ \A q \in DOMAIN y.ops :
                  /\ y.ops[q].local = x.ops[q].local /\ y.ops[q].remote = x.ops[q].remote
                  /\ y.ops[q].outcome = IF q = o THEN "Uncertain" ELSE x.ops[q].outcome
  <1> DEFINE e == [x.ops[o] EXCEPT !.outcome = "Uncertain"]
             ops == [x.ops EXCEPT ![o] = e]
  <1>1. /\ e.local = x.ops[o].local /\ e.remote = x.ops[o].remote
        /\ e.outcome = "Uncertain"
    BY DEF Guarded, Journal, Entry
  <1> HIDE DEF e
  <1>2. /\ DOMAIN ops = DOMAIN x.ops
        /\ \A q \in DOMAIN ops : ops[q] = IF q = o THEN e ELSE x.ops[q]
    OBVIOUS
  <1>3. MarkUncertain(x, o) = [x EXCEPT !.ops = ops, !.blocked = TRUE]
    BY Zenon DEF MarkUncertain, e
  <1> HIDE DEF ops
  <1>4. MarkUncertain(x, o) = [policy |-> x.policy, blocked |-> TRUE, ops |-> ops]
    BY <1>3, FieldAndFlag, ZenonT(40) DEF Guarded
  <1> QED BY <1>1, <1>2, <1>4

LEMMA RecordIs ==
  ASSUME NEW x, NEW o \in DOMAIN x.ops, NEW remote, NEW outcome, Guarded(x)
  PROVE  LET y == RecordOutcome(x, o, remote, outcome)
         IN  /\ y.policy = x.policy /\ y.blocked = x.blocked
             /\ DOMAIN y.ops = DOMAIN x.ops
             /\ \A q \in DOMAIN y.ops :
                  /\ y.ops[q].local = x.ops[q].local
                  /\ y.ops[q].remote = IF q = o THEN remote ELSE x.ops[q].remote
                  /\ y.ops[q].outcome = IF q = o THEN outcome ELSE x.ops[q].outcome
  <1> DEFINE r == [x.ops EXCEPT ![o].remote = remote]
             ops == [r EXCEPT ![o].outcome = outcome]
             e == [x.ops[o] EXCEPT !.remote = remote]
  <1>1. e = [outcome |-> x.ops[o].outcome, local |-> x.ops[o].local, remote |-> remote]
    <2> DEFINE a == x.ops[o]
    <2>1. Entry(a)
      BY DEF Guarded, Journal
    <2> HIDE DEF a
    <2>2. [a EXCEPT !.remote = remote]
            = [outcome |-> a.outcome, local |-> a.local, remote |-> remote]
      BY <2>1 DEF Entry
    <2> QED BY <2>2 DEF a
  <1> HIDE DEF e
  <1>2. r = [x.ops EXCEPT ![o] = e]
    BY Zenon DEF e
  <1> HIDE DEF r
  <1>3. r[o] = e /\ DOMAIN r = DOMAIN x.ops /\ \A q \in DOMAIN r : q # o => r[q] = x.ops[q]
    BY <1>2
  <1> DEFINE f == [r[o] EXCEPT !.outcome = outcome]
  <1>4. f.local = x.ops[o].local /\ f.remote = remote /\ f.outcome = outcome
    BY <1>1, <1>3
  <1>5. ops = [r EXCEPT ![o] = f]
    BY Zenon
  <1> HIDE DEF f, ops
  <1>6. /\ DOMAIN ops = DOMAIN x.ops
        /\ \A q \in DOMAIN ops : ops[q] = IF q = o THEN f ELSE x.ops[q]
    BY <1>3, <1>5
  <1>7. RecordOutcome(x, o, remote, outcome)
          = [policy |-> x.policy, blocked |-> x.blocked, ops |-> ops]
    <2>1. RecordOutcome(x, o, remote, outcome) = [x EXCEPT !.ops = ops]
      BY Zenon DEF RecordOutcome, ops, r
    <2> QED BY <2>1, OneField DEF Guarded
  <1> QED BY <1>4, <1>6, <1>7

LEMMA LoseIs ==
  ASSUME NEW x, NEW p, Guarded(x)
  PROVE  LET y == LoseTrack(x, p)
         IN  /\ y.policy = x.policy /\ y.blocked = TRUE
             /\ DOMAIN y.ops = DOMAIN x.ops \cup {LostTrack(p)}
             /\ y.ops[LostTrack(p)].local = {} /\ y.ops[LostTrack(p)].remote = {p}
             /\ y.ops[LostTrack(p)].outcome = "Uncertain"
             /\ \A q \in DOMAIN y.ops \ {LostTrack(p)} :
                  /\ y.ops[q].local = x.ops[q].local /\ y.ops[q].remote = x.ops[q].remote
                  /\ y.ops[q].outcome = x.ops[q].outcome
  <1> DEFINE e == Outcome("Accepted", {}, {p})
             z == [x EXCEPT !.ops = Put(@, LostTrack(p), e)]
  <1>1. LoseTrack(x, p) = MarkUncertain(z, LostTrack(p))
    BY DEF LoseTrack
  <1>2. Entry(e) /\ e.local = {} /\ e.remote = {p} /\ e.outcome = "Accepted"
    BY DEF Entry, Outcome
  <1> HIDE DEF e
  <1>3. z = [policy |-> x.policy, blocked |-> x.blocked,
             ops |-> Put(x.ops, LostTrack(p), e)]
    BY DEF Guarded, Gate
  <1> HIDE DEF z
  <1>4. /\ z.policy = x.policy /\ z.ops = Put(x.ops, LostTrack(p), e)
        /\ DOMAIN z.ops = DOMAIN x.ops \cup {LostTrack(p)}
        /\ \A q \in DOMAIN z.ops : z.ops[q] = IF q = LostTrack(p) THEN e ELSE x.ops[q]
    BY <1>3 DEF Put
  <1>5. Guarded(z)
    BY <1>2, <1>3, PutEntry, Assemble DEF Guarded
  <1> DEFINE o == LostTrack(p)
             y == MarkUncertain(z, o)
  <1>6. o \in DOMAIN z.ops
    BY <1>4
  <1> HIDE DEF o
  <1>7. /\ y.policy = z.policy /\ y.blocked = TRUE /\ DOMAIN y.ops = DOMAIN z.ops
        /\ \A q \in DOMAIN y.ops :
             /\ y.ops[q].local = z.ops[q].local /\ y.ops[q].remote = z.ops[q].remote
             /\ y.ops[q].outcome = IF q = o THEN "Uncertain" ELSE z.ops[q].outcome
    BY <1>5, <1>6, MarkIs
  <1>8. /\ DOMAIN z.ops = DOMAIN x.ops \cup {o} /\ z.ops[o] = e
        /\ \A q \in DOMAIN z.ops : q # o => z.ops[q] = x.ops[q]
    BY <1>4 DEF o
  <1>9. y = LoseTrack(x, p)
    BY <1>1 DEF o
  <1> HIDE DEF y
  <1>10. /\ y.ops[o].local = {} /\ y.ops[o].remote = {p} /\ y.ops[o].outcome = "Uncertain"
         /\ \A q \in DOMAIN y.ops \ {o} :
              /\ y.ops[q].local = x.ops[q].local /\ y.ops[q].remote = x.ops[q].remote
              /\ y.ops[q].outcome = x.ops[q].outcome
    BY <1>2, <1>6, <1>7, <1>8
  <1> QED BY <1>4, <1>7, <1>8, <1>9, <1>10 DEF o

\* Evidence makes unknown outcomes known, of those operations it is about.
LEMMA AcceptIs ==
  ASSUME NEW x, NEW p, NEW known, Guarded(x)
  PROVE  \A y \in {ResolveUncertainty(x, p), ResolveAbsence(x, known)} :
           /\ y.policy = x.policy /\ y.blocked = x.blocked /\ DOMAIN y.ops = DOMAIN x.ops
           /\ \A q \in DOMAIN y.ops :
                /\ y.ops[q].local = x.ops[q].local /\ y.ops[q].remote = x.ops[q].remote
                /\ y.ops[q].outcome \in {x.ops[q].outcome, "Accepted"}
  <1>1. \A q \in DOMAIN x.ops :
          LET e == [x.ops[q] EXCEPT !.outcome = "Accepted"]
          IN  /\ e.local = x.ops[q].local /\ e.remote = x.ops[q].remote
              /\ e.outcome = "Accepted"
    BY DEF Guarded, Journal, Entry
  <1> DEFINE ended == {o \in DOMAIN x.ops : x.ops[o].outcome = "Uncertain"
                                            /\ x.ops[o].remote = {p}}
             ops(s) == [o \in DOMAIN x.ops |-> IF o \in s
                                                 THEN [x.ops[o] EXCEPT !.outcome = "Accepted"]
                                                 ELSE x.ops[o]]
  <1>2. ResolveUncertainty(x, p) = [policy |-> x.policy, blocked |-> x.blocked,
                                    ops |-> ops(ended)]
    BY DEF ResolveUncertainty, Guarded, Gate
  <1>3. ResolveAbsence(x, known) = [policy |-> x.policy, blocked |-> x.blocked,
                                    ops |-> ops(known)]
    BY DEF ResolveAbsence, Guarded, Gate
  <1>4. \A s : /\ DOMAIN ops(s) = DOMAIN x.ops
               /\ \A q \in DOMAIN ops(s) :
                    /\ ops(s)[q].local = x.ops[q].local
                    /\ ops(s)[q].remote = x.ops[q].remote
                    /\ ops(s)[q].outcome \in {x.ops[q].outcome, "Accepted"}
    BY <1>1
  <1> HIDE DEF ops, ended
  <1> QED BY <1>2, <1>3, <1>4

LEMMA FlagsAre ==
  ASSUME NEW x, NEW matches, Guarded(x)
  PROVE  /\ Settle(x, matches) = [policy |-> x.policy, ops |-> x.ops,
                                  blocked |-> ~matches \/ HasUncertainty(x)]
         /\ Block(x) = [policy |-> x.policy, blocked |-> TRUE, ops |-> x.ops]
         /\ Freeze(x) = [policy |-> [x.policy EXCEPT !.frozen = TRUE], blocked |-> TRUE,
                         ops |-> x.ops]
         /\ Unfreeze(x) = [policy |-> [x.policy EXCEPT !.frozen = FALSE],
                           blocked |-> FALSE, ops |-> x.ops]
  <1>1. Settle(x, matches) = [policy |-> x.policy, ops |-> x.ops,
                              blocked |-> ~matches \/ HasUncertainty(x)]
    BY DEF Settle, Guarded, Gate
  <1>2. Block(x) = [policy |-> x.policy, blocked |-> TRUE, ops |-> x.ops]
    BY OneField, Zenon DEF Block, Guarded
  <1>3. /\ Freeze(x) = [x EXCEPT !.policy = [x.policy EXCEPT !.frozen = TRUE],
                                 !.blocked = TRUE]
        /\ Unfreeze(x) = [x EXCEPT !.policy = [x.policy EXCEPT !.frozen = FALSE],
                                   !.blocked = FALSE]
    BY Zenon DEF Freeze, Unfreeze
  <1>4. Freeze(x) = [policy |-> [x.policy EXCEPT !.frozen = TRUE], blocked |-> TRUE,
                     ops |-> x.ops]
    BY <1>3, FieldAndFlag, ZenonT(40) DEF Guarded
  <1>5. Unfreeze(x) = [policy |-> [x.policy EXCEPT !.frozen = FALSE], blocked |-> FALSE,
                       ops |-> x.ops]
    BY <1>3, FieldAndFlag, ZenonT(40) DEF Guarded
  <1> QED BY <1>1, <1>2, <1>4, <1>5

-------------------------------------------------------------------------------
(***************************************************************************)
(* The execution gate beside the provider's orders P: an operation is the  *)
(* request of a caller, and the identity it retains is that of an order    *)
(* which it created; or it retains that an order was lost track of, and    *)
(* stands for no local order.                                              *)
(***************************************************************************)

Created(P, o, p) == p \in DOMAIN P /\ Operation(P[p].op) = o

\* The identity, if there is one, is that of an order operation o created.
Identifies(P, o, remote) == \A p, q \in remote : Created(P, o, p) /\ p = q

SoundEntry(P, o, e) ==
  /\ e.outcome \in Outcomes
  /\ \/ (\E n \in Operations : o = Operation(n)) /\ Identifies(P, o, e.remote)
     \/ o[1] # "operation" /\ e.local = {}

SoundJournal(P, ops) == \A o \in DOMAIN ops : SoundEntry(P, o, ops[o])

SoundPolicy(policy) == "frozen" \in DOMAIN policy /\ policy.frozen \in BOOLEAN

SoundGate(P, x) == /\ Guarded(x) /\ x.blocked \in BOOLEAN
                   /\ SoundPolicy(x.policy) /\ SoundJournal(P, x.ops)

LEMMA SameEntry ==
  ASSUME NEW P, NEW o, NEW e, NEW f, SoundEntry(P, o, e), f.local = e.local,
         f.remote = e.remote, f.outcome \in Outcomes
  PROVE  SoundEntry(P, o, f)
  BY DEF SoundEntry

LEMMA BeginSound ==
  ASSUME NEW P, NEW x, SoundGate(P, x), NEW l, NEW n \in Operations
  PROVE  SoundGate(P, Begin(x, l, Operation(n)))
  <1> DEFINE o == Operation(n)
             y == Begin(x, l, o)
             e == Outcome("Accepted", {LocalId(l.nextId)}, {})
  <1>1. SoundEntry(P, o, e)
    BY DEF SoundEntry, Identifies, Outcome, Outcomes
  <1>3. Guarded(x) /\ Guarded(y)
    BY BeginGuarded DEF SoundGate
  <1> HIDE DEF o
  <1>2. /\ y.policy = x.policy /\ y.blocked = x.blocked
        /\ DOMAIN y.ops = DOMAIN x.ops \cup {o}
        /\ y.ops[o] = e /\ \A q \in DOMAIN y.ops : q # o => y.ops[q] = x.ops[q]
    BY <1>3, BeginIs, SMTT(40)
  <1> HIDE DEF y, e
  <1>4. SoundJournal(P, y.ops)
    BY <1>1, <1>2 DEF SoundJournal, SoundGate
  <1> QED BY <1>2, <1>3, <1>4 DEF SoundGate, y, o

LEMMA MarkSound ==
  ASSUME NEW P, NEW x, SoundGate(P, x), NEW o \in DOMAIN x.ops
  PROVE  SoundGate(P, MarkUncertain(x, o))
  <1> DEFINE y == MarkUncertain(x, o)
  <1>1. /\ y.policy = x.policy /\ y.blocked = TRUE /\ DOMAIN y.ops = DOMAIN x.ops
        /\ \A q \in DOMAIN y.ops :
             /\ y.ops[q].local = x.ops[q].local /\ y.ops[q].remote = x.ops[q].remote
             /\ y.ops[q].outcome = IF q = o THEN "Uncertain" ELSE x.ops[q].outcome
    BY MarkIs DEF SoundGate
  <1>2. Guarded(y)
    BY MarkGuarded DEF SoundGate
  <1> HIDE DEF y
  <1>3. SoundJournal(P, y.ops)
    <2> SUFFICES ASSUME NEW q \in DOMAIN y.ops PROVE SoundEntry(P, q, y.ops[q])
      BY DEF SoundJournal
    <2>1. SoundEntry(P, q, x.ops[q])
      BY <1>1 DEF SoundGate, SoundJournal
    <2>2. y.ops[q].outcome \in Outcomes
      BY <1>1, <2>1 DEF SoundEntry, Outcomes
    <2> QED BY <1>1, <2>1, <2>2, SameEntry
  <1> QED BY <1>1, <1>2, <1>3 DEF SoundGate, y

LEMMA RecordSound ==
  ASSUME NEW P, NEW x, SoundGate(P, x), NEW n \in Operations,
         Operation(n) \in DOMAIN x.ops, NEW remote, NEW outcome \in {"Accepted", "Rejected"},
         Identifies(P, Operation(n), remote)
  PROVE  SoundGate(P, RecordOutcome(x, Operation(n), remote, outcome))
  <1> DEFINE o == Operation(n)
             y == RecordOutcome(x, o, remote, outcome)
  <1>1. /\ y.policy = x.policy /\ y.blocked = x.blocked /\ DOMAIN y.ops = DOMAIN x.ops
        /\ \A q \in DOMAIN y.ops :
             /\ y.ops[q].local = x.ops[q].local
             /\ y.ops[q].remote = IF q = o THEN remote ELSE x.ops[q].remote
             /\ y.ops[q].outcome = IF q = o THEN outcome ELSE x.ops[q].outcome
    BY RecordIs DEF SoundGate
  <1>2. Guarded(y)
    BY RecordGuarded DEF SoundGate
  <1> HIDE DEF y
  <1>3. SoundJournal(P, y.ops)
    <2> SUFFICES ASSUME NEW q \in DOMAIN y.ops PROVE SoundEntry(P, q, y.ops[q])
      BY DEF SoundJournal
    <2>1. SoundEntry(P, q, x.ops[q])
      BY <1>1 DEF SoundGate, SoundJournal
    <2>2. CASE q = o
      BY <1>1, <2>2 DEF SoundEntry, Outcomes
    <2>3. CASE q # o
      BY <1>1, <2>1, <2>3, SameEntry DEF SoundEntry
    <2> QED BY <2>2, <2>3
  <1> QED BY <1>1, <1>2, <1>3 DEF SoundGate, y

LEMMA LoseSound ==
  ASSUME NEW P, NEW x, SoundGate(P, x), NEW p
  PROVE  SoundGate(P, LoseTrack(x, p))
  <1> DEFINE y == LoseTrack(x, p)
  <1>1. Guarded(x) /\ Guarded(y)
    BY LoseTrackGuarded DEF SoundGate
  <1> HIDE DEF y
  <1>2. /\ y.policy = x.policy /\ y.blocked = TRUE
        /\ DOMAIN y.ops = DOMAIN x.ops \cup {LostTrack(p)}
        /\ y.ops[LostTrack(p)].local = {} /\ y.ops[LostTrack(p)].remote = {p}
        /\ y.ops[LostTrack(p)].outcome = "Uncertain"
        /\ \A q \in DOMAIN y.ops \ {LostTrack(p)} :
             /\ y.ops[q].local = x.ops[q].local /\ y.ops[q].remote = x.ops[q].remote
             /\ y.ops[q].outcome = x.ops[q].outcome
    BY <1>1, LoseIs, ZenonT(60) DEF y
  <1> DEFINE o == LostTrack(p)
  <1>3. o[1] # "operation"
    BY DEF LostTrack
  <1>4. SoundJournal(P, y.ops)
    <2> SUFFICES ASSUME NEW q \in DOMAIN y.ops PROVE SoundEntry(P, q, y.ops[q])
      BY DEF SoundJournal
    <2>1. CASE q = o
      BY <1>2, <1>3, <2>1 DEF SoundEntry, Outcomes
    <2>2. CASE q # o
      <3>1. SoundEntry(P, q, x.ops[q])
        BY <1>2, <2>2 DEF SoundGate, SoundJournal
      <3> QED BY <1>2, <2>2, <3>1, SameEntry DEF SoundEntry
    <2> QED BY <2>1, <2>2
  <1> QED BY <1>1, <1>2, <1>4 DEF SoundGate, y

LEMMA EvidenceSound ==
  ASSUME NEW P, NEW x, SoundGate(P, x), NEW p, NEW known
  PROVE  SoundGate(P, ResolveUncertainty(x, p)) /\ SoundGate(P, ResolveAbsence(x, known))
  <1> SUFFICES ASSUME NEW y \in {ResolveUncertainty(x, p), ResolveAbsence(x, known)}
               PROVE  SoundGate(P, y)
    OBVIOUS
  <1>1. Guarded(y)
    BY EvidenceGuarded DEF SoundGate
  <1>2. /\ y.policy = x.policy /\ y.blocked = x.blocked /\ DOMAIN y.ops = DOMAIN x.ops
        /\ \A q \in DOMAIN y.ops :
             /\ y.ops[q].local = x.ops[q].local /\ y.ops[q].remote = x.ops[q].remote
             /\ y.ops[q].outcome \in {x.ops[q].outcome, "Accepted"}
    BY AcceptIs DEF SoundGate
  <1>3. SoundJournal(P, y.ops)
    <2> SUFFICES ASSUME NEW q \in DOMAIN y.ops PROVE SoundEntry(P, q, y.ops[q])
      BY DEF SoundJournal
    <2>1. SoundEntry(P, q, x.ops[q])
      BY <1>2 DEF SoundGate, SoundJournal
    <2>2. y.ops[q].outcome \in Outcomes
      BY <1>2, <2>1 DEF SoundEntry, Outcomes
    <2> QED BY <1>2, <2>1, <2>2, SameEntry
  <1> QED BY <1>1, <1>2, <1>3 DEF SoundGate

LEMMA FlagsSound ==
  ASSUME NEW P, NEW x, SoundGate(P, x), NEW matches \in BOOLEAN
  PROVE  /\ SoundGate(P, Settle(x, matches)) /\ SoundGate(P, Block(x))
         /\ SoundGate(P, Freeze(x))
         /\ ~HasUncertainty(x) => SoundGate(P, Unfreeze(x))
  <1>1. /\ Guarded(Settle(x, matches)) /\ Guarded(Block(x)) /\ Guarded(Freeze(x))
        /\ ~HasUncertainty(x) => Guarded(Unfreeze(x))
    BY SettleGuarded, BlockGuarded, UnfreezeGuarded DEF SoundGate
  <1>2. \A frozen \in BOOLEAN : SoundPolicy([x.policy EXCEPT !.frozen = frozen])
    BY DEF SoundGate, SoundPolicy
  <1>3. /\ Settle(x, matches) = [policy |-> x.policy, ops |-> x.ops,
                                 blocked |-> ~matches \/ HasUncertainty(x)]
        /\ Block(x) = [policy |-> x.policy, blocked |-> TRUE, ops |-> x.ops]
        /\ Freeze(x) = [policy |-> [x.policy EXCEPT !.frozen = TRUE], blocked |-> TRUE,
                        ops |-> x.ops]
        /\ Unfreeze(x) = [policy |-> [x.policy EXCEPT !.frozen = FALSE],
                          blocked |-> FALSE, ops |-> x.ops]
    BY FlagsAre DEF SoundGate
  <1>4. SoundPolicy(x.policy) /\ SoundJournal(P, x.ops)
    BY DEF SoundGate
  <1>5. SoundGate(P, Settle(x, matches))
    <2>1. (~matches \/ HasUncertainty(x)) \in BOOLEAN
      OBVIOUS
    <2> DEFINE flag == ~matches \/ HasUncertainty(x)
    <2> HIDE DEF flag
    <2> QED BY <1>1, <1>3, <1>4, <2>1 DEF SoundGate, flag
  <1>6. SoundGate(P, Block(x))
    BY <1>1, <1>3, <1>4 DEF SoundGate
  <1> DEFINE on == [x.policy EXCEPT !.frozen = TRUE]
             off == [x.policy EXCEPT !.frozen = FALSE]
  <1>7. SoundPolicy(on) /\ SoundPolicy(off)
    BY <1>2
  <1>8. /\ Freeze(x) = [policy |-> on, blocked |-> TRUE, ops |-> x.ops]
        /\ Unfreeze(x) = [policy |-> off, blocked |-> FALSE, ops |-> x.ops]
    BY <1>3, Zenon
  <1> HIDE DEF on, off
  <1>9. SoundGate(P, Freeze(x)) /\ (~HasUncertainty(x) => SoundGate(P, Unfreeze(x)))
    BY <1>1, <1>4, <1>7, <1>8 DEF SoundGate
  <1> QED BY <1>5, <1>6, <1>9

-------------------------------------------------------------------------------
(***************************************************************************)
(* The state.  Every row, saved or loaded, retains trades of the provider  *)
(* only, each once; what a command carries from step to step is about the  *)
(* orders its operation created.                                           *)
(***************************************************************************)

Traded(P, fills) ==
  \A i \in DOMAIN fills : \E p \in DOMAIN P : \E k \in 1 .. P[p].filled :
    fills[i].trade = <<Operation(P[p].op), p, k>>

SoundRow(P, r) == /\ r = [ledger |-> r.ledger, exec |-> r.exec, marker |-> r.marker]
                  /\ Sound(r.ledger) /\ SoundGate(P, r.exec) /\ r.marker \in BOOLEAN
                  /\ Distinct(r.ledger.fills) /\ Traded(P, r.ledger.fills)

ProviderRecords == [op : Operations, filled : Nat, status : {"Open", "Filled", "Canceled"}]

SoundProvider(P) ==
  /\ P \in Seq(ProviderRecords)
  /\ \A p \in DOMAIN P :
       /\ P[p].filled <= Request[P[p].op].order.quantity
       /\ P[p].status = "Open" => P[p].filled < Request[P[p].op].order.quantity

Grows(P, Q) == \A p \in DOMAIN P : /\ p \in DOMAIN Q /\ Q[p].op = P[p].op
                                   /\ P[p].filled <= Q[p].filled

\* The steps of a reconciliation, before it has the gate, with it, and those it
\* shares with the command that fetches one order.
Unclaimed == {"list", "balance", "claim"}
Phases == {"reconcile", "vanished", "resolve", "require", "record", "complete"}
Shared == {"fetch", "trades", "sync", "untracked", "unresolved"}

OrderSteps == {"begin", "post", "result", "uncertain", "reject", "cancel", "cancelResult",
               "cancelLocal"}

WorkFields == {"op", "remote", "local", "seen", "reconciling", "listing", "snapshot", "todo",
               "guarded"}
AnswerFields == {"filled", "status", "trades"}

SoundAnswers(P, w) ==
  \A answer \in w.seen : /\ DOMAIN answer = AnswerFields /\ answer.trades \in Nat
                         /\ \A p \in w.remote : answer.trades <= P[p].filled

SoundWork(P, w) ==
  /\ DOMAIN w = WorkFields /\ w.reconciling \in BOOLEAN
  /\ Identifies(P, Operation(w.op), w.remote)
  /\ SoundAnswers(P, w)
  /\ IsFiniteSet(w.listing) /\ \A entry \in w.listing : entry.id \in DOMAIN P
  /\ \A snapshot \in w.snapshot : snapshot.cash \in Int
  /\ \A item \in w.todo : Identifies(P, Operation(item.op), item.remote)

\* What a command's locals say at each of its steps.
Placed(step, w) ==
  /\ w.reconciling => step \in Unclaimed \cup Phases \cup Shared
  /\ step \in Unclaimed \cup Phases => w.reconciling
  /\ step \in OrderSteps => w.op \in Operations /\ w.seen = {}
  /\ step = "post" => Request[w.op].order.quantity > 0

SoundThread(P, step, w, loaded) ==
  /\ step \in StoreSteps \cup OtherSteps
  /\ SoundWork(P, w) /\ Placed(step, w)
  /\ loaded = {} \/ (step \in StoreSteps /\ \E mine \in loaded : loaded = {mine})
  /\ \A mine \in loaded : SoundRow(P, mine)

Scalars == /\ alert \in {"None", "Active", "Acknowledged"}
           /\ gate \in Threads \cup {Nobody}
           /\ restarted \in BOOLEAN /\ settled \in BOOLEAN
           /\ left \in [Commands -> Nat]

TradingInv ==
  /\ Scalars
  /\ pc = [t \in Threads |-> pc[t]] /\ copy = [t \in Threads |-> copy[t]]
  /\ work = [t \in Threads |-> work[t]]
  /\ SoundProvider(provider) /\ SoundRow(provider, db)
  /\ \A t \in Threads : SoundThread(provider, pc[t], work[t], copy[t])

-------------------------------------------------------------------------------
\* Orders of the provider are added, filled and ended, nothing more.

LEMMA RecordsAre ==
  ASSUME NEW P, SoundProvider(P)
  PROVE  \A p \in DOMAIN P :
           /\ P[p].op \in Operations /\ P[p].filled \in Nat
           /\ P[p].status \in {"Open", "Filled", "Canceled"}
           /\ P[p] = [op |-> P[p].op, filled |-> P[p].filled, status |-> P[p].status]
  <1>1. DOMAIN P = 1 .. Len(P) /\ \A p \in 1 .. Len(P) : P[p] \in ProviderRecords
    BY DEF SoundProvider
  <1>2. \A e \in ProviderRecords :
          /\ e.op \in Operations /\ e.filled \in Nat
          /\ e.status \in {"Open", "Filled", "Canceled"}
          /\ e = [op |-> e.op, filled |-> e.filled, status |-> e.status]
    BY DEF ProviderRecords
  <1> QED BY <1>1, <1>2

LEMMA OrdersFinite == ASSUME NEW P, SoundProvider(P) PROVE IsFiniteSet(DOMAIN P)
  <1>1. Len(P) \in Nat /\ DOMAIN P = 1 .. Len(P)
    BY DEF SoundProvider
  <1>2. IsFiniteSet(1 .. Len(P))
    BY <1>1, FS_Interval
  <1> QED BY <1>1, <1>2

LEMMA GrowsKeepsRow ==
  ASSUME NEW P, NEW Q, SoundProvider(P), SoundProvider(Q), Grows(P, Q),
         NEW r, SoundRow(P, r)
  PROVE  SoundRow(Q, r)
  <1>1. \A o, p : Created(P, o, p) => Created(Q, o, p)
    BY DEF Created, Grows
  <1>2. \A o, e : SoundEntry(P, o, e) => SoundEntry(Q, o, e)
    BY <1>1 DEF SoundEntry, Identifies
  <1>3. SoundJournal(P, r.exec.ops) => SoundJournal(Q, r.exec.ops)
    BY <1>2 DEF SoundJournal
  <1>4. Traded(P, r.ledger.fills) => Traded(Q, r.ledger.fills)
    <2>1. \A p \in DOMAIN P : P[p].filled \in Nat
      BY RecordsAre
    <2>2. \A p \in DOMAIN Q : Q[p].filled \in Nat
      BY RecordsAre
    <2>3. \A p \in DOMAIN P : \A k \in 1 .. P[p].filled :
            p \in DOMAIN Q /\ k \in 1 .. Q[p].filled /\ Q[p].op = P[p].op
      BY <2>1, <2>2 DEF Grows
    <2> QED BY <2>3 DEF Traded
  <1> QED BY <1>3, <1>4 DEF SoundRow, SoundGate

LEMMA GrowsKeepsWork ==
  ASSUME NEW P, NEW Q, SoundProvider(P), SoundProvider(Q), Grows(P, Q),
         NEW w, SoundWork(P, w)
  PROVE  SoundWork(Q, w)
  <1>1. \A o, p : Created(P, o, p) => Created(Q, o, p)
    BY DEF Created, Grows
  <1>2. SoundAnswers(Q, w)
    <2> SUFFICES ASSUME NEW answer \in w.seen, NEW p \in w.remote
                 PROVE  answer.trades <= Q[p].filled
      BY DEF SoundWork, SoundAnswers
    <2>1. answer.trades \in Nat /\ answer.trades <= P[p].filled /\ p \in DOMAIN P
      BY DEF SoundWork, SoundAnswers, Identifies, Created
    <2>2. p \in DOMAIN Q /\ P[p].filled <= Q[p].filled
      BY <2>1 DEF Grows
    <2>3. P[p].filled \in Nat /\ Q[p].filled \in Nat
      BY <2>1, <2>2, RecordsAre
    <2> QED BY <2>1, <2>2, <2>3
  <1>3. \A p \in DOMAIN P : p \in DOMAIN Q
    BY DEF Grows
  <1> QED BY <1>1, <1>2, <1>3 DEF SoundWork, Identifies

LEMMA SameGrows == ASSUME NEW P, SoundProvider(P) PROVE Grows(P, P)
  <1>1. \A p \in DOMAIN P : P[p].filled \in Nat
    BY RecordsAre
  <1> QED BY <1>1 DEF Grows

\* The provider's order p is filled further, or ends.
LEMMA UpdateGrows ==
  ASSUME NEW P, SoundProvider(P), NEW p \in DOMAIN P, NEW filled \in Nat,
         P[p].filled <= filled, filled <= Request[P[p].op].order.quantity,
         NEW status \in {"Open", "Filled", "Canceled"},
         status = "Open" => filled < Request[P[p].op].order.quantity,
         NEW Q, Q = [P EXCEPT ![p] = [op |-> P[p].op, filled |-> filled, status |-> status]]
  PROVE  SoundProvider(Q) /\ Grows(P, Q)
  <1> DEFINE e == [op |-> P[p].op, filled |-> filled, status |-> status]
  <1>1. e \in ProviderRecords
    BY RecordsAre DEF ProviderRecords
  <1>2. e.op = P[p].op /\ e.filled = filled /\ e.status = status
    OBVIOUS
  <1>3. Q = [P EXCEPT ![p] = e]
    OBVIOUS
  <1> HIDE DEF e
  <1>4. /\ Q \in Seq(ProviderRecords) /\ DOMAIN Q = DOMAIN P
        /\ Q[p] = e /\ \A q \in DOMAIN P : q # p => Q[q] = P[q]
    BY <1>1, <1>3 DEF SoundProvider
  <1>5. SoundProvider(Q)
    BY <1>2, <1>4 DEF SoundProvider
  <1>6. Grows(P, Q)
    <2>1. Grows(P, P)
      BY SameGrows
    <2> QED BY <1>2, <1>4, <2>1 DEF Grows
  <1> QED BY <1>5, <1>6

LEMMA StatusGrows ==
  ASSUME NEW P, SoundProvider(P), NEW p \in DOMAIN P, NEW status \in {"Filled", "Canceled"},
         NEW Q, Q = [P EXCEPT ![p].status = status]
  PROVE  SoundProvider(Q) /\ Grows(P, Q)
  <1> DEFINE e == [P[p] EXCEPT !.status = status]
  <1>1. Q = [P EXCEPT ![p] = e]
    BY Zenon
  <1>2. e = [op |-> P[p].op, filled |-> P[p].filled, status |-> status]
    BY RecordsAre
  <1> DEFINE filled == P[p].filled
  <1>3. filled \in Nat /\ filled <= Request[P[p].op].order.quantity
    BY RecordsAre DEF SoundProvider
  <1>4. filled <= filled /\ status \in {"Open", "Filled", "Canceled"} /\ status # "Open"
    BY <1>3
  <1> HIDE DEF e
  <1>5. Q = [P EXCEPT ![p] = [op |-> P[p].op, filled |-> filled, status |-> status]]
    BY <1>1, <1>2
  <1>6. P[p].filled <= filled
    BY <1>4
  <1> HIDE DEF filled
  <1> QED BY <1>3, <1>4, <1>5, <1>6, UpdateGrows

LEMMA AppendGrows ==
  ASSUME NEW P, SoundProvider(P), NEW n \in Operations,
         Request[n].order.quantity \in Int, Request[n].order.quantity > 0,
         NEW Q, Q = Append(P, ProviderOrder(n))
  PROVE  /\ SoundProvider(Q) /\ Grows(P, Q)
         /\ Created(Q, Operation(n), Len(Q)) /\ Len(Q) \notin DOMAIN P
         /\ DOMAIN Q = DOMAIN P \cup {Len(Q)} /\ Q[Len(Q)].op = n
         /\ \A p \in DOMAIN P : Q[p] = P[p]
  <1> DEFINE e == ProviderOrder(n)
  <1>1. e \in ProviderRecords /\ e.op = n /\ e.filled = 0
    BY DEF ProviderRecords, ProviderOrder
  <1> HIDE DEF e
  <1>2. P \in Seq(ProviderRecords) /\ Q = Append(P, e)
    BY DEF SoundProvider, e
  <1>3. /\ Q \in Seq(ProviderRecords) /\ Len(P) \in Nat /\ Len(Q) = Len(P) + 1
        /\ DOMAIN Q = 1 .. Len(Q) /\ DOMAIN P = 1 .. Len(P)
        /\ Q[Len(Q)] = e /\ \A p \in DOMAIN P : Q[p] = P[p]
    BY <1>1, <1>2
  <1>4. SoundProvider(Q)
    <2> SUFFICES ASSUME NEW p \in DOMAIN Q
                 PROVE  /\ Q[p].filled <= Request[Q[p].op].order.quantity
                        /\ Q[p].status = "Open" => Q[p].filled < Request[Q[p].op].order.quantity
      BY <1>3 DEF SoundProvider
    <2>1. CASE p \in DOMAIN P
      BY <1>3, <2>1 DEF SoundProvider
    <2>2. CASE p = Len(Q)
      BY <1>1, <1>3, <2>2
    <2> QED BY <1>3, <2>1, <2>2
  <1>5. Grows(P, Q)
    <2>1. Grows(P, P)
      BY SameGrows
    <2>2. \A p \in DOMAIN P : p \in DOMAIN Q
      BY <1>3
    <2> QED BY <1>3, <2>1, <2>2 DEF Grows
  <1>6. Created(Q, Operation(n), Len(Q))
    BY <1>1, <1>3 DEF Created
  <1> QED BY <1>1, <1>3, <1>4, <1>5, <1>6

-------------------------------------------------------------------------------
\* What a thread does, besides its own step, keeps the others sound.

Locals(step, w) == IF step = "idle" THEN Blank ELSE w

LEMMA ThreadMoves ==
  ASSUME TradingInv, NEW t \in Threads, NEW step, NEW w, Scalars',
         SoundProvider(provider'), Grows(provider, provider'), SoundRow(provider', db'),
         Goto(t, step, w),
         copy' = [copy EXCEPT ![t] = {}] \/ (copy' = copy /\ copy[t] = {}),
         SoundThread(provider', step, Locals(step, w), {})
  PROVE  TradingInv'
  <1>1. /\ pc' = [pc EXCEPT ![t] = step]
        /\ work' = [work EXCEPT ![t] = Locals(step, w)]
    BY DEF Goto, Locals
  <1>2. /\ pc' = [u \in Threads |-> pc'[u]] /\ copy' = [u \in Threads |-> copy'[u]]
        /\ work' = [u \in Threads |-> work'[u]]
    BY <1>1 DEF TradingInv
  <1>3. ASSUME NEW u \in Threads
        PROVE  SoundThread(provider', pc'[u], work'[u], copy'[u])
    <2>1. CASE u = t
      <3>1. pc'[t] = step /\ work'[t] = Locals(step, w) /\ copy'[t] = {}
        BY <1>1 DEF TradingInv
      <3> QED BY <2>1, <3>1
    <2>2. CASE u # t
      <3>1. pc'[u] = pc[u] /\ work'[u] = work[u] /\ copy'[u] = copy[u]
        BY <1>1, <2>2 DEF TradingInv
      <3>2. SoundThread(provider, pc[u], work[u], copy[u]) /\ SoundProvider(provider)
        BY DEF TradingInv
      <3>3. SoundWork(provider', work[u]) /\ \A mine \in copy[u] : SoundRow(provider', mine)
        BY <3>2, GrowsKeepsRow, GrowsKeepsWork DEF SoundThread
      <3> QED BY <3>1, <3>2, <3>3 DEF SoundThread
    <2> QED BY <2>1, <2>2
  <1> QED BY <1>2, <1>3 DEF TradingInv

\* A step of the provider, or none.
LEMMA ThreadsRest ==
  ASSUME TradingInv, Scalars', SoundProvider(provider'), Grows(provider, provider'),
         UNCHANGED <<db, pc, work, copy>>
  PROVE  TradingInv'
  <1>1. SoundRow(provider', db')
    BY GrowsKeepsRow DEF TradingInv
  <1>2. ASSUME NEW u \in Threads
        PROVE  SoundThread(provider', pc'[u], work'[u], copy'[u])
    <2>1. SoundThread(provider, pc[u], work[u], copy[u]) /\ SoundProvider(provider)
      BY DEF TradingInv
    <2>2. SoundWork(provider', work[u]) /\ \A mine \in copy[u] : SoundRow(provider', mine)
      BY <2>1, GrowsKeepsRow, GrowsKeepsWork DEF SoundThread
    <2> QED BY <2>1, <2>2 DEF SoundThread
  <1> QED BY <1>1, <1>2 DEF TradingInv

LEMMA BlankSound == ASSUME NEW P PROVE SoundThread(P, "idle", Blank, {})
  BY FS_EmptySet DEF SoundThread, SoundWork, SoundAnswers, Identifies, Placed, Blank, WorkFields,
     OtherSteps, Unclaimed, Phases, Shared, OrderSteps

\* The locals stay as they are, and serve the next step as well.
LEMMA NextStep ==
  ASSUME NEW P, NEW w, SoundWork(P, w), NEW step \in StoreSteps \cup OtherSteps,
         step = "idle" \/ Placed(step, w)
  PROVE  SoundThread(P, step, Locals(step, w), {})
  BY BlankSound DEF SoundThread, Locals

\* Steps of a reconciliation, steps either command takes, steps of an order.
LEMMA OnwardSound ==
  ASSUME NEW P, NEW w, SoundWork(P, w), NEW step,
         step = "idle" \/ (w.reconciling /\ step \in Phases)
  PROVE  SoundThread(P, step, Locals(step, w), {})
  BY NextStep DEF Placed, Unclaimed, Phases, OrderSteps, StoreSteps, GatedSteps, OtherSteps

LEMMA SharedSound ==
  ASSUME NEW P, NEW w, SoundWork(P, w), NEW step \in Shared
  PROVE  SoundThread(P, step, Locals(step, w), {})
  BY NextStep DEF Placed, Unclaimed, Phases, OrderSteps, Shared, StoreSteps, GatedSteps,
     OtherSteps

LEMMA OrderStepSound ==
  ASSUME NEW P, NEW w, SoundWork(P, w), NEW step \in OrderSteps, w.reconciling = FALSE,
         w.op \in Operations, w.seen = {}, step # "post"
  PROVE  SoundThread(P, step, Locals(step, w), {})
  BY NextStep DEF Placed, Unclaimed, Phases, OrderSteps, Shared, StoreSteps, GatedSteps,
     OtherSteps

LEMMA ScalarsStay ==
  ASSUME TradingInv, UNCHANGED <<restarted, alert, settled, left>>,
         gate' \in Threads \cup {Nobody}
  PROVE  Scalars'
  BY DEF TradingInv, Scalars

LEMMA SaveMoves ==
  ASSUME TradingInv, NEW t \in Threads, NEW l, NEW x, NEW step, NEW w,
         Save(t, l, x, step, w), Sound(l), Distinct(l.fills), Traded(provider, l.fills),
         SoundGate(provider, x), SoundThread(provider, step, Locals(step, w), {})
  PROVE  TradingInv'
  <1>1. /\ Goto(t, step, w) /\ copy' = [copy EXCEPT ![t] = {}] /\ provider' = provider
        /\ UNCHANGED <<restarted, alert, settled, left>> /\ gate' \in {Nobody, gate}
        /\ db' = [db EXCEPT !.ledger = l, !.exec = x]
    BY DEF Save, Leave
  <1>2. db' = [ledger |-> l, exec |-> x, marker |-> db.marker]
    BY <1>1 DEF TradingInv, SoundRow
  <1>3. SoundRow(provider, db')
    <2>1. db'.ledger = l /\ db'.exec = x /\ db'.marker = db.marker
      BY <1>2
    <2> QED BY <1>2, <2>1 DEF SoundRow, TradingInv
  <1>4. Scalars'
    BY <1>1, ScalarsStay DEF TradingInv, Scalars
  <1>5. SoundProvider(provider) /\ Grows(provider, provider)
    BY SameGrows DEF TradingInv
  <1> QED BY <1>1, <1>3, <1>4, <1>5, ThreadMoves

LEMMA SaveKeptMoves ==
  ASSUME TradingInv, NEW t \in Threads, NEW mine \in copy[t], NEW l, NEW x, NEW step, NEW w,
         Save(t, l, x, step, w), Keeps(mine.ledger, l),
         SoundGate(provider, x), SoundThread(provider, step, Locals(step, w), {})
  PROVE  TradingInv'
  <1>1. SoundRow(provider, mine)
    BY DEF TradingInv, SoundThread
  <1>2. Sound(l) /\ Distinct(l.fills) /\ Traded(provider, l.fills)
    BY <1>1 DEF SoundRow, Keeps
  <1> QED BY <1>2, SaveMoves

LEMMA ReturnMoves ==
  ASSUME TradingInv, NEW t \in Threads, NEW step, NEW w, Return(t, step, w),
         SoundThread(provider, step, Locals(step, w), {})
  PROVE  TradingInv'
  <1>1. /\ Goto(t, step, w) /\ copy' = [copy EXCEPT ![t] = {}] /\ provider' = provider
        /\ UNCHANGED <<restarted, alert, settled, left>> /\ gate' \in {Nobody, gate}
        /\ db' = db
    BY DEF Return, Leave
  <1>2. Scalars'
    BY <1>1, ScalarsStay DEF TradingInv, Scalars
  <1>3. /\ SoundProvider(provider) /\ Grows(provider, provider)
        /\ SoundRow(provider, db)
    BY SameGrows DEF TradingInv
  <1> QED BY <1>1, <1>2, <1>3, ThreadMoves

LEMMA GotoMoves ==
  ASSUME TradingInv, NEW t \in Threads, NEW step, NEW w, pc[t] \in OtherSteps,
         Goto(t, step, w), UNCHANGED <<db, copy>>, Scalars',
         SoundProvider(provider'), Grows(provider, provider'),
         SoundThread(provider', step, Locals(step, w), {})
  PROVE  TradingInv'
  <1>1. copy[t] = {}
    BY DEF TradingInv, SoundThread, StoreSteps, GatedSteps, OtherSteps
  <1>2. SoundRow(provider', db')
    BY GrowsKeepsRow DEF TradingInv
  <1> QED BY <1>1, <1>2, ThreadMoves

\* A step between the store's, with the provider as it was.
LEMMA AskMoves ==
  ASSUME TradingInv, NEW t \in Threads, NEW step, NEW w, pc[t] \in OtherSteps,
         Goto(t, step, w), UNCHANGED <<db, copy, provider>>, Scalars',
         SoundThread(provider, step, Locals(step, w), {})
  PROVE  TradingInv'
  <1>1. SoundProvider(provider) /\ Grows(provider, provider)
    BY SameGrows DEF TradingInv
  <1> QED BY <1>1, GotoMoves

\* A command begins.
LEMMA StartMoves ==
  ASSUME TradingInv, NEW t \in Threads, NEW command \in Commands, NEW step, NEW w,
         Start(t, command, step, w), UNCHANGED <<db, copy, provider>>,
         UNCHANGED <<restarted, gate, settled>>, alert' \in {"None", "Active", "Acknowledged"},
         SoundThread(provider, step, Locals(step, w), {})
  PROVE  TradingInv'
  <1>1. /\ pc[t] \in OtherSteps /\ Goto(t, step, w)
        /\ left' = [left EXCEPT ![command] = @ - 1] /\ left[command] > 0
    BY DEF Start, OtherSteps
  <1>2. left' \in [Commands -> Nat]
    BY <1>1 DEF TradingInv, Scalars
  <1>3. Scalars'
    BY <1>2 DEF TradingInv, Scalars
  <1> QED BY <1>1, <1>3, AskMoves

LEMMA AtThread ==
  ASSUME TradingInv, NEW t \in Threads
  PROVE  /\ SoundWork(provider, work[t]) /\ Placed(pc[t], work[t])
         /\ pc[t] \in StoreSteps \cup OtherSteps
         /\ \A mine \in copy[t] :
              /\ SoundRow(provider, mine) /\ Sound(mine.ledger)
              /\ SoundGate(provider, mine.exec)
  BY DEF TradingInv, SoundThread, SoundRow

-------------------------------------------------------------------------------
\* The updates the steps make of a command's locals.

SameBut(u, w, changed) ==
  DOMAIN u = WorkFields /\ \A f \in WorkFields \ changed : u[f] = w[f]

LEMMA BlankIs ==
  /\ DOMAIN Blank = WorkFields /\ Blank.op = 0 /\ Blank.remote = {} /\ Blank.local = {}
  /\ Blank.seen = {} /\ Blank.reconciling = FALSE /\ Blank.listing = {}
  /\ Blank.snapshot = {} /\ Blank.todo = {} /\ Blank.guarded = {}
  BY DEF Blank, WorkFields

\* Locals that agree on everything a step relies on.
LEMMA GuardedAside ==
  ASSUME NEW P, NEW w, SoundWork(P, w), NEW u, SameBut(u, w, {"guarded"})
  PROVE  /\ SoundWork(P, u) /\ u.reconciling = w.reconciling /\ u.todo = w.todo
         /\ u.op = w.op /\ u.seen = w.seen
  <1>1. /\ DOMAIN u = WorkFields /\ u.op = w.op /\ u.remote = w.remote /\ u.seen = w.seen
        /\ u.reconciling = w.reconciling /\ u.listing = w.listing
        /\ u.snapshot = w.snapshot /\ u.todo = w.todo
    BY DEF SameBut, WorkFields
  <1> QED BY <1>1 DEF SoundWork, SoundAnswers

-------------------------------------------------------------------------------
\* One lemma per action: submitting an order

LEMMA LoadKeeps ==
  ASSUME TradingInv, NEW t \in Threads, Load(t) PROVE TradingInv'
  <1>1. /\ pc[t] \in StoreSteps /\ copy' = [copy EXCEPT ![t] = {db}]
        /\ UNCHANGED <<db, pc, work, provider>>
        /\ UNCHANGED <<restarted, alert, settled, left>> /\ gate' \in {t, gate}
    BY DEF Load
  <1>2. Scalars'
    BY <1>1, ScalarsStay DEF TradingInv, Scalars
  <1>3. copy' = [u \in Threads |-> copy'[u]]
    BY <1>1 DEF TradingInv
  <1>4. ASSUME NEW u \in Threads PROVE SoundThread(provider, pc[u], work[u], copy'[u])
    <2>1. SoundThread(provider, pc[u], work[u], copy[u])
      BY DEF TradingInv
    <2>2. CASE u # t
      <3>1. copy'[u] = copy[u]
        BY <1>1, <2>2 DEF TradingInv
      <3> QED BY <2>1, <3>1
    <2>3. CASE u = t
      <3>1. copy'[u] = {db} /\ SoundRow(provider, db) /\ pc[u] \in StoreSteps
        BY <1>1, <2>3 DEF TradingInv
      <3> QED BY <2>1, <3>1 DEF SoundThread
    <2> QED BY <2>2, <2>3
  <1> QED BY <1>1, <1>2, <1>3, <1>4 DEF TradingInv

LEMMA SubmitKeepsInv ==
  ASSUME TradingInv, NEW t \in Threads, SubmitOrder(t) PROVE TradingInv'
  <1>1. PICK n \in Operations :
          /\ Start(t, "Submit", "begin", [Blank EXCEPT !.op = n])
          /\ UNCHANGED <<store, copy, provider>>
    BY DEF SubmitOrder
  <1> DEFINE w == [Blank EXCEPT !.op = n]
  <1>2. SameBut(w, Blank, {"op"}) /\ w.op = n
    BY BlankIs DEF SameBut, WorkFields
  <1>3. Start(t, "Submit", "begin", w)
    BY <1>1
  <1> HIDE DEF w
  <1>4. /\ SoundWork(provider, w) /\ w.op = n /\ w.reconciling = FALSE /\ w.seen = {}
    BY <1>2, BlankIs, FS_EmptySet
    DEF SameBut, WorkFields, SoundWork, SoundAnswers, Identifies
  <1>5. Placed("begin", w) /\ "begin" \in StoreSteps
    BY <1>4 DEF Placed, Unclaimed, Phases, Shared, StoreSteps, GatedSteps
  <1>6. SoundThread(provider, "begin", Locals("begin", w), {})
    BY <1>4, <1>5, NextStep
  <1>7. /\ UNCHANGED <<db, copy, provider>> /\ UNCHANGED <<restarted, gate, settled>>
        /\ alert' \in {"None", "Active", "Acknowledged"} /\ "Submit" \in Commands
    BY <1>1 DEF store, TradingInv, Scalars, Commands
  <1> QED BY <1>3, <1>6, <1>7, StartMoves

LEMMA BeginKeepsInv ==
  ASSUME TradingInv, NEW t \in Threads, BeginOrder(t) PROVE TradingInv'
  <1> USE AtThread
  <1> DEFINE n == work[t].op
             o == Operation(n)
             order == Request[n].order
  <1>1. n \in Operations
    BY DEF BeginOrder, Placed, OrderSteps
  <1>2. /\ DOMAIN order = OrderFields /\ order.quantity \in Int
    BY <1>1, TradingAssumption DEF OrderFields
  <1>3. PICK mine \in copy[t] :
          \/ /\ order.quantity > 0
             /\ Save(t, Submit(mine.ledger, order), Begin(mine.exec, mine.ledger, o), "post",
                     work[t])
          \/ Return(t, "idle", Blank)
    BY DEF BeginOrder, CanBegin, CanSubmit
  <1>4. CASE Return(t, "idle", Blank)
    BY <1>4, BlankSound, ReturnMoves DEF Locals
  <1>5. CASE /\ order.quantity > 0
             /\ Save(t, Submit(mine.ledger, order), Begin(mine.exec, mine.ledger, o), "post",
                     work[t])
    <2>1. Keeps(mine.ledger, Submit(mine.ledger, order))
      BY <1>2, SubmitKeeps
    <2>2. SoundGate(provider, Begin(mine.exec, mine.ledger, o))
      BY <1>1, BeginSound
    <2>3. pc[t] = "begin"
      BY DEF BeginOrder
    <2>4. Placed("post", work[t]) /\ "post" \in OtherSteps
      BY <1>1, <1>5, <2>3 DEF Placed, Unclaimed, Phases, Shared, OrderSteps, OtherSteps
    <2>5. SoundThread(provider, "post", Locals("post", work[t]), {})
      BY <2>4, NextStep
    <2> QED BY <1>5, <2>1, <2>2, <2>5, SaveKeptMoves
  <1> QED BY <1>3, <1>4, <1>5

LEMMA PostKeepsInv ==
  ASSUME TradingInv, NEW t \in Threads, Post(t) PROVE TradingInv'
  <1> USE AtThread
  <1> DEFINE n == work[t].op
             created == Append(provider, ProviderOrder(n))
             w == [work[t] EXCEPT !.remote = {Len(created)}]
  <1>1. /\ pc[t] = "post" /\ n \in Operations /\ Request[n].order.quantity > 0
        /\ Request[n].order.quantity \in Int /\ work[t].reconciling = FALSE
        /\ work[t].seen = {} /\ DOMAIN work[t] = WorkFields
    BY TradingAssumption DEF Post, Placed, OrderSteps, Unclaimed, Phases, Shared, SoundWork
  <1>2. SoundProvider(provider)
    BY DEF TradingInv
  <1>3. /\ SoundProvider(created) /\ Grows(provider, created)
        /\ Created(created, Operation(n), Len(created))
        /\ Len(created) \notin DOMAIN provider
    BY <1>1, <1>2, AppendGrows
  <1>4. SoundProvider(provider) /\ Grows(provider, provider)
    BY <1>2, SameGrows
  <1>5. /\ pc[t] \in OtherSteps /\ UNCHANGED <<db, copy>> /\ Scalars'
    BY <1>1 DEF Post, OtherSteps, store, TradingInv, Scalars
  <1>6. provider' \in {provider, created}
    BY DEF Post
  <1>7. SoundProvider(provider') /\ Grows(provider, provider') /\ SoundWork(provider', work[t])
    BY <1>2, <1>3, <1>4, <1>6, GrowsKeepsWork
  <1>8. ASSUME NEW step \in {"result", "uncertain", "reject"}, Goto(t, step, work[t])
        PROVE  TradingInv'
    <2>1. Placed(step, work[t]) /\ step \in StoreSteps
      BY <1>1 DEF Placed, Unclaimed, Phases, Shared, StoreSteps, GatedSteps
    <2>2. SoundThread(provider', step, Locals(step, work[t]), {})
      BY <1>7, <2>1, NextStep
    <2> QED BY <1>5, <1>7, <1>8, <2>2, GotoMoves
  <1>9. ASSUME provider' = created, Goto(t, "result", w) PROVE TradingInv'
    <2>1. SameBut(w, work[t], {"remote"}) /\ w.remote = {Len(created)}
      <3> DEFINE id == {Len(created)}
      <3>1. w = [work[t] EXCEPT !.remote = id]
        OBVIOUS
      <3> HIDE DEF id, w
      <3>2. SameBut(w, work[t], {"remote"}) /\ w.remote = id
        BY <1>1, <3>1 DEF SameBut, WorkFields
      <3> QED BY <3>2 DEF id
    <2>2. SoundProvider(created) /\ SoundWork(created, work[t])
      BY <1>3, <1>7, <1>9
    <2> DEFINE last == Len(created)
    <2>3. Identifies(created, Operation(n), {last})
      <3> HIDE DEF created
      <3> QED BY <1>3 DEF Identifies
    <2> HIDE DEF w, created
    <2>4. /\ DOMAIN w = WorkFields /\ w.op = n /\ w.remote = {last} /\ w.seen = {}
          /\ w.reconciling = FALSE /\ w.listing = work[t].listing
          /\ w.snapshot = work[t].snapshot /\ w.todo = work[t].todo
      BY <1>1, <2>1 DEF SameBut, WorkFields
    <2>5. SoundWork(created, w)
      BY <2>2, <2>3, <2>4 DEF SoundWork, SoundAnswers
    <2>6. Placed("result", w) /\ "result" \in StoreSteps
      BY <1>1, <2>4 DEF Placed, Unclaimed, Phases, Shared, StoreSteps, GatedSteps
    <2>7. SoundThread(created, "result", Locals("result", w), {})
      BY <2>5, <2>6, NextStep
    <2> QED BY <1>5, <1>7, <1>9, <2>7, GotoMoves
  <1> QED BY <1>8, <1>9 DEF Post

LEMMA RecordOrderResultKeepsInv ==
  ASSUME TradingInv, NEW t \in Threads, RecordOrderResult(t) PROVE TradingInv'
  <1> USE AtThread
  <1> DEFINE n == work[t].op
             o == Operation(n)
             next == IF pc[t] = "result" THEN "idle" ELSE "cancelLocal"
  <1>1. /\ n \in Operations /\ work[t].reconciling = FALSE /\ work[t].seen = {}
        /\ Identifies(provider, o, work[t].remote)
    BY DEF RecordOrderResult, Placed, OrderSteps, Unclaimed, Phases, Shared, SoundWork
  <1>2. PICK mine \in copy[t] :
          \/ /\ o \in DOMAIN mine.exec.ops
             /\ Save(t, mine.ledger, RecordOutcome(mine.exec, o, work[t].remote, "Accepted"),
                     next, work[t])
          \/ Return(t, "idle", Blank)
    BY DEF RecordOrderResult
  <1>3. CASE Return(t, "idle", Blank)
    BY <1>3, BlankSound, ReturnMoves DEF Locals
  <1>4. CASE /\ o \in DOMAIN mine.exec.ops
             /\ Save(t, mine.ledger, RecordOutcome(mine.exec, o, work[t].remote, "Accepted"),
                     next, work[t])
    <2>1. SoundGate(provider, RecordOutcome(mine.exec, o, work[t].remote, "Accepted"))
      BY <1>1, <1>4, RecordSound
    <2>2. Keeps(mine.ledger, mine.ledger)
      BY DEF Keeps
    <2>3. SoundThread(provider, next, Locals(next, work[t]), {})
      BY <1>1, OnwardSound, OrderStepSound DEF OrderSteps
    <2> HIDE DEF next
    <2> QED BY <1>4, <2>1, <2>2, <2>3, SaveKeptMoves
  <1> QED BY <1>2, <1>3, <1>4

LEMMA RetainUncertainKeepsInv ==
  ASSUME TradingInv, NEW t \in Threads, RetainUncertain(t) PROVE TradingInv'
  <1> USE AtThread
  <1> DEFINE o == Operation(work[t].op)
  <1>1. PICK mine \in copy[t] :
          \/ /\ o \in DOMAIN mine.exec.ops
             /\ Save(t, RequireReconciliation(mine.ledger), MarkUncertain(mine.exec, o),
                     "idle", Blank)
          \/ Return(t, "idle", Blank)
    BY DEF RetainUncertain
  <1>2. CASE Return(t, "idle", Blank)
    BY <1>2, BlankSound, ReturnMoves DEF Locals
  <1>3. CASE /\ o \in DOMAIN mine.exec.ops
             /\ Save(t, RequireReconciliation(mine.ledger), MarkUncertain(mine.exec, o),
                     "idle", Blank)
    <2>1. SoundGate(provider, MarkUncertain(mine.exec, o))
      BY <1>3, MarkSound
    <2>2. Keeps(mine.ledger, RequireReconciliation(mine.ledger))
      BY RequireKeeps
    <2> QED BY <1>3, <2>1, <2>2, BlankSound, SaveKeptMoves DEF Locals
  <1> QED BY <1>1, <1>2, <1>3

LEMMA RejectKeepsInv ==
  ASSUME TradingInv, NEW t \in Threads, RecordConfirmedRejection(t) PROVE TradingInv'
  <1> USE AtThread
  <1> DEFINE n == work[t].op
             o == Operation(n)
  <1>1. n \in Operations
    BY DEF RecordConfirmedRejection, Placed, OrderSteps
  <1>2. PICK mine \in copy[t] :
          \/ /\ o \in DOMAIN mine.exec.ops
             /\ \E id : Save(t, Cancel(mine.ledger, id),
                             RecordOutcome(mine.exec, o, {}, "Rejected"), "idle", Blank)
          \/ Return(t, "idle", Blank)
    BY DEF RecordConfirmedRejection, CanReject
  <1>3. CASE Return(t, "idle", Blank)
    BY <1>3, BlankSound, ReturnMoves DEF Locals
  <1>4. ASSUME o \in DOMAIN mine.exec.ops, NEW id,
               Save(t, Cancel(mine.ledger, id),
                    RecordOutcome(mine.exec, o, {}, "Rejected"), "idle", Blank)
        PROVE  TradingInv'
    <2>1. Identifies(provider, o, {})
      BY DEF Identifies
    <2>2. SoundGate(provider, RecordOutcome(mine.exec, o, {}, "Rejected"))
      BY <1>1, <1>4, <2>1, RecordSound
    <2>3. Keeps(mine.ledger, Cancel(mine.ledger, id))
      BY CancelKeeps
    <2> QED BY <1>4, <2>2, <2>3, BlankSound, SaveKeptMoves DEF Locals
  <1> QED BY <1>2, <1>3, <1>4

-------------------------------------------------------------------------------
\* One lemma per action: cancelling an order, fetching one

\* The journal identifies orders that the operation created.
LEMMA JournalIdentifies ==
  ASSUME NEW P, NEW x, SoundGate(P, x), NEW o \in DOMAIN x.ops,
         x.ops[o].local # {} \/ o[1] = "operation"
  PROVE  Identifies(P, o, x.ops[o].remote) /\ \E n \in Operations : o = Operation(n)
  BY DEF SoundGate, SoundJournal, SoundEntry

LEMMA ForIdentifiedKeepsInv ==
  ASSUME TradingInv, NEW t \in Threads, NEW command \in Commands,
         NEW step \in {"cancel", "fetch"}, ForIdentified(t, command, step)
  PROVE  TradingInv'
  <1>1. PICK n \in Operations :
          /\ Operation(n) \in DOMAIN db.exec.ops
          /\ Start(t, command, step, [Blank EXCEPT !.op = n,
                     !.remote = db.exec.ops[Operation(n)].remote])
          /\ UNCHANGED <<store, copy, provider>>
    BY DEF ForIdentified
  <1> DEFINE remote == db.exec.ops[Operation(n)].remote
             w == [Blank EXCEPT !.op = n, !.remote = remote]
  <1>2. Identifies(provider, Operation(n), remote)
    <2>1. SoundGate(provider, db.exec)
      BY DEF TradingInv, SoundRow
    <2>2. Operation(n)[1] = "operation"
      BY DEF Operation
    <2> QED BY <1>1, <2>1, <2>2, JournalIdentifies
  <1>3. Start(t, command, step, w)
    BY <1>1
  <1> HIDE DEF remote
  <1>4. SameBut(w, Blank, {"op", "remote"}) /\ w.op = n /\ w.remote = remote
    BY BlankIs DEF SameBut, WorkFields
  <1> HIDE DEF w
  <1>5. /\ SoundWork(provider, w) /\ w.op = n /\ w.reconciling = FALSE /\ w.seen = {}
    BY <1>2, <1>4, BlankIs, FS_EmptySet DEF SameBut, WorkFields, SoundWork, SoundAnswers
  <1>6. SoundThread(provider, step, Locals(step, w), {})
    BY <1>5, SharedSound, OrderStepSound DEF Shared, OrderSteps
  <1>7. /\ UNCHANGED <<db, copy, provider>> /\ UNCHANGED <<restarted, gate, settled>>
        /\ alert' \in {"None", "Active", "Acknowledged"}
    BY <1>1 DEF store, TradingInv, Scalars
  <1> QED BY <1>3, <1>6, <1>7, StartMoves

LEMMA RequestCancelKeepsInv ==
  ASSUME TradingInv, NEW t \in Threads, RequestCancel(t) PROVE TradingInv'
  <1> USE AtThread
  <1>1. /\ pc[t] = "cancel" /\ work[t].op \in Operations /\ work[t].reconciling = FALSE
        /\ work[t].seen = {} /\ pc[t] \in OtherSteps
    BY DEF RequestCancel, Placed, OrderSteps, Unclaimed, Phases, Shared, OtherSteps, SoundWork
  <1>2. PICK p \in work[t].remote, step \in {"cancelResult", "uncertain"} :
          /\ \/ provider' = provider
             \/ p \in DOMAIN provider
                /\ provider' = [provider EXCEPT ![p].status = "Canceled"]
          /\ Goto(t, step, work[t])
    BY DEF RequestCancel, OpenOrders
  <1>3. SoundProvider(provider') /\ Grows(provider, provider')
    <2>1. SoundProvider(provider)
      BY DEF TradingInv
    <2>2. CASE provider' = provider
      BY <2>1, <2>2, SameGrows
    <2>3. CASE /\ p \in DOMAIN provider
               /\ provider' = [provider EXCEPT ![p].status = "Canceled"]
      BY <2>1, <2>3, StatusGrows
    <2> QED BY <1>2, <2>2, <2>3
  <1>4. UNCHANGED <<db, copy>> /\ Scalars'
    BY DEF RequestCancel, store, TradingInv, Scalars
  <1>5. SoundWork(provider', work[t])
    BY <1>3, GrowsKeepsWork DEF TradingInv
  <1>6. SoundThread(provider', step, Locals(step, work[t]), {})
    BY <1>1, <1>5, OrderStepSound DEF OrderSteps
  <1> QED BY <1>1, <1>2, <1>3, <1>4, <1>6, GotoMoves

LEMMA CancelLocalKeepsInv ==
  ASSUME TradingInv, NEW t \in Threads, CancelLocalOrder(t) PROVE TradingInv'
  <1> USE AtThread
  <1>1. PICK mine \in copy[t] :
          \/ \E id : Save(t, Cancel(mine.ledger, id), mine.exec, "idle", Blank)
          \/ Return(t, "idle", Blank)
    BY DEF CancelLocalOrder
  <1>2. CASE Return(t, "idle", Blank)
    BY <1>2, BlankSound, ReturnMoves DEF Locals
  <1>3. ASSUME NEW id, Save(t, Cancel(mine.ledger, id), mine.exec, "idle", Blank)
        PROVE  TradingInv'
    <2>1. Keeps(mine.ledger, Cancel(mine.ledger, id))
      BY CancelKeeps
    <2> QED BY <1>3, <2>1, BlankSound, SaveKeptMoves DEF Locals
  <1> QED BY <1>1, <1>2, <1>3

\* The answers to what was asked about one order.
LEMMA AnswersSound ==
  ASSUME NEW P, SoundProvider(P), NEW w, SoundWork(P, w), NEW p \in w.remote,
         NEW answer, DOMAIN answer = AnswerFields, answer.trades \in Nat,
         answer.trades <= P[p].filled, NEW u, u = [w EXCEPT !.seen = {answer}]
  PROVE  SoundWork(P, u) /\ u.reconciling = w.reconciling
  <1> DEFINE seen == {answer}
  <1>1. u = [w EXCEPT !.seen = seen] /\ DOMAIN w = WorkFields
    BY DEF SoundWork
  <1> HIDE DEF seen
  <1>2. SameBut(u, w, {"seen"}) /\ u.seen = seen
    BY <1>1 DEF SameBut, WorkFields
  <1>3. /\ DOMAIN u = WorkFields /\ u.op = w.op /\ u.remote = w.remote
        /\ u.reconciling = w.reconciling /\ u.listing = w.listing
        /\ u.snapshot = w.snapshot /\ u.todo = w.todo
    BY <1>2 DEF SameBut, WorkFields
  <1>4. SoundAnswers(P, u)
    <2>1. \A q \in u.remote : q = p
      BY <1>3 DEF SoundWork, Identifies
    <2> QED BY <1>2, <2>1 DEF SoundAnswers, seen
  <1> QED BY <1>3, <1>4 DEF SoundWork

LEMMA FetchOrderKeepsInv ==
  ASSUME TradingInv, NEW t \in Threads, FetchOrder(t) PROVE TradingInv'
  <1> USE AtThread
  <1>1. /\ pc[t] \in OtherSteps /\ UNCHANGED <<db, copy, provider>> /\ Scalars'
    BY DEF FetchOrder, OtherSteps, store, TradingInv, Scalars
  <1>2. ASSUME NEW p \in work[t].remote, NEW trades \in {0, 1}, NEW step \in Shared,
               Goto(t, step, [work[t] EXCEPT !.seen =
                                {[filled |-> provider[p].filled, status |-> provider[p].status,
                                  trades |-> trades * provider[p].filled]}])
        PROVE  TradingInv'
    <2> DEFINE answer == [filled |-> provider[p].filled, status |-> provider[p].status,
                          trades |-> trades * provider[p].filled]
               w == [work[t] EXCEPT !.seen = {answer}]
    <2>1. SoundProvider(provider) /\ p \in DOMAIN provider
      BY DEF TradingInv, SoundWork, Identifies, Created
    <2>2. provider[p].filled \in Nat
      BY <2>1, RecordsAre
    <2>3. /\ DOMAIN answer = AnswerFields /\ answer.trades \in Nat
          /\ answer.trades <= provider[p].filled
      BY <2>2 DEF AnswerFields
    <2> HIDE DEF answer
    <2>4. SoundWork(provider, w)
      BY <2>1, <2>3, AnswersSound
    <2>5. Goto(t, step, w)
      BY <1>2 DEF answer
    <2> HIDE DEF w
    <2>6. SoundThread(provider, step, Locals(step, w), {})
      BY <2>4, SharedSound
    <2> QED BY <1>1, <2>5, <2>6, AskMoves
  <1>3. ASSUME NEW step \in {"unresolved", "idle"}, Goto(t, step, work[t])
        PROVE  TradingInv'
    <2>1. SoundThread(provider, step, Locals(step, work[t]), {})
      BY OnwardSound, SharedSound DEF Shared
    <2> QED BY <1>1, <1>3, <2>1, AskMoves
  <1> QED BY <1>2, <1>3 DEF FetchOrder, Shared

LEMMA FetchTradesKeepsInv ==
  ASSUME TradingInv, NEW t \in Threads, FetchTrades(t) PROVE TradingInv'
  <1> USE AtThread
  <1>1. /\ pc[t] \in OtherSteps /\ UNCHANGED <<db, copy, provider>> /\ Scalars'
    BY DEF FetchTrades, OtherSteps, store, TradingInv, Scalars
  <1>2. PICK p \in work[t].remote, known \in work[t].seen :
          \E trades \in {known.trades, provider[p].filled} :
            Goto(t, "sync", [work[t] EXCEPT !.seen = {[known EXCEPT !.trades = trades]}])
    BY DEF FetchTrades
  <1>3. PICK trades \in {known.trades, provider[p].filled} :
          Goto(t, "sync", [work[t] EXCEPT !.seen = {[known EXCEPT !.trades = trades]}])
    BY <1>2
  <1> DEFINE answer == [known EXCEPT !.trades = trades]
             w == [work[t] EXCEPT !.seen = {answer}]
  <1>4. SoundProvider(provider) /\ p \in DOMAIN provider
    BY DEF TradingInv, SoundWork, Identifies, Created
  <1>5. provider[p].filled \in Nat
    BY <1>4, RecordsAre
  <1>6. /\ DOMAIN known = AnswerFields /\ known.trades \in Nat
        /\ known.trades <= provider[p].filled
    BY DEF SoundWork, SoundAnswers
  <1>7. /\ DOMAIN answer = AnswerFields /\ answer.trades \in Nat
        /\ answer.trades <= provider[p].filled
    BY <1>5, <1>6 DEF AnswerFields
  <1> HIDE DEF answer
  <1>8. SoundWork(provider, w)
    BY <1>4, <1>7, AnswersSound
  <1>9. Goto(t, "sync", w)
    BY <1>3 DEF answer
  <1> HIDE DEF w
  <1>10. SoundThread(provider, "sync", Locals("sync", w), {})
    BY <1>8, SharedSound DEF Shared
  <1> QED BY <1>1, <1>9, <1>10, AskMoves

-------------------------------------------------------------------------------
\* One lemma per action: what the provider answered, merged

\* The trades that are new to the ledger are trades of the provider's order.
LEMMA MergeSound ==
  ASSUME NEW P, SoundProvider(P), NEW r, SoundRow(P, r), NEW o, NEW p, Created(P, o, p),
         NEW n \in Nat, n <= P[p].filled, NEW id, id \in DOMAIN r.ledger.orders,
         NEW k, k = RecordTrades(r.ledger, o, p, id, NewTrades(r.ledger, o, p, n))
  PROVE  /\ Sound(k) /\ Distinct(k.fills) /\ Traded(P, k.fills) /\ id \in DOMAIN k.orders
         /\ Pending(r.ledger) => Pending(k)
  <1> DEFINE S == NewTrades(r.ledger, o, p, n)
  <1>1. IsFiniteSet(S) /\ S \subseteq 1 .. n
    <2>1. S \subseteq 1 .. n
      BY DEF NewTrades
    <2>2. IsFiniteSet(1 .. n)
      BY FS_Interval
    <2> QED BY <2>1, <2>2, FS_Subset
  <1>2. \A x \in S : \A j \in DOMAIN r.ledger.fills : r.ledger.fills[j].trade # <<o, p, x>>
    BY DEF NewTrades
  <1> HIDE DEF S
  <1>3. Sound(r.ledger) /\ Distinct(r.ledger.fills) /\ Traded(P, r.ledger.fills)
    BY DEF SoundRow
  <1>4. k = RecordTrades(r.ledger, o, p, id, S)
    BY DEF S
  <1>5. /\ Sound(k) /\ DOMAIN k.orders = DOMAIN r.ledger.orders
        /\ Pending(r.ledger) => Pending(k)
        /\ ComeFrom(k.fills, r.ledger.fills, o, p, S) /\ Distinct(k.fills)
    <2> DEFINE l == r.ledger
    <2>1. id \in DOMAIN l.orders /\ IsFiniteSet(S) /\ Sound(l) /\ Distinct(l.fills)
      BY <1>1, <1>3
    <2>2. \A x \in S : \A j \in DOMAIN l.fills : l.fills[j].trade # <<o, p, x>>
      BY <1>2
    <2> HIDE DEF l
    <2> DEFINE m == RecordTrades(l, o, p, id, S)
    <2>3. /\ Sound(m) /\ DOMAIN m.orders = DOMAIN l.orders
          /\ Pending(l) => Pending(m)
          /\ ComeFrom(m.fills, l.fills, o, p, S) /\ Distinct(m.fills)
      BY <2>1, <2>2, RecordTradesKeeps
    <2>4. k = m
      BY <1>4 DEF l
    <2> HIDE DEF m
    <2> QED BY <2>3, <2>4 DEF l
  <1>6. Traded(P, k.fills)
    <2> SUFFICES ASSUME NEW i \in DOMAIN k.fills
                 PROVE  \E q \in DOMAIN P : \E j \in 1 .. P[q].filled :
                          k.fills[i].trade = <<Operation(P[q].op), q, j>>
      BY DEF Traded
    <2>1. CASE \E j \in DOMAIN r.ledger.fills : k.fills[i].trade = r.ledger.fills[j].trade
      BY <1>3, <2>1 DEF Traded
    <2>2. ASSUME NEW x \in S, k.fills[i].trade = <<o, p, x>>
          PROVE  \E q \in DOMAIN P : \E j \in 1 .. P[q].filled :
                   k.fills[i].trade = <<Operation(P[q].op), q, j>>
      <3>1. p \in DOMAIN P /\ Operation(P[p].op) = o
        BY DEF Created
      <3>2. P[p].filled \in Nat
        BY <3>1, RecordsAre
      <3>3. x \in 1 .. P[p].filled
        BY <1>1, <3>2
      <3> QED BY <2>2, <3>1, <3>3
    <2> QED BY <1>5, <2>1, <2>2 DEF ComeFrom
  <1> QED BY <1>5, <1>6

LEMMA SyncKeepsInv ==
  ASSUME TradingInv, NEW t \in Threads, SyncProviderOrder(t) PROVE TradingInv'
  <1> USE AtThread
  <1> DEFINE o == Operation(work[t].op)
             failed == IF work[t].reconciling THEN "require" ELSE "idle"
  <1>1. SoundThread(provider, failed, Locals(failed, work[t]), {})
    BY OnwardSound DEF Phases
  <1>2. SoundThread(provider, Continue(work[t]), Locals(Continue(work[t]), work[t]), {})
    <2> DEFINE step == Continue(work[t])
    <2>1. step = "idle" \/ (work[t].reconciling /\ step \in Phases)
      BY DEF Continue, Phases
    <2> HIDE DEF step
    <2>2. SoundThread(provider, step, Locals(step, work[t]), {})
      BY <2>1, OnwardSound
    <2> QED BY <2>2 DEF step
  <1>3. SoundThread(provider, "untracked", Locals("untracked", work[t]), {})
    BY SharedSound DEF Shared
  <1>4. PICK mine \in copy[t], p \in work[t].remote, remote \in work[t].seen :
          \/ \E id \in DOMAIN mine.ledger.orders : MergeOrder(t, mine, id, p, remote)
          \/ Return(t, failed, work[t])
    BY DEF SyncProviderOrder
  <1>5. /\ SoundProvider(provider) /\ Created(provider, o, p)
        /\ remote.trades \in Nat /\ remote.trades <= provider[p].filled
        /\ SoundRow(provider, mine)
    BY DEF TradingInv, SoundWork, Identifies, SoundAnswers
  <1>6. CASE Return(t, failed, work[t])
    BY <1>1, <1>6, ReturnMoves
  <1>7. ASSUME NEW id \in DOMAIN mine.ledger.orders, MergeOrder(t, mine, id, p, remote)
        PROVE  TradingInv'
    <2> DEFINE filled == RecordTrades(mine.ledger, o, p, id,
                                      NewTrades(mine.ledger, o, p, remote.trades))
               ended == Terminate(filled, id, remote.status)
               exec == IF remote.status = "Open" THEN mine.exec
                                                 ELSE ResolveUncertainty(mine.exec, p)
               next == Continue(work[t])
    <2>1. /\ Sound(filled) /\ Distinct(filled.fills) /\ Traded(provider, filled.fills)
          /\ id \in DOMAIN filled.orders
      BY <1>5, MergeSound
    <2>2. \/ Return(t, "untracked", work[t])
          \/ Save(t, RequireReconciliation(mine.ledger), Block(mine.exec), failed, work[t])
          \/ Save(t, RequireReconciliation(filled), Block(mine.exec), failed, work[t])
          \/ Save(t, ended, exec, next, work[t])
      BY <1>7, Zenon DEF MergeOrder
    <2> HIDE DEF filled, failed, next
    <2>3. SoundGate(provider, Block(mine.exec)) /\ SoundGate(provider, exec)
      BY FlagsSound, EvidenceSound
    <2>4. CASE Return(t, "untracked", work[t])
      BY <1>3, <2>4, ReturnMoves
    <2>5. CASE Save(t, RequireReconciliation(mine.ledger), Block(mine.exec), failed, work[t])
      <3>1. Keeps(mine.ledger, RequireReconciliation(mine.ledger))
        BY RequireKeeps
      <3> QED BY <1>1, <2>3, <2>5, <3>1, SaveKeptMoves DEF failed
    <2>6. CASE Save(t, RequireReconciliation(filled), Block(mine.exec), failed, work[t])
      <3>1. Keeps(filled, RequireReconciliation(filled))
        BY <2>1, RequireKeeps
      <3> DEFINE l == RequireReconciliation(filled)
      <3>2. Sound(l) /\ Distinct(l.fills) /\ Traded(provider, l.fills)
        BY <2>1, <3>1 DEF Keeps
      <3> HIDE DEF l
      <3>3. Save(t, l, Block(mine.exec), failed, work[t])
        BY <2>6 DEF l
      <3> QED BY <1>1, <2>3, <3>2, <3>3, SaveMoves DEF failed
    <2>7. CASE Save(t, ended, exec, next, work[t])
      <3>1. Keeps(filled, ended)
        BY <2>1, TerminateKeeps
      <3> HIDE DEF ended, exec
      <3>2. Sound(ended) /\ Distinct(ended.fills) /\ Traded(provider, ended.fills)
        BY <2>1, <3>1 DEF Keeps
      <3> QED BY <1>2, <2>3, <2>7, <3>2, SaveMoves DEF next
    <2> QED BY <2>2, <2>4, <2>5, <2>6, <2>7
  <1> QED BY <1>4, <1>6, <1>7

LEMMA LoseOrderKeepsInv ==
  ASSUME TradingInv, NEW t \in Threads, LoseOrder(t) PROVE TradingInv'
  <1> USE AtThread
  <1> DEFINE guarded == work[t].guarded \cup work[t].local
             w == [work[t] EXCEPT !.guarded = guarded]
             next == IF pc[t] = "unresolved" THEN Continue(work[t])
                     ELSE IF work[t].reconciling THEN "require" ELSE "idle"
  <1>1. PICK mine \in copy[t], p \in work[t].remote :
          Save(t, RequireReconciliation(mine.ledger), LoseTrack(mine.exec, p), next, w)
    BY Zenon DEF LoseOrder
  <1> HIDE DEF guarded
  <1>2. SameBut(w, work[t], {"guarded"})
    BY DEF SoundWork, SameBut, WorkFields
  <1>3. SoundWork(provider, w) /\ w.reconciling = work[t].reconciling
    BY <1>2, GuardedAside
  <1> HIDE DEF w
  <1>4. next = "idle" \/ (w.reconciling /\ next \in Phases)
    BY <1>3 DEF Continue, Phases
  <1> HIDE DEF next
  <1>5. SoundThread(provider, next, Locals(next, w), {})
    BY <1>3, <1>4, OnwardSound
  <1>6. SoundGate(provider, LoseTrack(mine.exec, p))
    BY LoseSound
  <1>7. Keeps(mine.ledger, RequireReconciliation(mine.ledger))
    BY RequireKeeps
  <1> QED BY <1>1, <1>5, <1>6, <1>7, SaveKeptMoves

LEMMA RequireAccountKeepsInv ==
  ASSUME TradingInv, NEW t \in Threads, RequireAccountReconciliation(t) PROVE TradingInv'
  <1> USE AtThread
  <1> DEFINE guarded == work[t].guarded \cup work[t].local
             w == [work[t] EXCEPT !.guarded = guarded]
             next == Continue(work[t])
  <1>1. PICK mine \in copy[t] :
          Save(t, RequireReconciliation(mine.ledger), Settle(mine.exec, FALSE), next, w)
    BY Zenon DEF RequireAccountReconciliation
  <1> HIDE DEF guarded
  <1>2. SameBut(w, work[t], {"guarded"})
    BY DEF SoundWork, SameBut, WorkFields
  <1>3. SoundWork(provider, w) /\ w.reconciling = work[t].reconciling
    BY <1>2, GuardedAside
  <1> HIDE DEF w
  <1>4. next = "idle" \/ (w.reconciling /\ next \in Phases)
    BY <1>3 DEF Continue, Phases
  <1> HIDE DEF next
  <1>5. SoundThread(provider, next, Locals(next, w), {})
    BY <1>3, <1>4, OnwardSound
  <1>6. SoundGate(provider, Settle(mine.exec, FALSE))
    BY FlagsSound
  <1>7. Keeps(mine.ledger, RequireReconciliation(mine.ledger))
    BY RequireKeeps
  <1> QED BY <1>1, <1>5, <1>6, <1>7, SaveKeptMoves

-------------------------------------------------------------------------------
\* One lemma per action: freezing and recovering the Host

\* A command that carries nothing.
LEMMA BlankServes ==
  ASSUME NEW P, NEW step \in {"freeze", "recover", "unfreeze", "absence", "idle"}
  PROVE  SoundThread(P, step, Locals(step, Blank), {})
  <1>1. SoundWork(P, Blank) /\ Blank.reconciling = FALSE
    BY BlankSound, BlankIs DEF SoundThread
  <1>2. Placed(step, Blank) /\ step \in StoreSteps \cup OtherSteps
    BY <1>1 DEF Placed, Unclaimed, Phases, Shared, OrderSteps, StoreSteps, GatedSteps,
       OtherSteps
  <1> QED BY <1>1, <1>2, NextStep

LEMMA FreezeCommandsKeepInv ==
  ASSUME TradingInv, NEW t \in Threads,
         FreezeAll(t) \/ Acknowledge(t) \/ RecoverHost(t)
  PROVE  TradingInv'
  <1>1. PICK command \in Commands, step \in {"freeze", "idle", "recover"} :
          Start(t, command, step, Blank)
    BY DEF FreezeAll, Acknowledge, RecoverHost, Commands
  <1>2. /\ UNCHANGED <<db, copy, provider>> /\ UNCHANGED <<restarted, gate, settled>>
        /\ alert' \in {"None", "Active", "Acknowledged"}
    BY DEF FreezeAll, Acknowledge, RecoverHost, store, TradingInv, Scalars
  <1>3. SoundThread(provider, step, Locals(step, Blank), {})
    BY BlankServes
  <1> QED BY <1>1, <1>2, <1>3, StartMoves

LEMMA FreezeAccountKeepsInv ==
  ASSUME TradingInv, NEW t \in Threads, FreezeAccount(t) PROVE TradingInv'
  <1> USE AtThread
  <1>1. PICK mine \in copy[t] :
          Save(t, RequireReconciliation(mine.ledger), Freeze(mine.exec), "idle", Blank)
    BY DEF FreezeAccount
  <1>2. SoundGate(provider, Freeze(mine.exec))
    BY FlagsSound
  <1>3. Keeps(mine.ledger, RequireReconciliation(mine.ledger))
    BY RequireKeeps
  <1> QED BY <1>1, <1>2, <1>3, BlankServes, SaveKeptMoves

LEMMA RecoverAccountKeepsInv ==
  ASSUME TradingInv, NEW t \in Threads, RecoverAccount(t) PROVE TradingInv'
  <1> USE AtThread
  <1>1. PICK mine \in copy[t] :
          \/ /\ ~HasUncertainty(mine.exec)
             /\ Save(t, mine.ledger, Unfreeze(mine.exec), "unfreeze", Blank)
          \/ Return(t, "idle", Blank)
    BY DEF RecoverAccount, CanRecover
  <1>2. CASE Return(t, "idle", Blank)
    BY <1>2, BlankServes, ReturnMoves
  <1>3. CASE /\ ~HasUncertainty(mine.exec)
             /\ Save(t, mine.ledger, Unfreeze(mine.exec), "unfreeze", Blank)
    <2>1. SoundGate(provider, Unfreeze(mine.exec))
      BY <1>3, FlagsSound
    <2>2. Keeps(mine.ledger, mine.ledger)
      BY DEF Keeps
    <2> QED BY <1>3, <2>1, <2>2, BlankServes, SaveKeptMoves
  <1> QED BY <1>1, <1>2, <1>3

LEMMA RecoverAlertKeepsInv ==
  ASSUME TradingInv, NEW t \in Threads, RecoverAlert(t) PROVE TradingInv'
  <1>1. /\ pc[t] \in OtherSteps /\ Goto(t, "idle", Blank) /\ UNCHANGED <<db, copy, provider>>
        /\ Scalars'
    BY DEF RecoverAlert, OtherSteps, TradingInv, Scalars
  <1> QED BY <1>1, BlankServes, AskMoves

-------------------------------------------------------------------------------
\* One lemma per action: reconciling the account

\* The cash of the provider is a number.
LEMMA FilledIsInt ==
  ASSUME SoundProvider(provider), NEW side PROVE FilledBy(side) \in Int
  <1> DEFINE S == {p \in DOMAIN provider : RequestOf(p).side = side}
             w == [p \in DOMAIN provider |-> provider[p].filled]
             Solves(f) == f = [s \in SUBSET S |->
                            IF s = {} THEN 0
                            ELSE provider[Pick(s)].filled + f[s \ {Pick(s)}]]
             g == CHOOSE g : Solves(g)
  <1>1. IsFiniteSet(S)
    <2>1. S \subseteq DOMAIN provider
      OBVIOUS
    <2> QED BY <2>1, OrdersFinite, FS_Subset
  <1>2. S \subseteq DOMAIN provider /\ \A p \in S : w[p] = provider[p].filled
    OBVIOUS
  <1>3. \A p \in S : w[p] \in Int
    BY <1>2, RecordsAre
  <1>4. FilledBy(side) = g[S]
    BY Zenon DEF FilledBy, MapThenSumSet, MapThenFoldSet, Pick
  <1> HIDE DEF S, w
  <1>5. \A f : Totals(w, S, f) <=> Solves(f)
    <2> SUFFICES ASSUME NEW f
                 PROVE  [s \in SUBSET S |->
                           IF s = {} THEN 0 ELSE w[Pick(s)] + f[s \ {Pick(s)}]]
                        = [s \in SUBSET S |->
                           IF s = {} THEN 0
                           ELSE provider[Pick(s)].filled + f[s \ {Pick(s)}]]
      BY Zenon DEF Totals
    <2>1. \A s \in SUBSET S : s # {} => w[Pick(s)] = provider[Pick(s)].filled
      BY <1>2, PickIn
    <2> QED BY <2>1
  <1> HIDE DEF Solves
  <1>6. PICK f : Totals(w, S, f)
    BY <1>1, TotalsExist
  <1>7. Totals(w, S, g)
    BY <1>5, <1>6
  <1> HIDE DEF g
  <1>8. g[S] \in Int
    BY <1>1, <1>3, <1>7, TotalsType
  <1> QED BY <1>4, <1>8

LEMMA ReconcileCommandKeepsInv ==
  ASSUME TradingInv, NEW t \in Threads, ReconcileAccount(t) PROVE TradingInv'
  <1> DEFINE w == [Blank EXCEPT !.reconciling = TRUE]
  <1>1. /\ Start(t, "Reconcile", "list", w) /\ UNCHANGED <<db, copy, provider>>
        /\ UNCHANGED <<restarted, gate, settled>>
        /\ alert' \in {"None", "Active", "Acknowledged"} /\ "Reconcile" \in Commands
    BY DEF ReconcileAccount, store, TradingInv, Scalars, Commands
  <1>2. SameBut(w, Blank, {"reconciling"}) /\ w.reconciling = TRUE
    BY BlankIs DEF SameBut, WorkFields
  <1> HIDE DEF w
  <1>3. SoundWork(provider, w)
    BY <1>2, BlankIs, FS_EmptySet
    DEF SameBut, WorkFields, SoundWork, SoundAnswers, Identifies
  <1>4. Placed("list", w) /\ "list" \in OtherSteps
    BY <1>2 DEF Placed, Unclaimed, Phases, Shared, OrderSteps, OtherSteps
  <1>5. SoundThread(provider, "list", Locals("list", w), {})
    BY <1>3, <1>4, NextStep
  <1> QED BY <1>1, <1>5, StartMoves

LEMMA ListKeepsInv ==
  ASSUME TradingInv, NEW t \in Threads, ListOpenOrders(t) PROVE TradingInv'
  <1> USE AtThread
  <1> DEFINE listing == {[id |-> p, filled |-> provider[p].filled] : p \in OpenOrders}
             w == [work[t] EXCEPT !.listing = listing]
  <1>1. /\ pc[t] \in OtherSteps /\ UNCHANGED <<db, copy, provider>> /\ Scalars'
        /\ work[t].reconciling = TRUE
    BY DEF ListOpenOrders, OtherSteps, store, TradingInv, Scalars, Placed, Unclaimed,
       SoundWork
  <1>2. Goto(t, "balance", w) \/ Goto(t, "idle", Blank)
    BY DEF ListOpenOrders
  <1>3. IsFiniteSet(listing) /\ \A entry \in listing : entry.id \in DOMAIN provider
    <2>1. IsFiniteSet(DOMAIN provider)
      BY OrdersFinite DEF TradingInv
    <2>2. OpenOrders \subseteq DOMAIN provider
      BY DEF OpenOrders
    <2>3. IsFiniteSet(OpenOrders)
      BY <2>1, <2>2, FS_Subset
    <2>4. IsFiniteSet(listing)
      <3> DEFINE f == [p \in OpenOrders |-> [id |-> p, filled |-> provider[p].filled]]
      <3>1. f \in Surjection(OpenOrders, listing)
        BY DEF Surjection
      <3> HIDE DEF f, listing
      <3> QED BY <2>3, <3>1, FS_Surjection
    <2>5. \A entry \in listing : entry.id \in OpenOrders
      OBVIOUS
    <2> QED BY <2>2, <2>4, <2>5
  <1> HIDE DEF listing
  <1>4. SameBut(w, work[t], {"listing"}) /\ w.listing = listing
    BY DEF SoundWork, SameBut, WorkFields
  <1> HIDE DEF w
  <1>5. /\ DOMAIN w = WorkFields /\ w.op = work[t].op /\ w.remote = work[t].remote
        /\ w.seen = work[t].seen /\ w.reconciling = TRUE /\ w.listing = listing
        /\ w.snapshot = work[t].snapshot /\ w.todo = work[t].todo
    BY <1>1, <1>4 DEF SameBut, WorkFields
  <1>6. SoundWork(provider, w)
    BY <1>3, <1>5 DEF SoundWork, SoundAnswers
  <1>7. Placed("balance", w) /\ "balance" \in OtherSteps
    BY <1>5 DEF Placed, Unclaimed, Phases, Shared, OrderSteps, OtherSteps
  <1>8. SoundThread(provider, "balance", Locals("balance", w), {})
    BY <1>6, <1>7, NextStep
  <1> QED BY <1>1, <1>2, <1>8, BlankServes, AskMoves

LEMMA BalanceKeepsInv ==
  ASSUME TradingInv, NEW t \in Threads, FetchBalance(t) PROVE TradingInv'
  <1> USE AtThread
  <1> DEFINE snapshot == {Snapshot}
             w == [work[t] EXCEPT !.snapshot = snapshot]
  <1>1. /\ pc[t] \in OtherSteps /\ UNCHANGED <<db, copy, provider>> /\ Scalars'
        /\ work[t].reconciling = TRUE
    BY DEF FetchBalance, OtherSteps, store, TradingInv, Scalars, Placed, Unclaimed,
       SoundWork
  <1>2. Goto(t, "claim", w) \/ Goto(t, "idle", Blank)
    BY DEF FetchBalance
  <1>3. \A s \in snapshot : s.cash \in Int
    <2>1. FilledBy("Buy") \in Int /\ FilledBy("Sell") \in Int
      BY FilledIsInt DEF TradingInv
    <2>2. ProviderCash \in Int
      BY <2>1, TradingAssumption DEF ProviderCash
    <2> QED BY <2>2 DEF Snapshot
  <1> HIDE DEF snapshot
  <1>4. SameBut(w, work[t], {"snapshot"}) /\ w.snapshot = snapshot
    BY DEF SoundWork, SameBut, WorkFields
  <1> HIDE DEF w
  <1>5. /\ DOMAIN w = WorkFields /\ w.op = work[t].op /\ w.remote = work[t].remote
        /\ w.seen = work[t].seen /\ w.reconciling = TRUE /\ w.listing = work[t].listing
        /\ w.snapshot = snapshot /\ w.todo = work[t].todo
    BY <1>1, <1>4 DEF SameBut, WorkFields
  <1>6. SoundWork(provider, w)
    BY <1>3, <1>5 DEF SoundWork, SoundAnswers
  <1>7. Placed("claim", w) /\ "claim" \in OtherSteps
    BY <1>5 DEF Placed, Unclaimed, Phases, Shared, OrderSteps, OtherSteps
  <1>8. SoundThread(provider, "claim", Locals("claim", w), {})
    BY <1>6, <1>7, NextStep
  <1> QED BY <1>1, <1>2, <1>8, BlankServes, AskMoves

LEMMA MarkerSound ==
  ASSUME NEW P, NEW r, SoundRow(P, r), NEW marker \in BOOLEAN
  PROVE  SoundRow(P, [r EXCEPT !.marker = marker])
  <1> DEFINE k == [r EXCEPT !.marker = marker]
  <1>1. k = [ledger |-> r.ledger, exec |-> r.exec, marker |-> marker]
    BY DEF SoundRow
  <1> HIDE DEF k
  <1> QED BY <1>1 DEF SoundRow, k

LEMMA ClaimKeepsInv ==
  ASSUME TradingInv, NEW t \in Threads, ClaimGate(t) PROVE TradingInv'
  <1> USE AtThread
  <1>1. /\ pc[t] = "claim" /\ work[t].reconciling = TRUE /\ UNCHANGED <<copy, provider>>
        /\ copy[t] = {}
    BY DEF ClaimGate, Placed, Unclaimed, TradingInv, SoundThread, StoreSteps, GatedSteps,
       OtherSteps, SoundWork
  <1>2. PICK step \in {"reconcile", "idle"} : Goto(t, step, work[t])
    <2>1. Goto(t, "reconcile", work[t]) \/ Goto(t, "idle", Blank)
      BY DEF ClaimGate
    <2>2. Goto(t, "idle", Blank) => Goto(t, "idle", work[t])
      BY DEF Goto
    <2> QED BY <2>1, <2>2
  <1>3. SoundRow(provider, db')
    <2>1. SoundRow(provider, db)
      BY DEF TradingInv
    <2>2. db' = [db EXCEPT !.marker = TRUE] \/ db' = db
      BY DEF ClaimGate
    <2>3. SoundRow(provider, [db EXCEPT !.marker = TRUE])
      BY <2>1, MarkerSound
    <2> QED BY <2>1, <2>2, <2>3
  <1>4. Scalars'
    BY DEF ClaimGate, TradingInv, Scalars
  <1>5. SoundThread(provider, step, Locals(step, work[t]), {})
    BY <1>1, OnwardSound DEF Phases
  <1>6. SoundProvider(provider) /\ Grows(provider, provider)
    BY SameGrows DEF TradingInv
  <1> DEFINE w == work[t]
  <1>7. /\ SoundProvider(provider') /\ Grows(provider, provider') /\ SoundRow(provider', db')
        /\ SoundThread(provider', step, Locals(step, w), {}) /\ Goto(t, step, w)
        /\ copy' = copy /\ copy[t] = {}
    BY <1>1, <1>2, <1>3, <1>5, <1>6
  <1> HIDE DEF w
  <1> QED BY <1>4, <1>7, ThreadMoves

LEMMA SnapshotKeepsInv ==
  ASSUME TradingInv, NEW t \in Threads, RecordSnapshot(t) PROVE TradingInv'
  <1> USE AtThread
  <1>1. PICK mine \in copy[t], snapshot \in work[t].snapshot :
          Save(t, Reconcile(mine.ledger, snapshot),
               Settle(mine.exec, Matches(mine.ledger, snapshot)), "vanished", work[t])
    BY DEF RecordSnapshot
  <1> DEFINE l == Reconcile(mine.ledger, snapshot)
             x == Settle(mine.exec, Matches(mine.ledger, snapshot))
  <1>2. Sound(l) /\ l.fills = mine.ledger.fills
    BY ReconcileSound DEF SoundWork
  <1>3. Matches(mine.ledger, snapshot) \in BOOLEAN
    BY DEF Matches
  <1>4. SoundGate(provider, x)
    BY <1>3, FlagsSound
  <1> HIDE DEF l, x
  <1>5. Distinct(l.fills) /\ Traded(provider, l.fills)
    BY <1>2 DEF SoundRow
  <1>6. work[t].reconciling = TRUE
    BY DEF RecordSnapshot, Placed, Phases, SoundWork
  <1>7. SoundThread(provider, "vanished", Locals("vanished", work[t]), {})
    BY <1>6, OnwardSound DEF Phases
  <1>8. Save(t, l, x, "vanished", work[t])
    BY <1>1 DEF l, x
  <1> QED BY <1>2, <1>4, <1>5, <1>7, <1>8, SaveMoves

LEMMA VanishedKeepsInv ==
  ASSUME TradingInv, NEW t \in Threads, FindVanished(t) PROVE TradingInv'
  <1> USE AtThread
  <1> DEFINE ops == db.exec.ops
             lost == Vanished(db.ledger, db.exec, work[t].listing)
             todo == {[op |-> o[2], local |-> ops[o].local, remote |-> ops[o].remote] :
                        o \in lost}
             w == [work[t] EXCEPT !.todo = todo]
  <1>1. /\ pc[t] \in OtherSteps /\ UNCHANGED <<db, copy, provider>> /\ Scalars'
        /\ work[t].reconciling = TRUE
    BY DEF FindVanished, OtherSteps, store, TradingInv, Scalars, Placed, Phases, SoundWork
  <1>2. Goto(t, Continue(w), w)
    BY DEF FindVanished
  <1>3. \A item \in todo : Identifies(provider, Operation(item.op), item.remote)
    <2> SUFFICES ASSUME NEW o \in lost
                 PROVE  Identifies(provider, Operation(o[2]), ops[o].remote)
      OBVIOUS
    <2>1. o \in DOMAIN ops /\ ops[o].local # {}
      BY DEF Vanished
    <2>2. Identifies(provider, o, ops[o].remote) /\ \E n \in Operations : o = Operation(n)
      BY <2>1, JournalIdentifies DEF TradingInv, SoundRow
    <2>3. Operation(o[2]) = o
      BY <2>2 DEF Operation
    <2> QED BY <2>2, <2>3
  <1> HIDE DEF todo
  <1>4. SameBut(w, work[t], {"todo"}) /\ w.todo = todo
    BY DEF SoundWork, SameBut, WorkFields
  <1> HIDE DEF w
  <1>5. /\ DOMAIN w = WorkFields /\ w.op = work[t].op /\ w.remote = work[t].remote
        /\ w.seen = work[t].seen /\ w.reconciling = TRUE /\ w.listing = work[t].listing
        /\ w.snapshot = work[t].snapshot /\ w.todo = todo
    BY <1>1, <1>4 DEF SameBut, WorkFields
  <1>6. SoundWork(provider, w)
    BY <1>3, <1>5 DEF SoundWork, SoundAnswers
  <1> DEFINE next == Continue(w)
  <1>7. w.reconciling /\ next \in Phases
    BY <1>5 DEF Continue, Phases
  <1>8. Goto(t, next, w)
    BY <1>2
  <1> HIDE DEF next
  <1>9. SoundThread(provider, next, Locals(next, w), {})
    BY <1>6, <1>7, OnwardSound
  <1> QED BY <1>1, <1>8, <1>9, AskMoves

LEMMA ResolveNextKeepsInv ==
  ASSUME TradingInv, NEW t \in Threads, ResolveNext(t) PROVE TradingInv'
  <1> USE AtThread
  <1>1. PICK item \in work[t].todo :
          Goto(t, "fetch", [work[t] EXCEPT !.todo = @ \ {item}, !.op = item.op,
                              !.local = item.local, !.remote = item.remote, !.seen = {}])
    BY DEF ResolveNext
  <1> DEFINE todo == work[t].todo \ {item}
             op == item.op
             local == item.local
             remote == item.remote
             w == [work[t] EXCEPT !.todo = todo, !.op = op, !.local = local,
                                  !.remote = remote, !.seen = {}]
  <1>2. /\ pc[t] \in OtherSteps /\ UNCHANGED <<db, copy, provider>> /\ Scalars'
    BY DEF ResolveNext, OtherSteps, store, TradingInv, Scalars
  <1>3. Goto(t, "fetch", w)
    BY <1>1, Zenon
  <1>4. Identifies(provider, Operation(op), remote)
    BY DEF SoundWork
  <1>5. \A other \in todo : Identifies(provider, Operation(other.op), other.remote)
    BY DEF SoundWork
  <1> HIDE DEF todo, op, local, remote
  <1>6. /\ SameBut(w, work[t], {"todo", "op", "local", "remote", "seen"})
        /\ w.todo = todo /\ w.op = op /\ w.remote = remote /\ w.seen = {}
    BY DEF SoundWork, SameBut, WorkFields
  <1> HIDE DEF w
  <1>7. /\ DOMAIN w = WorkFields /\ w.reconciling = work[t].reconciling
        /\ w.listing = work[t].listing /\ w.snapshot = work[t].snapshot
    BY <1>6 DEF SameBut, WorkFields
  <1>8. SoundWork(provider, w)
    BY <1>4, <1>5, <1>6, <1>7 DEF SoundWork, SoundAnswers
  <1>9. SoundThread(provider, "fetch", Locals("fetch", w), {})
    BY <1>8, SharedSound DEF Shared
  <1> QED BY <1>2, <1>3, <1>9, AskMoves

\* What is made of a loaded ledger by importing entries of the listing, and then by
\* the sweep.
LEMMA ImportedKeeps ==
  ASSUME TradingInv, NEW t \in Threads, NEW mine \in copy[t],
         NEW entries, entries \subseteq work[t].listing
  PROVE  Keeps(mine.ledger, ImportUnmapped(mine.ledger, mine.exec, entries))
  <1> USE AtThread
  <1>1. IsFiniteSet(entries)
    BY FS_Subset DEF SoundWork
  <1>2. \A entry \in entries : DOMAIN RequestOf(entry.id) = OrderFields
    <2>1. \A p \in DOMAIN provider : provider[p].op \in Operations
      BY RecordsAre DEF TradingInv
    <2>2. \A entry \in entries : entry.id \in DOMAIN provider
      BY DEF SoundWork
    <2> QED BY <2>1, <2>2, TradingAssumption DEF RequestOf, OrderFields
  <1> QED BY <1>1, <1>2, ImportsKeep

LEMMA SweptKeeps ==
  ASSUME TradingInv, NEW t \in Threads, NEW mine \in copy[t], NEW active
  PROVE  Keeps(mine.ledger,
               CancelMissing(ImportUnmapped(mine.ledger, mine.exec, work[t].listing), active))
  <1> DEFINE all == ImportUnmapped(mine.ledger, mine.exec, work[t].listing)
  <1>1. Keeps(mine.ledger, all)
    BY ImportedKeeps
  <1> HIDE DEF all
  <1>2. Keeps(all, CancelMissing(all, active))
    BY <1>1, SweepKeeps DEF Keeps
  <1>3. Keeps(mine.ledger, CancelMissing(all, active))
    BY <1>1, <1>2 DEF Keeps
  <1> QED BY <1>3 DEF all

LEMMA RecordOpenKeepsInv ==
  ASSUME TradingInv, NEW t \in Threads, RecordOpenOrders(t) PROVE TradingInv'
  <1> USE AtThread
  <1> DEFINE listing == work[t].listing
             Imported(mine, entries) == ImportUnmapped(mine.ledger, mine.exec, entries)
             Swept(mine) == CancelMissing(Imported(mine, listing),
                                          Active(mine.exec, listing, work[t].guarded))
  <1>1. pc[t] = "record" /\ work[t].reconciling = TRUE
    BY DEF RecordOpenOrders, Placed, Phases, SoundWork
  <1>2. ASSUME NEW mine \in copy[t]
        PROVE  /\ Keeps(mine.ledger, Swept(mine))
               /\ \A entries \in SUBSET listing : Keeps(mine.ledger, Imported(mine, entries))
    BY ImportedKeeps, SweptKeeps
  <1>3. ASSUME NEW mine \in copy[t], Save(t, Swept(mine), mine.exec, "complete", work[t])
        PROVE  TradingInv'
    <2>1. Keeps(mine.ledger, Swept(mine))
      BY <1>2
    <2>2. SoundThread(provider, "complete", Locals("complete", work[t]), {})
      BY <1>1, OnwardSound DEF Phases
    <2> HIDE DEF Swept
    <2> QED BY <1>3, <2>1, <2>2, SaveKeptMoves
  <1>4. ASSUME NEW mine \in copy[t], NEW before \in SUBSET listing,
               /\ db' = [db EXCEPT !.exec = Block(mine.exec),
                           !.ledger = RequireReconciliation(Imported(mine, before))]
               /\ copy' = [copy EXCEPT ![t] = {}] /\ gate' = Nobody
               /\ Goto(t, "idle", Blank)
               /\ UNCHANGED <<restarted, alert, provider, settled, left>>
        PROVE  TradingInv'
    <2> DEFINE l == RequireReconciliation(Imported(mine, before))
               x == Block(mine.exec)
    <2>1. Keeps(mine.ledger, Imported(mine, before))
      BY <1>2
    <2>2. Sound(l) /\ l.fills = mine.ledger.fills
      BY <2>1, RequireKeeps DEF Keeps
    <2>3. SoundGate(provider, x)
      BY FlagsSound
    <2>4. db' = [db EXCEPT !.exec = x, !.ledger = l]
      BY <1>4
    <2> HIDE DEF l, x
    <2>5. db' = [ledger |-> l, exec |-> x, marker |-> db.marker]
      BY <2>4 DEF TradingInv, SoundRow
    <2>6. SoundRow(provider, db')
      <3>1. db'.ledger = l /\ db'.exec = x /\ db'.marker = db.marker
        BY <2>5
      <3>2. Distinct(l.fills) /\ Traded(provider, l.fills) /\ db.marker \in BOOLEAN
        BY <2>2 DEF SoundRow, TradingInv
      <3> QED BY <2>2, <2>3, <2>5, <3>1, <3>2 DEF SoundRow
    <2>7. Scalars'
      BY <1>4, ScalarsStay
    <2>8. SoundProvider(provider) /\ Grows(provider, provider)
      BY SameGrows DEF TradingInv
    <2>9. /\ SoundProvider(provider') /\ Grows(provider, provider')
          /\ SoundRow(provider', db')
          /\ SoundThread(provider', "idle", Locals("idle", Blank), {})
      BY <1>4, <2>6, <2>8, BlankServes
    <2> QED BY <1>4, <2>7, <2>9, ThreadMoves
  <1>5. PICK mine \in copy[t] :
          \/ Save(t, Swept(mine), mine.exec, "complete", work[t])
          \/ \E before \in SUBSET listing :
               /\ db' = [db EXCEPT !.exec = Block(mine.exec),
                           !.ledger = RequireReconciliation(Imported(mine, before))]
               /\ copy' = [copy EXCEPT ![t] = {}] /\ gate' = Nobody
               /\ Goto(t, "idle", Blank)
               /\ UNCHANGED <<restarted, alert, provider, settled, left>>
    BY Zenon DEF RecordOpenOrders
  <1> HIDE DEF Swept, Imported
  <1> QED BY <1>3, <1>4, <1>5

LEMMA CompleteKeepsInv ==
  ASSUME TradingInv, NEW t \in Threads, CompleteReconciliation(t) PROVE TradingInv'
  <1>1. /\ copy[t] = {} /\ copy' = copy /\ provider' = provider
    BY DEF CompleteReconciliation, TradingInv, SoundThread, StoreSteps, GatedSteps
  <1>2. PICK step \in {"absence", "idle"} : Goto(t, step, Blank)
    BY DEF CompleteReconciliation
  <1>3. SoundRow(provider, db')
    <2>1. SoundRow(provider, db)
      BY DEF TradingInv
    <2>2. db' = [db EXCEPT !.marker = FALSE] \/ db' = db
      BY DEF CompleteReconciliation
    <2>3. SoundRow(provider, [db EXCEPT !.marker = FALSE])
      BY <2>1, MarkerSound
    <2> QED BY <2>1, <2>2, <2>3
  <1>4. Scalars'
    BY DEF CompleteReconciliation, TradingInv, Scalars
  <1>5. SoundProvider(provider) /\ Grows(provider, provider)
    BY SameGrows DEF TradingInv
  <1>6. /\ SoundProvider(provider') /\ Grows(provider, provider')
        /\ SoundRow(provider', db')
        /\ SoundThread(provider', step, Locals(step, Blank), {})
    BY <1>1, <1>3, <1>5, BlankServes
  <1> QED BY <1>1, <1>2, <1>4, <1>6, ThreadMoves

LEMMA AbsenceKeepsInv ==
  ASSUME TradingInv, NEW t \in Threads, RecoverAbsence(t) PROVE TradingInv'
  <1> USE AtThread
  <1>1. PICK mine \in copy[t] :
          \/ Save(t, mine.ledger,
                  Settle(ResolveAbsence(mine.exec, Unproven(mine)), TRUE), "idle", Blank)
          \/ Return(t, "idle", Blank)
    BY DEF RecoverAbsence
  <1>2. CASE Return(t, "idle", Blank)
    BY <1>2, BlankServes, ReturnMoves
  <1>3. CASE Save(t, mine.ledger,
                  Settle(ResolveAbsence(mine.exec, Unproven(mine)), TRUE), "idle", Blank)
    <2>1. SoundGate(provider, Settle(ResolveAbsence(mine.exec, Unproven(mine)), TRUE))
      BY EvidenceSound, FlagsSound
    <2>2. Keeps(mine.ledger, mine.ledger)
      BY DEF Keeps
    <2> QED BY <1>3, <2>1, <2>2, BlankServes, SaveKeptMoves
  <1> QED BY <1>1, <1>2, <1>3

-------------------------------------------------------------------------------
\* The provider, a restart, and the first state

\* The provider fills and ends the orders it has.
LEMMA ProviderGrows ==
  ASSUME TradingInv, ProviderFill \/ ProviderFinish
  PROVE  /\ SoundProvider(provider') /\ Grows(provider, provider')
         /\ DOMAIN provider' = DOMAIN provider
  <1>1. SoundProvider(provider)
    BY DEF TradingInv
  <1>2. ASSUME NEW p \in OpenOrders, NEW status \in {"Filled", "Canceled"},
               provider' = [provider EXCEPT ![p].status = status]
        PROVE  SoundProvider(provider') /\ Grows(provider, provider')
    BY <1>1, <1>2, StatusGrows DEF OpenOrders
  <1>3. ASSUME NEW p \in OpenOrders, NEW status,
               LET filled == provider[p].filled + 1
               IN  /\ status = IF filled = RequestOf(p).quantity THEN "Filled" ELSE "Open"
                   /\ provider' = [provider EXCEPT ![p].filled = filled, ![p].status = status]
        PROVE  SoundProvider(provider') /\ Grows(provider, provider')
    <2> DEFINE filled == provider[p].filled + 1
               quantity == Request[provider[p].op].order.quantity
    <2>1. /\ p \in DOMAIN provider /\ provider[p].op \in Operations
          /\ provider[p].filled \in Nat /\ provider[p].status = "Open"
      BY <1>1, RecordsAre DEF OpenOrders
    <2>2. quantity \in Int /\ provider[p].filled < quantity
      BY <1>1, <2>1, TradingAssumption DEF SoundProvider
    <2>3. /\ filled \in Nat /\ provider[p].filled <= filled /\ filled <= quantity
          /\ status \in {"Open", "Filled", "Canceled"}
          /\ status = "Open" => filled < quantity
      BY <1>3, <2>1, <2>2 DEF RequestOf
    <2> DEFINE e == [provider[p] EXCEPT !.filled = filled, !.status = status]
    <2>4. provider' = [provider EXCEPT ![p] = e]
      <3> DEFINE mid == [provider EXCEPT ![p].filled = filled]
      <3>1. provider' = [mid EXCEPT ![p].status = status]
        BY <1>3, Zenon
      <3>2. mid[p] = [provider[p] EXCEPT !.filled = filled]
        BY <2>1, Zenon
      <3>3. \A x : [mid EXCEPT ![p] = x] = [provider EXCEPT ![p] = x]
        <4> DEFINE r == [provider[p] EXCEPT !.filled = filled]
        <4>1. mid = [provider EXCEPT ![p] = r]
          BY Zenon
        <4> HIDE DEF mid, r
        <4> QED BY <4>1
      <3>4. provider' = [mid EXCEPT ![p] = [mid[p] EXCEPT !.status = status]]
        BY <3>1, Zenon
      <3> HIDE DEF mid
      <3> QED BY <3>2, <3>3, <3>4, Zenon
    <2> HIDE DEF filled
    <2>5. e = [op |-> provider[p].op, filled |-> filled, status |-> status]
      <3> DEFINE r == provider[p]
      <3>1. r = [op |-> r.op, filled |-> r.filled, status |-> r.status]
        BY <1>1, <2>1, RecordsAre
      <3> DEFINE first == [r EXCEPT !.filled = filled]
      <3>2. [r EXCEPT !.filled = filled, !.status = status]
              = [first EXCEPT !.status = status]
        BY Zenon
      <3> HIDE DEF r
      <3>3. first = [op |-> r.op, filled |-> filled, status |-> r.status]
        BY <3>1
      <3> HIDE DEF first
      <3>4. [first EXCEPT !.status = status]
              = [op |-> r.op, filled |-> filled, status |-> status]
        BY <3>3
      <3>5. [r EXCEPT !.filled = filled, !.status = status]
              = [op |-> r.op, filled |-> filled, status |-> status]
        BY <3>2, <3>4 DEF r
      <3> QED BY <3>5 DEF r
    <2> HIDE DEF e
    <2>6. provider' = [provider EXCEPT ![p] = [op |-> provider[p].op, filled |-> filled,
                                               status |-> status]]
      BY <2>4, <2>5
    <2> QED BY <1>1, <2>1, <2>3, <2>6, UpdateGrows
  <1>4. SoundProvider(provider') /\ Grows(provider, provider')
    <2>1. CASE ProviderFinish
      BY <1>2, <2>1 DEF ProviderFinish
    <2>2. CASE ProviderFill
      BY <1>3, <2>2 DEF ProviderFill
    <2> QED BY <2>1, <2>2
  <1>5. DOMAIN provider' = DOMAIN provider
    BY DEF ProviderFill, ProviderFinish
  <1> QED BY <1>4, <1>5

LEMMA ProviderKeepsInv ==
  ASSUME TradingInv, ProviderFill \/ ProviderFinish PROVE TradingInv'
  <1>1. UNCHANGED <<db, pc, work, copy>> /\ Scalars'
    BY DEF ProviderFill, ProviderFinish, store, TradingInv, Scalars
  <1> QED BY <1>1, ProviderGrows, ThreadsRest

LEMMA RestartKeepsInv ==
  ASSUME TradingInv, Restart PROVE TradingInv'
  <1> DEFINE l == RequireReconciliation(db.ledger)
             x == Block(db.exec)
  <1>1. SoundRow(provider, db)
    BY DEF TradingInv
  <1>2. db' = [db EXCEPT !.ledger = l, !.exec = x]
    BY DEF Restart
  <1>3. Sound(l) /\ l.fills = db.ledger.fills
    BY <1>1, RequireKeeps DEF Keeps, SoundRow
  <1>4. SoundGate(provider, x)
    BY <1>1, FlagsSound DEF SoundRow
  <1> HIDE DEF l, x
  <1>5. db' = [ledger |-> l, exec |-> x, marker |-> db.marker]
    BY <1>1, <1>2 DEF SoundRow
  <1>6. SoundRow(provider, db')
    <2>1. db'.ledger = l /\ db'.exec = x /\ db'.marker = db.marker
      BY <1>5
    <2> QED BY <1>1, <1>3, <1>4, <1>5, <2>1 DEF SoundRow
  <1>7. Scalars'
    <2>1. left' = [left EXCEPT !["Crash"] = @ - 1] /\ left["Crash"] > 0
      BY DEF Restart
    <2>2. left' \in [Commands -> Nat]
      BY <2>1 DEF TradingInv, Scalars, Commands
    <2> QED BY <2>2 DEF Restart, TradingInv, Scalars
  <1>8. /\ pc' = [t \in Threads |-> "idle"] /\ copy' = [t \in Threads |-> {}]
        /\ work' = [t \in Threads |-> Blank] /\ provider' = provider
    BY DEF Restart
  <1>9. /\ pc' = [t \in Threads |-> pc'[t]] /\ copy' = [t \in Threads |-> copy'[t]]
        /\ work' = [t \in Threads |-> work'[t]]
    BY <1>8
  <1>10. \A t \in Threads : SoundThread(provider, pc'[t], work'[t], copy'[t])
    BY <1>8, BlankSound
  <1> QED BY <1>6, <1>7, <1>8, <1>9, <1>10 DEF TradingInv

LEMMA OpenedSound ==
  ASSUME Init PROVE TradingInv
  <1> DEFINE l == NewLedger("Provider", OpeningCash, Holding(OpeningShares, 0))
             x == NewExecution(HostPolicy)
  <1>1. /\ db = [ledger |-> l, exec |-> x, marker |-> FALSE] /\ provider = << >>
        /\ pc = [t \in Threads |-> "idle"] /\ copy = [t \in Threads |-> {}]
        /\ work = [t \in Threads |-> Blank]
    BY DEF Init
  <1>2. Sound(l) /\ l.fills = << >>
    <2> DEFINE positions == Holding(OpeningShares, 0)
    <2> HIDE DEF positions
    <2>1. /\ DOMAIN l = LedgerFields /\ l.market = "Provider" /\ l.cash = OpeningCash
          /\ l.reconciliation = "Reconciled" /\ l.orders = << >> /\ l.fills = << >>
      BY DEF NewLedger, LedgerFields
    <2>2. SoundOrders(<< >>) /\ IsSequence(<< >>)
      BY DEF SoundOrders, IsSequence
    <2> HIDE DEF l
    <2> QED BY <2>1, <2>2, TradingAssumption DEF Sound, ReconciliationStates
  <1>3. Distinct(l.fills) /\ Traded(provider, l.fills)
    BY <1>2 DEF Distinct, Traded
  <1>4. SoundGate(provider, x)
    <2>1. Guarded(x)
      BY NewGuarded
    <2>2. x.policy = HostPolicy /\ x.blocked = FALSE /\ x.ops = << >>
      BY DEF NewExecution
    <2>3. x.blocked \in BOOLEAN
      BY DEF NewExecution
    <2> HIDE DEF x
    <2>4. SoundPolicy(x.policy)
      <3>1. HostPolicy.frozen \in BOOLEAN
        BY TradingAssumption
      <3> QED BY <2>2, <3>1, TradingAssumption DEF SoundPolicy
    <2>5. SoundJournal(provider, x.ops)
      BY <2>2 DEF SoundJournal
    <2> QED BY <2>1, <2>3, <2>4, <2>5 DEF SoundGate
  <1> HIDE DEF l, x
  <1>5. SoundRow(provider, db)
    BY <1>1, <1>2, <1>3, <1>4 DEF SoundRow
  <1>6. SoundProvider(provider)
    BY <1>1 DEF SoundProvider
  <1>7. Scalars
    BY TradingAssumption DEF Init, Scalars
  <1>8. \A t \in Threads : SoundThread(provider, pc[t], work[t], copy[t])
    BY <1>1, BlankSound
  <1>9. /\ pc = [t \in Threads |-> pc[t]] /\ copy = [t \in Threads |-> copy[t]]
        /\ work = [t \in Threads |-> work[t]]
    BY <1>1
  <1> QED BY <1>5, <1>6, <1>7, <1>8, <1>9 DEF TradingInv

LEMMA StepKeepsInv ==
  ASSUME TradingInv, NEW t \in Threads, Step(t) PROVE TradingInv'
  <1>1. CASE \/ Load(t) \/ SubmitOrder(t) \/ BeginOrder(t) \/ Post(t)
             \/ RecordOrderResult(t) \/ RetainUncertain(t) \/ RecordConfirmedRejection(t)
    BY <1>1, LoadKeeps, SubmitKeepsInv, BeginKeepsInv, PostKeepsInv,
       RecordOrderResultKeepsInv, RetainUncertainKeepsInv, RejectKeepsInv
  <1>2. CASE \/ CancelOrder(t) \/ SyncOrder(t)
    BY <1>2, ForIdentifiedKeepsInv DEF CancelOrder, SyncOrder, Commands
  <1>3. CASE \/ RequestCancel(t) \/ CancelLocalOrder(t) \/ FetchOrder(t) \/ FetchTrades(t)
             \/ SyncProviderOrder(t) \/ LoseOrder(t) \/ RequireAccountReconciliation(t)
    BY <1>3, RequestCancelKeepsInv, CancelLocalKeepsInv, FetchOrderKeepsInv,
       FetchTradesKeepsInv, SyncKeepsInv, LoseOrderKeepsInv, RequireAccountKeepsInv
  <1>4. CASE \/ FreezeAll(t) \/ Acknowledge(t) \/ RecoverHost(t) \/ FreezeAccount(t)
             \/ RecoverAccount(t) \/ RecoverAlert(t)
    BY <1>4, FreezeCommandsKeepInv, FreezeAccountKeepsInv, RecoverAccountKeepsInv,
       RecoverAlertKeepsInv
  <1>5. CASE \/ ReconcileAccount(t) \/ ListOpenOrders(t) \/ FetchBalance(t) \/ ClaimGate(t)
             \/ RecordSnapshot(t) \/ FindVanished(t) \/ ResolveNext(t)
             \/ RecordOpenOrders(t) \/ CompleteReconciliation(t) \/ RecoverAbsence(t)
    BY <1>5, ReconcileCommandKeepsInv, ListKeepsInv, BalanceKeepsInv, ClaimKeepsInv,
       SnapshotKeepsInv, VanishedKeepsInv, ResolveNextKeepsInv, RecordOpenKeepsInv,
       CompleteKeepsInv, AbsenceKeepsInv
  <1> QED BY <1>1, <1>2, <1>3, <1>4, <1>5 DEF Step

\* Every row, saved or loaded, retains provider trades, each once; and what each
\* command carries is about orders its operation created.
THEOREM TradingStaysSound == Spec => []TradingInv
  <1>1. Init => TradingInv
    BY OpenedSound
  <1>2. TradingInv /\ [Next]_vars => TradingInv'
    <2> SUFFICES ASSUME TradingInv, [Next]_vars PROVE TradingInv'
      OBVIOUS
    <2>1. CASE UNCHANGED vars
      <3>1. SoundProvider(provider) /\ Grows(provider, provider)
        BY SameGrows DEF TradingInv
      <3>2. /\ UNCHANGED <<db, pc, work, copy>> /\ Scalars'
            /\ SoundProvider(provider') /\ Grows(provider, provider')
        BY <2>1, <3>1 DEF vars, TradingInv, Scalars
      <3> QED BY <3>2, ThreadsRest
    <2> QED BY <2>1, StepKeepsInv, ProviderKeepsInv, RestartKeepsInv DEF Next
  <1> QED BY <1>1, <1>2, PTL DEF Spec

\* Every retained fill is one trade of the provider order its operation created,
\* retained once.
THEOREM FillsAreTrades == Spec => []FillsAreProviderTrades
  <1>1. TradingInv => FillsAreProviderTrades
    BY DEF TradingInv, SoundRow, Traded, Distinct, FillsAreProviderTrades
  <1> QED BY <1>1, TradingStaysSound, PTL

LEMMA TypesFollow == TradingInv => TypeOK
  <1> SUFFICES ASSUME TradingInv PROVE TypeOK
    OBVIOUS
  <1>1. \A r : SoundRow(provider, r) => Shape(r)
    <2> SUFFICES ASSUME NEW r, SoundRow(provider, r) PROVE Shape(r)
      OBVIOUS
    <2>1. /\ r.ledger.cash \in Int /\ r.ledger.reconciliation \in ReconciliationStates
          /\ \A id \in DOMAIN r.ledger.orders : r.ledger.orders[id].status \in Statuses
      BY DEF SoundRow, Sound, SoundOrders, SoundOrder
    <2>2. r.exec.blocked \in BOOLEAN /\ r.marker \in BOOLEAN
      BY DEF SoundRow, SoundGate
    <2>3. r.exec.policy.frozen \in BOOLEAN
      BY DEF SoundRow, SoundGate, SoundPolicy
    <2>4. \A o \in DOMAIN r.exec.ops : r.exec.ops[o].outcome \in Outcomes
      BY DEF SoundRow, SoundGate, SoundJournal, SoundEntry
    <2> QED BY <2>1, <2>2, <2>3, <2>4 DEF Shape
  <1>2. Shape(db)
    BY <1>1 DEF TradingInv
  <1>3. pc \in [Threads -> StoreSteps \cup OtherSteps]
    BY DEF TradingInv, SoundThread
  <1>4. ASSUME NEW t \in Threads
        PROVE  /\ Cardinality(copy[t]) <= 1
               /\ copy[t] # {} => pc[t] \in StoreSteps
               /\ \A mine \in copy[t] : Shape(mine)
    <2>1. SoundThread(provider, pc[t], work[t], copy[t])
      BY DEF TradingInv
    <2>2. \A mine \in copy[t] : Shape(mine)
      BY <1>1, <2>1 DEF SoundThread
    <2>3. CASE copy[t] = {}
      <3>1. Cardinality(copy[t]) = 0
        BY <2>3, FS_EmptySet
      <3> QED BY <2>2, <2>3, <3>1
    <2>4. ASSUME NEW mine \in copy[t], copy[t] = {mine}, pc[t] \in StoreSteps
          PROVE  Cardinality(copy[t]) <= 1 /\ pc[t] \in StoreSteps
      <3>1. Cardinality({mine}) = 1
        BY FS_Singleton
      <3> QED BY <2>4, <3>1
    <2> QED BY <2>1, <2>2, <2>3, <2>4 DEF SoundThread
  <1>5. ASSUME NEW p \in DOMAIN provider
        PROVE  provider[p].filled \in 0 .. RequestOf(p).quantity
    <2>1. provider[p].filled \in Nat /\ provider[p].op \in Operations
      BY RecordsAre DEF TradingInv
    <2>2. RequestOf(p).quantity \in Int /\ provider[p].filled <= RequestOf(p).quantity
      BY <2>1, TradingAssumption DEF RequestOf, TradingInv, SoundProvider
    <2> QED BY <2>1, <2>2
  <1> QED BY <1>2, <1>3, <1>4, <1>5 DEF TypeOK, TradingInv, Scalars

\* Type correctness: the row keeps its shape, and a thread holds a copy of it only
\* at a store step.
THEOREM TypesHold == Spec => []TypeOK
  BY TradingStaysSound, TypesFollow, PTL

-------------------------------------------------------------------------------
(***************************************************************************)
(* What a step of a thread is, for the properties that do not care which.  *)
(* A store step saves what it made of its copy, or returns without a save; *)
(* any other step leaves the row and the gate alone.                       *)
(***************************************************************************)

\* The thread is in the part of a reconciliation that holds the gate.
Reconciles(t) == pc[t] \in Phases \/ (pc[t] \in Shared /\ work[t].reconciling)

\* Nobody enters that part but through ClaimGate.
Onward(t, step, w) == step \in Phases \/ (step \in Shared /\ w.reconciling) => Reconciles(t)

\* An order is sent with its operation in the row, where it was not before.
Sent(t, mine, x, w) ==
  /\ pc[t] = "begin" /\ w = work[t]
  /\ ~Pending(mine.ledger) /\ ~mine.marker
  /\ Operation(w.op) \in DOMAIN x.ops \ DOMAIN mine.exec.ops

Stored(t, mine, l, x, step, w) ==
  /\ Save(t, l, x, step, w)
  /\ Pending(mine.ledger) /\ pc[t] # "reconcile" => Pending(l)
  /\ Onward(t, step, w) /\ step # "begin" /\ step # "freeze"
  /\ DOMAIN mine.exec.ops \subseteq DOMAIN x.ops
  /\ \/ x.policy = mine.exec.policy /\ step # "unfreeze"
     \/ pc[t] = "freeze" /\ step = "idle"
     \/ x.policy.frozen = FALSE
  /\ step = "post" => Sent(t, mine, x, w)

Returned(t, step, w) ==
  /\ Return(t, step, w) /\ copy[t] # {}
  /\ Onward(t, step, w) /\ step \notin {"begin", "post", "freeze", "unfreeze"}

Stores(t) == \/ \E mine \in copy[t] : \E l, x, step, w : Stored(t, mine, l, x, step, w)
             \/ \E step, w : Returned(t, step, w)

\* A ledger operation that keeps the wait, a gate operation that keeps operations
\* and policy.
Extends(x, y) == DOMAIN x.ops \subseteq DOMAIN y.ops /\ y.policy = x.policy

LEMMA GateExtends ==
  ASSUME NEW x, Guarded(x), NEW o, NEW p, NEW l, NEW remote, NEW outcome, NEW known,
         NEW matches
  PROVE  /\ Extends(x, x) /\ Extends(x, Begin(x, l, o)) /\ o \in DOMAIN Begin(x, l, o).ops
         /\ Extends(x, LoseTrack(x, p))
         /\ o \in DOMAIN x.ops => /\ Extends(x, MarkUncertain(x, o))
                                  /\ Extends(x, RecordOutcome(x, o, remote, outcome))
         /\ Extends(x, ResolveUncertainty(x, p)) /\ Extends(x, ResolveAbsence(x, known))
         /\ Extends(x, Settle(x, matches)) /\ Extends(x, Block(x))
  <1> DEFINE begun == Begin(x, l, o)
             lost == LoseTrack(x, p)
             marked == MarkUncertain(x, o)
             recorded == RecordOutcome(x, o, remote, outcome)
             resolved == ResolveUncertainty(x, p)
             proven == ResolveAbsence(x, known)
  <1>1. begun.policy = x.policy /\ DOMAIN begun.ops = DOMAIN x.ops \cup {o}
    <2>1. /\ begun.policy = x.policy /\ begun.blocked = x.blocked
          /\ DOMAIN begun.ops = DOMAIN x.ops \cup {o}
          /\ begun.ops[o] = Outcome("Accepted", {LocalId(l.nextId)}, {})
          /\ \A q \in DOMAIN begun.ops : q # o => begun.ops[q] = x.ops[q]
      BY BeginIs
    <2> QED BY <2>1
  <1>2. lost.policy = x.policy /\ DOMAIN lost.ops = DOMAIN x.ops \cup {LostTrack(p)}
    BY LoseIs, ZenonT(60)
  <1>3. o \in DOMAIN x.ops => marked.policy = x.policy /\ DOMAIN marked.ops = DOMAIN x.ops
    BY MarkIs
  <1>4. o \in DOMAIN x.ops =>
          recorded.policy = x.policy /\ DOMAIN recorded.ops = DOMAIN x.ops
    BY RecordIs
  <1>5. /\ resolved.policy = x.policy /\ DOMAIN resolved.ops = DOMAIN x.ops
        /\ proven.policy = x.policy /\ DOMAIN proven.ops = DOMAIN x.ops
    <2>1. \A y \in {resolved, proven} : y.policy = x.policy /\ DOMAIN y.ops = DOMAIN x.ops
      BY AcceptIs
    <2> HIDE DEF resolved, proven
    <2> QED BY <2>1
  <1>6. Extends(x, Settle(x, matches)) /\ Extends(x, Block(x))
    <2>1. /\ Settle(x, matches) = [policy |-> x.policy, ops |-> x.ops,
                                   blocked |-> ~matches \/ HasUncertainty(x)]
          /\ Block(x) = [policy |-> x.policy, blocked |-> TRUE, ops |-> x.ops]
      BY FlagsAre
    <2> QED BY <2>1 DEF Extends
  <1> HIDE DEF begun, lost, marked, recorded, resolved, proven
  <1>7. /\ Extends(x, x) /\ Extends(x, begun) /\ o \in DOMAIN begun.ops /\ Extends(x, lost)
        /\ o \in DOMAIN x.ops => Extends(x, marked) /\ Extends(x, recorded)
        /\ Extends(x, resolved) /\ Extends(x, proven)
    BY <1>1, <1>2, <1>3, <1>4, <1>5 DEF Extends
  <1> QED BY <1>6, <1>7 DEF begun, lost, marked, recorded, resolved, proven

\* The common case: the ledger is kept, and the gate extended.
LEMMA StoresPlainly ==
  ASSUME NEW t, NEW mine \in copy[t], NEW l, NEW x, NEW step, NEW w,
         Save(t, l, x, step, w), Keeps(mine.ledger, l), Extends(mine.exec, x),
         Onward(t, step, w), step \notin {"begin", "post", "freeze", "unfreeze"}
  PROVE  Stores(t)
  BY DEF Stores, Stored, Keeps, Extends

LEMMA GivesUp ==
  ASSUME NEW t, copy[t] # {}, NEW w, Return(t, "idle", w)
  PROVE  Stores(t)
  BY DEF Stores, Returned, Onward, Phases, Shared

LEMMA BeginStores ==
  ASSUME TradingInv, NEW t \in Threads, BeginOrder(t) PROVE Stores(t)
  <1> USE AtThread
  <1> DEFINE n == work[t].op
             o == Operation(n)
             order == Request[n].order
  <1>1. n \in Operations /\ pc[t] = "begin"
    BY DEF BeginOrder, Placed, OrderSteps
  <1>2. DOMAIN order = OrderFields
    BY <1>1, TradingAssumption DEF OrderFields
  <1>3. PICK mine \in copy[t] :
          \/ /\ o \notin DOMAIN mine.exec.ops /\ Loaded(mine).reconciliation = "Reconciled"
             /\ Save(t, Submit(mine.ledger, order), Begin(mine.exec, mine.ledger, o), "post",
                     work[t])
          \/ Return(t, "idle", Blank)
    BY DEF BeginOrder, CanBegin, CanSubmit
  <1>4. CASE Return(t, "idle", Blank)
    BY <1>4, GivesUp
  <1>5. CASE /\ o \notin DOMAIN mine.exec.ops /\ Loaded(mine).reconciliation = "Reconciled"
             /\ Save(t, Submit(mine.ledger, order), Begin(mine.exec, mine.ledger, o), "post",
                     work[t])
    <2>1. Keeps(mine.ledger, Submit(mine.ledger, order))
      BY <1>2, SubmitKeeps
    <2>2. RequireReconciliation(mine.ledger).reconciliation = "Required"
      BY RequireKeeps DEF Pending
    <2>3. ~mine.marker /\ ~Pending(mine.ledger)
      BY <1>5, <2>2 DEF Loaded, Pending
    <2> DEFINE x == Begin(mine.exec, mine.ledger, o)
    <2>4. Extends(mine.exec, x) /\ o \in DOMAIN x.ops
      <3>1. Guarded(mine.exec)
        BY DEF SoundGate
      <3> QED BY <3>1, GateExtends
    <2> HIDE DEF x
    <2>5. Sent(t, mine, x, work[t])
      BY <1>1, <1>5, <2>3, <2>4 DEF Sent
    <2>6. Stored(t, mine, Submit(mine.ledger, order), x, "post", work[t])
      BY <1>5, <2>1, <2>4, <2>5 DEF Stored, Keeps, Extends, Onward, Phases, Shared, x
    <2> QED BY <2>6 DEF Stores
  <1> QED BY <1>3, <1>4, <1>5

LEMMA OutcomesStore ==
  ASSUME TradingInv, NEW t \in Threads,
         \/ RecordOrderResult(t) \/ RetainUncertain(t) \/ RecordConfirmedRejection(t)
         \/ CancelLocalOrder(t)
  PROVE  Stores(t)
  <1> USE AtThread
  <1> DEFINE o == Operation(work[t].op)
  <1>1. ASSUME NEW mine \in copy[t]
        PROVE  /\ Guarded(mine.exec) /\ Extends(mine.exec, mine.exec)
               /\ Keeps(mine.ledger, mine.ledger)
               /\ Keeps(mine.ledger, RequireReconciliation(mine.ledger))
               /\ \A id : Keeps(mine.ledger, Cancel(mine.ledger, id))
    BY RequireKeeps, CancelKeeps DEF SoundGate, Keeps, Extends
  <1>2. CASE RecordOrderResult(t)
    <2> DEFINE next == IF pc[t] = "result" THEN "idle" ELSE "cancelLocal"
    <2>1. PICK mine \in copy[t] :
            \/ /\ o \in DOMAIN mine.exec.ops
               /\ Save(t, mine.ledger, RecordOutcome(mine.exec, o, work[t].remote, "Accepted"),
                       next, work[t])
            \/ Return(t, "idle", Blank)
      BY <1>2 DEF RecordOrderResult
    <2> DEFINE x == RecordOutcome(mine.exec, o, work[t].remote, "Accepted")
    <2>2. o \in DOMAIN mine.exec.ops => Extends(mine.exec, x)
      BY <1>1, GateExtends
    <2>3. Onward(t, next, work[t])
      BY DEF Onward, Phases, Shared
    <2>4. next \notin {"begin", "post", "freeze", "unfreeze"}
      OBVIOUS
    <2> HIDE DEF x, next
    <2>5. CASE o \in DOMAIN mine.exec.ops /\ Save(t, mine.ledger, x, next, work[t])
      BY <1>1, <2>2, <2>3, <2>4, <2>5, StoresPlainly
    <2> QED BY <2>1, <2>5, GivesUp DEF x
  <1>3. CASE RetainUncertain(t)
    <2>1. PICK mine \in copy[t] :
            \/ /\ o \in DOMAIN mine.exec.ops
               /\ Save(t, RequireReconciliation(mine.ledger), MarkUncertain(mine.exec, o),
                       "idle", Blank)
            \/ Return(t, "idle", Blank)
      BY <1>3 DEF RetainUncertain
    <2> DEFINE x == MarkUncertain(mine.exec, o)
    <2>2. o \in DOMAIN mine.exec.ops => Extends(mine.exec, x)
      BY <1>1, GateExtends
    <2> HIDE DEF x
    <2>3. CASE /\ o \in DOMAIN mine.exec.ops
               /\ Save(t, RequireReconciliation(mine.ledger), x, "idle", Blank)
      BY <1>1, <2>2, <2>3, StoresPlainly DEF Onward, Phases, Shared
    <2> QED BY <2>1, <2>3, GivesUp DEF x
  <1>4. CASE RecordConfirmedRejection(t)
    <2>1. PICK mine \in copy[t] :
            \/ /\ o \in DOMAIN mine.exec.ops
               /\ \E id : Save(t, Cancel(mine.ledger, id),
                               RecordOutcome(mine.exec, o, {}, "Rejected"), "idle", Blank)
            \/ Return(t, "idle", Blank)
      BY <1>4 DEF RecordConfirmedRejection, CanReject
    <2> DEFINE x == RecordOutcome(mine.exec, o, {}, "Rejected")
    <2>2. o \in DOMAIN mine.exec.ops => Extends(mine.exec, x)
      BY <1>1, GateExtends
    <2> HIDE DEF x
    <2>3. ASSUME o \in DOMAIN mine.exec.ops, NEW id,
                 Save(t, Cancel(mine.ledger, id), x, "idle", Blank)
          PROVE  Stores(t)
      BY <1>1, <2>2, <2>3, StoresPlainly DEF Onward, Phases, Shared
    <2> QED BY <2>1, <2>3, GivesUp DEF x
  <1>5. CASE CancelLocalOrder(t)
    <2>1. PICK mine \in copy[t] :
            \/ \E id : Save(t, Cancel(mine.ledger, id), mine.exec, "idle", Blank)
            \/ Return(t, "idle", Blank)
      BY <1>5 DEF CancelLocalOrder
    <2>2. ASSUME NEW id, Save(t, Cancel(mine.ledger, id), mine.exec, "idle", Blank)
          PROVE  Stores(t)
      BY <1>1, <2>2, StoresPlainly DEF Onward, Phases, Shared
    <2> QED BY <2>1, <2>2, GivesUp
  <1> QED BY <1>2, <1>3, <1>4, <1>5

LEMMA SyncStores ==
  ASSUME TradingInv, NEW t \in Threads, SyncProviderOrder(t) PROVE Stores(t)
  <1> USE AtThread
  <1> DEFINE o == Operation(work[t].op)
             failed == IF work[t].reconciling THEN "require" ELSE "idle"
             next == Continue(work[t])
             plain == {"begin", "post", "freeze", "unfreeze"}
  <1>1. pc[t] = "sync"
    BY DEF SyncProviderOrder
  <1>2. /\ Onward(t, failed, work[t]) /\ failed \notin plain
        /\ Onward(t, next, work[t]) /\ next \notin plain
        /\ Onward(t, "untracked", work[t])
    BY <1>1 DEF Onward, Continue, Phases, Shared, Reconciles
  <1>3. PICK mine \in copy[t], p \in work[t].remote, remote \in work[t].seen :
          \/ \E id \in DOMAIN mine.ledger.orders : MergeOrder(t, mine, id, p, remote)
          \/ Return(t, failed, work[t])
    BY DEF SyncProviderOrder
  <1>4. /\ SoundProvider(provider) /\ Created(provider, o, p)
        /\ remote.trades \in Nat /\ remote.trades <= provider[p].filled
        /\ SoundRow(provider, mine) /\ Guarded(mine.exec)
    BY DEF TradingInv, SoundWork, Identifies, SoundAnswers, SoundGate
  <1>5. ASSUME NEW step, Return(t, step, work[t]), step \notin plain,
               Onward(t, step, work[t])
        PROVE  Stores(t)
    BY <1>5 DEF Stores, Returned
  <1>6. ASSUME NEW l, Keeps(mine.ledger, l), NEW x, Extends(mine.exec, x), NEW step,
               step \notin plain, Onward(t, step, work[t]), Save(t, l, x, step, work[t])
        PROVE  Stores(t)
    BY <1>6, StoresPlainly
  <1>7. ASSUME NEW id \in DOMAIN mine.ledger.orders, MergeOrder(t, mine, id, p, remote)
        PROVE  Stores(t)
    <2> DEFINE filled == RecordTrades(mine.ledger, o, p, id,
                                      NewTrades(mine.ledger, o, p, remote.trades))
               ended == Terminate(filled, id, remote.status)
               exec == IF remote.status = "Open" THEN mine.exec
                                                 ELSE ResolveUncertainty(mine.exec, p)
    <2>1. /\ Sound(filled) /\ id \in DOMAIN filled.orders
          /\ Pending(mine.ledger) => Pending(filled)
      BY <1>4, MergeSound
    <2>2. \/ Return(t, "untracked", work[t])
          \/ Save(t, RequireReconciliation(mine.ledger), Block(mine.exec), failed, work[t])
          \/ Save(t, RequireReconciliation(filled), Block(mine.exec), failed, work[t])
          \/ Save(t, ended, exec, next, work[t])
      BY <1>7, Zenon DEF MergeOrder
    <2> HIDE DEF filled, failed, next
    <2>3. Extends(mine.exec, Block(mine.exec)) /\ Extends(mine.exec, exec)
      BY <1>4, GateExtends
    <2>4. CASE Return(t, "untracked", work[t])
      BY <1>2, <1>5, <2>4
    <2>5. CASE Save(t, RequireReconciliation(mine.ledger), Block(mine.exec), failed, work[t])
      <3>1. Keeps(mine.ledger, RequireReconciliation(mine.ledger))
        BY RequireKeeps
      <3> QED BY <1>2, <1>6, <2>3, <2>5, <3>1
    <2>6. ASSUME NEW l, Keeps(filled, l), NEW x, Extends(mine.exec, x), NEW step,
                 step \notin plain, Onward(t, step, work[t]), Save(t, l, x, step, work[t])
          PROVE  Stores(t)
      BY <2>1, <2>6 DEF Stores, Stored, Keeps, Extends
    <2>7. CASE Save(t, RequireReconciliation(filled), Block(mine.exec), failed, work[t])
      <3>1. Keeps(filled, RequireReconciliation(filled))
        BY <2>1, RequireKeeps
      <3> QED BY <1>2, <2>3, <2>6, <2>7, <3>1
    <2>8. CASE Save(t, ended, exec, next, work[t])
      <3>1. Keeps(filled, ended)
        BY <2>1, TerminateKeeps
      <3> HIDE DEF ended, exec
      <3> QED BY <1>2, <2>3, <2>6, <2>8, <3>1
    <2> QED BY <2>2, <2>4, <2>5, <2>7, <2>8
  <1> QED BY <1>2, <1>3, <1>5, <1>7

LEMMA LosingStores ==
  ASSUME TradingInv, NEW t \in Threads, LoseOrder(t) \/ RequireAccountReconciliation(t)
  PROVE  Stores(t)
  <1> USE AtThread
  <1> DEFINE guarded == work[t].guarded \cup work[t].local
             w == [work[t] EXCEPT !.guarded = guarded]
             lost == IF pc[t] = "unresolved" THEN Continue(work[t])
                     ELSE IF work[t].reconciling THEN "require" ELSE "idle"
             plain == {"begin", "post", "freeze", "unfreeze"}
  <1>1. ASSUME NEW mine \in copy[t]
        PROVE  /\ Keeps(mine.ledger, RequireReconciliation(mine.ledger))
               /\ Guarded(mine.exec)
    BY RequireKeeps DEF SoundGate
  <1>2. CASE LoseOrder(t)
    <2>1. PICK mine \in copy[t], p \in work[t].remote :
            Save(t, RequireReconciliation(mine.ledger), LoseTrack(mine.exec, p), lost, w)
      BY <1>2, Zenon DEF LoseOrder
    <2>2. Onward(t, lost, w) /\ lost \notin plain
      BY <1>2 DEF LoseOrder, Onward, Continue, Phases, Shared, Reconciles
    <2> HIDE DEF lost, w
    <2>3. Extends(mine.exec, LoseTrack(mine.exec, p))
      BY <1>1, GateExtends
    <2> QED BY <1>1, <2>1, <2>2, <2>3, StoresPlainly
  <1>3. CASE RequireAccountReconciliation(t)
    <2> DEFINE next == Continue(work[t])
    <2>1. PICK mine \in copy[t] :
            Save(t, RequireReconciliation(mine.ledger), Settle(mine.exec, FALSE), next, w)
      BY <1>3, Zenon DEF RequireAccountReconciliation
    <2>2. Onward(t, next, w) /\ next \notin plain
      BY <1>3 DEF RequireAccountReconciliation, Onward, Continue, Phases, Shared, Reconciles
    <2> HIDE DEF next, w
    <2>3. Extends(mine.exec, Settle(mine.exec, FALSE))
      BY <1>1, GateExtends
    <2> QED BY <1>1, <2>1, <2>2, <2>3, StoresPlainly
  <1> QED BY <1>2, <1>3

LEMMA FreezingStores ==
  ASSUME TradingInv, NEW t \in Threads, FreezeAccount(t) \/ RecoverAccount(t)
  PROVE  Stores(t)
  <1> USE AtThread
  <1>1. CASE FreezeAccount(t)
    <2>1. PICK mine \in copy[t] :
            Save(t, RequireReconciliation(mine.ledger), Freeze(mine.exec), "idle", Blank)
      BY <1>1 DEF FreezeAccount
    <2> DEFINE x == Freeze(mine.exec)
    <2>2. DOMAIN mine.exec.ops \subseteq DOMAIN x.ops
      <3>1. x = [policy |-> [mine.exec.policy EXCEPT !.frozen = TRUE], blocked |-> TRUE,
                 ops |-> mine.exec.ops]
        BY FlagsAre DEF SoundGate
      <3> HIDE DEF x
      <3> QED BY <3>1
    <2> HIDE DEF x
    <2>3. Pending(RequireReconciliation(mine.ledger)) /\ pc[t] = "freeze"
      BY <1>1, RequireKeeps DEF FreezeAccount
    <2>4. Stored(t, mine, RequireReconciliation(mine.ledger), x, "idle", Blank)
      BY <2>1, <2>2, <2>3 DEF Stored, Onward, Phases, Shared, x
    <2> QED BY <2>4 DEF Stores
  <1>2. CASE RecoverAccount(t)
    <2>1. PICK mine \in copy[t] :
            \/ Save(t, mine.ledger, Unfreeze(mine.exec), "unfreeze", Blank)
            \/ Return(t, "idle", Blank)
      BY <1>2 DEF RecoverAccount
    <2>2. CASE Save(t, mine.ledger, Unfreeze(mine.exec), "unfreeze", Blank)
      <3> DEFINE x == Unfreeze(mine.exec)
                 policy == [mine.exec.policy EXCEPT !.frozen = FALSE]
      <3>1. policy.frozen = FALSE
        BY DEF SoundGate, SoundPolicy
      <3> HIDE DEF policy
      <3>2. DOMAIN mine.exec.ops \subseteq DOMAIN x.ops /\ x.policy.frozen = FALSE
        <4>1. x = [policy |-> policy, blocked |-> FALSE, ops |-> mine.exec.ops]
          BY FlagsAre DEF SoundGate, policy
        <4> HIDE DEF x
        <4> QED BY <3>1, <4>1
      <3> HIDE DEF x
      <3>3. Stored(t, mine, mine.ledger, x, "unfreeze", Blank)
        BY <2>2, <3>2 DEF Stored, Onward, Phases, Shared, x
      <3> QED BY <3>3 DEF Stores
    <2> QED BY <2>1, <2>2, GivesUp
  <1> QED BY <1>1, <1>2

LEMMA ReconcilingStores ==
  ASSUME TradingInv, NEW t \in Threads, RecordSnapshot(t) \/ RecoverAbsence(t)
  PROVE  Stores(t)
  <1> USE AtThread
  <1>1. CASE RecordSnapshot(t)
    <2>1. PICK mine \in copy[t], snapshot \in work[t].snapshot :
            Save(t, Reconcile(mine.ledger, snapshot),
                 Settle(mine.exec, Matches(mine.ledger, snapshot)), "vanished", work[t])
      BY <1>1 DEF RecordSnapshot
    <2> DEFINE x == Settle(mine.exec, Matches(mine.ledger, snapshot))
    <2>2. pc[t] = "reconcile"
      BY <1>1 DEF RecordSnapshot
    <2>3. Extends(mine.exec, x)
      BY GateExtends DEF SoundGate
    <2> HIDE DEF x
    <2>4. Stored(t, mine, Reconcile(mine.ledger, snapshot), x, "vanished", work[t])
      BY <2>1, <2>2, <2>3 DEF Stored, Extends, Onward, Phases, Reconciles, x
    <2> QED BY <2>4 DEF Stores
  <1>2. CASE RecoverAbsence(t)
    <2>1. PICK mine \in copy[t] :
            \/ Save(t, mine.ledger,
                    Settle(ResolveAbsence(mine.exec, Unproven(mine)), TRUE), "idle", Blank)
            \/ Return(t, "idle", Blank)
      BY <1>2 DEF RecoverAbsence
    <2> DEFINE y == ResolveAbsence(mine.exec, Unproven(mine))
               x == Settle(y, TRUE)
    <2>2. Extends(mine.exec, x)
      <3>1. Extends(mine.exec, y) /\ Guarded(y)
        BY GateExtends, EvidenceSound DEF SoundGate
      <3> HIDE DEF y
      <3>2. Extends(y, x)
        BY <3>1, GateExtends
      <3> HIDE DEF x
      <3> QED BY <3>1, <3>2 DEF Extends
    <2> HIDE DEF x
    <2>3. Keeps(mine.ledger, mine.ledger)
      BY DEF Keeps
    <2>4. CASE Save(t, mine.ledger, x, "idle", Blank)
      BY <2>2, <2>3, <2>4, StoresPlainly DEF Onward, Phases, Shared
    <2> QED BY <2>1, <2>4, GivesUp DEF x
  <1> QED BY <1>1, <1>2

\* A malformed entry of the listing: the row is blocked, the gate released.
Breaks(t) ==
  \E mine \in copy[t] : \E l, x :
    /\ pc[t] = "record" /\ Pending(l) /\ Extends(mine.exec, x)
    /\ db' = [db EXCEPT !.exec = x, !.ledger = l]
    /\ copy' = [copy EXCEPT ![t] = {}] /\ gate' = Nobody
    /\ Goto(t, "idle", Blank)
    /\ UNCHANGED <<restarted, alert, provider, settled, left>>

LEMMA RecordOpenStores ==
  ASSUME TradingInv, NEW t \in Threads, RecordOpenOrders(t) PROVE Stores(t) \/ Breaks(t)
  <1> USE AtThread
  <1> DEFINE listing == work[t].listing
             Imported(mine, entries) == ImportUnmapped(mine.ledger, mine.exec, entries)
             Swept(mine) == CancelMissing(Imported(mine, listing),
                                          Active(mine.exec, listing, work[t].guarded))
  <1>1. pc[t] = "record"
    BY DEF RecordOpenOrders
  <1>2. ASSUME NEW mine \in copy[t]
        PROVE  /\ Keeps(mine.ledger, Swept(mine))
               /\ \A entries \in SUBSET listing : Keeps(mine.ledger, Imported(mine, entries))
    BY ImportedKeeps, SweptKeeps
  <1>3. ASSUME NEW mine \in copy[t]
        PROVE  Extends(mine.exec, mine.exec) /\ Extends(mine.exec, Block(mine.exec))
    BY GateExtends DEF SoundGate
  <1>4. PICK mine \in copy[t] :
          \/ Save(t, Swept(mine), mine.exec, "complete", work[t])
          \/ \E before \in SUBSET listing :
               /\ db' = [db EXCEPT !.exec = Block(mine.exec),
                           !.ledger = RequireReconciliation(Imported(mine, before))]
               /\ copy' = [copy EXCEPT ![t] = {}] /\ gate' = Nobody
               /\ Goto(t, "idle", Blank)
               /\ UNCHANGED <<restarted, alert, provider, settled, left>>
    BY Zenon DEF RecordOpenOrders
  <1>5. CASE Save(t, Swept(mine), mine.exec, "complete", work[t])
    <2>1. Keeps(mine.ledger, Swept(mine)) /\ Extends(mine.exec, mine.exec)
      BY <1>2, <1>3
    <2>2. Onward(t, "complete", work[t])
      BY <1>1 DEF Onward, Reconciles, Phases
    <2> HIDE DEF Swept
    <2> QED BY <1>5, <2>1, <2>2, StoresPlainly
  <1>6. ASSUME NEW before \in SUBSET listing,
               /\ db' = [db EXCEPT !.exec = Block(mine.exec),
                           !.ledger = RequireReconciliation(Imported(mine, before))]
               /\ copy' = [copy EXCEPT ![t] = {}] /\ gate' = Nobody
               /\ Goto(t, "idle", Blank)
               /\ UNCHANGED <<restarted, alert, provider, settled, left>>
        PROVE  Breaks(t)
    <2>1. Sound(Imported(mine, before))
      BY <1>2 DEF Keeps
    <2> DEFINE l == RequireReconciliation(Imported(mine, before))
               x == Block(mine.exec)
    <2>2. Pending(l) /\ Extends(mine.exec, x)
      BY <1>3, <2>1, RequireKeeps
    <2>3. db' = [db EXCEPT !.exec = x, !.ledger = l]
      BY <1>6
    <2> HIDE DEF l, x
    <2> QED BY <1>1, <1>6, <2>2, <2>3, Zenon DEF Breaks
  <1> HIDE DEF Swept, Imported
  <1> QED BY <1>4, <1>5, <1>6

\* A step that asks the provider, begins a command, or looks at the row.
SameOps(P, Q) == DOMAIN Q = DOMAIN P /\ \A p \in DOMAIN P : Q[p].op = P[p].op

Asked(t, step, w) ==
  /\ pc[t] \in OtherSteps /\ Goto(t, step, w)
  /\ UNCHANGED <<db, restarted, gate, settled, copy>>
  /\ Onward(t, step, w) /\ step \notin {"post", "unfreeze"}
  /\ step = "begin" => alert = "None"
  /\ step = "freeze" => alert' # "None"
  /\ \/ alert' = alert \/ (pc[t] = "unfreeze" /\ step = "idle")
     \/ alert' # "None" /\ step # "begin"
  /\ \/ SameOps(provider, provider')
     \/ pc[t] = "post" /\ provider' = Append(provider, ProviderOrder(work[t].op))

Asks(t) == \E step, w : Asked(t, step, w)

LEMMA AskedPlainly ==
  ASSUME NEW t, pc[t] \in OtherSteps, NEW step, NEW w, Goto(t, step, w),
         UNCHANGED <<store, copy, provider>>, Onward(t, step, w),
         step \notin {"post", "unfreeze", "begin", "freeze"}
  PROVE  Asks(t)
  BY DEF Asks, Asked, store, SameOps

LEMMA SubmitAsks ==
  ASSUME TradingInv, NEW t \in Threads, SubmitOrder(t) PROVE Asks(t)
  <1>1. PICK n \in Operations :
          /\ alert = "None" /\ Start(t, "Submit", "begin", [Blank EXCEPT !.op = n])
          /\ UNCHANGED <<store, copy, provider>>
    BY DEF SubmitOrder
  <1> DEFINE w == [Blank EXCEPT !.op = n]
  <1>2. Goto(t, "begin", w) /\ pc[t] = "idle"
    BY <1>1 DEF Start
  <1> HIDE DEF w
  <1>3. Asked(t, "begin", w)
    BY <1>1, <1>2 DEF Asked, OtherSteps, Onward, Phases, Shared, store, SameOps
  <1> QED BY <1>3 DEF Asks

LEMMA CommandsAsk ==
  ASSUME TradingInv, NEW t \in Threads,
         \/ CancelOrder(t) \/ SyncOrder(t) \/ FreezeAll(t) \/ Acknowledge(t)
         \/ RecoverHost(t) \/ ReconcileAccount(t)
  PROVE  Asks(t)
  <1>1. ASSUME NEW command, NEW step \in {"cancel", "fetch"}, ForIdentified(t, command, step)
        PROVE  Asks(t)
    <2>1. PICK n \in Operations :
            /\ Start(t, command, step, [Blank EXCEPT !.op = n,
                       !.remote = db.exec.ops[Operation(n)].remote])
            /\ UNCHANGED <<store, copy, provider>>
      BY <1>1 DEF ForIdentified
    <2> DEFINE remote == db.exec.ops[Operation(n)].remote
               w == [Blank EXCEPT !.op = n, !.remote = remote]
    <2>2. Goto(t, step, w) /\ pc[t] \in OtherSteps
      BY <2>1 DEF Start, OtherSteps
    <2> HIDE DEF remote
    <2>3. w.reconciling = FALSE
      BY BlankIs
    <2> HIDE DEF w
    <2>4. Onward(t, step, w)
      BY <2>3 DEF Onward, Phases
    <2> QED BY <2>1, <2>2, <2>4, AskedPlainly
  <1>2. CASE CancelOrder(t) \/ SyncOrder(t)
    BY <1>1, <1>2 DEF CancelOrder, SyncOrder
  <1>3. CASE RecoverHost(t) \/ ReconcileAccount(t)
    <2> DEFINE w == [Blank EXCEPT !.reconciling = TRUE]
    <2>1. /\ Goto(t, "recover", Blank) \/ Goto(t, "list", w)
          /\ pc[t] \in OtherSteps /\ UNCHANGED <<store, copy, provider>>
      BY <1>3 DEF RecoverHost, ReconcileAccount, Start, OtherSteps
    <2> HIDE DEF w
    <2> QED BY <2>1, AskedPlainly DEF Onward, Phases, Shared
  <1>4. CASE FreezeAll(t)
    <2>1. Asked(t, "freeze", Blank)
      BY <1>4 DEF FreezeAll, Start, OtherSteps, Asked, Onward, Phases, Shared, SameOps
    <2> QED BY <2>1 DEF Asks
  <1>5. CASE Acknowledge(t)
    <2>1. Asked(t, "idle", Blank)
      BY <1>5 DEF Acknowledge, Start, OtherSteps, Asked, Onward, Phases, Shared, SameOps
    <2> QED BY <2>1 DEF Asks
  <1> QED BY <1>2, <1>3, <1>4, <1>5

LEMMA RequestsAsk ==
  ASSUME TradingInv, NEW t \in Threads,
         Post(t) \/ RequestCancel(t) \/ RecoverAlert(t)
  PROVE  Asks(t)
  <1>1. CASE Post(t)
    <2> DEFINE created == Append(provider, ProviderOrder(work[t].op))
               w == [work[t] EXCEPT !.remote = {Len(created)}]
    <2>1. /\ pc[t] = "post" /\ UNCHANGED <<store, copy, left>>
          /\ provider' = provider \/ provider' = created
      BY <1>1 DEF Post
    <2>2. \/ Goto(t, "result", w)
          \/ \E step \in {"result", "uncertain", "reject"} : Goto(t, step, work[t])
      BY <1>1 DEF Post
    <2> HIDE DEF w
    <2>3. PICK step \in {"result", "uncertain", "reject"}, v \in {w, work[t]} :
            Goto(t, step, v)
      BY <2>2
    <2>4. provider' = created => provider' = Append(provider, ProviderOrder(work[t].op))
      OBVIOUS
    <2> HIDE DEF created
    <2>5. Asked(t, step, v)
      BY <2>1, <2>3, <2>4 DEF Asked, OtherSteps, Onward, Phases, Shared, store, SameOps
    <2> QED BY <2>5 DEF Asks
  <1>2. CASE RequestCancel(t)
    <2>1. PICK p \in work[t].remote, step \in {"cancelResult", "uncertain"} :
            /\ \/ provider' = provider
               \/ p \in DOMAIN provider
                  /\ provider' = [provider EXCEPT ![p].status = "Canceled"]
            /\ Goto(t, step, work[t])
      BY <1>2 DEF RequestCancel, OpenOrders
    <2>2. SameOps(provider, provider')
      <3>1. \A q \in DOMAIN provider :
              provider[q] = [op |-> provider[q].op, filled |-> provider[q].filled,
                             status |-> provider[q].status]
        BY RecordsAre DEF TradingInv
      <3>2. CASE p \in DOMAIN provider
                  /\ provider' = [provider EXCEPT ![p].status = "Canceled"]
        <4> DEFINE e == [provider[p] EXCEPT !.status = "Canceled"]
        <4>1. provider' = [provider EXCEPT ![p] = e]
          BY <3>2
        <4>2. e.op = provider[p].op
          BY <3>1, <3>2
        <4> HIDE DEF e
        <4> QED BY <3>2, <4>1, <4>2 DEF SameOps
      <3> QED BY <2>1, <3>2 DEF SameOps
    <2>3. Asked(t, step, work[t])
      BY <1>2, <2>1, <2>2
      DEF RequestCancel, Asked, OtherSteps, Onward, Phases, Shared, store
    <2> QED BY <2>3 DEF Asks
  <1>3. CASE RecoverAlert(t)
    <2>1. Asked(t, "idle", Blank)
      BY <1>3 DEF RecoverAlert, OtherSteps, Asked, Onward, Phases, Shared, SameOps
    <2> QED BY <2>1 DEF Asks
  <1> QED BY <1>1, <1>2, <1>3

LEMMA QueriesAsk ==
  ASSUME TradingInv, NEW t \in Threads,
         \/ FetchOrder(t) \/ FetchTrades(t) \/ ListOpenOrders(t) \/ FetchBalance(t)
         \/ FindVanished(t) \/ ResolveNext(t)
  PROVE  Asks(t)
  <1> USE AtThread
  <1> DEFINE plain == {"post", "unfreeze", "begin", "freeze"}
  <1>1. /\ pc[t] \in OtherSteps /\ UNCHANGED <<store, copy, provider>>
        /\ DOMAIN work[t] = WorkFields
    BY DEF FetchOrder, FetchTrades, ListOpenOrders, FetchBalance, FindVanished, ResolveNext,
       OtherSteps, SoundWork
  <1>2. ASSUME NEW step, NEW w, Goto(t, step, w), step \notin plain, Onward(t, step, w)
        PROVE  Asks(t)
    BY <1>1, <1>2, AskedPlainly
  <1>3. ASSUME NEW seen
        PROVE  [work[t] EXCEPT !.seen = seen].reconciling = work[t].reconciling
    BY <1>1 DEF WorkFields
  <1>4. CASE FetchOrder(t)
    <2>1. ASSUME NEW seen, NEW step \in {"trades", "sync"},
                 Goto(t, step, [work[t] EXCEPT !.seen = seen])
          PROVE  Asks(t)
      <3> DEFINE w == [work[t] EXCEPT !.seen = seen]
      <3>1. w.reconciling = work[t].reconciling
        BY <1>3
      <3>2. Goto(t, step, w)
        BY <2>1
      <3> HIDE DEF w
      <3>3. Onward(t, step, w)
        BY <1>4, <3>1 DEF FetchOrder, Onward, Phases, Shared, Reconciles
      <3> QED BY <1>2, <3>2, <3>3
    <2>2. ASSUME NEW step \in {"unresolved", "idle"}, Goto(t, step, work[t])
          PROVE  Asks(t)
      <3>1. Onward(t, step, work[t])
        BY <1>4 DEF FetchOrder, Onward, Phases, Shared, Reconciles
      <3> QED BY <1>2, <2>2, <3>1
    <2> QED BY <1>4, <2>1, <2>2 DEF FetchOrder
  <1>5. CASE FetchTrades(t)
    <2>1. PICK seen : Goto(t, "sync", [work[t] EXCEPT !.seen = seen])
      BY <1>5 DEF FetchTrades
    <2> DEFINE w == [work[t] EXCEPT !.seen = seen]
    <2>2. w.reconciling = work[t].reconciling /\ Goto(t, "sync", w)
      BY <1>3, <2>1
    <2> HIDE DEF w
    <2>3. Onward(t, "sync", w)
      BY <1>5, <2>2 DEF FetchTrades, Onward, Phases, Shared, Reconciles
    <2> QED BY <1>2, <2>2, <2>3
  <1>6. CASE ListOpenOrders(t) \/ FetchBalance(t)
    <2>1. PICK step \in {"balance", "claim", "idle"} : \E w : Goto(t, step, w)
      BY <1>6 DEF ListOpenOrders, FetchBalance
    <2> QED BY <1>2, <2>1 DEF Onward, Phases, Shared
  <1>7. CASE FindVanished(t)
    <2>1. PICK w : Goto(t, Continue(w), w) /\ pc[t] = "vanished"
      BY <1>7 DEF FindVanished
    <2> DEFINE step == Continue(w)
    <2>2. step \in {"idle", "record", "resolve"}
      BY DEF Continue
    <2> HIDE DEF step
    <2>3. Onward(t, step, w)
      BY <2>1 DEF Onward, Reconciles, Phases
    <2> QED BY <1>2, <2>1, <2>2, <2>3 DEF step
  <1>8. CASE ResolveNext(t)
    <2>1. PICK w : Goto(t, "fetch", w) /\ pc[t] = "resolve"
      BY <1>8 DEF ResolveNext
    <2> QED BY <1>2, <2>1 DEF Onward, Reconciles, Phases
  <1> QED BY <1>4, <1>5, <1>6, <1>7, <1>8

Claims(t) ==
  /\ pc[t] = "claim" /\ gate = Nobody /\ gate' = t
  /\ db' = [db EXCEPT !.marker = TRUE] /\ Goto(t, "reconcile", work[t])
  /\ UNCHANGED <<restarted, alert, copy, provider, settled, left>>

LEMMA ClaimIs ==
  ASSUME NEW t \in Threads, ClaimGate(t) PROVE Claims(t) \/ Asks(t)
  <1>1. CASE gate = Nobody
    BY <1>1 DEF ClaimGate, Claims
  <1>2. CASE gate # Nobody
    <2>1. /\ pc[t] \in OtherSteps /\ Goto(t, "idle", Blank)
          /\ UNCHANGED <<store, copy, provider>>
      BY <1>2 DEF ClaimGate, OtherSteps, store
    <2> QED BY <2>1, AskedPlainly DEF Onward, Phases, Shared
  <1> QED BY <1>1, <1>2

\* Every step of a thread is one of these.
LEMMA StepIs ==
  ASSUME TradingInv, NEW t \in Threads, Step(t)
  PROVE  \/ Load(t) \/ Stores(t) \/ Asks(t) \/ Breaks(t) \/ Claims(t)
         \/ CompleteReconciliation(t)
  <1>1. CASE \/ Load(t) \/ BeginOrder(t) \/ RecordOrderResult(t) \/ RetainUncertain(t)
             \/ RecordConfirmedRejection(t) \/ CancelLocalOrder(t)
             \/ SyncProviderOrder(t) \/ LoseOrder(t) \/ RequireAccountReconciliation(t)
             \/ FreezeAccount(t) \/ RecoverAccount(t) \/ RecordSnapshot(t)
             \/ RecoverAbsence(t) \/ RecordOpenOrders(t)
    BY <1>1, BeginStores, OutcomesStore, SyncStores, LosingStores, FreezingStores,
       ReconcilingStores, RecordOpenStores
  <1>2. CASE \/ SubmitOrder(t) \/ CancelOrder(t) \/ SyncOrder(t) \/ FreezeAll(t)
             \/ Acknowledge(t) \/ RecoverHost(t) \/ ReconcileAccount(t)
             \/ Post(t) \/ RequestCancel(t) \/ RecoverAlert(t)
    BY <1>2, SubmitAsks, CommandsAsk, RequestsAsk
  <1>3. CASE \/ FetchOrder(t) \/ FetchTrades(t) \/ ListOpenOrders(t) \/ FetchBalance(t)
             \/ FindVanished(t) \/ ResolveNext(t) \/ ClaimGate(t)
             \/ CompleteReconciliation(t)
    BY <1>3, QueriesAsk, ClaimIs
  <1> QED BY <1>1, <1>2, <1>3 DEF Step

-------------------------------------------------------------------------------
(***************************************************************************)
(* Orders are sent only when settled.  Who reconciles has the gate and the *)
(* marker is set; a gated copy shows the marker as it is, since its thread *)
(* has the gate; and until a reconciliation completed, the row and every   *)
(* copy wait for one, or the marker says so.                               *)
(***************************************************************************)

Owned(t) == /\ Reconciles(t) => gate = t /\ db.marker
            /\ pc[t] \in GatedSteps =>
                 \A mine \in copy[t] : gate = t /\ mine.marker = db.marker

Awaits(l) == settled \/ db.marker \/ Pending(l)

SettleInv == /\ TradingInv
             /\ \A t \in Threads : Owned(t)
             /\ Awaits(db.ledger)
             /\ \A t \in Threads : \A mine \in copy[t] : Awaits(mine.ledger)

LEMMA Moved ==
  ASSUME TradingInv, NEW t \in Threads, NEW step, NEW w, Goto(t, step, w)
  PROVE  /\ pc'[t] = step /\ work'[t] = Locals(step, w)
         /\ \A u \in Threads \ {t} : pc'[u] = pc[u] /\ work'[u] = work[u]
  BY DEF TradingInv, Goto, Locals

LEMMA Dropped ==
  ASSUME TradingInv, NEW t \in Threads, copy' = [copy EXCEPT ![t] = {}]
  PROVE  copy'[t] = {} /\ \A u \in Threads \ {t} : copy'[u] = copy[u]
  BY DEF TradingInv

LEMMA RowWritten ==
  ASSUME TradingInv, NEW l, NEW x,
         \/ db' = [db EXCEPT !.ledger = l, !.exec = x]
         \/ db' = [db EXCEPT !.exec = x, !.ledger = l]
  PROVE  db'.ledger = l /\ db'.exec = x /\ db'.marker = db.marker
  BY DEF TradingInv, SoundRow

\* The end of a step that neither claims the gate nor completes the reconciliation.
Left(t, step, w) ==
  /\ Goto(t, step, w) /\ copy' = [copy EXCEPT ![t] = {}] /\ Onward(t, step, w)
  /\ gate' = IF pc[t] \in GatedSteps THEN Nobody ELSE gate
  /\ pc[t] \in GatedSteps => copy[t] # {}
  /\ db'.marker = db.marker /\ settled' = settled

LEMMA LeftOwned ==
  ASSUME SettleInv, NEW t \in Threads, NEW step, NEW w, Left(t, step, w)
  PROVE  \A u \in Threads : Owned(u)'
  <1>1. Owned(t)'
    <2>1. pc'[t] = step /\ work'[t] = Locals(step, w) /\ copy'[t] = {}
      <3>1. TradingInv /\ Goto(t, step, w) /\ copy' = [copy EXCEPT ![t] = {}]
        BY DEF Left, SettleInv
      <3>2. pc'[t] = step /\ work'[t] = Locals(step, w)
        BY <3>1, Moved
      <3>3. copy'[t] = {}
        BY <3>1, Dropped
      <3> QED BY <3>2, <3>3
    <2>2. ASSUME Reconciles(t)' PROVE gate' = t /\ db'.marker
      <3>1. Reconciles(t)
        BY <2>1, <2>2 DEF Reconciles, Left, Onward, Locals, Phases, Shared
      <3>2. gate = t /\ db.marker
        BY <3>1 DEF SettleInv, Owned
      <3>3. pc[t] \notin GatedSteps
        BY <3>1 DEF Reconciles, Phases, Shared, GatedSteps
      <3> QED BY <3>2, <3>3 DEF Left
    <2> QED BY <2>1, <2>2 DEF Owned
  <1>2. ASSUME NEW u \in Threads \ {t} PROVE Owned(u)'
    <2>1. pc'[u] = pc[u] /\ work'[u] = work[u] /\ copy'[u] = copy[u]
      BY Moved, Dropped DEF Left, SettleInv
    <2>2. Owned(u) /\ Owned(t)
      BY DEF SettleInv
    <2>3. gate = u => gate' = u
      BY <2>2 DEF Left, Owned
    <2> QED BY <2>1, <2>2, <2>3 DEF Owned, Reconciles, Left
  <1> QED BY <1>1, <1>2

LEMMA LeftAwaits ==
  ASSUME SettleInv, NEW t \in Threads, NEW step, NEW w, Left(t, step, w),
         Awaits(db'.ledger)
  PROVE  Awaits(db.ledger)' /\ \A u \in Threads : \A mine \in copy'[u] : Awaits(mine.ledger)'
  <1>1. ASSUME NEW u \in Threads, NEW mine \in copy'[u] PROVE Awaits(mine.ledger)'
    <2>1. mine \in copy[u]
      BY Dropped DEF Left, SettleInv
    <2> QED BY <2>1 DEF SettleInv, Awaits, Left
  <1> QED BY <1>1 DEF Awaits, Left

LEMMA StoresSettles ==
  ASSUME SettleInv, NEW t \in Threads, Stores(t), TradingInv' PROVE SettleInv'
  <1> USE DEF SettleInv
  <1>1. ASSUME NEW step, NEW w, Left(t, step, w), Awaits(db'.ledger) PROVE SettleInv'
    BY <1>1, LeftOwned, LeftAwaits
  <1>2. ASSUME NEW mine \in copy[t], NEW l, NEW x, NEW step, NEW w,
               Stored(t, mine, l, x, step, w)
        PROVE  SettleInv'
    <2>1. db'.ledger = l /\ db'.marker = db.marker
      BY <1>2, RowWritten DEF Stored, Save
    <2>2. Left(t, step, w)
      BY <1>2, <2>1 DEF Stored, Save, Leave, Left
    <2>3. Awaits(l)
      <3>1. Awaits(mine.ledger)
        OBVIOUS
      <3>2. pc[t] = "reconcile" => db.marker
        BY DEF Owned, Reconciles, Phases
      <3> QED BY <1>2, <3>1, <3>2 DEF Stored, Awaits
    <2> QED BY <1>1, <2>1, <2>2, <2>3
  <1>3. ASSUME NEW step, NEW w, Returned(t, step, w) PROVE SettleInv'
    <2>1. Left(t, step, w) /\ db' = db
      BY <1>3 DEF Returned, Return, Leave, Left
    <2> QED BY <1>1, <2>1
  <1> QED BY <1>2, <1>3 DEF Stores

LEMMA AsksSettles ==
  ASSUME SettleInv, NEW t \in Threads, Asks(t), TradingInv' PROVE SettleInv'
  <1> USE DEF SettleInv
  <1>1. PICK step, w : Asked(t, step, w)
    BY DEF Asks
  <1>2. copy[t] = {} /\ pc[t] \notin GatedSteps
    BY <1>1 DEF Asked, TradingInv, SoundThread, StoreSteps, GatedSteps, OtherSteps
  <1>3. copy' = [copy EXCEPT ![t] = {}]
    BY <1>1, <1>2 DEF Asked, TradingInv
  <1>4. Left(t, step, w) /\ db' = db
    BY <1>1, <1>2, <1>3 DEF Asked, Left
  <1> QED BY <1>4, LeftOwned, LeftAwaits

LEMMA LoadSettles ==
  ASSUME SettleInv, NEW t \in Threads, Load(t), TradingInv' PROVE SettleInv'
  <1> USE DEF SettleInv
  <1>1. /\ copy'[t] = {db} /\ \A u \in Threads \ {t} : copy'[u] = copy[u]
        /\ UNCHANGED <<db, pc, work, settled>>
    BY DEF Load, TradingInv
  <1>2. ASSUME NEW u \in Threads PROVE Owned(u)'
    <2>1. CASE pc[t] \in GatedSteps
      <3>1. gate = Nobody /\ gate' = t
        BY <2>1 DEF Load
      <3>2. \A v \in Threads : gate # v
        BY <3>1, TradingAssumption
      <3>3. CASE u = t
        <4>1. ~Reconciles(t)
          BY <3>2 DEF Owned
        <4> QED BY <1>1, <3>1, <3>3, <4>1 DEF Owned, Reconciles
      <3>4. CASE u # t
        <4>1. ~Reconciles(u) /\ (pc[u] \in GatedSteps => copy[u] = {})
          BY <3>2 DEF Owned
        <4> QED BY <1>1, <3>4, <4>1 DEF Owned, Reconciles
      <3> QED BY <3>3, <3>4
    <2>2. CASE pc[t] \notin GatedSteps
      <3>1. gate' = gate
        BY <2>2 DEF Load
      <3> QED BY <1>1, <2>2, <3>1 DEF Owned, Reconciles
    <2> QED BY <2>1, <2>2
  <1>3. ASSUME NEW u \in Threads, NEW mine \in copy'[u] PROVE Awaits(mine.ledger)'
    BY <1>1 DEF Awaits
  <1> QED BY <1>1, <1>2, <1>3 DEF Awaits

LEMMA BreaksSettles ==
  ASSUME SettleInv, NEW t \in Threads, Breaks(t), TradingInv' PROVE SettleInv'
  <1> USE DEF SettleInv
  <1>1. PICK mine \in copy[t] : \E l, x :
          /\ pc[t] = "record" /\ Pending(l)
          /\ db' = [db EXCEPT !.exec = x, !.ledger = l]
          /\ copy' = [copy EXCEPT ![t] = {}] /\ gate' = Nobody
          /\ Goto(t, "idle", Blank) /\ settled' = settled
    BY DEF Breaks
  <1>2. PICK l, x : /\ Pending(l)
                    /\ db' = [db EXCEPT !.exec = x, !.ledger = l]
    BY <1>1
  <1>3. db'.ledger = l /\ db'.marker = db.marker
    BY <1>2, RowWritten
  <1>4. gate = t
    BY <1>1 DEF Owned, Reconciles, Phases
  <1>5. ASSUME NEW u \in Threads
        PROVE  Owned(u)' /\ \A old \in copy'[u] : Awaits(old.ledger)'
    <2>1. CASE u = t
      <3>1. pc'[t] = "idle" /\ copy'[t] = {}
        BY <1>1, Moved, Dropped
      <3> QED BY <2>1, <3>1 DEF Owned, Reconciles, Phases, Shared
    <2>2. CASE u # t
      <3>1. pc'[u] = pc[u] /\ work'[u] = work[u] /\ copy'[u] = copy[u]
        BY <1>1, <2>2, Moved, Dropped
      <3>2. ~Reconciles(u) /\ (pc[u] \in GatedSteps => copy[u] = {})
        BY <1>4, <2>2 DEF Owned
      <3> QED BY <1>1, <1>3, <3>1, <3>2 DEF Owned, Reconciles, Awaits
    <2> QED BY <2>1, <2>2
  <1> QED BY <1>2, <1>3, <1>5 DEF Awaits

LEMMA ClaimSettles ==
  ASSUME SettleInv, NEW t \in Threads, Claims(t), TradingInv' PROVE SettleInv'
  <1> USE DEF SettleInv
  <1>1. db'.marker = TRUE /\ db'.ledger = db.ledger /\ copy' = copy /\ gate' = t
    BY DEF Claims, TradingInv, SoundRow
  <1>2. \A v \in Threads : gate # v
    BY TradingAssumption DEF Claims
  <1>3. ASSUME NEW u \in Threads PROVE Owned(u)'
    <2>1. CASE u = t
      <3>1. pc'[t] = "reconcile"
        BY Moved DEF Claims
      <3> QED BY <1>1, <2>1, <3>1 DEF Owned, GatedSteps
    <2>2. CASE u # t
      <3>1. pc'[u] = pc[u] /\ work'[u] = work[u]
        BY <2>2, Moved DEF Claims
      <3>2. ~Reconciles(u) /\ (pc[u] \in GatedSteps => copy[u] = {})
        BY <1>2 DEF Owned
      <3> QED BY <1>1, <3>1, <3>2 DEF Owned, Reconciles
    <2> QED BY <2>1, <2>2
  <1> QED BY <1>1, <1>3 DEF Awaits

LEMMA CompleteSettles ==
  ASSUME SettleInv, NEW t \in Threads, CompleteReconciliation(t), TradingInv'
  PROVE  SettleInv'
  <1> USE DEF SettleInv
  <1>1. /\ pc[t] = "complete" /\ gate' = Nobody /\ copy' = copy
        /\ \E step \in {"absence", "idle"} : Goto(t, step, Blank)
    BY DEF CompleteReconciliation
  <1>2. /\ db'.ledger = db.ledger
        /\ settled' \/ (db' = db /\ settled' = settled)
    BY DEF CompleteReconciliation, TradingInv, SoundRow
  <1>3. gate = t /\ copy[t] = {}
    BY <1>1 DEF Owned, Reconciles, Phases, TradingInv, SoundThread, StoreSteps, GatedSteps
  <1>4. ASSUME NEW u \in Threads PROVE Owned(u)'
    <2>1. CASE u = t
      <3>1. pc'[t] \in {"absence", "idle"}
        BY <1>1, Moved
      <3> QED BY <1>1, <1>3, <2>1, <3>1 DEF Owned, Reconciles, Phases, Shared
    <2>2. CASE u # t
      <3>1. pc'[u] = pc[u] /\ work'[u] = work[u]
        BY <1>1, <2>2, Moved
      <3>2. ~Reconciles(u) /\ (pc[u] \in GatedSteps => copy[u] = {})
        BY <1>3, <2>2 DEF Owned
      <3> QED BY <1>1, <3>1, <3>2 DEF Owned, Reconciles
    <2> QED BY <2>1, <2>2
  <1> QED BY <1>1, <1>2, <1>4 DEF Awaits

LEMMA NextSettles ==
  ASSUME SettleInv, [Next]_vars, TradingInv' PROVE SettleInv'
  <1>1. ASSUME NEW t \in Threads, Step(t) PROVE SettleInv'
    BY <1>1, StepIs, LoadSettles, StoresSettles, AsksSettles, BreaksSettles, ClaimSettles,
       CompleteSettles DEF SettleInv
  <1>2. CASE ProviderFill \/ ProviderFinish \/ UNCHANGED vars
    <2>1. UNCHANGED <<db, gate, settled, pc, copy, work>>
      BY <1>2 DEF ProviderFill, ProviderFinish, store, vars
    <2> QED BY <2>1 DEF SettleInv, Owned, Reconciles, Awaits
  <1>3. CASE Restart
    <2>1. \A t \in Threads : pc'[t] = "idle" /\ copy'[t] = {}
      BY <1>3 DEF Restart
    <2> DEFINE l == RequireReconciliation(db.ledger)
               x == Block(db.exec)
    <2>2. Pending(l)
      BY RequireKeeps DEF SettleInv, TradingInv, SoundRow
    <2>3. db' = [db EXCEPT !.ledger = l, !.exec = x]
      BY <1>3 DEF Restart
    <2> HIDE DEF l, x
    <2>4. db'.ledger = l
      BY <2>3, RowWritten DEF SettleInv
    <2> QED BY <2>1, <2>2, <2>4
        DEF SettleInv, Owned, Reconciles, Awaits, Phases, Shared, GatedSteps
  <1> QED BY <1>1, <1>2, <1>3 DEF Next

\* Whoever reconciles owns the gate, and the account waits until it is done.
THEOREM SettlingStays == Spec => []SettleInv
  <1>1. Init => SettleInv
    <2> SUFFICES ASSUME Init PROVE SettleInv
      OBVIOUS
    <2> QED BY OpenedSound
        DEF Init, SettleInv, Owned, Reconciles, Awaits, Phases, Shared, GatedSteps
  <1>2. SettleInv /\ [Next]_vars /\ TradingInv' => SettleInv'
    BY NextSettles
  <1> QED BY <1>1, <1>2, TradingStaysSound, PTL DEF Spec

\* A step that sends an order is a save of the row with its operation in it.
LEMMA SendsIs ==
  ASSUME TradingInv, [Next]_vars, NEW t \in Threads, Sends(t)
  PROVE  \E mine \in copy[t] : \E l, x, w : Stored(t, mine, l, x, "post", w)
  <1>1. pc[t] = "begin" /\ pc'[t] = "post"
    BY DEF Sends
  <1>2. PICK u \in Threads : Step(u)
    BY <1>1 DEF Next, vars, ProviderFill, ProviderFinish, Restart
  <1>3. ASSUME NEW step, NEW w, Goto(u, step, w) PROVE u = t /\ step = "post"
    BY <1>1, <1>3, Moved
  <1>4. ~Load(u)
    BY <1>1 DEF Load
  <1>5. ~Claims(u) /\ ~Breaks(u) /\ ~CompleteReconciliation(u)
    <2>1. Goto(u, "reconcile", work[u]) => FALSE
      BY <1>3
    <2>2. ASSUME NEW step \in {"idle", "absence"}, Goto(u, step, Blank) PROVE FALSE
      BY <1>3, <2>2
    <2> QED BY <2>1, <2>2 DEF Claims, Breaks, CompleteReconciliation
  <1>6. ~Asks(u)
    BY <1>3 DEF Asks, Asked
  <1>7. Stores(u)
    BY <1>2, <1>4, <1>5, <1>6, StepIs
  <1>8. ASSUME NEW step, NEW w, Returned(u, step, w) PROVE FALSE
    <2>1. Goto(u, step, w) /\ step # "post"
      BY <1>8 DEF Returned, Return, Leave
    <2> QED BY <1>3, <2>1
  <1>9. ASSUME NEW mine \in copy[u], NEW l, NEW x, NEW step, NEW w,
               Stored(u, mine, l, x, step, w)
        PROVE  u = t /\ step = "post"
    BY <1>3, <1>9 DEF Stored, Save, Leave
  <1>10. \E mine \in copy[u] : \E l, x, step, w : Stored(u, mine, l, x, step, w)
    BY <1>7, <1>8, Zenon DEF Stores
  <1>11. PICK mine \in copy[u] : \E l, x, step, w : Stored(u, mine, l, x, step, w)
    BY <1>10
  <1>12. PICK l, x, step, w : Stored(u, mine, l, x, step, w)
    BY <1>11
  <1>13. u = t /\ step = "post"
    BY <1>9, <1>12
  <1>14. mine \in copy[t] /\ Stored(t, mine, l, x, "post", w)
    BY <1>12, <1>13
  <1> QED BY <1>14

\* For any threads: an order is sent only after a reconciliation completed since
\* start-up, and while none is under way.
THEOREM SentWhenSettled == Spec => SendsOnlyWhenSettled
  <1>1. SettleInv /\ [Next]_vars => [\A t \in Threads : Sends(t) => settled /\ ~db.marker]_vars
    <2> SUFFICES ASSUME SettleInv, [Next]_vars, NEW t \in Threads, Sends(t)
                 PROVE  settled /\ ~db.marker
      OBVIOUS
    <2>1. PICK mine \in copy[t] : \E l, x, w : Stored(t, mine, l, x, "post", w)
      BY SendsIs DEF SettleInv
    <2>2. ~Pending(mine.ledger) /\ ~mine.marker /\ pc[t] \in GatedSteps
      BY <2>1 DEF Stored, Sent, GatedSteps
    <2>3. mine.marker = db.marker /\ Awaits(mine.ledger)
      BY <2>2 DEF SettleInv, Owned
    <2> QED BY <2>2, <2>3 DEF Awaits
  <1> QED BY <1>1, SettlingStays, PTL DEF Spec, SendsOnlyWhenSettled

-------------------------------------------------------------------------------
(***************************************************************************)
(* Commands one at a time.  With two at a time a save undoes what another  *)
(* command saved since the load (the run trading_race checks what still    *)
(* holds then); with one, the copy is the row.                             *)
(***************************************************************************)

OneThread == \A t, u \in Threads : t = u

Journaled(P, ops) == \A p \in DOMAIN P : Operation(P[p].op) \in DOMAIN ops

Once(P) == \A p, q \in DOMAIN P : P[p].op = P[q].op => p = q

\* What is about to be sent is in the row and was never sent; what freezes or
\* recovers agrees with the alert.
Careful(t) ==
  /\ copy[t] \subseteq {db}
  /\ pc[t] = "post" => /\ Operation(work[t].op) \in DOMAIN db.exec.ops
                       /\ \A p \in DOMAIN provider : provider[p].op # work[t].op
  /\ pc[t] = "begin" => alert = "None"
  /\ pc[t] = "freeze" => alert # "None"
  /\ pc[t] = "unfreeze" => ~db.exec.policy.frozen

SerialInv == /\ TradingInv
             /\ Journaled(provider, db.exec.ops) /\ Once(provider)
             /\ db.exec.policy.frozen => alert # "None"
             /\ \A t \in Threads : Careful(t)

LEMMA SameOpsKeep ==
  ASSUME NEW P, NEW Q, SameOps(P, Q)
  PROVE  /\ \A ops : Journaled(P, ops) => Journaled(Q, ops)
         /\ Once(P) => Once(Q)
         /\ \A n : (\A p \in DOMAIN P : P[p].op # n) => (\A p \in DOMAIN Q : Q[p].op # n)
  BY DEF SameOps, Journaled, Once

LEMMA StoresSerially ==
  ASSUME SerialInv, OneThread, NEW t \in Threads, Stores(t), TradingInv' PROVE SerialInv'
  <1> USE DEF SerialInv
  <1>1. SerialInv' <=> /\ Journaled(provider, db.exec.ops)' /\ Once(provider)'
                       /\ db'.exec.policy.frozen => alert' # "None"
                       /\ Careful(t)'
    BY DEF OneThread
  <1>2. ASSUME NEW mine \in copy[t], NEW l, NEW x, NEW step, NEW w,
               Stored(t, mine, l, x, step, w)
        PROVE  SerialInv'
    <2>1. mine = db
      BY DEF Careful
    <2>2. db'.exec = x
      BY <1>2, RowWritten DEF Stored, Save
    <2>3. /\ Goto(t, step, w) /\ copy' = [copy EXCEPT ![t] = {}]
          /\ alert' = alert /\ provider' = provider
      BY <1>2 DEF Stored, Save, Leave
    <2>4. pc'[t] = step /\ work'[t] = Locals(step, w)
      BY <2>3, Moved
    <2>5. copy'[t] = {}
      BY <2>3, Dropped
    <2>6. /\ DOMAIN db.exec.ops \subseteq DOMAIN x.ops /\ step # "begin" /\ step # "freeze"
          /\ \/ x.policy = db.exec.policy /\ step # "unfreeze"
             \/ pc[t] = "freeze" /\ step = "idle"
             \/ x.policy.frozen = FALSE
      BY <1>2, <2>1 DEF Stored
    <2>7. Journaled(provider, db.exec.ops)' /\ Once(provider)'
      BY <2>2, <2>3, <2>6 DEF Journaled, Once
    <2>8. x.policy.frozen => alert # "None"
      BY <2>6 DEF Careful
    <2>9. ASSUME step = "post"
          PROVE  /\ Operation(w.op) \in DOMAIN x.ops
                 /\ \A p \in DOMAIN provider : provider[p].op # w.op
      BY <1>2, <2>1, <2>9 DEF Stored, Sent, Journaled
    <2>10. Careful(t)'
      BY <2>2, <2>3, <2>4, <2>5, <2>6, <2>9 DEF Careful, Locals
    <2> QED BY <1>1, <2>2, <2>3, <2>7, <2>8, <2>10
  <1>3. ASSUME NEW step, NEW w, Returned(t, step, w) PROVE SerialInv'
    <2>1. /\ Goto(t, step, w) /\ copy' = [copy EXCEPT ![t] = {}]
          /\ UNCHANGED <<alert, provider, db>>
          /\ step \notin {"begin", "post", "freeze", "unfreeze"}
      BY <1>3 DEF Returned, Return, Leave
    <2>2. pc'[t] = step
      BY <2>1, Moved
    <2>3. copy'[t] = {}
      BY <2>1, Dropped
    <2> QED BY <1>1, <2>1, <2>2, <2>3 DEF Careful
  <1> QED BY <1>2, <1>3 DEF Stores

\* A first order of a journaled operation reaches the provider.
LEMMA SentOnce ==
  ASSUME NEW P, SoundProvider(P), NEW n \in Operations,
         Request[n].order.quantity \in Int, Request[n].order.quantity > 0,
         NEW Q, Q = Append(P, ProviderOrder(n)),
         NEW ops, Journaled(P, ops), Once(P), Operation(n) \in DOMAIN ops,
         \A p \in DOMAIN P : P[p].op # n
  PROVE  Journaled(Q, ops) /\ Once(Q)
  <1>1. /\ DOMAIN Q = DOMAIN P \cup {Len(Q)} /\ Q[Len(Q)].op = n
        /\ Len(Q) \notin DOMAIN P /\ \A p \in DOMAIN P : Q[p] = P[p]
    <2> DEFINE e == ProviderOrder(n)
    <2>1. e.op = n /\ Len(P) \in Nat /\ DOMAIN P = 1 .. Len(P)
          /\ P \in Seq(ProviderRecords)
      BY DEF ProviderOrder, SoundProvider
    <2> HIDE DEF e
    <2>2. Q = Append(P, e)
      BY DEF e
    <2> QED BY <2>1, <2>2
  <1> QED BY <1>1 DEF Journaled, Once

LEMMA AsksSerially ==
  ASSUME SerialInv, OneThread, NEW t \in Threads, Asks(t), TradingInv' PROVE SerialInv'
  <1> USE DEF SerialInv
  <1>1. PICK step, w : Asked(t, step, w)
    BY DEF Asks
  <1>2. copy[t] = {} /\ copy' = copy /\ db' = db
    BY <1>1 DEF Asked, SoundThread, TradingInv, StoreSteps, GatedSteps, OtherSteps
  <1>3. pc'[t] = step /\ step \notin {"post", "unfreeze"}
    BY <1>1, Moved DEF Asked
  <1>4. Careful(t)'
    BY <1>1, <1>2, <1>3 DEF Asked, Careful
  <1>5. db.exec.policy.frozen => alert' # "None"
    BY <1>1 DEF Asked, Careful
  <1>6. Journaled(provider', db.exec.ops) /\ Once(provider')
    <2>1. CASE SameOps(provider, provider')
      BY <2>1, SameOpsKeep
    <2>2. CASE /\ pc[t] = "post"
               /\ provider' = Append(provider, ProviderOrder(work[t].op))
      <3> DEFINE n == work[t].op
      <3>1. /\ n \in Operations /\ Request[n].order.quantity > 0
            /\ Request[n].order.quantity \in Int /\ SoundProvider(provider)
        BY <2>2, AtThread, TradingAssumption DEF Placed, OrderSteps, TradingInv
      <3>2. /\ Operation(n) \in DOMAIN db.exec.ops
            /\ \A p \in DOMAIN provider : provider[p].op # n
        BY <2>2 DEF Careful
      <3>3. Journaled(provider, db.exec.ops) /\ Once(provider)
        OBVIOUS
      <3>4. provider' = Append(provider, ProviderOrder(n))
        BY <2>2
      <3> DEFINE Q == provider'
                 ops == db.exec.ops
      <3>5. /\ Journaled(provider, ops) /\ Once(provider) /\ Operation(n) \in DOMAIN ops
            /\ \A p \in DOMAIN provider : provider[p].op # n
            /\ Q = Append(provider, ProviderOrder(n))
        BY <3>2, <3>3, <3>4
      <3> HIDE DEF n, Q, ops
      <3>6. Journaled(Q, ops) /\ Once(Q)
        BY <3>1, <3>5, SentOnce
      <3>7. Q = provider' /\ ops = db.exec.ops
        BY DEF Q, ops
      <3> QED BY <3>6, <3>7, <1>2, Zenon
    <2> QED BY <1>1, <2>1, <2>2 DEF Asked
  <1> QED BY <1>2, <1>4, <1>5, <1>6 DEF OneThread

\* Steps that change neither the gate of the account, the provider nor the alert.
LEMMA QuietSerially ==
  ASSUME SerialInv, OneThread, TradingInv', UNCHANGED <<alert, provider>>,
         db'.exec = db.exec, NEW t \in Threads, copy'[t] \subseteq {db'},
         pc'[t] \in {pc[t], "idle", "reconcile", "absence"},
         work'[t] = work[t] \/ pc'[t] # "post"
  PROVE  SerialInv'
  BY DEF SerialInv, Careful, OneThread

LEMMA OthersSerially ==
  ASSUME SerialInv, OneThread, NEW t \in Threads, TradingInv',
         Load(t) \/ Claims(t) \/ CompleteReconciliation(t)
  PROVE  SerialInv'
  <1> USE DEF SerialInv
  <1>1. CASE Load(t)
    <2>1. copy'[t] = {db} /\ UNCHANGED <<db, alert, provider, pc, work>>
      BY <1>1 DEF Load, TradingInv
    <2> QED BY <2>1, QuietSerially
  <1>2. CASE Claims(t)
    <2>1. /\ db'.exec = db.exec /\ UNCHANGED <<alert, provider>> /\ copy[t] = {}
          /\ copy' = copy
      BY <1>2 DEF Claims, TradingInv, SoundRow, SoundThread, StoreSteps, GatedSteps
    <2>2. pc'[t] = "reconcile"
      BY <1>2, Moved DEF Claims
    <2> QED BY <2>1, <2>2, QuietSerially
  <1>3. CASE CompleteReconciliation(t)
    <2>1. /\ db'.exec = db.exec /\ UNCHANGED <<alert, provider>> /\ copy[t] = {}
          /\ copy' = copy
      BY <1>3 DEF CompleteReconciliation, TradingInv, SoundRow, SoundThread, StoreSteps,
         GatedSteps
    <2>2. PICK step \in {"idle", "absence"} : Goto(t, step, Blank)
      BY <1>3 DEF CompleteReconciliation
    <2>3. pc'[t] = step
      BY <2>2, Moved
    <2> QED BY <2>1, <2>3, QuietSerially
  <1> QED BY <1>1, <1>2, <1>3

LEMMA BreaksSerially ==
  ASSUME SerialInv, OneThread, NEW t \in Threads, Breaks(t), TradingInv' PROVE SerialInv'
  <1> USE DEF SerialInv
  <1>1. PICK mine \in copy[t] : \E l, x :
          /\ Extends(mine.exec, x)
          /\ db' = [db EXCEPT !.exec = x, !.ledger = l]
          /\ copy' = [copy EXCEPT ![t] = {}]
          /\ Goto(t, "idle", Blank) /\ UNCHANGED <<alert, provider>>
    BY DEF Breaks
  <1> PICK l, x : Extends(mine.exec, x) /\ db' = [db EXCEPT !.exec = x, !.ledger = l]
    BY <1>1
  <1>7. db' = [db EXCEPT !.exec = x, !.ledger = l]
    OBVIOUS
  <1>8. db'.exec = x
    BY <1>7, RowWritten
  <1>9. mine = db
    BY DEF Careful
  <1>2. db'.exec = x /\ mine = db
    BY <1>8, <1>9
  <1>3. pc'[t] = "idle" /\ copy'[t] = {}
    BY <1>1, Moved, Dropped
  <1>4. x.policy = db.exec.policy /\ DOMAIN db.exec.ops \subseteq DOMAIN x.ops
    BY <1>2 DEF Extends
  <1>5. Careful(t)'
    BY <1>3 DEF Careful
  <1>6. Journaled(provider, db.exec.ops)' /\ Once(provider)'
    BY <1>1, <1>2, <1>4 DEF Journaled, Once
  <1> QED BY <1>1, <1>2, <1>4, <1>5, <1>6 DEF OneThread

LEMMA NextSerially ==
  ASSUME SerialInv, OneThread, [Next]_vars, TradingInv' PROVE SerialInv'
  <1>1. ASSUME NEW t \in Threads, Step(t) PROVE SerialInv'
    BY <1>1, StepIs, StoresSerially, AsksSerially, OthersSerially, BreaksSerially
    DEF SerialInv
  <1>2. CASE ProviderFill \/ ProviderFinish
    <2>1. SameOps(provider, provider')
      BY <1>2, ProviderGrows DEF SameOps, Grows, SerialInv
    <2>2. UNCHANGED <<db, alert, pc, work, copy>>
      BY <1>2 DEF ProviderFill, ProviderFinish, store
    <2>3. Journaled(provider', db.exec.ops) /\ Once(provider')
      BY <2>1, SameOpsKeep DEF SerialInv
    <2>4. ASSUME NEW t \in Threads PROVE Careful(t)'
      <3>1. \A n : (\A p \in DOMAIN provider : provider[p].op # n)
                     => (\A p \in DOMAIN provider' : provider'[p].op # n)
        BY <2>1, SameOpsKeep
      <3> QED BY <2>2, <3>1 DEF Careful, SerialInv
    <2> QED BY <2>2, <2>3, <2>4 DEF SerialInv
  <1>3. CASE Restart
    <2> DEFINE l == RequireReconciliation(db.ledger)
               x == Block(db.exec)
    <2>1. Extends(db.exec, x)
      BY GateExtends DEF SerialInv, TradingInv, SoundRow, SoundGate
    <2>2. db' = [db EXCEPT !.ledger = l, !.exec = x]
      BY <1>3 DEF Restart
    <2> HIDE DEF l, x
    <2>3. db'.exec = x
      BY <2>2, RowWritten DEF SerialInv
    <2>4. /\ \A t \in Threads : pc'[t] = "idle" /\ copy'[t] = {}
          /\ UNCHANGED <<alert, provider>>
      BY <1>3 DEF Restart
    <2>5. x.policy = db.exec.policy /\ DOMAIN db.exec.ops \subseteq DOMAIN x.ops
      BY <2>1 DEF Extends
    <2> QED BY <2>3, <2>4, <2>5 DEF SerialInv, Careful, Journaled, Once
  <1>4. CASE UNCHANGED vars
    BY <1>4 DEF vars, SerialInv, Careful
  <1> QED BY <1>1, <1>2, <1>3, <1>4 DEF Next

\* What a thread loaded is the row, what the provider has is in it, once.
THEOREM SerialStays == ASSUME OneThread PROVE Spec => []SerialInv
  <1>1. Init => SerialInv
    <2> SUFFICES ASSUME Init PROVE SerialInv
      OBVIOUS
    <2>1. db.exec.policy.frozen = FALSE
      BY TradingAssumption DEF Init, NewExecution
    <2>2. /\ DOMAIN provider = {} /\ alert = "None"
          /\ \A t \in Threads : pc[t] = "idle" /\ copy[t] = {}
      BY DEF Init
    <2> QED BY <2>1, <2>2, OpenedSound DEF SerialInv, Careful, Journaled, Once
  <1>2. SerialInv /\ [Next]_vars /\ TradingInv' => SerialInv'
    BY NextSerially
  <1> QED BY <1>1, <1>2, TradingStaysSound, PTL DEF Spec

\* With one command at a time, whatever was sent to the provider is in the journal
\* of operations, through lost answers and restarts.
THEOREM JournalStaysSound == ASSUME OneThread PROVE Spec => []JournalSound
  <1>1. SerialInv => JournalSound
    BY TypesFollow DEF SerialInv, Journaled, JournalSound, OrdersAreJournaled
  <1> QED BY <1>1, SerialStays, PTL

\* With one command at a time, no operation reaches the provider twice.
THEOREM SubmittedAtMostOnce == ASSUME OneThread PROVE Spec => []SubmittedOnce
  <1>1. SerialInv => SubmittedOnce
    BY DEF SerialInv, Once, SubmittedOnce
  <1> QED BY <1>1, SerialStays, PTL

\* With one command at a time, no order is sent from the freeze of the Host to its
\* recovery.
THEOREM FreezeHolds == ASSUME OneThread PROVE Spec => FreezeBlocksNewRisk
  <1>1. SerialInv /\ [Next]_vars =>
          [\A t \in Threads : Sends(t) => alert = "None" /\ ~db.exec.policy.frozen]_vars
    BY DEF SerialInv, Careful, Sends
  <1> QED BY <1>1, SerialStays, PTL DEF Spec, FreezeBlocksNewRisk

-------------------------------------------------------------------------------
(***************************************************************************)
(* Provider evidence, with commands one at a time.  Every order open at    *)
(* the provider is tracked by an open order here, in every state; and a    *)
(* local order that stands for one is open.  A local order ends only when  *)
(* the provider's has ended, was never created, or is not in a listing     *)
(* that has every order still open.                                        *)
(***************************************************************************)

Opens(P) == {p \in DOMAIN P : P[p].status = "Open"}

\* The local orders of the operation that created order p.
Own(P, ops, p) == UNION {ops[o].local : o \in {Operation(P[p].op)} \cap DOMAIN ops}

\* Each operation has its own local orders, of the size it asked for.
Bound(l, ops) ==
  /\ l.nextId \in Nat
  /\ \A o \in DOMAIN ops : \A id \in ops[o].local :
       /\ id \in DOMAIN l.orders /\ l.orders[id].filled \in Int
       /\ \E k \in 0 .. l.nextId - 1 : id = LocalId(k)
       /\ \A n \in Operations :
            o = Operation(n) => l.orders[id].quantity = Request[n].order.quantity
       /\ \A u \in DOMAIN ops : id \in ops[u].local => u = o

\* Only orders of the provider are imported.
FromProvider(P, orders) ==
  \A id \in DOMAIN orders : id[1] = "provider-order" => id[2] \in DOMAIN P

Tracked(P, orders, ops) ==
  /\ FromProvider(P, orders)
  /\ \A p \in Opens(P) :
       /\ \A o \in DOMAIN ops : \A id \in ops[o].local :
            ops[o].remote = {p} => IsOpen(orders[id])
       /\ ImportedId(p) \in DOMAIN orders => IsOpen(orders[ImportedId(p)])
       /\ \E id \in DOMAIN orders : /\ IsOpen(orders[id])
                                    /\ id = ImportedId(p) \/ id \in Own(P, ops, p)

\* What a command about to decide knows: that its order is open here, or that the
\* provider's is not.
Ready(P, orders, ops, step, w) ==
  /\ step \in {"post", "result"} =>
       \A id \in ops[Operation(w.op)].local : IsOpen(orders[id])
  /\ step = "post" => ops[Operation(w.op)].local # {}
  /\ step \in {"reject", "cancelResult", "cancelLocal"} =>
       \A p \in Opens(P) : P[p].op # w.op

Deciding == {"post", "result", "reject", "cancelResult", "cancelLocal"}

\* What it was told: an answer the provider is not behind, a listing that has every
\* order still open.
Heard(P, step, w) ==
  /\ \A answer \in w.seen : \A p \in w.remote :
       /\ answer.filled \in Int /\ answer.filled <= P[p].filled
       /\ answer.status # "Open" => P[p].status # "Open"
  /\ w.reconciling /\ step # "list" => Opens(P) \subseteq {entry.id : entry \in w.listing}

EvidenceInv ==
  /\ SerialInv
  /\ Bound(db.ledger, db.exec.ops)
  /\ Tracked(provider, db.ledger.orders, db.exec.ops)
  /\ \A t \in Threads : /\ Ready(provider, db.ledger.orders, db.exec.ops, pc[t], work[t])
                        /\ Heard(provider, pc[t], work[t])

\* The operations of ops have the local orders they had; new ones have none.
SameLocals(older, ops) ==
  /\ DOMAIN older \subseteq DOMAIN ops
  /\ \A o \in DOMAIN ops : IF o \in DOMAIN older THEN ops[o].local = older[o].local
                                                 ELSE ops[o].local = {}

SameBindings(older, ops) ==
  /\ SameLocals(older, ops)
  /\ \A o \in DOMAIN older : ops[o].local = {} \/ ops[o].remote = older[o].remote

LEMMA LostBindings ==
  ASSUME NEW P, NEW x, SoundGate(P, x), NEW p
  PROVE  SameBindings(x.ops, LoseTrack(x, p).ops)
  <1> DEFINE y == LoseTrack(x, p)
  <1>1. Guarded(x)
    BY DEF SoundGate
  <1> HIDE DEF y
  <1>2. /\ y.policy = x.policy /\ y.blocked = TRUE
        /\ DOMAIN y.ops = DOMAIN x.ops \cup {LostTrack(p)}
        /\ y.ops[LostTrack(p)].local = {} /\ y.ops[LostTrack(p)].remote = {p}
        /\ y.ops[LostTrack(p)].outcome = "Uncertain"
        /\ \A q \in DOMAIN y.ops \ {LostTrack(p)} :
             /\ y.ops[q].local = x.ops[q].local /\ y.ops[q].remote = x.ops[q].remote
             /\ y.ops[q].outcome = x.ops[q].outcome
    BY <1>1, LoseIs, ZenonT(60) DEF y
  <1>3. LostTrack(p) \in DOMAIN x.ops => x.ops[LostTrack(p)].local = {}
    BY DEF SoundGate, SoundJournal, SoundEntry, LostTrack, Operation
  <1> QED BY <1>2, <1>3 DEF SameBindings, SameLocals, y

LEMMA BindingsStay ==
  ASSUME NEW P, NEW x, SoundGate(P, x), NEW o, NEW p, NEW known, NEW matches
  PROVE  /\ SameBindings(x.ops, x.ops)
         /\ o \in DOMAIN x.ops => SameBindings(x.ops, MarkUncertain(x, o).ops)
         /\ SameBindings(x.ops, LoseTrack(x, p).ops)
         /\ SameBindings(x.ops, ResolveUncertainty(x, p).ops)
         /\ SameBindings(x.ops, ResolveAbsence(x, known).ops)
         /\ Settle(x, matches).ops = x.ops /\ Block(x).ops = x.ops
         /\ Freeze(x).ops = x.ops /\ Unfreeze(x).ops = x.ops
  <1> DEFINE lost == LoseTrack(x, p)
             marked == MarkUncertain(x, o)
             resolved == ResolveUncertainty(x, p)
             proven == ResolveAbsence(x, known)
  <1>1. Guarded(x) /\ SoundJournal(P, x.ops)
    BY DEF SoundGate
  <1>2. o \in DOMAIN x.ops => SameBindings(x.ops, marked.ops)
    <2> SUFFICES ASSUME o \in DOMAIN x.ops PROVE SameBindings(x.ops, marked.ops)
      OBVIOUS
    <2>1. /\ DOMAIN marked.ops = DOMAIN x.ops
          /\ \A q \in DOMAIN marked.ops : /\ marked.ops[q].local = x.ops[q].local
                                          /\ marked.ops[q].remote = x.ops[q].remote
      BY <1>1, MarkIs
    <2> HIDE DEF marked
    <2> QED BY <2>1 DEF SameBindings, SameLocals
  <1>3. SameBindings(x.ops, lost.ops)
    BY LostBindings
  <1>4. SameBindings(x.ops, resolved.ops) /\ SameBindings(x.ops, proven.ops)
    <2>1. \A y \in {resolved, proven} :
            /\ DOMAIN y.ops = DOMAIN x.ops
            /\ \A q \in DOMAIN y.ops : /\ y.ops[q].local = x.ops[q].local
                                       /\ y.ops[q].remote = x.ops[q].remote
      BY <1>1, AcceptIs
    <2> HIDE DEF resolved, proven
    <2> QED BY <2>1 DEF SameBindings, SameLocals
  <1>5. /\ Settle(x, matches).ops = x.ops /\ Block(x).ops = x.ops
        /\ Freeze(x).ops = x.ops /\ Unfreeze(x).ops = x.ops
    <2>1. /\ Settle(x, matches) = [policy |-> x.policy, ops |-> x.ops,
                                   blocked |-> ~matches \/ HasUncertainty(x)]
          /\ Block(x) = [policy |-> x.policy, blocked |-> TRUE, ops |-> x.ops]
          /\ Freeze(x) = [policy |-> [x.policy EXCEPT !.frozen = TRUE], blocked |-> TRUE,
                          ops |-> x.ops]
          /\ Unfreeze(x) = [policy |-> [x.policy EXCEPT !.frozen = FALSE],
                            blocked |-> FALSE, ops |-> x.ops]
      BY <1>1, FlagsAre
    <2> QED BY <2>1
  <1>6. SameBindings(x.ops, x.ops)
    BY DEF SameBindings, SameLocals
  <1> HIDE DEF lost, marked, resolved, proven
  <1> QED BY <1>2, <1>3, <1>4, <1>5, <1>6 DEF lost, marked, resolved, proven

LEMMA BindingsChain ==
  ASSUME NEW a, NEW b, NEW c, SameBindings(a, b), SameBindings(b, c)
  PROVE  SameBindings(a, c)
  BY DEF SameBindings, SameLocals

\* An order submitted here keeps its size, and its filled quantity a number.
SameOrders(orders, news) ==
  /\ DOMAIN orders \subseteq DOMAIN news
  /\ \A id \in DOMAIN orders : (\E k : id = LocalId(k)) =>
       /\ news[id].quantity = orders[id].quantity
       /\ orders[id].filled \in Int => news[id].filled \in Int

LEMMA BoundKept ==
  ASSUME NEW l, NEW older, Bound(l, older), NEW k, NEW ops, SameLocals(older, ops),
         k.nextId = l.nextId, SameOrders(l.orders, k.orders)
  PROVE  Bound(k, ops)
  BY DEF Bound, SameLocals, SameOrders

\* Only what no open order of the provider stands behind ends.
Lasts(P, ops, orders, news) ==
  /\ FromProvider(P, orders) => FromProvider(P, news)
  /\ \A p \in Opens(P) : \A id \in DOMAIN news :
       id = ImportedId(p) \/ id \in Own(P, ops, p) =>
         IsOpen(news[id]) \/ (id \in DOMAIN orders /\ ~IsOpen(orders[id]))

\* A bound order is its operation's own.
LEMMA OwnIs ==
  ASSUME NEW P, NEW ops, SoundJournal(P, ops), NEW p \in DOMAIN P, NEW o \in DOMAIN ops,
         NEW id \in ops[o].local, ops[o].remote = {p}
  PROVE  id \in Own(P, ops, p) /\ o = Operation(P[p].op)
  BY DEF SoundJournal, SoundEntry, Identifies, Created, Own

LEMMA SameOwn ==
  ASSUME NEW P, NEW older, NEW ops, SameLocals(older, ops), NEW p
  PROVE  Own(P, ops, p) = Own(P, older, p)
  BY DEF SameLocals, Own

\* An operation is newly bound to an open order of the provider only while its own
\* is open.
BindsOpen(P, orders, older, ops) ==
  \A p \in Opens(P) : \A o \in DOMAIN ops : \A id \in ops[o].local :
    ops[o].remote = {p} =>
      (o \in DOMAIN older /\ older[o].remote = {p}) \/ IsOpen(orders[id])

LEMMA TrackKept ==
  ASSUME NEW P, NEW l, NEW older, Tracked(P, l.orders, older), Bound(l, older),
         NEW ops, SameLocals(older, ops), SoundJournal(P, ops),
         NEW news, DOMAIN l.orders \subseteq DOMAIN news, Lasts(P, older, l.orders, news),
         BindsOpen(P, l.orders, older, ops)
  PROVE  Tracked(P, news, ops)
  <1> SUFFICES ASSUME NEW p \in Opens(P)
               PROVE  /\ \A o \in DOMAIN ops : \A id \in ops[o].local :
                           ops[o].remote = {p} => IsOpen(news[id])
                      /\ ImportedId(p) \in DOMAIN news => IsOpen(news[ImportedId(p)])
                      /\ \E id \in DOMAIN news : /\ IsOpen(news[id])
                                                 /\ \/ id = ImportedId(p)
                                                    \/ id \in Own(P, ops, p)
    BY DEF Tracked, Lasts
  <1>1. Own(P, ops, p) = Own(P, older, p) /\ p \in DOMAIN P
    BY SameOwn DEF Opens
  <1>2. ASSUME NEW id \in DOMAIN l.orders, IsOpen(l.orders[id]),
               id = ImportedId(p) \/ id \in Own(P, older, p)
        PROVE  IsOpen(news[id])
    BY <1>2 DEF Lasts
  <1>3. ASSUME NEW o \in DOMAIN ops, NEW id \in ops[o].local, ops[o].remote = {p}
        PROVE  IsOpen(news[id])
    <2>1. id \in Own(P, older, p)
      BY <1>1, <1>3, OwnIs
    <2>2. o \in DOMAIN older /\ id \in older[o].local
      BY DEF SameLocals
    <2>3. id \in DOMAIN l.orders
      BY <2>2 DEF Bound
    <2>4. IsOpen(l.orders[id])
      BY <1>3, <2>2 DEF Tracked, BindsOpen
    <2> QED BY <1>2, <2>1, <2>3, <2>4
  <1>4. ImportedId(p) \in DOMAIN news => IsOpen(news[ImportedId(p)])
    BY DEF Lasts, Tracked
  <1>5. PICK id \in DOMAIN l.orders : /\ IsOpen(l.orders[id])
                                      /\ id = ImportedId(p) \/ id \in Own(P, older, p)
    BY DEF Tracked
  <1>6. IsOpen(news[id]) /\ id \in DOMAIN news
    BY <1>2, <1>5
  <1> QED BY <1>1, <1>3, <1>4, <1>5, <1>6

-------------------------------------------------------------------------------
\* Steps that leave the local orders as they are.

LEMMA IdleKnows ==
  \A P, orders, ops : Ready(P, orders, ops, "idle", Blank) /\ Heard(P, "idle", Blank)
  BY DEF Ready, Heard, Blank

LEMMA EvidenceMoves ==
  ASSUME EvidenceInv, OneThread, SerialInv', NEW t \in Threads, NEW step, NEW w,
         Goto(t, step, w), Bound(db'.ledger, db'.exec.ops),
         Tracked(provider', db'.ledger.orders, db'.exec.ops),
         \/ step = "idle"
         \/ /\ Ready(provider', db'.ledger.orders, db'.exec.ops, step, w)
            /\ Heard(provider', step, w)
  PROVE  EvidenceInv'
  <1>1. pc'[t] = step /\ work'[t] = Locals(step, w)
    BY Moved DEF EvidenceInv, SerialInv
  <1>2. /\ Ready(provider', db'.ledger.orders, db'.exec.ops, pc'[t], work'[t])
        /\ Heard(provider', pc'[t], work'[t])
    <2>1. CASE step = "idle"
      BY <1>1, <2>1, IdleKnows DEF Locals
    <2>2. CASE step # "idle"
      BY <1>1, <2>2 DEF Locals
    <2> QED BY <2>1, <2>2
  <1>3. \A u \in Threads : u = t
    BY DEF OneThread
  <1> QED BY <1>2, <1>3 DEF EvidenceInv

LEMMA AtHand ==
  ASSUME EvidenceInv, NEW t \in Threads, NEW mine \in copy[t]
  PROVE  mine = db
  BY DEF EvidenceInv, SerialInv, Careful

\* What was heard is still so at the next step.
LEMMA HeardOn ==
  ASSUME EvidenceInv, NEW t \in Threads, pc[t] # "list", NEW step, NEW w,
         w.seen = {} \/ (w.seen = work[t].seen /\ w.remote = work[t].remote),
         ~w.reconciling \/ (w.reconciling = work[t].reconciling /\ w.listing = work[t].listing)
  PROVE  Heard(provider, step, w)
  <1>1. Heard(provider, pc[t], work[t])
    BY DEF EvidenceInv
  <1> QED BY <1>1 DEF Heard

LEMMA RowIsSound ==
  ASSUME EvidenceInv
  PROVE  /\ TradingInv /\ SoundProvider(provider) /\ Sound(db.ledger)
         /\ SoundGate(provider, db.exec) /\ SoundJournal(provider, db.exec.ops)
         /\ Bound(db.ledger, db.exec.ops)
         /\ Tracked(provider, db.ledger.orders, db.exec.ops)
  BY DEF EvidenceInv, SerialInv, TradingInv, SoundRow, SoundGate

LEMMA SavedRow ==
  ASSUME EvidenceInv, SerialInv', NEW t, NEW l, NEW x, NEW step, NEW w,
         Save(t, l, x, step, w)
  PROVE  /\ db'.ledger = l /\ db'.exec = x /\ provider' = provider
         /\ SoundJournal(provider, x.ops) /\ Goto(t, step, w)
  <1>1. db' = [db EXCEPT !.ledger = l, !.exec = x] /\ provider' = provider
    BY DEF Save, Leave
  <1>2. db'.ledger = l /\ db'.exec = x
    BY <1>1, RowWritten DEF EvidenceInv, SerialInv
  <1>3. SoundJournal(provider', db'.exec.ops)
    BY DEF SerialInv, TradingInv, SoundRow, SoundGate
  <1> QED BY <1>1, <1>2, <1>3 DEF Save, Leave

LEMMA SameLasts ==
  ASSUME NEW P, NEW ops, NEW orders
  PROVE  Lasts(P, ops, orders, orders) /\ SameOrders(orders, orders)
  BY DEF Lasts, SameOrders

\* The orders of the row and the bindings of its operations are saved as they were.
LEMMA QuietSave ==
  ASSUME EvidenceInv, OneThread, SerialInv', NEW t \in Threads, NEW l, NEW x, NEW step, NEW w,
         Save(t, l, x, step, w), l.orders = db.ledger.orders, l.nextId = db.ledger.nextId,
         SameBindings(db.exec.ops, x.ops),
         step = "idle" \/ (step \notin Deciding /\ Heard(provider, step, w))
  PROVE  EvidenceInv'
  <1>1. /\ db'.ledger = l /\ db'.exec = x /\ provider' = provider
        /\ SoundJournal(provider, x.ops) /\ Goto(t, step, w)
    BY SavedRow
  <1>2. /\ Bound(db.ledger, db.exec.ops) /\ Tracked(provider, db.ledger.orders, db.exec.ops)
        /\ SameLocals(db.exec.ops, x.ops)
    BY RowIsSound DEF SameBindings
  <1>3. Bound(l, x.ops)
    BY <1>2, SameLasts, BoundKept
  <1>4. Tracked(provider, l.orders, x.ops)
    <2>1. BindsOpen(provider, db.ledger.orders, db.exec.ops, x.ops)
      BY DEF BindsOpen, SameBindings, SameLocals
    <2>2. Lasts(provider, db.exec.ops, db.ledger.orders, l.orders)
      BY SameLasts
    <2> QED BY <1>1, <1>2, <2>1, <2>2, TrackKept
  <1>5. \/ step = "idle"
        \/ Ready(provider, l.orders, x.ops, step, w) /\ Heard(provider, step, w)
    BY DEF Ready, Deciding
  <1> QED BY <1>1, <1>3, <1>4, <1>5, EvidenceMoves

\* The row is left as it was.
LEMMA QuietReturn ==
  ASSUME EvidenceInv, OneThread, SerialInv', NEW t \in Threads, NEW step, NEW w,
         Return(t, step, w),
         step = "idle" \/ (step \notin Deciding /\ Heard(provider, step, w))
  PROVE  EvidenceInv'
  <1>1. db' = db /\ provider' = provider /\ Goto(t, step, w)
    BY DEF Return, Leave
  <1>2. \/ step = "idle"
        \/ /\ Ready(provider', db'.ledger.orders, db'.exec.ops, step, w)
           /\ Heard(provider', step, w)
    BY <1>1 DEF Ready, Deciding
  <1> QED BY <1>1, <1>2, RowIsSound, EvidenceMoves

LEMMA SameLedger ==
  ASSUME NEW l, Sound(l), NEW snapshot
  PROVE  /\ RequireReconciliation(l).orders = l.orders
         /\ RequireReconciliation(l).nextId = l.nextId
         /\ Reconcile(l, snapshot).orders = l.orders
         /\ Reconcile(l, snapshot).nextId = l.nextId
  <1>1. /\ RequireReconciliation(l).orders = l.orders
        /\ RequireReconciliation(l).nextId = l.nextId
    BY DEF RequireReconciliation, Sound, LedgerFields
  <1> DEFINE new == IF Matches(l, snapshot) THEN "Reconciled" ELSE "Required"
             k == [l EXCEPT !.cash = snapshot.cash, !.positions = snapshot.positions,
                            !.reconciliation = new]
  <1>2. Reconcile(l, snapshot) = k
    BY Zenon DEF Reconcile
  <1> HIDE DEF new
  <1>3. k.orders = l.orders /\ k.nextId = l.nextId
    BY DEF Sound, LedgerFields
  <1> QED BY <1>1, <1>2, <1>3

LEMMA OutcomeUnknownEvident ==
  ASSUME EvidenceInv, OneThread, SerialInv', NEW t \in Threads, RetainUncertain(t)
  PROVE  EvidenceInv'
  <1> DEFINE o == Operation(work[t].op)
             l == RequireReconciliation(db.ledger)
             x == MarkUncertain(db.exec, o)
  <1>1. \/ o \in DOMAIN db.exec.ops /\ Save(t, l, x, "idle", Blank)
        \/ Return(t, "idle", Blank)
    BY AtHand DEF RetainUncertain
  <1>2. l.orders = db.ledger.orders /\ l.nextId = db.ledger.nextId
    BY RowIsSound, SameLedger
  <1>3. o \in DOMAIN db.exec.ops => SameBindings(db.exec.ops, x.ops)
    BY RowIsSound, BindingsStay
  <1> HIDE DEF l, x
  <1> QED BY <1>1, <1>2, <1>3, QuietSave, QuietReturn

LEMMA LosingEvident ==
  ASSUME EvidenceInv, OneThread, SerialInv', NEW t \in Threads,
         LoseOrder(t) \/ RequireAccountReconciliation(t)
  PROVE  EvidenceInv'
  <1> DEFINE guarded == work[t].guarded \cup work[t].local
             w == [work[t] EXCEPT !.guarded = guarded]
             l == RequireReconciliation(db.ledger)
             lost == IF pc[t] = "unresolved" THEN Continue(work[t])
                     ELSE IF work[t].reconciling THEN "require" ELSE "idle"
             next == Continue(work[t])
  <1>1. pc[t] # "list" /\ lost \notin Deciding /\ next \notin Deciding
    BY DEF LoseOrder, RequireAccountReconciliation, Continue, Deciding
  <1>2. DOMAIN work[t] = WorkFields
    BY RowIsSound, AtThread DEF SoundWork
  <1>3. /\ w.seen = work[t].seen /\ w.remote = work[t].remote
        /\ w.reconciling = work[t].reconciling /\ w.listing = work[t].listing
    <2> HIDE DEF guarded
    <2> QED BY <1>2 DEF WorkFields
  <1>4. l.orders = db.ledger.orders /\ l.nextId = db.ledger.nextId
    BY RowIsSound, SameLedger
  <1>5. ASSUME LoseOrder(t) PROVE EvidenceInv'
    <2>1. PICK p \in work[t].remote : Save(t, l, LoseTrack(db.exec, p), lost, w)
      BY <1>5, AtHand DEF LoseOrder
    <2> DEFINE x == LoseTrack(db.exec, p)
    <2>2. SameBindings(db.exec.ops, x.ops)
      BY RowIsSound, BindingsStay
    <2> HIDE DEF l, x, w, lost
    <2>3. Heard(provider, lost, w)
      BY <1>1, <1>3, HeardOn
    <2> QED BY <1>1, <1>4, <2>1, <2>2, <2>3, QuietSave DEF x
  <1>6. ASSUME RequireAccountReconciliation(t) PROVE EvidenceInv'
    <2> DEFINE x == Settle(db.exec, FALSE)
    <2>1. Save(t, l, x, next, w)
      BY <1>6, AtHand DEF RequireAccountReconciliation
    <2>2. SameBindings(db.exec.ops, x.ops)
      <3>1. x.ops = db.exec.ops /\ SameBindings(db.exec.ops, db.exec.ops)
        BY RowIsSound, BindingsStay
      <3> QED BY <3>1
    <2> HIDE DEF l, x, w, next
    <2>3. Heard(provider, next, w)
      BY <1>1, <1>3, HeardOn
    <2> QED BY <1>1, <1>4, <2>1, <2>2, <2>3, QuietSave
  <1> QED BY <1>5, <1>6

LEMMA FreezingEvident ==
  ASSUME EvidenceInv, OneThread, SerialInv', NEW t \in Threads,
         FreezeAccount(t) \/ RecoverAccount(t) \/ RecoverAbsence(t)
  PROVE  EvidenceInv'
  <1>1. CASE FreezeAccount(t)
    <2> DEFINE l == RequireReconciliation(db.ledger)
               x == Freeze(db.exec)
    <2>1. Save(t, l, x, "idle", Blank)
      BY <1>1, AtHand DEF FreezeAccount
    <2>2. l.orders = db.ledger.orders /\ l.nextId = db.ledger.nextId
      BY RowIsSound, SameLedger
    <2>3. x.ops = db.exec.ops /\ SameBindings(db.exec.ops, db.exec.ops)
      BY RowIsSound, BindingsStay
    <2> HIDE DEF l, x
    <2> QED BY <2>1, <2>2, <2>3, QuietSave
  <1>2. CASE RecoverAccount(t)
    <2> DEFINE x == Unfreeze(db.exec)
    <2>1. Save(t, db.ledger, x, "unfreeze", Blank) \/ Return(t, "idle", Blank)
      BY <1>2, AtHand DEF RecoverAccount
    <2>2. x.ops = db.exec.ops /\ SameBindings(db.exec.ops, db.exec.ops)
      BY RowIsSound, BindingsStay
    <2>3. Heard(provider, "unfreeze", Blank) /\ "unfreeze" \notin Deciding
      BY DEF Heard, Blank, Deciding
    <2> HIDE DEF x
    <2> QED BY <2>1, <2>2, <2>3, QuietSave, QuietReturn
  <1>3. CASE RecoverAbsence(t)
    <2> DEFINE y == ResolveAbsence(db.exec, Unproven(db))
               x == Settle(y, TRUE)
    <2>1. Save(t, db.ledger, x, "idle", Blank) \/ Return(t, "idle", Blank)
      BY <1>3, AtHand DEF RecoverAbsence
    <2>2. SoundGate(provider, y) /\ SameBindings(db.exec.ops, y.ops)
      BY RowIsSound, EvidenceSound, BindingsStay
    <2> HIDE DEF y
    <2>3. x.ops = y.ops
      BY <2>2, BindingsStay
    <2> HIDE DEF x
    <2> QED BY <2>1, <2>2, <2>3, QuietSave, QuietReturn
  <1> QED BY <1>1, <1>2, <1>3

LEMMA SnapshotEvident ==
  ASSUME EvidenceInv, OneThread, SerialInv', NEW t \in Threads, RecordSnapshot(t)
  PROVE  EvidenceInv'
  <1>1. PICK snapshot \in work[t].snapshot :
          Save(t, Reconcile(db.ledger, snapshot),
               Settle(db.exec, Matches(db.ledger, snapshot)), "vanished", work[t])
    BY AtHand DEF RecordSnapshot
  <1> DEFINE l == Reconcile(db.ledger, snapshot)
             x == Settle(db.exec, Matches(db.ledger, snapshot))
  <1>2. l.orders = db.ledger.orders /\ l.nextId = db.ledger.nextId
    BY RowIsSound, SameLedger
  <1>3. x.ops = db.exec.ops /\ SameBindings(db.exec.ops, db.exec.ops)
    BY RowIsSound, BindingsStay
  <1>4. Heard(provider, "vanished", work[t]) /\ "vanished" \notin Deciding
    BY HeardOn DEF RecordSnapshot, Deciding
  <1> HIDE DEF l, x
  <1> QED BY <1>1, <1>2, <1>3, <1>4, QuietSave DEF l, x

\* The identity that an answer binds is that of an order that is open here, or of
\* one that the provider has ended.
LEMMA ResultEvident ==
  ASSUME EvidenceInv, OneThread, SerialInv', NEW t \in Threads, RecordOrderResult(t)
  PROVE  EvidenceInv'
  <1> DEFINE n == work[t].op
             o == Operation(n)
             remote == work[t].remote
             next == IF pc[t] = "result" THEN "idle" ELSE "cancelLocal"
             x == RecordOutcome(db.exec, o, remote, "Accepted")
  <1>1. \/ o \in DOMAIN db.exec.ops /\ Save(t, db.ledger, x, next, work[t])
        \/ Return(t, "idle", Blank)
    BY AtHand DEF RecordOrderResult
  <1>2. pc[t] \in {"result", "cancelResult"} /\ pc[t] # "list"
    BY DEF RecordOrderResult
  <1>3. CASE o \in DOMAIN db.exec.ops /\ Save(t, db.ledger, x, next, work[t])
    <2> DEFINE older == db.exec.ops
               orders == db.ledger.orders
    <2>1. /\ DOMAIN x.ops = DOMAIN older
          /\ \A q \in DOMAIN x.ops :
               /\ x.ops[q].local = older[q].local
               /\ x.ops[q].remote = IF q = o THEN remote ELSE older[q].remote
      <3>1. Guarded(db.exec)
        BY RowIsSound DEF SoundGate
      <3>2. /\ x.policy = db.exec.policy /\ x.blocked = db.exec.blocked
            /\ DOMAIN x.ops = DOMAIN db.exec.ops
            /\ \A q \in DOMAIN x.ops :
                 /\ x.ops[q].local = db.exec.ops[q].local
                 /\ x.ops[q].remote = IF q = o THEN remote ELSE db.exec.ops[q].remote
                 /\ x.ops[q].outcome = IF q = o THEN "Accepted" ELSE db.exec.ops[q].outcome
        BY <1>3, <3>1, RecordIs
      <3> QED BY <3>2
    <2> HIDE DEF x
    <2>2. /\ db'.ledger = db.ledger /\ db'.exec = x /\ provider' = provider
          /\ SoundJournal(provider, x.ops) /\ Goto(t, next, work[t])
      BY <1>3, SavedRow
    <2>3. SameLocals(older, x.ops)
      BY <2>1 DEF SameLocals
    <2>4. Ready(provider, orders, older, pc[t], work[t])
      BY DEF EvidenceInv
    <2>5. BindsOpen(provider, orders, older, x.ops)
      <3> SUFFICES ASSUME NEW p \in Opens(provider), NEW q \in DOMAIN x.ops,
                          NEW id \in x.ops[q].local, x.ops[q].remote = {p}, q = o
                   PROVE  IsOpen(orders[id])
        BY <2>1 DEF BindsOpen
      <3>1. provider[p].op = n
        BY <2>1, <2>2, OwnIs DEF Opens, Operation
      <3>2. pc[t] = "result"
        BY <1>2, <2>4, <3>1 DEF Ready
      <3>3. id \in older[o].local
        BY <2>1
      <3> QED BY <2>4, <3>2, <3>3 DEF Ready
    <2>6. Bound(db.ledger, x.ops) /\ Tracked(provider, orders, x.ops)
      <3>1. Bound(db.ledger, older) /\ Tracked(provider, orders, older)
        BY RowIsSound
      <3>2. Lasts(provider, older, orders, orders) /\ SameOrders(orders, orders)
        BY SameLasts
      <3> QED BY <2>2, <2>3, <2>5, <3>1, <3>2, BoundKept, TrackKept
    <2>7. \/ next = "idle"
          \/ Ready(provider, orders, x.ops, next, work[t]) /\ Heard(provider, next, work[t])
      <3>1. Heard(provider, next, work[t])
        BY <1>2, HeardOn
      <3>2. CASE pc[t] = "cancelResult"
        BY <2>4, <3>1, <3>2 DEF Ready
      <3> QED BY <1>2, <3>2
    <2> QED BY <2>2, <2>6, <2>7, EvidenceMoves
  <1> QED BY <1>1, <1>3, QuietReturn

-------------------------------------------------------------------------------
\* What the operations of the ledger do to its orders.

LEMMA SubmitIs ==
  ASSUME NEW l, Sound(l), l.nextId \in Nat, NEW order, DOMAIN order = OrderFields
  PROVE  LET k == Submit(l, order)
             id == LocalId(l.nextId)
         IN  /\ k.nextId = l.nextId + 1 /\ DOMAIN k.orders = DOMAIN l.orders \cup {id}
             /\ \A q \in DOMAIN l.orders : q # id => k.orders[q] = l.orders[q]
             /\ IsOpen(k.orders[id]) /\ k.orders[id].filled = 0
             /\ k.orders[id].quantity = order.quantity
  <1> DEFINE new == [order EXCEPT !.filled = 0, !.status = "Accepted"]
             k == Submit(l, order)
  <1>1. new.filled = 0 /\ new.quantity = order.quantity /\ new.status = "Accepted"
    BY DEF OrderFields
  <1> HIDE DEF new
  <1>2. /\ k.orders = Put(l.orders, LocalId(l.nextId), new)
        /\ k.nextId = l.nextId + 1
    BY DEF Submit, Sound, LedgerFields, new
  <1> HIDE DEF k
  <1> QED BY <1>1, <1>2 DEF Put, IsOpen, OpenStatuses, k

LEMMA CancelIs ==
  ASSUME NEW l, Sound(l), NEW id \in DOMAIN l.orders
  PROVE  LET k == Cancel(l, id)
         IN  /\ k.nextId = l.nextId /\ DOMAIN k.orders = DOMAIN l.orders
             /\ \A q \in DOMAIN l.orders : q # id => k.orders[q] = l.orders[q]
             /\ k.orders[id].filled = l.orders[id].filled
             /\ k.orders[id].quantity = l.orders[id].quantity
  <1> DEFINE k == Cancel(l, id)
             new == [l.orders[id] EXCEPT !.status = "Cancelled"]
             orders == [l.orders EXCEPT ![id] = new]
  <1>1. new.filled = l.orders[id].filled /\ new.quantity = l.orders[id].quantity
    BY DEF Sound, SoundOrders, SoundOrder, OrderFields
  <1>2. k = [l EXCEPT !.reserved = @ - OrderReserved(l.orders[id]), !.orders = orders]
    BY Zenon DEF Cancel
  <1> HIDE DEF new
  <1>3. /\ DOMAIN orders = DOMAIN l.orders /\ orders[id] = new
        /\ \A q \in DOMAIN l.orders : q # id => orders[q] = l.orders[q]
    OBVIOUS
  <1> HIDE DEF orders, k
  <1>4. k.orders = orders /\ k.nextId = l.nextId
    BY <1>2 DEF Sound, LedgerFields
  <1> QED BY <1>1, <1>3, <1>4 DEF k

LEMMA FillIs ==
  ASSUME NEW l, Sound(l), NEW fill, fill.order \in DOMAIN l.orders
  PROVE  LET k == ApplyFill(l, fill)
             id == fill.order
         IN  /\ k.nextId = l.nextId /\ DOMAIN k.orders = DOMAIN l.orders
             /\ \A q \in DOMAIN l.orders : q # id => k.orders[q] = l.orders[q]
             /\ k.orders[id].filled = l.orders[id].filled + fill.quantity
             /\ k.orders[id].quantity = l.orders[id].quantity
             /\ IsOpen(k.orders[id]) \/ k.orders[id].filled = k.orders[id].quantity
  <1> DEFINE k == ApplyFill(l, fill)
             order == l.orders[fill.order]
             new == FilledOrder(order, fill)
             orders == [l.orders EXCEPT ![fill.order] = new]
             positions == FilledPositions(l, order, fill)
             reserved == FilledReserved(l, order, fill)
             fills == Append(l.fills, fill)
             side == order.side
             cash == FilledCash(l, side, fill)
  <1>1. /\ new.filled = order.filled + fill.quantity /\ new.quantity = order.quantity
        /\ IsOpen(new) \/ new.filled = new.quantity
    <2>1. DOMAIN order = OrderFields
      BY DEF Sound, SoundOrders, SoundOrder
    <2> DEFINE status == IF order.filled + fill.quantity = order.quantity
                           THEN "Filled" ELSE "PartiallyFilled"
               filled == order.filled + fill.quantity
    <2>2. new = [order EXCEPT !.filled = filled, !.status = status]
      BY Zenon DEF FilledOrder
    <2> HIDE DEF new
    <2>3. status \in OpenStatuses \/ filled = order.quantity
      BY DEF OpenStatuses
    <2> HIDE DEF status, filled, order
    <2>4. new.filled = filled /\ new.quantity = order.quantity /\ new.status = status
      BY <2>1, <2>2 DEF OrderFields
    <2> QED BY <2>3, <2>4 DEF filled, IsOpen
  <1>2. k = [l EXCEPT !.cash = cash, !.positions = positions,
                      !.reserved = reserved, !.orders = orders, !.fills = fills]
    BY Zenon DEF ApplyFill
  <1>3. /\ DOMAIN orders = DOMAIN l.orders /\ orders[fill.order] = new
        /\ \A q \in DOMAIN l.orders : q # fill.order => orders[q] = l.orders[q]
    <2> HIDE DEF new
    <2> QED OBVIOUS
  <1> HIDE DEF k, new, orders, positions, reserved, fills, cash
  <1>4. k.orders = orders /\ k.nextId = l.nextId
    BY <1>2 DEF Sound, LedgerFields
  <1> QED BY <1>1, <1>3, <1>4 DEF k

\* Ledger k is l with n more shares of order id.
Filling(l, k, id, n) ==
  /\ Sound(k) /\ k.nextId = l.nextId /\ DOMAIN k.orders = DOMAIN l.orders
  /\ \A q \in DOMAIN l.orders : q # id => k.orders[q] = l.orders[q]
  /\ k.orders[id].filled = l.orders[id].filled + n
  /\ k.orders[id].quantity = l.orders[id].quantity
  /\ n = 0 => k.orders[id] = l.orders[id]
  /\ n # 0 => IsOpen(k.orders[id]) \/ k.orders[id].filled = k.orders[id].quantity

LEMMA FillingMore ==
  ASSUME NEW l, NEW id \in DOMAIN l.orders, l.orders[id].filled \in Int, NEW n \in Nat,
         NEW m, Filling(l, m, id, n), NEW fill, fill.order = id, fill.quantity = 1
  PROVE  Filling(l, ApplyFill(m, fill), id, n + 1)
  <1> DEFINE k == ApplyFill(m, fill)
  <1>1. Sound(m) /\ fill.order \in DOMAIN m.orders
    BY DEF Filling
  <1>2. Sound(k)
    BY <1>1, FillSound
  <1>3. /\ k.nextId = m.nextId /\ DOMAIN k.orders = DOMAIN m.orders
        /\ \A q \in DOMAIN m.orders : q # fill.order => k.orders[q] = m.orders[q]
        /\ k.orders[fill.order].filled = m.orders[fill.order].filled + fill.quantity
        /\ k.orders[fill.order].quantity = m.orders[fill.order].quantity
        /\ IsOpen(k.orders[fill.order])
             \/ k.orders[fill.order].filled = k.orders[fill.order].quantity
    BY <1>1, FillIs
  <1> HIDE DEF k
  <1>4. k.orders[id].filled = l.orders[id].filled + (n + 1)
    BY <1>3 DEF Filling
  <1> QED BY <1>2, <1>3, <1>4 DEF Filling, k

LEMMA RecordTradesFills ==
  ASSUME NEW l, Sound(l), NEW o, NEW p, NEW id \in DOMAIN l.orders,
         l.orders[id].filled \in Int, NEW S, IsFiniteSet(S)
  PROVE  Filling(l, RecordTrades(l, o, p, id, S), id, Cardinality(S))
  <1> DEFINE c == [trades |-> TRUE, o |-> o, p |-> p, id |-> id]
  <1>1. \A x, k : FoldStep(c, x, k) = ApplyFill(k, Trade(o, p, x, id))
    BY DEF FoldStep
  <1>2. PICK f : Folding(c, l, S, f) /\ RecordTrades(l, o, p, id, S) = f[S]
    BY RecordTradesIs
  <1> HIDE DEF c
  <1> DEFINE G == {T \in SUBSET S : Filling(l, f[T], id, Cardinality(T))}
  <1>3. {} \in G
    <2>1. f[{}] = l /\ Cardinality({}) = 0
      BY <1>2, FS_EmptySet DEF Folding
    <2>2. Filling(l, l, id, 0)
      BY DEF Filling
    <2> QED BY <2>1, <2>2
  <1>4. ASSUME NEW T \in SUBSET S, T # {}, \A x \in T : T \ {x} \in G
        PROVE  T \in G
    <2> DEFINE x == Pick(T)
               k == f[T \ {x}]
               fill == Trade(o, p, x, id)
               n == Cardinality(T \ {x})
    <2>1. x \in T
      BY <1>4, PickIn
    <2>2. Filling(l, k, id, n)
      BY <1>4, <2>1
    <2>3. f[T] = ApplyFill(k, fill)
      BY <1>1, <1>2, <1>4 DEF Folding
    <2>4. fill.order = id /\ fill.quantity = 1
      BY DEF Trade
    <2>5. n \in Nat /\ Cardinality(T) = n + 1
      <3>1. IsFiniteSet(T)
        BY FS_Subset
      <3>2. IsFiniteSet(T \ {x}) /\ Cardinality(T \ {x}) = Cardinality(T) - 1
        BY <2>1, <3>1, FS_RemoveElement
      <3>3. Cardinality(T) \in Nat /\ Cardinality(T \ {x}) \in Nat
        BY <3>1, <3>2, FS_CardinalityType
      <3> HIDE DEF x
      <3> QED BY <3>2, <3>3
    <2> HIDE DEF x, k, fill, n
    <2>6. Filling(l, ApplyFill(k, fill), id, n + 1)
      BY <2>2, <2>4, <2>5, FillingMore
    <2> QED BY <2>3, <2>5, <2>6
  <1> HIDE DEF G
  <1>5. \A T \in SUBSET S : T \in G
    BY <1>3, <1>4, SubsetInduction
  <1> QED BY <1>2, <1>5 DEF G

\* Ledger k differs from l in the status of order id, if at all.
Ending(l, k, id) ==
  /\ k.nextId = l.nextId /\ DOMAIN k.orders = DOMAIN l.orders
  /\ \A q \in DOMAIN l.orders : q # id => k.orders[q] = l.orders[q]
  /\ k.orders[id].filled = l.orders[id].filled
  /\ k.orders[id].quantity = l.orders[id].quantity

LEMMA TerminateEnds ==
  ASSUME NEW l, Sound(l), NEW id \in DOMAIN l.orders, NEW status
  PROVE  /\ Ending(l, Cancel(l, id), id) /\ Ending(l, Terminate(l, id, status), id)
         /\ status = "Open" => Terminate(l, id, status) = l
  <1>1. Ending(l, Cancel(l, id), id)
    BY CancelIs DEF Ending
  <1>2. Ending(l, Upsert(l, id, [l.orders[id] EXCEPT !.status = "Filled"]), id)
    <2> DEFINE new == [l.orders[id] EXCEPT !.status = "Filled"]
               k == Upsert(l, id, new)
    <2>1. new.filled = l.orders[id].filled /\ new.quantity = l.orders[id].quantity
      BY DEF Sound, SoundOrders, SoundOrder, OrderFields
    <2> HIDE DEF new
    <2>2. k.orders = Put(l.orders, id, new) /\ k.nextId = l.nextId
      BY DEF Upsert, Sound, LedgerFields
    <2> HIDE DEF k
    <2>3. Ending(l, k, id)
      BY <2>1, <2>2 DEF Ending, Put
    <2> QED BY <2>3 DEF k, new
  <1>3. Ending(l, l, id)
    BY DEF Ending
  <1> QED BY <1>1, <1>2, <1>3 DEF Terminate

LEMMA SweepIs ==
  ASSUME NEW l, Sound(l), NEW active
  PROVE  LET k == CancelMissing(l, active)
         IN  /\ k.nextId = l.nextId /\ DOMAIN k.orders = DOMAIN l.orders
             /\ \A q \in active \cap DOMAIN l.orders : k.orders[q] = l.orders[q]
             /\ \A q \in DOMAIN l.orders : /\ k.orders[q].filled = l.orders[q].filled
                                           /\ k.orders[q].quantity = l.orders[q].quantity
  <1> DEFINE k == CancelMissing(l, active)
             stale == {id \in DOMAIN l.orders \ active : IsOpen(l.orders[id])}
             orders == [id \in DOMAIN l.orders |->
                          IF id \in stale THEN [l.orders[id] EXCEPT !.status = "Cancelled"]
                                          ELSE l.orders[id]]
             left_ == l.reserved - Reserving(l.orders, stale)
  <1>1. /\ DOMAIN orders = DOMAIN l.orders
        /\ \A q \in active \cap DOMAIN l.orders : orders[q] = l.orders[q]
    OBVIOUS
  <1>2. \A q \in DOMAIN l.orders : /\ orders[q].filled = l.orders[q].filled
                                   /\ orders[q].quantity = l.orders[q].quantity
    <2>1. \A q \in DOMAIN l.orders : DOMAIN l.orders[q] = OrderFields
      BY DEF Sound, SoundOrders, SoundOrder
    <2> HIDE DEF stale
    <2> QED BY <2>1 DEF OrderFields
  <1>3. k = [l EXCEPT !.reserved = left_, !.orders = orders]
    BY Zenon DEF CancelMissing
  <1> HIDE DEF orders, k, left_
  <1>4. k.orders = orders /\ k.nextId = l.nextId
    BY <1>3 DEF Sound, LedgerFields
  <1> QED BY <1>1, <1>2, <1>4 DEF k

\* Ledger k is l with an open order of its own for each entry of S.
Adopts(l, k, S) ==
  LET new == {ImportedId(entry.id) : entry \in S}
  IN  /\ Sound(k) /\ k.nextId = l.nextId /\ DOMAIN k.orders = DOMAIN l.orders \cup new
      /\ \A q \in DOMAIN l.orders \ new : k.orders[q] = l.orders[q]
      /\ \A id \in new : IsOpen(k.orders[id])

LEMMA ImportOpens ==
  ASSUME NEW l, Sound(l), NEW entry, DOMAIN RequestOf(entry.id) = OrderFields
  PROVE  Adopts(l, Import(l, entry), {entry})
  <1> DEFINE id == ImportedId(entry.id)
             order == RequestOf(entry.id)
             status == IF entry.filled > 0 THEN "PartiallyFilled" ELSE "Accepted"
             filled == entry.filled
             new == [order EXCEPT !.filled = filled, !.status = status]
             k == Upsert(l, id, new)
  <1>1. Import(l, entry) = k
    BY Zenon DEF Import
  <1>2. SoundOrder(new) /\ IsOpen(new)
    <2>1. DOMAIN order = OrderFields /\ status \in OpenStatuses
      BY DEF OpenStatuses
    <2> HIDE DEF order, status, filled
    <2>2. new.status = status
      BY <2>1 DEF OrderFields
    <2> QED BY <2>1, <2>2, OrderUpdates DEF IsOpen, Statuses
  <1> HIDE DEF new
  <1>3. k.orders = Put(l.orders, id, new) /\ k.nextId = l.nextId
    BY DEF Upsert, Sound, LedgerFields
  <1>4. Sound(k)
    BY <1>2, UpsertKeeps DEF Keeps
  <1> HIDE DEF k, id
  <1>5. /\ DOMAIN k.orders = DOMAIN l.orders \cup {id} /\ IsOpen(k.orders[id])
        /\ \A q \in DOMAIN l.orders \ {id} : k.orders[q] = l.orders[q]
    BY <1>2, <1>3 DEF Put
  <1>6. Adopts(l, k, {entry})
    <2>1. {ImportedId(e.id) : e \in {entry}} = {id}
      BY DEF id
    <2> QED BY <1>3, <1>4, <1>5, <2>1 DEF Adopts
  <1> QED BY <1>1, <1>6

LEMMA ImportedBoth ==
  ASSUME NEW l, NEW m, NEW k, NEW S, NEW T, Adopts(l, m, S), Adopts(m, k, T)
  PROVE  Adopts(l, k, S \cup T)
  <1> DEFINE Ids(R) == {ImportedId(entry.id) : entry \in R}
  <1>1. Ids(S \cup T) = Ids(S) \cup Ids(T)
    OBVIOUS
  <1> HIDE DEF Ids
  <1>2. /\ Sound(k) /\ k.nextId = l.nextId
        /\ DOMAIN k.orders = DOMAIN l.orders \cup (Ids(S) \cup Ids(T))
        /\ \A q \in DOMAIN l.orders \ (Ids(S) \cup Ids(T)) : k.orders[q] = l.orders[q]
        /\ \A id \in Ids(S) \cup Ids(T) : IsOpen(k.orders[id])
    BY DEF Adopts, Ids
  <1> QED BY <1>1, <1>2 DEF Adopts, Ids

LEMMA ImportsOpen ==
  ASSUME NEW l, Sound(l), NEW x, NEW S, IsFiniteSet(S),
         \A entry \in S : DOMAIN RequestOf(entry.id) = OrderFields
  PROVE  Adopts(l, ImportUnmapped(l, x, S),
                  {entry \in S : MappedTo(x, entry.id) = {}})
  <1> DEFINE c == [trades |-> FALSE]
             U == {entry \in S : MappedTo(x, entry.id) = {}}
  <1>1. \A y, k : FoldStep(c, y, k) = Import(k, y)
    BY DEF FoldStep
  <1>2. /\ IsFiniteSet(U) /\ \A entry \in U : entry \in S
        /\ U = {entry \in S : MappedTo(x, entry.id) = {}}
    BY FS_Subset
  <1> HIDE DEF U
  <1>3. PICK f : Folding(c, l, U, f) /\ ImportUnmapped(l, x, S) = f[U]
    BY <1>2, ImportIs
  <1> HIDE DEF c
  <1> DEFINE G == {T \in SUBSET U : Adopts(l, f[T], T)}
  <1>4. {} \in G
    BY <1>3 DEF Folding, Adopts
  <1>5. ASSUME NEW T \in SUBSET U, T # {}, \A y \in T : T \ {y} \in G
        PROVE  T \in G
    <2> DEFINE y == Pick(T)
               k == f[T \ {y}]
    <2>1. y \in T /\ y \in S
      BY <1>2, <1>5, PickIn
    <2>2. Adopts(l, k, T \ {y})
      BY <1>5, <2>1
    <2>3. f[T] = Import(k, y)
      BY <1>1, <1>3, <1>5 DEF Folding
    <2> HIDE DEF y, k
    <2>4. Adopts(k, f[T], {y})
      BY <2>1, <2>2, <2>3, ImportOpens DEF Adopts
    <2>5. (T \ {y}) \cup {y} = T
      BY <2>1
    <2>6. Adopts(l, f[T], (T \ {y}) \cup {y})
      BY <2>2, <2>4, ImportedBoth
    <2> QED BY <2>5, <2>6
  <1> HIDE DEF G
  <1>6. \A T \in SUBSET U : T \in G
    <2>1. IsFiniteSet(U)
      BY <1>2
    <2> QED BY <2>1, <1>4, <1>5, SubsetInduction
  <1>7. U \in G
    BY <1>6
  <1> QED BY <1>2, <1>3, <1>7 DEF G

\* What reconciliation imports of a part of the listing.
LEMMA ListingImports ==
  ASSUME EvidenceInv, NEW t \in Threads, NEW entries \in SUBSET work[t].listing
  PROVE  Adopts(db.ledger, ImportUnmapped(db.ledger, db.exec, entries),
                  {entry \in entries : MappedTo(db.exec, entry.id) = {}})
  <1>1. TradingInv /\ Sound(db.ledger) /\ SoundWork(provider, work[t])
    BY RowIsSound, AtThread
  <1>2. IsFiniteSet(entries)
    BY <1>1, FS_Subset DEF SoundWork
  <1>3. \A entry \in entries : DOMAIN RequestOf(entry.id) = OrderFields
    <2>1. \A p \in DOMAIN provider : provider[p].op \in Operations
      BY <1>1, RecordsAre DEF TradingInv
    <2>2. \A entry \in entries : entry.id \in DOMAIN provider
      BY <1>1 DEF SoundWork
    <2> QED BY <2>1, <2>2, TradingAssumption DEF RequestOf, OrderFields
  <1> QED BY <1>1, <1>2, <1>3, ImportsOpen

-------------------------------------------------------------------------------
\* Steps that change the local orders.

\* Orders end only where nothing open at the provider stands behind them.
LEMMA EvidentSave ==
  ASSUME EvidenceInv, OneThread, SerialInv', NEW t \in Threads, NEW l, NEW x, NEW step, NEW w,
         Save(t, l, x, step, w), l.nextId = db.ledger.nextId,
         SameOrders(db.ledger.orders, l.orders),
         Lasts(provider, db.exec.ops, db.ledger.orders, l.orders),
         SameLocals(db.exec.ops, x.ops),
         BindsOpen(provider, db.ledger.orders, db.exec.ops, x.ops),
         step = "idle" \/ (step \notin Deciding /\ Heard(provider, step, w))
  PROVE  EvidenceInv'
  <1>1. /\ db'.ledger = l /\ db'.exec = x /\ provider' = provider
        /\ SoundJournal(provider, x.ops) /\ Goto(t, step, w)
    BY SavedRow
  <1>2. /\ Bound(db.ledger, db.exec.ops) /\ Tracked(provider, db.ledger.orders, db.exec.ops)
    BY RowIsSound
  <1>3. Bound(l, x.ops)
    BY <1>2, BoundKept
  <1>4. Tracked(provider, l.orders, x.ops)
    <2>1. DOMAIN db.ledger.orders \subseteq DOMAIN l.orders
      BY DEF SameOrders
    <2> QED BY <1>1, <1>2, <2>1, TrackKept
  <1>5. \/ step = "idle"
        \/ Ready(provider, l.orders, x.ops, step, w) /\ Heard(provider, step, w)
    BY DEF Ready, Deciding
  <1> QED BY <1>1, <1>3, <1>4, <1>5, EvidenceMoves

LEMMA SameBinds ==
  ASSUME NEW P, NEW orders, NEW older, NEW ops, SameBindings(older, ops)
  PROVE  SameLocals(older, ops) /\ BindsOpen(P, orders, older, ops)
  BY DEF BindsOpen, SameBindings, SameLocals

LEMMA ImportsFromProvider ==
  ASSUME EvidenceInv, NEW t \in Threads
  PROVE  \A entry \in work[t].listing :
           /\ ImportedId(entry.id)[1] = "provider-order"
           /\ ImportedId(entry.id)[2] \in DOMAIN provider
  BY RowIsSound, AtThread DEF SoundWork, ImportedId

LEMMA SweptOrders ==
  ASSUME EvidenceInv, NEW t \in Threads, pc[t] = "record",
         NEW k, k = CancelMissing(ImportUnmapped(db.ledger, db.exec, work[t].listing),
                                  Active(db.exec, work[t].listing, work[t].guarded))
  PROVE  /\ k.nextId = db.ledger.nextId /\ SameOrders(db.ledger.orders, k.orders)
         /\ Tracked(provider, k.orders, db.exec.ops)
  <1> DEFINE l == db.ledger
             ops == db.exec.ops
             listing == work[t].listing
             ids == {entry.id : entry \in listing}
             active == Active(db.exec, listing, work[t].guarded)
             all == ImportUnmapped(db.ledger, db.exec, listing)
             U == {entry \in listing : MappedTo(db.exec, entry.id) = {}}
             news == {ImportedId(entry.id) : entry \in U}
  <1>1. /\ SoundJournal(provider, ops) /\ Bound(l, ops) /\ Tracked(provider, l.orders, ops)
    BY RowIsSound
  <1>2. Opens(provider) \subseteq ids
    <2>1. work[t].reconciling
      BY RowIsSound, AtThread DEF Placed, Phases, SoundWork
    <2> QED BY <2>1 DEF EvidenceInv, Heard
  <1>3. /\ Sound(all) /\ all.nextId = l.nextId /\ DOMAIN all.orders = DOMAIN l.orders \cup news
        /\ \A q \in DOMAIN l.orders \ news : all.orders[q] = l.orders[q]
        /\ \A id \in news : IsOpen(all.orders[id])
    BY ListingImports DEF Adopts
  <1>4. /\ \A p \in ids : ImportedId(p) \in active
        /\ \A p \in ids : MappedTo(db.exec, p) \subseteq active
    BY DEF Active
  <1>5. \A p \in ids : MappedTo(db.exec, p) = {} => ImportedId(p) \in news
    OBVIOUS
  <1>6. news \subseteq {ImportedId(p) : p \in ids}
    OBVIOUS
  <1> HIDE DEF active, all, U, news, ids
  <1>7. k = CancelMissing(all, active)
    BY DEF active, all
  <1>8. /\ k.nextId = all.nextId /\ DOMAIN k.orders = DOMAIN all.orders
        /\ \A q \in active \cap DOMAIN all.orders : k.orders[q] = all.orders[q]
        /\ \A q \in DOMAIN all.orders : /\ k.orders[q].filled = all.orders[q].filled
                                        /\ k.orders[q].quantity = all.orders[q].quantity
    BY <1>3, <1>7, SweepIs
  <1>9. \A n : LocalId(n) \notin news
    BY <1>6 DEF LocalId, ImportedId
  <1>10. SameOrders(l.orders, k.orders)
    BY <1>3, <1>8, <1>9 DEF SameOrders
  <1>11. ASSUME NEW p \in Opens(provider), ImportedId(p) \in DOMAIN k.orders
         PROVE  IsOpen(k.orders[ImportedId(p)])
    <2>1. k.orders[ImportedId(p)] = all.orders[ImportedId(p)]
      BY <1>2, <1>4, <1>8, <1>11
    <2>2. ImportedId(p) \in news \/ ImportedId(p) \in DOMAIN l.orders \ news
      BY <1>3, <1>8, <1>11
    <2> QED BY <1>1, <1>3, <2>1, <2>2 DEF Tracked
  <1>12. ASSUME NEW p \in Opens(provider), NEW o \in DOMAIN ops, NEW id \in ops[o].local,
                ops[o].remote = {p}
         PROVE  IsOpen(k.orders[id]) /\ id \in DOMAIN k.orders
    <2>1. id \in MappedTo(db.exec, p)
      BY <1>12 DEF MappedTo
    <2>2. id \in active
      BY <1>2, <1>4, <2>1
    <2>3. id \in DOMAIN l.orders \ news /\ IsOpen(l.orders[id])
      BY <1>1, <1>9, <1>12 DEF Bound, Tracked
    <2> QED BY <1>3, <1>8, <2>2, <2>3
  <1>13. ASSUME NEW p \in Opens(provider)
         PROVE  \E id \in DOMAIN k.orders : /\ IsOpen(k.orders[id])
                                            /\ id = ImportedId(p) \/ id \in Own(provider, ops, p)
    <2>1. CASE MappedTo(db.exec, p) = {}
      BY <1>2, <1>3, <1>5, <1>8, <1>11, <2>1
    <2>2. CASE MappedTo(db.exec, p) # {}
      <3>1. PICK o \in DOMAIN ops : ops[o].remote = {p} /\ \E id \in ops[o].local : TRUE
        BY <2>2 DEF MappedTo
      <3>2. PICK id \in ops[o].local : TRUE
        BY <3>1
      <3>3. p \in DOMAIN provider
        BY DEF Opens
      <3>4. id \in Own(provider, ops, p)
        BY <1>1, <3>1, <3>3, OwnIs
      <3>5. IsOpen(k.orders[id]) /\ id \in DOMAIN k.orders
        BY <1>12, <3>1
      <3> QED BY <3>4, <3>5
    <2> QED BY <2>1, <2>2
  <1>14. FromProvider(provider, k.orders)
    BY <1>1, <1>3, <1>8, ImportsFromProvider DEF Tracked, FromProvider, news, U
  <1>15. Tracked(provider, k.orders, ops)
    BY <1>11, <1>12, <1>13, <1>14 DEF Tracked
  <1> QED BY <1>3, <1>8, <1>10, <1>15

LEMMA RecordOpenEvident ==
  ASSUME EvidenceInv, OneThread, SerialInv', NEW t \in Threads, RecordOpenOrders(t)
  PROVE  EvidenceInv'
  <1> DEFINE listing == work[t].listing
             Imported(entries) == ImportUnmapped(db.ledger, db.exec, entries)
             k == CancelMissing(Imported(listing), Active(db.exec, listing, work[t].guarded))
  <1>1. \/ Save(t, k, db.exec, "complete", work[t])
        \/ \E before \in SUBSET listing :
             /\ db' = [db EXCEPT !.exec = Block(db.exec),
                         !.ledger = RequireReconciliation(Imported(before))]
             /\ UNCHANGED provider /\ Goto(t, "idle", Blank)
    BY AtHand DEF RecordOpenOrders
  <1>2. pc[t] = "record"
    BY DEF RecordOpenOrders
  <1>3. CASE Save(t, k, db.exec, "complete", work[t])
    <2>1. /\ k.nextId = db.ledger.nextId /\ SameOrders(db.ledger.orders, k.orders)
          /\ Tracked(provider, k.orders, db.exec.ops)
      BY <1>2, SweptOrders
    <2> HIDE DEF k
    <2>2. /\ db'.ledger = k /\ db'.exec = db.exec /\ provider' = provider
          /\ Goto(t, "complete", work[t])
      BY <1>3, SavedRow
    <2>3. Bound(k, db.exec.ops)
      BY <2>1, RowIsSound, BoundKept DEF SameLocals
    <2>4. Heard(provider, "complete", work[t])
      BY <1>2, HeardOn
    <2>5. Ready(provider, k.orders, db.exec.ops, "complete", work[t])
      BY DEF Ready
    <2> QED BY <2>1, <2>2, <2>3, <2>4, <2>5, EvidenceMoves
  <1>4. ASSUME NEW before \in SUBSET listing,
               /\ db' = [db EXCEPT !.exec = Block(db.exec),
                           !.ledger = RequireReconciliation(Imported(before))]
               /\ UNCHANGED provider /\ Goto(t, "idle", Blank)
        PROVE  EvidenceInv'
    <2> DEFINE all == Imported(before)
               l == RequireReconciliation(all)
               x == Block(db.exec)
               ops == db.exec.ops
               news == {ImportedId(entry.id) : entry \in
                          {e \in before : MappedTo(db.exec, e.id) = {}}}
    <2>1. /\ Sound(all) /\ all.nextId = db.ledger.nextId
          /\ DOMAIN all.orders = DOMAIN db.ledger.orders \cup news
          /\ \A q \in DOMAIN db.ledger.orders \ news : all.orders[q] = db.ledger.orders[q]
          /\ \A id \in news : IsOpen(all.orders[id])
      BY ListingImports DEF Adopts
    <2>2. \A n : LocalId(n) \notin news
      BY DEF LocalId, ImportedId
    <2>11. \A id \in news : id[2] \in DOMAIN provider
      BY ImportsFromProvider
    <2> HIDE DEF all, news
    <2>3. l.orders = all.orders /\ l.nextId = all.nextId
      BY <2>1, SameLedger
    <2>4. x.ops = ops /\ SameBindings(ops, ops)
      BY RowIsSound, BindingsStay
    <2>5. db' = [db EXCEPT !.exec = x, !.ledger = l]
      BY <1>4 DEF all
    <2> HIDE DEF x, l
    <2>6. db'.ledger = l /\ db'.exec = x
      BY <2>5, RowIsSound, RowWritten
    <2>7. SameOrders(db.ledger.orders, l.orders)
      BY <2>1, <2>2, <2>3 DEF SameOrders
    <2>8. Lasts(provider, ops, db.ledger.orders, l.orders)
      BY <2>1, <2>3, <2>11 DEF Lasts, FromProvider
    <2>9. Bound(l, ops)
      BY <2>1, <2>3, <2>4, <2>7, RowIsSound, SameBinds, BoundKept
    <2>10. Tracked(provider, l.orders, ops)
      <3>1. /\ Tracked(provider, db.ledger.orders, ops) /\ Bound(db.ledger, ops)
            /\ SoundJournal(provider, ops)
        BY RowIsSound
      <3>2. SameLocals(ops, ops) /\ BindsOpen(provider, db.ledger.orders, ops, ops)
        BY <2>4, SameBinds
      <3>3. DOMAIN db.ledger.orders \subseteq DOMAIN l.orders
        BY <2>7 DEF SameOrders
      <3> QED BY <2>8, <3>1, <3>2, <3>3, TrackKept
    <2> QED BY <1>4, <2>4, <2>6, <2>9, <2>10, EvidenceMoves
  <1> QED BY <1>1, <1>3, <1>4

\* What the row would hold after l: no order of it ended that has to last.
Kept(l) == /\ l.nextId = db.ledger.nextId /\ SameOrders(db.ledger.orders, l.orders)
           /\ Lasts(provider, db.exec.ops, db.ledger.orders, l.orders)

\* A local order is its operation's alone, and so is the provider's.
LEMMA OwnedOnce ==
  ASSUME EvidenceInv, NEW o \in DOMAIN db.exec.ops, NEW id \in db.exec.ops[o].local,
         NEW p \in DOMAIN provider,
         id = ImportedId(p) \/ id \in Own(provider, db.exec.ops, p)
  PROVE  o = Operation(provider[p].op)
  <1>1. id # ImportedId(p)
    BY RowIsSound DEF Bound, LocalId, ImportedId
  <1>2. PICK u \in DOMAIN db.exec.ops : u = Operation(provider[p].op) /\ id \in db.exec.ops[u].local
    BY <1>1 DEF Own
  <1> QED BY <1>2, RowIsSound DEF Bound

\* Fills the provider had recorded leave an order open as long as its own is.
LEMMA FilledKept ==
  ASSUME EvidenceInv, NEW p \in DOMAIN provider, NEW o \in DOMAIN db.exec.ops,
         o = Operation(provider[p].op), NEW id \in db.exec.ops[o].local, NEW n \in Nat,
         NEW k, Filling(db.ledger, k, id, n),
         db.ledger.orders[id].filled + n <= provider[p].filled
  PROVE  Kept(k)
  <1> DEFINE orders == db.ledger.orders
             ops == db.exec.ops
  <1>1. /\ id \in DOMAIN orders /\ orders[id].filled \in Int
        /\ \A m \in Operations : o = Operation(m) =>
             orders[id].quantity = Request[m].order.quantity
    BY RowIsSound DEF Bound
  <1>2. SameOrders(orders, k.orders)
    <2>1. k.orders[id].filled \in Int
      BY <1>1 DEF Filling
    <2> QED BY <1>1, <2>1 DEF Filling, SameOrders
  <1>3. ASSUME NEW q \in Opens(provider), id \in Own(provider, ops, q) \/ id = ImportedId(q)
        PROVE  IsOpen(k.orders[id]) \/ ~IsOpen(orders[id])
    <2>1. q \in DOMAIN provider /\ provider[q].status = "Open"
      BY DEF Opens
    <2>2. o = Operation(provider[q].op)
      BY <1>3, <2>1, OwnedOnce
    <2>3. q = p
      BY <2>1, <2>2 DEF EvidenceInv, SerialInv, Once, Operation
    <2> DEFINE quantity == Request[provider[p].op].order.quantity
    <2>4. provider[p].op \in Operations /\ provider[p].filled \in Nat
      BY RowIsSound, RecordsAre
    <2>5. provider[p].filled < quantity
      BY <2>1, <2>3, RowIsSound DEF SoundProvider
    <2>6. orders[id].quantity = quantity /\ quantity \in Int
      BY <1>1, <2>4, TradingAssumption
    <2> HIDE DEF quantity
    <2>7. k.orders[id].filled # k.orders[id].quantity
      BY <1>1, <2>4, <2>5, <2>6 DEF Filling
    <2> QED BY <2>7 DEF Filling
  <1>4. Lasts(provider, ops, orders, k.orders)
    <2> SUFFICES ASSUME NEW q \in Opens(provider), NEW i \in DOMAIN k.orders,
                        i = ImportedId(q) \/ i \in Own(provider, ops, q)
                 PROVE  IsOpen(k.orders[i]) \/ (i \in DOMAIN orders /\ ~IsOpen(orders[i]))
      BY DEF Lasts, Filling, FromProvider
    <2>1. CASE i = id
      BY <1>1, <1>3, <2>1
    <2>2. CASE i # id
      BY <2>2 DEF Filling
    <2> QED BY <2>1, <2>2
  <1> QED BY <1>2, <1>4 DEF Kept, Filling

\* An order whose operation has nothing open at the provider may end.
LEMMA EndedKept ==
  ASSUME EvidenceInv, NEW o \in DOMAIN db.exec.ops, NEW id \in db.exec.ops[o].local,
         NEW l, Kept(l), NEW k, Ending(l, k, id),
         \A p \in Opens(provider) : Operation(provider[p].op) # o
  PROVE  Kept(k)
  <1> DEFINE orders == db.ledger.orders
             ops == db.exec.ops
  <1>1. id \in DOMAIN orders
    BY RowIsSound DEF Bound
  <1>2. SameOrders(orders, k.orders)
    BY <1>1 DEF Ending, SameOrders, Kept
  <1>3. Lasts(provider, ops, orders, k.orders)
    <2> SUFFICES ASSUME NEW q \in Opens(provider), NEW i \in DOMAIN k.orders,
                        i = ImportedId(q) \/ i \in Own(provider, ops, q)
                 PROVE  IsOpen(k.orders[i]) \/ (i \in DOMAIN orders /\ ~IsOpen(orders[i]))
      BY DEF Lasts, Kept, Ending, FromProvider
    <2>1. i # id
      BY OwnedOnce DEF Opens
    <2> QED BY <2>1 DEF Kept, Lasts, Ending
  <1> QED BY <1>2, <1>3 DEF Kept, Ending

LEMMA KeptSave ==
  ASSUME EvidenceInv, OneThread, SerialInv', NEW t \in Threads, NEW l, NEW x, NEW step, NEW w,
         Save(t, l, x, step, w), Kept(l), SameBindings(db.exec.ops, x.ops),
         step = "idle" \/ (step \notin Deciding /\ Heard(provider, step, w))
  PROVE  EvidenceInv'
  <1>1. /\ SameLocals(db.exec.ops, x.ops)
        /\ BindsOpen(provider, db.ledger.orders, db.exec.ops, x.ops)
    BY SameBinds
  <1> QED BY <1>1, EvidentSave DEF Kept

LEMMA RowKept == ASSUME EvidenceInv PROVE Kept(db.ledger)
  BY SameLasts DEF Kept

LEMMA CancelLocalEvident ==
  ASSUME EvidenceInv, OneThread, SerialInv', NEW t \in Threads, CancelLocalOrder(t)
  PROVE  EvidenceInv'
  <1> DEFINE o == Operation(work[t].op)
             local == IF o \in DOMAIN db.exec.ops THEN db.exec.ops[o].local ELSE {}
  <1>1. \/ \E id \in local : Save(t, Cancel(db.ledger, id), db.exec, "idle", Blank)
        \/ Return(t, "idle", Blank)
    BY AtHand DEF CancelLocalOrder
  <1>2. ASSUME NEW id \in local, Save(t, Cancel(db.ledger, id), db.exec, "idle", Blank)
        PROVE  EvidenceInv'
    <2> DEFINE k == Cancel(db.ledger, id)
    <2>1. o \in DOMAIN db.exec.ops /\ id \in db.exec.ops[o].local
      OBVIOUS
    <2>2. \A p \in Opens(provider) : Operation(provider[p].op) # o
      <3>1. pc[t] = "cancelLocal"
        BY DEF CancelLocalOrder
      <3> QED BY <3>1 DEF EvidenceInv, Ready, Operation
    <2>3. Ending(db.ledger, k, id)
      <3>1. Sound(db.ledger) /\ id \in DOMAIN db.ledger.orders
        BY <2>1, RowIsSound DEF Bound
      <3> QED BY <3>1, TerminateEnds
    <2>4. Save(t, k, db.exec, "idle", Blank)
      BY <1>2
    <2> HIDE DEF k, local
    <2>5. Kept(k)
      BY <2>1, <2>2, <2>3, RowKept, EndedKept
    <2>6. SameBindings(db.exec.ops, db.exec.ops)
      BY DEF SameBindings, SameLocals
    <2> QED BY <2>4, <2>5, <2>6, KeptSave
  <1> QED BY <1>1, <1>2, QuietReturn

LEMMA RejectEvident ==
  ASSUME EvidenceInv, OneThread, SerialInv', NEW t \in Threads, RecordConfirmedRejection(t)
  PROVE  EvidenceInv'
  <1> DEFINE o == Operation(work[t].op)
             ops == db.exec.ops
             x == RecordOutcome(db.exec, o, {}, "Rejected")
  <1>1. \/ /\ CanReject(db, o)
           /\ \E id \in ops[o].local : Save(t, Cancel(db.ledger, id), x, "idle", Blank)
        \/ Return(t, "idle", Blank)
    BY AtHand DEF RecordConfirmedRejection
  <1>2. ASSUME CanReject(db, o), NEW id \in ops[o].local,
               Save(t, Cancel(db.ledger, id), x, "idle", Blank)
        PROVE  EvidenceInv'
    <2> DEFINE k == Cancel(db.ledger, id)
    <2>1. o \in DOMAIN ops /\ ops[o].remote = {}
      BY <1>2 DEF CanReject
    <2>2. \A p \in Opens(provider) : Operation(provider[p].op) # o
      <3>1. pc[t] = "reject"
        BY DEF RecordConfirmedRejection
      <3> QED BY <3>1 DEF EvidenceInv, Ready, Operation
    <2>3. Ending(db.ledger, k, id)
      <3>1. Sound(db.ledger) /\ id \in DOMAIN db.ledger.orders
        BY <2>1, RowIsSound DEF Bound
      <3> QED BY <3>1, TerminateEnds
    <2>4. /\ DOMAIN x.ops = DOMAIN ops
          /\ \A q \in DOMAIN x.ops : /\ x.ops[q].local = ops[q].local
                                     /\ x.ops[q].remote = IF q = o THEN {} ELSE ops[q].remote
      <3>1. Guarded(db.exec)
        BY RowIsSound DEF SoundGate
      <3>2. /\ x.policy = db.exec.policy /\ x.blocked = db.exec.blocked
            /\ DOMAIN x.ops = DOMAIN db.exec.ops
            /\ \A q \in DOMAIN x.ops :
                 /\ x.ops[q].local = db.exec.ops[q].local
                 /\ x.ops[q].remote = IF q = o THEN {} ELSE db.exec.ops[q].remote
                 /\ x.ops[q].outcome = IF q = o THEN "Rejected" ELSE db.exec.ops[q].outcome
        BY <2>1, <3>1, RecordIs
      <3> QED BY <3>2
    <2>5. Save(t, k, x, "idle", Blank)
      BY <1>2
    <2> HIDE DEF k, x
    <2>6. Kept(k)
      BY <2>1, <2>2, <2>3, RowKept, EndedKept
    <2>7. SameBindings(ops, x.ops)
      BY <2>1, <2>4 DEF SameBindings, SameLocals
    <2> QED BY <2>5, <2>6, <2>7, KeptSave
  <1> QED BY <1>1, <1>2, QuietReturn

LEMMA SyncEvident ==
  ASSUME EvidenceInv, OneThread, SerialInv', NEW t \in Threads, SyncProviderOrder(t)
  PROVE  EvidenceInv'
  <1> DEFINE o == Operation(work[t].op)
             ops == db.exec.ops
             failed == IF work[t].reconciling THEN "require" ELSE "idle"
             next == Continue(work[t])
  <1>1. pc[t] = "sync"
    BY DEF SyncProviderOrder
  <1>2. /\ failed \notin Deciding /\ next \notin Deciding /\ "untracked" \notin Deciding
        /\ \A step : Heard(provider, step, work[t])
    BY <1>1, HeardOn DEF Continue, Deciding
  <1>3. PICK p \in work[t].remote, remote \in work[t].seen :
          \/ /\ o \in DOMAIN ops
             /\ \E id \in ops[o].local : MergeOrder(t, db, id, p, remote)
          \/ Return(t, failed, work[t])
    BY AtHand DEF SyncProviderOrder
  <1>4. Created(provider, o, p) /\ SoundProvider(provider) /\ SoundRow(provider, db)
    BY RowIsSound, AtThread DEF SoundWork, Identifies, TradingInv
  <1>5. /\ remote.trades \in Nat /\ remote.trades <= provider[p].filled
        /\ remote.filled \in Int /\ remote.filled <= provider[p].filled
        /\ remote.status # "Open" => provider[p].status # "Open"
    BY RowIsSound, AtThread DEF EvidenceInv, Heard, SoundWork, SoundAnswers
  <1>6. CASE Return(t, failed, work[t])
    BY <1>2, <1>6, QuietReturn
  <1>7. ASSUME o \in DOMAIN ops, NEW id \in ops[o].local, MergeOrder(t, db, id, p, remote)
        PROVE  EvidenceInv'
    <2> DEFINE trades == NewTrades(db.ledger, o, p, remote.trades)
               n == Cardinality(trades)
               filled == RecordTrades(db.ledger, o, p, id, trades)
               ended == Terminate(filled, id, remote.status)
               exec == IF remote.status = "Open" THEN db.exec
                                                 ELSE ResolveUncertainty(db.exec, p)
               had == db.ledger.orders[id].filled
    <2>1. \/ Return(t, "untracked", work[t])
          \/ Save(t, RequireReconciliation(db.ledger), Block(db.exec), failed, work[t])
          \/ /\ n < remote.filled - had
             /\ Save(t, RequireReconciliation(filled), Block(db.exec), failed, work[t])
          \/ n = remote.filled - had /\ Save(t, ended, exec, next, work[t])
      BY <1>7, Zenon DEF MergeOrder
    <2>2. n \in Nat /\ IsFiniteSet(trades)
      <3> DEFINE m == remote.trades
      <3>1. trades \subseteq 1 .. m
        BY DEF NewTrades
      <3>2. m \in Nat
        BY <1>5
      <3> HIDE DEF trades, m
      <3>3. IsFiniteSet(1 .. m)
        BY <3>2, FS_Interval
      <3>4. IsFiniteSet(trades)
        BY <3>1, <3>3, FS_Subset
      <3> QED BY <3>4, FS_CardinalityType
    <2>3. /\ Sound(db.ledger) /\ id \in DOMAIN db.ledger.orders /\ had \in Int
          /\ SoundGate(provider, db.exec)
      BY <1>7, RowIsSound DEF Bound
    <2> HIDE DEF trades
    <2>4. Filling(db.ledger, filled, id, n)
      BY <2>2, <2>3, RecordTradesFills
    <2>5. SameBindings(ops, exec.ops)
      BY <2>3, BindingsStay
    <2> HIDE DEF filled, n, failed, next, exec
    <2>6. had + n <= remote.filled => Kept(filled)
      <3>1. p \in DOMAIN provider /\ o = Operation(provider[p].op)
        BY <1>4 DEF Created
      <3>2. provider[p].filled \in Nat
        BY <1>4, <3>1, RecordsAre
      <3>3. had + n <= remote.filled => db.ledger.orders[id].filled + n <= provider[p].filled
        BY <1>5, <2>2, <2>3, <3>2
      <3> HIDE DEF had
      <3> QED BY <1>7, <2>2, <2>4, <3>1, <3>3, FilledKept
    <2>7. CASE Return(t, "untracked", work[t])
      BY <1>2, <2>7, QuietReturn
    <2>8. CASE Save(t, RequireReconciliation(db.ledger), Block(db.exec), failed, work[t])
      <3> DEFINE l == RequireReconciliation(db.ledger)
                 x == Block(db.exec)
      <3>1. l.orders = db.ledger.orders /\ l.nextId = db.ledger.nextId
        BY <2>3, SameLedger
      <3>2. x.ops = ops /\ SameBindings(ops, ops)
        BY <2>3, BindingsStay
      <3> HIDE DEF l, x
      <3>3. Save(t, l, x, failed, work[t])
        BY <2>8 DEF l, x
      <3> QED BY <1>2, <3>1, <3>2, <3>3, QuietSave DEF failed
    <2>9. CASE /\ n < remote.filled - had
               /\ Save(t, RequireReconciliation(filled), Block(db.exec), failed, work[t])
      <3> DEFINE l == RequireReconciliation(filled)
                 x == Block(db.exec)
      <3>1. Kept(filled)
        <4>1. had + n <= remote.filled
          BY <1>5, <2>2, <2>3, <2>9
        <4> QED BY <2>6, <4>1
      <3>2. l.orders = filled.orders /\ l.nextId = filled.nextId
        BY <2>4, SameLedger DEF Filling
      <3>3. x.ops = ops /\ SameBindings(ops, ops)
        BY <2>3, BindingsStay
      <3> HIDE DEF l, x
      <3>4. Save(t, l, x, failed, work[t])
        BY <2>9 DEF l, x
      <3>5. Kept(l)
        BY <3>1, <3>2 DEF Kept
      <3> QED BY <1>2, <3>3, <3>4, <3>5, KeptSave DEF failed
    <2>10. CASE n = remote.filled - had /\ Save(t, ended, exec, next, work[t])
      <3>1. Kept(filled)
        <4>1. had + n <= remote.filled
          BY <1>5, <2>2, <2>3, <2>10
        <4> QED BY <2>6, <4>1
      <3>2. Kept(ended)
        <4>1. Sound(filled) /\ id \in DOMAIN filled.orders
          BY <2>3, <2>4 DEF Filling
        <4>2. CASE remote.status = "Open"
          <5>1. ended = filled
            BY <4>1, <4>2, TerminateEnds
          <5> QED BY <3>1, <5>1
        <4>3. CASE remote.status # "Open"
          <5>1. \A q \in Opens(provider) : Operation(provider[q].op) # o
            BY <1>4, <1>5, <4>3
            DEF Opens, Created, Operation, EvidenceInv, SerialInv, Once
          <5>2. Ending(filled, ended, id)
            BY <4>1, TerminateEnds
          <5> HIDE DEF ended
          <5> QED BY <1>7, <3>1, <5>1, <5>2, EndedKept
        <4> QED BY <4>2, <4>3
      <3> HIDE DEF ended
      <3> QED BY <1>2, <2>5, <2>10, <3>2, KeptSave DEF next
    <2> QED BY <2>1, <2>7, <2>8, <2>9, <2>10
  <1> QED BY <1>3, <1>6, <1>7

LEMMA BeginBinds ==
  ASSUME NEW y, Guarded(y), NEW l, NEW o, o \notin DOMAIN y.ops
  PROVE  LET x == Begin(y, l, o)
         IN  /\ DOMAIN x.ops = DOMAIN y.ops \cup {o}
             /\ x.ops[o].local = {LocalId(l.nextId)} /\ x.ops[o].remote = {}
             /\ \A q \in DOMAIN y.ops : x.ops[q] = y.ops[q]
  <1> DEFINE x == Begin(y, l, o)
  <1>1. /\ x.policy = y.policy /\ x.blocked = y.blocked
        /\ DOMAIN x.ops = DOMAIN y.ops \cup {o}
        /\ x.ops[o] = Outcome("Accepted", {LocalId(l.nextId)}, {})
        /\ \A q \in DOMAIN x.ops : q # o => x.ops[q] = y.ops[q]
    BY BeginIs, SMTT(40)
  <1> HIDE DEF x
  <1>2. /\ DOMAIN x.ops = DOMAIN y.ops \cup {o}
        /\ x.ops[o].local = {LocalId(l.nextId)} /\ x.ops[o].remote = {}
        /\ \A q \in DOMAIN y.ops : x.ops[q] = y.ops[q]
    BY <1>1 DEF Outcome
  <1> QED BY <1>2 DEF x

LEMMA BeginEvident ==
  ASSUME EvidenceInv, OneThread, SerialInv', NEW t \in Threads, BeginOrder(t)
  PROVE  EvidenceInv'
  <1> DEFINE n == work[t].op
             o == Operation(n)
             order == Request[n].order
             older == db.exec.ops
             orders == db.ledger.orders
             id == LocalId(db.ledger.nextId)
             l == Submit(db.ledger, order)
             x == Begin(db.exec, db.ledger, o)
  <1>1. \/ o \notin DOMAIN older /\ Save(t, l, x, "post", work[t])
        \/ Return(t, "idle", Blank)
    BY AtHand DEF BeginOrder, CanBegin
  <1>2. CASE o \notin DOMAIN older /\ Save(t, l, x, "post", work[t])
    <2>1. pc[t] = "begin" /\ n \in Operations
      BY RowIsSound, AtThread DEF BeginOrder, Placed, OrderSteps
    <2>2. /\ SoundJournal(provider, older) /\ Bound(db.ledger, older)
          /\ Tracked(provider, orders, older) /\ Sound(db.ledger) /\ Guarded(db.exec)
      BY RowIsSound DEF SoundGate
    <2>3. /\ l.nextId = db.ledger.nextId + 1 /\ DOMAIN l.orders = DOMAIN orders \cup {id}
          /\ \A q \in DOMAIN orders : q # id => l.orders[q] = orders[q]
          /\ IsOpen(l.orders[id]) /\ l.orders[id].filled = 0
          /\ l.orders[id].quantity = order.quantity
      <3>1. DOMAIN order = OrderFields
        BY <2>1, TradingAssumption DEF OrderFields
      <3>2. db.ledger.nextId \in Nat
        BY <2>2 DEF Bound
      <3> HIDE DEF order
      <3> QED BY <2>2, <3>1, <3>2, SubmitIs
    <2>4. /\ DOMAIN x.ops = DOMAIN older \cup {o}
          /\ x.ops[o].local = {id} /\ x.ops[o].remote = {}
          /\ \A q \in DOMAIN older : x.ops[q] = older[q]
      <3>1. Guarded(db.exec) /\ o \notin DOMAIN older
        BY <1>2, <2>2
      <3> QED BY <3>1, BeginBinds
    <2> HIDE DEF l, x, id, order
    <2>5. /\ db'.ledger = l /\ db'.exec = x /\ provider' = provider
          /\ SoundJournal(provider, x.ops) /\ Goto(t, "post", work[t])
      BY <1>2, SavedRow
    <2>6. ASSUME NEW q \in DOMAIN older, NEW i \in older[q].local
          PROVE  /\ i # id /\ i \in DOMAIN orders /\ i \in DOMAIN l.orders
                 /\ l.orders[i] = orders[i]
      <3>1. i # id
        BY <2>2 DEF Bound, LocalId, id
      <3>2. i \in DOMAIN orders
        BY <2>2 DEF Bound
      <3> QED BY <2>3, <3>1, <3>2
    <2>7. Bound(l, x.ops)
      <3>1. db.ledger.nextId \in Nat /\ l.nextId \in Nat
        BY <2>2, <2>3 DEF Bound
      <3> SUFFICES ASSUME NEW q \in DOMAIN x.ops, NEW i \in x.ops[q].local
                   PROVE  /\ i \in DOMAIN l.orders /\ l.orders[i].filled \in Int
                          /\ \E k \in 0 .. l.nextId - 1 : i = LocalId(k)
                          /\ \A m \in Operations :
                               q = Operation(m) => l.orders[i].quantity = Request[m].order.quantity
                          /\ \A u \in DOMAIN x.ops : i \in x.ops[u].local => u = q
        BY <3>1 DEF Bound
      <3>2. CASE q = o
        <4>1. i = id /\ i \in DOMAIN l.orders /\ l.orders[i].filled \in Int
          BY <2>3, <2>4, <3>2
        <4>2. \E k \in 0 .. l.nextId - 1 : i = LocalId(k)
          BY <2>3, <3>1, <4>1 DEF id
        <4>3. \A m \in Operations :
                q = Operation(m) => l.orders[i].quantity = Request[m].order.quantity
          BY <2>3, <3>2, <4>1 DEF Operation, order
        <4>4. \A u \in DOMAIN x.ops : i \in x.ops[u].local => u = q
          BY <2>4, <2>6, <3>2, <4>1
        <4> QED BY <4>1, <4>2, <4>3, <4>4
      <3>3. CASE q # o
        <4>1. q \in DOMAIN older /\ i \in older[q].local
          BY <2>4, <3>3
        <4>2. /\ i # id /\ i \in DOMAIN l.orders /\ l.orders[i] = orders[i]
          BY <2>6, <4>1
        <4>3. /\ orders[i].filled \in Int /\ \E k \in 0 .. db.ledger.nextId - 1 : i = LocalId(k)
              /\ \A m \in Operations :
                   q = Operation(m) => orders[i].quantity = Request[m].order.quantity
              /\ \A u \in DOMAIN older : i \in older[u].local => u = q
          BY <2>2, <4>1 DEF Bound
        <4>4. \E k \in 0 .. l.nextId - 1 : i = LocalId(k)
          BY <2>3, <3>1, <4>3
        <4>5. \A u \in DOMAIN x.ops : i \in x.ops[u].local => u = q
          BY <2>4, <4>2, <4>3
        <4> QED BY <4>2, <4>3, <4>4, <4>5
      <3> QED BY <3>2, <3>3
    <2>11. FromProvider(provider, l.orders)
      BY <2>2, <2>3 DEF Tracked, FromProvider, LocalId, id
    <2>8. Tracked(provider, l.orders, x.ops)
      <3> SUFFICES ASSUME NEW p \in Opens(provider)
                   PROVE  /\ \A q \in DOMAIN x.ops : \A i \in x.ops[q].local :
                               x.ops[q].remote = {p} => IsOpen(l.orders[i])
                          /\ ImportedId(p) \in DOMAIN l.orders => IsOpen(l.orders[ImportedId(p)])
                          /\ \E i \in DOMAIN l.orders :
                               /\ IsOpen(l.orders[i])
                               /\ i = ImportedId(p) \/ i \in Own(provider, x.ops, p)
        BY <2>11 DEF Tracked
      <3>1. \A q \in DOMAIN x.ops : \A i \in x.ops[q].local :
              x.ops[q].remote = {p} => IsOpen(l.orders[i])
        BY <2>2, <2>4, <2>6 DEF Tracked
      <3>2. ImportedId(p) \in DOMAIN l.orders => IsOpen(l.orders[ImportedId(p)])
        BY <2>2, <2>3 DEF Tracked
      <3>3. PICK i \in DOMAIN orders : /\ IsOpen(orders[i])
                                       /\ i = ImportedId(p) \/ i \in Own(provider, older, p)
        BY <2>2 DEF Tracked
      <3>4. i \in DOMAIN l.orders /\ IsOpen(l.orders[i])
        BY <2>3, <3>3
      <3>5. Own(provider, older, p) \subseteq Own(provider, x.ops, p)
        BY <2>4 DEF Own
      <3> QED BY <3>1, <3>2, <3>3, <3>4, <3>5
    <2>9. Ready(provider, l.orders, x.ops, "post", work[t])
      BY <2>3, <2>4 DEF Ready
    <2>10. Heard(provider, "post", work[t])
      BY <2>1, HeardOn
    <2> QED BY <2>5, <2>7, <2>8, <2>9, <2>10, EvidenceMoves
  <1> QED BY <1>1, <1>2, QuietReturn

-------------------------------------------------------------------------------
\* Commands begin, and ask.

LEMMA AskEvident ==
  ASSUME EvidenceInv, OneThread, SerialInv', NEW t \in Threads, NEW step, NEW w,
         Goto(t, step, w), db'.ledger = db.ledger, db'.exec = db.exec, provider' = provider,
         step = "idle" \/ (step \notin Deciding /\ Heard(provider, step, w))
  PROVE  EvidenceInv'
  <1>1. \/ step = "idle"
        \/ /\ Ready(provider', db'.ledger.orders, db'.exec.ops, step, w)
           /\ Heard(provider', step, w)
    BY DEF Ready, Deciding
  <1>2. /\ Bound(db'.ledger, db'.exec.ops)
        /\ Tracked(provider', db'.ledger.orders, db'.exec.ops)
    BY RowIsSound
  <1> QED BY <1>1, <1>2, EvidenceMoves

LEMMA HeardNothing ==
  ASSUME NEW P, NEW step, NEW w, w.seen = {}, ~w.reconciling \/ step = "list"
  PROVE  Heard(P, step, w)
  BY DEF Heard

LEMMA StartsEvident ==
  ASSUME EvidenceInv, OneThread, SerialInv', NEW t \in Threads,
         \/ SubmitOrder(t) \/ CancelOrder(t) \/ SyncOrder(t) \/ ReconcileAccount(t)
         \/ FreezeAll(t) \/ Acknowledge(t) \/ RecoverHost(t) \/ RecoverAlert(t)
  PROVE  EvidenceInv'
  <1>1. UNCHANGED <<db, provider>>
    BY DEF SubmitOrder, CancelOrder, SyncOrder, ForIdentified, ReconcileAccount, FreezeAll,
       Acknowledge, RecoverHost, RecoverAlert, store
  <1>2. ASSUME NEW step, NEW w, Goto(t, step, w), step \notin Deciding, w.seen = {},
               ~w.reconciling \/ step = "list"
        PROVE  EvidenceInv'
    BY <1>1, <1>2, HeardNothing, AskEvident
  <1>3. CASE SubmitOrder(t)
    <2>1. PICK n \in Operations : Goto(t, "begin", [Blank EXCEPT !.op = n])
      BY <1>3 DEF SubmitOrder, Start
    <2> DEFINE w == [Blank EXCEPT !.op = n]
    <2>2. w.seen = {} /\ w.reconciling = FALSE
      BY BlankIs
    <2>3. Goto(t, "begin", w)
      BY <2>1
    <2> HIDE DEF w
    <2> QED BY <1>2, <2>2, <2>3 DEF Deciding
  <1>4. ASSUME NEW command, NEW step \in {"cancel", "fetch"}, ForIdentified(t, command, step)
        PROVE  EvidenceInv'
    <2>1. PICK n \in Operations :
            Goto(t, step, [Blank EXCEPT !.op = n,
                             !.remote = db.exec.ops[Operation(n)].remote])
      BY <1>4 DEF ForIdentified, Start
    <2> DEFINE remote == db.exec.ops[Operation(n)].remote
               w == [Blank EXCEPT !.op = n, !.remote = remote]
    <2>2. Goto(t, step, w)
      BY <2>1
    <2> HIDE DEF remote
    <2>3. w.seen = {} /\ w.reconciling = FALSE
      BY BlankIs
    <2> HIDE DEF w
    <2> QED BY <1>2, <2>2, <2>3 DEF Deciding
  <1>5. CASE ReconcileAccount(t)
    <2> DEFINE w == [Blank EXCEPT !.reconciling = TRUE]
    <2>1. Goto(t, "list", w)
      BY <1>5 DEF ReconcileAccount, Start
    <2>2. w.seen = {}
      BY BlankIs
    <2> HIDE DEF w
    <2> QED BY <1>2, <2>1, <2>2 DEF Deciding
  <1>6. CASE FreezeAll(t) \/ Acknowledge(t) \/ RecoverHost(t) \/ RecoverAlert(t)
    <2>1. \E step \in {"freeze", "idle", "recover"} : Goto(t, step, Blank)
      BY <1>6 DEF FreezeAll, Acknowledge, RecoverHost, RecoverAlert, Start
    <2> QED BY <1>2, <2>1, BlankIs DEF Deciding
  <1> QED BY <1>3, <1>4, <1>5, <1>6 DEF CancelOrder, SyncOrder

\* The listing has every order that is open, then and later.
LEMMA ListEvident ==
  ASSUME EvidenceInv, OneThread, SerialInv', NEW t \in Threads, ListOpenOrders(t)
  PROVE  EvidenceInv'
  <1> DEFINE listing == {[id |-> p, filled |-> provider[p].filled] : p \in OpenOrders}
             w == [work[t] EXCEPT !.listing = listing]
  <1>1. /\ UNCHANGED <<db, provider>> /\ pc[t] = "list"
        /\ Goto(t, "balance", w) \/ Goto(t, "idle", Blank)
    BY DEF ListOpenOrders, store
  <1>2. CASE Goto(t, "balance", w)
    <2>1. DOMAIN work[t] = WorkFields
      BY RowIsSound, AtThread DEF SoundWork
    <2>2. Opens(provider) \subseteq {entry.id : entry \in listing}
      <3> SUFFICES ASSUME NEW p \in Opens(provider) PROVE \E entry \in listing : entry.id = p
        OBVIOUS
      <3> DEFINE entry == [id |-> p, filled |-> provider[p].filled]
      <3>1. entry.id = p /\ p \in OpenOrders
        BY DEF Opens, OpenOrders
      <3>2. entry \in listing
        BY <3>1
      <3> QED BY <3>1, <3>2
    <2> HIDE DEF listing
    <2>3. w.seen = work[t].seen /\ w.remote = work[t].remote /\ w.listing = listing
      BY <2>1 DEF WorkFields
    <2> HIDE DEF w
    <2>4. Heard(provider, pc[t], work[t])
      BY DEF EvidenceInv
    <2>5. Heard(provider, "balance", w)
      BY <2>2, <2>3, <2>4 DEF Heard
    <2> QED BY <1>1, <1>2, <2>5, AskEvident DEF Deciding
  <1> QED BY <1>1, <1>2, AskEvident

\* A reconciliation goes on with the listing it has.
LEMMA GoesOnEvident ==
  ASSUME EvidenceInv, OneThread, SerialInv', NEW t \in Threads,
         \/ FetchBalance(t) \/ FindVanished(t) \/ ClaimGate(t) \/ CompleteReconciliation(t)
         \/ ResolveNext(t)
  PROVE  EvidenceInv'
  <1>1. /\ db'.ledger = db.ledger /\ db'.exec = db.exec /\ provider' = provider
        /\ pc[t] # "list"
    <2>1. db' = db \/ (\E b \in BOOLEAN : db' = [db EXCEPT !.marker = b])
      BY DEF FetchBalance, FindVanished, ClaimGate, CompleteReconciliation, ResolveNext, store
    <2>2. SoundRow(provider, db)
      BY RowIsSound DEF TradingInv
    <2>3. db'.ledger = db.ledger /\ db'.exec = db.exec
      BY <2>1, <2>2 DEF SoundRow
    <2>4. provider' = provider /\ pc[t] # "list"
      BY DEF FetchBalance, FindVanished, ClaimGate, CompleteReconciliation, ResolveNext
    <2> QED BY <2>3, <2>4
  <1>2. ASSUME NEW step, NEW w, Goto(t, step, w), step \notin Deciding,
               w.seen = {} \/ (w.seen = work[t].seen /\ w.remote = work[t].remote),
               w.reconciling = work[t].reconciling, w.listing = work[t].listing
        PROVE  EvidenceInv'
    <2>1. Heard(provider, step, w)
      BY <1>1, <1>2, HeardOn
    <2> QED BY <1>1, <1>2, <2>1, AskEvident
  <1>3. ASSUME NEW step \in {"idle", "absence"}, Goto(t, step, Blank) PROVE EvidenceInv'
    <2>1. Heard(provider, step, Blank)
      BY HeardNothing, BlankIs
    <2> QED BY <1>1, <1>3, <2>1, AskEvident DEF Deciding
  <1>4. DOMAIN work[t] = WorkFields
    BY RowIsSound, AtThread DEF SoundWork
  <1>5. CASE FetchBalance(t)
    <2> DEFINE snapshot == {Snapshot}
               w == [work[t] EXCEPT !.snapshot = snapshot]
    <2>1. Goto(t, "claim", w) \/ Goto(t, "idle", Blank)
      BY <1>5 DEF FetchBalance
    <2> HIDE DEF snapshot
    <2>2. /\ w.seen = work[t].seen /\ w.remote = work[t].remote
          /\ w.reconciling = work[t].reconciling /\ w.listing = work[t].listing
      BY <1>4 DEF WorkFields
    <2> HIDE DEF w
    <2> QED BY <1>2, <1>3, <2>1, <2>2 DEF Deciding
  <1>6. CASE FindVanished(t)
    <2> DEFINE todo == {[op |-> o[2], local |-> db.exec.ops[o].local,
                         remote |-> db.exec.ops[o].remote] :
                          o \in Vanished(db.ledger, db.exec, work[t].listing)}
               w == [work[t] EXCEPT !.todo = todo]
    <2>1. Goto(t, Continue(w), w)
      BY <1>6 DEF FindVanished
    <2> HIDE DEF todo
    <2>2. /\ w.seen = work[t].seen /\ w.remote = work[t].remote
          /\ w.reconciling = work[t].reconciling /\ w.listing = work[t].listing
      BY <1>4 DEF WorkFields
    <2> DEFINE step == Continue(w)
    <2>3. step \notin Deciding
      BY DEF Continue, Deciding
    <2> HIDE DEF w, step
    <2> QED BY <1>2, <2>1, <2>2, <2>3 DEF step
  <1>7. CASE ClaimGate(t) \/ CompleteReconciliation(t)
    <2>1. \/ Goto(t, "reconcile", work[t])
          \/ \E step \in {"idle", "absence"} : Goto(t, step, Blank)
      BY <1>7 DEF ClaimGate, CompleteReconciliation
    <2> QED BY <1>2, <1>3, <2>1 DEF Deciding
  <1>8. CASE ResolveNext(t)
    <2>1. PICK item \in work[t].todo :
            Goto(t, "fetch", [work[t] EXCEPT !.todo = @ \ {item}, !.op = item.op,
                                !.local = item.local, !.remote = item.remote, !.seen = {}])
      BY <1>8 DEF ResolveNext
    <2> DEFINE todo == work[t].todo \ {item}
               op == item.op
               local == item.local
               remote == item.remote
               w == [work[t] EXCEPT !.todo = todo, !.op = op, !.local = local,
                       !.remote = remote, !.seen = {}]
    <2>2. Goto(t, "fetch", w)
      BY <2>1
    <2> HIDE DEF todo, op, local, remote
    <2>3. w.seen = {} /\ w.reconciling = work[t].reconciling /\ w.listing = work[t].listing
      BY <1>4 DEF WorkFields
    <2> HIDE DEF w
    <2> QED BY <1>2, <2>2, <2>3 DEF Deciding
  <1> QED BY <1>5, <1>6, <1>7, <1>8

\* An answer is what the provider has then, which it never takes back.
LEMMA AnswersEvident ==
  ASSUME EvidenceInv, OneThread, SerialInv', NEW t \in Threads, FetchOrder(t) \/ FetchTrades(t)
  PROVE  EvidenceInv'
  <1>1. UNCHANGED <<db, provider>> /\ pc[t] # "list"
    BY DEF FetchOrder, FetchTrades, store
  <1>2. DOMAIN work[t] = WorkFields /\ SoundProvider(provider)
        /\ \A p, q \in work[t].remote : p \in DOMAIN provider /\ p = q
        /\ \A answer \in work[t].seen : DOMAIN answer = AnswerFields
    BY RowIsSound, AtThread DEF SoundWork, Identifies, Created, SoundAnswers
  <1>3. Heard(provider, pc[t], work[t])
    BY DEF EvidenceInv
  <1>4. ASSUME NEW p \in work[t].remote, NEW answer, NEW step \in {"trades", "sync"},
               answer.filled \in Int, answer.filled <= provider[p].filled,
               answer.status # "Open" => provider[p].status # "Open",
               Goto(t, step, [work[t] EXCEPT !.seen = {answer}])
        PROVE  EvidenceInv'
    <2> DEFINE seen == {answer}
               w == [work[t] EXCEPT !.seen = seen]
    <2>1. Goto(t, step, w)
      BY <1>4
    <2>2. \A a \in seen : a = answer
      OBVIOUS
    <2> HIDE DEF seen
    <2>3. /\ w.seen = seen /\ w.remote = work[t].remote
          /\ w.reconciling = work[t].reconciling /\ w.listing = work[t].listing
      BY <1>2 DEF WorkFields
    <2> HIDE DEF w
    <2>4. Heard(provider, step, w)
      BY <1>1, <1>2, <1>3, <1>4, <2>2, <2>3 DEF Heard
    <2> QED BY <1>1, <1>4, <2>1, <2>4, AskEvident DEF Deciding
  <1>5. CASE FetchOrder(t)
    <2>1. CASE \E p \in work[t].remote, trades \in {0, 1} :
                 Goto(t, IF work[t].reconciling THEN "trades" ELSE "sync",
                      [work[t] EXCEPT !.seen = {[filled |-> provider[p].filled,
                                                 status |-> provider[p].status,
                                                 trades |-> trades * provider[p].filled]}])
      <3>1. PICK p \in work[t].remote : \E trades \in {0, 1} :
                 Goto(t, IF work[t].reconciling THEN "trades" ELSE "sync",
                      [work[t] EXCEPT !.seen = {[filled |-> provider[p].filled,
                                                 status |-> provider[p].status,
                                                 trades |-> trades * provider[p].filled]}])
        BY <2>1
      <3>2. PICK trades \in {0, 1} :
                 Goto(t, IF work[t].reconciling THEN "trades" ELSE "sync",
                      [work[t] EXCEPT !.seen = {[filled |-> provider[p].filled,
                                                 status |-> provider[p].status,
                                                 trades |-> trades * provider[p].filled]}])
        BY <3>1
      <3> DEFINE answer == [filled |-> provider[p].filled, status |-> provider[p].status,
                            trades |-> trades * provider[p].filled]
                 step == IF work[t].reconciling THEN "trades" ELSE "sync"
      <3>3. /\ answer.filled \in Int /\ answer.filled <= provider[p].filled
            /\ answer.status # "Open" => provider[p].status # "Open"
        BY <1>2, RecordsAre
      <3>4. step \in {"trades", "sync"} /\ Goto(t, step, [work[t] EXCEPT !.seen = {answer}])
        BY <3>2
      <3> HIDE DEF answer, step
      <3> QED BY <1>4, <3>3, <3>4
    <2>2. CASE Goto(t, IF work[t].reconciling THEN "unresolved" ELSE "idle", work[t])
      <3> DEFINE step == IF work[t].reconciling THEN "unresolved" ELSE "idle"
      <3>1. step \notin Deciding
        BY DEF Deciding
      <3> HIDE DEF step
      <3>2. Heard(provider, step, work[t])
        BY <1>1, HeardOn
      <3>3. Goto(t, step, work[t])
        BY <2>2 DEF step
      <3> QED BY <1>1, <3>1, <3>2, <3>3, AskEvident
    <2> QED BY <1>5, <2>1, <2>2 DEF FetchOrder
  <1>6. CASE FetchTrades(t)
    <2>1. PICK p \in work[t].remote, answer \in work[t].seen :
            \E trades \in {answer.trades, provider[p].filled} :
              Goto(t, "sync", [work[t] EXCEPT !.seen = {[answer EXCEPT !.trades = trades]}])
      BY <1>6 DEF FetchTrades
    <2>2. PICK trades : Goto(t, "sync", [work[t] EXCEPT !.seen = {[answer EXCEPT !.trades = trades]}])
      BY <2>1
    <2> DEFINE a == [answer EXCEPT !.trades = trades]
    <2>3. a.filled = answer.filled /\ a.status = answer.status
      BY <1>2 DEF AnswerFields
    <2>4. Goto(t, "sync", [work[t] EXCEPT !.seen = {a}])
      BY <2>2
    <2> HIDE DEF a
    <2>5. /\ a.filled \in Int /\ a.filled <= provider[p].filled
          /\ a.status # "Open" => provider[p].status # "Open"
      BY <1>3, <2>3 DEF Heard
    <2> QED BY <1>4, <2>4, <2>5
  <1> QED BY <1>5, <1>6

-------------------------------------------------------------------------------
\* The provider's orders are filled and end; none opens again.

Ripens(P, Q) ==
  /\ SoundProvider(P) /\ SoundProvider(Q) /\ DOMAIN Q = DOMAIN P
  /\ \A p \in DOMAIN P : /\ Q[p].op = P[p].op /\ P[p].filled <= Q[p].filled
                         /\ Q[p].status = "Open" => P[p].status = "Open"

LEMMA RipenedKeeps ==
  ASSUME NEW P, NEW Q, Ripens(P, Q), NEW orders, NEW ops
  PROVE  /\ Tracked(P, orders, ops) => Tracked(Q, orders, ops)
         /\ \A step, w : Ready(P, orders, ops, step, w) => Ready(Q, orders, ops, step, w)
         /\ \A step, w : SoundWork(P, w) /\ Heard(P, step, w) => Heard(Q, step, w)
  <1>1. Opens(Q) \subseteq Opens(P)
    BY DEF Opens, Ripens
  <1>2. \A p \in Opens(Q) : Own(Q, ops, p) = Own(P, ops, p) /\ Q[p].op = P[p].op
    BY DEF Opens, Own, Ripens
  <1>3. Tracked(P, orders, ops) => Tracked(Q, orders, ops)
    BY <1>1, <1>2 DEF Tracked, FromProvider, Ripens
  <1>4. \A step, w : Ready(P, orders, ops, step, w) => Ready(Q, orders, ops, step, w)
    BY <1>1, <1>2 DEF Ready
  <1>5. ASSUME NEW step, NEW w, SoundWork(P, w), Heard(P, step, w) PROVE Heard(Q, step, w)
    <2>1. ASSUME NEW answer \in w.seen, NEW p \in w.remote
          PROVE  /\ answer.filled \in Int /\ answer.filled <= Q[p].filled
                 /\ answer.status # "Open" => Q[p].status # "Open"
      <3>1. p \in DOMAIN P /\ p \in DOMAIN Q
        BY <1>5 DEF SoundWork, Identifies, Created, Ripens
      <3>2. P[p].filled \in Nat /\ Q[p].filled \in Nat
        BY <3>1, RecordsAre DEF Ripens
      <3>3. /\ answer.filled \in Int /\ answer.filled <= P[p].filled
            /\ answer.status # "Open" => P[p].status # "Open"
        BY <1>5 DEF Heard
      <3> QED BY <3>1, <3>2, <3>3 DEF Ripens
    <2>2. w.reconciling /\ step # "list" => Opens(Q) \subseteq {entry.id : entry \in w.listing}
      BY <1>1, <1>5 DEF Heard
    <2> QED BY <2>1, <2>2 DEF Heard
  <1> QED BY <1>3, <1>4, <1>5

Ends(P, p, status, Q) ==
  /\ p \in DOMAIN P /\ status \in {"Filled", "Canceled"}
  /\ Q = [P EXCEPT ![p].status = status]

LEMMA EndRipens ==
  ASSUME NEW P, SoundProvider(P), NEW p, NEW status, NEW Q, Ends(P, p, status, Q)
  PROVE  Ripens(P, Q) /\ Q[p].status = status
  <1> USE DEF Ends
  <1>1. SoundProvider(Q) /\ Grows(P, Q)
    BY StatusGrows
  <1>2. DOMAIN P = DOMAIN Q /\ \A q \in DOMAIN P : q # p => Q[q] = P[q]
    OBVIOUS
  <1>3. Q[p].status = status
    <2> DEFINE e == [P[p] EXCEPT !.status = status]
    <2>1. Q[p] = e
      BY Zenon
    <2>2. e.status = status
      BY RecordsAre
    <2> QED BY <2>1, <2>2
  <1> QED BY <1>1, <1>2, <1>3 DEF Ripens, Grows

LEMMA FillRipens == ASSUME TradingInv, ProviderFill PROVE Ripens(provider, provider')
  <1>1. /\ SoundProvider(provider) /\ SoundProvider(provider') /\ Grows(provider, provider')
        /\ DOMAIN provider' = DOMAIN provider
    BY ProviderGrows DEF TradingInv
  <1>2. PICK p \in OpenOrders : \E filled, status :
          provider' = [provider EXCEPT ![p].filled = filled, ![p].status = status]
    BY DEF ProviderFill
  <1>3. PICK filled, status :
          provider' = [provider EXCEPT ![p].filled = filled, ![p].status = status]
    BY <1>2
  <1>4. \A q \in DOMAIN provider : q # p => provider'[q] = provider[q]
    <2> DEFINE mid == [provider EXCEPT ![p].filled = filled]
    <2>1. provider' = [mid EXCEPT ![p].status = status]
      BY <1>3, Zenon
    <2>2. DOMAIN mid = DOMAIN provider /\ \A q \in DOMAIN provider : q # p => mid[q] = provider[q]
      OBVIOUS
    <2> HIDE DEF mid
    <2> QED BY <2>1, <2>2
  <1> QED BY <1>1, <1>4 DEF Ripens, Grows, OpenOrders

LEMMA ProviderEvident ==
  ASSUME EvidenceInv, SerialInv', ProviderFill \/ ProviderFinish PROVE EvidenceInv'
  <1>1. UNCHANGED <<db, pc, work>>
    BY DEF ProviderFill, ProviderFinish, store
  <1>2. Ripens(provider, provider')
    <2>1. ASSUME NEW p \in OpenOrders, NEW status \in {"Filled", "Canceled"},
                 provider' = [provider EXCEPT ![p].status = status]
          PROVE  Ripens(provider, provider')
      BY <2>1, RowIsSound, EndRipens DEF Ends, OpenOrders
    <2> QED BY <2>1, RowIsSound, FillRipens DEF ProviderFinish
  <1>3. Tracked(provider', db.ledger.orders, db.exec.ops)
    BY <1>2, RipenedKeeps, RowIsSound
  <1>4. ASSUME NEW t \in Threads
        PROVE  /\ Ready(provider', db.ledger.orders, db.exec.ops, pc[t], work[t])
               /\ Heard(provider', pc[t], work[t])
    <2>1. /\ Ready(provider, db.ledger.orders, db.exec.ops, pc[t], work[t])
          /\ Heard(provider, pc[t], work[t]) /\ SoundWork(provider, work[t])
      BY RowIsSound, AtThread DEF EvidenceInv
    <2> QED BY <1>2, <2>1, RipenedKeeps
  <1> QED BY <1>1, <1>3, <1>4 DEF EvidenceInv

\* What is canceled at the provider has ended there, and nothing else is the operation's.
LEMMA RequestCancelEvident ==
  ASSUME EvidenceInv, OneThread, SerialInv', NEW t \in Threads, RequestCancel(t)
  PROVE  EvidenceInv'
  <1> DEFINE w == work[t]
             n == w.op
  <1>1. PICK p \in w.remote :
          \/ /\ p \in OpenOrders /\ provider' = [provider EXCEPT ![p].status = "Canceled"]
             /\ Goto(t, "cancelResult", w) \/ Goto(t, "uncertain", w)
          \/ provider' = provider /\ Goto(t, "uncertain", w)
    BY DEF RequestCancel
  <1>2. /\ db' = db /\ pc[t] = "cancel" /\ w.seen = {} /\ w.reconciling = FALSE
        /\ Identifies(provider, Operation(n), w.remote)
    BY RowIsSound, AtThread
    DEF RequestCancel, store, Placed, OrderSteps, Unclaimed, Phases, Shared, SoundWork
  <1>3. p \in DOMAIN provider /\ provider[p].op = n
    BY <1>2 DEF Identifies, Created, Operation
  <1>4. \A step : Heard(provider', step, w)
    BY <1>2, HeardNothing
  <1> HIDE DEF w
  <1>5. CASE provider' = provider /\ Goto(t, "uncertain", w)
    BY <1>2, <1>4, <1>5, AskEvident DEF Deciding
  <1>6. CASE /\ provider' = [provider EXCEPT ![p].status = "Canceled"]
             /\ Goto(t, "cancelResult", w) \/ Goto(t, "uncertain", w)
    <2>1. Ripens(provider, provider') /\ provider'[p].status = "Canceled"
      BY <1>3, <1>6, RowIsSound, EndRipens DEF Ends
    <2>2. /\ Bound(db'.ledger, db'.exec.ops)
          /\ Tracked(provider', db'.ledger.orders, db'.exec.ops)
      BY <1>2, <2>1, RowIsSound, RipenedKeeps
    <2>3. \A q \in Opens(provider') : provider'[q].op # n
      BY <1>3, <2>1 DEF Opens, Ripens, SerialInv, Once
    <2>4. \A step \in {"cancelResult", "uncertain"} :
            Ready(provider', db'.ledger.orders, db'.exec.ops, step, w)
      BY <2>3 DEF Ready
    <2> QED BY <1>4, <1>6, <2>2, <2>4, EvidenceMoves
  <1> QED BY <1>1, <1>5, <1>6

-------------------------------------------------------------------------------
\* An order reaches the provider: its local order is there, and open.

LEMMA SentTracked ==
  ASSUME NEW P, NEW Q, NEW p, p \notin DOMAIN P, DOMAIN Q = DOMAIN P \cup {p},
         \A q \in DOMAIN P : Q[q] = P[q],
         NEW l, NEW ops, SoundJournal(P, ops), Bound(l, ops), Tracked(P, l.orders, ops),
         LET o == Operation(Q[p].op)
         IN  /\ o \in DOMAIN ops /\ ops[o].local # {}
             /\ \A id \in ops[o].local : IsOpen(l.orders[id])
  PROVE  Tracked(Q, l.orders, ops)
  <1> SUFFICES ASSUME NEW q \in Opens(Q)
               PROVE  /\ \A o \in DOMAIN ops : \A id \in ops[o].local :
                           ops[o].remote = {q} => IsOpen(l.orders[id])
                      /\ ImportedId(q) \in DOMAIN l.orders => IsOpen(l.orders[ImportedId(q)])
                      /\ \E id \in DOMAIN l.orders : /\ IsOpen(l.orders[id])
                                                     /\ \/ id = ImportedId(q)
                                                        \/ id \in Own(Q, ops, q)
    BY DEF Tracked, FromProvider
  <1>1. CASE q \in DOMAIN P
    <2>1. q \in Opens(P) /\ Own(Q, ops, q) = Own(P, ops, q)
      BY <1>1 DEF Opens, Own
    <2> QED BY <2>1 DEF Tracked
  <1>2. CASE q = p
    <2>1. \A o \in DOMAIN ops : \A id \in ops[o].local : ops[o].remote # {p}
      BY DEF SoundJournal, SoundEntry, Identifies, Created
    <2>2. ImportedId(p) \notin DOMAIN l.orders
      BY DEF Tracked, FromProvider, ImportedId
    <2>3. PICK id \in ops[Operation(Q[p].op)].local : IsOpen(l.orders[id])
      OBVIOUS
    <2>4. id \in DOMAIN l.orders /\ id \in Own(Q, ops, p)
      BY DEF Bound, Own
    <2> QED BY <1>2, <2>1, <2>2, <2>3, <2>4
  <1> QED BY <1>1, <1>2 DEF Opens

LEMMA SentIs ==
  ASSUME NEW P, SoundProvider(P), NEW n
  PROVE  LET Q == Append(P, ProviderOrder(n))
         IN  /\ Q # P /\ Len(Q) \notin DOMAIN P /\ DOMAIN Q = DOMAIN P \cup {Len(Q)}
             /\ Q[Len(Q)].op = n /\ \A p \in DOMAIN P : Q[p] = P[p]
  <1> DEFINE e == ProviderOrder(n)
  <1>1. e.op = n /\ Len(P) \in Nat /\ DOMAIN P = 1 .. Len(P) /\ P \in Seq(ProviderRecords)
    BY DEF ProviderOrder, SoundProvider
  <1> HIDE DEF e
  <1> DEFINE Q == Append(P, e)
  <1>2. /\ Len(Q) = Len(P) + 1 /\ DOMAIN Q = 1 .. Len(Q) /\ Q[Len(Q)] = e
        /\ \A p \in DOMAIN P : Q[p] = P[p]
    BY <1>1
  <1> HIDE DEF Q
  <1>3. /\ Q # P /\ Len(Q) \notin DOMAIN P /\ DOMAIN Q = DOMAIN P \cup {Len(Q)}
        /\ Q[Len(Q)].op = n /\ \A p \in DOMAIN P : Q[p] = P[p]
    BY <1>1, <1>2
  <1> QED BY <1>3 DEF Q, e

LEMMA PostEvident ==
  ASSUME EvidenceInv, OneThread, SerialInv', NEW t \in Threads, Post(t)
  PROVE  EvidenceInv'
  <1> DEFINE w == work[t]
             n == w.op
             o == Operation(n)
             orders == db.ledger.orders
             ops == db.exec.ops
             created == Append(provider, ProviderOrder(n))
             ids == {Len(created)}
             u == [w EXCEPT !.remote = ids]
  <1>1. /\ db' = db /\ pc[t] = "post" /\ w.seen = {} /\ w.reconciling = FALSE
        /\ n \in Operations /\ Request[n].order.quantity > 0 /\ DOMAIN w = WorkFields
    BY RowIsSound, AtThread
    DEF Post, store, Placed, OrderSteps, Unclaimed, Phases, Shared, SoundWork
  <1>2. /\ o \in DOMAIN ops /\ \A p \in DOMAIN provider : provider[p].op # n
        /\ ops[o].local # {} /\ \A id \in ops[o].local : IsOpen(orders[id])
    <2>1. Careful(t) /\ Ready(provider, orders, ops, pc[t], w)
      BY DEF EvidenceInv, SerialInv
    <2> QED BY <1>1, <2>1 DEF Careful, Ready
  <1>3. \/ /\ provider' = created
           /\ \/ Goto(t, "result", u)
              \/ \E step \in {"result", "uncertain"} : Goto(t, step, w)
        \/ /\ provider' = provider
           /\ \E step \in {"uncertain", "reject"} : Goto(t, step, w)
    BY DEF Post
  <1>4. /\ Bound(db.ledger, ops) /\ Tracked(provider, orders, ops)
        /\ SoundJournal(provider, ops) /\ SoundProvider(provider)
    BY RowIsSound
  <1>5. u.op = n /\ u.seen = {} /\ u.reconciling = FALSE
    <2> HIDE DEF ids, w
    <2> QED BY <1>1 DEF WorkFields
  <1> HIDE DEF u
  <1>6. CASE provider' = provider
    <2>1. \A step \in {"uncertain", "reject"} : Ready(provider, orders, ops, step, w)
      BY <1>2 DEF Ready, Opens
    <2>2. \A step : Heard(provider, step, w)
      BY <1>1, HeardNothing
    <2>3. CASE \E s \in {"uncertain", "reject"} : Goto(t, s, w)
      BY <1>1, <1>4, <1>6, <2>1, <2>2, <2>3, EvidenceMoves
    <2>4. provider # created
      BY <1>1, <1>4, SentIs
    <2> QED BY <1>3, <1>6, <2>3, <2>4
  <1>7. CASE provider' = created
    <2>1. /\ Len(created) \notin DOMAIN provider
          /\ DOMAIN created = DOMAIN provider \cup {Len(created)}
          /\ created[Len(created)].op = n
          /\ \A p \in DOMAIN provider : created[p] = provider[p]
      BY <1>1, <1>4, SentIs
    <2> DEFINE p == Len(created)
    <2> HIDE DEF created, n, w
    <2>2. Tracked(created, orders, ops)
      <3>1. Operation(created[p].op) = o
        BY <2>1
      <3> HIDE DEF p, o
      <3> QED BY <1>2, <1>4, <2>1, <3>1, SentTracked DEF p
    <2>3. ASSUME NEW v \in {w, u} PROVE Ready(created, orders, ops, "result", v)
      BY <1>2, <1>5 DEF Ready, n
    <2>4. Ready(created, orders, ops, "uncertain", w)
      BY DEF Ready
    <2>5. \A step : Heard(created, step, w) /\ Heard(created, step, u)
      BY <1>1, <1>5, HeardNothing
    <2>6. PICK step \in {"result", "uncertain"}, v \in {w, u} :
            Goto(t, step, v) /\ (step = "result" \/ v = w)
      <3>1. \/ Goto(t, "result", u) \/ Goto(t, "result", w) \/ Goto(t, "uncertain", w)
            \/ (provider' = provider /\ provider' = created)
        BY <1>3, <1>7
      <3>2. created # provider
        BY <2>1
      <3> QED BY <1>7, <3>1, <3>2
    <2>7. Ready(created, orders, ops, step, v) /\ Heard(created, step, v)
      BY <2>3, <2>4, <2>5, <2>6
    <2>8. /\ Bound(db'.ledger, db'.exec.ops)
          /\ Tracked(provider', db'.ledger.orders, db'.exec.ops)
          /\ Ready(provider', db'.ledger.orders, db'.exec.ops, step, v)
          /\ Heard(provider', step, v)
      BY <1>1, <1>4, <1>7, <2>2, <2>7
    <2> QED BY <2>6, <2>8, EvidenceMoves
  <1> QED BY <1>3, <1>6, <1>7

-------------------------------------------------------------------------------
\* Every step, and the theorems.

LEMMA LoadEvident ==
  ASSUME EvidenceInv, NEW t \in Threads, Load(t), SerialInv' PROVE EvidenceInv'
  <1>1. UNCHANGED <<db, pc, work, provider>>
    BY DEF Load
  <1> QED BY <1>1 DEF EvidenceInv

LEMMA RestartEvident ==
  ASSUME EvidenceInv, Restart, SerialInv' PROVE EvidenceInv'
  <1> DEFINE l == RequireReconciliation(db.ledger)
             x == Block(db.exec)
  <1>1. l.orders = db.ledger.orders /\ l.nextId = db.ledger.nextId
    BY RowIsSound, SameLedger
  <1>2. x.ops = db.exec.ops
    BY RowIsSound, BindingsStay
  <1>3. db' = [db EXCEPT !.ledger = l, !.exec = x] /\ provider' = provider
    BY DEF Restart
  <1> HIDE DEF l, x
  <1>4. db'.ledger = l /\ db'.exec = x
    BY <1>3, RowIsSound, RowWritten
  <1>5. Bound(l, x.ops) /\ Tracked(provider, l.orders, x.ops)
    BY <1>1, <1>2, RowIsSound DEF Bound
  <1>6. ASSUME NEW t \in Threads PROVE pc'[t] = "idle" /\ work'[t] = Blank
    BY DEF Restart
  <1> QED BY <1>3, <1>4, <1>5, <1>6, IdleKnows DEF EvidenceInv

LEMMA StepEvident ==
  ASSUME EvidenceInv, OneThread, SerialInv', NEW t \in Threads, Step(t) PROVE EvidenceInv'
  <1>1. CASE \/ Load(t) \/ SubmitOrder(t) \/ CancelOrder(t) \/ SyncOrder(t)
             \/ ReconcileAccount(t) \/ FreezeAll(t) \/ Acknowledge(t) \/ RecoverHost(t)
             \/ RecoverAlert(t)
    BY <1>1, LoadEvident, StartsEvident
  <1>2. CASE \/ ListOpenOrders(t) \/ FetchBalance(t) \/ FindVanished(t) \/ ClaimGate(t)
             \/ CompleteReconciliation(t) \/ ResolveNext(t) \/ FetchOrder(t) \/ FetchTrades(t)
             \/ RequestCancel(t) \/ Post(t)
    BY <1>2, ListEvident, GoesOnEvident, AnswersEvident, RequestCancelEvident, PostEvident
  <1>3. CASE \/ BeginOrder(t) \/ RecordOrderResult(t) \/ RetainUncertain(t)
             \/ RecordConfirmedRejection(t) \/ CancelLocalOrder(t) \/ SyncProviderOrder(t)
    BY <1>3, BeginEvident, ResultEvident, OutcomeUnknownEvident, RejectEvident,
       CancelLocalEvident, SyncEvident
  <1>4. CASE \/ LoseOrder(t) \/ RequireAccountReconciliation(t) \/ FreezeAccount(t)
             \/ RecoverAccount(t) \/ RecoverAbsence(t) \/ RecordSnapshot(t)
             \/ RecordOpenOrders(t)
    BY <1>4, LosingEvident, FreezingEvident, SnapshotEvident, RecordOpenEvident
  <1> QED BY <1>1, <1>2, <1>3, <1>4 DEF Step

LEMMA NextEvident ==
  ASSUME EvidenceInv, OneThread, [Next]_vars, SerialInv' PROVE EvidenceInv'
  <1>1. CASE UNCHANGED vars
    BY <1>1 DEF vars, EvidenceInv
  <1> QED BY <1>1, StepEvident, ProviderEvident, RestartEvident DEF Next

\* In every state each order open at the provider is tracked by an open order here,
\* and a local order that stands for one is open.
THEOREM EvidenceStays == ASSUME OneThread PROVE Spec => []EvidenceInv
  <1>1. Init /\ SerialInv => EvidenceInv
    <2> SUFFICES ASSUME Init, SerialInv PROVE EvidenceInv
      OBVIOUS
    <2>1. /\ DOMAIN provider = {} /\ DOMAIN db.exec.ops = {} /\ DOMAIN db.ledger.orders = {}
          /\ db.ledger.nextId \in Nat
          /\ \A t \in Threads : pc[t] = "idle" /\ work[t] = Blank
      BY DEF Init, NewLedger, NewExecution
    <2>2. Bound(db.ledger, db.exec.ops)
      BY <2>1 DEF Bound
    <2>3. Tracked(provider, db.ledger.orders, db.exec.ops)
      BY <2>1 DEF Tracked, FromProvider, Opens
    <2> QED BY <2>1, <2>2, <2>3, IdleKnows DEF EvidenceInv
  <1>2. EvidenceInv /\ [Next]_vars /\ SerialInv' => EvidenceInv'
    BY NextEvident
  <1> QED BY <1>1, <1>2, SerialStays, PTL DEF Spec

\* With one command at a time, a local order of known provider identity is Cancelled
\* or Filled only when the provider's order has ended.
THEOREM TerminalsHaveEvidence == ASSUME OneThread PROVE Spec => []TerminalOnlyWithEvidence
  <1>1. EvidenceInv => TerminalOnlyWithEvidence
    <2> SUFFICES ASSUME EvidenceInv, NEW p \in OpenOrders,
                        NEW id \in StandFor(p) \cap DOMAIN db.ledger.orders
                 PROVE  IsOpen(db.ledger.orders[id])
      BY DEF TerminalOnlyWithEvidence
    <2>1. p \in Opens(provider)
      BY DEF OpenOrders, Opens
    <2>2. id = ImportedId(p) \/ \E o \in DOMAIN db.exec.ops :
                                  id \in db.exec.ops[o].local /\ db.exec.ops[o].remote = {p}
      BY DEF StandFor, MappedTo
    <2> QED BY <2>1, <2>2, RowIsSound DEF Tracked
  <1> QED BY <1>1, EvidenceStays, PTL

\* With one command at a time, whenever the account may take new risk, every order
\* still open at the provider is an open order here, so its exposure is counted.
THEOREM ExposureStaysTracked == ASSUME OneThread PROVE Spec => []OpenExposureIsTracked
  <1>1. EvidenceInv => OpenExposureIsTracked
    <2> SUFFICES ASSUME EvidenceInv, NEW p \in OpenOrders
                 PROVE  \E id \in DOMAIN db.ledger.orders :
                          /\ IsOpen(db.ledger.orders[id])
                          /\ id \in StandFor(p) \cup Own(provider, db.exec.ops, p)
      BY DEF OpenExposureIsTracked, Own
    <2>1. p \in Opens(provider)
      BY DEF OpenOrders, Opens
    <2>2. PICK id \in DOMAIN db.ledger.orders :
            /\ IsOpen(db.ledger.orders[id])
            /\ id = ImportedId(p) \/ id \in Own(provider, db.exec.ops, p)
      BY <2>1, RowIsSound DEF Tracked
    <2> QED BY <2>2 DEF StandFor
  <1> QED BY <1>1, EvidenceStays, PTL
=================================================================================
