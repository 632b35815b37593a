------------------------------ MODULE PaperTrading ------------------------------
(***************************************************************************)
(* The Host's shared OKX Demo account: PaperTradingStore over its database *)
(* row, the commands that use it, the Host freeze alert, and the provider. *)
(*                                                                         *)
(* Every operation of the store loads a copy of the row, changes the copy  *)
(* and saves it, under no lock except where the code takes order_gate: a   *)
(* thread at a store step first Loads and then saves, and other threads    *)
(* may save in between.  A command is the chain of store steps and         *)
(* provider requests of its handler; pc[t] names the next one.             *)
(*                                                                         *)
(* One account, one instrument, prices of 1, no fees.  The gate the bots   *)
(* ask before they order is reduced to the part the account shares with    *)
(* the commands of the user, the unresolved safety alert.                  *)
(***************************************************************************)
EXTENDS PaperExecutionOps

CONSTANTS Threads,        \* the blocking threads that run commands
          Nobody,         \* the holder of a free gate
          Operations,     \* operation numbers callers use
          Request,        \* operation -> [order, caller, policy]
          Instrument,
          OpeningCash, OpeningShares,
          HostPolicy,     \* the account's own Risk Policy
          Budgets         \* bound: how often each command may be issued, one
                          \* of these budgets per behaviour

Commands == {"Submit", "Cancel", "Sync", "Freeze", "Acknowledge", "Recover",
             "Reconcile", "Crash"}

\* An order request asks for an Int quantity; a new account's own policy freezes
\* nothing (create_account).
ASSUME TradingAssumption ==
  /\ Nobody \notin Threads
  /\ Budgets \subseteq [Commands -> Nat]
  /\ \A n \in Operations :
       /\ DOMAIN Request[n].order =
            {"instrument", "side", "quantity", "filled", "price", "status"}
       /\ Request[n].order.quantity \in Int
  /\ OpeningCash \in Int
  /\ "frozen" \in DOMAIN HostPolicy /\ HostPolicy.frozen = FALSE

VARIABLES db,         \* the account row and the pending-reconciliation row
          restarted,  \* the account waits for a reconciliation since start-up
          alert,      \* the Host Freeze All alert
          gate,       \* who holds order_gate
          pc, copy, work,  \* per thread: next step, loaded row, command's locals
          provider,   \* the provider's orders, oldest first
          settled,    \* history: a reconciliation completed since start-up
          left        \* what is left of the budget

store == <<db, restarted, alert, gate, settled>>
vars == <<db, restarted, alert, gate, pc, copy, work, provider, settled, left>>

GatedSteps == {"begin", "reject", "absence"}
StoreSteps == GatedSteps \cup
  {"result", "uncertain", "cancelResult", "cancelLocal", "sync", "untracked",
   "freeze", "recover", "reconcile", "unresolved", "require", "record"}
OtherSteps == {"idle", "post", "cancel", "fetch", "trades", "unfreeze", "list",
               "balance", "claim", "vanished", "resolve", "complete"}

Blank == [op |-> 0, remote |-> {}, local |-> {}, seen |-> {}, reconciling |-> FALSE,
          listing |-> {}, snapshot |-> {}, todo |-> {}, guarded |-> {}]

-------------------------------------------------------------------------------
\* The provider, as its answers show it

RequestOf(p) == Request[provider[p].op].order

OpenOrders == {p \in DOMAIN provider : provider[p].status = "Open"}

FilledBy(side) ==
  MapThenSumSet(LAMBDA p : provider[p].filled,
                {p \in DOMAIN provider : RequestOf(p).side = side})

OpenBy(side) ==
  MapThenSumSet(LAMBDA p : RequestOf(p).quantity - provider[p].filled,
                {p \in OpenOrders : RequestOf(p).side = side})

ProviderCash == OpeningCash - FilledBy("Buy") + FilledBy("Sell")
ProviderShares == OpeningShares + FilledBy("Buy") - FilledBy("Sell")

Holding(quantity, frozen) ==
  IF quantity > 0
    THEN Put(<< >>, Instrument, [quantity |-> quantity, sellable |-> quantity - frozen])
    ELSE << >>

Snapshot == [cash |-> ProviderCash,
             positions |-> Holding(ProviderShares, OpenBy("Sell"))]

Affords(order) ==
  IF order.side = "Buy" THEN ProviderCash - OpenBy("Buy") >= order.quantity
                        ELSE ProviderShares - OpenBy("Sell") >= order.quantity

ProviderOrder(o) == [op |-> o, filled |-> 0, status |-> "Open"]

ProviderFill ==
  /\ \E p \in OpenOrders :
       LET filled == provider[p].filled + 1
       IN  provider' = [provider EXCEPT ![p].filled = filled,
                          ![p].status = IF filled = RequestOf(p).quantity
                                          THEN "Filled" ELSE "Open"]
  /\ UNCHANGED <<store, pc, copy, work, left>>

\* A market order may end as filled below its size, any order as canceled.
ProviderFinish ==
  /\ \E p \in OpenOrders, status \in {"Filled", "Canceled"} :
       /\ status = "Filled" => Request[provider[p].op].caller = "Bot" /\ provider[p].filled > 0
       /\ provider' = [provider EXCEPT ![p].status = status]
  /\ UNCHANGED <<store, pc, copy, work, left>>

-------------------------------------------------------------------------------
\* Store steps

Goto(t, step, locals) ==
  /\ pc' = [pc EXCEPT ![t] = step]
  /\ work' = [work EXCEPT ![t] = IF step = "idle" THEN Blank ELSE locals]

Load(t) ==
  /\ pc[t] \in StoreSteps /\ copy[t] = {}
  /\ IF pc[t] \in GatedSteps THEN gate = Nobody /\ gate' = t ELSE gate' = gate
  /\ copy' = [copy EXCEPT ![t] = {db}]
  /\ UNCHANGED <<db, restarted, alert, pc, work, provider, settled, left>>

\* The end of a store step: the row as saved, the copy dropped, the gate
\* released if this step took it.
Leave(t, step, locals) ==
  /\ copy' = [copy EXCEPT ![t] = {}]
  /\ gate' = IF pc[t] \in GatedSteps THEN Nobody ELSE gate
  /\ Goto(t, step, locals)
  /\ UNCHANGED <<restarted, alert, provider, settled, left>>

Save(t, ledger, exec, step, locals) ==
  /\ db' = [db EXCEPT !.ledger = ledger, !.exec = exec]
  /\ Leave(t, step, locals)

Return(t, step, locals) == db' = db /\ Leave(t, step, locals)

Start(t, command, step, locals) ==
  /\ pc[t] = "idle" /\ left[command] > 0
  /\ left' = [left EXCEPT ![command] = @ - 1]
  /\ Goto(t, step, locals)

-------------------------------------------------------------------------------
\* Submitting an order

\* Mutant: an order is accepted whatever alert is unresolved.
SubmitUnguarded(t) ==
  \E o \in Operations :
    /\ Start(t, "Submit", "begin", [Blank EXCEPT !.op = o])
    /\ UNCHANGED <<store, copy, provider>>

\* New risk is refused while a safety alert is unresolved.
SubmitOrder(t) ==
  \E o \in Operations :
    /\ alert = "None"
    /\ Start(t, "Submit", "begin", [Blank EXCEPT !.op = o])
    /\ UNCHANGED <<store, copy, provider>>

\* What begin_order_with_policy makes of the loaded ledger.
Loaded(mine) ==
  IF mine.marker THEN RequireReconciliation(mine.ledger) ELSE mine.ledger

BeginOrder(t) ==
  LET o == work[t].op
      order == Request[o].order
      policy(mine) == IF Request[o].caller = "Bot" THEN Request[o].policy
                                                   ELSE mine.exec.policy
  IN  /\ pc[t] = "begin"
      /\ \E mine \in copy[t] :
           IF CanBegin(mine.exec, Loaded(mine), Operation(o), policy(mine), order)
             THEN Save(t, Submit(mine.ledger, order),
                       Begin(mine.exec, mine.ledger, Operation(o)), "post", work[t])
             ELSE Return(t, "idle", Blank)

\* The request reaches the provider or not, and so does its answer.  A bot knows
\* a rejection from an unknown outcome, the user's command does not.
Post(t) ==
  LET o == work[t].op
      byBot == Request[o].caller = "Bot"
      created == Append(provider, ProviderOrder(o))
      delivered == Affords(Request[o].order) /\ provider' = created
  IN  /\ pc[t] = "post"
      /\ \/ /\ delivered
            /\ Goto(t, "result", [work[t] EXCEPT !.remote = {Len(created)}])
         \/ /\ delivered \* answered without an identity
            /\ Goto(t, IF byBot THEN "uncertain" ELSE "result", work[t])
         \/ /\ delivered \/ provider' = provider \* no answer
            /\ Goto(t, "uncertain", work[t])
         \/ /\ provider' = provider \* rejected
            /\ Goto(t, IF byBot THEN "reject" ELSE "uncertain", work[t])
      /\ UNCHANGED <<store, copy, left>>

RecordOrderResult(t) ==
  /\ pc[t] \in {"result", "cancelResult"}
  /\ \E mine \in copy[t] :
       LET o == Operation(work[t].op)
           next == IF pc[t] = "result" THEN "idle" ELSE "cancelLocal"
       IN  IF o \in DOMAIN mine.exec.ops
             THEN Save(t, mine.ledger,
                       RecordOutcome(mine.exec, o, work[t].remote, "Accepted"),
                       next, work[t])
             ELSE Return(t, "idle", Blank)

RetainUncertain(t) ==
  /\ pc[t] = "uncertain"
  /\ \E mine \in copy[t] :
       LET o == Operation(work[t].op)
       IN  IF o \in DOMAIN mine.exec.ops
             THEN Save(t, RequireReconciliation(mine.ledger),
                       MarkUncertain(mine.exec, o), "idle", Blank)
             ELSE Return(t, "idle", Blank)

CanReject(mine, o) ==
  /\ o \in DOMAIN mine.exec.ops
  /\ LET op == mine.exec.ops[o]
     IN  /\ op.outcome = "Accepted" /\ op.remote = {}
         /\ \E id \in op.local \cap DOMAIN mine.ledger.orders :
              /\ mine.ledger.orders[id].filled = 0
              /\ mine.ledger.orders[id].status = "Accepted"

RecordConfirmedRejection(t) ==
  /\ pc[t] = "reject"
  /\ \E mine \in copy[t] :
       LET o == Operation(work[t].op)
       IN  IF CanReject(mine, o)
             THEN \E id \in mine.exec.ops[o].local :
                    Save(t, Cancel(mine.ledger, id),
                         RecordOutcome(mine.exec, o, {}, "Rejected"), "idle", Blank)
             ELSE Return(t, "idle", Blank)

-------------------------------------------------------------------------------
\* Cancelling an order from the workspace, fetching one order

\* The command starts by reading the provider identity of the operation.
ForIdentified(t, command, step) ==
  /\ \E n \in Operations :
       LET o == Operation(n)
       IN  /\ o \in DOMAIN db.exec.ops /\ db.exec.ops[o].remote # {}
           /\ Start(t, command, step, [Blank EXCEPT !.op = n,
                                         !.remote = db.exec.ops[o].remote])
  /\ UNCHANGED <<store, copy, provider>>

CancelOrder(t) == ForIdentified(t, "Cancel", "cancel")

\* The provider refuses to cancel an order that is no longer open.
RequestCancel(t) ==
  /\ pc[t] = "cancel"
  /\ \E p \in work[t].remote :
       LET canceled == /\ p \in OpenOrders
                       /\ provider' = [provider EXCEPT ![p].status = "Canceled"]
       IN  \/ canceled /\ Goto(t, "cancelResult", work[t])
           \/ /\ canceled \/ provider' = provider
              /\ Goto(t, "uncertain", work[t])
  /\ UNCHANGED <<store, copy, left>>

CancelLocalOrder(t) ==
  /\ pc[t] = "cancelLocal"
  /\ \E mine \in copy[t] :
       LET o == Operation(work[t].op)
           local == IF o \in DOMAIN mine.exec.ops THEN mine.exec.ops[o].local ELSE {}
       IN  IF \E id \in local : CanCancel(mine.ledger, id)
             THEN \E id \in local : Save(t, Cancel(mine.ledger, id), mine.exec, "idle", Blank)
             ELSE Return(t, "idle", Blank)

SyncOrder(t) == ForIdentified(t, "Sync", "fetch")

\* What follows the order just handled.
Continue(locals) ==
  IF ~locals.reconciling THEN "idle"
  ELSE IF locals.todo = {} THEN "record" ELSE "resolve"

\* An order may come with its trades or without them.
FetchOrder(t) ==
  /\ pc[t] = "fetch"
  /\ \/ \E p \in work[t].remote, trades \in {0, 1} :
          LET answer == [filled |-> provider[p].filled, status |-> provider[p].status,
                         trades |-> trades * provider[p].filled]
          IN  Goto(t, IF work[t].reconciling THEN "trades" ELSE "sync",
                   [work[t] EXCEPT !.seen = {answer}])
     \/ Goto(t, IF work[t].reconciling THEN "unresolved" ELSE "idle", work[t])
  /\ UNCHANGED <<store, copy, provider, left>>

\* Reconciliation asks for the fills apart, later than for the order; until they
\* are there it takes the trades that came with the order.
FetchTrades(t) ==
  /\ pc[t] = "trades"
  /\ \E p \in work[t].remote, answer \in work[t].seen :
       \E trades \in {answer.trades, provider[p].filled} :
         Goto(t, "sync", [work[t] EXCEPT !.seen = {[answer EXCEPT !.trades = trades]}])
  /\ UNCHANGED <<store, copy, provider, left>>

-------------------------------------------------------------------------------
\* sync_provider_order_with_trades

\* Mutant: a fill is identified by its order instead of its trade.
TradeOfOrder(o, p, k, id) ==
  [order |-> id, quantity |-> 1, price |-> 1, fee |-> 0, baseFee |-> 0,
   trade |-> <<o, p, 1>>]

\* The k-th trade of provider order p, as a fill of the local order.
Trade(o, p, k, id) ==
  [order |-> id, quantity |-> 1, price |-> 1, fee |-> 0, baseFee |-> 0,
   trade |-> <<o, p, k>>]

NewTrades(l, o, p, n) ==
  {k \in 1 .. n : \A i \in DOMAIN l.fills : l.fills[i].trade # <<o, p, k>>}

RecordTrades(l, o, p, id, trades) ==
  FoldSet(LAMBDA k, known : ApplyFill(known, Trade(o, p, k, id)), l, trades)

\* A terminal provider status ends the local order.
Terminate(l, id, status) ==
  CASE status = "Filled" -> Upsert(l, id, [l.orders[id] EXCEPT !.status = "Filled"])
    [] status = "Canceled" /\ IsOpen(l.orders[id]) -> Cancel(l, id)
    [] OTHER -> l

\* What the provider answered, merged into the local order.
MergeOrder(t, mine, id, p, remote) ==
  LET o == Operation(work[t].op)
      failed == IF work[t].reconciling THEN "require" ELSE "idle"
      order == mine.ledger.orders[id]
      delta == remote.filled - order.filled
      trades == NewTrades(mine.ledger, o, p, remote.trades)
      filled == RecordTrades(mine.ledger, o, p, id, trades)
      contradicted ==
        \/ mine.exec.ops[o].remote # {p}
        \/ delta >= 0 /\ Cardinality(trades) > delta
        \/ delta >= 0 /\ trades # {} /\ ~IsOpen(order)
  IN  \/ contradicted /\ Return(t, "untracked", work[t])
      \/ /\ ~contradicted /\ delta < 0
         /\ Save(t, RequireReconciliation(mine.ledger), Block(mine.exec), failed, work[t])
      \/ /\ ~contradicted /\ delta >= 0 /\ Cardinality(trades) < delta
         /\ Save(t, RequireReconciliation(filled), Block(mine.exec), failed, work[t])
      \/ /\ ~contradicted /\ Cardinality(trades) = delta
         /\ Save(t, Terminate(filled, id, remote.status),
                 IF remote.status = "Open" THEN mine.exec
                                           ELSE ResolveUncertainty(mine.exec, p),
                 Continue(work[t]), work[t])

SyncProviderOrder(t) ==
  /\ pc[t] = "sync"
  /\ \E mine \in copy[t], p \in work[t].remote, remote \in work[t].seen :
       LET o == Operation(work[t].op)
           known == /\ o \in DOMAIN mine.exec.ops
                    /\ mine.exec.ops[o].local # {}
                    /\ mine.exec.ops[o].local \subseteq DOMAIN mine.ledger.orders
       IN  IF known
             THEN \E id \in mine.exec.ops[o].local : MergeOrder(t, mine, id, p, remote)
             ELSE Return(t, IF work[t].reconciling THEN "require" ELSE "idle", work[t])

\* provider_sync_failure and mark_provider_order_uncertain.
LoseOrder(t) ==
  /\ pc[t] \in {"untracked", "unresolved"}
  /\ \E mine \in copy[t], p \in work[t].remote :
       LET guarding == [work[t] EXCEPT !.guarded = @ \cup work[t].local]
           next == IF pc[t] = "unresolved" THEN Continue(work[t])
                   ELSE IF work[t].reconciling THEN "require" ELSE "idle"
       IN  Save(t, RequireReconciliation(mine.ledger), LoseTrack(mine.exec, p),
                next, guarding)

-------------------------------------------------------------------------------
\* Freezing and recovering the Host

\* The alert is raised first, the account is frozen after.
FreezeAll(t) ==
  /\ Start(t, "Freeze", "freeze", Blank)
  /\ alert' = IF alert = "None" THEN "Active" ELSE alert
  /\ UNCHANGED <<db, restarted, gate, settled, copy, provider>>

FreezeAccount(t) ==
  /\ pc[t] = "freeze"
  /\ \E mine \in copy[t] : Save(t, RequireReconciliation(mine.ledger), Freeze(mine.exec),
                                "idle", Blank)

Acknowledge(t) ==
  /\ alert = "Active" /\ alert' = "Acknowledged"
  /\ Start(t, "Acknowledge", "idle", Blank)
  /\ UNCHANGED <<db, restarted, gate, settled, copy, provider>>

RecoverHost(t) ==
  /\ db.ledger.reconciliation = "Reconciled" /\ ~db.marker /\ ~restarted
  /\ Start(t, "Recover", "recover", Blank)
  /\ UNCHANGED <<store, copy, provider>>

CanRecover(mine) ==
  mine.ledger.reconciliation = "Reconciled" /\ ~HasUncertainty(mine.exec)

RecoverAccount(t) ==
  /\ pc[t] = "recover"
  /\ \E mine \in copy[t] :
       IF CanRecover(mine) THEN Save(t, mine.ledger, Unfreeze(mine.exec), "unfreeze", Blank)
                           ELSE Return(t, "idle", Blank)

\* The alert is recovered after the account, and only once acknowledged.
RecoverAlert(t) ==
  /\ pc[t] = "unfreeze"
  /\ alert' = IF alert = "Acknowledged" THEN "None" ELSE alert
  /\ Goto(t, "idle", Blank)
  /\ UNCHANGED <<db, restarted, gate, settled, copy, provider, left>>

-------------------------------------------------------------------------------
\* Reconciling the account

ReconcileAccount(t) ==
  /\ Start(t, "Reconcile", "list", [Blank EXCEPT !.reconciling = TRUE])
  /\ UNCHANGED <<store, copy, provider>>

ListOpenOrders(t) ==
  /\ pc[t] = "list"
  /\ \/ Goto(t, "balance", [work[t] EXCEPT
               !.listing = {[id |-> p, filled |-> provider[p].filled] : p \in OpenOrders}])
     \/ Goto(t, "idle", Blank)
  /\ UNCHANGED <<store, copy, provider, left>>

FetchBalance(t) ==
  /\ pc[t] = "balance"
  /\ \/ Goto(t, "claim", [work[t] EXCEPT !.snapshot = {Snapshot}])
     \/ Goto(t, "idle", Blank)
  /\ UNCHANGED <<store, copy, provider, left>>

\* A busy account is not waited for.  The marker is written before anything else.
ClaimGate(t) ==
  /\ pc[t] = "claim"
  /\ IF gate = Nobody
       THEN /\ gate' = t /\ db' = [db EXCEPT !.marker = TRUE]
            /\ Goto(t, "reconcile", work[t])
       ELSE UNCHANGED <<gate, db>> /\ Goto(t, "idle", Blank)
  /\ UNCHANGED <<restarted, alert, copy, provider, settled, left>>

RecordSnapshot(t) ==
  /\ pc[t] = "reconcile"
  /\ \E mine \in copy[t], snapshot \in work[t].snapshot :
       Save(t, Reconcile(mine.ledger, snapshot),
            Settle(mine.exec, Matches(mine.ledger, snapshot)), "vanished", work[t])

\* Operations whose provider order is known here, not in the listing, and not
\* known to have ended.
Vanished(l, x, listing) ==
  {o \in DOMAIN x.ops :
     \E id \in x.ops[o].local \cap DOMAIN l.orders, p \in x.ops[o].remote :
       /\ p \notin {entry.id : entry \in listing}
       /\ \/ IsOpen(l.orders[id])
          \/ l.orders[id].status = "Cancelled" /\ l.orders[id].filled > 0
          \/ \E u \in DOMAIN x.ops : x.ops[u].outcome = "Uncertain" /\ x.ops[u].remote = {p}}

FindVanished(t) ==
  LET x == db.exec
      todo == {[op |-> o[2], local |-> x.ops[o].local, remote |-> x.ops[o].remote] :
                 o \in Vanished(db.ledger, x, work[t].listing)}
      locals == [work[t] EXCEPT !.todo = todo]
  IN  /\ pc[t] = "vanished"
      /\ Goto(t, Continue(locals), locals)
      /\ UNCHANGED <<store, copy, provider, left>>

\* One at a time, in the order of the local orders.
ResolveNext(t) ==
  /\ pc[t] = "resolve"
  /\ \E item \in work[t].todo :
       /\ \A other \in work[t].todo : item.op <= other.op
       /\ Goto(t, "fetch", [work[t] EXCEPT !.todo = @ \ {item}, !.op = item.op,
                              !.local = item.local, !.remote = item.remote, !.seen = {}])
  /\ UNCHANGED <<store, copy, provider, left>>

\* The account is blocked and the order kept out of the sweep.
RequireAccountReconciliation(t) ==
  /\ pc[t] = "require"
  /\ \E mine \in copy[t] :
       Save(t, RequireReconciliation(mine.ledger), Settle(mine.exec, FALSE),
            Continue(work[t]), [work[t] EXCEPT !.guarded = @ \cup work[t].local])

MappedTo(x, p) == UNION {x.ops[o].local : o \in {q \in DOMAIN x.ops : x.ops[q].remote = {p}}}

\* An open order no operation is bound to becomes a local order of its own.
Import(l, entry) ==
  LET order == RequestOf(entry.id)
  IN  Upsert(l, ImportedId(entry.id),
             [order EXCEPT !.filled = entry.filled,
                           !.status = IF entry.filled > 0 THEN "PartiallyFilled"
                                                          ELSE "Accepted"])

\* Mutant: orders that no operation is bound to are left to the provider.
ImportNothing(l, x, entries) == l

ImportUnmapped(l, x, entries) ==
  FoldSet(LAMBDA entry, known : Import(known, entry), l,
          {entry \in entries : MappedTo(x, entry.id) = {}})

\* Mutant: only provider-order-P identities are kept from the sweep.
ActiveByProviderIdentity(x, listing, guarded) ==
  guarded \cup {ImportedId(entry.id) : entry \in listing}

Active(x, listing, guarded) ==
  guarded \cup {ImportedId(entry.id) : entry \in listing}
          \cup UNION {MappedTo(x, entry.id) : entry \in listing}

\* A malformed entry ends the reconciliation, with the entries before it imported.
RecordOpenOrders(t) ==
  /\ pc[t] = "record"
  /\ \E mine \in copy[t] :
       LET listing == work[t].listing
           all == ImportUnmapped(mine.ledger, mine.exec, listing)
       IN  \/ Save(t, CancelMissing(all, Active(mine.exec, listing, work[t].guarded)),
                   mine.exec, "complete", work[t])
           \/ \E before \in SUBSET listing :
                /\ before # listing
                /\ db' = [db EXCEPT !.exec = Block(mine.exec),
                            !.ledger = RequireReconciliation(
                                         ImportUnmapped(mine.ledger, mine.exec, before))]
                /\ copy' = [copy EXCEPT ![t] = {}] /\ gate' = Nobody
                /\ Goto(t, "idle", Blank)
                /\ UNCHANGED <<restarted, alert, provider, settled, left>>

\* The marker goes only if the connection is still the one reconciled.
CompleteReconciliation(t) ==
  /\ pc[t] = "complete"
  /\ gate' = Nobody
  /\ \/ /\ db' = [db EXCEPT !.marker = FALSE]
        /\ restarted' = FALSE /\ settled' = TRUE
        /\ Goto(t, "absence", Blank)
     \/ /\ UNCHANGED <<db, restarted, settled>>
        /\ Goto(t, "idle", Blank)
  /\ UNCHANGED <<alert, copy, provider, left>>

\* Unknown submissions whose local order was cancelled without a fill.
Unproven(mine) ==
  {o \in DOMAIN mine.exec.ops :
     /\ CanResolveAbsence(mine.exec, o)
     /\ \E id \in mine.exec.ops[o].local \cap DOMAIN mine.ledger.orders :
          /\ mine.ledger.orders[id].status = "Cancelled" /\ mine.ledger.orders[id].filled = 0
          /\ \A i \in DOMAIN mine.ledger.fills : mine.ledger.fills[i].order # id}

\* The provider proves that none of them reached it: nothing is pending and
\* nothing was created since.
ProvesAbsence(ops) ==
  /\ OpenOrders = {}
  /\ \A p \in DOMAIN provider : Operation(provider[p].op) \notin ops

RecoverAbsence(t) ==
  /\ pc[t] = "absence"
  /\ \E mine \in copy[t] :
       LET ops == Unproven(mine)
       IN  \/ /\ ops # {} /\ ProvesAbsence(ops)
              /\ ~mine.marker /\ mine.ledger.reconciliation = "Reconciled"
              /\ \A id \in DOMAIN mine.ledger.orders : ~IsOpen(mine.ledger.orders[id])
              /\ Save(t, mine.ledger, Settle(ResolveAbsence(mine.exec, ops), TRUE),
                      "idle", Blank)
           \/ Return(t, "idle", Blank)

-------------------------------------------------------------------------------

\* Mutant: an account that was reconciled before the start is taken as reconciled.
RestartReconciled ==
  /\ left["Crash"] > 0
  /\ left' = [left EXCEPT !["Crash"] = @ - 1]
  /\ db' = db
  /\ restarted' = TRUE /\ settled' = FALSE /\ gate' = Nobody
  /\ pc' = [t \in Threads |-> "idle"]
  /\ copy' = [t \in Threads |-> {}]
  /\ work' = [t \in Threads |-> Blank]
  /\ UNCHANGED <<alert, provider>>

\* The process ends at any point and the store opens again.
Restart ==
  /\ left["Crash"] > 0
  /\ left' = [left EXCEPT !["Crash"] = @ - 1]
  /\ db' = [db EXCEPT !.ledger = RequireReconciliation(@), !.exec = Block(@)]
  /\ restarted' = TRUE /\ settled' = FALSE /\ gate' = Nobody
  /\ pc' = [t \in Threads |-> "idle"]
  /\ copy' = [t \in Threads |-> {}]
  /\ work' = [t \in Threads |-> Blank]
  /\ UNCHANGED <<alert, provider>>

Init ==
  /\ db = [ledger |-> NewLedger("Provider", OpeningCash, Holding(OpeningShares, 0)),
           exec |-> NewExecution(HostPolicy), marker |-> FALSE]
  /\ restarted = FALSE /\ alert = "None" /\ gate = Nobody /\ settled = TRUE
  /\ pc = [t \in Threads |-> "idle"]
  /\ copy = [t \in Threads |-> {}]
  /\ work = [t \in Threads |-> Blank]
  /\ provider = << >>
  /\ left \in Budgets

Step(t) ==
  \/ Load(t)
  \/ SubmitOrder(t) \/ BeginOrder(t) \/ Post(t) \/ RecordOrderResult(t)
  \/ RetainUncertain(t) \/ RecordConfirmedRejection(t)
  \/ CancelOrder(t) \/ RequestCancel(t) \/ CancelLocalOrder(t)
  \/ SyncOrder(t) \/ FetchOrder(t) \/ FetchTrades(t) \/ SyncProviderOrder(t) \/ LoseOrder(t)
  \/ FreezeAll(t) \/ FreezeAccount(t) \/ Acknowledge(t)
  \/ RecoverHost(t) \/ RecoverAccount(t) \/ RecoverAlert(t)
  \/ ReconcileAccount(t) \/ ListOpenOrders(t) \/ FetchBalance(t) \/ ClaimGate(t)
  \/ RecordSnapshot(t) \/ FindVanished(t) \/ ResolveNext(t)
  \/ RequireAccountReconciliation(t) \/ RecordOpenOrders(t)
  \/ CompleteReconciliation(t) \/ RecoverAbsence(t)

Next == \/ \E t \in Threads : Step(t)
        \/ ProviderFill \/ ProviderFinish \/ Restart

Spec == Init /\ [][Next]_vars

-------------------------------------------------------------------------------

Shape(row) == /\ row.ledger.cash \in Int
              /\ row.ledger.reconciliation \in ReconciliationStates
              /\ \A id \in DOMAIN row.ledger.orders :
                   row.ledger.orders[id].status \in Statuses
              /\ row.exec.blocked \in BOOLEAN /\ row.exec.policy.frozen \in BOOLEAN
              /\ \A o \in DOMAIN row.exec.ops : row.exec.ops[o].outcome \in Outcomes
              /\ row.marker \in BOOLEAN

\* Shape of the state; a thread holds a copy of the row only at a store step.
TypeOK ==
  /\ Shape(db)
  /\ alert \in {"None", "Active", "Acknowledged"}
  /\ gate \in Threads \cup {Nobody}
  /\ restarted \in BOOLEAN /\ settled \in BOOLEAN
  /\ pc \in [Threads -> StoreSteps \cup OtherSteps]
  /\ \A t \in Threads : /\ Cardinality(copy[t]) <= 1
                        /\ copy[t] # {} => pc[t] \in StoreSteps
                        /\ \A mine \in copy[t] : Shape(mine)
  /\ \A p \in DOMAIN provider :
       provider[p].filled \in 0 .. RequestOf(p).quantity
  /\ left \in [Commands -> Nat]

\* While the outcome of any submission is unknown the account takes no new risk,
\* although reconciliation, recovery, absence evidence and a restart all write
\* the flag and may do so from a stale copy.
UncertaintyBlocksRisk == HasUncertainty(db.exec) => db.exec.blocked

\* Every retained fill is one trade of the provider order its operation created,
\* retained once, whatever was synced twice, late or out of order.
FillsAreProviderTrades ==
  LET fills == db.ledger.fills
  IN  /\ \A i \in DOMAIN fills :
           \E p \in DOMAIN provider : \E k \in 1 .. provider[p].filled :
             fills[i].trade = <<Operation(provider[p].op), p, k>>
      /\ \A i, j \in DOMAIN fills : fills[i].trade = fills[j].trade => i = j

\* An order is sent only after a reconciliation completed since start-up and
\* while none is under way, also when the process ended in the middle of one, or
\* between the journal entry of an order and its answer.
Sends(t) == pc[t] = "begin" /\ pc'[t] = "post"
SendsOnlyWhenSettled ==
  [][\A t \in Threads : Sends(t) => settled /\ ~db.marker]_vars

\* From the freeze of the Host to its recovery no order is sent.  Bots bring a
\* policy of their own, which is never frozen, and reconciliation opens the
\* account's gate again, so only the unresolved alert stands in between.
FreezeBlocksNewRisk ==
  [][\A t \in Threads : Sends(t) => alert = "None" /\ ~db.exec.policy.frozen]_vars

\* "Freeze All pauses every Bot, blocks new risk" (bot-runtime.md): once the freeze of
\* the account is saved, no order is sent before its recovery, not even one whose
\* command loaded the account earlier.
FrozenAccountSendsNothing ==
  [][\A t \in Threads : Sends(t) => ~db.exec.policy.frozen]_vars

\* No operation reaches the provider twice, through crashes, lost answers and
\* callers that repeat it.
SubmittedOnce ==
  \A p, q \in DOMAIN provider : provider[p].op = provider[q].op => p = q

\* The local orders that stand for provider order p.
StandFor(p) == MappedTo(db.exec, p) \cup {ImportedId(p)}

\* A local order of known provider identity is Cancelled or Filled only when the
\* provider's order has ended.
TerminalOnlyWithEvidence ==
  \A p \in OpenOrders : \A id \in StandFor(p) \cap DOMAIN db.ledger.orders :
    IsOpen(db.ledger.orders[id])

Quiet == \A t \in Threads : pc[t] = "idle"

CanTakeRisk == /\ Quiet /\ ~db.exec.blocked /\ ~db.marker
               /\ db.ledger.reconciliation = "Reconciled"

\* ADR 0099: before a provider order is Cancelled or Filled here its "exact per-trade
\* Fill evidence" is fetched and recorded.  A local order that ended has a fill for
\* every trade of the provider's, which can have no more of them once it ended.
FillsPrecedeTerminal ==
  \A p \in DOMAIN provider \ OpenOrders :
    \A id \in MappedTo(db.exec, p) \cap DOMAIN db.ledger.orders :
      ~IsOpen(db.ledger.orders[id]) =>
        \A k \in 1 .. provider[p].filled :
          \E i \in DOMAIN db.ledger.fills :
            db.ledger.fills[i].trade = <<Operation(provider[p].op), p, k>>

\* Whenever the account may take new risk, every order still open at the provider
\* is an open order here, so its exposure is counted.
OpenExposureIsTracked ==
  CanTakeRisk =>
    \A p \in OpenOrders :
      \E id \in DOMAIN db.ledger.orders :
        /\ IsOpen(db.ledger.orders[id])
        /\ id \in StandFor(p) \cup UNION {db.exec.ops[o].local :
                    o \in {Operation(provider[p].op)} \cap DOMAIN db.exec.ops}

\* Orders have "append-only domain journals" (ADR 0082) and "no order is silently
\* forgotten" (docs/bot-runtime.md): whatever was sent to the provider is in the
\* journal of operations.
OrdersAreJournaled ==
  \A p \in DOMAIN provider : Operation(provider[p].op) \in DOMAIN db.exec.ops

\* The account's row is well formed and explains what the provider was sent.
JournalSound == TypeOK /\ OrdersAreJournaled

===============================================================================
