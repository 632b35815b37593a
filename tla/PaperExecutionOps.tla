--------------------------- MODULE PaperExecutionOps ---------------------------
(***************************************************************************)
(* PaperExecution (crate adaq-paper-trading-core): the Host's gate for new *)
(* orders, as operations on its VALUE, beside those of PaperLedgerOps.     *)
(* The gate keeps the account's Risk Policy, a "blocked" flag, and the     *)
(* outcome of every operation that ever began.                             *)
(*                                                                         *)
(* An optional identity is a set with at most one member.  Evidence nobody *)
(* reads back (the reconcile-N and reconcile-order-N entries, statuses,    *)
(* times) is left out, and so is the recovery of bindings written by       *)
(* versions that did not retain the local order.                           *)
(***************************************************************************)
EXTENDS PaperLedgerOps

Outcomes == {"Accepted", "Rejected", "Uncertain"}

\* Identities of operations: a request's own, or the one under which the Host
\* retains that it lost track of a provider order.
Operation(n) == <<"operation", n>>
LostTrack(p) == <<"provider-uncertain", p>>

Outcome(outcome, local, remote) ==
  [outcome |-> outcome, local |-> local, remote |-> remote]

NewExecution(policy) == [policy |-> policy, blocked |-> FALSE, ops |-> << >>]

HasUncertainty(x) == \E o \in DOMAIN x.ops : x.ops[o].outcome = "Uncertain"

-------------------------------------------------------------------------------
\* A new order

Approved(x, l, policy, order) ==
  LET notional == order.quantity * order.price
  IN  /\ ~x.blocked /\ ~policy.frozen
      /\ notional > 0 /\ notional <= policy.max
      /\ order.side = "Buy" => BuyingPower(l) - policy.reserve >= notional

\* Mutant: an operation that began already begins again.
CanBeginAgain(x, l, o, policy, order) ==
  /\ policy.max > 0 /\ policy.reserve >= 0
  /\ Approved(x, l, policy, order)
  /\ CanSubmit(l, order)

CanBegin(x, l, o, policy, order) ==
  /\ o \notin DOMAIN x.ops
  /\ ~x.blocked
  /\ policy.max > 0 /\ policy.reserve >= 0
  /\ Approved(x, l, policy, order)
  /\ CanSubmit(l, order)

\* Mutant: the operation is journaled only when the provider has answered.
BeginUnrecorded(x, l, o) == x

\* The execution after the ledger submitted the order under its next identity.
Begin(x, l, o) ==
  [x EXCEPT !.ops = Put(@, o, Outcome("Accepted", {LocalId(l.nextId)}, {}))]

-------------------------------------------------------------------------------
\* What the provider answered

MarkUncertain(x, o) ==
  [x EXCEPT !.ops[o].outcome = "Uncertain", !.blocked = TRUE]

RecordOutcome(x, o, remote, outcome) ==
  [x EXCEPT !.ops[o].remote = remote, !.ops[o].outcome = outcome]

LoseTrack(x, p) ==
  MarkUncertain([x EXCEPT !.ops = Put(@, LostTrack(p), Outcome("Accepted", {}, {p}))],
                LostTrack(p))

ResolveUncertainty(x, p) ==
  [x EXCEPT !.ops = [o \in DOMAIN @ |->
                       IF @[o].outcome = "Uncertain" /\ @[o].remote = {p}
                         THEN [@[o] EXCEPT !.outcome = "Accepted"] ELSE @[o]]]

-------------------------------------------------------------------------------
\* Reconciliation, recovery and freezing

\* Mutant: a matching snapshot opens the gate over an unknown outcome.
SettleOnMatch(x, matches) == [x EXCEPT !.blocked = ~matches]

Settle(x, matches) == [x EXCEPT !.blocked = ~matches \/ HasUncertainty(x)]

Block(x) == [x EXCEPT !.blocked = TRUE]

Freeze(x) == [x EXCEPT !.policy.frozen = TRUE, !.blocked = TRUE]

Unfreeze(x) == [x EXCEPT !.policy.frozen = FALSE, !.blocked = FALSE]

\* An unknown outcome becomes known when the provider proves that the order
\* never reached it.
CanResolveAbsence(x, o) ==
  /\ o \in DOMAIN x.ops
  /\ x.ops[o].outcome = "Uncertain" /\ x.ops[o].remote = {} /\ x.ops[o].local # {}

ResolveAbsence(x, known) ==
  [x EXCEPT !.ops = [o \in DOMAIN @ |-> IF o \in known
                                          THEN [@[o] EXCEPT !.outcome = "Accepted"]
                                          ELSE @[o]]]

=============================================================================
