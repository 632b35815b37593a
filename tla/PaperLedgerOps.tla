---------------------------- MODULE PaperLedgerOps ----------------------------
(***************************************************************************)
(* The operations of PaperLedger (crate adaq-paper-trading-core) on a      *)
(* ledger VALUE.  The Host keeps a ledger as JSON, loads a copy, applies   *)
(* one operation to the copy and saves it, so an operation is a function   *)
(* from a ledger to a ledger here, with its early returns in a Can...      *)
(* predicate: when that is false the code returns an error and the copy is *)
(* left alone.                                                             *)
(*                                                                         *)
(* Decimal amounts are integers, account and user identities are left out  *)
(* (one account), and a fill carries its fee in quote units and its fee in *)
(* base units, which is all the ledger reads of the fee fields.            *)
(***************************************************************************)
EXTENDS Integers, Sequences, FiniteSets, FiniteSetsExt

Markets == {"AShare", "Provider"}
Sides == {"Buy", "Sell"}
OpenStatuses == {"Accepted", "PartiallyFilled"}
Statuses == OpenStatuses \cup {"Filled", "Cancelled", "Rejected"}
ReconciliationStates == {"Reconciled", "Required"}

\* Order identities: order-N for an order submitted here, provider-order-P for
\* one imported from the provider's open orders.
LocalId(n) == <<"order", n>>
ImportedId(p) == <<"provider-order", p>>

\* The map with key k bound to v, whether or not k was bound before.
Put(map, k, v) == [x \in DOMAIN map \cup {k} |-> IF x = k THEN v ELSE map[x]]

-------------------------------------------------------------------------------

NewLedger(market, cash, positions) ==
  [market |-> market, cash |-> cash, positions |-> positions, reserved |-> 0,
   orders |-> << >>, fills |-> << >>, nextId |-> 1,
   reconciliation |-> "Reconciled"]

Locally(l) == l.market = "AShare"
IsOpen(order) == order.status \in OpenStatuses
BuyingPower(l) == l.cash - l.reserved

Position(l, instrument) ==
  IF instrument \in DOMAIN l.positions
    THEN l.positions[instrument]
    ELSE [quantity |-> 0, sellable |-> 0]

OrderReserved(order) ==
  IF order.side = "Buy" /\ IsOpen(order)
    THEN (order.quantity - order.filled) * order.price
    ELSE 0

\* What the orders named by ids still reserve.
Reserving(orders, ids) == SumFunction([id \in ids |-> OrderReserved(orders[id])])

RequireReconciliation(l) == [l EXCEPT !.reconciliation = "Required"]

-------------------------------------------------------------------------------
\* Submission

CanSubmit(l, order) ==
  /\ l.reconciliation = "Reconciled"
  /\ order.quantity > 0 /\ order.price > 0
  /\ order.side = "Sell" =>
       Position(l, order.instrument).sellable >= order.quantity
  /\ order.side = "Buy" => BuyingPower(l) >= order.quantity * order.price

\* Mutant: a buy never reserves its cash: the next order spends it again.
SubmitWithoutReserving(l, order) ==
  [l EXCEPT !.orders = Put(@, LocalId(l.nextId),
                           [order EXCEPT !.filled = 0, !.status = "Accepted"]),
            !.nextId = @ + 1]

Submit(l, order) ==
  [l EXCEPT !.reserved = IF order.side = "Buy"
                           THEN @ + order.quantity * order.price ELSE @,
            !.orders = Put(@, LocalId(l.nextId),
                           [order EXCEPT !.filled = 0, !.status = "Accepted"]),
            !.nextId = @ + 1]

-------------------------------------------------------------------------------
\* Fills

\* Mutant: a fill at any price is taken.
AnyPrice(order, fill) == TRUE

WithinLimit(order, fill) ==
  IF order.side = "Buy" THEN fill.price <= order.price
                        ELSE fill.price >= order.price

\* Mutant: an order takes fills beyond its size.
FitsAnyway(order, fill) == TRUE

Fits(order, fill) == order.filled + fill.quantity <= order.quantity

\* Mutant: the simulator checks the price of a buy but not its fee.
FundedWithoutFee(l, order, fill) ==
  /\ fill.baseFee < fill.quantity
  /\ Locally(l) => l.cash >= fill.quantity * fill.price

Funded(l, order, fill) ==
  /\ fill.baseFee < fill.quantity
  /\ Locally(l) => /\ l.cash >= fill.quantity * fill.price + fill.fee
                   /\ l.reserved >= OrderReserved(order)

Deliverable(l, order, fill) ==
  Locally(l) =>
    /\ order.instrument \in DOMAIN l.positions
    /\ l.positions[order.instrument].sellable >= fill.quantity + fill.baseFee
    /\ l.cash + fill.quantity * fill.price - fill.fee >= 0

\* "limited" is apply_fill, its negation apply_provider_market_fill.
CanApplyFill(l, fill, limited) ==
  /\ fill.quantity > 0 /\ fill.price > 0 /\ fill.fee >= 0
  /\ fill.order \in DOMAIN l.orders
  /\ LET order == l.orders[fill.order]
     IN  /\ IsOpen(order) /\ Fits(order, fill)
         /\ limited => WithinLimit(order, fill)
         /\ IF order.side = "Buy" THEN Funded(l, order, fill)
                                  ELSE Deliverable(l, order, fill)

\* Mutant: the fee is retained with the fill but never charged.
FeeNotCharged(l, side, fill) ==
  IF ~Locally(l) THEN l.cash
  ELSE IF side = "Buy" THEN l.cash - fill.quantity * fill.price
                       ELSE l.cash + fill.quantity * fill.price

\* Only the A-share simulator owns its account: for a provider market cash and
\* positions arrive through reconciliation.
FilledCash(l, side, fill) ==
  IF ~Locally(l) THEN l.cash
  ELSE IF side = "Buy" THEN l.cash - (fill.quantity * fill.price + fill.fee)
                       ELSE l.cash + (fill.quantity * fill.price - fill.fee)

\* Mutant: T+1 is forgotten and bought shares can be sold the same day.
SameDaySettlement(l, order, fill) ==
  LET held == Position(l, order.instrument)
      bought == fill.quantity - fill.baseFee
      sold == fill.quantity + fill.baseFee
      moved == IF order.side = "Buy" THEN bought ELSE 0 - sold
  IN  IF ~Locally(l) THEN l.positions
      ELSE Put(l.positions, order.instrument,
               [quantity |-> held.quantity + moved, sellable |-> held.sellable + moved])

\* A-share T+1: a purchase is not sellable until reconciliation says so.
FilledPositions(l, order, fill) ==
  LET held == Position(l, order.instrument)
      sold == fill.quantity + fill.baseFee
  IN  IF ~Locally(l) THEN l.positions
      ELSE Put(l.positions, order.instrument,
               IF order.side = "Buy"
                 THEN [held EXCEPT !.quantity = @ + fill.quantity - fill.baseFee]
                 ELSE [quantity |-> held.quantity - sold, sellable |-> held.sellable - sold])

\* Release the whole remaining reservation, then reserve what is still open.
FilledReserved(l, order, fill) ==
  IF order.side = "Sell" THEN l.reserved
  ELSE LET released == IF OrderReserved(order) <= l.reserved
                         THEN OrderReserved(order) ELSE l.reserved
       IN  l.reserved - released
             + (order.quantity - order.filled - fill.quantity) * order.price

FilledOrder(order, fill) ==
  [order EXCEPT !.filled = @ + fill.quantity,
                !.status = IF order.filled + fill.quantity = order.quantity
                             THEN "Filled" ELSE "PartiallyFilled"]

ApplyFill(l, fill) ==
  LET order == l.orders[fill.order]
  IN  [l EXCEPT !.cash = FilledCash(l, order.side, fill),
                !.positions = FilledPositions(l, order, fill),
                !.reserved = FilledReserved(l, order, fill),
                !.orders[fill.order] = FilledOrder(order, fill),
                !.fills = Append(@, fill)]

-------------------------------------------------------------------------------
\* Cancellation and reinstatement

CanCancel(l, id) == id \in DOMAIN l.orders /\ IsOpen(l.orders[id])

Cancel(l, id) ==
  [l EXCEPT !.reserved = @ - OrderReserved(l.orders[id]),
            !.orders[id].status = "Cancelled"]

\* Mutant: an order is reinstated whatever it already recorded.
ReinstateAnyCancelled(l, id) ==
  id \in DOMAIN l.orders /\ l.orders[id].status = "Cancelled"

CanReinstate(l, id) ==
  /\ ~Locally(l)
  /\ \A i \in DOMAIN l.fills : l.fills[i].order # id
  /\ id \in DOMAIN l.orders
  /\ l.orders[id].status = "Cancelled" /\ l.orders[id].filled = 0

Reinstate(l, id) ==
  LET order == l.orders[id]
  IN  [l EXCEPT !.reserved = IF order.side = "Buy"
                               THEN @ + order.quantity * order.price ELSE @,
                !.orders[id].status = "Accepted"]

-------------------------------------------------------------------------------
\* Provider evidence

CanUpsert(order) ==
  /\ order.quantity > 0 /\ order.price > 0
  /\ order.filled \in 0 .. order.quantity

Upsert(l, id, order) ==
  LET previous == IF id \in DOMAIN l.orders THEN OrderReserved(l.orders[id]) ELSE 0
  IN  [l EXCEPT !.reserved = @ - previous + OrderReserved(order),
                !.orders = Put(@, id, order)]

\* Every open order that is not named active is cancelled.
CancelMissing(l, active) ==
  LET stale == {id \in DOMAIN l.orders \ active : IsOpen(l.orders[id])}
  IN  [l EXCEPT !.reserved = @ - Reserving(l.orders, stale),
                !.orders = [id \in DOMAIN @ |->
                              IF id \in stale
                                THEN [@[id] EXCEPT !.status = "Cancelled"]
                                ELSE @[id]]]

Matches(l, snapshot) ==
  snapshot.cash = l.cash /\ snapshot.positions = l.positions

\* The snapshot replaces the account whether or not it matched.
Reconcile(l, snapshot) ==
  [l EXCEPT !.cash = snapshot.cash,
            !.positions = snapshot.positions,
            !.reconciliation = IF Matches(l, snapshot)
                                 THEN "Reconciled" ELSE "Required"]

=============================================================================
