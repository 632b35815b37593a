------------------------------ MODULE PaperLedger ------------------------------
(***************************************************************************)
(* One paper account ledger and everything its owner may do to it: the     *)
(* A-share simulator, which owns its cash and positions, or a provider     *)
(* market, whose cash and positions are the provider's and whose orders    *)
(* may be imported, finalised and swept.                                   *)
(***************************************************************************)
EXTENDS PaperLedgerOps

CONSTANTS Instruments,    \* the instruments of the account
          OpeningCash,    \* cash of the opening snapshot
          OpeningShares,  \* sellable quantity of each instrument in it
          MaxOrders,      \* bound: orders submitted here
          MaxImports,     \* bound: orders imported from the provider
          MaxQuantity,    \* bound: quantity of an order
          MaxPrice,       \* bound: limit and fill prices
          MaxFee          \* bound: fee of a fill

ASSUME LedgerAssumption ==
  /\ OpeningCash \in Nat /\ OpeningShares \in Nat
  /\ MaxOrders \in Nat /\ MaxImports \in Nat
  /\ MaxQuantity \in Nat /\ MaxPrice \in Nat /\ MaxFee \in Nat

VARIABLES ledger,
          basis,  \* history: the account as the last snapshot left it
          fees    \* history: fees charged since then

vars == <<ledger, basis, fees>>

Order(instrument, side, quantity, filled, price, status) ==
  [instrument |-> instrument, side |-> side, quantity |-> quantity,
   filled |-> filled, price |-> price, status |-> status]

BasisOf(l) == [cash |-> l.cash, positions |-> l.positions,
               fills |-> Len(l.fills), covered |-> l.reserved <= l.cash]

OpeningPositions ==
  [i \in Instruments |-> [quantity |-> OpeningShares, sellable |-> OpeningShares]]

Init ==
  /\ \E market \in Markets :
       ledger = NewLedger(market, OpeningCash, OpeningPositions)
  /\ basis = BasisOf(ledger)
  /\ fees = 0

-------------------------------------------------------------------------------

SubmitOrder ==
  \E i \in Instruments, side \in Sides,
     quantity \in 1 .. MaxQuantity, price \in 1 .. MaxPrice :
    LET order == Order(i, side, quantity, 0, price, "Accepted")
    IN  /\ ledger.nextId <= MaxOrders
        /\ CanSubmit(ledger, order)
        /\ ledger' = Submit(ledger, order)
        /\ UNCHANGED <<basis, fees>>

\* Only an order submitted here is ever filled: a fill enters through the
\* operation that submitted it.  In a provider market neither price nor fee of a
\* fill reaches the account, so one of each stands for all.
FillOrder ==
  \E n \in 1 .. MaxOrders, quantity \in 1 .. MaxQuantity, price \in 1 .. MaxPrice,
     fee \in 0 .. MaxFee, baseFee \in 0 .. MaxFee, limited \in BOOLEAN :
    LET fill == [order |-> LocalId(n), quantity |-> quantity, price |-> price,
                 fee |-> fee, baseFee |-> baseFee]
    IN  /\ IF Locally(ledger) THEN limited /\ baseFee = 0
                              ELSE ~limited /\ fee = 0 /\ price = 1
        /\ CanApplyFill(ledger, fill, limited)
        /\ ledger' = ApplyFill(ledger, fill)
        /\ fees' = fees + fee
        /\ UNCHANGED basis

CancelOrder ==
  \E n \in 1 .. MaxOrders :
    /\ CanCancel(ledger, LocalId(n))
    /\ ledger' = Cancel(ledger, LocalId(n))
    /\ UNCHANGED <<basis, fees>>

\* The snapshots a reconciliation may bring: the account unchanged, every
\* holding settled, or one whose cash moved for a reason not recorded here.
Settled(positions) ==
  [i \in DOMAIN positions |-> [positions[i] EXCEPT !.sellable = positions[i].quantity]]

Snapshots ==
  {[cash |-> ledger.cash, positions |-> ledger.positions],
   [cash |-> ledger.cash, positions |-> Settled(ledger.positions)],
   [cash |-> OpeningCash, positions |-> Settled(ledger.positions)]}

ReconcileAccount ==
  \E snapshot \in Snapshots :
    /\ ledger' = Reconcile(ledger, snapshot)
    /\ basis' = BasisOf(ledger')
    /\ fees' = 0

LoseTrust ==
  /\ ledger' = RequireReconciliation(ledger)
  /\ UNCHANGED <<basis, fees>>

-------------------------------------------------------------------------------
\* Provider markets only.  Every imported order has the same size and price.

ImportOpenOrder ==
  \E p \in 1 .. MaxImports, i \in Instruments, side \in Sides,
     filled \in 0 .. MaxQuantity :
    LET id == ImportedId(p)
        quantity == MaxQuantity
        price == 1
        status == IF filled = quantity THEN "Filled"
                  ELSE IF filled > 0 THEN "PartiallyFilled" ELSE "Accepted"
        order == Order(i, side, quantity, filled, price, status)
    IN  /\ ~Locally(ledger)
        /\ CanUpsert(order)
        \* the provider never changes what an order asks for, or unfills it
        /\ id \in DOMAIN ledger.orders =>
             /\ ledger.orders[id].instrument = i /\ ledger.orders[id].side = side
             /\ ledger.orders[id].filled <= filled
        /\ ledger' = Upsert(ledger, id, order)
        /\ UNCHANGED <<basis, fees>>

\* The provider may finalise a market order below its requested size.
FinaliseOrder ==
  \E n \in 1 .. MaxOrders :
    LET id == LocalId(n)
    IN  /\ ~Locally(ledger)
        /\ id \in DOMAIN ledger.orders /\ ledger.orders[id].filled > 0
        /\ ledger' = Upsert(ledger, id, [ledger.orders[id] EXCEPT !.status = "Filled"])
        /\ UNCHANGED <<basis, fees>>

SweepMissing ==
  \E active \in SUBSET DOMAIN ledger.orders :
    /\ ~Locally(ledger)
    /\ ledger' = CancelMissing(ledger, active)
    /\ UNCHANGED <<basis, fees>>

ReinstateOrder ==
  \E n \in 1 .. MaxOrders :
    /\ CanReinstate(ledger, LocalId(n))
    /\ ledger' = Reinstate(ledger, LocalId(n))
    /\ UNCHANGED <<basis, fees>>

Next ==
  \/ SubmitOrder \/ FillOrder \/ CancelOrder \/ ReconcileAccount \/ LoseTrust
  \/ ImportOpenOrder \/ FinaliseOrder \/ SweepMissing \/ ReinstateOrder

Spec == Init /\ [][Next]_vars

-------------------------------------------------------------------------------

OrderType == [instrument : Instruments, side : Sides, quantity : Nat \ {0},
              filled : Nat, price : Nat \ {0}, status : Statuses]
OrderIds == {"order", "provider-order"} \X Nat
FillType == [order : OrderIds, quantity : Nat \ {0}, price : Nat \ {0},
             fee : Nat, baseFee : Nat]
PositionType == [quantity : Nat, sellable : Nat]

\* Shape of the state.  In the A-share market cash and positions never go
\* negative; "reserved" is typed apart because it is a sum over orders.
TypeOK ==
  /\ ledger.market \in Markets
  /\ ledger.cash \in Nat
  /\ ledger.positions \in [Instruments -> PositionType]
  /\ DOMAIN ledger.orders \subseteq OrderIds
  /\ ledger.orders \in [DOMAIN ledger.orders -> OrderType]
  /\ ledger.fills \in Seq(FillType)
  /\ ledger.nextId \in Nat \ {0}
  /\ ledger.reconciliation \in ReconciliationStates
  /\ basis.cash \in Nat /\ basis.positions \in [Instruments -> PositionType]
  /\ basis.covered \in BOOLEAN
  /\ fees \in Nat

\* The quantity of some fills, named by their positions in the list.
Quantity(fills, some) == SumFunction([i \in some |-> fills[i].quantity])

FillsOf(fills, id) == {i \in DOMAIN fills : fills[i].order = id}
FillsSince(fills, n) == {i \in DOMAIN fills : i > n}

\* What a fill brings to the cash balance.
Proceeds(order, fill) ==
  (IF order.side = "Buy" THEN 0 - fill.quantity ELSE fill.quantity) * fill.price - fill.fee
ProceedsSince(orders, fills, n) ==
  SumFunction([i \in FillsSince(fills, n) |-> Proceeds(orders[fills[i].order], fills[i])])

IsSaleOf(order, instrument) == order.side = "Sell" /\ order.instrument = instrument
SalesSince(orders, fills, n, instrument) ==
  {i \in FillsSince(fills, n) : IsSaleOf(orders[fills[i].order], instrument)}

\* The reservation is exactly what the open buy orders still need: no submit,
\* partial fill, cancel, import, finalisation, sweep or reinstatement leaks
\* buying power or spends it twice.
ReservationsMatchOpenOrders ==
  ledger.reserved = Reserving(ledger.orders, DOMAIN ledger.orders)

\* An order submitted here is filled by exactly its retained fills, never
\* beyond its size, and is Filled only if something was filled (in the A-share
\* market: only if all of it was).
FillsExplainOrders ==
  \A id \in DOMAIN ledger.orders :
    LET order == ledger.orders[id]
    IN  /\ order.filled <= order.quantity
        /\ id[1] = "order" => order.filled = Quantity(ledger.fills, FillsOf(ledger.fills, id))
        /\ order.status = "Filled" => order.filled > 0
        /\ Locally(ledger) => (order.status = "Filled" <=> order.filled = order.quantity)

\* A-share: the cash balance is the last snapshot plus every retained fill
\* since, so no fill changed the balance without leaving evidence.
CashFollowsFills ==
  Locally(ledger) =>
    ledger.cash = basis.cash + ProceedsSince(ledger.orders, ledger.fills, basis.fills)

\* A-share T+1: over a whole session no more of an instrument is sold than was
\* sellable when the session's snapshot was taken, whatever was bought since.
SoldSharesWereSettled ==
  Locally(ledger) =>
    \A instrument \in Instruments :
      Quantity(ledger.fills, SalesSince(ledger.orders, ledger.fills, basis.fills, instrument))
        <= basis.positions[instrument].sellable

\* A-share: open buy orders are covered by cash up to the fees charged since
\* the last snapshot.  Nothing reserves fees, so fees are exactly what can
\* make buying power negative.
ReservationsCovered ==
  Locally(ledger) /\ basis.covered => ledger.reserved <= ledger.cash + fees

\* What a step may do to an order it found: what the order asks for never
\* changes, and a terminal order changes only if it was Cancelled without a fill
\* (reinstated) or was filled (finalised), and never in the A-share market.
OrderGrows(l, id, old, new) ==
  /\ \A part \in {"instrument", "side", "quantity", "price"} : new[part] = old[part]
  /\ new.filled >= old.filled
  /\ id[1] = "order" /\ ~IsOpen(old) /\ new # old =>
       /\ ~Locally(l) /\ old.status = "Cancelled"
       /\ IF old.filled = 0 THEN new.status = "Accepted" ELSE new.status = "Filled"

EvidenceGrows ==
  /\ Len(ledger'.fills) >= Len(ledger.fills)
  /\ \A i \in DOMAIN ledger.fills : ledger'.fills[i] = ledger.fills[i]
  /\ \A id \in DOMAIN ledger.orders :
       /\ id \in DOMAIN ledger'.orders
       /\ OrderGrows(ledger, id, ledger.orders[id], ledger'.orders[id])

\* Evidence is append-only: fills are only appended, no order disappears, and an
\* order changes only as OrderGrows says.
EvidenceOnlyGrows == [][EvidenceGrows]_vars

=============================================================================
