--------------------------- MODULE PaperLedgerProofs ---------------------------
(***************************************************************************)
(* Proofs about PaperLedger, for any instruments, opening account and      *)
(* bounds.  LedgerInv is the shape of the account, and that nothing but    *)
(* the fees of its fills can make the buying power of an A-share account   *)
(* negative.  Explained accounts for what the account holds: reservations  *)
(* by the open orders, orders by their fills, cash and sellable shares by  *)
(* the fills since the last snapshot; its sums are those of SumTheorems.   *)
(* Both together make every step keep the evidence it found.               *)
(***************************************************************************)
EXTENDS PaperLedger, SumTheorems

Fields == {"market", "cash", "positions", "reserved", "orders", "fills", "nextId",
           "reconciliation"}

NeverOversold(positions) ==
  \A i \in Instruments : positions[i].sellable <= positions[i].quantity

NeverOverfilled(orders) ==
  \A id \in DOMAIN orders : orders[id].filled <= orders[id].quantity

\* What TypeOK rests on: a sale takes sellable shares, which are held, and the
\* reservation of an A-share account, which no sweep ever touches, is a number.
LedgerInv ==
  /\ DOMAIN ledger = Fields
  /\ TypeOK
  /\ NeverOversold(ledger.positions)
  /\ NeverOverfilled(ledger.orders)
  /\ Locally(ledger) => ledger.reserved \in Int
  /\ ReservationsCovered

-------------------------------------------------------------------------------
\* Helpers

\* A new or changed order leaves the others as they are.
LEMMA PutOrder ==
  ASSUME LedgerInv, NEW id \in OrderIds, NEW order \in OrderType,
         order.filled <= order.quantity
  PROVE  LET orders == Put(ledger.orders, id, order)
         IN  /\ DOMAIN orders \subseteq OrderIds
             /\ orders \in [DOMAIN orders -> OrderType]
             /\ NeverOverfilled(orders)
  <1>1. /\ ledger.orders \in [DOMAIN ledger.orders -> OrderType]
        /\ DOMAIN ledger.orders \subseteq OrderIds
        /\ NeverOverfilled(ledger.orders)
    BY DEF LedgerInv, TypeOK
  <1> DEFINE orders == Put(ledger.orders, id, order)
  <1>2. /\ DOMAIN orders = DOMAIN ledger.orders \cup {id}
        /\ orders \in [DOMAIN orders -> OrderType]
        /\ \A x \in DOMAIN orders : orders[x] = IF x = id THEN order ELSE ledger.orders[x]
    BY <1>1 DEF Put
  <1> HIDE DEF orders
  <1>3. DOMAIN orders \subseteq OrderIds /\ NeverOverfilled(orders)
    BY <1>1, <1>2 DEF NeverOverfilled
  <1> QED BY <1>2, <1>3 DEF orders

LEMMA ReplaceOrder ==
  ASSUME LedgerInv, NEW id \in DOMAIN ledger.orders, NEW order \in OrderType,
         order.filled <= order.quantity
  PROVE  LET orders == [ledger.orders EXCEPT ![id] = order]
         IN  /\ DOMAIN orders \subseteq OrderIds
             /\ orders \in [DOMAIN orders -> OrderType]
             /\ NeverOverfilled(orders)
  <1>1. /\ id \in OrderIds
        /\ [ledger.orders EXCEPT ![id] = order] = Put(ledger.orders, id, order)
    BY DEF LedgerInv, TypeOK, Put
  <1> QED BY <1>1, PutOrder

LEMMA Ids ==
  ASSUME NEW n \in Nat PROVE LocalId(n) \in OrderIds /\ ImportedId(n) \in OrderIds
  BY DEF LocalId, ImportedId, OrderIds

\* What an open order needs is not negative.
LEMMA OrderNeeds ==
  ASSUME NEW order \in OrderType, order.filled <= order.quantity
  PROVE  OrderReserved(order) \in Nat
  BY DEF OrderReserved, OrderType

\* A purchase within its limit costs no more than was reserved for it.
LEMMA WithinReservation ==
  ASSUME NEW x \in Nat, NEW p \in Nat, NEW limit \in Nat, p <= limit
  PROVE  x * p <= x * limit
  OBVIOUS

-------------------------------------------------------------------------------
\* One lemma per action

LEMMA SubmitKeeps == ASSUME LedgerInv, SubmitOrder PROVE LedgerInv'
  <1> USE LedgerAssumption
  <1>1. PICK i \in Instruments, side \in Sides, quantity \in 1 .. MaxQuantity,
             price \in 1 .. MaxPrice :
          LET order == Order(i, side, quantity, 0, price, "Accepted")
          IN  /\ CanSubmit(ledger, order)
              /\ ledger' = Submit(ledger, order)
              /\ UNCHANGED <<basis, fees>>
    BY DEF SubmitOrder
  <1> DEFINE order == Order(i, side, quantity, 0, price, "Accepted")
  <1> DEFINE new == [order EXCEPT !.filled = 0, !.status = "Accepted"]
  <1>2. /\ new \in OrderType /\ new.filled <= new.quantity
        /\ order.quantity * order.price \in Nat
    <2>1. new = order
      <3>1. [order EXCEPT !.filled = 0] = order /\ [order EXCEPT !.status = "Accepted"] = order
        BY DEF Order
      <3> HIDE DEF order
      <3> QED BY <3>1, Zenon
    <2>2. order \in OrderType /\ order.filled = 0
      BY DEF Order, OrderType, Statuses, OpenStatuses
    <2> HIDE DEF order, new
    <2> QED BY <2>1, <2>2 DEF OrderType
  <1> HIDE DEF new, order
  <1>3. ledger' = [ledger EXCEPT !.reserved = IF order.side = "Buy"
                                                THEN @ + order.quantity * order.price ELSE @,
                                 !.orders = Put(@, LocalId(ledger.nextId), new),
                                 !.nextId = @ + 1]
    BY <1>1, Zenon DEF Submit, new, order
  <1>4. /\ DOMAIN ledger' = Fields
        /\ ledger'.market = ledger.market /\ ledger'.cash = ledger.cash
        /\ ledger'.positions = ledger.positions /\ ledger'.fills = ledger.fills
        /\ ledger'.reconciliation = ledger.reconciliation
        /\ ledger'.nextId = ledger.nextId + 1
        /\ ledger'.orders = Put(ledger.orders, LocalId(ledger.nextId), new)
        /\ ledger'.reserved \in {ledger.reserved,
                                 ledger.reserved + order.quantity * order.price}
    BY <1>3 DEF LedgerInv, Fields
  <1>5. /\ DOMAIN ledger'.orders \subseteq OrderIds
        /\ ledger'.orders \in [DOMAIN ledger'.orders -> OrderType]
        /\ NeverOverfilled(ledger'.orders)
    <2>1. LocalId(ledger.nextId) \in OrderIds
      BY Ids DEF LedgerInv, TypeOK
    <2> QED BY <1>2, <1>4, <2>1, PutOrder
  <1>6. UNCHANGED <<basis, fees>>
    BY <1>1
  <1>7. ReservationsCovered'
    <2> SUFFICES ASSUME Locally(ledger'), basis.covered
                 PROVE  ledger'.reserved <= ledger'.cash + fees
      BY <1>6 DEF ReservationsCovered
    <2>1. /\ ledger.reserved \in Int /\ ledger.cash \in Nat /\ fees \in Nat
          /\ ledger.reserved <= ledger.cash + fees
      BY <1>4 DEF LedgerInv, TypeOK, ReservationsCovered, Locally
    <2>2. ledger'.reserved # ledger.reserved
            => ledger'.reserved = ledger.reserved + order.quantity * order.price
               /\ ledger.cash - ledger.reserved >= order.quantity * order.price
      BY <1>1, <1>3, <1>4 DEF CanSubmit, BuyingPower, LedgerInv, Fields, order
    <2> HIDE DEF order
    <2> QED BY <1>2, <1>4, <2>1, <2>2
  <1>8. TypeOK'
    <2>1. /\ ledger'.nextId \in Nat \ {0} /\ fees' = fees /\ basis' = basis
      BY <1>4, <1>6 DEF LedgerInv, TypeOK
    <2> QED BY <1>4, <1>5, <2>1 DEF LedgerInv, TypeOK
  <1>9. Locally(ledger') => ledger'.reserved \in Int
    BY <1>2, <1>4 DEF LedgerInv, Locally
  <1>10. NeverOversold(ledger'.positions)
    BY <1>4 DEF LedgerInv
  <1> QED BY <1>4, <1>5, <1>7, <1>8, <1>9, <1>10 DEF LedgerInv

LEMMA CancelKeeps == ASSUME LedgerInv, CancelOrder PROVE LedgerInv'
  <1> USE LedgerAssumption
  <1>1. PICK n \in 1 .. MaxOrders : /\ CanCancel(ledger, LocalId(n))
                                    /\ ledger' = Cancel(ledger, LocalId(n))
                                    /\ UNCHANGED <<basis, fees>>
    BY DEF CancelOrder
  <1> DEFINE id == LocalId(n)
  <1> DEFINE order == ledger.orders[id]
  <1>2. /\ id \in DOMAIN ledger.orders /\ order \in OrderType
        /\ order.filled <= order.quantity
    BY <1>1 DEF CanCancel, LedgerInv, TypeOK, NeverOverfilled
  <1>3. OrderReserved(order) \in Nat
    BY <1>2, OrderNeeds
  <1>4. /\ DOMAIN ledger' = Fields
        /\ ledger'.market = ledger.market /\ ledger'.cash = ledger.cash
        /\ ledger'.positions = ledger.positions /\ ledger'.fills = ledger.fills
        /\ ledger'.reconciliation = ledger.reconciliation
        /\ ledger'.nextId = ledger.nextId
        /\ ledger'.orders = [ledger.orders EXCEPT ![id].status = "Cancelled"]
        /\ ledger'.reserved = ledger.reserved - OrderReserved(order)
    BY <1>1 DEF LedgerInv, Fields, Cancel
  <1> DEFINE new == [order EXCEPT !.status = "Cancelled"]
  <1>5. new \in OrderType /\ new.filled <= new.quantity
    <2> HIDE DEF order
    <2> QED BY <1>2 DEF OrderType, Statuses
  <1>6. /\ DOMAIN ledger'.orders \subseteq OrderIds
        /\ ledger'.orders \in [DOMAIN ledger'.orders -> OrderType]
        /\ NeverOverfilled(ledger'.orders)
    <2>1. ledger'.orders = [ledger.orders EXCEPT ![id] = new]
      BY <1>4, Zenon
    <2> HIDE DEF new, id
    <2> QED BY <1>2, <1>5, <2>1, ReplaceOrder
  <1> HIDE DEF order, new, id
  <1>7. UNCHANGED <<basis, fees>>
    BY <1>1
  <1>8. ReservationsCovered'
    BY <1>3, <1>4, <1>7 DEF LedgerInv, TypeOK, Locally, ReservationsCovered
  <1> QED BY <1>3, <1>4, <1>6, <1>7, <1>8 DEF LedgerInv, TypeOK, NeverOversold, Locally

LEMMA TrustKeeps == ASSUME LedgerInv, LoseTrust PROVE LedgerInv'
  <1>1. /\ DOMAIN ledger' = Fields
        /\ ledger'.market = ledger.market /\ ledger'.cash = ledger.cash
        /\ ledger'.positions = ledger.positions /\ ledger'.fills = ledger.fills
        /\ ledger'.nextId = ledger.nextId /\ ledger'.orders = ledger.orders
        /\ ledger'.reserved = ledger.reserved /\ ledger'.reconciliation = "Required"
        /\ UNCHANGED <<basis, fees>>
    BY DEF LoseTrust, RequireReconciliation, LedgerInv, Fields
  <1>2. ReservationsCovered'
    BY <1>1 DEF LedgerInv, ReservationsCovered, Locally
  <1> QED BY <1>1, <1>2 DEF LedgerInv, TypeOK, NeverOversold, Locally, ReconciliationStates

LEMMA ReconcileKeeps == ASSUME LedgerInv, ReconcileAccount PROVE LedgerInv'
  <1> USE LedgerAssumption
  <1>1. PICK snapshot \in Snapshots : /\ ledger' = Reconcile(ledger, snapshot)
                                      /\ basis' = BasisOf(ledger')
                                      /\ fees' = 0
    BY DEF ReconcileAccount
  <1>2. /\ snapshot.cash \in Nat
        /\ snapshot.positions \in [Instruments -> PositionType]
        /\ NeverOversold(snapshot.positions)
    <2>1. /\ Settled(ledger.positions) \in [Instruments -> PositionType]
          /\ NeverOversold(Settled(ledger.positions))
      <3>1. /\ ledger.positions \in [Instruments -> PositionType]
            /\ DOMAIN ledger.positions = Instruments
        BY DEF LedgerInv, TypeOK
      <3>2. ASSUME NEW held \in PositionType
            PROVE  LET new == [held EXCEPT !.sellable = held.quantity]
                   IN  new \in PositionType /\ new.sellable = new.quantity
        BY DEF PositionType
      <3>3. \A i \in Instruments :
              /\ Settled(ledger.positions)[i]
                   = [ledger.positions[i] EXCEPT !.sellable = ledger.positions[i].quantity]
              /\ ledger.positions[i] \in PositionType
        BY <3>1 DEF Settled
      <3>4. /\ Settled(ledger.positions) = [i \in Instruments |-> Settled(ledger.positions)[i]]
            /\ \A i \in Instruments :
                 /\ Settled(ledger.positions)[i] \in PositionType
                 /\ Settled(ledger.positions)[i].sellable
                      = Settled(ledger.positions)[i].quantity
        BY <3>1, <3>2, <3>3 DEF Settled
      <3> QED BY <3>4 DEF NeverOversold, PositionType
    <2> QED BY <1>1, <2>1 DEF Snapshots, LedgerInv, TypeOK
  <1>3. /\ DOMAIN ledger' = Fields
        /\ ledger'.market = ledger.market /\ ledger'.cash = snapshot.cash
        /\ ledger'.positions = snapshot.positions /\ ledger'.fills = ledger.fills
        /\ ledger'.nextId = ledger.nextId /\ ledger'.orders = ledger.orders
        /\ ledger'.reserved = ledger.reserved
        /\ ledger'.reconciliation \in ReconciliationStates
    BY <1>1 DEF Reconcile, LedgerInv, Fields, ReconciliationStates
  <1>4. /\ basis'.cash = ledger'.cash /\ basis'.positions = ledger'.positions
        /\ basis'.covered \in BOOLEAN
        /\ basis'.covered => ledger'.reserved <= ledger'.cash
    <2> DEFINE covered == ledger'.reserved <= ledger'.cash
    <2>1. basis' = [cash |-> ledger'.cash, positions |-> ledger'.positions,
                    fills |-> Len(ledger'.fills), covered |-> covered]
      BY <1>1 DEF BasisOf
    <2>2. covered \in BOOLEAN
      OBVIOUS
    <2> HIDE DEF covered
    <2>3. basis'.covered = covered /\ basis'.cash = ledger'.cash
          /\ basis'.positions = ledger'.positions
      BY <2>1
    <2> QED BY <2>2, <2>3 DEF covered
  <1>5. ReservationsCovered'
    BY <1>1, <1>2, <1>3, <1>4 DEF ReservationsCovered, Locally, LedgerInv
  <1> QED BY <1>1, <1>2, <1>3, <1>4, <1>5 DEF LedgerInv, TypeOK, Locally, NeverOversold

\* What the provider-market operations have in common: they change orders and
\* the reservation, and nothing else.
LEMMA ProviderStep ==
  ASSUME LedgerInv, ~Locally(ledger),
         NEW orders, NEW reserved,
         ledger' = [ledger EXCEPT !.reserved = reserved, !.orders = orders],
         DOMAIN orders \subseteq OrderIds,
         orders \in [DOMAIN orders -> OrderType],
         NeverOverfilled(orders),
         UNCHANGED <<basis, fees>>
  PROVE  LedgerInv'
  <1>1. /\ DOMAIN ledger' = Fields
        /\ ledger'.market = ledger.market /\ ledger'.cash = ledger.cash
        /\ ledger'.positions = ledger.positions /\ ledger'.fills = ledger.fills
        /\ ledger'.reconciliation = ledger.reconciliation
        /\ ledger'.nextId = ledger.nextId /\ ledger'.orders = orders
    BY DEF LedgerInv, Fields
  <1> QED BY <1>1 DEF LedgerInv, TypeOK, NeverOversold, Locally, ReservationsCovered

LEMMA UpsertKeeps ==
  ASSUME LedgerInv, ~Locally(ledger), NEW id \in OrderIds, NEW order \in OrderType,
         order.filled <= order.quantity,
         ledger' = Upsert(ledger, id, order), UNCHANGED <<basis, fees>>
  PROVE  LedgerInv'
  <1> DEFINE orders == Put(ledger.orders, id, order)
  <1>1. PICK reserved :
          ledger' = [ledger EXCEPT !.reserved = reserved, !.orders = orders]
    BY Zenon DEF Upsert
  <1>2. /\ DOMAIN orders \subseteq OrderIds
        /\ orders \in [DOMAIN orders -> OrderType]
        /\ NeverOverfilled(orders)
    BY PutOrder
  <1> HIDE DEF orders
  <1> QED BY <1>1, <1>2, ProviderStep

LEMMA ImportKeeps == ASSUME LedgerInv, ImportOpenOrder PROVE LedgerInv'
  <1> USE LedgerAssumption
  <1>1. PICK p \in 1 .. MaxImports, i \in Instruments, side \in Sides,
             filled \in 0 .. MaxQuantity, status \in Statuses :
          LET order == Order(i, side, MaxQuantity, filled, 1, status)
          IN  /\ ~Locally(ledger) /\ CanUpsert(order)
              /\ ledger' = Upsert(ledger, ImportedId(p), order)
              /\ UNCHANGED <<basis, fees>>
    BY DEF ImportOpenOrder, Statuses, OpenStatuses
  <1> DEFINE order == Order(i, side, MaxQuantity, filled, 1, status)
  <1>2. order \in OrderType /\ order.filled <= order.quantity
    BY <1>1 DEF CanUpsert, Order, OrderType
  <1>3. ImportedId(p) \in OrderIds
    BY Ids
  <1> HIDE DEF order
  <1> QED BY <1>1, <1>2, <1>3, UpsertKeeps DEF order

LEMMA FinaliseKeeps == ASSUME LedgerInv, FinaliseOrder PROVE LedgerInv'
  <1> USE LedgerAssumption
  <1>1. PICK n \in 1 .. MaxOrders :
          /\ ~Locally(ledger)
          /\ LocalId(n) \in DOMAIN ledger.orders
          /\ ledger' = Upsert(ledger, LocalId(n),
                              [ledger.orders[LocalId(n)] EXCEPT !.status = "Filled"])
          /\ UNCHANGED <<basis, fees>>
    BY DEF FinaliseOrder
  <1> DEFINE old == ledger.orders[LocalId(n)]
  <1> DEFINE new == [old EXCEPT !.status = "Filled"]
  <1>2. old \in OrderType /\ old.filled <= old.quantity /\ LocalId(n) \in OrderIds
    BY <1>1 DEF LedgerInv, TypeOK, NeverOverfilled
  <1>3. new \in OrderType /\ new.filled <= new.quantity
    <2> HIDE DEF old
    <2> QED BY <1>2 DEF OrderType, Statuses
  <1> HIDE DEF new
  <1> QED BY <1>1, <1>2, <1>3, UpsertKeeps DEF new

LEMMA SweepKeeps == ASSUME LedgerInv, SweepMissing PROVE LedgerInv'
  <1>1. PICK active \in SUBSET DOMAIN ledger.orders :
          /\ ~Locally(ledger)
          /\ ledger' = CancelMissing(ledger, active)
          /\ UNCHANGED <<basis, fees>>
    BY DEF SweepMissing
  <1> DEFINE stale == {id \in DOMAIN ledger.orders \ active : IsOpen(ledger.orders[id])}
  <1> DEFINE orders == [id \in DOMAIN ledger.orders |->
                          IF id \in stale
                            THEN [ledger.orders[id] EXCEPT !.status = "Cancelled"]
                            ELSE ledger.orders[id]]
  <1>2. PICK reserved :
          ledger' = [ledger EXCEPT !.reserved = reserved, !.orders = orders]
    BY <1>1, Zenon DEF CancelMissing
  <1> HIDE DEF stale
  <1>3. ASSUME NEW order \in OrderType, order.filled <= order.quantity
        PROVE  LET new == [order EXCEPT !.status = "Cancelled"]
               IN  new \in OrderType /\ new.filled <= new.quantity
    BY <1>3 DEF OrderType, Statuses
  <1>4. \A id \in DOMAIN ledger.orders :
          /\ ledger.orders[id] \in OrderType
          /\ ledger.orders[id].filled <= ledger.orders[id].quantity
    BY DEF LedgerInv, TypeOK, NeverOverfilled
  <1>5. \A id \in DOMAIN orders :
          orders[id] \in OrderType /\ orders[id].filled <= orders[id].quantity
    BY <1>3, <1>4
  <1>6. DOMAIN orders = DOMAIN ledger.orders /\ orders = [id \in DOMAIN orders |-> orders[id]]
    OBVIOUS
  <1> HIDE DEF orders
  <1>7. /\ DOMAIN orders \subseteq OrderIds
        /\ orders \in [DOMAIN orders -> OrderType]
        /\ NeverOverfilled(orders)
    BY <1>5, <1>6 DEF LedgerInv, TypeOK, NeverOverfilled
  <1> QED BY <1>1, <1>2, <1>7, ProviderStep

LEMMA ReinstateKeeps == ASSUME LedgerInv, ReinstateOrder PROVE LedgerInv'
  <1>1. PICK n \in 1 .. MaxOrders : /\ CanReinstate(ledger, LocalId(n))
                                    /\ ledger' = Reinstate(ledger, LocalId(n))
                                    /\ UNCHANGED <<basis, fees>>
    BY DEF ReinstateOrder
  <1> DEFINE id == LocalId(n)
  <1> DEFINE old == ledger.orders[id]
  <1> DEFINE new == [old EXCEPT !.status = "Accepted"]
  <1> DEFINE orders == [ledger.orders EXCEPT ![id] = new]
  <1>2. /\ ~Locally(ledger) /\ id \in DOMAIN ledger.orders
        /\ old \in OrderType /\ old.filled <= old.quantity
    BY <1>1 DEF CanReinstate, LedgerInv, TypeOK, NeverOverfilled
  <1>3. new \in OrderType /\ new.filled <= new.quantity
    <2> HIDE DEF old
    <2> QED BY <1>2 DEF OrderType, Statuses, OpenStatuses
  <1>4. PICK reserved :
          ledger' = [ledger EXCEPT !.reserved = reserved, !.orders = orders]
    BY <1>1, Zenon DEF Reinstate
  <1> HIDE DEF new, id
  <1>5. /\ DOMAIN orders \subseteq OrderIds
        /\ orders \in [DOMAIN orders -> OrderType]
        /\ NeverOverfilled(orders)
    BY <1>2, <1>3, ReplaceOrder
  <1> HIDE DEF orders
  <1> QED BY <1>1, <1>2, <1>4, <1>5, ProviderStep

\* A fill of the A-share market never costs more than it releases, but for its fee.
LEMMA FillKeeps == ASSUME LedgerInv, FillOrder PROVE LedgerInv'
  <1> USE LedgerAssumption
  <1>1. PICK n \in 1 .. MaxOrders, quantity \in 1 .. MaxQuantity,
             price \in 1 .. MaxPrice, fee \in 0 .. MaxFee, baseFee \in 0 .. MaxFee,
             limited \in BOOLEAN :
          LET fill == [order |-> LocalId(n), quantity |-> quantity, price |-> price,
                       fee |-> fee, baseFee |-> baseFee]
          IN  /\ Locally(ledger) => limited /\ baseFee = 0
              /\ CanApplyFill(ledger, fill, limited)
              /\ ledger' = ApplyFill(ledger, fill)
              /\ fees' = fees + fee
              /\ UNCHANGED basis
    BY DEF FillOrder
  <1> DEFINE id == LocalId(n)
  <1> DEFINE fill == [order |-> id, quantity |-> quantity, price |-> price,
                      fee |-> fee, baseFee |-> baseFee]
  <1> DEFINE order == ledger.orders[id]
  <1> DEFINE new == FilledOrder(order, fill)
  <1>2. /\ fill \in FillType /\ fill.order = id /\ fill.quantity = quantity
        /\ fill.price = price /\ fill.fee = fee /\ fill.baseFee = baseFee
    BY Ids DEF FillType
  <1> HIDE DEF fill
  <1>3. /\ id \in DOMAIN ledger.orders /\ order \in OrderType
        /\ order.filled <= order.quantity
        /\ IsOpen(order) /\ order.filled + quantity <= order.quantity
        /\ limited => WithinLimit(order, fill)
        /\ IF order.side = "Buy" THEN Funded(ledger, order, fill)
                                 ELSE Deliverable(ledger, order, fill)
    BY <1>1, <1>2 DEF CanApplyFill, Fits, LedgerInv, TypeOK, NeverOverfilled, fill
  <1>4. /\ DOMAIN ledger' = Fields
        /\ ledger'.market = ledger.market /\ ledger'.nextId = ledger.nextId
        /\ ledger'.reconciliation = ledger.reconciliation
        /\ ledger'.cash = FilledCash(ledger, order.side, fill)
        /\ ledger'.positions = FilledPositions(ledger, order, fill)
        /\ ledger'.reserved = FilledReserved(ledger, order, fill)
        /\ ledger'.orders = [ledger.orders EXCEPT ![id] = new]
        /\ ledger'.fills = Append(ledger.fills, fill)
    BY <1>1, <1>2 DEF ApplyFill, LedgerInv, Fields, fill
  <1>5. fees' = fees + fee /\ UNCHANGED basis
    BY <1>1
  <1>6. /\ ledger.cash \in Nat /\ fees \in Nat /\ order.side \in Sides
        /\ order.quantity \in Nat /\ order.filled \in Nat /\ order.price \in Nat
        /\ quantity * price \in Nat
    BY <1>3 DEF LedgerInv, TypeOK, OrderType
  <1>7. new \in OrderType /\ new.filled <= new.quantity
    <2> DEFINE filled == order.filled + quantity
    <2> DEFINE status == IF filled = order.quantity THEN "Filled" ELSE "PartiallyFilled"
    <2> DEFINE half == [order EXCEPT !.filled = filled]
    <2>1. new = [half EXCEPT !.status = status]
      BY <1>2, Zenon DEF FilledOrder
    <2>2. filled \in Nat /\ filled <= order.quantity /\ status \in Statuses
      BY <1>3, <1>6 DEF Statuses, OpenStatuses
    <2> HIDE DEF filled, status, new, order
    <2>3. half \in OrderType /\ half.filled = filled /\ half.quantity = order.quantity
      BY <1>3, <2>2 DEF OrderType
    <2> HIDE DEF half
    <2> QED BY <2>1, <2>2, <2>3 DEF OrderType
  <1>8. /\ DOMAIN ledger'.orders \subseteq OrderIds
        /\ ledger'.orders \in [DOMAIN ledger'.orders -> OrderType]
        /\ NeverOverfilled(ledger'.orders)
    <2> HIDE DEF new
    <2> QED BY <1>3, <1>4, <1>7, ReplaceOrder
  <1> HIDE DEF order, new, id
  <1>9. ledger'.cash \in Nat
    <2> DEFINE paid == quantity * price
    <2>1. fill.quantity * fill.price = paid /\ paid \in Nat /\ fill.fee \in Nat
      BY <1>2, <1>6
    <2> HIDE DEF paid
    <2>2. CASE ~Locally(ledger)
      BY <1>4, <1>6, <2>2 DEF FilledCash
    <2>3. CASE Locally(ledger) /\ order.side = "Buy"
      <3>1. ledger.cash >= paid + fill.fee
        BY <1>3, <2>1, <2>3 DEF Funded
      <3>2. ledger'.cash = ledger.cash - (paid + fill.fee)
        BY <1>4, <2>1, <2>3 DEF FilledCash
      <3> QED BY <1>6, <2>1, <3>1, <3>2
    <2>4. CASE Locally(ledger) /\ order.side = "Sell"
      <3>1. ledger.cash + paid - fill.fee >= 0
        BY <1>3, <2>1, <2>4 DEF Deliverable
      <3>2. ledger'.cash = ledger.cash + (paid - fill.fee)
        BY <1>4, <2>1, <2>4 DEF FilledCash
      <3> QED BY <1>6, <2>1, <3>1, <3>2
    <2> QED BY <1>6, <2>2, <2>3, <2>4 DEF Sides
  <1>10. /\ ledger'.positions \in [Instruments -> PositionType]
         /\ NeverOversold(ledger'.positions)
    <2>1. /\ ledger.positions \in [Instruments -> PositionType]
          /\ NeverOversold(ledger.positions)
          /\ order.instrument \in Instruments
      BY <1>3 DEF LedgerInv, TypeOK, OrderType
    <2> DEFINE held == ledger.positions[order.instrument]
    <2>2. /\ held \in PositionType /\ held.sellable <= held.quantity
          /\ Position(ledger, order.instrument) = held
      BY <2>1 DEF NeverOversold, Position
    <2> HIDE DEF held
    <2>3. ASSUME NEW next \in PositionType, next.sellable <= next.quantity,
                 ledger'.positions = Put(ledger.positions, order.instrument, next)
          PROVE  /\ ledger'.positions \in [Instruments -> PositionType]
                 /\ NeverOversold(ledger'.positions)
      BY <2>1, <2>3 DEF Put, NeverOversold
    <2>4. CASE ~Locally(ledger)
      BY <1>4, <2>1, <2>4 DEF FilledPositions
    <2>5. CASE Locally(ledger) /\ order.side = "Buy"
      <3> DEFINE next == [held EXCEPT !.quantity = @ + fill.quantity - fill.baseFee]
      <3>1. ledger'.positions = Put(ledger.positions, order.instrument, next)
        BY <1>4, <2>2, <2>5 DEF FilledPositions
      <3>2. next \in PositionType /\ next.sellable <= next.quantity
        BY <1>1, <1>2, <2>2, <2>5 DEF PositionType
      <3> HIDE DEF next
      <3> QED BY <2>3, <3>1, <3>2
    <2>6. CASE Locally(ledger) /\ order.side = "Sell"
      <3> DEFINE sold == fill.quantity + fill.baseFee
      <3> DEFINE next == [quantity |-> held.quantity - sold,
                          sellable |-> held.sellable - sold]
      <3>1. ledger'.positions = Put(ledger.positions, order.instrument, next)
        BY <1>4, <2>2, <2>6 DEF FilledPositions
      <3>2. sold \in Nat /\ sold <= held.sellable
        BY <1>2, <1>3, <2>6 DEF Deliverable, held
      <3> HIDE DEF sold
      <3>3. next \in PositionType /\ next.sellable <= next.quantity
        BY <2>2, <3>2 DEF PositionType
      <3> HIDE DEF next
      <3> QED BY <2>3, <3>1, <3>3
    <2> QED BY <1>6, <2>4, <2>5, <2>6 DEF Sides
  <1>11. Locally(ledger') =>
           /\ ledger'.reserved \in Int
           /\ ledger.reserved <= ledger.cash + fees
                => ledger'.reserved <= ledger'.cash + fees'
    <2> SUFFICES ASSUME Locally(ledger)
                 PROVE  /\ ledger'.reserved \in Int
                        /\ ledger.reserved <= ledger.cash + fees
                             => ledger'.reserved <= ledger'.cash + fees'
      BY <1>4 DEF Locally
    <2> DEFINE paid == quantity * price
    <2>1. fill.quantity * fill.price = paid /\ paid \in Nat /\ fill.fee = fee
      BY <1>2, <1>6
    <2>2. ledger.reserved \in Int
      BY DEF LedgerInv
    <2>3. CASE order.side = "Buy"
      <3> DEFINE limit == quantity * order.price
      <3>1. paid <= limit
        <4>1. price <= order.price
          BY <1>1, <1>2, <1>3, <2>3 DEF WithinLimit
        <4> QED BY <1>6, <4>1, WithinReservation
      <3>2. ledger'.reserved = ledger.reserved - limit
        <4> DEFINE rest == order.quantity - order.filled
        <4>1. rest \in Int /\ OrderReserved(order) = rest * order.price
          BY <1>3, <1>6, <2>3 DEF OrderReserved
        <4>2. OrderReserved(order) <= ledger.reserved
          BY <1>3, <1>6, <2>2, <2>3, <4>1 DEF Funded
        <4>3. ledger'.reserved = ledger.reserved - OrderReserved(order)
                                   + (rest - quantity) * order.price
          BY <1>2, <1>4, <2>3, <4>2 DEF FilledReserved
        <4> HIDE DEF rest
        <4>4. (rest - quantity) * order.price = rest * order.price - quantity * order.price
          BY <1>6, <4>1
        <4> QED BY <1>6, <2>2, <4>1, <4>3, <4>4
      <3>3. ledger'.cash = ledger.cash - (paid + fee)
        BY <1>4, <2>1, <2>3 DEF FilledCash
      <3>4. limit \in Nat
        BY <1>6
      <3> HIDE DEF paid, limit
      <3> QED BY <1>5, <1>6, <2>1, <2>2, <3>1, <3>2, <3>3, <3>4
    <2>4. CASE order.side = "Sell"
      <3>1. ledger'.reserved = ledger.reserved
        BY <1>4, <2>4 DEF FilledReserved
      <3>2. ledger'.cash = ledger.cash + (paid - fee)
        BY <1>4, <2>1, <2>4 DEF FilledCash
      <3> HIDE DEF paid
      <3> QED BY <1>5, <1>6, <2>1, <2>2, <3>1, <3>2
    <2> QED BY <1>6, <2>3, <2>4 DEF Sides
  <1>12. ReservationsCovered'
    BY <1>4, <1>5, <1>11 DEF ReservationsCovered, LedgerInv, Locally
  <1>13. ledger'.fills \in Seq(FillType)
    BY <1>2, <1>4 DEF LedgerInv, TypeOK
  <1>14. /\ fees' \in Nat /\ basis' = basis
         /\ ledger'.market \in Markets /\ ledger'.nextId \in Nat \ {0}
         /\ ledger'.reconciliation \in ReconciliationStates
    <2>1. fees' \in Nat /\ basis' = basis
      BY <1>5, <1>6
    <2>2. /\ ledger.market \in Markets /\ ledger.nextId \in Nat \ {0}
          /\ ledger.reconciliation \in ReconciliationStates
      BY DEF LedgerInv, TypeOK
    <2> QED BY <1>4, <2>1, <2>2
  <1>15. TypeOK'
    <2>1. /\ basis.cash \in Nat /\ basis.positions \in [Instruments -> PositionType]
          /\ basis.covered \in BOOLEAN
      BY DEF LedgerInv, TypeOK
    <2> QED BY <1>8, <1>9, <1>10, <1>13, <1>14, <2>1 DEF TypeOK
  <1> QED BY <1>4, <1>8, <1>10, <1>11, <1>12, <1>15 DEF LedgerInv

\* The account keeps its shape, never sells what it does not hold, never fills
\* an order beyond its size, and covers its reservations.
THEOREM LedgerStaysSound == Spec => []LedgerInv
  <1>1. Init => LedgerInv
    <2> SUFFICES ASSUME Init PROVE LedgerInv
      OBVIOUS
    <2>1. PICK market \in Markets :
            ledger = NewLedger(market, OpeningCash, OpeningPositions)
      BY DEF Init
    <2>2. /\ DOMAIN ledger = Fields
          /\ ledger.market = market /\ ledger.cash = OpeningCash
          /\ ledger.positions = OpeningPositions /\ ledger.reserved = 0
          /\ ledger.orders = << >> /\ ledger.fills = << >> /\ ledger.nextId = 1
          /\ ledger.reconciliation = "Reconciled"
      BY <2>1 DEF NewLedger, Fields
    <2>3. /\ OpeningPositions \in [Instruments -> PositionType]
          /\ NeverOversold(OpeningPositions)
      BY LedgerAssumption DEF OpeningPositions, PositionType, NeverOversold
    <2>4. /\ ledger.orders \in [DOMAIN ledger.orders -> OrderType]
          /\ DOMAIN ledger.orders \subseteq OrderIds /\ NeverOverfilled(ledger.orders)
          /\ ledger.fills \in Seq(FillType)
      BY <2>2 DEF NeverOverfilled
    <2>5. /\ basis.cash = ledger.cash /\ basis.positions = ledger.positions
          /\ basis.covered \in BOOLEAN
      <3> DEFINE covered == ledger.reserved <= ledger.cash
      <3>1. basis = [cash |-> ledger.cash, positions |-> ledger.positions,
                     fills |-> Len(ledger.fills), covered |-> covered]
        BY DEF Init, BasisOf
      <3>2. covered \in BOOLEAN
        OBVIOUS
      <3> HIDE DEF covered
      <3> QED BY <3>1, <3>2
    <2>6. fees = 0 /\ ReservationsCovered
      BY <2>2, LedgerAssumption DEF Init, ReservationsCovered
    <2> QED BY <2>2, <2>3, <2>4, <2>5, <2>6, LedgerAssumption
            DEF LedgerInv, TypeOK, ReconciliationStates
  <1>2. LedgerInv /\ [Next]_vars => LedgerInv'
    <2> SUFFICES ASSUME LedgerInv, [Next]_vars PROVE LedgerInv'
      OBVIOUS
    <2>1. CASE UNCHANGED vars
      BY <2>1 DEF vars, LedgerInv, TypeOK, Locally, ReservationsCovered
    <2> QED BY <2>1, SubmitKeeps, FillKeeps, CancelKeeps, ReconcileKeeps, TrustKeeps,
               ImportKeeps, FinaliseKeeps, SweepKeeps, ReinstateKeeps DEF Next
  <1> QED BY <1>1, <1>2, PTL DEF Spec

\* The type invariant, for every account and every bound.
THEOREM LedgerTypeCorrect == Spec => []TypeOK
  <1>1. LedgerInv => TypeOK
    BY DEF LedgerInv
  <1> QED BY <1>1, LedgerStaysSound, PTL

\* An A-share account that covered its open buy orders after its last snapshot
\* still covers them, up to the fees it has been charged since: what is reserved
\* may exceed the cash, by those fees at most.
THEOREM ReservationsStayCovered == Spec => []ReservationsCovered
  <1>1. LedgerInv => ReservationsCovered
    BY DEF LedgerInv
  <1> QED BY <1>1, LedgerStaysSound, PTL

-------------------------------------------------------------------------------
\* Sums over orders and fills

\* What one order reserves, as the summand Reserving adds up.
Needs(orders, ids) == [id \in ids |-> OrderReserved(orders[id])]

LEMMA ReservingIs ==
  ASSUME NEW orders, NEW ids
  PROVE  Reserving(orders, ids) = SumFunctionOnSet(Needs(orders, ids), ids)
  BY DEF Reserving, Needs, SumFunction

\* Orders that reserve as much as before reserve as much together.
LEMMA ReservingSame ==
  ASSUME NEW orders, NEW new, NEW ids,
         \A id \in ids : OrderReserved(new[id]) = OrderReserved(orders[id])
  PROVE  Reserving(new, ids) = Reserving(orders, ids)
  <1>1. Needs(new, ids) = Needs(orders, ids)
    BY DEF Needs
  <1> QED BY <1>1, ReservingIs

\* One order changed.
LEMMA ReservingChange ==
  ASSUME NEW orders, NEW new, NEW ids, IsFiniteSet(ids), NEW id \in ids,
         \A x \in ids : OrderReserved(orders[x]) \in Int,
         OrderReserved(new[id]) \in Int,
         \A x \in ids \ {id} : new[x] = orders[x]
  PROVE  Reserving(new, ids)
           = Reserving(orders, ids) - OrderReserved(orders[id]) + OrderReserved(new[id])
  <1> DEFINE w == Needs(orders, ids)
             v == Needs(new, ids)
  <1>1. /\ \A x \in ids : w[x] = OrderReserved(orders[x]) /\ v[x] = OrderReserved(new[x])
    BY DEF Needs
  <1> HIDE DEF w, v
  <1>2. /\ \A x \in ids : w[x] \in Int /\ v[x] \in Int
        /\ \A x \in ids \ {id} : w[x] = v[x]
    BY <1>1
  <1>3. SumFunctionOnSet(v, ids) = SumFunctionOnSet(w, ids) - w[id] + v[id]
    BY <1>2, SumChange
  <1> QED BY <1>1, <1>3, ReservingIs DEF w, v

\* One order more.
LEMMA ReservingAdd ==
  ASSUME NEW orders, NEW new, NEW ids, IsFiniteSet(ids), NEW id, id \notin ids,
         \A x \in ids : OrderReserved(orders[x]) \in Int,
         OrderReserved(new[id]) \in Int,
         \A x \in ids : new[x] = orders[x]
  PROVE  Reserving(new, ids \cup {id}) = Reserving(orders, ids) + OrderReserved(new[id])
  <1> DEFINE all == ids \cup {id}
             w == Needs(orders, ids)
             v == Needs(new, all)
  <1>1. /\ \A x \in ids : w[x] = OrderReserved(orders[x]) /\ v[x] = OrderReserved(orders[x])
        /\ v[id] = OrderReserved(new[id])
    BY DEF Needs
  <1> HIDE DEF w, v
  <1>2. SumFunctionOnSet(v, ids) = SumFunctionOnSet(w, ids)
    BY <1>1, SumSame
  <1>3. SumFunctionOnSet(v, all) = SumFunctionOnSet(v, ids) + v[id]
    BY <1>1, SumAdd
  <1> HIDE DEF all
  <1>4. Reserving(new, all) = Reserving(orders, ids) + OrderReserved(new[id])
    BY <1>1, <1>2, <1>3, ReservingIs DEF w, v
  <1> QED BY <1>4 DEF all

\* No order reserves more than all of them.
LEMMA ReservingCovers ==
  ASSUME NEW orders, NEW ids, IsFiniteSet(ids), NEW id \in ids,
         \A x \in ids : OrderReserved(orders[x]) \in Nat
  PROVE  OrderReserved(orders[id]) <= Reserving(orders, ids)
  <1> DEFINE w == Needs(orders, ids)
  <1>1. \A x \in ids : w[x] = OrderReserved(orders[x])
    BY DEF Needs
  <1> HIDE DEF w
  <1>2. \A x \in ids : w[x] <= SumFunctionOnSet(w, ids)
    BY <1>1, SumNat
  <1> QED BY <1>1, <1>2, ReservingIs DEF w

LEMMA ReservingType ==
  ASSUME NEW orders, NEW ids, IsFiniteSet(ids),
         \A x \in ids : OrderReserved(orders[x]) \in Nat
  PROVE  Reserving(orders, ids) \in Nat
  <1> DEFINE w == Needs(orders, ids)
  <1>1. \A x \in ids : w[x] = OrderReserved(orders[x])
    BY DEF Needs
  <1> HIDE DEF w
  <1>2. SumFunctionOnSet(w, ids) \in Nat
    BY <1>1, SumNat
  <1> QED BY <1>2, ReservingIs DEF w

\* Orders that reserve nothing any more release what they reserved together.
LEMMA ReservingSweep ==
  ASSUME NEW orders, NEW new, NEW ids, IsFiniteSet(ids), NEW stale \in SUBSET ids,
         \A x \in ids : OrderReserved(orders[x]) \in Int,
         \A x \in stale : OrderReserved(new[x]) = 0,
         \A x \in ids \ stale : new[x] = orders[x]
  PROVE  Reserving(new, ids) = Reserving(orders, ids) - Reserving(orders, stale)
  <1> DEFINE w == Needs(orders, ids)
             v == Needs(new, ids)
             u == Needs(orders, stale)
             rest == ids \ stale
  <1>1. /\ \A x \in ids : w[x] = OrderReserved(orders[x]) /\ v[x] = OrderReserved(new[x])
        /\ \A x \in stale : u[x] = OrderReserved(orders[x])
    BY DEF Needs
  <1> HIDE DEF w, v, u
  <1>2. /\ \A x \in ids : w[x] \in Int /\ v[x] \in Int
        /\ \A x \in rest : w[x] = v[x]
        /\ \A x \in stale : u[x] = w[x] /\ v[x] = 0
        /\ IsFiniteSet(stale) /\ IsFiniteSet(rest)
    BY <1>1, FS_Subset
  <1>3. /\ SumFunctionOnSet(w, ids) = SumFunctionOnSet(w, stale) + SumFunctionOnSet(w, rest)
        /\ SumFunctionOnSet(v, ids) = SumFunctionOnSet(v, stale) + SumFunctionOnSet(v, rest)
    BY <1>2, SumSplit
  <1>4. SumFunctionOnSet(v, stale) = 0 /\ SumFunctionOnSet(u, stale) = SumFunctionOnSet(w, stale)
    BY <1>2, SumZero, SumSame
  <1>5. SumFunctionOnSet(w, rest) = SumFunctionOnSet(v, rest)
    BY <1>2, SumSame
  <1>6. SumFunctionOnSet(w, rest) \in Int /\ SumFunctionOnSet(w, stale) \in Int
    BY <1>2, SumType
  <1> QED BY <1>3, <1>4, <1>5, <1>6, ReservingIs DEF w, v, u

\* A fill appended to the list.
LEMMA QuantityAppend ==
  ASSUME NEW fills \in Seq(FillType), NEW fill \in FillType,
         NEW some \in SUBSET DOMAIN fills
  PROVE  LET new == Append(fills, fill)
             n == Len(fills) + 1
         IN  /\ Quantity(new, some) = Quantity(fills, some)
             /\ Quantity(new, some \cup {n}) = Quantity(fills, some) + fill.quantity
  <1> DEFINE new == Append(fills, fill)
             n == Len(fills) + 1
             w == [i \in some |-> fills[i].quantity]
             v == [i \in some |-> new[i].quantity]
             u == [i \in some \cup {n} |-> new[i].quantity]
  <1>1. /\ DOMAIN fills = 1 .. Len(fills) /\ Len(fills) \in Nat
        /\ \A i \in DOMAIN fills : fills[i] \in FillType /\ new[i] = fills[i]
        /\ new[n] = fill
    OBVIOUS
  <1>2. IsFiniteSet(some) /\ n \notin some
    <2>1. IsFiniteSet(DOMAIN fills)
      BY <1>1, FS_Interval
    <2> QED BY <1>1, <2>1, FS_Subset
  <1>3. fill.quantity \in Int /\ \A i \in DOMAIN fills : fills[i].quantity \in Int
    BY <1>1 DEF FillType
  <1>4. v = w
    BY <1>1
  <1>5. /\ \A i \in some : u[i] = w[i] /\ w[i] \in Int /\ u[i] \in Int
        /\ u[n] = fill.quantity
    BY <1>1, <1>3
  <1>6. /\ Quantity(fills, some) = SumFunctionOnSet(w, some)
        /\ Quantity(new, some) = SumFunctionOnSet(v, some)
        /\ Quantity(new, some \cup {n}) = SumFunctionOnSet(u, some \cup {n})
    BY DEF Quantity, SumFunction
  <1> HIDE DEF w, v, u, new, n
  <1>7. SumFunctionOnSet(u, some) = SumFunctionOnSet(w, some)
    BY <1>2, <1>5, SumSame
  <1>8. SumFunctionOnSet(u, some \cup {n}) = SumFunctionOnSet(u, some) + u[n]
    BY <1>2, <1>3, <1>5, SumAdd
  <1> QED BY <1>4, <1>5, <1>6, <1>7, <1>8 DEF new, n

LEMMA QuantityType ==
  ASSUME NEW fills \in Seq(FillType), NEW some \in SUBSET DOMAIN fills
  PROVE  Quantity(fills, some) \in Nat
  <1> DEFINE w == [i \in some |-> fills[i].quantity]
  <1>1. IsFiniteSet(some)
    <2>1. DOMAIN fills = 1 .. Len(fills) /\ Len(fills) \in Nat
      OBVIOUS
    <2>2. IsFiniteSet(DOMAIN fills)
      BY <2>1, FS_Interval
    <2> QED BY <2>2, FS_Subset
  <1>2. \A i \in some : w[i] \in Nat
    <2>1. \A i \in some : fills[i] \in FillType
      OBVIOUS
    <2> QED BY <2>1 DEF FillType
  <1>3. Quantity(fills, some) = SumFunctionOnSet(w, some)
    BY DEF Quantity, SumFunction
  <1> HIDE DEF w
  <1> QED BY <1>1, <1>2, <1>3, SumNat

\* Orders keep their side and instrument.
KeepRequests(orders, new) ==
  \A id \in DOMAIN orders :
    /\ id \in DOMAIN new
    /\ new[id].side = orders[id].side /\ new[id].instrument = orders[id].instrument

LEMMA ProceedsSame ==
  ASSUME NEW orders, NEW new, KeepRequests(orders, new),
         NEW fills, \A i \in DOMAIN fills : fills[i].order \in DOMAIN orders
  PROVE  \A n : /\ ProceedsSince(new, fills, n) = ProceedsSince(orders, fills, n)
                /\ \A i : SalesSince(new, fills, n, i) = SalesSince(orders, fills, n, i)
  <1> TAKE n
  <1>1. \A i \in FillsSince(fills, n) :
          /\ new[fills[i].order].side = orders[fills[i].order].side
          /\ new[fills[i].order].instrument = orders[fills[i].order].instrument
    BY DEF FillsSince, KeepRequests
  <1>2. \A i \in FillsSince(fills, n) :
          Proceeds(new[fills[i].order], fills[i]) = Proceeds(orders[fills[i].order], fills[i])
    BY <1>1 DEF Proceeds
  <1>3. [i \in FillsSince(fills, n) |-> Proceeds(new[fills[i].order], fills[i])]
          = [i \in FillsSince(fills, n) |-> Proceeds(orders[fills[i].order], fills[i])]
    BY <1>2
  <1>4. ProceedsSince(new, fills, n) = ProceedsSince(orders, fills, n)
    BY <1>3, Zenon DEF ProceedsSince
  <1>5. ASSUME NEW i PROVE SalesSince(new, fills, n, i) = SalesSince(orders, fills, n, i)
    BY <1>1 DEF SalesSince, IsSaleOf
  <1> QED BY <1>4, <1>5

LEMMA ProceedsType ==
  ASSUME NEW order, NEW fill \in FillType
  PROVE  Proceeds(order, fill) \in Int
  <1>1. fill.quantity \in Int /\ fill.price \in Int /\ fill.fee \in Int
    BY DEF FillType
  <1>2. \A q \in Int, p \in Int : q * p \in Int
    OBVIOUS
  <1>3. (IF order.side = "Buy" THEN 0 - fill.quantity ELSE fill.quantity) \in Int
    BY <1>1
  <1> QED BY <1>1, <1>2, <1>3 DEF Proceeds

LEMMA ProceedsAppend ==
  ASSUME NEW orders, NEW new, KeepRequests(orders, new),
         NEW fills \in Seq(FillType), \A i \in DOMAIN fills : fills[i].order \in DOMAIN orders,
         NEW fill \in FillType, NEW n \in 0 .. Len(fills)
  PROVE  ProceedsSince(new, Append(fills, fill), n)
           = ProceedsSince(orders, fills, n) + Proceeds(new[fill.order], fill)
  <1> DEFINE all == Append(fills, fill)
             last == Len(fills) + 1
             some == FillsSince(fills, n)
             more == FillsSince(all, n)
             w == [i \in some |-> Proceeds(new[fills[i].order], fills[i])]
             v == [i \in more |-> Proceeds(new[all[i].order], all[i])]
  <1>1. /\ DOMAIN fills = 1 .. Len(fills) /\ Len(fills) \in Nat /\ DOMAIN all = 1 .. last
        /\ \A i \in DOMAIN fills : fills[i] \in FillType /\ all[i] = fills[i]
        /\ all[last] = fill
    OBVIOUS
  <1>2. more = some \cup {last} /\ last \notin some /\ some \subseteq DOMAIN fills
    BY <1>1 DEF FillsSince
  <1>3. IsFiniteSet(some)
    <2>1. IsFiniteSet(DOMAIN fills)
      BY <1>1, FS_Interval
    <2> QED BY <1>2, <2>1, FS_Subset
  <1>4. \A i \in some : w[i] \in Int /\ v[i] = w[i]
    BY <1>1, <1>2, ProceedsType
  <1>5. v[last] = Proceeds(new[fill.order], fill) /\ v[last] \in Int
    BY <1>1, <1>2, ProceedsType
  <1>6. ProceedsSince(new, all, n) = SumFunctionOnSet(v, more)
    BY DEF ProceedsSince, SumFunction
  <1>7. ProceedsSince(orders, fills, n) = SumFunctionOnSet(w, some)
    <2>1. ProceedsSince(new, fills, n) = SumFunctionOnSet(w, some)
      BY DEF ProceedsSince, SumFunction
    <2> QED BY <2>1, ProceedsSame
  <1> HIDE DEF w, v, some, more, all, last
  <1>8. SumFunctionOnSet(v, some) = SumFunctionOnSet(w, some)
    BY <1>3, <1>4, SumSame
  <1>9. SumFunctionOnSet(v, some \cup {last}) = SumFunctionOnSet(v, some) + v[last]
    BY <1>2, <1>3, <1>4, <1>5, SumAdd
  <1> QED BY <1>2, <1>5, <1>6, <1>7, <1>8, <1>9 DEF all

-------------------------------------------------------------------------------
\* What explains an account

\* An order is filled by its fills and by nothing else, and its status says so; the
\* provider's orders here have one size and one price.
OrderExplained(l, id) ==
  LET order == l.orders[id]
  IN  /\ id[1] = "order" => order.filled = Quantity(l.fills, FillsOf(l.fills, id))
      /\ order.status = "Filled" => order.filled > 0
      /\ Locally(l) => (order.status = "Filled" <=> order.filled = order.quantity)
      /\ order.status # "Rejected"
      /\ id[1] = "provider-order" => order.quantity = MaxQuantity /\ order.price = 1

\* A fill belongs to a known order, and an identity is not used twice.
FillsKnown == \A i \in DOMAIN ledger.fills : ledger.fills[i].order \in DOMAIN ledger.orders
NextIdUnused ==
  \A n \in Nat : LocalId(n) \in DOMAIN ledger.orders => n < ledger.nextId

\* Shares sold since the snapshot and shares still to sell are those it brought.
SharesFollowSales ==
  Locally(ledger) =>
    \A i \in Instruments :
      ledger.positions[i].sellable
        + Quantity(ledger.fills, SalesSince(ledger.orders, ledger.fills, basis.fills, i))
        = basis.positions[i].sellable

Explained ==
  /\ IsFiniteSet(DOMAIN ledger.orders)
  /\ ReservationsMatchOpenOrders
  /\ \A id \in DOMAIN ledger.orders : OrderExplained(ledger, id)
  /\ FillsKnown /\ NextIdUnused
  /\ basis.fills \in 0 .. Len(ledger.fills)
  /\ CashFollowsFills /\ SharesFollowSales

\* What the open orders need is a natural number each.
LEMMA AllNeeds ==
  ASSUME LedgerInv
  PROVE  \A id \in DOMAIN ledger.orders : OrderReserved(ledger.orders[id]) \in Nat
  BY OrderNeeds DEF LedgerInv, TypeOK, NeverOverfilled

\* Steps that change orders and what they reserve, and nothing else of the account.
LEMMA OrdersStep ==
  ASSUME LedgerInv, Explained,
         ledger'.market = ledger.market, ledger'.cash = ledger.cash,
         ledger'.positions = ledger.positions, ledger'.fills = ledger.fills,
         UNCHANGED <<basis, fees>>,
         KeepRequests(ledger.orders, ledger'.orders),
         IsFiniteSet(DOMAIN ledger'.orders),
         ReservationsMatchOpenOrders',
         \A id \in DOMAIN ledger'.orders : OrderExplained(ledger', id),
         NextIdUnused'
  PROVE  Explained'
  <1>1. FillsKnown'
    BY DEF Explained, FillsKnown, KeepRequests
  <1>2. \A n : /\ ProceedsSince(ledger'.orders, ledger.fills, n)
                   = ProceedsSince(ledger.orders, ledger.fills, n)
               /\ \A i : SalesSince(ledger'.orders, ledger.fills, n, i)
                           = SalesSince(ledger.orders, ledger.fills, n, i)
    BY ProceedsSame DEF Explained, FillsKnown
  <1>3. CashFollowsFills'
    BY <1>2 DEF Explained, CashFollowsFills, Locally
  <1>4. SharesFollowSales'
    BY <1>2 DEF Explained, SharesFollowSales, Locally
  <1> QED BY <1>1, <1>3, <1>4 DEF Explained

-------------------------------------------------------------------------------
\* One lemma per action: the account stays explained

LEMMA SubmitExplains == ASSUME LedgerInv, Explained, SubmitOrder PROVE Explained'
  <1> USE LedgerAssumption
  <1>1. PICK i \in Instruments, side \in Sides, quantity \in 1 .. MaxQuantity,
             price \in 1 .. MaxPrice :
          LET order == Order(i, side, quantity, 0, price, "Accepted")
          IN  /\ ledger' = Submit(ledger, order)
              /\ UNCHANGED <<basis, fees>>
    BY DEF SubmitOrder
  <1> DEFINE id == LocalId(ledger.nextId)
             order == Order(i, side, quantity, 0, price, "Accepted")
             orders == Put(ledger.orders, id, order)
             ids == DOMAIN ledger.orders
  <1>2. [order EXCEPT !.filled = 0, !.status = "Accepted"] = order
    <2>1. [order EXCEPT !.filled = 0] = order /\ [order EXCEPT !.status = "Accepted"] = order
      BY DEF Order
    <2> HIDE DEF order
    <2> QED BY <2>1, Zenon
  <1>3. ledger' = [ledger EXCEPT !.reserved = IF side = "Buy" THEN @ + quantity * price ELSE @,
                                 !.orders = orders, !.nextId = @ + 1]
    <2>1. order.side = side /\ order.quantity = quantity /\ order.price = price
      BY DEF Order
    <2> HIDE DEF order
    <2> QED BY <1>1, <1>2, <2>1, Zenon DEF Submit, order
  <1>4. /\ order.side = side /\ order.quantity = quantity /\ order.price = price
        /\ order.filled = 0 /\ order.status = "Accepted"
    BY DEF Order
  <1> HIDE DEF order, orders
  <1>5. /\ ledger'.market = ledger.market /\ ledger'.cash = ledger.cash
        /\ ledger'.positions = ledger.positions /\ ledger'.fills = ledger.fills
        /\ ledger'.nextId = ledger.nextId + 1 /\ ledger'.orders = orders
        /\ ledger'.reserved = IF side = "Buy" THEN ledger.reserved + quantity * price
                                              ELSE ledger.reserved
    BY <1>3 DEF LedgerInv, Fields
  <1>6. UNCHANGED <<basis, fees>>
    BY <1>1
  <1>7. id \notin ids /\ ledger.nextId \in Nat /\ IsFiniteSet(ids)
    BY DEF Explained, NextIdUnused, LedgerInv, TypeOK
  <1>8. /\ DOMAIN orders = ids \cup {id} /\ orders[id] = order
        /\ \A x \in ids : orders[x] = ledger.orders[x]
    BY <1>7 DEF orders, Put
  <1>9. KeepRequests(ledger.orders, orders) /\ IsFiniteSet(DOMAIN orders)
    BY <1>7, <1>8, FS_AddElement DEF KeepRequests
  <1>10. OrderReserved(order) = IF side = "Buy" THEN quantity * price ELSE 0
    BY <1>4 DEF OrderReserved, IsOpen, OpenStatuses
  <1>11. ReservationsMatchOpenOrders'
    <2>1. OrderReserved(order) \in Int
      BY <1>10
    <2>2. Reserving(orders, ids \cup {id}) = Reserving(ledger.orders, ids) + OrderReserved(order)
      BY <1>7, <1>8, <2>1, AllNeeds, ReservingAdd
    <2>3. Reserving(ledger.orders, ids) \in Int /\ quantity * price \in Int
      BY <1>7, AllNeeds, ReservingType
    <2>4. ledger.reserved = Reserving(ledger.orders, ids)
      BY DEF Explained, ReservationsMatchOpenOrders
    <2> QED BY <1>5, <1>8, <1>10, <2>2, <2>3, <2>4 DEF ReservationsMatchOpenOrders
  <1>12. ASSUME NEW x \in DOMAIN orders PROVE OrderExplained(ledger', x)
    <2>1. CASE x \in ids
      BY <1>5, <1>8, <2>1 DEF Explained, OrderExplained, Locally
    <2>2. CASE x = id
      <3>1. FillsOf(ledger.fills, id) = {}
        BY <1>7 DEF FillsOf, Explained, FillsKnown
      <3>2. Quantity(ledger.fills, {}) = 0
        BY SumEmpty DEF Quantity, SumFunction
      <3>3. id[1] = "order"
        BY DEF LocalId
      <3> HIDE DEF id
      <3> QED BY <1>4, <1>5, <1>8, <2>2, <3>1, <3>2, <3>3 DEF OrderExplained
    <2> QED BY <1>8, <2>1, <2>2
  <1>13. NextIdUnused'
    <2>1. \A n \in Nat : LocalId(n) = id => n = ledger.nextId
      BY DEF LocalId
    <2> QED BY <1>5, <1>7, <1>8, <2>1 DEF NextIdUnused, Explained
  <1> QED BY <1>5, <1>6, <1>9, <1>11, <1>12, <1>13, OrdersStep

\* An existing order changed in a step that has no fill.
LEMMA ChangeExplains ==
  ASSUME LedgerInv, Explained, NEW id \in DOMAIN ledger.orders, NEW order \in OrderType,
         order.filled <= order.quantity,
         ledger'.market = ledger.market, ledger'.cash = ledger.cash,
         ledger'.positions = ledger.positions, ledger'.fills = ledger.fills,
         ledger'.nextId = ledger.nextId, UNCHANGED <<basis, fees>>,
         ledger'.orders = [ledger.orders EXCEPT ![id] = order],
         ledger'.reserved = ledger.reserved - OrderReserved(ledger.orders[id])
                              + OrderReserved(order),
         order.side = ledger.orders[id].side,
         order.instrument = ledger.orders[id].instrument,
         OrderExplained(ledger', id)
  PROVE  Explained'
  <1> DEFINE ids == DOMAIN ledger.orders
  <1>1. /\ DOMAIN ledger'.orders = ids /\ ledger'.orders[id] = order
        /\ \A x \in ids \ {id} : ledger'.orders[x] = ledger.orders[x]
    OBVIOUS
  <1>2. KeepRequests(ledger.orders, ledger'.orders) /\ IsFiniteSet(ids)
    BY <1>1 DEF KeepRequests, Explained
  <1>3. ReservationsMatchOpenOrders'
    <2>1. OrderReserved(order) \in Nat
      BY OrderNeeds
    <2>2. Reserving(ledger'.orders, ids) = Reserving(ledger.orders, ids)
            - OrderReserved(ledger.orders[id]) + OrderReserved(order)
      BY <1>1, <1>2, <2>1, AllNeeds, ReservingChange
    <2> QED BY <1>1, <2>2 DEF Explained, ReservationsMatchOpenOrders
  <1>4. ASSUME NEW x \in DOMAIN ledger'.orders PROVE OrderExplained(ledger', x)
    <2>1. CASE x = id
      BY <2>1
    <2>2. CASE x # id
      BY <1>1, <2>2 DEF Explained, OrderExplained, Locally
    <2> QED BY <2>1, <2>2
  <1>5. NextIdUnused'
    BY <1>1 DEF NextIdUnused, Explained
  <1> QED BY <1>1, <1>2, <1>3, <1>4, <1>5, OrdersStep

LEMMA CancelExplains == ASSUME LedgerInv, Explained, CancelOrder PROVE Explained'
  <1>1. PICK n \in 1 .. MaxOrders : /\ CanCancel(ledger, LocalId(n))
                                    /\ ledger' = Cancel(ledger, LocalId(n))
                                    /\ UNCHANGED <<basis, fees>>
    BY DEF CancelOrder
  <1> DEFINE id == LocalId(n)
             old == ledger.orders[id]
             new == [old EXCEPT !.status = "Cancelled"]
  <1>2. id \in DOMAIN ledger.orders /\ IsOpen(old) /\ old \in OrderType
        /\ old.filled <= old.quantity
    BY <1>1 DEF CanCancel, LedgerInv, TypeOK, NeverOverfilled
  <1>3. /\ ledger'.market = ledger.market /\ ledger'.cash = ledger.cash
        /\ ledger'.positions = ledger.positions /\ ledger'.fills = ledger.fills
        /\ ledger'.nextId = ledger.nextId
        /\ ledger'.orders = [ledger.orders EXCEPT ![id].status = "Cancelled"]
        /\ ledger'.reserved = ledger.reserved - OrderReserved(old)
    BY <1>1 DEF LedgerInv, Fields, Cancel
  <1>4. ledger'.orders = [ledger.orders EXCEPT ![id] = new]
    BY <1>3, Zenon
  <1>5. /\ new \in OrderType /\ new.filled = old.filled /\ new.quantity = old.quantity
        /\ new.side = old.side /\ new.instrument = old.instrument /\ new.price = old.price
        /\ new.status = "Cancelled"
    <2> HIDE DEF old
    <2> QED BY <1>2 DEF OrderType, Statuses
  <1> HIDE DEF id, old, new
  <1>6. OrderReserved(new) = 0 /\ OrderReserved(old) \in Nat
    BY <1>2, <1>5, OrderNeeds DEF OrderReserved, IsOpen, OpenStatuses
  <1>7. OrderExplained(ledger', id)
    <2>1. OrderExplained(ledger, id) /\ ledger'.orders[id] = new
      BY <1>2, <1>4 DEF Explained
    <2>2. old.status # "Filled"
      BY <1>2 DEF IsOpen, OpenStatuses
    <2> QED BY <1>3, <1>5, <2>1, <2>2 DEF OrderExplained, Locally, old
  <1>8. ledger.reserved \in Int
    BY AllNeeds, ReservingType DEF Explained, ReservationsMatchOpenOrders
  <1>9. ledger'.reserved = ledger.reserved - OrderReserved(ledger.orders[id]) + OrderReserved(new)
    BY <1>3, <1>6, <1>8 DEF old
  <1>10. UNCHANGED <<basis, fees>>
    BY <1>1
  <1>11. /\ id \in DOMAIN ledger.orders /\ new.filled <= new.quantity
         /\ new.side = ledger.orders[id].side /\ new.instrument = ledger.orders[id].instrument
    BY <1>2, <1>5 DEF old
  <1> QED BY <1>3, <1>4, <1>5, <1>7, <1>9, <1>10, <1>11, ChangeExplains

LEMMA TrustExplains == ASSUME LedgerInv, Explained, LoseTrust PROVE Explained'
  <1>1. /\ ledger'.market = ledger.market /\ ledger'.cash = ledger.cash
        /\ ledger'.positions = ledger.positions /\ ledger'.fills = ledger.fills
        /\ ledger'.nextId = ledger.nextId /\ ledger'.orders = ledger.orders
        /\ ledger'.reserved = ledger.reserved /\ UNCHANGED <<basis, fees>>
    BY DEF LoseTrust, RequireReconciliation, LedgerInv, Fields
  <1>2. KeepRequests(ledger.orders, ledger.orders)
    BY DEF KeepRequests
  <1> QED BY <1>1, <1>2, OrdersStep
          DEF Explained, ReservationsMatchOpenOrders, OrderExplained, Locally, NextIdUnused

\* A snapshot starts a new account of fills and sales.
LEMMA ReconcileExplains == ASSUME LedgerInv, LedgerInv', Explained, ReconcileAccount
                           PROVE  Explained'
  <1>1. PICK snapshot \in Snapshots : /\ ledger' = Reconcile(ledger, snapshot)
                                      /\ basis' = BasisOf(ledger')
    BY DEF ReconcileAccount
  <1>2. /\ ledger'.market = ledger.market /\ ledger'.fills = ledger.fills
        /\ ledger'.nextId = ledger.nextId /\ ledger'.orders = ledger.orders
        /\ ledger'.reserved = ledger.reserved
    BY <1>1 DEF Reconcile, LedgerInv, Fields
  <1>3. /\ basis'.cash = ledger'.cash /\ basis'.positions = ledger'.positions
        /\ basis'.fills = Len(ledger.fills)
    BY <1>1, <1>2 DEF BasisOf
  <1>4. FillsSince(ledger.fills, Len(ledger.fills)) = {}
    BY DEF FillsSince, LedgerInv, TypeOK
  <1>5. CashFollowsFills'
    <2>1. ProceedsSince(ledger'.orders, ledger'.fills, basis'.fills) = 0
      BY <1>2, <1>3, <1>4, SumEmpty DEF ProceedsSince, SumFunction
    <2>2. ledger'.cash \in Nat
      BY DEF LedgerInv, TypeOK
    <2> QED BY <1>3, <2>1, <2>2 DEF CashFollowsFills
  <1>6. SharesFollowSales'
    <2>1. \A i : Quantity(ledger'.fills, SalesSince(ledger'.orders, ledger'.fills, basis'.fills, i)) = 0
      <3>1. \A i : SalesSince(ledger'.orders, ledger'.fills, basis'.fills, i) = {}
        BY <1>2, <1>3, <1>4 DEF SalesSince
      <3> QED BY <3>1, SumEmpty DEF Quantity, SumFunction
    <2>2. \A i \in Instruments : ledger'.positions[i].sellable \in Nat
      BY DEF LedgerInv, TypeOK, PositionType
    <2> QED BY <1>3, <2>1, <2>2 DEF SharesFollowSales
  <1>7. basis'.fills \in 0 .. Len(ledger'.fills)
    BY <1>2, <1>3 DEF LedgerInv, TypeOK
  <1>8. \A id \in DOMAIN ledger'.orders : OrderExplained(ledger', id)
    BY <1>2 DEF Explained, OrderExplained, Locally
  <1>9. ReservationsMatchOpenOrders' /\ FillsKnown' /\ NextIdUnused'
    BY <1>2 DEF Explained, ReservationsMatchOpenOrders, FillsKnown, NextIdUnused
  <1> QED BY <1>2, <1>5, <1>6, <1>7, <1>8, <1>9 DEF Explained

\* An order brought by the provider, known before or not.
LEMMA UpsertExplains ==
  ASSUME LedgerInv, Explained, NEW id \in OrderIds, NEW order \in OrderType,
         order.filled <= order.quantity, ~Locally(ledger),
         ledger' = Upsert(ledger, id, order), UNCHANGED <<basis, fees>>,
         id \in DOMAIN ledger.orders =>
           /\ order.side = ledger.orders[id].side
           /\ order.instrument = ledger.orders[id].instrument,
         id \notin DOMAIN ledger.orders => id[1] = "provider-order",
         id[1] = "order" => order.filled = Quantity(ledger.fills, FillsOf(ledger.fills, id)),
         order.status = "Filled" => order.filled > 0, order.status # "Rejected",
         id[1] = "provider-order" => order.quantity = MaxQuantity /\ order.price = 1
  PROVE  Explained'
  <1> DEFINE ids == DOMAIN ledger.orders
             orders == Put(ledger.orders, id, order)
             previous == IF id \in ids THEN OrderReserved(ledger.orders[id]) ELSE 0
  <1>1. ledger' = [ledger EXCEPT !.reserved = @ - previous + OrderReserved(order),
                                 !.orders = orders]
    BY Zenon DEF Upsert
  <1> HIDE DEF orders, previous
  <1>2. /\ ledger'.market = ledger.market /\ ledger'.cash = ledger.cash
        /\ ledger'.positions = ledger.positions /\ ledger'.fills = ledger.fills
        /\ ledger'.nextId = ledger.nextId /\ ledger'.orders = orders
        /\ ledger'.reserved = ledger.reserved - previous + OrderReserved(order)
    BY <1>1 DEF LedgerInv, Fields
  <1>3. /\ DOMAIN orders = ids \cup {id} /\ orders[id] = order
        /\ \A x \in ids : x # id => orders[x] = ledger.orders[x]
    BY DEF orders, Put
  <1>4. OrderExplained(ledger', id)
    BY <1>2, <1>3 DEF OrderExplained, Locally
  <1>5. CASE id \in ids
    <2>1. ledger'.orders = [ledger.orders EXCEPT ![id] = order]
      BY <1>2, <1>5 DEF orders, Put, LedgerInv, TypeOK
    <2>2. ledger'.reserved = ledger.reserved - OrderReserved(ledger.orders[id])
                               + OrderReserved(order)
      BY <1>2, <1>5 DEF previous
    <2> QED BY <1>2, <1>4, <1>5, <2>1, <2>2, ChangeExplains
  <1>6. CASE id \notin ids
    <2>1. KeepRequests(ledger.orders, orders)
      BY <1>3, <1>6 DEF KeepRequests
    <2>2. IsFiniteSet(ids) /\ IsFiniteSet(DOMAIN orders)
      BY <1>3, FS_AddElement DEF Explained
    <2>3. ReservationsMatchOpenOrders'
      <3>1. OrderReserved(order) \in Nat
        BY OrderNeeds
      <3>2. Reserving(orders, ids \cup {id}) = Reserving(ledger.orders, ids) + OrderReserved(order)
        BY <1>3, <1>6, <2>2, <3>1, AllNeeds, ReservingAdd
      <3>3. Reserving(ledger.orders, ids) \in Int
        BY <2>2, AllNeeds, ReservingType
      <3>4. ledger.reserved = Reserving(ledger.orders, ids) /\ previous = 0
        BY <1>6 DEF Explained, ReservationsMatchOpenOrders, previous
      <3>5. ledger'.reserved = Reserving(ledger'.orders, DOMAIN ledger'.orders)
        BY <1>2, <1>3, <3>1, <3>2, <3>3, <3>4
      <3> QED BY <3>5 DEF ReservationsMatchOpenOrders
    <2>4. ASSUME NEW x \in DOMAIN orders PROVE OrderExplained(ledger', x)
      <3>1. CASE x = id
        BY <1>4, <3>1
      <3>2. CASE x # id
        <4>1. OrderExplained(ledger, x) /\ orders[x] = ledger.orders[x]
          BY <1>3, <2>4, <3>2 DEF Explained
        <4> QED BY <1>2, <4>1 DEF OrderExplained, Locally
      <3> QED BY <3>1, <3>2
    <2>5. NextIdUnused'
      <3>1. \A n \in Nat : LocalId(n) # id
        BY <1>6 DEF LocalId
      <3> QED BY <1>2, <1>3, <3>1 DEF Explained, NextIdUnused
    <2> QED BY <1>2, <2>1, <2>2, <2>3, <2>4, <2>5, OrdersStep
  <1> QED BY <1>5, <1>6

LEMMA ImportExplains == ASSUME LedgerInv, Explained, ImportOpenOrder PROVE Explained'
  <1> USE LedgerAssumption
  <1>1. PICK p \in 1 .. MaxImports, i \in Instruments, side \in Sides,
             filled \in 0 .. MaxQuantity :
          LET id == ImportedId(p)
              status == IF filled = MaxQuantity THEN "Filled"
                        ELSE IF filled > 0 THEN "PartiallyFilled" ELSE "Accepted"
              order == Order(i, side, MaxQuantity, filled, 1, status)
          IN  /\ ~Locally(ledger) /\ CanUpsert(order)
              /\ id \in DOMAIN ledger.orders =>
                   ledger.orders[id].instrument = i /\ ledger.orders[id].side = side
              /\ ledger' = Upsert(ledger, id, order)
              /\ UNCHANGED <<basis, fees>>
    BY DEF ImportOpenOrder
  <1> DEFINE id == ImportedId(p)
             status == IF filled = MaxQuantity THEN "Filled"
                       ELSE IF filled > 0 THEN "PartiallyFilled" ELSE "Accepted"
             order == Order(i, side, MaxQuantity, filled, 1, status)
  <1>2. /\ order.instrument = i /\ order.side = side /\ order.quantity = MaxQuantity
        /\ order.filled = filled /\ order.price = 1 /\ order.status = status
    BY DEF Order
  <1>3. MaxQuantity > 0 /\ filled \in 0 .. MaxQuantity
    BY <1>1, <1>2 DEF CanUpsert
  <1>4. status \in Statuses /\ status # "Rejected" /\ (status = "Filled" => filled > 0)
    BY <1>3 DEF Statuses, OpenStatuses
  <1>5. order \in OrderType
    <2> HIDE DEF status
    <2> QED BY <1>3, <1>4 DEF Order, OrderType
  <1>6. id \in OrderIds /\ id[1] = "provider-order"
    BY Ids DEF ImportedId
  <1> HIDE DEF id, status, order
  <1>7. /\ ~Locally(ledger) /\ ledger' = Upsert(ledger, id, order) /\ UNCHANGED <<basis, fees>>
        /\ id \in DOMAIN ledger.orders =>
             ledger.orders[id].instrument = i /\ ledger.orders[id].side = side
    BY <1>1 DEF id, status, order
  <1> QED BY <1>2, <1>3, <1>4, <1>5, <1>6, <1>7, UpsertExplains

LEMMA FinaliseExplains == ASSUME LedgerInv, Explained, FinaliseOrder PROVE Explained'
  <1> USE LedgerAssumption
  <1>1. PICK n \in 1 .. MaxOrders :
          /\ ~Locally(ledger)
          /\ LocalId(n) \in DOMAIN ledger.orders /\ ledger.orders[LocalId(n)].filled > 0
          /\ ledger' = Upsert(ledger, LocalId(n),
                              [ledger.orders[LocalId(n)] EXCEPT !.status = "Filled"])
          /\ UNCHANGED <<basis, fees>>
    BY DEF FinaliseOrder
  <1> DEFINE id == LocalId(n)
             old == ledger.orders[id]
             new == [old EXCEPT !.status = "Filled"]
  <1>2. /\ old \in OrderType /\ old.filled <= old.quantity /\ id \in OrderIds
        /\ id[1] = "order"
    BY <1>1 DEF LedgerInv, TypeOK, NeverOverfilled, LocalId
  <1>3. OrderExplained(ledger, id)
    BY <1>1 DEF Explained
  <1>4. /\ new \in OrderType /\ new.filled = old.filled /\ new.quantity = old.quantity
        /\ new.side = old.side /\ new.instrument = old.instrument /\ new.status = "Filled"
    <2> HIDE DEF old
    <2> QED BY <1>2 DEF OrderType, Statuses
  <1>5. old.filled = Quantity(ledger.fills, FillsOf(ledger.fills, id))
    BY <1>2, <1>3 DEF OrderExplained
  <1>6. /\ ~Locally(ledger) /\ id \in DOMAIN ledger.orders /\ old.filled > 0
        /\ ledger' = Upsert(ledger, id, new) /\ UNCHANGED <<basis, fees>>
    BY <1>1
  <1> HIDE DEF new, id
  <1>7. new.side = ledger.orders[id].side /\ new.instrument = ledger.orders[id].instrument
    BY <1>4
  <1> HIDE DEF old
  <1> QED BY <1>2, <1>4, <1>5, <1>6, <1>7, UpsertExplains

LEMMA ReinstateExplains == ASSUME LedgerInv, Explained, ReinstateOrder PROVE Explained'
  <1> USE LedgerAssumption
  <1>1. PICK n \in 1 .. MaxOrders : /\ CanReinstate(ledger, LocalId(n))
                                    /\ ledger' = Reinstate(ledger, LocalId(n))
                                    /\ UNCHANGED <<basis, fees>>
    BY DEF ReinstateOrder
  <1> DEFINE id == LocalId(n)
             old == ledger.orders[id]
             new == [old EXCEPT !.status = "Accepted"]
  <1>2. /\ id \in DOMAIN ledger.orders /\ old.status = "Cancelled" /\ old.filled = 0
        /\ old \in OrderType /\ ~Locally(ledger)
    BY <1>1 DEF CanReinstate, LedgerInv, TypeOK
  <1>3. /\ ledger'.market = ledger.market /\ ledger'.cash = ledger.cash
        /\ ledger'.positions = ledger.positions /\ ledger'.fills = ledger.fills
        /\ ledger'.nextId = ledger.nextId
        /\ ledger'.orders = [ledger.orders EXCEPT ![id].status = "Accepted"]
        /\ ledger'.reserved = IF old.side = "Buy" THEN ledger.reserved + old.quantity * old.price
                                                  ELSE ledger.reserved
    BY <1>1 DEF LedgerInv, Fields, Reinstate
  <1>4. ledger'.orders = [ledger.orders EXCEPT ![id] = new]
    BY <1>3, Zenon
  <1>5. /\ new \in OrderType /\ new.filled = 0 /\ new.quantity = old.quantity
        /\ new.side = old.side /\ new.instrument = old.instrument /\ new.price = old.price
        /\ new.status = "Accepted"
    <2> HIDE DEF old
    <2> QED BY <1>2 DEF OrderType, Statuses, OpenStatuses
  <1> HIDE DEF id, old, new
  <1>6. OrderReserved(old) = 0
    BY <1>2 DEF OrderReserved, IsOpen, OpenStatuses
  <1>7. OrderReserved(new) = IF old.side = "Buy" THEN old.quantity * old.price ELSE 0
    <2>1. old.quantity - 0 = old.quantity
      BY <1>2 DEF OrderType
    <2>2. OrderReserved(new) = IF old.side = "Buy" THEN (old.quantity - 0) * old.price ELSE 0
      BY <1>5, Zenon DEF OrderReserved, IsOpen, OpenStatuses
    <2> QED BY <2>1, <2>2
  <1>8. OrderExplained(ledger', id)
    <2>1. OrderExplained(ledger, id) /\ ledger'.orders[id] = new
      BY <1>2, <1>4 DEF Explained
    <2> QED BY <1>2, <1>3, <1>5, <2>1 DEF OrderExplained, Locally, old
  <1>9. ledger'.reserved = ledger.reserved - OrderReserved(ledger.orders[id]) + OrderReserved(new)
    <2>1. ledger.reserved \in Int
      BY AllNeeds, ReservingType DEF Explained, ReservationsMatchOpenOrders
    <2>2. old.quantity * old.price \in Int
      BY <1>2 DEF OrderType
    <2>3. ledger'.reserved = ledger.reserved - OrderReserved(old) + OrderReserved(new)
      BY <1>3, <1>6, <1>7, <2>1, <2>2
    <2> QED BY <2>3 DEF old
  <1>10. new.filled <= new.quantity
    BY <1>5 DEF OrderType
  <1>11. /\ id \in DOMAIN ledger.orders /\ UNCHANGED <<basis, fees>>
         /\ new.side = ledger.orders[id].side /\ new.instrument = ledger.orders[id].instrument
    BY <1>1, <1>2, <1>5 DEF old
  <1> QED BY <1>3, <1>4, <1>5, <1>8, <1>9, <1>10, <1>11, ChangeExplains

LEMMA SweepExplains == ASSUME LedgerInv, Explained, SweepMissing PROVE Explained'
  <1>1. PICK active \in SUBSET DOMAIN ledger.orders :
          /\ ~Locally(ledger)
          /\ ledger' = CancelMissing(ledger, active)
          /\ UNCHANGED <<basis, fees>>
    BY DEF SweepMissing
  <1> DEFINE ids == DOMAIN ledger.orders
             stale == {id \in ids \ active : IsOpen(ledger.orders[id])}
             Swept(order) == [order EXCEPT !.status = "Cancelled"]
             orders == [id \in ids |-> IF id \in stale THEN Swept(ledger.orders[id])
                                                       ELSE ledger.orders[id]]
  <1>2. ledger' = [ledger EXCEPT !.reserved = @ - Reserving(ledger.orders, stale),
                                 !.orders = orders]
    BY <1>1, Zenon DEF CancelMissing
  <1>3. stale \in SUBSET ids /\ \A id \in stale : ledger.orders[id].status # "Filled"
    BY DEF IsOpen, OpenStatuses
  <1> HIDE DEF stale
  <1>4. ASSUME NEW old \in OrderType
        PROVE  /\ Swept(old).side = old.side /\ Swept(old).instrument = old.instrument
               /\ Swept(old).quantity = old.quantity /\ Swept(old).filled = old.filled
               /\ Swept(old).price = old.price /\ Swept(old).status = "Cancelled"
    BY DEF OrderType
  <1>5. \A id \in ids : ledger.orders[id] \in OrderType
    BY DEF LedgerInv, TypeOK
  <1>6. /\ DOMAIN orders = ids
        /\ \A id \in ids \ stale : orders[id] = ledger.orders[id]
        /\ \A id \in stale : orders[id] = Swept(ledger.orders[id])
    BY <1>3
  <1> HIDE DEF orders, Swept
  <1>7. /\ \A id \in ids :
             /\ orders[id].side = ledger.orders[id].side
             /\ orders[id].instrument = ledger.orders[id].instrument
             /\ orders[id].quantity = ledger.orders[id].quantity
             /\ orders[id].filled = ledger.orders[id].filled
             /\ orders[id].price = ledger.orders[id].price
        /\ \A id \in stale : orders[id].status = "Cancelled"
    BY <1>3, <1>4, <1>5, <1>6
  <1>8. /\ ledger'.market = ledger.market /\ ledger'.cash = ledger.cash
        /\ ledger'.positions = ledger.positions /\ ledger'.fills = ledger.fills
        /\ ledger'.nextId = ledger.nextId /\ ledger'.orders = orders
        /\ ledger'.reserved = ledger.reserved - Reserving(ledger.orders, stale)
    BY <1>2 DEF LedgerInv, Fields
  <1>9. KeepRequests(ledger.orders, orders) /\ IsFiniteSet(ids)
    BY <1>6, <1>7 DEF KeepRequests, Explained
  <1>10. ReservationsMatchOpenOrders'
    <2>1. \A id \in stale : OrderReserved(orders[id]) = 0
      BY <1>7 DEF OrderReserved, IsOpen, OpenStatuses
    <2>2. Reserving(orders, ids) = Reserving(ledger.orders, ids) - Reserving(ledger.orders, stale)
      BY <1>3, <1>6, <1>9, <2>1, AllNeeds, ReservingSweep
    <2> QED BY <1>6, <1>8, <2>2 DEF Explained, ReservationsMatchOpenOrders
  <1>11. ASSUME NEW id \in DOMAIN orders PROVE OrderExplained(ledger', id)
    <2>1. OrderExplained(ledger, id) /\ id \in ids
      BY <1>6 DEF Explained
    <2>2. CASE id \notin stale
      BY <1>6, <1>8, <2>1, <2>2 DEF OrderExplained, Locally
    <2>3. CASE id \in stale
      BY <1>1, <1>7, <1>8, <2>1, <2>3 DEF OrderExplained, Locally
    <2> QED BY <2>2, <2>3
  <1>12. NextIdUnused'
    BY <1>6, <1>8 DEF NextIdUnused, Explained
  <1> QED BY <1>1, <1>6, <1>8, <1>9, <1>10, <1>11, <1>12, OrdersStep

\* What a fill makes of its order.
LEMMA FilledOrderIs ==
  ASSUME NEW order \in OrderType, NEW fill \in FillType,
         order.filled + fill.quantity <= order.quantity
  PROVE  LET new == FilledOrder(order, fill)
         IN  /\ new.side = order.side /\ new.instrument = order.instrument
             /\ new.quantity = order.quantity /\ new.price = order.price
             /\ new.filled = order.filled + fill.quantity
             /\ new.status = IF order.filled + fill.quantity = order.quantity
                               THEN "Filled" ELSE "PartiallyFilled"
  <1> DEFINE filled == order.filled + fill.quantity
             status == IF filled = order.quantity THEN "Filled" ELSE "PartiallyFilled"
             half == [order EXCEPT !.filled = filled]
             new == FilledOrder(order, fill)
  <1>1. new = [half EXCEPT !.status = status]
    BY Zenon DEF FilledOrder
  <1> HIDE DEF filled, status, new
  <1>2. /\ half.side = order.side /\ half.instrument = order.instrument
        /\ half.quantity = order.quantity /\ half.price = order.price
        /\ half.filled = filled
        /\ DOMAIN half = {"instrument", "side", "quantity", "filled", "price", "status"}
    BY DEF OrderType
  <1> HIDE DEF half
  <1>3. /\ new.side = order.side /\ new.instrument = order.instrument
        /\ new.quantity = order.quantity /\ new.price = order.price
        /\ new.filled = filled /\ new.status = status
    BY <1>1, <1>2
  <1> QED BY <1>3 DEF filled, status, new

\* What the filled order reserves is what the code leaves reserved for it.
LEMMA FilledNeeds ==
  ASSUME NEW order \in OrderType, NEW fill \in FillType, IsOpen(order),
         order.filled + fill.quantity <= order.quantity,
         NEW l, l.reserved \in Int, OrderReserved(order) <= l.reserved
  PROVE  FilledReserved(l, order, fill)
           = l.reserved - OrderReserved(order) + OrderReserved(FilledOrder(order, fill))
  <1> DEFINE new == FilledOrder(order, fill)
             rest == order.quantity - order.filled - fill.quantity
  <1>1. /\ order.quantity \in Nat /\ order.filled \in Nat /\ order.price \in Nat
        /\ fill.quantity \in Nat /\ order.side \in Sides
    BY DEF OrderType, FillType
  <1>2. rest \in Nat /\ rest = order.quantity - (order.filled + fill.quantity)
    BY <1>1
  <1>3. /\ new.side = order.side /\ new.quantity - new.filled = rest
        /\ new.price = order.price
        /\ IsOpen(new) <=> rest # 0
    BY <1>1, <1>2, FilledOrderIs DEF IsOpen, OpenStatuses
  <1>4. OrderReserved(new) = IF order.side = "Buy" THEN rest * order.price ELSE 0
    <2> HIDE DEF new, rest
    <2>1. CASE rest = 0
      BY <1>1, <1>3, <2>1 DEF OrderReserved
    <2>2. CASE rest # 0
      BY <1>3, <2>2 DEF OrderReserved
    <2> QED BY <2>1, <2>2
  <1>5. CASE order.side = "Sell"
    <2>1. OrderReserved(order) = 0
      BY <1>5 DEF OrderReserved
    <2> HIDE DEF new, rest
    <2> QED BY <1>4, <1>5, <2>1 DEF FilledReserved, new
  <1>6. CASE order.side = "Buy"
    <2>1. FilledReserved(l, order, fill) = l.reserved - OrderReserved(order) + rest * order.price
      BY <1>6 DEF FilledReserved
    <2> HIDE DEF rest
    <2> QED BY <1>4, <1>6, <2>1
  <1> QED BY <1>1, <1>5, <1>6 DEF Sides

LEMMA SinceType ==
  ASSUME NEW orders, NEW fills \in Seq(FillType), NEW n
  PROVE  ProceedsSince(orders, fills, n) \in Int
  <1> DEFINE some == FillsSince(fills, n)
             w == [i \in some |-> Proceeds(orders[fills[i].order], fills[i])]
  <1>1. IsFiniteSet(some)
    <2>1. DOMAIN fills = 1 .. Len(fills) /\ Len(fills) \in Nat
      OBVIOUS
    <2>2. IsFiniteSet(DOMAIN fills) /\ some \subseteq DOMAIN fills
      BY <2>1, FS_Interval DEF FillsSince
    <2> QED BY <2>2, FS_Subset
  <1>2. \A i \in some : w[i] \in Int
    <2>1. \A i \in some : fills[i] \in FillType
      BY DEF FillsSince
    <2> QED BY <2>1, ProceedsType
  <1>3. ProceedsSince(orders, fills, n) = SumFunctionOnSet(w, some)
    BY DEF ProceedsSince, SumFunction
  <1> HIDE DEF w, some
  <1> QED BY <1>1, <1>2, <1>3, SumType

LEMMA FillExplains == ASSUME LedgerInv, Explained, FillOrder PROVE Explained'
  <1> USE LedgerAssumption
  <1>1. PICK n \in 1 .. MaxOrders, quantity \in 1 .. MaxQuantity,
             price \in 1 .. MaxPrice, fee \in 0 .. MaxFee, baseFee \in 0 .. MaxFee,
             limited \in BOOLEAN :
          LET fill == [order |-> LocalId(n), quantity |-> quantity, price |-> price,
                       fee |-> fee, baseFee |-> baseFee]
          IN  /\ Locally(ledger) => baseFee = 0
              /\ CanApplyFill(ledger, fill, limited)
              /\ ledger' = ApplyFill(ledger, fill)
              /\ UNCHANGED basis
    BY DEF FillOrder
  <1> DEFINE id == LocalId(n)
             fill == [order |-> id, quantity |-> quantity, price |-> price,
                      fee |-> fee, baseFee |-> baseFee]
             order == ledger.orders[id]
             new == FilledOrder(order, fill)
             ids == DOMAIN ledger.orders
             fills == ledger.fills
             last == Len(fills) + 1
  <1>2. /\ fill \in FillType /\ fill.order = id /\ fill.quantity = quantity
        /\ fill.price = price /\ fill.fee = fee
        /\ Locally(ledger) => fill.baseFee = 0
    BY <1>1, Ids DEF FillType
  <1> HIDE DEF fill
  <1>3. /\ id \in ids /\ order \in OrderType /\ order.filled <= order.quantity
        /\ IsOpen(order) /\ order.filled + quantity <= order.quantity
    BY <1>1, <1>2 DEF CanApplyFill, Fits, LedgerInv, TypeOK, NeverOverfilled, fill
  <1>4. /\ ledger'.market = ledger.market /\ ledger'.nextId = ledger.nextId
        /\ ledger'.cash = FilledCash(ledger, order.side, fill)
        /\ ledger'.positions = FilledPositions(ledger, order, fill)
        /\ ledger'.reserved = FilledReserved(ledger, order, fill)
        /\ ledger'.orders = [ledger.orders EXCEPT ![id] = new]
        /\ ledger'.fills = Append(fills, fill)
        /\ UNCHANGED basis
    BY <1>1, <1>2 DEF ApplyFill, LedgerInv, Fields, fill
  <1>5. /\ new.side = order.side /\ new.instrument = order.instrument
        /\ new.quantity = order.quantity /\ new.price = order.price
        /\ new.filled = order.filled + quantity
        /\ new.status = IF order.filled + quantity = order.quantity
                          THEN "Filled" ELSE "PartiallyFilled"
    BY <1>2, <1>3, FilledOrderIs
  <1> HIDE DEF new
  <1>6. /\ DOMAIN ledger'.orders = ids /\ ledger'.orders[id] = new
        /\ \A x \in ids \ {id} : ledger'.orders[x] = ledger.orders[x]
    BY <1>3, <1>4
  <1>7. /\ fills \in Seq(FillType) /\ Len(fills) \in Nat /\ DOMAIN fills = 1 .. Len(fills)
        /\ DOMAIN ledger'.fills = 1 .. last /\ Len(ledger'.fills) = last
        /\ \A i \in DOMAIN fills : ledger'.fills[i] = fills[i]
        /\ ledger'.fills[last] = fill
    BY <1>2, <1>4 DEF LedgerInv, TypeOK
  <1> HIDE DEF last
  <1>sums. ASSUME NEW some \in SUBSET DOMAIN fills
           PROVE  /\ Quantity(ledger'.fills, some) = Quantity(fills, some)
                /\ Quantity(ledger'.fills, some \cup {last}) = Quantity(fills, some) + quantity
                /\ Quantity(fills, some) \in Nat
    <2>1. /\ Quantity(Append(fills, fill), some) = Quantity(fills, some)
          /\ Quantity(Append(fills, fill), some \cup {last})
               = Quantity(fills, some) + fill.quantity
      BY <1>2, <1>7, QuantityAppend DEF last
    <2>2. Quantity(fills, some) \in Nat
      BY <1>7, QuantityType
    <2> QED BY <1>2, <1>4, <2>1, <2>2
  <1>8. IsFiniteSet(ids) /\ ledger.reserved = Reserving(ledger.orders, ids)
        /\ \A x \in ids : OrderReserved(ledger.orders[x]) \in Nat
    BY AllNeeds DEF Explained, ReservationsMatchOpenOrders
  <1>9. /\ order.quantity \in Nat /\ order.filled \in Nat /\ order.price \in Nat
        /\ order.side \in Sides
    BY <1>3 DEF OrderType
  <1>10. KeepRequests(ledger.orders, ledger'.orders)
    <2>1. new.side = order.side /\ new.instrument = order.instrument
      BY <1>5
    <2> QED BY <1>6, <2>1 DEF KeepRequests
  <1>11. ReservationsMatchOpenOrders'
    <2>1. OrderReserved(order) <= ledger.reserved /\ ledger.reserved \in Int
      BY <1>3, <1>8, ReservingCovers, ReservingType
    <2>2. ledger'.reserved = ledger.reserved - OrderReserved(order) + OrderReserved(new)
      BY <1>2, <1>3, <1>4, <2>1, FilledNeeds DEF new
    <2>3. OrderReserved(new) \in Int
      <3>1. new.quantity - new.filled \in Int /\ new.price \in Int
        BY <1>5, <1>9
      <3> QED BY <3>1 DEF OrderReserved
    <2>4. Reserving(ledger'.orders, ids)
            = Reserving(ledger.orders, ids) - OrderReserved(order) + OrderReserved(new)
      BY <1>3, <1>6, <1>8, <2>3, ReservingChange
    <2> QED BY <1>6, <1>8, <2>2, <2>4 DEF ReservationsMatchOpenOrders
  <1>12. ASSUME NEW x \in ids PROVE OrderExplained(ledger', x)
    <2>1. OrderExplained(ledger, x)
      BY DEF Explained
    <2>2. CASE x # id
      <3>1. FillsOf(ledger'.fills, x) = FillsOf(fills, x)
        BY <1>2, <1>7, <2>2 DEF FillsOf, last
      <3>2. Quantity(ledger'.fills, FillsOf(fills, x)) = Quantity(fills, FillsOf(fills, x))
        BY <1>sums DEF FillsOf
      <3>3. ledger'.orders[x] = ledger.orders[x]
        BY <1>6, <2>2
      <3> HIDE DEF id
      <3> QED BY <1>4, <2>1, <3>1, <3>2, <3>3 DEF OrderExplained, Locally
    <2>3. CASE x = id
      <3>1. FillsOf(ledger'.fills, id) = FillsOf(fills, id) \cup {last}
        BY <1>2, <1>7 DEF FillsOf, last
      <3>2. Quantity(ledger'.fills, FillsOf(fills, id) \cup {last})
              = Quantity(fills, FillsOf(fills, id)) + quantity
        BY <1>sums DEF FillsOf
      <3>3. id[1] = "order"
        BY DEF LocalId
      <3>4. order.filled = Quantity(fills, FillsOf(fills, id))
        BY <2>1, <2>3, <3>3 DEF OrderExplained
      <3>5. new.filled = Quantity(ledger'.fills, FillsOf(ledger'.fills, id))
        BY <1>5, <3>1, <3>2, <3>4
      <3>6. /\ new.status = "Filled" => new.filled > 0
            /\ new.status = "Filled" <=> new.filled = new.quantity
            /\ new.status # "Rejected"
        BY <1>5, <1>9
      <3> HIDE DEF id
      <3> QED BY <1>6, <2>3, <3>3, <3>5, <3>6 DEF OrderExplained
    <2> QED BY <2>2, <2>3
  <1>13. FillsKnown' /\ NextIdUnused'
    BY <1>2, <1>3, <1>4, <1>6, <1>7 DEF Explained, FillsKnown, NextIdUnused
  <1>14. basis.fills \in 0 .. Len(fills) /\ basis'.fills \in 0 .. Len(ledger'.fills)
    BY <1>4, <1>7 DEF Explained
  <1>15. CashFollowsFills'
    <2> SUFFICES ASSUME Locally(ledger)
                 PROVE  ledger'.cash = basis.cash
                          + ProceedsSince(ledger'.orders, ledger'.fills, basis.fills)
      BY <1>4 DEF CashFollowsFills, Locally
    <2>1. ledger.cash = basis.cash + ProceedsSince(ledger.orders, fills, basis.fills)
      BY DEF Explained, CashFollowsFills
    <2>2. \A i \in DOMAIN fills : fills[i].order \in ids
      BY DEF Explained, FillsKnown
    <2>3. ProceedsSince(ledger'.orders, ledger'.fills, basis.fills)
            = ProceedsSince(ledger.orders, fills, basis.fills) + Proceeds(new, fill)
      <3>1. ledger'.orders[fill.order] = new
        BY <1>2, <1>6
      <3>2. ProceedsSince(ledger'.orders, Append(fills, fill), basis.fills)
              = ProceedsSince(ledger.orders, fills, basis.fills)
                  + Proceeds(ledger'.orders[fill.order], fill)
        <4>1. /\ fill \in FillType /\ basis.fills \in 0 .. Len(ledger.fills)
              /\ ledger.fills \in Seq(FillType)
              /\ \A i \in DOMAIN ledger.fills : ledger.fills[i].order \in DOMAIN ledger.orders
          BY <1>2, <1>7, <1>14, <2>2
        <4> HIDE DEF order, id, last
        <4> QED BY <4>1, <1>10, ProceedsAppend
      <3> QED BY <1>4, <3>1, <3>2
    <2>4. ledger'.cash = ledger.cash + Proceeds(new, fill)
      <3> DEFINE paid == quantity * price
      <3>1. paid \in Int /\ (0 - quantity) * price = 0 - paid
        OBVIOUS
      <3>2. fill.quantity * fill.price = paid
            /\ Proceeds(new, fill) = (IF order.side = "Buy" THEN 0 - paid ELSE paid) - fee
        BY <1>2, <1>5, <3>1 DEF Proceeds
      <3>3. ledger.cash \in Int
        BY DEF LedgerInv, TypeOK
      <3>4. ledger'.cash = IF order.side = "Buy" THEN ledger.cash - (paid + fee)
                                                 ELSE ledger.cash + (paid - fee)
        BY <1>2, <1>4, <3>2, Zenon DEF FilledCash
      <3> HIDE DEF paid, order
      <3> QED BY <3>1, <3>2, <3>3, <3>4
    <2>5. basis.cash \in Int /\ ledger.cash \in Int /\ Proceeds(new, fill) \in Int
      BY <1>2, ProceedsType DEF LedgerInv, TypeOK
    <2>6. ProceedsSince(ledger.orders, fills, basis.fills) \in Int
      BY <2>2, <1>7, SinceType
    <2> QED BY <2>1, <2>3, <2>4, <2>5, <2>6
  <1>16. SharesFollowSales'
    <2> SUFFICES ASSUME Locally(ledger), NEW i \in Instruments
                 PROVE  ledger'.positions[i].sellable
                          + Quantity(ledger'.fills, SalesSince(ledger'.orders, ledger'.fills,
                                                               basis.fills, i))
                          = basis.positions[i].sellable
      BY <1>4 DEF SharesFollowSales, Locally
    <2> DEFINE before == SalesSince(ledger.orders, fills, basis.fills, i)
               sales == SalesSince(ledger'.orders, ledger'.fills, basis.fills, i)
               held == ledger.positions[i]
    <2>1. held.sellable + Quantity(fills, before) = basis.positions[i].sellable
      BY DEF Explained, SharesFollowSales
    <2>2. held \in PositionType /\ DOMAIN ledger.positions = Instruments
          /\ order.instrument \in Instruments
      BY <1>3 DEF LedgerInv, TypeOK, OrderType
    <2>3. before \in SUBSET DOMAIN fills
      BY DEF SalesSince, FillsSince
    <2>4. sales = IF IsSaleOf(order, i) THEN before \cup {last} ELSE before
      <3>1. \A k \in DOMAIN fills :
              IsSaleOf(ledger'.orders[fills[k].order], i)
                <=> IsSaleOf(ledger.orders[fills[k].order], i)
        BY <1>10 DEF IsSaleOf, KeepRequests, Explained, FillsKnown
      <3>2. IsSaleOf(ledger'.orders[fill.order], i) <=> IsSaleOf(order, i)
        BY <1>2, <1>5, <1>6 DEF IsSaleOf
      <3>3. last > basis.fills /\ last \notin DOMAIN fills
        BY <1>7, <1>14 DEF last
      <3> HIDE DEF order, id
      <3> QED BY <1>7, <3>1, <3>2, <3>3 DEF SalesSince, FillsSince, last
    <2>5. /\ Quantity(ledger'.fills, before) = Quantity(fills, before)
          /\ Quantity(ledger'.fills, before \cup {last}) = Quantity(fills, before) + quantity
          /\ Quantity(fills, before) \in Nat
      BY <1>sums, <2>3
    <2>6. ledger'.positions[i].sellable
            = IF IsSaleOf(order, i) THEN held.sellable - quantity ELSE held.sellable
      <3>1. CASE i # order.instrument
        BY <1>4, <2>2, <3>1 DEF FilledPositions, Put, IsSaleOf
      <3>2. CASE i = order.instrument /\ order.side = "Buy"
        <4> DEFINE next == [held EXCEPT !.quantity = @ + fill.quantity - fill.baseFee]
        <4>1. ledger'.positions = Put(ledger.positions, i, next)
          BY <1>4, <2>2, <3>2 DEF FilledPositions, Position
        <4>2. next.sellable = held.sellable
          BY <2>2 DEF PositionType
        <4> HIDE DEF next
        <4> QED BY <3>2, <4>1, <4>2 DEF Put, IsSaleOf
      <3>3. CASE i = order.instrument /\ order.side = "Sell"
        <4> DEFINE sold == fill.quantity + fill.baseFee
                   next == [quantity |-> held.quantity - sold,
                            sellable |-> held.sellable - sold]
        <4>1. ledger'.positions = Put(ledger.positions, i, next)
          BY <1>4, <2>2, <3>3 DEF FilledPositions, Position
        <4>2. sold = quantity
          BY <1>2
        <4>3. next.sellable = held.sellable - quantity
          BY <4>2
        <4> HIDE DEF next, sold
        <4> QED BY <3>3, <4>1, <4>3 DEF Put, IsSaleOf
      <3> QED BY <1>9, <3>1, <3>2, <3>3 DEF Sides
    <2>7. held.sellable \in Int
      BY <2>2 DEF PositionType
    <2> HIDE DEF held, before, sales
    <2> QED BY <2>1, <2>4, <2>5, <2>6, <2>7 DEF sales, held
  <1> QED BY <1>6, <1>8, <1>11, <1>12, <1>13, <1>14, <1>15, <1>16 DEF Explained

-------------------------------------------------------------------------------

\* Every account is explained by its orders and fills: what it reserves, what each
\* order has filled, what its cash and its sellable shares became.
THEOREM AccountStaysExplained == Spec => []Explained
  <1>1. Init => Explained
    <2> SUFFICES ASSUME Init PROVE Explained
      OBVIOUS
    <2>1. PICK market \in Markets :
            ledger = NewLedger(market, OpeningCash, OpeningPositions)
      BY DEF Init
    <2>2. /\ ledger.cash = OpeningCash /\ ledger.positions = OpeningPositions
          /\ ledger.reserved = 0
          /\ ledger.orders = << >> /\ ledger.fills = << >> /\ ledger.nextId = 1
      BY <2>1 DEF NewLedger
    <2>3. basis.cash = ledger.cash /\ basis.positions = ledger.positions /\ basis.fills = 0
      BY <2>2 DEF Init, BasisOf
    <2>4. DOMAIN ledger.orders = {} /\ DOMAIN ledger.fills = {} /\ IsFiniteSet({})
      BY <2>2, FS_EmptySet
    <2>5. ReservationsMatchOpenOrders
      BY <2>2, <2>4, ReservingIs, SumEmpty DEF ReservationsMatchOpenOrders
    <2>6. CashFollowsFills
      <3>1. FillsSince(ledger.fills, basis.fills) = {}
        BY <2>4 DEF FillsSince
      <3>2. ProceedsSince(ledger.orders, ledger.fills, basis.fills) = 0
        BY <3>1, SumEmpty DEF ProceedsSince, SumFunction
      <3> QED BY <2>2, <2>3, <3>2, LedgerAssumption DEF CashFollowsFills
    <2>7. SharesFollowSales
      <3>1. \A i : SalesSince(ledger.orders, ledger.fills, basis.fills, i) = {}
        BY <2>4 DEF SalesSince, FillsSince
      <3>2. \A i : Quantity(ledger.fills, {}) = 0
        BY SumEmpty DEF Quantity, SumFunction
      <3>3. \A i \in Instruments : ledger.positions[i].sellable \in Nat
        BY <2>2, LedgerAssumption DEF OpeningPositions
      <3> QED BY <2>3, <3>1, <3>2, <3>3 DEF SharesFollowSales
    <2>8. FillsKnown /\ NextIdUnused /\ basis.fills \in 0 .. Len(ledger.fills)
      BY <2>2, <2>3, <2>4 DEF FillsKnown, NextIdUnused
    <2> QED BY <2>4, <2>5, <2>6, <2>7, <2>8 DEF Explained
  <1>2. LedgerInv /\ LedgerInv' /\ Explained /\ [Next]_vars => Explained'
    <2> SUFFICES ASSUME LedgerInv, LedgerInv', Explained, [Next]_vars PROVE Explained'
      OBVIOUS
    <2>1. CASE UNCHANGED vars
      BY <2>1 DEF vars, Explained, ReservationsMatchOpenOrders, OrderExplained, FillsKnown,
         NextIdUnused, CashFollowsFills, SharesFollowSales, Locally
    <2> QED BY <2>1, SubmitExplains, FillExplains, CancelExplains, ReconcileExplains,
               TrustExplains, ImportExplains, FinaliseExplains, SweepExplains,
               ReinstateExplains DEF Next
  <1> QED BY <1>1, <1>2, LedgerStaysSound, PTL DEF Spec

\* No operation of either market leaks buying power or spends it twice: what is
\* reserved is what the open buy orders still need.
THEOREM ReservationsMatch == Spec => []ReservationsMatchOpenOrders
  <1>1. Explained => ReservationsMatchOpenOrders
    BY DEF Explained
  <1> QED BY <1>1, AccountStaysExplained, PTL

\* Orders submitted here are filled by their retained fills, and by nothing else.
THEOREM OrdersFollowFills == Spec => []FillsExplainOrders
  <1>1. LedgerInv /\ Explained => FillsExplainOrders
    BY DEF Explained, OrderExplained, FillsExplainOrders, LedgerInv, NeverOverfilled
  <1> QED BY <1>1, LedgerStaysSound, AccountStaysExplained, PTL

\* The cash of an A-share account is its last snapshot and every fill since.
THEOREM CashIsExplained == Spec => []CashFollowsFills
  <1>1. Explained => CashFollowsFills
    BY DEF Explained
  <1> QED BY <1>1, AccountStaysExplained, PTL

\* T+1: no more is sold in a session than was sellable when it began.
THEOREM OnlySettledSharesAreSold == Spec => []SoldSharesWereSettled
  <1>1. LedgerInv /\ Explained => SoldSharesWereSettled
    <2> SUFFICES ASSUME LedgerInv, Explained, Locally(ledger), NEW i \in Instruments
                 PROVE  Quantity(ledger.fills, SalesSince(ledger.orders, ledger.fills,
                                                          basis.fills, i))
                          <= basis.positions[i].sellable
      BY DEF SoldSharesWereSettled
    <2> DEFINE sold == Quantity(ledger.fills, SalesSince(ledger.orders, ledger.fills,
                                                         basis.fills, i))
    <2>1. ledger.positions[i].sellable + sold = basis.positions[i].sellable
      BY DEF Explained, SharesFollowSales
    <2>2. ledger.positions[i].sellable \in Nat
      BY DEF LedgerInv, TypeOK, PositionType
    <2>3. sold \in Nat
      <3>1. SalesSince(ledger.orders, ledger.fills, basis.fills, i)
              \in SUBSET DOMAIN ledger.fills
        BY DEF SalesSince, FillsSince
      <3> QED BY <3>1, QuantityType DEF LedgerInv, TypeOK
    <2> HIDE DEF sold
    <2> QED BY <2>1, <2>2, <2>3 DEF sold
  <1> QED BY <1>1, LedgerStaysSound, AccountStaysExplained, PTL

-------------------------------------------------------------------------------
\* One lemma per action: evidence only grows

\* A step that changes one order, or adds one, and no fill.
LEMMA OneOrderGrows ==
  ASSUME LedgerInv, ledger'.fills = ledger.fills, NEW id,
         \A x \in DOMAIN ledger.orders :
           /\ x \in DOMAIN ledger'.orders
           /\ x # id => ledger'.orders[x] = ledger.orders[x],
         id \in DOMAIN ledger.orders =>
           OrderGrows(ledger, id, ledger.orders[id], ledger'.orders[id])
  PROVE  EvidenceGrows
  <1>1. ASSUME NEW x \in DOMAIN ledger.orders
        PROVE  OrderGrows(ledger, x, ledger.orders[x], ledger'.orders[x])
    <2>1. ledger.orders[x].filled \in Nat
      BY DEF LedgerInv, TypeOK, OrderType
    <2> QED BY <2>1 DEF OrderGrows
  <1>2. Len(ledger.fills) \in Nat
    BY DEF LedgerInv, TypeOK
  <1> QED BY <1>1, <1>2 DEF EvidenceGrows

\* No order and no fill changed.
LEMMA SameOrdersGrow ==
  ASSUME LedgerInv, ledger'.fills = ledger.fills, ledger'.orders = ledger.orders
  PROVE  EvidenceGrows
  <1>1. \A x \in DOMAIN ledger.orders : ledger.orders[x].filled \in Nat
    BY DEF LedgerInv, TypeOK, OrderType
  <1>2. Len(ledger.fills) \in Nat
    BY DEF LedgerInv, TypeOK
  <1> QED BY <1>1, <1>2 DEF EvidenceGrows, OrderGrows

LEMMA SubmitGrows == ASSUME LedgerInv, Explained, SubmitOrder PROVE EvidenceGrows
  <1>1. PICK order : ledger' = Submit(ledger, order)
    BY DEF SubmitOrder
  <1> DEFINE id == LocalId(ledger.nextId)
  <1>2. PICK new : ledger'.orders = Put(ledger.orders, id, new) /\ ledger'.fills = ledger.fills
    BY <1>1 DEF Submit, LedgerInv, Fields
  <1>3. id \notin DOMAIN ledger.orders
    BY DEF Explained, NextIdUnused, LedgerInv, TypeOK
  <1> HIDE DEF id
  <1> QED BY <1>2, <1>3, OneOrderGrows DEF Put

LEMMA FillGrows == ASSUME LedgerInv, FillOrder PROVE EvidenceGrows
  <1> USE LedgerAssumption
  <1>1. PICK fill \in FillType, limited \in BOOLEAN :
          CanApplyFill(ledger, fill, limited) /\ ledger' = ApplyFill(ledger, fill)
    <2>1. \A n \in 1 .. MaxOrders, quantity \in 1 .. MaxQuantity, price \in 1 .. MaxPrice,
             fee \in 0 .. MaxFee, baseFee \in 0 .. MaxFee :
            [order |-> LocalId(n), quantity |-> quantity, price |-> price,
             fee |-> fee, baseFee |-> baseFee] \in FillType
      BY Ids DEF FillType
    <2> QED BY <2>1 DEF FillOrder
  <1> DEFINE id == fill.order
             order == ledger.orders[id]
             new == FilledOrder(order, fill)
  <1>2. /\ id \in DOMAIN ledger.orders /\ order \in OrderType /\ IsOpen(order)
        /\ order.filled + fill.quantity <= order.quantity
    BY <1>1 DEF CanApplyFill, Fits, LedgerInv, TypeOK
  <1>3. /\ ledger'.orders = [ledger.orders EXCEPT ![id] = new]
        /\ ledger'.fills = Append(ledger.fills, fill)
    BY <1>1 DEF ApplyFill, LedgerInv, Fields
  <1>4. OrderGrows(ledger, id, order, new)
    <2>1. /\ new.instrument = order.instrument /\ new.side = order.side
          /\ new.quantity = order.quantity /\ new.price = order.price
          /\ new.filled = order.filled + fill.quantity
      BY <1>2, FilledOrderIs
    <2>2. order.filled \in Nat /\ fill.quantity \in Nat
      BY <1>2 DEF OrderType, FillType
    <2> HIDE DEF new, order
    <2> QED BY <1>2, <2>1, <2>2 DEF OrderGrows
  <1> HIDE DEF new
  <1>5. ASSUME NEW x \in DOMAIN ledger.orders
        PROVE  /\ x \in DOMAIN ledger'.orders
               /\ OrderGrows(ledger, x, ledger.orders[x], ledger'.orders[x])
    <2>1. CASE x = id
      BY <1>2, <1>3, <1>4, <2>1
    <2>2. CASE x # id
      <3>1. ledger.orders[x].filled \in Nat /\ ledger'.orders[x] = ledger.orders[x]
            /\ x \in DOMAIN ledger'.orders
        BY <1>3, <2>2 DEF LedgerInv, TypeOK, OrderType
      <3> QED BY <3>1 DEF OrderGrows
    <2> QED BY <2>1, <2>2
  <1>6. /\ Len(ledger'.fills) >= Len(ledger.fills)
        /\ \A i \in DOMAIN ledger.fills : ledger'.fills[i] = ledger.fills[i]
    BY <1>3 DEF LedgerInv, TypeOK
  <1> QED BY <1>5, <1>6 DEF EvidenceGrows

LEMMA CancelGrows == ASSUME LedgerInv, CancelOrder PROVE EvidenceGrows
  <1>1. PICK id : CanCancel(ledger, id) /\ ledger' = Cancel(ledger, id)
    BY DEF CancelOrder
  <1> DEFINE old == ledger.orders[id]
             new == [old EXCEPT !.status = "Cancelled"]
  <1>2. id \in DOMAIN ledger.orders /\ IsOpen(old) /\ old \in OrderType
    BY <1>1 DEF CanCancel, LedgerInv, TypeOK
  <1>3. /\ ledger'.orders = [ledger.orders EXCEPT ![id].status = "Cancelled"]
        /\ ledger'.fills = ledger.fills
    BY <1>1 DEF Cancel, LedgerInv, Fields
  <1>4. ledger'.orders = [ledger.orders EXCEPT ![id] = new]
    BY <1>3, Zenon
  <1>5. OrderGrows(ledger, id, old, new)
    <2> HIDE DEF old
    <2>1. /\ new.instrument = old.instrument /\ new.side = old.side
          /\ new.quantity = old.quantity /\ new.price = old.price
          /\ new.filled = old.filled /\ old.filled \in Nat
      BY <1>2 DEF OrderType
    <2> HIDE DEF new
    <2> QED BY <1>2, <2>1 DEF OrderGrows
  <1> HIDE DEF new
  <1> QED BY <1>2, <1>3, <1>4, <1>5, OneOrderGrows

LEMMA ReconcileGrows == ASSUME LedgerInv, ReconcileAccount PROVE EvidenceGrows
  <1>1. PICK snapshot : ledger' = Reconcile(ledger, snapshot)
    BY DEF ReconcileAccount
  <1>2. ledger'.fills = ledger.fills /\ ledger'.orders = ledger.orders
    BY <1>1 DEF Reconcile, LedgerInv, Fields
  <1> QED BY <1>2, SameOrdersGrow

LEMMA TrustGrows == ASSUME LedgerInv, LoseTrust PROVE EvidenceGrows
  <1>1. ledger'.fills = ledger.fills /\ ledger'.orders = ledger.orders
    BY DEF LoseTrust, RequireReconciliation, LedgerInv, Fields
  <1> QED BY <1>1, SameOrdersGrow

LEMMA ImportGrows == ASSUME LedgerInv, Explained, ImportOpenOrder PROVE EvidenceGrows
  <1> USE LedgerAssumption
  <1>1. PICK p \in 1 .. MaxImports, i \in Instruments, side \in Sides,
             filled \in 0 .. MaxQuantity, status \in Statuses :
          LET id == ImportedId(p)
              order == Order(i, side, MaxQuantity, filled, 1, status)
          IN  /\ id \in DOMAIN ledger.orders =>
                   /\ ledger.orders[id].instrument = i /\ ledger.orders[id].side = side
                   /\ ledger.orders[id].filled <= filled
              /\ ledger' = Upsert(ledger, id, order)
    BY DEF ImportOpenOrder, Statuses, OpenStatuses
  <1> DEFINE id == ImportedId(p)
             order == Order(i, side, MaxQuantity, filled, 1, status)
             old == ledger.orders[id]
  <1>2. /\ order.instrument = i /\ order.side = side /\ order.quantity = MaxQuantity
        /\ order.filled = filled /\ order.price = 1
    BY DEF Order
  <1> HIDE DEF order
  <1>3. /\ ledger'.orders = Put(ledger.orders, id, order)
        /\ ledger'.fills = ledger.fills
    BY <1>1 DEF Upsert, LedgerInv, Fields, order
  <1>4. id[1] = "provider-order"
    BY DEF ImportedId
  <1>5. ASSUME id \in DOMAIN ledger.orders PROVE OrderGrows(ledger, id, old, order)
    <2>1. old.quantity = MaxQuantity /\ old.price = 1 /\ old.filled \in Nat
      BY <1>4, <1>5 DEF Explained, OrderExplained, LedgerInv, TypeOK, OrderType
    <2>2. old.instrument = i /\ old.side = side /\ old.filled <= filled
      BY <1>1, <1>5
    <2> HIDE DEF old, id
    <2> QED BY <1>2, <1>4, <2>1, <2>2 DEF OrderGrows
  <1> HIDE DEF id
  <1>6. /\ ledger'.orders[id] = order
        /\ \A x \in DOMAIN ledger.orders :
             /\ x \in DOMAIN ledger'.orders
             /\ x # id => ledger'.orders[x] = ledger.orders[x]
    BY <1>3 DEF Put
  <1> QED BY <1>3, <1>5, <1>6, OneOrderGrows

LEMMA FinaliseGrows == ASSUME LedgerInv, Explained, FinaliseOrder PROVE EvidenceGrows
  <1>1. PICK id : /\ ~Locally(ledger)
                  /\ id \in DOMAIN ledger.orders /\ ledger.orders[id].filled > 0
                  /\ ledger' = Upsert(ledger, id,
                                      [ledger.orders[id] EXCEPT !.status = "Filled"])
    BY DEF FinaliseOrder
  <1> DEFINE old == ledger.orders[id]
             new == [old EXCEPT !.status = "Filled"]
  <1>2. old \in OrderType /\ old.status # "Rejected" /\ old.filled > 0
    BY <1>1 DEF LedgerInv, TypeOK, Explained, OrderExplained
  <1>3. /\ ledger'.orders = Put(ledger.orders, id, new)
        /\ ledger'.fills = ledger.fills
    BY <1>1 DEF Upsert, LedgerInv, Fields
  <1>4. OrderGrows(ledger, id, old, new)
    <2> HIDE DEF old
    <2>1. /\ new.instrument = old.instrument /\ new.side = old.side
          /\ new.quantity = old.quantity /\ new.price = old.price
          /\ new.filled = old.filled /\ old.filled \in Nat /\ new.status = "Filled"
      BY <1>2 DEF OrderType
    <2>2. old.status = "Filled" => new = old
      BY <1>2 DEF OrderType
    <2>3. old.status \in Statuses
      BY <1>2 DEF OrderType
    <2> HIDE DEF new
    <2> QED BY <1>1, <1>2, <2>1, <2>2, <2>3 DEF OrderGrows, IsOpen, Statuses
  <1> HIDE DEF new
  <1>5. /\ ledger'.orders[id] = new
        /\ \A x \in DOMAIN ledger.orders :
             /\ x \in DOMAIN ledger'.orders
             /\ x # id => ledger'.orders[x] = ledger.orders[x]
    BY <1>3 DEF Put
  <1> QED BY <1>3, <1>4, <1>5, OneOrderGrows

LEMMA SweepGrows == ASSUME LedgerInv, SweepMissing PROVE EvidenceGrows
  <1>1. PICK active : ledger' = CancelMissing(ledger, active)
    BY DEF SweepMissing
  <1> DEFINE ids == DOMAIN ledger.orders
             stale == {id \in ids \ active : IsOpen(ledger.orders[id])}
             Swept(order) == [order EXCEPT !.status = "Cancelled"]
  <1>2. /\ ledger'.orders = [id \in ids |-> IF id \in stale THEN Swept(ledger.orders[id])
                                                            ELSE ledger.orders[id]]
        /\ ledger'.fills = ledger.fills
    <2> DEFINE orders == [id \in ids |-> IF id \in stale THEN Swept(ledger.orders[id])
                                                         ELSE ledger.orders[id]]
    <2>1. PICK reserved : ledger' = [ledger EXCEPT !.reserved = reserved, !.orders = orders]
      BY <1>1, Zenon DEF CancelMissing
    <2> HIDE DEF orders
    <2>2. ledger'.orders = orders /\ ledger'.fills = ledger.fills
      BY <2>1 DEF LedgerInv, Fields
    <2> QED BY <2>2 DEF orders
  <1>3. \A id \in stale : id \in ids /\ IsOpen(ledger.orders[id])
    OBVIOUS
  <1> HIDE DEF stale
  <1>4. ASSUME NEW old \in OrderType, IsOpen(old), NEW id
        PROVE  OrderGrows(ledger, id, old, Swept(old))
    <2>1. /\ Swept(old).instrument = old.instrument /\ Swept(old).side = old.side
          /\ Swept(old).quantity = old.quantity /\ Swept(old).price = old.price
          /\ Swept(old).filled = old.filled /\ old.filled \in Nat
      BY DEF OrderType
    <2> HIDE DEF Swept
    <2> QED BY <1>4, <2>1 DEF OrderGrows
  <1> HIDE DEF Swept
  <1>5. ASSUME NEW id \in ids
        PROVE  /\ id \in DOMAIN ledger'.orders
               /\ OrderGrows(ledger, id, ledger.orders[id], ledger'.orders[id])
    <2>1. ledger.orders[id] \in OrderType /\ ledger.orders[id].filled \in Nat
      BY DEF LedgerInv, TypeOK, OrderType
    <2>2. CASE id \in stale
      <3>1. ledger'.orders[id] = Swept(ledger.orders[id]) /\ id \in DOMAIN ledger'.orders
        BY <1>2, <2>2
      <3> QED BY <1>3, <1>4, <2>1, <2>2, <3>1
    <2>3. CASE id \notin stale
      <3>1. ledger'.orders[id] = ledger.orders[id] /\ id \in DOMAIN ledger'.orders
        BY <1>2, <2>3
      <3> QED BY <2>1, <3>1 DEF OrderGrows
    <2> QED BY <2>2, <2>3
  <1>6. Len(ledger.fills) \in Nat
    BY DEF LedgerInv, TypeOK
  <1> QED BY <1>2, <1>5, <1>6 DEF EvidenceGrows

LEMMA ReinstateGrows == ASSUME LedgerInv, ReinstateOrder PROVE EvidenceGrows
  <1>1. PICK id : CanReinstate(ledger, id) /\ ledger' = Reinstate(ledger, id)
    BY DEF ReinstateOrder
  <1> DEFINE old == ledger.orders[id]
             new == [old EXCEPT !.status = "Accepted"]
  <1>2. /\ id \in DOMAIN ledger.orders /\ old \in OrderType /\ ~Locally(ledger)
        /\ old.status = "Cancelled" /\ old.filled = 0
    BY <1>1 DEF CanReinstate, LedgerInv, TypeOK
  <1>3. /\ ledger'.orders = [ledger.orders EXCEPT ![id].status = "Accepted"]
        /\ ledger'.fills = ledger.fills
    BY <1>1 DEF Reinstate, LedgerInv, Fields
  <1>4. ledger'.orders = [ledger.orders EXCEPT ![id] = new]
    BY <1>3, Zenon
  <1>5. OrderGrows(ledger, id, old, new)
    <2> HIDE DEF old
    <2>1. /\ new.instrument = old.instrument /\ new.side = old.side
          /\ new.quantity = old.quantity /\ new.price = old.price
          /\ new.filled = old.filled /\ new.status = "Accepted"
      BY <1>2 DEF OrderType
    <2> HIDE DEF new
    <2> QED BY <1>2, <2>1 DEF OrderGrows
  <1> HIDE DEF new
  <1> QED BY <1>2, <1>3, <1>4, <1>5, OneOrderGrows

\* No step of either market rewrites a fill, an order's request or a terminal order
\* but the two the provider's evidence may correct.
THEOREM EvidenceIsKept == Spec => EvidenceOnlyGrows
  <1>1. LedgerInv /\ Explained /\ [Next]_vars => [EvidenceGrows]_vars
    BY SubmitGrows, FillGrows, CancelGrows, ReconcileGrows, TrustGrows, ImportGrows,
       FinaliseGrows, SweepGrows, ReinstateGrows DEF Next
  <1> QED BY <1>1, LedgerStaysSound, AccountStaysExplained, PTL DEF Spec, EvidenceOnlyGrows

================================================================================
