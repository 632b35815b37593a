----------------------------- MODULE MCPaperTrading -----------------------------
(***************************************************************************)
(* PaperTrading for TLC: an order of the user and an order of a bot on one *)
(* account that cannot afford both, and budgets that decide which commands *)
(* meet.                                                                   *)
(***************************************************************************)
EXTENDS PaperTrading, TLC

Order(side, quantity) ==
  [instrument |-> "BTC-USDT", side |-> side, quantity |-> quantity, filled |-> 0,
   price |-> 1, status |-> "Accepted"]

Policy(max, reserve) == [max |-> max, reserve |-> reserve, frozen |-> FALSE]

MCRequest == << [order |-> Order("Buy", 2), caller |-> "User", policy |-> Policy(2, 0)],
                [order |-> Order("Buy", 1), caller |-> "Bot", policy |-> Policy(1, 1)] >>

MCHostPolicy == Policy(2, 0)

Times(submit, cancel, sync, freeze, reconcile, crash) ==
  [Submit |-> submit, Cancel |-> cancel, Sync |-> sync, Freeze |-> freeze,
   Acknowledge |-> freeze, Recover |-> freeze, Reconcile |-> reconcile, Crash |-> crash]

SerialBudgets == {Times(2, 1, 1, 0, 2, 1), Times(1, 0, 0, 1, 2, 1)}
RaceBudgets == {Times(2, 0, 0, 0, 1, 0), Times(1, 0, 1, 1, 1, 0),
                Times(2, 0, 0, 0, 1, 1), Times(1, 0, 0, 0, 2, 1)}
SubmitBudgets == {Times(2, 0, 0, 0, 0, 0)}
CancelBudgets == {Times(1, 1, 0, 0, 0, 0)}
FreezeBudgets == {Times(1, 0, 0, 1, 0, 0)}
SweepBudgets == {Times(1, 0, 0, 0, 1, 0)}

Symmetric == Permutations(Threads)
=================================================================================
