----------------------------- MODULE MCResearchQueue -----------------------------
(***************************************************************************)
(* ResearchQueue for TLC: two callers, with the same or different work, and *)
(* budgets that decide which of cancellation, reset, shutdown and restart   *)
(* meet.                                                                   *)
(***************************************************************************)
EXTENDS ResearchQueue

CONSTANTS alice, bob

Times(call, cancel, reset_, shutdown_, restart) ==
  [Call |-> call, Cancel |-> cancel, Reset |-> reset_, Shutdown |-> shutdown_,
   Restart |-> restart]

SameKey == [c \in Callers |-> "momentum"]
OwnKey == [c \in Callers |-> c]

QueueBudget == Times(2, 1, 0, 1, 1)
ResetBudget == Times(2, 0, 1, 0, 1)
QueueBudgets == {QueueBudget, ResetBudget}
OneReset == {Times(1, 0, 1, 0, 0)}
CallsOnly == {Times(2, 0, 0, 0, 0)}

===============================================================================
