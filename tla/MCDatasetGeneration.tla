-------------------------- MODULE MCDatasetGeneration --------------------------
(***************************************************************************)
(* DatasetGeneration for TLC: two Users whose requests make one dataset,   *)
(* and budgets that decide which commands, failures and restarts meet.     *)
(***************************************************************************)
EXTENDS DatasetGeneration, TLC

CONSTANTS alice, bob, r1, r2, r3, d1

Of(user, kind) == [user |-> user, kind |-> kind]
ThreeResets == (r1 :> Of(alice, "All")) @@ (r2 :> Of(alice, "MarketData"))
                 @@ (r3 :> Of(bob, "All"))
OneMarketData == (r1 :> Of(alice, "MarketData"))
OneAll == (r1 :> Of(alice, "All"))
TwoAlls == (r1 :> Of(alice, "All")) @@ (r2 :> Of(alice, "All"))

Budget(starts, retries, cancels, resetsOf, downloads, failures, restarts) ==
  [Start |-> starts, Retry |-> retries, Cancel |-> cancels, Reset |-> resetsOf,
   Download |-> downloads, Failure |-> failures, Restart |-> restarts]

\* Two resets, and a restart between them; a cancellation with a reset or a
\* restart, with a retry and failing transactions; a reset with a download or a
\* restart; a retry of what was completed meanwhile.
ManyBudgets == {Budget(2, 0, 0, 2, 0, 0, 0), Budget(1, 0, 0, 2, 0, 0, 1),
                Budget(2, 0, 1, 1, 0, 0, 0), Budget(2, 0, 1, 0, 0, 0, 1),
                Budget(1, 1, 1, 1, 0, 1, 0), Budget(2, 0, 0, 1, 1, 1, 0),
                Budget(2, 0, 0, 1, 0, 0, 1), Budget(2, 1, 0, 0, 0, 0, 0)}
OneReset == {Budget(1, 0, 0, 1, 0, 0, 0)}
TwoResets == {Budget(2, 0, 0, 2, 0, 0, 0)}
ResetAndRestart == {Budget(1, 0, 0, 1, 0, 0, 1)}
================================================================================
