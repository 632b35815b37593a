------------------------------ MODULE MCBotLifecycle -----------------------------
(* BotLifecycle for TLC: two Bots of one account. *)
EXTENDS BotLifecycle, TLC

CONSTANTS btc, eth, account

OneAccount == [b \in Bots |-> account]

BotSymmetry == Permutations({btc, eth})

===============================================================================
