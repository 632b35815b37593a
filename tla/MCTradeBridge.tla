------------------------------ MODULE MCTradeBridge ------------------------------
(* TradeBridge for TLC: one user, two instruments in their code order. *)
EXTENDS TradeBridge

CONSTANTS alice, btc, eth

InOrder == [c \in Codes |-> IF c = btc THEN 1 ELSE 2]

===============================================================================
