---------------------------- MODULE MCPaperExperiment ----------------------------
(* PaperExperiment for TLC: two instruments stand for the three of the code. *)
EXTENDS PaperExperiment, TLC

CONSTANTS first, second, btc, eth

ExperimentSymmetry == Permutations({first, second}) \cup Permutations({btc, eth})

===============================================================================
