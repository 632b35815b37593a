----------------------------- MODULE MCPaperLedger -----------------------------
(***************************************************************************)
(* PaperLedger for TLC: two orders of up to two units, so that a partial   *)
(* fill, a second order competing for the same cash and a sale against a   *)
(* fresh purchase all happen.                                              *)
(***************************************************************************)
EXTENDS PaperLedger
===============================================================================
