-------------------------- MODULE MCReconciliation --------------------------
(* Reconciliation for TLC: three slots a minute, a fetch of two candles.   *)
EXTENDS Reconciliation
=============================================================================
