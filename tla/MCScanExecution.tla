-------------------------- MODULE MCScanExecution --------------------------
(* Scans of two clients over four units of time.                         *)
EXTENDS ScanExecution

CONSTANTS w1, w2

=============================================================================
