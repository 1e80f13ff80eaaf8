-------------------------- MODULE MCIndicatorScans --------------------------
(* Two scans of one user, at two servers.                                 *)
EXTENDS IndicatorScans

CONSTANTS p1, p2

=============================================================================
