---------------------------- MODULE MCScanCache ----------------------------
(* Two clients that ask again and again, at two processes.                *)
EXTENDS ScanCache

CONSTANTS t1, t2, p1, p2

=============================================================================
