---------------------------- MODULE MCPaperDesk ----------------------------
(* PaperDesk for TLC. *)
EXTENDS PaperDesk, TLC

\* Orders are interchangeable in the safety runs.
OrderSymmetry == Permutations(Orders)

\* The bound of the runs about money: no market-open sweep is under way.  What
\* a sweep does to an order is in the run DeskOrders.
NoSweep == sweep = {}

=============================================================================
