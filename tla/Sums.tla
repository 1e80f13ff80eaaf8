-------------------------------- MODULE Sums --------------------------------
(***************************************************************************)
(* The sum of a natural-valued function, the SQL SUM of the paper desk     *)
(* (paper_trading_service.py:1189-1202).  It is defined without recursion, *)
(* as the number of pairs <<x, k>> with 1 <= k <= f[x], so that the        *)
(* lemmas of SumsProofs can be proved from the theory of finite sets.      *)
(***************************************************************************)
EXTENDS Integers, FiniteSets

\* The unit pairs of one argument.
Units(f, x) == {x} \X (1 .. f[x])

SumNat(f) == Cardinality(UNION {Units(f, x) : x \in DOMAIN f})

=============================================================================
