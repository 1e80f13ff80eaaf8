---------------------------- MODULE MCGapReplay ----------------------------
(* Two trades of one account, beside an account without any.               *)
EXTENDS GapReplay, TLC

CONSTANTS t1, t2, a1, a2

MCOwner == t1 :> a1 @@ t2 :> a1

=============================================================================
