------------------------------- MODULE Lease -------------------------------
(***************************************************************************)
(* What a lease with takeover promises, whatever keeps it: the lease has   *)
(* one holder at most; it passes from a holder to another worker only when *)
(* the holder has lapsed, and a worker gives up nobody's lease but its     *)
(* own.  A holder that lapsed may go on in the belief of holding it.       *)
(***************************************************************************)
CONSTANTS Workers, None

VARIABLES
    holder,     \* the worker that holds the lease, or None
    believers,  \* workers that act as its holder
    lapsed      \* workers that have been found silent for too long

leaseVars == <<holder, believers, lapsed>>

LeaseInit ==
    /\ holder = None
    /\ believers = {}
    /\ lapsed = {}

\* The lease is free, or its holder has lapsed; the taker need not live to know.
Take(w) ==
    /\ holder = None \/ holder \in lapsed
    /\ holder' = w
    /\ believers' \in {believers, believers \cup {w}}
    /\ UNCHANGED lapsed

Leave(w) ==
    /\ w \in believers
    /\ believers' = believers \ {w}
    /\ holder' \in {holder, IF holder = w THEN None ELSE holder}
    /\ UNCHANGED lapsed

Lapse(w) ==
    /\ holder = w
    /\ lapsed' = lapsed \cup {w}
    /\ UNCHANGED <<holder, believers>>

LeaseNext == \E w \in Workers : Take(w) \/ Leave(w) \/ Lapse(w)

LeaseSpec == LeaseInit /\ [][LeaseNext]_leaseVars

=============================================================================
