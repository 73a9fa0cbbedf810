------------------------------- MODULE Lease -------------------------------
(***************************************************************************)
(* What a named work lease promises, without clocks: a claim is granted     *)
(* when nobody holds the lease or its holder has not been heard of for too  *)
(* long, every grant has a new generation, and a run that gives up ends its *)
(* own claim and nobody else's.  A run that lost the lease may go on for a  *)
(* while: the lease is no mutual exclusion (EXTERNAL_MUTATION.md).          *)
(***************************************************************************)
EXTENDS Naturals

CONSTANTS Runs, None

VARIABLES holder,      \* the run the lease is granted to, or None
          lapsed,      \* the holder has not renewed in time
          generation,  \* number of grants so far
          active       \* the runs that act under a claim, the holder's or a lost one

vars == <<holder, lapsed, generation, active>>

Init == holder = None /\ lapsed = FALSE /\ generation = 0 /\ active = {}

Grant(r) ==
    /\ r \notin active
    /\ holder # r
    /\ holder = None \/ lapsed
    /\ holder' = r
    /\ lapsed' = FALSE
    /\ generation' = generation + 1
    /\ active' = active \cup {r}

Hear(r) ==
    /\ holder = r
    /\ r \in active
    /\ lapsed' = FALSE
    /\ UNCHANGED <<holder, generation, active>>

Lapse ==
    /\ holder # None
    /\ lapsed' = TRUE
    /\ UNCHANGED <<holder, generation, active>>

\* A run that ends releases its claim, unless the release is lost with it.
GiveUp(r) ==
    /\ r \in active
    /\ active' = active \ {r}
    /\ \/ UNCHANGED <<holder, lapsed>>
       \/ holder = r /\ holder' = None /\ lapsed' = FALSE
    /\ UNCHANGED generation

Next == (\E r \in Runs : Grant(r) \/ Hear(r) \/ GiveUp(r)) \/ Lapse

Spec == Init /\ [][Next]_vars
=============================================================================
