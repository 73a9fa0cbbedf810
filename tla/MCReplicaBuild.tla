--------------------------- MODULE MCReplicaBuild ---------------------------
(* Small instances of ReplicaBuild. *)
EXTENDS ReplicaBuild, TLC

\* The compute resources are interchangeable.
Symmetry == Permutations(Computes)

\* Bound: placements on replicas that builds made.
BuiltPlacements == \A c \in placed : replica[c].of # None

\* Bound: the next build copies the accepted one's result, so that it meets
\* its retirement.
Chained == \A a \in Accepted, b \in Builds \ Accepted :
              build[b].source # None => build[b].source = build[a].compute
=============================================================================
