----------------------------- MODULE MCPlacement -----------------------------
EXTENDS Placement, TLC

\* A pod of two VMs, a vm_add, and a job with a VM from before the placements.
CONSTANTS pod, add, old, a, b, c, r

MCPlan == pod :> {a, b} @@ add :> {c} @@ old :> {r}
MCRam == a :> 1 @@ b :> 1 @@ c :> 1 @@ r :> 0
MCSymmetry == Permutations(Hosts) \cup Permutations({a, b})
=============================================================================
