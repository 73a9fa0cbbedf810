--------------------------- MODULE MCPodLifecycle ---------------------------
(***************************************************************************)
(* PodLifecycle for TLC: tokens are interchangeable.                       *)
(***************************************************************************)
EXTENDS PodLifecycle, TLC

Symmetry == Permutations(Tokens)

\* What guards and the pod and job properties read: not the firewall's state, not
\* how a VM job or a destroy job ended (a manual cleanup apart), nothing of the
\* steps of a terminal job, and of earlier retries only while the pod is pending.
ObservedJob(p, k) ==
    LET row == jobs[p][k] IN
    [row EXCEPT !.status = IF @ \in Terminal /\ k # "create" THEN "failed" ELSE @,
                !.steps = @ /\ row.status \notin Terminal,
                !.retried = @ /\ pods[p].status = "pending"]

Observed == <<pods, vlans, [p \in Pods |-> [k \in Kinds |-> ObservedJob(p, k)]], runs>>

\* Bound: a behaviour has a sweep of failed destructions or a VM job, not both.
SweepOrVMJob ==
    \A p \in Pods : pods[p].sweeps > 0 => jobs[p]["vm"].status = "absent"
=============================================================================
