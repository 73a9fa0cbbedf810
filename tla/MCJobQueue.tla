---------------------------- MODULE MCJobQueue ----------------------------
(* Small instances of JobQueue for TLC: each job is a model value named after *)
(* its type.                                                                  *)
EXTENDS JobQueue, FiniteSets, TLC

CONSTANTS create, destroy, template, image, replica

TypeNames == (create :> "pod_create") @@ (destroy :> "pod_destroy") @@
             (template :> "template_provision") @@ (image :> "image_import") @@
             (replica :> "template_replica_build")

MCType == [j \in Jobs |-> TypeNames[j]]

TokenSymmetry == Permutations(Tokens)

\* An execution that lost its row never owns it again, and of all it can do only
\* the handoff of a rollback step in its body is not refused: the rest of its
\* local state, and the lease of a row nobody holds, are not told apart.
ObservedRun(c) ==
    IF Live(c) /\ ~Owns(c)
    THEN [IdleRun EXCEPT !.job = JobOf(c), !.pc = IF runs[c].pc = "body" THEN "body" ELSE "settle"]
    ELSE runs[c]

ObservedRow(j) ==
    [jobs[j] EXCEPT !.expired = @ /\ jobs[j].status \in Active,
                    !.due = @ /\ jobs[j].status = "pending"]

Observed == <<[j \in Jobs |-> ObservedRow(j)], [c \in Tokens |-> ObservedRun(c)],
              claimsOn, lastClaim, settledBy>>

\* Bound: a behaviour creates one job, of whichever type; the jobs of a queue
\* share no state.
MaxJobs == 1
FewJobs == Cardinality({j \in Jobs : jobs[j].status # "absent"}) <= MaxJobs
=============================================================================
