---------------------------- MODULE ReplicaBuild ----------------------------
(***************************************************************************)
(* Durable builds of retained source replicas: the build rows, the jobs     *)
(* that run them, the replica rows, the VMs in vCenter and the VM           *)
(* placements that use a replica as their source, for one template.         *)
(*                                                                         *)
(* A replica row is named by its compute resource, which is unique for a    *)
(* template.  A build owns at most one retained clone and one canary, each  *)
(* with its own operation marker, so vc[b] is all of vCenter that concerns  *)
(* b.  Every write of a run is fenced by its claim, so the row a run holds  *)
(* in memory is the stored row until the claim is lost; all a run that lost *)
(* its claim can still do is the vCenter call it armed (late).              *)
(***************************************************************************)
EXTENDS Naturals

CONSTANTS
    Builds,       \* build ids
    Computes,     \* compute resources
    None,
    Facts,        \* what vCenter may have built, "exact" or a defect
    MaxRetries,   \* max_retries of a build job
    MaxRestarts,  \* bound: operator restarts of one build
    Accepted      \* builds accepted before the behaviour starts

ASSUME NoneApart == None \notin Builds \cup Computes
ASSUME FactsNamed == "exact" \in Facts
                     /\ Facts \subseteq {"exact", "misplaced", "linked", "encrypted"}
ASSUME BoundsAreNat == MaxRetries \in Nat /\ MaxRestarts \in Nat
ASSUME OneAccepted == Accepted \subseteq Builds /\ \A a, b \in Accepted : a = b

VARIABLES
    build,     \* template_source_replica_builds
    job,       \* the job linked to each build
    run,       \* where the run holding the claim is
    late,      \* vCenter calls armed by runs that lost their claim
    vc,        \* the VMs of each build
    replica,   \* template_source_replicas
    placed     \* replicas some vm_placements row uses as source

vars == <<build, job, run, late, vc, replica, placed>>

Forward == {"pending", "clone_submitting", "clone_submitted", "validating",
            "snapshot_submitting", "snapshot_submitted", "canary_prepared",
            "canary_submitting", "canary_submitted", "cleanup_prepared",
            "cleanup_submitting", "cleanup_submitted", "finalizing"}
Residue == {"residue_prepared", "residue_submitting", "residue_submitted", "residue_cleaned"}
Phases == Forward \cup Residue \cup {"none", "ready", "failed", "cleanup_required", "retired"}
Active == {"pending", "running", "cleanup_required", "retiring"}
Calls == {"clone", "snapshot", "canary", "canary_cleanup", "residue_cleanup"}

Build == [status : Active \cup {"none", "ready", "failed", "retired"}, phase : Phases,
          resume : Forward, source : Computes \cup {None}, compute : Computes \cup {None},
          result : BOOLEAN,      \* result_replica_id is set
          dest : BOOLEAN,        \* destination_vm_moref
          snapshot : BOOLEAN,    \* destination_snapshot_moref
          canary : BOOLEAN,      \* canary_vm_moref
          cdone : BOOLEAN,       \* cleanup_completed_at
          cleaned : BOOLEAN,     \* residue_cleaned_at
          code : {"", "task_failed", "other"}]

Jobs == [st : {"none", "pending", "active", "ended"}, cleanup : BOOLEAN,
         tries : 0 .. MaxRetries, restarts : 0 .. MaxRestarts]

VMStates == {"none", "running", "failed", "exists", "destroying", "gone"}
Created == {"clone", "snapshot", "canary"}

VMs == [clone : VMStates, canary : VMStates, snapshot : {"none", "running", "failed", "exists"},
        facts : Facts, submits : [Created -> 0 .. 2]]

Replica == [st : {"none", "pending", "ready", "unhealthy", "disabled"}, of : Builds \cup {None}]

\* The types of the state.
TypeOK ==
    /\ build \in [Builds -> Build]
    /\ job \in [Builds -> Jobs]
    /\ run \in [Builds -> Calls \cup {"idle", "step", "end"}]
    /\ late \in [Builds -> SUBSET Calls]
    /\ vc \in [Builds -> VMs]
    /\ replica \in [Computes -> Replica]
    /\ placed \subseteq Computes

NoBuild == [status |-> "none", phase |-> "none", resume |-> "pending", source |-> None,
            compute |-> None, result |-> FALSE, dest |-> FALSE, snapshot |-> FALSE,
            canary |-> FALSE, cdone |-> FALSE, cleaned |-> FALSE, code |-> ""]

NoReplica == [st |-> "none", of |-> None]

\* An accepted build: its canary came and went, its replica is ready.
AcceptedBuild(src, dst) ==
    [NoBuild EXCEPT !.status = "ready", !.phase = "ready", !.source = src, !.compute = dst,
                    !.result = TRUE, !.dest = TRUE, !.snapshot = TRUE, !.canary = TRUE, !.cdone = TRUE]

AcceptedVMs == [clone |-> "exists", canary |-> "gone", snapshot |-> "exists", facts |-> "exact",
                submits |-> [x \in Created |-> 1]]

NoVMs == [clone |-> "none", canary |-> "none", snapshot |-> "none", facts |-> "exact",
          submits |-> [x \in Created |-> 0]]

\* One source registered by an operator, and the replicas accepted so far.
Init ==
    \E src, dst \in Computes :
      /\ src # dst
      /\ build = [b \in Builds |-> IF b \in Accepted THEN AcceptedBuild(src, dst) ELSE NoBuild]
      /\ job = [b \in Builds |-> [st |-> IF b \in Accepted THEN "ended" ELSE "none",
                                  cleanup |-> FALSE, tries |-> 0, restarts |-> 0]]
      /\ run = [b \in Builds |-> "idle"]
      /\ late = [b \in Builds |-> {}]
      /\ vc = [b \in Builds |-> IF b \in Accepted THEN AcceptedVMs ELSE NoVMs]
      /\ replica = [c \in Computes |->
                      IF c = src THEN [st |-> "ready", of |-> None]
                      ELSE IF c = dst /\ Accepted # {} THEN [st |-> "ready", of |-> CHOOSE b \in Accepted : TRUE]
                      ELSE NoReplica]
      /\ placed = {}

-----------------------------------------------------------------------------
\* Rows.

Exists(c) == replica[c].st # "none"
AnchorReady(b) == build[b].source # None /\ replica[build[b].source].st = "ready"

\* A build that released everything: deletes and retirements may ignore it.
Terminal(b) ==
    \/ build[b].status \in {"none", "retired"}
    \/ /\ build[b].status = "failed"
       /\ ~build[b].result
       /\ (~build[b].dest \/ build[b].cleaned)

\* Builds that still depend on the replica at c as their source.
Dependents(c) == {b \in Builds : build[b].source = c /\ ~Terminal(b)}

Released(bs, c) ==
    [b \in Builds |-> IF bs[b].source = c /\ Terminal(b) THEN [bs[b] EXCEPT !.source = None] ELSE bs[b]]

HasUnsafeTemplateReplicaBuildForDeletion ==
    \E b \in Builds : \/ build[b].status \in Active \cup {"ready"}
                      \/ (build[b].dest /\ ~build[b].cleaned)
                      \/ build[b].result

IsTemplateReplicaBuildForwardPhase(p) == p \in Forward

-----------------------------------------------------------------------------
\* Operator requests.

\* Registers an existing VM as a source; one replica per compute resource.
AdminCreateTemplateSourceReplica(c) ==
    /\ ~Exists(c)
    /\ replica' = [replica EXCEPT ![c] = [st |-> "ready", of |-> None]]
    /\ UNCHANGED <<build, job, run, late, vc, placed>>

\* Refused while an unsettled build names the replica, or a placement does.
DeleteTemplateSourceReplica(c) ==
    /\ Exists(c) /\ c \notin placed
    /\ \A b \in Builds : (build[b].source = c \/ (build[b].result /\ build[b].compute = c)) => Terminal(b)
    /\ build' = Released(build, c)
    /\ replica' = [replica EXCEPT ![c] = NoReplica]
    /\ UNCHANGED <<job, run, late, vc, placed>>

\* The admission: a ready anchor, a free compute resource, the build and its
\* job in one transaction.  An idempotent replay changes nothing.
CreateTemplateReplicaBuild(b, src, dst) ==
    /\ build[b].status = "none" /\ \A a \in Builds : a < b => build[a].status # "none"
    /\ replica[src].st = "ready" /\ ~Exists(dst)
    /\ \A a \in Builds : build[a].compute = dst => build[a].status \notin Active
    /\ build' = [build EXCEPT ![b] = [NoBuild EXCEPT !.status = "pending", !.phase = "pending",
                                                     !.source = src, !.compute = dst]]
    /\ job' = [job EXCEPT ![b].st = "pending"]
    /\ UNCHANGED <<run, late, vc, replica, placed>>

\* A placement is written only while its source is ready, under a key share
\* lock of the replica row.
PlaceVM(c) ==
    /\ replica[c].st = "ready"
    /\ placed' = placed \cup {c}
    /\ UNCHANGED <<build, job, run, late, vc, replica>>

ReleasePlacement(c) ==
    /\ c \in placed
    /\ placed' = placed \ {c}
    /\ UNCHANGED <<build, job, run, late, vc, replica>>

\* The linked job must have ended.
Restartable(b) ==
    /\ job[b].st = "ended" /\ build[b].source # None
    /\ job[b].restarts < MaxRestarts

Relinked(b, cleanup) ==
    job' = [job EXCEPT ![b] = [st |-> "pending", cleanup |-> cleanup, tries |-> 0,
                               restarts |-> job[b].restarts + 1]]

\* The unique index over the active builds of a compute resource.
ComputeFree(b) == \A a \in Builds \ {b} : build[a].compute = build[b].compute => build[a].status \notin Active

RetryTemplateReplicaBuild(b) ==
    /\ Restartable(b) /\ AnchorReady(b) /\ ComputeFree(b)
    /\ build[b].status = "failed" /\ build[b].code # "task_failed" /\ ~build[b].cleaned
    /\ IsTemplateReplicaBuildForwardPhase(build[b].resume)
    /\ build' = [build EXCEPT ![b].status = "running", ![b].phase = build[b].resume, ![b].code = ""]
    /\ Relinked(b, FALSE)
    /\ UNCHANGED <<run, late, vc, replica, placed>>

CleanupTemplateReplicaBuild(b) ==
    /\ Restartable(b) /\ ComputeFree(b)
    /\ build[b].status \in {"failed", "cleanup_required"}
    /\ build' = [build EXCEPT ![b].status = "cleanup_required", ![b].phase = build[b].resume,
                              ![b].code = ""]
    /\ Relinked(b, TRUE)
    /\ UNCHANGED <<run, late, vc, replica, placed>>

\* Mutant: builds that copy the result do not keep it from being retired.
RetireDespiteDependents(b) ==
    /\ Restartable(b) /\ ComputeFree(b)
    /\ build[b].status \in {"ready", "retiring"}
    /\ build[b].result /\ build[b].dest /\ build[b].source # build[b].compute
    /\ AnchorReady(b)
    /\ replica[build[b].compute].st = IF build[b].status = "ready" THEN "ready" ELSE "disabled"
    /\ build[b].compute \notin placed
    /\ replica' = [replica EXCEPT ![build[b].compute].st = "disabled"]
    /\ build' = [build EXCEPT ![b].status = "retiring", ![b].phase = "residue_prepared",
                              ![b].cleaned = FALSE, ![b].code = "other"]
    /\ Relinked(b, TRUE)
    /\ UNCHANGED <<run, late, vc, placed>>

\* Cleanup of a ready build: the result stops being selectable first.
RetireReadyBuild(b) ==
    /\ Restartable(b) /\ ComputeFree(b)
    /\ build[b].status \in {"ready", "retiring"}
    /\ build[b].result /\ build[b].dest /\ build[b].source # build[b].compute
    /\ AnchorReady(b)
    /\ replica[build[b].compute].st = IF build[b].status = "ready" THEN "ready" ELSE "disabled"
    /\ build[b].compute \notin placed
    /\ Dependents(build[b].compute) \ {b} = {}
    /\ replica' = [replica EXCEPT ![build[b].compute].st = "disabled"]
    /\ build' = [build EXCEPT ![b].status = "retiring", ![b].phase = "residue_prepared",
                              ![b].cleaned = FALSE, ![b].code = "other"]
    /\ Relinked(b, TRUE)
    /\ UNCHANGED <<run, late, vc, placed>>

-----------------------------------------------------------------------------
\* The job: claim, lost lease, the end of a run.

Claim(b) ==
    /\ job[b].st = "pending"
    /\ job' = [job EXCEPT ![b].st = "active"]
    /\ run' = [run EXCEPT ![b] = "step"]
    /\ UNCHANGED <<build, late, vc, replica, placed>>

\* The lease expires and recovery requeues the job; the old run may still
\* make the call it armed.
LeaseLost(b) ==
    /\ job[b].st = "active"
    /\ job' = [job EXCEPT ![b].st = "pending"]
    /\ run' = [run EXCEPT ![b] = "idle"]
    /\ late' = [late EXCEPT ![b] = @ \cup ({run[b]} \cap Calls)]
    /\ UNCHANGED <<build, vc, replica, placed>>

\* The terminal write of processJobLifecycle.
JobEnds(b) ==
    /\ run[b] = "end"
    /\ job' = [job EXCEPT ![b].st = "ended"]
    /\ run' = [run EXCEPT ![b] = "idle"]
    /\ UNCHANGED <<build, late, vc, replica, placed>>

\* saveReplicaBuildState: the compare-and-swap on the phase cannot fail while
\* the claim is held.
Save(b, row) == build' = [build EXCEPT ![b] = row]
Goes(b, where) == run' = [run EXCEPT ![b] = where]

\* The status and the checkpoint the error and the row call for.
Failed(row, err) ==
    LET residue == err = "ambiguous" \/ (row.dest /\ ~row.cleaned)
    IN  [row EXCEPT
           !.status = IF row.status = "retiring" THEN "retiring"
                      ELSE IF residue THEN "cleanup_required" ELSE "failed",
           !.phase = IF residue THEN "cleanup_required" ELSE "failed",
           !.code = IF err = "task" /\ ~residue /\ row.status # "retiring" THEN "task_failed" ELSE "other",
           !.resume = IF row.status \in {"pending", "running"} /\ row.phase \in Forward
                      THEN row.phase ELSE @]

FailTemplateReplicaBuild(b, row, err) ==
    /\ build' = [build EXCEPT ![b] = Failed(row, err)]
    /\ replica' = IF row.result /\ row.status # "retiring" /\ replica[row.compute].st # "ready"
                  THEN [replica EXCEPT ![row.compute] = [st |-> "unhealthy", of |-> b]] ELSE replica

\* A run that returns err with the row saved so far: a requeue while the
\* error is retryable and retries are left, the failed build otherwise.
Returns(b, row, err) ==
    \/ /\ err \in {"wait", "plain"} /\ job[b].tries < MaxRetries
       /\ Save(b, row)
       /\ job' = [job EXCEPT ![b].st = "pending", ![b].tries = @ + 1]
       /\ Goes(b, "idle")
       /\ UNCHANGED replica
    \/ /\ err # "wait" \/ job[b].tries = MaxRetries
       /\ FailTemplateReplicaBuild(b, row, err)
       /\ Goes(b, "end")
       /\ UNCHANGED job

\* The armed submission may still be found later, or its deadline has passed.
Unresolved(b, row) == \E err \in {"wait", "ambiguous"} : Returns(b, row, err)

At(b, phases) == run[b] = "step" /\ build[b].phase \in phases
Advance(b, row) == Save(b, row) /\ Goes(b, "step") /\ UNCHANGED <<job, replica>>
Arm(b, row, call) == Save(b, row) /\ Goes(b, call) /\ UNCHANGED <<job, replica>>

-----------------------------------------------------------------------------
\* vCenter.

Submit(b, x) == vc' = [vc EXCEPT ![b][x] = "running", ![b].submits[x] = @ + 1]
Destroy(b, x) == vc' = [vc EXCEPT ![b][x] = IF @ = "exists" THEN "destroying" ELSE @]

FindReplicaBuildVM(b) == vc[b].clone \in {"exists", "destroying"}
FindReplicaBuildCanary(b) == vc[b].canary \in {"exists", "destroying"}
FindReplicaSnapshot(b) == vc[b].snapshot = "exists"

\* A wait for the task behind x returns "ok", the task's own failure or the
\* operational deadline; any other error of the call is reported as the
\* task's failure as well.
WaitTaskResult(b, x) ==
    (IF vc[b][x] = "exists" THEN {"ok"} ELSE {}) \cup {"failed", "deadline"}

\* The same for a destroy task.
WaitReplicaBuildCleanupTask(b, x) ==
    (IF vc[b][x] = "gone" THEN {"ok"} ELSE {}) \cup {"failed", "deadline"}

TaskEnds(b) ==
    \/ /\ vc[b].clone = "running"
       /\ \E s \in {"exists", "failed"}, f \in Facts :
             vc' = [vc EXCEPT ![b].clone = s, ![b].facts = IF s = "exists" THEN f ELSE "exact"]
    \/ /\ vc[b].snapshot = "running"
       /\ \E s \in {"exists", "failed"} : vc' = [vc EXCEPT ![b].snapshot = s]
    \/ /\ vc[b].canary = "running"
       /\ \E s \in {"exists", "failed"} : vc' = [vc EXCEPT ![b].canary = s]
    \/ \E x \in {"clone", "canary"}, s \in {"gone", "exists"} :
          vc[b][x] = "destroying" /\ vc' = [vc EXCEPT ![b][x] = s]

VCenterTask(b) == TaskEnds(b) /\ UNCHANGED <<build, job, run, late, replica, placed>>

\* What an armed call does when it reaches vCenter.
Effect(b, call) ==
    CASE call = "canary_cleanup" -> Destroy(b, "canary")
      [] call = "residue_cleanup" -> Destroy(b, "clone")
      [] OTHER -> Submit(b, call)

LateCall(b) ==
    \E call \in late[b] :
       /\ Effect(b, call)
       /\ late' = [late EXCEPT ![b] = @ \ {call}]
       /\ UNCHANGED <<build, job, run, replica, placed>>

\* The phase saved with the task reference of a call.
SubmittedPhase(call) ==
    CASE call = "clone" -> "clone_submitted"
      [] call = "snapshot" -> "snapshot_submitted"
      [] call = "canary" -> "canary_submitted"
      [] call = "canary_cleanup" -> "cleanup_submitted"
      [] OTHER -> "residue_submitted"

\* The armed call: accepted and answered, accepted with its answer lost, or
\* rejected.  A cleanup job ends its attempt after a destroy was submitted.
Call(b) ==
    LET row == build[b]
        done == [row EXCEPT !.phase = SubmittedPhase(run[b])]
        destroys == run[b] \in {"canary_cleanup", "residue_cleanup"}
        vm == IF run[b] = "residue_cleanup" THEN "clone" ELSE "canary"
    IN  /\ run[b] \in Calls
        /\ \/ /\ destroys => vc[b][vm] = "exists"
              /\ Effect(b, run[b])
              /\ IF job[b].cleanup THEN Returns(b, done, "wait") ELSE Advance(b, done)
           \/ destroys /\ vc[b][vm] = "gone" /\ Advance(b, row) /\ UNCHANGED vc
           \/ Effect(b, run[b]) /\ Returns(b, row, "plain")
           \/ \E err \in {"plain", "ambiguous"} :
                /\ err = "ambiguous" => run[b] = "clone"
                /\ Returns(b, row, err) /\ UNCHANGED vc
        /\ UNCHANGED <<late, placed>>

-----------------------------------------------------------------------------
\* executeTemplateReplicaBuild, one action per phase.

Executing(b, phases) == At(b, phases) /\ ~job[b].cleanup /\ UNCHANGED <<vc, late, placed>>

StartReplicaBuildClone(b) ==
    /\ Executing(b, {"pending"})
    /\ \/ Arm(b, [build[b] EXCEPT !.status = "running", !.phase = "clone_submitting"], "clone")
       \/ \E err \in {"plain", "ambiguous"} : Returns(b, build[b], err)

\* Mutant: a clone that is not found is submitted again.
ReconcileResubmits(b) ==
    /\ Executing(b, {"clone_submitting"})
    /\ IF FindReplicaBuildVM(b) THEN Advance(b, [build[b] EXCEPT !.dest = TRUE, !.phase = "validating"])
                                ELSE Arm(b, build[b], "clone")

ReconcileClone(b) ==
    LET found == [build[b] EXCEPT !.dest = TRUE, !.phase = "validating"]
    IN  /\ Executing(b, {"clone_submitting"})
        /\ IF FindReplicaBuildVM(b) THEN Advance(b, found) \/ Returns(b, build[b], "ambiguous")
                                    ELSE Unresolved(b, build[b])

\* A failed task that left a marked VM behind keeps the phase, reserves the
\* replica and fails the build; a VM found after the deadline is accepted.
WaitReplicaBuildCloneTask(b) ==
    LET dest == [build[b] EXCEPT !.dest = TRUE]
        found == [dest EXCEPT !.phase = "validating"]
    IN  /\ Executing(b, {"clone_submitted"})
        /\ \E r \in WaitTaskResult(b, "clone") :
             IF r = "ok" \/ (r = "deadline" /\ FindReplicaBuildVM(b)) THEN Advance(b, found)
             ELSE IF r = "deadline" THEN Returns(b, build[b], "wait")
             ELSE IF ~FindReplicaBuildVM(b) THEN Returns(b, build[b], "task")
             ELSE IF Exists(dest.compute) THEN Returns(b, dest, "plain")
             ELSE Returns(b, [dest EXCEPT !.result = TRUE], "task")

\* The reservation: the unique key of the replica row may be taken.
EnsurePendingReplicaForBuild(b) ==
    /\ Executing(b, {"validating"}) /\ ~build[b].result
    /\ IF Exists(build[b].compute) THEN Returns(b, build[b], "plain")
       ELSE /\ build' = [build EXCEPT ![b].result = TRUE]
            /\ replica' = [replica EXCEPT ![build[b].compute] = [st |-> "pending", of |-> b]]
            /\ UNCHANGED <<job, run>>

\* The checks before the seal.
ValidatePlacement(f) == f # "misplaced"
\* Mutant: the disks of the clone are not compared with the source's.
HardwareUnchecked(f) == f \in Facts
ValidateReplicaBuildHardware(f) == f # "linked"
ValidateReplicaBuildEncryption(f) == f # "encrypted"
ValidateReplicaBuildClone(b) ==
    /\ ValidatePlacement(vc[b].facts)
    /\ ValidateReplicaBuildHardware(vc[b].facts)
    /\ ValidateReplicaBuildEncryption(vc[b].facts)
    /\ vc[b].snapshot = "none"

StartReplicaBuildSnapshot(b) ==
    /\ Executing(b, {"validating"}) /\ build[b].result
    /\ \/ ValidateReplicaBuildClone(b) /\ Arm(b, [build[b] EXCEPT !.phase = "snapshot_submitting"], "snapshot")
       \/ Returns(b, build[b], "plain")

Sealed(b) == Advance(b, [build[b] EXCEPT !.snapshot = TRUE, !.phase = "canary_prepared"])

ReconcileSnapshot(b) ==
    /\ Executing(b, {"snapshot_submitting"})
    /\ IF FindReplicaSnapshot(b) THEN Sealed(b) ELSE Unresolved(b, build[b])

WaitReplicaBuildSnapshotTask(b) ==
    /\ Executing(b, {"snapshot_submitted"})
    /\ \E r \in WaitTaskResult(b, "snapshot") :
          IF r = "ok" \/ FindReplicaSnapshot(b) THEN Sealed(b)
          ELSE Returns(b, build[b], IF r = "failed" THEN "task" ELSE "wait")

StartReplicaBuildCanary(b) ==
    /\ Executing(b, {"canary_prepared"})
    /\ \/ Arm(b, [build[b] EXCEPT !.phase = "canary_submitting"], "canary")
       \/ \E err \in {"plain", "ambiguous"} : Returns(b, build[b], err)

CanaryFound(b) == Advance(b, [build[b] EXCEPT !.canary = TRUE, !.phase = "cleanup_prepared"])

ReconcileCanary(b) ==
    /\ Executing(b, {"canary_submitting"})
    /\ IF FindReplicaBuildCanary(b) THEN CanaryFound(b) ELSE Unresolved(b, build[b])

WaitReplicaBuildCanaryTask(b) ==
    /\ Executing(b, {"canary_submitted"})
    /\ \E r \in WaitTaskResult(b, "canary") :
          IF r = "ok" \/ FindReplicaBuildCanary(b) THEN CanaryFound(b)
          ELSE Returns(b, build[b], IF r = "failed" THEN "task" ELSE "wait")

\* The marker of a VM can be read as long as the VM is there.
ValidateReplicaBuildMarker(b, x) == vc[b][x] # "gone"

\* The canary must be the linked clone of the retained VM.
ValidateReplicaBuildCanary(b) == ValidateReplicaBuildMarker(b, "canary")

\* The canary is validated before its cleanup is first armed; afterwards its
\* absence is the goal.
StartReplicaBuildCanaryCleanup(b) ==
    LET row == build[b]
    IN  /\ Executing(b, {"cleanup_prepared", "cleanup_submitting"})
        /\ \/ /\ row.phase = "cleanup_submitting" \/ ValidateReplicaBuildCanary(b)
              /\ IF ValidateReplicaBuildMarker(b, "canary")
                 THEN Arm(b, [row EXCEPT !.phase = "cleanup_submitting"], "canary_cleanup")
                 ELSE Advance(b, [row EXCEPT !.cdone = TRUE, !.phase = "finalizing"])
           \/ Returns(b, row, "plain")

\* Mutant: a destroy task that was submitted is believed.
DestroyBelieved(b, x, gone, prepared) ==
    \E r \in WaitReplicaBuildCleanupTask(b, x) : IF r = "failed" THEN Returns(b, prepared, "wait") ELSE gone

\* What a wait for a destroy task leaves to do: the VM is gone, the task
\* failed and the destroy may be armed again, or the deadline passed.
DestroyWaited(b, x, gone, prepared) ==
    \E r \in WaitReplicaBuildCleanupTask(b, x) :
       IF vc[b][x] = "gone" THEN gone
       ELSE Returns(b, IF r = "failed" THEN prepared ELSE build[b], "wait")

WaitCanaryCleanup(b) ==
    LET row == build[b]
    IN  /\ Executing(b, {"cleanup_submitted"})
        /\ DestroyWaited(b, "canary", Advance(b, [row EXCEPT !.cdone = TRUE, !.phase = "finalizing"]),
                         [row EXCEPT !.phase = "cleanup_prepared"])

\* Readiness of the replica and of the build in one transaction, after a
\* second look at the anchor.
FinalizeTemplateReplicaBuild(b) ==
    /\ Executing(b, {"finalizing"})
    /\ IF AnchorReady(b)
       THEN /\ replica[build[b].compute].st = "pending"
            /\ replica' = [replica EXCEPT ![build[b].compute].st = "ready"]
            /\ Save(b, [build[b] EXCEPT !.status = "ready", !.phase = "ready", !.code = ""])
            /\ Goes(b, "end") /\ UNCHANGED job
       ELSE Returns(b, build[b], "plain")

\* A run of a build that has ended already: requeued after its last write.
RunEndedBuild(b) ==
    /\ run[b] = "step" /\ UNCHANGED <<vc, late, placed>>
    /\ \/ /\ build[b].status \in {"ready", "retired"}
          /\ Goes(b, "end") /\ UNCHANGED <<build, job, replica>>
       \/ /\ build[b].status # "retired" /\ build[b].source = None
          /\ Returns(b, build[b], "refused")
       \/ /\ ~job[b].cleanup /\ build[b].source # None
          /\ build[b].phase \in {"failed", "cleanup_required"} \cup Residue
          /\ Returns(b, build[b], "refused")

-----------------------------------------------------------------------------
\* cleanupTemplateReplicaBuild: the canary, then the retained VM, then the
\* rows.

Cleanup(b) ==
    /\ run[b] = "step" /\ job[b].cleanup /\ build[b].source # None /\ build[b].status # "retired"
    /\ UNCHANGED <<vc, late, placed>>

\* No canary identity was saved.
CleanupUnknownCanary(b) ==
    LET row == build[b]
        found == [row EXCEPT !.canary = TRUE]
        absent == [row EXCEPT !.cdone = TRUE, !.phase = IF @ \in Residue THEN @ ELSE "residue_prepared"]
    IN  /\ Cleanup(b) /\ ~row.canary /\ ~row.cdone
        /\ IF row.phase \notin {"canary_submitting", "canary_submitted"} THEN Advance(b, absent)
           ELSE IF FindReplicaBuildCanary(b) THEN Advance(b, found)
           ELSE IF row.phase = "canary_submitting" THEN Unresolved(b, row)
           ELSE \E r \in WaitTaskResult(b, "canary") :
                   IF r = "failed" THEN Advance(b, absent) ELSE Returns(b, row, "wait")

CleanupCanary(b) ==
    LET row == build[b]
        gone == [row EXCEPT !.cdone = TRUE, !.phase = "residue_prepared"]
    IN  /\ Cleanup(b) /\ row.canary /\ ~row.cdone
        /\ IF row.phase = "cleanup_submitted"
           THEN DestroyWaited(b, "canary", Advance(b, gone), [row EXCEPT !.phase = "cleanup_prepared"])
           ELSE IF ~ValidateReplicaBuildMarker(b, "canary") THEN Advance(b, gone)
           ELSE \/ Arm(b, [row EXCEPT !.phase = "cleanup_submitting"], "canary_cleanup")
                \/ Returns(b, row, "plain")

\* The proof of absence and the end of the reservation, in one transaction.
CompleteTemplateReplicaBuildCleanup(b) ==
    LET row == build[b]
        c == row.compute
        retiring == row.status = "retiring"
        mayRelease == IF retiring
                      THEN /\ replica[c].st = "disabled" /\ AnchorReady(b)
                           /\ c \notin placed /\ Dependents(c) \ {b} = {}
                      ELSE row.result => replica[c].st # "ready"
        closed == [row EXCEPT !.status = IF retiring THEN "retired" ELSE "failed",
                              !.phase = IF retiring THEN "retired" ELSE "residue_cleaned",
                              !.result = FALSE, !.cleaned = TRUE, !.code = "other"]
    IN  IF mayRelease
        THEN /\ build' = [(IF retiring THEN Released(build, c) ELSE build) EXCEPT ![b] = closed]
             /\ replica' = IF row.result THEN [replica EXCEPT ![c] = NoReplica] ELSE replica
             /\ Goes(b, "end") /\ UNCHANGED job
        ELSE Returns(b, row, "refused")

\* No identity of the retained VM was saved: the checkpoint says whether one
\* may exist.
CleanupUnknownClone(b) ==
    LET row == build[b]
        found == [row EXCEPT !.dest = TRUE]
    IN  /\ Cleanup(b) /\ row.cdone /\ ~row.dest
        /\ IF FindReplicaBuildVM(b) THEN Advance(b, found)
           ELSE IF row.resume = "pending" THEN CompleteTemplateReplicaBuildCleanup(b)
           ELSE IF row.resume # "clone_submitted"
                THEN \E err \in {"ambiguous"} \cup (IF row.resume = "clone_submitting" THEN {"wait"} ELSE {}) :
                        Returns(b, row, err)
           ELSE \E r \in WaitTaskResult(b, "clone") :
                   IF r = "failed" THEN CompleteTemplateReplicaBuildCleanup(b) ELSE Returns(b, row, "wait")

CleanupClone(b) ==
    LET row == build[b]
    IN  /\ Cleanup(b) /\ row.cdone /\ row.dest
        /\ IF row.phase = "residue_submitted"
           THEN DestroyWaited(b, "clone", CompleteTemplateReplicaBuildCleanup(b),
                              [row EXCEPT !.phase = "residue_prepared"])
           ELSE IF ~ValidateReplicaBuildMarker(b, "clone") THEN CompleteTemplateReplicaBuildCleanup(b)
           ELSE \/ Arm(b, [row EXCEPT !.phase = "residue_submitting"], "residue_cleanup")
                \/ Returns(b, row, "plain")

-----------------------------------------------------------------------------
Operator ==
    \/ \E c \in Computes : \/ AdminCreateTemplateSourceReplica(c) \/ DeleteTemplateSourceReplica(c)
                           \/ PlaceVM(c) \/ ReleasePlacement(c)
    \/ \E b \in Builds : \/ \E src, dst \in Computes : CreateTemplateReplicaBuild(b, src, dst)
                         \/ RetryTemplateReplicaBuild(b) \/ CleanupTemplateReplicaBuild(b)
                         \/ RetireReadyBuild(b)

Worker(b) ==
    \/ Claim(b) \/ JobEnds(b) \/ Call(b)
    \/ StartReplicaBuildClone(b) \/ ReconcileClone(b) \/ WaitReplicaBuildCloneTask(b)
    \/ EnsurePendingReplicaForBuild(b) \/ StartReplicaBuildSnapshot(b) \/ ReconcileSnapshot(b)
    \/ WaitReplicaBuildSnapshotTask(b) \/ StartReplicaBuildCanary(b) \/ ReconcileCanary(b)
    \/ WaitReplicaBuildCanaryTask(b) \/ StartReplicaBuildCanaryCleanup(b) \/ WaitCanaryCleanup(b)
    \/ FinalizeTemplateReplicaBuild(b) \/ RunEndedBuild(b)
    \/ CleanupUnknownCanary(b) \/ CleanupCanary(b) \/ CleanupUnknownClone(b) \/ CleanupClone(b)

Next == Operator \/ \E b \in Builds : Worker(b) \/ LeaseLost(b) \/ LateCall(b) \/ VCenterTask(b)

Spec == Init /\ [][Next]_vars

-----------------------------------------------------------------------------
\* "clone, snapshot, and linked-clone creation remain never-resubmit
\* operations" (docs/instructor/troubleshooting.md): whatever answers are
\* lost and whichever run arms a call, vCenter gets each of them once.
NeverResubmitted == \A b \in Builds : \A x \in DOMAIN vc[b].submits : vc[b].submits[x] <= 1

\* A selectable replica that a build made is the accepted one: the retained
\* VM exists, is exact and sealed, and its canary is gone.
ReadyIsAccepted ==
    \A c \in Computes : replica[c].st = "ready" /\ replica[c].of # None =>
       LET b == replica[c].of
       IN  /\ build[b].status = "ready"
           /\ vc[b].clone = "exists" /\ vc[b].facts = "exact"
           /\ vc[b].snapshot = "exists" /\ vc[b].canary = "gone"

\* Cleanup is recorded on proof only: the VMs whose identities the build
\* saved are gone when their cleanup is written down.
CleansOnProof ==
    \A b \in Builds : /\ build'[b].cleaned /\ ~build[b].cleaned /\ build[b].dest => vc[b].clone = "gone"
                      /\ build'[b].cdone /\ ~build[b].cdone /\ build[b].canary => vc[b].canary = "gone"
CleanedOnProof == [][CleansOnProof]_vars

\* The VM a running build copies, and the VM a placement copies, is never a
\* retired replica: retirement, build admission, restart and placement
\* exclude each other.
SourceLives ==
    \A c \in Computes :
       c \in placed \/ (\E b \in Builds : build[b].source = c /\ build[b].status \in {"pending", "running"})
       => /\ Exists(c)
          /\ replica[c].of # None => vc[replica[c].of].clone = "exists"

\* "Template deletion returns 409 [...] while any replica build is active,
\* accepted, or still owns an uncleaned VM" (docs/instructor/templates.md):
\* a template that may be deleted has no VM of a build, now or in flight.
DeletableIsAbsent ==
    ~HasUnsafeTemplateReplicaBuildForDeletion =>
       \A b \in Builds : vc[b].clone \in {"none", "failed", "gone"} /\ vc[b].canary \in {"none", "failed", "gone"}
-----------------------------------------------------------------------------
\* The inductive invariant.  What concerns one build is said of the row it has,
\* of its job j, of the place r its run is at, of the late calls l and of its VMs v.

Running == {"pending", "running"}
BeforeClone == {"pending", "clone_submitting", "clone_submitted"}
BeforeSeal == BeforeClone \cup {"validating"}
BeforeCanary == BeforeSeal \cup {"snapshot_submitting", "snapshot_submitted", "canary_prepared"}
ArmedPhase(call) ==
    CASE call = "clone" -> "clone_submitting"
      [] call = "snapshot" -> "snapshot_submitting"
      [] call = "canary" -> "canary_submitting"
      [] call = "canary_cleanup" -> "cleanup_submitting"
      [] OTHER -> "residue_submitting"

\* Call x was not made, and no run, late or not, is about to make it.
Unsent(r, l, v, x) == v.submits[x] = 0 /\ r # x /\ x \notin l

\* A call that creates something is armed or made, once.
ArmedOnce(r, l, v) ==
    \A x \in Created :
       /\ v[x] = "none" <=> v.submits[x] = 0
       /\ \/ v.submits[x] = 0 /\ ~(r = x /\ x \in l)
          \/ v.submits[x] = 1 /\ r # x /\ x \notin l

\* The job follows the run; forward phases belong to running builds, or to a cleanup.
RunFollows(row, j, r, l, v) ==
    /\ r # "idle" <=> j.st = "active"
    /\ r \in Calls => row.phase = ArmedPhase(r)
    /\ row.status \in Running => row.phase \in Forward /\ ~j.cleanup
    /\ row.phase \in Forward \cup {"residue_submitting"} => row.status \in Running \/ j.cleanup
    /\ row.status = "retired" => row.phase = "retired"
    /\ row.status = "none" => /\ row = NoBuild /\ j.st = "none" /\ ~j.cleanup /\ l = {}
                              /\ \A x \in Created : Unsent(r, l, v, x)

\* The retained VM is destroyed only for a build that will never run again.
Residual(r, l, v) == r = "residue_cleanup" \/ "residue_cleanup" \in l \/ v.clone \in {"destroying", "gone"}
ResidueIsOver(row, r, l, v) ==
    Residual(r, l, v) => row.dest /\ row.status \notin Running \cup {"none", "ready"}

\* What the phase of a running build says of vCenter.
PhaseIsTrue(row, r, l, v) ==
    row.status \in Running =>
       /\ row.phase \notin BeforeClone => row.dest
       /\ row.phase = "pending" => Unsent(r, l, v, "clone")
       /\ row.phase \in BeforeSeal => Unsent(r, l, v, "snapshot")
       /\ row.phase \in BeforeCanary => Unsent(r, l, v, "canary")
       /\ row.dest => v.clone = "exists"
       /\ row.phase \notin BeforeSeal => v.facts = "exact" /\ row.result
       /\ row.phase \notin BeforeSeal \cup {"snapshot_submitting", "snapshot_submitted"} => v.snapshot = "exists"
       /\ row.phase = "finalizing" => v.canary = "gone"

\* What an operator may restart: no call was made that the phase to resume in would make again.
ResumeIsSafe(row, j, r, l, v) ==
    /\ ~row.dest => Unsent(r, l, v, "snapshot") /\ Unsent(r, l, v, "canary")
    /\ row.resume \notin BeforeClone => row.dest
    /\ row.status \in {"failed", "cleanup_required"} /\ row.resume = "pending" => Unsent(r, l, v, "clone")
    /\ row.status = "failed" /\ ~row.cleaned /\ (j.st = "ended" \/ r = "end") => ~row.dest

\* An accepted build is at rest and sound.
AcceptedIsSound(row, j, r, v) ==
    row.status = "ready" =>
       /\ row.phase = "ready" /\ ~j.cleanup /\ r \notin Calls /\ row.source # None
       /\ v.clone = "exists" /\ v.facts = "exact" /\ v.snapshot = "exists" /\ v.canary = "gone"

Honest(row, j, r, l, v) ==
    /\ ArmedOnce(r, l, v) /\ RunFollows(row, j, r, l, v) /\ ResidueIsOver(row, r, l, v)
    /\ PhaseIsTrue(row, r, l, v) /\ ResumeIsSafe(row, j, r, l, v) /\ AcceptedIsSound(row, j, r, v)

\* What the row of a build says of replicas.
RowHonest(row, rs) ==
    /\ row.result => row.compute # None /\ row.status \notin {"none", "retired"}
    /\ row.status # "none" => row.compute # None
    /\ row.status \in Running => row.source # None /\ rs[row.source].st = "ready"

\* A replica names the build that reserved it; a selectable one is accepted.
ReplicaHonest(c) ==
    /\ \A b \in Builds : replica[c].of = b <=> build[b].result /\ build[b].compute = c
    /\ replica[c].st = "none" => replica[c].of = None
    /\ replica[c].st = "ready" /\ replica[c].of # None => build[replica[c].of].status = "ready"
    /\ c \in placed => replica[c].st = "ready"

IInv ==
    /\ TypeOK
    /\ \A b \in Builds : Honest(build[b], job[b], run[b], late[b], vc[b]) /\ RowHonest(build[b], replica)
    /\ \A c \in Computes : ReplicaHonest(c)
=============================================================================
