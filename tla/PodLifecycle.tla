---------------------------- MODULE PodLifecycle ----------------------------
(***************************************************************************)
(* The life of a pod: its row, its VLAN of the pool, its create, destroy   *)
(* and VM jobs, and the executions that build it and tear it down.         *)
(*                                                                         *)
(* The queue appears only as far as pods depend on it (JobQueue has the    *)
(* rest): claiming and starting a job is one step, a lease may be          *)
(* recovered at any time, and the superseded execution runs on until it    *)
(* ends.  Pods are on private networks: network_mode "shared" has no VLAN. *)
(***************************************************************************)
EXTENDS Naturals

CONSTANTS
    Pods,         \* rows of the pods table
    Vlans,        \* rows of vlan_pool
    Tokens,       \* claim tokens
    None,
    VMJobTypes,   \* VM jobs that are queued: "vm_op", "vm_destroy" or both
    MaxSweeps     \* MaxDestroyFailedRetries

ASSUME NoneOutside == None \notin Pods \cup Vlans \cup Tokens
ASSUME VMJobsAssumption == VMJobTypes \subseteq {"vm_op", "vm_destroy"}
ASSUME SweepsAssumption == MaxSweeps \in Nat

VARIABLES
    pods,         \* pod rows, with the port group receipt and the VM row of the pod
    vlans,        \* vlan_pool.pod_id
    jobs,         \* the create, destroy and VM job of every pod
    runs,         \* executions, by claim token
    net           \* the firewall: VLAN tags with an interface, DHCP subnet and rules

vars == <<pods, vlans, jobs, runs, net>>

Kinds == {"create", "destroy", "vm"}
Statuses == {"absent", "pending", "provisioning", "active", "error", "destroying",
             "destroy_failed", "destroyed"}

\* podCreateCleanupStatusSafe: nothing is being built for the pod any more.
Gone == {"error", "destroying", "destroy_failed", "destroyed"}

Open == {"pending", "in_progress"}
Terminal == {"completed", "failed"}

PodRows == [status : Statuses, vlan : Vlans \cup {None},
            manual : BOOLEAN,                       \* error_message asks for manual cleanup
            sweeps : 0 .. MaxSweeps,                \* destroy_retry_count
            asked : {"no", "delete", "sweep"},      \* a destroy producer past its first read
            receipt : {"none", "live", "removed"},  \* pod_portgroup_receipts
            vm : {"none", "present", "deleted"}]    \* the pod's VM and its pod_vms row

JobRows == [status : {"absent"} \cup Open \cup Terminal, owner : Tokens \cup {None},
            retried : BOOLEAN,    \* retry_count > 0 of a create job
            cleanup : BOOLEAN,    \* payload.cleanup_only
            steps : BOOLEAN,      \* rollback steps or a staged clone are persisted
            manual : BOOLEAN,     \* result.manual_cleanup_required of a destroy job
            deletes : BOOLEAN]    \* a vm_destroy job, not another VM job

Phases == {"idle", "start", "net", "record", "portgroup", "clone", "poweron", "activate",
           "check", "refused", "begin", "undo", "final", "mark",
           "prepare", "vms", "ports", "network", "finalize", "fail", "fail_manual",
           "vmop", "empty", "settle"}

\* "error" may be retried or not: its class and the retry count decide.
Outcomes == {"ok", "error", "comp_retry", "compensated", "manual"}

RunRows == [pc : Phases, pod : Pods \cup {None}, kind : Kinds, next : Phases,
            cleanup : BOOLEAN,   \* payload.cleanup_only as claimed
            steps : BOOLEAN,     \* the rollback engine holds steps
            allow : BOOLEAN,     \* allowProvisioningTransition
            errs : BOOLEAN,      \* DestroyPod has collected errors
            out : Outcomes]

IdleRun == [pc |-> "idle", pod |-> None, kind |-> "create", next |-> "idle",
            cleanup |-> FALSE, steps |-> FALSE, allow |-> FALSE, errs |-> FALSE, out |-> "ok"]

TypeOK ==
    /\ pods \in [Pods -> PodRows]
    /\ vlans \in [Vlans -> Pods \cup {None}]
    /\ jobs \in [Pods -> [Kinds -> JobRows]]
    /\ runs \in [Tokens -> RunRows]
    /\ net \subseteq Vlans

NoPod == [status |-> "absent", vlan |-> None, manual |-> FALSE, sweeps |-> 0,
          asked |-> "no", receipt |-> "none", vm |-> "none"]
NoJob == [status |-> "absent", owner |-> None, retried |-> FALSE, cleanup |-> FALSE,
          steps |-> FALSE, manual |-> FALSE, deletes |-> FALSE]

Init ==
    /\ pods = [p \in Pods |-> NoPod]
    /\ vlans = [v \in Vlans |-> None]
    /\ jobs = [p \in Pods |-> [k \in Kinds |-> NoJob]]
    /\ runs = [c \in Tokens |-> IdleRun]
    /\ net = {}

-----------------------------------------------------------------------------
(* Helpers *)

PodOf(c) == runs[c].pod
JobOf(c) == jobs[PodOf(c)][runs[c].kind]
Owns(c) == JobOf(c).owner = c /\ JobOf(c).status = "in_progress"
At(c, pc, kind) == runs[c].pc = pc /\ runs[c].kind = kind
Fresh(c) == runs[c].pc = "idle" /\ \A p \in Pods, k \in Kinds : jobs[p][k].owner # c

Goto(c, pc) == runs' = [runs EXCEPT ![c].pc = pc]

\* The body returns; of its local state only what settling reads is left, and
\* nothing of an execution that lost its claim: all it would write is refused.
Settle(c, out) ==
    runs' = [runs EXCEPT ![c] =
                IF Owns(c) THEN [IdleRun EXCEPT !.pc = "settle", !.pod = PodOf(c),
                                    !.kind = runs[c].kind, !.cleanup = runs[c].cleanup, !.out = out]
                           ELSE IdleRun]
SetPod(p, row) == pods' = [pods EXCEPT ![p] = row]
SetJob(p, k, row) == jobs' = [jobs EXCEPT ![p][k] = row]

Requeued(row) == [row EXCEPT !.status = "pending", !.owner = None, !.manual = FALSE]

\* A terminal row, without what nobody reads of a terminal row.
EndedAs(row, status) == [NoJob EXCEPT !.status = status, !.steps = row.steps]

HoldsByItsRow(p) == pods[p].vlan # None  \* mutant: the pod row is taken at its word
HoldsVLAN(p) == pods[p].vlan # None /\ vlans[pods[p].vlan] = p

ReleaseVLAN(p) == vlans' = [v \in Vlans |-> IF vlans[v] = p THEN None ELSE vlans[v]]

-----------------------------------------------------------------------------
(* Producers *)

CreatePodCreateJobTx(p) == SetJob(p, "create", [NoJob EXCEPT !.status = "pending"])

\* The create request: pod row, VLAN checkout and create job in one transaction.
CreatePodRequest(p, v) ==
    /\ pods[p].status = "absent" /\ vlans[v] = None
    /\ SetPod(p, [pods[p] EXCEPT !.status = "pending", !.vlan = v])
    /\ vlans' = [vlans EXCEPT ![v] = p]
    /\ CreatePodCreateJobTx(p)
    /\ UNCHANGED <<runs, net>>

DestroyIntent(p) == jobs[p]["destroy"].status \in Open

PodRejectsMutatorJob(status) == status \in Gone \cup {"absent"}

\* CreateVMJob, and CreateVMAddJob which also wants an active pod.  The bound:
\* one VM job of a pod at a time.
CreateVMJob(p, t) ==
    /\ ~PodRejectsMutatorJob(pods[p].status) /\ ~DestroyIntent(p)
    /\ pods[p].vm # "deleted"
    /\ jobs[p]["vm"].status \notin Open
    /\ SetJob(p, "vm", [NoJob EXCEPT !.status = "pending", !.deletes = t = "vm_destroy"])
    /\ UNCHANGED <<pods, vlans, runs, net>>

\* DeletePod looks at the pod, the sweep lists and reserves it; both then act
\* on it in a later transaction.
RequestDelete(p) ==
    /\ pods[p].status \notin {"absent", "destroying", "destroyed"} /\ pods[p].asked = "no"
    /\ SetPod(p, [pods[p] EXCEPT !.asked = "delete"])
    /\ UNCHANGED <<vlans, jobs, runs, net>>

SweepReserve(p) ==
    /\ pods[p].status = "destroy_failed" /\ ~pods[p].manual
    /\ pods[p].sweeps < MaxSweeps /\ pods[p].asked = "no"
    /\ SetPod(p, [pods[p] EXCEPT !.asked = "sweep", !.sweeps = @ + 1])
    /\ UNCHANGED <<vlans, jobs, runs, net>>

\* CancelPendingPodIfNeverStarted: the pod, its job and its VLAN in one go.
Pristine(p) ==
    /\ pods[p].status = "pending" /\ pods[p].vm = "none" /\ pods[p].receipt = "none"
    /\ jobs[p]["create"].status = "pending"
    /\ ~jobs[p]["create"].retried /\ ~jobs[p]["create"].cleanup /\ ~jobs[p]["create"].steps
    /\ \A k \in {"destroy", "vm"} : jobs[p][k].status = "absent"
    /\ HoldsVLAN(p)

CancelPendingPod(p) ==
    /\ pods[p].asked = "delete" /\ Pristine(p)
    /\ SetPod(p, [pods[p] EXCEPT !.status = "destroyed", !.asked = "no", !.vm = "deleted"])
    /\ SetJob(p, "create", EndedAs(jobs[p]["create"], "failed"))
    /\ ReleaseVLAN(p)
    /\ UNCHANGED <<runs, net>>

\* rejectPodDestroyWithNonterminalMutator, but for the vm_destroy execution
\* that emptied the pod (`but` is its token, None for other producers).
IgnoresVMJobs(p, but) == jobs[p]["create"].status \notin Open  \* mutant
NoMutator(p, but) ==
    /\ jobs[p]["create"].status \notin Open
    /\ \/ jobs[p]["vm"].status \notin Open
       \/ but # None /\ jobs[p]["vm"].owner = but /\ jobs[p]["vm"].deletes
          /\ jobs[p]["vm"].status = "in_progress" /\ pods[p].vm = "deleted"

Required(p, need) ==
    CASE need = "always" -> TRUE
      [] need = "active" -> pods[p].status = "active"    \* expired, or suspended too long
      [] need = "empty"  -> pods[p].vm = "deleted"
      [] need = "failed" -> pods[p].status = "destroy_failed"

CanRestart(p, need) ==
    pods[p].status \notin {"absent", "destroyed"} \cup (IF need = "failed" THEN {} ELSE {"destroy_failed"})

CanInsert(p, need) ==
    /\ CanRestart(p, need) /\ pods[p].status # "destroying"
    /\ need = "failed" => HoldsVLAN(p)

\* createPodDestroyJob: insert the destroy job or restart the terminal one.
EnqueuesDestroy(p, need, but) ==
    LET row == jobs[p]["destroy"] IN
    /\ Required(p, need) /\ NoMutator(p, but)
    /\ \/ row.status = "absent" /\ CanInsert(p, need)
       \/ row.status \in Terminal /\ CanRestart(p, need) /\ HoldsVLAN(p)

QueueDestroy(p) ==
    SetJob(p, "destroy", [Requeued(jobs[p]["destroy"]) EXCEPT !.retried = FALSE])

\* The second transaction of DeletePod or of the sweep; it may find nothing to do.
DestroyRequested(p) ==
    /\ pods[p].asked # "no" /\ ~(pods[p].asked = "delete" /\ Pristine(p))
    /\ SetPod(p, [pods[p] EXCEPT !.asked = "no"])
    /\ IF EnqueuesDestroy(p, IF pods[p].asked = "sweep" THEN "failed" ELSE "always", None)
         THEN QueueDestroy(p) ELSE jobs' = jobs
    /\ UNCHANGED <<vlans, runs, net>>

\* The expiration and suspension sweeps.
ExpirePod(p) ==
    /\ EnqueuesDestroy(p, "active", None)
    /\ QueueDestroy(p)
    /\ UNCHANGED <<pods, vlans, runs, net>>

\* FinalizeOrphanedPodDestroy: an administrator attests the manual cleanup.
FinalizeOrphaned(p) ==
    /\ pods[p].status = "destroy_failed" /\ pods[p].manual /\ pods[p].receipt # "live"
    /\ jobs[p]["destroy"].status = "failed" /\ jobs[p]["destroy"].manual
    /\ \A k \in {"create", "vm"} : jobs[p][k].status \notin Open
    /\ SetPod(p, [pods[p] EXCEPT !.status = "destroyed", !.manual = FALSE])
    /\ SetJob(p, "destroy", EndedAs(jobs[p]["destroy"], "completed"))
    /\ ReleaseVLAN(p)
    /\ UNCHANGED <<runs, net>>

-----------------------------------------------------------------------------
(* The queue, as far as it matters here *)

FirstPhase(k, cleanup) ==
    CASE k = "create"  -> IF cleanup THEN "begin" ELSE "start"
      [] k = "destroy" -> "prepare"
      [] k = "vm"      -> "vmop"

\* A cleanup run with steps, or with a staged clone, may stop a pod that is
\* still provisioning.
CleanupCanTransition(row) == row.cleanup /\ row.steps

ClaimJob(c, p, k) ==
    LET row == jobs[p][k] IN
    /\ Fresh(c) /\ row.status = "pending"
    /\ SetJob(p, k, [row EXCEPT !.status = "in_progress", !.owner = c])
    /\ runs' = [runs EXCEPT ![c] = [IdleRun EXCEPT !.pc = FirstPhase(k, row.cleanup),
                   !.pod = p, !.kind = k, !.cleanup = row.cleanup, !.steps = row.steps,
                   !.allow = CleanupCanTransition(row)]]
    /\ UNCHANGED <<pods, vlans, net>>

\* The lease ran out: the row is claimable again, the old execution unaware.
RecoverJob(p, k) ==
    /\ jobs[p][k].status = "in_progress"
    /\ SetJob(p, k, Requeued(jobs[p][k]))
    /\ UNCHANGED <<pods, vlans, runs, net>>

Crash(c) ==
    /\ runs[c].pc # "idle"
    /\ runs' = [runs EXCEPT ![c] = IdleRun]
    /\ UNCHANGED <<pods, vlans, jobs, net>>

\* processJobLifecycle after the body: retry, cleanup retry or terminal write,
\* all of them refused unless the row is still owned.
CleanupMode(c) == runs[c].cleanup \/ runs[c].out = "comp_retry"

Settling(c) == runs[c].pc = "settle" /\ Owns(c)

EndRun(c, row) ==
    /\ SetJob(PodOf(c), runs[c].kind, row)
    /\ runs' = [runs EXCEPT ![c] = IdleRun]
    /\ UNCHANGED <<pods, vlans, net>>

CompleteJob(c) ==
    /\ Settling(c)
    /\ runs[c].out = "ok" /\ ~JobOf(c).cleanup
    /\ EndRun(c, EndedAs(JobOf(c), "completed"))

RetryJob(c) ==
    /\ Settling(c)
    /\ runs[c].out = "error" /\ ~CleanupMode(c)
    /\ EndRun(c, [Requeued(JobOf(c)) EXCEPT !.retried = runs[c].kind = "create", !.cleanup = FALSE])

RetryCleanup(c) ==
    /\ Settling(c)
    /\ CleanupMode(c) /\ runs[c].out \in {"comp_retry", "error"}
    /\ EndRun(c, [Requeued(JobOf(c)) EXCEPT !.retried = TRUE, !.cleanup = TRUE])

\* An ordinary error that is permanent, or whose retries are used up.
FailJob(c) ==
    /\ Settling(c)
    /\ \/ runs[c].out \in {"compensated", "manual"}
       \/ runs[c].out = "error" /\ ~CleanupMode(c)
    /\ EndRun(c, [EndedAs(JobOf(c), "failed") EXCEPT 
                    !.manual = runs[c].out = "manual" /\ runs[c].kind = "destroy"])

-----------------------------------------------------------------------------
(* CreatePod, forward *)

\* UpdatePodStatusFrom: compare and swap, not tied to the claim.
AnyStatus(p, from) == TRUE  \* mutant: an unconditional UPDATE
StatusIn(p, from) == pods[p].status \in from

StartCreate(c) ==
    /\ At(c, "start", "create")
    /\ IF StatusIn(PodOf(c), {"pending", "provisioning"})
         THEN /\ SetPod(PodOf(c), [pods[PodOf(c)] EXCEPT !.status = "provisioning"])
              /\ runs' = [runs EXCEPT ![c].pc = "check", ![c].next = "net"]
         ELSE pods' = pods /\ Goto(c, "refused")
    /\ UNCHANGED <<vlans, jobs, net>>

\* stopPodCreateIfStale after every step: go on only while still provisioning.
Recheck(c) ==
    /\ At(c, "check", "create")
    /\ CASE pods[PodOf(c)].status = "provisioning" ->
                runs' = [runs EXCEPT ![c].pc = runs[c].next, ![c].next = "idle"]
         [] pods[PodOf(c)].status = "active" -> Settle(c, "ok")
         [] OTHER -> runs' = [runs EXCEPT ![c].pc = "begin", ![c].next = "idle", ![c].allow = FALSE]
    /\ UNCHANGED <<pods, vlans, jobs, net>>

\* The same check after a refused compare-and-swap: the body returns anyway.
StopRefused(c) ==
    /\ At(c, "refused", "create")
    /\ IF pods[PodOf(c)].status \in {"provisioning", "active"} THEN Settle(c, "ok")
         ELSE runs' = [runs EXCEPT ![c].pc = "begin", ![c].next = "idle", ![c].allow = FALSE]
    /\ UNCHANGED <<pods, vlans, jobs, net>>

\* VLAN, interface, DHCP and rules are made, or found, by tag, then recorded.
BuildNetwork(c) ==
    /\ At(c, "net", "create")
    /\ net' = net \cup {pods[PodOf(c)].vlan}
    /\ Goto(c, "record")
    /\ UNCHANGED <<pods, vlans, jobs>>

RecordStep(c) ==
    /\ At(c, "record", "create") /\ Owns(c)
    /\ SetJob(PodOf(c), "create", [JobOf(c) EXCEPT !.steps = TRUE])
    /\ runs' = [runs EXCEPT ![c].pc = "check", ![c].next = "portgroup", ![c].steps = TRUE]
    /\ UNCHANGED <<pods, vlans, net>>

\* The step cannot be saved: Record hands it to a successor, reopening the job
\* for cleanup, or gives up.  A network step then returns the error as it is, the
\* port group's is compensated, the clone's asks for a cleanup retry.
HandoffStep(c) ==
    /\ runs[c].kind = "create" /\ runs[c].pc \in {"record", "portgroup", "clone"}
    /\ \/ /\ JobOf(c).status # "completed"
          /\ SetJob(PodOf(c), "create",
                    [Requeued(JobOf(c)) EXCEPT !.cleanup = TRUE, !.steps = TRUE])
       \/ jobs' = jobs
    /\ \/ runs[c].pc = "record" /\ Settle(c, "error")
       \/ runs[c].pc = "portgroup"
          /\ runs' = [runs EXCEPT ![c].pc = "begin", ![c].steps = TRUE, ![c].allow = TRUE]
       \/ runs[c].pc = "clone" /\ Settle(c, "comp_retry")
    /\ UNCHANGED <<pods, vlans, net>>

BuildPortGroup(c) ==
    /\ At(c, "portgroup", "create") /\ Owns(c) /\ pods[PodOf(c)].receipt # "removed"
    /\ SetPod(PodOf(c), [pods[PodOf(c)] EXCEPT !.receipt = "live"])
    /\ runs' = [runs EXCEPT ![c].pc = "check", ![c].next = "clone"]
    /\ UNCHANGED <<vlans, jobs, net>>

\* The VM row is not terminal, and its credentials are known.
MayClone(c) == pods[PodOf(c)].vm # "deleted"

\* The clone is armed, submitted and adopted under the claim.
CloneVM(c) ==
    /\ At(c, "clone", "create") /\ Owns(c) /\ MayClone(c)
    /\ SetPod(PodOf(c), [pods[PodOf(c)] EXCEPT !.vm = "present"])
    /\ runs' = [runs EXCEPT ![c].pc = "check", ![c].next = "poweron"]
    /\ UNCHANGED <<vlans, jobs, net>>

\* By boot order, then the guest's credentials and the first snapshot.  Minutes
\* pass here, and neither the pod nor the claim is looked at again.
PowerOnVMs(c) ==
    /\ At(c, "poweron", "create") /\ pods[PodOf(c)].vm = "present"
    /\ Goto(c, "activate")
    /\ UNCHANGED <<pods, vlans, jobs, net>>

Activate(c) ==
    /\ At(c, "activate", "create")
    /\ IF StatusIn(PodOf(c), {"provisioning"})
         THEN SetPod(PodOf(c), [pods[PodOf(c)] EXCEPT !.status = "active"]) /\ Settle(c, "ok")
         ELSE pods' = pods /\ Goto(c, "refused")
    /\ UNCHANGED <<vlans, jobs, net>>

\* A step fails: with compensation once something may exist, as it is before.
BuildFails(c) ==
    /\ runs[c].kind = "create"
    /\ \/ runs[c].pc \in {"net", "portgroup", "clone", "poweron"}
          /\ runs' = [runs EXCEPT ![c].pc = "begin", ![c].allow = TRUE]
       \/ runs[c].pc \in {"start", "check", "net", "clone", "poweron", "activate"}
          /\ Settle(c, "error")
    /\ UNCHANGED <<pods, vlans, jobs, net>>

-----------------------------------------------------------------------------
(* cleanupPodCreateResources *)

\* BeginPodCreateCleanup: one transaction over the job and the pod.
BeginAlways(p, allow) == TRUE  \* mutant: any pod may be compensated
MayBegin(p, allow) ==
    pods[p].status \in Gone \cup (IF allow THEN {"provisioning"} ELSE {})

BeginCleanup(c) ==
    LET p == PodOf(c) IN
    /\ At(c, "begin", "create") /\ Owns(c) /\ MayBegin(p, runs[c].allow)
    /\ SetPod(p, [pods[p] EXCEPT !.status = IF @ = "provisioning" THEN "error" ELSE @])
    /\ SetJob(p, "create", [JobOf(c) EXCEPT !.cleanup = TRUE])
    /\ runs' = [runs EXCEPT ![c].pc = "undo", ![c].allow = FALSE]
    /\ UNCHANGED <<vlans, net>>

\* Lease lost or database down: try again later; unsafe pod status: give up.
BeginFails(c) ==
    /\ At(c, "begin", "create")
    /\ \/ Settle(c, "comp_retry")
       \/ Owns(c) /\ ~MayBegin(PodOf(c), runs[c].allow) /\ Settle(c, "manual")
    /\ UNCHANGED <<pods, vlans, jobs, net>>

\* rb.Rollback and the staged clone, each undo fenced by the claim.  `undone`
\* is what could be removed before an error; without steps nothing happens.
\* The interface is found by VLAN tag, whoever uses the tag by now.
Undone(p, undone) ==
    /\ SetPod(p, [pods[p] EXCEPT
          !.vm = IF "vm" \in undone /\ @ = "present" THEN "none" ELSE @,
          !.receipt = IF "portgroup" \in undone /\ @ = "live" THEN "removed" ELSE @])
    /\ net' = IF "network" \in undone THEN net \ {pods[p].vlan} ELSE net

Rollback(c, undone) ==
    /\ At(c, "undo", "create") /\ runs[c].steps /\ Owns(c)
    /\ Undone(PodOf(c), undone)
    /\ IF undone = {"vm", "portgroup", "network"}
         THEN /\ SetJob(PodOf(c), "create", [JobOf(c) EXCEPT !.steps = FALSE])
              /\ runs' = [runs EXCEPT ![c].pc = "final", ![c].steps = FALSE]
         ELSE jobs' = jobs /\ Settle(c, "comp_retry")
    /\ UNCHANGED vlans

NothingToUndo(c) ==
    /\ At(c, "undo", "create") /\ ~runs[c].steps
    /\ Goto(c, "final")
    /\ UNCHANGED <<pods, vlans, jobs, net>>

\* AbandonUnsubmittedVMCloneOperation takes the cleanup mark off the row.
AbandonClone(c) ==
    /\ At(c, "undo", "create") /\ Owns(c) /\ JobOf(c).cleanup
    /\ SetJob(PodOf(c), "create", [JobOf(c) EXCEPT !.cleanup = FALSE])
    /\ UNCHANGED <<pods, vlans, runs, net>>

\* FinalizeNeverAppliedPodCreate, which does not look at the job.
FinalizeNeverApplied(c) ==
    LET p == PodOf(c) IN
    /\ At(c, "final", "create") /\ pods[p].status \in Gone
    /\ IF pods[p].receipt = "live" THEN UNCHANGED <<pods, vlans>>
         ELSE /\ SetPod(p, [pods[p] EXCEPT !.status = "destroyed", !.manual = FALSE])
              /\ ReleaseVLAN(p)
    /\ Goto(c, "mark")
    /\ UNCHANGED <<jobs, net>>

MarkCompensated(c) ==
    /\ At(c, "mark", "create") /\ Owns(c) /\ JobOf(c).cleanup
    /\ \E out \in {"compensated"} \cup (IF runs[c].cleanup THEN {} ELSE {"manual", "comp_retry"}) :
           Settle(c, out)
    /\ UNCHANGED <<pods, vlans, jobs, net>>

CleanupFails(c) ==
    /\ runs[c].kind = "create" /\ runs[c].pc \in {"undo", "final", "mark"}
    /\ Settle(c, "comp_retry")
    /\ UNCHANGED <<pods, vlans, jobs, net>>

-----------------------------------------------------------------------------
(* DestroyPod *)

\* PreparePodDestroy locks the owned job and the pod before anything is deleted.
PrepareDestroy(c) ==
    LET p == PodOf(c) IN
    /\ At(c, "prepare", "destroy") /\ Owns(c) /\ pods[p].status # "destroyed" /\ HoldsVLAN(p)
    /\ SetPod(p, [pods[p] EXCEPT !.status = "destroying", !.manual = FALSE])
    /\ Goto(c, "vms")
    /\ UNCHANGED <<vlans, jobs, net>>

\* Already destroyed, or a suspension that is over: no work.  A lost lease, a
\* lost VLAN or a database error ends the body.
PrepareStops(c) ==
    /\ At(c, "prepare", "destroy")
    /\ \/ Owns(c) /\ pods[PodOf(c)].status \in {"destroyed", "active"} /\ Settle(c, "ok")
       \/ Settle(c, "error")
    /\ UNCHANGED <<pods, vlans, jobs, net>>

\* Steps 1 and 2; an error is collected and the rest goes on.
DestroyVMs(c) ==
    LET p == PodOf(c) IN
    /\ At(c, "vms", "destroy")
    /\ \/ /\ SetPod(p, [pods[p] EXCEPT !.vm = IF @ = "present" THEN "none" ELSE @])
          /\ Goto(c, "ports")
       \/ /\ pods' = pods
          /\ runs' = [runs EXCEPT ![c].pc = "ports", ![c].errs = TRUE]
    /\ UNCHANGED <<vlans, jobs, net>>

\* Step 3: only the port groups of the durable receipt; an error stops.
DeletePortGroups(c) ==
    LET p == PodOf(c) IN
    /\ At(c, "ports", "destroy")
    /\ \/ /\ SetPod(p, [pods[p] EXCEPT !.receipt = IF @ = "live" THEN "removed" ELSE @])
          /\ Goto(c, "network")
       \/ pods' = pods /\ \E pc \in {"fail", "fail_manual"} :
             runs' = [runs EXCEPT ![c].pc = pc, ![c].errs = FALSE]
    /\ UNCHANGED <<vlans, jobs, net>>

\* Steps 4 to 7: DHCP by subnet, rules, interface and VLAN by tag.
DeleteNetwork(c) ==
    /\ At(c, "network", "destroy")
    /\ \/ net' = net \ {pods[PodOf(c)].vlan} /\ Goto(c, "finalize")
       \/ net' = net /\ runs' = [runs EXCEPT ![c].pc = "finalize", ![c].errs = TRUE]
       \/ net' = net /\ runs' = [runs EXCEPT ![c].pc = "fail", ![c].errs = FALSE]
    /\ UNCHANGED <<pods, vlans, jobs>>

CollectedErrors(c) ==
    /\ At(c, "finalize", "destroy") /\ runs[c].errs
    /\ runs' = [runs EXCEPT ![c].pc = "fail", ![c].errs = FALSE]
    /\ UNCHANGED <<pods, vlans, jobs, net>>

FinalizeDestroy(c) ==
    LET p == PodOf(c) IN
    /\ At(c, "finalize", "destroy") /\ ~runs[c].errs /\ Owns(c) /\ pods[p].status = "destroying"
    /\ SetPod(p, [pods[p] EXCEPT !.status = "destroyed"])
    /\ ReleaseVLAN(p)
    /\ Settle(c, "ok")
    /\ UNCHANGED <<jobs, net>>

FinalizeFails(c) ==
    /\ At(c, "finalize", "destroy") /\ ~runs[c].errs
    /\ Settle(c, "error")
    /\ UNCHANGED <<pods, vlans, jobs, net>>

\* failPodDestroy and failPodDestroyManual: UpdatePodStatus, unconditional and
\* not tied to the claim; the body fails whether or not it was applied.
WriteDestroyFailed(c) ==
    LET p == PodOf(c)
        manual == runs[c].pc = "fail_manual" IN
    /\ runs[c].pc \in {"fail", "fail_manual"}
    /\ SetPod(p, [pods[p] EXCEPT !.status = "destroy_failed", !.manual = manual]) \/ pods' = pods
    /\ Settle(c, IF manual THEN "manual" ELSE "error")
    /\ UNCHANGED <<vlans, jobs, net>>

-----------------------------------------------------------------------------
(* VM jobs *)

\* A VM job that leaves the VM in place, or fails.
OperateVM(c) ==
    /\ At(c, "vmop", "vm")
    /\ \/ ~JobOf(c).deletes /\ Settle(c, "ok")
       \/ Settle(c, "error")
    /\ UNCHANGED <<pods, vlans, jobs, net>>

\* DestroyVM: the pod's VM is gone, and with it the last one.
DestroyVM(c) ==
    LET p == PodOf(c) IN
    /\ At(c, "vmop", "vm") /\ JobOf(c).deletes
    /\ SetPod(p, [pods[p] EXCEPT !.vm = "deleted"])
    /\ Goto(c, "empty")
    /\ UNCHANGED <<vlans, jobs, net>>

\* CreateEmptyPodDestroyJob on behalf of this vm_destroy job; a pending
\* mutator or a lost claim lets the body fail.
DestroyEmptyPod(c) ==
    LET p == PodOf(c)
        mine == Owns(c) /\ pods[p].vm = "deleted" IN
    /\ At(c, "empty", "vm")
    /\ \/ /\ mine /\ EnqueuesDestroy(p, "empty", c)
          /\ QueueDestroy(p) /\ Settle(c, "ok")
       \/ /\ ~(mine /\ EnqueuesDestroy(p, "empty", c))
          /\ jobs' = jobs
          /\ \E out \in {"ok", "error"} : Settle(c, out)
    /\ UNCHANGED <<pods, vlans, net>>

-----------------------------------------------------------------------------
PodStep(p) ==
    \/ \E v \in Vlans : CreatePodRequest(p, v)
    \/ \E t \in VMJobTypes : CreateVMJob(p, t)
    \/ RequestDelete(p) \/ SweepReserve(p) \/ CancelPendingPod(p) \/ DestroyRequested(p)
    \/ ExpirePod(p) \/ FinalizeOrphaned(p)
    \/ \E k \in Kinds : RecoverJob(p, k) \/ \E c \in Tokens : ClaimJob(c, p, k)

CreateStep(c) ==
    \/ StartCreate(c) \/ Recheck(c) \/ StopRefused(c)
    \/ BuildNetwork(c) \/ RecordStep(c) \/ HandoffStep(c)
    \/ BuildPortGroup(c) \/ CloneVM(c) \/ PowerOnVMs(c) \/ Activate(c) \/ BuildFails(c)

CleanupStep(c) ==
    \/ BeginCleanup(c) \/ BeginFails(c)
    \/ \E undone \in SUBSET {"vm", "portgroup", "network"} : Rollback(c, undone)
    \/ NothingToUndo(c) \/ AbandonClone(c)
    \/ FinalizeNeverApplied(c) \/ MarkCompensated(c) \/ CleanupFails(c)

DestroyStep(c) ==
    \/ PrepareDestroy(c) \/ PrepareStops(c)
    \/ DestroyVMs(c) \/ DeletePortGroups(c) \/ DeleteNetwork(c)
    \/ CollectedErrors(c) \/ FinalizeDestroy(c) \/ FinalizeFails(c) \/ WriteDestroyFailed(c)

RunStep(c) ==
    \/ CreateStep(c) \/ CleanupStep(c) \/ DestroyStep(c)
    \/ OperateVM(c) \/ DestroyVM(c) \/ DestroyEmptyPod(c)
    \/ CompleteJob(c) \/ RetryJob(c) \/ RetryCleanup(c) \/ FailJob(c) \/ Crash(c)

Next == (\E p \in Pods : PodStep(p)) \/ (\E c \in Tokens : RunStep(c))

Spec == Init /\ [][Next]_vars

-----------------------------------------------------------------------------
(* Properties *)

\* The VLAN follows its pod.  A pod that is neither destroyed nor destroy_failed
\* holds exactly the VLAN in its row: no finalizer, cancellation or late write
\* releases it underneath.  And the pool never leaks: a VLAN is allocated only to
\* the pod whose row names it, and to none that is destroyed.
VLANFollowsPod ==
    /\ \A p \in Pods : pods[p].status \notin {"absent", "destroyed", "destroy_failed"} =>
          pods[p].vlan # None /\ vlans[pods[p].vlan] = p
    /\ \A v \in Vlans, p \in Pods : vlans[v] = p =>
          pods[p].vlan = v /\ pods[p].status \notin {"absent", "destroyed"}

\* Whoever tears resources down, with or without its claim, the pod is past
\* provisioning and active for good: a late cleanup never meets a working pod.
TeardownMeetsNoLivePod ==
    \A c \in Tokens :
        runs[c].pc \in {"undo", "final", "mark", "vms", "ports", "network", "finalize",
                        "fail", "fail_manual"} => pods[PodOf(c)].status \in Gone

\* An active pod has its VM, unless a vm_destroy job removed it: no slow create
\* turns a pod active that was torn down meanwhile.
NoGhostPod == \A p \in Pods : pods[p].status = "active" => pods[p].vm # "none"

\* Under live destroy intent nothing builds: an open create job is one that was
\* reopened to compensate, or finds the pod past building, and the only open VM
\* job is the vm_destroy that emptied the pod.
DestroyExcludesMutators ==
    \A p \in Pods : DestroyIntent(p) =>
        /\ jobs[p]["create"].status \in Open => jobs[p]["create"].cleanup \/ pods[p].status \in Gone
        /\ jobs[p]["vm"].status \in Open => jobs[p]["vm"].deletes /\ pods[p].vm = "deleted"

\* A destroy execution writes destroy_failed only while it owns its job.
StaleTokenWritesNoStatus ==
    [][\A p \in Pods : pods[p].status # "destroy_failed" /\ pods'[p].status = "destroy_failed" =>
           \E c \in Tokens : PodOf(c) = p /\ runs[c].pc \in {"fail", "fail_manual"} /\ Owns(c)]_vars

\* The network a create job has recorded stays while its pod is being built or
\* used: nobody deletes by VLAN tag after losing the claim and the VLAN.
RecordedNetworkStays ==
    \A p \in Pods : jobs[p]["create"].steps /\ pods[p].status \in {"provisioning", "active"} =>
        pods[p].vlan \in net

-----------------------------------------------------------------------------
(* The inductive invariant of the proofs *)

\* An execution that is under way works on a pod that was requested, and what
\* stopPodCreateIfStale returns to is a step of the build.
RunsWorkOnPods ==
    \A c \in Tokens :
        /\ runs[c].pc # "idle" => PodOf(c) \in Pods /\ pods[PodOf(c)].status # "absent"
        /\ runs[c].next \in {"idle", "net", "portgroup", "clone", "poweron"}

\* Past PowerOnVMs the VM is there as long as the pod is not being torn down.
PoweredBeforeActive ==
    \A c \in Tokens : runs[c].pc = "activate" =>
        pods[PodOf(c)].vm # "none" \/ pods[PodOf(c)].status \in Gone

\* An ordinary claim finds the cleanup mark on its row only after its own
\* BeginPodCreateCleanup, which has stopped the pod.
MarkedByOwnCleanup ==
    \A c \in Tokens :
        runs[c].pc # "idle" /\ runs[c].kind = "create" /\ Owns(c)
        /\ JobOf(c).cleanup /\ ~runs[c].cleanup => pods[PodOf(c)].status \in Gone

\* The request writes the pod's row with its VLAN before there is any job.
PodComesFirst ==
    \A p \in Pods : /\ pods[p].status = "absent" => \A k \in Kinds : jobs[p][k].status = "absent"
                    /\ pods[p].status # "absent" => pods[p].vlan # None

IInv ==
    /\ TypeOK
    /\ RunsWorkOnPods
    /\ VLANFollowsPod
    /\ TeardownMeetsNoLivePod
    /\ NoGhostPod /\ PoweredBeforeActive
    /\ DestroyExcludesMutators /\ MarkedByOwnCleanup /\ PodComesFirst

-----------------------------------------------------------------------------
(* The queue inside this module is the queue of JobQueue *)

\* A job is named by its pod and kind; the VM jobs of a pod follow each other
\* under one name.
JobNames == Pods \X Kinds

StateOf(row) ==
    CASE row.status = "pending" -> "waiting"
      [] row.status = "in_progress" -> "held"
      [] OTHER -> row.status
HolderOf(row) == IF row.status = "in_progress" THEN row.owner ELSE None
WorkOf(run) == IF run.pc = "idle" THEN None ELSE <<run.pod, run.kind>>

JobStates == [n \in JobNames |-> StateOf(jobs[n[1]][n[2]])]
JobHolders == [n \in JobNames |-> HolderOf(jobs[n[1]][n[2]])]
RunsAtWork == [c \in Tokens |-> WorkOf(runs[c])]

Abstract == INSTANCE Queue WITH
    Jobs <- JobNames, state <- JobStates, holder <- JobHolders, working <- RunsAtWork,
    Withdrawable <- Pods \X {"create"},
    Restartable <- Pods \X {"destroy", "vm"},
    HandsOff <- Pods \X {"create"}

\* Whatever a pod's jobs do to each other's rows (destroy requests restart or
\* attest the destroy job, a late create execution reopens its row), they stay
\* within what the queue of JobQueue promises.
ImplementsQueue == Abstract!Spec
=============================================================================
