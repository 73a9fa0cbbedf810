------------------------------ MODULE Placement ------------------------------
(***************************************************************************)
(* Placement plans of provisioning jobs and the memory of the hosts: the    *)
(* durable vm_placements rows, the admission of a plan against what other   *)
(* plans reserve, the source replicas it may clone from, and the DRS        *)
(* override that keeps a VM where it was placed.                            *)
(*                                                                         *)
(* Timestamps are kept as their order: an observation carries the set of    *)
(* the VMs whose reservation was released since it began.  A job's claim is *)
(* not modelled again (JobQueue): a crash, or a lost lease, sends the job   *)
(* back to the queue, and a late write of the old execution is refused by   *)
(* lockPlacementJob.  A running VM uses all of its memory; the load of the  *)
(* hosts that is not Crucible's, the network and the power operations of    *)
(* users are left out.                                                      *)
(***************************************************************************)
EXTENDS Naturals, FiniteSets

CONSTANTS
    Hosts,      \* VCENTER_HOSTS, members of one cluster
    Jobs,       \* pod_create and vm_add jobs
    VMs,        \* pod_vms
    Plan,       \* the VMs of each job
    Resident,   \* VMs adopted before vm_placements existed
    Ram,        \* ram_mb of each VM, 0 for a resident one: it is not charged again
    Memory,     \* memory of a host
    Reserve     \* VCENTER_PLACEMENT_RESERVED_MEMORY_MB

\* Resident VMs weigh nothing here: the code gives an adopted VM a positive size
\* (placement_plan.go), and what DRS moves with it before it is pinned is left out.
ASSUME PlacementSizes ==
    /\ Plan \in [Jobs -> SUBSET VMs] /\ Ram \in [VMs -> Nat]
    /\ Resident \subseteq VMs /\ \A v \in Resident : Ram[v] = 0
    /\ Memory \in Nat /\ Reserve \in 0 .. Memory

\* A VM is made by one job.
ASSUME PlansPartition ==
    /\ IsFiniteSet(VMs) /\ "none" \notin Hosts
    /\ \A v \in VMs : \E j \in Jobs : v \in Plan[j] /\ \A i \in Jobs \ {j} : v \notin Plan[i]

VARIABLES
    row,      \* vm_placements
    vm,       \* the VMs in vCenter
    job,      \* where each job is
    cand,     \* the candidates of a job that is planning
    policy,   \* template_source_replica_policies: replica mode is enabled
    replica   \* the template's source replica; pending, unhealthy and disabled are unready

vars == <<row, vm, job, cand, policy, replica>>

None == "none"
NoRow == [host |-> None, charged |-> FALSE, released |-> FALSE, adopting |-> FALSE, source |-> None]
NoVM == [at |-> None, on |-> FALSE, pinned |-> FALSE]
NoCandidate == [host |-> None, free |-> 0, late |-> {}, source |-> None]

Rows == [host : Hosts \cup {None}, charged : BOOLEAN, released : BOOLEAN,
         adopting : BOOLEAN, source : {None, "legacy", "replica"}]
Machines == [at : Hosts \cup {None}, on : BOOLEAN, pinned : BOOLEAN]
Candidates == [host : Hosts \cup {None}, free : 0 .. Memory, late : SUBSET VMs,
               source : {None, "begun", "legacy", "replica"}]

\* The types of the state.
TypeOK ==
    /\ row \in [VMs -> Rows] /\ vm \in [VMs -> Machines] /\ cand \in [VMs -> Candidates]
    /\ job \in [Jobs -> {"queued", "planning", "planned", "done", "failed", "manual"}]
    /\ policy \in BOOLEAN
    /\ replica \in {None, "ready", "unready", "deleted"}

Init ==
    /\ row = [v \in VMs |-> NoRow]
    /\ vm \in {f \in [VMs -> {NoVM} \cup [at : Hosts, on : {TRUE}, pinned : {FALSE}]] :
                 \A v \in VMs : (f[v] # NoVM) <=> (v \in Resident)}
    /\ job = [j \in Jobs |-> "queued"]
    /\ cand = [v \in VMs |-> NoCandidate]
    /\ policy = FALSE /\ replica = None

Owner(v) == CHOOSE j \in Jobs : v \in Plan[j]
Planned(j) == {v \in Plan[j] : row[v] # NoRow}

\* The memory of a set of VMs, megabyte by megabyte.
Megabytes(S) == UNION {{v} \X (1 .. Ram[v]) : v \in S}
MemoryMB(S) == Cardinality(Megabytes(S))

-----------------------------------------------------------------------------
\* Hosts.

Running(h) == {v \in VMs : vm[v].at = h /\ vm[v].on}
HostUsedMemoryMB(h) == MemoryMB(Running(h))
HostFreeMemoryMB(h) == Memory - HostUsedMemoryMB(h)

\* What the job has put on h for the VMs it has resolved so far.
PlannedMemoryMB(j, h) == MemoryMB({v \in Plan[j] : cand[v].host = h /\ v \notin Resident})

\* A host whose cluster, datastore, connection, network and cores fit is short
\* of memory or not.
Eligible(j, v, h) == HostFreeMemoryMB(h) >= Ram[v] + Reserve + PlannedMemoryMB(j, h)

\* The allowlisted hosts a VM may go to.  Which of them comes first depends on
\* the free memory of the resource pools, which is not modelled.
ResolvePlacement(j, v) == {h \in Hosts : Eligible(j, v, h)}

\* A resident VM keeps its place and nothing is asked of the host.
ResolveExistingClonePlacement(v) == {h \in Hosts : vm[v].at = h}

ResolveClonePlacement(j, v) ==
    IF v \in Resident THEN ResolveExistingClonePlacement(v) ELSE ResolvePlacement(j, v)

-----------------------------------------------------------------------------
\* Planning.

LoadVMPlacementPlan(j) ==
    /\ job[j] = "queued"
    /\ job' = [job EXCEPT ![j] = IF Planned(j) = Plan[j] THEN "planned" ELSE "planning"]
    /\ UNCHANGED <<row, vm, cand, policy, replica>>

\* One VM after the other.
Unresolved(j) == {v \in Plan[j] : cand[v].host = None}
Turn(j, v) == v \in Unresolved(j) /\ \A w \in Unresolved(j) \ {v} : cand[w] = NoCandidate

\* The database's clock, before vCenter is asked.
BeginHostCapacityObservation(j, v) ==
    /\ job[j] = "planning" /\ Turn(j, v) /\ cand[v] = NoCandidate
    /\ cand' = [cand EXCEPT ![v].source = "begun"]
    /\ UNCHANGED <<row, vm, job, policy, replica>>

TemplateSourceReplicaModeEnabled == policy

\* Replica mode without a ready replica, and a resident VM in replica mode,
\* are refused; the legacy source is for a template that never had a replica.
CloneSources(v) ==
    CASE replica \in {"ready", "unready"} -> IF replica = "ready" /\ v \notin Resident THEN {"replica"} ELSE {}
      [] OTHER -> IF TemplateSourceReplicaModeEnabled THEN {} ELSE {"legacy"}

PrepareCandidate(j, v) ==
    /\ job[j] = "planning" /\ cand[v].source = "begun" /\ v \in Plan[j]
    /\ \E h \in ResolveClonePlacement(j, v), s \in CloneSources(v) :
         cand' = [cand EXCEPT ![v] = [@ EXCEPT !.host = h, !.free = HostFreeMemoryMB(h), !.source = s]]
    /\ UNCHANGED <<row, vm, job, policy, replica>>

Forget(j) == [v \in VMs |-> IF v \in Plan[j] THEN NoCandidate ELSE cand[v]]

\* Mutant: the sources are as they were when the candidates were resolved.
ReferencesAsResolved(v) == cand[v].source # None

\* The sources are checked again in the transaction that stores the plan.
ValidateVMPlacementReferences(v) ==
    IF cand[v].source = "replica" THEN replica = "ready" ELSE ~TemplateSourceReplicaModeEnabled

\* The VMs of a plan on one host, and the sample that counts for them: the
\* least memory seen, and everything released since the first of them began.
OnHost(j, h) == {v \in Plan[j] : cand[v].host = h}
Requested(j, h) == MemoryMB(OnHost(j, h) \ Resident)
ObservedAtLeast(j, h, n) == \A v \in OnHost(j, h) : cand[v].free >= n
ReleasedSince(j, h) == UNION {cand[v].late : v \in OnHost(j, h)}

\* Mutant: a released reservation no longer counts, however old the sample.
ActiveUnreleased(j, h) ==
    {v \in VMs \ Plan[j] : row[v].host = h /\ row[v].charged /\ ~row[v].released}

ActiveReservations(j, h) ==
    {v \in VMs \ Plan[j] : /\ row[v].host = h /\ row[v].charged
                           /\ ~row[v].released \/ v \in ReleasedSince(j, h)}

AdmitHostCapacity(j) ==
    \A h \in {cand[v].host : v \in Plan[j]} :
        Requested(j, h) = 0
        \/ ObservedAtLeast(j, h, MemoryMB(ActiveReservations(j, h)) + Reserve + Requested(j, h))

\* Nothing is stored, or the whole plan is, under the locks of its hosts.
PrepareVMPlacementPlan(j) ==
    /\ job[j] = "planning" /\ Unresolved(j) = {}
    /\ IF AdmitHostCapacity(j) /\ \A v \in Plan[j] : ValidateVMPlacementReferences(v)
       THEN /\ row' = [v \in VMs |-> IF v \in Plan[j]
                          THEN [host |-> cand[v].host, charged |-> v \notin Resident, released |-> FALSE,
                                adopting |-> v \in Resident, source |-> cand[v].source]
                          ELSE row[v]]
            /\ job' = [job EXCEPT ![j] = "planned"]
       ELSE job' \in {[job EXCEPT ![j] = s] : s \in {"queued", "failed"}} /\ UNCHANGED row
    /\ cand' = Forget(j)
    /\ UNCHANGED <<vm, policy, replica>>

\* No source, no host, or vCenter cannot be asked.
PlanningFails(j) ==
    /\ job[j] = "planning"
    /\ job' \in {[job EXCEPT ![j] = s] : s \in {"queued", "failed"}}
    /\ cand' = Forget(j)
    /\ UNCHANGED <<row, vm, policy, replica>>

-----------------------------------------------------------------------------
\* The VMs of a stored plan.

\* The persisted host, and the override DRS respects.
ValidateVMPlacement(v) == vm[v].at = row[v].host
ValidateVMPlacementControl(v) == ValidateVMPlacement(v) /\ vm[v].pinned

\* Mutant: a VM on its host counts as controlled.
ControlAssumed(v) == IF ValidateVMPlacement(v) THEN vm[v] ELSE NoVM

\* The VM with its override, or no VM where the host differs.
EnsureVMPlacementControl(v) == IF ValidateVMPlacement(v) THEN [vm[v] EXCEPT !.pinned = TRUE] ELSE NoVM

Drifted(j) ==
    /\ job' = [job EXCEPT ![j] = "manual"]
    /\ UNCHANGED <<row, vm, cand, policy, replica>>

CompleteLegacyVMPlacementAdoption(v) == [row EXCEPT ![v].adopting = FALSE]

\* A VM that was there before the plan: its override, then the adoption.
EnforceLegacyVMPlacement(j, v) ==
    /\ job[j] = "planned" /\ v \in Plan[j] /\ row[v].adopting
    /\ IF EnsureVMPlacementControl(v) # NoVM
       THEN /\ vm' = [vm EXCEPT ![v] = EnsureVMPlacementControl(v)]
            /\ row' \in {row, CompleteLegacyVMPlacementAdoption(v)}
            /\ UNCHANGED <<job, cand, policy, replica>>
       ELSE Drifted(j)

Enforced(j) == \A v \in Plan[j] : ~row[v].adopting

\* The clone appears on the host of the plan, powered off.
CloneVM(j, v) ==
    /\ job[j] = "planned" /\ Enforced(j) /\ v \in Plan[j] /\ vm[v].at = None
    /\ vm' = [vm EXCEPT ![v].at = row[v].host]
    /\ UNCHANGED <<row, job, cand, policy, replica>>

ConfigureClonedVM(j, v) ==
    /\ job[j] = "planned" /\ Enforced(j) /\ v \in Plan[j] /\ vm[v].at # None /\ ~vm[v].pinned
    /\ vm' = [vm EXCEPT ![v] = EnsureVMPlacementControl(v)]
    /\ UNCHANGED <<row, job, cand, policy, replica>>

\* Every clone of the pod is configured before the first is powered on; the
\* placement of each is validated again right before it.
PowerOnVM(j, v) ==
    /\ job[j] = "planned" /\ Enforced(j) /\ v \in Plan[j] /\ ~vm[v].on
    /\ \A w \in Plan[j] : vm[w].at # None
    /\ IF ValidateVMPlacementControl(v)
       THEN vm' = [vm EXCEPT ![v].on = TRUE] /\ UNCHANGED <<row, job, cand, policy, replica>>
       ELSE Drifted(j)

\* Every release joins the observations that are under way.
Release(S) ==
    /\ row' = [v \in VMs |-> IF v \in S THEN [row[v] EXCEPT !.released = TRUE] ELSE row[v]]
    /\ cand' = [v \in VMs |-> IF cand[v] = NoCandidate THEN cand[v] ELSE [cand[v] EXCEPT !.late = @ \cup S]]

\* All VMs of the job run, and with the job's last steps their memory is the
\* hosts' to report.
ReleaseVMPlacementCapacity(j) ==
    /\ job[j] = "planned" /\ Enforced(j) /\ \A v \in Plan[j] : vm[v].on
    /\ Release({v \in Plan[j] : ~row[v].released})
    /\ job' = [job EXCEPT ![j] = "done"]
    /\ UNCHANGED <<vm, policy, replica>>

\* Exact destruction: a missing override is installed first, a VM elsewhere
\* is left alone.
DestroyVMWithPlacement(v) ==
    /\ vm[v].at # None /\ ValidateVMPlacement(v)
    /\ vm' = [vm EXCEPT ![v] = NoVM]

\* Compensation destroys the clones one by one, and releases when none is left.
Compensate(j) ==
    /\ job[j] = "planned"
    /\ \/ \E v \in Plan[j] : DestroyVMWithPlacement(v) /\ UNCHANGED <<row, job, cand>>
       \/ /\ \A v \in Plan[j] : vm[v] = NoVM
          /\ Release({v \in Plan[j] : ~row[v].released})
          /\ job' = [job EXCEPT ![j] = "failed"] /\ UNCHANGED vm
    /\ UNCHANGED <<policy, replica>>

ManualCleanup(j) ==
    /\ job[j] = "planned"
    /\ \E v \in Plan[j] : vm[v].at \notin {None, row[v].host}
    /\ Drifted(j)

\* The worker dies: the job starts over, and a stored plan wins.
Crash(j) ==
    /\ job[j] \in {"planning", "planned"}
    /\ job' = [job EXCEPT ![j] = "queued"]
    /\ cand' = Forget(j)
    /\ UNCHANGED <<row, vm, policy, replica>>

\* vm_destroy and pod_destroy of a finished job's VM.
DestroyVM(v) ==
    /\ job[Owner(v)] = "done" /\ DestroyVMWithPlacement(v)
    /\ UNCHANGED <<row, job, cand, policy, replica>>

-----------------------------------------------------------------------------
\* vCenter and the administrator.

\* DRS may move any running VM that has no override.
DRSMoves(v) ==
    /\ vm[v].on /\ ~vm[v].pinned
    /\ \E h \in Hosts \ {vm[v].at} : vm' = [vm EXCEPT ![v].at = h]
    /\ UNCHANGED <<row, job, cand, policy, replica>>

CreateTemplateSourceReplica ==
    /\ replica \in {None, "deleted"}
    /\ replica' = "unready" /\ policy' = TRUE
    /\ UNCHANGED <<row, vm, job, cand>>

UpdateTemplateSourceReplicaValidation ==
    /\ replica \in {"ready", "unready"}
    /\ replica' \in {"ready", "unready"} \ {replica}
    /\ UNCHANGED <<row, vm, job, cand, policy>>

\* The foreign key of a placement keeps its source.
DeleteTemplateSourceReplica ==
    /\ replica \in {"ready", "unready"}
    /\ \A v \in VMs : row[v].source # "replica"
    /\ replica' = "deleted"
    /\ UNCHANGED <<row, vm, job, cand, policy>>

-----------------------------------------------------------------------------
Work(j) ==
    \/ LoadVMPlacementPlan(j) \/ PrepareVMPlacementPlan(j) \/ PlanningFails(j)
    \/ ReleaseVMPlacementCapacity(j) \/ Compensate(j) \/ ManualCleanup(j) \/ Crash(j)
    \/ \E v \in VMs : \/ BeginHostCapacityObservation(j, v) \/ PrepareCandidate(j, v)
                      \/ EnforceLegacyVMPlacement(j, v) \/ CloneVM(j, v)
                      \/ ConfigureClonedVM(j, v) \/ PowerOnVM(j, v)

Next ==
    \/ \E j \in Jobs : Work(j)
    \/ \E v \in VMs : DestroyVM(v) \/ DRSMoves(v)
    \/ CreateTemplateSourceReplica \/ UpdateTemplateSourceReplicaValidation \/ DeleteTemplateSourceReplica

Spec == Init /\ [][Next]_vars

-----------------------------------------------------------------------------
Held(h) == Running(h) \cup {v \in VMs : row[v].host = h /\ row[v].charged /\ ~row[v].released}

\* "Concurrent workers cannot overbook the reserve" (troubleshooting.md): what
\* runs on a host and what is still reserved on it leave the reserve free,
\* however old the sample a plan was admitted with.
ReserveKept == \A h \in Hosts : MemoryMB(Held(h)) + Reserve <= Memory

\* A VM that Crucible powered on, or adopted, stays where its plan put it:
\* its override is there before it first runs, so DRS never moves it.
PlacedVMStays ==
    \A v \in VMs : vm[v].on /\ row[v] # NoRow /\ ~row[v].adopting => vm[v].at = row[v].host

\* TemplateSourceReplicaModeEnabled "is monotonic for a template. Deleting all
\* replica rows must never silently restore the legacy single-source path":
\* no plan with the legacy source is stored once a replica was registered.
LegacyRefused == policy => \A v \in VMs : row[v].source = None => row'[v].source # "legacy"
NoLegacyFallback == [][LegacyRefused]_vars
-----------------------------------------------------------------------------
\* The inductive invariant of ReserveKept and PlacedVMStays.

\* A plan is stored whole, by a job that then never plans again; its rows are
\* released only when the job is over.
PlansWhole ==
    \A j \in Jobs :
       /\ (\A v \in Plan[j] : row[v] = NoRow) \/ (\A v \in Plan[j] : row[v] # NoRow)
       /\ job[j] = "planning" => Plan[j] # {} /\ \A v \in Plan[j] : row[v] = NoRow
       /\ job[j] = "planned" => \A v \in Plan[j] : row[v] # NoRow
       /\ \A v \in Plan[j] : /\ row[v].released => job[j] \in {"done", "failed"}
                             /\ cand[v] # NoCandidate => job[j] = "planning"

\* A stored row charges its host for every VM that is not resident there already.
RowsCharge ==
    \A v \in VMs : row[v] # NoRow => /\ row[v].host # None
                                     /\ row[v].charged <=> v \notin Resident
                                     /\ row[v].adopting => v \in Resident

\* What runs was placed: on the host of its row, with its override; only a
\* VM that was there before may still be without.
RunsPlaced ==
    \A v \in VMs :
       /\ vm[v].pinned => row[v] # NoRow /\ vm[v].at = row[v].host
       /\ vm[v].on => vm[v].at # None /\ (vm[v].pinned \/ (v \in Resident /\ (row[v] = NoRow \/ row[v].adopting)))
       /\ v \notin Resident /\ vm[v].at # None => row[v] # NoRow /\ vm[v].at = row[v].host

\* The VMs on h that neither reserve memory nor did since the observation of v
\* began: the sample has seen them.
Seen(v, h) == {u \in Running(h) \ Resident : row[u].released /\ u \notin cand[v].late}
SamplesHold ==
    \A v \in VMs :
       /\ cand[v].host = None <=> cand[v].source \in {None, "begun"}
       /\ cand[v].host # None => MemoryMB(Seen(v, cand[v].host)) + cand[v].free <= Memory

PlanInv == TypeOK /\ PlansWhole /\ RowsCharge /\ RunsPlaced /\ SamplesHold /\ ReserveKept
=============================================================================
