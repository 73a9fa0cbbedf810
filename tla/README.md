# TLA+ models of the self-service provisioning platform

The repository is the API and the workers of a lab platform ("Crucible"): users
request *pods* (one or more VMs on a private VLAN), an API gateway writes rows
into PostgreSQL, and `provision-worker` replicas turn those rows into vCenter
VMs and OPNsense networks.  Correctness rests on one pattern: every long piece
of external work is driven by a durable row, several processes may believe they
own that row, and only the row says who does.  This directory models that
pattern and the components built on it.

## 1. Inventory

| Component | State | Operations | Hard behaviour | What makes it correct |
|---|---|---|---|---|
| **Job queue** (`database/queries.go`, `provisioner/create.go`, `job_lease.go`, `cmd/provision-worker`) | `jobs` row: status, claimed_by, claimed_at, retry_count, next_attempt_at, completed_at, payload.cleanup_only; the local state of each execution | create, claim, start, renew, recover, retry, cleanup retry, complete, fail, hand off | executions overlap after lease recovery; acknowledgements get lost; workers crash; maintenance mode withholds claims | only the newest claim settles a job; retries are bounded; cleanup intent survives; nothing is held for ever |
| **Pod lifecycle and VM jobs** (`create.go`, `destroy.go`, `pod_jobs.go`, `pod_delete.go`, `vm_ops.go`, `expiration.go`, the pod handlers) | `pods.status`, `pod_vms.status`, `vlan_pool.pod_id`, the pod's jobs, the port group receipt, the network on the firewall | create, build, power on, compensate, cancel, delete, destroy, sweep, expire, finalize orphan; admit, run and destroy a VM | create and destroy run independently; stale executions write late; deletion is two transactions; the job that empties a pod queues the pod's destruction | the VLAN follows the pod's life; nothing is torn down under a live pod; no pod is active without a VM; destroy excludes mutators |
| **Rollback engine** (`rollback/engine.go`) | `jobs.rollback_steps`, the steps in memory | Record, Rollback, handoff | the step is done but cannot be saved | every undo is fenced; no step is lost |
| **Clone operation** (`clone_operations.go`, `clone_operation.go`) | payload.clone_operation: prepared, armed, submitted, adopted | prepare, arm, submit, persist task, stage, adopt, disarm, abandon, compensate | a crash or a lost answer between any two of its writes; deletion of the VM meanwhile | at most one clone; every clone is named by some row; a compensated job is never resumed forward |
| **Work leases** (`worklease/`, `queries.go`) | `worker_work_leases` row | claim, renew, release | a lease expires during a reconciler's run; renewals fail or are answered late | a run that lost the row stops in bounded time; a late release harms nobody |
| **Template lifecycle** (`templates_wizard.go`, `template_jobs.go`, `template_orphan_reconcile.go`) | `templates` row, staging VMs, the wizard's jobs, an open request of the API, the orphan pass | every wizard handler, provision, generalize, verify, revalidate, both orphan sweeps | a handler's two statements; jobs of an earlier cycle of the wizard; an inventory read before a row was written | no template is stuck; a published one passed its last check; a smoke clone has a job, or an operator told; a sweep takes nothing in use |
| **Replica builds** (`template_replica_build*.go` of the database, provisioner and vCenter packages) | `template_source_replica_builds`, its job, `template_source_replicas`, the retained VM and the canary | admit, clone, validate, snapshot, canary, finalize, clean up, restart, retire | every submission may lose its answer; the call of a run that lost its claim arrives late | nothing is submitted twice; a selectable replica is an accepted one; sources outlive their copies; cleanup is recorded on proof |
| **Placements** (`placements.go`, `placement_plan.go`, `vcenter/placement.go`, `vcenter/drs.go`) | `vm_placements`, memory of the hosts, DRS overrides, replica mode | observe, plan, admit under host locks, adopt legacy VMs, enforce, release | plans are admitted with samples of different age; DRS moves VMs | the reserve is never overbooked; placed VMs stay; replica mode is never left |
| **Test engine and runner** (`engine/`, `runner/`, `testing_queries.go`) | runs, workflow results, runner Jobs | request, claim, dispatch, report, cancel, time out, recover | several processors; runners that vanish; engine restarts; unconditional status writes | a run is executed once and always ends |
| **Image import** (`images.go`, `image_jobs.go`, `image_reconcile.go`) | `image_uploads`, the staged object, the artifact in vCenter, its jobs | start, complete, import, retry, delete, reconcile | two jobs on one image, the hour that ends anywhere, a delete during an import | an import that started ends |
| **Template health** (`template_health.go`, `template_health_reconcile.go`) | `template_health_state`, confirmation jobs | structural and deep check, confirm, repair | a former leader still writing; confirmations that were never queued | the row says what was seen; a pending failure settles |
| **Port group receipts** (`portgroup_receipts.go`, `vcenter/portgroups.go`) | planned, applying, active, removed, the keys; the groups on the hosts | plan, begin, add, bind, undo, delete, close | ownership of port groups across crashes, host by host | a closed receipt leaves nothing behind and took nothing that was there before |
| **Pod network** (`network_reconcile.go`, `firewall_rules.go`, `opnsense/`) | VLAN, interface, DHCP subnet, Kea binding, rules in configuration and in the running firewall | build, roll back, destroy, reconcile | three writers without a lock, renumbered interfaces, an apply that fails | the configuration converges |
| **SafeSearch installer** (`opnsense/safesearch.go`) | two files, the running server, the backup | prepare, write, stage, activate, commit, restore, recover | a command that failed may have taken effect; reboots | all or nothing |
| **VM power and idle evaluation** (`power.go`, `idle_eval.go`, `vcenter/suspend.go`, `expiration.go`, `console.go`) | `pod_vms` status, suspended_at and last_activity_at; the VM's power state; an open console; the evaluator's pass | start, stop, restart, reset; touch; list, sample, check, suspend, record, sync; retention | a pass decides on what it read earlier; the row and the power state change apart; answers get lost | a VM that nobody uses ends suspended or stopped, and so does its row |
| **VM snapshots** (`snapshot.go`, `handlers/snapshots.go`) | `vm_snapshots` rows, the snapshots in vCenter, the VM's jobs, the sweep | take and replace, delete, revert, sweep | jobs of one VM side by side, or twice; a crash between vCenter and the row | the snapshot taken last survives; replaced ones are removed |
| **Leader election, other reconcilers, content filter, API plumbing, authentication, monitors, docs** | none of their own, or external | | | see section 7 |

Components talk through the database only: a handler or a sweep inserts or
requeues a job, a worker claims it, and the pod's row, the VLAN pool and the
receipts are shared by the executions of its jobs.  There are no callbacks
between workers; NATS only wakes them up early.

`PROJECT.json` lists the components with their status and, under `hazards`, the
places that are hard to test, with the properties that watch them.

## 2. Modules

| Module | Models | Composes |
|---|---|---|
| `Queue` | what the job queue promises, without leases, retries and cleanup | |
| `JobQueue` | the job row and the executions of it, `processJobLifecycle` in full | instantiates `Queue` for its refinement |
| `PodLifecycle` | pods, VLAN pool, receipts, `CreatePod`, its compensation, `DestroyPod`, `DestroyVM`, the producers | restates the part of the queue pods depend on, and instantiates `Queue` |
| `CloneOperation` | the durable clone of a vm_add job, its compensation, vm_destroy of the same VM | restates the part of the queue it depends on, and instantiates `Queue` |
| `Lease` | what a work lease promises, without clocks | |
| `WorkLease` | a `worker_work_leases` row and the `RunExclusive` calls competing for it | instantiates `Lease` for its refinement |
| `TemplateLifecycle` | one template, the wizard, its jobs, the reconciler of orphans | |
| `ReplicaBuild` | builds, replicas, their VMs, placements that use them | |
| `Placement` | plans, host memory, DRS, adoption of legacy VMs, replica mode | |
| `TestRun` | API, processors, watchdog, recovery, runner Jobs and callbacks | |
| `ImageImport`, `TemplateHealth`, `PortGroups`, `PodNetwork`, `SafeSearch` | one service each | |
| `VMPower`, `VMSnapshots` | the power state and the snapshots of one pod VM | |
| `JobQueueProofs`, `WorkLeaseProofs`, `PodLifecycleProofs`, `CloneOperationProofs`, `TemplateLifecycleProofs`, `ReplicaBuildProofs`, `TestRunProofs` | theorems | extend the module they are named after |
| `ServicesProofs` | theorems | extends `SafeSearch`, `TemplateHealth`, `PortGroups`, `Placement`, `VMSnapshots`, which share no state |
| `MCJobQueue`, `MCPodLifecycle`, `MCCloneOperation`, `MCWorkLease`, `MCTemplateLifecycle`, `MCReplicaBuild`, `MCPlacement`, `MCTestRun` | instances for TLC | extend the module they are named after |
| `MCServices` | the five services side by side; each behaviour is one of one service | extends the five |
| `MCPodVM` | a VM's power state and snapshots side by side, likewise | extends both |

In all modules a database transaction is one step, an external call is one step
with a success and a failure branch (and one that took effect without an answer,
where the code goes on differently), and whatever another actor can fall between
is a step of its own.  Each module has one type invariant (`TypeOK`, or
`ImageTypeOK`, `HealthTypeOK`, `PGTypeOK`, `NetTypeOK`, `SSTypeOK`, `PowerTypeOK`,
`SnapTypeOK`); the runs are spent on the other properties, and it can be added to any `.cfg`.

### Queue and JobQueue

`jobs[j]` is a row.  `expired` and `due` are what the SQL asks of claimed_at and
next_attempt_at; `done` is `completed_at IS NOT NULL`, which recovery tests;
`cleanup` is payload.cleanup_only.  `runs[c]` is the execution that holds claim
token `c`: where `processJobLifecycle` is, the row values it read when it
claimed, how its body ended, and whether its heartbeat has cancelled it.  A
token is not reused while a row or a running execution carries it (the code
draws a UUID per claim).  `lastClaim` and `settledBy` are history variables.

`JobQueue` refines `Queue` with a job held while its row is claimed or in progress,
by the owner in the row, and an execution at work until it ends, its claim lost or
not.  In `Queue` a job is granted, given back, finished or revoked by or from its
holder; `Withdraw`, `Restart` and `Attest` are the producers' ways into a row that
nobody holds, and `HandOff` is the one door an execution without its claim has: a
create whose claim was lost puts its row back for the cleanup of a step it recorded.

* A database write an execution makes has an applied branch, a refused or lost
  one, and, where the code continues differently, one that is applied with its
  answer lost (`StartBody`, `ScheduleCleanup`, `ScheduleRetry`).
* `JobTypes` has the types whose lifecycle differs; `vm_power` stands for every
  other one, none of which has a branch of its own in the queue.
* `retry_count` saturates one above `max_retries`, the only value it is compared
  with.
* `CancelPristine` and `RequeueDestroy` are the writes other components make to
  rows they do not own; their conditions on pods are in `PodLifecycle`.

### PodLifecycle

One row per pod holds the columns of `pods`, the state of its port group receipt
and of its VM.  `jobs[p]` has a create, a destroy and a VM job; `vlans` is
`vlan_pool.pod_id`; `net` is the set of VLAN tags for which the firewall has an
interface, DHCP subnet and rules.  `runs[c]` is an execution with its program
counter: `start` to `activate` is CreatePod forward (`poweron` powers on and
adopts the VMs), `begin` to `mark` is
cleanupPodCreateResources, `prepare` to `fail_manual` DestroyPod, `vmop` and
`empty` DestroyVM, `settle` the return into processJobLifecycle.

* Claim and start are one step, and a lease may be recovered at any time: both
  over-approximate `JobQueue`, so that what holds here holds there.
* Each database transaction is one step, each external call one step with a
  success and a failure branch.  The checks before the next call
  (`stopPodCreateIfStale`) are steps of their own: the pod may change between
  the check and the call.
* DeletePod and the destroy_failed sweep read the pod in one transaction and act
  in another (`asked` remembers a producer between the two).
* The network of a pod is created and deleted by VLAN tag; that is why `net` has
  tags and not owners.
* The outcome `error` stands for errors that may be retried and errors that may
  not: `RetryJob` and `FailJob` are both possible for it.

Left out: pods with network_mode `shared` (no VLAN), more than one VM in a pod
and more than one VM job at a time, `ExtendPod`, placement capacity, the order
of the individual firewall objects (`PodNetwork`), and the applying state of a
receipt (`PortGroups`).

### Lease and WorkLease

`row` is the lease row, with the age of claimed_at instead of a time stamp.
`runs[r]` is one `RunExclusive` call, named by its claim token: `pc` follows
RunExclusive, `maintain` and `answer` the heartbeat goroutine, `cause` the
cancellation of the lease context, `tick` the time since the ticker fired and
`sinceOK` the time since `lastOK`.  `renewed` and `lost` are history: a renewal
has been acknowledged, and for how long the row has carried another token.

* Time is discrete: `Clock` ages everything by one and waits for a ticker or a
  write timeout that is due.  So the heartbeat goroutine is assumed to be
  scheduled in time and the process not to be suspended; a renewal's answer may
  take anything up to the write timeout, a claim's answer any time at all.
* A renewal is three steps: the tick, the update in the database, the answer.
  It may fail before or after the update was applied.
* `Crash` is also the claim whose answer is lost: the row stays claimed until it
  lapses.  A renewal or release that the database applies after its caller gave
  up is refused once the row has a new token; while it has the old one it only
  postpones the lapse, or frees the row of a run that has ended.
* `fn` is one step that may end at any time.  What the reconcilers do in it is
  not part of this module.

`WorkLease` refines `Lease` with holder = claim_token, lapsed = "older than
Duration", active = the calls that have not returned.

### CloneOperation

`job` is the vm_add row with the parts of its payload that steer the clone:
`op` (clone_operation), `target` (cleanup_target), `destroyed`
(destroyed_cleanup_targets), `cleanup` and `done`.  `vm` is the pod_vms row, `vc`
what vCenter knows of each operation: a clone is named by the operation that
submitted it, since the operation id is the marker vCenter keeps.  `runs[c]` is
an execution: `read` to `mark` is AddVM, with executeDurableVMClone from
`prepare` to `configure`; `fstage` to `record` is failVMAddWithCleanup and
runVMAddCleanup; `settle` the return into processJobLifecycle.  `del` is the
vm_destroy job, which may run beside vm_add: claims are not serialized per VM.

* Each database transaction is one step with a refused branch and, where the code
  goes on differently, one that commits and loses its answer; each vCenter call is
  one step, and the clone task ends by itself (`CloneFinishes`).
* Most writes are fenced by the claim (`Owns`).  UpdatePodVMStatusFrom,
  CompleteVMCloneCleanup and finalizeVMAddCompensation are not, and are modelled
  without it.
* A body without the claim goes on with its vCenter calls and unfenced writes, but
  what it returns is not remembered: nothing it could settle would be accepted.
* Credentials, receipt, placement plan and DRS checks are the step `Plan`, which
  succeeds or ends in one of the ways the code leaves it; placement validation,
  power and snapshot are likewise success or failure.
* `retry_count` saturates at MaxRetries, as only "retries left" is asked of it.

Left out: `cleanup_handoff_targets` (prepareVMCloneDestructionPayload has no
caller), clones of pod_create, and a pod that is destroyed meanwhile (excluded by
`DestroyExcludesMutators`).

### TemplateLifecycle

`row` is the templates row: state, VM, is_active, source, whether the inactivity
window has passed, and `cycle`, which counts how often the wizard started over.
`vm` are the staging VMs (powered on, generalized, with a base-image snapshot, and
`proven`, the verdict of the last publish check made of it), `job` the template's jobs
with the place their run has reached, their smoke clone and its verdict, `req` the API request an admin has open between two statements, with the
cycle it read or started, `sweep` the pass of the orphan reconciler over rows and then over the inventory.

The code has windows that nothing closes: a job of an earlier cycle that the state
machine lets move the template (`stale_job`, `stale_run`), a later statement of a
handler that finds a template another request has taken up again (`stale_request`: a
cancel, a deletion or an unpublishing that read an earlier cycle, the second statement
of `AdminCreateTemplateDraft`, a job inserted for a cycle that is over), a process that
dies between the statements of a handler (`lost_write`), a VM switched off by hand
before it was generalized (`stopped`), an inventory read before the row was
written (`inventory`), a job that ends after it could not read its template or put its
mark on it (`unmarked`).  `races` records them when they happen; the properties say
what holds until then, and the run stops a behaviour there (`NoRace`).

`unmarked` is recorded where a read or a write fails, never from the state it leaves:
`GeneralizeTemplate` and `VerifyTemplate` that cannot load their template or have no
plan (`template_jobs.go:738-753`, `1544-1547`), `markTemplateError` and
`verifyFailedToReady`, which only log that their write failed (`1830-1839`,
`1895-1911`).  Each of them, if its job then ends, strands the template in a state the
wizard has no exit from, although `GeneralizeTemplate` says "On any failure, set
template_state → 'error'" (`720-721`).  A job that is tried again after such a failure
is no race.  `NoStuckTemplate` says that there is no other way.

The verdict of a smoke check is written to `proven` where the check returns
(`RunSmokeCheck`); destroying the clone, the promotion and `SetTemplateActive` are
later steps, with crashes, retries and cleanup-only runs between them, and
`PublishedIsProven` compares what they publish with the verdict.  A clone that cannot
be destroyed is cleaned up by a later run of the job; one whose identity is incomplete
or whose placement has drifted ends the job with manual_cleanup_required
(`ManualCleanupRequired`), and `SmokeCloneOwned` has that as its only exception.

Left out: unattend files, credentials and guest operations, the schedule of
template_revalidate, and a clone operation in the payload that is not of the job's own
template, which no writer produces.

### ReplicaBuild

`build[b]` is a build row with its phase, the phase it resumes in, and which
identities it has saved; `job[b]` its job, `run[b]` where the run holding the
claim is.  Every write is fenced, so the row in memory is the stored row until the
claim is lost; after that a run can only make the vCenter call it had armed
(`late`).  `vc[b]` is what vCenter made for the build: retained clone, snapshot,
canary, how often each was submitted, and `facts`, the defect the hardware check
must find.  `placed` are the replicas some placement uses as its source.

### Placement

An observation of a host carries the VMs whose reservation was released since it
began, which is all the code asks of the two time stamps.  Admission holds the
advisory locks of all hosts, so it is one step.  A running VM uses all its memory;
DRS moves any VM that runs without an override.

Assumed (`PlacementSizes`): a resident VM, one from before placements were recorded,
weighs nothing, so that a move of it before it is adopted and pinned does not change
the memory of a host.  The code asks for a positive `RAMMB` of an adopted VM
(`placement_plan.go:61`) and its memory does move with DRS until it is pinned; what
that move does to a host is outside `ReserveKept` here.  The owners' power operations
are left out.

### TestRun

The final status of a run and the verdict of a workflow are one value each
("ended", "done"): what is asked is whether and how often, not which.  Every
status write is unconditional in the code, except the claim and the requeue, and
here.  Runners and requests may stop at any point.

### The services

*ImageImport*: one staged image, iso or ova, with two jobs.  The hour a job has
may end between any two steps; a lease may be lost, a request die between its
statements.  *TemplateHealth*: one template, two checkers of which one no longer
is the leader; the row is written by compare-and-swap from copies that may be old.
*PortGroups*: two hosts; a group gets a new key whenever it is added, which is
what the receipt binds.  *PodNetwork*: the rules in the configuration and what the
running firewall passes are two things; interfaces may be renumbered and Kea's list
be overwritten by another pod's stale write.  One of the two interfaces has an
equivalent rule written by hand.  A create that fails marks the pod error, undoes its
steps and, as no port group was recorded, ends with the pod destroyed and the VLAN back
in the pool (`FinalizeNeverAppliedPodCreate`).  *SafeSearch*: the two-file transaction with its
backup as log.

### VMPower and VMSnapshots

*VMPower*: `guest` is what vCenter would answer (power, whether VMware Tools runs,
the load), `vmStatus`, `suspendedAt` and `lastActivity` what the row says, the
times abstracted to the side of their limit on which they are.  A pass of the
evaluator keeps the clock it listed and the power state it queried; each of its
guards is a query of its own.  The guest and vCenter's operators act at any time.
*VMSnapshots*: a snapshot is a number, its row and the object in vCenter are two
facts.  A row has its created_at, the count of rows inserted so far, by which the
lists are ordered and the sweep tells the newest; `newest` and `unwanted` are history
for `NewestKept`.  Executions keep the rows they listed before they took their
snapshot, as the sweep keeps its own.

## 3. Runs

| Run | Instance | Shows |
|---|---|---|
| `queue` | one job of any of five types, 4 tokens, MaxRetries 2 | `ImplementsQueue`, `ActiveIsRecoverable`, `CleanupIntentKept`, `OrdinaryRetriesBounded` |
| `queue_live` | one pod_create job, 2 tokens, MaxRetries 1, fair | `NoJobHeldForever`, `CleanupIsServed` |
| `pod` | one pod, one VLAN, 2 tokens, both kinds of VM job, one sweep | `VLANFollowsPod`, `TeardownMeetsNoLivePod`, `NoGhostPod`, `DestroyExcludesMutators` |
| `clone_operation` | 2 operations, 2 tokens, MaxRetries 1, the user may delete the VM | `NoDuplicateClone`, `CloneTraceable`, `RecordedIsGone`, `DeletedStaysDeleted` |
| `work_lease` | 2 runs, Duration 4, HeartbeatInterval 2, WriteTimeout 1, 4 claims, fair | `OverlapBounded`, `ImplementsLease`, `CancelledRunEnds` |
| `template` | 2 VMs, 3 jobs, 1 admin, a clone that skips generalizing and a manual ISO, MaxRetries 1 | `NoStuckTemplate`, `BaseImageKept`, `PublishedIsProven`, `SmokeCloneOwned`, `SweepSparesLive` |
| `replica_build` | an accepted build and one that copies it, 3 compute resources, one defect, MaxRetries 1, 1 restart | `NeverResubmitted`, `ReadyIsAccepted`, `SourceLives`, `CleanedOnProof` |
| `test_run` | 2 runs (runner only; runner and VMware Tools), 2 processors, one runner Job at a time, 1 crash, fair | `ExecutedOnce`, `EveryRunEnds` |
| `placement` | 2 hosts of memory 3 and reserve 1; a pod of two VMs, a vm_add, a VM from before the placements | `ReserveKept`, `PlacedVMStays`, `NoLegacyFallback` |
| `services` | 2 imports, 2 checkers, 2 hosts and 2 create workers, 2 interfaces and 4 rules, 2 fragments; 1 to 3 faults each; fair | `ImportSettles`, `HealthVerdictSound`, `FailureSettles`, `RemovedLeavesNothing`, `NetworkConverges`, `SafeSearchAtomic` |
| `vm` | one VM with 1 idle fault; 2 snapshot jobs on 2 workers with 1 fault; fair | `IdleIsParked`, `NewestKept`, `SpaceReclaimed` |
| `clone_restaged` | as `clone_operation` | violated: `StagedIsNotDestroyed` |

### Bounds, views and symmetry

*Queue.*  Jobs interact only by competing for tokens, so one job per behaviour is
enough for what happens to a row (`FewJobs`; the type is chosen when the job is
created); four tokens give a chain of executions each superseded by the next.
MaxRetries 2 has both sides of the budget and the steps between.

*Pod.*  Two tokens are two executions at the same moment (create beside destroy, a
stale destroy beside its successor); as tokens return to the pool when neither a
row nor an execution carries them, any number of executions happen one after the
other.  `SweepOrVMJob` bounds a behaviour to a sweep or a VM job.

*Views.*  `Observed` of the queue merges the local state of executions that lost
their row (they never own it again, and of all they can do only the handoff of a
rollback step is not refused) and the lease of rows nobody holds; it keeps all that
`Queue` speaks of.  For the pod it
leaves out `net` (no guard and no property of the run reads it), how VM and destroy
jobs ended, the recorded steps of settled jobs and whether a create was retried once
its pod is past pending.  For the template it leaves out jobs that ended, VMs that
are gone, and all of the cycle of a job or a request but whether it is the row's; it
has one admin, because two with retries exceed what TLC finishes in minutes (two were
checked with MaxRetries 0, and the theorems of section 5 are about any number).  No run with a
liveness property has a view or symmetry.

*Lease.*  Two runs are a holder and its successor; the durations keep the order of
90 s, 15 s and 5 s with two heartbeats inside a duration, and four claims let a run
lose the row, claim it again and lose it again.

*Clone.*  Two tokens are a stale execution beside its successor, two operations an
abandoned or compensated one beside the next; MaxRetries 1 has both sides of the
budget.  `CloneTraceable` is stated of a VM that is not deleted (`CloneReference.cfg`
shows what deletion does to it).

*Template.*  Two VMs are a staging VM and its replacement, three jobs the three
steps of one pass of the wizard or a retried one beside its successor.  `NoRace`
stops a behaviour at the first race.

*Replica build.*  The accepted build starts ready, so that its retirement meets the
second build, which copies it (`Chained`); `BuiltPlacements` keeps placements to
replicas that builds made.

*Placement.*  A host has room for two of the three VMs, so two plans from the same
sample overbook it if nothing stops them.

*Test run.*  One runner Job at a time makes the second processor meet the capacity
limit before and after it claimed.

*Services.*  Fault bounds (`MaxImageFaults` 1, `MaxOutages` 1, `MaxPGFaults` 2,
`MaxNetFaults` 2, `MaxSSFaults` 3) count lost claims, dead processes, failed calls,
drift and reboots; two of them are a fault during the recovery from another.  Each
behaviour is one of one service (`service`), since the five share no state.

*VM.*  One idle fault is a suspension, or a power call, whose answer is lost; two
snapshot jobs are two replacements side by side, or one beside the rerun of the
other, with the sweep as a third remover.  The run also passes with three jobs, and
with two snapshot faults, in more time.

Deadlock is checked in the queue and lease runs.  The others switch it off: a
destroyed pod, a settled clone or build, a deleted template, a finished test run and
an installed fragment with nothing else to do are where those systems stop.

### Fairness

*queue_live.*  Weak fairness of the recovery ticker and of time; of the steps of an
execution, because its external calls have deadlines, and of the heartbeat that
cancels an execution once it no longer owns its row; strong fairness of claiming
each row, because a claim takes the oldest row and a retried one sleeps at least
30 s, so polling comes round to every row.  No fairness is assumed of lease renewal,
of acknowledgements or of the operator.

*work_lease.*  `fn` returns once its context is cancelled (every caller passes the
lease context to its queries and external calls), a renewal ends (it has a 5 s
deadline), a goroutine whose context is done sees it, and the join and the deferred
release are reached.  Nothing is assumed of ticks, of claims or of the success of a
renewal.

*test_run.*  Weak fairness of the engine's processors, its watchdog ticker and its
recovery at start-up, and of the deadline Kubernetes enforces on a Job.  Nothing is
assumed of requests and runners.

*services.*  Weak fairness of the reconcilers' tickers, of time, and of the worker
that holds a job.  `NetworkConverges` needs no further assumption because faults
are bounded; nothing is assumed of the admins or of the former leader.

*vm.*  Weak fairness of the evaluator's and the sweep's tickers, of the activity
clock, of workers that take jobs and of the worker that holds one.  Nothing is
assumed of the owner, the guest, the operators or retention.

### What `OverlapBounded` says in seconds

With 90, 15 and 5 s, a run that has renewed at least once goes on for at most 25 s
after another replica claimed its lease; one that never renewed, because its claim
was answered late, for at most 110 s.  During that time two replicas do the same
leased work: `EXTERNAL_MUTATION.md` relies on rechecks before each mutation, not on
the lease.

## 4. Where the code does not do what is said of it

One run is expected to fail.

* `clone_restaged`: RetryJob writes the cleanup target its error carries without
  looking at destroyed_cleanup_targets, which StageVMCloneCleanup does.  When the
  commit of CompleteVMCloneCleanup succeeds but is reported as failed, or the cause
  of a finished cleanup carries its target, the destroyed clone is staged again.
  CompleteVMCloneCleanup then refuses it every time, and the job, which
  `docs/instructor/troubleshooting.md:301-302` says is recorded as failed with
  `compensated: true`, is rescheduled for ever.

Eleven further `.cfg` files are to be run by hand (`tlc -config X.cfg M`; `-continue` for the
one with four properties); each claim is refuted by the module named with it.

| Config | Module | Refutes | Because |
|---|---|---|---|
| `PodStaleWrite` | `MCPodLifecycle` | `StaleTokenWritesNoStatus` (`worklease/EXTERNAL_MUTATION.md:16-17`) | `failPodDestroy` calls `UpdatePodStatus`, an unconditional update: a destroy whose lease was recovered writes destroy_failed over what its successor did. `VLANFollowsPod` leaves destroy_failed out for that reason |
| `PodStaleDelete` | `MCPodLifecycle` | `RecordedNetworkStays` (the same lines) | an execution hands a rollback step to a successor and evicts a cleanup that had found none; that cleanup still releases the VLAN, and the successor undoes the step by VLAN tag, in the network of the pod that received it |
| `CloneCompensated` | `MCCloneOperation` | `CompensatedIsClean` | a retried job runs forward with its operation persisted; if DRS privileges are refused then, AddVM ends it as "stopped before cloning" while its clone is being made |
| `CloneReference` | `MCCloneOperation` | `ClearsOnlyDestroyed` (comment of ClearPodVMVCenterReference) | DestroyVM marks the VM deleted, stops and runs again: alreadyDeleted skips the destruction of a clone adopted meanwhile, but its reference is cleared |
| `TemplateStaleJob` | `MCTemplateLifecycle` | `OwnVerdict` (comment of UpdateTemplateLifecycleState) | the update is gated on the state alone, and a later cycle of the wizard is in the same state |
| `ReplicaDeletable` | `MCReplicaBuild` | `DeletableIsAbsent` (`docs/instructor/templates.md`) | a build that failed because the answer to its clone submission was lost has recorded no VM, and counts as one that has none |
| `TestRunClosed` | `MCTestRun` | `FinishedIsClosed` (`engine.go`, "A terminal run must not have non-terminal children") | the API ends a run whose address it cannot lease while the engine, having claimed it, creates its results; a crash then leaves them open |
| `ImageTruncated` | `MCServices` | `TruncatedNeverImported` (`images.go:366-368`) | an upload whose size check failed can be reset for retry and is then imported |
| `NetworkUnapplied` | `MCServices` | `RepairedRuleApplied` (`firewall_rules.go:94-96`, "Apply even when the model already matches") | `reconcileNetwork` applies the firewall only if the same pass changed something: when a pass has added a missing rule and its apply fails, or is refused because the content filter is unhealthy, later passes find the rule in the configuration and never apply it |
| `SnapshotLeftover` | `MCPodVM` | `LeftoversRemoved` (`snapshot.go:86-87`; `docs/student/snapshots.md:12`) | a job dies between `RemoveVMSnapshot` and `DeleteVMSnapshot`: from then on vCenter refuses the removal, and nothing else deletes the row |
| `IdleSpares` | `MCPodVM` | `RevertsOnlyStopped` ("vm must be powered off", `handlers/snapshots.go`) | the status is checked when the request is made; the VM is started before the job runs |
| `IdleSpares` | `MCPodVM` | `ConsoleSpares` (`idle_eval.go:12-13`) | a console opens after the pass listed the clock; the last check asks only for the two statuses |
| `IdleSpares` | `MCPodVM` | `JobSpares` (comment of `HasActiveJobForVM`) | a power job is created after its check and runs beside the suspension |
| `IdleSpares` | `MCPodVM` | `RetentionSpares` | a start overlaps a suspension and `SetVMSuspended` writes last: the row of a running VM says suspended, and its pod is destroyed in the end |

## 5. Proofs

`JobQueueProofs` proves, for every set of jobs and tokens, every assignment of
types and every `MaxRetries`, from the three assumptions of `JobQueue`
(`TypeAssumption`, `NoneAssumption`, `RetriesAssumption`): `QueueTypes`,
`QueueSettledByLatestClaim`, `QueueActiveIsRecoverable`, `QueueOwnerSeesItsRow`,
the action properties `QueueCleanupIntentKept` and `QueueOrdinaryRetriesBounded`, and
`QueueImplemented` (`Spec` implements `Queue`).

All rest on `QueueInductive`, `Spec => []IInv`.  None of the properties is
inductive alone: that the settling execution holds the newest claim needs that the
*owner* always does (`OwnerIsLatestClaim`); that a retry below the remembered
budget is one below the row's needs that the owner's memory is still true
(`OwnerSeesItsRow`), which needs that a live owner runs that very job
(`OwnerRunsItsJob`) and that a completed_at never survives a requeue
(`DoneIsTerminal`).  The proof goes by writers: `JobActions` for producers and
clocks, claiming and recovery by themselves, and one lemma, `RunWrite`, for every
fenced update: a write is sound if it keeps the token or drops it, keeps the
retry count while it keeps the token, and marks a row settled only as itself.

The refinement takes the same course.  Every write of a row is first turned into a
`Put` of the abstract state (`AbstractWrite`); then the steps are sorted by what they
are in `Queue`: `AbstractJobStep` for producers and clocks, `AbstractRecovery` for
the sweep that revokes several jobs at once, `AbstractRunStep` for the executions.
`OwnerRunsItsJob` is what makes a fenced update the holder's.

`PodLifecycle` and `CloneOperation` contain as much of the queue as they depend on,
with claim and start in one step and leases that may be lost at any time.  That
these are the same queue is proved too: `PodQueueImplemented`, where a job is a pod
with a kind, for all the writes that one job's code makes to another's row; and
`CloneQueueImplemented`, where CompleteVMCloneCleanup writes the row without naming a
claim but reaches neither its status nor its holder.  TLC
explored the second in full on the instance of `clone_operation` (1.5 million states)
and the first in part; they are not runs of their own because the theorems cover them.

`WorkLeaseProofs` proves, for every set of runs and all durations with
0 < WriteTimeout <= HeartbeatInterval and WriteTimeout <= Duration, `LeaseTypes`,
`LeaseOverlap`, `LeaseAcknowledged` and `LeaseRefinement` (`Spec` implements
`Lease`).  They rest on `LeaseInductive`.  Its `RunLocal` bounds `sinceOK` by the
run's own clocks: an uncancelled run is in a heartbeat that began less than
Duration after lastOK.  Its `RunAndRow` ties the run to the row: an acknowledged
renewal is at most WriteTimeout older than lastOK, so another claim cannot come
earlier than Duration - WriteTimeout after lastOK; the overlap is the difference of
the two bounds.  That a positive answer is still current (`row.age <= tick` while it
is under way) is what makes the second part inductive.

`PodLifecycleProofs` proves, for all sets of pods, jobs, executions and VLANs,
`VLANFollowsPod`, `TeardownMeetsNoLivePod`, `NoGhostPod` and
`DestroyExcludesMutators`.  The inductive invariant adds to them that an execution
works on the pod of its job (`RunsWorkOnPods`), that the VM was powered on before
the pod could be active (`PoweredBeforeActive`), that a VLAN marked for release was
marked by the cleanup of its own pod (`MarkedByOwnCleanup`), and that no job is
queued for a pod whose row is not there (`PodComesFirst`).  What carries the
argument is `PodMay`: whoever writes, also without its claim, the status of a pod
never leaves the statuses of a pod that is gone, so what an execution saw before it
began to tear down is still true at its last step.

`CloneOperationProofs` proves `NoDuplicateClone`, `CloneTraceable`,
`RecordedIsGone` and the action property `DeletedStaysDeleted`, for all sets of
executions and references.  Job, VM row and owning execution may each be behind,
but all they speak of is one clone (`OneClone`); an operation is prepared only when
nothing is out, and is armed once (`SubmitsOnce`); a clone that is out is named by
the job's operation or by the VM row (`OutTraceable`).  `JobMay`, `VMMay` and
`RunMay` state what a step may write to each of the three; one lemma shows that
such a step keeps the invariant, and every action is shown to be one.

`TemplateLifecycleProofs` proves `NoStuckTemplate`, `BaseImageKept`,
`PublishedIsProven`, `SmokeCloneOwned` and the action property `SweepSparesLive`, for
all sets of VMs, jobs, admins and sources and every `MaxRetries`.  That a smoke clone
is with the run that checks or destroys it, with a job that was requeued, or with one
that ended asking for manual cleanup (`ClonesHeld`) is inductive in every behaviour; the
rest of the invariant, `Orderly`, holds as long as no race has happened.  A cycle of
the wizard has one request that starts it and then one job (`OneWorker`), and a state
only a job can leave has one of the two (`Served`).  The job of the current cycle finds
the template in the state and with the VM it works on, and what it did to the VM so
far is still there (`JobFits`); an open request holds the template, or sees one that
is at rest or has gone on (`ReqFits`); the state of the row says what is true of its
VM (`RowOrderly`), of a published one that its last check was passed, which a run
on its way to the promotion carries from the verdict (`JobFits`); the VM a sweep has claimed is that of a failed row, or gone
(`SweepOrderly`); nothing refers to a VM that was never made (`AllKnown`).  Three
lemmas, `BodyStep`, `HandlerStep` and `ReconcileStep`, say what a job, a request and
the reconciler may do and that it keeps the invariant; every action is shown to be of
one of these kinds or a race.  A job that stops needs an argument of its own
(`Stops`): unless it is requeued, the template has left the state the job worked on,
or the failed read or write that kept it there is recorded (`Recorded`).  The proof showed what TLC's instance with one admin
could not: with two open requests `SweepSparesLive` and `BaseImageKept` are false,
because a cancel destroys the VM, and clears the reference, of a template that a
request of a later cycle works on.  That is the race `stale_request`.

`ReplicaBuildProofs` proves `NeverResubmitted`, `ReadyIsAccepted`, `SourceLives` and
the action property `CleanedOnProof`, for all sets of builds, compute resources and
defects and all limits.  Every creating call has one ticket: it is still to be sent,
with an execution, late in the network, or was made, and these exclude each other
(`ArmedOnce`).  The phase of a row says what was not yet sent (`PhaseIsTrue`); a retry
starts only from a failed build without a recorded destination, so the phase it
resumes is before the end of the clone (`ResumeIsSafe`); residue is destroyed only
for builds that never run again (`ResidueIsOver`); a ready build is sound and at
rest (`AcceptedIsSound`); a replica names the build that reserved it, and what runs
or is placed has a ready source (`ReplicaHonest`).  The proof has three parts: what a
single row may become, the builds with their replicas, and the actions.

`TestRunProofs` proves `ExecutedOnce` for all sets of runs and processors: a run in
the hands of a processor, or of the runner, is not pending in the table
(`HeldRuns`), and a run that was not inserted has no results (`NotYetInserted`).

`ServicesProofs` proves, each for all values of the constants:

- `SafeSearchAtomic`.  The backup on disk, the place of the installer and the
  three copies of the rules go together (`LogMatches`, `FilesFollow`), whichever
  command fails with or without effect, and across deaths and reboots.
- `HealthVerdictSound`.  A writer whose copy is as old as the row is right about it
  (`FreshCopies`), and a pending failure is the first of its series
  (`PendingIsFirst`); a write of the row makes all other copies old.
- `RemovedLeavesNothing`.  Once a receipt is closing nobody is in the create step
  (`CreatorsExclusive`), groups only disappear, and `preexisting` on the receipt is
  what was there before (`ReceiptHonest`); a cleanup that goes on knows the hosts it
  has still to visit (`ActorsInformed`).
- `ReserveKept`, `PlacedVMStays` and the action property `NoLegacyFallback`.  Plans
  are stored whole and once (`PlansWhole`); what runs has its override, on the host
  its row charges, unless it was there before and is not adopted (`RowsCharge`,
  `RunsPlaced`); and a sample has seen every running VM that neither reserves memory
  nor was released since the observation began (`SamplesHold`).  The last is what the
  clock taken *before* vCenter is asked is for: without it a VM released in between
  would be counted by nobody.  Assumed are the partition of the VMs among the jobs
  and a reserve that is not larger than a host.  Memory is counted as the
  cardinality of a set of megabytes, so that a sum over VMs needs no induction.
- `NewestKept`.  The row of the newest snapshot has the last created_at
  (`NewestIsLast`), so the sweep's list spares it; a replacement's list was made
  before its snapshot was taken, and what is taken and not yet recorded is in nobody's
  list (`TakenIsSafe`), so that it may become the newest; a list whose removal has
  begun names the newest only if the owner asked for its deletion
  (`ListsSpareNewest`, `DeletesAsked`).  The bound on faults plays no part.

The inductive invariant of each model stands at the end of its module and was
checked by TLC on the run's instance before it was proved.

Only model-checked: liveness under fairness, which is out of the prover's reach
(`NoJobHeldForever`, `CleanupIsServed`, `CancelledRunEnds`, `EveryRunEnds`,
`FailureSettles`, `ImportSettles`, `NetworkConverges`, `IdleIsParked`,
`SpaceReclaimed`), with it the two modules that have no safety property of their
own beside it, `ImageImport` and `PodNetwork`.

## 6. Plan

1. *Done:* the models of all components of section 1 that keep state of their own.
2. *Done:* the safety properties of all modules, section 5.
3. *Done:* the abstract queue that `JobQueue`, `PodLifecycle` and `CloneOperation`
   implement.
4. pod_create's clones, which share the clone operation but have one payload for
   several VMs.

## 7. Not modelled

* *Leader election*: an advisory lock of PostgreSQL, whose promise is the database's;
  `TemplateHealth` lets a former leader go on.
* *Reconcilers of VMs, IP addresses and trust*: one read and one conditional write
  per item, with nothing in between.
* *Content filter and DNS views*: text of the filter and a probe; `PodNetwork` has
  its outcome, a refused apply.
* *Authentication, middleware, blueprints, briefings, playlists, quotas,
  wiki*: request plumbing, reading, and single-row edits.
* *Synthetic monitor, docs bundle, schema guard, script validation, unattend*: no
  state of their own.
* Parts of modelled components: pods on a shared network and with several VMs,
  ExtendPod; resource pools, cores and datastores of a placement, and
  `single_vm_stripes.go`; snapshot metrics of template health; what actions do inside
  a test runner; a second power job beside the first, dry-run passes and metrics of
  the idle evaluator, and its vm_suspend job, which nothing creates; firewall rules that look generated but are not exactly so, and the
  limits on how many rules a clean-up may remove.
* One hazard of `PROJECT.json` has no property: nothing promises that a destroy
  that failed before destroy_failed was written is ever retried.  Nor does anything
  promise that a sweep which counts as a retry (`queries.go:2221`) finds its job
  ready.
