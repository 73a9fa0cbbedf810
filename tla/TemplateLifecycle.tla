-------------------------- MODULE TemplateLifecycle --------------------------
(***************************************************************************)
(* One template: its row, the wizard handlers of the API, the worker jobs  *)
(* they enqueue (template_provision, template_generalize, template_verify  *)
(* and the periodic template_revalidate), its staging VMs in vCenter, and  *)
(* the reconciler of template orphans.                                     *)
(*                                                                         *)
(* Every database statement and every call to vCenter that another actor   *)
(* can fall between is a step of its own.  Jobs run concurrently, a worker *)
(* that dies leaves its job to lease recovery, and an API process may die  *)
(* between two statements of a handler.  What is not atomic in the code    *)
(* and goes wrong is recorded in races, so that the invariants can say     *)
(* what holds as long as none of those races has happened.                 *)
(***************************************************************************)
EXTENDS Naturals, FiniteSets

CONSTANTS
    VMs,         \* managed object references vCenter can hand out
    Jobs,        \* rows of the jobs table
    Admins,      \* API requests that can be open at the same time
    Sources,     \* source kinds a draft may have
    MaxRetries,  \* jobs.max_retries
    NoVM         \* vcenter_vm_id = ''

ASSUME TemplateAssumption == /\ NoVM \notin VMs
                             /\ MaxRetries \in Nat
                             /\ Jobs \subseteq Nat
                             /\ Sources \subseteq {"clone", "clone_skip", "iso_manual", "iso_unattended"}

VARIABLES
    row,    \* the templates row: state, VM, is_active, source and whether it is stale
    vm,     \* the staging VMs of this template in the Templates folder
    job,    \* the template's rows in the jobs table, with the run of each
    req,    \* the API request each admin has open
    sweep,  \* the orphan reconciler's pass
    races   \* which of the races below have happened

vars == <<row, vm, job, req, sweep, races>>

States == {"draft", "provisioning", "configuring", "generalizing", "ready",
           "verifying", "active", "error"}
Transient == {"provisioning", "generalizing", "verifying"}
JobTypes == {"provision", "generalize", "verify", "revalidate"}

\* The state machine of the wizard.
CanTransition(from, to) ==
    to \in CASE from = "draft" -> {"provisioning"}
             [] from = "provisioning" -> {"configuring", "error"}
             [] from = "configuring" -> {"generalizing", "draft"}
             [] from = "generalizing" -> {"ready", "error"}
             [] from = "ready" -> {"verifying", "configuring", "draft"}
             [] from = "verifying" -> {"active", "ready", "error"}
             [] from = "active" -> {"ready"}
             [] from = "error" -> {"draft"}
             [] OTHER -> {}

Exists == row.st \in States

\* updated_at restarts the inactivity window with every change of the row.
SetRow(r) == row' = [r EXCEPT !.old = FALSE]

\* Compare-and-set of template_state; a lost race changes nothing.
UpdateTemplateLifecycleState(from, to) ==
    IF row.st = from THEN SetRow([row EXCEPT !.st = to]) ELSE UNCHANGED row

SetTemplateVCenterVM(v) == IF Exists THEN SetRow([row EXCEPT !.vm = v]) ELSE UNCHANGED row

SetTemplateActive(b) == IF Exists THEN SetRow([row EXCEPT !.act = b]) ELSE UNCHANGED row

NoJob == [type |-> "none", st |-> "none", pc |-> "start", vm |-> NoVM, tries |-> 0,
          clone |-> FALSE, pass |-> FALSE, cleanup |-> FALSE, manual |-> FALSE, cycle |-> 0]

NoReq == [op |-> "idle", from |-> "none", to |-> "none", vm |-> NoVM, cycle |-> 0]

NoSweep == [pc |-> "idle", vm |-> NoVM, found |-> {}]

Fresh == {v \in VMs : vm[v].st = "unused"}
There(v) == v \in VMs /\ vm[v].st = "there"
Named == {v \in VMs : There(v)}   \* all carry the name buildTemplateVMName gives this template

Live(j) == job[j].st \in {"pending", "running"}
Running(j, t, pc) == job[j].st = "running" /\ job[j].type = t /\ job[j].pc = pc

Init ==
    /\ row = [st |-> "none", vm |-> NoVM, act |-> FALSE, src |-> "none", old |-> FALSE, cycle |-> 0]
    /\ vm = [v \in VMs |-> [st |-> "unused", on |-> FALSE, gen |-> FALSE, snap |-> FALSE,
                            proven |-> FALSE, old |-> FALSE]]
    /\ job = [j \in Jobs |-> NoJob]
    /\ req = [a \in Admins |-> NoReq]
    /\ sweep = NoSweep
    /\ races = {}

-----------------------------------------------------------------------------
(* The wizard handlers. *)

Open(a, r) == req' = [req EXCEPT ![a] = r]
Close(a) == Open(a, NoReq)

\* A later statement of a handler finds a template that another request has taken
\* up again since the handler read it.
Overtaken(a) ==
    races' = IF req[a].cycle # row.cycle THEN races \cup {"stale_request"} ELSE races

\* The INSERT takes the column defaults, template_state 'active' and is_active true ...
CreateTemplate(a) ==
    /\ req[a].op = "idle" /\ row.st = "none"
    /\ \E s \in Sources : row' = [row EXCEPT !.st = "active", !.act = TRUE, !.src = s]
    /\ Open(a, [NoReq EXCEPT !.op = "draft", !.cycle = row.cycle])
    /\ UNCHANGED <<vm, job, sweep, races>>

\* ... and the second statement makes the row a draft.
AdminCreateTemplateDraft(a) ==
    /\ req[a].op = "draft"
    /\ IF Exists THEN SetRow([row EXCEPT !.st = "draft", !.act = FALSE]) ELSE UNCHANGED row
    /\ Close(a) /\ Overtaken(a)
    /\ UNCHANGED <<vm, job, sweep>>

\* requireTemplateInState and the compare-and-set of advanceTemplateAndEnqueue.
Advance(a, from, to) ==
    /\ req[a].op = "idle" /\ row.st = from /\ CanTransition(from, to)
    /\ SetRow([row EXCEPT !.st = to, !.cycle = @ + 1])
    /\ Open(a, [op |-> "enqueue", from |-> from, to |-> to, vm |-> row.vm, cycle |-> row.cycle + 1])
    /\ UNCHANGED <<vm, job, sweep, races>>

\* Preflight blocks a name already taken; the override makes that a warning.
AdminProvisionTemplate(a) == Advance(a, "draft", "provisioning")

AdminGeneralizeTemplate(a) == row.vm # NoVM /\ Advance(a, "configuring", "generalizing")

AdminPublishTemplate(a) == row.vm # NoVM /\ Advance(a, "ready", "verifying")

JobFor(s) == CASE s = "provisioning" -> "provision"
               [] s = "generalizing" -> "generalize"
               [] s = "verifying" -> "verify"

Insert(j, t, v, c) ==
    /\ job[j].st = "none"
    /\ \A k \in Jobs : job[k].st = "none" => ~(k < j)   \* rows are used in order
    /\ job' = [job EXCEPT ![j] = [NoJob EXCEPT !.type = t, !.st = "pending", !.vm = v, !.cycle = c]]

EnqueueJob(a, j) ==
    /\ req[a].op = "enqueue"
    /\ Insert(j, JobFor(req[a].to), req[a].vm, req[a].cycle)
    /\ Close(a) /\ Overtaken(a)
    /\ UNCHANGED <<row, vm, sweep>>

\* CreateJob failed: the transition is taken back, by compare-and-set again.
EnqueueFailed(a) ==
    /\ req[a].op = "enqueue"
    /\ UpdateTemplateLifecycleState(req[a].to, req[a].from)
    /\ Close(a) /\ Overtaken(a)
    /\ UNCHANGED <<vm, job, sweep>>

\* stateOnlyTransition: the state first, is_active in a second statement.
AdminUnpublishTemplate(a) ==
    /\ req[a].op = "idle" /\ row.st = "active"
    /\ UpdateTemplateLifecycleState("active", "ready")
    /\ Open(a, [NoReq EXCEPT !.op = "hide", !.cycle = row.cycle])
    /\ UNCHANGED <<vm, job, sweep, races>>

Hide(a) ==
    /\ req[a].op = "hide"
    /\ SetTemplateActive(FALSE)
    /\ Close(a) /\ Overtaken(a)
    /\ UNCHANGED <<vm, job, sweep>>

RetryDespiteVM(a) ==  \* mutant: the staging VM is not looked at
    /\ req[a].op = "idle" /\ row.st = "error"
    /\ UpdateTemplateLifecycleState("error", "draft")
    /\ UNCHANGED <<vm, job, req, sweep, races>>

\* Retry never destroys a VM, so it refuses while one is recorded.
AdminRetryTemplate(a) ==
    /\ req[a].op = "idle" /\ row.st = "error" /\ row.vm = NoVM
    /\ UpdateTemplateLifecycleState("error", "draft")
    /\ UNCHANGED <<vm, job, req, sweep, races>>

\* AdminCancelTemplate: read, destroy, forget the VM, compare-and-set.
CancelRead(a) ==
    /\ req[a].op = "idle" /\ row.st \in {"configuring", "ready", "error"}
    /\ CanTransition(row.st, "draft")
    /\ Open(a, [op |-> IF row.vm = NoVM THEN "cancel" ELSE "cancel_vm",
                from |-> row.st, to |-> "draft", vm |-> row.vm, cycle |-> row.cycle])
    /\ UNCHANGED <<row, vm, job, sweep, races>>

\* DestroyVM treats a VM that is gone as destroyed.
Destroyed(v) == IF There(v) THEN [vm EXCEPT ![v].st = "gone"] ELSE vm

CancelDestroy(a) ==
    /\ req[a].op = "cancel_vm"
    /\ \/ vm' = Destroyed(req[a].vm) /\ Open(a, [req[a] EXCEPT !.op = "cancel_clear"]) /\ Overtaken(a)
       \/ Close(a) /\ UNCHANGED <<vm, races>>
    /\ UNCHANGED <<row, job, sweep>>

CancelClear(a) ==
    /\ req[a].op = "cancel_clear"
    /\ SetTemplateVCenterVM(NoVM)
    /\ Open(a, [req[a] EXCEPT !.op = "cancel"]) /\ Overtaken(a)
    /\ UNCHANGED <<vm, job, sweep>>

AdminCancelTemplate(a) ==
    /\ req[a].op = "cancel"
    /\ UpdateTemplateLifecycleState(req[a].from, "draft")
    /\ Close(a) /\ Overtaken(a)
    /\ UNCHANGED <<vm, job, sweep>>

\* AdminDeleteTemplate: refused while a job is working on the template.
DeleteRead(a) ==
    /\ req[a].op = "idle" /\ Exists /\ row.st \notin Transient
    /\ Open(a, [NoReq EXCEPT !.op = "delete_vm", !.vm = row.vm, !.cycle = row.cycle])
    /\ UNCHANGED <<row, vm, job, sweep, races>>

DeleteDestroy(a) ==
    /\ req[a].op = "delete_vm"
    /\ \/ vm' = Destroyed(req[a].vm) /\ Open(a, [req[a] EXCEPT !.op = "delete"]) /\ Overtaken(a)
       \/ Close(a) /\ UNCHANGED <<vm, races>>
    /\ UNCHANGED <<row, job, sweep>>

\* DeleteTemplateWithHistory deletes the row whatever its state is by now.
AdminDeleteTemplate(a) ==
    /\ req[a].op = "delete"
    /\ row' = [row EXCEPT !.st = "deleted", !.vm = NoVM, !.act = FALSE]
    /\ Close(a) /\ Overtaken(a)
    /\ UNCHANGED <<vm, job, sweep>>

\* start and stop of the staging VM, in any state; restart and reset leave it on.
\* A VM that stops without having been generalized is later taken for one that was.
AdminTemplatePowerAction(a) ==
    /\ req[a].op = "idle" /\ Exists /\ There(row.vm)
    /\ \E on \in BOOLEAN :
         /\ on # vm[row.vm].on
         /\ vm' = [vm EXCEPT ![row.vm].on = on]
         /\ races' = IF on \/ vm[row.vm].gen THEN races ELSE races \cup {"stopped"}
    /\ UNCHANGED <<row, job, req, sweep>>

\* The API process dies: between the state and the job, the job is never created;
\* between destroying a VM and forgetting it, the reference stays for another attempt.
ApiCrash(a) ==
    /\ req[a].op # "idle"
    /\ Close(a)
    /\ races' = IF req[a].op \in {"enqueue", "cancel_clear", "delete"}
                THEN races \cup {"lost_write"} ELSE races
    /\ UNCHANGED <<row, vm, job, sweep>>

-----------------------------------------------------------------------------
(* Jobs: claims, crashes, retries. *)

Put(j, r) == job' = [job EXCEPT ![j] = r]
At(j, pc) == Put(j, [job[j] EXCEPT !.pc = pc])
Ended(j) == Put(j, [job[j] EXCEPT !.st = "ended"])

\* The body has returned; its success is recorded in a write of its own.
Returned(j) == At(j, "done")

CompleteJob(j) ==
    /\ job[j].st = "running" /\ job[j].pc = "done"
    /\ Ended(j)
    /\ UNCHANGED <<row, vm, req, sweep, races>>

\* The claim of a pending row, together with the handler's first read of the template.
Claimed(j, t) == job[j].st = "pending" /\ job[j].type = t
Begin(j, pc) == Put(j, [job[j] EXCEPT !.st = "running", !.pc = pc])

\* The worker dies, or loses its lease and is cancelled; recovery makes the row
\* pending again, for cleanup only once the smoke clone is armed: a clone whose
\* submission was not answered is taken up again by its persisted operation.
Armed(j) == job[j].clone /\ job[j].pc = "destroy"
Requeued(j) == [job[j] EXCEPT !.st = "pending", !.pc = "start", !.cleanup = @ \/ Armed(j)]

WorkerCrash(j) ==
    /\ job[j].st = "running"
    /\ Put(j, Requeued(j))
    /\ UNCHANGED <<row, vm, req, sweep, races>>

\* A failed body: retried while the error is transient and retries are left.  The
\* write of the failure can fail too, and leaves the job to lease recovery.
Retried(j) == job[j].tries < MaxRetries /\ Put(j, [Requeued(j) EXCEPT !.tries = @ + 1])
Failed(j) == Retried(j) \/ Ended(j) \/ Put(j, Requeued(j))

\* A job of an earlier cycle of the wizard moved the state.
Foreign(j) == IF row'.st # row.st /\ job[j].cycle # row.cycle THEN {"stale_job"} ELSE {}

\* A job that was requeued runs again in a later cycle that is in the state it expects.
Starts(j) ==
    races' = IF job[j].type # "revalidate" /\ job[j].cycle # row.cycle
             THEN races \cup {"stale_run"} ELSE races

\* A body that could not read its template, or whose mark on it could not be read or
\* written, and that is not tried again.
Unmarked(j) == IF job'[j].st = "ended" THEN {"unmarked"} ELSE {}

ErrorOnlyLogged(j) ==  \* mutant: the failure is logged and not marked
    UNCHANGED <<row, races>>

\* markTemplateError is best effort: it may fail, or find a state that has no way to error.
MarkTemplateError(j) ==
    \/ /\ IF CanTransition(row.st, "error") THEN SetRow([row EXCEPT !.st = "error"]) ELSE UNCHANGED row
       /\ races' = races \cup Foreign(j)
    \/ UNCHANGED row /\ races' = races \cup Unmarked(j)

FailMarked(j) == Failed(j) /\ MarkTemplateError(j) /\ UNCHANGED <<vm, req, sweep>>

\* A body that returns its error without marking the template.
FailPlain(j) == Failed(j) /\ UNCHANGED <<row, vm, req, sweep, races>>

-----------------------------------------------------------------------------
(* template_provision *)

TemplateProvisionedBeyond(s) == s \in {"configuring", "generalizing", "ready", "verifying", "active"}

\* RetryTemplateProvisionJob, or FailTemplateProvisionJob: job and template fail in
\* one transaction, or not at all, and then lease recovery runs the job again.
ProvisionFailed(j) ==
    \/ /\ job[j].tries < MaxRetries
       /\ Put(j, [Requeued(j) EXCEPT !.tries = @ + 1])
       /\ UNCHANGED <<row, races>>
    \/ /\ row.st = "provisioning"
       /\ SetRow([row EXCEPT !.st = "error"])
       /\ Ended(j)
       /\ races' = races \cup Foreign(j)
    \/ /\ row.st # "provisioning"
       /\ Put(j, Requeued(j))
       /\ UNCHANGED <<row, races>>

FailProvision(j) == ProvisionFailed(j) /\ UNCHANGED <<vm, req, sweep>>

ProvisionTemplate(j) ==
    /\ Claimed(j, "provision")
    /\ \/ row.st = "provisioning" /\ Begin(j, "clone") /\ Starts(j) /\ UNCHANGED <<row, vm, req, sweep>>
       \/ TemplateProvisionedBeyond(row.st) /\ Ended(j) /\ UNCHANGED <<row, vm, req, sweep, races>>
       \/ FailProvision(j)

Created(v) == [vm EXCEPT ![v] = [@ EXCEPT !.st = "there"]]

\* A clone takes over the VM of that name, as left by an interrupted run.
CloneTemplateSourceVM(j) ==
    /\ Running(j, "provision", "clone") /\ row.src \in {"clone", "clone_skip"}
    /\ \/ /\ Named # {}
          /\ \E v \in Named : Put(j, [job[j] EXCEPT !.vm = v, !.pc = "record"])
          /\ UNCHANGED <<row, vm, req, sweep, races>>
       \/ /\ Named = {}
          /\ \E v \in Fresh : vm' = Created(v) /\ Put(j, [job[j] EXCEPT !.vm = v, !.pc = "record"])
          /\ UNCHANGED <<row, req, sweep, races>>
       \/ FailProvision(j)

\* A blank VM has no such way: a name that is taken is a fault.
CreateBlankVM(j) ==
    /\ Running(j, "provision", "clone") /\ row.src \in {"iso_manual", "iso_unattended"}
    /\ \/ /\ Named = {}
          /\ \E v \in Fresh : vm' = Created(v) /\ Put(j, [job[j] EXCEPT !.vm = v, !.pc = "record"])
          /\ UNCHANGED <<row, req, sweep, races>>
       \/ FailProvision(j)

ProvisionRecord(j) ==
    /\ Running(j, "provision", "record")
    /\ \/ SetTemplateVCenterVM(job[j].vm) /\ At(j, "boot") /\ UNCHANGED <<vm, req, sweep, races>>
       \/ FailProvision(j)

\* Network, disk probe and repair, power-on, install and VMware Tools.  A manual
\* install hands the VM over without an operating system, and powered off when the
\* datastore is slow; every other source is up when the step ends.
ProvisionBoot(j) ==
    /\ Running(j, "provision", "boot")
    /\ \/ /\ There(job[j].vm)
          /\ \E on \in BOOLEAN :
               /\ row.src # "iso_manual" => on
               /\ vm' = [vm EXCEPT ![job[j].vm].on = on]
               /\ races' = IF on THEN races ELSE races \cup {"stopped"}
          /\ At(j, "advance")
          /\ UNCHANGED <<row, req, sweep>>
       \/ FailProvision(j)

\* Losing provisioning to a job that has gone beyond it is success for a clone,
\* and an error for an ISO install.
ProvisionAdvance(j) ==
    /\ Running(j, "provision", "advance")
    /\ \/ /\ row.st = "provisioning"
          /\ UpdateTemplateLifecycleState("provisioning", "configuring")
          /\ races' = races \cup Foreign(j)
          /\ Returned(j)
          /\ UNCHANGED <<vm, req, sweep>>
       \/ /\ TemplateProvisionedBeyond(row.st) /\ row.src \in {"clone", "clone_skip"}
          /\ Ended(j)
          /\ UNCHANGED <<row, vm, req, sweep, races>>
       \/ FailProvision(j)

-----------------------------------------------------------------------------
(* template_generalize *)

\* A VM that is off already is taken for one whose sysprep has finished.  A template
\* that cannot be read, is in another state or has no plan fails the job unmarked.
GeneralizeTemplate(j) ==
    /\ Claimed(j, "generalize")
    /\ \/ /\ row.st = "generalizing"
          /\ Begin(j, CASE row.src = "clone_skip" -> "off"
                        [] There(job[j].vm) /\ ~vm[job[j].vm].on -> "snapshot"
                        [] OTHER -> "guest")
          /\ Starts(j)
          /\ UNCHANGED <<row, vm, req, sweep>>
       \/ row.st # "generalizing" /\ FailPlain(j)
       \/ Failed(j) /\ races' = races \cup Unmarked(j) /\ UNCHANGED <<row, vm, req, sweep>>

\* Tools, preflight, the script, its sentinel and the shutdown.  The wait for the
\* power-off can give up on a guest that generalizes and shuts down afterwards.
GeneralizeConfirmed(j) ==
    /\ Running(j, "generalize", "guest") /\ There(job[j].vm)
    /\ vm' = [vm EXCEPT ![job[j].vm] = [@ EXCEPT !.gen = TRUE, !.on = FALSE]]
    /\ \/ At(j, "snapshot") /\ UNCHANGED <<row, races>>
       \/ Failed(j) /\ MarkTemplateError(j)
    /\ UNCHANGED <<req, sweep>>

GeneralizeUnconfirmed(j) == Running(j, "generalize", "guest") /\ FailMarked(j)

SkipGeneralizeAndFinalize(j) ==
    /\ Running(j, "generalize", "off")
    /\ \/ /\ There(job[j].vm)
          /\ vm' = [vm EXCEPT ![job[j].vm].on = FALSE]
          /\ At(j, "snapshot")
          /\ UNCHANGED <<row, req, sweep, races>>
       \/ FailMarked(j)

SnapshotSkipped(j) ==  \* mutant: an error of the snapshot is only logged
    /\ Running(j, "generalize", "snapshot")
    /\ At(j, "ready")
    /\ UNCHANGED <<row, vm, req, sweep, races>>

GeneralizeSnapshot(j) ==
    /\ Running(j, "generalize", "snapshot")
    /\ \/ /\ There(job[j].vm)
          /\ vm' = [vm EXCEPT ![job[j].vm].snap = TRUE]
          /\ At(j, "ready")
          /\ UNCHANGED <<row, req, sweep, races>>
       \/ FailMarked(j)

SnapshotAndMarkReady(j) ==
    /\ Running(j, "generalize", "ready")
    /\ \/ /\ row.st = "generalizing"
          /\ UpdateTemplateLifecycleState("generalizing", "ready")
          /\ races' = races \cup Foreign(j)
          /\ Returned(j)
          /\ UNCHANGED <<vm, req, sweep>>
       \/ FailMarked(j)

-----------------------------------------------------------------------------
(* template_verify and template_revalidate *)

Smoke(j) == job[j].type \in {"verify", "revalidate"}

\* An error before the smoke check ends the job unmarked, or, with a clone operation
\* on record, goes on as a retry of it or as its cleanup.
PreambleFailed(j) ==
    \/ ~job[j].clone /\ Failed(j)
    \/ job[j].clone /\ (Retried(j) \/ Put(j, [Requeued(j) EXCEPT !.cleanup = TRUE]))

VerifyExpects(j) == IF job[j].type = "verify" THEN row.st = "verifying" ELSE Exists

VerifyTemplate(j) ==
    /\ job[j].st = "pending" /\ Smoke(j) /\ ~job[j].cleanup
    /\ \/ VerifyExpects(j) /\ Begin(j, "smoke") /\ Starts(j)
       \/ ~VerifyExpects(j) /\ PreambleFailed(j) /\ UNCHANGED races
       \/ PreambleFailed(j) /\ races' = races \cup Unmarked(j)
    /\ UNCHANGED <<row, vm, req, sweep>>

\* verifying -> ready, whichever publish the row is verifying for by now.  Best
\* effort: a write that fails is only logged.
VerifyFailedToReady(j) ==
    \/ /\ IF job[j].type = "verify" THEN UpdateTemplateLifecycleState("verifying", "ready") ELSE UNCHANGED row
       /\ races' = races \cup Foreign(j)
    \/ job[j].type = "verify" /\ UNCHANGED row /\ races' = races \cup Unmarked(j)

\* The clone of the base image is submitted, or taken up again by a later run.
ExecuteDurableVMClone(j) ==
    /\ job[j].st = "running" /\ Smoke(j) /\ job[j].pc = "smoke" /\ ~job[j].clone
    /\ There(job[j].vm) /\ vm[job[j].vm].snap
    /\ Put(j, [job[j] EXCEPT !.clone = TRUE])
    /\ UNCHANGED <<row, vm, req, sweep, races>>

\* A clone whose cleanup is kept for another run, or is beyond any run: its identity is
\* incomplete, its owner ambiguous or its placement has drifted, and it is left for an operator.
CleanupLater(j) == Put(j, [Requeued(j) EXCEPT !.cleanup = TRUE])
ManualCleanupRequired(j) == Put(j, [job[j] EXCEPT !.st = "ended", !.manual = TRUE])

\* The verdict of the check, with the clone armed; or no verdict: no clone, and the job
\* tries again or ends; a clone whose task or identity is in doubt, to be tried again,
\* cleaned up or left.  proven is the verdict of the last publish check of the VM.
RunSmokeCheck(j) ==
    /\ job[j].st = "running" /\ Smoke(j) /\ job[j].pc = "smoke"
    /\ \/ /\ job[j].clone
          /\ \E ok \in BOOLEAN :
               /\ Put(j, [job[j] EXCEPT !.pass = ok, !.pc = "destroy"])
               /\ vm' = IF job[j].type = "verify" THEN [vm EXCEPT ![job[j].vm].proven = ok] ELSE vm
          /\ UNCHANGED <<row, races>>
       \/ Retried(j) /\ UNCHANGED <<row, vm, races>>
       \/ /\ \/ ~job[j].clone /\ Ended(j)
             \/ job[j].clone /\ (CleanupLater(j) \/ ManualCleanupRequired(j))
          /\ VerifyFailedToReady(j) /\ UNCHANGED vm
    /\ UNCHANGED <<req, sweep>>

\* The clone is gone, and its record with it.
Cleaned(j) == [job[j] EXCEPT !.clone = FALSE]

VerdictDropped(j) ==  \* mutant: a cleanup that succeeds clears the smoke failure
    /\ job[j].st = "running" /\ Smoke(j) /\ job[j].pc = "destroy"
    /\ \/ Put(j, [Cleaned(j) EXCEPT !.pc = "promote"]) /\ UNCHANGED <<row, races>>
       \/ (CleanupLater(j) \/ ManualCleanupRequired(j)) /\ VerifyFailedToReady(j)
    /\ UNCHANGED <<vm, req, sweep>>

CleanupGivesUp(j) ==  \* mutant: a failed cleanup fails the job
    /\ job[j].st = "running" /\ Smoke(j) /\ job[j].pc = "destroy"
    /\ \/ job[j].pass /\ Put(j, [Cleaned(j) EXCEPT !.pc = "promote"]) /\ UNCHANGED <<row, races>>
       \/ Ended(j) /\ VerifyFailedToReady(j)
    /\ UNCHANGED <<vm, req, sweep>>

\* The clone is destroyed before the verdict counts: passed, the promotion; failed, a
\* retry if the cause was transient, or back to ready.  A clone that cannot be destroyed
\* turns the job into a cleanup that is retried until it is gone, or is left for an operator.
FinishStandaloneVMCloneCleanup(j) ==
    /\ job[j].st = "running" /\ Smoke(j) /\ job[j].pc = "destroy"
    /\ \/ /\ job[j].pass
          /\ Put(j, [Cleaned(j) EXCEPT !.pc = "promote"])
          /\ UNCHANGED <<row, races>>
       \/ /\ ~job[j].pass /\ job[j].tries < MaxRetries
          /\ Put(j, [Cleaned(j) EXCEPT !.st = "pending", !.pc = "start", !.tries = @ + 1])
          /\ UNCHANGED <<row, races>>
       \/ /\ \/ ~job[j].pass /\ Put(j, [Cleaned(j) EXCEPT !.st = "ended"])
             \/ CleanupLater(j)
             \/ ManualCleanupRequired(j)
          /\ VerifyFailedToReady(j)
    /\ UNCHANGED <<vm, req, sweep>>

\* A cleanup-only run: the clone goes, stays for another run, or is left for an
\* operator; the template falls back to ready again.
SmokeCleanupOnly(j) ==
    /\ job[j].st = "pending" /\ Smoke(j) /\ job[j].cleanup
    /\ \/ Put(j, [Cleaned(j) EXCEPT !.st = "ended"])
       \/ CleanupLater(j)
       \/ ManualCleanupRequired(j)
    /\ VerifyFailedToReady(j)
    /\ UNCHANGED <<vm, req, sweep>>

\* The acceptance of the credentials, then the promotion; a promotion that fails or has
\* lost verifying tries to mark the error instead.
VerifyPromote(j) ==
    /\ Running(j, "verify", "promote")
    /\ \/ /\ row.st = "verifying"
          /\ UpdateTemplateLifecycleState("verifying", "active")
          /\ races' = races \cup Foreign(j)
          /\ At(j, "activate")
          /\ UNCHANGED <<vm, req, sweep>>
       \/ Failed(j) /\ VerifyFailedToReady(j) /\ UNCHANGED <<vm, req, sweep>>
       \/ FailMarked(j)

VerifyActivate(j) ==
    /\ Running(j, "verify", "activate")
    /\ \/ SetTemplateActive(TRUE) /\ Returned(j) /\ UNCHANGED <<vm, req, sweep, races>>
       \/ FailPlain(j)

\* A revalidation only records its verdict: the template stays published.
RevalidateL1Template(j) ==
    /\ Running(j, "revalidate", "promote")
    /\ Failed(j)
    /\ UNCHANGED <<row, vm, req, sweep, races>>

\* The reconciler enqueues one revalidation of a published template at a time: the
\* lock on the template row orders the check and the INSERT.
CreateTemplateRevalidateJobIfAbsent(j) ==
    /\ Exists /\ row.act
    /\ \A k \in Jobs : job[k].type = "revalidate" => ~Live(k)
    /\ Insert(j, "revalidate", row.vm, row.cycle)
    /\ UNCHANGED <<row, vm, req, sweep, races>>

-----------------------------------------------------------------------------
(* The reconciler of template orphans *)

\* The inactivity window (24 h) passes over a row nobody touches, longer than any job
\* runs, and MinAge (1 h) over a VM.  MinAge is longer than a provision needs from its
\* clone to recording it, recovery of its lease included: a VM a live provision is
\* about to record is not yet old.
Age ==
    \/ /\ row.st \in {"draft", "error"} /\ row.vm # NoVM /\ ~row.old
       /\ \A j \in Jobs : job[j].st # "running"
       /\ row' = [row EXCEPT !.old = TRUE]
       /\ UNCHANGED <<vm, job, req, sweep, races>>
    \/ /\ \E v \in VMs :
            /\ There(v) /\ ~vm[v].old /\ row.vm # v
            /\ \A j \in Jobs : job[j].type = "provision" => ~Live(j)
            /\ vm' = [vm EXCEPT ![v].old = TRUE]
       /\ UNCHANGED <<row, job, req, sweep, races>>

StaleRow == row.st \in {"draft", "error"} /\ row.vm # NoVM /\ row.old

\* Listing and the compare-and-set claim on VM, state and updated_at.
ClaimStaleWizardTemplateVM ==
    /\ sweep.pc = "idle" /\ StaleRow
    /\ sweep' = [sweep EXCEPT !.pc = "destroy", !.vm = row.vm]
    /\ SetRow(row)
    /\ UNCHANGED <<vm, job, req, races>>

\* The power state cannot be read or the destruction fails: the next pass's turn.
DestroyTemplateOrphanVM ==
    /\ sweep.pc = "destroy"
    /\ \/ vm' = Destroyed(sweep.vm) /\ sweep' = [sweep EXCEPT !.pc = "clear"]
       \/ UNCHANGED vm /\ sweep' = NoSweep
    /\ UNCHANGED <<row, job, req, races>>

\* The row is deleted if it still is what was claimed.
ClearTemplateVCenterVMIfMatch ==
    /\ sweep.pc = "clear"
    /\ row' = IF row.vm = sweep.vm /\ row.st \in {"draft", "error"}
              THEN [row EXCEPT !.st = "deleted", !.vm = NoVM, !.act = FALSE] ELSE row
    /\ sweep' = NoSweep
    /\ UNCHANGED <<vm, job, req, races>>

\* The inventory pass: first the folder, then the references the database owns.
ListVMsInFolder ==
    /\ sweep.pc = "idle" /\ \E v \in Named : vm[v].old
    /\ sweep' = [sweep EXCEPT !.pc = "owned", !.found = {v \in Named : vm[v].old}]
    /\ UNCHANGED <<row, vm, job, req, races>>

ListOwnedTemplateFolderMorefs ==
    /\ sweep.pc = "owned"
    /\ sweep' = [sweep EXCEPT !.pc = "inventory", !.found = @ \ {row.vm}]
    /\ UNCHANGED <<row, vm, job, req, races>>

\* A VM recorded since then is destroyed all the same.
DestroyInventoryVM ==
    /\ sweep.pc = "inventory"
    /\ \/ \E v \in sweep.found :
            /\ vm' = Destroyed(v)
            /\ sweep' = [sweep EXCEPT !.found = @ \ {v}]
            /\ races' = IF row.vm = v THEN races \cup {"inventory"} ELSE races
       \/ sweep.found = {} /\ sweep' = NoSweep /\ UNCHANGED <<vm, races>>
    /\ UNCHANGED <<row, job, req>>

\* A smoke clone is never owned: past MinAge the pass destroys it under its job.
DestroyInventorySmoke(j) ==
    /\ job[j].clone /\ sweep.pc = "idle"
    /\ Put(j, [job[j] EXCEPT !.clone = FALSE, !.pass = FALSE])
    /\ UNCHANGED <<row, vm, req, sweep, races>>

-----------------------------------------------------------------------------
Handler(a) ==
    \/ CreateTemplate(a) \/ AdminCreateTemplateDraft(a) \/ AdminProvisionTemplate(a)
    \/ AdminGeneralizeTemplate(a) \/ AdminPublishTemplate(a)
    \/ (\E j \in Jobs : EnqueueJob(a, j)) \/ EnqueueFailed(a)
    \/ AdminUnpublishTemplate(a) \/ Hide(a) \/ AdminRetryTemplate(a)
    \/ CancelRead(a) \/ CancelDestroy(a) \/ CancelClear(a) \/ AdminCancelTemplate(a)
    \/ DeleteRead(a) \/ DeleteDestroy(a) \/ AdminDeleteTemplate(a)
    \/ AdminTemplatePowerAction(a) \/ ApiCrash(a)

Body(j) ==
    \/ CompleteJob(j)
    \/ ProvisionTemplate(j) \/ CloneTemplateSourceVM(j) \/ CreateBlankVM(j) \/ ProvisionRecord(j)
    \/ ProvisionBoot(j) \/ ProvisionAdvance(j)
    \/ GeneralizeTemplate(j) \/ GeneralizeConfirmed(j) \/ GeneralizeUnconfirmed(j)
    \/ SkipGeneralizeAndFinalize(j) \/ GeneralizeSnapshot(j) \/ SnapshotAndMarkReady(j)
    \/ VerifyTemplate(j) \/ ExecuteDurableVMClone(j) \/ RunSmokeCheck(j) \/ FinishStandaloneVMCloneCleanup(j)
    \/ SmokeCleanupOnly(j) \/ VerifyPromote(j) \/ VerifyActivate(j) \/ RevalidateL1Template(j)

Reconcile ==
    \/ Age \/ ClaimStaleWizardTemplateVM \/ DestroyTemplateOrphanVM \/ ClearTemplateVCenterVMIfMatch
    \/ ListVMsInFolder \/ ListOwnedTemplateFolderMorefs \/ DestroyInventoryVM
    \/ \E j \in Jobs : DestroyInventorySmoke(j) \/ CreateTemplateRevalidateJobIfAbsent(j)

Next == (\E a \in Admins : Handler(a)) \/ (\E j \in Jobs : Body(j) \/ WorkerCrash(j)) \/ Reconcile

Spec == Init /\ [][Next]_vars

-----------------------------------------------------------------------------
Rows == [st : States \cup {"none", "deleted"}, vm : VMs \cup {NoVM}, act : BOOLEAN,
         src : Sources \cup {"none"}, old : BOOLEAN, cycle : Nat]
Machines == [st : {"unused", "there", "gone"}, on : BOOLEAN, gen : BOOLEAN,
             snap : BOOLEAN, proven : BOOLEAN, old : BOOLEAN]
JobRows == [type : JobTypes \cup {"none"}, st : {"none", "pending", "running", "ended"},
            pc : {"start", "clone", "record", "boot", "advance", "guest", "off", "snapshot", "ready",
                  "smoke", "destroy", "promote", "activate", "done"},
            vm : VMs \cup {NoVM}, tries : 0 .. MaxRetries, clone : BOOLEAN, pass : BOOLEAN,
            cleanup : BOOLEAN, manual : BOOLEAN, cycle : Nat]
Requests == {q \in [op : {"idle", "draft", "enqueue", "hide", "cancel_vm", "cancel_clear", "cancel",
                          "delete_vm", "delete"},
                    from : States \cup {"none"}, to : States \cup {"none"},
                    vm : VMs \cup {NoVM}, cycle : Nat] :
               q.op = "enqueue" => q.to \in Transient}
Sweeps == [pc : {"idle", "destroy", "clear", "owned", "inventory"}, vm : VMs \cup {NoVM},
           found : SUBSET VMs]

Races == {"stale_job", "stale_run", "stale_request", "lost_write", "unmarked", "stopped", "inventory"}

\* The types of the state.
TypeOK ==
    /\ row \in Rows /\ vm \in [VMs -> Machines] /\ job \in [Jobs -> JobRows]
    /\ req \in [Admins -> Requests] /\ sweep \in Sweeps
    /\ races \subseteq Races

\* A template in a state only a job can leave has that job, alive, or the request that
\* is about to create it (advanceTemplateAndEnqueue, Requeued, FailTemplateProvisionJob):
\* the wizard has no exit from these states.  Every way in which a job can stop keeps it:
\* failures at any step, retries, lease recovery, cleanup-only runs and manual cleanup.
\* Two things break it in the code and are recorded as races: an API process that dies
\* between the two statements (lost_write), and a job that ends after it could not read
\* its template or write the mark (unmarked: GeneralizeTemplate and VerifyTemplate before
\* they begin, markTemplateError, verifyFailedToReady), although GeneralizeTemplate says
\* "On any failure, set template_state -> 'error'".
NoStuckTemplate ==
    row.st \in Transient /\ races = {} =>
       \/ \E j \in Jobs : Live(j) /\ job[j].type = JobFor(row.st) /\ job[j].cycle = row.cycle
       \/ \E a \in Admins : req[a].op = "enqueue" /\ req[a].to = row.st

\* A template that is ready, being verified or published still has its VM and the VM its
\* base-image snapshot, unless somebody is at this moment cancelling or deleting it
\* (destroy before forget), or the inventory pass took a VM that was recorded meanwhile.
BaseImageKept ==
    row.st \in {"ready", "verifying", "active"} /\ row.vm # NoVM /\ races = {} =>
       \/ There(row.vm) /\ vm[row.vm].snap
       \/ \E a \in Admins : req[a].op \in {"cancel_clear", "delete"} /\ req[a].vm = row.vm

\* What AdminPublishTemplate promises: the last publish check of a published VM
\* (RunSmokeCheck) was passed, whatever happened to the clone, the worker and the template
\* between the verdict and the promotion; and the VM carries a base image that was
\* generalized, unless that was declined or it had been powered off by hand.
PublishedIsProven ==
    row.st = "active" /\ row.vm # NoVM /\ races = {} =>
       vm[row.vm].proven /\ (row.src # "clone_skip" => vm[row.vm].gen)

\* A smoke clone outlives its job only if the job ended saying so: what the job cannot
\* destroy keeps it alive as a retry or a cleanup, through crashes, unanswered submissions,
\* errors before the check and failures of the cleanup itself, unless the clone is beyond
\* any run and the job ends with manual_cleanup_required (processJobLifecycle).
SmokeCloneOwned == \A j \in Jobs : job[j].clone => Live(j) \/ job[j].manual

\* The reconciler of orphans destroys the VM of a row only while the row is abandoned:
\* between its claim and the destruction nobody can take the template up again.
SparesLive ==
    sweep.pc = "destroy" /\ sweep'.pc = "clear" /\ row.vm = sweep.vm /\ races = {} =>
       row.st \in {"draft", "error"}
SweepSparesLive == [][SparesLive]_vars

\* UpdateTemplateLifecycleState is gated on the current state "so concurrent workers
\* don't overwrite each other": no job moves a template that has since entered another
\* cycle of the wizard.
OwnVerdict == "stale_job" \notin races

-----------------------------------------------------------------------------
(* The inductive invariant of the properties above.  All of it but the first *)
(* part speaks of behaviours without a race.                                  *)

\* A smoke clone is with the run that checks or destroys it, with a job that was
\* requeued, or left for an operator.
CloneHeld(n) ==
    n.clone => /\ n.type \in {"verify", "revalidate"}
               /\ \/ n.st = "running" /\ n.pc \in {"smoke", "destroy"}
                  \/ n.st = "pending"
                  \/ n.st = "ended" /\ n.manual
ClonesHeld == \A j \in Jobs : CloneHeld(job[j])

\* The jobs of the wizard, and the one that belongs to the row's cycle.
Wizard(n) == n.type \in {"provision", "generalize", "verify"}
Current(n) == Wizard(n) /\ n.cycle = row.cycle
Enqueues(q) == q.op = "enqueue"

\* One request starts a cycle and makes one job for it.
OneWorker ==
    /\ \A j \in Jobs : Wizard(job[j]) => job[j].cycle <= row.cycle
    /\ \A j, k \in Jobs : Current(job[j]) /\ Current(job[k]) => j = k
    /\ \A a \in Admins, j \in Jobs : Enqueues(req[a]) => ~Current(job[j])
    /\ \A a, b \in Admins : Enqueues(req[a]) /\ Enqueues(req[b]) => a = b
    /\ \A a \in Admins : req[a].cycle <= row.cycle

\* Nothing refers to a VM that was never made.
Known(v) == v # NoVM => vm[v].st # "unused"
AllKnown ==
    /\ Known(row.vm) /\ Known(sweep.vm)
    /\ \A j \in Jobs : Known(job[j].vm)
    /\ \A a \in Admins : Known(req[a].vm)

\* A run that can still move the template has it in the state it works on, and
\* in its own cycle; a job is through only when the template has left that state.
StateOf(n) == CASE n.type = "provision" -> "provisioning"
                [] n.type = "generalize" -> "generalizing"
                [] OTHER -> "verifying"
Busy(n) == Wizard(n) /\ n.st = "running" /\ n.pc \notin {"done", "activate"}

JobFits(n) ==
    /\ Busy(n) => Current(n) /\ row.st = StateOf(n)
    /\ Current(n) /\ row.st \in Transient =>
          /\ n.st \in {"pending", "running"} /\ n.pc \notin {"done", "activate"} /\ row.st = StateOf(n)
          /\ n.type # "provision" => n.vm = row.vm /\ row.vm # NoVM
    /\ Busy(n) /\ n.type = "provision" /\ n.pc \in {"record", "boot", "advance"} =>
          /\ n.vm # NoVM
          /\ sweep.pc = "destroy" => n.vm # sweep.vm
          /\ n.pc # "record" => row.vm = n.vm
          /\ n.pc = "advance" => vm[n.vm].on \/ vm[n.vm].gen
    /\ Busy(n) /\ n.type = "generalize" =>
          /\ n.pc = "off" => row.src = "clone_skip"
          /\ n.pc \in {"snapshot", "ready"} => row.src = "clone_skip" \/ vm[n.vm].gen
          /\ n.pc = "ready" => There(n.vm) /\ vm[n.vm].snap
    /\ Busy(n) /\ n.type = "verify" /\ (n.pc = "promote" \/ (n.pc = "destroy" /\ n.pass)) =>
          vm[n.vm].proven

\* A state that only a job can leave has its job, or the request about to make it.
Served ==
    row.st \in Transient =>
       \/ \E j \in Jobs : Current(job[j])
       \/ \E a \in Admins : Enqueues(req[a])

\* A request that is about to enqueue holds the template; any other sees one at
\* rest, or one that has gone on to another cycle.
ReqFits(q) ==
    /\ Enqueues(q) =>
          /\ q.cycle = row.cycle /\ row.st = q.to /\ row.st \in Transient
          /\ q.to = "provisioning" => q.from = "draft" /\ row.vm = NoVM
          /\ q.to = "generalizing" => q.from = "configuring" /\ row.vm # NoVM /\ q.vm = row.vm
          /\ q.to = "verifying" => q.from = "ready" /\ row.vm # NoVM /\ q.vm = row.vm
    /\ q.op \notin {"idle", "enqueue"} /\ q.cycle = row.cycle =>
          /\ row.st \notin Transient
          /\ q.op \in {"cancel", "draft"} => row.vm = NoVM
          /\ q.op \in {"cancel_vm", "cancel_clear", "delete_vm", "delete"} => row.vm = NoVM \/ row.vm = q.vm
          /\ q.op \in {"cancel_clear", "delete"} /\ row.vm # NoVM => vm[row.vm].st = "gone"

\* Somebody is about to forget the VM that was destroyed.
Forgetting(v) == \E a \in Admins : req[a].op \in {"cancel_clear", "delete"} /\ req[a].vm = v

\* What the row says of its VM.
RowOrderly ==
    /\ row.st \in {"none", "deleted", "draft"} => row.vm = NoVM
    /\ row.vm # NoVM =>
          /\ row.st \in {"configuring", "generalizing"} =>
                row.src = "clone_skip" \/ vm[row.vm].on \/ vm[row.vm].gen
          /\ row.st \in {"ready", "verifying", "active"} =>
                /\ row.src = "clone_skip" \/ vm[row.vm].gen
                /\ (There(row.vm) /\ vm[row.vm].snap) \/ Forgetting(row.vm)
          /\ row.st = "active" => vm[row.vm].proven

\* The VM a pass has claimed is that of a failed row, or somebody else was faster.
SweepOrderly ==
    sweep.pc = "destroy" =>
       /\ sweep.vm # NoVM
       /\ row.vm = sweep.vm => row.st = "error"
       /\ row.vm # sweep.vm => vm[sweep.vm].st = "gone"

Orderly ==
    /\ OneWorker /\ AllKnown /\ Served /\ RowOrderly /\ SweepOrderly
    /\ \A j \in Jobs : JobFits(job[j])
    /\ \A a \in Admins : ReqFits(req[a])

IInv == TypeOK /\ ClonesHeld /\ (races = {} => Orderly)
=============================================================================
