--------------------------- MODULE CloneOperation ---------------------------
(***************************************************************************)
(* The durable clone of a vm_add job: one VM row, its vm_add job with the   *)
(* clone operation, the staged cleanup target and the recorded destructions *)
(* in its payload, the clones in vCenter, and a vm_destroy job for the VM.  *)
(*                                                                         *)
(* A clone is named by the operation that submitted it: the operation id is *)
(* the marker vCenter keeps.  The pod stays active: a destroy job and a     *)
(* vm_add job exclude each other (PodLifecycle).  The queue appears as in   *)
(* PodLifecycle: claim and start are one step, a lease may be recovered at  *)
(* any time.                                                               *)
(***************************************************************************)
EXTENDS Naturals, FiniteSets

CONSTANTS
    Ops,          \* operation ids; also the clones they create
    Tokens,       \* claim tokens
    None,
    MaxRetries    \* max_retries of the job

ASSUME NoneApart == None \notin Ops \cup Tokens
ASSUME MaxRetriesIsNat == MaxRetries \in Nat

VARIABLES
    job,     \* the vm_add row
    vm,      \* the pod_vms row
    vc,      \* vCenter: what became of each submitted operation
    runs,    \* executions of the vm_add job, by claim token
    del      \* the vm_destroy job and its execution

vars == <<job, vm, vc, runs, del>>

Building == {"pending", "cloning", "configuring"}
Ended == {"completed", "compensated", "manual", "failed"}  \* the last three: status failed, by result

NoOp == [id |-> None, phase |-> "none", task |-> FALSE]
OpRows == [id : Ops \cup {None}, phase : {"none", "prepared", "submitting", "submitted"},
           task : BOOLEAN]

JobRows == [status : {"pending", "active"} \cup Ended, owner : Tokens \cup {None},
            retries : 0 .. MaxRetries,
            op : OpRows,                   \* payload.clone_operation
            cleanup : BOOLEAN,             \* payload.cleanup_only
            done : BOOLEAN,                \* payload.cleanup_completed
            target : Ops \cup {None},      \* payload.cleanup_target
            destroyed : SUBSET Ops]        \* payload.destroyed_cleanup_targets

PCs == {"idle", "read", "guard", "plan", "prepare", "start", "abandon", "submit", "persist",
        "wait", "stage", "configure", "adopt", "disarm", "power", "mark",
        "fstage", "load", "reconcile", "rstage", "reload", "destroy", "complete",
        "finalize", "record", "settle"}

\* hadOp: payload.CloneOperation was set at the claim; budget: retries were left then;
\* known, running: the VM's MoRef and whether it ran, when the body read it; op: the
\* operation at hand; moref: the clone at hand; cause: what failVMAddWithCleanup was
\* called for; out and target: the error the body returns and the target it carries.
RunRows == [pc : PCs, hadOp : BOOLEAN, budget : BOOLEAN, running : BOOLEAN,
            op : OpRows, known : Ops \cup {None}, moref : Ops \cup {None},
            cause : {"cleanup", "noclone", "plain", "comp", "manual"},
            out : {"ok", "retry", "comp", "compensated", "manual", "failed"},
            target : Ops \cup {None}]

IdleRun == [pc |-> "idle", hadOp |-> FALSE, budget |-> FALSE, running |-> FALSE,
            op |-> NoOp, known |-> None, moref |-> None, cause |-> "cleanup",
            out |-> "ok", target |-> None]

NoDelete == [job |-> "none", pc |-> "idle", moref |-> None, already |-> FALSE]

\* The types of the state.
TypeOK ==
    /\ job \in JobRows
    /\ vm \in [status : Building \cup {"running", "error", "deleted"}, moref : Ops \cup {None}]
    /\ vc \in [Ops -> {"none", "pending", "failed", "exists", "gone"}]
    /\ runs \in [Tokens -> RunRows]
    /\ del \in [job : {"none", "open", "done"}, pc : {"idle", "destroy", "mark", "clear"},
                moref : Ops \cup {None}, already : BOOLEAN]

\* CreateVMAddJob inserts the VM row and the job in one transaction.
Init ==
    /\ job = [status |-> "pending", owner |-> None, retries |-> 0, op |-> NoOp, cleanup |-> FALSE,
              done |-> FALSE, target |-> None, destroyed |-> {}]
    /\ vm = [status |-> "pending", moref |-> None]
    /\ vc = [o \in Ops |-> "none"]
    /\ runs = [c \in Tokens |-> IdleRun]
    /\ del = NoDelete

-----------------------------------------------------------------------------
(* Helpers *)

Owns(c) == job.status = "active" /\ job.owner = c

At(c, pc) == runs[c].pc = pc
Set(c, run) == runs' = [runs EXCEPT ![c] = run]
Goto(c, pc) == Set(c, [runs[c] EXCEPT !.pc = pc])

\* The body returns.  Everything settling writes is fenced by the claim: without it
\* nothing follows.
Returns(c, out, target) ==
    Set(c, IF Owns(c) THEN [IdleRun EXCEPT !.pc = "settle", !.out = out, !.target = target]
                      ELSE IdleRun)

\* failVMAddWithCleanup(moref, cause)
FailWithCleanup(c, moref, cause) ==
    Set(c, [IdleRun EXCEPT !.pc = "fstage", !.moref = moref, !.cause = cause, !.target = moref])

\* completeVMAddWithoutClone, and the deferred compensation when no MoRef is known
WithoutClone(c) == Set(c, [IdleRun EXCEPT !.pc = "finalize", !.cause = "noclone"])

\* An error before the clone is adopted, as the deferred function turns it: an ordinary
\* retry if its class and the budget allow one, else persistedClonePreambleFailure or
\* compensation.
FailsBeforeClone(c) ==
    \/ runs[c].budget /\ Returns(c, "retry", None)
    \/ IF runs[c].hadOp THEN Returns(c, "comp", None)
       ELSE IF runs[c].known # None THEN FailWithCleanup(c, runs[c].known, "plain")
       ELSE WithoutClone(c)

\* An error after the clone is adopted.
FailsAfterClone(c) ==
    \/ runs[c].budget /\ Returns(c, "retry", None)
    \/ FailWithCleanup(c, runs[c].moref, "plain")

\* Mutant: the status is written whatever it was.
StatusUnconditionally(from, status) == vm' = [vm EXCEPT !.status = status]

\* UpdatePodVMStatusFrom
StatusFrom(from, status) ==
    vm' = IF vm.status \in from THEN [vm EXCEPT !.status = status] ELSE vm

-----------------------------------------------------------------------------
(* The queue *)

Claim(c) ==
    /\ job.status = "pending" /\ At(c, "idle")
    /\ job' = [job EXCEPT !.status = "active", !.owner = c]
    /\ Set(c, [IdleRun EXCEPT !.pc = IF job.cleanup THEN "load" ELSE "read",
                              !.hadOp = job.op # NoOp, !.budget = job.retries < MaxRetries])
    /\ UNCHANGED <<vm, vc, del>>

\* The lease expires, or a worker starts and recovers the row; the payload stays.
Recover ==
    /\ job.status = "active"
    /\ job' = [job EXCEPT !.status = "pending", !.owner = None]
    /\ UNCHANGED <<vm, vc, runs, del>>

\* A worker dies, or stops at a cancelled context.
Crash(c) ==
    /\ ~At(c, "idle")
    /\ Set(c, IdleRun)
    /\ UNCHANGED <<job, vm, vc, del>>

\* Mutant: an ordinary retry drops the clone operation with the cleanup intent.
RescheduledWithoutOp(row, cleanup, target) ==
    [row EXCEPT !.status = "pending", !.owner = None, !.retries = IF @ < MaxRetries THEN @ + 1 ELSE @,
                !.cleanup = cleanup, !.op = IF cleanup THEN @ ELSE NoOp,
                !.target = IF cleanup /\ target # None THEN target ELSE @]

\* retryJobSQL: an ordinary retry drops cleanup_only and cleanup_completed only; a
\* cleanup retry sets cleanup_only, and the target it carries.
Rescheduled(row, cleanup, target) ==
    LET again == [row EXCEPT !.status = "pending", !.owner = None,
                             !.retries = IF @ < MaxRetries THEN @ + 1 ELSE @,
                             !.cleanup = cleanup]
    IN  IF ~cleanup THEN [again EXCEPT !.done = FALSE]
        ELSE IF target = None THEN again
        ELSE [again EXCEPT !.target = target, !.done = FALSE]

\* processJobLifecycle after the body: UpdateJobStatus refuses to complete a job that is
\* cleanup-only by now.
SettlementFails(c) == ~Owns(c) \/ (runs[c].out = "ok" /\ job.cleanup)

TerminalStatus(out) ==
    CASE out = "ok" -> "completed"
      [] out = "retry" -> "failed"      \* scheduling the retry failed
      [] OTHER -> out

Settle(c) ==
    /\ At(c, "settle")
    /\ LET out == runs[c].out IN
       \/ /\ ~SettlementFails(c) /\ out \in {"retry", "comp"}
          /\ job' = Rescheduled(job, out = "comp", runs[c].target)
       \/ /\ ~SettlementFails(c) /\ out # "comp"
          /\ job' = [job EXCEPT !.status = TerminalStatus(out)]
       \/ /\ SettlementFails(c)
          /\ UNCHANGED job
    /\ Set(c, IdleRun)
    /\ UNCHANGED <<vm, vc, del>>

-----------------------------------------------------------------------------
(* AddVM: up to the clone *)

ReadVM(c) ==
    /\ At(c, "read")
    /\ \/ Set(c, [runs[c] EXCEPT !.pc = "guard", !.known = vm.moref,
                                  !.running = vm.status = "running"])
       \/ FailsBeforeClone(c)
    /\ UNCHANGED <<job, vm, vc, del>>

\* The row is no longer being provisioned.
NotProvisionable(c) ==
    IF vm.status \in {"deleted", "error"}
    THEN IF vm.moref # None THEN FailWithCleanup(c, vm.moref, "plain")
         ELSE IF runs[c].hadOp THEN Returns(c, "comp", None)
         ELSE WithoutClone(c)
    ELSE IF runs[c].hadOp THEN Returns(c, "comp", None)
    ELSE \/ Returns(c, "ok", None)
         \/ vm.moref # None /\ runs[c].budget /\ Returns(c, "retry", None)
         \/ vm.moref # None /\ Returns(c, "failed", None)

GuardProvisioning(c) ==
    /\ At(c, "guard")
    /\ \/ vm.status \in Building /\ Goto(c, "plan")
       \/ vm.status \notin Building /\ NotProvisionable(c)
    /\ StatusFrom(Building, "cloning")
    /\ UNCHANGED <<job, vc, del>>

\* Its database call fails.
GuardFails(c) ==
    /\ At(c, "guard")
    /\ IF runs[c].running /\ ~runs[c].hadOp
       THEN \/ runs[c].budget /\ Returns(c, "retry", None)
            \/ Returns(c, "failed", None)
       ELSE FailsBeforeClone(c)
    /\ UNCHANGED <<job, vm, vc, del>>

\* Credentials, receipt, placement plan, DRS privileges and existing placements.
Plan(c) ==
    /\ At(c, "plan")
    /\ \/ IF runs[c].known # None /\ ~runs[c].hadOp
          THEN Set(c, [runs[c] EXCEPT !.pc = "power", !.moref = runs[c].known])
          ELSE Goto(c, "prepare")
       \/ FailsBeforeClone(c)
       \/ Returns(c, "manual", None)
       \* DRS privileges refused, or an existing VM cannot be placed
       \/ IF runs[c].known # None THEN FailWithCleanup(c, runs[c].known, "plain")
          ELSE WithoutClone(c)
    /\ UNCHANGED <<job, vm, vc, del>>

-----------------------------------------------------------------------------
(* executeDurableVMClone *)

\* Ids are UUIDs: nothing refers to a fresh one.
FreshOps == {o \in Ops : vc[o] = "none" /\ job.op.id # o /\ \A d \in Tokens : runs[d].op.id # o}

Prepared(o) == [id |-> o, phase |-> "prepared", task |-> FALSE]

\* GetVMCloneOperation and PrepareVMCloneOperation: a persisted operation is reused.
Operation == IF job.op # NoOp THEN {job.op} ELSE {Prepared(o) : o \in FreshOps}

Prepare(c) ==
    /\ At(c, "prepare")
    /\ \/ /\ Owns(c)
          /\ \E op \in Operation :
                /\ job' = [job EXCEPT !.op = op]
                /\ \/ Set(c, [runs[c] EXCEPT !.pc = IF op.phase = "prepared" THEN "start" ELSE "wait",
                                              !.op = op])
                   \/ FailsBeforeClone(c)    \* committed, the answer is lost
       \/ FailsBeforeClone(c) /\ UNCHANGED job
    /\ UNCHANGED <<vm, vc, del>>

\* The folder holds a VM of the clone's name.
NameTaken == \E o \in Ops : vc[o] = "exists"

\* ArmVMCloneOperation
Armed(row) == [row EXCEPT !.op.phase = "submitting", !.cleanup = TRUE, !.done = FALSE]

CanArm(c) == Owns(c) /\ job.op.id = runs[c].op.id /\ job.op.phase = "prepared"

\* StartCloneVMOperation up to the submission
StartClone(c) ==
    /\ At(c, "start")
    /\ \/ /\ ~NameTaken /\ CanArm(c)
          /\ job' = Armed(job)
          /\ Goto(c, "submit") \/ Goto(c, "abandon")   \* the answer may be lost
       \/ /\ UNCHANGED job
          /\ Set(c, [runs[c] EXCEPT !.pc = "abandon", !.cause = IF NameTaken THEN "manual" ELSE @])
    /\ UNCHANGED <<vm, vc, del>>

\* AbandonUnsubmittedVMCloneOperation
Abandoned(row) ==
    IF row.target = None THEN [row EXCEPT !.op = NoOp, !.cleanup = FALSE, !.done = FALSE]
                         ELSE [row EXCEPT !.op = NoOp]

CanAbandon(c) ==
    Owns(c) /\ job.op.id = runs[c].op.id /\ job.op.phase \in {"prepared", "submitting"}

AbandonAccepted(c) == CanAbandon(c) \/ (Owns(c) /\ job.op = NoOp)

AbandonClone(c) ==
    /\ At(c, "abandon")
    /\ \/ /\ AbandonAccepted(c)
          /\ job' = IF CanAbandon(c) THEN Abandoned(job) ELSE job
          /\ \/ IF runs[c].cause = "manual" THEN Returns(c, "manual", None) ELSE FailsBeforeClone(c)
             \/ Returns(c, "comp", None)
       \/ Returns(c, "comp", None) /\ UNCHANGED job
    /\ UNCHANGED <<vm, vc, del>>

\* CloneVM_Task is called and answers with a task, or its outcome is not known.
SubmitClone(c) ==
    /\ At(c, "submit")
    /\ \/ /\ vc' = [vc EXCEPT ![runs[c].op.id] = "pending"]
          /\ Goto(c, "persist") \/ Returns(c, "comp", None)
       \/ UNCHANGED vc /\ Returns(c, "comp", None)
    /\ UNCHANGED <<job, vm, del>>

\* vCenter ends the task.
CloneFinishes(o) ==
    /\ vc[o] = "pending"
    /\ \E end \in {"exists", "failed"} : vc' = [vc EXCEPT ![o] = end]
    /\ UNCHANGED <<job, vm, runs, del>>

\* PersistVMCloneTask
TaskPersisted(row) == [row EXCEPT !.op.task = TRUE, !.op.phase = "submitted"]

PersistTask(c) ==
    /\ At(c, "persist")
    /\ \/ /\ Owns(c) /\ job.op.id = runs[c].op.id
          /\ job' = TaskPersisted(job)
          /\ \/ Set(c, [runs[c] EXCEPT !.pc = "wait", !.op = job'.op])
             \/ Returns(c, "comp", None)
       \/ Returns(c, "comp", None) /\ UNCHANGED job
    /\ UNCHANGED <<vm, vc, del>>

\* WaitCloneVMTask, or FindVMByCloneOperation for an operation without a task; the task
\* of a clone destroyed since still names it.
Resolves(op) == vc[op.id] = "exists" \/ (op.task /\ vc[op.id] = "gone")

WaitTask(c) ==
    /\ At(c, "wait")
    /\ LET op == runs[c].op IN
       \/ Resolves(op) /\ Set(c, [runs[c] EXCEPT !.pc = "stage", !.moref = op.id])
       \/ vc[op.id] = "failed" /\ Returns(c, "manual", None)     \* by a duplicate name
       \/ op.task /\ runs[c].budget /\ Returns(c, "retry", None)
       \/ Returns(c, "comp", None)
    /\ UNCHANGED <<job, vm, vc, del>>

\* StageVMCloneCleanup
Staged(row, o) == [row EXCEPT !.target = o, !.cleanup = TRUE, !.done = FALSE]

CanStage(c, o) == Owns(c) /\ o \notin job.destroyed

StageClone(c) ==
    /\ At(c, "stage")
    /\ LET o == runs[c].moref IN
       \/ /\ CanStage(c, o)
          /\ job' = Staged(job, o)
          /\ Goto(c, "configure") \/ FailWithCleanup(c, o, "comp")
       \/ FailWithCleanup(c, o, "comp") /\ UNCHANGED job
    /\ UNCHANGED <<vm, vc, del>>

\* ValidateVMPlacement and ConfigureClonedVM; a MoRef the row already has is not overwritten.
ConfigureClone(c) ==
    /\ At(c, "configure")
    /\ LET o == runs[c].moref IN
       \/ /\ vc[o] = "exists"
          /\ IF runs[c].known \in {None, o} THEN Goto(c, "adopt") ELSE FailWithCleanup(c, o, "plain")
       \/ \E cause \in {"comp", "manual"} : FailWithCleanup(c, o, cause)
    /\ UNCHANGED <<job, vm, vc, del>>

-----------------------------------------------------------------------------
(* AddVM: from the clone on *)

CanAdopt(c, o) == Owns(c) /\ job.target = o /\ o \notin job.destroyed

\* AdoptPodVMClone
AdoptClone(c) ==
    /\ At(c, "adopt")
    /\ LET o == runs[c].moref IN
       \/ /\ CanAdopt(c, o) /\ vm.status = "cloning" /\ vm.moref \in {None, o}
          /\ vm' = [status |-> "configuring", moref |-> o]
          /\ Goto(c, "disarm") \/ Returns(c, "comp", None)
       \/ /\ CanAdopt(c, o) /\ ~(vm.status = "cloning" /\ vm.moref \in {None, o})
          /\ FailWithCleanup(c, o, "plain")
          /\ UNCHANGED vm
       \/ Returns(c, "comp", None) /\ UNCHANGED vm
    /\ UNCHANGED <<job, vc, del>>

\* DisarmVMCloneCleanup
Disarmed(row) == [row EXCEPT !.target = None, !.cleanup = FALSE, !.done = FALSE, !.op = NoOp]

DisarmCleanup(c) ==
    /\ At(c, "disarm")
    /\ LET o == runs[c].moref IN
       \/ /\ Owns(c) /\ job.target = o
          /\ job' = Disarmed(job)
          /\ Goto(c, "power") \/ Returns(c, "comp", o)
       \/ Returns(c, "comp", o) /\ UNCHANGED job
    /\ UNCHANGED <<vm, vc, del>>

\* verifyPersistedVMPlacement, PowerOnVM and the guest's credentials
PowerOn(c) ==
    /\ At(c, "power")
    /\ \/ vc[runs[c].moref] = "exists" /\ Goto(c, "mark")
       \/ FailsAfterClone(c)
       \/ Returns(c, "manual", None)
    /\ UNCHANGED <<job, vm, vc, del>>

\* UpdatePodVMStatusFrom(cloning, configuring -> running): not fenced by the claim.
MarkRunning(c) ==
    /\ At(c, "mark")
    /\ \/ /\ StatusFrom({"cloning", "configuring"}, "running")
          /\ IF vm.status \in {"cloning", "configuring"} \/ vm = [status |-> "running", moref |-> runs[c].moref]
             THEN Returns(c, "ok", None) ELSE FailWithCleanup(c, runs[c].moref, "plain")
       \/ StatusFrom({"cloning", "configuring"}, "running") /\ FailsAfterClone(c)
       \/ UNCHANGED vm /\ FailsAfterClone(c)
    /\ UNCHANGED <<job, vc, del>>

-----------------------------------------------------------------------------
(* Compensation: failVMAddWithCleanup, runVMAddCleanup, cleanupStagedVMClone *)

\* The error returned once the clone is known to be destroyed: an uncertain or a manual
\* cause is returned as it came, with the target it carries.
AfterCleanup(c) ==
    CASE runs[c].cause = "comp" -> Returns(c, "comp", runs[c].target)
      [] runs[c].cause = "manual" -> Returns(c, "manual", None)
      [] OTHER -> Returns(c, "compensated", None)

\* stageVMCloneCleanup of failVMAddWithCleanup
StageFailed(c) ==
    /\ At(c, "fstage")
    /\ LET o == runs[c].moref IN
       \/ /\ CanStage(c, o)
          /\ job' = Staged(job, o)
          /\ Goto(c, "load") \/ Returns(c, "comp", o)
       \/ o \in job.destroyed /\ AfterCleanup(c) /\ UNCHANGED job
       \/ Returns(c, "manual", None) /\ UNCHANGED job          \* no persisted placement
       \/ \E t \in {None, o} : Returns(c, "comp", t) /\ UNCHANGED job
    /\ UNCHANGED <<vm, vc, del>>

\* With no operation to reconcile: destroy the staged clone, or there is none.
CleanUp(c, run) ==
    Set(c, [run EXCEPT !.op = NoOp, !.pc = IF run.moref # None THEN "destroy" ELSE "finalize"])

LoadCleanup(c) ==
    /\ At(c, "load")
    /\ \/ LET run == [runs[c] EXCEPT !.op = job.op, !.moref = job.target]
          IN  IF job.op # NoOp THEN Set(c, [run EXCEPT !.pc = "reconcile"]) ELSE CleanUp(c, run)
       \/ Returns(c, "comp", None)
    /\ UNCHANGED <<job, vm, vc, del>>

\* CompleteVMCloneOperationWithoutResource
WithoutResource(row) ==
    [row EXCEPT !.op = NoOp, !.done = IF row.target = None THEN TRUE ELSE @]

\* Mutant: an operation without a task is taken for one that was never submitted.
UnsubmittedWithoutTask(op) == ~op.task

\* Whether the operation was never submitted, for the cleanup
Unsubmitted(op) == op.phase = "prepared"

\* reconcileCloneOperationForCleanup: the answer of the task, or of the search for the marker.
Reconcile(c) ==
    /\ At(c, "reconcile")
    /\ LET op == runs[c].op IN
       \/ /\ Unsubmitted(op) /\ AbandonAccepted(c)
          /\ job' = IF CanAbandon(c) THEN Abandoned(job) ELSE job
          /\ Goto(c, "reload") \/ Returns(c, "comp", None)
       \/ /\ ~Unsubmitted(op)
          /\ Resolves(op)
          /\ Goto(c, "rstage")
          /\ UNCHANGED job
       \/ /\ ~Unsubmitted(op) /\ op.task /\ vc[op.id] = "failed"
          /\ Owns(c) /\ job.op.id = op.id
          /\ job' = WithoutResource(job)
          /\ Goto(c, "reload") \/ Returns(c, "comp", None)
       \* the search is ambiguous, or the reconciliation deadline has passed
       \/ ~Unsubmitted(op) /\ Returns(c, "manual", None) /\ UNCHANGED job
       \/ Returns(c, "comp", None) /\ UNCHANGED job
    /\ UNCHANGED <<vm, vc, del>>

\* Its placement is validated next, which fails for a clone that is gone.
StageReconciled(c) ==
    /\ At(c, "rstage")
    /\ LET o == runs[c].op.id IN
       \/ /\ CanStage(c, o)
          /\ job' = Staged(job, o)
          /\ \/ vc[o] = "exists" /\ Goto(c, "reload")
             \/ Returns(c, "manual", None)
             \/ Returns(c, "comp", o)
       \/ Returns(c, "comp", o) /\ UNCHANGED job
    /\ UNCHANGED <<vm, vc, del>>

\* The reloaded payload is decoded over the earlier one: an absent target leaves the old.
ReloadCleanup(c) ==
    /\ At(c, "reload")
    /\ \/ CleanUp(c, [runs[c] EXCEPT !.moref = IF job.target # None THEN job.target ELSE @])
       \/ Returns(c, "comp", None)
    /\ UNCHANGED <<job, vm, vc, del>>

\* Mutant: a failed destruction is logged only.
DestroyIgnored(c) ==
    /\ At(c, "destroy")
    /\ \E end \in {"exists", "gone"} : vc' = [vc EXCEPT ![runs[c].moref] = IF @ = "exists" THEN end ELSE @]
    /\ Goto(c, "complete")
    /\ UNCHANGED <<job, vm, del>>

\* DestroyVMWithPlacement: a clone that is gone already counts as destroyed.
DestroyExact(c) ==
    /\ At(c, "destroy")
    /\ LET o == runs[c].moref IN
       \/ /\ vc' = [vc EXCEPT ![o] = IF @ = "exists" THEN "gone" ELSE @]
          /\ Goto(c, "complete") \/ Returns(c, "comp", o)
       \/ UNCHANGED vc /\ (Returns(c, "comp", o) \/ Returns(c, "manual", None))
    /\ UNCHANGED <<job, vm, del>>

\* completeVMCloneDestructionPayload
Destroyed(row, o) ==
    IF o \in row.destroyed THEN row
    ELSE [row EXCEPT !.destroyed = @ \cup {o}, !.target = IF @ = o THEN None ELSE @,
                     !.cleanup = TRUE, !.op = NoOp,
                     !.done = row.target \in {o, None}]

\* The VM row once clone o is destroyed
Detached(row, o) ==
    IF row.moref \notin {o, None} THEN row
    ELSE [moref |-> None, status |-> IF row.status \in Building THEN "error" ELSE row.status]

\* CompleteVMCloneCleanup: not fenced by the claim; a target both staged and recorded is refused.
CompleteCleanup(c) ==
    /\ At(c, "complete")
    /\ LET o == runs[c].moref IN
       \/ /\ (job.target = o) # (o \in job.destroyed)
          /\ job' = Destroyed(job, o)
          /\ vm' = Detached(vm, o)
          /\ Goto(c, "finalize") \/ Returns(c, "comp", o)
       \/ Returns(c, "comp", o) /\ UNCHANGED <<job, vm>>
    /\ UNCHANGED <<vc, del>>

\* finalizeVMAddCompensation: capacity is released, the row marked; not fenced by the claim.
Finalize(c) ==
    /\ At(c, "finalize")
    /\ \/ /\ StatusFrom(Building, "error")
          /\ \/ IF runs[c].cause = "noclone" THEN Returns(c, "compensated", None) ELSE Goto(c, "record")
             \/ Returns(c, "comp", None)
       \/ Returns(c, "comp", None) /\ UNCHANGED vm
    /\ UNCHANGED <<job, vc, del>>

\* MarkJobCompensationCompleted
RecordCompensation(c) ==
    /\ At(c, "record")
    /\ \/ /\ Owns(c) /\ job.cleanup /\ job.target = None
          /\ job' = [job EXCEPT !.done = TRUE]
          /\ AfterCleanup(c) \/ Returns(c, "comp", None)
       \/ Returns(c, "comp", None) /\ UNCHANGED job
    /\ UNCHANGED <<vm, vc, del>>

-----------------------------------------------------------------------------
(* vm_destroy of the VM *)

DeleteVM ==
    /\ del.job = "none" /\ vm.status # "deleted"
    /\ del' = [del EXCEPT !.job = "open"]
    /\ UNCHANGED <<job, vm, vc, runs>>

ReadDeleted ==
    /\ del.job = "open" /\ del.pc = "idle"
    /\ LET already == vm.status = "deleted"
       IN  del' = [del EXCEPT !.moref = vm.moref, !.already = already,
                              !.pc = IF already THEN "clear" ELSE IF vm.moref # None THEN "destroy" ELSE "mark"]
    /\ UNCHANGED <<job, vm, vc, runs>>

DestroyDeleted ==
    /\ del.pc = "destroy"
    /\ vc' = [vc EXCEPT ![del.moref] = IF @ = "exists" THEN "gone" ELSE @]
    /\ del' = [del EXCEPT !.pc = "mark"]
    /\ UNCHANGED <<job, vm, runs>>

MarkDeleted ==
    /\ del.pc = "mark"
    /\ vm' = [vm EXCEPT !.status = "deleted"]
    /\ del' = [del EXCEPT !.pc = "clear"]
    /\ UNCHANGED <<job, vc, runs>>

\* ClearPodVMVCenterReference, then the job completes.
ClearReference ==
    /\ del.pc = "clear"
    /\ vm' = [vm EXCEPT !.moref = IF @ = del.moref THEN None ELSE @]
    /\ del' = [NoDelete EXCEPT !.job = "done"]
    /\ UNCHANGED <<job, vc, runs>>

\* The execution ends early; the job is run again.
DeleteStops ==
    /\ del.pc # "idle"
    /\ del' = [NoDelete EXCEPT !.job = "open"]
    /\ UNCHANGED <<job, vm, vc, runs>>

-----------------------------------------------------------------------------
Execute(c) ==
    \/ ReadVM(c) \/ GuardProvisioning(c) \/ GuardFails(c) \/ Plan(c) \/ Prepare(c)
    \/ StartClone(c) \/ AbandonClone(c) \/ SubmitClone(c) \/ PersistTask(c) \/ WaitTask(c)
    \/ StageClone(c) \/ ConfigureClone(c) \/ AdoptClone(c) \/ DisarmCleanup(c)
    \/ PowerOn(c) \/ MarkRunning(c)
    \/ StageFailed(c) \/ LoadCleanup(c) \/ Reconcile(c) \/ StageReconciled(c)
    \/ ReloadCleanup(c) \/ DestroyExact(c) \/ CompleteCleanup(c) \/ Finalize(c)
    \/ RecordCompensation(c) \/ Settle(c)

Delete == DeleteVM \/ ReadDeleted \/ DestroyDeleted \/ MarkDeleted \/ ClearReference \/ DeleteStops

Next ==
    \/ \E c \in Tokens : Claim(c) \/ Crash(c) \/ Execute(c)
    \/ Recover
    \/ \E o \in Ops : CloneFinishes(o)
    \/ Delete

Spec == Init /\ [][Next]_vars

-----------------------------------------------------------------------------
(* Properties *)

Live(o) == vc[o] \in {"pending", "exists"}

\* One vm_add job never has two clones in vCenter, however its executions, retries and
\* recoveries interleave: PrepareVMCloneOperation reuses the persisted operation.
NoDuplicateClone == \A o, p \in Ops : Live(o) /\ Live(p) => o = p

\* Until the VM is deleted, a clone that exists or may come to exist is named by the job's
\* operation, by its cleanup target or by the VM row, in every state between two writes: a
\* worker may die at any of them and the clone is still found.
CloneTraceable ==
    vm.status # "deleted" => \A o \in Ops : Live(o) => o \in {job.op.id, job.target, vm.moref}

\* A destruction recorded in the payload is true, also when a predecessor records it
\* after losing its claim: CompleteVMCloneCleanup is not fenced.
RecordedIsGone == \A o \in job.destroyed : vc[o] = "gone"

\* The VM row loses its reference to a clone only when that clone is destroyed
\* (CompleteVMCloneCleanup, ClearPodVMVCenterReference).
ClearsOnlyDestroyed == [][vm.moref # None /\ vm'.moref # vm.moref => vc[vm.moref] = "gone"]_vars

\* A VM once deleted stays deleted, also when a vm_add execution that lost its claim
\* goes on: its status writes are not fenced, only guarded by the status they expect.
DeletedStaysDeleted == [][vm.status = "deleted" => vm'.status = "deleted"]_vars

\* A target staged for cleanup has no destruction recorded.  CompleteVMCloneCleanup refuses
\* a target that has both, so such a job could never finish its compensation.
StagedIsNotDestroyed == job.target \notin job.destroyed

\* A vm_add job that ended compensated left no clone, and none that is being made.
CompensatedIsClean == job.status = "compensated" => \A o \in Ops : ~Live(o)
-----------------------------------------------------------------------------
(* The inductive invariant *)

\* o is live, or some execution has armed it and not called vCenter yet.
Out(o) == Live(o) \/ \E c \in Tokens : At(c, "submit") /\ runs[c].op.id = o

\* Nothing was submitted under o, and no execution is about to.
Unused(o) == vc[o] = "none" /\ \A c \in Tokens : At(c, "submit") => runs[c].op.id # o

Made == {o \in Ops : vc[o] \in {"exists", "gone"}} \cup {None}

\* An operation that is stored is complete; one that is only prepared was not submitted; a
\* staged target means cleanup; what is staged, referenced or about to be deleted was made.
RowsHonest ==
    /\ job.op.id = None <=> job.op = NoOp
    /\ job.op.phase = "prepared" => Unused(job.op.id)
    /\ job.target # None => job.cleanup
    /\ {job.target, vm.moref, del.moref} \subseteq Made
    /\ del.pc = "destroy" => del.moref # None
    /\ del.pc = "clear" => vm.status = "deleted"

\* All that the job, the VM row and the execution owning the job speak of is one clone.
OneClone ==
    \E o \in Ops \cup {None} :
       /\ {job.op.id, job.target, vm.moref} \subseteq {None, o}
       /\ \A c \in Tokens : Owns(c) =>
             {runs[c].op.id, runs[c].known, runs[c].moref, runs[c].target} \subseteq {None, o}

\* At most one clone is out, the stored operation's if there is one.
OneOut ==
    \A o \in Ops : Out(o) =>
       /\ job.op.id \in {None, o}
       /\ \A p \in Ops : Out(p) => p = o

OutTraceable ==
    vm.status # "deleted" => \A o \in Ops : Out(o) => o \in {job.op.id, job.target, vm.moref}

Early == {"read", "guard", "plan", "prepare"}

\* What an execution holds, with or without its claim.
RunHonest(run) ==
    /\ {run.known, run.moref, run.target} \subseteq Made
    /\ run.pc \in Early => run.op = NoOp /\ run.moref = None /\ run.target = None
    /\ run.pc \in {"start", "abandon", "submit", "persist", "wait", "reconcile", "rstage"} => run.op.id # None
    /\ run.pc \in {"stage", "configure", "adopt", "disarm", "power", "mark", "fstage", "destroy", "complete"}
          => run.moref # None
    /\ run.pc = "submit" => vc[run.op.id] = "none"
    /\ run.pc = "rstage" => run.op.id \in Made
    /\ run.pc = "complete" => vc[run.moref] = "gone"

\* What the execution owning the job knows of it, the row.
OwnerInformed(row, run) ==
    /\ run.pc \in Early \cup {"start", "abandon", "submit", "persist", "wait", "stage", "power", "mark"}
          => row.target = None
    /\ run.pc = "settle" /\ run.out = "retry" => row.target = None
    /\ run.pc \in Early => (run.hadOp <=> row.op # NoOp)
    /\ run.pc \in {"guard", "plan", "prepare"} /\ run.known = None => vm.moref = None
    /\ run.pc = "prepare" => run.hadOp \/ run.known = None
    /\ run.pc \in {"plan", "prepare"} /\ ~run.hadOp /\ run.known = None => \A o \in Ops : ~Out(o)
    /\ run.pc = "start" => row.op = run.op /\ run.op.phase = "prepared"
    /\ run.pc = "abandon" /\ row.op.id = run.op.id => Unused(run.op.id)
    /\ run.pc \in {"reconcile", "rstage"} => row.op \in {NoOp, run.op}
    /\ run.pc = "disarm" /\ Out(run.moref) /\ vm.status # "deleted" => vm.moref = run.moref

RunsHonest == \A c \in Tokens : RunHonest(runs[c]) /\ (Owns(c) => OwnerInformed(job, runs[c]))

SubmitsOnce ==
    \A c, d \in Tokens : At(c, "submit") /\ At(d, "submit") /\ runs[c].op.id = runs[d].op.id => c = d

IInv ==
    /\ TypeOK
    /\ RowsHonest
    /\ OneClone
    /\ OneOut
    /\ OutTraceable
    /\ RunsHonest
    /\ SubmitsOnce
    /\ RecordedIsGone

-----------------------------------------------------------------------------
(* The queue inside this module is the queue of JobQueue *)

\* What a terminal row ended with is its result, not its status.
StateOf(row) ==
    CASE row.status = "pending" -> "waiting"
      [] row.status = "active" -> "held"
      [] row.status = "completed" -> "completed"
      [] OTHER -> "failed"
HolderOf(row) == IF row.status = "active" THEN row.owner ELSE None
WorkOf(run) == IF run.pc = "idle" THEN None ELSE "vm_add"

JobStates == [j \in {"vm_add"} |-> StateOf(job)]
JobHolders == [j \in {"vm_add"} |-> HolderOf(job)]
RunsAtWork == [c \in Tokens |-> WorkOf(runs[c])]

Abstract == INSTANCE Queue WITH
    Jobs <- {"vm_add"}, state <- JobStates, holder <- JobHolders, working <- RunsAtWork,
    Withdrawable <- {}, Restartable <- {}, HandsOff <- {}

\* However a vm_add job compensates, and although CompleteVMCloneCleanup writes
\* its row without a claim, it stays within what the queue promises.
ImplementsQueue == Abstract!Spec
=============================================================================
