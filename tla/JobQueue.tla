------------------------------ MODULE JobQueue ------------------------------
(***************************************************************************)
(* The durable job queue: rows of the PostgreSQL table `jobs`, and the     *)
(* provision-worker executions that claim, renew, run and settle them.     *)
(*                                                                         *)
(* An execution is named by its claim token (workerID plus a fresh UUID    *)
(* per claim), the value the code stores in jobs.claimed_by and compares   *)
(* in the WHERE clause of every later write.  A superseded execution keeps *)
(* running until it notices, so several executions of one job may be alive *)
(* at once; only the row decides which of them counts.                     *)
(*                                                                         *)
(* Time is abstracted to what the SQL tests: `expired` says claimed_at is  *)
(* older than JobLeaseDuration, `due` that next_attempt_at has passed.     *)
(* A database write seen by a worker has three results: applied, refused   *)
(* or lost, and applied with the acknowledgement lost.                     *)
(***************************************************************************)
EXTENDS Naturals

CONSTANTS
    Jobs,         \* rows of the jobs table
    Tokens,       \* claim tokens; a token in use is never handed out again
    None,         \* the NULL of claimed_by, and the job of an idle token
    Type,         \* jobs.type of every row
    MaxRetries    \* jobs.max_retries

JobTypes == {"pod_create", "vm_add", "pod_destroy", "template_provision",
             "template_verify", "template_replica_build", "image_import", "vm_power"}

ASSUME TypeAssumption == Type \in [Jobs -> JobTypes]
ASSUME NoneAssumption == None \notin Tokens \cup Jobs
ASSUME RetriesAssumption == MaxRetries \in Nat

VARIABLES
    jobs,         \* the table
    runs,         \* token -> local state of the execution holding it
    claimsOn,     \* provisioningClaimsEnabled of the deployed workers
    lastClaim,    \* history: the newest claim of each job
    settledBy     \* history: the execution whose write made the row terminal

vars == <<jobs, runs, claimsOn, lastClaim, settledBy>>

Active == {"claimed", "in_progress"}
Terminal == {"completed", "failed"}

\* How a job body can end, as processJobLifecycle tells errors apart.
Outcomes == {"ok", "retryable", "permanent", "comp_retry", "compensated",
             "manual", "obsolete"}

\* Withheld by ClaimJob while provisioning claims are disabled.
Withheld == {"pod_create", "vm_add", "template_provision", "template_verify",
             "template_replica_build", "image_import"}

\* Types whose body clones a VM and can arm cleanup_only on its own row.
Compensating == {"pod_create", "vm_add", "template_verify"}

\* retry_count is only ever compared with MaxRetries: it saturates above it.
RetryCounts == 0 .. (MaxRetries + 1)
NextRetry(n) == IF n <= MaxRetries THEN n + 1 ELSE n

Rows == [status : {"absent", "pending", "rollback"} \cup Active \cup Terminal,
         owner : Tokens \cup {None}, expired : BOOLEAN, due : BOOLEAN,
         retries : RetryCounts, cleanup : BOOLEAN, done : BOOLEAN]

Phases == {"idle", "claimed", "body", "settle", "failing"}

Runs == [pc : Phases, job : Jobs \cup {None}, cleanup : BOOLEAN,
         retries : RetryCounts, out : Outcomes, cancelled : BOOLEAN]

IdleRun == [pc |-> "idle", job |-> None, cleanup |-> FALSE, retries |-> 0,
            out |-> "ok", cancelled |-> FALSE]

TypeOK ==
    /\ jobs \in [Jobs -> Rows]
    /\ runs \in [Tokens -> Runs]
    /\ claimsOn \in BOOLEAN
    /\ lastClaim \in [Jobs -> Tokens \cup {None}]
    /\ settledBy \in [Jobs -> Tokens \cup {None}]

EmptyRow == [status |-> "absent", owner |-> None, expired |-> FALSE,
             due |-> FALSE, retries |-> 0, cleanup |-> FALSE, done |-> FALSE]

Init ==
    /\ jobs = [j \in Jobs |-> EmptyRow]
    /\ runs = [c \in Tokens |-> IdleRun]
    /\ claimsOn \in BOOLEAN
    /\ lastClaim = [j \in Jobs |-> None]
    /\ settledBy = [j \in Jobs |-> None]

-----------------------------------------------------------------------------
(* Helpers *)

Live(c) == runs[c].pc # "idle"
JobOf(c) == runs[c].job
OwnsAnyClaim(c) == jobs[JobOf(c)].status \in Active  \* mutant: claimed_by not compared
Owns(c) == jobs[JobOf(c)].owner = c /\ jobs[JobOf(c)].status \in Active
End(c) == runs' = [runs EXCEPT ![c] = IdleRun]
Goto(c, phase) == runs' = [runs EXCEPT ![c].pc = phase]
Write(c, row) == jobs' = [jobs EXCEPT ![JobOf(c)] = row]

\* jobs.claimed_by of no row and of no execution that is still running.
Fresh(c) == ~Live(c) /\ \A j \in Jobs : c \notin {jobs[j].owner, lastClaim[j], settledBy[j]}

ReleasedKeepingCompletedAt(row, isDue) ==  \* mutant: completed_at not cleared
    [row EXCEPT !.status = "pending", !.owner = None, !.expired = FALSE, !.due = isDue]

\* The row as any retry, recovery or requeue leaves it: pending and unowned.
Released(row, isDue) ==
    [row EXCEPT !.status = "pending", !.owner = None, !.expired = FALSE,
                !.due = isDue, !.done = FALSE]

-----------------------------------------------------------------------------
(* Producers and operators *)

\* createJob: a new pending row, claimable at once.  A replica build may be
\* queued for the cleanup of its residue only.
CreateJob(j, cleanupOnly) ==
    /\ jobs[j].status = "absent"
    /\ cleanupOnly => Type[j] = "template_replica_build"
    /\ jobs' = [jobs EXCEPT ![j] = [@ EXCEPT !.status = "pending", !.due = TRUE,
                                             !.cleanup = cleanupOnly]]
    /\ UNCHANGED <<runs, claimsOn, lastClaim, settledBy>>

\* CancelPendingPodIfNeverStarted: a create job nobody holds and that never
\* retried is failed in place; its pod is torn down in the same transaction.
CancelPristine(j) ==
    /\ Type[j] = "pod_create"
    /\ jobs[j].status = "pending" /\ jobs[j].owner = None
    /\ jobs[j].retries = 0 /\ ~jobs[j].cleanup /\ ~jobs[j].done
    /\ jobs' = [jobs EXCEPT ![j] = [@ EXCEPT !.status = "failed", !.done = TRUE]]
    /\ UNCHANGED <<runs, claimsOn, lastClaim, settledBy>>

\* createPodDestroyJob reuses the authoritative destroy job: a terminal row
\* goes back to pending with a fresh retry budget.
RequeueDestroy(j) ==
    /\ Type[j] = "pod_destroy"
    /\ jobs[j].status \in Terminal
    /\ jobs' = [jobs EXCEPT ![j] = [Released(@, TRUE) EXCEPT !.retries = 0]]
    /\ settledBy' = [settledBy EXCEPT ![j] = None]
    /\ UNCHANGED <<runs, claimsOn, lastClaim>>

\* The operator switches maintenance mode of the workers on or off.
SetProvisioningClaims ==
    /\ claimsOn' = ~claimsOn
    /\ UNCHANGED <<jobs, runs, lastClaim, settledBy>>

-----------------------------------------------------------------------------
(* Claiming and the lease *)

ClaimableNoCleanup(j) ==  \* mutant: maintenance withholds cleanup-only rows too
    /\ jobs[j].status = "pending" /\ jobs[j].due
    /\ claimsOn \/ Type[j] \notin Withheld

\* claimJobSQL picks the oldest row that nobody has locked (SKIP LOCKED), so
\* under concurrent transactions any claimable row can be the one returned.
Claimable(j) ==
    /\ jobs[j].status = "pending" /\ jobs[j].due
    /\ claimsOn \/ Type[j] \notin Withheld \/ jobs[j].cleanup

ClaimJob(c, j) ==
    /\ Fresh(c) /\ Claimable(j)
    /\ jobs' = [jobs EXCEPT ![j] = [@ EXCEPT !.status = "claimed", !.owner = c, !.expired = FALSE]]
    /\ runs' = [runs EXCEPT ![c] = [pc |-> "claimed", job |-> j, cleanup |-> jobs[j].cleanup,
                                    retries |-> jobs[j].retries, out |-> "ok",
                                    cancelled |-> FALSE]]
    /\ lastClaim' = [lastClaim EXCEPT ![j] = c]
    /\ UNCHANGED <<claimsOn, settledBy>>

\* next_attempt_at passes.
BecomeDue(j) ==
    /\ jobs[j].status = "pending" /\ ~jobs[j].due
    /\ jobs' = [jobs EXCEPT ![j].due = TRUE]
    /\ UNCHANGED <<runs, claimsOn, lastClaim, settledBy>>

\* claimed_at grows older than the lease: no renewal was applied in time.
LeaseExpires(j) ==
    /\ jobs[j].status \in Active /\ ~jobs[j].expired
    /\ jobs' = [jobs EXCEPT ![j].expired = TRUE]
    /\ UNCHANGED <<runs, claimsOn, lastClaim, settledBy>>

\* RenewJobLease applied: the lease starts over, even one already expired but
\* not yet recovered.
RenewJobLease(c) ==
    /\ Live(c) /\ Owns(c) /\ ~runs[c].cancelled
    /\ Write(c, [jobs[JobOf(c)] EXCEPT !.expired = FALSE])
    /\ UNCHANGED <<runs, claimsOn, lastClaim, settledBy>>

\* maintainJobLease cancels the execution: RenewJobLease reported that the
\* token no longer owns the row, or errors lasted a whole lease.
CancelRun(c) ==
    /\ Live(c) /\ ~runs[c].cancelled
    /\ runs' = [runs EXCEPT ![c].cancelled = TRUE]
    /\ UNCHANGED <<jobs, claimsOn, lastClaim, settledBy>>

StaleInProgress(row) ==  \* mutant: a claimed row whose worker died is not recovered
    row.status = "in_progress" /\ ~row.done /\ row.expired

\* recoverStaleJobsSQL: every active row with an expired lease, in one statement.
Stale(row) == row.status \in Active /\ ~row.done /\ row.expired

RecoverStaleJobs ==
    /\ \E j \in Jobs : Stale(jobs[j])
    /\ jobs' = [j \in Jobs |-> IF Stale(jobs[j]) THEN Released(jobs[j], jobs[j].due)
                                                 ELSE jobs[j]]
    /\ UNCHANGED <<runs, claimsOn, lastClaim, settledBy>>

-----------------------------------------------------------------------------
(* processJobLifecycle *)

\* UpdateJobStatus(in_progress), then the body; an error ends the execution
\* whether or not the write was applied.
MarkInProgress(row) == [row EXCEPT !.status = "in_progress", !.expired = FALSE]

StartBody(c) ==
    /\ runs[c].pc = "claimed" /\ ~runs[c].cancelled
    /\ Owns(c) /\ jobs[JobOf(c)].status = "claimed"
    /\ Write(c, MarkInProgress(jobs[JobOf(c)]))
    /\ Goto(c, "body") \/ End(c)
    /\ UNCHANGED <<claimsOn, lastClaim, settledBy>>

StartFails(c) ==
    /\ runs[c].pc = "claimed"
    /\ End(c)
    /\ UNCHANGED <<jobs, claimsOn, lastClaim, settledBy>>

\* Fenced writes of a forward body: UpdateJobRollbackSteps renews the lease,
\* arming sets cleanup_only before an external resource can exist, disarming
\* clears it once the resource is adopted or its clone was never submitted.
\* AbandonUnsubmittedVMCloneOperation does so in cleanup-only executions too.
SaveRollbackSteps(c) ==
    /\ runs[c].pc = "body" /\ Owns(c)
    /\ Write(c, [jobs[JobOf(c)] EXCEPT !.expired = FALSE])
    /\ UNCHANGED <<runs, claimsOn, lastClaim, settledBy>>

ArmCleanup(c) ==
    /\ runs[c].pc = "body" /\ Owns(c) /\ Type[JobOf(c)] \in Compensating
    /\ Write(c, [jobs[JobOf(c)] EXCEPT !.cleanup = TRUE])
    /\ UNCHANGED <<runs, claimsOn, lastClaim, settledBy>>

DisarmCleanup(c) ==
    /\ runs[c].pc = "body" /\ Owns(c) /\ Type[JobOf(c)] \in Compensating /\ jobs[JobOf(c)].cleanup
    /\ Write(c, [jobs[JobOf(c)] EXCEPT !.cleanup = FALSE])
    /\ UNCHANGED <<runs, claimsOn, lastClaim, settledBy>>

\* AdoptJobRollbackStep: an execution that could not save its rollback step
\* hands it to whoever comes next, evicting the current owner.  Not fenced, and
\* it reopens a failed row, but never a completed one.
HandoffRollbackStep(c) ==
    /\ runs[c].pc = "body" /\ Type[JobOf(c)] = "pod_create"
    /\ jobs[JobOf(c)].status \in {"pending", "rollback", "failed"} \cup Active
    /\ Write(c, [Released(jobs[JobOf(c)], TRUE) EXCEPT !.cleanup = TRUE])
    /\ settledBy' = [settledBy EXCEPT ![JobOf(c)] = None]
    /\ UNCHANGED <<runs, claimsOn, lastClaim>>

\* The body returns.  A forward body that left its row armed never reports
\* success or a plain failure: it has compensated, or asks for compensation.
BodyReturns(c, out) ==
    /\ runs[c].pc = "body"
    /\ out \in {"ok", "permanent"} => ~(Owns(c) /\ jobs[JobOf(c)].cleanup /\ ~runs[c].cleanup)
    /\ out \in {"compensated", "comp_retry"} => Type[JobOf(c)] \in Compensating
    /\ out = "obsolete" => Type[JobOf(c)] = "template_replica_build"
    /\ runs' = [runs EXCEPT ![c] = [@ EXCEPT !.pc = "settle", !.out = out]]
    /\ UNCHANGED <<jobs, claimsOn, lastClaim, settledBy>>

\* UpdateJobStatus refuses to complete a cleanup-only row.
CanComplete(j) == ~jobs[j].cleanup \/ Type[j] = "template_replica_build"

CleanupMode(c) == runs[c].cleanup \/ runs[c].out = "comp_retry"

Retryable(c) ==
    IF CleanupMode(c) THEN runs[c].out \notin {"compensated", "manual", "obsolete"}
                      ELSE runs[c].out = "retryable"

WithinBudgetInclusive(c) ==  \* mutant: off by one
    runs[c].retries <= MaxRetries \/ Type[JobOf(c)] = "image_import"

\* image_import is bounded by a wall-clock budget instead of a count.
WithinBudget(c) == runs[c].retries < MaxRetries \/ Type[JobOf(c)] = "image_import"

Settling(c) == runs[c].pc = "settle" /\ runs[c].out # "ok"

\* The terminal write of the owner; nothing happens to the row otherwise.
SetTerminal(c, status) ==
    /\ Owns(c) /\ jobs[JobOf(c)].status = "in_progress" /\ ~runs[c].cancelled
    /\ Write(c, [jobs[JobOf(c)] EXCEPT !.status = status, !.done = TRUE])
    /\ settledBy' = [settledBy EXCEPT ![JobOf(c)] = c]

CompleteJob(c) ==
    /\ runs[c].pc = "settle" /\ runs[c].out = "ok"
    /\ CanComplete(JobOf(c))
    /\ SetTerminal(c, "completed")
    /\ End(c)
    /\ UNCHANGED <<claimsOn, lastClaim>>

\* Refused, cancelled or unreachable: the row stays as it is for recovery.
CompletionLost(c) ==
    /\ runs[c].pc = "settle" /\ runs[c].out = "ok"
    /\ End(c)
    /\ UNCHANGED <<jobs, claimsOn, lastClaim, settledBy>>

\* persistCleanupRetry loops until RetryJob succeeds, until it sees the row
\* already parked for cleanup, or until the execution is cancelled.
ScheduleCleanup(c) ==
    /\ Settling(c) /\ Retryable(c) /\ CleanupMode(c) /\ Owns(c) /\ ~runs[c].cancelled
    /\ Write(c, [Released(jobs[JobOf(c)], FALSE) EXCEPT
                    !.cleanup = TRUE, !.retries = NextRetry(@)])
    /\ End(c) \/ UNCHANGED runs
    /\ UNCHANGED <<claimsOn, lastClaim, settledBy>>

CleanupScheduled(c) ==
    /\ Settling(c) /\ Retryable(c) /\ CleanupMode(c)
    /\ \/ runs[c].cancelled
       \/ jobs[JobOf(c)].status = "pending" /\ jobs[JobOf(c)].cleanup
    /\ End(c)
    /\ UNCHANGED <<jobs, claimsOn, lastClaim, settledBy>>

\* RetryJob / RetryTemplateProvisionJob of an ordinary job.  A lost answer is
\* taken for a failure: the execution goes on to the terminal write, except for
\* template_provision, which leaves the row to recovery.
AfterRetryError(c) == IF Type[JobOf(c)] = "template_provision" THEN End(c) ELSE Goto(c, "failing")

OrdinaryRetry(c) == Settling(c) /\ ~CleanupMode(c) /\ Retryable(c) /\ WithinBudget(c)

ScheduleRetry(c) ==
    /\ OrdinaryRetry(c) /\ Owns(c) /\ ~runs[c].cancelled
    /\ Type[JobOf(c)] = "template_provision" => jobs[JobOf(c)].status = "in_progress"
    /\ Write(c, [Released(jobs[JobOf(c)], FALSE) EXCEPT
                    !.cleanup = FALSE, !.retries = NextRetry(@)])
    /\ End(c) \/ AfterRetryError(c)
    /\ UNCHANGED <<claimsOn, lastClaim, settledBy>>

RetryFails(c) ==
    /\ OrdinaryRetry(c)
    /\ AfterRetryError(c)
    /\ UNCHANGED <<jobs, claimsOn, lastClaim, settledBy>>

\* Terminal failure: not retryable, out of budget, or RetryJob failed.
MayFail(c) ==
    \/ runs[c].pc = "failing"
    \/ Settling(c) /\ ~(Retryable(c) /\ (CleanupMode(c) \/ WithinBudget(c)))
    \/ Settling(c) /\ Type[JobOf(c)] = "image_import" /\ ~CleanupMode(c) /\ Retryable(c)

FailJob(c) ==
    /\ MayFail(c)
    /\ SetTerminal(c, "failed")
    /\ End(c)
    /\ UNCHANGED <<claimsOn, lastClaim>>

FailureLost(c) ==
    /\ MayFail(c)
    /\ End(c)
    /\ UNCHANGED <<jobs, claimsOn, lastClaim, settledBy>>

\* The worker process dies or is shut down at any point of the execution.
Crash(c) ==
    /\ Live(c)
    /\ End(c)
    /\ UNCHANGED <<jobs, claimsOn, lastClaim, settledBy>>

-----------------------------------------------------------------------------
JobStep(j) ==
    \/ \E cleanupOnly \in BOOLEAN : CreateJob(j, cleanupOnly)
    \/ CancelPristine(j) \/ RequeueDestroy(j)
    \/ BecomeDue(j) \/ LeaseExpires(j)
    \/ \E c \in Tokens : ClaimJob(c, j)

LifecycleStep(c) ==
    \/ StartBody(c) \/ StartFails(c)
    \/ \E out \in Outcomes : BodyReturns(c, out)
    \/ CompleteJob(c) \/ CompletionLost(c)
    \/ ScheduleCleanup(c) \/ CleanupScheduled(c)
    \/ ScheduleRetry(c) \/ RetryFails(c)
    \/ FailJob(c) \/ FailureLost(c)

RunStep(c) ==
    \/ LifecycleStep(c)
    \/ RenewJobLease(c) \/ CancelRun(c) \/ Crash(c)
    \/ SaveRollbackSteps(c) \/ ArmCleanup(c) \/ DisarmCleanup(c) \/ HandoffRollbackStep(c)

Next ==
    \/ SetProvisioningClaims \/ RecoverStaleJobs
    \/ \E j \in Jobs : JobStep(j)
    \/ \E c \in Tokens : RunStep(c)

Spec == Init /\ [][Next]_vars

(***************************************************************************)
(* Fairness the worker justifies: an execution goes on (its external calls *)
(* have deadlines) or its heartbeat tells it that it lost the row, clocks  *)
(* advance, the recovery ticker fires, and a claim loop keeps polling; a   *)
(* retried row sleeps for at least 30s, so polling reaches every row.      *)
(***************************************************************************)
Fairness ==
    /\ WF_vars(RecoverStaleJobs)
    /\ \A j \in Jobs : /\ WF_vars(BecomeDue(j))
                       /\ WF_vars(LeaseExpires(j))
                       /\ SF_vars(\E c \in Tokens : ClaimJob(c, j))
    /\ \A c \in Tokens : /\ WF_vars(LifecycleStep(c))
                         /\ WF_vars(Live(c) /\ ~Owns(c) /\ CancelRun(c))

FairSpec == Spec /\ Fairness

-----------------------------------------------------------------------------
(* Properties *)

\* A row's final state was written by its newest claim: an execution that was
\* superseded by lease recovery can neither complete nor fail the job.
SettledByLatestClaim ==
    \A j \in Jobs : settledBy[j] # None =>
        jobs[j].status \in Terminal /\ settledBy[j] = lastClaim[j]

\* An ordinary retry is granted only below max_retries, although executions
\* decide from the retry_count they read when they claimed.
OrdinaryRetriesBounded ==
    [][\A j \in Jobs :
           jobs'[j].retries > jobs[j].retries /\ ~jobs'[j].cleanup /\ Type[j] # "image_import"
               => jobs[j].retries < MaxRetries]_vars

\* cleanup_only is retracted only by the running execution that owns the row,
\* never by one that lost its lease and never while the row is parked.
CleanupIntentKept ==
    [][\A j \in Jobs : jobs[j].cleanup /\ ~jobs'[j].cleanup =>
           /\ jobs[j].status = "in_progress"
           /\ \E c \in Tokens : jobs[j].owner = c /\ Live(c) /\ JobOf(c) = j]_vars

\* An active row can always be recovered: recoverStaleJobsSQL skips rows with
\* completed_at set, so no retry, requeue or handoff may leave it behind.
ActiveIsRecoverable ==
    \A j \in Jobs : jobs[j].status \in Active => ~jobs[j].done /\ jobs[j].owner # None

\* The retry_count an execution read when it claimed is still that of the row
\* it owns, and past its start the row is in_progress: no other writer changes
\* the row behind the owner's back.
OwnerSeesItsRow ==
    \A c \in Tokens : Live(c) /\ Owns(c) =>
        /\ runs[c].retries = jobs[JobOf(c)].retries
        /\ runs[c].pc = "claimed" <=> jobs[JobOf(c)].status = "claimed"

\* The parts of the inductive invariant that are not properties themselves.
RunsHaveJobs == \A c \in Tokens : Live(c) => JobOf(c) \in Jobs

OwnerIsLatestClaim == \A j \in Jobs : jobs[j].owner # None => lastClaim[j] = jobs[j].owner

OwnerRunsItsJob == \A j \in Jobs, c \in Tokens : jobs[j].owner = c /\ Live(c) => JobOf(c) = j

DoneIsTerminal == \A j \in Jobs : jobs[j].done => jobs[j].status \in Terminal

AbsentIsPlain == \A j \in Jobs : jobs[j].status = "absent" => ~jobs[j].cleanup

\* The inductive invariant behind the properties above.
IInv ==
    /\ TypeOK
    /\ SettledByLatestClaim /\ ActiveIsRecoverable /\ OwnerSeesItsRow
    /\ RunsHaveJobs /\ OwnerIsLatestClaim /\ OwnerRunsItsJob
    /\ DoneIsTerminal /\ AbsentIsPlain

\* No row stays claimed for ever, whatever crashes, lost answers and refused
\* completions happen on the way.
NoJobHeldForever ==
    \A j \in Jobs : jobs[j].status \in Active ~> jobs[j].status \notin Active

\* A row parked for cleanup is claimed eventually, also while provisioning
\* claims are switched off for maintenance.
CleanupIsServed ==
    \A j \in Jobs : jobs[j].status = "pending" /\ jobs[j].cleanup ~> jobs[j].status \in Active

\* The queue as its users see it: a row is granted while it is active, an
\* execution works on its job until it ends.
StateOf(row) ==
    CASE row.status \in {"pending", "rollback"} -> "waiting"
      [] row.status \in Active -> "held"
      [] OTHER -> row.status
HolderOf(row) == IF row.status \in Active THEN row.owner ELSE None
WorkOf(run) == IF run.pc = "idle" THEN None ELSE run.job

JobStates == [j \in Jobs |-> StateOf(jobs[j])]
JobHolders == [j \in Jobs |-> HolderOf(jobs[j])]
RunsAtWork == [c \in Tokens |-> WorkOf(runs[c])]

Abstract == INSTANCE Queue WITH
    state <- JobStates, holder <- JobHolders, working <- RunsAtWork,
    Withdrawable <- {j \in Jobs : Type[j] = "pod_create"},
    Restartable <- {j \in Jobs : Type[j] = "pod_destroy"},
    HandsOff <- {j \in Jobs : Type[j] = "pod_create"}

\* The queue keeps its promise: whatever leases expire, answers are lost and
\* superseded executions still do, only the execution a job was granted to
\* last finishes it or gives it back.
ImplementsQueue == Abstract!Spec
=============================================================================
