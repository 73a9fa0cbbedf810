------------------------------ MODULE TestRun ------------------------------
(***************************************************************************)
(* Assessment runs of one pod: the API that creates and cancels them, the   *)
(* engine's processors, its watchdog and start-up recovery, the runner Jobs *)
(* in Kubernetes and the callbacks the runners post.                        *)
(*                                                                         *)
(* The engine starts ProcessPendingRuns from a NATS callback, from a ticker *)
(* and once at start-up, so several processors run at once.  Every write of *)
(* a run's status is unconditional except the claim and the requeue.        *)
(*                                                                         *)
(* Left out: which final status a run gets (completed, failed, timeout and  *)
(* cancelled are all "ended") and which verdict a workflow (pass, fail,     *)
(* error, timeout and cancelled are all "done"), the runner's address lease *)
(* and the Secret beside each Job.                                          *)
(***************************************************************************)
EXTENDS Naturals, FiniteSets

CONSTANTS
    Runs,        \* run ids, in order of creation
    Procs,       \* concurrent calls of ProcessPendingRuns
    Playlist,    \* the execution modes of the workflows of each run's playlist
    MaxJobs,     \* MaxConcurrentRunners, 0: unlimited
    MaxActive,   \* maxConcurrentRuns of the API
    MaxCrashes   \* bound: crashes of the engine

ASSUME RunsOrdered == Runs \subseteq Nat \ {0} /\ IsFiniteSet(Runs)
ASSUME PlaylistModes == Playlist \in [Runs -> (SUBSET {"kali", "tools"}) \ {{}}]
ASSUME RunLimits == {MaxJobs, MaxActive, MaxCrashes} \subseteq Nat

VARIABLES
    run,        \* runs: the status of each
    results,    \* workflow_results of each run, one per execution mode
    request,    \* where the API request that creates each run is
    proc,       \* ProcessPendingRuns
    stale,      \* the watchdog's list of stale runs
    up,         \* the engine process is up
    crashes,
    job,        \* the runner Job of each run; "unnamed": runs.runner_pod_name is not set
    runner      \* where the runner is

vars == <<run, results, request, proc, stale, up, crashes, job, runner>>
engineVars == <<proc, stale, up, crashes>>

ActiveRun == {"pending", "provisioning", "running"}
Open == {"pending", "running"}
Modes == {"kali", "tools"}
Live == {"active", "unnamed"}

\* The types of the state.
TypeOK ==
    /\ run \in [Runs -> ActiveRun \cup {"none", "ended"}]
    /\ results \in [Runs -> [Modes -> Open \cup {"none", "done"}]]
    /\ request \in [Runs -> {"none", "admitted", "created", "done"}]
    /\ proc \in [Procs -> [at : {"idle", "claimed", "load", "start", "dispatch", "finalize",
                                 "provision", "full", "fail"}, run : Runs \cup {0}]]
    /\ stale \subseteq Runs
    /\ up \in BOOLEAN /\ crashes \in 0 .. MaxCrashes
    /\ job \in [Runs -> Live \cup {"none", "gone"}]
    /\ runner \in [Runs -> {"acting", "judged", "reported"}]

Idle == [at |-> "idle", run |-> 0]

Init ==
    /\ run = [r \in Runs |-> "none"]
    /\ results = [r \in Runs |-> [w \in Modes |-> "none"]]
    /\ request = [r \in Runs |-> "none"]
    /\ proc = [p \in Procs |-> Idle]
    /\ stale = {}
    /\ up = TRUE /\ crashes = 0
    /\ job = [r \in Runs |-> "none"]
    /\ runner = [r \in Runs |-> "acting"]

-----------------------------------------------------------------------------
\* Rows.

UpdateRunStatus(r, s) == run' = [run EXCEPT ![r] = s]

HasActiveRun == \E r \in Runs : run[r] \in ActiveRun
CountActiveRuns == Cardinality({r \in Runs : run[r] \in ActiveRun})

\* Mutant: a run whose engine died while provisioning is nobody's.
StaleRunning(r) == run[r] = "running"
FindStaleRuns(r) == run[r] \in {"provisioning", "running"}

TimeoutPendingWorkflowResults(r) ==
    [results EXCEPT ![r] = [w \in Modes |-> IF @[w] \in Open THEN "done" ELSE @[w]]]

InsertWorkflowResult(r, ws) ==
    results' = [results EXCEPT ![r] = [w \in Modes |-> IF w \in ws THEN "pending" ELSE @[w]]]

UpdateWorkflowResultBySlug(r, w, s) ==
    results' = [results EXCEPT ![r][w] = IF @ = "none" THEN @ ELSE s]

AppendActionResult(r, w) == UpdateWorkflowResultBySlug(r, w, "running")

-----------------------------------------------------------------------------
\* The API.

\* The checks of CreateTestingRun; nothing holds them until the insert.
CreateTestingRun(r) ==
    /\ request[r] = "none" /\ \A q \in Runs : q < r => request[q] # "none"
    /\ ~HasActiveRun /\ CountActiveRuns < MaxActive
    /\ request' = [request EXCEPT ![r] = "admitted"]
    /\ UNCHANGED <<run, results, engineVars, job, runner>>

CreateRun(r) ==
    /\ request[r] = "admitted" /\ \A q \in Runs : q < r => request[q] # "admitted"
    /\ UpdateRunStatus(r, "pending")
    /\ request' = [request EXCEPT ![r] = "created"]
    /\ UNCHANGED <<results, engineVars, job, runner>>

\* After the insert, for a pod on a shared network: no address is left, or
\* the lease cannot be written.  The engine may have the run by now.
LeaseRunnerIP(r) ==
    /\ request[r] = "created"
    /\ request' = [request EXCEPT ![r] = "done"]
    /\ UpdateRunStatus(r, "ended") \/ UNCHANGED run
    /\ UNCHANGED <<results, engineVars, job, runner>>

\* Nothing stops the runner.  The status is read before and not checked
\* again: ending a run that ended since changes nothing told apart here.
CancelTestingRun(r) ==
    /\ request[r] = "done" /\ run[r] \in ActiveRun
    /\ UpdateRunStatus(r, "ended")
    /\ UNCHANGED <<results, request, engineVars, job, runner>>

-----------------------------------------------------------------------------
\* The engine: one call of ProcessPendingRuns and the run it executes.

At(p, pc) == up /\ proc[p].at = pc
Goes(p, pc) == proc' = [proc EXCEPT ![p].at = pc]
Returns(p) == proc' = [proc EXCEPT ![p] = Idle]
Quiet == UNCHANGED <<request, stale, up, crashes, runner>>

ClaimPendingRun(p) ==
    /\ At(p, "idle")
    /\ \E r \in Runs :
         /\ run[r] = "pending" /\ \A q \in Runs : q < r => run[q] # "pending"
         /\ UpdateRunStatus(r, "provisioning")
         /\ proc' = [proc EXCEPT ![p] = [at |-> "claimed", run |-> r]]
    /\ UNCHANGED <<results, job>> /\ Quiet

\* A Job counts until it completes or fails.
CountActiveRunnerJobs == Cardinality({r \in Runs : job[r] \in Live})
AtCapacity == MaxJobs > 0 /\ CountActiveRunnerJobs >= MaxJobs

\* Mutant: a run is requeued whatever became of it.
RequeueAnyRun(p) == UpdateRunStatus(proc[p].run, "pending")

\* Back to pending while it is still only claimed; failed otherwise.
RequeueClaimedRun(p) ==
    UpdateRunStatus(proc[p].run, IF run[proc[p].run] = "provisioning" THEN "pending" ELSE "ended")

\* The gate before anything is written.
EnsureRunnerCapacity(p) ==
    /\ At(p, "claimed")
    /\ IF AtCapacity THEN RequeueClaimedRun(p) /\ Returns(p)
                     ELSE Goes(p, "load") /\ UNCHANGED run
    /\ UNCHANGED <<results, job>> /\ Quiet

\* The workflows of the playlist that are active; kali ones come first.
GetWorkflowsForPlaylist(r) == SUBSET Playlist[r]

\* Actions, version snapshots and one pending result per workflow; the error
\* of any of them leaves the results inserted so far.
LoadWorkflows(p) ==
    LET r == proc[p].run
    IN  /\ At(p, "load")
        /\ \E active \in GetWorkflowsForPlaylist(r) : \E ws \in SUBSET active :
              /\ InsertWorkflowResult(r, ws)
              /\ \/ Goes(p, "fail") /\ (active = {} \/ ws # active)
                 \/ Goes(p, "start") /\ ws = active /\ active # {}
        /\ UNCHANGED <<run, job>> /\ Quiet

HasMode(r, w) == results[r][w] # "none"

StartRun(p) ==
    /\ At(p, "start")
    /\ UpdateRunStatus(proc[p].run, "running")
    /\ Goes(p, IF HasMode(proc[p].run, "tools") THEN "dispatch" ELSE "provision")
    /\ UNCHANGED <<results, job>> /\ Quiet

\* Exit code 0, another one, a timeout, or no result at all: a verdict.
ClassifyGuestResult == "done"

\* Each guest script runs to its verdict; a result that cannot be stored is
\* logged and leaves the row as it is.
Dispatch(r) == UpdateWorkflowResultBySlug(r, "tools", ClassifyGuestResult) \/ UNCHANGED results

\* In-process execution of the vmware_tools workflows; without a dispatcher
\* they are in error, without a target they stay as they are.
DispatchVMwareTools(p) ==
    LET r == proc[p].run
    IN  /\ At(p, "dispatch")
        /\ Dispatch(r)
        /\ Goes(p, IF HasMode(r, "kali") THEN "provision" ELSE "finalize")
        /\ UNCHANGED <<run, job>> /\ Quiet

FinalizeRunFromCounts(p) ==
    /\ At(p, "finalize")
    /\ UpdateRunStatus(proc[p].run, "ended") /\ Returns(p)
    /\ UNCHANGED <<results, job>> /\ Quiet

\* The pod's VLAN, network mode and address lease, the target VM, the action
\* library and the network attachment: any of them may be missing.
Unresolved(p) == Goes(p, "fail") /\ UNCHANGED job

\* SetRunnerPodName: its error, or a crash before it, leaves the Job unknown
\* to the run.
CreateRunnerJob(r) == \E j \in Live : job' = [job EXCEPT ![r] = j]

\* The capacity again, then the Secret and the Job.
ProvisionRunner(p) ==
    /\ At(p, "provision")
    /\ \/ Unresolved(p)
       \/ AtCapacity /\ Goes(p, "full") /\ UNCHANGED job
       \/ ~AtCapacity /\ CreateRunnerJob(proc[p].run) /\ Returns(p)
    /\ UNCHANGED <<run, results>> /\ Quiet

\* At capacity after the run was started: the requeue is refused.
FullAfterStart(p) ==
    /\ At(p, "full")
    /\ RequeueClaimedRun(p) /\ Returns(p)
    /\ UNCHANGED <<results, job>> /\ Quiet

\* ProcessPendingRuns ignores the error of this write.
FailRun(p) ==
    /\ At(p, "fail")
    /\ UpdateRunStatus(proc[p].run, "ended") \/ UNCHANGED run
    /\ Returns(p)
    /\ UNCHANGED <<results, job>> /\ Quiet

ExecuteRun(p) ==
    \/ ClaimPendingRun(p) \/ EnsureRunnerCapacity(p) \/ LoadWorkflows(p) \/ StartRun(p)
    \/ DispatchVMwareTools(p) \/ FinalizeRunFromCounts(p) \/ ProvisionRunner(p)
    \/ FullAfterStart(p) \/ FailRun(p)

-----------------------------------------------------------------------------
\* Watchdog, crash and recovery.

\* Only of a run that knows its Job; the deletes may fail.
CleanupRunner(r) == IF job[r] = "active" THEN job' \in {job, [job EXCEPT ![r] = "gone"]} ELSE UNCHANGED job

FindTimedOutRuns ==
    /\ up /\ stale = {}
    /\ stale' = {r \in Runs : FindStaleRuns(r)} /\ stale' # {}
    /\ UNCHANGED <<run, results, request, proc, up, crashes, job, runner>>

\* Cleanup, status, results, with the list read before.
CheckForTimeouts(r) ==
    /\ up /\ r \in stale
    /\ stale' = stale \ {r}
    /\ CleanupRunner(r)
    /\ UpdateRunStatus(r, "ended")
    /\ results' = TimeoutPendingWorkflowResults(r)
    /\ UNCHANGED <<request, proc, up, crashes, runner>>

Dies ==
    /\ crashes < MaxCrashes
    /\ up' = FALSE /\ crashes' = crashes + 1
    /\ proc' = [p \in Procs |-> Idle]
    /\ stale' = {}
    /\ UNCHANGED <<run, request, job, runner>>

EngineCrash == up /\ Dies /\ UNCHANGED results

\* Shutdown between two guest scripts: the rest is recorded as cancelled.
RecordCancelled(r) == UpdateWorkflowResultBySlug(r, "tools", "done")

EngineShutdown(p) == At(p, "dispatch") /\ Dies /\ RecordCancelled(proc[p].run)

\* Start-up: the runs that are old enough by then are failed.
RecoverStaleRuns ==
    /\ ~up /\ up' = TRUE
    /\ \E old \in SUBSET {r \in Runs : FindStaleRuns(r)} :
         /\ run' = [r \in Runs |-> IF r \in old THEN "ended" ELSE run[r]]
         /\ job' = [r \in Runs |-> IF r \in old /\ job[r] = "active" THEN "gone" ELSE job[r]]
    /\ UNCHANGED <<results, request, proc, stale, crashes, runner>>

-----------------------------------------------------------------------------
\* Kubernetes and the runner.

\* The pod ends, or the deadline of the Job does it; the orphan cleanup
\* deletes what is left of it.
JobEnds(r) ==
    /\ job[r] \in Live
    /\ job' = [job EXCEPT ![r] = "gone"]
    /\ UNCHANGED <<run, results, request, engineVars, runner>>

HandleAction(r) ==
    /\ AppendActionResult(r, "kali")
    /\ UNCHANGED <<run, job>>

HandleWorkflow(r) ==
    /\ UpdateWorkflowResultBySlug(r, "kali", "done")
    /\ UNCHANGED <<run, job>>

HandleComplete(r) ==
    /\ UpdateRunStatus(r, "ended")
    /\ CleanupRunner(r)
    /\ UNCHANGED results

\* A post that all retries leave without an answer may be applied or not.
Unanswered == UNCHANGED <<run, results, job>>

Posts(r, from, to) ==
    /\ job[r] \in Live /\ runner[r] = from
    /\ runner' = [runner EXCEPT ![r] = to]
    /\ UNCHANGED <<request, engineVars>>

ReportAction(r) ==
    /\ Posts(r, "acting", "acting")
    /\ (up /\ HandleAction(r)) \/ Unanswered

\* The verdict of RunWorkflow; a failed setup reports no action before it.
ReportWorkflow(r) ==
    /\ Posts(r, "acting", "judged")
    /\ (up /\ HandleWorkflow(r)) \/ Unanswered

ReportComplete(r) ==
    /\ Posts(r, "judged", "reported")
    /\ (up /\ HandleComplete(r)) \/ Unanswered

-----------------------------------------------------------------------------
Client(r) == CreateTestingRun(r) \/ CreateRun(r) \/ LeaseRunnerIP(r) \/ CancelTestingRun(r)

Runner(r) == ReportAction(r) \/ ReportWorkflow(r) \/ ReportComplete(r)

Next ==
    \/ \E r \in Runs : Client(r) \/ Runner(r) \/ CheckForTimeouts(r) \/ JobEnds(r)
    \/ \E p \in Procs : ExecuteRun(p) \/ EngineShutdown(p)
    \/ FindTimedOutRuns \/ EngineCrash \/ RecoverStaleRuns

\* The tickers of the engine and the deadline of the Job; nothing is assumed
\* of requests, runners or of an engine that stays down.
Spec ==
    /\ Init /\ [][Next]_vars
    /\ \A p \in Procs : WF_vars(ExecuteRun(p))
    /\ \A r \in Runs : WF_vars(CheckForTimeouts(r)) /\ WF_vars(JobEnds(r))
    /\ WF_vars(FindTimedOutRuns) /\ WF_vars(RecoverStaleRuns)

-----------------------------------------------------------------------------
\* executeRun fails on capacity "BEFORE any run mutation so
\* ProcessPendingRuns can requeue a still-provisioning claim without
\* orphaning workflow_results" (engine.go): a run waiting in the queue, or
\* about to get its results, has none, and no two processors share a run.
ExecutedOnce ==
    /\ \A r \in Runs : run[r] = "pending" => \A w \in Modes : results[r][w] = "none"
    /\ \A p \in Procs : proc[p].at \in {"claimed", "load"} => ~\E w \in Modes : HasMode(proc[p].run, w)
    /\ \A p, q \in Procs : proc[p].at # "idle" /\ proc[p].run = proc[q].run => p = q

\* An accepted run ends, whatever the engine, the runner and Kubernetes do:
\* processors, watchdog and start-up recovery together leave no run behind.
EveryRunEnds == \A r \in Runs : (run[r] = "pending") ~> (run[r] = "ended")

\* "A terminal run must not have non-terminal children." (engine.go): once
\* nothing is still working on it, a finished run has no open result.
FinishedIsClosed ==
    \A r \in Runs : (/\ run[r] = "ended" /\ job[r] \notin Live
                      /\ r \notin stale /\ \A p \in Procs : proc[p].run # r)
                    => \A w \in Modes : results[r][w] \notin Open

-----------------------------------------------------------------------------
\* The inductive invariant of the proofs.

\* Before its insert a run is nowhere, and nothing is written for it.
NotYetInserted ==
    \A r \in Runs :
        /\ request[r] \in {"none", "admitted"} <=> run[r] = "none"
        /\ run[r] = "none" => /\ job[r] = "none" /\ r \notin stale
                              /\ \A w \in Modes : results[r][w] = "none"

\* A processor's run is not in the queue, and once it was started it is not
\* merely claimed again.
HeldRuns ==
    \A p \in Procs :
        IF proc[p].at = "idle" THEN proc[p].run = 0
        ELSE /\ proc[p].run \in Runs /\ run[proc[p].run] \notin {"none", "pending"}
             /\ proc[p].at \in {"dispatch", "finalize", "provision", "full"} =>
                   run[proc[p].run] \in {"running", "ended"}

IInv == TypeOK /\ NotYetInserted /\ HeldRuns /\ ExecutedOnce
=============================================================================
